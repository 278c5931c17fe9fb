------------------------- MODULE Maintenance_proofs -------------------------
(***************************************************************************)
(* One row per slot, and an audit that says what a preflight would: what   *)
(* is proved of Maintenance for any number of deliveries and slots beside  *)
(* any number of applies, and what these keep beside it.                   *)
(***************************************************************************)
EXTENDS Maintenance, Lease_proofs, FiniteSetTheorems

MaintenanceInv == IInv /\ MaintenanceTypeOK /\ ReportsStoredRun

-----------------------------------------------------------------------------
(* The mutation path's invariant survives maintenance *)

LEMMA IInvBesideMaintenance ==
    ASSUME IInv, UNCHANGED applyState, oidcJti' \in SUBSET oidcJti,
           faults' = faults \/ \E kind \in FaultKind : Inject(kind)
    PROVE  IInv'
<1>1. TablesOK'
  BY DEF IInv, TablesOK, StoreTypeOK, IntentsMeanSomething, applyState
<1>2. RequestsOK'
  <2>1. req' = req /\ mutationIntents' = mutationIntents
    BY DEF applyState
  <2>2. ASSUME NEW r \in Req
        PROVE  PlacedAt(r)'
    <3>1. \A k \in Key : Change(r, k)' = Change(r, k)
      BY <2>1, ChangeStable
    <3>2. PlacedAt(r) /\ req[r] \in Request
      BY DEF IInv, RequestsOK
    <3>3. \A k \in req[r].keys : k \in Key
      BY <3>2 DEF Request
    <3>4. QED
      BY <2>1, <3>1, <3>2, <3>3 DEF PlacedAt
  <2>3. QED
    BY <2>1, <2>2 DEF IInv, RequestsOK
<1>3. faults' \in 0..MaxFaults /\ faults' >= faults
  BY ApplyAssumption DEF IInv, WorldOK, Inject
<1>4. WorldOK'
  <2>1. policy \in Nat /\ faults \in Nat /\ faults' \in Nat
    BY <1>3, StoreAssumption, ApplyAssumption DEF IInv, WorldOK
  <2>2. QED
    BY <1>3, <2>1 DEF IInv, WorldOK, applyState
<1>5. WireHasIntent'
  BY DEF IInv, WireHasIntent, applyState
<1>6. QED
  BY <1>1, <1>2, <1>4, <1>5 DEF IInv

-----------------------------------------------------------------------------
(* What a delivery does *)

\* A delivery changes its own state only, keeps its report or ends with one, and
\* stores at most the row of its own slot, when there is none.
Moves(d) ==
    /\ \E state \in DeliveryState :
          /\ delivery' = [delivery EXCEPT ![d] = state]
          /\ state.report \in {NoRun, delivery[d].report, Slotted(d)'}
    /\ \/ UNCHANGED maintenanceRuns
       \/ StoreBatch(d)
    /\ \/ UNCHANGED audited
       \/ \E row \in [quiet: SUBSET RecordSet, sound: SUBSET RecordSet] :
             audited' = [audited EXCEPT ![d] = row]

LEMMA FindingsTyped ==
    ASSUME NEW k \in Key, NEW seen
    PROVE  KeyFindings(k, seen) \in SUBSET Finding
BY DEF KeyFindings, RowFinding, Finding

LEMMA DeliveryTyped ==
    ASSUME MaintenanceTypeOK, NEW d \in Delivery
    PROVE  /\ delivery[d] \in DeliveryState
           /\ Slotted(d) \in Run \cup {NoRun}
           /\ audited[d] \in [quiet: SUBSET RecordSet, sound: SUBSET RecordSet]
           /\ SlotOf[d] \in Slot
BY MaintenanceAssumption DEF MaintenanceTypeOK, Slotted

LEMMA DoneTyped ==
    ASSUME NEW run \in Run \cup {NoRun}
    PROVE  Done(run) \in DeliveryState /\ Done(run).report = run
<1>1. NewDelivery \in DeliveryState
  BY DEF NewDelivery, DeliveryState, Run, NothingSeen, ProviderView
<1>2. QED
  BY <1>1 DEF Done, DeliveryState

\* Every step of a delivery is such a move, and touches nothing of the mutation
\* path but expired tokens and the count of faults.
LEMMA DeliveryMoves ==
    ASSUME IInv, MaintenanceTypeOK, NEW d \in Delivery, DeliveryStep(d)
    PROVE  /\ Moves(d)
           /\ UNCHANGED applyState
           /\ oidcJti' \in SUBSET oidcJti
           /\ faults' = faults \/ \E kind \in FaultKind : Inject(kind)
<1> DEFINE own == delivery[d]
<1>1. /\ own \in DeliveryState /\ Slotted(d) \in Run \cup {NoRun}
      /\ audited[d] \in [quiet: SUBSET RecordSet, sound: SUBSET RecordSet]
      /\ SlotOf[d] \in Slot
  BY DeliveryTyped
<1>2. own.run \in Run /\ own.report \in Run \cup {NoRun}
  BY <1>1 DEF DeliveryState
<1>3. provider \in ProviderView
  BY DEF IInv, WorldOK
<1>4. ASSUME NEW step \in {"clean", "reread"}, Proceed(d, step)
      PROVE  \E state \in DeliveryState :
                /\ delivery' = [delivery EXCEPT ![d] = state]
                /\ state.report = own.report
  <2> DEFINE state == [own EXCEPT !.pc = step]
  <2>1. state \in DeliveryState /\ state.report = own.report
    BY <1>1 DEF DeliveryState
  <2>2. delivery' = [delivery EXCEPT ![d] = state]
    BY <1>4 DEF Proceed
  <2>3. QED
    BY <2>1, <2>2
<1>5. ASSUME NEW run \in Run \cup {NoRun}, Report(d, run)
      PROVE  \E state \in DeliveryState :
                /\ delivery' = [delivery EXCEPT ![d] = state]
                /\ state.report = run
  BY <1>5, DoneTyped DEF Report
<1>6. ASSUME Forget(d)
      PROVE  \E row \in [quiet: SUBSET RecordSet, sound: SUBSET RecordSet] :
                audited' = [audited EXCEPT ![d] = row]
  BY <1>6 DEF Forget, Unaudited
<1>7. CASE ReadPrior(d)
  <2>1. UNCHANGED <<vars, maintenanceRuns, audited>>
    BY <1>7 DEF ReadPrior
  <2>2. Slotted(d)' = Slotted(d)
    BY <2>1 DEF Slotted
  <2>3. Report(d, Slotted(d)) \/ Proceed(d, "clean")
    BY <1>7 DEF ReadPrior
  <2>4. QED
    BY <1>1, <1>4, <1>5, <2>1, <2>2, <2>3 DEF Moves, vars, tables, applyState
<1>8. CASE Clean(d)
  <2> DEFINE jtis == Cardinality(oidcJti \cap ExpiredAt[SlotOf[d]])
             state == [own EXCEPT !.pc = "inventory", !.run.jtis = jtis]
  <2>1. jtis \in Nat
    <3>1. IsFiniteSet(oidcJti \cap ExpiredAt[SlotOf[d]])
      BY MaintenanceAssumption, FS_Subset DEF IInv, TablesOK, StoreTypeOK
    <3>2. QED
      BY <3>1, FS_CardinalityType
  <2>2. [own.run EXCEPT !.jtis = jtis] \in Run
    BY <1>2, <2>1 DEF Run
  <2>3. state \in DeliveryState /\ state.report = own.report
    BY <1>1, <2>2 DEF DeliveryState
  <2>4. delivery' = [delivery EXCEPT ![d] = state]
    BY <1>8 DEF Clean
  <2>5. QED
    BY <1>8, <2>3, <2>4 DEF Moves, Clean, DeleteExpired
<1>9. CASE TakeInventory(d)
  <2>1. PICK complete \in BOOLEAN :
           /\ IF complete THEN UNCHANGED faults ELSE Inject("read")
           /\ delivery' = [delivery EXCEPT ![d].pc = "audit", ![d].todo = Zone,
                                           ![d].run.inventory = complete]
    BY <1>9 DEF TakeInventory
  <2> DEFINE state == [own EXCEPT !.pc = "audit", !.todo = Zone,
                                  !.run.inventory = complete]
  <2>2. [own.run EXCEPT !.inventory = complete] \in Run
    BY <1>2 DEF Run
  <2>3. state \in DeliveryState /\ state.report = own.report
    BY <1>1, <2>2 DEF DeliveryState
  <2>4. delivery' = [delivery EXCEPT ![d] = state]
    BY <2>1
  <2>5. QED
    BY <1>9, <2>1, <2>3, <2>4 DEF Moves, TakeInventory, FaultKind
<1>10. ASSUME NEW z \in Zone, ListZone(d, z)
       PROVE  Moves(d) /\ UNCHANGED vars
  <2> DEFINE seen == [k \in Key |-> IF KeyZone(k) = z THEN provider[k]
                                    ELSE own.seen[k]]
             state == [own EXCEPT !.todo = @ \ {z}, !.listed = @ \cup {z},
                                  !.seen = seen]
             row == [audited[d] EXCEPT
                       !.quiet = @ \cup (SetsIn(z) \cap Free),
                       !.sound = @ \cup {s \in SetsIn(z) :
                                           SetVerified(s, managedRecords, provider)}]
  <2>1. seen \in ProviderView
    BY <1>1, <1>3 DEF ProviderView, DeliveryState
  <2>2. state \in DeliveryState /\ state.report = own.report
    BY <1>1, <2>1 DEF DeliveryState
  <2>3. row \in [quiet: SUBSET RecordSet, sound: SUBSET RecordSet]
    BY <1>1 DEF SetsIn, Free
  <2>4. delivery' = [delivery EXCEPT ![d] = state]
    BY <1>10 DEF ListZone
  <2>5. audited' = [audited EXCEPT ![d] = row]
    BY <1>10 DEF ListZone
  <2>6. UNCHANGED <<vars, maintenanceRuns>>
    BY <1>10 DEF ListZone
  <2>7. QED
    BY <2>2, <2>3, <2>4, <2>5, <2>6 DEF Moves
<1>11. ASSUME NEW z \in Zone, ListingFails(d, z)
       PROVE  Moves(d)
  <2> DEFINE found == own.run.findings \cup {<<"zone_incomplete", z>>}
             state == [own EXCEPT !.todo = @ \ {z}, !.run.findings = found]
  <2>1. found \in SUBSET Finding
    BY <1>2 DEF Run, Finding
  <2>2. [own.run EXCEPT !.findings = found] \in Run
    BY <1>2, <2>1 DEF Run
  <2>3. state \in DeliveryState /\ state.report = own.report
    BY <1>1, <2>2 DEF DeliveryState
  <2>4. delivery' = [delivery EXCEPT ![d] = state]
    BY <1>11 DEF ListingFails
  <2>5. QED
    BY <1>11, <2>3, <2>4 DEF Moves, ListingFails
<1>12. CASE ReadRows(d)
  <2> DEFINE keys == {j \in Key : KeyZone(j) \in own.listed}
             found == own.run.findings \cup UNION {KeyFindings(k, own.seen) : k \in keys}
             state == [own EXCEPT !.pc = "orphans", !.listed = {},
                                  !.seen = NothingSeen, !.run.findings = found]
  <2>1. found \in SUBSET Finding
    BY <1>2, FindingsTyped DEF Run
  <2>2. [own.run EXCEPT !.findings = found] \in Run
    BY <1>2, <2>1 DEF Run
  <2>3. NothingSeen \in ProviderView
    BY DEF NothingSeen, ProviderView
  <2>4. state \in DeliveryState /\ state.report = own.report
    BY <1>1, <2>2, <2>3 DEF DeliveryState
  <2>5. delivery' = [delivery EXCEPT ![d] = state]
    BY <1>12 DEF ReadRows
  <2>6. QED
    BY <1>12, <2>4, <2>5 DEF Moves, ReadRows, vars, tables, applyState
<1>13. CASE ReadOrphans(d)
  <2> DEFINE found == own.run.findings \cup {<<"orphan_d1_row", k>> : k \in OrphanRows}
             state == [own EXCEPT !.pc = "store", !.run.findings = found]
  <2>1. found \in SUBSET Finding
    BY <1>2 DEF Run, Finding, OrphanRows
  <2>2. [own.run EXCEPT !.findings = found] \in Run
    BY <1>2, <2>1 DEF Run
  <2>3. state \in DeliveryState /\ state.report = own.report
    BY <1>1, <2>2 DEF DeliveryState
  <2>4. delivery' = [delivery EXCEPT ![d] = state]
    BY <1>13 DEF ReadOrphans
  <2>5. QED
    BY <1>13, <2>3, <2>4 DEF Moves, ReadOrphans, vars, tables, applyState
<1>14. CASE StoreRun(d)
  <2>1. UNCHANGED vars /\ Forget(d)
    BY <1>14 DEF StoreRun
  <2>2. CASE StoreBatch(d) /\ Report(d, own.run)
    <3>1. Slotted(d)' = own.run
      BY <1>1, <2>2 DEF StoreBatch, Slotted, MaintenanceTypeOK
    <3>2. QED
      BY <1>2, <1>5, <1>6, <2>1, <2>2, <3>1 DEF Moves, vars, tables, applyState
  <2>3. CASE Proceed(d, "reread") /\ UNCHANGED maintenanceRuns
    BY <1>4, <1>6, <2>1, <2>3 DEF Moves, vars, tables, applyState
  <2>4. QED
    BY <1>14, <2>2, <2>3 DEF StoreRun
<1>15. CASE Reread(d)
  <2>1. UNCHANGED <<vars, maintenanceRuns, audited>> /\ Report(d, Slotted(d))
    BY <1>15 DEF Reread
  <2>2. Slotted(d)' = Slotted(d)
    BY <2>1 DEF Slotted
  <2>3. QED
    BY <1>1, <1>5, <2>1, <2>2 DEF Moves, vars, tables, applyState
<1>16. CASE StoreFails(d)
  BY <1>4, <1>6, <1>16 DEF StoreFails, Moves, FaultKind
<1>17. CASE CleanupFails(d)
  BY <1>5, <1>17 DEF CleanupFails, DeleteExpired, Moves, FaultKind
<1>18. CASE DeliveryFails(d)
  BY <1>5, <1>6, <1>18 DEF DeliveryFails, Moves, FaultKind
<1>19. CASE \E z \in Zone : ListZone(d, z)
  BY <1>10, <1>19 DEF vars, tables, applyState
<1>20. CASE \E z \in Zone : ListingFails(d, z)
  BY <1>11, <1>20 DEF ListingFails, FaultKind
<1>21. QED
  BY <1>7, <1>8, <1>9, <1>12, <1>13, <1>14, <1>15, <1>16, <1>17, <1>18, <1>19,
     <1>20 DEF DeliveryStep

-----------------------------------------------------------------------------
(* The theorems *)

LEMMA MaintenanceStarts == MaintenanceInit => MaintenanceInv
<1> SUFFICES ASSUME MaintenanceInit PROVE MaintenanceInv
  OBVIOUS
<1>1. IInv
  BY IInvInit DEF MaintenanceInit
<1>2. NewDelivery \in DeliveryState /\ NewDelivery.report = NoRun
  BY DEF NewDelivery, DeliveryState, Run, NothingSeen, ProviderView
<1>3. MaintenanceTypeOK
  BY <1>2 DEF MaintenanceInit, MaintenanceTypeOK, Unaudited
<1>4. ReportsStoredRun
  BY <1>2 DEF MaintenanceInit, ReportsStoredRun
<1>5. QED
  BY <1>1, <1>3, <1>4 DEF MaintenanceInv

LEMMA WatchTyped ==
    ASSUME MaintenanceTypeOK, Watch
    PROVE  audited' \in [Delivery -> [quiet: SUBSET RecordSet,
                                      sound: SUBSET RecordSet]]
<1> DEFINE Kept(d) == [audited[d] EXCEPT
                         !.quiet = {s \in @ : operationLocks'[s] = NoOp}]
<1>1. ASSUME NEW d \in Delivery
      PROVE  {audited[d], Kept(d)} \subseteq [quiet: SUBSET RecordSet,
                                              sound: SUBSET RecordSet]
  BY DEF MaintenanceTypeOK
<1>2. audited' = [d \in Delivery |-> IF delivery[d].pc = "audit" THEN Kept(d)
                                     ELSE audited[d]]
  BY DEF Watch
<1>3. QED
  BY <1>1, <1>2

LEMMA MaintenanceSteps ==
    MaintenanceInv /\ [MaintenanceNext]_maintenanceVars => MaintenanceInv'
<1> SUFFICES ASSUME MaintenanceInv, [MaintenanceNext]_maintenanceVars
             PROVE  MaintenanceInv'
  OBVIOUS
<1>1. IInv /\ MaintenanceTypeOK /\ ReportsStoredRun
  BY DEF MaintenanceInv
<1>2. CASE ApplyStep
  <2>1. IInv'
    BY <1>1, <1>2, IInvNext DEF ApplyStep
  <2>2. MaintenanceTypeOK'
    BY <1>1, <1>2, WatchTyped DEF ApplyStep, MaintenanceTypeOK
  <2>3. ReportsStoredRun'
    BY <1>1, <1>2 DEF ApplyStep, ReportsStoredRun, Slotted
  <2>4. QED
    BY <2>1, <2>2, <2>3 DEF MaintenanceInv
<1>3. ASSUME NEW d \in Delivery, DeliveryStep(d)
      PROVE  MaintenanceInv'
  <2>1. /\ Moves(d) /\ UNCHANGED applyState /\ oidcJti' \in SUBSET oidcJti
        /\ faults' = faults \/ \E kind \in FaultKind : Inject(kind)
    BY <1>1, <1>3, DeliveryMoves
  <2>2. IInv'
    BY <1>1, <2>1, IInvBesideMaintenance
  <2>3. delivery[d].run \in Run /\ SlotOf[d] \in Slot
    BY <1>1, DeliveryTyped DEF DeliveryState
  <2>4. maintenanceRuns' \in [Slot -> Run \cup {NoRun}]
    BY <1>1, <2>1, <2>3 DEF Moves, StoreBatch, MaintenanceTypeOK
  <2>5. PICK state \in DeliveryState :
           /\ delivery' = [delivery EXCEPT ![d] = state]
           /\ state.report \in {NoRun, delivery[d].report, Slotted(d)'}
    BY <2>1 DEF Moves
  <2>6. MaintenanceTypeOK'
    BY <1>1, <2>1, <2>4, <2>5 DEF Moves, MaintenanceTypeOK
  <2>7. ASSUME NEW e \in Delivery, delivery[e].report # NoRun
        PROVE  Slotted(e)' = delivery[e].report
    <3>1. Slotted(e) = delivery[e].report /\ SlotOf[e] \in Slot
      BY <1>1, <2>7, DeliveryTyped DEF ReportsStoredRun
    <3>2. CASE StoreBatch(d)
      BY <1>1, <2>3, <2>7, <3>1, <3>2 DEF StoreBatch, Slotted, MaintenanceTypeOK
    <3>3. CASE UNCHANGED maintenanceRuns
      BY <3>1, <3>3 DEF Slotted
    <3>4. QED
      BY <2>1, <3>2, <3>3 DEF Moves
  <2>8. ReportsStoredRun'
    <3> SUFFICES ASSUME NEW e \in Delivery, delivery'[e].report # NoRun
                 PROVE  Slotted(e)' = delivery'[e].report
      BY DEF ReportsStoredRun
    <3>1. CASE e = d
      BY <1>1, <2>5, <2>7, <3>1 DEF MaintenanceTypeOK
    <3>2. CASE e # d
      BY <1>1, <2>5, <2>7, <3>2 DEF MaintenanceTypeOK
    <3>3. QED
      BY <3>1, <3>2
  <2>9. QED
    BY <2>2, <2>6, <2>8 DEF MaintenanceInv
<1>4. CASE UNCHANGED maintenanceVars
  <2>1. IInv'
    BY <1>1, <1>4, IInvNext DEF maintenanceVars
  <2>2. MaintenanceTypeOK' /\ ReportsStoredRun'
    BY <1>1, <1>4 DEF maintenanceVars, MaintenanceTypeOK, ReportsStoredRun, Slotted
  <2>3. QED
    BY <2>1, <2>2 DEF MaintenanceInv
<1>5. QED
  BY <1>2, <1>3, <1>4 DEF MaintenanceNext

\* Maintenance stays well-typed beside the mutation path, whose own typing
\* invariant survives the deletion of tokens: every stored run is one the columns
\* and CHECK constraints of maintenance_runs and ownership_findings admit.
THEOREM MaintenanceTypeCorrect == MaintenanceSpec => []MaintenanceTypeOK
<1>1. MaintenanceInv => MaintenanceTypeOK
  BY DEF MaintenanceInv
<1>2. QED
  BY <1>1, MaintenanceStarts, MaintenanceSteps, PTL DEF MaintenanceSpec

\* Every result that a delivery of a slot ever reports is the slot's one row, for
\* any number of overlapping deliveries, failures and lost answers
\* (runScheduledMaintenance).
THEOREM RunsReportedOnce == MaintenanceSpec => []ReportsStoredRun
<1>1. MaintenanceInv => ReportsStoredRun
  BY DEF MaintenanceInv
<1>2. QED
  BY <1>1, MaintenanceStarts, MaintenanceSteps, PTL DEF MaintenanceSpec

-----------------------------------------------------------------------------
(* What the mutation path guarantees beside maintenance *)

PathInv ==
    /\ IInv /\ LocksCoverIntents /\ SingleOwner
    /\ ExecInv /\ ChangeInv /\ IdsOK

LEMMA PathStarts == Init => PathInv
<1> SUFFICES ASSUME Init PROVE PathInv
  OBVIOUS
<1>1. IInv /\ SingleOwner
  BY IInvInit, ClaimsInit DEF Init
<1>2. LocksCoverIntents
  BY DEF Init, StoreInit, LocksCoverIntents, Settled
<1>3. ExecInv /\ ChangeInv
  BY DEF Init, StoreInit, ChangeInv, WireOK, PhaseOK, ExecInv, SingleExecution,
     Fresh, Executing
<1>4. IdsOK
  BY IdAssumption, StoreAssumption DEF Init, IdsOK
<1>5. QED
  BY <1>1, <1>2, <1>3, <1>4 DEF PathInv

LEMMA PathNext == PathInv /\ [Next]_vars => PathInv'
BY IInvNext, LocksNext, ClaimsNext, ExecNext, ChangeNext, IdsNext, NextShape
   DEF PathInv, IInv

LEMMA PathBeside ==
    ASSUME PathInv, UNCHANGED applyState, oidcJti' \in SUBSET oidcJti,
           faults' = faults \/ \E kind \in FaultKind : Inject(kind)
    PROVE  PathInv'
<1>1. IInv'
  BY IInvBesideMaintenance DEF PathInv
<1>2. LocksCoverIntents' /\ SingleOwner'
  BY DEF PathInv, applyState, LocksCoverIntents, SingleOwner
<1>3. ExecInv' /\ ChangeInv' /\ IdsOK'
  BY DEF PathInv, applyState, ExecInv, SingleExecution, ChangeInv, WireOK, PhaseOK, IdsOK
<1>4. QED
  BY <1>1, <1>2, <1>3 DEF PathInv

\* The ownership rows of a set that no operation locks stay as they are: only the
\* holder of the lock confirms or resolves a change there.
LEMMA FreeRows ==
    ASSUME PathInv, [Next]_vars, NEW k \in Key, operationLocks[SetOf[k]] = NoOp
    PROVE  managedRecords'[k] = managedRecords[k]
<1>1. /\ managedRecords \in [Key -> ManagedRow \cup {NoRow}]
      /\ TableStep /\ LocksCoverIntents /\ \A o \in Op : o # NoOp
  BY NextShape, StoreAssumption DEF PathInv, IInv, TablesOK, StoreTypeOK
<1>2. ASSUME NEW o \in Op, NEW j \in Key, mutationIntents[o][j] \notin Settled
      PROVE  j # k
  BY <1>1, <1>2 DEF LocksCoverIntents
<1>3. ASSUME NEW o \in Op, NEW j \in Key, ConfirmBatch(o, j)
      PROVE  managedRecords'[k] = managedRecords[k]
  <2>1. j # k
    BY <1>2, <1>3 DEF ConfirmBatch, Confirmable, StatusTransition, Settled
  <2>2. QED
    BY <1>1, <1>3, <2>1 DEF ConfirmBatch
<1>4. ASSUME NEW o \in Op, NEW j \in Key, NEW decision, NEW p,
             ResolveBatch(o, j, decision, p)
      PROVE  managedRecords'[k] = managedRecords[k]
  <2>1. j # k
    BY <1>2, <1>4 DEF ResolveBatch, StatusTransition, Settled
  <2>2. QED
    BY <1>1, <1>4, <2>1 DEF ResolveBatch
<1>5. QED
  BY <1>1, <1>3, <1>4 DEF TableStep, ReserveBatch, ReuseBatch, StartStatement,
     BeginBatch, SentStatement, IndeterminateBatch, FinishBatch, FailedBatch,
     FreezeBatch, UpdateStatement, tables

-----------------------------------------------------------------------------
(* The audit *)

\* What a preflight accepts of one key.
KeyVerified(k, seen) ==
    /\ managedRecords[k] = NoRow => seen[k] = {}
    /\ managedRecords[k] # NoRow =>
          \E p \in seen[k] : /\ seen[k] = {p}
                             /\ p.id = managedRecords[k].id
                             /\ p.content = managedRecords[k].content

\* The audit finds nothing about a key exactly if a preflight accepts it.
LEMMA KeyAudited ==
    ASSUME PathInv, NEW k \in Key, NEW seen,
           \A p, q \in seen[k] : p.id = q.id => p = q
    PROVE  KeyVerified(k, seen) <=> KeyFindings(k, seen) = {}
<1> DEFINE row == managedRecords[k]
           same == {p \in seen[k] : p.id = row.id}
<1>1. row # NoRow => /\ recordClaims[SetOf[k]] = [repo |-> OwnerOf[k], state |-> "active"]
                     /\ recordClaims[SetOf[k]] # NoClaim
  <2>1. [repo |-> OwnerOf[k], state |-> "active"] \in ClaimRow
    BY StoreAssumption DEF ClaimRow
  <2>2. QED
    BY <2>1, RowAssumption DEF PathInv, SingleOwner
<1>2. CASE row = NoRow
  BY <1>2 DEF KeyVerified, KeyFindings, Owned
<1>3. CASE row # NoRow
  <2>1. Owned(k)
    BY <1>1, <1>3 DEF Owned
  <2>2. ASSUME KeyVerified(k, seen) PROVE KeyFindings(k, seen) = {}
    <3>1. PICK p \in seen[k] : seen[k] = {p} /\ p.id = row.id /\ p.content = row.content
      BY <1>3, <2>2 DEF KeyVerified
    <3>2. Matched(k, seen) = {p} /\ seen[k] # {}
      BY <3>1 DEF Matched
    <3>3. RowFinding(k, seen) = {}
      BY <1>1, <1>3, <3>1, <3>2 DEF RowFinding
    <3>4. QED
      BY <2>1, <3>1, <3>2, <3>3 DEF KeyFindings
  <2>3. ASSUME KeyFindings(k, seen) = {} PROVE KeyVerified(k, seen)
    <3>1. RowFinding(k, seen) = {} /\ seen[k] \subseteq Matched(k, seen)
      BY <2>1, <2>3 DEF KeyFindings
    <3>2. /\ seen[k] # {}
          /\ \A p \in Matched(k, seen) : p.id = row.id /\ p.content = row.content
      <4>1. seen[k] # {}
        BY <3>1 DEF RowFinding
      <4>2. \A p \in Matched(k, seen) : p.id = row.id
        BY <3>1, <4>1 DEF RowFinding
      <4>3. \A p \in Matched(k, seen) : p.id = row.id /\ p.content = row.content
        BY <1>1, <3>1, <4>1, <4>2 DEF RowFinding
      <4>4. QED
        BY <4>1, <4>3
    <3>3. PICK p \in seen[k] : p.id = row.id /\ p.content = row.content
      BY <3>1, <3>2
    <3>4. seen[k] = {p}
      BY <3>1, <3>2, <3>3
    <3>5. QED
      BY <1>3, <3>3, <3>4 DEF KeyVerified
  <2>4. QED
    BY <2>2, <2>3
<1>4. QED
  BY <1>2, <1>3

\* The findings about a record set.
About(s, findings) == {f \in findings : f[2] \in KeysOf(s)}

\* From the listing of its zone on, a quiet set keeps its rows, and is sound if
\* the rows agree with what was listed.
Listed(d) ==
    /\ delivery[d].todo \cap delivery[d].listed = {}
    /\ \A s \in audited[d].quiet \cup audited[d].sound : ZoneOf[s] \in delivery[d].listed
    /\ \A s \in audited[d].quiet :
          /\ operationLocks[s] = NoOp
          /\ s \in audited[d].sound
               <=> SetVerified(s, managedRecords, delivery[d].seen)
    /\ \A k \in Key : \A p, q \in delivery[d].seen[k] : p.id = q.id => p = q
    /\ \A f \in delivery[d].run.findings : f[2] \in Zone

Audit(d) ==
    \A s \in audited[d].quiet :
        s \in audited[d].sound <=> About(s, delivery[d].run.findings) = {}

AuditAt(d) ==
    /\ delivery[d].pc \in {"prior", "clean", "inventory"} =>
          /\ audited[d] = Unaudited /\ delivery[d].listed = {}
          /\ delivery[d].seen = NothingSeen /\ delivery[d].run.findings = {}
    /\ delivery[d].pc = "audit" => Listed(d)
    /\ delivery[d].pc \in {"orphans", "store"} => Audit(d)

\* Whatever the mutation path does leaves an audit right.
LEMMA ApplyAudits ==
    ASSUME PathInv, MaintenanceTypeOK, ApplyStep, NEW d \in Delivery, AuditAt(d)
    PROVE  AuditAt(d)'
<1>1. /\ UNCHANGED <<maintenanceRuns, delivery>>
      /\ audited'[d] = IF delivery[d].pc = "audit"
                       THEN [audited[d] EXCEPT !.quiet = {s \in @ : operationLocks'[s] = NoOp}]
                       ELSE audited[d]
  BY DEF ApplyStep, Watch
<1>2. CASE delivery[d].pc # "audit"
  BY <1>1, <1>2 DEF AuditAt, Audit, About, KeysOf
<1>3. CASE delivery[d].pc = "audit"
  <2>1. /\ audited'[d].quiet = {s \in audited[d].quiet : operationLocks'[s] = NoOp}
        /\ audited'[d].sound = audited[d].sound
    BY <1>1, <1>3 DEF MaintenanceTypeOK
  <2>2. Listed(d)
    BY <1>3 DEF AuditAt
  <2>3. ASSUME NEW s \in audited'[d].quiet
        PROVE  /\ operationLocks'[s] = NoOp
               /\ s \in audited'[d].sound
                    <=> SetVerified(s, managedRecords', delivery'[d].seen)
    <3>1. /\ s \in audited[d].quiet /\ operationLocks[s] = NoOp
          /\ operationLocks'[s] = NoOp
          /\ s \in audited[d].sound
                <=> SetVerified(s, managedRecords, delivery[d].seen)
      BY <2>1, <2>2 DEF Listed
    <3>2. \A k \in KeysOf(s) : managedRecords'[k] = managedRecords[k]
      BY <3>1, FreeRows DEF KeysOf, ApplyStep
    <3>3. SetVerified(s, managedRecords', delivery'[d].seen)
            <=> SetVerified(s, managedRecords, delivery[d].seen)
      BY <1>1, <3>2 DEF SetVerified
    <3>4. QED
      BY <2>1, <3>1, <3>3
  <2>4. Listed(d)'
    BY <1>1, <2>1, <2>2, <2>3 DEF Listed
  <2>5. QED
    BY <1>1, <1>3, <2>4 DEF AuditAt
<1>4. QED
  BY <1>2, <1>3

\* What a delivery reads is what the preflight would have read.
LEMMA ListZoneAudits ==
    ASSUME PathInv, MaintenanceTypeOK, NEW d \in Delivery, AuditAt(d),
           NEW z \in Zone, ListZone(d, z)
    PROVE  AuditAt(d)'
<1> DEFINE own == delivery[d]
<1>1. /\ own \in DeliveryState /\ own.pc = "audit" /\ z \in own.todo /\ Listed(d)
      /\ audited[d] \in [quiet: SUBSET RecordSet, sound: SUBSET RecordSet]
      /\ UNCHANGED vars
  BY DeliveryTyped DEF ListZone, AuditAt
<1>2. /\ delivery'[d].pc = "audit" /\ delivery'[d].run = own.run
      /\ delivery'[d].todo = own.todo \ {z} /\ delivery'[d].listed = own.listed \cup {z}
      /\ delivery'[d].seen = [k \in Key |-> IF KeyZone(k) = z THEN provider[k]
                                            ELSE own.seen[k]]
      /\ audited'[d].quiet = audited[d].quiet \cup (SetsIn(z) \cap Free)
      /\ audited'[d].sound = audited[d].sound \cup
            {s \in SetsIn(z) : SetVerified(s, managedRecords, provider)}
  BY <1>1 DEF ListZone, MaintenanceTypeOK, DeliveryState
<1>3. z \notin own.listed
  BY <1>1 DEF Listed
<1>4. ASSUME NEW s \in audited'[d].quiet
      PROVE  /\ operationLocks[s] = NoOp
             /\ s \in audited'[d].sound
                  <=> SetVerified(s, managedRecords, delivery'[d].seen)
  <2>1. CASE ZoneOf[s] = z
    <3>1. s \notin audited[d].quiet \cup audited[d].sound
      BY <1>1, <1>3, <2>1 DEF Listed
    <3>2. s \in SetsIn(z) \cap Free
      BY <1>2, <3>1
    <3>3. \A k \in KeysOf(s) : delivery'[d].seen[k] = provider[k]
      BY <1>2, <2>1 DEF KeysOf, KeyZone
    <3>4. SetVerified(s, managedRecords, delivery'[d].seen)
            <=> SetVerified(s, managedRecords, provider)
      BY <3>3 DEF SetVerified
    <3>5. QED
      BY <1>2, <3>1, <3>2, <3>4 DEF Free
  <2>2. CASE ZoneOf[s] # z
    <3>1. s \in audited[d].quiet /\ (s \in audited'[d].sound <=> s \in audited[d].sound)
      BY <1>2, <2>2 DEF SetsIn
    <3>2. \A k \in KeysOf(s) : delivery'[d].seen[k] = own.seen[k]
      BY <1>2, <2>2 DEF KeysOf, KeyZone
    <3>3. SetVerified(s, managedRecords, delivery'[d].seen)
            <=> SetVerified(s, managedRecords, own.seen)
      BY <3>2 DEF SetVerified
    <3>4. QED
      BY <1>1, <3>1, <3>3 DEF Listed
  <2>3. QED
    BY <2>1, <2>2
<1>5. \A k \in Key : \A p, q \in delivery'[d].seen[k] : p.id = q.id => p = q
  BY <1>1, <1>2 DEF Listed, PathInv, IdsOK
<1>6. \A s \in audited'[d].quiet \cup audited'[d].sound : ZoneOf[s] \in delivery'[d].listed
  BY <1>1, <1>2 DEF Listed, SetsIn
<1>7. delivery'[d].todo \cap delivery'[d].listed = {}
  BY <1>1, <1>2 DEF Listed
<1>8. \A f \in delivery'[d].run.findings : f[2] \in Zone
  BY <1>1, <1>2 DEF Listed
<1>9. UNCHANGED <<operationLocks, managedRecords>>
  BY <1>1 DEF vars, tables
<1>10. Listed(d)'
  BY <1>4, <1>5, <1>6, <1>7, <1>8, <1>9 DEF Listed
<1>11. QED
  BY <1>2, <1>10 DEF AuditAt

\* Comparing the rows with the listing finds what is unsound and nothing else.
LEMMA ReadRowsAudits ==
    ASSUME PathInv, MaintenanceTypeOK, NEW d \in Delivery, AuditAt(d), ReadRows(d)
    PROVE  AuditAt(d)'
<1> DEFINE own == delivery[d]
           keys == {j \in Key : KeyZone(j) \in own.listed}
           new == UNION {KeyFindings(k, own.seen) : k \in keys}
<1>1. own \in DeliveryState /\ own.pc = "audit" /\ Listed(d) /\ UNCHANGED audited
  BY DeliveryTyped DEF ReadRows, AuditAt
<1>2. /\ delivery'[d].pc = "orphans"
      /\ delivery'[d].run.findings = own.run.findings \cup new
  BY <1>1 DEF ReadRows, MaintenanceTypeOK, DeliveryState, Run
<1>3. ASSUME NEW s \in audited[d].quiet
      PROVE  s \in audited[d].sound <=> About(s, own.run.findings \cup new) = {}
  <2>1. /\ ZoneOf[s] \in own.listed
        /\ s \in audited[d].sound <=> SetVerified(s, managedRecords, own.seen)
        /\ \A k \in Key : \A p, q \in own.seen[k] : p.id = q.id => p = q
    BY <1>1 DEF Listed
  <2>2. \A k \in KeysOf(s) : k \in keys
    BY <2>1 DEF KeysOf, KeyZone
  <2>3. \A k \in Key : \A f \in KeyFindings(k, own.seen) : f[2] = k
    BY DEF KeyFindings
  <2>4. \A f \in own.run.findings : f[2] \notin KeysOf(s)
    BY <1>1, MaintenanceAssumption DEF Listed, KeysOf
  <2>5. About(s, own.run.findings \cup new) = {}
          <=> \A k \in KeysOf(s) : KeyFindings(k, own.seen) = {}
    <3>1. ASSUME NEW k \in KeysOf(s), NEW f \in KeyFindings(k, own.seen)
          PROVE  f \in About(s, own.run.findings \cup new)
      <4>1. k \in keys /\ f \in new
        BY <2>2, <3>1
      <4>2. f[2] = k
        BY <2>3, <4>1
      <4>3. QED
        BY <4>1, <4>2 DEF About
    <3>2. ASSUME NEW f \in About(s, own.run.findings \cup new)
          PROVE  \E k \in KeysOf(s) : f \in KeyFindings(k, own.seen)
      <4>1. f \in new /\ f[2] \in KeysOf(s)
        BY <2>4, <3>2 DEF About
      <4>2. PICK k \in keys : f \in KeyFindings(k, own.seen)
        BY <4>1
      <4>3. QED
        BY <2>3, <4>1, <4>2
    <3> HIDE DEF new
    <3>3. QED
      BY <3>1, <3>2
  <2>6. SetVerified(s, managedRecords, own.seen)
          <=> \A k \in KeysOf(s) : KeyVerified(k, own.seen)
    BY DEF SetVerified, KeyVerified
  <2>7. \A k \in KeysOf(s) : KeyVerified(k, own.seen) <=> KeyFindings(k, own.seen) = {}
    BY <2>1, KeyAudited DEF KeysOf
  <2>8. QED
    BY <2>1, <2>5, <2>6, <2>7
<1>4. Audit(d)'
  BY <1>1, <1>2, <1>3 DEF Audit, About, KeysOf
<1>5. QED
  BY <1>2, <1>4 DEF AuditAt

LEMMA DeliveryAudits ==
    ASSUME PathInv, MaintenanceTypeOK, NEW d \in Delivery, AuditAt(d), DeliveryStep(d)
    PROVE  AuditAt(d)'
<1> DEFINE own == delivery[d]
<1>1. /\ own \in DeliveryState /\ delivery \in [Delivery -> DeliveryState]
      /\ own.run \in Run
      /\ audited \in [Delivery -> [quiet: SUBSET RecordSet, sound: SUBSET RecordSet]]
  BY DeliveryTyped DEF MaintenanceTypeOK, DeliveryState
<1>2. ASSUME delivery'[d].pc \in {"reread", "done"} PROVE AuditAt(d)'
  BY <1>2 DEF AuditAt
<1>3. ASSUME NEW run, Report(d, run) PROVE AuditAt(d)'
  BY <1>1, <1>2, <1>3 DEF Report, Done, NewDelivery
<1>4. CASE ReadPrior(d)
  <2>1. CASE Proceed(d, "clean")
    <3>1. /\ delivery'[d].pc = "clean" /\ delivery'[d].listed = own.listed
          /\ delivery'[d].seen = own.seen /\ delivery'[d].run = own.run
          /\ UNCHANGED audited /\ own.pc = "prior"
      BY <1>1, <1>4, <2>1 DEF ReadPrior, Proceed, DeliveryState
    <3>2. QED
      BY <3>1 DEF AuditAt
  <2>2. QED
    BY <1>3, <1>4, <2>1 DEF ReadPrior
<1>5. CASE Clean(d)
  <2>1. /\ delivery'[d].pc = "inventory" /\ delivery'[d].listed = own.listed
        /\ delivery'[d].seen = own.seen
        /\ delivery'[d].run.findings = own.run.findings
        /\ UNCHANGED audited /\ own.pc = "clean"
    BY <1>1, <1>5 DEF Clean, DeliveryState, Run
  <2>2. QED
    BY <2>1 DEF AuditAt
<1>6. CASE TakeInventory(d)
  <2>1. /\ delivery'[d].pc = "audit" /\ delivery'[d].listed = own.listed
        /\ delivery'[d].seen = own.seen
        /\ delivery'[d].run.findings = own.run.findings
        /\ UNCHANGED audited /\ own.pc = "inventory"
    BY <1>1, <1>6 DEF TakeInventory, DeliveryState, Run
  <2>2. /\ own.listed = {} /\ own.seen = NothingSeen /\ own.run.findings = {}
        /\ audited[d].quiet = {} /\ audited[d].sound = {}
    BY <2>1 DEF AuditAt, Unaudited
  <2>3. Listed(d)'
    BY <2>1, <2>2 DEF Listed, NothingSeen
  <2>4. QED
    BY <2>1, <2>3 DEF AuditAt
<1>7. ASSUME NEW z \in Zone, ListingFails(d, z) PROVE AuditAt(d)'
  <2>1. /\ delivery'[d].pc = "audit" /\ delivery'[d].todo = own.todo \ {z}
        /\ delivery'[d].listed = own.listed /\ delivery'[d].seen = own.seen
        /\ delivery'[d].run.findings = own.run.findings \cup {<<"zone_incomplete", z>>}
        /\ UNCHANGED <<applyState, audited>> /\ own.pc = "audit"
    BY <1>1, <1>7 DEF ListingFails, DeliveryState, Run
  <2>2. Listed(d)
    BY <2>1 DEF AuditAt
  <2>3. \A f \in delivery'[d].run.findings : f[2] \in Zone
    BY <2>1, <2>2 DEF Listed
  <2>4. Listed(d)'
    BY <2>1, <2>2, <2>3 DEF Listed, applyState, SetVerified, KeysOf
  <2>5. QED
    BY <2>1, <2>4 DEF AuditAt
<1>8. CASE ReadOrphans(d)
  <2>1. OrphanRows = {}
    <3> SUFFICES ASSUME NEW k \in Key, managedRecords[k] # NoRow PROVE Owned(k)
      BY DEF OrphanRows
    <3>1. [repo |-> OwnerOf[k], state |-> "active"] \in ClaimRow
      BY StoreAssumption DEF ClaimRow
    <3>2. QED
      BY <3>1, RowAssumption DEF PathInv, SingleOwner, Owned
  <2>2. /\ delivery'[d].pc = "store" /\ UNCHANGED audited /\ own.pc = "orphans"
        /\ delivery'[d].run.findings
             = own.run.findings \cup {<<"orphan_d1_row", k>> : k \in OrphanRows}
    BY <1>1, <1>8 DEF ReadOrphans, DeliveryState, Run
  <2>3. delivery'[d].run.findings = own.run.findings
    BY <2>1, <2>2
  <2>4. Audit(d)'
    BY <2>2, <2>3 DEF AuditAt, Audit, About, KeysOf
  <2>5. QED
    BY <2>2, <2>4 DEF AuditAt
<1>9. CASE StoreRun(d) \/ Reread(d) \/ StoreFails(d) \/ CleanupFails(d) \/ DeliveryFails(d)
  <2>1. ASSUME Proceed(d, "reread") PROVE AuditAt(d)'
    BY <1>1, <1>2, <2>1 DEF Proceed, DeliveryState
  <2>2. QED
    BY <1>3, <1>9, <2>1 DEF StoreRun, Reread, StoreFails, CleanupFails, DeliveryFails
<1>10. QED
  BY <1>4, <1>5, <1>6, <1>7, <1>8, <1>9, ListZoneAudits, ReadRowsAudits DEF DeliveryStep

Audits == \A d \in Delivery : AuditAt(d)

LEMMA AuditsHold == MaintenanceSpec => [](PathInv /\ Audits)
<1> USE DEF Audits
<1>1. MaintenanceInit => PathInv /\ Audits
  BY PathStarts DEF MaintenanceInit, AuditAt, NewDelivery
<1>2. PathInv /\ MaintenanceTypeOK /\ Audits /\ [MaintenanceNext]_maintenanceVars
        => PathInv' /\ Audits'
  <2> SUFFICES ASSUME PathInv, MaintenanceTypeOK, Audits,
                      [MaintenanceNext]_maintenanceVars
               PROVE  PathInv' /\ Audits'
    OBVIOUS
  <2>1. CASE ApplyStep
    BY <2>1, ApplyAudits, PathNext DEF ApplyStep
  <2>2. ASSUME NEW d \in Delivery, DeliveryStep(d) PROVE PathInv' /\ Audits'
    <3>1. /\ Moves(d) /\ UNCHANGED applyState /\ oidcJti' \in SUBSET oidcJti
          /\ faults' = faults \/ \E kind \in FaultKind : Inject(kind)
      BY <2>2, DeliveryMoves DEF PathInv
    <3>2. AuditAt(d)'
      BY <2>2, DeliveryAudits
    <3>3. ASSUME NEW e \in Delivery, e # d PROVE AuditAt(e)'
      <4>1. delivery'[e] = delivery[e] /\ audited'[e] = audited[e]
        BY <3>1, <3>3 DEF Moves, MaintenanceTypeOK
      <4>2. QED
        BY <3>1, <4>1 DEF AuditAt, Listed, Audit, About, applyState, SetVerified, KeysOf
    <3>4. QED
      BY <3>1, <3>2, <3>3, PathBeside
  <2>3. CASE UNCHANGED maintenanceVars
    <3>1. PathInv'
      BY <2>3, PathNext DEF maintenanceVars
    <3>2. Audits'
      BY <2>3 DEF maintenanceVars, vars, tables, AuditAt, Listed, Audit, About,
         SetVerified, KeysOf
    <3>3. QED
      BY <3>1, <3>2
  <2>4. QED
    BY <2>1, <2>2, <2>3 DEF MaintenanceNext
<1>3. QED
  BY <1>1, <1>2, MaintenanceTypeCorrect, PTL DEF MaintenanceSpec

\* The audit says of every record set that no operation held meanwhile what a
\* preflight would have said when it was listed, for any number of deliveries,
\* applies, operators and edits in between (auditOwnership, verifyOwnership).
THEOREM AuditAgrees == MaintenanceSpec => []AuditIsExact
<1>1. Audits => AuditIsExact
  BY DEF Audits, AuditAt, Audit, About, AuditIsExact
<1>2. QED
  BY <1>1, AuditsHold, PTL

\* The deliveries of maintenance, which delete tokens and read everything else,
\* leave the mutation path what it guarantees: locks, claims, executions and
\* confirmations stay what they are without them (operations/maintenance.js).
THEOREM MaintenanceKeepsSafety ==
    MaintenanceSpec => [](/\ LocksCoverIntents /\ SingleOwner
                          /\ SingleExecution /\ ConfirmedWasApplied)
<1>1. PathInv => /\ LocksCoverIntents /\ SingleOwner
                 /\ SingleExecution /\ ConfirmedWasApplied
  BY DEF PathInv, ExecInv, ChangeInv, WireOK, ConfirmedWasApplied
<1>2. QED
  BY <1>1, AuditsHold, PTL
=============================================================================
