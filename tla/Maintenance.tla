---------------------------- MODULE Maintenance ----------------------------
(***************************************************************************)
(* The scheduled handler (src/operations/maintenance.js) beside the        *)
(* mutation path: it deletes expired tokens, lists the provider's zones    *)
(* for an inventory, audits D1's ownership rows against a second listing   *)
(* (auditOwnership, src/admin/inventory.js) and stores one row for the     *)
(* slot it was scheduled for.  The cron trigger may deliver a slot more    *)
(* than once, deliveries may overlap, and applies and operators change the *)
(* tables and the provider between any two of their reads.                 *)
(*                                                                         *)
(* A run stands for its row of maintenance_runs and the rows of the        *)
(* snapshot tables stored with it; the columns success, ownership_complete *)
(* and the counts are functions of it.  The other half of the cleanup, of  *)
(* plan rows, is CleanPlans in Plans; records whose name, type or metadata *)
(* were altered are left out.                                              *)
(***************************************************************************)
EXTENDS FlareForm

CONSTANTS
    Delivery,  \* invocations of the scheduled handler
    Slot,      \* the instants it can be scheduled for
    SlotOf,    \* the slot of each delivery (controller.scheduledTime)
    ExpiredAt, \* the tokens with expires_at before each slot
    NoRun

Finding == ({"missing_record", "changed_id", "orphan_d1_row", "changed_content",
             "untracked_metadata"} \X Key) \cup ({"zone_incomplete"} \X Zone)
Run == [jtis: Nat, inventory: BOOLEAN, findings: SUBSET Finding]

ASSUME MaintenanceAssumption ==
    /\ SlotOf \in [Delivery -> Slot]
    /\ ExpiredAt \in [Slot -> SUBSET Token]
    /\ NoRun \notin Run
    /\ IsFiniteSet(Token)
    /\ Zone \cap Key = {} \* a finding is about one or the other

VARIABLES
    maintenanceRuns, \* the row of each slot
    delivery,        \* the local state of each delivery
    audited          \* history: see Watch

DeliveryState ==
    [pc: {"prior", "clean", "inventory", "audit", "orphans", "store", "reread",
          "done"},
     run: Run,              \* the event under construction
     todo: SUBSET Zone,     \* zones auditOwnership has yet to list
     listed: SUBSET Zone,   \* zones it has listed
     seen: ProviderView,    \* their records
     report: Run \cup {NoRun}] \* what it emitted as its result

maintenanceVars == <<vars, maintenanceRuns, delivery, audited>>

MaintenanceTypeOK ==
    /\ maintenanceRuns \in [Slot -> Run \cup {NoRun}]
    /\ delivery \in [Delivery -> DeliveryState]
    /\ audited \in [Delivery -> [quiet: SUBSET RecordSet, sound: SUBSET RecordSet]]

Unaudited == [quiet |-> {}, sound |-> {}]
NewDelivery ==
    [pc |-> "prior", run |-> [jtis |-> 0, inventory |-> FALSE, findings |-> {}],
     todo |-> {}, listed |-> {}, seen |-> NothingSeen, report |-> NoRun]

MaintenanceInit ==
    /\ Init
    /\ maintenanceRuns = [s \in Slot |-> NoRun]
    /\ delivery = [d \in Delivery |-> NewDelivery]
    /\ audited = [d \in Delivery |-> Unaudited]

-----------------------------------------------------------------------------
(* What auditOwnership finds *)

\* managed_records joined with their claims.
Owned(k) == managedRecords[k] # NoRow /\ recordClaims[SetOf[k]] # NoClaim

\* The record of a row is the one with its id, or else one that carries the key's
\* metadata.
Matched(k, seen) ==
    LET same == {p \in seen[k] : p.id = managedRecords[k].id}
    IN  IF same # {} \/ seen[k] = {} THEN same ELSE {CHOOSE p \in seen[k] : TRUE}

\* Mutant: the record's content is not compared.
RowFindingById(k, seen) ==
    CASE seen[k] = {} -> {"missing_record"}
      [] \E p \in Matched(k, seen) : p.id # managedRecords[k].id -> {"changed_id"}
      [] OTHER -> {}

\* The first loop: the one thing that is wrong with a row, if any.
RowFinding(k, seen) ==
    LET row == managedRecords[k]
        Is(p) == p.id = row.id /\ p.content = row.content
    IN  IF seen[k] = {} THEN {"missing_record"}
        ELSE IF \E p \in Matched(k, seen) : p.id # row.id THEN {"changed_id"}
        ELSE IF recordClaims[SetOf[k]] # [repo |-> OwnerOf[k], state |-> "active"]
             THEN {"orphan_d1_row"}
        ELSE {"changed_content" : p \in {q \in Matched(k, seen) : ~Is(q)}}

\* The second loop reports records with metadata that no row was matched with.
KeyFindings(k, seen) ==
    IF Owned(k)
    THEN {<<f, k>> : f \in RowFinding(k, seen)}
         \cup {<<"untracked_metadata", k>> : p \in seen[k] \ Matched(k, seen)}
    ELSE {<<"untracked_metadata", k>> : p \in seen[k]}

\* The last query: rows whose claim is gone.
OrphanRows == {k \in Key : managedRecords[k] # NoRow /\ ~Owned(k)}

-----------------------------------------------------------------------------
(* runScheduledMaintenance, one action between two awaits *)

Slotted(d) == maintenanceRuns[SlotOf[d]]
Proceed(d, step) == delivery' = [delivery EXCEPT ![d].pc = step]
Done(run) == [NewDelivery EXCEPT !.pc = "done", !.report = run]
Report(d, run) == delivery' = [delivery EXCEPT ![d] = Done(run)]

\* History is kept until the run is stored.
Forget(d) == audited' = [audited EXCEPT ![d] = Unaudited]

\* Everything but oidcJti and the fault counter: maintenance writes no other table.
applyState == <<operations, operationZones, operationLocks, recordClaims,
                managedRecords, mutationIntents, intentActions, provider, wire,
                req, policy>>

\* A row that exists for the slot is reported again.
ReadPrior(d) ==
    /\ delivery[d].pc = "prior"
    /\ IF Slotted(d) # NoRun THEN Report(d, Slotted(d)) ELSE Proceed(d, "clean")
    /\ UNCHANGED <<vars, maintenanceRuns, audited>>

DeleteExpired(d) == oidcJti' = oidcJti \ ExpiredAt[SlotOf[d]]

\* cleanupEphemeralState: the count is of the rows this call deleted.
Clean(d) ==
    /\ delivery[d].pc = "clean"
    /\ DeleteExpired(d)
    /\ delivery' = [delivery EXCEPT
          ![d].pc = "inventory",
          ![d].run.jtis = Cardinality(oidcJti \cap ExpiredAt[SlotOf[d]])]
    /\ UNCHANGED <<applyState, faults, maintenanceRuns, audited>>

\* generateInventory: complete unless the listing of a zone failed.
TakeInventory(d) ==
    /\ delivery[d].pc = "inventory"
    /\ \E complete \in BOOLEAN :
          /\ IF complete THEN UNCHANGED faults ELSE Inject("read")
          /\ delivery' = [delivery EXCEPT ![d].pc = "audit", ![d].todo = Zone,
                                          ![d].run.inventory = complete]
    /\ UNCHANGED <<applyState, oidcJti, maintenanceRuns, audited>>

\* auditOwnership lists the zones one by one; history notes which record sets are
\* free of locks, and which of them a preflight would accept, as they are listed.
SetsIn(z) == {s \in RecordSet : ZoneOf[s] = z}
Free == {s \in RecordSet : operationLocks[s] = NoOp}
ListZone(d, z) ==
    /\ delivery[d].pc = "audit" /\ z \in delivery[d].todo
    /\ delivery' = [delivery EXCEPT
          ![d].todo = @ \ {z}, ![d].listed = @ \cup {z},
          ![d].seen = [k \in Key |-> IF KeyZone(k) = z THEN provider[k] ELSE @[k]]]
    /\ audited' = [audited EXCEPT
          ![d].quiet = @ \cup (SetsIn(z) \cap Free),
          ![d].sound = @ \cup {s \in SetsIn(z) :
                                 SetVerified(s, managedRecords, provider)}]
    /\ UNCHANGED <<vars, maintenanceRuns>>
ListingFails(d, z) ==
    /\ Inject("read")
    /\ delivery[d].pc = "audit" /\ z \in delivery[d].todo
    /\ delivery' = [delivery EXCEPT
          ![d].todo = @ \ {z},
          ![d].run.findings = @ \cup {<<"zone_incomplete", z>>}]
    /\ UNCHANGED <<applyState, oidcJti, maintenanceRuns, audited>>

\* Mutant: a zone that could not be listed is taken for an empty one.
ReadEveryRow(d) ==
    /\ delivery[d].pc = "audit" /\ delivery[d].todo = {}
    /\ delivery' = [delivery EXCEPT
          ![d].pc = "orphans", ![d].listed = {}, ![d].seen = NothingSeen,
          ![d].run.findings = @ \cup {<<"missing_record", z>> :
                                        z \in Zone \ delivery[d].listed}]
    /\ UNCHANGED <<vars, maintenanceRuns, audited>>

\* Then it reads the ownership rows and compares those of the zones it listed.
ReadRows(d) ==
    /\ delivery[d].pc = "audit" /\ delivery[d].todo = {}
    /\ delivery' = [delivery EXCEPT
          ![d].pc = "orphans", ![d].listed = {}, ![d].seen = NothingSeen,
          ![d].run.findings = @ \cup
              UNION {KeyFindings(k, delivery[d].seen) :
                       k \in {j \in Key : KeyZone(j) \in delivery[d].listed}}]
    /\ UNCHANGED <<vars, maintenanceRuns, audited>>

ReadOrphans(d) ==
    /\ delivery[d].pc = "orphans"
    /\ delivery' = [delivery EXCEPT
          ![d].pc = "store",
          ![d].run.findings = @ \cup {<<"orphan_d1_row", k>> : k \in OrphanRows}]
    /\ UNCHANGED <<vars, maintenanceRuns, audited>>

\* Mutant: the row of a slot is replaced.
ReplaceBatch(d) ==
    maintenanceRuns' = [maintenanceRuns EXCEPT ![SlotOf[d]] = delivery[d].run]

\* storeMaintenanceRun: the slot is unique, and the row immutable.
StoreBatch(d) ==
    /\ Slotted(d) = NoRun
    /\ maintenanceRuns' = [maintenanceRuns EXCEPT ![SlotOf[d]] = delivery[d].run]

StoreRun(d) ==
    /\ delivery[d].pc = "store"
    /\ \/ StoreBatch(d) /\ Report(d, delivery[d].run)
       \/ Slotted(d) # NoRun /\ Proceed(d, "reread") /\ UNCHANGED maintenanceRuns
    /\ Forget(d)
    /\ UNCHANGED vars

\* The batch threw: whatever row the slot has by now is the result.
Reread(d) ==
    /\ delivery[d].pc = "reread"
    /\ Report(d, Slotted(d))
    /\ UNCHANGED <<vars, maintenanceRuns, audited>>

-----------------------------------------------------------------------------
(* Faults *)

\* D1 refuses the batch of a run, or makes it and loses the answer.
StoreFails(d) ==
    /\ Inject("d1")
    /\ delivery[d].pc = "store"
    /\ StoreBatch(d) \/ UNCHANGED maintenanceRuns
    /\ Proceed(d, "reread")
    /\ Forget(d)
    /\ UNCHANGED <<applyState, oidcJti>>

\* D1 refuses the cleanup, or makes it and loses the answer.
CleanupFails(d) ==
    /\ Inject("d1")
    /\ delivery[d].pc = "clean"
    /\ DeleteExpired(d) \/ UNCHANGED oidcJti
    /\ Report(d, NoRun)
    /\ UNCHANGED <<applyState, maintenanceRuns, audited>>

\* A read fails, or the isolate is lost: the delivery ends without a result.
DeliveryFails(d) ==
    /\ delivery[d].pc # "done"
    /\ \/ Inject("crash")
       \/ Inject("read") /\ delivery[d].pc \notin {"clean", "store"}
    /\ Report(d, NoRun)
    /\ Forget(d)
    /\ UNCHANGED <<applyState, oidcJti, maintenanceRuns>>

-----------------------------------------------------------------------------
\* History: a record set stays quiet for a delivery while no operation locks it,
\* from the listing of its zone until the rows are read.
Watch ==
    audited' = [d \in Delivery |->
                  IF delivery[d].pc = "audit"
                  THEN [audited[d] EXCEPT
                          !.quiet = {s \in @ : operationLocks'[s] = NoOp}]
                  ELSE audited[d]]

ApplyStep == Next /\ Watch /\ UNCHANGED <<maintenanceRuns, delivery>>

DeliveryStep(d) ==
    \/ ReadPrior(d) \/ Clean(d) \/ TakeInventory(d)
    \/ \E z \in Zone : ListZone(d, z) \/ ListingFails(d, z)
    \/ ReadRows(d) \/ ReadOrphans(d) \/ StoreRun(d) \/ Reread(d)
    \/ StoreFails(d) \/ CleanupFails(d) \/ DeliveryFails(d)

MaintenanceNext == ApplyStep \/ \E d \in Delivery : DeliveryStep(d)

MaintenanceSpec == MaintenanceInit /\ [][MaintenanceNext]_maintenanceVars

-----------------------------------------------------------------------------
(* Safety *)

\* "each scheduled execution writes one immutable maintenance_runs row [...] A
\* retry reuses the existing run for the same scheduled timestamp"
\* (docs/indeterminate-recovery.md:22): whatever deliveries of a slot overlap, fail
\* or repeat, every result one of them ever reported is the row of the slot.
ReportsStoredRun ==
    \A d \in Delivery :
        delivery[d].report # NoRun => Slotted(d) = delivery[d].report

\* The audit agrees with the ownership check of the mutation path
\* (verifyOwnership, src/dns/state.js), though it reads provider and rows at
\* different times: of a record set that no operation held meanwhile it finds
\* something exactly if a preflight would have refused it when it was listed.
AuditIsExact ==
    \A d \in Delivery :
        delivery[d].pc \in {"orphans", "store"} =>
            \A s \in audited[d].quiet :
                s \in audited[d].sound <=>
                    {f \in delivery[d].run.findings : f[2] \in KeysOf(s)} = {}
=============================================================================
