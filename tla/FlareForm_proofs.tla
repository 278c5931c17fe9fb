-------------------------- MODULE FlareForm_proofs --------------------------
(***************************************************************************)
(* Theorems about FlareForm, for every value of its constants.             *)
(***************************************************************************)
EXTENDS FlareForm, TLAPS

-----------------------------------------------------------------------------
(* What a step can do to the tables *)

TableStep ==
    \/ \E o \in Op, t \in Token, zones \in SUBSET Zone,
          sets, newClaims \in SUBSET RecordSet, version \in 0..MaxPolicy,
          digest \in ProviderView :
             /\ newClaims \subseteq sets
             /\ ReserveBatch(o, t, zones, sets, newClaims, version, digest)
    \/ \E o \in Op, t \in Token : ReuseBatch(o, t)
    \/ \E o \in Op : StartStatement(o)
    \/ \E o \in Op, k \in Key, action \in Action, target \in RecordId \cup {NoRow} :
          /\ action # "delete" => Desired[o][k] \in Content
          /\ action = "update" => target \in RecordId
          /\ BeginBatch(o, k, action, target)
    \/ \E o \in Op, k \in Key : SentStatement(o, k)
    \/ \E o \in Op, k \in Key : ConfirmBatch(o, k)
    \/ \E o \in Op, k \in Key : IndeterminateBatch(o, k)
    \/ \E o \in Op, z \in Zone : FinishBatch(o, z)
    \/ \E o \in Op, z \in Zone : FailedBatch(o, z)
    \/ \E o \in Op, z \in Zone : FreezeBatch(o, z)
    \/ \E o \in Op, status \in OperationStatus : UpdateStatement(o, status)
    \/ \E o \in Op, k \in Key, decision \in Decision, p \in ProviderRecord \cup {NoRow} :
          /\ decision = "confirm-provider" /\ intentActions[o][k].action # "delete"
               => p \in ProviderRecord
          /\ ResolveBatch(o, k, decision, p)
    \/ UNCHANGED tables

\* An intent row says what to do to which record.
IntentsMeanSomething ==
    \A o \in Op, k \in Key :
        mutationIntents[o][k] # "absent" =>
            /\ intentActions[o][k].action \in Action
            /\ intentActions[o][k].action # "delete" => Desired[o][k] \in Content
            /\ intentActions[o][k].action = "update"
                 => intentActions[o][k].target \in RecordId

TablesOK == StoreTypeOK /\ IntentsMeanSomething

LEMMA TablesInit == StoreInit => TablesOK
<1> SUFFICES ASSUME StoreInit PROVE TablesOK
  OBVIOUS
<1> USE StoreAssumption
<1>1. operations \in [Op -> OperationRow]
  BY DEF StoreInit, OperationRow, OperationStatus, NothingSeen, ProviderView
<1>2. recordClaims \in [RecordSet -> ClaimRow \cup {NoClaim}]
  <2> SUFFICES ASSUME NEW s \in RecordSet, InitialKeys \cap KeysOf(s) # {}
               PROVE  OwnerOf[CHOOSE k \in InitialKeys \cap KeysOf(s) : TRUE] \in Repo
    BY DEF StoreInit, ClaimRow
  <2> QED BY DEF KeysOf
<1>3. managedRecords \in [Key -> ManagedRow \cup {NoRow}]
  BY DEF StoreInit, ManagedRow, RecordId
<1>4. QED
  BY <1>1, <1>2, <1>3 DEF StoreInit, TablesOK, StoreTypeOK, IntentsMeanSomething,
     IntentColumns, IntentStatus, ZoneStatus

\* Writing a status keeps the operation rows well-formed.
LEMMA StatusKeepsRows ==
    ASSUME operations \in [Op -> OperationRow], NEW o \in Op,
           NEW status \in OperationStatus, SetStatus(o, status)
    PROVE  operations' \in [Op -> OperationRow]
BY DEF SetStatus, OperationRow

\* Every batch keeps the tables well-formed.
LEMMA TablesNext == TablesOK /\ TableStep => TablesOK'
<1> SUFFICES ASSUME TablesOK, TableStep PROVE TablesOK'
  OBVIOUS
<1> USE DEF TablesOK, StoreTypeOK
<1>1. ASSUME NEW o \in Op, NEW t \in Token, NEW zones \in SUBSET Zone,
             NEW sets \in SUBSET RecordSet, NEW newClaims \in SUBSET RecordSet,
             NEW version \in 0..MaxPolicy, NEW digest \in ProviderView,
             ReserveBatch(o, t, zones, sets, newClaims, version, digest)
      PROVE  TablesOK'
  <2> USE StoreAssumption DEF ReserveBatch, ConsumeToken
  <2>1. (operations \in [Op -> OperationRow])'
    BY <1>1 DEF OperationRow, OperationStatus
  <2>2. (operationZones \in [Op -> [Zone -> ZoneStatus]])'
    BY <1>1 DEF ZoneStatus
  <2>3. (recordClaims \in [RecordSet -> ClaimRow \cup {NoClaim}])'
    BY <1>1 DEF ClaimRow
  <2>4. QED
    BY <1>1, <2>1, <2>2, <2>3 DEF IntentsMeanSomething
<1>2. ASSUME NEW o \in Op, NEW t \in Token, ReuseBatch(o, t)
      PROVE  TablesOK'
  BY <1>2 DEF ReuseBatch, ConsumeToken, IntentsMeanSomething
<1>3. ASSUME NEW o \in Op, StartStatement(o)
      PROVE  TablesOK'
  BY <1>3 DEF StartStatement, SetStatus, OperationRow, OperationStatus,
     IntentsMeanSomething
<1>4. ASSUME NEW o \in Op, NEW k \in Key, NEW action \in Action,
             NEW target \in RecordId \cup {NoRow},
             action # "delete" => Desired[o][k] \in Content,
             action = "update" => target \in RecordId,
             BeginBatch(o, k, action, target)
      PROVE  TablesOK'
  <2>1. (mutationIntents \in [Op -> [Key -> IntentStatus]])'
    BY <1>4 DEF BeginBatch, SetIntent, IntentStatus
  <2>2. (intentActions \in [Op -> [Key -> IntentColumns]])'
    BY <1>4 DEF BeginBatch, IntentColumns
  <2>3. IntentsMeanSomething'
    BY <1>4 DEF BeginBatch, SetIntent, IntentsMeanSomething, IntentColumns
  <2>4. QED
    BY <1>4, <2>1, <2>2, <2>3 DEF BeginBatch
<1>5. ASSUME NEW o \in Op, NEW k \in Key, SentStatement(o, k)
      PROVE  TablesOK'
  BY <1>5 DEF SentStatement, SetIntent, IntentStatus, IntentsMeanSomething
<1>6. ASSUME NEW o \in Op, NEW k \in Key, ConfirmBatch(o, k)
      PROVE  TablesOK'
  <2> USE StoreAssumption, <1>6 DEF ConfirmBatch
  <2>1. mutationIntents[o][k] # "absent"
    BY DEF Confirmable, StatusTransition
  <2>2. (mutationIntents \in [Op -> [Key -> IntentStatus]])'
    BY DEF SetIntent, IntentStatus
  <2>3. IntentsMeanSomething'
    BY <2>1 DEF SetIntent, IntentsMeanSomething
  <2>4. (recordClaims \in [RecordSet -> ClaimRow \cup {NoClaim}])'
    <3>1. [repo |-> RepoOf[o], state |-> "active"] \in ClaimRow
      BY DEF ClaimRow
    <3>2. SetOf[k] \in RecordSet
      OBVIOUS
    <3>3. \E claim \in ClaimRow \cup {NoClaim} :
             recordClaims' = [recordClaims EXCEPT ![SetOf[k]] = claim]
      <4>1. CASE intentActions[o][k].action = "delete"
        BY <4>1, <3>2
      <4>2. CASE intentActions[o][k].action # "delete"
        BY <4>2, <3>1
      <4>3. QED
        BY <4>1, <4>2
    <3>4. QED
      BY <3>2, <3>3
  <2>5. (managedRecords \in [Key -> ManagedRow \cup {NoRow}])'
    <3>1. CASE intentActions[o][k].action = "delete"
      BY <3>1
    <3>2. CASE intentActions[o][k].action \in {"create", "update"}
      <4> DEFINE id == IF intentActions[o][k].action = "create" THEN NewId(o, k)
                       ELSE intentActions[o][k].target
      <4>1. Desired[o][k] \in Content /\ id \in RecordId
        BY <2>1, <3>2 DEF IntentsMeanSomething, RecordId
      <4>2. [id |-> id, content |-> Desired[o][k]] \in ManagedRow
        BY <4>1 DEF ManagedRow
      <4>3. managedRecords' =
               [managedRecords EXCEPT ![k] = [id |-> id, content |-> Desired[o][k]]]
        BY <3>2
      <4>4. QED
        BY <4>2, <4>3
    <3>3. QED
      BY <3>1, <3>2
  <2>6. QED
    BY <2>2, <2>3, <2>4, <2>5
<1>7. ASSUME NEW o \in Op, NEW k \in Key, IndeterminateBatch(o, k)
      PROVE  TablesOK'
  <2>1. mutationIntents[o][k] # "absent" /\ KeyZone(k) \in Zone
    BY <1>7, StoreAssumption DEF IndeterminateBatch, StatusTransition, KeyZone
  <2>2. QED
    BY <1>7, <2>1 DEF IndeterminateBatch, SetIntent, SetZone, SetStatus,
       IntentStatus, ZoneStatus, OperationRow, OperationStatus,
       IntentsMeanSomething
<1>8. ASSUME NEW o \in Op, NEW z \in Zone, FinishBatch(o, z)
      PROVE  TablesOK'
  BY <1>8 DEF FinishBatch, ReleaseLocks, SetZone, ZoneStatus,
     IntentsMeanSomething
<1>9. ASSUME NEW o \in Op, NEW z \in Zone, FailedBatch(o, z)
      PROVE  TablesOK'
  BY <1>9 DEF FailedBatch, SetZone, ZoneStatus, IntentsMeanSomething
<1>10. ASSUME NEW o \in Op, NEW z \in Zone, FreezeBatch(o, z)
       PROVE  TablesOK'
  BY <1>10 DEF FreezeBatch, SetZone, SetStatus, ZoneStatus, OperationRow,
     OperationStatus, IntentsMeanSomething
<1>11. ASSUME NEW o \in Op, NEW status \in OperationStatus, UpdateStatement(o, status)
       PROVE  TablesOK'
  BY <1>11 DEF UpdateStatement, SetStatus, OperationRow, IntentsMeanSomething
<1>12. ASSUME NEW o \in Op, NEW k \in Key, NEW decision \in Decision,
              NEW p \in ProviderRecord \cup {NoRow},
              decision = "confirm-provider" /\ intentActions[o][k].action # "delete"
                => p \in ProviderRecord,
              ResolveBatch(o, k, decision, p)
       PROVE  TablesOK'
  <2> USE StoreAssumption, <1>12 DEF ResolveBatch
  <2>1. mutationIntents[o][k] # "absent" /\ KeyZone(k) \in Zone
    BY DEF StatusTransition, KeyZone
  <2>2. (mutationIntents \in [Op -> [Key -> IntentStatus]])'
    BY DEF SetIntent, IntentStatus
  <2>3. IntentsMeanSomething'
    BY <2>1 DEF SetIntent, IntentsMeanSomething
  <2>4. (managedRecords \in [Key -> ManagedRow \cup {NoRow}])'
    <3>1. ResolvedRecord(o, k, decision, p) \in ManagedRow \cup {NoRow}
      BY DEF ResolvedRecord, ManagedRow, ProviderRecord, Decision
    <3>2. QED
      BY <3>1
  <2>5. (recordClaims \in [RecordSet -> ClaimRow \cup {NoClaim}])'
    <3>1. ResolvedClaim(o, k, decision) \in ClaimRow \cup {NoClaim}
      BY DEF ResolvedClaim, ClaimRow, Decision
    <3>2. QED
      BY <3>1
  <2>6. (operations \in [Op -> OperationRow])'
    <3>1. operations[o] \in OperationRow
      OBVIOUS
    <3>2. PICK status \in OperationStatus : SetStatus(o, status)
      BY <3>1 DEF OperationRow, OperationStatus
    <3>3. QED
      BY <3>2, StatusKeepsRows
  <2>7. (operationZones \in [Op -> [Zone -> ZoneStatus]])'
    BY <2>1 DEF SetZone, ZoneStatus
  <2>8. QED
    BY <2>2, <2>3, <2>4, <2>5, <2>6, <2>7
<1>13. CASE UNCHANGED tables
  BY <1>13 DEF tables, IntentsMeanSomething
<1>14. QED
  BY <1>1, <1>2, <1>3, <1>4, <1>5, <1>6, <1>7, <1>8, <1>9, <1>10, <1>11, <1>12,
     <1>13 DEF TableStep

-----------------------------------------------------------------------------
(* Where a request stands *)

AtKey == {"begin", "mark", "call", "await", "confirm", "unknown"}
AtZone == AtKey \cup {"zone", "finish", "zoneError", "freeze"}

\* A request inside a zone knows the zone, the changes left are changes to make,
\* and from the begin of a change on there is an intent row for it.
PlacedAt(r) ==
    /\ req[r].pc \in AtZone => req[r].zone \in Zone
    /\ req[r].pc \in AtKey \cup {"zone"} =>
          \A k \in req[r].keys : Change(r, k) \in Action
    /\ req[r].pc \in AtKey =>
          \E k \in Key : k = req[r].key /\ Change(r, k) \in Action
    /\ req[r].pc \in AtKey \ {"begin"} =>
          mutationIntents[OpOf[r]][req[r].key] # "absent"

RequestsOK == req \in [Req -> Request] /\ \A r \in Req : PlacedAt(r)

WorldOK ==
    /\ provider \in ProviderView
    /\ wire \in [Op -> [Key -> WireStatus]]
    /\ policy \in 0..MaxPolicy
    /\ faults \in 0..MaxFaults
    /\ policy <= faults

\* Only a change with an intent row is ever on the wire.
WireHasIntent ==
    \A o \in Op, k \in Key :
        wire[o][k] # "idle" => mutationIntents[o][k] # "absent"

\* The inductive invariant behind the typing theorem.
IInv == TablesOK /\ RequestsOK /\ WorldOK /\ WireHasIntent

\* The plan depends on the snapshot only.
LEMMA ChangeStable ==
    ASSUME NEW r \in Req, NEW k \in Key,
           req'[r].owned = req[r].owned, req'[r].seen = req[r].seen
    PROVE  Change(r, k)' = Change(r, k)
BY DEF Change, PruneKeys, Current, DesiredKeys, KeyZone

\* A change to make is a deletion or is asked for by the manifest; an update
\* names a record.
LEMMA ChangeNames ==
    ASSUME IInv, NEW r \in Req, NEW k \in Key, Change(r, k) \in Action
    PROVE  /\ Change(r, k) # "delete" => Desired[OpOf[r]][k] \in Content
           /\ Change(r, k) = "update" => Target(r, k) \in RecordId
           /\ Target(r, k) \in RecordId \cup {NoRow}
<1>1. req[r].owned[k] \in ManagedRow \cup {NoRow} /\ OpOf[r] \in Op
  BY ApplyAssumption DEF IInv, RequestsOK, Request
<1>2. Current(r, k) # {} => req[r].owned[k].id \in RecordId
  BY <1>1 DEF Current, ManagedRow
<1>3. Change(r, k) # "delete" => k \in DesiredKeys(OpOf[r])
  BY DEF Change, Action
<1>4. Change(r, k) = "update" => Current(r, k) # {}
  BY DEF Change
<1>5. k \in DesiredKeys(OpOf[r]) => Desired[OpOf[r]][k] \in Content
  BY <1>1, StoreAssumption DEF DesiredKeys
<1>6. QED
  BY <1>2, <1>3, <1>4, <1>5 DEF Target

\* No statement deletes an intent row.
LEMMA IntentsStay ==
    ASSUME TablesOK, TableStep, NEW o \in Op, NEW k \in Key,
           mutationIntents[o][k] # "absent"
    PROVE  mutationIntents'[o][k] # "absent"
<1>1. mutationIntents \in [Op -> [Key -> IntentStatus]]
  BY DEF TablesOK, StoreTypeOK
<1>2. \/ mutationIntents' = mutationIntents
      \/ \E p \in Op, j \in Key, status \in IntentStatus \ {"absent"} :
            SetIntent(p, j, status)
  <2>1. \A p \in Op, j \in Key, action \in Action, target \in RecordId \cup {NoRow} :
           BeginBatch(p, j, action, target) => SetIntent(p, j, "prepared")
    BY DEF BeginBatch
  <2>2. \A p \in Op, j \in Key :
           /\ SentStatement(p, j) => SetIntent(p, j, "sent")
           /\ ConfirmBatch(p, j) => SetIntent(p, j, "confirmed")
           /\ IndeterminateBatch(p, j) => SetIntent(p, j, "indeterminate")
    BY DEF SentStatement, ConfirmBatch, IndeterminateBatch
  <2>3. \A p \in Op, j \in Key, decision \in Decision,
            record \in ProviderRecord \cup {NoRow} :
           ResolveBatch(p, j, decision, record) => SetIntent(p, j, "resolved")
    BY DEF ResolveBatch
  <2>4. ASSUME ~ \E p \in Op, j \in Key, status \in IntentStatus \ {"absent"} :
                   SetIntent(p, j, status)
        PROVE  mutationIntents' = mutationIntents
    <3>1. {"prepared", "sent", "confirmed", "indeterminate", "resolved"}
             \subseteq IntentStatus \ {"absent"}
      BY DEF IntentStatus
    <3>2. QED
      BY <2>1, <2>2, <2>3, <2>4, <3>1 DEF TableStep, ReserveBatch, ReuseBatch,
         StartStatement, FinishBatch, FailedBatch, FreezeBatch, UpdateStatement,
         tables
  <2>5. QED
    BY <2>4
<1>3. QED
  BY <1>1, <1>2 DEF SetIntent

-----------------------------------------------------------------------------
(* How a request moves *)

Moved(r) ==
    /\ req' = [req EXCEPT ![r] = req'[r]]
    /\ req'[r] \in Request
    /\ PlacedAt(r)'

\* A request that does not move keeps its place.
LEMMA PlaceStays ==
    ASSUME IInv, TableStep, NEW q \in Req, req'[q] = req[q]
    PROVE  PlacedAt(q)'
<1>1. PlacedAt(q) /\ req[q] \in Request /\ OpOf[q] \in Op
  BY ApplyAssumption DEF IInv, RequestsOK
<1>2. \A k \in Key : Change(q, k)' = Change(q, k)
  BY ChangeStable
<1>3. \A k \in Key : mutationIntents[OpOf[q]][k] # "absent" =>
                       mutationIntents'[OpOf[q]][k] # "absent"
  BY <1>1, IntentsStay DEF IInv
<1>4. req[q].keys \subseteq Key
  BY <1>1 DEF Request
<1>5. QED
  BY <1>1, <1>2, <1>3, <1>4 DEF PlacedAt, AtKey

LEMMA MovedKeepsRequests ==
    ASSUME IInv, TableStep, NEW r \in Req, Moved(r)
    PROVE  RequestsOK'
<1>1. req' \in [Req -> Request]
  BY DEF Moved, IInv, RequestsOK
<1>2. \A q \in Req : q # r => req'[q] = req[q]
  BY DEF Moved, IInv, RequestsOK
<1>3. QED
  BY <1>1, <1>2, PlaceStays DEF Moved, RequestsOK

LEMMA LeaveMoves ==
    ASSUME IInv, NEW r \in Req, Leave(r)
    PROVE  Moved(r)
<1>1. Fresh("done") \in Request
  BY StoreAssumption DEF Fresh, Request, Step, Executing, NothingSeen,
     ProviderView, OperationStatus
<1>2. req' = [req EXCEPT ![r] = Fresh("done")] /\ req'[r] = Fresh("done")
  BY DEF Leave, IInv, RequestsOK
<1>3. PlacedAt(r)'
  BY <1>2 DEF PlacedAt, AtZone, AtKey, Fresh
<1>4. QED
  BY <1>1, <1>2, <1>3 DEF Moved

LEMMA GotoMoves ==
    ASSUME IInv, NEW r \in Req, NEW step \in Step, Goto(r, step),
           step \in AtZone => req[r].pc \in AtZone,
           step \in AtKey \cup {"zone"} => req[r].pc \in AtKey \cup {"zone"},
           step \in AtKey => req[r].pc \in AtKey,
           step \in AtKey \ {"begin"} =>
              mutationIntents'[OpOf[r]][req[r].key] # "absent"
    PROVE  Moved(r)
<1>1. req[r] \in Request /\ PlacedAt(r)
  BY DEF IInv, RequestsOK
<1>2. /\ req' = [req EXCEPT ![r] = [req[r] EXCEPT !.pc = step]]
      /\ req'[r] = [req[r] EXCEPT !.pc = step]
  BY DEF Goto, IInv, RequestsOK
<1>3. req'[r] \in Request
  BY <1>1, <1>2 DEF Request
<1>4. /\ req'[r].pc = step /\ req'[r].zone = req[r].zone
      /\ req'[r].keys = req[r].keys /\ req'[r].key = req[r].key
      /\ req'[r].owned = req[r].owned /\ req'[r].seen = req[r].seen
  BY <1>1, <1>2 DEF Request
<1>5. \A k \in Key : Change(r, k)' = Change(r, k)
  BY <1>4, ChangeStable
<1>6. PlacedAt(r)'
  BY <1>1, <1>4, <1>5 DEF PlacedAt, Request
<1>7. QED
  BY <1>2, <1>3, <1>6 DEF Moved

LEMMA NextZoneMoves ==
    ASSUME IInv, NEW r \in Req, NextZone(r)
    PROVE  Moved(r)
<1>1. req[r] \in Request
  BY DEF IInv, RequestsOK
<1>2. /\ req' = [req EXCEPT ![r] = req'[r]]
      /\ req'[r] = [req[r] EXCEPT !.pc = "zones", !.zone = NoZone, !.keys = {},
                       !.key = NoKey, !.zones = @ \ {req[r].zone}]
  BY DEF NextZone, IInv, RequestsOK
<1>3. req'[r] \in Request /\ req'[r].pc = "zones"
  BY <1>1, <1>2 DEF Request, Step, Executing
<1>4. QED
  BY <1>2, <1>3 DEF Moved, PlacedAt, AtZone, AtKey

\* Entering a zone, and going on with its changes.
LEMMA ZoneMoves ==
    ASSUME IInv, NEW r \in Req, NEW row \in Request,
           req' = [req EXCEPT ![r] = row],
           row.pc \in {"zone", "begin", "zoneError"},
           row.zone \in Zone,
           row.owned = req[r].owned, row.seen = req[r].seen,
           \A k \in row.keys : Change(r, k) \in Action,
           row.pc = "begin" => row.key \in Key /\ Change(r, row.key) \in Action
    PROVE  Moved(r)
<1>1. req'[r] = row /\ row.keys \subseteq Key
  BY DEF IInv, RequestsOK, Request
<1>2. \A k \in Key : Change(r, k)' = Change(r, k)
  BY <1>1, ChangeStable
<1>3. \A k \in req'[r].keys : Change(r, k)' \in Action
  BY <1>1, <1>2
<1>4. req'[r].pc \in AtKey =>
         \E k \in Key : k = req'[r].key /\ Change(r, k)' \in Action
  BY <1>1, <1>2 DEF AtKey
<1>5. req'[r].pc \notin AtKey \ {"begin"}
  BY <1>1 DEF AtKey
<1>6. QED
  BY <1>1, <1>3, <1>4, <1>5 DEF Moved, PlacedAt

LEMMA KeyDoneMoves ==
    ASSUME IInv, NEW r \in Req, KeyDone(r), req[r].pc \in AtKey
    PROVE  Moved(r)
<1> DEFINE row == [req[r] EXCEPT !.pc = "zone", !.key = NoKey,
                                 !.keys = @ \ {req[r].key}]
<1>1. req[r] \in Request /\ PlacedAt(r)
  BY DEF IInv, RequestsOK
<1>2. req' = [req EXCEPT ![r] = row]
  BY DEF KeyDone
<1>3. row \in Request
  BY <1>1 DEF Request, Step, Executing
<1>4. /\ row.pc = "zone" /\ row.zone = req[r].zone /\ row.keys \subseteq req[r].keys
      /\ row.owned = req[r].owned /\ row.seen = req[r].seen
  BY <1>1 DEF Request
<1>5. row.zone \in Zone /\ \A k \in row.keys : Change(r, k) \in Action
  BY <1>1, <1>4 DEF PlacedAt, AtZone
<1>6. QED
  BY <1>2, <1>3, <1>4, <1>5, ZoneMoves

-----------------------------------------------------------------------------
(* The steps of a request *)

\* The arguments a request hands to the batches are of the right kind.
LEMMA RequestArguments ==
    ASSUME IInv, NEW r \in Req
    PROVE  /\ OpOf[r] \in Op /\ TokenOf[r] \in Token /\ req[r] \in Request
           /\ req[r].version \in 0..MaxPolicy /\ PlacedAt(r)
           /\ OpZones(OpOf[r]) \in SUBSET Zone
           /\ AffectedSets(r) \in SUBSET RecordSet
           /\ NewClaims(r) \in SUBSET AffectedSets(r)
           /\ Digest(r) \in ProviderView
<1>1. /\ OpOf[r] \in Op /\ TokenOf[r] \in Token /\ req[r] \in Request
      /\ PlacedAt(r)
  BY ApplyAssumption DEF IInv, RequestsOK
<1>2. OpZones(OpOf[r]) \in SUBSET Zone
  BY <1>1, StoreAssumption, ApplyAssumption DEF OpZones, KeyZone, DesiredKeys
<1>3. AffectedSets(r) \in SUBSET RecordSet
  BY StoreAssumption DEF AffectedSets, DesiredKeys, PruneKeys
<1>4. Digest(r) \in ProviderView
  BY <1>1 DEF Digest, Request, ProviderView
<1>5. NewClaims(r) \in SUBSET AffectedSets(r)
  BY DEF NewClaims, AffectedSets
<1>6. QED
  BY <1>1, <1>2, <1>3, <1>4, <1>5 DEF Request

\* Batches made with such arguments are table steps.
LEMMA RequestBatches ==
    ASSUME IInv, NEW r \in Req
    PROVE  /\ ReserveNew(r) => TableStep
           /\ ReuseBatch(OpOf[r], TokenOf[r]) => TableStep
           /\ StartStatement(OpOf[r]) => TableStep
           /\ req[r].pc \in AtKey =>
                /\ BeginIntent(r) => TableStep
                /\ SentStatement(OpOf[r], req[r].key) => TableStep
                /\ ConfirmBatch(OpOf[r], req[r].key) => TableStep
                /\ IndeterminateBatch(OpOf[r], req[r].key) => TableStep
           /\ req[r].pc \in AtZone =>
                /\ FinishBatch(OpOf[r], req[r].zone) => TableStep
                /\ FailedBatch(OpOf[r], req[r].zone) => TableStep
                /\ FreezeBatch(OpOf[r], req[r].zone) => TableStep
           /\ UpdateStatement(OpOf[r], req[r].verdict) => TableStep
<1> USE RequestArguments
<1>1. ReserveNew(r) => TableStep
  <2>1. NewClaims(r) \in SUBSET RecordSet
    OBVIOUS
  <2>2. QED
    BY <2>1 DEF ReserveNew, TableStep
<1>2. /\ ReuseBatch(OpOf[r], TokenOf[r]) => TableStep
      /\ StartStatement(OpOf[r]) => TableStep
  BY DEF TableStep
<1>3. ASSUME req[r].pc \in AtKey
      PROVE  /\ BeginIntent(r) => TableStep
             /\ SentStatement(OpOf[r], req[r].key) => TableStep
             /\ ConfirmBatch(OpOf[r], req[r].key) => TableStep
             /\ IndeterminateBatch(OpOf[r], req[r].key) => TableStep
  <2>1. req[r].key \in Key /\ Change(r, req[r].key) \in Action
    BY <1>3 DEF PlacedAt
  <2>2. BeginIntent(r) => TableStep
    BY <2>1, ChangeNames DEF BeginIntent, TableStep
  <2>3. QED
    BY <2>1, <2>2 DEF TableStep
<1>4. ASSUME req[r].pc \in AtZone
      PROVE  /\ FinishBatch(OpOf[r], req[r].zone) => TableStep
             /\ FailedBatch(OpOf[r], req[r].zone) => TableStep
             /\ FreezeBatch(OpOf[r], req[r].zone) => TableStep
  <2>1. req[r].zone \in Zone
    BY <1>4 DEF PlacedAt
  <2>2. QED
    BY <2>1 DEF TableStep
<1>5. UpdateStatement(OpOf[r], req[r].verdict) => TableStep
  BY DEF Request, TableStep
<1>6. QED
  BY <1>1, <1>2, <1>3, <1>4, <1>5

\* A table step and a move of the request: what every step of a request is.
LEMMA RequestStepMoves ==
    ASSUME IInv, NEW r \in Req, RequestStep(r)
    PROVE  TableStep /\ Moved(r)
<1> DEFINE o == OpOf[r]
           k == req[r].key
<1>1. /\ req \in [Req -> Request] /\ TablesOK /\ provider \in ProviderView
      /\ policy \in 0..MaxPolicy
      /\ o \in Op /\ req[r] \in Request /\ PlacedAt(r)
  BY RequestArguments DEF IInv, RequestsOK, WorldOK
<1>2. UNCHANGED tables => TableStep
  BY DEF TableStep
<1>3. \A row \in Request : /\ req' = [req EXCEPT ![r] = row]
                           /\ row.pc \notin AtZone
                           => Moved(r)
  <2> SUFFICES ASSUME NEW row \in Request, req' = [req EXCEPT ![r] = row],
                      row.pc \notin AtZone
               PROVE  Moved(r)
    OBVIOUS
  <2>1. req'[r] = row
    BY <1>1
  <2>2. QED
    BY <2>1 DEF Moved, PlacedAt, AtZone, AtKey
<1>4. \A step \in Step \ AtZone : Goto(r, step) => Moved(r)
  BY GotoMoves DEF AtZone, AtKey
<1>5. CASE Lookup(r)
  <2> DEFINE row == [req[r] EXCEPT !.pc = "owned", !.version = policy,
                                   !.resumes = operations[o].status # "absent"]
  <2>1. row \in Request /\ row.pc \notin AtZone
    BY <1>1 DEF Request, Step, AtZone, AtKey
  <2>2. ASSUME req' = [req EXCEPT ![r].pc = "owned",
                                  ![r].resumes = operations[o].status # "absent",
                                  ![r].version = policy]
        PROVE  Moved(r)
    <3>1. req' = [req EXCEPT ![r] = row]
      BY <2>2
    <3>2. QED
      BY <1>3, <2>1, <3>1
  <2>3. CASE req' = [req EXCEPT ![r].pc = "owned",
                                ![r].resumes = operations[o].status # "absent",
                                ![r].version = policy] /\ UNCHANGED tables
    BY <1>2, <2>2, <2>3
  <2>4. CASE Leave(r) /\ (UNCHANGED tables \/ ReuseBatch(o, TokenOf[r]))
    BY <1>2, <2>4, LeaveMoves, RequestBatches
  <2>5. QED
    BY <1>5, <2>3, <2>4 DEF Lookup
<1>6. CASE ReadOwned(r)
  <2>1. OwnedRows(RepoOf[o]) \in [Key -> ManagedRow \cup {NoRow}]
    BY <1>1 DEF OwnedRows, TablesOK, StoreTypeOK
  <2> DEFINE row == [req[r] EXCEPT !.pc = "listing", !.owned = OwnedRows(RepoOf[o])]
  <2>2. row \in Request /\ row.pc \notin AtZone
    BY <1>1, <2>1 DEF Request, Step, AtZone, AtKey
  <2>3. req' = [req EXCEPT ![r] = row] /\ UNCHANGED tables
    BY <1>6 DEF ReadOwned
  <2>4. QED
    BY <1>2, <1>3, <2>2, <2>3
<1>7. CASE ListProvider(r)
  <2> DEFINE row == [req[r] EXCEPT !.pc = "classify", !.seen = provider]
  <2>1. row \in Request /\ row.pc \notin AtZone
    BY <1>1 DEF Request, Step, AtZone, AtKey
  <2>2. req' = [req EXCEPT ![r] = row] /\ UNCHANGED tables
    BY <1>7 DEF ListProvider
  <2>3. QED
    BY <1>2, <1>3, <2>1, <2>2
<1>8. CASE Classify(r)
  <2> DEFINE claimed == {s \in AffectedSets(r) : recordClaims[s] # NoClaim}
             row == [req[r] EXCEPT !.pc = "admit", !.claimed = claimed]
  <2>1. claimed \in SUBSET RecordSet
    BY RequestArguments
  <2>2. row \in Request /\ row.pc \notin AtZone
    <3> HIDE DEF claimed
    <3> QED BY <1>1, <2>1 DEF Request, Step, AtZone, AtKey
  <2>3. /\ req' = [req EXCEPT ![r] = row] \/ Leave(r)
        /\ UNCHANGED tables
    BY <1>8 DEF Classify
  <2>4. QED
    BY <1>2, <1>3, <2>2, <2>3, LeaveMoves
<1>9. CASE Admit(r)
  BY <1>2, <1>4, <1>9, LeaveMoves DEF Admit, Step, AtZone, AtKey
<1>10. CASE Reserve(r)
  <2>1. TableStep
    BY <1>2, <1>10, RequestBatches DEF Reserve
  <2>2. Moved(r)
    BY <1>4, <1>10, LeaveMoves DEF Reserve, Step, AtZone, AtKey
  <2>3. QED
    BY <2>1, <2>2
<1>11. CASE Start(r)
  <2> DEFINE zones == OpZones(o)
             row == [req[r] EXCEPT !.pc = "zones", !.zones = zones]
  <2>1. row \in Request /\ row.pc \notin AtZone
    <3>1. zones \in SUBSET Zone
      BY RequestArguments
    <3> HIDE DEF zones
    <3>2. QED
      BY <1>1, <3>1 DEF Request, Step, Executing, AtZone, AtKey
  <2>2. req' = [req EXCEPT ![r] = row] \/ Leave(r)
    BY <1>11 DEF Start
  <2>3. TableStep
    BY <1>2, <1>11, RequestBatches DEF Start
  <2>4. QED
    BY <1>3, <2>1, <2>2, <2>3, LeaveMoves
<1>12. ASSUME NEW z \in Zone, VisitZone(r, z)
       PROVE  TableStep /\ Moved(r)
  <2>1. ASSUME req' = [req EXCEPT ![r].zones = @ \ {z}], req[r].pc = "zones"
        PROVE  Moved(r)
    <3> DEFINE row == [req[r] EXCEPT !.zones = @ \ {z}]
    <3>1. row \in Request /\ row.pc \notin AtZone
      BY <1>1, <2>1 DEF Request, AtZone, AtKey
    <3>2. req' = [req EXCEPT ![r] = row]
      BY <2>1
    <3>3. QED
      BY <1>3, <3>1, <3>2
  <2>2. ASSUME NEW keys \in SUBSET Key, NEW step \in {"zone", "zoneError"},
               \A j \in keys : Change(r, j) \in Action,
               req' = [req EXCEPT ![r].pc = step, ![r].zone = z, ![r].keys = keys]
        PROVE  Moved(r)
    <3> DEFINE row == [req[r] EXCEPT !.pc = step, !.zone = z, !.keys = keys]
    <3>1. req' = [req EXCEPT ![r] = row]
      BY <2>2
    <3>2. row \in Request
      BY <1>1 DEF Request, Step, Executing
    <3>3. /\ row.pc = step /\ row.zone = z /\ row.keys = keys
          /\ row.owned = req[r].owned /\ row.seen = req[r].seen
      BY <1>1 DEF Request
    <3> HIDE DEF row
    <3>4. QED
      BY <2>2, <3>1, <3>2, <3>3, ZoneMoves
  <2>3. Mutations(r, z) \in SUBSET Key
        /\ \A j \in Mutations(r, z) : Change(r, j) \in Action
    BY DEF Mutations, Action
  <2>4. UNCHANGED tables
    BY <1>12 DEF VisitZone
  <2>5. \/ req[r].pc = "zones" /\ req' = [req EXCEPT ![r].zones = @ \ {z}]
        \/ req' = [req EXCEPT ![r].pc = "zone", ![r].zone = z,
                              ![r].keys = Mutations(r, z)]
        \/ req' = [req EXCEPT ![r].pc = "zoneError", ![r].zone = z, ![r].keys = {}]
    BY <1>12 DEF VisitZone
  <2>6. Moved(r)
    BY <2>1, <2>2, <2>3, <2>5
  <2>7. QED
    BY <1>2, <2>4, <2>6
<1>13. ASSUME NEW j \in Key, TakeKey(r, j)
       PROVE  TableStep /\ Moved(r)
  <2>1. req[r].pc = "zone" /\ j \in req[r].keys /\ UNCHANGED tables
    BY <1>13 DEF TakeKey
  <2>2. req[r].zone \in Zone /\ Change(r, j) \in Action
    BY <1>1, <2>1 DEF PlacedAt, AtZone, AtKey
  <2>3. req[r].zone \in Zone /\ \A i \in req[r].keys : Change(r, i) \in Action
    BY <1>1, <2>1 DEF PlacedAt, AtZone
  <2>4. CASE req' = [req EXCEPT ![r].keys = @ \ {j}]
    <3> DEFINE row == [req[r] EXCEPT !.keys = @ \ {j}]
    <3>1. req' = [req EXCEPT ![r] = row]
      BY <2>4
    <3>2. row \in Request
      BY <1>1 DEF Request
    <3>3. /\ row.pc = "zone" /\ row.zone = req[r].zone
          /\ row.keys \subseteq req[r].keys
          /\ row.owned = req[r].owned /\ row.seen = req[r].seen
      BY <1>1, <2>1 DEF Request
    <3> HIDE DEF row
    <3>4. Moved(r)
      BY <2>3, <3>1, <3>2, <3>3, ZoneMoves
    <3>5. QED
      BY <1>2, <2>1, <3>4
  <2>5. CASE req' = [req EXCEPT ![r].pc = "begin", ![r].key = j]
    <3> DEFINE row == [req[r] EXCEPT !.pc = "begin", !.key = j]
    <3>1. req' = [req EXCEPT ![r] = row]
      BY <2>5
    <3>2. row \in Request
      BY <1>1 DEF Request, Step, Executing
    <3>3. /\ row.pc = "begin" /\ row.zone = req[r].zone
          /\ row.keys = req[r].keys /\ row.key = j
          /\ row.owned = req[r].owned /\ row.seen = req[r].seen
      BY <1>1 DEF Request
    <3> HIDE DEF row
    <3>4. Moved(r)
      BY <2>2, <2>3, <3>1, <3>2, <3>3, ZoneMoves
    <3>5. QED
      BY <1>2, <2>1, <3>4
  <2>6. CASE Goto(r, "zoneError")
    BY <1>2, <2>1, <2>6, GotoMoves DEF Step, Executing, AtZone, AtKey
  <2>7. QED
    BY <1>13, <2>4, <2>5, <2>6 DEF TakeKey
<1>14. ASSUME req[r].pc \in AtKey \ {"begin"}, TableStep,
              NEW step \in {"call", "await", "confirm", "unknown", "zoneError"},
              Goto(r, step)
       PROVE  Moved(r)
  <2>1. k \in Key /\ mutationIntents[o][k] # "absent"
    BY <1>1, <1>14 DEF PlacedAt
  <2>2. mutationIntents'[o][k] # "absent"
    BY <1>1, <1>14, <2>1, IntentsStay
  <2>3. step \in Step
    BY DEF Step, Executing
  <2>4. QED
    BY <1>14, <2>2, <2>3, GotoMoves DEF AtZone, AtKey
<1>15. ASSUME req[r].pc \in AtZone,
              NEW step \in {"finish", "zoneError", "freeze"}, Goto(r, step)
       PROVE  Moved(r)
  BY <1>15, GotoMoves DEF Step, Executing, AtZone, AtKey
<1>16. CASE EndZone(r)
  BY <1>2, <1>15, <1>16 DEF EndZone, AtZone
<1>17. CASE Begin(r)
  <2>1. req[r].pc \in AtKey /\ req[r].pc \in AtZone /\ k \in Key
    BY <1>1, <1>17 DEF Begin, AtKey, AtZone, PlacedAt
  <2>2. CASE BeginIntent(r) /\ Goto(r, "mark")
    <3>1. mutationIntents'[o][k] = "prepared"
      BY <1>1, <2>1, <2>2 DEF BeginIntent, BeginBatch, SetIntent, TablesOK,
         StoreTypeOK
    <3>2. "mark" \in Step
      BY DEF Step, Executing
    <3>3. Moved(r)
      BY <2>1, <2>2, <3>1, <3>2, GotoMoves
    <3>4. QED
      BY <2>1, <2>2, <3>3, RequestBatches
  <2>3. CASE Goto(r, "zoneError") /\ UNCHANGED tables
    BY <1>2, <1>15, <2>1, <2>3
  <2>4. QED
    BY <1>17, <2>2, <2>3 DEF Begin
<1>18. CASE Mark(r)
  <2>1. req[r].pc \in AtKey /\ req[r].pc \in AtKey \ {"begin"}
    BY <1>18 DEF Mark, AtKey
  <2>2. TableStep
    BY <1>2, <1>18, <2>1, RequestBatches DEF Mark
  <2>3. QED
    BY <1>14, <1>18, <2>1, <2>2 DEF Mark
<1>19. CASE Call(r)
  BY <1>2, <1>14, <1>19 DEF Call, AtKey
<1>20. CASE Receive(r)
  BY <1>2, <1>14, <1>20 DEF Receive, AtKey
<1>21. CASE Confirm(r)
  <2>1. req[r].pc \in AtKey /\ req[r].pc \in AtKey \ {"begin"}
    BY <1>21 DEF Confirm, AtKey
  <2>2. TableStep
    BY <1>2, <1>21, <2>1, RequestBatches DEF Confirm
  <2>3. QED
    BY <1>14, <1>21, <2>1, <2>2, KeyDoneMoves DEF Confirm
<1>22. CASE MarkUnknown(r)
  <2>1. req[r].pc \in AtKey /\ req[r].pc \in AtKey \ {"begin"}
    BY <1>22 DEF MarkUnknown, AtKey
  <2>2. TableStep
    BY <1>2, <1>22, <2>1, RequestBatches DEF MarkUnknown
  <2>3. QED
    BY <1>14, <1>22, <2>1, <2>2 DEF MarkUnknown
<1>23. CASE Finish(r)
  BY <1>2, <1>15, <1>23, NextZoneMoves, RequestBatches DEF Finish, AtZone
<1>24. CASE ZoneError(r)
  BY <1>2, <1>15, <1>24, NextZoneMoves, RequestBatches DEF ZoneError, AtZone
<1>25. CASE Freeze(r)
  BY <1>25, NextZoneMoves, RequestBatches DEF Freeze, AtZone
<1>26. CASE Tally(r)
  <2> DEFINE verdict == Verdict(o)
             row == [req[r] EXCEPT !.pc = "update", !.verdict = verdict]
  <2>1. verdict \in OperationStatus
    BY DEF Verdict, OperationStatus
  <2>2. row \in Request /\ row.pc \notin AtZone
    <3> HIDE DEF verdict
    <3> QED BY <1>1, <2>1 DEF Request, Step, Executing, AtZone, AtKey
  <2>3. req' = [req EXCEPT ![r] = row] /\ UNCHANGED tables
    BY <1>26 DEF Tally
  <2>4. QED
    BY <1>2, <1>3, <2>2, <2>3
<1>27. CASE Update(r)
  BY <1>27, LeaveMoves, RequestBatches DEF Update
<1>28. QED
  BY <1>5, <1>6, <1>7, <1>8, <1>9, <1>10, <1>11, <1>12, <1>13, <1>16, <1>17,
     <1>18, <1>19, <1>20, <1>21, <1>22, <1>23, <1>24, <1>25, <1>26, <1>27
     DEF RequestStep

\* So is every fault that befalls one.
LEMMA RequestFaultMoves ==
    ASSUME IInv, NEW r \in Req, RequestFault(r)
    PROVE  TableStep /\ Moved(r)
<1>1. UNCHANGED tables => TableStep
  BY DEF TableStep
<1>2. /\ OpOf[r] \in Op /\ PlacedAt(r) /\ TablesOK
      /\ \A step \in {"zoneError", "freeze", "unknown"} : step \in Step
  BY RequestArguments DEF IInv, Step, Executing
<1>3. ASSUME TableStep, WriteFails(r) PROVE Moved(r)
  <2>1. CASE Leave(r)
    BY <2>1, LeaveMoves
  <2>2. CASE req[r].pc \in {"begin", "mark", "unknown", "finish"} /\ Goto(r, "zoneError")
    BY <1>2, <2>2, GotoMoves DEF AtZone, AtKey
  <2>3. CASE req[r].pc = "confirm" /\ Goto(r, "unknown")
    <3>1. \E k \in Key : k = req[r].key /\ mutationIntents[OpOf[r]][k] # "absent"
      BY <1>2, <2>3 DEF PlacedAt, AtKey
    <3>2. mutationIntents'[OpOf[r]][req[r].key] # "absent"
      BY <1>2, <1>3, <3>1, IntentsStay
    <3>3. QED
      BY <1>2, <2>3, <3>2, GotoMoves DEF AtZone, AtKey
  <2>4. CASE req[r].pc = "zoneError" /\ Goto(r, "freeze")
    BY <1>2, <2>4, GotoMoves DEF AtZone, AtKey
  <2>5. QED
    BY <1>3, <2>1, <2>2, <2>3, <2>4 DEF WriteFails
<1>4. PendingWrite(r) => TableStep
  BY RequestBatches DEF PendingWrite, AtZone, AtKey
<1>5. CASE WriteAborted(r)
  BY <1>1, <1>3, <1>5 DEF WriteAborted
<1>6. CASE AnswerLost(r)
  BY <1>3, <1>4, <1>6 DEF AnswerLost
<1>7. CASE ReadFails(r)
  BY <1>1, <1>2, <1>7, GotoMoves DEF ReadFails, AtZone, AtKey
<1>8. CASE ProviderTimeout(r)
  <2>1. mutationIntents[OpOf[r]][req[r].key] # "absent" /\ UNCHANGED tables
    BY <1>2, <1>8 DEF ProviderTimeout, PlacedAt, AtKey
  <2>2. mutationIntents'[OpOf[r]][req[r].key] # "absent"
    BY <1>2, <2>1, <1>8 DEF tables, ProviderTimeout
  <2>3. QED
    BY <1>1, <1>2, <1>8, <2>1, <2>2, GotoMoves DEF ProviderTimeout, AtZone, AtKey
<1>9. CASE RequestTimeout(r) \/ Crash(r)
  BY <1>1, <1>9, LeaveMoves DEF RequestTimeout, Crash
<1>10. QED
  BY <1>5, <1>6, <1>7, <1>8, <1>9 DEF RequestFault

\* An operator's decision is a table step and moves no request.
LEMMA OperatorStepTables ==
    ASSUME IInv, NEW o \in Op, NEW k \in Key, OperatorStep(o, k)
    PROVE  TableStep /\ UNCHANGED <<provider, wire, policy, faults, req>>
<1>1. PICK decision \in Decisions, p \in Candidates(k) : Resolve(o, k, decision, p)
  BY DEF OperatorStep
<1>2. decision \in Decision /\ p \in ProviderRecord \cup {NoRow}
  BY OperatorAssumption DEF Candidates, IInv, WorldOK, ProviderView
<1>3. decision = "confirm-provider" /\ intentActions[o][k].action # "delete"
         => p \in ProviderRecord
  <2>1. SUFFICES ASSUME decision = "confirm-provider",
                        intentActions[o][k].action # "delete"
                 PROVE  p \in provider[k]
    BY DEF IInv, WorldOK, ProviderView
  <2>2. ConfirmEvidence(o, k, p)
    BY <1>1, <2>1 DEF Resolve, Evidence
  <2>3. QED
    BY <2>1, <2>2 DEF ConfirmEvidence
<1>4. QED
  BY <1>1, <1>2, <1>3 DEF Resolve, world, TableStep

-----------------------------------------------------------------------------
(* Every step *)

\* What each step is, to the tables and to the requests.
LEMMA NextShape ==
    ASSUME IInv, [Next]_vars
    PROVE  /\ TableStep
           /\ (\E r \in Req : Moved(r)) \/ UNCHANGED req
<1>1. UNCHANGED tables => TableStep
  BY DEF TableStep
<1>2. ASSUME NEW r \in Req, RequestStep(r) \/ RequestFault(r)
      PROVE  TableStep /\ Moved(r)
  BY <1>2, RequestStepMoves, RequestFaultMoves
<1>3. ASSUME NEW o \in Op, NEW k \in Key, ProviderApply(o, k)
      PROVE  TableStep /\ UNCHANGED req
  BY <1>1, <1>3 DEF ProviderApply
<1>4. ASSUME NEW o \in Op, NEW k \in Key, OperatorStep(o, k)
      PROVE  TableStep /\ UNCHANGED req
  BY <1>4, OperatorStepTables
<1>5. CASE Environment
  BY <1>1, <1>5 DEF Environment, ProviderReject, Drift, SyncPolicy
<1>6. CASE UNCHANGED vars
  BY <1>1, <1>6 DEF vars
<1>7. QED
  BY <1>2, <1>3, <1>4, <1>5, <1>6 DEF Next

\* What a request puts on the wire has an intent row.
LEMMA WireNext ==
    ASSUME IInv, [Next]_vars
    PROVE  /\ wire' \in [Op -> [Key -> WireStatus]]
           /\ WireHasIntent'
<1> USE DEF WireStatus
<1>1. wire \in [Op -> [Key -> WireStatus]] /\ TablesOK /\ WireHasIntent
  BY DEF IInv, WorldOK
<1>2. \A o \in Op, k \in Key : mutationIntents[o][k] # "absent" =>
                              mutationIntents'[o][k] # "absent"
  BY <1>1, NextShape, IntentsStay
<1>3. ASSUME NEW o \in Op, NEW k \in Key, NEW status \in WireStatus,
             mutationIntents[o][k] # "absent",
             wire' = [wire EXCEPT ![o][k] = status]
      PROVE  wire' \in [Op -> [Key -> WireStatus]] /\ WireHasIntent'
  BY <1>1, <1>2, <1>3 DEF WireHasIntent
<1>4. CASE UNCHANGED wire
  BY <1>1, <1>2, <1>4 DEF WireHasIntent
<1>5. ASSUME NEW r \in Req, Call(r)
      PROVE  wire' \in [Op -> [Key -> WireStatus]] /\ WireHasIntent'
  <2>1. /\ OpOf[r] \in Op /\ req[r].key \in Key
        /\ mutationIntents[OpOf[r]][req[r].key] # "absent"
    BY <1>5, RequestArguments DEF Call, PlacedAt, AtKey
  <2>2. QED
    BY <1>3, <1>5, <2>1 DEF Call
<1>6. ASSUME NEW o \in Op, NEW k \in Key,
             ProviderApply(o, k) \/ ProviderReject(o, k)
      PROVE  wire' \in [Op -> [Key -> WireStatus]] /\ WireHasIntent'
  <2>1. mutationIntents[o][k] # "absent"
    BY <1>1, <1>6 DEF ProviderApply, ProviderReject, WireHasIntent
  <2>2. QED
    BY <1>3, <1>6, <2>1 DEF ProviderApply, ProviderReject
<1>7. ASSUME NEW r \in Req, RequestStep(r), ~Call(r) PROVE UNCHANGED wire
  BY <1>7 DEF RequestStep, Lookup, ReadOwned, ListProvider, Classify, Admit,
     Reserve, Start, VisitZone, TakeKey, EndZone, Begin, Mark, Receive, Confirm,
     MarkUnknown, Finish, ZoneError, Freeze, Tally, Update, world
<1>8. ASSUME NEW r \in Req, RequestFault(r) PROVE UNCHANGED wire
  BY <1>8 DEF RequestFault, WriteAborted, AnswerLost, ReadFails, ProviderTimeout,
     RequestTimeout, Crash
<1>9. ASSUME NEW o \in Op, NEW k \in Key, OperatorStep(o, k) PROVE UNCHANGED wire
  BY <1>9, OperatorStepTables
<1>10. CASE (\E k \in Key : Drift(k)) \/ SyncPolicy \/ UNCHANGED vars
  BY <1>4, <1>10 DEF Drift, SyncPolicy, vars
<1>11. QED
  BY <1>4, <1>5, <1>6, <1>7, <1>8, <1>9, <1>10 DEF Next, Environment

\* The records a change makes are records.
LEMMA EffectIsView ==
    ASSUME IInv, NEW o \in Op, NEW k \in Key, wire[o][k] # "idle"
    PROVE  Effect(o, k) \in SUBSET ProviderRecord
<1>1. /\ provider[k] \in SUBSET ProviderRecord
      /\ intentActions[o][k].action \in Action
      /\ intentActions[o][k].action # "delete" => Desired[o][k] \in Content
      /\ intentActions[o][k].action = "update"
            => intentActions[o][k].target \in RecordId
  BY DEF IInv, WorldOK, ProviderView, WireHasIntent, TablesOK, IntentsMeanSomething
<1>2. \A id \in RecordId : intentActions[o][k].action # "delete" =>
         [id |-> id, content |-> Desired[o][k], rev |-> o] \in ProviderRecord
  BY <1>1 DEF ProviderRecord, Revision
<1>3. NewId(o, k) \in RecordId
  BY DEF RecordId
<1>4. QED
  BY <1>1, <1>2, <1>3 DEF Effect, Action

\* Each fault is counted once, and each policy is a fault.
LEMMA CountersNext ==
    ASSUME IInv, [Next]_vars
    PROVE  /\ policy' \in 0..MaxPolicy /\ faults' \in 0..MaxFaults
           /\ policy' <= faults'
<1> USE ApplyAssumption, StoreAssumption
<1>1. /\ policy \in 0..MaxPolicy /\ faults \in 0..MaxFaults /\ policy <= faults
  BY DEF IInv, WorldOK
<1>2. ASSUME policy' = policy, faults' = faults \/ \E f \in FaultKind : Inject(f)
      PROVE  /\ policy' \in 0..MaxPolicy /\ faults' \in 0..MaxFaults
             /\ policy' <= faults'
  BY <1>1, <1>2 DEF Inject
<1>3. ASSUME NEW r \in Req, RequestStep(r) PROVE UNCHANGED <<policy, faults>>
  BY <1>3 DEF RequestStep, Lookup, ReadOwned, ListProvider, Classify, Admit,
     Reserve, Start, VisitZone, TakeKey, EndZone, Begin, Mark, Call, Receive,
     Confirm, MarkUnknown, Finish, ZoneError, Freeze, Tally, Update, world
<1>4. ASSUME NEW r \in Req, RequestFault(r)
      PROVE  policy' = policy /\ \E f \in FaultKind : Inject(f)
  BY <1>4 DEF RequestFault, WriteAborted, AnswerLost, ReadFails, ProviderTimeout,
     RequestTimeout, Crash, FaultKind
<1>5. ASSUME NEW o \in Op, NEW k \in Key, ProviderApply(o, k) \/ OperatorStep(o, k)
      PROVE  UNCHANGED <<policy, faults>>
  BY <1>5, OperatorStepTables DEF ProviderApply
<1>6. ASSUME NEW k \in Key,
             (\E o \in Op : ProviderReject(o, k)) \/ Drift(k)
      PROVE  policy' = policy /\ \E f \in FaultKind : Inject(f)
  BY <1>6 DEF ProviderReject, Drift, FaultKind
<1>7. CASE SyncPolicy
  BY <1>1, <1>7 DEF SyncPolicy, Inject
<1>8. CASE UNCHANGED vars
  BY <1>2, <1>8 DEF vars
<1>9. QED
  BY <1>2, <1>3, <1>4, <1>5, <1>6, <1>7, <1>8 DEF Next, Environment

LEMMA ProviderNext ==
    ASSUME IInv, [Next]_vars
    PROVE  provider' \in ProviderView
<1>1. provider \in ProviderView /\ faults \in 0..MaxFaults
  BY DEF IInv, WorldOK
<1>2. CASE UNCHANGED provider
  BY <1>1, <1>2
<1>3. ASSUME NEW o \in Op, NEW k \in Key, ProviderApply(o, k)
      PROVE  provider' \in ProviderView
  <2>1. Effect(o, k) \in SUBSET ProviderRecord
    BY <1>3, EffectIsView DEF ProviderApply
  <2>2. QED
    BY <1>1, <1>3, <2>1 DEF ProviderApply, ProviderView
<1>4. ASSUME NEW k \in Key, Drift(k)
      PROVE  provider' \in ProviderView
  <2>1. PICK p \in provider[k] : \E q \in
              {{}} \cup {{[p EXCEPT !.content = c, !.rev = faults + 1]} : c \in Content} :
           provider' = [provider EXCEPT ![k] = (@ \ {p}) \cup q]
    BY <1>4 DEF Drift
  <2>2. p \in ProviderRecord
    BY <1>1 DEF ProviderView
  <2>3. faults + 1 \in Revision
    <3>1. faults < MaxFaults
      BY <1>4 DEF Drift, Inject
    <3>2. MaxFaults \in Nat /\ MaxRevision \in Nat /\ MaxFaults <= MaxRevision
      BY ApplyAssumption, StoreAssumption
    <3>3. faults + 1 \in 0..MaxRevision
      BY <1>1, <3>1, <3>2
    <3>4. QED
      BY <3>3 DEF Revision
  <2>4. \A c \in Content : [p EXCEPT !.content = c, !.rev = faults + 1] \in ProviderRecord
    BY <2>2, <2>3 DEF ProviderRecord
  <2>5. PICK q \in {{}} \cup {{[p EXCEPT !.content = c, !.rev = faults + 1]} : c \in Content} :
           provider' = [provider EXCEPT ![k] = (@ \ {p}) \cup q]
    BY <2>1
  <2>6. q \in SUBSET ProviderRecord
    BY <2>4
  <2>7. provider[k] \in SUBSET ProviderRecord
    BY <1>1 DEF ProviderView
  <2>8. (provider[k] \ {p}) \cup q \in SUBSET ProviderRecord
    BY <2>6, <2>7
  <2>9. QED
    BY <1>1, <2>5, <2>8 DEF ProviderView
<1>5. ASSUME NEW r \in Req, RequestStep(r) \/ RequestFault(r)
      PROVE  UNCHANGED provider
  <2>1. ASSUME RequestStep(r) PROVE UNCHANGED provider
    BY <2>1 DEF RequestStep, Lookup, ReadOwned, ListProvider, Classify, Admit,
       Reserve, Start, VisitZone, TakeKey, EndZone, Begin, Mark, Call, Receive,
       Confirm, MarkUnknown, Finish, ZoneError, Freeze, Tally, Update, world
  <2>2. ASSUME RequestFault(r) PROVE UNCHANGED provider
    BY <2>2 DEF RequestFault, WriteAborted, AnswerLost, ReadFails,
       ProviderTimeout, RequestTimeout, Crash
  <2>3. QED
    BY <1>5, <2>1, <2>2
<1>6. ASSUME NEW o \in Op, NEW k \in Key, OperatorStep(o, k) \/ ProviderReject(o, k)
      PROVE  UNCHANGED provider
  BY <1>6, OperatorStepTables DEF ProviderReject
<1>7. CASE SyncPolicy \/ UNCHANGED vars
  BY <1>2, <1>7 DEF SyncPolicy, vars
<1>8. QED
  BY <1>2, <1>3, <1>4, <1>5, <1>6, <1>7 DEF Next, Environment

-----------------------------------------------------------------------------
(* Typing *)

LEMMA IInvInit == Init => IInv
<1> SUFFICES ASSUME Init PROVE IInv
  OBVIOUS
<1>1. TablesOK
  BY TablesInit DEF Init
<1>2. WorldOK /\ WireHasIntent
  BY StoreAssumption, ApplyAssumption DEF Init, WorldOK, WireHasIntent, WireStatus,
     ProviderView, ProviderRecord, RecordId, Revision
<1>3. RequestsOK
  <2>1. Fresh("lookup") \in Request
    BY StoreAssumption DEF Fresh, Request, Step, Executing, NothingSeen,
       ProviderView, OperationStatus
  <2>2. QED
    BY <2>1 DEF Init, RequestsOK, PlacedAt, AtZone, AtKey, Fresh
<1>4. QED
  BY <1>1, <1>2, <1>3 DEF IInv

LEMMA IInvNext == IInv /\ [Next]_vars => IInv'
<1> SUFFICES ASSUME IInv, [Next]_vars PROVE IInv'
  OBVIOUS
<1>1. TableStep /\ ((\E r \in Req : Moved(r)) \/ UNCHANGED req)
  BY NextShape
<1>2. TablesOK'
  BY <1>1, TablesNext DEF IInv
<1>3. RequestsOK'
  <2>1. ASSUME NEW r \in Req, Moved(r) PROVE RequestsOK'
    BY <1>1, <2>1, MovedKeepsRequests
  <2>2. ASSUME UNCHANGED req PROVE RequestsOK'
    BY <1>1, <2>2, PlaceStays DEF RequestsOK, IInv
  <2>3. QED
    BY <1>1, <2>1, <2>2
<1>4. WorldOK' /\ WireHasIntent'
  BY WireNext, CountersNext, ProviderNext DEF WorldOK
<1>5. QED
  BY <1>2, <1>3, <1>4 DEF IInv

LEMMA IInvHolds == Spec => []IInv
BY IInvInit, IInvNext, PTL DEF Spec

\* Every table, request and message has its type in every reachable state: the
\* rows the Worker writes satisfy the CHECK constraints and the column types
\* of the migrations, and no step meets a missing zone or change.
THEOREM TypeCorrect == Spec => []TypeOK
<1>1. IInv => TypeOK
  BY DEF IInv, TablesOK, RequestsOK, WorldOK, TypeOK
<1>2. QED
  BY <1>1, IInvHolds, PTL
=============================================================================
