---------------------------- MODULE Safety_proofs ----------------------------
(***************************************************************************)
(* What the locks, the compare-and-set of startOperation and the tokens    *)
(* guarantee for every number of operations, requests, record sets and     *)
(* faults.  Each theorem adds to IInv, the typing invariant, what it needs. *)
(***************************************************************************)
EXTENDS FlareForm_proofs

-----------------------------------------------------------------------------
(* Locks *)

\* A lock that covers an intent in progress is released by no statement.
LEMMA LocksNext ==
    TablesOK /\ LocksCoverIntents /\ TableStep => LocksCoverIntents'
<1> SUFFICES ASSUME TablesOK, LocksCoverIntents, TableStep,
                    NEW q \in Op, NEW j \in Key,
                    mutationIntents'[q][j] \notin Settled
             PROVE  operationLocks'[SetOf[j]] = q
  BY DEF LocksCoverIntents
<1>1. /\ mutationIntents \in [Op -> [Key -> IntentStatus]]
      /\ operationLocks \in [RecordSet -> Op \cup {NoOp}]
      /\ SetOf[j] \in RecordSet /\ q # NoOp
      /\ SetOf \in [Key -> RecordSet]
  BY StoreAssumption DEF TablesOK, StoreTypeOK
<1>2. mutationIntents[q][j] \notin Settled => operationLocks[SetOf[j]] = q
  BY DEF LocksCoverIntents
<1>3. CASE UNCHANGED <<operationLocks, mutationIntents>>
  BY <1>2, <1>3
<1>4. ASSUME NEW o \in Op, NEW t \in Token, NEW zones \in SUBSET Zone,
             NEW sets \in SUBSET RecordSet, NEW newClaims \in SUBSET RecordSet,
             NEW version \in 0..MaxPolicy, NEW digest \in ProviderView,
             ReserveBatch(o, t, zones, sets, newClaims, version, digest)
      PROVE  operationLocks'[SetOf[j]] = q
  BY <1>1, <1>2, <1>4 DEF ReserveBatch, LockInsertable
<1>5. ASSUME NEW o \in Op, NEW k \in Key, NEW action \in Action,
             NEW target \in RecordId \cup {NoRow}, BeginBatch(o, k, action, target)
      PROVE  operationLocks'[SetOf[j]] = q
  BY <1>1, <1>2, <1>5 DEF BeginBatch, SetIntent
<1>6. ASSUME NEW o \in Op, NEW k \in Key,
             \/ SentStatement(o, k) \/ ConfirmBatch(o, k) \/ IndeterminateBatch(o, k)
      PROVE  operationLocks'[SetOf[j]] = q
  <2>1. PICK status \in {"sent", "confirmed", "indeterminate"} :
           /\ SetIntent(o, k, status)
           /\ UNCHANGED operationLocks
           /\ status # "confirmed" => mutationIntents[o][k] \notin Settled
    BY <1>6 DEF SentStatement, ConfirmBatch, IndeterminateBatch, StatusTransition,
       Settled
  <2>2. QED
    BY <1>1, <1>2, <2>1 DEF SetIntent, Settled
<1>7. ASSUME NEW o \in Op, NEW z \in Zone, FinishBatch(o, z)
      PROVE  operationLocks'[SetOf[j]] = q
  BY <1>1, <1>2, <1>7 DEF FinishBatch, ReleaseLocks, ZoneSettled, LocksIn, KeyZone
<1>8. ASSUME NEW o \in Op, NEW k \in Key, NEW decision \in Decision,
             NEW p \in ProviderRecord \cup {NoRow}, ResolveBatch(o, k, decision, p)
      PROVE  operationLocks'[SetOf[j]] = q
  <2> DEFINE others == \A i \in Key \ {k} :
                          KeyZone(i) = KeyZone(k) => mutationIntents[o][i] \in Settled
             lost == IF others THEN LocksIn(o, KeyZone(k)) ELSE {}
  <2>1. SetIntent(o, k, "resolved")
    BY <1>8 DEF ResolveBatch
  <2>2. operationLocks' = [s \in RecordSet |->
                             IF operationLocks[s] = o
                                /\ s \notin {i \in RecordSet : operationLocks[i] = o} \ lost
                             THEN NoOp ELSE operationLocks[s]]
    BY <1>8 DEF ResolveBatch
  <2>3. mutationIntents[q][j] \notin Settled /\ <<q, j>> # <<o, k>>
    BY <1>1, <2>1 DEF SetIntent, Settled
  <2>4. SetOf[j] \notin lost
    BY <1>1, <1>2, <2>3 DEF LocksIn, KeyZone
  <2> HIDE DEF lost
  <2>5. QED
    BY <1>1, <1>2, <2>2, <2>3, <2>4
<1>9. QED
  BY <1>3, <1>4, <1>5, <1>6, <1>7, <1>8 DEF TableStep, ReuseBatch, StartStatement,
     FailedBatch, FreezeBatch, UpdateStatement, tables

\* However requests, operators and faults interleave, an intent that is not known
\* to have ended keeps its operation's lock, so no other operation can be admitted
\* to the record set (validate_mutation_intent, validate_lock_release).
THEOREM LocksAlwaysCover == Spec => []LocksCoverIntents
<1>1. Init => LocksCoverIntents
  BY DEF Init, StoreInit, LocksCoverIntents, Settled
<1>2. IInv /\ LocksCoverIntents /\ [Next]_vars => LocksCoverIntents'
  BY LocksNext, NextShape DEF IInv
<1>3. QED
  BY <1>1, <1>2, IInvHolds, PTL DEF Spec

-----------------------------------------------------------------------------
(* Claims *)

\* A batch that touches the row of one key and the claim of its set, for an
\* operation, keeps rows and claims together.
LEMMA ClaimKept ==
    ASSUME TablesOK, SingleOwner, NEW o \in Op, NEW k \in Key,
           NEW row, NEW claim,
           managedRecords' = [managedRecords EXCEPT ![k] = row],
           recordClaims'[SetOf[k]] = claim,
           \A s \in RecordSet \ {SetOf[k]} :
              \/ recordClaims'[s] = recordClaims[s]
              \/ recordClaims'[s] = NoClaim /\ \A j \in KeysOf(s) : managedRecords[j] = NoRow,
           \/ claim = recordClaims[SetOf[k]] /\ row \in {managedRecords[k], NoRow}
           \/ claim = NoClaim /\ OnlyRecord(k) /\ row = NoRow
           \/ /\ claim = [repo |-> RepoOf[o], state |-> "active"]
              /\ HasClaim(o, SetOf[k]) /\ OwnerOf[k] = RepoOf[o]
    PROVE  SingleOwner'
<1>1. /\ managedRecords \in [Key -> ManagedRow \cup {NoRow}]
      /\ SetOf \in [Key -> RecordSet]
  BY StoreAssumption DEF TablesOK, StoreTypeOK
<1>2. ASSUME NEW j \in Key, managedRecords'[j] # NoRow
      PROVE  recordClaims'[SetOf[j]] = [repo |-> OwnerOf[j], state |-> "active"]
  <2>1. CASE SetOf[j] # SetOf[k]
    BY <1>1, <1>2, <2>1 DEF SingleOwner, KeysOf
  <2>2. CASE j = k
    BY <1>1, <1>2, <2>2 DEF SingleOwner
  <2>3. CASE SetOf[j] = SetOf[k] /\ j # k
    <3>1. managedRecords[j] # NoRow /\ ~OnlyRecord(k)
      BY <1>1, <1>2, <2>3 DEF OnlyRecord, KeysOf
    <3>2. recordClaims[SetOf[k]] = [repo |-> OwnerOf[j], state |-> "active"]
      BY <2>3, <3>1 DEF SingleOwner
    <3>3. HasClaim(o, SetOf[k]) => OwnerOf[j] = RepoOf[o]
      BY <3>2 DEF HasClaim
    <3>4. QED
      BY <2>3, <3>1, <3>2, <3>3
  <2>4. QED
    BY <2>1, <2>2, <2>3
<1>3. QED
  BY <1>2 DEF SingleOwner

LEMMA ClaimsNext == TablesOK /\ SingleOwner /\ TableStep => SingleOwner'
<1> SUFFICES ASSUME TablesOK, SingleOwner, TableStep PROVE SingleOwner'
  OBVIOUS
<1>1. /\ managedRecords \in [Key -> ManagedRow \cup {NoRow}]
      /\ recordClaims \in [RecordSet -> ClaimRow \cup {NoClaim}]
      /\ SetOf \in [Key -> RecordSet]
  BY StoreAssumption DEF TablesOK, StoreTypeOK
<1>2. ASSUME UNCHANGED <<recordClaims, managedRecords>>
      PROVE  SingleOwner'
  BY <1>2 DEF SingleOwner
<1>3. ASSUME NEW o \in Op, NEW t \in Token, NEW zones \in SUBSET Zone,
             NEW sets \in SUBSET RecordSet, NEW newClaims \in SUBSET RecordSet,
             NEW version \in 0..MaxPolicy, NEW digest \in ProviderView,
             newClaims \subseteq sets,
             ReserveBatch(o, t, zones, sets, newClaims, version, digest)
      PROVE  SingleOwner'
  <2> SUFFICES ASSUME NEW k \in Key, managedRecords'[k] # NoRow
               PROVE  recordClaims'[SetOf[k]] = [repo |-> OwnerOf[k], state |-> "active"]
    BY DEF SingleOwner
  <2>1. recordClaims[SetOf[k]] = [repo |-> OwnerOf[k], state |-> "active"]
    BY <1>3 DEF ReserveBatch, SingleOwner
  <2>2. [repo |-> OwnerOf[k], state |-> "active"] \in ClaimRow
    BY StoreAssumption DEF ClaimRow
  <2>3. SetOf[k] \notin newClaims /\ SetOf[k] \in RecordSet
    BY <1>1, <1>3, <2>1, <2>2, RowAssumption DEF ReserveBatch
  <2>4. recordClaims'[SetOf[k]] = recordClaims[SetOf[k]]
    BY <1>3, <2>3 DEF ReserveBatch
  <2>5. QED
    BY <2>1, <2>4
<1>4. ASSUME NEW o \in Op, NEW k \in Key, ConfirmBatch(o, k)
      PROVE  SingleOwner'
  <2>1. /\ mutationIntents[o][k] # "absent"
        /\ intentActions[o][k].action # "delete" => HasClaim(o, SetOf[k])
    BY <1>4 DEF ConfirmBatch, Confirmable, StatusTransition
  <2>2. intentActions[o][k].action # "delete" => OwnerOf[k] = RepoOf[o]
    BY <2>1, StoreAssumption DEF TablesOK, IntentsMeanSomething
  <2>3. \E row, claim :
           /\ managedRecords' = [managedRecords EXCEPT ![k] = row]
           /\ recordClaims' = [recordClaims EXCEPT ![SetOf[k]] = claim]
           /\ \/ claim = recordClaims[SetOf[k]] /\ row = NoRow
              \/ claim = NoClaim /\ OnlyRecord(k) /\ row = NoRow
              \/ /\ claim = [repo |-> RepoOf[o], state |-> "active"]
                 /\ intentActions[o][k].action # "delete"
    <3>1. CASE intentActions[o][k].action = "delete"
      BY <1>4, <3>1 DEF ConfirmBatch
    <3>2. CASE intentActions[o][k].action # "delete"
      BY <1>4, <3>2 DEF ConfirmBatch
    <3>3. QED
      BY <3>1, <3>2
  <2>4. PICK row, claim :
           /\ managedRecords' = [managedRecords EXCEPT ![k] = row]
           /\ recordClaims' = [recordClaims EXCEPT ![SetOf[k]] = claim]
           /\ \/ claim = recordClaims[SetOf[k]] /\ row = NoRow
              \/ claim = NoClaim /\ OnlyRecord(k) /\ row = NoRow
              \/ /\ claim = [repo |-> RepoOf[o], state |-> "active"]
                 /\ intentActions[o][k].action # "delete"
    BY <2>3
  <2>5. /\ recordClaims'[SetOf[k]] = claim
        /\ \A s \in RecordSet \ {SetOf[k]} :
              \/ recordClaims'[s] = recordClaims[s]
              \/ recordClaims'[s] = NoClaim /\ \A j \in KeysOf(s) : managedRecords[j] = NoRow
    BY <1>1, <2>4
  <2>6. \/ claim = recordClaims[SetOf[k]] /\ row \in {managedRecords[k], NoRow}
        \/ claim = NoClaim /\ OnlyRecord(k) /\ row = NoRow
        \/ /\ claim = [repo |-> RepoOf[o], state |-> "active"]
           /\ HasClaim(o, SetOf[k]) /\ OwnerOf[k] = RepoOf[o]
    BY <2>1, <2>2, <2>4
  <2>7. managedRecords' = [managedRecords EXCEPT ![k] = row]
    BY <2>4
  <2>8. QED
    BY <2>5, <2>6, <2>7, ClaimKept
<1>5. ASSUME NEW o \in Op, NEW k \in Key, NEW decision \in Decision,
             NEW p \in ProviderRecord \cup {NoRow}, ResolveBatch(o, k, decision, p)
      PROVE  SingleOwner'
  <2> DEFINE row == ResolvedRecord(o, k, decision, p)
             claim == ResolvedClaim(o, k, decision)
  <2>1. /\ mutationIntents[o][k] = "indeterminate"
        /\ HasClaim(o, SetOf[k])
        /\ managedRecords' = [managedRecords EXCEPT ![k] = row]
    BY <1>5 DEF ResolveBatch, StatusTransition
  <2>2. /\ recordClaims'[SetOf[k]] = claim
        /\ \A s \in RecordSet \ {SetOf[k]} :
              \/ recordClaims'[s] = recordClaims[s]
              \/ recordClaims'[s] = NoClaim /\ \A j \in KeysOf(s) : managedRecords[j] = NoRow
    <3> DEFINE unused == UnusedClaims(o, KeyZone(k))
    <3>1. recordClaims' = [s \in RecordSet |-> CASE s = SetOf[k] -> claim
                                                 [] s \in unused -> NoClaim
                                                 [] OTHER -> recordClaims[s]]
      BY <1>5 DEF ResolveBatch
    <3>2. SetOf[k] \notin unused
      BY <1>1, <2>1 DEF UnusedClaims, KeysOf
    <3>3. \A s \in unused : \A j \in KeysOf(s) : managedRecords[j] = NoRow
      BY DEF UnusedClaims
    <3> HIDE DEF unused, claim
    <3>4. QED
      BY <1>1, <3>1, <3>2, <3>3
  <2>3. intentActions[o][k].action # "delete" => OwnerOf[k] = RepoOf[o]
    BY <2>1, StoreAssumption DEF TablesOK, IntentsMeanSomething
  <2>4. \/ claim = recordClaims[SetOf[k]] /\ row \in {managedRecords[k], NoRow}
        \/ claim = NoClaim /\ OnlyRecord(k) /\ row = NoRow
        \/ /\ claim = [repo |-> RepoOf[o], state |-> "active"]
           /\ OwnerOf[k] = RepoOf[o]
    BY <2>3 DEF ResolvedRecord, ResolvedClaim, DenialFrees, Decision
  <2> HIDE DEF row, claim
  <2>5. QED
    BY <2>1, <2>2, <2>4, ClaimKept
<1>6. QED
  BY <1>2, <1>3, <1>4, <1>5 DEF TableStep, ReuseBatch, StartStatement, BeginBatch,
     SentStatement, IndeterminateBatch, FinishBatch, FailedBatch, FreezeBatch,
     UpdateStatement, tables

LEMMA ClaimsInit == StoreInit => SingleOwner
<1> SUFFICES ASSUME StoreInit,
                    NEW k \in Key, managedRecords[k] # NoRow
             PROVE  recordClaims[SetOf[k]] = [repo |-> OwnerOf[k], state |-> "active"]
  BY DEF SingleOwner
<1> DEFINE first == CHOOSE j \in InitialKeys \cap KeysOf(SetOf[k]) : TRUE
<1>1. k \in InitialKeys \cap KeysOf(SetOf[k]) /\ SetOf[k] \in RecordSet
  BY StoreAssumption DEF StoreInit, KeysOf
<1>2. first \in InitialKeys \cap KeysOf(SetOf[k])
  BY <1>1
<1>3. OwnerOf[first] = OwnerOf[k]
  BY <1>1, <1>2, StoreAssumption DEF KeysOf
<1>4. QED
  BY <1>1, <1>3 DEF StoreInit

\* A record set never mixes the managed records of two repositories, nor has
\* records without an active claim: whoever confirms or resolves a change, a claim
\* is only made, given back or taken over with the rows it stands for
\* (validate_mutation_confirmation, confirmMutation, resolveMutationAdmin).
THEOREM OneOwnerPerSet == Spec => []SingleOwner
<1>1. Init => SingleOwner
  BY ClaimsInit DEF Init
<1>2. IInv /\ SingleOwner /\ [Next]_vars => SingleOwner'
  BY ClaimsNext, NextShape DEF IInv
<1>3. QED
  BY <1>1, <1>2, IInvHolds, PTL DEF Spec

-----------------------------------------------------------------------------
(* Who executes *)

\* The statuses startOperation does not refuse, or that precede the reservation.
MayStart == {"absent", "reserved", "partial"}

\* The executing request owns the operation: its row is not free for another.
ExecInv ==
    /\ SingleExecution
    /\ \A r \in Req : req[r].pc \in Executing => operations[OpOf[r]].status \notin MayStart

\* No batch but updateOperation's frees an operation.
LEMMA BatchesKeepBusy ==
    ASSUME TablesOK, NEW q \in Op, operations[q].status \notin MayStart,
           UNCHANGED tables
           \/ (\E o \in Op, t \in Token : ReuseBatch(o, t))
           \/ (\E r \in Req : OpOf[r] \in Op /\ ReserveNew(r))
           \/ \E o \in Op :
                \/ StartStatement(o)
                \/ \E k : \/ SentStatement(o, k) \/ ConfirmBatch(o, k)
                          \/ IndeterminateBatch(o, k)
                          \/ \E action, target : BeginBatch(o, k, action, target)
                          \/ \E decision, p : ResolveBatch(o, k, decision, p)
                \/ \E z : FinishBatch(o, z) \/ FailedBatch(o, z) \/ FreezeBatch(o, z)
    PROVE  operations'[q].status \notin MayStart
<1>1. operations \in [Op -> OperationRow]
  BY DEF TablesOK, StoreTypeOK
<1>2. ASSUME UNCHANGED operations PROVE operations'[q].status \notin MayStart
  BY <1>2
<1>3. ASSUME NEW o \in Op, NEW status, status \notin MayStart \/ status = operations[o].status,
             SetStatus(o, status)
      PROVE  operations'[q].status \notin MayStart
  BY <1>1, <1>3 DEF SetStatus, OperationRow
<1>4. ASSUME NEW r \in Req, OpOf[r] \in Op, ReserveNew(r)
      PROVE  operations'[q].status \notin MayStart
  BY <1>1, <1>4 DEF ReserveNew, ReserveBatch, MayStart
<1>5. ASSUME NEW o \in Op, NEW k, NEW decision, NEW p, ResolveBatch(o, k, decision, p)
      PROVE  operations'[q].status \notin MayStart
  <2>1. \E status : /\ SetStatus(o, status)
                    /\ status = "reconciled" \/ status = operations[o].status
    BY <1>5 DEF ResolveBatch
  <2>2. QED
    BY <1>3, <2>1 DEF MayStart
<1>6. ASSUME NEW o \in Op,
             \/ StartStatement(o)
             \/ \E k : IndeterminateBatch(o, k)
             \/ \E z : FreezeBatch(o, z)
      PROVE  operations'[q].status \notin MayStart
  BY <1>3, <1>6 DEF StartStatement, IndeterminateBatch, FreezeBatch, MayStart
<1>7. QED
  BY <1>2, <1>4, <1>5, <1>6 DEF ReuseBatch, SentStatement, ConfirmBatch, BeginBatch,
     FinishBatch, FailedBatch, tables

\* A request that begins to execute did so by startOperation.
LEMMA Entering ==
    ASSUME IInv, [Next]_vars, NEW q \in Req,
           req'[q].pc \in Executing, req[q].pc \notin Executing
    PROVE  /\ StartStatement(OpOf[q])
           /\ req[q].pc = "start"
           /\ \A r \in Req \ {q} : req'[r] = req[r]
<1>1. req \in [Req -> Request]
  BY DEF IInv, RequestsOK
<1>2. ~ UNCHANGED req
  OBVIOUS
<1>3. PICK r \in Req : RequestStep(r) \/ RequestFault(r)
  BY <1>2, OperatorStepTables DEF Next, Environment, ProviderApply, ProviderReject,
     Drift, SyncPolicy, vars
<1>4. Moved(r)
  BY <1>3, RequestStepMoves, RequestFaultMoves
<1>5. r = q /\ \A p \in Req \ {q} : req'[p] = req[p]
  BY <1>1, <1>2, <1>4 DEF Moved
<1>6. ASSUME NEW step, step \notin Executing, Goto(q, step)
      PROVE  FALSE
  BY <1>1, <1>6 DEF Goto, Request
<1>7. ASSUME Leave(q) PROVE FALSE
  BY <1>1, <1>7 DEF Leave, Fresh, Executing
<1>8. ASSUME RequestFault(q) PROVE FALSE
  BY <1>6, <1>7, <1>8 DEF RequestFault, WriteAborted, AnswerLost, ReadFails,
     ProviderTimeout, RequestTimeout, Crash, WriteFails, Executing
<1>9. RequestStep(q) /\ req[q].pc \notin Executing
  BY <1>3, <1>5, <1>8
<1>10. ASSUME NEW step \in {"owned", "listing", "admit", "classify"}, req'[q].pc = step
       PROVE  FALSE
  BY <1>10 DEF Executing
<1>11. ASSUME \/ Lookup(q) \/ ReadOwned(q) \/ ListProvider(q) \/ Classify(q) \/ Admit(q)
              \/ Reserve(q)
       PROVE  FALSE
  <2>1. req'[q].pc \in {"owned", "listing", "admit", "classify", "reserve", "start",
                        "done"}
    BY <1>1, <1>11 DEF Lookup, ReadOwned, ListProvider, Classify, Admit, Reserve,
       Goto, Leave, Fresh, Request
  <2>2. QED
    BY <2>1 DEF Executing
<1>12. Start(q)
  BY <1>9, <1>11 DEF RequestStep, VisitZone, TakeKey, EndZone, Begin, Mark, Call,
     Receive, Confirm, MarkUnknown, Finish, ZoneError, Freeze, Tally, Update, Executing
<1>13. QED
  BY <1>5, <1>7, <1>12 DEF Start

\* An operation is freed only by a request that leaves it.
LEMMA Freeing ==
    ASSUME IInv, [Next]_vars, NEW o \in Op,
           operations[o].status \notin MayStart, operations'[o].status \in MayStart
    PROVE  \E r \in Req : /\ OpOf[r] = o
                          /\ req[r].pc \in Executing /\ req'[r].pc \notin Executing
<1>1. req \in [Req -> Request] /\ TablesOK /\ operations \in [Op -> OperationRow]
  BY DEF IInv, RequestsOK, TablesOK, StoreTypeOK
<1>2. ~ UNCHANGED tables
  BY DEF tables
<1>3. ASSUME NEW p \in Op, NEW k \in Key, OperatorStep(p, k) PROVE FALSE
  BY <1>1, <1>3, BatchesKeepBusy DEF OperatorStep, Resolve
<1>4. PICK r \in Req : RequestStep(r) \/ RequestFault(r)
  BY <1>2, <1>3 DEF Next, Environment, ProviderApply, ProviderReject, Drift,
     SyncPolicy, vars
<1>5. OpOf[r] \in Op /\ TokenOf[r] \in Token
  BY RequestArguments
<1>6. PICK status : UpdateStatement(OpOf[r], status) /\ req[r].pc = "update" /\ Leave(r)
  <2>1. ASSUME RequestStep(r), ~Update(r) PROVE FALSE
    BY <1>1, <1>2, <1>5, <2>1, BatchesKeepBusy DEF RequestStep, Lookup, ReadOwned,
       ListProvider, Classify, Admit, Reserve, Start, VisitZone, TakeKey, EndZone,
       Begin, BeginIntent, Mark, Call, Receive, Confirm, MarkUnknown, Finish,
       ZoneError, Freeze, Tally
  <2>2. ASSUME RequestFault(r), ~(AnswerLost(r) /\ req[r].pc = "update") PROVE FALSE
    BY <1>1, <1>2, <1>5, <2>2, BatchesKeepBusy DEF RequestFault, WriteAborted,
       AnswerLost, ReadFails, ProviderTimeout, RequestTimeout, Crash, PendingWrite,
       BeginIntent
  <2>3. CASE Update(r)
    BY <2>3 DEF Update
  <2>4. CASE AnswerLost(r) /\ req[r].pc = "update"
    BY <2>4 DEF AnswerLost, PendingWrite, WriteFails
  <2>5. QED
    BY <1>4, <2>1, <2>2, <2>3, <2>4
<1>7. OpOf[r] = o
  BY <1>1, <1>5, <1>6 DEF UpdateStatement, SetStatus
<1>8. req[r].pc \in Executing /\ req'[r].pc \notin Executing
  BY <1>1, <1>6 DEF Executing, Leave, Fresh
<1>9. QED
  BY <1>7, <1>8

LEMMA ExecNext == IInv /\ ExecInv /\ [Next]_vars => ExecInv'
<1> SUFFICES ASSUME IInv, ExecInv, [Next]_vars PROVE ExecInv'
  OBVIOUS
<1>1. \A r \in Req : OpOf[r] \in Op
  BY ApplyAssumption
<1>2. operations \in [Op -> OperationRow]
  BY DEF IInv, TablesOK, StoreTypeOK
<1>3. ASSUME NEW r \in Req, req'[r].pc \in Executing
      PROVE  operations'[OpOf[r]].status \notin MayStart
  <2>1. CASE req[r].pc \in Executing
    BY <1>1, <1>3, <2>1, Freeing DEF ExecInv, SingleExecution
  <2>2. CASE req[r].pc \notin Executing
    <3>1. SetStatus(OpOf[r], "running")
      BY <1>3, <2>2, Entering DEF StartStatement
    <3>2. operations'[OpOf[r]].status = "running"
      BY <1>1, <1>2, <3>1 DEF SetStatus, OperationRow
    <3>3. QED
      BY <3>2 DEF MayStart
  <2>3. QED
    BY <2>1, <2>2
<1>4. ASSUME NEW q \in Req, NEW r \in Req, OpOf[q] = OpOf[r], q # r,
             req'[q].pc \in Executing, req'[r].pc \in Executing,
             req[q].pc \notin Executing
      PROVE  FALSE
  <2>1. StartStatement(OpOf[q]) /\ req'[r] = req[r]
    BY <1>4, Entering
  <2>2. operations[OpOf[r]].status \notin MayStart
    BY <1>4, <2>1 DEF ExecInv
  <2>3. QED
    BY <1>4, <2>1, <2>2 DEF StartStatement, MayStart
<1>5. SingleExecution'
  BY <1>4 DEF ExecInv, SingleExecution
<1>6. QED
  BY <1>3, <1>5 DEF ExecInv

\* However many retries and duplicates of a request arrive, at most one of them
\* executes the operation, and its row stays closed to the others until that one
\* has left (the compare-and-set of startOperation).
THEOREM ExecutedOnce == Spec => []SingleExecution
<1>1. Init => ExecInv
  BY DEF Init, ExecInv, SingleExecution, Fresh, Executing
<1>2. ExecInv => SingleExecution
  BY DEF ExecInv
<1>3. QED
  BY <1>1, <1>2, ExecNext, IInvHolds, PTL DEF Spec

-----------------------------------------------------------------------------
(* Tokens *)

\* A request past the reservation has consumed its token.
TokenInv ==
    /\ TokenAdmitsOnce
    /\ \A r \in Req : req[r].pc \in {"start"} \cup Executing => TokenOf[r] \in oidcJti

\* No statement of the mutation path forgets a token.
LEMMA TokensStay == ASSUME TableStep PROVE oidcJti \subseteq oidcJti'
<1>1. \A o, t, zones, sets, newClaims, version, digest :
         ReserveBatch(o, t, zones, sets, newClaims, version, digest) => ConsumeToken(t)
  BY DEF ReserveBatch
<1>2. \A o, t : ReuseBatch(o, t) => ConsumeToken(t)
  BY DEF ReuseBatch
<1>3. ASSUME NEW t, ConsumeToken(t) PROVE oidcJti \subseteq oidcJti'
  BY <1>3 DEF ConsumeToken
<1>4. ASSUME NEW o, NEW k, NEW decision, NEW p, ResolveBatch(o, k, decision, p)
      PROVE  UNCHANGED oidcJti
  BY <1>4 DEF ResolveBatch
<1>5. ASSUME NEW o, NEW k,
             \/ \E action, target : BeginBatch(o, k, action, target)
             \/ SentStatement(o, k) \/ ConfirmBatch(o, k) \/ IndeterminateBatch(o, k)
      PROVE  UNCHANGED oidcJti
  BY <1>5 DEF BeginBatch, SentStatement, ConfirmBatch, IndeterminateBatch
<1>6. ASSUME NEW o,
             \/ StartStatement(o)
             \/ \E z : FinishBatch(o, z) \/ FailedBatch(o, z) \/ FreezeBatch(o, z)
             \/ \E status : UpdateStatement(o, status)
      PROVE  UNCHANGED oidcJti
  BY <1>6 DEF StartStatement, FinishBatch, FailedBatch, FreezeBatch, UpdateStatement
<1>7. CASE UNCHANGED tables
  BY <1>7 DEF tables
<1>8. QED
  BY <1>1, <1>2, <1>3, <1>4, <1>5, <1>6, <1>7 DEF TableStep

\* The reservation is the only way past it, and it consumes the token.
LEMMA Passing ==
    ASSUME IInv, [Next]_vars, NEW q \in Req,
           req'[q].pc \in {"start"} \cup Executing,
           req[q].pc \notin {"start"} \cup Executing
    PROVE  /\ ConsumeToken(TokenOf[q])
           /\ \A r \in Req \ {q} : req'[r] = req[r]
<1>1. req \in [Req -> Request]
  BY DEF IInv, RequestsOK
<1>2. req'[q].pc = "start"
  BY Entering
<1>3. PICK r \in Req : RequestStep(r) \/ RequestFault(r)
  BY <1>2, OperatorStepTables DEF Next, Environment, ProviderApply, ProviderReject,
     Drift, SyncPolicy, vars
<1>4. Moved(r)
  BY <1>3, RequestStepMoves, RequestFaultMoves
<1>5. r = q /\ \A p \in Req \ {q} : req'[p] = req[p]
  BY <1>1, <1>2, <1>4 DEF Moved
<1>6. ASSUME NEW step, step # "start", Goto(q, step)
      PROVE  FALSE
  BY <1>1, <1>2, <1>6 DEF Goto, Request
<1>7. ASSUME Leave(q) PROVE FALSE
  BY <1>1, <1>2, <1>7 DEF Leave, Fresh
<1>8. ASSUME RequestFault(q) PROVE FALSE
  BY <1>6, <1>7, <1>8 DEF RequestFault, WriteAborted, AnswerLost, ReadFails,
     ProviderTimeout, RequestTimeout, Crash, WriteFails
<1>9. RequestStep(q) /\ req[q].pc \notin {"start"} \cup Executing
  BY <1>3, <1>5, <1>8
<1>10. ASSUME Lookup(q) \/ ReadOwned(q) \/ ListProvider(q) \/ Classify(q) \/ Admit(q)
       PROVE  FALSE
  <2>1. req'[q].pc \in {"owned", "listing", "admit", "classify", "reserve", "done"}
    BY <1>1, <1>10 DEF Lookup, ReadOwned, ListProvider, Classify, Admit, Goto,
       Leave, Fresh, Request
  <2>2. QED
    BY <1>2, <2>1
<1>11. Reserve(q)
  BY <1>9, <1>10 DEF RequestStep, Start, VisitZone, TakeKey, EndZone, Begin, Mark,
     Call, Receive, Confirm, MarkUnknown, Finish, ZoneError, Freeze, Tally, Update,
     Executing
<1>12. QED
  BY <1>5, <1>7, <1>11 DEF Reserve, ReserveNew, ReserveBatch, ReuseBatch

LEMMA TokenNext == IInv /\ TokenInv /\ [Next]_vars => TokenInv'
<1> SUFFICES ASSUME IInv, TokenInv, [Next]_vars PROVE TokenInv'
  OBVIOUS
<1> DEFINE Past == {"start"} \cup Executing
<1>1. oidcJti \subseteq oidcJti'
  BY NextShape, TokensStay
<1>2. ASSUME NEW r \in Req, req'[r].pc \in Past
      PROVE  TokenOf[r] \in oidcJti'
  BY <1>1, <1>2, Passing DEF TokenInv, ConsumeToken
<1>3. ASSUME NEW q \in Req, NEW r \in Req, TokenOf[q] = TokenOf[r], q # r,
             req'[q].pc \in Past, req'[r].pc \in Past, req[q].pc \notin Past
      PROVE  FALSE
  <2>1. ConsumeToken(TokenOf[q]) /\ req'[r] = req[r]
    BY <1>3, Passing
  <2>2. TokenOf[r] \in oidcJti
    BY <1>3, <2>1 DEF TokenInv
  <2>3. QED
    BY <1>3, <2>1, <2>2 DEF ConsumeToken
<1>4. TokenAdmitsOnce'
  BY <1>3 DEF TokenInv, TokenAdmitsOnce
<1>5. QED
  BY <1>2, <1>4 DEF TokenInv

\* One OIDC token gets at most one request past the reservation, although the
\* token is checked, looked up and recorded in different statements (the primary
\* key of oidc_jti, in the same batch as the reservation).
THEOREM TokensAdmitOnce == Spec => []TokenAdmitsOnce
<1>1. Init => TokenInv
  BY DEF Init, TokenInv, TokenAdmitsOnce, Fresh, Executing
<1>2. TokenInv => TokenAdmitsOnce
  BY DEF TokenInv
<1>3. QED
  BY <1>1, <1>2, TokenNext, IInvHolds, PTL DEF Spec
=============================================================================
