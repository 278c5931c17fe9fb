-------------------------- MODULE Adoption_proofs --------------------------
(***************************************************************************)
(* Adoptions beside any number of applies: what they cannot disturb, that  *)
(* a record is marked for one key only, however often adoptions of it are  *)
(* cut and started again, that nothing is sent beside an unmanaged record, *)
(* that the claim of its set never stands in the way of a marked one, and  *)
(* that D1 and the provider name one key for every record of D1.           *)
(***************************************************************************)
EXTENDS Adoption, Lease_proofs

\* Where a run stands: it has a target, and after the listing a content.
Aimed ==
    /\ adoption \in AdoptionState
    /\ adoption.pc # "idle" =>
          <<adoption.key, adoption.id>> \in Targets
    /\ adoption.pc \notin {"idle", "list"} => adoption.content \in Content

\* A record that was unmanaged at the start is under one key at most.
OneKeyEach ==
    \A j, k \in Key : \A p \in provider[j], q \in provider[k] :
        p.id = q.id /\ p.id \in Unmanaged => j = k

\* A run that is to mark its record has seen it without metadata, and still no
\* key has it.
StillFree ==
    (adoption.pc \in {"rows", "claim"} /\ ~adoption.matches) \/ adoption.pc = "mark" =>
        \A k \in Key \ Unmanaged : \A p \in provider[k] : p.id # adoption.id

AdoptionInv == IInv /\ Aimed /\ OneKeyEach /\ StillFree

\* The records operations create are not the first ones.
LEMMA Created == \A o \in Op, k \in Key : NewId(o, k) \notin Unmanaged
BY IdAssumption, AdoptionAssumption

-----------------------------------------------------------------------------
(* The mutation path moves no record from key to key *)

\* What happens to identifiers in a step of it: new ones are of records that an
\* operation creates, so none of Unmanaged's comes to a key.
IdsStay ==
    \A k \in Key : \A q \in provider'[k] :
        (\E p \in provider[k] : p.id = q.id) \/ \E o \in Op : q.id = NewId(o, k)
RecordsStay ==
    \A k \in Key : \A q \in provider'[k] :
        q.id \in Unmanaged => \E p \in provider[k] : p.id = q.id

LEMMA EffectKeepsIds ==
    ASSUME IInv, NEW o \in Op, NEW k \in Key, wire[o][k] # "idle",
           intentActions[o][k].action = "create"
             \/ \E p \in provider[k] : p.id = intentActions[o][k].target,
           NEW q \in Effect(o, k)
    PROVE  (\E p \in provider[k] : p.id = q.id) \/ q.id = NewId(o, k)
<1>1. intentActions[o][k].action \in Action
  BY DEF IInv, WireHasIntent, TablesOK, IntentsMeanSomething
<1>2. CASE intentActions[o][k].action = "create"
  BY <1>2 DEF Effect
<1>3. CASE intentActions[o][k].action = "update"
  BY <1>3 DEF Effect
<1>4. CASE intentActions[o][k].action = "delete"
  BY <1>4 DEF Effect
<1>5. QED
  BY <1>1, <1>2, <1>3, <1>4 DEF Action

LEMMA PathKeepsIds == ASSUME IInv, [Next]_vars PROVE IdsStay
<1>1. provider \in [Key -> SUBSET ProviderRecord]
  BY DEF IInv, WorldOK, ProviderView
<1>2. CASE UNCHANGED provider
  BY <1>2 DEF IdsStay
<1>3. ASSUME NEW o \in Op, NEW k \in Key, ProviderApply(o, k) PROVE IdsStay
  <2>1. CASE UNCHANGED provider
    BY <1>2, <2>1
  <2>2. CASE /\ intentActions[o][k].action = "create"
                \/ \E p \in provider[k] : p.id = intentActions[o][k].target
             /\ provider' = [provider EXCEPT ![k] = Effect(o, k)]
    <3>1. wire[o][k] # "idle"
      BY <1>3 DEF ProviderApply
    <3>2. \A q \in Effect(o, k) : (\E p \in provider[k] : p.id = q.id) \/ q.id = NewId(o, k)
      BY <2>2, <3>1, EffectKeepsIds
    <3>3. QED
      BY <1>1, <2>2, <3>2 DEF IdsStay
  <2>3. QED
    BY <1>3, <2>1, <2>2 DEF ProviderApply
<1>4. ASSUME NEW k \in Key, Drift(k) PROVE IdsStay
  <2>1. PICK p \in provider[k] : \E q \in
              {{}} \cup {{[p EXCEPT !.content = c, !.rev = faults + 1]} : c \in Content} :
           provider' = [provider EXCEPT ![k] = (@ \ {p}) \cup q]
    BY <1>4 DEF Drift
  <2>2. PICK q \in {{}} \cup {{[p EXCEPT !.content = c, !.rev = faults + 1]} : c \in Content} :
           provider' = [provider EXCEPT ![k] = (@ \ {p}) \cup q]
    BY <2>1
  <2>3. p \in ProviderRecord
    BY <1>1
  <2>4. \A new \in q : new.id = p.id
    BY <2>3 DEF ProviderRecord
  <2>5. QED
    BY <1>1, <2>2, <2>4 DEF IdsStay
<1>5. ASSUME NEW r \in Req, RequestStep(r) PROVE UNCHANGED provider
  BY <1>5 DEF RequestStep, Lookup, ReadOwned, ListProvider, Classify, Admit,
     Reserve, Start, VisitZone, TakeKey, EndZone, Begin, Mark, Call, Receive,
     Confirm, MarkUnknown, Finish, ZoneError, Freeze, Tally, Update, world
<1>6. ASSUME NEW r \in Req, RequestFault(r) PROVE UNCHANGED provider
  BY <1>6 DEF RequestFault, WriteAborted, AnswerLost, ReadFails, ProviderTimeout,
     RequestTimeout, Crash
<1>7. ASSUME NEW o \in Op, NEW k \in Key, OperatorStep(o, k) \/ ProviderReject(o, k)
      PROVE  UNCHANGED provider
  BY <1>7, OperatorStepTables DEF ProviderReject
<1>8. CASE SyncPolicy \/ UNCHANGED vars
  BY <1>2, <1>8 DEF SyncPolicy, vars
<1>9. QED
  BY <1>2, <1>3, <1>4, <1>5, <1>6, <1>7, <1>8 DEF Next, Environment

LEMMA PathKeepsRecords == ASSUME IInv, [Next]_vars PROVE RecordsStay
BY PathKeepsIds, Created DEF IdsStay, RecordsStay

-----------------------------------------------------------------------------
(* What an adoption changes *)

LEMMA MarkIsView ==
    ASSUME IInv, Aimed, adoption.pc = "mark", Marked
    PROVE  provider' \in ProviderView
<1>1. provider \in [Key -> SUBSET ProviderRecord]
  BY DEF IInv, WorldOK, ProviderView
<1>2. adoption.content \in Content /\ adoption.id \in RecordId
  BY AdoptionAssumption DEF Aimed, RecordId
<1>3. [id |-> adoption.id, content |-> adoption.content, rev |-> 0] \in ProviderRecord
  BY <1>2, StoreAssumption DEF ProviderRecord, Revision
<1>4. QED
  BY <1>1, <1>3 DEF Marked, ProviderView

LEMMA BatchIsTyped ==
    ASSUME IInv, Aimed, adoption.pc = "insert", AdoptionBatch
    PROVE  /\ recordClaims' \in [RecordSet -> ClaimRow \cup {NoClaim}]
           /\ managedRecords' \in [Key -> ManagedRow \cup {NoRow}]
<1>1. /\ recordClaims \in [RecordSet -> ClaimRow \cup {NoClaim}]
      /\ managedRecords \in [Key -> ManagedRow \cup {NoRow}]
  BY DEF IInv, TablesOK, StoreTypeOK
<1>2. adoption.content \in Content /\ adoption.id \in RecordId /\ adoption.key \in Key
  BY AdoptionAssumption DEF Aimed, RecordId
<1>3. [id |-> adoption.id, content |-> adoption.content] \in ManagedRow
  BY <1>2 DEF ManagedRow
<1>4. [repo |-> OwnerOf[adoption.key], state |-> "active"] \in ClaimRow
  BY <1>2, StoreAssumption DEF ClaimRow
<1>5. recordClaims' \in [RecordSet -> ClaimRow \cup {NoClaim}]
  BY <1>1, <1>4 DEF AdoptionBatch, ClaimsAfter
<1>6. managedRecords' \in [Key -> ManagedRow \cup {NoRow}]
  BY <1>1, <1>3 DEF AdoptionBatch, RowsAfter
<1>7. QED
  BY <1>5, <1>6

\* The tables, requests and provider requests an adoption leaves alone.
others == <<operations, operationZones, operationLocks, mutationIntents,
            intentActions, oidcJti, wire, req, policy>>

LEMMA AdoptionShape ==
    ASSUME IInv, Aimed, AdoptionStep \/ UNCHANGED adoptionVars
    PROVE  /\ UNCHANGED others
           /\ faults' = faults \/ \E kind \in FaultKind : Inject(kind)
           /\ UNCHANGED provider \/ (adoption.pc = "mark" /\ Marked)
           /\ \/ UNCHANGED <<recordClaims, managedRecords>>
              \/ adoption.pc = "insert" /\ AdoptionBatch
<1> USE DEF others, running, tables, world
<1>1. CASE \E t \in Targets : Begins(t)
  BY <1>1 DEF Begins
<1>2. CASE ListRecord \/ ReadRows \/ ReadClaim
  BY <1>2 DEF ListRecord, ReadRows, ReadClaim
<1>3. CASE MarkRecord
  BY <1>3 DEF MarkRecord
<1>4. CASE InsertRecord
  BY <1>4 DEF InsertRecord, AdoptionBatch
<1>5. CASE MarkFails
  BY <1>5 DEF MarkFails, FaultKind
<1>6. CASE InsertFails
  BY <1>6 DEF InsertFails, AdoptionBatch, FaultKind
<1>7. CASE AdoptionCut
  BY <1>7 DEF AdoptionCut, FaultKind
<1>8. CASE UNCHANGED adoptionVars
  BY <1>8 DEF adoptionVars, vars
<1>9. QED
  BY <1>1, <1>2, <1>3, <1>4, <1>5, <1>6, <1>7, <1>8 DEF AdoptionStep, Adopt

\* The mutation path's invariant survives adoption.
LEMMA IInvBesideAdoption ==
    ASSUME IInv, Aimed, AdoptionStep \/ UNCHANGED adoptionVars
    PROVE  IInv'
<1> USE DEF others
<1>1. /\ UNCHANGED others
      /\ faults' = faults \/ \E kind \in FaultKind : Inject(kind)
  BY AdoptionShape
<1>2. provider' \in ProviderView
  BY AdoptionShape, MarkIsView DEF IInv, WorldOK
<1>3. /\ recordClaims' \in [RecordSet -> ClaimRow \cup {NoClaim}]
      /\ managedRecords' \in [Key -> ManagedRow \cup {NoRow}]
  BY AdoptionShape, BatchIsTyped DEF IInv, TablesOK, StoreTypeOK
<1>4. TablesOK'
  BY <1>1, <1>3 DEF IInv, TablesOK, StoreTypeOK, IntentsMeanSomething
<1>5. RequestsOK'
  <2>1. ASSUME NEW r \in Req
        PROVE  PlacedAt(r)'
    <3>1. \A k \in Key : Change(r, k)' = Change(r, k)
      BY <1>1, ChangeStable
    <3>2. PlacedAt(r) /\ req[r] \in Request
      BY DEF IInv, RequestsOK
    <3>3. \A k \in req[r].keys : k \in Key
      BY <3>2 DEF Request
    <3>4. QED
      BY <1>1, <3>1, <3>2, <3>3 DEF PlacedAt
  <2>2. QED
    BY <1>1, <2>1 DEF IInv, RequestsOK
<1>6. faults' \in 0..MaxFaults /\ faults' >= faults
  BY <1>1, ApplyAssumption DEF IInv, WorldOK, Inject
<1>7. WorldOK'
  <2>1. policy \in Nat /\ faults \in Nat /\ faults' \in Nat
    BY <1>6, StoreAssumption, ApplyAssumption DEF IInv, WorldOK
  <2>2. QED
    BY <1>1, <1>2, <1>6, <2>1 DEF IInv, WorldOK
<1>8. WireHasIntent'
  BY <1>1 DEF IInv, WireHasIntent
<1>9. QED
  BY <1>4, <1>5, <1>7, <1>8 DEF IInv

-----------------------------------------------------------------------------
(* Where the run goes *)

\* A run that ends is idle.
LEMMA EndsWell == Ends => Aimed' /\ StillFree'
BY DEF Ends, Idle, Aimed, AdoptionState, StillFree

LEMMA AimedNext ==
    ASSUME IInv, Aimed, [AdoptionNext]_adoptionVars
    PROVE  Aimed'
<1> USE DEF Aimed, AdoptionState
<1>1. CASE UNCHANGED adoption
  BY <1>1
<1>2. ASSUME NEW t \in Targets, Begins(t) PROVE Aimed'
  <2>1. t[1] \in Key /\ t[2] \in RecordId /\ t = <<t[1], t[2]>>
    BY AdoptionAssumption DEF RecordId
  <2>2. QED
    BY <1>2, <2>1 DEF Begins, Idle
<1>3. CASE ListRecord
  <2>1. ASSUME NEW ks \in SUBSET Key, NEW p \in Listed(ks)
        PROVE  p.content \in Content
    <3>1. PICK k \in Key : p \in provider[k]
      BY DEF Listed
    <3>2. QED
      BY <3>1 DEF IInv, WorldOK, ProviderView, ProviderRecord
  <2>2. {adoption.key} \subseteq Key /\ Unmanaged \subseteq Key
    BY <1>3, AdoptionAssumption DEF ListRecord
  <2>3. ASSUME NEW own \in BOOLEAN,
               NEW p \in Listed(IF own THEN {adoption.key} ELSE Unmanaged),
               adoption' = [adoption EXCEPT !.pc = "rows", !.content = p.content,
                                            !.matches = own]
        PROVE  Aimed'
    <3>1. p.content \in Content
      BY <2>1, <2>2
    <3>2. QED
      BY <1>3, <2>3, <3>1 DEF ListRecord
  <2>4. QED
    BY <1>3, <2>3, EndsWell DEF ListRecord
<1>4. CASE ReadRows
  <2>1. managedRecords[adoption.key] \in ManagedRow \cup {NoRow}
    BY <1>4, AdoptionAssumption DEF ReadRows, IInv, TablesOK, StoreTypeOK
  <2>2. ASSUME adoption' = [adoption EXCEPT !.pc = "claim",
                                            !.row = managedRecords[adoption.key]]
        PROVE  Aimed'
    BY <1>4, <2>1, <2>2 DEF ReadRows
  <2>3. QED
    BY <1>4, <2>2, EndsWell DEF ReadRows
<1>5. CASE ReadClaim
  <2> DEFINE claim == recordClaims[SetOf[adoption.key]]
             step == IF adoption.matches THEN "insert" ELSE "mark"
  <2>1. claim \in ClaimRow \cup {NoClaim}
    BY <1>5, AdoptionAssumption, StoreAssumption
       DEF ReadClaim, IInv, TablesOK, StoreTypeOK
  <2>2. step \in {"insert", "mark"}
    OBVIOUS
  <2>3. Ends \/ adoption' = [adoption EXCEPT !.claim = claim, !.pc = step]
    BY <1>5 DEF ReadClaim
  <2>4. adoption.pc = "claim"
    BY <1>5 DEF ReadClaim
  <2> HIDE DEF claim, step
  <2>5. ASSUME adoption' = [adoption EXCEPT !.claim = claim, !.pc = step]
        PROVE  Aimed'
    BY <2>1, <2>2, <2>4, <2>5
  <2>6. QED
    BY <2>3, <2>5, EndsWell
<1>6. CASE MarkRecord
  <2>1. Ends \/ Continues("insert")
    BY <1>6 DEF MarkRecord
  <2>2. ASSUME Continues("insert") PROVE Aimed'
    BY <1>6, <2>2 DEF MarkRecord, Continues
  <2>3. QED
    BY <2>1, <2>2, EndsWell
<1>7. CASE InsertRecord \/ MarkFails \/ InsertFails \/ AdoptionCut
  BY <1>7, EndsWell DEF InsertRecord, MarkFails, InsertFails, AdoptionCut
<1>8. QED
  BY <1>1, <1>2, <1>3, <1>4, <1>5, <1>6, <1>7
     DEF AdoptionNext, AdoptionStep, Adopt, MutationPath, adoptionVars

LEMMA PathIsNext == MutationPath => [Next]_vars /\ UNCHANGED adoption
BY DEF MutationPath, Next

\* A step moves a record of Unmanaged's only by marking it.
LEMMA RecordsMove ==
    ASSUME IInv, Aimed, [AdoptionNext]_adoptionVars
    PROVE  RecordsStay \/ (adoption.pc = "mark" /\ Marked)
<1>1. CASE UNCHANGED provider
  BY <1>1 DEF RecordsStay
<1>2. CASE AdoptionStep \/ UNCHANGED adoptionVars
  BY <1>1, <1>2, AdoptionShape
<1>3. CASE MutationPath
  BY <1>3, PathIsNext, PathKeepsRecords
<1>4. QED
  BY <1>2, <1>3 DEF AdoptionNext

LEMMA OneKeyNext ==
    ASSUME AdoptionInv, [AdoptionNext]_adoptionVars
    PROVE  OneKeyEach'
<1> USE DEF AdoptionInv, OneKeyEach
<1>1. CASE RecordsStay
  BY <1>1 DEF RecordsStay
<1>2. CASE Marked
  <2>1. ASSUME NEW k \in Key, NEW q \in provider'[k]
        PROVE  \/ k = adoption.key /\ q.id = adoption.id
               \/ q \in provider[k] /\ q.id # adoption.id
    BY <1>2 DEF Marked
  <2>2. QED
    BY <2>1
<1>3. QED
  BY <1>1, <1>2, RecordsMove

\* A record found without metadata is under no key of the mutation path.
LEMMA ListedFree ==
    ASSUME AdoptionInv, NEW p \in Listed(Unmanaged), NEW k \in Key \ Unmanaged,
           NEW q \in provider[k]
    PROVE  q.id # adoption.id \/ adoption.id \notin Unmanaged
<1>1. PICK u \in Unmanaged : p \in provider[u] /\ p.id = adoption.id
  BY DEF Listed
<1>2. u \in Key /\ u # k
  BY AdoptionAssumption
<1>3. QED
  BY <1>1, <1>2 DEF AdoptionInv, OneKeyEach

LEMMA StillFreeNext ==
    ASSUME AdoptionInv, [AdoptionNext]_adoptionVars
    PROVE  StillFree'
<1> USE DEF AdoptionInv, StillFree
<1>1. ASSUME UNCHANGED adoption PROVE StillFree'
  <2>1. CASE RecordsStay
    <3>1. adoption.pc \in {"rows", "claim", "mark"} => adoption.id \in Unmanaged
      BY AdoptionAssumption DEF Aimed
    <3>2. QED
      BY <1>1, <2>1, <3>1 DEF RecordsStay
  <2>2. CASE adoption.pc = "mark" /\ Marked
    <3>1. ASSUME UNCHANGED adoptionVars PROVE StillFree'
      BY <3>1 DEF adoptionVars, vars
    <3>2. CASE AdoptionStep
      <4>1. Ends \/ Continues("insert")
        <5>1. ~ListRecord /\ ~ReadRows /\ ~ReadClaim /\ ~InsertRecord /\ ~InsertFails
          BY <2>2 DEF ListRecord, ReadRows, ReadClaim, InsertRecord, InsertFails
        <5>2. \A t \in Targets : ~Begins(t)
          BY <2>2 DEF Begins, Idle
        <5>3. MarkRecord \/ MarkFails \/ AdoptionCut
          BY <3>2, <5>1, <5>2 DEF AdoptionStep, Adopt
        <5>4. QED
          BY <5>3 DEF MarkRecord, MarkFails, AdoptionCut
      <4>2. Continues("insert") => adoption'.pc = "insert"
        BY DEF Continues, Aimed, AdoptionState
      <4>3. QED
        BY <1>1, <2>2, <4>1, <4>2, EndsWell
    <3>3. CASE MutationPath
      <4>1. RecordsStay
        BY <3>3, PathIsNext, PathKeepsRecords
      <4>2. QED
        BY <2>1, <4>1
    <3>4. QED
      BY <3>1, <3>2, <3>3 DEF AdoptionNext
  <2>3. QED
    BY <2>1, <2>2, RecordsMove
<1>2. CASE \E t \in Targets : Begins(t)
  BY <1>2 DEF Begins, Idle
<1>3. CASE ListRecord
  <2>1. adoption.id \in Unmanaged /\ UNCHANGED provider
    BY <1>3, AdoptionAssumption DEF ListRecord, Aimed, running, world
  <2>3. ASSUME NEW own \in BOOLEAN,
               NEW p \in Listed(IF own THEN {adoption.key} ELSE Unmanaged),
               adoption' = [adoption EXCEPT !.pc = "rows", !.content = p.content,
                                            !.matches = own]
        PROVE  StillFree'
    <3>1. adoption'.matches = own /\ adoption'.id = adoption.id
      BY <2>3 DEF Aimed, AdoptionState
    <3>2. CASE own
      <4>1. adoption'.pc = "rows"
        BY <2>3 DEF Aimed, AdoptionState
      <4>2. QED
        BY <3>1, <3>2, <4>1
    <3>3. CASE ~own
      <4>1. p \in Listed(Unmanaged)
        BY <3>3
      <4>2. QED
        BY <2>1, <3>1, <4>1, ListedFree
    <3>4. QED
      BY <3>2, <3>3
  <2>4. QED
    BY <1>3, <2>3, EndsWell DEF ListRecord
<1>4. CASE ReadRows
  <2>1. \/ Ends
        \/ /\ adoption.pc = "rows" /\ UNCHANGED provider
           /\ adoption' = [adoption EXCEPT !.pc = "claim",
                                           !.row = managedRecords[adoption.key]]
    BY <1>4 DEF ReadRows, running, world
  <2>2. QED
    BY <2>1, EndsWell DEF Aimed, AdoptionState
<1>5. CASE ReadClaim
  <2> DEFINE claim == recordClaims[SetOf[adoption.key]]
             step == IF adoption.matches THEN "insert" ELSE "mark"
  <2>1. \/ Ends
        \/ /\ adoption.pc = "claim" /\ UNCHANGED provider
           /\ adoption' = [adoption EXCEPT !.claim = claim, !.pc = step]
    BY <1>5 DEF ReadClaim, running, world
  <2>2. step = "mark" => ~adoption.matches
    OBVIOUS
  <2> HIDE DEF claim, step
  <2>3. QED
    BY <2>1, <2>2, EndsWell DEF Aimed, AdoptionState
<1>6. CASE MarkRecord
  <2>1. Ends \/ Continues("insert")
    BY <1>6 DEF MarkRecord
  <2>2. QED
    BY <2>1, EndsWell DEF Continues, Aimed, AdoptionState
<1>7. CASE InsertRecord \/ MarkFails \/ InsertFails \/ AdoptionCut
  BY <1>7, EndsWell DEF InsertRecord, MarkFails, InsertFails, AdoptionCut
<1>8. CASE UNCHANGED adoptionVars
  BY <1>1, <1>8 DEF adoptionVars
<1>9. QED
  BY <1>1, <1>2, <1>3, <1>4, <1>5, <1>6, <1>7, <1>8, PathIsNext
     DEF AdoptionNext, AdoptionStep, Adopt

-----------------------------------------------------------------------------
(* Theorems *)

LEMMA AdoptionInvInit == AdoptionInit => AdoptionInv
<1> SUFFICES ASSUME AdoptionInit PROVE AdoptionInv
  OBVIOUS
<1> USE StoreAssumption, ApplyAssumption
<1>1. TablesOK
  BY TablesInit DEF AdoptionInit
<1>2. WorldOK /\ WireHasIntent
  BY DEF AdoptionInit, WorldOK, WireHasIntent, WireStatus,
     ProviderView, ProviderRecord, RecordId, Revision
<1>3. RequestsOK
  <2>1. Fresh("lookup") \in Request
    BY DEF Fresh, Request, Step, Executing, NothingSeen, ProviderView,
       OperationStatus
  <2>2. QED
    BY <2>1 DEF AdoptionInit, RequestsOK, PlacedAt, AtZone, AtKey, Fresh
<1>4. Aimed /\ StillFree
  BY DEF AdoptionInit, Idle, Aimed, AdoptionState, StillFree
<1>5. OneKeyEach
  BY DEF AdoptionInit, OneKeyEach
<1>6. QED
  BY <1>1, <1>2, <1>3, <1>4, <1>5 DEF AdoptionInv, IInv

LEMMA AdoptionInvNext == AdoptionInv /\ [AdoptionNext]_adoptionVars => AdoptionInv'
<1> SUFFICES ASSUME AdoptionInv, [AdoptionNext]_adoptionVars PROVE AdoptionInv'
  OBVIOUS
<1>1. IInv'
  BY IInvNext, IInvBesideAdoption, PathIsNext DEF AdoptionInv, AdoptionNext
<1>2. Aimed'
  BY AimedNext DEF AdoptionInv
<1>3. QED
  BY <1>1, <1>2, OneKeyNext, StillFreeNext DEF AdoptionInv

LEMMA AdoptionInvariant == AdoptionSpec => []AdoptionInv
BY AdoptionInvInit, AdoptionInvNext, PTL DEF AdoptionSpec

\* Adoptions beside applies keep every table and request in its type, the claims
\* and rows they insert included.
THEOREM AdoptionTypeCorrect == AdoptionSpec => []AdoptionTypeOK
<1>1. AdoptionInv => AdoptionTypeOK
  BY DEF AdoptionInv, IInv, TablesOK, RequestsOK, WorldOK, TypeOK, Aimed,
     AdoptionTypeOK
<1>2. QED
  BY <1>1, AdoptionInvariant, PTL

\* A record that carries a key's metadata is never marked for another key, by no
\* sequence of adoptions, cut or not, for any number of keys and records
\* (adopt.js:136).
THEOREM MarksNeverMove == AdoptionSpec => MarkStays
<1>1. ASSUME AdoptionInv, AdoptionInv', [AdoptionNext]_adoptionVars,
             NEW k \in Key \ Unmanaged, NEW p \in provider[k], p.id \in Unmanaged,
             NEW j \in Key \ {k}, NEW q \in provider'[j]
      PROVE  q.id # p.id
  <2>1. CASE RecordsStay
    BY <1>1, <2>1 DEF RecordsStay, AdoptionInv, OneKeyEach
  <2>2. CASE adoption.pc = "mark" /\ Marked
    <3>1. CASE q.id = adoption.id
      BY <1>1, <2>2, <3>1 DEF Marked, AdoptionInv, OneKeyEach, StillFree
    <3>2. CASE q.id # adoption.id
      BY <1>1, <2>2, <3>2 DEF Marked, AdoptionInv, OneKeyEach
    <3>3. QED
      BY <3>1, <3>2
  <2>3. QED
    BY <1>1, <2>1, <2>2, RecordsMove DEF AdoptionInv
<1>2. AdoptionInv /\ AdoptionInv' /\ [AdoptionNext]_adoptionVars
        => [\A k \in Key \ Unmanaged : \A p \in provider[k] :
              p.id \in Unmanaged =>
                 \A j \in Key \ {k} : \A q \in provider'[j] : q.id # p.id]_adoptionVars
  BY <1>1
<1>3. QED
  BY <1>2, AdoptionInvariant, PTL DEF AdoptionSpec, MarkStays

\* Adoption looks at no lock and takes none, and still every uncertain change
\* keeps its record set locked while adoptions run beside it.
THEOREM LocksCoverBesideAdoption == AdoptionSpec => []LocksCoverIntents
<1>1. AdoptionInit => LocksCoverIntents
  BY DEF AdoptionInit, StoreInit, LocksCoverIntents, Settled
<1>2. ASSUME AdoptionInv, LocksCoverIntents, [AdoptionNext]_adoptionVars
      PROVE  LocksCoverIntents'
  <2>1. CASE AdoptionStep \/ UNCHANGED adoptionVars
    BY <1>2, <2>1, AdoptionShape DEF AdoptionInv, others, LocksCoverIntents
  <2>2. CASE MutationPath
    BY <1>2, <2>2, PathIsNext, NextShape, LocksNext DEF AdoptionInv, IInv
  <2>3. QED
    BY <1>2, <2>1, <2>2 DEF AdoptionNext
<1>3. QED
  BY <1>1, <1>2, AdoptionInvariant, PTL DEF AdoptionSpec

-----------------------------------------------------------------------------
(* What is sent beside unmanaged records *)

\* No unmanaged record is left in a record set.
Cleared(s) == \A u \in Unmanaged \cap KeysOf(s) : provider[u] = {}

\* Unmanaged records are no key's: nothing is sent for them, and a change that is
\* on its way, or about to be sent, is of a set without any.
BesideInv ==
    /\ SeenInv
    /\ \A o \in Op, u \in Unmanaged : wire[o][u] = "idle"
    /\ \A o \in Op, k \in Key : wire[o][k] = "flying" => Cleared(SetOf[k])
    /\ \A r \in Req : req[r].pc \in {"begin", "mark", "call"} =>
          Cleared(SetOf[req[r].key])

LEMMA NothingForUnmanaged ==
    ASSUME IInv, SeenInv, NEW r \in Req, req[r].pc \in AtKey
    PROVE  req[r].key \in Key \ Unmanaged
<1>1. PICK k \in Key : k = req[r].key /\ Change(r, k) \in Action
  BY RequestArguments DEF PlacedAt
<1>2. ASSUME k \in Unmanaged PROVE FALSE
  <2>1. OpOf[r] \in Op /\ OwnerOf[k] # RepoOf[OpOf[r]]
    BY <1>2, AdoptionAssumption, ApplyAssumption
  <2>2. req[r].owned[k] = NoRow /\ k \notin DesiredKeys(OpOf[r])
    BY <2>1, StoreAssumption DEF SeenInv, OwnRows, DesiredKeys
  <2>3. k \notin PruneKeys(r) /\ Change(r, k) = "none"
    BY <2>2 DEF PruneKeys, Change
  <2>4. QED
    BY <1>1, <2>3 DEF Action
<1>3. QED
  BY <1>1, <1>2

\* Nobody creates an unmanaged record.
LEMMA StaysCleared ==
    ASSUME AdoptionInv, BesideInv, [AdoptionNext]_adoptionVars,
           NEW u \in Unmanaged, provider[u] = {}
    PROVE  provider'[u] = {}
<1>1. u \in Key /\ provider \in ProviderView
  BY AdoptionAssumption DEF AdoptionInv, IInv, WorldOK
<1>2. CASE AdoptionStep \/ UNCHANGED adoptionVars
  <2>1. UNCHANGED provider \/ (adoption.pc = "mark" /\ Marked)
    BY <1>2, AdoptionShape DEF AdoptionInv
  <2>2. ASSUME adoption.pc = "mark", Marked PROVE provider'[u] = {}
    <3>1. u # adoption.key
      BY <2>2, AdoptionAssumption DEF AdoptionInv, Aimed
    <3>2. QED
      BY <1>1, <2>2, <3>1 DEF Marked
  <2>3. QED
    BY <2>1, <2>2
<1>3. CASE MutationPath
  <2>1. Happens
    BY <1>3, PathIsNext, StepsHappen DEF AdoptionInv
  <2>2. ASSUME NEW o \in Op, NEW k \in Key, Answers(o, k) PROVE provider'[u] = {}
    <3>1. k # u
      BY <2>2 DEF Answers, BesideInv
    <3>2. QED
      BY <1>1, <2>2, <3>1 DEF Answers, ProviderView
  <2>3. ASSUME NEW k \in Key, Drift(k) PROVE provider'[u] = {}
    <3>1. k # u
      BY <2>3 DEF Drift
    <3>2. QED
      BY <1>1, <2>3, <3>1 DEF Drift, ProviderView
  <2>4. (\E r \in Req : Event(r)) \/ (\E o \in Op, k \in Key : OperatorStep(o, k))
           => UNCHANGED provider
    BY OperatorStepTables DEF Event, AdoptionInv
  <2>5. QED
    BY <2>1, <2>2, <2>3, <2>4 DEF Happens, Around
<1>4. QED
  BY <1>2, <1>3 DEF AdoptionNext

\* The preflight of a change finds no unmanaged record in its set.
LEMMA EventClears ==
    ASSUME IInv, BesideInv, NEW r \in Req, Event(r),
           req'[r].pc \in {"begin", "mark", "call"}
    PROVE  Cleared(SetOf[req'[r].key])
<1>1. OpOf[r] \in Op
  BY ApplyAssumption
<1>2. \/ /\ req[r].pc \in {"begin", "mark"} /\ req'[r].key = req[r].key
      \/ PreflightOk(r, req'[r].key)
  BY DEF Event, Outside, Between, Within, Advances, Closes, Executing
<1>3. ASSUME NEW k, PreflightOk(r, k) PROVE Cleared(SetOf[k])
  BY <1>1, <1>3, AdoptionAssumption DEF PreflightOk, SetVerified, OwnedRows, Cleared,
     KeysOf
<1>4. QED
  BY <1>2, <1>3 DEF BesideInv

LEMMA BesideNext ==
    AdoptionInv /\ BesideInv /\ [AdoptionNext]_adoptionVars => BesideInv'
<1> SUFFICES ASSUME AdoptionInv, BesideInv, [AdoptionNext]_adoptionVars
             PROVE  BesideInv'
  OBVIOUS
<1>1. /\ wire \in [Op -> [Key -> WireStatus]]
      /\ \A u \in Unmanaged : provider[u] = {} => provider'[u] = {}
  BY StaysCleared DEF AdoptionInv, IInv, WorldOK
<1> USE DEF Cleared, KeysOf
<1>2. CASE UNCHANGED <<wire, req>>
  <2>1. SeenInv'
    BY <1>2 DEF BesideInv, SeenInv, OwnRows, SeenOK, PruneKeys, DesiredKeys, KeyZone,
       SetVerified, KeysOf
  <2>2. QED
    BY <1>1, <1>2, <2>1 DEF BesideInv
<1>3. CASE AdoptionStep \/ UNCHANGED adoptionVars
  BY <1>2, <1>3, AdoptionShape DEF AdoptionInv, others
<1>4. CASE MutationPath
  <2>1. Happens /\ SeenInv'
    BY <1>4, PathIsNext, StepsHappen, SeenNext DEF AdoptionInv, BesideInv
  <2>2. ASSUME NEW r \in Req, Event(r) PROVE BesideInv'
    <3> DEFINE o == OpOf[r]  k == req[r].key
    <3>1. ASSUME NEW q \in Req, req'[q].pc \in {"begin", "mark", "call"}
          PROVE  Cleared(SetOf[req[q].key])'
      <4>1. CASE q = r
        BY <1>1, <2>2, <3>1, <4>1, EventClears DEF AdoptionInv
      <4>2. CASE q # r
        BY <1>1, <2>2, <3>1, <4>2 DEF Event, BesideInv
      <4>3. QED
        BY <4>1, <4>2
    <3>2. \/ UNCHANGED wire
          \/ req[r].pc = "call" /\ wire' = [wire EXCEPT ![o][k] = "flying"]
      BY <2>2 DEF Event, Outside, Between, Within, Advances, Closes
    <3>3. CASE UNCHANGED wire
      BY <1>1, <2>1, <3>1, <3>3 DEF BesideInv
    <3>4. CASE req[r].pc = "call" /\ wire' = [wire EXCEPT ![o][k] = "flying"]
      <4>1. o \in Op /\ k \in Key \ Unmanaged
        BY <3>4, ApplyAssumption, NothingForUnmanaged DEF AtKey, AdoptionInv, BesideInv
      <4>2. \A p \in Op, j \in Key :
               wire'[p][j] = IF p = o /\ j = k THEN "flying" ELSE wire[p][j]
        BY <1>1, <3>4, <4>1
      <4>3. Cleared(SetOf[k])
        BY <3>4 DEF BesideInv
      <4> HIDE DEF o, k
      <4>4. \A p \in Op, u \in Unmanaged : wire'[p][u] = "idle"
        BY <4>1, <4>2, AdoptionAssumption DEF BesideInv
      <4>5. ASSUME NEW p \in Op, NEW j \in Key, wire'[p][j] = "flying"
            PROVE  Cleared(SetOf[j])'
        <5>1. Cleared(SetOf[j])
          BY <4>2, <4>5, <4>3 DEF BesideInv
        <5>2. QED
          BY <1>1, <5>1
      <4>6. QED
        BY <2>1, <3>1, <4>4, <4>5 DEF BesideInv
    <3>5. QED
      BY <3>2, <3>3, <3>4
  <2>3. ASSUME NEW o \in Op, NEW k \in Key, Answers(o, k) PROVE BesideInv'
    <3>1. UNCHANGED req /\ k \notin Unmanaged
      BY <2>3 DEF Answers, BesideInv
    <3>2. \A p \in Op, j \in Key :
             \/ p = o /\ j = k /\ wire'[p][j] # "flying"
             \/ wire'[p][j] = wire[p][j] /\ <<p, j>> # <<o, k>>
      BY <1>1, <2>3 DEF Answers
    <3>3. \A p \in Op, u \in Unmanaged : wire'[p][u] = "idle"
      BY <3>1, <3>2, AdoptionAssumption DEF BesideInv
    <3>4. \A p \in Op, j \in Key : wire'[p][j] = "flying" => Cleared(SetOf[j])'
      BY <1>1, <3>2 DEF BesideInv
    <3>5. QED
      BY <1>1, <2>1, <3>1, <3>3, <3>4 DEF BesideInv
  <2>4. CASE Around \/ \E o \in Op, k \in Key : OperatorStep(o, k)
    <3>1. UNCHANGED <<wire, req>>
      BY <2>4, OperatorStepTables DEF Around, AdoptionInv
    <3>2. QED
      BY <1>2, <3>1
  <2>5. QED
    BY <2>1, <2>2, <2>3, <2>4 DEF Happens
<1>5. QED
  BY <1>3, <1>4 DEF AdoptionNext

\* FlareForm sends nothing for a record set while an unmanaged record is in it,
\* however many adoptions and applies interleave: the preflight of every change
\* counts the records of the set, and nobody but their owner adds one
\* (preflight.js; README.md:15).
THEOREM UnmanagedLeftAlone == AdoptionSpec => []NothingBesideUnmanaged
<1>1. AdoptionInit => BesideInv
  BY SeenInit, AdoptionAssumption DEF AdoptionInit, BesideInv, Fresh
<1>2. BesideInv => NothingBesideUnmanaged
  BY DEF BesideInv, Cleared, NothingBesideUnmanaged
<1>3. QED
  BY <1>1, <1>2, BesideNext, AdoptionInvariant, PTL DEF AdoptionSpec


-----------------------------------------------------------------------------
(* What the mutation path does to rows, claims and intents *)

\* What a step does to the row of a key: nothing, a confirmation of what was
\* carried out, or a decision about an intent.
RowMoves(k) ==
    \/ managedRecords'[k] = managedRecords[k]
    \/ \E o \in Op : wire[o][k] = "applied" /\ ConfirmBatch(o, k)
    \/ \E o \in Op, decision \in Decision : \E p \in Candidates(k) :
          /\ mutationIntents[o][k] # "absent" /\ Evidence(o, k, decision, p)
          /\ managedRecords'[k] = ResolvedRecord(o, k, decision, p)

\* What it does to the claim of a set: it is left, freed with the last row, made
\* active by an operation with an intent in the set, or taken for a request.
ClaimMoves(s) ==
    \/ recordClaims'[s] = recordClaims[s] /\ recordClaims[s] # NoClaim
    \/ recordClaims'[s] = NoClaim /\ \A k \in KeysOf(s) : managedRecords'[k] = NoRow
    \/ \E o \in Op, j \in KeysOf(s) :
          /\ mutationIntents[o][j] # "absent"
          /\ recordClaims'[s] = [repo |-> RepoOf[o], state |-> "active"]
    \/ \E r \in Req :
          /\ req[r].pc = "reserve" /\ s \in AffectedSets(r)
          /\ recordClaims[s] = NoClaim /\ recordClaims'[s] # NoClaim
          /\ \A k \in KeysOf(s) : managedRecords'[k] = NoRow

\* What it does to an intent: nothing that matters here, or a request begins it.
Begun(r, o, k) ==
    /\ req[r].pc = "begin" /\ OpOf[r] = o /\ req[r].key = k
    /\ mutationIntents[o][k] = "absent"
    /\ intentActions'[o][k] = [action |-> Change(r, k), target |-> Target(r, k)]
IntentMove(o, k) ==
    \/ /\ intentActions'[o][k] = intentActions[o][k]
       /\ mutationIntents'[o][k] # "absent" => mutationIntents[o][k] # "absent"
    \/ \E r \in Req : Begun(r, o, k)

\* A row has the claim of its set behind it.
Backed == \A k \in Key : managedRecords[k] # NoRow => recordClaims[SetOf[k]] # NoClaim

LEMMA ConfirmMoves ==
    ASSUME IInv, Backed, NEW o \in Op, NEW j \in Key, wire[o][j] = "applied",
           ConfirmBatch(o, j)
    PROVE  /\ \A k \in Key : RowMoves(k)
           /\ \A s \in RecordSet : ClaimMoves(s)
<1>1. /\ managedRecords \in [Key -> ManagedRow \cup {NoRow}]
      /\ recordClaims \in [RecordSet -> ClaimRow \cup {NoClaim}]
      /\ SetOf[j] \in RecordSet /\ mutationIntents[o][j] # "absent"
  BY StoreAssumption DEF IInv, TablesOK, StoreTypeOK, WireHasIntent
<1>2. ASSUME NEW k \in Key PROVE RowMoves(k)
  <2>1. CASE k = j
    BY <2>1 DEF RowMoves
  <2>2. CASE k # j
    BY <1>1, <2>2 DEF ConfirmBatch, RowMoves
  <2>3. QED
    BY <2>1, <2>2
<1>3. ASSUME NEW s \in RecordSet PROVE ClaimMoves(s)
  <2>1. CASE s # SetOf[j]
    <3>1. /\ recordClaims'[s] = recordClaims[s]
          /\ \A k \in KeysOf(s) : managedRecords'[k] = managedRecords[k]
      BY <1>1, <2>1 DEF ConfirmBatch, KeysOf
    <3>2. QED
      BY <3>1 DEF ClaimMoves, Backed, KeysOf
  <2>2. CASE s = SetOf[j] /\ intentActions[o][j].action = "delete"
    <3>1. /\ recordClaims'[s] = IF OnlyRecord(j) /\ HasClaim(o, s) THEN NoClaim
                               ELSE recordClaims[s]
          /\ managedRecords' = [managedRecords EXCEPT ![j] = NoRow]
      BY <1>1, <2>2 DEF ConfirmBatch
    <3>2. CASE OnlyRecord(j) /\ HasClaim(o, s)
      BY <1>1, <2>2, <3>1, <3>2 DEF ClaimMoves, OnlyRecord, KeysOf
    <3>3. CASE recordClaims'[s] = recordClaims[s]
      BY <1>1, <2>2, <3>1, <3>3 DEF ClaimMoves, OnlyRecord, KeysOf, Backed
    <3>4. QED
      BY <3>1, <3>2, <3>3
  <2>3. CASE s = SetOf[j] /\ intentActions[o][j].action \in {"create", "update"}
    BY <1>1, <2>3 DEF ConfirmBatch, ClaimMoves, KeysOf
  <2>4. QED
    BY <2>1, <2>2, <2>3 DEF ConfirmBatch
<1>4. QED
  BY <1>2, <1>3

LEMMA DecisionMoves ==
    ASSUME IInv, Backed, NEW o \in Op, NEW j \in Key, OperatorStep(o, j)
    PROVE  /\ \A k \in Key : RowMoves(k)
           /\ \A s \in RecordSet : ClaimMoves(s)
<1>1. PICK decision \in Decisions, p \in Candidates(j) : Resolve(o, j, decision, p)
  BY DEF OperatorStep
<1>2. /\ managedRecords \in [Key -> ManagedRow \cup {NoRow}]
      /\ recordClaims \in [RecordSet -> ClaimRow \cup {NoClaim}]
      /\ SetOf[j] \in RecordSet
  BY StoreAssumption DEF IInv, TablesOK, StoreTypeOK
<1>3. /\ decision \in Decision /\ Evidence(o, j, decision, p)
      /\ mutationIntents[o][j] # "absent" /\ recordClaims[SetOf[j]] # NoClaim
      /\ ResolveBatch(o, j, decision, p)
  BY <1>1, OperatorAssumption DEF Resolve, ResolveBatch, HasClaim
<1>4. \A k \in Key : managedRecords'[k] =
         IF k = j THEN ResolvedRecord(o, j, decision, p) ELSE managedRecords[k]
  BY <1>2, <1>3 DEF ResolveBatch
<1>5. ASSUME NEW k \in Key PROVE RowMoves(k)
  <2>1. CASE k # j
    BY <1>4, <2>1 DEF RowMoves
  <2>2. CASE k = j
    BY <1>3, <1>4, <2>2 DEF RowMoves
  <2>3. QED
    BY <2>1, <2>2
<1>6. ASSUME NEW s \in RecordSet, s # SetOf[j] PROVE ClaimMoves(s)
  <2>1. \A k \in KeysOf(s) : managedRecords'[k] = managedRecords[k]
    BY <1>4, <1>6 DEF KeysOf
  <2>2. CASE s \in UnusedClaims(o, KeyZone(j))
    <3>1. recordClaims'[s] = NoClaim
      BY <1>3, <1>6, <2>2 DEF ResolveBatch
    <3>2. QED
      BY <2>1, <2>2, <3>1 DEF UnusedClaims, ClaimMoves
  <2>3. CASE s \notin UnusedClaims(o, KeyZone(j))
    <3>1. recordClaims'[s] = recordClaims[s]
      BY <1>3, <1>6, <2>3 DEF ResolveBatch
    <3>2. QED
      BY <2>1, <3>1 DEF ClaimMoves, Backed, KeysOf
  <2>4. QED
    BY <2>2, <2>3
<1>7. ClaimMoves(SetOf[j])
  <2> DEFINE s == SetOf[j]
             row == intentActions[o][j]
  <2>1. s \notin UnusedClaims(o, KeyZone(j))
    BY <1>3 DEF UnusedClaims, KeysOf
  <2>2. recordClaims'[s] = ResolvedClaim(o, j, decision)
    BY <1>2, <1>3, <2>1 DEF ResolveBatch
  <2>3. CASE decision = "confirm-provider" /\ row.action # "delete"
    <3>1. recordClaims'[s] = [repo |-> RepoOf[o], state |-> "active"]
      BY <2>2, <2>3 DEF ResolvedClaim
    <3>2. QED
      BY <1>3, <3>1 DEF ClaimMoves, KeysOf
  <2>4. CASE decision = "confirm-provider" /\ row.action = "delete"
    <3> DEFINE unowned == OnlyRecord(j) /\ (managedRecords[j] = NoRow \/ HasTarget(o, j))
    <3>1. recordClaims'[s] = IF unowned THEN NoClaim ELSE recordClaims[s]
      BY <2>2, <2>4 DEF ResolvedClaim
    <3>2. managedRecords'[j] = IF HasTarget(o, j) THEN NoRow ELSE managedRecords[j]
      BY <1>4, <2>4 DEF ResolvedRecord
    <3>3. CASE unowned
      BY <1>4, <3>1, <3>2, <3>3 DEF ClaimMoves, OnlyRecord, KeysOf
    <3>4. CASE ~unowned
      <4> HIDE DEF unowned
      <4> QED BY <1>3, <3>1, <3>4 DEF ClaimMoves
    <3>5. QED
      BY <3>3, <3>4
  <2>5. CASE decision = "confirm-no-change"
    <3>1. recordClaims'[s] = IF DenialFrees(o, j) THEN NoClaim ELSE recordClaims[s]
      BY <2>2, <2>5 DEF ResolvedClaim
    <3>2. managedRecords'[j] = managedRecords[j]
      BY <1>4, <2>5 DEF ResolvedRecord
    <3>3. CASE DenialFrees(o, j)
      BY <1>4, <3>1, <3>2, <3>3 DEF ClaimMoves, DenialFrees, OnlyRecord, KeysOf
    <3>4. CASE ~DenialFrees(o, j)
      BY <1>3, <3>1, <3>4 DEF ClaimMoves
    <3>5. QED
      BY <3>3, <3>4
  <2>6. QED
    BY <1>3, <2>3, <2>4, <2>5 DEF Decision
<1>8. QED
  BY <1>5, <1>6, <1>7

LEMMA EventMoves ==
    ASSUME IInv, ChangeInv, Backed, NEW r \in Req, Event(r)
    PROVE  /\ \A k \in Key : RowMoves(k)
           /\ \A s \in RecordSet : ClaimMoves(s)
           /\ \A o \in Op, k \in Key : IntentMove(o, k)
<1>1. /\ managedRecords \in [Key -> ManagedRow \cup {NoRow}]
      /\ recordClaims \in [RecordSet -> ClaimRow \cup {NoClaim}]
      /\ mutationIntents \in [Op -> [Key -> IntentStatus]]
      /\ intentActions \in [Op -> [Key -> IntentColumns]]
      /\ OpOf[r] \in Op /\ PlacedAt(r)
  BY RequestArguments DEF IInv, TablesOK, StoreTypeOK
<1>2. ASSUME UNCHANGED <<managedRecords, recordClaims>>
      PROVE  (\A k \in Key : RowMoves(k)) /\ \A s \in RecordSet : ClaimMoves(s)
  BY <1>2 DEF RowMoves, ClaimMoves, Backed, KeysOf
<1>3. CASE req[r].pc = "confirm" /\ ConfirmBatch(OpOf[r], req[r].key)
  <2>1. req[r].key \in Key /\ wire[OpOf[r]][req[r].key] = "applied"
    BY <1>1, <1>3 DEF PlacedAt, AtKey, ChangeInv, PhaseOK
  <2>2. (\A k \in Key : RowMoves(k)) /\ \A s \in RecordSet : ClaimMoves(s)
    BY <1>1, <1>3, <2>1, ConfirmMoves
  <2>3. ASSUME NEW o \in Op, NEW k \in Key PROVE IntentMove(o, k)
    <3>1. /\ intentActions' = intentActions
          /\ mutationIntents[OpOf[r]][req[r].key] # "absent"
          /\ SetIntent(OpOf[r], req[r].key, "confirmed")
      BY <1>3 DEF ConfirmBatch, Confirmable, StatusTransition
    <3>2. QED
      BY <1>1, <3>1 DEF IntentMove, SetIntent
  <2>4. QED
    BY <2>2, <2>3
<1>4. CASE req[r].pc = "reserve" /\ ReserveNew(r)
  <2>1. UNCHANGED <<managedRecords, mutationIntents, intentActions>>
    BY <1>4 DEF ReserveNew, ReserveBatch
  <2>2. ASSUME NEW s \in RecordSet PROVE ClaimMoves(s)
    <3>1. CASE s \in NewClaims(r)
      <4>1. /\ recordClaims[s] = NoClaim
            /\ recordClaims'[s] = [repo |-> RepoOf[OpOf[r]], state |-> "reserved"]
        BY <1>4, <3>1 DEF ReserveNew, ReserveBatch
      <4>2. [repo |-> RepoOf[OpOf[r]], state |-> "reserved"] \in ClaimRow
        BY <1>1, StoreAssumption DEF ClaimRow
      <4>3. recordClaims'[s] # NoClaim
        BY <4>1, <4>2, RowAssumption
      <4>4. \A k \in KeysOf(s) : managedRecords'[k] = NoRow
        BY <2>1, <4>1 DEF Backed, KeysOf
      <4>5. QED
        BY <1>4, <3>1, <4>1, <4>3, <4>4 DEF ClaimMoves, NewClaims, AffectedSets
    <3>2. CASE s \notin NewClaims(r)
      <4>1. recordClaims'[s] = recordClaims[s]
        BY <1>4, <3>2 DEF ReserveNew, ReserveBatch
      <4>2. QED
        BY <2>1, <4>1 DEF ClaimMoves, Backed, KeysOf
    <3>3. QED
      BY <3>1, <3>2
  <2>3. QED
    BY <2>1, <2>2 DEF RowMoves, IntentMove
<1>5. CASE req[r].pc = "begin" /\ BeginIntent(r)
  <2>1. UNCHANGED <<managedRecords, recordClaims>>
    BY <1>5 DEF BeginIntent, BeginBatch
  <2>2. PICK j \in Key : j = req[r].key
    BY <1>1, <1>5 DEF PlacedAt, AtKey
  <2>3. ASSUME NEW o \in Op, NEW k \in Key PROVE IntentMove(o, k)
    <3>1. CASE o = OpOf[r] /\ k = j
      <4>1. Begun(r, o, k)
        BY <1>1, <1>5, <2>2, <3>1 DEF BeginIntent, BeginBatch, Begun
      <4>2. QED
        BY <4>1 DEF IntentMove
    <3>2. CASE ~(o = OpOf[r] /\ k = j)
      BY <1>1, <1>5, <2>2, <3>2 DEF BeginIntent, BeginBatch, SetIntent, IntentMove
    <3>3. QED
      BY <3>1, <3>2
  <2>4. QED
    BY <1>2, <2>1, <2>3
<1>6. CASE ~(req[r].pc = "confirm" /\ ConfirmBatch(OpOf[r], req[r].key))
           /\ ~(req[r].pc = "reserve" /\ ReserveNew(r))
           /\ ~(req[r].pc = "begin" /\ BeginIntent(r))
  <2>1. UNCHANGED <<managedRecords, recordClaims, intentActions>>
    BY <1>6 DEF Event, Outside, Between, Within, Advances, Closes, ReuseBatch,
       StartStatement, FreezeBatch, UpdateStatement, SentStatement,
       IndeterminateBatch, FinishBatch, FailedBatch, tables
  <2>2. ASSUME NEW o \in Op, NEW k \in Key PROVE IntentMove(o, k)
    <3>1. CASE UNCHANGED mutationIntents
      BY <2>1, <3>1 DEF IntentMove
    <3>2. CASE Advances(r) /\ req[r].key \in Key
      <4>1. \/ UNCHANGED mutationIntents
            \/ SentStatement(OpOf[r], req[r].key)
            \/ IndeterminateBatch(OpOf[r], req[r].key)
        BY <1>6, <3>2 DEF Advances, tables
      <4>2. SentStatement(OpOf[r], req[r].key) => IntentMove(o, k)
        BY <1>1, <2>1, <3>2 DEF SentStatement, SetIntent, IntentMove
      <4>3. IndeterminateBatch(OpOf[r], req[r].key) => IntentMove(o, k)
        BY <1>1, <2>1, <3>2 DEF IndeterminateBatch, StatusTransition, SetIntent, IntentMove
      <4>4. QED
        BY <3>1, <4>1, <4>2, <4>3
    <3>3. QED
      BY <3>1, <3>2, IntentMoves
  <2>3. QED
    BY <1>2, <2>1, <2>2
<1>7. QED
  BY <1>3, <1>4, <1>5, <1>6

-----------------------------------------------------------------------------
(* Where a record that was unmanaged may stand *)

\* A record set is granted to one repository (policy/config.js:240): what admins
\* adopt in a set, they adopt for the same one.
OneGrantee ==
    \A s, t \in Targets : SetOf[s[1]] = SetOf[t[1]] => OwnerOf[s[1]] = OwnerOf[t[1]]

\* The record u has the metadata of k, or none and stands under itself.
At(u, k) == \E p \in provider[k] : p.id = u
Row(k, u) == managedRecords[k] # NoRow /\ managedRecords[k].id = u
RowSeen(r, k, u) == req[r].owned[k] # NoRow /\ req[r].owned[k].id = u

\* It is marked for a key it was adopted under.
Placed(u, k) == k = u \/ <<k, u>> \in Targets

\* Requests have found it in its set, with or without the mark, and the row they
\* read of it is still there.
Listing == {"classify"} \cup Accepting
Noticed(u, k) ==
    \A r \in Req :
        /\ req[r].pc \in Listing => \E j \in {u, k} : \E p \in req[r].seen[j] : p.id = u
        /\ RowSeen(r, k, u) => Row(k, u)

\* Changes in its set are made for the repository that has adopted it, none of
\* them has created it, and none has removed it.
Respected(u, k) ==
    /\ \A o \in Op, j \in KeysOf(SetOf[k]) : mutationIntents[o][j] # "absent" =>
          /\ k # u /\ RepoOf[o] = OwnerOf[k]
          /\ j = k => /\ intentActions[o][k].action # "create"
                      /\ intentActions[o][k].target = u
    /\ \A o \in Op : wire[o][k] = "applied" => intentActions[o][k].action # "delete"

\* Its set is claimed by nobody else.
OwnClaim(k) == [repo |-> OwnerOf[k], state |-> "active"]
Claimed(u, k) ==
    /\ k # u => recordClaims[SetOf[k]] \in {NoClaim, OwnClaim(k)}
    /\ adoption.pc = "mark" /\ adoption.id = u => recordClaims[SetOf[k]] = NoClaim

\* Before it is marked, it is nobody's.
Unmarked(u) ==
    /\ \A k \in Key : ~Row(k, u) /\ \A r \in Req : ~RowSeen(r, k, u)
    /\ \A o \in Op, k \in Key :
          intentActions[o][k].action = "update" => intentActions[o][k].target # u
    /\ adoption.id = u => \/ adoption.pc \in {"idle", "list", "mark"}
                          \/ adoption.pc \in {"rows", "claim"} /\ ~adoption.matches

StandsAt(u, k) == Placed(u, k) /\ Noticed(u, k) /\ Respected(u, k) /\ Claimed(u, k)
StandInv ==
    \A u \in Unmanaged :
        /\ \A k \in Key : At(u, k) => StandsAt(u, k)
        /\ At(u, u) => Unmarked(u)

\* A request that goes on after its preflight has seen the row of the record, or
\* changes nothing in its set.
LEMMA AcceptedSees ==
    ASSUME IInv, SeenInv, NEW u \in Unmanaged, NEW k \in Key,
           Placed(u, k), Noticed(u, k),
           NEW r \in Req, req[r].pc \in Accepting, SetOf[k] \in AffectedSets(r)
    PROVE  /\ k # u /\ RowSeen(r, k, u) /\ OwnerOf[k] = RepoOf[OpOf[r]]
           /\ \E p \in req[r].seen[k] : p.id = u
<1>1. /\ u \in Key /\ SetOf[u] = SetOf[k] /\ OpOf[r] \in Op
      /\ OwnerOf[u] # RepoOf[OpOf[r]]
  BY AdoptionAssumption, ApplyAssumption DEF Placed
<1>2. PICK j \in {u, k} : \E p \in req[r].seen[j] : p.id = u
  BY DEF Noticed, Listing
<1>3. j \in KeysOf(SetOf[k])
  BY <1>1 DEF KeysOf
<1>4. SetVerified(SetOf[k], req[r].owned, req[r].seen)
  <2>1. PICK i \in DesiredKeys(OpOf[r]) \cup PruneKeys(r) : SetOf[i] = SetOf[k]
    BY DEF AffectedSets
  <2>2. QED
    BY <1>2, <1>3, <2>1 DEF SeenInv, SeenOK
<1>5. req[r].owned[j] # NoRow /\ req[r].owned[j].id = u
  BY <1>2, <1>3, <1>4 DEF SetVerified
<1>6. OwnerOf[j] = RepoOf[OpOf[r]]
  BY <1>3, <1>5 DEF SeenInv, OwnRows, KeysOf
<1>7. QED
  BY <1>1, <1>2, <1>5, <1>6 DEF RowSeen

\* A change to make is in a set the request changes.
LEMMA ChangeAffects ==
    ASSUME NEW r \in Req, NEW j \in Key, Change(r, j) \in Action
    PROVE  SetOf[j] \in AffectedSets(r)
BY DEF Change, Action, AffectedSets

\* A request begins a change beside the record only for the repository that
\* adopted it, and a change of the record's own key names the record.
LEMMA BegunBeside ==
    ASSUME IInv, SeenInv, NEW u \in Unmanaged, NEW k \in Key,
           Placed(u, k), Noticed(u, k),
           NEW r \in Req, NEW o \in Op, NEW j \in KeysOf(SetOf[k]), Begun(r, o, j)
    PROVE  /\ k # u /\ RepoOf[o] = OwnerOf[k]
           /\ j = k => /\ intentActions'[o][k].action # "create"
                       /\ intentActions'[o][k].target = u
<1>1. req[r].pc \in Accepting /\ j \in Key /\ SetOf[j] = SetOf[k] /\ o = OpOf[r]
  BY DEF Begun, Accepting, Executing, KeysOf
<1>2. Change(r, j) \in Action
  BY RequestArguments DEF Begun, PlacedAt, AtKey
<1>3. /\ k # u /\ RowSeen(r, k, u) /\ OwnerOf[k] = RepoOf[o]
      /\ \E p \in req[r].seen[k] : p.id = u
  BY <1>1, <1>2, ChangeAffects, AcceptedSees
<1>4. Current(r, k) # {} /\ req[r].owned[k].id = u
  BY <1>3 DEF RowSeen, Current
<1>5. Change(r, k) # "create" /\ Target(r, k) = u
  BY <1>4 DEF Change, Target
<1>6. QED
  BY <1>3, <1>5 DEF Begun

\* The row of a record that is there stays its row.
LEMMA RowStays ==
    ASSUME IInv, NEW u \in Unmanaged, NEW k \in Key, At(u, k), Respected(u, k),
           RowMoves(k), Row(k, u)
    PROVE  Row(k, u)'
<1>1. ASSUME NEW o \in Op, mutationIntents[o][k] # "absent"
      PROVE  intentActions[o][k].action \in {"update", "delete"}
             /\ intentActions[o][k].target = u
  BY <1>1 DEF Respected, KeysOf, IInv, TablesOK, IntentsMeanSomething, Action
<1>2. CASE managedRecords'[k] = managedRecords[k]
  BY <1>2 DEF Row
<1>3. ASSUME NEW o \in Op, wire[o][k] = "applied", ConfirmBatch(o, k) PROVE Row(k, u)'
  <2>1. intentActions[o][k].action # "delete" /\ mutationIntents[o][k] # "absent"
    BY <1>3 DEF Respected, IInv, WireHasIntent
  <2>2. QED
    BY <1>1, <1>3, <2>1, ConfirmedRow DEF Row
<1>4. ASSUME NEW o \in Op, NEW decision \in Decision, NEW p \in Candidates(k),
             mutationIntents[o][k] # "absent", Evidence(o, k, decision, p),
             managedRecords'[k] = ResolvedRecord(o, k, decision, p)
      PROVE  Row(k, u)'
  <2>1. CASE decision = "confirm-no-change"
    BY <1>4, <2>1, DecidedRow DEF Row
  <2>2. CASE decision = "confirm-provider" /\ intentActions[o][k].action = "delete"
    BY <1>1, <1>4, <2>2, DecidedRow DEF At
  <2>3. CASE decision = "confirm-provider" /\ intentActions[o][k].action = "update"
    <3>1. p.id = u
      BY <1>1, <1>4, <2>3 DEF Evidence, ConfirmEvidence
    <3>2. QED
      BY <1>4, <2>3, <3>1, DecidedRow DEF Row
  <2>4. QED
    BY <1>1, <1>4, <2>1, <2>2, <2>3 DEF Decision
<1>5. QED
  BY <1>2, <1>3, <1>4 DEF RowMoves

\* What a step of the mutation path does to all that.
LEMMA PathMoves ==
    ASSUME IInv, ChangeInv, Backed, MutationPath
    PROVE  /\ \A k \in Key : RowMoves(k)
           /\ \A s \in RecordSet : ClaimMoves(s)
           /\ \A o \in Op, k \in Key : IntentMove(o, k)
           /\ \A o \in Op, k \in Key : wire'[o][k] = "applied" =>
                 wire[o][k] = "applied" \/ (wire[o][k] = "flying" /\ provider'[k] = Effect(o, k))
           /\ \A r \in Req : req'[r] = req[r] \/ Reads(r)
           /\ IdsStay /\ RecordsStay /\ UNCHANGED adoption
<1> DEFINE Wires == \A o \in Op, k \in Key : wire'[o][k] = "applied" =>
                       wire[o][k] = "applied"
                         \/ (wire[o][k] = "flying" /\ provider'[k] = Effect(o, k))
           Tables == /\ \A k \in Key : RowMoves(k)
                     /\ \A s \in RecordSet : ClaimMoves(s)
                     /\ \A o \in Op, k \in Key : IntentMove(o, k)
<1>1. IdsStay /\ RecordsStay /\ UNCHANGED adoption /\ [Next]_vars
  BY PathIsNext, PathKeepsIds, PathKeepsRecords
<1>2. /\ wire \in [Op -> [Key -> WireStatus]] /\ provider \in ProviderView
      /\ req \in [Req -> Request]
  BY DEF IInv, WorldOK, RequestsOK
<1>3. UNCHANGED tables => Tables
  BY DEF tables, RowMoves, ClaimMoves, IntentMove, Backed, KeysOf
<1>4. UNCHANGED wire => Wires
  OBVIOUS
<1>5. ASSUME NEW r \in Req, Event(r) PROVE Tables /\ Wires
  <2>1. CASE UNCHANGED wire
    BY <1>4, <1>5, <2>1, EventMoves
  <2>2. CASE Advances(r) /\ OpOf[r] \in Op /\ req[r].key \in Key
    <3>1. \A o \in Op, k \in Key : wire'[o][k] \in {wire[o][k], "flying"}
      BY <2>2, AdvanceEffect
    <3>2. QED
      BY <1>5, <3>1, EventMoves
  <2>3. QED
    BY <1>5, <2>1, <2>2, IntentMoves
<1>6. ASSUME NEW q \in Op, NEW j \in Key, Answers(q, j) PROVE Tables /\ Wires
  <2>1. UNCHANGED tables /\ Wires
    BY <1>2, <1>6 DEF Answers, ProviderView
  <2>2. QED
    BY <1>3, <2>1
<1>7. ASSUME NEW q \in Op, NEW j \in Key, OperatorStep(q, j) PROVE Tables /\ Wires
  <2>1. UNCHANGED <<intentActions, wire>>
    BY <1>7 DEF OperatorStep, Resolve, ResolveBatch, world
  <2>2. \A o \in Op, k \in Key :
           mutationIntents'[o][k] # "absent" => mutationIntents[o][k] # "absent"
    BY <1>7, DecisionEffect
  <2>3. QED
    BY <1>4, <1>7, <2>1, <2>2, DecisionMoves DEF IntentMove
<1>8. ASSUME Around PROVE Tables /\ Wires
  BY <1>3, <1>4, <1>8 DEF Around
<1>9. Tables /\ Wires
  BY <1>1, <1>5, <1>6, <1>7, <1>8, StepsHappen DEF Happens
<1>10. ASSUME NEW q \in Req PROVE req'[q] = req[q] \/ Reads(q)
  <2>1. ASSUME NEW r \in Req, RequestStep(r) \/ RequestFault(r)
        PROVE  req'[q] = req[q] \/ Reads(q)
    <3>1. Event(r) /\ Reads(r)
      BY <2>1, StepEvents, FaultEvents, StepReads
    <3>2. QED
      BY <3>1 DEF Event
  <2>2. (\A r \in Req : ~(RequestStep(r) \/ RequestFault(r))) => UNCHANGED req
    BY OperatorStepTables DEF MutationPath, Environment, ProviderApply, ProviderReject,
       Drift, SyncPolicy
  <2>3. QED
    BY <2>1, <2>2
<1>11. QED
  BY <1>1, <1>9, <1>10

\* Rows keep their claims.
LEMMA BackedNext ==
    ASSUME \A s \in RecordSet : ClaimMoves(s)
    PROVE  Backed'
<1>1. ASSUME NEW k \in Key, managedRecords'[k] # NoRow PROVE recordClaims'[SetOf[k]] # NoClaim
  <2>1. SetOf[k] \in RecordSet /\ k \in KeysOf(SetOf[k])
    BY StoreAssumption DEF KeysOf
  <2>2. \A o \in Op : [repo |-> RepoOf[o], state |-> "active"] # NoClaim
    BY StoreAssumption, RowAssumption DEF ClaimRow
  <2>3. QED
    BY <1>1, <2>1, <2>2 DEF ClaimMoves
<1>2. QED
  BY <1>1 DEF Backed

\* A record that stays where it stands keeps its standing.
LEMMA StandsNext ==
    ASSUME AdoptionInv, SeenInv, ChangeInv, Backed, MutationPath,
           NEW u \in Unmanaged, NEW k \in Key,
           At(u, k), At(u, k)', StandsAt(u, k)
    PROVE  StandsAt(u, k)'
<1> USE DEF AdoptionInv
<1>1. /\ \A j \in Key : RowMoves(j)
      /\ \A s \in RecordSet : ClaimMoves(s)
      /\ \A o \in Op, j \in Key : IntentMove(o, j)
      /\ \A o \in Op, j \in Key : wire'[o][j] = "applied" =>
            wire[o][j] = "applied" \/ (wire[o][j] = "flying" /\ provider'[j] = Effect(o, j))
      /\ \A r \in Req : req'[r] = req[r] \/ Reads(r)
      /\ UNCHANGED adoption
  BY PathMoves
<1>2. Placed(u, k) /\ Noticed(u, k) /\ Respected(u, k) /\ Claimed(u, k)
  BY DEF StandsAt
<1>3. Placed(u, k)'
  BY <1>2 DEF Placed
<1>4. Noticed(u, k)'
  <2>1. Row(k, u) => Row(k, u)'
    BY <1>1, <1>2, RowStays
  <2>2. ASSUME NEW r \in Req
        PROVE  /\ req'[r].pc \in Listing =>
                     \E j \in {u, k} : \E p \in req'[r].seen[j] : p.id = u
               /\ RowSeen(r, k, u)' => Row(k, u)'
    <3>1. CASE req'[r] = req[r]
      BY <1>2, <2>1, <3>1 DEF Noticed, RowSeen
    <3>2. CASE req'[r].owned = req[r].owned /\ req'[r].seen = req[r].seen
                 /\ (req'[r].pc \in Listing => req[r].pc \in Listing)
      BY <1>2, <2>1, <3>2 DEF Noticed, RowSeen
    <3>3. CASE req'[r] = Fresh("done")
      BY <3>3 DEF Fresh, RowSeen, Listing, Accepting, Executing
    <3>4. CASE req'[r].pc = "listing" /\ req'[r].owned = OwnedRows(RepoOf[OpOf[r]])
      BY <2>1, <3>4 DEF OwnedRows, RowSeen, Row, Listing, Accepting, Executing
    <3>5. CASE req'[r].seen = provider /\ req'[r].owned = req[r].owned
      BY <1>2, <2>1, <3>5 DEF Noticed, RowSeen, At
    <3>6. QED
      BY <1>1, <3>1, <3>2, <3>3, <3>4, <3>5 DEF Reads, Listing, Accepting, Executing
  <2>3. QED
    BY <2>2 DEF Noticed
<1>5. Respected(u, k)'
  <2>1. ASSUME NEW o \in Op, NEW j \in KeysOf(SetOf[k]), mutationIntents'[o][j] # "absent"
        PROVE  /\ k # u /\ RepoOf[o] = OwnerOf[k]
               /\ j = k => /\ intentActions'[o][k].action # "create"
                           /\ intentActions'[o][k].target = u
    <3>1. j \in Key
      BY DEF KeysOf
    <3>2. CASE \E r \in Req : Begun(r, o, j)
      BY <1>2, <3>2, BegunBeside
    <3>3. CASE intentActions'[o][j] = intentActions[o][j] /\ mutationIntents[o][j] # "absent"
      BY <1>2, <3>3 DEF Respected
    <3>4. QED
      BY <1>1, <2>1, <3>1, <3>2, <3>3 DEF IntentMove
  <2>2. ASSUME NEW o \in Op, wire'[o][k] = "applied"
        PROVE  intentActions'[o][k].action # "delete"
    <3>1. mutationIntents[o][k] # "absent" /\ k \in KeysOf(SetOf[k])
      BY <1>1, <2>2 DEF IInv, WireHasIntent, KeysOf
    <3>2. intentActions'[o][k] = intentActions[o][k]
      <4>1. IntentMove(o, k)
        BY <1>1
      <4>2. QED
        BY <3>1, <4>1 DEF IntentMove, Begun
    <3>3. CASE wire[o][k] = "applied"
      BY <1>2, <3>2, <3>3 DEF Respected
    <3>4. CASE provider'[k] = Effect(o, k)
      <4>1. intentActions[o][k].target = u
        BY <1>2, <3>1 DEF Respected
      <4>2. intentActions[o][k].action = "delete" => ~At(u, k)'
        BY <3>4, <4>1 DEF Effect, At
      <4>3. QED
        BY <3>2, <4>2
    <3>5. QED
      BY <1>1, <2>2, <3>3, <3>4
  <2>3. QED
    BY <2>1, <2>2 DEF Respected
<1>6. Claimed(u, k)'
  <2>1. SetOf[k] \in RecordSet /\ ClaimMoves(SetOf[k])
    BY <1>1, StoreAssumption
  <2>2. k # u => recordClaims'[SetOf[k]] \in {NoClaim, OwnClaim(k)}
    <3>1. ASSUME NEW o \in Op, NEW j \in KeysOf(SetOf[k]), mutationIntents[o][j] # "absent"
          PROVE  [repo |-> RepoOf[o], state |-> "active"] = OwnClaim(k)
      BY <1>2, <3>1 DEF Respected, OwnClaim
    <3>2. ASSUME NEW r \in Req, req[r].pc = "reserve", SetOf[k] \in AffectedSets(r),
                 recordClaims[SetOf[k]] = NoClaim
          PROVE  FALSE
      <4>1. RowSeen(r, k, u)
        BY <1>2, <3>2, AcceptedSees DEF Accepting
      <4>2. QED
        BY <1>2, <3>2, <4>1 DEF Noticed, Row, Backed
    <3>3. QED
      BY <1>2, <2>1, <3>1, <3>2 DEF ClaimMoves, Claimed
  <2>3. ASSUME adoption.pc = "mark", adoption.id = u PROVE recordClaims'[SetOf[k]] = NoClaim
    <3>1. k = u
      BY <1>2, <2>3, AdoptionAssumption DEF Placed, StillFree, At
    <3>2. recordClaims[SetOf[k]] = NoClaim
      BY <1>2, <2>3 DEF Claimed
    <3>3. \A o \in Op, j \in KeysOf(SetOf[k]) : mutationIntents[o][j] = "absent"
      BY <1>2, <3>1 DEF Respected
    <3>4. ASSUME NEW r \in Req, req[r].pc = "reserve", SetOf[k] \in AffectedSets(r)
          PROVE  FALSE
      BY <1>2, <3>1, <3>4, AcceptedSees DEF Accepting
    <3>5. QED
      BY <2>1, <3>2, <3>3, <3>4 DEF ClaimMoves
  <2>4. QED
    BY <1>1, <2>2, <2>3 DEF Claimed, OwnClaim
<1>7. QED
  BY <1>3, <1>4, <1>5, <1>6 DEF StandsAt

\* An unmarked record stays nobody's.
LEMMA UnmarkedNext ==
    ASSUME AdoptionInv, SeenInv, ChangeInv, Backed, MutationPath, NEW u \in Unmanaged,
           At(u, u), Unmarked(u), StandsAt(u, u)
    PROVE  Unmarked(u)'
<1> USE DEF AdoptionInv
<1>1. /\ \A j \in Key : RowMoves(j)
      /\ \A o \in Op, j \in Key : IntentMove(o, j)
      /\ \A r \in Req : req'[r] = req[r] \/ Reads(r)
      /\ UNCHANGED adoption
  BY PathMoves
<1>2. /\ u \in Key /\ \A k \in Key : ~Row(k, u)
      /\ \A o \in Op, k \in Key : NewId(o, k) # u
  BY Created, AdoptionAssumption DEF Unmarked
<1>3. ASSUME NEW k \in Key PROVE ~Row(k, u)'
  <2>1. CASE managedRecords'[k] = managedRecords[k]
    BY <1>2, <2>1 DEF Row
  <2>2. ASSUME NEW o \in Op, wire[o][k] = "applied", ConfirmBatch(o, k) PROVE ~Row(k, u)'
    BY <1>2, <2>2, ConfirmedRow DEF Row, ConfirmBatch, Unmarked
  <2>3. ASSUME NEW o \in Op, NEW decision \in Decision, NEW p \in Candidates(k),
               mutationIntents[o][k] # "absent", Evidence(o, k, decision, p),
               managedRecords'[k] = ResolvedRecord(o, k, decision, p)
        PROVE  ~Row(k, u)'
    <3>1. CASE managedRecords'[k] \in {managedRecords[k], NoRow}
      BY <1>2, <3>1 DEF Row
    <3>2. CASE decision = "confirm-provider" /\ intentActions[o][k].action # "delete"
      <4>1. p \in provider[k] /\ managedRecords'[k].id = p.id
        BY <2>3, <3>2, DecidedRow
      <4>2. k = u => FALSE
        BY <2>3 DEF StandsAt, Respected, KeysOf
      <4>3. p.id # u
        BY <1>2, <4>1, <4>2 DEF OneKeyEach, At
      <4>4. QED
        BY <4>1, <4>3 DEF Row
    <3>3. QED
      BY <2>3, <3>1, <3>2, DecidedRow DEF Decision
  <2>4. QED
    BY <1>1, <2>1, <2>2, <2>3 DEF RowMoves
<1>4. ASSUME NEW k \in Key, NEW r \in Req PROVE ~RowSeen(r, k, u)'
  <2>1. ~RowSeen(r, k, u)
    BY DEF Unmarked
  <2>2. CASE req'[r].owned = req[r].owned
    BY <2>1, <2>2 DEF RowSeen
  <2>3. CASE req'[r] = Fresh("done")
    BY <2>3 DEF RowSeen, Fresh
  <2>4. CASE req'[r].owned = OwnedRows(RepoOf[OpOf[r]])
    BY <1>2, <2>4 DEF RowSeen, Row, OwnedRows
  <2>5. QED
    BY <1>1, <2>2, <2>3, <2>4 DEF Reads
<1>5. ASSUME NEW o \in Op, NEW k \in Key, intentActions'[o][k].action = "update"
      PROVE  intentActions'[o][k].target # u
  <2>1. CASE intentActions'[o][k] = intentActions[o][k]
    BY <1>5, <2>1 DEF Unmarked
  <2>2. ASSUME NEW r \in Req, Begun(r, o, k) PROVE intentActions'[o][k].target # u
    <3>1. Change(r, k) = "update" /\ intentActions'[o][k].target = Target(r, k)
      BY <1>5, <2>2 DEF Begun
    <3>2. Current(r, k) # {}
      BY <3>1 DEF Change
    <3>3. req[r].owned[k] # NoRow /\ Target(r, k) = req[r].owned[k].id
      BY <3>2 DEF Current, Target
    <3>4. ~RowSeen(r, k, u)
      BY DEF Unmarked
    <3>5. QED
      BY <3>1, <3>3, <3>4 DEF RowSeen
  <2>3. QED
    BY <1>1, <2>1, <2>2 DEF IntentMove
<1>6. QED
  BY <1>1, <1>3, <1>4, <1>5 DEF Unmarked

-----------------------------------------------------------------------------
(* What an adoption does to the record it is for *)

\* A run comes to its mark having seen the set unclaimed, and to its insertion with
\* the record marked for its key.
LEMMA RunMoves ==
    ASSUME AdoptionInv, AdoptionStep \/ UNCHANGED adoptionVars
    PROVE  \/ adoption' = adoption /\ UNCHANGED <<recordClaims, managedRecords>>
           \/ adoption'.pc = "idle"
           \/ adoption'.pc = "list" /\ UNCHANGED <<recordClaims, managedRecords>>
           \/ /\ adoption'.id = adoption.id /\ adoption'.key = adoption.key
              /\ UNCHANGED <<recordClaims, managedRecords>>
              /\ \/ /\ adoption.pc = "list" /\ adoption'.pc = "rows"
                    /\ adoption'.matches => \E p \in provider[adoption.key] :
                          p.id = adoption.id /\ p.content = adoption'.content
                 \/ /\ adoption.pc = "rows" /\ adoption'.pc = "claim"
                    /\ adoption'.matches = adoption.matches
                    /\ adoption'.content = adoption.content
                 \/ /\ adoption.pc = "claim" /\ adoption'.pc = "mark"
                    /\ recordClaims[SetOf[adoption.key]] = NoClaim
                 \/ /\ adoption.pc = "claim" /\ adoption'.pc = "insert"
                    /\ adoption.matches /\ adoption'.content = adoption.content
                 \/ /\ adoption.pc = "mark" /\ adoption'.pc = "insert" /\ Marked
                    /\ adoption'.content = adoption.content
<1> USE DEF AdoptionState, running, tables
<1>1. Ends => adoption'.pc = "idle"
  BY DEF Ends, Idle
<1>2. adoption \in AdoptionState
  BY DEF AdoptionInv, Aimed
<1>3. CASE UNCHANGED adoptionVars
  BY <1>3 DEF adoptionVars, vars
<1>4. CASE \E t \in Targets : Begins(t)
  BY <1>4 DEF Begins, Idle
<1>5. CASE ListRecord
  <2>1. ASSUME NEW own \in BOOLEAN,
               NEW p \in Listed(IF own THEN {adoption.key} ELSE Unmanaged),
               adoption' = [adoption EXCEPT !.pc = "rows", !.content = p.content,
                                            !.matches = own]
        PROVE  /\ adoption'.pc = "rows" /\ adoption'.id = adoption.id
               /\ adoption'.key = adoption.key
               /\ adoption'.matches => \E q \in provider[adoption.key] :
                     q.id = adoption.id /\ q.content = adoption'.content
    <3>1. /\ adoption'.pc = "rows" /\ adoption'.id = adoption.id
          /\ adoption'.key = adoption.key
          /\ adoption'.matches = own /\ adoption'.content = p.content
      BY <1>2, <2>1
    <3>2. own => p \in provider[adoption.key] /\ p.id = adoption.id
      BY DEF Listed
    <3>3. QED
      BY <3>1, <3>2
  <2>2. \/ Ends
        \/ /\ adoption'.pc = "rows" /\ adoption'.id = adoption.id
           /\ adoption'.key = adoption.key
           /\ adoption'.matches => \E q \in provider[adoption.key] :
                 q.id = adoption.id /\ q.content = adoption'.content
    BY <1>5, <2>1 DEF ListRecord
  <2>3. adoption.pc = "list" /\ UNCHANGED <<recordClaims, managedRecords>>
    BY <1>5 DEF ListRecord
  <2>4. QED
    BY <1>1, <2>2, <2>3
<1>6. CASE ReadRows
  <2>1. /\ adoption.pc = "rows" /\ UNCHANGED <<recordClaims, managedRecords>>
        /\ Ends \/ adoption' = [adoption EXCEPT !.pc = "claim",
                                                !.row = managedRecords[adoption.key]]
    BY <1>6 DEF ReadRows
  <2>2. QED
    BY <1>1, <1>2, <2>1
<1>7. CASE ReadClaim
  <2> DEFINE claim == recordClaims[SetOf[adoption.key]]
             step == IF adoption.matches THEN "insert" ELSE "mark"
  <2>1. /\ adoption.pc = "claim" /\ UNCHANGED <<recordClaims, managedRecords>>
        /\ \/ Ends
           \/ Claimable(claim) /\ adoption' = [adoption EXCEPT !.claim = claim, !.pc = step]
    BY <1>7 DEF ReadClaim
  <2>2. Claimable(claim) /\ ~adoption.matches => claim = NoClaim
    BY DEF Claimable
  <2> HIDE DEF claim
  <2>3. adoption' = [adoption EXCEPT !.claim = claim, !.pc = step]
           => /\ adoption'.pc = step /\ adoption'.id = adoption.id
              /\ adoption'.key = adoption.key /\ adoption'.content = adoption.content
    BY <1>2
  <2>4. QED
    BY <1>1, <2>1, <2>2, <2>3 DEF claim
<1>8. CASE MarkRecord
  BY <1>1, <1>2, <1>8 DEF MarkRecord, Continues
<1>9. CASE InsertRecord \/ MarkFails \/ InsertFails \/ AdoptionCut
  BY <1>1, <1>9 DEF InsertRecord, MarkFails, InsertFails, AdoptionCut
<1>10. QED
  BY <1>3, <1>4, <1>5, <1>6, <1>7, <1>8, <1>9 DEF AdoptionStep, Adopt

\* A record stands under a key it did not stand under only when it is marked.
LEMMA NewAt ==
    ASSUME AdoptionInv, StandInv, [AdoptionNext]_adoptionVars,
           NEW u \in Unmanaged, NEW k \in Key, At(u, k)', ~At(u, k)
    PROVE  /\ adoption.pc = "mark" /\ Marked /\ adoption.id = u /\ k = adoption.key
           /\ At(u, u) /\ ~At(u, u)'
<1>1. u \in Key /\ IInv /\ Aimed
  BY AdoptionAssumption DEF AdoptionInv
<1>2. adoption.pc = "mark" /\ Marked
  BY <1>1, RecordsMove DEF RecordsStay, At
<1>3. adoption.id = u /\ k = adoption.key
  BY <1>2 DEF Marked, At
<1>4. At(u, u)
  <2>1. PICK j \in Key : At(u, j)
    BY <1>2, <1>3 DEF Marked, At
  <2>2. j = u \/ <<j, u>> \in Targets
    BY <2>1 DEF StandInv, StandsAt, Placed
  <2>3. QED
    BY <1>2, <1>3, <2>1, <2>2, AdoptionAssumption DEF AdoptionInv, StillFree, At
<1>5. u # adoption.key
  BY <1>1, <1>2, AdoptionAssumption DEF Aimed
<1>6. QED
  BY <1>1, <1>2, <1>3, <1>4, <1>5 DEF Marked, At

\* What the batch of an adoption writes.
LEMMA BatchMoves ==
    ASSUME AdoptionInv, adoption.pc = "insert", AdoptionBatch
    PROVE  /\ \A k \in Key : \/ managedRecords'[k] = managedRecords[k]
                             \/ /\ k = adoption.key /\ managedRecords[k] = NoRow
                                /\ managedRecords'[k].id = adoption.id
                                /\ managedRecords'[k].content = adoption.content
           /\ \A s \in RecordSet : \/ recordClaims'[s] = recordClaims[s]
                                   \/ /\ s = SetOf[adoption.key]
                                      /\ recordClaims'[s] = Own /\ Own # NoClaim
           /\ \A k \in Key : managedRecords'[k] # managedRecords[k] =>
                 recordClaims'[SetOf[k]] # NoClaim
<1>1. /\ managedRecords \in [Key -> ManagedRow \cup {NoRow}]
      /\ recordClaims \in [RecordSet -> ClaimRow \cup {NoClaim}]
      /\ adoption.key \in Key
  BY AdoptionAssumption DEF AdoptionInv, IInv, TablesOK, StoreTypeOK, Aimed
<1>2. Own \in ClaimRow
  BY <1>1, StoreAssumption DEF Own, ClaimRow
<1>3. \A k \in Key : k # adoption.key => managedRecords'[k] = managedRecords[k]
  BY <1>1 DEF AdoptionBatch, RowsAfter
<1>4. managedRecords[adoption.key] = NoRow
  BY <1>1 DEF AdoptionBatch, Adoptable
<1>5. managedRecords'[adoption.key] # managedRecords[adoption.key] =>
         /\ managedRecords'[adoption.key].id = adoption.id
         /\ managedRecords'[adoption.key].content = adoption.content
         /\ recordClaims'[SetOf[adoption.key]] = Own
  BY <1>1 DEF AdoptionBatch, RowsAfter
<1>6. ASSUME NEW s \in RecordSet
      PROVE  \/ recordClaims'[s] = recordClaims[s]
             \/ s = SetOf[adoption.key] /\ recordClaims'[s] = Own
  BY <1>1 DEF AdoptionBatch, ClaimsAfter, Own
<1>7. Own # NoClaim
  BY <1>2, RowAssumption
<1>8. QED
  BY <1>3, <1>4, <1>5, <1>6, <1>7

\* The standing of a record that an adoption does not move.
LEMMA StandsBesideRun ==
    ASSUME OneGrantee, AdoptionInv, AdoptionStep \/ UNCHANGED adoptionVars,
           NEW u \in Unmanaged, NEW k \in Key, At(u, k), StandsAt(u, k)
    PROVE  StandsAt(u, k)'
<1> USE DEF others
<1>1. /\ UNCHANGED others
      /\ \/ UNCHANGED <<recordClaims, managedRecords>>
         \/ adoption.pc = "insert" /\ AdoptionBatch
  BY AdoptionShape DEF AdoptionInv
<1>2. Row(k, u) => Row(k, u)'
  BY <1>1, BatchMoves DEF Row
<1>3. Placed(u, k)' /\ Noticed(u, k)' /\ Respected(u, k)'
  <2>1. Placed(u, k)'
    BY DEF StandsAt, Placed
  <2>2. Noticed(u, k)'
    BY <1>1, <1>2 DEF StandsAt, Noticed, RowSeen
  <2>3. Respected(u, k)'
    BY <1>1 DEF StandsAt, Respected
  <2>4. QED
    BY <2>1, <2>2, <2>3
<1>4. k # u => recordClaims'[SetOf[k]] \in {NoClaim, OwnClaim(k)}
  <2> SUFFICES ASSUME k # u PROVE recordClaims'[SetOf[k]] \in {NoClaim, OwnClaim(k)}
    OBVIOUS
  <2>1. recordClaims[SetOf[k]] \in {NoClaim, OwnClaim(k)} /\ SetOf[k] \in RecordSet
    BY StoreAssumption DEF StandsAt, Claimed
  <2>2. CASE adoption.pc = "insert" /\ AdoptionBatch
    <3>1. SetOf[adoption.key] = SetOf[k] => OwnerOf[adoption.key] = OwnerOf[k]
      <4>1. <<k, u>> \in Targets
        BY DEF StandsAt, Placed
      <4>2. <<adoption.key, adoption.id>> \in Targets
        BY <2>2 DEF AdoptionInv, Aimed
      <4>3. QED
        BY <4>1, <4>2 DEF OneGrantee
    <3>2. QED
      BY <2>1, <2>2, <3>1, BatchMoves DEF Own, OwnClaim
  <2>3. QED
    BY <1>1, <2>1, <2>2
<1>5. ASSUME adoption'.pc = "mark", adoption'.id = u PROVE recordClaims'[SetOf[k]] = NoClaim
  <2>1. CASE adoption' = adoption /\ UNCHANGED recordClaims
    BY <1>5, <2>1 DEF StandsAt, Claimed
  <2>2. CASE /\ adoption.pc = "claim" /\ adoption'.id = adoption.id
             /\ recordClaims[SetOf[adoption.key]] = NoClaim /\ UNCHANGED recordClaims
    <3>1. <<adoption.key, u>> \in Targets /\ (k = u \/ <<k, u>> \in Targets)
      BY <1>5, <2>2 DEF AdoptionInv, Aimed, StandsAt, Placed
    <3>2. SetOf[adoption.key] = SetOf[u] /\ SetOf[k] = SetOf[u]
      BY <3>1, AdoptionAssumption
    <3>3. QED
      BY <2>2, <3>2
  <2>3. QED
    BY <1>5, <2>1, <2>2, RunMoves
<1>6. QED
  BY <1>3, <1>4, <1>5 DEF StandsAt, Claimed, OwnClaim

\* A record that no adoption has marked is still nobody's.
LEMMA UnmarkedBesideRun ==
    ASSUME AdoptionInv, AdoptionStep \/ UNCHANGED adoptionVars,
           NEW u \in Unmanaged, At(u, u), At(u, u)', Unmarked(u)
    PROVE  Unmarked(u)'
<1> USE DEF others
<1>1. /\ UNCHANGED others
      /\ \/ UNCHANGED <<recordClaims, managedRecords>>
         \/ adoption.pc = "insert" /\ AdoptionBatch
  BY AdoptionShape DEF AdoptionInv
<1>2. adoption.pc = "insert" => adoption.id # u
  BY DEF Unmarked
<1>3. \A k \in Key : ~Row(k, u)'
  BY <1>1, <1>2, BatchMoves DEF Unmarked, Row
<1>4. adoption'.id = u => \/ adoption'.pc \in {"idle", "list", "mark"}
                          \/ adoption'.pc \in {"rows", "claim"} /\ ~adoption'.matches
  <2>1. u \in Key /\ (adoption.pc = "list" => adoption.key \in Key /\ adoption.key # u)
    BY AdoptionAssumption DEF AdoptionInv, Aimed
  <2>2. adoption.pc = "list" /\ At(adoption.id, adoption.key) => adoption.id # u
    BY <2>1 DEF At, AdoptionInv, OneKeyEach
  <2>3. adoption.pc = "mark" /\ Marked => adoption.id # u
    <3>1. adoption.pc = "mark" => adoption.key # u
      BY AdoptionAssumption DEF AdoptionInv, Aimed
    <3>2. QED
      BY <2>1, <3>1 DEF Marked, At
  <2>4. QED
    BY <2>2, <2>3, RunMoves DEF Unmarked, At
<1>5. QED
  BY <1>1, <1>3, <1>4 DEF Unmarked, RowSeen

\* Marking gives the record a key nobody else can take it from.
LEMMA StandsOnceMarked ==
    ASSUME AdoptionInv, AdoptionStep \/ UNCHANGED adoptionVars,
           NEW u \in Unmanaged, NEW k \in Key,
           adoption.pc = "mark", Marked, adoption.id = u, k = adoption.key,
           At(u, u), StandsAt(u, u), Unmarked(u)
    PROVE  StandsAt(u, k)'
<1> USE DEF others
<1>1. UNCHANGED others /\ UNCHANGED <<recordClaims, managedRecords>>
  BY AdoptionShape DEF AdoptionInv
<1>2. <<k, u>> \in Targets /\ SetOf[k] = SetOf[u]
  BY AdoptionAssumption DEF AdoptionInv, Aimed
<1>3. \A o \in Op, j \in KeysOf(SetOf[k]) : mutationIntents[o][j] = "absent"
  BY <1>2 DEF StandsAt, Respected
<1>4. \A o \in Op : wire[o][k] # "applied"
  BY <1>3 DEF AdoptionInv, IInv, WireHasIntent, KeysOf
<1>5. recordClaims'[SetOf[k]] = NoClaim
  BY <1>1, <1>2 DEF StandsAt, Claimed
<1>6. Noticed(u, k)'
  BY <1>1 DEF StandsAt, Noticed, Unmarked, RowSeen
<1>7. Respected(u, k)'
  BY <1>1, <1>3, <1>4 DEF Respected
<1>8. QED
  BY <1>2, <1>5, <1>6, <1>7 DEF StandsAt, Placed, Claimed

-----------------------------------------------------------------------------
(* What is marked can be adopted *)

\* What the mutation path keeps beside adoptions, ...
KeptInv == ExecInv /\ ChangeInv /\ SeenInv /\ Backed

\* ... with which it is inductive where unmanaged records stand.
MarkInv == KeptInv /\ StandInv

LEMMA KeptNext == AdoptionInv /\ KeptInv /\ [AdoptionNext]_adoptionVars => KeptInv'
<1> SUFFICES ASSUME AdoptionInv, KeptInv, [AdoptionNext]_adoptionVars PROVE KeptInv'
  OBVIOUS
<1>1. CASE MutationPath
  BY <1>1, PathIsNext, ExecNext, ChangeNext, SeenNext, PathMoves, BackedNext
     DEF AdoptionInv, KeptInv
<1>2. CASE AdoptionStep \/ UNCHANGED adoptionVars
  <2>1. UNCHANGED others
    BY <1>2, AdoptionShape DEF AdoptionInv
  <2>2. ExecInv' /\ ChangeInv'
    BY <2>1 DEF others, KeptInv, ExecInv, SingleExecution, ChangeInv, WireOK, PhaseOK
  <2>3. SeenInv'
    BY <2>1 DEF others, KeptInv, SeenInv, OwnRows, SeenOK, PruneKeys, DesiredKeys,
       KeyZone, SetVerified, KeysOf
  <2>4. Backed'
    <3>1. CASE UNCHANGED <<recordClaims, managedRecords>>
      BY <3>1 DEF KeptInv, Backed
    <3>2. CASE adoption.pc = "insert" /\ AdoptionBatch
      <4>1. ASSUME NEW k \in Key, managedRecords'[k] # NoRow
            PROVE  recordClaims'[SetOf[k]] # NoClaim
        <5>1. SetOf[k] \in RecordSet
          BY StoreAssumption
        <5>2. QED
          BY <3>2, <4>1, <5>1, BatchMoves DEF KeptInv, Backed
      <4>2. QED
        BY <4>1 DEF Backed
    <3>3. QED
      BY <1>2, <3>1, <3>2, AdoptionShape DEF AdoptionInv
  <2>5. QED
    BY <2>2, <2>3, <2>4 DEF KeptInv
<1>3. QED
  BY <1>1, <1>2 DEF AdoptionNext, KeptInv

LEMMA MarkNext ==
    ASSUME OneGrantee
    PROVE  AdoptionInv /\ MarkInv /\ [AdoptionNext]_adoptionVars => MarkInv'
<1> SUFFICES ASSUME AdoptionInv, MarkInv, [AdoptionNext]_adoptionVars PROVE MarkInv'
  OBVIOUS
<1>1. SeenInv /\ ChangeInv /\ Backed /\ StandInv
  BY DEF MarkInv, KeptInv
<1>2. ASSUME NEW u \in Unmanaged, NEW k \in Key, At(u, k)'
      PROVE  StandsAt(u, k)'
  <2>1. CASE At(u, k)
    <3>1. StandsAt(u, k)
      BY <1>1, <2>1 DEF StandInv
    <3>2. QED
      BY <1>1, <1>2, <2>1, <3>1, StandsNext, StandsBesideRun DEF AdoptionNext
  <2>2. CASE ~At(u, k)
    <3>1. /\ adoption.pc = "mark" /\ Marked /\ adoption.id = u /\ k = adoption.key
          /\ At(u, u)
      BY <1>1, <1>2, <2>2, NewAt
    <3>2. StandsAt(u, u) /\ Unmarked(u)
      BY <1>1, <3>1, AdoptionAssumption DEF StandInv
    <3>3. CASE AdoptionStep \/ UNCHANGED adoptionVars
      BY <3>1, <3>2, <3>3, StandsOnceMarked
    <3>4. CASE MutationPath
      <4>1. At(u, k)
        BY <1>2, <3>4, PathIsNext, PathKeepsRecords DEF RecordsStay, At, AdoptionInv
      <4>2. QED
        BY <2>2, <4>1
    <3>5. QED
      BY <3>3, <3>4 DEF AdoptionNext
  <2>3. QED
    BY <2>1, <2>2
<1>3. ASSUME NEW u \in Unmanaged, At(u, u)' PROVE Unmarked(u)'
  <2>1. u \in Key
    BY AdoptionAssumption
  <2>2. At(u, u)
    BY <1>1, <1>3, <2>1, NewAt
  <2>3. StandsAt(u, u) /\ Unmarked(u)
    BY <1>1, <2>1, <2>2 DEF StandInv
  <2>4. QED
    BY <1>1, <1>3, <2>2, <2>3, UnmarkedNext, UnmarkedBesideRun DEF AdoptionNext
<1>4. QED
  BY <1>2, <1>3, KeptNext DEF MarkInv, StandInv

LEMMA MarkInit == AdoptionInit => MarkInv
<1> SUFFICES ASSUME AdoptionInit PROVE MarkInv
  OBVIOUS
<1>1. /\ \A r \in Req : req[r] = Fresh("lookup")
      /\ \A o \in Op, k \in Key : /\ mutationIntents[o][k] = "absent"
                                  /\ intentActions[o][k].action = "none"
                                  /\ wire[o][k] = "idle"
      /\ adoption = Idle
  BY DEF AdoptionInit, StoreInit
<1>2. ExecInv /\ ChangeInv /\ SeenInv
  <2>1. \A r \in Req : req[r].pc = "lookup" /\ OpOf[r] \in Op
    BY <1>1, ApplyAssumption DEF Fresh
  <2>2. ExecInv
    BY <2>1 DEF ExecInv, SingleExecution, Executing
  <2>3. ChangeInv
    BY <1>1, <2>1 DEF ChangeInv, WireOK, PhaseOK
  <2>4. QED
    BY <1>1, <2>2, <2>3, SeenInit
<1>3. \A k \in Key : managedRecords[k] # NoRow =>
         k \in InitialKeys /\ managedRecords[k].id = k
  BY DEF AdoptionInit, StoreInit
<1>4. Backed
  <2>1. \A r \in Repo : [repo |-> r, state |-> "active"] # NoClaim
    BY RowAssumption DEF ClaimRow
  <2>2. ASSUME NEW k \in InitialKeys PROVE recordClaims[SetOf[k]] # NoClaim
    <3>1. k \in Key /\ SetOf[k] \in RecordSet /\ k \in InitialKeys \cap KeysOf(SetOf[k])
      BY StoreAssumption DEF KeysOf
    <3>2. PICK j \in InitialKeys \cap KeysOf(SetOf[k]) :
             recordClaims[SetOf[k]] = [repo |-> OwnerOf[j], state |-> "active"]
      BY <3>1 DEF AdoptionInit, StoreInit
    <3>3. OwnerOf[j] \in Repo
      BY <3>2, StoreAssumption DEF KeysOf
    <3>4. QED
      BY <2>1, <3>2, <3>3
  <2>3. QED
    BY <1>3, <2>2 DEF Backed
<1>5. ASSUME NEW u \in Unmanaged, NEW k \in Key, At(u, k)
      PROVE  StandsAt(u, k)
  <2>1. k = u /\ u \notin InitialKeys
    BY <1>5, AdoptionAssumption DEF AdoptionInit, At
  <2>2. \A r \in Req : req[r].pc = "lookup" /\ ~RowSeen(r, k, u)
    BY <1>1 DEF Fresh, RowSeen
  <2>3. Noticed(u, k)
    BY <2>2 DEF Noticed, Listing, Accepting, Executing
  <2>4. adoption.pc = "idle"
    BY <1>1 DEF Idle
  <2>5. QED
    BY <1>1, <2>1, <2>3, <2>4 DEF StandsAt, Placed, Respected, Claimed, KeysOf
<1>6. ASSUME NEW u \in Unmanaged PROVE Unmarked(u)
  <2>1. \A k \in Key : ~Row(k, u)
    BY <1>3, AdoptionAssumption DEF Row
  <2>2. QED
    BY <1>1, <2>1 DEF Unmarked, RowSeen, Fresh, Idle
<1>7. QED
  BY <1>2, <1>4, <1>5, <1>6 DEF MarkInv, KeptInv, StandInv

-----------------------------------------------------------------------------
(* What the mutation path guarantees beside adoptions *)

\* The claim an adoption inserts or finds is that of the row it inserts.
LEMMA OwnerNext == AdoptionInv /\ SingleOwner /\ [AdoptionNext]_adoptionVars => SingleOwner'
<1> SUFFICES ASSUME AdoptionInv, SingleOwner, [AdoptionNext]_adoptionVars
             PROVE  SingleOwner'
  OBVIOUS
<1>1. CASE MutationPath
  BY <1>1, PathIsNext, ClaimsNext, NextShape DEF AdoptionInv, IInv
<1>2. CASE UNCHANGED <<recordClaims, managedRecords>>
  BY <1>2 DEF SingleOwner
<1>3. CASE adoption.pc = "insert" /\ AdoptionBatch
  <2> SUFFICES ASSUME NEW k \in Key, managedRecords'[k] # NoRow
               PROVE  recordClaims'[SetOf[k]] = [repo |-> OwnerOf[k], state |-> "active"]
    BY DEF SingleOwner
  <2>1. /\ managedRecords \in [Key -> ManagedRow \cup {NoRow}]
        /\ recordClaims \in [RecordSet -> ClaimRow \cup {NoClaim}]
        /\ adoption.key \in Key /\ SetOf[k] \in RecordSet
        /\ [repo |-> OwnerOf[k], state |-> "active"] # NoClaim
    BY <1>3, AdoptionAssumption, StoreAssumption, RowAssumption
       DEF AdoptionInv, IInv, TablesOK, StoreTypeOK, Aimed, ClaimRow
  <2>2. CASE managedRecords[k] # NoRow
    <3>1. recordClaims[SetOf[k]] = [repo |-> OwnerOf[k], state |-> "active"]
      BY <2>2 DEF SingleOwner
    <3>2. recordClaims'[SetOf[k]] = recordClaims[SetOf[k]]
      BY <1>3, <2>1, <3>1 DEF AdoptionBatch, Adoptable, ClaimsAfter
    <3>3. QED
      BY <3>1, <3>2
  <2>3. CASE managedRecords[k] = NoRow
    BY <1>3, <2>1, <2>3 DEF AdoptionBatch, RowsAfter, Own
  <2>4. QED
    BY <2>2, <2>3
<1>4. QED
  BY <1>1, <1>2, <1>3, AdoptionShape DEF AdoptionInv, AdoptionNext

\* Adoptions, which write rows and claims without a lock, leave the mutation path
\* what it guarantees: a set is one repository's, an operation is executed once at
\* a time, and what D1 calls confirmed was carried out (adopt.js).
THEOREM AdoptionKeepsSafety ==
    AdoptionSpec => [](SingleOwner /\ SingleExecution /\ ConfirmedWasApplied)
<1>1. AdoptionInit => SingleOwner
  BY ClaimsInit DEF AdoptionInit
<1>2. KeptInv => SingleExecution /\ ConfirmedWasApplied
  BY DEF KeptInv, ExecInv, ChangeInv, WireOK, ConfirmedWasApplied
<1>3. AdoptionInit => KeptInv
  BY MarkInit DEF MarkInv
<1>4. QED
  BY <1>1, <1>2, <1>3, OwnerNext, KeptNext, AdoptionInvariant, PTL DEF AdoptionSpec

\* However often adoptions of a record are cut, and whatever applies run, the claim
\* of its set never keeps the same adoption from being made again (adoptRecord;
\* adopt.test.js:167), as long as the record sets of what is adopted are granted to
\* one repository each.
THEOREM MarkedCanBeAdopted ==
    ASSUME OneGrantee
    PROVE  AdoptionSpec => []MarkedIsAdoptable
<1>1. AdoptionInv /\ MarkInv /\ [AdoptionNext]_adoptionVars => MarkInv'
  BY MarkNext
<1>2. MarkInv => MarkedIsAdoptable
  BY DEF MarkInv, StandInv, StandsAt, Claimed, OwnClaim, At, MarkedIsAdoptable
<1>3. QED
  BY <1>1, <1>2, MarkInit, AdoptionInvariant, PTL DEF AdoptionSpec

-----------------------------------------------------------------------------
(* What the records of a key are called *)

\* A record goes by the identifier of a change that created it, by the key it had
\* at the start, or by that of an unmanaged record.
Names(k) == Unmanaged \cup {k} \cup {NewId(o, k) : o \in Op}
NamedInv ==
    \A k \in Key :
        /\ \A p \in provider[k] : p.id \in Names(k)
        /\ managedRecords[k] # NoRow => managedRecords[k].id \in Names(k)
        /\ \A r \in Req : req[r].owned[k] # NoRow => req[r].owned[k].id \in Names(k)
        /\ \A o \in Op : intentActions[o][k].action = "update" =>
              intentActions[o][k].target \in Names(k)

\* Only unmanaged records can go from key to key.
LEMMA NamesApart ==
    ASSUME NEW j \in Key, NEW k \in Key, j # k, NEW id \in Names(j), id \in Names(k)
    PROVE  id \in Unmanaged
BY IdAssumption DEF Names, NewId

LEMMA NamedPath ==
    ASSUME AdoptionInv, ChangeInv, Backed, NamedInv, MutationPath
    PROVE  NamedInv'
<1>1. /\ IdsStay
      /\ \A j \in Key : RowMoves(j)
      /\ \A o \in Op, j \in Key : IntentMove(o, j)
      /\ \A r \in Req : req'[r] = req[r] \/ Reads(r)
  BY PathMoves DEF AdoptionInv
<1>2. ASSUME NEW k \in Key, NEW p \in provider'[k] PROVE p.id \in Names(k)
  BY <1>1, <1>2 DEF IdsStay, NamedInv, Names
<1>3. ASSUME NEW k \in Key, managedRecords'[k] # NoRow
      PROVE  managedRecords'[k].id \in Names(k)
  <2>1. CASE managedRecords'[k] = managedRecords[k]
    BY <1>3, <2>1 DEF NamedInv
  <2>2. ASSUME NEW o \in Op, wire[o][k] = "applied", ConfirmBatch(o, k)
        PROVE  managedRecords'[k].id \in Names(k)
    BY <1>3, <2>2, ConfirmedRow DEF NamedInv, Names, ConfirmBatch, AdoptionInv
  <2>3. ASSUME NEW o \in Op, NEW decision \in Decision, NEW p \in Candidates(k),
               mutationIntents[o][k] # "absent", Evidence(o, k, decision, p),
               managedRecords'[k] = ResolvedRecord(o, k, decision, p)
        PROVE  managedRecords'[k].id \in Names(k)
    <3>1. CASE managedRecords'[k] \in {managedRecords[k], NoRow}
      BY <1>3, <3>1 DEF NamedInv
    <3>2. CASE decision = "confirm-provider" /\ intentActions[o][k].action # "delete"
      BY <2>3, <3>2, DecidedRow DEF NamedInv, AdoptionInv
    <3>3. QED
      BY <2>3, <3>1, <3>2, DecidedRow DEF Decision, AdoptionInv
  <2>4. QED
    BY <1>1, <2>1, <2>2, <2>3 DEF RowMoves
<1>4. ASSUME NEW k \in Key, NEW r \in Req, req'[r].owned[k] # NoRow
      PROVE  req'[r].owned[k].id \in Names(k)
  <2>1. CASE req'[r].owned = req[r].owned
    BY <1>4, <2>1 DEF NamedInv
  <2>2. CASE req'[r] = Fresh("done")
    BY <1>4, <2>2 DEF Fresh
  <2>3. CASE req'[r].owned = OwnedRows(RepoOf[OpOf[r]])
    BY <1>4, <2>3 DEF NamedInv, OwnedRows
  <2>4. QED
    BY <1>1, <2>1, <2>2, <2>3 DEF Reads
<1>5. ASSUME NEW k \in Key, NEW o \in Op, intentActions'[o][k].action = "update"
      PROVE  intentActions'[o][k].target \in Names(k)
  <2>1. CASE intentActions'[o][k] = intentActions[o][k]
    BY <1>5, <2>1 DEF NamedInv
  <2>2. ASSUME NEW r \in Req, Begun(r, o, k)
        PROVE  intentActions'[o][k].target \in Names(k)
    <3>1. Change(r, k) = "update" /\ intentActions'[o][k].target = Target(r, k)
      BY <1>5, <2>2 DEF Begun
    <3>2. Current(r, k) # {}
      BY <3>1 DEF Change
    <3>3. req[r].owned[k] # NoRow /\ Target(r, k) = req[r].owned[k].id
      BY <3>2 DEF Current, Target
    <3>4. QED
      BY <3>1, <3>3 DEF NamedInv
  <2>3. QED
    BY <1>1, <2>1, <2>2 DEF IntentMove
<1>6. QED
  BY <1>2, <1>3, <1>4, <1>5 DEF NamedInv

LEMMA NamedBesideRun ==
    ASSUME AdoptionInv, NamedInv, AdoptionStep \/ UNCHANGED adoptionVars
    PROVE  NamedInv'
<1> USE DEF others
<1>1. /\ UNCHANGED others
      /\ UNCHANGED provider \/ (adoption.pc = "mark" /\ Marked)
      /\ \/ UNCHANGED <<recordClaims, managedRecords>>
         \/ adoption.pc = "insert" /\ AdoptionBatch
  BY AdoptionShape DEF AdoptionInv
<1>2. adoption.pc # "idle" => adoption.id \in Unmanaged
  BY AdoptionAssumption DEF AdoptionInv, Aimed
<1>3. ASSUME NEW k \in Key, NEW p \in provider'[k] PROVE p.id \in Names(k)
  BY <1>1, <1>2, <1>3 DEF Marked, NamedInv, Names
<1>4. ASSUME NEW k \in Key, managedRecords'[k] # NoRow
      PROVE  managedRecords'[k].id \in Names(k)
  BY <1>1, <1>2, <1>4, BatchMoves DEF NamedInv, Names
<1>5. QED
  BY <1>1, <1>3, <1>4 DEF NamedInv

\* No two records of a key share an identifier, beside adoptions too.
LEMMA IdsBesideRun ==
    ASSUME AdoptionInv, IdsOK, AdoptionStep \/ UNCHANGED adoptionVars
    PROVE  IdsOK'
<1>1. /\ UNCHANGED wire
      /\ UNCHANGED provider \/ (adoption.pc = "mark" /\ Marked)
  BY AdoptionShape DEF AdoptionInv, others
<1>2. CASE UNCHANGED provider
  BY <1>1, <1>2 DEF IdsOK
<1>3. CASE adoption.pc = "mark" /\ Marked
  <2> DEFINE new == [id |-> adoption.id, content |-> adoption.content, rev |-> 0]
  <2>1. new.id = adoption.id /\ adoption.id \in Unmanaged
    BY <1>3, AdoptionAssumption DEF AdoptionInv, Aimed
  <2>2. \A k \in Key : \A p \in provider'[k] :
           (p \in provider[k] /\ p.id # adoption.id) \/ p = new
    BY <1>3 DEF Marked
  <2> HIDE DEF new
  <2>3. \A k \in Key : \A p, q \in provider'[k] : p.id = q.id => p = q
    BY <2>1, <2>2 DEF IdsOK
  <2>4. \A k \in Key : \A p \in provider'[k], o \in Op :
           p.id = NewId(o, k) => wire'[o][k] = "applied"
    BY <1>1, <2>1, <2>2, Created DEF IdsOK
  <2>5. QED
    BY <2>3, <2>4 DEF IdsOK
<1>4. QED
  BY <1>1, <1>2, <1>3

-----------------------------------------------------------------------------
(* What D1 and the provider say of a record they both have *)

\* The record that goes by the identifier in the row has the row's content.
Agrees(k) ==
    managedRecords[k] # NoRow =>
        \A p \in provider[k] :
            p.id = managedRecords[k].id => p.content = managedRecords[k].content

\* So it is, unless a change was carried out and is not settled: then the record
\* it named has what the change asked for. Unlike MatchAt this leaves a key the
\* other records it may have.
AgreesAt(k) ==
    /\ (\A o \in Op : ~Carried(o, k)) => Agrees(k)
    /\ \A o \in Op : Carried(o, k) =>
          LET row == intentActions[o][k]
          IN  /\ row.action \in Action
              /\ row.action = "create" =>
                    \A p \in provider[k] :
                        p.id = NewId(o, k) => p.content = Desired[o][k]
              /\ row.action = "update" =>
                    \A p \in provider[k] :
                        p.id = row.target => p.content = Desired[o][k] /\ p.rev = o
              /\ row.action = "delete" =>
                    Agrees(k) /\ \A p \in provider[k] : p.id # row.target
AgreeInv == \A k \in Key : AgreesAt(k)

LEMMA AgreesCarriesOut ==
    ASSUME IInv, NEW k \in Key, NEW o \in Op, AgreesAt(k), CarriesOut(o, k), IdsOK'
    PROVE  AgreesAt(k)'
<1> DEFINE row == intentActions[o][k]
           New(id) == [id |-> id, content |-> Desired[o][k], rev |-> o]
<1>1. /\ Agrees(k) /\ provider'[k] = Effect(o, k) /\ row' = row /\ row.action \in Action
      /\ \A p \in Op : Carried(p, k)' <=> p = o
      /\ managedRecords'[k] = managedRecords[k]
      /\ \A p, q \in provider'[k] : p.id = q.id => p = q
  BY DEF CarriesOut, AgreesAt, IdsOK
<1>2. CASE row.action = "create"
  <2>1. New(NewId(o, k)) \in provider'[k]
    BY <1>1, <1>2 DEF Effect
  <2>2. \A p \in provider'[k] : p.id = NewId(o, k) => p.content = Desired[o][k]
    BY <1>1, <2>1
  <2>3. QED
    BY <1>1, <1>2, <2>2 DEF AgreesAt
<1>3. CASE row.action = "update"
  <2>1. New(row.target) \in provider'[k]
    BY <1>1, <1>3 DEF Effect
  <2>2. \A p \in provider'[k] : p.id = row.target => p.content = Desired[o][k] /\ p.rev = o
    BY <1>1, <2>1
  <2>3. QED
    BY <1>1, <1>3, <2>2 DEF AgreesAt
<1>4. CASE row.action = "delete"
  <2>1. provider'[k] = provider[k] \ {p \in provider[k] : p.id = row.target}
    BY <1>1, <1>4 DEF Effect
  <2>2. Agrees(k)' /\ \A p \in provider'[k] : p.id # row.target
    BY <1>1, <2>1 DEF Agrees
  <2>3. QED
    BY <1>1, <1>4, <2>2 DEF AgreesAt
<1>5. QED
  BY <1>1, <1>2, <1>3, <1>4 DEF Action

LEMMA AgreesDecides ==
    ASSUME OperatorCompares, IInv, IdsOK, NEW k \in Key, NEW o \in Op, AgreesAt(k),
           Decides(o, k)
    PROVE  AgreesAt(k)'
<1> DEFINE row == intentActions[o][k]
<1>1. PICK decision \in Decision, p \in Candidates(k) :
         /\ Evidence(o, k, decision, p) /\ Careful(o, k, decision)
         /\ managedRecords'[k] = ResolvedRecord(o, k, decision, p)
  BY DEF Decides
<1>2. /\ provider'[k] = provider[k] /\ mutationIntents[o][k] # "absent"
      /\ \A q \in Op : ~Carried(q, k)' /\ (Carried(q, k) => q = o)
  BY DEF Decides
<1>3. Agrees(k) \/ Carried(o, k)
  BY <1>2 DEF AgreesAt
<1>4. ASSUME decision = "confirm-no-change" PROVE Agrees(k)'
  <2>1. /\ managedRecords'[k] = managedRecords[k] /\ row.action \in Action
        /\ row.action = "create" => provider[k] = {}
        /\ row.action # "create" => \E q \in provider[k] : q.id = row.target
    BY <1>1, <1>2, <1>4, DecidedRow
  <2>2. CASE row.action = "create"
    BY <1>2, <2>1, <2>2 DEF Agrees
  <2>3. CASE row.action = "update"
    <3>1. ~Written(o, k)
      BY <1>1, <1>4, <2>3 DEF Careful
    <3>2. ~Carried(o, k)
      BY <2>1, <2>3, <3>1 DEF AgreesAt, Written
    <3>3. QED
      BY <1>2, <1>3, <2>1, <3>2 DEF Agrees
  <2>4. CASE row.action = "delete"
    <3>1. Agrees(k)
      BY <1>3, <2>4 DEF AgreesAt
    <3>2. QED
      BY <1>2, <2>1, <3>1 DEF Agrees
  <2>5. QED
    BY <2>1, <2>2, <2>3, <2>4 DEF Action
<1>5. ASSUME decision = "confirm-provider", row.action # "delete" PROVE Agrees(k)'
  <2>1. /\ p \in provider[k] /\ managedRecords'[k].id = p.id
        /\ managedRecords'[k].content = p.content
    BY <1>1, <1>2, <1>5, DecidedRow
  <2>2. \A q \in provider[k] : q.id = p.id => q = p
    BY <2>1 DEF IdsOK
  <2>3. QED
    BY <1>2, <2>1, <2>2 DEF Agrees
<1>6. ASSUME decision = "confirm-provider", row.action = "delete" PROVE Agrees(k)'
  <2>1. managedRecords'[k] \in {managedRecords[k], NoRow}
    BY <1>1, <1>2, <1>6, DecidedRow
  <2>2. Agrees(k)
    BY <1>3, <1>6 DEF AgreesAt
  <2>3. QED
    BY <1>2, <2>1, <2>2 DEF Agrees
<1>7. Agrees(k)'
  BY <1>4, <1>5, <1>6 DEF Decision
<1>8. QED
  BY <1>2, <1>7 DEF AgreesAt

LEMMA AgreesNext ==
    ASSUME OperatorCompares, "drift" \notin Faults, IInv, NEW k \in Key, AgreesAt(k),
           KeyStep(k), IdsOK, IdsOK'
    PROVE  AgreesAt(k)'
<1>1. ASSUME Still(k), provider'[k] = provider[k] PROVE AgreesAt(k)'
  BY <1>1 DEF Still, AgreesAt, Agrees
<1>2. ~Drift(k)
  BY DEF Drift, Inject
<1>3. ASSUME NEW o \in Op, Confirms(o, k) PROVE AgreesAt(k)'
  <2>1. /\ Carried(o, k) /\ provider'[k] = provider[k] /\ ConfirmBatch(o, k)
        /\ \A p \in Op : ~Carried(p, k)'
    BY <1>3 DEF Confirms
  <2>2. Agrees(k)'
    BY <2>1, ConfirmedRow DEF AgreesAt, Agrees, Action
  <2>3. QED
    BY <2>1, <2>2 DEF AgreesAt
<1>4. QED
  BY <1>1, <1>2, <1>3, AgreesCarriesOut, AgreesDecides DEF KeyStep

-----------------------------------------------------------------------------
(* To which key an unmanaged record belongs once it is marked *)

\* The run holds that its record is marked for its key.
Holding == \/ adoption.pc = "insert"
           \/ adoption.pc \in {"rows", "claim"} /\ adoption.matches

\* Something took the record u for the key's: a row, a request's copy of it, an
\* update, or the run of an adoption.
Trace(k, u) ==
    \/ Row(k, u)
    \/ \E r \in Req : RowSeen(r, k, u)
    \/ \E o \in Op : /\ intentActions[o][k].action = "update"
                     /\ intentActions[o][k].target = u
    \/ adoption.id = u /\ adoption.key = k /\ Holding

\* It is no other key's; where it stands, changes are begun only once it has its
\* row; and until then it has the content a run holds.
OwnTrace == \A u \in Unmanaged, j, k \in Key : Trace(k, u) /\ At(u, j) => j = k
Adopted(u, k) == \A o \in Op : mutationIntents[o][k] # "absent" => Row(k, u)
AdoptedInv == \A u \in Unmanaged, k \in Key : At(u, k) => Adopted(u, k)
HeldContent ==
    Holding => \A p \in provider[adoption.key] :
                  p.id = adoption.id =>
                     \/ Row(adoption.key, adoption.id)
                     \/ p.content = adoption.content

LEMMA UnmarkedHasNoTrace ==
    ASSUME NEW u \in Unmanaged, NEW k \in Key, Unmarked(u)
    PROVE  ~Trace(k, u)
BY DEF Unmarked, Trace, Holding

LEMMA TracePath ==
    ASSUME AdoptionInv, ChangeInv, Backed, MutationPath,
           NEW u \in Unmanaged, NEW k \in Key, Trace(k, u)'
    PROVE  Trace(k, u) \/ At(u, k)
<1>1. /\ RowMoves(k)
      /\ \A o \in Op : IntentMove(o, k)
      /\ \A r \in Req : req'[r] = req[r] \/ Reads(r)
      /\ UNCHANGED adoption
  BY PathMoves DEF AdoptionInv
<1>2. ASSUME Row(k, u)' PROVE Trace(k, u) \/ At(u, k)
  <2>1. CASE managedRecords'[k] \in {managedRecords[k], NoRow}
    BY <1>2, <2>1 DEF Row, Trace
  <2>2. ASSUME NEW o \in Op, wire[o][k] = "applied", ConfirmBatch(o, k)
        PROVE  Trace(k, u)
    <3>1. managedRecords'[k] # NoRow /\ managedRecords'[k].id = u
      BY <1>2 DEF Row
    <3>2. intentActions[o][k].action = "update" /\ intentActions[o][k].target = u
      BY <2>2, <3>1, ConfirmedRow, Created DEF ConfirmBatch, AdoptionInv
    <3>3. QED
      BY <3>2 DEF Trace
  <2>3. ASSUME NEW o \in Op, NEW decision \in Decision, NEW p \in Candidates(k),
               mutationIntents[o][k] # "absent", Evidence(o, k, decision, p),
               managedRecords'[k] = ResolvedRecord(o, k, decision, p)
        PROVE  Trace(k, u) \/ At(u, k)
    <3>1. CASE decision = "confirm-provider" /\ intentActions[o][k].action # "delete"
      BY <1>2, <2>3, <3>1, DecidedRow DEF Row, At, AdoptionInv
    <3>2. QED
      BY <2>1, <2>3, <3>1, DecidedRow DEF Decision, AdoptionInv
  <2>4. QED
    BY <1>1, <2>1, <2>2, <2>3 DEF RowMoves
<1>3. ASSUME NEW r \in Req, RowSeen(r, k, u)' PROVE Trace(k, u)
  <2>1. CASE req'[r].owned = req[r].owned
    BY <1>3, <2>1 DEF RowSeen, Trace
  <2>2. CASE req'[r] = Fresh("done")
    BY <1>3, <2>2 DEF RowSeen, Fresh
  <2>3. CASE req'[r].owned = OwnedRows(RepoOf[OpOf[r]])
    BY <1>3, <2>3 DEF RowSeen, Row, OwnedRows, Trace
  <2>4. QED
    BY <1>1, <2>1, <2>2, <2>3 DEF Reads
<1>4. ASSUME NEW o \in Op, intentActions'[o][k].action = "update",
             intentActions'[o][k].target = u
      PROVE  Trace(k, u)
  <2>1. CASE intentActions'[o][k] = intentActions[o][k]
    BY <1>4, <2>1 DEF Trace
  <2>2. ASSUME NEW r \in Req, Begun(r, o, k) PROVE Trace(k, u)
    <3>1. Change(r, k) = "update" /\ Target(r, k) = u
      BY <1>4, <2>2 DEF Begun
    <3>2. Current(r, k) # {}
      BY <3>1 DEF Change
    <3>3. RowSeen(r, k, u)
      BY <3>1, <3>2 DEF Current, Target, RowSeen
    <3>4. QED
      BY <3>3 DEF Trace
  <2>3. QED
    BY <1>1, <2>1, <2>2 DEF IntentMove
<1>5. Holding' => Holding
  BY <1>1 DEF Holding
<1>6. QED
  BY <1>1, <1>2, <1>3, <1>4, <1>5 DEF Trace

LEMMA TraceBesideRun ==
    ASSUME AdoptionInv, AdoptionStep \/ UNCHANGED adoptionVars,
           NEW u \in Unmanaged, NEW k \in Key, Trace(k, u)'
    PROVE  \/ Trace(k, u)
           \/ adoption.pc = "list" /\ At(u, k)
           \/ adoption.pc = "mark" /\ Marked /\ adoption.id = u /\ adoption.key = k
<1> USE DEF others
<1>1. /\ UNCHANGED others
      /\ \/ UNCHANGED <<recordClaims, managedRecords>>
         \/ adoption.pc = "insert" /\ AdoptionBatch
  BY AdoptionShape DEF AdoptionInv
<1>2. CASE Row(k, u)'
  BY <1>1, <1>2, BatchMoves DEF Row, Trace, Holding
<1>3. CASE (\E r \in Req : RowSeen(r, k, u)')
             \/ \E o \in Op : /\ intentActions'[o][k].action = "update"
                              /\ intentActions'[o][k].target = u
  BY <1>1, <1>3 DEF RowSeen, Trace
<1>4. CASE adoption'.id = u /\ adoption'.key = k /\ Holding'
  BY <1>4, RunMoves DEF Holding, Trace, At
<1>5. QED
  BY <1>2, <1>3, <1>4 DEF Trace

LEMMA OwnTraceNext ==
    ASSUME AdoptionInv, ChangeInv, Backed, StandInv, OwnTrace,
           [AdoptionNext]_adoptionVars
    PROVE  OwnTrace'
<1> SUFFICES ASSUME NEW u \in Unmanaged, NEW j \in Key, NEW k \in Key,
                    Trace(k, u)', At(u, j)'
             PROVE  j = k
  BY DEF OwnTrace
<1>1. Trace(k, u) \/ At(u, k) => (At(u, j) => j = k)
  BY DEF OwnTrace, AdoptionInv, OneKeyEach, At
<1>2. CASE MutationPath
  <2>1. At(u, j)
    BY <1>2, PathIsNext, PathKeepsRecords DEF RecordsStay, At, AdoptionInv
  <2>2. QED
    BY <1>1, <1>2, <2>1, TracePath
<1>3. CASE AdoptionStep \/ UNCHANGED adoptionVars
  <2>1. CASE adoption.pc = "mark" /\ Marked /\ adoption.id = u /\ adoption.key = k
    BY <2>1 DEF Marked, At
  <2>2. CASE Trace(k, u) \/ (adoption.pc = "list" /\ At(u, k))
    <3>1. CASE At(u, j)
      BY <1>1, <2>2, <3>1
    <3>2. CASE ~At(u, j)
      <4>1. adoption.pc = "mark" /\ At(u, u) /\ u \in Key
        BY <3>2, NewAt, AdoptionAssumption
      <4>2. ~Trace(k, u)
        BY <4>1, UnmarkedHasNoTrace DEF StandInv
      <4>3. QED
        BY <2>2, <4>1, <4>2
    <3>3. QED
      BY <3>1, <3>2
  <2>3. QED
    BY <1>3, <2>1, <2>2, TraceBesideRun
<1>4. QED
  BY <1>2, <1>3 DEF AdoptionNext

LEMMA AdoptedNext ==
    ASSUME OneGrantee, AdoptionInv, MarkInv, AdoptedInv, [AdoptionNext]_adoptionVars
    PROVE  AdoptedInv'
<1> SUFFICES ASSUME NEW u \in Unmanaged, NEW k \in Key, At(u, k)',
                    NEW o \in Op, mutationIntents'[o][k] # "absent"
             PROVE  Row(k, u)'
  BY DEF AdoptedInv, Adopted
<1>1. SeenInv /\ ChangeInv /\ Backed /\ StandInv
  BY DEF MarkInv, KeptInv
<1>2. CASE MutationPath
  <2>1. /\ RowMoves(k) /\ IntentMove(o, k) /\ At(u, k)
    BY <1>1, <1>2, PathMoves, PathIsNext, PathKeepsRecords
       DEF RecordsStay, At, AdoptionInv
  <2>2. StandsAt(u, k)
    BY <1>1, <2>1 DEF StandInv
  <2>3. Row(k, u)
    <3>1. CASE mutationIntents[o][k] # "absent"
      BY <2>1, <3>1 DEF AdoptedInv, Adopted
    <3>2. ASSUME NEW r \in Req, Begun(r, o, k) PROVE Row(k, u)
      <4>1. req[r].pc \in Accepting /\ Change(r, k) \in Action
        BY <3>2, RequestArguments
           DEF Begun, Accepting, Executing, PlacedAt, AtKey, AdoptionInv
      <4>2. RowSeen(r, k, u)
        BY <1>1, <2>2, <4>1, ChangeAffects, AcceptedSees DEF StandsAt, AdoptionInv
      <4>3. QED
        BY <2>2, <4>2 DEF StandsAt, Noticed
    <3>3. QED
      BY <2>1, <3>1, <3>2 DEF IntentMove
  <2>4. QED
    BY <2>1, <2>2, <2>3, RowStays DEF StandsAt, AdoptionInv
<1>3. CASE AdoptionStep \/ UNCHANGED adoptionVars
  <2>1. mutationIntents[o][k] # "absent"
    BY <1>3, AdoptionShape DEF AdoptionInv, others
  <2>2. CASE At(u, k)
    <3>1. Row(k, u)
      BY <2>1, <2>2 DEF AdoptedInv, Adopted
    <3>2. \/ UNCHANGED managedRecords
          \/ adoption.pc = "insert" /\ AdoptionBatch
      BY <1>3, AdoptionShape DEF AdoptionInv
    <3>3. QED
      BY <3>1, <3>2, BatchMoves DEF Row
  <2>3. CASE ~At(u, k)
    <3>1. At(u, u) /\ adoption.pc = "mark" /\ adoption.id = u /\ k = adoption.key
      BY <1>1, <2>3, NewAt
    <3>2. u \in Key /\ SetOf[k] = SetOf[u]
      BY <3>1, AdoptionAssumption DEF AdoptionInv, Aimed
    <3>3. mutationIntents[o][k] = "absent"
      BY <1>1, <3>1, <3>2 DEF StandInv, StandsAt, Respected, KeysOf
    <3>4. QED
      BY <2>1, <3>3
  <2>4. QED
    BY <2>2, <2>3
<1>4. QED
  BY <1>2, <1>3 DEF AdoptionNext

\* Without a change of its own, and edits from outside, a key's records stay.
LEMMA IdleRecordsStay ==
    ASSUME "drift" \notin Faults, IInv, [Next]_vars, NEW k \in Key,
           \A o \in Op : mutationIntents[o][k] = "absent"
    PROVE  provider'[k] = provider[k]
<1>1. provider \in ProviderView
  BY DEF IInv, WorldOK
<1>2. \A o \in Op : wire[o][k] = "idle"
  BY DEF IInv, WireHasIntent
<1>3. ASSUME NEW o \in Op, NEW j \in Key, Answers(o, j) PROVE provider'[k] = provider[k]
  BY <1>1, <1>2, <1>3 DEF Answers, ProviderView
<1>4. \A j \in Key : ~Drift(j)
  BY DEF Drift, Inject
<1>5. (\E r \in Req : Event(r)) \/ (\E o \in Op, j \in Key : OperatorStep(o, j))
        => UNCHANGED provider
  BY OperatorStepTables DEF Event
<1>6. QED
  BY <1>3, <1>4, <1>5, StepsHappen DEF Happens, Around

LEMMA HeldNext ==
    ASSUME "drift" \notin Faults, AdoptionInv, MarkInv, IdsOK, AdoptedInv, HeldContent,
           [AdoptionNext]_adoptionVars
    PROVE  HeldContent'
<1>1. SeenInv /\ ChangeInv /\ Backed /\ StandInv
  BY DEF MarkInv, KeptInv
<1>2. Holding => adoption.id \in Unmanaged /\ adoption.key \in Key
  BY AdoptionAssumption DEF Holding, AdoptionInv, Aimed
<1>3. CASE MutationPath
  <2> SUFFICES ASSUME Holding, NEW k \in Key, k = adoption.key,
                      NEW u \in Unmanaged, u = adoption.id,
                      NEW p \in provider'[k], p.id = u
               PROVE  Row(k, u)' \/ p.content = adoption.content
    BY <1>2, <1>3, PathIsNext DEF HeldContent, Holding, Row
  <2>1. RowMoves(k) /\ RecordsStay
    BY <1>1, <1>2, <1>3, PathMoves DEF AdoptionInv
  <2>2. At(u, k)
    BY <1>2, <2>1 DEF RecordsStay, At
  <2>3. CASE Row(k, u)
    <3>1. Respected(u, k)
      BY <1>1, <1>2, <2>2 DEF StandInv, StandsAt
    <3>2. Row(k, u)'
      BY <1>2, <2>1, <2>2, <2>3, <3>1, RowStays DEF AdoptionInv
    <3>3. QED
      BY <1>3, <3>2, PathIsNext DEF Row
  <2>4. CASE ~Row(k, u)
    <3>1. \A o \in Op : mutationIntents[o][k] = "absent"
      BY <1>2, <2>2, <2>4 DEF AdoptedInv, Adopted
    <3>2. provider'[k] = provider[k]
      BY <1>2, <1>3, <3>1, PathIsNext, IdleRecordsStay DEF AdoptionInv
    <3>3. QED
      BY <2>4, <3>2 DEF HeldContent
  <2>5. QED
    BY <2>3, <2>4
<1>4. CASE AdoptionStep \/ UNCHANGED adoptionVars
  <2>1. UNCHANGED provider \/ (adoption.pc = "mark" /\ Marked)
    BY <1>4, AdoptionShape DEF AdoptionInv
  <2>2. CASE /\ Holding /\ UNCHANGED managedRecords
             /\ adoption'.id = adoption.id /\ adoption'.key = adoption.key
             /\ adoption'.content = adoption.content
    <3>1. UNCHANGED provider
      BY <2>1, <2>2 DEF Holding
    <3>2. QED
      BY <2>2, <3>1 DEF HeldContent, Row
  <2>3. CASE /\ adoption.pc = "list" /\ adoption'.pc = "rows"
             /\ adoption'.id = adoption.id /\ adoption'.key = adoption.key
             /\ (adoption'.matches =>
                   \E p \in provider[adoption.key] :
                      p.id = adoption.id /\ p.content = adoption'.content)
    <3>1. UNCHANGED provider /\ adoption.key \in Key
      BY <2>1, <2>3, AdoptionAssumption DEF AdoptionInv, Aimed
    <3>2. Holding' => adoption'.matches
      BY <2>3 DEF Holding
    <3>3. QED
      BY <2>3, <3>1, <3>2 DEF HeldContent, IdsOK
  <2>4. CASE adoption.pc = "mark" /\ Marked /\ adoption'.id = adoption.id
             /\ adoption'.key = adoption.key /\ adoption'.content = adoption.content
    <3>1. adoption.key \in Key
      BY <2>4, AdoptionAssumption DEF AdoptionInv, Aimed
    <3>2. \A p \in provider'[adoption.key] :
             p.id = adoption.id => p.content = adoption.content
      BY <2>4, <3>1 DEF Marked
    <3>3. QED
      BY <2>4, <3>2 DEF HeldContent
  <2>5. CASE adoption'.pc \in {"idle", "list", "mark"}
    BY <2>5 DEF HeldContent, Holding
  <2>6. CASE adoption' = adoption /\ UNCHANGED managedRecords
    <3>1. Holding' <=> Holding
      BY <2>6 DEF Holding
    <3>2. CASE Holding
      BY <2>2, <2>6, <3>2
    <3>3. QED
      BY <3>1, <3>2 DEF HeldContent
  <2>7. CASE /\ adoption.pc = "rows" /\ adoption'.pc = "claim"
             /\ adoption'.id = adoption.id /\ adoption'.key = adoption.key
             /\ adoption'.matches = adoption.matches
             /\ adoption'.content = adoption.content /\ UNCHANGED managedRecords
    <3>1. Holding' <=> Holding
      BY <2>7 DEF Holding
    <3>2. CASE Holding
      BY <2>2, <2>7, <3>2
    <3>3. QED
      BY <3>1, <3>2 DEF HeldContent
  <2>8. CASE /\ adoption.pc = "claim" /\ adoption.matches /\ UNCHANGED managedRecords
             /\ adoption'.id = adoption.id /\ adoption'.key = adoption.key
             /\ adoption'.content = adoption.content
    BY <2>2, <2>8 DEF Holding
  <2>9. QED
    BY <1>4, <2>3, <2>4, <2>5, <2>6, <2>7, <2>8, RunMoves
<1>5. QED
  BY <1>3, <1>4 DEF AdoptionNext

\* An adoption marks a record nobody knows, and writes down the one it holds.
LEMMA AgreeBesideRun ==
    ASSUME AdoptionInv, MarkInv, IdsOK, HeldContent, AgreeInv,
           AdoptionStep \/ UNCHANGED adoptionVars
    PROVE  AgreeInv'
<1> USE DEF others
<1>1. /\ UNCHANGED others
      /\ UNCHANGED provider \/ (adoption.pc = "mark" /\ Marked)
      /\ \/ UNCHANGED managedRecords
         \/ adoption.pc = "insert" /\ AdoptionBatch
  BY AdoptionShape DEF AdoptionInv
<1>2. StandInv
  BY DEF MarkInv, KeptInv
<1>3. ASSUME NEW k \in Key PROVE AgreesAt(k)'
  <2>1. \A o \in Op : /\ Carried(o, k)' <=> Carried(o, k)
                      /\ intentActions'[o][k] = intentActions[o][k]
    BY <1>1 DEF Carried
  <2>2. AgreesAt(k)
    BY DEF AgreeInv
  <2>3. CASE managedRecords'[k] = managedRecords[k] /\ provider'[k] \subseteq provider[k]
    <3>1. Agrees(k) => Agrees(k)'
      BY <2>3 DEF Agrees
    <3>2. QED
      BY <2>1, <2>2, <2>3, <3>1 DEF AgreesAt
  <2>4. CASE UNCHANGED provider /\ managedRecords'[k] # managedRecords[k]
    <3>1. adoption.pc = "insert" /\ AdoptionBatch
      BY <1>1, <2>4
    <3>2. /\ k = adoption.key /\ managedRecords[k] = NoRow
          /\ managedRecords'[k].id = adoption.id
          /\ managedRecords'[k].content = adoption.content
      BY <2>4, <3>1, BatchMoves
    <3>3. \A p \in provider[k] : p.id = adoption.id => p.content = adoption.content
      BY <3>1, <3>2 DEF HeldContent, Holding, Row
    <3>4. Agrees(k)'
      BY <2>4, <3>2, <3>3 DEF Agrees
    <3>5. QED
      BY <2>1, <2>2, <2>4, <3>4 DEF AgreesAt
  <2>5. CASE adoption.pc = "mark" /\ Marked /\ k = adoption.key
    <3> DEFINE u == adoption.id
               new == [id |-> u, content |-> adoption.content, rev |-> 0]
    <3>1. /\ u \in Unmanaged /\ u \in Key /\ <<k, u>> \in Targets
          /\ SetOf[k] = SetOf[u] /\ k \notin Unmanaged
      BY <2>5, AdoptionAssumption DEF AdoptionInv, Aimed
    <3>2. provider'[k] \subseteq provider[k] \cup {new} /\ new.id = u
      BY <2>5 DEF Marked
    <3>3. At(u, u)
      <4>1. PICK j \in Key : At(u, j)
        BY <2>5 DEF Marked, At
      <4>2. j = u \/ <<j, u>> \in Targets
        BY <1>2, <3>1, <4>1 DEF StandInv, StandsAt, Placed
      <4>3. QED
        BY <2>5, <4>1, <4>2, AdoptionAssumption DEF AdoptionInv, StillFree, At
    <3>4. ~Row(k, u) /\ \A o \in Op : mutationIntents[o][k] = "absent"
      BY <1>2, <3>1, <3>3 DEF StandInv, StandsAt, Unmarked, Respected, KeysOf
    <3>5. \A o \in Op : ~Carried(o, k)
      BY <3>4 DEF Carried
    <3>6. UNCHANGED managedRecords
      BY <1>1, <2>5
    <3> HIDE DEF new
    <3>7. Agrees(k)'
      BY <2>2, <3>2, <3>4, <3>5, <3>6 DEF Agrees, AgreesAt, Row
    <3>8. QED
      BY <2>1, <3>5, <3>7 DEF AgreesAt
  <2>6. CASE adoption.pc = "mark" /\ Marked /\ k # adoption.key
    <3>1. provider'[k] \subseteq provider[k] /\ UNCHANGED managedRecords
      BY <1>1, <2>6 DEF Marked
    <3>2. QED
      BY <2>3, <3>1
  <2>7. QED
    BY <1>1, <2>3, <2>4, <2>5, <2>6
<1>4. QED
  BY <1>3 DEF AgreeInv

-----------------------------------------------------------------------------
(* The rows of the path and of adoptions name marked records *)

PlaceInv == /\ NamedInv /\ IdsOK /\ AgreeInv
            /\ AdoptedInv /\ OwnTrace /\ HeldContent

LEMMA PlaceNext ==
    ASSUME OneGrantee, OperatorWaits, OperatorCompares, "drift" \notin Faults
    PROVE  AdoptionInv /\ LocksCoverIntents /\ MarkInv /\ PlaceInv
             /\ [AdoptionNext]_adoptionVars => PlaceInv'
<1> SUFFICES ASSUME AdoptionInv, LocksCoverIntents, MarkInv, PlaceInv,
                    [AdoptionNext]_adoptionVars
             PROVE  PlaceInv'
  OBVIOUS
<1>1. /\ IInv /\ ExecInv /\ ChangeInv /\ SeenInv /\ Backed /\ StandInv
      /\ NamedInv /\ IdsOK /\ AgreeInv /\ AdoptedInv /\ OwnTrace /\ HeldContent
  BY DEF AdoptionInv, MarkInv, KeptInv, PlaceInv
<1>2. AdoptedInv' /\ OwnTrace' /\ HeldContent'
  BY <1>1, AdoptedNext, OwnTraceNext, HeldNext
<1>3. CASE MutationPath
  <2>1. [Next]_vars
    BY <1>3, PathIsNext
  <2>2. NamedInv' /\ IdsOK'
    BY <1>1, <1>3, <2>1, NamedPath, IdsNext
  <2>3. ASSUME NEW k \in Key PROVE AgreesAt(k)'
    <3>1. AgreesAt(k) /\ KeyStep(k)
      BY <1>1, <2>1, KeySteps DEF AgreeInv
    <3>2. QED
      BY <1>1, <2>2, <3>1, AgreesNext
  <2>4. QED
    BY <1>2, <2>2, <2>3 DEF AgreeInv, PlaceInv
<1>4. CASE AdoptionStep \/ UNCHANGED adoptionVars
  BY <1>1, <1>2, <1>4, NamedBesideRun, IdsBesideRun, AgreeBesideRun DEF PlaceInv
<1>5. QED
  BY <1>3, <1>4 DEF AdoptionNext

LEMMA PlaceInit == AdoptionInit => PlaceInv
<1> SUFFICES ASSUME AdoptionInit PROVE PlaceInv
  OBVIOUS
<1>1. /\ \A r \in Req : req[r] = Fresh("lookup")
      /\ \A o \in Op, k \in Key : /\ mutationIntents[o][k] = "absent"
                                  /\ intentActions[o][k].action = "none"
                                  /\ wire[o][k] = "idle"
      /\ adoption = Idle
  BY DEF AdoptionInit, StoreInit
<1>2. /\ \A k \in Key : managedRecords[k] # NoRow =>
            managedRecords[k].id = k /\ managedRecords[k].content = InitialContent[k]
      /\ \A k \in Key : \A p \in provider[k] :
            p.id = k /\ p.content = InitialContent[k] /\ p.rev = 0
      /\ \A u \in Unmanaged : managedRecords[u] = NoRow
  BY AdoptionAssumption DEF AdoptionInit, StoreInit
<1>3. NamedInv
  <2>1. /\ \A k \in Key : k \in Names(k)
        /\ \A r \in Req, k \in Key : req[r].owned[k] = NoRow
        /\ \A o \in Op, k \in Key : intentActions[o][k].action # "update"
    BY <1>1 DEF Names, Fresh
  <2>2. \A k \in Key : /\ \A p \in provider[k] : p.id = k
                       /\ managedRecords[k] # NoRow => managedRecords[k].id = k
    BY <1>2
  <2>3. QED
    BY <2>1, <2>2 DEF NamedInv
<1>4. IdsOK
  <2>1. \A k \in Key : \A p, q \in provider[k] : p = q
    BY <1>2 DEF AdoptionInit
  <2>2. QED
    BY <1>2, <2>1, IdAssumption DEF IdsOK
<1>5. AgreeInv
  <2>1. \A k \in Key, o \in Op : ~Carried(o, k)
    BY <1>1 DEF Carried
  <2>2. ASSUME NEW k \in Key, managedRecords[k] # NoRow, NEW p \in provider[k]
        PROVE  p.content = managedRecords[k].content
    <3>1. p.content = InitialContent[k] /\ managedRecords[k].content = InitialContent[k]
      BY <1>2, <2>2
    <3>2. QED
      BY <3>1
  <2>3. QED
    BY <2>1, <2>2 DEF AgreeInv, AgreesAt, Agrees
<1>6. AdoptedInv
  BY <1>1 DEF AdoptedInv, Adopted
<1>7. ~Holding
  BY <1>1 DEF Holding, Idle
<1>8. OwnTrace
  <2>1. \A u \in Unmanaged, k \in Key : ~Row(k, u)
    <3> SUFFICES ASSUME NEW u \in Unmanaged, NEW k \in Key, Row(k, u) PROVE FALSE
      OBVIOUS
    <3>1. managedRecords[k] # NoRow /\ managedRecords[k].id = k /\ k = u
      BY <1>2 DEF Row
    <3>2. QED
      BY <1>2, <3>1
  <2>2. \A r \in Req, k \in Key : req[r].owned[k] = NoRow
    BY <1>1 DEF Fresh
  <2>3. \A o \in Op, k \in Key : intentActions[o][k].action # "update"
    BY <1>1
  <2>4. QED
    BY <1>7, <2>1, <2>2, <2>3 DEF OwnTrace, Trace, RowSeen
<1>9. QED
  BY <1>3, <1>4, <1>5, <1>6, <1>7, <1>8 DEF PlaceInv, HeldContent

LEMMA MarkedRows ==
    ASSUME AdoptionInv, LocksCoverIntents, PlaceInv
    PROVE  RowsAreMarked
<1> SUFFICES ASSUME NEW k \in Key, managedRecords[k] # NoRow,
                    operationLocks[SetOf[k]] = NoOp,
                    NEW j \in KeysOf(SetOf[k]), NEW p \in provider[j],
                    p.id = managedRecords[k].id
             PROVE  j = k /\ p.content = managedRecords[k].content
  BY DEF RowsAreMarked
<1>1. \A o \in Op : ~Carried(o, k)
  BY StoreAssumption DEF Carried, LocksCoverIntents, Settled
<1>2. Agrees(k)
  BY <1>1 DEF PlaceInv, AgreeInv, AgreesAt
<1>3. j \in Key
  BY DEF KeysOf
<1>4. j = k
  <2> SUFFICES ASSUME j # k PROVE FALSE
    OBVIOUS
  <2>1. p.id \in Names(j) /\ p.id \in Names(k)
    BY <1>3 DEF PlaceInv, NamedInv
  <2>2. p.id \in Unmanaged
    BY <1>3, <2>1, NamesApart
  <2>3. Trace(k, p.id) /\ At(p.id, j)
    BY DEF Trace, Row, At
  <2>4. QED
    BY <1>3, <2>2, <2>3 DEF PlaceInv, OwnTrace
<1>5. QED
  BY <1>2, <1>4 DEF Agrees

\* However adoptions and applies run, fail and are decided about, outside the locks
\* a row of D1 and the record it names have the same key and the same content, so
\* that no row was inserted for a record that had lost the row's metadata
\* (adoptRecord, adopt.js:136): as long as the record sets of what is adopted are
\* granted to one repository each, nobody edits the records by hand, and an operator
\* lets a call land before deciding and compares all of the record.
THEOREM RowsStayMarked ==
    ASSUME OneGrantee, OperatorWaits, OperatorCompares, "drift" \notin Faults
    PROVE  AdoptionSpec => []RowsAreMarked
<1>1. AdoptionInv /\ MarkInv /\ [AdoptionNext]_adoptionVars => MarkInv'
  BY MarkNext
<1>2. AdoptionInv /\ LocksCoverIntents /\ MarkInv /\ PlaceInv
        /\ [AdoptionNext]_adoptionVars => PlaceInv'
  BY PlaceNext
<1>3. AdoptionInv /\ LocksCoverIntents /\ PlaceInv => RowsAreMarked
  BY MarkedRows
<1>4. QED
  BY <1>1, <1>2, <1>3, MarkInit, PlaceInit, AdoptionInvariant,
     LocksCoverBesideAdoption, PTL DEF AdoptionSpec
=============================================================================
