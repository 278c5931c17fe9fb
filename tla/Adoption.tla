------------------------------ MODULE Adoption ------------------------------
(***************************************************************************)
(* Adoption (src/admin/adopt.js, scripts/adopt-record.js): an admin makes  *)
(* one record that exists at the provider a managed record.  The record is *)
(* read and checked, marked with the key's metadata at the provider, then  *)
(* inserted into D1, while apply requests run: no operation lock is looked *)
(* at.  The dry run the script makes first writes nothing and repeats the  *)
(* same checks, and is left out.                                           *)
(*                                                                         *)
(* The administrative workflows share one concurrency group                *)
(* (examples/github-workflows), so one adoption runs at a time, and no     *)
(* operator decides while it does.  A run can be cut at any await.         *)
(***************************************************************************)
EXTENDS FlareForm

CONSTANTS
    Unmanaged, \* stand-ins for the keys of records without metadata
    Targets    \* the (key, record) pairs admins adopt

ASSUME AdoptionAssumption ==
    /\ Unmanaged \subseteq Key \ InitialKeys
    /\ Targets \subseteq (Key \ (Unmanaged \cup InitialKeys)) \X Unmanaged
    /\ \A t \in Targets : SetOf[t[1]] = SetOf[t[2]]
    /\ \A u \in Unmanaged, o \in Op : OwnerOf[u] # RepoOf[o]

VARIABLE adoption \* the run of the script: what it read, and where it is

AdoptionState ==
    [pc: {"idle", "list", "rows", "claim", "mark", "insert"},
     key: Key \cup {NoKey},                \* the client key to adopt under
     id: RecordId \cup {NoRow},            \* the record to adopt
     content: Content \cup {NoContent},    \* its content when it was read
     matches: BOOLEAN,                     \* metadataMatches
     row: ManagedRow \cup {NoRow},         \* existingKey
     claim: ClaimRow \cup {NoClaim}]       \* the claim of its record set
Idle == [pc |-> "idle", key |-> NoKey, id |-> NoRow, content |-> NoContent,
         matches |-> FALSE, row |-> NoRow, claim |-> NoClaim]

AdoptionInit ==
    /\ StoreInit
    /\ provider = [k \in Key |->
                     IF k \in InitialKeys \cup Unmanaged
                     THEN {[id |-> k, content |-> InitialContent[k], rev |-> 0]}
                     ELSE {}]
    /\ wire = [o \in Op |-> [k \in Key |-> "idle"]]
    /\ req = [r \in Req |-> Fresh("lookup")]
    /\ policy = 0
    /\ faults = 0
    /\ adoption = Idle

running == <<tables, world, req>>

-----------------------------------------------------------------------------
(* prepareAdoption *)

\* The script is started for a record. Repository, zone and grant are checked
\* before anything else is read: a refused run is one that never starts.
Begins(t) ==
    /\ adoption = Idle
    /\ adoption' = [Idle EXCEPT !.pc = "list", !.key = t[1], !.id = t[2]]
    /\ UNCHANGED running

Continues(step) == adoption' = [adoption EXCEPT !.pc = step]
Ends == adoption' = Idle

\* The records of the key's set with the wanted identifier that carry the
\* metadata of a key in ks.
Listed(ks) ==
    {p \in UNION {provider[k] : k \in ks \cap KeysOf(SetOf[adoption.key])} :
        p.id = adoption.id}

\* Mutant: the metadata of another key is taken for none.
ListAnyRecord ==
    /\ adoption.pc = "list"
    /\ \E own \in BOOLEAN :
          \E p \in Listed(IF own THEN {adoption.key} ELSE Key \ {adoption.key}) :
             adoption' = [adoption EXCEPT !.pc = "rows", !.content = p.content,
                                          !.matches = own]
    /\ UNCHANGED running

\* listRecords, and the metadata of the record found: this key's, none, or
\* another one's, which ends the run as a record that is not there does.
ListRecord ==
    /\ adoption.pc = "list"
    /\ \/ \E own \in BOOLEAN : \E p \in Listed(IF own THEN {adoption.key}
                                              ELSE Unmanaged) :
             adoption' = [adoption EXCEPT !.pc = "rows", !.content = p.content,
                                          !.matches = own]
       \/ Listed(Unmanaged \cup {adoption.key}) = {} /\ Ends
    /\ UNCHANGED running

\* The row of the key, and the row of the record.
ReadRows ==
    LET k == adoption.key
        row == managedRecords[k]
        conflict ==
          \/ row # NoRow /\ row.id # adoption.id
          \/ \E j \in Key \ {k} : /\ managedRecords[j] # NoRow
                                  /\ managedRecords[j].id = adoption.id
                                  /\ KeyZone(j) = KeyZone(k)
    IN  /\ adoption.pc = "rows"
        /\ \/ ~conflict /\ adoption' = [adoption EXCEPT !.pc = "claim", !.row = row]
           \/ conflict /\ Ends
        /\ UNCHANGED running

Own == [repo |-> OwnerOf[adoption.key], state |-> "active"]

\* Mutant: a record is inserted before it is marked.
ReadClaimInsert ==
    LET claim == recordClaims[SetOf[adoption.key]]
    IN  /\ adoption.pc = "claim"
        /\ \/ /\ adoption.row = NoRow
              /\ claim = NoClaim \/ claim = Own
              /\ adoption' = [adoption EXCEPT !.pc = "insert", !.claim = claim]
           \/ (adoption.row # NoRow \/ claim \notin {NoClaim, Own}) /\ Ends
        /\ UNCHANGED running

\* The claim of the set must be this repository's, active, and taken for this
\* very record, by its row or by its metadata. A key that has its row is adopted
\* already: nothing is left to do.
Claimable(claim) == claim = NoClaim \/ (claim = Own /\ adoption.matches)
ReadClaim ==
    LET claim == recordClaims[SetOf[adoption.key]]
    IN  /\ adoption.pc = "claim"
        /\ \/ /\ adoption.row = NoRow /\ Claimable(claim)
              /\ adoption' = [adoption EXCEPT !.claim = claim,
                                !.pc = IF adoption.matches THEN "insert" ELSE "mark"]
           \/ (adoption.row # NoRow \/ ~Claimable(claim)) /\ Ends
        /\ UNCHANGED running

-----------------------------------------------------------------------------
(* adoptRecord *)

\* The patch of the record, wherever it is now: it writes the content read, and
\* the metadata of the key.
Marked ==
    LET Others(k) == {p \in provider[k] : p.id # adoption.id}
        new == [id |-> adoption.id, content |-> adoption.content, rev |-> 0]
    IN  /\ \E k \in Key : Others(k) # provider[k]
        /\ provider' = [k \in Key |-> IF k = adoption.key THEN Others(k) \cup {new}
                                      ELSE Others(k)]

MarkRecord ==
    /\ adoption.pc = "mark"
    /\ \/ Marked /\ Continues("insert")
       \/ /\ \A k \in Key : \A p \in provider[k] : p.id # adoption.id
          /\ Ends
          /\ UNCHANGED provider
    /\ UNCHANGED <<tables, wire, req, policy, faults>>

\* The batch: a claim when none was seen, which the key of the table admits once,
\* and the row, selected from the repository's own active claim.
ClaimsAfter(state) ==
    IF adoption.claim = NoClaim
    THEN [recordClaims EXCEPT ![SetOf[adoption.key]] =
            [repo |-> OwnerOf[adoption.key], state |-> state]]
    ELSE recordClaims
RowsAfter(state) ==
    IF ClaimsAfter(state)[SetOf[adoption.key]] = Own
    THEN [managedRecords EXCEPT ![adoption.key] =
            [id |-> adoption.id, content |-> adoption.content]]
    ELSE managedRecords

\* What the keys of record_claims and managed_records admit.
Adoptable ==
    /\ adoption.claim = NoClaim => recordClaims[SetOf[adoption.key]] = NoClaim
    /\ \A k \in Key : managedRecords[k] # NoRow =>
          /\ k # adoption.key
          /\ KeyZone(k) = KeyZone(adoption.key) => managedRecords[k].id # adoption.id

\* Mutant: the claim is reserved, as an apply reserves it.
AdoptionBatchReserving ==
    /\ Adoptable
    /\ recordClaims' = ClaimsAfter("reserved")
    /\ managedRecords' = RowsAfter("reserved")
    /\ UNCHANGED <<operations, operationZones, operationLocks, mutationIntents,
                   intentActions, oidcJti>>

AdoptionBatch ==
    /\ Adoptable
    /\ recordClaims' = ClaimsAfter("active")
    /\ managedRecords' = RowsAfter("active")
    /\ UNCHANGED <<operations, operationZones, operationLocks, mutationIntents,
                   intentActions, oidcJti>>

\* The batch is made or aborted; whether the row reads back only decides what the
\* admin is told.
InsertRecord ==
    /\ adoption.pc = "insert"
    /\ AdoptionBatch \/ (~Adoptable /\ UNCHANGED tables)
    /\ Ends
    /\ UNCHANGED <<world, req>>

-----------------------------------------------------------------------------
(* Faults *)

\* The patch is refused, or is made and its answer lost.
MarkFails ==
    /\ Inject("write")
    /\ adoption.pc = "mark"
    /\ Marked \/ UNCHANGED provider
    /\ Ends
    /\ UNCHANGED <<tables, wire, req, policy>>

\* So is the batch.
InsertFails ==
    /\ Inject("d1")
    /\ adoption.pc = "insert"
    /\ AdoptionBatch \/ UNCHANGED tables
    /\ Ends
    /\ UNCHANGED <<provider, wire, req, policy>>

\* The job is cancelled, or a read or an audit row it needs fails.
AdoptionCut ==
    /\ Inject("crash")
    /\ adoption # Idle
    /\ Ends
    /\ UNCHANGED <<tables, provider, wire, req, policy>>

-----------------------------------------------------------------------------
Adopt == ListRecord \/ ReadRows \/ ReadClaim \/ MarkRecord \/ InsertRecord
AdoptionStep ==
    \/ \E t \in Targets : Begins(t)
    \/ Adopt \/ MarkFails \/ InsertFails \/ AdoptionCut

\* Everyone else: operators wait for the administrative workflow to be idle.
MutationPath ==
    /\ \/ \E r \in Req : RequestStep(r) \/ RequestFault(r)
       \/ \E o \in Op, k \in Key : \/ ProviderApply(o, k)
                                   \/ adoption = Idle /\ OperatorStep(o, k)
       \/ Environment
    /\ UNCHANGED adoption

adoptionVars == <<vars, adoption>>
AdoptionNext == AdoptionStep \/ MutationPath
AdoptionSpec == AdoptionInit /\ [][AdoptionNext]_adoptionVars

-----------------------------------------------------------------------------
(* Safety *)

AdoptionTypeOK == TypeOK /\ adoption \in AdoptionState

\* Outside the locks, D1 and the provider name one key for every record of D1
\* that is there, and agree on its content: an adoption cut anywhere never leaves
\* a row for a record without the row's metadata (adoptRecord).
RowsAreMarked ==
    \A k \in Key :
        managedRecords[k] # NoRow /\ operationLocks[SetOf[k]] = NoOp =>
            \A j \in KeysOf(SetOf[k]) : \A p \in provider[j] :
                p.id = managedRecords[k].id =>
                    j = k /\ p.content = managedRecords[k].content

\* "metadata success plus D1 failure is audited and resumable"
\* (adopt.test.js:167): whatever runs after it, the same adoption can still insert
\* a record that was marked.
MarkedIsAdoptable ==
    \A k \in Key : \A p \in provider[k] :
        p.id \in Unmanaged /\ k \notin Unmanaged /\ managedRecords[k] = NoRow
        /\ operationLocks[SetOf[k]] = NoOp
        => recordClaims[SetOf[k]] \in
             {NoClaim, [repo |-> OwnerOf[k], state |-> "active"]}

\* A record that was marked for one key is never marked for another, however often
\* adoptions of it are cut and started (adopt.js:136).
MarkStays ==
    [][\A k \in Key \ Unmanaged : \A p \in provider[k] :
          p.id \in Unmanaged =>
             \A j \in Key \ {k} : \A q \in provider'[j] : q.id # p.id]_adoptionVars

\* "FlareForm never automatically adopts an existing unmanaged record"
\* (README.md:15): nothing is sent for a record set while one is in it.
NothingBesideUnmanaged ==
    \A o \in Op, k \in Key :
        wire[o][k] = "flying" =>
            \A u \in Unmanaged \cap KeysOf(SetOf[k]) : provider[u] = {}

-----------------------------------------------------------------------------
(* What the documentation says and the code does not keep *)

\* Admins start every adoption again and again, and complete what they start.
FairAdoptionSpec ==
    /\ AdoptionSpec
    /\ WF_adoptionVars(Adopt)
    /\ \A t \in Targets : SF_adoptionVars(Begins(t))

\* "For each exact existing record, run `scripts/adopt-record.js` [...] then adopt
\* that one record" (docs/migration.md:21): each record can be adopted.
EachIsAdopted == \A t \in Targets : <>(managedRecords[t[1]] # NoRow)
=============================================================================
