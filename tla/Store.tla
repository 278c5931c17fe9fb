------------------------------- MODULE Store -------------------------------
(***************************************************************************)
(* The D1 database behind the Worker: the tables an apply operation moves  *)
(* (migrations/0001 and 0003), the triggers that guard them, and the       *)
(* statements and atomic batches of src/db/repository.js.  A D1 batch runs *)
(* all its statements or none, so every batch is one operator: the first   *)
(* conjuncts say when no trigger, key or foreign key aborts it, the primed *)
(* variables what it writes.  A batch whose guard is false changes nothing *)
(* and throws; the callers decide what the exception does.                 *)
(*                                                                         *)
(* Data that no property tells apart is abstracted: a record set stands    *)
(* for a (zone, name, type) triple, a key for the pair of a repository and *)
(* a client key, and a value for a record's content, ttl and proxied flag. *)
(* Audit rows are append-only evidence and are left out.                   *)
(***************************************************************************)
EXTENDS Naturals, FiniteSets

CONSTANTS
    Op,           \* logical operations: (repository, run, attempt, type, manifest)
    Repo,         \* rows of repositories
    Zone,         \* rows of zones
    RecordSet,    \* (zone, name, type) triples
    Key,          \* (repository, client key) pairs
    Content,      \* record values a manifest can ask for
    Token,        \* OIDC token identifiers (jti)
    RepoOf,       \* the repository of each operation
    OwnerOf,      \* the repository of each key
    ZoneOf,       \* the zone of each record set
    SetOf,        \* the record set of each key
    Desired,      \* Desired[o][k]: what o's manifest asks for, or NoContent
    InitialKeys,  \* keys adopted or created before the behaviour starts
    InitialContent, \* their content
    MaxPolicy,    \* bound: how often the trusted policy is synchronised
    MaxRevision,  \* bound: how many out-of-band edits are told apart
    NoOp, NoClaim, NoContent, NoRow

ASSUME StoreAssumption ==
    /\ RepoOf \in [Op -> Repo]
    /\ OwnerOf \in [Key -> Repo]
    /\ ZoneOf \in [RecordSet -> Zone]
    /\ SetOf \in [Key -> RecordSet]
    /\ NoContent \notin Content
    /\ Desired \in [Op -> [Key -> Content \cup {NoContent}]]
    /\ \A o \in Op, k \in Key :
          Desired[o][k] # NoContent => OwnerOf[k] = RepoOf[o]
    /\ InitialKeys \subseteq Key
    /\ InitialContent \in [Key -> Content]
    /\ \A j, k \in InitialKeys : SetOf[j] = SetOf[k] => OwnerOf[j] = OwnerOf[k]
    /\ MaxPolicy \in Nat
    /\ MaxRevision \in Nat
    /\ NoOp \notin Op

VARIABLES
    operations,      \* [status, policy, digest] of each operation row
    operationZones,  \* checkpoint status of each (operation, zone) row
    operationLocks,  \* the operation holding each record set
    recordClaims,    \* the repository owning each record set
    managedRecords,  \* the provider record D1 believes each owned key has
    mutationIntents, \* status of each (operation, key) intent
    intentActions,   \* its action and target (cloudflare_record_id) columns
    oidcJti          \* consumed tokens

tables == <<operations, operationZones, operationLocks, recordClaims,
            managedRecords, mutationIntents, intentActions, oidcJti>>

-----------------------------------------------------------------------------
(* Row types *)

\* "absent" stands for a row that does not exist.
OperationStatus == {"absent", "reserved", "running", "partial", "complete",
                    "indeterminate", "reconciled"}
ZoneStatus == {"absent", "pending", "failed", "success", "indeterminate",
               "reconciled"}
IntentStatus == {"absent", "prepared", "sent", "confirmed", "indeterminate",
                 "resolved"}
Action == {"create", "update", "delete"}

\* A provider record: its identifier, which no two records share, its content, and
\* what wrote it last (modified_on), a positive number being an edit made outside
\* FlareForm.  Identifiers are named after the change that created the record, or
\* after its key, for a record that was there at the start.  A view gives the
\* records that carry the metadata of each key.
NewId(o, k) == <<o, k>>
RecordId == Key \cup {NewId(o, k) : o \in Op, k \in Key}
Revision == Op \cup 0..MaxRevision
ProviderRecord == [id: RecordId, content: Content, rev: Revision]
ProviderView == [Key -> SUBSET ProviderRecord]
ManagedRow == [id: RecordId, content: Content]
IntentColumns == [action: Action \cup {"none"}, target: RecordId \cup {NoRow}]

OperationRow == [status: OperationStatus, policy: 0..MaxPolicy,
                 digest: ProviderView]
ClaimRow == [repo: Repo, state: {"reserved", "active"}]

\* What is created never goes by the identifier of a record that was there before.
ASSUME IdAssumption == \A o \in Op, k \in Key : NewId(o, k) \notin Key

\* A row that does not exist is told apart from every row.
ASSUME RowAssumption == NoClaim \notin ClaimRow /\ NoRow \notin ManagedRow

StoreTypeOK ==
    /\ operations \in [Op -> OperationRow]
    /\ operationZones \in [Op -> [Zone -> ZoneStatus]]
    /\ operationLocks \in [RecordSet -> Op \cup {NoOp}]
    /\ recordClaims \in [RecordSet -> ClaimRow \cup {NoClaim}]
    /\ managedRecords \in [Key -> ManagedRow \cup {NoRow}]
    /\ mutationIntents \in [Op -> [Key -> IntentStatus]]
    /\ intentActions \in [Op -> [Key -> IntentColumns]]
    /\ oidcJti \subseteq Token

KeyZone(k) == ZoneOf[SetOf[k]]
KeysOf(s) == {k \in Key : SetOf[k] = s}
NothingSeen == [k \in Key |-> {}]

StoreInit ==
    /\ operations = [o \in Op |-> [status |-> "absent", policy |-> 0,
                                   digest |-> NothingSeen]]
    /\ operationZones = [o \in Op |-> [z \in Zone |-> "absent"]]
    /\ operationLocks = [s \in RecordSet |-> NoOp]
    /\ recordClaims =
          [s \in RecordSet |->
             IF InitialKeys \cap KeysOf(s) = {} THEN NoClaim
             ELSE [repo |-> OwnerOf[CHOOSE k \in InitialKeys \cap KeysOf(s) : TRUE],
                   state |-> "active"]]
    /\ managedRecords =
          [k \in Key |-> IF k \in InitialKeys
                         THEN [id |-> k, content |-> InitialContent[k]] ELSE NoRow]
    /\ mutationIntents = [o \in Op |-> [k \in Key |-> "absent"]]
    /\ intentActions = [o \in Op |-> [k \in Key |-> [action |-> "none",
                                                  target |-> NoRow]]]
    /\ oidcJti = {}

-----------------------------------------------------------------------------
(* Triggers *)

\* Mutant: the lock is replaced where one exists.
LockReplaced(o, s) ==
    recordClaims[s] \in {NoClaim, [repo |-> RepoOf[o], state |-> "active"]}

\* validate_operation_lock, and the primary key of operation_locks.
LockInsertable(o, s) ==
    /\ operationLocks[s] = NoOp
    /\ recordClaims[s] \in {NoClaim, [repo |-> RepoOf[o], state |-> "active"]}

\* validate_mutation_status.
StatusTransition(old, new) ==
    <<old, new>> \in {<<"prepared", "sent">>, <<"sent", "confirmed">>,
                      <<"sent", "indeterminate">>,
                      <<"indeterminate", "resolved">>}

\* The intents that keep validate_lock_release from letting a zone's locks go.
Settled == {"absent", "confirmed", "resolved"}
ZoneSettled(o, z) ==
    \A k \in Key : KeyZone(k) = z => mutationIntents[o][k] \in Settled

\* Mutant: the deletion of locks forgets the zone.
LocksAnywhere(o, z) == {s \in RecordSet : operationLocks[s] = o}

LocksIn(o, z) == {s \in RecordSet : operationLocks[s] = o /\ ZoneOf[s] = z}

-----------------------------------------------------------------------------
(* Statements and batches *)

\* Mutant: the table has no primary key.
RecordToken(t) == oidcJti' = oidcJti \cup {t}

\* INSERT INTO oidc_jti: the primary key admits a token once.
ConsumeToken(t) == t \notin oidcJti /\ oidcJti' = oidcJti \cup {t}

\* reserveOperation: operation row, token, checkpoints, locks and new claims.
ReserveBatch(o, t, zones, sets, newClaims, version, digest) ==
    /\ operations[o].status = "absent"
    /\ \A s \in sets : LockInsertable(o, s)
    /\ \A s \in newClaims : recordClaims[s] = NoClaim
    /\ ConsumeToken(t)
    /\ operations' = [operations EXCEPT ![o] =
                        [status |-> "reserved", policy |-> version,
                         digest |-> digest]]
    /\ operationZones' = [operationZones EXCEPT ![o] =
                            [z \in Zone |-> IF z \in zones THEN "pending"
                                            ELSE "absent"]]
    /\ operationLocks' = [s \in RecordSet |-> IF s \in sets THEN o
                                              ELSE operationLocks[s]]
    /\ recordClaims' = [s \in RecordSet |->
                          IF s \in newClaims
                          THEN [repo |-> RepoOf[o], state |-> "reserved"]
                          ELSE recordClaims[s]]
    /\ UNCHANGED <<managedRecords, mutationIntents, intentActions>>

\* reserveOperation on an existing row records the token and nothing else.
ReuseBatch(o, t) ==
    /\ operations[o].status # "absent"
    /\ ConsumeToken(t)
    /\ UNCHANGED <<operations, operationZones, operationLocks, recordClaims,
                   managedRecords, mutationIntents, intentActions>>

SetStatus(o, status) == operations' = [operations EXCEPT ![o].status = status]
SetZone(o, z, status) ==
    operationZones' = [operationZones EXCEPT ![o][z] = status]
SetIntent(o, k, status) ==
    mutationIntents' = [mutationIntents EXCEPT ![o][k] = status]

\* Mutant: a running operation can be started again.
StartAgain(o) ==
    /\ operations[o].status \in {"reserved", "partial", "running"}
    /\ SetStatus(o, "running")
    /\ UNCHANGED <<operationZones, operationLocks, recordClaims, managedRecords,
                   mutationIntents, intentActions, oidcJti>>

\* startOperation: compare and set, so that one execution owns the operation.
StartStatement(o) ==
    /\ operations[o].status \in {"reserved", "partial"}
    /\ SetStatus(o, "running")
    /\ UNCHANGED <<operationZones, operationLocks, recordClaims, managedRecords,
                   mutationIntents, intentActions, oidcJti>>

\* beginMutationIntent, with validate_mutation_intent and the primary key.
BeginBatch(o, k, action, target) ==
    /\ mutationIntents[o][k] = "absent"
    /\ operationLocks[SetOf[k]] = o
    /\ SetIntent(o, k, "prepared")
    /\ intentActions' = [intentActions EXCEPT ![o][k] =
                           [action |-> action, target |-> target]]
    /\ UNCHANGED <<operations, operationZones, operationLocks, recordClaims,
                   managedRecords, oidcJti>>

\* markMutationSent: compare and set on the status column.
SentStatement(o, k) ==
    /\ mutationIntents[o][k] = "prepared"
    /\ SetIntent(o, k, "sent")
    /\ UNCHANGED <<operations, operationZones, operationLocks, recordClaims,
                   managedRecords, intentActions, oidcJti>>

\* The other keys of k's record set have no managed record.
OnlyRecord(k) == \A j \in KeysOf(SetOf[k]) \ {k} : managedRecords[j] = NoRow
HasTarget(o, k) ==
    managedRecords[k] # NoRow /\ managedRecords[k].id = intentActions[o][k].target
\* The claim of s is the operation's: what a batch does to a claim, and the row it
\* inserts under one, asks for claim and repository (the foreign key of
\* managed_records).
HasClaim(o, s) == recordClaims[s] # NoClaim /\ recordClaims[s].repo = RepoOf[o]

\* What validate_mutation_status and validate_mutation_confirmation admit.
Confirmable(o, k) ==
    /\ StatusTransition(mutationIntents[o][k], "confirmed")
    /\ IF intentActions[o][k].action = "delete"
       THEN managedRecords[k] # NoRow => HasTarget(o, k)
       ELSE operationLocks[SetOf[k]] = o /\ HasClaim(o, SetOf[k])

\* confirmMutation: a delete
\* drops the managed row and an empty claim, a create or update activates the
\* claim and writes the row of the record the provider answered with.
ConfirmBatch(o, k) ==
    LET row == intentActions[o][k]
        s == SetOf[k]
    IN  /\ Confirmable(o, k)
        /\ SetIntent(o, k, "confirmed")
        /\ \/ /\ row.action = "delete"
              /\ managedRecords' = [managedRecords EXCEPT ![k] = NoRow]
              /\ recordClaims' = [recordClaims EXCEPT ![s] =
                                    IF OnlyRecord(k) /\ HasClaim(o, s) THEN NoClaim ELSE @]
           \/ /\ row.action \in {"create", "update"}
              /\ recordClaims' = [recordClaims EXCEPT ![s] =
                                    [repo |-> RepoOf[o], state |-> "active"]]
              /\ managedRecords' =
                    [managedRecords EXCEPT ![k] =
                       [id |-> IF row.action = "create" THEN NewId(o, k) ELSE row.target,
                        content |-> Desired[o][k]]]
        /\ UNCHANGED <<operations, operationZones, operationLocks, intentActions,
                       oidcJti>>

\* Mutant: a failed change gives its lock back.
UnlockIndeterminate(o, k) ==
    /\ StatusTransition(mutationIntents[o][k], "indeterminate")
    /\ SetIntent(o, k, "indeterminate")
    /\ SetZone(o, KeyZone(k), "indeterminate")
    /\ SetStatus(o, "indeterminate")
    /\ operationLocks' = [operationLocks EXCEPT ![SetOf[k]] = NoOp]
    /\ UNCHANGED <<recordClaims, managedRecords, intentActions, oidcJti>>

\* markMutationIndeterminate: intent, zone and operation freeze together.
IndeterminateBatch(o, k) ==
    /\ StatusTransition(mutationIntents[o][k], "indeterminate")
    /\ SetIntent(o, k, "indeterminate")
    /\ SetZone(o, KeyZone(k), "indeterminate")
    /\ SetStatus(o, "indeterminate")
    /\ UNCHANGED <<operationLocks, recordClaims, managedRecords, intentActions,
                   oidcJti>>

\* Deleting the operation's lock rows of a zone, behind validate_lock_release.
ReleaseLocks(o, z) ==
    /\ LocksIn(o, z) # {} => ZoneSettled(o, z)
    /\ operationLocks' = [s \in RecordSet |-> IF s \in LocksIn(o, z) THEN NoOp
                                              ELSE operationLocks[s]]

\* Mutant: a finished zone keeps its locks.
FinishKeepingLocks(o, z) ==
    /\ SetZone(o, z, "success")
    /\ UNCHANGED <<operations, operationLocks, recordClaims, managedRecords,
                   mutationIntents, intentActions, oidcJti>>

\* finishZone.
FinishBatch(o, z) ==
    /\ ReleaseLocks(o, z)
    /\ SetZone(o, z, "success")
    /\ UNCHANGED <<operations, recordClaims, managedRecords, mutationIntents,
                   intentActions, oidcJti>>

\* markZoneFailed: refused once the zone has an intent; its UPDATE matches only
\* a pending row.
FailedBatch(o, z) ==
    /\ \A k \in Key : KeyZone(k) = z => mutationIntents[o][k] = "absent"
    /\ SetZone(o, z, IF operationZones[o][z] = "pending" THEN "failed"
                     ELSE operationZones[o][z])
    /\ UNCHANGED <<operations, operationLocks, recordClaims, managedRecords,
                   mutationIntents, intentActions, oidcJti>>

\* freezeZone.
FreezeBatch(o, z) ==
    /\ SetZone(o, z, IF operationZones[o][z] = "success" THEN "success"
                     ELSE "indeterminate")
    /\ SetStatus(o, "indeterminate")
    /\ UNCHANGED <<operationLocks, recordClaims, managedRecords,
                   mutationIntents, intentActions, oidcJti>>

\* updateOperation: an unconditional write of the status.
UpdateStatement(o, status) ==
    /\ SetStatus(o, status)
    /\ UNCHANGED <<operationZones, operationLocks, recordClaims, managedRecords,
                   mutationIntents, intentActions, oidcJti>>

-----------------------------------------------------------------------------
(* resolveMutationAdmin *)

Decision == {"confirm-provider", "confirm-no-change"}

\* Reserved claims under the operation's locks in z that it never got to use.
UnusedClaims(o, z) ==
    {s \in LocksIn(o, z) :
        /\ recordClaims[s] = [repo |-> RepoOf[o], state |-> "reserved"]
        /\ \A k \in KeysOf(s) : /\ mutationIntents[o][k] = "absent"
                                /\ managedRecords[k] = NoRow}

\* Mutant: a confirmed create or update leaves the managed row as it was.
RecordKept(o, k, decision, p) ==
    IF decision = "confirm-provider" /\ HasTarget(o, k)
       /\ intentActions[o][k].action = "delete"
    THEN NoRow ELSE managedRecords[k]

\* The record and the claim of k after the decision, p being the provider record
\* the operator confirmed (for a create or an update).
ResolvedRecord(o, k, decision, p) ==
    IF decision = "confirm-no-change" THEN managedRecords[k]
    ELSE IF intentActions[o][k].action # "delete"
         THEN [id |-> p.id, content |-> p.content]
         ELSE IF HasTarget(o, k) THEN NoRow ELSE managedRecords[k]

\* Mutant: any denied change frees the claim of a set without other records.
AnyDenialFrees(o, k) == OnlyRecord(k)

\* A denied create frees a reserved claim that no record uses.
DenialFrees(o, k) ==
    /\ intentActions[o][k].action = "create"
    /\ recordClaims[SetOf[k]].state = "reserved"
    /\ OnlyRecord(k) /\ managedRecords[k] = NoRow

ResolvedClaim(o, k, decision) ==
    LET claim == recordClaims[SetOf[k]]
        unowned == OnlyRecord(k) /\ (managedRecords[k] = NoRow \/ HasTarget(o, k))
    IN  CASE decision = "confirm-provider" /\ intentActions[o][k].action # "delete"
               -> [repo |-> RepoOf[o], state |-> "active"]
          [] decision = "confirm-provider" /\ intentActions[o][k].action = "delete"
               -> IF unowned THEN NoClaim ELSE claim
          [] decision = "confirm-no-change"
               -> IF DenialFrees(o, k) THEN NoClaim ELSE claim

\* The whole batch: the locks of the zone go once its last intent is settled,
\* then zone and operation become reconciled when no lock is left.
ResolveBatch(o, k, decision, p) ==
    LET z == KeyZone(k)
        settled == \A j \in Key \ {k} :
                      KeyZone(j) = z => mutationIntents[o][j] \in Settled
        kept == {s \in RecordSet : operationLocks[s] = o}
                  \ (IF settled THEN LocksIn(o, z) ELSE {})
    IN  /\ StatusTransition(mutationIntents[o][k], "resolved")
        /\ HasClaim(o, SetOf[k])
        /\ managedRecords' = [managedRecords EXCEPT ![k] =
                                ResolvedRecord(o, k, decision, p)]
        /\ recordClaims' = [s \in RecordSet |->
                              CASE s = SetOf[k] -> ResolvedClaim(o, k, decision)
                                [] s \in UnusedClaims(o, z) -> NoClaim
                                [] OTHER -> recordClaims[s]]
        /\ SetIntent(o, k, "resolved")
        /\ operationLocks' = [s \in RecordSet |->
                                IF operationLocks[s] = o /\ s \notin kept
                                THEN NoOp ELSE operationLocks[s]]
        /\ SetZone(o, z, IF \E s \in kept : ZoneOf[s] = z
                         THEN operationZones[o][z] ELSE "reconciled")
        /\ SetStatus(o, IF kept = {} THEN "reconciled" ELSE operations[o].status)
        /\ UNCHANGED <<intentActions, oidcJti>>
=============================================================================
