------------------------------- MODULE Apply -------------------------------
(***************************************************************************)
(* POST /v1/apply (src/api/apply.js) from the lookup of the operation to   *)
(* the response: the read-only preflight (src/dns/reconcile.js, state.js,  *)
(* plan.js), the admission (src/dns/admission.js), the zone executor       *)
(* (src/dns/execute.js, preflight.js) and the provider it calls.           *)
(*                                                                         *)
(* One action is one step between awaits whose order with other requests   *)
(* can matter.  Requests run concurrently over the tables of Store, on     *)
(* Worker isolates that can be lost at any await.  A request that fails    *)
(* before the admission has written nothing, and is a request that takes   *)
(* no further step.                                                        *)
(***************************************************************************)
EXTENDS Store

CONSTANTS
    Req,         \* HTTP requests, retries and duplicates included
    OpOf,        \* the logical operation a request names
    TokenOf,     \* the jti of its OIDC token
    PruneZones,  \* prune_zones of each operation's manifest
    MultiValued, \* record sets of a type that may hold several records
    Faults,      \* which faults the environment may inject
    MaxFaults,   \* bound: how many of them in a behaviour
    NoKey, NoZone

FaultKind == {"crash", "timeout", "read", "write", "d1", "drift", "sync"}

ASSUME ApplyAssumption ==
    /\ OpOf \in [Req -> Op]
    /\ TokenOf \in [Req -> Token]
    /\ PruneZones \in [Op -> SUBSET Zone]
    /\ MultiValued \subseteq RecordSet
    /\ Faults \subseteq FaultKind
    /\ MaxFaults \in Nat
    /\ MaxFaults <= MaxRevision
    /\ MaxFaults <= MaxPolicy

VARIABLES
    provider, \* the records at Cloudflare, by the key their metadata names
    wire,     \* the provider request of each intent
    req,      \* the local state of each request
    policy,   \* the version of the active policy
    faults    \* how many faults have been injected

vars == <<tables, provider, wire, req, policy, faults>>

-----------------------------------------------------------------------------
(* Types *)

WireStatus == {"idle", "flying", "applied", "rejected"}

\* Steps of a request that holds the operation after startOperation.
Executing == {"zones", "zone", "begin", "mark", "call", "await", "confirm",
              "unknown", "finish", "zoneError", "freeze", "update"}
Step == Executing \cup {"lookup", "owned", "listing", "classify", "admit",
                        "reserve", "start", "done"}

Request == [pc: Step,
            resumes: BOOLEAN,                    \* allowedOperationId is set
            version: 0..MaxPolicy,               \* prepared.version
            owned: [Key -> ManagedRow \cup {NoRow}], \* listOwnedRecords
            seen: ProviderView,                  \* listRecords of every zone
            claimed: SUBSET RecordSet,           \* sets found claimed
            zones: SUBSET Zone,                  \* zones still to visit
            zone: Zone \cup {NoZone},            \* the zone being executed
            keys: SUBSET Key,                    \* its changes still to make
            key: Key \cup {NoKey},               \* the change being made
            verdict: OperationStatus]            \* what the tally found

TypeOK ==
    /\ StoreTypeOK
    /\ provider \in ProviderView
    /\ wire \in [Op -> [Key -> WireStatus]]
    /\ req \in [Req -> Request]
    /\ policy \in 0..MaxPolicy
    /\ faults \in 0..MaxFaults

Fresh(step) == [pc |-> step, resumes |-> FALSE, version |-> 0,
                owned |-> [k \in Key |-> NoRow], seen |-> NothingSeen,
                claimed |-> {}, zones |-> {}, zone |-> NoZone, keys |-> {},
                key |-> NoKey, verdict |-> "absent"]

Init ==
    /\ StoreInit
    /\ provider = [k \in Key |-> IF k \in InitialKeys
                                 THEN {[id |-> k, content |-> InitialContent[k],
                                        rev |-> 0]}
                                 ELSE {}]
    /\ wire = [o \in Op |-> [k \in Key |-> "idle"]]
    /\ req = [r \in Req |-> Fresh("lookup")]
    /\ policy = 0
    /\ faults = 0

-----------------------------------------------------------------------------
(* Moving a request *)

Goto(r, step) == req' = [req EXCEPT ![r].pc = step]
Leave(r) == req' = [req EXCEPT ![r] = Fresh("done")]
NextZone(r) == req' = [req EXCEPT ![r].pc = "zones", ![r].zone = NoZone,
                                  ![r].keys = {}, ![r].key = NoKey,
                                  ![r].zones = @ \ {req[r].zone}]
KeyDone(r) == req' = [req EXCEPT ![r].pc = "zone", ![r].key = NoKey,
                                 ![r].keys = @ \ {req[r].key}]

Inject(kind) == kind \in Faults /\ faults < MaxFaults /\ faults' = faults + 1

world == <<provider, wire, policy, faults>>

-----------------------------------------------------------------------------
(* What a request computes from its snapshot *)

DesiredKeys(o) == {k \in Key : Desired[o][k] # NoContent}
OpZones(o) == {KeyZone(k) : k \in DesiredKeys(o)} \cup PruneZones[o]
PruneKeys(r) == {k \in Key : /\ req[r].owned[k] # NoRow
                             /\ KeyZone(k) \in PruneZones[OpOf[r]]
                             /\ k \notin DesiredKeys(OpOf[r])}
AffectedSets(r) == {SetOf[k] : k \in DesiredKeys(OpOf[r]) \cup PruneKeys(r)}

\* The record a change replaces: the provider record of the owned row.
Current(r, k) ==
    {p \in req[r].seen[k] : req[r].owned[k] # NoRow /\ p.id = req[r].owned[k].id}

\* buildPlan.
Change(r, k) ==
    LET o == OpOf[r]
    IN  CASE k \in PruneKeys(r) -> "delete"
          [] k \in DesiredKeys(o) /\ Current(r, k) = {} -> "create"
          [] k \in DesiredKeys(o) /\ Current(r, k) # {} ->
               IF \A p \in Current(r, k) : p.content = Desired[o][k]
               THEN "noop" ELSE "update"
          [] OTHER -> "none"
Mutations(r, z) ==
    {k \in Key : KeyZone(k) = z /\ Change(r, k) \in {"create", "update", "delete"}}

\* The records the state digests are computed over.
Digest(r) ==
    [k \in Key |->
       IF \/ \E j \in DesiredKeys(OpOf[r]) : SetOf[j] = SetOf[k]
          \/ k \in PruneKeys(r)
       THEN req[r].seen[k] ELSE {}]

\* Mutant: the records of a set are not counted.
OwnedVerified(s, owned, seen) ==
    \A k \in KeysOf(s) :
        owned[k] # NoRow => [id |-> owned[k].id, content |-> owned[k].content]
                              \in {[id |-> p.id, content |-> p.content] : p \in seen[k]}

\* verifyOwnership of every owned row of a set, and the count of its records:
\* the records seen are exactly the owned rows, with their contents.
SetVerified(s, owned, seen) ==
    \A k \in KeysOf(s) :
        /\ owned[k] = NoRow => seen[k] = {}
        /\ owned[k] # NoRow => \E p \in seen[k] : /\ seen[k] = {p}
                                                  /\ p.id = owned[k].id
                                                  /\ p.content = owned[k].content

\* listOwnedRecords: the rows of the repository's own keys.
OwnedRows(repo) == [k \in Key |-> IF OwnerOf[k] = repo THEN managedRecords[k]
                                  ELSE NoRow]

\* collectDnsState: no other operation holds the set.
LockAccepted(r, s) ==
    \/ operationLocks[s] = NoOp
    \/ operationLocks[s] = OpOf[r] /\ req[r].resumes

\* ... the claim of a desired key's set agrees with the owned rows and the
\* records, and the key fits among them: a set of one value holds this key's
\* record, and no other record of the set already has the value asked for.
KeyAccepted(r, k) ==
    LET o == OpOf[r]
        s == SetOf[k]
        claim == recordClaims[s]
        owned == req[r].owned
        seen == req[r].seen
        rows == {j \in KeysOf(s) : owned[j] # NoRow}
        reserved == /\ operationLocks[s] = o /\ req[r].resumes
                    /\ claim.state = "reserved" /\ rows = {}
    IN  \/ /\ claim = NoClaim
           /\ \A j \in KeysOf(s) : seen[j] = {}
           /\ owned[k] = NoRow
        \/ /\ claim # NoClaim /\ claim.repo = RepoOf[o]
           /\ SetVerified(s, owned, seen)
           /\ reserved \/ (claim.state = "active" /\ rows # {})
           /\ s \notin MultiValued => reserved \/ rows = {k}
           /\ owned[k] = NoRow => \A j \in KeysOf(s) : \A p \in seen[j] :
                                     p.content # Desired[o][k]

Accepted(r) ==
    /\ \A s \in AffectedSets(r) : LockAccepted(r, s)
    /\ \A k \in DesiredKeys(OpOf[r]) : KeyAccepted(r, k)
    /\ \A k \in PruneKeys(r) : SetVerified(SetOf[k], req[r].owned, req[r].seen)

-----------------------------------------------------------------------------
(* Preflight and admission *)

\* The policy is read, then the operation row: a row admitted under another
\* policy or plan is refused, and one that is running or settled is only
\* reported, at the price of the token.
Lookup(r) ==
    LET o == OpOf[r]
        row == operations[o]
        known == row.status # "absent"
    IN  /\ req[r].pc = "lookup"
        /\ \/ /\ known /\ row.policy # policy
              /\ Leave(r)
              /\ UNCHANGED tables
           \/ /\ row.policy = policy
              /\ row.status \in {"complete", "running", "indeterminate"}
              /\ Leave(r)
              /\ \/ ReuseBatch(o, TokenOf[r])
                 \/ /\ TokenOf[r] \in oidcJti \/ PruneZones[o] # {}
                    /\ UNCHANGED tables
           \/ /\ known => row.policy = policy
              /\ row.status \notin {"complete", "running", "indeterminate"}
              /\ req' = [req EXCEPT ![r].pc = "owned", ![r].resumes = known,
                                    ![r].version = policy]
              /\ UNCHANGED tables
        /\ UNCHANGED world

\* collectDnsState reads the owned rows, then lists the provider's zones, then
\* reads lock and claim of every set and decides.
ReadOwned(r) ==
    /\ req[r].pc = "owned"
    /\ req' = [req EXCEPT ![r].pc = "listing",
                          ![r].owned = OwnedRows(RepoOf[OpOf[r]])]
    /\ UNCHANGED <<tables, world>>

ListProvider(r) ==
    /\ req[r].pc = "listing"
    /\ req' = [req EXCEPT ![r].pc = "classify", ![r].seen = provider]
    /\ UNCHANGED <<tables, world>>

Classify(r) ==
    /\ req[r].pc = "classify"
    /\ \/ /\ Accepted(r)
          /\ req' = [req EXCEPT ![r].pc = "admit",
                       ![r].claimed = {s \in AffectedSets(r) :
                                         recordClaims[s] # NoClaim}]
       \/ ~Accepted(r) /\ Leave(r)
    /\ UNCHANGED <<tables, world>>

\* The row of a resumed operation carries the same policy and, in every zone not
\* yet done, the same state digest.
RowMatches(r) ==
    LET row == operations[OpOf[r]]
    IN  /\ row.policy = req[r].version
        /\ \A z \in OpZones(OpOf[r]) :
              \/ operationZones[OpOf[r]][z] = "success"
              \/ \A k \in Key : KeyZone(k) = z => row.digest[k] = Digest(r)[k]

\* reserveApplyAdmission up to the batch. With prune zones the plan artifact the
\* request names, or fails to name, may be refused: see Plans.
Admit(r) ==
    LET known == operations[OpOf[r]].status # "absent"
    IN  /\ req[r].pc = "admit"
        /\ \/ (known => RowMatches(r)) /\ Goto(r, "reserve")
           \/ known /\ ~RowMatches(r) /\ Leave(r)
           \/ PruneZones[OpOf[r]] # {} /\ Leave(r)
        /\ UNCHANGED <<tables, world>>

\* The sets of desired records that had no claim when the request looked.
NewClaims(r) == {SetOf[k] : k \in DesiredKeys(OpOf[r])} \ req[r].claimed

\* reserveOperation. A row inserted since the admission looked is reused as is.
ReserveNew(r) ==
    ReserveBatch(OpOf[r], TokenOf[r], OpZones(OpOf[r]), AffectedSets(r),
                 NewClaims(r), req[r].version, Digest(r))

\* What aborts that batch: a locked or foreign set, a claim made meanwhile, or a
\* plan that can no longer be consumed.
Insertable(r) ==
    /\ \A s \in AffectedSets(r) : LockInsertable(OpOf[r], s)
    /\ \A s \in NewClaims(r) : recordClaims[s] = NoClaim

Reserve(r) ==
    /\ req[r].pc = "reserve"
    /\ \/ ReuseBatch(OpOf[r], TokenOf[r]) /\ Goto(r, "start")
       \/ ReserveNew(r) /\ Goto(r, "start")
       \/ /\ \/ TokenOf[r] \in oidcJti
             \/ operations[OpOf[r]].status = "absent" /\ ~Insertable(r)
             \/ PruneZones[OpOf[r]] # {}
          /\ Leave(r)
          /\ UNCHANGED tables
    /\ UNCHANGED world

Startable(o) == operations[o].status \in {"reserved", "partial"}
Start(r) ==
    LET o == OpOf[r]
    IN  /\ req[r].pc = "start"
        /\ \/ /\ StartStatement(o)
              /\ req' = [req EXCEPT ![r].pc = "zones", ![r].zones = OpZones(o)]
           \/ ~Startable(o) /\ Leave(r) /\ UNCHANGED tables
        /\ UNCHANGED world

-----------------------------------------------------------------------------
(* Executing the zones *)

\* The loop over the zones: a finished zone is skipped, one in any state but
\* pending or failed raises an error, the others are executed.
VisitZone(r, z) ==
    LET status == operationZones[OpOf[r]][z]
        Enter(step, keys) ==
            req' = [req EXCEPT ![r].pc = step, ![r].zone = z, ![r].keys = keys]
    IN  /\ req[r].pc = "zones"
        /\ z \in req[r].zones
        /\ \/ /\ status = "success"
              /\ req' = [req EXCEPT ![r].zones = @ \ {z}]
           \/ status \in {"pending", "failed"} /\ Enter("zone", Mutations(r, z))
           \/ /\ status \notin {"success", "pending", "failed"}
              /\ Enter("zoneError", {})
        /\ UNCHANGED <<tables, world>>

\* Mutant: the record planned on is not compared with the one found.
PreflightWithoutSnapshot(r, k) ==
    LET owned == OwnedRows(RepoOf[OpOf[r]])
    IN  /\ SetVerified(SetOf[k], owned, provider)
        /\ recordClaims[SetOf[k]] = [repo |-> RepoOf[OpOf[r]], state |-> "active"]

\* assertCurrentRecordSet and the claim check, just before a change to k: the
\* set still is what D1 says, and the record to replace is the one planned on.
PreflightOk(r, k) ==
    LET s == SetOf[k]
        owned == OwnedRows(RepoOf[OpOf[r]])
        claim == recordClaims[s]
    IN  /\ SetVerified(s, owned, provider)
        /\ (\E j \in KeysOf(s) : owned[j] # NoRow) => claim.state = "active"
        /\ Current(r, k) \subseteq provider[k]
        /\ claim # NoClaim /\ claim.repo = RepoOf[OpOf[r]]

\* One change of the zone: skipped when its intent is confirmed, refused when it
\* has any other intent or the preflight fails.
TakeKey(r, k) ==
    LET intent == mutationIntents[OpOf[r]][k]
    IN  /\ req[r].pc = "zone"
        /\ k \in req[r].keys
        /\ \/ /\ intent = "confirmed"
              /\ req' = [req EXCEPT ![r].keys = @ \ {k}]
           \/ /\ intent = "absent" /\ PreflightOk(r, k)
              /\ req' = [req EXCEPT ![r].pc = "begin", ![r].key = k]
           \/ /\ intent \notin {"absent", "confirmed"}
                   \/ (intent = "absent" /\ ~PreflightOk(r, k))
              /\ Goto(r, "zoneError")
        /\ UNCHANGED <<tables, world>>

EndZone(r) ==
    /\ req[r].pc = "zone" /\ req[r].keys = {}
    /\ Goto(r, "finish")
    /\ UNCHANGED <<tables, world>>

\* cloudflareRecordId of the intent: the record replaced, none for a create.
Target(r, k) == IF Current(r, k) = {} THEN NoRow ELSE req[r].owned[k].id
BeginIntent(r) ==
    BeginBatch(OpOf[r], req[r].key, Change(r, req[r].key), Target(r, req[r].key))

Begin(r) ==
    LET o == OpOf[r]  k == req[r].key
    IN  /\ req[r].pc = "begin"
        /\ \/ BeginIntent(r) /\ Goto(r, "mark")
           \/ /\ mutationIntents[o][k] # "absent" \/ operationLocks[SetOf[k]] # o
              /\ Goto(r, "zoneError")
              /\ UNCHANGED tables
        /\ UNCHANGED world

Mark(r) ==
    LET o == OpOf[r]  k == req[r].key
    IN  /\ req[r].pc = "mark"
        /\ \/ SentStatement(o, k) /\ Goto(r, "call")
           \/ /\ mutationIntents[o][k] # "prepared"
              /\ Goto(r, "zoneError")
              /\ UNCHANGED tables
        /\ UNCHANGED world

\* The one request to the provider; it is never retried.
Call(r) ==
    /\ req[r].pc = "call"
    /\ wire' = [wire EXCEPT ![OpOf[r]][req[r].key] = "flying"]
    /\ Goto(r, "await")
    /\ UNCHANGED <<tables, provider, policy, faults>>

\* Mutants: an error answer is taken for a success, or leads to a retry.
ReceiveAny(r) ==
    /\ req[r].pc = "await"
    /\ wire[OpOf[r]][req[r].key] \in {"applied", "rejected"}
    /\ Goto(r, "confirm")
    /\ UNCHANGED <<tables, world>>
ReceiveOrRetry(r) ==
    /\ req[r].pc = "await"
    /\ \/ wire[OpOf[r]][req[r].key] = "applied" /\ Goto(r, "confirm")
       \/ wire[OpOf[r]][req[r].key] = "rejected" /\ Goto(r, "call")
    /\ UNCHANGED <<tables, world>>

Receive(r) ==
    /\ req[r].pc = "await"
    /\ \/ wire[OpOf[r]][req[r].key] = "applied" /\ Goto(r, "confirm")
       \/ wire[OpOf[r]][req[r].key] = "rejected" /\ Goto(r, "unknown")
    /\ UNCHANGED <<tables, world>>

\* confirmMutation; when a trigger aborts it the outcome is unknown.
Confirm(r) ==
    LET o == OpOf[r]  k == req[r].key
    IN  /\ req[r].pc = "confirm"
        /\ \/ ConfirmBatch(o, k) /\ KeyDone(r)
           \/ ~Confirmable(o, k) /\ Goto(r, "unknown") /\ UNCHANGED tables
        /\ UNCHANGED world

\* markMutationIndeterminate, then the error reaches the loop over the zones.
MarkUnknown(r) ==
    LET o == OpOf[r]  k == req[r].key
    IN  /\ req[r].pc = "unknown"
        /\ \/ IndeterminateBatch(o, k)
           \/ ~StatusTransition(mutationIntents[o][k], "indeterminate")
              /\ UNCHANGED tables
        /\ Goto(r, "zoneError")
        /\ UNCHANGED world

Finish(r) ==
    LET o == OpOf[r]  z == req[r].zone
    IN  /\ req[r].pc = "finish"
        /\ \/ FinishBatch(o, z) /\ NextZone(r)
           \/ /\ LocksIn(o, z) # {} /\ ~ZoneSettled(o, z)
              /\ Goto(r, "zoneError")
              /\ UNCHANGED tables
        /\ UNCHANGED world

\* The catch block: an indeterminate zone stays as it is, a zone without
\* intents is marked failed and can be resumed, any other is frozen.
ZoneError(r) ==
    LET o == OpOf[r]  z == req[r].zone
        started == \E k \in Key : KeyZone(k) = z /\ mutationIntents[o][k] # "absent"
    IN  /\ req[r].pc = "zoneError"
        /\ \/ /\ operationZones[o][z] = "indeterminate"
              /\ NextZone(r)
              /\ UNCHANGED tables
           \/ /\ operationZones[o][z] # "indeterminate"
              /\ FailedBatch(o, z)
              /\ NextZone(r)
           \/ /\ operationZones[o][z] # "indeterminate" /\ started
              /\ Goto(r, "freeze")
              /\ UNCHANGED tables
        /\ UNCHANGED world

Freeze(r) ==
    /\ req[r].pc = "freeze"
    /\ FreezeBatch(OpOf[r], req[r].zone)
    /\ NextZone(r)
    /\ UNCHANGED world

\* Mutants: an operation without frozen zones is complete, or else has failed.
VerdictUnlessFrozen(o) ==
    IF "indeterminate" \in {operationZones[o][z] : z \in Zone}
    THEN "indeterminate" ELSE "complete"
VerdictFailed(o) ==
    IF {operationZones[o][z] : z \in Zone} \subseteq {"success", "absent"}
    THEN "complete" ELSE "failed"

\* listCheckpoints, and the status it comes to.
Verdict(o) ==
    LET rows == {operationZones[o][z] : z \in Zone} \ {"absent"}
    IN  IF rows \subseteq {"success"} THEN "complete"
        ELSE IF "indeterminate" \in rows THEN "indeterminate" ELSE "partial"

Tally(r) ==
    /\ req[r].pc = "zones" /\ req[r].zones = {}
    /\ req' = [req EXCEPT ![r].pc = "update", ![r].verdict = Verdict(OpOf[r])]
    /\ UNCHANGED <<tables, world>>

Update(r) ==
    /\ req[r].pc = "update"
    /\ UpdateStatement(OpOf[r], req[r].verdict)
    /\ Leave(r)
    /\ UNCHANGED world

-----------------------------------------------------------------------------
(* The provider *)

\* A request in flight takes effect: a create adds a record, an update or a
\* delete acts on the record it names.
Effect(o, k) ==
    LET row == intentActions[o][k]
        old == {p \in provider[k] : p.id = row.target}
        New(id) == [id |-> id, content |-> Desired[o][k], rev |-> o]
    IN  CASE row.action = "create" -> provider[k] \cup {New(NewId(o, k))}
          [] row.action = "update" -> (provider[k] \ old) \cup {New(row.target)}
          [] row.action = "delete" -> provider[k] \ old

ProviderApply(o, k) ==
    LET row == intentActions[o][k]
    IN  /\ wire[o][k] = "flying"
        /\ \/ /\ row.action = "create" \/ \E p \in provider[k] : p.id = row.target
              /\ provider' = [provider EXCEPT ![k] = Effect(o, k)]
              /\ wire' = [wire EXCEPT ![o][k] = "applied"]
           \/ /\ row.action # "create" /\ \A p \in provider[k] : p.id # row.target
              /\ wire' = [wire EXCEPT ![o][k] = "rejected"]
              /\ UNCHANGED provider
        /\ UNCHANGED <<tables, req, policy, faults>>

-----------------------------------------------------------------------------
(* Faults *)

\* Where the exception of a D1 write that failed takes the request.
WriteFails(r) ==
    \/ req[r].pc \in {"reserve", "start", "freeze", "update"} /\ Leave(r)
    \/ req[r].pc \in {"begin", "mark", "unknown", "finish"} /\ Goto(r, "zoneError")
    \/ req[r].pc = "confirm" /\ Goto(r, "unknown")
    \/ req[r].pc = "zoneError" /\ Goto(r, "freeze")

\* What the write it was about to make would have changed.
PendingWrite(r) ==
    LET o == OpOf[r]  k == req[r].key  z == req[r].zone  pc == req[r].pc
    IN  \/ pc = "reserve" /\ ReserveNew(r)
        \/ pc = "reserve" /\ ReuseBatch(o, TokenOf[r])
        \/ pc = "start" /\ StartStatement(o)
        \/ pc = "begin" /\ BeginIntent(r)
        \/ pc = "mark" /\ SentStatement(o, k)
        \/ pc = "confirm" /\ ConfirmBatch(o, k)
        \/ pc = "unknown" /\ IndeterminateBatch(o, k)
        \/ pc = "finish" /\ FinishBatch(o, z)
        \/ /\ pc = "zoneError" /\ operationZones[o][z] # "indeterminate"
           /\ FailedBatch(o, z)
        \/ pc = "freeze" /\ FreezeBatch(o, z)
        \/ pc = "update" /\ UpdateStatement(o, req[r].verdict)

\* D1 refuses a write, or makes it and loses the answer.
WriteAborted(r) ==
    /\ Inject("d1")
    /\ WriteFails(r)
    /\ UNCHANGED <<tables, provider, wire, policy>>
AnswerLost(r) ==
    /\ Inject("d1")
    /\ PendingWrite(r)
    /\ WriteFails(r)
    /\ UNCHANGED <<provider, wire, policy>>

\* A read made for the zone before anything is sent fails: the zone row, its
\* checkpoint, the owned rows or the provider's listing.
ReadFails(r) ==
    /\ Inject("read")
    /\ req[r].pc = "zone"
    /\ Goto(r, "zoneError")
    /\ UNCHANGED <<tables, provider, wire, policy>>

\* The provider answers an error, or its answer comes too late or not at all.
ProviderReject(o, k) ==
    /\ Inject("write")
    /\ wire[o][k] = "flying"
    /\ wire' = [wire EXCEPT ![o][k] = "rejected"]
    /\ UNCHANGED <<tables, provider, req, policy>>
ProviderTimeout(r) ==
    /\ Inject("write")
    /\ req[r].pc = "await"
    /\ Goto(r, "unknown")
    /\ UNCHANGED <<tables, provider, wire, policy>>

\* The request deadline is found expired at the head of the zone loop.
RequestTimeout(r) ==
    /\ Inject("timeout")
    /\ req[r].pc = "zones" /\ req[r].zones # {}
    /\ Leave(r)
    /\ UNCHANGED <<tables, provider, wire, policy>>

\* The isolate is lost at any await.
Crash(r) ==
    /\ Inject("crash")
    /\ req[r].pc \notin {"lookup", "done"}
    /\ Leave(r)
    /\ UNCHANGED <<tables, provider, wire, policy>>

\* Somebody edits or removes a managed record outside FlareForm.
Drift(k) ==
    /\ Inject("drift")
    /\ \E p \in provider[k] : \E q \in
          {{}} \cup {{[p EXCEPT !.content = c, !.rev = faults + 1]} : c \in Content} :
            provider' = [provider EXCEPT ![k] = (@ \ {p}) \cup q]
    /\ UNCHANGED <<tables, wire, req, policy>>

\* An operator synchronises a new policy.
SyncPolicy ==
    /\ Inject("sync")
    /\ policy' = policy + 1
    /\ UNCHANGED <<tables, provider, wire, req>>

-----------------------------------------------------------------------------
RequestStep(r) ==
    \/ Lookup(r) \/ ReadOwned(r) \/ ListProvider(r) \/ Classify(r) \/ Admit(r)
    \/ Reserve(r) \/ Start(r)
    \/ \E z \in Zone : VisitZone(r, z)
    \/ \E k \in Key : TakeKey(r, k)
    \/ EndZone(r) \/ Begin(r) \/ Mark(r) \/ Call(r) \/ Receive(r) \/ Confirm(r)
    \/ MarkUnknown(r) \/ Finish(r) \/ ZoneError(r) \/ Freeze(r)
    \/ Tally(r) \/ Update(r)

RequestFault(r) ==
    \/ WriteAborted(r) \/ AnswerLost(r) \/ ReadFails(r) \/ ProviderTimeout(r)
    \/ RequestTimeout(r) \/ Crash(r)

Environment ==
    \/ \E o \in Op, k \in Key : ProviderReject(o, k)
    \/ \E k \in Key : Drift(k)
    \/ SyncPolicy
=============================================================================
