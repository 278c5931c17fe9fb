----------------------------- MODULE FlareForm -----------------------------
(***************************************************************************)
(* The mutation path as a whole: apply requests racing over D1 and the     *)
(* provider, and the operator who settles what they left uncertain         *)
(* (src/admin/reconcile.js, scripts/reconcile-record.js).                  *)
(***************************************************************************)
EXTENDS Apply

CONSTANTS
    Decisions,      \* the decisions operators take, a subset of Decision
    OperatorWaits,  \* operators act only after the provider went quiet
    OperatorCompares \* operators compare content with the audited values

ASSUME OperatorAssumption ==
    /\ Decisions \subseteq Decision
    /\ OperatorWaits \in BOOLEAN
    /\ OperatorCompares \in BOOLEAN

-----------------------------------------------------------------------------
(* The operator *)

\* Mutant: a deletion is confirmed without looking for the record.
ConfirmUnseen(o, k, p) ==
    \/ intentActions[o][k].action = "delete"
    \/ provider[k] = {p}

\* resolveIndeterminate: what the provider's listing must show for a decision.
\* A confirmation selects the one record with the key's metadata, p.
ConfirmEvidence(o, k, p) ==
    LET row == intentActions[o][k]
    IN  \/ /\ row.action = "delete"
           /\ \A q \in provider[k] : q.id # row.target
        \/ row.action = "create" /\ provider[k] = {p}
        \/ row.action = "update" /\ {q \in provider[k] : q.id = row.target} = {p}
NoChangeEvidence(o, k) ==
    LET row == intentActions[o][k]
    IN  \/ /\ row.action = "create"
           /\ \A j \in KeysOf(SetOf[k]) : provider[j] = {}
        \/ /\ row.action # "create"
           /\ \E q \in provider[k] : q.id = row.target

\* What a careful operator adds to it: that the last writer of the record is
\* this operation exactly when the change is said to have happened.
Written(o, k) ==
    \E q \in provider[k] : q.id = intentActions[o][k].target /\ q.rev = o
Careful(o, k, decision) ==
    /\ OperatorWaits => wire[o][k] # "flying"
    /\ OperatorCompares /\ intentActions[o][k].action = "update"
         => (decision = "confirm-provider") = Written(o, k)

Evidence(o, k, decision, p) ==
    \/ decision = "confirm-provider" /\ ConfirmEvidence(o, k, p)
    \/ decision = "confirm-no-change" /\ NoChangeEvidence(o, k)

\* resolveIndeterminate and resolveMutationAdmin. A batch that a trigger aborts
\* changes nothing, and such a call is no step; nor is one that finds no claim of
\* the repository, which the batch asks for.
Resolve(o, k, decision, p) ==
    /\ mutationIntents[o][k] \in {"sent", "indeterminate"}
    /\ Careful(o, k, decision)
    /\ Evidence(o, k, decision, p)
    /\ ResolveBatch(o, k, decision, p)
    /\ UNCHANGED <<world, req>>

\* The records an operator can select: none for a deletion or a denial.
Candidates(k) == provider[k] \cup {NoRow}
OperatorStep(o, k) ==
    \E decision \in Decisions, p \in Candidates(k) : Resolve(o, k, decision, p)

-----------------------------------------------------------------------------
Next ==
    \/ \E r \in Req : RequestStep(r) \/ RequestFault(r)
    \/ \E o \in Op, k \in Key : ProviderApply(o, k) \/ OperatorStep(o, k)
    \/ Environment

Spec == Init /\ [][Next]_vars

-----------------------------------------------------------------------------
(* Safety *)

\* A record set stays locked by the operation as long as one of its intents there
\* is not known to have ended: an uncertain outcome keeps everyone else out
\* (validate_mutation_intent, validate_lock_release, resolveMutationAdmin).
LocksCoverIntents ==
    \A o \in Op, k \in Key :
        mutationIntents[o][k] \notin Settled => operationLocks[SetOf[k]] = o

\* At most one request executes an operation, whatever retries and duplicates
\* arrive (the compare-and-set of startOperation).
SingleExecution ==
    \A q, r \in Req :
        /\ OpOf[q] = OpOf[r]
        /\ req[q].pc \in Executing /\ req[r].pc \in Executing
        => q = r

\* Two provider requests are never on their way to the same record set.
ExclusiveWrites ==
    \A o, p \in Op, j, k \in Key :
        /\ wire[o][j] = "flying" /\ wire[p][k] = "flying"
        /\ SetOf[j] = SetOf[k]
        => o = p /\ j = k

\* A change is applied to the very record version its plan was computed from: no
\* update or deletion overwrites what another operation wrote in between. A request
\* that begins a change without the lock is refused there, whatever it planned on.
NoLostUpdate ==
    \A r \in Req :
        LET o == OpOf[r]  k == req[r].key
        IN  \/ req[r].pc = "begin" /\ operationLocks[SetOf[k]] = o
            \/ req[r].pc \in {"mark", "call"}
            \/ req[r].pc = "await" /\ wire[o][k] = "flying"
            => Current(r, k) \subseteq provider[k]

\* Outside the locks, D1's ownership rows describe the provider exactly: no
\* managed record is missing, changed, duplicated or unknown to D1.
OwnershipMatches ==
    \A s \in RecordSet :
        operationLocks[s] = NoOp => SetVerified(s, managedRecords, provider)

\* All managed records of a set belong to the repository that claims it.
SingleOwner ==
    \A k \in Key :
        managedRecords[k] # NoRow =>
            recordClaims[SetOf[k]] = [repo |-> OwnerOf[k], state |-> "active"]

\* An operation reported complete left nothing behind: no lock, and no intent
\* that is not confirmed.
CompleteIsClean ==
    \A o \in Op :
        operations[o].status = "complete" =>
            /\ \A s \in RecordSet : operationLocks[s] # o
            /\ \A k \in Key : mutationIntents[o][k] \in {"absent", "confirmed"}

\* No record is left at the provider that D1 does not know under the same
\* identifier, even while somebody edits and deletes records: only a locked set
\* may hold one (executeZone, resolveIndeterminate).
NoOrphan ==
    \A k \in Key :
        operationLocks[SetOf[k]] = NoOp =>
            \A p \in provider[k] :
                managedRecords[k] # NoRow /\ managedRecords[k].id = p.id

\* D1 records a change as confirmed only when the provider carried it out,
\* whatever answers were lost, late or refused (executeZone's catch block).
ConfirmedWasApplied ==
    \A o \in Op, k \in Key :
        mutationIntents[o][k] = "confirmed" => wire[o][k] = "applied"

\* Each record a request planned to delete in the zone it is about to finish is
\* gone from the provider, whatever was answered, edited by hand or written
\* meanwhile: finishZone marks no zone done whose deletions were passed over
\* (executeZone's loop over the changes).
FinishDeletesAll ==
    \A r \in Req : req[r].pc = "finish" =>
        \A k \in PruneKeys(r) : KeyZone(k) = req[r].zone =>
            \A q \in provider[k] : q.id # req[r].owned[k].id

\* "A confirmed intent is never sent again; a sent intent is never retried"
\* (execute.js:30): by no retry, resumption or replay of the operation.
SentOnce ==
    [][\A o \in Op, k \in Key :
          wire[o][k] # "idle" => wire'[o][k] # "flying" \/ wire'[o][k] = wire[o][k]]_vars

\* One token admits one request: of two requests that carry the same token, be
\* they replays or different manifests, only one gets past the reservation.
TokenAdmitsOnce ==
    \A q, r \in Req :
        /\ TokenOf[q] = TokenOf[r]
        /\ req[q].pc \in {"start"} \cup Executing
        /\ req[r].pc \in {"start"} \cup Executing
        => q = r

-----------------------------------------------------------------------------
(* Refinement *)

Lease == INSTANCE RecordSetLease WITH
    holder <- operationLocks,
    admitted <- {o \in Op : operations[o].status # "absent"},
    sent <- {c \in Op \X Key : wire[c[1]][c[2]] # "idle"},
    open <- {c \in Op \X Key :
               /\ wire[c[1]][c[2]] # "idle"
               /\ mutationIntents[c[1]][c[2]] \in {"sent", "indeterminate"}}

\* The tables, triggers and requests implement the lease: record sets are taken
\* all together, each change is sent once under its lease, and the sets of a zone
\* go back only when nothing sent there is unsettled.
ImplementsLease == Lease!LeaseSpec

-----------------------------------------------------------------------------
(* Liveness *)

\* A Worker keeps running a request it started, the provider answers, and an
\* operator attends to what is left uncertain. Clients and faults owe nothing.
Continue(r) == req[r].pc # "lookup" /\ RequestStep(r)
FairSpec ==
    /\ Spec
    /\ \A r \in Req : WF_vars(Continue(r))
    /\ \A o \in Op, k \in Key : WF_vars(ProviderApply(o, k))
                                 /\ WF_vars(OperatorStep(o, k))

\* Every lease ends: with the zone, or with the operator's decision.
LocksReleased ==
    \A s \in RecordSet : operationLocks[s] # NoOp ~> operationLocks[s] = NoOp

-----------------------------------------------------------------------------
(* What the documentation says and the code does not keep *)

\* "A sent request is ambiguous after process loss [...] It may only be confirmed
\* by the original execution path or resolved by an operator": so it eventually
\* is one or the other (migrations/0003_apply_admission.sql:61).
SentIsSettled ==
    \A o \in Op, k \in Key :
        mutationIntents[o][k] = "sent"
            ~> mutationIntents[o][k] \in {"confirmed", "resolved"}

\* "pre-send failures can resume, and uncertain outcomes freeze their record sets
\* for explicit operator reconciliation" (README.md:47): whoever holds a lock is
\* being executed, can be started again, or has a change for an operator to settle.
HeldIsRecoverable ==
    \A o \in Op :
        (\E s \in RecordSet : operationLocks[s] = o) =>
            \/ \E r \in Req : OpOf[r] = o /\ req[r].pc \in Executing
            \/ operations[o].status \in {"reserved", "partial"}
            \/ \E k \in Key : mutationIntents[o][k] \in {"sent", "indeterminate"}

\* A create for a key that has a record is refused (execute.js:91): no key ever
\* has two records.
OneRecordPerKey == \A k \in Key : \A p, q \in provider[k] : p = q
=============================================================================
