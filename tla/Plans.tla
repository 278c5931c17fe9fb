------------------------------- MODULE Plans -------------------------------
(***************************************************************************)
(* Deletions need a plan.  The GitHub Action (runAction,                   *)
(* github-action/src/client.js) asks POST /v1/plan (src/api/plan.js) what  *)
(* a manifest would change, applies it, naming the plan when it deletes,   *)
(* and retries once what the Worker calls a partial failure.  The Worker   *)
(* stores each plan with the digests it was computed from, admits a        *)
(* deletion only under a plan that still holds, and consumes it with the   *)
(* operation; the scheduled cleanup deletes what expired.                  *)
(*                                                                         *)
(* A client is one run of the Action, and stands for the plan it obtains.  *)
(* Its requests are requests of Apply: a plan request runs the preflight   *)
(* of an operation that is never admitted (Preview), and every step of an  *)
(* apply request is a step of Apply on which these rules decide what is    *)
(* nondeterministic there.  All manifests are assumed to prune; manifests  *)
(* of different clients differ, or belong to the same operation.           *)
(***************************************************************************)
EXTENDS FlareForm

CONSTANTS
    Client,   \* runs of the Action
    PlanReq,  \* the requests each makes: the plan,
    ApplyReq, \* the apply
    RetryReq, \* and its one retry
    Preview,  \* operations that stand for the manifests being planned
    PlanTime, \* how long a plan can be used
    MaxTime,  \* bound: the length of a behaviour
    NoPlan

ASSUME PlansAssumption ==
    /\ PlanReq \in [Client -> Req]
    /\ ApplyReq \in [Client -> Req]
    /\ RetryReq \in [Client -> Req]
    /\ \A b, c \in Client :
          {PlanReq[b], ApplyReq[b], RetryReq[b]}
             \cap {PlanReq[c], ApplyReq[c], RetryReq[c]} # {} => b = c
    /\ \A c \in Client :
          /\ Cardinality({PlanReq[c], ApplyReq[c], RetryReq[c]}) = 3
          /\ OpOf[ApplyReq[c]] = OpOf[RetryReq[c]]
          /\ OpOf[ApplyReq[c]] \notin Preview
          /\ OpOf[PlanReq[c]] \in Preview
          /\ RepoOf[OpOf[PlanReq[c]]] = RepoOf[OpOf[ApplyReq[c]]]
          /\ Desired[OpOf[PlanReq[c]]] = Desired[OpOf[ApplyReq[c]]]
          /\ PruneZones[OpOf[PlanReq[c]]] = PruneZones[OpOf[ApplyReq[c]]]
    /\ \A r \in Req : PruneZones[OpOf[r]] # {}
    /\ PlanTime \in Nat
    /\ MaxTime \in Nat
    /\ NoPlan \notin Client

VARIABLES
    clock,
    plans,          \* the plan each client obtained, while its row exists
    planAdmissions, \* the operation it was consumed by
    client,         \* the local state of each run of the Action
    began,          \* when each request reached the Worker
    answering       \* apply requests about to read the checkpoints they report

plansVars == <<vars, clock, plans, planAdmissions, client, began, answering>>

-----------------------------------------------------------------------------
Time == 0..MaxTime
Plan == [policy: 0..MaxPolicy, digest: ProviderView,
         expires: 0..(MaxTime + PlanTime), consumed: BOOLEAN]
ASSUME NoPlanAssumption == NoPlan \notin Plan

ClientState == [pc: {"planning", "applying", "retrying", "success", "failed"},
                shown: ProviderView] \* the records it was shown as deletions

PlansTypeOK ==
    /\ clock \in Time
    /\ plans \in [Client -> Plan \cup {NoPlan}]
    /\ planAdmissions \in [Client -> Op \cup {NoOp}]
    /\ client \in [Client -> ClientState]
    /\ began \in [Req -> Time]
    /\ answering \in SUBSET Req

PlansInit ==
    /\ Init
    /\ clock = 0
    /\ plans = [c \in Client |-> NoPlan]
    /\ planAdmissions = [c \in Client |-> NoOp]
    /\ client = [c \in Client |-> [pc |-> "planning", shown |-> NothingSeen]]
    /\ began = [r \in Req |-> 0]
    /\ answering = {}

-----------------------------------------------------------------------------
(* What a request of a client is checked against *)

\* The request a client waits for.
Awaited(c) ==
    CASE client[c].pc = "planning" -> {PlanReq[c]}
      [] client[c].pc = "applying" -> {ApplyReq[c]}
      [] client[c].pc = "retrying" -> {RetryReq[c]}
      [] OTHER -> {}

ClientOf(r) == CHOOSE c \in Client : r \in {PlanReq[c], ApplyReq[c], RetryReq[c]}

\* Mutant: the retry does not name the plan, which is consumed.
NamedAtFirst(r) ==
    IF client[ClientOf(r)].shown = NothingSeen \/ r = RetryReq[ClientOf(r)]
    THEN NoPlan ELSE ClientOf(r)

\* The plan_id of an apply request.
Named(r) == IF client[ClientOf(r)].shown = NothingSeen THEN NoPlan ELSE ClientOf(r)

\* A known operation was admitted under the plan the request names, if any.
PlanAgrees(r) ==
    {c \in Client : planAdmissions[c] = OpOf[r]} = {Named(r)} \ {NoPlan}

\* Mutant: the records are not compared with those the plan was made from.
ActivePlanAnyState(r) ==
    /\ Named(r) # NoPlan
    /\ plans[Named(r)] # NoPlan
    /\ ~plans[Named(r)].consumed
    /\ plans[Named(r)].expires > began[r]
    /\ plans[Named(r)].policy = req[r].version

\* getActivePlan and the comparison after it; validate_plan_admission repeats them.
ActivePlan(r) ==
    /\ Named(r) # NoPlan
    /\ plans[Named(r)] # NoPlan
    /\ ~plans[Named(r)].consumed
    /\ plans[Named(r)].expires > began[r]
    /\ plans[Named(r)].policy = req[r].version
    /\ plans[Named(r)].digest = Digest(r)

\* reserveApplyAdmission: a new operation names a plan exactly when it deletes.
Admissible(r) ==
    IF operations[OpOf[r]].status # "absent" THEN RowMatches(r) /\ PlanAgrees(r)
    ELSE IF PruneKeys(r) # {} THEN ActivePlan(r)
         ELSE Named(r) = NoPlan

\* What makes reserveOperation throw.
Refused(r) ==
    \/ TokenOf[r] \in oidcJti
    \/ /\ operations[OpOf[r]].status = "absent"
       /\ ~Insertable(r) \/ (PruneKeys(r) # {} /\ ~ActivePlan(r))

-----------------------------------------------------------------------------
(* Requests *)

\* The plan is consumed by the batch that inserts an operation which deletes.
Consume(r) ==
    LET o == OpOf[r]
        inserted == operations[o].status = "absent" /\ operations'[o].status # "absent"
    IN  IF inserted /\ PruneKeys(r) # {}
        THEN /\ ActivePlan(r)
             /\ plans' = [plans EXCEPT ![Named(r)].consumed = TRUE]
             /\ planAdmissions' = [planAdmissions EXCEPT ![Named(r)] = o]
        ELSE UNCHANGED <<plans, planAdmissions>>

\* A request that reaches its answer: after its tally, or when its operation is
\* only reported.
Reports(r) ==
    \/ req[r].pc = "update"
    \/ req[r].pc = "lookup" /\ oidcJti' # oidcJti

\* Where Apply leaves a decision open, the plan makes it.
PlanRules(r) ==
    /\ req[r].pc = "lookup" =>
          Reports(r) = (/\ operations[OpOf[r]].policy = policy
                        /\ operations[OpOf[r]].status
                             \in {"complete", "running", "indeterminate"}
                        /\ PlanAgrees(r)
                        /\ TokenOf[r] \notin oidcJti)
    /\ req[r].pc = "admit" => (req'[r].pc = "reserve") = Admissible(r)
    /\ req[r].pc = "reserve" => (req'[r].pc = "done") = Refused(r)

Arrive(r) == began' = IF req[r].pc = "lookup" THEN [began EXCEPT ![r] = clock]
                      ELSE began

\* A step of POST /v1/apply.
ApplyStep(c, r) ==
    /\ r \in {ApplyReq[c], RetryReq[c]}
    /\ req[r].pc = "lookup" => r \in Awaited(c)
    /\ RequestStep(r)
    /\ PlanRules(r)
    /\ Consume(r)
    /\ Arrive(r)
    /\ answering' = IF Reports(r) THEN answering \cup {r} ELSE answering
    /\ UNCHANGED <<clock, client>>

\* A step of POST /v1/plan before the plan is stored.
PlanStep(c) ==
    LET r == PlanReq[c]
    IN  /\ req[r].pc = "lookup" => r \in Awaited(c)
        /\ req[r].pc # "admit"
        /\ RequestStep(r)
        /\ Arrive(r)
        /\ UNCHANGED <<clock, plans, planAdmissions, client, answering>>

\* What a plan request would delete.
Deletions(r) == [k \in Key |-> IF k \in PruneKeys(r) THEN req[r].seen[k] ELSE {}]

\* Mutant: a plan is stored without its expiry.
CreatePlanForEver(c) ==
    LET r == PlanReq[c]
    IN  /\ req[r].pc = "admit"
        /\ plans' = [plans EXCEPT ![c] =
                       [policy |-> req[r].version, digest |-> Digest(r),
                        consumed |-> FALSE]]
        /\ client' = IF r \in Awaited(c)
                     THEN [client EXCEPT ![c] = [pc |-> "applying",
                                                 shown |-> Deletions(r)]]
                     ELSE client
        /\ Leave(r)
        /\ UNCHANGED <<tables, world, clock, planAdmissions, began, answering>>

\* createPlan, and the answer to the client if it still waits.
CreatePlan(c) ==
    LET r == PlanReq[c]
    IN  /\ req[r].pc = "admit"
        /\ plans' = [plans EXCEPT ![c] =
                       [policy |-> req[r].version, digest |-> Digest(r),
                        expires |-> began[r] + PlanTime, consumed |-> FALSE]]
        /\ client' = IF r \in Awaited(c)
                     THEN [client EXCEPT ![c] = [pc |-> "applying",
                                                 shown |-> Deletions(r)]]
                     ELSE client
        /\ Leave(r)
        /\ UNCHANGED <<tables, world, clock, planAdmissions, began, answering>>

\* Mutant: a partial failure is an answer like any other.
OutcomeOfAny(c, complete) == "success"

\* What the client makes of a report: a partial failure is retried once.
Outcome(c, complete) ==
    IF complete THEN "success"
    ELSE IF client[c].pc = "applying" THEN "retrying" ELSE "failed"

\* operationResponse reads the checkpoints of the manifest's zones.
Answer(c, r) ==
    LET complete == \A z \in OpZones(OpOf[r]) : operationZones[OpOf[r]][z] = "success"
    IN  /\ r \in answering \cap {ApplyReq[c], RetryReq[c]}
        /\ answering' = answering \ {r}
        /\ client' = IF r \in Awaited(c)
                     THEN [client EXCEPT ![c].pc = Outcome(c, complete)]
                     ELSE client
        /\ UNCHANGED <<vars, clock, plans, planAdmissions, began>>

\* The client gets an error, or no answer in time. One that stops waiting before
\* its request has ended does nothing more: it fails when the request ends.
Fail(c) ==
    /\ \E r \in Awaited(c) : req[r].pc \in {"lookup", "done"}
    /\ client' = [client EXCEPT ![c].pc = "failed"]
    /\ UNCHANGED <<vars, clock, plans, planAdmissions, began, answering>>

RequestFails(r) ==
    /\ RequestFault(r)
    /\ Consume(r)
    /\ UNCHANGED <<clock, client, began, answering>>

-----------------------------------------------------------------------------
(* Around the requests *)

\* Mutant: what expired is deleted, consumed or not.
ExpiredOrUsed(c) == plans[c] # NoPlan /\ plans[c].expires < clock

Expired(c) == plans[c] # NoPlan /\ plans[c].expires < clock /\ planAdmissions[c] = NoOp

\* cleanupEphemeralState on plans; its other statement is Maintenance's Clean.
CleanPlans ==
    /\ \E c \in Client : Expired(c)
    /\ plans' = [c \in Client |-> IF Expired(c) THEN NoPlan ELSE plans[c]]
    /\ UNCHANGED <<vars, clock, planAdmissions, client, began, answering>>

Tick ==
    /\ clock < MaxTime
    /\ clock' = clock + 1
    /\ UNCHANGED <<vars, plans, planAdmissions, client, began, answering>>

\* The provider, the operator and the faults that are no request's.
Elsewhere ==
    /\ \/ \E o \in Op, k \in Key : ProviderApply(o, k) \/ OperatorStep(o, k)
       \/ Environment
    /\ UNCHANGED <<clock, plans, planAdmissions, client, began, answering>>

PlansNext ==
    \/ \E c \in Client : PlanStep(c) \/ CreatePlan(c) \/ Fail(c)
    \/ \E c \in Client, r \in Req : ApplyStep(c, r) \/ Answer(c, r)
    \/ \E r \in Req : RequestFails(r)
    \/ CleanPlans
    \/ Tick
    \/ Elsewhere

PlansSpec == PlansInit /\ [][PlansNext]_plansVars

-----------------------------------------------------------------------------
(* Safety *)

\* "deletion requires a matching, unexpired, one-time plan" (README.md:47): every
\* deletion that is being carried out is one its client was shown, of the very
\* record version, though plan, admission, retry and execution each read anew
\* (admission.js:65, admission.js:83, repository.js:336).
DeletionsWereShown ==
    \A c \in Client : \A r \in {ApplyReq[c], RetryReq[c]} :
        LET k == req[r].key
        IN  /\ req[r].pc \in {"begin", "mark", "call"}
            /\ Change(r, k) = "delete"
            => Current(r, k) # {} /\ Current(r, k) \subseteq client[c].shown[k]

\* An operation that deletes keeps the evidence of its plan, whenever the cleanup
\* runs (maintenance.js:116; "plans without admission evidence",
\* docs/operations.md:3).
EvidenceKept ==
    \A c \in Client :
        planAdmissions[c] # NoOp => plans[c] # NoPlan /\ plans[c].consumed

\* The retry of a partial failure is refused only over the policy or the records,
\* never over the plan that the first attempt consumed and that may have expired
\* since (client.js:394, admission.js:65).
RetryKeepsItsPlan ==
    [][\A c \in Client :
          LET r == RetryReq[c]
          IN  /\ planAdmissions[c] = OpOf[r]
              /\ req[r].pc = "admit" /\ req'[r].pc = "done"
              /\ faults' = faults
              => ~RowMatches(r)]_plansVars

\* When the Action succeeds, the records it was shown as deletions are gone, also
\* after a partial failure and a retry (client.js:388-406, apply.js:12).
SuccessDeletesAll ==
    \A c \in Client :
        client[c].pc = "success" =>
            \A k \in Key : \A p \in client[c].shown[k], q \in provider[k] : q.id # p.id
=============================================================================
