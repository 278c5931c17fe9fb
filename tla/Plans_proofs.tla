---------------------------- MODULE Plans_proofs ----------------------------
(***************************************************************************)
(* Plans over any number of clients: they only restrict the mutation path, *)
(* a consumed plan is kept, a retry agrees with the plan that the first    *)
(* attempt consumed, a client was shown every deletion made for it, and    *)
(* when it ends well they are all made, but for a record that a job of the *)
(* same manifest overlooked.                                               *)
(***************************************************************************)
EXTENDS Plans, Lease_proofs

\* A client's plan is stored, and consumed, only once its plan request has ended.
Stored ==
    \A c \in Client :
        plans[c] # NoPlan \/ planAdmissions[c] # NoOp => req[PlanReq[c]].pc = "done"

\* A consumed plan was shown to its client, and is the only one its operation has
\* consumed.
Consumed ==
    \A c \in Client :
        planAdmissions[c] # NoOp =>
            /\ client[c].shown # NothingSeen
            /\ operations[planAdmissions[c]].status # "absent"
            /\ \A b \in Client : planAdmissions[b] = planAdmissions[c] => b = c

\* The tally of a request comes to a status.
VerdictKnown == \A r \in Req : req[r].pc = "update" => req[r].verdict # "absent"

PlansInv == IInv /\ PlansTypeOK /\ Stored
RetryInv == PlansInv /\ VerdictKnown /\ Consumed

-----------------------------------------------------------------------------
(* The mutation path under the plans' rules *)

LEMMA CreateIsAdmit ==
    ASSUME NEW c \in Client, CreatePlan(c)
    PROVE  RequestStep(PlanReq[c])
BY PlansAssumption DEF CreatePlan, RequestStep, Admit

LEMMA PlansShape ==
    ASSUME PlansNext
    PROVE  \/ \E r \in Req : RequestStep(r) \/ RequestFault(r)
           \/ \E o \in Op, k \in Key : ProviderApply(o, k) \/ OperatorStep(o, k)
           \/ Environment
           \/ UNCHANGED vars
<1>1. CASE \E c \in Client : PlanStep(c) \/ CreatePlan(c) \/ Fail(c)
  BY <1>1, CreateIsAdmit, PlansAssumption DEF PlanStep, Fail
<1>2. CASE \E c \in Client, r \in Req : ApplyStep(c, r) \/ Answer(c, r)
  BY <1>2 DEF ApplyStep, Answer
<1>3. CASE \E r \in Req : RequestFails(r)
  BY <1>3 DEF RequestFails
<1>4. CASE CleanPlans \/ Tick
  BY <1>4 DEF CleanPlans, Tick
<1>5. CASE Elsewhere
  BY <1>5 DEF Elsewhere
<1>6. QED
  BY <1>1, <1>2, <1>3, <1>4, <1>5 DEF PlansNext

LEMMA PlansStepIsPath == [PlansNext]_plansVars => [Next]_vars
BY PlansShape DEF Next, plansVars

\* Plans, clients and the cleanup only restrict the mutation path: whatever is
\* proved of it, for any admission that Apply allows, holds with the plan
\* endpoint, the Action and its retries around it (api/plan.js, admission.js,
\* client.js).
THEOREM PlansRefinePath == PlansSpec => Spec
<1>1. PlansInit => Init
  BY DEF PlansInit
<1>2. QED
  BY <1>1, PlansStepIsPath, PTL DEF PlansSpec, Spec

\* In particular the locks cover every intent, one request executes an operation,
\* and one token admits one request, retries of the Action included.
THEOREM PlansKeepSafety ==
    PlansSpec => [](LocksCoverIntents /\ SingleExecution /\ TokenAdmitsOnce)
BY PlansRefinePath, LocksAlwaysCover, ExecutedOnce, TokensAdmitOnce, PTL

-----------------------------------------------------------------------------
(* Plan rows *)

\* A request that has ended does nothing more.
LEMMA DoneStays ==
    ASSUME IInv, [Next]_vars, NEW q \in Req, req[q].pc = "done"
    PROVE  req'[q].pc = "done"
<1>1. req \in [Req -> Request]
  BY DEF IInv, RequestsOK
<1>2. CASE UNCHANGED req
  BY <1>2
<1>3. ASSUME NEW r \in Req, RequestStep(r) \/ RequestFault(r), r # q
      PROVE  req'[q] = req[q]
  BY <1>1, <1>3, RequestStepMoves, RequestFaultMoves DEF Moved
<1>4. ~RequestStep(q)
  BY DEF RequestStep, Lookup, ReadOwned, ListProvider, Classify, Admit, Reserve,
     Start, VisitZone, TakeKey, EndZone, Begin, Mark, Call, Receive, Confirm,
     MarkUnknown, Finish, ZoneError, Freeze, Tally, Update
<1>5. ~RequestFault(q)
  BY DEF RequestFault, WriteAborted, AnswerLost, PendingWrite, WriteFails, ReadFails,
     ProviderTimeout, RequestTimeout, Crash
<1>6. (\A r \in Req : ~(RequestStep(r) \/ RequestFault(r))) => UNCHANGED req
  BY OperatorStepTables DEF Next, Environment, ProviderApply, ProviderReject, Drift,
     SyncPolicy, vars
<1>7. QED
  BY <1>2, <1>3, <1>4, <1>5, <1>6

\* A batch consumes one plan that is stored and was not consumed, or none.
Consumes(c, o) ==
    /\ plans[c] # NoPlan /\ ~plans[c].consumed
    /\ operations[o].status = "absent" /\ operations'[o].status # "absent"
    /\ plans' = [plans EXCEPT ![c].consumed = TRUE]
    /\ planAdmissions' = [planAdmissions EXCEPT ![c] = o]

LEMMA ConsumeShape ==
    ASSUME PlansTypeOK, NEW r \in Req, Consume(r)
    PROVE  \/ UNCHANGED <<plans, planAdmissions>>
           \/ /\ ClientOf(r) \in Client
              /\ Named(r) = ClientOf(r)
              /\ Consumes(ClientOf(r), OpOf[r])
<1>1. plans \in [Client -> Plan \cup {NoPlan}]
      /\ planAdmissions \in [Client -> Op \cup {NoOp}]
  BY DEF PlansTypeOK
<1>2. CASE /\ operations[OpOf[r]].status = "absent"
           /\ operations'[OpOf[r]].status # "absent"
           /\ PruneKeys(r) # {}
  <2>1. /\ ActivePlan(r)
        /\ plans' = [plans EXCEPT ![Named(r)].consumed = TRUE]
        /\ planAdmissions' = [planAdmissions EXCEPT ![Named(r)] = OpOf[r]]
    BY <1>2 DEF Consume
  <2>2. /\ Named(r) = ClientOf(r)
        /\ plans[Named(r)] # NoPlan /\ ~plans[Named(r)].consumed
    BY <2>1 DEF ActivePlan, Named
  <2>3. CASE ClientOf(r) \in Client
    BY <1>2, <2>1, <2>2, <2>3 DEF Consumes
  <2>4. ASSUME NEW c, c \notin Client,
               plans' = [plans EXCEPT ![c].consumed = TRUE],
               planAdmissions' = [planAdmissions EXCEPT ![c] = OpOf[r]]
        PROVE  UNCHANGED <<plans, planAdmissions>>
    <3>1. plans' = plans
      BY <1>1, <2>4, ZenonT(20)
    <3>2. planAdmissions' = planAdmissions
      BY <1>1, <2>4
    <3>3. QED
      BY <3>1, <3>2
  <2>5. QED
    BY <2>1, <2>2, <2>3, <2>4
<1>3. QED
  BY <1>2 DEF Consume

\* What a step does to the plans.
LEMMA PlanRows ==
    ASSUME PlansTypeOK, [PlansNext]_plansVars
    PROVE  \/ UNCHANGED <<plans, planAdmissions>>
           \/ \E r \in Req : /\ ClientOf(r) \in Client
                             /\ Named(r) = ClientOf(r)
                             /\ Consumes(ClientOf(r), OpOf[r])
                             /\ client' = client
           \/ \E c \in Client : CreatePlan(c)
           \/ CleanPlans
<1>1. ASSUME NEW r \in Req, NEW c \in Client, ApplyStep(c, r)
      PROVE  Consume(r) /\ client' = client
  BY <1>1 DEF ApplyStep
<1>2. ASSUME NEW r \in Req, RequestFails(r) PROVE Consume(r) /\ client' = client
  BY <1>2 DEF RequestFails
<1>3. CASE \E c \in Client : PlanStep(c) \/ Fail(c)
  BY <1>3 DEF PlanStep, Fail
<1>4. CASE \E c \in Client, r \in Req : Answer(c, r)
  BY <1>4 DEF Answer
<1>5. CASE Tick \/ Elsewhere \/ UNCHANGED plansVars
  BY <1>5 DEF Tick, Elsewhere, plansVars
<1>6. QED
  BY <1>1, <1>2, <1>3, <1>4, <1>5, ConsumeShape DEF PlansNext

LEMMA CreatedPlan ==
    ASSUME IInv, PlansTypeOK, NEW c \in Client, CreatePlan(c)
    PROVE  /\ req'[PlanReq[c]].pc = "done" /\ req[PlanReq[c]].pc = "admit"
           /\ planAdmissions' = planAdmissions
           /\ \E plan \in Plan : plans' = [plans EXCEPT ![c] = plan]
<1>1. /\ PlanReq[c] \in Req /\ began[PlanReq[c]] \in 0..MaxTime
      /\ PlanTime \in Nat /\ MaxTime \in Nat
  BY PlansAssumption DEF PlansTypeOK, Time
<1>2. [policy |-> req[PlanReq[c]].version, digest |-> Digest(PlanReq[c]),
       expires |-> began[PlanReq[c]] + PlanTime, consumed |-> FALSE] \in Plan
  BY <1>1, RequestArguments DEF Plan
<1>3. req'[PlanReq[c]].pc = "done"
  BY <1>1 DEF CreatePlan, Leave, Fresh, IInv, RequestsOK
<1>4. QED
  BY <1>2, <1>3 DEF CreatePlan

-----------------------------------------------------------------------------
(* Types *)

LEMMA PlanTypes ==
    ASSUME IInv, PlansTypeOK, [PlansNext]_plansVars
    PROVE  /\ (plans \in [Client -> Plan \cup {NoPlan}])'
           /\ (planAdmissions \in [Client -> Op \cup {NoOp}])'
<1>1. /\ plans \in [Client -> Plan \cup {NoPlan}]
      /\ planAdmissions \in [Client -> Op \cup {NoOp}]
  BY DEF PlansTypeOK
<1>2. ASSUME NEW r \in Req, NEW c \in Client, Consumes(c, OpOf[r])
      PROVE  /\ plans' \in [Client -> Plan \cup {NoPlan}]
             /\ planAdmissions' \in [Client -> Op \cup {NoOp}]
  <2>1. OpOf[r] \in Op
    BY ApplyAssumption
  <2>2. plans[c] \in Plan
    BY <1>1, <1>2 DEF Consumes
  <2>3. [plans[c] EXCEPT !.consumed = TRUE] \in Plan
    BY <2>2 DEF Plan
  <2>4. plans' = [plans EXCEPT ![c] = [plans[c] EXCEPT !.consumed = TRUE]]
    BY <1>1, <1>2 DEF Consumes
  <2>5. plans' \in [Client -> Plan \cup {NoPlan}]
    BY <1>1, <2>3, <2>4
  <2>6. QED
    BY <1>1, <1>2, <2>1, <2>5 DEF Consumes
<1>3. ASSUME NEW c \in Client, CreatePlan(c)
      PROVE  /\ plans' \in [Client -> Plan \cup {NoPlan}]
             /\ planAdmissions' = planAdmissions
  BY <1>1, <1>3, CreatedPlan
<1>4. CASE CleanPlans
  BY <1>1, <1>4 DEF CleanPlans
<1>5. QED
  BY <1>1, <1>2, <1>3, <1>4, PlanRows

LEMMA ClientTypes ==
    ASSUME IInv, PlansTypeOK, [PlansNext]_plansVars
    PROVE  (client \in [Client -> ClientState])'
<1>1. client \in [Client -> ClientState]
  BY DEF PlansTypeOK
<1>2. ASSUME NEW c \in Client, NEW state \in ClientState,
             client' = [client EXCEPT ![c] = state]
      PROVE  client' \in [Client -> ClientState]
  BY <1>1, <1>2
<1>3. \A c \in Client, pc \in {"success", "failed", "retrying"} :
         [client[c] EXCEPT !.pc = pc] \in ClientState
  BY <1>1 DEF ClientState
<1>4. ASSUME NEW c \in Client, CreatePlan(c) PROVE client' \in [Client -> ClientState]
  <2>1. req[PlanReq[c]].seen \in ProviderView
    BY PlansAssumption, RequestArguments DEF Request
  <2>2. Deletions(PlanReq[c]) \in ProviderView
    BY <2>1 DEF Deletions, ProviderView
  <2>3. [pc |-> "applying", shown |-> Deletions(PlanReq[c])] \in ClientState
    BY <2>2 DEF ClientState
  <2>4. QED
    BY <1>1, <1>2, <1>4, <2>3 DEF CreatePlan
<1>5. ASSUME NEW c \in Client, Fail(c) PROVE client' \in [Client -> ClientState]
  BY <1>1, <1>3, <1>5 DEF Fail
<1>6. ASSUME NEW c \in Client, NEW r \in Req, Answer(c, r)
      PROVE  client' \in [Client -> ClientState]
  <2>1. \A complete \in BOOLEAN :
           Outcome(c, complete) \in {"success", "failed", "retrying"}
    BY DEF Outcome
  <2>2. \/ client' = client
        \/ \E complete \in BOOLEAN :
              client' = [client EXCEPT ![c].pc = Outcome(c, complete)]
    BY <1>6 DEF Answer
  <2>3. QED
    BY <1>1, <1>3, <2>1, <2>2
<1>7. CASE UNCHANGED client
  BY <1>1, <1>7
<1>8. ASSUME NEW c \in Client, NEW r \in Req,
             PlanStep(c) \/ ApplyStep(c, r) \/ RequestFails(r)
      PROVE  UNCHANGED client
  BY <1>8 DEF PlanStep, ApplyStep, RequestFails
<1>9. CASE CleanPlans \/ Tick \/ Elsewhere \/ UNCHANGED plansVars
  BY <1>7, <1>9 DEF CleanPlans, Tick, Elsewhere, plansVars
<1>10. CASE \E c \in Client : PlanStep(c) \/ CreatePlan(c) \/ Fail(c)
  <2>1. PICK c \in Client : PlanStep(c) \/ CreatePlan(c) \/ Fail(c)
    BY <1>10
  <2>2. PlanStep(c) => UNCHANGED client
    BY DEF PlanStep
  <2>3. QED
    BY <1>4, <1>5, <1>7, <2>1, <2>2
<1>11. CASE \E r \in Req : RequestFails(r)
  BY <1>7, <1>11 DEF RequestFails
<1>12. QED
  BY <1>6, <1>7, <1>8, <1>9, <1>10, <1>11 DEF PlansNext

LEMMA ClockTypes ==
    ASSUME PlansTypeOK, [PlansNext]_plansVars
    PROVE  (clock \in Time /\ began \in [Req -> Time] /\ answering \in SUBSET Req)'
<1>1. clock \in Time /\ began \in [Req -> Time] /\ answering \in SUBSET Req
  BY DEF PlansTypeOK
<1>2. ASSUME NEW r \in Req, Arrive(r) PROVE began' \in [Req -> Time]
  BY <1>1, <1>2 DEF Arrive
<1>3. ASSUME NEW c \in Client, PlanStep(c) \/ CreatePlan(c) \/ Fail(c)
      PROVE  clock' = clock /\ began' \in [Req -> Time] /\ answering' = answering
  <2>1. CASE PlanStep(c)
    BY <1>2, <2>1, PlansAssumption DEF PlanStep
  <2>2. CASE CreatePlan(c) \/ Fail(c)
    BY <1>1, <2>2 DEF CreatePlan, Fail
  <2>3. QED
    BY <1>3, <2>1, <2>2
<1>4. ASSUME NEW c \in Client, NEW r \in Req, ApplyStep(c, r) \/ Answer(c, r)
      PROVE  /\ clock' = clock /\ began' \in [Req -> Time]
             /\ answering' \in SUBSET Req
  BY <1>1, <1>2, <1>4 DEF ApplyStep, Answer
<1>5. CASE \E r \in Req : RequestFails(r)
  BY <1>1, <1>5 DEF RequestFails
<1>6. CASE Tick
  BY <1>1, <1>6, PlansAssumption DEF Tick, Time
<1>7. CASE CleanPlans \/ Elsewhere \/ UNCHANGED plansVars
  BY <1>1, <1>7 DEF CleanPlans, Elsewhere, plansVars
<1>8. QED
  BY <1>1, <1>3, <1>4, <1>5, <1>6, <1>7 DEF PlansNext

LEMMA PlansTypesInit == PlansInit => PlansTypeOK
<1> SUFFICES ASSUME PlansInit PROVE PlansTypeOK
  OBVIOUS
<1>1. NothingSeen \in ProviderView
  BY DEF NothingSeen, ProviderView
<1>2. [pc |-> "planning", shown |-> NothingSeen] \in ClientState
  BY <1>1 DEF ClientState
<1>3. 0 \in Time
  BY PlansAssumption DEF Time
<1>4. QED
  BY <1>2, <1>3 DEF PlansInit, PlansTypeOK

LEMMA PlansTypesNext == IInv /\ PlansTypeOK /\ [PlansNext]_plansVars => PlansTypeOK'
BY PlanTypes, ClientTypes, ClockTypes DEF PlansTypeOK

\* Every plan row, client and clock has its type in every reachable state: a plan
\* carries the policy and the records it was made from (api/plan.js:31-60).
THEOREM PlansTypeCorrect == PlansSpec => []PlansTypeOK
<1>1. PlansSpec => []IInv
  BY PlansRefinePath, IInvHolds, PTL
<1>2. QED
  BY <1>1, PlansTypesInit, PlansTypesNext, PTL DEF PlansSpec

-----------------------------------------------------------------------------
(* The evidence of a deletion *)

LEMMA StoredInit == PlansInit => Stored /\ EvidenceKept /\ Consumed
BY DEF PlansInit, Stored, EvidenceKept, Consumed

LEMMA StoredNext == PlansInv /\ [PlansNext]_plansVars => Stored'
<1> SUFFICES ASSUME PlansInv, [PlansNext]_plansVars, NEW c \in Client,
                    plans'[c] # NoPlan \/ planAdmissions'[c] # NoOp
             PROVE  req'[PlanReq[c]].pc = "done"
  BY DEF Stored
<1> USE DEF PlansInv
<1>1. PlanReq[c] \in Req /\ [Next]_vars
  BY PlansAssumption, PlansStepIsPath
<1>2. /\ plans \in [Client -> Plan \cup {NoPlan}]
      /\ planAdmissions \in [Client -> Op \cup {NoOp}]
  BY DEF PlansTypeOK
<1>3. CASE plans[c] # NoPlan \/ planAdmissions[c] # NoOp
  BY <1>1, <1>3, DoneStays DEF Stored
<1>4. CASE plans[c] = NoPlan /\ planAdmissions[c] = NoOp
  <2>1. ASSUME NEW b \in Client, NEW o, Consumes(b, o) PROVE FALSE
    BY <1>2, <1>4, <2>1 DEF Consumes
  <2>2. ~CleanPlans
    BY <1>4 DEF CleanPlans
  <2>3. PICK b \in Client : CreatePlan(b)
    BY <1>4, <2>1, <2>2, PlanRows
  <2>4. b = c
    BY <1>2, <1>4, <2>3, CreatedPlan
  <2>5. QED
    BY <2>3, <2>4, CreatedPlan
<1>5. QED
  BY <1>3, <1>4

LEMMA PlansInvariant == PlansSpec => []PlansInv
<1>1. PlansSpec => [](IInv /\ PlansTypeOK)
  <2>1. PlansSpec => []IInv
    BY PlansRefinePath, IInvHolds, PTL
  <2>2. QED
    BY <2>1, PlansTypeCorrect, PTL
<1>2. PlansInit => Stored
  BY StoredInit
<1>3. IInv /\ PlansTypeOK /\ Stored /\ [PlansNext]_plansVars => Stored'
  BY StoredNext DEF PlansInv
<1>4. QED
  BY <1>1, <1>2, <1>3, PTL DEF PlansSpec, PlansInv

LEMMA EvidenceNext == PlansInv /\ EvidenceKept /\ [PlansNext]_plansVars => EvidenceKept'
<1> SUFFICES ASSUME PlansInv, EvidenceKept, [PlansNext]_plansVars, NEW c \in Client,
                    planAdmissions'[c] # NoOp
             PROVE  plans'[c] # NoPlan /\ plans'[c].consumed
  BY DEF EvidenceKept
<1>1. /\ plans \in [Client -> Plan \cup {NoPlan}]
      /\ planAdmissions \in [Client -> Op \cup {NoOp}]
      /\ plans' \in [Client -> Plan \cup {NoPlan}]
  BY PlanTypes DEF PlansInv, PlansTypeOK
<1>2. planAdmissions[c] # NoOp => plans[c] # NoPlan /\ plans[c].consumed
  BY DEF EvidenceKept
<1>3. ASSUME NEW b \in Client, NEW o, Consumes(b, o)
      PROVE  plans'[c] # NoPlan /\ plans'[c].consumed
  <2>1. CASE b = c
    <3>1. plans[c] \in Plan
      BY <1>1, <1>3, <2>1 DEF Consumes
    <3>2. plans'[c] = [plans[c] EXCEPT !.consumed = TRUE]
      BY <1>1, <1>3, <2>1 DEF Consumes
    <3>3. plans'[c].consumed = TRUE
      BY <3>1, <3>2 DEF Plan
    <3>4. NoPlan # plans'[c]
      BY <3>1, <3>2, NoPlanAssumption DEF Plan
    <3>5. QED
      BY <3>3, <3>4
  <2>2. CASE b # c
    BY <1>1, <1>2, <1>3, <2>2 DEF Consumes
  <2>3. QED
    BY <2>1, <2>2
<1>4. ASSUME NEW b \in Client, CreatePlan(b)
      PROVE  plans'[c] = plans[c] /\ planAdmissions' = planAdmissions
  <2>1. /\ planAdmissions' = planAdmissions /\ req[PlanReq[b]].pc = "admit"
        /\ b # c => plans'[c] = plans[c]
    BY <1>1, <1>4, CreatedPlan DEF PlansInv
  <2>2. b # c
    BY <2>1 DEF PlansInv, Stored
  <2>3. QED
    BY <2>1, <2>2
<1>5. CASE CleanPlans
  BY <1>2, <1>5 DEF CleanPlans, Expired
<1>6. QED
  BY <1>2, <1>3, <1>4, <1>5, PlanRows DEF PlansInv

\* The evidence of every operation that deletes survives every cleanup: a plan row
\* with an admission is there, consumed, for ever (maintenance.js:116).
THEOREM EvidenceStays == PlansSpec => []EvidenceKept
<1>1. PlansInit => EvidenceKept
  BY StoredInit
<1>2. QED
  BY <1>1, EvidenceNext, PlansInvariant, PTL DEF PlansSpec

-----------------------------------------------------------------------------
(* The retry of the Action *)

\* Only the tally brings a request to its verdict.
LEMMA VerdictNext ==
    IInv /\ VerdictKnown /\ [Next]_vars => VerdictKnown'
<1> SUFFICES ASSUME IInv, VerdictKnown, [Next]_vars, NEW q \in Req,
                    req'[q].pc = "update"
             PROVE  req'[q].verdict # "absent"
  BY DEF VerdictKnown
<1>1. req \in [Req -> Request]
  BY DEF IInv, RequestsOK
<1>2. CASE req'[q] = req[q]
  BY <1>2 DEF VerdictKnown
<1>3. ASSUME NEW r \in Req, RequestStep(r) \/ RequestFault(r), r # q
      PROVE  req'[q] = req[q]
  BY <1>1, <1>3, RequestStepMoves, RequestFaultMoves DEF Moved
<1>4. CASE Tally(q)
  <2>1. req'[q].verdict = Verdict(OpOf[q])
    BY <1>1, <1>4 DEF Tally, Request
  <2>2. QED
    BY <2>1 DEF Verdict
<1>5. ASSUME NEW step, step # "update", Goto(q, step) PROVE FALSE
  BY <1>1, <1>5 DEF Goto, Request
<1>6. ~Leave(q) /\ ~NextZone(q) /\ ~KeyDone(q)
  BY <1>1 DEF Leave, Fresh, NextZone, KeyDone, Request
<1>7. ~RequestFault(q)
  BY <1>5, <1>6 DEF RequestFault, WriteAborted, AnswerLost, ReadFails,
     ProviderTimeout, RequestTimeout, Crash, WriteFails
<1>8. CASE RequestStep(q) /\ ~Tally(q)
  <2>1. CASE Lookup(q) \/ ReadOwned(q) \/ ListProvider(q) \/ Classify(q) \/ Admit(q)
             \/ Reserve(q) \/ Start(q)
    BY <1>1, <1>5, <1>6, <2>1 DEF Lookup, ReadOwned, ListProvider, Classify, Admit,
       Reserve, Start, Request
  <2>2. CASE \E z \in Zone : VisitZone(q, z)
    <3>1. PICK z \in Zone : VisitZone(q, z)
      BY <2>2
    <3>2. req[q].pc = "zones"
      BY <3>1 DEF VisitZone
    <3>3. req'[q].pc \in {"zones", "zone", "zoneError"}
      BY <1>1, <3>1, <3>2 DEF VisitZone, Request
    <3>4. QED
      BY <3>3
  <2>3. CASE (\E k \in Key : TakeKey(q, k)) \/ EndZone(q)
    BY <1>1, <1>5, <2>3 DEF TakeKey, EndZone, Request
  <2>4. CASE Begin(q) \/ Mark(q) \/ Call(q) \/ Receive(q) \/ Confirm(q)
             \/ MarkUnknown(q) \/ Finish(q) \/ ZoneError(q) \/ Freeze(q) \/ Update(q)
    BY <1>5, <1>6, <2>4 DEF Begin, Mark, Call, Receive, Confirm, MarkUnknown, Finish,
       ZoneError, Freeze, Update
  <2>5. QED
    BY <1>8, <2>1, <2>2, <2>3, <2>4 DEF RequestStep
<1>9. (\A r \in Req : ~(RequestStep(r) \/ RequestFault(r))) => UNCHANGED req
  BY OperatorStepTables DEF Next, Environment, ProviderApply, ProviderReject, Drift,
     SyncPolicy, vars
<1>10. QED
  BY <1>2, <1>3, <1>4, <1>7, <1>8, <1>9

\* No batch but updateOperation's could take an operation's row away.
LEMMA BatchesKeepRows ==
    ASSUME TablesOK, NEW q \in Op, operations[q].status # "absent",
           UNCHANGED tables
           \/ (\E o \in Op, t \in Token : ReuseBatch(o, t))
           \/ (\E r \in Req : OpOf[r] \in Op /\ ReserveNew(r))
           \/ \E o \in Op :
                \/ StartStatement(o)
                \/ \E k : \/ SentStatement(o, k) \/ ConfirmBatch(o, k)
                          \/ IndeterminateBatch(o, k)
                          \/ \E action, target : BeginBatch(o, k, action, target)
                          \/ \E decision, p : ResolveBatch(o, k, decision, p)
                \/ \E z : FinishBatch(o, z) \/ FailedBatch(o, z) \/ FreezeBatch(o, z)
                \/ \E status : status # "absent" /\ UpdateStatement(o, status)
    PROVE  operations'[q].status # "absent"
<1>1. operations \in [Op -> OperationRow]
  BY DEF TablesOK, StoreTypeOK
<1>2. ASSUME UNCHANGED operations PROVE operations'[q].status # "absent"
  BY <1>2
<1>3. ASSUME NEW o \in Op, NEW status, status # "absent" \/ status = operations[o].status,
             SetStatus(o, status)
      PROVE  operations'[q].status # "absent"
  BY <1>1, <1>3 DEF SetStatus, OperationRow
<1>4. ASSUME NEW r \in Req, OpOf[r] \in Op, ReserveNew(r)
      PROVE  operations'[q].status # "absent"
  BY <1>1, <1>4 DEF ReserveNew, ReserveBatch
<1>5. ASSUME NEW o \in Op, NEW k, NEW decision, NEW p, ResolveBatch(o, k, decision, p)
      PROVE  operations'[q].status # "absent"
  <2>1. \E status : /\ SetStatus(o, status)
                    /\ status = "reconciled" \/ status = operations[o].status
    BY <1>5 DEF ResolveBatch
  <2>2. QED
    BY <1>3, <2>1
<1>6. ASSUME NEW o \in Op,
             \/ StartStatement(o)
             \/ \E k : IndeterminateBatch(o, k)
             \/ \E z : FreezeBatch(o, z)
             \/ \E status : status # "absent" /\ UpdateStatement(o, status)
      PROVE  operations'[q].status # "absent"
  BY <1>3, <1>6 DEF StartStatement, IndeterminateBatch, FreezeBatch, UpdateStatement
<1>7. QED
  BY <1>2, <1>4, <1>5, <1>6 DEF ReuseBatch, SentStatement, ConfirmBatch, BeginBatch,
     FinishBatch, FailedBatch, tables

LEMMA RowsStay ==
    ASSUME IInv, VerdictKnown, [Next]_vars, NEW o \in Op,
           operations[o].status # "absent"
    PROVE  operations'[o].status # "absent"
<1>1. TablesOK /\ \A r \in Req : OpOf[r] \in Op /\ TokenOf[r] \in Token
  BY RequestArguments DEF IInv
<1>2. CASE UNCHANGED tables
  BY <1>2 DEF tables
<1>3. ASSUME NEW p \in Op, NEW k \in Key, OperatorStep(p, k)
      PROVE  operations'[o].status # "absent"
  BY <1>1, <1>3, BatchesKeepRows DEF OperatorStep, Resolve
<1>4. ASSUME NEW r \in Req, RequestStep(r) PROVE operations'[o].status # "absent"
  <2>1. CASE Update(r)
    BY <1>1, <2>1, BatchesKeepRows DEF Update, VerdictKnown
  <2>2. CASE ~Update(r)
    BY <1>1, <1>2, <1>4, <2>2, BatchesKeepRows DEF RequestStep, Lookup, ReadOwned,
       ListProvider, Classify, Admit, Reserve, Start, VisitZone, TakeKey, EndZone,
       Begin, BeginIntent, Mark, Call, Receive, Confirm, MarkUnknown, Finish,
       ZoneError, Freeze, Tally
  <2>3. QED
    BY <2>1, <2>2
<1>5. ASSUME NEW r \in Req, RequestFault(r) PROVE operations'[o].status # "absent"
  BY <1>1, <1>2, <1>5, BatchesKeepRows DEF RequestFault, WriteAborted,
     AnswerLost, ReadFails, ProviderTimeout, RequestTimeout, Crash, PendingWrite,
     BeginIntent, VerdictKnown
<1>6. QED
  BY <1>2, <1>3, <1>4, <1>5 DEF Next, Environment, ProviderApply, ProviderReject,
     Drift, SyncPolicy, vars

LEMMA ConsumedNext == RetryInv /\ [PlansNext]_plansVars => Consumed'
<1> SUFFICES ASSUME RetryInv, [PlansNext]_plansVars PROVE Consumed'
  OBVIOUS
<1> USE DEF RetryInv, PlansInv
<1>1. /\ planAdmissions \in [Client -> Op \cup {NoOp}]
      /\ client \in [Client -> ClientState]
      /\ [Next]_vars
  BY PlansStepIsPath DEF PlansTypeOK
<1>2. \A c \in Client : planAdmissions[c] # NoOp =>
         operations'[planAdmissions[c]].status # "absent"
  BY <1>1, RowsStay DEF Consumed
<1>3. \A c \in Client : planAdmissions[c] # NoOp =>
         client'[c].shown = client[c].shown
  <2>1. ASSUME NEW b \in Client, CreatePlan(b)
        PROVE  /\ client' = client \/ \E state : client' = [client EXCEPT ![b] = state]
               /\ planAdmissions[b] = NoOp
    BY <2>1 DEF CreatePlan, Stored
  <2>2. ASSUME NEW b \in Client, NEW pc, client' = [client EXCEPT ![b].pc = pc]
        PROVE  \A c \in Client : client'[c].shown = client[c].shown
    BY <1>1, <2>2 DEF ClientState
  <2>3. ASSUME NEW b \in Client, NEW r \in Req, Answer(b, r)
        PROVE  \A c \in Client : client'[c].shown = client[c].shown
    BY <2>2, <2>3 DEF Answer
  <2>4. ASSUME NEW b \in Client, NEW r \in Req,
               PlanStep(b) \/ ApplyStep(b, r) \/ RequestFails(r)
        PROVE  client' = client
    BY <2>4 DEF PlanStep, ApplyStep, RequestFails
  <2>5. CASE CleanPlans \/ Tick \/ Elsewhere \/ UNCHANGED plansVars
    BY <2>5 DEF CleanPlans, Tick, Elsewhere, plansVars
  <2>6. CASE \E b \in Client : PlanStep(b) \/ CreatePlan(b) \/ Fail(b)
    <3>1. PICK b \in Client : PlanStep(b) \/ CreatePlan(b) \/ Fail(b)
      BY <2>6
    <3>2. CASE CreatePlan(b)
      BY <1>1, <2>1, <3>2
    <3>3. CASE Fail(b)
      BY <2>2, <3>3 DEF Fail
    <3>4. CASE PlanStep(b)
      BY <3>4 DEF PlanStep
    <3>5. QED
      BY <3>1, <3>2, <3>3, <3>4
  <2>7. CASE \E r \in Req : RequestFails(r)
    BY <2>7 DEF RequestFails
  <2>8. QED
    BY <2>3, <2>4, <2>5, <2>6, <2>7 DEF PlansNext
<1>4. ASSUME NEW r \in Req, ClientOf(r) \in Client, Named(r) = ClientOf(r),
             Consumes(ClientOf(r), OpOf[r]), client' = client
      PROVE  Consumed'
  <2> DEFINE b == ClientOf(r)
  <2>1. /\ operations[OpOf[r]].status = "absent"
        /\ operations'[OpOf[r]].status # "absent"
        /\ planAdmissions'[b] = OpOf[r]
        /\ \A c \in Client \ {b} : planAdmissions'[c] = planAdmissions[c]
    BY <1>1, <1>4 DEF Consumes
  <2>2. b # NoPlan /\ Named(r) # NoPlan
    BY <1>4, PlansAssumption
  <2>3. client[b].shown # NothingSeen
    BY <2>2 DEF Named
  <2>4. \A c \in Client \ {b} : planAdmissions[c] # OpOf[r] \/ planAdmissions[c] = NoOp
    BY <2>1 DEF Consumed
  <2> HIDE DEF b
  <2>5. OpOf[r] # NoOp
    BY ApplyAssumption, StoreAssumption
  <2>6. QED
    BY <1>2, <1>4, <2>1, <2>3, <2>4, <2>5 DEF Consumed
<1>5. CASE UNCHANGED planAdmissions
  BY <1>2, <1>3, <1>5 DEF Consumed
<1>6. QED
  BY <1>4, <1>5, PlanRows DEF CreatePlan, CleanPlans

LEMMA RetryInvariant == PlansSpec => []RetryInv
<1>1. PlansInit => VerdictKnown /\ Consumed
  BY StoredInit DEF PlansInit, Init, Fresh, VerdictKnown
<1>2. PlansInv /\ VerdictKnown /\ [PlansNext]_plansVars => VerdictKnown'
  BY VerdictNext, PlansStepIsPath DEF PlansInv
<1>3. PlansInv /\ VerdictKnown /\ Consumed /\ [PlansNext]_plansVars => Consumed'
  BY ConsumedNext DEF RetryInv
<1>4. QED
  BY <1>1, <1>2, <1>3, PlansInvariant, PTL DEF PlansSpec, RetryInv

\* The plan a retry names is the one its operation was admitted under.
LEMMA RetryAgrees ==
    ASSUME RetryInv, NEW c \in Client, planAdmissions[c] = OpOf[RetryReq[c]]
    PROVE  PlanAgrees(RetryReq[c]) /\ operations[OpOf[RetryReq[c]]].status # "absent"
<1> DEFINE r == RetryReq[c]
<1>1. r \in Req /\ OpOf[r] \in Op /\ OpOf[r] # NoOp
  BY PlansAssumption, ApplyAssumption, StoreAssumption
<1>2. /\ client[c].shown # NothingSeen
      /\ operations[OpOf[r]].status # "absent"
      /\ \A b \in Client : planAdmissions[b] = OpOf[r] => b = c
  BY <1>1 DEF RetryInv, Consumed
<1>3. ClientOf(r) = c
  BY PlansAssumption DEF ClientOf
<1>4. Named(r) = c /\ c # NoPlan
  BY <1>2, <1>3, PlansAssumption DEF Named
<1>5. QED
  BY <1>2, <1>4 DEF PlanAgrees

\* What refuses a retry is a new policy or changed records, never the plan: not
\* although the first attempt consumed it, and not although it expired since, for
\* every number of clients (client.js:394, admission.js:56-83).
THEOREM RetryIsKept == PlansSpec => RetryKeepsItsPlan
<1>1. ASSUME RetryInv, [PlansNext]_plansVars, NEW c \in Client,
             planAdmissions[c] = OpOf[RetryReq[c]],
             req[RetryReq[c]].pc = "admit", req'[RetryReq[c]].pc = "done",
             faults' = faults
      PROVE  ~RowMatches(RetryReq[c])
  <2> DEFINE r == RetryReq[c]
  <2>1. r \in Req /\ req \in [Req -> Request] /\ faults \in Nat
    BY <1>1, PlansAssumption, ApplyAssumption
       DEF RetryInv, PlansInv, IInv, RequestsOK, WorldOK
  <2>2. ASSUME NEW q \in Req, RequestStep(q) PROVE q = r
    BY <1>1, <2>1, <2>2, RequestStepMoves DEF RetryInv, PlansInv, Moved
  <2>3. ASSUME NEW q \in Req, RequestFault(q) PROVE FALSE
    BY <1>1, <2>1, <2>3 DEF RequestFault, WriteAborted, AnswerLost, ReadFails,
       ProviderTimeout, RequestTimeout, Crash, Inject
  <2>4. ASSUME NEW b \in Client, NEW q \in Req, ApplyStep(b, q) PROVE PlanRules(r)
    BY <2>2, <2>4 DEF ApplyStep
  <2>5. ASSUME NEW b \in Client, PlanStep(b) PROVE FALSE
    BY <1>1, <2>2, <2>5, PlansAssumption DEF PlanStep
  <2>6. ASSUME NEW b \in Client, CreatePlan(b) PROVE FALSE
    <3>1. PlanReq[b] = r
      BY <2>2, <2>6, CreateIsAdmit, PlansAssumption
    <3>2. OpOf[r] \in Preview /\ OpOf[r] \notin Preview
      BY <3>1, PlansAssumption
    <3>3. QED
      BY <3>2
  <2>7. ~ UNCHANGED req
    BY <1>1
  <2>8. ASSUME Elsewhere PROVE UNCHANGED req
    BY <1>1, <2>8, OperatorStepTables DEF Elsewhere, Environment, ProviderApply,
       ProviderReject, Drift, SyncPolicy, RetryInv, PlansInv
  <2>9. PlanRules(r)
    BY <1>1, <2>3, <2>4, <2>5, <2>6, <2>7, <2>8 DEF PlansNext, plansVars, vars, Fail,
       Answer, RequestFails, CleanPlans, Tick
  <2>10. ~Admissible(r)
    BY <1>1, <2>9 DEF PlanRules
  <2>11. QED
    BY <1>1, <2>10, RetryAgrees DEF Admissible
<1>2. RetryInv /\ [PlansNext]_plansVars =>
         [\A c \in Client :
             LET r == RetryReq[c]
             IN  /\ planAdmissions[c] = OpOf[r]
                 /\ req[r].pc = "admit" /\ req'[r].pc = "done"
                 /\ faults' = faults
                 => ~RowMatches(r)]_plansVars
  BY <1>1
<1>3. QED
  BY <1>2, RetryInvariant, PTL DEF PlansSpec, RetryKeepsItsPlan

-----------------------------------------------------------------------------
(* The deletions a client was shown *)

\* The steps of a request behind the admission.
Reserving == {"reserve", "start"} \cup Executing

\* Only the requests of clients are admitted, and they wait for the plan.
InOrder ==
    /\ \A r \in Req : req[r].pc \in Reserving =>
          \E c \in Client : r \in {ApplyReq[c], RetryReq[c]}
    /\ \A c \in Client :
          /\ client[c].pc = "planning" =>
                req[ApplyReq[c]].pc = "lookup" /\ req[RetryReq[c]].pc = "lookup"
          /\ client[c].shown # NothingSeen => req[PlanReq[c]].pc = "done"

\* The keys an operation deletes wherever it finds them.
Prunable(o) == {k \in Key : KeyZone(k) \in PruneZones[o] /\ k \notin DesiredKeys(o)}

\* The deletable records a plan was made from are those its client was shown.
PlanShown ==
    \A c \in Client : plans[c] # NoPlan /\ client[c].shown # NothingSeen =>
        \A k \in Prunable(OpOf[ApplyReq[c]]) : client[c].shown[k] = plans[c].digest[k]

\* An operation keeps the records of the plan it was admitted under, and there was
\* nothing to delete when it was admitted without.
RowPlanned ==
    /\ \A c \in Client : planAdmissions[c] # NoOp =>
          operations[planAdmissions[c]].digest = plans[c].digest
    /\ \A o \in Op : (\A c \in Client : planAdmissions[c] # o) =>
          \A k \in Prunable(o) : operations[o].digest[k] = {}

\* What an admitted request deletes in the zones not yet done, its client was shown.
Unfinished == {"absent", "pending", "failed"}
ShownTo(c, r) ==
    req[r].pc \in Reserving =>
        \A k \in PruneKeys(r) :
            operationZones[OpOf[r]][KeyZone(k)] \in Unfinished
                => req[r].seen[k] \subseteq client[c].shown[k]

ShownInv ==
    /\ InOrder /\ PlanShown /\ RowPlanned
    /\ \A c \in Client : \A r \in {ApplyReq[c], RetryReq[c]} : ShownTo(c, r)

\* What the mutation path guarantees in each state.
PathOK == ExecInv /\ ZoneInv /\ SeenInv

LEMMA PruneIsDelete ==
    ASSUME NEW r \in Req, NEW k \in Key
    PROVE  /\ k \in PruneKeys(r) => k \in Prunable(OpOf[r]) /\ req[r].owned[k] # NoRow
           /\ k \in Prunable(OpOf[r]) \ PruneKeys(r) => req[r].owned[k] = NoRow
           /\ Change(r, k) = "delete" => k \in PruneKeys(r)
BY DEF PruneKeys, Prunable, Change

\* The records a request may delete are in its digest; those it does not own are
\* not there when it looks.
LEMMA DigestDeletes ==
    ASSUME SeenInv, NEW r \in Req, req[r].pc \in Accepting, NEW k \in Prunable(OpOf[r])
    PROVE  Digest(r)[k] = IF k \in PruneKeys(r) THEN req[r].seen[k] ELSE {}
<1>1. k \in Key
  BY DEF Prunable
<1>2. CASE k \in PruneKeys(r)
  BY <1>1, <1>2 DEF Digest
<1>3. CASE k \notin PruneKeys(r)
  <2>1. req[r].owned[k] = NoRow
    BY <1>1, <1>3, PruneIsDelete
  <2>2. ASSUME NEW j \in DesiredKeys(OpOf[r]), SetOf[j] = SetOf[k]
        PROVE  req[r].seen[k] = {}
    <3>1. k \in KeysOf(SetOf[j])
      BY <1>1, <2>2 DEF KeysOf
    <3>2. QED
      BY <2>1, <2>2, <3>1 DEF SeenInv, SeenOK, SetVerified
  <2>3. QED
    BY <1>1, <1>3, <2>2 DEF Digest
<1>4. QED
  BY <1>2, <1>3

\* A zone that was finished, frozen or reconciled is not opened again.
LEMMA ZonesSink ==
    ASSUME IInv, ZoneInv, [Next]_vars, NEW o \in Op, NEW z \in Zone,
           operationZones'[o][z] \in Unfinished
    PROVE  operationZones[o][z] \in Unfinished
<1>1. TableStep /\ operationZones \in [Op -> [Zone -> ZoneStatus]]
  BY NextShape DEF IInv, TablesOK, StoreTypeOK
<1>2. ASSUME NEW p \in Op, NEW t \in Token, NEW zones \in SUBSET Zone,
             NEW sets \in SUBSET RecordSet, NEW newClaims \in SUBSET RecordSet,
             NEW version \in 0..MaxPolicy, NEW digest \in ProviderView,
             ReserveBatch(p, t, zones, sets, newClaims, version, digest)
      PROVE  operationZones[o][z] \in Unfinished
  <2>1. CASE p = o
    BY <1>2, <2>1 DEF ReserveBatch, ZoneInv, RowsOK, Unfinished
  <2>2. CASE p # o
    BY <1>1, <1>2, <2>2 DEF ReserveBatch
  <2>3. QED
    BY <2>1, <2>2
<1>3. ASSUME NEW p \in Op, NEW y \in Zone, NEW status, SetZone(p, y, status),
             status \in Unfinished => operationZones[p][y] \in Unfinished
      PROVE  operationZones[o][z] \in Unfinished
  BY <1>1, <1>3 DEF SetZone
<1>4. ASSUME NEW p \in Op, NEW k \in Key, IndeterminateBatch(p, k)
      PROVE  operationZones[o][z] \in Unfinished
  <2>1. KeyZone(k) \in Zone
    BY StoreAssumption DEF KeyZone
  <2>2. QED
    BY <1>3, <1>4, <2>1 DEF IndeterminateBatch, Unfinished
<1>5. ASSUME NEW p \in Op, NEW y \in Zone,
             FinishBatch(p, y) \/ FailedBatch(p, y) \/ FreezeBatch(p, y)
      PROVE  operationZones[o][z] \in Unfinished
  BY <1>3, <1>5 DEF FinishBatch, FailedBatch, FreezeBatch, Unfinished
<1>6. ASSUME NEW p \in Op, NEW k \in Key, NEW decision, NEW q,
             ResolveBatch(p, k, decision, q)
      PROVE  operationZones[o][z] \in Unfinished
  <2>1. KeyZone(k) \in Zone
    BY StoreAssumption DEF KeyZone
  <2>2. PICK status \in {operationZones[p][KeyZone(k)], "reconciled"} :
           SetZone(p, KeyZone(k), status)
    BY <1>6 DEF ResolveBatch
  <2>3. QED
    BY <1>3, <2>1, <2>2 DEF Unfinished
<1>7. CASE UNCHANGED operationZones
  BY <1>7
<1>8. QED
  BY <1>1, <1>2, <1>4, <1>5, <1>6, <1>7 DEF TableStep, ReuseBatch, StartStatement,
     BeginBatch, SentStatement, ConfirmBatch, UpdateStatement, tables

\* The requests of the clients: plans are not applied.
LEMMA ClientRequests ==
    ASSUME NEW b \in Client, NEW c \in Client, NEW r \in {ApplyReq[c], RetryReq[c]}
    PROVE  /\ r \in Req /\ PlanReq[b] \in Req /\ PlanReq[b] # r
           /\ OpOf[r] = OpOf[ApplyReq[c]]
           /\ ClientOf(r) = c
           /\ r \in {ApplyReq[b], RetryReq[b]} => b = c
<1>1. /\ r \in Req /\ PlanReq[b] \in Req
      /\ OpOf[r] = OpOf[ApplyReq[c]]
      /\ OpOf[r] \notin Preview /\ OpOf[PlanReq[b]] \in Preview
  <2>1. /\ PlanReq[b] \in Req /\ ApplyReq[c] \in Req /\ RetryReq[c] \in Req
        /\ OpOf[ApplyReq[c]] = OpOf[RetryReq[c]]
        /\ OpOf[ApplyReq[c]] \notin Preview /\ OpOf[PlanReq[b]] \in Preview
    BY PlansAssumption
  <2>2. QED
    BY <2>1
<1>2. ASSUME NEW d \in Client, r \in {PlanReq[d], ApplyReq[d], RetryReq[d]}
      PROVE  d = c
  <2>1. {PlanReq[d], ApplyReq[d], RetryReq[d]}
          \cap {PlanReq[c], ApplyReq[c], RetryReq[c]} # {}
    BY <1>2
  <2>2. QED
    BY <2>1, PlansAssumption
<1>3. ClientOf(r) = c
  BY <1>2 DEF ClientOf
<1>4. QED
  BY <1>1, <1>2, <1>3

\* Of a request's statements only the reservation inserts a row or writes its
\* digest.
LEMMA RowStays ==
    ASSUME IInv, ExecInv, NEW r \in Req, RequestStep(r) \/ RequestFault(r),
           ~(req[r].pc = "reserve" /\ ReserveNew(r)), NEW o \in Op
    PROVE  /\ operations'[o].digest = operations[o].digest
           /\ operations[o].status = "absent" => operations'[o].status = "absent"
<1>1. operations \in [Op -> OperationRow] /\ OpOf[r] \in Op
  BY RequestArguments DEF IInv, TablesOK, StoreTypeOK
<1>2. ASSUME NEW status, operations[OpOf[r]].status # "absent", SetStatus(OpOf[r], status)
      PROVE  /\ operations'[o].digest = operations[o].digest
             /\ operations[o].status = "absent" => operations'[o].status = "absent"
  BY <1>1, <1>2 DEF SetStatus, OperationRow
<1>3. req[r].pc \in Executing => operations[OpOf[r]].status # "absent"
  BY DEF ExecInv, MayStart
<1>4. UNCHANGED operations
        \/ (operations[OpOf[r]].status # "absent" /\ \E status : SetStatus(OpOf[r], status))
  <2> USE DEF tables, ReuseBatch, StartStatement, BeginIntent, BeginBatch,
      SentStatement, ConfirmBatch, IndeterminateBatch, FinishBatch, FailedBatch,
      FreezeBatch, UpdateStatement
  <2>1. CASE RequestStep(r)
    <3>1. CASE Lookup(r) \/ ReadOwned(r) \/ ListProvider(r) \/ Classify(r) \/ Admit(r)
               \/ Reserve(r) \/ Start(r)
      BY <3>1 DEF Lookup, ReadOwned, ListProvider, Classify, Admit, Reserve, Start
    <3>2. CASE Begin(r) \/ Mark(r) \/ Call(r) \/ Receive(r) \/ Confirm(r)
               \/ Finish(r) \/ ZoneError(r)
      BY <3>2 DEF Begin, Mark, Call, Receive, Confirm, Finish, ZoneError
    <3>3. CASE MarkUnknown(r) \/ Freeze(r) \/ Update(r)
      BY <1>3, <3>3 DEF MarkUnknown, Freeze, Update, Executing
    <3>4. QED
      BY <2>1, <3>1, <3>2, <3>3 DEF RequestStep, VisitZone, TakeKey, EndZone, Tally
  <2>2. CASE RequestFault(r)
    <3>1. CASE AnswerLost(r)
      BY <1>3, <3>1 DEF AnswerLost, PendingWrite, Executing
    <3>2. QED
      BY <2>2, <3>1 DEF RequestFault, WriteAborted, ReadFails, ProviderTimeout,
         RequestTimeout, Crash
  <2>3. QED
    BY <2>1, <2>2
<1>5. QED
  BY <1>1, <1>2, <1>4

LEMMA OthersKeepRows ==
    ASSUME IInv, NEW p \in Op, NEW k \in Key, OperatorStep(p, k), NEW o \in Op
    PROVE  operations'[o].digest = operations[o].digest
<1>1. operations \in [Op -> OperationRow]
  BY DEF IInv, TablesOK, StoreTypeOK
<1>2. PICK status : SetStatus(p, status)
  BY DEF OperatorStep, Resolve, ResolveBatch
<1>3. QED
  BY <1>1, <1>2 DEF SetStatus, OperationRow

\* What a step of the plans is to the rows of the operations: an insertion, with
\* the plan it consumes, or nothing to their digests.
LEMMA Inserting ==
    ASSUME PlansInv, ExecInv, InOrder, [PlansNext]_plansVars
    PROVE  \/ /\ UNCHANGED planAdmissions
              /\ \A o \in Op : operations'[o].digest = operations[o].digest
           \/ \E r \in Req :
                 req[r].pc = "reserve" /\ ReserveNew(r) /\ Consume(r) /\ UNCHANGED client
<1> DEFINE Digests == \A o \in Op : operations'[o].digest = operations[o].digest
<1> USE DEF PlansInv
<1>1. ASSUME NEW r \in Req, RequestStep(r) \/ RequestFault(r), Consume(r),
             ~(req[r].pc = "reserve" /\ ReserveNew(r))
      PROVE  UNCHANGED planAdmissions /\ Digests
  <2>1. OpOf[r] \in Op
    BY ApplyAssumption
  <2>2. QED
    BY <1>1, <2>1, RowStays DEF Consume
<1>2. ASSUME NEW c \in Client, NEW r \in Req, ApplyStep(c, r)
      PROVE  RequestStep(r) /\ Consume(r) /\ UNCHANGED client
  BY <1>2 DEF ApplyStep
<1>3. ASSUME NEW r \in Req, RequestFails(r)
      PROVE  RequestFault(r) /\ Consume(r) /\ UNCHANGED client
  BY <1>3 DEF RequestFails
<1>4. ASSUME NEW c \in Client, PlanStep(c) PROVE UNCHANGED planAdmissions /\ Digests
  <2>1. PlanReq[c] \in Req /\ RequestStep(PlanReq[c]) /\ UNCHANGED planAdmissions
    BY <1>4, PlansAssumption DEF PlanStep
  <2>2. req[PlanReq[c]].pc # "reserve"
    BY <2>1, ClientRequests DEF InOrder, Reserving
  <2>3. QED
    BY <2>1, <2>2, RowStays
<1>5. ASSUME NEW c \in Client, CreatePlan(c) \/ Fail(c)
      PROVE  UNCHANGED planAdmissions /\ Digests
  BY <1>5 DEF CreatePlan, Fail, tables, vars
<1>6. ASSUME NEW c \in Client, NEW r \in Req, Answer(c, r)
      PROVE  UNCHANGED planAdmissions /\ Digests
  BY <1>6 DEF Answer, tables, vars
<1>7. CASE CleanPlans \/ Tick \/ UNCHANGED plansVars
  BY <1>7 DEF CleanPlans, Tick, plansVars, tables, vars
<1>8. CASE Elsewhere
  BY <1>8, OthersKeepRows DEF Elsewhere, Environment, ProviderApply, ProviderReject,
     Drift, SyncPolicy, tables
<1> HIDE DEF Digests
<1>9. QED
  BY <1>1, <1>2, <1>3, <1>4, <1>5, <1>6, <1>7, <1>8 DEF PlansNext, Digests

\* A client is shown its deletions once, and never plans again.
LEMMA ClientMoves ==
    ASSUME PlansTypeOK, [PlansNext]_plansVars, NEW c \in Client
    PROVE  \/ /\ client'[c].shown = client[c].shown
              /\ client'[c].pc = "planning" => client[c].pc = "planning"
           \/ CreatePlan(c)
<1> DEFINE Kept == /\ client'[c].shown = client[c].shown
                   /\ client'[c].pc = "planning" => client[c].pc = "planning"
<1>1. client \in [Client -> ClientState]
  BY DEF PlansTypeOK
<1>2. ASSUME NEW b \in Client, NEW pc \in {"success", "failed", "retrying"},
             client' = [client EXCEPT ![b].pc = pc]
      PROVE  Kept
  BY <1>1, <1>2 DEF ClientState
<1>3. ASSUME NEW b \in Client, NEW r \in Req, Answer(b, r) PROVE Kept
  <2>1. \A complete \in BOOLEAN :
           Outcome(b, complete) \in {"success", "failed", "retrying"}
    BY DEF Outcome
  <2>2. client' = client
          \/ \E complete \in BOOLEAN : client' = [client EXCEPT ![b].pc = Outcome(b, complete)]
    BY <1>3 DEF Answer
  <2>3. QED
    BY <1>2, <2>1, <2>2
<1>4. ASSUME NEW b \in Client, Fail(b) PROVE Kept
  BY <1>2, <1>4 DEF Fail
<1>5. ASSUME NEW b \in Client, b # c, CreatePlan(b) PROVE Kept
  BY <1>1, <1>5 DEF CreatePlan
<1>6. ASSUME UNCHANGED client PROVE Kept
  BY <1>6
<1>7. ASSUME NEW b \in Client, NEW r \in Req, PlanStep(b) \/ ApplyStep(b, r)
      PROVE  UNCHANGED client
  BY <1>7 DEF PlanStep, ApplyStep
<1>8. CASE (\E r \in Req : RequestFails(r)) \/ CleanPlans \/ Tick \/ Elsewhere
           \/ UNCHANGED plansVars
  BY <1>6, <1>8 DEF RequestFails, CleanPlans, Tick, Elsewhere, plansVars
<1> HIDE DEF Kept
<1>9. CASE \E b \in Client : PlanStep(b) \/ CreatePlan(b) \/ Fail(b)
  <2>1. PICK b \in Client : PlanStep(b) \/ CreatePlan(b) \/ Fail(b)
    BY <1>9
  <2>2. PlanStep(b) => Kept
    BY <1>6 DEF PlanStep
  <2>3. QED
    BY <1>4, <1>5, <2>1, <2>2 DEF Kept
<1>10. CASE \E b \in Client, r \in Req : ApplyStep(b, r) \/ Answer(b, r)
  BY <1>3, <1>6, <1>7, <1>10 DEF Kept
<1>11. QED
  BY <1>8, <1>9, <1>10 DEF PlansNext, Kept

\* A step moves the request of an apply, of a plan, or fails it.
LEMMA RequestMoves ==
    ASSUME PlansInv, [PlansNext]_plansVars, NEW q \in Req
    PROVE  \/ req'[q] = req[q]
           \/ \E c \in Client : ApplyStep(c, q)
           \/ \E c \in Client : q = PlanReq[c] /\ (PlanStep(c) \/ CreatePlan(c))
           \/ RequestFails(q)
<1> USE DEF PlansInv
<1>1. req \in [Req -> Request]
  BY DEF IInv, RequestsOK
<1>2. ASSUME NEW r \in Req, RequestStep(r) \/ RequestFault(r), r # q
      PROVE  req'[q] = req[q]
  BY <1>1, <1>2, RequestStepMoves, RequestFaultMoves DEF Moved
<1>3. ASSUME NEW c \in Client, NEW r \in Req, ApplyStep(c, r), r # q
      PROVE  req'[q] = req[q]
  BY <1>2, <1>3 DEF ApplyStep
<1>4. ASSUME NEW c \in Client, PlanStep(c) \/ CreatePlan(c), PlanReq[c] # q
      PROVE  req'[q] = req[q]
  BY <1>2, <1>4, CreateIsAdmit, PlansAssumption DEF PlanStep
<1>5. ASSUME NEW r \in Req, RequestFails(r), r # q PROVE req'[q] = req[q]
  BY <1>2, <1>5 DEF RequestFails
<1>6. ASSUME NEW c \in Client, NEW r \in Req, Fail(c) \/ Answer(c, r)
      PROVE  UNCHANGED req
  BY <1>6 DEF Fail, Answer, vars
<1>7. CASE CleanPlans \/ Tick \/ Elsewhere \/ UNCHANGED plansVars
  BY <1>7, OperatorStepTables DEF CleanPlans, Tick, Elsewhere, Environment,
     ProviderApply, ProviderReject, Drift, SyncPolicy, plansVars, vars
<1>8. QED
  BY <1>3, <1>4, <1>5, <1>6, <1>7 DEF PlansNext

\* A request is admitted by the rules of Plans, on what it has seen.
LEMMA Admitting ==
    ASSUME PlansInv, [PlansNext]_plansVars, NEW q \in Req,
           req'[q].pc \in Reserving
    PROVE  /\ req'[q].owned = req[q].owned /\ req'[q].seen = req[q].seen
           /\ \/ req[q].pc \in Reserving
              \/ /\ req[q].pc = "admit" /\ Admissible(q)
                 /\ \E c \in Client : q \in {ApplyReq[c], RetryReq[c]}
<1> USE DEF PlansInv
<1>1. CASE req'[q] = req[q]
  BY <1>1
<1>2. ASSUME RequestStep(q) \/ RequestFault(q)
      PROVE  /\ req'[q].owned = req[q].owned /\ req'[q].seen = req[q].seen
             /\ req[q].pc \in Reserving \/ (req[q].pc = "admit" /\ req'[q].pc = "reserve")
  BY <1>2, StepReads DEF Reads, Reserving, Executing, Fresh
<1>3. ASSUME NEW c \in Client, ApplyStep(c, q)
      PROVE  /\ req'[q].owned = req[q].owned /\ req'[q].seen = req[q].seen
             /\ \/ req[q].pc \in Reserving
                \/ /\ req[q].pc = "admit" /\ Admissible(q)
                   /\ q \in {ApplyReq[c], RetryReq[c]}
  BY <1>2, <1>3 DEF ApplyStep, PlanRules
<1>4. ASSUME NEW c \in Client, q = PlanReq[c], PlanStep(c) \/ CreatePlan(c)
      PROVE  /\ req'[q].owned = req[q].owned /\ req'[q].seen = req[q].seen
             /\ req[q].pc \in Reserving
  <2>1. CASE PlanStep(c)
    BY <1>2, <1>4, <2>1 DEF PlanStep
  <2>2. CASE CreatePlan(c)
    BY <1>4, <2>2, CreatedPlan DEF Reserving, Executing
  <2>3. QED
    BY <1>4, <2>1, <2>2
<1>5. ASSUME RequestFails(q)
      PROVE  /\ req'[q].owned = req[q].owned /\ req'[q].seen = req[q].seen
             /\ req[q].pc \in Reserving
  <2>1. ASSUME req[q].pc = "admit", req'[q].pc = "reserve" PROVE FALSE
    <3>1. Leave(q)
      BY <1>5, <2>1 DEF RequestFails, RequestFault, WriteAborted, AnswerLost,
         ReadFails, ProviderTimeout, RequestTimeout, Crash, WriteFails
    <3>2. QED
      BY <2>1, <3>1, Fields
  <2>2. QED
    BY <1>2, <1>5, <2>1 DEF RequestFails
<1>6. QED
  BY <1>1, <1>3, <1>4, <1>5, RequestMoves

LEMMA InOrderNext == PlansInv /\ InOrder /\ [PlansNext]_plansVars => InOrder'
<1> SUFFICES ASSUME PlansInv, InOrder, [PlansNext]_plansVars PROVE InOrder'
  OBVIOUS
<1>1. ASSUME NEW r \in Req, req'[r].pc \in Reserving
      PROVE  \E c \in Client : r \in {ApplyReq[c], RetryReq[c]}
  BY <1>1, Admitting DEF InOrder
<1>2. ASSUME NEW c \in Client, client'[c].pc = "planning",
             NEW r \in {ApplyReq[c], RetryReq[c]}
      PROVE  req'[r].pc = "lookup"
  <2>1. CASE CreatePlan(c)
    <3>1. PlanReq[c] # r /\ r \in Req /\ PlanReq[c] \in Req
      BY ClientRequests
    <3>2. req'[r] = req[r]
      <4>1. Moved(PlanReq[c])
        BY <2>1, <3>1, CreateIsAdmit, RequestStepMoves DEF PlansInv
      <4>2. QED
        BY <3>1, <4>1 DEF Moved, PlansInv, IInv, RequestsOK
    <3>3. client[c].pc = "planning"
      BY <1>2, <2>1 DEF CreatePlan, PlansInv, PlansTypeOK, ClientState
    <3>4. QED
      BY <3>2, <3>3 DEF InOrder
  <2>2. CASE client[c].pc = "planning"
    <3>1. req[r].pc = "lookup" /\ r \in Req
      BY <2>2, ClientRequests DEF InOrder
    <3>2. ASSUME NEW b \in Client, ApplyStep(b, r) PROVE FALSE
      <4>1. b = c
        BY <3>2, ClientRequests DEF ApplyStep
      <4>2. r \in {PlanReq[c]}
        BY <2>2, <3>1, <3>2, <4>1 DEF ApplyStep, Awaited
      <4>3. QED
        BY <4>2, ClientRequests
    <3>3. \A b \in Client : r # PlanReq[b]
      BY ClientRequests
    <3>4. ~RequestFails(r)
      BY <3>1 DEF RequestFails, RequestFault, WriteAborted, AnswerLost, ReadFails,
         ProviderTimeout, RequestTimeout, Crash, WriteFails
    <3>5. QED
      BY <3>1, <3>2, <3>3, <3>4, RequestMoves
  <2>3. QED
    BY <1>2, <2>1, <2>2, ClientMoves DEF PlansInv
<1>3. ASSUME NEW c \in Client, client'[c].shown # NothingSeen
      PROVE  req'[PlanReq[c]].pc = "done"
  <2>1. CASE CreatePlan(c)
    BY <2>1, CreatedPlan DEF PlansInv
  <2>2. CASE client[c].shown # NothingSeen
    BY <2>2, DoneStays, PlansStepIsPath, PlansAssumption DEF InOrder, PlansInv
  <2>3. QED
    BY <1>3, <2>1, <2>2, ClientMoves DEF PlansInv
<1>4. QED
  BY <1>1, <1>2, <1>3 DEF InOrder

\* A plan's digest is written when it is made, and not again.
LEMMA DigestsKept ==
    ASSUME PlansTypeOK, [PlansNext]_plansVars, NEW c \in Client, ~CreatePlan(c),
           plans'[c] # NoPlan
    PROVE  plans[c] # NoPlan /\ plans'[c].digest = plans[c].digest
<1>1. plans \in [Client -> Plan \cup {NoPlan}]
  BY DEF PlansTypeOK
<1>2. ASSUME NEW b \in Client, b # c, CreatePlan(b) PROVE plans'[c] = plans[c]
  BY <1>1, <1>2 DEF CreatePlan
<1>3. ASSUME NEW b \in Client, NEW o \in Op, Consumes(b, o)
      PROVE  plans[c] # NoPlan /\ plans'[c].digest = plans[c].digest
  <2>1. CASE b = c
    BY <1>1, <1>3, <2>1, NoPlanAssumption DEF Consumes, Plan
  <2>2. CASE b # c
    BY <1>1, <1>3, <2>2 DEF Consumes
  <2>3. QED
    BY <2>1, <2>2
<1>4. CASE CleanPlans
  BY <1>1, <1>4 DEF CleanPlans
<1>5. QED
  BY <1>2, <1>3, <1>4, PlanRows, ApplyAssumption

LEMMA PlanShownNext ==
    ASSUME PlansInv, SeenInv, InOrder, PlanShown, [PlansNext]_plansVars
    PROVE  PlanShown'
<1> SUFFICES ASSUME NEW c \in Client, plans'[c] # NoPlan, client'[c].shown # NothingSeen,
                    NEW k \in Prunable(OpOf[ApplyReq[c]])
             PROVE  client'[c].shown[k] = plans'[c].digest[k]
  BY DEF PlanShown, Prunable, DesiredKeys, KeyZone
<1> USE DEF PlansInv
<1>1. k \in Key
  BY DEF Prunable
<1>2. CASE CreatePlan(c)
  <2> DEFINE r == PlanReq[c]
  <2>1. /\ r \in Req /\ req[r].pc = "admit"
        /\ plans'[c].digest = Digest(r)
    BY <1>2, PlansAssumption DEF CreatePlan, PlansTypeOK
  <2>2. client[c].shown = NothingSeen
    BY <2>1 DEF InOrder
  <2>3. client'[c].shown = Deletions(r)
    BY <1>2, <2>2 DEF CreatePlan, PlansTypeOK
  <2>4. k \in Prunable(OpOf[r])
    BY PlansAssumption DEF Prunable, DesiredKeys
  <2>5. Digest(r)[k] = IF k \in PruneKeys(r) THEN req[r].seen[k] ELSE {}
    BY <2>1, <2>4, DigestDeletes DEF Accepting
  <2>6. QED
    BY <1>1, <2>1, <2>3, <2>5 DEF Deletions
<1>3. CASE ~CreatePlan(c)
  BY <1>3, DigestsKept, ClientMoves DEF PlanShown
<1>4. QED
  BY <1>2, <1>3

LEMMA RowPlannedNext ==
    ASSUME RetryInv, EvidenceKept, ExecInv, SeenInv, InOrder, RowPlanned,
           [PlansNext]_plansVars
    PROVE  RowPlanned'
<1> USE DEF RetryInv, PlansInv
<1>1. /\ plans \in [Client -> Plan \cup {NoPlan}]
      /\ planAdmissions \in [Client -> Op \cup {NoOp}]
      /\ operations \in [Op -> OperationRow]
  BY DEF PlansTypeOK, IInv, TablesOK, StoreTypeOK
<1>2. EvidenceKept'
  BY EvidenceNext
<1>3. \A o \in Op : Prunable(o)' = Prunable(o)
  BY DEF Prunable, DesiredKeys, KeyZone
<1>4. ASSUME NEW c \in Client, planAdmissions[c] # NoOp, planAdmissions'[c] # NoOp
      PROVE  plans'[c].digest = plans[c].digest
  <2>1. plans'[c] # NoPlan
    BY <1>2, <1>4 DEF EvidenceKept
  <2>2. ~CreatePlan(c)
    BY <1>4, CreatedPlan DEF Stored
  <2>3. QED
    BY <2>1, <2>2, DigestsKept
<1>5. CASE /\ UNCHANGED planAdmissions
           /\ \A o \in Op : operations'[o].digest = operations[o].digest
  BY <1>1, <1>3, <1>4, <1>5 DEF RowPlanned
<1>6. ASSUME NEW r \in Req, req[r].pc = "reserve", ReserveNew(r), Consume(r)
      PROVE  RowPlanned'
  <2> DEFINE o == OpOf[r]
  <2>1. o \in Op /\ o # NoOp
    BY ApplyAssumption, StoreAssumption
  <2>2. /\ operations[o].status = "absent" /\ operations'[o].status # "absent"
        /\ operations'[o].digest = Digest(r)
        /\ \A p \in Op \ {o} : operations'[p] = operations[p]
    BY <1>1, <1>6, <2>1 DEF ReserveNew, ReserveBatch
  <2>3. \A c \in Client : planAdmissions[c] # o
    BY <2>1, <2>2 DEF Consumed
  <2>4. \A k \in Prunable(o) :
           Digest(r)[k] = IF k \in PruneKeys(r) THEN req[r].seen[k] ELSE {}
    BY <1>6, DigestDeletes DEF Accepting
  <2>5. PICK c \in Client : r \in {ApplyReq[c], RetryReq[c]}
    BY <1>6 DEF InOrder, Reserving
  <2>6. ClientOf(r) = c
    BY <2>5, ClientRequests
  <2> HIDE DEF o
  <2>7. CASE PruneKeys(r) = {}
    <3>1. UNCHANGED <<plans, planAdmissions>>
      BY <1>6, <2>7 DEF Consume
    <3>2. \A k \in Prunable(o) : operations'[o].digest[k] = {}
      BY <2>2, <2>4, <2>7
    <3>3. \A b \in Client : planAdmissions[b] # NoOp =>
             planAdmissions[b] \in Op \ {o}
      BY <1>1, <2>3
    <3>4. QED
      BY <1>3, <2>2, <3>1, <3>2, <3>3 DEF RowPlanned
  <2>8. CASE PruneKeys(r) # {}
    <3>1. /\ ActivePlan(r)
          /\ plans' = [plans EXCEPT ![Named(r)].consumed = TRUE]
          /\ planAdmissions' = [planAdmissions EXCEPT ![Named(r)] = o]
      BY <1>6, <2>2, <2>8 DEF Consume, o
    <3>2. /\ Named(r) = c /\ plans[c] # NoPlan /\ ~plans[c].consumed
          /\ plans[c].digest = Digest(r)
      BY <2>6, <3>1 DEF ActivePlan, Named
    <3>3. planAdmissions[c] = NoOp
      BY <3>2 DEF EvidenceKept
    <3>4. /\ planAdmissions'[c] = o
          /\ \A b \in Client \ {c} : planAdmissions'[b] = planAdmissions[b]
      BY <1>1, <3>1, <3>2
    <3>5. plans'[c].digest = plans[c].digest
      BY <1>1, <3>1, <3>2, NoPlanAssumption DEF Plan
    <3>6. ASSUME NEW b \in Client, planAdmissions'[b] # NoOp
          PROVE  operations'[planAdmissions'[b]].digest = plans'[b].digest
      <4>1. CASE b = c
        BY <2>2, <3>2, <3>4, <3>5, <4>1
      <4>2. CASE b # c
        <5>1. planAdmissions'[b] = planAdmissions[b] /\ planAdmissions[b] \in Op \ {o}
          BY <1>1, <2>3, <3>4, <3>6, <4>2
        <5>2. QED
          BY <1>4, <2>2, <3>6, <5>1 DEF RowPlanned
      <4>3. QED
        BY <4>1, <4>2
    <3>7. ASSUME NEW p \in Op, \A b \in Client : planAdmissions'[b] # p,
                 NEW k \in Prunable(p)
          PROVE  operations'[p].digest[k] = {}
      <4>1. p # o
        BY <3>4, <3>7
      <4>2. p # NoOp
        BY <3>7, StoreAssumption
      <4>3. \A b \in Client : planAdmissions[b] # p
        BY <3>3, <3>4, <3>7, <4>2
      <4>4. QED
        BY <2>2, <3>7, <4>1, <4>3 DEF RowPlanned
    <3>8. QED
      BY <1>3, <3>6, <3>7 DEF RowPlanned
  <2>9. QED
    BY <2>7, <2>8
<1>7. QED
  BY <1>5, <1>6, Inserting

\* Whatever way it is admitted, what a request is about to delete was shown: by
\* the plan it consumes, or by the plan of the row it resumes.
LEMMA AdmitShown ==
    ASSUME RetryInv, EvidenceKept, SeenInv, PlanShown, RowPlanned,
           NEW c \in Client, NEW r \in {ApplyReq[c], RetryReq[c]},
           req[r].pc = "admit", Admissible(r),
           NEW k \in PruneKeys(r),
           operationZones[OpOf[r]][KeyZone(k)] \in Unfinished
    PROVE  req[r].seen[k] \subseteq client[c].shown[k]
<1> DEFINE o == OpOf[r]
<1>1. /\ r \in Req /\ o \in Op /\ o # NoOp /\ o = OpOf[ApplyReq[c]]
      /\ ClientOf(r) = c /\ c # NoPlan
  BY ClientRequests, ApplyAssumption, StoreAssumption, PlansAssumption
<1>2. /\ k \in Key /\ KeyZone(k) \in OpZones(o)
      /\ k \in Prunable(o) /\ Digest(r)[k] = req[r].seen[k]
  BY <1>1, PruneIsDelete DEF PruneKeys, OpZones, Digest
<1>3. Named(r) = IF client[c].shown = NothingSeen THEN NoPlan ELSE c
  BY <1>1 DEF Named
<1>4. ASSUME plans[c] # NoPlan, client[c].shown # NothingSeen
      PROVE  client[c].shown[k] = plans[c].digest[k]
  BY <1>1, <1>2, <1>4 DEF PlanShown
<1>5. CASE operations[o].status = "absent"
  <2>1. ActivePlan(r)
    BY <1>5 DEF Admissible
  <2>2. /\ client[c].shown # NothingSeen /\ plans[c] # NoPlan
        /\ plans[c].digest = Digest(r)
    BY <1>3, <2>1 DEF ActivePlan
  <2>3. QED
    BY <1>2, <1>4, <2>2
<1>6. CASE operations[o].status # "absent"
  <2>1. RowMatches(r) /\ PlanAgrees(r)
    BY <1>6 DEF Admissible
  <2>2. operations[o].digest[k] = req[r].seen[k]
    BY <1>2, <2>1 DEF RowMatches, Unfinished
  <2>3. {b \in Client : planAdmissions[b] = o} = {Named(r)} \ {NoPlan}
    BY <2>1 DEF PlanAgrees
  <2>4. CASE client[c].shown # NothingSeen
    <3>1. planAdmissions[c] = o
      BY <1>1, <1>3, <2>3, <2>4
    <3>2. plans[c] # NoPlan /\ operations[o].digest = plans[c].digest
      BY <1>1, <3>1 DEF EvidenceKept, RowPlanned
    <3>3. QED
      BY <1>4, <2>2, <2>4, <3>2
  <2>5. CASE client[c].shown = NothingSeen
    <3>1. \A b \in Client : planAdmissions[b] # o
      BY <1>3, <2>3, <2>5
    <3>2. operations[o].digest[k] = {}
      BY <1>1, <1>2, <3>1 DEF RowPlanned
    <3>3. QED
      BY <2>2, <3>2
  <2>6. QED
    BY <2>4, <2>5
<1>7. QED
  BY <1>5, <1>6

LEMMA ShownToNext ==
    ASSUME RetryInv, EvidenceKept, ZoneInv, SeenInv, ShownInv, [PlansNext]_plansVars,
           NEW c \in Client, NEW r \in {ApplyReq[c], RetryReq[c]}
    PROVE  ShownTo(c, r)'
<1> USE DEF RetryInv, PlansInv
<1>1. r \in Req /\ OpOf[r] \in Op /\ [Next]_vars
  BY ClientRequests, ApplyAssumption, PlansStepIsPath
<1> SUFFICES ASSUME req'[r].pc \in Reserving, NEW k \in PruneKeys(r)',
                    operationZones'[OpOf[r]][KeyZone(k)] \in Unfinished
             PROVE  req'[r].seen[k] \subseteq client'[c].shown[k]
  BY DEF ShownTo, KeyZone, Unfinished
<1>2. /\ req'[r].owned = req[r].owned /\ req'[r].seen = req[r].seen
      /\ req[r].pc \in Reserving \/ (req[r].pc = "admit" /\ Admissible(r))
  BY <1>1, Admitting
<1>3. k \in PruneKeys(r)
  BY <1>2 DEF PruneKeys, DesiredKeys, KeyZone
<1>4. operationZones[OpOf[r]][KeyZone(k)] \in Unfinished
  <2>1. KeyZone(k) \in Zone
    BY <1>3, StoreAssumption DEF PruneKeys, KeyZone
  <2>2. QED
    BY <1>1, <2>1, ZonesSink
<1>5. req[r].seen[k] \subseteq client[c].shown[k]
  <2>1. CASE req[r].pc \in Reserving
    BY <1>3, <1>4, <2>1 DEF ShownInv, ShownTo
  <2>2. CASE req[r].pc = "admit" /\ Admissible(r)
    BY <1>3, <1>4, <2>2, AdmitShown DEF ShownInv
  <2>3. QED
    BY <1>2, <2>1, <2>2
<1>6. client'[c].shown = client[c].shown
  <2>1. ASSUME CreatePlan(c), client' # client PROVE FALSE
    <3>1. client[c].pc = "planning"
      <4>1. PlanReq[c] \in Awaited(c)
        BY <2>1 DEF CreatePlan
      <4>2. PlanReq[c] # ApplyReq[c] /\ PlanReq[c] # RetryReq[c]
        BY ClientRequests
      <4>3. QED
        BY <4>1, <4>2 DEF Awaited
    <3>2. req[r].pc = "lookup"
      BY <3>1 DEF ShownInv, InOrder
    <3>3. QED
      BY <1>2, <3>2 DEF Reserving, Executing
  <2>2. QED
    BY <2>1, ClientMoves
<1>7. QED
  BY <1>2, <1>5, <1>6

LEMMA ShownInit == PlansInit => ShownInv
<1> SUFFICES ASSUME PlansInit PROVE ShownInv
  OBVIOUS
<1>1. \A r \in Req : req[r].pc = "lookup"
  BY DEF PlansInit, Init, Fresh
<1>2. /\ plans = [c \in Client |-> NoPlan] /\ planAdmissions = [c \in Client |-> NoOp]
      /\ client = [c \in Client |-> [pc |-> "planning", shown |-> NothingSeen]]
  BY DEF PlansInit
<1>3. InOrder /\ \A c \in Client : \A r \in {ApplyReq[c], RetryReq[c]} : ShownTo(c, r)
  BY <1>1, <1>2, ClientRequests DEF InOrder, ShownTo, Reserving, Executing
<1>4. PlanShown
  BY <1>2 DEF PlanShown
<1>5. RowPlanned
  <2>1. \A o \in Op, k \in Key : operations[o].digest[k] = {}
    BY DEF PlansInit, Init, StoreInit, NothingSeen
  <2>2. QED
    BY <1>2, <2>1 DEF RowPlanned, Prunable
<1>6. QED
  BY <1>3, <1>4, <1>5 DEF ShownInv

LEMMA ShownNext ==
    RetryInv /\ EvidenceKept /\ PathOK /\ ShownInv /\ [PlansNext]_plansVars => ShownInv'
<1> SUFFICES ASSUME RetryInv, EvidenceKept, PathOK, ShownInv, [PlansNext]_plansVars
             PROVE  ShownInv'
  OBVIOUS
<1>1. InOrder'
  BY InOrderNext DEF ShownInv, RetryInv
<1>2. PlanShown'
  BY PlanShownNext DEF ShownInv, RetryInv, PathOK
<1>3. RowPlanned'
  BY RowPlannedNext DEF ShownInv, PathOK
<1>4. \A c \in Client : \A r \in {ApplyReq[c], RetryReq[c]} : ShownTo(c, r)'
  BY ShownToNext DEF PathOK
<1>5. QED
  BY <1>1, <1>2, <1>3, <1>4 DEF ShownInv

\* The change being made is of a zone that is being executed, and was admitted.
LEMMA ShownDeletions ==
    IInv /\ PathOK /\ ShownInv => DeletionsWereShown
<1> SUFFICES ASSUME IInv, PathOK, ShownInv, NEW c \in Client,
                    NEW r \in {ApplyReq[c], RetryReq[c]},
                    req[r].pc \in {"begin", "mark", "call"},
                    Change(r, req[r].key) = "delete"
             PROVE  /\ Current(r, req[r].key) # {}
                    /\ Current(r, req[r].key) \subseteq client[c].shown[req[r].key]
  BY DEF DeletionsWereShown
<1> DEFINE k == req[r].key
<1>1. r \in Req /\ req[r].pc \in AtKey
  BY ClientRequests DEF AtKey
<1>2. k \in Key
  BY <1>1, RequestArguments DEF PlacedAt
<1>3. k \in PruneKeys(r) /\ req[r].owned[k] # NoRow
  BY <1>1, <1>2, PruneIsDelete
<1>4. Current(r, k) # {}
  <2>1. SetVerified(SetOf[k], req[r].owned, req[r].seen)
    BY <1>1, <1>3 DEF PathOK, SeenInv, SeenOK, Accepting, Executing
  <2>2. QED
    BY <1>2, <1>3, <2>1 DEF SetVerified, KeysOf, Current
<1>5. operationZones[OpOf[r]][KeyZone(k)] \in Unfinished
  <2>1. ZoneOK(r)
    BY <1>1 DEF PathOK, ZoneInv
  <2>2. /\ KeyZone(k) = req[r].zone
        /\ operationZones[OpOf[r]][req[r].zone] \in {"pending", "failed"}
    BY <1>1, <2>1 DEF ZoneOK, InZone
  <2>3. QED
    BY <2>2 DEF Unfinished
<1>6. req[r].seen[k] \subseteq client[c].shown[k]
  BY <1>3, <1>5 DEF ShownInv, ShownTo, Reserving, Executing
<1>7. QED
  BY <1>4, <1>6 DEF Current

\* Every deletion being carried out is one its client was shown, of the very record
\* version, for every number of clients, operations and zones: an operation keeps
\* the digest of the plan it consumed, a retry is held against that digest, and what
\* it does not own it does not delete (admission.js:65-83, repository.js:336).
THEOREM DeletionsShown == PlansSpec => []DeletionsWereShown
<1>1. Spec => [](IInv /\ PathOK)
  BY IInvHolds, ChangesHold, ZonesHold, SeenHolds, PTL DEF PathOK
<1>2. QED
  BY <1>1, ShownInit, ShownNext, ShownDeletions, RetryInvariant, EvidenceStays,
     PlansRefinePath, PTL DEF PlansSpec


-----------------------------------------------------------------------------
(* What success says *)

\* A zone is finished by a request that made all its changes there.
LEMMA Succeeds ==
    ASSUME IInv, [Next]_vars, NEW o \in Op, NEW z \in Zone,
           operationZones'[o][z] = "success", operationZones[o][z] # "success"
    PROVE  \E r \in Req :
              /\ OpOf[r] = o /\ req[r].pc = "finish" /\ req[r].zone = z
<1>1. operationZones \in [Op -> [Zone -> ZoneStatus]]
  BY DEF IInv, TablesOK, StoreTypeOK
<1>2. UNCHANGED operationZones => FALSE
  OBVIOUS
<1>3. ASSUME NEW r \in Req, Event(r)
      PROVE  OpOf[r] = o /\ req[r].pc = "finish" /\ req[r].zone = z
  <2>1. OpOf[r] = o
    BY <1>3, EventRows DEF Unmoved
  <2>2. ASSUME NEW y, NEW status, SetZone(o, y, status),
               status = "success" => operationZones[o][y] = "success"
        PROVE  FALSE
    BY <1>1, <2>2 DEF SetZone
  <2>3. ~Outside(r)
    <3>1. ~ReserveNew(r)
      BY <1>1, <2>1 DEF ReserveNew, ReserveBatch
    <3>2. ~FreezeBatch(o, req[r].zone)
      BY <2>2 DEF FreezeBatch
    <3>3. QED
      BY <1>2, <2>1, <3>1, <3>2 DEF Outside, ReuseBatch, StartStatement,
         UpdateStatement, tables
  <2>4. ~Between(r) /\ ~Within(r)
    BY <1>2 DEF Between, Within, StartStatement, tables
  <2>5. ~Advances(r)
    <3>1. ~IndeterminateBatch(o, req[r].key)
      BY <2>2 DEF IndeterminateBatch
    <3>2. QED
      BY <1>2, <2>1, <3>1 DEF Advances, BeginIntent, BeginBatch, SentStatement,
         ConfirmBatch, tables
  <2>6. ~FailedBatch(o, req[r].zone) /\ ~FreezeBatch(o, req[r].zone)
    BY <2>2 DEF FailedBatch, FreezeBatch
  <2>7. req[r].pc = "finish" /\ FinishBatch(o, req[r].zone)
    BY <1>2, <1>3, <2>1, <2>3, <2>4, <2>5, <2>6 DEF Event, Closes, tables
  <2>8. req[r].zone = z
    BY <1>1, <2>7 DEF FinishBatch, SetZone
  <2>9. QED
    BY <2>1, <2>7, <2>8
<1>4. ASSUME NEW p \in Op, NEW k \in Key, OperatorStep(p, k) PROVE FALSE
  <2>1. operationZones'[p][z] \in {operationZones[p][z], "reconciled"}
    BY <1>4, DecisionRows
  <2>2. p # o => operationZones'[o] = operationZones[o]
    BY <1>4, DecisionRows DEF Unmoved
  <2>3. QED
    BY <2>1, <2>2
<1>5. (\E p \in Op, k \in Key : Answers(p, k)) \/ Around => FALSE
  BY <1>2 DEF Answers, Around, tables
<1>6. QED
  BY <1>3, <1>4, <1>5, StepsHappen DEF Happens

\* A client succeeds on a report that every zone of its operation was finished.
LEMMA SuccessReported ==
    ASSUME PlansTypeOK, [PlansNext]_plansVars, NEW c \in Client,
           client[c].pc # "success", client'[c].pc = "success"
    PROVE  /\ UNCHANGED vars /\ client'[c].shown = client[c].shown
           /\ \A z \in OpZones(OpOf[ApplyReq[c]]) :
                 operationZones[OpOf[ApplyReq[c]]][z] = "success"
<1>1. client \in [Client -> ClientState]
  BY DEF PlansTypeOK
<1>2. ASSUME UNCHANGED client PROVE FALSE
  BY <1>2
<1>3. ASSUME NEW b \in Client, CreatePlan(b) PROVE FALSE
  <2>1. client'[c].pc \in {client[c].pc, "applying"}
    BY <1>1, <1>3 DEF CreatePlan
  <2>2. QED
    BY <2>1
<1>4. ASSUME NEW b \in Client, Fail(b) PROVE FALSE
  <2>1. client'[c].pc \in {client[c].pc, "failed"}
    BY <1>1, <1>4 DEF Fail, ClientState
  <2>2. QED
    BY <2>1
<1>5. ASSUME NEW b \in Client, NEW r \in Req, Answer(b, r)
      PROVE  /\ UNCHANGED vars /\ client'[c].shown = client[c].shown
             /\ \A z \in OpZones(OpOf[ApplyReq[c]]) :
                   operationZones[OpOf[ApplyReq[c]]][z] = "success"
  <2> DEFINE complete == \A z \in OpZones(OpOf[r]) : operationZones[OpOf[r]][z] = "success"
  <2>1. client' = [client EXCEPT ![b].pc = Outcome(b, complete)]
    BY <1>2, <1>5 DEF Answer
  <2> HIDE DEF complete
  <2>2. /\ client'[c].pc = IF b = c THEN Outcome(b, complete) ELSE client[c].pc
        /\ client'[c].shown = client[c].shown
    BY <1>1, <2>1 DEF ClientState
  <2>3. b = c /\ complete
    BY <2>2 DEF Outcome
  <2>4. OpOf[r] = OpOf[ApplyReq[c]] /\ UNCHANGED vars
    BY <1>5, <2>3, ClientRequests DEF Answer
  <2>5. QED
    BY <2>2, <2>3, <2>4 DEF complete
<1>6. CASE \E b \in Client : PlanStep(b) \/ CreatePlan(b) \/ Fail(b)
  BY <1>2, <1>3, <1>4, <1>6 DEF PlanStep
<1>7. CASE \E b \in Client, r \in Req : ApplyStep(b, r) \/ Answer(b, r)
  BY <1>2, <1>5, <1>7 DEF ApplyStep
<1>8. CASE (\E r \in Req : RequestFails(r)) \/ CleanPlans \/ Tick \/ Elsewhere
           \/ UNCHANGED plansVars
  BY <1>2, <1>8 DEF RequestFails, CleanPlans, Tick, Elsewhere, plansVars
<1>9. QED
  BY <1>6, <1>7, <1>8 DEF PlansNext

\* What a client was shown as a deletion its operation may delete.
Removes(c) ==
    \A k \in Key : client[c].shown[k] # {} => k \in Prunable(OpOf[ApplyReq[c]])

LEMMA RemovesNext ==
    ASSUME PlansTypeOK, [PlansNext]_plansVars, NEW c \in Client, Removes(c)
    PROVE  Removes(c)'
<1> DEFINE r == PlanReq[c]
<1>1. CASE client'[c].shown = client[c].shown
  BY <1>1 DEF Removes, Prunable, DesiredKeys, KeyZone
<1>2. CASE CreatePlan(c)
  <2>1. client'[c].shown \in {client[c].shown, Deletions(r)}
    BY <1>2 DEF PlansTypeOK, CreatePlan
  <2>2. ASSUME NEW k \in Key, Deletions(r)[k] # {} PROVE k \in Prunable(OpOf[ApplyReq[c]])
    <3>1. k \in PruneKeys(r)
      BY <2>2 DEF Deletions
    <3>2. QED
      BY <3>1, PlansAssumption DEF PruneKeys, Prunable, DesiredKeys
  <2>3. QED
    BY <2>1, <2>2 DEF Removes, Prunable, DesiredKeys, KeyZone
<1>3. QED
  BY <1>1, <1>2, ClientMoves

\* A request of the client's operation is about to finish the zone of a key and had
\* not planned to delete that record of it, because D1 knew none by that identifier
\* when it read; yet the record is there, or its creation is still to come.
Overlooked(c, k, id) ==
    ~Gone(k, id) /\ \E r \in Req :
        /\ OpOf[r] = OpOf[ApplyReq[c]]
        /\ req[r].pc = "finish" /\ req[r].zone = KeyZone(k)
        /\ ~(k \in PruneKeys(r) /\ req[r].owned[k].id = id)

\* A record the client was shown, once the zone is done and once the client ends.
Deleted(c, k, id) ==
    /\ operationZones[OpOf[ApplyReq[c]]][KeyZone(k)] = "success" => Gone(k, id)
    /\ client[c].pc = "success" /\ (\E p \in client[c].shown[k] : p.id = id)
         => Gone(k, id)

LEMMA DeletedStep ==
    ASSUME IInv, ChangeInv, DeletionInv, PlansTypeOK, [PlansNext]_plansVars,
           NEW c \in Client, NEW k \in Key, NEW id,
           Removes(c), Deleted(c, k, id), ~Overlooked(c, k, id)
    PROVE  Deleted(c, k, id)'
<1> DEFINE o == OpOf[ApplyReq[c]]
           Shown == \E p \in client[c].shown[k] : p.id = id
<1>1. /\ o \in Op /\ KeyZone(k) \in Zone /\ [Next]_vars
      /\ KeyZone(k)' = KeyZone(k)
  BY PlansAssumption, ApplyAssumption, StoreAssumption, PlansStepIsPath DEF KeyZone
<1>2. Gone(k, id) => Gone(k, id)'
  BY <1>1, GoneStays DEF Gone, GoneThen, NewId
<1>3. ASSUME operationZones'[o][KeyZone(k)] = "success" PROVE Gone(k, id)'
  <2>1. CASE operationZones[o][KeyZone(k)] = "success"
    BY <1>2, <2>1 DEF Deleted
  <2>2. CASE operationZones[o][KeyZone(k)] # "success"
    <3>1. PICK r \in Req :
             /\ OpOf[r] = o /\ req[r].pc = "finish" /\ req[r].zone = KeyZone(k)
      BY <1>1, <1>3, <2>2, Succeeds
    <3>2. Gone(k, id) \/ (k \in PruneKeys(r) /\ req[r].owned[k].id = id)
      BY <3>1 DEF Overlooked
    <3>3. Gone(k, id)
      BY <3>1, <3>2 DEF DeletionInv, DoneOrAhead, InZone
    <3>4. QED
      BY <1>2, <3>3
  <2>3. QED
    BY <2>1, <2>2
<1>4. ASSUME client'[c].pc = "success", client'[c].shown = client[c].shown, Shown
      PROVE  Gone(k, id)'
  <2>1. CASE client[c].pc = "success"
    BY <1>2, <1>4, <2>1 DEF Deleted
  <2>2. CASE client[c].pc # "success"
    <3>1. KeyZone(k) \in OpZones(o)
      BY <1>4 DEF Removes, Prunable, OpZones
    <3>2. operationZones[o][KeyZone(k)] = "success"
      BY <1>4, <2>2, <3>1, SuccessReported
    <3>3. QED
      BY <1>2, <3>2 DEF Deleted
  <2>3. QED
    BY <2>1, <2>2
<1>5. CASE client'[c].shown = client[c].shown
  BY <1>1, <1>3, <1>4, <1>5 DEF Deleted
<1>6. CASE CreatePlan(c)
  <2>1. client' = client \/ client'[c].pc = "applying"
    BY <1>6 DEF PlansTypeOK, CreatePlan
  <2>2. QED
    BY <1>1, <1>3, <1>4, <2>1 DEF Deleted
<1>7. QED
  BY <1>5, <1>6, ClientMoves

\* When the Action succeeds, a record it was shown as a deletion is gone and stays
\* gone, whatever failed in between, however often it was retried, and whichever of
\* several jobs of the same manifest made the deletion; or one of those jobs
\* finished the record's zone without knowing of the record, before it was created
\* or beside it, which is the only way (client.js:388-406, execute.js:57-58).  As a
\* behaviour may stop anywhere, that happened before the record was found there.
THEOREM DeletionsHappen ==
    ASSUME NEW c \in Client, NEW k \in Key, NEW id \in RecordId
    PROVE  PlansSpec =>
             \/ [](/\ client[c].pc = "success"
                   /\ \E p \in client[c].shown[k] : p.id = id
                   => \A q \in provider[k] : q.id # id)
             \/ <>Overlooked(c, k, id)
<1> DEFINE Succeeded == /\ client[c].pc = "success"
                        /\ \E p \in client[c].shown[k] : p.id = id
                        => \A q \in provider[k] : q.id # id
<1>1. PlansInit => Removes(c) /\ Deleted(c, k, id)
  BY PlansAssumption, ApplyAssumption, StoreAssumption
     DEF PlansInit, Init, StoreInit, Removes, Deleted, NothingSeen, KeyZone
<1>2. /\ IInv /\ ChangeInv /\ DeletionInv /\ PlansTypeOK
      /\ Removes(c) /\ Deleted(c, k, id) /\ ~Overlooked(c, k, id)
      /\ [PlansNext]_plansVars
      => Removes(c)' /\ Deleted(c, k, id)'
  BY RemovesNext, DeletedStep
<1>3. Deleted(c, k, id) => Succeeded
  BY DEF Deleted, Gone
<1>4. PlansSpec => [](IInv /\ ChangeInv /\ DeletionInv)
  BY PlansRefinePath, IInvHolds, ChangesHold, DeletionsHold, PTL
<1>5. PlansSpec => []Succeeded \/ <>Overlooked(c, k, id)
  <2> HIDE DEF Succeeded
  <2>1. QED
    BY <1>1, <1>2, <1>3, <1>4, PlansTypeCorrect, PTL DEF PlansSpec
<1>6. QED
  BY <1>5
=============================================================================
