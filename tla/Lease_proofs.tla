----------------------------- MODULE Lease_proofs -----------------------------
(***************************************************************************)
(* The executor, the provider and the operator together: what a change, a  *)
(* zone and the record sets of an operation go through.  Every step of the *)
(* system is first reduced to what it does to the change and the zone a    *)
(* request is at (Happens).  Three invariants follow, each on top of the   *)
(* one before: where a change stands (ChangeInv), where a zone stands      *)
(* (ZoneInv), and what the provider holds (KnownInv, MatchInv).  The last  *)
(* sections are about what a request has read, which serves plans and      *)
(* adoptions too, and about the deletions it makes.                        *)
(***************************************************************************)
EXTENDS Safety_proofs

-----------------------------------------------------------------------------
(* The shapes of a step *)

\* The steps of a request in a zone in which nothing has gone wrong.
InZone == AtKey \cup {"zone", "finish"}

\* A request outside an execution, or one that leaves it.
Outside(r) ==
    LET o == OpOf[r]
    IN  /\ req'[r].pc \notin Executing
        /\ \/ UNCHANGED tables
           \/ ReuseBatch(o, TokenOf[r])
           \/ ReserveNew(r) /\ req[r].pc = "reserve"
           \/ StartStatement(o)
           \/ req[r].pc = "freeze" /\ FreezeBatch(o, req[r].zone)
           \/ req[r].pc = "update" /\ UpdateStatement(o, req[r].verdict)
        /\ UNCHANGED wire

\* Between the zones.
Between(r) ==
    LET o == OpOf[r]  z == req'[r].zone
    IN  /\ UNCHANGED wire
        /\ \/ /\ req'[r].pc = "zones"
              /\ StartStatement(o)
           \/ /\ req[r].pc = "zones"
              /\ UNCHANGED tables
              /\ \/ req'[r].pc = "zones"
                 \/ /\ req'[r].pc = "update"
                    /\ req'[r].verdict = Verdict(o)
                 \/ /\ req'[r].pc = "zone"
                    /\ z \in Zone
                    /\ operationZones[o][z] \in {"pending", "failed"}
                    /\ req'[r].keys = Mutations(r, z)
                 \/ /\ req'[r].pc = "zoneError"
                    /\ z \in Zone

\* In a zone, from one change to the next.
Within(r) ==
    LET o == OpOf[r]
    IN  /\ req'[r].zone = req[r].zone
        /\ UNCHANGED <<tables, wire>>
        /\ \/ /\ req[r].pc = "zone" /\ req'[r].pc \in {"zone", "finish"}
              /\ req'[r].keys \subseteq req[r].keys
              /\ \A k \in req[r].keys \ req'[r].keys : mutationIntents[o][k] = "confirmed"
              /\ req'[r].pc = "finish" => req[r].keys = {}
           \/ /\ req[r].pc = "zone" /\ req'[r].pc = "begin"
              /\ req'[r].keys = req[r].keys
              /\ req'[r].key \in req[r].keys
              /\ mutationIntents[o][req'[r].key] = "absent"
              /\ PreflightOk(r, req'[r].key)
           \/ req[r].pc \in InZone /\ req'[r].pc = "zoneError"
           \/ req[r].pc = "zoneError" /\ req'[r].pc = "freeze"

\* At a change.
Advances(r) ==
    LET o == OpOf[r]  k == req[r].key
        To(steps) == /\ req'[r].zone = req[r].zone
                     /\ req'[r].key = k
                     /\ req'[r].keys = req[r].keys
                     /\ req'[r].pc \in steps
    IN  \/ /\ req[r].pc = "begin" /\ To({"mark", "zoneError"})
           /\ BeginIntent(r) /\ UNCHANGED wire
        \/ /\ req[r].pc = "mark" /\ To({"call", "zoneError"})
           /\ SentStatement(o, k) /\ UNCHANGED wire
        \/ /\ req[r].pc = "call" /\ To({"await"})
           /\ wire' = [wire EXCEPT ![o][k] = "flying"] /\ UNCHANGED tables
        \/ /\ req[r].pc = "await" /\ wire[o][k] = "applied" /\ To({"confirm"})
           /\ UNCHANGED <<tables, wire>>
        \/ /\ req[r].pc \in {"await", "confirm"} /\ To({"unknown"})
           /\ UNCHANGED <<tables, wire>>
        \/ /\ req[r].pc = "confirm" /\ To({"unknown"})
           /\ ConfirmBatch(o, k) /\ UNCHANGED wire
        \/ /\ req[r].pc = "confirm" /\ req'[r].pc = "zone"
           /\ req'[r].zone = req[r].zone /\ req'[r].keys = req[r].keys \ {k}
           /\ ConfirmBatch(o, k) /\ UNCHANGED wire
        \/ /\ req[r].pc = "unknown" /\ To({"zoneError"})
           /\ IndeterminateBatch(o, k) /\ UNCHANGED wire

\* Out of a zone.
Closes(r) ==
    LET o == OpOf[r]  z == req[r].zone
    IN  /\ UNCHANGED wire
        /\ req'[r].pc # "zones" => req'[r].zone = z
        /\ \/ /\ req[r].pc = "finish" /\ req'[r].pc \in {"zones", "zoneError"}
              /\ FinishBatch(o, z)
           \/ /\ req[r].pc = "zoneError" /\ req'[r].pc = "zones"
              /\ operationZones[o][z] = "indeterminate" /\ UNCHANGED tables
           \/ /\ req[r].pc = "zoneError" /\ req'[r].pc \in {"zones", "freeze"}
              /\ FailedBatch(o, z)
           \/ /\ req[r].pc = "freeze" /\ req'[r].pc = "zones"
              /\ FreezeBatch(o, z)

\* A step of a request, by what it does to the change and the zone it is at.
Event(r) ==
    /\ Outside(r) \/ Between(r) \/ Within(r) \/ Advances(r) \/ Closes(r)
    /\ \A q \in Req \ {r} : req'[q] = req[q]
    /\ req[r].pc \in Executing /\ req'[r].pc \in Executing
         => req'[r].owned = req[r].owned /\ req'[r].seen = req[r].seen
    /\ UNCHANGED provider

\* The provider carries a change out, or refuses it.
Answers(o, k) ==
    /\ wire[o][k] = "flying"
    /\ \/ /\ wire' = [wire EXCEPT ![o][k] = "applied"]
          /\ \/ intentActions[o][k].action = "create"
             \/ \E p \in provider[k] : p.id = intentActions[o][k].target
          /\ provider' = [provider EXCEPT ![k] = Effect(o, k)]
       \/ /\ wire' = [wire EXCEPT ![o][k] = "rejected"]
          /\ UNCHANGED provider
    /\ UNCHANGED <<tables, req>>

\* What else happens to the provider.
Around ==
    /\ UNCHANGED <<tables, wire, req>>
    /\ UNCHANGED provider \/ \E k \in Key : Drift(k)

Happens ==
    \/ \E r \in Req : Event(r)
    \/ \E o \in Op, k \in Key : Answers(o, k)
    \/ \E o \in Op, k \in Key : OperatorStep(o, k)
    \/ Around

-----------------------------------------------------------------------------
(* What a step is *)

\* How the helpers that move a request leave its fields.
LEMMA Fields ==
    ASSUME IInv, NEW r \in Req
    PROVE  /\ \A step : Goto(r, step) =>
                 /\ req'[r].pc = step /\ req'[r].zone = req[r].zone
                 /\ req'[r].key = req[r].key /\ req'[r].keys = req[r].keys
                 /\ req'[r].owned = req[r].owned /\ req'[r].seen = req[r].seen
           /\ Leave(r) => req'[r].pc = "done"
           /\ NextZone(r) =>
                 /\ req'[r].pc = "zones"
                 /\ req'[r].owned = req[r].owned /\ req'[r].seen = req[r].seen
           /\ KeyDone(r) =>
                 /\ req'[r].pc = "zone" /\ req'[r].zone = req[r].zone
                 /\ req'[r].keys = req[r].keys \ {req[r].key}
                 /\ req'[r].owned = req[r].owned /\ req'[r].seen = req[r].seen
<1>1. req \in [Req -> Request]
  BY DEF IInv, RequestsOK
<1>2. req[r] \in Request
  BY <1>1
<1>3. ASSUME NEW step, Goto(r, step)
      PROVE  /\ req'[r].pc = step /\ req'[r].zone = req[r].zone
             /\ req'[r].key = req[r].key /\ req'[r].keys = req[r].keys
             /\ req'[r].owned = req[r].owned /\ req'[r].seen = req[r].seen
  BY <1>1, <1>2, <1>3 DEF Goto, Request
<1>4. Leave(r) => req'[r].pc = "done"
  BY <1>1 DEF Leave, Fresh
<1>5. ASSUME NextZone(r)
      PROVE  /\ req'[r].pc = "zones"
             /\ req'[r].owned = req[r].owned /\ req'[r].seen = req[r].seen
  BY <1>1, <1>2, <1>5 DEF NextZone, Request
<1>6. ASSUME KeyDone(r)
      PROVE  /\ req'[r].pc = "zone" /\ req'[r].zone = req[r].zone
             /\ req'[r].keys = req[r].keys \ {req[r].key}
             /\ req'[r].owned = req[r].owned /\ req'[r].seen = req[r].seen
  BY <1>1, <1>2, <1>6 DEF KeyDone, Request
<1>7. QED
  BY <1>3, <1>4, <1>5, <1>6

\* The steps of a request that nothing goes wrong with are events.
LEMMA StepEvents ==
    ASSUME IInv, NEW r \in Req, RequestStep(r)
    PROVE  Event(r)
<1> DEFINE o == OpOf[r]
           k == req[r].key
           Shape == Outside(r) \/ Between(r) \/ Within(r) \/ Advances(r) \/ Closes(r)
           Kept == req'[r].owned = req[r].owned /\ req'[r].seen = req[r].seen
           Executes == req[r].pc \in Executing /\ req'[r].pc \in Executing
<1>1. req \in [Req -> Request] /\ req[r] \in Request /\ PlacedAt(r)
  BY DEF IInv, RequestsOK
<1>2. \A q \in Req \ {r} : req'[q] = req[q]
  BY <1>1, RequestStepMoves DEF Moved
<1>3. UNCHANGED provider
  BY DEF RequestStep, Lookup, ReadOwned, ListProvider, Classify, Admit, Reserve,
     Start, VisitZone, TakeKey, EndZone, Begin, Mark, Call, Receive, Confirm,
     MarkUnknown, Finish, ZoneError, Freeze, Tally, Update, world
<1>4. ASSUME Lookup(r) \/ ReadOwned(r) \/ ListProvider(r) \/ Classify(r) \/ Admit(r)
      PROVE  Shape /\ ~Executes
  <2>1. req'[r].pc \in {"owned", "listing", "classify", "admit", "reserve", "done"}
    BY <1>1, <1>4 DEF Lookup, ReadOwned, ListProvider, Classify, Admit, Goto, Leave,
       Fresh, Request
  <2>2. req'[r].pc \notin Executing
    BY <2>1 DEF Executing
  <2>3. (UNCHANGED tables \/ ReuseBatch(o, TokenOf[r])) /\ UNCHANGED wire
    BY <1>4 DEF Lookup, ReadOwned, ListProvider, Classify, Admit, world
  <2>4. QED
    BY <2>2, <2>3 DEF Outside
<1>5. ASSUME Reserve(r)
      PROVE  Shape /\ ~Executes
  <2>1. req'[r].pc \in {"start", "done"} /\ req[r].pc = "reserve"
    BY <1>5, Fields DEF Reserve
  <2>2. req'[r].pc \notin Executing /\ req[r].pc \notin Executing
    BY <2>1 DEF Executing
  <2>3. QED
    BY <1>5, <2>2 DEF Outside, Reserve, world
<1>6. ASSUME Start(r)
      PROVE  Shape /\ ~Executes
  <2>1. req[r].pc \notin Executing
    BY <1>6 DEF Start, Executing
  <2>2. CASE /\ StartStatement(o)
             /\ req' = [req EXCEPT ![r].pc = "zones", ![r].zones = OpZones(o)]
    <3>1. req'[r].pc = "zones"
      BY <1>1, <2>2 DEF Request
    <3>2. QED
      BY <1>6, <2>1, <2>2, <3>1 DEF Start, Between, world
  <2>3. CASE Leave(r) /\ UNCHANGED tables
    BY <1>6, <2>1, <2>3, Fields DEF Start, Outside, Executing, world
  <2>4. QED
    BY <1>6, <2>2, <2>3 DEF Start
<1>7. ASSUME NEW z \in Zone, VisitZone(r, z)
      PROVE  Shape /\ Kept
  <2>1. req[r].pc = "zones" /\ UNCHANGED tables /\ UNCHANGED wire
    BY <1>7 DEF VisitZone, world
  <2>2. CASE req' = [req EXCEPT ![r].zones = @ \ {z}]
    <3>1. req'[r].pc = "zones" /\ Kept
      BY <1>1, <2>1, <2>2 DEF Request
    <3>2. QED
      BY <2>1, <3>1 DEF Between
  <2>3. CASE /\ operationZones[o][z] \in {"pending", "failed"}
             /\ req' = [req EXCEPT ![r].pc = "zone", ![r].zone = z,
                                   ![r].keys = Mutations(r, z)]
    <3> DEFINE keys == Mutations(r, z)
    <3>1. req'[r].pc = "zone" /\ req'[r].zone = z /\ req'[r].keys = keys /\ Kept
      <4> HIDE DEF keys
      <4> QED BY <1>1, <2>3 DEF Request, keys
    <3>2. QED
      BY <2>1, <2>3, <3>1 DEF Between
  <2>4. CASE req' = [req EXCEPT ![r].pc = "zoneError", ![r].zone = z, ![r].keys = {}]
    <3>1. req'[r].pc = "zoneError" /\ req'[r].zone = z /\ Kept
      BY <1>1, <2>4 DEF Request
    <3>2. QED
      BY <2>1, <3>1 DEF Between
  <2>5. QED
    BY <1>7, <2>2, <2>3, <2>4 DEF VisitZone
<1>8. ASSUME NEW j \in Key, TakeKey(r, j)
      PROVE  Shape /\ Kept
  <2>1. req[r].pc = "zone" /\ j \in req[r].keys /\ UNCHANGED <<tables, wire>>
    BY <1>8 DEF TakeKey, world
  <2>2. CASE mutationIntents[o][j] = "confirmed" /\ req' = [req EXCEPT ![r].keys = @ \ {j}]
    <3>1. /\ req'[r].pc = "zone" /\ req'[r].zone = req[r].zone /\ Kept
          /\ req'[r].keys = req[r].keys \ {j}
      BY <1>1, <2>1, <2>2 DEF Request
    <3>2. QED
      BY <2>1, <2>2, <3>1 DEF Within
  <2>3. CASE /\ mutationIntents[o][j] = "absent" /\ PreflightOk(r, j)
             /\ req' = [req EXCEPT ![r].pc = "begin", ![r].key = j]
    <3>1. /\ req'[r].pc = "begin" /\ req'[r].zone = req[r].zone /\ Kept
          /\ req'[r].keys = req[r].keys /\ req'[r].key = j
      BY <1>1, <2>1, <2>3 DEF Request
    <3>2. QED
      BY <2>1, <2>3, <3>1 DEF Within
  <2>4. CASE Goto(r, "zoneError")
    BY <2>1, <2>4, Fields DEF Within, InZone
  <2>5. QED
    BY <1>8, <2>2, <2>3, <2>4 DEF TakeKey
<1>9. ASSUME EndZone(r)
      PROVE  Shape /\ Kept
  BY <1>9, Fields DEF EndZone, Within, world
<1>10. ASSUME Begin(r) \/ Mark(r)
       PROVE  Shape /\ Kept
  BY <1>10, Fields DEF Begin, Mark, Within, Advances, InZone, AtKey, world
<1>11. ASSUME Call(r) \/ Receive(r)
       PROVE  Shape /\ Kept
  BY <1>11, Fields DEF Call, Receive, Advances, world
<1>12. ASSUME Confirm(r)
       PROVE  Shape /\ Kept
  BY <1>12, Fields DEF Confirm, Advances, world
<1>13. ASSUME MarkUnknown(r)
       PROVE  Shape /\ Kept
  BY <1>13, Fields DEF MarkUnknown, Advances, Within, InZone, AtKey, world
<1>14. ASSUME Finish(r)
       PROVE  Shape /\ Kept
  BY <1>14, Fields DEF Finish, Closes, Within, InZone, world
<1>15. ASSUME ZoneError(r) \/ Freeze(r)
       PROVE  Shape /\ Kept
  BY <1>15, Fields DEF ZoneError, Freeze, Closes, Within, world
<1>16. ASSUME Tally(r)
       PROVE  Shape /\ Kept
  <2> DEFINE verdict == Verdict(o)
  <2>1. req'[r].pc = "update" /\ req'[r].verdict = verdict /\ Kept
    <3> HIDE DEF verdict
    <3> QED BY <1>1, <1>16 DEF Tally, Request, verdict
  <2>2. QED
    BY <1>16, <2>1 DEF Tally, Between, world
<1>17. ASSUME Update(r)
       PROVE  Shape /\ ~Executes
  BY <1>17, Fields DEF Update, Outside, Executing, world
<1> HIDE DEF Shape, Kept, Executes
<1>18. Shape /\ (Executes => Kept)
  BY <1>4, <1>5, <1>6, <1>7, <1>8, <1>9, <1>10, <1>11, <1>12, <1>13, <1>14, <1>15,
     <1>16, <1>17 DEF RequestStep
<1>19. QED
  BY <1>2, <1>3, <1>18 DEF Event, Shape, Kept, Executes

\* Nor do faults do anything else to it.
LEMMA FaultEvents ==
    ASSUME IInv, NEW r \in Req, RequestFault(r)
    PROVE  Event(r)
<1> DEFINE o == OpOf[r]
           k == req[r].key
           Shape == Outside(r) \/ Between(r) \/ Within(r) \/ Advances(r) \/ Closes(r)
           Kept == req'[r].owned = req[r].owned /\ req'[r].seen = req[r].seen
           Executes == req[r].pc \in Executing /\ req'[r].pc \in Executing
<1>1. req \in [Req -> Request] /\ req[r] \in Request /\ PlacedAt(r)
  BY DEF IInv, RequestsOK
<1>2. \A q \in Req \ {r} : req'[q] = req[q]
  BY <1>1, RequestFaultMoves DEF Moved
<1>3. UNCHANGED <<provider, wire>>
  BY DEF RequestFault, WriteAborted, AnswerLost, ReadFails, ProviderTimeout,
     RequestTimeout, Crash
<1>4. "done" \notin Executing
  BY DEF Executing
<1>5. ASSUME Leave(r), UNCHANGED tables
      PROVE  Shape /\ ~Executes
  BY <1>3, <1>4, <1>5, Fields DEF Outside
<1>6. ASSUME WriteAborted(r)
      PROVE  Shape /\ (Executes => Kept)
  BY <1>3, <1>5, <1>6, Fields DEF WriteAborted, WriteFails, Within, Advances,
     InZone, AtKey
<1>7. ASSUME AnswerLost(r)
      PROVE  Shape /\ (Executes => Kept)
  <2> USE <1>3, <1>4, <1>7, Fields DEF AnswerLost, PendingWrite, WriteFails
  <2>1. CASE req[r].pc \in {"reserve", "start", "freeze", "update"}
    <3>1. req'[r].pc = "done"
      BY <2>1
    <3>2. req[r].pc = "reserve" => req[r].pc \notin Executing
      BY DEF Executing
    <3>3. QED
      BY <2>1, <3>1, <3>2 DEF Outside
  <2>2. CASE req[r].pc \in {"begin", "mark", "confirm", "unknown"}
    BY <2>2 DEF Advances
  <2>3. CASE req[r].pc \in {"finish", "zoneError"}
    BY <2>3 DEF Closes
  <2>4. QED
    BY <2>1, <2>2, <2>3
<1>8. ASSUME ReadFails(r)
      PROVE  Shape /\ Kept
  BY <1>3, <1>8, Fields DEF ReadFails, Within, InZone
<1>9. ASSUME ProviderTimeout(r)
      PROVE  Shape /\ Kept
  BY <1>3, <1>9, Fields DEF ProviderTimeout, Advances
<1>10. ASSUME RequestTimeout(r) \/ Crash(r)
       PROVE  Shape /\ ~Executes
  BY <1>5, <1>10 DEF RequestTimeout, Crash
<1> HIDE DEF Shape, Kept, Executes
<1>11. Shape /\ (Executes => Kept)
  BY <1>6, <1>7, <1>8, <1>9, <1>10 DEF RequestFault
<1>12. QED
  BY <1>2, <1>3, <1>11 DEF Event, Shape, Kept, Executes

\* Every step of the system is an event of a request, an answer of the provider, a
\* decision of an operator, or touches neither tables nor requests.
LEMMA StepsHappen ==
    ASSUME IInv, [Next]_vars
    PROVE  Happens
<1>1. ASSUME NEW o \in Op, NEW k \in Key, ProviderApply(o, k) \/ ProviderReject(o, k)
      PROVE  Answers(o, k)
  BY <1>1 DEF ProviderApply, ProviderReject, Answers
<1>2. CASE (\E k \in Key : Drift(k)) \/ SyncPolicy \/ UNCHANGED vars
  BY <1>2 DEF Drift, SyncPolicy, vars, Around, Happens
<1>3. QED
  BY <1>1, <1>2, StepEvents, FaultEvents DEF Next, Environment, Happens

-----------------------------------------------------------------------------
(* Where changes and zones stand *)

\* Where a change stands: its intent, its request and the executor move in step.
WireOK ==
    \A o \in Op, k \in Key :
        /\ wire[o][k] # "idle" => mutationIntents[o][k] \notin {"absent", "prepared"}
        /\ mutationIntents[o][k] \in {"indeterminate", "resolved"} => wire[o][k] # "idle"
        /\ mutationIntents[o][k] = "confirmed" => wire[o][k] = "applied"
        /\ OperatorWaits /\ wire[o][k] = "flying"
             => mutationIntents[o][k] \in {"sent", "indeterminate"}

\* The executor at a change knows where it stands.
PhaseOK(r) ==
    LET intent == mutationIntents[OpOf[r]][req[r].key]
        sent == wire[OpOf[r]][req[r].key]
    IN  /\ req[r].pc = "begin" => intent = "absent"
        /\ req[r].pc = "mark" => intent = "prepared"
        /\ req[r].pc = "call" => intent = "sent" /\ sent = "idle"
        /\ req[r].pc = "await" => intent = "sent" /\ sent # "idle"
        /\ req[r].pc = "confirm" => intent = "sent" /\ sent = "applied"
        /\ req[r].pc = "unknown" => intent \in {"sent", "confirmed"} /\ sent # "idle"

ChangeInv == WireOK /\ \A r \in Req : PhaseOK(r)

\* A zone that is still to be executed has not been begun.
Untouched(o, z) ==
    operationZones[o][z] \in {"pending", "failed"} =>
        \A k \in Key : KeyZone(k) = z => mutationIntents[o][k] = "absent"

\* The zone a request is in is open, and only the change it is at is unfinished
\* there; the zones it is not in are as they were left, and what the tally found
\* still holds.
ZoneOK(r) ==
    LET o == OpOf[r]  z == req[r].zone
    IN  /\ req[r].pc \in InZone =>
              /\ operationZones[o][z] \in {"pending", "failed"}
              /\ \A k \in Key : KeyZone(k) = z /\ ~(req[r].pc \in AtKey /\ k = req[r].key)
                    => mutationIntents[o][k] \in {"absent", "confirmed"}
        /\ req[r].pc \in AtKey \cup {"zone"} => \A k \in req[r].keys : KeyZone(k) = z
        /\ req[r].pc \in AtKey => KeyZone(req[r].key) = z
        /\ req[r].pc \in Executing =>
              \A y \in Zone : (req[r].pc \in AtZone => y # z) => Untouched(o, y)
        /\ req[r].pc = "update" =>
              /\ req[r].verdict \in {"complete", "indeterminate", "partial"}
              /\ req[r].verdict = "complete" =>
                    \A y \in Zone : operationZones[o][y] \in {"absent", "success"}

\* What the statuses of an operation and of its zones say about its intents and
\* locks.
RowsOK(o) ==
    /\ operations[o].status \in MayStart => \A z \in Zone : Untouched(o, z)
    /\ operations[o].status = "absent" =>
          \A z \in Zone : operationZones[o][z] = "absent"
    /\ operations[o].status = "complete" =>
          /\ \A z \in Zone : operationZones[o][z] \in {"absent", "success"}
          /\ \A r \in Req : OpOf[r] = o => req[r].pc \notin Executing
    /\ \A z \in Zone : operationZones[o][z] \in {"absent", "success"} =>
          /\ LocksIn(o, z) = {}
          /\ \A k \in Key : KeyZone(k) = z =>
                mutationIntents[o][k] \in {"absent", "confirmed"}
    /\ \A z \in Zone : operationZones[o][z] = "absent" =>
          \A k \in Key : KeyZone(k) = z => mutationIntents[o][k] = "absent"

\* At most one change of an operation is open in a zone.
OneOpen(o) ==
    \A j, k \in Key :
        /\ KeyZone(j) = KeyZone(k)
        /\ mutationIntents[o][j] \notin Settled /\ mutationIntents[o][k] \notin Settled
        => j = k

ZoneInv ==
    /\ \A r \in Req : ZoneOK(r)
    /\ \A o \in Op : RowsOK(o) /\ OneOpen(o)

-----------------------------------------------------------------------------
(* Changes *)

\* Only the executor at a change, and the operator, move an intent; only the call
\* and the provider's answer move its request.
LEMMA IntentMoves ==
    ASSUME IInv, NEW r \in Req, Event(r)
    PROVE  \/ UNCHANGED <<mutationIntents, wire>>
           \/ /\ Advances(r)
              /\ req[r].pc \in AtKey /\ req[r].pc \in Executing
              /\ OpOf[r] \in Op /\ req[r].key \in Key
<1>1. OpOf[r] \in Op /\ (req[r].pc \in AtKey => req[r].key \in Key)
  BY RequestArguments DEF PlacedAt
<1>2. Outside(r) \/ Between(r) \/ Within(r) \/ Closes(r)
         => UNCHANGED <<mutationIntents, wire>>
  BY DEF Outside, Between, Within, Closes, ReuseBatch, ReserveNew, ReserveBatch,
     StartStatement, FreezeBatch, UpdateStatement, FinishBatch, FailedBatch, tables
<1>3. Advances(r) => req[r].pc \in AtKey /\ req[r].pc \in Executing
  BY DEF Advances, AtKey, Executing
<1>4. QED
  BY <1>1, <1>2, <1>3 DEF Event

\* What a step at a change does to its intent and its request.
LEMMA AdvanceEffect ==
    ASSUME IInv, NEW r \in Req, Advances(r), OpOf[r] \in Op, req[r].key \in Key
    PROVE  LET o == OpOf[r]
               k == req[r].key
           IN  /\ \A p \in Op, j \in Key : <<p, j>> # <<o, k>> =>
                     /\ mutationIntents'[p][j] = mutationIntents[p][j]
                     /\ wire'[p][j] = wire[p][j]
               /\ wire'[o][k] = IF req[r].pc = "call" THEN "flying" ELSE wire[o][k]
               /\ LET intent == mutationIntents[o][k]
                      next == mutationIntents'[o][k]
                      to == req'[r].pc
                  IN  /\ req[r].pc = "begin" =>
                             /\ intent = "absent" /\ next = "prepared"
                             /\ to \in {"mark", "zoneError"}
                      /\ req[r].pc = "mark" =>
                             /\ intent = "prepared" /\ next = "sent"
                             /\ to \in {"call", "zoneError"}
                      /\ req[r].pc = "call" => next = intent /\ to = "await"
                      /\ req[r].pc = "await" =>
                             /\ next = intent
                             /\ \/ to = "unknown"
                                \/ to = "confirm" /\ wire[o][k] = "applied"
                      /\ req[r].pc = "confirm" =>
                             \/ next = intent /\ to = "unknown"
                             \/ /\ intent = "sent" /\ next = "confirmed"
                                /\ to \in {"unknown", "zone"}
                      /\ req[r].pc = "unknown" =>
                             /\ intent = "sent" /\ next = "indeterminate"
                             /\ to = "zoneError"
               /\ req[r].pc \in AtKey
               /\ req'[r].pc \in AtKey => req'[r].key = k
<1> DEFINE o == OpOf[r]
           k == req[r].key
           goal == /\ \A p \in Op, j \in Key : <<p, j>> # <<o, k>> =>
                        /\ mutationIntents'[p][j] = mutationIntents[p][j]
                        /\ wire'[p][j] = wire[p][j]
                   /\ wire'[o][k] = IF req[r].pc = "call" THEN "flying" ELSE wire[o][k]
<1>1. /\ mutationIntents \in [Op -> [Key -> IntentStatus]]
      /\ wire \in [Op -> [Key -> WireStatus]]
  BY DEF IInv, TablesOK, StoreTypeOK, WorldOK
<1>2. ASSUME req[r].pc = "begin"
      PROVE  /\ goal /\ mutationIntents[o][k] = "absent"
             /\ mutationIntents'[o][k] = "prepared"
             /\ req'[r].pc \in {"mark", "zoneError"} /\ req'[r].key = k
  <2>1. /\ BeginIntent(r) /\ UNCHANGED wire /\ req'[r].key = k
        /\ req'[r].pc \in {"mark", "zoneError"}
    BY <1>2 DEF Advances
  <2>2. QED
    BY <1>1, <1>2, <2>1 DEF BeginIntent, BeginBatch, SetIntent
<1>3. ASSUME req[r].pc = "mark"
      PROVE  /\ goal /\ mutationIntents[o][k] = "prepared"
             /\ mutationIntents'[o][k] = "sent"
             /\ req'[r].pc \in {"call", "zoneError"} /\ req'[r].key = k
  <2>1. /\ SentStatement(o, k) /\ UNCHANGED wire /\ req'[r].key = k
        /\ req'[r].pc \in {"call", "zoneError"}
    BY <1>3 DEF Advances
  <2>2. QED
    BY <1>1, <1>3, <2>1 DEF SentStatement, SetIntent
<1>4. ASSUME req[r].pc = "call"
      PROVE  /\ goal /\ mutationIntents'[o][k] = mutationIntents[o][k]
             /\ req'[r].pc = "await" /\ req'[r].key = k
  BY <1>1, <1>4 DEF Advances, tables
<1>5. ASSUME req[r].pc = "await"
      PROVE  /\ goal /\ mutationIntents'[o][k] = mutationIntents[o][k]
             /\ req'[r].key = k
             /\ \/ req'[r].pc = "unknown"
                \/ req'[r].pc = "confirm" /\ wire[o][k] = "applied"
  BY <1>1, <1>5 DEF Advances, tables
<1>6. ASSUME req[r].pc = "confirm"
      PROVE  /\ goal
             /\ \/ /\ mutationIntents'[o][k] = mutationIntents[o][k]
                   /\ req'[r].pc = "unknown"
                \/ /\ mutationIntents[o][k] = "sent"
                   /\ mutationIntents'[o][k] = "confirmed"
                   /\ req'[r].pc \in {"unknown", "zone"}
             /\ req'[r].pc \in AtKey => req'[r].key = k
  <2>1. /\ UNCHANGED wire /\ (req'[r].pc \in AtKey => req'[r].key = k)
        /\ \/ UNCHANGED mutationIntents /\ req'[r].pc = "unknown"
           \/ ConfirmBatch(o, k) /\ req'[r].pc \in {"unknown", "zone"}
    BY <1>6 DEF Advances, tables, AtKey
  <2>2. QED
    BY <1>1, <1>6, <2>1 DEF ConfirmBatch, Confirmable, StatusTransition, SetIntent
<1>7. ASSUME req[r].pc = "unknown"
      PROVE  /\ goal /\ mutationIntents[o][k] = "sent"
             /\ mutationIntents'[o][k] = "indeterminate"
             /\ req'[r].pc = "zoneError" /\ req'[r].key = k
  <2>1. /\ IndeterminateBatch(o, k) /\ UNCHANGED wire /\ req'[r].key = k
        /\ req'[r].pc = "zoneError"
    BY <1>7 DEF Advances
  <2>2. QED
    BY <1>1, <1>7, <2>1 DEF IndeterminateBatch, StatusTransition, SetIntent
<1>8. req[r].pc \in AtKey
  BY DEF Advances, AtKey
<1> HIDE DEF goal
<1>9. goal
  BY <1>2, <1>3, <1>4, <1>5, <1>6, <1>7, <1>8 DEF AtKey
<1>10. req'[r].pc \in AtKey => req'[r].key = k
  BY <1>2, <1>3, <1>4, <1>5, <1>6, <1>7, <1>8 DEF AtKey
<1>11. QED
  BY <1>2, <1>3, <1>4, <1>5, <1>6, <1>7, <1>8, <1>9, <1>10 DEF AtKey, goal

\* A decision settles an indeterminate intent and nothing else.
LEMMA DecisionEffect ==
    ASSUME IInv, NEW o \in Op, NEW k \in Key, OperatorStep(o, k)
    PROVE  /\ \A p \in Op, j \in Key : <<p, j>> # <<o, k>> =>
                 mutationIntents'[p][j] = mutationIntents[p][j]
           /\ mutationIntents[o][k] = "indeterminate"
           /\ mutationIntents'[o][k] = "resolved"
           /\ OperatorWaits => wire[o][k] # "flying"
           /\ UNCHANGED <<wire, req>>
<1>1. mutationIntents \in [Op -> [Key -> IntentStatus]]
  BY DEF IInv, TablesOK, StoreTypeOK
<1>2. PICK decision \in Decisions, p \in Candidates(k) : Resolve(o, k, decision, p)
  BY DEF OperatorStep
<1>3. ResolveBatch(o, k, decision, p) /\ (OperatorWaits => wire[o][k] # "flying")
  BY <1>2 DEF Resolve, Careful
<1>4. mutationIntents[o][k] = "indeterminate" /\ SetIntent(o, k, "resolved")
  BY <1>3 DEF ResolveBatch, StatusTransition
<1>5. QED
  BY <1>1, <1>3, <1>4, OperatorStepTables DEF SetIntent

\* Two requests at a change are at different ones.
LEMMA ChangesApart ==
    ASSUME ExecInv, NEW q \in Req, NEW r \in Req, q # r,
           req[q].pc \in AtKey, req[r].pc \in AtKey
    PROVE  OpOf[q] # OpOf[r]
BY DEF ExecInv, SingleExecution, AtKey, Executing

\* Intents, requests on the wire and executors stay in step.
LEMMA ChangeNext == IInv /\ ExecInv /\ ChangeInv /\ [Next]_vars => ChangeInv'
<1> SUFFICES ASSUME IInv, ExecInv, ChangeInv, [Next]_vars PROVE ChangeInv'
  OBVIOUS
<1>1. /\ mutationIntents \in [Op -> [Key -> IntentStatus]]
      /\ wire \in [Op -> [Key -> WireStatus]]
  BY DEF IInv, TablesOK, StoreTypeOK, WorldOK
<1>2. \A q \in Req : /\ OpOf[q] \in Op
                     /\ req[q].pc \in AtKey => req[q].key \in Key
  BY RequestArguments DEF PlacedAt
<1>3. CASE UNCHANGED <<tables, wire, req>>
  BY <1>3 DEF ChangeInv, WireOK, PhaseOK, tables
<1>4. ASSUME NEW r \in Req, Event(r), UNCHANGED <<mutationIntents, wire>>
      PROVE  ChangeInv'
  <2>1. WireOK'
    BY <1>4 DEF ChangeInv, WireOK
  <2>2. ASSUME NEW q \in Req, q # r PROVE PhaseOK(q)'
    BY <1>4, <2>2 DEF Event, ChangeInv, PhaseOK
  <2>3. PhaseOK(r) /\ OpOf[r] \in Op
    BY <1>2 DEF ChangeInv
  <2>4. ASSUME Advances(r) PROVE PhaseOK(r)'
    <3>1. req[r].key \in Key
      BY <1>2, <2>4 DEF Advances, AtKey
    <3>2. QED
      BY <1>4, <2>3, <2>4, <3>1, AdvanceEffect DEF PhaseOK, AtKey
  <2>5. ASSUME Outside(r) \/ Between(r) \/ Closes(r) PROVE PhaseOK(r)'
    <3>1. req'[r].pc \notin AtKey
      BY <2>5 DEF Outside, Between, Closes, AtKey, Executing
    <3>2. QED
      BY <3>1 DEF PhaseOK, AtKey
  <2>6. ASSUME Within(r) PROVE PhaseOK(r)'
    BY <2>6 DEF Within, PhaseOK, tables
  <2>7. PhaseOK(r)'
    BY <1>4, <2>4, <2>5, <2>6 DEF Event
  <2>8. QED
    BY <2>1, <2>2, <2>7 DEF ChangeInv
<1>5. ASSUME NEW r \in Req, Event(r), Advances(r), req[r].pc \in AtKey,
             req[r].key \in Key
      PROVE  ChangeInv'
  <2> DEFINE o == OpOf[r]
             k == req[r].key
  <2>1. PhaseOK(r) /\ WireOK
    BY DEF ChangeInv
  <2>2. WireOK'
    <3> SUFFICES ASSUME NEW p \in Op, NEW j \in Key
                 PROVE  /\ wire'[p][j] # "idle"
                             => mutationIntents'[p][j] \notin {"absent", "prepared"}
                        /\ mutationIntents'[p][j] \in {"indeterminate", "resolved"}
                             => wire'[p][j] # "idle"
                        /\ mutationIntents'[p][j] = "confirmed" => wire'[p][j] = "applied"
                        /\ OperatorWaits /\ wire'[p][j] = "flying"
                             => mutationIntents'[p][j] \in {"sent", "indeterminate"}
      BY DEF WireOK
    <3>1. CASE <<p, j>> # <<o, k>>
      BY <1>2, <1>5, <2>1, <3>1, AdvanceEffect DEF WireOK
    <3>2. CASE p = o /\ j = k
      BY <1>2, <1>5, <2>1, <3>2, AdvanceEffect DEF WireOK, PhaseOK, AtKey
    <3>3. QED
      BY <3>1, <3>2
  <2>3. ASSUME NEW q \in Req, q # r PROVE PhaseOK(q)'
    <3>1. req'[q] = req[q] /\ PhaseOK(q)
      BY <1>5, <2>3 DEF Event, ChangeInv
    <3>2. CASE req[q].pc \in AtKey
      BY <1>2, <1>5, <2>3, <3>1, <3>2, AdvanceEffect, ChangesApart DEF PhaseOK
    <3>3. CASE req[q].pc \notin AtKey
      BY <3>1, <3>3 DEF PhaseOK, AtKey
    <3>4. QED
      BY <3>2, <3>3
  <2>4. PhaseOK(r)'
    <3>0. /\ OpOf[r] \in Op
          /\ wire'[o][k] = IF req[r].pc = "call" THEN "flying" ELSE wire[o][k]
          /\ req'[r].pc \in AtKey => req'[r].key = k
      BY <1>2, <1>5, AdvanceEffect
    <3>1. CASE req[r].pc \in {"begin", "mark", "call"}
      <4>1. \/ /\ req'[r].pc \in {"mark", "zoneError"}
               /\ mutationIntents'[o][k] = "prepared"
            \/ /\ req'[r].pc \in {"call", "zoneError"} /\ req[r].pc = "mark"
               /\ mutationIntents[o][k] = "prepared" /\ mutationIntents'[o][k] = "sent"
            \/ /\ req'[r].pc = "await" /\ req[r].pc = "call"
               /\ mutationIntents'[o][k] = mutationIntents[o][k]
        BY <1>2, <1>5, <3>1, AdvanceEffect
      <4>2. QED
        BY <1>5, <2>1, <3>0, <4>1 DEF WireOK, PhaseOK, AtKey
    <3>2. CASE req[r].pc \in {"await", "confirm", "unknown"}
      BY <1>2, <1>5, <2>1, <3>2, AdvanceEffect DEF PhaseOK, AtKey
    <3>3. QED
      BY <1>5, <3>1, <3>2 DEF AtKey
  <2>5. QED
    BY <2>2, <2>3, <2>4 DEF ChangeInv
<1>6. ASSUME NEW o \in Op, NEW k \in Key, Answers(o, k)
      PROVE  ChangeInv'
  <2>1. /\ \A p \in Op, j \in Key : <<p, j>> # <<o, k>> => wire'[p][j] = wire[p][j]
        /\ wire[o][k] = "flying" /\ wire'[o][k] \in {"applied", "rejected"}
        /\ UNCHANGED <<mutationIntents, req>>
    BY <1>1, <1>6 DEF Answers, tables
  <2>2. WireOK'
    BY <2>1 DEF ChangeInv, WireOK
  <2>3. ASSUME NEW q \in Req PROVE PhaseOK(q)'
    <3>1. CASE req[q].pc \in AtKey
      BY <1>2, <2>1, <3>1 DEF ChangeInv, PhaseOK
    <3>2. CASE req[q].pc \notin AtKey
      BY <2>1, <3>2 DEF PhaseOK, AtKey
    <3>3. QED
      BY <3>1, <3>2
  <2>4. QED
    BY <2>2, <2>3 DEF ChangeInv
<1>7. ASSUME NEW o \in Op, NEW k \in Key, OperatorStep(o, k)
      PROVE  ChangeInv'
  <2>1. WireOK'
    BY <1>7, DecisionEffect DEF ChangeInv, WireOK
  <2>2. ASSUME NEW q \in Req PROVE PhaseOK(q)'
    <3>1. CASE req[q].pc \in AtKey
      BY <1>2, <1>7, <3>1, DecisionEffect DEF ChangeInv, PhaseOK
    <3>2. CASE req[q].pc \notin AtKey
      BY <1>7, <3>2, DecisionEffect DEF PhaseOK, AtKey
    <3>3. QED
      BY <3>1, <3>2
  <2>3. QED
    BY <2>1, <2>2 DEF ChangeInv
<1>8. QED
  BY <1>3, <1>4, <1>5, <1>6, <1>7, StepsHappen, IntentMoves DEF Happens, Around

\* Where a change stands, in every behaviour.
LEMMA ChangesHold == Spec => [](ExecInv /\ ChangeInv)
<1>1. Init => ExecInv /\ ChangeInv
  BY DEF Init, StoreInit, ChangeInv, WireOK, PhaseOK, ExecInv, SingleExecution,
     Fresh, Executing
<1>2. QED
  BY <1>1, ExecNext, ChangeNext, IInvHolds, PTL DEF Spec

\* D1 never confirms a change the provider has not carried out: whatever answers
\* are lost, late or refused, the confirmation follows the provider's answer and
\* the answer follows the one request (executeZone, confirmMutation).
THEOREM ConfirmedApplied == Spec => []ConfirmedWasApplied
<1>1. ChangeInv => ConfirmedWasApplied
  BY DEF ChangeInv, WireOK, ConfirmedWasApplied
<1>2. QED
  BY <1>1, ChangesHold, PTL

\* A change is sent at most once in the life of its operation, by no retry,
\* resumption, duplicate or replay: the one request to the provider starts from an
\* intent that was prepared and marked by the same execution
\* (beginMutationIntent, markMutationSent).
THEOREM SentAtMostOnce == Spec => SentOnce
<1> DEFINE Once == \A o \in Op, k \in Key :
                      wire[o][k] # "idle" => \/ wire'[o][k] # "flying"
                                             \/ wire'[o][k] = wire[o][k]
<1>1. IInv /\ ExecInv /\ ChangeInv /\ [Next]_vars => Once
  <2> SUFFICES ASSUME IInv, ExecInv, ChangeInv, [Next]_vars PROVE Once
    OBVIOUS
  <2>1. wire \in [Op -> [Key -> WireStatus]]
    BY DEF IInv, WorldOK
  <2>2. ASSUME NEW r \in Req, Event(r)
        PROVE  Once
    <3>1. CASE UNCHANGED wire
      BY <3>1
    <3>2. CASE Advances(r) /\ OpOf[r] \in Op /\ req[r].key \in Key
      <4>1. PhaseOK(r)
        BY DEF ChangeInv
      <4>2. QED
        BY <3>2, <4>1, AdvanceEffect DEF PhaseOK
    <3>3. QED
      BY <2>2, <3>1, <3>2, IntentMoves
  <2>3. ASSUME NEW o \in Op, NEW k \in Key, Answers(o, k)
        PROVE  Once
    BY <2>1, <2>3 DEF Answers
  <2>4. ASSUME NEW o \in Op, NEW k \in Key, OperatorStep(o, k)
        PROVE  Once
    BY <2>4, DecisionEffect
  <2>5. QED
    BY <2>2, <2>3, <2>4, StepsHappen DEF Happens, Around
<1>2. IInv /\ ExecInv /\ ChangeInv /\ [Next]_vars
        => [\A o \in Op, k \in Key :
              wire[o][k] # "idle" => wire'[o][k] # "flying" \/ wire'[o][k] = wire[o][k]]_vars
  BY <1>1
<1>3. QED
  BY <1>2, ChangesHold, IInvHolds, PTL DEF Spec, SentOnce
-----------------------------------------------------------------------------
(* Zones *)

\* The rows of an operation do not move, nor does it gain a lock.
Unmoved(p) ==
    /\ operations'[p].status = operations[p].status
    /\ operationZones'[p] = operationZones[p]
    /\ mutationIntents'[p] = mutationIntents[p]
    /\ \A s \in RecordSet : operationLocks'[s] = p => operationLocks[s] = p

\* A step that moves the rows of one operation and requests of that operation
\* only has to be looked at there.
LEMMA OthersUnmoved ==
    ASSUME ZoneInv, NEW o \in Op,
           \A p \in Op \ {o} : Unmoved(p),
           \A q \in Req : OpOf[q] # o => req'[q] = req[q],
           RowsOK(o)', OneOpen(o)',
           \A q \in Req : OpOf[q] = o => ZoneOK(q)'
    PROVE  ZoneInv'
<1>1. ASSUME NEW p \in Op, p # o
      PROVE  RowsOK(p)' /\ OneOpen(p)'
  <2>1. Unmoved(p) /\ RowsOK(p) /\ OneOpen(p)
    BY <1>1 DEF ZoneInv
  <2>2. \A z \in Zone : Untouched(p, z)' = Untouched(p, z)
    BY <2>1 DEF Unmoved, Untouched, KeyZone
  <2>3. \A z \in Zone : LocksIn(p, z) = {} => LocksIn(p, z)' = {}
    BY <2>1 DEF Unmoved, LocksIn
  <2>4. OneOpen(p)'
    BY <2>1 DEF Unmoved, OneOpen, KeyZone
  <2>5. \A q \in Req : OpOf[q] = p => req'[q] = req[q]
    BY <1>1
  <2>6. RowsOK(p)'
    BY <2>1, <2>2, <2>3, <2>5 DEF Unmoved, RowsOK, KeyZone
  <2>7. QED
    BY <2>4, <2>6
<1>2. ASSUME NEW q \in Req, OpOf[q] # o
      PROVE  ZoneOK(q)'
  <2>1. ZoneOK(q) /\ Unmoved(OpOf[q]) /\ req'[q] = req[q]
    BY <1>2, ApplyAssumption DEF ZoneInv
  <2>2. \A z \in Zone : Untouched(OpOf[q], z)' = Untouched(OpOf[q], z)
    BY <2>1 DEF Unmoved, Untouched, KeyZone
  <2>3. QED
    BY <2>1, <2>2 DEF Unmoved, ZoneOK, KeyZone
<1>3. QED
  BY <1>1, <1>2 DEF ZoneInv

\* A request that executes nothing asks nothing of the zones.
LEMMA IdleOK ==
    ASSUME NEW q \in Req, req'[q].pc \notin Executing
    PROVE  ZoneOK(q)'
BY DEF ZoneOK, InZone, AtKey, Executing

\* An event of a request moves the rows of its operation only.
LEMMA EventRows ==
    ASSUME IInv, NEW r \in Req, Event(r)
    PROVE  /\ OpOf[r] \in Op
           /\ \A p \in Op \ {OpOf[r]} : Unmoved(p)
           /\ \A q \in Req \ {r} : req'[q] = req[q]
<1> DEFINE o == OpOf[r]
           k == req[r].key
           z == req[r].zone
<1>1. OpOf[r] \in Op /\ PlacedAt(r) /\ TokenOf[r] \in Token
  BY RequestArguments
<1>2. /\ operations \in [Op -> OperationRow]
      /\ operationZones \in [Op -> [Zone -> ZoneStatus]]
      /\ mutationIntents \in [Op -> [Key -> IntentStatus]]
  BY DEF IInv, TablesOK, StoreTypeOK
<1>3. ASSUME NEW p \in Op, p # OpOf[r]
      PROVE  Unmoved(p)
  <2>1. ASSUME UNCHANGED tables PROVE Unmoved(p)
    BY <2>1 DEF tables, Unmoved
  <2>2. ASSUME ReuseBatch(o, TokenOf[r]) \/ StartStatement(o) PROVE Unmoved(p)
    BY <1>1, <1>2, <1>3, <2>2 DEF ReuseBatch, StartStatement, SetStatus, Unmoved
  <2>3. ASSUME ReserveNew(r) PROVE Unmoved(p)
    BY <1>1, <1>2, <1>3, <2>3 DEF ReserveNew, ReserveBatch, Unmoved
  <2>4. ASSUME FreezeBatch(o, z) \/ UpdateStatement(o, req[r].verdict) PROVE Unmoved(p)
    BY <1>1, <1>2, <1>3, <2>4 DEF FreezeBatch, UpdateStatement, SetStatus, SetZone,
       Unmoved
  <2>5. ASSUME FinishBatch(o, z) \/ FailedBatch(o, z) PROVE Unmoved(p)
    <3>1. NoOp # p
      BY <1>3, StoreAssumption
    <3>2. \A s \in RecordSet : operationLocks'[s] \in {operationLocks[s], NoOp}
      BY <2>5 DEF FinishBatch, FailedBatch, ReleaseLocks
    <3>3. QED
      BY <1>1, <1>2, <1>3, <2>5, <3>1, <3>2 DEF FinishBatch, FailedBatch, SetZone,
         Unmoved
  <2>6. ASSUME BeginIntent(r) PROVE Unmoved(p)
    BY <1>1, <1>2, <1>3, <2>6 DEF BeginIntent, BeginBatch, SetIntent, Unmoved
  <2>7. ASSUME SentStatement(o, k) \/ ConfirmBatch(o, k) PROVE Unmoved(p)
    BY <1>1, <1>2, <1>3, <2>7 DEF SentStatement, ConfirmBatch, SetIntent, Unmoved
  <2>8. ASSUME IndeterminateBatch(o, k) PROVE Unmoved(p)
    BY <1>1, <1>2, <1>3, <2>8 DEF IndeterminateBatch, SetIntent, SetZone, SetStatus,
       Unmoved
  <2>9. QED
    BY <2>1, <2>2, <2>3, <2>4, <2>5, <2>6, <2>7, <2>8 DEF Event, Outside, Between,
       Within, Advances, Closes
<1>4. QED
  BY <1>1, <1>3 DEF Event

\* The request that executes an operation is the only one.
LEMMA AloneOK ==
    ASSUME ExecInv, NEW r \in Req, req[r].pc \in Executing,
           \A q \in Req \ {r} : req'[q] = req[q], ZoneOK(r)'
    PROVE  \A q \in Req : OpOf[q] = OpOf[r] => ZoneOK(q)'
BY IdleOK DEF ExecInv, SingleExecution

\* The sets a request reserves lie in the zones of its operation.
LEMMA AffectedZones ==
    ASSUME NEW r \in Req
    PROVE  \A s \in AffectedSets(r) : ZoneOf[s] \in OpZones(OpOf[r])
BY DEF AffectedSets, PruneKeys, OpZones, KeyZone

\* Outside an execution only the status of the operation moves, or its rows are
\* written for the first time.
LEMMA OutsideZones ==
    ASSUME IInv, ExecInv, ZoneInv, NEW r \in Req, Event(r), Outside(r)
    PROVE  ZoneInv'
<1> DEFINE o == OpOf[r]
           z == req[r].zone
<1>1. o \in Op /\ (\A q \in Req \ {r} : req'[q] = req[q])
      /\ (\A p \in Op \ {o} : Unmoved(p))
  BY EventRows
<1>2. /\ operations \in [Op -> OperationRow]
      /\ operationZones \in [Op -> [Zone -> ZoneStatus]]
      /\ mutationIntents \in [Op -> [Key -> IntentStatus]]
  BY DEF IInv, TablesOK, StoreTypeOK
<1>3. RowsOK(o) /\ OneOpen(o) /\ ZoneOK(r) /\ ZoneOK(r)' /\ req'[r].pc \notin Executing
  BY <1>1, IdleOK DEF ZoneInv, Outside
<1>4. \A q \in Req : OpOf[q] = o => (req'[q].pc \in Executing => req'[q] = req[q])
  BY <1>1, <1>3
<1>5. ASSUME UNCHANGED <<operationZones, operationLocks, mutationIntents>>,
             \/ UNCHANGED operations
             \/ operations'[o].status \notin MayStart \cup {"complete"}
             \/ /\ operations'[o].status = "partial"
                /\ \A y \in Zone : Untouched(o, y)
             \/ /\ operations'[o].status = "complete"
                /\ \A y \in Zone : operationZones[o][y] \in {"absent", "success"}
                /\ \A q \in Req : OpOf[q] = o => req'[q].pc \notin Executing
      PROVE  ZoneInv'
  <2>1. \A y \in Zone : Untouched(o, y)' = Untouched(o, y)
    BY <1>5 DEF Untouched, KeyZone
  <2>2. RowsOK(o)'
    BY <1>3, <1>4, <1>5, <2>1 DEF RowsOK, LocksIn, KeyZone, MayStart
  <2>3. OneOpen(o)'
    BY <1>3, <1>5 DEF OneOpen, KeyZone
  <2>4. ASSUME NEW q \in Req, OpOf[q] = o PROVE ZoneOK(q)'
    <3>1. CASE req'[q].pc \notin Executing
      BY <3>1, IdleOK
    <3>2. CASE req'[q] = req[q]
      BY <1>5, <2>1, <2>4, <3>2 DEF ZoneInv, ZoneOK, KeyZone
    <3>3. QED
      BY <1>4, <2>4, <3>1, <3>2
  <2>5. QED
    BY <1>1, <2>2, <2>3, <2>4, OthersUnmoved
<1>6. CASE UNCHANGED tables \/ ReuseBatch(o, TokenOf[r])
  BY <1>5, <1>6 DEF tables, ReuseBatch
<1>7. CASE StartStatement(o)
  BY <1>1, <1>2, <1>5, <1>7 DEF StartStatement, SetStatus, OperationRow, MayStart
<1>8. CASE req[r].pc = "update" /\ UpdateStatement(o, req[r].verdict)
  <2>1. /\ req[r].pc \in Executing /\ req[r].pc \notin AtZone
        /\ operations'[o].status = req[r].verdict
    BY <1>1, <1>2, <1>8 DEF UpdateStatement, SetStatus, OperationRow, Executing,
       AtZone, AtKey
  <2>2. \A q \in Req : OpOf[q] = o => req'[q].pc \notin Executing
    BY <1>1, <1>3, <2>1 DEF ExecInv, SingleExecution
  <2>3. /\ req[r].verdict \in {"complete", "indeterminate", "partial"}
        /\ req[r].verdict = "complete" =>
              \A y \in Zone : operationZones[o][y] \in {"absent", "success"}
        /\ \A y \in Zone : Untouched(o, y)
    BY <1>3, <1>8, <2>1 DEF ZoneOK
  <2>4. QED
    BY <1>5, <1>8, <2>1, <2>2, <2>3 DEF UpdateStatement, MayStart
<1>9. CASE req[r].pc = "freeze" /\ FreezeBatch(o, z)
  <2>1. /\ req[r].pc \in Executing /\ z \in Zone
        /\ operations'[o].status = "indeterminate"
    BY <1>1, <1>2, <1>9, RequestArguments DEF FreezeBatch, SetStatus, OperationRow,
       Executing, PlacedAt, AtZone
  <2>2. \A y \in Zone : operationZones'[o][y] \in {"absent", "success"}
                          => operationZones'[o][y] = operationZones[o][y]
    BY <1>1, <1>2, <1>9, <2>1 DEF FreezeBatch, SetZone
  <2>3. UNCHANGED <<operationLocks, mutationIntents>>
    BY <1>9 DEF FreezeBatch
  <2>4. RowsOK(o)'
    BY <1>3, <2>1, <2>2, <2>3 DEF RowsOK, LocksIn, KeyZone, MayStart
  <2>5. OneOpen(o)'
    BY <1>3, <2>3 DEF OneOpen, KeyZone
  <2>6. QED
    BY <1>1, <1>3, <2>1, <2>4, <2>5, AloneOK, OthersUnmoved
<1>10. CASE ReserveNew(r) /\ req[r].pc = "reserve"
  <2>1. /\ operations[o].status = "absent" /\ operations'[o].status = "reserved"
        /\ UNCHANGED mutationIntents
        /\ \A y \in Zone : operationZones'[o][y] = IF y \in OpZones(o) THEN "pending"
                                                   ELSE "absent"
        /\ \A s \in RecordSet : operationLocks'[s] = IF s \in AffectedSets(r) THEN o
                                                     ELSE operationLocks[s]
    BY <1>1, <1>2, <1>10 DEF ReserveNew, ReserveBatch
  <2>2. /\ \A k \in Key : mutationIntents[o][k] = "absent"
        /\ \A s \in RecordSet : operationLocks[s] # o
    BY <1>3, <2>1, StoreAssumption DEF RowsOK, LocksIn, KeyZone
  <2>3. \A y \in Zone : Untouched(o, y)'
    BY <2>1, <2>2 DEF Untouched
  <2>4. \A y \in Zone : operationZones'[o][y] \in {"absent", "success"}
                          => LocksIn(o, y)' = {}
    BY <2>1, <2>2, AffectedZones DEF LocksIn
  <2>5. RowsOK(o)'
    BY <2>1, <2>2, <2>3, <2>4 DEF RowsOK, MayStart
  <2>6. OneOpen(o)'
    BY <1>3, <2>1 DEF OneOpen, KeyZone
  <2>7. ASSUME NEW q \in Req, OpOf[q] = o PROVE ZoneOK(q)'
    <3>1. req[q].pc \notin Executing
      BY <2>1, <2>7 DEF ExecInv, MayStart
    <3>2. QED
      BY <1>1, <1>3, <3>1, IdleOK
  <2>8. QED
    BY <1>1, <2>5, <2>6, <2>7, OthersUnmoved
<1>11. QED
  BY <1>6, <1>7, <1>8, <1>9, <1>10 DEF Outside

\* Between the zones nothing is written but the start of the operation.
LEMMA BetweenZones ==
    ASSUME IInv, ExecInv, ZoneInv, NEW r \in Req, Event(r), Between(r)
    PROVE  ZoneInv'
<1> DEFINE o == OpOf[r]
           z == req'[r].zone
<1>1. o \in Op /\ (\A q \in Req \ {r} : req'[q] = req[q])
      /\ (\A p \in Op \ {o} : Unmoved(p))
  BY EventRows
<1>2. operations \in [Op -> OperationRow]
  BY DEF IInv, TablesOK, StoreTypeOK
<1>3. RowsOK(o) /\ OneOpen(o) /\ ZoneOK(r)
  BY <1>1 DEF ZoneInv
<1>4. UNCHANGED <<operationZones, operationLocks, mutationIntents>>
  BY DEF Between, StartStatement, tables
<1>5. \A y \in Zone : Untouched(o, y)' = Untouched(o, y)
  BY <1>4 DEF Untouched, KeyZone
<1>6. OneOpen(o)'
  BY <1>3, <1>4 DEF OneOpen, KeyZone
<1>7. /\ \A y \in Zone : Untouched(o, y)
      /\ \/ req[r].pc \in Executing
         \/ \A q \in Req : OpOf[q] = o => req[q].pc \notin Executing
      /\ operations'[o].status \notin MayStart \cup {"complete"}
  <2>1. CASE StartStatement(o)
    BY <1>1, <1>2, <1>3, <2>1 DEF StartStatement, SetStatus, OperationRow, MayStart, RowsOK,
       ExecInv
  <2>2. CASE req[r].pc = "zones" /\ UNCHANGED tables
    BY <1>3, <2>2 DEF ZoneOK, RowsOK, ExecInv, AtZone, AtKey, Executing, tables
  <2>3. QED
    BY <2>1, <2>2 DEF Between
<1>8. RowsOK(o)'
  BY <1>3, <1>4, <1>5, <1>7 DEF RowsOK, LocksIn, KeyZone, MayStart
<1>9. ZoneOK(r)'
  <2>1. CASE req'[r].pc = "zones"
    BY <1>5, <1>7, <2>1 DEF ZoneOK, InZone, AtZone, AtKey
  <2>2. CASE req'[r].pc = "update" /\ req'[r].verdict = Verdict(o) /\ UNCHANGED tables
    <3>1. /\ req'[r].verdict \in {"complete", "indeterminate", "partial"}
          /\ req'[r].verdict = "complete" =>
                \A y \in Zone : operationZones[o][y] \in {"absent", "success"}
      BY <2>2 DEF Verdict
    <3>2. QED
      BY <1>4, <1>5, <1>7, <2>2, <3>1 DEF ZoneOK, InZone, AtZone, AtKey
  <2>3. CASE /\ req'[r].pc = "zone" /\ z \in Zone
             /\ operationZones[o][z] \in {"pending", "failed"}
             /\ req'[r].keys = Mutations(r, z)
    <3>1. \A k \in req'[r].keys : KeyZone(k) = z
      BY <2>3 DEF Mutations
    <3>2. \A k \in Key : KeyZone(k) = z => mutationIntents[o][k] = "absent"
      BY <1>7, <2>3 DEF Untouched
    <3>3. QED
      BY <1>4, <1>5, <1>7, <2>3, <3>1, <3>2 DEF ZoneOK, InZone, AtZone, AtKey, KeyZone
  <2>4. CASE req'[r].pc = "zoneError"
    BY <1>5, <1>7, <2>4 DEF ZoneOK, InZone, AtZone, AtKey
  <2>5. QED
    BY <2>1, <2>2, <2>3, <2>4 DEF Between
<1>10. ASSUME NEW q \in Req, OpOf[q] = o PROVE ZoneOK(q)'
  <2>1. q # r => req'[q].pc \notin Executing
    BY <1>1, <1>7, <1>10 DEF ExecInv, SingleExecution
  <2>2. QED
    BY <1>9, <2>1, IdleOK
<1>11. QED
  BY <1>1, <1>6, <1>8, <1>10, OthersUnmoved

\* In a zone nothing is written between two changes.
LEMMA WithinZones ==
    ASSUME IInv, ExecInv, ZoneInv, NEW r \in Req, Event(r), Within(r)
    PROVE  ZoneInv'
<1> DEFINE o == OpOf[r]
           z == req[r].zone
<1>1. o \in Op /\ (\A q \in Req \ {r} : req'[q] = req[q])
      /\ (\A p \in Op \ {o} : Unmoved(p))
  BY EventRows
<1>2. RowsOK(o) /\ OneOpen(o) /\ ZoneOK(r)
  BY <1>1 DEF ZoneInv
<1>3. UNCHANGED <<operations, operationZones, operationLocks, mutationIntents>>
  BY DEF Within, tables
<1>4. \A y \in Zone : Untouched(o, y)' = Untouched(o, y)
  BY <1>3 DEF Untouched, KeyZone
<1>5. req[r].pc \in Executing /\ req[r].pc \in AtZone /\ req'[r].zone = z
  BY DEF Within, InZone, AtZone, AtKey, Executing
<1>6. operations[o].status \notin MayStart \cup {"complete"}
  BY <1>2, <1>5 DEF ExecInv, RowsOK
<1>7. RowsOK(o)' /\ OneOpen(o)'
  BY <1>2, <1>3, <1>4, <1>6 DEF RowsOK, OneOpen, LocksIn, KeyZone, MayStart
<1>8. \A y \in Zone \ {z} : Untouched(o, y)
  BY <1>2, <1>5 DEF ZoneOK
<1>9. ASSUME req'[r].pc \in {"zoneError", "freeze"}
      PROVE  ZoneOK(r)'
  BY <1>4, <1>5, <1>8, <1>9 DEF ZoneOK, InZone, AtZone, AtKey
<1>10. ASSUME req[r].pc = "zone", req'[r].pc \in {"zone", "begin", "finish"},
              req'[r].keys \subseteq req[r].keys,
              req'[r].pc = "begin" => req'[r].key \in req[r].keys
       PROVE  ZoneOK(r)'
  <2>1. /\ operationZones[o][z] \in {"pending", "failed"}
        /\ \A k \in Key : KeyZone(k) = z => mutationIntents[o][k] \in {"absent", "confirmed"}
        /\ \A k \in req[r].keys : KeyZone(k) = z
    BY <1>2, <1>10 DEF ZoneOK, InZone, AtKey
  <2>2. QED
    BY <1>3, <1>4, <1>5, <1>8, <1>10, <2>1 DEF ZoneOK, InZone, AtZone, AtKey, KeyZone
<1>11. ZoneOK(r)'
  BY <1>9, <1>10 DEF Within
<1>12. QED
  BY <1>1, <1>5, <1>7, <1>11, AloneOK, OthersUnmoved

\* What a step at a change writes beside its intent.
LEMMA AdvanceRows ==
    ASSUME IInv, NEW r \in Req, Advances(r), OpOf[r] \in Op, req[r].key \in Key
    PROVE  LET o == OpOf[r]
           IN  /\ UNCHANGED operationLocks
               /\ \/ UNCHANGED <<operations, operationZones>>
                  \/ /\ req[r].pc = "unknown"
                     /\ operations'[o].status = "indeterminate"
                     /\ \A y \in Zone : operationZones'[o][y] =
                           IF y = KeyZone(req[r].key) THEN "indeterminate"
                           ELSE operationZones[o][y]
<1>1. /\ operations \in [Op -> OperationRow]
      /\ operationZones \in [Op -> [Zone -> ZoneStatus]]
  BY DEF IInv, TablesOK, StoreTypeOK
<1>2. ASSUME IndeterminateBatch(OpOf[r], req[r].key)
      PROVE  /\ UNCHANGED operationLocks
             /\ operations'[OpOf[r]].status = "indeterminate"
             /\ \A y \in Zone : operationZones'[OpOf[r]][y] =
                   IF y = KeyZone(req[r].key) THEN "indeterminate"
                   ELSE operationZones[OpOf[r]][y]
  BY <1>1, <1>2 DEF IndeterminateBatch, SetStatus, SetZone, OperationRow
<1>3. QED
  BY <1>2 DEF Advances, BeginIntent, BeginBatch, SentStatement, ConfirmBatch, tables

\* A change in a zone leaves every other change of the zone as it is, absent or
\* confirmed.
LEMMA AdvanceZones ==
    ASSUME IInv, ExecInv, ChangeInv, ZoneInv, NEW r \in Req, Event(r), Advances(r),
           req[r].pc \in AtKey, req[r].key \in Key
    PROVE  ZoneInv'
<1> DEFINE o == OpOf[r]
           k == req[r].key
           z == req[r].zone
<1>1. o \in Op /\ (\A q \in Req \ {r} : req'[q] = req[q])
      /\ (\A p \in Op \ {o} : Unmoved(p))
  BY EventRows
<1>2. RowsOK(o) /\ OneOpen(o) /\ ZoneOK(r) /\ PhaseOK(r)
  BY <1>1 DEF ZoneInv, ChangeInv
<1>3. /\ req[r].pc \in Executing /\ req[r].pc \in AtZone /\ req[r].pc \in InZone
      /\ req'[r].zone = z /\ KeyZone(k) = z
  BY <1>2 DEF Advances, InZone, AtZone, AtKey, Executing, ZoneOK
<1>4. operations[o].status \notin MayStart \cup {"complete"}
  BY <1>2, <1>3 DEF ExecInv, RowsOK
<1>5. /\ operationZones[o][z] \in {"pending", "failed"}
      /\ \A j \in Key \ {k} : KeyZone(j) = z => mutationIntents[o][j] \in {"absent", "confirmed"}
      /\ \A y \in Zone \ {z} : Untouched(o, y)
      /\ \A j \in req[r].keys : KeyZone(j) = z
  BY <1>2, <1>3 DEF ZoneOK
<1>6. /\ UNCHANGED operationLocks
      /\ operations'[o].status \notin MayStart \cup {"complete"}
      /\ \A y \in Zone \ {z} : operationZones'[o][y] = operationZones[o][y]
      /\ operationZones'[o][z] \in {operationZones[o][z], "indeterminate"}
      /\ req[r].pc # "unknown" => operationZones'[o][z] = operationZones[o][z]
  <2>1. z \in Zone
    BY <1>3, StoreAssumption DEF KeyZone
  <2>2. QED
    BY <1>1, <1>3, <1>4, <2>1, AdvanceRows DEF MayStart
<1>7. \A j \in Key \ {k} : mutationIntents'[o][j] = mutationIntents[o][j]
  BY <1>1, AdvanceEffect
<1>8. \A y \in Zone \ {z} : Untouched(o, y)'
  BY <1>3, <1>5, <1>6, <1>7 DEF Untouched, KeyZone
<1>9. RowsOK(o)'
  <2>1. ASSUME NEW y \in Zone, operationZones'[o][y] \in {"absent", "success"}
        PROVE  /\ LocksIn(o, y)' = {}
               /\ \A j \in Key : KeyZone(j) = y =>
                     mutationIntents'[o][j] \in {"absent", "confirmed"}
               /\ operationZones'[o][y] = "absent" =>
                     \A j \in Key : KeyZone(j) = y => mutationIntents'[o][j] = "absent"
    <3>1. y # z /\ operationZones'[o][y] = operationZones[o][y]
      BY <1>5, <1>6, <2>1
    <3>2. \A j \in Key : KeyZone(j) = y => mutationIntents'[o][j] = mutationIntents[o][j]
      BY <1>3, <1>7, <3>1
    <3>3. QED
      BY <1>2, <1>6, <2>1, <3>1, <3>2 DEF RowsOK, LocksIn
  <2>2. QED
    BY <1>6, <2>1 DEF RowsOK, MayStart, KeyZone
<1>10. OneOpen(o)'
  <2> SUFFICES ASSUME NEW i \in Key, NEW j \in Key, KeyZone(i) = KeyZone(j),
                      mutationIntents'[o][i] \notin Settled,
                      mutationIntents'[o][j] \notin Settled
               PROVE  i = j
    BY DEF OneOpen, KeyZone
  <2>1. CASE i # k /\ j # k
    BY <1>2, <1>7, <2>1 DEF OneOpen
  <2>2. CASE i = k /\ j # k
    BY <1>3, <1>5, <1>7, <2>2 DEF Settled
  <2>3. CASE i # k /\ j = k
    BY <1>3, <1>5, <1>7, <2>3 DEF Settled
  <2>4. QED
    BY <2>1, <2>2, <2>3
<1>11. ZoneOK(r)'
  <2>1. CASE req'[r].pc = "zoneError"
    BY <1>3, <1>8, <2>1 DEF ZoneOK, InZone, AtZone, AtKey
  <2>2. CASE req'[r].pc = "zone"
    <3>1. /\ req[r].pc = "confirm" /\ req'[r].keys \subseteq req[r].keys
          /\ mutationIntents'[o][k] = "confirmed"
      BY <1>1, <1>2, <2>2, AdvanceEffect DEF Advances, PhaseOK
    <3>2. \A j \in Key : KeyZone(j) = z => mutationIntents'[o][j] \in {"absent", "confirmed"}
      BY <1>5, <1>7, <3>1
    <3>3. QED
      BY <1>3, <1>5, <1>6, <1>8, <2>2, <3>1, <3>2 DEF ZoneOK, InZone, AtZone, AtKey, KeyZone
  <2>3. CASE req'[r].pc \in AtKey
    <3>1. /\ req[r].pc # "unknown" /\ req'[r].keys = req[r].keys /\ req'[r].key = k
      BY <2>3 DEF Advances, AtKey
    <3>2. req'[r].pc \in AtZone /\ req'[r].pc \in InZone
          /\ req'[r].pc \in Executing /\ req'[r].pc # "update"
      BY <2>3 DEF AtZone, InZone, AtKey, Executing
    <3>3. QED
      BY <1>3, <1>5, <1>6, <1>7, <1>8, <2>3, <3>1, <3>2 DEF ZoneOK, KeyZone
  <2>4. QED
    BY <2>1, <2>2, <2>3 DEF Advances, AtKey
<1>12. QED
  BY <1>1, <1>3, <1>9, <1>10, <1>11, AloneOK, OthersUnmoved

\* A zone is closed clean, given back as it was, or frozen.
LEMMA CloseZones ==
    ASSUME IInv, ExecInv, ZoneInv, NEW r \in Req, Event(r), Closes(r)
    PROVE  ZoneInv'
<1> DEFINE o == OpOf[r]
<1>0. PICK z \in Zone : z = req[r].zone
  BY RequestArguments DEF Closes, PlacedAt, AtZone
<1>1. o \in Op /\ (\A q \in Req \ {r} : req'[q] = req[q])
      /\ (\A p \in Op \ {o} : Unmoved(p))
  BY EventRows
<1>2. RowsOK(o) /\ OneOpen(o) /\ ZoneOK(r)
  BY <1>1 DEF ZoneInv
<1>3. req[r].pc \in Executing /\ req[r].pc \in AtZone
  BY DEF Closes, AtZone, AtKey, Executing
<1>4. operations[o].status \notin MayStart \cup {"complete"}
  BY <1>0, <1>2, <1>3 DEF ExecInv, RowsOK
<1>5. \A y \in Zone \ {z} : Untouched(o, y)
  BY <1>0, <1>2, <1>3 DEF ZoneOK
<1>6. /\ operations \in [Op -> OperationRow]
      /\ operationZones \in [Op -> [Zone -> ZoneStatus]]
  BY DEF IInv, TablesOK, StoreTypeOK
<1>7. /\ operations'[o].status \notin MayStart \cup {"complete"}
      /\ \A y \in Zone \ {z} : operationZones'[o][y] = operationZones[o][y]
      /\ UNCHANGED mutationIntents
  BY <1>0, <1>1, <1>3, <1>4, <1>6 DEF Closes, FinishBatch, FailedBatch, FreezeBatch, SetZone,
     SetStatus, OperationRow, MayStart, tables
<1>8. \A s \in RecordSet : operationLocks'[s] = o => operationLocks[s] = o
  BY <1>0, <1>1, StoreAssumption DEF Closes, FinishBatch, ReleaseLocks, FailedBatch,
     FreezeBatch, tables
<1>9. /\ Untouched(o, z)' \/ (req'[r].pc \in AtZone /\ req'[r].zone = z)
      /\ operationZones'[o][z] = "absent" => operationZones[o][z] = "absent"
      /\ operationZones'[o][z] = "success" =>
            \/ operationZones[o][z] = "success"
            \/ /\ LocksIn(o, z)' = {}
               /\ \A k \in Key : KeyZone(k) = z =>
                     mutationIntents[o][k] \in {"absent", "confirmed"}
  <2>1. CASE req[r].pc = "finish" /\ req'[r].pc \in {"zones", "zoneError"} /\ FinishBatch(o, z)
    <3>1. operationZones'[o][z] = "success"
      BY <1>0, <1>1, <1>3, <1>6, <2>1 DEF FinishBatch, SetZone
    <3>2. LocksIn(o, z)' = {}
      BY <1>1, <2>1, StoreAssumption DEF FinishBatch, ReleaseLocks, LocksIn
    <3>3. \A k \in Key : KeyZone(k) = z => mutationIntents[o][k] \in {"absent", "confirmed"}
      BY <1>0, <1>2, <2>1 DEF ZoneOK, InZone, AtKey
    <3>4. QED
      BY <3>1, <3>2, <3>3 DEF Untouched
  <2>2. CASE operationZones[o][z] = "indeterminate" /\ UNCHANGED tables
    BY <2>2 DEF Untouched, tables
  <2>3. CASE req'[r].pc \in {"zones", "freeze"} /\ FailedBatch(o, z)
    <3>1. \A k \in Key : KeyZone(k) = z => mutationIntents'[o][k] = "absent"
      BY <2>3 DEF FailedBatch
    <3>2. operationZones'[o][z] = IF operationZones[o][z] = "pending" THEN "failed"
                                  ELSE operationZones[o][z]
      BY <1>0, <1>1, <1>3, <1>6, <2>3 DEF FailedBatch, SetZone
    <3>3. QED
      BY <3>1, <3>2 DEF Untouched, KeyZone
  <2>4. CASE FreezeBatch(o, z)
    <3>1. operationZones'[o][z] = IF operationZones[o][z] = "success" THEN "success"
                                  ELSE "indeterminate"
      BY <1>0, <1>1, <1>3, <1>6, <2>4 DEF FreezeBatch, SetZone
    <3>2. QED
      BY <3>1 DEF Untouched
  <2>5. QED
    BY <1>0, <2>1, <2>2, <2>3, <2>4 DEF Closes
<1>10. \A y \in Zone \ {z} : Untouched(o, y)'
  BY <1>5, <1>7 DEF Untouched, KeyZone
<1>11. RowsOK(o)'
  <2>1. ASSUME NEW y \in Zone, operationZones'[o][y] \in {"absent", "success"}
        PROVE  /\ LocksIn(o, y)' = {}
               /\ \A j \in Key : KeyZone(j) = y =>
                     mutationIntents[o][j] \in {"absent", "confirmed"}
               /\ operationZones'[o][y] = "absent" =>
                     \A j \in Key : KeyZone(j) = y => mutationIntents[o][j] = "absent"
    <3>1. LocksIn(o, y) = {} => LocksIn(o, y)' = {}
      BY <1>8 DEF LocksIn
    <3>2. CASE y # z
      BY <1>0, <1>2, <1>7, <2>1, <3>1, <3>2 DEF RowsOK
    <3>3. CASE y = z
      BY <1>0, <1>2, <1>9, <2>1, <3>1, <3>3 DEF RowsOK
    <3>4. QED
      BY <3>2, <3>3
  <2>2. QED
    BY <1>7, <2>1 DEF RowsOK, MayStart, KeyZone
<1>12. OneOpen(o)'
  BY <1>0, <1>2, <1>7 DEF OneOpen, KeyZone
<1>13. ZoneOK(r)'
  <2>1. CASE req'[r].pc = "zones"
    BY <1>9, <1>10, <2>1 DEF ZoneOK, InZone, AtZone, AtKey
  <2>2. CASE req'[r].pc \in {"zoneError", "freeze"}
    BY <1>0, <1>10, <2>2 DEF ZoneOK, InZone, AtZone, AtKey, Closes
  <2>3. QED
    BY <2>1, <2>2 DEF Closes
<1>14. QED
  BY <1>0, <1>1, <1>3, <1>11, <1>12, <1>13, AloneOK, OthersUnmoved

\* What a decision writes beside the intent it settles: the locks of the zone go
\* all together, once the other changes there are settled.
LEMMA DecisionRows ==
    ASSUME IInv, NEW o \in Op, NEW k \in Key, OperatorStep(o, k)
    PROVE  /\ operations'[o].status \in {operations[o].status, "reconciled"}
           /\ \A z \in Zone : operationZones'[o][z] \in
                 IF z = KeyZone(k) THEN {operationZones[o][z], "reconciled"}
                 ELSE {operationZones[o][z]}
           /\ \A p \in Op \ {o} : Unmoved(p)
           /\ \/ UNCHANGED operationLocks
              \/ /\ \A j \in Key \ {k} : KeyZone(j) = KeyZone(k)
                       => mutationIntents[o][j] \in Settled
                 /\ operationLocks' =
                       [s \in RecordSet |-> IF operationLocks[s] = o /\ ZoneOf[s] = KeyZone(k)
                                            THEN NoOp ELSE operationLocks[s]]
<1>1. /\ operations \in [Op -> OperationRow]
      /\ operationZones \in [Op -> [Zone -> ZoneStatus]]
      /\ mutationIntents \in [Op -> [Key -> IntentStatus]]
      /\ operationLocks \in [RecordSet -> Op \cup {NoOp}]
  BY DEF IInv, TablesOK, StoreTypeOK
<1>2. PICK decision \in Decisions, p \in Candidates(k) : ResolveBatch(o, k, decision, p)
  BY DEF OperatorStep, Resolve
<1> DEFINE z == KeyZone(k)
           settled == \A j \in Key \ {k} : KeyZone(j) = z => mutationIntents[o][j] \in Settled
           mine == {s \in RecordSet : operationLocks[s] = o}
           kept == mine \ (IF settled THEN LocksIn(o, z) ELSE {})
<1>3. /\ operationLocks' = [s \in RecordSet |-> IF operationLocks[s] = o /\ s \notin kept
                                                THEN NoOp ELSE operationLocks[s]]
      /\ SetIntent(o, k, "resolved")
  BY <1>2 DEF ResolveBatch
<1>4. PICK zone \in {operationZones[o][z], "reconciled"} : SetZone(o, z, zone)
  BY <1>2 DEF ResolveBatch
<1>5. PICK status \in {operations[o].status, "reconciled"} : SetStatus(o, status)
  BY <1>2 DEF ResolveBatch
<1>6. operations'[o].status \in {operations[o].status, "reconciled"}
  BY <1>1, <1>5 DEF SetStatus, OperationRow
<1>7. \A y \in Zone : operationZones'[o][y] \in
         IF y = KeyZone(k) THEN {operationZones[o][y], "reconciled"}
         ELSE {operationZones[o][y]}
  BY <1>1, <1>4, StoreAssumption DEF SetZone, KeyZone
<1>8. ASSUME settled
      PROVE  operationLocks' =
                [s \in RecordSet |-> IF operationLocks[s] = o /\ ZoneOf[s] = KeyZone(k)
                                     THEN NoOp ELSE operationLocks[s]]
  <2>1. kept = {s \in mine : ZoneOf[s] # z}
    BY <1>8 DEF LocksIn
  <2> HIDE DEF settled, kept
  <2>2. QED
    BY <1>3, <2>1
<1>9. ASSUME ~settled PROVE UNCHANGED operationLocks
  <2>1. kept = mine
    BY <1>9
  <2> HIDE DEF settled, kept
  <2>2. QED
    BY <1>1, <1>3, <2>1
<1>10. \A s \in RecordSet : operationLocks'[s] \in {operationLocks[s], NoOp}
  BY <1>3
<1> HIDE DEF settled, kept, z, mine
<1>11. \A q \in Op \ {o} : Unmoved(q)
  BY <1>1, <1>3, <1>4, <1>5, <1>10, StoreAssumption DEF SetIntent, SetZone, SetStatus,
     Unmoved
<1>12. QED
  BY <1>6, <1>7, <1>8, <1>9, <1>11 DEF settled, z

\* A decision leaves the zones of every request in execution alone.
LEMMA DecisionZones ==
    ASSUME IInv, ChangeInv, ZoneInv, NEW o \in Op, NEW k \in Key, OperatorStep(o, k)
    PROVE  ZoneInv'
<1> DEFINE z == KeyZone(k)
<1>1. RowsOK(o) /\ OneOpen(o) /\ z \in Zone
  BY StoreAssumption DEF ZoneInv, KeyZone
<1>2. /\ \A j \in Key \ {k} : mutationIntents'[o][j] = mutationIntents[o][j]
      /\ mutationIntents[o][k] = "indeterminate" /\ mutationIntents'[o][k] = "resolved"
      /\ UNCHANGED req
  BY DecisionEffect
<1>3. /\ operations'[o].status \in {operations[o].status, "reconciled"}
      /\ \A y \in Zone : operationZones'[o][y] \in
            IF y = z THEN {operationZones[o][y], "reconciled"}
            ELSE {operationZones[o][y]}
      /\ \A p \in Op \ {o} : Unmoved(p)
      /\ \A s \in RecordSet : operationLocks'[s] = o => operationLocks[s] = o
  <2>1. NoOp # o
    BY StoreAssumption
  <2>2. \A s \in RecordSet : operationLocks'[s] \in {operationLocks[s], NoOp}
    BY DecisionRows
  <2>3. QED
    BY <2>1, <2>2, DecisionRows
<1>4. operationZones[o][z] \notin {"absent", "success"}
  BY <1>1, <1>2 DEF RowsOK
<1>5. \A y \in Zone : Untouched(o, y) => Untouched(o, y)'
  <2> SUFFICES ASSUME NEW y \in Zone, Untouched(o, y),
                      operationZones'[o][y] \in {"pending", "failed"},
                      NEW j \in Key, KeyZone(j) = y
               PROVE  mutationIntents'[o][j] = "absent"
    BY DEF Untouched, KeyZone
  <2>1. operationZones[o][y] = operationZones'[o][y]
    BY <1>3
  <2>2. mutationIntents[o][j] = "absent"
    BY <2>1 DEF Untouched
  <2>3. QED
    BY <1>2, <2>2
<1>6. operations[o].status \notin {"absent", "complete"}
  BY <1>1, <1>4 DEF RowsOK
<1>7. RowsOK(o)'
  <2>1. ASSUME NEW y \in Zone, operationZones'[o][y] \in {"absent", "success"}
        PROVE  /\ LocksIn(o, y)' = {}
               /\ \A j \in Key : KeyZone(j) = y =>
                     mutationIntents'[o][j] \in {"absent", "confirmed"}
               /\ operationZones'[o][y] = "absent" =>
                     \A j \in Key : KeyZone(j) = y => mutationIntents'[o][j] = "absent"
    <3>1. y # z /\ operationZones'[o][y] = operationZones[o][y]
      BY <1>3, <1>4, <2>1
    <3>2. \A j \in Key : KeyZone(j) = y => mutationIntents'[o][j] = mutationIntents[o][j]
      BY <1>2, <3>1
    <3>3. QED
      BY <1>1, <1>3, <2>1, <3>1, <3>2 DEF RowsOK, LocksIn
  <2>2. operations'[o].status \in MayStart => operations[o].status \in MayStart
    BY <1>3 DEF MayStart
  <2>3. operations'[o].status \notin {"absent", "complete"}
    BY <1>3, <1>6
  <2>4. operations'[o].status \in MayStart => \A y \in Zone : Untouched(o, y)'
    BY <1>1, <1>5, <2>2 DEF RowsOK
  <2>5. QED
    BY <2>1, <2>3, <2>4 DEF RowsOK, KeyZone
<1>8. OneOpen(o)'
  BY <1>1, <1>2 DEF OneOpen, KeyZone, Settled
<1>9. ASSUME NEW q \in Req, OpOf[q] = o PROVE ZoneOK(q)'
  <2>1. ZoneOK(q) /\ PhaseOK(q) /\ req'[q] = req[q]
    BY <1>2 DEF ZoneInv, ChangeInv
  <2>2. CASE req[q].pc \in InZone
    <3>1. ~(req[q].pc \in AtKey /\ k = req[q].key)
      BY <1>2, <1>9, <2>1 DEF PhaseOK, AtKey
    <3>2. req[q].zone # z
      BY <1>2, <1>9, <2>1, <2>2, <3>1 DEF ZoneOK
    <3>3. PlacedAt(q) /\ req[q].zone \in Zone
      BY <2>2, RequestArguments DEF PlacedAt, InZone, AtZone
    <3>4. operationZones'[o][req[q].zone] = operationZones[o][req[q].zone]
      BY <1>3, <3>2, <3>3
    <3>5. \A j \in Key : KeyZone(j) = req[q].zone
             => mutationIntents'[o][j] = mutationIntents[o][j]
      BY <1>2, <3>2
    <3>6. req[q].pc # "update"
      BY <2>2 DEF InZone, AtKey
    <3>7. QED
      BY <1>5, <1>9, <2>1, <2>2, <3>4, <3>5, <3>6 DEF ZoneOK, KeyZone
  <2>3. CASE req[q].pc = "update"
    <3>1. req[q].verdict # "complete"
      BY <1>1, <1>4, <1>9, <2>1, <2>3 DEF ZoneOK
    <3>2. QED
      BY <1>5, <1>9, <2>1, <2>3, <3>1 DEF ZoneOK, InZone, AtKey
  <2>4. CASE req[q].pc \notin InZone \cup {"update"}
    BY <1>5, <1>9, <2>1, <2>4 DEF ZoneOK, InZone
  <2>5. QED
    BY <2>2, <2>3, <2>4
<1>10. QED
  BY <1>2, <1>3, <1>7, <1>8, <1>9, OthersUnmoved

\* Zones, intents and locks stay in step.
LEMMA ZoneNext == IInv /\ ExecInv /\ ChangeInv /\ ZoneInv /\ [Next]_vars => ZoneInv'
<1> SUFFICES ASSUME IInv, ExecInv, ChangeInv, ZoneInv, [Next]_vars PROVE ZoneInv'
  OBVIOUS
<1>1. CASE UNCHANGED <<tables, req>>
  BY <1>1 DEF ZoneInv, ZoneOK, RowsOK, OneOpen, Untouched, LocksIn, KeyZone, tables
<1>2. ASSUME NEW r \in Req, Event(r) PROVE ZoneInv'
  <2>1. CASE Outside(r)
    BY <1>2, <2>1, OutsideZones
  <2>2. CASE Between(r)
    BY <1>2, <2>2, BetweenZones
  <2>3. CASE Within(r)
    BY <1>2, <2>3, WithinZones
  <2>4. CASE Advances(r)
    <3>1. req[r].pc \in AtKey
      BY <2>4 DEF Advances, AtKey
    <3>2. req[r].key \in Key
      BY <3>1, RequestArguments DEF PlacedAt
    <3>3. QED
      BY <1>2, <2>4, <3>1, <3>2, AdvanceZones
  <2>5. CASE Closes(r)
    BY <1>2, <2>5, CloseZones
  <2>6. QED
    BY <1>2, <2>1, <2>2, <2>3, <2>4, <2>5 DEF Event
<1>3. QED
  BY <1>1, <1>2, DecisionZones, StepsHappen DEF Happens, Around, Answers

\* Where a zone stands, in every behaviour.
LEMMA ZonesHold == Spec => []ZoneInv
<1>1. Init => ZoneInv
  <2> SUFFICES ASSUME Init PROVE ZoneInv
    OBVIOUS
  <2>1. ASSUME NEW r \in Req PROVE ZoneOK(r)
    BY DEF Init, ZoneOK, Fresh, InZone, AtKey, Executing
  <2>2. ASSUME NEW o \in Op PROVE RowsOK(o) /\ OneOpen(o)
    BY StoreAssumption DEF Init, StoreInit, RowsOK, OneOpen, Untouched, LocksIn, Settled
  <2>3. QED
    BY <2>1, <2>2 DEF ZoneInv
<1>2. QED
  BY <1>1, ZoneNext, ChangesHold, IInvHolds, PTL DEF Spec

\* An operation reported complete has nothing left to settle and holds nothing:
\* the tally of its zones is taken when no zone of it can move any more, whatever
\* faults froze or failed zones before (finishZone, listCheckpoints, executeApply).
THEOREM CompleteLeavesNothing == Spec => []CompleteIsClean
<1>1. ASSUME ZoneInv PROVE CompleteIsClean
  <2> SUFFICES ASSUME NEW o \in Op, operations[o].status = "complete"
               PROVE  /\ \A s \in RecordSet : operationLocks[s] # o
                      /\ \A k \in Key : mutationIntents[o][k] \in {"absent", "confirmed"}
    BY DEF CompleteIsClean
  <2>1. RowsOK(o)
    BY <1>1 DEF ZoneInv
  <2>2. \A z \in Zone : LocksIn(o, z) = {}
    BY <2>1 DEF RowsOK
  <2>3. \A s \in RecordSet : operationLocks[s] # o
    BY <2>2, StoreAssumption DEF LocksIn
  <2>4. \A k \in Key : mutationIntents[o][k] \in {"absent", "confirmed"}
    BY <2>1, StoreAssumption DEF RowsOK, KeyZone
  <2>5. QED
    BY <2>3, <2>4
<1>2. QED
  BY <1>1, ZonesHold, PTL

-----------------------------------------------------------------------------
(* The lease *)

\* What the tables and the wire stand for in RecordSetLease.
Admitted == {o \in Op : operations[o].status # "absent"}
Sent == {c \in Op \X Key : wire[c[1]][c[2]] # "idle"}
Open == {c \in Op \X Key :
           /\ wire[c[1]][c[2]] # "idle"
           /\ mutationIntents[c[1]][c[2]] \in {"sent", "indeterminate"}}
\* A change of o that was sent and is not settled.
OpenAt(o, k) == wire[o][k] # "idle" /\ mutationIntents[o][k] \in {"sent", "indeterminate"}

LeaseStill == UNCHANGED <<operationLocks, Admitted, Sent, Open>>

\* Intents that no request was sent for, and answers, leave the lease as it is.
LEMMA ChangesStill ==
    ASSUME \A o \in Op, k \in Key :
              /\ wire'[o][k] = "idle" <=> wire[o][k] = "idle"
              /\ OpenAt(o, k)' <=> OpenAt(o, k)
    PROVE  UNCHANGED <<Sent, Open>>
BY DEF Sent, Open, OpenAt

\* A step between two statuses of an admitted operation admits nobody.
LEMMA AdmittedStill ==
    ASSUME NEW o \in Op, \A p \in Op \ {o} : Unmoved(p),
           operations[o].status # "absent", operations'[o].status # "absent"
    PROVE  UNCHANGED Admitted
BY DEF Admitted, Unmoved

\* The reservation takes all the record sets of an operation.
LEMMA Acquires ==
    ASSUME IInv, NEW r \in Req, Event(r), ReserveNew(r), UNCHANGED wire
    PROVE  Lease!Acquire(OpOf[r], AffectedSets(r))
<1> DEFINE o == OpOf[r]
           sets == AffectedSets(r)
<1>1. o \in Op /\ \A p \in Op \ {o} : Unmoved(p)
  BY EventRows
<1>2. operations \in [Op -> OperationRow]
  BY DEF IInv, TablesOK, StoreTypeOK
<1>3. /\ operations[o].status = "absent" /\ operations'[o].status = "reserved"
      /\ \A s \in sets : operationLocks[s] = NoOp
      /\ operationLocks' = [s \in RecordSet |-> IF s \in sets THEN o ELSE operationLocks[s]]
      /\ UNCHANGED mutationIntents
  BY <1>1, <1>2 DEF ReserveNew, ReserveBatch, LockInsertable
<1>4. Admitted' = Admitted \cup {o} /\ o \notin Admitted
  BY <1>1, <1>3 DEF Admitted, Unmoved
<1>5. UNCHANGED <<Sent, Open>>
  BY <1>3, ChangesStill DEF OpenAt
<1>6. QED
  BY <1>3, <1>4, <1>5 DEF Lease!Acquire, Admitted, Sent, Open

\* The call is made under the lock of the change, once, and with nothing else of
\* the operation open in the zone.
LEMMA Sends ==
    ASSUME IInv, LocksCoverIntents, ChangeInv, ZoneInv, NEW r \in Req, Event(r),
           Advances(r), req[r].pc = "call", req[r].key \in Key
    PROVE  Lease!Send(OpOf[r], req[r].key)
<1> DEFINE o == OpOf[r]
<1>0. PICK k \in Key : k = req[r].key
  OBVIOUS
<1>1. o \in Op
  BY EventRows
<1>2. /\ UNCHANGED tables /\ wire' = [wire EXCEPT ![o][k] = "flying"]
      /\ mutationIntents[o][k] = "sent" /\ wire[o][k] = "idle"
  BY <1>0 DEF Advances, ChangeInv, PhaseOK
<1>3. wire \in [Op -> [Key -> WireStatus]]
  BY DEF IInv, WorldOK
<1>4. /\ operationLocks[SetOf[k]] = o
      /\ \A j \in Key : KeyZone(j) = KeyZone(k) => ~OpenAt(o, j)
  <2>1. \A j \in Key : KeyZone(j) = KeyZone(k) /\ mutationIntents[o][j] \notin Settled => j = k
    BY <1>1, <1>2 DEF ZoneInv, OneOpen, Settled
  <2>2. QED
    BY <1>1, <1>2, <2>1 DEF LocksCoverIntents, Settled, OpenAt
<1>5. \A p \in Op, j \in Key :
         /\ wire'[p][j] # "idle" <=> (wire[p][j] # "idle" \/ <<p, j>> = <<o, k>>)
         /\ mutationIntents'[p][j] = mutationIntents[p][j]
  BY <1>1, <1>2, <1>3 DEF tables
<1>6. <<o, k>> \notin Sent /\ Sent' = Sent \cup {<<o, k>>}
  BY <1>1, <1>2, <1>5 DEF Sent
<1>7. Open' = Open \cup {<<o, k>>}
  BY <1>1, <1>2, <1>5 DEF Open
<1>8. Lease!OpenIn(o, ZoneOf[SetOf[k]], Open) = {}
  BY <1>4 DEF Lease!OpenIn, Open, OpenAt, KeyZone
<1>9. UNCHANGED operationLocks /\ UNCHANGED Admitted
  BY <1>2 DEF tables, Admitted
<1>10. QED
  BY <1>0, <1>4, <1>6, <1>7, <1>8, <1>9 DEF Lease!Send, Admitted, Sent, Open

\* A confirmation settles the change and keeps the lease; a decision settles it
\* and may give the zone back.
LEMMA Settles ==
    ASSUME NEW o \in Op, NEW k \in Key,
           OpenAt(o, k), ~OpenAt(o, k)', UNCHANGED <<wire, Admitted>>,
           \A p \in Op, j \in Key : <<p, j>> # <<o, k>> =>
              mutationIntents'[p][j] = mutationIntents[p][j],
           \/ UNCHANGED operationLocks
           \/ /\ \A j \in Key \ {k} : KeyZone(j) = KeyZone(k)
                    => mutationIntents[o][j] \in Settled
              /\ operationLocks' =
                    [s \in RecordSet |-> IF operationLocks[s] = o /\ ZoneOf[s] = KeyZone(k)
                                         THEN NoOp ELSE operationLocks[s]]
    PROVE  Lease!Settle(o, k)
<1>1. <<o, k>> \in Open /\ Open' = Open \ {<<o, k>>} /\ Sent' = Sent
  BY DEF Open, OpenAt, Sent
<1>2. ASSUME \A j \in Key \ {k} : KeyZone(j) = KeyZone(k)
                => mutationIntents[o][j] \in Settled
      PROVE  Lease!OpenIn(o, ZoneOf[SetOf[k]], Open') = {}
  <2>1. \A j \in Key : KeyZone(j) = KeyZone(k) => <<o, j>> \notin Open'
    BY <1>1, <1>2 DEF Open, Settled
  <2>2. Open' \subseteq Op \X Key
    BY DEF Open
  <2>3. QED
    BY <2>1, <2>2 DEF Lease!OpenIn, KeyZone
<1>3. QED
  BY <1>1, <1>2 DEF Lease!Settle, Lease!Released, Admitted, Sent, Open, KeyZone

\* A zone is finished when nothing of the operation is open there.
LEMMA Releases ==
    ASSUME IInv, ZoneInv, NEW r \in Req, Event(r), req[r].pc = "finish",
           FinishBatch(OpOf[r], req[r].zone), UNCHANGED wire
    PROVE  Lease!Release(OpOf[r], req[r].zone)
<1> DEFINE o == OpOf[r]
           z == req[r].zone
<1>1. o \in Op
  BY EventRows
<1>2. \A k \in Key : KeyZone(k) = z => ~OpenAt(o, k)
  BY DEF ZoneInv, ZoneOK, InZone, AtKey, OpenAt
<1>3. Lease!OpenIn(o, z, Open) = {}
  BY <1>2 DEF Lease!OpenIn, Open, OpenAt, KeyZone
<1>4. operationLocks' = [s \in RecordSet |-> IF operationLocks[s] = o /\ ZoneOf[s] = z
                                             THEN NoOp ELSE operationLocks[s]]
  BY DEF FinishBatch, ReleaseLocks, LocksIn
<1>5. UNCHANGED <<Admitted, Sent, Open>>
  BY DEF FinishBatch, Admitted, Sent, Open
<1>6. QED
  BY <1>3, <1>4, <1>5 DEF Lease!Release, Lease!Released, Admitted, Sent, Open

\* Every step is a step of the lease, or none.
LEMMA LeaseSteps ==
    IInv /\ LocksCoverIntents /\ ExecInv /\ ChangeInv /\ ZoneInv /\ [Next]_vars
      => Lease!Next \/ LeaseStill
<1> SUFFICES ASSUME IInv, LocksCoverIntents, ExecInv, ChangeInv, ZoneInv, [Next]_vars
             PROVE  Lease!Next \/ LeaseStill
  OBVIOUS
<1> DEFINE Follows == Lease!Next \/ LeaseStill
<1>1. /\ wire \in [Op -> [Key -> WireStatus]]
      /\ operations \in [Op -> OperationRow]
      /\ operationZones \in [Op -> [Zone -> ZoneStatus]]
  BY DEF IInv, WorldOK, TablesOK, StoreTypeOK
<1>2. CASE UNCHANGED <<tables, wire, req>>
  BY <1>2 DEF LeaseStill, Admitted, Sent, Open, tables
<1>3. ASSUME NEW o \in Op, NEW k \in Key, Answers(o, k) PROVE Follows
  <2>1. \A p \in Op, j \in Key : /\ wire'[p][j] = "idle" <=> wire[p][j] = "idle"
                                 /\ mutationIntents'[p][j] = mutationIntents[p][j]
    BY <1>1, <1>3 DEF Answers, tables
  <2>2. UNCHANGED <<Sent, Open>>
    BY <2>1, ChangesStill DEF OpenAt
  <2>3. QED
    BY <1>3, <2>2 DEF Answers, LeaseStill, Admitted, tables
<1>4. ASSUME NEW o \in Op, NEW k \in Key, OperatorStep(o, k) PROVE Follows
  <2>1. RowsOK(o) /\ WireOK /\ KeyZone(k) \in Zone
    BY StoreAssumption DEF ZoneInv, ChangeInv, KeyZone
  <2>2. mutationIntents[o][k] = "indeterminate" /\ mutationIntents'[o][k] = "resolved"
        /\ UNCHANGED wire
    BY <1>4, DecisionEffect
  <2>3. OpenAt(o, k) /\ ~OpenAt(o, k)'
    BY <2>1, <2>2 DEF OpenAt, WireOK
  <2>4. operations[o].status # "absent"
    BY <2>1, <2>2 DEF RowsOK
  <2>5. operations'[o].status # "absent" /\ \A p \in Op \ {o} : Unmoved(p)
    BY <1>4, <2>4, DecisionRows
  <2>6. UNCHANGED Admitted
    BY <2>4, <2>5, AdmittedStill
  <2>7. Lease!Settle(o, k)
    BY <1>4, <2>2, <2>3, <2>6, DecisionEffect, DecisionRows, Settles
  <2>8. QED
    BY <2>7 DEF Lease!Next
<1>5. ASSUME NEW r \in Req, Event(r) PROVE Follows
  <2> DEFINE o == OpOf[r]
             z == req[r].zone
  <2>1. o \in Op /\ \A p \in Op \ {o} : Unmoved(p)
    BY <1>5, EventRows
  <2>2. req[r].pc \in Executing => operations[o].status # "absent"
    BY <2>1 DEF ExecInv, MayStart
  <2>3. ASSUME UNCHANGED <<operationLocks, mutationIntents, wire>>,
               \/ UNCHANGED operations
               \/ operations[o].status # "absent" /\ operations'[o].status # "absent"
        PROVE  Follows
    <3>1. UNCHANGED Admitted
      BY <2>1, <2>3, AdmittedStill DEF Admitted
    <3>2. UNCHANGED <<Sent, Open>>
      BY <2>3, ChangesStill DEF OpenAt
    <3>3. QED
      BY <2>3, <3>1, <3>2 DEF LeaseStill
  <2>4. CASE UNCHANGED tables /\ UNCHANGED wire
    BY <2>3, <2>4 DEF tables
  <2>5. CASE StartStatement(o) /\ UNCHANGED wire
    <3>1. operations[o].status # "absent" /\ operations'[o].status = "running"
      BY <1>1, <2>1, <2>5 DEF StartStatement, SetStatus, OperationRow
    <3>2. QED
      BY <2>3, <2>5, <3>1 DEF StartStatement
  <2>6. CASE FreezeBatch(o, z) /\ req[r].pc \in Executing /\ UNCHANGED wire
    <3>1. operations'[o].status = "indeterminate"
      BY <1>1, <2>1, <2>6 DEF FreezeBatch, SetStatus, OperationRow
    <3>2. QED
      BY <2>2, <2>3, <2>6, <3>1 DEF FreezeBatch
  <2>7. CASE Outside(r)
    <3>1. CASE ReuseBatch(o, TokenOf[r])
      BY <2>3, <2>7, <3>1 DEF Outside, ReuseBatch
    <3>2. CASE ReserveNew(r)
      <4>1. AffectedSets(r) \subseteq RecordSet
        BY StoreAssumption DEF AffectedSets, DesiredKeys, PruneKeys
      <4>2. PICK sets \in SUBSET RecordSet : sets = AffectedSets(r)
        BY <4>1
      <4>3. Lease!Acquire(o, sets)
        BY <1>5, <2>7, <3>2, <4>2, Acquires DEF Outside, Lease!Acquire
      <4>4. QED
        BY <2>1, <4>3 DEF Lease!Next
    <3>3. CASE req[r].pc = "update" /\ UpdateStatement(o, req[r].verdict)
      <4>1. req[r].pc \in Executing /\ req[r].verdict # "absent"
        BY <3>3 DEF ZoneInv, ZoneOK, Executing
      <4>2. operations'[o].status # "absent"
        BY <1>1, <2>1, <3>3, <4>1 DEF UpdateStatement, SetStatus, OperationRow
      <4>3. QED
        BY <2>2, <2>3, <2>7, <3>3, <4>1, <4>2 DEF Outside, UpdateStatement
    <3>4. QED
      BY <2>4, <2>5, <2>6, <2>7, <3>1, <3>2, <3>3 DEF Outside, Executing
  <2>8. CASE Between(r) \/ Within(r)
    BY <2>4, <2>5, <2>8 DEF Between, Within
  <2>9. CASE Closes(r)
    <3>1. CASE req[r].pc = "finish" /\ FinishBatch(o, z)
      <4>1. Lease!Release(o, z)
        BY <1>5, <2>9, <3>1, Releases DEF Closes
      <4>2. z \in Zone
        BY <3>1, RequestArguments DEF PlacedAt, AtZone
      <4>3. QED
        BY <2>1, <4>1, <4>2 DEF Lease!Next
    <3>2. CASE FailedBatch(o, z)
      BY <2>3, <2>9, <3>2 DEF Closes, FailedBatch
    <3>3. QED
      BY <2>4, <2>6, <2>9, <3>1, <3>2 DEF Closes, Executing
  <2>10. CASE Advances(r)
    <3>1. req[r].pc \in AtKey /\ req[r].pc \in Executing
      BY <2>10 DEF Advances, AtKey, Executing
    <3>2. PhaseOK(r) /\ WireOK
      BY DEF ChangeInv
    <3>0. PICK k \in Key : k = req[r].key
      BY <3>1, RequestArguments DEF PlacedAt
    <3>3. UNCHANGED operationLocks /\ UNCHANGED Admitted
      BY <2>1, <2>2, <2>10, <3>0, <3>1, AdvanceRows, AdmittedStill DEF Admitted
    <3>4. CASE req[r].pc = "call"
      <4>1. Lease!Send(o, k)
        BY <1>5, <2>10, <3>0, <3>4, Sends DEF Lease!Send
      <4>2. QED
        BY <2>1, <4>1 DEF Lease!Next
    <3>5. CASE OpenAt(o, k) /\ ~OpenAt(o, k)' /\ req[r].pc # "call"
      <4>1. \A p \in Op, j \in Key : <<p, j>> # <<o, k>> =>
              mutationIntents'[p][j] = mutationIntents[p][j]
        BY <2>1, <2>10, <3>0, <3>2, AdvanceEffect
      <4>2. UNCHANGED wire
        BY <2>10, <3>5 DEF Advances
      <4>3. Lease!Settle(o, k)
        BY <2>1, <3>0, <3>2, <3>3, <3>5, <4>1, <4>2, Settles
      <4>4. QED
        BY <2>1, <3>0, <3>2, <4>3 DEF Lease!Next
    <3>6. CASE (OpenAt(o, k)' <=> OpenAt(o, k)) /\ req[r].pc # "call"
      BY <2>1, <2>10, <3>0, <3>2, <3>3, <3>6, AdvanceEffect, ChangesStill DEF LeaseStill, OpenAt
    <3>7. ~OpenAt(o, k) /\ req[r].pc # "call" => ~OpenAt(o, k)'
      BY <2>1, <2>10, <3>1, <3>0, <3>2, AdvanceEffect DEF OpenAt, PhaseOK, WireOK, AtKey
    <3>8. QED
      BY <3>4, <3>5, <3>6, <3>7
  <2>11. QED
    BY <1>5, <2>7, <2>8, <2>9, <2>10 DEF Event
<1>6. QED
  BY <1>2, <1>3, <1>4, <1>5, StepsHappen DEF Happens, Around

\* The tables, the triggers and the requests implement the lease, for every number
\* of operations, requests, zones, record sets and faults: record sets are taken
\* all together, every change is sent once, under its lease and alone in its zone,
\* and the sets of a zone go back together when nothing sent there is unsettled
\* (reserveOperation, executeZone, finishZone, resolveMutationAdmin).
THEOREM LeaseImplemented == Spec => ImplementsLease
<1>1. Init => Lease!Init
  BY DEF Init, StoreInit, Lease!Init
<1>2. IInv /\ LocksCoverIntents /\ ExecInv /\ ChangeInv /\ ZoneInv /\ [Next]_vars
        => [Lease!Next]_<<operationLocks, Admitted, Sent, Open>>
  BY LeaseSteps DEF LeaseStill
<1>3. QED
  BY <1>1, <1>2, LocksAlwaysCover, ChangesHold, ZonesHold, IInvHolds, PTL
     DEF Spec, ImplementsLease, Lease!LeaseSpec, Admitted, Sent, Open

-----------------------------------------------------------------------------
(* Writes to the provider *)

\* A request on the wire is covered by the lock of its operation, as long as
\* operators wait for it to end.
LEMMA FlyingHolds ==
    ASSUME LocksCoverIntents, ChangeInv, OperatorWaits, NEW o \in Op, NEW k \in Key,
           wire[o][k] = "flying"
    PROVE  /\ operationLocks[SetOf[k]] = o
           /\ mutationIntents[o][k] \in {"sent", "indeterminate"}
BY DEF ChangeInv, WireOK, LocksCoverIntents, Settled

\* Never are two provider requests on their way to the same record set, as long as
\* operators wait until the provider is quiet before they settle a change: the lock
\* keeps other operations out, and an operation has one change open in a zone
\* (validate_mutation_intent, executeZone).
THEOREM WritesExclusive ==
    ASSUME OperatorWaits
    PROVE  Spec => []ExclusiveWrites
<1>1. ASSUME LocksCoverIntents, ChangeInv, ZoneInv PROVE ExclusiveWrites
  <2> SUFFICES ASSUME NEW o \in Op, NEW p \in Op, NEW j \in Key, NEW k \in Key,
                      wire[o][j] = "flying", wire[p][k] = "flying", SetOf[j] = SetOf[k]
               PROVE  o = p /\ j = k
    BY DEF ExclusiveWrites
  <2>1. o = p /\ mutationIntents[o][j] \notin Settled /\ mutationIntents[p][k] \notin Settled
    BY <1>1, FlyingHolds DEF Settled
  <2>2. QED
    BY <1>1, <2>1 DEF ZoneInv, OneOpen, KeyZone
<1>2. QED
  BY <1>1, LocksAlwaysCover, ChangesHold, ZonesHold, PTL

\* Only its reservation gives an operation a lock.
LEMMA LocksGained ==
    ASSUME IInv, [Next]_vars, NEW o \in Op, operations[o].status # "absent",
           NEW s \in RecordSet, operationLocks'[s] = o
    PROVE  operationLocks[s] = o
<1>1. NoOp # o
  BY StoreAssumption
<1>2. ASSUME NEW r \in Req, Event(r) PROVE operationLocks[s] = o
  <2>1. CASE OpOf[r] # o
    BY <1>2, <2>1, EventRows DEF Unmoved
  <2>2. CASE OpOf[r] = o
    <3>1. ~ReserveNew(r)
      BY <2>2 DEF ReserveNew, ReserveBatch
    <3>2. operationLocks'[s] \in {operationLocks[s], NoOp}
      BY <1>2, <3>1 DEF Event, Outside, Between, Within, Advances, Closes, ReuseBatch,
         StartStatement, FreezeBatch, UpdateStatement, BeginIntent, BeginBatch,
         SentStatement, ConfirmBatch, IndeterminateBatch, FinishBatch, ReleaseLocks,
         FailedBatch, tables
    <3>3. QED
      BY <1>1, <3>2
  <2>3. QED
    BY <2>1, <2>2
<1>3. ASSUME NEW p \in Op, NEW k \in Key, OperatorStep(p, k) PROVE operationLocks[s] = o
  BY <1>1, <1>3, DecisionRows
<1>4. CASE UNCHANGED tables
  BY <1>4 DEF tables
<1>5. QED
  BY <1>2, <1>3, <1>4, StepsHappen DEF Happens, Around, Answers

LEMMA LostUpdateNext ==
    ASSUME OperatorWaits, "drift" \notin Faults,
           IInv, LocksCoverIntents, ExecInv, ChangeInv, NoLostUpdate, [Next]_vars
    PROVE  NoLostUpdate'
<1> DEFINE Counts(r) == LET o == OpOf[r]  k == req[r].key
                        IN  \/ req[r].pc = "begin" /\ operationLocks[SetOf[k]] = o
                            \/ req[r].pc \in {"mark", "call"}
                            \/ req[r].pc = "await" /\ wire[o][k] = "flying"
           Fits(r) == Current(r, req[r].key) \subseteq provider[req[r].key]
<1>1. \A r \in Req : Counts(r) => Fits(r)
  BY DEF NoLostUpdate
<1>2. \A r \in Req : /\ OpOf[r] \in Op
                     /\ req[r].pc \in AtKey => req[r].key \in Key
                     /\ Counts(r) => req[r].pc \in AtKey /\ req[r].pc \in Executing
                     /\ PhaseOK(r)
  BY RequestArguments DEF PlacedAt, AtKey, Executing, ChangeInv
<1>3. \A r \in Req : req'[r] = req[r] => Current(r, req[r].key)' = Current(r, req[r].key)
  BY DEF Current
<1>4. \A r \in Req : req[r].pc \in Executing => operations[OpOf[r]].status # "absent"
  BY DEF ExecInv, MayStart
<1>5. ASSUME NEW r \in Req, req'[r] = req[r], Counts(r)', Counts(r),
             provider'[req[r].key] = provider[req[r].key]
      PROVE  Fits(r)'
  BY <1>1, <1>3, <1>5
<1>6. ASSUME NEW r \in Req, req'[r] = req[r], Counts(r)',
             wire'[OpOf[r]][req[r].key] = "flying"
               => wire[OpOf[r]][req[r].key] = "flying" \/ req[r].pc # "await"
      PROVE  Counts(r)
  <2>1. CASE req[r].pc = "begin"
    <3>1. SetOf[req[r].key] \in RecordSet /\ operations[OpOf[r]].status # "absent"
      BY <1>2, <1>4, <2>1, StoreAssumption DEF AtKey, Executing
    <3>2. QED
      BY <1>2, <1>6, <2>1, <3>1, LocksGained
  <2>2. CASE req[r].pc # "begin"
    BY <1>6, <2>2
  <2>3. QED
    BY <2>1, <2>2
<1>7. ASSUME NEW q \in Req, Event(q), NEW r \in Req, r # q, Counts(r)'
      PROVE  Fits(r)'
  <2>1. req'[r] = req[r] /\ UNCHANGED provider
    BY <1>7 DEF Event
  <2>2. req[r].pc = "await" => wire'[OpOf[r]][req[r].key] = wire[OpOf[r]][req[r].key]
    <3> SUFFICES ASSUME req[r].pc = "await", Advances(q), req[q].pc \in AtKey,
                        req[q].key \in Key
                 PROVE  wire'[OpOf[r]][req[r].key] = wire[OpOf[r]][req[r].key]
      BY <1>7, IntentMoves
    <3>1. OpOf[q] # OpOf[r] /\ req[r].key \in Key
      BY <1>2, <1>7, ChangesApart DEF AtKey
    <3>2. QED
      BY <1>2, <3>1, AdvanceEffect
  <2>3. QED
    BY <1>5, <1>6, <1>7, <2>1, <2>2
<1>8. ASSUME NEW r \in Req, Event(r), Counts(r)'
      PROVE  Fits(r)'
  <2>1. req'[r].pc \in {"begin", "mark", "call", "await"} /\ UNCHANGED provider
    BY <1>8 DEF Event
  <2>2. Within(r) \/ Advances(r)
    BY <1>8, <2>1 DEF Event, Outside, Between, Closes, Executing
  <2>3. req[r].pc \in Executing /\ req'[r].pc \in Executing
    BY <2>1, <2>2 DEF Within, Advances, InZone, AtKey, Executing
  <2>4. \A k \in Key : Current(r, k)' = Current(r, k)
    BY <1>8, <2>3 DEF Event, Current
  <2>5. CASE Within(r)
    <3>1. req'[r].key \in Key /\ PreflightOk(r, req'[r].key)
      <4>1. req[r].pc = "zone" /\ req'[r].key \in req[r].keys /\ PreflightOk(r, req'[r].key)
        BY <2>1, <2>5 DEF Within
      <4>2. req[r].keys \subseteq Key
        BY DEF IInv, RequestsOK, Request
      <4>3. QED
        BY <4>1, <4>2
    <3>2. PICK k \in Key : k = req'[r].key
      BY <3>1
    <3>3. Current(r, k) \subseteq provider[k]
      BY <3>1, <3>2 DEF PreflightOk
    <3>4. Current(r, k)' \subseteq provider'[k]
      BY <2>1, <2>4, <3>3
    <3>5. QED
      BY <3>2, <3>4 DEF Current
  <2>6. CASE Advances(r)
    <3>1. req[r].pc \in {"begin", "mark", "call"} /\ req'[r].key = req[r].key
      BY <2>1, <2>6 DEF Advances
    <3>2. Counts(r)
      <4>1. req[r].pc = "begin" => operationLocks[SetOf[req[r].key]] = OpOf[r]
        BY <2>6 DEF Advances, BeginIntent, BeginBatch
      <4>2. QED
        BY <3>1, <4>1
    <3>3. PICK k \in Key : k = req[r].key
      BY <1>2, <3>2
    <3>4. Current(r, k)' \subseteq provider'[k]
      BY <1>1, <2>1, <2>4, <3>2, <3>3
    <3>5. QED
      BY <3>1, <3>3, <3>4 DEF Current
  <2>7. QED
    BY <2>2, <2>5, <2>6
<1>9. ASSUME NEW o \in Op, NEW k \in Key, Answers(o, k), NEW r \in Req, Counts(r)'
      PROVE  Fits(r)'
  <2>1. /\ wire \in [Op -> [Key -> WireStatus]] /\ provider \in ProviderView
        /\ req'[r] = req[r] /\ wire[o][k] = "flying" /\ UNCHANGED tables
    BY <1>9 DEF IInv, WorldOK, Answers
  <2>2. /\ wire'[o][k] # "flying"
        /\ \A p \in Op, j \in Key : wire'[p][j] = "flying" => wire[p][j] = "flying"
        /\ \A j \in Key \ {k} : provider'[j] = provider[j]
    BY <1>9, <2>1 DEF Answers, ProviderView
  <2>3. Counts(r) /\ req[r].key \in Key
    BY <1>2, <1>6, <1>9, <2>1, <2>2 DEF AtKey
  <2>4. req[r].key # k
    <3> SUFFICES ASSUME req[r].key = k PROVE FALSE
      OBVIOUS
    <3>1. operationLocks[SetOf[k]] = OpOf[r]
      BY <1>2, <2>3 DEF PhaseOK, LocksCoverIntents, Settled
    <3>2. OpOf[r] = o /\ mutationIntents[o][k] \in {"sent", "indeterminate"}
      BY <2>1, <3>1, FlyingHolds
    <3>3. req[r].pc \in {"begin", "mark", "call", "await"} /\ PhaseOK(r)
      BY <1>2, <2>3
    <3>4. QED
      BY <1>9, <2>1, <2>2, <3>2, <3>3 DEF PhaseOK
  <2>5. QED
    BY <1>5, <1>9, <2>1, <2>2, <2>3, <2>4
<1>10. ASSUME NEW o \in Op, NEW k \in Key, OperatorStep(o, k), NEW r \in Req, Counts(r)'
       PROVE  Fits(r)'
  <2>1. UNCHANGED <<wire, req>> /\ UNCHANGED provider
    BY <1>10, DecisionEffect DEF OperatorStep, Resolve, world
  <2>2. QED
    BY <1>5, <1>6, <1>10, <2>1
<1>11. ASSUME Around, NEW r \in Req, Counts(r)'
       PROVE  Fits(r)'
  <2>1. UNCHANGED provider
    BY <1>11 DEF Around, Drift, Inject
  <2>2. QED
    BY <1>5, <1>11, <2>1 DEF Around, tables
<1>12. \A r \in Req : Counts(r)' => Fits(r)'
  BY <1>7, <1>8, <1>9, <1>10, <1>11, StepsHappen DEF Happens
<1>13. QED
  BY <1>12 DEF NoLostUpdate

\* No change overwrites what another operation wrote since it was planned, as long
\* as nobody edits the zone behind FlareForm's back and operators wait: the preflight
\* that compared the record is covered by the lock until the request has landed
\* (assertCurrentRecordSet, validate_mutation_intent).
THEOREM UpdatesAreNotLost ==
    ASSUME OperatorWaits, "drift" \notin Faults
    PROVE  Spec => []NoLostUpdate
<1>1. Init => NoLostUpdate
  BY DEF Init, NoLostUpdate, Fresh
<1>2. IInv /\ LocksCoverIntents /\ ExecInv /\ ChangeInv /\ NoLostUpdate /\ [Next]_vars
        => NoLostUpdate'
  BY LostUpdateNext
<1>3. QED
  BY <1>1, <1>2, LocksAlwaysCover, ChangesHold, IInvHolds, PTL DEF Spec

-----------------------------------------------------------------------------
(* What the provider holds *)

\* The provider has carried a change out that D1 has not settled.
Carried(o, k) ==
    wire[o][k] = "applied" /\ mutationIntents[o][k] \in {"sent", "indeterminate"}

\* What a step does to the records of a key: nothing that matters to D1, an edit
\* from outside, a change carried out, its confirmation, or a decision about it.
Still(k) ==
    /\ managedRecords'[k] = managedRecords[k]
    /\ \A o \in Op : /\ Carried(o, k)' <=> Carried(o, k)
                     /\ Carried(o, k) => intentActions'[o][k] = intentActions[o][k]
CarriesOut(o, k) ==
    /\ \A p \in Op : ~Carried(p, k) /\ (Carried(p, k)' <=> p = o)
    /\ \/ intentActions[o][k].action = "create"
       \/ \E p \in provider[k] : p.id = intentActions[o][k].target
    /\ intentActions[o][k].action \in Action
    /\ provider'[k] = Effect(o, k)
    /\ managedRecords'[k] = managedRecords[k]
    /\ intentActions'[o][k] = intentActions[o][k]
Confirms(o, k) ==
    /\ Carried(o, k) /\ \A p \in Op : ~Carried(p, k)'
    /\ ConfirmBatch(o, k)
    /\ provider'[k] = provider[k]
Decides(o, k) ==
    /\ \A p \in Op : ~Carried(p, k)' /\ (Carried(p, k) => p = o)
    /\ mutationIntents[o][k] # "absent"
    /\ provider'[k] = provider[k]
    /\ \E decision \in Decision, p \in Candidates(k) :
          /\ Evidence(o, k, decision, p) /\ Careful(o, k, decision)
          /\ managedRecords'[k] = ResolvedRecord(o, k, decision, p)
KeyStep(k) ==
    \/ Still(k) /\ provider'[k] = provider[k]
    \/ Still(k) /\ Drift(k)
    \/ \E o \in Op : CarriesOut(o, k) \/ Confirms(o, k) \/ Decides(o, k)

\* The locks leave at most one operation with an unsettled change of a key.
LEMMA CarriedOnce ==
    ASSUME LocksCoverIntents, NEW o \in Op, NEW p \in Op, NEW k \in Key,
           mutationIntents[o][k] \notin Settled, mutationIntents[p][k] \notin Settled
    PROVE  o = p
BY DEF LocksCoverIntents

\* Of the events of a request only the confirmation of a change concerns records,
\* and only its begin names one.
LEMMA EventRecords ==
    ASSUME IInv, NEW r \in Req, Event(r)
    PROVE  /\ UNCHANGED provider
           /\ \A p \in Op, j \in Key : mutationIntents[p][j] # "absent"
                 => intentActions'[p][j] = intentActions[p][j]
           /\ \/ UNCHANGED managedRecords
              \/ req[r].pc = "confirm" /\ ConfirmBatch(OpOf[r], req[r].key)
<1>1. intentActions \in [Op -> [Key -> IntentColumns]]
  BY DEF IInv, TablesOK, StoreTypeOK
<1>2. ASSUME BeginIntent(r)
      PROVE  \A p \in Op, j \in Key : mutationIntents[p][j] # "absent"
                => intentActions'[p][j] = intentActions[p][j]
  BY <1>1, <1>2 DEF BeginIntent, BeginBatch
<1>3. UNCHANGED intentActions \/ BeginIntent(r)
  BY DEF Event, Outside, Between, Within, Advances, Closes, ReuseBatch, ReserveNew,
     ReserveBatch, StartStatement, FreezeBatch, UpdateStatement, SentStatement,
     ConfirmBatch, IndeterminateBatch, FinishBatch, FailedBatch, tables
<1>4. UNCHANGED managedRecords \/ (req[r].pc = "confirm" /\ ConfirmBatch(OpOf[r], req[r].key))
  BY DEF Event, Outside, Between, Within, Advances, Closes, ReuseBatch, ReserveNew,
     ReserveBatch, StartStatement, FreezeBatch, UpdateStatement, SentStatement,
     BeginIntent, BeginBatch, IndeterminateBatch, FinishBatch, FailedBatch, tables
<1>5. QED
  BY <1>2, <1>3, <1>4 DEF Event

LEMMA KeySteps ==
    ASSUME OperatorWaits, IInv, LocksCoverIntents, ExecInv, ChangeInv, [Next]_vars,
           NEW k \in Key
    PROVE  KeyStep(k)
<1>1. /\ mutationIntents \in [Op -> [Key -> IntentStatus]]
      /\ wire \in [Op -> [Key -> WireStatus]]
      /\ managedRecords \in [Key -> ManagedRow \cup {NoRow}]
      /\ provider \in ProviderView
  BY DEF IInv, WorldOK, TablesOK, StoreTypeOK
<1>2. ASSUME UNCHANGED <<managedRecords, intentActions>>,
             \A o \in Op : Carried(o, k)' <=> Carried(o, k)
      PROVE  Still(k)
  BY <1>2 DEF Still
<1>3. ASSUME NEW r \in Req, Event(r) PROVE KeyStep(k)
  <2> DEFINE o == OpOf[r]
  <2>1. o \in Op /\ UNCHANGED provider /\ PhaseOK(r) /\ WireOK
    BY <1>3, EventRecords, EventRows DEF ChangeInv
  <2>2. \A p \in Op : Carried(p, k) => intentActions'[p][k] = intentActions[p][k]
    BY <1>3, EventRecords DEF Carried
  <2>3. CASE UNCHANGED <<mutationIntents, wire>>
    <3>1. ~(req[r].pc = "confirm" /\ ConfirmBatch(o, req[r].key))
      <4> SUFFICES ASSUME req[r].pc = "confirm", ConfirmBatch(o, req[r].key) PROVE FALSE
        OBVIOUS
      <4>1. PICK j \in Key : j = req[r].key
        BY RequestArguments DEF PlacedAt, AtKey
      <4>2. mutationIntents[o][j] = "sent" /\ mutationIntents'[o][j] = "confirmed"
        BY <1>1, <2>1, <4>1 DEF ConfirmBatch, Confirmable, StatusTransition, SetIntent
      <4>3. QED
        BY <2>3, <4>2
    <3>2. UNCHANGED managedRecords
      BY <1>3, <3>1, EventRecords
    <3>3. QED
      BY <2>1, <2>2, <2>3, <3>2 DEF KeyStep, Still, Carried
  <2>4. CASE Advances(r) /\ req[r].pc \in AtKey /\ req[r].key \in Key
    <3>1. PICK j \in Key : j = req[r].key
      BY <2>4
    <3>2. CASE j # k
      <4>1. \A p \in Op : Carried(p, k)' <=> Carried(p, k)
        BY <2>1, <2>4, <3>1, <3>2, AdvanceEffect DEF Carried
      <4>2. managedRecords'[k] = managedRecords[k]
        BY <1>1, <1>3, <3>1, <3>2, EventRecords DEF ConfirmBatch
      <4>3. QED
        BY <2>1, <2>2, <4>1, <4>2 DEF KeyStep, Still
    <3>3. CASE j = k /\ ConfirmBatch(o, k)
      <4>1. mutationIntents[o][k] = "sent" /\ mutationIntents'[o][k] = "confirmed"
        BY <1>1, <2>1, <3>3 DEF ConfirmBatch, Confirmable, StatusTransition, SetIntent
      <4>2. req[r].pc = "confirm"
        BY <2>4, <3>1, <3>3, <4>1, AdvanceEffect, <2>1 DEF PhaseOK, AtKey
      <4>3. Carried(o, k)
        BY <2>1, <3>1, <3>3, <4>1, <4>2 DEF Carried, PhaseOK
      <4>4. \A p \in Op : ~Carried(p, k)'
        <5> SUFFICES ASSUME NEW p \in Op, Carried(p, k)' PROVE FALSE
          OBVIOUS
        <5>1. p # o
          BY <4>1 DEF Carried
        <5>2. mutationIntents'[p][k] = mutationIntents[p][k]
          BY <2>1, <2>4, <3>1, <5>1, AdvanceEffect
        <5>3. QED
          BY <2>1, <4>1, <5>1, <5>2, CarriedOnce DEF Carried, Settled
      <4>5. QED
        BY <2>1, <3>3, <4>3, <4>4 DEF KeyStep, Confirms
    <3>4. CASE j = k /\ ~ConfirmBatch(o, k)
      <4>1. UNCHANGED managedRecords
        BY <1>3, <3>1, <3>4, EventRecords
      <4>2. \A p \in Op \ {o} : Carried(p, k)' <=> Carried(p, k)
        BY <2>1, <2>4, <3>1, <3>4, AdvanceEffect DEF Carried
      <4>3. CASE req[r].pc = "confirm"
        <5>1. UNCHANGED <<mutationIntents, wire>>
          BY <2>4, <3>1, <3>4, <4>3 DEF Advances, tables
        <5>2. QED
          BY <2>3, <5>1
      <4>4. CASE req[r].pc # "confirm"
        <5>1. Carried(o, k)' <=> Carried(o, k)
          <6>1. /\ wire'[o][k] = IF req[r].pc = "call" THEN "flying" ELSE wire[o][k]
                /\ req[r].pc = "call" => wire[o][k] = "idle"
            BY <2>1, <2>4, <3>1, <3>4, AdvanceEffect DEF PhaseOK
          <6>2. \/ mutationIntents'[o][k] = mutationIntents[o][k]
                \/ mutationIntents[o][k] = "absent" /\ mutationIntents'[o][k] = "prepared"
                \/ mutationIntents[o][k] = "prepared" /\ mutationIntents'[o][k] = "sent"
                \/ mutationIntents[o][k] = "sent" /\ mutationIntents'[o][k] = "indeterminate"
            BY <2>1, <2>4, <3>1, <3>4, <4>4, AdvanceEffect DEF AtKey
          <6>3. mutationIntents[o][k] \in {"absent", "prepared"} => wire[o][k] = "idle"
            BY <2>1 DEF WireOK
          <6>4. QED
            BY <6>1, <6>2, <6>3 DEF Carried
        <5>2. QED
          BY <2>1, <2>2, <4>1, <4>2, <5>1 DEF KeyStep, Still
      <4>5. QED
        BY <4>3, <4>4
    <3>5. QED
      BY <3>2, <3>3, <3>4
  <2>5. QED
    BY <1>3, <2>3, <2>4, IntentMoves
<1>4. ASSUME NEW o \in Op, NEW j \in Key, Answers(o, j) PROVE KeyStep(k)
  <2>1. /\ UNCHANGED tables /\ wire[o][j] = "flying"
        /\ \A p \in Op, i \in Key : <<p, i>> # <<o, j>> => wire'[p][i] = wire[p][i]
        /\ j # k => provider'[k] = provider[k]
    BY <1>1, <1>4 DEF Answers, ProviderView
  <2>2. CASE j # k
    BY <1>2, <2>1, <2>2 DEF KeyStep, Carried, tables
  <2>3. CASE j = k /\ wire'[o][k] # "applied"
    <3>1. provider'[k] = provider[k]
      BY <1>1, <1>4, <2>3 DEF Answers
    <3>2. \A p \in Op : Carried(p, k)' <=> Carried(p, k)
      BY <2>1, <2>3 DEF Carried, tables
    <3>3. QED
      BY <1>2, <2>1, <3>1, <3>2 DEF KeyStep, tables
  <2>4. CASE j = k /\ wire'[o][k] = "applied"
    <3>1. mutationIntents[o][k] \in {"sent", "indeterminate"}
      BY <2>1, <2>4, FlyingHolds
    <3>2. \A p \in Op : ~Carried(p, k)
      BY <2>1, <2>4, <3>1, CarriedOnce DEF Carried, Settled
    <3>3. \A p \in Op : Carried(p, k)' <=> p = o
      BY <2>1, <2>4, <3>1, <3>2 DEF Carried, tables
    <3>4. /\ \/ intentActions[o][k].action = "create"
             \/ \E p \in provider[k] : p.id = intentActions[o][k].target
          /\ provider'[k] = Effect(o, k)
      BY <1>1, <1>4, <2>4 DEF Answers, ProviderView
    <3>5. intentActions[o][k].action \in Action
      BY <3>1 DEF IInv, TablesOK, IntentsMeanSomething
    <3>6. CarriesOut(o, k)
      BY <2>1, <3>2, <3>3, <3>4, <3>5 DEF CarriesOut, tables
    <3>7. QED
      BY <3>6 DEF KeyStep
  <2>5. QED
    BY <2>2, <2>3, <2>4
<1>5. ASSUME NEW o \in Op, NEW j \in Key, OperatorStep(o, j) PROVE KeyStep(k)
  <2>1. PICK decision \in Decisions, p \in Candidates(j) : Resolve(o, j, decision, p)
    BY <1>5 DEF OperatorStep
  <2>2. /\ UNCHANGED <<provider, wire, intentActions>>
        /\ managedRecords' = [managedRecords EXCEPT ![j] = ResolvedRecord(o, j, decision, p)]
        /\ Evidence(o, j, decision, p) /\ Careful(o, j, decision)
    BY <2>1 DEF Resolve, ResolveBatch, world
  <2>3. /\ \A q \in Op, i \in Key : <<q, i>> # <<o, j>> =>
              mutationIntents'[q][i] = mutationIntents[q][i]
        /\ mutationIntents[o][j] = "indeterminate" /\ mutationIntents'[o][j] = "resolved"
    BY <1>5, DecisionEffect
  <2>4. CASE j # k
    <3>1. \A q \in Op : Carried(q, k)' <=> Carried(q, k)
      BY <2>2, <2>3, <2>4 DEF Carried
    <3>2. managedRecords'[k] = managedRecords[k]
      BY <1>1, <2>2, <2>4
    <3>3. QED
      BY <2>2, <3>1, <3>2 DEF KeyStep, Still
  <2>5. CASE j = k
    <3>1. \A q \in Op : Carried(q, k) => q = o
      BY <2>3, <2>5, CarriedOnce DEF Carried, Settled
    <3>2. \A q \in Op : ~Carried(q, k)'
      BY <2>2, <2>3, <2>5, <3>1 DEF Carried
    <3>3. managedRecords'[k] = ResolvedRecord(o, k, decision, p)
      BY <1>1, <2>2, <2>5
    <3>4. decision \in Decision
      BY OperatorAssumption
    <3>5. Decides(o, k)
      BY <2>2, <2>3, <2>5, <3>1, <3>2, <3>3, <3>4 DEF Decides
    <3>6. QED
      BY <3>5 DEF KeyStep
  <2>6. QED
    BY <2>4, <2>5
<1>6. ASSUME Around PROVE KeyStep(k)
  <2>1. Still(k)
    BY <1>2, <1>6 DEF Around, Carried, tables
  <2>2. \A j \in Key \ {k} : Drift(j) => provider'[k] = provider[k]
    BY <1>1 DEF Drift, ProviderView
  <2>3. QED
    BY <1>6, <2>1, <2>2 DEF Around, KeyStep
<1>7. QED
  BY <1>3, <1>4, <1>5, <1>6, StepsHappen DEF Happens

\* What D1 records of a key that is confirmed.
LEMMA ConfirmedRow ==
    ASSUME IInv, NEW o \in Op, NEW k \in Key, ConfirmBatch(o, k)
    PROVE  /\ intentActions[o][k].action = "delete" => managedRecords'[k] = NoRow
           /\ intentActions[o][k].action \in {"create", "update"} =>
                 /\ managedRecords'[k] # NoRow
                 /\ managedRecords'[k].content = Desired[o][k]
           /\ intentActions[o][k].action = "create" => managedRecords'[k].id = NewId(o, k)
           /\ intentActions[o][k].action = "update" =>
                 managedRecords'[k].id = intentActions[o][k].target
<1> DEFINE row == intentActions[o][k]
           id == IF row.action = "create" THEN NewId(o, k) ELSE row.target
           new == [id |-> id, content |-> Desired[o][k]]
<1>1. managedRecords \in [Key -> ManagedRow \cup {NoRow}]
  BY DEF IInv, TablesOK, StoreTypeOK
<1>2. row.action = "delete" => managedRecords'[k] = NoRow
  BY <1>1 DEF ConfirmBatch
<1>3. ASSUME row.action \in {"create", "update"}
      PROVE  managedRecords'[k] = new /\ new # NoRow
  <2>1. mutationIntents[o][k] # "absent"
    BY DEF ConfirmBatch, Confirmable, StatusTransition
  <2>2. Desired[o][k] \in Content /\ id \in RecordId
    BY <1>3, <2>1 DEF IInv, TablesOK, IntentsMeanSomething, RecordId
  <2>3. new \in ManagedRow
    BY <2>2 DEF ManagedRow
  <2>4. managedRecords'[k] = new
    BY <1>1, <1>3 DEF ConfirmBatch
  <2>5. QED
    BY <2>3, <2>4, RowAssumption
<1>4. new.id = id /\ new.content = Desired[o][k]
  OBVIOUS
<1> HIDE DEF new
<1>5. QED
  BY <1>2, <1>3, <1>4

\* What D1 records of a key an operator decides about.
LEMMA DecidedRow ==
    ASSUME IInv, NEW o \in Op, NEW k \in Key, NEW decision \in Decision,
           NEW p \in Candidates(k), Evidence(o, k, decision, p),
           mutationIntents[o][k] # "absent"
    PROVE  LET row == intentActions[o][k]
               new == ResolvedRecord(o, k, decision, p)
           IN  /\ row.action \in Action
               /\ decision = "confirm-no-change" =>
                     /\ new = managedRecords[k]
                     /\ row.action = "create" => provider[k] = {}
                     /\ row.action # "create" => \E q \in provider[k] : q.id = row.target
               /\ decision = "confirm-provider" /\ row.action # "delete" =>
                     /\ p \in provider[k] /\ new # NoRow
                     /\ new.id = p.id /\ new.content = p.content
               /\ decision = "confirm-provider" /\ row.action = "delete" =>
                     /\ \A q \in provider[k] : q.id # row.target
                     /\ new = IF HasTarget(o, k) THEN NoRow ELSE managedRecords[k]
<1> DEFINE row == intentActions[o][k]
           new == ResolvedRecord(o, k, decision, p)
<1>1. row.action \in Action /\ provider \in ProviderView
  BY DEF IInv, TablesOK, IntentsMeanSomething, WorldOK
<1>2. ASSUME decision = "confirm-no-change"
      PROVE  /\ new = managedRecords[k]
             /\ row.action = "create" => provider[k] = {}
             /\ row.action # "create" => \E q \in provider[k] : q.id = row.target
  BY <1>2 DEF ResolvedRecord, Evidence, NoChangeEvidence, KeysOf
<1>3. ASSUME decision = "confirm-provider", row.action # "delete"
      PROVE  /\ p \in provider[k] /\ new # NoRow
             /\ new.id = p.id /\ new.content = p.content
  <2>1. p \in provider[k]
    BY <1>3 DEF Evidence, ConfirmEvidence
  <2>2. [id |-> p.id, content |-> p.content] \in ManagedRow
    BY <1>1, <2>1 DEF ProviderView, ProviderRecord, ManagedRow
  <2>3. new = [id |-> p.id, content |-> p.content]
    BY <1>3 DEF ResolvedRecord
  <2>4. QED
    BY <2>1, <2>2, <2>3, RowAssumption
<1>4. ASSUME decision = "confirm-provider", row.action = "delete"
      PROVE  /\ \A q \in provider[k] : q.id # row.target
             /\ new = IF HasTarget(o, k) THEN NoRow ELSE managedRecords[k]
  BY <1>4 DEF ResolvedRecord, Evidence, ConfirmEvidence
<1>5. QED
  BY <1>1, <1>2, <1>3, <1>4

\* D1 has every record of the key under its identifier.
Known(k) ==
    \A p \in provider[k] : managedRecords[k] # NoRow /\ managedRecords[k].id = p.id

\* D1 knows the records of a key, unless a change was carried out and is not
\* settled: then its row says which record there can be.
KnownAt(k) ==
    /\ (\A o \in Op : ~Carried(o, k)) => Known(k)
    /\ \A o \in Op : Carried(o, k) =>
          LET row == intentActions[o][k]
          IN  /\ row.action \in Action
              /\ row.action = "create" => \A p \in provider[k] : p.id = NewId(o, k)
              /\ row.action = "update" =>
                    Known(k) /\ \A p \in provider[k] : p.id = row.target
              /\ row.action = "delete" => provider[k] = {}
KnownInv == \A k \in Key : KnownAt(k)

\* An edit from outside gives no key a record it did not have.
LEMMA DriftKeeps ==
    ASSUME provider \in ProviderView, NEW k \in Key, Drift(k)
    PROVE  \A q \in provider'[k] : \E p \in provider[k] : p.id = q.id
<1>0. PICK p \in provider[k] :
         \E q \in {{}} \cup {{[p EXCEPT !.content = c, !.rev = faults + 1]} : c \in Content} :
            provider' = [provider EXCEPT ![k] = (@ \ {p}) \cup q]
  BY DEF Drift
<1>1. PICK q \in {{}} \cup {{[p EXCEPT !.content = c, !.rev = faults + 1]} : c \in Content} :
         provider' = [provider EXCEPT ![k] = (@ \ {p}) \cup q]
  BY <1>0
<1>2. p \in ProviderRecord
  BY DEF ProviderView
<1>3. \A x \in q : x.id = p.id
  BY <1>1, <1>2 DEF ProviderRecord
<1>4. provider'[k] = (provider[k] \ {p}) \cup q
  BY <1>1 DEF ProviderView
<1>5. QED
  BY <1>1, <1>3, <1>4

LEMMA KnownNext ==
    ASSUME IInv, NEW k \in Key, KnownAt(k), KeyStep(k), OneRecordPerKey, OneRecordPerKey'
    PROVE  KnownAt(k)'
<1>1. /\ \A p, q \in provider[k] : p = q
      /\ \A p, q \in provider'[k] : p = q
      /\ provider \in ProviderView
  BY DEF OneRecordPerKey, IInv, WorldOK
<1>2. ASSUME Still(k), \A q \in provider'[k] : \E p \in provider[k] : p.id = q.id
      PROVE  KnownAt(k)'
  <2>1. Known(k) => Known(k)'
    BY <1>2 DEF Known, Still
  <2>2. QED
    BY <1>2, <2>1 DEF Still, KnownAt
<1>3. ASSUME NEW o \in Op, CarriesOut(o, k) PROVE KnownAt(k)'
  <2> DEFINE row == intentActions[o][k]
  <2>1. /\ Known(k) /\ provider'[k] = Effect(o, k) /\ row' = row /\ row.action \in Action
        /\ \A p \in Op : Carried(p, k)' <=> p = o
        /\ managedRecords'[k] = managedRecords[k]
    BY <1>3 DEF CarriesOut, KnownAt
  <2>2. CASE row.action = "create"
    <3>1. [id |-> NewId(o, k), content |-> Desired[o][k], rev |-> o] \in provider'[k]
      BY <2>1, <2>2 DEF Effect
    <3>2. \A p \in provider'[k] : p.id = NewId(o, k)
      BY <1>1, <3>1
    <3>3. QED
      BY <2>1, <2>2, <3>2 DEF KnownAt
  <2>3. CASE row.action = "update"
    <3>1. [id |-> row.target, content |-> Desired[o][k], rev |-> o] \in provider'[k]
      BY <2>1, <2>3 DEF Effect
    <3>2. \A p \in provider'[k] : p.id = row.target
      BY <1>1, <3>1
    <3>3. \E p \in provider[k] : p.id = row.target
      BY <1>3, <2>3 DEF CarriesOut
    <3>4. Known(k)'
      BY <2>1, <3>2, <3>3 DEF Known
    <3>5. QED
      BY <2>1, <2>3, <3>2, <3>4 DEF KnownAt
  <2>4. CASE row.action = "delete"
    <3>1. PICK p \in provider[k] : p.id = row.target
      BY <1>3, <2>4 DEF CarriesOut
    <3>2. provider'[k] = {}
      BY <1>1, <2>1, <2>4, <3>1 DEF Effect
    <3>3. QED
      BY <2>1, <2>4, <3>2 DEF KnownAt
  <2>5. QED
    BY <2>1, <2>2, <2>3, <2>4 DEF Action
<1>4. ASSUME NEW o \in Op, Confirms(o, k) PROVE KnownAt(k)'
  <2>1. /\ Carried(o, k) /\ provider'[k] = provider[k] /\ ConfirmBatch(o, k)
        /\ \A p \in Op : ~Carried(p, k)'
    BY <1>4 DEF Confirms
  <2>2. Known(k)'
    BY <2>1, ConfirmedRow DEF Known, KnownAt, Action
  <2>3. QED
    BY <2>1, <2>2 DEF KnownAt
<1>5. ASSUME NEW o \in Op, Decides(o, k) PROVE KnownAt(k)'
  <2>1. PICK decision \in Decision, p \in Candidates(k) :
           /\ Evidence(o, k, decision, p)
           /\ managedRecords'[k] = ResolvedRecord(o, k, decision, p)
    BY <1>5 DEF Decides
  <2>2. /\ provider'[k] = provider[k] /\ mutationIntents[o][k] # "absent"
        /\ \A q \in Op : ~Carried(q, k)' /\ (Carried(q, k) => q = o)
    BY <1>5 DEF Decides
  <2>3. Known(k) \/ Carried(o, k)
    BY <2>2 DEF KnownAt
  <2>4. ASSUME decision = "confirm-no-change"
      PROVE  Known(k)'
    BY <2>1, <2>2, <2>3, <2>4, DecidedRow DEF Known, KnownAt, Action
  <2>5. ASSUME decision = "confirm-provider", intentActions[o][k].action # "delete"
      PROVE  Known(k)'
    BY <1>1, <2>1, <2>2, <2>5, DecidedRow DEF Known, KnownAt
  <2>6. ASSUME decision = "confirm-provider", intentActions[o][k].action = "delete"
      PROVE  Known(k)'
    BY <2>1, <2>2, <2>3, <2>6, DecidedRow DEF Known, KnownAt, HasTarget
  <2>7. Known(k)'
    BY <2>4, <2>5, <2>6 DEF Decision
  <2>8. QED
    BY <2>2, <2>7 DEF KnownAt
<1>6. QED
  BY <1>1, <1>2, <1>3, <1>4, <1>5, DriftKeeps DEF KeyStep

\* Whatever records are edited or deleted by hand, and whatever is lost, no record
\* stays at the provider that D1 does not know once its set is unlocked, as long as
\* operators wait and no key ever gets a second record.  The second record, which
\* a create planned before an earlier create can add, is the only way.
THEOREM NothingOrphaned ==
    ASSUME OperatorWaits
    PROVE  Spec /\ []OneRecordPerKey => []NoOrphan
<1>1. Init => KnownInv
  <2> SUFFICES ASSUME Init, NEW k \in Key PROVE KnownAt(k)
    BY DEF KnownInv
  <2>1. \A o \in Op : ~Carried(o, k)
    BY DEF Init, Carried
  <2>2. CASE k \in InitialKeys
    <3> DEFINE new == [id |-> k, content |-> InitialContent[k]]
    <3>1. new \in ManagedRow
      BY <2>2, StoreAssumption DEF ManagedRow, RecordId
    <3>2. managedRecords[k] = new /\ \A p \in provider[k] : p.id = k
      BY <2>2 DEF Init, StoreInit
    <3>3. Known(k)
      BY <3>1, <3>2, RowAssumption DEF Known
    <3>4. QED
      BY <2>1, <3>3 DEF KnownAt
  <2>3. CASE k \notin InitialKeys
    BY <2>1, <2>3 DEF Init, StoreInit, KnownAt, Known
  <2>4. QED
    BY <2>2, <2>3
<1>2. IInv /\ LocksCoverIntents /\ ExecInv /\ ChangeInv /\ KnownInv
        /\ OneRecordPerKey /\ OneRecordPerKey' /\ [Next]_vars => KnownInv'
  BY KeySteps, KnownNext DEF KnownInv
<1>3. ASSUME IInv, LocksCoverIntents, KnownInv PROVE NoOrphan
  <2> SUFFICES ASSUME NEW k \in Key, operationLocks[SetOf[k]] = NoOp PROVE Known(k)
    BY DEF NoOrphan, Known
  <2>1. \A o \in Op : ~Carried(o, k)
    BY <1>3, StoreAssumption DEF LocksCoverIntents, Carried, Settled
  <2>2. QED
    BY <1>3, <2>1 DEF KnownInv, KnownAt
<1>4. QED
  BY <1>1, <1>2, <1>3, LocksAlwaysCover, ChangesHold, IInvHolds, PTL DEF Spec
-----------------------------------------------------------------------------
(* Identifiers at the provider *)

\* No two records of a key share an identifier, and a record that is named
\* after a change is there because the change was carried out.
IdsOK ==
    \A k \in Key :
        /\ \A p, q \in provider[k] : p.id = q.id => p = q
        /\ \A p \in provider[k], o \in Op :
              p.id = NewId(o, k) => wire[o][k] = "applied"

\* What was carried out stays so: nothing is sent twice.
LEMMA AppliedStays ==
    ASSUME IInv, ChangeInv, [Next]_vars, NEW o \in Op, NEW k \in Key,
           wire[o][k] = "applied"
    PROVE  wire'[o][k] = "applied"
<1>1. ASSUME NEW r \in Req, Event(r) PROVE wire'[o][k] = "applied"
  <2>1. CASE UNCHANGED wire
    BY <2>1
  <2>2. CASE Advances(r) /\ OpOf[r] \in Op /\ req[r].key \in Key
    BY <2>2, AdvanceEffect DEF ChangeInv, PhaseOK
  <2>3. QED
    BY <1>1, <2>1, <2>2, IntentMoves
<1>2. ASSUME NEW q \in Op, NEW j \in Key, Answers(q, j) PROVE wire'[o][k] = "applied"
  <2>1. /\ wire[q][j] = "flying"
        /\ \A p \in Op, i \in Key : <<p, i>> # <<q, j>> => wire'[p][i] = wire[p][i]
    BY <1>2 DEF Answers, IInv, WorldOK
  <2>2. <<o, k>> # <<q, j>>
    BY <2>1
  <2>3. QED
    BY <2>1, <2>2
<1>3. ASSUME NEW q \in Op, NEW j \in Key, OperatorStep(q, j) PROVE wire'[o][k] = "applied"
  BY <1>3, OperatorStepTables
<1>4. CASE Around
  BY <1>4 DEF Around
<1>5. QED
  BY <1>1, <1>2, <1>3, <1>4, StepsHappen DEF Happens

LEMMA IdsNext == IInv /\ ChangeInv /\ IdsOK /\ [Next]_vars => IdsOK'
<1> SUFFICES ASSUME IInv, ChangeInv, IdsOK, [Next]_vars, NEW k \in Key
             PROVE  /\ \A p, q \in provider'[k] : p.id = q.id => p = q
                    /\ \A p \in provider'[k], o \in Op :
                          p.id = NewId(o, k) => wire'[o][k] = "applied"
  BY DEF IdsOK
<1> DEFINE Goal == /\ \A p, q \in provider'[k] : p.id = q.id => p = q
                   /\ \A p \in provider'[k], o \in Op :
                          p.id = NewId(o, k) => wire'[o][k] = "applied"
<1>1. /\ provider \in ProviderView /\ wire \in [Op -> [Key -> WireStatus]]
      /\ \A p, q \in provider[k] : p.id = q.id => p = q
      /\ \A p \in provider[k], o \in Op : p.id = NewId(o, k) =>
            wire[o][k] = "applied" /\ wire'[o][k] = "applied"
  BY AppliedStays DEF IdsOK, IInv, WorldOK
<1>2. ASSUME provider'[k] = provider[k] PROVE Goal
  BY <1>1, <1>2
<1>3. ASSUME NEW r \in Req, Event(r) PROVE Goal
  BY <1>2, <1>3, EventRecords
<1>4. ASSUME NEW o \in Op, NEW j \in Key, Answers(o, j) PROVE Goal
  <2> DEFINE row == intentActions[o][k]
             New(id) == [id |-> id, content |-> Desired[o][k], rev |-> o]
  <2>1. CASE j # k \/ wire'[o][j] # "applied"
    BY <1>1, <1>2, <1>4, <2>1 DEF Answers, ProviderView
  <2>2. CASE j = k /\ wire'[o][k] = "applied"
    <3>1. /\ row.action = "create" \/ \E p \in provider[k] : p.id = row.target
          /\ provider'[k] = Effect(o, k) /\ wire[o][k] = "flying"
      BY <1>1, <1>4, <2>2 DEF Answers, ProviderView
    <3>2. row.action \in Action
      BY <3>1 DEF IInv, TablesOK, IntentsMeanSomething, WireHasIntent
    <3>3. \A p \in provider[k] : p.id # NewId(o, k)
      BY <1>1, <3>1
    <3>4. New(NewId(o, k)).id = NewId(o, k) /\ New(row.target).id = row.target
      OBVIOUS
    <3> HIDE DEF New
    <3>5. CASE row.action = "create"
      <4>1. provider'[k] = provider[k] \cup {New(NewId(o, k))}
        BY <3>1, <3>5 DEF Effect, New
      <4>2. \A q \in Op : NewId(q, k) = NewId(o, k) => q = o
        BY DEF NewId
      <4>3. QED
        BY <1>1, <2>2, <3>3, <3>4, <4>1, <4>2
    <3>6. CASE row.action = "update"
      <4>1. provider'[k] = (provider[k] \ {p \in provider[k] : p.id = row.target})
                              \cup {New(row.target)}
        BY <3>1, <3>6 DEF Effect, New
      <4>2. QED
        BY <1>1, <3>1, <3>4, <3>6, <4>1
    <3>7. CASE row.action = "delete"
      BY <1>1, <3>1, <3>7 DEF Effect
    <3>8. QED
      BY <3>2, <3>5, <3>6, <3>7 DEF Action
  <2>3. QED
    BY <2>1, <2>2
<1>5. ASSUME NEW o \in Op, NEW j \in Key, OperatorStep(o, j) PROVE Goal
  BY <1>2, <1>5, OperatorStepTables
<1>6. CASE Around
  <2>1. CASE UNCHANGED provider
    BY <1>2, <2>1
  <2>2. ASSUME NEW j \in Key, Drift(j) PROVE Goal
    <3>1. CASE j # k
      BY <1>1, <1>2, <2>2, <3>1 DEF Drift, ProviderView
    <3>2. CASE j = k
      <4>0. PICK p \in provider[k] : \E q \in
               {{}} \cup {{[p EXCEPT !.content = c, !.rev = faults + 1]} : c \in Content} :
                  provider' = [provider EXCEPT ![k] = (@ \ {p}) \cup q]
        BY <2>2, <3>2 DEF Drift
      <4>1. PICK q \in
               {{}} \cup {{[p EXCEPT !.content = c, !.rev = faults + 1]} : c \in Content} :
                  provider'[k] = (provider[k] \ {p}) \cup q
        BY <1>1, <4>0 DEF ProviderView
      <4>2. \A x, y \in q : x.id = p.id /\ x = y
        <5>1. p \in ProviderRecord
          BY <1>1 DEF ProviderView
        <5>2. \A c : [p EXCEPT !.content = c, !.rev = faults + 1].id = p.id
          BY <5>1 DEF ProviderRecord
        <5>3. q = {} \/ \E c \in Content : q = {[p EXCEPT !.content = c, !.rev = faults + 1]}
          BY <4>1
        <5>4. QED
          BY <5>2, <5>3
      <4>3. QED
        BY <1>1, <4>1, <4>2
    <3>3. QED
      BY <3>1, <3>2
  <2>3. QED
    BY <1>6, <2>1, <2>2 DEF Around
<1>7. QED
  BY <1>3, <1>4, <1>5, <1>6, StepsHappen DEF Happens

-----------------------------------------------------------------------------
(* What D1 records of the provider *)

\* The managed row of the key is what the provider has.
Matches(k) ==
    /\ managedRecords[k] = NoRow => provider[k] = {}
    /\ managedRecords[k] # NoRow =>
          \E p \in provider[k] : /\ provider[k] = {p}
                                 /\ p.id = managedRecords[k].id
                                 /\ p.content = managedRecords[k].content

\* The row matches, unless a change was carried out and is not settled: then the
\* provider has what the change asked for and nothing else.
MatchAt(k) ==
    /\ (\A o \in Op : ~Carried(o, k)) => Matches(k)
    /\ \A o \in Op : Carried(o, k) =>
          LET row == intentActions[o][k]
              New(id) == [id |-> id, content |-> Desired[o][k], rev |-> o]
          IN  /\ row.action \in Action
              /\ row.action = "create" => provider[k] = {New(NewId(o, k))}
              /\ row.action = "update" => provider[k] = {New(row.target)}
              /\ row.action = "delete" => provider[k] = {} /\ HasTarget(o, k)
MatchInv == \A k \in Key : MatchAt(k)

\* A provider that carries a change out leaves what the change asked for.
LEMMA MatchCarriesOut ==
    ASSUME IInv, NEW k \in Key, NEW o \in Op, MatchAt(k), CarriesOut(o, k),
           OneRecordPerKey'
    PROVE  MatchAt(k)'
<1> DEFINE row == intentActions[o][k]
           New(id) == [id |-> id, content |-> Desired[o][k], rev |-> o]
<1>1. /\ Matches(k) /\ provider'[k] = Effect(o, k) /\ row' = row /\ row.action \in Action
      /\ \A p \in Op : Carried(p, k)' <=> p = o
      /\ managedRecords'[k] = managedRecords[k]
      /\ \A p, q \in provider'[k] : p = q
  BY DEF CarriesOut, MatchAt, OneRecordPerKey
<1>2. CASE row.action = "create"
  <2>1. provider'[k] = {New(NewId(o, k))}
    BY <1>1, <1>2 DEF Effect
  <2>2. QED
    BY <1>1, <1>2, <2>1 DEF MatchAt
<1>3. CASE row.action = "update"
  <2>1. provider'[k] = {New(row.target)}
    BY <1>1, <1>3 DEF Effect
  <2>2. QED
    BY <1>1, <1>3, <2>1 DEF MatchAt
<1>4. CASE row.action = "delete"
  <2>1. PICK p \in provider[k] : p.id = row.target
    BY <1>4 DEF CarriesOut
  <2>2. managedRecords[k] # NoRow /\ managedRecords[k].id = row.target /\ provider[k] = {p}
    BY <1>1, <2>1 DEF Matches
  <2>3. provider'[k] = {}
    BY <1>1, <1>4, <2>1, <2>2 DEF Effect
  <2>4. HasTarget(o, k)'
    BY <1>1, <2>2 DEF HasTarget
  <2>5. QED
    BY <1>1, <1>4, <2>3, <2>4 DEF MatchAt
<1>5. QED
  BY <1>1, <1>2, <1>3, <1>4 DEF Action

\* An operator who compares records what the provider has.
LEMMA MatchDecides ==
    ASSUME OperatorCompares, IInv, NEW k \in Key, NEW o \in Op, MatchAt(k), Decides(o, k),
           OneRecordPerKey
    PROVE  MatchAt(k)'
<1> DEFINE row == intentActions[o][k]
           New(id) == [id |-> id, content |-> Desired[o][k], rev |-> o]
<1>1. PICK decision \in Decision, p \in Candidates(k) :
         /\ Evidence(o, k, decision, p) /\ Careful(o, k, decision)
         /\ managedRecords'[k] = ResolvedRecord(o, k, decision, p)
  BY DEF Decides
<1>2. /\ provider'[k] = provider[k] /\ mutationIntents[o][k] # "absent"
      /\ \A q \in Op : ~Carried(q, k)' /\ (Carried(q, k) => q = o)
      /\ \A q, r \in provider[k] : q = r
  BY DEF Decides, OneRecordPerKey
<1>3. Matches(k) \/ Carried(o, k)
  BY <1>2 DEF MatchAt
<1>4. ASSUME decision = "confirm-no-change" PROVE Matches(k)'
  <2>1. /\ managedRecords'[k] = managedRecords[k] /\ row.action \in Action
        /\ row.action = "create" => provider[k] = {}
        /\ row.action # "create" => \E q \in provider[k] : q.id = row.target
    BY <1>1, <1>2, <1>4, DecidedRow
  <2>2. ~Carried(o, k)
    <3> SUFFICES ASSUME Carried(o, k) PROVE FALSE
      OBVIOUS
    <3>1. CASE row.action = "create"
      BY <2>1, <3>1 DEF MatchAt
    <3>2. CASE row.action = "update"
      <4>1. provider[k] = {New(row.target)}
        BY <3>2 DEF MatchAt
      <4>2. Written(o, k)
        BY <4>1 DEF Written
      <4>3. QED
        BY <1>1, <1>4, <3>2, <4>2 DEF Careful
    <3>3. CASE row.action = "delete"
      BY <2>1, <3>3 DEF MatchAt
    <3>4. QED
      BY <2>1, <3>1, <3>2, <3>3 DEF Action
  <2>3. QED
    BY <1>2, <1>3, <2>1, <2>2 DEF Matches
<1>5. ASSUME decision = "confirm-provider", row.action # "delete" PROVE Matches(k)'
  <2>1. /\ p \in provider[k] /\ managedRecords'[k] # NoRow
        /\ managedRecords'[k].id = p.id /\ managedRecords'[k].content = p.content
    BY <1>1, <1>2, <1>5, DecidedRow
  <2>2. provider'[k] = {p}
    BY <1>2, <2>1
  <2>3. QED
    BY <2>1, <2>2 DEF Matches
<1>6. ASSUME decision = "confirm-provider", row.action = "delete" PROVE Matches(k)'
  <2>1. /\ \A q \in provider[k] : q.id # row.target
        /\ managedRecords'[k] = IF HasTarget(o, k) THEN NoRow ELSE managedRecords[k]
    BY <1>1, <1>2, <1>6, DecidedRow
  <2>2. CASE Carried(o, k)
    <3>1. provider'[k] = {} /\ managedRecords'[k] = NoRow
      BY <1>2, <1>6, <2>1, <2>2 DEF MatchAt
    <3>2. QED
      BY <3>1 DEF Matches
  <2>3. CASE Matches(k)
    <3>1. ~HasTarget(o, k)
      BY <2>1, <2>3 DEF Matches, HasTarget
    <3>2. managedRecords'[k] = managedRecords[k]
      BY <2>1, <3>1
    <3>3. QED
      BY <1>2, <2>3, <3>2 DEF Matches
  <2>4. QED
    BY <1>3, <2>2, <2>3
<1>7. Matches(k)'
  BY <1>4, <1>5, <1>6 DEF Decision
<1>8. QED
  BY <1>2, <1>7 DEF MatchAt

LEMMA MatchNext ==
    ASSUME OperatorCompares, "drift" \notin Faults, IInv, NEW k \in Key, MatchAt(k),
           KeyStep(k), OneRecordPerKey, OneRecordPerKey'
    PROVE  MatchAt(k)'
<1>1. ASSUME Still(k), provider'[k] = provider[k] PROVE MatchAt(k)'
  BY <1>1 DEF Still, MatchAt, Matches, HasTarget
<1>2. ~Drift(k)
  BY DEF Drift, Inject
<1>3. ASSUME NEW o \in Op, Confirms(o, k) PROVE MatchAt(k)'
  <2> DEFINE row == intentActions[o][k]
             New(id) == [id |-> id, content |-> Desired[o][k], rev |-> o]
  <2>1. /\ Carried(o, k) /\ provider'[k] = provider[k] /\ ConfirmBatch(o, k)
        /\ \A p \in Op : ~Carried(p, k)'
    BY <1>3 DEF Confirms
  <2>2. CASE row.action = "create"
    <3>1. provider'[k] = {New(NewId(o, k))}
      BY <2>1, <2>2 DEF MatchAt
    <3>2. managedRecords'[k] # NoRow /\ managedRecords'[k].id = NewId(o, k)
          /\ managedRecords'[k].content = Desired[o][k]
      BY <2>1, <2>2, ConfirmedRow
    <3>3. QED
      BY <2>1, <3>1, <3>2 DEF MatchAt, Matches
  <2>3. CASE row.action = "update"
    <3>1. provider'[k] = {New(row.target)}
      BY <2>1, <2>3 DEF MatchAt
    <3>2. managedRecords'[k] # NoRow /\ managedRecords'[k].id = row.target
          /\ managedRecords'[k].content = Desired[o][k]
      BY <2>1, <2>3, ConfirmedRow
    <3>3. QED
      BY <2>1, <3>1, <3>2 DEF MatchAt, Matches
  <2>4. CASE row.action = "delete"
    <3>1. provider'[k] = {} /\ managedRecords'[k] = NoRow
      BY <2>1, <2>4, ConfirmedRow DEF MatchAt
    <3>2. QED
      BY <2>1, <3>1 DEF MatchAt, Matches
  <2>5. QED
    BY <2>1, <2>2, <2>3, <2>4 DEF MatchAt, Action
<1>4. QED
  BY <1>1, <1>2, <1>3, MatchCarriesOut, MatchDecides DEF KeyStep

\* Outside the locks the ownership rows describe the provider exactly: each change
\* is recorded as it was carried out, by the request that sent it or by the operator
\* who waited and compared.  Only an edit from outside, or the second record of a
\* key that a repeated create adds, can put them apart.
THEOREM OwnershipHolds ==
    ASSUME OperatorWaits, OperatorCompares, "drift" \notin Faults
    PROVE  Spec /\ []OneRecordPerKey => []OwnershipMatches
<1>1. Init => MatchInv
  <2> SUFFICES ASSUME Init, NEW k \in Key PROVE MatchAt(k)
    BY DEF MatchInv
  <2>1. \A o \in Op : ~Carried(o, k)
    BY DEF Init, Carried
  <2>2. CASE k \in InitialKeys
    <3> DEFINE new == [id |-> k, content |-> InitialContent[k]]
               old == [id |-> k, content |-> InitialContent[k], rev |-> 0]
    <3>1. new \in ManagedRow
      BY <2>2, StoreAssumption DEF ManagedRow, RecordId
    <3>2. managedRecords[k] = new /\ provider[k] = {old}
      BY <2>2 DEF Init, StoreInit
    <3>3. new.id = old.id /\ new.content = old.content
      OBVIOUS
    <3>4. Matches(k)
      BY <3>1, <3>2, <3>3, RowAssumption DEF Matches
    <3>5. QED
      BY <2>1, <3>4 DEF MatchAt
  <2>3. CASE k \notin InitialKeys
    BY <2>1, <2>3 DEF Init, StoreInit, MatchAt, Matches
  <2>4. QED
    BY <2>2, <2>3
<1>2. IInv /\ LocksCoverIntents /\ ExecInv /\ ChangeInv /\ MatchInv
        /\ OneRecordPerKey /\ OneRecordPerKey' /\ [Next]_vars => MatchInv'
  BY KeySteps, MatchNext DEF MatchInv
<1>3. ASSUME IInv, LocksCoverIntents, MatchInv PROVE OwnershipMatches
  <2> SUFFICES ASSUME NEW s \in RecordSet, operationLocks[s] = NoOp, NEW k \in KeysOf(s)
               PROVE  Matches(k)
    BY DEF OwnershipMatches, SetVerified, Matches
  <2>1. k \in Key /\ SetOf[k] = s
    BY DEF KeysOf
  <2>2. \A o \in Op : ~Carried(o, k)
    BY <1>3, <2>1, StoreAssumption DEF LocksCoverIntents, Carried, Settled
  <2>3. QED
    BY <1>3, <2>1, <2>2 DEF MatchInv, MatchAt
<1>4. QED
  BY <1>1, <1>2, <1>3, LocksAlwaysCover, ChangesHold, IInvHolds, PTL DEF Spec

-----------------------------------------------------------------------------
(* What a request has seen *)

\* The steps after the preflight.
Accepting == {"admit", "reserve", "start"} \cup Executing

\* How a request comes by its snapshot, and on to the execution.
Reads(r) ==
    LET Keeps == req'[r].owned = req[r].owned /\ req'[r].seen = req[r].seen
    IN  \/ req'[r] = Fresh("done")
        \/ req[r].pc = "lookup" /\ req'[r].pc = "owned" /\ Keeps
        \/ /\ req[r].pc = "owned" /\ req'[r].pc = "listing"
           /\ req'[r].owned = OwnedRows(RepoOf[OpOf[r]])
        \/ /\ req[r].pc = "listing" /\ req'[r].pc = "classify"
           /\ req'[r].owned = req[r].owned /\ req'[r].seen = provider
        \/ req[r].pc = "classify" /\ req'[r].pc = "admit" /\ Keeps /\ Accepted(r)
        \/ req[r].pc = "admit" /\ req'[r].pc = "reserve" /\ Keeps
        \/ req[r].pc = "reserve" /\ req'[r].pc = "start" /\ Keeps
        \/ /\ req[r].pc \in {"start"} \cup Executing /\ req'[r].pc \in Executing
           /\ Keeps

LEMMA StepReads ==
    ASSUME IInv, NEW r \in Req, RequestStep(r) \/ RequestFault(r)
    PROVE  Reads(r)
<1>1. req \in [Req -> Request] /\ req[r] \in Request
  BY DEF IInv, RequestsOK
<1>2. Leave(r) => req'[r] = Fresh("done")
  BY <1>1 DEF Leave
<1>3. ASSUME Lookup(r) \/ ReadOwned(r) PROVE Reads(r)
  BY <1>1, <1>2, <1>3 DEF Lookup, ReadOwned, Reads, Request
<1>4. ASSUME ListProvider(r) \/ Classify(r) PROVE Reads(r)
  BY <1>1, <1>2, <1>4 DEF ListProvider, Classify, Reads, Request
<1>5. ASSUME Admit(r) \/ Reserve(r) PROVE Reads(r)
  BY <1>2, <1>5, Fields DEF Admit, Reserve, Reads
<1>6. ASSUME Start(r) PROVE Reads(r)
  <2>1. "zones" \in Executing
    BY DEF Executing
  <2>2. CASE req' = [req EXCEPT ![r].pc = "zones", ![r].zones = OpZones(OpOf[r])]
    <3> DEFINE zones == OpZones(OpOf[r])
    <3>1. /\ req'[r].pc = "zones" /\ req'[r].owned = req[r].owned
          /\ req'[r].seen = req[r].seen
      <4> HIDE DEF zones
      <4> QED BY <1>1, <2>2 DEF Request, zones
    <3>2. QED
      BY <1>6, <2>1, <3>1 DEF Start, Reads
  <2>3. QED
    BY <1>2, <1>6, <2>2 DEF Start, Reads
<1>7. ASSUME req[r].pc \in Executing PROVE Reads(r)
  <2>1. Event(r)
    BY StepEvents, FaultEvents
  <2>2. CASE req'[r].pc \in Executing
    BY <1>7, <2>1, <2>2 DEF Event, Reads
  <2>3. CASE req'[r].pc \notin Executing
    <3>1. \A step \in Executing : ~Goto(r, step)
      BY <2>3, Fields
    <3>2. ~KeyDone(r) /\ ~NextZone(r)
      BY <2>3, Fields DEF Executing
    <3>3. ~Tally(r)
      <4> DEFINE verdict == Verdict(OpOf[r])
      <4>1. req' = [req EXCEPT ![r].pc = "update", ![r].verdict = verdict] => FALSE
        <5> HIDE DEF verdict
        <5> QED BY <1>1, <2>3 DEF Request, Executing
      <4>2. QED
        BY <4>1 DEF Tally
    <3>4. \A k \in Key : ~TakeKey(r, k)
      BY <1>1, <2>3, <3>1 DEF TakeKey, Request, Executing
    <3>5. ASSUME NEW z \in Zone, VisitZone(r, z) PROVE FALSE
      <4> DEFINE keys == Mutations(r, z)
      <4>1. /\ req[r].pc = "zones"
            /\ \/ req' = [req EXCEPT ![r].zones = @ \ {z}]
               \/ req' = [req EXCEPT ![r].pc = "zone", ![r].zone = z, ![r].keys = keys]
               \/ req' = [req EXCEPT ![r].pc = "zoneError", ![r].zone = z,
                                     ![r].keys = {}]
        BY <3>5 DEF VisitZone
      <4> HIDE DEF keys
      <4>2. QED
        BY <1>1, <2>3, <4>1 DEF Request, Executing
    <3>6. Leave(r)
      <4> USE <3>1, <3>2
      <4>1. RequestStep(r) => Update(r)
        BY <1>7, <3>3, <3>4, <3>5 DEF RequestStep, Lookup, ReadOwned, ListProvider,
           Classify, Admit, Reserve, Start, EndZone, Begin, Mark, Call, Receive,
           Confirm, MarkUnknown, Finish, ZoneError, Freeze, Executing
      <4>2. RequestFault(r) => Leave(r)
        BY DEF RequestFault, WriteAborted, AnswerLost, ReadFails, ProviderTimeout,
           RequestTimeout, Crash, WriteFails, Executing
      <4>3. QED
        BY <4>1, <4>2 DEF Update
    <3>7. QED
      BY <1>2, <3>6 DEF Reads
  <2>4. QED
    BY <2>2, <2>3
<1>8. ASSUME RequestFault(r), req[r].pc \notin Executing PROVE Reads(r)
  <2>1. Leave(r)
    BY <1>8 DEF RequestFault, WriteAborted, AnswerLost, ReadFails, ProviderTimeout,
       RequestTimeout, Crash, WriteFails, Executing
  <2>2. QED
    BY <1>2, <2>1 DEF Reads
<1>9. QED
  BY <1>3, <1>4, <1>5, <1>6, <1>7, <1>8 DEF RequestStep, VisitZone, TakeKey, EndZone,
     Begin, Mark, Call, Receive, Confirm, MarkUnknown, Finish, ZoneError, Freeze,
     Tally, Update, Executing

\* A request reads the rows of its own repository only.
OwnRows(r) ==
    \A k \in Key : req[r].owned[k] # NoRow => OwnerOf[k] = RepoOf[OpOf[r]]

\* The sets an accepted request changes were, when it looked, what its rows say:
\* with the records of the rows and no others, or empty.
SeenOK(r) ==
    req[r].pc \in Accepting =>
        /\ \A k \in PruneKeys(r) : SetVerified(SetOf[k], req[r].owned, req[r].seen)
        /\ \A k \in DesiredKeys(OpOf[r]) :
              \/ SetVerified(SetOf[k], req[r].owned, req[r].seen)
              \/ \A j \in KeysOf(SetOf[k]) : req[r].seen[j] = {}

SeenInv == \A r \in Req : OwnRows(r) /\ SeenOK(r)

LEMMA SeenNext == IInv /\ SeenInv /\ [Next]_vars => SeenInv'
<1> SUFFICES ASSUME IInv, SeenInv, [Next]_vars, NEW q \in Req
             PROVE  OwnRows(q)' /\ SeenOK(q)'
  BY DEF SeenInv
<1>1. OwnRows(q) /\ SeenOK(q) /\ req \in [Req -> Request]
  BY DEF SeenInv, IInv, RequestsOK
<1>2. ASSUME req'[q].owned = req[q].owned, req'[q].seen = req[q].seen,
             \/ req'[q].pc \in Accepting => req[q].pc \in Accepting
             \/ Accepted(q)
      PROVE  OwnRows(q)' /\ SeenOK(q)'
  <2>1. PruneKeys(q)' = PruneKeys(q)
    BY <1>2 DEF PruneKeys, DesiredKeys, KeyZone
  <2>2. Accepted(q) =>
           /\ \A k \in PruneKeys(q) : SetVerified(SetOf[k], req[q].owned, req[q].seen)
           /\ \A k \in DesiredKeys(OpOf[q]) :
                 \/ SetVerified(SetOf[k], req[q].owned, req[q].seen)
                 \/ \A j \in KeysOf(SetOf[k]) : req[q].seen[j] = {}
    BY DEF Accepted, KeyAccepted
  <2>3. OwnRows(q)'
    BY <1>1, <1>2 DEF OwnRows
  <2>4. SeenOK(q)'
    BY <1>1, <1>2, <2>1, <2>2 DEF SeenOK, DesiredKeys, SetVerified
  <2>5. QED
    BY <2>3, <2>4
<1>3. CASE req'[q] = req[q]
  BY <1>2, <1>3
<1>4. CASE RequestStep(q) \/ RequestFault(q)
  <2>1. Reads(q)
    BY <1>4, StepReads
  <2>2. CASE req'[q] = Fresh("done")
    BY <2>2 DEF OwnRows, SeenOK, Fresh, Accepting, Executing
  <2>3. CASE req'[q].pc = "listing" /\ req'[q].owned = OwnedRows(RepoOf[OpOf[q]])
    BY <2>3 DEF OwnRows, SeenOK, OwnedRows, Accepting, Executing
  <2>4. CASE req'[q].pc = "classify" /\ req'[q].owned = req[q].owned
    BY <1>1, <2>4 DEF OwnRows, SeenOK, Accepting, Executing
  <2>5. QED
    BY <1>2, <2>1, <2>2, <2>3, <2>4 DEF Reads, Accepting, Executing
<1>5. ASSUME NEW r \in Req, RequestStep(r) \/ RequestFault(r), r # q
      PROVE  req'[q] = req[q]
  BY <1>1, <1>5, RequestStepMoves, RequestFaultMoves DEF Moved
<1>6. (\A r \in Req : ~(RequestStep(r) \/ RequestFault(r))) => UNCHANGED req
  BY OperatorStepTables DEF Next, Environment, ProviderApply, ProviderReject, Drift,
     SyncPolicy, vars
<1>7. QED
  BY <1>3, <1>4, <1>5, <1>6

LEMMA SeenInit == (\A r \in Req : req[r] = Fresh("lookup")) => SeenInv
BY DEF SeenInv, OwnRows, SeenOK, Fresh, Accepting, Executing

LEMMA SeenHolds == Spec => []SeenInv
<1>1. Init => SeenInv
  BY SeenInit DEF Init
<1>2. QED
  BY <1>1, SeenNext, IInvHolds, PTL DEF Spec
-----------------------------------------------------------------------------
(* The deletions of a zone *)

\* A record that is gone for good: its identifier is no longer to be given out.
Gone(k, id) ==
    /\ \A o \in Op : id = NewId(o, k) => wire[o][k] = "applied"
    /\ \A q \in provider[k] : q.id # id

\* The same after a step, of an identifier known before it.
GoneThen(k, id) ==
    /\ \A o \in Op : id = NewId(o, k) => wire'[o][k] = "applied"
    /\ \A q \in provider'[k] : q.id # id

\* A deletion the provider carried out took the record it names.
DeletedOK ==
    \A o \in Op, k \in Key :
        wire[o][k] = "applied" /\ intentActions[o][k].action = "delete"
            => Gone(k, intentActions[o][k].target)

\* The deletions begun in the zone a request is in are the ones it planned, and
\* each one it planned is still ahead of it or done.
AsPlanned(r) ==
    req[r].pc \in InZone =>
        \A k \in PruneKeys(r) :
            KeyZone(k) = req[r].zone /\ mutationIntents[OpOf[r]][k] # "absent" =>
                intentActions[OpOf[r]][k] =
                    [action |-> "delete", target |-> req[r].owned[k].id]
DoneOrAhead(r) ==
    req[r].pc \in InZone =>
        \A k \in PruneKeys(r) : KeyZone(k) = req[r].zone =>
            \/ Gone(k, req[r].owned[k].id)
            \/ k \in req[r].keys /\ req[r].pc # "finish"

DeletionInv ==
    /\ IdsOK
    /\ DeletedOK
    /\ \A r \in Req : AsPlanned(r) /\ DoneOrAhead(r)

\* No step brings a record back: creates take new identifiers, updates and edits
\* need the record.
LEMMA GoneStays ==
    ASSUME IInv, ChangeInv, [Next]_vars, NEW k \in Key, NEW id, Gone(k, id)
    PROVE  GoneThen(k, id)
<1>1. /\ provider \in ProviderView /\ wire \in [Op -> [Key -> WireStatus]]
  BY DEF IInv, WorldOK
<1>2. \A o \in Op : id = NewId(o, k) => wire'[o][k] = "applied"
  BY AppliedStays DEF Gone
<1>3. SUFFICES \A q \in provider'[k] : q.id # id
  BY <1>2 DEF GoneThen
<1>4. ASSUME provider'[k] = provider[k] PROVE \A q \in provider'[k] : q.id # id
  BY <1>4 DEF Gone
<1>5. ASSUME NEW o \in Op, NEW j \in Key, Answers(o, j)
      PROVE  \A q \in provider'[k] : q.id # id
  <2> DEFINE row == intentActions[o][k]
             New(i) == [id |-> i, content |-> Desired[o][k], rev |-> o]
  <2>1. CASE j # k \/ UNCHANGED provider
    BY <1>1, <1>4, <1>5, <2>1 DEF Answers, ProviderView
  <2>2. CASE j = k /\ provider' # provider
    <3>1. /\ row.action = "create" \/ \E p \in provider[k] : p.id = row.target
          /\ provider'[k] = Effect(o, k) /\ wire[o][k] = "flying"
      BY <1>1, <1>5, <2>2 DEF Answers, ProviderView
    <3>2. row.action \in Action
      BY <3>1 DEF IInv, TablesOK, IntentsMeanSomething, WireHasIntent
    <3>3. New(NewId(o, k)).id = NewId(o, k) /\ New(row.target).id = row.target
      OBVIOUS
    <3> HIDE DEF New
    <3>4. CASE row.action = "create"
      <4>1. provider'[k] = provider[k] \cup {New(NewId(o, k))}
        BY <3>1, <3>4 DEF Effect, New
      <4>2. NewId(o, k) # id
        BY <3>1 DEF Gone
      <4>3. QED
        BY <3>3, <4>1, <4>2 DEF Gone
    <3>5. CASE row.action = "update"
      <4>1. provider'[k] = (provider[k] \ {p \in provider[k] : p.id = row.target})
                              \cup {New(row.target)}
        BY <3>1, <3>5 DEF Effect, New
      <4>2. row.target # id
        BY <3>1, <3>5 DEF Gone
      <4>3. QED
        BY <3>3, <4>1, <4>2 DEF Gone
    <3>6. CASE row.action = "delete"
      BY <3>1, <3>6 DEF Effect, Gone
    <3>7. QED
      BY <3>2, <3>4, <3>5, <3>6 DEF Action
  <2>3. QED
    BY <2>1, <2>2
<1>6. CASE Around
  <2>1. \A j \in Key \ {k} : Drift(j) => provider'[k] = provider[k]
    BY <1>1 DEF Drift, ProviderView
  <2>2. \A q \in provider'[k] : \E p \in provider[k] : p.id = q.id
    BY <1>1, <1>6, <2>1, DriftKeeps DEF Around
  <2>3. QED
    BY <2>2 DEF Gone
<1>7. QED
  BY <1>4, <1>5, <1>6, StepsHappen, EventRecords, OperatorStepTables DEF Happens

\* A change with a row keeps what the row says.
LEMMA ColumnsStay ==
    ASSUME IInv, [Next]_vars, NEW o \in Op, NEW k \in Key,
           mutationIntents[o][k] # "absent"
    PROVE  intentActions'[o][k] = intentActions[o][k]
<1>1. ASSUME NEW p \in Op, NEW j \in Key, OperatorStep(p, j)
      PROVE  UNCHANGED intentActions
  BY <1>1 DEF OperatorStep, Resolve, ResolveBatch
<1>2. (\E p \in Op, j \in Key : Answers(p, j)) \/ Around => UNCHANGED intentActions
  BY DEF Answers, Around, tables
<1>3. QED
  BY <1>1, <1>2, StepsHappen, EventRecords DEF Happens

LEMMA DeletedNext ==
    ASSUME IInv, ChangeInv, IdsOK, DeletedOK, [Next]_vars
    PROVE  DeletedOK'
<1> SUFFICES ASSUME NEW o \in Op, NEW k \in Key, wire'[o][k] = "applied",
                    intentActions'[o][k].action = "delete"
             PROVE  GoneThen(k, intentActions'[o][k].target)
  BY DEF DeletedOK, Gone, GoneThen, NewId
<1> DEFINE id == intentActions[o][k].target
<1>1. /\ provider \in ProviderView /\ wire \in [Op -> [Key -> WireStatus]]
      /\ mutationIntents[o][k] # "absent" => intentActions'[o][k] = intentActions[o][k]
  BY ColumnsStay DEF IInv, WorldOK
<1>2. CASE wire[o][k] = "applied"
  <2>1. mutationIntents[o][k] # "absent"
    BY <1>2 DEF IInv, WireHasIntent
  <2>2. intentActions'[o][k] = intentActions[o][k] /\ Gone(k, id)
    BY <1>1, <1>2, <2>1 DEF DeletedOK
  <2>3. QED
    BY <2>2, GoneStays
<1>3. CASE wire[o][k] # "applied"
  <2>1. Answers(o, k)
    <3>1. ASSUME NEW r \in Req, Event(r) PROVE FALSE
      <4>1. CASE UNCHANGED wire
        BY <1>3, <4>1
      <4>2. CASE Advances(r) /\ OpOf[r] \in Op /\ req[r].key \in Key
        BY <1>3, <4>2, AdvanceEffect
      <4>3. QED
        BY <3>1, <4>1, <4>2, IntentMoves
    <3>2. ASSUME NEW q \in Op, NEW j \in Key, Answers(q, j) PROVE q = o /\ j = k
      BY <1>1, <1>3, <3>2 DEF Answers
    <3>3. (\E q \in Op, j \in Key : OperatorStep(q, j)) \/ Around => FALSE
      BY <1>3, OperatorStepTables DEF Around
    <3>4. QED
      BY <3>1, <3>2, <3>3, StepsHappen DEF Happens
  <2>2. /\ mutationIntents[o][k] # "absent"
        /\ intentActions[o][k].action = "delete"
        /\ intentActions'[o][k] = intentActions[o][k]
    BY <1>1, <2>1 DEF IInv, WireHasIntent, Answers
  <2>3. /\ \E p \in provider[k] : p.id = id
        /\ provider'[k] = Effect(o, k)
    BY <1>1, <1>3, <2>1, <2>2 DEF Answers, ProviderView
  <2>4. \A q \in provider'[k] : q.id # id
    BY <2>2, <2>3 DEF Effect
  <2>5. \A q \in Op : id = NewId(q, k) => wire'[q][k] = "applied"
    BY <2>3, AppliedStays DEF IdsOK
  <2>6. QED
    BY <2>2, <2>4, <2>5 DEF GoneThen
<1>4. QED
  BY <1>2, <1>3

\* A deletion that is begun names the record of the row that was read.
LEMMA BeginNames ==
    ASSUME IInv, SeenInv, NEW r \in Req, req[r].pc \in Executing,
           NEW k \in PruneKeys(r)
    PROVE  Change(r, k) = "delete" /\ Target(r, k) = req[r].owned[k].id
<1>1. k \in Key /\ req[r].owned[k] # NoRow
  BY DEF PruneKeys
<1>2. SetVerified(SetOf[k], req[r].owned, req[r].seen)
  BY DEF SeenInv, SeenOK, Accepting
<1>3. Current(r, k) # {}
  BY <1>1, <1>2 DEF SetVerified, KeysOf, Current
<1>4. Change(r, k) = "delete"
  BY DEF Change, PruneKeys
<1>5. QED
  BY <1>3, <1>4 DEF Target

\* What a request does in its zone leaves its deletions as planned.
LEMMA OwnDeletions ==
    ASSUME IInv, ExecInv, ChangeInv, ZoneInv, SeenInv, DeletionInv, [Next]_vars,
           NEW r \in Req, Event(r)
    PROVE  AsPlanned(r)' /\ DoneOrAhead(r)'
<1> DEFINE o == OpOf[r]
<1>1. /\ o \in Op /\ PhaseOK(r) /\ ZoneOK(r) /\ AsPlanned(r) /\ DoneOrAhead(r)
      /\ req[r].pc \in AtKey => req[r].key \in Key
  BY RequestArguments DEF PlacedAt, ChangeInv, ZoneInv, DeletionInv
<1>2. SUFFICES ASSUME req'[r].pc \in InZone
               PROVE  AsPlanned(r)' /\ DoneOrAhead(r)'
  BY DEF AsPlanned, DoneOrAhead
<1>3. req[r].pc \in Executing /\ req'[r].owned = req[r].owned
  <2>1. req'[r].pc \in Executing
    BY <1>2 DEF InZone, AtKey, Executing
  <2>2. req[r].pc \in Executing
    BY <1>2, <2>1 DEF Event, Outside, Between, Within, Advances, Closes, InZone,
       AtKey, Executing
  <2>3. QED
    BY <2>1, <2>2 DEF Event
<1>4. PruneKeys(r)' = PruneKeys(r) /\ \A k \in Key : KeyZone(k)' = KeyZone(k)
  BY <1>3 DEF PruneKeys, DesiredKeys, KeyZone
<1>5. \A k \in PruneKeys(r) : k \in Key
  BY DEF PruneKeys
<1>6. SUFFICES ASSUME NEW k \in PruneKeys(r), KeyZone(k) = req'[r].zone
               PROVE  /\ mutationIntents'[o][k] # "absent" =>
                            intentActions'[o][k] =
                               [action |-> "delete", target |-> req[r].owned[k].id]
                      /\ \/ GoneThen(k, req[r].owned[k].id)
                         \/ k \in req'[r].keys /\ req'[r].pc # "finish"
  BY <1>2, <1>3, <1>4, <1>5 DEF AsPlanned, DoneOrAhead, Gone, GoneThen, NewId
<1> DEFINE id == req[r].owned[k].id
           planned == [action |-> "delete", target |-> id]
           Goal == /\ mutationIntents'[o][k] # "absent" => intentActions'[o][k] = planned
                   /\ GoneThen(k, id) \/ (k \in req'[r].keys /\ req'[r].pc # "finish")
<1>7. k \in Key /\ (Gone(k, id) => GoneThen(k, id))
  BY <1>5, GoneStays
<1>8. /\ Change(r, k) = "delete" /\ Target(r, k) = id
  BY <1>3, BeginNames
<1>9. ASSUME req[r].pc \in InZone, req[r].zone = req'[r].zone
      PROVE  /\ mutationIntents[o][k] # "absent" => intentActions[o][k] = planned
             /\ Gone(k, id) \/ (k \in req[r].keys /\ req[r].pc # "finish")
             /\ mutationIntents[o][k] = "confirmed" => Gone(k, id)
  <2>1. /\ mutationIntents[o][k] # "absent" => intentActions[o][k] = planned
        /\ Gone(k, id) \/ (k \in req[r].keys /\ req[r].pc # "finish")
    BY <1>1, <1>6, <1>9 DEF AsPlanned, DoneOrAhead
  <2>2. ASSUME mutationIntents[o][k] = "confirmed" PROVE Gone(k, id)
    <3>1. wire[o][k] = "applied" /\ intentActions[o][k] = planned
      BY <1>1, <1>7, <2>1, <2>2 DEF ChangeInv, WireOK
    <3>2. QED
      BY <1>1, <1>7, <3>1 DEF DeletionInv, DeletedOK
  <2>3. QED
    BY <2>1, <2>2
<1>10. CASE Outside(r)
  BY <1>2, <1>10 DEF Outside, InZone, AtKey, Executing
<1>11. CASE Between(r)
  <2>1. /\ req[r].pc = "zones" /\ req'[r].pc = "zone" /\ UNCHANGED tables
        /\ req'[r].zone \in Zone
        /\ operationZones[o][req'[r].zone] \in {"pending", "failed"}
        /\ req'[r].keys = Mutations(r, req'[r].zone)
    BY <1>2, <1>11 DEF Between, InZone, AtKey
  <2>2. Untouched(o, req'[r].zone)
    BY <1>1, <2>1 DEF ZoneOK, Executing, AtZone, AtKey
  <2>3. mutationIntents'[o][k] = "absent"
    BY <1>6, <1>7, <2>1, <2>2 DEF Untouched, tables
  <2>4. k \in req'[r].keys
    BY <1>6, <1>7, <1>8, <2>1 DEF Mutations
  <2>5. QED
    BY <2>1, <2>3, <2>4
<1>12. CASE Within(r)
  <2>1. /\ req[r].pc = "zone" /\ req'[r].zone = req[r].zone
        /\ UNCHANGED <<mutationIntents, intentActions>>
    BY <1>2, <1>12 DEF Within, InZone, AtKey, tables
  <2>2. k \in req[r].keys \ req'[r].keys => mutationIntents[o][k] = "confirmed"
    BY <1>2, <1>12 DEF Within, InZone, AtKey
  <2>3. req'[r].pc = "finish" => req[r].keys = {}
    BY <1>12 DEF Within
  <2>4. QED
    BY <1>7, <1>9, <2>1, <2>2, <2>3 DEF InZone
<1>13. CASE Advances(r)
  <2> DEFINE j == req[r].key
  <2>1. /\ req[r].pc \in AtKey /\ j \in Key /\ req'[r].zone = req[r].zone
        /\ req'[r].pc # "finish"
        /\ req'[r].keys = req[r].keys \/ req'[r].keys = req[r].keys \ {j}
        /\ k \in req[r].keys \ req'[r].keys => req[r].pc = "confirm" /\ k = j
    BY <1>1, <1>13 DEF Advances, AtKey
  <2>2. /\ mutationIntents[o][k] # "absent" => intentActions[o][k] = planned
        /\ Gone(k, id) \/ k \in req[r].keys
    BY <1>9, <2>1 DEF InZone
  <2>3. GoneThen(k, id) \/ k \in req'[r].keys
    <3>1. CASE k \in req[r].keys \ req'[r].keys
      <4>1. /\ mutationIntents[o][k] = "sent" /\ wire[o][k] = "applied"
        BY <1>1, <2>1, <3>1 DEF PhaseOK
      <4>2. Gone(k, id)
        BY <1>1, <1>7, <2>2, <4>1 DEF DeletionInv, DeletedOK
      <4>3. QED
        BY <1>7, <4>2
    <3>2. QED
      BY <1>7, <2>2, <3>1
  <2>4. ASSUME mutationIntents'[o][k] # "absent" PROVE intentActions'[o][k] = planned
    <3>1. CASE mutationIntents[o][k] # "absent"
      BY <1>1, <1>7, <2>2, <3>1, ColumnsStay
    <3>2. CASE mutationIntents[o][k] = "absent"
      <4>1. k = j /\ req[r].pc = "begin"
        <5>1. k = j
          BY <1>1, <1>7, <1>13, <2>1, <2>4, <3>2, AdvanceEffect
        <5>2. QED
          BY <1>1, <2>1, <3>2, <5>1 DEF PhaseOK, AtKey
      <4>2. BeginIntent(r)
        BY <1>13, <4>1 DEF Advances
      <4>3. intentActions \in [Op -> [Key -> IntentColumns]]
        BY DEF IInv, TablesOK, StoreTypeOK
      <4>4. QED
        BY <1>1, <1>7, <1>8, <4>1, <4>2, <4>3 DEF BeginIntent, BeginBatch
    <3>3. QED
      BY <3>1, <3>2
  <2>5. QED
    BY <2>1, <2>3, <2>4
<1>14. CASE Closes(r)
  BY <1>2, <1>14 DEF Closes, InZone, AtKey
<1>15. QED
  BY <1>10, <1>11, <1>12, <1>13, <1>14 DEF Event

\* The step of anybody else begins nothing for the request.
LEMMA OthersDeletions ==
    ASSUME IInv, ExecInv, ChangeInv, DeletionInv, [Next]_vars,
           NEW r \in Req, ~Event(r), req'[r] = req[r]
    PROVE  AsPlanned(r)' /\ DoneOrAhead(r)'
<1> DEFINE o == OpOf[r]
<1>1. o \in Op /\ AsPlanned(r) /\ DoneOrAhead(r)
  BY RequestArguments DEF DeletionInv
<1>2. PruneKeys(r)' = PruneKeys(r) /\ \A k \in Key : KeyZone(k)' = KeyZone(k)
  BY DEF PruneKeys, DesiredKeys, KeyZone
<1>3. \A k \in PruneKeys(r) : k \in Key
  BY DEF PruneKeys
<1>4. ASSUME req[r].pc \in InZone, NEW k \in Key, mutationIntents'[o][k] # "absent"
      PROVE  mutationIntents[o][k] # "absent"
  <2>1. ASSUME NEW q \in Req, Event(q) PROVE mutationIntents[o][k] # "absent"
    <3>1. CASE UNCHANGED mutationIntents
      BY <1>4, <3>1
    <3>2. CASE Advances(q) /\ req[q].pc \in Executing /\ OpOf[q] \in Op /\ req[q].key \in Key
      <4>1. req[r].pc \in Executing /\ q # r
        BY <1>4, <2>1 DEF InZone, AtKey, Executing
      <4>2. OpOf[q] # o
        BY <3>2, <4>1 DEF ExecInv, SingleExecution
      <4>3. mutationIntents'[o][k] = mutationIntents[o][k]
        BY <1>1, <3>2, <4>2, AdvanceEffect
      <4>4. QED
        BY <1>4, <4>3
    <3>3. QED
      BY <2>1, <3>1, <3>2, IntentMoves
  <2>2. ASSUME NEW p \in Op, NEW j \in Key, OperatorStep(p, j)
        PROVE  mutationIntents[o][k] # "absent"
    <3>1. /\ <<o, k>> # <<p, j>> => mutationIntents'[o][k] = mutationIntents[o][k]
          /\ mutationIntents[p][j] = "indeterminate"
      BY <1>1, <2>2, DecisionEffect
    <3>2. CASE <<o, k>> # <<p, j>>
      BY <1>4, <3>1, <3>2
    <3>3. CASE o = p /\ k = j
      BY <3>1, <3>3
    <3>4. QED
      BY <3>2, <3>3
  <2>3. (\E p \in Op, j \in Key : Answers(p, j)) \/ Around => UNCHANGED mutationIntents
    BY DEF Answers, Around, tables
  <2>4. QED
    BY <1>4, <2>1, <2>2, <2>3, StepsHappen DEF Happens
<1>5. AsPlanned(r)'
  <2>1. ASSUME req[r].pc \in InZone, NEW k \in PruneKeys(r), KeyZone(k) = req[r].zone,
               mutationIntents'[o][k] # "absent"
        PROVE  intentActions'[o][k] = [action |-> "delete", target |-> req[r].owned[k].id]
    BY <1>1, <1>3, <1>4, <2>1, ColumnsStay DEF AsPlanned
  <2>2. QED
    BY <1>2, <1>3, <2>1 DEF AsPlanned
<1>6. DoneOrAhead(r)'
  <2>1. \A k \in PruneKeys(r) : Gone(k, req[r].owned[k].id) => GoneThen(k, req[r].owned[k].id)
    BY <1>3, GoneStays
  <2>2. QED
    BY <1>1, <1>2, <1>3, <2>1 DEF DoneOrAhead, Gone, GoneThen, NewId
<1>7. QED
  BY <1>5, <1>6

LEMMA DeletionNext ==
    IInv /\ ExecInv /\ ChangeInv /\ ZoneInv /\ SeenInv /\ DeletionInv /\ [Next]_vars
        => DeletionInv'
<1> SUFFICES ASSUME IInv, ExecInv, ChangeInv, ZoneInv, SeenInv, DeletionInv, [Next]_vars
             PROVE  DeletionInv'
  OBVIOUS
<1>1. IdsOK' /\ DeletedOK'
  BY IdsNext, DeletedNext DEF DeletionInv
<1>2. ASSUME NEW r \in Req, ~Event(r) PROVE req'[r] = req[r]
  BY <1>2, StepsHappen, OperatorStepTables DEF Happens, Event, Answers, Around
<1>3. \A r \in Req : AsPlanned(r)' /\ DoneOrAhead(r)'
  BY <1>2, OwnDeletions, OthersDeletions
<1>4. QED
  BY <1>1, <1>3 DEF DeletionInv

LEMMA DeletionInit == Init => DeletionInv
<1> SUFFICES ASSUME Init PROVE DeletionInv
  OBVIOUS
<1>1. IdsOK
  BY IdAssumption, StoreAssumption DEF Init, IdsOK
<1>2. DeletedOK
  BY DEF Init, DeletedOK
<1>3. \A r \in Req : req[r].pc \notin InZone
  BY DEF Init, Fresh, InZone, AtKey
<1>4. QED
  BY <1>1, <1>2, <1>3 DEF DeletionInv, AsPlanned, DoneOrAhead

LEMMA DeletionsHold == Spec => []DeletionInv
BY DeletionInit, DeletionNext, IInvHolds, ChangesHold, ZonesHold, SeenHolds, PTL DEF Spec

\* A request that finishes a zone leaves no record there that it planned to delete,
\* over any number of operations, requests and faults, also when the records are
\* edited by hand and operators decide carelessly (executeZone, finishZone).
THEOREM FinishedDeletes == Spec => []FinishDeletesAll
<1>1. DeletionInv => FinishDeletesAll
  BY DEF DeletionInv, DoneOrAhead, FinishDeletesAll, Gone, InZone
<1>2. QED
  BY <1>1, DeletionsHold, PTL
=============================================================================
