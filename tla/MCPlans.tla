------------------------------ MODULE MCPlans ------------------------------
(* Two jobs of one workflow run apply the same manifest, which keeps one    *)
(* record of a set and prunes another, while somebody edits the records.    *)
EXTENDS MCFlareForm, Plans, TLC

\* Clients, their requests and tokens are model values: p, a and r are the plan,
\* the apply and the retry of a client.
CONSTANTS c1, c2, p1, p2, a1, a2, r1, r2, t1, t2, t3, t4, t5, t6

KeepDesired ==
    [o \in Op |-> [k \in Key |-> IF k = k1 THEN "c0" ELSE NoContent]]
Jobs(f, g) == [c \in Client |-> IF c = c1 THEN f ELSE g]
PlanReqs == Jobs(p1, p2)
ApplyReqs == Jobs(a1, a2)
RetryReqs == Jobs(r1, r2)
JobOpOf == [r \in Req |-> IF r \in {p1, p2} THEN o2 ELSE o1]
JobToken == [r \in Req |-> CASE r = p1 -> t1 [] r = a1 -> t2 [] r = r1 -> t3
                             [] r = p2 -> t4 [] r = a2 -> t5 [] r = r2 -> t6]

\* The two jobs are interchangeable.
Swapped == (c1 :> c2 @@ c2 :> c1 @@ p1 :> p2 @@ p2 :> p1 @@ a1 :> a2 @@ a2 :> a1
            @@ r1 :> r2 @@ r2 :> r1 @@ t1 :> t4 @@ t4 :> t1 @@ t2 :> t5 @@ t5 :> t2
            @@ t3 :> t6 @@ t6 :> t3)
Twin == {Swapped, [x \in DOMAIN Swapped |-> x]}
=============================================================================
