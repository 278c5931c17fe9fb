------------------------------- MODULE MCOidc -------------------------------
(* Callers of verify in one isolate around the rotation of a key; and, for   *)
(* all policies of two grants over short names, what an identity that verify *)
(* returns may write.                                                        *)
EXTENDS Oidc, Namespace

\* Callers are model values, and interchangeable.
CONSTANTS v1, v2
Callers == Permutations(Verifier)

ShortNames == UNION {[1..n -> {"a", "b"}] : n \in 1..3}
ServiceNames == {<<"_s", "_tcp">> \o name : name \in ShortNames}
ShortGrants ==
    [owner: {"x", "y"}, zone: {<<"a">>, <<"b", "a">>}, kind: {"exact", "descendants"},
     root: {name \in ShortNames : Len(name) < 3 /\ Last(name) = "a"}, types: {{"A", "SRV"}}]
ShortPolicies ==
    {[zones |-> zones, enabled |-> zones, active |-> {"x", "y"}, grants |-> {g, h}] :
        zones \in {{<<"a">>}, {<<"a">>, <<"b", "a">>}}, g, h \in ShortGrants}

\* No record is anybody else's (the theorem OneOwner of Namespace_proofs), and
\* some records are somebody's.
ASSUME OneOwnerOfShortNames ==
    /\ \A policy \in ShortPolicies : ValidPolicy(policy) =>
          \A name \in ShortNames \cup ServiceNames :
             LET type == IF name \in ShortNames THEN "A" ELSE "SRV"
             IN  ~(Authorized(policy, "x", name, type) /\ Authorized(policy, "y", name, type))
    /\ \E policy \in ShortPolicies :
          /\ ValidPolicy(policy)
          /\ Authorized(policy, "x", <<"_s", "_tcp", "b", "b", "a">>, "SRV")
          /\ Authorized(policy, "y", <<"a", "a">>, "A")
=============================================================================
