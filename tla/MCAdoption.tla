----------------------------- MODULE MCAdoption -----------------------------
(* Scenarios for TLC: adoptions beside apply requests.                      *)
EXTENDS Adoption

\* Operations and keys are model values: they are compared with numbers and pairs.
CONSTANTS o1, o2, o3, k1, k2, k3, u1, u2

Once(r) == CASE r = "q1" -> "t1" [] r = "q2" -> "t2" [] r = "q3" -> "t3"
OneRepo == [o \in Op |-> "a"]
OwnToken == [r \in Req |-> Once(r)]
OwnOp == [r \in Req |-> CASE r = "q1" -> o1 [] r = "q2" -> o2 [] r = "q3" -> o3]
Owners == [k \in Key |-> IF k \in Unmanaged THEN "nobody" ELSE "a"]
OldContent == [k \in Key |-> "c0"]

(* Two keys wanted for one record, an update and a pruning of what is       *)
(* adopted, and an update in a set that also holds an unmanaged record.     *)
ZoneOfEach == [s \in RecordSet |-> IF s = "s1" THEN "z1" ELSE "z2"]
SetOfEach == [k \in Key |-> IF k \in {k3, u2} THEN "s2" ELSE "s1"]
Updates ==
    [o \in Op |-> [k \in Key |-> IF <<o, k>> \in {<<o1, k1>>, <<o3, k3>>}
                                 THEN "c1" ELSE NoContent]]
Prunes == [o \in Op |-> IF o = o2 THEN {"z1"} ELSE {}]
KeysForOne == {<<k1, u1>>, <<k2, u1>>}

(* Two records of one set, each with its own key.                           *)
OneZone == [s \in RecordSet |-> "z1"]
OneSet == [k \in Key |-> "s1"]
NoPrune == [o \in Op |-> {}]
KeyForEach == {<<k1, u1>>, <<k2, u2>>}
=============================================================================
