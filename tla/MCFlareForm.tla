---------------------------- MODULE MCFlareForm ----------------------------
(* Scenarios for TLC: small instances of FlareForm's constants, by name.    *)
EXTENDS FlareForm

\* Operations and keys are model values: they are compared with numbers and pairs.
CONSTANTS o1, o2, o3, k1, k2, k3

Once(r) == CASE r = "q1" -> "t1" [] r = "q2" -> "t2" [] r = "q3" -> "t3"
Nothing == [k \in Key |-> NoContent]
NoPrune == [o \in Op |-> {}]
OneRepo == [o \in Op |-> "a"]
OneOwner == [k \in Key |-> "a"]
OneZone == [s \in RecordSet |-> "z1"]
OneSet == [k \in Key |-> "s1"]
OwnSet == [k \in Key |-> CASE k = k1 -> "s1" [] k = k2 -> "s2"
                             [] k = k3 -> "s3"]
TwoZones == [s \in RecordSet |-> IF s = "s3" THEN "z2" ELSE "z1"]
OldContent == [k \in Key |-> "c0"]
OwnToken == [r \in Req |-> Once(r)]

(* Race: two runs want different values for the same record, and a replay   *)
(* of the second one's request.                                             *)
RaceDesired == [o \in Op |-> [k \in Key |-> IF o = o1 THEN "c1" ELSE "c2"]]
RaceOpOf == [r \in Req |-> IF r = "q1" THEN o1 ELSE o2]
RaceTokenOf == [r \in Req |-> IF r = "q1" THEN "t1" ELSE "t2"]

(* Zones: one run over two zones, creating and updating in the first and    *)
(* creating in the second, and its retry.                                   *)
ZonesDesired == [o \in Op |-> [k \in Key |-> "c1"]]
ZonesOpOf == [r \in Req |-> o1]

(* Owners: two repositories create in one record set, and the first of them *)
(* has another run that prunes it.                                          *)
OwnersRepoOf == [o \in Op |-> IF o = o2 THEN "b" ELSE "a"]
OwnersOwnerOf == [k \in Key |-> IF k = k2 THEN "b" ELSE "a"]
OwnersDesired ==
    [o \in Op |-> [k \in Key |-> IF <<o, k>> \in {<<o1, k1>>, <<o2, k2>>}
                                 THEN "c1" ELSE NoContent]]
OwnersPrune == [o \in Op |-> IF o = o3 THEN {"z1"} ELSE {}]
OwnersOpOf == [r \in Req |-> CASE r = "q1" -> o1 [] r = "q2" -> o2
                               [] r = "q3" -> o3]

(* Replace: a run that replaces the one record of a set of several by        *)
(* another, under a new key.                                                 *)
ReplaceDesired ==
    [o \in Op |-> [k \in Key |-> IF k = k2 THEN "c1" ELSE NoContent]]
SetPrune == [o \in Op |-> {"z1"}]

(* Live: two runs with record sets of their own in one zone.                *)
LiveDesired ==
    [o \in Op |-> [k \in Key |-> IF (o = o1) = (k # k3) THEN "c1"
                                 ELSE NoContent]]
LiveOpOf == [r \in Req |-> IF r = "q1" THEN o1 ELSE o2]

(* Twins: two runs that create the same new key in a set of several.        *)
TwinsDesired ==
    [o \in Op |-> [k \in Key |-> CASE k = k1 -> NoContent
                                   [] k # k1 /\ o = o1 -> "c1"
                                   [] k # k1 /\ o # o1 -> "c2"]]
=============================================================================
