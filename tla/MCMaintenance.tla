--------------------------- MODULE MCMaintenance ---------------------------
(* A slot delivered twice while a run creates a record in one zone and      *)
(* somebody edits the managed record of another.                            *)
EXTENDS MCFlareForm, Maintenance, TLC

\* Deliveries are model values, and interchangeable.
CONSTANTS d1, d2

CreateSecond ==
    [o \in Op |-> [k \in Key |-> IF k = k3 THEN "c1" ELSE NoContent]]
SameSlot == [d \in Delivery |-> "daily"]
Deliveries == Permutations(Delivery)
TokensExpired == [s \in Slot |-> Token]
=============================================================================
