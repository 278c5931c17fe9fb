--------------------------- MODULE RecordSetLease ---------------------------
(***************************************************************************)
(* What the mutation path promises, without tables, triggers or requests:  *)
(* an operation takes all its record sets at once or none, and takes them  *)
(* once; it sends each change at most once, while it holds the change's    *)
(* record set and has nothing else open in the zone; and it gives the sets *)
(* of a zone back together, when nothing it sent there is still open.      *)
(***************************************************************************)
CONSTANTS Op, Zone, RecordSet, Key, ZoneOf, SetOf, NoOp

VARIABLES
    holder,   \* the operation each record set is leased to
    admitted, \* operations that took their leases
    sent,     \* changes sent to the provider
    open      \* sent changes whose outcome is not settled

Init ==
    /\ holder = [s \in RecordSet |-> NoOp]
    /\ admitted = {} /\ sent = {} /\ open = {}

Acquire(o, sets) ==
    /\ o \notin admitted
    /\ \A s \in sets : holder[s] = NoOp
    /\ holder' = [s \in RecordSet |-> IF s \in sets THEN o ELSE holder[s]]
    /\ admitted' = admitted \cup {o}
    /\ UNCHANGED <<sent, open>>

OpenIn(o, z, changes) ==
    {c \in changes : c[1] = o /\ ZoneOf[SetOf[c[2]]] = z}

Send(o, k) ==
    /\ holder[SetOf[k]] = o
    /\ <<o, k>> \notin sent
    /\ OpenIn(o, ZoneOf[SetOf[k]], open) = {}
    /\ sent' = sent \cup {<<o, k>>}
    /\ open' = open \cup {<<o, k>>}
    /\ UNCHANGED <<holder, admitted>>

Released(o, z) == [s \in RecordSet |-> IF holder[s] = o /\ ZoneOf[s] = z
                                       THEN NoOp ELSE holder[s]]

\* The outcome becomes known; an operator may release the zone with it.
Settle(o, k) ==
    /\ <<o, k>> \in open
    /\ open' = open \ {<<o, k>>}
    /\ \/ UNCHANGED holder
       \/ /\ OpenIn(o, ZoneOf[SetOf[k]], open') = {}
          /\ holder' = Released(o, ZoneOf[SetOf[k]])
    /\ UNCHANGED <<admitted, sent>>

Release(o, z) ==
    /\ OpenIn(o, z, open) = {}
    /\ holder' = Released(o, z)
    /\ UNCHANGED <<admitted, sent, open>>

Next ==
    \/ \E o \in Op, sets \in SUBSET RecordSet : Acquire(o, sets)
    \/ \E o \in Op, k \in Key : Send(o, k) \/ Settle(o, k)
    \/ \E o \in Op, z \in Zone : Release(o, z)

LeaseSpec == Init /\ [][Next]_<<holder, admitted, sent, open>>
=============================================================================
