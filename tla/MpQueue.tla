------------------------------ MODULE MpQueue ------------------------------
(***************************************************************************)
(* What OmBusMP promises its users, without slots or laps: a bounded queue *)
(* of claims.  A claim takes the next position while fewer than Capacity   *)
(* are outstanding, is committed at most once, and positions leave in      *)
(* order: a committed one as a record, an uncommitted one as skipped.      *)
(***************************************************************************)
EXTENDS Integers

CONSTANT Capacity

VARIABLES
    head,    \* the oldest position not yet consumed
    tail,    \* the next position to be claimed
    ready    \* the committed positions among head .. tail - 1

vars == <<head, tail, ready>>

Init == head = 0 /\ tail = 0 /\ ready = {}

Claim ==
    /\ tail < head + Capacity
    /\ tail' = tail + 1
    /\ UNCHANGED <<head, ready>>

Commit ==
    /\ \E k \in (head .. tail - 1) \ ready : ready' = ready \cup {k}
    /\ UNCHANGED <<head, tail>>

Deliver ==
    /\ head \in ready
    /\ head' = head + 1
    /\ ready' = ready \ {head}
    /\ UNCHANGED tail

Skip ==
    /\ head < tail /\ head \notin ready
    /\ head' = head + 1
    /\ UNCHANGED <<tail, ready>>

Next == Claim \/ Commit \/ Deliver \/ Skip
Spec == Init /\ [][Next]_vars
=============================================================================
