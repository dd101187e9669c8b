---------------------------- MODULE BroadcastLog ----------------------------
(***************************************************************************)
(* What the market ring promises its users, without slots, laps or cached  *)
(* minima: a log of the records 1, 2, 3, ... that every reader takes in    *)
(* full and in order, of which at most size records are kept for a reader  *)
(* that has not given them back.                                           *)
(***************************************************************************)
EXTENDS Integers, Sequences

CONSTANTS Readers, Sizes

VARIABLES
    size,        \* how many records are kept, fixed
    published,   \* the records published so far
    taken,       \* what each reader has taken
    freed        \* how many records each reader has given back

vars == <<size, published, taken, freed>>

Init ==
    /\ size \in Sizes /\ published = 0
    /\ taken = [c \in Readers |-> << >>] /\ freed = [c \in Readers |-> 0]

Publish ==
    /\ \A c \in Readers : published - freed[c] < size
    /\ published' = published + 1
    /\ UNCHANGED <<size, taken, freed>>

Take(c) ==
    /\ Len(taken[c]) < published
    /\ taken' = [taken EXCEPT ![c] = Append(@, Len(@) + 1)]
    /\ UNCHANGED <<size, published, freed>>

(* A reader gives back what it has taken, one record or a batch.           *)
Free(c) ==
    /\ freed' = [freed EXCEPT ![c] = Len(taken[c])]
    /\ UNCHANGED <<size, published, taken>>

Next == Publish \/ \E c \in Readers : Take(c) \/ Free(c)
Spec == Init /\ [][Next]_vars
=============================================================================
