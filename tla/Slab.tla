-------------------------------- MODULE Slab --------------------------------
(***************************************************************************)
(* The dual slab allocator and the intrusive queues threaded through its   *)
(* slots (om_slab.c, om_slab.h), as operators on plain values.             *)
(*                                                                         *)
(* A queue is a function q from slots to the pair of links of that queue.  *)
(* The two free lists are sequences with the head first: they are only     *)
(* ever pushed and popped there.                                           *)
(***************************************************************************)
EXTENDS Integers, Sequences

CONSTANT TotalSlots      \* config.total_slots

ASSUME SlabAssumption == TotalSlots \in Nat \ {0}

Slots  == 0 .. TotalSlots - 1
Null   == -1             \* OM_SLOT_IDX_NULL
NoLink == [next |-> Null, prev |-> Null]
Unlinked == [s \in Slots |-> NoLink]

(* om_slab_init: the last slot is at the head of both free lists.          *)
InitFree == [i \in 1 .. TotalSlots |-> TotalSlots - i]

(* om_slab_alloc takes the head of both lists, and refuses when they       *)
(* disagree.                                                               *)
CanAlloc(free_a, free_b) ==
    free_a # << >> /\ free_b # << >> /\ Head(free_a) = Head(free_b)

-----------------------------------------------------------------------------
(* om_queue_link_after, om_queue_link_before and om_queue_unlink.  The     *)
(* stores are made in the order of the code, which matters when a slot is  *)
(* linked to itself.                                                       *)

LinkAfter(q, prev, s) ==
    LET next   == q[prev].next
        linked == [q EXCEPT ![s] = [next |-> next, prev |-> prev], ![prev].next = s]
    IN  IF next = Null THEN linked ELSE [linked EXCEPT ![next].prev = s]

LinkBefore(q, next, s) ==
    LET prev   == q[next].prev
        linked == [q EXCEPT ![s] = [next |-> next, prev |-> prev], ![next].prev = s]
    IN  IF prev = Null THEN linked ELSE [linked EXCEPT ![prev].next = s]

Unlink(q, s) ==
    LET next == q[s].next
        prev == q[s].prev
        left == IF prev = Null THEN q ELSE [q EXCEPT ![prev].next = next]
        both == IF next = Null THEN left ELSE [left EXCEPT ![next].prev = prev]
    IN  [both EXCEPT ![s] = NoLink]

(* Where a walk from s along the next links is after n links; Null once it *)
(* has ended.                                                              *)
Reached(q, s) ==
    LET at[n \in 0 .. TotalSlots] ==
            IF n = 0 THEN s ELSE IF at[n - 1] = Null THEN Null ELSE q[at[n - 1]].next
    IN  at

(* The slots such a walk passes, s first.                                  *)
Chain(q, s) ==
    LET at == Reached(q, s)
    IN  SelectSeq([n \in 1 .. TotalSlots + 1 |-> at[n - 1]], LAMBDA x : x # Null)
=============================================================================
