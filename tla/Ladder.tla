------------------------------- MODULE Ladder -------------------------------
(***************************************************************************)
(* The price ladders of the market-data workers and the slab of levels     *)
(* they share (om_market.c), as operators on plain values.                 *)
(*                                                                         *)
(* A slab is [slots, free]: the levels, each with its price, quantity and  *)
(* Q1 links, and the free list Q0, which is pushed and popped at its head  *)
(* and extended at its tail.  A ladder has, for each side, the ends of its *)
(* Q1 list, the number of levels and the slot the last insertion left as a *)
(* hint, and one map from prices to slots that serves both sides.          *)
(* An operation that can fail returns rc, OK or the error, with the state  *)
(* it leaves behind.                                                       *)
(***************************************************************************)
EXTENDS Integers, Sequences, FiniteSets

CONSTANTS
    SlabCapacity,   \* slots of a new slab; the code allots at least 64
    MinGrowth,      \* the least number of slots a slab grows by, 64 in the code
    MaxInt          \* INT64_MAX

ASSUME LadderAssumption ==
    SlabCapacity \in Nat \ {0} /\ MinGrowth \in Nat \ {0} /\ MaxInt \in Nat \ {0}

Sides   == {"bid", "ask"}
NoSlot  == -1                   \* OM_MARKET_SLOT_NULL
MinInt  == -MaxInt - 1          \* INT64_MIN
MaxUint == 2 * MaxInt + 1       \* UINT64_MAX
OK == "OK"                      \* 0
OutOfRange == "OUT_OF_RANGE"    \* OM_ERR_OUT_OF_RANGE

Better(side, p, q) == IF side = "bid" THEN p > q ELSE p < q
Put(f, k, v) == [x \in DOMAIN f \cup {k} |-> IF x = k THEN v ELSE f[x]]
Drop(f, k)   == [x \in DOMAIN f \ {k} |-> f[x]]

-----------------------------------------------------------------------------
(* om_market_slab_init, _alloc, _grow, _free.                              *)

BlankLevel == [price |-> 0, qty |-> 0, next |-> NoSlot, prev |-> NoSlot]
SlabInit ==
    [slots |-> [i \in 0 .. SlabCapacity - 1 |-> BlankLevel],
     free  |-> [i \in 1 .. SlabCapacity |-> i - 1]]

SlabGrow(s) ==
    LET old == Cardinality(DOMAIN s.slots)
        new == IF 2 * old < old + MinGrowth THEN old + MinGrowth ELSE 2 * old
    IN  [slots |-> [i \in 0 .. new - 1 |-> IF i < old THEN s.slots[i] ELSE BlankLevel],
         free  |-> s.free \o [i \in 1 .. new - old |-> old + i - 1]]

(* om_market_slab_alloc of a slab that is not full, with the level filled  *)
(* in by its caller.                                                       *)
SlabAlloc(s, price, qty) ==
    [slots |-> [s.slots EXCEPT ![Head(s.free)] = [BlankLevel EXCEPT !.price = price, !.qty = qty]],
     free  |-> Tail(s.free)]

(* Mutant: the slot goes to the tail of Q0 without leaving its old place.  *)
Mut_SlabFree(s, i) == [s EXCEPT !.free = <<i>> \o @ \o <<i>>]
SlabFree(s, i) == [s EXCEPT !.free = <<i>> \o @]

-----------------------------------------------------------------------------
NoLevels == [head |-> NoSlot, tail |-> NoSlot, count |-> 0, hint |-> NoSlot]
LadderInit == [side |-> [x \in Sides |-> NoLevels], slot |-> << >>]

(* The walks of om_ladder_find_insert_pos along the links of Q1.           *)
RECURSIVE WalkUp(_, _, _, _), WalkDown(_, _, _, _)
WalkUp(slots, i, price, side) ==
    IF i = NoSlot \/ ~Better(side, price, slots[i].price) THEN i
    ELSE WalkUp(slots, slots[i].prev, price, side)
WalkDown(slots, i, price, side) ==
    LET next == slots[i].next
    IN  IF next = NoSlot \/ Better(side, price, slots[next].price) THEN i
        ELSE WalkDown(slots, next, price, side)

(* om_ladder_find_insert_pos: the slot after which the price belongs, or   *)
(* NoSlot for the head.                                                    *)
(* Mutant: from the hint the search only goes down.                        *)
Mut_FindInsertPos(slots, l, price, side) ==
    LET s == l.side[side]
    IN  IF s.head = NoSlot \/ Better(side, price, slots[s.head].price) THEN NoSlot
        ELSE IF ~Better(side, price, slots[s.tail].price) THEN s.tail
        ELSE WalkDown(slots, s.hint, price, side)
FindInsertPos(slots, l, price, side) ==
    LET s    == l.side[side]
        from == IF s.hint # NoSlot THEN WalkUp(slots, s.hint, price, side) ELSE s.head
    IN  IF s.head = NoSlot \/ Better(side, price, slots[s.head].price) THEN NoSlot
        ELSE IF s.tail # NoSlot /\ ~Better(side, price, slots[s.tail].price) THEN s.tail
        ELSE IF from = NoSlot THEN NoSlot ELSE WalkDown(slots, from, price, side)

(* om_ladder_link_after.                                                   *)
LinkAfter(slots, l, i, after, side) ==
    LET s    == l.side[side]
        next == IF after = NoSlot THEN s.head ELSE slots[after].next
        at   == [slots EXCEPT ![i].prev = after, ![i].next = next]
        back == IF next = NoSlot THEN at ELSE [at EXCEPT ![next].prev = i]
    IN  [slots |-> IF after = NoSlot THEN back ELSE [back EXCEPT ![after].next = i],
         l |-> [l EXCEPT !.side[side] =
                   [head  |-> IF after = NoSlot THEN i ELSE s.head,
                    tail  |-> IF next = NoSlot THEN i ELSE s.tail,
                    count |-> s.count + 1, hint |-> i]]]

(* om_ladder_unlink.  The hint moves to a neighbour.                       *)
Unlink(slots, l, i, side) ==
    LET s == l.side[side]
        p == slots[i].prev
        n == slots[i].next
        a == IF p = NoSlot THEN slots ELSE [slots EXCEPT ![p].next = n]
        b == IF n = NoSlot THEN a ELSE [a EXCEPT ![n].prev = p]
    IN  [slots |-> [b EXCEPT ![i].prev = NoSlot, ![i].next = NoSlot],
         l |-> [l EXCEPT !.side[side] =
                   [head  |-> IF p = NoSlot THEN n ELSE s.head,
                    tail  |-> IF n = NoSlot THEN p ELSE s.tail,
                    count |-> s.count - 1,
                    hint  |-> IF s.count = 1 THEN NoSlot
                              ELSE IF s.hint = i THEN (IF p # NoSlot THEN p ELSE n)
                              ELSE s.hint]]]

-----------------------------------------------------------------------------
(* om_ladder_add_qty and om_ladder_sub_qty, on [slab, l].                  *)

AddQty(b, price, qty, side) ==
    IF qty = 0 THEN [rc |-> OK, b |-> b]
    ELSE IF price \in DOMAIN b.l.slot
    THEN LET i == b.l.slot[price]
         IN  IF MaxUint - b.slab.slots[i].qty < qty THEN [rc |-> OutOfRange, b |-> b]
             ELSE [rc |-> OK, b |-> [b EXCEPT !.slab.slots[i].qty = @ + qty]]
    ELSE LET room  == IF b.slab.free = << >> THEN SlabGrow(b.slab) ELSE b.slab
             i     == Head(room.free)
             s     == SlabAlloc(room, price, qty)
             l     == [b.l EXCEPT !.slot = Put(@, price, i)]
             after == FindInsertPos(s.slots, l, price, side)
             k     == LinkAfter(s.slots, l, i, after, side)
         IN  [rc |-> OK, b |-> [slab |-> [s EXCEPT !.slots = k.slots], l |-> k.l]]

(* A price that is not in the ladder is not an error.  The caller's side   *)
(* decides which list the level is taken from.                             *)
SubQty(b, price, qty, side) ==
    IF qty = 0 \/ price \notin DOMAIN b.l.slot THEN b
    ELSE LET i == b.l.slot[price]
         IN  IF qty < b.slab.slots[i].qty THEN [b EXCEPT !.slab.slots[i].qty = @ - qty]
             ELSE LET k == Unlink(b.slab.slots, b.l, i, side)
                  IN  [slab |-> SlabFree([b.slab EXCEPT !.slots = k.slots], i),
                       l    |-> [k.l EXCEPT !.slot = Drop(@, price)]]

(* The slots of a side in the order of Q1, best price first.               *)
RECURSIVE ChainFrom(_, _)
ChainFrom(slots, i) == IF i = NoSlot THEN << >> ELSE <<i>> \o ChainFrom(slots, slots[i].next)
Levels(slots, l, side) == ChainFrom(slots, l.side[side].head)
=============================================================================
