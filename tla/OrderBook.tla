----------------------------- MODULE OrderBook -----------------------------
(***************************************************************************)
(* The order book (orderbook.c): price levels, time queues, organisation   *)
(* queues and the order index, as operators that turn one book into        *)
(* another.                                                                *)
(*                                                                         *)
(* A book is a record of the fields of OmOrderbookContext and of its slab: *)
(*   ord       the order stored in each slot; a freed slot keeps its order *)
(*   q1 q2 q3  the price ladder, time FIFO and organisation links          *)
(*   head      bid_head_q1 and ask_head_q1 of each product                 *)
(*   tree      the slot at the head of each price level (the AVL tree)     *)
(*   known     known_org of the price node of each slot                    *)
(*   org_head  the head of each organisation queue                         *)
(*   hash      order_hashmap: order id to slot and product                 *)
(*   free_a free_b next_id   the slab                                      *)
(***************************************************************************)
EXTENDS Slab

CONSTANTS
    MaxProducts,    \* max_products
    MaxOrg,         \* max_org
    Prices          \* the prices an order may carry

ASSUME BookAssumption ==
    MaxProducts \in Nat \ {0} /\ MaxOrg \in Nat \ {0} /\ Prices \subseteq Nat \ {0}

Products == 0 .. MaxProducts - 1
Orgs     == 0 .. MaxOrg - 1
Sides == {"bid", "ask"}
Other(side) == IF side = "bid" THEN "ask" ELSE "bid"
Books == Products \X Sides          \* <<product, side>>, one ladder each
Mixed == -1                         \* UINT32_MAX in known_org

NoOrder == [id |-> 0, org |-> 0, side |-> "bid", price |-> 0,
            volume |-> 0, remain |-> 0, deactivated |-> FALSE]
NoEntry == [id \in {} |-> [slot |-> Null, product |-> 0]]

(* om_orderbook_init.                                                      *)
InitBook ==
    [ord |-> [s \in Slots |-> NoOrder],
     q1 |-> Unlinked, q2 |-> Unlinked, q3 |-> Unlinked,
     head |-> [k \in Books |-> Null],
     tree |-> [k \in Books |-> [x \in Prices |-> Null]],
     known |-> [s \in Slots |-> 0],
     org_head |-> [x \in Products \X Orgs |-> Null],
     hash |-> NoEntry,
     free_a |-> InitFree, free_b |-> InitFree, next_id |-> 1]

InHash(b, id) == id \in DOMAIN b.hash
HashPut(b, id, s, p) ==
    [b EXCEPT !.hash = [i \in DOMAIN @ \cup {id} |->
                           IF i = id THEN [slot |-> s, product |-> p] ELSE @[i]]]
HashRemove(b, id) == [b EXCEPT !.hash = [i \in DOMAIN @ \ {id} |-> @[i]]]
BookOf(b, p, s) == <<p, b.ord[s].side>>

(* om_slab_alloc, with the fields its caller fills in, and om_slab_free.   *)
AllocSlot(b, o) ==
    LET s == Head(b.free_a)
    IN  [b EXCEPT !.ord[s] = o, !.free_a = Tail(@), !.free_b = Tail(@),
                  !.q1[s] = NoLink, !.q2[s] = NoLink, !.q3[s] = NoLink]
FreeSlot(b, s) ==
    [b EXCEPT !.free_a = <<s>> \o @, !.free_b = <<s>> \o @,
              !.q1[s] = NoLink, !.q2[s] = NoLink, !.q3[s] = NoLink]

-----------------------------------------------------------------------------
(* Price levels.                                                           *)

Better(side, x, y) == IF side = "bid" THEN x > y ELSE x < y

(* find_price_level_with_insertion_point: the head of the level, or Null.  *)
BeyondBest(b, k, price) ==
    b.head[k] = Null \/ Better(k[2], price, b.ord[b.head[k]].price)
FindLevel(b, k, price) == IF BeyondBest(b, k, price) THEN Null ELSE b.tree[k][price]

(* Its out parameter: the head of the closest better level, Null to insert *)
(* at the front.                                                           *)
InsertAfter(b, k, price) ==
    LET better == {x \in Prices : b.tree[k][x] # Null /\ Better(k[2], x, price)}
    IN  IF BeyondBest(b, k, price) \/ better = {} THEN Null
        ELSE b.tree[k][CHOOSE x \in better : \A y \in better : ~Better(k[2], x, y)]

(* insert_order_at and price_add: the order becomes a level of its own.    *)
AddLevel(b, k, s) ==
    LET after == InsertAfter(b, k, b.ord[s].price)
        best  == b.head[k]
        fresh == [b.q1 EXCEPT ![s] = NoLink]
    IN  [b EXCEPT
           !.q1 = IF after # Null THEN LinkAfter(fresh, after, s)
                  ELSE IF best # Null
                  THEN [fresh EXCEPT ![s].next = best, ![best].prev = s] ELSE fresh,
           !.head[k] = IF after = Null THEN s ELSE @,
           !.tree[k][b.ord[s].price] = s,
           !.known[s] = b.ord[s].org,
           !.q2[s] = NoLink]

(* Mutant: the order is linked behind the head.                            *)
Mut_AppendBehindHead(b, h, s) ==
    [b EXCEPT !.q2 = [LinkAfter(@, h, s) EXCEPT ![h].prev = s],
              !.known[h] = IF @ = b.ord[s].org THEN @ ELSE Mixed]

(* append_to_time_queue: the head's prev link holds the tail of the level. *)
AppendToLevel(b, h, s) ==
    LET tail == IF b.q2[h].prev = Null THEN h ELSE b.q2[h].prev
    IN  [b EXCEPT !.q2 = [LinkAfter(@, tail, s) EXCEPT ![h].prev = s],
                  !.known[h] = IF @ = b.ord[s].org THEN @ ELSE Mixed]

(* remove_price_level: the level's only order leaves.                      *)
RemoveLevel(b, k, h) ==
    [b EXCEPT !.head[k] = IF @ = h THEN b.q1[h].next ELSE @,
              !.tree[k][b.ord[h].price] = Null,
              !.q1 = Unlink(@, h)]

(* The head of a level leaves and the next order takes its place in the    *)
(* ladder, in the tree (price_promote) and as the keeper of the tail.      *)
PromoteNext(b, k, h, n) ==
    LET after == b.q2[n].next
        up    == b.q1[h].prev
        down  == b.q1[h].next
        fifo  == [b.q2 EXCEPT ![n].prev = IF after = Null THEN Null ELSE b.q2[h].prev]
        fixed == IF after = Null THEN fifo ELSE [fifo EXCEPT ![after].prev = n]
        moved == [b.q1 EXCEPT ![n] = b.q1[h]]
        above == IF up = Null THEN moved ELSE [moved EXCEPT ![up].next = n]
        below == IF down = Null THEN above ELSE [above EXCEPT ![down].prev = n]
    IN  [b EXCEPT !.q1 = [below EXCEPT ![h] = NoLink],
                  !.q2 = [fixed EXCEPT ![h] = NoLink],
                  !.head[k] = IF @ = h THEN n ELSE @,
                  !.tree[k] = [[@ EXCEPT ![b.ord[h].price] = Null] EXCEPT ![b.ord[n].price] = n],
                  !.known[n] = b.known[h]]

(* Mutant: the tail index at the head is not maintained.                   *)
Mut_LeaveLevel(b, h, s) == [b EXCEPT !.q2 = Unlink(@, s)]

(* An order that is not the head leaves its level.                         *)
LeaveLevel(b, h, s) ==
    LET next == b.q2[s].next
        prev == b.q2[s].prev
        left == Unlink(b.q2, s)
    IN  [b EXCEPT !.q2 = IF next # Null THEN left
                         ELSE [left EXCEPT ![h].prev = IF prev = h THEN Null ELSE prev]]

(* What om_orderbook_cancel, _remove_slot and _unlink_slot do to Q1 and Q2 *)
(* once the order's level has been found.                                  *)
HasLevel(b, p, s) == FindLevel(b, BookOf(b, p, s), b.ord[s].price) # Null
Detach(b, p, s) ==
    LET k == BookOf(b, p, s)
        h == FindLevel(b, k, b.ord[s].price)
    IN  IF s # h THEN LeaveLevel(b, h, s)
        ELSE IF b.q2[s].next = Null THEN RemoveLevel(b, k, h)
        ELSE PromoteNext(b, k, h, b.q2[s].next)

-----------------------------------------------------------------------------
(* Organisation queues.                                                    *)

JoinOrg(b, p, s) ==
    LET o == <<p, b.ord[s].org>>
        h == b.org_head[o]
    IN  [b EXCEPT !.q3 = IF h = Null THEN [@ EXCEPT ![s] = NoLink] ELSE LinkBefore(@, h, s),
                  !.org_head[o] = s]
LeaveOrg(b, p, s) ==
    [b EXCEPT !.org_head[<<p, b.ord[s].org>>] = IF @ = s THEN b.q3[s].next ELSE @,
              !.q3 = Unlink(@, s)]

-----------------------------------------------------------------------------
(* The operations.  Each returns the book it leaves behind; the log record *)
(* that goes with it is written by the caller.                             *)

(* om_orderbook_insert.                                                    *)
CanInsert(b, s) == b.ord[s].id # 0 /\ ~InHash(b, b.ord[s].id)
InsertOrder(b, p, s) ==
    LET k == BookOf(b, p, s)
        h == FindLevel(b, k, b.ord[s].price)
        c == HashPut(b, b.ord[s].id, s, p)
    IN  JoinOrg(IF h = Null THEN AddLevel(c, k, s) ELSE AppendToLevel(c, h, s), p, s)

(* om_orderbook_cancel.  Without a level it changes nothing.               *)
CancelOrder(b, id) ==
    LET s == b.hash[id].slot
        p == b.hash[id].product
    IN  IF ~HasLevel(b, p, s) THEN b
        ELSE FreeSlot(HashRemove(LeaveOrg(Detach(b, p, s), p, s), id), s)

(* om_orderbook_remove_slot: the same, but org_heads is left alone.        *)
RemoveSlot(b, p, s) ==
    IF ~HasLevel(b, p, s) THEN b
    ELSE LET c == Detach(b, p, s)
         IN  FreeSlot(HashRemove([c EXCEPT !.q3 = Unlink(@, s)], b.ord[s].id), s)

(* Mutant: a deactivated order stays in the queue of its organisation.     *)
Mut_UnlinkSlot(b, p, s) == IF HasLevel(b, p, s) THEN Detach(b, p, s) ELSE b

(* om_orderbook_unlink_slot: the order keeps its slot and its index entry. *)
UnlinkSlot(b, p, s) == IF HasLevel(b, p, s) THEN LeaveOrg(Detach(b, p, s), p, s) ELSE b

(* om_orderbook_first_other_org: the first order of the level that is not  *)
(* org's, and the book with what the search learned in known_org.          *)
FirstOther(b, h, org) ==
    LET at     == Reached(b.q2, h)
        others == {n \in 0 .. TotalSlots : at[n] # Null /\ b.ord[at[n]].org # org}
    IN  IF b.known[h] # Mixed THEN (IF b.known[h] = org THEN Null ELSE h)
        ELSE IF others = {} THEN Null
        ELSE at[CHOOSE n \in others : \A m \in others : n <= m]
LearnOrg(b, h, org) ==
    IF FirstOther(b, h, org) = Null THEN [b EXCEPT !.known[h] = org] ELSE b

(* om_orderbook_get_best_head.                                             *)
BestHead(b, k) == b.head[k]
=============================================================================
