------------------------------- MODULE Market -------------------------------
(***************************************************************************)
(* A market-data worker (om_market.c) fed with the records of an engine's  *)
(* log, and the application that publishes what changed to a subscriber.   *)
(*                                                                         *)
(* Workers share nothing, so the module has one: a private worker, which   *)
(* keeps for every subscription (organisation, product) what the dealable  *)
(* callback lets that organisation see, or a public one, which shows the   *)
(* whole book of a product.  A channel is a private subscription or a      *)
(* public product.  One thread processes records and publishes.            *)
(***************************************************************************)
EXTENDS Ladder, SequencesExt, FiniteSetsExt

CONSTANT Desks      \* the configurations a worker may be created for

(* subs is config->subs and on_worker the organisations that org_to_worker *)
(* gives to this worker.  orgs own the orders, and limit is what the       *)
(* dealable callback answers for a viewer, one of on_worker.  crossed      *)
(* allows orders of both sides at one price.  max_copy is the room of the  *)
(* buffer deltas are copied to.  flush tells whether anything is           *)
(* published.  max_orders bounds the orders of the feed.                   *)
ASSUME MarketAssumption ==
    /\ \A d \in Desks :
          d \in [kind : {"private", "public"}, products : SUBSET Nat,
                 subs : Seq([org : Nat, product : Nat]), on_worker : SUBSET Nat,
                 orgs : SUBSET Nat, limit : [d.on_worker -> Nat], sides : SUBSET Sides,
                 prices : SUBSET Nat, volumes : SUBSET (Nat \ {0}),
                 fills : SUBSET (Nat \ {0}), crossed : BOOLEAN,
                 max_orders : Nat, sleeps : BOOLEAN, max_copy : Nat \ {0},
                 flush : BOOLEAN]
    /\ \A d \in Desks : \A i, j \in DOMAIN d.subs : d.subs[i] = d.subs[j] => i = j

VARIABLES
    desk,       \* the configuration of this worker
    w,          \* the worker
    err,        \* the error a record was answered with; the feed ends with it
    made,       \* the number of orders inserted so far; the last id
    live,       \* the orders that rest in the engine's book
    asleep,     \* the deactivated orders
    waking,     \* those of them that are being activated
    got         \* what the subscriber of every channel believes

vars == <<desk, w, err, made, live, asleep, waking, got>>

Private == desk.kind = "private"

(* om_market_init: the subscriptions of the worker, in their order; the    *)
(* index of a subscription is that of its ladder.                          *)
Subs == SelectSeq(desk.subs, LAMBDA s : s.org \in desk.on_worker)
Channels == IF Private THEN DOMAIN Subs ELSE desk.products
HasSubs(p) == \E i \in DOMAIN desk.subs :
                 desk.subs[i].product = p /\ (Private => desk.subs[i].org \in desk.on_worker)
ProductOf(c) == IF Private THEN Subs[c].product ELSE c

(* product_orgs and product_ladder_indices: the channels of a product.     *)
Views(p) == SelectSeq([i \in DOMAIN Subs |-> i], LAMBDA i : Subs[i].product = p)

(* The dealable callback of the application: an organisation does not see  *)
(* its own orders, and at most its limit of another's.                     *)
Dealable(o, viewer) == IF o.org = viewer THEN 0 ELSE desk.limit[viewer]
Least(a, b) == IF a < b THEN a ELSE b

-----------------------------------------------------------------------------
(* om_market_worker_init and om_market_public_worker_init.                 *)
WorkerInit ==
    [slab   |-> SlabInit,
     ladder |-> [p \in desk.products |-> LadderInit],
     orders |-> << >>,
     sets   |-> [p \in desk.products |-> {}],
     deltas |-> [c \in Channels |-> [s \in Sides |-> << >>]],
     dirty  |-> {},
     list   |-> << >>]

(* om_market_ladder_mark_dirty and om_market_public_mark_dirty.            *)
MarkDirty(x, c) ==
    IF c \in x.dirty THEN x
    ELSE [x EXCEPT !.dirty = @ \cup {c},
                   !.list = IF Len(@) < Cardinality(Channels) THEN Append(@, c) ELSE @]

(* om_market_delta_add.  A private entry also keeps the absolute quantity  *)
(* and is linked to the dirty prices of its ladder side.  A refusal leaves *)
(* the entry as it was, or a new one that is zero.                         *)
NoDelta == [delta |-> 0, abs |-> 0, dirty |-> FALSE]
DeltaAdd(map, price, d, tracked) ==
    LET e    == IF price \in DOMAIN map THEN map[price] ELSE NoDelta
        abs  == IF tracked THEN e.abs + d ELSE e.abs
        fits == e.delta + d \in MinInt .. MaxInt /\ abs \in 0 .. MaxUint
    IN  IF d = 0 THEN [rc |-> OK, map |-> map]
        ELSE IF fits
        THEN [rc |-> OK, map |-> Put(map, price, [delta |-> e.delta + d, abs |-> abs, dirty |-> tracked])]
        ELSE [rc |-> OutOfRange, map |-> Put(map, price, e)]

ChangeChannel(x, c, side, price, d) ==
    LET r == DeltaAdd(x.deltas[c][side], price, d, Private)
        y == [x EXCEPT !.deltas[c][side] = r.map]
    IN  [rc |-> r.rc, w |-> IF r.rc = OK THEN MarkDirty(y, c) ELSE y]

(* The fan-out of a record over the views of a product: change is what it  *)
(* means to each viewer.  It ends at the first error, with the channels    *)
(* before it changed.                                                      *)
FanOut(x, o, change) ==
    LET Step(acc, c) ==
            IF acc.rc # OK \/ change[Subs[c].org] = 0 THEN acc
            ELSE ChangeChannel(acc.w, c, o.side, o.price, change[Subs[c].org])
    IN  FoldLeft(Step, [rc |-> OK, w |-> x], Views(o.product))

(* om_market_compute_org_qty, and _om_market_qty_from_dq for a remaining   *)
(* volume that is not yet stored.                                          *)
OrgQty(o, remaining, viewer) ==
    LET cap     == Least(o.vol, Dealable(o, viewer))
        matched == o.vol - remaining
    IN  IF cap > matched THEN cap - matched ELSE 0

-----------------------------------------------------------------------------
(* The operations on the ladder of a product, inside the worker.           *)
Book(x, p) == [slab |-> x.slab, l |-> x.ladder[p]]
SetBook(x, p, b) == [x EXCEPT !.slab = b.slab, !.ladder[p] = b.l]
Add(x, o, q) == LET a == AddQty(Book(x, o.product), o.price, q, o.side)
                IN  [rc |-> a.rc, w |-> SetBook(x, o.product, a.b)]
Sub(x, o, q) == SetBook(x, o.product, SubQty(Book(x, o.product), o.price, q, o.side))

Done(x) == [rc |-> OK, w |-> x]
Fail(x) == [rc |-> OutOfRange, w |-> x]
Known(x, id) == id \in DOMAIN x.orders
Evict(x, id) == [x EXCEPT !.orders = Drop(@, id), !.sets[x.orders[id].product] = @ \ {id}]
State(o) == [product |-> o.product, side |-> o.side, org |-> o.org, price |-> o.price,
             vol |-> o.vol, remaining |-> o.vol, active |-> TRUE]

(* om_market_worker_process, OM_WAL_INSERT.                                *)
WorkerInsert(x, id, o) ==
    LET a == Add(x, o, o.vol)
        y == [a.w EXCEPT !.orders = Put(@, id, State(o)), !.sets[o.product] = @ \cup {id}]
        shown == [v \in desk.on_worker |-> Least(o.vol, Dealable(o, v))]
    IN  IF o.vol > MaxInt THEN Fail(x)
        ELSE IF ~HasSubs(o.product) THEN Done(x)
        ELSE IF a.rc # OK THEN a ELSE FanOut(y, o, shown)

(* OM_WAL_CANCEL and OM_WAL_DEACTIVATE: the fan-out first, while the order *)
(* still has its remaining volume; then the ladder; the order is evicted.  *)
(* Mutant: the ladder loses the volume the order came with.                *)
Mut_WorkerRemove(x, id) ==
    LET o == x.orders[id]
        gone == [v \in desk.on_worker |-> -OrgQty(o, o.remaining, v)]
        f == FanOut(x, o, gone)
    IN  IF ~Known(x, id) THEN Done(x)
        ELSE IF f.rc # OK THEN f ELSE Done(Evict(Sub(f.w, o, o.vol), id))
WorkerRemove(x, id) ==
    LET o == x.orders[id]
        gone == [v \in desk.on_worker |-> -OrgQty(o, o.remaining, v)]
        f == FanOut(x, o, gone)
    IN  IF ~Known(x, id) \/ ~o.active THEN Done(x)
        ELSE IF f.rc # OK THEN f ELSE Done(Evict(Sub(f.w, o, o.remaining), id))

(* OM_WAL_ACTIVATE.                                                        *)
WorkerActivate(x, id) ==
    LET o == x.orders[id]
        a == Add([x EXCEPT !.orders[id].active = TRUE], o, o.remaining)
        back == [v \in desk.on_worker |-> OrgQty(o, o.remaining, v)]
    IN  IF ~Known(x, id) \/ o.active \/ o.remaining = 0 THEN Done(x)
        ELSE IF a.rc # OK THEN a ELSE FanOut(a.w, o, back)

(* OM_WAL_MATCH of a maker.                                                *)
WorkerMatch(x, id, volume) ==
    LET o    == x.orders[id]
        left == o.remaining - Least(volume, o.remaining)
        less == [v \in desk.on_worker |-> OrgQty(o, left, v) - OrgQty(o, o.remaining, v)]
        f    == FanOut(x, o, less)
        y    == [Sub(f.w, o, o.remaining - left) EXCEPT !.orders[id].remaining = left]
    IN  IF volume > MaxInt THEN Fail(x)
        ELSE IF ~Known(x, id) \/ ~o.active \/ o.remaining = 0 THEN Done(x)
        ELSE IF f.rc # OK THEN f ELSE Done(IF left = 0 THEN Evict(y, id) ELSE y)

-----------------------------------------------------------------------------
(* om_market_public_process, OM_WAL_INSERT: the order is recorded before   *)
(* the ladder has accepted it.                                             *)
PublicInsert(x, id, o) ==
    LET a == Add([x EXCEPT !.orders = Put(@, id, State(o))], o, o.vol)
    IN  IF o.vol > MaxInt THEN Fail(x)
        ELSE IF ~HasSubs(o.product) THEN Done(x)
        ELSE IF a.rc # OK THEN a ELSE ChangeChannel(a.w, o.product, o.side, o.price, o.vol)

(* OM_WAL_CANCEL and OM_WAL_DEACTIVATE.                                    *)
PublicRemove(x, id) ==
    LET o == x.orders[id]
        y == [Sub(x, o, o.remaining) EXCEPT !.orders[id].remaining = 0, !.orders[id].active = FALSE]
        c == ChangeChannel(y, o.product, o.side, o.price, -o.remaining)
    IN  IF ~Known(x, id) \/ ~o.active \/ o.remaining = 0 THEN Done(x)
        ELSE IF c.rc # OK THEN c ELSE Done(Evict(c.w, id))

(* OM_WAL_ACTIVATE.                                                        *)
PublicActivate(x, id) ==
    LET o == x.orders[id]
        a == Add(x, o, o.remaining)
    IN  IF ~Known(x, id) \/ o.active \/ o.remaining = 0 THEN Done(x)
        ELSE IF a.rc # OK THEN a
        ELSE ChangeChannel([a.w EXCEPT !.orders[id].active = TRUE],
                           o.product, o.side, o.price, o.remaining)

(* OM_WAL_MATCH of a maker.                                                *)
(* Mutant: an order that is filled is kept.                                *)
Mut_PublicMatch(x, id, volume) ==
    LET o == x.orders[id]
        m == Least(volume, o.remaining)
        y == [Sub(x, o, m) EXCEPT !.orders[id].remaining = @ - m]
    IN  IF ~Known(x, id) THEN Done(x) ELSE ChangeChannel(y, o.product, o.side, o.price, -m)
PublicMatch(x, id, volume) ==
    LET o == x.orders[id]
        m == Least(volume, o.remaining)
        y == [Sub(x, o, m) EXCEPT !.orders[id].remaining = @ - m]
        c == ChangeChannel(y, o.product, o.side, o.price, -m)
    IN  IF volume > MaxInt THEN Fail(x)
        ELSE IF ~Known(x, id) \/ ~o.active \/ o.remaining = 0 THEN Done(x)
        ELSE IF c.rc # OK \/ o.remaining > m THEN c ELSE Done(Evict(c.w, id))

-----------------------------------------------------------------------------
(* The queries.  A quantity of zero stands for OM_ERR_NOT_FOUND.           *)

SumOver(S, f(_)) == FoldSet(LAMBDA e, sum : sum + f(e), 0, S)

(* om_market_worker_get_qty sums over the order set of the product.        *)
WorkerGetQty(x, c, side, price) ==
    LET ids == {id \in x.sets[Subs[c].product] :
                  /\ Known(x, id) /\ x.orders[id].active
                  /\ x.orders[id].side = side /\ x.orders[id].price = price}
    IN  SumOver(ids, LAMBDA id : OrgQty(x.orders[id], x.orders[id].remaining, Subs[c].org))

(* om_market_public_get_qty; the side plays no part.                       *)
PublicGetQty(x, c, side, price) ==
    LET slot == x.ladder[c].slot
    IN  IF price \in DOMAIN slot THEN x.slab.slots[slot[price]].qty ELSE 0

(* om_market_worker_copy_full and om_market_public_copy_full: the prices   *)
(* of Q1 from the best one, those with a quantity for the viewer, at most  *)
(* max of them.  The private quantities are summed from the orders.  delta *)
(* is the quantity as a signed integer.                                    *)
ToInt(q) == IF q > MaxInt THEN q - (MaxUint + 1) ELSE q
CopyFull(x, c, side, max) ==
    LET p      == ProductOf(c)
        chain  == Levels(x.slab.slots, x.ladder[p], side)
        all    == [k \in DOMAIN chain |->
                      LET l == x.slab.slots[chain[k]]
                          q == IF Private THEN WorkerGetQty(x, c, side, l.price) ELSE l.qty
                      IN  [price |-> l.price, delta |-> ToInt(q), abs |-> q]]
        shown  == SelectSeq(all, LAMBDA l : l.abs > 0)
    IN  SubSeq(shown, 1, Least(max, Len(shown)))

(* om_market_worker_delta_count, om_market_worker_copy_deltas and their    *)
(* public twins: all the prices that changed, or an error.                 *)
Changed(x, c, side) ==
    {p \in DOMAIN x.deltas[c][side] : Private => x.deltas[c][side][p].dirty}
CanCopyDeltas(x, c, side) == Cardinality(Changed(x, c, side)) <= desk.max_copy

(* om_market_worker_clear_deltas: a private entry survives with its        *)
(* absolute quantity.  om_market_public_clear_deltas empties the map.      *)
ClearDeltas(x, c, side) ==
    LET m    == x.deltas[c][side]
        keep == {p \in DOMAIN m : ~m[p].dirty \/ m[p].abs # 0}
    IN  IF Private
        THEN [p \in keep |-> IF m[p].dirty THEN [NoDelta EXCEPT !.abs = m[p].abs] ELSE m[p]]
        ELSE << >>

(* om_market_worker_compact_dirty and om_market_public_compact_dirty.      *)
Compact(x) == [x EXCEPT !.list = SelectSeq(@, LAMBDA c : c \in x.dirty)]

-----------------------------------------------------------------------------
Init ==
    /\ desk \in Desks
    /\ w = WorkerInit
    /\ err = OK
    /\ made = 0 /\ live = << >> /\ asleep = << >> /\ waking = {}
    /\ got = [c \in Channels |-> [s \in Sides |-> [p \in desk.prices |-> 0]]]

(* The answer to a record: the glue of the bus hands an error on to the    *)
(* application, which processes nothing further.                           *)
Answer(r) == w' = r.w /\ err' = r.rc

(* Unless the desk says otherwise the orders that rest at one price of a   *)
(* product are all of one side: the map from prices to slots is shared.    *)
MayRest(o) ==
    desk.crossed \/ \A id \in DOMAIN live :
        live[id].product = o.product /\ live[id].price = o.price => live[id].side = o.side

InsertRecord(id, o) ==
    /\ MayRest(o)
    /\ live' = Put(live, id, State(o))
    /\ Answer(IF Private THEN WorkerInsert(w, id, o) ELSE PublicInsert(w, id, o))

(* An order that was not filled at once.                                   *)
Insert ==
    /\ err = OK /\ made < desk.max_orders
    /\ made' = made + 1
    /\ \E o \in [product : desk.products, side : desk.sides, org : desk.orgs,
                price : desk.prices, vol : desk.volumes] : InsertRecord(made + 1, o)
    /\ UNCHANGED <<desk, asleep, waking, got>>

(* A trade of a resting order.                                             *)
Match(id, v) ==
    /\ err = OK /\ v <= live[id].remaining
    /\ live' = IF v = live[id].remaining THEN Drop(live, id)
               ELSE [live EXCEPT ![id].remaining = @ - v]
    /\ Answer(IF Private THEN WorkerMatch(w, id, v) ELSE PublicMatch(w, id, v))
    /\ UNCHANGED <<desk, made, asleep, waking, got>>

RemoveRecord(id) == Answer(IF Private THEN WorkerRemove(w, id) ELSE PublicRemove(w, id))

(* The engine cancels resting and deactivated orders.                      *)
Cancel(id) ==
    /\ err = OK /\ id \notin waking
    /\ live' = Drop(live, id) /\ asleep' = Drop(asleep, id)
    /\ RemoveRecord(id)
    /\ UNCHANGED <<desk, made, waking, got>>

Deactivate(id) ==
    /\ err = OK /\ desk.sleeps
    /\ live' = Drop(live, id) /\ asleep' = Put(asleep, id, live[id])
    /\ RemoveRecord(id)
    /\ UNCHANGED <<desk, made, waking, got>>

(* An activation is logged, then the order trades and what is left of it   *)
(* is inserted under its old id.                                           *)
Activate(id) ==
    /\ err = OK /\ id \notin waking
    /\ waking' = waking \cup {id}
    /\ Answer(IF Private THEN WorkerActivate(w, id) ELSE PublicActivate(w, id))
    /\ UNCHANGED <<desk, made, live, asleep, got>>

Wake(id) ==
    /\ err = OK /\ id \in waking
    /\ waking' = waking \ {id} /\ asleep' = Drop(asleep, id)
    /\ \/ \E v \in 1 .. asleep[id].remaining : InsertRecord(id, [asleep[id] EXCEPT !.vol = v])
       \/ UNCHANGED <<w, err, live>>
    /\ UNCHANGED <<desk, made, got>>

(* What the subscriber of a channel makes of a delta or of a full copy.    *)
AfterDeltas(c, s) ==
    [p \in desk.prices |->
        got[c][s][p] + (IF p \in Changed(w, c, s) THEN w.deltas[c][s][p].delta ELSE 0)]
AfterFull(c, s) ==
    LET full == CopyFull(w, c, s, Cardinality(desk.prices))
    IN  [p \in desk.prices |->
            IF \E k \in DOMAIN full : full[k].price = p
            THEN full[CHOOSE k \in DOMAIN full : full[k].price = p].abs ELSE 0]

(* The clearing of what was published: the deltas of both sides and the    *)
(* dirty flag.                                                             *)
(* Mutant: only the bids are cleared.                                      *)
Mut_Publish(x, S) ==
    [x EXCEPT !.deltas = [c \in Channels |-> [s \in Sides |->
                             IF c \in S /\ s = "bid" THEN ClearDeltas(x, c, s)
                             ELSE x.deltas[c][s]]],
              !.dirty = @ \ S]
Publish(x, S) ==
    [x EXCEPT !.deltas = [c \in Channels |-> [s \in Sides |->
                             IF c \in S THEN ClearDeltas(x, c, s) ELSE x.deltas[c][s]]],
              !.dirty = @ \ S]

(* A flush as om_market.h describes it: the work list is compacted, then   *)
(* the publisher walks along it, and publishes deltas or full copies.      *)
Flush ==
    LET x      == Compact(w)
        listed == ToSet(x.list) \cap x.dirty
    IN  /\ err = OK /\ desk.flush
        /\ \E S \in SUBSET listed \ {{}} :
              /\ \/ /\ \A c \in S, s \in Sides : CanCopyDeltas(x, c, s)
                    /\ got' = [c \in Channels |->
                                  IF c \in S THEN [s \in Sides |-> AfterDeltas(c, s)] ELSE got[c]]
                 \/ got' = [c \in Channels |->
                               IF c \in S THEN [s \in Sides |-> AfterFull(c, s)] ELSE got[c]]
              /\ w' = Publish(x, S)
        /\ UNCHANGED <<desk, err, made, live, asleep, waking>>

Next ==
    \/ Insert
    \/ \E id \in DOMAIN live : (\E v \in desk.fills : Match(id, v)) \/ Deactivate(id)
    \/ \E id \in DOMAIN live \cup DOMAIN asleep : Cancel(id)
    \/ \E id \in DOMAIN asleep : Activate(id) \/ Wake(id)
    \/ Flush

Spec == Init /\ [][Next]_vars

-----------------------------------------------------------------------------
(* The quantity the subscriber of a channel should see at a price.         *)
Expected(c, side, price) ==
    SumOver({id \in DOMAIN live : live[id].product = ProductOf(c) /\ HasSubs(live[id].product)
                                  /\ live[id].side = side /\ live[id].price = price},
            LAMBDA id : IF Private THEN OrgQty(live[id], live[id].remaining, Subs[c].org)
                        ELSE live[id].remaining)

Orders == [product : desk.products, side : Sides, org : desk.orgs, price : desk.prices,
           vol : Nat, remaining : Nat, active : BOOLEAN]

(* The variables have their types; a slot is one of the slab's, a channel  *)
(* one of the worker's.                                                    *)
TypeOK ==
    /\ desk \in Desks /\ err \in {OK, OutOfRange}
    /\ \A o \in {live[id] : id \in DOMAIN live} \cup {asleep[id] : id \in DOMAIN asleep}
              \cup {w.orders[id] : id \in DOMAIN w.orders} : o \in Orders
    /\ waking \subseteq DOMAIN asleep
    /\ w.dirty \subseteq Channels /\ ToSet(w.list) \subseteq Channels
    /\ Len(w.list) <= Cardinality(Channels)
    /\ \A c \in Channels, s \in Sides : \A p \in DOMAIN w.deltas[c][s] :
          w.deltas[c][s][p] \in [delta : MinInt .. MaxInt, abs : 0 .. MaxUint, dirty : BOOLEAN]

(* The ladder of a product is its orders (om_ladder_add_qty, _sub_qty,     *)
(* _link_after, _unlink): Q1 lists the prices of the worker's orders from  *)
(* the best to the worst with the sum of what remains of them, its links,  *)
(* ends, count and hint agree, and the price map finds every level.  A     *)
(* private worker keeps this when the fan-out of a record fails half way;  *)
(* a public one may have recorded an order the ladder refused.             *)
LadderIsOrders ==
    Private \/ err = OK =>
    \A p \in desk.products, side \in Sides :
        LET l      == w.ladder[p]
            s      == l.side[side]
            chain  == Levels(w.slab.slots, l, side)
            level(k) == w.slab.slots[chain[k]]
            At(price) == {id \in DOMAIN w.orders : w.orders[id].product = p
                             /\ w.orders[id].side = side /\ w.orders[id].price = price}
        IN  /\ {level(k).price : k \in DOMAIN chain} = {price \in desk.prices : At(price) # {}}
            /\ \A k \in DOMAIN chain :
                  /\ level(k).qty = SumOver(At(level(k).price), LAMBDA id : w.orders[id].remaining)
                  /\ level(k).prev = IF k = 1 THEN NoSlot ELSE chain[k - 1]
                  /\ k > 1 => Better(side, level(k - 1).price, level(k).price)
                  /\ level(k).price \in DOMAIN l.slot /\ l.slot[level(k).price] = chain[k]
            /\ s.count = Len(chain)
            /\ s.tail = IF chain = << >> THEN NoSlot ELSE Last(chain)
            /\ IF chain = << >> THEN s.hint = NoSlot ELSE s.hint \in ToSet(chain)
            /\ Cardinality(DOMAIN l.slot) = l.side["bid"].count + l.side["ask"].count

(* A slot of the slab is on the free list or in one ladder, never both and *)
(* never twice, also after the slab has grown (om_market_slab_alloc,       *)
(* _grow, _free); and no sum of a channel leaves the range of its integer. *)
SlotsOwned ==
    LET chains == [k \in desk.products \X Sides |->
                      ToSet(Levels(w.slab.slots, w.ladder[k[1]], k[2]))]
    IN  /\ TypeOK
        /\ IsInjective(w.slab.free)
        /\ ToSet(w.slab.free) \cup UNION {chains[k] : k \in DOMAIN chains} = DOMAIN w.slab.slots
        /\ \A k \in DOMAIN chains : chains[k] \cap ToSet(w.slab.free) = {}
        /\ \A k, m \in DOMAIN chains : k # m => chains[k] \cap chains[m] = {}

(* The worker tracks exactly the orders that rest in the book in products  *)
(* it has subscriptions for, with what remains of them: no fill, cancel,   *)
(* deactivation or wake-up under the old id leaves one behind or revives   *)
(* it (the evictions of om_market_worker_process and _public_process).     *)
OrdersAreLive ==
    err = OK =>
        LET tracked == {id \in DOMAIN live : HasSubs(live[id].product)}
        IN  /\ w.orders = [id \in tracked |-> live[id]]
            /\ Private => \A p \in desk.products :
                              w.sets[p] = {id \in tracked : live[id].product = p}

(* The queries show the book as the viewer may see it: get_qty at every    *)
(* price, copy_full the best prices first and as many as fit, and the      *)
(* absolute quantity kept with the deltas, which is maintained by          *)
(* differences, equals the sum over the orders.  (The public get_qty only  *)
(* where the other side has nothing at the price, see PublicQtyBySide.)    *)
ViewExact ==
    err = OK => \A c \in Channels, side \in Sides :
        LET shown == {p \in desk.prices : Expected(c, side, p) > 0}
            best  == SetToSortSeq(shown, LAMBDA p, q : Better(side, p, q))
        IN  /\ \A p \in desk.prices :
                 LET qty == Expected(c, side, p)
                 IN  IF Private
                     THEN /\ WorkerGetQty(w, c, side, p) = qty
                          /\ qty = IF p \in DOMAIN w.deltas[c][side]
                                   THEN w.deltas[c][side][p].abs ELSE 0
                     ELSE (\A s \in Sides \ {side} : Expected(c, s, p) = 0)
                          => PublicGetQty(w, c, side, p) = qty
            /\ \A max \in 1 .. Cardinality(desk.prices) :
                 CopyFull(w, c, side, max) =
                    [k \in 1 .. Least(max, Len(best)) |->
                        LET qty == Expected(c, side, best[k])
                        IN  [price |-> best[k], delta |-> ToInt(qty), abs |-> qty]]

(* om_market_public_get_qty finds what a side of the book has at a price,  *)
(* and nothing where that side has nothing.                                *)
PublicQtyBySide ==
    err = OK /\ ~Private => \A c \in Channels, side \in Sides, p \in desk.prices :
        PublicGetQty(w, c, side, p) = Expected(c, side, p)

(* What a subscriber has, with the deltas that are still to be published,  *)
(* is the view: nothing is published twice or lost over any order of       *)
(* deltas, full copies and records (om_market_delta_add, clear_deltas).    *)
SubscriberExact ==
    err = OK => \A c \in Channels, side \in Sides, p \in desk.prices :
        AfterDeltas(c, side)[p] = Expected(c, side, p)

(* A channel with something to publish is marked dirty and is on the work  *)
(* list (om_market_ladder_mark_dirty), so the next flush reaches it:       *)
(* entries that earlier flushes left behind are harmless.                  *)
DirtyListed ==
    err = OK => /\ \A c \in Channels : (\E s \in Sides : Changed(w, c, s) # {}) => c \in w.dirty
                /\ w.dirty \subseteq ToSet(w.list)
=============================================================================
