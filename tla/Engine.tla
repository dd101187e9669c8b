------------------------------- MODULE Engine -------------------------------
(***************************************************************************)
(* The matching engine (om_engine.c) on top of the order book, with the    *)
(* write-ahead log it appends to and the callbacks it makes.               *)
(*                                                                         *)
(* The engine is single threaded.  A call is split into the iterations of  *)
(* its loops, each an action, because the loops carry slot indices from    *)
(* one iteration to the next while the book changes under them.  eng holds *)
(* the call in progress and its local variables; the next call starts when *)
(* eng is Idle.                                                            *)
(***************************************************************************)
EXTENDS BookRecovery, FiniteSetsExt

CONSTANT Clients     \* the clients an engine may be created for

Answers == {"full", "one", "none", "cancel_maker", "cancel_both", "decrement_cancel"}
AllOps  == {"match", "match_excluding_org", "cancel", "cancel_deactivated", "book_cancel",
            "deactivate", "activate", "cancel_org_product", "cancel_org_all",
            "cancel_product_side", "cancel_product",
            "book_cancel_product_side", "book_cancel_product"}

ASSUME EngineAssumption ==
    Clients \subseteq [products   : SUBSET Products,
                       orgs       : SUBSET Orgs,
                       prices     : SUBSET Prices,
                       volumes    : SUBSET (Nat \ {0}),
                       can_match  : SUBSET Answers,
                       pre_booked : SUBSET BOOLEAN,
                       ops        : SUBSET AllOps,
                       wal_fails  : BOOLEAN,
                       max_orders : Nat,
                       max_log    : Nat]

VARIABLES
    client,     \* the client this engine was created for
    book,       \* the order book and its slab
    wal,        \* the log: its records, and whether a write has failed
    eng,        \* the call in progress
    notified    \* the ids of the orders on_cancel was called with

vars == <<client, book, wal, eng, notified>>

(* The locals of a call.  taker, exclude, level, next, maker are those of  *)
(* engine_match; the cancel loops use level, next and maker as cursors and *)
(* todo for the products or sides still to do, and notify tells the cancel *)
(* loop of the engine from that of the order book.  passed holds the       *)
(* makers can_match answered 0 for.                                        *)
Idle == [pc |-> "idle", product |-> 0, org |-> 0, taker |-> Null, exclude |-> FALSE,
         activating |-> FALSE, level |-> Null, next |-> Null, maker |-> Null,
         todo |-> << >>, notify |-> FALSE, passed |-> {}]

(* A client submits orders of its products, organisations, prices and      *)
(* volumes, makes the calls in ops, and gives one of these answers in its  *)
(* callbacks.  max_orders bounds the orders it submits, max_log the log at *)
(* which it starts a call.                                                 *)
CanMatch   == client.can_match
PreBooked  == client.pre_booked
Ops        == client.ops
WalMayFail == client.wal_fails
MaxOrders  == client.max_orders

Init ==
    /\ client \in Clients
    /\ book = InitBook
    /\ wal = [recs |-> << >>, failed |-> FALSE]
    /\ eng = Idle
    /\ notified = {}

-----------------------------------------------------------------------------
(* A write to the log, which may fail and after a failure always does      *)
(* (om_wal keeps last_error).                                              *)
WriteOk(rec) ==
    /\ ~wal.failed
    /\ wal' = [wal EXCEPT !.recs = Append(@, rec)]
WriteFails ==
    /\ WalMayFail
    /\ wal' = [wal EXCEPT !.failed = TRUE]

Taker    == book.ord[eng.taker]
Maker    == book.ord[eng.maker]
NextMaker == book.q2[eng.maker].next
MakerSide == Other(Taker.side)
Active(b) == {id \in DOMAIN b.hash : ~b.ord[b.hash[id].slot].deactivated}
CanStart(op) == eng.pc = "idle" /\ op \in Ops /\ Len(wal.recs) < client.max_log

(* The call to engine_match begins: the walk starts at the best level of   *)
(* the other side.                                                         *)
MatchCall(b, p, s, exclude, activating) ==
    [Idle EXCEPT !.pc = "level", !.product = p, !.taker = s, !.exclude = exclude,
                 !.activating = activating,
                 !.level = BestHead(b, <<p, Other(b.ord[s].side)>>)]

(* Mutant: an activated order is freed even when it was booked again.      *)
Mut_MatchReturns(b, rc, booked) ==
    /\ eng' = Idle
    /\ book' = IF (eng.activating /\ rc = 0) \/ (~eng.activating /\ ~booked)
               THEN FreeSlot(b, eng.taker) ELSE b

(* engine_match returns.  The caller of om_engine_match frees a taker that *)
(* was not booked; om_engine_activate frees it only when it was filled.    *)
MatchReturns(b, rc, booked) ==
    /\ eng' = Idle
    /\ book' = IF (eng.activating /\ rc = 0 /\ b.ord[eng.taker].remain = 0)
                   \/ (~eng.activating /\ ~booked)
               THEN FreeSlot(b, eng.taker) ELSE b

(* A client takes a slot and an id, fills in an order and has it matched.  *)
Submit(p, org, side, price, volume, exclude) ==
    LET s == Head(book.free_a)
        o == [id |-> book.next_id, org |-> org, side |-> side, price |-> price,
              volume |-> volume, remain |-> volume, deactivated |-> FALSE]
        b == [AllocSlot(book, o) EXCEPT !.next_id = @ + 1]
    IN  /\ CanStart(IF exclude THEN "match_excluding_org" ELSE "match")
        /\ book.next_id <= MaxOrders
        /\ CanAlloc(book.free_a, book.free_b)
        /\ book' = b
        /\ eng' = MatchCall(b, p, s, exclude, FALSE)
        /\ UNCHANGED <<wal, notified>>

Crosses(side, price, level_price) ==
    IF side = "bid" THEN price >= level_price ELSE price <= level_price

LevelCrosses ==
    eng.level # Null /\ Crosses(Taker.side, Taker.price, book.ord[eng.level].price)

(* The head of the loop over levels.  An excluding match asks the level's  *)
(* summary where to begin.                                                 *)
EnterLevel ==
    /\ eng.pc = "level" /\ LevelCrosses
    /\ LET own == eng.exclude /\ book.ord[eng.level].org = Taker.org
       IN  /\ eng' = [eng EXCEPT !.pc = "maker", !.next = book.q1[eng.level].next,
                        !.maker = IF own THEN FirstOther(book, eng.level, Taker.org) ELSE eng.level]
           /\ book' = IF own THEN LearnOrg(book, eng.level, Taker.org) ELSE book
    /\ UNCHANGED <<wal, notified>>

NoMoreLevels ==
    /\ eng.pc = "level"
    /\ ~LevelCrosses
    /\ eng' = [eng EXCEPT !.pc = "book"]
    /\ UNCHANGED <<book, wal, notified>>

(* Mutant: the walk stays at the level it has finished.                    *)
Mut_LevelDone ==
    /\ eng.pc = "maker" /\ eng.maker = Null /\ Taker.remain > 0
    /\ eng' = [eng EXCEPT !.pc = "level"]
    /\ UNCHANGED <<book, wal, notified>>

LevelDone ==
    /\ eng.pc = "maker" /\ eng.maker = Null /\ Taker.remain > 0
    /\ eng' = [eng EXCEPT !.pc = "level", !.level = eng.next]
    /\ UNCHANGED <<book, wal, notified>>

(* The loop over the makers of a level, one action per branch.             *)
AtMaker == eng.pc = "maker" /\ eng.maker # Null /\ Taker.remain > 0
Eligible == AtMaker /\ ~(eng.exclude /\ Maker.org = Taker.org)

SkipOwnOrg ==
    /\ AtMaker /\ eng.exclude /\ Maker.org = Taker.org
    /\ eng' = [eng EXCEPT !.maker = NextMaker]
    /\ UNCHANGED <<book, wal, notified>>

(* Mutant: a refusal ends the level.                                       *)
Mut_PassOver ==
    /\ Eligible /\ "none" \in CanMatch
    /\ eng' = [eng EXCEPT !.maker = Null, !.passed = @ \cup {Maker.id}]
    /\ UNCHANGED <<book, wal, notified>>

PassOver ==
    /\ Eligible /\ "none" \in CanMatch
    /\ eng' = [eng EXCEPT !.maker = NextMaker, !.passed = @ \cup {Maker.id}]
    /\ UNCHANGED <<book, wal, notified>>

(* Mutant: the taker is not charged for a trade that fills the maker.      *)
Mut_Reduce(v) ==
    IF Maker.remain = v
    THEN /\ book' = RemoveSlot([book EXCEPT !.ord[eng.maker].remain = 0], eng.product, eng.maker)
         /\ eng' = [eng EXCEPT !.maker = NextMaker]
    ELSE /\ book' = [book EXCEPT !.ord[eng.maker].remain = @ - v, !.ord[eng.taker].remain = @ - v]
         /\ UNCHANGED eng

(* Both sides are reduced; a maker with nothing left leaves the book.      *)
Reduce(v) ==
    LET b == [book EXCEPT !.ord[eng.maker].remain = @ - v, !.ord[eng.taker].remain = @ - v]
    IN  IF Maker.remain = v
        THEN /\ book' = RemoveSlot(b, eng.product, eng.maker)
             /\ eng' = [eng EXCEPT !.maker = NextMaker]
        ELSE book' = b /\ UNCHANGED eng

Matchable == Min({Maker.remain, Taker.remain})

Deal(answer) ==
    LET v == IF answer = "one" THEN 1 ELSE Matchable
    IN  /\ Eligible /\ answer \in CanMatch
        /\ WriteOk(MatchRec(Maker.id, Taker.id, v))
        /\ Reduce(v)
        /\ UNCHANGED notified

(* Self-trade prevention by decrement is logged as a MATCH.                *)
DecrementCancel ==
    /\ Eligible /\ "decrement_cancel" \in CanMatch
    /\ WriteOk(MatchRec(Maker.id, Taker.id, Matchable))
    /\ Reduce(Matchable)
    /\ UNCHANGED notified

CancelMaker(both) ==
    LET b == RemoveSlot(book, eng.product, eng.maker)
    IN  /\ Eligible /\ (IF both THEN "cancel_both" ELSE "cancel_maker") \in CanMatch
        /\ WriteOk(CancelRec(Maker.id))
        /\ notified' = notified \cup {Maker.id}
        /\ eng' = [eng EXCEPT !.maker = NextMaker]
        /\ book' = IF both THEN [b EXCEPT !.ord[eng.taker].remain = 0] ELSE b

(* The log refuses the record of any of the branches above.                *)
MatchWalFails ==
    /\ Eligible /\ CanMatch # {"none"}
    /\ WriteFails
    /\ MatchReturns(book, -1, FALSE)
    /\ UNCHANGED notified

TakerDone ==
    /\ eng.pc = "maker" /\ Taker.remain = 0
    /\ MatchReturns(book, 0, FALSE)
    /\ UNCHANGED <<wal, notified>>

(* What is left of the taker is booked, unless pre_booked refuses.         *)
RefuseBooking ==
    /\ eng.pc = "book" /\ FALSE \in PreBooked
    /\ notified' = notified \cup {Taker.id}
    /\ MatchReturns(book, 0, FALSE)
    /\ UNCHANGED wal

BookTaker ==
    /\ eng.pc = "book" /\ TRUE \in PreBooked
    /\ CanInsert(book, eng.taker)
    /\ \/ /\ WriteOk(InsertRec(Taker, eng.product))
          /\ MatchReturns(InsertOrder(book, eng.product, eng.taker), 0, TRUE)
       \/ /\ WriteFails
          /\ MatchReturns(book, -1, FALSE)
    /\ UNCHANGED notified

-----------------------------------------------------------------------------
(* Single orders.                                                          *)

CancelAllowed(id) == id \in Active(book) \/ "cancel_deactivated" \in Ops

(* om_engine_cancel.                                                       *)
Cancel(id) ==
    LET e == book.hash[id]
    IN  /\ CanStart("cancel") /\ InHash(book, id) /\ CancelAllowed(id)
        /\ \/ /\ WriteOk(CancelRec(id))
              /\ notified' = notified \cup {id}
              /\ book' = RemoveSlot(book, e.product, e.slot)
           \/ WriteFails /\ UNCHANGED <<book, notified>>
        /\ UNCHANGED eng

(* om_orderbook_cancel, with its log record.                               *)
LoggedCancel(id) ==
    \/ /\ InHash(book, id)
       /\ \/ WriteOk(CancelRec(id)) /\ book' = CancelOrder(book, id)
          \/ WriteFails /\ UNCHANGED book
    \/ ~InHash(book, id) /\ UNCHANGED <<book, wal>>

BookCancel(id) ==
    /\ CanStart("book_cancel") /\ InHash(book, id) /\ CancelAllowed(id)
    /\ LoggedCancel(id)
    /\ UNCHANGED <<eng, notified>>

(* om_engine_deactivate.                                                   *)
Deactivate(id) ==
    LET e == book.hash[id]
    IN  /\ CanStart("deactivate") /\ id \in Active(book)
        /\ \/ /\ WriteOk(DeactivateRec(id))
              /\ book' = IF HasLevel(book, e.product, e.slot)
                         THEN [UnlinkSlot(book, e.product, e.slot)
                                  EXCEPT !.ord[e.slot].deactivated = TRUE]
                         ELSE book
           \/ WriteFails /\ UNCHANGED book
        /\ UNCHANGED <<eng, notified>>

(* om_engine_activate, up to its call of om_engine_match.                  *)
Activate(id) ==
    LET e == book.hash[id]
        b == [HashRemove(book, id) EXCEPT !.ord[e.slot].deactivated = FALSE]
    IN  /\ CanStart("activate") /\ InHash(book, id) /\ id \notin Active(book)
        /\ \/ /\ WriteOk(ActivateRec(id))
              /\ book' = b
              /\ eng' = MatchCall(b, e.product, e.slot, FALSE, TRUE)
           \/ WriteFails /\ UNCHANGED <<book, eng>>
        /\ UNCHANGED notified

-----------------------------------------------------------------------------
(* Mass cancels.                                                           *)

(* om_orderbook_cancel_org_product, and _cancel_org_all over all products. *)
CancelOrg(products, org) ==
    /\ eng' = [Idle EXCEPT !.pc = "org", !.org = org, !.product = Head(products),
                           !.maker = book.org_head[<<Head(products), org>>],
                           !.todo = Tail(products)]
    /\ UNCHANGED <<book, wal, notified>>
CancelOrgProduct(p, org) == CanStart("cancel_org_product") /\ CancelOrg(<<p>>, org)
CancelOrgAll(org) ==
    CanStart("cancel_org_all") /\ CancelOrg([i \in 1 .. MaxProducts |-> i - 1], org)

(* Mutant: the next link is read after the cancel has cleared it.          *)
Mut_CancelOrgStep ==
    /\ eng.pc = "org" /\ eng.maker # Null
    /\ LoggedCancel(Maker.id)
    /\ eng' = [eng EXCEPT !.maker = book'.q3[eng.maker].next]
    /\ UNCHANGED notified

CancelOrgStep ==
    /\ eng.pc = "org" /\ eng.maker # Null
    /\ LoggedCancel(Maker.id)
    /\ eng' = [eng EXCEPT !.maker = book.q3[eng.maker].next]
    /\ UNCHANGED notified
CancelOrgNext ==
    /\ eng.pc = "org" /\ eng.maker = Null
    /\ eng' = IF eng.todo = << >> THEN Idle
              ELSE [eng EXCEPT !.product = Head(eng.todo), !.todo = Tail(@),
                               !.maker = book.org_head[<<Head(eng.todo), eng.org>>]]
    /\ UNCHANGED <<book, wal, notified>>

(* om_engine_cancel_product_side, and _cancel_product: bids, then asks.    *)
(* The calls of the same name in the order book report nothing.            *)
CancelSides(p, sides, notify) ==
    /\ eng' = [Idle EXCEPT !.pc = "side", !.product = p, !.todo = Tail(sides), !.notify = notify,
                           !.next = book.head[<<p, Head(sides)>>]]
    /\ UNCHANGED <<book, wal, notified>>
CancelProductSide(p, side) ==
    CanStart("cancel_product_side") /\ CancelSides(p, <<side>>, TRUE)
CancelProduct(p) ==
    CanStart("cancel_product") /\ CancelSides(p, <<"bid", "ask">>, TRUE)
BookCancelProductSide(p, side) ==
    CanStart("book_cancel_product_side") /\ CancelSides(p, <<side>>, FALSE)
BookCancelProduct(p) ==
    CanStart("book_cancel_product") /\ CancelSides(p, <<"bid", "ask">>, FALSE)

(* on_cancel is called before the cancel that may yet fail.                *)
CancelSideStep ==
    /\ eng.pc = "side" /\ eng.maker # Null
    /\ notified' = IF eng.notify THEN notified \cup {Maker.id} ELSE notified
    /\ LoggedCancel(Maker.id)
    /\ eng' = [eng EXCEPT !.maker = NextMaker]
CancelSideNext ==
    /\ eng.pc = "side" /\ eng.maker = Null
    /\ eng' = IF eng.next # Null
              THEN [eng EXCEPT !.maker = eng.next, !.next = book.q1[eng.next].next]
              ELSE IF eng.todo = << >> THEN Idle
              ELSE [eng EXCEPT !.todo = Tail(@), !.next = book.head[<<eng.product, Head(eng.todo)>>]]
    /\ UNCHANGED <<book, wal, notified>>

-----------------------------------------------------------------------------
(* The steps of a call in progress, and the calls a client may make.       *)
Step ==
    \/ EnterLevel \/ NoMoreLevels \/ LevelDone
    \/ SkipOwnOrg \/ PassOver
    \/ \E answer \in {"full", "one"} : Deal(answer)
    \/ DecrementCancel
    \/ \E both \in BOOLEAN : CancelMaker(both)
    \/ MatchWalFails \/ TakerDone \/ RefuseBooking \/ BookTaker
    \/ CancelOrgStep \/ CancelOrgNext \/ CancelSideStep \/ CancelSideNext

Call ==
    \/ \E p \in client.products, org \in client.orgs, side \in Sides, price \in client.prices,
          volume \in client.volumes, exclude \in BOOLEAN :
          Submit(p, org, side, price, volume, exclude)
    \/ \E id \in DOMAIN book.hash : Cancel(id) \/ BookCancel(id) \/ Deactivate(id) \/ Activate(id)
    \/ \E p \in client.products, org \in client.orgs : CancelOrgProduct(p, org)
    \/ \E org \in client.orgs : CancelOrgAll(org)
    \/ \E p \in client.products, side \in Sides :
          CancelProductSide(p, side) \/ BookCancelProductSide(p, side)
    \/ \E p \in client.products : CancelProduct(p) \/ BookCancelProduct(p)

Next == (Step \/ Call) /\ UNCHANGED client

Spec == Init /\ [][Next]_vars

(* A call, once made, is executed to its end.                              *)
LiveSpec == Spec /\ WF_vars(Step /\ UNCHANGED client)
-----------------------------------------------------------------------------
(* Vocabulary of the properties.                                           *)

OrderType == [id : Nat, org : Orgs, side : Sides, price : Prices \cup {0},
              volume : Nat, remain : Nat, deactivated : BOOLEAN]
Link == [next : Slots \cup {Null}, prev : Slots \cup {Null}]

(* What a walk down the ladder meets: the levels from the best, and in     *)
(* each the time queue.                                                    *)
Levels(b, k) == Chain(b.q1, b.head[k])
Fifo(b, h)   == Chain(b.q2, h)
Walk(b, k)   == FlattenSeq([i \in DOMAIN Levels(b, k) |-> Fifo(b, Levels(b, k)[i])])
Orders(b, k) == [i \in DOMAIN Walk(b, k) |-> b.ord[Walk(b, k)[i]]]

Entry(b, id) == b.ord[b.hash[id].slot]
Resting(b, k) == {id \in Active(b) : b.hash[id].product = k[1] /\ Entry(b, id).side = k[2]}

(* The place in the log at which an order was last booked, and the order   *)
(* of priority that price and that place define.                           *)
Booked(id) == Max({0} \cup {i \in DOMAIN wal.recs :
                               wal.recs[i].type = "insert" /\ wal.recs[i].order.id = id})
Precedes(b, side, x, y) ==
    \/ Better(side, Entry(b, x).price, Entry(b, y).price)
    \/ Entry(b, x).price = Entry(b, y).price /\ Booked(x) < Booked(y)

(* The volume of the trades in which an order took part.                   *)
Traded(id) ==
    FoldLeft(LAMBDA v, r : IF r.type = "match" /\ id \in {r.maker, r.taker} THEN v + r.volume ELSE v,
             0, wal.recs)

(* A maker the taker in progress may trade with and has not been refused.  *)
Candidate(id) ==
    /\ id \notin eng.passed
    /\ Crosses(Taker.side, Taker.price, Entry(book, id).price)
    /\ ~(eng.exclude /\ Entry(book, id).org = Taker.org)

-----------------------------------------------------------------------------
TypeOK ==
    /\ book.ord \in [Slots -> OrderType]
    /\ \A q \in {book.q1, book.q2, book.q3} : q \in [Slots -> Link]
    /\ book.head \in [Books -> Slots \cup {Null}]
    /\ book.tree \in [Books -> [Prices -> Slots \cup {Null}]]
    /\ book.known \in [Slots -> Orgs \cup {Mixed}]
    /\ book.org_head \in [Products \X Orgs -> Slots \cup {Null}]
    /\ \A id \in DOMAIN book.hash : book.hash[id] \in [slot : Slots, product : Products]
    /\ book.free_a \in Seq(Slots) /\ book.free_b \in Seq(Slots)
    /\ book.next_id \in 1 .. MaxOrders + 1
    /\ eng.pc \in {"idle", "level", "maker", "book", "org", "side"}
    /\ {eng.taker, eng.level, eng.next, eng.maker} \subseteq Slots \cup {Null}
    /\ notified \subseteq 1 .. MaxOrders

(* known_org names an organisation only when the whole level is its own.   *)
KnownOrgSound ==
    \A k \in Books, i \in 1 .. TotalSlots :
        i \in DOMAIN Levels(book, k) =>
            LET h == Levels(book, k)[i]
            IN  \/ book.known[h] = Mixed
                \/ \A j \in DOMAIN Fifo(book, h) : book.ord[Fifo(book, h)[j]].org = book.known[h]

(* A walk down Q1 and Q2 meets exactly the active orders of the side, each *)
(* with something left to trade, best price first and, at one price, in    *)
(* the order in which they were booked; the price tree finds the head of   *)
(* each level, and its known_org can be trusted.  This is what insert,     *)
(* cancel, remove_slot and unlink_slot maintain by editing links and the   *)
(* tail index at the head.                                                 *)
LadderIsPriority ==
    /\ KnownOrgSound
    /\ \A k \in Books :
        LET w == Walk(book, k)
        IN  /\ {book.ord[w[i]].id : i \in DOMAIN w} = Resting(book, k)
            /\ Len(w) = Cardinality(Resting(book, k))
            /\ \A i \in DOMAIN w : book.ord[w[i]].remain > 0
            /\ \A i, j \in DOMAIN w :
                   i < j => Precedes(book, k[2], book.ord[w[i]].id, book.ord[w[j]].id)
            /\ {book.tree[k][x] : x \in Prices} \ {Null} = {Levels(book, k)[i] : i \in DOMAIN Levels(book, k)}

(* An order trades only when every active order of its side that comes     *)
(* before it in price, then time, was refused by can_match or excluded as  *)
(* the taker's own: the "strict price/FIFO order" of om_engine.h.          *)
PriceTimePriority ==
    [][\A m \in DOMAIN book.hash :
          LET k == <<eng.product, MakerSide>>
          IN  /\ eng.pc = "maker" /\ Len(wal'.recs) > Len(wal.recs)
              /\ wal'.recs[Len(wal'.recs)].type = "match"
              /\ wal'.recs[Len(wal'.recs)].maker = m
              => \A x \in Resting(book, k) :
                     Precedes(book, k[2], x, m) => ~Candidate(x)]_vars

(* When the walk over the levels ends with volume left, no order the taker *)
(* could still trade with is in the book.  The walk carries the next maker *)
(* and the next level across removals, and trusts known_org to skip a      *)
(* level.                                                                  *)
MatchExhaustive ==
    eng.pc = "book" => \A id \in Resting(book, <<eng.product, MakerSide>>) : ~Candidate(id)

(* What an order has left and what the log says it traded add up to the    *)
(* volume it came with, across bookings, deactivations and re-matching.    *)
VolumeConserved ==
    /\ \A id \in DOMAIN book.hash : Entry(book, id).remain + Traded(id) = Entry(book, id).volume
    /\ eng.pc = "book" => Taker.remain + Traded(Taker.id) = Taker.volume

(* Every slot is free once, or holds one order of the index, or holds the  *)
(* taker being matched, or is lost: om_engine_activate keeps the slot of   *)
(* an order that pre_booked refused, or whose match the log failed, and    *)
(* nobody can free it any more.  No other call loses a slot.  The two      *)
(* slabs agree, and an order on_cancel was called for is in the index no   *)
(* longer once the call has returned, unless the log failed: the mass      *)
(* cancels call on_cancel before the record is written.  (For clients that *)
(* do not cancel deactivated orders: om_orderbook_remove_slot expects a    *)
(* resting one.)                                                           *)
LastActivated(id) ==
    \E i \in DOMAIN wal.recs :
        /\ wal.recs[i] = ActivateRec(id)
        /\ \A j \in i + 1 .. Len(wal.recs) :
              CASE wal.recs[j].type = "match"  -> TRUE
                [] wal.recs[j].type = "insert" -> wal.recs[j].order.id # id
                [] OTHER                       -> wal.recs[j].id # id
SlotsAccounted ==
    LET used == {book.hash[id].slot : id \in DOMAIN book.hash}
        held == {eng.taker} \ {Null}
        lost == Slots \ (used \cup held \cup Range(book.free_a))
    IN  /\ TypeOK
        /\ book.free_a = book.free_b
        /\ Cardinality(used) = Cardinality(DOMAIN book.hash)
        /\ \A id \in DOMAIN book.hash : Entry(book, id).id = id
        /\ Range(book.free_a) \cap (used \cup held) = {}
        /\ Len(book.free_a) = TotalSlots - Cardinality(used \cup held \cup lost)
        /\ \A s \in lost : book.ord[s].remain > 0 /\ LastActivated(book.ord[s].id)
        /\ eng.pc = "idle" /\ ~wal.failed => notified \cap DOMAIN book.hash = {}

(* Replaying the log as it stands between any two steps succeeds, and      *)
(* rebuilds the same ladders and the same deactivated orders, with the     *)
(* same volumes left, and an id allocator past every id of the log.        *)
Sleeping(b) == {Entry(b, id) : id \in DOMAIN b.hash \ Active(b)}
LoggedIds == UNION {CASE r.type = "insert" -> {r.order.id}
                      [] r.type = "match"  -> {r.maker, r.taker}
                      [] OTHER             -> {r.id} : r \in Range(wal.recs)}
RecoveryFaithful ==
    LET r == Recover(wal.recs)
    IN  /\ r.ok
        /\ \A k \in Books : Orders(r.book, k) = Orders(book, k)
        /\ Sleeping(r.book) = Sleeping(book)
        /\ \A id \in LoggedIds : id < r.book.next_id

(* No order has left the book by a fill or a reported cancel yet: those go *)
(* through om_orderbook_remove_slot, which leaves org_heads alone.         *)
OrgHeadsKept ==
    \A i \in DOMAIN wal.recs : wal.recs[i].type = "insert" =>
        LET id == wal.recs[i].order.id
        IN  InHash(book, id) \/ (id \notin notified /\ CancelRec(id) \in Range(wal.recs))

(* Until then the organisation queue lists exactly the active orders of    *)
(* the organisation in the product, whatever cancels, deactivations and    *)
(* reuse of slots do to it.                                                *)
OrgQueueExact ==
    OrgHeadsKept =>
    \A p \in Products, org \in Orgs :
        LET q == Chain(book.q3, book.org_head[<<p, org>>])
            own == {id \in Active(book) : book.hash[id].product = p /\ Entry(book, id).org = org}
        IN  {book.ord[q[i]].id : i \in DOMAIN q} = own /\ Len(q) = Cardinality(own)

(* And when om_engine_cancel_org_product or _all is done with a product,   *)
(* the organisation has no active order left in it, unless the log has     *)
(* refused a record.                                                       *)
CancelOrgComplete ==
    [][eng.pc = "org" /\ eng.maker = Null /\ eng' # eng /\ OrgHeadsKept /\ ~wal.failed =>
          \A id \in Active(book) :
              ~(book.hash[id].product = eng.product /\ Entry(book, id).org = eng.org)]_vars

(* Cancelling an organisation's orders touches no other organisation.      *)
CancelOrgOwnOnly ==
    [][eng.pc = "org" =>
          \A id \in DOMAIN book.hash \ DOMAIN book'.hash : Entry(book, id).org = eng.org]_vars

(* Every call returns while the log takes its records: no loop over        *)
(* levels, makers or queue links runs forever on the links it follows.     *)
(* After a failed write the loop of om_orderbook_cancel_org_product may:   *)
(* a stale organisation head can link a reused slot to itself, and only a  *)
(* cancel that succeeds breaks the link.                                   *)
CallReturns == (eng.pc # "idle") ~> (eng.pc = "idle" \/ wal.failed)
=============================================================================
