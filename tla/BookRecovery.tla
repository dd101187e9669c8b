--------------------------- MODULE BookRecovery ----------------------------
(***************************************************************************)
(* om_orderbook_recover_from_wal: an empty book is rebuilt by replaying    *)
(* the log, with logging switched off.                                     *)
(*                                                                         *)
(* The replay state r is the book so far and whether replay has failed;    *)
(* after a failure the remaining records are not looked at.                *)
(***************************************************************************)
EXTENDS OrderBook, SequencesExt

(* The records the engine writes: om_wal_insert, _cancel, _match,          *)
(* _deactivate and _activate.  A MATCH does not carry the sides' volumes,  *)
(* an INSERT carries the whole order.                                      *)
InsertRec(o, p)           == [type |-> "insert", order |-> o, product |-> p]
MatchRec(maker, taker, v) == [type |-> "match", maker |-> maker, taker |-> taker, volume |-> v]
CancelRec(id)             == [type |-> "cancel", id |-> id]
DeactivateRec(id)         == [type |-> "deactivate", id |-> id]
ActivateRec(id)           == [type |-> "activate", id |-> id]

(* The id allocator is moved past every id the log mentions.               *)
PastId(b, id) == [b EXCEPT !.next_id = IF id >= @ THEN id + 1 ELSE @]

ReplayInsert(b, rec) ==
    LET c == PastId(b, rec.order.id)
        s == Head(c.free_a)
        d == AllocSlot(c, rec.order)
    IN  IF ~CanAlloc(c.free_a, c.free_b) THEN [ok |-> FALSE, book |-> c]
        ELSE IF CanInsert(d, s) THEN [ok |-> TRUE, book |-> InsertOrder(d, rec.product, s)]
        ELSE [ok |-> FALSE, book |-> FreeSlot(d, s)]

ReplayCancel(b, rec) ==
    [ok |-> TRUE, book |-> IF InHash(b, rec.id) THEN CancelOrder(b, rec.id) ELSE b]

(* Only the maker is in the book: the taker is inserted after its trades.  *)
ReplayMatch(b, rec) ==
    LET c == PastId(PastId(b, rec.maker), rec.taker)
        s == c.hash[rec.maker].slot
        d == [c EXCEPT !.ord[s].remain = @ - rec.volume]
    IN  IF ~InHash(c, rec.maker) \/ c.ord[s].remain < rec.volume
        THEN [ok |-> FALSE, book |-> c]
        ELSE [ok |-> TRUE, book |-> IF d.ord[s].remain = 0 THEN CancelOrder(d, rec.maker) ELSE d]

ReplayDeactivate(b, rec) ==
    LET e == b.hash[rec.id]
    IN  [ok |-> TRUE,
         book |-> IF InHash(b, rec.id)
                  THEN [UnlinkSlot(b, e.product, e.slot) EXCEPT !.ord[e.slot].deactivated = TRUE]
                  ELSE b]

(* Mutant: an activation changes nothing.                                  *)
Mut_ReplayActivate(b, rec) == [ok |-> TRUE, book |-> b]

(* The order leaves the book; its trades and its insertion follow.         *)
ReplayActivate(b, rec) ==
    LET s == b.hash[rec.id].slot
    IN  [ok |-> TRUE,
         book |-> IF InHash(b, rec.id) /\ b.ord[s].deactivated
                  THEN FreeSlot(HashRemove(b, rec.id), s) ELSE b]

Replay(r, rec) ==
    IF ~r.ok THEN r
    ELSE CASE rec.type = "insert"     -> ReplayInsert(r.book, rec)
           [] rec.type = "cancel"     -> ReplayCancel(r.book, rec)
           [] rec.type = "match"      -> ReplayMatch(r.book, rec)
           [] rec.type = "deactivate" -> ReplayDeactivate(r.book, rec)
           [] rec.type = "activate"   -> ReplayActivate(r.book, rec)

Recover(wal) == FoldLeft(Replay, [ok |-> TRUE, book |-> InitBook], wal)
=============================================================================
