------------------------------ MODULE MCMarket ------------------------------
(* Instances of Market for model checking: small desks, each of which      *)
(* brings out one side of the workers.                                     *)
EXTENDS Market

(* A public book with one side and four prices: the walks from the hint.   *)
Deep ==
    [kind |-> "public", products |-> {0}, subs |-> <<[org |-> 0, product |-> 0]>>,
     on_worker |-> {0}, orgs |-> {0}, limit |-> [o \in {0} |-> 0], sides |-> {"bid"},
     prices |-> 1 .. 4, volumes |-> {1}, fills |-> {1}, crossed |-> FALSE, max_orders |-> 5,
     sleeps |-> FALSE, max_copy |-> 2, flush |-> FALSE]

(* Two public books that share a slab, and one nobody subscribed to.       *)
Wide == [Deep EXCEPT
    !.products = {0, 1, 2}, !.subs = <<[org |-> 0, product |-> 0], [org |-> 0, product |-> 1]>>,
    !.sides = {"ask"}, !.prices = {1, 2}, !.max_orders = 3, !.max_copy = 1, !.flush = TRUE]

(* A public book with two sides, partial fills and deactivated orders.     *)
Waking == [Deep EXCEPT
    !.sides = Sides, !.prices = {1, 2}, !.volumes = {2}, !.max_orders = 2, !.sleeps = TRUE,
    !.flush = TRUE]

(* A private worker with the ladders of two organisations; a third one is  *)
(* on another worker.                                                      *)
Viewers == [Deep EXCEPT
    !.kind = "private",
    !.subs = <<[org |-> 0, product |-> 0], [org |-> 2, product |-> 0], [org |-> 1, product |-> 0]>>,
    !.on_worker = {0, 1}, !.orgs = {0, 2}, !.limit = [o \in 0 .. 1 |-> 2 * o + 1],
    !.sides = {"ask"}, !.prices = {1, 2}, !.volumes = {2}, !.fills = {2}, !.max_orders = 3,
    !.max_copy = 1, !.flush = TRUE]
PrivateWaking == [Viewers EXCEPT !.max_orders = 2, !.prices = {1}, !.volumes = {3}, !.fills = {1, 2}, !.sleeps = TRUE]

(* Volumes at the edge of the integers.                                    *)
Huge == [Viewers EXCEPT
    !.orgs = {1, 2}, !.on_worker = {1, 2}, !.limit = [o \in 1 .. 2 |-> 10], !.prices = {1},
    !.volumes = {MaxInt, MaxInt + 1}, !.fills = {2, MaxInt}, !.max_orders = 3]
HugePublic == [Huge EXCEPT !.kind = "public"]

PassingDesks == {Deep, Wide, Waking, Viewers, PrivateWaking, Huge, HugePublic}
FlushDesks   == {Viewers}
PublicDesks  == {Waking}
CrossedDesks == {[Waking EXCEPT !.crossed = TRUE]}
=============================================================================
