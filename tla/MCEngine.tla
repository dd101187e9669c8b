------------------------------ MODULE MCEngine ------------------------------
(* Instances of Engine for model checking: small clients, each of which    *)
(* brings out one side of the engine.                                      *)
EXTENDS Engine

Trader ==
    [products |-> {0}, orgs |-> {0}, prices |-> {1, 2}, volumes |-> {1, 2},
     can_match |-> {"full"}, pre_booked |-> {TRUE}, ops |-> {"match", "cancel"},
     wal_fails |-> FALSE, max_orders |-> 4, max_log |-> 5]

(* Two organisations that do not trade with themselves.                    *)
Excluding == [Trader EXCEPT
    !.orgs = {0, 1}, !.prices = {1}, !.volumes = {1},
    !.ops = {"match_excluding_org", "cancel", "deactivate"}, !.max_orders = 5, !.max_log = 6]

(* Every answer a callback can give, and the engine's mass cancels.        *)
Deciding == [Trader EXCEPT
    !.can_match = Answers, !.pre_booked = BOOLEAN,
    !.ops = {"match", "cancel", "cancel_product_side", "cancel_product"}, !.max_orders = 3]

(* Orders that sleep and wake, and the cancels of the order book.          *)
Suspending == [Trader EXCEPT
    !.prices = {1},
    !.ops = {"match", "book_cancel", "deactivate", "activate",
             "book_cancel_product_side", "book_cancel_product"},
    !.max_log = 6]

(* Orders that wake, and are refused or meet a log that fails.             *)
Waking == [Trader EXCEPT
    !.prices = {1}, !.pre_booked = BOOLEAN,
    !.ops = {"match", "cancel", "deactivate", "activate", "cancel_product"},
    !.wal_fails = TRUE, !.max_orders = 3, !.max_log = 6]

(* A log that may fail under any call.                                     *)
Unlucky == [Trader EXCEPT
    !.prices = {1}, !.can_match = {"full", "cancel_both"}, !.pre_booked = BOOLEAN,
    !.ops = {"match", "cancel", "cancel_deactivated", "book_cancel", "deactivate", "activate",
             "cancel_product", "cancel_org_product"},
    !.wal_fails = TRUE, !.max_orders = 3]

(* Two organisations in two products whose orders never trade.             *)
Quoting == [Trader EXCEPT
    !.products = {0, 1}, !.orgs = {0, 1}, !.prices = {1}, !.volumes = {1}, !.can_match = {"none"},
    !.ops = {"match", "book_cancel", "deactivate", "activate",
             "cancel_org_product", "cancel_org_all"},
    !.max_orders = 3, !.max_log = 4]

(* Two organisations that trade and cancel each other's queues.            *)
Clearing == [Trader EXCEPT
    !.orgs = {0, 1}, !.prices = {1}, !.volumes = {1},
    !.ops = {"match", "match_excluding_org", "cancel", "cancel_deactivated", "cancel_org_all",
             "deactivate", "activate", "cancel_product"}]

CoreClients     == {Trader, Excluding, Deciding, Suspending, Waking}
RecoveryClients == {Unlucky, Quoting, Clearing}
OrgClients      == {[Trader EXCEPT !.orgs = {0, 1}, !.volumes = {1}, !.max_orders = 3,
                                   !.ops = {"match", "cancel", "cancel_org_product"}]}
=============================================================================
