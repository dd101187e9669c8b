------------------------------ MODULE MCBusShm ------------------------------
(* Instances of BusShm for model checking.                                 *)
EXTENDS BusShm

(* Two endpoints: one opens, polls or refreshes min_tail while the other   *)
(* does.                                                                   *)
Queue == [broadcast |-> FALSE, crc |-> FALSE, staleness |-> FALSE, reject |-> FALSE, zero_copy |-> FALSE,
          batch |-> 1, records |-> 3, users |-> {0, 1}, ops |-> {"poll"}]
(* Batches longer than the ring, and records that are refused.             *)
Batches == [Queue EXCEPT !.batch = 3, !.records = 4, !.users = {1},
                         !.ops = {"poll", "poll_batch", "too_large"}]
(* An endpoint that dies or falls behind.                                  *)
Stale == [Queue EXCEPT !.staleness = TRUE, !.crc = TRUE, !.zero_copy = TRUE, !.records = 4,
                       !.users = {1}, !.ops = {"poll", "die", "quiet"}]
(* An endpoint that is lapped.                                             *)
Broadcast == [broadcast |-> TRUE, crc |-> TRUE, staleness |-> FALSE, reject |-> TRUE, zero_copy |-> FALSE,
              batch |-> 2, records |-> 4, users |-> {0},
              ops |-> {"poll", "poll_batch", "seek_head", "rewind", "peek"}]
(* A producer that comes back.                                             *)
Restarted     == [Broadcast EXCEPT !.records = 3, !.ops = {"poll", "peek", "close", "restart"}]
RestartedQueue == [Queue EXCEPT !.users = {0}, !.ops = {"poll", "close", "restart"}]

Streams == {Queue, Batches, Stale, Broadcast, Restarted, RestartedQueue}
OneStale == {Stale}
=============================================================================
