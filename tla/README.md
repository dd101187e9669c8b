# Verification of VeloxMatch

TLA+ models of the matching engine, the write-ahead log, the market-data workers
and their ring, and the message buses of VeloxMatch, the TLC configurations that
check them on small instances, and TLAPS proofs about the two rings and the
shared-memory bus. Source paths are
relative to the repository; `PROJECT.json` gives, for each definition, the lines
it models, and lists the runs, mutants, findings, hazards and theorems.

## The system

| Part | Source | Modules | Status |
|---|---|---|---|
| Dual slab, intrusive queues | `om_slab.c`, `om_slab.h` | `Slab` | modelled |
| Order book | `orderbook.c` | `OrderBook` | modelled |
| Order hash maps | `om_hash_khash*.c` | `OrderBook` (a partial function) | partly |
| Book recovery | `orderbook.c` | `BookRecovery` | modelled |
| Matching engine | `om_engine.c` | `Engine` | modelled |
| Write-ahead log | `om_wal.c` | `Wal` | partly |
| Market ring (one producer, all consumers read all) | `om_worker.c` | `MarketRing`, `BroadcastLog` | modelled |
| Shared-memory bus | `om_bus_shm.c` | `ShmRing`, `BusShm` | partly |
| BusMP ring (many producers, one consumer) | `om_bus_mp.c` | `BusMp`, `MpQueue` | modelled |
| Market-data workers | `om_market.c` | `Ladder`, `Market` | modelled |
| TCP bus | `om_bus_tcp.c` | `BusTcp` | modelled |
| Relay from shared memory to TCP | `om_bus_relay.h` | `BusTcp` | modelled |
| Bus glue: market, log, replay | `om_bus_market.h`, `om_bus_replay.h`, ... | `Market` | partly |
| Presets, log tools, mock log, error codes | `om_perf.c`, `tools/`, ... | | left out |

How they interact. A single thread calls the engine. The engine allocates a slot,
walks the opposite side of the order book, asks the user's callbacks (`can_match`,
`pre_booked`) and books, reduces or removes orders; each change is first appended to
the write-ahead log. After a restart the book is rebuilt from the log. The log's
`post_write` hook publishes each record to a bus in shared memory; a relay passes what
it reads there on to TCP clients. Market workers take the records from their endpoint
or from the market ring and maintain price ladders. BusMP is a separate ring through
which several processes send commands to one.

## Modules

Every component is a module of operators and actions, parameterised by constants. An
`MC` module extends it with the values that a `.cfg` cannot spell. Where one run
covers several configurations, `Init` picks one of a constant set (`Clients`,
`Profiles`, `Capacities`, `Limits`, `Desks`, `Nets`) into a variable that never
changes, so the configurations are explored side by side.

A definition whose name begins with `Mut_` stands before the definition it is a
mistaken form of: a dropped guard, an off-by-one, a missing reset. It is used by no
specification. `PROJECT.json` pairs each with the property that tells the two
apart: with the mistake put in, TLC finds that property violated.

### Slab, OrderBook, BookRecovery, Engine

`Slab` has the slab's operations on plain values: a queue is a function from slots to
`[prev, next]`, a free list is a sequence pushed and popped at its head.
`OrderBook` turns one book into the next: `book` is a record of the fields of
`OmOrderbookContext` (ladder, time and organisation links, heads, price tree,
`known_org`, index). The AVL tree and the hash tables are library code
and appear as functions. The tail of a price level is kept, as in the code,
in the `prev` link of its head. `BookRecovery` folds one operator per record
type over the log.

`Engine` adds `eng` (the call in progress and its locals), `wal` (the records
appended, and whether a write failed), `client` and `notified` (orders `on_cancel`
was called for). One action is one turn of a loop:

| Action | Code |
|---|---|
| `Submit` | slot and id allocation, entry of `om_engine_match`, `_match_excluding_org` |
| `EnterLevel`, `LevelDone`, `NoMoreLevels` | `engine_match`, loop over price levels |
| `SkipOwnOrg`, `PassOver`, `Deal`, `DecrementCancel`, `CancelMaker`, `MatchWalFails`, `TakerDone` | its loop over makers, one action per branch |
| `RefuseBooking`, `BookTaker` | its end: `pre_booked`, insert |
| `Cancel`, `BookCancel`, `Deactivate`, `Activate` | `om_engine_cancel`, `om_orderbook_cancel`, `om_engine_deactivate`, `_activate` |
| `CancelOrgStep`, `CancelOrgNext`, `CancelSideStep`, `CancelSideNext` | the loops of the mass cancels of engine and book |

The loops are split because they carry slot numbers (the next maker, the next
level, the next link) from one turn to the next while their bodies change the links.
The engine is single threaded, so a new call starts only when `eng` is idle.

### Wal

State: `files` (the cells of each file and how many are synced), `wal` (the open
writer: sequence, buffer, file index, sticky error), `durable` (what `om_wal_fsync`
reported) and `appended` (what the log holds since the last open). Actions: `Open`
(`om_wal_init`, which replays to find the end), `AppendRecord` (every append call:
flush if the record does not fit; a record larger than the buffer, or a sequence
number past the limit, is an error), `Flush` (with rotation), `Fsync`, `Close`, `Kill`
(the process dies, the files stay), `Crash` (the machine stops; blocks that were not
synced may be lost or zero, or the file may end early). `Replay` models
`om_wal_replay_next` over several files, with its padding and its errors. A cell is a
part of a record or a zero, so block padding and torn records are explicit.

### MarketRing

`om_market_ring_enqueue`, `_dequeue`, `_dequeue_batch`, `_register_consumer` and
`_wait`, one action per atomic access or plain access of `ptr`. The producer spins on
the slot's sequence and the cached `min_tail`; consumers move their tails and
refresh `min_tail` from a scan that is not atomic; the mutex and
the condition variable of `_wait` are explicit. `BroadcastLog` is the promise without
slots, laps or cached minima: a log that every reader takes in full and in order, with
at most a capacity of records not given back. `MarketRing` implements it: a
record is published by the store of `slot.seq` (a consumer can take it before `head`
moves), taken by the read of `slot.ptr` and given back by the store of the tail.

### Ladder and Market

`Ladder` has the slab of `om_market.c` (free list, growth) and the ladder of one
product on it: levels linked from the best price to the worst, found from a
hint, with the map from prices to slots. `Market` is a worker: `w` holds its slab,
ladders, tracked orders, and per channel (a subscription of a private worker, a product
of a public one) the deltas, the dirty flag and the work list. Around it stand the book
the records come from (`live`, `asleep`, `waking`) and `got`, what the
subscriber of each channel has put together.

| Action | Code |
|---|---|
| `Insert`, `Match`, `Cancel`, `Deactivate`, `Activate` | the record the engine logs for it, through `om_market_worker_process` or `om_market_public_process` |
| `Wake` | the insert record of an activated order, under its old id, if any of it is left |
| `Flush` | a flush in the order of `om_market.h:445`: `compact_dirty`, then along the work list `copy_deltas` or `copy_full`, `clear_deltas`, `clear_dirty` |

The desk chosen by `Init` says whether the worker is private or public, who subscribes
to what, and which prices, volumes and fills occur. `MaxInt` scales down the 64-bit
ranges, so that sums and deltas at their ends are refused as in the code, and a
quantity past the signed end turns negative where `copy_full` casts it (`ToInt`).

### BusTcp

The relay loop, the server it drives, the clients and the kernel between them. A
connection is a queue of cells, a frame so many cells, so that `send` and `recv` may
cut anywhere. State: `relay` (its position and idle counter), `slots` (the server's
clients with their send buffers), `backlog`, `conn` (what is under way, who holds
which end, and the history of what was handed out), `client` (receive buffer, expected
number, retries of the reconnecting client).

| Action | Code |
|---|---|
| `RelayBatch`, `RelaySpin`, `RelayIdleIo`, `RelayIdleInterrupted`, `RelayReturns` | one turn of `om_bus_relay_run`: `broadcast_batch` and `poll_io`, an idle turn without and with `poll_io`, the return |
| `DriveIo`, `Interrupted` (in the above) | `om_bus_tcp_server_poll_io`: accept, refuse, flush each slot as far as the socket takes it, close; or a `poll` cut short by a signal |
| `ServerDestroy`, `ServerCreate` | the server process ends and comes back |
| `ClientCreate`, `ClientPoll`, `ClientStops` | the reconnecting client; a poll reads, parses, judges the number, or reports the end |
| `BackoffEnds`, `Reconnect` | its retries, refused or not |

### BusShm

State: the header page (`head`, `min_tail`, `epoch`), the slots (sequence word,
header, CRC, payload), the consumer tails, and the locals of the producer and
of each endpoint. `stream` is the history of what was published, `handed` what each
endpoint got last, as a copy or as a pointer into the ring (`ref`: `zero_copy`, and
every batch in queue mode), `overtaken` the endpoints the producer passed while they
were opening or left out as stale. Actions: the steps of `om_bus_stream_create` (which
wipes the memory of an earlier producer in three visible stages), `publish`,
`publish_batch`, `endpoint_open`, `poll`, `poll_batch`, `seek_head`,
`rewind_retained`, `peek_previous`, `close`; an endpoint or the producer that dies;
time that makes a stamp stale. A scan of the tails loads each tail and its
stamp in separate steps. It reads the clock once, at its start: a stamp stored after
that makes the unsigned difference underflow, and the scan leaves the endpoint out
(`late`). `ShmRing` has the state and the operators of the ring, `BusShm` the actions.

### BusMp and MpQueue

`BusMp` has an action for each access of the shared block: the claim's CAS on
`enqueue_pos`, the header and payload stores, the commit CAS, the notification
(`waiters`, `notify_seq`, futex wake); the consumer's check, copy, release and
advance, the probe and skip of a claim that is not committed in time, and the futex
wait. A producer may stop at any step; the consumer process may die at any step and
reopen the ring. `MpQueue` is the promise without slots or laps: a bounded queue of
claims that leave in order, as a record or as skipped. `BusMp` implements it with
`head <- Oldest`, `tail <- enqueue_pos`, `ready <-` the outstanding positions whose
slot is committed. `Oldest` is `dequeue_pos`, or one more between the two stores by
which the consumer releases a slot and advances.

### What all of them leave out

- Atomics are sequentially consistent. The acquire/release pairs of the code are
  not weakened further, so a missing fence would not be found.
- 32- and 64-bit counters do not wrap (2^32 orders, 2^64 positions), with three
  exceptions: the 40-bit WAL sequence number (`SeqLimit`), whose end `om_wal.c` handles;
  the quantities of the market workers (`MaxInt`), which `om_market.c` tests; and the
  relay's 32-bit idle counter (`spin_wrap`), whose wrap is what drives an idle
  server's sockets again.
- Parameter checks, the mapping and permission checks of open calls, logging and
  statistics counters. Sets and histories stand in for counters where a property
  speaks of them.

## Runs

### Passing runs

| Run | Instance | Shows |
|---|---|---|
| `busmp_safety` | 2 producers, capacity 2, 3 positions, timed waits, `poll_copy` and `poll_batch` | `RingWindow`, `CommitVerdict`, `FullIsHonest`, `NoLostWakeup`, `IntactUnlessSkipped`, `ImplementsQueue` |
| `busmp_delivered` | 2 producers, capacity 2, 2 positions, waits without timeout | `EveryRecordDelivered` |
| `engine_core` | 4 slots, 5 clients | `LadderIsPriority`, `PriceTimePriority`, `MatchExhaustive`, `VolumeConserved`, `SlotsAccounted` |
| `engine_recovery` | 3 slots, 2 products, 3 clients | `RecoveryFaithful`, `OrgQueueExact`, `CancelOrgComplete`, `CallReturns` |
| `market` | 7 desks: up to 5 orders, 4 prices, 3 products, 3 subscriptions | `LadderIsOrders`, `SlotsOwned`, `OrdersAreLive`, `ViewExact`, `SubscriberExact` |
| `ring` | 2 consumers, capacities 1 and 4, 3 records, batches of 2 | `MinTailConservative`, `NoLostWakeup`, `ImplementsLog`, `EveryRecordRead` |
| `shm_streams` | capacity 2, up to 2 endpoints, 4 records, 2 epochs, 6 stream profiles | `QueueKeepsUnread`, `IntactOrRefused`, `NoSilentGap`, `NothingSkipped`, `LappedIsTrue`, `PublishReturns` |
| `tcp` | 5 nets: 1 or 2 clients, 2 to 4 records, a server that may restart | `ConnHeldOnce`, `StreamIntact`, `GapsReported`, `DrainBeforeDisconnect`, `BroadcastDelivered`, `ReconnectsOrGivesUp` |
| `wal_blocks` | blocks of 4 cells, buffer of 2 blocks, records of 2, 3 and 9 cells, 3 lives | `DurableRecovered`, `WriterKeepsReadable`, `NoWriteAfterError` |

The comment above each property states it in words. The type invariants are conjuncts
of `SlotsAccounted`, `SlotsOwned`, `QueueKeepsUnread`, `ConnHeldOnce` and `WriterKeepsReadable`, and
`KnownOrgSound` is one of `LadderIsPriority`; those of the two rings are proved (see
Proofs), as is `InOrder`, which `ImplementsLog` implies.

Why the bounds are enough to meet the cases that matter:

- *BusMP.* Three positions in two slots make one slot serve two laps, with a producer
  still busy with the first. Two producers race for each CAS. The payload of position 1
  is longer than the buffer of `poll_copy` (`TooLong`), which then hands out NULL.
  Symmetry over producers is used in the safety run only.
- *Engine.* Four slots and up to five orders force slots to be reused while links to
  them are still about. The clients split the product of all options into views:
  `Trader` has two prices and volumes (partial fills over several levels); `Excluding`
  two organisations at one price, up to five orders (levels that are one
  organisation's own, become mixed, and lose their head); `Deciding` every callback
  answer and the engine's mass cancels; `Suspending` deactivation, activation and the
  book's cancels; `Waking` activations that `pre_booked` refuses or whose log write
  fails. For recovery, `Unlucky` lets any log write fail, `Quoting` uses two
  products and two organisations whose orders rest, and `Clearing` lets two
  organisations trade and cancel.
- *Ring.* Capacity 1 reuses the one slot for each record; capacity 4 never wraps,
  because no capacity above 1 gets past the first lap (`ring_wraps`).
- *Market.* The slab starts with one slot and grows by at least one, so it grows in
  use and slots are reused. `Deep` has four prices on one side, so that a walk from
  the hint goes both ways and past the ends; `Wide` two products on one slab and one
  that nobody subscribed to; `Waking` both sides, partial fills and orders that are
  deactivated and come back under their old id; `Viewers` and `PrivateWaking` two
  organisations with different limits, and one on another worker; `Huge` and
  `HugePublic` volumes at and past the end of the integers.
- *TCP.* Frames of 2 to 6 cells against buffers and a pipe of 3 to 7 make every cut of
  a frame, and compaction at an offset, happen. `Gap` has a gap in the numbers and a
  server that returns; `Slow` a frame that does not fit, where the warning does;
  `Reorder` numbers that start over; `Crowd` two clients for one slot, one of which
  may stop; `Pair` two clients served at once.
- *Shared memory.* Four records fill a ring of two slots twice, so each slot is
  reused. Profiles: two queue endpoints that open and poll against each other; batches
  longer than the ring and records the stream refuses; a `zero_copy` endpoint that dies
  or falls silent; a broadcast endpoint that is lapped in every call; a producer that
  restarts, in both modes.
- *WAL.* Records smaller than a block, straddling the buffer's end, and larger than
  the buffer (refused); one unlimited file or files rotated after each block; the
  sequence number reaches its limit; three lives allow a crash, a recovery and another
  crash.

What limits a property. `engine_core` has no client that cancels deactivated orders:
`om_engine_cancel` treats them as resting ones, and `LadderIsPriority` and
`SlotsAccounted` fail for them (see the hazards). `SlotsAccounted` lets
`om_engine_activate` lose the slot of an order that is not booked again, and nothing
else; that an order `on_cancel` was called for has left the index is claimed until the
log fails, because the mass cancels call it before they write. `OrgQueueExact` and
`CancelOrgComplete` hold until the first fill or engine cancel (`OrgHeadsKept`),
because `om_orderbook_remove_slot` leaves the organisation's head alone.
`QueueKeepsUnread` excludes endpoints that were overtaken while opening or left out as
stale, or behind a straggling store (`stray`), and so do `IntactOrRefused` and
`NothingSkipped` in queue mode; `IntactOrRefused` speaks of a pointer until the
producer comes round to its slot, `NothingSkipped` of endpoints that do not seek to
the head, and `NoSilentGap` of single polls, since a batch reports no gap.
`wal_blocks` assumes that a write is torn only between blocks. The market desks leave
out feeds in which both sides rest at one price (see below), and `ViewExact` asks the
public `get_qty` only where the other side has nothing. `OrdersAreLive`, `ViewExact`
and `SubscriberExact` hold until a record was refused as out of range, and
`LadderIsOrders` also after that for private workers.
`StreamIntact` and `GapsReported` are about one connection. Deadlock is checked for
BusMP and the ring; the other programs may stop (their clients' bounds are used up, or
the log reached its end).

### Fairness

- `busmp_delivered`: a consumer that is up continues its call, polls again, and the
  clock advances; a producer that committed finishes `om_bus_mp_commit`. Nothing makes
  a producer complete a claim. Polling is strongly fair because the consumer's loop
  alternates `wait` and `poll`, and polling is not enabled during a wait.
- `engine_recovery`: the engine's loop goes on (`WF` of one step); nobody has to make
  a call.
- `ring`: threads run on; the producer has records to enqueue; consumers poll again.
  The mutex is granted to a thread that keeps asking (`SF`), as `pthread_mutex` gives
  on a scheduler that does not starve a thread for ever.
- `shm_streams`: a publish in progress goes on, and time makes an endpoint that does
  not poll stale. No fairness of endpoints is assumed: `PublishReturns`, claimed only
  for streams with a staleness threshold, holds even if all of them stop.
- `tcp`: the relay's loop turns (`WF`), and among its idle turns that call `poll_io`
  not all are interrupted by a signal (`SF`); a server being destroyed goes; each
  client polls on, and its backoff ends. Nothing makes a record arrive, a process stop
  or a server start.

### Runs that end in a violation

Each states what a comment or document says, and TLC finds a run of the code
that does otherwise.

| Run | Property | What happens |
|---|---|---|
| `engine_org_foreign` | `CancelOrgOwnOnly` | A fill or `om_engine_cancel` leaves the organisation's queue head at the freed slot. The slot is reused by another organisation, whose order the next mass cancel of the first one removes. |
| `ring_wraps` | `EnqueueReturns` | Nobody advances a slot's sequence after it was read, so with two or more slots the producer spins for ever at the start of the second lap. |
| `market_flush` | `DirtyListed` | `om_market.h:445-449` gives the order of a flush as compact, then the walk, and calls a stale entry harmless. A ladder that was cleared and is marked again before the next compact is listed twice; the list, as long as there are ladders, is full, and another ladder that becomes dirty is not listed. |

### Disagreements without a run of their own

The models also show these. The property or instance is kept in the module named, so
that a configuration of a few lines reproduces all but the last two.

- *Slow producer* (`BusMp`, `DeliveredIntact`; 2 producers, capacity 2, 3 positions).
  A producer slower than `skip_timeout_ns` still writes into a slot the consumer has
  freed and another producer claimed; the new record is handed out with the old one's
  bytes. `om_bus_mp.h:89` calls the payload producer-owned until commit.
  `IntactUnlessSkipped` is the other side: only a skipped claim can spoil a record.
- *Polling an idle stream* (`BusShm`, `LiveNotSkipped`, queue mode with a staleness
  threshold). `last_poll_ns` is stored only by a poll that consumed something, so an
  endpoint that polls an idle stream is taken for dead; `docs/msg_bus.md:859` says
  "updated on every poll".
- *Pointers of a batch* (`BusShm`, `PointerHeld`; profile `Batches`). A pointer into the
  ring is handed out by a call that has already moved the tail, so the producer may
  overwrite the slot before the caller reads it; the relay polls a batch and broadcasts
  it afterwards (`om_bus_relay.h:91-93`). `om_bus.h:215` says "payload pointer valid
  until next poll or close", `docs/msg_bus.md:225` "until the producer wraps around
  and overwrites the slot", which `IntactOrRefused` shows.
- *Torn inside a block* (`Wal`, `DurableRecovered`, `Tears = "cells"`). A write torn
  right behind a record leaves a file whose end is not aligned. It is opened again, the
  next flush pads relative to that end, and replay, which expects padding up to an
  absolute multiple, stops before records that were synced. The comment at
  `om_wal.c:458` says "Force fsync for durability".
- *The other side's quantity* (`Market`, `PublicQtyBySide`, `Desks <- PublicDesks`).
  `om_market_public_get_qty` ignores its `side` and answers with whatever rests at the
  price; `om_market.h:280-288` documents the parameter and "-1 if not found".
- *One price on both sides* (`Market`, `LadderIsOrders`, `Desks <- CrossedDesks`).
  Bids and asks of a product share one map from prices to slots; an order at a price
  where the other side rests is added to the other side's level. An engine that
  matches such orders does not log such a feed; one whose `can_match` refuses may.
- *Reconnecting*. A reconnected TCP client expects no particular number, so records
  broadcast while it was away are lost without a gap being reported;
  `docs/msg_bus.md:646` says "Reconnect, resume from `wal_seq`".
- *Slow-client warning*. The warning is sent by one `send` before the close; what the
  socket does not take of it is lost. `docs/msg_bus.md:472` says "ensuring the warning
  frame (...) is delivered".

## Proofs

`BusMp_proofs` proves, for every set of producers, every capacity of at least 2
and every number of positions:

| Theorem | States |
|---|---|
| `TypeCorrect` | `Spec => []TypeOK` (capacity 1 included) |
| `WindowKept` | `Spec => []RingWindow`: no claim over an unconsumed record |
| `FullHonest` | `Spec => FullIsHonest`: FULL is returned only when the ring is full |
| `VerdictKept` | `Spec => []CommitVerdict`: commit and skip agree on each position |
| `WakeupKept` | `Spec => []NoLostWakeup` |
| `IntactKept` | `Spec => []IntactUnlessSkipped`: only a skipped claim can spoil a record |
| `QueueImplemented` | `Spec => ImplementsQueue`: refinement of `MpQueue` |

Assumptions: `BusMpAssumption` (the constants have their types and the capacity is
positive), and `Capacity > 1` as a hypothesis of every theorem but the first.
`validate_config` also accepts capacity 1, where the value `pos + 1` of a slot
means both "committed" and "free for the next lap"; `RingWindow` does not hold there.
That the capacity is a power of two is not needed: the proofs use `%`.

The argument. `RingWindow` is not inductive. `RingInv` adds `Retired` (a slot never
goes back to a lap the consumer has left), `ClaimInv` (what a producer knows of the
position it read: not beyond `enqueue_pos`, and, once the slot's sequence matched,
less than a lap ahead of `Oldest`) and `HoldInv` (what the consumer has established
about the slot at `dequeue_pos` at each step of a call). Two arithmetic lemmas carry
it: positions less than a lap apart have different slots, and positions a lap apart
share one. With these, each step that changes a slot is one of three: a claim
(`ClaimSlot`), a commit (`CommitSlot`) or a handover to the next lap (`Handover`). Why
can a CAS on `enqueue_pos` with a stale check of the slot not take a slot in use?
Because `enqueue_pos` only grows: if it still equals the position that was checked, no
one has claimed that position, and only its claimer could have changed the slot from
free. `FullHonest` follows from `RingInv` alone, as does each step of the refinement.
`VerdictInv` relates the log to the published and poisoned sets position by position,
and `WakeInv` follows the futex protocol: when a consumer is about to sleep on a
`notify_seq` that has not changed, the producer of every commit it has not seen has
yet to bump it. `DataInv`, for `IntactKept`, calls a position spoiled when a position
below the window that shares its slot was never published, and says that a claim which
is not spoiled finds in its slot, in the consumer's record and in the log what it wrote.

`MarketRing_proofs` proves, for every number of consumers, every set of capacities,
every batch size and every number of records:

| Theorem | States |
|---|---|
| `MinTailIsConservative` | `Spec => []MinTailConservative`: the cached minimum is never ahead of a consumer |
| `EveryConsumerInOrder` | `Spec => []InOrder`: every consumer gets every record once and in order |
| `LogImplemented` | `Spec => ImplementsLog`: refinement of `BroadcastLog` |
| `NoWakeupLost` | `NotifyBatch = 1 => (Spec => []NoLostWakeup)` |

The only assumption is `MarketRingAssumption` (types; at least one consumer, positive
capacities and batches). The argument goes through what one step does to one consumer
(`ReaderStep`), to the slots (`RingStep`) and to a scan (`ScanStep`), so that the
facts about functions are settled once. `MinInv`: a tail only grows, so a scan in
progress stays at most every tail it has passed, and a complete one at most all of
them, however late it is stored (`ScanInv`). `RingInv`: the space the producer found
stays found for the same reason (`WriteInv`); a consumer about to read a slot has seen
it marked `ctail + 1`, while the slot the producer is writing is marked `head`, so if
they were one slot `head` would be `ctail + 1` and two neighbouring positions would
share a slot, which only a ring of one allows, and there `head` cannot be ahead of the
consumer (`WriteElsewhere`). The refinement adds that a slot marked `q + 1` means
record `q + 1` is published (`PubInv`). For wake-ups, `MutexInv` says who holds the
mutex, and `SleepInv` that a consumer about to sleep on enough records has the
broadcast, which needs the mutex, still before it. These theorems say nothing of
progress: with more than one slot the producer stops after a lap (`ring_wraps`), and
safety holds up to there and beyond it alike.

`BusShm_proofs` proves, for every capacity, every set of stream profiles, every number
of endpoints, records and epochs:

| Theorem | States |
|---|---|
| `Typed` | `Spec => []TypeOK` |
| `GapsReported` | `Spec => []NoSilentGap`: a poll reports a gap exactly when there is one |
| `LapsAreReal` | `Spec => LappedIsTrue`: a lap is reported only to an endpoint whose record is gone |
| `UnreadSurvives` | `Spec => []QueueKeepsUnread`: in queue mode no unread record is overwritten |
| `BatchesSkipNothing` | `Spec => []NothingSkipped`: no call passes over a published record |
| `HandedOutIntact` | `Spec => []IntactOrRefused`: what is handed out was published there, whole |

The last three assume `SeeksBroadcast`: endpoints that call `seek_head`,
`rewind_retained` or `peek_previous` are on broadcast streams. In queue mode these move
a tail without `min_tail` and can step behind what the producer has freed. The first
three have no hypothesis beyond the types of the constants.

The argument is spread over five modules. `BusShm_inv` has the invariant, `BusShm_views`
says of each action what it does to the state of one party, `BusShm_steps` shows that
the actions do just that, and `BusShm_producer` and `BusShm_endpoint` that such steps
keep the invariant. Its parts: `Told`, that the number an endpoint expects follows the
record it handed out last, or that a peek has put it aside, or that a batch will still
store it. `SlotInv`, in broadcast mode: a sequence word vouches for its slot, because the
producer clears it first and stores it last. `ReadInv`: what an endpoint has read is good
while the word still fits, and when it does not the producer is a lap ahead. Queue mode
rests on `SpaceInv` and `RefreshInv`: `min_tail` is at most the tail of every endpoint
that counts, although producer and endpoints compute it from tails loaded at different
times and store it over each other's; a scan that is past an endpoint has a minimum that
this endpoint allows, or began when the endpoint could not be behind it. From there the
unread records are in their slots (`UnreadInv`). `FollowInv` and `OrderInv` give
`NothingSkipped`: wherever a call keeps its position (the tail, the local count of a
batch, the position a peek put aside), it is the one behind the record handed out last,
and numbers grow along the stream. `LapInv` gives the pointers of `IntactOrRefused`: a
slot shows its record until the producer comes round to it.

Only model-checked: all liveness (`EveryRecordDelivered`, `EveryRecordRead`,
`CallReturns`, `PublishReturns`, `BroadcastDelivered`, `ReconnectsOrGivesUp`), which
is out of the prover's reach; everything about the engine, the log, the market workers
and the TCP bus, much of it defined by recursion over links and sequences.

## Not modelled

- The replay glue (`om_bus_replay.h`): a gap filled from the log. It needs the log,
  the bus and a worker in one model.
- In `BusShm`: the cursor file (save and load), destroy, `is_current` and the
  statistics. In `Wal`: CRC switched off, replay's read buffer, user record handlers,
  syncing of directories. In `Market`: allocation failures and the flags of a dealable
  answer. In `BusTcp`: socket options, statistics, allocation failures, the lengths of
  the backoff.
- `om_perf.c` (tables of constants), `tools/` (argument parsing and output), the mock
  log (prints), error codes.

## Plan

1. `WalBus`: `Wal` composed with `BusShm` and the replay glue. A record is published
   before it is durable, so after a crash its number can be given to another record
   that an endpoint takes for one it has seen.
2. An abstract specification of the book, a priority list implemented by `Engine`.
3. Proofs: the log's `NoWriteAfterError`, and the link lemmas of `Slab` and `Ladder`.

## Running

    tlc -workers 2 -config Engine_core.cfg MCEngine
    tlapm BusMp_proofs.tla
    tlapm MarketRing_proofs.tla
    tlapm BusShm_producer.tla      (also BusShm_endpoint, BusShm_steps, BusShm_proofs)

Each run takes at most about three minutes on two cores; a module of proofs
takes between two and fourteen.
