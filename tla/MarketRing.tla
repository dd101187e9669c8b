----------------------------- MODULE MarketRing -----------------------------
(***************************************************************************)
(* OmMarketRing, the single-producer ring of record pointers that every    *)
(* consumer reads in full (om_worker.c).                                   *)
(*                                                                         *)
(* One action is one atomic access, or one plain access of ring.slots.ptr. *)
(* Atomics are sequentially consistent here.  The record enqueued n-th is  *)
(* the number n; a consumer's got is the sequence it has dequeued.         *)
(* om_market_ring_dequeue is dequeue_batch with MaxBatch = 1: the accesses *)
(* are the same ones in the same order.                                    *)
(***************************************************************************)
EXTENDS Integers, Sequences

CONSTANTS
    Consumers,    \* number of consumers, config.consumer_count
    Capacities,   \* the values config.capacity may have
    NotifyBatch,  \* config.notify_batch
    MaxBatch,     \* max_count of om_market_ring_dequeue_batch
    MinBatch,     \* min_batch of om_market_ring_wait
    MaxRecords    \* bound on the records enqueued

ASSUME MarketRingAssumption ==
    /\ Consumers \in Nat \ {0} /\ Capacities \subseteq Nat \ {0} /\ NotifyBatch \in Nat
    /\ MaxBatch \in Nat \ {0} /\ MinBatch \in Nat \ {0} /\ MaxRecords \in Nat

Readers  == 0 .. Consumers - 1
Producer == -1
None     == -2
Threads  == Readers \cup {Producer}

VARIABLES
    capacity,                \* ring.capacity, fixed by om_market_ring_init
    slot_seq, slot_ptr,      \* the slots
    head, min_tail, tails,   \* the cursors; min_tail is a cached minimum
    pc,                      \* where each thread is
    scan,                    \* each thread's loop over consumer_tails: next index, minimum so far
    ctail, count,            \* each consumer's local tail and batch count
    mutex, sleeping,         \* wait_mutex and the consumers in pthread_cond_wait
    got                      \* what each consumer has dequeued

ring == <<slot_seq, slot_ptr, head>>
local == <<ctail, count, got>>
wait == <<mutex, sleeping>>
vars == <<capacity, ring, min_tail, tails, pc, scan, local, wait>>

Init ==
    /\ capacity \in Capacities
    /\ slot_seq = [i \in 0 .. capacity - 1 |-> i]
    /\ slot_ptr = [i \in 0 .. capacity - 1 |-> 0]
    /\ head = 0 /\ min_tail = 0 /\ tails = [c \in Readers |-> 0]
    /\ pc = [t \in Threads |-> IF t = Producer THEN "idle" ELSE "new"]
    /\ scan = [t \in Threads |-> [next |-> 0, min |-> 0]]
    /\ ctail = [c \in Readers |-> 0] /\ count = [c \in Readers |-> 0]
    /\ mutex = None /\ sleeping = {}
    /\ got = [c \in Readers |-> << >>]

Goto(t, l) == pc' = [pc EXCEPT ![t] = l]
Index(pos) == pos % capacity

-----------------------------------------------------------------------------
(* om_market_ring_min_tail: the tails are loaded one by one.               *)
StartScan == [next |-> 0, min |-> -1]
ScanTail(t) ==
    LET i == scan[t].next
        m == IF scan[t].min = -1 \/ tails[i] < scan[t].min THEN tails[i] ELSE scan[t].min
    IN  /\ pc[t] = "scan" /\ i < Consumers
        /\ scan' = [scan EXCEPT ![t] = [next |-> i + 1, min |-> m]]
        /\ UNCHANGED <<ring, min_tail, tails, pc, local, wait>>
(* The store of the result; the producer looks at min_tail again.          *)
StoreMin(t) ==
    /\ pc[t] = "scan" /\ scan[t].next = Consumers
    /\ min_tail' = scan[t].min
    /\ scan' = [scan EXCEPT ![t] = [next |-> 0, min |-> 0]]
    /\ Goto(t, IF t = Producer THEN "space" ELSE "idle")
    /\ UNCHANGED <<ring, tails, local, wait>>

-----------------------------------------------------------------------------
(* om_market_ring_enqueue.                                                 *)
Enqueue ==
    /\ pc[Producer] = "idle" /\ head < MaxRecords
    /\ Goto(Producer, "space")
    /\ UNCHANGED <<ring, min_tail, tails, scan, local, wait>>

(* Mutant: a full ring passes for one with a free slot.                    *)
Mut_SpaceFound ==
    /\ pc[Producer] = "space" /\ head - min_tail <= capacity
    /\ Goto(Producer, "slot")
    /\ UNCHANGED <<ring, min_tail, tails, scan, local, wait>>
SpaceFound ==
    /\ pc[Producer] = "space" /\ head - min_tail < capacity
    /\ Goto(Producer, "slot")
    /\ UNCHANGED <<ring, min_tail, tails, scan, local, wait>>
(* No space: spin on min_tail and now and then scan the tails.             *)
Rescan ==
    /\ pc[Producer] = "space" /\ head - min_tail >= capacity
    /\ scan' = [scan EXCEPT ![Producer] = StartScan]
    /\ Goto(Producer, "scan")
    /\ UNCHANGED <<ring, min_tail, tails, local, wait>>

(* The spin until slot.seq equals head.                                    *)
SlotReady ==
    /\ pc[Producer] = "slot" /\ slot_seq[Index(head)] = head
    /\ Goto(Producer, "ptr")
    /\ UNCHANGED <<ring, min_tail, tails, scan, local, wait>>
WritePtr ==
    /\ pc[Producer] = "ptr"
    /\ slot_ptr' = [slot_ptr EXCEPT ![Index(head)] = head + 1]
    /\ Goto(Producer, "seq")
    /\ UNCHANGED <<slot_seq, head, min_tail, tails, scan, local, wait>>
WriteSeq ==
    /\ pc[Producer] = "seq"
    /\ slot_seq' = [slot_seq EXCEPT ![Index(head)] = head + 1]
    /\ Goto(Producer, "head")
    /\ UNCHANGED <<slot_ptr, head, min_tail, tails, scan, local, wait>>
WriteHead ==
    /\ pc[Producer] = "head"
    /\ head' = head + 1
    /\ Goto(Producer, IF NotifyBatch > 0 /\ (head + 1) % NotifyBatch = 0 THEN "lock" ELSE "idle")
    /\ UNCHANGED <<slot_seq, slot_ptr, min_tail, tails, scan, local, wait>>
(* Mutant: the broadcast is made without the mutex.                        *)
Mut_NotifyLock ==
    /\ pc[Producer] = "lock"
    /\ Goto(Producer, "broadcast")
    /\ UNCHANGED <<ring, min_tail, tails, scan, local, wait>>
NotifyLock ==
    /\ pc[Producer] = "lock" /\ mutex = None
    /\ mutex' = Producer
    /\ Goto(Producer, "broadcast")
    /\ UNCHANGED <<ring, min_tail, tails, scan, local, sleeping>>
(* Mutant: nobody is woken.                                                *)
Mut_Broadcast ==
    /\ pc[Producer] = "broadcast"
    /\ mutex' = None
    /\ Goto(Producer, "idle")
    /\ UNCHANGED <<ring, min_tail, tails, scan, local, sleeping>>
Broadcast ==
    /\ pc[Producer] = "broadcast"
    /\ mutex' = None /\ sleeping' = {}
    /\ Goto(Producer, "idle")
    /\ UNCHANGED <<ring, min_tail, tails, scan, local>>

-----------------------------------------------------------------------------
(* om_market_ring_register_consumer, once per consumer before it reads.    *)
Register(c) ==
    /\ pc[c] = "new"
    /\ tails' = [tails EXCEPT ![c] = 0]
    /\ Goto(c, "idle")
    /\ UNCHANGED <<ring, min_tail, scan, local, wait>>

(* om_market_ring_dequeue_batch.                                           *)
Dequeue(c) ==
    /\ pc[c] = "idle"
    /\ ctail' = [ctail EXCEPT ![c] = tails[c]]
    /\ count' = [count EXCEPT ![c] = 0]
    /\ Goto(c, "check")
    /\ UNCHANGED <<ring, min_tail, tails, scan, got, wait>>
Check(c) ==
    /\ pc[c] = "check"
    /\ Goto(c, IF count[c] < MaxBatch /\ slot_seq[Index(ctail[c])] = ctail[c] + 1 THEN "read"
               ELSE IF count[c] > 0 THEN "tail" ELSE "idle")
    /\ UNCHANGED <<ring, min_tail, tails, scan, local, wait>>
ReadPtr(c) ==
    /\ pc[c] = "read"
    /\ got' = [got EXCEPT ![c] = Append(@, slot_ptr[Index(ctail[c])])]
    /\ ctail' = [ctail EXCEPT ![c] = @ + 1]
    /\ count' = [count EXCEPT ![c] = @ + 1]
    /\ Goto(c, "check")
    /\ UNCHANGED <<ring, min_tail, tails, scan, wait>>
StoreTail(c) ==
    /\ pc[c] = "tail"
    /\ tails' = [tails EXCEPT ![c] = ctail[c]]
    /\ Goto(c, "refresh")
    /\ UNCHANGED <<ring, min_tail, scan, local, wait>>
(* Mutant: the consumer's own tail is taken for the minimum.               *)
Mut_Refresh(c) ==
    /\ pc[c] = "refresh"
    /\ min_tail' = ctail[c]
    /\ Goto(c, "idle")
    /\ UNCHANGED <<ring, tails, scan, local, wait>>
(* om_market_ring_refresh_min_tail_on_consume.                             *)
Refresh(c) ==
    LET prev_tail == ctail[c] - count[c]
    IN  /\ pc[c] = "refresh"
        /\ IF prev_tail = min_tail \/ ctail[c] < min_tail
           THEN scan' = [scan EXCEPT ![c] = StartScan] /\ Goto(c, "scan")
           ELSE Goto(c, "idle") /\ UNCHANGED scan
        /\ UNCHANGED <<ring, min_tail, tails, local, wait>>

(* om_market_ring_wait.  pthread_cond_wait gives up the mutex and sleeps   *)
(* in one step, may wake of itself, and takes the mutex again.             *)
Wait(c) ==
    /\ pc[c] = "idle"
    /\ Goto(c, "lock")
    /\ UNCHANGED <<ring, min_tail, tails, scan, local, wait>>
WaitLock(c) ==
    /\ pc[c] = "lock" /\ c \notin sleeping /\ mutex = None
    /\ mutex' = c
    /\ Goto(c, "test")
    /\ UNCHANGED <<ring, min_tail, tails, scan, local, sleeping>>
(* The difference is unsigned: a consumer that has taken a record whose     *)
(* head is still to be stored is past head, and the huge difference ends   *)
(* its wait at once.                                                       *)
WaitTest(c) ==
    /\ pc[c] = "test"
    /\ IF tails[c] > head \/ head - tails[c] >= MinBatch
       THEN Goto(c, "idle") /\ mutex' = None
       ELSE Goto(c, "sleep") /\ UNCHANGED mutex
    /\ UNCHANGED <<ring, min_tail, tails, scan, local, sleeping>>
WaitSleep(c) ==
    /\ pc[c] = "sleep"
    /\ mutex' = None /\ sleeping' = sleeping \cup {c}
    /\ Goto(c, "lock")
    /\ UNCHANGED <<ring, min_tail, tails, scan, local>>
SpuriousWakeup(c) ==
    /\ c \in sleeping
    /\ sleeping' = sleeping \ {c}
    /\ UNCHANGED <<ring, min_tail, tails, pc, scan, local, mutex>>

-----------------------------------------------------------------------------
ProducerStep ==
    \/ SpaceFound \/ Rescan \/ ScanTail(Producer) \/ StoreMin(Producer)
    \/ SlotReady \/ WritePtr \/ WriteSeq \/ WriteHead \/ NotifyLock \/ Broadcast
ConsumerStep(c) ==
    \/ Register(c) \/ Check(c) \/ ReadPtr(c) \/ StoreTail(c) \/ Refresh(c)
    \/ ScanTail(c) \/ StoreMin(c) \/ WaitLock(c) \/ WaitTest(c) \/ WaitSleep(c)

Next ==
    /\ \/ Enqueue \/ ProducerStep
       \/ \E c \in Readers : ConsumerStep(c) \/ Dequeue(c) \/ Wait(c) \/ SpuriousWakeup(c)
    /\ UNCHANGED capacity

Spec == Init /\ [][Next]_vars

(* Each thread runs on; a consumer that polls keeps polling and the        *)
(* producer enqueues all its records.  The mutex is granted to a thread    *)
(* that keeps asking for it.                                               *)
Fixed(A) == A /\ UNCHANGED capacity
LiveSpec ==
    /\ Spec
    /\ WF_vars(Fixed(Enqueue)) /\ WF_vars(Fixed(ProducerStep)) /\ SF_vars(Fixed(NotifyLock))
    /\ \A c \in Readers :
          /\ WF_vars(Fixed(ConsumerStep(c)))
          /\ SF_vars(Fixed(Dequeue(c))) /\ SF_vars(Fixed(WaitLock(c)))

-----------------------------------------------------------------------------
(* The cached minimum is never ahead of a consumer, although each thread   *)
(* computes it from tails loaded at different times and stores it later.   *)
MinTailConservative == \A c \in Readers : min_tail <= tails[c]

(* Every consumer gets every record, once and in the order of enqueueing:  *)
(* no slot is overwritten between a consumer's check of seq and its read   *)
(* of ptr, and none is read twice.                                         *)
InOrder == \A c \in Readers : got[c] = [i \in 1 .. Len(got[c]) |-> i]

(* A sleeping consumer with enough to read is not forgotten: the producer  *)
(* is on its way to a broadcast.                                           *)
NoLostWakeup ==
    \A c \in sleeping :
        head - tails[c] >= MinBatch => pc[Producer] \in {"lock", "broadcast"}

(* The ring implements a log that every consumer reads in full (module     *)
(* BroadcastLog).  A record is published by the store of slot.seq, one     *)
(* step before the store of head, taken by the read of slot.ptr and given  *)
(* back by the store of the consumer's tail.                               *)
Published == IF pc[Producer] = "head" THEN head + 1 ELSE head
Log == INSTANCE BroadcastLog WITH
    Sizes     <- Capacities,
    size      <- capacity,
    published <- Published,
    taken     <- got,
    freed     <- tails
ImplementsLog == Log!Spec

(* "Blocks (spins) until space is available": an enqueue call returns when *)
(* the consumers keep consuming.                                           *)
EnqueueReturns == (pc[Producer] # "idle") ~> (pc[Producer] = "idle")

(* The producer gets all its records into the ring and every consumer gets *)
(* all of them out: neither waits for the other in vain, in a spin or in   *)
(* pthread_cond_wait.                                                      *)
EveryRecordRead == <>(\A c \in Readers : Len(got[c]) = MaxRecords)
=============================================================================
