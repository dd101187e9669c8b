------------------------------- MODULE ShmRing -------------------------------
(***************************************************************************)
(* The shared memory of a stream (om_bus_shm.c), the producer and the      *)
(* endpoints that use it, and what they compute from it.                   *)
(***************************************************************************)
EXTENDS Integers, Sequences, FiniteSets

CONSTANTS
    Consumers,   \* max_consumers
    Capacity,    \* config.capacity
    MaxSeq,      \* bound on the WAL sequence numbers
    MaxEpoch,    \* bound on the times the stream is created
    Profiles     \* the stream configurations, and how it is used

Readers == 0 .. Consumers - 1

ASSUME BusShmAssumption ==
    /\ {Consumers, Capacity, MaxSeq, MaxEpoch} \subseteq Nat \ {0}
    /\ Profiles \subseteq [broadcast : BOOLEAN,   \* OM_BUS_FLAG_BROADCAST
                           crc       : BOOLEAN,   \* OM_BUS_FLAG_CRC
                           staleness : BOOLEAN,   \* staleness_ns > 0
                           reject    : BOOLEAN,   \* OM_BUS_FLAG_REJECT_REORDER
                           zero_copy : BOOLEAN,   \* zero_copy of the endpoints that open
                           batch     : Nat \ {0}, \* most records published or polled at once
                           records   : 0 .. MaxSeq,    \* WAL records of this run
                           users     : SUBSET Readers, \* the endpoints that open
                           ops       : SUBSET {"poll", "poll_batch", "seek_head", "rewind",
                                               "peek", "close", "die", "too_large", "restart", "quiet"}]

None    == 0             \* no record

VARIABLES
    profile,    \* the configuration of this stream
    slots,      \* each slot: seq, hdr (wal_seq), crc, payload
    head, min_tail, epoch,  \* the header page; epoch 0 while it is being created
    tails,      \* OmBusConsumerTail: tail, wal_seq, live (last_poll_ns # 0), stale
    prod,       \* the producer: pc, pos, left, chunk, scan
    late,       \* for each scan of the tails, by the endpoint that scans (Consumers is
                \* the producer): the endpoints stamped since it read the clock
    next_seq,   \* the next WAL sequence number
    stream,     \* history: the records published in this epoch, by position
    ep,         \* the endpoints: pc and the locals of the call in progress
    handed,     \* history: the last record each endpoint handed out
    overtaken,  \* history: endpoints overtaken or forgotten while they opened, or left
                \* out of a scan
    quiet,      \* history: endpoints that made no poll for staleness_ns
    stray       \* history: an endpoint the producer may count as gone has moved a
                \* tail or min_tail of this epoch, see Strays

shm  == <<slots, head, min_tail, epoch, tails>>
hist == <<stream, handed, overtaken, quiet>>
vars == <<profile, shm, prod, next_seq, ep, hist, stray, late>>

NoScan   == [next |-> 0, tail |-> -1, min |-> -1]     \* min: UINT64_MAX
NoHanded == [seq |-> None, payload |-> None, ref |-> FALSE, pos |-> -1, prev |-> None,
             result |-> "none"]
NewEp    == [pc |-> "closed", op |-> "poll", epoch |-> 0, expected |-> 0, tail |-> 0, seq |-> 0,
             hdr |-> None, crc |-> None, copy |-> None, count |-> 0, scan |-> NoScan,
             back |-> << >>, lapped |-> FALSE]
NewTail  == [tail |-> 0, wal_seq |-> 0, live |-> FALSE, stale |-> FALSE]
NewSlots == [i \in 0 .. Capacity - 1 |->
                [seq |-> i, hdr |-> None, crc |-> None, payload |-> None]]
NewProd  == [pc |-> "idle", pos |-> 0, left |-> 0, chunk |-> 0, scan |-> NoScan]

Index(pos) == pos % Capacity
(* head - min_tail >= capacity in 64 bits: a tail past the head is full.   *)
(* Mutant: the ring holds one record too many.                             *)
Mut_Full(pos, mt) == pos - mt > Capacity \/ mt > pos
Full(pos, mt) == pos - mt >= Capacity \/ mt > pos

(* _om_bus_min_tail_live: the clock is read once, then for one endpoint    *)
(* after the other its tail and its stamp are loaded.  now - last_poll_ns  *)
(* is unsigned: an endpoint stamped after the clock was read looks stale.  *)
(* Mutant: a stale endpoint still counts.                                  *)
Mut_Counted(c, x) == tails[c].live
Counted(c, x) == tails[c].live /\ ~(profile.staleness /\ (tails[c].stale \/ c \in late[x]))
Lower(scan) == IF scan.min = -1 \/ scan.tail < scan.min THEN scan.tail ELSE scan.min
ScanNext(scan, x) ==
    IF scan.tail = -1 THEN [scan EXCEPT !.tail = tails[scan.next].tail]
    ELSE [next |-> scan.next + 1, tail |-> -1,
          min  |-> IF Counted(scan.next, x) THEN Lower(scan) ELSE scan.min]
(* History: an open endpoint that the scan leaves out is overtaken.        *)
Skips(scan, x) ==
    {c \in Readers : scan.tail # -1 /\ c = scan.next /\ tails[c].live /\ ~Counted(c, x)}
ScanResult(scan, fallback) == IF scan.min = -1 THEN fallback ELSE scan.min

Static == UNCHANGED <<profile, slots, head, epoch, prod, next_seq, stream>>

(* Where the call of an endpoint has got to.                               *)
Position(e) == e.tail + e.count
Slot(e)     == slots[Index(Position(e))]

(* _om_bus_gap_result.                                                     *)
GapResult(e) ==
    IF e.expected = 0 \/ e.hdr = e.expected THEN "ok"
    ELSE IF e.hdr > e.expected THEN "gap"
    ELSE IF profile.reject THEN "reorder" ELSE "ok"

(* History: an endpoint that checked the epoch before the stream was       *)
(* created again moves a tail or min_tail of the new stream; or the stamp  *)
(* of an endpoint grew stale while it computes min_tail, and its own scan  *)
(* leaves it out.                                                          *)
Strays(c) ==
    \/ ep[c].epoch # epoch /\ (tails'[c].tail # tails[c].tail \/ min_tail' # min_tail)
    \/ ep[c].pc = "refresh" /\ c \in Skips(ep[c].scan, c)

(* The scans that have read the clock, by who makes them, and what stamps  *)
(* of the endpoints C in this step mean to them.                           *)
Scans == {c \in Readers : ep[c].pc = "refresh" /\ ep[c].scan # NoScan}
         \cup {c \in {Consumers} : prod.pc = "scan" /\ prod.scan # NoScan}
Stamped(C) ==
    late' = [x \in 0 .. Consumers |->
                IF profile.staleness /\ x \in Scans' THEN late[x] \cup C ELSE {}]
(* The endpoint c if its step, a part of endpoint_open or of a poll,       *)
(* stores last_poll_ns.                                                    *)
Stamping(c) ==
    {d \in {c} : \/ ep[c].pc = "stamp" /\ ep'[c].pc = "idle"
                 \/ ep[c].pc \in {"accept", "end"} /\ tails'[c].tail # tails[c].tail}

Attached(c) == ep[c].pc \notin {"closed", "open", "stamp", "dead"} /\ ep[c].epoch = epoch
Writing     == prod.pc \in {"payload", "header", "seq"}

(* The producer has come round to the slot of position k, or died there.   *)
Rewriting      == prod.pc \in {"header", "seq", "down"}
Overwritten(k) == Len(stream) + (IF Rewriting THEN 1 ELSE 0) > k + Capacity
=============================================================================
