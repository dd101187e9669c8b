------------------------------- MODULE BusShm -------------------------------
(***************************************************************************)
(* The shared-memory bus (om_bus_shm.c): one stream publishes records into *)
(* a ring that endpoints in other processes poll.                          *)
(*                                                                         *)
(* In queue mode the producer waits for the slowest live endpoint; with    *)
(* OM_BUS_FLAG_BROADCAST it overwrites, and endpoints notice that they     *)
(* were lapped.  A slot is published by its sequence word; min_tail is a   *)
(* cached lower bound on the tails that producer and endpoints refresh.    *)
(*                                                                         *)
(* One action is one access of shared memory that another process can      *)
(* tell apart, and atomics are sequentially consistent.  The payload and   *)
(* the rest of the slot are plain stores, a step each.  A record is named  *)
(* by its wal_seq, and its payload and CRC by the record they belong to.   *)
(***************************************************************************)
EXTENDS ShmRing

Init ==
    /\ profile \in Profiles
    /\ slots = NewSlots /\ head = 0 /\ min_tail = 0 /\ epoch = 1
    /\ tails = [c \in Readers |-> NewTail]
    /\ prod = NewProd /\ next_seq = 1
    /\ ep = [c \in Readers |-> NewEp]
    /\ stream = << >>
    /\ handed = [c \in Readers |-> NoHanded]
    /\ overtaken = {} /\ quiet = {} /\ stray = FALSE /\ late = [x \in 0 .. Consumers |-> {}]

-----------------------------------------------------------------------------
(* The producer: om_bus_stream_publish is om_bus_stream_publish_batch of   *)
(* one record.                                                             *)
Unmoved == UNCHANGED <<profile, ep, tails, epoch, handed, overtaken, quiet>>

Publish(n) ==
    /\ prod.pc = "idle" /\ n <= profile.batch /\ next_seq + n - 1 <= profile.records
    /\ prod' = [prod EXCEPT !.pc = IF profile.broadcast THEN "invalidate" ELSE "space",
                            !.pos = head, !.left = n, !.chunk = n]
    /\ Unmoved /\ UNCHANGED <<slots, head, min_tail, next_seq, stream>>

(* A record too large for a slot is refused: its number is never published *)
(* (the callback of om_bus_wal.h ignores the error).                       *)
TooLarge ==
    /\ prod.pc = "idle" /\ "too_large" \in profile.ops /\ next_seq <= profile.records
    /\ next_seq' = next_seq + 1
    /\ Unmoved /\ UNCHANGED <<slots, head, min_tail, prod, stream>>

CheckSpace ==
    LET room == Capacity - (prod.pos - min_tail)
    IN  /\ prod.pc = "space"
        /\ prod' = IF Full(prod.pos, min_tail)
                   THEN [prod EXCEPT !.pc = "scan", !.scan = NoScan]
                   ELSE [prod EXCEPT !.pc = "payload",
                                     !.chunk = IF prod.left > room THEN room ELSE prod.left]
        /\ Unmoved /\ UNCHANGED <<slots, head, min_tail, next_seq, stream>>

ScanTail ==
    /\ prod.pc = "scan" /\ prod.scan.next < Consumers
    /\ prod' = [prod EXCEPT !.scan = ScanNext(@, Consumers)]
    /\ overtaken' = overtaken \cup Skips(prod.scan, Consumers)
    /\ UNCHANGED <<profile, shm, next_seq, stream, ep, handed, quiet>>
StoreMin ==
    /\ prod.pc = "scan" /\ prod.scan.next = Consumers
    /\ min_tail' = ScanResult(prod.scan, prod.pos)
    /\ prod' = [prod EXCEPT !.pc = "space", !.scan = NoScan]
    /\ Unmoved /\ UNCHANGED <<slots, head, next_seq, stream>>

(* _om_bus_publish_slot.                                                   *)
Invalidate ==
    /\ prod.pc = "invalidate"
    /\ slots' = [slots EXCEPT ![Index(prod.pos)].seq = 0]
    /\ prod' = [prod EXCEPT !.pc = "payload"]
    /\ Unmoved /\ UNCHANGED <<head, min_tail, next_seq, stream>>
WritePayload ==
    /\ prod.pc = "payload"
    /\ slots' = [slots EXCEPT ![Index(prod.pos)].payload = next_seq]
    /\ prod' = [prod EXCEPT !.pc = "header"]
    /\ Unmoved /\ UNCHANGED <<head, min_tail, next_seq, stream>>
WriteHeader ==
    /\ prod.pc = "header"
    /\ slots' = [slots EXCEPT ![Index(prod.pos)].hdr = next_seq,
                              ![Index(prod.pos)].crc = next_seq]
    /\ prod' = [prod EXCEPT !.pc = "seq"]
    /\ Unmoved /\ UNCHANGED <<head, min_tail, next_seq, stream>>
StoreSeq ==
    /\ prod.pc = "seq"
    /\ slots' = [slots EXCEPT ![Index(prod.pos)].seq = prod.pos + 1]
    /\ stream' = Append(stream, next_seq)
    /\ next_seq' = next_seq + 1
    /\ prod' = [prod EXCEPT !.pos = @ + 1, !.left = @ - 1, !.chunk = @ - 1,
                            !.pc = IF prod.left = 1 THEN "head"
                                   ELSE IF profile.broadcast THEN "invalidate"
                                   ELSE IF prod.chunk = 1 THEN "space" ELSE "payload"]
    /\ Unmoved /\ UNCHANGED <<head, min_tail>>
StoreHead ==
    /\ prod.pc = "head"
    /\ head' = prod.pos
    /\ prod' = [prod EXCEPT !.pc = "idle"]
    /\ Unmoved /\ UNCHANGED <<slots, min_tail, next_seq, stream>>

(* The producer dies, and om_bus_stream_create wipes and sets up the same  *)
(* shared memory again.                                                    *)
ProducerDies ==
    /\ prod.pc \notin {"down", "create", "tails"} /\ "restart" \in profile.ops /\ epoch < MaxEpoch
    /\ prod' = [NewProd EXCEPT !.pc = "down"]
    /\ UNCHANGED <<profile, shm, next_seq, ep, hist>>
Wipe ==
    /\ prod.pc = "down"
    /\ slots' = [i \in DOMAIN slots |->
                    [seq |-> 0, hdr |-> None, crc |-> None, payload |-> None]]
    /\ head' = 0 /\ min_tail' = 0 /\ epoch' = 0
    /\ tails' = [c \in Readers |-> NewTail]
    /\ prod' = [prod EXCEPT !.pc = "create", !.left = epoch]
    /\ UNCHANGED <<profile, next_seq, ep, hist>>
CreateHeader ==
    /\ prod.pc = "create"
    /\ head' = 0 /\ min_tail' = 0 /\ epoch' = prod.left + 1
    /\ prod' = [NewProd EXCEPT !.pc = "tails"]
    /\ stream' = << >>
    /\ UNCHANGED <<profile, slots, tails, next_seq, ep, handed, overtaken, quiet>>
(* An endpoint that opened since then is forgotten.                        *)
CreateTails ==
    /\ prod.pc = "tails"
    /\ tails' = [c \in Readers |-> NewTail]
    /\ slots' = [i \in DOMAIN slots |-> [slots[i] EXCEPT !.seq = i]]
    /\ overtaken' = overtaken \cup {c \in Readers : tails[c].live}
    /\ prod' = NewProd
    /\ UNCHANGED <<profile, head, min_tail, epoch, next_seq, stream, ep, handed, quiet>>

-----------------------------------------------------------------------------
(* Endpoints.                                                              *)
Local(c, e) == ep' = [ep EXCEPT ![c] = e]

(* om_bus_endpoint_open: the position is loaded before it is announced.    *)
Open(c) ==
    /\ ep[c].pc = "closed" /\ c \in profile.users /\ epoch # 0
    /\ ~(profile.broadcast /\ profile.zero_copy)
    /\ Local(c, [NewEp EXCEPT !.pc = "open", !.epoch = epoch, !.tail = head])
    /\ handed' = [handed EXCEPT ![c] = NoHanded]
    /\ Static /\ UNCHANGED <<min_tail, tails, overtaken, quiet>>
OpenTail(c) ==
    /\ ep[c].pc = "open"
    /\ tails' = [tails EXCEPT ![c].tail = ep[c].tail, ![c].wal_seq = 0]
    /\ Local(c, [ep[c] EXCEPT !.pc = "stamp"])
    /\ Static /\ UNCHANGED <<min_tail, handed, overtaken, quiet>>
OpenStamp(c) ==
    /\ ep[c].pc = "stamp"
    /\ tails' = [tails EXCEPT ![c].live = TRUE, ![c].stale = FALSE]
    /\ Local(c, [ep[c] EXCEPT !.pc = "idle"])
    /\ overtaken' = IF Len(stream) # ep[c].tail THEN overtaken \cup {c} ELSE overtaken \ {c}
    /\ quiet' = quiet \ {c}
    /\ Static /\ UNCHANGED <<min_tail, handed>>
Close(c) ==
    /\ ep[c].pc = "idle" /\ "close" \in profile.ops
    /\ tails' = [tails EXCEPT ![c].live = FALSE]
    /\ Local(c, NewEp)
    /\ Static /\ UNCHANGED <<min_tail, handed, overtaken, quiet>>
(* The process of an endpoint dies.                                        *)
Die(c) ==
    /\ ep[c].pc \notin {"closed", "dead"} /\ "die" \in profile.ops
    /\ Local(c, [ep[c] EXCEPT !.pc = "dead"])
    /\ Static /\ UNCHANGED <<min_tail, tails, handed, overtaken, quiet>>

(* A call returns; the poll inside peek_previous returns to its caller.    *)
(* OM_ERR_BUS_LAPPED is told apart from the other results.                 *)
Returned(e, lapped) ==
    [NewEp EXCEPT !.pc = IF e.back = << >> THEN "idle" ELSE "restore", !.lapped = lapped,
                  !.epoch = e.epoch, !.expected = e.expected, !.back = e.back]

(* om_bus_endpoint_poll and om_bus_endpoint_poll_batch.                    *)
Poll(c, op) ==
    /\ ep[c].pc \in {"idle", "peek"} /\ op \in profile.ops
    /\ Local(c, IF epoch # ep[c].epoch THEN Returned(ep[c], FALSE)
                ELSE [ep[c] EXCEPT !.pc = "tail", !.op = op, !.lapped = FALSE])
    /\ quiet' = quiet \ {c}
    /\ Static /\ UNCHANGED <<min_tail, tails, handed, overtaken>>
LoadTail(c) ==
    /\ ep[c].pc = "tail"
    /\ Local(c, [ep[c] EXCEPT !.pc = "seq", !.tail = tails[c].tail, !.count = 0])
    /\ Static /\ UNCHANGED <<min_tail, tails, handed, overtaken, quiet>>

(* A batch that has read something ends where a poll would return.         *)
Stopped(e, lapped) == IF e.count > 0 THEN [e EXCEPT !.pc = "end"] ELSE Returned(e, lapped)

(* Mutant: any other sequence word is a lap.                               *)
Mut_CheckSeq(c) ==
    LET e == ep[c]
        s == Slot(e).seq
    IN  /\ e.pc = "seq"
        /\ Local(c, IF s = Position(e) + 1 THEN [e EXCEPT !.pc = "header", !.seq = s]
                    ELSE Stopped(e, profile.broadcast /\ s # 0))
        /\ Static /\ UNCHANGED <<min_tail, tails, handed, overtaken, quiet>>
CheckSeq(c) ==
    LET e == ep[c]
        s == Slot(e).seq
    IN  /\ e.pc = "seq"
        /\ Local(c, IF s = Position(e) + 1 THEN [e EXCEPT !.pc = "header", !.seq = s]
                    ELSE Stopped(e, profile.broadcast /\ s > Position(e) + 1))
        /\ Static /\ UNCHANGED <<min_tail, tails, handed, overtaken, quiet>>
ReadHeader(c) ==
    /\ ep[c].pc = "header"
    /\ Local(c, [ep[c] EXCEPT !.pc = "copy", !.hdr = Slot(ep[c]).hdr, !.crc = Slot(ep[c]).crc])
    /\ Static /\ UNCHANGED <<min_tail, tails, handed, overtaken, quiet>>
(* The payload as the CRC sees it: copied into copy_buf, or left in the    *)
(* ring, and the caller is given a pointer to it (Borrowed).               *)
CopyPayload(c) ==
    /\ ep[c].pc = "copy"
    /\ Local(c, [ep[c] EXCEPT !.pc = IF profile.broadcast THEN "recheck" ELSE "accept",
                              !.copy = Slot(ep[c]).payload])
    /\ Static /\ UNCHANGED <<min_tail, tails, handed, overtaken, quiet>>
(* Mutant: the sequence word is not loaded again.                          *)
Mut_Recheck(c) ==
    /\ ep[c].pc = "recheck"
    /\ Local(c, [ep[c] EXCEPT !.pc = "accept"])
    /\ Static /\ UNCHANGED <<min_tail, tails, handed, overtaken, quiet>>
Recheck(c) ==
    LET e == ep[c]
    IN  /\ e.pc = "recheck"
        /\ Local(c, IF Slot(e).seq # e.seq THEN Stopped(e, TRUE)
                    ELSE [e EXCEPT !.pc = "accept"])
        /\ Static /\ UNCHANGED <<min_tail, tails, handed, overtaken, quiet>>

(* The first three stores of _om_bus_endpoint_advance, in one step: a scan *)
(* between them sees the new tail of an endpoint that still looks stale,   *)
(* and leaves it out like a scan before them.                              *)
Advance(c, n, seq) ==
    tails' = [tails EXCEPT ![c] = [tail |-> ep[c].tail + n, wal_seq |-> seq,
                                   live |-> TRUE, stale |-> FALSE]]
(* zero_copy, and every batch in queue mode, hand out a pointer into the   *)
(* slot, and the tail moves on before the caller reads it.                 *)
Borrowed(e) == ~profile.broadcast /\ (profile.zero_copy \/ e.op = "poll_batch")
Hand(c, result) ==
    handed' = [handed EXCEPT ![c] = IF ep[c].back # << >> THEN @ ELSE
                 [seq |-> ep[c].hdr, payload |-> ep[c].copy, ref |-> Borrowed(ep[c]),
                  pos |-> Position(ep[c]), prev |-> @.seq, result |-> result]]
Advanced(e) == IF profile.broadcast THEN Returned(e, FALSE) ELSE [e EXCEPT !.pc = "min"]

Refused(e) == profile.crc /\ e.copy # e.crc
Accept(c) ==
    LET e == ep[c]
        limit == IF profile.broadcast THEN 1 ELSE profile.batch
    IN  /\ e.pc = "accept"
        /\ \/ /\ Refused(e)
              /\ Local(c, Stopped(e, FALSE))
              /\ UNCHANGED <<tails, handed>>
           \/ /\ ~Refused(e) /\ e.op = "poll"
              /\ Hand(c, GapResult(e))
              /\ Advance(c, 1, e.hdr)
              /\ Local(c, Advanced([e EXCEPT !.expected = e.hdr + 1, !.count = 1]))
           \/ /\ ~Refused(e) /\ e.op = "poll_batch"
              /\ Hand(c, "batch")
              /\ Local(c, [e EXCEPT !.count = @ + 1,
                                    !.pc = IF e.count + 1 = limit THEN "end" ELSE "seq"])
              /\ UNCHANGED tails
        /\ Static /\ UNCHANGED <<min_tail, overtaken, quiet>>
(* Mutant: the tail moves past the slot that ended the batch.              *)
Mut_BatchEnd(c) ==
    /\ ep[c].pc = "end"
    /\ Advance(c, ep[c].count + 1, handed[c].seq)
    /\ Local(c, Advanced([ep[c] EXCEPT !.expected = handed[c].seq + 1]))
    /\ Static /\ UNCHANGED <<min_tail, handed, overtaken, quiet>>
BatchEnd(c) ==
    /\ ep[c].pc = "end"
    /\ Advance(c, ep[c].count, handed[c].seq)
    /\ Local(c, Advanced([ep[c] EXCEPT !.expected = handed[c].seq + 1]))
    /\ Static /\ UNCHANGED <<min_tail, handed, overtaken, quiet>>

(* The rest of _om_bus_endpoint_advance: min_tail is computed again when   *)
(* this endpoint may have been the slowest.                                *)
CheckMin(c) ==
    LET e == ep[c]
    IN  /\ e.pc = "min"
        /\ Local(c, IF e.tail = min_tail \/ Position(e) < min_tail
                    THEN [e EXCEPT !.pc = "refresh", !.scan = NoScan]
                    ELSE Returned(e, FALSE))
        /\ Static /\ UNCHANGED <<min_tail, tails, handed, overtaken, quiet>>
RefreshScan(c) ==
    /\ ep[c].pc = "refresh" /\ ep[c].scan.next < Consumers
    /\ Local(c, [ep[c] EXCEPT !.scan = ScanNext(@, c)])
    /\ overtaken' = overtaken \cup Skips(ep[c].scan, c)
    /\ Static /\ UNCHANGED <<min_tail, tails, handed, quiet>>
RefreshStore(c) ==
    /\ ep[c].pc = "refresh" /\ ep[c].scan.next = Consumers
    /\ min_tail' = ScanResult(ep[c].scan, Position(ep[c]))
    /\ Local(c, Returned(ep[c], FALSE))
    /\ Static /\ UNCHANGED <<tails, handed, overtaken, quiet>>

(* om_bus_endpoint_seek_head.  expected_wal_seq is kept.                   *)
SeekHead(c) ==
    /\ ep[c].pc = "idle" /\ "seek_head" \in profile.ops
    /\ tails' = [tails EXCEPT ![c].tail = head, ![c].live = TRUE, ![c].stale = FALSE]
    /\ Static /\ UNCHANGED <<ep, min_tail, handed, overtaken, quiet>>
(* om_bus_endpoint_rewind_retained.                                        *)
Rewind(c) ==
    /\ ep[c].pc = "idle" /\ "rewind" \in profile.ops
    /\ tails' = [tails EXCEPT ![c].tail = IF head > Capacity THEN head - Capacity ELSE 0]
    /\ Local(c, [ep[c] EXCEPT !.expected = 0])
    /\ handed' = [handed EXCEPT ![c] = NoHanded]
    /\ Static /\ UNCHANGED <<min_tail, overtaken, quiet>>
(* om_bus_endpoint_peek_previous: a poll at an earlier position.           *)
Peek(c, distance) ==
    LET t == tails[c].tail
    IN  /\ ep[c].pc = "idle" /\ "peek" \in profile.ops /\ distance <= t
        /\ tails' = [tails EXCEPT ![c].tail = t - distance]
        /\ Local(c, [ep[c] EXCEPT !.pc = "peek", !.expected = 0,
                                  !.back = <<t, ep[c].expected>>])
        /\ Static /\ UNCHANGED <<min_tail, handed, overtaken, quiet>>
(* Mutant: expected_wal_seq stays 0.                                       *)
Mut_Restore(c) ==
    /\ ep[c].pc = "restore"
    /\ tails' = [tails EXCEPT ![c].tail = ep[c].back[1]]
    /\ Local(c, [ep[c] EXCEPT !.pc = "idle", !.back = << >>])
    /\ Static /\ UNCHANGED <<min_tail, handed, overtaken, quiet>>
Restore(c) ==
    /\ ep[c].pc = "restore"
    /\ tails' = [tails EXCEPT ![c].tail = ep[c].back[1]]
    /\ Local(c, [ep[c] EXCEPT !.pc = "idle", !.expected = ep[c].back[2], !.back = << >>])
    /\ Static /\ UNCHANGED <<min_tail, handed, overtaken, quiet>>

(* staleness_ns passes without a new stamp, and without a poll.            *)
GrowStale(c) ==
    /\ profile.staleness /\ tails[c].live /\ ~tails[c].stale
    /\ tails' = [tails EXCEPT ![c].stale = TRUE]
    /\ Static /\ UNCHANGED <<min_tail, ep, handed, overtaken, quiet>>
GrowQuiet(c) ==
    /\ "quiet" \in profile.ops /\ tails[c].stale /\ c \notin quiet
    /\ quiet' = quiet \cup {c}
    /\ Static /\ UNCHANGED <<min_tail, tails, ep, handed, overtaken>>
-----------------------------------------------------------------------------
ProducerStep == CheckSpace \/ ScanTail \/ StoreMin \/ Invalidate \/ WritePayload \/ WriteHeader
                \/ StoreSeq \/ StoreHead \/ Wipe \/ CreateHeader
                \/ CreateTails
EndpointStep(c) ==
    \/ OpenTail(c) \/ OpenStamp(c) \/ LoadTail(c) \/ CheckSeq(c) \/ ReadHeader(c)
    \/ CopyPayload(c) \/ Recheck(c) \/ Accept(c) \/ BatchEnd(c) \/ CheckMin(c) \/ RefreshScan(c)
    \/ RefreshStore(c) \/ Restore(c)
EndpointCall(c) ==
    \/ Open(c) \/ Close(c) \/ Die(c) \/ Poll(c, "poll") \/ (ep[c].pc = "idle" /\ Poll(c, "poll_batch"))
    \/ Rewind(c) \/ \E d \in 1 .. Capacity : Peek(c, d)

ByProducer(A) == A /\ stray' = (stray /\ prod.pc # "create") /\ Stamped({})
ByEndpoint(c) ==
    /\ \/ (EndpointStep(c) \/ EndpointCall(c)) /\ Stamped(Stamping(c))
       \/ SeekHead(c) /\ Stamped({c})
    /\ stray' = (stray \/ Strays(c))
ByClock(A)    == A /\ stray' = stray /\ Stamped({})

Next ==
    \/ ByProducer((\E n \in 1 .. Capacity + 1 : Publish(n)) \/ TooLarge \/ ProducerStep \/ ProducerDies)
    \/ \E c \in Readers : ByEndpoint(c) \/ ByClock(GrowStale(c) \/ GrowQuiet(c))

Spec == Init /\ [][Next]_vars

(* A call in progress goes on, and time passes.  Nobody has to publish, to *)
(* open or to poll.                                                        *)
LiveSpec ==
    /\ Spec
    /\ WF_vars(ByProducer(ProducerStep))
    /\ \A c \in Readers : WF_vars(ByClock(GrowStale(c)))
-----------------------------------------------------------------------------
TypeOK ==
    /\ profile \in Profiles
    /\ {head, min_tail} \subseteq 0 .. MaxSeq /\ epoch \in 0 .. MaxEpoch
    /\ next_seq \in 1 .. MaxSeq + 1
    /\ \A i \in 0 .. Capacity - 1 :
          slots[i] \in [seq : 0 .. MaxSeq + Capacity, hdr : 0 .. MaxSeq, crc : 0 .. MaxSeq,
                        payload : 0 .. MaxSeq]
    /\ \A c \in Readers :
          /\ tails[c] \in [tail : 0 .. MaxSeq, wal_seq : 0 .. MaxSeq, live : BOOLEAN,
                           stale : BOOLEAN]
          /\ ep[c].expected \in 0 .. MaxSeq + 1 /\ ep[c].count \in 0 .. profile.batch
          /\ handed[c].seq \in 0 .. MaxSeq /\ handed[c].pos \in -1 .. MaxSeq
    /\ prod.pos \in 0 .. MaxSeq /\ (epoch # 0 => prod.left \in 0 .. Capacity + 1)
    /\ overtaken \subseteq Readers /\ quiet \subseteq Readers /\ stray \in BOOLEAN

(* In queue mode om_bus_stream_publish never writes to a slot whose record *)
(* an endpoint has still to read, and never gets further ahead of it than  *)
(* the ring is long, unless the endpoint was overtaken while it opened, or *)
(* was left out as stale, or an endpoint that is gone for the producer     *)
(* interferes (stray): neither the cached min_tail, which endpoints and    *)
(* the producer compute and store without a lock, nor an endpoint that     *)
(* registers during a scan breaks this.  In both modes the positions that  *)
(* rewind, seek and the scans compute stay between 0 and the head's limit. *)
QueueKeepsUnread ==
    /\ TypeOK
    /\ ~profile.broadcast /\ ~stray =>
        \A c \in Readers \ overtaken :
            Attached(c) => /\ Len(stream) <= tails[c].tail + Capacity
                           /\ Writing => Len(stream) < tails[c].tail + Capacity

(* What om_bus_endpoint_poll and om_bus_endpoint_poll_batch hand out at a  *)
(* position is the record published there, header and payload: never a mix *)
(* of two records, in broadcast mode although the slot is overwritten      *)
(* while it is copied, in queue mode unless the endpoint was overtaken or  *)
(* the tails are no longer to be trusted (stray).  A copy stays good; what *)
(* a pointer into the ring (zero_copy, a batch) shows is good until the    *)
(* producer comes round to the slot, "until the producer wraps around and  *)
(* overwrites the slot" (docs/msg_bus.md:225), which it may begin as soon  *)
(* as the call has moved the tail.                                         *)
Shown(h) == IF h.ref THEN slots[Index(h.pos)].payload ELSE h.payload
IntactOrRefused ==
    \A c \in Readers :
        LET h == handed[c]
        IN  /\ Attached(c) /\ h.seq # None
            /\ profile.broadcast \/ (c \notin overtaken /\ ~stray)
            => /\ h.pos \in 0 .. Len(stream) - 1 /\ h.seq = stream[h.pos + 1]
               /\ (h.ref /\ Overwritten(h.pos)) \/ Shown(h) = stream[h.pos + 1]

(* A poll that reports success has skipped no WAL sequence number since    *)
(* the last record this endpoint handed out, and one that reports a gap    *)
(* has: through records the stream refused, seek_head, peek_previous,      *)
(* batches and laps (_om_bus_gap_result).  om_bus_endpoint_poll_batch      *)
(* reports no gap at all, and the poll after it counts from its last       *)
(* record; NothingSkipped says what such a reader can rely on.             *)
NoSilentGap ==
    \A c \in Readers :
        LET h == handed[c]
        IN  h.prev # None => /\ h.result = "ok" => h.seq <= h.prev + 1
                             /\ h.result = "gap" => h.seq > h.prev + 1

(* No call passes over a record: between two records that an endpoint      *)
(* hands out one after the other, by polls, batches or both, the stream    *)
(* published none.  What is missing for a reader of batches, which are not *)
(* told of gaps, was never published.  (Seeking to the head passes over    *)
(* records by design; in queue mode with the exceptions above.)            *)
NothingSkipped ==
    \A c \in Readers :
        LET h == handed[c]
        IN  /\ Attached(c) /\ h.prev # None /\ "seek_head" \notin profile.ops
            /\ profile.broadcast \/ (c \notin overtaken /\ ~stray)
            => \A k \in 1 .. Len(stream) : stream[k] <= h.prev \/ stream[k] >= h.seq

(* OM_ERR_BUS_LAPPED is returned only when the record at the endpoint's    *)
(* position is gone: the producer has come round to its slot again.        *)
LappedIsTrue ==
    [][\A c \in Readers :
          /\ ep'[c].lapped /\ ~ep[c].lapped /\ Attached(c)
          => Len(stream) >= Position(ep[c]) + Capacity]_vars

(* With a staleness threshold, om_bus_stream_publish returns: an endpoint  *)
(* whose process died, or that stopped polling, holds it up only until its *)
(* stamp is stale.                                                         *)
PublishReturns == profile.staleness => [](prod.pc # "idle" => <>(prod.pc = "idle"))

(* "last_poll_ns ... updated on every poll": an endpoint that is left out  *)
(* of the scan as stale has made no poll for staleness_ns.  It fails: only *)
(* a poll that consumed a record stores the time.                          *)
LiveNotSkipped ==
    [][\A c \in overtaken' \ overtaken :
          ep[c].pc \in {"stamp", "dead"} \/ c \in quiet]_vars

(* "payload pointer valid until next poll or close" (om_bus.h:215): what a *)
(* call handed out is still there while the endpoint makes no other call.  *)
(* It fails for pointers into the ring: the call has moved the tail, and   *)
(* the producer may overwrite the slot before the caller reads it.         *)
PointerHeld ==
    \A c \in Readers :
        LET h == handed[c]
        IN  /\ Attached(c) /\ ep[c].pc = "idle" /\ h.seq # None
            /\ c \notin overtaken /\ ~stray
            => Shown(h) = h.seq
=============================================================================
