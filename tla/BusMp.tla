------------------------------- MODULE BusMp -------------------------------
(***************************************************************************)
(* OmBusMP, the bounded many-producer/single-consumer ring that processes  *)
(* share through one block of memory (src/om_bus_mp.c).                    *)
(*                                                                         *)
(* Producers claim a position with a CAS on enqueue_pos, fill the slot and *)
(* commit it with a CAS on slot.seq.  The consumer polls the position      *)
(* dequeue_pos, releases the slot for the next lap and advances.  A slot   *)
(* whose producer does not commit in time is skipped by the consumer,      *)
(* which poisons the late commit.  An idle consumer sleeps on a futex.     *)
(*                                                                         *)
(* One action is one access to shared memory, or a run of accesses of      *)
(* which no other process can see a part.  Atomics are sequentially        *)
(* consistent here.  The header and the payload of a claim are plain       *)
(* stores, each a step of its own: the consumer may overtake a slow        *)
(* producer between them.  The statistics counters are the sizes of the    *)
(* sets published and poisoned and the number of skipped entries of log.   *)
(***************************************************************************)
EXTENDS Integers, Sequences

CONSTANTS
    Producers,           \* concurrent callers of om_bus_mp_publish, or of claim and commit
    Capacity,            \* config.capacity
    MaxPos,              \* bound on the positions claimed in a behaviour
    Calls,               \* the poll calls the consumer makes: "poll", "copy", "batch"
    TooLong,             \* the positions whose payload the buffer of poll_copy cannot hold
    SkipTimeoutElapses,  \* can skip_timeout_ns run out on a blocked slot?
    TimedWait            \* is om_bus_mp_wait called with a finite timeout?

ASSUME BusMpAssumption ==
    /\ Capacity \in Nat \ {0} /\ MaxPos \in Nat
    /\ Calls \subseteq {"poll", "copy", "batch"} /\ TooLong \subseteq Nat
    /\ SkipTimeoutElapses \in BOOLEAN /\ TimedWait \in BOOLEAN

VARIABLES
    enqueue_pos, dequeue_pos,  \* the producer and the consumer cursor
    slot_seq,      \* slot.seq, the ownership word of each slot
    slot_hdr,      \* slot.sequence, producer_id and payload_len
    slot_payload,  \* the payload bytes behind the slot header
    pc, ppos,      \* each producer: where it is, and the position it works on
    cpc, op,       \* the consumer: where it is, and the call it executes
    rec,           \* the OmBusMpRecord the consumer is filling in
    blocked,       \* consumer.blocked_sequence
    elapsed,       \* has skip_timeout_ns passed since blocked_since_ns?
    notify_seq, waiters,  \* meta.notify_seq, meta.waiters
    expected,      \* the notify_seq om_bus_mp_wait read before sleeping
    published,     \* claims committed with OM_BUS_MP_OK
    poisoned,      \* claims refused with OM_BUS_MP_ERR_SLOT_POISONED
    log            \* what the consumer was handed, in order

data  == <<slot_hdr, slot_payload>>
ring  == <<enqueue_pos, dequeue_pos, slot_seq, data>>
prod  == <<pc, ppos>>
scan  == <<rec, blocked, elapsed>>
futex == <<notify_seq, waiters, expected>>
cons  == <<cpc, op, scan, futex>>
hist  == <<published, poisoned, log>>
vars  == <<ring, prod, cons, hist>>

-----------------------------------------------------------------------------
(* A message is identified by the claim it was written for: no two claims  *)
(* carry the same one.                                                     *)
Message   == [producer : Producers, sequence : Nat]
Msg(p, k) == [producer |-> p, sequence |-> k]
NoMessage == [producer |-> "none", sequence |-> -1]
NoRecord  == [hdr |-> NoMessage, payload |-> NoMessage]
NoSequence == -1            \* UINT64_MAX in consumer.blocked_sequence

SlotIndex == 0 .. Capacity - 1
Idx(pos)  == pos % Capacity  \* pos & mask: the capacity is a power of two

(* om_bus_mp_init, om_bus_mp_producer_open and om_bus_mp_consumer_open.    *)
Init ==
    /\ enqueue_pos = 0 /\ dequeue_pos = 0
    /\ slot_seq = [i \in SlotIndex |-> i]
    /\ slot_hdr = [i \in SlotIndex |-> NoMessage]
    /\ slot_payload = [i \in SlotIndex |-> NoMessage]
    /\ pc = [p \in Producers |-> "idle"] /\ ppos = [p \in Producers |-> 0]
    /\ cpc = "idle" /\ op = "none" /\ rec = NoRecord
    /\ blocked = NoSequence /\ elapsed = FALSE
    /\ notify_seq = 0 /\ waiters = 0 /\ expected = 0
    /\ published = {} /\ poisoned = {} /\ log = << >>

-----------------------------------------------------------------------------
(* Producers: om_bus_mp_claim, om_bus_mp_commit, om_bus_mp_publish.        *)

Step(p, from, to) == pc[p] = from /\ pc' = [pc EXCEPT ![p] = to]
SeqOf(p) == slot_seq[Idx(ppos[p])]

(* The head of the claim loop: load enqueue_pos.                           *)
LoadPos(p) ==
    /\ Step(p, "idle", "seq") \/ Step(p, "retry", "seq")
    /\ enqueue_pos < MaxPos
    /\ ppos' = [ppos EXCEPT ![p] = enqueue_pos]
    /\ UNCHANGED <<ring, cons, hist>>

(* Load slot.seq.  diff == 0: the slot is free for this lap, try to take   *)
(* the position.  diff > 0: enqueue_pos has moved on, go round again.      *)
LoadSeq(p) ==
    /\ \/ SeqOf(p) = ppos[p] /\ Step(p, "seq", "cas")
       \/ SeqOf(p) > ppos[p] /\ Step(p, "seq", "retry")
    /\ UNCHANGED <<ring, ppos, cons, hist>>

(* diff < 0: the slot belongs to the previous lap, OM_BUS_MP_ERR_FULL.     *)
(* Mutant: any slot of another lap counts as full.                         *)
Mut_FullReject(p) ==
    /\ SeqOf(p) # ppos[p] /\ Step(p, "seq", "idle")
    /\ UNCHANGED <<ring, ppos, cons, hist>>
FullReject(p) ==
    /\ SeqOf(p) < ppos[p] /\ Step(p, "seq", "idle")
    /\ UNCHANGED <<ring, ppos, cons, hist>>

(* The weak CAS on enqueue_pos, which may also fail spuriously.            *)
(* Mutant: a plain store takes the position.                               *)
Mut_ClaimCas(p) ==
    /\ enqueue_pos' = ppos[p] + 1 /\ Step(p, "cas", "header")
    /\ UNCHANGED <<dequeue_pos, slot_seq, data, ppos, cons, hist>>
ClaimCas(p) ==
    /\ \/ enqueue_pos = ppos[p] /\ enqueue_pos' = ppos[p] + 1 /\ Step(p, "cas", "header")
       \/ Step(p, "cas", "retry") /\ UNCHANGED enqueue_pos
    /\ UNCHANGED <<dequeue_pos, slot_seq, data, ppos, cons, hist>>

(* claim fills in the slot header after it has won the position.           *)
WriteHeader(p) ==
    /\ Step(p, "header", "payload")
    /\ slot_hdr' = [slot_hdr EXCEPT ![Idx(ppos[p])] = Msg(p, ppos[p])]
    /\ UNCHANGED <<enqueue_pos, dequeue_pos, slot_seq, slot_payload, ppos, cons, hist>>

(* The memcpy of om_bus_mp_publish, or the caller writing claim.payload.   *)
WritePayload(p) ==
    /\ Step(p, "payload", "commit")
    /\ slot_payload' = [slot_payload EXCEPT ![Idx(ppos[p])] = Msg(p, ppos[p])]
    /\ UNCHANGED <<enqueue_pos, dequeue_pos, slot_seq, slot_hdr, ppos, cons, hist>>

(* The strong CAS of om_bus_mp_commit: it makes the record visible, or the *)
(* consumer has skipped the slot and the commit is refused.                *)
(* Mutant: the commit stores slot.seq without comparing it.                *)
Mut_Commit(p) ==
    /\ Step(p, "commit", "notify")
    /\ slot_seq' = [slot_seq EXCEPT ![Idx(ppos[p])] = ppos[p] + 1]
    /\ published' = published \cup {Msg(p, ppos[p])}
    /\ UNCHANGED <<enqueue_pos, dequeue_pos, data, ppos, cons, poisoned, log>>
Commit(p) ==
    /\ \/ /\ SeqOf(p) = ppos[p] /\ Step(p, "commit", "notify")
          /\ slot_seq' = [slot_seq EXCEPT ![Idx(ppos[p])] = ppos[p] + 1]
          /\ published' = published \cup {Msg(p, ppos[p])} /\ UNCHANGED poisoned
       \/ /\ SeqOf(p) # ppos[p] /\ Step(p, "commit", "idle")
          /\ poisoned' = poisoned \cup {Msg(p, ppos[p])} /\ UNCHANGED <<slot_seq, published>>
    /\ UNCHANGED <<enqueue_pos, dequeue_pos, data, ppos, cons, log>>

(* _om_bus_mp_notify_publish: load waiters, bump notify_seq, FUTEX_WAKE 1. *)
NotifyLoad(p) ==
    /\ Step(p, "notify", IF waiters = 0 THEN "idle" ELSE "bump")
    /\ UNCHANGED <<ring, ppos, cons, hist>>
(* Mutant: notify_seq is not bumped.                                       *)
Mut_NotifyBump(p) ==
    /\ Step(p, "bump", "wake")
    /\ UNCHANGED <<ring, ppos, cons, hist>>
NotifyBump(p) ==
    /\ Step(p, "bump", "wake") /\ notify_seq' = notify_seq + 1
    /\ UNCHANGED <<ring, ppos, cpc, op, scan, waiters, expected, hist>>
NotifyWake(p) ==
    /\ Step(p, "wake", "idle") /\ cpc' = IF cpc = "asleep" THEN "leave" ELSE cpc
    /\ UNCHANGED <<ring, ppos, op, scan, futex, hist>>
Notify(p) == NotifyLoad(p) \/ NotifyBump(p) \/ NotifyWake(p)

(* A claim that is never committed: the caller drops it, or its process    *)
(* dies and opens a new handle.                                            *)
Abandon(p) ==
    /\ \E l \in {"header", "payload", "commit"} : Step(p, l, "idle")
    /\ UNCHANGED <<ring, ppos, cons, hist>>

Producer(p) ==
    \/ LoadPos(p) \/ LoadSeq(p) \/ FullReject(p) \/ ClaimCas(p)
    \/ WriteHeader(p) \/ WritePayload(p) \/ Commit(p) \/ Notify(p) \/ Abandon(p)

-----------------------------------------------------------------------------
(* The consumer: om_bus_mp_poll, om_bus_mp_poll_copy, om_bus_mp_poll_batch. *)
(* Only the consumer writes dequeue_pos, so loading it is no step.         *)

HeadSeq == slot_seq[Idx(dequeue_pos)]
pending == enqueue_pos > dequeue_pos    \* om_bus_mp_pending() > 0
Return  == cpc' = "idle" /\ op' = "none"
GoOn(l) == cpc' = l /\ UNCHANGED op
Unblock == blocked' = NoSequence /\ elapsed' = FALSE

(* Load slot.seq at dequeue_pos and branch on it.  poll_batch goes on to   *)
(* the next slot from "more" and never takes the skip path.                *)
Poll(o) ==
    /\ cpc = "idle" \/ (cpc = "more" /\ o = op)
    /\ \/ HeadSeq = dequeue_pos + 1 /\ cpc' = "read" /\ op' = o
       \/ HeadSeq = dequeue_pos /\ o # "batch" /\ cpc' = "probe" /\ op' = o
       \/ HeadSeq = dequeue_pos /\ o = "batch" /\ Return
       \/ HeadSeq \notin {dequeue_pos, dequeue_pos + 1} /\ Return
    /\ UNCHANGED <<ring, prod, scan, futex, hist>>

ReadHeader ==
    /\ cpc = "read" /\ GoOn(IF op = "copy" THEN "copy" ELSE "release")
    /\ rec' = [hdr |-> slot_hdr[Idx(dequeue_pos)], payload |-> NoMessage]
    /\ UNCHANGED <<ring, prod, blocked, elapsed, futex, hist>>

(* poll_copy copies the payload while the slot is still its own, or hands  *)
(* out NULL when payload_len says that the caller's buffer is too small.   *)
Copied(hdr, payload) == IF hdr.sequence \in TooLong THEN NoMessage ELSE payload
CopyPayload ==
    /\ cpc = "copy" /\ GoOn("release")
    /\ rec' = [rec EXCEPT !.payload = Copied(rec.hdr, slot_payload[Idx(dequeue_pos)])]
    /\ UNCHANGED <<ring, prod, blocked, elapsed, futex, hist>>

(* Hand the slot to the producers of the next lap.                         *)
(* Mutant: the slot is released for the wrong lap.                         *)
Mut_Release ==
    /\ cpc = "release" /\ GoOn("advance")
    /\ slot_seq' = [slot_seq EXCEPT ![Idx(dequeue_pos)] = dequeue_pos + Capacity - 1]
    /\ UNCHANGED <<enqueue_pos, dequeue_pos, data, prod, scan, futex, hist>>
Release ==
    /\ cpc = "release" /\ GoOn("advance")
    /\ slot_seq' = [slot_seq EXCEPT ![Idx(dequeue_pos)] = dequeue_pos + Capacity]
    /\ UNCHANGED <<enqueue_pos, dequeue_pos, data, prod, scan, futex, hist>>

(* Publish the new dequeue_pos.  poll returns the record; poll_batch may   *)
(* have room for another one.                                              *)
Deliver(kind, r) ==
    /\ dequeue_pos' = dequeue_pos + 1
    /\ log' = Append(log, [kind |-> kind, hdr |-> r.hdr, payload |-> r.payload])
    /\ Unblock /\ rec' = NoRecord
    /\ UNCHANGED <<enqueue_pos, slot_seq, data, prod, futex, published, poisoned>>
Advance ==
    /\ cpc = "advance" /\ Deliver(op, rec)
    /\ Return \/ (op = "batch" /\ GoOn("more"))

(* slot.seq == pos: nothing is claimed, or a claim is not committed yet.   *)
(* The first sight of that starts the clock.                               *)
Probe ==
    /\ cpc = "probe"
    /\ \/ ~pending /\ Return /\ UNCHANGED <<blocked, elapsed>>
       \/ pending /\ blocked # dequeue_pos /\ Return /\ blocked' = dequeue_pos /\ elapsed' = FALSE
       \/ pending /\ blocked = dequeue_pos /\ ~elapsed /\ Return /\ UNCHANGED <<blocked, elapsed>>
       \/ pending /\ blocked = dequeue_pos /\ elapsed /\ GoOn("skip") /\ UNCHANGED <<blocked, elapsed>>
    /\ UNCHANGED <<ring, prod, rec, futex, hist>>

(* The CAS that takes the slot from its producer; it loses to a commit.    *)
(* Mutant: the skip stores slot.seq without comparing it.                  *)
Mut_Skip ==
    /\ cpc = "skip" /\ GoOn("skipadvance")
    /\ slot_seq' = [slot_seq EXCEPT ![Idx(dequeue_pos)] = dequeue_pos + Capacity]
    /\ UNCHANGED <<enqueue_pos, dequeue_pos, data, prod, scan, futex, hist>>
Skip ==
    /\ cpc = "skip"
    /\ \/ /\ HeadSeq = dequeue_pos /\ GoOn("skipadvance")
          /\ slot_seq' = [slot_seq EXCEPT ![Idx(dequeue_pos)] = dequeue_pos + Capacity]
       \/ HeadSeq # dequeue_pos /\ Return /\ UNCHANGED slot_seq
    /\ UNCHANGED <<enqueue_pos, dequeue_pos, data, prod, scan, futex, hist>>
SkipAdvance == cpc = "skipadvance" /\ Deliver("skipped", NoRecord) /\ Return

(* The monotonic clock passes blocked_since_ns + skip_timeout_ns.          *)
Tick ==
    /\ SkipTimeoutElapses /\ blocked # NoSequence /\ ~elapsed /\ elapsed' = TRUE
    /\ UNCHANGED <<ring, prod, cpc, op, rec, blocked, futex, hist>>

-----------------------------------------------------------------------------
(* The consumer: om_bus_mp_wait.                                           *)

(* With a claim pending om_bus_mp_wait returns READY at once.              *)
WaitBegin ==
    /\ cpc = "idle" /\ ~pending /\ cpc' = "expect" /\ op' = "wait"
    /\ UNCHANGED <<ring, prod, scan, futex, hist>>
WaitExpect ==
    /\ cpc = "expect" /\ GoOn("enter") /\ expected' = notify_seq
    /\ UNCHANGED <<ring, prod, scan, notify_seq, waiters, hist>>
WaitEnter ==
    /\ cpc = "enter" /\ GoOn("recheck") /\ waiters' = waiters + 1
    /\ UNCHANGED <<ring, prod, scan, notify_seq, expected, hist>>

(* A claim made meanwhile, or timeout_ns == 0, ends the wait here.         *)
(* Mutant: no second look at the ring before the sleep.                    *)
Mut_WaitRecheck ==
    /\ cpc = "recheck" /\ GoOn("futex")
    /\ UNCHANGED <<ring, prod, scan, futex, hist>>
WaitRecheck ==
    /\ cpc = "recheck"
    /\ \/ (pending \/ TimedWait) /\ GoOn("leave")
       \/ ~pending /\ GoOn("futex")
    /\ UNCHANGED <<ring, prod, scan, futex, hist>>

(* FUTEX_WAIT compares notify_seq with expected and sleeps, atomically.    *)
FutexWait ==
    /\ cpc = "futex" /\ GoOn(IF notify_seq = expected THEN "asleep" ELSE "leave")
    /\ UNCHANGED <<ring, prod, scan, futex, hist>>

(* ETIMEDOUT and EINTR.                                                    *)
FutexTimeout ==
    /\ cpc = "asleep" /\ TimedWait /\ GoOn("leave")
    /\ UNCHANGED <<ring, prod, scan, futex, hist>>
FutexInterrupted ==
    /\ cpc = "asleep" /\ GoOn("leave")
    /\ UNCHANGED <<ring, prod, scan, futex, hist>>

WaitLeave ==
    /\ cpc = "leave" /\ Return /\ waiters' = waiters - 1 /\ expected' = 0
    /\ UNCHANGED <<ring, prod, scan, notify_seq, hist>>

(* The consumer process dies anywhere and opens a new handle: dequeue_pos  *)
(* lives in the ring, the rest of the handle starts afresh.  A death in    *)
(* om_bus_mp_wait leaves its count in meta.waiters behind.                 *)
MaxLeakedWaiters == 1
ConsumerRestart ==
    /\ cpc # "idle" /\ waiters <= MaxLeakedWaiters
    /\ Return /\ Unblock /\ rec' = NoRecord /\ expected' = 0
    /\ UNCHANGED <<ring, prod, notify_seq, waiters, hist>>

-----------------------------------------------------------------------------
PollStep == ReadHeader \/ CopyPayload \/ Release \/ Advance \/ Probe \/ Skip \/ SkipAdvance
WaitStep == WaitExpect \/ WaitEnter \/ WaitRecheck \/ FutexWait \/ WaitLeave
Consumer ==
    \/ \E o \in Calls : Poll(o)
    \/ PollStep \/ WaitBegin \/ WaitStep \/ FutexTimeout \/ FutexInterrupted

Running == Consumer \/ Tick \/ \E p \in Producers : Producer(p)
Next == Running \/ ConsumerRestart
Spec == Init /\ [][Next]_vars

(* A consumer inside a call keeps running, its drain loop calls            *)
(* om_bus_mp_poll again and again, and the clock advances; the consumer    *)
(* process stays up.  A producer that has committed runs to the end of     *)
(* om_bus_mp_commit, but nothing makes a producer finish a claim.          *)
ConsumerFairness ==
    /\ WF_vars(PollStep) /\ WF_vars(WaitStep) /\ WF_vars(FutexTimeout) /\ WF_vars(Tick)
    /\ WF_vars(cpc = "more" /\ Poll("batch")) /\ SF_vars(Poll("poll"))
NotifyFairness == \A p \in Producers : WF_vars(Notify(p))
FairSpec == Init /\ [][Running]_vars /\ ConsumerFairness /\ NotifyFairness

-----------------------------------------------------------------------------
MaybeMessage == Message \cup {NoMessage}

(* Every variable holds a value of its C type.                             *)
TypeOK ==
    /\ enqueue_pos \in Nat /\ dequeue_pos \in Nat
    /\ slot_seq \in [SlotIndex -> Nat]
    /\ slot_hdr \in [SlotIndex -> MaybeMessage]
    /\ slot_payload \in [SlotIndex -> MaybeMessage]
    /\ pc \in [Producers -> {"idle", "retry", "seq", "cas", "header", "payload", "commit",
                             "notify", "bump", "wake"}]
    /\ ppos \in [Producers -> Nat]
    /\ cpc \in {"idle", "more", "read", "copy", "release", "advance", "probe", "skip",
                "skipadvance", "expect", "enter", "recheck", "futex", "asleep", "leave"}
    /\ op \in {"none", "poll", "copy", "batch", "wait"}
    /\ rec \in [hdr : MaybeMessage, payload : MaybeMessage]
    /\ blocked \in Nat \cup {NoSequence} /\ elapsed \in BOOLEAN
    /\ notify_seq \in Nat /\ waiters \in Nat /\ expected \in Nat
    /\ published \subseteq Message /\ poisoned \subseteq Message
    /\ log \in Seq([kind : {"poll", "copy", "batch", "skipped"},
                    hdr : MaybeMessage, payload : MaybeMessage])

(* The oldest position whose slot is still the consumer's: between the two *)
(* stores of a poll, and for ever after a restart between them, the slot   *)
(* at dequeue_pos is free although dequeue_pos does not say so.            *)
Oldest == IF HeadSeq > dequeue_pos + 1 THEN dequeue_pos + 1 ELSE dequeue_pos

(* slot.seq tells the truth: a position that is claimed and not consumed   *)
(* owns its slot, a slot nobody owns is ready for exactly the next lap, at *)
(* most Capacity positions are outstanding, and so no producer ever claims *)
(* over an unconsumed record.                                              *)
RingWindow ==
    /\ Oldest <= enqueue_pos /\ enqueue_pos <= Oldest + Capacity
    /\ \A k \in Oldest .. enqueue_pos - 1 : slot_seq[Idx(k)] \in {k, k + 1}
    /\ \A k \in enqueue_pos .. Oldest + Capacity - 1 : slot_seq[Idx(k)] = k

(* The commit CAS and the skip CAS agree about every position: a claim     *)
(* that was told OM_BUS_MP_OK is handed out as a record and never skipped, *)
(* one that was told SLOT_POISONED is never handed out, and every record   *)
(* handed out was committed, at its own position.                          *)
CommitVerdict ==
    /\ Len(log) = dequeue_pos
    /\ \A m \in published : m.sequence < dequeue_pos => log[m.sequence + 1].kind # "skipped"
    /\ \A m \in poisoned : m.sequence < dequeue_pos => log[m.sequence + 1].kind = "skipped"
    /\ \A i \in DOMAIN log :
          log[i].kind # "skipped" => \E m \in published : m.sequence = i - 1

(* The record handed out for a position is the one committed for it: its   *)
(* sequence field is the position, and what poll_copy copied, if it fits,  *)
(* belongs to the same claim as the header.  It fails when a producer is   *)
(* slower than skip_timeout_ns; what does hold is IntactUnlessSkipped.     *)
Intact(i) ==
    /\ log[i].hdr \in published /\ log[i].hdr.sequence = i - 1
    /\ log[i].kind = "copy" => log[i].payload = Copied(log[i].hdr, log[i].hdr)
DeliveredIntact ==
    \A i \in DOMAIN log : log[i].kind # "skipped" => Intact(i)

(* Only a skip can spoil a record: one whose slot was never taken from a   *)
(* slow producer on an earlier lap is handed out as it was committed.      *)
IntactUnlessSkipped ==
    \A i \in DOMAIN log : log[i].kind # "skipped" =>
        \/ Intact(i)
        \/ \E j \in 1 .. i - 1 : log[j].kind = "skipped" /\ Idx(j - 1) = Idx(i - 1)

(* While the consumer sleeps in om_bus_mp_wait, the producer of every      *)
(* committed record it has not seen is still on its way to wake it.        *)
NoLostWakeup ==
    cpc = "asleep" =>
        \A m \in published : m.sequence >= dequeue_pos =>
            pc[m.producer] \in {"notify", "bump", "wake"}

(* OM_BUS_MP_ERR_FULL is returned only at a moment when Capacity positions *)
(* really are outstanding, however stale the enqueue_pos it started from.  *)
FullIsHonest ==
    [][\A p \in Producers : FullReject(p) => enqueue_pos >= Oldest + Capacity]_vars

(* A committed record is eventually handed out, whatever the claims before *)
(* it: a producer that stops between claim and commit does not stop the    *)
(* ring, and a consumer asleep without a timeout is woken.                 *)
EveryRecordDelivered ==
    \A k \in 0 .. MaxPos - 1 : (\E m \in published : m.sequence = k) ~> dequeue_pos > k

(* The ring implements a bounded queue of claims (module MpQueue).         *)
Queue == INSTANCE MpQueue WITH
    head  <- Oldest,
    tail  <- enqueue_pos,
    ready <- {k \in Oldest .. enqueue_pos - 1 : slot_seq[Idx(k)] = k + 1}
ImplementsQueue == Queue!Spec
=============================================================================
