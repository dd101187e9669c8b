---------------------------- MODULE BusMp_proofs ----------------------------
(***************************************************************************)
(* Proofs about BusMp, for every set of producers, every capacity of at    *)
(* least two and every bound on the positions.                             *)
(***************************************************************************)
EXTENDS BusMp, TLAPS

-----------------------------------------------------------------------------
(* Arithmetic of the ring index.                                           *)

(* A position is its lap times the capacity plus its index in the ring.    *)
LEMMA DivMod ==
    \A a \in Nat : /\ a % Capacity \in SlotIndex
                   /\ a \div Capacity \in Int
                   /\ a = Capacity * (a \div Capacity) + (a % Capacity)
  BY BusMpAssumption DEF SlotIndex

(* A nonzero multiple of the capacity is at least the capacity away from   *)
(* zero.                                                                   *)
LEMMA MultipleOfCapacity ==
    \A k \in Int : /\ Capacity * k \in Int
                   /\ k >= 1 => Capacity * k >= Capacity
                   /\ k <= -1 => Capacity * k <= -Capacity
  BY BusMpAssumption

(* Multiplying by the capacity distributes over a difference.              *)
LEMMA DistributeCapacity ==
    \A j, k \in Int : Capacity * (j - k) = Capacity * j - Capacity * k
  BY BusMpAssumption

(* A position's slot exists: pos & mask is within the ring.                *)
LEMMA IdxType == \A a \in Nat : Idx(a) \in SlotIndex
  BY Zenon, DivMod DEF Idx

(* Two positions less than a lap apart never share a slot.                 *)
LEMMA IdxNear ==
    ASSUME NEW a \in Nat, NEW b \in Nat, Idx(a) = Idx(b), a - b < Capacity, b - a < Capacity
    PROVE  a = b
<1> DEFINE q == a \div Capacity
           r == b \div Capacity
           s == a % Capacity
<1>1. a = Capacity * q + s /\ q \in Int /\ s \in Int
  BY DivMod, BusMpAssumption DEF SlotIndex
<1>2. b = Capacity * r + s /\ r \in Int
  BY Zenon, DivMod DEF Idx
<1> HIDE DEF q, r, s
<1>3. Capacity * (q - r) = Capacity * q - Capacity * r
  BY Zenon, DistributeCapacity, <1>1, <1>2
<1>4. Capacity * (q - r) = a - b
  BY <1>1, <1>2, <1>3, MultipleOfCapacity
<1>5. q - r \in Int
  BY <1>1, <1>2
<1>6. ~(q - r >= 1) /\ ~(q - r <= -1)
  BY <1>4, <1>5, MultipleOfCapacity, BusMpAssumption
<1>7. q = r
  BY <1>1, <1>2, <1>6
<1> QED BY Zenon, <1>1, <1>2, <1>7

(* A position and the one a lap later share their slot.                    *)
LEMMA IdxLap == \A a \in Nat : Idx(a + Capacity) = Idx(a)
<1> SUFFICES ASSUME NEW a \in Nat PROVE Idx(a + Capacity) = Idx(a)
  OBVIOUS
<1> DEFINE q == a \div Capacity
           r == (a + Capacity) \div Capacity
           s == Idx(a)
           t == Idx(a + Capacity)
<1>0. a + Capacity \in Nat
  BY BusMpAssumption
<1>1. a = Capacity * q + s /\ q \in Int
  BY Zenon, DivMod DEF Idx
<1>2. a + Capacity = Capacity * r + t /\ r \in Int
  BY Zenon, DivMod, <1>0 DEF Idx
<1>3. s \in 0 .. Capacity - 1 /\ t \in 0 .. Capacity - 1
  BY Zenon, IdxType, <1>0 DEF SlotIndex
<1> HIDE DEF q, r, s, t
<1>4. r - q \in Int /\ Capacity * r \in Int /\ Capacity * q \in Int
  BY <1>1, <1>2, BusMpAssumption
<1>5. Capacity * (r - q) = Capacity + s - t
  BY DistributeCapacity, <1>1, <1>2, <1>3, <1>4, BusMpAssumption
<1>6. Capacity * ((r - q) - 1) = Capacity * (r - q) - Capacity * 1
  BY DistributeCapacity, <1>4
<1>7. Capacity * ((r - q) - 1) = s - t
  BY <1>3, <1>4, <1>5, <1>6, BusMpAssumption
<1>8. (r - q) - 1 \in Int
  BY <1>4
<1>9. ~((r - q) - 1 >= 1) /\ ~((r - q) - 1 <= -1)
  BY <1>3, <1>7, <1>8, MultipleOfCapacity, BusMpAssumption
<1>10. (r - q) - 1 = 0
  BY <1>1, <1>2, <1>9
<1>11. s - t = 0
  BY <1>7, <1>10, BusMpAssumption
<1> QED BY <1>3, <1>11, BusMpAssumption DEF s, t

(* Slot i starts in the lap of position i.                                 *)
LEMMA IdxSmall == \A i \in SlotIndex : Idx(i) = i
  BY BusMpAssumption DEF SlotIndex, Idx

-----------------------------------------------------------------------------
(* Types.  The kind of a log entry is the call that produced it and the    *)
(* count of waiters includes a registered consumer, so the types of log    *)
(* and waiters need the consumer's place in its calls.                     *)

Delivering == {"read", "copy", "release", "advance", "probe", "skip", "skipadvance"}
Registered == {"recheck", "futex", "asleep", "leave"}
CallInv ==
    /\ cpc \in Delivering => op \in {"poll", "copy", "batch"}
    /\ cpc = "more" => op = "batch"
    /\ cpc \in Registered => waiters >= 1

TypeInv == TypeOK /\ CallInv

(* om_bus_mp_init leaves every variable in its type.                       *)
LEMMA InitType == Init => TypeInv
<1> SUFFICES ASSUME Init PROVE TypeInv
  OBVIOUS
<1> USE DEF Init
<1>1. slot_seq \in [SlotIndex -> Nat]
  BY BusMpAssumption DEF SlotIndex
<1>2. slot_hdr \in [SlotIndex -> MaybeMessage] /\ slot_payload \in [SlotIndex -> MaybeMessage]
  BY Zenon DEF MaybeMessage
<1>3. rec \in [hdr : MaybeMessage, payload : MaybeMessage]
  BY Zenon DEF MaybeMessage, NoRecord
<1>4. pc \in [Producers -> {"idle"}] /\ ppos \in [Producers -> Nat]
  OBVIOUS
<1>5. CallInv
  BY Zenon DEF CallInv, Delivering, Registered
<1>6. elapsed \in BOOLEAN /\ blocked \in Nat \cup {NoSequence}
  BY Zenon
<1>7. log \in Seq([kind : {"poll", "copy", "batch", "skipped"},
                  hdr : MaybeMessage, payload : MaybeMessage])
  OBVIOUS
<1> QED BY Zenon, <1>1, <1>2, <1>3, <1>4, <1>5, <1>6, <1>7 DEF TypeInv, TypeOK

(* Every step of a producer and of the consumer keeps the types.           *)
LEMMA NextType == TypeInv /\ [Next]_vars => TypeInv'
<1> SUFFICES ASSUME TypeInv, [Next]_vars PROVE TypeInv'
  OBVIOUS
<1> USE DEF TypeInv, TypeOK, CallInv, MaybeMessage, Delivering, Registered,
            data, ring, prod, scan, futex, cons, hist
<1>1. CASE UNCHANGED vars
  BY <1>1 DEF vars
<1>2. ASSUME NEW p \in Producers, Producer(p) PROVE TypeInv'
  <2>m. Msg(p, ppos[p]) \in Message
    BY Zenon DEF Msg, Message
  <2>i. Idx(ppos[p]) \in SlotIndex
    BY Zenon, IdxType
  <2>1. CASE LoadPos(p)
    <3>1. pc' = [pc EXCEPT ![p] = "seq"]
      BY Zenon, <2>1 DEF LoadPos, Step
    <3> QED BY <2>1, <3>1 DEF LoadPos
  <2>2. CASE LoadSeq(p)
    <3>1. PICK l \in {"cas", "retry"} : pc' = [pc EXCEPT ![p] = l]
      BY Zenon, <2>2 DEF LoadSeq, Step
    <3> QED BY <2>2, <3>1 DEF LoadSeq
  <2>3. CASE FullReject(p)
    BY <2>3 DEF FullReject, Step
  <2>4. CASE ClaimCas(p)
    <3>1. PICK l \in {"header", "retry"} : pc' = [pc EXCEPT ![p] = l]
      BY Zenon, <2>4 DEF ClaimCas, Step
    <3>2. enqueue_pos' \in Nat
      BY <2>4 DEF ClaimCas
    <3> QED BY <2>4, <3>1, <3>2 DEF ClaimCas
  <2>5. CASE WriteHeader(p)
    BY <2>5, <2>m, <2>i DEF WriteHeader, Step
  <2>6. CASE WritePayload(p)
    BY <2>6, <2>m, <2>i DEF WritePayload, Step
  <2>7. CASE Commit(p)
    <3>1. PICK l \in {"notify", "idle"} : pc' = [pc EXCEPT ![p] = l]
      BY Zenon, <2>7 DEF Commit, Step
    <3>2. slot_seq' \in [SlotIndex -> Nat]
      <4>1. slot_seq' = [slot_seq EXCEPT ![Idx(ppos[p])] = ppos[p] + 1] \/ slot_seq' = slot_seq
        BY Zenon, <2>7 DEF Commit
      <4>2. ppos[p] + 1 \in Nat
        OBVIOUS
      <4>3. slot_seq \in [SlotIndex -> Nat]
        OBVIOUS
      <4> HIDE DEF TypeInv, TypeOK, CallInv
      <4> QED BY Zenon, <2>i, <4>1, <4>2, <4>3
    <3>3. published' \subseteq Message /\ poisoned' \subseteq Message
      BY Zenon, <2>7, <2>m DEF Commit
    <3> QED BY <2>7, <3>1, <3>2, <3>3 DEF Commit
  <2>8. CASE NotifyLoad(p)
    BY <2>8 DEF NotifyLoad, Step
  <2>9. CASE NotifyBump(p)
    BY <2>9 DEF NotifyBump, Step
  <2>10. CASE NotifyWake(p)
    BY <2>10 DEF NotifyWake, Step
  <2>11. CASE Abandon(p)
    BY <2>11 DEF Abandon, Step
  <2> QED
    BY <1>2, <2>1, <2>2, <2>3, <2>4, <2>5, <2>6, <2>7, <2>8, <2>9, <2>10, <2>11, Zenon
       DEF Producer, Notify
<1>3. CASE Consumer
  <2>i. Idx(dequeue_pos) \in SlotIndex
    BY Zenon, IdxType
  <2>1. ASSUME NEW o \in Calls, Poll(o) PROVE TypeInv'
    BY <2>1, BusMpAssumption, Zenon DEF Poll, Return
  <2>2. CASE ReadHeader
    BY Zenon, <2>2, <2>i DEF ReadHeader, GoOn
  <2>3. CASE CopyPayload
    <3>1. Copied(rec.hdr, slot_payload[Idx(dequeue_pos)]) \in MaybeMessage
      BY Zenon, <2>i DEF Copied, TypeOK, TypeInv, MaybeMessage
    <3> QED BY <2>3, <3>1, Zenon DEF CopyPayload, GoOn
  <2>4. CASE Release
    BY <2>4, <2>i, BusMpAssumption DEF Release, GoOn
  <2>5. CASE Advance
    <3>1. log' \in Seq([kind : {"poll", "copy", "batch", "skipped"},
                        hdr : MaybeMessage, payload : MaybeMessage])
      BY <2>5 DEF Advance, Deliver
    <3>2. rec' \in [hdr : MaybeMessage, payload : MaybeMessage]
      BY Zenon, <2>5 DEF Advance, Deliver, NoRecord
    <3>3. cpc' \in {"idle", "more"} /\ op' \in {"none", "batch"} /\ (cpc' = "more" => op' = "batch")
      BY Zenon, <2>5 DEF Advance, Return, GoOn
    <3>4. elapsed' \in BOOLEAN /\ blocked' \in Nat \cup {NoSequence}
      BY <2>5, Zenon DEF Advance, Deliver, Unblock
    <3> QED BY <2>5, <3>1, <3>2, <3>3, <3>4 DEF Advance, Deliver
  <2>6. CASE Probe
    BY <2>6, Zenon DEF Probe, Return, GoOn, pending
  <2>7. CASE Skip
    <3>1. \/ slot_seq' = [slot_seq EXCEPT ![Idx(dequeue_pos)] = dequeue_pos + Capacity]
          \/ slot_seq' = slot_seq
      BY Zenon, <2>7 DEF Skip
    <3>2. slot_seq' \in [SlotIndex -> Nat]
      <4>1. dequeue_pos + Capacity \in Nat
        BY BusMpAssumption
      <4> QED BY Zenon, <2>i, <3>1, <4>1
    <3>3. cpc' \in {"skipadvance", "idle"} /\ op' \in {op, "none"} /\ (cpc' = "skipadvance" => op' = op)
      BY Zenon, <2>7 DEF Skip, Return, GoOn
    <3> QED BY Zenon, <2>7, <3>2, <3>3 DEF Skip
  <2>8. CASE SkipAdvance
    <3>1. log' \in Seq([kind : {"poll", "copy", "batch", "skipped"},
                        hdr : MaybeMessage, payload : MaybeMessage])
      BY <2>8 DEF SkipAdvance, Deliver, NoRecord
    <3>2. rec' \in [hdr : MaybeMessage, payload : MaybeMessage]
      BY Zenon, <2>8 DEF SkipAdvance, Deliver, NoRecord
    <3>4. elapsed' \in BOOLEAN /\ blocked' \in Nat \cup {NoSequence}
      BY <2>8, Zenon DEF SkipAdvance, Deliver, Unblock
    <3> QED BY <2>8, <3>1, <3>2, <3>4 DEF SkipAdvance, Deliver, Return
  <2>9. CASE WaitBegin
    BY Zenon, <2>9 DEF WaitBegin
  <2>10. CASE WaitExpect \/ WaitEnter \/ WaitRecheck \/ FutexWait \/ WaitLeave
    BY <2>10, SMTT(30) DEF WaitExpect, WaitEnter, WaitRecheck, FutexWait, WaitLeave, Return, GoOn
  <2>11. CASE FutexTimeout \/ FutexInterrupted
    BY <2>11 DEF FutexTimeout, FutexInterrupted, GoOn
  <2> QED
    BY <1>3, <2>1, <2>2, <2>3, <2>4, <2>5, <2>6, <2>7, <2>8, <2>9, <2>10, <2>11, Zenon
       DEF Consumer, PollStep, WaitStep
<1>4. CASE Tick
  BY <1>4 DEF Tick
<1>5. CASE ConsumerRestart
  <2>1. rec' \in [hdr : MaybeMessage, payload : MaybeMessage]
    BY Zenon, <1>5 DEF ConsumerRestart, NoRecord
  <2>2. elapsed' \in BOOLEAN /\ blocked' \in Nat \cup {NoSequence}
    BY <1>5, Zenon DEF ConsumerRestart, Unblock
  <2> QED BY Zenon, <1>5, <2>1, <2>2 DEF ConsumerRestart, Return
<1> QED BY <1>1, <1>2, <1>3, <1>4, <1>5, Zenon DEF Next, Running

(* Every variable keeps its type in every behaviour of the ring.           *)
THEOREM TypeCorrect == Spec => []TypeOK
<1>1. TypeInv => TypeOK
  BY Zenon DEF TypeInv
<1> QED BY InitType, NextType, <1>1, PTL DEF Spec

-----------------------------------------------------------------------------
(* The ring.  RingWindow is not inductive: it needs that a slot never goes *)
(* back to a lap the consumer has left (Retired), what a producer knows of *)
(* the position it works on (ClaimInv), and what the consumer has read of  *)
(* the slot at dequeue_pos (HoldInv).                                      *)

Claimed == {"header", "payload", "commit"}
Retired == \A k \in Nat : k < Oldest => slot_seq[Idx(k)] > k
ClaimInv ==
    \A p \in Producers :
        /\ pc[p] \in {"seq", "cas"} => ppos[p] <= enqueue_pos
        /\ pc[p] = "cas" => ppos[p] < Oldest + Capacity
        /\ pc[p] \in Claimed => ppos[p] < enqueue_pos
HoldInv ==
    /\ cpc \in {"read", "copy", "release"} => HeadSeq = dequeue_pos + 1
    /\ cpc \in {"probe", "skip"} => HeadSeq <= dequeue_pos + 1
    /\ cpc = "skip" => dequeue_pos < enqueue_pos
    /\ cpc \in {"advance", "skipadvance"} => HeadSeq > dequeue_pos + 1
RingInv == TypeInv /\ RingWindow /\ Retired /\ ClaimInv /\ HoldInv

(* The oldest position the consumer still owns is a position.              *)
LEMMA OldestType == TypeOK => Oldest \in Nat
  BY DEF TypeOK, Oldest, HeadSeq

(* The types of the ring and of the claims, as the steps below need them.  *)
LEMMA RingTypes ==
    ASSUME RingInv
    PROVE  /\ enqueue_pos \in Nat /\ dequeue_pos \in Nat /\ Oldest \in Nat /\ HeadSeq \in Nat
           /\ Capacity \in Nat /\ Capacity > 0
           /\ slot_seq \in [SlotIndex -> Nat] /\ Idx(dequeue_pos) \in SlotIndex
           /\ ppos \in [Producers -> Nat] /\ DOMAIN pc = Producers
<1>1. TypeOK
  BY Zenon DEF RingInv, TypeInv
<1>2. enqueue_pos \in Nat /\ dequeue_pos \in Nat /\ slot_seq \in [SlotIndex -> Nat]
  BY Zenon, <1>1 DEF TypeOK
<1>3. ppos \in [Producers -> Nat] /\ DOMAIN pc = Producers
  BY Zenon, <1>1 DEF TypeOK
<1>4. Idx(dequeue_pos) \in SlotIndex /\ HeadSeq \in Nat
  BY Zenon, <1>2, IdxType DEF HeadSeq
<1>5. Capacity \in Nat /\ Capacity > 0
  BY BusMpAssumption
<1> QED BY Zenon, <1>1, <1>2, <1>3, <1>4, <1>5, OldestType

(* The types of the claims' verdicts and of the log.                       *)
LEMMA HistoryTypes ==
    ASSUME RingInv
    PROVE  /\ \A m \in published \cup poisoned : m.sequence \in Nat /\ m.producer \in Producers
           /\ DOMAIN log = 1 .. Len(log) /\ Len(log) \in Nat
<1>1. TypeOK
  BY Zenon DEF RingInv, TypeInv
<1>2. published \cup poisoned \subseteq Message
  BY Zenon, <1>1 DEF TypeOK
<1>3. DOMAIN log = 1 .. Len(log) /\ Len(log) \in Nat
  BY <1>1 DEF TypeOK
<1> QED BY Zenon, <1>2, <1>3 DEF Message

(* The empty ring satisfies the invariant.                                 *)
LEMMA InitRing == Init => RingInv
<1> SUFFICES ASSUME Init PROVE RingInv
  OBVIOUS
<1>1. Oldest = 0
  BY IdxSmall, BusMpAssumption DEF Init, Oldest, HeadSeq, SlotIndex
<1>2. RingWindow
  BY <1>1, IdxSmall, BusMpAssumption DEF Init, RingWindow, SlotIndex
<1>3. Retired /\ ClaimInv /\ HoldInv
  BY <1>1 DEF Init, Retired, ClaimInv, HoldInv, Claimed
<1> QED BY Zenon, <1>2, <1>3, InitType DEF RingInv

(* What RingWindow and Retired say of a position that has been claimed:    *)
(* its slot is this lap's, or the consumer has been there.                 *)
LEMMA ClaimedSlot ==
    ASSUME RingInv, NEW k \in Nat, k < enqueue_pos
    PROVE  slot_seq[Idx(k)] >= k /\ (slot_seq[Idx(k)] = k => Oldest <= k)
<1>1. slot_seq[Idx(k)] \in Nat /\ Oldest \in Nat /\ enqueue_pos \in Nat
  BY Zenon, IdxType, RingTypes
<1>2. CASE k < Oldest
  BY <1>1, <1>2 DEF RingInv, Retired
<1>3. CASE Oldest <= k
  <2>1. k \in Oldest .. enqueue_pos - 1
    BY <1>1, <1>3
  <2> QED BY <1>1, <1>3, <2>1 DEF RingInv, RingWindow
<1> QED BY <1>1, <1>2, <1>3

(* A step that moves neither a cursor nor a slot keeps the window.         *)
LEMMA RingFrame ==
    ASSUME RingInv, UNCHANGED <<enqueue_pos, slot_seq>>, Oldest' = Oldest
    PROVE  RingWindow' /\ Retired'
  BY Zenon DEF RingInv, RingWindow, Retired

(* Nor does it disturb what a producer knows, if that producer's own       *)
(* place does not change.                                                  *)
LEMMA ClaimFrame ==
    ASSUME RingInv, UNCHANGED <<pc, ppos, enqueue_pos>>, Oldest' \in Nat, Oldest' >= Oldest
    PROVE  ClaimInv'
  BY RingTypes DEF RingInv, ClaimInv, Claimed

(* The consumer gives the slot at dequeue_pos to the next lap: the step of *)
(* Release and of a Skip that wins.                                        *)
LEMMA Handover ==
    ASSUME RingInv, dequeue_pos < enqueue_pos, Oldest = dequeue_pos, Oldest' = dequeue_pos + 1,
           UNCHANGED <<enqueue_pos, dequeue_pos>>,
           slot_seq' = [slot_seq EXCEPT ![Idx(dequeue_pos)] = dequeue_pos + Capacity]
    PROVE  RingWindow' /\ Retired'
<1> DEFINE d == dequeue_pos
<1>1. d \in Nat /\ enqueue_pos \in Nat /\ Capacity \in Nat /\ Capacity > 0
  BY Zenon, RingTypes
<1>2. slot_seq \in [SlotIndex -> Nat] /\ Idx(d) \in SlotIndex
  BY Zenon, RingTypes
<1>3. ASSUME NEW k \in Nat, d < k, k < d + Capacity
      PROVE  slot_seq'[Idx(k)] = slot_seq[Idx(k)]
  BY <1>1, <1>2, <1>3, IdxType, IdxNear
<1>4. slot_seq'[Idx(d + Capacity)] = d + Capacity
  BY Zenon, <1>1, <1>2, IdxLap
<1>5. RingWindow'
  <2>1. ASSUME NEW k \in (d + 1) .. enqueue_pos - 1 PROVE slot_seq'[Idx(k)] \in {k, k + 1}
    <3>1. k \in Oldest .. enqueue_pos - 1 /\ k \in Nat /\ d < k /\ k < d + Capacity
      BY <1>1, <2>1 DEF RingInv, RingWindow
    <3> QED BY Zenon, <1>3, <3>1 DEF RingInv, RingWindow
  <2>2. ASSUME NEW k \in enqueue_pos .. (d + 1) + Capacity - 1 PROVE slot_seq'[Idx(k)] = k
    <3>1. CASE k = d + Capacity
      BY Zenon, <1>4, <3>1
    <3>2. CASE k # d + Capacity
      <4>1. k \in enqueue_pos .. Oldest + Capacity - 1 /\ k \in Nat /\ d < k /\ k < d + Capacity
        BY <1>1, <2>2, <3>2 DEF RingInv, RingWindow
      <4> QED BY Zenon, <1>3, <4>1 DEF RingInv, RingWindow
    <3> QED BY Zenon, <3>1, <3>2
  <2>3. d + 1 <= enqueue_pos /\ enqueue_pos <= (d + 1) + Capacity
    BY <1>1 DEF RingInv, RingWindow
  <2> QED BY Zenon, <2>1, <2>2, <2>3 DEF RingWindow
<1>6. Retired'
  <2> SUFFICES ASSUME NEW k \in Nat, k < d + 1 PROVE slot_seq'[Idx(k)] > k
    BY Zenon DEF Retired
  <2>1. CASE Idx(k) = Idx(d)
    BY <1>1, <1>2, <2>1
  <2>2. CASE Idx(k) # Idx(d)
    <3>1. k < Oldest /\ slot_seq'[Idx(k)] = slot_seq[Idx(k)]
      BY <1>1, <1>2, <2>2, IdxType
    <3> QED BY Zenon, <3>1 DEF RingInv, Retired
  <2> QED BY Zenon, <2>1, <2>2
<1> QED BY Zenon, <1>5, <1>6

(* A commit that wins finds the slot in its own lap, so the position is    *)
(* still in the window, and it only moves that slot from k to k + 1.       *)
LEMMA CommitSlot ==
    ASSUME RingInv, NEW k \in Nat, k < enqueue_pos, slot_seq[Idx(k)] = k,
           UNCHANGED <<enqueue_pos, dequeue_pos>>, Capacity > 1,
           slot_seq' = [slot_seq EXCEPT ![Idx(k)] = k + 1]
    PROVE  Oldest <= k /\ Oldest' = Oldest /\ RingWindow' /\ Retired'
<1>0. Oldest <= k
  BY Zenon, ClaimedSlot
<1>2. /\ Oldest \in Nat /\ enqueue_pos \in Nat /\ dequeue_pos \in Nat /\ Capacity \in Nat
      /\ slot_seq \in [SlotIndex -> Nat] /\ Idx(k) \in SlotIndex /\ Idx(dequeue_pos) \in SlotIndex
  BY Zenon, IdxType, RingTypes
<1>1. Oldest <= k /\ Oldest' = Oldest
  <2>1. CASE Idx(k) # Idx(dequeue_pos)
    BY Zenon, <1>0, <1>2, <2>1 DEF Oldest, HeadSeq
  <2>2. CASE Idx(k) = Idx(dequeue_pos)
    <3>1. HeadSeq = k /\ HeadSeq' = k + 1
      BY Zenon, <1>2, <2>2 DEF HeadSeq
    <3>2. k = dequeue_pos \/ k > dequeue_pos + 1
      BY <1>0, <1>2, <2>2, <3>1, IdxNear DEF Oldest
    <3> QED BY <1>0, <1>2, <3>1, <3>2 DEF Oldest
  <2> QED BY Zenon, <2>1, <2>2
<1>3. ASSUME NEW j \in Nat, Oldest <= j, j < Oldest + Capacity, j # k
      PROVE  slot_seq'[Idx(j)] = slot_seq[Idx(j)]
  <2>1. k < Oldest + Capacity
    BY <1>2 DEF RingInv, RingWindow
  <2> QED BY <1>1, <1>2, <1>3, <2>1, IdxType, IdxNear
<1>4. RingWindow'
  <2>1. ASSUME NEW j \in Oldest .. enqueue_pos - 1 PROVE slot_seq'[Idx(j)] \in {j, j + 1}
    <3>1. CASE j = k
      BY Zenon, <1>2, <3>1
    <3>2. CASE j # k
      <4>1. j \in Nat /\ Oldest <= j /\ j < Oldest + Capacity
        BY <1>2, <2>1 DEF RingInv, RingWindow
      <4> QED BY Zenon, <1>3, <2>1, <3>2, <4>1 DEF RingInv, RingWindow
    <3> QED BY Zenon, <3>1, <3>2
  <2>2. ASSUME NEW j \in enqueue_pos .. Oldest + Capacity - 1 PROVE slot_seq'[Idx(j)] = j
    <3>1. j \in Nat /\ Oldest <= j /\ j < Oldest + Capacity /\ j # k
      BY <1>2, <2>2 DEF RingInv, RingWindow
    <3> QED BY Zenon, <1>3, <2>2, <3>1 DEF RingInv, RingWindow
  <2> QED BY Zenon, <1>1, <2>1, <2>2 DEF RingInv, RingWindow
<1>5. Retired'
  <2> SUFFICES ASSUME NEW j \in Nat, j < Oldest PROVE slot_seq'[Idx(j)] > j
    BY Zenon, <1>1 DEF Retired
  <2> QED BY <1>1, <1>2, IdxType DEF RingInv, Retired
<1> QED BY Zenon, <1>1, <1>4, <1>5

(* A claim that wins takes a position whose slot is free.                  *)
LEMMA ClaimSlot ==
    ASSUME RingInv, enqueue_pos < Oldest + Capacity, enqueue_pos' = enqueue_pos + 1,
           UNCHANGED <<slot_seq, dequeue_pos>>
    PROVE  Oldest' = Oldest /\ RingWindow' /\ Retired'
<1>1. Oldest' = Oldest
  BY Zenon DEF Oldest, HeadSeq
<1>2. Oldest \in Nat /\ enqueue_pos \in Nat /\ Capacity \in Nat
  BY Zenon, RingTypes
<1>3. slot_seq[Idx(enqueue_pos)] = enqueue_pos
  BY <1>2 DEF RingInv, RingWindow
<1>4. RingWindow'
  <2>1. ASSUME NEW j \in Oldest .. enqueue_pos PROVE slot_seq[Idx(j)] \in {j, j + 1}
    BY <1>2, <1>3, <2>1 DEF RingInv, RingWindow
  <2>2. ASSUME NEW j \in enqueue_pos + 1 .. Oldest + Capacity - 1 PROVE slot_seq[Idx(j)] = j
    BY <1>2, <2>2 DEF RingInv, RingWindow
  <2> QED BY <1>1, <1>2, <2>1, <2>2 DEF RingInv, RingWindow
<1>5. Retired'
  BY Zenon, <1>1 DEF RingInv, Retired
<1> QED BY Zenon, <1>1, <1>4, <1>5

(* One step of a producer, seen from the ring.                             *)
LEMMA ProducerRing ==
    ASSUME Capacity > 1, RingInv, NEW p \in Producers, Producer(p)
    PROVE  RingWindow' /\ Retired' /\ ClaimInv' /\ HoldInv'
<1> USE DEF data, ring, prod, scan, futex, cons, hist
<1> DEFINE k == ppos[p]
<1>t. /\ DOMAIN pc = Producers /\ ppos \in [Producers -> Nat] /\ k \in Nat
      /\ Oldest \in Nat /\ enqueue_pos \in Nat /\ dequeue_pos \in Nat
      /\ slot_seq \in [SlotIndex -> Nat] /\ Idx(k) \in SlotIndex
      /\ Capacity \in Nat
  BY Zenon, IdxType, RingTypes
<1>1. CASE LoadPos(p)
  <2>1. Oldest' = Oldest /\ HoldInv'
    BY Zenon, <1>1 DEF LoadPos, Oldest, RingInv, HoldInv, HeadSeq
  <2>2. ClaimInv'
    BY <1>1, <1>t, <2>1 DEF LoadPos, Step, RingInv, ClaimInv, Claimed
  <2> QED BY Zenon, <1>1, <2>1, <2>2, RingFrame DEF LoadPos
<1>2. CASE LoadSeq(p)
  <2>1. Oldest' = Oldest /\ HoldInv'
    BY Zenon, <1>2 DEF LoadSeq, Oldest, RingInv, HoldInv, HeadSeq
  <2>2. pc[p] = "seq" /\ k <= enqueue_pos
    BY Zenon, <1>2 DEF LoadSeq, Step, RingInv, ClaimInv
  <2>3. ASSUME SeqOf(p) = k PROVE k < Oldest + Capacity
    <3>1. SUFFICES ASSUME k >= Oldest + Capacity PROVE FALSE
      BY <1>t
    <3>2. k = Oldest + Capacity /\ Oldest \in Oldest .. enqueue_pos - 1
      BY <1>t, <2>2, <3>1 DEF RingInv, RingWindow
    <3>3. Idx(k) = Idx(Oldest)
      BY Zenon, <1>t, <3>2, IdxLap
    <3> QED BY <1>t, <2>3, <3>2, <3>3 DEF SeqOf, RingInv, RingWindow
  <2>4. \/ SeqOf(p) = k /\ pc' = [pc EXCEPT ![p] = "cas"]
        \/ pc' = [pc EXCEPT ![p] = "retry"]
    BY Zenon, <1>2 DEF LoadSeq, Step
  <2>5. ClaimInv'
    <3>1. UNCHANGED <<ppos, enqueue_pos>>
      BY Zenon, <1>2 DEF LoadSeq
    <3> QED BY Zenon, <1>t, <2>1, <2>2, <2>3, <2>4, <3>1 DEF RingInv, ClaimInv, Claimed
  <2> QED BY Zenon, <1>2, <2>1, <2>5, RingFrame DEF LoadSeq
<1>3. CASE FullReject(p)
  <2>1. Oldest' = Oldest /\ HoldInv'
    BY Zenon, <1>3 DEF FullReject, Oldest, RingInv, HoldInv, HeadSeq
  <2>2. ClaimInv'
    BY Zenon, <1>3, <1>t, <2>1 DEF FullReject, Step, RingInv, ClaimInv, Claimed
  <2> QED BY Zenon, <1>3, <2>1, <2>2, RingFrame DEF FullReject
<1>4. CASE ClaimCas(p)
  <2>1. Oldest' = Oldest
    BY Zenon, <1>4 DEF ClaimCas, Oldest, HeadSeq
  <2>2. ASSUME enqueue_pos = k, enqueue_pos' = k + 1, Step(p, "cas", "header")
        PROVE  RingWindow' /\ Retired' /\ ClaimInv' /\ HoldInv'
    <3>1. enqueue_pos < Oldest + Capacity
      BY Zenon, <2>2 DEF Step, RingInv, ClaimInv
    <3>2. RingWindow' /\ Retired'
      BY Zenon, <1>4, <2>2, <3>1, ClaimSlot DEF ClaimCas
    <3>3. ClaimInv'
      BY <1>4, <1>t, <2>1, <2>2 DEF ClaimCas, Step, RingInv, ClaimInv, Claimed
    <3>4. HoldInv'
      BY <1>4, <1>t, <2>2 DEF ClaimCas, RingInv, HoldInv, HeadSeq
    <3> QED BY Zenon, <3>2, <3>3, <3>4
  <2>3. ASSUME Step(p, "cas", "retry"), UNCHANGED enqueue_pos
        PROVE  RingWindow' /\ Retired' /\ ClaimInv' /\ HoldInv'
    <3>1. ClaimInv'
      BY Zenon, <1>4, <1>t, <2>1, <2>3 DEF ClaimCas, Step, RingInv, ClaimInv, Claimed
    <3>2. HoldInv'
      BY Zenon, <1>4, <2>3 DEF ClaimCas, RingInv, HoldInv, HeadSeq
    <3> QED BY Zenon, <1>4, <2>1, <2>3, <3>1, <3>2, RingFrame DEF ClaimCas
  <2> QED BY Zenon, <1>4, <2>2, <2>3 DEF ClaimCas
<1>5. CASE WriteHeader(p) \/ WritePayload(p)
  <2>1. UNCHANGED <<enqueue_pos, dequeue_pos, slot_seq, ppos, cpc>>
    BY Zenon, <1>5 DEF WriteHeader, WritePayload
  <2>2. Oldest' = Oldest /\ HoldInv'
    BY Zenon, <2>1 DEF Oldest, RingInv, HoldInv, HeadSeq
  <2>3. pc[p] \in Claimed /\ \E l \in Claimed : pc' = [pc EXCEPT ![p] = l]
    BY Zenon, <1>5 DEF WriteHeader, WritePayload, Step, Claimed
  <2>4. ClaimInv'
    BY Zenon, <1>t, <2>1, <2>2, <2>3 DEF RingInv, ClaimInv, Claimed
  <2> QED BY Zenon, <2>1, <2>2, <2>4, RingFrame
<1>6. CASE Commit(p)
  <2>0. UNCHANGED <<enqueue_pos, dequeue_pos, ppos, cpc>> /\ k < enqueue_pos
    BY <1>6, Zenon DEF Commit, Step, RingInv, ClaimInv, Claimed
  <2>1. UNCHANGED <<enqueue_pos, dequeue_pos, ppos, cpc>> /\ Oldest' = Oldest
    <3>1. CASE SeqOf(p) = k
      BY Zenon, <1>6, <1>t, <2>0, <3>1, CommitSlot DEF Commit, SeqOf
    <3>2. CASE SeqOf(p) # k
      BY <1>6, <2>0, <3>2, ZenonT(30) DEF Commit, Oldest, HeadSeq
    <3> QED BY Zenon, <2>0, <3>1, <3>2
  <2>2. k < enqueue_pos /\ \E l \in {"notify", "idle"} : pc' = [pc EXCEPT ![p] = l]
    BY Zenon, <1>6 DEF Commit, Step, RingInv, ClaimInv, Claimed
  <2>3. ClaimInv'
    BY Zenon, <1>t, <2>1, <2>2 DEF RingInv, ClaimInv, Claimed
  <2>4. ASSUME SeqOf(p) = k, slot_seq' = [slot_seq EXCEPT ![Idx(k)] = k + 1]
        PROVE  RingWindow' /\ Retired' /\ HoldInv'
    <3>1. slot_seq[Idx(k)] = k
      BY Zenon, <2>4 DEF SeqOf
    <3>2. RingWindow' /\ Retired' /\ Oldest <= k
      BY <1>t, <2>1, <2>2, <2>4, <3>1, CommitSlot, Zenon
    <3>3. HoldInv'
      <4>1. HeadSeq = dequeue_pos + 1 => Idx(dequeue_pos) # Idx(k)
        <5> SUFFICES ASSUME HeadSeq = dequeue_pos + 1, Idx(dequeue_pos) = Idx(k) PROVE FALSE
          OBVIOUS
        <5>1. k = dequeue_pos + 1
          BY Zenon, <3>1 DEF HeadSeq
        <5> QED BY <1>t, <5>1, IdxNear
      <4>2. HeadSeq \in Nat /\ Idx(dequeue_pos) \in SlotIndex
        BY Zenon, <1>t, IdxType DEF HeadSeq
      <4>3. CASE Idx(dequeue_pos) = Idx(k)
        <5>1. HeadSeq = k /\ HeadSeq' = k + 1
          BY Zenon, <1>t, <2>1, <2>4, <3>1, <4>3 DEF HeadSeq
        <5> QED BY <1>t, <2>1, <4>1, <4>3, <5>1 DEF RingInv, HoldInv
      <4>4. CASE Idx(dequeue_pos) # Idx(k)
        <5>1. HeadSeq' = HeadSeq
          BY Zenon, <1>t, <2>1, <2>4, <4>2, <4>4 DEF HeadSeq
        <5> QED BY Zenon, <2>1, <5>1 DEF RingInv, HoldInv
      <4> QED BY Zenon, <4>3, <4>4
    <3> QED BY Zenon, <3>2, <3>3
  <2>5. ASSUME UNCHANGED slot_seq PROVE RingWindow' /\ Retired' /\ HoldInv'
    <3>1. HoldInv'
      BY Zenon, <2>1, <2>5 DEF RingInv, HoldInv, HeadSeq
    <3> QED BY Zenon, <2>1, <2>5, <3>1, RingFrame
  <2> QED BY <1>6, <2>3, <2>4, <2>5, Zenon DEF Commit
<1>7. CASE Notify(p) \/ Abandon(p)
  <2>1. UNCHANGED <<enqueue_pos, dequeue_pos, slot_seq, ppos>>
    BY Zenon, <1>7 DEF Notify, NotifyLoad, NotifyBump, NotifyWake, Abandon
  <2>2. cpc' = cpc \/ (cpc = "asleep" /\ cpc' = "leave")
    BY Zenon, <1>7 DEF Notify, NotifyLoad, NotifyBump, NotifyWake, Abandon
  <2>3. Oldest' = Oldest /\ HoldInv'
    BY Zenon, <2>1, <2>2 DEF Oldest, RingInv, HoldInv, HeadSeq
  <2>4. \E l \in {"idle", "bump", "wake"} : pc' = [pc EXCEPT ![p] = l]
    BY Zenon, <1>7 DEF Notify, NotifyLoad, NotifyBump, NotifyWake, Abandon, Step
  <2>5. ClaimInv'
    BY Zenon, <1>t, <2>1, <2>3, <2>4 DEF RingInv, ClaimInv, Claimed
  <2> QED BY Zenon, <2>1, <2>3, <2>5, RingFrame
<1> QED BY Zenon, <1>1, <1>2, <1>3, <1>4, <1>5, <1>6, <1>7 DEF Producer

(* dequeue_pos catches up with the slot given away before.                 *)
LEMMA AdvanceOldest ==
    ASSUME RingInv, Advance \/ SkipAdvance
    PROVE  Oldest = dequeue_pos + 1 /\ Oldest' = Oldest
<1> DEFINE d == dequeue_pos
<1>1. /\ cpc \in {"advance", "skipadvance"} /\ dequeue_pos' = d + 1
      /\ UNCHANGED slot_seq
  BY Zenon DEF Advance, SkipAdvance, Deliver
<1>2. /\ d \in Nat /\ enqueue_pos \in Nat /\ Capacity \in Nat /\ Capacity > 0
      /\ slot_seq \in [SlotIndex -> Nat]
  BY Zenon, RingTypes
<1>3. Oldest = d + 1
  BY Zenon, <1>1 DEF RingInv, HoldInv, Oldest
<1>4. d + 1 \in Oldest .. enqueue_pos - 1 \/ d + 1 \in enqueue_pos .. Oldest + Capacity - 1
  BY <1>2, <1>3
<1>5. slot_seq[Idx(d + 1)] <= d + 2
  BY <1>2, <1>4 DEF RingInv, RingWindow
<1>6. HeadSeq' <= dequeue_pos' + 1 /\ HeadSeq' \in Nat
  BY <1>1, <1>2, <1>5, IdxType DEF HeadSeq
<1> QED BY <1>1, <1>2, <1>3, <1>6 DEF Oldest

(* One step of the consumer, seen from the ring.                           *)
LEMMA ConsumerRing ==
    ASSUME Capacity > 1, RingInv, Consumer \/ Tick \/ ConsumerRestart
    PROVE  RingWindow' /\ Retired' /\ ClaimInv' /\ HoldInv'
<1> USE DEF data, ring, prod, scan, futex, cons, hist
<1>t. /\ Oldest \in Nat /\ enqueue_pos \in Nat /\ dequeue_pos \in Nat
      /\ slot_seq \in [SlotIndex -> Nat] /\ Idx(dequeue_pos) \in SlotIndex
      /\ Capacity \in Nat /\ Capacity > 0
  BY Zenon, IdxType, RingTypes
<1>1. ASSUME NEW o \in Calls, Poll(o) PROVE RingWindow' /\ Retired' /\ ClaimInv' /\ HoldInv'
  <2>1. Oldest' = Oldest
    BY Zenon, <1>1 DEF Poll, Return, Oldest, HeadSeq
  <2>2. HoldInv'
    BY <1>1, <1>t DEF Poll, Return, HoldInv, HeadSeq
  <2> QED BY <1>1, <1>t, <2>1, <2>2, RingFrame, ClaimFrame DEF Poll
<1>2. CASE ReadHeader \/ CopyPayload
  <2>1. Oldest' = Oldest
    BY Zenon, <1>2 DEF ReadHeader, CopyPayload, GoOn, Oldest, HeadSeq
  <2>2. HoldInv'
    BY Zenon, <1>2 DEF ReadHeader, CopyPayload, GoOn, RingInv, HoldInv, HeadSeq
  <2> QED BY <1>2, <1>t, <2>1, <2>2, RingFrame, ClaimFrame DEF ReadHeader, CopyPayload
<1>3. CASE Release
  <2>1. Oldest = dequeue_pos /\ Oldest' = dequeue_pos + 1 /\ HoldInv'
    BY <1>3, <1>t DEF Release, GoOn, RingInv, Oldest, HeadSeq, HoldInv
  <2>2. dequeue_pos < enqueue_pos
    <3>1. HeadSeq = dequeue_pos + 1
      BY Zenon, <1>3 DEF Release, RingInv, HoldInv
    <3>2. CASE enqueue_pos = dequeue_pos
      <4>1. dequeue_pos \in enqueue_pos .. Oldest + Capacity - 1
        BY <1>t, <2>1, <3>2
      <4> QED BY <1>t, <3>1, <4>1 DEF HeadSeq, RingInv, RingWindow
    <3> QED BY <1>t, <2>1, <3>2 DEF RingInv, RingWindow
  <2>3. RingWindow' /\ Retired'
    BY Zenon, <1>3, <2>1, <2>2, Handover DEF Release
  <2> QED BY <1>3, <1>t, <2>1, <2>3, ClaimFrame DEF Release
<1>4. CASE Advance \/ SkipAdvance
  <2>1. Oldest' = Oldest
    BY Zenon, <1>4, AdvanceOldest
  <2>2. HoldInv'
    BY Zenon, <1>4 DEF Advance, SkipAdvance, Return, GoOn, HoldInv
  <2>3. UNCHANGED <<enqueue_pos, slot_seq, pc, ppos>>
    BY Zenon, <1>4 DEF Advance, SkipAdvance, Deliver
  <2> QED BY <1>t, <2>1, <2>2, <2>3, RingFrame, ClaimFrame
<1>5. CASE Probe
  <2>1. Oldest' = Oldest
    BY Zenon, <1>5 DEF Probe, Return, GoOn, Oldest, HeadSeq
  <2>2. HoldInv'
    BY Zenon, <1>5, <1>t DEF Probe, Return, GoOn, pending, RingInv, HoldInv, HeadSeq
  <2> QED BY <1>5, <1>t, <2>1, <2>2, RingFrame, ClaimFrame DEF Probe
<1>6. CASE Skip
  <2>1. Oldest = dequeue_pos /\ dequeue_pos < enqueue_pos /\ HoldInv'
    BY <1>6, <1>t DEF Skip, Return, GoOn, Oldest, HeadSeq, RingInv, HoldInv
  <2>2. ASSUME GoOn("skipadvance"),
               slot_seq' = [slot_seq EXCEPT ![Idx(dequeue_pos)] = dequeue_pos + Capacity]
        PROVE  RingWindow' /\ Retired' /\ ClaimInv'
    <3>1. Oldest' = dequeue_pos + 1
      BY <1>6, <1>t, <2>2 DEF Skip, GoOn, Oldest, HeadSeq
    <3>2. RingWindow' /\ Retired'
      BY Zenon, <1>6, <2>1, <2>2, <3>1, Handover DEF Skip
    <3> QED BY <1>6, <1>t, <2>1, <3>1, <3>2, ClaimFrame DEF Skip
  <2>3. ASSUME Return, UNCHANGED slot_seq PROVE RingWindow' /\ Retired' /\ ClaimInv'
    <3>1. Oldest' = Oldest
      BY Zenon, <1>6, <2>1, <2>3 DEF Skip, Return, Oldest, HeadSeq
    <3> QED BY <1>6, <1>t, <2>3, <3>1, RingFrame, ClaimFrame DEF Skip
  <2> QED BY Zenon, <1>6, <2>1, <2>2, <2>3 DEF Skip
<1>8. CASE ConsumerRestart
  <2>1. Oldest' = Oldest /\ HoldInv'
    BY Zenon, <1>8 DEF ConsumerRestart, Return, Oldest, HeadSeq, HoldInv
  <2> QED BY <1>8, <1>t, <2>1, RingFrame, ClaimFrame DEF ConsumerRestart
<1>7. CASE WaitBegin \/ WaitStep \/ FutexTimeout \/ FutexInterrupted \/ Tick
  <2> USE DEF WaitBegin, WaitStep, WaitExpect, WaitEnter, WaitRecheck, FutexWait, WaitLeave,
              FutexTimeout, FutexInterrupted, Tick
  <2>1. UNCHANGED <<enqueue_pos, dequeue_pos, slot_seq, pc, ppos>>
    BY <1>7, ZenonT(30)
  <2>2. \/ cpc' = cpc
        \/ cpc \in Registered \cup {"idle", "expect", "enter"}
           /\ cpc' \in Registered \cup {"idle", "expect", "enter"}
    BY Zenon, <1>7 DEF Return, GoOn, Registered
  <2> HIDE DEF WaitBegin, WaitStep, WaitExpect, WaitEnter, WaitRecheck, FutexWait, WaitLeave,
               FutexTimeout, FutexInterrupted, Tick
  <2>3. Oldest' = Oldest /\ HoldInv'
    BY Zenon, <2>1, <2>2 DEF Oldest, RingInv, HoldInv, HeadSeq, Registered
  <2> QED BY <1>t, <2>1, <2>3, RingFrame, ClaimFrame
<1> QED BY Zenon, <1>1, <1>2, <1>3, <1>4, <1>5, <1>6, <1>7, <1>8 DEF Consumer, PollStep

(* Every step keeps the invariant of the ring.                             *)
LEMMA NextRing ==
    ASSUME Capacity > 1, RingInv, [Next]_vars
    PROVE  RingInv'
<1>1. TypeInv'
  BY NextType, Zenon DEF RingInv
<1>2. CASE UNCHANGED vars
  BY <1>1, <1>2, Zenon DEF vars, ring, prod, cons, RingInv, RingWindow, Retired, ClaimInv, HoldInv, Oldest, HeadSeq
<1> QED BY Zenon, <1>1, <1>2, ProducerRing, ConsumerRing DEF RingInv, Next, Running

(* The invariant of the ring holds in every behaviour.                     *)
LEMMA RingSafe == ASSUME Capacity > 1 PROVE Spec => []RingInv
<1>1. RingInv /\ [Next]_vars => RingInv'
  BY Zenon, NextRing
<1> QED BY InitRing, <1>1, PTL DEF Spec

(* slot.seq keeps the producers and the consumer apart for every number of *)
(* producers and every capacity of at least two: no position is claimed    *)
(* over an unconsumed one.                                                 *)
THEOREM WindowKept == ASSUME Capacity > 1 PROVE Spec => []RingWindow
<1>1. RingInv => RingWindow
  BY Zenon DEF RingInv
<1> QED BY RingSafe, <1>1, PTL

(* OM_BUS_MP_ERR_FULL is returned only when Capacity claims are            *)
(* outstanding at that moment.                                             *)
THEOREM FullHonest == ASSUME Capacity > 1 PROVE Spec => FullIsHonest
<1>1. ASSUME RingInv, NEW p \in Producers, FullReject(p)
      PROVE  enqueue_pos >= Oldest + Capacity
  <2> DEFINE k == ppos[p]
  <2>1. /\ k \in Nat /\ Oldest \in Nat /\ enqueue_pos \in Nat /\ Capacity \in Nat
        /\ slot_seq[Idx(k)] \in Nat
    BY Zenon, <1>1, IdxType, RingTypes, SMTT(30)
  <2>2. slot_seq[Idx(k)] < k /\ k <= enqueue_pos
    BY Zenon, <1>1 DEF FullReject, Step, SeqOf, RingInv, ClaimInv
  <2>3. k = enqueue_pos
    BY <1>1, <2>1, <2>2, ClaimedSlot
  <2> QED BY <1>1, <2>1, <2>2, <2>3 DEF RingInv, RingWindow
<1>2. RingInv /\ [Next]_vars
      => [\A p \in Producers : FullReject(p) => enqueue_pos >= Oldest + Capacity]_vars
  BY Zenon, <1>1
<1> QED BY RingSafe, <1>2, PTL DEF Spec, FullIsHonest

-----------------------------------------------------------------------------
(* The verdict on each claim.  Whether a position has been published is    *)
(* kept in its slot while it is in the window and in the log afterwards.   *)

Published(k) == \E m \in published : m.sequence = k
OwnClaim ==
    \A p \in Producers : pc[p] \in Claimed =>
        /\ ~Published(ppos[p])
        /\ \A q \in Producers : q # p /\ pc[q] \in Claimed => ppos[q] # ppos[p]
SlotVerdict ==
    /\ \A m \in published : m.sequence < enqueue_pos
    /\ \A k \in Oldest .. enqueue_pos - 1 : slot_seq[Idx(k)] = k + 1 <=> Published(k)
    /\ \A m \in poisoned : m.sequence < Oldest /\ ~Published(m.sequence)
LogVerdict ==
    /\ Len(log) = dequeue_pos
    /\ \A i \in DOMAIN log : log[i].kind # "skipped" <=> Published(i - 1)
    /\ cpc = "advance" => Published(dequeue_pos)
    /\ cpc = "skipadvance" => ~Published(dequeue_pos)
VerdictInv == OwnClaim /\ SlotVerdict /\ LogVerdict

(* The empty ring has no verdicts to keep.                                 *)
LEMMA InitVerdict == Init => VerdictInv
<1> SUFFICES ASSUME Init PROVE VerdictInv
  OBVIOUS
<1>1. Oldest = 0
  BY IdxSmall, BusMpAssumption DEF Init, Oldest, HeadSeq, SlotIndex
<1> QED BY <1>1, SMTT(30) DEF Init, VerdictInv, OwnClaim, SlotVerdict, LogVerdict, Published, Claimed

(* A step that publishes nothing, claims nothing and leaves the slots and  *)
(* the log alone.                                                          *)
LEMMA VerdictFrame ==
    ASSUME VerdictInv, UNCHANGED <<enqueue_pos, dequeue_pos, slot_seq, published, poisoned, log>>,
           Oldest' = Oldest, cpc' \in {"advance", "skipadvance"} => cpc' = cpc
    PROVE  SlotVerdict' /\ LogVerdict'
  BY Zenon DEF VerdictInv, SlotVerdict, LogVerdict, Published

(* Nor does such a step disturb a claim, unless it makes one.              *)
LEMMA OwnFrame ==
    ASSUME VerdictInv, UNCHANGED published,
           \A p \in Producers : pc'[p] \in Claimed => pc[p] \in Claimed /\ ppos'[p] = ppos[p]
    PROVE  OwnClaim'
  BY Zenon DEF VerdictInv, OwnClaim, Published

(* A commit that wins publishes a position that is in the window,          *)
(* unskipped.                                                              *)
LEMMA CommitOkVerdict ==
    ASSUME Capacity > 1, RingInv, VerdictInv, NEW p \in Producers, Commit(p), SeqOf(p) = ppos[p]
    PROVE  VerdictInv'
<1> DEFINE k == ppos[p]
<1>1. /\ pc[p] = "commit" /\ pc' = [pc EXCEPT ![p] = "notify"] /\ slot_seq[Idx(k)] = k
      /\ slot_seq' = [slot_seq EXCEPT ![Idx(k)] = k + 1]
      /\ published' = published \cup {Msg(p, k)}
      /\ UNCHANGED <<enqueue_pos, dequeue_pos, ppos, cpc, poisoned, log>>
  BY Zenon DEF Commit, Step, SeqOf, cons
<1>2. k < enqueue_pos /\ k \in Nat
  BY Zenon, <1>1, RingTypes DEF RingInv, ClaimInv, Claimed
<1>3. Oldest <= k /\ Oldest' = Oldest
  BY <1>1, <1>2, CommitSlot, Zenon
<1>4. ASSUME NEW j PROVE Published(j)' <=> Published(j) \/ j = k
  <2>1. Msg(p, k).sequence = k
    BY Zenon DEF Msg
  <2> QED BY Zenon, <1>1, <2>1 DEF Published
<1>t. /\ Oldest \in Nat /\ enqueue_pos \in Nat /\ dequeue_pos \in Nat /\ Capacity \in Nat
      /\ DOMAIN pc = Producers /\ slot_seq \in [SlotIndex -> Nat] /\ Idx(k) \in SlotIndex
  BY Zenon, <1>2, IdxType, RingTypes
<1>5. OwnClaim'
  BY <1>1, <1>4, <1>t, Zenon DEF VerdictInv, OwnClaim, Claimed
<1>6. SlotVerdict'
  <2>1. ASSUME NEW j \in Oldest .. enqueue_pos - 1
        PROVE  slot_seq'[Idx(j)] = j + 1 <=> Published(j)'
    <3>1. CASE j = k
      BY <1>1, <1>4, <1>t, <3>1, Zenon
    <3>2. CASE j # k
      <4>1. j \in Nat /\ j - k < Capacity /\ k - j < Capacity
        BY <1>2, <1>3, <1>t, <2>1 DEF RingInv, RingWindow
      <4>2. slot_seq'[Idx(j)] = slot_seq[Idx(j)]
        BY <1>1, <1>2, <1>t, <3>2, <4>1, IdxNear, IdxType, ZenonT(30)
      <4> QED BY <1>4, <2>1, <3>2, <4>2, ZenonT(30) DEF VerdictInv, SlotVerdict
    <3> QED BY Zenon, <3>1, <3>2
  <2>2. \A m \in published' : m.sequence < enqueue_pos
    BY <1>1, <1>2 DEF Msg, VerdictInv, SlotVerdict
  <2>3. \A m \in poisoned : m.sequence < Oldest /\ ~Published(m.sequence)'
    BY <1>2, <1>3, <1>4, <1>t, SMTT(30) DEF VerdictInv, SlotVerdict
  <2> QED BY Zenon, <1>1, <1>3, <2>1, <2>2, <2>3 DEF SlotVerdict
<1>7. LogVerdict'
  <2>1. dequeue_pos <= Oldest /\ (cpc = "skipadvance" => dequeue_pos < Oldest)
    BY <1>t DEF Oldest, RingInv, HoldInv
  <2>2. DOMAIN log = 1 .. dequeue_pos
    BY HistoryTypes, Zenon DEF VerdictInv, LogVerdict
  <2>3. ASSUME NEW i \in DOMAIN log PROVE Published(i - 1)' <=> Published(i - 1)
    <3>1. i - 1 # k
      BY <1>2, <1>3, <1>t, <2>1, <2>2
    <3> QED BY <1>4, <3>1, ZenonT(30)
  <2> QED BY <1>1, <1>2, <1>3, <1>4, <1>t, <2>1, <2>3, SMTT(30) DEF VerdictInv, LogVerdict
<1> QED BY Zenon, <1>5, <1>6, <1>7 DEF VerdictInv

(* A commit that loses belongs to a position the consumer has left         *)
(* unpublished.                                                            *)
LEMMA CommitPoisonedVerdict ==
    ASSUME RingInv, VerdictInv, NEW p \in Producers, Commit(p), SeqOf(p) # ppos[p]
    PROVE  VerdictInv'
<1> DEFINE k == ppos[p]
<1>1. /\ pc[p] = "commit" /\ pc' = [pc EXCEPT ![p] = "idle"] /\ slot_seq[Idx(k)] # k
      /\ poisoned' = poisoned \cup {Msg(p, k)}
      /\ UNCHANGED <<enqueue_pos, dequeue_pos, slot_seq, ppos, cpc, published, log>>
  BY Zenon DEF Commit, Step, SeqOf, cons
<1>t. Oldest \in Nat /\ enqueue_pos \in Nat /\ k \in Nat /\ k < enqueue_pos /\ DOMAIN pc = Producers
  BY <1>1, RingTypes, ZenonT(30) DEF RingInv, ClaimInv, Claimed
<1>2. ~Published(k)
  BY Zenon, <1>1 DEF VerdictInv, OwnClaim, Claimed
<1>3. k < Oldest
  <2> SUFFICES ASSUME Oldest <= k PROVE FALSE
    BY <1>t
  <2>1. k \in Oldest .. enqueue_pos - 1
    BY <1>t
  <2> QED BY Zenon, <1>1, <1>2, <2>1 DEF RingInv, RingWindow, VerdictInv, SlotVerdict
<1>4. Oldest' = Oldest
  BY Zenon, <1>1 DEF Oldest, HeadSeq
<1>5. OwnClaim'
  BY Zenon, <1>1, <1>t, OwnFrame DEF Claimed
<1>6. SlotVerdict'
  <2>1. Msg(p, k).sequence = k
    BY Zenon DEF Msg
  <2>2. \A m \in poisoned' : m.sequence < Oldest /\ ~Published(m.sequence)
    BY <1>1, <1>2, <1>3, <2>1, ZenonT(30) DEF VerdictInv, SlotVerdict
  <2> QED BY Zenon, <1>1, <1>4, <2>2 DEF VerdictInv, SlotVerdict, Published
<1>7. LogVerdict'
  BY <1>1, Zenon DEF VerdictInv, LogVerdict, Published
<1> QED BY <1>5, <1>6, <1>7, Zenon DEF VerdictInv

(* A claim that wins takes a position nobody has claimed before.           *)
LEMMA ClaimVerdict ==
    ASSUME RingInv, VerdictInv, NEW p \in Producers, ClaimCas(p)
    PROVE  VerdictInv'
<1> DEFINE k == ppos[p]
<1>1. pc[p] = "cas" /\ UNCHANGED <<dequeue_pos, slot_seq, ppos, cpc, published, poisoned, log>>
  BY Zenon DEF ClaimCas, Step, cons, hist
<1>t. /\ Oldest \in Nat /\ enqueue_pos \in Nat /\ k \in Nat /\ Capacity \in Nat
      /\ DOMAIN pc = Producers /\ Oldest' = Oldest
  BY Zenon, <1>1, RingTypes DEF Oldest, HeadSeq
<1>2. ASSUME enqueue_pos = k, enqueue_pos' = k + 1, pc' = [pc EXCEPT ![p] = "header"]
      PROVE  VerdictInv'
  <2>1. k \in enqueue_pos .. Oldest + Capacity - 1
    BY <1>1, <1>2, <1>t DEF RingInv, ClaimInv
  <2>2. slot_seq[Idx(k)] # k + 1 /\ ~Published(k)
    BY <1>2, <1>t, <2>1 DEF RingInv, RingWindow, VerdictInv, SlotVerdict, Published
  <2>3. \A q \in Producers : pc[q] \in Claimed => ppos[q] < k
    BY <1>2, ZenonT(30) DEF RingInv, ClaimInv
  <2>4. OwnClaim'
    BY <1>1, <1>2, <1>t, <2>2, <2>3, SMTT(30) DEF VerdictInv, OwnClaim, Claimed, Published
  <2>5. SlotVerdict'
    <3>1. \A m \in published : m.sequence \in Nat
      BY Zenon, HistoryTypes
    <3>2. \A j \in Oldest .. k : slot_seq[Idx(j)] = j + 1 <=> Published(j)
      BY <1>2, <1>t, <2>2, SMTT(30) DEF VerdictInv, SlotVerdict
    <3> QED BY <1>1, <1>2, <1>t, <3>1, <3>2 DEF VerdictInv, SlotVerdict, Published
  <2>6. LogVerdict'
    BY Zenon, <1>1 DEF VerdictInv, LogVerdict, Published
  <2> QED BY Zenon, <2>4, <2>5, <2>6, SMTT(30) DEF VerdictInv
<1>3. ASSUME UNCHANGED enqueue_pos, pc' = [pc EXCEPT ![p] = "retry"]
      PROVE  VerdictInv'
  <2>1. OwnClaim'
    BY Zenon, <1>1, <1>3, <1>t, OwnFrame DEF Claimed
  <2> QED BY Zenon, <1>1, <1>3, <1>t, <2>1, VerdictFrame DEF VerdictInv
<1> QED BY Zenon, <1>2, <1>3 DEF ClaimCas, Step

(* The consumer leaves the position at dequeue_pos: what the slot said     *)
(* about it is now in the consumer's place, "advance" or "skipadvance".    *)
LEMMA HandoverVerdict ==
    ASSUME Capacity > 1, RingInv, VerdictInv, Release \/ Skip
    PROVE  VerdictInv'
<1> DEFINE d == dequeue_pos
<1>0. cpc \in {"release", "skip"} /\ HeadSeq <= d + 1 /\ d \in Nat /\ HeadSeq \in Nat
  BY RingTypes DEF Release, Skip, RingInv, HoldInv
<1>1. /\ cpc \in {"release", "skip"} /\ Oldest = d
      /\ UNCHANGED <<enqueue_pos, dequeue_pos, pc, ppos, published, poisoned, log>>
  BY <1>0 DEF Release, Skip, prod, hist, Oldest
<1>t. /\ d \in Nat /\ enqueue_pos \in Nat /\ Capacity \in Nat /\ Capacity > 0
      /\ slot_seq \in [SlotIndex -> Nat] /\ Idx(d) \in SlotIndex
      /\ \A m \in poisoned : m.sequence \in Nat
  BY Zenon, RingTypes, HistoryTypes
<1>2. OwnClaim'
  BY Zenon, <1>1, OwnFrame
<1>3. ASSUME cpc' \in {"advance", "skipadvance"}, d < enqueue_pos,
             cpc' = "advance" <=> HeadSeq = d + 1,
             slot_seq' = [slot_seq EXCEPT ![Idx(d)] = d + Capacity]
      PROVE  VerdictInv'
  <2>1. Oldest' = d + 1
    BY <1>1, <1>3, <1>t DEF Oldest, HeadSeq
  <2>2. HeadSeq = d + 1 <=> Published(d)
    <3>1. d \in Oldest .. enqueue_pos - 1
      BY <1>1, <1>3, <1>t, SMTT(30)
    <3> QED BY Zenon, <3>1 DEF VerdictInv, SlotVerdict, HeadSeq
  <2>3. LogVerdict'
    BY Zenon, <1>1, <1>3, <2>2 DEF VerdictInv, LogVerdict, Published
  <2>4. ASSUME NEW j \in d + 1 .. enqueue_pos - 1
        PROVE  slot_seq'[Idx(j)] = j + 1 <=> Published(j)
    <3>1. j \in Nat /\ j \in Oldest .. enqueue_pos - 1 /\ j # d /\ j - d < Capacity /\ d - j < Capacity
      BY <1>1, <1>t, <2>4 DEF RingInv, RingWindow
    <3>2. slot_seq'[Idx(j)] = slot_seq[Idx(j)]
      BY Zenon, <1>3, <1>t, <3>1, IdxNear, IdxType
    <3> QED BY Zenon, <3>1, <3>2 DEF VerdictInv, SlotVerdict
  <2>5. SlotVerdict'
    BY <1>1, <1>t, <2>1, <2>4 DEF VerdictInv, SlotVerdict, Published
  <2> QED BY Zenon, <1>2, <2>3, <2>5 DEF VerdictInv
<1>4. CASE Release
  <2>1. HeadSeq = d + 1
    BY Zenon, <1>4 DEF Release, RingInv, HoldInv
  <2>2. d < enqueue_pos
    <3>1. CASE enqueue_pos = d
      <4>1. d \in enqueue_pos .. Oldest + Capacity - 1
        BY <1>1, <1>t, <3>1
      <4> QED BY <1>t, <2>1, <4>1 DEF HeadSeq, RingInv, RingWindow
    <3> QED BY <1>1, <1>t, <3>1 DEF RingInv, RingWindow
  <2> QED BY Zenon, <1>3, <1>4, <2>1, <2>2 DEF Release, GoOn
<1>5. CASE Skip
  <2>1. d < enqueue_pos
    BY Zenon, <1>5 DEF Skip, RingInv, HoldInv
  <2>2. CASE HeadSeq = d
    BY <1>3, <1>5, <1>t, <2>1, <2>2 DEF Skip, GoOn
  <2>3. CASE HeadSeq # d
    <3>1. cpc' = "idle" /\ UNCHANGED slot_seq
      BY Zenon, <1>5, <2>3 DEF Skip, Return
    <3>2. Oldest' = Oldest
      BY Zenon, <1>1, <3>1 DEF Oldest, HeadSeq
    <3> QED BY Zenon, <1>1, <1>2, <3>1, <3>2, VerdictFrame DEF VerdictInv
  <2> QED BY Zenon, <2>2, <2>3
<1> QED BY Zenon, <1>4, <1>5

(* The log takes over what the consumer's place said.                      *)
LEMMA AdvanceVerdict ==
    ASSUME RingInv, VerdictInv, Advance \/ SkipAdvance
    PROVE  VerdictInv'
<1>1. /\ cpc \in {"advance", "skipadvance"} /\ cpc' \in {"idle", "more"}
      /\ dequeue_pos' = dequeue_pos + 1
      /\ UNCHANGED <<enqueue_pos, slot_seq, pc, ppos, published, poisoned>>
  BY Zenon DEF Advance, SkipAdvance, Deliver, Return, GoOn, prod
<1>2. PICK e : log' = Append(log, e) /\ (e.kind # "skipped" <=> cpc = "advance")
  <2>1. CASE Advance
    <3>1. op # "skipped" /\ cpc = "advance"
      BY Zenon, <2>1 DEF Advance, RingInv, TypeInv, CallInv, Delivering
    <3> QED BY <2>1, <3>1 DEF Advance, Deliver
  <2>2. CASE SkipAdvance
    BY <2>2 DEF SkipAdvance, Deliver
  <2> QED BY Zenon, <2>1, <2>2
<1>t. /\ dequeue_pos \in Nat /\ Oldest' = Oldest
      /\ log \in Seq([kind : {"poll", "copy", "batch", "skipped"},
                      hdr : MaybeMessage, payload : MaybeMessage])
  <2>1. dequeue_pos \in Nat /\ Oldest' = Oldest
    BY Zenon, <1>1, RingTypes, AdvanceOldest
  <2>2. TypeOK
    BY Zenon DEF RingInv, TypeInv
  <2> QED BY Zenon, <2>1, <2>2 DEF TypeOK
<1>3. OwnClaim'
  BY Zenon, <1>1, OwnFrame
<1>4. SlotVerdict'
  BY Zenon, <1>1, <1>t, SMTT(30) DEF VerdictInv, SlotVerdict, Published
<1>5. LogVerdict'
  <2>1. Len(log) = dequeue_pos
    BY Zenon DEF VerdictInv, LogVerdict
  <2>2. /\ Len(log') = dequeue_pos + 1 /\ DOMAIN log' = 1 .. dequeue_pos + 1
        /\ \A i \in 1 .. dequeue_pos : log'[i] = log[i] /\ i \in DOMAIN log
        /\ log'[dequeue_pos + 1] = e
    BY <1>2, <1>t, <2>1
  <2>3. e.kind # "skipped" <=> Published(dequeue_pos)
    BY Zenon, <1>1, <1>2 DEF VerdictInv, LogVerdict
  <2>4. ASSUME NEW i \in DOMAIN log' PROVE log'[i].kind # "skipped" <=> Published(i - 1)
    <3>1. CASE i = dequeue_pos + 1
      BY <1>t, <2>2, <2>3, <3>1
    <3>2. CASE i # dequeue_pos + 1
      <4>1. i \in 1 .. dequeue_pos
        BY <1>t, <2>2, <3>2
      <4> QED BY Zenon, <2>2, <4>1 DEF VerdictInv, LogVerdict
    <3> QED BY Zenon, <3>1, <3>2
  <2> QED BY Zenon, <1>1, <2>2, <2>4 DEF LogVerdict, Published
<1> QED BY Zenon, <1>3, <1>4, <1>5 DEF VerdictInv

(* Every step keeps the verdicts.                                          *)
LEMMA NextVerdict ==
    ASSUME Capacity > 1, RingInv, VerdictInv, [Next]_vars
    PROVE  VerdictInv'
<1> USE DEF data, ring, prod, scan, futex, cons, hist
<1>t. DOMAIN pc = Producers /\ dequeue_pos \in Nat
  BY Zenon, RingTypes
<1>1. ASSUME UNCHANGED <<enqueue_pos, dequeue_pos, slot_seq, published, poisoned, log>>,
             Oldest' = Oldest, cpc' \in {"advance", "skipadvance"} => cpc' = cpc, OwnClaim'
      PROVE  VerdictInv'
  BY Zenon, <1>1, VerdictFrame DEF VerdictInv
<1>2. CASE UNCHANGED vars
  <2>1. Oldest' = Oldest /\ OwnClaim'
    BY <1>2, OwnFrame, Zenon DEF vars, Oldest, HeadSeq
  <2> QED BY <1>1, <1>2, <2>1, ZenonT(30) DEF vars
<1>3. ASSUME NEW p \in Producers, Producer(p) PROVE VerdictInv'
  <2>1. ASSUME UNCHANGED <<enqueue_pos, dequeue_pos, slot_seq, published, poisoned, log>>,
               cpc' = cpc \/ (cpc = "asleep" /\ cpc' = "leave"),
               NEW l, pc' = [pc EXCEPT ![p] = l],
               l \in Claimed => pc[p] \in Claimed,
               \A q \in Producers : pc[q] \in Claimed => ppos'[q] = ppos[q]
        PROVE  VerdictInv'
    <3>1. Oldest' = Oldest /\ (cpc' \in {"advance", "skipadvance"} => cpc' = cpc)
      BY Zenon, <2>1 DEF Oldest, HeadSeq
    <3>2. OwnClaim'
      BY <1>t, <2>1, OwnFrame, ZenonT(30)
    <3> QED BY <1>1, <2>1, <3>1, <3>2, ZenonT(30)
  <2>2. CASE LoadPos(p)
    BY <1>t, <2>1, <2>2 DEF LoadPos, Step, Claimed
  <2>3. CASE LoadSeq(p) \/ FullReject(p)
    BY <2>1, <2>3, Zenon DEF LoadSeq, FullReject, Step, Claimed
  <2>4. CASE WriteHeader(p) \/ WritePayload(p)
    BY <2>1, <2>4, Zenon DEF WriteHeader, WritePayload, Step, Claimed
  <2>5. CASE Notify(p)
    BY <2>1, <2>5, Zenon DEF Notify, NotifyLoad, NotifyBump, NotifyWake, Step, Claimed
  <2>6. CASE Abandon(p)
    BY <2>1, <2>6, Zenon DEF Abandon, Step, Claimed
  <2>7. CASE Commit(p)
    BY Zenon, <2>7, CommitOkVerdict, CommitPoisonedVerdict
  <2>8. CASE ClaimCas(p)
    BY Zenon, <2>8, ClaimVerdict
  <2> QED BY <1>3, <2>2, <2>3, <2>4, <2>5, <2>6, <2>7, <2>8, Zenon DEF Producer
<1>4. ASSUME UNCHANGED <<enqueue_pos, dequeue_pos, slot_seq, prod, hist>>,
             cpc \notin {"advance", "skipadvance"}, cpc' \notin {"advance", "skipadvance"}
      PROVE  VerdictInv'
  <2>1. Oldest' = Oldest /\ OwnClaim'
    BY Zenon, <1>4, OwnFrame DEF Oldest, HeadSeq
  <2> QED BY <1>1, <1>4, <2>1, ZenonT(30)
<1>5. ASSUME NEW o \in Calls, Poll(o) PROVE VerdictInv'
  BY Zenon, <1>4, <1>5 DEF Poll, Return
<1>6. CASE ReadHeader \/ CopyPayload \/ Probe
  BY <1>4, <1>6, ZenonT(30) DEF ReadHeader, CopyPayload, Probe, Return, GoOn
<1>7. CASE WaitBegin \/ WaitStep \/ FutexTimeout \/ FutexInterrupted
  BY Zenon, <1>4, <1>7 DEF WaitBegin, WaitStep, WaitExpect, WaitEnter, WaitRecheck, FutexWait,
                    WaitLeave, FutexTimeout, FutexInterrupted, Return, GoOn
<1>8. CASE Tick
  <2>1. Oldest' = Oldest /\ OwnClaim'
    BY <1>8, OwnFrame, Zenon DEF Tick, Oldest, HeadSeq
  <2> QED BY <1>1, <1>8, <2>1, ZenonT(30) DEF Tick
<1>9. CASE ConsumerRestart
  <2>1. Oldest' = Oldest /\ OwnClaim'
    BY Zenon, <1>9, OwnFrame DEF ConsumerRestart, Oldest, HeadSeq
  <2> QED BY Zenon, <1>1, <1>9, <2>1, SMTT(30) DEF ConsumerRestart, Return
<1> QED
  BY Zenon, <1>2, <1>3, <1>5, <1>6, <1>7, <1>8, <1>9, HandoverVerdict, AdvanceVerdict
     DEF Next, Running, Consumer, PollStep

(* The verdicts are kept in every behaviour.                               *)
LEMMA VerdictSafe == ASSUME Capacity > 1 PROVE Spec => [](RingInv /\ VerdictInv)
<1>1. RingInv /\ VerdictInv /\ [Next]_vars => (RingInv /\ VerdictInv)'
  BY Zenon, NextRing, NextVerdict
<1>2. Init => RingInv /\ VerdictInv
  BY Zenon, InitRing, InitVerdict
<1> QED BY <1>1, <1>2, PTL DEF Spec

(* A claim told OM_BUS_MP_OK is handed out and never skipped, a claim told *)
(* SLOT_POISONED is skipped and never handed out, whatever the producers   *)
(* and the skipping consumer do between claim and commit.                  *)
THEOREM VerdictKept == ASSUME Capacity > 1 PROVE Spec => []CommitVerdict
<1>1. ASSUME RingInv, VerdictInv PROVE CommitVerdict
  <2>1. /\ \A m \in published \cup poisoned : m.sequence \in Nat
        /\ DOMAIN log = 1 .. dequeue_pos /\ dequeue_pos \in Nat /\ Len(log) = dequeue_pos
    BY Zenon, <1>1, RingTypes, HistoryTypes DEF VerdictInv, LogVerdict
  <2>2. ASSUME NEW m \in published \cup poisoned, m.sequence < dequeue_pos
        PROVE  /\ m.sequence + 1 \in DOMAIN log
               /\ log[m.sequence + 1].kind # "skipped" <=> Published(m.sequence)
    <3>1. m.sequence + 1 \in DOMAIN log /\ (m.sequence + 1) - 1 = m.sequence
      BY <2>1, <2>2
    <3> QED BY Zenon, <1>1, <3>1 DEF VerdictInv, LogVerdict
  <2>3. \A m \in published : m.sequence < dequeue_pos => log[m.sequence + 1].kind # "skipped"
    BY Zenon, <2>2 DEF Published
  <2>4. \A m \in poisoned : m.sequence < dequeue_pos => log[m.sequence + 1].kind = "skipped"
    BY <1>1, <2>2, Zenon DEF VerdictInv, SlotVerdict
  <2>5. \A i \in DOMAIN log :
           log[i].kind # "skipped" => \E m \in published : m.sequence = i - 1
    BY Zenon, <1>1 DEF VerdictInv, LogVerdict, Published
  <2> QED BY Zenon, <2>1, <2>3, <2>4, <2>5, SMTT(30) DEF CommitVerdict
<1> QED BY <1>1, VerdictSafe, PTL

-----------------------------------------------------------------------------
(* Sleeping.  From the recheck on, a record the consumer has not seen was  *)
(* committed after waiters was raised, so its producer goes through        *)
(* notify_seq; until that producer bumps it, FUTEX_WAIT still sees the     *)
(* expected value.                                                         *)

Unseen(m) == m.sequence >= dequeue_pos
WakeInv ==
    /\ expected <= notify_seq
    /\ cpc = "futex" /\ notify_seq = expected =>
          \A m \in published : Unseen(m) => pc[m.producer] \in {"notify", "bump"}
    /\ NoLostWakeup

(* Nobody sleeps on the empty ring.                                        *)
LEMMA InitWake == Init => WakeInv
  BY DEF Init, WakeInv, NoLostWakeup

(* Every step keeps the promise of a wake-up.                              *)
LEMMA NextWake ==
    ASSUME RingInv, VerdictInv, WakeInv, [Next]_vars
    PROVE  WakeInv'
<1> USE DEF data, ring, prod, scan, futex, cons, hist
<1>t. /\ DOMAIN pc = Producers /\ notify_seq \in Nat /\ expected \in Nat
      /\ dequeue_pos \in Nat /\ enqueue_pos \in Nat
      /\ \A m \in published : m.producer \in Producers /\ m.sequence \in Nat
  <2>1. TypeOK
    BY Zenon DEF RingInv, TypeInv
  <2>2. notify_seq \in Nat /\ expected \in Nat
    BY Zenon, <2>1 DEF TypeOK
  <2> QED BY Zenon, <2>2, RingTypes, HistoryTypes
<1>w. cpc \in Registered => waiters # 0
  BY SMTT(30) DEF RingInv, TypeInv, CallInv
<1>1. CASE UNCHANGED vars
  BY Zenon, <1>1 DEF vars, WakeInv, NoLostWakeup, Unseen
<1>2. ASSUME NEW p \in Producers, Producer(p) PROVE WakeInv'
  <2>1. ASSUME UNCHANGED <<cpc, notify_seq, expected, dequeue_pos, published>>,
               NEW l, pc' = [pc EXCEPT ![p] = l], pc[p] \notin {"notify", "bump", "wake"}
        PROVE  WakeInv'
    BY <1>t, <2>1, Zenon DEF WakeInv, NoLostWakeup, Unseen
  <2>2. CASE LoadPos(p) \/ LoadSeq(p) \/ FullReject(p) \/ ClaimCas(p)
    BY <2>1, <2>2, Zenon DEF LoadPos, LoadSeq, FullReject, ClaimCas, Step
  <2>3. CASE WriteHeader(p) \/ WritePayload(p) \/ Abandon(p)
    BY <2>1, <2>3, Zenon DEF WriteHeader, WritePayload, Abandon, Step
  <2>4. CASE Commit(p)
    <3>1. UNCHANGED <<cpc, notify_seq, expected, dequeue_pos>> /\ pc[p] = "commit"
      BY <2>4, Zenon DEF Commit, Step
    <3>2. CASE UNCHANGED published
      BY <2>1, <2>4, <3>1, <3>2, ZenonT(30) DEF Commit, Step
    <3>3. CASE published' = published \cup {Msg(p, ppos[p])} /\ pc' = [pc EXCEPT ![p] = "notify"]
      BY <1>t, <3>1, <3>3 DEF WakeInv, NoLostWakeup, Unseen, Msg
    <3> QED BY <2>4, <3>2, <3>3, Zenon DEF Commit, Step
  <2>5. CASE NotifyLoad(p)
    <3>1. UNCHANGED <<cpc, notify_seq, expected, dequeue_pos, published>>
      BY Zenon, <2>5 DEF NotifyLoad
    <3>2. ASSUME cpc \in {"futex", "asleep"} PROVE pc' = [pc EXCEPT ![p] = "bump"]
      <4>1. (IF waiters = 0 THEN "idle" ELSE "bump") = "bump"
        BY Zenon, <1>w, <3>2 DEF Registered
      <4> QED BY <2>5, <4>1, Zenon DEF NotifyLoad, Step
    <3> QED BY Zenon, <1>t, <3>1, <3>2 DEF WakeInv, NoLostWakeup, Unseen
  <2>6. CASE NotifyBump(p)
    BY <1>t, <2>6 DEF NotifyBump, Step, WakeInv, NoLostWakeup, Unseen
  <2>7. CASE NotifyWake(p)
    <3>1. UNCHANGED <<notify_seq, expected, dequeue_pos, published>> /\ cpc' # "asleep"
      BY Zenon, <2>7 DEF NotifyWake
    <3>2. cpc' = "futex" => cpc = "futex"
      BY Zenon, <2>7 DEF NotifyWake
    <3>3. pc[p] = "wake" /\ pc' = [pc EXCEPT ![p] = "idle"]
      BY Zenon, <2>7, SMTT(30) DEF NotifyWake, Step
    <3> QED BY Zenon, <1>t, <3>1, <3>2, <3>3 DEF WakeInv, NoLostWakeup, Unseen
  <2> QED BY Zenon, <1>2, <2>2, <2>3, <2>4, <2>5, <2>6, <2>7 DEF Producer, Notify
<1>3. ASSUME cpc' \notin {"futex", "asleep"}, UNCHANGED notify_seq,
             expected' \in {0, expected, notify_seq}
      PROVE  WakeInv'
  BY <1>3, <1>t DEF WakeInv, NoLostWakeup
<1>4. ASSUME NEW o \in Calls, Poll(o) PROVE WakeInv'
  BY Zenon, <1>3, <1>4 DEF Poll, Return
<1>5. CASE ReadHeader \/ CopyPayload \/ Release \/ Probe \/ Skip
  BY Zenon, <1>3, <1>5 DEF ReadHeader, CopyPayload, Release, Probe, Skip, Return, GoOn
<1>6. CASE Advance \/ SkipAdvance
  BY <1>3, <1>6, ZenonT(30) DEF Advance, SkipAdvance, Deliver, Return, GoOn
<1>7. CASE WaitBegin \/ WaitExpect \/ WaitEnter \/ WaitLeave \/ FutexTimeout \/ FutexInterrupted
  BY Zenon, <1>3, <1>7 DEF WaitBegin, WaitExpect, WaitEnter, WaitLeave, FutexTimeout,
                    FutexInterrupted, Return, GoOn
<1>8. CASE WaitRecheck
  <2>1. CASE cpc' = "futex" /\ ~pending
    <3>0. \A m \in published : m.sequence < enqueue_pos
      BY Zenon DEF VerdictInv, SlotVerdict
    <3>1. \A m \in published : ~Unseen(m)
      BY <1>t, <2>1, <3>0 DEF pending, Unseen
    <3> QED BY <1>8, <1>t, <2>1, <3>1, Zenon DEF WaitRecheck, WakeInv, NoLostWakeup, Unseen
  <2>2. CASE cpc' = "leave"
    BY <1>3, <1>8, <2>2, Zenon DEF WaitRecheck
  <2> QED BY <1>8, <2>1, <2>2, Zenon DEF WaitRecheck, GoOn
<1>9. CASE FutexWait
  BY <1>9, <1>t, ZenonT(30) DEF FutexWait, GoOn, WakeInv, NoLostWakeup, Unseen
<1>10. CASE Tick
  BY <1>10, Zenon DEF Tick, WakeInv, NoLostWakeup, Unseen
<1>11. CASE ConsumerRestart
  BY Zenon, <1>3, <1>11 DEF ConsumerRestart, Return
<1> QED
  BY <1>1, <1>2, <1>4, <1>5, <1>6, <1>7, <1>8, <1>9, <1>10, <1>11, Zenon
     DEF Next, Running, Consumer, PollStep, WaitStep

(* No wake-up is lost between om_bus_mp_commit and om_bus_mp_wait: while   *)
(* the consumer sleeps, every unseen record's producer has yet to wake it. *)
THEOREM WakeupKept == ASSUME Capacity > 1 PROVE Spec => []NoLostWakeup
<1>1. RingInv /\ VerdictInv /\ WakeInv /\ [Next]_vars => WakeInv'
  BY Zenon, NextWake
<1>2. WakeInv => NoLostWakeup
  BY Zenon DEF WakeInv
<1> QED BY VerdictSafe, InitWake, <1>1, <1>2, PTL DEF Spec

-----------------------------------------------------------------------------
(* The ring implements the bounded queue of claims.                        *)

Ready == {k \in Oldest .. enqueue_pos - 1 : slot_seq[Idx(k)] = k + 1}

(* The empty ring is the empty queue.                                      *)
LEMMA QueueInit == Init => Queue!Init
<1> SUFFICES ASSUME Init PROVE Queue!Init
  OBVIOUS
<1>1. Oldest = 0
  BY IdxSmall, BusMpAssumption DEF Init, Oldest, HeadSeq, SlotIndex
<1> QED BY <1>1 DEF Init, Queue!Init

(* Only four steps of the ring are visible in the queue: a claim CAS or a  *)
(* commit CAS that wins, and the consumer giving its slot away.            *)
LEMMA QueueStep ==
    ASSUME Capacity > 1, RingInv, [Next]_vars
    PROVE  [Queue!Next]_(Queue!vars)
<1> USE DEF data, ring, prod, scan, futex, cons, hist
<1>t. /\ Oldest \in Nat /\ enqueue_pos \in Nat /\ dequeue_pos \in Nat
      /\ slot_seq \in [SlotIndex -> Nat] /\ Capacity \in Nat
  BY Zenon, RingTypes
<1>1. ASSUME UNCHANGED <<enqueue_pos, slot_seq>>, Oldest' = Oldest
      PROVE  UNCHANGED Queue!vars
  BY Zenon, <1>1 DEF Queue!vars
<1>2. ASSUME NEW p \in Producers, Producer(p) PROVE [Queue!Next]_(Queue!vars)
  <2> DEFINE k == ppos[p]
  <2>t. k \in Nat /\ Idx(k) \in SlotIndex
    BY Zenon, IdxType, RingTypes
  <2>1. CASE ClaimCas(p) /\ enqueue_pos' # enqueue_pos
    <3>1. /\ enqueue_pos = k /\ enqueue_pos' = enqueue_pos + 1 /\ pc[p] = "cas"
          /\ UNCHANGED <<slot_seq, dequeue_pos, cpc>>
      BY <2>1, ZenonT(30) DEF ClaimCas, Step
    <3>2. enqueue_pos < Oldest + Capacity /\ Oldest' = Oldest
      BY Zenon, <3>1 DEF RingInv, ClaimInv, Oldest, HeadSeq
    <3>3. slot_seq[Idx(enqueue_pos)] # enqueue_pos + 1
      BY <1>t, <3>2, SMTT(30) DEF RingInv, RingWindow
    <3>4. Ready' = Ready
      BY <1>t, <3>1, <3>2, <3>3, SMTT(30) DEF Ready, RingInv, RingWindow
    <3>5. Queue!Claim
      BY Zenon, <3>1, <3>2, <3>4 DEF Queue!Claim, Ready
    <3> QED BY Zenon, <3>5 DEF Queue!Next
  <2>2. CASE Commit(p) /\ SeqOf(p) = k
    <3>1. /\ k < enqueue_pos /\ slot_seq[Idx(k)] = k
          /\ slot_seq' = [slot_seq EXCEPT ![Idx(k)] = k + 1]
          /\ UNCHANGED <<enqueue_pos, dequeue_pos, cpc>>
      BY <2>2, Zenon DEF Commit, Step, SeqOf, RingInv, ClaimInv, Claimed
    <3>2. Oldest <= k /\ Oldest' = Oldest
      BY <2>t, <3>1, CommitSlot, Zenon
    <3>3. k \in (Oldest .. enqueue_pos - 1) \ Ready
      BY <1>t, <2>t, <3>1, <3>2, SMTT(30) DEF Ready
    <3>4. ASSUME NEW j \in Oldest .. enqueue_pos - 1
          PROVE  slot_seq'[Idx(j)] = j + 1 <=> slot_seq[Idx(j)] = j + 1 \/ j = k
      <4>1. CASE j = k
        BY <1>t, <2>t, <3>1, <4>1, ZenonT(30)
      <4>2. CASE j # k
        <5>1. j \in Nat /\ j - k < Capacity /\ k - j < Capacity
          BY <1>t, <2>t, <3>1, <3>2, <3>4 DEF RingInv, RingWindow
        <5>2. slot_seq'[Idx(j)] = slot_seq[Idx(j)]
          BY <1>t, <2>t, <3>1, <4>2, <5>1, IdxNear, IdxType, Zenon
        <5> QED BY Zenon, <4>2, <5>2, SMTT(30)
      <4> QED BY Zenon, <4>1, <4>2
    <3>5. Ready' = Ready \cup {k}
      BY <3>1, <3>2, <3>3, <3>4, ZenonT(30) DEF Ready
    <3>6. Queue!Commit
      BY Zenon, <3>1, <3>2, <3>3, <3>5 DEF Queue!Commit, Ready
    <3> QED BY <3>6, Zenon DEF Queue!Next
  <2>3. CASE ~(ClaimCas(p) /\ enqueue_pos' # enqueue_pos) /\ ~(Commit(p) /\ SeqOf(p) = k)
    <3>1. /\ UNCHANGED <<enqueue_pos, dequeue_pos, slot_seq>>
          /\ cpc' = cpc \/ (cpc = "asleep" /\ cpc' = "leave")
      BY <1>2, <2>3, Zenon DEF Producer, LoadPos, LoadSeq, FullReject, ClaimCas, WriteHeader,
                        WritePayload, Commit, Notify, NotifyLoad, NotifyBump, NotifyWake, Abandon
    <3>2. Oldest' = Oldest
      BY Zenon, <3>1 DEF Oldest, HeadSeq
    <3> QED BY <1>1, <3>1, <3>2, Zenon
  <2> QED BY Zenon, <2>1, <2>2, <2>3
<1>3. ASSUME dequeue_pos < enqueue_pos, Oldest = dequeue_pos, Oldest' = dequeue_pos + 1,
             UNCHANGED enqueue_pos,
             slot_seq' = [slot_seq EXCEPT ![Idx(dequeue_pos)] = dequeue_pos + Capacity]
      PROVE  Queue!Next
  <2>1. ASSUME NEW j \in Oldest + 1 .. enqueue_pos - 1
        PROVE  slot_seq'[Idx(j)] = slot_seq[Idx(j)]
    <3>1. j \in Nat /\ j # dequeue_pos /\ j - dequeue_pos < Capacity /\ dequeue_pos - j < Capacity
      BY <1>3, <1>t, <2>1 DEF RingInv, RingWindow
    <3> QED BY Zenon, <1>3, <1>t, <3>1, IdxNear, IdxType
  <2>2. Ready' = Ready \ {Oldest} /\ Oldest' = Oldest + 1
    BY <1>3, <1>t, <2>1 DEF Ready
  <2>3. CASE Oldest \in Ready
    BY <1>3, <2>2, <2>3, ZenonT(30) DEF Queue!Next, Queue!Deliver, Ready
  <2>4. CASE Oldest \notin Ready
    <3>1. Ready' = Ready
      BY Zenon, <2>2, <2>4
    <3> QED BY Zenon, <1>3, <2>2, <2>4, <3>1 DEF Queue!Next, Queue!Skip, Ready
  <2> QED BY Zenon, <2>3, <2>4
<1>4. CASE Release
  <2>1. Oldest = dequeue_pos /\ Oldest' = dequeue_pos + 1 /\ HeadSeq = dequeue_pos + 1
    BY <1>4, <1>t, IdxType DEF Release, GoOn, Oldest, HeadSeq, RingInv, HoldInv
  <2>2. dequeue_pos < enqueue_pos
    BY <1>t, <2>1, BusMpAssumption DEF HeadSeq, RingInv, RingWindow
  <2> QED BY <1>3, <1>4, <2>1, <2>2, ZenonT(30) DEF Release
<1>5. CASE Skip
  <2>1. Oldest = dequeue_pos /\ dequeue_pos < enqueue_pos
    BY <1>5, <1>t, IdxType DEF Skip, Oldest, HeadSeq, RingInv, HoldInv
  <2>2. CASE HeadSeq = dequeue_pos
    <3>1. Oldest' = dequeue_pos + 1
      BY <1>5, <1>t, <2>2, IdxType DEF Skip, GoOn, Oldest, HeadSeq
    <3> QED BY <1>3, <1>5, <2>1, <2>2, <3>1, ZenonT(30) DEF Skip
  <2>3. CASE HeadSeq # dequeue_pos
    <3>1. Oldest' = Oldest
      BY <1>5, <2>1, <2>3, ZenonT(30) DEF Skip, Return, Oldest, HeadSeq
    <3> QED BY <1>1, <1>5, <2>3, <3>1, Zenon DEF Skip
  <2> QED BY <2>2, <2>3, ZenonT(30)
<1>6. CASE Advance \/ SkipAdvance
  <2>1. Oldest' = Oldest
    BY Zenon, <1>6, AdvanceOldest
  <2> QED BY Zenon, <1>1, <1>6, <2>1 DEF Advance, SkipAdvance, Deliver
<1>7. ASSUME UNCHANGED <<enqueue_pos, dequeue_pos, slot_seq>>,
             cpc \notin {"advance", "skipadvance"}, cpc' \notin {"advance", "skipadvance"}
      PROVE  UNCHANGED Queue!vars
  BY Zenon, <1>1, <1>7 DEF Oldest, HeadSeq
<1>8. ASSUME NEW o \in Calls, Poll(o) PROVE UNCHANGED Queue!vars
  BY Zenon, <1>7, <1>8 DEF Poll, Return
<1>9. CASE ReadHeader \/ CopyPayload \/ Probe
  BY <1>7, <1>9, Zenon DEF ReadHeader, CopyPayload, Probe, Return, GoOn
<1>10. CASE WaitBegin \/ WaitStep \/ FutexTimeout \/ FutexInterrupted
  BY <1>7, <1>10, Zenon DEF WaitBegin, WaitStep, WaitExpect, WaitEnter, WaitRecheck, FutexWait,
                     WaitLeave, FutexTimeout, FutexInterrupted, Return, GoOn
<1>11. CASE Tick \/ UNCHANGED vars
  <2>1. Oldest' = Oldest /\ UNCHANGED <<enqueue_pos, slot_seq>>
    BY Zenon, <1>11 DEF Tick, vars, Oldest, HeadSeq
  <2> QED BY Zenon, <1>1, <2>1, SMTT(30)
<1>12. CASE ConsumerRestart
  <2>1. Oldest' = Oldest
    BY Zenon, <1>12 DEF ConsumerRestart, Oldest, HeadSeq
  <2> QED BY Zenon, <1>1, <1>12, <2>1 DEF ConsumerRestart
<1> QED
  BY Zenon, <1>2, <1>4, <1>5, <1>6, <1>8, <1>9, <1>10, <1>11, <1>12
     DEF Next, Running, Consumer, PollStep

(* Every behaviour of the ring is a behaviour of a bounded queue: claims   *)
(* take consecutive positions while there is room, each is committed at    *)
(* most once, and positions leave in order.                                *)
THEOREM QueueImplemented == ASSUME Capacity > 1 PROVE Spec => ImplementsQueue
<1>1. RingInv /\ [Next]_vars => [Queue!Next]_(Queue!vars)
  BY Zenon, QueueStep
<1> QED BY QueueInit, <1>1, RingSafe, PTL DEF Spec, ImplementsQueue, Queue!Spec

-----------------------------------------------------------------------------
(* The data of a record.  A producer that was skipped may still write into *)
(* its slot, a lap or more later; a position is Spoiled from the moment an *)
(* earlier position of its slot was left unpublished.  The data of a claim *)
(* that is not spoiled is its own from the store of the header to the log. *)

Spoiled(k) == \E j \in 0 .. k - 1 : j < Oldest /\ Idx(j) = Idx(k) /\ ~Published(j)
OwnData ==
    \A p \in Producers : pc[p] \in Claimed =>
        \/ ppos[p] < Oldest \/ Spoiled(ppos[p])
        \/ /\ pc[p] # "header" => slot_hdr[Idx(ppos[p])] = Msg(p, ppos[p])
           /\ pc[p] = "commit" => slot_payload[Idx(ppos[p])] = Msg(p, ppos[p])
Whole(k) ==
    /\ slot_hdr[Idx(k)] \in published /\ slot_hdr[Idx(k)].sequence = k
    /\ slot_payload[Idx(k)] = slot_hdr[Idx(k)]
SlotData == \A k \in Oldest .. enqueue_pos - 1 : Published(k) => Spoiled(k) \/ Whole(k)
Filled ==
    /\ rec.hdr \in published /\ rec.hdr.sequence = dequeue_pos
    /\ cpc = "copy" => rec.hdr = slot_hdr[Idx(dequeue_pos)]
    /\ cpc # "copy" /\ op = "copy" => rec.payload = Copied(rec.hdr, rec.hdr)
RecData == cpc \in {"copy", "release", "advance"} => Spoiled(dequeue_pos) \/ Filled
LogData == \A i \in DOMAIN log : log[i].kind # "skipped" => Intact(i) \/ Spoiled(i - 1)
DataInv == OwnData /\ SlotData /\ RecData /\ LogData

(* Spoiled for once is spoiled for ever: the window only moves up, and a   *)
(* position below it is never published any more.                          *)
LEMMA SpoiledKept ==
    ASSUME Oldest \in Nat, Oldest' \in Nat, Oldest <= Oldest',
           \A j \in Nat : j < Oldest => (Published(j)' => Published(j)), NEW k \in Nat, Spoiled(k)
    PROVE  Spoiled(k)'
<1>1. PICK j \in 0 .. k - 1 : j < Oldest /\ Idx(j) = Idx(k) /\ ~Published(j)
  BY Zenon DEF Spoiled
<1>2. j \in Nat /\ j < Oldest'
  BY <1>1
<1>3. ~Published(j)'
  BY Zenon, <1>1, <1>2
<1> QED BY Zenon, <1>1, <1>2, <1>3 DEF Spoiled, Idx

(* What the invariants say of a claim: its position is below enqueue_pos   *)
(* and unpublished.                                                        *)
LEMMA ClaimFacts ==
    ASSUME RingInv, VerdictInv, NEW p \in Producers, pc[p] \in Claimed
    PROVE  ppos[p] \in Nat /\ ppos[p] < enqueue_pos /\ ~Published(ppos[p])
  BY Zenon, RingTypes DEF RingInv, ClaimInv, VerdictInv, OwnClaim

(* A late producer that shares its slot with a position in the window has  *)
(* been left behind, and so that position is spoiled.                      *)
LEMMA LateSpoils ==
    ASSUME RingInv, VerdictInv, NEW p \in Producers, pc[p] \in Claimed,
           NEW j \in Oldest .. enqueue_pos - 1, j # ppos[p], Idx(j) = Idx(ppos[p])
    PROVE  Spoiled(j)
<1> DEFINE k == ppos[p]
<1>1. k \in Nat /\ k < enqueue_pos /\ ~Published(k)
  BY Zenon, ClaimFacts
<1>2. Oldest \in Nat /\ enqueue_pos \in Nat /\ Capacity \in Nat /\ enqueue_pos <= Oldest + Capacity
  BY Zenon, RingTypes DEF RingInv, RingWindow
<1>3. j \in Nat
  BY <1>2
<1> HIDE DEF k
<1>4. k < Oldest
  <2> SUFFICES ASSUME Oldest <= k PROVE FALSE
    BY <1>1, <1>2
  <2>1. j - k < Capacity /\ k - j < Capacity
    BY <1>1, <1>2, <1>3
  <2> QED BY Zenon, <1>1, <1>3, <2>1, IdxNear DEF k
<1>5. k \in 0 .. j - 1
  BY <1>1, <1>2, <1>3, <1>4
<1> QED BY Zenon, <1>1, <1>4, <1>5 DEF Spoiled, k

(* While the consumer holds the slot at dequeue_pos, the position is in    *)
(* the window and published.                                               *)
LEMMA Held ==
    ASSUME RingInv, VerdictInv, HeadSeq = dequeue_pos + 1
    PROVE  Oldest = dequeue_pos /\ dequeue_pos \in Oldest .. enqueue_pos - 1 /\ Published(dequeue_pos)
<1>1. /\ enqueue_pos \in Nat /\ dequeue_pos \in Nat /\ Capacity \in Nat /\ Capacity > 0
  BY Zenon, RingTypes
<1>2. Oldest = dequeue_pos
  BY <1>1 DEF Oldest
<1>3. dequeue_pos # enqueue_pos
  <2> SUFFICES ASSUME dequeue_pos = enqueue_pos PROVE FALSE
    OBVIOUS
  <2>1. dequeue_pos \in enqueue_pos .. Oldest + Capacity - 1
    BY <1>1, <1>2
  <2> QED BY <1>1, <2>1 DEF HeadSeq, RingInv, RingWindow
<1>4. dequeue_pos \in Oldest .. enqueue_pos - 1
  BY <1>1, <1>2, <1>3 DEF RingInv, RingWindow
<1> QED BY Zenon, <1>2, <1>4 DEF HeadSeq, VerdictInv, SlotVerdict

(* The types of the data.                                                  *)
LEMMA DataTypes ==
    ASSUME RingInv, VerdictInv
    PROVE  /\ DOMAIN slot_hdr = SlotIndex /\ DOMAIN slot_payload = SlotIndex
           /\ dequeue_pos \in Nat /\ Len(log) = dequeue_pos /\ DOMAIN log = 1 .. dequeue_pos
           /\ \A j \in Oldest .. enqueue_pos - 1 : j \in Nat
<1>1. TypeOK
  BY Zenon DEF RingInv, TypeInv
<1>2. Len(log) = dequeue_pos
  BY Zenon DEF VerdictInv, LogVerdict
<1> QED BY <1>1, <1>2, RingTypes, HistoryTypes DEF TypeOK

(* A step that leaves the data and the verdicts alone: the window may move *)
(* up, and a claim may be made or dropped.                                 *)
LEMMA DataFrame ==
    ASSUME RingInv, VerdictInv, DataInv, Oldest' \in Nat, Oldest <= Oldest',
           UNCHANGED <<slot_hdr, slot_payload, published>>,
           enqueue_pos' \in Nat, enqueue_pos <= enqueue_pos',
           \A p \in Producers : pc'[p] \in Claimed =>
               pc'[p] = "header" \/ (pc'[p] = pc[p] /\ ppos'[p] = ppos[p])
    PROVE  /\ \A k \in Nat : Spoiled(k) => Spoiled(k)'
           /\ OwnData' /\ SlotData'
<1>t. Oldest \in Nat /\ enqueue_pos \in Nat
  BY Zenon, RingTypes
<1>p. \A j : Published(j)' <=> Published(j)
  BY Zenon DEF Published
<1>1. ASSUME NEW k \in Nat, Spoiled(k) PROVE Spoiled(k)'
  BY <1>1, <1>t, <1>p, SpoiledKept, Zenon
<1>2. OwnData'
  <2> SUFFICES ASSUME NEW p \in Producers, pc'[p] \in Claimed, pc'[p] # "header"
               PROVE  \/ ppos'[p] < Oldest' \/ Spoiled(ppos[p])'
                      \/ /\ slot_hdr[Idx(ppos[p])] = Msg(p, ppos[p])
                         /\ pc'[p] = "commit" => slot_payload[Idx(ppos[p])] = Msg(p, ppos[p])
    BY Zenon DEF OwnData, Idx, Msg
  <2>1. pc'[p] = pc[p] /\ ppos'[p] = ppos[p]
    BY Zenon
  <2>2. ppos[p] \in Nat
    BY Zenon, RingTypes
  <2>3. ppos[p] < Oldest => ppos'[p] < Oldest'
    BY <1>t, <2>1, <2>2
  <2> QED BY <1>1, <2>1, <2>2, <2>3, Zenon DEF DataInv, OwnData
<1>3. SlotData'
  <2> SUFFICES ASSUME NEW k \in Oldest' .. enqueue_pos' - 1, Published(k)'
               PROVE  Spoiled(k)' \/ Whole(k)'
    BY Zenon DEF SlotData
  <2>1. k \in Nat /\ Oldest <= k
    BY <1>t
  <2>2. Published(k)
    BY Zenon, <1>p
  <2>3. k < enqueue_pos
    BY Zenon, <2>2 DEF Published, VerdictInv, SlotVerdict
  <2>4. k \in Oldest .. enqueue_pos - 1
    BY <1>t, <2>1, <2>3
  <2>5. Whole(k) => Whole(k)'
    BY Zenon DEF Whole, Idx
  <2> QED BY <1>1, <2>1, <2>2, <2>4, <2>5, Zenon DEF DataInv, SlotData
<1> QED BY <1>1, <1>2, <1>3, Zenon

(* Entries of the log are neither added nor changed.                       *)
LEMMA LogFrame ==
    ASSUME RingInv, VerdictInv, DataInv, UNCHANGED log, published \subseteq published',
           \A k \in Nat : Spoiled(k) => Spoiled(k)'
    PROVE  LogData'
<1> SUFFICES ASSUME NEW i \in DOMAIN log, log[i].kind # "skipped"
             PROVE  Intact(i)' \/ Spoiled(i - 1)'
  BY Zenon DEF LogData
<1>1. i - 1 \in Nat
  BY DataTypes
<1>2. Intact(i) \/ Spoiled(i - 1)
  BY Zenon DEF DataInv, LogData
<1>3. Intact(i) => Intact(i)'
  BY Zenon DEF Intact
<1> QED BY <1>1, <1>2, <1>3, Zenon

(* A store into the slot of a claim touches only its own data, or that of  *)
(* positions that are spoiled by it.                                       *)
LEMMA WriteData ==
    ASSUME RingInv, VerdictInv, DataInv, NEW p \in Producers, WriteHeader(p) \/ WritePayload(p)
    PROVE  DataInv'
<1> DEFINE k == ppos[p]
<1>1. /\ pc[p] \in Claimed /\ pc' = [pc EXCEPT ![p] = pc'[p]]
      /\ UNCHANGED <<enqueue_pos, dequeue_pos, slot_seq, ppos, cpc, op, rec, published, log>>
  BY Zenon DEF WriteHeader, WritePayload, Step, Claimed, cons, hist, scan
<1>2. DOMAIN pc = Producers /\ k \in Nat /\ Idx(k) \in SlotIndex /\ ~Published(k) /\ k < enqueue_pos
  BY Zenon, <1>1, RingTypes, ClaimFacts, IdxType
<1>3. Oldest' = Oldest /\ Oldest \in Nat /\ enqueue_pos \in Nat /\ dequeue_pos \in Nat
  BY Zenon, <1>1, RingTypes DEF Oldest, HeadSeq
<1>4. /\ \A i \in SlotIndex : i # Idx(k) => slot_hdr'[i] = slot_hdr[i] /\ slot_payload'[i] = slot_payload[i]
      /\ pc[p] = "header" => slot_hdr'[Idx(k)] = Msg(p, k) /\ pc'[p] = "payload"
      /\ pc[p] # "header" => /\ slot_hdr' = slot_hdr /\ slot_payload'[Idx(k)] = Msg(p, k)
                             /\ pc[p] = "payload" /\ pc'[p] = "commit"
  BY Zenon, <1>2, DataTypes DEF WriteHeader, WritePayload, Step
<1> HIDE DEF k
<1>5. (\A j : Published(j)' <=> Published(j)) /\ (\A j : Spoiled(j)' <=> Spoiled(j))
  BY <1>1, <1>3, Zenon DEF Published, Spoiled, Idx
<1>6. ASSUME NEW j \in Oldest .. enqueue_pos - 1, j # k, Idx(j) = Idx(k) PROVE Spoiled(j)
  BY Zenon, <1>1, <1>6, LateSpoils DEF k
<1>7. OwnData'
  <2> SUFFICES ASSUME NEW q \in Producers, pc'[q] \in Claimed, ~(ppos[q] < Oldest), ~Spoiled(ppos[q])
               PROVE  /\ pc'[q] # "header" => slot_hdr'[Idx(ppos[q])] = Msg(q, ppos[q])
                      /\ pc'[q] = "commit" => slot_payload'[Idx(ppos[q])] = Msg(q, ppos[q])
    BY <1>1, <1>3, <1>5, Zenon DEF OwnData
  <2>1. CASE q = p
    <3>1. pc[p] # "header" => slot_hdr[Idx(k)] = Msg(p, k)
      BY Zenon, <1>1, <2>1 DEF DataInv, OwnData, k
    <3>2. pc'[p] = "commit" => pc[p] # "header"
      BY Zenon, <1>4
    <3> QED BY <1>4, <2>1, <3>1, <3>2, Zenon DEF k
  <2>2. CASE q # p
    <3>1. pc'[q] = pc[q] /\ pc[q] \in Claimed
      BY Zenon, <1>1, <1>2, <2>2
    <3>2. ppos[q] # k /\ ppos[q] \in Nat /\ ppos[q] < enqueue_pos
      BY Zenon, <1>1, <2>2, <3>1, ClaimFacts DEF VerdictInv, OwnClaim, k
    <3>3. ppos[q] \in Oldest .. enqueue_pos - 1
      BY <1>3, <3>2
    <3>4. Idx(ppos[q]) # Idx(k) /\ Idx(ppos[q]) \in SlotIndex
      BY Zenon, <1>6, <3>2, <3>3, IdxType
    <3> QED BY <1>4, <3>1, <3>4, Zenon DEF DataInv, OwnData
  <2> QED BY Zenon, <2>1, <2>2
<1>8. SlotData'
  <2> SUFFICES ASSUME NEW j \in Oldest .. enqueue_pos - 1, Published(j), ~Spoiled(j)
               PROVE  Whole(j)'
    BY <1>1, <1>3, <1>5, Zenon DEF SlotData
  <2>1. j # k /\ j \in Nat
    BY <1>2, <1>3
  <2>2. Idx(j) # Idx(k) /\ Idx(j) \in SlotIndex
    BY Zenon, <1>6, <2>1, IdxType
  <2>3. Whole(j)
    BY Zenon DEF DataInv, SlotData
  <2> QED BY <1>1, <1>4, <2>2, <2>3, Zenon DEF Whole, Idx
<1>9. RecData'
  <2> SUFFICES ASSUME cpc \in {"copy", "release", "advance"}, ~Spoiled(dequeue_pos) PROVE Filled'
    BY <1>1, <1>5, Zenon DEF RecData
  <2>1. Filled
    BY Zenon DEF DataInv, RecData
  <2>2. cpc = "copy" => slot_hdr'[Idx(dequeue_pos)] = slot_hdr[Idx(dequeue_pos)]
    <3> SUFFICES ASSUME cpc = "copy" PROVE Idx(dequeue_pos) # Idx(k)
      BY Zenon, <1>3, <1>4, IdxType
    <3>1. dequeue_pos \in Oldest .. enqueue_pos - 1 /\ Published(dequeue_pos)
      BY Zenon, Held DEF RingInv, HoldInv
    <3>2. dequeue_pos # k
      BY Zenon, <1>2, <3>1
    <3> QED BY Zenon, <1>6, <3>1, <3>2
  <2> QED BY <1>1, <2>1, <2>2, Zenon DEF Filled, Idx
<1>10. LogData'
  BY <1>1, <1>5, LogFrame, Zenon
<1> QED BY <1>7, <1>8, <1>9, <1>10, Zenon DEF DataInv

(* A commit that wins turns the data of the claim into the data of the     *)
(* slot.                                                                   *)
LEMMA CommitData ==
    ASSUME Capacity > 1, RingInv, VerdictInv, DataInv, NEW p \in Producers, Commit(p),
           SeqOf(p) = ppos[p]
    PROVE  DataInv'
<1> DEFINE k == ppos[p]
<1>1. /\ pc[p] = "commit" /\ pc' = [pc EXCEPT ![p] = "notify"] /\ slot_seq[Idx(k)] = k
      /\ slot_seq' = [slot_seq EXCEPT ![Idx(k)] = k + 1]
      /\ published' = published \cup {Msg(p, k)}
      /\ UNCHANGED <<enqueue_pos, dequeue_pos, slot_hdr, slot_payload, ppos, cpc, op, rec, log>>
  BY Zenon DEF Commit, Step, SeqOf, cons, scan, data
<1>c. pc[p] \in Claimed
  BY Zenon, <1>1 DEF Claimed
<1>2. k \in Nat /\ k < enqueue_pos /\ DOMAIN pc = Producers
  BY Zenon, <1>c, ClaimFacts, RingTypes
<1>3. Oldest <= k /\ Oldest' = Oldest /\ Oldest \in Nat /\ enqueue_pos \in Nat /\ dequeue_pos \in Nat
  BY <1>1, <1>2, CommitSlot, RingTypes, Zenon
<1>m. Msg(p, k).sequence = k
  BY Zenon DEF Msg
<1> HIDE DEF k
<1>4. \A j : Published(j)' <=> Published(j) \/ j = k
  BY Zenon, <1>1, <1>m DEF Published
<1>5. ASSUME NEW j \in Nat, Spoiled(j) PROVE Spoiled(j)'
  <2>1. \A i \in Nat : i < Oldest => (Published(i)' => Published(i))
    BY <1>2, <1>3, <1>4
  <2> QED BY <1>3, <1>5, <2>1, SpoiledKept
<1>6. OwnData'
  <2> SUFFICES ASSUME NEW q \in Producers, pc'[q] \in Claimed, ~(ppos[q] < Oldest), ~Spoiled(ppos[q])'
               PROVE  /\ pc'[q] # "header" => slot_hdr[Idx(ppos[q])] = Msg(q, ppos[q])
                      /\ pc'[q] = "commit" => slot_payload[Idx(ppos[q])] = Msg(q, ppos[q])
    BY <1>1, <1>3, Zenon DEF OwnData
  <2>1. pc'[q] = pc[q]
    BY Zenon, <1>1, <1>2 DEF Claimed
  <2>2. ppos[q] \in Nat
    BY Zenon, RingTypes
  <2> QED BY <1>1, <1>5, <2>1, <2>2, Zenon DEF DataInv, OwnData
<1>7. SlotData'
  <2> SUFFICES ASSUME NEW j \in Oldest .. enqueue_pos - 1, Published(j)', ~Spoiled(j)'
               PROVE  Whole(j)'
    BY <1>1, <1>3, Zenon DEF SlotData
  <2>0. j \in Nat /\ ~Spoiled(j)
    BY <1>3, <1>5
  <2>1. CASE j = k
    <3>1. slot_hdr[Idx(k)] = Msg(p, k) /\ slot_payload[Idx(k)] = Msg(p, k)
      <4>1. ~(k < Oldest)
        BY <1>2, <1>3
      <4>2. pc[p] # "header"
        BY Zenon, <1>1
      <4> QED BY <1>1, <1>c, <2>0, <2>1, <4>1, <4>2, Zenon DEF DataInv, OwnData, k
    <3> QED BY <1>1, <1>m, <2>1, <3>1, Zenon DEF Whole, Idx
  <2>2. CASE j # k
    <3>1. Whole(j)
      BY <1>4, <2>0, <2>2, Zenon DEF DataInv, SlotData
    <3> QED BY <1>1, <3>1, Zenon DEF Whole, Idx
  <2> QED BY Zenon, <2>1, <2>2
<1>8. RecData'
  <2> SUFFICES ASSUME cpc \in {"copy", "release", "advance"}, ~Spoiled(dequeue_pos)' PROVE Filled'
    BY <1>1, Zenon DEF RecData
  <2>1. Filled
    BY <1>1, <1>3, <1>5, Zenon DEF DataInv, RecData
  <2> QED BY <1>1, <2>1, Zenon DEF Filled, Idx
<1>9. LogData'
  BY <1>1, <1>5, LogFrame, Zenon
<1> QED BY <1>6, <1>7, <1>8, <1>9, Zenon DEF DataInv

(* The record is filled in from a slot the consumer still holds.           *)
LEMMA ReadData ==
    ASSUME RingInv, VerdictInv, DataInv, ReadHeader \/ CopyPayload
    PROVE  DataInv'
<1>1. /\ UNCHANGED <<enqueue_pos, dequeue_pos, slot_seq, slot_hdr, slot_payload, pc, ppos, published, log, op>>
      /\ cpc \in {"read", "copy"} /\ cpc' \in {"copy", "release"}
  BY Zenon DEF ReadHeader, CopyPayload, GoOn, ring, data, prod, hist
<1>2. Oldest' = Oldest /\ Oldest \in Nat /\ enqueue_pos \in Nat /\ dequeue_pos \in Nat
  BY Zenon, <1>1, RingTypes DEF Oldest, HeadSeq
<1>3. (\A k \in Nat : Spoiled(k) => Spoiled(k)') /\ OwnData' /\ SlotData'
  <2>1. Oldest <= Oldest' /\ enqueue_pos <= enqueue_pos'
    BY <1>1, <1>2
  <2> QED BY <1>1, <1>2, <2>1, DataFrame, Zenon
<1>4. LogData'
  BY <1>1, <1>3, LogFrame, Zenon
<1>5. RecData'
  <2> SUFFICES ASSUME ~Spoiled(dequeue_pos)' PROVE Filled'
    BY <1>1, Zenon DEF RecData
  <2>0. ~Spoiled(dequeue_pos)
    BY <1>1, <1>2, <1>3, Zenon
  <2>1. Whole(dequeue_pos)
    <3>1. dequeue_pos \in Oldest .. enqueue_pos - 1 /\ Published(dequeue_pos)
      BY Zenon, <1>1, Held DEF RingInv, HoldInv
    <3> QED BY <2>0, <3>1, Zenon DEF DataInv, SlotData
  <2>2. CASE ReadHeader
    <3>1. /\ rec'.hdr = slot_hdr[Idx(dequeue_pos)]
          /\ op = "copy" => cpc' = "copy"
      BY Zenon, <2>2 DEF ReadHeader, GoOn
    <3> QED BY <1>1, <2>1, <3>1, Zenon DEF Filled, Whole, Idx
  <2>3. CASE CopyPayload
    <3>1. rec \in [hdr : MaybeMessage, payload : MaybeMessage]
      BY Zenon DEF RingInv, TypeInv, TypeOK
    <3>2. /\ rec'.hdr = rec.hdr /\ rec'.payload = Copied(rec.hdr, slot_payload[Idx(dequeue_pos)])
          /\ cpc = "copy" /\ cpc' = "release" /\ cpc' # "copy"
      BY Zenon, <2>3, <3>1 DEF CopyPayload, GoOn
    <3>3. Filled
      BY <2>0, <3>2, Zenon DEF DataInv, RecData
    <3> QED BY <1>1, <2>1, <3>2, <3>3, Zenon DEF Filled, Whole, Idx
  <2> QED BY Zenon, <2>2, <2>3
<1> QED BY <1>3, <1>4, <1>5, Zenon DEF DataInv

(* The record that om_bus_mp_poll returns is the record it filled in.      *)
LEMMA AdvanceData ==
    ASSUME RingInv, VerdictInv, DataInv, Advance \/ SkipAdvance
    PROVE  DataInv'
<1> DEFINE d == dequeue_pos
<1>1. /\ UNCHANGED <<enqueue_pos, slot_seq, slot_hdr, slot_payload, pc, ppos, published>>
      /\ cpc' \in {"idle", "more"}
  BY Zenon DEF Advance, SkipAdvance, Deliver, Return, GoOn, data, prod
<1>2. Oldest' = Oldest /\ Oldest \in Nat /\ enqueue_pos \in Nat /\ dequeue_pos \in Nat
  BY Zenon, RingTypes, AdvanceOldest
<1>3. (\A k \in Nat : Spoiled(k) => Spoiled(k)') /\ OwnData' /\ SlotData'
  <2>1. Oldest <= Oldest' /\ enqueue_pos <= enqueue_pos'
    BY <1>1, <1>2
  <2> QED BY <1>1, <1>2, <2>1, DataFrame, Zenon
<1>4. RecData'
  BY Zenon, <1>1 DEF RecData
<1>5. PICK e : /\ log' = Append(log, e)
               /\ e.kind # "skipped" => /\ cpc = "advance" /\ e.hdr = rec.hdr
                                        /\ e.kind = op /\ e.payload = rec.payload
  <2>1. CASE Advance
    BY <2>1 DEF Advance, Deliver
  <2>2. CASE SkipAdvance
    BY <2>2 DEF SkipAdvance, Deliver
  <2> QED BY Zenon, <2>1, <2>2
<1>6. /\ DOMAIN log = 1 .. d /\ DOMAIN log' = 1 .. d + 1
      /\ \A i \in 1 .. d : log'[i] = log[i]
      /\ log'[d + 1] = e
  <2>1. log \in Seq([kind : {"poll", "copy", "batch", "skipped"},
                     hdr : MaybeMessage, payload : MaybeMessage])
    BY Zenon DEF RingInv, TypeInv, TypeOK
  <2>2. Len(log) = d
    BY Zenon, DataTypes
  <2> QED BY <1>2, <1>5, <2>1, <2>2
<1>7. LogData'
  <2> SUFFICES ASSUME NEW i \in DOMAIN log', log'[i].kind # "skipped"
               PROVE  Intact(i)' \/ Spoiled(i - 1)'
    BY Zenon DEF LogData
  <2>0. i - 1 \in Nat
    BY <1>2, <1>6
  <2>1. CASE i = d + 1
    <3>1. /\ cpc = "advance" /\ log'[i].hdr = rec.hdr
          /\ log'[i].kind = op /\ log'[i].payload = rec.payload
      BY Zenon, <1>5, <1>6, <2>1
    <3>2. i - 1 = d
      BY <1>2, <2>1
    <3>3. Spoiled(d) \/ Filled
      BY Zenon, <3>1 DEF DataInv, RecData
    <3>4. cpc # "copy"
      BY Zenon, <3>1
    <3>5. Filled => Intact(i)'
      BY <1>1, <3>1, <3>2, <3>4, Zenon DEF Filled, Intact
    <3> QED BY <1>2, <1>3, <3>2, <3>3, <3>5, Zenon
  <2>2. CASE i # d + 1
    <3>1. i \in DOMAIN log /\ log'[i] = log[i]
      BY <1>2, <1>6, <2>2
    <3>2. Intact(i) \/ Spoiled(i - 1)
      BY <3>1, Zenon DEF DataInv, LogData
    <3>3. Intact(i) => Intact(i)'
      BY <1>1, <3>1, Zenon DEF Intact
    <3> QED BY <1>3, <2>0, <3>2, <3>3, Zenon
  <2> QED BY Zenon, <2>1, <2>2
<1> QED BY <1>3, <1>4, <1>7, Zenon DEF DataInv

(* The consumer gives the slot away after it has filled in the record.     *)
LEMMA HandoverData ==
    ASSUME RingInv, VerdictInv, DataInv, Release \/ Skip
    PROVE  DataInv'
<1>1. /\ UNCHANGED <<enqueue_pos, dequeue_pos, slot_hdr, slot_payload, pc, ppos, published, rec, log>>
      /\ cpc' \in {"copy", "release", "advance"} => cpc = "release" /\ cpc' = "advance" /\ op' = op
  BY Zenon DEF Release, Skip, Return, GoOn, data, prod, scan, hist
<1>2. Oldest \in Nat /\ enqueue_pos \in Nat /\ dequeue_pos \in Nat /\ Capacity \in Nat /\ Capacity > 0
  BY Zenon, RingTypes
<1>3. Oldest' \in Nat /\ Oldest <= Oldest'
  <2>1. HeadSeq <= dequeue_pos + 1 /\ HeadSeq \in Nat
    BY RingTypes DEF Release, Skip, RingInv, HoldInv
  <2>2. Oldest = dequeue_pos
    BY <1>2, <2>1 DEF Oldest
  <2> QED BY <1>1, <1>2, <2>2 DEF Oldest
<1>4. (\A k \in Nat : Spoiled(k) => Spoiled(k)') /\ OwnData' /\ SlotData'
  <2>1. enqueue_pos <= enqueue_pos'
    BY <1>1, <1>2
  <2> QED BY <1>1, <1>2, <1>3, <2>1, DataFrame, Zenon
<1>5. RecData'
  <2> SUFFICES ASSUME cpc' \in {"copy", "release", "advance"}, ~Spoiled(dequeue_pos)' PROVE Filled'
    BY Zenon DEF RecData
  <2>1. cpc = "release" /\ cpc' = "advance" /\ op' = op /\ ~Spoiled(dequeue_pos)
    BY <1>1, <1>2, <1>4, Zenon
  <2>2. Filled
    BY <2>1, Zenon DEF DataInv, RecData
  <2>3. cpc # "copy" /\ cpc' # "copy"
    BY Zenon, <2>1
  <2> QED BY <1>1, <2>1, <2>2, <2>3, Zenon DEF Filled
<1>6. LogData'
  BY <1>1, <1>4, LogFrame, Zenon
<1> QED BY <1>4, <1>5, <1>6, Zenon DEF DataInv

(* The steps that touch neither the data nor the record.                   *)
LEMMA IdleData ==
    ASSUME RingInv, VerdictInv, DataInv, Oldest' = Oldest,
           UNCHANGED <<slot_hdr, slot_payload, published, dequeue_pos, log>>,
           enqueue_pos' \in Nat, enqueue_pos <= enqueue_pos',
           \A p \in Producers : pc'[p] \in Claimed =>
               pc'[p] = "header" \/ (pc'[p] = pc[p] /\ ppos'[p] = ppos[p]),
           cpc' \notin {"copy", "release", "advance"} \/ UNCHANGED <<cpc, op, rec>>
    PROVE  DataInv'
<1>1. Oldest \in Nat /\ dequeue_pos \in Nat /\ Oldest <= Oldest' /\ Oldest' \in Nat
  BY RingTypes
<1>2. (\A k \in Nat : Spoiled(k) => Spoiled(k)') /\ OwnData' /\ SlotData'
  BY <1>1, DataFrame, Zenon
<1>3. LogData'
  BY <1>2, LogFrame, Zenon
<1>4. RecData'
  <2> SUFFICES ASSUME UNCHANGED <<cpc, op, rec>>, cpc \in {"copy", "release", "advance"},
                      ~Spoiled(dequeue_pos)'
               PROVE  Filled'
    BY Zenon DEF RecData
  <2>1. Filled
    BY <1>1, <1>2, Zenon DEF DataInv, RecData
  <2> QED BY <2>1, Zenon DEF Filled, Idx
<1> QED BY <1>2, <1>3, <1>4, Zenon DEF DataInv

(* The empty ring holds no data.                                           *)
LEMMA InitData == Init => DataInv
<1> SUFFICES ASSUME Init PROVE DataInv
  OBVIOUS
<1>1. OwnData /\ RecData /\ LogData
  BY DEF Init, OwnData, RecData, LogData, Claimed
<1>2. \A k : ~Published(k)
  BY Zenon DEF Init, Published
<1> QED BY <1>1, <1>2, Zenon DEF DataInv, SlotData

(* Every step of a producer keeps the data of the claims.                  *)
LEMMA ProducerData ==
    ASSUME Capacity > 1, RingInv, VerdictInv, DataInv, NEW p \in Producers, Producer(p)
    PROVE  DataInv'
<1> USE DEF data, ring, prod, scan, futex, cons, hist
<1>t. DOMAIN pc = Producers /\ enqueue_pos \in Nat /\ ppos \in [Producers -> Nat]
  BY Zenon, RingTypes
<1>1. ASSUME UNCHANGED <<slot_hdr, slot_payload, published, dequeue_pos, slot_seq, log, op, rec>>,
             enqueue_pos' \in Nat, enqueue_pos <= enqueue_pos',
             cpc' = cpc \/ (cpc = "asleep" /\ cpc' = "leave"),
             NEW l, pc' = [pc EXCEPT ![p] = l], l \in Claimed => l = "header",
             \A q \in Producers : q # p => ppos'[q] = ppos[q]
      PROVE  DataInv'
  <2>1. Oldest' = Oldest
    BY Zenon, <1>1 DEF Oldest, HeadSeq
  <2>2. \A q \in Producers : pc'[q] \in Claimed =>
               pc'[q] = "header" \/ (pc'[q] = pc[q] /\ ppos'[q] = ppos[q])
    BY <1>1, <1>t, Zenon
  <2>3. cpc' \notin {"copy", "release", "advance"} \/ UNCHANGED <<cpc, op, rec>>
    BY Zenon, <1>1
  <2> QED BY <1>1, <2>1, <2>2, <2>3, IdleData, Zenon
<1>2. CASE LoadPos(p)
  <2>1. \A q \in Producers : q # p => ppos'[q] = ppos[q]
    BY Zenon, <1>2, <1>t DEF LoadPos
  <2>2. enqueue_pos' \in Nat /\ enqueue_pos <= enqueue_pos' /\ "seq" \notin Claimed
    BY <1>2, <1>t DEF LoadPos, Claimed
  <2> QED BY <1>1, <1>2, <2>1, <2>2, Zenon DEF LoadPos, Step
<1>3. CASE LoadSeq(p) \/ FullReject(p) \/ Notify(p) \/ Abandon(p)
  <2>1. /\ UNCHANGED <<slot_hdr, slot_payload, published, dequeue_pos, slot_seq, log, op, rec, ppos, enqueue_pos>>
        /\ cpc' = cpc \/ (cpc = "asleep" /\ cpc' = "leave")
    BY <1>3, Zenon DEF LoadSeq, FullReject, Notify, NotifyLoad, NotifyBump, NotifyWake, Abandon
  <2>2. PICK l \in {"cas", "retry", "idle", "bump", "wake"} : pc' = [pc EXCEPT ![p] = l]
    BY <1>3, Zenon DEF LoadSeq, FullReject, Notify, NotifyLoad, NotifyBump, NotifyWake, Abandon, Step
  <2>3. enqueue_pos' \in Nat /\ enqueue_pos <= enqueue_pos' /\ l \notin Claimed
    BY <1>t, <2>1 DEF Claimed
  <2> QED BY <1>1, <2>1, <2>2, <2>3, Zenon
<1>4. CASE ClaimCas(p)
  <2>1. /\ UNCHANGED <<slot_hdr, slot_payload, published, dequeue_pos, slot_seq, log, op, rec, ppos, cpc>>
        /\ enqueue_pos' = enqueue_pos \/ enqueue_pos' = enqueue_pos + 1
    BY Zenon, <1>4 DEF ClaimCas
  <2>2. PICK l \in {"header", "retry"} : pc' = [pc EXCEPT ![p] = l]
    BY Zenon, <1>4 DEF ClaimCas, Step
  <2>3. enqueue_pos' \in Nat /\ enqueue_pos <= enqueue_pos' /\ (l \in Claimed => l = "header")
    BY <1>t, <2>1, <2>2 DEF Claimed
  <2> QED BY <1>1, <2>1, <2>2, <2>3, Zenon
<1>5. CASE Commit(p) /\ SeqOf(p) # ppos[p]
  <2>1. /\ UNCHANGED <<slot_hdr, slot_payload, published, dequeue_pos, slot_seq, log, op, rec, ppos, cpc, enqueue_pos>>
        /\ pc' = [pc EXCEPT ![p] = "idle"]
    BY <1>5, Zenon DEF Commit, Step
  <2>2. enqueue_pos' \in Nat /\ enqueue_pos <= enqueue_pos' /\ "idle" \notin Claimed
    BY <1>t, <2>1 DEF Claimed
  <2> QED BY <1>1, <2>1, <2>2, Zenon
<1> QED BY <1>2, <1>3, <1>4, <1>5, WriteData, CommitData, Zenon DEF Producer

(* Every step keeps the data of the records.                               *)
LEMMA NextData ==
    ASSUME Capacity > 1, RingInv, VerdictInv, DataInv, [Next]_vars
    PROVE  DataInv'
<1> USE DEF data, ring, prod, scan, futex, cons, hist
<1>1. ASSUME UNCHANGED <<ring, prod, published, log>>,
             cpc' \notin {"copy", "release", "advance"} \/ UNCHANGED <<cpc, op, rec>>
      PROVE  DataInv'
  <2>1. Oldest' = Oldest
    BY Zenon, <1>1 DEF Oldest, HeadSeq
  <2>2. enqueue_pos' \in Nat /\ enqueue_pos <= enqueue_pos'
    BY <1>1, RingTypes
  <2> QED BY <1>1, <2>1, <2>2, IdleData, Zenon
<1>2. CASE UNCHANGED vars
  BY <1>1, <1>2, Zenon DEF vars
<1>3. ASSUME NEW o \in Calls, Poll(o) PROVE DataInv'
  BY Zenon, <1>1, <1>3 DEF Poll, Return
<1>4. CASE Probe
  BY Zenon, <1>1, <1>4 DEF Probe, Return, GoOn
<1>5. CASE WaitBegin \/ WaitStep \/ FutexTimeout \/ FutexInterrupted
  <2>1. UNCHANGED <<ring, prod, published, log>>
    BY <1>5, ZenonT(30) DEF WaitBegin, WaitStep, WaitExpect, WaitEnter, WaitRecheck, FutexWait,
                   WaitLeave, FutexTimeout, FutexInterrupted
  <2>2. cpc' \notin {"copy", "release", "advance"}
    BY Zenon, <1>5 DEF WaitBegin, WaitStep, WaitExpect, WaitEnter, WaitRecheck, FutexWait,
                WaitLeave, FutexTimeout, FutexInterrupted, Return, GoOn
  <2> QED BY <1>1, <2>1, <2>2, Zenon
<1>6. CASE Tick
  BY <1>1, <1>6, Zenon DEF Tick
<1>7. CASE ConsumerRestart
  BY Zenon, <1>1, <1>7 DEF ConsumerRestart, Return
<1> QED
  BY <1>2, <1>3, <1>4, <1>5, <1>6, <1>7, ProducerData, ReadData, HandoverData, AdvanceData, Zenon
     DEF Next, Running, Consumer, PollStep

(* The data of the records is kept in every behaviour.                     *)
LEMMA DataSafe == ASSUME Capacity > 1 PROVE Spec => [](VerdictInv /\ RingInv /\ DataInv)
<1>1. VerdictInv /\ RingInv /\ DataInv /\ [Next]_vars => (VerdictInv /\ RingInv /\ DataInv)'
  BY Zenon, NextRing, NextVerdict, NextData
<1>2. Init => VerdictInv /\ RingInv /\ DataInv
  BY Zenon, InitRing, InitVerdict, InitData
<1> QED BY <1>1, <1>2, PTL DEF Spec

(* A record that om_bus_mp_poll, _poll_copy or _poll_batch hands out is    *)
(* the committed one, header and payload if it fits, unless its slot       *)
(* was taken from a producer slower than skip_timeout_ns on an earlier lap. *)
THEOREM IntactKept == ASSUME Capacity > 1 PROVE Spec => []IntactUnlessSkipped
<1>1. ASSUME RingInv, VerdictInv, DataInv PROVE IntactUnlessSkipped
  <2> SUFFICES ASSUME NEW i \in DOMAIN log, log[i].kind # "skipped", Spoiled(i - 1)
               PROVE  \E j \in 1 .. i - 1 : log[j].kind = "skipped" /\ Idx(j - 1) = Idx(i - 1)
    BY <1>1, Zenon DEF DataInv, LogData, IntactUnlessSkipped
  <2>1. DOMAIN log = 1 .. dequeue_pos /\ dequeue_pos \in Nat
    BY Zenon, <1>1, DataTypes
  <2>2. PICK j \in 0 .. (i - 1) - 1 : Idx(j) = Idx(i - 1) /\ ~Published(j)
    BY Zenon DEF Spoiled
  <2>3. j + 1 \in DOMAIN log /\ j + 1 \in 1 .. i - 1 /\ (j + 1) - 1 = j
    BY <2>1, <2>2
  <2>4. log[j + 1].kind = "skipped"
    BY Zenon, <1>1, <2>2, <2>3 DEF VerdictInv, LogVerdict
  <2> QED BY <2>2, <2>3, <2>4, Zenon
<1> QED BY <1>1, DataSafe, PTL
=============================================================================
