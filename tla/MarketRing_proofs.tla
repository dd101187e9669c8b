-------------------------- MODULE MarketRing_proofs --------------------------
(***************************************************************************)
(* What the market ring keeps for every number of consumers, every         *)
(* capacity, every batch size and every number of records: the cached      *)
(* minimum is never ahead of a consumer, every consumer reads every record *)
(* once and in order, the ring implements BroadcastLog, and, with a        *)
(* broadcast after every record, nobody sleeps through one.                *)
(***************************************************************************)
EXTENDS MarketRing, TLAPS

Labels == {"new", "idle", "space", "scan", "slot", "ptr", "seq", "head", "lock", "broadcast",
           "check", "read", "tail", "refresh", "test", "sleep"}

Types ==
    /\ capacity \in Nat \ {0}
    /\ slot_seq \in [0 .. capacity - 1 -> Nat]
    /\ slot_ptr \in [0 .. capacity - 1 -> Nat]
    /\ head \in Nat /\ min_tail \in Nat
    /\ tails \in [Readers -> Nat]
    /\ pc \in [Threads -> Labels]
    /\ scan \in [Threads -> [next : Nat, min : Nat \cup {-1}]]
    /\ ctail \in [Readers -> Nat] /\ count \in [Readers -> Nat]
    /\ got \in [Readers -> Seq(Nat)]

(* Where a consumer's tail stands against its local copy.                  *)
InBatch(c) == pc[c] \in {"check", "read", "tail"}
TailInv ==
    \A c \in Readers :
        /\ InBatch(c) => ctail[c] = tails[c] + count[c]
        /\ ~InBatch(c) => ctail[c] = tails[c]
        /\ pc[c] = "new" => tails[c] = 0

(* A scan in progress is at most every tail it has passed.                 *)
ScanInv ==
    \A t \in Threads : pc[t] = "scan" =>
        /\ scan[t].next <= Consumers
        /\ scan[t].next > 0 => scan[t].min # -1
        /\ \A c \in Readers : c < scan[t].next => scan[t].min <= tails[c]

(* The producer is inside the ring while it writes, and the slot it writes *)
(* is still marked for its position.                                       *)
Writing == pc[Producer] \in {"slot", "ptr", "seq", "head"}
WriteInv ==
    /\ Writing => \A c \in Readers : head < tails[c] + capacity
    /\ pc[Producer] \in {"ptr", "seq"} => slot_seq[Index(head)] = head
    /\ pc[Producer] = "seq" => slot_ptr[Index(head)] = head + 1

(* A slot marked as written for a position holds its record, but for the   *)
(* one slot of a ring of one that is being written again.                  *)
SlotInv ==
    \A q \in Nat : slot_seq[Index(q)] = q + 1 =>
        slot_ptr[Index(q)] = q + 1 \/ (pc[Producer] = "seq" /\ head = q + 1 /\ Index(head) = Index(q))

(* A consumer about to read finds the record of its position.              *)
ReadInv ==
    \A c \in Readers : pc[c] = "read" =>
        slot_seq[Index(ctail[c])] = ctail[c] + 1 /\ slot_ptr[Index(ctail[c])] = ctail[c] + 1

GotInv == \A c \in Readers : Len(got[c]) = ctail[c]

(* The mutex is held where the code holds it.                              *)
MutexInv ==
    /\ sleeping \subseteq Readers /\ \A c \in sleeping : pc[c] = "lock"
    /\ pc[Producer] = "broadcast" => mutex = Producer
    /\ \A c \in Readers : pc[c] \in {"test", "sleep"} => mutex = c

(* A consumer about to sleep with enough to read has the broadcast still   *)
(* before it.                                                              *)
Enough(c) == head - tails[c] >= MinBatch
SleepInv ==
    \A c \in Readers : pc[c] = "sleep" /\ Enough(c) => pc[Producer] = "lock"

MinInv  == Types /\ TailInv /\ ScanInv /\ MinTailConservative
RingInv == WriteInv /\ SlotInv /\ ReadInv /\ GotInv /\ InOrder

-----------------------------------------------------------------------------
(* What one step does to one consumer, and to the slots and the producer.  *)
Kept(c) ==
    tails'[c] = tails[c] /\ ctail'[c] = ctail[c] /\ count'[c] = count[c] /\ got'[c] = got[c]
ReaderStep(c) ==
    \/ Kept(c) /\ pc'[c] = pc[c]
    \/ /\ pc[c] = "new" /\ pc'[c] = "idle" /\ tails'[c] = 0
       /\ ctail'[c] = ctail[c] /\ got'[c] = got[c]
    \/ /\ pc[c] = "idle" /\ pc'[c] = "check" /\ ctail'[c] = tails[c] /\ count'[c] = 0
       /\ tails'[c] = tails[c] /\ got'[c] = got[c]
    \/ /\ pc[c] = "check" /\ pc'[c] = "read" /\ Kept(c)
       /\ slot_seq[Index(ctail[c])] = ctail[c] + 1 /\ UNCHANGED ring /\ pc'[Producer] = pc[Producer]
    \/ pc[c] = "check" /\ pc'[c] = "tail" /\ Kept(c)
    \/ pc[c] = "check" /\ pc'[c] = "idle" /\ Kept(c) /\ ~(count[c] > 0)
    \/ /\ pc[c] = "read" /\ pc'[c] = "check" /\ tails'[c] = tails[c]
       /\ ctail'[c] = ctail[c] + 1 /\ count'[c] = count[c] + 1
       /\ got'[c] = Append(got[c], slot_ptr[Index(ctail[c])])
    \/ /\ pc[c] = "tail" /\ pc'[c] = "refresh" /\ tails'[c] = ctail[c]
       /\ ctail'[c] = ctail[c] /\ got'[c] = got[c]
    \/ /\ pc[c] \notin {"new", "check", "read", "tail"}
       /\ pc'[c] \notin {"new", "check", "read", "tail"} /\ Kept(c)
RingStep ==
    \/ UNCHANGED ring /\ pc'[Producer] = pc[Producer]
    \/ /\ UNCHANGED ring /\ pc[Producer] \notin {"slot", "ptr", "seq", "head"}
       /\ pc'[Producer] \notin {"slot", "ptr", "seq", "head"}
    \/ UNCHANGED ring /\ pc[Producer] = "space" /\ pc'[Producer] = "slot" /\ head - min_tail < capacity
    \/ /\ UNCHANGED ring /\ pc[Producer] = "slot" /\ pc'[Producer] = "ptr"
       /\ slot_seq[Index(head)] = head
    \/ /\ pc[Producer] = "ptr" /\ pc'[Producer] = "seq" /\ UNCHANGED <<slot_seq, head>>
       /\ slot_ptr' = [slot_ptr EXCEPT ![Index(head)] = head + 1]
    \/ /\ pc[Producer] = "seq" /\ pc'[Producer] = "head" /\ UNCHANGED <<slot_ptr, head>>
       /\ slot_seq' = [slot_seq EXCEPT ![Index(head)] = head + 1]
    \/ /\ pc[Producer] = "head" /\ pc'[Producer] \in {"lock", "idle"} /\ head' = head + 1
       /\ UNCHANGED <<slot_seq, slot_ptr>>

(* What one step does to a thread's scan, and where min_tail comes from.   *)
ScanStep(t) ==
    \/ pc'[t] # "scan"
    \/ pc[t] = "scan" /\ scan'[t] = scan[t]
    \/ scan'[t] = StartScan
    \/ LET i == scan[t].next
           m == IF scan[t].min = -1 \/ tails[i] < scan[t].min THEN tails[i] ELSE scan[t].min
       IN  /\ pc[t] = "scan" /\ i < Consumers /\ UNCHANGED tails
           /\ scan'[t] = [next |-> i + 1, min |-> m]
MinStep ==
    \/ min_tail' = min_tail
    \/ \E t \in Threads :
          pc[t] = "scan" /\ scan[t].next = Consumers /\ min_tail' = scan[t].min /\ UNCHANGED tails

-----------------------------------------------------------------------------
(* The consumers are numbered from 0 and the producer is none of them.     *)
LEMMA ThreadFacts ==
    /\ Threads = Readers \cup {Producer} /\ Producer \notin Readers
    /\ \A c \in Readers : c \in Nat /\ c < Consumers
    /\ \A i \in Nat : i < Consumers => i \in Readers
  BY MarketRingAssumption DEF Threads, Readers, Producer

(* A free wait_mutex is held by no thread.                                 *)
LEMMA NoneFact == None \notin Threads
  BY MarketRingAssumption DEF Threads, Readers, Producer, None

(* om_market_ring_init establishes the invariant of the tails.             *)
LEMMA InitMin == Init => MinInv
<1> SUFFICES ASSUME Init PROVE MinInv
  OBVIOUS
<1>1. Types
  BY MarketRingAssumption DEF Init, Types, Labels, Readers, Producer, Threads
<1>2. TailInv /\ MinTailConservative
  BY ThreadFacts DEF Init, TailInv, InBatch, MinTailConservative
<1>3. ScanInv
  BY Zenon, ThreadFacts DEF Init, ScanInv
<1> QED BY Zenon, <1>1, <1>2, <1>3 DEF MinInv

(* Every step is one of the nine cases of ReaderStep to each consumer.     *)
LEMMA EveryReaderStep == Types /\ [Next]_vars => \A r \in Readers : ReaderStep(r)
<1> SUFFICES ASSUME Types, [Next]_vars, NEW r \in Readers PROVE ReaderStep(r)
  OBVIOUS
<1> USE ThreadFacts
<1>1. CASE Enqueue
  BY Zenon, <1>1 DEF Enqueue, Types, ReaderStep, Kept, ring, local, wait, Goto
<1>2. CASE SpaceFound
  BY Zenon, <1>2 DEF SpaceFound, Types, ReaderStep, Kept, ring, local, wait, Goto
<1>3. CASE Rescan
  BY Zenon, <1>3 DEF Rescan, Types, ReaderStep, Kept, ring, local, wait, Goto
<1>4. CASE SlotReady
  BY Zenon, <1>4 DEF SlotReady, Types, ReaderStep, Kept, ring, local, wait, Goto
<1>5. CASE WritePtr
  BY Zenon, <1>5 DEF WritePtr, Types, ReaderStep, Kept, ring, local, wait, Goto
<1>6. CASE WriteSeq
  BY Zenon, <1>6 DEF WriteSeq, Types, ReaderStep, Kept, ring, local, wait, Goto
<1>7. CASE WriteHead
  BY Zenon, <1>7 DEF WriteHead, Types, ReaderStep, Kept, ring, local, wait, Goto
<1>8. CASE NotifyLock
  BY Zenon, <1>8 DEF NotifyLock, Types, ReaderStep, Kept, ring, local, wait, Goto
<1>9. CASE Broadcast
  BY Zenon, <1>9 DEF Broadcast, Types, ReaderStep, Kept, ring, local, wait, Goto
<1>10. ASSUME NEW t \in Threads, ScanTail(t) PROVE ReaderStep(r)
  BY Zenon, <1>10 DEF ScanTail, Types, ReaderStep, Kept, ring, local, wait, Goto
<1>11. ASSUME NEW t \in Threads, StoreMin(t) PROVE ReaderStep(r)
  BY Zenon, <1>11 DEF StoreMin, Types, ReaderStep, Kept, ring, local, wait, Goto
<1>12. ASSUME NEW c \in Readers, Register(c) PROVE ReaderStep(r)
  BY Zenon, <1>12 DEF Register, Types, ReaderStep, Kept, ring, local, wait, Goto
<1>13. ASSUME NEW c \in Readers, Dequeue(c) PROVE ReaderStep(r)
  BY Zenon, <1>13 DEF Dequeue, Types, ReaderStep, Kept, ring, local, wait, Goto
<1>14. ASSUME NEW c \in Readers, Check(c) PROVE ReaderStep(r)
  BY <1>14 DEF Check, Types, ReaderStep, Kept, ring, local, wait, Goto
<1>15. ASSUME NEW c \in Readers, ReadPtr(c) PROVE ReaderStep(r)
  BY Zenon, <1>15 DEF ReadPtr, Types, ReaderStep, Kept, ring, local, wait, Goto
<1>16. ASSUME NEW c \in Readers, StoreTail(c) PROVE ReaderStep(r)
  BY Zenon, <1>16 DEF StoreTail, Types, ReaderStep, Kept, ring, local, wait, Goto
<1>17. ASSUME NEW c \in Readers, Refresh(c) PROVE ReaderStep(r)
  BY Zenon, <1>17 DEF Refresh, Types, ReaderStep, Kept, ring, local, wait, Goto
<1>18. ASSUME NEW c \in Readers, Wait(c) PROVE ReaderStep(r)
  BY Zenon, <1>18 DEF Wait, Types, ReaderStep, Kept, ring, local, wait, Goto
<1>19. ASSUME NEW c \in Readers, WaitLock(c) PROVE ReaderStep(r)
  BY Zenon, <1>19 DEF WaitLock, Types, ReaderStep, Kept, ring, local, wait, Goto
<1>20. ASSUME NEW c \in Readers, WaitTest(c) PROVE ReaderStep(r)
  BY Zenon, <1>20 DEF WaitTest, Types, ReaderStep, Kept, ring, local, wait, Goto
<1>21. ASSUME NEW c \in Readers, WaitSleep(c) PROVE ReaderStep(r)
  BY Zenon, <1>21 DEF WaitSleep, Types, ReaderStep, Kept, ring, local, wait, Goto
<1>22. ASSUME NEW c \in Readers, SpuriousWakeup(c) PROVE ReaderStep(r)
  BY Zenon, <1>22 DEF SpuriousWakeup, Types, ReaderStep, Kept, ring, local, wait, Goto
<1>23. CASE UNCHANGED vars
  BY Zenon, <1>23 DEF vars, Types, ReaderStep, Kept, ring, local, wait, Goto
<1> QED
  BY Zenon, <1>1, <1>2, <1>3, <1>4, <1>5, <1>6, <1>7, <1>8, <1>9, <1>10, <1>11, <1>12, <1>13, <1>14,
     <1>15, <1>16, <1>17, <1>18, <1>19, <1>20, <1>21, <1>22, <1>23, ThreadFacts
     DEF Next, ProducerStep, ConsumerStep

(* Only the producer writes slots and head, in the order ptr, seq, head.   *)
LEMMA EveryRingStep == Types /\ [Next]_vars => RingStep
<1> SUFFICES ASSUME Types, [Next]_vars PROVE RingStep
  OBVIOUS
<1> USE ThreadFacts
<1>1. CASE Enqueue
  BY Zenon, <1>1 DEF Enqueue, Types, RingStep, ring, local, wait, Goto
<1>2. CASE SpaceFound
  BY Zenon, <1>2 DEF SpaceFound, Types, RingStep, ring, local, wait, Goto
<1>3. CASE Rescan
  BY Zenon, <1>3 DEF Rescan, Types, RingStep, ring, local, wait, Goto
<1>4. CASE SlotReady
  BY Zenon, <1>4 DEF SlotReady, Types, RingStep, ring, local, wait, Goto
<1>5. CASE WritePtr
  BY Zenon, <1>5 DEF WritePtr, Types, RingStep, ring, local, wait, Goto
<1>6. CASE WriteSeq
  BY Zenon, <1>6 DEF WriteSeq, Types, RingStep, ring, local, wait, Goto
<1>7. CASE WriteHead
  BY Zenon, <1>7 DEF WriteHead, Types, RingStep, ring, local, wait, Goto
<1>8. CASE NotifyLock
  BY Zenon, <1>8 DEF NotifyLock, Types, RingStep, ring, local, wait, Goto
<1>9. CASE Broadcast
  BY Zenon, <1>9 DEF Broadcast, Types, RingStep, ring, local, wait, Goto
<1>10. ASSUME NEW t \in Threads, ScanTail(t) PROVE RingStep
  BY Zenon, <1>10 DEF ScanTail, Types, RingStep, ring, local, wait, Goto
<1>11. ASSUME NEW t \in Threads, StoreMin(t) PROVE RingStep
  BY Zenon, <1>11 DEF StoreMin, Types, RingStep, ring, local, wait, Goto
<1>12. ASSUME NEW c \in Readers, Register(c) PROVE RingStep
  BY Zenon, <1>12 DEF Register, Types, RingStep, ring, local, wait, Goto
<1>13. ASSUME NEW c \in Readers, Dequeue(c) PROVE RingStep
  BY Zenon, <1>13 DEF Dequeue, Types, RingStep, ring, local, wait, Goto
<1>14. ASSUME NEW c \in Readers, Check(c) PROVE RingStep
  BY Zenon, <1>14 DEF Check, Types, RingStep, ring, local, wait, Goto
<1>15. ASSUME NEW c \in Readers, ReadPtr(c) PROVE RingStep
  BY Zenon, <1>15 DEF ReadPtr, Types, RingStep, ring, local, wait, Goto
<1>16. ASSUME NEW c \in Readers, StoreTail(c) PROVE RingStep
  BY Zenon, <1>16 DEF StoreTail, Types, RingStep, ring, local, wait, Goto
<1>17. ASSUME NEW c \in Readers, Refresh(c) PROVE RingStep
  BY Zenon, <1>17 DEF Refresh, Types, RingStep, ring, local, wait, Goto
<1>18. ASSUME NEW c \in Readers, Wait(c) PROVE RingStep
  BY Zenon, <1>18 DEF Wait, Types, RingStep, ring, local, wait, Goto
<1>19. ASSUME NEW c \in Readers, WaitLock(c) PROVE RingStep
  BY Zenon, <1>19 DEF WaitLock, Types, RingStep, ring, local, wait, Goto
<1>20. ASSUME NEW c \in Readers, WaitTest(c) PROVE RingStep
  BY Zenon, <1>20 DEF WaitTest, Types, RingStep, ring, local, wait, Goto
<1>21. ASSUME NEW c \in Readers, WaitSleep(c) PROVE RingStep
  BY Zenon, <1>21 DEF WaitSleep, Types, RingStep, ring, local, wait, Goto
<1>22. ASSUME NEW c \in Readers, SpuriousWakeup(c) PROVE RingStep
  BY Zenon, <1>22 DEF SpuriousWakeup, Types, RingStep, ring, local, wait, Goto
<1>23. CASE UNCHANGED vars
  BY Zenon, <1>23 DEF vars, Types, RingStep, ring, local, wait, Goto
<1> QED
  BY Zenon, <1>1, <1>2, <1>3, <1>4, <1>5, <1>6, <1>7, <1>8, <1>9, <1>10, <1>11, <1>12, <1>13, <1>14,
     <1>15, <1>16, <1>17, <1>18, <1>19, <1>20, <1>21, <1>22, <1>23, ThreadFacts
     DEF Next, ProducerStep, ConsumerStep

(* Types of the slots and of head.                                         *)
LEMMA NextRingTypes ==
    Types /\ [Next]_vars =>
        /\ capacity' \in Nat \ {0} /\ head' \in Nat
        /\ slot_seq' \in [0 .. capacity' - 1 -> Nat] /\ slot_ptr' \in [0 .. capacity' - 1 -> Nat]
<1> SUFFICES ASSUME Types, [Next]_vars
             PROVE  /\ capacity' \in Nat \ {0} /\ head' \in Nat
                    /\ slot_seq' \in [0 .. capacity' - 1 -> Nat]
                    /\ slot_ptr' \in [0 .. capacity' - 1 -> Nat]
  OBVIOUS
<1>1. capacity' = capacity
  BY Zenon DEF Next, vars
<1>2. head + 1 \in Nat
  BY DEF Types
<1> QED BY Zenon, <1>1, <1>2, EveryRingStep DEF RingStep, Types, ring

(* A thread only ever moves to one of the labels.                          *)
LEMMA GotoType ==
    ASSUME pc \in [Threads -> Labels], NEW t \in Threads, NEW l \in Labels, Goto(t, l)
    PROVE  pc' \in [Threads -> Labels]
BY Zenon DEF Goto

(* Types of the program counters.                                          *)
LEMMA NextPcType == MinInv /\ [Next]_vars => pc' \in [Threads -> Labels]
<1> SUFFICES ASSUME MinInv, [Next]_vars PROVE pc' \in [Threads -> Labels]
  OBVIOUS
<1>0. pc \in [Threads -> Labels] /\ Readers \subseteq Threads /\ Producer \in Threads
  BY Zenon, ThreadFacts DEF MinInv, Types
<1>l. \A l \in {"idle", "space", "scan", "slot", "ptr", "seq", "head", "lock", "broadcast",
               "check", "read", "tail", "refresh", "test", "sleep"} : l \in Labels
  BY Zenon DEF Labels
<1>1. CASE Enqueue
  <2>1. Goto(Producer, "space")
    BY Zenon, <1>1 DEF Enqueue
  <2> QED BY Zenon, <2>1, <1>0, <1>l, GotoType
<1>2. CASE SpaceFound
  <2>1. Goto(Producer, "slot")
    BY Zenon, <1>2 DEF SpaceFound
  <2> QED BY Zenon, <2>1, <1>0, <1>l, GotoType
<1>3. CASE Rescan
  <2>1. Goto(Producer, "scan")
    BY Zenon, <1>3 DEF Rescan
  <2> QED BY Zenon, <2>1, <1>0, <1>l, GotoType
<1>4. CASE SlotReady
  <2>1. Goto(Producer, "ptr")
    BY Zenon, <1>4 DEF SlotReady
  <2> QED BY Zenon, <2>1, <1>0, <1>l, GotoType
<1>5. CASE WritePtr
  <2>1. Goto(Producer, "seq")
    BY Zenon, <1>5 DEF WritePtr
  <2> QED BY Zenon, <2>1, <1>0, <1>l, GotoType
<1>6. CASE WriteSeq
  <2>1. Goto(Producer, "head")
    BY Zenon, <1>6 DEF WriteSeq
  <2> QED BY Zenon, <2>1, <1>0, <1>l, GotoType
<1>7. CASE WriteHead
  <2>1. Goto(Producer, "lock") \/ Goto(Producer, "idle")
    BY Zenon, <1>7 DEF WriteHead
  <2> QED BY Zenon, <2>1, <1>0, <1>l, GotoType
<1>8. CASE NotifyLock
  <2>1. Goto(Producer, "broadcast")
    BY Zenon, <1>8 DEF NotifyLock
  <2> QED BY Zenon, <2>1, <1>0, <1>l, GotoType
<1>9. CASE Broadcast
  <2>1. Goto(Producer, "idle")
    BY Zenon, <1>9 DEF Broadcast
  <2> QED BY Zenon, <2>1, <1>0, <1>l, GotoType
<1>10. ASSUME NEW t \in Threads, ScanTail(t) PROVE pc' \in [Threads -> Labels]
  BY Zenon, <1>0, <1>10 DEF ScanTail
<1>11. ASSUME NEW t \in Threads, StoreMin(t) PROVE pc' \in [Threads -> Labels]
  <2>1. Goto(t, "space") \/ Goto(t, "idle")
    BY Zenon, <1>11 DEF StoreMin
  <2> QED BY Zenon, <2>1, <1>0, <1>l, GotoType
<1>12. ASSUME NEW c \in Readers, Register(c) PROVE pc' \in [Threads -> Labels]
  <2>1. Goto(c, "idle")
    BY Zenon, <1>12 DEF Register
  <2> QED BY Zenon, <2>1, <1>0, <1>l, GotoType
<1>13. ASSUME NEW c \in Readers, Dequeue(c) PROVE pc' \in [Threads -> Labels]
  <2>1. Goto(c, "check")
    BY Zenon, <1>13 DEF Dequeue
  <2> QED BY Zenon, <2>1, <1>0, <1>l, GotoType
<1>14. ASSUME NEW c \in Readers, Check(c) PROVE pc' \in [Threads -> Labels]
  <2>1. Goto(c, "read") \/ Goto(c, "tail") \/ Goto(c, "idle")
    BY Zenon, <1>14 DEF Check
  <2> QED BY Zenon, <2>1, <1>0, <1>l, GotoType
<1>15. ASSUME NEW c \in Readers, ReadPtr(c) PROVE pc' \in [Threads -> Labels]
  <2>1. Goto(c, "check")
    BY Zenon, <1>15 DEF ReadPtr
  <2> QED BY Zenon, <2>1, <1>0, <1>l, GotoType
<1>16. ASSUME NEW c \in Readers, StoreTail(c) PROVE pc' \in [Threads -> Labels]
  <2>1. Goto(c, "refresh")
    BY Zenon, <1>16 DEF StoreTail
  <2> QED BY Zenon, <2>1, <1>0, <1>l, GotoType
<1>17. ASSUME NEW c \in Readers, Refresh(c) PROVE pc' \in [Threads -> Labels]
  <2>1. Goto(c, "scan") \/ Goto(c, "idle")
    BY Zenon, <1>17 DEF Refresh
  <2> QED BY Zenon, <2>1, <1>0, <1>l, GotoType
<1>18. ASSUME NEW c \in Readers, Wait(c) PROVE pc' \in [Threads -> Labels]
  <2>1. Goto(c, "lock")
    BY Zenon, <1>18 DEF Wait
  <2> QED BY Zenon, <2>1, <1>0, <1>l, GotoType
<1>19. ASSUME NEW c \in Readers, WaitLock(c) PROVE pc' \in [Threads -> Labels]
  <2>1. Goto(c, "test")
    BY Zenon, <1>19 DEF WaitLock
  <2> QED BY Zenon, <2>1, <1>0, <1>l, GotoType
<1>20. ASSUME NEW c \in Readers, WaitTest(c) PROVE pc' \in [Threads -> Labels]
  <2>1. Goto(c, "sleep") \/ Goto(c, "idle")
    BY Zenon, <1>20 DEF WaitTest
  <2> QED BY Zenon, <2>1, <1>0, <1>l, GotoType
<1>21. ASSUME NEW c \in Readers, WaitSleep(c) PROVE pc' \in [Threads -> Labels]
  <2>1. Goto(c, "lock")
    BY Zenon, <1>21 DEF WaitSleep
  <2> QED BY Zenon, <2>1, <1>0, <1>l, GotoType
<1>22. ASSUME NEW c \in Readers, SpuriousWakeup(c) PROVE pc' \in [Threads -> Labels]
  BY Zenon, <1>0, <1>22 DEF SpuriousWakeup
<1>23. CASE UNCHANGED vars
  BY Zenon, <1>0, <1>23 DEF vars
<1> QED
  BY Zenon, <1>1, <1>2, <1>3, <1>4, <1>5, <1>6, <1>7, <1>8, <1>9, <1>10, <1>11, <1>12, <1>13, <1>14,
     <1>15, <1>16, <1>17, <1>18, <1>19, <1>20, <1>21, <1>22, <1>23, ThreadFacts
     DEF Next, ProducerStep, ConsumerStep

(* Types of what belongs to the consumers.                                 *)
LEMMA NextReaderTypes ==
    MinInv /\ [Next]_vars =>
        /\ tails' \in [Readers -> Nat] /\ ctail' \in [Readers -> Nat]
        /\ count' \in [Readers -> Nat] /\ got' \in [Readers -> Seq(Nat)]
<1> DEFINE ReaderTypes == /\ tails \in [Readers -> Nat] /\ ctail \in [Readers -> Nat]
                          /\ count \in [Readers -> Nat] /\ got \in [Readers -> Seq(Nat)]
<1> SUFFICES ASSUME MinInv, [Next]_vars PROVE ReaderTypes'
  OBVIOUS
<1>0. ASSUME NEW c \in Readers PROVE slot_ptr[Index(ctail[c])] \in Nat
  <2>1. ctail[c] \in Nat /\ capacity \in Nat \ {0} /\ slot_ptr \in [0 .. capacity - 1 -> Nat]
    BY Zenon DEF Types, MinInv
  <2>2. Index(ctail[c]) \in 0 .. capacity - 1
    BY <2>1 DEF Index
  <2> QED BY Zenon, <2>1, <2>2
<1> USE <1>0, ThreadFacts DEF MinInv
<1>1. CASE Enqueue
  BY Zenon, <1>1 DEF Enqueue, Types, local
<1>2. CASE SpaceFound
  BY Zenon, <1>2 DEF SpaceFound, Types, local
<1>3. CASE Rescan
  BY Zenon, <1>3 DEF Rescan, Types, local
<1>4. CASE SlotReady
  BY Zenon, <1>4 DEF SlotReady, Types, local
<1>5. CASE WritePtr
  BY Zenon, <1>5 DEF WritePtr, Types, local
<1>6. CASE WriteSeq
  BY Zenon, <1>6 DEF WriteSeq, Types, local
<1>7. CASE WriteHead
  BY Zenon, <1>7 DEF WriteHead, Types, local
<1>8. CASE NotifyLock
  BY Zenon, <1>8 DEF NotifyLock, Types, local
<1>9. CASE Broadcast
  BY Zenon, <1>9 DEF Broadcast, Types, local
<1>10. ASSUME NEW t \in Threads, ScanTail(t) PROVE ReaderTypes'
  BY Zenon, <1>10 DEF ScanTail, Types, local
<1>11. ASSUME NEW t \in Threads, StoreMin(t) PROVE ReaderTypes'
  BY Zenon, <1>11 DEF StoreMin, Types, local
<1>12. ASSUME NEW c \in Readers, Register(c) PROVE ReaderTypes'
  BY Zenon, <1>12 DEF Register, Types, local
<1>13. ASSUME NEW c \in Readers, Dequeue(c) PROVE ReaderTypes'
  BY Zenon, <1>13 DEF Dequeue, Types, local
<1>14. ASSUME NEW c \in Readers, Check(c) PROVE ReaderTypes'
  BY Zenon, <1>14 DEF Check, Types, local
<1>15. ASSUME NEW c \in Readers, ReadPtr(c) PROVE ReaderTypes'
<2>1. slot_ptr[Index(ctail[c])] \in Nat /\ got[c] \in Seq(Nat)
  BY Zenon DEF Types
<2>2. Append(got[c], slot_ptr[Index(ctail[c])]) \in Seq(Nat)
  BY <2>1
<2>4. ctail[c] \in Nat /\ count[c] \in Nat
  BY Zenon DEF Types
<2>3. ctail[c] + 1 \in Nat /\ count[c] + 1 \in Nat
  BY <2>4
<2> QED BY Zenon, <1>15, <2>2, <2>3 DEF ReadPtr, Types
<1>16. ASSUME NEW c \in Readers, StoreTail(c) PROVE ReaderTypes'
  BY Zenon, <1>16 DEF StoreTail, Types, local
<1>17. ASSUME NEW c \in Readers, Refresh(c) PROVE ReaderTypes'
  BY Zenon, <1>17 DEF Refresh, Types, local
<1>18. ASSUME NEW c \in Readers, Wait(c) PROVE ReaderTypes'
  BY Zenon, <1>18 DEF Wait, Types, local
<1>19. ASSUME NEW c \in Readers, WaitLock(c) PROVE ReaderTypes'
  BY Zenon, <1>19 DEF WaitLock, Types, local
<1>20. ASSUME NEW c \in Readers, WaitTest(c) PROVE ReaderTypes'
  BY Zenon, <1>20 DEF WaitTest, Types, local
<1>21. ASSUME NEW c \in Readers, WaitSleep(c) PROVE ReaderTypes'
  BY Zenon, <1>21 DEF WaitSleep, Types, local
<1>22. ASSUME NEW c \in Readers, SpuriousWakeup(c) PROVE ReaderTypes'
  BY Zenon, <1>22 DEF SpuriousWakeup, Types, local
<1>23. CASE UNCHANGED vars
  BY Zenon, <1>23 DEF vars, Types, local
<1> QED
  BY Zenon, <1>1, <1>2, <1>3, <1>4, <1>5, <1>6, <1>7, <1>8, <1>9, <1>10, <1>11, <1>12, <1>13, <1>14,
     <1>15, <1>16, <1>17, <1>18, <1>19, <1>20, <1>21, <1>22, <1>23, ThreadFacts
     DEF Next, ProducerStep, ConsumerStep

(* Types of the scans; the minimum a complete scan stores is a position.   *)
LEMMA NextScanTypes ==
    MinInv /\ [Next]_vars => scan' \in [Threads -> [next : Nat, min : Nat \cup {-1}]] /\ min_tail' \in Nat
<1> DEFINE ScanTypes == scan \in [Threads -> [next : Nat, min : Nat \cup {-1}]] /\ min_tail \in Nat
<1> SUFFICES ASSUME MinInv, [Next]_vars PROVE ScanTypes'
  OBVIOUS
<1> USE ThreadFacts DEF MinInv
<1>1. CASE Enqueue
  BY Zenon, <1>1 DEF Enqueue, Types, ScanInv, StartScan
<1>2. CASE SpaceFound
  BY Zenon, <1>2 DEF SpaceFound, Types, ScanInv, StartScan
<1>3. CASE Rescan
  BY Zenon, <1>3 DEF Rescan, Types, ScanInv, StartScan
<1>4. CASE SlotReady
  BY Zenon, <1>4 DEF SlotReady, Types, ScanInv, StartScan
<1>5. CASE WritePtr
  BY Zenon, <1>5 DEF WritePtr, Types, ScanInv, StartScan
<1>6. CASE WriteSeq
  BY Zenon, <1>6 DEF WriteSeq, Types, ScanInv, StartScan
<1>7. CASE WriteHead
  BY Zenon, <1>7 DEF WriteHead, Types, ScanInv, StartScan
<1>8. CASE NotifyLock
  BY Zenon, <1>8 DEF NotifyLock, Types, ScanInv, StartScan
<1>9. CASE Broadcast
  BY Zenon, <1>9 DEF Broadcast, Types, ScanInv, StartScan
<1>10. ASSUME NEW t \in Threads, ScanTail(t) PROVE ScanTypes'
<2> DEFINE i == scan[t].next
           m == IF scan[t].min = -1 \/ tails[i] < scan[t].min THEN tails[i] ELSE scan[t].min
<2>1. i \in Nat /\ scan[t].min \in Nat \cup {-1}
  BY Zenon DEF Types
<2>2. i < Consumers
  BY Zenon, <1>10 DEF ScanTail
<2>3. tails[i] \in Nat
  BY Zenon, <2>1, <2>2 DEF Types
<2>4. m \in Nat
  BY Zenon, <2>1, <2>3
<2>5. scan' = [scan EXCEPT ![t] = [next |-> i + 1, min |-> m]] /\ min_tail' = min_tail
  BY Zenon, <1>10 DEF ScanTail
<2> HIDE DEF i, m
<2>6. [next |-> i + 1, min |-> m] \in [next : Nat, min : Nat \cup {-1}]
  BY <2>1, <2>4
<2> QED BY Zenon, <2>5, <2>6 DEF Types
<1>11. ASSUME NEW t \in Threads, StoreMin(t) PROVE ScanTypes'
<2>1. scan[t].next > 0 /\ scan[t].min \in Nat \cup {-1}
  BY <1>11, MarketRingAssumption DEF StoreMin, Types
<2>2. scan[t].min \in Nat
  BY Zenon, <1>11, <2>1 DEF StoreMin, ScanInv
<2>3. [next |-> 0, min |-> 0] \in [next : Nat, min : Nat \cup {-1}]
  OBVIOUS
<2> QED BY Zenon, <1>11, <2>2, <2>3 DEF StoreMin, Types
<1>12. ASSUME NEW c \in Readers, Register(c) PROVE ScanTypes'
  BY Zenon, <1>12 DEF Register, Types, ScanInv, StartScan
<1>13. ASSUME NEW c \in Readers, Dequeue(c) PROVE ScanTypes'
  BY Zenon, <1>13 DEF Dequeue, Types, ScanInv, StartScan
<1>14. ASSUME NEW c \in Readers, Check(c) PROVE ScanTypes'
  BY Zenon, <1>14 DEF Check, Types, ScanInv, StartScan
<1>15. ASSUME NEW c \in Readers, ReadPtr(c) PROVE ScanTypes'
  BY Zenon, <1>15 DEF ReadPtr, Types, ScanInv, StartScan
<1>16. ASSUME NEW c \in Readers, StoreTail(c) PROVE ScanTypes'
  BY Zenon, <1>16 DEF StoreTail, Types, ScanInv, StartScan
<1>17. ASSUME NEW c \in Readers, Refresh(c) PROVE ScanTypes'
<2>1. StartScan \in [next : Nat, min : Nat \cup {-1}]
  BY Zenon DEF StartScan
<2>2. (scan' = [scan EXCEPT ![c] = StartScan] \/ scan' = scan) /\ min_tail' = min_tail
  BY Zenon, <1>17 DEF Refresh
<2>3. scan \in [Threads -> [next : Nat, min : Nat \cup {-1}]] /\ min_tail \in Nat
  BY Zenon DEF Types
<2> QED BY ONLY <2>1, <2>2, <2>3
<1>18. ASSUME NEW c \in Readers, Wait(c) PROVE ScanTypes'
  BY Zenon, <1>18 DEF Wait, Types, ScanInv, StartScan
<1>19. ASSUME NEW c \in Readers, WaitLock(c) PROVE ScanTypes'
  BY Zenon, <1>19 DEF WaitLock, Types, ScanInv, StartScan
<1>20. ASSUME NEW c \in Readers, WaitTest(c) PROVE ScanTypes'
  BY Zenon, <1>20 DEF WaitTest, Types, ScanInv, StartScan
<1>21. ASSUME NEW c \in Readers, WaitSleep(c) PROVE ScanTypes'
  BY Zenon, <1>21 DEF WaitSleep, Types, ScanInv, StartScan
<1>22. ASSUME NEW c \in Readers, SpuriousWakeup(c) PROVE ScanTypes'
  BY Zenon, <1>22 DEF SpuriousWakeup, Types, ScanInv, StartScan
<1>23. CASE UNCHANGED vars
  BY Zenon, <1>23 DEF vars, Types, ScanInv, StartScan
<1> QED
  BY Zenon, <1>1, <1>2, <1>3, <1>4, <1>5, <1>6, <1>7, <1>8, <1>9, <1>10, <1>11, <1>12, <1>13, <1>14,
     <1>15, <1>16, <1>17, <1>18, <1>19, <1>20, <1>21, <1>22, <1>23, ThreadFacts
     DEF Next, ProducerStep, ConsumerStep

(* Every step keeps the types.                                             *)
LEMMA NextTypes == MinInv /\ [Next]_vars => Types'
  BY Zenon, NextRingTypes, NextPcType, NextReaderTypes, NextScanTypes DEF MinInv, Types

(* A consumer's tail only moves on.                                        *)
LEMMA NextTail == MinInv /\ [Next]_vars => TailInv' /\ \A c \in Readers : tails'[c] >= tails[c]
<1> SUFFICES ASSUME MinInv, [Next]_vars, NEW c \in Readers
             PROVE  /\ InBatch(c)' => ctail'[c] = tails'[c] + count'[c]
                    /\ ~InBatch(c)' => ctail'[c] = tails'[c]
                    /\ pc'[c] = "new" => tails'[c] = 0
                    /\ tails'[c] >= tails[c]
  BY Zenon DEF TailInv
<1>1. tails[c] \in Nat /\ ctail[c] \in Nat /\ count[c] \in Nat
  BY Zenon DEF MinInv, Types
<1>2. ReaderStep(c)
  BY Zenon, EveryReaderStep DEF MinInv
<1>3. /\ InBatch(c) => ctail[c] = tails[c] + count[c]
      /\ ~InBatch(c) => ctail[c] = tails[c]
      /\ pc[c] = "new" => tails[c] = 0
  BY Zenon DEF MinInv, TailInv
<1> QED BY <1>1, <1>2, <1>3 DEF InBatch, ReaderStep, Kept

(* A scan starts empty and takes in one tail per step.                     *)
LEMMA EveryScanStep == Types /\ [Next]_vars => (\A u \in Threads : ScanStep(u))
<1> SUFFICES ASSUME Types, [Next]_vars, NEW u \in Threads PROVE ScanStep(u)
  OBVIOUS
<1> USE ThreadFacts
<1>1. CASE Enqueue
  BY Zenon, <1>1 DEF Enqueue, Types, ScanStep, ring, local, wait, Goto
<1>2. CASE SpaceFound
  BY Zenon, <1>2 DEF SpaceFound, Types, ScanStep, ring, local, wait, Goto
<1>3. CASE Rescan
  BY Zenon, <1>3 DEF Rescan, Types, ScanStep, ring, local, wait, Goto
<1>4. CASE SlotReady
  BY Zenon, <1>4 DEF SlotReady, Types, ScanStep, ring, local, wait, Goto
<1>5. CASE WritePtr
  BY Zenon, <1>5 DEF WritePtr, Types, ScanStep, ring, local, wait, Goto
<1>6. CASE WriteSeq
  BY Zenon, <1>6 DEF WriteSeq, Types, ScanStep, ring, local, wait, Goto
<1>7. CASE WriteHead
  BY Zenon, <1>7 DEF WriteHead, Types, ScanStep, ring, local, wait, Goto
<1>8. CASE NotifyLock
  BY Zenon, <1>8 DEF NotifyLock, Types, ScanStep, ring, local, wait, Goto
<1>9. CASE Broadcast
  BY Zenon, <1>9 DEF Broadcast, Types, ScanStep, ring, local, wait, Goto
<1>10. ASSUME NEW t \in Threads, ScanTail(t) PROVE ScanStep(u)
  BY Zenon, <1>10 DEF ScanTail, Types, ScanStep, ring, local, wait, Goto
<1>11. ASSUME NEW t \in Threads, StoreMin(t) PROVE ScanStep(u)
  BY Zenon, <1>11 DEF StoreMin, Types, ScanStep, ring, local, wait, Goto
<1>12. ASSUME NEW c \in Readers, Register(c) PROVE ScanStep(u)
  BY Zenon, <1>12 DEF Register, Types, ScanStep, ring, local, wait, Goto
<1>13. ASSUME NEW c \in Readers, Dequeue(c) PROVE ScanStep(u)
  BY Zenon, <1>13 DEF Dequeue, Types, ScanStep, ring, local, wait, Goto
<1>14. ASSUME NEW c \in Readers, Check(c) PROVE ScanStep(u)
  BY Zenon, <1>14 DEF Check, Types, ScanStep, ring, local, wait, Goto
<1>15. ASSUME NEW c \in Readers, ReadPtr(c) PROVE ScanStep(u)
  BY Zenon, <1>15 DEF ReadPtr, Types, ScanStep, ring, local, wait, Goto
<1>16. ASSUME NEW c \in Readers, StoreTail(c) PROVE ScanStep(u)
  BY Zenon, <1>16 DEF StoreTail, Types, ScanStep, ring, local, wait, Goto
<1>17. ASSUME NEW c \in Readers, Refresh(c) PROVE ScanStep(u)
  BY Zenon, <1>17 DEF Refresh, Types, ScanStep, ring, local, wait, Goto
<1>18. ASSUME NEW c \in Readers, Wait(c) PROVE ScanStep(u)
  BY Zenon, <1>18 DEF Wait, Types, ScanStep, ring, local, wait, Goto
<1>19. ASSUME NEW c \in Readers, WaitLock(c) PROVE ScanStep(u)
  BY Zenon, <1>19 DEF WaitLock, Types, ScanStep, ring, local, wait, Goto
<1>20. ASSUME NEW c \in Readers, WaitTest(c) PROVE ScanStep(u)
  BY Zenon, <1>20 DEF WaitTest, Types, ScanStep, ring, local, wait, Goto
<1>21. ASSUME NEW c \in Readers, WaitSleep(c) PROVE ScanStep(u)
  BY Zenon, <1>21 DEF WaitSleep, Types, ScanStep, ring, local, wait, Goto
<1>22. ASSUME NEW c \in Readers, SpuriousWakeup(c) PROVE ScanStep(u)
  BY Zenon, <1>22 DEF SpuriousWakeup, Types, ScanStep, ring, local, wait, Goto
<1>23. CASE UNCHANGED vars
  BY Zenon, <1>23 DEF vars, Types, ScanStep, ring, local, wait, Goto
<1> QED
  BY Zenon, <1>1, <1>2, <1>3, <1>4, <1>5, <1>6, <1>7, <1>8, <1>9, <1>10, <1>11, <1>12, <1>13, <1>14,
     <1>15, <1>16, <1>17, <1>18, <1>19, <1>20, <1>21, <1>22, <1>23, ThreadFacts
     DEF Next, ProducerStep, ConsumerStep

(* min_tail is stored from a complete scan only.                           *)
LEMMA EveryMinStep == [Next]_vars => MinStep
<1> SUFFICES ASSUME [Next]_vars PROVE MinStep
  OBVIOUS
<1>1. CASE Enqueue
  BY Zenon, <1>1 DEF Enqueue, MinStep
<1>2. CASE SpaceFound
  BY Zenon, <1>2 DEF SpaceFound, MinStep
<1>3. CASE Rescan
  BY Zenon, <1>3 DEF Rescan, MinStep
<1>4. CASE SlotReady
  BY Zenon, <1>4 DEF SlotReady, MinStep
<1>5. CASE WritePtr
  BY Zenon, <1>5 DEF WritePtr, MinStep
<1>6. CASE WriteSeq
  BY Zenon, <1>6 DEF WriteSeq, MinStep
<1>7. CASE WriteHead
  BY Zenon, <1>7 DEF WriteHead, MinStep
<1>8. CASE NotifyLock
  BY Zenon, <1>8 DEF NotifyLock, MinStep
<1>9. CASE Broadcast
  BY Zenon, <1>9 DEF Broadcast, MinStep
<1>10. ASSUME NEW t \in Threads, ScanTail(t) PROVE MinStep
  BY Zenon, <1>10 DEF ScanTail, MinStep
<1>11. ASSUME NEW t \in Threads, StoreMin(t) PROVE MinStep
  BY Zenon, <1>11 DEF StoreMin, MinStep
<1>12. ASSUME NEW c \in Readers, Register(c) PROVE MinStep
  BY Zenon, <1>12 DEF Register, MinStep
<1>13. ASSUME NEW c \in Readers, Dequeue(c) PROVE MinStep
  BY Zenon, <1>13 DEF Dequeue, MinStep
<1>14. ASSUME NEW c \in Readers, Check(c) PROVE MinStep
  BY Zenon, <1>14 DEF Check, MinStep
<1>15. ASSUME NEW c \in Readers, ReadPtr(c) PROVE MinStep
  BY Zenon, <1>15 DEF ReadPtr, MinStep
<1>16. ASSUME NEW c \in Readers, StoreTail(c) PROVE MinStep
  BY Zenon, <1>16 DEF StoreTail, MinStep
<1>17. ASSUME NEW c \in Readers, Refresh(c) PROVE MinStep
  BY Zenon, <1>17 DEF Refresh, MinStep
<1>18. ASSUME NEW c \in Readers, Wait(c) PROVE MinStep
  BY Zenon, <1>18 DEF Wait, MinStep
<1>19. ASSUME NEW c \in Readers, WaitLock(c) PROVE MinStep
  BY Zenon, <1>19 DEF WaitLock, MinStep
<1>20. ASSUME NEW c \in Readers, WaitTest(c) PROVE MinStep
  BY Zenon, <1>20 DEF WaitTest, MinStep
<1>21. ASSUME NEW c \in Readers, WaitSleep(c) PROVE MinStep
  BY Zenon, <1>21 DEF WaitSleep, MinStep
<1>22. ASSUME NEW c \in Readers, SpuriousWakeup(c) PROVE MinStep
  BY Zenon, <1>22 DEF SpuriousWakeup, MinStep
<1>23. CASE UNCHANGED vars
  BY Zenon, <1>23 DEF vars, MinStep
<1> QED
  BY Zenon, <1>1, <1>2, <1>3, <1>4, <1>5, <1>6, <1>7, <1>8, <1>9, <1>10, <1>11, <1>12, <1>13, <1>14,
     <1>15, <1>16, <1>17, <1>18, <1>19, <1>20, <1>21, <1>22, <1>23, ThreadFacts
     DEF Next, ProducerStep, ConsumerStep

(* A scan stays at most every tail it has passed, for tails only grow.     *)
LEMMA NextScan == MinInv /\ [Next]_vars => ScanInv'
<1> SUFFICES ASSUME MinInv, [Next]_vars, NEW t \in Threads, pc'[t] = "scan"
             PROVE  /\ scan'[t].next <= Consumers
                    /\ scan'[t].next > 0 => scan'[t].min # -1
                    /\ \A c \in Readers : c < scan'[t].next => scan'[t].min <= tails'[c]
  BY Zenon DEF ScanInv
<1>1. \A c \in Readers : tails[c] \in Nat /\ tails'[c] \in Nat /\ tails'[c] >= tails[c]
  BY Zenon, NextTail, NextTypes DEF MinInv, Types
<1>2. scan[t].next \in Nat /\ scan[t].min \in Nat \cup {-1}
  BY Zenon DEF MinInv, Types
<1>3. pc[t] = "scan" =>
        /\ scan[t].next <= Consumers
        /\ scan[t].next > 0 => scan[t].min # -1
        /\ \A c \in Readers : c < scan[t].next => scan[t].min <= tails[c]
  BY Zenon DEF MinInv, ScanInv
<1>4. CASE pc[t] = "scan" /\ scan'[t] = scan[t]
  BY <1>1, <1>2, <1>3, <1>4
<1>5. CASE scan'[t] = StartScan
  BY <1>5, ThreadFacts, MarketRingAssumption DEF StartScan
<1>6. CASE ~(pc[t] = "scan" /\ scan'[t] = scan[t]) /\ scan'[t] # StartScan
  <2> DEFINE i == scan[t].next
             m == IF scan[t].min = -1 \/ tails[i] < scan[t].min THEN tails[i] ELSE scan[t].min
  <2>1. /\ pc[t] = "scan" /\ i < Consumers /\ UNCHANGED tails
        /\ scan'[t] = [next |-> i + 1, min |-> m]
    BY Zenon, <1>6, EveryScanStep DEF MinInv, ScanStep
  <2>2. i \in Readers /\ tails[i] \in Nat
    BY Zenon, <2>1, <1>1, <1>2, ThreadFacts
  <2>3. m \in Nat /\ m <= tails[i]
    BY <1>2, <2>2
  <2>4. i > 0 => m <= scan[t].min
    <3>1. i > 0 => scan[t].min \in Nat
      BY Zenon, <1>2, <1>3, <2>1
    <3> QED BY <3>1, <2>2
  <2>5. ASSUME NEW c \in Readers, c < i + 1 PROVE m <= tails[c]
    <3>1. CASE c = i
      BY Zenon, <3>1, <2>3
    <3>2. CASE c < i
      <4>1. i > 0 /\ scan[t].min <= tails[c] /\ tails[c] \in Nat
        BY <3>2, <1>1, <1>2, <1>3, <2>1, ThreadFacts
      <4> QED BY <4>1, <2>3, <2>4, <1>2
    <3> QED BY <3>1, <3>2, <2>5, <1>2, ThreadFacts
  <2>6. scan'[t].next = i + 1 /\ scan'[t].min = m
    BY <2>1
  <2> HIDE DEF m, i
  <2>7. i \in Nat /\ i < Consumers
    BY Zenon, <1>2, <2>1 DEF i
  <2>8. \A c \in Readers : c < i + 1 => m <= tails'[c]
    BY Zenon, <2>1, <2>5
  <2> QED BY <2>3, <2>6, <2>7, <2>8, MarketRingAssumption
<1> QED BY Zenon, <1>4, <1>5, <1>6

(* A complete scan has passed every tail, so what it stores is             *)
(* conservative.                                                           *)
LEMMA NextMinTail == MinInv /\ [Next]_vars => MinTailConservative'
<1> SUFFICES ASSUME MinInv, [Next]_vars, NEW c \in Readers PROVE min_tail' <= tails'[c]
  BY Zenon DEF MinTailConservative
<1>1. tails[c] \in Nat /\ tails'[c] \in Nat /\ tails'[c] >= tails[c] /\ min_tail \in Nat
  BY Zenon, NextTail, NextTypes DEF MinInv, Types
<1>2. CASE min_tail' = min_tail
  BY <1>1, <1>2 DEF MinInv, MinTailConservative
<1>3. ASSUME NEW t \in Threads, pc[t] = "scan", scan[t].next = Consumers, min_tail' = scan[t].min
      PROVE  min_tail' <= tails'[c]
  <2>1. scan[t].min <= tails[c] /\ c < Consumers
    BY Zenon, <1>3, ThreadFacts DEF MinInv, ScanInv
  <2>2. min_tail' \in Nat
    BY Zenon, NextTypes DEF Types
  <2> QED BY <1>1, <1>3, <2>1, <2>2
<1> QED BY Zenon, <1>2, <1>3, EveryMinStep DEF MinStep

(* Every step keeps the invariant of the tails.                            *)
LEMMA NextMin == MinInv /\ [Next]_vars => MinInv'
  BY Zenon, NextTypes, NextTail, NextScan, NextMinTail DEF MinInv

(* The invariant of the tails holds throughout: om_market_ring_min_tail    *)
(* with any number of threads scanning at once.                            *)
THEOREM MinInvariant == Spec => []MinInv
<1>1. Init => MinInv
  BY Zenon, InitMin
<1>2. MinInv /\ [Next]_vars => MinInv'
  BY Zenon, NextMin
<1> QED BY <1>1, <1>2, PTL DEF Spec

(* The cached minimum of om_market_ring_min_tail is never ahead of a       *)
(* consumer's tail, whoever stores it and however late, for every number   *)
(* of consumers and every capacity.                                        *)
THEOREM MinTailIsConservative == Spec => []MinTailConservative
<1>1. MinInv => MinTailConservative
  BY Zenon DEF MinInv
<1> QED BY <1>1, MinInvariant, PTL

-----------------------------------------------------------------------------
(* The slots.                                                              *)

(* Consecutive positions share a slot only in a ring of one.               *)
LEMMA NextIndex ==
    ASSUME NEW k \in Nat, k > 1, NEW n \in Nat
    PROVE  (n + 1) % k # n % k
<1> SUFFICES ASSUME (n + 1) % k = n % k PROVE FALSE
  OBVIOUS
<1> DEFINE q == n \div k
           r == (n + 1) \div k
           s == n % k
<1>1. n = k * q + s /\ q \in Int /\ s \in Int
  OBVIOUS
<1>2. n + 1 = k * r + s /\ r \in Int
  OBVIOUS
<1> HIDE DEF q, r, s
<1>3. k * (r - q) = k * r - k * q
  BY <1>1, <1>2
<1>4. k * (r - q) = 1 /\ r - q \in Int
  BY <1>1, <1>2, <1>3
<1>5. \A j \in Int : (j >= 1 => k * j >= k) /\ (j <= 0 => k * j <= 0)
  OBVIOUS
<1> QED BY <1>4, <1>5

(* Index is within the ring and tells neighbours apart.                    *)
LEMMA IndexFacts ==
    ASSUME Types
    PROVE  /\ \A p \in Nat : Index(p) \in 0 .. capacity - 1
           /\ capacity > 1 => \A p \in Nat : Index(p + 1) # Index(p)
<1>1. capacity \in Nat /\ capacity > 0
  BY DEF Types
<1>2. \A p \in Nat : Index(p) \in 0 .. capacity - 1
  BY <1>1 DEF Index
<1>3. ASSUME capacity > 1, NEW p \in Nat PROVE Index(p + 1) # Index(p)
  BY Zenon, <1>1, <1>3, NextIndex DEF Index
<1> QED BY Zenon, <1>2, <1>3

(* The capacity is fixed by om_market_ring_init.                           *)
LEMMA SameIndex == [Next]_vars => capacity' = capacity /\ \A p \in Nat : Index(p)' = Index(p)
  BY Zenon DEF Next, vars, Index

(* om_market_ring_init establishes the invariant of the slots.             *)
LEMMA InitRing == Init => RingInv
<1> SUFFICES ASSUME Init PROVE RingInv
  OBVIOUS
<1>1. Types
  BY Zenon, InitMin DEF MinInv
<1>2. WriteInv /\ ReadInv /\ GotInv
  BY Zenon, ThreadFacts DEF Init, WriteInv, Writing, ReadInv, GotInv
<1>3. SlotInv
  <2> SUFFICES ASSUME NEW q \in Nat, slot_seq[Index(q)] = q + 1 PROVE FALSE
    BY Zenon DEF SlotInv
  <2>1. Index(q) = q + 1 /\ capacity \in Nat /\ capacity > 0
    BY <1>1, IndexFacts DEF Init, Types
  <2>2. q % capacity <= q
    BY <2>1
  <2> QED BY <2>1, <2>2 DEF Index
<1>4. InOrder
  BY DEF Init, InOrder
<1> QED BY Zenon, <1>2, <1>3, <1>4 DEF RingInv

(* The space the producer found stays, for tails only grow.                *)
LEMMA NextWrite == MinInv /\ RingInv /\ [Next]_vars => WriteInv'
<1> SUFFICES ASSUME MinInv, RingInv, [Next]_vars PROVE WriteInv'
  OBVIOUS
<1>1. /\ capacity \in Nat /\ head \in Nat /\ min_tail \in Nat /\ capacity' = capacity
      /\ \A c \in Readers : tails[c] \in Nat /\ tails'[c] \in Nat /\ tails'[c] >= tails[c]
      /\ \A c \in Readers : min_tail <= tails[c]
  BY Zenon, SameIndex, NextTail, NextTypes DEF MinInv, Types, MinTailConservative
<1>2. RingStep
  BY Zenon, EveryRingStep DEF MinInv
<1>3. ASSUME Writing', NEW c \in Readers PROVE head' < tails'[c] + capacity'
  <2>1. Writing => head < tails[c] + capacity
    BY Zenon DEF RingInv, WriteInv
  <2>2. head' = head /\ head < tails[c] + capacity
    BY <1>1, <1>2, <1>3, <2>1 DEF RingStep, Writing, ring
  <2> QED BY <1>1, <2>2
<1>4. pc'[Producer] \in {"ptr", "seq"} => slot_seq'[Index(head)'] = head'
  <2> SUFFICES ASSUME pc'[Producer] \in {"ptr", "seq"} PROVE slot_seq'[Index(head)'] = head'
    OBVIOUS
  <2>1. slot_seq' = slot_seq /\ head' = head /\ slot_seq[Index(head)] = head
    BY Zenon, <1>2 DEF RingStep, ring, RingInv, WriteInv
  <2>2. Index(head)' = Index(head)
    BY Zenon, <1>1, <2>1 DEF Index
  <2> QED BY Zenon, <2>1, <2>2
<1>5. pc'[Producer] = "seq" => slot_ptr'[Index(head)'] = head' + 1
  <2> SUFFICES ASSUME pc'[Producer] = "seq" PROVE slot_ptr'[Index(head)'] = head' + 1
    OBVIOUS
  <2>1. head' = head /\ Index(head)' = Index(head) /\ Index(head) \in 0 .. capacity - 1
    BY Zenon, <1>1, <1>2, IndexFacts DEF RingStep, ring, Index, MinInv
  <2>2. slot_ptr'[Index(head)] = head + 1
    BY Zenon, <1>2, <2>1 DEF RingStep, ring, RingInv, WriteInv, MinInv, Types
  <2> QED BY Zenon, <2>1, <2>2
<1> QED BY Zenon, <1>3, <1>4, <1>5 DEF WriteInv

(* ptr is written before seq.                                              *)
LEMMA NextSlot == MinInv /\ RingInv /\ [Next]_vars => SlotInv'
<1> SUFFICES ASSUME MinInv, RingInv, [Next]_vars, NEW q \in Nat, slot_seq'[Index(q)'] = q + 1
             PROVE  \/ slot_ptr'[Index(q)'] = q + 1
                    \/ pc'[Producer] = "seq" /\ head' = q + 1 /\ Index(head)' = Index(q)'
  BY Zenon DEF SlotInv
<1>1. Index(q)' = Index(q) /\ Index(q) \in 0 .. capacity - 1 /\ Index(head) \in 0 .. capacity - 1
  BY Zenon, SameIndex, IndexFacts DEF MinInv, Types
<1>2. slot_seq[Index(q)] = q + 1 =>
        \/ slot_ptr[Index(q)] = q + 1
        \/ pc[Producer] = "seq" /\ head = q + 1 /\ Index(head) = Index(q)
  BY Zenon DEF RingInv, SlotInv
<1>3. RingStep /\ capacity' = capacity
  BY Zenon, EveryRingStep, SameIndex DEF MinInv
<1>4. CASE UNCHANGED ring /\ pc'[Producer] = pc[Producer]
  BY Zenon, <1>1, <1>2, <1>3, <1>4 DEF ring, Index
<1>5. CASE UNCHANGED ring /\ pc[Producer] # "seq"
  BY Zenon, <1>1, <1>2, <1>5 DEF ring
<1>6. CASE /\ pc[Producer] = "ptr" /\ pc'[Producer] = "seq" /\ UNCHANGED <<slot_seq, head>>
           /\ slot_ptr' = [slot_ptr EXCEPT ![Index(head)] = head + 1]
  <2>1. slot_seq[Index(head)] = head /\ Index(head)' = Index(head)
    BY Zenon, <1>3, <1>6 DEF RingInv, WriteInv, Index
  <2> QED BY Zenon, <1>1, <1>2, <1>6, <2>1 DEF MinInv, Types
<1>7. CASE /\ pc[Producer] = "seq" /\ pc'[Producer] = "head" /\ UNCHANGED <<slot_ptr, head>>
           /\ slot_seq' = [slot_seq EXCEPT ![Index(head)] = head + 1]
  <2>1. slot_ptr[Index(head)] = head + 1
    BY Zenon, <1>7 DEF RingInv, WriteInv
  <2> QED BY Zenon, <1>1, <1>2, <1>7, <2>1 DEF MinInv, Types
<1>8. CASE pc[Producer] = "head" /\ UNCHANGED <<slot_seq, slot_ptr>>
  BY Zenon, <1>1, <1>2, <1>8
<1> QED BY Zenon, <1>3, <1>4, <1>5, <1>6, <1>7, <1>8 DEF RingStep

(* The slot a consumer is about to read is not the one being written: it   *)
(* is marked ctail + 1, the other one head, and head is less than a lap    *)
(* ahead of the consumer.                                                  *)
LEMMA WriteElsewhere ==
    ASSUME MinInv, RingInv, NEW c \in Readers, pc[Producer] \in {"ptr", "seq"},
           slot_seq[Index(ctail[c])] = ctail[c] + 1
    PROVE  Index(head) # Index(ctail[c])
<1> SUFFICES ASSUME Index(head) = Index(ctail[c]) PROVE FALSE
  OBVIOUS
<1>1. /\ head \in Nat /\ ctail[c] \in Nat /\ tails[c] \in Nat /\ count[c] \in Nat
      /\ capacity \in Nat
  BY Zenon DEF MinInv, Types
<1>2. head = ctail[c] + 1
  BY Zenon DEF RingInv, WriteInv
<1>3. head < tails[c] + capacity
  BY Zenon DEF RingInv, WriteInv, Writing
<1>4. tails[c] <= ctail[c]
  BY <1>1 DEF MinInv, TailInv
<1>5. capacity > 1
  BY <1>1, <1>2, <1>3, <1>4
<1> QED BY Zenon, <1>1, <1>2, <1>5, IndexFacts DEF MinInv

(* The slot a consumer has checked is not written before it reads it.      *)
LEMMA NextRead == MinInv /\ RingInv /\ [Next]_vars => ReadInv'
<1> SUFFICES ASSUME MinInv, RingInv, [Next]_vars, NEW c \in Readers, pc'[c] = "read"
             PROVE  /\ slot_seq'[Index(ctail[c])'] = ctail'[c] + 1
                    /\ slot_ptr'[Index(ctail[c])'] = ctail'[c] + 1
  BY Zenon DEF ReadInv
<1>1. ctail'[c] = ctail[c] /\ ctail[c] \in Nat
  BY Zenon, EveryReaderStep DEF ReaderStep, Kept, MinInv, Types
<1>2. Index(ctail[c])' = Index(ctail[c]) /\ Index(ctail[c]) \in 0 .. capacity - 1
  BY Zenon, <1>1, SameIndex, IndexFacts DEF MinInv, Index
<1>3. CASE pc[c] = "check"
  <2>1. slot_seq[Index(ctail[c])] = ctail[c] + 1 /\ UNCHANGED ring
    BY Zenon, <1>3, EveryReaderStep DEF ReaderStep, MinInv
  <2>2. slot_ptr[Index(ctail[c])] = ctail[c] + 1
    BY Zenon, <1>1, <2>1, WriteElsewhere DEF RingInv, SlotInv
  <2> QED BY Zenon, <1>1, <1>2, <2>1, <2>2 DEF ring
<1>4. CASE pc[c] = "read"
  <2>1. slot_seq[Index(ctail[c])] = ctail[c] + 1 /\ slot_ptr[Index(ctail[c])] = ctail[c] + 1
    BY Zenon, <1>4 DEF RingInv, ReadInv
  <2>2. pc[Producer] \in {"ptr", "seq"} => Index(head) # Index(ctail[c])
    BY Zenon, <2>1, WriteElsewhere
  <2> QED BY Zenon, <1>1, <1>2, <2>1, <2>2, EveryRingStep DEF RingStep, ring, MinInv, Types
<1> QED BY Zenon, <1>3, <1>4, EveryReaderStep DEF ReaderStep, MinInv

(* A batch appends the records after those already read.                   *)
LEMMA NextGot == MinInv /\ RingInv /\ [Next]_vars => GotInv' /\ InOrder'
<1> SUFFICES ASSUME MinInv, RingInv, [Next]_vars, NEW c \in Readers
             PROVE  Len(got'[c]) = ctail'[c] /\ got'[c] = [i \in 1 .. Len(got'[c]) |-> i]
  BY Zenon DEF GotInv, InOrder
<1>1. got[c] \in Seq(Nat) /\ ctail[c] \in Nat
  BY Zenon DEF MinInv, Types
<1>2. Len(got[c]) = ctail[c] /\ got[c] = [i \in 1 .. Len(got[c]) |-> i]
  BY Zenon DEF RingInv, GotInv, InOrder
<1>3. CASE pc[c] = "read" /\ pc'[c] = "check"
  <2>1. ctail'[c] = ctail[c] + 1 /\ got'[c] = Append(got[c], ctail[c] + 1)
    BY Zenon, <1>3, EveryReaderStep DEF ReaderStep, MinInv, RingInv, ReadInv
  <2>2. Append(got[c], ctail[c] + 1) = [i \in 1 .. ctail[c] + 1 |-> i]
    BY <1>1, <1>2
  <2>3. Len(got'[c]) = ctail[c] + 1
    BY <1>1, <1>2, <2>1
  <2> QED BY Zenon, <2>1, <2>2, <2>3
<1>4. CASE ~(pc[c] = "read" /\ pc'[c] = "check")
  <2>1. got'[c] = got[c] /\ ctail'[c] = ctail[c]
    BY Zenon, <1>4, EveryReaderStep DEF ReaderStep, Kept, MinInv, TailInv, InBatch
  <2> QED BY Zenon, <1>2, <2>1
<1> QED BY Zenon, <1>3, <1>4

(* The invariant of the slots holds throughout: om_market_ring_enqueue     *)
(* against om_market_ring_dequeue_batch.                                   *)
THEOREM RingInvariant == Spec => [](MinInv /\ RingInv)
<1>1. Init => MinInv /\ RingInv
  BY Zenon, InitMin, InitRing
<1>2. (MinInv /\ RingInv) /\ [Next]_vars => (MinInv /\ RingInv)'
  BY Zenon, NextMin, NextWrite, NextSlot, NextRead, NextGot DEF RingInv
<1> QED BY <1>1, <1>2, PTL DEF Spec

(* Every consumer dequeues the records 1, 2, 3, ... without a gap, a       *)
(* repetition or an overwritten pointer: om_market_ring_enqueue never      *)
(* reuses a slot between a consumer's load of slot.seq and its read of     *)
(* slot.ptr.  For every capacity, batch size and number of consumers.      *)
THEOREM EveryConsumerInOrder == Spec => []InOrder
<1>1. MinInv /\ RingInv => InOrder
  BY Zenon DEF RingInv
<1> QED BY <1>1, RingInvariant, PTL

-----------------------------------------------------------------------------
(* The refinement.                                                         *)

(* A step publishes only by the store of slot.seq.                         *)
LEMMA PublishStep ==
    MinInv /\ [Next]_vars =>
        \/ Published' = Published
        \/ /\ pc[Producer] = "seq" /\ Published' = Published + 1
           /\ slot_seq' = [slot_seq EXCEPT ![Index(head)] = head + 1]
  BY Zenon, EveryRingStep DEF MinInv, Types, RingStep, Published, ring

(* Every slot's sequence is that of a published record, or of none.        *)
PubInv == \A q \in Nat : slot_seq[Index(q)] = q + 1 => q < Published

(* om_market_ring_init publishes nothing.                                  *)
LEMMA InitPub == Init => PubInv
<1> SUFFICES ASSUME Init, NEW q \in Nat, slot_seq[Index(q)] = q + 1 PROVE FALSE
  BY Zenon DEF PubInv
<1>1. Types
  BY Zenon, InitMin DEF MinInv
<1>2. Index(q) = q + 1 /\ capacity \in Nat /\ capacity > 0
  BY <1>1, IndexFacts DEF Init, Types
<1>3. q % capacity <= q
  BY <1>2
<1> QED BY <1>2, <1>3 DEF Index

(* A slot's sequence is stored with the record it publishes.               *)
LEMMA NextPub == MinInv /\ PubInv /\ [Next]_vars => PubInv'
<1> SUFFICES ASSUME MinInv, PubInv, [Next]_vars, NEW q \in Nat, slot_seq'[Index(q)'] = q + 1
             PROVE  q < Published'
  BY Zenon DEF PubInv
<1>1. /\ Index(q)' = Index(q) /\ Index(q) \in 0 .. capacity - 1
      /\ Index(head) \in 0 .. capacity - 1 /\ head \in Nat /\ Published \in Nat
      /\ slot_seq \in [0 .. capacity - 1 -> Nat]
  <2>1. Types
    BY Zenon DEF MinInv
  <2>2. head \in Nat /\ Published \in Nat /\ slot_seq \in [0 .. capacity - 1 -> Nat]
    BY <2>1 DEF Types, Published
  <2> QED BY Zenon, <2>1, <2>2, SameIndex, IndexFacts
<1>2. slot_seq[Index(q)] = q + 1 => q < Published
  BY Zenon DEF PubInv
<1>3. CASE pc[Producer] = "seq" /\ Published' = Published + 1
           /\ slot_seq' = [slot_seq EXCEPT ![Index(head)] = head + 1]
  <2>1. Published = head
    BY Zenon, <1>3 DEF Published
  <2>2. CASE Index(q) = Index(head)
    BY <1>1, <1>3, <2>1, <2>2
  <2>3. CASE Index(q) # Index(head)
    BY <1>1, <1>2, <1>3, <2>3
  <2> QED BY Zenon, <2>2, <2>3
<1>4. CASE Published' = Published /\ slot_seq' = slot_seq
  BY Zenon, <1>1, <1>2, <1>4
<1> QED BY Zenon, <1>3, <1>4, PublishStep, EveryRingStep DEF MinInv, RingStep, ring, Published

(* The ring starts as an empty log.                                        *)
LEMMA LogInit == Init => Log!Init
  BY Zenon, ThreadFacts DEF Init, Log!Init, Published

(* Every step of the ring is a step of the log or leaves it alone.         *)
LEMMA LogStep == MinInv /\ RingInv /\ PubInv /\ [Next]_vars => [Log!Next]_(Log!vars)
<1> SUFFICES ASSUME MinInv, RingInv, PubInv, [Next]_vars PROVE [Log!Next]_(Log!vars)
  OBVIOUS
<1>0. capacity' = capacity
  BY Zenon, SameIndex
<1> USE ThreadFacts DEF MinInv
<1>1. CASE Enqueue
  BY Zenon, <1>1, <1>0 DEF Enqueue, Types, Published, Goto, ring, local, Log!vars
<1>2. CASE SpaceFound
  BY Zenon, <1>2, <1>0 DEF SpaceFound, Types, Published, Goto, ring, local, Log!vars
<1>3. CASE Rescan
  BY Zenon, <1>3, <1>0 DEF Rescan, Types, Published, Goto, ring, local, Log!vars
<1>4. CASE SlotReady
  BY Zenon, <1>4, <1>0 DEF SlotReady, Types, Published, Goto, ring, local, Log!vars
<1>5. CASE WritePtr
  BY Zenon, <1>5, <1>0 DEF WritePtr, Types, Published, Goto, ring, local, Log!vars
<1>6. CASE WriteSeq
<2>1. Published = head /\ Published' = Published + 1 /\ UNCHANGED <<got, tails>>
  BY Zenon, <1>6 DEF WriteSeq, Types, Published, Goto, local
<2>2. \A c \in Readers : head - tails[c] < capacity
  <3>1. \A c \in Readers : head < tails[c] + capacity
    BY Zenon, <1>6 DEF WriteSeq, RingInv, WriteInv, Writing
  <3>2. head \in Nat /\ capacity \in Nat /\ \A c \in Readers : tails[c] \in Nat
    BY Zenon DEF Types
  <3> QED BY ONLY <3>1, <3>2
<2>3. Log!Publish
  BY Zenon, <1>0, <2>1, <2>2 DEF Log!Publish
<2> QED BY Zenon, <2>3 DEF Log!Next
<1>7. CASE WriteHead
  BY Zenon, <1>7, <1>0 DEF WriteHead, Types, Published, Goto, ring, local, Log!vars
<1>8. CASE NotifyLock
  BY Zenon, <1>8, <1>0 DEF NotifyLock, Types, Published, Goto, ring, local, Log!vars
<1>9. CASE Broadcast
  BY Zenon, <1>9, <1>0 DEF Broadcast, Types, Published, Goto, ring, local, Log!vars
<1>10. ASSUME NEW t \in Threads, ScanTail(t) PROVE [Log!Next]_(Log!vars)
  BY Zenon, <1>10, <1>0 DEF ScanTail, Types, Published, Goto, ring, local, Log!vars
<1>11. ASSUME NEW t \in Threads, StoreMin(t) PROVE [Log!Next]_(Log!vars)
  BY Zenon, <1>11, <1>0 DEF StoreMin, Types, Published, Goto, ring, local, Log!vars
<1>12. ASSUME NEW c \in Readers, Register(c) PROVE [Log!Next]_(Log!vars)
<2>1. tails[c] = 0
  BY Zenon, <1>12 DEF Register, TailInv
<2>2. tails' = tails
  BY Zenon, <1>12, <2>1 DEF Register, Types
<2> QED BY Zenon, <1>0, <1>12, <2>2 DEF Register, Types, Published, Goto, ring, local, Log!vars
<1>13. ASSUME NEW c \in Readers, Dequeue(c) PROVE [Log!Next]_(Log!vars)
  BY Zenon, <1>13, <1>0 DEF Dequeue, Types, Published, Goto, ring, local, Log!vars
<1>14. ASSUME NEW c \in Readers, Check(c) PROVE [Log!Next]_(Log!vars)
  BY Zenon, <1>14, <1>0 DEF Check, Types, Published, Goto, ring, local, Log!vars
<1>15. ASSUME NEW c \in Readers, ReadPtr(c) PROVE [Log!Next]_(Log!vars)
<2>1. /\ slot_ptr[Index(ctail[c])] = ctail[c] + 1
      /\ slot_seq[Index(ctail[c])] = ctail[c] + 1 /\ Len(got[c]) = ctail[c]
  BY Zenon, <1>15 DEF ReadPtr, RingInv, ReadInv, GotInv
<2>2. Len(got[c]) < Published
  BY Zenon, <2>1 DEF Types, PubInv
<2>3. got' = [got EXCEPT ![c] = Append(@, Len(@) + 1)]
  BY Zenon, <1>15, <2>1 DEF ReadPtr, Types
<2>4. UNCHANGED <<Published, tails>>
  BY Zenon, <1>15 DEF ReadPtr, Types, Published, Goto, ring
<2>5. Log!Take(c)
  BY Zenon, <1>0, <2>2, <2>3, <2>4 DEF Log!Take
<2> QED BY Zenon, <2>5 DEF Log!Next
<1>16. ASSUME NEW c \in Readers, StoreTail(c) PROVE [Log!Next]_(Log!vars)
<2>1. tails' = [tails EXCEPT ![c] = Len(got[c])]
  BY Zenon, <1>16 DEF StoreTail, RingInv, GotInv
<2>2. UNCHANGED <<Published, got>>
  BY Zenon, <1>16 DEF StoreTail, Types, Published, Goto, ring, local
<2>3. Log!Free(c)
  BY Zenon, <1>0, <2>1, <2>2 DEF Log!Free
<2> QED BY Zenon, <2>3 DEF Log!Next
<1>17. ASSUME NEW c \in Readers, Refresh(c) PROVE [Log!Next]_(Log!vars)
  BY Zenon, <1>17, <1>0 DEF Refresh, Types, Published, Goto, ring, local, Log!vars
<1>18. ASSUME NEW c \in Readers, Wait(c) PROVE [Log!Next]_(Log!vars)
  BY Zenon, <1>18, <1>0 DEF Wait, Types, Published, Goto, ring, local, Log!vars
<1>19. ASSUME NEW c \in Readers, WaitLock(c) PROVE [Log!Next]_(Log!vars)
  BY Zenon, <1>19, <1>0 DEF WaitLock, Types, Published, Goto, ring, local, Log!vars
<1>20. ASSUME NEW c \in Readers, WaitTest(c) PROVE [Log!Next]_(Log!vars)
  BY Zenon, <1>20, <1>0 DEF WaitTest, Types, Published, Goto, ring, local, Log!vars
<1>21. ASSUME NEW c \in Readers, WaitSleep(c) PROVE [Log!Next]_(Log!vars)
  BY Zenon, <1>21, <1>0 DEF WaitSleep, Types, Published, Goto, ring, local, Log!vars
<1>22. ASSUME NEW c \in Readers, SpuriousWakeup(c) PROVE [Log!Next]_(Log!vars)
  BY Zenon, <1>22, <1>0 DEF SpuriousWakeup, Types, Published, Goto, ring, local, Log!vars
<1>23. CASE UNCHANGED vars
  BY Zenon, <1>23 DEF vars, Types, Published, Goto, ring, local, Log!vars
<1> QED
  BY Zenon, <1>1, <1>2, <1>3, <1>4, <1>5, <1>6, <1>7, <1>8, <1>9, <1>10, <1>11, <1>12, <1>13, <1>14,
     <1>15, <1>16, <1>17, <1>18, <1>19, <1>20, <1>21, <1>22, <1>23, ThreadFacts
     DEF Next, ProducerStep, ConsumerStep

(* Every behaviour of the ring is a behaviour of a log that all consumers  *)
(* read in full: om_market_ring_enqueue publishes only into space every    *)
(* consumer has given back, and om_market_ring_dequeue_batch takes only    *)
(* what is published, in order.  For every capacity and every number of    *)
(* consumers.                                                              *)
THEOREM LogImplemented == Spec => ImplementsLog
<1>1. Init => PubInv /\ Log!Init
  BY Zenon, InitPub, LogInit
<1>2. MinInv /\ PubInv /\ [Next]_vars => PubInv'
  BY Zenon, NextPub
<1>3. MinInv /\ RingInv /\ PubInv /\ [Next]_vars => [Log!Next]_(Log!vars)
  BY Zenon, LogStep
<1> QED BY <1>1, <1>2, <1>3, RingInvariant, PTL DEF Spec, ImplementsLog, Log!Spec

-----------------------------------------------------------------------------
(* Waiting.                                                                *)

(* wait_mutex excludes the broadcast and the consumers' tests.             *)
LEMMA NextMutex == Types /\ MutexInv /\ [Next]_vars => MutexInv'
<1> SUFFICES ASSUME Types, MutexInv, [Next]_vars PROVE MutexInv'
  OBVIOUS
<1> USE ThreadFacts
<1>1. CASE Enqueue
  BY Zenon, <1>1 DEF Enqueue, Types, MutexInv, Goto, wait
<1>2. CASE SpaceFound
  BY Zenon, <1>2 DEF SpaceFound, Types, MutexInv, Goto, wait
<1>3. CASE Rescan
  BY Zenon, <1>3 DEF Rescan, Types, MutexInv, Goto, wait
<1>4. CASE SlotReady
  BY Zenon, <1>4 DEF SlotReady, Types, MutexInv, Goto, wait
<1>5. CASE WritePtr
  BY Zenon, <1>5 DEF WritePtr, Types, MutexInv, Goto, wait
<1>6. CASE WriteSeq
  BY Zenon, <1>6 DEF WriteSeq, Types, MutexInv, Goto, wait
<1>7. CASE WriteHead
  BY Zenon, <1>7 DEF WriteHead, Types, MutexInv, Goto, wait
<1>8. CASE NotifyLock
  BY Zenon, <1>8, NoneFact DEF NotifyLock, Types, MutexInv, Goto, wait
<1>9. CASE Broadcast
  BY Zenon, <1>9 DEF Broadcast, Types, MutexInv, Goto, wait
<1>10. ASSUME NEW t \in Threads, ScanTail(t) PROVE MutexInv'
  BY Zenon, <1>10 DEF ScanTail, Types, MutexInv, Goto, wait
<1>11. ASSUME NEW t \in Threads, StoreMin(t) PROVE MutexInv'
  BY Zenon, <1>11 DEF StoreMin, Types, MutexInv, Goto, wait
<1>12. ASSUME NEW c \in Readers, Register(c) PROVE MutexInv'
  BY Zenon, <1>12 DEF Register, Types, MutexInv, Goto, wait
<1>13. ASSUME NEW c \in Readers, Dequeue(c) PROVE MutexInv'
  BY Zenon, <1>13 DEF Dequeue, Types, MutexInv, Goto, wait
<1>14. ASSUME NEW c \in Readers, Check(c) PROVE MutexInv'
  BY Zenon, <1>14 DEF Check, Types, MutexInv, Goto, wait
<1>15. ASSUME NEW c \in Readers, ReadPtr(c) PROVE MutexInv'
  BY Zenon, <1>15 DEF ReadPtr, Types, MutexInv, Goto, wait
<1>16. ASSUME NEW c \in Readers, StoreTail(c) PROVE MutexInv'
  BY Zenon, <1>16 DEF StoreTail, Types, MutexInv, Goto, wait
<1>17. ASSUME NEW c \in Readers, Refresh(c) PROVE MutexInv'
  BY Zenon, <1>17 DEF Refresh, Types, MutexInv, Goto, wait
<1>18. ASSUME NEW c \in Readers, Wait(c) PROVE MutexInv'
  BY Zenon, <1>18 DEF Wait, Types, MutexInv, Goto, wait
<1>19. ASSUME NEW c \in Readers, WaitLock(c) PROVE MutexInv'
  BY Zenon, <1>19, NoneFact DEF WaitLock, Types, MutexInv, Goto, wait
<1>20. ASSUME NEW c \in Readers, WaitTest(c) PROVE MutexInv'
  BY Zenon, <1>20 DEF WaitTest, Types, MutexInv, Goto, wait
<1>21. ASSUME NEW c \in Readers, WaitSleep(c) PROVE MutexInv'
  BY Zenon, <1>21 DEF WaitSleep, Types, MutexInv, Goto, wait
<1>22. ASSUME NEW c \in Readers, SpuriousWakeup(c) PROVE MutexInv'
  BY Zenon, <1>22 DEF SpuriousWakeup, Types, MutexInv, Goto, wait
<1>23. CASE UNCHANGED vars
  BY Zenon, <1>23 DEF vars, Types, MutexInv, Goto, wait
<1> QED
  BY Zenon, <1>1, <1>2, <1>3, <1>4, <1>5, <1>6, <1>7, <1>8, <1>9, <1>10, <1>11, <1>12, <1>13, <1>14,
     <1>15, <1>16, <1>17, <1>18, <1>19, <1>20, <1>21, <1>22, <1>23, ThreadFacts
     DEF Next, ProducerStep, ConsumerStep

(* A record published after a consumer's test is followed by a broadcast   *)
(* that waits for the mutex, so the consumer is asleep by then and woken.  *)
LEMMA NextSleep == NotifyBatch = 1 /\ MinInv /\ MutexInv /\ SleepInv /\ NoLostWakeup /\ [Next]_vars
        => SleepInv' /\ NoLostWakeup'
<1> SUFFICES ASSUME NotifyBatch = 1, MinInv, MutexInv, SleepInv, NoLostWakeup, [Next]_vars
             PROVE  SleepInv' /\ NoLostWakeup'
  OBVIOUS
<1> USE ThreadFacts, MarketRingAssumption DEF MinInv
<1>1. CASE Enqueue
  BY Zenon, <1>1 DEF Enqueue, Types, MutexInv, SleepInv, NoLostWakeup, Enough, ring, wait, Goto
<1>2. CASE SpaceFound
  BY Zenon, <1>2 DEF SpaceFound, Types, MutexInv, SleepInv, NoLostWakeup, Enough, ring, wait, Goto
<1>3. CASE Rescan
  BY Zenon, <1>3 DEF Rescan, Types, MutexInv, SleepInv, NoLostWakeup, Enough, ring, wait, Goto
<1>4. CASE SlotReady
  BY Zenon, <1>4 DEF SlotReady, Types, MutexInv, SleepInv, NoLostWakeup, Enough, ring, wait, Goto
<1>5. CASE WritePtr
  BY Zenon, <1>5 DEF WritePtr, Types, MutexInv, SleepInv, NoLostWakeup, Enough, ring, wait, Goto
<1>6. CASE WriteSeq
  BY Zenon, <1>6 DEF WriteSeq, Types, MutexInv, SleepInv, NoLostWakeup, Enough, ring, wait, Goto
<1>7. CASE WriteHead
  BY <1>7 DEF WriteHead, Types, MutexInv, SleepInv, NoLostWakeup, Enough, ring, wait, Goto
<1>8. CASE NotifyLock
  BY Zenon, <1>8, NoneFact DEF NotifyLock, Types, MutexInv, SleepInv, NoLostWakeup, Enough, ring, wait, Goto
<1>9. CASE Broadcast
  BY Zenon, <1>9 DEF Broadcast, Types, MutexInv, SleepInv, NoLostWakeup, Enough, ring, wait, Goto
<1>10. ASSUME NEW t \in Threads, ScanTail(t) PROVE SleepInv' /\ NoLostWakeup'
  BY Zenon, <1>10 DEF ScanTail, Types, MutexInv, SleepInv, NoLostWakeup, Enough, ring, wait, Goto
<1>11. ASSUME NEW t \in Threads, StoreMin(t) PROVE SleepInv' /\ NoLostWakeup'
  BY Zenon, <1>11 DEF StoreMin, Types, MutexInv, SleepInv, NoLostWakeup, Enough, ring, wait, Goto
<1>12. ASSUME NEW c \in Readers, Register(c) PROVE SleepInv' /\ NoLostWakeup'
  BY Zenon, <1>12 DEF Register, Types, MutexInv, SleepInv, NoLostWakeup, Enough, ring, wait, Goto
<1>13. ASSUME NEW c \in Readers, Dequeue(c) PROVE SleepInv' /\ NoLostWakeup'
  BY Zenon, <1>13 DEF Dequeue, Types, MutexInv, SleepInv, NoLostWakeup, Enough, ring, wait, Goto
<1>14. ASSUME NEW c \in Readers, Check(c) PROVE SleepInv' /\ NoLostWakeup'
  BY Zenon, <1>14 DEF Check, Types, MutexInv, SleepInv, NoLostWakeup, Enough, ring, wait, Goto
<1>15. ASSUME NEW c \in Readers, ReadPtr(c) PROVE SleepInv' /\ NoLostWakeup'
  BY Zenon, <1>15 DEF ReadPtr, Types, MutexInv, SleepInv, NoLostWakeup, Enough, ring, wait, Goto
<1>16. ASSUME NEW c \in Readers, StoreTail(c) PROVE SleepInv' /\ NoLostWakeup'
  BY Zenon, <1>16 DEF StoreTail, Types, MutexInv, SleepInv, NoLostWakeup, Enough, ring, wait, Goto
<1>17. ASSUME NEW c \in Readers, Refresh(c) PROVE SleepInv' /\ NoLostWakeup'
  BY Zenon, <1>17 DEF Refresh, Types, MutexInv, SleepInv, NoLostWakeup, Enough, ring, wait, Goto
<1>18. ASSUME NEW c \in Readers, Wait(c) PROVE SleepInv' /\ NoLostWakeup'
  BY Zenon, <1>18 DEF Wait, Types, MutexInv, SleepInv, NoLostWakeup, Enough, ring, wait, Goto
<1>19. ASSUME NEW c \in Readers, WaitLock(c) PROVE SleepInv' /\ NoLostWakeup'
  BY Zenon, <1>19 DEF WaitLock, Types, MutexInv, SleepInv, NoLostWakeup, Enough, ring, wait, Goto
<1>20. ASSUME NEW c \in Readers, WaitTest(c) PROVE SleepInv' /\ NoLostWakeup'
<2>1. /\ pc'[c] = "idle" \/ (pc'[c] = "sleep" /\ ~Enough(c))
      /\ head' = head /\ tails' = tails /\ sleeping' = sleeping
      /\ pc'[Producer] = pc[Producer] /\ \A r \in Readers : r # c => pc'[r] = pc[r]
  BY Zenon, <1>20 DEF WaitTest, Types, Enough, ring, Goto
<2>2. SleepInv'
  BY Zenon, <2>1 DEF SleepInv, Enough
<2>3. NoLostWakeup'
  BY Zenon, <2>1 DEF NoLostWakeup
<2> QED BY Zenon, <2>2, <2>3
<1>21. ASSUME NEW c \in Readers, WaitSleep(c) PROVE SleepInv' /\ NoLostWakeup'
  BY Zenon, <1>21 DEF WaitSleep, Types, MutexInv, SleepInv, NoLostWakeup, Enough, ring, wait, Goto
<1>22. ASSUME NEW c \in Readers, SpuriousWakeup(c) PROVE SleepInv' /\ NoLostWakeup'
  BY Zenon, <1>22 DEF SpuriousWakeup, Types, MutexInv, SleepInv, NoLostWakeup, Enough, ring, wait, Goto
<1>23. CASE UNCHANGED vars
  BY Zenon, <1>23 DEF vars, Types, MutexInv, SleepInv, NoLostWakeup, Enough, ring, wait, Goto
<1> QED
  BY Zenon, <1>1, <1>2, <1>3, <1>4, <1>5, <1>6, <1>7, <1>8, <1>9, <1>10, <1>11, <1>12, <1>13, <1>14,
     <1>15, <1>16, <1>17, <1>18, <1>19, <1>20, <1>21, <1>22, <1>23, ThreadFacts
     DEF Next, ProducerStep, ConsumerStep

(* With a broadcast after every record no consumer sleeps in               *)
(* om_market_ring_wait on min_batch records that are already in the ring,  *)
(* unless the producer is on its way to wake it.  For every number of      *)
(* consumers, capacity, min_batch and batch size.                          *)
THEOREM NoWakeupLost == NotifyBatch = 1 => (Spec => []NoLostWakeup)
<1> SUFFICES ASSUME NotifyBatch = 1 PROVE Spec => []NoLostWakeup
  OBVIOUS
<1> DEFINE I == MinInv /\ MutexInv /\ SleepInv /\ NoLostWakeup
<1>1. Init => I
  <2>1. Init => MutexInv /\ SleepInv /\ NoLostWakeup
    BY Zenon, ThreadFacts DEF Init, MutexInv, SleepInv, NoLostWakeup
  <2> QED BY Zenon, <2>1, InitMin
<1>2. I /\ [Next]_vars => I'
  <2>1. MinInv => Types
    BY Zenon DEF MinInv
  <2> QED BY Zenon, <2>1, NextMin, NextMutex, NextSleep
<1>3. I => NoLostWakeup
  OBVIOUS
<1> HIDE DEF I
<1> QED BY <1>1, <1>2, <1>3, PTL DEF Spec

=============================================================================
