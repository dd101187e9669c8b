-------------------------- MODULE BusShm_producer ---------------------------
(***************************************************************************)
(* Facts about the types and the ring index; the steps of the producer in  *)
(* terms of the fields they change, and that they keep the invariant.      *)
(***************************************************************************)
EXTENDS BusShm_inv, TLAPS

(* What the assumptions say of the constants, and of the endpoints'        *)
(* indices.                                                                *)
LEMMA Constants ==
    /\ Consumers \in Nat \ {0} /\ Capacity \in Nat \ {0} /\ MaxSeq \in Nat \ {0}
    /\ MaxEpoch \in Nat \ {0}
    /\ \A c \in Readers : c \in Nat /\ c < Consumers
    /\ \A i \in Nat : i < Consumers => i \in Readers
  BY BusShmAssumption DEF Readers

(* The fields of a stream's configuration.                                 *)
LEMMA ProfileType ==
    ASSUME NEW p \in Profiles
    PROVE  /\ p.broadcast \in BOOLEAN /\ p.crc \in BOOLEAN /\ p.staleness \in BOOLEAN
           /\ p.reject \in BOOLEAN /\ p.batch \in Nat \ {0} /\ p.records \in 0 .. MaxSeq
  BY Zenon, BusShmAssumption

(* The fields of an endpoint, a tail, a slot and the last record.          *)
LEMMA EpFields ==
    ASSUME NEW e \in EpType
    PROVE  /\ e.pc \in EpPc /\ e.op \in {"poll", "poll_batch"} /\ e.epoch \in 0 .. MaxEpoch
           /\ e.expected \in 0 .. MaxSeq + 1 /\ e.tail \in Seqs /\ e.seq \in Nat /\ e.hdr \in Seqs
           /\ e.crc \in Seqs /\ e.copy \in Seqs /\ e.count \in Nat /\ e.scan \in ScanType
           /\ e.back \in BackType /\ e.lapped \in BOOLEAN /\ Position(e) \in Nat
  BY DEF EpType, Position, Seqs

(* The fields of an endpoint's tail entry in the shared mapping.           *)
LEMMA TailFields ==
    ASSUME NEW t \in TailType
    PROVE  t.tail \in Seqs /\ t.wal_seq \in Seqs /\ t.live \in BOOLEAN /\ t.stale \in BOOLEAN
  BY Zenon DEF TailType

(* pos & (capacity - 1) is the index of a slot.                            *)
LEMMA IndexType == \A p \in Nat : Index(p) \in SlotIndex
  BY Constants DEF Index, SlotIndex

(* The fields of the producer's state.                                     *)
LEMMA ProdFields ==
    ASSUME Types
    PROVE  /\ prod.pc \in Busy \cup {"idle", "head", "down", "create", "tails"}
           /\ prod.pos \in Seqs /\ prod.left \in Nat /\ prod.chunk \in Int /\ prod.scan \in ScanType
           /\ prod \in ProdType /\ N \in Nat
  BY DEF Types, ProdType, N

-----------------------------------------------------------------------------
(* Arithmetic of the ring index.                                           *)

(* pos / capacity and pos % capacity.                                      *)
LEMMA DivMod ==
    \A a \in Nat : /\ a % Capacity \in SlotIndex
                   /\ a \div Capacity \in Nat
                   /\ a = Capacity * (a \div Capacity) + (a % Capacity)
  BY Constants DEF SlotIndex

(* A nonzero multiple of the capacity is at least the capacity away from   *)
(* zero.                                                                   *)
LEMMA MultipleOfCapacity ==
    \A k \in Int : /\ Capacity * k \in Int
                   /\ k >= 0 => Capacity * k >= 0
                   /\ k >= 1 => Capacity * k >= Capacity
                   /\ k <= -1 => Capacity * k <= -Capacity
  BY Constants

(* Multiplying by the capacity distributes over a difference.              *)
LEMMA DistributeCapacity ==
    \A j, k \in Int : Capacity * (j - k) = Capacity * j - Capacity * k
  BY Constants

(* A position is never below the index of its slot.                        *)
LEMMA IndexSmall == \A a \in Nat : Index(a) <= a
<1> SUFFICES ASSUME NEW a \in Nat PROVE Index(a) <= a
  OBVIOUS
<1> DEFINE q == a \div Capacity
<1>1. a = Capacity * q + Index(a) /\ q \in Nat /\ Index(a) \in Int
  BY DivMod, IndexType, Constants DEF Index, SlotIndex
<1> HIDE DEF q
<1>2. Capacity * q >= 0 /\ Capacity * q \in Int
  BY <1>1, MultipleOfCapacity
<1> QED BY <1>1, <1>2

(* A later position in the same slot is at least a lap later.              *)
LEMMA IndexLap ==
    ASSUME NEW a \in Nat, NEW b \in Nat, Index(a) = Index(b), a < b
    PROVE  b >= a + Capacity
<1> DEFINE q == a \div Capacity
           r == b \div Capacity
           s == a % Capacity
<1>1. a = Capacity * q + s /\ q \in Int /\ s \in Int
  BY DivMod, Constants DEF SlotIndex
<1>2. b = Capacity * r + s /\ r \in Int
  BY DivMod DEF Index
<1> HIDE DEF q, r, s
<1>3. Capacity * (r - q) = Capacity * r - Capacity * q
  BY Zenon, DistributeCapacity, <1>1, <1>2
<1>4. Capacity * (r - q) = b - a
  BY <1>1, <1>2, <1>3, MultipleOfCapacity
<1>5. r - q \in Int
  BY <1>1, <1>2
<1>6. ~(r - q <= -1) /\ r - q # 0
  BY <1>4, <1>5, MultipleOfCapacity, Constants
<1>7. r - q >= 1
  BY <1>5, <1>6
<1>8. Capacity * (r - q) >= Capacity
  BY Zenon, <1>5, <1>7, MultipleOfCapacity
<1> QED BY <1>4, <1>8, Constants

(* A sequence word that fits a position names a record of this stream.     *)
LEMMA SeqHit ==
    ASSUME Types, ProdInv, SeqInv, NEW p \in Nat, slots[Index(p)].seq = p + 1
    PROVE  p < N /\ p < MaxSeq
<1>1. Index(p) \in SlotIndex /\ Index(p) <= p /\ Index(p) \in Int
  BY IndexType, IndexSmall, Constants DEF SlotIndex
<1>2. p + 1 <= N
  BY <1>1 DEF SeqInv
<1>3. N < next_seq /\ next_seq \in 1 .. MaxSeq + 1 /\ N \in Nat
  BY Zenon, ProdFields DEF ProdInv, Types
<1> QED BY <1>2, <1>3, Constants

(* The fields of the last record handed out.                               *)
LEMMA HandFields ==
    ASSUME NEW h \in HandType
    PROVE  h.seq \in Seqs /\ h.payload \in Seqs /\ h.pos \in -1 .. MaxSeq /\ h.prev \in Seqs
  BY Zenon DEF HandType

(* What the invariant says of one endpoint.                                *)
LEMMA BaseFacts ==
    ASSUME BaseInv, NEW c \in Readers
    PROVE  /\ Types /\ ProdInv /\ SeqInv /\ EpBound(c) /\ EpochInv(c) /\ CallInv(c)
           /\ ep[c] \in EpType /\ handed[c] \in HandType /\ tails[c] \in TailType
           /\ Position(ep[c]) \in Nat /\ N \in Nat /\ slots \in [SlotIndex -> SlotType]
           /\ stream \in Seq(Seqs) /\ epoch \in Nat /\ MaxSeq \in Nat
<1>1. Types /\ ProdInv /\ SeqInv /\ EpBound(c) /\ EpochInv(c) /\ CallInv(c)
  BY Zenon DEF BaseInv, EpInv
<1>2. /\ ep[c] \in EpType /\ handed[c] \in HandType /\ tails[c] \in TailType
      /\ stream \in Seq(Seqs) /\ slots \in [SlotIndex -> SlotType] /\ epoch \in Nat
  BY <1>1, Constants DEF Types
<1> QED BY Zenon, <1>1, <1>2, EpFields, ProdFields, Constants

-----------------------------------------------------------------------------
(* What a step of the producer does.                                       *)
Quiet == UNCHANGED <<profile, ep, handed>>
Ring  == UNCHANGED <<slots, head, stream, epoch>>
Goes(pc) == prod'.pc = pc /\ prod'.pos = prod.pos /\ prod'.left = prod.left
PublishView ==
    /\ prod.pc = "idle" /\ prod'.pc = (IF profile.broadcast THEN "invalidate" ELSE "space")
    /\ prod'.pos = head /\ prod'.left \in 1 .. Capacity + 1
    /\ next_seq + prod'.left - 1 <= profile.records
    /\ Ring /\ Mins /\ UNCHANGED <<next_seq, tails>>
TooLargeView ==
    /\ prod.pc = "idle" /\ prod' = prod /\ next_seq <= profile.records /\ next_seq' = next_seq + 1
    /\ Ring /\ Mins /\ UNCHANGED tails
FullView ==
    /\ prod.pc = "space" /\ Full(prod.pos, min_tail) /\ Goes("scan") /\ prod'.scan = NoScan
    /\ Ring /\ Mins /\ UNCHANGED <<next_seq, tails>>
SpaceView ==
    /\ prod.pc = "space" /\ ~Full(prod.pos, min_tail) /\ Goes("payload")
    /\ LET room == Capacity - (prod.pos - min_tail)
       IN  prod'.chunk = IF prod.left > room THEN room ELSE prod.left
    /\ Ring /\ Mins /\ UNCHANGED <<next_seq, tails>>
ScanTailView ==
    /\ prod.pc = "scan" /\ prod.scan.next < Consumers /\ Goes("scan")
    /\ prod'.scan = ScanNext(prod.scan, Consumers) /\ overtaken' = overtaken \cup Skips(prod.scan, Consumers)
    /\ Ring /\ UNCHANGED <<min_tail, next_seq, tails>>
StoreMinView ==
    /\ prod.pc = "scan" /\ prod.scan.next = Consumers /\ Goes("space")
    /\ min_tail' = ScanResult(prod.scan, prod.pos)
    /\ Ring /\ UNCHANGED <<overtaken, next_seq, tails>>
InvalidateView ==
    /\ prod.pc = "invalidate" /\ Goes("payload")
    /\ slots' = [slots EXCEPT ![Index(prod.pos)].seq = 0]
    /\ Mins /\ UNCHANGED <<head, stream, epoch, next_seq, tails>>
WritePayloadView ==
    /\ prod.pc = "payload" /\ Goes("header") /\ prod'.chunk = prod.chunk
    /\ slots' = [slots EXCEPT ![Index(prod.pos)].payload = next_seq]
    /\ Mins /\ UNCHANGED <<head, stream, epoch, next_seq, tails>>
WriteHeaderView ==
    /\ prod.pc = "header" /\ Goes("seq") /\ prod'.chunk = prod.chunk
    /\ slots' = [slots EXCEPT ![Index(prod.pos)].hdr = next_seq, ![Index(prod.pos)].crc = next_seq]
    /\ Mins /\ UNCHANGED <<head, stream, epoch, next_seq, tails>>
StoreSeqView ==
    /\ prod.pc = "seq" /\ prod'.pos = prod.pos + 1 /\ prod'.left = prod.left - 1
    /\ prod'.chunk = prod.chunk - 1
    /\ prod'.pc = IF prod.left = 1 THEN "head" ELSE IF profile.broadcast THEN "invalidate"
                  ELSE IF prod.chunk = 1 THEN "space" ELSE "payload"
    /\ slots' = [slots EXCEPT ![Index(prod.pos)].seq = prod.pos + 1]
    /\ stream' = Append(stream, next_seq) /\ next_seq' = next_seq + 1
    /\ Mins /\ UNCHANGED <<head, epoch, tails>>
StoreHeadView ==
    /\ prod.pc = "head" /\ Goes("idle") /\ head' = prod.pos
    /\ Mins /\ UNCHANGED <<slots, stream, epoch, next_seq, tails>>
DiesView ==
    /\ prod.pc \notin {"down", "create", "tails"} /\ prod'.pc = "down" /\ prod'.left = 0
    /\ epoch < MaxEpoch /\ Ring /\ Mins /\ UNCHANGED <<next_seq, tails>>
WipeView ==
    /\ prod.pc = "down" /\ prod'.pc = "create" /\ prod'.left = epoch
    /\ \A i \in SlotIndex : slots'[i].seq = 0
    /\ head' = 0 /\ min_tail' = 0 /\ epoch' = 0 /\ UNCHANGED <<overtaken, stream, next_seq>>
CreateHeaderView ==
    /\ prod.pc = "create" /\ prod'.pc = "tails" /\ prod'.left = 0
    /\ head' = 0 /\ min_tail' = 0 /\ epoch' = prod.left + 1 /\ stream' = << >>
    /\ UNCHANGED <<slots, overtaken, next_seq, tails>>
CreateTailsView ==
    /\ prod.pc = "tails" /\ prod'.pc = "idle" /\ prod'.left = 0
    /\ \A i \in SlotIndex : slots'[i].seq = i
    /\ \A c \in Readers : tails'[c].tail = 0 /\ (tails[c].live => c \in overtaken')
    /\ overtaken \subseteq overtaken' /\ UNCHANGED <<head, min_tail, epoch, stream, next_seq>>
ProdView ==
    \/ PublishView \/ TooLargeView \/ FullView \/ SpaceView \/ ScanTailView \/ StoreMinView
    \/ InvalidateView \/ WritePayloadView \/ WriteHeaderView \/ StoreSeqView \/ StoreHeadView
    \/ DiesView \/ WipeView \/ CreateHeaderView \/ CreateTailsView

(* The steps in these terms, with what they do to stray.                   *)
ProdStep ==
    /\ ProdView /\ RingTypes' /\ Quiet /\ quiet' = quiet
    /\ stray' = (stray /\ prod.pc # "create")

(* Which steps of the producer touch the epoch, the stream and the slots.  *)
ProdShape ==
    /\ overtaken \subseteq overtaken'
    /\ \/ WipeView \/ CreateHeaderView
       \/ /\ epoch' = epoch /\ prod.pc \notin {"down", "create"}
          /\ stream' = stream \/ stream' = Append(stream, next_seq)
          /\ \/ prod.pc = "tails" \/ slots' = slots
             \/ /\ prod.pc \in Busy
                /\ \/ slots' = [slots EXCEPT ![Index(prod.pos)].seq = 0]
                   \/ slots' = [slots EXCEPT ![Index(prod.pos)].payload = next_seq]
                   \/ slots' = [slots EXCEPT ![Index(prod.pos)].hdr = next_seq,
                                             ![Index(prod.pos)].crc = next_seq]
                   \/ slots' = [slots EXCEPT ![Index(prod.pos)].seq = prod.pos + 1]

(* Each step of the producer keeps or changes the records and positions as *)
(* ProdShape lists.                                                        *)
LEMMA ProdShapes ==
    ASSUME ProdView
    PROVE  ProdShape
<1>1. CASE PublishView
  BY Zenon, <1>1 DEF ProdShape, Busy, PublishView, Ring, Mins
<1>2. CASE TooLargeView
  BY Zenon, <1>2 DEF ProdShape, Busy, TooLargeView, Ring, Mins
<1>3. CASE FullView
  BY Zenon, <1>3 DEF ProdShape, Busy, FullView, Ring, Mins
<1>4. CASE SpaceView
  BY Zenon, <1>4 DEF ProdShape, Busy, SpaceView, Ring, Mins
<1>5. CASE ScanTailView
  BY Zenon, <1>5 DEF ProdShape, Busy, ScanTailView, Ring
<1>6. CASE StoreMinView
  BY Zenon, <1>6 DEF ProdShape, Busy, StoreMinView, Ring
<1>7. CASE InvalidateView
  BY Zenon, <1>7 DEF ProdShape, Busy, InvalidateView, Mins
<1>8. CASE WritePayloadView
  BY Zenon, <1>8 DEF ProdShape, Busy, WritePayloadView, Mins
<1>9. CASE WriteHeaderView
  BY Zenon, <1>9 DEF ProdShape, Busy, WriteHeaderView, Mins
<1>10. CASE StoreSeqView
  BY Zenon, <1>10 DEF ProdShape, Busy, StoreSeqView, Mins
<1>11. CASE StoreHeadView
  BY Zenon, <1>11 DEF ProdShape, Busy, StoreHeadView, Mins
<1>12. CASE DiesView
  BY Zenon, <1>12 DEF ProdShape, Busy, DiesView, Ring, Mins
<1>13. CASE WipeView
  BY Zenon, <1>13 DEF ProdShape, Busy, WipeView
<1>14. CASE CreateHeaderView
  BY Zenon, <1>14 DEF ProdShape, Busy, CreateHeaderView
<1>15. CASE CreateTailsView
  BY Zenon, <1>15 DEF ProdShape, Busy, CreateTailsView
<1> QED BY Zenon, <1>1, <1>2, <1>3, <1>4, <1>5, <1>6, <1>7, <1>8, <1>9, <1>10, <1>11, <1>12, <1>13, <1>14, <1>15 DEF ProdView

-----------------------------------------------------------------------------
(* The slots after one of their fields was stored.                         *)
LEMMA SlotStore ==
    ASSUME slots \in [SlotIndex -> SlotType], NEW i \in SlotIndex, NEW x
    PROVE  /\ slots' = [slots EXCEPT ![i].seq = x] =>
                /\ \A j \in SlotIndex \ {i} : slots'[j] = slots[j]
                /\ slots'[i].seq = x /\ slots'[i].hdr = slots[i].hdr
                /\ slots'[i].crc = slots[i].crc /\ slots'[i].payload = slots[i].payload
           /\ slots' = [slots EXCEPT ![i].payload = x] =>
                /\ \A j \in SlotIndex \ {i} : slots'[j] = slots[j]
                /\ slots'[i].seq = slots[i].seq /\ slots'[i].payload = x
           /\ slots' = [slots EXCEPT ![i].hdr = x, ![i].crc = x] =>
                /\ \A j \in SlotIndex \ {i} : slots'[j] = slots[j]
                /\ slots'[i].seq = slots[i].seq /\ slots'[i].hdr = x /\ slots'[i].crc = x
                /\ slots'[i].payload = slots[i].payload
  BY DEF SlotType

(* A step of the producer keeps the invariant of the stream and the calls. *)
LEMMA ProducerBase ==
    ASSUME BaseInv, ProdStep
    PROVE  BaseInv'
<1>1. ProdView /\ RingTypes' /\ Quiet /\ quiet' = quiet
  BY Zenon DEF ProdStep
<1>0. stray' \in BOOLEAN
  BY Zenon DEF ProdStep
<1>2. Types'
  BY Zenon, <1>0, <1>1 DEF BaseInv, Types, RingTypes, Quiet
<1>3. /\ ProdInv /\ SeqInv /\ N \in Nat /\ next_seq \in Nat /\ head \in Nat
      /\ profile.records \in Nat /\ profile' = profile /\ ep' = ep /\ Capacity \in Nat \ {0}
      /\ Index(prod.pos) \in SlotIndex /\ slots \in [SlotIndex -> SlotType]
      /\ epoch \in 0 .. MaxEpoch /\ MaxEpoch \in Nat /\ prod.left \in Nat /\ stream \in Seq(Seqs)
      /\ \A c \in Readers : EpInv(c)
  BY <1>1, ProdFields, Constants, ProfileType, IndexType DEF BaseInv, Types, Seqs, Quiet
<1>s. ASSUME NEW x
      PROVE  \/ slots' = [slots EXCEPT ![Index(prod.pos)].seq = 0]
             \/ slots' = [slots EXCEPT ![Index(prod.pos)].payload = x]
             \/ slots' = [slots EXCEPT ![Index(prod.pos)].hdr = x, ![Index(prod.pos)].crc = x]
             => \A i \in SlotIndex : slots'[i].seq \in {slots[i].seq, 0}
  <2>1. PICK i : i = Index(prod.pos)
    OBVIOUS
  <2> QED BY <1>3, <2>1 DEF SlotType
<1>5. SUFFICES ProdInv' /\ SeqInv' /\ \A c \in Readers : EpochInv(c)'
  <2> SUFFICES ASSUME NEW c \in Readers, EpochInv(c)' PROVE EpInv(c)'
    BY Zenon, <1>2, <1>5 DEF BaseInv
  <2>1. EpBound(c)' /\ CallInv(c)'
    BY Zenon, <1>3 DEF BaseInv, EpInv, EpBound, CallInv, Position
  <2> QED BY Zenon, <2>1 DEF EpInv
<1>6. ASSUME UNCHANGED <<epoch, stream>>, prod.pc # "create",
             \A i \in SlotIndex : slots'[i].seq \in {slots[i].seq, 0}
      PROVE  SeqInv' /\ N' = N /\ \A c \in Readers : EpochInv(c)'
  <2>1. N' = N
    BY Zenon, <1>6 DEF N
  <2>2. SeqInv'
    BY Zenon, <1>3, <1>6, <2>1 DEF SeqInv
  <2> QED BY Zenon, <1>3, <1>6, <2>1, <2>2 DEF BaseInv, EpInv, EpochInv, ProdInv
<1>w. ASSUME NEW q \in Busy \ {"invalidate"}, prod.pc \in Busy, Goes(q),
             q \in {"space", "scan"} => prod.pc \in {"space", "scan"},
             UNCHANGED <<head, next_seq, epoch>>, N' = N
      PROVE  ProdInv'
  BY Zenon, <1>3, <1>w DEF ProdInv, Goes, Busy
<1>7. CASE PublishView
  <2>1. SeqInv' /\ N' = N /\ \A c \in Readers : EpochInv(c)'
    BY Zenon, <1>6, <1>7 DEF PublishView, Ring
  <2> QED BY Zenon, <1>3, <1>7, <2>1 DEF PublishView, Ring, ProdInv, Busy
<1>8. CASE TooLargeView
  <2>1. SeqInv' /\ N' = N /\ \A c \in Readers : EpochInv(c)'
    BY Zenon, <1>6, <1>8 DEF TooLargeView, Ring
  <2> QED BY <1>3, <1>8, <2>1 DEF TooLargeView, Ring, ProdInv, Busy
<1>9. CASE FullView
  <2>1. SeqInv' /\ N' = N /\ \A c \in Readers : EpochInv(c)'
    BY Zenon, <1>6, <1>9 DEF FullView, Ring
  <2>2. "scan" \in Busy \ {"invalidate"} /\ prod.pc \in Busy /\ Goes("scan")
    BY Zenon, <1>9 DEF FullView, Busy
  <2> QED BY Zenon, <1>w, <1>9, <2>1, <2>2 DEF FullView, Ring
<1>10. CASE SpaceView
  <2>1. SeqInv' /\ N' = N /\ \A c \in Readers : EpochInv(c)'
    BY Zenon, <1>6, <1>10 DEF SpaceView, Ring
  <2>2. "payload" \in Busy \ {"invalidate"} /\ prod.pc \in Busy /\ Goes("payload")
    BY Zenon, <1>10 DEF SpaceView, Busy
  <2> QED BY Zenon, <1>w, <1>10, <2>1, <2>2 DEF SpaceView, Ring
<1>11. CASE ScanTailView
  <2>1. SeqInv' /\ N' = N /\ \A c \in Readers : EpochInv(c)'
    BY Zenon, <1>6, <1>11 DEF ScanTailView, Ring
  <2>2. "scan" \in Busy \ {"invalidate"} /\ prod.pc \in Busy /\ Goes("scan")
    BY Zenon, <1>11 DEF ScanTailView, Busy
  <2> QED BY Zenon, <1>w, <1>11, <2>1, <2>2 DEF ScanTailView, Ring
<1>12. CASE StoreMinView
  <2>1. SeqInv' /\ N' = N /\ \A c \in Readers : EpochInv(c)'
    BY Zenon, <1>6, <1>12 DEF StoreMinView, Ring
  <2>2. "space" \in Busy \ {"invalidate"} /\ prod.pc \in Busy /\ Goes("space")
    BY Zenon, <1>12 DEF StoreMinView, Busy
  <2> QED BY Zenon, <1>w, <1>12, <2>1, <2>2 DEF StoreMinView, Ring
<1>13. CASE InvalidateView
  <2>1. \A i \in SlotIndex : slots'[i].seq \in {slots[i].seq, 0}
    BY Zenon, <1>s, <1>13 DEF InvalidateView
  <2>2. SeqInv' /\ N' = N /\ \A c \in Readers : EpochInv(c)'
    BY Zenon, <1>6, <1>13, <2>1 DEF InvalidateView
  <2>3. "payload" \in Busy \ {"invalidate"} /\ prod.pc \in Busy /\ Goes("payload")
    BY Zenon, <1>13 DEF InvalidateView, Busy
  <2> QED BY Zenon, <1>w, <1>13, <2>2, <2>3 DEF InvalidateView
<1>14. CASE WritePayloadView
  <2>1. \A i \in SlotIndex : slots'[i].seq \in {slots[i].seq, 0}
    BY Zenon, <1>s, <1>14 DEF WritePayloadView
  <2>2. SeqInv' /\ N' = N /\ \A c \in Readers : EpochInv(c)'
    BY Zenon, <1>6, <1>14, <2>1 DEF WritePayloadView
  <2>3. "header" \in Busy \ {"invalidate"} /\ prod.pc \in Busy /\ Goes("header")
    BY Zenon, <1>14 DEF WritePayloadView, Busy
  <2> QED BY Zenon, <1>w, <1>14, <2>2, <2>3 DEF WritePayloadView
<1>15. CASE WriteHeaderView
  <2>1. \A i \in SlotIndex : slots'[i].seq \in {slots[i].seq, 0}
    BY Zenon, <1>s, <1>15 DEF WriteHeaderView
  <2>2. SeqInv' /\ N' = N /\ \A c \in Readers : EpochInv(c)'
    BY Zenon, <1>6, <1>15, <2>1 DEF WriteHeaderView
  <2>3. "seq" \in Busy \ {"invalidate"} /\ prod.pc \in Busy /\ Goes("seq")
    BY Zenon, <1>15 DEF WriteHeaderView, Busy
  <2> QED BY Zenon, <1>w, <1>15, <2>2, <2>3 DEF WriteHeaderView
<1>16. CASE StoreSeqView
  <2>1. N' = N + 1
    BY <1>3, <1>16 DEF StoreSeqView, N, Types
  <2>2. prod.pos = N /\ prod.left \in 1 .. Capacity + 1
    BY Zenon, <1>3, <1>16 DEF StoreSeqView, ProdInv, Busy
  <2>x. PICK x : x = prod.pos + 1
    OBVIOUS
  <2>y. slots' = [slots EXCEPT ![Index(prod.pos)].seq = x]
    BY Zenon, <1>16, <2>x DEF StoreSeqView
  <2>z. /\ \A j \in SlotIndex \ {Index(prod.pos)} : slots'[j] = slots[j]
        /\ slots'[Index(prod.pos)].seq = x
    BY Zenon, <1>3, <2>y, SlotStore
  <2>3. SeqInv'
    <3> SUFFICES ASSUME NEW j \in SlotIndex
                 PROVE  slots'[j].seq \in {0, j} \/ (slots'[j].seq <= N + 1 /\ Index(slots'[j].seq - 1) = j)
      BY Zenon, <2>1 DEF SeqInv, Index
    <3>1. CASE j = Index(prod.pos)
      <4>1. slots'[j].seq = N + 1
        BY Zenon, <2>2, <2>x, <2>z, <3>1
      <4> QED BY <1>3, <2>2, <3>1, <4>1
    <3>2. CASE j # Index(prod.pos)
      <4>1. slots'[j] = slots[j] /\ slots[j].seq \in Int
        BY <1>3, <2>z, <3>2, Constants DEF SlotType
      <4> QED BY <1>3, <4>1 DEF SeqInv
    <3> QED BY Zenon, <3>1, <3>2
  <2>4. \A c \in Readers : EpochInv(c)'
    BY Zenon, <1>3, <1>16 DEF StoreSeqView, BaseInv, EpInv, EpochInv, ProdInv
  <2>5. ProdInv'
    <3>1. prod'.pc \in {"head", "invalidate", "space", "payload"} /\ epoch # 0
      BY Zenon, <1>3, <1>16 DEF StoreSeqView, ProdInv
    <3>2. head' <= N' /\ N' < next_seq' /\ prod'.pos = N'
      <4>1. head <= N /\ N < next_seq /\ head \in Int
        BY <1>3, Constants DEF ProdInv, Types, Seqs
      <4>2. head' = head /\ next_seq' = next_seq + 1 /\ prod'.pos = prod.pos + 1
        BY Zenon, <1>16 DEF StoreSeqView
      <4> QED BY <1>3, <2>1, <2>2, <4>1, <4>2
    <3>3. prod'.pc \in Busy =>
            prod'.left \in 1 .. Capacity + 1 /\ next_seq' + prod'.left - 1 <= profile.records
      <4>1. next_seq + prod.left - 1 <= profile.records
        BY Zenon, <1>3, <1>16 DEF StoreSeqView, ProdInv, Busy
      <4>2. next_seq' = next_seq + 1 /\ prod'.left = prod.left - 1
        BY Zenon, <1>16 DEF StoreSeqView
      <4>3. prod'.pc \in Busy => prod.left # 1
        BY Zenon, <1>16 DEF StoreSeqView, Busy
      <4>4. next_seq \in Nat /\ profile.records \in Nat /\ Capacity \in Nat
        BY Zenon, <1>3
      <4> QED BY <2>2, <4>1, <4>2, <4>3, <4>4
    <3>4. prod'.pc = "head" => prod'.left = 0
      BY <1>16, <2>2 DEF StoreSeqView
    <3>5. /\ prod'.pc = "invalidate" => profile.broadcast
          /\ prod'.pc = "space" => ~profile.broadcast
      BY Zenon, <1>16 DEF StoreSeqView
    <3> QED BY Zenon, <1>3, <1>16, <3>1, <3>2, <3>3, <3>4, <3>5 DEF StoreSeqView, ProdInv, Busy
  <2> QED BY Zenon, <2>3, <2>4, <2>5
<1>17. CASE StoreHeadView
  <2>1. SeqInv' /\ N' = N /\ \A c \in Readers : EpochInv(c)'
    BY Zenon, <1>6, <1>17 DEF StoreHeadView
  <2> QED BY <1>3, <1>17, <2>1 DEF StoreHeadView, Goes, ProdInv, Busy
<1>18. CASE DiesView
  <2>1. SeqInv' /\ N' = N /\ \A c \in Readers : EpochInv(c)'
    BY Zenon, <1>6, <1>18 DEF DiesView, Ring
  <2> QED BY Zenon, <1>3, <1>18, <2>1 DEF DiesView, Ring, ProdInv, Busy
<1>19. CASE WipeView
  <2>1. N' = N
    BY Zenon, <1>19 DEF WipeView, N
  <2>2. SeqInv'
    BY Zenon, <1>19 DEF WipeView, SeqInv
  <2>3. \A c \in Readers : EpochInv(c)'
    BY Zenon, <1>3, <1>19 DEF WipeView, BaseInv, EpInv, EpochInv, ProdInv
  <2>4. epoch \in 1 .. MaxEpoch - 1
    BY <1>3, <1>19, Constants DEF WipeView, ProdInv, Types
  <2>5. ProdInv'
    BY <1>3, <1>19, <2>1, <2>4 DEF WipeView, ProdInv, Busy
  <2> QED BY Zenon, <2>2, <2>3, <2>5
<1>20. CASE CreateHeaderView
  <2>1. N' = 0
    BY Zenon, <1>20 DEF CreateHeaderView, N
  <2>2. \A i \in SlotIndex : slots'[i].seq = 0
    BY Zenon, <1>3, <1>20 DEF CreateHeaderView, ProdInv
  <2>3. SeqInv'
    BY Zenon, <2>2 DEF SeqInv
  <2>4. epoch = 0 /\ prod.left \in 1 .. MaxEpoch - 1
    BY Zenon, <1>3, <1>20 DEF CreateHeaderView, ProdInv
  <2>5. \A c \in Readers : EpochInv(c)'
    BY <1>3, <1>20, <2>4, Constants DEF CreateHeaderView, BaseInv, EpInv, EpochInv
  <2>6. ProdInv'
    BY <1>3, <1>20, <2>1, <2>2, <2>4, Constants DEF CreateHeaderView, ProdInv, Busy, Types
  <2> QED BY Zenon, <2>3, <2>5, <2>6
<1>21. CASE CreateTailsView
  <2>1. N' = N
    BY Zenon, <1>21 DEF CreateTailsView, N
  <2>2. SeqInv'
    BY Zenon, <1>21 DEF CreateTailsView, SeqInv
  <2>3. \A c \in Readers : EpochInv(c)'
    BY Zenon, <1>3, <1>21 DEF CreateTailsView, BaseInv, EpInv, EpochInv, ProdInv
  <2>4. ProdInv'
    BY Zenon, <1>3, <1>21, <2>1 DEF CreateTailsView, ProdInv, Busy
  <2> QED BY Zenon, <2>2, <2>3, <2>4
<1> QED BY Zenon, <1>1, <1>7, <1>8, <1>9, <1>10, <1>11, <1>12, <1>13, <1>14, <1>15, <1>16, <1>17, <1>18, <1>19,
           <1>20, <1>21 DEF ProdView

(* A step of the producer keeps the invariant of the slots.                *)
LEMMA SlotStep ==
    ASSUME BaseInv, ProdStep, SlotInv
    PROVE  SlotInv'
<1>1. ProdView /\ profile' = profile
  BY Zenon DEF ProdStep, Quiet
<1>2. /\ WriteInv /\ RingInv /\ N \in Nat /\ Index(N) \in SlotIndex
      /\ slots \in [SlotIndex -> SlotType] /\ stream \in Seq(Seqs)
      /\ prod.pc \in Busy \cup {"head"} => prod.pos = N
      /\ prod.pc = "tails" => N = 0
      /\ \A k \in Nat : Index(k) \in SlotIndex
  BY Zenon, ProdFields, IndexType DEF BaseInv, Types, ProdInv, SlotInv
<1>n. UNCHANGED stream => N' = N
  BY Zenon DEF N
<1>k. ASSUME UNCHANGED <<slots, stream>>, prod'.pc \notin {"payload", "header", "seq"}
      PROVE  SlotInv'
  BY Zenon, <1>1, <1>2, <1>n, <1>k DEF SlotInv, WriteInv, RingInv, Writing
<1>v. ASSUME NEW n \in Nat, N' = n, \A k \in Nat : k < n => slots'[Index(k)].seq # k + 1 PROVE RingInv'
  <2> SUFFICES ASSUME NEW k \in 0 .. n - 1 PROVE slots'[Index(k)].seq # k + 1
    BY Zenon, <1>v DEF RingInv, Index
  <2>1. k \in Nat /\ k < n
    OBVIOUS
  <2> QED BY Zenon, <1>v, <2>1
<1>3. CASE PublishView \/ TooLargeView \/ FullView \/ ScanTailView \/ StoreMinView \/ StoreHeadView \/ DiesView
  <2>1. UNCHANGED <<slots, stream>> /\ prod'.pc \notin {"payload", "header", "seq"}
    BY Zenon, <1>3 DEF PublishView, TooLargeView, FullView, ScanTailView, StoreMinView, StoreHeadView, DiesView, Ring, Goes
  <2> QED BY Zenon, <1>k, <2>1
<1>4. CASE SpaceView
  <2>1. UNCHANGED <<slots, stream>> /\ prod'.pc = "payload" /\ ~profile.broadcast
    BY Zenon, <1>4 DEF SpaceView, Ring, Goes, BaseInv, ProdInv
  <2> QED BY Zenon, <1>1, <2>1 DEF SlotInv, WriteInv, RingInv
<1>s. PICK i \in SlotIndex : i = Index(N)
  BY Zenon, <1>2
<1>w. ASSUME stream' = stream, \A j \in SlotIndex \ {i} : slots'[j] = slots[j],
             profile.broadcast => slots'[i].seq = 0
      PROVE  RingInv'
  <2> SUFFICES ASSUME profile.broadcast, NEW k \in 0 .. N - 1, slots'[Index(k)].seq = k + 1
               PROVE  slots'[Index(k)].hdr = stream[k + 1] /\ slots'[Index(k)].payload = stream[k + 1]
    BY Zenon, <1>1, <1>n, <1>w DEF RingInv, Index
  <2>1. Index(k) \in SlotIndex \ {i}
    BY <1>2, <1>w
  <2> QED BY Zenon, <1>2, <1>w, <2>1 DEF RingInv
<1>5. CASE InvalidateView
  <2>1. /\ slots' = [slots EXCEPT ![i].seq = 0] /\ stream' = stream /\ N' = N /\ prod'.pc = "payload"
    BY Zenon, <1>2, <1>n, <1>s, <1>5 DEF InvalidateView, Goes, Busy
  <2>2. /\ \A j \in SlotIndex \ {i} : slots'[j] = slots[j]
        /\ slots'[i].seq = 0
    BY Zenon, <1>2, <2>1, SlotStore
  <2>3. RingInv'
    BY Zenon, <1>w, <2>1, <2>2
  <2> QED BY Zenon, <1>s, <2>1, <2>2, <2>3 DEF SlotInv, WriteInv, Writing, Index
<1>6. CASE WritePayloadView
  <2>1. /\ slots' = [slots EXCEPT ![i].payload = next_seq] /\ stream' = stream /\ N' = N
        /\ prod.pc = "payload" /\ prod'.pc = "header" /\ next_seq' = next_seq
    BY Zenon, <1>2, <1>n, <1>s, <1>6 DEF WritePayloadView, Goes, Busy
  <2>2. /\ \A j \in SlotIndex \ {i} : slots'[j] = slots[j]
        /\ slots'[i].seq = slots[i].seq /\ slots'[i].payload = next_seq
    BY Zenon, <1>2, <2>1, SlotStore
  <2>3. profile.broadcast => slots[i].seq = 0
    BY Zenon, <1>2, <1>s, <2>1 DEF WriteInv, Writing
  <2>4. RingInv'
    BY Zenon, <1>w, <2>1, <2>2, <2>3
  <2> QED BY Zenon, <1>1, <1>s, <2>1, <2>2, <2>3, <2>4 DEF SlotInv, WriteInv, Writing, Index
<1>7. CASE WriteHeaderView
  <2>1. /\ slots' = [slots EXCEPT ![i].hdr = next_seq, ![i].crc = next_seq] /\ stream' = stream /\ N' = N
        /\ prod.pc = "header" /\ prod'.pc = "seq" /\ next_seq' = next_seq
    BY Zenon, <1>2, <1>n, <1>s, <1>7 DEF WriteHeaderView, Goes, Busy
  <2>2. /\ \A j \in SlotIndex \ {i} : slots'[j] = slots[j]
        /\ slots'[i].seq = slots[i].seq /\ slots'[i].hdr = next_seq /\ slots'[i].payload = slots[i].payload
    BY Zenon, <1>2, <2>1, SlotStore
  <2>3. /\ profile.broadcast => slots[i].seq = 0
        /\ slots[i].payload = next_seq
    BY Zenon, <1>2, <1>s, <2>1 DEF WriteInv, Writing
  <2>4. RingInv'
    BY Zenon, <1>w, <2>1, <2>2, <2>3
  <2> QED BY Zenon, <1>1, <1>s, <2>1, <2>2, <2>3, <2>4 DEF SlotInv, WriteInv, Writing, Index
<1>8. CASE StoreSeqView
  <2>x. PICK x : x = N + 1
    OBVIOUS
  <2>1. /\ slots' = [slots EXCEPT ![i].seq = x] /\ stream' = Append(stream, next_seq)
        /\ prod.pc = "seq" /\ prod'.pc \in {"head", "invalidate", "space", "payload"}
        /\ profile.broadcast => prod'.pc # "payload"
    BY Zenon, <1>2, <1>s, <1>8, <2>x DEF StoreSeqView, Busy
  <2>2. /\ \A j \in SlotIndex \ {i} : slots'[j] = slots[j]
        /\ slots'[i].seq = x /\ slots'[i].hdr = slots[i].hdr /\ slots'[i].payload = slots[i].payload
    BY Zenon, <1>2, <2>1, SlotStore
  <2>3. slots[i].hdr = next_seq /\ slots[i].payload = next_seq
    BY Zenon, <1>2, <1>s, <2>1 DEF WriteInv
  <2>4. N' = N + 1 /\ stream'[N + 1] = next_seq /\ \A k \in 0 .. N - 1 : stream'[k + 1] = stream[k + 1]
    BY <1>2, <2>1 DEF N
  <2>5. RingInv'
    <3> SUFFICES ASSUME profile.broadcast, NEW k \in 0 .. N, slots'[Index(k)].seq = k + 1
                 PROVE  slots'[Index(k)].hdr = stream'[k + 1] /\ slots'[Index(k)].payload = stream'[k + 1]
      BY <1>1, <1>2, <2>4 DEF RingInv, Index
    <3>1. CASE k = N
      BY Zenon, <1>s, <2>2, <2>3, <2>4, <3>1
    <3>2. CASE k # N
      <4>1. k \in 0 .. N - 1 /\ Index(k) \in SlotIndex \ {i}
        BY <1>2, <2>2, <2>x, <3>2
      <4> QED BY Zenon, <1>2, <2>2, <2>4, <4>1 DEF RingInv
    <3> QED BY Zenon, <3>1, <3>2
  <2> QED BY Zenon, <1>1, <2>1, <2>5 DEF SlotInv, WriteInv, Writing
<1>9. CASE WipeView
  <2>1. prod'.pc = "create" /\ N' = N /\ \A k \in Nat : slots'[Index(k)].seq = 0
    BY Zenon, <1>2, <1>n, <1>9 DEF WipeView
  <2> QED BY <1>2, <1>v, <2>1 DEF SlotInv, WriteInv, Writing
<1>10. CASE CreateHeaderView
  <2>1. prod'.pc = "tails" /\ N' = 0
    BY Zenon, <1>10 DEF CreateHeaderView, N
  <2> QED BY <1>v, <2>1 DEF SlotInv, WriteInv, Writing
<1>11. CASE CreateTailsView
  <2>1. prod'.pc = "idle" /\ N' = 0
    BY Zenon, <1>2, <1>n, <1>11 DEF CreateTailsView
  <2> QED BY <1>v, <2>1 DEF SlotInv, WriteInv, Writing
<1> QED BY Zenon, <1>1, <1>3, <1>4, <1>5, <1>6, <1>7, <1>8, <1>9, <1>10, <1>11 DEF ProdView

(* A slot shows its record until the producer comes round to it.           *)
LEMMA LapStep ==
    ASSUME BaseInv, SlotInv, LapInv, ProdStep
    PROVE  LapInv'
<1>1. /\ ProdView /\ N \in Nat /\ Index(N) \in SlotIndex /\ slots \in [SlotIndex -> SlotType]
      /\ stream \in Seq(Seqs) /\ WriteInv /\ ProdInv
  BY Zenon, ProdFields, IndexType DEF BaseInv, Types, ProdStep, SlotInv
<1>2. Capacity \in Nat \ {0} /\ \A k \in 0 .. N - 1 : k \in Nat /\ Index(k) \in SlotIndex
  BY <1>1, Constants, IndexType
<1>k. ASSUME stream' = stream, prod.pc # "create", Rewriting => Rewriting',
             \A i \in SlotIndex : slots'[i].payload = slots[i].payload
      PROVE  LapInv'
  <2>1. N' = N
    BY Zenon, <1>k DEF N
  <2>2. \A k \in 0 .. N - 1 : Overwritten(k) => Overwritten(k)'
    BY <1>1, <1>2, <1>k, <2>1 DEF Overwritten, N
  <2>3. \A k \in 0 .. N - 1 : ~Overwritten(k) => slots[Index(k)].payload = stream[k + 1]
    BY Zenon, <1>k DEF LapInv
  <2>4. \A k \in 0 .. N - 1 : slots'[Index(k)].payload = slots[Index(k)].payload
    BY Zenon, <1>2, <1>k
  <2> QED BY Zenon, <1>k, <2>1, <2>2, <2>3, <2>4 DEF LapInv, Index
<1>0. ASSUME N' = 0 PROVE LapInv'
  BY <1>0 DEF LapInv
<1>3. CASE PublishView \/ TooLargeView \/ FullView \/ SpaceView \/ ScanTailView \/ StoreMinView
           \/ StoreHeadView
  <2>1. stream' = stream /\ slots' = slots /\ prod.pc \notin {"create", "header", "seq", "down"}
    BY Zenon, <1>3 DEF PublishView, TooLargeView, FullView, SpaceView, ScanTailView, StoreMinView,
       StoreHeadView, Ring
  <2> QED BY Zenon, <1>k, <2>1 DEF Rewriting
<1>4. CASE DiesView
  <2>1. stream' = stream /\ slots' = slots /\ prod.pc # "create" /\ prod'.pc = "down"
    BY Zenon, <1>4 DEF DiesView, Ring
  <2> QED BY Zenon, <1>k, <2>1 DEF Rewriting
<1>5. CASE InvalidateView
  <2>1. /\ stream' = stream /\ prod.pc = "invalidate" /\ prod.pos = N
        /\ slots' = [slots EXCEPT ![Index(prod.pos)].seq = 0]
    BY Zenon, <1>1, <1>5 DEF InvalidateView, ProdInv, Busy
  <2>2. \A i \in SlotIndex : slots'[i].payload = slots[i].payload
    BY Zenon, <1>1, <2>1, SlotStore
  <2> QED BY Zenon, <1>k, <2>1, <2>2 DEF Rewriting
<1>6. CASE WriteHeaderView
  <2>1. /\ stream' = stream /\ prod.pc = "header" /\ prod'.pc = "seq" /\ prod.pos = N
        /\ slots' = [slots EXCEPT ![Index(prod.pos)].hdr = next_seq, ![Index(prod.pos)].crc = next_seq]
    BY Zenon, <1>1, <1>6 DEF WriteHeaderView, ProdInv, Busy, Goes
  <2>2. \A i \in SlotIndex : slots'[i].payload = slots[i].payload
    BY Zenon, <1>1, <2>1, SlotStore
  <2> QED BY Zenon, <1>k, <2>1, <2>2 DEF Rewriting
<1>7. CASE WritePayloadView
  <2>1. /\ stream' = stream /\ prod.pc = "payload" /\ prod'.pc = "header" /\ prod.pos = N
        /\ slots' = [slots EXCEPT ![Index(prod.pos)].payload = next_seq]
    BY Zenon, <1>1, <1>7 DEF WritePayloadView, ProdInv, Busy, Goes
  <2>2. \A i \in SlotIndex \ {Index(N)} : slots'[i] = slots[i]
    BY Zenon, <1>1, <2>1, SlotStore
  <2>3. N' = N /\ Rewriting' /\ ~Rewriting
    BY Zenon, <2>1 DEF N, Rewriting
  <2>4. ASSUME NEW k \in 0 .. N - 1, ~Overwritten(k)' PROVE Index(k) # Index(N) /\ ~Overwritten(k)
    <3>1. N + 1 <= k + Capacity /\ k < N
      BY <1>1, <1>2, <2>3, <2>4 DEF Overwritten, N
    <3>2. ~Overwritten(k)
      BY <1>1, <1>2, <2>3, <3>1 DEF Overwritten, N
    <3>3. ~(N >= k + Capacity)
      BY <1>1, <1>2, <3>1
    <3> QED BY Zenon, <1>1, <1>2, <3>1, <3>2, <3>3, IndexLap
  <2>5. \A k \in 0 .. N - 1 : ~Overwritten(k) => slots[Index(k)].payload = stream[k + 1]
    BY Zenon, <2>1 DEF LapInv
  <2> QED BY ZenonT(40), <1>2, <2>1, <2>2, <2>3, <2>4, <2>5 DEF LapInv, Index
<1>8. CASE StoreSeqView
  <2>1. /\ stream' = Append(stream, next_seq) /\ prod.pc = "seq" /\ prod.pos = N
        /\ prod'.pc \in {"head", "invalidate", "space", "payload"}
        /\ slots' = [slots EXCEPT ![Index(prod.pos)].seq = prod.pos + 1]
    BY Zenon, <1>1, <1>8 DEF StoreSeqView, ProdInv, Busy
  <2>2. \A i \in SlotIndex : slots'[i].payload = slots[i].payload
    BY Zenon, <1>1, <2>1, SlotStore
  <2>3. /\ N' = N + 1 /\ ~Rewriting' /\ Rewriting
        /\ stream'[N + 1] = next_seq /\ \A k \in 0 .. N - 1 : stream'[k + 1] = stream[k + 1]
    BY <1>1, <2>1 DEF N, Rewriting
  <2>4. slots[Index(N)].payload = next_seq
    BY Zenon, <1>1, <2>1 DEF WriteInv
  <2>5. \A k \in 0 .. N - 1 : Overwritten(k) => Overwritten(k)'
    BY <1>1, <1>2, <2>3 DEF Overwritten, N
  <2>6. \A k \in 0 .. N - 1 : ~Overwritten(k) => slots[Index(k)].payload = stream[k + 1]
    BY Zenon, <2>1 DEF LapInv
  <2>7. \A k \in 0 .. N' - 1 : k \in 0 .. N - 1 \/ k = N
    BY <1>1, <2>3
  <2>8. \A k \in 0 .. N - 1 : ~Overwritten(k)' => slots'[Index(k)].payload = stream'[k + 1]
    BY Zenon, <1>2, <2>2, <2>3, <2>5, <2>6
  <2>9. slots'[Index(N)].payload = stream'[N + 1]
    BY Zenon, <1>1, <2>2, <2>3, <2>4
  <2> QED BY Zenon, <2>7, <2>8, <2>9 DEF LapInv, Index
<1>9. CASE WipeView
  BY Zenon, <1>9 DEF WipeView, LapInv
<1>10. CASE CreateHeaderView
  <2>1. N' = 0
    BY <1>10 DEF CreateHeaderView, N
  <2> QED BY Zenon, <1>0, <2>1
<1>11. CASE CreateTailsView
  <2>1. N' = 0
    BY Zenon, <1>1, <1>11 DEF CreateTailsView, ProdInv, N
  <2> QED BY Zenon, <1>0, <2>1
<1> QED BY Zenon, <1>1, <1>3, <1>4, <1>5, <1>6, <1>7, <1>8, <1>9, <1>10, <1>11 DEF ProdView

(* The records of the stream are numbers.                                  *)
LEMMA RecordType ==
    ASSUME Types
    PROVE  N \in Nat /\ \A k \in 1 .. N : stream[k] \in Nat
<1>1. \A k \in 1 .. N : stream[k] \in Seqs
  BY DEF Types, N
<1>2. \A x \in Seqs : x \in Nat
  BY Constants DEF Seqs
<1> QED BY Zenon, <1>1, <1>2, ProdFields

(* The records are published in the order of their numbers.                *)
LEMMA OrderStep ==
    ASSUME BaseInv, OrderInv, ProdStep
    PROVE  OrderInv'
<1>1. ProdView /\ stream \in Seq(Seqs) /\ N \in Nat /\ next_seq \in Nat
  BY ProdFields, Constants DEF BaseInv, Types, ProdStep
<1>2. \A k \in 1 .. N : stream[k] \in Nat
  BY Zenon, RecordType DEF BaseInv
<1>3. \/ stream' = stream /\ next_seq' \in {next_seq, next_seq + 1}
      \/ stream' = Append(stream, next_seq) /\ next_seq' = next_seq + 1
      \/ stream' = << >>
  BY Zenon, <1>1 DEF ProdView, PublishView, TooLargeView, FullView, SpaceView, ScanTailView,
     StoreMinView, InvalidateView, WritePayloadView, WriteHeaderView, StoreSeqView, StoreHeadView, DiesView,
     WipeView, CreateHeaderView, CreateTailsView, Ring
<1>4. CASE stream' = stream /\ next_seq' \in {next_seq, next_seq + 1}
  <2>1. N' = N
    BY Zenon, <1>4 DEF N
  <2>2. \A k \in 1 .. N : stream[k] < next_seq => stream'[k] < next_seq'
    BY <1>1, <1>2, <1>4
  <2> QED BY Zenon, <1>4, <2>1, <2>2 DEF OrderInv
<1>5. CASE stream' = Append(stream, next_seq) /\ next_seq' = next_seq + 1
  <2>1. N' = N + 1 /\ stream'[N + 1] = next_seq /\ \A k \in 1 .. N : stream'[k] = stream[k]
    BY <1>1, <1>5 DEF N
  <2>2. \A k \in 1 .. N' : k \in 1 .. N \/ k = N + 1
    BY <1>1, <2>1
  <2>3. \A k \in 1 .. N' : stream'[k] < next_seq'
    BY <1>1, <1>2, <1>5, <2>1, <2>2 DEF OrderInv
  <2>4. ASSUME NEW j \in 1 .. N', NEW k \in 1 .. N', j < k PROVE stream'[j] < stream'[k]
    BY <1>1, <2>1, <2>4 DEF OrderInv
  <2> QED BY Zenon, <2>3, <2>4 DEF OrderInv
<1>6. CASE stream' = << >>
  BY <1>6 DEF OrderInv, N
<1> QED BY Zenon, <1>3, <1>4, <1>5, <1>6

-----------------------------------------------------------------------------
(* After a step of the producer an endpoint is attached only if it was,    *)
(* and the records of its stream are still there.                          *)
LEMMA StreamKept ==
    ASSUME BaseInv, ProdStep, NEW c \in Readers, Attached(c)'
    PROVE  /\ Attached(c) /\ epoch' = epoch /\ epoch # 0 /\ prod.pc \notin {"down", "create"}
           /\ N' \in {N, N + 1} /\ N \in Nat
           /\ \A p \in 0 .. N - 1 : stream'[p + 1] = stream[p + 1]
<1>1. ProdView /\ ep' = ep
  BY Zenon DEF ProdStep, Quiet
<1>2. N \in Nat /\ stream \in Seq(Seqs) /\ ProdInv /\ EpochInv(c)
  BY Zenon, ProdFields DEF BaseInv, EpInv, Types
<1>3. ep[c].pc \notin {"closed", "open", "stamp", "dead"} /\ ep[c].epoch = epoch'
  BY Zenon, <1>1 DEF Attached
<1>4. ~WipeView /\ ~CreateHeaderView
  BY <1>2, <1>3 DEF WipeView, CreateHeaderView, ProdInv, EpochInv
<1>5. epoch' = epoch /\ prod.pc \notin {"down", "create"}
  BY Zenon, <1>1, <1>4, ProdShapes DEF ProdShape
<1>6. stream' = stream \/ stream' = Append(stream, next_seq)
  BY Zenon, <1>1, <1>4, ProdShapes DEF ProdShape
<1>7. N' \in {N, N + 1} /\ \A p \in 0 .. N - 1 : stream'[p + 1] = stream[p + 1]
  BY <1>2, <1>6 DEF N
<1>8. Attached(c) /\ epoch # 0
  BY Zenon, <1>2, <1>3, <1>5 DEF Attached, EpochInv, ProdInv
<1> QED BY Zenon, <1>2, <1>5, <1>7, <1>8

(* The sequence word of an earlier record is left alone, or the producer   *)
(* has come round to its slot.                                             *)
LEMMA WordKept ==
    ASSUME BaseInv, ProdStep, NEW c \in Readers, Attached(c)', NEW p \in 0 .. N - 1
    PROVE  \/ slots'[Index(p)].seq = slots[Index(p)].seq
           \/ slots'[Index(p)].seq # p + 1 /\ N >= p + Capacity
<1>1. ProdView /\ prod.pc \notin {"down", "create"}
  BY Zenon, StreamKept DEF ProdStep
<1>2. /\ N \in Nat /\ p \in Nat /\ p < N /\ Index(N) \in SlotIndex /\ Index(p) \in SlotIndex
      /\ slots \in [SlotIndex -> SlotType]
      /\ prod.pc \in Busy => prod.pos = N
      /\ prod.pc # "tails"
  BY ProdFields, IndexType DEF BaseInv, Types, ProdInv
<1>3. PICK i \in SlotIndex : i = Index(N)
  BY Zenon, <1>2
<1>4. \/ slots' = slots
      \/ slots' = [slots EXCEPT ![i].seq = 0]
      \/ slots' = [slots EXCEPT ![i].payload = next_seq]
      \/ slots' = [slots EXCEPT ![i].hdr = next_seq, ![i].crc = next_seq]
      \/ slots' = [slots EXCEPT ![i].seq = N + 1]
  BY Zenon, <1>1, <1>2, <1>3, ProdShapes DEF ProdShape, WipeView, CreateHeaderView
<1>5. /\ \A j \in SlotIndex \ {i} : slots'[j] = slots[j]
      /\ slots'[i].seq \in {slots[i].seq, 0, N + 1}
  BY <1>2, <1>4 DEF SlotType
<1>6. CASE Index(p) # i
  BY Zenon, <1>2, <1>5, <1>6
<1>7. CASE Index(p) = i
  <2>1. N >= p + Capacity
    BY Zenon, <1>2, <1>3, <1>7, IndexLap
  <2>2. 0 # p + 1 /\ N + 1 # p + 1
    BY <1>2
  <2> QED BY Zenon, <1>5, <1>7, <2>1, <2>2
<1> QED BY Zenon, <1>6, <1>7

(* A step of the producer keeps what an endpoint reads in broadcast mode.  *)
LEMMA ReadProd ==
    ASSUME BaseInv, ProdStep, NEW c \in Readers, ReadInv(c)
    PROVE  ReadInv(c)'
<1> SUFFICES ASSUME profile'.broadcast, Attached(c)', ep'[c].pc \in Reading
             PROVE  ReadInv(c)'
  BY Zenon DEF ReadInv
<1>1. ep' = ep /\ profile.broadcast /\ ep[c].pc \in Reading
  BY Zenon DEF ProdStep, Quiet
<1>2. /\ Attached(c) /\ N' \in {N, N + 1} /\ N \in Nat
      /\ \A q \in 0 .. N - 1 : stream'[q + 1] = stream[q + 1]
  BY Zenon, StreamKept
<1>3. PICK p \in Nat : p = Position(ep[c])
  BY Zenon, EpFields DEF BaseInv, Types
<1>4. /\ p < N
      /\ slots[Index(p)].seq # p + 1 => N >= p + Capacity
      /\ slots[Index(p)].seq = p + 1 =>
            /\ ep[c].pc \in {"copy", "recheck"} => ep[c].hdr = stream[p + 1]
            /\ ep[c].pc = "recheck" => ep[c].copy = stream[p + 1]
      /\ ep[c].pc = "accept" => ep[c].hdr = stream[p + 1] /\ ep[c].copy = stream[p + 1]
  BY Zenon, <1>1, <1>2, <1>3 DEF ReadInv
<1>5. p \in 0 .. N - 1 /\ stream'[p + 1] = stream[p + 1] /\ Capacity \in Nat
  BY <1>2, <1>4, Constants
<1>6. \/ slots'[Index(p)].seq = slots[Index(p)].seq
      \/ slots'[Index(p)].seq # p + 1 /\ N >= p + Capacity
  BY Zenon, <1>5, WordKept
<1>7. Position(ep[c])' = p
  BY Zenon, <1>1, <1>3 DEF Position
<1>8. /\ p < N'
      /\ slots'[Index(p)].seq # p + 1 => N' >= p + Capacity
      /\ slots'[Index(p)].seq = p + 1 => slots[Index(p)].seq = p + 1
  BY <1>2, <1>4, <1>5, <1>6
<1> QED BY Zenon, <1>1, <1>4, <1>5, <1>7, <1>8 DEF ReadInv, Index

(* No step of the producer makes an endpoint trusted again.                *)
LEMMA TrustProd ==
    ASSUME BaseInv, ProdStep, NEW c \in Readers, Attached(c)', Trusted(c)'
    PROVE  Trusted(c)
<1>1. ProdView /\ profile' = profile /\ (stray => stray') /\ prod.pc # "create"
  BY Zenon, StreamKept DEF ProdStep, Quiet
<1>2. overtaken \subseteq overtaken'
  BY Zenon, <1>1, ProdShapes DEF ProdShape
<1> QED BY Zenon, <1>1, <1>2 DEF Trusted

(* A step of the producer keeps what an endpoint handed out.               *)
LEMMA HandProd ==
    ASSUME BaseInv, ProdStep, NEW c \in Readers, HandInv(c)
    PROVE  HandInv(c)'
<1>1. ep' = ep /\ handed' = handed
  BY Zenon DEF ProdStep, Quiet
<1>2. ep'[c].pc \in {"open", "stamp"} => handed'[c].seq = None
  BY Zenon, <1>1 DEF HandInv
<1>3. ASSUME Attached(c)', Trusted(c)', handed'[c].seq # None
      PROVE  /\ handed'[c].pos \in 0 .. N' - 1
             /\ handed'[c].seq = stream'[handed'[c].pos + 1]
             /\ handed'[c].payload = stream'[handed'[c].pos + 1]
  <2>1. /\ Attached(c) /\ N' \in {N, N + 1} /\ N \in Nat
        /\ \A p \in 0 .. N - 1 : stream'[p + 1] = stream[p + 1]
    BY Zenon, <1>3, StreamKept
  <2>2. Trusted(c)
    BY Zenon, <1>3, TrustProd
  <2>3. /\ handed[c].pos \in 0 .. N - 1
        /\ handed[c].seq = stream[handed[c].pos + 1]
        /\ handed[c].payload = stream[handed[c].pos + 1]
    BY Zenon, <1>1, <1>3, <2>1, <2>2 DEF HandInv
  <2> QED BY <1>1, <2>1, <2>3
<1> QED BY Zenon, <1>2, <1>3 DEF HandInv

(* A step of the producer keeps where an endpoint goes on.                 *)
LEMMA FollowProd ==
    ASSUME BaseInv, ProdStep, NEW c \in Readers, HandInv(c), FollowInv(c)
    PROVE  FollowInv(c)'
<1> SUFFICES ASSUME Attached(c)', Trusted(c)', "seek_head" \notin profile'.ops, handed'[c].seq # None
             PROVE  /\ Follows(ep[c], tails[c].tail, handed[c].pos + 1)'
                    /\ handed'[c].prev # None =>
                          handed'[c].pos >= 1 /\ handed'[c].prev = stream'[handed'[c].pos]
  BY Zenon DEF FollowInv
<1>1. ProdView /\ ep' = ep /\ handed' = handed /\ profile' = profile
  BY Zenon DEF ProdStep, Quiet
<1>2. /\ Attached(c) /\ N \in Nat /\ prod.pc \notin {"down", "create"} /\ Trusted(c)
      /\ \A p \in 0 .. N - 1 : stream'[p + 1] = stream[p + 1]
  BY Zenon, StreamKept, TrustProd
<1>3. /\ Follows(ep[c], tails[c].tail, handed[c].pos + 1)
      /\ handed[c].prev # None => handed[c].pos >= 1 /\ handed[c].prev = stream[handed[c].pos]
      /\ handed[c].pos \in 0 .. N - 1
  BY Zenon, <1>1, <1>2 DEF FollowInv, HandInv
<1>4. prod.pc # "tails"
  BY <1>2, <1>3 DEF BaseInv, ProdInv
<1>5. tails' = tails
  BY Zenon, <1>1, <1>2, <1>4 DEF ProdView, PublishView, TooLargeView, FullView, SpaceView, ScanTailView,
     StoreMinView, InvalidateView, WritePayloadView, WriteHeaderView, StoreSeqView, StoreHeadView, DiesView,
     WipeView, CreateHeaderView, CreateTailsView
<1>6. handed[c].pos >= 1 => stream'[handed[c].pos] = stream[handed[c].pos]
  <2> SUFFICES ASSUME handed[c].pos >= 1 PROVE stream'[handed[c].pos] = stream[handed[c].pos]
    OBVIOUS
  <2>1. PICK p \in 0 .. N - 1 : handed[c].pos = p + 1
    <3>1. handed[c].pos - 1 \in 0 .. N - 1 /\ handed[c].pos = (handed[c].pos - 1) + 1
      BY <1>2, <1>3
    <3> QED BY Zenon, <3>1
  <2> QED BY Zenon, <1>2, <2>1
<1> QED BY Zenon, <1>1, <1>3, <1>5, <1>6 DEF Follows, Midway, Position

(* A step of the producer keeps what was told about gaps.                  *)
LEMMA GapProd ==
    ASSUME ProdStep, NEW c \in Readers, Told(c)
    PROVE  Told(c)'
<1>1. ep' = ep /\ handed' = handed
  BY Zenon DEF ProdStep, Quiet
<1> QED BY Zenon, <1>1 DEF Told, GapInv, SaidInv

-----------------------------------------------------------------------------
(* Queue mode.                                                             *)

(* Which steps touch the tails, min_tail, the stream and the scan.         *)
QueueShape ==
    \/ WipeView \/ CreateHeaderView \/ CreateTailsView
    \/ /\ prod.pc \notin {"down", "create", "tails"} /\ prod'.pc \notin {"create", "tails"}
       /\ tails' = tails /\ epoch' = epoch
       /\ min_tail' = min_tail \/ StoreMinView
       /\ prod'.pc = "scan" => FullView \/ ScanTailView
       /\ stream' = stream \/ StoreSeqView
       /\ Writing' => \/ SpaceView \/ InvalidateView \/ WritePayloadView \/ WriteHeaderView
                      \/ StoreSeqView

(* Each step of the producer moves min_tail, the stream and its chunk as   *)
(* QueueShape lists.                                                       *)
LEMMA QueueShapes ==
    ASSUME ProdView
    PROVE  QueueShape
<1>1. CASE PublishView \/ TooLargeView
  BY Zenon, <1>1 DEF PublishView, TooLargeView, QueueShape, Ring, Mins, Writing
<1>2. CASE FullView \/ SpaceView
  BY Zenon, <1>2 DEF FullView, SpaceView, QueueShape, Ring, Mins, Writing, Goes
<1>3. CASE ScanTailView \/ StoreMinView
  BY Zenon, <1>3 DEF ScanTailView, StoreMinView, QueueShape, Ring, Mins, Writing, Goes
<1>4. CASE InvalidateView \/ WritePayloadView \/ WriteHeaderView
  BY Zenon, <1>4 DEF InvalidateView, WritePayloadView, WriteHeaderView, QueueShape, Mins, Writing, Goes
<1>5. CASE StoreSeqView
  BY Zenon, <1>5 DEF StoreSeqView, QueueShape, Mins
<1>6. CASE StoreHeadView \/ DiesView
  BY Zenon, <1>6 DEF StoreHeadView, DiesView, QueueShape, Ring, Mins, Writing, Goes
<1>7. CASE WipeView \/ CreateHeaderView \/ CreateTailsView
  BY Zenon, <1>7 DEF QueueShape
<1> QED BY Zenon, <1>1, <1>2, <1>3, <1>4, <1>5, <1>6, <1>7 DEF ProdView

(* The fields of a scan, and of the next one.                              *)
LEMMA ScanFields ==
    ASSUME NEW s \in ScanType, NEW x
    PROVE  /\ s.next \in Nat /\ s.tail \in Int /\ s.min \in Int /\ s.tail >= -1 /\ s.min >= -1
           /\ s.tail = -1 =>
                /\ ScanNext(s, x).next = s.next /\ ScanNext(s, x).min = s.min
                /\ ScanNext(s, x).tail = tails[s.next].tail
           /\ s.tail # -1 =>
                /\ ScanNext(s, x).next = s.next + 1 /\ ScanNext(s, x).tail = -1
                /\ ScanNext(s, x).min = IF Counted(s.next, x) THEN Lower(s) ELSE s.min
<1>1. s.next \in Nat /\ s.tail \in Int /\ s.min \in Int /\ s.tail >= -1 /\ s.min >= -1
  BY Constants DEF ScanType
<1> QED BY <1>1 DEF ScanNext, ScanType

(* A step of a scan that counts endpoint c stays within what c allows.     *)
LEMMA ScanNextPast ==
    ASSUME NEW c \in Readers, NEW s \in ScanType, NEW x, NEW limit \in Nat, tails[c].tail \in Nat,
           ScanPast(s, c, limit), s.next = c /\ s.tail # -1 => Counted(c, x)
    PROVE  ScanPast(ScanNext(s, x), c, limit)
<1>1. c \in Nat
  BY Zenon, Constants
<1>2. CASE s.tail = -1
  BY <1>1, <1>2, ScanFields DEF ScanPast
<1>3. CASE s.tail # -1
  <2>1. PICK m : m = ScanNext(s, x).min
    OBVIOUS
  <2>2. /\ s.next \in Nat /\ s.tail \in Nat /\ s.min \in Int /\ s.min >= -1
        /\ ScanNext(s, x).next = s.next + 1 /\ ScanNext(s, x).tail = -1
    BY <1>3, ScanFields
  <2>3. m = IF Counted(s.next, x) THEN Lower(s) ELSE s.min
    BY Zenon, <1>3, <2>1, ScanFields
  <2>4. s.next > c => m \in 0 .. tails[c].tail \/ limit <= tails[c].tail
    BY <2>2, <2>3 DEF ScanPast, Lower
  <2>5. s.next = c => m \in 0 .. tails[c].tail \/ limit <= tails[c].tail
    BY <1>3, <2>2, <2>3 DEF ScanPast, Lower
  <2> QED BY <1>1, <2>1, <2>2, <2>4, <2>5 DEF ScanPast
<1> QED BY Zenon, <1>2, <1>3

(* A scan of tails that are all at most n.                                 *)
LEMMA ScanNextBound ==
    ASSUME NEW s \in ScanType, NEW x, NEW n \in Nat, s.tail <= n, s.min <= n, tails[s.next].tail <= n
    PROVE  ScanNext(s, x).tail <= n /\ ScanNext(s, x).min <= n
<1>1. CASE s.tail = -1
  BY <1>1, ScanFields
<1>2. CASE s.tail # -1
  BY <1>2, ScanFields DEF Lower
<1> QED BY Zenon, <1>1, <1>2

(* An endpoint that the producer has to wait for was one before its step,  *)
(* and has kept its tail.                                                  *)
LEMMA KeptProd ==
    ASSUME BaseInv, ProdStep, NEW c \in Readers, SpaceInv(c), Kept(c)'
    PROVE  /\ Kept(c) /\ tails' = tails /\ ep' = ep /\ c \notin overtaken' /\ ~profile.broadcast
           /\ prod.pc \notin {"down", "create", "tails"}
           /\ N' \in {N, N + 1} /\ N \in Nat /\ tails[c].tail \in Nat
           /\ \A p \in 0 .. N - 1 : stream'[p + 1] = stream[p + 1]
<1>1. ProdView /\ ep' = ep /\ profile' = profile /\ (stray => stray' \/ prod.pc = "create")
  BY Zenon DEF ProdStep, Quiet
<1>2. Attached(c)' /\ ~profile.broadcast /\ ~stray' /\ c \notin overtaken'
  BY Zenon, <1>1 DEF Kept, Calm
<1>3. /\ Attached(c) /\ prod.pc \notin {"down", "create"}
      /\ N' \in {N, N + 1} /\ N \in Nat
      /\ \A p \in 0 .. N - 1 : stream'[p + 1] = stream[p + 1]
  BY Zenon, <1>2, StreamKept
<1>4. overtaken \subseteq overtaken'
  BY Zenon, <1>1, ProdShapes DEF ProdShape
<1>5. Kept(c)
  BY Zenon, <1>1, <1>2, <1>3, <1>4 DEF Kept, Calm
<1>6. ~CreateTailsView
  BY Zenon, <1>2, <1>5 DEF SpaceInv, CreateTailsView
<1>7. tails' = tails /\ prod.pc # "tails"
  BY Zenon, <1>1, <1>3, <1>6, QueueShapes DEF QueueShape, WipeView, CreateHeaderView
<1>8. tails[c].tail \in Nat
  BY BaseFacts, TailFields, Constants DEF Seqs
<1> QED BY Zenon, <1>1, <1>2, <1>3, <1>5, <1>7, <1>8

(* In queue mode the producer writes at most as many records as there is   *)
(* room for.                                                               *)
LEMMA ChunkProd ==
    ASSUME BaseInv, ProdStep, ChunkInv
    PROVE  ChunkInv'
<1> SUFFICES ASSUME ~profile.broadcast, Writing' PROVE prod'.chunk \in 1 .. Capacity
  BY Zenon DEF ChunkInv, ProdStep, Quiet
<1>1. /\ SpaceView \/ InvalidateView \/ WritePayloadView \/ WriteHeaderView \/ StoreSeqView
      /\ Capacity \in Nat /\ ProdInv /\ min_tail \in Nat /\ N \in Nat
  <2>1. \/ SpaceView \/ InvalidateView \/ WritePayloadView \/ WriteHeaderView \/ StoreSeqView
        \/ WipeView \/ CreateHeaderView \/ CreateTailsView
    BY Zenon, QueueShapes DEF QueueShape, ProdStep
  <2>2. ~WipeView /\ ~CreateHeaderView /\ ~CreateTailsView
    BY DEF Writing, WipeView, CreateHeaderView, CreateTailsView
  <2> QED BY <2>1, <2>2, ProdFields, Constants DEF BaseInv, Types, Seqs
<1>2. CASE SpaceView
  <2>1. prod.left \in Nat /\ prod.left >= 1 /\ prod.pos = N
    BY <1>1, <1>2 DEF SpaceView, ProdInv, Busy
  <2> QED BY <1>1, <1>2, <2>1 DEF SpaceView, Full
<1>3. ~InvalidateView
  BY Zenon, <1>1 DEF InvalidateView, ProdInv
<1>4. CASE WritePayloadView \/ WriteHeaderView
  BY Zenon, <1>4 DEF WritePayloadView, WriteHeaderView, ChunkInv, Writing
<1>5. CASE StoreSeqView
  <2>1. prod.chunk \in 1 .. Capacity /\ prod'.chunk = prod.chunk - 1 /\ prod.chunk # 1
    BY Zenon, <1>5 DEF StoreSeqView, ChunkInv, Writing
  <2> QED BY <1>1, <2>1
<1> QED BY Zenon, <1>1, <1>2, <1>3, <1>4, <1>5

(* Records that fit behind min_tail fit behind any later position.         *)
LEMMA Room ==
    ASSUME NEW n \in Int, NEW m \in Int, NEW t \in Int, NEW k \in Int, NEW cap \in Int,
           m <= t, k <= cap - (n - m)
    PROVE  n + k <= t + cap
OBVIOUS

(* The producer leaves room for the records an endpoint has to read.       *)
LEMMA SpaceProd ==
    ASSUME BaseInv, ProdStep, NEW c \in Readers, SpaceInv(c), ScanInv(c), ChunkInv, MinInv
    PROVE  SpaceInv(c)'
<1> SUFFICES ASSUME Kept(c)'
             PROVE  /\ tails'[c].live /\ min_tail' <= tails'[c].tail
                    /\ N' <= tails'[c].tail + Capacity
                    /\ Writing' => N' + prod'.chunk <= tails'[c].tail + Capacity
  BY Zenon DEF SpaceInv
<1>1. /\ Kept(c) /\ tails' = tails /\ ~profile.broadcast
      /\ prod.pc \notin {"down", "create", "tails"}
      /\ N \in Nat /\ tails[c].tail \in Nat
  BY Zenon, KeptProd
<1> DEFINE T == tails[c].tail
<1>2. /\ tails[c].live /\ min_tail <= T /\ N <= T + Capacity
      /\ Writing => N + prod.chunk <= T + Capacity
  BY Zenon, <1>1 DEF SpaceInv
<1>3. /\ ProdInv /\ min_tail \in Nat /\ Capacity \in Nat /\ prod.chunk \in Int /\ prod.left \in Nat
      /\ stream \in Seq(Seqs)
  BY ProdFields, Constants DEF BaseInv, Types, Seqs
<1>n. N \in Nat /\ T \in Nat /\ Capacity \in Nat /\ min_tail \in Nat /\ prod.chunk \in Int
  BY Zenon, <1>1, <1>3
<1>i. N \in Int /\ T \in Int /\ Capacity \in Int /\ min_tail \in Int
  BY <1>n
<1>q. /\ min_tail' = min_tail \/ StoreMinView
      /\ stream' = stream \/ StoreSeqView
      /\ Writing' => SpaceView \/ InvalidateView \/ WritePayloadView \/ WriteHeaderView \/ StoreSeqView
  BY Zenon, <1>1, QueueShapes DEF QueueShape, ProdStep, WipeView, CreateHeaderView, CreateTailsView
<1>4. min_tail' <= T
  <2>1. CASE min_tail' = min_tail
    BY Zenon, <1>2, <2>1
  <2>2. CASE StoreMinView
    <3>1. /\ prod.pc = "scan" /\ prod.scan.next = Consumers /\ prod.pos = N
          /\ min_tail' = ScanResult(prod.scan, N)
      BY Zenon, <1>3, <2>2 DEF StoreMinView, ProdInv, Busy
    <3>2. prod.scan.min \in 0 .. T \/ N <= T
      BY <1>1, <3>1, Constants DEF ScanInv, ScanPast
    <3>3. prod.scan.min <= N /\ prod.scan.min \in Int
      <4>1. prod.scan \in ScanType
        BY Zenon, ProdFields DEF BaseInv
      <4> QED BY Zenon, <1>1, <3>1, <4>1, ScanFields DEF MinInv, Kept
    <3> QED BY <1>1, <3>1, <3>2, <3>3 DEF ScanResult
  <2> QED BY Zenon, <1>q, <2>1, <2>2
<1>5. N' <= T + Capacity
  <2>1. CASE stream' = stream
    BY Zenon, <1>2, <2>1 DEF N
  <2>2. CASE StoreSeqView
    <3>1. N' = N + 1 /\ prod.chunk \in 1 .. Capacity /\ Writing
      BY <1>1, <1>3, <2>2 DEF StoreSeqView, ChunkInv, Writing, N
    <3>2. N + prod.chunk <= T + Capacity
      BY Zenon, <1>2, <3>1
    <3> QED BY <1>n, <3>1, <3>2
  <2> QED BY Zenon, <1>q, <2>1, <2>2
<1>6. Writing' => N' + prod'.chunk <= T + Capacity
  <2>1. CASE SpaceView
    <3>1. prod.pos = N /\ N' = N
      BY Zenon, <1>3, <2>1 DEF SpaceView, ProdInv, Busy, Ring, N
    <3>2. ~(N - min_tail >= Capacity) /\ ~(min_tail > N)
      BY Zenon, <2>1, <3>1 DEF SpaceView, Full
    <3>3. prod'.chunk = IF prod.left > Capacity - (N - min_tail) THEN Capacity - (N - min_tail) ELSE prod.left
      BY Zenon, <2>1, <3>1 DEF SpaceView
    <3>4. prod'.chunk <= Capacity - (N - min_tail) /\ prod'.chunk \in Int
      BY <1>1, <1>3, <3>3
    <3>5. N + prod'.chunk <= T + Capacity
      BY Zenon, <1>i, <1>2, <3>4, Room
    <3> QED BY Zenon, <3>1, <3>5
  <2>2. ~InvalidateView
    BY Zenon, <1>1, <1>3 DEF InvalidateView, ProdInv
  <2>3. CASE WritePayloadView \/ WriteHeaderView
    <3>1. N' = N /\ prod'.chunk = prod.chunk /\ Writing
      BY Zenon, <2>3 DEF WritePayloadView, WriteHeaderView, Writing, N
    <3> QED BY Zenon, <1>2, <3>1
  <2>4. CASE StoreSeqView
    <3>1. N' = N + 1 /\ prod'.chunk = prod.chunk - 1 /\ Writing
      BY <1>3, <2>4 DEF StoreSeqView, Writing, N
    <3>2. N + prod.chunk <= T + Capacity
      BY Zenon, <1>2, <3>1
    <3>3. N' + prod'.chunk = N + prod.chunk
      BY <1>n, <3>1
    <3> QED BY Zenon, <3>2, <3>3
  <2> QED BY Zenon, <1>q, <2>1, <2>2, <2>3, <2>4
<1> QED BY Zenon, <1>1, <1>2, <1>4, <1>5, <1>6

(* A scan of the producer counts every endpoint it has to wait for.        *)
LEMMA ScanProd ==
    ASSUME BaseInv, ProdStep, NEW c \in Readers, SpaceInv(c), ScanInv(c)
    PROVE  ScanInv(c)'
<1> SUFFICES ASSUME Kept(c)', prod'.pc = "scan" PROVE ScanPast(prod.scan, c, N)'
  BY Zenon DEF ScanInv
<1>1. /\ Kept(c) /\ tails' = tails /\ c \notin overtaken'
      /\ prod.pc \notin {"down", "create", "tails"}
      /\ N \in Nat /\ tails[c].tail \in Nat
  BY Zenon, KeptProd
<1>2. FullView \/ ScanTailView
  BY Zenon, <1>1, QueueShapes DEF QueueShape, ProdStep, WipeView, CreateHeaderView, CreateTailsView
<1>n. N' = N
  BY Zenon, <1>2 DEF FullView, ScanTailView, Ring, N
<1>s. SUFFICES ScanPast(prod'.scan, c, N)
  BY Zenon, <1>1, <1>n DEF ScanPast
<1>3. CASE FullView
  <2>1. prod'.scan = NoScan /\ c \in Nat
    BY Zenon, <1>3, Constants DEF FullView
  <2> QED BY <1>1, <2>1 DEF ScanPast, NoScan
<1>4. CASE ScanTailView
  <2>1. prod.pc = "scan" /\ prod'.scan = ScanNext(prod.scan, Consumers) /\ c \notin Skips(prod.scan, Consumers)
    BY Zenon, <1>1, <1>4 DEF ScanTailView
  <2>2. prod.scan.next = c /\ prod.scan.tail # -1 => Counted(c, Consumers)
    BY Zenon, <1>1, <2>1 DEF Skips, SpaceInv
  <2>3. ScanPast(prod.scan, c, N) /\ prod.scan \in ScanType
    BY Zenon, <1>1, <2>1, ProdFields DEF ScanInv, BaseInv
  <2> QED BY Zenon, <1>1, <2>1, <2>2, <2>3, ScanNextPast
<1> QED BY Zenon, <1>2, <1>3, <1>4

(* The slots of the records an endpoint has to read are left alone, and a  *)
(* new record is complete when its sequence word is stored.                *)
LEMMA UnreadProd ==
    ASSUME BaseInv, ProdStep, SlotInv, NEW c \in Readers, SpaceInv(c), UnreadInv(c), ChunkInv
    PROVE  UnreadInv(c)'
<1> SUFFICES ASSUME Kept(c)', NEW k \in Seqs, tails'[c].tail <= k, k < N' PROVE Holds(k)'
  BY Zenon DEF UnreadInv
<1>1. /\ Kept(c) /\ tails' = tails /\ ~profile.broadcast
      /\ prod.pc \notin {"down", "create", "tails"} /\ N' \in {N, N + 1}
      /\ N \in Nat /\ tails[c].tail \in Nat
      /\ \A p \in 0 .. N - 1 : stream'[p + 1] = stream[p + 1]
  BY Zenon, KeptProd
<1>2. /\ ProdInv /\ Capacity \in Nat \ {0} /\ k \in Nat /\ stream \in Seq(Seqs)
      /\ slots \in [SlotIndex -> SlotType] /\ Index(N) \in SlotIndex /\ Index(k) \in SlotIndex
      /\ ProdView /\ WriteInv
  BY <1>1, Constants, IndexType DEF BaseInv, Types, Seqs, ProdStep, SlotInv
<1>3. PICK i \in SlotIndex : i = Index(N)
  BY Zenon, <1>2
<1>4. slots' = slots \/ (Writing /\ \A j \in SlotIndex \ {i} : slots'[j] = slots[j])
  <2>1. \/ slots' = slots
        \/ /\ prod.pc \in Busy
           /\ \/ slots' = [slots EXCEPT ![Index(prod.pos)].seq = 0]
              \/ slots' = [slots EXCEPT ![Index(prod.pos)].payload = next_seq]
              \/ slots' = [slots EXCEPT ![Index(prod.pos)].hdr = next_seq,
                                        ![Index(prod.pos)].crc = next_seq]
              \/ slots' = [slots EXCEPT ![Index(prod.pos)].seq = prod.pos + 1]
    BY Zenon, <1>1, <1>2, ProdShapes DEF ProdShape, WipeView, CreateHeaderView
  <2>2. prod.pc \in Busy => Index(prod.pos) = i
    BY Zenon, <1>2, <1>3 DEF ProdInv
  <2>3. slots' = slots \/ \A j \in SlotIndex \ {i} : slots'[j] = slots[j]
    <3>x. PICK x : x = prod.pos + 1
      OBVIOUS
    <3>1. \/ slots' = slots
          \/ slots' = [slots EXCEPT ![i].seq = 0]
          \/ slots' = [slots EXCEPT ![i].payload = next_seq]
          \/ slots' = [slots EXCEPT ![i].hdr = next_seq, ![i].crc = next_seq]
          \/ slots' = [slots EXCEPT ![i].seq = x]
      BY Zenon, <2>1, <2>2, <3>x
    <3> QED BY Zenon, <1>2, <3>1, SlotStore
  <2>4. slots' = slots \/ Writing
    BY Zenon, <1>1, <1>2 DEF ProdView, Writing, PublishView, TooLargeView, FullView, SpaceView, ScanTailView,
       StoreMinView, InvalidateView, WritePayloadView, WriteHeaderView, StoreSeqView, StoreHeadView,
       DiesView, WipeView, CreateHeaderView, CreateTailsView, Ring, ProdInv
  <2> QED BY Zenon, <2>3, <2>4
<1>5. CASE k < N
  <2>1. Holds(k) /\ stream'[k + 1] = stream[k + 1]
    <3>1. k \in 0 .. N - 1
      BY <1>1, <1>2, <1>5
    <3> QED BY Zenon, <1>1, <1>5, <3>1 DEF UnreadInv
  <2>2. CASE slots' = slots
    BY Zenon, <2>1, <2>2 DEF Holds, Index
  <2>3. CASE Writing /\ \A j \in SlotIndex \ {i} : slots'[j] = slots[j]
    <3>1. N + prod.chunk <= tails[c].tail + Capacity /\ prod.chunk \in 1 .. Capacity
      BY Zenon, <1>1, <2>3 DEF SpaceInv, ChunkInv
    <3>2. ~(N >= k + Capacity)
      BY <1>1, <1>2, <3>1
    <3>3. Index(k) # i
      BY Zenon, <1>1, <1>2, <1>3, <1>5, <3>2, IndexLap
    <3> QED BY Zenon, <1>2, <2>1, <2>3, <3>3 DEF Holds, Index
  <2> QED BY Zenon, <1>4, <2>2, <2>3
<1>6. CASE ~(k < N)
  <2>1. k = N /\ N' = N + 1
    BY <1>1, <1>2, <1>6
  <2>2. StoreSeqView
    <3>1. stream' = stream \/ StoreSeqView
      BY Zenon, <1>1, <1>2, QueueShapes DEF QueueShape, WipeView, CreateHeaderView, CreateTailsView
    <3>2. N # N + 1
      BY <1>1
    <3> QED BY Zenon, <2>1, <3>1, <3>2 DEF N
  <2>x. PICK x : x = N + 1
    OBVIOUS
  <2>3. /\ slots' = [slots EXCEPT ![i].seq = x] /\ stream' = Append(stream, next_seq)
        /\ prod.pc = "seq"
    BY Zenon, <1>2, <1>3, <2>2, <2>x DEF StoreSeqView, ProdInv, Busy
  <2>4. slots'[i].seq = x /\ slots'[i].hdr = slots[i].hdr /\ slots'[i].payload = slots[i].payload
    BY Zenon, <1>2, <2>3, SlotStore
  <2>5. slots[i].hdr = next_seq /\ slots[i].payload = next_seq
    BY Zenon, <1>2, <1>3, <2>3 DEF WriteInv
  <2>6. stream'[N + 1] = next_seq
    BY <1>1, <1>2, <2>3 DEF N
  <2> QED BY Zenon, <1>3, <2>1, <2>4, <2>5, <2>6, <2>x DEF Holds, Index
<1> QED BY Zenon, <1>5, <1>6

(* A step of the producer keeps what an endpoint has read in queue mode.   *)
LEMMA CopyProd ==
    ASSUME BaseInv, ProdStep, NEW c \in Readers, SpaceInv(c), PlaceInv(c), CopyInv(c)
    PROVE  CopyInv(c)'
<1> SUFFICES ASSUME Kept(c)', ep'[c].pc \in {"copy", "accept"} PROVE CopyInv(c)'
  BY Zenon DEF CopyInv
<1>1. /\ Kept(c) /\ ep' = ep /\ N \in Nat
      /\ \A p \in 0 .. N - 1 : stream'[p + 1] = stream[p + 1]
  BY Zenon, KeptProd
<1>2. PICK p \in Nat : p = Position(ep[c])
  BY Zenon, BaseFacts
<1>3. p < N
  BY Zenon, <1>1, <1>2 DEF PlaceInv, Kept, Attached, Reading
<1>4. p \in 0 .. N - 1
  BY <1>1, <1>3
<1>5. stream'[p + 1] = stream[p + 1] /\ Position(ep[c])' = p
  BY Zenon, <1>1, <1>2, <1>4 DEF Position
<1> QED BY Zenon, <1>1, <1>2, <1>5 DEF CopyInv

(* When the shared memory is created again nobody is attached.             *)
LEMMA NobodyLeft ==
    ASSUME BaseInv, ProdStep, WipeView \/ CreateHeaderView, NEW c \in Readers
    PROVE  ~(ep'[c].epoch = epoch' /\ ep'[c].pc # "closed")
<1>1. ep' = ep /\ EpochInv(c) /\ ProdInv
  BY Zenon, BaseFacts DEF ProdStep, Quiet
<1>2. CASE WipeView
  BY <1>1, <1>2 DEF WipeView, EpochInv, ProdInv
<1>3. CASE CreateHeaderView
  BY <1>1, <1>3 DEF CreateHeaderView, EpochInv, ProdInv
<1> QED BY Zenon, <1>2, <1>3

(* A step of the producer leaves the endpoints where they are.             *)
LEMMA PlaceProd ==
    ASSUME BaseInv, ProdStep, NEW c \in Readers, PlaceInv(c)
    PROVE  PlaceInv(c)'
<1>1. /\ ProdView /\ ep' = ep /\ profile' = profile /\ (stray => stray' \/ prod.pc = "create")
      /\ N \in Nat /\ Position(ep[c]) \in Nat /\ Position(ep[c])' = Position(ep[c]) /\ ProdInv
      /\ ep[c] \in EpType /\ tails[c] \in TailType /\ stream \in Seq(Seqs)
  BY Zenon, BaseFacts DEF ProdStep, Quiet, Position
<1>2. CASE WipeView \/ CreateHeaderView
  <2>1. ~(ep'[c].epoch = epoch' /\ ep'[c].pc # "closed")
    BY Zenon, <1>2, NobodyLeft
  <2>2. prod'.pc \in {"create", "tails"}
    BY Zenon, <1>2 DEF WipeView, CreateHeaderView
  <2> QED BY <2>1, <2>2 DEF PlaceInv, Attached, Reading, Fetching
<1>3. CASE CreateTailsView
  <2>1. N = 0 /\ N' = N /\ tails'[c].tail = 0 /\ epoch' = epoch /\ prod.pc = "tails"
    BY Zenon, <1>1, <1>3 DEF CreateTailsView, ProdInv, N
  <2>2. ep[c].tail \in Nat /\ ep[c].count \in Nat /\ Position(ep[c]) = ep[c].tail + ep[c].count
    BY <1>1, EpFields, Constants DEF Seqs, Position
  <2>3. ASSUME Calm, ep[c].epoch = epoch, ep[c].pc # "closed" PROVE ep[c].tail = 0 /\ Position(ep[c]) = 0
    <3>1. Position(ep[c]) <= 0
      BY Zenon, <2>1, <2>3 DEF PlaceInv
    <3> QED BY <2>2, <3>1
  <2>4. Calm' => Calm
    BY Zenon, <1>1, <2>1 DEF Calm
  <2> QED BY <1>1, <2>1, <2>3, <2>4 DEF PlaceInv, Attached, Reading, Fetching
<1>4. CASE ~WipeView /\ ~CreateHeaderView /\ ~CreateTailsView
  <2>1. /\ prod.pc \notin {"down", "create", "tails"}
        /\ tails' = tails /\ epoch' = epoch /\ (stream' = stream \/ StoreSeqView)
    BY Zenon, <1>1, <1>4, QueueShapes DEF QueueShape
  <2>2. N' \in {N, N + 1}
    BY <1>1, <2>1 DEF StoreSeqView, N
  <2>3. Calm' => Calm
    BY Zenon, <1>1, <2>1 DEF Calm
  <2>4. tails[c].tail \in Nat
    BY <1>1, TailFields, Constants DEF Seqs
  <2>5. tails[c].tail <= N => tails[c].tail <= N'
    BY <1>1, <2>2, <2>4
  <2>6. /\ Position(ep[c]) <= N => Position(ep[c]) <= N'
        /\ Position(ep[c]) < N => Position(ep[c]) < N'
    BY <1>1, <2>2
  <2> QED BY Zenon, <1>1, <2>1, <2>3, <2>5, <2>6 DEF PlaceInv
<1> QED BY Zenon, <1>2, <1>3, <1>4

(* min_tail, and what a scan of the producer finds, is no further than the *)
(* records published.                                                      *)
LEMMA MinProd ==
    ASSUME BaseInv, ProdStep, MinInv, \A c \in Readers : PlaceInv(c)
    PROVE  MinInv'
<1>1. /\ ProdView /\ profile' = profile /\ (stray => stray' \/ prod.pc = "create")
      /\ N \in Nat /\ ProdInv /\ stream \in Seq(Seqs) /\ min_tail \in Nat
      /\ prod.scan \in ScanType
  BY ProdFields, Constants DEF ProdStep, Quiet, BaseInv, Types, Seqs
<1>2. CASE WipeView \/ CreateHeaderView
  <2>1. min_tail' = 0 /\ N' \in Nat /\ prod'.pc # "scan"
    BY <1>1, <1>2 DEF WipeView, CreateHeaderView, N
  <2> QED BY <2>1 DEF MinInv
<1>3. CASE CreateTailsView
  BY Zenon, <1>1, <1>3 DEF CreateTailsView, MinInv, N, Calm
<1>4. CASE ~WipeView /\ ~CreateHeaderView /\ ~CreateTailsView
  <2>1. /\ prod.pc \notin {"down", "create", "tails"}
        /\ min_tail' = min_tail \/ StoreMinView
        /\ prod'.pc = "scan" => FullView \/ ScanTailView
        /\ stream' = stream \/ StoreSeqView
    BY Zenon, <1>1, <1>4, QueueShapes DEF QueueShape
  <2> SUFFICES ASSUME Calm'
               PROVE  min_tail' <= N' /\ (prod'.pc = "scan" => prod'.scan.tail <= N' /\ prod'.scan.min <= N')
    BY Zenon DEF MinInv
  <2>2. Calm /\ min_tail <= N /\ (prod.pc = "scan" => prod.scan.tail <= N /\ prod.scan.min <= N)
    BY Zenon, <1>1, <2>1 DEF Calm, MinInv
  <2>3. N' \in {N, N + 1}
    BY <1>1, <2>1 DEF StoreSeqView, N
  <2>4. min_tail' <= N
    <3>1. CASE StoreMinView
      <4>1. prod.pc = "scan" /\ min_tail' = ScanResult(prod.scan, N)
        BY Zenon, <1>1, <3>1 DEF StoreMinView, ProdInv, Busy
      <4> QED BY <1>1, <2>2, <4>1 DEF ScanResult
    <3> QED BY Zenon, <2>1, <2>2, <3>1
  <2>5. ASSUME prod'.pc = "scan" PROVE N' = N /\ prod'.scan.tail <= N /\ prod'.scan.min <= N
    <3>1. N' = N
      BY Zenon, <2>1, <2>5 DEF FullView, ScanTailView, Ring, N
    <3>2. CASE FullView
      BY <1>1, <3>1, <3>2 DEF FullView, NoScan
    <3>3. CASE ScanTailView
      <4>1. prod.pc = "scan" /\ prod.scan.next < Consumers /\ prod'.scan = ScanNext(prod.scan, Consumers)
        BY Zenon, <3>3 DEF ScanTailView
      <4>2. prod.scan.next \in Readers
        BY Zenon, <1>1, <4>1, ScanFields, Constants
      <4>3. tails[prod.scan.next].tail <= N
        BY Zenon, <2>2, <4>1, <4>2 DEF PlaceInv
      <4> QED BY Zenon, <1>1, <2>2, <3>1, <4>1, <4>3, ScanNextBound
    <3> QED BY Zenon, <2>1, <2>5, <3>2, <3>3
  <2>6. min_tail' <= N'
    <3>1. min_tail' \in Nat
      BY Constants DEF ProdStep, RingTypes, Seqs
    <3> QED BY <1>1, <2>3, <2>4, <3>1
  <2> QED BY Zenon, <2>5, <2>6
<1> QED BY Zenon, <1>2, <1>3, <1>4

(* A step of the producer keeps what the scan of an endpoint has found.    *)
LEMMA RefreshProd ==
    ASSUME BaseInv, ProdStep, NEW x \in Readers, PlaceInv(x), RefreshInv(x),
           \A c \in Readers : SpaceInv(c)
    PROVE  RefreshInv(x)'
<1> SUFFICES ASSUME Calm', ep'[x].epoch = epoch', ep'[x].pc = "refresh" PROVE RefreshInv(x)'
  BY Zenon DEF RefreshInv
<1>1. /\ ProdView /\ ep' = ep /\ profile' = profile /\ (stray => stray' \/ prod.pc = "create")
      /\ Position(ep[x])' = Position(ep[x]) /\ ProdInv /\ Position(ep[x]) \in Nat
  BY Zenon, BaseFacts DEF ProdStep, Quiet, Position
<1>2. ~WipeView /\ ~CreateHeaderView
  BY <1>1, NobodyLeft
<1>3. epoch' = epoch /\ prod.pc # "create"
  BY Zenon, <1>1, <1>2, ProdShapes DEF ProdShape
<1>4. Calm /\ ep[x].epoch = epoch /\ ep[x].pc = "refresh"
  BY Zenon, <1>1, <1>3 DEF Calm
<1>5. ASSUME NEW c \in Readers, Kept(c)' PROVE ScanPast(ep[x].scan, c, Position(ep[x]))'
  <2>1. Kept(c) /\ tails' = tails
    BY Zenon, <1>5, KeptProd
  <2> QED BY Zenon, <1>1, <1>4, <2>1 DEF RefreshInv, ScanPast
<1> QED BY Zenon, <1>1, <1>4, <1>5 DEF RefreshInv

(* A step of the producer keeps the invariant of queue mode.               *)
LEMMA QueueProd ==
    ASSUME BaseInv, SlotInv, QueueInv, ProdStep
    PROVE  QueueInv'
<1>1. Seekless' /\ \A c \in Readers : SeekInv(c)'
  BY Zenon DEF QueueInv, Seekless, SeekInv, ProdStep, Quiet
<1>2. ChunkInv /\ MinInv /\ \A c \in Readers : PlaceInv(c) /\ KeptInv(c) /\ RefreshInv(c)
  BY Zenon DEF QueueInv
<1>3. ChunkInv' /\ MinInv'
  BY Zenon, <1>2, ChunkProd, MinProd
<1>4. ASSUME NEW c \in Readers PROVE PlaceInv(c)' /\ KeptInv(c)' /\ RefreshInv(c)'
  <2>1. SpaceInv(c)' /\ ScanInv(c)'
    BY Zenon, <1>2, SpaceProd, ScanProd DEF KeptInv
  <2>2. UnreadInv(c)' /\ CopyInv(c)'
    BY Zenon, <1>2, UnreadProd, CopyProd DEF KeptInv
  <2>3. PlaceInv(c)' /\ RefreshInv(c)'
    BY Zenon, <1>2, PlaceProd, RefreshProd DEF KeptInv
  <2> QED BY Zenon, <2>1, <2>2, <2>3 DEF KeptInv
<1> QED BY Zenon, <1>1, <1>3, <1>4 DEF QueueInv
=============================================================================
