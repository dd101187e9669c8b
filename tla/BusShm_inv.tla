----------------------------- MODULE BusShm_inv -----------------------------
(***************************************************************************)
(* The inductive invariant of BusShm, part by part.                        *)
(***************************************************************************)
EXTENDS ShmRing

N         == Len(stream)
SlotIndex == 0 .. Capacity - 1
Seqs      == 0 .. MaxSeq
Busy      == {"space", "scan", "invalidate", "payload", "header", "seq"}
Reading   == {"header", "copy", "recheck", "accept"}
Fetching  == Reading \cup {"seq"}

ScanType == [next : 0 .. Consumers, tail : -1 .. MaxSeq, min : -1 .. MaxSeq]
SlotType == [seq : 0 .. MaxSeq + Capacity, hdr : Seqs, crc : Seqs, payload : Seqs]
TailType == [tail : Seqs, wal_seq : Seqs, live : BOOLEAN, stale : BOOLEAN]
ProdType == [pc : Busy \cup {"idle", "head", "down", "create", "tails"},
             pos : Seqs, left : Nat, chunk : Int, scan : ScanType]
EpPc     == Fetching \cup {"closed", "open", "stamp", "idle", "peek", "tail", "end", "min", "refresh",
                           "restore", "dead"}
BackType == {<< >>} \cup (Seqs \X (0 .. MaxSeq + 1))
EpType   == [pc : EpPc, op : {"poll", "poll_batch"}, epoch : 0 .. MaxEpoch,
             expected : 0 .. MaxSeq + 1, tail : Seqs, seq : Nat, hdr : Seqs, crc : Seqs,
             copy : Seqs, count : Nat, scan : ScanType, back : BackType, lapped : BOOLEAN]
HandType == [seq : Seqs, payload : Seqs, ref : BOOLEAN, pos : -1 .. MaxSeq, prev : Seqs,
             result : {"none", "ok", "gap", "reorder", "batch"}]

Types ==
    /\ profile \in Profiles
    /\ head \in Seqs /\ min_tail \in Seqs /\ epoch \in 0 .. MaxEpoch
    /\ next_seq \in 1 .. MaxSeq + 1
    /\ stream \in Seq(Seqs)
    /\ slots \in [SlotIndex -> SlotType]
    /\ tails \in [Readers -> TailType]
    /\ prod \in ProdType
    /\ ep \in [Readers -> EpType]
    /\ handed \in [Readers -> HandType]
    /\ overtaken \subseteq Readers /\ quiet \subseteq Readers /\ stray \in BOOLEAN

-----------------------------------------------------------------------------
(* Where the producer is in the stream, and the bounds of a batch.         *)
ProdInv ==
    /\ head <= N /\ (prod.pc \in {"idle", "tails"} => head = N) /\ N < next_seq
    /\ prod.pc \in Busy \cup {"head"} => prod.pos = N
    /\ prod.pc \in Busy =>
          prod.left \in 1 .. Capacity + 1 /\ next_seq + prod.left - 1 <= profile.records
    /\ prod.pc \in {"idle", "head", "down", "tails"} => prod.left = 0
    /\ prod.pc = "invalidate" => profile.broadcast
    /\ prod.pc \in {"space", "scan"} => ~profile.broadcast
    /\ (epoch = 0) <=> (prod.pc = "create")
    /\ prod.pc = "create" => prod.left \in 1 .. MaxEpoch - 1
    /\ prod.pc = "down" => epoch < MaxEpoch
    /\ prod.pc = "tails" => N = 0
    /\ prod.pc \in {"create", "tails"} => \A i \in SlotIndex : slots[i].seq = 0

(* A sequence word is 0, the word the slot was created with, or names a    *)
(* position of this stream that belongs to the slot.                       *)
SeqInv ==
    \A i \in SlotIndex :
        \/ slots[i].seq \in {0, i}
        \/ slots[i].seq <= N /\ Index(slots[i].seq - 1) = i
(* Positions stay below the bound on the records.                          *)
EpBound(c) ==
    /\ Position(ep[c]) <= MaxSeq
    /\ ep[c].pc \in Reading => Position(ep[c]) < MaxSeq
    /\ ep[c].pc \in {"peek", "restore"} => ep[c].back # << >>

(* The invariant of an endpoint's call in progress.                        *)
EpochInv(c) ==
    ep[c].pc # "closed" => /\ epoch # 0 => ep[c].epoch \in 1 .. epoch
                           /\ epoch = 0 => ep[c].epoch \in 1 .. prod.left
CallInv(c) ==
    /\ ep[c].pc \in Reading => ep[c].seq = Position(ep[c]) + 1
    /\ ep[c].pc = "recheck" => profile.broadcast
    /\ ep[c].count <= profile.batch /\ (ep[c].pc \in Fetching => ep[c].count < profile.batch)
    /\ ep[c].pc \in Fetching /\ (ep[c].op = "poll" \/ profile.broadcast) => ep[c].count = 0
    /\ ep[c].pc = "end" => ep[c].op = "poll_batch" /\ ep[c].count > 0
    /\ ep[c].pc \in {"closed", "open", "stamp", "idle"} => ep[c].back = << >>
    /\ ep[c].pc \in Fetching \cup {"tail", "end"} /\ ep[c].op = "poll_batch" => ep[c].back = << >>
EpInv(c) == EpBound(c) /\ EpochInv(c) /\ CallInv(c)
BaseInv  == Types /\ ProdInv /\ SeqInv /\ \A c \in Readers : EpInv(c)

-----------------------------------------------------------------------------
(* The number an endpoint expects next follows the last record it handed   *)
(* out, or peek_previous keeps it, or a batch will store it.               *)
GapInv(c) ==
    ep[c].pc # "closed" /\ handed[c].seq # None =>
      /\ ep[c].back # << >> => ep[c].back[2] = handed[c].seq + 1
      /\ ep[c].back = << >> =>
            \/ ep[c].expected = handed[c].seq + 1
            \/ /\ ep[c].op = "poll_batch" /\ ep[c].count > 0
               /\ ep[c].pc \in Fetching \cup {"end", "dead"}
SaidInv(c) ==
    handed[c].prev # None => /\ handed[c].result = "ok" => handed[c].seq <= handed[c].prev + 1
                             /\ handed[c].result = "gap" => handed[c].seq > handed[c].prev + 1
Told(c) == GapInv(c) /\ SaidInv(c)

(* The slot that the producer writes, by how far it has got.               *)
WriteInv ==
    /\ prod.pc \in {"header", "seq"} => slots[Index(N)].payload = next_seq
    /\ prod.pc = "seq" => slots[Index(N)].hdr = next_seq
    /\ profile.broadcast /\ Writing => slots[Index(N)].seq = 0
(* In broadcast mode a sequence word vouches for its slot.                 *)
RingInv ==
    profile.broadcast =>
        \A k \in 0 .. N - 1 :
            slots[Index(k)].seq = k + 1 =>
                slots[Index(k)].hdr = stream[k + 1] /\ slots[Index(k)].payload = stream[k + 1]
SlotInv == WriteInv /\ RingInv

(* Whom the invariants of the endpoints speak of.                          *)
Trusted(c) == profile.broadcast \/ (c \notin overtaken /\ ~stray)
(* Broadcast mode: what an endpoint has read is good while the sequence    *)
(* word still fits, and when it does not the producer is a lap ahead.      *)
ReadInv(c) ==
    profile.broadcast /\ Attached(c) /\ ep[c].pc \in Reading =>
        LET p == Position(ep[c])
        IN  /\ p < N
            /\ slots[Index(p)].seq # p + 1 => N >= p + Capacity
            /\ slots[Index(p)].seq = p + 1 =>
                  /\ ep[c].pc \in {"copy", "recheck"} => ep[c].hdr = stream[p + 1]
                  /\ ep[c].pc = "recheck" => ep[c].copy = stream[p + 1]
            /\ ep[c].pc = "accept" => ep[c].hdr = stream[p + 1] /\ ep[c].copy = stream[p + 1]
(* What an endpoint is about to accept, and what it handed out last.       *)
ReadyInv(c) ==
    Attached(c) /\ Trusted(c) /\ ep[c].pc = "accept" =>
        LET p == Position(ep[c])
        IN  p < N /\ ep[c].hdr = stream[p + 1] /\ ep[c].copy = stream[p + 1]
HandInv(c) ==
    /\ ep[c].pc \in {"open", "stamp"} => handed[c].seq = None
    /\ Attached(c) /\ Trusted(c) /\ handed[c].seq # None =>
          /\ handed[c].pos \in 0 .. N - 1
          /\ handed[c].seq = stream[handed[c].pos + 1]
          /\ handed[c].payload = stream[handed[c].pos + 1]

(* A slot shows its last record until the producer comes round to it.      *)
LapInv ==
    prod.pc # "create" =>
        \A k \in 0 .. N - 1 : ~Overwritten(k) => slots[Index(k)].payload = stream[k + 1]
(* The records are published in the order of their numbers.                *)
OrderInv ==
    /\ \A k \in 1 .. N : stream[k] < next_seq
    /\ \A j \in 1 .. N : \A k \in 1 .. N : j < k => stream[j] < stream[k]
(* An endpoint that does not seek goes on behind the record it handed out  *)
(* last, wherever it keeps that position, and the record before that one   *)
(* was the one before it in the stream.                                    *)
Midway(e) == e.pc \in Fetching \cup {"end"}
Follows(e, t, q) ==
    /\ e.back # << >> => e.back[1] = q
    /\ e.back = << >> /\ Midway(e) => Position(e) = q
    /\ e.back = << >> /\ ~(Midway(e) /\ e.count > 0) => t = q
FollowInv(c) ==
    Attached(c) /\ Trusted(c) /\ "seek_head" \notin profile.ops /\ handed[c].seq # None =>
        /\ Follows(ep[c], tails[c].tail, handed[c].pos + 1)
        /\ handed[c].prev # None => handed[c].pos >= 1 /\ handed[c].prev = stream[handed[c].pos]

-----------------------------------------------------------------------------
(* Queue mode.  Calm: the tails are those of the endpoints of this epoch.  *)
Seekless == profile.broadcast \/ profile.ops \cap {"seek_head", "rewind", "peek"} = {}
Calm     == ~profile.broadcast /\ ~stray
ChunkInv == ~profile.broadcast /\ Writing => prod.chunk \in 1 .. Capacity
SeekInv(c) == ~profile.broadcast => ep[c].back = << >>

(* Nothing stands past the records that were published.                    *)
MinInv ==
    Calm => min_tail <= N /\ (prod.pc = "scan" => prod.scan.tail <= N /\ prod.scan.min <= N)
PlaceInv(c) ==
    Calm =>
      /\ prod.pc \notin {"create", "tails"} \/ Attached(c) => tails[c].tail <= N
      /\ ep[c].epoch = epoch =>
           /\ ep[c].pc # "closed" => Position(ep[c]) <= N
           /\ ep[c].pc \in Reading => Position(ep[c]) < N
           /\ ep[c].pc \in Fetching \cup {"end", "stamp"} => ep[c].tail = tails[c].tail
           /\ ep[c].pc \in {"min", "refresh"} =>
                 tails[c].live /\ Position(ep[c]) = tails[c].tail /\ Position(ep[c]) > 0

(* An endpoint that the producer has to wait for: it is counted, min_tail  *)
(* is no further, and what is being written still fits.                    *)
Kept(c)  == Calm /\ Attached(c) /\ c \notin overtaken
SpaceInv(c) ==
    Kept(c) => /\ tails[c].live /\ min_tail <= tails[c].tail
               /\ N <= tails[c].tail + Capacity
               /\ Writing => N + prod.chunk <= tails[c].tail + Capacity
(* The records it has not read are in their slots, and it reads them.      *)
Holds(k) == /\ slots[Index(k)].seq = k + 1
            /\ slots[Index(k)].hdr = stream[k + 1] /\ slots[Index(k)].payload = stream[k + 1]
UnreadInv(c) == Kept(c) => \A k \in Seqs : tails[c].tail <= k /\ k < N => Holds(k)
CopyInv(c) ==
    Kept(c) => /\ ep[c].pc \in {"copy", "accept"} => ep[c].hdr = stream[Position(ep[c]) + 1]
               /\ ep[c].pc = "accept" => ep[c].copy = stream[Position(ep[c]) + 1]
(* A scan that is past endpoint c has found a minimum that c allows; where *)
(* the limit is below the tail of c, any minimum does.                     *)
ScanPast(s, c, limit) ==
    /\ s.next > c => s.min \in 0 .. tails[c].tail \/ limit <= tails[c].tail
    /\ s.next = c => s.tail <= tails[c].tail \/ limit <= tails[c].tail
ScanInv(c) == Kept(c) /\ prod.pc = "scan" => ScanPast(prod.scan, c, N)
RefreshInv(x) ==
    Calm /\ ep[x].epoch = epoch /\ ep[x].pc = "refresh" =>
      /\ ep[x].scan.next > x => ep[x].scan.min \in 0 .. Position(ep[x])
      /\ ep[x].scan.next = x => ep[x].scan.tail \in {-1, Position(ep[x])}
      /\ \A c \in Readers : Kept(c) => ScanPast(ep[x].scan, c, Position(ep[x]))
KeptInv(c) == SpaceInv(c) /\ UnreadInv(c) /\ CopyInv(c) /\ ScanInv(c)
QueueInv ==
    /\ Seekless /\ ChunkInv /\ MinInv
    /\ \A c \in Readers : SeekInv(c) /\ PlaceInv(c) /\ KeptInv(c) /\ RefreshInv(c)

-----------------------------------------------------------------------------
(* The invariant of every stream, and of one whose endpoints seek in       *)
(* broadcast mode only.                                                    *)
StreamInv == BaseInv /\ SlotInv /\ \A c \in Readers : Told(c) /\ ReadInv(c)
HandedInv ==
    StreamInv /\ QueueInv /\ LapInv /\ OrderInv /\ \A c \in Readers : HandInv(c) /\ FollowInv(c)

-----------------------------------------------------------------------------
Mins     == UNCHANGED <<min_tail, overtaken>>
RingTypes ==
    /\ head \in Seqs /\ min_tail \in Seqs /\ epoch \in 0 .. MaxEpoch /\ next_seq \in 1 .. MaxSeq + 1
    /\ stream \in Seq(Seqs) /\ slots \in [SlotIndex -> SlotType]
    /\ tails \in [Readers -> TailType] /\ prod \in ProdType /\ overtaken \subseteq Readers

EpTypes ==
    /\ min_tail \in Seqs /\ tails \in [Readers -> TailType] /\ ep \in [Readers -> EpType]
    /\ handed \in [Readers -> HandType] /\ overtaken \subseteq Readers /\ quiet \subseteq Readers
=============================================================================
