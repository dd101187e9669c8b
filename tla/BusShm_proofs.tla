---------------------------- MODULE BusShm_proofs ----------------------------
(***************************************************************************)
(* The theorems about the shared-memory bus, for any number of endpoints,  *)
(* any capacity and any number of restarts of the producer.  The inductive *)
(* invariants are StreamInv and HandedInv of BusShm_inv; BusShm_steps      *)
(* relates the actions to the fields they change, and BusShm_producer and  *)
(* BusShm_endpoint show that such steps keep the invariants.               *)
(***************************************************************************)
EXTENDS BusShm_steps, BusShm_endpoint

(* Every step of the program keeps the invariant of the stream.            *)
LEMMA StreamNext ==
    ASSUME StreamInv, [Next]_vars
    PROVE  StreamInv'
<1>1. CASE Next
  <2>1. RingStep
    BY Zenon, <1>1, NextStep DEF StreamInv, RingStep
  <2> QED BY Zenon, <2>1, StreamStep
<1>2. CASE UNCHANGED vars
  <2>1. UNCHANGED <<profile, slots, head, min_tail, epoch, tails, prod, next_seq, stream, ep, handed,
                    overtaken, quiet, stray>>
    BY Zenon, <1>2 DEF vars, shm, hist
  <2>2. BaseInv'
    BY ZenonT(40), <2>1 DEF StreamInv, BaseInv, Types, ProdInv, SeqInv, EpInv, EpBound, EpochInv, CallInv, N,
       Position, Index
  <2>3. SlotInv'
    BY Zenon, <2>1 DEF StreamInv, SlotInv, WriteInv, RingInv, N, Writing, Index
  <2>4. \A c \in Readers : Told(c)' /\ ReadInv(c)'
    BY ZenonT(40), <2>1 DEF StreamInv, Told, GapInv, SaidInv, ReadInv, Attached, Position, N, Index
  <2> QED BY Zenon, <2>2, <2>3, <2>4 DEF StreamInv
<1> QED BY Zenon, <1>1, <1>2

(* Every step of the program keeps what the endpoints have handed out.     *)
LEMMA HandedNext ==
    ASSUME HandedInv, [Next]_vars
    PROVE  HandedInv'
<1>1. CASE Next
  <2>1. RingStep
    BY Zenon, <1>1, NextStep DEF HandedInv, StreamInv, RingStep
  <2> QED BY Zenon, <2>1, HandedStep
<1>2. CASE UNCHANGED vars
  <2>1. UNCHANGED <<profile, slots, head, min_tail, epoch, tails, prod, next_seq, stream, ep, handed,
                    overtaken, quiet, stray>>
    BY Zenon, <1>2 DEF vars, shm, hist
  <2>2. StreamInv'
    BY Zenon, <1>2, StreamNext DEF HandedInv
  <2>3. Seekless' /\ ChunkInv' /\ MinInv'
    BY Zenon, <2>1 DEF HandedInv, QueueInv, Seekless, ChunkInv, MinInv, Calm, Writing, N
  <2>4. ASSUME NEW c \in Readers
        PROVE  SeekInv(c)' /\ PlaceInv(c)' /\ KeptInv(c)' /\ RefreshInv(c)' /\ HandInv(c)'
    <3>1. SeekInv(c)' /\ PlaceInv(c)' /\ HandInv(c)'
      BY Zenon, <2>1 DEF HandedInv, QueueInv, SeekInv, PlaceInv, HandInv, Calm, Attached, Trusted, Position, N
    <3>2. KeptInv(c)'
      BY Zenon, <2>1 DEF HandedInv, QueueInv, KeptInv, SpaceInv, UnreadInv, CopyInv, ScanInv, ScanPast, Kept,
         Calm, Attached, Holds, Writing, Index, Position, N
    <3>3. RefreshInv(c)'
      BY Zenon, <2>1 DEF HandedInv, QueueInv, RefreshInv, ScanPast, Kept, Calm, Attached, Position
    <3> QED BY Zenon, <3>1, <3>2, <3>3
  <2>5. LapInv' /\ OrderInv'
    BY Zenon, <2>1 DEF HandedInv, LapInv, OrderInv, Overwritten, Rewriting, N, Index
  <2>6. \A c \in Readers : FollowInv(c)'
    BY Zenon, <2>1 DEF HandedInv, FollowInv, Follows, Midway, Position, Attached, Trusted
  <2> QED BY Zenon, <2>2, <2>3, <2>4, <2>5, <2>6 DEF HandedInv, QueueInv
<1> QED BY Zenon, <1>1, <1>2

-----------------------------------------------------------------------------
(* The values the producer and the endpoints compute, positions after      *)
(* rewind, seek and the scans included, stay in their ranges.              *)
THEOREM Typed == Spec => []TypeOK
<1>1. Init => StreamInv
  BY Zenon, InitStream
<1>2. StreamInv /\ [Next]_vars => StreamInv'
  BY Zenon, StreamNext
<1>3. StreamInv => TypeOK
  BY Zenon, TypesOK DEF StreamInv
<1> QED BY <1>1, <1>2, <1>3, PTL DEF Spec

(* om_bus_endpoint_poll reports a gap in the WAL sequence numbers exactly  *)
(* when there is one, whatever calls came between, batches included.  A    *)
(* batch itself reports none: see BatchesSkipNothing.                      *)
THEOREM GapsReported == Spec => []NoSilentGap
<1>1. Init => StreamInv
  BY Zenon, InitStream
<1>2. StreamInv /\ [Next]_vars => StreamInv'
  BY Zenon, StreamNext
<1>3. StreamInv => NoSilentGap
  BY Zenon, GapsTold
<1> QED BY <1>1, <1>2, <1>3, PTL DEF Spec

(* OM_ERR_BUS_LAPPED is returned only to an endpoint whose record the      *)
(* producer has overwritten.                                               *)
THEOREM LapsAreReal == Spec => LappedIsTrue
<1> DEFINE Step == \A c \in Readers :
                       /\ ep'[c].lapped /\ ~ep[c].lapped /\ Attached(c)
                       => Len(stream) >= Position(ep[c]) + Capacity
<1>1. Init => StreamInv
  BY Zenon, InitStream
<1>2. StreamInv /\ [Next]_vars => StreamInv'
  BY Zenon, StreamNext
<1>3. StreamInv /\ [Next]_vars => [Step]_vars
  <2> SUFFICES ASSUME StreamInv, Next PROVE Step
    OBVIOUS
  <2>1. RingStep
    BY Zenon, NextStep DEF StreamInv, RingStep
  <2> QED BY Zenon, <2>1, LappedTrue DEF N
<1> HIDE DEF Step
<1>4. Init /\ [][Next]_vars => [][Step]_vars
  BY <1>1, <1>2, <1>3, PTL
<1> QED BY <1>4 DEF Spec, LappedIsTrue, Step

(* om_bus_stream_publish in queue mode never overwrites a record that an   *)
(* endpoint has still to read, whatever the endpoints and the producer     *)
(* store into min_tail.                                                    *)
THEOREM UnreadSurvives ==
    ASSUME SeeksBroadcast
    PROVE  Spec => []QueueKeepsUnread
<1>1. Init => HandedInv
  BY Zenon, InitHanded
<1>2. HandedInv /\ [Next]_vars => HandedInv'
  BY Zenon, HandedNext
<1>3. HandedInv => QueueKeepsUnread
  BY Zenon, UnreadKept
<1> QED BY <1>1, <1>2, <1>3, PTL DEF Spec

(* Between two records that an endpoint hands out one after the other, by  *)
(* om_bus_endpoint_poll or om_bus_endpoint_poll_batch, the stream has      *)
(* published no other, unless the endpoint seeks to the head.              *)
THEOREM BatchesSkipNothing ==
    ASSUME SeeksBroadcast
    PROVE  Spec => []NothingSkipped
<1>1. Init => HandedInv
  BY Zenon, InitHanded
<1>2. HandedInv /\ [Next]_vars => HandedInv'
  BY Zenon, HandedNext
<1>3. HandedInv => NothingSkipped
  BY Zenon, NoneSkipped
<1> QED BY <1>1, <1>2, <1>3, PTL DEF Spec

(* What om_bus_endpoint_poll and om_bus_endpoint_poll_batch hand out is    *)
(* the record that was published at that position, header and payload: a   *)
(* copy for good, a pointer into the ring until the producer comes round   *)
(* to the slot.                                                            *)
THEOREM HandedOutIntact ==
    ASSUME SeeksBroadcast
    PROVE  Spec => []IntactOrRefused
<1>1. Init => HandedInv
  BY Zenon, InitHanded
<1>2. HandedInv /\ [Next]_vars => HandedInv'
  BY Zenon, HandedNext
<1>3. HandedInv => IntactOrRefused
  BY Zenon, HandedIntact
<1> QED BY <1>1, <1>2, <1>3, PTL DEF Spec
=============================================================================
