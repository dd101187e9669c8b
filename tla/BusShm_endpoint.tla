-------------------------- MODULE BusShm_endpoint ---------------------------
(***************************************************************************)
(* The steps of the endpoints and of the clock keep the invariant.         *)
(***************************************************************************)
EXTENDS BusShm_producer, BusShm_views

(* Which steps of an endpoint read a record, report a lap, hand out, or    *)
(* change who is overtaken.                                                *)
EpShape(c) ==
    /\ ep'[c].pc \in Reading => \/ CheckSeqView(c) /\ ep'[c].pc = "header"
                                \/ ReadHeaderView(c) \/ CopyPayloadView(c)
                                \/ RecheckView(c) /\ ep'[c].pc = "accept"
    /\ ep'[c].lapped => ep[c].lapped \/ CheckSeqView(c) \/ RecheckView(c)
    /\ overtaken \ {c} \subseteq overtaken' /\ (overtaken \subseteq overtaken' \/ ep[c].pc = "stamp")
    /\ handed'[c] \in {handed[c], NoHanded} \/ AcceptView(c) \/ AcceptBatchView(c)
    /\ \/ ep'[c].pc \in {"closed", "dead"} \/ ep[c].pc \in {"closed", "open", "stamp"}
       \/ ep'[c].pc \notin {"open", "stamp"} /\ ep[c].pc # "dead" /\ ep'[c].epoch = ep[c].epoch
    /\ ep[c].pc = "closed" => handed'[c] = NoHanded

(* Each step of an endpoint has one of the shapes that EpShape lists.      *)
LEMMA EpShapes ==
    ASSUME NEW c \in Readers, EpView(c)
    PROVE  EpShape(c)
<1>1. CASE OpenView(c)
  BY Zenon, <1>1 DEF EpShape, Reading, OpenView, Mins, NoLap
<1>2. CASE OpenTailView(c)
  BY Zenon, <1>2 DEF EpShape, Reading, OpenTailView, Mins, NoLap, Call
<1>3. CASE OpenStampView(c)
  BY Zenon, <1>3 DEF EpShape, Reading, OpenStampView, NoLap, Call
<1>4. CASE CloseView(c)
  BY Zenon, <1>4 DEF EpShape, Reading, CloseView, Mins, NoLap
<1>5. CASE DieView(c)
  BY Zenon, <1>5 DEF EpShape, Reading, DieView, Mine, Mins, NoLap, Call
<1>6. CASE LeaveView(c)
  BY Zenon, <1>6 DEF EpShape, Reading, LeaveView, Home, Mine, Mins, NoLap, Call
<1>7. CASE PollView(c)
  BY Zenon, <1>7 DEF EpShape, Reading, PollView, Mine, Mins, NoLap, Call
<1>8. CASE LoadTailView(c)
  BY Zenon, <1>8 DEF EpShape, Reading, LoadTailView, Mine, Mins, NoLap, Call
<1>9. CASE CheckSeqView(c)
  BY Zenon, <1>9 DEF EpShape, Reading, CheckSeqView, StopView, Home, Mine, Mins, NoLap, Call
<1>10. CASE ReadHeaderView(c)
  BY Zenon, <1>10 DEF EpShape, Reading, ReadHeaderView, Mine, Mins, NoLap, Call
<1>11. CASE CopyPayloadView(c)
  BY Zenon, <1>11 DEF EpShape, Reading, CopyPayloadView, Mine, Mins, NoLap, Call
<1>12. CASE RecheckView(c)
  BY Zenon, <1>12 DEF EpShape, Reading, RecheckView, StopView, Home, Mine, Mins, NoLap, Call
<1>13. CASE RefuseView(c)
  BY Zenon, <1>13 DEF EpShape, Reading, RefuseView, StopView, Home, Mine, Mins, NoLap, Call
<1>14. CASE AcceptView(c)
  BY Zenon, <1>14 DEF EpShape, Reading, AcceptView, Home, Mins, NoLap, Call
<1>15. CASE AcceptBatchView(c)
  BY Zenon, <1>15 DEF EpShape, Reading, AcceptBatchView, Mins, NoLap, Call
<1>16. CASE BatchEndView(c)
  BY Zenon, <1>16 DEF EpShape, Reading, BatchEndView, Home, Mins, NoLap, Call, Regs
<1>17. CASE CheckMinView(c)
  BY Zenon, <1>17 DEF EpShape, Reading, CheckMinView, Home, Mine, Mins, NoLap, Call
<1>18. CASE RefreshScanView(c)
  BY Zenon, <1>18 DEF EpShape, Reading, RefreshScanView, Mine, NoLap, Call
<1>19. CASE RefreshStoreView(c)
  BY Zenon, <1>19 DEF EpShape, Reading, RefreshStoreView, Home, Mine, NoLap, Call
<1>20. CASE SeekHeadView(c)
  BY Zenon, <1>20 DEF EpShape, Reading, SeekHeadView, Mins
<1>21. CASE RewindView(c)
  BY Zenon, <1>21 DEF EpShape, Reading, RewindView, Mins, NoLap, Call
<1>22. CASE PeekView(c)
  BY Zenon, <1>22 DEF EpShape, Reading, PeekView, Mins, NoLap
<1>23. CASE RestoreView(c)
  BY Zenon, <1>23 DEF EpShape, Reading, RestoreView, Mins, NoLap
<1> QED BY Zenon, <1>1, <1>2, <1>3, <1>4, <1>5, <1>6, <1>7, <1>8, <1>9, <1>10, <1>11, <1>12, <1>13, <1>14, <1>15, <1>16, <1>17, <1>18, <1>19, <1>20, <1>21, <1>22, <1>23 DEF EpView

-----------------------------------------------------------------------------
(* The numbers of a call.                                                  *)
LEMMA CallFacts ==
    ASSUME BaseInv, NEW c \in Readers
    PROVE  /\ ep[c].tail \in Nat /\ ep[c].count \in Nat /\ profile.batch \in Nat \ {0}
           /\ tails[c].tail <= MaxSeq /\ tails[c].tail \in Nat
           /\ MaxSeq \in Nat /\ head \in 0 .. MaxSeq /\ ep[c].op \in {"poll", "poll_batch"}
           /\ Position(ep[c]) <= MaxSeq /\ ep[c].count <= profile.batch
           /\ Position(ep[c]) = ep[c].tail + ep[c].count
           /\ Position(ep'[c]) = ep'[c].tail + ep'[c].count
<1>1. Types /\ EpBound(c) /\ CallInv(c) /\ ep[c] \in EpType /\ tails[c].tail \in Seqs
  BY Zenon, BaseFacts, TailFields
<1>2. Position(ep[c]) <= MaxSeq /\ ep[c].count <= profile.batch
  BY Zenon, <1>1 DEF EpBound, CallInv
<1> QED BY <1>1, <1>2, EpFields, ProfileType, Constants DEF Types, Seqs, Position

(* An endpoint that reads nothing, a call that returned, one that reads    *)
(* on, and one that stops.                                                 *)
LEMMA CallRests ==
    ASSUME NEW c \in Readers, profile' = profile, ep'[c].count \in Nat, profile.batch \in Nat,
           ep'[c].pc \in {"closed", "open", "stamp", "idle", "peek", "tail", "min", "refresh",
                          "restore", "dead"},
           Position(ep'[c]) <= MaxSeq, ep'[c].count <= profile.batch,
           ep'[c].pc \in {"peek", "restore"} => ep'[c].back # << >>,
           ep'[c].pc \in {"closed", "open", "stamp", "idle"} => ep'[c].back = << >>,
           ep'[c].pc # "tail" \/ ep'[c].op = "poll" \/ ep'[c].back = << >>
    PROVE  EpBound(c)' /\ CallInv(c)'
  BY Zenon DEF EpBound, CallInv, Fetching, Reading, Position

(* A call that returns leaves the endpoint between two calls.              *)
LEMMA CallHome ==
    ASSUME NEW c \in Readers, profile' = profile, profile.batch \in Nat, MaxSeq \in Nat, Home(c)
    PROVE  EpBound(c)' /\ CallInv(c)'
<1>1. Position(ep'[c]) = 0
  BY DEF Home, Position
<1> QED BY <1>1, CallRests DEF Home, Call

(* A step inside the reading of a record keeps the call's position and     *)
(* count in bounds.                                                        *)
LEMMA CallReads ==
    ASSUME BaseInv, NEW c \in Readers, profile' = profile, ep[c].pc \in Reading, ep'[c].pc \in Reading,
           Regs(c), Call(c), ep'[c].seq = ep[c].seq, ep'[c].pc = "recheck" => profile.broadcast
    PROVE  EpBound(c)' /\ CallInv(c)'
<1>1. /\ Position(ep'[c]) = Position(ep[c]) /\ ep'[c].back = ep[c].back /\ ep'[c].op = ep[c].op
      /\ ep'[c].count = ep[c].count
  BY Zenon, CallFacts DEF Regs, Call
<1>2. /\ ep[c].pc \in Fetching /\ ep'[c].pc \in Fetching
      /\ ep'[c].pc \notin {"end", "closed", "open", "stamp", "idle", "tail", "peek", "restore"}
  BY Zenon DEF Fetching, Reading
<1>3. EpBound(c) /\ CallInv(c)
  BY Zenon, BaseFacts
<1> QED BY Zenon, <1>1, <1>2, <1>3 DEF CallInv, EpBound

(* A call that finds no record, or ends its batch, keeps its position and  *)
(* count in bounds.                                                        *)
LEMMA CallStops ==
    ASSUME BaseInv, NEW c \in Readers, profile' = profile, ep[c].pc \in Fetching, StopView(c)
    PROVE  EpBound(c)' /\ CallInv(c)'
<1>1. CASE Home(c)
  BY Zenon, <1>1, CallHome, CallFacts
<1>2. CASE ~Home(c)
  <2>1. /\ ep'[c].pc = "end" /\ ep[c].count > 0 /\ ep'[c].op = ep[c].op /\ ep'[c].back = ep[c].back
        /\ ep'[c].count = ep[c].count /\ ep'[c].tail = ep[c].tail
    BY Zenon, <1>2 DEF StopView, Regs, Call
  <2>2. CallInv(c) /\ ep[c].count \in Nat /\ ep[c].op \in {"poll", "poll_batch"}
    BY Zenon, BaseFacts, CallFacts
  <2>3. ep[c].op = "poll_batch" /\ ep[c].back = << >>
    BY <2>1, <2>2 DEF CallInv
  <2> QED BY Zenon, <2>1, <2>3, CallFacts DEF EpBound, CallInv, Fetching, Reading
<1> QED BY Zenon, <1>1, <1>2

(* om_bus_endpoint_poll_batch counts no more records than its limit.       *)
LEMMA CallBatch ==
    ASSUME BaseInv, NEW c \in Readers, profile' = profile, AcceptBatchView(c)
    PROVE  EpBound(c)' /\ CallInv(c)'
<1>1. /\ ep[c].pc = "accept" /\ ep[c].op = "poll_batch" /\ ep'[c].op = "poll_batch"
      /\ ep'[c].pc \in {"end", "seq"} /\ ep'[c].count = ep[c].count + 1
      /\ ep'[c].tail = ep[c].tail /\ ep'[c].back = ep[c].back
      /\ profile.broadcast /\ ep[c].count + 1 = 1 => ep'[c].pc = "end"
      /\ ~profile.broadcast /\ ep[c].count + 1 = profile.batch => ep'[c].pc = "end"
  BY Zenon DEF AcceptBatchView, Call
<1>2. /\ ep[c].count < profile.batch /\ ep[c].back = << >> /\ Position(ep[c]) < MaxSeq
      /\ profile.broadcast => ep[c].count = 0
  BY Zenon, <1>1, BaseFacts DEF EpBound, CallInv, Fetching, Reading
<1>3. /\ Position(ep'[c]) <= MaxSeq /\ ep'[c].count <= profile.batch /\ ep'[c].count > 0
      /\ ep'[c].pc = "seq" => ep'[c].count < profile.batch /\ ~profile.broadcast
  <2>1. /\ ep[c].tail \in Nat /\ ep[c].count \in Nat /\ profile.batch \in Nat /\ MaxSeq \in Nat
        /\ Position(ep[c]) = ep[c].tail + ep[c].count
        /\ Position(ep'[c]) = ep'[c].tail + ep'[c].count
    BY Zenon, CallFacts
  <2>2. /\ ep'[c].count = ep[c].count + 1 /\ ep'[c].tail = ep[c].tail
        /\ ep[c].count < profile.batch /\ Position(ep[c]) < MaxSeq
    BY Zenon, <1>1, <1>2
  <2>3. ep'[c].pc = "seq" => ep[c].count + 1 # profile.batch /\ ~profile.broadcast
    BY <1>1, <1>2
  <2> QED BY <2>1, <2>2, <2>3
<1> QED BY Zenon, <1>1, <1>2, <1>3 DEF EpBound, CallInv, Fetching, Reading

(* om_bus_endpoint_poll takes one record.                                  *)
LEMMA CallAccept ==
    ASSUME BaseInv, NEW c \in Readers, profile' = profile, AcceptView(c)
    PROVE  EpBound(c)' /\ CallInv(c)'
<1>1. ep[c].pc = "accept"
  BY Zenon DEF AcceptView
<1>2. CASE Home(c)
  BY Zenon, <1>2, CallHome, CallFacts
<1>3. CASE ~Home(c)
  <2>1. ep'[c].pc = "min" /\ ep'[c].tail = ep[c].tail /\ ep'[c].count = 1
    BY Zenon, <1>3 DEF AcceptView
  <2>2. Position(ep[c]) < MaxSeq
    BY Zenon, <1>1, BaseFacts DEF EpBound, Reading
  <2>3. /\ ep[c].tail \in Nat /\ ep[c].count \in Nat /\ profile.batch \in Nat \ {0} /\ MaxSeq \in Nat
        /\ Position(ep[c]) = ep[c].tail + ep[c].count
        /\ Position(ep'[c]) = ep'[c].tail + ep'[c].count
    BY Zenon, CallFacts
  <2>4. Position(ep'[c]) <= MaxSeq /\ ep'[c].count <= profile.batch /\ ep'[c].count \in Nat
    BY <2>1, <2>2, <2>3
  <2> QED BY Zenon, <2>1, <2>3, <2>4, CallRests
<1> QED BY Zenon, <1>2, <1>3

(* A call goes on to a record only when the slot's sequence number is that *)
(* of its position.                                                        *)
LEMMA CallFinds ==
    ASSUME BaseInv, NEW c \in Readers, profile' = profile, ep[c].pc = "seq", ep'[c].pc = "header",
           slots[Index(Position(ep[c]))].seq = Position(ep[c]) + 1,
           ep'[c].seq = Position(ep[c]) + 1, Regs(c), Call(c)
    PROVE  EpBound(c)' /\ CallInv(c)'
<1>1. /\ Position(ep'[c]) = Position(ep[c]) /\ ep'[c].back = ep[c].back /\ ep'[c].op = ep[c].op
      /\ ep'[c].count = ep[c].count
  BY Zenon, CallFacts DEF Regs, Call
<1>2. Position(ep[c]) < MaxSeq /\ Position(ep[c]) <= MaxSeq
  BY Zenon, SeqHit, BaseFacts, CallFacts
<1>3. CallInv(c)
  BY Zenon, BaseFacts
<1> QED BY Zenon, <1>1, <1>2, <1>3 DEF EpBound, CallInv, Fetching, Reading

(* A step of an endpoint keeps the invariant of its call.                  *)
LEMMA CallStep ==
    ASSUME BaseInv, NEW c \in Readers, EpStep(c)
    PROVE  EpBound(c)' /\ CallInv(c)'
<1>1. EpView(c) /\ profile' = profile
  BY Zenon DEF EpStep, Static
<1>3. /\ ep[c].tail \in Nat /\ ep[c].count \in Nat /\ profile.batch \in Nat \ {0}
      /\ tails[c].tail <= MaxSeq /\ tails[c].tail \in Nat
      /\ MaxSeq \in Nat /\ head \in 0 .. MaxSeq /\ ep[c].op \in {"poll", "poll_batch"}
      /\ Position(ep[c]) <= MaxSeq /\ ep[c].count <= profile.batch
      /\ Position(ep[c]) = ep[c].tail + ep[c].count
      /\ Position(ep'[c]) = ep'[c].tail + ep'[c].count
  BY Zenon, CallFacts
<1>5. ep[c].pc \in {"open", "stamp", "idle"} => ep[c].back = << >>
  BY Zenon, BaseFacts DEF CallInv
<1>8. CASE OpenView(c)
  BY <1>1, <1>3, <1>5, CallRests, <1>8 DEF OpenView, Regs, Call
<1>9. CASE OpenTailView(c)
  BY Zenon, <1>1, <1>3, <1>5, CallRests, <1>9 DEF OpenTailView, Regs, Call
<1>10. CASE OpenStampView(c)
  BY <1>1, <1>3, <1>5, CallRests, <1>10 DEF OpenStampView, Regs, Call
<1>11. CASE CloseView(c)
  BY <1>1, <1>3, <1>5, CallRests, <1>11 DEF CloseView, Regs, Call
<1>12. CASE DieView(c)
  BY Zenon, <1>1, <1>3, <1>5, CallRests, <1>12 DEF DieView, Regs, Call
<1>13. CASE LeaveView(c)
  BY Zenon, <1>1, <1>3, CallHome, <1>13 DEF LeaveView
<1>14. CASE PollView(c)
  BY Zenon, <1>1, <1>3, <1>5, CallRests, <1>14 DEF PollView, Call
<1>15. CASE LoadTailView(c)
  <2>1. ep'[c].op = "poll_batch" => ep'[c].back = << >>
    BY Zenon, BaseFacts, <1>15 DEF LoadTailView, Call, CallInv
  <2> QED BY <1>1, <1>3, <1>15, <2>1 DEF EpBound, CallInv, Fetching, Reading, LoadTailView
<1>16. CASE ReadHeaderView(c)
  BY Zenon, <1>1, CallReads, <1>16 DEF ReadHeaderView, Reading
<1>17. CASE CopyPayloadView(c)
  BY Zenon, <1>1, CallReads, <1>17 DEF CopyPayloadView, Reading
<1>18. CASE RefreshScanView(c)
  BY Zenon, <1>1, <1>3, <1>5, CallRests, <1>18 DEF RefreshScanView, Regs
<1>19. CASE RefreshStoreView(c)
  BY Zenon, <1>1, <1>3, CallHome, <1>19 DEF RefreshStoreView
<1>20. CASE SeekHeadView(c)
  BY Zenon, <1>1, <1>3, <1>5, CallRests, <1>20 DEF SeekHeadView, Call
<1>21. CASE RewindView(c)
  BY Zenon, <1>1, <1>3, <1>5, CallRests, <1>21 DEF RewindView, Regs, Call
<1>22. CASE PeekView(c)
  BY Zenon, <1>1, <1>3, <1>5, CallRests, <1>22 DEF PeekView, Regs
<1>23. CASE RestoreView(c)
  BY Zenon, <1>1, <1>3, <1>5, CallRests, <1>23 DEF RestoreView, Regs
<1>24. CASE BatchEndView(c)
  <2>1. Home(c) \/ (ep'[c].pc = "min" /\ Regs(c))
    BY Zenon, <1>24 DEF BatchEndView
  <2> QED BY Zenon, <1>1, <1>3, CallHome, CallRests, <2>1 DEF Regs
<1>25. CASE CheckMinView(c)
  <2>1. Home(c) \/ (ep'[c].pc = "refresh" /\ Regs(c))
    BY Zenon, <1>25 DEF CheckMinView
  <2> QED BY Zenon, <1>1, <1>3, CallHome, CallRests, <2>1 DEF Regs
<1>26. CASE AcceptBatchView(c)
  BY Zenon, <1>1, CallBatch, <1>26
<1>27. CASE RefuseView(c)
  BY Zenon, <1>1, CallStops, <1>27 DEF RefuseView, Fetching, Reading
<1>28. CASE RecheckView(c)
  <2>1. CASE StopView(c)
    BY Zenon, <1>1, CallStops, <1>28, <2>1 DEF RecheckView, Fetching, Reading
  <2>2. CASE ~StopView(c)
    BY Zenon, <1>1, CallReads, <1>28, <2>2 DEF RecheckView, Reading, Data
  <2> QED BY Zenon, <2>1, <2>2
<1>29. CASE AcceptView(c)
  BY Zenon, <1>1, CallAccept, <1>29
<1>30. CASE CheckSeqView(c)
  <2>1. CASE StopView(c)
    BY Zenon, <1>1, CallStops, <1>30, <2>1 DEF CheckSeqView, Fetching
  <2>2. CASE ~StopView(c)
    <3>1. /\ slots[Index(Position(ep[c]))].seq = Position(ep[c]) + 1 /\ ep[c].pc = "seq"
          /\ ep'[c].pc = "header" /\ ep'[c].seq = Position(ep[c]) + 1 /\ Regs(c) /\ Call(c)
      BY ZenonT(30), <1>30, <2>2 DEF CheckSeqView, Slot
    <3> QED BY Zenon, <1>1, CallFinds, <3>1
  <2> QED BY Zenon, <2>1, <2>2
<1> QED BY ZenonT(40), <1>1, <1>8, <1>9, <1>10, <1>11, <1>12, <1>13, <1>14, <1>15, <1>16, <1>17, <1>18, <1>19, <1>20, <1>21, <1>22, <1>23, <1>24, <1>25, <1>26, <1>27, <1>28, <1>29, <1>30 DEF EpView

(* A step of an endpoint keeps the positions, epochs and calls in bounds.  *)
LEMMA EndpointBase ==
    ASSUME BaseInv, NEW c \in Readers, EpStep(c)
    PROVE  BaseInv'
<1>1. Types /\ ProdInv /\ SeqInv /\ EpInv(c) /\ epoch \in Nat
  BY Constants DEF BaseInv, Types
<1>2. EpView(c) /\ Others(c) /\ Static /\ EpTypes'
  BY Zenon DEF EpStep
<1>3. stray' \in BOOLEAN
  BY Zenon DEF EpStep
<1>4. Types'
  BY Zenon, <1>1, <1>2, <1>3 DEF Types, EpTypes, Static
<1>5. ProdInv' /\ SeqInv'
  BY ZenonT(30), <1>1, <1>2 DEF ProdInv, SeqInv, Static, N
<1>6. ASSUME NEW d \in Readers, d # c PROVE EpInv(d)'
  BY ZenonT(40), <1>2, <1>6 DEF BaseInv, EpInv, EpBound, EpochInv, CallInv, Others, Static, Position
<1>7. EpochInv(c)'
  <2>1. \/ OpenView(c) \/ ep'[c].pc = "closed"
        \/ ep'[c].epoch = ep[c].epoch /\ ep[c].pc # "closed"
    BY Zenon, <1>2 DEF EpView, OpenTailView, OpenStampView, CloseView, DieView, LeaveView, PollView, LoadTailView,
                CheckSeqView, ReadHeaderView, CopyPayloadView, RecheckView, RefuseView, AcceptView,
                AcceptBatchView, BatchEndView, CheckMinView, RefreshScanView, RefreshStoreView,
                SeekHeadView, RewindView, PeekView, RestoreView, StopView, Home, Call
  <2>2. EpochInv(c) /\ epoch' = epoch /\ prod' = prod
    BY Zenon, <1>1, <1>2 DEF EpInv, Static
  <2>3. OpenView(c) => epoch # 0 /\ ep'[c].epoch = epoch
    BY Zenon DEF OpenView
  <2> QED BY <1>1, <2>1, <2>2, <2>3 DEF EpochInv
<1>8. EpInv(c)'
  BY Zenon, <1>7, CallStep DEF EpInv
<1> QED BY Zenon, <1>4, <1>5, <1>6, <1>8 DEF BaseInv

(* So does the passing of time.                                            *)
LEMMA ClockBase ==
    ASSUME BaseInv, TimeStep
    PROVE  BaseInv'
<1>1. ClockView /\ EpTypes' /\ stray' = stray
  BY Zenon DEF TimeStep
<1>2. Types'
  BY Zenon, <1>1 DEF BaseInv, Types, EpTypes, ClockView, Static
<1> QED BY ZenonT(40), <1>1, <1>2 DEF BaseInv, ProdInv, SeqInv, EpInv, EpBound, EpochInv, CallInv, ClockView, Static,
                         Position, N

-----------------------------------------------------------------------------
(* What is told about gaps is kept by a step that hands out nothing and    *)
(* expects what it expected.                                               *)
LEMMA GapKeep ==
    ASSUME NEW c \in Readers, Told(c), handed'[c] = handed[c], Call(c), Expects(c, ep[c].expected),
           ep[c].pc # "closed",
           \/ ep[c].count = 0 /\ ep[c].count \notin Nat \ {0}
           \/ ep[c].pc \notin Fetching \cup {"end", "dead"}
           \/ /\ ep'[c].op = ep[c].op /\ ep'[c].count = ep[c].count
              /\ ep'[c].pc \in Fetching \cup {"end", "dead"}
    PROVE  Told(c)'
  BY DEF Told, GapInv, SaidInv, Call, Expects

(* A poll that ends without a record tells nothing.                        *)
LEMMA GapStops ==
    ASSUME NEW c \in Readers, Told(c), StopView(c), ep[c].pc \in Fetching
    PROVE  Told(c)'
<1>1. ep[c].pc # "closed"
  BY Zenon DEF Fetching, Reading
<1> QED BY Zenon, GapKeep, <1>1 DEF StopView, Home, Regs

(* om_bus_shm_poll: the gap is told against the record handed out before.  *)
LEMMA GapAccept ==
    ASSUME BaseInv, NEW c \in Readers, Told(c), AcceptView(c)
    PROVE  Told(c)'
<1>1. /\ ep[c].pc = "accept" /\ ep[c].op = "poll" /\ ep'[c].back = ep[c].back
      /\ ep'[c].expected = ep[c].hdr + 1 /\ HandView(c, GapResult(ep[c]))
  BY Zenon DEF AcceptView, Call, Expects
<1>2. ep[c].hdr \in Nat /\ ep[c].expected \in Nat /\ handed[c].seq \in Nat
  BY BaseFacts, EpFields, HandFields, Constants DEF Seqs
<1>3. GapInv(c) /\ SaidInv(c)
  BY Zenon DEF Told
<1>4. CASE ep[c].back # << >>
  BY Zenon, <1>1, <1>3, <1>4 DEF HandView, Told, GapInv, SaidInv
<1>5. CASE ep[c].back = << >>
  <2>1. handed[c].seq # None => ep[c].expected = handed[c].seq + 1
    BY Zenon, <1>1, <1>3, <1>5 DEF GapInv
  <2>2. /\ handed'[c].seq = ep[c].hdr /\ handed'[c].prev = handed[c].seq
        /\ handed'[c].result = GapResult(ep[c])
    BY Zenon, <1>1, <1>5 DEF HandView
  <2>3. GapInv(c)'
    BY Zenon, <1>1, <1>5, <2>2 DEF GapInv
  <2>4. SaidInv(c)'
    BY <1>2, <2>1, <2>2 DEF SaidInv, GapResult
  <2> QED BY Zenon, <2>3, <2>4 DEF Told
<1> QED BY Zenon, <1>4, <1>5

(* om_bus_shm_poll_batch: the expected number is set at the end.           *)
LEMMA GapBatch ==
    ASSUME BaseInv, NEW c \in Readers, Told(c), AcceptBatchView(c)
    PROVE  Told(c)'
<1>1. /\ ep[c].pc = "accept" /\ ep[c].op = "poll_batch" /\ ep'[c].back = ep[c].back
      /\ ep'[c].op = "poll_batch" /\ ep'[c].count = ep[c].count + 1 /\ ep'[c].pc \in {"end", "seq"}
      /\ HandView(c, "batch")
  BY Zenon DEF AcceptBatchView, Call
<1>2. ep[c].back = << >> /\ ep'[c].count > 0
  BY <1>1, BaseFacts, EpFields DEF CallInv, Fetching, Reading
<1>3. handed'[c].result = "batch"
  BY Zenon, <1>1, <1>2 DEF HandView
<1> QED BY Zenon, <1>1, <1>2, <1>3 DEF Told, GapInv, SaidInv, Fetching

(* The end of a batch expects the record after the last one it handed out. *)
LEMMA GapEnd ==
    ASSUME BaseInv, NEW c \in Readers, Told(c), BatchEndView(c)
    PROVE  Told(c)'
<1>1. /\ ep[c].pc = "end" /\ ep'[c].back = ep[c].back /\ ep'[c].expected = handed[c].seq + 1
      /\ handed'[c] = handed[c]
  BY Zenon DEF BatchEndView, Call, Expects
<1>2. ep[c].back = << >>
  BY Zenon, <1>1, BaseFacts DEF CallInv
<1> QED BY Zenon, <1>1, <1>2 DEF Told, GapInv, SaidInv

(* The caller's seeks, and om_bus_shm_peek_seq, which puts the expected     *)
(* number back.                                                            *)
LEMMA GapSeeks ==
    ASSUME BaseInv, NEW c \in Readers, Told(c),
           CloseView(c) \/ SeekHeadView(c) \/ PeekView(c) \/ RestoreView(c)
    PROVE  Told(c)'
<1>0. CallInv(c) /\ EpBound(c)
  BY Zenon, BaseFacts
<1>1. /\ ep[c].pc = "idle" => ep[c].back = << >>
      /\ ep[c].pc = "restore" => ep[c].back # << >>
  BY Zenon, <1>0 DEF CallInv, EpBound
<1>2. GapInv(c) /\ SaidInv(c)
  BY Zenon DEF Told
<1>3. handed'[c] = handed[c] => SaidInv(c)'
  BY Zenon, <1>2 DEF SaidInv
<1>4. CASE CloseView(c)
  BY Zenon, <1>3, <1>4 DEF CloseView, Told, GapInv
<1>5. CASE SeekHeadView(c)
  BY Zenon, <1>2, <1>3, <1>5 DEF SeekHeadView, Told, GapInv
<1>6. CASE PeekView(c)
  <2>1. /\ ep[c].pc = "idle" /\ ep'[c].pc = "peek" /\ ep'[c].back # << >> /\ ep'[c].back[2] = ep[c].expected
        /\ handed'[c] = handed[c]
    BY Zenon, <1>6 DEF PeekView
  <2> QED BY Zenon, <1>1, <1>2, <1>3, <2>1 DEF Told, GapInv, Fetching, Reading
<1>7. CASE RestoreView(c)
  BY Zenon, <1>1, <1>2, <1>3, <1>7 DEF RestoreView, Told, GapInv, Expects
<1> QED BY Zenon, <1>4, <1>5, <1>6, <1>7

(* A step of an endpoint keeps what is told about gaps.                    *)
LEMMA GapStep ==
    ASSUME BaseInv, NEW c \in Readers, EpStep(c), Told(c)
    PROVE  Told(c)'
<1>1. EpView(c)
  BY Zenon DEF EpStep
<1>n. ASSUME handed'[c] = NoHanded PROVE Told(c)'
  BY <1>n DEF Told, GapInv, SaidInv, NoHanded
<1>4. CASE OpenView(c) \/ RewindView(c)
  BY Zenon, <1>n, <1>4 DEF OpenView, RewindView
<1>5. CASE OpenTailView(c) \/ OpenStampView(c)
  BY Zenon, GapKeep, <1>5 DEF OpenTailView, OpenStampView, Fetching, Reading
<1>8. CASE DieView(c)
  BY Zenon, GapKeep, <1>8 DEF DieView, Mine, Regs
<1>9. CASE LeaveView(c)
  BY Zenon, GapKeep, <1>9 DEF LeaveView, Mine, Home, Fetching, Reading
<1>10. CASE PollView(c)
  BY Zenon, GapKeep, <1>10 DEF PollView, Mine, Fetching, Reading
<1>11. CASE LoadTailView(c)
  BY Zenon, GapKeep, <1>11 DEF LoadTailView, Mine, Fetching, Reading
<1>12. CASE CheckSeqView(c)
  <2>1. ep[c].pc \in Fetching /\ ep[c].pc # "closed" /\ "header" \in Fetching
    BY Zenon, <1>12 DEF CheckSeqView, Fetching, Reading
  <2> QED BY Zenon, GapKeep, GapStops, <1>12, <2>1 DEF CheckSeqView, Mine, Regs
<1>13. CASE ReadHeaderView(c)
  BY Zenon, GapKeep, <1>13 DEF ReadHeaderView, Mine, Regs, Fetching, Reading
<1>14. CASE CopyPayloadView(c)
  BY Zenon, GapKeep, <1>14 DEF CopyPayloadView, Mine, Regs, Fetching, Reading
<1>15. CASE RecheckView(c)
  <2>1. ep[c].pc \in Fetching /\ ep[c].pc # "closed" /\ "accept" \in Fetching
    BY Zenon, <1>15 DEF RecheckView, Fetching, Reading
  <2> QED BY Zenon, GapKeep, GapStops, <1>15, <2>1 DEF RecheckView, Mine, Regs
<1>16. CASE RefuseView(c)
  BY Zenon, GapStops, <1>16 DEF RefuseView, Fetching, Reading
<1>17. CASE AcceptView(c) \/ AcceptBatchView(c) \/ BatchEndView(c)
  BY Zenon, <1>17, GapAccept, GapBatch, GapEnd
<1>20. CASE CheckMinView(c)
  BY Zenon, GapKeep, <1>20 DEF CheckMinView, Mine, Home, Fetching, Reading
<1>21. CASE RefreshScanView(c)
  BY Zenon, GapKeep, <1>21 DEF RefreshScanView, Mine, Fetching, Reading
<1>22. CASE RefreshStoreView(c)
  BY Zenon, GapKeep, <1>22 DEF RefreshStoreView, Mine, Home, Fetching, Reading
<1>23. CASE CloseView(c) \/ SeekHeadView(c) \/ PeekView(c) \/ RestoreView(c)
  BY Zenon, <1>23, GapSeeks
<1> QED BY ZenonT(40), <1>1, <1>4, <1>5, <1>8, <1>9, <1>10, <1>11, <1>12, <1>13, <1>14, <1>15, <1>16, <1>17,
           <1>20, <1>21, <1>22, <1>23 DEF EpView

(* A step of a read leaves the ring and the position.                      *)
LEMMA ReadStays ==
    ASSUME BaseInv, NEW c \in Readers, Static, Regs(c), Call(c), ep[c].pc \in Fetching
    PROVE  /\ Position(ep[c])' = Position(ep[c]) /\ N' = N
           /\ slots' = slots /\ stream' = stream /\ profile' = profile
           /\ Attached(c)' => Attached(c)
<1>1. Position(ep[c])' = Position(ep[c]) /\ N' = N /\ ep'[c].epoch = ep[c].epoch /\ epoch' = epoch
  BY Zenon DEF Regs, Call, Position, N, Static
<1> QED BY Zenon, <1>1 DEF Static, Attached, Fetching, Reading

(* om_bus_shm_poll: the number found in the slot is that of the position.  *)
LEMMA ReadFinds ==
    ASSUME BaseInv, NEW c \in Readers, Static, CheckSeqView(c), ep'[c].pc = "header"
    PROVE  ReadInv(c)'
<1>1. PICK p \in Nat : p = Position(ep[c])
  BY Zenon, BaseFacts
<1>2. ep[c].pc = "seq" /\ slots[Index(p)].seq = p + 1 /\ Regs(c) /\ Call(c)
  BY Zenon, <1>1 DEF CheckSeqView, StopView, Home, Slot
<1>3. p < N
  BY Zenon, <1>2, SeqHit, BaseFacts
<1>4. Position(ep[c])' = p /\ N' = N /\ slots' = slots
  BY Zenon, <1>1, <1>2, ReadStays DEF Fetching
<1> QED BY Zenon, <1>2, <1>3, <1>4 DEF ReadInv, Index

(* The header and the payload are those of the slot.                       *)
LEMMA ReadHeaderKeeps ==
    ASSUME BaseInv, SlotInv, NEW c \in Readers, Static, ReadHeaderView(c), ReadInv(c)
    PROVE  ReadInv(c)'
<1>1. PICK p \in Nat : p = Position(ep[c])
  BY Zenon, BaseFacts
<1>2. /\ ep[c].pc = "header" /\ ep'[c].pc = "copy" /\ ep'[c].hdr = slots[Index(p)].hdr
      /\ Regs(c) /\ Call(c)
  BY Zenon, <1>1 DEF ReadHeaderView, Slot
<1>3. /\ Position(ep[c])' = p /\ N' = N /\ slots' = slots /\ stream' = stream /\ profile' = profile
      /\ Attached(c)' => Attached(c)
  BY Zenon, <1>1, <1>2, ReadStays DEF Fetching, Reading
<1>4. ASSUME profile.broadcast, Attached(c)
      PROVE  /\ p < N
             /\ slots[Index(p)].seq # p + 1 => N >= p + Capacity
             /\ slots[Index(p)].seq = p + 1 => slots[Index(p)].hdr = stream[p + 1]
  <2>1. p < N /\ (slots[Index(p)].seq # p + 1 => N >= p + Capacity)
    BY Zenon, <1>1, <1>2, <1>4 DEF ReadInv, Reading
  <2> QED BY <2>1, <1>4, BaseFacts DEF SlotInv, RingInv
<1> QED BY Zenon, <1>2, <1>3, <1>4 DEF ReadInv, Index

(* The payload an endpoint copies belongs to its record, or the slot has   *)
(* been reused since.                                                      *)
LEMMA CopyPayloadKeeps ==
    ASSUME BaseInv, SlotInv, NEW c \in Readers, Static, CopyPayloadView(c), ReadInv(c)
    PROVE  ReadInv(c)'
<1>1. PICK p \in Nat : p = Position(ep[c])
  BY Zenon, BaseFacts
<1>2. /\ ep[c].pc = "copy" /\ ep'[c].hdr = ep[c].hdr /\ ep'[c].copy = slots[Index(p)].payload
      /\ ep'[c].pc = (IF profile.broadcast THEN "recheck" ELSE "accept")
      /\ Regs(c) /\ Call(c)
  BY Zenon, <1>1 DEF CopyPayloadView, Slot
<1>3. /\ Position(ep[c])' = p /\ N' = N /\ slots' = slots /\ stream' = stream /\ profile' = profile
      /\ Attached(c)' => Attached(c)
  BY Zenon, <1>1, <1>2, ReadStays DEF Fetching, Reading
<1>4. ASSUME profile.broadcast, Attached(c)
      PROVE  /\ p < N
             /\ slots[Index(p)].seq # p + 1 => N >= p + Capacity
             /\ slots[Index(p)].seq = p + 1 =>
                   ep[c].hdr = stream[p + 1] /\ slots[Index(p)].payload = stream[p + 1]
  <2>1. /\ p < N /\ (slots[Index(p)].seq # p + 1 => N >= p + Capacity)
        /\ slots[Index(p)].seq = p + 1 => ep[c].hdr = stream[p + 1]
    BY Zenon, <1>1, <1>2, <1>4 DEF ReadInv, Reading
  <2> QED BY <2>1, <1>4, BaseFacts DEF SlotInv, RingInv
<1> QED BY Zenon, <1>2, <1>3, <1>4 DEF ReadInv, Index

(* The second look at the number vouches for both.                         *)
LEMMA RecheckKeeps ==
    ASSUME BaseInv, NEW c \in Readers, Static, RecheckView(c), ep'[c].pc = "accept", ReadInv(c)
    PROVE  ReadInv(c)'
<1>1. PICK p \in Nat : p = Position(ep[c])
  BY Zenon, BaseFacts
<1>2. ep[c].seq = p + 1
  BY Zenon, <1>1, BaseFacts DEF CallInv, RecheckView, Reading
<1>3. /\ ep[c].pc = "recheck" /\ slots[Index(p)].seq = p + 1
      /\ ep'[c].hdr = ep[c].hdr /\ ep'[c].copy = ep[c].copy /\ Regs(c) /\ Call(c)
  BY Zenon, <1>1, <1>2 DEF RecheckView, StopView, Home, Slot, Data
<1>4. /\ Position(ep[c])' = p /\ N' = N /\ slots' = slots /\ stream' = stream /\ profile' = profile
      /\ Attached(c)' => Attached(c)
  BY Zenon, <1>1, <1>3, ReadStays DEF Fetching, Reading
<1>5. profile.broadcast /\ Attached(c) =>
         p < N /\ ep[c].hdr = stream[p + 1] /\ ep[c].copy = stream[p + 1]
  BY Zenon, <1>1, <1>3 DEF ReadInv, Reading
<1> QED BY Zenon, <1>3, <1>4, <1>5 DEF ReadInv, Index

(* A step of an endpoint keeps what it reads in broadcast mode.            *)
LEMMA ReadStep ==
    ASSUME BaseInv, SlotInv, NEW c \in Readers, EpStep(c), ReadInv(c)
    PROVE  ReadInv(c)'
<1>1. EpView(c) /\ Static
  BY Zenon DEF EpStep
<1>2. \/ CheckSeqView(c) /\ ep'[c].pc = "header"
      \/ ReadHeaderView(c) \/ CopyPayloadView(c)
      \/ RecheckView(c) /\ ep'[c].pc = "accept"
      \/ ep'[c].pc \notin Reading
      \/ ~Attached(c)'
  BY Zenon, <1>1, EpShapes DEF EpShape
<1>3. ep'[c].pc \notin Reading \/ ~Attached(c)' => ReadInv(c)'
  BY Zenon DEF ReadInv
<1> QED BY Zenon, <1>1, <1>2, <1>3, ReadFinds, ReadHeaderKeeps, CopyPayloadKeeps, RecheckKeeps

(* OM_ERR_BUS_LAPPED: the producer is a lap ahead of the endpoint.         *)
LEMMA LappedStep ==
    ASSUME BaseInv, NEW c \in Readers, EpStep(c), ReadInv(c),
           ep'[c].lapped, ~ep[c].lapped, Attached(c)
    PROVE  N >= Position(ep[c]) + Capacity
<1>1. EpView(c)
  BY Zenon DEF EpStep
<1>2. CheckSeqView(c) \/ RecheckView(c)
  BY Zenon, <1>1, EpShapes DEF EpShape
<1>3. PICK p \in Nat : p = Position(ep[c])
  BY Zenon, BaseFacts
<1>4. Slot(ep[c]) = slots[Index(p)] /\ Index(p) \in SlotIndex /\ Index(p) <= p /\ Capacity \in Nat \ {0}
  BY Zenon, <1>3, IndexType, IndexSmall, Constants DEF Slot
<1>5. CASE CheckSeqView(c)
  <2>1. slots[Index(p)].seq > p + 1
    BY Zenon, <1>3, <1>4, <1>5 DEF CheckSeqView, Mine, NoLap
  <2>2. PICK s \in Nat : s = slots[Index(p)].seq
    BY <1>4, BaseFacts, Constants DEF SlotType
  <2>3. s <= N /\ Index(s - 1) = Index(p) /\ N \in Nat
    BY <1>4, <2>1, <2>2, BaseFacts DEF SeqInv
  <2>4. s - 1 \in Nat /\ p < s - 1
    BY <2>1, <2>2
  <2>5. s - 1 >= p + Capacity
    BY Zenon, <2>3, <2>4, IndexLap
  <2> QED BY <1>3, <1>4, <2>2, <2>3, <2>5
<1>6. CASE RecheckView(c)
  <2>1. ep[c].pc = "recheck" /\ slots[Index(p)].seq # ep[c].seq
    BY Zenon, <1>4, <1>6 DEF RecheckView, Mine, NoLap
  <2>2. ep[c].seq = p + 1 /\ profile.broadcast
    BY Zenon, <1>3, <2>1, BaseFacts DEF CallInv, Reading
  <2> QED BY Zenon, <1>3, <2>1, <2>2 DEF ReadInv, Reading
<1> QED BY Zenon, <1>2, <1>5, <1>6

(* Nor does a step of an endpoint, except for one that opens.             *)
LEMMA TrustStep ==
    ASSUME NEW c \in Readers, EpStep(c), NEW d \in Readers, Trusted(d)',
           d = c => ep[c].pc # "stamp"
    PROVE  Trusted(d)
<1>1. EpView(c) /\ profile' = profile /\ (stray => stray')
  BY Zenon DEF EpStep, Static
<1>2. d \in overtaken => d \in overtaken'
  BY Zenon, <1>1, EpShapes DEF EpShape
<1> QED BY Zenon, <1>1, <1>2 DEF Trusted

(* So does a step of an endpoint: it accepts what was published.           *)
LEMMA HandedKeeps ==
    ASSUME BaseInv, NEW c \in Readers, EpStep(c), ReadyInv(c), HandInv(c)
    PROVE  HandInv(c)'
<1>1. EpView(c) /\ stream' = stream /\ epoch' = epoch
  BY Zenon DEF EpStep, Static
<1>2. N' = N /\ N \in Nat
  BY Zenon, <1>1, BaseFacts DEF N
<1>3. CASE handed'[c].seq = None
  BY Zenon, <1>3 DEF HandInv
<1>4. CASE handed'[c] = handed[c] /\ handed[c].seq # None
  <2>1. ep[c].pc \notin {"open", "stamp"}
    BY Zenon, <1>4 DEF HandInv
  <2>2. \/ ep'[c].pc \in {"closed", "dead"}
        \/ /\ ep'[c].pc \notin {"open", "stamp"} /\ ep'[c].epoch = ep[c].epoch
           /\ ep[c].pc \notin {"closed", "open", "stamp", "dead"}
    BY <1>1, <1>4, <2>1, EpShapes DEF EpShape, NoHanded
  <2>3. ep'[c].pc \notin {"open", "stamp"} /\ (Attached(c)' => Attached(c))
    BY Zenon, <1>1, <2>2 DEF Attached
  <2>4. Trusted(c)' => Trusted(c)
    BY Zenon, <2>1, TrustStep
  <2> QED BY Zenon, <1>1, <1>2, <1>4, <2>3, <2>4 DEF HandInv
<1>5. CASE handed'[c] # handed[c] /\ handed'[c].seq # None
  <2>1. AcceptView(c) \/ AcceptBatchView(c)
    BY <1>1, <1>5, EpShapes DEF EpShape, NoHanded
  <2>2. /\ ep[c].pc = "accept" /\ ep'[c].pc \notin {"open", "stamp"} /\ Call(c)
        /\ handed'[c].seq = ep[c].hdr /\ handed'[c].payload = ep[c].copy
        /\ handed'[c].pos = Position(ep[c])
    BY Zenon, <1>5, <2>1 DEF AcceptView, AcceptBatchView, HandView, Home
  <2>3. Trusted(c)' => Trusted(c)
    BY Zenon, <2>2, TrustStep
  <2>4. Attached(c)' => Attached(c)
    BY Zenon, <1>1, <2>2 DEF Attached, Call
  <2>5. PICK p \in Nat : p = Position(ep[c])
    BY Zenon, BaseFacts
  <2>6. ASSUME Attached(c)', Trusted(c)'
        PROVE  p < N /\ ep[c].hdr = stream[p + 1] /\ ep[c].copy = stream[p + 1]
    BY Zenon, <2>2, <2>3, <2>4, <2>5, <2>6 DEF ReadyInv
  <2>7. p < N => p \in 0 .. N - 1
    BY <1>2
  <2> QED BY Zenon, <1>1, <1>2, <2>2, <2>5, <2>6, <2>7 DEF HandInv
<1> QED BY Zenon, <1>3, <1>4, <1>5

(* What another endpoint reads, has told and has handed out is left alone. *)
LEMMA OtherReads ==
    ASSUME NEW c \in Readers, EpStep(c), NEW d \in Readers, d # c, Told(d), ReadInv(d)
    PROVE  Told(d)' /\ ReadInv(d)'
<1>1. ep'[d] = ep[d] /\ handed'[d] = handed[d] /\ Static
  BY Zenon DEF EpStep, Others
<1>2. Told(d)'
  BY Zenon, <1>1 DEF Told, GapInv, SaidInv
<1>3. ReadInv(d)'
  BY Zenon, <1>1 DEF ReadInv, Static, Attached, Position, N, Index
<1> QED BY Zenon, <1>2, <1>3

(* A step of an endpoint leaves what the others have handed out alone.     *)
LEMMA OtherHanded ==
    ASSUME NEW c \in Readers, EpStep(c), NEW d \in Readers, d # c, HandInv(d)
    PROVE  HandInv(d)'
<1>1. ep'[d] = ep[d] /\ handed'[d] = handed[d] /\ Static
  BY Zenon DEF EpStep, Others
<1>2. Trusted(d)' => Trusted(d)
  BY Zenon, TrustStep
<1> QED BY Zenon, <1>1, <1>2 DEF HandInv, Static, Attached, N

(* So it is when time passes.                                              *)
LEMMA ClockReads ==
    ASSUME TimeStep, NEW d \in Readers, Told(d), ReadInv(d)
    PROVE  Told(d)' /\ ReadInv(d)'
<1>1. Static /\ ep' = ep /\ handed' = handed
  BY Zenon DEF TimeStep, ClockView
<1>2. Told(d)'
  BY Zenon, <1>1 DEF Told, GapInv, SaidInv
<1>3. ReadInv(d)'
  BY Zenon, <1>1 DEF ReadInv, Static, Attached, Position, N, Index
<1> QED BY Zenon, <1>2, <1>3

(* The passing of time leaves what the endpoints have handed out alone.    *)
LEMMA ClockHanded ==
    ASSUME TimeStep, NEW d \in Readers, HandInv(d)
    PROVE  HandInv(d)'
<1>1. Static /\ ep' = ep /\ handed' = handed /\ overtaken' = overtaken /\ stray' = stray
  BY Zenon DEF TimeStep, ClockView, Mins
<1> QED BY Zenon, <1>1 DEF HandInv, Static, Attached, N, Trusted

(* A step that hands out nothing leaves an endpoint where it was to go on. *)
LEMMA FollowMoves ==
    ASSUME BaseInv, NEW c \in Readers, EpView(c), handed'[c].seq # None,
           "seek_head" \notin profile.ops, ep'[c].pc \notin {"closed", "dead"},
           ep[c].pc \notin {"closed", "open", "stamp"},
           AcceptView(c) \/ AcceptBatchView(c) => ep[c].back # << >>,
           NEW q, Follows(ep[c], tails[c].tail, q)
    PROVE  Follows(ep'[c], tails'[c].tail, q)
<1> USE DEF Midway, Fetching, Reading
<1>1. /\ ep[c].count \in Nat /\ ep[c].tail \in Nat /\ tails[c].tail \in Nat
      /\ Position(ep[c]) = ep[c].tail + ep[c].count
      /\ Position(ep'[c]) = ep'[c].tail + ep'[c].count /\ EpBound(c) /\ CallInv(c)
  BY Zenon, CallFacts, BaseFacts
<1>h. ASSUME Home(c), tails'[c].tail = tails[c].tail, ~(Midway(ep[c]) /\ ep[c].count > 0)
      PROVE  Follows(ep'[c], tails'[c].tail, q)
  BY Zenon, <1>h DEF Home, Call, Follows
<1>r. ASSUME Regs(c), Call(c), tails'[c].tail = tails[c].tail, Midway(ep[c]) <=> Midway(ep'[c])
      PROVE  Follows(ep'[c], tails'[c].tail, q)
  BY Zenon, <1>r DEF Regs, Call, Follows, Position
<1>s. ASSUME StopView(c), Midway(ep[c]) PROVE Follows(ep'[c], tails'[c].tail, q)
  <2>1. tails'[c].tail = tails[c].tail
    BY Zenon, <1>s DEF StopView
  <2>2. CASE Home(c) /\ ep[c].count = 0
    BY <1>h, <2>1, <2>2
  <2>3. CASE ep'[c].pc = "end" /\ Regs(c) /\ Call(c)
    BY Zenon, <1>r, <1>s, <2>1, <2>3
  <2> QED BY Zenon, <1>s, <2>2, <2>3 DEF StopView
<1>2. CASE LeaveView(c)
  BY Zenon, <1>h, <1>2 DEF LeaveView, Mine
<1>3. CASE PollView(c)
  BY Zenon, <1>3 DEF PollView, Follows, Call, Mine
<1>4. CASE LoadTailView(c)
  <2>1. /\ Call(c) /\ ep[c].pc = "tail" /\ ep'[c].pc = "seq" /\ ep'[c].count = 0
        /\ tails'[c].tail = tails[c].tail /\ ep'[c].tail = tails[c].tail
    BY Zenon, <1>4 DEF LoadTailView, Mine
  <2>2. Position(ep'[c]) = tails[c].tail
    BY <1>1, <2>1
  <2> QED BY Zenon, <2>1, <2>2 DEF Follows, Call
<1>5. CASE CheckSeqView(c)
  <2>1. CASE ep'[c].pc = "header" /\ Regs(c) /\ Call(c) /\ Mine(c)
    BY Zenon, <1>r, <1>5, <2>1 DEF CheckSeqView, Mine
  <2> QED BY Zenon, <1>s, <1>5, <2>1 DEF CheckSeqView
<1>6. CASE ReadHeaderView(c)
  BY Zenon, <1>r, <1>6 DEF ReadHeaderView, Mine
<1>7. CASE CopyPayloadView(c)
  BY Zenon, <1>r, <1>7 DEF CopyPayloadView, Mine
<1>8. CASE RecheckView(c)
  <2>1. CASE ep'[c].pc = "accept" /\ Regs(c) /\ Call(c) /\ Mine(c)
    BY Zenon, <1>r, <1>8, <2>1 DEF RecheckView, Mine
  <2> QED BY Zenon, <1>s, <1>8, <2>1 DEF RecheckView
<1>9. CASE RefuseView(c)
  BY Zenon, <1>s, <1>9 DEF RefuseView
<1>10. CASE AcceptView(c) \/ AcceptBatchView(c)
  BY Zenon, <1>10 DEF AcceptView, AcceptBatchView, Call, Follows
<1>11. CASE BatchEndView(c)
  <2>1. /\ ep[c].pc = "end" /\ Call(c) /\ tails'[c].tail = Position(ep[c])
        /\ ep'[c].pc \in {"idle", "restore", "min"}
    BY Zenon, <1>1, <1>11 DEF BatchEndView, Home
  <2> QED BY Zenon, <2>1 DEF Follows, Call
<1>12. CASE CheckMinView(c)
  <2>1. CASE ep'[c].pc = "refresh" /\ Regs(c) /\ Call(c)
    BY Zenon, <1>r, <1>12, <2>1 DEF CheckMinView, Mine
  <2> QED BY Zenon, <1>h, <1>12, <2>1 DEF CheckMinView, Mine
<1>13. CASE RefreshScanView(c)
  BY Zenon, <1>r, <1>13 DEF RefreshScanView, Mine
<1>14. CASE RefreshStoreView(c)
  BY Zenon, <1>h, <1>14 DEF RefreshStoreView, Mine
<1>15. CASE RewindView(c)
  <2>1. handed'[c] = NoHanded
    BY Zenon, <1>15 DEF RewindView
  <2> QED BY <2>1 DEF NoHanded
<1>16. CASE PeekView(c)
  <2>1. ep[c].pc = "idle" /\ ep[c].back = << >>
    BY Zenon, <1>1, <1>16 DEF PeekView, CallInv
  <2> QED BY Zenon, <1>16, <2>1 DEF PeekView, Follows
<1>17. CASE RestoreView(c)
  <2>1. ep[c].pc = "restore" /\ ep[c].back # << >>
    BY Zenon, <1>1, <1>17 DEF RestoreView, EpBound
  <2> QED BY Zenon, <1>17, <2>1 DEF RestoreView, Follows
<1>18. ~OpenView(c) /\ ~OpenTailView(c) /\ ~OpenStampView(c) /\ ~CloseView(c) /\ ~DieView(c) /\ ~SeekHeadView(c)
  BY Zenon DEF OpenView, OpenTailView, OpenStampView, CloseView, DieView, SeekHeadView
<1> QED BY Zenon, <1>2, <1>3, <1>4, <1>5, <1>6, <1>7, <1>8, <1>9, <1>10, <1>11, <1>12, <1>13, <1>14, <1>15,
           <1>16, <1>17, <1>18 DEF EpView

(* A record that is handed out moves the position by one.                  *)
LEMMA FollowHands ==
    ASSUME BaseInv, NEW c \in Readers, AcceptView(c) \/ AcceptBatchView(c), ep[c].back = << >>
    PROVE  /\ Follows(ep'[c], tails'[c].tail, handed'[c].pos + 1) /\ Midway(ep[c])
           /\ handed'[c].pos = Position(ep[c]) /\ handed'[c].prev = handed[c].seq
<1> USE DEF Midway, Fetching, Reading
<1>1. /\ ep[c].count \in Nat /\ ep[c].tail \in Nat /\ Position(ep[c]) = ep[c].tail + ep[c].count
      /\ Position(ep'[c]) = ep'[c].tail + ep'[c].count /\ CallInv(c)
  BY Zenon, CallFacts, BaseFacts
<1>2. ep[c].pc = "accept" /\ handed'[c].pos = Position(ep[c]) /\ handed'[c].prev = handed[c].seq /\ Call(c)
  BY Zenon DEF AcceptView, AcceptBatchView, HandView
<1>3. CASE AcceptView(c)
  <2>1. tails'[c].tail = ep[c].tail + 1 /\ ep[c].op = "poll" /\ ep'[c].pc \in {"idle", "min"}
    BY Zenon, <1>3 DEF AcceptView, Home
  <2>2. ep[c].count = 0
    BY Zenon, <1>1, <1>2, <2>1 DEF CallInv
  <2>3. tails'[c].tail = handed'[c].pos + 1
    BY <1>1, <1>2, <2>1, <2>2
  <2> QED BY Zenon, <1>2, <2>1, <2>3 DEF Follows, Call
<1>4. CASE AcceptBatchView(c)
  <2>1. ep'[c].pc \in {"end", "seq"} /\ ep'[c].tail = ep[c].tail /\ ep'[c].count = ep[c].count + 1
    BY Zenon, <1>4 DEF AcceptBatchView
  <2>2. Position(ep'[c]) = handed'[c].pos + 1 /\ ep'[c].count > 0
    BY <1>1, <1>2, <2>1
  <2> QED BY Zenon, <1>2, <2>1, <2>2 DEF Follows, Call
<1> QED BY Zenon, <1>3, <1>4

(* An endpoint goes on behind the record it handed out last.               *)
LEMMA FollowKeeps ==
    ASSUME BaseInv, NEW c \in Readers, EpStep(c), HandInv(c), FollowInv(c)
    PROVE  FollowInv(c)'
<1> DEFINE hands == (AcceptView(c) \/ AcceptBatchView(c)) /\ ep[c].back = << >>
<1> SUFFICES ASSUME Attached(c)', Trusted(c)', "seek_head" \notin profile'.ops, handed'[c].seq # None
             PROVE  /\ Follows(ep'[c], tails'[c].tail, handed'[c].pos + 1)
                    /\ handed'[c].prev # None =>
                          handed'[c].pos >= 1 /\ handed'[c].prev = stream'[handed'[c].pos]
  BY Zenon DEF FollowInv, Follows, Midway, Position
<1>1. EpView(c) /\ stream' = stream /\ epoch' = epoch /\ profile' = profile /\ EpShape(c)
  BY Zenon, EpShapes DEF EpStep, Static
<1>2. ep'[c].pc \notin {"closed", "open", "stamp", "dead"} /\ ep'[c].epoch = epoch
  BY Zenon, <1>1 DEF Attached
<1>3. ep[c].pc # "closed" /\ (handed'[c] = handed[c] \/ AcceptView(c) \/ AcceptBatchView(c))
  BY <1>1 DEF EpShape, NoHanded
<1>4. ep[c].pc \notin {"open", "stamp"}
  BY Zenon, <1>3 DEF HandInv, AcceptView, AcceptBatchView
<1>5. Attached(c)
  BY Zenon, <1>1, <1>2, <1>3, <1>4 DEF EpShape, Attached
<1>6. Trusted(c)
  BY Zenon, <1>4, TrustStep
<1>7. handed[c].seq # None =>
        /\ Follows(ep[c], tails[c].tail, handed[c].pos + 1)
        /\ handed[c].prev # None => handed[c].pos >= 1 /\ handed[c].prev = stream[handed[c].pos]
        /\ handed[c].pos \in 0 .. N - 1 /\ handed[c].seq = stream[handed[c].pos + 1]
  BY Zenon, <1>1, <1>5, <1>6 DEF FollowInv, HandInv
<1>8. CASE hands
  <2>1. /\ Follows(ep'[c], tails'[c].tail, handed'[c].pos + 1) /\ Midway(ep[c])
        /\ handed'[c].pos = Position(ep[c]) /\ handed'[c].prev = handed[c].seq
    BY Zenon, <1>8, FollowHands
  <2>2. handed[c].seq # None => Position(ep[c]) = handed[c].pos + 1
    BY Zenon, <1>7, <1>8, <2>1 DEF Follows
  <2>3. handed[c].seq # None => handed[c].pos + 1 >= 1
    BY <1>7
  <2> QED BY Zenon, <1>1, <1>7, <2>1, <2>2, <2>3
<1>9. CASE ~hands
  <2>1. handed'[c] = handed[c]
    BY Zenon, <1>3, <1>9 DEF AcceptView, AcceptBatchView, HandView
  <2>2. AcceptView(c) \/ AcceptBatchView(c) => ep[c].back # << >>
    BY Zenon, <1>9
  <2> HIDE DEF hands
  <2>3. Follows(ep'[c], tails'[c].tail, handed[c].pos + 1)
    BY Zenon, <1>1, <1>2, <1>3, <1>4, <1>7, <2>1, <2>2, FollowMoves
  <2> QED BY Zenon, <1>1, <1>7, <2>1, <2>3
<1> QED BY Zenon, <1>8, <1>9

(* The steps of the others leave it alone.                                 *)
LEMMA OtherFollows ==
    ASSUME NEW c \in Readers, EpStep(c), NEW d \in Readers, d # c, FollowInv(d)
    PROVE  FollowInv(d)'
<1>1. ep'[d] = ep[d] /\ tails'[d] = tails[d] /\ handed'[d] = handed[d] /\ Static
  BY Zenon DEF EpStep, Others
<1>2. Trusted(d)' => Trusted(d)
  BY Zenon, TrustStep
<1> QED BY Zenon, <1>1, <1>2 DEF FollowInv, Follows, Midway, Position, Static, Attached

(* So does the passing of time.                                            *)
LEMMA ClockFollows ==
    ASSUME TimeStep, NEW d \in Readers, FollowInv(d)
    PROVE  FollowInv(d)'
<1>1. /\ Static /\ ep' = ep /\ handed' = handed /\ overtaken' = overtaken /\ stray' = stray
      /\ tails'[d].tail = tails[d].tail
  BY Zenon DEF TimeStep, ClockView, Mins
<1> QED BY Zenon, <1>1 DEF FollowInv, Follows, Midway, Position, Static, Attached, Trusted

(* The slots are the producer's.                                           *)
LEMMA SlotStatic ==
    ASSUME Static, SlotInv
    PROVE  SlotInv'
  BY Zenon DEF SlotInv, WriteInv, RingInv, Static, Writing, N, Index

(* So are the records in them and their order.                             *)
LEMMA LapStatic ==
    ASSUME Static, LapInv, OrderInv
    PROVE  LapInv' /\ OrderInv'
  BY Zenon DEF LapInv, OrderInv, Static, Overwritten, Rewriting, N, Index

-----------------------------------------------------------------------------
(* Queue mode.                                                             *)

(* Which steps of an endpoint move its tail, min_tail and the call.        *)
QueueMoves(c) ==
    /\ tails'[c] = tails[c] \/ OpenTailView(c) \/ OpenStampView(c) \/ CloseView(c) \/ AcceptView(c)
       \/ BatchEndView(c)
    /\ min_tail' = min_tail \/ RefreshStoreView(c)
    /\ overtaken \ {c} \subseteq overtaken' /\ (overtaken \subseteq overtaken' \/ OpenStampView(c))
    /\ ep'[c].back \in {<< >>, ep[c].back}
    /\ ep'[c].pc \in {"closed", "open", "stamp", "dead"} \/ OpenStampView(c)
       \/ (ep[c].pc \notin {"closed", "open", "stamp", "dead"} /\ ep'[c].epoch = ep[c].epoch)
    /\ ep'[c].pc = "refresh" => CheckMinView(c) \/ RefreshScanView(c)
    /\ ep'[c].pc = "copy" => ReadHeaderView(c)
    /\ ep'[c].pc = "accept" => CopyPayloadView(c)

(* In queue mode nobody seeks.                                             *)
LEMMA NoSeek ==
    ASSUME BaseInv, NEW c \in Readers, Seekless, SeekInv(c), ~profile.broadcast
    PROVE  /\ ~SeekHeadView(c) /\ ~RewindView(c) /\ ~PeekView(c) /\ ~RestoreView(c) /\ ~RecheckView(c)
           /\ ep[c].back = << >>
<1>1. EpBound(c) /\ CallInv(c)
  BY Zenon, BaseFacts
<1>2. ~RestoreView(c) /\ ~RecheckView(c) /\ ep[c].back = << >>
  BY <1>1 DEF RestoreView, RecheckView, EpBound, CallInv, SeekInv
<1> QED BY Zenon, <1>2 DEF Seekless, SeekHeadView, RewindView, PeekView

(* In queue mode a step of an endpoint moves its tail and its call as      *)
(* QueueMoves lists.                                                       *)
LEMMA QueueMove ==
    ASSUME BaseInv, NEW c \in Readers, EpView(c), Seekless, SeekInv(c), ~profile.broadcast
    PROVE  QueueMoves(c)
<1>1. CASE OpenView(c) \/ OpenTailView(c) \/ OpenStampView(c)
  BY Zenon, <1>1 DEF OpenView, OpenTailView, OpenStampView, Mins, Call, QueueMoves
<1>2. CASE CloseView(c) \/ DieView(c) \/ LeaveView(c)
  BY Zenon, <1>2, NoSeek DEF CloseView, DieView, LeaveView, Home, Mine, Mins, Call, QueueMoves
<1>3. CASE PollView(c) \/ LoadTailView(c)
  BY Zenon, <1>3 DEF PollView, LoadTailView, Mine, Mins, Call, QueueMoves
<1>4. CASE CheckSeqView(c)
  BY Zenon, <1>4, NoSeek DEF CheckSeqView, StopView, Home, Mine, Mins, Call, QueueMoves
<1>5. CASE RefuseView(c)
  BY Zenon, <1>5, NoSeek DEF RefuseView, StopView, Home, Mine, Mins, Call, QueueMoves
<1>6. CASE ReadHeaderView(c) \/ CopyPayloadView(c)
  BY Zenon, <1>6 DEF ReadHeaderView, CopyPayloadView, Mine, Mins, Call, QueueMoves
<1>7. CASE AcceptView(c) \/ AcceptBatchView(c)
  BY Zenon, <1>7 DEF AcceptView, AcceptBatchView, Mins, Call, QueueMoves
<1>8. CASE BatchEndView(c) \/ CheckMinView(c)
  BY Zenon, <1>8, NoSeek DEF BatchEndView, CheckMinView, Home, Mine, Mins, Call, QueueMoves
<1>9. CASE RefreshScanView(c) \/ RefreshStoreView(c)
  BY Zenon, <1>9, NoSeek DEF RefreshScanView, RefreshStoreView, Home, Mine, Mins, Call, QueueMoves
<1> QED BY Zenon, <1>1, <1>2, <1>3, <1>4, <1>5, <1>6, <1>7, <1>8, <1>9, NoSeek DEF EpView

(* What a step of an endpoint leaves alone.                                *)
LEMMA StepFacts ==
    ASSUME BaseInv, NEW x \in Readers, EpStep(x)
    PROVE  /\ EpView(x) /\ Others(x) /\ (Calm' => Calm) /\ N' = N /\ N \in Nat /\ epoch' = epoch
           /\ prod' = prod /\ profile' = profile /\ stream' = stream /\ slots' = slots
           /\ (Writing' <=> Writing) /\ (Calm => ~profile.broadcast)
           /\ Calm' /\ ep[x].epoch # epoch => tails'[x].tail = tails[x].tail /\ min_tail' = min_tail
           /\ Calm' => ~(ep[x].pc = "refresh" /\ x \in Skips(ep[x].scan, x))
<1>1. N' = N /\ N \in Nat
  BY Zenon, BaseFacts DEF EpStep, Static, N
<1>2. EpView(x) /\ Others(x) /\ Static /\ stray' = (stray \/ Strays(x))
  BY Zenon DEF EpStep
<1>3. /\ epoch' = epoch /\ prod' = prod /\ profile' = profile /\ stream' = stream /\ slots' = slots
      /\ (Writing' <=> Writing)
  BY Zenon, <1>2 DEF Static, Writing
<1> QED BY Zenon, <1>1, <1>2, <1>3 DEF Calm, Strays

(* The call of an endpoint that stays where it is, or has returned.        *)
LEMMA PlaceKeeps ==
    ASSUME BaseInv, NEW x \in Readers, EpStep(x), PlaceInv(x),
           ep'[x].tail = ep[x].tail, ep'[x].count = ep[x].count, ep'[x].epoch = ep[x].epoch,
           tails'[x] = tails[x], ep[x].pc # "closed",
           ep'[x].pc \in Reading => ep[x].pc \in Reading,
           ep'[x].pc \in Fetching \cup {"end", "stamp"} => ep[x].pc \in Fetching \cup {"end", "stamp"},
           ep'[x].pc \in {"min", "refresh"} => ep[x].pc \in {"min", "refresh"},
           ep'[x].pc = "dead" \/ ep[x].pc \notin {"closed", "open", "stamp", "dead"}
    PROVE  PlaceInv(x)'
<1>1. Position(ep[x])' = Position(ep[x]) /\ (Attached(x)' => Attached(x))
  BY Zenon, StepFacts DEF Position, Attached
<1> QED BY Zenon, <1>1, StepFacts DEF PlaceInv

(* A call that returns leaves the endpoint's tail where its last store put *)
(* it.                                                                     *)
LEMMA PlaceHome ==
    ASSUME BaseInv, NEW x \in Readers, EpStep(x), PlaceInv(x), Home(x), tails'[x] = tails[x],
           ep[x].pc \notin {"closed", "open", "stamp", "dead"}
    PROVE  PlaceInv(x)'
<1>1. Position(ep[x])' = 0 /\ N \in Nat /\ ep'[x].pc \in {"idle", "restore"}
  BY StepFacts DEF Home, Position
<1>2. Attached(x)' => Attached(x)
  BY Zenon, StepFacts DEF Home, Call, Attached
<1>3. 0 <= N
  BY <1>1
<1> QED BY Zenon, <1>1, <1>2, <1>3, StepFacts DEF PlaceInv, Reading, Fetching

(* An endpoint opens and closes.                                           *)
LEMMA PlaceOpens ==
    ASSUME BaseInv, NEW x \in Readers, EpStep(x), PlaceInv(x), MinInv,
           OpenView(x) \/ OpenTailView(x) \/ OpenStampView(x) \/ CloseView(x)
    PROVE  PlaceInv(x)'
<1> SUFFICES ASSUME Calm' PROVE PlaceInv(x)'
  BY Zenon DEF PlaceInv
<1>1. /\ Calm /\ N' = N /\ N \in Nat /\ epoch' = epoch /\ prod' = prod
      /\ ep[x].epoch # epoch => tails'[x].tail = tails[x].tail
  BY Zenon, StepFacts
<1>2. /\ ep[x].tail \in Nat /\ ep[x].count \in Nat /\ Position(ep[x]) = ep[x].tail + ep[x].count
      /\ head <= N /\ head \in Nat /\ tails[x].tail \in Nat
  <2>1. ep[x] \in EpType /\ tails[x] \in TailType /\ ProdInv /\ head \in Seqs
    BY Zenon, BaseFacts DEF Types
  <2> QED BY <2>1, EpFields, TailFields, Constants DEF Seqs, Position, ProdInv
<1>3. /\ prod.pc \notin {"create", "tails"} \/ Attached(x) => tails[x].tail <= N
      /\ ep[x].epoch = epoch /\ ep[x].pc # "closed" => Position(ep[x]) <= N
      /\ ep[x].epoch = epoch /\ ep[x].pc = "stamp" => ep[x].tail = tails[x].tail
  BY Zenon, <1>1 DEF PlaceInv
<1>4. CASE OpenView(x)
  <2>1. ep'[x].pc = "open" /\ Position(ep[x])' = head /\ tails'[x] = tails[x]
    BY <1>2, <1>4 DEF OpenView, Position
  <2> QED BY Zenon, <1>1, <1>2, <1>3, <2>1 DEF PlaceInv, Attached, Reading, Fetching
<1>5. CASE OpenTailView(x)
  <2>1. /\ ep[x].pc = "open" /\ ep'[x].pc = "stamp" /\ Position(ep[x])' = Position(ep[x])
        /\ tails'[x].tail = ep[x].tail /\ ep'[x].tail = ep[x].tail /\ ep'[x].epoch = ep[x].epoch
    BY Zenon, <1>5 DEF OpenTailView, Position, Regs, Call
  <2>2. ep[x].epoch = epoch => ep[x].tail <= N
    BY <1>1, <1>2, <1>3, <2>1
  <2>3. prod.pc \notin {"create", "tails"} => tails'[x].tail <= N
    BY Zenon, <1>1, <1>3, <2>1, <2>2
  <2> QED BY Zenon, <1>1, <1>3, <2>1, <2>3 DEF PlaceInv, Attached, Reading
<1>6. CASE OpenStampView(x)
  <2>1. /\ ep[x].pc = "stamp" /\ ep'[x].pc = "idle" /\ Position(ep[x])' = Position(ep[x])
        /\ tails'[x].tail = tails[x].tail /\ ep'[x].epoch = ep[x].epoch
    BY Zenon, <1>6 DEF OpenStampView, Position, Regs, Call
  <2>2. ep[x].epoch = epoch => tails[x].tail <= N
    BY <1>1, <1>2, <1>3, <2>1
  <2> QED BY Zenon, <1>1, <1>3, <2>1, <2>2 DEF PlaceInv, Attached, Reading, Fetching
<1>7. CASE CloseView(x)
  <2>1. ep'[x].pc = "closed" /\ tails'[x].tail = tails[x].tail
    BY Zenon, <1>7 DEF CloseView
  <2> QED BY Zenon, <1>1, <1>3, <2>1 DEF PlaceInv, Attached, Reading, Fetching
<1> QED BY Zenon, <1>4, <1>5, <1>6, <1>7

(* An endpoint reads on.                                                   *)
LEMMA PlaceReads ==
    ASSUME BaseInv, NEW x \in Readers, EpStep(x), PlaceInv(x),
           \/ LoadTailView(x) \/ (CheckSeqView(x) /\ ep'[x].pc = "header")
           \/ AcceptBatchView(x)
    PROVE  PlaceInv(x)'
<1> SUFFICES ASSUME Calm' PROVE PlaceInv(x)'
  BY Zenon DEF PlaceInv
<1>1. Calm /\ N' = N /\ N \in Nat /\ epoch' = epoch /\ prod' = prod
  BY Zenon, StepFacts
<1>2. /\ ep[x].tail \in Nat /\ ep[x].count \in Nat /\ Position(ep[x]) = ep[x].tail + ep[x].count
      /\ tails[x].tail \in Nat
  <2>1. ep[x] \in EpType /\ tails[x] \in TailType
    BY Zenon, BaseFacts
  <2> QED BY <2>1, EpFields, TailFields, Constants DEF Seqs, Position
<1>3. /\ prod.pc \notin {"create", "tails"} \/ Attached(x) => tails[x].tail <= N
      /\ ep[x].epoch = epoch /\ ep[x].pc \in Reading => Position(ep[x]) < N
      /\ ep[x].epoch = epoch /\ ep[x].pc \in Fetching => ep[x].tail = tails[x].tail
  BY Zenon, <1>1 DEF PlaceInv
<1>t. tails'[x] = tails[x] /\ ep'[x].epoch = ep[x].epoch /\ (Attached(x)' => Attached(x))
  BY Zenon, <1>1 DEF LoadTailView, CheckSeqView, StopView, Home, AcceptBatchView, Mine, Call, Attached
<1>4. CASE LoadTailView(x)
  <2>1. /\ ep[x].pc = "tail" /\ ep'[x].pc = "seq" /\ Position(ep[x])' = tails[x].tail
        /\ ep'[x].tail = tails[x].tail
    BY <1>2, <1>4 DEF LoadTailView, Position
  <2>2. ep[x].epoch = epoch => Attached(x)
    BY Zenon, <2>1 DEF Attached
  <2> QED BY Zenon, <1>1, <1>3, <1>t, <2>1, <2>2 DEF PlaceInv, Reading
<1>5. CASE CheckSeqView(x) /\ ep'[x].pc = "header"
  <2>1. /\ ep[x].pc = "seq" /\ Position(ep[x])' = Position(ep[x]) /\ ep'[x].tail = ep[x].tail
        /\ slots[Index(Position(ep[x]))].seq = Position(ep[x]) + 1
    BY Zenon, <1>5 DEF CheckSeqView, StopView, Home, Regs, Position, Slot
  <2>2. Position(ep[x]) < N
    BY Zenon, <2>1, SeqHit, BaseFacts
  <2>3. Position(ep[x]) <= N
    BY <1>1, <1>2, <2>2
  <2> QED BY Zenon, <1>1, <1>3, <1>5, <1>t, <2>1, <2>2, <2>3 DEF PlaceInv, Fetching
<1>6. CASE AcceptBatchView(x)
  <2>1. /\ ep[x].pc = "accept" /\ ep'[x].pc \in {"end", "seq"} /\ ep'[x].tail = ep[x].tail
        /\ Position(ep[x])' = ep[x].tail + (ep[x].count + 1)
    BY Zenon, <1>6 DEF AcceptBatchView, Position
  <2>2. ep[x].epoch = epoch => Position(ep[x])' <= N
    BY <1>1, <1>2, <1>3, <2>1 DEF Reading
  <2> QED BY Zenon, <1>1, <1>3, <1>t, <2>1, <2>2 DEF PlaceInv, Reading, Fetching
<1> QED BY Zenon, <1>4, <1>5, <1>6

(* An endpoint moves its tail past what it has read.                       *)
LEMMA PlaceAdvances ==
    ASSUME BaseInv, NEW x \in Readers, EpStep(x), PlaceInv(x), AcceptView(x) \/ BatchEndView(x),
           ~profile.broadcast
    PROVE  PlaceInv(x)'
<1> SUFFICES ASSUME Calm' PROVE PlaceInv(x)'
  BY Zenon DEF PlaceInv
<1>1. /\ Calm /\ N' = N /\ N \in Nat /\ epoch' = epoch /\ prod' = prod
      /\ ep[x].epoch # epoch => tails'[x].tail = tails[x].tail
  BY Zenon, StepFacts
<1>2. /\ ep[x].tail \in Nat /\ ep[x].count \in Nat /\ Position(ep[x]) = ep[x].tail + ep[x].count
      /\ CallInv(x)
  <2>1. ep[x] \in EpType /\ CallInv(x)
    BY Zenon, BaseFacts
  <2> QED BY <2>1, EpFields, Constants DEF Seqs, Position
<1>3. /\ prod.pc \notin {"create", "tails"} \/ Attached(x) => tails[x].tail <= N
      /\ ep[x].epoch = epoch /\ ep[x].pc \in Reading => Position(ep[x]) < N
      /\ ep[x].epoch = epoch /\ ep[x].pc # "closed" => Position(ep[x]) <= N
  BY Zenon, <1>1 DEF PlaceInv
<1>4. /\ ep'[x].pc = "min" /\ ep'[x].epoch = ep[x].epoch /\ tails'[x].live
      /\ tails'[x].tail = Position(ep[x])' /\ Position(ep[x])' > 0
      /\ ep[x].epoch = epoch => Position(ep[x])' <= N
      /\ ep[x].pc \in {"accept", "end"}
  <2>1. CASE AcceptView(x)
    <3>1. /\ ep[x].pc = "accept" /\ ep[x].op = "poll" /\ ep'[x].pc = "min" /\ ep'[x].tail = ep[x].tail
          /\ ep'[x].count = 1 /\ tails'[x].tail = ep[x].tail + 1 /\ tails'[x].live
          /\ ep'[x].epoch = ep[x].epoch
      BY Zenon, <2>1 DEF AcceptView, Call
    <3>2. ep[x].count = 0 /\ (ep[x].epoch = epoch => Position(ep[x]) < N)
      BY Zenon, <1>2, <1>3, <3>1 DEF CallInv, Fetching, Reading
    <3> QED BY <1>1, <1>2, <3>1, <3>2 DEF Position
  <2>2. CASE BatchEndView(x)
    <3>1. /\ ep[x].pc = "end" /\ ep'[x].pc = "min" /\ ep'[x].tail = ep[x].tail
          /\ ep'[x].count = ep[x].count /\ tails'[x].tail = ep[x].tail + ep[x].count /\ tails'[x].live
          /\ ep'[x].epoch = ep[x].epoch
      BY Zenon, <2>2 DEF BatchEndView, Call, Regs
    <3>2. ep[x].count > 0 /\ (ep[x].epoch = epoch => Position(ep[x]) <= N)
      BY Zenon, <1>2, <1>3, <3>1 DEF CallInv
    <3> QED BY <1>1, <1>2, <3>1, <3>2 DEF Position
  <2> QED BY Zenon, <2>1, <2>2
<1>5. prod.pc \notin {"create", "tails"} \/ Attached(x)' => tails'[x].tail <= N
  BY Zenon, <1>1, <1>3, <1>4 DEF Attached
<1> QED BY Zenon, <1>1, <1>4, <1>5 DEF PlaceInv, Reading, Fetching

(* A step of an endpoint keeps its place.                                  *)
LEMMA PlaceStep ==
    ASSUME BaseInv, NEW x \in Readers, EpStep(x), PlaceInv(x), MinInv, Seekless, SeekInv(x)
    PROVE  PlaceInv(x)'
<1> SUFFICES ASSUME Calm' PROVE PlaceInv(x)'
  BY Zenon DEF PlaceInv
<1>1. EpView(x) /\ ~profile.broadcast
  BY Zenon, StepFacts
<1>2. CASE OpenView(x) \/ OpenTailView(x) \/ OpenStampView(x) \/ CloseView(x)
  BY Zenon, <1>2, PlaceOpens
<1>3. CASE LoadTailView(x) \/ AcceptBatchView(x)
  BY Zenon, <1>3, PlaceReads
<1>4. CASE AcceptView(x) \/ BatchEndView(x)
  BY Zenon, <1>1, <1>4, PlaceAdvances
<1>5. CASE DieView(x)
  BY <1>5, PlaceKeeps DEF DieView, Regs, Call, Mine, Reading, Fetching
<1>6. CASE PollView(x)
  BY <1>6, PlaceKeeps DEF PollView, Call, Mine, Reading, Fetching
<1>7. CASE LeaveView(x)
  BY <1>7, PlaceHome DEF LeaveView, Mine
<1>8. ASSUME StopView(x), ep[x].pc \in Fetching PROVE PlaceInv(x)'
  <2>1. CASE Home(x)
    BY <1>8, <2>1, PlaceHome DEF StopView, Reading, Fetching
  <2>2. CASE ~Home(x)
    BY <1>8, <2>2, PlaceKeeps DEF StopView, Regs, Call, Reading, Fetching
  <2> QED BY Zenon, <2>1, <2>2
<1>9. CASE CheckSeqView(x)
  <2>1. CASE StopView(x)
    BY Zenon, <1>8, <1>9, <2>1 DEF CheckSeqView, Fetching
  <2>2. CASE ~StopView(x)
    BY Zenon, <1>9, <2>2, PlaceReads DEF CheckSeqView
  <2> QED BY Zenon, <2>1, <2>2
<1>10. CASE RefuseView(x)
  BY Zenon, <1>8, <1>10 DEF RefuseView, Fetching, Reading
<1>11. CASE ReadHeaderView(x)
  BY <1>11, PlaceKeeps DEF ReadHeaderView, Regs, Call, Mine, Reading, Fetching
<1>12. CASE CopyPayloadView(x)
  BY <1>12, <1>1, PlaceKeeps DEF CopyPayloadView, Regs, Call, Mine, Reading, Fetching
<1>13. CASE CheckMinView(x)
  <2>1. CASE Home(x)
    BY <1>13, <2>1, PlaceHome DEF CheckMinView, Mine
  <2>2. CASE ~Home(x)
    BY <1>13, <2>2, PlaceKeeps DEF CheckMinView, Regs, Call, Mine, Reading, Fetching
  <2> QED BY Zenon, <2>1, <2>2
<1>14. CASE RefreshScanView(x)
  BY <1>14, PlaceKeeps DEF RefreshScanView, Regs, Call, Mine, Reading, Fetching
<1>15. CASE RefreshStoreView(x)
  BY <1>15, PlaceHome DEF RefreshStoreView, Mine
<1> QED BY Zenon, <1>1, <1>2, <1>3, <1>4, <1>5, <1>6, <1>7, <1>9, <1>10, <1>11, <1>12, <1>13, <1>14, <1>15,
           NoSeek DEF EpView

(* What the scan of an endpoint of this epoch ends with is no further than *)
(* its own position, and than the tail of any endpoint to be waited for.   *)
LEMMA RefreshEnds ==
    ASSUME BaseInv, NEW x \in Readers, RefreshInv(x), RefreshStoreView(x), Calm, ep[x].epoch = epoch
    PROVE  /\ min_tail' <= Position(ep[x]) /\ min_tail' \in Nat
           /\ \A d \in Readers : Kept(d) => min_tail' <= tails[d].tail
<1>1. /\ ep[x].pc = "refresh" /\ ep[x].scan.next = Consumers
      /\ min_tail' = ScanResult(ep[x].scan, Position(ep[x]))
  BY Zenon DEF RefreshStoreView
<1>2. /\ ep[x].scan.min \in 0 .. Position(ep[x]) /\ Position(ep[x]) \in Nat
      /\ \A c \in Readers : Kept(c) => ScanPast(ep[x].scan, c, Position(ep[x]))
  BY <1>1, BaseFacts, Constants DEF RefreshInv
<1>3. min_tail' = ep[x].scan.min /\ min_tail' \in 0 .. Position(ep[x])
  BY <1>1, <1>2 DEF ScanResult
<1>4. ASSUME NEW d \in Readers, Kept(d) PROVE min_tail' <= tails[d].tail
  <2>1. tails[d].tail \in Nat /\ Consumers > d
    BY BaseFacts, TailFields, Constants DEF Seqs
  <2>2. min_tail' \in 0 .. tails[d].tail \/ Position(ep[x]) <= tails[d].tail
    BY Zenon, <1>1, <1>2, <1>3, <1>4, <2>1 DEF ScanPast
  <2> QED BY <1>2, <1>3, <2>1, <2>2
<1> QED BY <1>2, <1>3, <1>4

(* A step of an endpoint keeps min_tail behind the records published.      *)
LEMMA MinStep ==
    ASSUME BaseInv, NEW x \in Readers, EpStep(x), PlaceInv(x), RefreshInv(x), MinInv, Seekless, SeekInv(x)
    PROVE  MinInv'
<1> SUFFICES ASSUME Calm' PROVE MinInv'
  BY Zenon DEF MinInv
<1>1. /\ EpView(x) /\ ~profile.broadcast /\ Calm /\ N' = N /\ N \in Nat /\ prod' = prod
      /\ ep[x].epoch # epoch => min_tail' = min_tail
  BY Zenon, StepFacts
<1>2. min_tail' = min_tail \/ RefreshStoreView(x)
  BY Zenon, <1>1, QueueMove DEF QueueMoves
<1>3. min_tail <= N => min_tail' <= N
  <2>1. CASE min_tail' = min_tail
    BY Zenon, <2>1
  <2>2. CASE RefreshStoreView(x) /\ ep[x].epoch = epoch
    <3>1. min_tail' <= Position(ep[x]) /\ min_tail' \in Nat
      BY Zenon, <1>1, <2>2, RefreshEnds
    <3>2. Position(ep[x]) <= N /\ Position(ep[x]) \in Nat
      BY <1>1, <2>2, BaseFacts DEF PlaceInv, RefreshStoreView
    <3> QED BY <1>1, <3>1, <3>2
  <2> QED BY Zenon, <1>1, <1>2, <2>1, <2>2
<1> QED BY Zenon, <1>1, <1>3 DEF MinInv

(* Whom the producer has to wait for after a step of an endpoint: an       *)
(* endpoint that was one and at most moved ahead, or one that has just     *)
(* opened at the head.                                                     *)
LEMMA KeptStep ==
    ASSUME BaseInv, NEW x \in Readers, EpStep(x), NEW d \in Readers, Kept(d)',
           PlaceInv(x), SpaceInv(d), Seekless, SeekInv(x)
    PROVE  /\ tails'[d].live = TRUE /\ tails[d].tail \in Nat /\ tails'[d].tail \in Nat
           /\ \/ Kept(d) /\ tails[d].tail <= tails'[d].tail
              \/ Calm /\ d = x /\ ep[x].pc = "stamp" /\ N = tails'[d].tail
<1>1. /\ EpView(x) /\ Others(x) /\ ~profile.broadcast /\ Calm /\ epoch' = epoch /\ Attached(d)'
      /\ d \notin overtaken'
  BY Zenon, StepFacts DEF Kept
<1>2. tails[d].tail \in Nat /\ tails'[d].tail \in Nat /\ tails[d].live \in BOOLEAN
  <2>1. tails[d] \in TailType /\ tails'[d] \in TailType
    BY Zenon, BaseFacts DEF EpStep, EpTypes
  <2> QED BY <2>1, TailFields, Constants DEF Seqs
<1>q. QueueMoves(x)
  BY Zenon, <1>1, QueueMove
<1>3. CASE d # x
  <2>1. ep'[d] = ep[d] /\ tails'[d] = tails[d] /\ d \notin overtaken
    BY Zenon, <1>1, <1>3, <1>q DEF Others, QueueMoves
  <2>2. Kept(d) /\ tails[d].live
    BY Zenon, <1>1, <2>1 DEF Kept, Attached, SpaceInv
  <2> QED BY <1>2, <2>1, <2>2
<1>4. CASE d = x /\ OpenStampView(x)
  <2>1. /\ ep[x].pc = "stamp" /\ tails'[x].live = TRUE /\ tails'[x].tail = tails[x].tail
        /\ Len(stream) = ep[x].tail /\ ep[x].epoch = epoch
    BY Zenon, <1>1, <1>4 DEF OpenStampView, Attached, Call
  <2>2. ep[x].tail = tails[x].tail
    BY Zenon, <1>1, <2>1 DEF PlaceInv
  <2> QED BY Zenon, <1>1, <1>2, <1>4, <2>1, <2>2 DEF N
<1>5. CASE d = x /\ ~OpenStampView(x)
  <2>1. Kept(x) /\ ep[x].epoch = epoch
    BY Zenon, <1>1, <1>5, <1>q DEF QueueMoves, Kept, Attached
  <2>2. tails[x].live
    BY Zenon, <1>5, <2>1 DEF SpaceInv
  <2>3. \/ tails'[x] = tails[x] \/ AcceptView(x) \/ BatchEndView(x)
    BY Zenon, <1>1, <1>5, <1>q DEF QueueMoves, OpenTailView, CloseView, Attached
  <2>4. CASE tails'[x] = tails[x]
    BY <1>2, <1>5, <2>1, <2>2, <2>4
  <2>5. CASE AcceptView(x) \/ BatchEndView(x)
    <3>1. ep[x].tail = tails[x].tail
      BY Zenon, <1>1, <2>1, <2>5 DEF PlaceInv, AcceptView, BatchEndView, Fetching, Reading
    <3>2. tails'[x].live = TRUE /\ tails'[x].tail \in {ep[x].tail + 1, ep[x].tail + ep[x].count}
      BY Zenon, <2>5 DEF AcceptView, BatchEndView
    <3>3. ep[x].count \in Nat
      BY Zenon, BaseFacts, EpFields
    <3> QED BY <1>2, <1>5, <2>1, <3>1, <3>2, <3>3
  <2> QED BY Zenon, <2>3, <2>4, <2>5
<1> QED BY Zenon, <1>3, <1>4, <1>5

(* A step of an endpoint keeps the room that the producer leaves.          *)
LEMMA SpaceStep ==
    ASSUME BaseInv, NEW x \in Readers, EpStep(x), NEW d \in Readers, PlaceInv(x), RefreshInv(x),
           SpaceInv(d), ChunkInv, MinInv, Seekless, SeekInv(x)
    PROVE  SpaceInv(d)'
<1> SUFFICES ASSUME Kept(d)'
             PROVE  /\ tails'[d].live /\ min_tail' <= tails'[d].tail
                    /\ N' <= tails'[d].tail + Capacity
                    /\ Writing' => N' + prod'.chunk <= tails'[d].tail + Capacity
  BY Zenon DEF SpaceInv
<1>1. /\ EpView(x) /\ ~profile.broadcast /\ Calm /\ N' = N /\ N \in Nat /\ prod' = prod
      /\ (Writing' <=> Writing)
      /\ ep[x].epoch # epoch => min_tail' = min_tail
  BY Zenon, StepFacts DEF Kept
<1>2. /\ tails'[d].live = TRUE /\ tails[d].tail \in Nat /\ tails'[d].tail \in Nat
      /\ \/ Kept(d) /\ tails[d].tail <= tails'[d].tail
         \/ Calm /\ d = x /\ ep[x].pc = "stamp" /\ N = tails'[d].tail
  BY Zenon, KeptStep
<1>3. /\ min_tail \in Nat /\ min_tail' \in Nat /\ Capacity \in Nat /\ prod.chunk \in Int
  BY ProdFields, Constants DEF BaseInv, Types, Seqs, EpStep, EpTypes
<1>4. min_tail' = min_tail \/ (RefreshStoreView(x) /\ ep[x].epoch = epoch)
  BY Zenon, <1>1, QueueMove DEF QueueMoves
<1>5. CASE Kept(d) /\ tails[d].tail <= tails'[d].tail
  <2>1. /\ min_tail <= tails[d].tail /\ N <= tails[d].tail + Capacity
        /\ Writing => N + prod.chunk <= tails[d].tail + Capacity
    BY Zenon, <1>5 DEF SpaceInv
  <2>2. min_tail' <= tails[d].tail
    BY Zenon, <1>1, <1>4, <1>5, <2>1, RefreshEnds
  <2> QED BY <1>1, <1>2, <1>3, <1>5, <2>1, <2>2
<1>6. CASE d = x /\ ep[x].pc = "stamp" /\ N = tails'[d].tail
  <2>1. min_tail' = min_tail /\ min_tail <= N
    BY Zenon, <1>1, <1>4, <1>6 DEF RefreshStoreView, MinInv
  <2>2. Writing => prod.chunk \in 1 .. Capacity
    BY Zenon, <1>1 DEF ChunkInv
  <2> QED BY <1>1, <1>2, <1>3, <1>6, <2>1, <2>2
<1> QED BY Zenon, <1>2, <1>5, <1>6

(* A step of an endpoint leaves the unread records, and the scan of the    *)
(* producer, as they are.                                                  *)
LEMMA UnreadStep ==
    ASSUME BaseInv, NEW x \in Readers, EpStep(x), NEW d \in Readers, PlaceInv(x),
           SpaceInv(d), UnreadInv(d), ScanInv(d), Seekless, SeekInv(x)
    PROVE  UnreadInv(d)' /\ ScanInv(d)'
<1> SUFFICES ASSUME Kept(d)' PROVE UnreadInv(d)' /\ ScanInv(d)'
  BY Zenon DEF UnreadInv, ScanInv
<1>1. N' = N /\ N \in Nat /\ prod' = prod /\ slots' = slots /\ stream' = stream
  BY Zenon, StepFacts
<1>2. /\ tails[d].tail \in Nat /\ tails'[d].tail \in Nat
      /\ \/ Kept(d) /\ tails[d].tail <= tails'[d].tail
         \/ N = tails'[d].tail
  BY Zenon, KeptStep
<1>3. ASSUME NEW k \in Seqs, tails'[d].tail <= k, k < N' PROVE Holds(k)'
  <2>1. k \in Nat
    BY Constants DEF Seqs
  <2>2. Kept(d) /\ tails[d].tail <= k /\ k < N
    BY <1>1, <1>2, <1>3, <2>1
  <2> QED BY Zenon, <1>1, <2>2 DEF UnreadInv, Holds, Index
<1>4. ASSUME prod'.pc = "scan" PROVE ScanPast(prod.scan, d, N)'
  <2>1. prod.scan \in ScanType /\ d \in Nat
    BY Zenon, ProdFields, Constants DEF BaseInv
  <2>2. prod.scan.next \in Nat /\ prod.scan.tail \in Int /\ prod.scan.min \in Int
    BY Zenon, <2>1, ScanFields
  <2>3. Kept(d) => ScanPast(prod.scan, d, N)
    BY Zenon, <1>1, <1>4 DEF ScanInv
  <2> QED BY <1>1, <1>2, <2>1, <2>2, <2>3 DEF ScanPast
<1> QED BY Zenon, <1>3, <1>4 DEF UnreadInv, ScanInv

(* An endpoint in queue mode reads the record published at its position.   *)
LEMMA CopyStep ==
    ASSUME BaseInv, NEW x \in Readers, EpStep(x), PlaceInv(x), SpaceInv(x), UnreadInv(x), CopyInv(x),
           Seekless, SeekInv(x)
    PROVE  CopyInv(x)'
<1> SUFFICES ASSUME Kept(x)', ep'[x].pc \in {"copy", "accept"} PROVE CopyInv(x)'
  BY Zenon DEF CopyInv
<1>1. EpView(x) /\ ~profile.broadcast /\ Calm /\ stream' = stream /\ N \in Nat
  BY Zenon, StepFacts DEF Kept
<1>2. ReadHeaderView(x) \/ CopyPayloadView(x)
  BY Zenon, <1>1, QueueMove DEF QueueMoves
<1>3. /\ ep[x].pc \in {"header", "copy"} /\ Position(ep[x])' = Position(ep[x])
  BY Zenon, <1>2 DEF ReadHeaderView, CopyPayloadView, Regs, Position
<1>4. Kept(x)
  BY Zenon, <1>3, KeptStep
<1>5. PICK p \in Nat : p = Position(ep[x])
  BY Zenon, BaseFacts
<1>6. Holds(p)
  <2>1. p < N /\ ep[x].tail = tails[x].tail
    BY Zenon, <1>3, <1>4, <1>5 DEF Kept, Attached, PlaceInv, Reading, Fetching
  <2>2. ep[x].tail \in Nat /\ ep[x].count \in Nat /\ p = ep[x].tail + ep[x].count
    BY <1>5, BaseFacts, EpFields, Constants DEF Seqs, Position
  <2>3. p \in Seqs
    BY <1>5, BaseFacts, Constants DEF EpBound, Seqs
  <2>4. tails[x].tail <= p
    BY <2>1, <2>2
  <2> QED BY Zenon, <1>4, <2>1, <2>3, <2>4 DEF UnreadInv
<1>7. CASE ReadHeaderView(x)
  <2>1. ep'[x].hdr = slots[Index(p)].hdr /\ ep'[x].pc = "copy"
    BY Zenon, <1>5, <1>7 DEF ReadHeaderView, Slot
  <2> QED BY <1>1, <1>3, <1>5, <1>6, <2>1 DEF CopyInv, Holds
<1>8. CASE CopyPayloadView(x)
  <2>1. ep'[x].copy = slots[Index(p)].payload /\ ep'[x].hdr = ep[x].hdr /\ ep[x].pc = "copy"
    BY Zenon, <1>5, <1>8 DEF CopyPayloadView, Slot
  <2>2. ep[x].hdr = stream[p + 1]
    BY Zenon, <1>4, <1>5, <2>1 DEF CopyInv
  <2> QED BY Zenon, <1>1, <1>3, <1>5, <1>6, <2>1, <2>2 DEF CopyInv, Holds
<1> QED BY Zenon, <1>2, <1>7, <1>8

(* What the scan of an endpoint has found stays within what the others     *)
(* allow: they move ahead, or open at the head.                            *)
LEMMA ScanPastStep ==
    ASSUME BaseInv, NEW x \in Readers, EpStep(x), NEW d \in Readers, Kept(d)', PlaceInv(x), SpaceInv(d),
           Seekless, SeekInv(x), NEW s \in ScanType, NEW limit \in Nat, limit <= N,
           Kept(d) => ScanPast(s, d, limit)
    PROVE  /\ s.next > d => s.min \in 0 .. tails'[d].tail \/ limit <= tails'[d].tail
           /\ s.next = d => s.tail <= tails'[d].tail \/ limit <= tails'[d].tail
<1>1. /\ tails[d].tail \in Nat /\ tails'[d].tail \in Nat
      /\ \/ Kept(d) /\ tails[d].tail <= tails'[d].tail
         \/ N = tails'[d].tail
  BY Zenon, KeptStep
<1>2. s.tail \in Int /\ s.min \in Int /\ N \in Nat
  BY Zenon, ScanFields, StepFacts
<1> QED BY <1>1, <1>2 DEF ScanPast

(* A step of one endpoint keeps what the scan of another has counted.      *)
LEMMA OtherRefresh ==
    ASSUME BaseInv, NEW x \in Readers, EpStep(x), NEW y \in Readers, y # x, PlaceInv(x), PlaceInv(y),
           RefreshInv(y), \A d \in Readers : SpaceInv(d), Seekless, SeekInv(x)
    PROVE  RefreshInv(y)'
<1> SUFFICES ASSUME Calm', ep'[y].epoch = epoch', ep'[y].pc = "refresh" PROVE RefreshInv(y)'
  BY Zenon DEF RefreshInv
<1>1. ep'[y] = ep[y] /\ Calm /\ ep[y].epoch = epoch /\ ep[y].pc = "refresh"
  BY Zenon, StepFacts DEF Others
<1>2. /\ Position(ep[y])' = Position(ep[y]) /\ Position(ep[y]) \in Nat /\ ep[y].scan \in ScanType
      /\ Position(ep[y]) <= N
  BY Zenon, <1>1, BaseFacts, EpFields DEF Position, PlaceInv
<1>3. ASSUME NEW d \in Readers, Kept(d)' PROVE ScanPast(ep[y].scan, d, Position(ep[y]))'
  <2>1. Kept(d) => ScanPast(ep[y].scan, d, Position(ep[y]))
    BY Zenon, <1>1 DEF RefreshInv
  <2> QED BY Zenon, <1>1, <1>2, <1>3, <2>1, ScanPastStep DEF ScanPast
<1> QED BY Zenon, <1>1, <1>2, <1>3 DEF RefreshInv

(* The scan of an endpoint of this epoch counts the endpoint itself, and   *)
(* every other that the producer has to wait for.                          *)
LEMMA RefreshStep ==
    ASSUME BaseInv, NEW x \in Readers, EpStep(x), PlaceInv(x), RefreshInv(x),
           \A d \in Readers : SpaceInv(d), Seekless, SeekInv(x)
    PROVE  RefreshInv(x)'
<1> SUFFICES ASSUME Calm', ep'[x].epoch = epoch', ep'[x].pc = "refresh" PROVE RefreshInv(x)'
  BY Zenon DEF RefreshInv
<1>1. /\ EpView(x) /\ ~profile.broadcast /\ Calm /\ epoch' = epoch
      /\ ~(ep[x].pc = "refresh" /\ x \in Skips(ep[x].scan, x))
  BY Zenon, StepFacts
<1>2. CheckMinView(x) \/ RefreshScanView(x)
  BY Zenon, <1>1, QueueMove DEF QueueMoves
<1>3. /\ Position(ep[x])' = Position(ep[x]) /\ ep'[x].epoch = ep[x].epoch /\ ep[x].pc \in {"min", "refresh"}
      /\ tails'[x] = tails[x]
  BY Zenon, <1>2 DEF CheckMinView, RefreshScanView, Home, Regs, Call, Mine, Position
<1>4. /\ Position(ep[x]) \in Nat /\ Position(ep[x]) <= N /\ Position(ep[x]) = tails[x].tail
      /\ tails[x].live /\ x \in Nat
  BY Zenon, <1>1, <1>3, BaseFacts, Constants DEF PlaceInv
<1> DEFINE P == Position(ep[x])
<1>5. CASE CheckMinView(x)
  <2>1. ep'[x].scan = NoScan /\ \A d \in Readers : d \in Nat
    BY Zenon, <1>5, Constants DEF CheckMinView, Home
  <2>2. ASSUME NEW d \in Readers, Kept(d)' PROVE ScanPast(ep[x].scan, d, P)'
    <3>1. tails'[d].tail \in Nat
      BY Zenon, <2>2, KeptStep
    <3> QED BY <2>1, <3>1 DEF ScanPast, NoScan
  <2>3. /\ ep'[x].scan.next > x => ep'[x].scan.min \in 0 .. P
        /\ ep'[x].scan.next = x => ep'[x].scan.tail \in {-1, P}
    BY <1>4, <2>1 DEF NoScan
  <2> QED BY Zenon, <1>3, <2>2, <2>3 DEF RefreshInv
<1>6. CASE RefreshScanView(x)
  <2>1. PICK s \in ScanType : s = ep[x].scan
    BY Zenon, BaseFacts, EpFields
  <2>2. /\ ep[x].pc = "refresh" /\ ep'[x].scan = ScanNext(s, x) /\ overtaken' = overtaken \cup Skips(s, x)
    BY Zenon, <1>6, <2>1 DEF RefreshScanView
  <2>3. /\ s.next > x => s.min \in 0 .. P
        /\ s.next = x => s.tail \in {-1, P}
        /\ \A d \in Readers : Kept(d) => ScanPast(s, d, P)
    BY Zenon, <1>1, <1>3, <2>1, <2>2 DEF RefreshInv
  <2>4. s.next = x /\ s.tail # -1 => Counted(x, x)
    BY Zenon, <1>1, <1>4, <2>1, <2>2 DEF Skips
  <2>5. /\ s.next \in Nat /\ s.tail \in Int /\ s.min \in Int
        /\ s.tail = -1 => /\ ScanNext(s, x).next = s.next /\ ScanNext(s, x).min = s.min
                          /\ ScanNext(s, x).tail = tails[s.next].tail
        /\ s.tail # -1 => /\ ScanNext(s, x).next = s.next + 1 /\ ScanNext(s, x).tail = -1
                          /\ ScanNext(s, x).min = IF Counted(s.next, x) THEN Lower(s) ELSE s.min
        /\ s.tail >= -1 /\ s.min >= -1
    BY Zenon, ScanFields
  <2>6. /\ ScanNext(s, x).next > x => ScanNext(s, x).min \in 0 .. P
        /\ ScanNext(s, x).next = x => ScanNext(s, x).tail \in {-1, P}
    <3>1. CASE s.tail = -1
      BY <1>4, <2>3, <2>5, <3>1
    <3>2. CASE s.tail # -1
      <4>1. PICK m : m = ScanNext(s, x).min
        OBVIOUS
      <4>2. m = (IF Counted(s.next, x) THEN Lower(s) ELSE s.min) /\ ScanNext(s, x).next = s.next + 1 /\ s.tail >= 0
        BY <2>5, <3>2, <4>1
      <4>3. s.next > x => m \in 0 .. P
        BY <1>4, <2>3, <2>5, <4>2 DEF Lower
      <4>4. s.next = x => m \in 0 .. P
        BY <1>4, <2>3, <2>4, <2>5, <3>2, <4>2 DEF Lower
      <4> QED BY <1>4, <2>5, <3>2, <4>1, <4>2, <4>3, <4>4
    <3> QED BY Zenon, <3>1, <3>2
  <2>7. ASSUME NEW d \in Readers, Kept(d)' PROVE ScanPast(ep[x].scan, d, P)'
    <3>1. Kept(d) /\ tails[d].tail \in Nat /\ tails'[d] = tails[d]
      <4>1. Kept(d) /\ tails[d].tail \in Nat
        BY Zenon, <2>2, <2>7, KeptStep
      <4> QED BY Zenon, <1>3, <4>1, StepFacts DEF Others
    <3>2. s.next = d /\ s.tail # -1 => Counted(d, x)
      BY Zenon, <2>2, <2>7, <3>1 DEF Skips, SpaceInv, Kept
    <3>3. ScanPast(ScanNext(s, x), d, P)
      BY Zenon, <1>4, <2>3, <3>1, <3>2, ScanNextPast
    <3> QED BY Zenon, <1>3, <2>2, <3>1, <3>3 DEF ScanPast
  <2> QED BY Zenon, <1>3, <2>2, <2>6, <2>7 DEF RefreshInv
<1> QED BY Zenon, <1>2, <1>5, <1>6

(* The other endpoints keep their places and what they have read.          *)
LEMMA OtherPlace ==
    ASSUME BaseInv, NEW x \in Readers, EpStep(x), NEW d \in Readers, d # x, PlaceInv(d), PlaceInv(x),
           SpaceInv(d), CopyInv(d), Seekless, SeekInv(x)
    PROVE  PlaceInv(d)' /\ CopyInv(d)'
<1>1. /\ ep'[d] = ep[d] /\ tails'[d] = tails[d] /\ (Calm' => Calm) /\ N' = N /\ epoch' = epoch
      /\ prod' = prod /\ stream' = stream
  BY Zenon, StepFacts DEF Others
<1>2. Position(ep[d])' = Position(ep[d]) /\ (Attached(d)' => Attached(d))
  BY Zenon, <1>1 DEF Position, Attached
<1>3. Kept(d)' => Kept(d)
  BY Zenon, KeptStep
<1> QED BY Zenon, <1>1, <1>2, <1>3 DEF PlaceInv, CopyInv

(* A step of an endpoint keeps the invariant of queue mode.                *)
LEMMA QueueStep ==
    ASSUME BaseInv, QueueInv, NEW x \in Readers, EpStep(x)
    PROVE  QueueInv'
<1>1. /\ Seekless /\ ChunkInv /\ MinInv
      /\ \A c \in Readers : SeekInv(c) /\ PlaceInv(c) /\ RefreshInv(c)
      /\ \A c \in Readers : SpaceInv(c) /\ UnreadInv(c) /\ CopyInv(c) /\ ScanInv(c)
  BY Zenon DEF QueueInv, KeptInv
<1>2. /\ EpView(x) /\ Others(x) /\ profile' = profile /\ prod' = prod /\ (Writing' <=> Writing)
  BY Zenon, StepFacts
<1>3. Seekless' /\ ChunkInv'
  BY Zenon, <1>1, <1>2 DEF Seekless, ChunkInv
<1>4. MinInv'
  BY Zenon, <1>1, MinStep
<1>5. ASSUME NEW d \in Readers
      PROVE  SeekInv(d)' /\ PlaceInv(d)' /\ CopyInv(d)' /\ RefreshInv(d)'
  <2>1. CASE d = x
    <3>1. SeekInv(x)'
      BY Zenon, <1>1, <1>2, QueueMove DEF QueueMoves, SeekInv
    <3>2. PlaceInv(x)' /\ CopyInv(x)' /\ RefreshInv(x)'
      BY Zenon, <1>1, PlaceStep, CopyStep, RefreshStep
    <3> QED BY Zenon, <2>1, <3>1, <3>2
  <2>2. CASE d # x
    <3>1. SeekInv(d)'
      BY Zenon, <1>1, <1>2, <2>2 DEF Others, SeekInv
    <3>2. PlaceInv(d)' /\ CopyInv(d)' /\ RefreshInv(d)'
      BY Zenon, <1>1, <2>2, OtherPlace, OtherRefresh
    <3> QED BY Zenon, <3>1, <3>2
  <2> QED BY Zenon, <2>1, <2>2
<1>6. ASSUME NEW d \in Readers PROVE SpaceInv(d)' /\ UnreadInv(d)' /\ ScanInv(d)'
  BY Zenon, <1>1, SpaceStep, UnreadStep
<1> QED BY Zenon, <1>3, <1>4, <1>5, <1>6 DEF QueueInv, KeptInv

(* So does time.                                                           *)
LEMMA QueueClock ==
    ASSUME BaseInv, QueueInv, TimeStep
    PROVE  QueueInv'
<1>1. /\ Static /\ ep' = ep /\ overtaken' = overtaken /\ stray' = stray /\ min_tail' = min_tail
      /\ \A d \in Readers : tails'[d].tail = tails[d].tail /\ tails'[d].live = tails[d].live
  BY Zenon DEF TimeStep, ClockView, Mins
<1>2. /\ profile' = profile /\ prod' = prod /\ slots' = slots /\ stream' = stream /\ epoch' = epoch
      /\ N' = N /\ (Calm' <=> Calm) /\ (Writing' <=> Writing)
  BY Zenon, <1>1 DEF Static, N, Calm, Writing
<1>3. Seekless' /\ ChunkInv' /\ MinInv'
  BY Zenon, <1>1, <1>2 DEF QueueInv, Seekless, ChunkInv, MinInv
<1>4. \A d \in Readers : (Attached(d)' <=> Attached(d)) /\ (Kept(d)' <=> Kept(d))
  BY Zenon, <1>1, <1>2 DEF Attached, Kept
<1>5. ASSUME NEW d \in Readers PROVE SeekInv(d)' /\ PlaceInv(d)' /\ KeptInv(d)' /\ RefreshInv(d)'
  <2>1. SeekInv(d)' /\ PlaceInv(d)'
    BY Zenon, <1>1, <1>2, <1>4 DEF QueueInv, SeekInv, PlaceInv, Position
  <2>2. SpaceInv(d)' /\ ScanInv(d)'
    BY Zenon, <1>1, <1>2, <1>4 DEF QueueInv, KeptInv, SpaceInv, ScanInv, ScanPast
  <2>3. UnreadInv(d)' /\ CopyInv(d)'
    BY Zenon, <1>1, <1>2, <1>4 DEF QueueInv, KeptInv, UnreadInv, CopyInv, Holds, Index, Position
  <2>4. RefreshInv(d)'
    BY Zenon, <1>1, <1>2, <1>4 DEF QueueInv, RefreshInv, ScanPast, Position
  <2> QED BY Zenon, <2>1, <2>2, <2>3, <2>4 DEF KeptInv
<1> QED BY Zenon, <1>3, <1>5 DEF QueueInv

(* What an endpoint accepts is the record published, in both modes.        *)
LEMMA Ready ==
    ASSUME BaseInv, QueueInv, NEW c \in Readers, ReadInv(c)
    PROVE  ReadyInv(c)
<1>1. CASE profile.broadcast
  BY Zenon, <1>1 DEF ReadInv, ReadyInv, Reading
<1>2. CASE ~profile.broadcast
  <2>1. PlaceInv(c) /\ CopyInv(c)
    BY Zenon DEF QueueInv, KeptInv
  <2> QED BY Zenon, <1>2, <2>1 DEF ReadyInv, Trusted, PlaceInv, CopyInv, Kept, Calm, Attached, Reading
<1> QED BY Zenon, <1>1, <1>2

-----------------------------------------------------------------------------
(* A step of the producer, of an endpoint or of the clock.                 *)
RingStep == ProdStep \/ TimeStep \/ \E c \in Readers : EpStep(c)

(* Every step keeps the invariant of the stream.                           *)
LEMMA StreamStep ==
    ASSUME StreamInv, RingStep
    PROVE  StreamInv'
<1>1. BaseInv /\ SlotInv /\ \A c \in Readers : Told(c) /\ ReadInv(c)
  BY Zenon DEF StreamInv
<1>2. CASE ProdStep
  <2>1. BaseInv' /\ SlotInv'
    BY Zenon, <1>1, <1>2, ProducerBase, SlotStep
  <2>2. \A c \in Readers : Told(c)' /\ ReadInv(c)'
    BY Zenon, <1>1, <1>2, GapProd, ReadProd
  <2> QED BY Zenon, <2>1, <2>2 DEF StreamInv
<1>3. CASE TimeStep
  <2>1. BaseInv' /\ SlotInv'
    BY Zenon, <1>1, <1>3, ClockBase, SlotStatic DEF TimeStep, ClockView
  <2>2. \A d \in Readers : Told(d)' /\ ReadInv(d)'
    BY Zenon, <1>1, <1>3, ClockReads
  <2> QED BY Zenon, <2>1, <2>2 DEF StreamInv
<1>4. ASSUME NEW x \in Readers, EpStep(x) PROVE StreamInv'
  <2>1. BaseInv' /\ SlotInv'
    BY Zenon, <1>1, <1>4, EndpointBase, SlotStatic DEF EpStep
  <2>2. Told(x)' /\ ReadInv(x)'
    BY Zenon, <1>1, <1>4, GapStep, ReadStep
  <2>3. \A d \in Readers \ {x} : Told(d)' /\ ReadInv(d)'
    BY Zenon, <1>1, <1>4, OtherReads
  <2> QED BY Zenon, <2>1, <2>2, <2>3 DEF StreamInv
<1> QED BY Zenon, <1>2, <1>3, <1>4 DEF RingStep

(* Every step keeps what the endpoints have handed out.                    *)
LEMMA HandedStep ==
    ASSUME HandedInv, RingStep
    PROVE  HandedInv'
<1>1. /\ StreamInv /\ BaseInv /\ SlotInv /\ QueueInv /\ LapInv /\ OrderInv
      /\ \A c \in Readers : Told(c) /\ ReadInv(c) /\ HandInv(c) /\ FollowInv(c)
  BY Zenon DEF HandedInv, StreamInv
<1>2. StreamInv'
  BY Zenon, <1>1, StreamStep
<1>3. QueueInv'
  BY Zenon, <1>1, QueueProd, QueueStep, QueueClock DEF RingStep
<1>4. ASSUME NEW d \in Readers PROVE HandInv(d)' /\ FollowInv(d)'
  <2>1. CASE ProdStep
    BY Zenon, <1>1, <2>1, HandProd, FollowProd
  <2>2. CASE TimeStep
    BY Zenon, <1>1, <2>2, ClockHanded, ClockFollows
  <2>3. ASSUME NEW x \in Readers, EpStep(x), d = x PROVE HandInv(d)' /\ FollowInv(d)'
    BY Zenon, <1>1, <2>3, HandedKeeps, Ready, FollowKeeps
  <2>4. ASSUME NEW x \in Readers, EpStep(x), d # x PROVE HandInv(d)' /\ FollowInv(d)'
    BY Zenon, <1>1, <2>4, OtherHanded, OtherFollows
  <2> QED BY Zenon, <2>1, <2>2, <2>3, <2>4 DEF RingStep
<1>5. LapInv' /\ OrderInv'
  <2>1. CASE ProdStep
    BY Zenon, <1>1, <2>1, LapStep, OrderStep
  <2>2. CASE TimeStep \/ \E c \in Readers : EpStep(c)
    BY Zenon, <1>1, <2>2, LapStatic DEF TimeStep, ClockView, EpStep
  <2> QED BY Zenon, <2>1, <2>2 DEF RingStep
<1> QED BY Zenon, <1>2, <1>3, <1>4, <1>5 DEF HandedInv

(* A lap is reported only by an endpoint that was lapped.                  *)
LEMMA LappedTrue ==
    ASSUME StreamInv, RingStep, NEW c \in Readers, ep'[c].lapped, ~ep[c].lapped, Attached(c)
    PROVE  N >= Position(ep[c]) + Capacity
<1>1. BaseInv /\ ReadInv(c)
  BY Zenon DEF StreamInv
<1>2. EpStep(c)
  <2>1. ep' # ep /\ ep'[c] # ep[c]
    OBVIOUS
  <2>2. ~ProdStep /\ ~TimeStep
    BY Zenon, <2>1 DEF ProdStep, Quiet, TimeStep, ClockView
  <2>3. ASSUME NEW x \in Readers, EpStep(x), x # c PROVE FALSE
    BY Zenon, <2>1, <2>3 DEF EpStep, Others
  <2> QED BY Zenon, <2>2, <2>3 DEF RingStep
<1> QED BY Zenon, <1>1, <1>2, LappedStep
=============================================================================
