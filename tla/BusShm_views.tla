---------------------------- MODULE BusShm_views ----------------------------
(***************************************************************************)
(* The steps of the endpoints and of the clock in terms of the fields they *)
(* change.                                                                 *)
(***************************************************************************)
EXTENDS BusShm_inv

(* What a step of endpoint c does to c, one definition per action.         *)
Regs(c) == ep'[c].op = ep[c].op /\ ep'[c].tail = ep[c].tail /\ ep'[c].count = ep[c].count
Data(c) == ep'[c].seq = ep[c].seq /\ ep'[c].hdr = ep[c].hdr /\ ep'[c].copy = ep[c].copy
Call(c) == ep'[c].epoch = ep[c].epoch /\ ep'[c].back = ep[c].back
Home(c) ==
    /\ Call(c) /\ ep'[c].op = "poll" /\ ep'[c].tail = 0 /\ ep'[c].count = 0
    /\ ep'[c].pc = IF ep[c].back = << >> THEN "idle" ELSE "restore"
Expects(c, seq) == ep'[c].expected = seq
NoLap(c) == ep'[c].lapped => ep[c].lapped
Mine(c)  == tails'[c] = tails[c] /\ handed'[c] = handed[c] /\ NoLap(c)

OpenView(c) ==
    /\ ep[c].pc = "closed" /\ ep'[c].pc = "open" /\ epoch # 0 /\ ep'[c].epoch = epoch
    /\ ep'[c].back = << >> /\ ep'[c].op = "poll" /\ ep'[c].tail = head /\ ep'[c].count = 0
    /\ Expects(c, 0) /\ handed'[c] = NoHanded /\ tails'[c] = tails[c] /\ NoLap(c) /\ Mins
OpenTailView(c) ==
    /\ ep[c].pc = "open" /\ ep'[c].pc = "stamp" /\ Regs(c) /\ Call(c) /\ Expects(c, ep[c].expected)
    /\ tails'[c].tail = ep[c].tail /\ tails'[c].live = tails[c].live
    /\ handed'[c] = handed[c] /\ NoLap(c) /\ Mins
OpenStampView(c) ==
    /\ ep[c].pc = "stamp" /\ ep'[c].pc = "idle" /\ Regs(c) /\ Call(c) /\ Expects(c, ep[c].expected)
    /\ tails'[c].tail = tails[c].tail /\ tails'[c].live = TRUE
    /\ c \notin overtaken' => Len(stream) = ep[c].tail
    /\ overtaken \ {c} \subseteq overtaken'
    /\ handed'[c] = handed[c] /\ NoLap(c) /\ UNCHANGED min_tail
CloseView(c) ==
    /\ ep[c].pc = "idle" /\ ep'[c].pc = "closed" /\ ep'[c].back = << >> /\ ep'[c].op = "poll"
    /\ ep'[c].tail = 0 /\ ep'[c].count = 0
    /\ tails'[c].tail = tails[c].tail /\ tails'[c].live = FALSE
    /\ handed'[c] = handed[c] /\ NoLap(c) /\ Mins
DieView(c) ==
    /\ ep[c].pc # "closed" /\ ep'[c].pc = "dead" /\ Regs(c) /\ Call(c) /\ Expects(c, ep[c].expected)
    /\ Mine(c) /\ Mins
LeaveView(c) == ep[c].pc \in {"idle", "peek"} /\ Home(c) /\ Expects(c, ep[c].expected) /\ Mine(c) /\ Mins
PollView(c) ==
    /\ ep[c].pc \in {"idle", "peek"} /\ ep'[c].pc = "tail" /\ ep[c].epoch = epoch
    /\ ep'[c].tail = ep[c].tail /\ ep'[c].count = ep[c].count
    /\ ep[c].pc = "peek" => ep'[c].op = "poll"
    /\ Call(c) /\ Expects(c, ep[c].expected) /\ Mine(c) /\ Mins
LoadTailView(c) ==
    /\ ep[c].pc = "tail" /\ ep'[c].pc = "seq" /\ ep'[c].op = ep[c].op
    /\ ep'[c].tail = tails[c].tail /\ ep'[c].count = 0
    /\ Call(c) /\ Expects(c, ep[c].expected) /\ Mine(c) /\ Mins
(* A poll without a result ends, or the batch does.                        *)
StopView(c) ==
    /\ \/ Home(c) /\ ep[c].count = 0
       \/ ep'[c].pc = "end" /\ Regs(c) /\ Call(c) /\ NoLap(c) /\ ep[c].count > 0
    /\ Expects(c, ep[c].expected) /\ tails'[c] = tails[c] /\ handed'[c] = handed[c] /\ Mins
CheckSeqView(c) ==
    /\ ep[c].pc = "seq"
    /\ \/ /\ Slot(ep[c]).seq = Position(ep[c]) + 1
          /\ ep'[c].pc = "header" /\ ep'[c].seq = Position(ep[c]) + 1
          /\ Regs(c) /\ Call(c) /\ Expects(c, ep[c].expected) /\ Mine(c) /\ Mins
       \/ /\ StopView(c)
          /\ ep'[c].lapped => ep[c].lapped \/ (profile.broadcast /\ Slot(ep[c]).seq > Position(ep[c]) + 1)
ReadHeaderView(c) ==
    /\ ep[c].pc = "header" /\ ep'[c].pc = "copy" /\ ep'[c].seq = ep[c].seq
    /\ ep'[c].hdr = Slot(ep[c]).hdr
    /\ Regs(c) /\ Call(c) /\ Expects(c, ep[c].expected) /\ Mine(c) /\ Mins
CopyPayloadView(c) ==
    /\ ep[c].pc = "copy" /\ ep'[c].pc = (IF profile.broadcast THEN "recheck" ELSE "accept")
    /\ ep'[c].seq = ep[c].seq /\ ep'[c].hdr = ep[c].hdr /\ ep'[c].copy = Slot(ep[c]).payload
    /\ Regs(c) /\ Call(c) /\ Expects(c, ep[c].expected) /\ Mine(c) /\ Mins
RecheckView(c) ==
    /\ ep[c].pc = "recheck"
    /\ \/ /\ Slot(ep[c]).seq = ep[c].seq /\ ep'[c].pc = "accept"
          /\ Regs(c) /\ Data(c) /\ Call(c) /\ Expects(c, ep[c].expected) /\ Mine(c) /\ Mins
       \/ Slot(ep[c]).seq # ep[c].seq /\ StopView(c)
RefuseView(c) == ep[c].pc = "accept" /\ StopView(c) /\ NoLap(c)
HandView(c, result) ==
    IF ep[c].back # << >> THEN handed'[c] = handed[c]
    ELSE /\ handed'[c].seq = ep[c].hdr /\ handed'[c].payload = ep[c].copy
         /\ handed'[c].pos = Position(ep[c]) /\ handed'[c].prev = handed[c].seq
         /\ handed'[c].result = result
AcceptView(c) ==
    /\ ep[c].pc = "accept" /\ ep[c].op = "poll"
    /\ Call(c) /\ Expects(c, ep[c].hdr + 1) /\ HandView(c, GapResult(ep[c]))
    /\ tails'[c].tail = ep[c].tail + 1 /\ tails'[c].live = TRUE
    /\ IF profile.broadcast THEN Home(c)
       ELSE /\ ep'[c].pc = "min" /\ ep'[c].op = "poll" /\ ep'[c].tail = ep[c].tail
            /\ ep'[c].count = 1
    /\ NoLap(c) /\ Mins
AcceptBatchView(c) ==
    /\ ep[c].pc = "accept" /\ ep[c].op = "poll_batch"
    /\ ep'[c].pc = IF ep[c].count + 1 = (IF profile.broadcast THEN 1 ELSE profile.batch)
                   THEN "end" ELSE "seq"
    /\ ep'[c].op = "poll_batch" /\ ep'[c].tail = ep[c].tail /\ ep'[c].count = ep[c].count + 1
    /\ Call(c) /\ Expects(c, ep[c].expected) /\ HandView(c, "batch")
    /\ tails'[c] = tails[c] /\ NoLap(c) /\ Mins
BatchEndView(c) ==
    /\ ep[c].pc = "end" /\ Call(c) /\ Expects(c, handed[c].seq + 1) /\ handed'[c] = handed[c]
    /\ tails'[c].tail = ep[c].tail + ep[c].count /\ tails'[c].live = TRUE
    /\ IF profile.broadcast THEN Home(c) ELSE ep'[c].pc = "min" /\ Regs(c)
    /\ NoLap(c) /\ Mins
CheckMinView(c) ==
    /\ ep[c].pc = "min" /\ Expects(c, ep[c].expected)
    /\ Home(c) \/ (ep'[c].pc = "refresh" /\ ep'[c].scan = NoScan /\ Regs(c) /\ Call(c))
    /\ Mine(c) /\ Mins
RefreshScanView(c) ==
    /\ ep[c].pc = "refresh" /\ ep'[c].pc = "refresh" /\ ep[c].scan.next < Consumers
    /\ ep'[c].scan = ScanNext(ep[c].scan, c) /\ Regs(c) /\ Call(c) /\ Expects(c, ep[c].expected)
    /\ overtaken' = overtaken \cup Skips(ep[c].scan, c) /\ Mine(c) /\ UNCHANGED min_tail
RefreshStoreView(c) ==
    /\ ep[c].pc = "refresh" /\ ep[c].scan.next = Consumers /\ Home(c) /\ Expects(c, ep[c].expected)
    /\ min_tail' = ScanResult(ep[c].scan, Position(ep[c])) /\ Mine(c) /\ UNCHANGED overtaken
SeekHeadView(c) ==
    /\ ep[c].pc = "idle" /\ ep'[c] = ep[c] /\ "seek_head" \in profile.ops
    /\ tails'[c].tail = head /\ tails'[c].live = TRUE /\ handed'[c] = handed[c] /\ Mins
RewindView(c) ==
    /\ ep[c].pc = "idle" /\ ep'[c].pc = "idle" /\ "rewind" \in profile.ops /\ Regs(c) /\ Call(c)
    /\ Expects(c, 0) /\ handed'[c] = NoHanded /\ NoLap(c) /\ Mins
PeekView(c) ==
    /\ ep[c].pc = "idle" /\ ep'[c].pc = "peek" /\ "peek" \in profile.ops /\ Regs(c)
    /\ ep'[c].epoch = ep[c].epoch /\ ep'[c].back # << >>
    /\ ep'[c].back[1] = tails[c].tail /\ ep'[c].back[2] = ep[c].expected
    /\ Expects(c, 0) /\ handed'[c] = handed[c] /\ NoLap(c) /\ Mins
RestoreView(c) ==
    /\ ep[c].pc = "restore" /\ ep'[c].pc = "idle" /\ Regs(c) /\ ep'[c].epoch = ep[c].epoch
    /\ ep'[c].back = << >> /\ Expects(c, ep[c].back[2]) /\ tails'[c].tail = ep[c].back[1]
    /\ handed'[c] = handed[c] /\ NoLap(c) /\ Mins
EpView(c) ==
    \/ OpenView(c) \/ OpenTailView(c) \/ OpenStampView(c) \/ CloseView(c) \/ DieView(c)
    \/ LeaveView(c) \/ PollView(c) \/ LoadTailView(c) \/ CheckSeqView(c) \/ ReadHeaderView(c)
    \/ CopyPayloadView(c) \/ RecheckView(c) \/ RefuseView(c) \/ AcceptView(c) \/ AcceptBatchView(c)
    \/ BatchEndView(c) \/ CheckMinView(c) \/ RefreshScanView(c) \/ RefreshStoreView(c)
    \/ SeekHeadView(c) \/ RewindView(c) \/ PeekView(c) \/ RestoreView(c)

Others(c) ==
    \A d \in Readers \ {c} : ep'[d] = ep[d] /\ tails'[d] = tails[d] /\ handed'[d] = handed[d]

(* Time passes, and nothing moves.                                         *)
ClockView ==
    /\ Static /\ Mins /\ UNCHANGED <<ep, handed>>
    /\ \A d \in Readers : tails'[d].tail = tails[d].tail /\ tails'[d].live = tails[d].live

(* The steps in these terms, with what they do to stray.                   *)
EpStep(c) == EpView(c) /\ Others(c) /\ Static /\ EpTypes' /\ stray' = (stray \/ Strays(c))
TimeStep  == ClockView /\ EpTypes' /\ stray' = stray
=============================================================================
