---------------------------- MODULE BusShm_steps ----------------------------
(***************************************************************************)
(* Every action of BusShm in terms of the fields it changes, and that it   *)
(* keeps their types.                                                      *)
(***************************************************************************)
EXTENDS BusShm, BusShm_producer, BusShm_views

(* The initial values of the records have their types.                     *)
LEMMA NewTypes ==
    /\ NoScan \in ScanType /\ NewEp \in EpType /\ NewTail \in TailType /\ NoHanded \in HandType
    /\ << >> \in BackType /\ 0 \in Seqs /\ None \in Seqs
<1>1. NoScan \in ScanType
  BY Constants DEF NoScan, ScanType
<1>2. << >> \in BackType /\ 0 \in Seqs /\ None \in Seqs
  BY Constants DEF BackType, Seqs, None
<1>3. NewEp \in EpType
  BY <1>1, <1>2, Constants DEF NewEp, EpType, EpPc
<1>4. NewTail \in TailType
  BY Zenon, <1>2 DEF NewTail, TailType
<1>5. NoHanded \in HandType
  BY <1>2, Constants DEF NoHanded, HandType
<1> QED BY Zenon, <1>1, <1>2, <1>3, <1>4, <1>5

(* The fields of an endpoint whose call has returned.                      *)
LEMMA ReturnedFields ==
    ASSUME NEW e \in EpType, NEW b \in BOOLEAN
    PROVE  LET f == Returned(e, b)
           IN  /\ f \in EpType /\ f.pc = IF e.back = << >> THEN "idle" ELSE "restore"
               /\ f.op = "poll" /\ f.epoch = e.epoch /\ f.expected = e.expected /\ f.tail = 0
               /\ f.count = 0 /\ f.back = e.back /\ f.lapped = b
<1>1. ASSUME NEW n \in EpType, NEW p \in {"idle", "restore"}, NEW x \in 0 .. MaxEpoch,
             NEW y \in 0 .. MaxSeq + 1, NEW z \in BackType
      PROVE  [n EXCEPT !.pc = p, !.lapped = b, !.epoch = x, !.expected = y, !.back = z] \in EpType
  BY ZenonT(20) DEF EpType, EpPc
<1>2. Returned(e, b) \in EpType
  BY ZenonT(20), <1>1, NewTypes, EpFields DEF Returned
<1> QED BY Zenon, <1>2 DEF Returned, NewEp

(* A step that changes endpoint c alone.                                   *)
LEMMA LocalUpdate ==
    ASSUME Types, NEW c \in Readers, NEW e \in EpType, Local(c, e)
    PROVE  /\ ep' \in [Readers -> EpType] /\ ep'[c] = e
           /\ \A d \in Readers \ {c} : ep'[d] = ep[d]
  BY Zenon DEF Types, Local

(* A scan goes on to the next endpoint only after this one's stamp.        *)
LEMMA ScanNextType ==
    ASSUME Types, NEW s \in ScanType, NEW x, s.next < Consumers
    PROVE  ScanNext(s, x) \in ScanType
<1>1. s.next \in Readers /\ s.next \in Nat /\ s.tail \in -1 .. MaxSeq /\ s.min \in -1 .. MaxSeq
  BY Constants DEF ScanType
<1>2. tails[s.next].tail \in 0 .. MaxSeq
  BY Zenon, <1>1, TailFields DEF Types, Seqs
<1>3. (IF Counted(s.next, x) THEN Lower(s) ELSE s.min) \in -1 .. MaxSeq
  BY Zenon, <1>1 DEF Lower
<1>4. s.next + 1 \in 0 .. Consumers
  BY <1>1, Constants
<1> QED BY <1>1, <1>2, <1>3, <1>4, Constants DEF ScanNext, ScanType

(* om_bus_endpoint_open.                                                   *)
LEMMA OpenStep ==
    ASSUME Types, NEW c \in Readers, Open(c)
    PROVE  OpenView(c) /\ Others(c) /\ Static /\ EpTypes'
<1> SUFFICES OpenView(c) /\ Others(c) /\ EpTypes'
  BY Zenon DEF Open
<1> DEFINE e == [NewEp EXCEPT !.pc = "open", !.epoch = epoch, !.tail = head]
<1>1. e \in EpType
  BY Zenon, NewTypes DEF Types, EpType, EpPc
<1>2. /\ e.pc = "open" /\ e.epoch = epoch /\ e.tail = head /\ e.back = << >> /\ e.op = "poll"
      /\ e.count = 0 /\ e.expected = 0 /\ e.lapped = FALSE
  BY Zenon DEF NewEp
<1> HIDE DEF e
<1>3. /\ ep' \in [Readers -> EpType] /\ ep'[c] = e
      /\ \A d \in Readers \ {c} : ep'[d] = ep[d]
  BY Zenon, <1>1, LocalUpdate DEF Open, e
<1>4. /\ handed' \in [Readers -> HandType] /\ handed'[c] = NoHanded
      /\ \A d \in Readers \ {c} : handed'[d] = handed[d]
  BY Zenon, NewTypes DEF Open, Types
<1>5. OpenView(c)
  BY Zenon, <1>2, <1>3, <1>4 DEF Open, OpenView, Expects, NoLap, Mins
<1>6. EpTypes'
  BY Zenon, <1>3, <1>4 DEF Open, Types, EpTypes
<1> QED BY Zenon, <1>3, <1>4, <1>5, <1>6 DEF Open, Others

(* The position is announced.                                              *)
LEMMA OpenTailStep ==
    ASSUME Types, NEW c \in Readers, EpBound(c), OpenTail(c)
    PROVE  OpenTailView(c) /\ Others(c) /\ Static /\ EpTypes'
<1> SUFFICES OpenTailView(c) /\ Others(c) /\ EpTypes'
  BY Zenon DEF OpenTail
<1> DEFINE e == [ep[c] EXCEPT !.pc = "stamp"]
<1>1. ep[c] \in EpType /\ tails[c] \in TailType /\ handed[c] \in HandType
  BY Zenon DEF Types
<1>2. /\ e \in EpType /\ e.pc = "stamp" /\ e.op = ep[c].op /\ e.epoch = ep[c].epoch
      /\ e.expected = ep[c].expected /\ e.tail = ep[c].tail /\ e.seq = ep[c].seq
      /\ e.hdr = ep[c].hdr /\ e.copy = ep[c].copy /\ e.count = ep[c].count
      /\ e.scan = ep[c].scan /\ e.back = ep[c].back /\ e.lapped = ep[c].lapped
  BY Zenon, <1>1 DEF EpType, EpPc, Fetching, Reading
<1> HIDE DEF e
<1>3. /\ ep' \in [Readers -> EpType] /\ ep'[c] = e
      /\ \A d \in Readers \ {c} : ep'[d] = ep[d]
  BY Zenon, <1>2, LocalUpdate DEF OpenTail, e
<1>4. /\ tails' \in [Readers -> TailType]
      /\ tails'[c].tail = ep[c].tail /\ tails'[c].live = tails[c].live
      /\ \A d \in Readers \ {c} : tails'[d] = tails[d]
  BY Zenon, <1>1, EpFields, NewTypes DEF OpenTail, Types, TailType
<1>5. handed' = handed
  BY Zenon DEF OpenTail
<1>6. OpenTailView(c)
  BY Zenon, <1>2, <1>3, <1>4, <1>5 DEF OpenTail, OpenTailView, Regs, Data, Call, Expects, NoLap, Mine, Mins
<1>7. EpTypes'
  BY Zenon, <1>3, <1>4, <1>5 DEF OpenTail, Types, EpTypes
<1> QED BY Zenon, <1>3, <1>4, <1>5, <1>6, <1>7 DEF OpenTail, Others, Types

(* The endpoint registers.                                                 *)
LEMMA OpenStampStep ==
    ASSUME Types, NEW c \in Readers, EpBound(c), OpenStamp(c)
    PROVE  OpenStampView(c) /\ Others(c) /\ Static /\ EpTypes'
<1> SUFFICES OpenStampView(c) /\ Others(c) /\ EpTypes'
  BY Zenon DEF OpenStamp
<1> DEFINE e == [ep[c] EXCEPT !.pc = "idle"]
<1>1. ep[c] \in EpType /\ tails[c] \in TailType /\ handed[c] \in HandType
  BY Zenon DEF Types
<1>2. /\ e \in EpType /\ e.pc = "idle" /\ e.op = ep[c].op /\ e.epoch = ep[c].epoch
      /\ e.expected = ep[c].expected /\ e.tail = ep[c].tail /\ e.seq = ep[c].seq
      /\ e.hdr = ep[c].hdr /\ e.copy = ep[c].copy /\ e.count = ep[c].count
      /\ e.scan = ep[c].scan /\ e.back = ep[c].back /\ e.lapped = ep[c].lapped
  BY Zenon, <1>1 DEF EpType, EpPc, Fetching, Reading
<1> HIDE DEF e
<1>3. /\ ep' \in [Readers -> EpType] /\ ep'[c] = e
      /\ \A d \in Readers \ {c} : ep'[d] = ep[d]
  BY Zenon, <1>2, LocalUpdate DEF OpenStamp, e
<1>4. /\ tails' \in [Readers -> TailType]
      /\ tails'[c].tail = tails[c].tail /\ tails'[c].live = TRUE
      /\ \A d \in Readers \ {c} : tails'[d] = tails[d]
  BY Zenon, <1>1 DEF OpenStamp, Types, TailType
<1>5. handed' = handed
  BY Zenon DEF OpenStamp
<1>6. OpenStampView(c)
  BY Zenon, <1>2, <1>3, <1>4, <1>5 DEF OpenStamp, OpenStampView, Regs, Data, Call, Expects, NoLap, Mine, Mins
<1>7. EpTypes'
  BY Zenon, <1>3, <1>4, <1>5 DEF OpenStamp, Types, EpTypes
<1> QED BY Zenon, <1>3, <1>4, <1>5, <1>6, <1>7 DEF OpenStamp, Others, Types

(* The process of an endpoint dies.                                        *)
LEMMA DieStep ==
    ASSUME Types, NEW c \in Readers, EpBound(c), Die(c)
    PROVE  DieView(c) /\ Others(c) /\ Static /\ EpTypes'
<1> SUFFICES DieView(c) /\ Others(c) /\ EpTypes'
  BY Zenon DEF Die
<1> DEFINE e == [ep[c] EXCEPT !.pc = "dead"]
<1>1. ep[c] \in EpType /\ tails[c] \in TailType /\ handed[c] \in HandType
  BY Zenon DEF Types
<1>2. /\ e \in EpType /\ e.pc = "dead" /\ e.op = ep[c].op /\ e.epoch = ep[c].epoch
      /\ e.expected = ep[c].expected /\ e.tail = ep[c].tail /\ e.seq = ep[c].seq
      /\ e.hdr = ep[c].hdr /\ e.copy = ep[c].copy /\ e.count = ep[c].count
      /\ e.scan = ep[c].scan /\ e.back = ep[c].back /\ e.lapped = ep[c].lapped
  BY Zenon, <1>1 DEF EpType, EpPc, Fetching, Reading
<1> HIDE DEF e
<1>3. /\ ep' \in [Readers -> EpType] /\ ep'[c] = e
      /\ \A d \in Readers \ {c} : ep'[d] = ep[d]
  BY Zenon, <1>2, LocalUpdate DEF Die, e
<1>4. tails' = tails
  BY Zenon DEF Die
<1>5. handed' = handed
  BY Zenon DEF Die
<1>6. DieView(c)
  BY Zenon, <1>2, <1>3, <1>4, <1>5 DEF Die, DieView, Regs, Data, Call, Expects, NoLap, Mine, Mins
<1>7. EpTypes'
  BY Zenon, <1>3, <1>4, <1>5 DEF Die, Types, EpTypes
<1> QED BY Zenon, <1>3, <1>4, <1>5, <1>6, <1>7 DEF Die, Others, Types

(* A poll loads its own tail.                                              *)
LEMMA LoadTailStep ==
    ASSUME Types, NEW c \in Readers, EpBound(c), LoadTail(c)
    PROVE  LoadTailView(c) /\ Others(c) /\ Static /\ EpTypes'
<1> SUFFICES LoadTailView(c) /\ Others(c) /\ EpTypes'
  BY Zenon DEF LoadTail
<1> DEFINE e == [ep[c] EXCEPT !.pc = "seq", !.tail = tails[c].tail, !.count = 0]
<1>1. ep[c] \in EpType /\ tails[c] \in TailType /\ handed[c] \in HandType
  BY Zenon DEF Types
<1>2. /\ e \in EpType /\ e.pc = "seq" /\ e.op = ep[c].op /\ e.epoch = ep[c].epoch
      /\ e.expected = ep[c].expected /\ e.tail = tails[c].tail /\ e.seq = ep[c].seq
      /\ e.hdr = ep[c].hdr /\ e.copy = ep[c].copy /\ e.count = 0 /\ e.scan = ep[c].scan
      /\ e.back = ep[c].back /\ e.lapped = ep[c].lapped
  BY Zenon, <1>1, TailFields DEF EpType, EpPc, Fetching, Reading
<1> HIDE DEF e
<1>3. /\ ep' \in [Readers -> EpType] /\ ep'[c] = e
      /\ \A d \in Readers \ {c} : ep'[d] = ep[d]
  BY Zenon, <1>2, LocalUpdate DEF LoadTail, e
<1>4. tails' = tails
  BY Zenon DEF LoadTail
<1>5. handed' = handed
  BY Zenon DEF LoadTail
<1>6. LoadTailView(c)
  BY Zenon, <1>2, <1>3, <1>4, <1>5 DEF LoadTail, LoadTailView, Regs, Data, Call, Expects, NoLap, Mine, Mins
<1>7. EpTypes'
  BY Zenon, <1>3, <1>4, <1>5 DEF LoadTail, Types, EpTypes
<1> QED BY <1>3, <1>4, <1>5, <1>6, <1>7 DEF LoadTail, Others, Types

(* The header of the slot is read.                                         *)
LEMMA ReadHeaderStep ==
    ASSUME Types, NEW c \in Readers, EpBound(c), ReadHeader(c)
    PROVE  ReadHeaderView(c) /\ Others(c) /\ Static /\ EpTypes'
<1> SUFFICES ReadHeaderView(c) /\ Others(c) /\ EpTypes'
  BY Zenon DEF ReadHeader
<1> DEFINE e == [ep[c] EXCEPT !.pc = "copy", !.hdr = Slot(ep[c]).hdr, !.crc = Slot(ep[c]).crc]
<1>1. ep[c] \in EpType /\ tails[c] \in TailType /\ handed[c] \in HandType
  BY Zenon DEF Types
<1>s. Slot(ep[c]) \in SlotType
  BY Zenon, <1>1, EpFields, IndexType DEF Types, Slot
<1>t. Slot(ep[c]).hdr \in Seqs /\ Slot(ep[c]).crc \in Seqs /\ Slot(ep[c]).payload \in Seqs
  BY Zenon, <1>s DEF SlotType
<1>2. /\ e \in EpType /\ e.pc = "copy" /\ e.op = ep[c].op /\ e.epoch = ep[c].epoch
      /\ e.expected = ep[c].expected /\ e.tail = ep[c].tail /\ e.seq = ep[c].seq
      /\ e.hdr = Slot(ep[c]).hdr /\ e.copy = ep[c].copy /\ e.count = ep[c].count
      /\ e.scan = ep[c].scan /\ e.back = ep[c].back /\ e.lapped = ep[c].lapped
  BY Zenon, <1>1, <1>t DEF EpType, EpPc, Fetching, Reading
<1> HIDE DEF e
<1>3. /\ ep' \in [Readers -> EpType] /\ ep'[c] = e
      /\ \A d \in Readers \ {c} : ep'[d] = ep[d]
  BY Zenon, <1>2, LocalUpdate DEF ReadHeader, e
<1>4. tails' = tails
  BY Zenon DEF ReadHeader
<1>5. handed' = handed
  BY Zenon DEF ReadHeader
<1>6. ReadHeaderView(c)
  BY Zenon, <1>2, <1>3, <1>4, <1>5 DEF ReadHeader, ReadHeaderView, Regs, Data, Call, Expects, NoLap, Mine, Mins
<1>7. EpTypes'
  BY Zenon, <1>3, <1>4, <1>5 DEF ReadHeader, Types, EpTypes
<1> QED BY Zenon, <1>3, <1>4, <1>5, <1>6, <1>7 DEF ReadHeader, Others, Types

(* The payload is copied.                                                  *)
LEMMA CopyPayloadStep ==
    ASSUME Types, NEW c \in Readers, EpBound(c), CopyPayload(c)
    PROVE  CopyPayloadView(c) /\ Others(c) /\ Static /\ EpTypes'
<1> SUFFICES CopyPayloadView(c) /\ Others(c) /\ EpTypes'
  BY Zenon DEF CopyPayload
<1> DEFINE e == [ep[c] EXCEPT !.pc = (IF profile.broadcast THEN "recheck" ELSE "accept"), !.copy = Slot(ep[c]).payload]
<1>1. ep[c] \in EpType /\ tails[c] \in TailType /\ handed[c] \in HandType
  BY Zenon DEF Types
<1>s. Slot(ep[c]) \in SlotType
  BY Zenon, <1>1, EpFields, IndexType DEF Types, Slot
<1>t. Slot(ep[c]).hdr \in Seqs /\ Slot(ep[c]).crc \in Seqs /\ Slot(ep[c]).payload \in Seqs
  BY Zenon, <1>s DEF SlotType
<1>2. /\ e \in EpType /\ e.pc = (IF profile.broadcast THEN "recheck" ELSE "accept")
      /\ e.op = ep[c].op /\ e.epoch = ep[c].epoch /\ e.expected = ep[c].expected
      /\ e.tail = ep[c].tail /\ e.seq = ep[c].seq /\ e.hdr = ep[c].hdr
      /\ e.copy = Slot(ep[c]).payload /\ e.count = ep[c].count /\ e.scan = ep[c].scan
      /\ e.back = ep[c].back /\ e.lapped = ep[c].lapped
  BY ZenonT(20), <1>1, <1>t DEF EpType, EpPc, Fetching, Reading
<1> HIDE DEF e
<1>3. /\ ep' \in [Readers -> EpType] /\ ep'[c] = e
      /\ \A d \in Readers \ {c} : ep'[d] = ep[d]
  BY <1>2, LocalUpdate DEF CopyPayload, e
<1>4. tails' = tails
  BY Zenon DEF CopyPayload
<1>5. handed' = handed
  BY Zenon DEF CopyPayload
<1>6. CopyPayloadView(c)
  BY <1>2, <1>3, <1>4, <1>5 DEF CopyPayload, CopyPayloadView, Regs, Data, Call, Expects, NoLap, Mine, Mins
<1>7. EpTypes'
  BY Zenon, <1>3, <1>4, <1>5 DEF CopyPayload, Types, EpTypes
<1> QED BY Zenon, <1>3, <1>4, <1>5, <1>6, <1>7 DEF CopyPayload, Others, Types

(* One load of an endpoint's own scan.                                     *)
LEMMA RefreshScanStep ==
    ASSUME Types, NEW c \in Readers, EpBound(c), RefreshScan(c)
    PROVE  RefreshScanView(c) /\ Others(c) /\ Static /\ EpTypes'
<1> SUFFICES RefreshScanView(c) /\ Others(c) /\ EpTypes'
  BY Zenon DEF RefreshScan
<1> DEFINE e == [ep[c] EXCEPT !.scan = ScanNext(ep[c].scan, c)]
<1>1. ep[c] \in EpType /\ tails[c] \in TailType /\ handed[c] \in HandType
  BY Zenon DEF Types
<1>s. ScanNext(ep[c].scan, c) \in ScanType
  BY Zenon, <1>1, EpFields, ScanNextType DEF RefreshScan
<1>2. /\ e \in EpType /\ e.pc = ep[c].pc /\ e.op = ep[c].op /\ e.epoch = ep[c].epoch
      /\ e.expected = ep[c].expected /\ e.tail = ep[c].tail /\ e.seq = ep[c].seq
      /\ e.hdr = ep[c].hdr /\ e.copy = ep[c].copy /\ e.count = ep[c].count
      /\ e.scan = ScanNext(ep[c].scan, c) /\ e.back = ep[c].back /\ e.lapped = ep[c].lapped
  BY Zenon, <1>1, <1>s DEF EpType, EpPc, Fetching, Reading
<1> HIDE DEF e
<1>3. /\ ep' \in [Readers -> EpType] /\ ep'[c] = e
      /\ \A d \in Readers \ {c} : ep'[d] = ep[d]
  BY Zenon, <1>2, LocalUpdate DEF RefreshScan, e
<1>4. tails' = tails
  BY Zenon DEF RefreshScan
<1>5. handed' = handed
  BY Zenon DEF RefreshScan
<1>6. RefreshScanView(c)
  BY Zenon, <1>2, <1>3, <1>4, <1>5 DEF RefreshScan, RefreshScanView, Regs, Data, Call, Expects, NoLap, Mine, Mins
<1>7. EpTypes'
  BY Zenon, <1>3, <1>4, <1>5 DEF RefreshScan, Types, EpTypes, Skips
<1> QED BY Zenon, <1>3, <1>4, <1>5, <1>6, <1>7 DEF RefreshScan, Others, Types

(* om_bus_endpoint_rewind_retained.                                        *)
LEMMA RewindStep ==
    ASSUME Types, NEW c \in Readers, EpBound(c), Rewind(c)
    PROVE  RewindView(c) /\ Others(c) /\ Static /\ EpTypes'
<1> SUFFICES RewindView(c) /\ Others(c) /\ EpTypes'
  BY Zenon DEF Rewind
<1> DEFINE e == [ep[c] EXCEPT !.expected = 0]
<1>1. ep[c] \in EpType /\ tails[c] \in TailType /\ handed[c] \in HandType
  BY Zenon DEF Types
<1>s. (IF head > Capacity THEN head - Capacity ELSE 0) \in Seqs
  BY Constants DEF Types, Seqs
<1>2. /\ e \in EpType /\ e.pc = ep[c].pc /\ e.op = ep[c].op /\ e.epoch = ep[c].epoch
      /\ e.expected = 0 /\ e.tail = ep[c].tail /\ e.seq = ep[c].seq /\ e.hdr = ep[c].hdr
      /\ e.copy = ep[c].copy /\ e.count = ep[c].count /\ e.scan = ep[c].scan
      /\ e.back = ep[c].back /\ e.lapped = ep[c].lapped
  BY <1>1, Constants DEF EpType, EpPc, Fetching, Reading
<1> HIDE DEF e
<1>3. /\ ep' \in [Readers -> EpType] /\ ep'[c] = e
      /\ \A d \in Readers \ {c} : ep'[d] = ep[d]
  BY Zenon, <1>2, LocalUpdate DEF Rewind, e
<1>4. /\ tails' \in [Readers -> TailType]
      /\ \A d \in Readers \ {c} : tails'[d] = tails[d]
  BY Zenon, <1>1, <1>s DEF Rewind, Types, TailType
<1>5. /\ handed' \in [Readers -> HandType]
      /\ handed'[c] = NoHanded
      /\ \A d \in Readers \ {c} : handed'[d] = handed[d]
  BY Zenon, NewTypes DEF Rewind, Types
<1>6. RewindView(c)
  BY Zenon, <1>2, <1>3, <1>4, <1>5 DEF Rewind, RewindView, Regs, Data, Call, Expects, NoLap, Mine, Mins
<1>7. EpTypes'
  BY Zenon, <1>3, <1>4, <1>5 DEF Rewind, Types, EpTypes
<1> QED BY <1>3, <1>4, <1>5, <1>6, <1>7 DEF Rewind, Others, Types

(* om_bus_endpoint_peek_previous.                                          *)
LEMMA PeekStep ==
    ASSUME Types, NEW c \in Readers, EpBound(c), NEW distance \in 1 .. Capacity, Peek(c, distance)
    PROVE  PeekView(c) /\ Others(c) /\ Static /\ EpTypes'
<1> SUFFICES PeekView(c) /\ Others(c) /\ EpTypes'
  BY Zenon DEF Peek
<1>1. ep[c] \in EpType /\ tails[c] \in TailType /\ handed[c] \in HandType
  BY Zenon DEF Types
<1> DEFINE b == <<tails[c].tail, ep[c].expected>>
<1>b. b \in Seqs \X (0 .. MaxSeq + 1) /\ b[1] = tails[c].tail /\ b[2] = ep[c].expected /\ b # << >>
  BY Zenon, <1>1, EpFields, TailFields
<1>s. tails[c].tail - distance \in Seqs
  BY <1>1, TailFields, Constants DEF Peek, Seqs
<1>t. b \in BackType /\ 0 \in 0 .. MaxSeq + 1
  BY <1>b, Constants DEF BackType
<1> HIDE DEF b
<1> DEFINE e == [ep[c] EXCEPT !.pc = "peek", !.expected = 0, !.back = b]
<1>2. /\ e \in EpType /\ e.pc = "peek" /\ e.op = ep[c].op /\ e.epoch = ep[c].epoch
      /\ e.expected = 0 /\ e.tail = ep[c].tail /\ e.seq = ep[c].seq /\ e.hdr = ep[c].hdr
      /\ e.copy = ep[c].copy /\ e.count = ep[c].count /\ e.scan = ep[c].scan /\ e.back = b
      /\ e.lapped = ep[c].lapped
  BY Zenon, <1>1, <1>t DEF EpType, EpPc, Fetching, Reading
<1> HIDE DEF e
<1>3. /\ ep' \in [Readers -> EpType] /\ ep'[c] = e
      /\ \A d \in Readers \ {c} : ep'[d] = ep[d]
  BY Zenon, <1>2, LocalUpdate DEF Peek, e, b
<1>4. /\ tails' \in [Readers -> TailType]
      /\ \A d \in Readers \ {c} : tails'[d] = tails[d]
  BY Zenon, <1>1, <1>s DEF Peek, Types, TailType
<1>5. handed' = handed
  BY Zenon DEF Peek
<1>6. PeekView(c)
  BY Zenon, <1>b, <1>2, <1>3, <1>4, <1>5 DEF Peek, PeekView, Regs, Data, Call, Expects, NoLap, Mine, Mins
<1>7. EpTypes'
  BY Zenon, <1>3, <1>4, <1>5 DEF Peek, Types, EpTypes
<1> QED BY Zenon, <1>3, <1>4, <1>5, <1>6, <1>7 DEF Peek, Others, Types

(* The position before peek_previous is restored.                          *)
LEMMA RestoreStep ==
    ASSUME Types, NEW c \in Readers, EpBound(c), Restore(c)
    PROVE  RestoreView(c) /\ Others(c) /\ Static /\ EpTypes'
<1> SUFFICES RestoreView(c) /\ Others(c) /\ EpTypes'
  BY Zenon DEF Restore
<1> DEFINE e == [ep[c] EXCEPT !.pc = "idle", !.expected = ep[c].back[2], !.back = << >>]
<1>1. ep[c] \in EpType /\ tails[c] \in TailType /\ handed[c] \in HandType
  BY Zenon DEF Types
<1>s. ep[c].back[1] \in Seqs /\ ep[c].back[2] \in 0 .. MaxSeq + 1
  BY Zenon, <1>1, EpFields DEF Restore, EpBound, BackType
<1>2. /\ e \in EpType /\ e.pc = "idle" /\ e.op = ep[c].op /\ e.epoch = ep[c].epoch
      /\ e.expected = ep[c].back[2] /\ e.tail = ep[c].tail /\ e.seq = ep[c].seq
      /\ e.hdr = ep[c].hdr /\ e.copy = ep[c].copy /\ e.count = ep[c].count
      /\ e.scan = ep[c].scan /\ e.back = << >> /\ e.lapped = ep[c].lapped
  BY Zenon, <1>1, <1>s, NewTypes DEF EpType, EpPc, Fetching, Reading
<1> HIDE DEF e
<1>3. /\ ep' \in [Readers -> EpType] /\ ep'[c] = e
      /\ \A d \in Readers \ {c} : ep'[d] = ep[d]
  BY Zenon, <1>2, LocalUpdate DEF Restore, e
<1>4. /\ tails' \in [Readers -> TailType]
      /\ tails'[c].tail = ep[c].back[1]
      /\ \A d \in Readers \ {c} : tails'[d] = tails[d]
  BY Zenon, <1>1, <1>s DEF Restore, Types, TailType
<1>5. handed' = handed
  BY Zenon DEF Restore
<1>6. RestoreView(c)
  BY Zenon, <1>2, <1>3, <1>4, <1>5 DEF Restore, RestoreView, Regs, Data, Call, Expects, NoLap, Mine, Mins
<1>7. EpTypes'
  BY Zenon, <1>3, <1>4, <1>5 DEF Restore, Types, EpTypes
<1> QED BY Zenon, <1>3, <1>4, <1>5, <1>6, <1>7 DEF Restore, Others, Types

(* The call in progress returns.                                           *)
LEMMA HomeStep ==
    ASSUME Types, NEW c \in Readers, NEW e \in EpType, NEW b \in BOOLEAN, Local(c, Returned(e, b)),
           e.epoch = ep[c].epoch, e.back = ep[c].back
    PROVE  /\ Home(c) /\ Expects(c, e.expected) /\ ep'[c].lapped = b
           /\ ep' \in [Readers -> EpType] /\ \A d \in Readers \ {c} : ep'[d] = ep[d]
<1> DEFINE f == Returned(e, b)
<1>1. /\ f \in EpType /\ f.pc = IF e.back = << >> THEN "idle" ELSE "restore"
      /\ f.op = "poll" /\ f.epoch = e.epoch /\ f.expected = e.expected /\ f.tail = 0
      /\ f.count = 0 /\ f.back = e.back /\ f.lapped = b
  BY Zenon, ReturnedFields
<1> HIDE DEF f
<1>2. /\ ep' \in [Readers -> EpType] /\ ep'[c] = f
      /\ \A d \in Readers \ {c} : ep'[d] = ep[d]
  BY Zenon, <1>1, LocalUpdate DEF f
<1> QED BY Zenon, <1>1, <1>2 DEF Home, Call, Expects

(* A poll without a result returns, or ends the batch.                     *)
LEMMA StoppedStep ==
    ASSUME Types, NEW c \in Readers, NEW b \in BOOLEAN, Local(c, Stopped(ep[c], b)),
           UNCHANGED <<min_tail, tails, handed, overtaken, quiet>>
    PROVE  StopView(c) /\ Others(c) /\ EpTypes' /\ (ep'[c].lapped => ep[c].lapped \/ b)
<1>1. ep[c] \in EpType /\ ep[c].count \in Nat
  BY Zenon, EpFields DEF Types
<1>2. CASE ep[c].count > 0
  <2> DEFINE e == [ep[c] EXCEPT !.pc = "end"]
  <2>1. /\ e \in EpType /\ e.pc = "end" /\ e.op = ep[c].op /\ e.epoch = ep[c].epoch
        /\ e.expected = ep[c].expected /\ e.tail = ep[c].tail /\ e.count = ep[c].count
        /\ e.back = ep[c].back /\ e.lapped = ep[c].lapped
    BY Zenon, <1>1 DEF EpType, EpPc
  <2> HIDE DEF e
  <2>2. /\ ep' \in [Readers -> EpType] /\ ep'[c] = e
        /\ \A d \in Readers \ {c} : ep'[d] = ep[d]
    BY Zenon, <1>2, <2>1, LocalUpdate DEF e, Stopped
  <2> QED BY Zenon, <1>2, <2>1, <2>2 DEF StopView, Others, EpTypes, Types, Regs, Call, NoLap, Expects, Mins
<1>3. CASE ~(ep[c].count > 0)
  <2>1. Local(c, Returned(ep[c], b))
    BY Zenon, <1>3 DEF Stopped
  <2>2. /\ Home(c) /\ Expects(c, ep[c].expected) /\ ep'[c].lapped = b
        /\ ep' \in [Readers -> EpType] /\ \A d \in Readers \ {c} : ep'[d] = ep[d]
    BY Zenon, <1>1, <2>1, HomeStep
  <2> QED BY <1>1, <1>3, <2>2 DEF StopView, Others, EpTypes, Types, Mins
<1> QED BY Zenon, <1>2, <1>3

(* om_bus_endpoint_close takes the endpoint's registration back.           *)
LEMMA CloseStep ==
    ASSUME Types, NEW c \in Readers, Close(c)
    PROVE  CloseView(c) /\ Others(c) /\ Static /\ EpTypes'
<1> SUFFICES CloseView(c) /\ Others(c) /\ EpTypes'
  BY Zenon DEF Close
<1>1. tails[c] \in TailType
  BY Zenon DEF Types
<1>2. /\ NewEp.pc = "closed" /\ NewEp.back = << >> /\ NewEp.op = "poll" /\ NewEp.tail = 0
      /\ NewEp.count = 0 /\ NewEp.lapped = FALSE
  BY Zenon DEF NewEp
<1>3. /\ ep' \in [Readers -> EpType] /\ ep'[c] = NewEp
      /\ \A d \in Readers \ {c} : ep'[d] = ep[d]
  BY Zenon, NewTypes, LocalUpdate DEF Close
<1>4. /\ tails' \in [Readers -> TailType] /\ tails'[c].tail = tails[c].tail
      /\ tails'[c].live = FALSE
      /\ \A d \in Readers \ {c} : tails'[d] = tails[d]
  BY Zenon, <1>1 DEF Close, Types, TailType
<1>5. CloseView(c)
  BY Zenon, <1>2, <1>3, <1>4 DEF Close, CloseView, NoLap, Mins
<1> QED BY Zenon, <1>3, <1>4, <1>5 DEF Close, EpTypes, Others, Types

(* A call of om_bus_endpoint_poll or om_bus_endpoint_poll_batch compares   *)
(* the epochs and begins, or returns.                                      *)
LEMMA PollStep ==
    ASSUME Types, NEW c \in Readers, NEW op \in {"poll", "poll_batch"}, Poll(c, op),
           ep[c].pc = "peek" => op = "poll"
    PROVE  (LeaveView(c) \/ PollView(c)) /\ Others(c) /\ Static /\ EpTypes'
<1> SUFFICES (LeaveView(c) \/ PollView(c)) /\ Others(c) /\ EpTypes'
  BY Zenon DEF Poll
<1>1. ep[c] \in EpType
  BY Zenon DEF Types
<1>2. quiet' \subseteq Readers
  BY Zenon DEF Poll, Types
<1>3. CASE epoch # ep[c].epoch
  <2>1. Local(c, Returned(ep[c], FALSE))
    BY Zenon, <1>3 DEF Poll
  <2>2. /\ Home(c) /\ Expects(c, ep[c].expected) /\ ep'[c].lapped = FALSE
        /\ ep' \in [Readers -> EpType] /\ \A d \in Readers \ {c} : ep'[d] = ep[d]
    BY Zenon, <1>1, <2>1, HomeStep
  <2> QED BY Zenon, <1>2, <2>2 DEF Poll, LeaveView, Mine, NoLap, Mins, Others, EpTypes, Types
<1>4. CASE epoch = ep[c].epoch
  <2> DEFINE e == [ep[c] EXCEPT !.pc = "tail", !.op = op, !.lapped = FALSE]
  <2>1. /\ e \in EpType /\ e.pc = "tail" /\ e.op = op /\ e.epoch = ep[c].epoch
        /\ e.expected = ep[c].expected /\ e.tail = ep[c].tail /\ e.count = ep[c].count
        /\ e.back = ep[c].back /\ e.lapped = FALSE
    BY Zenon, <1>1 DEF EpType, EpPc
  <2> HIDE DEF e
  <2>2. /\ ep' \in [Readers -> EpType] /\ ep'[c] = e
        /\ \A d \in Readers \ {c} : ep'[d] = ep[d]
    BY Zenon, <1>4, <2>1, LocalUpdate DEF e, Poll
  <2>3. PollView(c)
    BY Zenon, <1>4, <2>1, <2>2 DEF Poll, PollView, Call, Expects, Mine, NoLap, Mins
  <2> QED BY Zenon, <1>2, <2>2, <2>3 DEF Poll, Others, EpTypes, Types
<1> QED BY Zenon, <1>3, <1>4

(* The load of the slot's sequence number finds the record, no record yet, *)
(* or a later one.                                                         *)
LEMMA CheckSeqStep ==
    ASSUME Types, NEW c \in Readers, CheckSeq(c)
    PROVE  CheckSeqView(c) /\ Others(c) /\ Static /\ EpTypes'
<1> SUFFICES CheckSeqView(c) /\ Others(c) /\ EpTypes'
  BY Zenon DEF CheckSeq
<1>1. ep[c] \in EpType /\ Position(ep[c]) \in Nat
  BY Zenon, EpFields DEF Types
<1>2. Slot(ep[c]).seq \in Nat
  BY <1>1, IndexType, Constants DEF Types, Slot, SlotType
<1>3. CASE Slot(ep[c]).seq = Position(ep[c]) + 1
  <2> DEFINE e == [ep[c] EXCEPT !.pc = "header", !.seq = Slot(ep[c]).seq]
  <2>1. /\ e \in EpType /\ e.pc = "header" /\ e.seq = Slot(ep[c]).seq /\ e.op = ep[c].op
        /\ e.epoch = ep[c].epoch /\ e.expected = ep[c].expected /\ e.tail = ep[c].tail
        /\ e.count = ep[c].count /\ e.back = ep[c].back /\ e.lapped = ep[c].lapped
    BY Zenon, <1>1, <1>2 DEF EpType, EpPc, Fetching, Reading
  <2> HIDE DEF e
  <2>2. /\ ep' \in [Readers -> EpType] /\ ep'[c] = e
        /\ \A d \in Readers \ {c} : ep'[d] = ep[d]
    BY Zenon, <1>3, <2>1, LocalUpdate DEF e, CheckSeq
  <2>3. CheckSeqView(c)
    BY Zenon, <1>3, <2>1, <2>2 DEF CheckSeq, CheckSeqView, Regs, Call, Expects, Mine, NoLap, Mins
  <2> QED BY Zenon, <2>2, <2>3 DEF CheckSeq, Others, EpTypes, Types
<1>4. CASE Slot(ep[c]).seq # Position(ep[c]) + 1
  <2> DEFINE b == profile.broadcast /\ Slot(ep[c]).seq > Position(ep[c]) + 1
  <2>1. b \in BOOLEAN
    BY Zenon
  <2>2. Local(c, Stopped(ep[c], b))
    BY Zenon, <1>4 DEF CheckSeq
  <2> HIDE DEF b
  <2>3. StopView(c) /\ Others(c) /\ EpTypes' /\ (ep'[c].lapped => ep[c].lapped \/ b)
    BY Zenon, <2>1, <2>2, StoppedStep DEF CheckSeq
  <2> QED BY Zenon, <2>3 DEF CheckSeq, CheckSeqView, b
<1> QED BY Zenon, <1>3, <1>4

(* The second load of the slot's sequence number, in broadcast mode, lets  *)
(* the copy through or drops it.                                           *)
LEMMA RecheckStep ==
    ASSUME Types, NEW c \in Readers, Recheck(c)
    PROVE  RecheckView(c) /\ Others(c) /\ Static /\ EpTypes'
<1> SUFFICES RecheckView(c) /\ Others(c) /\ EpTypes'
  BY Zenon DEF Recheck
<1>1. ep[c] \in EpType
  BY Zenon DEF Types
<1>2. CASE Slot(ep[c]).seq = ep[c].seq
  <2> DEFINE e == [ep[c] EXCEPT !.pc = "accept"]
  <2>1. /\ e \in EpType /\ e.pc = "accept" /\ e.seq = ep[c].seq /\ e.hdr = ep[c].hdr
        /\ e.copy = ep[c].copy /\ e.op = ep[c].op /\ e.epoch = ep[c].epoch
        /\ e.expected = ep[c].expected /\ e.tail = ep[c].tail /\ e.count = ep[c].count
        /\ e.back = ep[c].back /\ e.lapped = ep[c].lapped
    BY Zenon, <1>1 DEF EpType, EpPc, Fetching, Reading
  <2> HIDE DEF e
  <2>2. /\ ep' \in [Readers -> EpType] /\ ep'[c] = e
        /\ \A d \in Readers \ {c} : ep'[d] = ep[d]
    BY Zenon, <1>2, <2>1, LocalUpdate DEF e, Recheck
  <2>3. RecheckView(c)
    BY Zenon, <1>2, <2>1, <2>2 DEF Recheck, RecheckView, Regs, Data, Call, Expects, Mine, NoLap, Mins
  <2> QED BY Zenon, <2>2, <2>3 DEF Recheck, Others, EpTypes, Types
<1>3. CASE Slot(ep[c]).seq # ep[c].seq
  <2>1. Local(c, Stopped(ep[c], TRUE))
    BY Zenon, <1>3 DEF Recheck
  <2>2. StopView(c) /\ Others(c) /\ EpTypes'
    BY Zenon, <2>1, StoppedStep DEF Recheck
  <2> QED BY Zenon, <1>3, <2>2 DEF Recheck, RecheckView
<1> QED BY Zenon, <1>2, <1>3

(* A record is handed out, but for the one peek_previous reads.            *)
LEMMA HandStep ==
    ASSUME Types, NEW c \in Readers, EpBound(c), ep[c].pc = "accept",
           NEW result \in {"ok", "gap", "reorder", "batch"}, Hand(c, result)
    PROVE  /\ HandView(c, result) /\ handed' \in [Readers -> HandType]
           /\ \A d \in Readers \ {c} : handed'[d] = handed[d]
<1>1. ep[c] \in EpType /\ handed[c] \in HandType
  BY Zenon DEF Types
<1>2. ep[c].hdr \in Seqs /\ ep[c].copy \in Seqs /\ Position(ep[c]) \in -1 .. MaxSeq
  BY <1>1, EpFields, Constants DEF EpBound, Reading
<1> DEFINE h == [seq |-> ep[c].hdr, payload |-> ep[c].copy, ref |-> Borrowed(ep[c]),
                 pos |-> Position(ep[c]), prev |-> handed[c].seq, result |-> result]
<1>3. /\ h \in HandType /\ h.seq = ep[c].hdr /\ h.payload = ep[c].copy
      /\ h.pos = Position(ep[c]) /\ h.prev = handed[c].seq /\ h.result = result
  <2>1. Borrowed(ep[c]) \in BOOLEAN
    BY Zenon DEF Borrowed
  <2> QED BY Zenon, <1>1, <1>2, <2>1 DEF HandType
<1>4. handed' = [handed EXCEPT ![c] = IF ep[c].back # << >> THEN handed[c] ELSE h]
  BY Zenon DEF Hand
<1> HIDE DEF h
<1> QED BY Zenon, <1>1, <1>3, <1>4 DEF HandView, Types

(* The results of the comparison of WAL sequence numbers.                  *)
LEMMA GapResults == ASSUME NEW e PROVE GapResult(e) \in {"ok", "gap", "reorder", "batch"}
  BY Zenon DEF GapResult

(* The tail moves on and the stamp is new.                                 *)
LEMMA AdvanceStep ==
    ASSUME Types, NEW c \in Readers, NEW n \in Nat, NEW seq \in Seqs, ep[c].tail + n <= MaxSeq,
           Advance(c, n, seq)
    PROVE  /\ tails' \in [Readers -> TailType]
           /\ tails'[c].tail = ep[c].tail + n /\ tails'[c].live = TRUE
           /\ \A d \in Readers \ {c} : tails'[d] = tails[d]
<1>1. ep[c].tail + n \in Seqs
  BY EpFields DEF Types, Seqs
<1> DEFINE t == [tail |-> ep[c].tail + n, wal_seq |-> seq, live |-> TRUE, stale |-> FALSE]
<1>2. t \in TailType /\ t.tail = ep[c].tail + n /\ t.live = TRUE
  BY Zenon, <1>1 DEF TailType
<1>3. tails' = [tails EXCEPT ![c] = t]
  BY Zenon DEF Advance
<1> HIDE DEF t
<1> QED BY Zenon, <1>2, <1>3 DEF Types

(* A record with a bad checksum is refused; a good one is handed out.      *)
LEMMA AcceptStep ==
    ASSUME Types, NEW c \in Readers, EpBound(c), Accept(c), ep[c].op = "poll" => ep[c].count = 0
    PROVE  (RefuseView(c) \/ AcceptView(c) \/ AcceptBatchView(c)) /\ Others(c) /\ Static /\ EpTypes'
<1> SUFFICES (RefuseView(c) \/ AcceptView(c) \/ AcceptBatchView(c)) /\ Others(c) /\ EpTypes'
  BY Zenon DEF Accept
<1>1. ep[c] \in EpType /\ handed[c] \in HandType
  BY Zenon DEF Types
<1>2. /\ ep[c].hdr \in Seqs /\ ep[c].count \in Nat /\ ep[c].tail \in Seqs /\ ep[c].pc = "accept"
      /\ Position(ep[c]) < MaxSeq
  BY Zenon, <1>1, EpFields DEF Accept, EpBound, Reading
<1>3. CASE Refused(ep[c])
  <2>1. Local(c, Stopped(ep[c], FALSE)) /\ UNCHANGED <<tails, handed>>
    BY Zenon, <1>3 DEF Accept
  <2>2. StopView(c) /\ Others(c) /\ EpTypes' /\ (ep'[c].lapped => ep[c].lapped \/ FALSE)
    BY Zenon, <2>1, StoppedStep DEF Accept
  <2> QED BY Zenon, <1>2, <2>2 DEF RefuseView, NoLap
<1>4. CASE ~Refused(ep[c]) /\ ep[c].op = "poll"
  <2>1. /\ Hand(c, GapResult(ep[c])) /\ Advance(c, 1, ep[c].hdr)
        /\ Local(c, Advanced([ep[c] EXCEPT !.expected = ep[c].hdr + 1, !.count = 1]))
    BY Zenon, <1>4 DEF Accept
  <2> DEFINE e == [ep[c] EXCEPT !.expected = ep[c].hdr + 1, !.count = 1]
  <2>2. ep[c].hdr + 1 \in 0 .. MaxSeq + 1
    BY <1>2, Constants DEF Seqs
  <2>3. /\ e \in EpType /\ e.expected = ep[c].hdr + 1 /\ e.count = 1 /\ e.op = ep[c].op
        /\ e.epoch = ep[c].epoch /\ e.tail = ep[c].tail /\ e.back = ep[c].back
        /\ e.lapped = ep[c].lapped
    BY Zenon, <1>1, <2>2 DEF EpType
  <2>4. Local(c, Advanced(e))
    BY Zenon, <2>1
  <2> HIDE DEF e
  <2>5. /\ HandView(c, GapResult(ep[c])) /\ handed' \in [Readers -> HandType]
        /\ \A d \in Readers \ {c} : handed'[d] = handed[d]
    BY Zenon, <1>2, <2>1, GapResults, HandStep
  <2>6. ep[c].tail + 1 <= MaxSeq
    BY <1>2, Constants DEF Position, Seqs
  <2>7. /\ tails' \in [Readers -> TailType]
        /\ tails'[c].tail = ep[c].tail + 1 /\ tails'[c].live = TRUE
        /\ \A d \in Readers \ {c} : tails'[d] = tails[d]
    BY Zenon, <1>2, <2>1, <2>6, AdvanceStep
  <2>8. CASE profile.broadcast
    <3>1. Local(c, Returned(e, FALSE))
      BY Zenon, <2>4, <2>8 DEF Advanced
    <3>2. /\ Home(c) /\ Expects(c, e.expected) /\ ep'[c].lapped = FALSE
          /\ ep' \in [Readers -> EpType] /\ \A d \in Readers \ {c} : ep'[d] = ep[d]
      BY Zenon, <2>3, <3>1, HomeStep
    <3>3. AcceptView(c)
      BY Zenon, <1>2, <1>4, <2>3, <2>5, <2>7, <2>8, <3>2 DEF AcceptView, Accept, Expects, NoLap, Mins, Home
    <3> QED BY Zenon, <2>5, <2>7, <3>2, <3>3 DEF Accept, Others, EpTypes, Types
  <2>9. CASE ~profile.broadcast
    <3> DEFINE f == [e EXCEPT !.pc = "min"]
    <3>1. /\ f \in EpType /\ f.pc = "min" /\ f.expected = ep[c].hdr + 1 /\ f.count = 1
          /\ f.op = ep[c].op /\ f.epoch = ep[c].epoch /\ f.tail = ep[c].tail /\ f.back = ep[c].back
          /\ f.lapped = ep[c].lapped
      BY Zenon, <2>3 DEF EpType, EpPc
    <3> HIDE DEF f
    <3>2. /\ ep' \in [Readers -> EpType] /\ ep'[c] = f
          /\ \A d \in Readers \ {c} : ep'[d] = ep[d]
      BY Zenon, <2>4, <2>9, <3>1, LocalUpdate DEF f, Advanced
    <3>3. AcceptView(c)
      BY Zenon, <1>2, <1>4, <2>5, <2>7, <2>9, <3>1, <3>2
         DEF AcceptView, Accept, Call, Expects, NoLap, Mins
    <3> QED BY Zenon, <2>5, <2>7, <3>2, <3>3 DEF Accept, Others, EpTypes, Types
  <2> QED BY Zenon, <2>8, <2>9
<1>5. CASE ~Refused(ep[c]) /\ ep[c].op = "poll_batch"
  <2> DEFINE limit == IF profile.broadcast THEN 1 ELSE profile.batch
             p == IF ep[c].count + 1 = limit THEN "end" ELSE "seq"
             e == [ep[c] EXCEPT !.count = ep[c].count + 1, !.pc = p]
  <2>0. ep[c].count + 1 \in Nat
    BY <1>2
  <2>1. p \in EpPc
    BY Zenon DEF EpPc, Fetching
  <2>2. Hand(c, "batch") /\ Local(c, e) /\ UNCHANGED tails
    BY Zenon, <1>5 DEF Accept
  <2> HIDE DEF p
  <2>3. /\ e \in EpType /\ e.pc = p /\ e.count = ep[c].count + 1 /\ e.op = ep[c].op
        /\ e.expected = ep[c].expected /\ e.epoch = ep[c].epoch /\ e.tail = ep[c].tail
        /\ e.back = ep[c].back /\ e.lapped = ep[c].lapped
    BY Zenon, <1>1, <2>0, <2>1 DEF EpType
  <2> HIDE DEF e
  <2>4. /\ HandView(c, "batch") /\ handed' \in [Readers -> HandType]
        /\ \A d \in Readers \ {c} : handed'[d] = handed[d]
    BY Zenon, <1>2, <2>2, HandStep
  <2>5. /\ ep' \in [Readers -> EpType] /\ ep'[c] = e
        /\ \A d \in Readers \ {c} : ep'[d] = ep[d]
    BY Zenon, <2>2, <2>3, LocalUpdate
  <2>6. AcceptBatchView(c)
    BY Zenon, <1>2, <1>5, <2>2, <2>3, <2>4, <2>5 DEF AcceptBatchView, Accept, Call, Expects, NoLap, Mins, p
  <2> QED BY Zenon, <2>2, <2>4, <2>5, <2>6 DEF Accept, Others, EpTypes, Types
<1>6. ep[c].op \in {"poll", "poll_batch"}
  BY Zenon, <1>1, EpFields
<1> QED BY Zenon, <1>3, <1>4, <1>5, <1>6

(* The end of a batch stores the tail once for all its records.            *)
LEMMA BatchEndStep ==
    ASSUME Types, NEW c \in Readers, EpBound(c), BatchEnd(c)
    PROVE  BatchEndView(c) /\ Others(c) /\ Static /\ EpTypes'
<1> SUFFICES BatchEndView(c) /\ Others(c) /\ EpTypes'
  BY Zenon DEF BatchEnd
<1>1. ep[c] \in EpType /\ handed[c].seq \in Seqs
  BY Zenon DEF Types, HandType
<1>0. ep[c].count \in Nat /\ ep[c].tail \in Seqs /\ ep[c].tail + ep[c].count <= MaxSeq
  BY Zenon, <1>1, EpFields DEF EpBound, Position
<1>2. handed[c].seq + 1 \in 0 .. MaxSeq + 1
  BY <1>1, Constants DEF Seqs
<1>3. /\ tails' \in [Readers -> TailType]
      /\ tails'[c].tail = ep[c].tail + ep[c].count /\ tails'[c].live = TRUE
      /\ \A d \in Readers \ {c} : tails'[d] = tails[d]
  BY Zenon, <1>0, <1>1, AdvanceStep DEF BatchEnd
<1> DEFINE e == [ep[c] EXCEPT !.expected = handed[c].seq + 1]
<1>4. Local(c, Advanced(e))
  BY Zenon DEF BatchEnd
<1>5. /\ e \in EpType /\ e.expected = handed[c].seq + 1 /\ e.count = ep[c].count
      /\ e.op = ep[c].op /\ e.epoch = ep[c].epoch /\ e.tail = ep[c].tail /\ e.back = ep[c].back
      /\ e.lapped = ep[c].lapped
  BY Zenon, <1>1, <1>2 DEF EpType
<1> HIDE DEF e
<1>6. CASE profile.broadcast
  <2>1. Local(c, Returned(e, FALSE))
    BY Zenon, <1>4, <1>6 DEF Advanced
  <2>2. /\ Home(c) /\ Expects(c, e.expected) /\ ep'[c].lapped = FALSE
        /\ ep' \in [Readers -> EpType] /\ \A d \in Readers \ {c} : ep'[d] = ep[d]
    BY Zenon, <1>5, <2>1, HomeStep
  <2>3. BatchEndView(c)
    BY Zenon, <1>3, <1>5, <1>6, <2>2 DEF BatchEndView, BatchEnd, Expects, NoLap, Mins, Home
  <2> QED BY Zenon, <1>3, <2>2, <2>3 DEF BatchEnd, Others, EpTypes, Types
<1>7. CASE ~profile.broadcast
  <2> DEFINE f == [e EXCEPT !.pc = "min"]
  <2>1. /\ f \in EpType /\ f.pc = "min" /\ f.expected = handed[c].seq + 1 /\ f.count = ep[c].count
        /\ f.op = ep[c].op /\ f.epoch = ep[c].epoch /\ f.tail = ep[c].tail /\ f.back = ep[c].back
        /\ f.lapped = ep[c].lapped
    BY Zenon, <1>5 DEF EpType, EpPc
  <2> HIDE DEF f
  <2>2. /\ ep' \in [Readers -> EpType] /\ ep'[c] = f
        /\ \A d \in Readers \ {c} : ep'[d] = ep[d]
    BY Zenon, <1>4, <1>7, <2>1, LocalUpdate DEF f, Advanced
  <2>3. BatchEndView(c)
    BY Zenon, <1>3, <1>7, <2>1, <2>2 DEF BatchEndView, BatchEnd, Regs, Call, Expects, NoLap, Mins
  <2> QED BY Zenon, <1>3, <2>2, <2>3 DEF BatchEnd, Others, EpTypes, Types
<1> QED BY Zenon, <1>6, <1>7

(* An endpoint refreshes min_tail only when its own tail was the minimum.  *)
LEMMA CheckMinStep ==
    ASSUME Types, NEW c \in Readers, CheckMin(c)
    PROVE  CheckMinView(c) /\ Others(c) /\ Static /\ EpTypes'
<1> SUFFICES CheckMinView(c) /\ Others(c) /\ EpTypes'
  BY Zenon DEF CheckMin
<1>1. ep[c] \in EpType
  BY Zenon DEF Types
<1>2. CASE ep[c].tail = min_tail \/ Position(ep[c]) < min_tail
  <2> DEFINE e == [ep[c] EXCEPT !.pc = "refresh", !.scan = NoScan]
  <2>1. /\ e \in EpType /\ e.pc = "refresh" /\ e.scan = NoScan /\ e.op = ep[c].op
        /\ e.epoch = ep[c].epoch /\ e.expected = ep[c].expected /\ e.tail = ep[c].tail
        /\ e.count = ep[c].count /\ e.back = ep[c].back /\ e.lapped = ep[c].lapped
    BY Zenon, <1>1, NewTypes DEF EpType, EpPc
  <2> HIDE DEF e
  <2>2. /\ ep' \in [Readers -> EpType] /\ ep'[c] = e
        /\ \A d \in Readers \ {c} : ep'[d] = ep[d]
    BY Zenon, <1>2, <2>1, LocalUpdate DEF e, CheckMin
  <2>3. CheckMinView(c)
    BY Zenon, <2>1, <2>2 DEF CheckMin, CheckMinView, Regs, Call, Expects, Mine, NoLap, Mins
  <2> QED BY Zenon, <2>2, <2>3 DEF CheckMin, Others, EpTypes, Types
<1>3. CASE ~(ep[c].tail = min_tail \/ Position(ep[c]) < min_tail)
  <2>1. Local(c, Returned(ep[c], FALSE))
    BY Zenon, <1>3 DEF CheckMin
  <2>2. /\ Home(c) /\ Expects(c, ep[c].expected) /\ ep'[c].lapped = FALSE
        /\ ep' \in [Readers -> EpType] /\ \A d \in Readers \ {c} : ep'[d] = ep[d]
    BY Zenon, <1>1, <2>1, HomeStep
  <2> QED BY Zenon, <2>2 DEF CheckMin, CheckMinView, Mine, NoLap, Mins, Others, EpTypes, Types
<1> QED BY Zenon, <1>2, <1>3

(* The end of an endpoint's scan stores min_tail.                          *)
LEMMA RefreshStoreStep ==
    ASSUME Types, NEW c \in Readers, EpBound(c), RefreshStore(c)
    PROVE  RefreshStoreView(c) /\ Others(c) /\ Static /\ EpTypes'
<1> SUFFICES RefreshStoreView(c) /\ Others(c) /\ EpTypes'
  BY Zenon DEF RefreshStore
<1>1. ep[c] \in EpType /\ ep[c].scan \in ScanType /\ Position(ep[c]) \in Nat
  BY Zenon, EpFields DEF Types
<1>2. /\ Home(c) /\ Expects(c, ep[c].expected) /\ ep'[c].lapped = FALSE
      /\ ep' \in [Readers -> EpType] /\ \A d \in Readers \ {c} : ep'[d] = ep[d]
  BY Zenon, <1>1, HomeStep DEF RefreshStore
<1>3. ScanResult(ep[c].scan, Position(ep[c])) \in Seqs
  BY <1>1, Constants DEF ScanResult, ScanType, Seqs, EpBound
<1>4. RefreshStoreView(c)
  BY Zenon, <1>2 DEF RefreshStore, RefreshStoreView, Mine, NoLap
<1> QED BY Zenon, <1>2, <1>3, <1>4 DEF RefreshStore, Others, EpTypes, Types

(* om_bus_endpoint_seek_head moves the tail to the head.                   *)
LEMMA SeekHeadStep ==
    ASSUME Types, NEW c \in Readers, SeekHead(c)
    PROVE  SeekHeadView(c) /\ Others(c) /\ Static /\ EpTypes'
<1> SUFFICES SeekHeadView(c) /\ Others(c) /\ EpTypes'
  BY Zenon DEF SeekHead
<1>1. tails[c] \in TailType
  BY Zenon DEF Types
<1>2. /\ tails' \in [Readers -> TailType] /\ tails'[c].tail = head /\ tails'[c].live = TRUE
      /\ \A d \in Readers \ {c} : tails'[d] = tails[d]
  BY Zenon, <1>1 DEF SeekHead, Types, TailType
<1> QED BY Zenon, <1>2 DEF SeekHead, SeekHeadView, Mins, Others, EpTypes, Types

(* Every step of an endpoint is one of the views, and concerns it alone.   *)
LEMMA EndpointView ==
    ASSUME Types, NEW c \in Readers, EpBound(c), ByEndpoint(c),
           ep[c].pc = "accept" /\ ep[c].op = "poll" => ep[c].count = 0
    PROVE  EpView(c) /\ Others(c) /\ Static /\ EpTypes'
<1>1. CASE EndpointStep(c)
  <2>1. CASE OpenTail(c)
    BY Zenon, <2>1, OpenTailStep DEF EpView
  <2>2. CASE OpenStamp(c)
    BY Zenon, <2>2, OpenStampStep DEF EpView
  <2>3. CASE LoadTail(c)
    BY Zenon, <2>3, LoadTailStep DEF EpView
  <2>4. CASE CheckSeq(c)
    BY Zenon, <2>4, CheckSeqStep DEF EpView
  <2>5. CASE ReadHeader(c)
    BY Zenon, <2>5, ReadHeaderStep DEF EpView
  <2>6. CASE CopyPayload(c)
    BY Zenon, <2>6, CopyPayloadStep DEF EpView
  <2>7. CASE Recheck(c)
    BY Zenon, <2>7, RecheckStep DEF EpView
  <2>8. CASE Accept(c)
    <3>1. ep[c].op = "poll" => ep[c].count = 0
      BY Zenon, <2>8 DEF Accept
    <3> QED BY Zenon, <2>8, <3>1, AcceptStep DEF EpView
  <2>9. CASE BatchEnd(c)
    BY Zenon, <2>9, BatchEndStep DEF EpView
  <2>10. CASE CheckMin(c)
    BY Zenon, <2>10, CheckMinStep DEF EpView
  <2>11. CASE RefreshScan(c)
    BY Zenon, <2>11, RefreshScanStep DEF EpView
  <2>12. CASE RefreshStore(c)
    BY Zenon, <2>12, RefreshStoreStep DEF EpView
  <2>13. CASE Restore(c)
    BY Zenon, <2>13, RestoreStep DEF EpView
  <2> QED BY <1>1, <2>1, <2>2, <2>3, <2>4, <2>5, <2>6, <2>7, <2>8, <2>9, <2>10, <2>11, <2>12, <2>13
          DEF EndpointStep
<1>2. CASE EndpointCall(c)
  <2>1. CASE Open(c)
    BY Zenon, <2>1, OpenStep DEF EpView
  <2>2. CASE Close(c)
    BY Zenon, <2>2, CloseStep DEF EpView
  <2>3. CASE Die(c)
    BY Zenon, <2>3, DieStep DEF EpView
  <2>4. CASE Poll(c, "poll")
    BY Zenon, <2>4, PollStep DEF EpView
  <2>5. CASE ep[c].pc = "idle" /\ Poll(c, "poll_batch")
    BY Zenon, <2>5, PollStep DEF EpView
  <2>7. CASE Rewind(c)
    BY Zenon, <2>7, RewindStep DEF EpView
  <2>8. ASSUME NEW d \in 1 .. Capacity, Peek(c, d) PROVE EpView(c) /\ Others(c) /\ Static /\ EpTypes'
    BY Zenon, <2>8, PeekStep DEF EpView
  <2> QED BY <1>2, <2>1, <2>2, <2>3, <2>4, <2>5, <2>7, <2>8 DEF EndpointCall
<1>3. CASE SeekHead(c)
  BY Zenon, <1>3, SeekHeadStep DEF EpView
<1> QED BY Zenon, <1>1, <1>2, <1>3 DEF ByEndpoint

-----------------------------------------------------------------------------
(* The fields of a producer that has just been created, and of one that is *)
(* down.                                                                   *)
LEMMA NewProdFields ==
    /\ NewProd \in ProdType /\ NewProd.pc = "idle" /\ NewProd.left = 0
    /\ \A p \in {"down", "tails"} :
          LET q == [NewProd EXCEPT !.pc = p] IN q \in ProdType /\ q.pc = p /\ q.left = 0
<1>1. NewProd \in ProdType
  BY NewTypes DEF NewProd, ProdType
<1> QED BY Zenon, <1>1 DEF NewProd, ProdType

(* The next record still fits below the bound.                             *)
LEMMA NextSeqBound ==
    ASSUME Types, ProdInv, prod.pc \in Busy
    PROVE  /\ next_seq \in Seqs /\ next_seq + 1 \in 1 .. MaxSeq + 1 /\ prod.left >= 1
           /\ prod.pos = N /\ N + 1 \in Seqs /\ prod.left <= Capacity + 1
<1>1. profile.records \in 0 .. MaxSeq /\ next_seq \in 1 .. MaxSeq + 1
  BY Zenon, ProfileType DEF Types
<1> QED BY <1>1, ProdFields, Constants DEF ProdInv, Seqs

(* A call of om_bus_stream_publish or om_bus_stream_publish_batch begins.  *)
LEMMA PublishStep ==
    ASSUME Types, ProdInv, NEW n \in 1 .. Capacity + 1, Publish(n)
    PROVE  PublishView /\ RingTypes' /\ Quiet /\ quiet' = quiet
<1> DEFINE p == [prod EXCEPT !.pc = (IF profile.broadcast THEN "invalidate" ELSE "space"), !.pos = head, !.left = n, !.chunk = n]
<1>0. head \in Seqs /\ n \in Nat /\ n \in Int
  BY Constants DEF Types
<1>1. /\ p \in ProdType /\ p.pc = (IF profile.broadcast THEN "invalidate" ELSE "space") /\ p.pos = head
      /\ p.left = n /\ p.chunk = n /\ p.scan = prod.scan
  BY Zenon, ProdFields, Constants, <1>0 DEF ProdType, Busy
<1>2. prod' = p
  BY Zenon DEF Publish
<1> HIDE DEF p
<1>3. PublishView
  BY Zenon, <1>1, <1>2 DEF Publish, PublishView, Ring, Mins, Unmoved
<1> QED BY Zenon, <1>1, <1>2, <1>3 DEF Publish, Unmoved, Quiet, RingTypes, Types

(* A record that does not fit into a slot is refused.                      *)
LEMMA TooLargeStep ==
    ASSUME Types, ProdInv, TooLarge
    PROVE  TooLargeView /\ RingTypes' /\ Quiet /\ quiet' = quiet
<1>1. next_seq' \in 1 .. MaxSeq + 1
  BY ProfileType, Constants DEF TooLarge, Types
<1> QED BY Zenon, <1>1 DEF TooLarge, TooLargeView, Unmoved, Ring, Mins, Quiet, RingTypes, Types

(* The producer finds the ring full, or how many records fit.              *)
LEMMA CheckSpaceStep ==
    ASSUME Types, ProdInv, CheckSpace
    PROVE  (FullView \/ SpaceView) /\ RingTypes' /\ Quiet /\ quiet' = quiet
<1> DEFINE room == Capacity - (prod.pos - min_tail)
           k == IF prod.left > room THEN room ELSE prod.left
           p == [prod EXCEPT !.pc = "scan", !.scan = NoScan]
           q == [prod EXCEPT !.pc = "payload", !.chunk = k]
<1>0. prod.pos \in Seqs /\ prod.left \in Nat /\ min_tail \in Seqs
  BY Zenon, ProdFields DEF Types
<1>1. k \in Int
  BY <1>0, Constants DEF Seqs
<1>2. prod' = IF Full(prod.pos, min_tail) THEN p ELSE q
  BY Zenon DEF CheckSpace
<1>3. prod.pc = "space" /\ Unmoved /\ UNCHANGED <<slots, head, min_tail, next_seq, stream>>
  BY Zenon DEF CheckSpace
<1>4. /\ p \in ProdType /\ p.pc = "scan" /\ p.pos = prod.pos /\ p.left = prod.left
      /\ p.scan = NoScan
  BY Zenon, ProdFields, NewTypes DEF ProdType, Busy
<1>5. CASE Full(prod.pos, min_tail)
  <2> HIDE DEF p, q
  <2> QED BY Zenon, <1>2, <1>3, <1>4, <1>5 DEF FullView, Goes, Ring, Mins, Unmoved, Quiet, RingTypes, Types
<1>6. CASE ~Full(prod.pos, min_tail)
  <2> HIDE DEF k
  <2>1. /\ q \in ProdType /\ q.pc = "payload" /\ q.pos = prod.pos /\ q.left = prod.left
        /\ q.chunk = k
    BY Zenon, <1>1, ProdFields DEF ProdType, Busy
  <2> HIDE DEF p, q
  <2>2. SpaceView
    BY Zenon, <1>2, <1>3, <1>6, <2>1 DEF SpaceView, Goes, Ring, Mins, Unmoved, k
  <2> QED BY Zenon, <1>2, <1>3, <1>6, <2>1, <2>2 DEF Unmoved, Quiet, RingTypes, Types
<1> QED BY Zenon, <1>5, <1>6

(* The producer's scan takes one endpoint's tail into account.             *)
LEMMA ScanTailStep ==
    ASSUME Types, ProdInv, ScanTail
    PROVE  ScanTailView /\ RingTypes' /\ Quiet /\ quiet' = quiet
<1> DEFINE p == [prod EXCEPT !.scan = ScanNext(prod.scan, Consumers)]
<1>0. ScanNext(prod.scan, Consumers) \in ScanType
  BY Zenon, ProdFields, ScanNextType DEF ScanTail
<1>1. /\ p \in ProdType /\ p.pc = prod.pc /\ p.pos = prod.pos
      /\ p.left = prod.left /\ p.chunk = prod.chunk /\ p.scan = ScanNext(prod.scan, Consumers)
  BY Zenon, ProdFields, <1>0 DEF ProdType, Busy
<1>2. prod' = p
  BY Zenon DEF ScanTail
<1> HIDE DEF p
<1>3. ScanTailView
  BY Zenon, <1>1, <1>2 DEF ScanTail, ScanTailView, Goes, Ring, shm
<1> QED BY Zenon, <1>1, <1>2, <1>3 DEF ScanTail, Quiet, RingTypes, Types, shm, Skips

(* The end of the producer's scan stores min_tail.                         *)
LEMMA StoreMinStep ==
    ASSUME Types, ProdInv, StoreMin
    PROVE  StoreMinView /\ RingTypes' /\ Quiet /\ quiet' = quiet
<1> DEFINE p == [prod EXCEPT !.pc = "space", !.scan = NoScan]
<1>0. ScanResult(prod.scan, prod.pos) \in Seqs
  BY ProdFields DEF ScanResult, ScanType, Seqs
<1>1. /\ p \in ProdType /\ p.pc = "space" /\ p.pos = prod.pos
      /\ p.left = prod.left /\ p.chunk = prod.chunk /\ p.scan = NoScan
  BY Zenon, ProdFields, NewTypes DEF ProdType, Busy
<1>2. prod' = p
  BY Zenon DEF StoreMin
<1> HIDE DEF p
<1>3. StoreMinView
  BY Zenon, <1>1, <1>2 DEF StoreMin, StoreMinView, Goes, Ring, Unmoved
<1> QED BY Zenon, <1>0, <1>1, <1>2, <1>3 DEF StoreMin, Unmoved, Quiet, RingTypes, Types

(* In broadcast mode the slot's old sequence number is wiped first.        *)
LEMMA InvalidateStep ==
    ASSUME Types, ProdInv, Invalidate
    PROVE  InvalidateView /\ RingTypes' /\ Quiet /\ quiet' = quiet
<1> DEFINE p == [prod EXCEPT !.pc = "payload"]
<1> DEFINE i == Index(prod.pos)
<1>0. i \in SlotIndex /\ 0 \in 0 .. MaxSeq + Capacity
  BY ProdFields, IndexType, NextSeqBound, Constants DEF Invalidate, Busy, Seqs
<1>1. /\ p \in ProdType /\ p.pc = "payload" /\ p.pos = prod.pos
      /\ p.left = prod.left /\ p.chunk = prod.chunk /\ p.scan = prod.scan
  BY Zenon, ProdFields DEF ProdType, Busy
<1>2. prod' = p
  BY Zenon DEF Invalidate
<1> HIDE DEF p
<1>3. InvalidateView
  BY Zenon, <1>1, <1>2 DEF Invalidate, InvalidateView, Goes, Mins, Unmoved
<1>4. slots' = [slots EXCEPT ![i].seq = 0]
  BY Zenon DEF Invalidate
<1> HIDE DEF i
<1>5. slots' \in [SlotIndex -> SlotType]
  BY ZenonT(20), <1>0, <1>4 DEF Types, SlotType
<1> QED BY Zenon, <1>1, <1>2, <1>3, <1>5 DEF Invalidate, Unmoved, Quiet, RingTypes, Types

(* The payload is copied into the slot.                                    *)
LEMMA WritePayloadStep ==
    ASSUME Types, ProdInv, WritePayload
    PROVE  WritePayloadView /\ RingTypes' /\ Quiet /\ quiet' = quiet
<1> DEFINE p == [prod EXCEPT !.pc = "header"]
<1> DEFINE i == Index(prod.pos)
<1>0. i \in SlotIndex /\ next_seq \in Seqs
  BY Zenon, ProdFields, IndexType, NextSeqBound, Constants DEF WritePayload, Busy, Seqs
<1>1. /\ p \in ProdType /\ p.pc = "header" /\ p.pos = prod.pos
      /\ p.left = prod.left /\ p.chunk = prod.chunk /\ p.scan = prod.scan
  BY Zenon, ProdFields DEF ProdType, Busy
<1>2. prod' = p
  BY Zenon DEF WritePayload
<1> HIDE DEF p
<1>3. WritePayloadView
  BY Zenon, <1>1, <1>2 DEF WritePayload, WritePayloadView, Goes, Mins, Unmoved
<1>4. slots' = [slots EXCEPT ![i].payload = next_seq]
  BY Zenon DEF WritePayload
<1> HIDE DEF i
<1>5. slots' \in [SlotIndex -> SlotType]
  BY ZenonT(20), <1>0, <1>4 DEF Types, SlotType
<1> QED BY Zenon, <1>1, <1>2, <1>3, <1>5 DEF WritePayload, Unmoved, Quiet, RingTypes, Types

(* The header is written into the slot.                                    *)
LEMMA WriteHeaderStep ==
    ASSUME Types, ProdInv, WriteHeader
    PROVE  WriteHeaderView /\ RingTypes' /\ Quiet /\ quiet' = quiet
<1> DEFINE p == [prod EXCEPT !.pc = "seq"]
<1> DEFINE i == Index(prod.pos)
<1>0. i \in SlotIndex /\ next_seq \in Seqs
  BY Zenon, ProdFields, IndexType, NextSeqBound, Constants DEF WriteHeader, Busy, Seqs
<1>1. /\ p \in ProdType /\ p.pc = "seq" /\ p.pos = prod.pos
      /\ p.left = prod.left /\ p.chunk = prod.chunk /\ p.scan = prod.scan
  BY Zenon, ProdFields DEF ProdType, Busy
<1>2. prod' = p
  BY Zenon DEF WriteHeader
<1> HIDE DEF p
<1>3. WriteHeaderView
  BY Zenon, <1>1, <1>2 DEF WriteHeader, WriteHeaderView, Goes, Mins, Unmoved
<1>4. slots' = [slots EXCEPT ![i].hdr = next_seq, ![i].crc = next_seq]
  BY Zenon DEF WriteHeader
<1> HIDE DEF i
<1>5. slots' \in [SlotIndex -> SlotType]
  BY ZenonT(20), <1>0, <1>4 DEF Types, SlotType
<1> QED BY Zenon, <1>1, <1>2, <1>3, <1>5 DEF WriteHeader, Unmoved, Quiet, RingTypes, Types

(* The store of the slot's sequence number publishes the record.           *)
LEMMA StoreSeqStep ==
    ASSUME Types, ProdInv, StoreSeq
    PROVE  StoreSeqView /\ RingTypes' /\ Quiet /\ quiet' = quiet
<1> DEFINE i == Index(prod.pos)
           k == IF prod.left = 1 THEN "head" ELSE IF profile.broadcast THEN "invalidate"
                ELSE IF prod.chunk = 1 THEN "space" ELSE "payload"
<1>a. /\ next_seq \in Seqs /\ next_seq + 1 \in 1 .. MaxSeq + 1 /\ prod.left >= 1 /\ prod.pos = N
      /\ N + 1 \in Seqs /\ N \in Nat
  BY Zenon, ProdFields, NextSeqBound DEF StoreSeq, Busy
<1>0. /\ i \in SlotIndex /\ prod.pos + 1 \in Seqs /\ prod.left - 1 \in Nat /\ prod.chunk - 1 \in Int
      /\ prod.pos + 1 \in 0 .. MaxSeq + Capacity
  BY <1>a, ProdFields, IndexType, Constants DEF Seqs
<1>b. k \in Busy \cup {"idle", "head", "down", "create", "tails"}
  BY Zenon DEF Busy
<1> DEFINE p == [prod EXCEPT !.pos = prod.pos + 1, !.left = prod.left - 1, !.chunk = prod.chunk - 1,
                             !.pc = k]
<1> HIDE DEF k
<1>1. /\ p \in ProdType /\ p.pc = k /\ p.pos = prod.pos + 1
      /\ p.left = prod.left - 1 /\ p.chunk = prod.chunk - 1 /\ p.scan = prod.scan
  BY Zenon, ProdFields, <1>0, <1>b DEF ProdType
<1>2. prod' = p
  BY Zenon DEF StoreSeq, k
<1> HIDE DEF p
<1>3. StoreSeqView
  BY Zenon, <1>1, <1>2 DEF StoreSeq, StoreSeqView, Mins, Unmoved, k
<1>4. slots' = [slots EXCEPT ![i].seq = prod.pos + 1]
  BY Zenon DEF StoreSeq
<1> HIDE DEF i
<1>5. slots' \in [SlotIndex -> SlotType]
  BY ZenonT(20), <1>0, <1>4 DEF Types, SlotType
<1>6. stream' \in Seq(Seqs) /\ next_seq' \in 1 .. MaxSeq + 1
  BY <1>a DEF StoreSeq, Types
<1> QED BY Zenon, <1>1, <1>2, <1>3, <1>5, <1>6 DEF StoreSeq, Unmoved, Quiet, RingTypes, Types

(* The end of the call stores the head.                                    *)
LEMMA StoreHeadStep ==
    ASSUME Types, ProdInv, StoreHead
    PROVE  StoreHeadView /\ RingTypes' /\ Quiet /\ quiet' = quiet
<1> DEFINE p == [prod EXCEPT !.pc = "idle"]
<1>1. /\ p \in ProdType /\ p.pc = "idle" /\ p.pos = prod.pos
      /\ p.left = prod.left /\ p.chunk = prod.chunk /\ p.scan = prod.scan
  BY Zenon, ProdFields DEF ProdType, Busy
<1>2. prod' = p
  BY Zenon DEF StoreHead
<1> HIDE DEF p
<1>3. StoreHeadView
  BY Zenon, <1>1, <1>2 DEF StoreHead, StoreHeadView, Goes, Mins, Unmoved
<1> QED BY Zenon, <1>1, <1>2, <1>3, ProdFields DEF StoreHead, Unmoved, Quiet, RingTypes, Types

(* The producer's process ends at any point.                               *)
LEMMA ProducerDiesStep ==
    ASSUME Types, ProdInv, ProducerDies
    PROVE  DiesView /\ RingTypes' /\ Quiet /\ quiet' = quiet
<1>1. prod' \in ProdType /\ prod'.pc = "down" /\ prod'.left = 0
  BY Zenon, NewProdFields DEF ProducerDies
<1> QED BY Zenon, <1>1 DEF ProducerDies, DiesView, Ring, Mins, Quiet, RingTypes, Types, shm, hist

(* A new producer wipes the mapping.                                       *)
LEMMA WipeStep ==
    ASSUME Types, ProdInv, Wipe
    PROVE  WipeView /\ RingTypes' /\ Quiet /\ quiet' = quiet
<1> DEFINE p == [prod EXCEPT !.pc = "create", !.left = epoch]
           z == [seq |-> 0, hdr |-> None, crc |-> None, payload |-> None]
<1>0. epoch \in Nat
  BY Constants DEF Types
<1>1. p \in ProdType /\ p.pc = "create" /\ p.left = epoch
  BY Zenon, <1>0, ProdFields DEF ProdType
<1>2. prod' = p
  BY Zenon DEF Wipe
<1> HIDE DEF p
<1>3. z \in SlotType /\ z.seq = 0
  BY NewTypes, Constants DEF SlotType
<1>4. slots' = [i \in SlotIndex |-> z]
  BY Zenon DEF Wipe, Types
<1> HIDE DEF z
<1>5. slots' \in [SlotIndex -> SlotType] /\ \A i \in SlotIndex : slots'[i].seq = 0
  BY Zenon, <1>3, <1>4
<1>6. tails' \in [Readers -> TailType]
  BY Zenon, NewTypes DEF Wipe
<1>7. 0 \in 0 .. MaxEpoch /\ 0 \in Seqs
  BY Constants, NewTypes
<1>8. WipeView
  BY Zenon, <1>1, <1>2, <1>5 DEF Wipe, WipeView, hist
<1> QED BY Zenon, <1>1, <1>2, <1>5, <1>6, <1>7, <1>8 DEF Wipe, Quiet, RingTypes, Types, hist

(* A new producer writes the header, with the next epoch.                  *)
LEMMA CreateHeaderStep ==
    ASSUME Types, ProdInv, CreateHeader
    PROVE  CreateHeaderView /\ RingTypes' /\ Quiet /\ quiet' = quiet
<1>1. prod' \in ProdType /\ prod'.pc = "tails" /\ prod'.left = 0
  BY Zenon, NewProdFields DEF CreateHeader
<1>2. prod.left + 1 \in 0 .. MaxEpoch
  BY Constants DEF CreateHeader, ProdInv
<1>3. << >> \in Seq(Seqs) /\ 0 \in Seqs
  BY NewTypes
<1> QED BY Zenon, <1>1, <1>2, <1>3 DEF CreateHeader, CreateHeaderView, Quiet, RingTypes, Types

(* A new producer resets the tail entries.                                 *)
LEMMA CreateTailsStep ==
    ASSUME Types, ProdInv, CreateTails
    PROVE  CreateTailsView /\ RingTypes' /\ Quiet /\ quiet' = quiet
<1>1. prod' \in ProdType /\ prod'.pc = "idle" /\ prod'.left = 0
  BY Zenon, NewProdFields DEF CreateTails
<1>2. \A i \in SlotIndex : i \in 0 .. MaxSeq + Capacity
  BY Constants DEF SlotIndex
<1>3. slots' = [i \in SlotIndex |-> [slots[i] EXCEPT !.seq = i]]
  BY Zenon DEF CreateTails, Types
<1>4. ASSUME NEW i \in SlotIndex PROVE slots'[i] \in SlotType /\ slots'[i].seq = i
  BY Zenon, <1>2, <1>3 DEF Types, SlotType
<1>5. slots' \in [SlotIndex -> SlotType]
  BY Zenon, <1>3, <1>4
<1>6. tails' \in [Readers -> TailType] /\ \A c \in Readers : tails'[c].tail = 0
  BY Zenon, NewTypes DEF CreateTails, NewTail
<1>7. CreateTailsView
  BY Zenon, <1>1, <1>4, <1>6 DEF CreateTails, CreateTailsView
<1> QED BY Zenon, <1>1, <1>5, <1>6, <1>7 DEF CreateTails, Quiet, RingTypes, Types

(* Every step of the producer is one of the views.                         *)
Producer == (\E n \in 1 .. Capacity + 1 : Publish(n)) \/ TooLarge \/ ProducerStep \/ ProducerDies
(* Each step of the producer is one of ProdView.                           *)
LEMMA ProducerView ==
    ASSUME Types, ProdInv, Producer
    PROVE  ProdView /\ RingTypes' /\ Quiet /\ quiet' = quiet
<1> USE DEF ProdView
<1>1. ASSUME NEW n \in 1 .. Capacity + 1, Publish(n)
      PROVE  ProdView /\ RingTypes' /\ Quiet /\ quiet' = quiet
  BY Zenon, <1>1, PublishStep
<1>2. CASE TooLarge
  BY Zenon, <1>2, TooLargeStep
<1>3. CASE CheckSpace
  BY Zenon, <1>3, CheckSpaceStep
<1>4. CASE ScanTail
  BY Zenon, <1>4, ScanTailStep
<1>5. CASE StoreMin
  BY Zenon, <1>5, StoreMinStep
<1>6. CASE Invalidate
  BY Zenon, <1>6, InvalidateStep
<1>7. CASE WritePayload
  BY Zenon, <1>7, WritePayloadStep
<1>8. CASE WriteHeader
  BY Zenon, <1>8, WriteHeaderStep
<1>9. CASE StoreSeq
  BY Zenon, <1>9, StoreSeqStep
<1>10. CASE StoreHead
  BY Zenon, <1>10, StoreHeadStep
<1>11. CASE ProducerDies
  BY Zenon, <1>11, ProducerDiesStep
<1>12. CASE Wipe
  BY Zenon, <1>12, WipeStep
<1>13. CASE CreateHeader
  BY Zenon, <1>13, CreateHeaderStep
<1>14. CASE CreateTails
  BY Zenon, <1>14, CreateTailsStep
<1> QED BY <1>1, <1>2, <1>3, <1>4, <1>5, <1>6, <1>7, <1>8, <1>9, <1>10, <1>11, <1>12, <1>13, <1>14
        DEF Producer, ProducerStep

(* The passing of time changes only what the clock is compared with.       *)
LEMMA ClockStep ==
    ASSUME Types, NEW c \in Readers, GrowStale(c) \/ GrowQuiet(c)
    PROVE  ClockView /\ EpTypes'
<1>1. tails \in [Readers -> TailType]
  BY Zenon DEF Types
<1>2. /\ tails' \in [Readers -> TailType]
      /\ \A d \in Readers : tails'[d].tail = tails[d].tail /\ tails'[d].live = tails[d].live
  <2>1. CASE GrowStale(c)
    BY Zenon, <1>1, <2>1 DEF GrowStale, TailType
  <2>2. CASE GrowQuiet(c)
    BY Zenon, <1>1, <2>2 DEF GrowQuiet
  <2> QED BY Zenon, <2>1, <2>2
<1>3. CASE GrowStale(c)
  BY Zenon, <1>2, <1>3 DEF GrowStale, ClockView, Mins, EpTypes, Types
<1>4. CASE GrowQuiet(c)
  BY Zenon, <1>2, <1>4 DEF GrowQuiet, ClockView, Mins, EpTypes, Types
<1> QED BY Zenon, <1>3, <1>4

(* om_bus_stream_create and no endpoint yet.                               *)
LEMMA InitBase == Init => BaseInv
<1> SUFFICES ASSUME Init PROVE BaseInv
  OBVIOUS
<1>1. slots \in [SlotIndex -> SlotType] /\ \A i \in SlotIndex : slots[i].seq = i
  BY NewTypes, Constants DEF Init, NewSlots, SlotType, SlotIndex
<1>2. stream \in Seq(Seqs) /\ N = 0
  BY DEF Init, N
<1>0. stray \in BOOLEAN
  BY Zenon DEF Init
<1>3. 1 \in 0 .. MaxEpoch /\ 1 \in 1 .. MaxSeq + 1
  BY Constants
<1>4. Types
  BY <1>0, <1>1, <1>2, <1>3, NewTypes, NewProdFields DEF Init, Types
<1>5. ProdInv
  BY <1>2, NewProdFields DEF Init, ProdInv, Busy
<1>6. SeqInv
  BY Zenon, <1>1 DEF SeqInv
<1>7. ASSUME NEW c \in Readers PROVE EpInv(c)
  <2>1. ep[c].pc = "closed" /\ ep[c].back = << >> /\ ep[c].count = 0 /\ ep[c].tail = 0
    BY Zenon DEF Init, NewEp
  <2>2. profile.batch \in Nat
    BY Zenon, <1>4, ProfileType DEF Types
  <2> QED BY <2>1, <2>2, Constants DEF EpInv, EpBound, EpochInv, CallInv, Position, Reading, Fetching
<1> QED BY Zenon, <1>4, <1>5, <1>6, <1>7 DEF BaseInv

(* A step of the program is a step in the terms of the invariants.         *)
LEMMA NextStep ==
    ASSUME BaseInv, Next
    PROVE  ProdStep \/ TimeStep \/ \E c \in Readers : EpStep(c)
<1>1. Types /\ ProdInv
  BY Zenon DEF BaseInv
<1>2. CASE ByProducer(Producer)
  BY Zenon, <1>1, <1>2, ProducerView DEF ByProducer, ProdStep
<1>3. ASSUME NEW c \in Readers, ByEndpoint(c) PROVE EpStep(c)
  <2>1. EpBound(c) /\ (ep[c].pc = "accept" /\ ep[c].op = "poll" => ep[c].count = 0)
    BY Zenon DEF BaseInv, EpInv, CallInv, Fetching, Reading
  <2>2. EpView(c) /\ Others(c) /\ Static /\ EpTypes'
    BY Zenon, <1>1, <1>3, <2>1, EndpointView
  <2> QED BY Zenon, <1>3, <2>2 DEF ByEndpoint, EpStep
<1>4. ASSUME NEW c \in Readers, ByClock(GrowStale(c) \/ GrowQuiet(c)) PROVE TimeStep
  BY Zenon, <1>1, <1>4, ClockStep DEF ByClock, TimeStep
<1> QED BY Zenon, <1>2, <1>3, <1>4 DEF Next, Producer

(* The stream as om_bus_stream_create sets it up.                          *)
LEMMA InitStream == Init => StreamInv
<1> SUFFICES ASSUME Init PROVE StreamInv
  OBVIOUS
<1>1. BaseInv
  BY Zenon, InitBase
<1>2. SlotInv
  BY DEF Init, SlotInv, WriteInv, RingInv, Writing, NewProd, N
<1>3. ASSUME NEW c \in Readers PROVE Told(c) /\ ReadInv(c)
  BY DEF Init, Told, GapInv, SaidInv, ReadInv, Attached, NewEp, NoHanded, None
<1> QED BY Zenon, <1>1, <1>2, <1>3 DEF StreamInv

(* Endpoints seek, rewind and peek in broadcast mode only.                 *)
SeeksBroadcast ==
    \A p \in Profiles : p.broadcast \/ p.ops \cap {"seek_head", "rewind", "peek"} = {}
(* The mapping the producer creates satisfies the invariant of the queue.  *)
LEMMA InitHanded ==
    ASSUME SeeksBroadcast, Init
    PROVE  HandedInv
<1>1. StreamInv /\ N = 0 /\ prod.pc = "idle" /\ min_tail = 0
  BY Zenon, InitStream DEF Init, NewProd, N
<1>2. Seekless /\ ChunkInv /\ MinInv
  BY <1>1 DEF Init, SeeksBroadcast, Seekless, ChunkInv, MinInv, Writing
<1>3. ASSUME NEW c \in Readers
      PROVE  SeekInv(c) /\ PlaceInv(c) /\ KeptInv(c) /\ RefreshInv(c) /\ HandInv(c) /\ FollowInv(c)
  <2>1. ep[c].pc = "closed" /\ ep[c].back = << >> /\ tails[c].tail = 0
    BY Zenon DEF Init, NewEp, NewTail
  <2>2. ~Attached(c) /\ ~Kept(c)
    BY Zenon, <2>1 DEF Attached, Kept
  <2>3. SeekInv(c) /\ PlaceInv(c) /\ RefreshInv(c) /\ HandInv(c)
    BY <1>1, <2>1, <2>2 DEF SeekInv, PlaceInv, RefreshInv, HandInv, Reading, Fetching
  <2> QED BY Zenon, <2>2, <2>3 DEF KeptInv, SpaceInv, UnreadInv, CopyInv, ScanInv, FollowInv
<1>4. LapInv /\ OrderInv
  BY <1>1 DEF LapInv, OrderInv
<1> QED BY Zenon, <1>1, <1>2, <1>3, <1>4 DEF HandedInv, QueueInv

(* The invariants imply the properties.                                    *)
LEMMA TypesOK == ASSUME BaseInv PROVE TypeOK
<1>1. Types /\ ProdInv
  BY Zenon DEF BaseInv
<1>2. \A i \in 0 .. Capacity - 1 :
        slots[i] \in [seq : 0 .. MaxSeq + Capacity, hdr : 0 .. MaxSeq, crc : 0 .. MaxSeq, payload : 0 .. MaxSeq]
  BY Zenon, <1>1 DEF Types, SlotIndex, SlotType, Seqs
<1>3. ASSUME NEW c \in Readers
      PROVE  /\ tails[c] \in [tail : 0 .. MaxSeq, wal_seq : 0 .. MaxSeq, live : BOOLEAN, stale : BOOLEAN]
             /\ ep[c].expected \in 0 .. MaxSeq + 1 /\ ep[c].count \in 0 .. profile.batch
             /\ handed[c].seq \in 0 .. MaxSeq /\ handed[c].pos \in -1 .. MaxSeq
  <2>1. /\ CallInv(c) /\ ep[c] \in EpType /\ handed[c] \in HandType /\ tails[c] \in TailType
        /\ profile.batch \in Nat
    BY Zenon, <1>1, BaseFacts, ProfileType DEF Types
  <2>2. ep[c].count \in Nat /\ ep[c].count <= profile.batch /\ ep[c].expected \in 0 .. MaxSeq + 1
    BY Zenon, <2>1, EpFields DEF CallInv
  <2>3. ep[c].count \in 0 .. profile.batch
    BY <2>1, <2>2
  <2>4. handed[c].seq \in Seqs /\ handed[c].pos \in -1 .. MaxSeq
    BY Zenon, <2>1, HandFields
  <2> QED BY Zenon, <2>1, <2>2, <2>3, <2>4 DEF TailType, Seqs
<1>4. epoch # 0 => prod.left \in 0 .. Capacity + 1
  <2>1. prod.pc \in Busy \/ prod.pc \in {"idle", "head", "down", "tails"} \/ prod.pc = "create"
    BY Zenon, <1>1, ProdFields
  <2> QED BY <1>1, <2>1, Constants DEF ProdInv
<1>5. prod.pos \in Seqs
  BY Zenon, <1>1, ProdFields
<1> QED BY Zenon, <1>1, <1>2, <1>3, <1>4, <1>5 DEF TypeOK, Types, Seqs

(* The invariant implies that the slots of unread records still hold them. *)
LEMMA UnreadKept == ASSUME HandedInv PROVE QueueKeepsUnread
<1>1. BaseInv /\ QueueInv
  BY Zenon DEF HandedInv, StreamInv
<1>2. TypeOK
  BY Zenon, <1>1, TypesOK
<1>3. ASSUME ~profile.broadcast, ~stray, NEW c \in Readers \ overtaken, Attached(c)
      PROVE  N <= tails[c].tail + Capacity /\ (Writing => N < tails[c].tail + Capacity)
  <2>1. Kept(c) /\ SpaceInv(c) /\ ChunkInv
    BY Zenon, <1>1, <1>3 DEF Kept, Calm, QueueInv, KeptInv
  <2>2. /\ N <= tails[c].tail + Capacity
        /\ Writing => N + prod.chunk <= tails[c].tail + Capacity /\ prod.chunk \in 1 .. Capacity
    BY Zenon, <1>3, <2>1 DEF SpaceInv, ChunkInv
  <2>3. N \in Nat /\ tails[c].tail \in Nat /\ Capacity \in Nat
    BY <1>1, BaseFacts, TailFields, Constants DEF Seqs
  <2> QED BY <2>2, <2>3
<1> QED BY Zenon, <1>2, <1>3 DEF QueueKeepsUnread, N

(* The invariant implies that the records handed out are the ones          *)
(* published.                                                              *)
LEMMA HandedIntact == ASSUME HandedInv PROVE IntactOrRefused
<1> SUFFICES ASSUME NEW c \in Readers, Attached(c), handed[c].seq # None, Trusted(c)
             PROVE  /\ handed[c].pos \in 0 .. Len(stream) - 1 /\ handed[c].seq = stream[handed[c].pos + 1]
                    /\ \/ handed[c].ref /\ Overwritten(handed[c].pos)
                       \/ Shown(handed[c]) = stream[handed[c].pos + 1]
  BY Zenon DEF IntactOrRefused, Trusted
<1>1. /\ handed[c].pos \in 0 .. N - 1
      /\ handed[c].seq = stream[handed[c].pos + 1] /\ handed[c].payload = stream[handed[c].pos + 1]
  BY Zenon DEF HandedInv, HandInv
<1>2. prod.pc # "create"
  <2>1. ProdInv /\ EpochInv(c) /\ ep[c].pc # "closed" /\ ep[c].epoch = epoch
    BY Zenon, BaseFacts DEF HandedInv, StreamInv, Attached
  <2>2. prod.pc = "create" => epoch = 0 /\ ep[c].epoch \in 1 .. prod.left
    BY Zenon, <2>1 DEF ProdInv, EpochInv
  <2>3. 0 \notin 1 .. prod.left
    OBVIOUS
  <2> QED BY Zenon, <2>1, <2>2, <2>3
<1>3. ~Overwritten(handed[c].pos) => slots[Index(handed[c].pos)].payload = stream[handed[c].pos + 1]
  BY Zenon, <1>1, <1>2 DEF HandedInv, LapInv
<1> QED BY Zenon, <1>1, <1>3 DEF N, Shown

(* The invariant implies that no record of the stream is passed over.      *)
LEMMA NoneSkipped == ASSUME HandedInv PROVE NothingSkipped
<1> SUFFICES ASSUME NEW c \in Readers, Attached(c), handed[c].prev # None, Trusted(c),
                    "seek_head" \notin profile.ops, NEW k \in 1 .. N
             PROVE  stream[k] <= handed[c].prev \/ stream[k] >= handed[c].seq
  BY Zenon DEF NothingSkipped, Trusted, N
<1>1. CASE handed[c].seq = None
  <2>1. stream[k] \in Nat
    BY Zenon, <1>1, RecordType DEF HandedInv, StreamInv, BaseInv
  <2> QED BY <1>1, <2>1 DEF None
<1>2. CASE handed[c].seq # None
  <2>1. /\ handed[c].pos \in 0 .. N - 1 /\ handed[c].seq = stream[handed[c].pos + 1]
        /\ handed[c].pos >= 1 /\ handed[c].prev = stream[handed[c].pos]
    BY Zenon, <1>2 DEF HandedInv, HandInv, FollowInv
  <2>2. PICK p \in 1 .. N : p = handed[c].pos /\ p + 1 \in 1 .. N
    <3>1. handed[c].pos \in 1 .. N /\ handed[c].pos + 1 \in 1 .. N
      BY <2>1, RecordType DEF HandedInv, StreamInv, BaseInv
    <3> QED BY Zenon, <3>1
  <2>3. /\ \A j \in 1 .. N : stream[j] \in Nat
        /\ \A j \in 1 .. N : \A i \in 1 .. N : j < i => stream[j] < stream[i]
    BY Zenon, RecordType DEF HandedInv, StreamInv, BaseInv, OrderInv
  <2>4. k < p \/ k = p \/ k = p + 1 \/ p + 1 < k
    BY <2>2
  <2>5. stream[k] <= stream[p] \/ stream[k] >= stream[p + 1]
    BY <2>2, <2>3, <2>4
  <2> QED BY Zenon, <2>1, <2>2, <2>5
<1> QED BY Zenon, <1>1, <1>2

(* The invariant implies that a gap in the WAL sequence numbers was        *)
(* reported.                                                               *)
LEMMA GapsTold == ASSUME StreamInv PROVE NoSilentGap
  BY Zenon DEF StreamInv, Told, SaidInv, NoSilentGap
=============================================================================
