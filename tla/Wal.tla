-------------------------------- MODULE Wal ---------------------------------
(***************************************************************************)
(* The write-ahead log (om_wal.c): records are appended to a buffer, the   *)
(* buffer is written to a file in blocks padded with zeros, files are      *)
(* rotated when they grow too long, and after a restart replay reads the   *)
(* files from the first one on.                                            *)
(*                                                                         *)
(* A file is a sequence of cells: a part of a record (the first holds its  *)
(* header, the last its CRC) or a zero.  A write may stop short, fsync and *)
(* open may fail, and a crash loses any of the blocks not yet synced, or   *)
(* the end of the file.  The CRC is on (the default) and detects every     *)
(* damage.  Opening a file makes its directory entry durable.              *)
(***************************************************************************)
EXTENDS Integers, Sequences, FiniteSets, SequencesExt

CONSTANTS
    Align,      \* WAL_ALIGN, in cells
    BufferSize, \* buffer_size, a multiple of Align
    Limits,     \* the values of wal_max_file_size; 0 is one file without limit
    Sizes,      \* the sizes of records, header and CRC included
    SeqLimit,   \* the first sequence number the header cannot hold, 2^40
    MaxLives,   \* bound on the processes that open the log
    Tears       \* where a write or a file may be cut, see CutPoints

ASSUME WalAssumption ==
    /\ {Align, BufferSize, SeqLimit, MaxLives} \subseteq Nat \ {0}
    /\ BufferSize % Align = 0 /\ Limits \subseteq Nat /\ Sizes \subseteq Nat \ {0}
    /\ Tears \in {"blocks", "cells"}

VARIABLES
    limit,     \* config.wal_max_file_size
    files,     \* data and synced, the length of the durable prefix
    wal,       \* OmWal: open, err (last_error), buffer, sequence, offset, index
    life,      \* the number of processes that have opened the log
    appended,  \* history: the records whose append returned a sequence number
    durable    \* history: the records that a successful om_wal_fsync covered

vars == <<limit, files, wal, life, appended, durable>>

Zero     == [seq |-> 0, life |-> 0, part |-> 0, size |-> 0]
NewFile  == [data |-> << >>, synced |-> 0]
Closed   == [open |-> FALSE, err |-> FALSE, buffer |-> << >>, sequence |-> 0, offset |-> 0,
             index |-> 0]

Init ==
    /\ limit \in Limits
    /\ files = <<NewFile>> /\ wal = Closed /\ life = 0
    /\ appended = << >> /\ durable = << >>

-----------------------------------------------------------------------------
(* Replay.                                                                 *)
Record(cell)  == [seq |-> cell.seq, life |-> cell.life, size |-> cell.size]
Zeros(n)      == [i \in 1 .. n |-> Zero]
Cells(r)      == [i \in 1 .. r.size |->
                     [seq |-> r.seq, life |-> r.life, part |-> i, size |-> r.size]]

(* om_wal_replay_next over one file: from each position, the records that  *)
(* are framed whole, and whether the end is reached without an error.  A   *)
(* zero where a header is expected is padding up to the next block.        *)
Framed(data) ==
    LET pad(p)  == Align - ((p - 1) % Align)
        stop    == [recs |-> << >>, ok |-> FALSE]
        read[p \in 1 .. Len(data) + Align] ==
            IF p = Len(data) + 1 THEN [recs |-> << >>, ok |-> TRUE]
            ELSE IF p > Len(data) THEN stop
            ELSE IF data[p] = Zero
                 THEN IF p + pad(p) - 1 <= Len(data) /\ SubSeq(data, p, p + pad(p) - 1) = Zeros(pad(p))
                      THEN read[p + pad(p)] ELSE stop
            ELSE LET end  == p + data[p].size
                 IN  IF end - 1 <= Len(data) /\ SubSeq(data, p, end - 1) = Cells(Record(data[p]))
                     THEN [read[end] EXCEPT !.recs = <<Record(data[p])>> \o @]
                     ELSE stop
    IN  read[1]

(* A sequence number that does not follow the one before is an error.      *)
Consecutive(recs, i) == \A j \in 2 .. i : recs[j].seq = recs[j - 1].seq + 1
InSequence(recs) ==
    SubSeq(recs, 1, CHOOSE i \in 0 .. Len(recs) :
                        /\ Consecutive(recs, i)
                        /\ i = Len(recs) \/ ~Consecutive(recs, i + 1))

(* replay_advance_file: the next file is read when this one ends well.     *)
Replay ==
    LET step(r, f) ==
            LET next == Framed(f.data)
            IN  IF r.ok THEN [recs |-> r.recs \o next.recs, ok |-> next.ok] ELSE r
        all == FoldLeft(step, [recs |-> << >>, ok |-> TRUE], files)
    IN  [recs |-> InSequence(all.recs),
         ok   |-> all.ok /\ InSequence(all.recs) = all.recs]

(* The file of the last record, which wal_scan_for_last_sequence reports.  *)
LastFile ==
    LET used == {i \in DOMAIN files : Framed(files[i].data).recs # << >>}
    IN  IF used = {} THEN 1 ELSE CHOOSE i \in used : \A j \in used : j <= i

-----------------------------------------------------------------------------
(* om_wal_init: the log is refused unless all of it replays.               *)
(* Mutant: the last sequence number is used again.                         *)
Mut_Open ==
    /\ ~wal.open /\ life < MaxLives /\ Replay.ok
    /\ wal' = [Closed EXCEPT !.open = TRUE, !.index = LastFile,
                             !.offset = Len(files[LastFile].data),
                             !.sequence = IF Replay.recs = << >> THEN 1
                                          ELSE Last(Replay.recs).seq]
    /\ life' = life + 1
    /\ appended' = Replay.recs
    /\ UNCHANGED <<limit, files, durable>>
Open ==
    /\ ~wal.open /\ life < MaxLives /\ Replay.ok
    /\ wal' = [Closed EXCEPT !.open = TRUE, !.index = LastFile,
                             !.offset = Len(files[LastFile].data),
                             !.sequence = IF Replay.recs = << >> THEN 1
                                          ELSE Last(Replay.recs).seq + 1]
    /\ life' = life + 1
    /\ appended' = Replay.recs
    /\ UNCHANGED <<limit, files, durable>>

(* om_wal_flush, as the set of its outcomes: a log is a record of wal and  *)
(* files.                                                                  *)
Used(buffer) == FoldLeft(LAMBDA n, r : n + r.size, 0, buffer)
Padded(n)    == ((n + Align - 1) \div Align) * Align
Block(w)     == FlattenSeq([i \in DOMAIN w.buffer |-> Cells(w.buffer[i])])
                \o Zeros(Padded(Used(w.buffer)) - Used(w.buffer))

CutPoints(n) == IF Tears = "cells" THEN 0 .. n ELSE {k \in 0 .. n : k % Align = 0}
Failed(log)  == [log EXCEPT !.wal.err = TRUE]
Grown(log, cells) == [log EXCEPT !.files[log.wal.index].data = @ \o cells]
Sync(log)    == [log EXCEPT !.files[log.wal.index].synced = Len(log.files[log.wal.index].data)]

Written(log) ==
    LET block == Block(log.wal)
        n     == Len(block)
    IN  {[Grown(log, block) EXCEPT !.wal.buffer = << >>, !.wal.offset = @ + n]}
        \cup {Failed(Grown(log, SubSeq(block, 1, k))) : k \in CutPoints(n) \ {n}}

(* The next file is opened for appending, whatever it holds.               *)
(* Mutant: the old file is not synced.                                     *)
Mut_Rotated(log) ==
    LET next == log.wal.index + 1
    IN  [log EXCEPT !.files = IF next \in DOMAIN @ THEN @ ELSE Append(@, NewFile),
                    !.wal.index = next, !.wal.offset = 0]
Rotated(log) ==
    LET next   == log.wal.index + 1
        synced == Sync(log)
    IN  [synced EXCEPT !.files = IF next \in DOMAIN @ THEN @ ELSE Append(@, NewFile),
                       !.wal.index = next, !.wal.offset = 0]

Rotates(log) == limit > 0 /\ log.wal.offset + Padded(Used(log.wal.buffer)) > limit
(* Mutant: last_error is not looked at.                                    *)
Mut_Flushed(log) ==
    IF log.wal.buffer = << >> THEN {log}
    ELSE IF Rotates(log) THEN {Failed(log), Failed(Sync(log))} \cup Written(Rotated(log))
    ELSE Written(log)
Flushed(log) ==
    IF log.wal.err \/ log.wal.buffer = << >> THEN {log}
    ELSE IF Rotates(log) THEN {Failed(log), Failed(Sync(log))} \cup Written(Rotated(log))
    ELSE Written(log)

Log == [wal |-> wal, files |-> files]
Become(log) == wal' = log.wal /\ files' = log.files

(* wal_append and om_wal_insert, with the flush that makes room.           *)
Fits(w, n) == Used(w.buffer) + n <= BufferSize
WithRoom(n) == IF Fits(wal, n) THEN {Log} ELSE Flushed(Log)
AppendRecord(n) ==
    /\ wal.open
    /\ IF wal.err THEN UNCHANGED <<wal, files, appended>>
       ELSE IF n > BufferSize \/ wal.sequence >= SeqLimit
       THEN Become(Failed(Log)) /\ UNCHANGED appended
       ELSE \E log \in WithRoom(n) :
              LET r == [seq |-> wal.sequence, life |-> life, size |-> n]
              IN  IF log.wal.err THEN Become(log) /\ UNCHANGED appended
                  ELSE /\ Become([log EXCEPT !.wal.buffer = Append(@, r), !.wal.sequence = @ + 1])
                       /\ appended' = Append(appended, r)
    /\ UNCHANGED <<limit, life, durable>>

Flush ==
    /\ wal.open
    /\ \E log \in Flushed(Log) : Become(log)
    /\ UNCHANGED <<limit, life, appended, durable>>

(* om_wal_fsync: the flush, and fsync, which may fail.                     *)
Fsync ==
    /\ wal.open
    /\ \E log \in Flushed(Log) :
          \/ log.wal.err /\ Become(log) /\ UNCHANGED durable
          \/ ~log.wal.err /\ Become(Failed(log)) /\ UNCHANGED durable
          \/ ~log.wal.err /\ Become(Sync(log)) /\ durable' = appended
    /\ UNCHANGED <<limit, life, appended>>

(* om_wal_close: the result of the last fsync is not looked at.            *)
Close ==
    /\ wal.open
    /\ \E log \in Flushed(Log) : files' \in {log.files, Sync(log).files}
    /\ wal' = Closed
    /\ UNCHANGED <<limit, life, appended, durable>>

-----------------------------------------------------------------------------
(* The process is killed.                                                  *)
Kill ==
    /\ wal.open
    /\ wal' = Closed
    /\ UNCHANGED <<limit, files, life, appended, durable>>

(* The machine crashes: the file is cut, and blocks before the cut that    *)
(* were not synced may read as zeros.                                      *)
Survivors(f) ==
    LET n      == Len(f.data)
        blocks == {(p - 1) \div Align : p \in f.synced + 1 .. n}
    IN  {[i \in 1 .. k |-> IF i > f.synced /\ (i - 1) \div Align \in lost THEN Zero
                            ELSE f.data[i]] :
            k \in {c \in CutPoints(n) \cup {n} : c >= f.synced}, lost \in SUBSET blocks}
Unsynced == {i \in DOMAIN files : files[i].synced < Len(files[i].data)}
Crash ==
    /\ \E i \in Unsynced : \E data \in Survivors(files[i]) :
          files' = [files EXCEPT ![i] = [data |-> data, synced |-> Len(data)]]
    /\ wal' = Closed
    /\ UNCHANGED <<limit, life, appended, durable>>

Next == Open \/ (\E n \in Sizes : AppendRecord(n)) \/ Flush \/ Fsync \/ Close \/ Kill \/ Crash
Spec == Init /\ [][Next]_vars
-----------------------------------------------------------------------------
(* The buffer never overflows, every sequence number fits the header, and  *)
(* at most one file holds data that is not synced.                         *)
TypeOK ==
    /\ limit \in Limits /\ life \in 0 .. MaxLives
    /\ wal.sequence \in 0 .. SeqLimit /\ wal.index \in 0 .. Len(files)
    /\ Used(wal.buffer) <= BufferSize
    /\ \A i \in DOMAIN files : files[i].synced \in 0 .. Len(files[i].data)
    /\ Cardinality(Unsynced) <= 1

(* "Force fsync for durability": whatever fails or crashes afterwards, the *)
(* records om_wal_fsync reported as durable are the first ones that replay *)
(* returns, across rotations, restarts and reused sequence numbers.        *)
DurableRecovered == IsPrefix(durable, Replay.recs)

(* As long as a writer is open and has seen no error, the files replay     *)
(* without one and, with the buffer, hold exactly the records appended, so *)
(* that the log can be opened again: om_wal_init continues the numbering   *)
(* and the padding that om_wal_replay_next expects.  At all times the      *)
(* numbers fit the header and the records the buffer.                      *)
WriterKeepsReadable ==
    /\ TypeOK
    /\ wal.open /\ ~wal.err => /\ Replay.ok
                               /\ Replay.recs \o wal.buffer = appended

(* "Sticky writer failure; never retry a torn append": once last_error is  *)
(* set nothing is written to the files, not even by om_wal_close.          *)
NoWriteAfterError ==
    [][wal.err /\ wal.open => \A i \in DOMAIN files : Len(files'[i].data) <= Len(files[i].data)]_vars
=============================================================================
