------------------------------- MODULE MCWal --------------------------------
(* Instances of Wal for model checking.                                    *)
EXTENDS Wal

OneOrMoreFiles == {0, 4}
RecordSizes    == {2, 3, 9}
=============================================================================
