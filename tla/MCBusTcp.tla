------------------------------ MODULE MCBusTcp ------------------------------
(* Instances of BusTcp.                                                    *)
EXTENDS BusTcp

(* One client, a stream with a gap in it, a server that comes back, and a  *)
(* send buffer too small for the stream and for a warning.                 *)
Gap == [clients |-> {1}, max_clients |-> 1, conns |-> {1}, seqs |-> <<1, 3, 4>>, lens |-> <<0, 1, 0>>,
        batch |-> 2, spin_wrap |-> 2, send_buf |-> 6, recv_buf |-> 5, pipe |-> 3,
        reject_reorder |-> FALSE, max_retries |-> 2, max_starts |-> 1, stopping |-> {}]

(* A frame the send buffer has no room for, where a warning fits and is    *)
(* sent with one call or in part.                                          *)
Slow == [Gap EXCEPT !.seqs = <<1, 2, 3, 4>>, !.lens = <<0, 4, 0, 1>>, !.batch = 3, !.send_buf = 7,
                    !.recv_buf = 6, !.pipe = 5, !.max_retries = 0, !.max_starts = 0]

(* A producer that starts over, and a client that rejects it.              *)
Reorder == [Gap EXCEPT !.seqs = <<2, 1, 2>>, !.lens = <<0, 0, 1>>, !.reject_reorder = TRUE, !.max_starts = 0]

(* Two clients for one slot; one of them may stop.                         *)
Crowd == [clients |-> {1, 2}, max_clients |-> 1, conns |-> 1 .. 3, seqs |-> <<1, 2>>, lens |-> <<0, 1>>,
          batch |-> 2, spin_wrap |-> 2, send_buf |-> 4, recv_buf |-> 4, pipe |-> 4,
          reject_reorder |-> FALSE, max_retries |-> 1, max_starts |-> 0, stopping |-> {1}]

(* Two clients served at once.                                             *)
Pair == [Crowd EXCEPT !.max_clients = 2, !.conns = 1 .. 2, !.stopping = {}, !.max_retries = 0]

PassingNets == {Gap, Slow, Reorder, Crowd, Pair}
=============================================================================
