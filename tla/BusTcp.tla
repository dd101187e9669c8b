------------------------------- MODULE BusTcp -------------------------------
(***************************************************************************)
(* The TCP bus (om_bus_tcp.c): a relay (om_bus_relay.h) takes records from *)
(* a shared-memory endpoint and broadcasts them through a server to auto-  *)
(* reconnecting clients.                                                   *)
(*                                                                         *)
(* Bytes are modelled as cells <<f, k>>, the k-th of frame f, so that the  *)
(* stream can be cut anywhere.  A frame is the index of a record in the    *)
(* stream of the relay, or Warn.  The kernel carries at most pipe cells of *)
(* a connection; send and recv move any part of what fits.  The offsets of *)
(* the send buffer are left out: append_frame compacts before it decides.  *)
(***************************************************************************)
EXTENDS Integers, Sequences, FiniteSets, SequencesExt

CONSTANTS
    Nets,           \* the configurations the bus may run in
    HeaderSize,     \* cells of a frame header
    WarnPayload     \* cells of the payload of a slow-client warning

(* seqs and lens give the sequence number and the payload of every record  *)
(* the endpoint will deliver.  spin_wrap stands for 2^32, the period of    *)
(* idle_spins.  max_retries = 0 means no limit.  The clients of stopping   *)
(* may each stop once.                                                     *)
ASSUME TcpAssumption ==
    /\ HeaderSize \in Nat \ {0} /\ WarnPayload \in Nat
    /\ \A n \in Nets :
        /\ n \in [clients : SUBSET Nat, max_clients : Nat \ {0}, conns : SUBSET (Nat \ {0}),
                  seqs : Seq(Nat \ {0}), lens : Seq(Nat),
                  batch : Nat \ {0}, spin_wrap : Nat \ {0},
                  send_buf : Nat, recv_buf : Nat, pipe : Nat \ {0},
                  reject_reorder : BOOLEAN, max_retries : Nat, max_starts : Nat, stopping : SUBSET Nat]
        /\ DOMAIN n.seqs = DOMAIN n.lens
        /\ n.stopping \subseteq n.clients
        /\ Cardinality(n.conns) = Cardinality(n.clients) + Cardinality(n.stopping)
        /\ \A i \in DOMAIN n.lens : HeaderSize + n.lens[i] <= n.recv_buf
        /\ HeaderSize + WarnPayload <= n.recv_buf

VARIABLES
    net,        \* the configuration
    relay,      \* the relay: its state, records taken, idle_spins, servers started
    slots,      \* the client slots of the server
    backlog,    \* the connections accept() has not returned yet
    conn,       \* the connections
    client      \* the auto-reconnecting clients

vars == <<net, relay, slots, backlog, conn, client>>

Warn == 0
Size(f) == HeaderSize + (IF f = Warn THEN WarnPayload ELSE net.lens[f])
Cells(f) == [k \in 1 .. Size(f) |-> <<f, k>>]
Smaller(a, b) == IF a < b THEN a ELSE b

(* A connection: the cells under way, its two ends, and for the record the *)
(* first frame after its acceptance, the frame it was dropped at (0: none) *)
(* and the frames its client was given, with the answers.                  *)
NoConn == [q |-> << >>, srv |-> "none", cli |-> FALSE, from |-> 0, dropped |-> 0, given |-> << >>]
NoSlot == [conn |-> 0, buf |-> << >>, closing |-> FALSE]
Open(sl, s) == sl[s].conn # 0
Slots == 1 .. net.max_clients

(* A connection both ends have closed may be used again.                   *)
Settle(cn) == [k \in DOMAIN cn |->
                  IF cn[k].srv = "closed" /\ ~cn[k].cli THEN NoConn ELSE cn[k]]

-----------------------------------------------------------------------------
(* The server.                                                             *)

(* _server_append_frame: a slot is [conn, buf, closing].  A frame that     *)
(* does not fit marks the client for disconnection, with a warning if      *)
(* there is room for it.                                                   *)
AppendFrame(slot, f) ==
    IF Len(slot.buf) + Size(f) <= net.send_buf THEN [slot EXCEPT !.buf = @ \o Cells(f)]
    ELSE [slot EXCEPT !.buf = IF Len(@) + Size(Warn) <= net.send_buf THEN @ \o Cells(Warn) ELSE @,
                      !.closing = TRUE]

(* om_bus_tcp_server_broadcast_batch of the frames first .. last to one    *)
(* slot; om_bus_tcp_server_broadcast is a batch of one.                    *)
(* Mutant: the batch goes on after the slot was marked.                    *)
Mut_BroadcastTo(slot, first, last) ==
    IF slot.conn = 0 \/ slot.closing THEN slot
    ELSE FoldLeft(AppendFrame, slot, [i \in 1 .. last - first + 1 |-> first + i - 1])
BroadcastTo(slot, first, last) ==
    FoldLeft(LAMBDA s, f : IF s.conn = 0 \/ s.closing THEN s ELSE AppendFrame(s, f),
             slot, [i \in 1 .. last - first + 1 |-> first + i - 1])

(* The frame at which a slot that was open is marked, for the record.      *)
DroppedAt(slot, first, last) ==
    IF slot.conn = 0 \/ slot.closing \/ ~BroadcastTo(slot, first, last).closing THEN 0
    ELSE CHOOSE i \in first .. last :
            /\ BroadcastTo(slot, first, i).closing
            /\ \A j \in first .. i - 1 : ~BroadcastTo(slot, first, j).closing

(* The accept loop of om_bus_tcp_server_poll_io: the first free slot, or   *)
(* the connection is closed again.  A slot marked for disconnection is not *)
(* free before the end of the call.                                        *)
(* Mutant: it is.                                                          *)
Mut_AcceptAll(sl, cn, bl) ==
    LET One(x, k) ==
            LET free == {s \in Slots : ~Open(x.sl, s) \/ x.sl[s].closing}
            IN  IF free = {} THEN [x EXCEPT !.cn[k].srv = "closed"]
                ELSE LET s == CHOOSE t \in free : \A u \in free : t <= u
                     IN  [sl |-> [x.sl EXCEPT ![s] = [NoSlot EXCEPT !.conn = k]],
                          cn |-> [x.cn EXCEPT ![k].srv = "open", ![k].from = relay'.taken]]
    IN  FoldLeft(One, [sl |-> sl, cn |-> cn], bl)
AcceptAll(sl, cn, bl) ==
    LET One(x, k) ==
            LET free == {s \in Slots : ~Open(x.sl, s)}
            IN  IF free = {} THEN [x EXCEPT !.cn[k].srv = "closed"]
                ELSE LET s == CHOOSE t \in free : \A u \in free : t <= u
                     IN  [sl |-> [x.sl EXCEPT ![s] = [NoSlot EXCEPT !.conn = k]],
                          cn |-> [x.cn EXCEPT ![k].srv = "open", ![k].from = relay'.taken]]
    IN  FoldLeft(One, [sl |-> sl, cn |-> cn], bl)

(* _server_close_client, for a set of slots.                               *)
CloseSlots(sl, cn, S) ==
    [sl |-> [s \in Slots |-> IF s \in S THEN NoSlot ELSE sl[s]],
     cn |-> [k \in DOMAIN cn |-> IF \E s \in S : sl[s].conn = k
                                 THEN [cn[k] EXCEPT !.srv = "closed"] ELSE cn[k]]]

(* The numbers of cells send() may take from a slot that was polled.       *)
Takes(sl, cn, s) ==
    LET k    == sl[s].conn
        most == Smaller(Len(sl[s].buf), net.pipe - Len(cn[k].q))
    IN  IF ~Open(sl, s) \/ ~cn[k].cli \/ most = 0 THEN {0} ELSE 1 .. most

(* om_bus_tcp_server_poll_io, from the slots sl and connections cn: a poll *)
(* that a signal interrupts does nothing.  Otherwise the connections that  *)
(* wait are accepted, the slots that were open before are looked at for a  *)
(* closed peer and send once, and those marked for disconnection are       *)
(* closed, whether or not their buffer is empty.                           *)
Interrupted(sl, cn) == slots' = sl /\ conn' = cn /\ backlog' = backlog
DriveIo(sl, cn) ==
    \E n \in [Slots -> 0 .. net.pipe] :
        /\ \A s \in Slots : n[s] \in Takes(sl, cn, s)
        /\ LET a   == AcceptAll(sl, cn, backlog)
               hup == {s \in Slots : Open(sl, s) /\ ~cn[sl[s].conn].cli}
               cn1 == [k \in DOMAIN cn |->
                          IF \E s \in Slots : sl[s].conn = k
                          THEN LET s == CHOOSE t \in Slots : sl[t].conn = k
                               IN  [a.cn[k] EXCEPT !.q = @ \o SubSeq(sl[s].buf, 1, n[s])]
                          ELSE a.cn[k]]
               sl1 == [s \in Slots |->
                          [a.sl[s] EXCEPT !.buf = SubSeq(@, n[s] + 1, Len(@)),
                                          !.closing = @ \/ s \in hup]]
               c   == CloseSlots(sl1, cn1, {s \in Slots : sl1[s].closing})
           IN  slots' = c.sl /\ conn' = Settle(c.cn) /\ backlog' = << >>
PollIo(sl, cn) == DriveIo(sl, cn) \/ Interrupted(sl, cn)

-----------------------------------------------------------------------------
(* om_bus_relay_run, one pass of its loop at a time.                       *)

(* The endpoint has records: they are broadcast and the sockets driven.    *)
(* burst_limit only bounds the size of a batch.                            *)
RelayBatch ==
    \E last \in relay.taken + 1 .. Smaller(Len(net.seqs), relay.taken + net.batch) :
        LET first == relay.taken + 1
            sl == [s \in Slots |-> BroadcastTo(slots[s], first, last)]
            cn == [k \in DOMAIN conn |->
                      LET of == {s \in Slots : slots[s].conn = k}
                      IN  IF of = {} THEN conn[k]
                          ELSE LET d == DroppedAt(slots[CHOOSE s \in of : TRUE], first, last)
                               IN  IF d = 0 THEN conn[k] ELSE [conn[k] EXCEPT !.dropped = d]]
        IN  /\ relay.pc = "running"
            /\ relay' = [relay EXCEPT !.taken = last, !.idle = 0]
            /\ PollIo(sl, cn)
            /\ UNCHANGED <<net, client>>

(* The endpoint is empty: the sockets are driven in the first idle pass    *)
(* only, and again when the 32-bit counter has wrapped.                    *)
(* Mutant: the counter stops at its largest value.                         *)
Mut_NextIdle(n) == IF n + 1 = net.spin_wrap THEN n ELSE n + 1
NextIdle(n) == (n + 1) % net.spin_wrap

RelaySpin ==
    /\ relay.pc = "running" /\ relay.idle # 0
    /\ relay' = [relay EXCEPT !.idle = NextIdle(@)]
    /\ UNCHANGED <<net, slots, backlog, conn, client>>
FirstIdle ==
    /\ relay.pc = "running" /\ relay.idle = 0
    /\ relay' = [relay EXCEPT !.idle = NextIdle(@)]
    /\ UNCHANGED <<net, client>>
RelayIdleIo == FirstIdle /\ DriveIo(slots, conn)
RelayIdleInterrupted == FirstIdle /\ Interrupted(slots, conn)

(* The relay returns: asked to, after a last look at the sockets, or with  *)
(* the error of the endpoint.                                              *)
RelayReturns ==
    /\ relay.pc = "running"
    /\ relay' = [relay EXCEPT !.pc = "returned"]
    /\ PollIo(slots, conn) \/ UNCHANGED <<slots, conn, backlog>>
    /\ UNCHANGED <<net, client>>

(* om_bus_tcp_server_destroy; the kernel resets what was not accepted.     *)
ServerDestroy ==
    LET c == CloseSlots(slots, conn, {s \in Slots : Open(slots, s)})
    IN  /\ relay.pc = "returned"
        /\ relay' = [relay EXCEPT !.pc = "down"]
        /\ slots' = c.sl /\ backlog' = << >>
        /\ conn' = Settle([k \in DOMAIN conn |->
                       IF k \in ToSet(backlog) THEN [c.cn[k] EXCEPT !.srv = "closed"] ELSE c.cn[k]])
        /\ UNCHANGED <<net, client>>

(* om_bus_tcp_server_create and a new relay on the same endpoint.          *)
ServerCreate ==
    /\ relay.pc = "down" /\ relay.starts < net.max_starts
    /\ relay' = [relay EXCEPT !.pc = "running", !.idle = 0, !.starts = @ + 1]
    /\ UNCHANGED <<net, slots, backlog, conn, client>>

-----------------------------------------------------------------------------
(* The clients.                                                            *)

(* om_bus_tcp_client_connect: the fields of a client that is connected.    *)
Connected(k) == [conn |-> k, buf |-> << >>, offset |-> 0, expected |-> 0, last |-> 0]
Listening == relay.pc # "down"
FreeConns == {k \in net.conns : conn[k].srv = "none"}
NewConn == CHOOSE k \in FreeConns : \A j \in FreeConns : k <= j

(* om_bus_tcp_auto_client_create.                                          *)
NoClient(b) == [inner |-> Connected(0), auto_last |-> 0, retries |-> 0, up |-> FALSE,
                waiting |-> FALSE, disconnected |-> FALSE, stopped |-> b]
ClientCreate(c) ==
    /\ ~client[c].up /\ Listening
    /\ client' = [client EXCEPT ![c] = [@ EXCEPT !.up = TRUE, !.inner = Connected(NewConn)]]
    /\ conn' = [conn EXCEPT ![NewConn].srv = "backlog", ![NewConn].cli = TRUE]
    /\ backlog' = Append(backlog, NewConn)
    /\ UNCHANGED <<net, relay, slots>>

(* The process of a client ends; the kernel closes its socket.             *)
ClientStops(c) ==
    /\ client[c].up /\ c \in net.stopping /\ ~client[c].stopped
    /\ client' = [client EXCEPT ![c] = NoClient(TRUE)]
    /\ conn' = Settle([k \in DOMAIN conn |->
                  IF k = client[c].inner.conn THEN [conn[k] EXCEPT !.cli = FALSE] ELSE conn[k]])
    /\ UNCHANGED <<net, relay, slots, backlog>>

(* om_bus_tcp_client_poll: a buffer is compacted when more than half of it *)
(* is consumed or it is full, then recv() fills what is free.              *)
Room(i) ==
    LET offset == IF i.offset > net.recv_buf \div 2 \/ i.offset + Len(i.buf) = net.recv_buf
                  THEN 0 ELSE i.offset
    IN  [offset |-> offset, free |-> net.recv_buf - offset - Len(i.buf)]

(* The answer to the record f, from the number that is expected.           *)
Verdict(i, f) ==
    IF i.expected = 0 \/ net.seqs[f] = i.expected THEN "record"
    ELSE IF net.seqs[f] > i.expected THEN "gap"
    ELSE IF net.reject_reorder THEN "reorder" ELSE "record"

(* The frame f is taken off the buffer; a record sets what is expected.    *)
(* Mutant: the expected number counts on from the old one after a gap.     *)
Mut_Consume(i, f) ==
    LET j == [i EXCEPT !.buf = SubSeq(@, Size(f) + 1, Len(@)), !.offset = @ + Size(f)]
    IN  IF f = Warn THEN j
        ELSE [j EXCEPT !.expected = (IF @ = 0 THEN net.seqs[f] ELSE @) + 1, !.last = net.seqs[f]]
Consume(i, f) ==
    LET j == [i EXCEPT !.buf = SubSeq(@, Size(f) + 1, Len(@)), !.offset = @ + Size(f)]
    IN  IF f = Warn THEN j ELSE [j EXCEPT !.expected = net.seqs[f] + 1, !.last = net.seqs[f]]

(* What a poll finds at the start of the unparsed cells.                   *)
(* Mutant: a closed peer is reported before the frames that came from it.  *)
Mut_Parse(buf, closed) ==
    IF closed THEN "disconnected"
    ELSE IF Len(buf) < HeaderSize THEN "none"
    ELSE IF buf[1][2] # 1 THEN "protocol"
    ELSE IF Len(buf) < Size(buf[1][1]) THEN "none" ELSE "frame"
Parse(buf, closed) ==
    LET short == IF closed THEN "disconnected" ELSE "none"
    IN  IF Len(buf) < HeaderSize THEN short
        ELSE IF buf[1][2] # 1 THEN "protocol"
        ELSE IF Len(buf) < Size(buf[1][1]) THEN short ELSE "frame"

(* om_bus_tcp_auto_client_poll of a client that is connected.              *)
ClientPoll(c) ==
    LET i == client[c].inner
        k == i.conn
        r == Room(i)
        most == Smaller(r.free, Len(conn[k].q))
        closed == r.free > 0 /\ conn[k].q = << >> /\ conn[k].srv = "closed"
    IN  /\ client[c].up /\ ~client[c].disconnected
        /\ \E n \in IF most = 0 THEN {0} ELSE 1 .. most :
              LET j == [i EXCEPT !.buf = @ \o SubSeq(conn[k].q, 1, n), !.offset = r.offset]
                  f == j.buf[1][1]
                  answer == IF f = Warn THEN "slow_warning" ELSE Verdict(i, f)
                  cn == [conn EXCEPT ![k].q = SubSeq(@, n + 1, Len(@))]
              IN  \/ /\ Parse(j.buf, closed) = "frame"
                     /\ client' = [client EXCEPT
                           ![c].inner = Consume(j, f),
                           ![c].auto_last = IF answer = "record" THEN net.seqs[f] ELSE @]
                     /\ conn' = [cn EXCEPT ![k].given = Append(@, [frame |-> f, answer |-> answer])]
                  \/ /\ Parse(j.buf, closed) = "disconnected"
                     /\ client' = [client EXCEPT ![c].inner = Connected(0),
                                                 ![c].disconnected = TRUE, ![c].waiting = TRUE]
                     /\ conn' = Settle([cn EXCEPT ![k].cli = FALSE])
                  \/ /\ Parse(j.buf, closed) = "none"
                     /\ client' = [client EXCEPT ![c].inner = j]
                     /\ conn' = cn
                  \/ /\ Parse(j.buf, closed) = "protocol"
                     /\ client' = [client EXCEPT ![c].inner = j]
                     /\ conn' = [cn EXCEPT
                           ![k].given = Append(@, [frame |-> f, answer |-> "protocol"])]
        /\ UNCHANGED <<net, relay, slots, backlog>>

(* The time until the next attempt has passed.                             *)
BackoffEnds(c) ==
    /\ client[c].waiting
    /\ client' = [client EXCEPT ![c].waiting = FALSE]
    /\ UNCHANGED <<net, relay, slots, backlog, conn>>

(* om_bus_tcp_auto_client_poll of a client that is disconnected, after the *)
(* backoff: it connects, and goes on as above, or it counts the attempt    *)
(* and waits again.  The count only matters when there is a limit.         *)
(* Mutant: an attempt that failed is not counted.                          *)
GivenUp(c) == net.max_retries > 0 /\ client[c].retries >= net.max_retries
Mut_Refused(x) == [x EXCEPT !.waiting = TRUE]
Refused(x) == [x EXCEPT !.retries = IF net.max_retries = 0 THEN @ ELSE @ + 1, !.waiting = TRUE]
Reconnect(c) ==
    /\ client[c].disconnected /\ ~client[c].waiting /\ ~GivenUp(c)
    /\ IF Listening
       THEN /\ client' = [client EXCEPT ![c].inner = Connected(NewConn),
                                        ![c].disconnected = FALSE, ![c].retries = 0]
            /\ conn' = [conn EXCEPT ![NewConn].srv = "backlog", ![NewConn].cli = TRUE]
            /\ backlog' = Append(backlog, NewConn)
       ELSE /\ client' = [client EXCEPT ![c] = Refused(@)]
            /\ UNCHANGED <<conn, backlog>>
    /\ UNCHANGED <<net, relay, slots>>

-----------------------------------------------------------------------------
Init ==
    /\ net \in Nets
    /\ relay = [pc |-> "running", taken |-> 0, idle |-> 0, starts |-> 0]
    /\ slots = [s \in Slots |-> NoSlot]
    /\ backlog = << >>
    /\ conn = [k \in net.conns |-> NoConn]
    /\ client = [c \in net.clients |-> NoClient(FALSE)]

Relay ==
    \/ RelayBatch
    \/ RelaySpin
    \/ RelayIdleIo
    \/ RelayIdleInterrupted
    \/ RelayReturns
    \/ ServerDestroy
    \/ ServerCreate

Client(c) ==
    \/ ClientCreate(c)
    \/ ClientStops(c)
    \/ ClientPoll(c)
    \/ BackoffEnds(c)
    \/ Reconnect(c)

Next == Relay \/ \E c \in net.clients : Client(c)

(* The relay and the clients poll in loops, a returned relay's server is   *)
(* destroyed, time passes, and signals do not interrupt every poll().      *)
(* Nothing makes the endpoint deliver, a process stop or a server start.   *)
AllClients == UNION {n.clients : n \in Nets}
Fairness ==
    /\ SF_vars(RelayIdleIo) /\ WF_vars(RelaySpin) /\ WF_vars(ServerDestroy)
    /\ \A c \in AllClients :
        /\ WF_vars(c \in net.clients /\ ClientPoll(c))
        /\ WF_vars(c \in net.clients /\ (BackoffEnds(c) \/ Reconnect(c)))

Spec == Init /\ [][Next]_vars /\ Fairness

-----------------------------------------------------------------------------
(* The buffers keep to their sizes, and every field to its type.           *)
TypeOK ==
    /\ relay.pc \in {"running", "returned", "down"}
    /\ relay.taken \in 0 .. Len(net.seqs) /\ relay.idle \in 0 .. net.spin_wrap - 1
    /\ \A s \in Slots : /\ slots[s].conn \in {0} \cup net.conns
                        /\ Len(slots[s].buf) <= net.send_buf
                        /\ slots[s].closing \in BOOLEAN
    /\ \A k \in net.conns : /\ conn[k].srv \in {"none", "backlog", "open", "closed"}
                            /\ Len(conn[k].q) <= net.pipe
    /\ \A c \in net.clients :
        LET i == client[c].inner
        IN  /\ i.conn \in {0} \cup net.conns /\ i.offset + Len(i.buf) <= net.recv_buf
            /\ (i.conn = 0) <=> (client[c].disconnected \/ ~client[c].up)

(* A connection waits in the backlog, or is held by exactly one slot, or   *)
(* the server has closed it: slots that are reused, dropped or refused     *)
(* never leave a client connected that nobody serves, or a buffer with     *)
(* more than it has room for.                                              *)
ConnHeldOnce ==
    /\ TypeOK
    /\ \A k \in net.conns :
        /\ (conn[k].srv = "open") <=> \E s \in Slots : slots[s].conn = k
        /\ \A s, t \in Slots : slots[s].conn = k /\ slots[t].conn = k => s = t
        /\ (conn[k].srv = "backlog") <=> k \in ToSet(backlog)

(* The records a connection was to get since it was accepted; the last of  *)
(* a connection that was dropped is the warning.                           *)
Due(k) ==
    LET last == IF conn[k].dropped = 0 THEN relay.taken ELSE conn[k].dropped - 1
    IN  [i \in 1 .. last - conn[k].from |-> conn[k].from + i]
            \o (IF conn[k].dropped = 0 THEN << >> ELSE <<Warn>>)
AllCells(frames) == FlattenSeq([i \in DOMAIN frames |-> Cells(frames[i])])
Received(k) ==
    AllCells([i \in DOMAIN conn[k].given |-> conn[k].given[i].frame])
        \o (IF \E c \in net.clients : client[c].inner.conn = k
            THEN client[CHOOSE c \in net.clients : client[c].inner.conn = k].inner.buf \o conn[k].q
            ELSE << >>)
Unsent(k) == LET of == {s \in Slots : slots[s].conn = k}
             IN  IF of = {} THEN << >> ELSE slots[CHOOSE s \in of : TRUE].buf

(* What a client was handed, what it has not parsed, what is under way and *)
(* what the server holds is, cell by cell, what was broadcast since the    *)
(* connection was accepted: no frame is torn, repeated, reordered or left  *)
(* out, whatever send() and recv() move and however the buffers are        *)
(* compacted.  A dropped or closed connection loses an end of it only.     *)
StreamIntact ==
    \A k \in net.conns :
        LET got == Received(k) \o Unsent(k)
        IN  conn[k].srv \in {"open", "closed"} /\ conn[k].cli =>
                /\ IsPrefix(got, AllCells(Due(k)))
                /\ conn[k].srv = "open" /\ conn[k].dropped = 0 => got = AllCells(Due(k))

(* Within a connection the answer is a gap exactly when numbers are        *)
(* missing between the record and the one before it, also right after a    *)
(* gap or a step back, so a client that acts on gaps misses nothing.       *)
GapsReported ==
    \A k \in net.conns :
        LET recs == SelectSeq(conn[k].given, LAMBDA g : g.frame # Warn)
        IN  \A i \in 2 .. Len(recs) :
                (recs[i].answer = "gap") <=> net.seqs[recs[i].frame] > net.seqs[recs[i - 1].frame] + 1

(* A client reports the end of a connection only when no complete frame is *)
(* left: everything the server managed to send was handed out first.       *)
DrainBeforeDisconnect ==
    [][\A c \in net.clients :
           ~client[c].disconnected /\ client'[c].disconnected =>
               LET i == client[c].inner
               IN  /\ conn[i.conn].q = << >>
                   /\ \/ Len(i.buf) < HeaderSize
                      \/ Len(i.buf) < Size(i.buf[1][1])]_vars

(* The records that were broadcast to a connection are handed to its       *)
(* client, or the connection ends: nothing stays in a buffer of the server *)
(* for good, though an idle relay looks at its sockets once per idle       *)
(* period only.  (The stream is finite, so all of it is handed out.)       *)
Owed(c) ==
    /\ c \in net.clients /\ client[c].inner.conn # 0
    /\ LET k == conn[client[c].inner.conn]
       IN  k.srv = "open" /\ k.from + Len(k.given) < relay.taken
BroadcastDelivered == \A c \in AllClients : Owed(c) ~> ~Owed(c)

(* A client that lost its connection connects again, or has seen as many   *)
(* attempts refused as it may make; without a limit it waits for a server  *)
(* to come up.                                                             *)
Lost(c) == c \in net.clients /\ client[c].disconnected
ReconnectsOrGivesUp ==
    \A c \in AllClients : Lost(c) ~> (Lost(c) => GivenUp(c) \/ (net.max_retries = 0 /\ ~Listening))
=============================================================================
