---------------------------- MODULE TcpConnection ----------------------------
(* One connection of the STM32 firmware's TCP: its control block (TcpPcb),   *)
(* the netconn the application sees (api_msg.c), a peer that is an ordinary  *)
(* TCP, and the network between them.  A packet may be lost, overtaken or    *)
(* delivered twice, a timer may run before the answers are in, memory may    *)
(* run out and the peer may reset: each is a fault, and the plan bounds      *)
(* them.  With nothing under way the timers run freely.                      *)
(* The tcpip thread makes every action atomic.                               *)
EXTENDS TcpPcb

\* The bounds of a behaviour: units the application, and the peer, may send,
\* faults, and who may end the connection: the application, the peer, with a
\* FIN or a reset.
CONSTANT Plans
Ends == {"close", "fin", "reset"}
ASSUME PlansAssumption ==
  Plans \subseteq [out : Nat, in : Nat, faults : Nat, ends : SUBSET Ends]

VARIABLES
  pcb,     \* the control block, state CLOSED when there is none
  conn,    \* the netconn and what went through it
  peer,    \* the other end
  toPeer, toPcb,   \* the packets under way
  plan,
  faults

vars == <<pcb, conn, peer, toPeer, toPcb, plan, faults>>

\* attached: the pcb is the netconn's; op: what the application waits for;
\* given, unread, eof: what came from TCP; used: what tcp_input used a block
\* for that had been given back, "fin" or "more", or "none".
NoConn == [attached |-> FALSE, op |-> "none", written |-> 0, given |-> <<>>,
           unread |-> 0, eof |-> FALSE, closed |-> FALSE, err |-> FALSE, used |-> "none"]

\* got, eof: what the peer has received; edge: up to where it may send.
Listening == [state |-> "listen", got |-> <<>>, eof |-> FALSE, unread |-> 0,
              una |-> 0, nxt |-> 0, fin |-> FALSE, edge |-> 0]

Init == /\ pcb = NoPcb /\ conn = NoConn /\ peer = Listening
        /\ toPeer = <<>> /\ toPcb = <<>>
        /\ plan \in Plans /\ faults = 0

Fault == faults < plan.faults /\ faults' = faults + 1

Sends(out) == toPeer' = toPeer \o out /\ UNCHANGED toPcb
Answers(out) == toPcb' = toPcb \o out /\ UNCHANGED toPeer

\* A call for which there is memory or, as a fault, is not.
Memory(mem) == IF mem THEN UNCHANGED faults ELSE Fault

\* What the network may do to the packets q.
Disturbed(q) ==
       {RemoveAt(q, i) : i \in DOMAIN q}
  \cup {InsertAt(q, i, q[i]) : i \in DOMAIN q}
  \cup {[q EXCEPT ![i] = q[i + 1], ![i + 1] = q[i]] : i \in 1..Len(q) - 1}

Disturb ==
  /\ Fault
  /\ \/ toPeer' \in Disturbed(toPeer) /\ UNCHANGED toPcb
     \/ toPcb' \in Disturbed(toPcb) /\ UNCHANGED toPeer
  /\ UNCHANGED <<pcb, conn, peer, plan>>

-------------------------------------------------------------------------------
(* The netconn (api_msg.c).  x is [p, c, out, freed].                        *)

State(p, c, out) == [p |-> p, c |-> c, out |-> out, freed |-> FALSE]

\* tcp_output at the end of a call.
Sent(x, r) == [x EXCEPT !.p = r.p, !.out = r.out]
Flushed(x) == IF x.p.state \in Open THEN Sent(x, OutputAfter(x)) ELSE x

\* err_tcp: the application's call ends with an error.
err_tcp(c) == [c EXCEPT !.attached = FALSE, !.op = "none", !.err = TRUE]
Errored(c) == IF c.attached THEN err_tcp(c) ELSE c

\* What waits for a full send buffer or for memory stays.
do_writemore(p, c, mem) ==
  IF p.snd_buf = 0 THEN State(p, c, <<>>)
  ELSE State(tcp_write(p, c.written + 1, mem),
             IF mem THEN [c EXCEPT !.written = @ + 1, !.op = "none"] ELSE c, <<>>)

AfterClose(r, c) ==
  [State(r.p, IF r.ok THEN [c EXCEPT !.attached = FALSE, !.op = "none", !.closed = TRUE] ELSE c,
         r.out) EXCEPT !.freed = (r.p.state = "CLOSED")]
do_close_internal(p, c, mem) == AfterClose(tcp_close(p, mem), c)

\* sent_tcp and poll_tcp.
Continue(p, c, mem) ==
  CASE c.op = "write" -> do_writemore(p, c, mem)
    [] c.op = "close" -> do_close_internal(p, c, mem)
    [] OTHER -> State(p, c, <<>>)

-------------------------------------------------------------------------------
(* tcp_input (tcp_in.c): the callbacks run inside it, tcp_output after them. *)

Received(c, data, eof) ==
  [c EXCEPT !.given = @ \o data, !.unread = @ + Len(data), !.eof = @ \/ eof]

Established(c) == IF c.op = "connect" THEN [c EXCEPT !.op = "none"] ELSE c

\* Wrong variant: the FIN's number is not given back.
FinKept(p, fin) == p

\* The FIN's number is given back to the window at once.
FinCounted(p, fin) ==
  IF fin /\ p.rcv_wnd # TCP_WND THEN [p EXCEPT !.rcv_wnd = U16(@ + 1)] ELSE p

\* What is left when the sent callback has returned: the block may have been
\* given back by then.
With(c, r) == State(r.p, c, r.out)
AfterSent(r, x) ==
  IF x.freed THEN State(NoPcb, [x.c EXCEPT !.used = IF r.fin THEN "fin" ELSE "more"], x.out)
  ELSE IF r.data # <<>> /\ x.p.RXCLOSED THEN With(Errored(x.c), Also(x.out, tcp_abort(x.p)))
  ELSE With(Received(x.c, r.data, r.fin /\ ~x.p.RXCLOSED),
            OutputAfter(Done(FinCounted(x.p, r.fin), x.out)))

\* tcp_process has run on p.  The sent callback, or the connected callback.
Callback(p, c, r, mem) ==
  IF p.state # "SYN_SENT" /\ r.p.lastack > p.lastack THEN Continue(r.p, c, mem)
  ELSE State(r.p, IF r.p.state # "SYN_SENT" THEN Established(c) ELSE c, <<>>)
Processed(p, c, r, mem) ==
  IF r.over THEN State(NoPcb, Errored(c), r.out)
  ELSE AfterSent(r, Also(r.out, Callback(p, c, r, mem)))

tcp_input(p, c, m, mem) ==
  CASE p.state = "CLOSED" ->
         State(p, c, IF m.rst THEN <<>> ELSE <<tcp_rst(m.ackno, m.seq + TCPLEN(m))>>)
    [] p.state = "TIME_WAIT" -> With(c, tcp_timewait_input(p, m))
    [] OTHER -> Processed(p, c, tcp_process(p, m, mem), mem)

\* Whether the call asks for memory: to queue a segment that is early, or in
\* the sent callback.
NeedsMemory(m) == tcp_input(pcb, conn, m, TRUE) # tcp_input(pcb, conn, m, FALSE)

Input == \E mem \in BOOLEAN :
  /\ toPcb # <<>> /\ Memory(mem)
  /\ ~mem => NeedsMemory(toPcb[1])
  /\ \E x \in {tcp_input(pcb, conn, toPcb[1], mem)} :
       pcb' = x.p /\ conn' = x.c /\ toPeer' = toPeer \o x.out
  /\ toPcb' = Tail(toPcb)
  /\ UNCHANGED <<peer, plan>>

-------------------------------------------------------------------------------
(* The application's calls, handled by the tcpip thread.                     *)

Handled(x, mem) ==
  /\ pcb' = x.p /\ conn' = x.c /\ Sends(x.out) /\ Memory(mem)
  /\ UNCHANGED <<peer, plan>>

Idle == conn.attached /\ conn.op = "none"

Connect ==
  /\ conn = NoConn
  /\ \E r \in {tcp_connect} : pcb' = r.p /\ Sends(r.out)
  /\ conn' = [conn EXCEPT !.attached = TRUE, !.op = "connect"]
  /\ UNCHANGED <<peer, plan, faults>>

Write == \E mem \in BOOLEAN :
  /\ Idle /\ CanWrite(pcb) /\ conn.written < plan.out
  /\ ~mem => pcb.snd_buf > 0
  /\ \E x \in {Flushed(do_writemore(pcb, [conn EXCEPT !.op = "write"], mem))} : Handled(x, mem)

\* do_recv tells TCP what the application has taken.
Recv == \E n \in {1, conn.unread} :
  /\ Idle /\ conn.unread > 0
  /\ \E r \in {tcp_recved(pcb, n)} : pcb' = r.p /\ Sends(r.out)
  /\ conn' = [conn EXCEPT !.unread = @ - n]
  /\ UNCHANGED <<peer, plan, faults>>

Drained(drains) ==
  IF drains /\ conn.unread > 0 THEN tcp_recved(pcb, conn.unread) ELSE Done(pcb, <<>>)
FlushedIfClosed(x) == IF x.c.closed THEN Flushed(x) ELSE x

\* do_close drains the mailbox first, unless it is full (sys_mbox_valid).
Close == \E mem \in BOOLEAN, drains \in BOOLEAN :
  /\ Idle /\ CanWrite(pcb) /\ "close" \in plan.ends
  /\ ~drains => conn.unread > 0
  /\ ~mem => pcb.unsent = <<>> /\ pcb.snd_buf > 0
  /\ \E d \in {Drained(drains)} :
     \E x \in {do_close_internal(d.p, [conn EXCEPT !.op = "close", !.unread = 0], mem)} :
     \E y \in {FlushedIfClosed(Also(d.out, x))} : Handled(y, mem)

-------------------------------------------------------------------------------
(* The timers (tcp.c).  An expiry while packets are under way is a fault.    *)

Quiet == toPeer \o toPcb = <<>>
Early == IF Quiet THEN UNCHANGED faults ELSE Fault

\* What a tick does, the times "due" having come.
Polled(r, due) ==
  CASE r.p.state = "CLOSED" -> State(r.p, Errored(conn), r.out)
    [] r.p.state \in Open /\ due = {"poll"} -> Flushed(Continue(r.p, conn, TRUE))
    [] OTHER -> State(r.p, conn, r.out)
Ticked(due) == Polled(tcp_slowtmr(pcb, due), due)

\* An expiry that does something.
Due(due) == pcb.state # "CLOSED" /\ Ticked(due) # State(pcb, conn, <<>>)

SlowTimer(due) ==
  /\ Early /\ Due(due)
  /\ \E x \in {Ticked(due)} : pcb' = x.p /\ conn' = x.c /\ toPeer' = toPeer \o x.out
  /\ UNCHANGED <<peer, toPcb, plan>>

FastTimer ==
  /\ pcb.state \in Open /\ pcb.ACK_DELAY
  /\ \E r \in {tcp_fasttmr(pcb)} : pcb' = r.p /\ Sends(r.out)
  /\ UNCHANGED <<conn, peer, plan, faults>>

-------------------------------------------------------------------------------
(* The peer: takes what is in order, acknowledges every segment, reads when  *)
(* it likes and tells so.                                                    *)

Rcv(q) == 1 + Len(q.got) + (IF q.eof THEN 1 ELSE 0)
PeerSeg(q, s) == Packet(s, TRUE, Rcv(q), PeerBuf - q.unread, FALSE)
PeerRst(seq, ackno) == Packet(Seg(seq, <<>>, FALSE, FALSE), TRUE, ackno, 0, TRUE)
PeerSyn == Seg(0, <<>>, TRUE, FALSE)
PeerAck(q) == PeerSeg(q, Seg(q.nxt, <<>>, FALSE, FALSE))

\* The segment of its stream from seq on, n units and perhaps the FIN.
Stream(seq, n, fin) == Seg(seq, [i \in 1..n |-> seq + i - 1], FALSE, fin)

Accepted(m) ==
  LET fresh == IF m.seq <= Rcv(peer) THEN SubSeq(m.data, Rcv(peer) - m.seq + 1, Len(m.data))
               ELSE <<>>
      taken == SubSeq(fresh, 1, Min({Len(fresh), PeerBuf - peer.unread}))
      to == Rcv(peer) + Len(taken)
  IN  [peer EXCEPT !.una = IF m.ackno \in @ + 1..peer.nxt THEN m.ackno ELSE @,
                   !.edge = Max({@, m.ackno + m.wnd}),
                   !.got = @ \o taken, !.unread = @ + Len(taken),
                   !.eof = @ \/ (m.fin /\ to = DataEnd(m))]

PeerInput ==
  /\ toPeer # <<>>
  /\ LET m == toPeer[1]
         answer(q, out) == peer' = q /\ toPeer' = Tail(toPeer) /\ toPcb' = toPcb \o out
         take(q) == answer(q, IF TCPLEN(m) > 0 THEN <<PeerAck(q)>> ELSE <<>>)
         opened == [peer EXCEPT !.state = "open", !.nxt = 1, !.edge = 1 + m.wnd]
     IN  CASE m.rst -> answer([peer EXCEPT !.state =
                         IF @ = "open" /\ m.seq \in Rcv(peer)..Rcv(peer) + PeerBuf THEN "dead" ELSE @], <<>>)
           [] ~m.rst /\ m.syn /\ peer.state # "dead" ->
                IF peer.state = "listen" \/ peer.una = 0
                  THEN answer(IF peer.state = "listen" THEN opened ELSE peer,
                              <<PeerSeg(peer, PeerSyn)>>)
                  ELSE answer(peer, <<PeerAck(peer)>>)
           [] ~m.rst /\ ~m.syn /\ peer.state = "open" ->
                \E q \in {Accepted(m)} : take(q)
           [] OTHER -> answer(peer, <<PeerRst(m.ackno, End(m))>>)
  /\ UNCHANGED <<pcb, conn, plan, faults>>

PeerSends(s) ==
  /\ peer.state = "open"
  /\ Answers(<<PeerSeg(peer, s)>>)
  /\ peer' = [peer EXCEPT !.nxt = Max({@, End(s)}), !.fin = @ \/ s.fin]
  /\ UNCHANGED <<pcb, conn, plan, faults>>

PeerSend == \E n \in 0..Mss, fin \in BOOLEAN :
  /\ peer.una >= 1 /\ ~peer.fin /\ (n > 0 \/ fin)
  /\ peer.nxt + n - 1 <= plan.in /\ (fin => "fin" \in plan.ends /\ peer.nxt + n - 1 = plan.in)
  /\ peer.nxt + n <= peer.edge
  /\ PeerSends(Stream(peer.nxt, n, fin))

PeerProbe ==
  /\ toPeer \o toPcb = <<>> /\ peer.una = peer.nxt /\ peer.nxt >= peer.edge /\ peer.nxt <= plan.in
  /\ PeerSends(Stream(peer.nxt, 1, FALSE))

PeerRetransmit == \E n \in 0..Mss :
  /\ peer.una < peer.nxt
  /\ LET all == peer.nxt - peer.una - (IF peer.fin THEN 1 ELSE 0)
         s == Stream(peer.una, n, peer.fin /\ n = all)
     IN  /\ n <= all /\ (peer.una > 0 => TCPLEN(s) > 0)
         /\ IF peer.una = 0 THEN n = 0 /\ toPcb' = Append(toPcb, PeerSeg(peer, PeerSyn))
                           ELSE toPcb' = Append(toPcb, PeerSeg(peer, s))
  /\ peer.state = "open" /\ Early /\ UNCHANGED <<pcb, conn, peer, toPeer, plan>>

PeerRead ==
  /\ peer.state = "open" /\ peer.unread > 0
  /\ peer' = [peer EXCEPT !.unread = 0]
  /\ Answers(<<PeerAck(peer')>>)
  /\ UNCHANGED <<pcb, conn, plan, faults>>

PeerAbort ==
  /\ peer.state = "open" /\ "reset" \in plan.ends /\ Fault
  /\ peer' = [peer EXCEPT !.state = "dead"]
  /\ toPcb' = Append(toPcb, PeerRst(peer.nxt, Rcv(peer)))
  /\ UNCHANGED <<pcb, conn, toPeer, plan>>

-------------------------------------------------------------------------------
Times == {{}, {"rexmit"}, {"probe"}, {"ooseq"}, {"wait"}, {"poll"}}

Next ==
  \/ Connect \/ Write \/ Recv \/ Close
  \/ Input
  \/ FastTimer
  \/ \E due \in Times : SlowTimer(due)
  \/ PeerInput \/ PeerSend \/ PeerProbe \/ PeerRetransmit \/ PeerRead \/ PeerAbort
  \/ Disturb

Spec == Init /\ [][Next]_vars

\* The network and the two ends take what is under way, the peer reads, and
\* the slow timer, which counts whether or not packets come, has its effect
\* if again and again there is one to have and nothing is under way.  The
\* application promises nothing.
PcbTakes == toPcb # <<>> /\ toPcb' = Tail(toPcb)
PeerTakes == toPeer # <<>> /\ toPeer' = Tail(toPeer)
Clock == \E due \in Times : SlowTimer(due)
Fairness ==
  /\ WF_toPcb(PcbTakes) /\ WF_toPeer(PeerTakes) /\ WF_vars(PeerRead)
  /\ []<>(Quiet /\ \E due \in Times : Due(due)) => []<><<Clock>>_vars

FairSpec == Spec /\ Fairness

-------------------------------------------------------------------------------
(* Properties.                                                               *)

\* Between two steps the windows are what the assertions of tcp_receive and
\* tcp_recved promise; with a FIN beyond the window rcv_wnd wraps and is put
\* right within tcp_input, but the window announced stays.
\* The acknowledgement of the FIN gives its number back to snd_buf too.
TypeOK ==
  /\ pcb.state \in Open \cup {"CLOSED", "SYN_SENT", "TIME_WAIT"}
  /\ pcb.snd_buf \in 0..TCP_SND_BUF + 1 /\ pcb.snd_wnd \in 0..Max({PeerBuf, TCP_WND})
  /\ pcb.rcv_wnd \in 0..TCP_WND
  /\ pcb.rcv_ann_wnd \in 0..TCP_WND \/ (conn.eof /\ pcb.rcv_ann_wnd = 65535)
  /\ pcb.cwnd \in {1, Mss, 2 * Mss} /\ pcb.dupacks \in 0..4 /\ pcb.nrtx \in Nat
  /\ conn.op \in {"none", "connect", "write", "close"} /\ conn.unread \in 0..TCP_WND
  /\ peer.state \in {"listen", "open", "dead"} /\ peer.unread \in 0..PeerBuf
  /\ plan \in Plans /\ faults \in 0..plan.faults

\* Whatever the network does, the application gets what the peer has sent,
\* in order, once, from the first unit on; the end of the stream is told
\* after all of it (tcp_receive with ooseq).
ReceivedWhole ==
  /\ \A i \in 1..Len(conn.given) : conn.given[i] = i
  /\ Len(conn.given) < Max({peer.nxt, 1})
  /\ conn.eof => peer.fin /\ Len(conn.given) = plan.in

\* The peer gets what the application has written, in order and once (the
\* segments tcp_write, tcp_output and the retransmissions make).
SentWhole ==
  /\ \A i \in 1..Len(peer.got) : peer.got[i] = i
  /\ Len(peer.got) <= conn.written

\* "The callback function that should be called when data has successfully
\* been received (i.e., acknowledged) by the remote host" (rawapi.txt,
\* tcp_sent): a unit whose number is acknowledged is one the peer has.
SentArrived ==
  \A i \in 1..Min({pcb.lastack - 1, conn.written}) :
    i <= Len(peer.got) /\ peer.got[i] = i

\* Every number from the first unacknowledged one to the last one written is
\* held by exactly one segment of unacked or unsent, whatever retransmission
\* moved between the two, the queues are in order, and the space of the send
\* buffer is what they leave (snd_buf in tcp_write and tcp_receive).
QueuesHold ==
  LET queued == ToSet(pcb.unacked \o pcb.unsent)
      holds(s, n) == s.seq <= n /\ n < End(s)
  IN  pcb.state \in Open =>
        /\ Ordered(pcb.unsent) /\ Ordered(pcb.unacked) /\ Ordered(pcb.ooseq)
        /\ \A n \in pcb.lastack..pcb.snd_lbb - 1 :
             Cardinality({s \in queued : holds(s, n)}) = 1

\* The sending side, as far as nothing more has been lost than the queues
\* withstand (see SentArrived's run).
SentSound == SentWhole /\ SentArrived /\ QueuesHold

\* Until the end of the stream is told the window announced never goes beyond
\* what can be taken, and what can be taken is always what the application has
\* not yet to read (rcv_wnd in tcp_receive, tcp_recved and tcp_input).
WindowHeld ==
  /\ (pcb.state \in Open /\ ~conn.eof) => pcb.rcv_ann_right_edge <= pcb.rcv_nxt + pcb.rcv_wnd
  /\ (pcb.state \in Open /\ ~pcb.RXCLOSED) => pcb.rcv_wnd = TCP_WND - conn.unread

\* Whatever acknowledgements come, late, twice or after a retransmission, the
\* send buffer has the room that what is written and not acknowledged leaves,
\* and nothing is acknowledged or sent that was not written (snd_buf and
\* lastack in tcp_receive, tcp_write and tcp_process).
RoomHeld ==
  /\ pcb.state \in Open =>
       /\ pcb.snd_buf = TCP_SND_BUF - (pcb.snd_lbb - pcb.lastack)
       /\ pcb.lastack <= pcb.snd_nxt /\ pcb.snd_nxt <= pcb.snd_lbb + (IF pcb.FIN THEN 1 ELSE 0)

\* The control block in every step: its types, both windows.
PcbSound == TypeOK /\ WindowHeld /\ RoomHeld

\* "The pcb is then automatically freed in tcp_slowtmr()" (tcp.c, tcp_close):
\* not under tcp_input, which goes on using it.
FreedInTimer == conn.used = "none"

\* Only the segment that brings the peer's FIN can make a waiting close give
\* the block back under tcp_input: any other leaves the window whole.
FreedOnlyByFin == conn.used # "more"

Dead == pcb.state = "CLOSED" \/ peer.state = "dead"

\* The window is not zero, so that the persist timer is off, but too small
\* for the first segment, and nothing under way brings an answer.
SmallWindow ==
  /\ pcb.unacked = <<>> /\ pcb.unsent # <<>> /\ ~pcb.persist
  /\ pcb.snd_wnd > 0 /\ ~Fits(pcb, pcb.unsent[1])

\* Everything written has arrived, or the connection is lost, or the window
\* is small; and a block the application has closed has been given back.
Settled == Len(peer.got) = conn.written \/ Dead \/ SmallWindow
GivenBack == pcb.state = "CLOSED" \/ conn.attached

\* A behaviour never stays in between: a lost segment, acknowledgement or
\* window update is made good by tcp_slowtmr.  What is written is bounded, so
\* that a unit that never arrives would keep Settled false for ever.
NeverStuck == []<>Settled /\ []<>GivenBack
===============================================================================
