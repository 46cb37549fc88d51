-------------------------------- MODULE TcpPcb --------------------------------
(* What lwIP's TCP does with the control block of a client's connection:     *)
(* tcp.c, tcp_in.c and tcp_out.c as the board configures them (lwipopts.h).  *)
(* A control block is a record; every operator takes one and returns the     *)
(* record after the call, with the packets it sends ("out").  Times are     *)
(* left to the module that extends this one: whether a timer runs is kept,   *)
(* how long it has run is not.  lwipopts.h makes the send buffer and the     *)
(* receive window two segments, so that a congestion window of two segments  *)
(* or more does not limit and ssthresh, never below two segments, is the     *)
(* same: cwnd is 1, Mss or 2 * Mss.  A segment for which there is no memory  *)
(* is a segment lost; the pbuf limit TCP_SND_QUEUELEN is not reached.        *)
EXTENDS TcpSegments, FiniteSetsExt

CONSTANTS
  Mss,         \* units of a full segment
  PeerBuf,     \* the peer's window when its buffer is empty
  MaxRtx,      \* TCP_MAXRTX
  SynMaxRtx    \* TCP_SYNMAXRTX

ASSUME MssAssumption == Mss \in Nat \ {0} /\ 2 * Mss < 65536
ASSUME PeerBufAssumption == PeerBuf \in Nat /\ PeerBuf >= 2
ASSUME RtxAssumption == MaxRtx \in Nat \ {0} /\ SynMaxRtx \in 1..MaxRtx

TCP_WND == 2 * Mss
TCP_SND_BUF == 2 * Mss

\* rcv_wnd is a u16_t.
U16(n) == n % 65536

\* tcp_write makes no segment of more than half the peer's largest window.
MssLocal == Min({Mss, PeerBuf \div 2})

\* A pcb that tcp_alloc has made, or a block given back.
NoPcb ==
  [ state |-> "CLOSED", unsent |-> <<>>, unacked |-> <<>>, ooseq |-> <<>>,
    snd_nxt |-> 1, snd_lbb |-> 0, lastack |-> 0, snd_buf |-> TCP_SND_BUF,
    snd_wnd |-> TCP_WND, snd_wl1 |-> 0, snd_wl2 |-> 0, cwnd |-> 1,
    dupacks |-> 0, nrtx |-> 0, rtime |-> FALSE, persist |-> FALSE,
    rcv_nxt |-> 0, rcv_wnd |-> TCP_WND, rcv_ann_wnd |-> TCP_WND,
    rcv_ann_right_edge |-> 0,
    ACK_DELAY |-> FALSE, ACK_NOW |-> FALSE, INFR |-> FALSE,
    RXCLOSED |-> FALSE, FIN |-> FALSE, NAGLEMEMERR |-> FALSE ]

\* States in which the connection is synchronized and not yet in TIME_WAIT,
\* and those in which segment text is taken (pcb->state < CLOSE_WAIT).
Open == {"ESTABLISHED", "FIN_WAIT_1", "FIN_WAIT_2", "CLOSE_WAIT", "CLOSING", "LAST_ACK"}
Taking == {"ESTABLISHED", "FIN_WAIT_1", "FIN_WAIT_2"}

Packet(s, ack, ackno, wnd, rst) ==
  [seq |-> s.seq, data |-> s.data, syn |-> s.syn, fin |-> s.fin,
   rst |-> rst, ack |-> ack, ackno |-> ackno, wnd |-> wnd]

\* A segment with the acknowledgement and the window of the moment.
Stamped(p, s) == Packet(s, p.state # "SYN_SENT", p.rcv_nxt, p.rcv_ann_wnd, FALSE)

tcp_rst(seqno, ackno) ==
  Packet(Seg(seqno, <<>>, FALSE, FALSE), TRUE, ackno, TCP_WND, TRUE)

Done(p, out) == [p |-> p, out |-> out]

Announced(p) == [p EXCEPT !.rcv_ann_right_edge = p.rcv_nxt + p.rcv_ann_wnd]

tcp_ack_now(p) == [p EXCEPT !.ACK_NOW = TRUE]
tcp_ack(p) == IF p.ACK_DELAY THEN [p EXCEPT !.ACK_DELAY = FALSE, !.ACK_NOW = TRUE]
                             ELSE [p EXCEPT !.ACK_DELAY = TRUE]

tcp_send_empty_ack(p) ==
  Done([Announced(p) EXCEPT !.ACK_DELAY = FALSE, !.ACK_NOW = FALSE],
       <<Stamped(p, Seg(p.snd_nxt, <<>>, FALSE, FALSE))>>)

-------------------------------------------------------------------------------
(* Output.                                                                   *)

Fits(p, s) == s.seq - p.lastack + Len(s.data) <= Min({p.snd_wnd, p.cwnd})

\* Nagle's algorithm for the i-th unsent segment, those before it being sent.
tcp_do_output_nagle(p, i) ==
  \/ i = 1 /\ p.unacked = <<>>
  \/ p.INFR
  \/ i < Len(p.unsent) \/ Len(p.unsent[i].data) >= Mss
  \/ p.snd_buf = 0

\* The unsent segments that may go now.
Sendable(p) ==
  SubSeq(p.unsent, 1,
    Run({i \in 1..Len(p.unsent) :
           /\ Fits(p, p.unsent[i])
           /\ tcp_do_output_nagle(p, i) \/ p.NAGLEMEMERR \/ p.FIN},
        Len(p.unsent)))

\* The loop of tcp_output puts them on unacked one by one.
Placed(q, sent) ==
  LET after[i \in 0..Len(sent)] == IF i = 0 THEN q ELSE Place(after[i - 1], sent[i])
  IN  after[Len(sent)]

tcp_output_segments(p, sent) ==
  IF sent = <<>> THEN Done([p EXCEPT !.NAGLEMEMERR = FALSE], <<>>)
  ELSE Done([Announced(p) EXCEPT
               !.unsent = After(@, Len(sent)),
               !.unacked = Placed(@, sent),
               !.snd_nxt = Max({@} \cup {End(s) : s \in ToSet(sent)}),
               !.NAGLEMEMERR = FALSE, !.rtime = TRUE,
               !.ACK_DELAY = @ /\ p.state = "SYN_SENT",
               !.ACK_NOW = @ /\ p.state = "SYN_SENT"],
            [i \in 1..Len(sent) |-> Stamped(p, sent[i])])

tcp_output(p) ==
  IF p.ACK_NOW /\ (p.unsent = <<>> \/ ~Fits(p, p.unsent[1]))
    THEN tcp_send_empty_ack(p)
    ELSE tcp_output_segments(p, Sendable(p))

\* What a call sends after packets it has sent already.
Also(out, r) == [r EXCEPT !.out = out \o @]
OutputAfter(r) == Also(r.out, tcp_output(r.p))

\* A unit of data is put on the last unsent segment if there is room, else
\* in a segment of its own; memory may fail, which only switches Nagle off.
CanWrite(p) == p.state \in {"ESTABLISHED", "CLOSE_WAIT"}
Longer(s, unit) == [s EXCEPT !.data = Append(@, unit)]
Written(q, unit, seqno) ==
  IF q # <<>> /\ Len(Last(q).data) \in 1..MssLocal - 1
    THEN [q EXCEPT ![Len(q)] = Longer(Last(q), unit)]
    ELSE Append(q, Seg(seqno, <<unit>>, FALSE, FALSE))
tcp_write(p, unit, mem) ==
  IF ~mem THEN [p EXCEPT !.NAGLEMEMERR = TRUE]
  ELSE [p EXCEPT !.unsent = Written(@, unit, p.snd_lbb),
                 !.snd_lbb = @ + 1, !.snd_buf = @ - 1]

\* A SYN or a FIN in a segment of its own.
tcp_enqueue_flags(p, syn, fin) ==
  [p EXCEPT !.unsent = Append(@, Seg(p.snd_lbb, <<>>, syn, fin)),
            !.snd_lbb = @ + 1, !.snd_buf = @ - 1, !.FIN = @ \/ fin]

\* The FIN goes on the last unsent segment if there is one.
tcp_send_fin(p) ==
  IF p.unsent # <<>>
    THEN [p EXCEPT !.unsent[Len(p.unsent)].fin = TRUE, !.FIN = TRUE]
    ELSE tcp_enqueue_flags(p, FALSE, TRUE)

-------------------------------------------------------------------------------
(* Retransmission.                                                           *)

tcp_rexmit_rto(p) ==
  tcp_output([p EXCEPT !.unsent = p.unacked \o @, !.unacked = <<>>, !.nrtx = @ + 1])

\* Called from tcp_receive: the segment is sent at the end of tcp_input.
tcp_rexmit(p) ==
  [p EXCEPT !.unsent = InsertSorted(@, p.unacked[1]), !.unacked = Tail(@), !.nrtx = @ + 1]

tcp_rexmit_fast(p) ==
  IF p.unacked = <<>> \/ p.INFR THEN p
  ELSE [tcp_rexmit(p) EXCEPT !.cwnd = 2 * Mss, !.INFR = TRUE]

\* One byte, or the FIN, of the oldest segment.
Probe(s) == Seg(s.seq, SubSeq(s.data, 1, Min({1, Len(s.data)})), FALSE, s.fin /\ s.data = <<>>)
tcp_zero_window_probe(p) ==
  IF p.unacked \o p.unsent = <<>> THEN Done(p, <<>>)
  ELSE Done(Announced(p), <<Stamped(p, Probe((p.unacked \o p.unsent)[1]))>>)

-------------------------------------------------------------------------------
(* The receive window.                                                       *)

\* Whether the window may be announced larger, and what is announced then.
Widens(p) == p.rcv_nxt + p.rcv_wnd >= p.rcv_ann_right_edge + Min({TCP_WND \div 2, Mss})
tcp_update_rcv_ann_wnd(p) ==
  [p EXCEPT !.rcv_ann_wnd = IF Widens(p) THEN p.rcv_wnd
                            ELSE Max({0, p.rcv_ann_right_edge - p.rcv_nxt})]

Reopened(p) ==
  IF Widens(p) /\ p.rcv_nxt + p.rcv_wnd - p.rcv_ann_right_edge >= TCP_WND \div 4
    THEN tcp_output(tcp_ack_now(tcp_update_rcv_ann_wnd(p)))
    ELSE Done(tcp_update_rcv_ann_wnd(p), <<>>)
tcp_recved(p, len) == Reopened([p EXCEPT !.rcv_wnd = Min({@ + len, TCP_WND})])

-------------------------------------------------------------------------------
(* tcp_receive: first what the segment acknowledges, then what it brings.    *)

Newer(p, m) ==
  \/ p.snd_wl1 < m.seq
  \/ p.snd_wl1 = m.seq /\ p.snd_wl2 < m.ackno
  \/ p.snd_wl2 = m.ackno /\ m.wnd > p.snd_wnd

\* Wrong variant: a window of zero starts no persist timer.
WindowOnly(p, m) ==
  IF Newer(p, m) THEN [p EXCEPT !.snd_wnd = m.wnd, !.snd_wl1 = m.seq, !.snd_wl2 = m.ackno] ELSE p

UpdateWindow(p, m) ==
  IF Newer(p, m)
    THEN [p EXCEPT !.snd_wnd = m.wnd, !.snd_wl1 = m.seq, !.snd_wl2 = m.ackno,
                   !.persist = (m.wnd = 0)]
    ELSE p

\* The counter matters up to four.
Duplicates(p, n) ==
  CASE n > 3 -> [p EXCEPT !.dupacks = n, !.cwnd = 2 * Mss]
    [] n = 3 -> tcp_rexmit_fast([p EXCEPT !.dupacks = n])
    [] OTHER -> [p EXCEPT !.dupacks = n]
DuplicateAck(p) == Duplicates(p, Min({p.dupacks + 1, 4}))

NewAck(p, ackno, left) ==
  [p EXCEPT !.INFR = FALSE, !.nrtx = 0, !.dupacks = 0, !.cwnd = 2 * Mss,
            !.snd_buf = @ + (ackno - p.lastack), !.lastack = ackno,
            !.unacked = left, !.rtime = left # <<>>]

\* The right edge of the window the peer has given.
Edge(p) == p.snd_wl2 + p.snd_wnd

\* "edge": where it was before this segment.
Acked(p, m, edge) ==
  CASE m.ackno <= p.lastack ->
         IF TCPLEN(m) = 0 /\ Edge(p) = edge /\ p.rtime /\ m.ackno = p.lastack
           THEN DuplicateAck(p) ELSE [p EXCEPT !.dupacks = 0]
    [] m.ackno \in p.lastack + 1..p.snd_nxt ->
         NewAck(p, m.ackno, FreeUpTo(p.unacked, m.ackno))
    [] OTHER -> p

\* What a retransmission had put back on unsent may be acknowledged too.
UnsentAcked(p, ackno) ==
  IF ackno <= p.snd_nxt THEN [p EXCEPT !.unsent = FreeUpTo(@, ackno)] ELSE p

Acknowledge(p, m) == UnsentAcked(Acked(UpdateWindow(p, m), m, Edge(p)), m.ackno)

\* Data beyond the window is cut off, with the FIN.
Limit(s, wnd) ==
  IF TCPLEN(s) <= wnd THEN s
  ELSE [s EXCEPT !.fin = FALSE, !.data = SubSeq(@, 1, Min({Len(@), wnd}))]

\* What a segment did and brought; "over": tcp_input gives the pcb back.
Brought(r, data, fin) ==
  [p |-> r.p, out |-> r.out, data |-> data, fin |-> fin, over |-> FALSE]
Kept(p, out) == Brought(Done(p, out), <<>>, FALSE)

\* The FIN of a segment that was early may lie beyond the window, which Limit
\* has not cut: rcv_wnd then wraps, and the widest window is announced.
Taken(p, taken, left) ==
  Brought(Done(tcp_ack(tcp_update_rcv_ann_wnd(
                 [p EXCEPT !.ooseq = left, !.rcv_nxt = End(Last(taken)),
                           !.rcv_wnd = U16(@ - (End(Last(taken)) - p.rcv_nxt))])), <<>>),
          DataOf(taken), Last(taken).fin)
FirstTaken(p, q, k) == Taken(p, SubSeq(q, 1, k), After(q, k))
Deliver(p, q) == FirstTaken(p, q, InSequence(q))
InOrder(p, s) == Deliver(p, InsertOver(Limit(s, p.rcv_wnd), p.ooseq))

\* Where a segment that is early goes on ooseq.
\* "before" and "from": the segments before it, and the others.
Before(before, s) ==
  IF before # <<>> /\ DataEnd(Last(before)) > s.seq
    THEN Append(Front(before), TrimEnd(Last(before), s.seq)) ELSE before
QueueAt(before, from, s, edge) ==
  CASE from # <<>> /\ from[1].seq = s.seq ->
         before \o (IF Len(s.data) > Len(from[1].data) THEN InsertOver(s, from) ELSE from)
    [] from # <<>> /\ from[1].seq # s.seq -> Before(before, s) \o InsertOver(s, from)
    [] from = <<>> /\ before # <<>> ->
         IF Last(before).fin THEN before
         ELSE Append(Before(before, s), Limit(s, edge - s.seq))
    [] OTHER -> <<s>>
Split(q, k, s, edge) == QueueAt(SubSeq(q, 1, k), After(q, k), s, edge)
Queue(q, s, edge) == Split(q, Run({j \in 1..Len(q) : q[j].seq < s.seq}, Len(q)), s, edge)

InWindow(p, seq) == seq \in p.rcv_nxt..p.rcv_nxt + p.rcv_wnd - 1

\* Without what has come before.
FromNext(p, s) == IF s.seq < p.rcv_nxt /\ p.rcv_nxt < End(s) THEN TrimFront(s, p.rcv_nxt) ELSE s

NoText(p, m) == Kept(IF InWindow(p, m.seq) THEN p ELSE tcp_ack_now(p), <<>>)

EarlyText(p, s, mem) ==
  IF mem THEN [p EXCEPT !.ooseq = Queue(@, s, p.rcv_nxt + p.rcv_wnd)] ELSE p

Text(p, s, mem) ==
  IF ~InWindow(p, s.seq) THEN Brought(tcp_send_empty_ack(p), <<>>, FALSE)
  ELSE IF s.seq = p.rcv_nxt THEN InOrder(p, s)
  ELSE Brought(tcp_send_empty_ack(EarlyText(p, s, mem)), <<>>, FALSE)

TextOf(p, m, mem) ==
  IF TCPLEN(m) = 0 \/ p.state \notin Taking THEN NoText(p, m)
  ELSE Text(p, FromNext(p, Seg(m.seq, m.data, FALSE, m.fin)), mem)

tcp_receive(p, m, mem) == TextOf(Acknowledge(p, m), m, mem)

-------------------------------------------------------------------------------
(* tcp_process: the state machine.                                           *)

\* tcp_pcb_purge.
Purged(p) == [p EXCEPT !.unsent = <<>>, !.unacked = <<>>, !.ooseq = <<>>, !.rtime = FALSE]
TimeWait(p) == [Purged(p) EXCEPT !.state = "TIME_WAIT"]

Acceptable(p, m) == IF p.state = "SYN_SENT" THEN m.ackno = p.snd_nxt
                    ELSE m.seq \in p.rcv_nxt..p.rcv_nxt + p.rcv_wnd

\* The answer to a SYN; any other acknowledgement is refused.
SynSent(p, m) ==
  IF m.syn /\ m.ackno = p.unacked[1].seq + 1
    THEN Kept([p EXCEPT !.state = "ESTABLISHED", !.snd_buf = @ + 1,
                        !.rcv_nxt = m.seq + 1, !.rcv_ann_right_edge = m.seq + 1,
                        !.lastack = m.ackno, !.snd_wnd = m.wnd, !.snd_wl1 = m.seq - 1,
                        !.cwnd = IF @ = 1 THEN 2 * Mss ELSE Mss,
                        !.unacked = Tail(@), !.rtime = Tail(p.unacked) # <<>>,
                        !.ACK_NOW = TRUE], <<>>)
    ELSE Kept(p, <<tcp_rst(m.ackno, m.seq + TCPLEN(m))>>)

\* What a segment that brought the peer's FIN, or acknowledged everything
\* that was sent, does to the state.
Changed(r, acked) ==
  LET state == r.p.state
      now == tcp_ack_now(r.p)
  IN  CASE state = "ESTABLISHED" /\ r.fin -> [r EXCEPT !.p = [now EXCEPT !.state = "CLOSE_WAIT"]]
        [] state = "FIN_WAIT_1" /\ r.fin /\ ~acked -> [r EXCEPT !.p = [now EXCEPT !.state = "CLOSING"]]
        [] state = "FIN_WAIT_1" /\ r.fin /\ acked -> [r EXCEPT !.p = TimeWait(now)]
        [] state = "FIN_WAIT_1" /\ ~r.fin /\ acked -> [r EXCEPT !.p.state = "FIN_WAIT_2"]
        [] state = "FIN_WAIT_2" /\ r.fin -> [r EXCEPT !.p = TimeWait(now)]
        [] state = "CLOSING" /\ acked -> [r EXCEPT !.p = TimeWait(@)]
        [] state = "LAST_ACK" /\ acked -> [r EXCEPT !.over = TRUE]
        [] OTHER -> r

tcp_process(p, m, mem) ==
  IF m.rst THEN [Kept(p, <<>>) EXCEPT !.over = Acceptable(p, m)]
  ELSE IF p.state = "SYN_SENT" THEN SynSent(p, m)
  ELSE IF m.syn THEN Kept(tcp_ack_now(p), <<>>)
  ELSE Changed(tcp_receive(p, m, mem), m.ackno = p.snd_nxt)

\* A segment for a connection in TIME_WAIT.
tcp_timewait_input(p, m) ==
  IF m.rst THEN Done(p, <<>>)
  ELSE IF m.syn /\ m.seq \in p.rcv_nxt..p.rcv_nxt + p.rcv_wnd
    THEN Done(p, <<tcp_rst(m.ackno, m.seq + TCPLEN(m))>>)
  ELSE IF TCPLEN(m) > 0 THEN tcp_output(tcp_ack_now(p)) ELSE Done(p, <<>>)

-------------------------------------------------------------------------------
(* Opening, closing and the timers.                                          *)

\* iss is 1: the SYN takes number 0, the k-th unit of data number k.
tcp_connect == tcp_output([tcp_enqueue_flags(NoPcb, TRUE, FALSE) EXCEPT !.state = "SYN_SENT"])

\* "ok" unless tcp_close returns ERR_MEM.  The caller sends the FIN.
Closed(p, out, ok) == [p |-> p, out |-> out, ok |-> ok]
tcp_close(p, mem) ==
  LET c == [p EXCEPT !.RXCLOSED = TRUE]
      rst == <<tcp_rst(p.snd_nxt, p.rcv_nxt)>>
      fin(to) == IF p.unsent # <<>> \/ (p.snd_buf > 0 /\ mem)
                   THEN Closed([tcp_send_fin(c) EXCEPT !.state = to], <<>>, TRUE)
                   ELSE Closed(c, <<>>, FALSE)
  IN  CASE p.state = "ESTABLISHED" /\ p.rcv_wnd # TCP_WND -> Closed(TimeWait(c), rst, TRUE)
        [] p.state = "CLOSE_WAIT" /\ p.rcv_wnd # TCP_WND -> Closed(NoPcb, rst, TRUE)
        [] p.state = "ESTABLISHED" /\ p.rcv_wnd = TCP_WND -> fin("FIN_WAIT_1")
        [] p.state = "CLOSE_WAIT" /\ p.rcv_wnd = TCP_WND -> fin("LAST_ACK")

\* tcp_abort.
tcp_abort(p) ==
  Done(NoPcb, IF p.state = "TIME_WAIT" THEN <<>> ELSE <<tcp_rst(p.snd_nxt, p.rcv_nxt)>>)

\* One call of tcp_slowtmr before its poll callback; "due" are the times that
\* have come.  The pcb is removed, or its timers have run.
Removed(p, due) ==
  \/ p.nrtx = MaxRtx /\ p.state # "TIME_WAIT"
  \/ p.nrtx = SynMaxRtx /\ p.state = "SYN_SENT"
  \/ "wait" \in due /\ \/ p.state \in {"LAST_ACK", "TIME_WAIT"}
                       \/ p.state = "FIN_WAIT_2" /\ p.RXCLOSED

Timed(p, due) ==
  CASE "probe" \in due /\ p.persist -> tcp_zero_window_probe(p)
    [] "rexmit" \in due /\ ~p.persist /\ p.unacked # <<>> /\ p.rtime ->
         tcp_rexmit_rto([p EXCEPT !.cwnd = Mss])
    [] OTHER -> Done(p, <<>>)

Emptied(p, due) == IF "ooseq" \in due THEN [p EXCEPT !.ooseq = <<>>] ELSE p

tcp_slowtmr(p, due) ==
  IF p.state = "CLOSED" THEN Done(p, <<>>)
  ELSE IF Removed(p, due) THEN Done(NoPcb, <<>>)
  ELSE IF p.state = "TIME_WAIT" THEN Done(p, <<>>)
  ELSE Timed(Emptied(p, due), due)

tcp_fasttmr(p) ==
  IF p.ACK_DELAY
    THEN [tcp_output(tcp_ack_now(p)) EXCEPT !.p.ACK_DELAY = FALSE, !.p.ACK_NOW = FALSE]
    ELSE Done(p, <<>>)
===============================================================================
