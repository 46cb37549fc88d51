-------------------------- MODULE TcpConnectionProofs --------------------------
(* The connection for any segment size, any peer's buffer, any limits of     *)
(* retransmission and any plan: what TCP gives the application is what the   *)
(* peer has sent, the windows hold, and a close that waits gives the block   *)
(* back under tcp_input only with the peer's FIN.                            *)
EXTENDS TcpConnection, FiniteSetTheorems, WellFoundedInduction, SequenceTheorems, TLAPS

Segs == [seq : Nat, data : Seq(Nat), syn : BOOLEAN, fin : BOOLEAN]
Packets == [seq : Nat, data : Seq(Nat), syn : BOOLEAN, fin : BOOLEAN,
            rst : BOOLEAN, ack : BOOLEAN, ackno : Nat, wnd : Nat]
States == Open \cup {"CLOSED", "SYN_SENT", "TIME_WAIT"}
Pcbs ==
  [ state : States, unsent : Seq(Segs), unacked : Seq(Segs), ooseq : Seq(Segs),
    snd_nxt : Nat, snd_lbb : Nat, lastack : Nat, snd_buf : Nat,
    snd_wnd : 0..Max({PeerBuf, TCP_WND}), snd_wl1 : Int, snd_wl2 : Int,
    cwnd : {1, Mss, 2 * Mss}, dupacks : 0..4, nrtx : Nat, rtime : BOOLEAN, persist : BOOLEAN,
    rcv_nxt : Nat, rcv_wnd : Nat, rcv_ann_wnd : Nat, rcv_ann_right_edge : Nat,
    ACK_DELAY : BOOLEAN, ACK_NOW : BOOLEAN, INFR : BOOLEAN,
    RXCLOSED : BOOLEAN, FIN : BOOLEAN, NAGLEMEMERR : BOOLEAN ]
Conns ==
  [ attached : BOOLEAN, op : {"none", "connect", "write", "close"}, written : Nat,
    given : Seq(Nat), unread : 0..TCP_WND, eof : BOOLEAN, closed : BOOLEAN,
    err : BOOLEAN, used : {"none", "fin", "more"} ]
Peers ==
  [ state : {"listen", "open", "dead"}, got : Seq(Nat), eof : BOOLEAN, unread : 0..PeerBuf,
    una : Nat, nxt : Nat, fin : BOOLEAN, edge : Nat ]

Types ==
  /\ pcb \in Pcbs /\ conn \in Conns /\ peer \in Peers
  /\ toPeer \in Seq(Packets) /\ toPcb \in Seq(Packets)
  /\ plan \in Plans /\ faults \in 0..plan.faults

-----------------------------------------------------------------------------
(* What the peer has sent.  q is the peer, n the units it may send.          *)

Piece(s, q, n) ==
  /\ ~s.syn /\ s.seq >= 1
  /\ \A i \in 1..Len(s.data) : s.data[i] = s.seq + i - 1
  /\ DataEnd(s) <= n + 1 /\ DataEnd(s) <= q.nxt
  /\ s.fin => q.fin /\ DataEnd(s) = n + 1

\* Where its numbers end, the FIN's left out.
DataNxt(q) == q.nxt - (IF q.fin THEN 1 ELSE 0)
PeerOK(q, n) ==
  /\ q.una <= q.nxt
  /\ IF q.fin THEN q.nxt = n + 2 ELSE q.nxt <= n + 1
  /\ DataNxt(q) <= q.edge \/ q.una >= DataNxt(q) - 1
  /\ q.state = "listen" => q = Listening
  /\ q.state = "open" => q.nxt >= 1

\* A packet on its way to the board.
Sound(m, q, n) ==
  /\ m.wnd <= PeerBuf
  /\ m.syn => m.seq = 0 /\ m.data = <<>> /\ ~m.fin
  /\ ~m.rst /\ ~m.syn /\ TCPLEN(m) > 0 =>
       Piece(m, q, n) /\ (DataEnd(m) <= q.edge \/ Len(m.data) <= 1)
PacketsSound(pk, q, n) == \A i \in 1..Len(pk) : Sound(pk[i], q, n)

-----------------------------------------------------------------------------
(* The receiving side of the control block.                                  *)

Right(p) == p.rcv_nxt + p.rcv_wnd

\* Segments that do not overlap.
Chain(o) == \A i, j \in 1..Len(o) : i < j => End(o[i]) <= o[j].seq
Pieces(o, q, n) == \A i \in 1..Len(o) : Piece(o[i], q, n) /\ TCPLEN(o[i]) > 0
Fine(o, q, n, from, to) ==
  /\ o \in Seq(Segs) /\ Chain(o) /\ Pieces(o, q, n)
  /\ \A i \in 1..Len(o) : o[i].seq >= from /\ DataEnd(o[i]) <= to

Waiting(p, q, n) == Fine(p.ooseq, q, n, p.rcv_nxt + 1, Right(p))

\* What was announced, e being whether the end of the stream was told.
Wide == 65535
AnnOK(p, e) ==
  /\ p.rcv_ann_right_edge <= Right(p) \/ (e /\ p.rcv_ann_right_edge = p.rcv_nxt + Wide)
  /\ p.rcv_ann_wnd <= p.rcv_wnd \/ (e /\ p.rcv_ann_wnd = Wide)

Synchronized == Open \cup {"TIME_WAIT"}
RcvOK(p, c, q, n) ==
  /\ p.state \in Taking => p.rcv_nxt = 1 + Len(c.given) /\ ~c.eof /\ Waiting(p, q, n)
  /\ p.state \in Synchronized => p.rcv_wnd <= TCP_WND /\ AnnOK(p, c.eof)
  /\ p.state \in Open => p.rcv_wnd = IF p.RXCLOSED THEN TCP_WND ELSE TCP_WND - c.unread

StreamOK(c, q, n) ==
  /\ \A i \in 1..Len(c.given) : c.given[i] = i
  /\ Len(c.given) = 0 \/ Len(c.given) < q.nxt
  /\ c.eof => q.fin /\ Len(c.given) = n

-----------------------------------------------------------------------------
(* The sending side.                                                         *)

\* Where the numbers of what was written, and of the FIN, end.
Top(p) == p.snd_lbb + (IF p.FIN THEN 1 ELSE 0)
Below(s, to) == \A i \in 1..Len(s) : End(s[i]) <= to
SndOK(p) ==
  /\ p.lastack <= p.snd_nxt /\ p.snd_nxt <= Top(p)
  /\ Below(p.unsent, Top(p)) /\ Below(p.unacked, Top(p))
  /\ p.snd_buf = TCP_SND_BUF - (p.snd_lbb - p.lastack)
  /\ CanWrite(p) => ~p.FIN

\* Before the answer to the SYN.
SynOK(p) ==
  /\ p.unacked = <<Seg(0, <<>>, TRUE, FALSE)>> /\ p.unsent = <<>> /\ p.ooseq = <<>>
  /\ p.snd_lbb = 1 /\ p.lastack = 0 /\ p.snd_nxt = 1 /\ p.snd_buf = TCP_SND_BUF - 1
  /\ p.rcv_nxt = 0 /\ p.rcv_wnd = TCP_WND /\ p.rcv_ann_wnd = TCP_WND
  /\ ~p.RXCLOSED /\ ~p.FIN

-----------------------------------------------------------------------------
(* The control block and the netconn.                                        *)

CallOK(p, c) ==
  /\ c.attached => CanWrite(p) \/ p.state = "SYN_SENT"
  /\ c.attached => (p.RXCLOSED <=> c.op = "close")
  /\ c.op = "connect" <=> p.state = "SYN_SENT"
  /\ c.op # "none" => c.attached
  /\ p.state = "SYN_SENT" => c.unread = 0 /\ c.given = <<>> /\ ~c.eof
  /\ c.used # "more"

BoardOK(p, c, q, n) ==
  /\ p \in Pcbs /\ c \in Conns
  /\ p.state = "CLOSED" => p = NoPcb
  /\ p.state = "SYN_SENT" => SynOK(p)
  /\ p.state \in Synchronized => SndOK(p)
  /\ RcvOK(p, c, q, n) /\ StreamOK(c, q, n) /\ CallOK(p, c)

\* How far the peer may come to send while the board takes what it sends.
Live(p) == p.state \in Taking \cup {"SYN_SENT"}
Lim(p) == IF p.state = "SYN_SENT" THEN 1 + TCP_WND ELSE Right(p)
Announces(pk, to) ==
  \A i \in 1..Len(pk) : ~pk[i].rst => pk[i].wnd <= TCP_WND /\ pk[i].ackno + pk[i].wnd <= to
EdgeOK(p, q, pk) ==
  Live(p) => Lim(p) >= 1 + TCP_WND /\ q.edge <= Lim(p) /\ Announces(pk, Lim(p))

Fresh ==
  /\ conn = NoConn => /\ pcb = NoPcb /\ peer = Listening
                      /\ toPeer = <<>> /\ toPcb = <<>>
  /\ conn # NoConn => conn.attached \/ conn.err \/ conn.closed

IInv ==
  /\ Types
  /\ BoardOK(pcb, conn, peer, plan.in)
  /\ PeerOK(peer, plan.in) /\ PacketsSound(toPcb, peer, plan.in)
  /\ EdgeOK(pcb, peer, toPeer)
  /\ Fresh

-----------------------------------------------------------------------------
(* Numbers and sequences.                                                    *)

LEMMA LeastNumber ==
  ASSUME NEW C, C \subseteq Nat, C # {}
  PROVE  \E m \in C : \A n \in C : m <= n
<1> DEFINE T == {1..n : n \in C}
<1>1. IsWellFoundedOn(StrictSubsetOrdering(Nat), FiniteSubsetsOf(Nat))
  BY FS_StrictSubsetOrderingWellFounded
<1>2. T \subseteq FiniteSubsetsOf(Nat)
  <2> SUFFICES ASSUME NEW n \in C PROVE 1..n \in FiniteSubsetsOf(Nat) OBVIOUS
  <2>1. IsFiniteSet(1..n) BY FS_Interval
  <2> QED BY <2>1 DEF FiniteSubsetsOf
<1>3. T # {} OBVIOUS
<1> HIDE DEF T
<1>4. PICK x \in T : \A y \in T : ~(<<y, x>> \in StrictSubsetOrdering(Nat))
  BY <1>1, <1>2, <1>3, WFMin
<1>5. PICK m \in C : x = 1..m BY DEF T
<1>6. \A n \in C : m <= n
  <2> SUFFICES ASSUME NEW n \in C, n < m PROVE FALSE OBVIOUS
  <2>1. 1..n \in T BY DEF T
  <2>2. m \in 1..m /\ m \notin 1..n /\ 1..n \subseteq 1..m
        /\ 1..n \in SUBSET Nat /\ 1..m \in SUBSET Nat OBVIOUS
  <2>3. <<1..n, 1..m>> \in StrictSubsetOrdering(Nat) BY <2>2 DEF StrictSubsetOrdering
  <2> QED BY <1>4, <1>5, <2>1, <2>3
<1> QED BY <1>6

\* What a loop that stops at the first index outside S has taken.
LEMMA RunFacts ==
  ASSUME NEW S, NEW n \in Nat
  PROVE  /\ Run(S, n) \in 0..n /\ 1..Run(S, n) \subseteq S
         /\ Run(S, n) < n => Run(S, n) + 1 \notin S
<1> DEFINE C == {k \in 0..n : k < n => k + 1 \notin S}
<1>1. C \subseteq Nat /\ n \in C OBVIOUS
<1>2. PICK m \in C : \A k \in C : m <= k BY <1>1, LeastNumber
<1>3. ASSUME NEW j \in 1..m PROVE j \in S
  <2>1. j - 1 \notin C /\ j - 1 \in 0..n /\ j - 1 < n BY <1>2
  <2> QED BY <2>1
<1>4. \E k \in 0..n : 1..k \subseteq S /\ (k < n => k + 1 \notin S)
  <2>1. m \in 0..n /\ (m < n => m + 1 \notin S) BY <1>2
  <2> QED BY <1>3, <2>1
<1> QED BY <1>4 DEF Run

LEMMA RunOfOne ==
  ASSUME NEW S, 1 \in S
  PROVE  Run(S, 1) = 1
BY RunFacts

LEMMA MinOfTwo ==
  ASSUME NEW a \in Int, NEW b \in Int
  PROVE  Min({a, b}) = IF a <= b THEN a ELSE b
<1> DEFINE x == IF a <= b THEN a ELSE b
<1>1. x \in {a, b} /\ \A y \in {a, b} : x <= y OBVIOUS
<1>2. \A z \in {a, b} : (\A y \in {a, b} : z <= y) => z = x OBVIOUS
<1> QED BY <1>1, <1>2 DEF Min

LEMMA MaxOfTwo ==
  ASSUME NEW a \in Int, NEW b \in Int
  PROVE  Max({a, b}) = IF a <= b THEN b ELSE a
<1> DEFINE x == IF a <= b THEN b ELSE a
<1>1. x \in {a, b} /\ \A y \in {a, b} : x >= y OBVIOUS
<1>2. \A z \in {a, b} : (\A y \in {a, b} : z >= y) => z = x OBVIOUS
<1> QED BY <1>1, <1>2 DEF Max

LEMMA MaxOfMany ==
  ASSUME NEW S, S \subseteq Nat, S # {}, NEW t \in Nat, \A y \in S : y <= t
  PROVE  Max(S) \in S /\ \A y \in S : Max(S) >= y
<1> DEFINE C == {t - y : y \in S}
<1>0. \A y \in S : t - y \in Nat OBVIOUS
<1>1. C \subseteq Nat /\ C # {} BY <1>0
<1>2. PICK m \in C : \A k \in C : m <= k BY <1>1, LeastNumber
<1>3. PICK x \in S : m = t - x BY <1>2
<1>4. ASSUME NEW y \in S PROVE x >= y
  <2>1. t - x <= t - y BY <1>2, <1>3
  <2> QED BY <2>1
<1> QED BY <1>4 DEF Max

LEMMA Windows ==
  /\ TCP_WND \in Nat /\ TCP_SND_BUF \in Nat /\ TCP_WND >= 2 /\ TCP_WND < 65535
  /\ TCP_SND_BUF >= 2
  /\ Mss \in Nat /\ Mss >= 1 /\ PeerBuf \in Nat /\ PeerBuf >= 2
  /\ Max({PeerBuf, TCP_WND}) \in Nat /\ Max({PeerBuf, TCP_WND}) >= PeerBuf
  /\ Max({PeerBuf, TCP_WND}) >= TCP_WND
<1>1. /\ TCP_WND \in Nat /\ TCP_SND_BUF \in Nat /\ TCP_WND >= 2 /\ TCP_WND < 65535
      /\ TCP_SND_BUF >= 2
      /\ Mss \in Nat /\ Mss >= 1 /\ PeerBuf \in Nat /\ PeerBuf >= 2
  BY MssAssumption, PeerBufAssumption DEF TCP_WND, TCP_SND_BUF
<1> QED BY <1>1, MaxOfTwo

LEMMA SubFacts ==
  ASSUME NEW S, NEW q \in Seq(S), NEW a \in 1..Len(q) + 1, NEW b \in a - 1..Len(q)
  PROVE  /\ SubSeq(q, a, b) \in Seq(S) /\ Len(SubSeq(q, a, b)) = b - a + 1
         /\ \A i \in 1..b - a + 1 : SubSeq(q, a, b)[i] = q[a + i - 1]
<1>1. \A i \in a..b : q[i] \in S OBVIOUS
<1> QED BY <1>1, SubSeqProperties

LEMMA AfterFacts ==
  ASSUME NEW S, NEW q \in Seq(S), NEW k \in 0..Len(q)
  PROVE  /\ After(q, k) \in Seq(S) /\ Len(After(q, k)) = Len(q) - k
         /\ \A i \in 1..Len(q) - k : After(q, k)[i] = q[k + i]
BY SubFacts DEF After

LEMMA TailFacts ==
  ASSUME NEW S, NEW q \in Seq(S), q # <<>>
  PROVE  /\ Tail(q) \in Seq(S) /\ Len(Tail(q)) = Len(q) - 1 /\ q[1] \in S
         /\ \A i \in 1..Len(q) - 1 : Tail(q)[i] = q[i + 1]
BY HeadTailProperties

LEMMA RemoveFacts ==
  ASSUME NEW S, NEW q \in Seq(S), NEW i \in 1..Len(q)
  PROVE  /\ RemoveAt(q, i) \in Seq(S)
         /\ \A k \in 1..Len(RemoveAt(q, i)) : \E j \in 1..Len(q) : RemoveAt(q, i)[k] = q[j]
<1> DEFINE a == SubSeq(q, 1, i - 1)
           b == SubSeq(q, i + 1, Len(q))
<1>1. a \in Seq(S) /\ Len(a) = i - 1 /\ \A k \in 1..i - 1 : a[k] = q[k] BY SubFacts
<1>2. b \in Seq(S) /\ Len(b) = Len(q) - i /\ \A k \in 1..Len(q) - i : b[k] = q[i + k]
  BY SubFacts
<1>3. RemoveAt(q, i) = a \o b BY DEF RemoveAt
<1> HIDE DEF a, b
<1> PICK n \in Nat : n = Len(q) OBVIOUS
<1>4. /\ a \o b \in Seq(S) /\ Len(a \o b) = Len(a) + Len(b)
      /\ \A k \in 1..Len(a) + Len(b) :
           (a \o b)[k] = IF k <= Len(a) THEN a[k] ELSE b[k - Len(a)]
  BY <1>1, <1>2, ConcatProperties
<1>6. Len(a) + Len(b) = n - 1 BY <1>1, <1>2
<1>5. ASSUME NEW k \in 1..n - 1 PROVE \E j \in 1..n : (a \o b)[k] = q[j]
  <2>1. CASE k <= i - 1
    <3>1. (a \o b)[k] = q[k] BY <1>1, <1>4, <1>6, <2>1
    <3>2. k \in 1..n OBVIOUS
    <3> QED BY <3>1, <3>2
  <2>2. CASE k > i - 1
    <3>1. k - (i - 1) \in 1..n - i /\ i + (k - (i - 1)) = k + 1 BY <2>2
    <3>2. b[k - (i - 1)] = q[k + 1] BY <1>2, <3>1
    <3>3. (a \o b)[k] = q[k + 1] BY <1>1, <1>4, <1>6, <2>2, <3>2
    <3>4. k + 1 \in 1..n OBVIOUS
    <3> QED BY <3>3, <3>4
  <2>3. k <= i - 1 \/ k > i - 1 OBVIOUS
  <2> QED BY <2>1, <2>2, <2>3
<1>7. RemoveAt(q, i) \in Seq(S) /\ Len(RemoveAt(q, i)) = n - 1 BY <1>3, <1>4, <1>6
<1>8. \A k \in 1..n - 1 : \E j \in 1..n : RemoveAt(q, i)[k] = q[j] BY <1>3, <1>5, ZenonT(100)
<1> QED BY <1>7, <1>8, Zenon

LEMMA InsertFacts ==
  ASSUME NEW S, NEW q \in Seq(S), NEW i \in 1..Len(q) + 1, NEW e \in S
  PROVE  InsertAt(q, i, e) \in Seq(S) /\ Len(InsertAt(q, i, e)) = Len(q) + 1
<1> DEFINE a == SubSeq(q, 1, i - 1)
           b == SubSeq(q, i, Len(q))
<1>1. a \in Seq(S) /\ Len(a) = i - 1 BY SubFacts
<1>2. b \in Seq(S) /\ Len(b) = Len(q) - i + 1 BY SubFacts
<1>3. InsertAt(q, i, e) = a \o <<e>> \o b BY DEF InsertAt
<1>4. <<e>> \in Seq(S) /\ Len(<<e>>) = 1 OBVIOUS
<1> HIDE DEF a, b
<1>5. a \o <<e>> \in Seq(S) /\ Len(a \o <<e>>) = i BY <1>1, <1>4, ConcatProperties
<1> QED BY <1>2, <1>3, <1>5, ConcatProperties

-----------------------------------------------------------------------------
(* The queues of what is sent: what goes in comes from where it was.         *)

LEMMA FreeUpToFacts ==
  ASSUME NEW S, NEW q \in Seq(S), NEW ackno
  PROVE  FreeUpTo(q, ackno) \in Seq(S)
<1> DEFINE k == Run({i \in 1..Len(q) : End(q[i]) <= ackno}, Len(q))
<1>1. k \in 0..Len(q) BY RunFacts
<1> HIDE DEF k
<1>2. After(q, k) \in Seq(S) BY <1>1, AfterFacts
<1> QED BY <1>2 DEF FreeUpTo, k

LEMMA InsertSortedFacts ==
  ASSUME NEW S, NEW q \in Seq(S), NEW s \in S
  PROVE  InsertSorted(q, s) \in Seq(S)
<1> DEFINE k == Run({i \in 1..Len(q) : q[i].seq < s.seq}, Len(q))
<1>1. k \in 0..Len(q) BY RunFacts
<1> HIDE DEF k
<1>3. k + 1 \in 1..Len(q) + 1 BY <1>1
<1>2. InsertAt(q, k + 1, s) \in Seq(S) BY <1>3, InsertFacts
<1> QED BY <1>2 DEF InsertSorted, k

LEMMA PlaceFacts ==
  ASSUME NEW S, NEW q \in Seq(S), NEW s \in S
  PROVE  Place(q, s) \in Seq(S)
BY InsertSortedFacts DEF Place

\* The recursive definition of Placed has a solution.
PlacedBy(f, q, sent, n) ==
  /\ f = [i \in 0..n |-> f[i]] /\ f[0] = q
  /\ \A i \in 1..n : f[i] = Place(f[i - 1], sent[i])

LEMMA PlacedDefined ==
  ASSUME NEW q, NEW sent, NEW n \in Nat
  PROVE  \E f : PlacedBy(f, q, sent, n)
<1> USE DEF PlacedBy
<1> DEFINE Upto(m) == \E f : PlacedBy(f, q, sent, m)
           C == {m \in Nat : ~Upto(m)}
<1>1. Upto(0)
  <2> PICK z : z = [i \in 0..0 |-> q] OBVIOUS
  <2>1. z = [i \in 0..0 |-> z[i]] /\ z[0] = q
        /\ \A i \in 1..0 : z[i] = Place(z[i - 1], sent[i]) OBVIOUS
  <2> QED BY <2>1
<1>2. ASSUME NEW m \in Nat \ {0}, Upto(m - 1) PROVE Upto(m)
  <2>1. PICK f : /\ f = [i \in 0..m - 1 |-> f[i]] /\ f[0] = q
                 /\ \A i \in 1..m - 1 : f[i] = Place(f[i - 1], sent[i])
    BY <1>2
  <2> PICK g : g = [i \in 0..m |-> IF i = m THEN Place(f[m - 1], sent[m]) ELSE f[i]] OBVIOUS
  <2>2. g = [i \in 0..m |-> g[i]] OBVIOUS
  <2>3. g[0] = q BY <2>1
  <2>4. ASSUME NEW i \in 1..m PROVE g[i] = Place(g[i - 1], sent[i])
    <3>1. g[i - 1] = f[i - 1] OBVIOUS
    <3>2. CASE i = m BY <3>1, <3>2
    <3>3. CASE i # m
      <4>1. i \in 1..m - 1 /\ g[i] = f[i] BY <3>3
      <4> QED BY <2>1, <3>1, <4>1
    <3> QED BY <3>2, <3>3
  <2> QED BY <2>2, <2>3, <2>4
<1> HIDE DEF Upto
<1>3. C = {}
  <2> SUFFICES ASSUME C # {} PROVE FALSE OBVIOUS
  <2>1. C \subseteq Nat OBVIOUS
  <2>2. PICK m \in C : \A k \in C : m <= k BY <2>1, LeastNumber
  <2>3. m # 0 BY <1>1
  <2>4. m - 1 \notin C /\ m - 1 \in Nat BY <2>1, <2>2, <2>3
  <2>5. Upto(m - 1) BY <2>4
  <2> QED BY <1>2, <2>2, <2>3, <2>5
<1>4. Upto(n) BY <1>3
<1> QED BY <1>4 DEF Upto

LEMMA PlacedFacts ==
  ASSUME NEW S, NEW q \in Seq(S), NEW sent \in Seq(S)
  PROVE  /\ Placed(q, sent) \in Seq(S)
         /\ Len(sent) = 1 => Placed(q, sent) = Place(q, sent[1])
<1> DEFINE P(f) == f = [i \in 0..Len(sent) |-> IF i = 0 THEN q ELSE Place(f[i - 1], sent[i])]
           a == CHOOSE f : P(f)
<1>1. Placed(q, sent) = a[Len(sent)] BY DEF Placed
<1>0. Len(sent) \in Nat OBVIOUS
<1>2. \E f : P(f)
  <2> PICK n \in Nat : n = Len(sent) BY <1>0
  <2>4. PICK f : PlacedBy(f, q, sent, n) BY PlacedDefined
  <2>1. /\ f = [i \in 0..n |-> f[i]] /\ f[0] = q
        /\ \A i \in 1..n : f[i] = Place(f[i - 1], sent[i])
    BY <2>4 DEF PlacedBy
  <2>2. \A i \in 0..n : f[i] = IF i = 0 THEN q ELSE Place(f[i - 1], sent[i])
    <3> TAKE i \in 0..n
    <3>1. CASE i = 0 BY <2>1, <3>1
    <3>2. CASE i # 0
      <4>1. i \in 1..n BY <3>2
      <4> QED BY <2>1, <3>2, <4>1
    <3> QED BY <3>1, <3>2
  <2>3. P(f) BY <2>1, <2>2
  <2> QED BY <2>3
<1> HIDE DEF P
<1>3. P(a) BY <1>2
<1> HIDE DEF a
<1>4. a[0] = q /\ \A i \in 1..Len(sent) : a[i] = Place(a[i - 1], sent[i]) BY <1>3 DEF P
<1>5. {i \in 0..Len(sent) : a[i] \notin Seq(S)} = {}
  <2> DEFINE C == {i \in 0..Len(sent) : a[i] \notin Seq(S)}
  <2> SUFFICES ASSUME C # {} PROVE FALSE OBVIOUS
  <2>1. C \subseteq Nat OBVIOUS
  <2>2. PICK m \in C : \A k \in C : m <= k BY <2>1, LeastNumber
  <2>3. m \in 1..Len(sent) BY <1>4, <2>2
  <2>4. a[m - 1] \in Seq(S) BY <2>2, <2>3
  <2>5. sent[m] \in S BY <2>3
  <2>6. Place(a[m - 1], sent[m]) \in Seq(S) BY <2>4, <2>5, PlaceFacts
  <2> QED BY <1>4, <2>2, <2>3, <2>6
<1>6. a[Len(sent)] \in Seq(S) BY <1>5
<1> QED BY <1>1, <1>4, <1>6

-----------------------------------------------------------------------------
(* Segments of the peer's stream.                                            *)

LEMMA SegFacts ==
  ASSUME NEW s \in Segs
  PROVE  /\ s.seq \in Nat /\ s.data \in Seq(Nat) /\ Len(s.data) \in Nat
         /\ s.syn \in BOOLEAN /\ s.fin \in BOOLEAN
         /\ DataEnd(s) \in Nat /\ End(s) \in Nat /\ TCPLEN(s) \in Nat
         /\ DataEnd(s) = s.seq + Len(s.data) /\ End(s) = s.seq + TCPLEN(s)
         /\ (s.syn \/ s.fin) => TCPLEN(s) = Len(s.data) + 1
         /\ ~(s.syn \/ s.fin) => TCPLEN(s) = Len(s.data)
<1>1. /\ s.seq \in Nat /\ s.data \in Seq(Nat) /\ s.syn \in BOOLEAN /\ s.fin \in BOOLEAN
  BY DEF Segs
<1>2. Len(s.data) \in Nat BY <1>1
<1> DEFINE one == IF s.syn \/ s.fin THEN 1 ELSE 0
<1>3. TCPLEN(s) = Len(s.data) + one BY DEF TCPLEN
<1>4. ((s.syn \/ s.fin) => one = 1) /\ (~(s.syn \/ s.fin) => one = 0) OBVIOUS
<1> HIDE DEF one
<1>5. one \in Nat BY <1>4
<1>6. DataEnd(s) = s.seq + Len(s.data) /\ End(s) = s.seq + TCPLEN(s) BY DEF DataEnd, End
<1>7. TCPLEN(s) \in Nat BY <1>2, <1>3, <1>5
<1>8. DataEnd(s) \in Nat /\ End(s) \in Nat BY <1>1, <1>2, <1>6, <1>7
<1>9. ((s.syn \/ s.fin) => TCPLEN(s) = Len(s.data) + 1)
      /\ (~(s.syn \/ s.fin) => TCPLEN(s) = Len(s.data))
  BY <1>2, <1>3, <1>4
<1> QED BY <1>1, <1>2, <1>6, <1>7, <1>8, <1>9

LEMMA PieceFacts ==
  ASSUME NEW s \in Segs, NEW q, NEW n \in Nat, Piece(s, q, n)
  PROVE  /\ s.fin => TCPLEN(s) = Len(s.data) + 1 /\ End(s) = DataEnd(s) + 1
         /\ ~s.fin => TCPLEN(s) = Len(s.data) /\ End(s) = DataEnd(s)
         /\ s.seq >= 1 /\ DataEnd(s) <= n + 1 /\ (s.fin => End(s) = n + 2)
         /\ s.seq <= DataEnd(s) /\ DataEnd(s) <= End(s)
<1>1. ~s.syn /\ s.seq >= 1 /\ DataEnd(s) <= n + 1 /\ (s.fin => DataEnd(s) = n + 1) BY DEF Piece
<1>0. /\ s.seq \in Nat /\ Len(s.data) \in Nat
      /\ DataEnd(s) = s.seq + Len(s.data) /\ End(s) = s.seq + TCPLEN(s)
      /\ (s.syn \/ s.fin) => TCPLEN(s) = Len(s.data) + 1
      /\ ~(s.syn \/ s.fin) => TCPLEN(s) = Len(s.data)
  BY SegFacts
<1>2. CASE s.fin
  <2>1. TCPLEN(s) = Len(s.data) + 1 BY <1>0, <1>2
  <2> QED BY <1>0, <1>1, <1>2, <2>1
<1>3. CASE ~s.fin
  <2>1. TCPLEN(s) = Len(s.data) BY <1>0, <1>1, <1>3
  <2> QED BY <1>0, <1>1, <1>3, <2>1
<1> QED BY <1>2, <1>3

LEMMA PieceStays ==
  ASSUME NEW s, NEW q \in Peers, NEW r \in Peers, NEW n, Piece(s, q, n),
         q.nxt <= r.nxt, q.fin => r.fin, DataEnd(s) \in Nat
  PROVE  Piece(s, r, n)
<1>1. q.nxt \in Nat /\ r.nxt \in Nat BY DEF Peers
<1>2. DataEnd(s) <= r.nxt BY <1>1 DEF Piece
<1> QED BY <1>2 DEF Piece

LEMMA TrimEndFacts ==
  ASSUME NEW s \in Segs, NEW q, NEW n \in Nat, Piece(s, q, n), ~s.fin,
         NEW to \in Nat, s.seq < to, to <= DataEnd(s), q.nxt \in Nat
  PROVE  /\ TrimEnd(s, to) \in Segs /\ TrimEnd(s, to).seq = s.seq /\ ~TrimEnd(s, to).fin
         /\ DataEnd(TrimEnd(s, to)) = to /\ End(TrimEnd(s, to)) = to
         /\ Piece(TrimEnd(s, to), q, n) /\ TCPLEN(TrimEnd(s, to)) > 0
<1>1. s.seq \in Nat /\ s.data \in Seq(Nat) /\ DataEnd(s) = s.seq + Len(s.data) BY SegFacts
<1> DEFINE d == SubSeq(s.data, 1, to - s.seq)
           t == TrimEnd(s, to)
<1>2. to - s.seq \in 1 - 1..Len(s.data) BY <1>1
<1>3. /\ d \in Seq(Nat) /\ Len(d) = to - s.seq
      /\ \A i \in 1..to - s.seq : d[i] = s.data[1 + i - 1]
  BY <1>1, <1>2, SubFacts, SMTT(100)
<1>4. t = [s EXCEPT !.data = d] BY DEF TrimEnd
<1> HIDE DEF d
<1>5. t \in Segs /\ t.seq = s.seq /\ t.fin = s.fin /\ t.syn = s.syn /\ t.data = d
  BY <1>3, <1>4 DEF Segs
<1> HIDE DEF t
<1>6. DataEnd(t) = to BY <1>1, <1>3, <1>5 DEF DataEnd
<1>7. \A i \in 1..Len(d) : d[i] = s.seq + i - 1 BY <1>1, <1>3, SMTT(100) DEF Piece
<1>8. Piece(t, q, n) BY <1>1, <1>5, <1>6, <1>7 DEF Piece
<1>9. TCPLEN(t) = to - s.seq BY <1>3, <1>5, <1>8, PieceFacts
<1> QED BY <1>1, <1>5, <1>6, <1>8, <1>9, PieceFacts DEF t

LEMMA TrimFrontFacts ==
  ASSUME NEW s \in Segs, NEW q, NEW n \in Nat, Piece(s, q, n), q.nxt \in Nat,
         NEW from \in Nat, s.seq < from, from < End(s)
  PROVE  /\ TrimFront(s, from) \in Segs /\ TrimFront(s, from).seq = from
         /\ DataEnd(TrimFront(s, from)) = DataEnd(s)
         /\ Piece(TrimFront(s, from), q, n) /\ TCPLEN(TrimFront(s, from)) > 0
         /\ TrimFront(s, from).fin = s.fin
<1>1. s.seq \in Nat /\ s.data \in Seq(Nat) /\ DataEnd(s) = s.seq + Len(s.data) BY SegFacts
<1>0. from <= DataEnd(s) BY <1>1, PieceFacts, SegFacts
<1> PICK l \in Nat : l = Len(s.data) BY <1>1
<1> PICK k \in Nat : k = from - s.seq BY <1>1
<1> DEFINE d == After(s.data, k)
           t == TrimFront(s, from)
<1>2. k \in 0..l /\ from = s.seq + k BY <1>0, <1>1
<1>3. /\ d \in Seq(Nat) /\ Len(d) = l - k
      /\ \A i \in 1..l - k : d[i] = s.data[k + i]
  <2>1. s.data \in Seq(Nat) /\ k \in 0..Len(s.data) BY <1>1, <1>2
  <2>2. /\ d \in Seq(Nat) /\ Len(d) = Len(s.data) - k
        /\ \A i \in 1..Len(s.data) - k : d[i] = s.data[k + i]
    BY <2>1, AfterFacts, ZenonT(100)
  <2> QED BY <2>2, Zenon
<1>4. t = [s EXCEPT !.seq = from, !.data = d] BY DEF TrimFront, After
<1> HIDE DEF d
<1>5. t \in Segs /\ t.seq = from /\ t.fin = s.fin /\ t.syn = s.syn /\ t.data = d
  BY <1>3, <1>4 DEF Segs
<1> HIDE DEF t
<1>6. DataEnd(t) = DataEnd(s)
  <2>1. DataEnd(t) = from + (l - k) BY <1>3, <1>5 DEF DataEnd
  <2> QED BY <1>1, <1>2, <2>1
<1>7. \A i \in 1..Len(d) : d[i] = from + i - 1
  <2> TAKE i \in 1..Len(d)
  <2>0. i \in 1..l - k BY <1>3
  <2>1. i \in 1..l - k /\ k + i \in 1..l BY <1>2, <2>0
  <2>2. d[i] = s.data[k + i] BY <1>3, <2>1
  <2>3. s.data[k + i] = s.seq + (k + i) - 1 BY <2>1 DEF Piece
  <2> QED BY <1>1, <1>2, <2>1, <2>2, <2>3, SMTT(100)
<1>8. Piece(t, q, n)
  <2>1. ~t.syn /\ t.seq >= 1 BY <1>1, <1>5 DEF Piece
  <2>2. \A i \in 1..Len(t.data) : t.data[i] = t.seq + i - 1 BY <1>5, <1>7
  <2>3. DataEnd(t) <= n + 1 /\ DataEnd(t) <= q.nxt /\ (t.fin => q.fin /\ DataEnd(t) = n + 1)
    BY <1>5, <1>6 DEF Piece
  <2> QED BY <2>1, <2>2, <2>3 DEF Piece
<1>9. End(t) = End(s) BY <1>5, <1>6, <1>8, PieceFacts
<1>10. TCPLEN(t) > 0 BY <1>5, <1>9, SegFacts
<1> QED BY <1>5, <1>6, <1>8, <1>10 DEF t

LEMMA LimitFacts ==
  ASSUME NEW s \in Segs, NEW q, NEW n \in Nat, Piece(s, q, n), TCPLEN(s) > 0,
         NEW wnd \in Nat, wnd >= 1, q.nxt \in Nat
  PROVE  /\ Limit(s, wnd) \in Segs /\ Limit(s, wnd).seq = s.seq
         /\ Piece(Limit(s, wnd), q, n) /\ TCPLEN(Limit(s, wnd)) > 0
         /\ DataEnd(Limit(s, wnd)) <= s.seq + wnd /\ DataEnd(Limit(s, wnd)) <= DataEnd(s)
<1>1. /\ s.seq \in Nat /\ s.data \in Seq(Nat) /\ DataEnd(s) = s.seq + Len(s.data)
      /\ Len(s.data) \in Nat
  BY SegFacts
<1>2. CASE TCPLEN(s) <= wnd
  <2>1. Limit(s, wnd) = s BY <1>2 DEF Limit
  <2>2. Len(s.data) <= wnd BY <1>1, <1>2, PieceFacts
  <2> QED BY <1>1, <2>1, <2>2
<1>3. CASE TCPLEN(s) > wnd
  <2> DEFINE m == Min({Len(s.data), wnd})
             d == SubSeq(s.data, 1, m)
             t == Limit(s, wnd)
  <2>1. m = IF Len(s.data) <= wnd THEN Len(s.data) ELSE wnd BY <1>1, MinOfTwo
  <2>2. Len(s.data) >= 1 BY <1>1, <1>3, PieceFacts
  <2>3. m >= 1 /\ m \in 0..Len(s.data) /\ m <= wnd BY <1>1, <2>1, <2>2
  <2>4. t = [s EXCEPT !.fin = FALSE, !.data = d]
    <3>1. TCPLEN(s) \in Nat BY SegFacts
    <3> QED BY <1>3, <3>1 DEF Limit
  <2> HIDE DEF m
  <2>5. /\ d \in Seq(Nat) /\ Len(d) = m
        /\ \A i \in 1..m : d[i] = s.data[1 + i - 1]
    <3>1. m \in 1 - 1..Len(s.data) BY <2>3
    <3> QED BY <1>1, <3>1, SubFacts, SMTT(100)
  <2> HIDE DEF d
  <2>6. t \in Segs /\ t.seq = s.seq /\ ~t.fin /\ t.syn = s.syn /\ t.data = d
    BY <2>4, <2>5 DEF Segs
  <2> HIDE DEF t
  <2>7. DataEnd(t) = s.seq + m BY <1>1, <2>3, <2>5, <2>6 DEF DataEnd
  <2>8. \A i \in 1..Len(d) : d[i] = s.seq + i - 1
    <3> TAKE i \in 1..Len(d)
    <3>1. i \in 1..m /\ i \in 1..Len(s.data) /\ 1 + i - 1 = i BY <1>1, <2>3, <2>5
    <3>2. s.data[i] = s.seq + i - 1 BY <3>1 DEF Piece
    <3> QED BY <2>5, <3>1, <3>2
  <2>9. DataEnd(t) <= DataEnd(s) BY <1>1, <2>3, <2>7
  <2>10. Piece(t, q, n) BY <1>1, <2>3, <2>6, <2>7, <2>8, <2>9, SMTT(100) DEF Piece
  <2>11. TCPLEN(t) = m BY <2>3, <2>5, <2>6, <2>10, PieceFacts
  <2> QED BY <1>1, <2>3, <2>6, <2>7, <2>9, <2>10, <2>11 DEF t
<1> QED BY <1>2, <1>3, SegFacts

-----------------------------------------------------------------------------
(* Queues of segments that do not overlap.                                   *)

\* What holds of the segments of such a queue.
LEMMA FineFacts ==
  ASSUME NEW o, NEW q, NEW n \in Nat, NEW from, NEW to, Fine(o, q, n, from, to)
  PROVE  /\ o \in Seq(Segs) /\ Len(o) \in Nat
         /\ \A i \in 1..Len(o) :
              /\ o[i] \in Segs /\ o[i].seq \in Nat /\ DataEnd(o[i]) \in Nat /\ End(o[i]) \in Nat
              /\ Piece(o[i], q, n) /\ o[i].seq < End(o[i])
              /\ o[i].seq >= from /\ DataEnd(o[i]) <= to
              /\ o[i].fin => i = Len(o)
         /\ \A i, j \in 1..Len(o) : i < j => End(o[i]) <= o[j].seq /\ o[i].seq < o[j].seq
<1>1. o \in Seq(Segs) /\ Len(o) \in Nat BY DEF Fine
<1>2. ASSUME NEW i \in 1..Len(o)
      PROVE  /\ o[i] \in Segs /\ o[i].seq \in Nat /\ DataEnd(o[i]) \in Nat /\ End(o[i]) \in Nat
             /\ Piece(o[i], q, n) /\ o[i].seq < End(o[i])
             /\ o[i].seq >= from /\ DataEnd(o[i]) <= to
             /\ o[i].seq <= DataEnd(o[i]) /\ DataEnd(o[i]) <= n + 1
             /\ o[i].fin => End(o[i]) = n + 2
  <2>1. o[i] \in Segs BY <1>1
  <2>2. Piece(o[i], q, n) /\ TCPLEN(o[i]) > 0 /\ o[i].seq >= from /\ DataEnd(o[i]) <= to
    BY DEF Fine, Pieces
  <2>3. /\ o[i].seq \in Nat /\ DataEnd(o[i]) \in Nat /\ End(o[i]) \in Nat
        /\ End(o[i]) = o[i].seq + TCPLEN(o[i]) /\ TCPLEN(o[i]) \in Nat
    BY <2>1, SegFacts
  <2>4. /\ o[i].seq <= DataEnd(o[i]) /\ DataEnd(o[i]) <= n + 1 /\ (o[i].fin => End(o[i]) = n + 2)
    BY <2>1, <2>2, PieceFacts
  <2> QED BY <2>1, <2>2, <2>3, <2>4
<1>3. ASSUME NEW i \in 1..Len(o), NEW j \in 1..Len(o), i < j
      PROVE  End(o[i]) <= o[j].seq /\ o[i].seq < o[j].seq
  <2>1. End(o[i]) <= o[j].seq BY <1>3 DEF Fine, Chain
  <2>2. o[i].seq < End(o[i]) /\ o[i].seq \in Nat /\ End(o[i]) \in Nat /\ o[j].seq \in Nat BY <1>2
  <2> QED BY <2>1, <2>2
<1>4. ASSUME NEW i \in 1..Len(o), o[i].fin PROVE i = Len(o)
  <2> SUFFICES ASSUME i # Len(o) PROVE FALSE OBVIOUS
  <2>1. Len(o) \in 1..Len(o) /\ i < Len(o) BY <1>1
  <2>2. End(o[i]) <= o[Len(o)].seq BY <1>3, <2>1
  <2>3. End(o[i]) = n + 2 BY <1>2, <1>4
  <2>4. o[Len(o)].seq \in Nat /\ DataEnd(o[Len(o)]) \in Nat
        /\ o[Len(o)].seq <= DataEnd(o[Len(o)]) /\ DataEnd(o[Len(o)]) <= n + 1 BY <1>2, <2>1
  <2> QED BY <2>2, <2>3, <2>4
<1> QED BY <1>1, <1>2, <1>3, <1>4

LEMMA FineSub ==
  ASSUME NEW o, NEW q, NEW n \in Nat, NEW from \in Nat, NEW to, Fine(o, q, n, from, to),
         NEW a \in 1..Len(o) + 1, NEW b \in a - 1..Len(o)
  PROVE  Fine(SubSeq(o, a, b), q, n, from, to)
<1>1. /\ o \in Seq(Segs) /\ Len(o) \in Nat BY DEF Fine
<1> DEFINE s == SubSeq(o, a, b)
<1>2. /\ s \in Seq(Segs) /\ Len(s) = b - a + 1
      /\ \A i \in 1..b - a + 1 : s[i] = o[a + i - 1]
  BY <1>1, SubFacts
<1> HIDE DEF s
<1>3. ASSUME NEW i \in 1..Len(s) PROVE a + i - 1 \in 1..Len(o) /\ s[i] = o[a + i - 1]
  BY <1>1, <1>2
<1>4. Chain(s)
  <2> SUFFICES ASSUME NEW i \in 1..Len(s), NEW j \in 1..Len(s), i < j
               PROVE  End(s[i]) <= s[j].seq
    BY DEF Chain
  <2>1. a + i - 1 < a + j - 1 BY <1>1, <1>2
  <2> QED BY <1>3, <2>1 DEF Fine, Chain
<1>5. Pieces(s, q, n) BY <1>3 DEF Fine, Pieces
<1>6. \A i \in 1..Len(s) : s[i].seq >= from /\ DataEnd(s[i]) <= to BY <1>3 DEF Fine
<1> QED BY <1>2, <1>4, <1>5, <1>6 DEF s, Fine

LEMMA FineLater ==
  ASSUME NEW o, NEW q, NEW n \in Nat, NEW from \in Nat, NEW to, Fine(o, q, n, from, to),
         NEW k \in 1..Len(o)
  PROVE  Fine(After(o, k), q, n, End(o[k]), to)
<1>1. o \in Seq(Segs) /\ Len(o) \in Nat BY DEF Fine
<1>2. k + 1 \in 1..Len(o) + 1 /\ Len(o) \in k + 1 - 1..Len(o) /\ k \in 0..Len(o) BY <1>1
<1>3. Fine(After(o, k), q, n, from, to) BY <1>2, FineSub DEF After
<1>4. Len(After(o, k)) = Len(o) - k /\ \A i \in 1..Len(o) - k : After(o, k)[i] = o[k + i]
  BY <1>1, <1>2, AfterFacts
<1>5. ASSUME NEW i \in 1..Len(After(o, k)) PROVE After(o, k)[i].seq >= End(o[k])
  <2>1. After(o, k)[i] = o[k + i] /\ k + i \in 1..Len(o) /\ k < k + i BY <1>1, <1>4
  <2>2. End(o[k]) <= o[k + i].seq /\ End(o[k]) \in Nat /\ o[k + i].seq \in Nat
    BY <2>1, FineFacts
  <2> QED BY <2>1, <2>2
<1> QED BY <1>3, <1>5 DEF Fine

LEMMA FineWider ==
  ASSUME NEW o, NEW q, NEW n \in Nat, NEW from \in Nat, NEW to \in Nat, Fine(o, q, n, from, to),
         NEW f \in Nat, f <= from, NEW t \in Nat, to <= t
  PROVE  Fine(o, q, n, f, t)
<1>1. ASSUME NEW i \in 1..Len(o) PROVE o[i].seq >= f /\ DataEnd(o[i]) <= t
  <2>1. /\ o[i].seq \in Nat /\ DataEnd(o[i]) \in Nat
        /\ o[i].seq >= from /\ DataEnd(o[i]) <= to
    BY FineFacts
  <2> QED BY <2>1
<1> QED BY <1>1 DEF Fine

LEMMA FineOne ==
  ASSUME NEW s \in Segs, NEW q, NEW n \in Nat, Piece(s, q, n), TCPLEN(s) > 0,
         NEW from \in Nat, s.seq >= from, NEW to, DataEnd(s) <= to
  PROVE  Fine(<<s>>, q, n, from, to)
<1> DEFINE o == <<s>>
<1>1. o \in Seq(Segs) /\ Len(o) = 1 /\ o[1] = s OBVIOUS
<1> HIDE DEF o
<1>2. \A i \in 1..Len(o) : o[i] = s BY <1>1
<1>3. Chain(o) BY <1>1 DEF Chain
<1>4. Pieces(o, q, n) BY <1>2 DEF Pieces
<1>5. Fine(o, q, n, from, to) BY <1>1, <1>2, <1>3, <1>4 DEF Fine
<1> QED BY <1>5 DEF o

LEMMA FineNone ==
  ASSUME NEW q, NEW n, NEW from, NEW to
  PROVE  Fine(<<>>, q, n, from, to)
<1> DEFINE o == <<>>
<1>1. o \in Seq(Segs) /\ Len(o) = 0 OBVIOUS
<1> HIDE DEF o
<1>2. 1..Len(o) = {} BY <1>1
<1>3. Fine(o, q, n, from, to) BY <1>1, <1>2 DEF Fine, Chain, Pieces
<1> QED BY <1>3 DEF o

LEMMA FineConcat ==
  ASSUME NEW a, NEW b, NEW q, NEW n \in Nat, NEW from \in Nat, NEW mid \in Nat, NEW to,
         Fine(a, q, n, from, to), Fine(b, q, n, mid, to), from <= mid,
         \A i \in 1..Len(a) : End(a[i]) <= mid
  PROVE  Fine(a \o b, q, n, from, to) /\ Len(a \o b) = Len(a) + Len(b)
<1> PICK k \in Nat : k = Len(a) BY FineFacts
<1> PICK l \in Nat : l = Len(b) BY FineFacts
<1> DEFINE c == a \o b
<1>1. /\ c \in Seq(Segs) /\ Len(c) = k + l
      /\ \A i \in 1..k + l : c[i] = IF i <= k THEN a[i] ELSE b[i - k]
  <2>1. a \in Seq(Segs) /\ b \in Seq(Segs) BY DEF Fine
  <2> QED BY <2>1, ConcatProperties
<1> HIDE DEF c
<1>2. ASSUME NEW i \in 1..k + l, i <= k PROVE i \in 1..k /\ c[i] = a[i] BY <1>1, <1>2
<1>3. ASSUME NEW i \in 1..k + l, ~(i <= k) PROVE i - k \in 1..l /\ c[i] = b[i - k] BY <1>1, <1>3
<1>4. ASSUME NEW i \in 1..k + l, NEW j \in 1..k + l, i < j PROVE End(c[i]) <= c[j].seq
  <2>1. CASE j <= k
    <3>1. i <= k BY <1>4, <2>1
    <3> QED BY <1>2, <1>4, <2>1, <3>1, FineFacts
  <2>2. CASE i <= k /\ ~(j <= k)
    <3>1. End(a[i]) <= mid /\ c[i] = a[i] /\ End(a[i]) \in Nat BY <1>2, <2>2, FineFacts
    <3>2. j - k \in 1..l /\ c[j] = b[j - k] BY <1>3, <2>2
    <3>3. b[j - k].seq >= mid /\ b[j - k].seq \in Nat BY <3>2, FineFacts
    <3> QED BY <3>1, <3>2, <3>3
  <2>3. CASE ~(i <= k)
    <3>1. ~(j <= k) BY <1>4, <2>3
    <3>2. i - k \in 1..l /\ c[i] = b[i - k] BY <1>3, <2>3
    <3>3. j - k \in 1..l /\ c[j] = b[j - k] BY <1>3, <3>1
    <3>4. i - k < j - k BY <1>4
    <3>5. End(b[i - k]) <= b[j - k].seq BY <3>2, <3>3, <3>4, FineFacts
    <3> QED BY <3>2, <3>3, <3>5
  <2> QED BY <2>1, <2>2, <2>3
<1>5. ASSUME NEW i \in 1..k + l
      PROVE  Piece(c[i], q, n) /\ TCPLEN(c[i]) > 0 /\ c[i].seq >= from /\ DataEnd(c[i]) <= to
  <2>1. CASE i <= k BY <1>2, <2>1 DEF Fine, Pieces
  <2>2. CASE ~(i <= k)
    <3>1. i - k \in 1..l /\ c[i] = b[i - k] BY <1>3, <2>2
    <3>2. b[i - k].seq >= mid /\ b[i - k].seq \in Nat BY <3>1, FineFacts
    <3>3. Piece(b[i - k], q, n) /\ TCPLEN(b[i - k]) > 0 /\ DataEnd(b[i - k]) <= to
      BY <3>1 DEF Fine, Pieces
    <3> QED BY <3>1, <3>2, <3>3
  <2> QED BY <2>1, <2>2
<1>6. Fine(c, q, n, from, to) BY <1>1, <1>4, <1>5 DEF Fine, Chain, Pieces
<1> QED BY <1>1, <1>6 DEF c

\* A new segment in front of later ones, and of those it does not cover.
LEMMA InFrontFacts ==
  ASSUME NEW c \in Segs, NEW q, NEW n \in Nat, q.nxt \in Nat, Piece(c, q, n), TCPLEN(c) > 0,
         NEW from \in Nat, c.seq >= from, NEW to \in Nat, DataEnd(c) <= to,
         NEW left, Fine(left, q, n, from, to),
         left # <<>> => left[1].seq > c.seq /\ ~c.fin
  PROVE  /\ Fine(InFront(c, left), q, n, from, to)
         /\ InFront(c, left) # <<>> /\ InFront(c, left)[1].seq = c.seq
<1>0. /\ c.seq \in Nat /\ DataEnd(c) \in Nat /\ End(c) \in Nat
      /\ left \in Seq(Segs) /\ Len(left) \in Nat
  BY SegFacts, FineFacts
<1>1. ASSUME NEW d \in Segs, d.seq = c.seq, Piece(d, q, n), TCPLEN(d) > 0, DataEnd(d) <= to,
             left # <<>> => End(d) <= left[1].seq
      PROVE  /\ Fine(<<d>> \o left, q, n, from, to)
             /\ <<d>> \o left # <<>> /\ (<<d>> \o left)[1].seq = c.seq
  <2>1. Fine(<<d>>, q, n, from, to) BY <1>1, FineOne
  <2>2. End(d) \in Nat /\ <<d>> \in Seq(Segs) /\ Len(<<d>>) = 1 /\ <<d>>[1] = d BY SegFacts
  <2>3. /\ <<d>> \o left \in Seq(Segs) /\ Len(<<d>> \o left) = 1 + Len(left)
        /\ (<<d>> \o left)[1] = d
    BY <1>0, <2>2, ConcatProperties
  <2>4. <<d>> \o left # <<>> /\ (<<d>> \o left)[1].seq = c.seq BY <1>0, <1>1, <2>3
  <2>5. CASE left = <<>>
    <3>1. <<d>> \o left = <<d>> BY <2>2, <2>5, ConcatEmptySeq
    <3> QED BY <2>1, <2>4, <3>1
  <2>6. CASE left # <<>>
    <3>1. 1 \in 1..Len(left) BY <1>0, <2>6
    <3>2. left[1].seq \in Nat /\ left[1].seq >= from BY <3>1, FineFacts
    <3>3. \A i \in 1..Len(left) : left[i].seq >= left[1].seq /\ DataEnd(left[i]) <= to
      <4> TAKE i \in 1..Len(left)
      <4>1. left[i].seq \in Nat /\ DataEnd(left[i]) <= to BY FineFacts
      <4>2. CASE i = 1 BY <3>2, <4>1, <4>2
      <4>3. CASE i # 1
        <5>1. 1 < i BY <4>3
        <5>2. left[1].seq < left[i].seq BY <3>1, <5>1, FineFacts
        <5> QED BY <3>2, <4>1, <5>2
      <4> QED BY <4>2, <4>3
    <3>4. Fine(left, q, n, left[1].seq, to) BY <3>3 DEF Fine
    <3>5. \A i \in 1..Len(<<d>>) : End(<<d>>[i]) <= left[1].seq BY <1>1, <2>2, <2>6
    <3>6. Fine(<<d>> \o left, q, n, from, to) BY <2>1, <3>2, <3>4, <3>5, FineConcat
    <3> QED BY <2>4, <3>6
  <2> QED BY <2>5, <2>6
<1>2. CASE left # <<>> /\ left[1].seq < DataEnd(c)
  <2>1. 1 \in 1..Len(left) BY <1>0, <1>2
  <2>2. left[1].seq \in Nat /\ left[1].seq > c.seq BY <1>2, <2>1, FineFacts
  <2> DEFINE d == TrimEnd(c, left[1].seq)
  <2>3. /\ d \in Segs /\ d.seq = c.seq /\ DataEnd(d) = left[1].seq /\ End(d) = left[1].seq
        /\ Piece(d, q, n) /\ TCPLEN(d) > 0
    BY <1>0, <1>2, <2>2, TrimEndFacts
  <2>4. DataEnd(d) <= to BY <1>0, <1>2, <2>2, <2>3
  <2>5. InFront(c, left) = <<d>> \o left BY <1>2 DEF InFront
  <2>6. End(d) <= left[1].seq BY <2>2, <2>3
  <2> HIDE DEF d
  <2> QED BY <1>1, <2>3, <2>4, <2>5, <2>6
<1>3. CASE ~(left # <<>> /\ left[1].seq < DataEnd(c))
  <2>1. InFront(c, left) = <<c>> \o left BY <1>3 DEF InFront
  <2>2. left # <<>> => End(c) <= left[1].seq
    <3> SUFFICES ASSUME left # <<>> PROVE End(c) <= left[1].seq OBVIOUS
    <3>1. 1 \in 1..Len(left) BY <1>0
    <3>2. left[1].seq \in Nat BY <3>1, FineFacts
    <3>3. End(c) = DataEnd(c) BY PieceFacts
    <3> QED BY <1>0, <1>3, <3>2, <3>3
  <2> QED BY <1>1, <2>1, <2>2
<1> QED BY <1>2, <1>3

LEMMA InsertOverFacts ==
  ASSUME NEW c \in Segs, NEW q, NEW n \in Nat, q.nxt \in Nat, Piece(c, q, n), TCPLEN(c) > 0,
         NEW from \in Nat, c.seq >= from, NEW to \in Nat, DataEnd(c) <= to,
         NEW next, Fine(next, q, n, from, to),
         \A i \in 1..Len(next) : \/ next[i].seq > c.seq
                                 \/ next[i].seq = c.seq /\ DataEnd(next[i]) <= DataEnd(c)
  PROVE  /\ Fine(InsertOver(c, next), q, n, from, to)
         /\ InsertOver(c, next) # <<>> /\ InsertOver(c, next)[1].seq = c.seq
<1>0. /\ c.seq \in Nat /\ c.data \in Seq(Nat) /\ DataEnd(c) \in Nat
      /\ DataEnd(c) = c.seq + Len(c.data)
      /\ next \in Seq(Segs) /\ Len(next) \in Nat
  BY SegFacts, FineFacts
<1>1. CASE c.fin
  <2>1. InsertOver(c, next) = <<c>> BY <1>1 DEF InsertOver
  <2>2. Fine(<<c>>, q, n, from, to) BY FineOne
  <2> QED BY <2>1, <2>2
<1>2. CASE ~c.fin
  <2> DEFINE k == Covered(c, next)
             f == \E i \in 1..k : next[i].fin
             d == [c EXCEPT !.fin = f]
             left == After(next, k)
  <2>1. /\ k \in 0..Len(next) /\ \A i \in 1..k : DataEnd(next[i]) <= DataEnd(c)
        /\ k < Len(next) => ~(DataEnd(next[k + 1]) <= DataEnd(c))
    <3> DEFINE S == {i \in 1..Len(next) : DataEnd(next[i]) <= DataEnd(c)}
    <3>1. /\ k \in 0..Len(next) /\ 1..k \subseteq S
          /\ k < Len(next) => k + 1 \notin S
      BY <1>0, RunFacts DEF Covered
    <3> HIDE DEF k
    <3>2. k < Len(next) => k + 1 \in 1..Len(next) BY <1>0, <3>1
    <3> QED BY <3>1, <3>2
  <2>2. InsertOver(c, next) = InFront(d, left) BY <1>2 DEF InsertOver, InPlaceOf
  <2> HIDE DEF k
  <2>3. /\ left \in Seq(Segs) /\ Len(left) = Len(next) - k
        /\ \A i \in 1..Len(next) - k : left[i] = next[k + i]
    BY <1>0, <2>1, AfterFacts
  <2>4. Fine(left, q, n, from, to)
    <3>1. k + 1 \in 1..Len(next) + 1 /\ Len(next) \in k + 1 - 1..Len(next) BY <1>0, <2>1
    <3> QED BY <3>1, FineSub DEF After
  <2>5. f => DataEnd(c) = n + 1
    <3> SUFFICES ASSUME NEW i \in 1..k, next[i].fin PROVE DataEnd(c) = n + 1 OBVIOUS
    <3>1. i \in 1..Len(next) BY <1>0, <2>1
    <3>2. Piece(next[i], q, n) /\ DataEnd(next[i]) \in Nat BY <3>1, FineFacts
    <3>3. DataEnd(next[i]) = n + 1 BY <3>2 DEF Piece
    <3>4. DataEnd(c) <= n + 1 BY PieceFacts
    <3> QED BY <1>0, <2>1, <3>3, <3>4
  <2>6. f => q.fin
    <3> SUFFICES ASSUME NEW i \in 1..k, next[i].fin PROVE q.fin OBVIOUS
    <3>1. i \in 1..Len(next) BY <1>0, <2>1
    <3>2. Piece(next[i], q, n) BY <3>1, FineFacts
    <3> QED BY <3>2 DEF Piece
  <2>7. left # <<>> => ~f
    <3> SUFFICES ASSUME left # <<>>, NEW i \in 1..k, next[i].fin PROVE FALSE OBVIOUS
    <3>1. i \in 1..Len(next) /\ i < Len(next) BY <1>0, <2>1, <2>3
    <3>2. i = Len(next) BY <3>1, FineFacts
    <3> QED BY <3>1, <3>2
  <2>8. f \in BOOLEAN OBVIOUS
  <2> PICK g \in BOOLEAN : g = f BY <2>8
  <2> HIDE DEF f
  <2>9. d \in Segs /\ d.seq = c.seq /\ d.data = c.data /\ d.fin = g /\ d.syn = c.syn
    BY <2>8 DEF Segs
  <2> HIDE DEF d
  <2>10. DataEnd(d) = DataEnd(c) BY <2>9 DEF DataEnd
  <2>11. Piece(d, q, n) BY <2>5, <2>6, <2>9, <2>10 DEF Piece
  <2>12. TCPLEN(d) > 0
    <3>1. TCPLEN(c) = Len(c.data) BY <1>2, PieceFacts
    <3>2. TCPLEN(d) = Len(d.data) \/ TCPLEN(d) = Len(d.data) + 1 BY <2>9, <2>11, PieceFacts
    <3> QED BY <1>0, <2>9, <3>1, <3>2
  <2>13. left # <<>> => left[1].seq > d.seq /\ ~d.fin
    <3> SUFFICES ASSUME left # <<>> PROVE left[1].seq > c.seq /\ ~g
      BY <2>9
    <3>1. 1 \in 1..Len(next) - k /\ k + 1 \in 1..Len(next) /\ k < Len(next) BY <1>0, <2>1, <2>3
    <3>2. left[1] = next[k + 1] BY <2>3, <3>1
    <3>3. ~(DataEnd(next[k + 1]) <= DataEnd(c)) BY <2>1, <3>1
    <3> QED BY <2>7, <3>1, <3>2, <3>3
  <2>14. d.seq >= from /\ DataEnd(d) <= to BY <2>9, <2>10
  <2> HIDE DEF left
  <2>15. /\ Fine(InFront(d, left), q, n, from, to)
         /\ InFront(d, left) # <<>> /\ InFront(d, left)[1].seq = d.seq
    BY <2>4, <2>9, <2>11, <2>12, <2>13, <2>14, InFrontFacts
  <2> QED BY <2>2, <2>9, <2>15
<1> QED BY <1>1, <1>2

\* The segments before a new one, cut where it begins.
LEMMA BeforeFacts ==
  ASSUME NEW b, NEW q, NEW n \in Nat, q.nxt \in Nat, NEW from \in Nat, NEW to \in Nat,
         Fine(b, q, n, from, to), NEW s \in Segs,
         \A i \in 1..Len(b) : b[i].seq < s.seq /\ ~b[i].fin
  PROVE  /\ Fine(Before(b, s), q, n, from, to)
         /\ \A i \in 1..Len(Before(b, s)) : End(Before(b, s)[i]) <= s.seq
<1>0. b \in Seq(Segs) /\ Len(b) \in Nat /\ s.seq \in Nat BY FineFacts, SegFacts
<1> PICK l \in Nat : l = Len(b) BY <1>0
<1>1. ASSUME NEW i \in 1..l
      PROVE  /\ End(b[i]) = DataEnd(b[i]) /\ (i < l => End(b[i]) <= s.seq)
             /\ b[i] \in Segs /\ Piece(b[i], q, n) /\ End(b[i]) \in Nat /\ DataEnd(b[i]) \in Nat
             /\ b[i].seq \in Nat /\ DataEnd(b[i]) <= to /\ b[i].seq >= from
  <2>1. /\ b[i] \in Segs /\ Piece(b[i], q, n) /\ End(b[i]) \in Nat /\ DataEnd(b[i]) \in Nat
        /\ b[i].seq \in Nat /\ DataEnd(b[i]) <= to /\ b[i].seq >= from
    BY FineFacts
  <2>2. End(b[i]) = DataEnd(b[i]) BY <2>1, PieceFacts
  <2>3. ASSUME i < l PROVE End(b[i]) <= s.seq
    <3>1. l \in 1..l BY <2>3
    <3>2. End(b[i]) <= b[l].seq BY <2>3, <3>1, FineFacts
    <3>3. b[l].seq \in Nat /\ b[l].seq < s.seq BY <3>1, FineFacts
    <3> QED BY <1>0, <2>1, <3>2, <3>3
  <2> QED BY <2>1, <2>2, <2>3
<1>2. CASE b # <<>> /\ DataEnd(Last(b)) > s.seq
  <2>1. l \in 1..l /\ Last(b) = b[l] BY <1>0, <1>2 DEF Last
  <2> DEFINE a == SubSeq(b, 1, l - 1)
             d == TrimEnd(b[l], s.seq)
  <2>2. /\ a \in Seq(Segs) /\ Len(a) = l - 1 /\ \A i \in 1..l - 1 : a[i] = b[i]
        /\ Fine(a, q, n, from, to)
    <3>1. 1 \in 1..l + 1 /\ l - 1 \in 1 - 1..l BY <2>1
    <3>2. Fine(a, q, n, from, to) BY <3>1, FineSub
    <3>3. /\ a \in Seq(Segs) /\ Len(a) = l - 1 - 1 + 1
          /\ \A i \in 1..l - 1 - 1 + 1 : a[i] = b[1 + i - 1]
      BY <1>0, <3>1, SubFacts
    <3>4. l - 1 - 1 + 1 = l - 1 /\ \A i \in 1..l - 1 : 1 + i - 1 = i OBVIOUS
    <3> HIDE DEF a
    <3> QED BY <3>2, <3>3, <3>4
  <2>3. /\ d \in Segs /\ d.seq = b[l].seq /\ DataEnd(d) = s.seq /\ End(d) = s.seq
        /\ Piece(d, q, n) /\ TCPLEN(d) > 0
    <3>1. b[l].seq < s.seq /\ ~b[l].fin BY <2>1
    <3>2. s.seq <= DataEnd(b[l]) BY <1>0, <1>1, <1>2, <2>1
    <3> QED BY <1>0, <1>1, <2>1, <3>1, <3>2, TrimEndFacts
  <2>4. Before(b, s) = Append(a, d) BY <1>2, <2>1 DEF Before, Front
  <2> HIDE DEF a, d
  <2>5. Append(a, d) = a \o <<d>> BY <2>2, <2>3, AppendIsConcat
  <2>6. d.seq >= from /\ d.seq \in Nat /\ DataEnd(d) <= to
    <3>1. s.seq < DataEnd(b[l]) /\ DataEnd(b[l]) \in Nat /\ DataEnd(b[l]) <= to
      BY <1>0, <1>1, <1>2, <2>1
    <3> QED BY <1>0, <1>1, <2>1, <2>3, <3>1
  <2>7. Fine(<<d>>, q, n, d.seq, to) BY <2>3, <2>6, FineOne
  <2>8. \A i \in 1..Len(a) : End(a[i]) <= d.seq
    <3> TAKE i \in 1..Len(a)
    <3>1. i \in 1..l /\ i < l /\ a[i] = b[i] BY <2>1, <2>2
    <3>2. End(b[i]) <= b[l].seq BY <2>1, <3>1, FineFacts
    <3> QED BY <2>3, <3>1, <3>2
  <2>9. Fine(a \o <<d>>, q, n, from, to) BY <2>2, <2>6, <2>7, <2>8, FineConcat
  <2>10. Len(Append(a, d)) = l /\ Append(a, d)[l] = d
         /\ \A i \in 1..l - 1 : Append(a, d)[i] = a[i]
    BY <2>1, <2>2, <2>3, AppendProperties
  <2>11. \A i \in 1..l : End(Append(a, d)[i]) <= s.seq
    <3> TAKE i \in 1..l
    <3>1. CASE i = l BY <1>0, <2>3, <2>10, <3>1
    <3>2. CASE i # l
      <4>1. i \in 1..l - 1 /\ i < l BY <3>2
      <4> QED BY <1>1, <2>2, <2>10, <4>1
    <3> QED BY <3>1, <3>2
  <2> QED BY <2>4, <2>5, <2>9, <2>10, <2>11
<1>3. CASE ~(b # <<>> /\ DataEnd(Last(b)) > s.seq)
  <2>1. Before(b, s) = b BY <1>3 DEF Before
  <2>2. \A i \in 1..l : End(b[i]) <= s.seq
    <3> TAKE i \in 1..l
    <3>1. CASE i < l BY <1>1, <3>1
    <3>2. CASE i = l
      <4>1. b # <<>> /\ Last(b) = b[l] BY <1>0, <3>2 DEF Last
      <4>2. DataEnd(b[l]) <= s.seq BY <1>0, <1>1, <1>3, <3>2, <4>1
      <4> QED BY <1>1, <3>2, <4>2
    <3> QED BY <3>1, <3>2
  <2> QED BY <2>1, <2>2
<1> QED BY <1>2, <1>3

LEMMA QueueFacts ==
  ASSUME NEW o, NEW q, NEW n \in Nat, q.nxt \in Nat, NEW from \in Nat, NEW to \in Nat,
         Fine(o, q, n, from, to), NEW s \in Segs, Piece(s, q, n), TCPLEN(s) > 0,
         s.seq >= from, DataEnd(s) <= to, s.seq < to
  PROVE  Fine(Queue(o, s, to), q, n, from, to)
<1> PICK l \in Nat : l = Len(o) BY FineFacts
<1> DEFINE k == Run({j \in 1..Len(o) : o[j].seq < s.seq}, Len(o))
           b == SubSeq(o, 1, k)
           a == After(o, k)
<1>0. /\ s.seq \in Nat /\ s.data \in Seq(Nat) /\ DataEnd(s) \in Nat /\ o \in Seq(Segs)
      /\ DataEnd(s) = s.seq + Len(s.data)
  BY SegFacts, FineFacts
<1>1. k \in 0..l /\ (\A i \in 1..k : o[i].seq < s.seq) /\ (k < l => ~(o[k + 1].seq < s.seq))
  <2> DEFINE S == {j \in 1..l : o[j].seq < s.seq}
  <2>1. k = Run(S, l) OBVIOUS
  <2>2. k \in 0..l /\ 1..k \subseteq S /\ (k < l => k + 1 \notin S) BY <2>1, RunFacts
  <2> HIDE DEF k
  <2>3. k < l => k + 1 \in 1..l BY <2>2
  <2> QED BY <2>2, <2>3
<1>2. Queue(o, s, to) = QueueAt(b, a, s, to) BY DEF Queue, Split
<1> HIDE DEF k
<1>3. /\ b \in Seq(Segs) /\ Len(b) = k /\ \A i \in 1..k : b[i] = o[i]
      /\ Fine(b, q, n, from, to)
  <2>1. 1 \in 1..l + 1 /\ k \in 1 - 1..l /\ k - 1 + 1 = k /\ \A i \in 1..k : 1 + i - 1 = i
    BY <1>1
  <2>2. Fine(b, q, n, from, to) BY <2>1, FineSub
  <2>3. /\ b \in Seq(Segs) /\ Len(b) = k - 1 + 1
        /\ \A i \in 1..k - 1 + 1 : b[i] = o[1 + i - 1]
    BY <1>0, <2>1, SubFacts
  <2> HIDE DEF b
  <2> QED BY <2>1, <2>2, <2>3
<1>4. /\ a \in Seq(Segs) /\ Len(a) = l - k /\ \A i \in 1..l - k : a[i] = o[k + i]
      /\ Fine(a, q, n, from, to)
  <2>1. k + 1 \in 1..l + 1 /\ l \in k + 1 - 1..l BY <1>1
  <2>2. Fine(a, q, n, from, to) BY <2>1, FineSub DEF After
  <2> QED BY <1>0, <1>1, <2>2, AfterFacts, ZenonT(100)
<1> HIDE DEF b, a
<1>5. ASSUME NEW i \in 1..k
      PROVE  /\ b[i].seq < s.seq /\ b[i].seq \in Nat
             /\ i \in 1..l /\ (b[i].fin => i = l)
  <2>1. i \in 1..l BY <1>1
  <2> QED BY <1>1, <1>3, <2>1, FineFacts
<1>6. ASSUME NEW i \in 1..l - k PROVE a[i].seq >= s.seq /\ a[i].seq \in Nat
  <2>1. k + i \in 1..l /\ k + 1 \in 1..l /\ k < l BY <1>1
  <2>4. o[k + 1].seq \in Nat BY <2>1, FineFacts
  <2>2. o[k + 1].seq >= s.seq /\ o[k + 1].seq \in Nat BY <1>0, <1>1, <2>1, <2>4, SMTT(100)
  <2>3. o[k + i].seq >= o[k + 1].seq /\ o[k + i].seq \in Nat
    <3>1. CASE i = 1 BY <2>2, <3>1
    <3>2. CASE i # 1
      <4>1. k + 1 < k + i BY <1>1, <3>2
      <4>2. o[k + 1].seq < o[k + i].seq /\ o[k + i].seq \in Nat BY <2>1, <4>1, FineFacts
      <4> QED BY <2>2, <4>2
    <3> QED BY <3>1, <3>2
  <2> QED BY <1>0, <1>4, <2>2, <2>3, SMTT(100)
<1>7. ASSUME a # <<>>
      PROVE  /\ \A i \in 1..k : ~b[i].fin
             /\ k < l /\ 1 \in 1..l - k
             /\ \A i \in 1..l - k : i # 1 => a[i].seq > a[1].seq
  <2>1. k < l /\ 1 \in 1..l - k BY <1>1, <1>4, <1>7
  <2>2. \A i \in 1..k : ~b[i].fin BY <1>1, <1>5, <2>1
  <2>3. ASSUME NEW i \in 1..l - k, i # 1 PROVE a[i].seq > a[1].seq
    <3>1. i \in 1..Len(a) /\ 1 \in 1..Len(a) /\ 1 < i BY <1>4, <2>1, <2>3
    <3>2. a[1].seq < a[i].seq /\ a[1].seq \in Nat /\ a[i].seq \in Nat BY <3>1, FineFacts, <1>4
    <3> QED BY <3>2
  <2> QED BY <2>1, <2>2, <2>3
<1>8. CASE a # <<>> /\ a[1].seq = s.seq
  <2> DEFINE c == IF Len(s.data) > Len(a[1].data) THEN InsertOver(s, a) ELSE a
  <2>1. Queue(o, s, to) = b \o c BY <1>2, <1>8 DEF QueueAt
  <2>2. Fine(a, q, n, s.seq, to) BY <1>0, <1>4, <1>6 DEF Fine
  <2>3. Fine(c, q, n, s.seq, to)
    <3>1. CASE Len(s.data) > Len(a[1].data)
      <4>1. a[1] \in Segs BY <1>4, <1>7, <1>8
      <4>2. DataEnd(a[1]) = a[1].seq + Len(a[1].data) /\ Len(a[1].data) \in Nat
        BY <4>1, SegFacts
      <4>3. DataEnd(a[1]) <= DataEnd(s) BY <1>0, <1>8, <3>1, <4>2, SMTT(100)
      <4>4. \A i \in 1..Len(a) : \/ a[i].seq > s.seq
                                 \/ a[i].seq = s.seq /\ DataEnd(a[i]) <= DataEnd(s)
        <5> TAKE i \in 1..Len(a)
        <5>1. CASE i = 1 BY <1>8, <4>3, <5>1
        <5>2. CASE i # 1 BY <1>4, <1>7, <1>8, <5>2
        <5> QED BY <5>1, <5>2
      <4>5. s.seq >= s.seq BY <1>0
      <4>6. Fine(InsertOver(s, a), q, n, s.seq, to) BY <1>0, <2>2, <4>4, <4>5, InsertOverFacts
      <4> QED BY <3>1, <4>6
    <3>2. CASE ~(Len(s.data) > Len(a[1].data)) BY <2>2, <3>2
    <3> QED BY <3>1, <3>2
  <2>4. \A i \in 1..Len(b) : End(b[i]) <= s.seq
    <3> TAKE i \in 1..Len(b)
    <3>1. i \in 1..k /\ k + 1 \in 1..l /\ i < k + 1 /\ i \in 1..l BY <1>1, <1>3, <1>7, <1>8
    <3>2. End(o[i]) <= o[k + 1].seq BY <3>1, FineFacts
    <3>3. o[k + 1] = a[1] BY <1>4, <1>7, <1>8
    <3> QED BY <1>3, <1>8, <3>1, <3>2, <3>3
  <2> HIDE DEF c
  <2> QED BY <1>0, <1>3, <2>1, <2>3, <2>4, FineConcat, ZenonT(100)
<1>9. CASE a # <<>> /\ a[1].seq # s.seq
  <2>1. Queue(o, s, to) = Before(b, s) \o InsertOver(s, a) BY <1>2, <1>9 DEF QueueAt
  <2>2. \A i \in 1..Len(a) : a[i].seq > s.seq
    <3> TAKE i \in 1..Len(a)
    <3>1. 1 \in 1..l - k /\ i \in 1..l - k BY <1>4, <1>7, <1>9
    <3>2. a[1].seq > s.seq /\ a[1].seq \in Nat BY <1>0, <1>6, <1>9, <3>1
    <3>3. CASE i = 1 BY <3>2, <3>3
    <3>4. CASE i # 1
      <4>1. a[i].seq > a[1].seq /\ a[i].seq \in Nat BY <1>6, <1>7, <1>9, <3>1, <3>4
      <4> QED BY <1>0, <3>2, <4>1, SMTT(100)
    <3> QED BY <3>3, <3>4
  <2>3. Fine(a, q, n, s.seq, to) BY <1>0, <1>4, <1>6 DEF Fine
  <2>4. s.seq >= s.seq BY <1>0
  <2>5. Fine(InsertOver(s, a), q, n, s.seq, to) BY <1>0, <2>2, <2>3, <2>4, InsertOverFacts
  <2>6. \A i \in 1..Len(b) : b[i].seq < s.seq /\ ~b[i].fin BY <1>3, <1>5, <1>7, <1>9
  <2>7. /\ Fine(Before(b, s), q, n, from, to)
        /\ \A i \in 1..Len(Before(b, s)) : End(Before(b, s)[i]) <= s.seq
    BY <1>3, <2>6, BeforeFacts
  <2> QED BY <1>0, <2>1, <2>5, <2>7, FineConcat
<1>10. CASE a = <<>> /\ b # <<>>
  <2>1. CASE Last(b).fin
    <3>1. Queue(o, s, to) = b BY <1>2, <1>10, <2>1 DEF QueueAt
    <3> QED BY <1>3, <3>1
  <2>2. CASE ~Last(b).fin
    <3> DEFINE d == Limit(s, to - s.seq)
    <3>1. Queue(o, s, to) = Append(Before(b, s), d) BY <1>2, <1>10, <2>2 DEF QueueAt
    <3>2. \A i \in 1..Len(b) : b[i].seq < s.seq /\ ~b[i].fin
      <4> TAKE i \in 1..Len(b)
      <4>1. i \in 1..k /\ Len(a) = 0 BY <1>3, <1>10
      <4>2. k = l BY <1>1, <1>4, <4>1
      <4>3. b[i].fin => i = k BY <1>5, <4>1, <4>2
      <4>4. Last(b) = b[k] BY <1>3 DEF Last
      <4> QED BY <1>5, <2>2, <4>1, <4>3, <4>4
    <3>3. /\ Fine(Before(b, s), q, n, from, to)
          /\ \A i \in 1..Len(Before(b, s)) : End(Before(b, s)[i]) <= s.seq
      BY <1>3, <3>2, BeforeFacts
    <3>4. to - s.seq \in Nat /\ to - s.seq >= 1 BY <1>0
    <3>5. /\ d \in Segs /\ d.seq = s.seq /\ Piece(d, q, n) /\ TCPLEN(d) > 0
          /\ DataEnd(d) <= DataEnd(s)
      BY <3>4, LimitFacts
    <3>6. DataEnd(d) \in Nat BY <3>5, SegFacts
    <3> HIDE DEF d
    <3>7. DataEnd(d) <= to BY <1>0, <3>5, <3>6
    <3>8. d.seq >= s.seq BY <1>0, <3>5
    <3>9. Fine(<<d>>, q, n, s.seq, to) BY <1>0, <3>5, <3>7, <3>8, FineOne
    <3>10. Before(b, s) \in Seq(Segs) BY <3>3, FineFacts
    <3>11. Append(Before(b, s), d) = Before(b, s) \o <<d>> BY <3>5, <3>10, AppendIsConcat
    <3> QED BY <1>0, <3>1, <3>3, <3>9, <3>11, FineConcat
  <2> QED BY <2>1, <2>2
<1>11. CASE a = <<>> /\ b = <<>>
  <2>1. Queue(o, s, to) = <<s>> BY <1>2, <1>11 DEF QueueAt
  <2> QED BY <2>1, FineOne
<1> QED BY <1>8, <1>9, <1>10, <1>11

-----------------------------------------------------------------------------
(* What segments in sequence bring.                                          *)

Units(a, k) == [j \in 1..k |-> a + j - 1]

LEMMA UnitsFacts ==
  ASSUME NEW a \in Nat, a >= 1, NEW k \in Nat
  PROVE  /\ Units(a, k) \in Seq(Nat) /\ Len(Units(a, k)) = k
         /\ \A j \in 1..k : Units(a, k)[j] = a + j - 1
<1>1. \A j \in 1..k : a + j - 1 \in Nat OBVIOUS
<1>2. Units(a, k) \in [1..k -> Nat] BY <1>1 DEF Units
<1>3. Units(a, k) \in Seq(Nat) BY <1>2
<1> QED BY <1>2, <1>3 DEF Units

LEMMA UnitsAre ==
  ASSUME NEW a \in Nat, a >= 1, NEW d \in Seq(Nat), \A j \in 1..Len(d) : d[j] = a + j - 1
  PROVE  d = Units(a, Len(d))
<1>1. Len(d) \in Nat OBVIOUS
<1> PICK k \in Nat : k = Len(d) BY <1>1
<1>2. Units(a, k) \in Seq(Nat) /\ Len(Units(a, k)) = k
      /\ \A j \in 1..k : Units(a, k)[j] = a + j - 1
  BY UnitsFacts
<1>3. \A j \in 1..Len(d) : d[j] = Units(a, k)[j] BY <1>2
<1>4. d = Units(a, k) BY <1>2, <1>3, SeqEqual
<1> QED BY <1>4

LEMMA UnitsConcat ==
  ASSUME NEW a \in Nat, a >= 1, NEW k \in Nat, NEW d \in Seq(Nat),
         \A j \in 1..Len(d) : d[j] = a + k + j - 1
  PROVE  Units(a, k) \o d = Units(a, k + Len(d))
<1> PICK l \in Nat : l = Len(d) OBVIOUS
<1> DEFINE u == Units(a, k)
           c == u \o d
<1>1. u \in Seq(Nat) /\ Len(u) = k /\ \A j \in 1..k : u[j] = a + j - 1 BY UnitsFacts
<1>2. /\ c \in Seq(Nat) /\ Len(c) = k + l
      /\ \A j \in 1..k + l : c[j] = IF j <= k THEN u[j] ELSE d[j - k]
  <2> HIDE DEF u
  <2>1. /\ c \in Seq(Nat) /\ Len(c) = Len(u) + Len(d)
        /\ \A j \in 1..Len(u) + Len(d) : c[j] = IF j <= Len(u) THEN u[j] ELSE d[j - Len(u)]
    BY <1>1, ConcatProperties
  <2> HIDE DEF c
  <2> QED BY <1>1, <2>1
<1> HIDE DEF c, u
<1>3. \A j \in 1..Len(c) : c[j] = a + j - 1
  <2> TAKE j \in 1..Len(c)
  <2>0. j \in 1..k + l BY <1>2
  <2>1. CASE j <= k
    <3>1. j \in 1..k BY <2>0, <2>1
    <3> QED BY <1>1, <1>2, <2>0, <2>1, <3>1
  <2>2. CASE ~(j <= k)
    <3>1. j - k \in 1..l BY <2>0, <2>2
    <3>2. d[j - k] = a + k + (j - k) - 1 BY <3>1
    <3>3. a + k + (j - k) - 1 = a + j - 1 BY <2>0
    <3> QED BY <1>2, <2>0, <2>2, <3>2, <3>3
  <2> QED BY <2>1, <2>2
<1>4. c = Units(a, k + l) BY <1>2, <1>3, UnitsAre
<1> QED BY <1>4 DEF c, u

LEMMA DataOfFacts ==
  ASSUME NEW t, NEW q, NEW n \in Nat, NEW from, NEW to, Fine(t, q, n, from, to),
         Len(t) >= 1, \A i \in 2..Len(t) : DataEnd(t[i - 1]) = t[i].seq
  PROVE  /\ DataEnd(t[Len(t)]) - t[1].seq \in Nat
         /\ DataOf(t) = Units(t[1].seq, DataEnd(t[Len(t)]) - t[1].seq)
<1> PICK k \in Nat : k = Len(t) BY FineFacts
<1>0. k \in 1..k /\ 1 \in 1..k OBVIOUS
<1> PICK a \in Nat : a = t[1].seq BY <1>0, FineFacts
<1>1. ASSUME NEW i \in 1..k
      PROVE  /\ t[i].data \in Seq(Nat) /\ Len(t[i].data) \in Nat
             /\ t[i].seq \in Nat /\ DataEnd(t[i]) = t[i].seq + Len(t[i].data)
             /\ DataEnd(t[i]) \in Nat /\ t[i].seq >= 1 /\ t[i].seq >= a
             /\ \A j \in 1..Len(t[i].data) : t[i].data[j] = t[i].seq + j - 1
  <2>1. t[i] \in Segs /\ Piece(t[i], q, n) BY FineFacts
  <2>2. /\ t[i].data \in Seq(Nat) /\ Len(t[i].data) \in Nat
        /\ t[i].seq \in Nat /\ DataEnd(t[i]) = t[i].seq + Len(t[i].data)
        /\ DataEnd(t[i]) \in Nat
    BY <2>1, SegFacts
  <2>3. t[i].seq >= a
    <3>1. CASE i = 1 BY <2>2, <3>1
    <3>2. CASE i # 1
      <4>1. 1 < i BY <3>2
      <4>2. t[1].seq < t[i].seq BY <1>0, <4>1, FineFacts
      <4> QED BY <2>2, <4>2
    <3> QED BY <3>1, <3>2
  <2> QED BY <2>1, <2>2, <2>3 DEF Piece
<1>2. a >= 1 BY <1>0, <1>1
<1> DEFINE v == [i \in 1..k |-> t[i].data]
           g == [i \in 1..k |-> Units(a, DataEnd(t[i]) - a)]
           Flat(f) == f = [i \in 1..Len(v) |-> IF i = 1 THEN v[i] ELSE f[i - 1] \o v[i]]
           h == CHOOSE f : Flat(f)
<1>3. v \in Seq(Seq(Nat)) /\ Len(v) = k /\ \A i \in 1..k : v[i] = t[i].data
  <2>1. \A i \in 1..k : t[i].data \in Seq(Nat) BY <1>1
  <2>2. v \in [1..k -> Seq(Nat)] BY <2>1
  <2> QED BY <2>2
<1>4. DataOf(t) = h[Len(v)]
  <2>1. DataOf(t) = FlattenSeq(v) BY DEF DataOf
  <2>2. Len(v) # 0 BY <1>0, <1>3
  <2> HIDE DEF v
  <2> QED BY <2>1, <2>2 DEF FlattenSeq
<1> HIDE DEF v
<1>5. \A i \in 1..k : g[i] = Units(a, DataEnd(t[i]) - a) OBVIOUS
<1>6. ASSUME NEW i \in 1..k PROVE g[i] = IF i = 1 THEN v[i] ELSE g[i - 1] \o v[i]
  <2>1. CASE i = 1
    <3>1. DataEnd(t[i]) - a = Len(t[i].data) BY <1>1, <2>1
    <3>2. t[i].data = Units(a, Len(t[i].data)) BY <1>1, <1>2, <2>1, UnitsAre
    <3> QED BY <1>3, <1>5, <2>1, <3>1, <3>2
  <2>2. CASE i # 1
    <3>1. i - 1 \in 1..k /\ i \in 2..k BY <2>2
    <3>2. DataEnd(t[i - 1]) = t[i].seq BY <3>1
    <3> PICK m \in Nat : m = t[i].seq - a BY <1>1
    <3>3. t[i].seq = a + m BY <1>1
    <3>4. g[i - 1] = Units(a, m) BY <1>5, <3>1, <3>2
    <3>5. \A j \in 1..Len(t[i].data) : t[i].data[j] = a + m + j - 1 BY <1>1, <3>3
    <3>6. Units(a, m) \o t[i].data = Units(a, m + Len(t[i].data))
      BY <1>1, <1>2, <3>5, UnitsConcat, ZenonT(100)
    <3>7. DataEnd(t[i]) - a = m + Len(t[i].data)
      <4>1. DataEnd(t[i]) = t[i].seq + Len(t[i].data) BY <1>1
      <4>2. Len(t[i].data) \in Nat BY <1>1
      <4> PICK l \in Nat : l = Len(t[i].data) BY <4>2
      <4>3. DataEnd(t[i]) = a + m + l BY <3>3, <4>1
      <4>4. a + m + l - a = m + l BY <1>2
      <4> QED BY <4>3, <4>4
    <3> QED BY <1>3, <1>5, <2>2, <3>4, <3>6, <3>7
  <2> QED BY <2>1, <2>2
<1>7. Flat(g)
  <2>1. g = [i \in 1..k |-> g[i]] OBVIOUS
  <2> HIDE DEF g
  <2>2. [i \in 1..k |-> g[i]] = [i \in 1..k |-> IF i = 1 THEN v[i] ELSE g[i - 1] \o v[i]]
    BY <1>6
  <2> QED BY <1>3, <2>1, <2>2
<1>8. Flat(h)
  <2> HIDE DEF Flat
  <2> QED BY <1>7
<1> HIDE DEF h, g
<1>9. \A i \in 1..k : h[i] = IF i = 1 THEN v[i] ELSE h[i - 1] \o v[i] BY <1>3, <1>8
<1>10. {i \in 1..k : h[i] # g[i]} = {}
  <2> DEFINE C == {i \in 1..k : h[i] # g[i]}
  <2> SUFFICES ASSUME C # {} PROVE FALSE OBVIOUS
  <2>1. C \subseteq Nat OBVIOUS
  <2>2. PICK i \in C : \A j \in C : i <= j BY <2>1, LeastNumber
  <2>3. i \in 1..k /\ h[i] # g[i] OBVIOUS
  <2>4. i # 1 BY <1>6, <1>9, <2>3
  <2>5. i - 1 \in 1..k /\ i - 1 \notin C BY <2>2, <2>3, <2>4
  <2>6. h[i - 1] = g[i - 1] BY <2>5
  <2> QED BY <1>6, <1>9, <2>3, <2>4, <2>6
<1>11. h[k] = g[k] BY <1>0, <1>10
<1>12. DataEnd(t[k]) - a \in Nat BY <1>0, <1>1, SMTT(100)
<1> QED BY <1>0, <1>3, <1>4, <1>5, <1>11, <1>12

LEMMA InSequenceFacts ==
  ASSUME NEW o, NEW q, NEW n \in Nat, NEW from \in Nat, NEW to, Fine(o, q, n, from, to),
         Len(o) >= 1
  PROVE  LET k == InSequence(o)
             last == o[k]
         IN  /\ k \in 1..Len(o) /\ Last(SubSeq(o, 1, k)) = last /\ last \in Segs
             /\ DataEnd(last) - o[1].seq \in Nat
             /\ DataOf(SubSeq(o, 1, k)) = Units(o[1].seq, DataEnd(last) - o[1].seq)
             /\ Fine(After(o, k), q, n, End(last) + 1, to)
<1> PICK l \in Nat : l = Len(o) BY FineFacts
<1> DEFINE k == InSequence(o)
           t == SubSeq(o, 1, k)
           a == After(o, k)
<1>0. o \in Seq(Segs) BY FineFacts
<1>1. /\ k \in 1..l /\ \A i \in 2..k : End(o[i - 1]) = o[i].seq
      /\ k < l => End(o[k]) # o[k + 1].seq
  <2> DEFINE S == {i \in 1..l : i = 1 \/ End(o[i - 1]) = o[i].seq}
  <2>1. k = Run(S, l) BY DEF InSequence
  <2>2. k \in 0..l /\ 1..k \subseteq S /\ (k < l => k + 1 \notin S) BY <2>1, RunFacts, SMTT(100)
  <2> HIDE DEF k
  <2>3. 1 \in S OBVIOUS
  <2>4. k # 0 BY <2>2, <2>3
  <2>5. k < l => k + 1 \in 1..l /\ k + 1 # 1 /\ k + 1 - 1 = k BY <2>2, <2>4
  <2>6. \A i \in 2..k : i \in S /\ i # 1 BY <2>2
  <2> QED BY <2>2, <2>4, <2>5, <2>6
<1> HIDE DEF k
<1>2. /\ t \in Seq(Segs) /\ Len(t) = k /\ \A i \in 1..k : t[i] = o[i]
      /\ Fine(t, q, n, from, to)
  <2>1. 1 \in 1..l + 1 /\ k \in 1 - 1..l /\ k - 1 + 1 = k /\ \A i \in 1..k : 1 + i - 1 = i
    BY <1>1
  <2>2. Fine(t, q, n, from, to) BY <2>1, FineSub
  <2>3. t \in Seq(Segs) /\ Len(t) = k - 1 + 1 /\ \A i \in 1..k - 1 + 1 : t[i] = o[1 + i - 1]
    BY <1>0, <2>1, SubFacts
  <2> HIDE DEF t
  <2> QED BY <2>1, <2>2, <2>3
<1> HIDE DEF t
<1>3. Last(t) = o[k] /\ o[k] \in Segs /\ t[1] = o[1] /\ t[k] = o[k]
  BY <1>0, <1>1, <1>2 DEF Last
<1>4. \A i \in 2..Len(t) : DataEnd(t[i - 1]) = t[i].seq
  <2> TAKE i \in 2..Len(t)
  <2>1. i \in 2..k /\ i - 1 \in 1..k /\ i \in 1..k /\ i - 1 \in 1..l /\ i - 1 < l BY <1>1, <1>2
  <2>4. i - 1 # Len(o) /\ i - 1 \in 1..Len(o) BY <2>1
  <2>5. o[i - 1] \in Segs /\ Piece(o[i - 1], q, n) BY <2>4, FineFacts
  <2>6. o[i - 1].fin => i - 1 = Len(o) BY <2>4, FineFacts
  <2>2. ~o[i - 1].fin /\ o[i - 1] \in Segs /\ Piece(o[i - 1], q, n) BY <2>4, <2>5, <2>6
  <2>3. End(o[i - 1]) = DataEnd(o[i - 1]) BY <2>2, PieceFacts
  <2> QED BY <1>1, <1>2, <2>1, <2>3
<1>5. /\ DataEnd(t[Len(t)]) - t[1].seq \in Nat
      /\ DataOf(t) = Units(t[1].seq, DataEnd(t[Len(t)]) - t[1].seq)
  BY <1>1, <1>2, <1>4, DataOfFacts
<1>6. Fine(a, q, n, End(o[k]) + 1, to)
  <2>1. Fine(a, q, n, End(o[k]), to) BY <1>1, FineLater
  <2>4. k \in 0..Len(o) BY <1>1
  <2>2. Len(a) = l - k /\ \A i \in 1..l - k : a[i] = o[k + i] BY <1>0, <2>4, AfterFacts
  <2> HIDE DEF a
  <2>3. ASSUME NEW i \in 1..Len(a) PROVE a[i].seq >= End(o[k]) + 1
    <3>1. k < l /\ k + 1 \in 1..l /\ k \in 1..l /\ k < k + 1 /\ 1 \in 1..l - k /\ i \in 1..l - k
      BY <1>1, <2>2
    <3>2. End(o[k]) <= o[k + 1].seq /\ End(o[k]) \in Nat /\ o[k + 1].seq \in Nat
      BY <3>1, FineFacts
    <3>3. o[k + 1].seq > End(o[k]) BY <1>1, <3>1, <3>2
    <3>4. CASE i = 1 BY <2>2, <3>1, <3>2, <3>3, <3>4
    <3>5. CASE i # 1
      <4>1. k + i \in 1..l /\ k + 1 < k + i BY <1>1, <3>1, <3>5
      <4>2. o[k + 1].seq < o[k + i].seq /\ o[k + i].seq \in Nat BY <3>1, <4>1, FineFacts
      <4> QED BY <2>2, <3>1, <3>2, <3>3, <4>2
    <3> QED BY <3>4, <3>5
  <2> QED BY <2>1, <2>3 DEF Fine
<1> QED BY <1>1, <1>2, <1>3, <1>5, <1>6 DEF k, t

-----------------------------------------------------------------------------
(* What a call leaves alone.                                                 *)

SameSnd(p, r) ==
  /\ r.unsent = p.unsent /\ r.unacked = p.unacked /\ r.snd_nxt = p.snd_nxt
  /\ r.snd_lbb = p.snd_lbb /\ r.lastack = p.lastack /\ r.snd_buf = p.snd_buf /\ r.FIN = p.FIN
SameRcv(p, r) ==
  /\ r.state = p.state /\ r.RXCLOSED = p.RXCLOSED
  /\ r.rcv_nxt = p.rcv_nxt /\ r.rcv_wnd = p.rcv_wnd /\ r.ooseq = p.ooseq
SameAnn(p, r) ==
  r.rcv_ann_wnd = p.rcv_ann_wnd /\ r.rcv_ann_right_edge = p.rcv_ann_right_edge

\* The window may have been announced once more.
Told(p, r) ==
  /\ SameRcv(p, r) /\ r.rcv_ann_wnd = p.rcv_ann_wnd
  /\ r.rcv_ann_right_edge \in {p.rcv_ann_right_edge, p.rcv_nxt + p.rcv_ann_wnd}

\* Packets with the acknowledgement and the window of p.
From(p, out) ==
  /\ out \in Seq(Packets)
  /\ \A i \in 1..Len(out) : ~out[i].rst => out[i].ackno = p.rcv_nxt /\ out[i].wnd = p.rcv_ann_wnd

LEMMA AckFacts ==
  ASSUME NEW p \in Pcbs
  PROVE  /\ tcp_ack_now(p) \in Pcbs /\ SameSnd(p, tcp_ack_now(p))
         /\ SameRcv(p, tcp_ack_now(p)) /\ SameAnn(p, tcp_ack_now(p))
         /\ tcp_ack(p) \in Pcbs /\ SameSnd(p, tcp_ack(p))
         /\ SameRcv(p, tcp_ack(p)) /\ SameAnn(p, tcp_ack(p))
<1>1. /\ tcp_ack_now(p) \in Pcbs BY DEF tcp_ack_now, Pcbs
<1>2. SameSnd(p, tcp_ack_now(p)) /\ SameRcv(p, tcp_ack_now(p)) /\ SameAnn(p, tcp_ack_now(p))
  BY DEF tcp_ack_now, Pcbs, SameSnd, SameRcv, SameAnn
<1>3. tcp_ack(p) \in Pcbs
  <2>1. CASE p.ACK_DELAY
    <3>1. tcp_ack(p) = [p EXCEPT !.ACK_DELAY = FALSE, !.ACK_NOW = TRUE] BY <2>1 DEF tcp_ack
    <3> QED BY <3>1, ZenonT(100) DEF Pcbs
  <2>2. CASE ~p.ACK_DELAY
    <3>1. tcp_ack(p) = [p EXCEPT !.ACK_DELAY = TRUE] BY <2>2 DEF tcp_ack
    <3> QED BY <3>1, ZenonT(100) DEF Pcbs
  <2> QED BY <2>1, <2>2
<1>4. SameSnd(p, tcp_ack(p)) /\ SameRcv(p, tcp_ack(p)) /\ SameAnn(p, tcp_ack(p))
  BY DEF tcp_ack, Pcbs, SameSnd, SameRcv, SameAnn
<1> QED BY <1>1, <1>2, <1>3, <1>4

LEMMA StampedFacts ==
  ASSUME NEW p \in Pcbs, NEW s \in Segs
  PROVE  /\ Stamped(p, s) \in Packets /\ Stamped(p, s).ackno = p.rcv_nxt
         /\ Stamped(p, s).wnd = p.rcv_ann_wnd /\ ~Stamped(p, s).rst
BY DEF Stamped, Packet, Packets, Pcbs, Segs

LEMMA FromOne ==
  ASSUME NEW p \in Pcbs, NEW m \in Packets,
         ~m.rst => m.ackno = p.rcv_nxt /\ m.wnd = p.rcv_ann_wnd
  PROVE  From(p, <<m>>)
<1> DEFINE o == <<m>>
<1>1. o \in Seq(Packets) /\ Len(o) = 1 /\ o[1] = m OBVIOUS
<1> HIDE DEF o
<1>2. From(p, o) BY <1>1 DEF From
<1> QED BY <1>2 DEF o

LEMMA FromNone ==
  ASSUME NEW p
  PROVE  From(p, <<>>)
<1> DEFINE o == <<>>
<1>1. o \in Seq(Packets) /\ Len(o) = 0 OBVIOUS
<1> HIDE DEF o
<1>2. From(p, o) BY <1>1 DEF From
<1> QED BY <1>2 DEF o

LEMMA RstFacts ==
  ASSUME NEW p \in Pcbs, NEW seqno \in Nat, NEW ackno \in Nat
  PROVE  From(p, <<tcp_rst(seqno, ackno)>>)
<1> DEFINE m == tcp_rst(seqno, ackno)
<1>1. m \in Packets /\ m.rst
  <2>1. <<>> \in Seq(Nat) OBVIOUS
  <2> QED BY <2>1, Windows DEF tcp_rst, Packet, Packets, Seg
<1> HIDE DEF m
<1>2. From(p, <<m>>) BY <1>1, FromOne
<1> QED BY <1>2 DEF m

LEMMA AnnouncedFacts ==
  ASSUME NEW p \in Pcbs
  PROVE  /\ Announced(p) \in Pcbs /\ SameSnd(p, Announced(p)) /\ SameRcv(p, Announced(p))
         /\ Announced(p).rcv_ann_wnd = p.rcv_ann_wnd
         /\ Announced(p).rcv_ann_right_edge = p.rcv_nxt + p.rcv_ann_wnd
<1>1. p.rcv_nxt \in Nat /\ p.rcv_ann_wnd \in Nat BY DEF Pcbs
<1>2. p.rcv_nxt + p.rcv_ann_wnd \in Nat BY <1>1
<1>3. Announced(p) \in Pcbs BY <1>2 DEF Announced, Pcbs
<1> QED BY <1>3 DEF Announced, Pcbs, SameSnd, SameRcv

LEMMA EmptyAckFacts ==
  ASSUME NEW p \in Pcbs
  PROVE  LET r == tcp_send_empty_ack(p)
         IN  /\ r = Done(r.p, r.out) /\ r.p \in Pcbs
             /\ SameSnd(p, r.p) /\ Told(p, r.p) /\ From(p, r.out)
<1> DEFINE a == Announced(p)
           b == [a EXCEPT !.ACK_DELAY = FALSE, !.ACK_NOW = FALSE]
           s == Seg(p.snd_nxt, <<>>, FALSE, FALSE)
           r == tcp_send_empty_ack(p)
<1>1. r = Done(b, <<Stamped(p, s)>>) BY DEF tcp_send_empty_ack
<1>2. a \in Pcbs /\ SameSnd(p, a) /\ Told(p, a) BY AnnouncedFacts DEF Told
<1> HIDE DEF a
<1>3. b \in Pcbs /\ SameSnd(a, b) /\ SameRcv(a, b) /\ SameAnn(a, b)
  <2>1. b \in Pcbs BY <1>2 DEF Pcbs
  <2> QED BY <1>2, <2>1 DEF Pcbs, SameSnd, SameRcv, SameAnn
<1> HIDE DEF b
<1>4. SameSnd(p, b) /\ Told(p, b) BY <1>2, <1>3 DEF SameSnd, SameRcv, SameAnn, Told
<1>5. s \in Segs
  <2>1. <<>> \in Seq(Nat) /\ p.snd_nxt \in Nat BY DEF Pcbs
  <2> QED BY <2>1 DEF Seg, Segs
<1> HIDE DEF s
<1>6. From(p, <<Stamped(p, s)>>) BY <1>5, StampedFacts, FromOne
<1>7. r.p = b /\ r.out = <<Stamped(p, s)>> BY <1>1 DEF Done
<1> QED BY <1>1, <1>3, <1>4, <1>6, <1>7

-----------------------------------------------------------------------------
(* Output.  The numbers in the queues stay below "top".                      *)

QueuesTo(p, top) == Below(p.unsent, top) /\ Below(p.unacked, top) /\ p.snd_nxt <= top

SameRoom(p, r) ==
  r.snd_lbb = p.snd_lbb /\ r.lastack = p.lastack /\ r.snd_buf = p.snd_buf /\ r.FIN = p.FIN

\* What tcp_output does to a control block.
Pushed(p, r, top) ==
  /\ r.p \in Pcbs /\ QueuesTo(r.p, top) /\ SameRoom(p, r.p) /\ p.snd_nxt <= r.p.snd_nxt
  /\ Told(p, r.p) /\ From(p, r.out)
  /\ p.unsent = <<>> => SameSnd(p, r.p)

UpTo(top) == {s \in Segs : End(s) <= top}

LEMMA UpToFacts ==
  ASSUME NEW q, NEW top
  PROVE  q \in Seq(UpTo(top)) <=> q \in Seq(Segs) /\ Below(q, top)
<1>1. ASSUME q \in Seq(UpTo(top)) PROVE q \in Seq(Segs) /\ Below(q, top)
  BY <1>1 DEF UpTo, Below
<1>2. ASSUME q \in Seq(Segs), Below(q, top) PROVE q \in Seq(UpTo(top))
  <2>1. \A i \in 1..Len(q) : q[i] \in UpTo(top) BY <1>2 DEF UpTo, Below
  <2>2. q = [i \in 1..Len(q) |-> q[i]] /\ Len(q) \in Nat BY <1>2
  <2> QED BY <2>1, <2>2
<1> QED BY <1>1, <1>2

LEMMA SendableFacts ==
  ASSUME NEW S, NEW p, p.unsent \in Seq(S)
  PROVE  Sendable(p) \in Seq(S) /\ Len(Sendable(p)) \in 0..Len(p.unsent)
<1> DEFINE T == {i \in 1..Len(p.unsent) :
                   /\ Fits(p, p.unsent[i])
                   /\ tcp_do_output_nagle(p, i) \/ p.NAGLEMEMERR \/ p.FIN}
           k == Run(T, Len(p.unsent))
<1>1. k \in 0..Len(p.unsent) BY RunFacts
<1> HIDE DEF k
<1>2. SubSeq(p.unsent, 1, k) \in Seq(S) /\ Len(SubSeq(p.unsent, 1, k)) = k
  BY <1>1, SubFacts
<1> QED BY <1>1, <1>2 DEF Sendable, k

LEMMA StampedAll ==
  ASSUME NEW p \in Pcbs, NEW sent \in Seq(Segs)
  PROVE  From(p, [i \in 1..Len(sent) |-> Stamped(p, sent[i])])
<1> DEFINE o == [i \in 1..Len(sent) |-> Stamped(p, sent[i])]
<1>1. \A i \in 1..Len(sent) : /\ o[i] \in Packets /\ o[i].ackno = p.rcv_nxt
                              /\ o[i].wnd = p.rcv_ann_wnd /\ ~o[i].rst
  BY StampedFacts
<1>2. o \in Seq(Packets) /\ Len(o) = Len(sent) BY <1>1
<1> HIDE DEF o
<1>3. From(p, o) BY <1>1, <1>2 DEF From
<1> QED BY <1>3 DEF o

LEMMA OutputSegmentsFacts ==
  ASSUME NEW p \in Pcbs, NEW top \in Nat, QueuesTo(p, top),
         NEW sent \in Seq(UpTo(top)), Len(sent) <= Len(p.unsent)
  PROVE  LET r == tcp_output_segments(p, sent) IN r = Done(r.p, r.out) /\ Pushed(p, r, top)
<1> DEFINE r == tcp_output_segments(p, sent)
<1>0. sent \in Seq(Segs) /\ p.unsent \in Seq(UpTo(top)) /\ p.unacked \in Seq(UpTo(top))
  BY UpToFacts DEF QueuesTo, Pcbs
<1>1. CASE sent = <<>>
  <2> DEFINE a == [p EXCEPT !.NAGLEMEMERR = FALSE]
  <2>1. r = Done(a, <<>>) /\ r.p = a /\ r.out = <<>> BY <1>1 DEF tcp_output_segments, Done
  <2>2. a \in Pcbs BY DEF Pcbs
  <2>3. SameSnd(p, a) /\ SameRcv(p, a) /\ SameAnn(p, a) BY DEF Pcbs, SameSnd, SameRcv, SameAnn
  <2>4. From(p, <<>>) BY FromNone
  <2> HIDE DEF a, r
  <2>5. QueuesTo(a, top) /\ SameRoom(p, a) /\ Told(p, a) /\ p.snd_nxt <= a.snd_nxt
    BY <2>2, <2>3 DEF QueuesTo, SameSnd, SameRcv, SameAnn, SameRoom, Told, Pcbs
  <2>6. r = Done(r.p, r.out) /\ Pushed(p, r, top) BY <2>1, <2>2, <2>3, <2>4, <2>5 DEF Pushed
  <2> QED BY <2>6 DEF r
<1>2. CASE sent # <<>>
  <2> DEFINE a == Announced(p)
             u == After(p.unsent, Len(sent))
             v == Placed(p.unacked, sent)
             M == {p.snd_nxt} \cup {End(s) : s \in ToSet(sent)}
             w == Max(M)
             x == a.ACK_DELAY /\ p.state = "SYN_SENT"
             y == a.ACK_NOW /\ p.state = "SYN_SENT"
             b == [a EXCEPT !.unsent = u, !.unacked = v, !.snd_nxt = w,
                            !.NAGLEMEMERR = FALSE, !.rtime = TRUE,
                            !.ACK_DELAY = x, !.ACK_NOW = y]
             o == [i \in 1..Len(sent) |-> Stamped(p, sent[i])]
  <2>1. a \in Pcbs /\ SameSnd(p, a) /\ Told(p, a) BY AnnouncedFacts DEF Told
  <2>2. u \in Seq(UpTo(top)) BY <1>0, AfterFacts
  <2>3. v \in Seq(UpTo(top)) BY <1>0, PlacedFacts
  <2>4. w \in Nat /\ p.snd_nxt <= w /\ w <= top
    <3>1. \A s \in ToSet(sent) : End(s) \in Nat /\ End(s) <= top
      <4> TAKE s \in ToSet(sent)
      <4>1. s \in UpTo(top) BY DEF ToSet
      <4> QED BY <4>1, SegFacts DEF UpTo
    <3>2. p.snd_nxt \in Nat /\ p.snd_nxt <= top BY DEF Pcbs, QueuesTo
    <3>3. M \subseteq Nat /\ p.snd_nxt \in M /\ \A z \in M : z <= top BY <3>1, <3>2
    <3> HIDE DEF M
    <3>4. w \in M /\ \A z \in M : w >= z BY <3>3, MaxOfMany
    <3> QED BY <3>3, <3>4
  <2>5. From(p, o) BY <1>0, StampedAll
  <2>6. r = Done(b, o)
    <3>1. a.unsent = p.unsent /\ a.unacked = p.unacked /\ a.snd_nxt = p.snd_nxt
      BY <2>1 DEF SameSnd
    <3> HIDE DEF a
    <3>2. r = Done([a EXCEPT !.unsent = After(@, Len(sent)),
                             !.unacked = Placed(@, sent),
                             !.snd_nxt = Max({@} \cup {End(s) : s \in ToSet(sent)}),
                             !.NAGLEMEMERR = FALSE, !.rtime = TRUE,
                             !.ACK_DELAY = @ /\ p.state = "SYN_SENT",
                             !.ACK_NOW = @ /\ p.state = "SYN_SENT"], o)
      BY <1>2 DEF tcp_output_segments, a
    <3> HIDE DEF r, o
    <3> QED BY <2>1, <3>1, <3>2
  <2>15. x \in BOOLEAN /\ y \in BOOLEAN OBVIOUS
  <2> HIDE DEF a, u, v, w, o, x, y
  <2>7. u \in Seq(Segs) /\ v \in Seq(Segs) /\ Below(u, top) /\ Below(v, top)
    BY <2>2, <2>3, UpToFacts
  <2>8. b \in Pcbs BY <2>1, <2>4, <2>7, <2>15, ZenonT(100) DEF Pcbs
  <2>9. /\ b.unsent = u /\ b.unacked = v /\ b.snd_nxt = w
        /\ SameRoom(a, b) /\ SameRcv(a, b) /\ SameAnn(a, b)
    BY <2>1 DEF Pcbs, SameRoom, SameRcv, SameAnn
  <2>13. r.p = b /\ r.out = o BY <2>6 DEF Done
  <2> HIDE DEF b
  <2>10. QueuesTo(b, top) /\ SameRoom(p, b) /\ Told(p, b)
    BY <2>1, <2>4, <2>7, <2>9 DEF QueuesTo, SameSnd, SameRoom, SameRcv, SameAnn, Told
  <2>12. p.unsent # <<>>
    <3>1. Len(sent) # 0 BY <1>2
    <3> QED BY <3>1
  <2> HIDE DEF r
  <2>14. r = Done(r.p, r.out) /\ Pushed(p, r, top)
    BY <2>4, <2>5, <2>6, <2>8, <2>9, <2>10, <2>12, <2>13 DEF Pushed
  <2> QED BY <2>14 DEF r
<1> QED BY <1>1, <1>2

LEMMA OutputFacts ==
  ASSUME NEW p \in Pcbs, NEW top \in Nat, QueuesTo(p, top)
  PROVE  LET r == tcp_output(p) IN r = Done(r.p, r.out) /\ Pushed(p, r, top)
<1> DEFINE r == tcp_output(p)
<1>1. CASE p.ACK_NOW /\ (p.unsent = <<>> \/ ~Fits(p, p.unsent[1]))
  <2>1. r = tcp_send_empty_ack(p) BY <1>1 DEF tcp_output
  <2>2. /\ r = Done(r.p, r.out) /\ r.p \in Pcbs
        /\ SameSnd(p, r.p) /\ Told(p, r.p) /\ From(p, r.out)
    BY <2>1, EmptyAckFacts
  <2> HIDE DEF r
  <2>3. QueuesTo(r.p, top) /\ SameRoom(p, r.p) /\ p.snd_nxt <= r.p.snd_nxt
    BY <2>2 DEF QueuesTo, SameSnd, SameRoom, Pcbs
  <2>4. r = Done(r.p, r.out) /\ Pushed(p, r, top) BY <2>2, <2>3 DEF Pushed
  <2> QED BY <2>4 DEF r
<1>2. CASE ~(p.ACK_NOW /\ (p.unsent = <<>> \/ ~Fits(p, p.unsent[1])))
  <2>1. r = tcp_output_segments(p, Sendable(p)) BY <1>2 DEF tcp_output
  <2>2. p.unsent \in Seq(UpTo(top)) BY UpToFacts DEF QueuesTo, Pcbs
  <2>3. Sendable(p) \in Seq(UpTo(top)) /\ Len(Sendable(p)) <= Len(p.unsent)
    BY <2>2, SendableFacts
  <2> QED BY <2>1, <2>3, OutputSegmentsFacts
<1> QED BY <1>1, <1>2

\* The SYN, sent for the first time or again.
Syn == Seg(0, <<>>, TRUE, FALSE)

LEMMA SynFacts == Syn \in Segs /\ Syn.seq = 0 /\ Syn.data = <<>> /\ TCPLEN(Syn) = 1 /\ End(Syn) = 1
<1>1. Syn \in Segs /\ Syn.seq = 0 /\ Syn.data = <<>> /\ Syn.syn
  <2>1. <<>> \in Seq(Nat) OBVIOUS
  <2> QED BY <2>1 DEF Syn, Seg, Segs
<1>2. Len(Syn.data) = 0 BY <1>1
<1> QED BY <1>1, <1>2, SegFacts

LEMMA SynOutput ==
  ASSUME NEW p \in Pcbs, p.state = "SYN_SENT", p.unsent = <<Syn>>, p.unacked = <<>>,
         p.ooseq = <<>>, p.snd_lbb = 1, p.lastack = 0, p.snd_nxt = 1,
         p.snd_buf = TCP_SND_BUF - 1, p.rcv_nxt = 0, p.rcv_wnd = TCP_WND,
         p.rcv_ann_wnd = TCP_WND, ~p.RXCLOSED, ~p.FIN
  PROVE  LET r == tcp_output(p)
         IN  /\ r = Done(r.p, r.out) /\ r.p \in Pcbs /\ r.p.state = "SYN_SENT" /\ SynOK(r.p)
             /\ From(p, r.out)
<1> DEFINE r == tcp_output(p)
<1>1. Len(p.unsent) = 1 /\ p.unsent[1] = Syn /\ p.unsent \in Seq(Segs)
  <2>1. p.unsent \in Seq(Segs) BY DEF Pcbs
  <2>2. Len(<<Syn>>) = 1 /\ <<Syn>>[1] = Syn OBVIOUS
  <2> QED BY <2>1, <2>2
<1>2. Fits(p, p.unsent[1])
  <2>1. p.snd_wnd \in Nat /\ p.cwnd \in Nat BY Windows DEF Pcbs
  <2>2. Min({p.snd_wnd, p.cwnd}) \in Nat BY <2>1, MinOfTwo
  <2>3. Len(Syn.data) = 0 /\ Syn.seq = 0 BY SynFacts
  <2> QED BY <1>1, <2>2, <2>3 DEF Fits
<1>3. Sendable(p) = <<Syn>>
  <2> DEFINE T == {i \in 1..Len(p.unsent) :
                     /\ Fits(p, p.unsent[i])
                     /\ tcp_do_output_nagle(p, i) \/ p.NAGLEMEMERR \/ p.FIN}
  <2>1. 1 \in T BY <1>1, <1>2 DEF tcp_do_output_nagle
  <2> HIDE DEF T
  <2>2. Run(T, 1) = 1 BY <2>1, RunOfOne
  <2>3. Sendable(p) = SubSeq(p.unsent, 1, 1) BY <1>1, <2>2 DEF Sendable, T
  <2>4. 1 \in 1..Len(p.unsent) + 1 /\ 1 \in 1 - 1..Len(p.unsent) BY <1>1
  <2>5. /\ SubSeq(p.unsent, 1, 1) \in Seq(Segs) /\ Len(SubSeq(p.unsent, 1, 1)) = 1 - 1 + 1
        /\ \A i \in 1..1 - 1 + 1 : SubSeq(p.unsent, 1, 1)[i] = p.unsent[1 + i - 1]
    BY <1>1, <2>4, SubFacts
  <2> DEFINE z == SubSeq(p.unsent, 1, 1)
  <2>6. z \in Seq(Segs) /\ Len(z) = 1 /\ z[1] = Syn BY <1>1, <2>5
  <2> HIDE DEF z
  <2>7. z = <<Syn>> BY <2>6
  <2> QED BY <2>3, <2>7 DEF z
<1>4. r = tcp_output_segments(p, <<Syn>>) BY <1>1, <1>2, <1>3 DEF tcp_output
<1>5. r.p.unsent = <<>> /\ r.p.unacked = <<Syn>>
  <2> DEFINE s == <<Syn>>
             u == After(p.unsent, Len(s))
             v == Placed(p.unacked, s)
             a == Announced(p)
  <2>1. s \in Seq(Segs) /\ Len(s) = 1 /\ s[1] = Syn /\ s # <<>> BY SynFacts
  <2>2. u = <<>>
    <3>2. 1 \in 0..Len(p.unsent) BY <1>1
    <3>1. After(p.unsent, 1) \in Seq(Segs) /\ Len(After(p.unsent, 1)) = Len(p.unsent) - 1
      BY <1>1, <3>2, AfterFacts
    <3> QED BY <1>1, <2>1, <3>1
  <2>3. v = <<Syn>>
    <3>1. p.unacked \in Seq(Segs) BY DEF Pcbs
    <3>2. v = Place(p.unacked, Syn) BY <2>1, <3>1, PlacedFacts
    <3> QED BY <3>2 DEF Place
  <2>4. a \in Pcbs /\ a.unsent = p.unsent /\ a.unacked = p.unacked
    BY AnnouncedFacts DEF SameSnd
  <2> HIDE DEF s, a
  <2>5. r.p = [a EXCEPT !.unsent = After(@, Len(s)), !.unacked = Placed(@, s),
                        !.snd_nxt = Max({@} \cup {End(x) : x \in ToSet(s)}),
                        !.NAGLEMEMERR = FALSE, !.rtime = TRUE,
                        !.ACK_DELAY = @ /\ p.state = "SYN_SENT",
                        !.ACK_NOW = @ /\ p.state = "SYN_SENT"]
    BY <1>4, <2>1 DEF tcp_output_segments, Done, s, a
  <2>6. r.p.unsent = u /\ r.p.unacked = v BY <2>4, <2>5 DEF Pcbs
  <2> QED BY <2>2, <2>3, <2>6
<1>6. QueuesTo(p, 1)
  <2>1. Below(p.unsent, 1) BY <1>1, SynFacts DEF Below
  <2>2. Below(p.unacked, 1) BY DEF Below
  <2> QED BY <2>1, <2>2 DEF QueuesTo
<1>7. r = Done(r.p, r.out) /\ Pushed(p, r, 1) BY <1>6, OutputFacts
<1> HIDE DEF r
<1>8. r.p \in Pcbs /\ r.p.state = "SYN_SENT" /\ From(p, r.out)
  BY <1>7 DEF Pushed, Told, SameRcv
<1>9. SynOK(r.p)
  <2>1. r.p.snd_nxt \in Nat /\ r.p.snd_nxt <= 1 /\ 1 <= r.p.snd_nxt
    BY <1>7, <1>8 DEF Pushed, QueuesTo, Pcbs
  <2>2. r.p.snd_nxt = 1 BY <2>1
  <2> QED BY <1>5, <1>7, <2>2 DEF Pushed, Told, SameRcv, SameRoom, SynOK, Syn
<1> QED BY <1>7, <1>8, <1>9 DEF r

-----------------------------------------------------------------------------
(* Writing, closing and sending again.                                       *)

\* The sending side may have changed, the receiving one has not.
KeepsRcv(p, r) == r \in Pcbs /\ SameRcv(p, r) /\ SameAnn(p, r)

LEMMA TopFacts ==
  ASSUME NEW p \in Pcbs, SndOK(p)
  PROVE  Top(p) \in Nat /\ QueuesTo(p, Top(p))
BY SMTT(100) DEF Pcbs, SndOK, Top, QueuesTo

LEMMA PushedSnd ==
  ASSUME NEW p \in Pcbs, SndOK(p), NEW r, Pushed(p, r, Top(p))
  PROVE  SndOK(r.p)
<1>1. Top(r.p) = Top(p) /\ r.p \in Pcbs BY DEF Pushed, SameRoom, Top
<1>2. p.lastack \in Nat /\ p.snd_nxt \in Nat /\ r.p.snd_nxt \in Nat BY <1>1 DEF Pcbs
<1> QED BY <1>1, <1>2 DEF SndOK, Pushed, SameRoom, QueuesTo, Told, SameRcv, CanWrite

LEMMA WriteFacts ==
  ASSUME NEW p \in Pcbs, SndOK(p), CanWrite(p), p.snd_buf > 0, NEW unit \in Nat, NEW mem \in BOOLEAN
  PROVE  KeepsRcv(p, tcp_write(p, unit, mem)) /\ SndOK(tcp_write(p, unit, mem))
<1> DEFINE r == tcp_write(p, unit, mem)
           q == p.unsent
           s == Last(q)
           d == Append(s.data, unit)
           t == Longer(s, unit)
           room == q # <<>> /\ Len(Last(q).data) \in 1..MssLocal - 1
           u == Written(q, unit, p.snd_lbb)
           to == p.snd_lbb + 1
<1>1. CASE ~mem
  <2>1. r = [p EXCEPT !.NAGLEMEMERR = TRUE] BY <1>1 DEF tcp_write
  <2> HIDE DEF r
  <2>4. r \in Pcbs BY <2>1 DEF Pcbs
  <2>5. SameSnd(p, r) BY <2>1 DEF Pcbs, SameSnd
  <2>6. SameRcv(p, r) BY <2>1 DEF Pcbs, SameRcv
  <2>7. SameAnn(p, r) BY <2>1 DEF Pcbs, SameAnn
  <2>2. r \in Pcbs /\ SameSnd(p, r) /\ SameRcv(p, r) /\ SameAnn(p, r) BY <2>4, <2>5, <2>6, <2>7
  <2>3. KeepsRcv(p, r) /\ SndOK(r) BY <2>2 DEF KeepsRcv, SndOK, SameSnd, SameRcv, Top, CanWrite
  <2> QED BY <2>3 DEF r
<1>2. CASE mem
  <2>0. /\ q \in Seq(Segs) /\ p.snd_lbb \in Nat /\ p.snd_buf \in Nat /\ p.lastack \in Nat
        /\ ~p.FIN /\ Top(p) = p.snd_lbb /\ Below(q, p.snd_lbb)
    BY DEF Pcbs, SndOK, Top
  <2>1. u \in Seq(Segs) /\ Below(u, to)
    <3>1. CASE room
      <4> PICK l \in Nat : l = Len(q) BY <2>0
      <4>1. l >= 1 /\ l \in 1..l /\ s = q[l] /\ s \in Segs BY <2>0, <3>1 DEF Last
      <4>5. u = [q EXCEPT ![l] = t] BY <3>1 DEF Written
      <4> HIDE DEF s, u
      <4>2. d \in Seq(Nat) /\ Len(d) = Len(s.data) + 1 BY <4>1, SegFacts
      <4>8. t = [s EXCEPT !.data = d] BY DEF Longer
      <4> HIDE DEF d, t
      <4>3. t \in Segs /\ t.seq = s.seq /\ t.data = d /\ t.syn = s.syn /\ t.fin = s.fin
        BY <4>1, <4>2, <4>8 DEF Segs
      <4>4. End(t) = End(s) + 1
        <5>1. /\ s.seq \in Nat /\ Len(s.data) \in Nat /\ End(s) = s.seq + TCPLEN(s)
              /\ End(t) = t.seq + TCPLEN(t)
          BY <4>1, <4>3, SegFacts
        <5>2. /\ (s.syn \/ s.fin) => TCPLEN(s) = Len(s.data) + 1
              /\ ~(s.syn \/ s.fin) => TCPLEN(s) = Len(s.data)
          BY <4>1, SegFacts
        <5>3. /\ (t.syn \/ t.fin) => TCPLEN(t) = Len(t.data) + 1
              /\ ~(t.syn \/ t.fin) => TCPLEN(t) = Len(t.data)
          BY <4>3, SegFacts
        <5>4. (t.syn \/ t.fin) <=> (s.syn \/ s.fin) BY <4>3
        <5>5. TCPLEN(t) = TCPLEN(s) + 1
          <6>1. CASE s.syn \/ s.fin BY <4>2, <4>3, <5>1, <5>2, <5>3, <5>4, <6>1
          <6>2. CASE ~(s.syn \/ s.fin) BY <4>2, <4>3, <5>1, <5>2, <5>3, <5>4, <6>2
          <6> QED BY <6>1, <6>2
        <5>6. TCPLEN(s) \in Nat BY <4>1, SegFacts
        <5> QED BY <4>3, <5>1, <5>5, <5>6
      <4>6. u \in Seq(Segs) /\ Len(u) = l /\ \A i \in 1..l : u[i] = IF i = l THEN t ELSE q[i]
        BY <2>0, <4>1, <4>3, <4>5
      <4>7. ASSUME NEW i \in 1..l PROVE End(u[i]) <= to
        <5>1. End(q[i]) <= p.snd_lbb /\ End(q[i]) \in Nat
          <6>1. q[i] \in Segs BY <2>0
          <6> QED BY <2>0, <6>1, SegFacts DEF Below
        <5>2. End(q[l]) <= p.snd_lbb /\ End(q[l]) \in Nat BY <2>0, <4>1, SegFacts DEF Below
        <5> QED BY <2>0, <4>1, <4>4, <4>6, <5>1, <5>2
      <4> QED BY <4>6, <4>7 DEF Below
    <3>2. CASE ~room
      <4> DEFINE e == Seg(p.snd_lbb, <<unit>>, FALSE, FALSE)
      <4>1. e \in Segs /\ e.seq = p.snd_lbb /\ e.data = <<unit>> /\ ~e.fin /\ ~e.syn
        <5>1. <<unit>> \in Seq(Nat) OBVIOUS
        <5> QED BY <2>0, <5>1 DEF Seg, Segs
      <4>2. End(e) = to
        <5> HIDE DEF e
        <5>1. Len(<<unit>>) = 1 OBVIOUS
        <5> QED BY <2>0, <4>1, <5>1, SegFacts
      <4> HIDE DEF e
      <4>3. u = Append(q, e) BY <3>2 DEF e, Written
      <4> HIDE DEF u
      <4>4. u \in Seq(Segs) /\ Len(u) = Len(q) + 1 /\ u[Len(q) + 1] = e
            /\ \A i \in 1..Len(q) : u[i] = q[i]
        BY <2>0, <4>1, <4>3
      <4>5. ASSUME NEW i \in 1..Len(q) + 1 PROVE End(u[i]) <= to
        <5>1. CASE i \in 1..Len(q)
          <6>1. q[i] \in Segs BY <2>0, <5>1
          <6>2. End(q[i]) <= p.snd_lbb /\ End(q[i]) \in Nat BY <2>0, <5>1, <6>1, SegFacts DEF Below
          <6> QED BY <2>0, <4>4, <5>1, <6>2
        <5>2. CASE i = Len(q) + 1 BY <2>0, <4>2, <4>4, <5>2
        <5>3. i \in 1..Len(q) \/ i = Len(q) + 1 BY <2>0
        <5> QED BY <5>1, <5>2, <5>3
      <4> QED BY <4>4, <4>5 DEF Below
    <3> QED BY <3>1, <3>2
  <2>2. r = [p EXCEPT !.unsent = u, !.snd_lbb = p.snd_lbb + 1, !.snd_buf = p.snd_buf - 1]
    BY <1>2 DEF tcp_write
  <2> HIDE DEF u
  <2>3. to \in Nat /\ p.snd_buf - 1 \in Nat BY <2>0
  <2>4. r \in Pcbs BY <2>1, <2>2, <2>3, ZenonT(100) DEF Pcbs
  <2>5. /\ SameRcv(p, r) /\ SameAnn(p, r) /\ r.unsent = u /\ r.unacked = p.unacked
        /\ r.snd_lbb = to /\ r.snd_buf = p.snd_buf - 1 /\ r.lastack = p.lastack
        /\ r.snd_nxt = p.snd_nxt /\ r.FIN = p.FIN
    BY <2>2 DEF Pcbs, SameRcv, SameAnn
  <2> HIDE DEF r
  <2>6. Top(r) = to /\ TCP_SND_BUF \in Nat BY <2>0, <2>5, Windows DEF Top
  <2>7. Below(p.unacked, to)
    <3>1. p.unacked \in Seq(Segs) /\ Below(p.unacked, p.snd_lbb) BY <2>0 DEF SndOK, Pcbs
    <3>2. ASSUME NEW i \in 1..Len(p.unacked) PROVE End(p.unacked[i]) <= to
      <4>1. p.unacked[i] \in Segs BY <3>1
      <4> QED BY <2>0, <3>1, <4>1, SegFacts, SMTT(100) DEF Below
    <3> QED BY <3>2 DEF Below
  <2>8. p.snd_nxt \in Nat /\ p.snd_nxt <= p.snd_lbb /\ p.lastack <= p.snd_nxt
        /\ p.snd_buf = TCP_SND_BUF - (p.snd_lbb - p.lastack)
    BY <2>0 DEF SndOK, Pcbs
  <2>9. p.snd_nxt <= to /\ p.snd_buf - 1 = TCP_SND_BUF - (to - p.lastack)
    BY <2>0, <2>6, <2>8, SMTT(100)
  <2>10. KeepsRcv(p, r) /\ SndOK(r)
    BY <2>0, <2>1, <2>4, <2>5, <2>6, <2>7, <2>8, <2>9 DEF KeepsRcv, SndOK
  <2> QED BY <2>10 DEF r
<1> QED BY <1>1, <1>2

\* The FIN enters the queue and the state moves on.
LEMMA SendFinFacts ==
  ASSUME NEW p \in Pcbs, SndOK(p), ~p.FIN, p.unsent # <<>> \/ p.snd_buf > 0,
         NEW to \in {"FIN_WAIT_1", "LAST_ACK"}
  PROVE  LET r == [tcp_send_fin(p) EXCEPT !.state = to]
         IN  /\ r \in Pcbs /\ SndOK(r) /\ SameAnn(p, r) /\ r.state = to
             /\ SameRcv([p EXCEPT !.state = to], r)
<1> DEFINE f == tcp_send_fin(p)
           r == [f EXCEPT !.state = to]
           q == p.unsent
<1>0. /\ q \in Seq(Segs) /\ p.snd_lbb \in Nat /\ p.snd_buf \in Nat /\ p.lastack \in Nat
      /\ p.snd_nxt \in Nat /\ p.unacked \in Seq(Segs) /\ Top(p) = p.snd_lbb
      /\ Below(q, p.snd_lbb) /\ Below(p.unacked, p.snd_lbb)
      /\ p.lastack <= p.snd_nxt /\ p.snd_nxt <= p.snd_lbb
      /\ p.snd_buf = TCP_SND_BUF - (p.snd_lbb - p.lastack) /\ TCP_SND_BUF \in Nat
  BY Windows, SMTT(100) DEF Pcbs, SndOK, Top
<1>1. \A s \in Segs : End(s) \in Nat BY SegFacts
<1>2. /\ to \in States /\ to \notin {"ESTABLISHED", "CLOSE_WAIT"} BY DEF States, Open
<1>3. CASE q # <<>>
  <2> PICK l \in Nat : l = Len(q) BY <1>0
  <2> DEFINE s == q[l]
             t == [s EXCEPT !.fin = TRUE]
             u == [q EXCEPT ![l] = t]
  <2>1. l >= 1 /\ l \in 1..l /\ s \in Segs BY <1>0, <1>3
  <2>14. q[l] = s OBVIOUS
  <2> HIDE DEF s
  <2>2. t \in Segs /\ t.seq = s.seq /\ t.data = s.data /\ t.fin BY <2>1 DEF Segs
  <2> HIDE DEF t
  <2>3. End(t) <= End(s) + 1
    <3>1. /\ s.seq \in Nat /\ Len(s.data) \in Nat /\ End(s) = s.seq + TCPLEN(s)
          /\ End(t) = t.seq + TCPLEN(t) /\ TCPLEN(t) = Len(t.data) + 1
          /\ (TCPLEN(s) = Len(s.data) \/ TCPLEN(s) = Len(s.data) + 1)
      BY <2>1, <2>2, SegFacts
    <3> QED BY <2>2, <3>1
  <2>4. u \in Seq(Segs) /\ Len(u) = l /\ \A i \in 1..l : u[i] = IF i = l THEN t ELSE q[i]
    BY <1>0, <2>1, <2>2
  <2>5. r = [[p EXCEPT !.unsent = u, !.FIN = TRUE] EXCEPT !.state = to]
    BY <1>3 DEF tcp_send_fin, t, s
  <2> HIDE DEF u
  <2>6. \A i \in 1..l : End(u[i]) <= p.snd_lbb + 1
    <3> TAKE i \in 1..l
    <3>1. q[i] \in Segs /\ End(q[i]) <= p.snd_lbb BY <1>0 DEF Below
    <3>2. End(q[l]) <= p.snd_lbb BY <1>0, <2>1 DEF Below
    <3>3. End(q[i]) \in Nat /\ End(t) \in Nat /\ End(s) \in Nat BY <1>1, <2>1, <2>2, <3>1
    <3>4. CASE i = l BY <1>0, <2>3, <2>4, <2>14, <3>2, <3>3, <3>4, SMTT(100)
    <3>5. CASE i # l BY <1>0, <2>4, <3>1, <3>3, <3>5
    <3> QED BY <3>4, <3>5
  <2> HIDE DEF r
  <2>7. r \in Pcbs BY <1>2, <2>4, <2>5 DEF Pcbs
  <2>8. /\ SameRcv([p EXCEPT !.state = to], r) /\ SameAnn(p, r) /\ r.state = to
        /\ r.unsent = u /\ r.unacked = p.unacked /\ r.snd_nxt = p.snd_nxt /\ r.FIN
        /\ r.snd_lbb = p.snd_lbb /\ r.lastack = p.lastack /\ r.snd_buf = p.snd_buf
    BY <2>5 DEF Pcbs, SameRcv, SameAnn
  <2> HIDE DEF r
  <2>9. Top(r) = p.snd_lbb + 1 BY <2>8 DEF Top
  <2>10. Below(r.unsent, Top(r)) BY <2>4, <2>6, <2>8, <2>9 DEF Below
  <2>11. Below(r.unacked, Top(r))
    <3> SUFFICES ASSUME NEW i \in 1..Len(p.unacked) PROVE End(p.unacked[i]) <= p.snd_lbb + 1
      BY <2>8, <2>9 DEF Below
    <3>1. p.unacked[i] \in Segs /\ End(p.unacked[i]) <= p.snd_lbb BY <1>0 DEF Below
    <3> QED BY <1>0, <1>1, <3>1
  <2>12. p.snd_nxt <= p.snd_lbb + 1 BY <1>0
  <2>13. SndOK(r) BY <1>0, <1>2, <2>8, <2>9, <2>10, <2>11, <2>12 DEF SndOK, CanWrite
  <2> QED BY <2>7, <2>8, <2>13 DEF r
<1>4. CASE q = <<>>
  <2> DEFINE e == Seg(p.snd_lbb, <<>>, FALSE, TRUE)
             u == Append(q, e)
  <2>1. e \in Segs /\ e.seq = p.snd_lbb /\ e.data = <<>> /\ e.fin
    <3>1. <<>> \in Seq(Nat) OBVIOUS
    <3> QED BY <1>0, <3>1 DEF Seg, Segs
  <2> HIDE DEF e
  <2>2. End(e) = p.snd_lbb + 1
    <3>1. Len(e.data) = 0 BY <2>1
    <3>2. End(e) = e.seq + TCPLEN(e) /\ TCPLEN(e) = Len(e.data) + 1 BY <2>1, SegFacts
    <3> QED BY <1>0, <2>1, <3>1, <3>2
  <2>3. u \in Seq(Segs) /\ Len(u) = 1 /\ u[1] = e BY <1>0, <1>4, <2>1
  <2>4. r = [[p EXCEPT !.unsent = u, !.snd_lbb = p.snd_lbb + 1, !.snd_buf = p.snd_buf - 1,
                       !.FIN = p.FIN \/ TRUE] EXCEPT !.state = to]
    BY <1>4 DEF tcp_send_fin, tcp_enqueue_flags, e
  <2> HIDE DEF u
  <2>5. p.snd_lbb + 1 \in Nat /\ p.snd_buf - 1 \in Nat /\ (p.FIN \/ TRUE) = TRUE BY <1>0, <1>4
  <2> HIDE DEF r
  <2>6. r \in Pcbs BY <1>2, <2>3, <2>4, <2>5, ZenonT(100) DEF Pcbs
  <2>7. /\ SameRcv([p EXCEPT !.state = to], r) /\ SameAnn(p, r) /\ r.state = to
        /\ r.unsent = u /\ r.unacked = p.unacked /\ r.snd_nxt = p.snd_nxt /\ r.FIN
        /\ r.snd_lbb = p.snd_lbb + 1 /\ r.lastack = p.lastack /\ r.snd_buf = p.snd_buf - 1
    BY <2>4, <2>5 DEF Pcbs, SameRcv, SameAnn
  <2> HIDE DEF r
  <2>8. Top(r) = p.snd_lbb + 2 BY <1>0, <2>7 DEF Top
  <2>9. Below(r.unsent, Top(r))
    <3> SUFFICES ASSUME NEW i \in 1..Len(u) PROVE End(u[i]) <= p.snd_lbb + 2
      BY <2>7, <2>8 DEF Below
    <3>1. i = 1 BY <2>3
    <3> QED BY <1>0, <2>2, <2>3, <3>1
  <2>10. Below(r.unacked, Top(r))
    <3> SUFFICES ASSUME NEW i \in 1..Len(p.unacked) PROVE End(p.unacked[i]) <= p.snd_lbb + 2
      BY <2>7, <2>8 DEF Below
    <3>1. p.unacked[i] \in Segs /\ End(p.unacked[i]) <= p.snd_lbb BY <1>0 DEF Below
    <3> QED BY <1>0, <1>1, <3>1
  <2>11. /\ p.snd_nxt <= p.snd_lbb + 2
         /\ p.snd_buf - 1 = TCP_SND_BUF - (p.snd_lbb + 1 - p.lastack)
    BY <1>0, SMTT(100)
  <2>12. SndOK(r) BY <1>0, <1>2, <2>7, <2>8, <2>9, <2>10, <2>11 DEF SndOK, CanWrite
  <2> QED BY <2>6, <2>7, <2>12 DEF r
<1> QED BY <1>3, <1>4

\* A call that may send: what has changed is the sending side, and what was
\* announced.
Held(p, r) ==
  /\ r = Done(r.p, r.out) /\ r.p \in Pcbs /\ SndOK(r.p) /\ Told(p, r.p) /\ From(p, r.out)

LEMMA OutputHeld ==
  ASSUME NEW p \in Pcbs, SndOK(p)
  PROVE  Held(p, tcp_output(p))
<1> DEFINE r == tcp_output(p)
<1>1. r = Done(r.p, r.out) /\ Pushed(p, r, Top(p)) BY TopFacts, OutputFacts
<1> HIDE DEF r
<1>2. SndOK(r.p) BY <1>1, PushedSnd
<1>3. Held(p, r) BY <1>1, <1>2 DEF Held, Pushed
<1> QED BY <1>3 DEF r

\* A control block whose receiving side is that of p.
LEMMA OutputHeldOf ==
  ASSUME NEW p \in Pcbs, NEW a, KeepsRcv(p, a), SndOK(a)
  PROVE  Held(p, tcp_output(a))
<1>1. Held(a, tcp_output(a)) BY OutputHeld DEF KeepsRcv
<1> QED BY <1>1 DEF Held, Told, From, KeepsRcv, SameRcv, SameAnn

LEMMA RtoFacts ==
  ASSUME NEW p \in Pcbs, SndOK(p), NEW cw \in {1, Mss, 2 * Mss}
  PROVE  Held(p, tcp_rexmit_rto([p EXCEPT !.cwnd = cw]))
<1> DEFINE b == [p EXCEPT !.cwnd = cw]
           u == p.unacked \o p.unsent
           a == [b EXCEPT !.unsent = b.unacked \o @, !.unacked = <<>>, !.nrtx = @ + 1]
<1>1. b \in Pcbs /\ SameSnd(p, b) /\ SameRcv(p, b) /\ SameAnn(p, b) /\ b.nrtx = p.nrtx
  BY DEF Pcbs, SameSnd, SameRcv, SameAnn
<1>2. p.unacked \in Seq(UpTo(Top(p))) /\ p.unsent \in Seq(UpTo(Top(p)))
  BY UpToFacts DEF SndOK, Pcbs
<1>3. u \in Seq(UpTo(Top(p))) BY <1>2, ConcatProperties
<1>4. u \in Seq(Segs) /\ Below(u, Top(p)) BY <1>3, UpToFacts
<1>5. a = [b EXCEPT !.unsent = u, !.unacked = <<>>, !.nrtx = b.nrtx + 1] BY <1>1 DEF SameSnd
<1> HIDE DEF a, b, u
<1>6. b.nrtx + 1 \in Nat /\ <<>> \in Seq(Segs) /\ Len(<<>>) = 0
  <2>1. b.nrtx \in Nat BY <1>1 DEF Pcbs
  <2>2. <<>> \in Seq(Segs) /\ Len(<<>>) = 0 OBVIOUS
  <2> QED BY <2>1, <2>2
<1>7. a \in Pcbs BY <1>1, <1>4, <1>5, <1>6, ZenonT(100) DEF Pcbs
<1>8. /\ a.unsent = u /\ a.unacked = <<>> /\ SameRoom(b, a) /\ SameRcv(b, a) /\ SameAnn(b, a)
      /\ a.snd_nxt = b.snd_nxt
  BY <1>1, <1>5 DEF Pcbs, SameRoom, SameRcv, SameAnn
<1>9. KeepsRcv(p, a) BY <1>1, <1>7, <1>8 DEF KeepsRcv, SameRcv, SameAnn
<1>10. SndOK(a)
  <2>1. Top(a) = Top(p) BY <1>1, <1>8 DEF Top, SameSnd, SameRoom
  <2>2. Below(a.unacked, Top(a)) BY <1>6, <1>8 DEF Below
  <2> QED BY <1>1, <1>4, <1>8, <2>1, <2>2 DEF SndOK, SameSnd, SameRoom, SameRcv, CanWrite
<1>11. tcp_rexmit_rto(b) = tcp_output(a) BY DEF tcp_rexmit_rto, a
<1> QED BY <1>9, <1>10, <1>11, OutputHeldOf DEF b

LEMMA SynRto ==
  ASSUME NEW p \in Pcbs, p.state = "SYN_SENT", SynOK(p), NEW cw \in {1, Mss, 2 * Mss}
  PROVE  LET r == tcp_rexmit_rto([p EXCEPT !.cwnd = cw])
         IN  /\ r = Done(r.p, r.out) /\ r.p \in Pcbs /\ r.p.state = "SYN_SENT" /\ SynOK(r.p)
             /\ From(p, r.out)
<1> DEFINE b == [p EXCEPT !.cwnd = cw]
           a == [b EXCEPT !.unsent = b.unacked \o @, !.unacked = <<>>, !.nrtx = @ + 1]
           c == [b EXCEPT !.unsent = <<Syn>>, !.unacked = <<>>, !.nrtx = b.nrtx + 1]
<1>1. b \in Pcbs /\ SameSnd(p, b) /\ SameRcv(p, b) /\ SameAnn(p, b)
  BY DEF Pcbs, SameSnd, SameRcv, SameAnn
<1>2. <<Syn>> \o <<>> = <<Syn>> /\ <<Syn>> \in Seq(Segs) /\ <<>> \in Seq(Segs)
  BY SynFacts
<1>3. b.unacked = <<Syn>> /\ b.unsent = <<>> BY <1>1 DEF SameSnd, SynOK, Syn
<1>4. a = c BY <1>2, <1>3
<1>5. tcp_rexmit_rto(b) = tcp_output(a) BY DEF tcp_rexmit_rto
<1> HIDE DEF a, b
<1>6. b.nrtx + 1 \in Nat
  <2>1. b.nrtx \in Nat BY <1>1 DEF Pcbs
  <2> QED BY <2>1
<1>7. c \in Pcbs BY <1>1, <1>2, <1>6 DEF Pcbs
<1>8. /\ c.unsent = <<Syn>> /\ c.unacked = <<>> /\ SameRoom(b, c) /\ SameRcv(b, c)
      /\ SameAnn(b, c) /\ c.snd_nxt = b.snd_nxt
  BY <1>1 DEF Pcbs, SameRoom, SameRcv, SameAnn
<1> HIDE DEF c
<1>9. /\ c.state = "SYN_SENT" /\ c.ooseq = <<>> /\ c.snd_lbb = 1 /\ c.lastack = 0
      /\ c.snd_nxt = 1 /\ c.snd_buf = TCP_SND_BUF - 1 /\ c.rcv_nxt = 0 /\ c.rcv_wnd = TCP_WND
      /\ c.rcv_ann_wnd = TCP_WND /\ ~c.RXCLOSED /\ ~c.FIN
  BY <1>1, <1>8 DEF SameRoom, SameSnd, SameRcv, SameAnn, SynOK
<1> DEFINE r == tcp_output(c)
<1>10. /\ r = Done(r.p, r.out) /\ r.p \in Pcbs /\ r.p.state = "SYN_SENT" /\ SynOK(r.p)
       /\ From(c, r.out)
  BY <1>7, <1>8, <1>9, SynOutput
<1> HIDE DEF r
<1>11. From(p, r.out) BY <1>1, <1>8, <1>10 DEF From, SameRcv, SameAnn
<1> QED BY <1>4, <1>5, <1>10, <1>11 DEF r, b

LEMMA RexmitFacts ==
  ASSUME NEW p \in Pcbs, SndOK(p), p.unacked # <<>>
  PROVE  KeepsRcv(p, tcp_rexmit(p)) /\ SndOK(tcp_rexmit(p))
<1> DEFINE r == tcp_rexmit(p)
           u == InsertSorted(p.unsent, p.unacked[1])
           v == Tail(p.unacked)
<1>1. p.unacked \in Seq(UpTo(Top(p))) /\ p.unsent \in Seq(UpTo(Top(p)))
  BY UpToFacts DEF SndOK, Pcbs
<1>2. v \in Seq(UpTo(Top(p))) /\ p.unacked[1] \in UpTo(Top(p)) BY <1>1, TailFacts
<1>3. u \in Seq(UpTo(Top(p))) BY <1>1, <1>2, InsertSortedFacts
<1>4. r = [p EXCEPT !.unsent = u, !.unacked = v, !.nrtx = p.nrtx + 1] BY DEF tcp_rexmit
<1> HIDE DEF u, v, r
<1>5. u \in Seq(Segs) /\ v \in Seq(Segs) /\ Below(u, Top(p)) /\ Below(v, Top(p))
  BY <1>2, <1>3, UpToFacts
<1>6. p.nrtx + 1 \in Nat BY DEF Pcbs
<1>7. r \in Pcbs BY <1>4, <1>5, <1>6, ZenonT(100) DEF Pcbs
<1>8. /\ r.unsent = u /\ r.unacked = v /\ SameRoom(p, r) /\ SameRcv(p, r) /\ SameAnn(p, r)
      /\ r.snd_nxt = p.snd_nxt
  BY <1>4 DEF Pcbs, SameRoom, SameRcv, SameAnn
<1>9. Top(r) = Top(p) BY <1>8 DEF Top, SameRoom
<1>10. KeepsRcv(p, r) BY <1>7, <1>8 DEF KeepsRcv
<1>11. SndOK(r) BY <1>5, <1>8, <1>9 DEF SndOK, SameRoom, SameRcv, CanWrite
<1> QED BY <1>10, <1>11 DEF r

\* What leaves both sides alone.
LEMMA SameSndOK ==
  ASSUME NEW p, SndOK(p), NEW r, SameSnd(p, r), r.state = p.state
  PROVE  SndOK(r)
BY DEF SndOK, SameSnd, Top, CanWrite

LEMMA FastFacts ==
  ASSUME NEW p \in Pcbs, SndOK(p)
  PROVE  KeepsRcv(p, tcp_rexmit_fast(p)) /\ SndOK(tcp_rexmit_fast(p))
<1>1. CASE p.unacked = <<>> \/ p.INFR
  BY <1>1 DEF tcp_rexmit_fast, KeepsRcv, SameRcv, SameAnn
<1>2. CASE ~(p.unacked = <<>> \/ p.INFR)
  <2> DEFINE a == tcp_rexmit(p)
             r == [a EXCEPT !.cwnd = 2 * Mss, !.INFR = TRUE]
  <2>1. KeepsRcv(p, a) /\ SndOK(a) BY <1>2, RexmitFacts
  <2>2. tcp_rexmit_fast(p) = r BY <1>2 DEF tcp_rexmit_fast
  <2> HIDE DEF a
  <2>3. r \in Pcbs /\ SameSnd(a, r) /\ SameRcv(a, r) /\ SameAnn(a, r)
    BY <2>1 DEF KeepsRcv, Pcbs, SameSnd, SameRcv, SameAnn
  <2> HIDE DEF r
  <2>4. KeepsRcv(p, r) BY <2>1, <2>3 DEF KeepsRcv, SameRcv, SameAnn
  <2>5. SndOK(r) BY <2>1, <2>3, SameSndOK DEF SameRcv
  <2> QED BY <2>2, <2>4, <2>5
<1> QED BY <1>1, <1>2

LEMMA ProbeFacts ==
  ASSUME NEW p \in Pcbs
  PROVE  LET r == tcp_zero_window_probe(p)
         IN  /\ r = Done(r.p, r.out) /\ r.p \in Pcbs /\ SameSnd(p, r.p) /\ Told(p, r.p)
             /\ From(p, r.out)
<1> DEFINE r == tcp_zero_window_probe(p)
           q == p.unacked \o p.unsent
<1>1. CASE q = <<>>
  <2>1. r = Done(p, <<>>) /\ r.p = p /\ r.out = <<>> BY <1>1 DEF tcp_zero_window_probe, Done
  <2> HIDE DEF r
  <2>2. SameSnd(p, r.p) /\ Told(p, r.p) /\ From(p, r.out)
    BY <2>1, FromNone DEF SameSnd, Told, SameRcv
  <2> QED BY <2>1, <2>2 DEF r
<1>2. CASE q # <<>>
  <2> DEFINE s == q[1]
             d == SubSeq(s.data, 1, Min({1, Len(s.data)}))
             f == s.fin /\ s.data = <<>>
             e == Probe(s)
             a == Announced(p)
  <2>1. s \in Segs
    <3>1. q \in Seq(Segs) BY ConcatProperties DEF Pcbs
    <3> HIDE DEF q
    <3> QED BY <1>2, <3>1
  <2>2. r = Done(a, <<Stamped(p, e)>>) BY <1>2 DEF tcp_zero_window_probe
  <2> HIDE DEF s
  <2>3. d \in Seq(Nat)
    <3> PICK l \in Nat : l = Len(s.data) BY <2>1, SegFacts
    <3>1. Min({1, l}) \in 1 - 1..Len(s.data) /\ 1 \in 1..Len(s.data) + 1 BY MinOfTwo
    <3>2. s.data \in Seq(Nat) BY <2>1, SegFacts
    <3> QED BY <3>1, <3>2, SubFacts
  <2>4. f \in BOOLEAN /\ s.seq \in Nat
    <3>1. f \in BOOLEAN OBVIOUS
    <3>2. s.seq \in Nat BY <2>1, SegFacts
    <3> QED BY <3>1, <3>2
  <2>5. e = Seg(s.seq, d, FALSE, f) BY DEF Probe
  <2> HIDE DEF d, e, f
  <2>6. e \in Segs BY <2>3, <2>4, <2>5 DEF Seg, Segs
  <2>7. From(p, <<Stamped(p, e)>>) BY <2>6, StampedFacts, FromOne
  <2>8. a \in Pcbs /\ SameSnd(p, a) /\ Told(p, a) BY AnnouncedFacts DEF Told
  <2>9. r.p = a /\ r.out = <<Stamped(p, e)>> BY <2>2 DEF Done
  <2> HIDE DEF a
  <2> QED BY <2>2, <2>7, <2>8, <2>9
<1> QED BY <1>1, <1>2

-----------------------------------------------------------------------------
(* What a segment acknowledges.                                              *)

LEMMA UpdateWindowFacts ==
  ASSUME NEW p \in Pcbs, NEW m \in Packets, m.wnd <= PeerBuf
  PROVE  LET r == UpdateWindow(p, m)
         IN  r \in Pcbs /\ SameSnd(p, r) /\ SameRcv(p, r) /\ SameAnn(p, r)
<1>1. CASE ~Newer(p, m) BY <1>1 DEF UpdateWindow, SameSnd, SameRcv, SameAnn
<1>2. CASE Newer(p, m)
  <2> DEFINE x == (m.wnd = 0)
             r == [p EXCEPT !.snd_wnd = m.wnd, !.snd_wl1 = m.seq, !.snd_wl2 = m.ackno,
                            !.persist = x]
  <2>1. UpdateWindow(p, m) = r BY <1>2 DEF UpdateWindow
  <2>2. /\ m.wnd \in 0..Max({PeerBuf, TCP_WND}) /\ m.seq \in Int /\ m.ackno \in Int
        /\ x \in BOOLEAN
    BY Windows DEF Packets
  <2> HIDE DEF x
  <2>3. r \in Pcbs BY <2>2 DEF Pcbs
  <2>4. SameSnd(p, r) /\ SameRcv(p, r) /\ SameAnn(p, r) BY DEF Pcbs, SameSnd, SameRcv, SameAnn
  <2> QED BY <2>1, <2>3, <2>4
<1> QED BY <1>1, <1>2

LEMMA DuplicateFacts ==
  ASSUME NEW p \in Pcbs, SndOK(p)
  PROVE  KeepsRcv(p, DuplicateAck(p)) /\ SndOK(DuplicateAck(p))
<1> DEFINE n == Min({p.dupacks + 1, 4})
           a == [p EXCEPT !.dupacks = n]
           b == [p EXCEPT !.dupacks = n, !.cwnd = 2 * Mss]
           r == DuplicateAck(p)
<1>1. n \in 0..4
  <2>1. p.dupacks \in 0..4 BY DEF Pcbs
  <2> QED BY <2>1, MinOfTwo
<1>2. /\ n > 3 => r = b
      /\ n = 3 => r = tcp_rexmit_fast(a)
      /\ ~(n > 3) /\ n # 3 => r = a
  BY DEF DuplicateAck, Duplicates
<1> HIDE DEF n, r
<1>3. a \in Pcbs /\ SameSnd(p, a) /\ SameRcv(p, a) /\ SameAnn(p, a)
  BY <1>1 DEF Pcbs, SameSnd, SameRcv, SameAnn
<1>4. b \in Pcbs /\ SameSnd(p, b) /\ SameRcv(p, b) /\ SameAnn(p, b)
  BY <1>1 DEF Pcbs, SameSnd, SameRcv, SameAnn
<1> HIDE DEF a, b
<1>5. KeepsRcv(p, a) /\ SndOK(a) BY <1>3, SameSndOK DEF KeepsRcv, SameRcv
<1>6. KeepsRcv(p, b) /\ SndOK(b) BY <1>4, SameSndOK DEF KeepsRcv, SameRcv
<1>7. KeepsRcv(p, tcp_rexmit_fast(a)) /\ SndOK(tcp_rexmit_fast(a))
  <2>1. KeepsRcv(a, tcp_rexmit_fast(a)) /\ SndOK(tcp_rexmit_fast(a)) BY <1>3, <1>5, FastFacts
  <2> QED BY <1>3, <2>1 DEF KeepsRcv, SameRcv, SameAnn
<1>8. KeepsRcv(p, r) /\ SndOK(r) BY <1>2, <1>5, <1>6, <1>7
<1> QED BY <1>8 DEF r

LEMMA NewAckFacts ==
  ASSUME NEW p \in Pcbs, SndOK(p), NEW ackno \in Nat, p.lastack < ackno, ackno <= p.snd_nxt
  PROVE  LET r == NewAck(p, ackno, FreeUpTo(p.unacked, ackno)) IN KeepsRcv(p, r) /\ SndOK(r)
<1> DEFINE left == FreeUpTo(p.unacked, ackno)
           buf == p.snd_buf + (ackno - p.lastack)
           on == left # <<>>
           a == [p EXCEPT !.INFR = FALSE, !.nrtx = 0, !.dupacks = 0, !.cwnd = 2 * Mss]
           r == [a EXCEPT !.snd_buf = buf, !.lastack = ackno, !.unacked = left, !.rtime = on]
<1>1. r = NewAck(p, ackno, left) BY DEF NewAck, Pcbs
<1>2. left \in Seq(Segs) /\ Below(left, Top(p))
  <2>1. p.unacked \in Seq(UpTo(Top(p))) BY UpToFacts DEF SndOK, Pcbs
  <2>2. left \in Seq(UpTo(Top(p))) BY <2>1, FreeUpToFacts
  <2> HIDE DEF left
  <2> QED BY <2>2, UpToFacts
<1>3. /\ p.snd_buf \in Nat /\ p.lastack \in Nat /\ p.snd_lbb \in Nat /\ p.snd_nxt \in Nat
      /\ p.snd_buf = TCP_SND_BUF - (p.snd_lbb - p.lastack) /\ TCP_SND_BUF \in Nat
  BY Windows DEF SndOK, Pcbs
<1>4. buf \in Nat /\ buf = TCP_SND_BUF - (p.snd_lbb - ackno) /\ on \in BOOLEAN
  <2>1. buf \in Nat /\ buf = TCP_SND_BUF - (p.snd_lbb - ackno) BY <1>3
  <2> QED BY <2>1
<1> HIDE DEF left, buf, on
<1>5. 2 * Mss \in {1, Mss, 2 * Mss} /\ 0 \in Nat /\ 0 \in 0..4 OBVIOUS
<1>10. a \in Pcbs BY <1>5 DEF Pcbs
<1>11. SameRcv(p, a) /\ SameAnn(p, a) /\ SameSnd(p, a) BY DEF Pcbs, SameRcv, SameAnn, SameSnd
<1> HIDE DEF a
<1>6. r \in Pcbs BY <1>2, <1>4, <1>10, ZenonT(100) DEF Pcbs
<1>12. /\ SameRcv(a, r) /\ SameAnn(a, r) /\ r.unsent = a.unsent /\ r.unacked = left
       /\ r.snd_nxt = a.snd_nxt /\ r.snd_lbb = a.snd_lbb /\ r.lastack = ackno
       /\ r.snd_buf = buf /\ r.FIN = a.FIN
  BY <1>10 DEF Pcbs, SameRcv, SameAnn
<1> HIDE DEF r
<1>7. /\ SameRcv(p, r) /\ SameAnn(p, r) /\ r.unsent = p.unsent /\ r.unacked = left
      /\ r.snd_nxt = p.snd_nxt /\ r.snd_lbb = p.snd_lbb /\ r.lastack = ackno
      /\ r.snd_buf = buf /\ r.FIN = p.FIN
  BY <1>11, <1>12 DEF SameRcv, SameAnn, SameSnd
<1>8. Top(r) = Top(p) BY <1>7 DEF Top
<1>9. SndOK(r) BY <1>2, <1>4, <1>7, <1>8 DEF SndOK, SameRcv, CanWrite
<1>13. KeepsRcv(p, r) BY <1>6, <1>7 DEF KeepsRcv
<1> QED BY <1>1, <1>9, <1>13 DEF left

LEMMA AckedFacts ==
  ASSUME NEW p \in Pcbs, SndOK(p), NEW m \in Packets, NEW edge
  PROVE  KeepsRcv(p, Acked(p, m, edge)) /\ SndOK(Acked(p, m, edge))
<1> DEFINE r == Acked(p, m, edge)
           z == [p EXCEPT !.dupacks = 0]
           new == NewAck(p, m.ackno, FreeUpTo(p.unacked, m.ackno))
<1>1. m.ackno \in Nat /\ p.lastack \in Nat /\ p.snd_nxt \in Nat BY DEF Packets, Pcbs
<1>2. /\ z \in Pcbs /\ SameSnd(p, z) /\ SameRcv(p, z) /\ SameAnn(p, z)
  <2>1. 0 \in 0..4 OBVIOUS
  <2>2. z \in Pcbs BY <2>1 DEF Pcbs
  <2>3. SameSnd(p, z) /\ SameRcv(p, z) /\ SameAnn(p, z) BY DEF Pcbs, SameSnd, SameRcv, SameAnn
  <2> QED BY <2>2, <2>3
<1> HIDE DEF z
<1>3. KeepsRcv(p, z) /\ SndOK(z) BY <1>2, SameSndOK DEF KeepsRcv, SameRcv
<1>4. KeepsRcv(p, p) BY DEF KeepsRcv, SameRcv, SameAnn
<1>5. CASE m.ackno <= p.lastack
  <2> DEFINE dup == TCPLEN(m) = 0 /\ Edge(p) = edge /\ p.rtime /\ m.ackno = p.lastack
  <2>4. ~(m.ackno \in p.lastack + 1..p.snd_nxt) BY <1>1, <1>5
  <2>3. r = IF dup THEN DuplicateAck(p) ELSE z BY <1>5, <2>4 DEF Acked, z
  <2> HIDE DEF r, dup
  <2>1. r = DuplicateAck(p) \/ r = z BY <2>3
  <2>2. KeepsRcv(p, r) /\ SndOK(r) BY <1>3, <2>1, DuplicateFacts
  <2> QED BY <2>2 DEF r
<1>6. CASE m.ackno \in p.lastack + 1..p.snd_nxt
  <2>1. ~(m.ackno <= p.lastack) /\ p.lastack < m.ackno /\ m.ackno <= p.snd_nxt BY <1>1, <1>6
  <2>2. r = new BY <1>6, <2>1 DEF Acked
  <2>3. KeepsRcv(p, new) /\ SndOK(new) BY <1>1, <2>1, NewAckFacts
  <2> HIDE DEF r, new
  <2>4. KeepsRcv(p, r) /\ SndOK(r) BY <2>2, <2>3
  <2> QED BY <2>4 DEF r
<1>7. CASE ~(m.ackno <= p.lastack) /\ ~(m.ackno \in p.lastack + 1..p.snd_nxt)
  <2>1. r = p BY <1>7 DEF Acked
  <2> HIDE DEF r
  <2>2. KeepsRcv(p, r) /\ SndOK(r) BY <1>4, <2>1
  <2> QED BY <2>2 DEF r
<1> QED BY <1>5, <1>6, <1>7

LEMMA UnsentAckedFacts ==
  ASSUME NEW p \in Pcbs, SndOK(p), NEW ackno
  PROVE  KeepsRcv(p, UnsentAcked(p, ackno)) /\ SndOK(UnsentAcked(p, ackno))
<1>1. CASE ~(ackno <= p.snd_nxt)
  BY <1>1 DEF UnsentAcked, KeepsRcv, SameRcv, SameAnn
<1>2. CASE ackno <= p.snd_nxt
  <2> DEFINE u == FreeUpTo(p.unsent, ackno)
             r == [p EXCEPT !.unsent = u]
  <2>1. UnsentAcked(p, ackno) = r BY <1>2 DEF UnsentAcked
  <2>2. p.unsent \in Seq(UpTo(Top(p))) BY UpToFacts DEF SndOK, Pcbs
  <2>3. u \in Seq(UpTo(Top(p))) BY <2>2, FreeUpToFacts
  <2> HIDE DEF u
  <2>4. u \in Seq(Segs) /\ Below(u, Top(p)) BY <2>3, UpToFacts
  <2>5. r \in Pcbs BY <2>4 DEF Pcbs
  <2>6. /\ SameRcv(p, r) /\ SameAnn(p, r) /\ SameRoom(p, r) /\ r.unsent = u
        /\ r.unacked = p.unacked /\ r.snd_nxt = p.snd_nxt
    BY DEF Pcbs, SameRcv, SameAnn, SameRoom
  <2> HIDE DEF r
  <2>7. Top(r) = Top(p) BY <2>6 DEF Top, SameRoom
  <2>8. SndOK(r) BY <2>4, <2>6, <2>7 DEF SndOK, SameRoom, SameRcv, CanWrite
  <2> QED BY <2>1, <2>5, <2>6, <2>8 DEF KeepsRcv
<1> QED BY <1>1, <1>2

LEMMA AcknowledgeFacts ==
  ASSUME NEW p \in Pcbs, SndOK(p), NEW m \in Packets, m.wnd <= PeerBuf
  PROVE  KeepsRcv(p, Acknowledge(p, m)) /\ SndOK(Acknowledge(p, m))
<1> DEFINE a == UpdateWindow(p, m)
           b == Acked(a, m, Edge(p))
           r == UnsentAcked(b, m.ackno)
<1>1. a \in Pcbs /\ SameSnd(p, a) /\ SameRcv(p, a) /\ SameAnn(p, a) BY UpdateWindowFacts
<1> HIDE DEF a
<1>2. SndOK(a) BY <1>1, SameSndOK DEF SameRcv
<1>3. KeepsRcv(a, b) /\ SndOK(b) BY <1>1, <1>2, AckedFacts
<1> HIDE DEF b
<1>4. KeepsRcv(b, r) /\ SndOK(r) BY <1>3, UnsentAckedFacts DEF KeepsRcv
<1> HIDE DEF r
<1>5. KeepsRcv(p, r) BY <1>1, <1>3, <1>4 DEF KeepsRcv, SameRcv, SameAnn
<1> QED BY <1>4, <1>5 DEF Acknowledge, r, b, a

-----------------------------------------------------------------------------
(* What a segment brings.  Within tcp_input the control block has taken data *)
(* the application has not been given: L units, and "fin" the FIN, whose     *)
(* number is not yet given back to the window.                               *)

Wnd(p, fin) == IF fin THEN U16(p.rcv_wnd + 1) ELSE p.rcv_wnd
AnnWithin(p, w, e) ==
  /\ p.rcv_ann_right_edge <= p.rcv_nxt + w \/ (e /\ p.rcv_ann_right_edge = p.rcv_nxt + Wide)
  /\ p.rcv_ann_wnd <= w \/ (e /\ p.rcv_ann_wnd = Wide)
Mid(p, c, L, fin, q, n) ==
  /\ p \in Pcbs /\ c \in Conns /\ p.state \in Synchronized /\ SndOK(p)
  /\ L \in Nat /\ Wnd(p, fin) <= TCP_WND /\ p.rcv_wnd <= Wide
  /\ AnnWithin(p, Wnd(p, fin), c.eof \/ (fin /\ Wnd(p, fin) = 0))
  /\ (p.state \in Taking /\ ~fin) => Waiting(p, q, n)
  /\ (p.state \in Taking \/ fin \/ L > 0) =>
       ~c.eof /\ p.rcv_nxt = 1 + Len(c.given) + L + (IF fin THEN 1 ELSE 0)
  /\ (p.state \in Open \/ fin \/ L > 0) =>
       Wnd(p, fin) + L = IF p.RXCLOSED THEN TCP_WND ELSE TCP_WND - c.unread
  /\ L > 0 => Len(c.given) + L < q.nxt
  /\ fin => q.fin /\ Len(c.given) + L = n

\* What was sent does not invite the peer beyond the window.
Speaks(p, out) == out \in Seq(Packets) /\ (Live(p) => Announces(out, Lim(p)))
Onward(p, r) == Live(r) => Live(p) /\ Lim(p) <= Lim(r)

Brings(r, c, q, n) ==
  /\ r = [p |-> r.p, out |-> r.out, data |-> r.data, fin |-> r.fin, over |-> FALSE]
  /\ r.fin \in BOOLEAN /\ r.data = Units(1 + Len(c.given), Len(r.data))
  /\ Mid(r.p, c, Len(r.data), r.fin, q, n) /\ Speaks(r.p, r.out)

LEMMA StateFacts ==
  /\ Taking \subseteq Open /\ Open \subseteq Synchronized /\ Synchronized \subseteq States
  /\ "SYN_SENT" \notin Synchronized /\ "CLOSED" \notin Synchronized /\ "TIME_WAIT" \notin Open
  /\ States = Synchronized \cup {"CLOSED", "SYN_SENT"}
BY DEF Taking, Open, Synchronized, States

LEMMA U16Facts ==
  /\ \A w \in Nat : w <= Wide => U16(w) = w
  /\ \A w \in Int : w = Wide + 1 => U16(w) = 0
  /\ \A w \in Int : w + 1 = 0 => U16(w) = Wide
  /\ \A w \in Int : U16(w) \in Nat
  /\ Wide \in Nat /\ TCP_WND < Wide
<1>1. \A w \in Nat : w <= Wide => U16(w) = w BY SMT DEF U16, Wide
<1>2. \A w \in Int : w = Wide + 1 => U16(w) = 0 BY SMT DEF U16, Wide
<1>3. \A w \in Int : w + 1 = 0 => U16(w) = Wide BY SMT DEF U16, Wide
<1>4. \A w \in Int : U16(w) \in Nat BY SMT DEF U16
<1>5. Wide \in Nat /\ TCP_WND < Wide BY SMT, Windows DEF Wide
<1> QED BY <1>1, <1>2, <1>3, <1>4, <1>5

LEMMA MidTold ==
  ASSUME NEW p, NEW c, NEW L, NEW fin \in BOOLEAN, NEW q, NEW n, Mid(p, c, L, fin, q, n),
         NEW r \in Pcbs, SndOK(r), Told(p, r)
  PROVE  Mid(r, c, L, fin, q, n)
<1>1. Wnd(r, fin) = Wnd(p, fin) BY DEF Wnd, Told, SameRcv
<1>2. AnnWithin(r, Wnd(p, fin), c.eof \/ (fin /\ Wnd(p, fin) = 0))
  <2>1. p.rcv_nxt \in Nat /\ p.rcv_ann_wnd \in Nat /\ Wnd(p, fin) \in Int
    <3>1. p.rcv_nxt \in Nat /\ p.rcv_ann_wnd \in Nat /\ p.rcv_wnd \in Nat BY DEF Mid, Pcbs
    <3> QED BY <3>1, U16Facts DEF Wnd
  <2> QED BY <2>1 DEF Mid, AnnWithin, Told, SameRcv
<1>3. (r.state \in Taking /\ ~fin) => Waiting(r, q, n)
  BY DEF Mid, Waiting, Right, Told, SameRcv
<1>4. /\ r.rcv_nxt = p.rcv_nxt /\ r.rcv_wnd = p.rcv_wnd /\ r.state = p.state
      /\ r.RXCLOSED = p.RXCLOSED
  BY DEF Told, SameRcv
<1> HIDE DEF AnnWithin, Waiting, Wnd
<1> QED BY <1>1, <1>2, <1>3, <1>4 DEF Mid

LEMMA KeepsTold ==
  ASSUME NEW p, NEW r, KeepsRcv(p, r)
  PROVE  r \in Pcbs /\ Told(p, r)
BY DEF KeepsRcv, Told, SameAnn

LEMMA BoardMid ==
  ASSUME NEW p, NEW c, NEW q, NEW n, BoardOK(p, c, q, n), p.state \in Synchronized
  PROVE  Mid(p, c, 0, FALSE, q, n)
<1>1. Wnd(p, FALSE) = p.rcv_wnd BY DEF Wnd
<1>2. p.rcv_wnd \in Nat /\ p.rcv_wnd <= TCP_WND /\ p.rcv_wnd <= Wide
  <2>1. p.rcv_wnd \in Nat BY DEF BoardOK, Pcbs
  <2>2. p.rcv_wnd <= TCP_WND BY DEF BoardOK, RcvOK
  <2> QED BY <2>1, <2>2, U16Facts, Windows
<1>3. AnnWithin(p, p.rcv_wnd, c.eof \/ (FALSE /\ p.rcv_wnd = 0))
  BY DEF BoardOK, RcvOK, AnnOK, AnnWithin, Right
<1>4. c \in Conns /\ Len(c.given) \in Nat BY DEF BoardOK, Conns
<1>5. p.state \in Taking => /\ Waiting(p, q, n) /\ ~c.eof
                            /\ p.rcv_nxt = 1 + Len(c.given) + 0 + 0
  BY <1>4 DEF BoardOK, RcvOK
<1>6. p.state \in Open => p.rcv_wnd + 0 = IF p.RXCLOSED THEN TCP_WND ELSE TCP_WND - c.unread
  BY <1>2 DEF BoardOK, RcvOK
<1>7. p \in Pcbs /\ SndOK(p) BY DEF BoardOK
<1> DEFINE e == c.eof \/ (FALSE /\ Wnd(p, FALSE) = 0)
<1>8. AnnWithin(p, Wnd(p, FALSE), e) BY <1>1, <1>3 DEF AnnWithin
<1>9. (p.state \in Taking /\ ~FALSE) => Waiting(p, q, n) BY <1>5
<1>10. (p.state \in Taking \/ FALSE \/ 0 > 0) =>
         ~c.eof /\ p.rcv_nxt = 1 + Len(c.given) + 0 + (IF FALSE THEN 1 ELSE 0)
  BY <1>5
<1>11. (p.state \in Open \/ FALSE \/ 0 > 0) =>
         Wnd(p, FALSE) + 0 = IF p.RXCLOSED THEN TCP_WND ELSE TCP_WND - c.unread
  BY <1>6 DEF Wnd
<1>12. Wnd(p, FALSE) <= TCP_WND BY <1>2 DEF Wnd
<1>13. /\ 0 \in Nat /\ (0 > 0 => Len(c.given) + 0 < q.nxt)
       /\ (FALSE => q.fin /\ Len(c.given) + 0 = n)
  OBVIOUS
<1> QED BY <1>2, <1>4, <1>7, <1>8, <1>9, <1>10, <1>11, <1>12, <1>13, Zenon DEF Mid

LEMMA MidBoard ==
  ASSUME NEW p, NEW c, NEW q, NEW n, Mid(p, c, 0, FALSE, q, n),
         StreamOK(c, q, n), CallOK(p, c)
  PROVE  BoardOK(p, c, q, n)
<1>1. Wnd(p, FALSE) = p.rcv_wnd BY DEF Wnd
<1>2. p.rcv_wnd \in Nat /\ Len(c.given) \in Nat BY DEF Mid, Pcbs, Conns
<1>3. AnnOK(p, c.eof) BY <1>1 DEF Mid, AnnOK, AnnWithin, Right
<1>4. p.state \in Taking => /\ Waiting(p, q, n) /\ ~c.eof /\ p.rcv_nxt = 1 + Len(c.given)
  BY <1>2 DEF Mid
<1>5. p.state \in Open => p.rcv_wnd = IF p.RXCLOSED THEN TCP_WND ELSE TCP_WND - c.unread
  <2>1. p.state \in Open =>
          Wnd(p, FALSE) + 0 = IF p.RXCLOSED THEN TCP_WND ELSE TCP_WND - c.unread
    BY DEF Mid
  <2>2. Wnd(p, FALSE) + 0 = p.rcv_wnd BY <1>2 DEF Wnd
  <2> QED BY <2>1, <2>2
<1>6. RcvOK(p, c, q, n) BY <1>1, <1>3, <1>4, <1>5 DEF Mid, RcvOK
<1> QED BY <1>6, StateFacts DEF Mid, BoardOK

LEMMA SpeaksNone ==
  ASSUME NEW p
  PROVE  Speaks(p, <<>>)
<1> DEFINE o == <<>>
<1>1. o \in Seq(Packets) /\ Len(o) = 0 OBVIOUS
<1> HIDE DEF o
<1>2. Speaks(p, o) BY <1>1 DEF Speaks, Announces
<1> QED BY <1>2 DEF o

LEMMA SpeaksMore ==
  ASSUME NEW p, NEW a, NEW b, Speaks(p, a), Speaks(p, b)
  PROVE  Speaks(p, a \o b)
<1>1. a \in Seq(Packets) /\ b \in Seq(Packets) BY DEF Speaks
<1>2. /\ a \o b \in Seq(Packets) /\ Len(a \o b) = Len(a) + Len(b)
      /\ \A i \in 1..Len(a) + Len(b) :
           (a \o b)[i] = IF i <= Len(a) THEN a[i] ELSE b[i - Len(a)]
  BY <1>1, ConcatProperties
<1>3. ASSUME Live(p), NEW i \in 1..Len(a) + Len(b), ~(a \o b)[i].rst
      PROVE  (a \o b)[i].wnd <= TCP_WND /\ (a \o b)[i].ackno + (a \o b)[i].wnd <= Lim(p)
  <2>1. Announces(a, Lim(p)) /\ Announces(b, Lim(p)) BY <1>3 DEF Speaks
  <2>2. CASE i <= Len(a)
    <3>1. i \in 1..Len(a) BY <1>1, <2>2
    <3> QED BY <1>2, <1>3, <2>1, <2>2, <3>1 DEF Announces
  <2>3. CASE ~(i <= Len(a))
    <3>1. i - Len(a) \in 1..Len(b) BY <1>1, <2>3
    <3> QED BY <1>2, <1>3, <2>1, <2>3, <3>1 DEF Announces
  <2> QED BY <2>2, <2>3
<1> HIDE DEF Live, Lim
<1> QED BY <1>2, <1>3 DEF Speaks, Announces

\* Later the window reaches at least as far.
LEMMA SpeaksOn ==
  ASSUME NEW p \in Pcbs, NEW r \in Pcbs, NEW out, Speaks(p, out), Onward(p, r)
  PROVE  Speaks(r, out)
<1>1. Lim(p) \in Int /\ Lim(r) \in Int
  <2>1. ASSUME NEW s \in Pcbs PROVE Lim(s) \in Int
    <3>1. s.rcv_nxt \in Nat /\ s.rcv_wnd \in Nat BY DEF Pcbs
    <3> QED BY <3>1, Windows DEF Lim, Right
  <2> QED BY <2>1, Zenon
<1>2. out \in Seq(Packets) BY DEF Speaks
<1>3. ASSUME Live(r), NEW i \in 1..Len(out), ~out[i].rst
      PROVE  out[i].wnd <= TCP_WND /\ out[i].ackno + out[i].wnd <= Lim(r)
  <2>1. /\ Lim(p) <= Lim(r) /\ out[i].wnd <= TCP_WND /\ out[i].ackno + out[i].wnd <= Lim(p)
    BY <1>3 DEF Onward, Speaks, Announces
  <2>2. out[i] \in Packets BY <1>2
  <2>3. out[i].ackno \in Nat /\ out[i].wnd \in Nat BY <2>2 DEF Packets
  <2> QED BY <1>1, <2>1, <2>3
<1> QED BY <1>2, <1>3 DEF Speaks, Announces

LEMMA SpeaksFrom ==
  ASSUME NEW p, NEW c, NEW L, NEW q, NEW n, Mid(p, c, L, FALSE, q, n), NEW out, From(p, out)
  PROVE  Speaks(p, out)
<1>1. /\ p \in Pcbs /\ p.rcv_nxt \in Nat /\ p.rcv_wnd \in Nat /\ p.rcv_ann_wnd \in Nat
      /\ Wnd(p, FALSE) = p.rcv_wnd /\ p.rcv_wnd <= TCP_WND /\ TCP_WND \in Nat
  BY Windows DEF Mid, Pcbs, Wnd
<1>2. ASSUME Live(p) PROVE p.rcv_ann_wnd <= p.rcv_wnd /\ Lim(p) = p.rcv_nxt + p.rcv_wnd
  <2>1. p.state \in Taking /\ p.state # "SYN_SENT" BY <1>2, StateFacts DEF Mid, Live
  <2>2. ~c.eof BY <2>1 DEF Mid
  <2> QED BY <1>1, <2>1, <2>2 DEF Mid, AnnWithin, Lim, Right
<1>3. ASSUME Live(p), NEW i \in 1..Len(out), ~out[i].rst
      PROVE  out[i].wnd <= TCP_WND /\ out[i].ackno + out[i].wnd <= Lim(p)
  <2>1. out[i].ackno = p.rcv_nxt /\ out[i].wnd = p.rcv_ann_wnd BY <1>3 DEF From
  <2> QED BY <1>1, <1>2, <1>3, <2>1
<1> QED BY <1>3 DEF Speaks, Announces, From

LEMMA WidenBy ==
  /\ Min({TCP_WND \div 2, Mss}) \in Nat /\ Min({TCP_WND \div 2, Mss}) <= TCP_WND
  /\ TCP_WND \div 4 \in Nat
<1> DEFINE h == TCP_WND \div 2
<1>1. h \in Nat /\ Mss \in Nat /\ Mss <= TCP_WND /\ TCP_WND \div 4 \in Nat
  BY SMT, MssAssumption DEF TCP_WND
<1> HIDE DEF h
<1>2. Min({h, Mss}) = IF h <= Mss THEN h ELSE Mss BY <1>1, MinOfTwo
<1>3. Min({h, Mss}) \in Nat /\ Min({h, Mss}) <= TCP_WND BY <1>1, <1>2, Windows
<1> QED BY <1>1, <1>3 DEF h

LEMMA UpdateAnnFacts ==
  ASSUME NEW p \in Pcbs, NEW e,
         \/ p.rcv_ann_right_edge <= Right(p)
         \/ e /\ p.rcv_ann_right_edge = p.rcv_nxt + Wide
  PROVE  LET r == tcp_update_rcv_ann_wnd(p)
         IN  /\ r \in Pcbs /\ SameSnd(p, r) /\ SameRcv(p, r)
             /\ r.rcv_ann_right_edge = p.rcv_ann_right_edge
             /\ r.rcv_ann_wnd <= p.rcv_wnd \/ (e /\ r.rcv_ann_wnd = Wide)
             /\ Widens(p) => r.rcv_ann_wnd = p.rcv_wnd
<1> DEFINE w == IF Widens(p) THEN p.rcv_wnd ELSE Max({0, p.rcv_ann_right_edge - p.rcv_nxt})
           r == [p EXCEPT !.rcv_ann_wnd = w]
<1>1. /\ p.rcv_wnd \in Nat /\ p.rcv_nxt \in Nat /\ p.rcv_ann_right_edge \in Nat
      /\ Wide \in Nat
  BY U16Facts DEF Pcbs
<1>2. Max({0, p.rcv_ann_right_edge - p.rcv_nxt}) =
        IF 0 <= p.rcv_ann_right_edge - p.rcv_nxt THEN p.rcv_ann_right_edge - p.rcv_nxt ELSE 0
  BY <1>1, MaxOfTwo
<1>3. w \in Nat /\ (w <= p.rcv_wnd \/ (e /\ w = Wide)) /\ (Widens(p) => w = p.rcv_wnd)
  <2>1. CASE Widens(p) BY <1>1, <2>1
  <2>2. CASE ~Widens(p)
    <3> DEFINE d == p.rcv_ann_right_edge - p.rcv_nxt
    <3>1. w = IF 0 <= d THEN d ELSE 0 BY <1>2, <2>2
    <3>2. d \in Int /\ (d <= p.rcv_wnd \/ (e /\ d = Wide)) BY <1>1 DEF Right
    <3> HIDE DEF d, w
    <3> QED BY <1>1, <2>2, <3>1, <3>2
  <2> QED BY <2>1, <2>2
<1>4. tcp_update_rcv_ann_wnd(p) = r BY DEF tcp_update_rcv_ann_wnd
<1> HIDE DEF w
<1>5. r \in Pcbs BY <1>3 DEF Pcbs
<1>6. /\ SameSnd(p, r) /\ SameRcv(p, r) /\ r.rcv_ann_right_edge = p.rcv_ann_right_edge
      /\ r.rcv_ann_wnd = w
  BY DEF Pcbs, SameSnd, SameRcv
<1> QED BY <1>3, <1>4, <1>5, <1>6

\* What is in sequence leaves the queue: the numbers.  w is the window before.
Wraps(v, w, L, f) ==
  /\ v \in Nat /\ v <= Wide /\ (f = 0 => v = w - L)
  /\ f = 1 => /\ U16(v + 1) = w - L
              /\ w - L > 0 => v = w - L - 1
              /\ w - L = 0 => v = Wide
LEMMA WrapFacts ==
  ASSUME NEW w \in Nat, w <= TCP_WND, NEW L \in Nat, L <= w, NEW f \in {0, 1}
  PROVE  Wraps(U16(w - (L + f)), w, L, f)
<1> DEFINE v == U16(w - (L + f))
<1> SUFFICES /\ v \in Nat /\ v <= Wide /\ (f = 0 => v = w - L)
             /\ f = 1 => /\ U16(v + 1) = w - L
                         /\ w - L > 0 => v = w - L - 1
                         /\ w - L = 0 => v = Wide
  BY DEF Wraps
<1>1. w - (L + f) \in Int /\ TCP_WND \in Nat /\ Wide \in Nat /\ TCP_WND < Wide
  BY U16Facts, Windows
<1>2. CASE f = 0
  <2>1. w - (L + f) \in Nat /\ w - (L + f) <= Wide BY <1>1, <1>2
  <2> QED BY <1>1, <1>2, <2>1, U16Facts
<1>3. CASE f = 1 /\ w - L > 0
  <2>1. w - (L + f) \in Nat /\ w - (L + f) <= Wide /\ w - (L + f) = w - L - 1 BY <1>1, <1>3
  <2>2. v = w - L - 1 BY <2>1, U16Facts
  <2>3. v + 1 = w - L /\ w - L \in Nat /\ w - L <= Wide BY <1>1, <1>3, <2>2
  <2> HIDE DEF v
  <2>4. U16(v + 1) = w - L BY <2>3, U16Facts
  <2>5. v \in Nat /\ v <= Wide BY <1>1, <1>3, <2>2
  <2> QED BY <1>3, <2>2, <2>4, <2>5 DEF v
<1>4. CASE f = 1 /\ w - L = 0
  <2>1. (w - (L + f)) + 1 = 0 BY <1>4
  <2>2. v = Wide BY <1>1, <2>1, U16Facts
  <2>3. v + 1 = Wide + 1 /\ v + 1 \in Int BY <1>1, <2>2
  <2> HIDE DEF v
  <2>4. U16(v + 1) = 0 BY <2>3, U16Facts
  <2> QED BY <1>1, <1>4, <2>2, <2>4 DEF v
<1>5. w - L >= 0 /\ w - L \in Int OBVIOUS
<1> QED BY <1>2, <1>3, <1>4, <1>5

\* What a segment did to what the state machine looks at.
Goes(p, r) ==
  /\ r.p.state = p.state /\ r.p.RXCLOSED = p.RXCLOSED
  /\ (p.state \in Taking /\ ~r.fin) => Right(p) <= Right(r.p)
  /\ r.fin => p.state \in Taking

LEMMA DeliverFacts ==
  ASSUME NEW p, NEW c, NEW q, q.nxt \in Nat, NEW n \in Nat, Mid(p, c, 0, FALSE, q, n),
         p.state \in Taking, NEW o, Fine(o, q, n, p.rcv_nxt, Right(p)), Len(o) >= 1,
         o[1].seq = p.rcv_nxt
  PROVE  Brings(Deliver(p, o), c, q, n) /\ Goes(p, Deliver(p, o))
<1> DEFINE k == InSequence(o)
           last == o[k]
           L == DataEnd(last) - p.rcv_nxt
           w == p.rcv_wnd
           to == p.rcv_nxt + w
           left == After(o, k)
           data == DataOf(SubSeq(o, 1, k))
           v == U16(w - (End(last) - p.rcv_nxt))
           a == [p EXCEPT !.ooseq = left, !.rcv_nxt = End(last), !.rcv_wnd = v]
           u == tcp_update_rcv_ann_wnd(a)
           b == tcp_ack(u)
           r == Deliver(p, o)
<1>1. /\ p \in Pcbs /\ p.rcv_nxt \in Nat /\ w \in Nat /\ w <= TCP_WND /\ to \in Nat
      /\ to = Right(p) /\ ~c.eof /\ p.rcv_nxt = 1 + Len(c.given)
      /\ p.rcv_ann_right_edge \in Nat /\ p.rcv_ann_right_edge <= to
      /\ c \in Conns /\ Len(c.given) \in Nat
      /\ w = IF p.RXCLOSED THEN TCP_WND ELSE TCP_WND - c.unread
  <2>1. /\ p \in Pcbs /\ c \in Conns /\ ~c.eof /\ w <= TCP_WND
        /\ p.rcv_nxt = 1 + Len(c.given) + 0 + 0
        /\ p.rcv_ann_right_edge <= p.rcv_nxt + w
    BY DEF Mid, Wnd, AnnWithin
  <2>2. /\ p.rcv_nxt \in Nat /\ w \in Nat /\ p.rcv_ann_right_edge \in Nat
        /\ Len(c.given) \in Nat
    BY <2>1 DEF Pcbs, Conns
  <2>3. w + 0 = IF p.RXCLOSED THEN TCP_WND ELSE TCP_WND - c.unread
    BY StateFacts DEF Mid, Wnd
  <2> QED BY <2>1, <2>2, <2>3 DEF Right
<1>2. /\ k \in 1..Len(o) /\ Last(SubSeq(o, 1, k)) = last /\ last \in Segs
      /\ L \in Nat /\ data = Units(p.rcv_nxt, L) /\ Fine(left, q, n, End(last) + 1, to)
  BY <1>1, InSequenceFacts
<1>3. r = Brought(Done(b, <<>>), data, last.fin)
  BY <1>2 DEF Deliver, FirstTaken, Taken
<1>31. L \in Nat /\ last \in Segs BY <1>2
<1>32. /\ p.rcv_nxt \in Nat /\ w \in Nat /\ to \in Nat /\ w <= TCP_WND /\ to = p.rcv_nxt + w
       /\ TCP_WND \in Nat /\ Wide \in Nat /\ TCP_WND < Wide
  BY <1>1, U16Facts, Windows
<1> HIDE DEF k, left, data
<1>4. /\ Piece(last, q, n) /\ DataEnd(last) <= to /\ DataEnd(last) \in Nat /\ End(last) \in Nat
  <2>1. Fine(o, q, n, p.rcv_nxt, to) /\ p.rcv_nxt \in Nat /\ k \in 1..Len(o) BY <1>1, <1>2
  <2> HIDE DEF to
  <2> QED BY <2>1, FineFacts
<1> DEFINE fin == last.fin
           f == IF fin THEN 1 ELSE 0
<1>5. /\ fin \in BOOLEAN /\ f \in {0, 1} /\ (fin <=> f = 1)
      /\ End(last) = DataEnd(last) + f
  BY <1>2, <1>4, PieceFacts, SegFacts
<1>6. DataEnd(last) <= q.nxt /\ (fin => q.fin /\ DataEnd(last) = n + 1)
  BY <1>4 DEF Piece
<1> HIDE DEF last, fin, f
<1>7. /\ DataEnd(last) = p.rcv_nxt + L /\ End(last) = p.rcv_nxt + L + f /\ L <= w
      /\ w - (End(last) - p.rcv_nxt) = w - (L + f)
  <2> PICK x \in Nat : x = DataEnd(last) BY <1>4
  <2> PICK y \in Nat : y = p.rcv_nxt BY <1>32
  <2> PICK z \in Nat : z = p.rcv_wnd BY <1>32
  <2>1. x <= y + z /\ x - y \in Nat /\ f \in Nat /\ End(last) = x + f BY <1>4, <1>5, <1>31
  <2>2. f \in Nat /\ x <= y + z BY <2>1
  <2>3. x = y + (x - y) /\ x + f = y + (x - y) + f /\ x - y <= z BY <2>2
  <2>4. z - (x + f - y) = z - ((x - y) + f) BY <2>2
  <2> QED BY <2>1, <2>3, <2>4
<1> HIDE DEF L
<1>8. /\ v \in Nat /\ v <= Wide /\ (f = 0 => v = w - L)
      /\ f = 1 => /\ U16(v + 1) = w - L
                  /\ w - L > 0 => v = w - L - 1
                  /\ w - L = 0 => v = Wide
  <2>1. U16(w - (L + f)) = v BY <1>7
  <2> HIDE DEF v, w, to
  <2>2. L <= w /\ L \in Nat /\ f \in {0, 1} /\ w \in Nat /\ w <= TCP_WND
    BY <1>5, <1>7, <1>31, <1>32
  <2>3. Wraps(U16(w - (L + f)), w, L, f) BY <2>2, WrapFacts
  <2> QED BY <2>1, <2>3, Zenon DEF Wraps
<1>9. a \in Pcbs
  <2>1. left \in Seq(Segs) BY <1>2 DEF Fine
  <2> HIDE DEF v
  <2> QED BY <1>1, <1>4, <1>8, <2>1 DEF Pcbs
<1> HIDE DEF v
<1>10. /\ SameSnd(p, a) /\ SameAnn(p, a) /\ a.state = p.state /\ a.RXCLOSED = p.RXCLOSED
       /\ a.ooseq = left /\ a.rcv_nxt = End(last) /\ a.rcv_wnd = v
  BY <1>1 DEF Pcbs, SameSnd, SameAnn
<1> HIDE DEF a, w, to
<1>11. w - L \in Nat /\ End(last) = p.rcv_nxt + L + f /\ L \in Nat
  BY <1>7, <1>31, <1>32
<1>12. to <= End(last) + v
  <2>1. CASE f = 0 BY <1>8, <1>11, <1>32, <2>1
  <2>2. CASE f = 1 /\ w - L > 0 BY <1>8, <1>11, <1>32, <2>2
  <2>3. CASE f = 1 /\ w - L = 0 BY <1>8, <1>11, <1>32, <2>3
  <2> QED BY <1>5, <1>11, <2>1, <2>2, <2>3
<1>13. a.rcv_ann_right_edge <= Right(a)
  BY <1>1, <1>4, <1>8, <1>10, <1>12 DEF Right, SameAnn
<1>14. /\ u \in Pcbs /\ SameSnd(a, u) /\ SameRcv(a, u)
       /\ u.rcv_ann_right_edge = a.rcv_ann_right_edge
       /\ u.rcv_ann_wnd <= v /\ (Widens(a) => u.rcv_ann_wnd = v)
  BY <1>9, <1>10, <1>13, UpdateAnnFacts
<1> HIDE DEF u
<1>15. b \in Pcbs /\ SameSnd(u, b) /\ SameRcv(u, b) /\ SameAnn(u, b) BY <1>14, AckFacts
<1> HIDE DEF b
<1>16. /\ SameSnd(p, b) /\ b.state = p.state /\ b.RXCLOSED = p.RXCLOSED
       /\ b.ooseq = left /\ b.rcv_nxt = End(last) /\ b.rcv_wnd = v
       /\ b.rcv_ann_right_edge <= to /\ b.rcv_ann_wnd = u.rcv_ann_wnd
  BY <1>1, <1>10, <1>14, <1>15 DEF SameSnd, SameRcv, SameAnn
<1>17. f = 1 /\ w - L = 0 => b.rcv_ann_wnd = Wide
  <2> SUFFICES ASSUME f = 1, w - L = 0 PROVE Widens(a) BY <1>8, <1>14, <1>16
  <2>1. a.rcv_nxt = to + 1 /\ a.rcv_wnd = Wide /\ a.rcv_ann_right_edge <= to
    <3>1. End(last) = to + 1 BY <1>11, <1>32
    <3> QED BY <1>1, <1>8, <1>10, <3>1 DEF SameAnn, to, w
  <2> DEFINE h == Min({TCP_WND \div 2, Mss})
  <2>2. h \in Nat /\ h <= TCP_WND BY WidenBy
  <2> HIDE DEF h
  <2>3. a.rcv_ann_right_edge \in Nat /\ to \in Nat BY <1>1, <1>9 DEF Pcbs
  <2>4. a.rcv_nxt + a.rcv_wnd >= a.rcv_ann_right_edge + h BY <1>32, <2>1, <2>2, <2>3, SMTT(100)
  <2> QED BY <2>4 DEF Widens, h
<1>18. Wnd(b, fin) = w - L
  <2>1. CASE fin BY <1>5, <1>8, <1>16, <2>1 DEF Wnd
  <2>2. CASE ~fin BY <1>5, <1>8, <1>16, <2>2 DEF Wnd
  <2> QED BY <2>1, <2>2
<1>19. AnnWithin(b, Wnd(b, fin), c.eof \/ (fin /\ Wnd(b, fin) = 0))
  <2>1. b.rcv_ann_right_edge <= b.rcv_nxt + (w - L)
    <3>1. b.rcv_ann_right_edge \in Nat /\ to <= b.rcv_nxt + (w - L)
      <4>1. b.rcv_ann_right_edge \in Nat BY <1>15 DEF Pcbs
      <4>2. b.rcv_nxt = p.rcv_nxt + L + f BY <1>11, <1>16
      <4> QED BY <1>5, <1>11, <1>32, <4>1, <4>2
    <3>2. to \in Nat /\ b.rcv_nxt + (w - L) \in Nat BY <1>4, <1>11, <1>16, <1>32
    <3> QED BY <1>16, <3>1, <3>2
  <2>2. b.rcv_ann_wnd <= w - L \/ (fin /\ w - L = 0 /\ b.rcv_ann_wnd = Wide)
    <3>1. b.rcv_ann_wnd \in Nat /\ b.rcv_ann_wnd <= v BY <1>14, <1>15, <1>16 DEF Pcbs
    <3>2. CASE f = 0 BY <1>8, <3>1, <3>2
    <3>3. CASE f = 1 /\ w - L > 0 BY <1>8, <1>11, <3>1, <3>3
    <3>4. CASE f = 1 /\ w - L = 0 BY <1>5, <1>17, <3>4
    <3> QED BY <1>5, <1>11, <3>2, <3>3, <3>4
  <2> QED BY <1>18, <2>1, <2>2 DEF AnnWithin
<1>20. ~fin => Waiting(b, q, n) /\ Right(b) = to
  <2> SUFFICES ASSUME ~fin PROVE Waiting(b, q, n) /\ Right(b) = to OBVIOUS
  <2>1. f = 0 BY <1>5
  <2>2. b.rcv_nxt = p.rcv_nxt + L /\ b.rcv_wnd = w - L BY <1>8, <1>11, <1>16, <1>32, <2>1
  <2>3. Right(b) = to BY <1>11, <1>32, <2>2 DEF Right
  <2> QED BY <1>2, <1>16, <2>3 DEF Waiting
<1>21. b.rcv_nxt = 1 + Len(c.given) + L + (IF fin THEN 1 ELSE 0)
  BY <1>1, <1>11, <1>16 DEF f
<1>22. Wnd(b, fin) + L = IF b.RXCLOSED THEN TCP_WND ELSE TCP_WND - c.unread
  <2>1. Wnd(b, fin) + L = w BY <1>11, <1>18, <1>32
  <2> QED BY <1>1, <1>16, <2>1 DEF w
<1>23. Len(c.given) + L < q.nxt /\ (fin => q.fin /\ Len(c.given) + L = n)
  <2> PICK g \in Nat : g = Len(c.given) BY <1>1
  <2>1. DataEnd(last) = 1 + g + L BY <1>1, <1>7
  <2>2. 1 + g + L <= q.nxt => g + L < q.nxt BY <1>11
  <2>3. 1 + g + L = n + 1 => g + L = n BY <1>11, SMTT(100)
  <2> QED BY <1>6, <2>1, <2>2, <2>3
<1>24. SndOK(b)
  <2>1. SndOK(p) BY DEF Mid
  <2> QED BY <1>16, <2>1, SameSndOK
<1>25. Wnd(b, fin) <= TCP_WND /\ b.rcv_wnd <= Wide
  BY <1>8, <1>11, <1>16, <1>18, <1>32
<1>26. Mid(b, c, L, fin, q, n)
  <2>1. b.state \in Synchronized BY <1>16, StateFacts
  <2> QED BY <1>1, <1>11, <1>15, <1>19, <1>20, <1>21, <1>22, <1>23, <1>24, <1>25, <2>1, Zenon
      DEF Mid
<1>27. Len(data) = L /\ data = Units(1 + Len(c.given), L)
  <2> PICK g \in Nat : g = 1 + Len(c.given) BY <1>1
  <2>1. g >= 1 BY <1>1
  <2>2. p.rcv_nxt = g BY <1>1
  <2>3. data = Units(g, L) BY <1>2, <2>2, Zenon
  <2>4. Len(Units(g, L)) = L BY <1>31, <2>1, UnitsFacts, Zenon
  <2> QED BY <2>3, <2>4, Zenon
<1>28. r.p = b /\ r.out = <<>> /\ r.data = data /\ r.fin = fin
  BY <1>3 DEF Brought, Done, fin
<1>29. Brings(r, c, q, n)
  <2>1. r = [p |-> b, out |-> <<>>, data |-> data, fin |-> fin, over |-> FALSE]
    BY <1>3 DEF Brought, Done, fin
  <2>2. Speaks(b, <<>>) BY SpeaksNone
  <2> HIDE DEF r
  <2> QED BY <1>5, <1>26, <1>27, <1>28, <2>1, <2>2 DEF Brings
<1>30. Goes(p, r)
  <2> HIDE DEF r
  <2> QED BY <1>1, <1>16, <1>20, <1>28 DEF Goes
<1> QED BY <1>29, <1>30

LEMMA ToldSpeaks ==
  ASSUME NEW p, NEW r, Told(p, r), NEW out, Speaks(p, out)
  PROVE  Speaks(r, out)
BY DEF Speaks, Told, SameRcv, Live, Lim, Right

LEMMA HeldFacts ==
  ASSUME NEW p, NEW c, NEW L, NEW q, NEW n, Mid(p, c, L, FALSE, q, n), NEW r, Held(p, r)
  PROVE  Mid(r.p, c, L, FALSE, q, n) /\ Speaks(r.p, r.out)
<1>1. r.p \in Pcbs /\ SndOK(r.p) /\ Told(p, r.p) /\ From(p, r.out) BY DEF Held
<1>2. Mid(r.p, c, L, FALSE, q, n) BY <1>1, MidTold
<1>3. Speaks(p, r.out) BY <1>1, SpeaksFrom
<1> QED BY <1>1, <1>2, <1>3, ToldSpeaks

LEMMA KeptBrings ==
  ASSUME NEW p, NEW c, NEW q, NEW n, Mid(p, c, 0, FALSE, q, n), NEW out, Speaks(p, out)
  PROVE  Brings(Kept(p, out), c, q, n)
<1> DEFINE r == Kept(p, out)
           d == <<>>
<1>1. r = [p |-> p, out |-> out, data |-> d, fin |-> FALSE, over |-> FALSE]
  BY DEF Kept, Brought, Done
<1>2. d \in Seq(Nat) /\ Len(d) = 0 OBVIOUS
<1>3. 1 + Len(c.given) \in Nat /\ 1 + Len(c.given) >= 1
  <2>1. Len(c.given) \in Nat BY DEF Mid, Conns
  <2> QED BY <2>1
<1> HIDE DEF d
<1>4. d = Units(1 + Len(c.given), 0)
  <2> PICK g \in Nat : g = 1 + Len(c.given) BY <1>3
  <2>1. \A j \in 1..Len(d) : d[j] = g + j - 1 BY <1>2
  <2>2. d = Units(g, Len(d)) BY <1>2, <1>3, <2>1, UnitsAre
  <2> QED BY <1>2, <2>2
<1>5. r.p = p /\ r.out = out /\ r.data = d /\ r.fin = FALSE BY <1>1
<1> HIDE DEF r
<1>6. Brings(r, c, q, n) BY <1>1, <1>2, <1>4, <1>5 DEF Brings
<1> QED BY <1>6 DEF r

LEMMA InOrderFacts ==
  ASSUME NEW p, NEW c, NEW q, q.nxt \in Nat, NEW n \in Nat, Mid(p, c, 0, FALSE, q, n),
         p.state \in Taking, NEW s \in Segs, Piece(s, q, n), TCPLEN(s) > 0,
         s.seq = p.rcv_nxt, p.rcv_wnd >= 1
  PROVE  Brings(InOrder(p, s), c, q, n) /\ Goes(p, InOrder(p, s))
<1> DEFINE l == Limit(s, p.rcv_wnd)
           o == InsertOver(l, p.ooseq)
           to == Right(p)
<1>1. /\ p \in Pcbs /\ p.rcv_nxt \in Nat /\ p.rcv_wnd \in Nat /\ to \in Nat
      /\ to = p.rcv_nxt + p.rcv_wnd /\ p.rcv_nxt + 1 \in Nat
  <2>1. p \in Pcbs BY DEF Mid
  <2>2. p.rcv_nxt \in Nat /\ p.rcv_wnd \in Nat BY <2>1 DEF Pcbs
  <2> QED BY <2>1, <2>2 DEF Right
<1> HIDE DEF to
<1>2. Fine(p.ooseq, q, n, p.rcv_nxt + 1, to) BY DEF Mid, Waiting, to
<1>3. Fine(p.ooseq, q, n, p.rcv_nxt, to) BY <1>1, <1>2, FineWider
<1>4. /\ l \in Segs /\ l.seq = p.rcv_nxt /\ Piece(l, q, n) /\ TCPLEN(l) > 0
      /\ DataEnd(l) <= to
  BY <1>1, LimitFacts
<1> HIDE DEF l
<1>5. \A i \in 1..Len(p.ooseq) : p.ooseq[i].seq > l.seq
  <2> TAKE i \in 1..Len(p.ooseq)
  <2>1. p.ooseq[i].seq \in Nat /\ p.ooseq[i].seq >= p.rcv_nxt + 1 BY <1>1, <1>2, FineFacts
  <2> QED BY <1>1, <1>4, <2>1
<1>6. Fine(o, q, n, p.rcv_nxt, to) /\ o # <<>> /\ o[1].seq = l.seq
  <2>1. l.seq >= p.rcv_nxt BY <1>1, <1>4
  <2> QED BY <1>1, <1>3, <1>4, <1>5, <2>1, InsertOverFacts, SMTT(100)
<1> HIDE DEF o
<1>7. Len(o) >= 1 BY <1>6 DEF Fine
<1>8. Brings(Deliver(p, o), c, q, n) /\ Goes(p, Deliver(p, o))
  BY <1>4, <1>6, <1>7, DeliverFacts DEF to
<1> QED BY <1>8 DEF InOrder, o, l

Waits(p, r, c, q, n) ==
  /\ Mid(r, c, 0, FALSE, q, n) /\ r.state = p.state /\ r.RXCLOSED = p.RXCLOSED
  /\ Right(r) = Right(p)

LEMMA EarlyFacts ==
  ASSUME NEW p, NEW c, NEW q, q.nxt \in Nat, NEW n \in Nat, Mid(p, c, 0, FALSE, q, n),
         p.state \in Taking, NEW s \in Segs, Piece(s, q, n), TCPLEN(s) > 0,
         s.seq > p.rcv_nxt, s.seq < Right(p), DataEnd(s) <= Right(p), NEW mem \in BOOLEAN
  PROVE  Waits(p, EarlyText(p, s, mem), c, q, n)
<1> DEFINE u == Queue(p.ooseq, s, Right(p))
           o == IF mem THEN u ELSE p.ooseq
           r == [p EXCEPT !.ooseq = o]
<1>1. p \in Pcbs /\ p.rcv_nxt \in Nat /\ Right(p) \in Nat /\ p.rcv_nxt + 1 \in Nat
  <2>1. p \in Pcbs BY DEF Mid
  <2>2. p.rcv_nxt \in Nat /\ p.rcv_wnd \in Nat BY <2>1 DEF Pcbs
  <2> QED BY <2>1, <2>2 DEF Right
<1>2. Fine(p.ooseq, q, n, p.rcv_nxt + 1, Right(p)) BY DEF Mid, Waiting
<1>3. s.seq >= p.rcv_nxt + 1
  <2>1. s.seq \in Nat BY SegFacts
  <2> QED BY <1>1, <2>1
<1>4. Fine(u, q, n, p.rcv_nxt + 1, Right(p)) BY <1>1, <1>2, <1>3, QueueFacts
<1> HIDE DEF u
<1>5. Fine(o, q, n, p.rcv_nxt + 1, Right(p)) /\ o \in Seq(Segs) BY <1>2, <1>4 DEF Fine
<1>6. EarlyText(p, s, mem) = r
  <2>1. p = [p EXCEPT !.ooseq = p.ooseq] BY <1>1 DEF Pcbs
  <2> QED BY <2>1 DEF EarlyText, u, Right
<1> HIDE DEF o
<1>7. r \in Pcbs BY <1>1, <1>5 DEF Pcbs
<1>8. /\ SameSnd(p, r) /\ SameAnn(p, r) /\ r.state = p.state /\ r.RXCLOSED = p.RXCLOSED
      /\ r.rcv_nxt = p.rcv_nxt /\ r.rcv_wnd = p.rcv_wnd /\ r.ooseq = o
  BY <1>1 DEF Pcbs, SameSnd, SameAnn
<1> HIDE DEF r
<1>9. SndOK(r) BY <1>8, SameSndOK DEF Mid
<1>10. Waiting(r, q, n) BY <1>5, <1>8 DEF Waiting, Right
<1>11. Mid(r, c, 0, FALSE, q, n)
  BY <1>7, <1>8, <1>9, <1>10 DEF Mid, Wnd, AnnWithin, SameAnn
<1>12. Right(r) = Right(p) BY <1>8 DEF Right
<1>13. Waits(p, r, c, q, n) BY <1>8, <1>11, <1>12 DEF Waits
<1> QED BY <1>6, <1>13 DEF r

\* The text of a segment that takes numbers: tcp_receive's second half.
LEMMA TextFacts ==
  ASSUME NEW p, NEW c, NEW q, q.nxt \in Nat, NEW n \in Nat, Mid(p, c, 0, FALSE, q, n),
         p.state \in Taking, NEW t \in Segs, Piece(t, q, n), TCPLEN(t) > 0,
         DataEnd(t) <= Right(p) \/ Len(t.data) <= 1, NEW mem \in BOOLEAN
  PROVE  LET r == Text(p, FromNext(p, t), mem) IN Brings(r, c, q, n) /\ Goes(p, r)
<1> DEFINE s == FromNext(p, t)
           r == Text(p, s, mem)
<1>1. /\ p \in Pcbs /\ SndOK(p) /\ p.rcv_nxt \in Nat /\ p.rcv_wnd \in Nat
      /\ Right(p) = p.rcv_nxt + p.rcv_wnd /\ Right(p) \in Nat
  <2>1. p \in Pcbs /\ SndOK(p) BY DEF Mid
  <2>2. p.rcv_nxt \in Nat /\ p.rcv_wnd \in Nat BY <2>1 DEF Pcbs
  <2> QED BY <2>1, <2>2 DEF Right
<1>2. t.seq \in Nat /\ End(t) \in Nat /\ Len(t.data) \in Nat /\ DataEnd(t) = t.seq + Len(t.data)
  BY SegFacts
<1>3. /\ s \in Segs /\ Piece(s, q, n) /\ TCPLEN(s) > 0 /\ s.seq \in Nat
      /\ s.seq # p.rcv_nxt => s = t
  <2>1. CASE t.seq < p.rcv_nxt /\ p.rcv_nxt < End(t)
    <3>1. s = TrimFront(t, p.rcv_nxt) BY <2>1 DEF FromNext
    <3> HIDE DEF s
    <3> QED BY <1>1, <2>1, <3>1, TrimFrontFacts
  <2>2. CASE ~(t.seq < p.rcv_nxt /\ p.rcv_nxt < End(t))
    <3>1. s = t BY <2>2 DEF FromNext
    <3> HIDE DEF s
    <3> QED BY <1>2, <3>1
  <2> QED BY <2>1, <2>2
<1> HIDE DEF s
<1>4. ASSUME NEW a, Mid(a, c, 0, FALSE, q, n), a.state = p.state, a.RXCLOSED = p.RXCLOSED,
             Right(a) = Right(p)
      PROVE  /\ Brings(Brought(tcp_send_empty_ack(a), <<>>, FALSE), c, q, n)
             /\ Goes(p, Brought(tcp_send_empty_ack(a), <<>>, FALSE))
  <2> DEFINE e == tcp_send_empty_ack(a)
             b == Brought(e, <<>>, FALSE)
  <2>1. a \in Pcbs /\ SndOK(a) BY <1>4 DEF Mid
  <2>2. /\ e = Done(e.p, e.out) /\ e.p \in Pcbs /\ SameSnd(a, e.p) /\ Told(a, e.p)
        /\ From(a, e.out)
    BY <2>1, EmptyAckFacts
  <2> HIDE DEF e
  <2>3. SndOK(e.p) BY <2>1, <2>2, SameSndOK DEF Told, SameRcv
  <2>4. Held(a, e) BY <2>2, <2>3 DEF Held
  <2>5. Mid(e.p, c, 0, FALSE, q, n) /\ Speaks(e.p, e.out) BY <1>4, <2>4, HeldFacts
  <2>6. b = Kept(e.p, e.out) BY <2>2 DEF Kept, Brought, Done
  <2>7. Brings(b, c, q, n) BY <2>5, <2>6, KeptBrings
  <2>8. b.p = e.p /\ b.fin = FALSE BY DEF Brought
  <2> HIDE DEF b
  <2>9. Goes(p, b)
    <3>1. Right(b.p) = Right(p) BY <1>4, <2>2, <2>8 DEF Told, SameRcv, Right
    <3> QED BY <1>1, <1>4, <2>2, <2>8, <3>1 DEF Goes, Told, SameRcv
  <2> QED BY <2>7, <2>9 DEF b, e
<1>8. r = Text(p, s, mem) OBVIOUS
<1> HIDE DEF r
<1>5. CASE ~InWindow(p, s.seq)
  <2>1. r = Brought(tcp_send_empty_ack(p), <<>>, FALSE) BY <1>5, <1>8 DEF Text
  <2>2. Brings(r, c, q, n) /\ Goes(p, r) BY <1>4, <2>1
  <2> QED BY <2>2 DEF r, s
<1>6. CASE InWindow(p, s.seq) /\ s.seq = p.rcv_nxt
  <2>1. r = InOrder(p, s) BY <1>6, <1>8 DEF Text
  <2>2. p.rcv_wnd >= 1 BY <1>1, <1>6 DEF InWindow
  <2>3. Brings(r, c, q, n) /\ Goes(p, r) BY <1>3, <1>6, <2>1, <2>2, InOrderFacts
  <2> QED BY <2>3 DEF r, s
<1>7. CASE InWindow(p, s.seq) /\ s.seq # p.rcv_nxt
  <2> DEFINE a == EarlyText(p, s, mem)
  <2>1. r = Brought(tcp_send_empty_ack(a), <<>>, FALSE) BY <1>7, <1>8 DEF Text
  <2>2. s = t /\ s.seq > p.rcv_nxt /\ s.seq < Right(p) BY <1>1, <1>3, <1>7 DEF InWindow
  <2>3. DataEnd(s) <= Right(p) BY <1>1, <1>2, <2>2
  <2>5. s \in Segs /\ Piece(s, q, n) /\ TCPLEN(s) > 0 /\ s.seq > p.rcv_nxt BY <1>3, <2>2
  <2>4. /\ Mid(a, c, 0, FALSE, q, n) /\ a.state = p.state /\ a.RXCLOSED = p.RXCLOSED
        /\ Right(a) = Right(p)
    <3>1. s.seq < Right(p) BY <2>2
    <3> HIDE DEF a
    <3>2. Waits(p, EarlyText(p, s, mem), c, q, n) BY <2>3, <2>5, <3>1, EarlyFacts
    <3> QED BY <3>2 DEF a, Waits
  <2> HIDE DEF a
  <2>6. Brings(r, c, q, n) /\ Goes(p, r) BY <1>4, <2>1, <2>4
  <2> QED BY <2>6 DEF r, s
<1> QED BY <1>5, <1>6, <1>7

LEMMA NoTextFacts ==
  ASSUME NEW p, NEW c, NEW q, NEW n, Mid(p, c, 0, FALSE, q, n), NEW m
  PROVE  Brings(NoText(p, m), c, q, n) /\ Goes(p, NoText(p, m))
<1> DEFINE a == IF InWindow(p, m.seq) THEN p ELSE tcp_ack_now(p)
           r == NoText(p, m)
<1>1. p \in Pcbs /\ SndOK(p) BY DEF Mid
<1>2. a \in Pcbs /\ SameSnd(p, a) /\ SameRcv(p, a) /\ SameAnn(p, a)
  <2>1. CASE InWindow(p, m.seq) BY <1>1, <2>1 DEF SameSnd, SameRcv, SameAnn
  <2>2. CASE ~InWindow(p, m.seq) BY <1>1, <2>2, AckFacts
  <2> QED BY <2>1, <2>2
<1>3. r = Kept(a, <<>>) BY DEF NoText
<1> HIDE DEF a
<1>4. SndOK(a) /\ Told(p, a) BY <1>1, <1>2, SameSndOK DEF SameRcv, SameAnn, Told
<1>5. Mid(a, c, 0, FALSE, q, n) BY <1>2, <1>4, MidTold
<1>6. Brings(r, c, q, n) BY <1>3, <1>5, KeptBrings, SpeaksNone
<1>7. r.p = a /\ r.fin = FALSE BY <1>3 DEF Kept, Brought, Done
<1> HIDE DEF r
<1>8. Right(p) <= Right(a)
  <2>1. p.rcv_nxt \in Nat /\ p.rcv_wnd \in Nat BY <1>1 DEF Pcbs
  <2> QED BY <1>2, <2>1 DEF Right, SameRcv
<1>9. Goes(p, r) BY <1>2, <1>7, <1>8 DEF Goes, SameRcv
<1> QED BY <1>6, <1>9 DEF r

LEMMA ReceiveFacts ==
  ASSUME NEW p, NEW c, NEW q, q.nxt \in Nat, q.edge \in Nat, NEW n \in Nat,
         Mid(p, c, 0, FALSE, q, n), p.state \in Taking => q.edge <= Right(p),
         NEW m \in Packets, Sound(m, q, n), ~m.rst, ~m.syn, NEW mem \in BOOLEAN
  PROVE  Brings(tcp_receive(p, m, mem), c, q, n) /\ Goes(p, tcp_receive(p, m, mem))
<1> DEFINE a == Acknowledge(p, m)
           t == Seg(m.seq, m.data, FALSE, m.fin)
           r == TextOf(a, m, mem)
<1>1. p \in Pcbs /\ SndOK(p) BY DEF Mid
<1>2. KeepsRcv(p, a) /\ SndOK(a) BY <1>1, AcknowledgeFacts DEF Sound
<1> HIDE DEF a
<1>3. a \in Pcbs /\ Told(p, a) BY <1>2, KeepsTold
<1>4. Mid(a, c, 0, FALSE, q, n) BY <1>2, <1>3, MidTold
<1>5. a.state = p.state /\ a.RXCLOSED = p.RXCLOSED /\ Right(a) = Right(p)
  BY <1>3 DEF Told, SameRcv, Right
<1>6. Brings(r, c, q, n) /\ Goes(a, r)
  <2>1. CASE TCPLEN(m) = 0 \/ a.state \notin Taking
    <3>1. r = NoText(a, m) BY <2>1 DEF TextOf
    <3> QED BY <1>4, <3>1, NoTextFacts
  <2>2. CASE ~(TCPLEN(m) = 0 \/ a.state \notin Taking)
    <3>1. r = Text(a, FromNext(a, t), mem) BY <2>2 DEF TextOf
    <3>2. /\ t \in Segs /\ t.seq = m.seq /\ t.data = m.data /\ t.fin = m.fin /\ t.syn = m.syn
          /\ m.data \in Seq(Nat)
      BY DEF Seg, Segs, Packets
    <3> HIDE DEF t
    <3>3. TCPLEN(t) = TCPLEN(m) /\ DataEnd(t) = DataEnd(m) BY <3>2 DEF TCPLEN, DataEnd
    <3>4. TCPLEN(t) > 0
      <4>1. TCPLEN(t) \in Nat BY <3>2, SegFacts
      <4> QED BY <2>2, <3>3, <4>1
    <3>5. Piece(m, q, n) /\ (DataEnd(m) <= q.edge \/ Len(m.data) <= 1)
      BY <3>3, <3>4 DEF Sound
    <3>6. Piece(t, q, n) BY <3>2, <3>3, <3>5 DEF Piece
    <3>7. DataEnd(t) <= Right(a) \/ Len(t.data) <= 1
      <4>1. q.edge <= Right(a) BY <1>5, <2>2
      <4>2. DataEnd(t) \in Nat BY <3>2, SegFacts
      <4>3. Right(a) \in Nat
        <5>1. a.rcv_nxt \in Nat /\ a.rcv_wnd \in Nat BY <1>3 DEF Pcbs
        <5> QED BY <5>1 DEF Right
      <4> QED BY <3>2, <3>3, <3>5, <4>1, <4>2, <4>3
    <3> QED BY <1>4, <2>2, <3>1, <3>2, <3>4, <3>6, <3>7, TextFacts
  <2> QED BY <2>1, <2>2
<1> HIDE DEF r
<1>7. Goes(p, r) BY <1>5, <1>6 DEF Goes
<1> QED BY <1>6, <1>7 DEF tcp_receive, a, r

-----------------------------------------------------------------------------
(* tcp_process: the state goes on, the block stays sound.                    *)

SameStream(c, d) == d \in Conns /\ d.given = c.given /\ d.unread = c.unread /\ d.eof = c.eof
Moves(p, r) ==
  /\ r \in Pcbs /\ SndOK(r) /\ SameAnn(p, r) /\ r.RXCLOSED = p.RXCLOSED
  /\ r.rcv_nxt = p.rcv_nxt /\ r.rcv_wnd = p.rcv_wnd /\ r.state \in Synchronized
  /\ r.state \in Taking => p.state \in Taking /\ r.ooseq = p.ooseq
  /\ r.state \in Open => p.state \in Open

LEMMA MidMoves ==
  ASSUME NEW p, NEW c, NEW L, NEW fin \in BOOLEAN, NEW q, NEW n, Mid(p, c, L, fin, q, n),
         NEW r, Moves(p, r), NEW d, SameStream(c, d)
  PROVE  Mid(r, d, L, fin, q, n)
<1>1. Wnd(r, fin) = Wnd(p, fin) /\ Right(r) = Right(p) BY DEF Moves, Wnd, Right
<1>2. d.given = c.given /\ d.unread = c.unread /\ d.eof = c.eof /\ d \in Conns BY DEF SameStream
<1>3. /\ r \in Pcbs /\ SndOK(r) /\ r.RXCLOSED = p.RXCLOSED /\ r.rcv_nxt = p.rcv_nxt
      /\ r.rcv_wnd = p.rcv_wnd /\ r.state \in Synchronized
      /\ r.rcv_ann_wnd = p.rcv_ann_wnd /\ r.rcv_ann_right_edge = p.rcv_ann_right_edge
  BY DEF Moves, SameAnn
<1>4. AnnWithin(r, Wnd(r, fin), d.eof \/ (fin /\ Wnd(r, fin) = 0))
  <2> DEFINE w == Wnd(p, fin)
             e == c.eof \/ (fin /\ Wnd(p, fin) = 0)
  <2>1. AnnWithin(p, w, e) BY DEF Mid
  <2>2. Wnd(r, fin) = w /\ (d.eof \/ (fin /\ Wnd(r, fin) = 0)) = e BY <1>1, <1>2
  <2> HIDE DEF w, e
  <2>3. AnnWithin(r, w, e) BY <1>3, <2>1 DEF AnnWithin
  <2> QED BY <2>2, <2>3
<1>5. (r.state \in Taking /\ ~fin) => Waiting(r, q, n)
  <2>1. r.state \in Taking => p.state \in Taking /\ r.ooseq = p.ooseq BY DEF Moves
  <2>2. (p.state \in Taking /\ ~fin) => Waiting(p, q, n) BY DEF Mid
  <2> QED BY <1>1, <1>3, <2>1, <2>2 DEF Waiting
<1>6. (r.state \in Taking \/ fin \/ L > 0) =>
        ~d.eof /\ r.rcv_nxt = 1 + Len(d.given) + L + (IF fin THEN 1 ELSE 0)
  <2>1. r.state \in Taking => p.state \in Taking BY DEF Moves
  <2>2. (p.state \in Taking \/ fin \/ L > 0) =>
          ~c.eof /\ p.rcv_nxt = 1 + Len(c.given) + L + (IF fin THEN 1 ELSE 0)
    BY DEF Mid
  <2> QED BY <1>2, <1>3, <2>1, <2>2
<1>7. (r.state \in Open \/ fin \/ L > 0) =>
        Wnd(r, fin) + L = IF r.RXCLOSED THEN TCP_WND ELSE TCP_WND - d.unread
  <2>1. r.state \in Open => p.state \in Open BY DEF Moves
  <2>2. (p.state \in Open \/ fin \/ L > 0) =>
          Wnd(p, fin) + L = IF p.RXCLOSED THEN TCP_WND ELSE TCP_WND - c.unread
    BY DEF Mid
  <2> QED BY <1>1, <1>2, <1>3, <2>1, <2>2
<1>8. L \in Nat /\ Wnd(r, fin) <= TCP_WND /\ r.rcv_wnd <= Wide BY <1>1, <1>3 DEF Mid
<1>9. /\ L > 0 => Len(d.given) + L < q.nxt
      /\ fin => q.fin /\ Len(d.given) + L = n
  BY <1>2 DEF Mid
<1> QED BY <1>2, <1>3, <1>4, <1>5, <1>6, <1>7, <1>8, <1>9, Zenon DEF Mid

LEMMA SameItself ==
  ASSUME NEW c \in Conns
  PROVE  SameStream(c, c)
BY DEF SameStream

LEMMA MovesOn ==
  ASSUME NEW p \in Pcbs, NEW r, Moves(p, r)
  PROVE  /\ Onward(p, r)
         /\ \A out : Speaks(p, out) => Speaks(r, out)
<1>1. Live(r) => Live(p) /\ Lim(r) = Lim(p)
  <2>1. r.state # "SYN_SENT" BY StateFacts DEF Moves
  <2>2. r.state \in Taking => p.state \in Taking BY DEF Moves
  <2>3. p.state \in Taking => p.state # "SYN_SENT" BY StateFacts
  <2> QED BY <2>1, <2>2, <2>3 DEF Live, Lim, Right, Moves
<1>2. Live(r) => Lim(p) <= Lim(r)
  <2>1. p.rcv_nxt \in Nat /\ p.rcv_wnd \in Nat BY DEF Pcbs
  <2>2. Lim(p) \in Int BY <2>1, Windows DEF Lim, Right
  <2> QED BY <1>1, <2>2
<1> QED BY <1>1, <1>2 DEF Onward, Speaks

LEMMA PurgedFacts ==
  ASSUME NEW p \in Pcbs, SndOK(p), p.state \in Synchronized
  PROVE  Moves(p, TimeWait(p)) /\ TimeWait(p).state = "TIME_WAIT"
<1> DEFINE r == TimeWait(p)
<1>1. /\ r \in Pcbs /\ r.state = "TIME_WAIT" /\ SameRoom(p, r) /\ SameAnn(p, r)
      /\ r.RXCLOSED = p.RXCLOSED /\ r.rcv_nxt = p.rcv_nxt /\ r.rcv_wnd = p.rcv_wnd
      /\ r.unsent = <<>> /\ r.unacked = <<>> /\ r.snd_nxt = p.snd_nxt
  <2> DEFINE e == <<>>
             a == [p EXCEPT !.unsent = e, !.unacked = e]
             b == [a EXCEPT !.ooseq = e, !.rtime = FALSE]
  <2>0. e \in Seq(Segs) OBVIOUS
  <2>6. TimeWait(p) = [b EXCEPT !.state = "TIME_WAIT"] BY DEF TimeWait, Purged
  <2> HIDE DEF e
  <2>1. /\ a \in Pcbs /\ SameRoom(p, a) /\ SameAnn(p, a) /\ a.RXCLOSED = p.RXCLOSED
        /\ a.rcv_nxt = p.rcv_nxt /\ a.rcv_wnd = p.rcv_wnd
        /\ a.unsent = e /\ a.unacked = e /\ a.snd_nxt = p.snd_nxt
    BY <2>0 DEF Pcbs, SameRoom, SameAnn
  <2> HIDE DEF a
  <2>2. /\ b \in Pcbs /\ SameRoom(a, b) /\ SameAnn(a, b) /\ b.RXCLOSED = a.RXCLOSED
        /\ b.rcv_nxt = a.rcv_nxt /\ b.rcv_wnd = a.rcv_wnd
        /\ b.unsent = a.unsent /\ b.unacked = a.unacked /\ b.snd_nxt = a.snd_nxt
    BY <2>0, <2>1, ZenonT(100) DEF Pcbs, SameRoom, SameAnn
  <2>3. r = [b EXCEPT !.state = "TIME_WAIT"] BY <2>6
  <2> HIDE DEF b, r
  <2>4. "TIME_WAIT" \in States BY DEF States
  <2>5. /\ r \in Pcbs /\ r.state = "TIME_WAIT" /\ SameRoom(b, r) /\ SameAnn(b, r)
        /\ r.RXCLOSED = b.RXCLOSED /\ r.rcv_nxt = b.rcv_nxt /\ r.rcv_wnd = b.rcv_wnd
        /\ r.unsent = b.unsent /\ r.unacked = b.unacked /\ r.snd_nxt = b.snd_nxt
    BY <2>2, <2>3, <2>4 DEF Pcbs, SameRoom, SameAnn
  <2> QED BY <2>1, <2>2, <2>5 DEF SameRoom, SameAnn, e
<1> HIDE DEF r
<1>2. Len(<<>>) = 0 OBVIOUS
<1>3. SndOK(r)
  <2>1. Top(r) = Top(p) BY <1>1 DEF Top, SameRoom
  <2>2. Below(r.unsent, Top(r)) /\ Below(r.unacked, Top(r)) BY <1>1, <1>2 DEF Below
  <2>3. ~CanWrite(r) BY <1>1 DEF CanWrite
  <2> QED BY <1>1, <2>1, <2>2, <2>3 DEF SndOK, SameRoom
<1>4. "TIME_WAIT" \notin Taking /\ "TIME_WAIT" \notin Open /\ "TIME_WAIT" \in Synchronized
  BY DEF Taking, Open, Synchronized
<1>5. Moves(p, r) BY <1>1, <1>3, <1>4 DEF Moves
<1> QED BY <1>1, <1>5 DEF r

\* What tcp_process did to p, with r its result.
Ran(p, r, c, q, n) ==
  /\ r.fin \in BOOLEAN /\ r.data = Units(1 + Len(c.given), Len(r.data))
  /\ Mid(r.p, c, Len(r.data), r.fin, q, n) /\ Speaks(r.p, r.out) /\ Onward(p, r.p)
  /\ r.fin => r.p.state \notin Taking
  /\ r.p.RXCLOSED = p.RXCLOSED
  /\ CanWrite(p) => CanWrite(r.p)
  /\ r.p.state = "CLOSE_WAIT" /\ ~r.fin => r.data = <<>>

LEMMA RanMoves ==
  ASSUME NEW p \in Pcbs, p.state \in Synchronized, NEW r, NEW c, NEW q, NEW n,
         Brings(r, c, q, n), Goes(p, r), p.state \notin Taking => r.data = <<>>,
         NEW b, Moves(r.p, b), r.fin => b.state \notin Taking, CanWrite(p) => CanWrite(b),
         ~r.fin /\ b.state = "CLOSE_WAIT" => p.state = "CLOSE_WAIT",
         NEW s, s.p = b, s.out = r.out, s.data = r.data, s.fin = r.fin
  PROVE  Ran(p, s, c, q, n)
<1>1. /\ r.fin \in BOOLEAN /\ r.data = Units(1 + Len(c.given), Len(r.data))
      /\ Mid(r.p, c, Len(r.data), r.fin, q, n) /\ Speaks(r.p, r.out)
  BY DEF Brings
<1>2. r.p \in Pcbs /\ c \in Conns BY <1>1 DEF Mid
<1>3. Mid(b, c, Len(r.data), r.fin, q, n) BY <1>1, <1>2, MidMoves, SameItself
<1>4. Speaks(b, r.out) /\ Onward(r.p, b) BY <1>1, <1>2, MovesOn
<1>5. Onward(p, b)
  <2> SUFFICES ASSUME Live(b) PROVE Live(p) /\ Lim(p) <= Lim(b) BY DEF Onward
  <2>1. b.state \in Taking /\ b.state # "SYN_SENT"
    BY StateFacts DEF Live, Moves
  <2>2. r.p.state \in Taking /\ ~r.fin BY <2>1 DEF Moves
  <2>3. p.state \in Taking /\ Right(p) <= Right(r.p) BY <2>2 DEF Goes
  <2>4. Right(b) = Right(r.p) BY DEF Moves, Right
  <2>5. p.state # "SYN_SENT" BY <2>3, StateFacts
  <2> QED BY <2>1, <2>3, <2>4, <2>5 DEF Live, Lim
<1>6. b.RXCLOSED = p.RXCLOSED BY DEF Moves, Goes
<1>7. b.state = "CLOSE_WAIT" /\ ~r.fin => r.data = <<>>
  <2>1. "CLOSE_WAIT" \notin Taking BY DEF Taking
  <2> QED BY <2>1
<1> QED BY <1>1, <1>3, <1>4, <1>5, <1>6, <1>7 DEF Ran

LEMMA StateMoves ==
  ASSUME NEW p \in Pcbs, SndOK(p), p.state \in Open, NEW to \in Open,
         to \in Taking => p.state \in Taking,
         to \in {"ESTABLISHED", "CLOSE_WAIT"} => CanWrite(p),
         NEW a \in Pcbs, SameSnd(p, a), SameRcv(p, a), SameAnn(p, a)
  PROVE  Moves(p, [a EXCEPT !.state = to]) /\ [a EXCEPT !.state = to].state = to
<1> DEFINE r == [a EXCEPT !.state = to]
<1>1. to \in States /\ to \in Synchronized BY StateFacts
<1>2. /\ r \in Pcbs /\ r.state = to /\ SameSnd(p, r) /\ SameAnn(p, r)
      /\ r.RXCLOSED = p.RXCLOSED /\ r.rcv_nxt = p.rcv_nxt /\ r.rcv_wnd = p.rcv_wnd
      /\ r.ooseq = p.ooseq
  BY <1>1 DEF Pcbs, SameSnd, SameRcv, SameAnn
<1> HIDE DEF r
<1>3. SndOK(r)
  <2>1. CanWrite(r) => CanWrite(p) BY <1>2 DEF CanWrite
  <2>2. Top(r) = Top(p) BY <1>2 DEF Top, SameSnd
  <2> QED BY <1>2, <2>1, <2>2 DEF SndOK, SameSnd
<1>4. Moves(p, r) BY <1>1, <1>2, <1>3 DEF Moves
<1> QED BY <1>2, <1>4 DEF r

LEMMA ChangedFacts ==
  ASSUME NEW p \in Pcbs, p.state \in Synchronized, NEW r, NEW c, NEW q, NEW n,
         Brings(r, c, q, n), Goes(p, r), p.state \notin Taking => r.data = <<>>,
         NEW acked \in BOOLEAN
  PROVE  Ran(p, Changed(r, acked), c, q, n)
<1> DEFINE a == r.p
           now == tcp_ack_now(a)
           s == Changed(r, acked)
<1>1. /\ r = [p |-> r.p, out |-> r.out, data |-> r.data, fin |-> r.fin, over |-> FALSE]
      /\ r.fin \in BOOLEAN /\ a \in Pcbs /\ SndOK(a) /\ a.state = p.state
      /\ r.fin => p.state \in Taking
  BY DEF Brings, Mid, Goes
<1>2. now \in Pcbs /\ SameSnd(a, now) /\ SameRcv(a, now) /\ SameAnn(a, now)
  BY <1>1, AckFacts
<1>3. SameSnd(a, a) /\ SameRcv(a, a) /\ SameAnn(a, a) BY DEF SameSnd, SameRcv, SameAnn
<1>4. now.state = a.state /\ SndOK(now) BY <1>1, <1>2, SameSndOK DEF SameRcv
<1>20. /\ "CLOSE_WAIT" \in Open /\ "CLOSING" \in Open /\ "FIN_WAIT_2" \in Open
       /\ "CLOSE_WAIT" \notin Taking /\ "CLOSING" \notin Taking /\ "FIN_WAIT_2" \in Taking
       /\ "FIN_WAIT_1" \in Open /\ "ESTABLISHED" \in Open /\ "FIN_WAIT_1" \in Taking
       /\ "TIME_WAIT" \notin Taking /\ "LAST_ACK" \notin Taking
  BY DEF Open, Taking
<1>21. CanWrite(p) <=> CanWrite(a) BY <1>1 DEF CanWrite
<1>30. ASSUME NEW b, Moves(a, b), r.fin => b.state \notin Taking, CanWrite(p) => CanWrite(b),
              ~r.fin /\ b.state = "CLOSE_WAIT" => p.state = "CLOSE_WAIT",
              NEW t, t = [r EXCEPT !.p = b]
       PROVE  Ran(p, t, c, q, n)
  <2>1. t.p = b /\ t.out = r.out /\ t.data = r.data /\ t.fin = r.fin BY <1>1, <1>30
  <2> HIDE DEF a
  <2> QED BY <1>30, <2>1, RanMoves DEF a
<1>31. ASSUME SndOK(now)
       PROVE  Moves(a, TimeWait(now)) /\ TimeWait(now).state = "TIME_WAIT"
  <2>1. Moves(now, TimeWait(now)) /\ TimeWait(now).state = "TIME_WAIT"
    BY <1>1, <1>2, <1>4, PurgedFacts
  <2> HIDE DEF a, now
  <2>2. "TIME_WAIT" \notin Taking /\ "TIME_WAIT" \notin Open BY DEF Taking, Open
  <2> QED BY <1>2, <2>1, <2>2 DEF Moves, SameRcv, SameAnn
<1> HIDE DEF a, now
<1>5. CASE a.state = "ESTABLISHED" /\ r.fin
  <2> DEFINE b == [now EXCEPT !.state = "CLOSE_WAIT"]
  <2>1. s = [r EXCEPT !.p = b] BY <1>5 DEF Changed, a, now
  <2>2. Moves(a, b) /\ b.state = "CLOSE_WAIT"
    BY <1>1, <1>2, <1>5, <1>20, StateMoves DEF CanWrite
  <2> HIDE DEF b, s
  <2>3. CanWrite(b) BY <2>2 DEF CanWrite
  <2>4. Ran(p, s, c, q, n) BY <1>5, <1>20, <1>30, <2>1, <2>2, <2>3
  <2> QED BY <2>4 DEF s
<1>6. CASE a.state = "FIN_WAIT_1" /\ r.fin /\ ~acked
  <2> DEFINE b == [now EXCEPT !.state = "CLOSING"]
  <2>1. s = [r EXCEPT !.p = b] BY <1>6 DEF Changed, a, now
  <2>2. Moves(a, b) /\ b.state = "CLOSING"
    BY <1>1, <1>2, <1>6, <1>20, StateMoves
  <2> HIDE DEF b, s
  <2>3. ~CanWrite(p) BY <1>6, <1>21 DEF CanWrite
  <2>4. Ran(p, s, c, q, n) BY <1>6, <1>20, <1>30, <2>1, <2>2, <2>3
  <2> QED BY <2>4 DEF s
<1>7. CASE \/ a.state = "FIN_WAIT_1" /\ r.fin /\ acked
           \/ a.state = "FIN_WAIT_2" /\ r.fin
  <2> DEFINE b == TimeWait(now)
  <2>1. s = [r EXCEPT !.p = b] BY <1>7 DEF Changed, a, now
  <2>2. Moves(a, b) /\ b.state = "TIME_WAIT" BY <1>4, <1>31
  <2> HIDE DEF b, s
  <2>3. ~CanWrite(p) BY <1>7, <1>21 DEF CanWrite
  <2>4. Ran(p, s, c, q, n) BY <1>20, <1>30, <2>1, <2>2, <2>3
  <2> QED BY <2>4 DEF s
<1>8. CASE a.state = "FIN_WAIT_1" /\ ~r.fin /\ acked
  <2> DEFINE b == [a EXCEPT !.state = "FIN_WAIT_2"]
  <2>1. s = [r EXCEPT !.p = b]
    <3>1. s = [r EXCEPT !.p.state = "FIN_WAIT_2"] BY <1>8 DEF Changed, a
    <3> QED BY <1>1, <3>1 DEF a
  <2>2. Moves(a, b) /\ b.state = "FIN_WAIT_2"
    BY <1>1, <1>3, <1>8, <1>20, StateMoves
  <2> HIDE DEF b, s
  <2>3. ~CanWrite(p) BY <1>8, <1>21 DEF CanWrite
  <2>4. Ran(p, s, c, q, n) BY <1>8, <1>30, <2>1, <2>2, <2>3
  <2> QED BY <2>4 DEF s
<1>9. CASE a.state = "CLOSING" /\ acked
  <2> DEFINE b == TimeWait(a)
  <2>1. s = [r EXCEPT !.p = b]
    <3>1. s = [r EXCEPT !.p = TimeWait(@)] BY <1>9 DEF Changed, a
    <3> QED BY <1>1, <3>1 DEF a
  <2>2. Moves(a, b) /\ b.state = "TIME_WAIT" BY <1>1, <1>9, <1>20, StateFacts, PurgedFacts
  <2> HIDE DEF b, s
  <2>3. ~CanWrite(p) BY <1>9, <1>21 DEF CanWrite
  <2>4. Ran(p, s, c, q, n) BY <1>20, <1>30, <2>1, <2>2, <2>3
  <2> QED BY <2>4 DEF s
<1>10. CASE \/ a.state = "LAST_ACK" /\ acked
            \/ a.state \in {"ESTABLISHED", "FIN_WAIT_2"} /\ ~r.fin
            \/ a.state = "FIN_WAIT_1" /\ ~r.fin /\ ~acked
            \/ a.state = "CLOSING" /\ ~acked
            \/ a.state = "LAST_ACK" /\ ~acked
            \/ a.state \in {"CLOSE_WAIT", "TIME_WAIT"}
  <2>1. s \in {r, [r EXCEPT !.over = TRUE]} BY <1>10 DEF Changed, a
  <2> HIDE DEF s
  <2>2. s.p = a /\ s.out = r.out /\ s.data = r.data /\ s.fin = r.fin BY <1>1, <2>1 DEF a
  <2>3. Moves(a, a) BY <1>1, <1>3 DEF Moves
  <2>4. ~r.fin \/ a.state \notin Taking
    BY <1>1, <1>10, <1>20 DEF Taking
  <2>5. r.fin => a.state \notin Taking BY <2>4
  <2>6. ~r.fin /\ a.state = "CLOSE_WAIT" => p.state = "CLOSE_WAIT" BY <1>1
  <2>7. Ran(p, s, c, q, n) BY <1>21, <2>2, <2>3, <2>5, <2>6, RanMoves DEF a
  <2> QED BY <2>7 DEF s
<1>11. a.state \in {"ESTABLISHED", "FIN_WAIT_1", "FIN_WAIT_2", "CLOSE_WAIT", "CLOSING",
                    "LAST_ACK", "TIME_WAIT"}
  BY <1>1 DEF Synchronized, Open
<1> QED BY <1>5, <1>6, <1>7, <1>8, <1>9, <1>10, <1>11

LEMMA ReceiveOnly ==
  ASSUME NEW p \in Pcbs, SndOK(p), NEW m \in Packets, m.wnd <= PeerBuf, NEW mem,
         p.state \notin Taking
  PROVE  tcp_receive(p, m, mem).data = <<>>
<1> DEFINE a == Acknowledge(p, m)
<1>1. a.state = p.state BY AcknowledgeFacts DEF KeepsRcv, SameRcv
<1> HIDE DEF a
<1>2. TextOf(a, m, mem) = NoText(a, m) BY <1>1 DEF TextOf
<1>3. NoText(a, m).data = <<>> BY DEF NoText, Kept, Brought
<1> QED BY <1>2, <1>3 DEF tcp_receive, a

LEMMA ProcessFacts ==
  ASSUME NEW p, NEW c, NEW q, q.nxt \in Nat, q.edge \in Nat, NEW n \in Nat,
         Mid(p, c, 0, FALSE, q, n), p.state \in Taking => q.edge <= Right(p),
         NEW m \in Packets, Sound(m, q, n), NEW mem \in BOOLEAN
  PROVE  Ran(p, tcp_process(p, m, mem), c, q, n)
<1> DEFINE s == tcp_process(p, m, mem)
           k == Kept(p, <<>>)
<1>1. p \in Pcbs /\ SndOK(p) /\ p.state \in Synchronized /\ c \in Conns BY DEF Mid
<1>2. p.state # "SYN_SENT" BY <1>1, StateFacts
<1>3. Brings(k, c, q, n) BY KeptBrings, SpeaksNone
<1>4. Goes(p, k) /\ k.data = <<>> /\ k.fin = FALSE /\ k.p = p /\ k.out = <<>>
  <2>1. k.p = p /\ k.fin = FALSE /\ k.data = <<>> /\ k.out = <<>> BY DEF Kept, Brought, Done
  <2>2. Right(p) <= Right(p)
    <3>1. p.rcv_nxt \in Nat /\ p.rcv_wnd \in Nat BY <1>1 DEF Pcbs
    <3> QED BY <3>1 DEF Right
  <2> HIDE DEF k
  <2>3. Goes(p, k) BY <2>1, <2>2 DEF Goes
  <2> QED BY <2>1, <2>3
<1>5. SameSnd(p, p) /\ SameRcv(p, p) /\ SameAnn(p, p) BY DEF SameSnd, SameRcv, SameAnn
<1>6. ASSUME NEW b \in Pcbs, SameSnd(p, b), SameRcv(p, b), SameAnn(p, b),
             NEW t, t.p = b, t.out = <<>>, t.data = <<>>, t.fin = FALSE
      PROVE  Ran(p, t, c, q, n)
  <2>1. SndOK(b) BY <1>1, <1>6, SameSndOK DEF SameRcv
  <2>2. Moves(p, b) /\ b.state = p.state BY <1>1, <1>6, <2>1 DEF Moves, SameRcv
  <2>3. CanWrite(p) => CanWrite(b) BY <2>2 DEF CanWrite
  <2> HIDE DEF k
  <2> QED BY <1>1, <1>3, <1>4, <1>6, <2>2, <2>3, RanMoves
<1>7. CASE m.rst
  <2>1. s = [k EXCEPT !.over = Acceptable(p, m)] BY <1>7 DEF tcp_process
  <2>2. k = [p |-> p, out |-> <<>>, data |-> <<>>, fin |-> FALSE, over |-> FALSE]
    BY DEF Kept, Brought, Done
  <2> HIDE DEF k, s
  <2>3. s.p = p /\ s.out = <<>> /\ s.data = <<>> /\ s.fin = FALSE BY <2>1, <2>2
  <2>4. Ran(p, s, c, q, n) BY <1>1, <1>5, <1>6, <2>3
  <2> QED BY <2>4 DEF s
<1>8. CASE ~m.rst /\ m.syn
  <2>1. s = Kept(tcp_ack_now(p), <<>>) BY <1>2, <1>8 DEF tcp_process
  <2>2. /\ tcp_ack_now(p) \in Pcbs /\ SameSnd(p, tcp_ack_now(p))
        /\ SameRcv(p, tcp_ack_now(p)) /\ SameAnn(p, tcp_ack_now(p))
    BY <1>1, AckFacts
  <2> HIDE DEF s
  <2>3. s.p = tcp_ack_now(p) /\ s.out = <<>> /\ s.data = <<>> /\ s.fin = FALSE
    BY <2>1 DEF Kept, Brought, Done
  <2>4. Ran(p, s, c, q, n) BY <1>6, <2>2, <2>3
  <2> QED BY <2>4 DEF s
<1>9. CASE ~m.rst /\ ~m.syn
  <2> DEFINE r == tcp_receive(p, m, mem)
             acked == m.ackno = p.snd_nxt
  <2>1. s = Changed(r, acked) BY <1>2, <1>9 DEF tcp_process
  <2>2. Brings(r, c, q, n) /\ Goes(p, r) BY <1>9, ReceiveFacts
  <2>3. p.state \notin Taking => r.data = <<>> BY <1>1, ReceiveOnly DEF Sound
  <2>4. acked \in BOOLEAN OBVIOUS
  <2> HIDE DEF r, acked, s
  <2>5. Ran(p, s, c, q, n) BY <1>1, <2>1, <2>2, <2>3, <2>4, ChangedFacts
  <2> QED BY <2>5 DEF s
<1> QED BY <1>7, <1>8, <1>9

-----------------------------------------------------------------------------
(* The netconn's calls: writing and closing.                                 *)

Resets(out) == out \in Seq(Packets) /\ \A i \in 1..Len(out) : out[i].rst

LEMMA ResetFacts ==
  ASSUME NEW seqno \in Nat, NEW ackno \in Nat
  PROVE  Resets(<<tcp_rst(seqno, ackno)>>)
<1> DEFINE m == tcp_rst(seqno, ackno)
<1>1. m \in Packets /\ m.rst
  <2>1. <<>> \in Seq(Nat) /\ TCP_WND \in Nat BY Windows
  <2> QED BY <2>1 DEF tcp_rst, Packet, Seg, Packets
<1> HIDE DEF m
<1>2. <<m>> \in Seq(Packets) /\ Len(<<m>>) = 1 /\ <<m>>[1] = m BY <1>1
<1>3. Resets(<<m>>) BY <1>1, <1>2 DEF Resets
<1> QED BY <1>3 DEF m

LEMMA ResetNone == Resets(<<>>)
<1>1. <<>> \in Seq(Packets) /\ Len(<<>>) = 0 OBVIOUS
<1> QED BY <1>1 DEF Resets

LEMMA ResetSpeaks ==
  ASSUME NEW p, NEW out, Resets(out)
  PROVE  Speaks(p, out) /\ out \in Seq(Packets)
BY DEF Resets, Speaks, Announces

Over(c) == [c EXCEPT !.attached = FALSE, !.op = "none", !.closed = TRUE]
NoMore(p) == [p EXCEPT !.RXCLOSED = TRUE]

\* What do_close_internal did; k is the block with RXCLOSED set.
ClosedTo(p, k, c, x) ==
  /\ x = [p |-> x.p, c |-> x.c, out |-> x.out, freed |-> x.freed]
  /\ Resets(x.out)
  /\ x.freed = (p.state = "CLOSE_WAIT" /\ p.rcv_wnd # TCP_WND)
  /\ x.freed => x.p = NoPcb
  /\ ~x.freed => Moves(k, x.p)
  /\ \/ x.c = c /\ x.p = k /\ p.rcv_wnd = TCP_WND
     \/ x.c = Over(c) /\ ~CanWrite(x.p) /\ x.p.state # "SYN_SENT"
  /\ p.rcv_wnd # TCP_WND => x.p.state \in {"TIME_WAIT", "CLOSED"}

LEMMA NoMoreFacts ==
  ASSUME NEW p \in Pcbs
  PROVE  LET k == NoMore(p)
         IN  /\ k \in Pcbs /\ SameSnd(p, k) /\ SameAnn(p, k) /\ k.state = p.state
             /\ k.rcv_nxt = p.rcv_nxt /\ k.rcv_wnd = p.rcv_wnd /\ k.ooseq = p.ooseq
             /\ k.RXCLOSED = TRUE /\ (p.RXCLOSED => k = p)
<1>1. NoMore(p) \in Pcbs BY DEF NoMore, Pcbs
<1>2. p.RXCLOSED => NoMore(p) = p
  <2>1. p = [p EXCEPT !.RXCLOSED = p.RXCLOSED] BY DEF Pcbs
  <2>2. p.RXCLOSED \in BOOLEAN BY DEF Pcbs
  <2> QED BY <2>1, <2>2 DEF NoMore
<1> QED BY <1>1, <1>2 DEF NoMore, Pcbs, SameSnd, SameAnn

LEMMA NoPcbFacts ==
  NoPcb \in Pcbs /\ NoPcb.state = "CLOSED" /\ ~Live(NoPcb) /\ ~CanWrite(NoPcb)
<1>1. NoPcb \in Pcbs
  <2>1. <<>> \in Seq(Segs) /\ "CLOSED" \in States BY DEF States
  <2>2. TCP_WND \in 0..Max({PeerBuf, TCP_WND}) /\ TCP_WND \in Nat /\ TCP_SND_BUF \in Nat
    BY Windows
  <2> QED BY <2>1, <2>2 DEF NoPcb, Pcbs
<1>2. NoPcb.state = "CLOSED" BY DEF NoPcb
<1>3. "CLOSED" \notin Taking /\ "CLOSED" # "SYN_SENT" BY DEF Taking
<1> QED BY <1>1, <1>2, <1>3 DEF Live, CanWrite

\* What tcp_close did and AfterClose makes of it.
LEMMA AfterCloseFacts ==
  ASSUME NEW p \in Pcbs, SndOK(p), CanWrite(p), NEW mem \in BOOLEAN
  PROVE  LET k == NoMore(p)
             r == tcp_close(p, mem)
         IN  /\ Resets(r.out) /\ r.ok \in BOOLEAN
             /\ p.rcv_wnd # TCP_WND /\ p.state = "ESTABLISHED" => r.ok /\ r.p = TimeWait(k)
             /\ p.rcv_wnd # TCP_WND /\ p.state = "CLOSE_WAIT" => r.ok /\ r.p = NoPcb
             /\ p.rcv_wnd = TCP_WND /\ r.ok =>
                  /\ Moves(k, r.p)
                  /\ r.p.state \in {"FIN_WAIT_1", "LAST_ACK"}
             /\ p.rcv_wnd = TCP_WND /\ ~r.ok => r.p = k
<1> DEFINE k == NoMore(p)
           r == tcp_close(p, mem)
           rst == <<tcp_rst(p.snd_nxt, p.rcv_nxt)>>
           f(to) == [tcp_send_fin(k) EXCEPT !.state = to]
           room == p.unsent # <<>> \/ (p.snd_buf > 0 /\ mem)
<1>1. p.snd_nxt \in Nat /\ p.rcv_nxt \in Nat BY DEF Pcbs
<1>2. Resets(rst) BY <1>1, ResetFacts
<1>3. Resets(<<>>) BY ResetNone
<1>4. /\ k \in Pcbs /\ SameSnd(p, k) /\ SameAnn(p, k) /\ k.state = p.state
      /\ k.rcv_nxt = p.rcv_nxt /\ k.rcv_wnd = p.rcv_wnd /\ k.ooseq = p.ooseq
      /\ k.RXCLOSED = TRUE
  BY NoMoreFacts
<1>5. SndOK(k) /\ ~k.FIN
  <2>1. ~p.FIN BY DEF SndOK
  <2> QED BY <1>4, <2>1, SameSndOK DEF SameSnd
<1>6. ASSUME NEW to \in {"FIN_WAIT_1", "LAST_ACK"}, room,
             to \in Taking => p.state \in Taking
      PROVE  Moves(k, f(to)) /\ f(to).state = to
  <2>1. k.unsent # <<>> \/ k.snd_buf > 0 BY <1>4, <1>6 DEF SameSnd
  <2> DEFINE g == f(to)
  <2>2. /\ g \in Pcbs /\ SndOK(g) /\ SameAnn(k, g) /\ g.state = to
        /\ SameRcv([k EXCEPT !.state = to], g)
    BY <1>4, <1>5, <2>1, SendFinFacts
  <2> HIDE DEF g, k
  <2>3. /\ g.RXCLOSED = k.RXCLOSED /\ g.rcv_nxt = k.rcv_nxt /\ g.rcv_wnd = k.rcv_wnd
        /\ g.ooseq = k.ooseq
    BY <1>4, <2>2 DEF SameRcv, Pcbs
  <2>4. to \in Synchronized /\ to \in Open /\ k.state \in Open
    BY <1>4 DEF Synchronized, Open, CanWrite
  <2>5. Moves(k, g) BY <1>4, <1>6, <2>2, <2>3, <2>4 DEF Moves
  <2> QED BY <2>2, <2>5 DEF g
<1>7. p.state = "ESTABLISHED" \/ p.state = "CLOSE_WAIT" BY DEF CanWrite
<1> HIDE DEF f
<1>8. CASE p.state = "ESTABLISHED" /\ p.rcv_wnd # TCP_WND
  <2>1. r = Closed(TimeWait(k), rst, TRUE) BY <1>8 DEF tcp_close, NoMore
  <2> HIDE DEF k, r, rst
  <2>2. r.p = TimeWait(k) /\ r.out = rst /\ r.ok = TRUE BY <2>1 DEF Closed
  <2> QED BY <1>2, <1>8, <2>2 DEF k, r
<1>9. CASE p.state = "CLOSE_WAIT" /\ p.rcv_wnd # TCP_WND
  <2>1. r = Closed(NoPcb, rst, TRUE) BY <1>9 DEF tcp_close, NoMore
  <2> HIDE DEF k, r, rst
  <2>2. r.p = NoPcb /\ r.out = rst /\ r.ok = TRUE BY <2>1 DEF Closed
  <2> QED BY <1>2, <1>9, <2>2 DEF k, r
<1>10. CASE p.rcv_wnd = TCP_WND
  <2> DEFINE to == IF p.state = "ESTABLISHED" THEN "FIN_WAIT_1" ELSE "LAST_ACK"
  <2>1. r = IF room THEN Closed(f(to), <<>>, TRUE) ELSE Closed(k, <<>>, FALSE)
    BY <1>7, <1>10 DEF tcp_close, NoMore, f
  <2>2. to \in {"FIN_WAIT_1", "LAST_ACK"} /\ (to \in Taking => p.state \in Taking)
    BY DEF Taking
  <2> HIDE DEF k, r, rst, to, room
  <2>3. CASE room
    <3>1. r = Closed(f(to), <<>>, TRUE) BY <2>1, <2>3
    <3>2. r.p = f(to) /\ r.out = <<>> /\ r.ok = TRUE BY <3>1 DEF Closed
    <3>3. Moves(k, f(to)) /\ f(to).state = to BY <1>6, <2>2, <2>3
    <3> QED BY <1>3, <1>10, <2>2, <3>2, <3>3 DEF k, r
  <2>4. CASE ~room
    <3>1. r = Closed(k, <<>>, FALSE) BY <2>1, <2>4
    <3>2. r.p = k /\ r.out = <<>> /\ r.ok = FALSE BY <3>1 DEF Closed
    <3> QED BY <1>3, <1>10, <3>2 DEF k, r
  <2> QED BY <2>3, <2>4
<1> QED BY <1>7, <1>8, <1>9, <1>10

LEMMA CloseFacts ==
  ASSUME NEW p \in Pcbs, SndOK(p), CanWrite(p), NEW c \in Conns, NEW mem \in BOOLEAN
  PROVE  ClosedTo(p, NoMore(p), c, do_close_internal(p, c, mem))
<1> DEFINE k == NoMore(p)
           r == tcp_close(p, mem)
           d == IF r.ok THEN Over(c) ELSE c
           x == do_close_internal(p, c, mem)
<1>1. /\ Resets(r.out) /\ r.ok \in BOOLEAN
      /\ p.rcv_wnd # TCP_WND /\ p.state = "ESTABLISHED" => r.ok /\ r.p = TimeWait(k)
      /\ p.rcv_wnd # TCP_WND /\ p.state = "CLOSE_WAIT" => r.ok /\ r.p = NoPcb
      /\ p.rcv_wnd = TCP_WND /\ r.ok =>
           /\ Moves(k, r.p)
           /\ r.p.state \in {"FIN_WAIT_1", "LAST_ACK"}
      /\ p.rcv_wnd = TCP_WND /\ ~r.ok => r.p = k
  BY AfterCloseFacts
<1>2. x = [p |-> r.p, c |-> d, out |-> r.out, freed |-> (r.p.state = "CLOSED")]
  BY DEF do_close_internal, AfterClose, State, Over
<1>3. /\ k \in Pcbs /\ SameSnd(p, k) /\ SameAnn(p, k) /\ k.state = p.state
  BY NoMoreFacts
<1>4. SndOK(k) BY <1>3, SameSndOK
<1>5. p.state \in {"ESTABLISHED", "CLOSE_WAIT"} /\ k.state \in Synchronized
  BY <1>3 DEF CanWrite, Synchronized, Open
<1> HIDE DEF k, r, x, d
<1>6. x.p = r.p /\ x.c = d /\ x.out = r.out /\ x.freed = (r.p.state = "CLOSED") BY <1>2
<1>7. /\ x = [p |-> x.p, c |-> x.c, out |-> x.out, freed |-> x.freed]
      /\ Resets(x.out)
  BY <1>1, <1>2, <1>6
<1>8. CASE p.rcv_wnd # TCP_WND /\ p.state = "ESTABLISHED"
  <2>1. Moves(k, TimeWait(k)) /\ TimeWait(k).state = "TIME_WAIT" BY <1>3, <1>4, <1>5, PurgedFacts
  <2>2. x.p = TimeWait(k) /\ x.c = Over(c) /\ x.freed = FALSE /\ ~CanWrite(x.p)
    BY <1>1, <1>6, <1>8, <2>1 DEF d, CanWrite
  <2>3. ClosedTo(p, k, c, x) BY <1>7, <1>8, <2>1, <2>2 DEF ClosedTo
  <2> QED BY <2>3 DEF k, x
<1>9. CASE p.rcv_wnd # TCP_WND /\ p.state = "CLOSE_WAIT"
  <2>1. x.p = NoPcb /\ x.c = Over(c) /\ x.freed = TRUE
    BY <1>1, <1>6, <1>9, NoPcbFacts DEF d
  <2>2. ClosedTo(p, k, c, x) BY <1>7, <1>9, <2>1, NoPcbFacts DEF ClosedTo
  <2> QED BY <2>2 DEF k, x
<1>10. CASE p.rcv_wnd = TCP_WND /\ r.ok
  <2>1. /\ Moves(k, x.p) /\ x.c = Over(c) /\ x.p.state \in {"FIN_WAIT_1", "LAST_ACK"}
        /\ x.freed = FALSE /\ ~CanWrite(x.p)
    BY <1>1, <1>6, <1>10 DEF d, CanWrite
  <2>2. ClosedTo(p, k, c, x) BY <1>7, <1>10, <2>1 DEF ClosedTo
  <2> QED BY <2>2 DEF k, x
<1>11. CASE p.rcv_wnd = TCP_WND /\ ~r.ok
  <2>1. x.p = k /\ x.c = c /\ x.freed = FALSE
    BY <1>1, <1>3, <1>5, <1>6, <1>11 DEF d
  <2>2. Moves(k, k) BY <1>3, <1>4, <1>5 DEF Moves, SameAnn
  <2>3. ClosedTo(p, k, c, x) BY <1>7, <1>11, <2>1, <2>2 DEF ClosedTo
  <2> QED BY <2>3 DEF k, x
<1> QED BY <1>1, <1>5, <1>8, <1>9, <1>10, <1>11

LEMMA OverFacts ==
  ASSUME NEW c \in Conns
  PROVE  /\ SameStream(c, Over(c)) /\ Over(c).op = "none" /\ Over(c).attached = FALSE
         /\ Over(c).closed = TRUE /\ Over(c).used = c.used
BY DEF Over, Conns, SameStream

-----------------------------------------------------------------------------
(* The callbacks of tcp_input: sent_tcp, and what is left after it.          *)

Seen(c) == c.attached \/ c.err \/ c.closed

\* What sent_tcp or poll_tcp made of the block p, L units and perhaps the FIN
\* not yet being told.
Called(p, c, x, L, fin, q, n) ==
  /\ x = [p |-> x.p, c |-> x.c, out |-> x.out, freed |-> x.freed]
  /\ SameStream(c, x.c) /\ CallOK(x.p, x.c) /\ Seen(x.c) /\ x.out \in Seq(Packets)
  /\ x.freed => fin /\ x.p = NoPcb
  /\ ~x.freed => /\ Mid(x.p, x.c, L, fin, q, n) /\ Speaks(x.p, x.out) /\ Onward(p, x.p)
                 /\ fin => x.p.state \notin Taking

LEMMA ContinueFacts ==
  ASSUME NEW p, NEW c, NEW L, NEW fin \in BOOLEAN, NEW q, NEW n, Mid(p, c, L, fin, q, n),
         CallOK(p, c), Seen(c), fin => p.state \notin Taking,
         p.state = "CLOSE_WAIT" /\ ~fin => L = 0, NEW mem \in BOOLEAN
  PROVE  Called(p, c, Continue(p, c, mem), L, fin, q, n)
<1> DEFINE x == Continue(p, c, mem)
<1>1. p \in Pcbs /\ SndOK(p) /\ p.state \in Synchronized /\ c \in Conns BY DEF Mid
<1>2. ASSUME NEW d, SameStream(c, d), NEW r, KeepsRcv(p, r), SndOK(r), CallOK(r, d), Seen(d)
      PROVE  Called(p, c, State(r, d, <<>>), L, fin, q, n)
  <2> DEFINE y == State(r, d, <<>>)
  <2>1. y.p = r /\ y.c = d /\ y.out = <<>> /\ y.freed = FALSE BY DEF State
  <2>2. y = [p |-> y.p, c |-> y.c, out |-> y.out, freed |-> y.freed] BY DEF State
  <2> HIDE DEF y
  <2>3. r \in Pcbs /\ r.state = p.state /\ Moves(p, r)
    BY <1>1, <1>2 DEF KeepsRcv, SameRcv, Moves
  <2>4. Mid(r, d, L, fin, q, n) BY <1>2, <2>3, MidMoves
  <2>5. Onward(p, r) BY <1>1, <2>3, MovesOn
  <2>6. Speaks(r, <<>>) /\ <<>> \in Seq(Packets) BY ResetNone, ResetSpeaks
  <2>7. Called(p, c, y, L, fin, q, n) BY <1>2, <2>1, <2>2, <2>3, <2>4, <2>5, <2>6 DEF Called
  <2> QED BY <2>7 DEF y
<1>3. KeepsRcv(p, p) BY <1>1 DEF KeepsRcv, SameRcv, SameAnn
<1>4. SameStream(c, c) BY <1>1, SameItself
<1>5. c.op = "write" \/ c.op = "close" => CanWrite(p) /\ c.attached
  <2>1. c.op # "connect" \/ ~(c.op = "write" \/ c.op = "close") OBVIOUS
  <2>2. p.state # "SYN_SENT" BY <1>1, StateFacts
  <2> QED BY <2>2 DEF CallOK
<1>6. CASE c.op = "write"
  <2>1. x = do_writemore(p, c, mem) BY <1>6 DEF Continue
  <2>2. CASE p.snd_buf = 0
    <3>1. x = State(p, c, <<>>) BY <2>1, <2>2 DEF do_writemore
    <3> HIDE DEF x
    <3>2. Called(p, c, x, L, fin, q, n) BY <1>1, <1>2, <1>3, <1>4, <3>1
    <3> QED BY <3>2 DEF x
  <2>3. CASE p.snd_buf # 0
    <3> DEFINE d == IF mem THEN [c EXCEPT !.written = @ + 1, !.op = "none"] ELSE c
               r == tcp_write(p, c.written + 1, mem)
    <3>1. x = State(r, d, <<>>) BY <2>1, <2>3 DEF do_writemore
    <3>2. p.snd_buf \in Nat /\ p.snd_buf > 0 /\ c.written + 1 \in Nat
      <4>1. p.snd_buf \in Nat /\ c.written \in Nat BY <1>1 DEF Pcbs, Conns
      <4> QED BY <2>3, <4>1
    <3>3. KeepsRcv(p, r) /\ SndOK(r) BY <1>1, <1>5, <1>6, <3>2, WriteFacts
    <3>4. /\ d \in Conns /\ SameStream(c, d) /\ d.attached = c.attached /\ d.used = c.used
          /\ d.closed = c.closed /\ d.err = c.err /\ d.op \in {"none", "write"}
      <4>1. CASE mem
        <5>1. d = [c EXCEPT !.written = c.written + 1, !.op = "none"] BY <4>1
        <5> HIDE DEF d
        <5>2. c.written + 1 \in Nat BY <3>2
        <5>3. d \in Conns BY <1>1, <5>1, <5>2 DEF Conns
        <5> QED BY <1>1, <5>1, <5>3 DEF SameStream, Conns
      <4>2. CASE ~mem BY <1>1, <1>4, <1>6, <4>2
      <4> QED BY <4>1, <4>2
    <3> HIDE DEF d, r, x
    <3>5. Seen(d) BY <3>4 DEF Seen
    <3>6. CallOK(r, d)
      <4>1. r.state = p.state /\ r.RXCLOSED = p.RXCLOSED BY <3>3 DEF KeepsRcv, SameRcv
      <4>2. CanWrite(r) BY <1>5, <1>6, <4>1 DEF CanWrite
      <4>3. r.state # "SYN_SENT" BY <1>1, <4>1, StateFacts
      <4>4. ~r.RXCLOSED /\ c.used # "more" BY <1>5, <1>6, <4>1 DEF CallOK
      <4> QED BY <1>5, <1>6, <3>4, <4>2, <4>3, <4>4 DEF CallOK
    <3>7. Called(p, c, x, L, fin, q, n) BY <1>2, <3>1, <3>3, <3>4, <3>5, <3>6
    <3> QED BY <3>7 DEF x
  <2> QED BY <2>2, <2>3
<1>7. CASE c.op = "close"
  <2>1. x = do_close_internal(p, c, mem) BY <1>7 DEF Continue
  <2>2. CanWrite(p) /\ p.RXCLOSED BY <1>5, <1>7 DEF CallOK
  <2>3. NoMore(p) = p BY <1>1, <2>2, NoMoreFacts
  <2>4. ClosedTo(p, p, c, x) BY <1>1, <2>1, <2>2, <2>3, CloseFacts
  <2> HIDE DEF x
  <2>5. x.out \in Seq(Packets) /\ \A r : Speaks(r, x.out) BY <2>4, ResetSpeaks DEF ClosedTo
  <2>6. SameStream(c, x.c) /\ CallOK(x.p, x.c) /\ Seen(x.c)
    <3>1. CASE x.c = c /\ x.p = p BY <1>4, <3>1
    <3>2. CASE x.c = Over(c) /\ ~CanWrite(x.p) /\ x.p.state # "SYN_SENT"
      <4>1. c.used # "more" BY DEF CallOK
      <4> QED BY <1>1, <3>2, <4>1, OverFacts DEF CallOK, Seen
    <3> QED BY <2>4, <3>1, <3>2 DEF ClosedTo
  <2>7. ASSUME x.freed PROVE fin /\ x.p = NoPcb
    <3>1. p.state = "CLOSE_WAIT" /\ p.rcv_wnd # TCP_WND /\ x.p = NoPcb
      BY <2>4, <2>7 DEF ClosedTo
    <3>2. ASSUME ~fin PROVE FALSE
      <4>1. L = 0 /\ p.state \in Open BY <3>1, <3>2 DEF Open
      <4>2. Wnd(p, fin) + L = TCP_WND BY <2>2, <4>1 DEF Mid
      <4>3. Wnd(p, fin) = p.rcv_wnd BY <3>2 DEF Wnd
      <4>4. p.rcv_wnd \in Nat BY <1>1 DEF Pcbs
      <4> QED BY <3>1, <4>1, <4>2, <4>3, <4>4
    <3> QED BY <3>1, <3>2
  <2>8. ASSUME ~x.freed
        PROVE  /\ Mid(x.p, x.c, L, fin, q, n) /\ Speaks(x.p, x.out) /\ Onward(p, x.p)
               /\ fin => x.p.state \notin Taking
    <3>1. Moves(p, x.p) BY <2>4, <2>8 DEF ClosedTo
    <3>2. Mid(x.p, x.c, L, fin, q, n) BY <2>6, <3>1, MidMoves
    <3>3. Onward(p, x.p) BY <1>1, <3>1, MovesOn
    <3>4. fin => x.p.state \notin Taking BY <3>1 DEF Moves
    <3> QED BY <2>5, <3>2, <3>3, <3>4
  <2>9. Called(p, c, x, L, fin, q, n) BY <2>4, <2>5, <2>6, <2>7, <2>8 DEF Called, ClosedTo
  <2> QED BY <2>9 DEF x
<1>8. CASE c.op # "write" /\ c.op # "close"
  <2>1. x = State(p, c, <<>>) BY <1>8 DEF Continue
  <2> HIDE DEF x
  <2>2. Called(p, c, x, L, fin, q, n) BY <1>1, <1>2, <1>3, <1>4, <2>1
  <2> QED BY <2>2 DEF x
<1> QED BY <1>6, <1>7, <1>8

\* What a handler of the board leaves of block and netconn, and says.
Good(p, x, q, n) ==
  BoardOK(x.p, x.c, q, n) /\ Speaks(x.p, x.out) /\ Onward(p, x.p) /\ Seen(x.c)

LEMMA StreamSame ==
  ASSUME NEW c, NEW d, SameStream(c, d), NEW q, NEW n, StreamOK(c, q, n)
  PROVE  StreamOK(d, q, n)
BY DEF SameStream, StreamOK

LEMMA GoneFacts ==
  ASSUME NEW c \in Conns, NEW q, NEW n, StreamOK(c, q, n), CallOK(NoPcb, c), Seen(c),
         NEW p, NEW x, x.p = NoPcb, x.c = c, x.out \in Seq(Packets)
  PROVE  Good(p, x, q, n)
<1>1. NoPcb \in Pcbs /\ NoPcb.state = "CLOSED" /\ ~Live(NoPcb) BY NoPcbFacts
<1>2. /\ "CLOSED" \notin Taking /\ "CLOSED" \notin Synchronized /\ "CLOSED" \notin Open
  BY DEF Taking, Synchronized, Open
<1>3. RcvOK(NoPcb, c, q, n) BY <1>1, <1>2 DEF RcvOK
<1>4. BoardOK(NoPcb, c, q, n) BY <1>1, <1>2, <1>3 DEF BoardOK
<1>5. Speaks(NoPcb, x.out) /\ Onward(p, NoPcb) BY <1>1 DEF Speaks, Onward
<1> QED BY <1>4, <1>5 DEF Good

LEMMA ErroredFacts ==
  ASSUME NEW c \in Conns, NEW p, CallOK(p, c)
  PROVE  /\ SameStream(c, Errored(c)) /\ CallOK(NoPcb, Errored(c))
         /\ Seen(c) => Seen(Errored(c))
<1> DEFINE d == Errored(c)
<1>1. /\ d \in Conns /\ d.given = c.given /\ d.unread = c.unread /\ d.eof = c.eof
      /\ d.used = c.used /\ d.attached = FALSE /\ d.op = "none" /\ d.closed = c.closed
      /\ d.err = (c.err \/ c.attached)
  <2>1. CASE c.attached
    <3>1. d = [c EXCEPT !.attached = FALSE, !.op = "none", !.err = TRUE]
      BY <2>1 DEF Errored, err_tcp
    <3> HIDE DEF d
    <3> QED BY <2>1, <3>1 DEF Conns
  <2>2. CASE ~c.attached
    <3>1. d = c BY <2>2 DEF Errored
    <3>2. c.op = "none" BY <2>2 DEF CallOK
    <3>3. c.attached = FALSE /\ c.err \in BOOLEAN BY <2>2 DEF Conns
    <3> HIDE DEF d
    <3> QED BY <2>2, <3>1, <3>2, <3>3
  <2> QED BY <2>1, <2>2
<1> HIDE DEF d
<1>2. SameStream(c, d) BY <1>1 DEF SameStream
<1>3. CallOK(NoPcb, d) BY <1>1, NoPcbFacts DEF CallOK
<1>4. Seen(c) => Seen(d) BY <1>1 DEF Seen
<1> QED BY <1>2, <1>3, <1>4 DEF d

LEMMA AbortFacts ==
  ASSUME NEW p \in Pcbs
  PROVE  tcp_abort(p).p = NoPcb /\ Resets(tcp_abort(p).out)
<1>1. p.snd_nxt \in Nat /\ p.rcv_nxt \in Nat BY DEF Pcbs
<1>2. Resets(<<tcp_rst(p.snd_nxt, p.rcv_nxt)>>) /\ Resets(<<>>) BY <1>1, ResetFacts, ResetNone
<1> QED BY <1>2 DEF tcp_abort, Done

\* FinCounted and Received put the window right.
Counted(p, c, r, e, fin, q, n) ==
  /\ Mid(r, e, 0, FALSE, q, n) /\ StreamOK(e, q, n)
  /\ SameSnd(p, r) /\ r.state = p.state /\ r.RXCLOSED = p.RXCLOSED
  /\ fin \/ r = p
  /\ e.attached = c.attached /\ e.op = c.op /\ e.used = c.used
  /\ e.closed = c.closed /\ e.err = c.err

LEMMA CountedFacts ==
  ASSUME NEW p, NEW c, NEW d \in Seq(Nat), NEW fin \in BOOLEAN, NEW q, NEW n \in Nat,
         Mid(p, c, Len(d), fin, q, n), d = Units(1 + Len(c.given), Len(d)),
         StreamOK(c, q, n), fin => p.state \notin Taking, p.RXCLOSED => Len(d) = 0
  PROVE  Counted(p, c, FinCounted(p, fin), Received(c, d, fin /\ ~p.RXCLOSED), fin, q, n)
<1> DEFINE r == FinCounted(p, fin)
           told == fin /\ ~p.RXCLOSED
           e == Received(c, d, told)
           L == Len(d)
           w == Wnd(p, fin)
<1>1. /\ p \in Pcbs /\ c \in Conns /\ p.state \in Synchronized /\ SndOK(p)
      /\ L \in Nat /\ w <= TCP_WND /\ p.rcv_wnd <= Wide
      /\ p.rcv_wnd \in Nat /\ p.rcv_nxt \in Nat /\ c.unread \in Nat /\ p.RXCLOSED \in BOOLEAN
  BY DEF Mid, Pcbs, Conns
<1>2. w \in Nat /\ TCP_WND \in Nat /\ TCP_WND >= 2 /\ TCP_WND < Wide
  <2>1. CASE fin
    <3>1. w = U16(p.rcv_wnd + 1) BY <2>1 DEF Wnd
    <3> HIDE DEF w
    <3>2. p.rcv_wnd + 1 \in Int BY <1>1
    <3>3. \A v \in Int : U16(v) \in Nat BY U16Facts
    <3>4. w \in Nat BY <3>1, <3>2, <3>3
    <3>5. TCP_WND \in Nat /\ TCP_WND >= 2 BY Windows
    <3>6. TCP_WND < Wide BY U16Facts
    <3> QED BY <3>4, <3>5, <3>6
  <2>2. CASE ~fin
    <3>1. w = p.rcv_wnd BY <2>2 DEF Wnd
    <3> HIDE DEF w
    <3>5. TCP_WND \in Nat /\ TCP_WND >= 2 BY Windows
    <3>6. TCP_WND < Wide BY U16Facts
    <3> QED BY <1>1, <3>1, <3>5, <3>6
  <2> QED BY <2>1, <2>2
<1>3. /\ r \in Pcbs /\ SameSnd(p, r) /\ SameAnn(p, r) /\ r.state = p.state
      /\ r.RXCLOSED = p.RXCLOSED /\ r.rcv_nxt = p.rcv_nxt /\ r.ooseq = p.ooseq
      /\ r.rcv_wnd = w /\ (fin \/ r = p)
  <2>1. CASE fin /\ p.rcv_wnd # TCP_WND
    <3>1. r = [p EXCEPT !.rcv_wnd = w] BY <2>1 DEF FinCounted, Wnd
    <3> HIDE DEF r, w
    <3> QED BY <1>1, <1>2, <2>1, <3>1 DEF Pcbs, SameSnd, SameAnn
  <2>2. CASE ~fin
    <3>1. r = p /\ w = p.rcv_wnd BY <2>2 DEF FinCounted, Wnd
    <3> HIDE DEF r, w
    <3> QED BY <1>1, <3>1 DEF SameSnd, SameAnn
  <2>3. ASSUME fin, p.rcv_wnd = TCP_WND PROVE FALSE
    <3>1. w = U16(TCP_WND + 1) BY <2>3 DEF Wnd
    <3>2. TCP_WND + 1 \in Nat /\ TCP_WND + 1 <= Wide BY <1>2, U16Facts
    <3>3. w = TCP_WND + 1 BY <3>1, <3>2, U16Facts
    <3> QED BY <1>1, <1>2, <3>3
  <2> QED BY <2>1, <2>2, <2>3
<1>4. told \in BOOLEAN /\ c.eof \in BOOLEAN BY <1>1 DEF Conns
<1>5. fin \/ L > 0 => ~c.eof /\ w + L = IF p.RXCLOSED THEN TCP_WND ELSE TCP_WND - c.unread
  BY DEF Mid
<1>6. c.unread + L \in 0..TCP_WND
  <2>1. CASE L = 0
    <3>1. c.unread \in 0..TCP_WND BY <1>1 DEF Conns
    <3> QED BY <1>1, <2>1, <3>1
  <2>2. CASE L # 0
    <3>1. w + L = TCP_WND - c.unread BY <1>1, <1>5, <2>2
    <3> QED BY <1>1, <1>2, <3>1
  <2> QED BY <2>1, <2>2
<1>7. /\ e \in Conns /\ e.given = c.given \o d /\ e.unread = c.unread + L
      /\ e.eof = (c.eof \/ told)
      /\ e.attached = c.attached /\ e.op = c.op /\ e.used = c.used
      /\ e.closed = c.closed /\ e.err = c.err
  <2> DEFINE g == c.given \o d
             u == c.unread + L
             f == c.eof \/ told
  <2>1. g \in Seq(Nat) /\ u \in 0..TCP_WND /\ f \in BOOLEAN
    <3>1. c.given \in Seq(Nat) BY <1>1 DEF Conns
    <3> QED BY <1>4, <1>6, <3>1
  <2>2. e = [c EXCEPT !.given = g, !.unread = u, !.eof = f] BY DEF Received
  <2> HIDE DEF g, u, f, e
  <2>3. e \in Conns BY <1>1, <2>1, <2>2 DEF Conns
  <2>4. e.given = g /\ e.unread = u /\ e.eof = f BY <1>1, <2>2 DEF Conns
  <2>5. /\ e.attached = c.attached /\ e.op = c.op /\ e.used = c.used
        /\ e.closed = c.closed /\ e.err = c.err
    BY <1>1, <2>2 DEF Conns
  <2> QED BY <2>3, <2>4, <2>5, Zenon DEF g, u, f
<1> HIDE DEF r, e, told, w
<1>8. Len(e.given) = Len(c.given) + L /\ Len(c.given) \in Nat
  <2>1. c.given \in Seq(Nat) BY <1>1 DEF Conns
  <2>2. Len(c.given \o d) = Len(c.given) + Len(d) BY <2>1
  <2> QED BY <1>7, <2>1, <2>2
<1>9. SndOK(r) BY <1>1, <1>3, SameSndOK
<1>10. AnnWithin(r, w, e.eof)
  <2>1. AnnWithin(p, w, c.eof \/ (fin /\ w = 0)) BY DEF Mid, w
  <2>2. ASSUME fin, w = 0 PROVE told
    <3>1. ASSUME p.RXCLOSED PROVE FALSE
      <4>1. w + L = TCP_WND /\ L = 0 BY <1>5, <2>2, <3>1
      <4> QED BY <1>2, <2>2, <4>1
    <3> QED BY <2>2, <3>1 DEF told
  <2>3. (c.eof \/ (fin /\ w = 0)) => e.eof BY <1>7, <2>2
  <2> QED BY <1>3, <2>1, <2>3 DEF AnnWithin, SameAnn
<1>11. r.state \in Taking => Waiting(r, q, n)
  <2> SUFFICES ASSUME r.state \in Taking PROVE Waiting(r, q, n) OBVIOUS
  <2>1. ~fin /\ r = p BY <1>3
  <2> QED BY <2>1 DEF Mid
<1>12. r.state \in Taking => ~e.eof /\ r.rcv_nxt = 1 + Len(e.given)
  <2> SUFFICES ASSUME r.state \in Taking PROVE ~e.eof /\ r.rcv_nxt = 1 + Len(e.given) OBVIOUS
  <2>1. ~fin /\ r = p BY <1>3
  <2>2. ~c.eof /\ p.rcv_nxt = 1 + Len(c.given) + L + 0 BY <2>1 DEF Mid
  <2>3. ~e.eof BY <1>7, <2>1, <2>2 DEF told
  <2> QED BY <1>8, <2>1, <2>2, <2>3
<1>13. r.state \in Open => r.rcv_wnd = IF r.RXCLOSED THEN TCP_WND ELSE TCP_WND - e.unread
  <2> SUFFICES ASSUME r.state \in Open
               PROVE  r.rcv_wnd = IF r.RXCLOSED THEN TCP_WND ELSE TCP_WND - e.unread
    OBVIOUS
  <2>1. w + L = IF p.RXCLOSED THEN TCP_WND ELSE TCP_WND - c.unread BY <1>3 DEF Mid, w
  <2>2. CASE p.RXCLOSED
    <3>1. w + L = TCP_WND /\ L = 0 BY <2>1, <2>2
    <3>2. w = TCP_WND
      <4>1. w \in Int /\ TCP_WND \in Int BY <1>2
      <4> HIDE DEF L
      <4> QED BY <3>1, <4>1
    <3> QED BY <1>3, <2>2, <3>2
  <2>3. CASE ~p.RXCLOSED
    <3>1. w + L = TCP_WND - c.unread BY <2>1, <2>3
    <3>2. w = TCP_WND - (c.unread + L)
      <4>1. w \in Int /\ L \in Int /\ c.unread \in Int /\ TCP_WND \in Int BY <1>1, <1>2
      <4> HIDE DEF L, w
      <4> QED BY ONLY <3>1, <4>1, SMTT(100)
    <3> QED BY <1>3, <1>7, <2>3, <3>2
  <2> QED BY <2>2, <2>3
<1>14. Wnd(r, FALSE) = w BY <1>3 DEF Wnd
<1>15. Mid(r, e, 0, FALSE, q, n)
  <2> DEFINE v == Wnd(r, FALSE)
             z == e.eof \/ (FALSE /\ v = 0)
  <2>5. v = w BY <1>14
  <2>6. e.eof => z OBVIOUS
  <2> HIDE DEF v, z
  <2>1. r.rcv_wnd <= Wide /\ v <= TCP_WND /\ r.state \in Synchronized
        /\ v + 0 = r.rcv_wnd /\ r.rcv_nxt = r.rcv_nxt + 0
    <3>1. w <= Wide /\ w + 0 = w /\ p.rcv_nxt + 0 = p.rcv_nxt
      <4>1. Wide \in Nat BY U16Facts
      <4> QED BY <1>1, <1>2, <4>1
    <3> QED BY <1>1, <1>3, <2>5, <3>1
  <2>2. AnnWithin(r, v, z)
    <3>1. AnnWithin(r, w, e.eof) BY <1>10
    <3> QED BY <2>5, <2>6, <3>1 DEF AnnWithin
  <2>3. r.state \in Taking => ~e.eof /\ r.rcv_nxt = 1 + Len(e.given) + 0 + 0
    BY <1>8, <1>12
  <2>4. 0 \in Nat /\ ~(0 > 0) OBVIOUS
  <2>7. r.state \in Open => v + 0 = IF r.RXCLOSED THEN TCP_WND ELSE TCP_WND - e.unread
    BY <1>13, <2>1
  <2> QED BY <1>3, <1>7, <1>9, <1>11, <2>1, <2>2, <2>3, <2>4, <2>7, Zenon DEF Mid, v, z
<1>16. StreamOK(e, q, n)
  <2>1. \A i \in 1..Len(e.given) : e.given[i] = i
    <3>1. c.given \in Seq(Nat) /\ \A i \in 1..Len(c.given) : c.given[i] = i
      BY <1>1 DEF StreamOK, Conns
    <3>2. \A j \in 1..L : d[j] = 1 + Len(c.given) + j - 1
      <4> DEFINE b == 1 + Len(c.given)
      <4>1. b \in Nat /\ b >= 1 BY <1>8
      <4>2. d = Units(b, L) OBVIOUS
      <4> HIDE DEF b, L
      <4>3. \A j \in 1..L : Units(b, L)[j] = b + j - 1 BY <1>1, <4>1, UnitsFacts
      <4>4. \A j \in 1..L : d[j] = b + j - 1 BY <4>2, <4>3
      <4> QED BY <4>4 DEF b
    <3> SUFFICES ASSUME NEW i \in 1..Len(e.given) PROVE e.given[i] = i OBVIOUS
    <3>3. CASE i <= Len(c.given)
      <4>1. e.given[i] = c.given[i] /\ i \in 1..Len(c.given) BY <1>7, <1>8, <3>1, <3>3
      <4> QED BY <3>1, <4>1
    <3>4. CASE i > Len(c.given)
      <4>1. i - Len(c.given) \in 1..L /\ e.given[i] = d[i - Len(c.given)]
        BY <1>1, <1>7, <1>8, <3>1, <3>4
      <4>2. d[i - Len(c.given)] = 1 + Len(c.given) + (i - Len(c.given)) - 1 BY <3>2, <4>1
      <4>3. i \in Int /\ Len(c.given) \in Int BY <1>8
      <4>5. \A a, b \in Int : 1 + a + (b - a) - 1 = b OBVIOUS
      <4>4. 1 + Len(c.given) + (i - Len(c.given)) - 1 = i BY ONLY <4>3, <4>5
      <4> QED BY <4>1, <4>2, <4>4
    <3> QED BY <1>8, <3>3, <3>4
  <2>2. Len(e.given) = 0 \/ Len(e.given) < q.nxt
    <3>1. CASE L = 0
      <4>1. Len(c.given) = 0 \/ Len(c.given) < q.nxt BY DEF StreamOK
      <4> QED BY <1>8, <3>1, <4>1
    <3>2. CASE L # 0
      <4>1. L > 0 BY <1>1, <3>2
      <4>2. Len(c.given) + L < q.nxt BY <4>1 DEF Mid
      <4> QED BY <1>8, <4>2
    <3> QED BY <3>1, <3>2
  <2>3. e.eof => q.fin /\ Len(e.given) = n
    <3>1. CASE told
      <4>1. fin BY <3>1 DEF told
      <4> QED BY <1>8, <4>1 DEF Mid
    <3>2. CASE ~told /\ c.eof
      <4>1. L = 0 BY <1>1, <1>5, <3>2
      <4> QED BY <1>8, <3>2, <4>1 DEF StreamOK
    <3> QED BY <1>7, <3>1, <3>2
  <2> QED BY <2>1, <2>2, <2>3 DEF StreamOK
<1>17. Counted(p, c, r, e, fin, q, n) BY <1>3, <1>7, <1>15, <1>16 DEF Counted
<1> QED BY <1>17 DEF r, e, told

LEMMA OnwardTrans ==
  ASSUME NEW a \in Pcbs, NEW b \in Pcbs, NEW c \in Pcbs, Onward(a, b), Onward(b, c)
  PROVE  Onward(a, c)
<1>1. \A p \in Pcbs : Lim(p) \in Int
  <2> SUFFICES ASSUME NEW p \in Pcbs PROVE Lim(p) \in Int OBVIOUS
  <2>1. p.rcv_nxt \in Nat /\ p.rcv_wnd \in Nat BY DEF Pcbs
  <2> QED BY <2>1, Windows DEF Lim, Right
<1> QED BY <1>1 DEF Onward

LEMMA ToldOnward ==
  ASSUME NEW p \in Pcbs, NEW r \in Pcbs, r.state = p.state,
         r.rcv_nxt = p.rcv_nxt, r.rcv_wnd = p.rcv_wnd
  PROVE  Onward(p, r)
<1>1. p.rcv_nxt \in Nat /\ p.rcv_wnd \in Nat BY DEF Pcbs
<1>2. Lim(r) = Lim(p) /\ Lim(p) \in Int /\ (Live(r) <=> Live(p))
  BY <1>1, Windows DEF Lim, Right, Live
<1> QED BY <1>2 DEF Onward

LEMMA AlsoDone ==
  ASSUME NEW out, NEW b, NEW s
  PROVE  Also(out, Done(b, s)) = Done(b, out \o s)
<1> DEFINE d == Done(b, s)
           t == out \o s
<1>1. d.out = s BY DEF Done
<1>2. Also(out, d) = [d EXCEPT !.out = t] BY <1>1 DEF Also
<1> HIDE DEF t
<1>3. [d EXCEPT !.out = t] = Done(b, t) BY DEF Done
<1> QED BY <1>2, <1>3 DEF t

LEMMA AlsoState ==
  ASSUME NEW out, NEW x, x = [p |-> x.p, c |-> x.c, out |-> x.out, freed |-> x.freed]
  PROVE  Also(out, x) = [p |-> x.p, c |-> x.c, out |-> out \o x.out, freed |-> x.freed]
<1> DEFINE t == out \o x.out
<1>2. Also(out, x) = [x EXCEPT !.out = t] BY DEF Also
<1> HIDE DEF t
<1>3. PICK a, b, o, f : x = [p |-> a, c |-> b, out |-> o, freed |-> f] OBVIOUS
<1>4. [x EXCEPT !.out = t] = [p |-> x.p, c |-> x.c, out |-> t, freed |-> x.freed] BY <1>3
<1> QED BY <1>2, <1>4 DEF t

LEMMA AlsoCalled ==
  ASSUME NEW p \in Pcbs, NEW c, NEW x, NEW L, NEW fin, NEW q, NEW n,
         Called(p, c, x, L, fin, q, n), NEW out, Speaks(p, out)
  PROVE  Called(p, c, Also(out, x), L, fin, q, n)
<1> DEFINE y == Also(out, x)
<1>1. /\ y.p = x.p /\ y.c = x.c /\ y.freed = x.freed /\ y.out = out \o x.out
      /\ y = [p |-> y.p, c |-> y.c, out |-> y.out, freed |-> y.freed]
  <2>1. y = [p |-> x.p, c |-> x.c, out |-> out \o x.out, freed |-> x.freed]
    BY AlsoState DEF Called
  <2> HIDE DEF y
  <2> QED BY <2>1
<1> HIDE DEF y
<1>2. out \in Seq(Packets) /\ x.out \in Seq(Packets) BY DEF Speaks, Called
<1>3. y.out \in Seq(Packets) BY <1>1, <1>2
<1>4. ASSUME ~x.freed PROVE Speaks(y.p, y.out)
  <2>1. x.p \in Pcbs /\ Onward(p, x.p) /\ Speaks(x.p, x.out) BY <1>4 DEF Called, Mid
  <2>2. Speaks(x.p, out) BY <2>1, SpeaksOn
  <2> QED BY <1>1, <2>1, <2>2, SpeaksMore
<1>5. Called(p, c, y, L, fin, q, n) BY <1>1, <1>3, <1>4 DEF Called
<1> QED BY <1>5 DEF y

LEMMA AfterSentFacts ==
  ASSUME NEW p \in Pcbs, NEW c \in Conns, NEW r, NEW x, NEW q, NEW n \in Nat,
         r.fin \in BOOLEAN, r.data \in Seq(Nat), r.data = Units(1 + Len(c.given), Len(r.data)),
         StreamOK(c, q, n), Called(p, c, x, Len(r.data), r.fin, q, n)
  PROVE  Good(p, AfterSent(r, x), q, n)
<1> DEFINE y == AfterSent(r, x)
<1>1. /\ SameStream(c, x.c) /\ CallOK(x.p, x.c) /\ Seen(x.c) /\ x.out \in Seq(Packets)
      /\ x.c \in Conns
  BY DEF Called, SameStream
<1>2. StreamOK(x.c, q, n) BY <1>1, StreamSame
<1>3. CASE x.freed
  <2> DEFINE d == [x.c EXCEPT !.used = "fin"]
  <2>1. r.fin /\ x.p = NoPcb BY <1>3 DEF Called
  <2>2. y = State(NoPcb, d, x.out) BY <1>3, <2>1 DEF AfterSent
  <2>3. y.p = NoPcb /\ y.c = d /\ y.out = x.out BY <2>2 DEF State
  <2>4. /\ d \in Conns /\ SameStream(x.c, d) /\ d.attached = x.c.attached /\ d.op = x.c.op
        /\ d.used = "fin" /\ d.closed = x.c.closed /\ d.err = x.c.err
    BY <1>1 DEF Conns, SameStream
  <2> HIDE DEF y, d
  <2>5. StreamOK(d, q, n) BY <1>2, <2>4, StreamSame
  <2>6. CallOK(NoPcb, d) /\ Seen(d)
    BY <1>1, <2>1, <2>4, NoPcbFacts DEF CallOK, Seen
  <2>7. Good(p, y, q, n) BY <1>1, <2>3, <2>4, <2>5, <2>6, GoneFacts
  <2> QED BY <2>7 DEF y
<1>4. CASE ~x.freed /\ r.data # <<>> /\ x.p.RXCLOSED
  <2> DEFINE d == Errored(x.c)
             a == tcp_abort(x.p)
  <2>1. y = State(a.p, d, x.out \o a.out) BY <1>4 DEF AfterSent, With, Also, tcp_abort, Done
  <2>2. y.p = a.p /\ y.c = d /\ y.out = x.out \o a.out
    <3> HIDE DEF y, a, d
    <3> QED BY <2>1 DEF State
  <2>3. x.p \in Pcbs BY <1>4 DEF Called, Mid
  <2>4. a.p = NoPcb /\ Resets(a.out) BY <2>3, AbortFacts
  <2>5. SameStream(x.c, d) /\ CallOK(NoPcb, d) /\ Seen(d) BY <1>1, ErroredFacts
  <2> HIDE DEF y, d, a
  <2>6. StreamOK(d, q, n) /\ d \in Conns BY <1>2, <2>5, StreamSame DEF SameStream
  <2>7. y.out \in Seq(Packets) BY <1>1, <2>2, <2>4 DEF Resets
  <2>8. Good(p, y, q, n) BY <2>2, <2>4, <2>5, <2>6, <2>7, GoneFacts
  <2> QED BY <2>8 DEF y
<1>5. CASE ~x.freed /\ ~(r.data # <<>> /\ x.p.RXCLOSED)
  <2> DEFINE a == FinCounted(x.p, r.fin)
             e == Received(x.c, r.data, r.fin /\ ~x.p.RXCLOSED)
             o == tcp_output(a)
  <2>1. /\ Mid(x.p, x.c, Len(r.data), r.fin, q, n) /\ Speaks(x.p, x.out) /\ Onward(p, x.p)
        /\ r.fin => x.p.state \notin Taking
    BY <1>5 DEF Called
  <2>2. r.data = Units(1 + Len(x.c.given), Len(r.data)) BY <1>1 DEF SameStream
  <2>3. x.p.RXCLOSED => Len(r.data) = 0
    <3>1. Len(<<>>) = 0 OBVIOUS
    <3> QED BY <1>5, <3>1
  <2>20. Counted(x.p, x.c, a, e, r.fin, q, n) BY <1>2, <2>1, <2>2, <2>3, CountedFacts
  <2>4. /\ Mid(a, e, 0, FALSE, q, n) /\ StreamOK(e, q, n)
        /\ SameSnd(x.p, a) /\ a.state = x.p.state /\ a.RXCLOSED = x.p.RXCLOSED
        /\ r.fin \/ a = x.p
        /\ e.attached = x.c.attached /\ e.op = x.c.op /\ e.used = x.c.used
        /\ e.closed = x.c.closed /\ e.err = x.c.err
    <3> HIDE DEF a, e
    <3> QED BY <2>20 DEF Counted
  <2>5. y = State(o.p, e, x.out \o o.out)
    <3>1. y = With(e, OutputAfter(Done(a, x.out))) BY <1>5 DEF AfterSent
    <3> HIDE DEF a, e
    <3>2. a \in Pcbs /\ SndOK(a) BY <2>4 DEF Mid
    <3>3. o = Done(o.p, o.out) BY <3>2, OutputHeld DEF Held
    <3>4. Also(x.out, o) = Done(o.p, x.out \o o.out)
      <4> HIDE DEF o
      <4> QED BY <3>3, AlsoDone
    <3> HIDE DEF y
    <3>5. y = With(e, Also(x.out, o)) BY <3>1 DEF OutputAfter, Done
    <3> HIDE DEF o
    <3> QED BY <3>4, <3>5 DEF With, Done
  <2>6. y.p = o.p /\ y.c = e /\ y.out = x.out \o o.out
    <3> HIDE DEF y, o, e
    <3> QED BY <2>5 DEF State
  <2> HIDE DEF a, e, y
  <2>7. a \in Pcbs /\ SndOK(a) /\ x.p \in Pcbs /\ e \in Conns BY <2>1, <2>4 DEF Mid
  <2>8. Held(a, o) BY <2>7, OutputHeld
  <2> HIDE DEF o
  <2>9. Mid(o.p, e, 0, FALSE, q, n) /\ Speaks(o.p, o.out) BY <2>4, <2>8, HeldFacts
  <2>10. o.p \in Pcbs /\ Told(a, o.p) BY <2>8 DEF Held
  <2>11. o.p.state = x.p.state /\ o.p.RXCLOSED = x.p.RXCLOSED BY <2>4, <2>10 DEF Told, SameRcv
  <2>12. x.p.state # "SYN_SENT" BY <2>1, StateFacts DEF Mid
  <2>13. CallOK(o.p, e)
    <3>1. CanWrite(o.p) <=> CanWrite(x.p) BY <2>11 DEF CanWrite
    <3> QED BY <1>1, <2>4, <2>11, <2>12, <3>1 DEF CallOK
  <2>14. BoardOK(o.p, e, q, n) BY <2>4, <2>9, <2>13, MidBoard
  <2>15. Onward(x.p, o.p)
    <3>1. CASE r.fin
      <4>1. o.p.state \notin Taking /\ o.p.state # "SYN_SENT" BY <2>1, <2>11, <2>12, <3>1
      <4> QED BY <4>1 DEF Onward, Live
    <3>2. CASE ~r.fin
      <4>1. a = x.p BY <2>4, <3>2
      <4>2. o.p.rcv_nxt = x.p.rcv_nxt /\ o.p.rcv_wnd = x.p.rcv_wnd
        BY <2>10, <4>1 DEF Told, SameRcv
      <4> QED BY <2>7, <2>10, <2>11, <4>2, ToldOnward
    <3> QED BY <3>1, <3>2
  <2>16. Onward(p, o.p) BY <2>1, <2>7, <2>10, <2>15, OnwardTrans
  <2>17. Speaks(o.p, x.out \o o.out)
    <3>1. Speaks(o.p, x.out) BY <2>1, <2>7, <2>10, <2>15, SpeaksOn
    <3> QED BY <2>9, <3>1, SpeaksMore
  <2>18. Seen(e) BY <1>1, <2>4 DEF Seen
  <2>19. Good(p, y, q, n) BY <2>6, <2>14, <2>16, <2>17, <2>18 DEF Good
  <2> QED BY <2>19 DEF y
<1> QED BY <1>3, <1>4, <1>5

LEMMA GoodOn ==
  ASSUME NEW p \in Pcbs, NEW b \in Pcbs, Onward(p, b), NEW x, NEW q, NEW n, Good(b, x, q, n)
  PROVE  Good(p, x, q, n)
<1>1. x.p \in Pcbs BY DEF Good, BoardOK
<1>2. Onward(p, x.p) BY <1>1, OnwardTrans DEF Good
<1> QED BY <1>2 DEF Good

LEMMA CalledSame ==
  ASSUME NEW p, NEW c, NEW L, NEW fin \in BOOLEAN, NEW q, NEW n, NEW d, SameStream(c, d),
         Mid(p, d, L, fin, q, n), CallOK(p, d), Seen(d), fin => p.state \notin Taking
  PROVE  Called(p, c, State(p, d, <<>>), L, fin, q, n)
<1> DEFINE y == State(p, d, <<>>)
<1>1. y.p = p /\ y.c = d /\ y.out = <<>> /\ y.freed = FALSE
      /\ y = [p |-> y.p, c |-> y.c, out |-> y.out, freed |-> y.freed]
  BY DEF State
<1> HIDE DEF y
<1>2. p \in Pcbs BY DEF Mid
<1>3. Onward(p, p) BY <1>2, ToldOnward
<1>4. Speaks(p, <<>>) /\ <<>> \in Seq(Packets) BY ResetNone, ResetSpeaks
<1>5. Called(p, c, y, L, fin, q, n) BY <1>1, <1>3, <1>4 DEF Called
<1> QED BY <1>5 DEF y

\* A synchronized block.
LEMMA ProcessedFacts ==
  ASSUME NEW p \in Pcbs, p.state \in Synchronized, NEW c \in Conns, NEW r, NEW q, NEW n \in Nat,
         Ran(p, r, c, q, n), StreamOK(c, q, n), CallOK(p, c), Seen(c), NEW mem \in BOOLEAN
  PROVE  Good(p, Processed(p, c, r, mem), q, n)
<1> DEFINE L == Len(r.data)
           b == r.p
           y == Processed(p, c, r, mem)
<1>1. /\ r.fin \in BOOLEAN /\ r.data = Units(1 + Len(c.given), L)
      /\ Mid(b, c, L, r.fin, q, n) /\ Speaks(b, r.out) /\ Onward(p, b)
      /\ r.fin => b.state \notin Taking
      /\ b.RXCLOSED = p.RXCLOSED /\ (CanWrite(p) => CanWrite(b))
      /\ b.state = "CLOSE_WAIT" /\ ~r.fin => r.data = <<>>
  BY DEF Ran
<1>2. b \in Pcbs /\ b.state \in Synchronized /\ L \in Nat BY <1>1 DEF Mid
<1>3. p.state # "SYN_SENT" /\ b.state # "SYN_SENT" BY <1>2, StateFacts
<1>4. CallOK(b, c) BY <1>1, <1>3 DEF CallOK
<1>5. r.data \in Seq(Nat)
  <2>1. c.given \in Seq(Nat) BY DEF Conns
  <2>2. 1 + Len(c.given) \in Nat /\ 1 + Len(c.given) >= 1 BY <2>1
  <2> QED BY <1>1, <1>2, <2>2, UnitsFacts
<1>6. CASE r.over
  <2>1. y = State(NoPcb, Errored(c), r.out) BY <1>6 DEF Processed
  <2> HIDE DEF y
  <2>2. y.p = NoPcb /\ y.c = Errored(c) /\ y.out = r.out BY <2>1 DEF State
  <2>3. SameStream(c, Errored(c)) /\ CallOK(NoPcb, Errored(c)) /\ Seen(Errored(c))
    BY ErroredFacts
  <2>4. StreamOK(Errored(c), q, n) /\ Errored(c) \in Conns BY <2>3, StreamSame DEF SameStream
  <2>5. y.out \in Seq(Packets) BY <1>1, <2>2 DEF Speaks
  <2>6. Good(p, y, q, n) BY <2>2, <2>3, <2>4, <2>5, GoneFacts
  <2> QED BY <2>6 DEF y
<1>7. CASE ~r.over
  <2> DEFINE x == Callback(p, c, r, mem)
             z == Also(r.out, x)
  <2>1. y = AfterSent(r, z) BY <1>7 DEF Processed
  <2>2. Called(b, c, x, L, r.fin, q, n)
    <3>1. CASE b.lastack > p.lastack
      <4>1. x = Continue(b, c, mem) BY <1>3, <3>1 DEF Callback
      <4>2. b.state = "CLOSE_WAIT" /\ ~r.fin => L = 0
        <5>1. Len(<<>>) = 0 OBVIOUS
        <5> QED BY <1>1, <5>1
      <4> HIDE DEF x, b, L
      <4>3. Called(b, c, x, L, r.fin, q, n) BY <1>1, <1>4, <4>1, <4>2, ContinueFacts
      <4> QED BY <4>3
    <3>2. CASE ~(b.lastack > p.lastack)
      <4>1. Established(c) = c BY <1>3 DEF Established, CallOK
      <4>2. x = State(b, c, <<>>) BY <1>3, <3>2, <4>1 DEF Callback
      <4>3. SameStream(c, c) BY SameItself
      <4> HIDE DEF x, b, L
      <4>4. Called(b, c, x, L, r.fin, q, n) BY <1>1, <1>4, <4>2, <4>3, CalledSame
      <4> QED BY <4>4
    <3> QED BY <3>1, <3>2
  <2> HIDE DEF x, y
  <2>3. Called(b, c, z, L, r.fin, q, n) BY <1>1, <1>2, <2>2, AlsoCalled
  <2> HIDE DEF z, b
  <2>4. Good(b, y, q, n) BY <1>1, <1>2, <1>5, <2>1, <2>3, AfterSentFacts
  <2>5. Good(p, y, q, n) BY <1>1, <1>2, <2>4, GoodOn
  <2> QED BY <2>5 DEF y
<1> QED BY <1>6, <1>7

-----------------------------------------------------------------------------
(* The answer to the SYN.                                                    *)

LEMMA SynBoard ==
  ASSUME NEW p, NEW c, NEW q, NEW n, BoardOK(p, c, q, n), p.state = "SYN_SENT",
         NEW r \in Pcbs, r.state = "SYN_SENT", SynOK(r)
  PROVE  BoardOK(r, c, q, n) /\ Onward(p, r)
<1>1. "SYN_SENT" \notin Taking /\ "SYN_SENT" \notin Open /\ "SYN_SENT" \notin Synchronized
  BY DEF Taking, Open, Synchronized
<1>2. SynOK(p) /\ c \in Conns /\ StreamOK(c, q, n) /\ CallOK(p, c) BY DEF BoardOK
<1>3. RcvOK(r, c, q, n) BY <1>1 DEF RcvOK
<1>4. CallOK(r, c) BY <1>2 DEF CallOK, SynOK, CanWrite
<1>5. Onward(p, r)
  <2>1. Lim(p) = Lim(r) /\ Live(p) /\ Lim(p) \in Nat BY Windows DEF Lim, Live
  <2> QED BY <2>1 DEF Onward
<1> QED BY <1>1, <1>2, <1>3, <1>4, <1>5 DEF BoardOK

LEMMA SynSpeaks ==
  ASSUME NEW p, p.state = "SYN_SENT", SynOK(p), NEW out, From(p, out)
  PROVE  Speaks(p, out)
<1>1. Lim(p) = 1 + TCP_WND /\ TCP_WND \in Nat BY Windows DEF Lim
<1>2. ASSUME NEW i \in 1..Len(out), ~out[i].rst
      PROVE  out[i].wnd <= TCP_WND /\ out[i].ackno + out[i].wnd <= Lim(p)
  <2>1. out[i].ackno = 0 /\ out[i].wnd = TCP_WND BY <1>2 DEF From, SynOK
  <2> QED BY <1>1, <2>1
<1> QED BY <1>2 DEF Speaks, Announces, From

LEMMA SynQuiet ==
  ASSUME NEW p \in Pcbs, p.state = "SYN_SENT", SynOK(p)
  PROVE  LET r == tcp_output(p)
         IN  /\ r = Done(r.p, r.out) /\ r.p \in Pcbs /\ r.p.state = "SYN_SENT" /\ SynOK(r.p)
             /\ From(p, r.out)
<1> DEFINE r == tcp_output(p)
<1>1. QueuesTo(p, 1)
  <2>1. Below(p.unsent, 1)
    <3>1. Len(<<>>) = 0 OBVIOUS
    <3> QED BY <3>1 DEF Below, SynOK
  <2>2. Below(p.unacked, 1)
    <3>1. p.unacked = <<Syn>> BY DEF SynOK, Syn
    <3>2. Len(<<Syn>>) = 1 /\ <<Syn>>[1] = Syn OBVIOUS
    <3> QED BY <3>1, <3>2, SynFacts DEF Below
  <2> QED BY <2>1, <2>2 DEF QueuesTo, SynOK
<1>2. r = Done(r.p, r.out) /\ Pushed(p, r, 1) BY <1>1, OutputFacts
<1> HIDE DEF r
<1>3. SameSnd(p, r.p) /\ Told(p, r.p) BY <1>2 DEF Pushed, SynOK
<1>4. SynOK(r.p) BY <1>3 DEF SynOK, SameSnd, Told, SameRcv
<1> QED BY <1>2, <1>3, <1>4 DEF Pushed, Told, SameRcv, r

Answered(p, m) ==
  [p EXCEPT !.state = "ESTABLISHED", !.snd_buf = @ + 1,
            !.rcv_nxt = m.seq + 1, !.rcv_ann_right_edge = m.seq + 1,
            !.lastack = m.ackno, !.snd_wnd = m.wnd, !.snd_wl1 = m.seq - 1,
            !.cwnd = IF @ = 1 THEN 2 * Mss ELSE Mss,
            !.unacked = Tail(@), !.rtime = Tail(p.unacked) # <<>>,
            !.ACK_NOW = TRUE]

LEMMA AnsweredFacts ==
  ASSUME NEW p \in Pcbs, SynOK(p), NEW m \in Packets, m.wnd <= PeerBuf, m.seq = 0, m.ackno = 1
  PROVE  LET b == Answered(p, m)
         IN  /\ b \in Pcbs /\ b.state = "ESTABLISHED" /\ SndOK(b)
             /\ b.rcv_nxt = 1 /\ b.rcv_wnd = TCP_WND /\ b.rcv_ann_wnd = TCP_WND
             /\ b.rcv_ann_right_edge = 1 /\ b.ooseq = <<>> /\ ~b.RXCLOSED
<1> DEFINE e == Tail(p.unacked)
           t == (e # <<>>)
           k == IF p.cwnd = 1 THEN 2 * Mss ELSE Mss
           u == p.snd_buf + 1
           l == m.seq - 1
           g == m.seq + 1
           a1 == [p EXCEPT !.state = "ESTABLISHED", !.snd_buf = u, !.rcv_nxt = g,
                           !.rcv_ann_right_edge = g]
           a2 == [a1 EXCEPT !.lastack = m.ackno, !.snd_wnd = m.wnd, !.snd_wl1 = l]
           a3 == [a2 EXCEPT !.cwnd = k, !.unacked = e, !.rtime = t]
           b == [a3 EXCEPT !.ACK_NOW = TRUE]
<1>1. Answered(p, m) = b BY DEF Answered
<1>2. e = <<>> /\ e \in Seq(Segs) /\ t \in BOOLEAN
  <2>1. p.unacked = <<Syn>> BY DEF SynOK, Syn
  <2>2. Tail(<<Syn>>) = <<>> OBVIOUS
  <2> QED BY <2>1, <2>2
<1>3. k \in {1, Mss, 2 * Mss} OBVIOUS
<1>4. u \in Nat /\ u = TCP_SND_BUF
  <2>1. p.snd_buf = TCP_SND_BUF - 1 BY DEF SynOK
  <2> QED BY <2>1, Windows
<1>5. l \in Int /\ g = 1 /\ g \in Nat BY DEF Packets
<1>6. m.ackno \in Nat /\ m.wnd \in 0..Max({PeerBuf, TCP_WND})
  <2>1. m.wnd \in Nat BY DEF Packets
  <2> QED BY <2>1, Windows
<1>20. "ESTABLISHED" \in States BY DEF States, Open
<1> HIDE DEF e, t, k, u, l, g, a1, a2, a3, b
<1>7. /\ a1 \in Pcbs
      /\ a1.state = "ESTABLISHED" /\ a1.snd_buf = u /\ a1.rcv_nxt = g
      /\ a1.rcv_ann_right_edge = g /\ a1.rcv_wnd = p.rcv_wnd /\ a1.rcv_ann_wnd = p.rcv_ann_wnd
      /\ a1.ooseq = p.ooseq /\ a1.RXCLOSED = p.RXCLOSED /\ a1.FIN = p.FIN
      /\ a1.unsent = p.unsent /\ a1.snd_nxt = p.snd_nxt /\ a1.snd_lbb = p.snd_lbb
      /\ a1.unacked = p.unacked /\ a1.lastack = p.lastack
  <2>0. u \in Nat /\ g \in Nat BY <1>4, <1>5
  <2>1. a1 \in Pcbs BY ONLY p \in Pcbs, <2>0, <1>20 DEF Pcbs, a1
  <2>2. /\ a1.state = "ESTABLISHED" /\ a1.snd_buf = u /\ a1.rcv_nxt = g
        /\ a1.rcv_ann_right_edge = g /\ a1.rcv_wnd = p.rcv_wnd /\ a1.rcv_ann_wnd = p.rcv_ann_wnd
    BY <1>4, <1>5, <1>20 DEF Pcbs, a1
  <2>3. /\ a1.ooseq = p.ooseq /\ a1.RXCLOSED = p.RXCLOSED /\ a1.FIN = p.FIN
        /\ a1.unsent = p.unsent /\ a1.snd_nxt = p.snd_nxt /\ a1.snd_lbb = p.snd_lbb
    BY <1>4, <1>5, <1>20 DEF Pcbs, a1
  <2>4. /\ a1.unacked = p.unacked /\ a1.lastack = p.lastack
    BY <1>4, <1>5, <1>20 DEF Pcbs, a1
  <2> QED BY <2>1, <2>2, <2>3, <2>4
<1>8. /\ a2 \in Pcbs
      /\ a2.lastack = m.ackno /\ a2.state = a1.state /\ a2.snd_buf = a1.snd_buf
      /\ a2.rcv_nxt = a1.rcv_nxt /\ a2.rcv_ann_right_edge = a1.rcv_ann_right_edge
      /\ a2.rcv_wnd = a1.rcv_wnd
      /\ a2.rcv_ann_wnd = a1.rcv_ann_wnd /\ a2.ooseq = a1.ooseq /\ a2.RXCLOSED = a1.RXCLOSED
      /\ a2.FIN = a1.FIN /\ a2.unsent = a1.unsent /\ a2.snd_nxt = a1.snd_nxt
      /\ a2.snd_lbb = a1.snd_lbb /\ a2.unacked = a1.unacked
  <2>0. a1 \in Pcbs /\ l \in Int BY <1>5, <1>7
  <2>1. a2 \in Pcbs BY ONLY <2>0, <1>6 DEF Pcbs, a2
  <2>2. /\ a2.lastack = m.ackno /\ a2.state = a1.state /\ a2.snd_buf = a1.snd_buf
        /\ a2.rcv_nxt = a1.rcv_nxt /\ a2.rcv_ann_right_edge = a1.rcv_ann_right_edge
        /\ a2.rcv_wnd = a1.rcv_wnd
    BY <1>5, <1>6, <1>7 DEF Pcbs, a2
  <2>3. /\ a2.rcv_ann_wnd = a1.rcv_ann_wnd /\ a2.ooseq = a1.ooseq /\ a2.RXCLOSED = a1.RXCLOSED
        /\ a2.FIN = a1.FIN /\ a2.unsent = a1.unsent /\ a2.snd_nxt = a1.snd_nxt
    BY <1>5, <1>6, <1>7 DEF Pcbs, a2
  <2>4. /\ a2.snd_lbb = a1.snd_lbb /\ a2.unacked = a1.unacked
    BY <1>5, <1>6, <1>7 DEF Pcbs, a2
  <2> QED BY <2>1, <2>2, <2>3, <2>4
<1>9. /\ a3 \in Pcbs
      /\ a3.unacked = e /\ a3.state = a2.state /\ a3.snd_buf = a2.snd_buf
      /\ a3.rcv_nxt = a2.rcv_nxt /\ a3.rcv_ann_right_edge = a2.rcv_ann_right_edge
      /\ a3.rcv_wnd = a2.rcv_wnd
      /\ a3.rcv_ann_wnd = a2.rcv_ann_wnd /\ a3.ooseq = a2.ooseq /\ a3.RXCLOSED = a2.RXCLOSED
      /\ a3.FIN = a2.FIN /\ a3.unsent = a2.unsent /\ a3.snd_nxt = a2.snd_nxt
      /\ a3.snd_lbb = a2.snd_lbb /\ a3.lastack = a2.lastack
  <2>0. a2 \in Pcbs /\ e \in Seq(Segs) /\ t \in BOOLEAN BY <1>2, <1>8
  <2>1. a3 \in Pcbs BY ONLY <2>0, <1>3 DEF Pcbs, a3
  <2>2. /\ a3.unacked = e /\ a3.state = a2.state /\ a3.snd_buf = a2.snd_buf
        /\ a3.rcv_nxt = a2.rcv_nxt /\ a3.rcv_ann_right_edge = a2.rcv_ann_right_edge
        /\ a3.rcv_wnd = a2.rcv_wnd
    BY <1>2, <1>3, <1>8 DEF Pcbs, a3
  <2>3. /\ a3.rcv_ann_wnd = a2.rcv_ann_wnd /\ a3.ooseq = a2.ooseq /\ a3.RXCLOSED = a2.RXCLOSED
        /\ a3.FIN = a2.FIN /\ a3.unsent = a2.unsent /\ a3.snd_nxt = a2.snd_nxt
    BY <1>2, <1>3, <1>8 DEF Pcbs, a3
  <2>4. /\ a3.snd_lbb = a2.snd_lbb /\ a3.lastack = a2.lastack
    BY <1>2, <1>3, <1>8 DEF Pcbs, a3
  <2> QED BY <2>1, <2>2, <2>3, <2>4
<1>10. /\ b \in Pcbs
       /\ b.state = a3.state /\ b.snd_buf = a3.snd_buf /\ b.rcv_nxt = a3.rcv_nxt
       /\ b.rcv_ann_right_edge = a3.rcv_ann_right_edge /\ b.rcv_wnd = a3.rcv_wnd
       /\ b.rcv_ann_wnd = a3.rcv_ann_wnd
       /\ b.ooseq = a3.ooseq /\ b.RXCLOSED = a3.RXCLOSED /\ b.FIN = a3.FIN
       /\ b.unsent = a3.unsent /\ b.snd_nxt = a3.snd_nxt /\ b.snd_lbb = a3.snd_lbb
       /\ b.unacked = a3.unacked /\ b.lastack = a3.lastack
  <2>0. a3 \in Pcbs BY <1>9
  <2>1. b \in Pcbs BY ONLY <2>0 DEF Pcbs, b
  <2>2. /\ b.state = a3.state /\ b.snd_buf = a3.snd_buf /\ b.rcv_nxt = a3.rcv_nxt
        /\ b.rcv_ann_right_edge = a3.rcv_ann_right_edge /\ b.rcv_wnd = a3.rcv_wnd
        /\ b.rcv_ann_wnd = a3.rcv_ann_wnd
    BY <1>9 DEF Pcbs, b
  <2>3. /\ b.ooseq = a3.ooseq /\ b.RXCLOSED = a3.RXCLOSED /\ b.FIN = a3.FIN
        /\ b.unsent = a3.unsent /\ b.snd_nxt = a3.snd_nxt /\ b.snd_lbb = a3.snd_lbb
    BY <1>9 DEF Pcbs, b
  <2>4. /\ b.unacked = a3.unacked /\ b.lastack = a3.lastack
    BY <1>9 DEF Pcbs, b
  <2> QED BY <2>1, <2>2, <2>3, <2>4
<1>11. /\ p.unsent = <<>> /\ p.ooseq = <<>> /\ p.snd_lbb = 1 /\ p.snd_nxt = 1
       /\ p.rcv_wnd = TCP_WND /\ p.rcv_ann_wnd = TCP_WND /\ ~p.RXCLOSED /\ ~p.FIN
  BY DEF SynOK
<1>12. /\ b \in Pcbs /\ b.state = "ESTABLISHED" /\ b.lastack = 1 /\ b.snd_nxt = 1 /\ b.snd_lbb = 1
       /\ b.snd_buf = TCP_SND_BUF /\ b.unsent = <<>> /\ b.unacked = <<>> /\ ~b.FIN
       /\ b.rcv_nxt = 1 /\ b.rcv_wnd = TCP_WND /\ b.rcv_ann_wnd = TCP_WND
       /\ b.rcv_ann_right_edge = 1 /\ b.ooseq = <<>> /\ ~b.RXCLOSED
  BY <1>2, <1>4, <1>5, <1>7, <1>8, <1>9, <1>10, <1>11
<1>13. SndOK(b)
  <2>1. Top(b) = 1 BY <1>12 DEF Top
  <2>2. Below(b.unsent, Top(b)) /\ Below(b.unacked, Top(b))
    <3>1. Len(<<>>) = 0 OBVIOUS
    <3> QED BY <1>12, <3>1 DEF Below
  <2>3. TCP_SND_BUF = TCP_SND_BUF - (1 - 1) BY Windows
  <2> QED BY <1>12, <2>1, <2>2, <2>3 DEF SndOK
<1> QED BY <1>1, <1>12, <1>13

LEMMA SynAnswer ==
  ASSUME NEW p, NEW c, NEW q, NEW n \in Nat, BoardOK(p, c, q, n), p.state = "SYN_SENT", Seen(c),
         NEW m \in Packets, Sound(m, q, n), m.syn, m.ackno = p.unacked[1].seq + 1,
         NEW r, r = Kept(Answered(p, m), <<>>)
  PROVE  LET d == Established(c)
             x == Also(r.out, State(r.p, d, <<>>))
         IN  Good(p, AfterSent(r, x), q, n)
<1> DEFINE b == Answered(p, m)
           d == Established(c)
           x == Also(r.out, State(r.p, d, <<>>))
<1>1. p \in Pcbs /\ SynOK(p) /\ c \in Conns /\ StreamOK(c, q, n) /\ CallOK(p, c)
  BY DEF BoardOK
<1>2. m.seq = 0 /\ m.wnd <= PeerBuf BY DEF Sound
<1>3. m.ackno = 1
  <2>1. p.unacked = <<Syn>> BY <1>1 DEF SynOK, Syn
  <2>2. <<Syn>>[1] = Syn OBVIOUS
  <2> QED BY <2>1, <2>2, SynFacts
<1>4. /\ b \in Pcbs /\ b.state = "ESTABLISHED" /\ SndOK(b)
      /\ b.rcv_nxt = 1 /\ b.rcv_wnd = TCP_WND /\ b.rcv_ann_wnd = TCP_WND
      /\ b.rcv_ann_right_edge = 1 /\ b.ooseq = <<>> /\ ~b.RXCLOSED
  BY <1>1, <1>2, <1>3, AnsweredFacts
<1> HIDE DEF b
<1>5. r.p = b /\ r.out = <<>> /\ r.data = <<>> /\ r.fin = FALSE BY DEF Kept, Brought, Done, b
<1>6. /\ c.op = "connect" /\ c.attached /\ c.unread = 0 /\ c.given = <<>> /\ ~c.eof
      /\ c.used # "more"
  BY <1>1 DEF CallOK
<1>7. /\ d \in Conns /\ SameStream(c, d) /\ d.op = "none" /\ d.attached /\ d.used = c.used
  BY <1>1, <1>6 DEF Established, Conns, SameStream
<1> HIDE DEF d
<1>8. d.unread = 0 /\ d.given = <<>> /\ ~d.eof BY <1>6, <1>7 DEF SameStream
<1>9. TCP_WND \in Nat /\ TCP_WND < Wide /\ Wide \in Nat BY Windows, U16Facts
<1>10. /\ "ESTABLISHED" \in Synchronized /\ "ESTABLISHED" \in Open /\ "ESTABLISHED" \in Taking
       /\ "ESTABLISHED" # "SYN_SENT"
  BY DEF Synchronized, Open, Taking
<1>11. Mid(b, d, 0, FALSE, q, n)
  <2> DEFINE v == Wnd(b, FALSE)
             z == d.eof \/ (FALSE /\ v = 0)
  <2>1. v = TCP_WND BY <1>4 DEF Wnd
  <2> HIDE DEF v, z
  <2>2. b.rcv_wnd <= Wide /\ v <= TCP_WND /\ v + 0 = TCP_WND /\ b.rcv_ann_wnd <= v
        /\ b.rcv_ann_right_edge <= b.rcv_nxt + v
    BY <1>4, <1>9, <2>1
  <2>3. AnnWithin(b, v, z) BY <2>2 DEF AnnWithin
  <2>4. Waiting(b, q, n)
    <3>1. Fine(<<>>, q, n, b.rcv_nxt + 1, Right(b)) BY FineNone
    <3> QED BY <1>4, <3>1 DEF Waiting
  <2>5. ~d.eof /\ b.rcv_nxt = 1 + Len(d.given) + 0 + 0
    <3>1. Len(<<>>) = 0 OBVIOUS
    <3> QED BY <1>4, <1>8, <3>1
  <2>6. v + 0 = IF b.RXCLOSED THEN TCP_WND ELSE TCP_WND - d.unread
    BY <1>4, <1>8, <1>9, <2>2
  <2>7. 0 \in Nat /\ ~(0 > 0) OBVIOUS
  <2>8. b.state \in Synchronized BY <1>4, <1>10
  <2> QED BY <1>4, <1>7, <2>2, <2>3, <2>4, <2>5, <2>6, <2>7, <2>8, Zenon DEF Mid, v, z
<1>12. CallOK(b, d) /\ Seen(d)
  <2>1. CanWrite(b) BY <1>4 DEF CanWrite
  <2> QED BY <1>4, <1>6, <1>7, <1>10, <2>1 DEF CallOK, Seen
<1>13. StreamOK(d, q, n) BY <1>1, <1>7, StreamSame
<1>14. Called(b, d, x, 0, FALSE, q, n)
  <2> DEFINE y == State(b, d, <<>>)
  <2>1. SameStream(d, d) BY <1>7, SameItself
  <2>2. Called(b, d, y, 0, FALSE, q, n) BY <1>11, <1>12, <2>1, CalledSame
  <2>3. x = Also(<<>>, y) BY <1>5
  <2> HIDE DEF y, x
  <2>4. Called(b, d, Also(<<>>, y), 0, FALSE, q, n) BY <1>4, <2>2, SpeaksNone, AlsoCalled
  <2> QED BY <2>3, <2>4
<1> HIDE DEF x
<1>15. Good(b, AfterSent(r, x), q, n)
  <2>1. r.data \in Seq(Nat) /\ Len(r.data) = 0
    <3>1. <<>> \in Seq(Nat) /\ Len(<<>>) = 0 OBVIOUS
    <3> QED BY <1>5, <3>1
  <2>2. 1 + Len(d.given) \in Nat /\ 1 + Len(d.given) >= 1
    <3>1. Len(<<>>) = 0 OBVIOUS
    <3> QED BY <1>8, <3>1
  <2>3. r.data = Units(1 + Len(d.given), Len(r.data)) BY <2>1, <2>2, UnitsAre
  <2>4. Called(b, d, x, Len(r.data), r.fin, q, n) BY <1>5, <1>14, <2>1
  <2>5. r.fin \in BOOLEAN BY <1>5
  <2> QED BY <1>4, <1>7, <1>13, <2>1, <2>3, <2>4, <2>5, AfterSentFacts
<1>16. Onward(p, b)
  <2>1. Lim(p) = 1 + TCP_WND BY DEF Lim
  <2>2. Lim(b) = 1 + TCP_WND BY <1>4 DEF Lim, Right
  <2> QED BY <1>9, <2>1, <2>2 DEF Onward, Live
<1>17. Good(p, AfterSent(r, x), q, n) BY <1>1, <1>4, <1>15, <1>16, GoodOn
<1> QED BY <1>17 DEF x, d

LEMMA PacketFacts ==
  ASSUME NEW m \in Packets
  PROVE  Resets(<<tcp_rst(m.ackno, m.seq + TCPLEN(m))>>)
<1> DEFINE l == Len(m.data)
           k == IF m.syn \/ m.fin THEN 1 ELSE 0
<1>1. m.ackno \in Nat /\ m.seq \in Nat /\ m.data \in Seq(Nat) BY DEF Packets
<1>2. l \in Nat /\ k \in Nat BY <1>1
<1>3. TCPLEN(m) = l + k BY DEF TCPLEN
<1> HIDE DEF l, k
<1>4. m.seq + TCPLEN(m) \in Nat BY <1>1, <1>2, <1>3
<1> QED BY <1>1, <1>4, ResetFacts

\* No answer: the block waits on, what came is refused.
LEMMA SynWaits ==
  ASSUME NEW p, NEW c, NEW q, NEW n \in Nat, BoardOK(p, c, q, n), p.state = "SYN_SENT", Seen(c),
         NEW r, r.p = p, Resets(r.out), r.data = <<>>, r.fin = FALSE
  PROVE  Good(p, AfterSent(r, Also(r.out, State(p, c, <<>>))), q, n)
<1> DEFINE x == Also(r.out, State(p, c, <<>>))
           y == AfterSent(r, x)
           o == tcp_output(p)
<1>1. p \in Pcbs /\ SynOK(p) /\ c \in Conns /\ StreamOK(c, q, n) /\ CallOK(p, c)
  BY DEF BoardOK
<1>2. x = [p |-> p, c |-> c, out |-> r.out, freed |-> FALSE]
  <2> DEFINE z == State(p, c, <<>>)
  <2>1. /\ z = [p |-> z.p, c |-> z.c, out |-> z.out, freed |-> z.freed]
        /\ z.p = p /\ z.c = c /\ z.out = <<>> /\ z.freed = FALSE
    BY DEF State
  <2> HIDE DEF z
  <2>2. Also(r.out, z) = [p |-> z.p, c |-> z.c, out |-> r.out \o z.out, freed |-> z.freed]
    BY <2>1, AlsoState
  <2>3. r.out \o <<>> = r.out
    <3>1. r.out \in Seq(Packets) BY DEF Resets
    <3> QED BY <3>1
  <2> QED BY <2>1, <2>2, <2>3 DEF z
<1> HIDE DEF x
<1>3. x.p = p /\ x.c = c /\ x.out = r.out /\ x.freed = FALSE BY <1>2
<1>4. /\ o = Done(o.p, o.out) /\ o.p \in Pcbs /\ o.p.state = "SYN_SENT" /\ SynOK(o.p)
      /\ From(p, o.out)
  BY <1>1, SynQuiet
<1>5. FinCounted(p, FALSE) = p BY DEF FinCounted
<1>6. Received(c, <<>>, FALSE) = c
  <2> DEFINE g == c.given \o <<>>
             u == c.unread + Len(<<>>)
             f == c.eof \/ FALSE
  <2>1. g = c.given /\ u = c.unread /\ f = c.eof
    <3>1. c.given \in Seq(Nat) /\ c.unread \in Nat /\ c.eof \in BOOLEAN BY <1>1 DEF Conns
    <3>2. Len(<<>>) = 0 OBVIOUS
    <3> QED BY <3>1, <3>2
  <2>2. Received(c, <<>>, FALSE) = [c EXCEPT !.given = g, !.unread = u, !.eof = f] BY DEF Received
  <2> HIDE DEF g, u, f
  <2> QED BY <1>1, <2>1, <2>2 DEF Conns
<1>7. y = State(o.p, c, r.out \o o.out)
  <2>1. y = With(Received(c, <<>>, FALSE), OutputAfter(Done(FinCounted(p, FALSE), r.out)))
    BY <1>3 DEF AfterSent
  <2>2. y = With(c, OutputAfter(Done(p, r.out))) BY <1>5, <1>6, <2>1
  <2> HIDE DEF y
  <2>3. y = With(c, Also(r.out, o)) BY <2>2 DEF OutputAfter, Done
  <2> HIDE DEF o
  <2>4. Also(r.out, o) = Done(o.p, r.out \o o.out) BY <1>4, AlsoDone
  <2> QED BY <2>3, <2>4 DEF With, Done
<1> HIDE DEF y, o
<1>8. y.p = o.p /\ y.c = c /\ y.out = r.out \o o.out BY <1>7 DEF State
<1>9. BoardOK(o.p, c, q, n) /\ Onward(p, o.p) BY <1>4, SynBoard
<1>10. Speaks(o.p, r.out \o o.out)
  <2>1. Speaks(p, o.out) BY <1>1, <1>4, SynSpeaks
  <2>2. Speaks(o.p, o.out) BY <1>1, <1>4, <1>9, <2>1, SpeaksOn
  <2>3. Speaks(o.p, r.out) BY ResetSpeaks
  <2> QED BY <2>2, <2>3, SpeaksMore
<1>11. Good(p, y, q, n) BY <1>8, <1>9, <1>10 DEF Good
<1> QED BY <1>11 DEF x, y

LEMMA SynProcessed ==
  ASSUME NEW p, NEW c, NEW q, NEW n \in Nat, BoardOK(p, c, q, n), p.state = "SYN_SENT", Seen(c),
         NEW m \in Packets, Sound(m, q, n), NEW mem \in BOOLEAN
  PROVE  Good(p, Processed(p, c, tcp_process(p, m, mem), mem), q, n)
<1> DEFINE r == tcp_process(p, m, mem)
           y == Processed(p, c, r, mem)
<1>1. p \in Pcbs /\ SynOK(p) /\ c \in Conns /\ StreamOK(c, q, n) /\ CallOK(p, c)
  BY DEF BoardOK
<1>2. CASE m.rst
  <2>1. r = [Kept(p, <<>>) EXCEPT !.over = Acceptable(p, m)] BY <1>2 DEF tcp_process
  <2>2. Kept(p, <<>>) = [p |-> p, out |-> <<>>, data |-> <<>>, fin |-> FALSE, over |-> FALSE]
    BY DEF Kept, Brought, Done
  <2> HIDE DEF r
  <2>3. r.p = p /\ r.out = <<>> /\ r.data = <<>> /\ r.fin = FALSE BY <2>1, <2>2
  <2>4. CASE r.over
    <3>1. y = State(NoPcb, Errored(c), r.out) BY <2>4 DEF Processed
    <3> HIDE DEF y
    <3>2. y.p = NoPcb /\ y.c = Errored(c) /\ y.out = r.out BY <3>1 DEF State
    <3>3. SameStream(c, Errored(c)) /\ CallOK(NoPcb, Errored(c)) /\ Seen(Errored(c))
      BY <1>1, ErroredFacts
    <3>4. StreamOK(Errored(c), q, n) /\ Errored(c) \in Conns
      BY <1>1, <3>3, StreamSame DEF SameStream
    <3>5. y.out \in Seq(Packets)
      <4>1. <<>> \in Seq(Packets) OBVIOUS
      <4> QED BY <2>3, <3>2, <4>1
    <3>6. Good(p, y, q, n) BY <3>2, <3>3, <3>4, <3>5, GoneFacts
    <3> QED BY <3>6 DEF y, r
  <2>5. CASE ~r.over
    <3>1. Callback(p, c, r, mem) = State(p, c, <<>>) BY <2>3 DEF Callback
    <3>2. y = AfterSent(r, Also(r.out, State(p, c, <<>>))) BY <2>5, <3>1 DEF Processed
    <3> HIDE DEF y
    <3>3. Resets(r.out) BY <2>3, ResetNone
    <3>4. Good(p, y, q, n) BY <2>3, <3>2, <3>3, SynWaits
    <3> QED BY <3>4 DEF y, r
  <2> QED BY <2>4, <2>5
<1>3. CASE ~m.rst /\ m.syn /\ m.ackno = p.unacked[1].seq + 1
  <2>1. r = Kept(Answered(p, m), <<>>) BY <1>3 DEF tcp_process, SynSent, Answered
  <2> HIDE DEF r
  <2>2. r.p = Answered(p, m) /\ r.over = FALSE
    <3> DEFINE b == Answered(p, m)
    <3>1. r = Kept(b, <<>>) BY <2>1
    <3> HIDE DEF b
    <3>2. r.p = b /\ r.over = FALSE BY <3>1 DEF Kept, Brought, Done
    <3> QED BY <3>2 DEF b
  <2>3. r.p.state # "SYN_SENT"
    <3>1. p.unacked = <<Syn>> BY <1>1 DEF SynOK, Syn
    <3>2. <<Syn>>[1] = Syn OBVIOUS
    <3>3. m.ackno = 1 BY <1>3, <3>1, <3>2, SynFacts
    <3>4. m.seq = 0 /\ m.wnd <= PeerBuf BY <1>3 DEF Sound
    <3>5. Answered(p, m).state = "ESTABLISHED" BY <1>1, <3>3, <3>4, AnsweredFacts
    <3> QED BY <2>2, <3>5
  <2>4. Callback(p, c, r, mem) = State(r.p, Established(c), <<>>) BY <2>3 DEF Callback
  <2>5. y = AfterSent(r, Also(r.out, State(r.p, Established(c), <<>>))) BY <2>2, <2>4 DEF Processed
  <2> HIDE DEF y
  <2>6. Good(p, y, q, n) BY <1>3, <2>1, <2>5, SynAnswer
  <2> QED BY <2>6 DEF y, r
<1>4. CASE ~m.rst /\ ~(m.syn /\ m.ackno = p.unacked[1].seq + 1)
  <2> DEFINE out == <<tcp_rst(m.ackno, m.seq + TCPLEN(m))>>
  <2>1. r = Kept(p, out) BY <1>4 DEF tcp_process, SynSent
  <2>2. Resets(out) BY PacketFacts
  <2> HIDE DEF r, out
  <2>3. r.p = p /\ r.out = out /\ r.data = <<>> /\ r.fin = FALSE /\ r.over = FALSE
    BY <2>1 DEF Kept, Brought, Done
  <2>4. Callback(p, c, r, mem) = State(p, c, <<>>) BY <2>3 DEF Callback
  <2>5. y = AfterSent(r, Also(r.out, State(p, c, <<>>))) BY <2>3, <2>4 DEF Processed
  <2> HIDE DEF y
  <2>6. Good(p, y, q, n) BY <2>2, <2>3, <2>5, SynWaits
  <2> QED BY <2>6 DEF y, r
<1> QED BY <1>2, <1>3, <1>4

-----------------------------------------------------------------------------
(* tcp_input.                                                                *)

LEMMA InputFacts ==
  ASSUME NEW p, NEW c, NEW q, q.nxt \in Nat, q.edge \in Nat, NEW n \in Nat,
         BoardOK(p, c, q, n), Seen(c), p.state \in Taking => q.edge <= Right(p),
         NEW m \in Packets, Sound(m, q, n), NEW mem \in BOOLEAN
  PROVE  Good(p, tcp_input(p, c, m, mem), q, n)
<1> DEFINE y == tcp_input(p, c, m, mem)
           rst == <<tcp_rst(m.ackno, m.seq + TCPLEN(m))>>
<1>1. p \in Pcbs /\ c \in Conns /\ StreamOK(c, q, n) /\ CallOK(p, c) BY DEF BoardOK
<1>2. Resets(rst) /\ Resets(<<>>) BY PacketFacts, ResetNone
<1>3. CASE p.state = "CLOSED"
  <2> DEFINE out == IF m.rst THEN <<>> ELSE rst
  <2>1. y = State(p, c, out) BY <1>3 DEF tcp_input
  <2>2. Resets(out) BY <1>2
  <2> HIDE DEF y, out, rst
  <2>3. y.p = p /\ y.c = c /\ y.out = out BY <2>1 DEF State
  <2>4. Onward(p, p) BY <1>1, ToldOnward
  <2>5. Good(p, y, q, n) BY <2>2, <2>3, <2>4, ResetSpeaks DEF Good
  <2> QED BY <2>5 DEF y
<1>4. CASE p.state = "TIME_WAIT"
  <2> DEFINE r == tcp_timewait_input(p, m)
  <2>1. y = With(c, r) BY <1>4 DEF tcp_input
  <2>2. Mid(p, c, 0, FALSE, q, n)
    <3>1. p.state \in Synchronized BY <1>4 DEF Synchronized
    <3> QED BY <3>1, BoardMid
  <2>3. SndOK(p) BY <2>2 DEF Mid
  <2>4. r.p \in Pcbs /\ r.p.state = p.state /\ r.p.RXCLOSED = p.RXCLOSED
        /\ Mid(r.p, c, 0, FALSE, q, n) /\ Speaks(r.p, r.out)
    <3>1. CASE r \in {Done(p, <<>>), Done(p, rst)}
      <4>1. r.p = p /\ r.out \in {<<>>, rst}
        <5> HIDE DEF r, rst
        <5> QED BY <3>1 DEF Done
      <4> HIDE DEF r, rst
      <4>2. Resets(r.out) BY <1>2, <4>1
      <4> QED BY <1>1, <2>2, <4>1, <4>2, ResetSpeaks
    <3>2. CASE r = tcp_output(tcp_ack_now(p))
      <4>1. KeepsRcv(p, tcp_ack_now(p)) BY <1>1, AckFacts DEF KeepsRcv
      <4>2. SndOK(tcp_ack_now(p))
        BY <1>1, <2>3, <4>1, AckFacts, SameSndOK DEF KeepsRcv, SameRcv
      <4>3. Held(p, r) BY <1>1, <3>2, <4>1, <4>2, OutputHeldOf
      <4> HIDE DEF r
      <4>4. Mid(r.p, c, 0, FALSE, q, n) /\ Speaks(r.p, r.out) BY <2>2, <4>3, HeldFacts
      <4> QED BY <4>3, <4>4 DEF Held, Told, SameRcv
    <3> QED BY <3>1, <3>2 DEF tcp_timewait_input
  <2> HIDE DEF y, r
  <2>5. y.p = r.p /\ y.c = c /\ y.out = r.out BY <2>1 DEF With, State
  <2>6. CallOK(r.p, c) BY <1>1, <1>4, <2>4 DEF CallOK, CanWrite
  <2>7. BoardOK(r.p, c, q, n) BY <1>1, <2>4, <2>6, MidBoard
  <2>8. Onward(p, r.p)
    <3>1. "TIME_WAIT" \notin Taking BY DEF Taking
    <3> QED BY <1>4, <2>4, <3>1 DEF Onward, Live
  <2>9. Good(p, y, q, n) BY <2>4, <2>5, <2>7, <2>8 DEF Good
  <2> QED BY <2>9 DEF y
<1>5. CASE p.state \notin {"CLOSED", "TIME_WAIT"}
  <2>1. y = Processed(p, c, tcp_process(p, m, mem), mem) BY <1>5 DEF tcp_input
  <2> HIDE DEF y
  <2>2. CASE p.state = "SYN_SENT"
    <3>1. Good(p, y, q, n) BY <2>1, <2>2, SynProcessed
    <3> QED BY <3>1 DEF y
  <2>3. CASE p.state # "SYN_SENT"
    <3>1. p.state \in Synchronized
      <4>1. p.state \in States BY <1>1 DEF Pcbs
      <4> QED BY <1>5, <2>3, <4>1, StateFacts
    <3>2. Mid(p, c, 0, FALSE, q, n) BY <3>1, BoardMid
    <3> DEFINE r == tcp_process(p, m, mem)
    <3>3. Ran(p, r, c, q, n) BY <3>2, ProcessFacts
    <3>4. y = Processed(p, c, r, mem) BY <2>1
    <3> HIDE DEF r
    <3>5. Good(p, y, q, n) BY <1>1, <3>1, <3>3, <3>4, ProcessedFacts
    <3> QED BY <3>5 DEF y
  <2> QED BY <2>2, <2>3
<1> QED BY <1>3, <1>4, <1>5

-----------------------------------------------------------------------------
(* tcp_recved: the window opens again.                                       *)

\* The window of r is k wider than that of p.
Widened(p, r, k, d, q, n) ==
  /\ Mid(r, d, 0, FALSE, q, n) /\ r.state = p.state /\ r.RXCLOSED = p.RXCLOSED
  /\ r.rcv_wnd = p.rcv_wnd + k /\ r.rcv_nxt = p.rcv_nxt

LEMMA WidenFacts ==
  ASSUME NEW p, NEW c, NEW q, NEW n \in Nat, Mid(p, c, 0, FALSE, q, n),
         p.state \in Open, ~p.RXCLOSED, NEW k \in Nat, k <= c.unread,
         NEW d, d \in Conns, d.given = c.given, d.eof = c.eof, d.unread = c.unread - k
  PROVE  Widened(p, [p EXCEPT !.rcv_wnd = Min({@ + k, TCP_WND})], k, d, q, n)
<1> DEFINE w == p.rcv_wnd
           u == Min({w + k, TCP_WND})
           r == [p EXCEPT !.rcv_wnd = u]
<1>1. /\ p \in Pcbs /\ c \in Conns /\ p.state \in Synchronized /\ SndOK(p)
      /\ w \in Nat /\ p.rcv_nxt \in Nat /\ c.unread \in Nat
  BY DEF Mid, Pcbs, Conns
<1>2. TCP_WND \in Nat /\ TCP_WND < Wide /\ Wide \in Nat BY Windows, U16Facts
<1>3. w = TCP_WND - c.unread
  <2> DEFINE v == Wnd(p, FALSE)
  <2>1. v = w BY DEF Wnd
  <2>2. v + 0 = TCP_WND - c.unread
    <3> HIDE DEF v
    <3> USE DEF v
    <3> QED BY DEF Mid
  <2> HIDE DEF v
  <2> QED BY <1>1, <2>1, <2>2
<1>4. w + k <= TCP_WND /\ u = w + k
  <2>1. w + k <= TCP_WND BY <1>1, <1>2, <1>3
  <2> QED BY <1>1, <1>2, <2>1, MinOfTwo
<1>5. u \in Nat /\ w <= u /\ u <= TCP_WND BY <1>1, <1>4
<1> HIDE DEF u
<1>6. /\ r \in Pcbs /\ SameSnd(p, r) /\ SameAnn(p, r) /\ r.state = p.state
      /\ r.RXCLOSED = p.RXCLOSED /\ r.rcv_nxt = p.rcv_nxt /\ r.ooseq = p.ooseq /\ r.rcv_wnd = u
  BY <1>1, <1>5 DEF Pcbs, SameSnd, SameAnn
<1>20. [p EXCEPT !.rcv_wnd = Min({@ + k, TCP_WND})] = r BY DEF u
<1> HIDE DEF r, w
<1>7. SndOK(r) BY <1>1, <1>6, SameSndOK
<1>8. Mid(r, d, 0, FALSE, q, n)
  <2> DEFINE v == Wnd(r, FALSE)
             z == d.eof \/ (FALSE /\ v = 0)
             v0 == Wnd(p, FALSE)
             z0 == c.eof \/ (FALSE /\ v0 = 0)
  <2>1. v = u /\ v0 = w BY <1>6 DEF Wnd, w
  <2>2. AnnWithin(p, v0, z0) BY Zenon DEF Mid
  <2>3. z0 => z OBVIOUS
  <2>4. p.rcv_ann_right_edge \in Nat /\ p.rcv_ann_wnd \in Nat BY <1>1 DEF Pcbs
  <2>10. p.state \in Taking => ~c.eof /\ p.rcv_nxt = 1 + Len(c.given) + 0 + 0 BY DEF Mid
  <2>11. p.state \in Taking => Waiting(p, q, n) BY DEF Mid
  <2> HIDE DEF v, z, v0, z0
  <2>5. AnnWithin(r, v, z)
    <3>1. AnnWithin(p, w, z) BY <2>1, <2>2, <2>3 DEF AnnWithin
    <3>2. p.rcv_ann_right_edge <= p.rcv_nxt + w => p.rcv_ann_right_edge <= p.rcv_nxt + u
      BY <1>1, <1>5, <2>4 DEF w
    <3>3. p.rcv_ann_wnd <= w => p.rcv_ann_wnd <= u BY <1>1, <1>5, <2>4 DEF w
    <3> QED BY <1>6, <2>1, <3>1, <3>2, <3>3 DEF AnnWithin, SameAnn
  <2>6. r.state \in Taking => Waiting(r, q, n)
    <3> SUFFICES ASSUME p.state \in Taking PROVE Waiting(r, q, n) BY <1>6
    <3>1. Fine(p.ooseq, q, n, p.rcv_nxt + 1, Right(p)) BY <2>11 DEF Waiting
    <3>2. Right(p) \in Nat /\ Right(r) \in Nat /\ Right(p) <= Right(r)
      BY <1>1, <1>5, <1>6 DEF Right, w
    <3>3. p.rcv_nxt + 1 \in Nat BY <1>1
    <3>4. Fine(p.ooseq, q, n, p.rcv_nxt + 1, Right(r))
      <4>1. p.rcv_nxt + 1 <= p.rcv_nxt + 1 BY <3>3
      <4> QED BY <3>1, <3>2, <3>3, <4>1, FineWider
    <3> QED BY <1>6, <3>4 DEF Waiting
  <2>7. r.rcv_wnd <= Wide /\ v <= TCP_WND BY <1>2, <1>5, <1>6, <2>1
  <2>8. v + 0 = IF r.RXCLOSED THEN TCP_WND ELSE TCP_WND - d.unread
    <3>1. v + 0 = w + k BY <1>1, <1>4, <2>1 DEF w
    <3>2. w + k = TCP_WND - (c.unread - k) BY <1>1, <1>2, <1>3
    <3> QED BY <1>6, <3>1, <3>2
  <2>9. 0 \in Nat /\ ~(0 > 0) OBVIOUS
  <2>12. r.state \in Taking => ~d.eof /\ r.rcv_nxt = 1 + Len(d.given) + 0 + 0 BY <1>6, <2>10
  <2>13. r.state \in Synchronized BY <1>1, <1>6
  <2> QED BY <1>6, <1>7, <2>5, <2>6, <2>7, <2>8, <2>9, <2>12, <2>13, Zenon DEF Mid, v, z
<1>21. Widened(p, r, k, d, q, n) BY <1>4, <1>6, <1>8 DEF Widened, w
<1> QED BY <1>20, <1>21

LEMMA MidUpdate ==
  ASSUME NEW p, NEW c, NEW q, NEW n, Mid(p, c, 0, FALSE, q, n)
  PROVE  LET r == tcp_update_rcv_ann_wnd(p)
         IN  Mid(r, c, 0, FALSE, q, n) /\ SameSnd(p, r) /\ SameRcv(p, r)
<1> DEFINE r == tcp_update_rcv_ann_wnd(p)
           v == Wnd(r, FALSE)
           z == c.eof \/ (FALSE /\ v = 0)
           v0 == Wnd(p, FALSE)
           z0 == c.eof \/ (FALSE /\ v0 = 0)
<1>1. p \in Pcbs /\ c \in Conns /\ SndOK(p) BY DEF Mid
<1>2. AnnWithin(p, v0, z0) BY Zenon DEF Mid
<1>3. v0 = p.rcv_wnd /\ v = r.rcv_wnd BY DEF Wnd
<1>4. (c.eof => z) /\ (z0 => c.eof) OBVIOUS
<1>10. /\ p.state \in Synchronized /\ v0 <= TCP_WND /\ p.rcv_wnd <= Wide
       /\ p.state \in Taking => Waiting(p, q, n)
       /\ p.state \in Taking => ~c.eof /\ p.rcv_nxt = 1 + Len(c.given) + 0 + 0
       /\ p.state \in Open => v0 + 0 = IF p.RXCLOSED THEN TCP_WND ELSE TCP_WND - c.unread
  BY DEF Mid
<1> HIDE DEF v, z, v0, z0
<1>5. \/ p.rcv_ann_right_edge <= Right(p)
      \/ c.eof /\ p.rcv_ann_right_edge = p.rcv_nxt + Wide
  BY <1>2, <1>3, <1>4 DEF AnnWithin, Right
<1>6. /\ r \in Pcbs /\ SameSnd(p, r) /\ SameRcv(p, r)
      /\ r.rcv_ann_right_edge = p.rcv_ann_right_edge
      /\ r.rcv_ann_wnd <= p.rcv_wnd \/ (c.eof /\ r.rcv_ann_wnd = Wide)
  BY <1>1, <1>5, UpdateAnnFacts
<1> HIDE DEF r
<1>7. SndOK(r) BY <1>1, <1>6, SameSndOK DEF SameRcv
<1>8. AnnWithin(r, v, z) BY <1>3, <1>4, <1>5, <1>6 DEF AnnWithin, SameRcv, Right
<1>9. v = v0 BY <1>3, <1>6 DEF SameRcv
<1>11. r.state \in Taking => Waiting(r, q, n)
  BY <1>6, <1>10 DEF Waiting, SameRcv, Right
<1>12. /\ r.state \in Synchronized /\ v <= TCP_WND /\ r.rcv_wnd <= Wide
       /\ r.state \in Taking => ~c.eof /\ r.rcv_nxt = 1 + Len(c.given) + 0 + 0
       /\ r.state \in Open => v + 0 = IF r.RXCLOSED THEN TCP_WND ELSE TCP_WND - c.unread
  BY <1>6, <1>9, <1>10 DEF SameRcv
<1>13. 0 \in Nat /\ ~(0 > 0) OBVIOUS
<1>14. Mid(r, c, 0, FALSE, q, n)
  BY <1>1, <1>6, <1>7, <1>8, <1>11, <1>12, <1>13, Zenon DEF Mid, v, z
<1> QED BY <1>6, <1>14 DEF r

\* Block and netconn after a call that left the state as it was.
Stays(p, r, d, q, n) ==
  /\ Mid(r.p, d, 0, FALSE, q, n) /\ Speaks(r.p, r.out) /\ Onward(p, r.p)
  /\ r.p.state = p.state /\ r.p.RXCLOSED = p.RXCLOSED

LEMMA RecvedFacts ==
  ASSUME NEW p, NEW c, NEW q, NEW n \in Nat, Mid(p, c, 0, FALSE, q, n),
         p.state \in Open, ~p.RXCLOSED, NEW k \in Nat, k <= c.unread,
         NEW d, d \in Conns, d.given = c.given, d.eof = c.eof, d.unread = c.unread - k
  PROVE  Stays(p, tcp_recved(p, k), d, q, n)
<1> DEFINE a == [p EXCEPT !.rcv_wnd = Min({@ + k, TCP_WND})]
           u == tcp_update_rcv_ann_wnd(a)
           r == tcp_recved(p, k)
<1>1. p \in Pcbs /\ p.rcv_nxt \in Nat /\ p.rcv_wnd \in Nat BY DEF Mid, Pcbs
<1>20. Widened(p, a, k, d, q, n) BY WidenFacts
<1>3. r = Reopened(a) BY DEF tcp_recved
<1> HIDE DEF a
<1>2. /\ Mid(a, d, 0, FALSE, q, n) /\ a.state = p.state /\ a.RXCLOSED = p.RXCLOSED
      /\ a.rcv_wnd = p.rcv_wnd + k /\ a.rcv_nxt = p.rcv_nxt
  BY <1>20 DEF Widened
<1>4. Mid(u, d, 0, FALSE, q, n) /\ SameRcv(a, u) BY <1>2, MidUpdate
<1>5. r = tcp_output(tcp_ack_now(u)) \/ r = Done(u, <<>>) BY <1>3 DEF Reopened
<1> HIDE DEF u, r
<1>6. u \in Pcbs /\ SndOK(u) BY <1>4 DEF Mid
<1>7. Mid(r.p, d, 0, FALSE, q, n) /\ Speaks(r.p, r.out) /\ SameRcv(u, r.p) /\ r.p \in Pcbs
  <2>1. CASE r = tcp_output(tcp_ack_now(u))
    <3>1. KeepsRcv(u, tcp_ack_now(u)) BY <1>6, AckFacts DEF KeepsRcv
    <3>2. SndOK(tcp_ack_now(u)) BY <1>6, AckFacts, SameSndOK DEF SameRcv
    <3>3. Held(u, r) BY <1>6, <2>1, <3>1, <3>2, OutputHeldOf
    <3>4. Mid(r.p, d, 0, FALSE, q, n) /\ Speaks(r.p, r.out) BY <1>4, <3>3, HeldFacts
    <3> QED BY <3>3, <3>4 DEF Held, Told
  <2>2. CASE r = Done(u, <<>>)
    <3>1. r.p = u /\ r.out = <<>> BY <2>2 DEF Done
    <3> QED BY <1>4, <1>6, <3>1, SpeaksNone DEF SameRcv
  <2> QED BY <1>5, <2>1, <2>2
<1>8. r.p.state = p.state /\ r.p.RXCLOSED = p.RXCLOSED BY <1>2, <1>4, <1>7 DEF SameRcv
<1>9. Onward(p, r.p)
  <2>1. r.p.rcv_nxt = p.rcv_nxt /\ r.p.rcv_wnd = p.rcv_wnd + k
    BY <1>2, <1>4, <1>7 DEF SameRcv
  <2>2. Right(p) <= Right(r.p) BY <1>1, <2>1 DEF Right
  <2>3. p.state # "SYN_SENT" BY StateFacts
  <2> QED BY <1>8, <2>2, <2>3 DEF Onward, Live, Lim
<1>10. Stays(p, r, d, q, n) BY <1>7, <1>8, <1>9 DEF Stays
<1> QED BY <1>10 DEF r

-----------------------------------------------------------------------------
(* The application's calls.                                                  *)

Shaped(x) == x = [p |-> x.p, c |-> x.c, out |-> x.out, freed |-> x.freed]

LEMMA CallSame ==
  ASSUME NEW p, NEW c, CallOK(p, c), NEW r, r.state = p.state, r.RXCLOSED = p.RXCLOSED
  PROVE  CallOK(r, c)
BY DEF CallOK, CanWrite

\* tcp_output on a sound block.
LEMMA HeldBoard ==
  ASSUME NEW p, NEW c, NEW q, NEW n, BoardOK(p, c, q, n), p.state \in Synchronized,
         NEW r, Held(p, r)
  PROVE  BoardOK(r.p, c, q, n) /\ Speaks(r.p, r.out) /\ Onward(p, r.p)
<1>1. Mid(p, c, 0, FALSE, q, n) BY BoardMid
<1>2. Mid(r.p, c, 0, FALSE, q, n) /\ Speaks(r.p, r.out) BY <1>1, HeldFacts
<1>3. /\ p \in Pcbs /\ r.p \in Pcbs /\ r.p.state = p.state /\ r.p.RXCLOSED = p.RXCLOSED
      /\ r.p.rcv_nxt = p.rcv_nxt /\ r.p.rcv_wnd = p.rcv_wnd
  BY DEF BoardOK, Held, Told, SameRcv
<1>4. CallOK(r.p, c) BY <1>3, CallSame DEF BoardOK
<1>5. BoardOK(r.p, c, q, n) BY <1>2, <1>4, MidBoard DEF BoardOK
<1>6. Onward(p, r.p) BY <1>3, ToldOnward
<1> QED BY <1>2, <1>5, <1>6

LEMMA FlushedFacts ==
  ASSUME NEW p \in Pcbs, NEW x, Shaped(x), NEW q, NEW n, Good(p, x, q, n)
  PROVE  Good(p, Flushed(x), q, n)
<1>1. CASE x.p.state \notin Open
  <2>1. Flushed(x) = x BY <1>1 DEF Flushed
  <2> QED BY <2>1
<1>2. CASE x.p.state \in Open
  <2> DEFINE b == x.p
             r == tcp_output(b)
             s == OutputAfter(x)
             y == Sent(x, s)
  <2>1. /\ BoardOK(b, x.c, q, n) /\ Speaks(b, x.out) /\ Onward(p, b) /\ Seen(x.c)
        /\ b \in Pcbs /\ SndOK(b) /\ b.state \in Synchronized
    BY <1>2, StateFacts DEF Good, BoardOK
  <2>2. Held(b, r) BY <2>1, OutputHeld
  <2>3. Flushed(x) = y BY <1>2 DEF Flushed
  <2>4. s = Also(x.out, r) BY DEF OutputAfter
  <2> HIDE DEF r, s
  <2>5. r = Done(r.p, r.out) BY <2>2 DEF Held
  <2>6. s = Done(r.p, x.out \o r.out) BY <2>4, <2>5, AlsoDone
  <2>7. s.p = r.p /\ s.out = x.out \o r.out BY <2>6 DEF Done
  <2>8. y.p = s.p /\ y.out = s.out /\ y.c = x.c
    <3>1. PICK a, c, o, f : x = [p |-> a, c |-> c, out |-> o, freed |-> f] BY DEF Shaped
    <3> QED BY <3>1 DEF Sent
  <2> HIDE DEF y
  <2>9. BoardOK(r.p, x.c, q, n) /\ Speaks(r.p, r.out) /\ Onward(b, r.p)
    BY <2>1, <2>2, HeldBoard
  <2> HIDE DEF b
  <2>10. r.p \in Pcbs BY <2>2 DEF Held
  <2>11. Speaks(r.p, x.out) BY <2>1, <2>9, <2>10, SpeaksOn
  <2>12. Speaks(r.p, x.out \o r.out) BY <2>9, <2>11, SpeaksMore
  <2>13. Onward(p, r.p) BY <2>1, <2>9, <2>10, OnwardTrans
  <2>14. Good(p, y, q, n) BY <2>1, <2>7, <2>8, <2>9, <2>12, <2>13 DEF Good
  <2> QED BY <2>3, <2>14
<1> QED BY <1>1, <1>2

LEMMA CalledGood ==
  ASSUME NEW p, NEW c, NEW x, NEW q, NEW n, Called(p, c, x, 0, FALSE, q, n), StreamOK(c, q, n)
  PROVE  Good(p, x, q, n) /\ Shaped(x)
<1>1. /\ Mid(x.p, x.c, 0, FALSE, q, n) /\ Speaks(x.p, x.out) /\ Onward(p, x.p)
      /\ SameStream(c, x.c) /\ CallOK(x.p, x.c) /\ Seen(x.c) /\ Shaped(x)
  BY DEF Called, Shaped
<1>2. StreamOK(x.c, q, n) BY <1>1, StreamSame
<1>3. BoardOK(x.p, x.c, q, n) BY <1>1, <1>2, MidBoard
<1> QED BY <1>1, <1>3 DEF Good

LEMMA GoodWrite ==
  ASSUME NEW p, NEW c, NEW q, NEW n, BoardOK(p, c, q, n), c.attached, c.op = "none",
         CanWrite(p), NEW mem \in BOOLEAN
  PROVE  Good(p, Flushed(do_writemore(p, [c EXCEPT !.op = "write"], mem)), q, n)
<1> DEFINE d == [c EXCEPT !.op = "write"]
           x == do_writemore(p, d, mem)
<1>1. p \in Pcbs /\ c \in Conns /\ p.state \in Synchronized /\ StreamOK(c, q, n)
  <2>1. p \in Pcbs /\ c \in Conns /\ StreamOK(c, q, n) BY DEF BoardOK
  <2> QED BY <2>1, StateFacts DEF CanWrite, Open
<1>2. /\ d \in Conns /\ d.op = "write" /\ SameStream(c, d) /\ d.attached = c.attached
      /\ d.used = c.used
  BY <1>1 DEF Conns, SameStream
<1>3. x = Continue(p, d, mem) BY <1>2 DEF Continue
<1> HIDE DEF d
<1>4. CallOK(p, d)
  <2>1. p.state # "SYN_SENT" BY DEF CanWrite
  <2> QED BY <1>2, <2>1 DEF BoardOK, CallOK
<1>5. Seen(d) BY <1>2 DEF Seen
<1>6. Mid(p, d, 0, FALSE, q, n)
  <2>1. Mid(p, c, 0, FALSE, q, n) BY <1>1, BoardMid
  <2>2. Moves(p, p) BY <1>1, <2>1 DEF Moves, SameAnn, Mid
  <2> QED BY <1>2, <2>1, <2>2, MidMoves
<1>7. Called(p, d, Continue(p, d, mem), 0, FALSE, q, n) BY <1>4, <1>5, <1>6, ContinueFacts
<1> HIDE DEF x
<1>8. Called(p, d, x, 0, FALSE, q, n) BY <1>3, <1>7
<1>9. StreamOK(d, q, n) BY <1>1, <1>2, StreamSame
<1>10. Good(p, x, q, n) /\ Shaped(x) BY <1>8, <1>9, CalledGood
<1>11. Good(p, Flushed(x), q, n) BY <1>1, <1>10, FlushedFacts
<1> QED BY <1>11 DEF x, d

LEMMA StaysGood ==
  ASSUME NEW p, NEW c, NEW q, NEW n, BoardOK(p, c, q, n), NEW d, NEW r, Stays(p, r, d, q, n),
         d.given = c.given, d.eof = c.eof, CallOK(p, d), Seen(d), NEW x,
         x.p = r.p, x.c = d, x.out = r.out
  PROVE  Good(p, x, q, n)
<1>1. StreamOK(d, q, n) BY DEF BoardOK, StreamOK
<1>2. CallOK(r.p, d) BY CallSame DEF Stays
<1>3. BoardOK(r.p, d, q, n) BY <1>1, <1>2, MidBoard DEF Stays
<1> QED BY <1>3 DEF Good, Stays

LEMMA IdleFacts ==
  ASSUME NEW p, NEW c, NEW q, NEW n, BoardOK(p, c, q, n), c.attached, c.op = "none"
  PROVE  /\ p \in Pcbs /\ c \in Conns /\ CanWrite(p) /\ ~p.RXCLOSED
         /\ p.state \in Open /\ p.state \in Synchronized
<1>1. p \in Pcbs /\ c \in Conns /\ CallOK(p, c) BY DEF BoardOK
<1>2. CanWrite(p) /\ ~p.RXCLOSED BY <1>1 DEF CallOK
<1> QED BY <1>1, <1>2, StateFacts DEF CanWrite, Open

LEMMA GoodRecv ==
  ASSUME NEW p, NEW c, NEW q, NEW n \in Nat, BoardOK(p, c, q, n), c.attached, c.op = "none",
         NEW k \in 1..c.unread, NEW x, x.p = tcp_recved(p, k).p,
         x.c = [c EXCEPT !.unread = @ - k], x.out = tcp_recved(p, k).out
  PROVE  Good(p, x, q, n)
<1> DEFINE d == [c EXCEPT !.unread = @ - k]
           r == tcp_recved(p, k)
<1>1. p.state \in Open /\ ~p.RXCLOSED /\ p.state \in Synchronized /\ c \in Conns
  BY IdleFacts
<1>2. c.unread \in 0..TCP_WND /\ TCP_WND \in Nat BY <1>1, Windows DEF Conns
<1>3. k \in Nat /\ k <= c.unread /\ c.unread - k \in 0..TCP_WND BY <1>2
<1>4. d \in Conns /\ d.given = c.given /\ d.eof = c.eof /\ d.unread = c.unread - k
  BY <1>1, <1>3 DEF Conns
<1>5. d.attached /\ d.op = "none" /\ d.used = c.used
  BY <1>1 DEF Conns
<1>6. x.p = r.p /\ x.c = d /\ x.out = r.out OBVIOUS
<1> HIDE DEF d
<1>7. Mid(p, c, 0, FALSE, q, n) BY <1>1, BoardMid
<1>8. Stays(p, r, d, q, n) BY <1>1, <1>3, <1>4, <1>7, RecvedFacts
<1>9. CallOK(p, d)
  <2>1. CallOK(p, c) BY DEF BoardOK
  <2>2. p.state # "SYN_SENT" BY <1>1, StateFacts
  <2> QED BY <1>5, <2>1, <2>2 DEF CallOK
<1>10. Seen(d) BY <1>5 DEF Seen
<1> HIDE DEF r
<1> QED BY <1>4, <1>6, <1>8, <1>9, <1>10, StaysGood

-----------------------------------------------------------------------------
(* do_close.                                                                 *)

\* Nothing is taken any more, the window being whole.
LEMMA MidNoMore ==
  ASSUME NEW p, NEW c, NEW q, NEW n, Mid(p, c, 0, FALSE, q, n), p.rcv_wnd = TCP_WND
  PROVE  Mid(NoMore(p), c, 0, FALSE, q, n)
<1> DEFINE r == NoMore(p)
           v == Wnd(r, FALSE)
           z == c.eof \/ (FALSE /\ v = 0)
           v0 == Wnd(p, FALSE)
           z0 == c.eof \/ (FALSE /\ v0 = 0)
<1>1. p \in Pcbs /\ c \in Conns /\ SndOK(p) /\ p.state \in Synchronized BY DEF Mid
<1>2. /\ r \in Pcbs /\ SameSnd(p, r) /\ SameAnn(p, r) /\ r.state = p.state
      /\ r.rcv_nxt = p.rcv_nxt /\ r.rcv_wnd = p.rcv_wnd /\ r.ooseq = p.ooseq
      /\ r.RXCLOSED = TRUE
  BY <1>1, NoMoreFacts
<1>3. AnnWithin(p, v0, z0) BY Zenon DEF Mid
<1>4. v0 <= TCP_WND /\ p.rcv_wnd <= Wide BY DEF Mid
<1>5. p.state \in Taking => Waiting(p, q, n) BY DEF Mid
<1>6. p.state \in Taking => ~c.eof /\ p.rcv_nxt = 1 + Len(c.given) + 0 + 0 BY DEF Mid
<1> HIDE DEF r
<1>7. SndOK(r) BY <1>1, <1>2, SameSndOK
<1>8. v = v0 /\ z = z0 /\ v = TCP_WND BY <1>2 DEF Wnd
<1> HIDE DEF v, z, v0, z0
<1>9. AnnWithin(r, v, z) BY <1>2, <1>3, <1>8 DEF AnnWithin, SameAnn
<1>10. r.state \in Taking => Waiting(r, q, n) BY <1>2, <1>5 DEF Waiting, Right
<1>11. /\ r.state \in Synchronized /\ v <= TCP_WND /\ r.rcv_wnd <= Wide
       /\ r.state \in Taking => ~c.eof /\ r.rcv_nxt = 1 + Len(c.given) + 0 + 0
  BY <1>1, <1>2, <1>4, <1>6, <1>8
<1>12. v + 0 = IF r.RXCLOSED THEN TCP_WND ELSE TCP_WND - c.unread BY <1>2, <1>8, Windows
<1>13. 0 \in Nat /\ ~(0 > 0) OBVIOUS
<1>14. Mid(r, c, 0, FALSE, q, n)
  BY <1>1, <1>2, <1>7, <1>9, <1>10, <1>11, <1>12, <1>13, Zenon DEF Mid, v, z
<1> QED BY <1>14 DEF r

\* In TIME_WAIT nothing depends on what can be taken any more.
LEMMA TimeWaitBoard ==
  ASSUME NEW p, NEW c, NEW q, NEW n, Mid(p, c, 0, FALSE, q, n),
         NEW r, Moves(NoMore(p), r), r.state = "TIME_WAIT",
         NEW d \in Conns, d.eof = c.eof, StreamOK(d, q, n), CallOK(r, d)
  PROVE  BoardOK(r, d, q, n) /\ Onward(p, r)
<1> DEFINE k == NoMore(p)
<1>1. p \in Pcbs /\ p.rcv_nxt \in Nat /\ p.rcv_wnd \in Nat BY DEF Mid, Pcbs
<1>2. k.rcv_nxt = p.rcv_nxt /\ k.rcv_wnd = p.rcv_wnd /\ SameAnn(p, k) BY <1>1, NoMoreFacts
<1> HIDE DEF k
<1>3. /\ r.rcv_nxt = p.rcv_nxt /\ r.rcv_wnd = p.rcv_wnd /\ SndOK(r) /\ r \in Pcbs
      /\ r.rcv_ann_wnd = p.rcv_ann_wnd /\ r.rcv_ann_right_edge = p.rcv_ann_right_edge
  BY <1>2 DEF Moves, SameAnn, k
<1>4. p.rcv_wnd <= TCP_WND /\ AnnOK(p, c.eof)
  <2> DEFINE v0 == Wnd(p, FALSE)
             z0 == c.eof \/ (FALSE /\ v0 = 0)
  <2>1. AnnWithin(p, v0, z0) /\ v0 <= TCP_WND BY Zenon DEF Mid
  <2>2. v0 = p.rcv_wnd BY DEF Wnd
  <2>3. z0 => c.eof OBVIOUS
  <2> HIDE DEF v0, z0
  <2> QED BY <2>1, <2>2, <2>3 DEF AnnWithin, AnnOK, Right
<1>5. AnnOK(r, d.eof) BY <1>3, <1>4 DEF AnnOK, Right
<1>6. "TIME_WAIT" \notin Taking /\ "TIME_WAIT" \notin Open BY DEF Taking, Open
<1>7. RcvOK(r, d, q, n) BY <1>3, <1>4, <1>5, <1>6 DEF RcvOK
<1>8. BoardOK(r, d, q, n) BY <1>3, <1>7 DEF BoardOK
<1>9. ~Live(r) BY <1>6 DEF Live
<1> QED BY <1>8, <1>9 DEF Onward

\* The netconn whose close is asked for, drained.
Closing(c) == [c EXCEPT !.op = "close", !.unread = 0]

LEMMA ClosingFacts ==
  ASSUME NEW p, NEW c, NEW q, NEW n, BoardOK(p, c, q, n), c.attached, c.op = "none"
  PROVE  /\ Closing(c) \in Conns /\ Closing(c).op = "close" /\ Closing(c).unread = 0
         /\ Closing(c).given = c.given /\ Closing(c).eof = c.eof /\ Closing(c).attached
         /\ Closing(c).used # "more" /\ Seen(Closing(c)) /\ StreamOK(Closing(c), q, n)
         /\ StreamOK(Over(Closing(c)), q, n) /\ Over(Closing(c)).eof = c.eof
         /\ SameStream(Closing(c), Over(Closing(c))) /\ Seen(Over(Closing(c)))
         /\ \A r : ~CanWrite(r) /\ r.state # "SYN_SENT" => CallOK(r, Over(Closing(c)))
         /\ \A r : CanWrite(r) /\ r.RXCLOSED => CallOK(r, Closing(c))
<1> DEFINE d == Closing(c)
           o == Over(d)
<1>1. c \in Conns /\ 0 \in 0..TCP_WND /\ StreamOK(c, q, n) /\ c.used # "more"
  BY Windows DEF BoardOK, CallOK
<1>2. /\ d \in Conns /\ d.op = "close" /\ d.unread = 0 /\ d.given = c.given /\ d.eof = c.eof
      /\ d.attached /\ d.used = c.used
  BY <1>1 DEF Closing, Conns
<1> HIDE DEF d
<1>3. SameStream(d, o) /\ o.op = "none" /\ o.attached = FALSE /\ o.closed /\ o.used = d.used
  BY <1>2, OverFacts
<1> HIDE DEF o
<1>4. StreamOK(d, q, n) BY <1>1, <1>2 DEF StreamOK
<1>5. StreamOK(o, q, n) BY <1>3, <1>4, StreamSame
<1>6. o.eof = c.eof /\ Seen(o) /\ Seen(d) BY <1>2, <1>3 DEF SameStream, Seen
<1>7. ASSUME NEW r, ~CanWrite(r), r.state # "SYN_SENT" PROVE CallOK(r, o)
  BY <1>1, <1>2, <1>3, <1>7 DEF CallOK
<1>8. ASSUME NEW r, CanWrite(r), r.RXCLOSED PROVE CallOK(r, d)
  <2>1. r.state # "SYN_SENT" BY <1>8 DEF CanWrite
  <2> QED BY <1>1, <1>2, <1>8, <2>1 DEF CallOK
<1> QED BY <1>1, <1>2, <1>3, <1>4, <1>5, <1>6, <1>7, <1>8 DEF d, o

LEMMA ClosedGood ==
  ASSUME NEW p, NEW c, NEW q, NEW n, BoardOK(p, c, q, n), c.attached, c.op = "none",
         NEW b, Stays(p, b, Closing(c), q, n), b.p.rcv_wnd = TCP_WND, NEW mem \in BOOLEAN
  PROVE  /\ Good(p, Also(b.out, do_close_internal(b.p, Closing(c), mem)), q, n)
         /\ Shaped(Also(b.out, do_close_internal(b.p, Closing(c), mem)))
<1> DEFINE d == Closing(c)
           s == b.p
           k == NoMore(s)
           x == do_close_internal(s, d, mem)
           y == Also(b.out, x)
<1>1. p \in Pcbs /\ CanWrite(p) BY IdleFacts
<1>2. /\ d \in Conns /\ Seen(d) /\ StreamOK(d, q, n)
      /\ SameStream(d, Over(d)) /\ StreamOK(Over(d), q, n) /\ Seen(Over(d))
      /\ \A r : ~CanWrite(r) /\ r.state # "SYN_SENT" => CallOK(r, Over(d))
      /\ \A r : CanWrite(r) /\ r.RXCLOSED => CallOK(r, d)
  BY ClosingFacts
<1> HIDE DEF d
<1>3. /\ Mid(s, d, 0, FALSE, q, n) /\ Speaks(s, b.out) /\ Onward(p, s)
      /\ s.state = p.state /\ s \in Pcbs /\ SndOK(s)
  BY DEF Stays, Mid, d
<1>20. CanWrite(s) BY <1>1, <1>3 DEF CanWrite
<1>21. s.rcv_wnd = TCP_WND OBVIOUS
<1>4. ClosedTo(s, k, d, x) BY <1>2, <1>3, <1>20, CloseFacts
<1>5. Mid(k, d, 0, FALSE, q, n) BY <1>3, MidNoMore
<1>6. k \in Pcbs /\ k.state = s.state /\ k.RXCLOSED /\ Onward(s, k)
  <2>1. /\ k \in Pcbs /\ k.state = s.state /\ k.RXCLOSED
        /\ k.rcv_nxt = s.rcv_nxt /\ k.rcv_wnd = s.rcv_wnd
    BY <1>3, NoMoreFacts
  <2> HIDE DEF k, s
  <2> QED BY <1>3, <2>1, ToldOnward
<1> HIDE DEF k, x, s
<1>7. ~x.freed /\ Moves(k, x.p) /\ Shaped(x) /\ Resets(x.out) BY <1>4, <1>21 DEF ClosedTo, Shaped
<1>8. x.p \in Pcbs /\ Onward(k, x.p) BY <1>6, <1>7, MovesOn DEF Moves
<1>9. /\ SameStream(d, x.c) /\ StreamOK(x.c, q, n) /\ Seen(x.c) /\ CallOK(x.p, x.c)
  <2>1. CASE x.c = d /\ x.p = k
    <3>1. CanWrite(k) BY <1>6, <1>20 DEF CanWrite
    <3> QED BY <1>2, <1>6, <2>1, <3>1, SameItself
  <2>2. CASE x.c = Over(d) /\ ~CanWrite(x.p) /\ x.p.state # "SYN_SENT"
    BY <1>2, <2>2
  <2> QED BY <1>4, <2>1, <2>2 DEF ClosedTo
<1>10. Mid(x.p, x.c, 0, FALSE, q, n) BY <1>5, <1>7, <1>9, MidMoves
<1>11. BoardOK(x.p, x.c, q, n) BY <1>9, <1>10, MidBoard
<1>12. Onward(s, x.p) BY <1>3, <1>6, <1>8, OnwardTrans
<1>13. Onward(p, x.p) BY <1>1, <1>3, <1>8, <1>12, OnwardTrans
<1>14. Speaks(x.p, b.out \o x.out)
  <2>1. Speaks(x.p, b.out) BY <1>3, <1>8, <1>12, SpeaksOn
  <2>2. Speaks(x.p, x.out) BY <1>7, ResetSpeaks
  <2> QED BY <2>1, <2>2, SpeaksMore
<1>15. y = [p |-> x.p, c |-> x.c, out |-> b.out \o x.out, freed |-> x.freed]
  BY <1>7, AlsoState DEF Shaped
<1> HIDE DEF y
<1>16. y.p = x.p /\ y.c = x.c /\ y.out = b.out \o x.out /\ Shaped(y) BY <1>15 DEF Shaped
<1>17. Good(p, y, q, n) BY <1>9, <1>11, <1>13, <1>14, <1>16 DEF Good
<1> QED BY <1>16, <1>17 DEF y, x, s, d

LEMMA UndrainedGood ==
  ASSUME NEW p, NEW c, NEW q, NEW n, BoardOK(p, c, q, n), c.attached, c.op = "none",
         c.unread > 0, NEW mem \in BOOLEAN
  PROVE  /\ Good(p, Also(<<>>, do_close_internal(p, Closing(c), mem)), q, n)
         /\ Shaped(Also(<<>>, do_close_internal(p, Closing(c), mem)))
<1> DEFINE d == Closing(c)
           k == NoMore(p)
           x == do_close_internal(p, d, mem)
           y == Also(<<>>, x)
<1>1. p \in Pcbs /\ CanWrite(p) /\ p.state \in Open /\ ~p.RXCLOSED /\ p.state \in Synchronized
      /\ c \in Conns
  BY IdleFacts
<1>2. /\ d \in Conns
      /\ Over(d) \in Conns /\ StreamOK(Over(d), q, n) /\ Seen(Over(d)) /\ Over(d).eof = c.eof
      /\ \A r : ~CanWrite(r) /\ r.state # "SYN_SENT" => CallOK(r, Over(d))
  BY ClosingFacts DEF SameStream
<1> HIDE DEF d
<1>3. Mid(p, c, 0, FALSE, q, n) /\ SndOK(p) BY <1>1, BoardMid DEF BoardOK
<1>4. p.rcv_wnd # TCP_WND
  <2>1. p.rcv_wnd = TCP_WND - c.unread BY <1>1 DEF BoardOK, RcvOK
  <2>2. c.unread \in Nat BY <1>1 DEF Conns
  <2> QED BY <2>1, <2>2, Windows
<1>5. ClosedTo(p, k, d, x) BY <1>1, <1>2, <1>3, CloseFacts
<1> HIDE DEF x
<1>6. /\ x.c = Over(d) /\ ~CanWrite(x.p) /\ x.p.state # "SYN_SENT" /\ Shaped(x)
      /\ Resets(x.out) /\ x.p.state \in {"TIME_WAIT", "CLOSED"}
      /\ x.freed => x.p = NoPcb
      /\ ~x.freed => Moves(k, x.p)
  BY <1>4, <1>5 DEF ClosedTo, Shaped
<1>7. CallOK(x.p, Over(d)) BY <1>2, <1>6
<1>8. y = [p |-> x.p, c |-> x.c, out |-> <<>> \o x.out, freed |-> x.freed]
  BY <1>6, AlsoState DEF Shaped
<1>9. x.out \in Seq(Packets) BY <1>6 DEF Resets
<1>10. <<>> \o x.out = x.out BY <1>9
<1> HIDE DEF y
<1>11. y.p = x.p /\ y.c = x.c /\ y.out = x.out /\ Shaped(y) BY <1>8, <1>10 DEF Shaped
<1>12. Good(p, y, q, n)
  <2>1. CASE x.freed
    <3>1. CallOK(NoPcb, Over(d)) BY <1>6, <1>7, <2>1
    <3> QED BY <1>2, <1>6, <1>9, <1>11, <2>1, <3>1, GoneFacts
  <2>2. CASE ~x.freed
    <3>1. x.p.state = "TIME_WAIT"
      <4>1. x.p.state \in Synchronized BY <1>6, <2>2 DEF Moves
      <4> QED BY <1>6, <4>1, StateFacts
    <3>2. BoardOK(x.p, Over(d), q, n) /\ Onward(p, x.p)
      BY <1>2, <1>3, <1>6, <1>7, <2>2, <3>1, TimeWaitBoard
    <3>3. Speaks(x.p, x.out) BY <1>6, ResetSpeaks
    <3> QED BY <1>2, <1>6, <1>11, <3>2, <3>3 DEF Good
  <2> QED BY <2>1, <2>2
<1> QED BY <1>11, <1>12 DEF y, x, d

LEMMA GoodClose ==
  ASSUME NEW q, NEW n \in Nat, BoardOK(pcb, conn, q, n), Idle,
         NEW drains \in BOOLEAN, NEW mem \in BOOLEAN, ~drains => conn.unread > 0
  PROVE  LET d == Drained(drains)
             x == do_close_internal(d.p, [conn EXCEPT !.op = "close", !.unread = 0], mem)
         IN  Good(pcb, FlushedIfClosed(Also(d.out, x)), q, n)
<1> DEFINE d == Drained(drains)
           e == Closing(conn)
           x == do_close_internal(d.p, e, mem)
           y == Also(d.out, x)
<1>0. conn.attached /\ conn.op = "none" BY DEF Idle
<1>1. /\ pcb \in Pcbs /\ conn \in Conns /\ ~pcb.RXCLOSED
      /\ pcb.state \in Open /\ pcb.state \in Synchronized
  BY <1>0, IdleFacts
<1>2. conn.unread \in Nat /\ TCP_WND \in Nat BY <1>1, Windows DEF Conns
<1>3. Mid(pcb, conn, 0, FALSE, q, n) BY <1>1, BoardMid
<1>4. pcb.rcv_wnd = TCP_WND - conn.unread BY <1>1 DEF BoardOK, RcvOK
<1>5. Good(pcb, y, q, n) /\ Shaped(y)
  <2>1. CASE drains \/ conn.unread = 0
    <3>1. Stays(pcb, d, e, q, n) /\ d.p.rcv_wnd = TCP_WND
      <4>1. /\ e \in Conns /\ e.given = conn.given /\ e.eof = conn.eof /\ e.unread = 0
        BY <1>0, ClosingFacts
      <4> HIDE DEF e
      <4>4. Stays(pcb, d, e, q, n)
        <5>2. CASE conn.unread > 0
          <6>1. d = tcp_recved(pcb, conn.unread) BY <2>1, <5>2, <1>2 DEF Drained
          <6>2. conn.unread <= conn.unread /\ e.unread = conn.unread - conn.unread BY <1>2, <4>1
          <6> HIDE DEF d
          <6>3. Stays(pcb, d, e, q, n) BY <1>1, <1>2, <1>3, <4>1, <6>1, <6>2, RecvedFacts
          <6> QED BY <6>3
        <5>3. CASE ~(conn.unread > 0)
          <6>1. d = Done(pcb, <<>>) BY <5>3 DEF Drained
          <6> HIDE DEF d
          <6>2. d.p = pcb /\ d.out = <<>> BY <6>1 DEF Done
          <6>3. conn.unread = 0 BY <1>2, <5>3
          <6>4. SameStream(conn, e) BY <4>1, <6>3 DEF SameStream
          <6>5. Moves(pcb, pcb) BY <1>1 DEF Moves, SameAnn, BoardOK
          <6>6. Mid(pcb, e, 0, FALSE, q, n) BY <1>3, <6>4, <6>5, MidMoves
          <6>7. Speaks(pcb, <<>>) /\ Onward(pcb, pcb) BY <1>1, SpeaksNone, ToldOnward
          <6> QED BY <6>2, <6>6, <6>7 DEF Stays
        <5> QED BY <5>2, <5>3
      <4>5. d.p.rcv_wnd = TCP_WND
        <5> DEFINE s == d.p
                   v == Wnd(s, FALSE)
        <5> HIDE DEF s
        <5>1. Mid(s, e, 0, FALSE, q, n) /\ s.state = pcb.state /\ s.RXCLOSED = pcb.RXCLOSED
          BY <4>4 DEF Stays, s
        <5>2. v + 0 = TCP_WND - e.unread BY <1>1, <5>1 DEF Mid
        <5>3. s.rcv_wnd \in Nat BY <5>1 DEF Mid, Pcbs
        <5>4. v = s.rcv_wnd BY DEF Wnd
        <5> HIDE DEF v
        <5>5. s.rcv_wnd = TCP_WND BY <1>2, <4>1, <5>2, <5>3, <5>4
        <5> QED BY <5>5 DEF s
      <4> QED BY <4>4, <4>5
    <3> HIDE DEF d
    <3> QED BY <1>0, <3>1, ClosedGood
  <2>2. CASE ~(drains \/ conn.unread = 0)
    <3>1. d = Done(pcb, <<>>) BY <2>2 DEF Drained
    <3> HIDE DEF d
    <3>2. d.p = pcb /\ d.out = <<>> BY <3>1 DEF Done
    <3>3. conn.unread > 0 BY <2>2
    <3> QED BY <1>0, <3>2, <3>3, UndrainedGood
  <2> QED BY <2>1, <2>2
<1>6. y = Also(d.out, do_close_internal(d.p, [conn EXCEPT !.op = "close", !.unread = 0], mem))
  BY DEF Closing
<1> HIDE DEF y, d
<1>7. Good(pcb, Flushed(y), q, n) BY <1>1, <1>5, FlushedFacts
<1>8. Good(pcb, FlushedIfClosed(y), q, n) BY <1>5, <1>7 DEF FlushedIfClosed
<1> QED BY <1>6, <1>8 DEF d

-----------------------------------------------------------------------------
(* The timers.                                                               *)

LEMMA GoodState ==
  ASSUME NEW p, NEW c, NEW q, NEW n, NEW r, BoardOK(r, c, q, n), Onward(p, r), Seen(c),
         NEW out, Speaks(r, out)
  PROVE  Good(p, State(r, c, out), q, n) /\ Shaped(State(r, c, out))
<1> DEFINE x == State(r, c, out)
<1>1. x.p = r /\ x.c = c /\ x.out = out /\ Shaped(x) BY DEF State, Shaped
<1> HIDE DEF x
<1>2. Good(p, x, q, n) BY <1>1 DEF Good
<1> QED BY <1>1, <1>2 DEF x

\* Segments that wait may be dropped at any time.
LEMMA EmptiedFacts ==
  ASSUME NEW p, NEW c, NEW q, NEW n, BoardOK(p, c, q, n), NEW due
  PROVE  LET e == Emptied(p, due)
         IN  /\ e \in Pcbs /\ SameSnd(p, e) /\ SameAnn(p, e) /\ e.state = p.state
             /\ e.RXCLOSED = p.RXCLOSED /\ e.rcv_nxt = p.rcv_nxt /\ e.rcv_wnd = p.rcv_wnd
             /\ e.ooseq \in {p.ooseq, <<>>}
<1>1. p \in Pcbs BY DEF BoardOK
<1>2. CASE "ooseq" \in due
  <2> DEFINE o == <<>>
             e == [p EXCEPT !.ooseq = o]
  <2>1. Emptied(p, due) = e BY <1>2 DEF Emptied
  <2>2. o \in Seq(Segs) /\ o \in {p.ooseq, <<>>} OBVIOUS
  <2> HIDE DEF o
  <2>3. e \in Pcbs BY ONLY <1>1, <2>2 DEF Pcbs
  <2>4. /\ SameSnd(p, e) /\ SameAnn(p, e) /\ e.state = p.state
        /\ e.RXCLOSED = p.RXCLOSED /\ e.rcv_nxt = p.rcv_nxt /\ e.rcv_wnd = p.rcv_wnd
        /\ e.ooseq = o
    BY <1>1 DEF Pcbs, SameSnd, SameAnn
  <2> HIDE DEF e
  <2> QED BY <2>1, <2>2, <2>3, <2>4
<1>3. CASE "ooseq" \notin due
  <2>1. Emptied(p, due) = p BY <1>3 DEF Emptied
  <2> QED BY <1>1, <2>1 DEF SameSnd, SameAnn
<1> QED BY <1>2, <1>3

LEMMA EmptiedBoard ==
  ASSUME NEW p, NEW c, NEW q, NEW n, BoardOK(p, c, q, n), NEW due, p.state # "CLOSED"
  PROVE  BoardOK(Emptied(p, due), c, q, n) /\ Onward(p, Emptied(p, due))
<1> DEFINE e == Emptied(p, due)
<1>1. /\ e \in Pcbs /\ SameSnd(p, e) /\ SameAnn(p, e) /\ e.state = p.state
      /\ e.RXCLOSED = p.RXCLOSED /\ e.rcv_nxt = p.rcv_nxt /\ e.rcv_wnd = p.rcv_wnd
      /\ e.ooseq \in {p.ooseq, <<>>}
  BY EmptiedFacts
<1> HIDE DEF e
<1>2. /\ p \in Pcbs /\ c \in Conns /\ StreamOK(c, q, n) /\ CallOK(p, c) /\ RcvOK(p, c, q, n)
      /\ p.state = "SYN_SENT" => SynOK(p)
      /\ p.state \in Synchronized => SndOK(p)
  BY DEF BoardOK
<1>3. e.state = "SYN_SENT" => SynOK(e) BY <1>1, <1>2 DEF SynOK, SameSnd, SameAnn
<1>4. e.state \in Synchronized => SndOK(e) BY <1>1, <1>2, SameSndOK
<1>5. e.state \in Taking => Waiting(e, q, n)
  <2> SUFFICES ASSUME e.state \in Taking PROVE Waiting(e, q, n) OBVIOUS
  <2>1. CASE e.ooseq = p.ooseq
    <3>1. Waiting(p, q, n) BY <1>1, <1>2 DEF RcvOK
    <3> QED BY <1>1, <2>1, <3>1 DEF Waiting, Right
  <2>2. CASE e.ooseq = <<>> BY <2>2, FineNone DEF Waiting
  <2> QED BY <1>1, <2>1, <2>2
<1>6. RcvOK(e, c, q, n) BY <1>1, <1>2, <1>5 DEF RcvOK, AnnOK, SameAnn, Right
<1>7. CallOK(e, c) BY <1>1, <1>2, CallSame
<1>8. BoardOK(e, c, q, n) BY <1>1, <1>2, <1>3, <1>4, <1>6, <1>7 DEF BoardOK
<1>9. Onward(p, e) BY <1>1, <1>2, ToldOnward
<1> QED BY <1>8, <1>9 DEF e

LEMMA GoodHeld ==
  ASSUME NEW p, NEW c, NEW q, NEW n, BoardOK(p, c, q, n), p.state \in Synchronized, Seen(c),
         NEW r, Held(p, r)
  PROVE  Good(p, State(r.p, c, r.out), q, n)
<1>1. BoardOK(r.p, c, q, n) /\ Speaks(r.p, r.out) /\ Onward(p, r.p) BY HeldBoard
<1> QED BY <1>1, GoodState

LEMMA HeldNone ==
  ASSUME NEW p \in Pcbs, SndOK(p)
  PROVE  Held(p, Done(p, <<>>))
<1> DEFINE r == Done(p, <<>>)
<1>1. r.p = p /\ r.out = <<>> /\ r = Done(r.p, r.out) BY DEF Done
<1> HIDE DEF r
<1>2. From(p, <<>>) BY FromNone
<1>3. Told(p, p) BY DEF Told, SameRcv
<1>4. Held(p, r) BY <1>1, <1>2, <1>3 DEF Held
<1> QED BY <1>4 DEF r

\* Probe, retransmission after a timeout, or neither.
LEMMA TimedHeld ==
  ASSUME NEW p \in Pcbs, SndOK(p), NEW due
  PROVE  Held(p, Timed(p, due))
<1> DEFINE z == tcp_zero_window_probe(p)
           t == tcp_rexmit_rto([p EXCEPT !.cwnd = Mss])
           r == Timed(p, due)
<1>1. Held(p, z)
  <2>1. z = Done(z.p, z.out) /\ z.p \in Pcbs /\ SameSnd(p, z.p) /\ Told(p, z.p) /\ From(p, z.out)
    BY ProbeFacts
  <2> HIDE DEF z
  <2>2. SndOK(z.p) BY <2>1, SameSndOK DEF Told, SameRcv
  <2> QED BY <2>1, <2>2 DEF Held
<1>2. Held(p, t)
  <2>1. Mss \in {1, Mss, 2 * Mss} OBVIOUS
  <2> QED BY <2>1, RtoFacts
<1>3. r \in {z, t, Done(p, <<>>)} BY DEF Timed
<1>4. Held(p, Done(p, <<>>)) BY HeldNone
<1> HIDE DEF r, z, t
<1>5. Held(p, r) BY <1>1, <1>2, <1>3, <1>4
<1> QED BY <1>5 DEF r

\* The SYN goes on waiting for its answer.
SynHeld(p, r) ==
  /\ r.p \in Pcbs /\ r.p.state = "SYN_SENT" /\ SynOK(r.p) /\ From(p, r.out)

LEMMA TimedSyn ==
  ASSUME NEW p \in Pcbs, p.state = "SYN_SENT", SynOK(p), NEW due
  PROVE  SynHeld(p, Timed(p, due))
<1> DEFINE z == tcp_zero_window_probe(p)
           t == tcp_rexmit_rto([p EXCEPT !.cwnd = Mss])
           d == Done(p, <<>>)
           r == Timed(p, due)
<1>1. SynHeld(p, z)
  <2>1. z = Done(z.p, z.out) /\ z.p \in Pcbs /\ SameSnd(p, z.p) /\ Told(p, z.p) /\ From(p, z.out)
    BY ProbeFacts
  <2> HIDE DEF z
  <2>2. z.p.state = "SYN_SENT" /\ SynOK(z.p) BY <2>1 DEF Told, SameRcv, SynOK, SameSnd
  <2> QED BY <2>1, <2>2 DEF SynHeld
<1>2. SynHeld(p, t)
  <2>1. Mss \in {1, Mss, 2 * Mss} OBVIOUS
  <2>2. t.p \in Pcbs /\ t.p.state = "SYN_SENT" /\ SynOK(t.p) /\ From(p, t.out)
    BY <2>1, SynRto
  <2> HIDE DEF t
  <2> QED BY <2>2 DEF SynHeld
<1>3. SynHeld(p, d)
  <2>1. d.p = p /\ d.out = <<>> BY DEF Done
  <2> HIDE DEF d
  <2>2. From(p, <<>>) BY FromNone
  <2> QED BY <2>1, <2>2 DEF SynHeld
<1>4. r \in {z, t, d} BY DEF Timed
<1> HIDE DEF r, z, t, d
<1>5. SynHeld(p, r) BY <1>1, <1>2, <1>3, <1>4
<1> QED BY <1>5 DEF r

LEMMA SynGood ==
  ASSUME NEW p, NEW c, NEW q, NEW n, BoardOK(p, c, q, n), p.state = "SYN_SENT", Seen(c),
         NEW r, SynHeld(p, r)
  PROVE  Good(p, State(r.p, c, r.out), q, n)
<1>1. p \in Pcbs /\ SynOK(p) BY DEF BoardOK
<1>2. r.p \in Pcbs /\ BoardOK(r.p, c, q, n) /\ Onward(p, r.p) BY SynBoard DEF SynHeld
<1>3. Speaks(p, r.out) BY <1>1, SynSpeaks DEF SynHeld
<1>4. Speaks(r.p, r.out) BY <1>1, <1>2, <1>3, SpeaksOn
<1> QED BY <1>2, <1>4, GoodState

LEMMA GoodGone ==
  ASSUME NEW p, NEW c, NEW q, NEW n, BoardOK(p, c, q, n), Seen(c)
  PROVE  Good(p, State(NoPcb, Errored(c), <<>>), q, n)
<1> DEFINE x == State(NoPcb, Errored(c), <<>>)
<1>1. CallOK(p, c) /\ StreamOK(c, q, n) /\ c \in Conns BY DEF BoardOK
<1>2. SameStream(c, Errored(c)) /\ CallOK(NoPcb, Errored(c)) /\ Seen(Errored(c))
  BY <1>1, ErroredFacts
<1>3. StreamOK(Errored(c), q, n) /\ Errored(c) \in Conns BY <1>1, <1>2, StreamSame DEF SameStream
<1>4. x.p = NoPcb /\ x.c = Errored(c) /\ x.out = <<>> BY DEF State
<1>5. <<>> \in Seq(Packets) OBVIOUS
<1> HIDE DEF x
<1>6. x.out \in Seq(Packets) BY <1>4, <1>5
<1>7. Good(p, x, q, n) BY <1>2, <1>3, <1>4, <1>6, GoneFacts
<1> QED BY <1>7 DEF x

\* poll_tcp goes on with what the application waits for.
LEMMA GoodPoll ==
  ASSUME NEW p, NEW c, NEW q, NEW n, BoardOK(p, c, q, n), p.state \in Open, Seen(c)
  PROVE  Good(p, Flushed(Continue(p, c, TRUE)), q, n)
<1> DEFINE x == Continue(p, c, TRUE)
<1>1. p \in Pcbs /\ CallOK(p, c) /\ StreamOK(c, q, n) BY DEF BoardOK
<1>2. Mid(p, c, 0, FALSE, q, n) BY StateFacts, BoardMid
<1>3. Called(p, c, x, 0, FALSE, q, n) BY <1>1, <1>2, ContinueFacts
<1> HIDE DEF x
<1>4. Good(p, x, q, n) /\ Shaped(x) BY <1>1, <1>3, CalledGood
<1>5. Good(p, Flushed(x), q, n) BY <1>1, <1>4, FlushedFacts
<1> QED BY <1>5 DEF x

LEMMA GoodTicked ==
  ASSUME NEW q, NEW n, BoardOK(pcb, conn, q, n), Seen(conn), pcb.state # "CLOSED", NEW due
  PROVE  Good(pcb, Ticked(due), q, n)
<1> DEFINE r == tcp_slowtmr(pcb, due)
           e == Emptied(pcb, due)
           t == Timed(e, due)
           x == Polled(r, due)
<1>1. pcb \in Pcbs BY DEF BoardOK
<1>2. Ticked(due) = x BY DEF Ticked
<1>3. CASE Removed(pcb, due)
  <2>1. r = Done(NoPcb, <<>>) BY <1>3 DEF tcp_slowtmr
  <2> HIDE DEF r
  <2>2. r.p = NoPcb /\ r.out = <<>> BY <2>1 DEF Done
  <2>3. x = State(NoPcb, Errored(conn), <<>>)
    <3>1. r.p.state = "CLOSED" BY <2>2, NoPcbFacts
    <3>2. "CLOSED" \notin Open BY DEF Open
    <3>3. x = State(r.p, Errored(conn), r.out) BY <3>1, <3>2 DEF Polled
    <3> QED BY <2>2, <3>3
  <2> HIDE DEF x
  <2>4. Good(pcb, x, q, n) BY <2>3, GoodGone
  <2> QED BY <1>2, <2>4
<1>4. CASE ~Removed(pcb, due) /\ pcb.state = "TIME_WAIT"
  <2>1. r = Done(pcb, <<>>) BY <1>4 DEF tcp_slowtmr
  <2> HIDE DEF r
  <2>2. r.p = pcb /\ r.out = <<>> BY <2>1 DEF Done
  <2>3. x = State(pcb, conn, <<>>) BY <1>4, <2>2, StateFacts DEF Polled
  <2> HIDE DEF x
  <2>4. Onward(pcb, pcb) /\ Speaks(pcb, <<>>) BY <1>1, ToldOnward, SpeaksNone
  <2>5. Good(pcb, x, q, n) BY <2>3, <2>4, GoodState
  <2> QED BY <1>2, <2>5
<1>5. CASE ~Removed(pcb, due) /\ pcb.state # "TIME_WAIT"
  <2>1. r = t BY <1>5 DEF tcp_slowtmr
  <2>2. BoardOK(e, conn, q, n) /\ Onward(pcb, e) BY EmptiedBoard
  <2>3. e \in Pcbs /\ e.state = pcb.state BY EmptiedFacts
  <2> HIDE DEF e, r, t
  <2>4. CASE pcb.state = "SYN_SENT"
    <3>1. SynHeld(e, t) BY <2>2, <2>3, <2>4, TimedSyn DEF BoardOK, t
    <3>2. x = State(r.p, conn, r.out)
      <4>1. r.p.state = "SYN_SENT" BY <2>1, <3>1 DEF SynHeld
      <4>2. "SYN_SENT" \notin Open BY DEF Open
      <4> QED BY <4>1, <4>2 DEF Polled
    <3> HIDE DEF x
    <3>3. Good(e, x, q, n) BY <2>1, <2>2, <2>3, <2>4, <3>1, <3>2, SynGood
    <3>4. Good(pcb, x, q, n) BY <1>1, <2>2, <2>3, <3>3, GoodOn
    <3> QED BY <1>2, <3>4
  <2>5. CASE pcb.state # "SYN_SENT"
    <3>1. e.state \in Open /\ e.state \in Synchronized
      <4>1. pcb.state \in States BY <1>1 DEF Pcbs
      <4>2. pcb.state \in Open BY <1>5, <2>5, <4>1 DEF States
      <4> QED BY <2>3, <4>2, StateFacts
    <3>2. SndOK(e) BY <2>2, <3>1 DEF BoardOK
    <3>3. Held(e, r) BY <2>1, <2>3, <3>2, TimedHeld DEF t
    <3>4. BoardOK(r.p, conn, q, n) /\ Onward(e, r.p) BY <2>2, <3>1, <3>3, HeldBoard
    <3>5. r.p \in Pcbs /\ r.p.state \in Open BY <3>1, <3>3 DEF Held, Told, SameRcv
    <3>6. Onward(pcb, r.p) BY <1>1, <2>2, <2>3, <3>4, <3>5, OnwardTrans
    <3>7. CASE due = {"poll"}
      <4>1. x = Flushed(Continue(r.p, conn, TRUE))
        <5>1. r.p.state # "CLOSED" BY <3>5 DEF Open
        <5> QED BY <3>5, <3>7, <5>1 DEF Polled
      <4> HIDE DEF x
      <4>2. Good(r.p, x, q, n) BY <3>4, <3>5, <4>1, GoodPoll
      <4>3. Good(pcb, x, q, n) BY <1>1, <3>5, <3>6, <4>2, GoodOn
      <4> QED BY <1>2, <4>3
    <3>8. CASE due # {"poll"}
      <4>1. x = State(r.p, conn, r.out)
        <5>1. r.p.state # "CLOSED" BY <3>5 DEF Open
        <5> QED BY <3>5, <3>8, <5>1 DEF Polled
      <4> HIDE DEF x
      <4>2. Good(e, x, q, n) BY <2>2, <3>1, <3>3, <4>1, GoodHeld
      <4>3. Good(pcb, x, q, n) BY <1>1, <2>2, <2>3, <4>2, GoodOn
      <4> QED BY <1>2, <4>3
    <3> QED BY <3>7, <3>8
  <2> QED BY <2>4, <2>5
<1> QED BY <1>3, <1>4, <1>5

LEMMA FastTmrFacts ==
  ASSUME NEW p \in Pcbs, SndOK(p), p.ACK_DELAY
  PROVE  Held(p, tcp_fasttmr(p))
<1> DEFINE o == tcp_output(tcp_ack_now(p))
           b == [o.p EXCEPT !.ACK_DELAY = FALSE, !.ACK_NOW = FALSE]
           r == Done(b, o.out)
           t == tcp_fasttmr(p)
<1>1. KeepsRcv(p, tcp_ack_now(p)) BY AckFacts DEF KeepsRcv
<1>2. SndOK(tcp_ack_now(p)) BY AckFacts, SameSndOK DEF SameRcv
<1>3. Held(p, o) BY <1>1, <1>2, OutputHeldOf
<1>4. t = [o EXCEPT !.p.ACK_DELAY = FALSE, !.p.ACK_NOW = FALSE] BY DEF tcp_fasttmr
<1> HIDE DEF o, t
<1>5. o = Done(o.p, o.out) /\ o.p \in Pcbs /\ SndOK(o.p) BY <1>3 DEF Held
<1>6. t = r
  <2>1. PICK a, s : o = [p |-> a, out |-> s] BY <1>5 DEF Done
  <2> QED BY <1>4, <2>1 DEF Done
<1>7. r.p = b /\ r.out = o.out /\ r = Done(r.p, r.out) BY DEF Done
<1>8. b \in Pcbs BY ONLY <1>5 DEF Pcbs
<1>9. SameSnd(o.p, b) /\ SameRcv(o.p, b) /\ SameAnn(o.p, b)
  BY <1>5 DEF Pcbs, SameSnd, SameRcv, SameAnn
<1> HIDE DEF r, b
<1>10. SndOK(b) BY <1>5, <1>9, SameSndOK DEF SameRcv
<1>11. Told(p, b) BY <1>3, <1>9 DEF Held, Told, SameRcv, SameAnn
<1>12. From(p, o.out) BY <1>3 DEF Held
<1>13. Held(p, r) BY <1>7, <1>8, <1>10, <1>11, <1>12 DEF Held
<1> QED BY <1>6, <1>13 DEF t

LEMMA GoodFast ==
  ASSUME NEW p, NEW c, NEW q, NEW n, BoardOK(p, c, q, n), p.state \in Open, p.ACK_DELAY, Seen(c)
  PROVE  Good(p, State(tcp_fasttmr(p).p, c, tcp_fasttmr(p).out), q, n)
<1>1. p \in Pcbs /\ p.state \in Synchronized /\ SndOK(p) BY StateFacts DEF BoardOK
<1>2. Held(p, tcp_fasttmr(p)) BY <1>1, FastTmrFacts
<1> QED BY <1>1, <1>2, GoodHeld

\* The SYN.
LEMMA ConnectFacts ==
  /\ SynHeld(tcp_connect.p, tcp_connect)
  /\ tcp_connect.p.state = "SYN_SENT" /\ Speaks(tcp_connect.p, tcp_connect.out)
<1> DEFINE a == tcp_enqueue_flags(NoPcb, TRUE, FALSE)
           b == [a EXCEPT !.state = "SYN_SENT"]
           r == tcp_output(b)
<1>1. Seg(0, <<>>, TRUE, FALSE) = Syn BY DEF Syn
<1>2. a = [NoPcb EXCEPT !.unsent = <<Syn>>, !.snd_lbb = 1, !.snd_buf = TCP_SND_BUF - 1,
                        !.FIN = FALSE]
  <2>1. /\ NoPcb.unsent = <<>> /\ NoPcb.snd_lbb = 0 /\ NoPcb.snd_buf = TCP_SND_BUF
        /\ NoPcb.FIN = FALSE
    BY DEF NoPcb
  <2>2. Append(<<>>, Syn) = <<Syn>> OBVIOUS
  <2>3. 0 + 1 = 1 /\ (FALSE \/ FALSE) = FALSE OBVIOUS
  <2> QED BY <1>1, <2>1, <2>2, <2>3 DEF tcp_enqueue_flags
<1> HIDE DEF a
<1>3. /\ b.unsent = <<Syn>> /\ b.unacked = <<>> /\ b.ooseq = <<>>
      /\ b.state = "SYN_SENT" /\ b.snd_lbb = 1 /\ b.lastack = 0 /\ b.snd_nxt = 1
      /\ b.snd_buf = TCP_SND_BUF - 1 /\ b.rcv_nxt = 0 /\ b.rcv_wnd = TCP_WND
      /\ b.rcv_ann_wnd = TCP_WND /\ ~b.RXCLOSED /\ ~b.FIN
  BY <1>2 DEF NoPcb
<1>4. b \in Pcbs
  <2>1. NoPcb \in Pcbs BY NoPcbFacts
  <2>2. <<Syn>> \in Seq(Segs) BY SynFacts
  <2>3. TCP_SND_BUF - 1 \in Nat BY Windows
  <2>4. "SYN_SENT" \in States /\ 1 \in Nat BY DEF States
  <2> DEFINE s == <<Syn>>
             k == TCP_SND_BUF - 1
             u == "SYN_SENT"
             one == 1
  <2>5. s \in Seq(Segs) /\ k \in Nat /\ u \in States /\ one \in Nat BY <2>2, <2>3, <2>4
  <2>6. a = [NoPcb EXCEPT !.unsent = s, !.snd_lbb = one, !.snd_buf = k, !.FIN = FALSE]
    BY <1>2
  <2> HIDE DEF s, k, u, one
  <2>7. a \in Pcbs BY ONLY <2>1, <2>5, <2>6 DEF Pcbs
  <2>8. [a EXCEPT !.state = u] \in Pcbs BY ONLY <2>5, <2>7 DEF Pcbs
  <2> QED BY <2>8 DEF u
<1>5. tcp_connect = r BY DEF tcp_connect, a
<1> HIDE DEF b
<1>6. /\ r = Done(r.p, r.out) /\ r.p \in Pcbs /\ r.p.state = "SYN_SENT" /\ SynOK(r.p)
      /\ From(b, r.out)
  BY <1>3, <1>4, SynOutput
<1> HIDE DEF r
<1>7. From(r.p, r.out) BY <1>3, <1>6 DEF From, SynOK
<1>8. Speaks(r.p, r.out) BY <1>6, <1>7, SynSpeaks
<1> QED BY <1>5, <1>6, <1>7, <1>8 DEF SynHeld

-----------------------------------------------------------------------------
(* A step of the board.                                                      *)

LEMMA AnnouncesOn ==
  ASSUME NEW a \in Seq(Packets), NEW b \in Seq(Packets), NEW from \in Nat, NEW to \in Nat,
         from <= to, Announces(a, from), Announces(b, to)
  PROVE  Announces(a \o b, to)
<1>1. a \o b \in Seq(Packets) /\ Len(a \o b) = Len(a) + Len(b)
      /\ \A i \in 1..Len(a) + Len(b) :
           (a \o b)[i] = IF i <= Len(a) THEN a[i] ELSE b[i - Len(a)]
  BY ConcatProperties
<1> SUFFICES ASSUME NEW i \in 1..Len(a \o b), ~(a \o b)[i].rst
             PROVE  /\ (a \o b)[i].wnd <= TCP_WND
                    /\ (a \o b)[i].ackno + (a \o b)[i].wnd <= to
  BY DEF Announces
<1>2. Len(a) \in Nat /\ Len(b) \in Nat /\ i \in 1..Len(a) + Len(b) BY <1>1
<1>3. CASE i <= Len(a)
  <2>1. (a \o b)[i] = a[i] /\ i \in 1..Len(a) BY <1>1, <1>2, <1>3
  <2>2. a[i] \in Packets BY <2>1
  <2>3. a[i].ackno \in Nat /\ a[i].wnd \in Nat BY <2>2 DEF Packets
  <2>4. a[i].wnd <= TCP_WND /\ a[i].ackno + a[i].wnd <= from BY <2>1 DEF Announces
  <2> QED BY <2>1, <2>3, <2>4
<1>4. CASE i > Len(a)
  <2>1. i - Len(a) \in 1..Len(b) BY <1>2, <1>4
  <2>2. (a \o b)[i] = b[i - Len(a)] BY <1>1, <1>2, <1>4
  <2> QED BY <2>1, <2>2 DEF Announces
<1> QED BY <1>2, <1>3, <1>4

LEMMA LimNat ==
  ASSUME NEW p \in Pcbs
  PROVE  Lim(p) \in Nat
<1>1. p.rcv_nxt \in Nat /\ p.rcv_wnd \in Nat BY DEF Pcbs
<1> QED BY <1>1, Windows DEF Lim, Right

LEMMA EdgeGood ==
  ASSUME NEW p \in Pcbs, NEW q \in Peers, NEW pk \in Seq(Packets), EdgeOK(p, q, pk),
         NEW r \in Pcbs, Onward(p, r), NEW out, Speaks(r, out)
  PROVE  EdgeOK(r, q, pk \o out)
<1> SUFFICES ASSUME Live(r)
             PROVE  /\ Lim(r) >= 1 + TCP_WND /\ q.edge <= Lim(r)
                    /\ Announces(pk \o out, Lim(r))
  BY DEF EdgeOK
<1>1. Live(p) /\ Lim(p) <= Lim(r) BY DEF Onward
<1>2. Lim(p) >= 1 + TCP_WND /\ q.edge <= Lim(p) /\ Announces(pk, Lim(p)) BY <1>1 DEF EdgeOK
<1>3. Lim(p) \in Nat /\ Lim(r) \in Nat BY LimNat
<1>4. out \in Seq(Packets) /\ Announces(out, Lim(r)) BY DEF Speaks
<1>5. Announces(pk \o out, Lim(r)) BY <1>1, <1>2, <1>3, <1>4, AnnouncesOn
<1>6. q.edge \in Nat BY DEF Peers
<1> QED BY <1>1, <1>2, <1>3, <1>5, <1>6, Windows

LEMMA PlanFacts ==
  ASSUME NEW pl \in Plans
  PROVE  pl.out \in Nat /\ pl.in \in Nat /\ pl.faults \in Nat
BY PlansAssumption

LEMMA SeenFacts ==
  ASSUME IInv, conn # NoConn
  PROVE  Seen(conn)
BY DEF IInv, Fresh, Seen

LEMMA BoardStep ==
  ASSUME IInv, NEW x, Good(pcb, x, peer, plan.in),
         pcb' = x.p, conn' = x.c, toPeer' = toPeer \o x.out,
         toPcb' = toPcb \/ (toPcb # <<>> /\ toPcb' = Tail(toPcb)),
         peer' = peer, plan' = plan, faults' \in 0..plan.faults
  PROVE  IInv'
<1>1. /\ pcb \in Pcbs /\ peer \in Peers /\ toPeer \in Seq(Packets) /\ toPcb \in Seq(Packets)
      /\ plan \in Plans /\ PeerOK(peer, plan.in) /\ PacketsSound(toPcb, peer, plan.in)
      /\ EdgeOK(pcb, peer, toPeer)
  BY DEF IInv, Types
<1>2. /\ BoardOK(x.p, x.c, peer, plan.in) /\ Speaks(x.p, x.out) /\ Onward(pcb, x.p)
      /\ Seen(x.c) /\ x.p \in Pcbs /\ x.c \in Conns /\ x.out \in Seq(Packets)
  BY DEF Good, BoardOK, Speaks
<1>3. toPeer \o x.out \in Seq(Packets) BY <1>1, <1>2
<1>4. toPcb' \in Seq(Packets) /\ PacketsSound(toPcb', peer, plan.in)
  <2>1. CASE toPcb' = toPcb BY <1>1, <2>1, SMTT(100)
  <2>2. CASE toPcb # <<>> /\ toPcb' = Tail(toPcb)
    <3> DEFINE t == Tail(toPcb)
    <3>1. t \in Seq(Packets) /\ Len(t) = Len(toPcb) - 1
          /\ \A i \in 1..Len(toPcb) - 1 : t[i] = toPcb[i + 1]
      BY <1>1, <2>2, TailFacts
    <3>2. Len(toPcb) \in Nat BY <1>1
    <3> HIDE DEF t
    <3>3. ASSUME NEW i \in 1..Len(t) PROVE Sound(t[i], peer, plan.in)
      <4>1. i + 1 \in 1..Len(toPcb) /\ t[i] = toPcb[i + 1] BY <3>1, <3>2
      <4> QED BY <1>1, <4>1 DEF PacketsSound
    <3>4. PacketsSound(t, peer, plan.in) BY <3>3 DEF PacketsSound
    <3> QED BY <2>2, <3>1, <3>4 DEF t
  <2> QED BY <2>1, <2>2
<1>5. EdgeOK(x.p, peer, toPeer \o x.out) BY <1>1, <1>2, EdgeGood
<1>6. x.c # NoConn BY <1>2 DEF Seen, NoConn
<1>7. Types' BY <1>1, <1>2, <1>3, <1>4 DEF Types
<1>8. BoardOK(pcb, conn, peer, plan.in)' BY <1>2
<1>9. PeerOK(peer, plan.in)' /\ PacketsSound(toPcb, peer, plan.in)' BY <1>1, <1>4
<1>10. EdgeOK(pcb, peer, toPeer)' BY <1>5
<1>11. Fresh' BY <1>2, <1>6 DEF Fresh, Seen
<1> QED BY <1>7, <1>8, <1>9, <1>10, <1>11 DEF IInv

LEMMA CountFacts ==
  ASSUME Types
  PROVE  /\ Fault => faults' \in 0..plan.faults
         /\ UNCHANGED faults => faults' \in 0..plan.faults
         /\ \A mem \in BOOLEAN : Memory(mem) => faults' \in 0..plan.faults
         /\ Early => faults' \in 0..plan.faults
<1>1. faults \in 0..plan.faults /\ plan.faults \in Nat BY PlanFacts DEF Types
<1>2. Fault => faults' \in 0..plan.faults BY <1>1 DEF Fault
<1>3. UNCHANGED faults => faults' \in 0..plan.faults BY <1>1
<1> QED BY <1>2, <1>3 DEF Memory, Early

LEMMA WriteStep ==
  ASSUME IInv, Write
  PROVE  IInv'
<1>1. PICK mem \in BOOLEAN :
        /\ Idle /\ CanWrite(pcb)
        /\ Handled(Flushed(do_writemore(pcb, [conn EXCEPT !.op = "write"], mem)), mem)
  BY DEF Write
<1> DEFINE x == Flushed(do_writemore(pcb, [conn EXCEPT !.op = "write"], mem))
<1>2. Good(pcb, x, peer, plan.in) BY <1>1, GoodWrite DEF IInv, Idle
<1> HIDE DEF x
<1>3. /\ pcb' = x.p /\ conn' = x.c /\ toPeer' = toPeer \o x.out /\ toPcb' = toPcb
      /\ Memory(mem) /\ peer' = peer /\ plan' = plan
  BY <1>1 DEF Handled, Sends, x
<1>4. faults' \in 0..plan.faults BY <1>3, CountFacts DEF IInv
<1> QED BY <1>2, <1>3, <1>4, BoardStep

LEMMA RecvStep ==
  ASSUME IInv, Recv
  PROVE  IInv'
<1>1. PICK n \in {1, conn.unread} :
        /\ Idle /\ conn.unread > 0
        /\ pcb' = tcp_recved(pcb, n).p /\ Sends(tcp_recved(pcb, n).out)
        /\ conn' = [conn EXCEPT !.unread = @ - n]
        /\ UNCHANGED <<peer, plan, faults>>
  BY DEF Recv
<1> DEFINE x == State(pcb', conn', tcp_recved(pcb, n).out)
<1>2. n \in 1..conn.unread /\ plan.in \in Nat
  <2>1. conn.unread \in Nat BY DEF IInv, Types, Conns
  <2>2. plan.in \in Nat BY PlanFacts DEF IInv, Types
  <2> QED BY <1>1, <2>1, <2>2
<1>3. x.p = pcb' /\ x.c = conn' /\ x.out = tcp_recved(pcb, n).out BY DEF State
<1> HIDE DEF x
<1>4. Good(pcb, x, peer, plan.in) BY <1>1, <1>2, <1>3, GoodRecv DEF IInv, Idle
<1>5. toPeer' = toPeer \o x.out /\ toPcb' = toPcb /\ peer' = peer /\ plan' = plan
  BY <1>1, <1>3 DEF Sends
<1>6. faults' \in 0..plan.faults BY <1>1, CountFacts DEF IInv
<1> QED BY <1>3, <1>4, <1>5, <1>6, BoardStep

LEMMA CloseStep ==
  ASSUME IInv, Close
  PROVE  IInv'
<1> DEFINE Op(d, mem) ==
             do_close_internal(d.p, [conn EXCEPT !.op = "close", !.unread = 0], mem)
           Y(drains, mem) ==
             FlushedIfClosed(Also(Drained(drains).out, Op(Drained(drains), mem)))
<1>1. PICK mem \in BOOLEAN, drains \in BOOLEAN :
        /\ Idle /\ (~drains => conn.unread > 0) /\ Handled(Y(drains, mem), mem)
  BY DEF Close
<1> DEFINE y == Y(drains, mem)
<1>2. plan.in \in Nat BY PlanFacts DEF IInv, Types
<1>3. Good(pcb, y, peer, plan.in) BY <1>1, <1>2, GoodClose DEF IInv
<1> HIDE DEF Y
<1>4. /\ pcb' = y.p /\ conn' = y.c /\ toPeer' = toPeer \o y.out /\ toPcb' = toPcb
      /\ Memory(mem) /\ peer' = peer /\ plan' = plan
  BY <1>1 DEF Handled, Sends
<1>5. faults' \in 0..plan.faults BY <1>4, CountFacts DEF IInv
<1> HIDE DEF y
<1> QED BY <1>3, <1>4, <1>5, BoardStep

LEMMA InputStep ==
  ASSUME IInv, Input
  PROVE  IInv'
<1>1. PICK mem \in BOOLEAN :
        /\ toPcb # <<>> /\ Memory(mem)
        /\ pcb' = tcp_input(pcb, conn, toPcb[1], mem).p
        /\ conn' = tcp_input(pcb, conn, toPcb[1], mem).c
        /\ toPeer' = toPeer \o tcp_input(pcb, conn, toPcb[1], mem).out
        /\ toPcb' = Tail(toPcb) /\ UNCHANGED <<peer, plan>>
  BY DEF Input
<1> DEFINE m == toPcb[1]
           x == tcp_input(pcb, conn, m, mem)
<1>2. /\ toPcb \in Seq(Packets) /\ PacketsSound(toPcb, peer, plan.in) /\ EdgeOK(pcb, peer, toPeer)
      /\ BoardOK(pcb, conn, peer, plan.in) /\ peer \in Peers /\ pcb \in Pcbs
  BY DEF IInv, Types
<1>3. m \in Packets /\ Sound(m, peer, plan.in)
  <2>1. 1 \in 1..Len(toPcb) /\ m \in Packets BY <1>1, <1>2, TailFacts
  <2> QED BY <1>2, <2>1 DEF PacketsSound
<1>4. Seen(conn) BY <1>1, SeenFacts DEF IInv, Fresh
<1>5. pcb.state \in Taking => peer.edge <= Right(pcb)
  <2>1. "SYN_SENT" \notin Taking BY DEF Taking
  <2> QED BY <1>2, <2>1 DEF EdgeOK, Live, Lim
<1>6. peer.nxt \in Nat /\ peer.edge \in Nat /\ plan.in \in Nat
  BY <1>2, PlanFacts DEF Peers, IInv, Types
<1> HIDE DEF m
<1>7. Good(pcb, x, peer, plan.in) BY <1>2, <1>3, <1>4, <1>5, <1>6, InputFacts
<1>8. faults' \in 0..plan.faults BY <1>1, CountFacts DEF IInv
<1>9. pcb' = x.p /\ conn' = x.c /\ toPeer' = toPeer \o x.out BY <1>1 DEF m
<1> HIDE DEF x
<1> QED BY <1>1, <1>7, <1>8, <1>9, BoardStep

LEMMA SlowStep ==
  ASSUME IInv, NEW due, SlowTimer(due)
  PROVE  IInv'
<1> DEFINE x == Ticked(due)
<1>1. /\ Early /\ pcb.state # "CLOSED" /\ pcb' = x.p /\ conn' = x.c
      /\ toPeer' = toPeer \o x.out /\ peer' = peer /\ toPcb' = toPcb /\ plan' = plan
  BY DEF SlowTimer, Due
<1>2. conn # NoConn BY <1>1, NoPcbFacts DEF IInv, Fresh
<1>3. Seen(conn) BY <1>2, SeenFacts
<1>4. Good(pcb, x, peer, plan.in) BY <1>1, <1>3, GoodTicked DEF IInv
<1>5. faults' \in 0..plan.faults BY <1>1, CountFacts DEF IInv
<1> HIDE DEF x
<1> QED BY <1>1, <1>4, <1>5, BoardStep

LEMMA FastStep ==
  ASSUME IInv, FastTimer
  PROVE  IInv'
<1> DEFINE r == tcp_fasttmr(pcb)
           x == State(r.p, conn, r.out)
<1>1. /\ pcb.state \in Open /\ pcb.ACK_DELAY /\ pcb' = r.p /\ conn' = conn
      /\ toPeer' = toPeer \o r.out /\ toPcb' = toPcb /\ peer' = peer /\ plan' = plan
      /\ UNCHANGED faults
  BY DEF FastTimer, Sends
<1>2. conn # NoConn
  <2>1. "CLOSED" \notin Open BY DEF Open
  <2> QED BY <1>1, <2>1, NoPcbFacts DEF IInv, Fresh
<1>3. Seen(conn) BY <1>2, SeenFacts
<1>4. Good(pcb, x, peer, plan.in) BY <1>1, <1>3, GoodFast DEF IInv
<1>5. x.p = r.p /\ x.c = conn /\ x.out = r.out BY DEF State
<1>6. faults' \in 0..plan.faults BY <1>1, CountFacts DEF IInv
<1> HIDE DEF x, r
<1> QED BY <1>1, <1>4, <1>5, <1>6, BoardStep

LEMMA ConnectStep ==
  ASSUME IInv, Connect
  PROVE  IInv'
<1> DEFINE r == tcp_connect
           d == [NoConn EXCEPT !.attached = TRUE, !.op = "connect"]
<1>1. /\ conn = NoConn /\ pcb' = r.p /\ toPeer' = toPeer \o r.out /\ toPcb' = toPcb
      /\ conn' = d /\ peer' = peer /\ plan' = plan /\ faults' = faults
  BY DEF Connect, Sends
<1>2. peer = Listening /\ toPeer = <<>> /\ toPcb = <<>> BY <1>1 DEF IInv, Fresh
<1>3. /\ r.p \in Pcbs /\ r.p.state = "SYN_SENT" /\ SynOK(r.p) /\ Speaks(r.p, r.out)
  BY ConnectFacts DEF SynHeld
<1> HIDE DEF r
<1>4. r.out \in Seq(Packets) /\ Live(r.p) /\ Lim(r.p) = 1 + TCP_WND
      /\ Announces(r.out, Lim(r.p))
  BY <1>3 DEF Speaks, Live, Lim
<1>5. toPeer' = r.out BY <1>1, <1>2, <1>4
<1>6. /\ d \in Conns /\ d.attached /\ d.op = "connect" /\ d.given = <<>> /\ d.unread = 0
      /\ ~d.eof /\ d.used = "none"
  <2>1. 0 \in 0..TCP_WND /\ <<>> \in Seq(Nat) BY Windows
  <2> QED BY <2>1 DEF Conns, NoConn
<1> HIDE DEF d
<1>7. BoardOK(r.p, d, peer, plan.in)
  <2>1. "SYN_SENT" \notin Taking /\ "SYN_SENT" \notin Open /\ "SYN_SENT" \notin Synchronized
    BY DEF Taking, Open, Synchronized
  <2>2. RcvOK(r.p, d, peer, plan.in) BY <1>3, <2>1 DEF RcvOK
  <2>3. StreamOK(d, peer, plan.in)
    <3>1. Len(<<>>) = 0 OBVIOUS
    <3> QED BY <1>6, <3>1 DEF StreamOK
  <2>4. CallOK(r.p, d)
    <3>1. ~r.p.RXCLOSED BY <1>3 DEF SynOK
    <3> QED BY <1>3, <1>6, <3>1 DEF CallOK
  <2> QED BY <1>3, <1>6, <2>1, <2>2, <2>3, <2>4 DEF BoardOK
<1>8. EdgeOK(r.p, peer, r.out)
  <2>1. peer.edge = 0 BY <1>2 DEF Listening
  <2> QED BY <1>4, <2>1, Windows DEF EdgeOK
<1>9. d # NoConn BY <1>6 DEF NoConn
<1>10. Types' BY <1>1, <1>3, <1>4, <1>5, <1>6 DEF IInv, Types
<1>11. BoardOK(pcb, conn, peer, plan.in)' BY <1>1, <1>7
<1>12. PeerOK(peer, plan.in)' /\ PacketsSound(toPcb, peer, plan.in)' BY <1>1 DEF IInv
<1>13. EdgeOK(pcb, peer, toPeer)' BY <1>1, <1>5, <1>8
<1>14. Fresh' BY <1>1, <1>6, <1>9 DEF Fresh
<1> QED BY <1>10, <1>11, <1>12, <1>13, <1>14 DEF IInv

-----------------------------------------------------------------------------
(* A step of the peer, or of the network.                                    *)

Grows(q, r) == q.nxt <= r.nxt /\ q.edge <= r.edge /\ (q.fin => r.fin)

LEMMA SoundGrows ==
  ASSUME NEW q \in Peers, NEW r \in Peers, Grows(q, r), NEW n, NEW m \in Packets, Sound(m, q, n)
  PROVE  Sound(m, r, n)
<1>1. DataEnd(m) \in Nat /\ Len(m.data) \in Nat
  <2>1. m.seq \in Nat /\ m.data \in Seq(Nat) BY DEF Packets
  <2> QED BY <2>1 DEF DataEnd
<1>2. q.edge \in Nat /\ r.edge \in Nat BY DEF Peers
<1>3. ASSUME ~m.rst, ~m.syn, TCPLEN(m) > 0
      PROVE  Piece(m, r, n) /\ (DataEnd(m) <= r.edge \/ Len(m.data) <= 1)
  <2>1. Piece(m, q, n) /\ (DataEnd(m) <= q.edge \/ Len(m.data) <= 1) BY <1>3 DEF Sound
  <2>2. Piece(m, r, n) BY <1>1, <2>1, PieceStays DEF Grows
  <2> QED BY <1>1, <1>2, <2>1, <2>2 DEF Grows
<1> QED BY <1>3 DEF Sound

LEMMA PacketsGrow ==
  ASSUME NEW q \in Peers, NEW r \in Peers, Grows(q, r), NEW n,
         NEW pk \in Seq(Packets), PacketsSound(pk, q, n)
  PROVE  PacketsSound(pk, r, n)
<1> SUFFICES ASSUME NEW i \in 1..Len(pk) PROVE Sound(pk[i], r, n) BY DEF PacketsSound
<1>1. pk[i] \in Packets /\ Sound(pk[i], q, n) BY DEF PacketsSound
<1> QED BY <1>1, SoundGrows

LEMMA BoardGrows ==
  ASSUME NEW q \in Peers, NEW r \in Peers, Grows(q, r), NEW n,
         NEW p, NEW c, BoardOK(p, c, q, n)
  PROVE  BoardOK(p, c, r, n)
<1>1. c \in Conns /\ StreamOK(c, q, n) /\ RcvOK(p, c, q, n) BY DEF BoardOK
<1>2. StreamOK(c, r, n)
  <2>1. q.nxt \in Nat /\ r.nxt \in Nat /\ Len(c.given) \in Nat BY <1>1 DEF Peers, Conns
  <2> QED BY <1>1, <2>1 DEF StreamOK, Grows
<1>3. ASSUME Waiting(p, q, n) PROVE Waiting(p, r, n)
  <2>1. Fine(p.ooseq, q, n, p.rcv_nxt + 1, Right(p)) BY <1>3 DEF Waiting
  <2>2. ASSUME NEW i \in 1..Len(p.ooseq)
        PROVE  Piece(p.ooseq[i], r, n) /\ TCPLEN(p.ooseq[i]) > 0
    <3>1. p.ooseq[i] \in Segs /\ Piece(p.ooseq[i], q, n) /\ TCPLEN(p.ooseq[i]) > 0
      BY <2>1 DEF Fine, Pieces
    <3>2. DataEnd(p.ooseq[i]) \in Nat BY <3>1, SegFacts
    <3> QED BY <3>1, <3>2, PieceStays DEF Grows
  <2>3. Pieces(p.ooseq, r, n) BY <2>2 DEF Pieces
  <2>4. Fine(p.ooseq, r, n, p.rcv_nxt + 1, Right(p)) BY <2>1, <2>3 DEF Fine
  <2> QED BY <2>4 DEF Waiting
<1>4. RcvOK(p, c, r, n) BY <1>1, <1>3 DEF RcvOK
<1> QED BY <1>2, <1>4 DEF BoardOK

LEMMA AnnouncesTail ==
  ASSUME NEW pk \in Seq(Packets), pk # <<>>, NEW to, Announces(pk, to)
  PROVE  /\ Tail(pk) \in Seq(Packets) /\ Announces(Tail(pk), to)
         /\ pk[1] \in Packets
         /\ ~pk[1].rst => pk[1].wnd <= TCP_WND /\ pk[1].ackno + pk[1].wnd <= to
<1> DEFINE t == Tail(pk)
<1>1. /\ t \in Seq(Packets) /\ Len(t) = Len(pk) - 1 /\ pk[1] \in Packets
      /\ \A i \in 1..Len(pk) - 1 : t[i] = pk[i + 1]
  BY TailFacts
<1>2. Len(pk) \in Nat /\ Len(pk) > 0 BY <1>1
<1> HIDE DEF t
<1>3. ASSUME NEW i \in 1..Len(t), ~t[i].rst
      PROVE  t[i].wnd <= TCP_WND /\ t[i].ackno + t[i].wnd <= to
  <2>1. i + 1 \in 1..Len(pk) /\ t[i] = pk[i + 1] BY <1>1, <1>2
  <2> QED BY <1>3, <2>1 DEF Announces
<1>4. Announces(t, to) BY <1>3 DEF Announces
<1>5. 1 \in 1..Len(pk) BY <1>2
<1>6. ~pk[1].rst => pk[1].wnd <= TCP_WND /\ pk[1].ackno + pk[1].wnd <= to
  BY <1>5 DEF Announces
<1> QED BY <1>1, <1>4, <1>6 DEF t

\* A step after which the peer has sent more, or may send more.
LEMMA PeerStep ==
  ASSUME IInv, conn # NoConn, UNCHANGED <<pcb, conn, plan>>, faults' \in 0..plan.faults,
         peer' \in Peers, PeerOK(peer', plan.in), Grows(peer, peer'),
         Live(pcb) => peer'.edge <= Lim(pcb),
         toPeer' = toPeer \/ (toPeer # <<>> /\ toPeer' = Tail(toPeer)),
         NEW out \in Seq(Packets), PacketsSound(out, peer', plan.in), toPcb' = toPcb \o out
  PROVE  IInv'
<1>1. /\ pcb \in Pcbs /\ conn \in Conns /\ peer \in Peers /\ toPeer \in Seq(Packets)
      /\ toPcb \in Seq(Packets)
      /\ plan \in Plans /\ PeerOK(peer, plan.in) /\ PacketsSound(toPcb, peer, plan.in)
      /\ EdgeOK(pcb, peer, toPeer) /\ BoardOK(pcb, conn, peer, plan.in)
  BY DEF IInv, Types
<1>2. BoardOK(pcb, conn, peer', plan.in) BY <1>1, BoardGrows
<1>3. PacketsSound(toPcb, peer', plan.in) BY <1>1, PacketsGrow
<1>4. toPcb' \in Seq(Packets) /\ PacketsSound(toPcb', peer', plan.in)
  <2> DEFINE a == toPcb
             q == peer'
             n == plan.in
  <2>1. a \in Seq(Packets) /\ PacketsSound(a, q, n) /\ PacketsSound(out, q, n) BY <1>1, <1>3
  <2> HIDE DEF a, q, n
  <2>2. a \o out \in Seq(Packets) /\ Len(a \o out) = Len(a) + Len(out)
        /\ \A i \in 1..Len(a) + Len(out) :
             (a \o out)[i] = IF i <= Len(a) THEN a[i] ELSE out[i - Len(a)]
    BY <2>1, ConcatProperties
  <2>3. ASSUME NEW i \in 1..Len(a \o out) PROVE Sound((a \o out)[i], q, n)
    <3>1. Len(a) \in Nat /\ Len(out) \in Nat /\ i \in 1..Len(a) + Len(out) BY <2>1, <2>2
    <3>2. CASE i <= Len(a)
      <4>1. (a \o out)[i] = a[i] /\ i \in 1..Len(a) BY <2>2, <3>1, <3>2
      <4> QED BY <2>1, <4>1 DEF PacketsSound
    <3>3. CASE i > Len(a)
      <4>1. (a \o out)[i] = out[i - Len(a)] /\ i - Len(a) \in 1..Len(out)
        BY <2>2, <3>1, <3>3
      <4> QED BY <2>1, <4>1 DEF PacketsSound
    <3> QED BY <3>1, <3>2, <3>3
  <2>4. PacketsSound(a \o out, q, n) BY <2>3 DEF PacketsSound
  <2> QED BY <2>2, <2>4 DEF a, q, n
<1>5. toPeer' \in Seq(Packets) /\ EdgeOK(pcb, peer', toPeer')
  <2>1. toPeer' \in Seq(Packets) /\ (Live(pcb) => Announces(toPeer', Lim(pcb)))
    <3>1. Live(pcb) => Announces(toPeer, Lim(pcb)) BY <1>1 DEF EdgeOK
    <3>2. CASE toPeer' = toPeer BY <1>1, <3>1, <3>2
    <3>3. CASE toPeer # <<>> /\ toPeer' = Tail(toPeer)
      <4>1. Tail(toPeer) \in Seq(Packets) BY <1>1, <3>3, TailFacts
      <4> QED BY <1>1, <3>1, <3>3, <4>1, AnnouncesTail
    <3> QED BY <3>2, <3>3
  <2> QED BY <1>1, <2>1 DEF EdgeOK
<1>6. Types' BY <1>1, <1>4, <1>5 DEF Types
<1>7. BoardOK(pcb, conn, peer, plan.in)' BY <1>2
<1>8. PeerOK(peer, plan.in)' /\ PacketsSound(toPcb, peer, plan.in)' BY <1>4
<1>9. EdgeOK(pcb, peer, toPeer)' BY <1>5
<1>10. Fresh' BY DEF IInv, Fresh
<1> QED BY <1>6, <1>7, <1>8, <1>9, <1>10 DEF IInv

\* What the peer may put under way.
Fit(m, q, n) == m \in Packets /\ Sound(m, q, n)

LEMMA OneSound ==
  ASSUME NEW q, NEW n, NEW m, Fit(m, q, n)
  PROVE  <<m>> \in Seq(Packets) /\ PacketsSound(<<m>>, q, n)
<1>1. m \in Packets /\ Sound(m, q, n) BY DEF Fit
<1>2. <<m>> \in Seq(Packets) /\ Len(<<m>>) = 1 /\ <<m>>[1] = m BY <1>1
<1>3. ASSUME NEW i \in 1..1 PROVE Sound(<<m>>[i], q, n) BY <1>1
<1> QED BY <1>2, <1>3 DEF PacketsSound

LEMMA NoneSound ==
  ASSUME NEW q, NEW n
  PROVE  <<>> \in Seq(Packets) /\ PacketsSound(<<>>, q, n)
<1>1. <<>> \in Seq(Packets) /\ Len(<<>>) = 0 OBVIOUS
<1> QED BY <1>1 DEF PacketsSound

LEMMA RcvNat ==
  ASSUME NEW q \in Peers
  PROVE  Rcv(q) \in Nat
<1> DEFINE one == IF q.eof THEN 1 ELSE 0
<1>1. Len(q.got) \in Nat BY DEF Peers
<1>2. one \in Nat OBVIOUS
<1>3. Rcv(q) = 1 + Len(q.got) + one BY DEF Rcv
<1> HIDE DEF one
<1> QED BY <1>1, <1>2, <1>3

LEMMA PeerSegFacts ==
  ASSUME NEW q \in Peers, NEW s \in Segs
  PROVE  LET m == PeerSeg(q, s)
         IN  /\ m \in Packets /\ m.seq = s.seq /\ m.data = s.data /\ m.syn = s.syn
             /\ m.fin = s.fin /\ m.rst = FALSE /\ m.wnd <= PeerBuf
             /\ TCPLEN(m) = TCPLEN(s) /\ DataEnd(m) = DataEnd(s)
<1> DEFINE a == Rcv(q)
           w == PeerBuf - q.unread
           m == PeerSeg(q, s)
<1>1. a \in Nat BY RcvNat
<1>2. w \in Nat /\ w <= PeerBuf
  <2>1. q.unread \in 0..PeerBuf BY DEF Peers
  <2> QED BY <2>1, Windows
<1>3. m = [seq |-> s.seq, data |-> s.data, syn |-> s.syn, fin |-> s.fin,
           rst |-> FALSE, ack |-> TRUE, ackno |-> a, wnd |-> w]
  BY DEF PeerSeg, Packet
<1> HIDE DEF a, w, m
<1>4. m \in Packets
  <2>1. s.seq \in Nat /\ s.data \in Seq(Nat) /\ s.syn \in BOOLEAN /\ s.fin \in BOOLEAN
    BY DEF Segs
  <2> QED BY <1>1, <1>2, <1>3, <2>1 DEF Packets
<1>5. /\ m.seq = s.seq /\ m.data = s.data /\ m.syn = s.syn /\ m.fin = s.fin
      /\ m.rst = FALSE /\ m.wnd = w
  BY <1>3
<1>6. TCPLEN(m) = TCPLEN(s) /\ DataEnd(m) = DataEnd(s) BY <1>5 DEF TCPLEN, DataEnd
<1> QED BY <1>2, <1>4, <1>5, <1>6 DEF m

LEMMA AckFit ==
  ASSUME NEW r \in Peers, NEW q, NEW n
  PROVE  Fit(PeerAck(r), q, n)
<1> DEFINE s == Seg(r.nxt, <<>>, FALSE, FALSE)
           m == PeerSeg(r, s)
<1>1. s \in Segs /\ s.syn = FALSE /\ s.fin = FALSE /\ s.data = <<>>
  <2>1. r.nxt \in Nat /\ <<>> \in Seq(Nat) BY DEF Peers
  <2> QED BY <2>1 DEF Segs, Seg
<1> HIDE DEF s
<1>2. TCPLEN(s) = 0
  <2>1. Len(<<>>) = 0 OBVIOUS
  <2>2. TCPLEN(s) = Len(s.data) BY <1>1, SegFacts
  <2> QED BY <1>1, <2>1, <2>2
<1>3. m \in Packets /\ m.wnd <= PeerBuf /\ TCPLEN(m) = 0 /\ m.syn = FALSE
  BY <1>1, <1>2, PeerSegFacts
<1> HIDE DEF m
<1>4. Fit(m, q, n) BY <1>3 DEF Fit, Sound
<1> QED BY <1>4 DEF m, s, PeerAck

LEMMA SynFit ==
  ASSUME NEW r \in Peers, NEW q, NEW n
  PROVE  Fit(PeerSeg(r, PeerSyn), q, n)
<1> DEFINE m == PeerSeg(r, PeerSyn)
<1>1. PeerSyn = Syn BY DEF PeerSyn, Syn
<1>2. PeerSyn \in Segs /\ PeerSyn.seq = 0 /\ PeerSyn.data = <<>> /\ PeerSyn.syn = TRUE
      /\ PeerSyn.fin = FALSE
  <2>1. PeerSyn.syn = TRUE /\ PeerSyn.fin = FALSE BY DEF PeerSyn, Seg
  <2> QED BY <1>1, <2>1, SynFacts
<1>3. /\ m \in Packets /\ m.wnd <= PeerBuf /\ m.syn = TRUE /\ m.seq = 0 /\ m.data = <<>>
      /\ m.fin = FALSE
  BY <1>2, PeerSegFacts
<1> HIDE DEF m
<1>4. Fit(m, q, n) BY <1>3 DEF Fit, Sound
<1> QED BY <1>4 DEF m

LEMMA RstFit ==
  ASSUME NEW a \in Nat, NEW b \in Nat, NEW q, NEW n
  PROVE  Fit(PeerRst(a, b), q, n)
<1> DEFINE m == PeerRst(a, b)
<1>1. m = [seq |-> a, data |-> <<>>, syn |-> FALSE, fin |-> FALSE,
           rst |-> TRUE, ack |-> TRUE, ackno |-> b, wnd |-> 0]
  BY DEF PeerRst, Packet, Seg
<1>2. <<>> \in Seq(Nat) /\ 0 \in Nat /\ 0 <= PeerBuf BY Windows
<1> HIDE DEF m
<1>3. m \in Packets BY <1>1, <1>2 DEF Packets
<1>4. m.rst /\ ~m.syn /\ m.wnd <= PeerBuf BY <1>1, <1>2
<1>5. Fit(m, q, n) BY <1>3, <1>4 DEF Fit, Sound
<1> QED BY <1>5 DEF m

IsStream(s, a, k, fin) ==
  /\ s \in Segs /\ s.seq = a /\ Len(s.data) = k /\ s.syn = FALSE /\ s.fin = fin
  /\ DataEnd(s) = a + k /\ (fin => End(s) = a + k + 1) /\ (~fin => End(s) = a + k)
  /\ \A i \in 1..k : s.data[i] = a + i - 1

LEMMA StreamSeg ==
  ASSUME NEW a \in Nat, NEW k \in Nat, NEW fin \in BOOLEAN, a >= 1
  PROVE  IsStream(Stream(a, k, fin), a, k, fin)
<1> DEFINE d == [i \in 1..k |-> a + i - 1]
           s == Stream(a, k, fin)
<1>1. \A i \in 1..k : a + i - 1 \in Nat OBVIOUS
<1>2. d \in Seq(Nat) /\ Len(d) = k /\ \A i \in 1..k : d[i] = a + i - 1
  <2>1. d \in [1..k -> Nat] BY <1>1
  <2>2. \A i \in 1..k : d[i] = a + i - 1 OBVIOUS
  <2> QED BY <2>1, <2>2
<1>3. s = [seq |-> a, data |-> d, syn |-> FALSE, fin |-> fin] BY DEF Stream, Seg
<1> HIDE DEF d, s
<1>4. s \in Segs /\ s.seq = a /\ s.data = d /\ s.syn = FALSE /\ s.fin = fin
  BY <1>2, <1>3 DEF Segs
<1>5. DataEnd(s) = a + k BY <1>2, <1>4 DEF DataEnd
<1>6. End(s) = a + TCPLEN(s) BY <1>4 DEF End
<1>7. ASSUME fin PROVE End(s) = a + k + 1
  <2>1. TCPLEN(s) = k + 1 BY <1>2, <1>4, <1>7, SegFacts
  <2> QED BY <1>6, <2>1
<1>8. ASSUME ~fin PROVE End(s) = a + k
  <2>1. TCPLEN(s) = k BY <1>2, <1>4, <1>8, SegFacts
  <2> QED BY <1>6, <2>1
<1>9. IsStream(s, a, k, fin) BY <1>2, <1>4, <1>5, <1>7, <1>8 DEF IsStream
<1> QED BY <1>9 DEF s

\* A piece of its stream.
LEMMA StreamFit ==
  ASSUME NEW r \in Peers, NEW q \in Peers, NEW n \in Nat,
         NEW a \in Nat, NEW k \in Nat, NEW fin \in BOOLEAN, a >= 1,
         a + k <= n + 1, a + k <= q.nxt, fin => q.fin /\ a + k = n + 1,
         a + k <= q.edge \/ k <= 1
  PROVE  Fit(PeerSeg(r, Stream(a, k, fin)), q, n)
<1> DEFINE s == Stream(a, k, fin)
           m == PeerSeg(r, s)
<1>0. IsStream(s, a, k, fin) BY StreamSeg
<1> HIDE DEF s
<1>1. /\ s \in Segs /\ s.seq = a /\ Len(s.data) = k /\ s.syn = FALSE /\ s.fin = fin
      /\ DataEnd(s) = a + k /\ \A i \in 1..k : s.data[i] = a + i - 1
  BY <1>0 DEF IsStream
<1>2. /\ m \in Packets /\ m.seq = s.seq /\ m.data = s.data /\ m.syn = s.syn
      /\ m.fin = s.fin /\ m.rst = FALSE /\ m.wnd <= PeerBuf /\ DataEnd(m) = DataEnd(s)
  BY <1>1, PeerSegFacts
<1> HIDE DEF m
<1>3. Piece(m, q, n) BY <1>1, <1>2 DEF Piece
<1>4. Fit(m, q, n) BY <1>1, <1>2, <1>3 DEF Fit, Sound
<1> QED BY <1>4 DEF m, s

LEMMA OpenFacts ==
  ASSUME IInv, peer.state = "open"
  PROVE  /\ conn # NoConn /\ peer.nxt >= 1 /\ PeerOK(peer, plan.in) /\ peer \in Peers
         /\ plan.in \in Nat /\ peer.nxt \in Nat /\ peer.una \in Nat /\ peer.edge \in Nat
         /\ peer.fin \in BOOLEAN /\ peer.una <= peer.nxt
         /\ toPcb \in Seq(Packets) /\ (Live(pcb) => peer.edge <= Lim(pcb))
<1>1. Listening.state = "listen" BY DEF Listening
<1>2. conn # NoConn BY <1>1 DEF IInv, Fresh
<1>3. PeerOK(peer, plan.in) /\ peer \in Peers /\ EdgeOK(pcb, peer, toPeer)
      /\ toPcb \in Seq(Packets)
  BY DEF IInv, Types
<1>4. plan.in \in Nat BY PlanFacts DEF IInv, Types
<1>5. /\ peer.nxt \in Nat /\ peer.una \in Nat /\ peer.edge \in Nat /\ peer.fin \in BOOLEAN
  BY <1>3 DEF Peers
<1>6. peer.nxt >= 1 /\ peer.una <= peer.nxt BY <1>3 DEF PeerOK
<1>7. Live(pcb) => peer.edge <= Lim(pcb) BY <1>3 DEF EdgeOK
<1> QED BY <1>2, <1>3, <1>4, <1>5, <1>6, <1>7

LEMMA SendsStep ==
  ASSUME IInv, NEW k \in Nat, NEW fin \in BOOLEAN, PeerSends(Stream(peer.nxt, k, fin)),
         ~peer.fin, peer.nxt + k <= plan.in + 1, fin => peer.nxt + k = plan.in + 1,
         peer.nxt + k <= peer.edge \/ (k = 1 /\ peer.una >= peer.nxt)
  PROVE  IInv'
<1> DEFINE s == Stream(peer.nxt, k, fin)
           m == PeerSeg(peer, s)
           e == Max({peer.nxt, End(s)})
           f == peer.fin \/ s.fin
           q == [peer EXCEPT !.nxt = e, !.fin = f]
<1>1. peer.state = "open" BY DEF PeerSends
<1>2. /\ conn # NoConn /\ peer.nxt >= 1 /\ PeerOK(peer, plan.in) /\ peer \in Peers
      /\ plan.in \in Nat /\ peer.nxt \in Nat /\ peer.una \in Nat /\ peer.edge \in Nat
      /\ peer.fin \in BOOLEAN /\ peer.una <= peer.nxt
      /\ toPcb \in Seq(Packets) /\ (Live(pcb) => peer.edge <= Lim(pcb))
  BY <1>1, OpenFacts
<1>3. IsStream(s, peer.nxt, k, fin) BY <1>2, StreamSeg
<1>4. /\ toPcb' = toPcb \o <<m>> /\ toPeer' = toPeer /\ peer' = q
      /\ UNCHANGED <<pcb, conn, plan, faults>>
  BY DEF PeerSends, Answers
<1> HIDE DEF s
<1>5. /\ f = fin /\ e \in Nat
      /\ fin => e = peer.nxt + k + 1
      /\ ~fin => e = peer.nxt + k
  <2>1. /\ fin => End(s) = peer.nxt + k + 1
        /\ ~fin => End(s) = peer.nxt + k
        /\ s.fin = fin
    BY <1>3 DEF IsStream
  <2>2. End(s) \in Nat /\ peer.nxt <= End(s) BY <1>2, <2>1
  <2>3. e = End(s) BY <1>2, <2>2, MaxOfTwo
  <2> HIDE DEF e
  <2> QED BY <2>1, <2>2, <2>3
<1> HIDE DEF e, f
<1>6. /\ q \in Peers /\ q.nxt = e /\ q.fin = fin /\ q.una = peer.una /\ q.edge = peer.edge
      /\ q.state = "open"
  <2>1. f \in BOOLEAN BY <1>5
  <2>2. q \in Peers BY <1>2, <1>5, <2>1 DEF Peers
  <2> QED BY <1>1, <1>2, <1>5, <2>2 DEF Peers
<1> HIDE DEF q, m
<1>7. peer.nxt <= e /\ peer.nxt + k <= e BY <1>2, <1>5
<1>8. PeerOK(q, plan.in)
  <2>1. q.una <= q.nxt BY <1>2, <1>5, <1>6, <1>7
  <2>2. IF q.fin THEN q.nxt = plan.in + 2 ELSE q.nxt <= plan.in + 1
    <3>1. CASE fin
      <4>1. e = plan.in + 2 BY <1>2, <1>5, <3>1
      <4> QED BY <1>6, <3>1, <4>1
    <3>2. CASE ~fin
      <4>1. e <= plan.in + 1 BY <1>2, <1>5, <3>2
      <4> QED BY <1>6, <3>2, <4>1
    <3> QED BY <3>1, <3>2
  <2>3. DataNxt(q) = peer.nxt + k
    <3>1. CASE fin BY <1>2, <1>5, <1>6, <3>1 DEF DataNxt
    <3>2. CASE ~fin BY <1>2, <1>5, <1>6, <3>2 DEF DataNxt
    <3> QED BY <3>1, <3>2
  <2>4. DataNxt(q) <= q.edge \/ q.una >= DataNxt(q) - 1 BY <1>2, <1>6, <2>3
  <2>5. q.state # "listen" /\ q.nxt >= 1 BY <1>2, <1>6, <1>7, <1>5
  <2> QED BY <2>1, <2>2, <2>4, <2>5 DEF PeerOK
<1>9. Grows(peer, q) BY <1>2, <1>6, <1>7 DEF Grows
<1>10. Fit(m, q, plan.in)
  <2>1. /\ peer.nxt + k <= q.nxt /\ (fin => q.fin)
        /\ peer.nxt + k <= q.edge \/ k <= 1
    BY <1>2, <1>6, <1>7
  <2> QED BY <1>2, <1>6, <2>1, StreamFit DEF m, s
<1>11. <<m>> \in Seq(Packets) /\ PacketsSound(<<m>>, q, plan.in) BY <1>10, OneSound
<1>12. faults' \in 0..plan.faults BY <1>4, CountFacts DEF IInv
<1>13. Live(pcb) => q.edge <= Lim(pcb) BY <1>2, <1>6
<1> DEFINE o == <<m>>
<1>14. o \in Seq(Packets) /\ PacketsSound(o, q, plan.in) /\ toPcb' = toPcb \o o BY <1>4, <1>11
<1> HIDE DEF o
<1> QED BY <1>2, <1>4, <1>6, <1>8, <1>9, <1>12, <1>13, <1>14, PeerStep

LEMMA SendStep ==
  ASSUME IInv, PeerSend
  PROVE  IInv'
<1>1. PICK k \in 0..Mss, fin \in BOOLEAN :
        /\ peer.una >= 1 /\ ~peer.fin /\ (k > 0 \/ fin)
        /\ peer.nxt + k - 1 <= plan.in
        /\ (fin => "fin" \in plan.ends /\ peer.nxt + k - 1 = plan.in)
        /\ peer.nxt + k <= peer.edge
        /\ PeerSends(Stream(peer.nxt, k, fin))
  BY DEF PeerSend
<1>2. peer.state = "open" BY <1>1 DEF PeerSends
<1>3. plan.in \in Nat /\ peer.nxt \in Nat BY <1>2, OpenFacts
<1>4. k \in Nat BY Windows
<1>5. peer.nxt + k <= plan.in + 1 /\ (fin => peer.nxt + k = plan.in + 1)
  BY <1>1, <1>3, <1>4
<1> QED BY <1>1, <1>4, <1>5, SendsStep

LEMMA ProbeStep ==
  ASSUME IInv, PeerProbe
  PROVE  IInv'
<1>1. /\ peer.una = peer.nxt /\ peer.nxt <= plan.in /\ PeerSends(Stream(peer.nxt, 1, FALSE))
  BY DEF PeerProbe
<1>2. peer.state = "open" BY <1>1 DEF PeerSends
<1>3. plan.in \in Nat /\ peer.nxt \in Nat /\ PeerOK(peer, plan.in) BY <1>2, OpenFacts
<1>4. ~peer.fin BY <1>1, <1>3 DEF PeerOK
<1>5. peer.nxt + 1 <= plan.in + 1 /\ 1 \in Nat /\ peer.una >= peer.nxt BY <1>1, <1>3
<1> QED BY <1>1, <1>4, <1>5, SendsStep

LEMMA GrowsItself ==
  ASSUME NEW q \in Peers
  PROVE  Grows(q, q)
<1>1. q.nxt \in Nat /\ q.edge \in Nat BY DEF Peers
<1> QED BY <1>1 DEF Grows

\* The peer sends one packet more, or takes one and sends at most one.
LEMMA OnePacket ==
  ASSUME IInv, conn # NoConn, UNCHANGED <<pcb, conn, plan>>, faults' \in 0..plan.faults,
         NEW q \in Peers, peer' = q, PeerOK(q, plan.in), Grows(peer, q),
         Live(pcb) => q.edge <= Lim(pcb),
         toPeer' = toPeer \/ (toPeer # <<>> /\ toPeer' = Tail(toPeer)),
         NEW m, Fit(m, q, plan.in),
         toPcb' \in {toPcb \o <<m>>, toPcb \o <<>>}
  PROVE  IInv'
<1> DEFINE o == <<m>>
           z == <<>>
<1>1. o \in Seq(Packets) /\ PacketsSound(o, q, plan.in) BY OneSound
<1>2. z \in Seq(Packets) /\ PacketsSound(z, q, plan.in) BY NoneSound
<1>3. toPcb' \in {toPcb \o o, toPcb \o z} OBVIOUS
<1> HIDE DEF o, z
<1>4. CASE toPcb' = toPcb \o o BY <1>1, <1>4, PeerStep
<1>5. CASE toPcb' = toPcb \o z BY <1>2, <1>5, PeerStep
<1> QED BY <1>3, <1>4, <1>5

LEMMA RetransmitStep ==
  ASSUME IInv, PeerRetransmit
  PROVE  IInv'
<1> DEFINE all == peer.nxt - peer.una - (IF peer.fin THEN 1 ELSE 0)
           S(k) == Stream(peer.una, k, peer.fin /\ k = all)
<1>1. PICK k \in 0..Mss :
        /\ peer.una < peer.nxt /\ k <= all
        /\ IF peer.una = 0 THEN k = 0 /\ toPcb' = Append(toPcb, PeerSeg(peer, PeerSyn))
                           ELSE toPcb' = Append(toPcb, PeerSeg(peer, S(k)))
        /\ peer.state = "open" /\ Early /\ UNCHANGED <<pcb, conn, peer, toPeer, plan>>
  BY DEF PeerRetransmit
<1>2. /\ conn # NoConn /\ PeerOK(peer, plan.in) /\ peer \in Peers
      /\ plan.in \in Nat /\ peer.nxt \in Nat /\ peer.una \in Nat /\ peer.edge \in Nat
      /\ peer.fin \in BOOLEAN /\ toPcb \in Seq(Packets) /\ (Live(pcb) => peer.edge <= Lim(pcb))
  BY <1>1, OpenFacts
<1>3. k \in Nat BY Windows
<1> DEFINE m == IF peer.una = 0 THEN PeerSeg(peer, PeerSyn) ELSE PeerSeg(peer, S(k))
<1>4. Fit(m, peer, plan.in)
  <2>1. CASE peer.una = 0 BY <1>2, <2>1, SynFit
  <2>2. CASE peer.una # 0
    <3> DEFINE a == peer.una
               f == peer.fin /\ k = all
               d == DataNxt(peer)
    <3>1. d = a + all /\ d \in Int
      <4>1. CASE peer.fin BY <1>2, <4>1 DEF DataNxt
      <4>2. CASE ~peer.fin BY <1>2, <4>2 DEF DataNxt
      <4> QED BY <4>1, <4>2
    <3>2. d <= plan.in + 1 /\ d <= peer.nxt /\ (peer.fin => d = plan.in + 1)
          /\ (d <= peer.edge \/ a >= d - 1)
      <4>1. CASE peer.fin BY <1>2, <4>1 DEF DataNxt, PeerOK
      <4>2. CASE ~peer.fin BY <1>2, <4>2 DEF DataNxt, PeerOK
      <4> QED BY <4>1, <4>2
    <3>3. all \in Int
      <4>1. CASE peer.fin BY <1>2, <4>1
      <4>2. CASE ~peer.fin BY <1>2, <4>2
      <4> QED BY <4>1, <4>2
    <3>4. f \in BOOLEAN /\ (f => peer.fin /\ k = all) /\ k <= all BY <1>1
    <3> HIDE DEF f, d, all
    <3>6. a >= 1 /\ a \in Nat BY <1>2, <2>2
    <3> PICK b \in Nat, to \in Nat, x \in Nat, g \in Nat :
          b = a /\ to = plan.in /\ x = peer.nxt /\ g = peer.edge
      BY <1>2
    <3>8. a + k <= d BY <1>2, <1>3, <3>1, <3>3, <3>4
    <3>5. /\ a + k <= plan.in + 1 /\ a + k <= peer.nxt
          /\ f => a + k = plan.in + 1
          /\ a + k <= peer.edge \/ k <= 1
      <4>1. b + k <= to + 1 BY <1>3, <3>1, <3>2, <3>8
      <4>2. b + k <= x BY <1>3, <3>1, <3>2, <3>8
      <4>3. f => b + k = to + 1 BY <1>3, <3>1, <3>2, <3>3, <3>4
      <4>4. b + k <= g \/ k <= 1 BY <1>3, <3>1, <3>2, <3>8
      <4> QED BY <4>1, <4>2, <4>3, <4>4
    <3>7. Fit(PeerSeg(peer, Stream(a, k, f)), peer, plan.in)
      BY <1>2, <1>3, <3>4, <3>5, <3>6, StreamFit
    <3> QED BY <2>2, <3>7 DEF f
  <2> QED BY <2>1, <2>2
<1>5. toPcb' = Append(toPcb, m) BY <1>1
<1> HIDE DEF m
<1>6. toPcb' = toPcb \o <<m>> BY <1>2, <1>4, <1>5, AppendIsConcat DEF Fit
<1>7. faults' \in 0..plan.faults BY <1>1, CountFacts DEF IInv
<1>8. Grows(peer, peer) BY <1>2, GrowsItself
<1>9. /\ UNCHANGED <<pcb, conn, plan>> /\ peer' = peer /\ toPeer' = toPeer BY <1>1
<1>10. toPcb' \in {toPcb \o <<m>>, toPcb \o <<>>} BY <1>6
<1> QED BY <1>2, <1>4, <1>7, <1>8, <1>9, <1>10, OnePacket

LEMMA ReadStep ==
  ASSUME IInv, PeerRead
  PROVE  IInv'
<1> DEFINE q == [peer EXCEPT !.unread = 0]
<1>1. /\ peer.state = "open" /\ peer' = q /\ toPcb' = toPcb \o <<PeerAck(peer')>>
      /\ toPeer' = toPeer /\ UNCHANGED <<pcb, conn, plan, faults>>
  BY DEF PeerRead, Answers
<1>2. /\ conn # NoConn /\ PeerOK(peer, plan.in) /\ peer \in Peers
      /\ (Live(pcb) => peer.edge <= Lim(pcb))
  BY <1>1, OpenFacts
<1>3. /\ q \in Peers /\ q.nxt = peer.nxt /\ q.una = peer.una /\ q.edge = peer.edge
      /\ q.fin = peer.fin /\ q.state = "open"
  <2>1. 0 \in 0..PeerBuf BY Windows
  <2> QED BY <1>1, <1>2, <2>1 DEF Peers
<1> HIDE DEF q
<1>4. PeerOK(q, plan.in) BY <1>1, <1>2, <1>3 DEF PeerOK, DataNxt
<1>5. Grows(peer, q)
  <2>1. Grows(peer, peer) BY <1>2, GrowsItself
  <2> QED BY <1>3, <2>1 DEF Grows
<1>6. Fit(PeerAck(q), q, plan.in) BY <1>3, AckFit
<1>7. faults' \in 0..plan.faults BY <1>1, CountFacts DEF IInv
<1>8. toPcb' \in {toPcb \o <<PeerAck(q)>>, toPcb \o <<>>} BY <1>1
<1> QED BY <1>1, <1>2, <1>3, <1>4, <1>5, <1>6, <1>7, <1>8, OnePacket

LEMMA DeadFacts ==
  ASSUME NEW n, NEW p \in Peers, PeerOK(p, n)
  PROVE  LET q == [p EXCEPT !.state = "dead"]
         IN  q \in Peers /\ PeerOK(q, n) /\ Grows(p, q) /\ q.edge = p.edge
<1> DEFINE q == [p EXCEPT !.state = "dead"]
<1>1. /\ q \in Peers /\ q.nxt = p.nxt /\ q.una = p.una /\ q.edge = p.edge
      /\ q.fin = p.fin /\ q.state = "dead"
  BY DEF Peers
<1> HIDE DEF q
<1>2. PeerOK(q, n) BY <1>1 DEF PeerOK, DataNxt
<1>3. Grows(p, q)
  <2>1. Grows(p, p) BY GrowsItself
  <2> QED BY <1>1, <2>1 DEF Grows
<1> QED BY <1>1, <1>2, <1>3 DEF q

LEMMA AbortStep ==
  ASSUME IInv, PeerAbort
  PROVE  IInv'
<1> DEFINE q == [peer EXCEPT !.state = "dead"]
           m == PeerRst(peer.nxt, Rcv(peer))
<1>1. /\ peer.state = "open" /\ Fault /\ peer' = q /\ toPcb' = Append(toPcb, m)
      /\ toPeer' = toPeer /\ UNCHANGED <<pcb, conn, plan>>
  BY DEF PeerAbort
<1>2. /\ conn # NoConn /\ PeerOK(peer, plan.in) /\ peer \in Peers /\ peer.nxt \in Nat
      /\ toPcb \in Seq(Packets) /\ (Live(pcb) => peer.edge <= Lim(pcb))
  BY <1>1, OpenFacts
<1>3. q \in Peers /\ PeerOK(q, plan.in) /\ Grows(peer, q) /\ q.edge = peer.edge
  BY <1>2, DeadFacts
<1>4. Fit(m, q, plan.in) BY <1>2, RcvNat, RstFit
<1> HIDE DEF q, m
<1>5. toPcb' = toPcb \o <<m>> BY <1>1, <1>2, <1>4, AppendIsConcat DEF Fit
<1>6. faults' \in 0..plan.faults BY <1>1, CountFacts DEF IInv
<1>7. toPcb' \in {toPcb \o <<m>>, toPcb \o <<>>} BY <1>5
<1> QED BY <1>1, <1>2, <1>3, <1>4, <1>6, <1>7, OnePacket

LEMMA AnySub ==
  ASSUME NEW S, NEW q \in Seq(S), NEW a \in Int, NEW b \in Int, a >= 1, b <= Len(q)
  PROVE  /\ SubSeq(q, a, b) \in Seq(S)
         /\ Len(SubSeq(q, a, b)) = IF a <= b THEN b - a + 1 ELSE 0
<1>1. \A i \in a..b : q[i] \in S OBVIOUS
<1> QED BY <1>1, SubSeqProperties

\* What the peer takes of a segment.
Took(p, q, m) ==
  /\ q \in Peers /\ q.state = p.state /\ q.nxt = p.nxt /\ q.fin = p.fin
  /\ q.una >= p.una /\ (p.una <= p.nxt => q.una <= q.nxt)
  /\ q.edge >= p.edge /\ q.edge \in {p.edge, m.ackno + m.wnd}

LEMMA AcceptedFacts ==
  ASSUME peer \in Peers, NEW m \in Packets
  PROVE  Took(peer, Accepted(m), m)
<1> DEFINE fresh == IF m.seq <= Rcv(peer)
                      THEN SubSeq(m.data, Rcv(peer) - m.seq + 1, Len(m.data)) ELSE <<>>
           k == Min({Len(fresh), PeerBuf - peer.unread})
           taken == SubSeq(fresh, 1, k)
           to == Rcv(peer) + Len(taken)
           u == IF m.ackno \in peer.una + 1..peer.nxt THEN m.ackno ELSE peer.una
           e == Max({peer.edge, m.ackno + m.wnd})
           g == peer.got \o taken
           r == peer.unread + Len(taken)
           f == peer.eof \/ (m.fin /\ to = DataEnd(m))
           q == [peer EXCEPT !.una = u, !.edge = e, !.got = g, !.unread = r, !.eof = f]
<1>1. Accepted(m) = q BY DEF Accepted
<1>2. /\ m.seq \in Nat /\ m.data \in Seq(Nat) /\ m.ackno \in Nat /\ m.wnd \in Nat
      /\ m.fin \in BOOLEAN
  BY DEF Packets
<1>3. /\ peer.una \in Nat /\ peer.nxt \in Nat /\ peer.edge \in Nat /\ peer.got \in Seq(Nat)
      /\ peer.unread \in 0..PeerBuf /\ peer.eof \in BOOLEAN
  BY DEF Peers
<1>4. fresh \in Seq(Nat)
  <2>1. CASE m.seq <= Rcv(peer)
    <3>1. Rcv(peer) \in Nat BY RcvNat
    <3>2. Rcv(peer) - m.seq + 1 \in Int /\ Rcv(peer) - m.seq + 1 >= 1 BY <1>2, <2>1, <3>1
    <3>3. Len(m.data) \in Nat BY <1>2
    <3>4. SubSeq(m.data, Rcv(peer) - m.seq + 1, Len(m.data)) \in Seq(Nat)
      BY <1>2, <3>2, <3>3, AnySub
    <3> QED BY <2>1, <3>4
  <2>2. CASE ~(m.seq <= Rcv(peer)) BY <2>2
  <2> QED BY <2>1, <2>2
<1> HIDE DEF fresh
<1>5. k \in Nat /\ k <= Len(fresh) /\ k <= PeerBuf - peer.unread
  <2>1. Len(fresh) \in Nat /\ PeerBuf - peer.unread \in Nat BY <1>3, <1>4, Windows
  <2> QED BY <2>1, MinOfTwo
<1> HIDE DEF k
<1>6. taken \in Seq(Nat) /\ Len(taken) = k
  <2>1. taken \in Seq(Nat) /\ Len(taken) = IF 1 <= k THEN k - 1 + 1 ELSE 0
    BY <1>4, <1>5, AnySub
  <2> HIDE DEF taken
  <2> QED BY <1>5, <2>1
<1> HIDE DEF taken
<1>7. g \in Seq(Nat) /\ r \in 0..PeerBuf BY <1>3, <1>5, <1>6, Windows, SMTT(100)
<1>8. u \in Nat /\ u >= peer.una /\ (peer.una <= peer.nxt => u <= peer.nxt) BY <1>2, <1>3
<1>9. e \in Nat /\ e >= peer.edge /\ e \in {peer.edge, m.ackno + m.wnd}
  <2>1. m.ackno + m.wnd \in Nat BY <1>2
  <2> QED BY <1>3, <2>1, MaxOfTwo
<1>10. f \in BOOLEAN BY <1>3
<1> HIDE DEF g, r, u, e, f
<1>11. q \in Peers
  <2> DEFINE h == [peer EXCEPT !.una = u, !.edge = e]
  <2>1. h \in Peers BY ONLY peer \in Peers, <1>8, <1>9 DEF Peers
  <2>2. q = [h EXCEPT !.got = g, !.unread = r, !.eof = f] OBVIOUS
  <2> HIDE DEF h, q
  <2> QED BY ONLY <1>7, <1>10, <2>1, <2>2 DEF Peers
<1>12. /\ q.state = peer.state /\ q.nxt = peer.nxt /\ q.fin = peer.fin /\ q.una = u
       /\ q.edge = e
  BY DEF Peers
<1> HIDE DEF q
<1>13. Took(peer, q, m) BY <1>8, <1>9, <1>11, <1>12 DEF Took
<1> QED BY <1>1, <1>13

LEMMA TookFacts ==
  ASSUME NEW p \in Peers, NEW n \in Nat, PeerOK(p, n), NEW q, NEW m, Took(p, q, m),
         p.state = "open"
  PROVE  PeerOK(q, n) /\ Grows(p, q)
<1>1. /\ p.una \in Nat /\ p.nxt \in Nat /\ p.edge \in Nat /\ q.una \in Nat /\ q.edge \in Nat
      /\ q.nxt = p.nxt /\ q.fin = p.fin /\ q.state = "open"
  BY DEF Peers, Took
<1>2. DataNxt(q) = DataNxt(p) BY <1>1 DEF DataNxt
<1>3. DataNxt(p) \in Int
  <2>1. CASE p.fin BY <1>1, <2>1 DEF DataNxt
  <2>2. CASE ~p.fin BY <1>1, <2>2 DEF DataNxt
  <2> QED BY <2>1, <2>2
<1>4. /\ p.una <= p.nxt /\ p.nxt >= 1
      /\ IF p.fin THEN p.nxt = n + 2 ELSE p.nxt <= n + 1
      /\ DataNxt(p) <= p.edge \/ p.una >= DataNxt(p) - 1
  BY DEF PeerOK
<1>5. q.una <= q.nxt /\ q.una >= p.una /\ q.edge >= p.edge BY <1>4 DEF Took
<1>6. DataNxt(q) <= q.edge \/ q.una >= DataNxt(q) - 1
  <2> DEFINE d == DataNxt(p)
  <2>1. d \in Int /\ (d <= p.edge \/ p.una >= d - 1) BY <1>3, <1>4
  <2> HIDE DEF d
  <2>2. d <= q.edge \/ q.una >= d - 1 BY <1>1, <1>5, <2>1
  <2> QED BY <1>2, <2>2 DEF d
<1>7. PeerOK(q, n) BY <1>1, <1>4, <1>5, <1>6 DEF PeerOK
<1> QED BY <1>1, <1>5, <1>7 DEF Grows

LEMMA PeerInputStep ==
  ASSUME IInv, PeerInput
  PROVE  IInv'
<1> DEFINE m == toPeer[1]
<1>1. toPeer # <<>> /\ UNCHANGED <<pcb, conn, plan, faults>> BY DEF PeerInput
<1>2. /\ toPeer \in Seq(Packets) /\ peer \in Peers /\ PeerOK(peer, plan.in)
      /\ EdgeOK(pcb, peer, toPeer) /\ plan.in \in Nat /\ conn # NoConn
      /\ pcb \in Pcbs
  BY <1>1, PlanFacts DEF IInv, Types, Fresh
<1>3. /\ m \in Packets
      /\ (Live(pcb) /\ ~m.rst) => m.wnd <= TCP_WND /\ m.ackno + m.wnd <= Lim(pcb)
  BY <1>1, <1>2, AnnouncesTail DEF EdgeOK
<1>4. faults' \in 0..plan.faults BY <1>1, CountFacts DEF IInv
<1>5. Grows(peer, peer) /\ (Live(pcb) => peer.edge <= Lim(pcb) /\ Lim(pcb) >= 1 + TCP_WND)
  BY <1>2, GrowsItself DEF EdgeOK
<1>6. ASSUME NEW q \in Peers, peer' = q, PeerOK(q, plan.in), Grows(peer, q),
             Live(pcb) => q.edge <= Lim(pcb), NEW a, Fit(a, q, plan.in),
             toPeer' = Tail(toPeer), toPcb' \in {toPcb \o <<a>>, toPcb \o <<>>}
      PROVE  IInv'
  BY <1>1, <1>2, <1>4, <1>6, OnePacket
<1>7. CASE m.rst
  <2> DEFINE v == IF peer.state = "open" /\ m.seq \in Rcv(peer)..Rcv(peer) + PeerBuf
                    THEN "dead" ELSE peer.state
             q == [peer EXCEPT !.state = v]
  <2>1. peer' = q /\ toPeer' = Tail(toPeer) /\ toPcb' = toPcb \o <<>> BY <1>7 DEF PeerInput
  <2>2. q = peer \/ q = [peer EXCEPT !.state = "dead"]
    <3>1. v = "dead" \/ v = peer.state OBVIOUS
    <3> HIDE DEF v
    <3>2. v = peer.state => q = peer BY <1>2 DEF Peers
    <3> QED BY <3>1, <3>2
  <2> DEFINE d == [peer EXCEPT !.state = "dead"]
  <2>3. d \in Peers /\ PeerOK(d, plan.in) /\ Grows(peer, d) /\ d.edge = peer.edge
    BY <1>2, DeadFacts
  <2> HIDE DEF q, d
  <2>4. /\ q \in Peers /\ PeerOK(q, plan.in) /\ Grows(peer, q) /\ q.edge = peer.edge
    BY <1>2, <1>5, <2>2, <2>3 DEF d
  <2>5. Fit(PeerAck(q), q, plan.in) BY <2>4, AckFit
  <2> QED BY <1>5, <1>6, <2>1, <2>4, <2>5
<1>8. CASE ~m.rst /\ m.syn /\ peer.state # "dead"
  <2>1. CASE peer.state = "listen"
    <3> DEFINE one == 1
               e == 1 + m.wnd
               o == "open"
               q == [peer EXCEPT !.state = o, !.nxt = one, !.edge = e]
               a == PeerSeg(peer, PeerSyn)
    <3>1. peer' = q /\ toPeer' = Tail(toPeer) /\ toPcb' = toPcb \o <<a>>
      BY <1>8, <2>1 DEF PeerInput
    <3>2. peer = Listening BY <1>2, <2>1 DEF PeerOK
    <3>3. peer.una = 0 /\ peer.fin = FALSE /\ peer.nxt = 0 /\ peer.edge = 0
      BY <3>2 DEF Listening
    <3>4. m.wnd \in Nat BY <1>3 DEF Packets
    <3>5. one \in Nat /\ e \in Nat /\ o \in {"listen", "open", "dead"} BY <3>4
    <3>6. one = 1 /\ e = 1 + m.wnd /\ o = "open" OBVIOUS
    <3> HIDE DEF one, e, o
    <3>7. q \in Peers BY ONLY <1>2, <3>5 DEF Peers
    <3>8. /\ q.nxt = 1 /\ q.edge = e /\ q.una = 0 /\ q.fin = FALSE /\ q.state = "open"
      BY <1>2, <3>3, <3>6 DEF Peers
    <3> HIDE DEF q
    <3>9. DataNxt(q) = 1 BY <3>8 DEF DataNxt
    <3>10. PeerOK(q, plan.in) BY <1>2, <3>4, <3>6, <3>8, <3>9 DEF PeerOK
    <3>11. Grows(peer, q) BY <3>3, <3>4, <3>6, <3>8 DEF Grows
    <3>12. Live(pcb) => q.edge <= Lim(pcb)
      <4>1. Lim(pcb) \in Nat BY <1>2, LimNat
      <4> QED BY <1>3, <1>5, <1>8, <3>4, <3>6, <3>8, <4>1, Windows
    <3>13. Fit(a, q, plan.in) BY <1>2, SynFit
    <3> HIDE DEF a
    <3> QED BY <1>6, <3>1, <3>7, <3>10, <3>11, <3>12, <3>13
  <2>2. CASE peer.state # "listen"
    <3> DEFINE a == IF peer.una = 0 THEN PeerSeg(peer, PeerSyn) ELSE PeerAck(peer)
    <3>1. peer' = peer /\ toPeer' = Tail(toPeer) /\ toPcb' = toPcb \o <<a>>
      BY <1>8, <2>2 DEF PeerInput
    <3>2. Fit(a, peer, plan.in) BY <1>2, SynFit, AckFit
    <3> HIDE DEF a
    <3> QED BY <1>2, <1>5, <1>6, <3>1, <3>2
  <2> QED BY <2>1, <2>2
<1>9. CASE ~m.rst /\ ~m.syn /\ peer.state = "open"
  <2> DEFINE q == Accepted(m)
  <2>1. peer' = q /\ toPeer' = Tail(toPeer)
        /\ toPcb' \in {toPcb \o <<PeerAck(q)>>, toPcb \o <<>>}
    BY <1>9 DEF PeerInput
  <2>2. Took(peer, q, m) BY <1>2, <1>3, AcceptedFacts
  <2> HIDE DEF q
  <2>3. PeerOK(q, plan.in) /\ Grows(peer, q) BY <1>2, <1>9, <2>2, TookFacts
  <2>4. q \in Peers BY <2>2 DEF Took
  <2>5. Live(pcb) => q.edge <= Lim(pcb) BY <1>3, <1>5, <1>9, <2>2 DEF Took
  <2>6. Fit(PeerAck(q), q, plan.in) BY <2>4, AckFit
  <2> QED BY <1>6, <2>1, <2>3, <2>4, <2>5, <2>6
<1>10. CASE /\ ~m.rst
            /\ ~(m.syn /\ peer.state # "dead") /\ ~(~m.syn /\ peer.state = "open")
  <2> DEFINE a == PeerRst(m.ackno, End(m))
  <2>1. peer' = peer /\ toPeer' = Tail(toPeer) /\ toPcb' = toPcb \o <<a>>
    BY <1>10 DEF PeerInput
  <2>2. m.ackno \in Nat /\ End(m) \in Nat
    <3> DEFINE k == IF m.syn \/ m.fin THEN 1 ELSE 0
    <3>1. m.ackno \in Nat /\ m.seq \in Nat /\ m.data \in Seq(Nat) BY <1>3 DEF Packets
    <3>2. k \in Nat /\ Len(m.data) \in Nat BY <3>1
    <3>3. End(m) = m.seq + (Len(m.data) + k) BY DEF End, TCPLEN
    <3> HIDE DEF k, m
    <3> QED BY <3>1, <3>2, <3>3
  <2>3. Fit(a, peer, plan.in) BY <2>2, RstFit
  <2> HIDE DEF a
  <2> QED BY <1>2, <1>5, <1>6, <2>1, <2>3
<1> QED BY <1>7, <1>8, <1>9, <1>10

\* What is under way after the network's fault was under way before it.
OutOf(r, q) ==
  r \in Seq(Packets) /\ \A k \in 1..Len(r) : \E j \in 1..Len(q) : r[k] = q[j]

LEMMA InsertOutOf ==
  ASSUME NEW q \in Seq(Packets), NEW i \in 1..Len(q)
  PROVE  OutOf(InsertAt(q, i, q[i]), q)
<1> DEFINE a == SubSeq(q, 1, i - 1)
           b == SubSeq(q, i, Len(q))
           s == <<q[i]>>
           c == a \o s
           r == InsertAt(q, i, q[i])
<1>1. a \in Seq(Packets) /\ Len(a) = i - 1 /\ \A k \in 1..i - 1 : a[k] = q[k] BY SubFacts
<1>2. /\ b \in Seq(Packets) /\ Len(b) = Len(q) - i + 1
      /\ \A k \in 1..Len(q) - i + 1 : b[k] = q[i + k - 1]
  BY SubFacts
<1>3. s \in Seq(Packets) /\ Len(s) = 1 /\ s[1] = q[i] OBVIOUS
<1>4. r = c \o b BY DEF InsertAt
<1> PICK n \in Nat : n = Len(q) OBVIOUS
<1> HIDE DEF a, b, s, r
<1>5. /\ c \in Seq(Packets) /\ Len(c) = i
      /\ \A k \in 1..i : c[k] = IF k <= i - 1 THEN a[k] ELSE s[k - (i - 1)]
  <2>1. /\ a \o s \in Seq(Packets) /\ Len(a \o s) = Len(a) + Len(s)
        /\ \A k \in 1..Len(a) + Len(s) :
             (a \o s)[k] = IF k <= Len(a) THEN a[k] ELSE s[k - Len(a)]
    BY <1>1, <1>3, ConcatProperties
  <2>2. Len(a) + Len(s) = i BY <1>1, <1>3
  <2> QED BY <1>1, <2>1, <2>2
<1> HIDE DEF c
<1>6. ASSUME NEW k \in 1..i PROVE c[k] = q[k]
  <2>1. CASE k <= i - 1 BY <1>1, <1>5, <2>1
  <2>2. CASE k > i - 1
    <3>1. k = i /\ k - (i - 1) = 1 BY <2>2
    <3> QED BY <1>3, <1>5, <2>2, <3>1
  <2> QED BY <2>1, <2>2
<1>7. /\ c \o b \in Seq(Packets) /\ Len(c \o b) = n + 1
      /\ \A k \in 1..n + 1 : (c \o b)[k] = IF k <= i THEN c[k] ELSE b[k - i]
  <2>1. Len(c) + Len(b) = n + 1 BY <1>2, <1>5
  <2>2. /\ c \o b \in Seq(Packets) /\ Len(c \o b) = Len(c) + Len(b)
        /\ \A k \in 1..Len(c) + Len(b) :
             (c \o b)[k] = IF k <= Len(c) THEN c[k] ELSE b[k - Len(c)]
    BY <1>2, <1>5, ConcatProperties
  <2> QED BY <1>5, <2>1, <2>2
<1>8. ASSUME NEW k \in 1..n + 1 PROVE \E j \in 1..n : (c \o b)[k] = q[j]
  <2>1. CASE k <= i
    <3>1. k \in 1..i /\ k \in 1..n BY <2>1
    <3> QED BY <1>6, <1>7, <2>1, <3>1
  <2>2. CASE k > i
    <3>1. k - i \in 1..n - i + 1 /\ i + (k - i) - 1 = k - 1 /\ k - 1 \in 1..n BY <2>2
    <3>2. b[k - i] = q[k - 1] BY <1>2, <3>1
    <3>3. ~(k <= i) BY <2>2
    <3>4. (c \o b)[k] = b[k - i] BY <1>7, <3>3, Zenon
    <3>5. (c \o b)[k] = q[k - 1] BY <3>2, <3>4, Zenon
    <3>6. k - 1 \in 1..n BY <3>1, Zenon
    <3> QED BY <3>5, <3>6, Zenon
  <2>3. k <= i \/ k > i OBVIOUS
  <2> QED BY <2>1, <2>2, <2>3
<1>9. OutOf(r, q) BY <1>4, <1>7, <1>8 DEF OutOf
<1> QED BY <1>9 DEF r

LEMMA DisturbedFacts ==
  ASSUME NEW q \in Seq(Packets), NEW r \in Disturbed(q)
  PROVE  OutOf(r, q) /\ q # <<>>
<1>1. DOMAIN q = 1..Len(q) /\ Len(q) \in Nat OBVIOUS
<1>2. CASE \E i \in DOMAIN q : r = RemoveAt(q, i)
  <2>1. PICK i \in 1..Len(q) : r = RemoveAt(q, i) BY <1>1, <1>2
  <2> QED BY <1>1, <2>1, RemoveFacts DEF OutOf
<1>3. CASE \E i \in DOMAIN q : r = InsertAt(q, i, q[i])
  <2>1. PICK i \in 1..Len(q) : r = InsertAt(q, i, q[i]) BY <1>1, <1>3
  <2> QED BY <1>1, <2>1, InsertOutOf
<1>4. CASE \E i \in 1..Len(q) - 1 : r = [q EXCEPT ![i] = q[i + 1], ![i + 1] = q[i]]
  <2>1. PICK i \in 1..Len(q) - 1 : r = [q EXCEPT ![i] = q[i + 1], ![i + 1] = q[i]] BY <1>4
  <2>2. i \in 1..Len(q) /\ i + 1 \in 1..Len(q) BY <1>1, <2>1
  <2>3. q[i] \in Packets /\ q[i + 1] \in Packets BY <2>2
  <2>4. DOMAIN r = 1..Len(q) BY <1>1, <2>1
  <2>5. \A k \in 1..Len(q) : r[k] = IF k = i + 1 THEN q[i] ELSE IF k = i THEN q[i + 1] ELSE q[k]
    BY <1>1, <2>1, <2>2
  <2>6. ASSUME NEW k \in 1..Len(q) PROVE r[k] \in Packets /\ \E j \in 1..Len(q) : r[k] = q[j]
    BY <2>2, <2>3, <2>5
  <2>7. r \in Seq(Packets) /\ Len(r) = Len(q)
    <3>1. r = [k \in 1..Len(q) |-> r[k]] BY <1>1, <2>1
    <3>2. r \in [1..Len(q) -> Packets] BY <2>6, <3>1
    <3> QED BY <1>1, <3>2
  <2> QED BY <1>1, <2>2, <2>6, <2>7 DEF OutOf
<1> QED BY <1>2, <1>3, <1>4 DEF Disturbed

LEMMA DisturbStep ==
  ASSUME IInv, Disturb
  PROVE  IInv'
<1>1. /\ toPeer \in Seq(Packets) /\ toPcb \in Seq(Packets) /\ EdgeOK(pcb, peer, toPeer)
      /\ PacketsSound(toPcb, peer, plan.in)
  BY DEF IInv, Types
<1>2. faults' \in 0..plan.faults /\ UNCHANGED <<pcb, conn, peer, plan>>
  BY CountFacts DEF IInv, Disturb
<1>3. /\ toPeer' \in Seq(Packets) /\ EdgeOK(pcb, peer, toPeer') /\ toPcb' \in Seq(Packets)
      /\ PacketsSound(toPcb', peer, plan.in) /\ conn # NoConn
  <2>1. CASE toPeer' \in Disturbed(toPeer) /\ toPcb' = toPcb
    <3>1. OutOf(toPeer', toPeer) /\ toPeer # <<>> BY <1>1, <2>1, DisturbedFacts
    <3>2. conn # NoConn BY <3>1 DEF IInv, Fresh
    <3>3. ASSUME NEW to, Announces(toPeer, to) PROVE Announces(toPeer', to)
      BY <3>1, <3>3 DEF Announces, OutOf
    <3>4. EdgeOK(pcb, peer, toPeer') BY <1>1, <3>3 DEF EdgeOK
    <3> QED BY <1>1, <2>1, <3>1, <3>2, <3>4 DEF OutOf
  <2>2. CASE toPcb' \in Disturbed(toPcb) /\ toPeer' = toPeer
    <3>1. OutOf(toPcb', toPcb) /\ toPcb # <<>> BY <1>1, <2>2, DisturbedFacts
    <3>2. conn # NoConn BY <3>1 DEF IInv, Fresh
    <3>3. PacketsSound(toPcb', peer, plan.in) BY <1>1, <3>1 DEF PacketsSound, OutOf
    <3> QED BY <1>1, <2>2, <3>1, <3>2, <3>3 DEF OutOf
  <2> QED BY <2>1, <2>2 DEF Disturb
<1>4. Types' BY <1>2, <1>3 DEF IInv, Types
<1>5. BoardOK(pcb, conn, peer, plan.in)' /\ PeerOK(peer, plan.in)' BY <1>2 DEF IInv
<1>6. PacketsSound(toPcb, peer, plan.in)' /\ EdgeOK(pcb, peer, toPeer)' BY <1>2, <1>3
<1>7. Fresh' BY <1>2, <1>3 DEF IInv, Fresh
<1> QED BY <1>4, <1>5, <1>6, <1>7 DEF IInv

-----------------------------------------------------------------------------
(* The inductive invariant.                                                  *)

LEMMA InitIInv == Init => IInv
<1> SUFFICES ASSUME Init PROVE IInv OBVIOUS
<1>1. /\ pcb = NoPcb /\ conn = NoConn /\ peer = Listening /\ toPeer = <<>> /\ toPcb = <<>>
      /\ plan \in Plans /\ faults = 0
  BY DEF Init
<1>2. plan.in \in Nat /\ plan.faults \in Nat BY <1>1, PlanFacts
<1>3. 0 \in 0..TCP_WND /\ 0 \in 0..PeerBuf /\ 0 \in Nat BY Windows
<1>4. <<>> \in Seq(Nat) /\ Len(<<>>) = 0 /\ <<>> \in Seq(Packets) OBVIOUS
<1>5. conn \in Conns BY <1>1, <1>3, <1>4 DEF Conns, NoConn
<1>6. peer \in Peers BY <1>1, <1>3, <1>4 DEF Peers, Listening
<1>7. Types BY <1>1, <1>2, <1>4, <1>5, <1>6, NoPcbFacts DEF Types
<1>8. /\ conn.given = <<>> /\ conn.eof = FALSE /\ conn.attached = FALSE /\ conn.op = "none"
      /\ conn.used = "none"
  BY <1>1 DEF NoConn
<1>9. BoardOK(pcb, conn, peer, plan.in)
  <2>1. StreamOK(conn, peer, plan.in) BY <1>4, <1>8 DEF StreamOK
  <2>2. CallOK(pcb, conn) BY <1>1, <1>8, NoPcbFacts DEF CallOK
  <2>3. "CLOSED" \notin Taking /\ "CLOSED" \notin Synchronized /\ "CLOSED" \notin Open
    BY DEF Taking, Synchronized, Open
  <2>4. pcb.state = "CLOSED" BY <1>1, NoPcbFacts
  <2>5. RcvOK(pcb, conn, peer, plan.in) BY <2>3, <2>4 DEF RcvOK
  <2> QED BY <1>1, <1>5, <2>1, <2>2, <2>3, <2>4, <2>5, NoPcbFacts DEF BoardOK
<1>10. PeerOK(peer, plan.in)
  <2>1. /\ peer.una = 0 /\ peer.nxt = 0 /\ peer.fin = FALSE /\ peer.edge = 0
        /\ peer.state = "listen"
    BY <1>1 DEF Listening
  <2>2. DataNxt(peer) = 0
    <3> DEFINE one == IF peer.fin THEN 1 ELSE 0
    <3>1. one = 0 BY <2>1
    <3>2. DataNxt(peer) = peer.nxt - one BY DEF DataNxt
    <3> HIDE DEF one
    <3> QED BY <2>1, <3>1, <3>2
  <2> QED BY <1>1, <1>2, <2>1, <2>2 DEF PeerOK
<1>11. PacketsSound(toPcb, peer, plan.in) BY <1>1, <1>4 DEF PacketsSound
<1>12. EdgeOK(pcb, peer, toPeer) BY <1>1, NoPcbFacts DEF EdgeOK
<1>13. Fresh BY <1>1 DEF Fresh
<1> QED BY <1>7, <1>9, <1>10, <1>11, <1>12, <1>13 DEF IInv

LEMMA StepIInv == IInv /\ [Next]_vars => IInv'
<1> SUFFICES ASSUME IInv, [Next]_vars PROVE IInv' OBVIOUS
<1>1. CASE Connect BY <1>1, ConnectStep
<1>2. CASE Write BY <1>2, WriteStep
<1>3. CASE Recv BY <1>3, RecvStep
<1>4. CASE Close BY <1>4, CloseStep
<1>5. CASE Input BY <1>5, InputStep
<1>6. CASE FastTimer BY <1>6, FastStep
<1>7. CASE \E due \in Times : SlowTimer(due) BY <1>7, SlowStep
<1>8. CASE PeerInput BY <1>8, PeerInputStep
<1>9. CASE PeerSend BY <1>9, SendStep
<1>10. CASE PeerProbe BY <1>10, ProbeStep
<1>11. CASE PeerRetransmit BY <1>11, RetransmitStep
<1>12. CASE PeerRead BY <1>12, ReadStep
<1>13. CASE PeerAbort BY <1>13, AbortStep
<1>14. CASE Disturb BY <1>14, DisturbStep
<1>15. CASE UNCHANGED vars
  <2>1. /\ pcb' = pcb /\ conn' = conn /\ peer' = peer /\ toPeer' = toPeer /\ toPcb' = toPcb
        /\ plan' = plan /\ faults' = faults
    BY <1>15 DEF vars
  <2>2. Types' BY <2>1 DEF IInv, Types
  <2>3. /\ BoardOK(pcb, conn, peer, plan.in)' /\ PeerOK(peer, plan.in)'
        /\ PacketsSound(toPcb, peer, plan.in)' /\ EdgeOK(pcb, peer, toPeer)'
    BY <2>1 DEF IInv
  <2>4. Fresh' BY <2>1 DEF IInv, Fresh
  <2> QED BY <2>2, <2>3, <2>4 DEF IInv
<1> QED BY <1>1, <1>2, <1>3, <1>4, <1>5, <1>6, <1>7, <1>8, <1>9, <1>10, <1>11, <1>12, <1>13,
           <1>14, <1>15 DEF Next

-----------------------------------------------------------------------------
(* What it implies.                                                          *)

LEMMA IInvWindows == IInv => WindowHeld /\ RoomHeld
<1> SUFFICES ASSUME IInv PROVE WindowHeld /\ RoomHeld OBVIOUS
<1>1. /\ RcvOK(pcb, conn, peer, plan.in) /\ pcb \in Pcbs
      /\ pcb.state \in Synchronized => SndOK(pcb)
  BY DEF IInv, BoardOK
<1>2. pcb.state \in Open => pcb.state \in Synchronized BY StateFacts
<1>3. WindowHeld
  <2>1. (pcb.state \in Open /\ ~conn.eof) =>
          pcb.rcv_ann_right_edge <= pcb.rcv_nxt + pcb.rcv_wnd
    BY <1>1, <1>2 DEF RcvOK, AnnOK, Right
  <2>2. (pcb.state \in Open /\ ~pcb.RXCLOSED) => pcb.rcv_wnd = TCP_WND - conn.unread
    BY <1>1 DEF RcvOK
  <2> QED BY <2>1, <2>2 DEF WindowHeld
<1>4. RoomHeld BY <1>1, <1>2 DEF RoomHeld, SndOK, Top
<1> QED BY <1>3, <1>4

LEMMA IInvTypes == IInv => TypeOK
<1> SUFFICES ASSUME IInv PROVE TypeOK OBVIOUS
<1>1. /\ pcb \in Pcbs /\ conn \in Conns /\ peer \in Peers /\ plan \in Plans
      /\ faults \in 0..plan.faults
      /\ pcb.state = "CLOSED" => pcb = NoPcb
      /\ pcb.state = "SYN_SENT" => SynOK(pcb)
      /\ pcb.state \in Synchronized => SndOK(pcb)
      /\ RcvOK(pcb, conn, peer, plan.in)
  BY DEF IInv, Types, BoardOK
<1>2. /\ pcb.state \in States /\ pcb.snd_buf \in Nat /\ pcb.snd_wnd \in 0..Max({PeerBuf, TCP_WND})
      /\ pcb.rcv_wnd \in Nat /\ pcb.rcv_ann_wnd \in Nat /\ pcb.cwnd \in {1, Mss, 2 * Mss}
      /\ pcb.dupacks \in 0..4 /\ pcb.nrtx \in Nat /\ pcb.snd_lbb \in Nat /\ pcb.lastack \in Nat
      /\ pcb.snd_nxt \in Nat
  BY <1>1 DEF Pcbs
<1>3. /\ conn.op \in {"none", "connect", "write", "close"} /\ conn.unread \in 0..TCP_WND
      /\ peer.state \in {"listen", "open", "dead"} /\ peer.unread \in 0..PeerBuf
  BY <1>1 DEF Conns, Peers
<1>4. pcb.state \in Open \cup {"CLOSED", "SYN_SENT", "TIME_WAIT"} BY <1>2 DEF States
<1>5. /\ pcb.snd_buf <= TCP_SND_BUF + 1 /\ pcb.rcv_wnd <= TCP_WND
      /\ pcb.rcv_ann_wnd <= TCP_WND \/ (conn.eof /\ pcb.rcv_ann_wnd = Wide)
  <2>1. CASE pcb.state = "CLOSED"
    <3>1. /\ pcb.snd_buf = TCP_SND_BUF /\ pcb.rcv_wnd = TCP_WND /\ pcb.rcv_ann_wnd = TCP_WND
      BY <1>1, <2>1 DEF NoPcb
    <3> QED BY <3>1, Windows
  <2>2. CASE pcb.state = "SYN_SENT"
    <3>1. /\ pcb.snd_buf = TCP_SND_BUF - 1 /\ pcb.rcv_wnd = TCP_WND
          /\ pcb.rcv_ann_wnd = TCP_WND
      BY <1>1, <2>2 DEF SynOK
    <3> QED BY <3>1, Windows
  <2>3. CASE pcb.state \in Synchronized
    <3>1. pcb.snd_buf <= TCP_SND_BUF + 1
      <4> PICK l \in Nat, a \in Nat, x \in Nat :
            l = pcb.snd_lbb /\ a = pcb.lastack /\ x = pcb.snd_nxt
        BY <1>2
      <4>1. a <= x /\ x <= Top(pcb) /\ pcb.snd_buf = TCP_SND_BUF - (l - a)
        BY <1>1, <2>3 DEF SndOK
      <4>2. Top(pcb) \in {l, l + 1} BY DEF Top
      <4>3. a <= l + 1 BY <4>1, <4>2
      <4> QED BY <4>1, <4>3, Windows
    <3>2. pcb.rcv_wnd <= TCP_WND /\ AnnOK(pcb, conn.eof) BY <1>1, <2>3 DEF RcvOK
    <3>3. pcb.rcv_ann_wnd <= TCP_WND \/ (conn.eof /\ pcb.rcv_ann_wnd = Wide)
      BY <1>2, <3>2, Windows DEF AnnOK
    <3> QED BY <3>1, <3>2, <3>3
  <2> QED BY <1>2, <2>1, <2>2, <2>3, StateFacts
<1>6. /\ pcb.snd_buf \in 0..TCP_SND_BUF + 1 /\ pcb.rcv_wnd \in 0..TCP_WND
      /\ pcb.rcv_ann_wnd \in 0..TCP_WND \/ (conn.eof /\ pcb.rcv_ann_wnd = Wide)
  BY <1>2, <1>5, Windows
<1>7. /\ pcb.state \in Open \cup {"CLOSED", "SYN_SENT", "TIME_WAIT"}
      /\ pcb.snd_buf \in 0..TCP_SND_BUF + 1 /\ pcb.snd_wnd \in 0..Max({PeerBuf, TCP_WND})
      /\ pcb.rcv_wnd \in 0..TCP_WND
  BY <1>2, <1>4, <1>6, Zenon
<1>8. pcb.rcv_ann_wnd \in 0..TCP_WND \/ (conn.eof /\ pcb.rcv_ann_wnd = 65535)
  <2>1. Wide = 65535 BY DEF Wide
  <2> HIDE DEF Wide
  <2>2. CASE pcb.rcv_ann_wnd \in 0..TCP_WND BY <2>2, SMT
  <2>3. CASE conn.eof /\ pcb.rcv_ann_wnd = Wide BY <2>1, <2>3, SMT
  <2> QED BY <1>6, <2>2, <2>3, SMT
<1>9. plan \in Plans /\ faults \in 0..plan.faults BY <1>1, Zenon
<1> HIDE DEF Wide
<1> QED BY <1>2, <1>3, <1>7, <1>8, <1>9, SMT DEF TypeOK

LEMMA IInvReceived == IInv => ReceivedWhole
<1> SUFFICES ASSUME IInv PROVE ReceivedWhole OBVIOUS
<1>1. StreamOK(conn, peer, plan.in) /\ conn \in Conns /\ peer \in Peers
  BY DEF IInv, BoardOK, Types
<1>2. Len(conn.given) \in Nat /\ peer.nxt \in Nat BY <1>1 DEF Conns, Peers
<1>3. Len(conn.given) < Max({peer.nxt, 1})
  <2>1. Max({peer.nxt, 1}) = IF peer.nxt <= 1 THEN 1 ELSE peer.nxt BY <1>2, MaxOfTwo
  <2>2. Len(conn.given) = 0 \/ Len(conn.given) < peer.nxt BY <1>1 DEF StreamOK
  <2> QED BY <1>2, <2>1, <2>2
<1> QED BY <1>1, <1>3 DEF ReceivedWhole, StreamOK

-----------------------------------------------------------------------------
(* The theorems.                                                             *)

\* In every step of the connection the block, the netconn, the peer and what
\* is under way fit together (tcp_input, tcp_slowtmr, do_writemore, do_close).
THEOREM TcpInvariant == Spec => []IInv
BY InitIInv, StepIInv, PTL DEF Spec

\* The control block keeps its types, the window announced can be taken, what
\* can be taken is what the application has still to read, and the send buffer
\* has the room that is left (tcp_receive, tcp_recved, tcp_write, tcp_process).
THEOREM PcbHolds == Spec => []PcbSound
<1>1. IInv => PcbSound BY IInvTypes, IInvWindows DEF PcbSound
<1> QED BY <1>1, TcpInvariant, PTL

\* The application gets what the peer has sent, in order and once, and the
\* end of the stream after all of it (tcp_receive, recv_tcp).
THEOREM WholeReceived == Spec => []ReceivedWhole
BY IInvReceived, TcpInvariant, PTL

\* No segment but the one with the peer's FIN gives back, under tcp_input, the
\* block of a close that waits (sent_tcp, do_close_internal, tcp_close).
THEOREM FreedByFinOnly == Spec => []FreedOnlyByFin
<1>1. IInv => FreedOnlyByFin BY DEF IInv, BoardOK, CallOK, FreedOnlyByFin
<1> QED BY <1>1, TcpInvariant, PTL
=============================================================================
