----------------------------- MODULE TcpSegments -----------------------------
(* Segments of lwIP's TCP and the queues it keeps them on: pcb->unsent,      *)
(* pcb->unacked and pcb->ooseq (tcp.h).  A segment is its first sequence     *)
(* number, its units of data (a unit stands for the bytes one call of        *)
(* tcp_write brings) and its SYN and FIN flags.  The 32-bit sequence space   *)
(* is the integers: a connection of this model is far shorter than 2^31.     *)
EXTENDS Integers, Sequences, FiniteSets, SequencesExt

Seg(seq, data, syn, fin) == [seq |-> seq, data |-> data, syn |-> syn, fin |-> fin]

\* The sequence numbers a segment takes.
TCPLEN(s) == Len(s.data) + (IF s.syn \/ s.fin THEN 1 ELSE 0)

DataEnd(s) == s.seq + Len(s.data)
End(s) == s.seq + TCPLEN(s)

\* Wrong variant: the number moves on, the data stay.
Renumbered(s, from) == [s EXCEPT !.seq = from]

\* Without the units before, or from, a sequence number.
TrimFront(s, from) == [s EXCEPT !.seq = from,
                                !.data = SubSeq(@, from - s.seq + 1, Len(@))]
TrimEnd(s, to) == [s EXCEPT !.data = SubSeq(@, 1, to - s.seq)]

\* How many elements of a queue of n a loop takes that stops at the first
\* index outside S.
Run(S, n) == CHOOSE k \in 0..n : 1..k \subseteq S /\ (k < n => k + 1 \notin S)

After(q, k) == SubSeq(q, k + 1, Len(q))

\* The loops of tcp_receive that free what an acknowledgement covers.
FreeUpTo(q, ackno) == After(q, Run({i \in 1..Len(q) : End(q[i]) <= ackno}, Len(q)))

\* A segment enters a queue in front of the first one that is not before it.
InsertSorted(q, s) ==
  InsertAt(q, Run({i \in 1..Len(q) : q[i].seq < s.seq}, Len(q)) + 1, s)

\* Wrong variant: a segment sent again goes to the end.
PlaceLast(q, s) == Append(q, s)

\* A segment just sent enters unacked: at the end, or where it belongs.
Place(q, s) == IF q # <<>> /\ s.seq < Last(q).seq THEN InsertSorted(q, s)
                                                 ELSE Append(q, s)

\* A new segment before a queue of later ones: it takes the place of those it
\* covers, with their FIN, and loses what overlaps the first that stays.
Covered(c, next) == Run({i \in 1..Len(next) : DataEnd(next[i]) <= DataEnd(c)}, Len(next))
InFront(c, left) ==
  IF left # <<>> /\ left[1].seq < DataEnd(c) THEN <<TrimEnd(c, left[1].seq)>> \o left
                                              ELSE <<c>> \o left
InPlaceOf(c, next, k) ==
  InFront([c EXCEPT !.fin = \E i \in 1..k : next[i].fin], After(next, k))
InsertOver(c, next) == IF c.fin THEN <<c>> ELSE InPlaceOf(c, next, Covered(c, next))

\* How many segments at the head of a queue follow each other without a gap.
InSequence(q) == Run({i \in 1..Len(q) : i = 1 \/ End(q[i - 1]) = q[i].seq}, Len(q))

DataOf(q) == FlattenSeq([i \in 1..Len(q) |-> q[i].data])

\* The ordering of the queues that tcp.h states.
Ordered(q) == \A i \in 1..Len(q) - 1 : q[i].seq < q[i + 1].seq
==============================================================================
