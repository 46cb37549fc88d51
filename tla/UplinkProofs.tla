---- MODULE UplinkProofs ----
(***************************************************************************)
(* What holds of the upload for every number of queues, every mailbox,     *)
(* window and send buffer, and however often an allocation fails.          *)
(***************************************************************************)
EXTENDS Uplink, FiniteSetTheorems, SequenceTheorems, TLAPS

----
(* The inductive invariant.                                                *)

ConnType == [state : {"none", "connect", "write", "close"}, fatal : BOOLEAN,
             cur : BOOLEAN, off : 0..Cells - 1, sem : 0..1, box : BOOLEAN,
             q : Seq({"data", "nil"}), late : BOOLEAN, torn : BOOLEAN]
PcbType == [st : {"closed", "synsent", "est", "closewait"}, recv : BOOLEAN,
            unacked : 0..SndBuf, held : 0..Wnd]

(* A connection and its mailbox, as api_lib.c and api_msg.c leave them.      *)
ConnOK(c) == c \in ConnType /\ Len(c.q) <= BoxSize

(* Where the client is tells whether there is a connection and a call, and   *)
(* there is a pcb only while there is a connection.                          *)
PlaceInv ==
    /\ at = "new" <=> conn = NoConn
    /\ HasConn <=> at # "new"
    /\ at \in {"new", "token", "fetch"} => ~waits
    /\ at = "newconn" => waits
    /\ conn.state = "connect" => at = "connect"
    /\ conn.state = "write" => at = "write"
    /\ conn.state = "close" => at \in {"close", "delconn"}
    /\ HasPcb => HasConn
    /\ ~HasPcb => pcb = NoPcb

(* A pcb that waits for the peer's SYN belongs to a connect under way, and   *)
(* one that could not be allocated is not there.                             *)
ConnectInv ==
    /\ pcb.st = "synsent" => at = "connect" /\ conn.state = "connect"
    /\ at = "newconn" /\ res = "err" => ~HasPcb

(* The mailbox lives from netconn_new to the drain, and its queue is free or *)
(* the mailbox's.                                                            *)
QueueInv ==
    /\ HasConn => conn.box \/ at \in {"close", "delconn"}
    /\ HasConn /\ conn.box => queues < MaxQs

(* A write that goes on has not taken all at once.                           *)
LateInv == HasConn /\ conn.state = "write" => conn.late

(* A deletion has drained the mailbox, or found it full, from its first step.*)
DeleteInv == at = "delconn" /\ waits =>
    (conn.box => Len(conn.q) = BoxSize) /\ (conn.sem = 1 => ~HasPcb)

IInv == /\ TypeOK /\ StartsClean /\ OneAnswer /\ WindowReturned /\ SamplesWhole
        /\ PlaceInv /\ ConnectInv /\ QueueInv /\ LateInv /\ DeleteInv

----
(* Data in a mailbox are counted one by one.                               *)

Items == {"data", "nil"}

LEMMA DataFinite ==
  ASSUME NEW q \in Seq(Items)
  PROVE  IsFiniteSet(DataIn(q)) /\ Cardinality(DataIn(q)) \in Nat
<1>1. DataIn(q) \subseteq 1..Len(q) BY DEF DataIn
<1>2. IsFiniteSet(1..Len(q)) BY FS_Interval
<1>3. IsFiniteSet(DataIn(q)) BY <1>1, <1>2, FS_Subset
<1> QED BY <1>3, FS_CardinalityType

LEMMA DataInEmpty == Cardinality(DataIn(<<>>)) = 0
<1>1. DataIn(<<>>) = {} BY DEF DataIn
<1> QED BY <1>1, FS_EmptySet

LEMMA DataAppended ==
  ASSUME NEW q \in Seq(Items), NEW x \in Items
  PROVE  /\ x = "data" => Cardinality(DataIn(Append(q, x))) = Cardinality(DataIn(q)) + 1
         /\ x = "nil" => Cardinality(DataIn(Append(q, x))) = Cardinality(DataIn(q))
<1> PICK n : n = Len(q) + 1 OBVIOUS
<1>1. /\ DOMAIN Append(q, x) = DOMAIN q \cup {n} /\ n \notin DOMAIN q
      /\ Append(q, x)[n] = x /\ \A i \in DOMAIN q : Append(q, x)[i] = q[i]
  OBVIOUS
<1>2. CASE x = "data"
  <2>1. DataIn(Append(q, x)) = DataIn(q) \cup {n} BY <1>1, <1>2 DEF DataIn
  <2>2. n \notin DataIn(q) BY <1>1 DEF DataIn
  <2> QED BY <1>2, <2>1, <2>2, DataFinite, FS_AddElement
<1>3. CASE x = "nil"
  <2>1. DataIn(Append(q, x)) = DataIn(q) BY <1>1, <1>3 DEF DataIn
  <2> QED BY <1>3, <2>1
<1> QED BY <1>2, <1>3 DEF Items

LEMMA DataTaken ==
  ASSUME NEW q \in Seq(Items), q # <<>>
  PROVE  /\ Head(q) = "data" => Cardinality(DataIn(q)) = Cardinality(DataIn(Tail(q))) + 1
         /\ Head(q) = "nil" => Cardinality(DataIn(q)) = Cardinality(DataIn(Tail(q)))
<1> DEFINE S == DataIn(q) \ {1}
           f == [i \in S |-> i - 1]
<1>1. /\ Len(q) \in Nat /\ Len(q) > 0 /\ DOMAIN q = 1..Len(q)
      /\ DOMAIN Tail(q) = 1..Len(q) - 1 /\ \A i \in 1..Len(q) - 1 : Tail(q)[i] = q[i + 1]
      /\ Head(q) = q[1]
  OBVIOUS
<1>2. \A i \in S : i \in 2..Len(q) /\ q[i] = "data" BY <1>1 DEF DataIn
<1>3. \A i \in S : f[i] \in DataIn(Tail(q)) /\ f[i] = i - 1 BY <1>1, <1>2 DEF DataIn
<1>4. \A j \in DataIn(Tail(q)) : j \in Nat /\ j + 1 \in S BY <1>1 DEF DataIn
<1>5. f \in Bijection(S, DataIn(Tail(q)))
  <2>1. f \in [S -> DataIn(Tail(q))] BY <1>3
  <2>2. \A i, j \in S : f[i] = f[j] => i = j BY <1>2, <1>3
  <2>3. \A j \in DataIn(Tail(q)) : \E i \in S : f[i] = j
    <3> TAKE j \in DataIn(Tail(q))
    <3>1. j + 1 \in S /\ f[j + 1] = j BY <1>4
    <3> QED BY <3>1
  <2> QED BY <2>1, <2>2, <2>3 DEF Bijection, Injection, Surjection, IsInjective
<1>6. IsFiniteSet(S) /\ Cardinality(S) \in Nat
  BY DataFinite, FS_Subset, FS_CardinalityType, S \subseteq DataIn(q)
<1>7. ExistsBijection(S, DataIn(Tail(q))) BY <1>5 DEF ExistsBijection
<1>8. Cardinality(DataIn(Tail(q))) = Cardinality(S)
  BY <1>6, <1>7, FS_Bijection
<1>9. CASE Head(q) = "data"
  <2>1. DataIn(q) = S \cup {1} /\ 1 \notin S BY <1>1, <1>9 DEF DataIn
  <2> HIDE DEF S
  <2>2. Cardinality(S \cup {1}) = Cardinality(S) + 1 BY <1>6, <2>1, FS_AddElement
  <2> QED BY <1>8, <1>9, <2>1, <2>2
<1>10. CASE Head(q) = "nil"
  <2>1. DataIn(q) = S BY <1>1, <1>10 DEF DataIn
  <2> QED BY <1>8, <1>10, <2>1
<1>11. Head(q) \in Items BY <1>1
<1> QED BY <1>9, <1>10, <1>11 DEF Items

----
(* What the handlers do to a connection.                                   *)

(* d is c as far as its mailbox and the marks of its write go. *)
SameMail(c, d) == d.box = c.box /\ d.q = c.q /\ d.fatal = c.fatal
SameWrite(c, d) == d.off = c.off /\ d.late = c.late /\ d.torn = c.torn
SameCall(c, d) == d.state = c.state /\ d.cur = c.cur /\ d.sem = c.sem

LEMMA SignalledConn ==
  ASSUME NEW c, ConnOK(c), c.sem = 0
  PROVE  /\ ConnOK(Signalled(c)) /\ Signalled(c).sem = 1
         /\ Signalled(c).state = c.state /\ Signalled(c).cur = c.cur
         /\ SameMail(c, Signalled(c)) /\ SameWrite(c, Signalled(c))
BY DEF ConnOK, ConnType, Signalled, SameMail, SameWrite, Cells

LEMMA FinishedConn ==
  ASSUME NEW c, ConnOK(c), c.sem = 0
  PROVE  /\ ConnOK(Finished(c)) /\ Finished(c).sem = 1
         /\ Finished(c).state = "none" /\ Finished(c).cur = FALSE
         /\ SameMail(c, Finished(c)) /\ SameWrite(c, Finished(c))
<1> DEFINE d == [c EXCEPT !.cur = FALSE, !.state = "none"]
<1>1. /\ ConnOK(d) /\ d.sem = 0 /\ d.state = "none" /\ d.cur = FALSE
      /\ SameMail(c, d) /\ SameWrite(c, d)
  BY DEF ConnOK, ConnType, SameMail, SameWrite
<1>2. Finished(c) = Signalled(d) BY DEF Finished
<1> HIDE DEF d
<1> QED BY <1>1, <1>2, SignalledConn DEF SameMail, SameWrite

LEMMA BegunConn ==
  ASSUME NEW c, ConnOK(c), NEW s \in {"connect", "write", "close"}
  PROVE  /\ ConnOK(Begun(c, s)) /\ Begun(c, s).sem = c.sem
         /\ Begun(c, s).state = s /\ Begun(c, s).cur = TRUE
         /\ SameMail(c, Begun(c, s)) /\ SameWrite(c, Begun(c, s))
BY DEF ConnOK, ConnType, Begun, SameMail, SameWrite

LEMMA QueuedConn ==
  ASSUME NEW c, ConnOK(c), NEW x \in Items
  PROVE  /\ ConnOK(Queued(c, x)) /\ SameWrite(c, Queued(c, x)) /\ SameCall(c, Queued(c, x))
         /\ Queued(c, x).box = c.box /\ Queued(c, x).fatal = c.fatal
         /\ IF Valid(c) THEN Queued(c, x).q = Append(c.q, x) ELSE Queued(c, x).q = c.q
<1>1. CASE Valid(c)
  <2> PICK r : r = Append(c.q, x) OBVIOUS
  <2>1. r \in Seq(Items) /\ Len(r) <= BoxSize
    BY <1>1, SizeAssumption DEF ConnOK, ConnType, Valid, Items
  <2>2. Queued(c, x) = [c EXCEPT !.q = r] BY <1>1 DEF Queued
  <2> QED BY <1>1, <2>1, <2>2 DEF ConnOK, ConnType, SameWrite, SameCall, Items
<1>2. CASE ~Valid(c) BY <1>2 DEF Queued, SameWrite, SameCall
<1> QED BY <1>1, <1>2

LEMMA DrainedConn ==
  ASSUME NEW c, ConnOK(c)
  PROVE  /\ ConnOK(Drained(c)) /\ SameWrite(c, Drained(c)) /\ SameCall(c, Drained(c))
         /\ Drained(c).fatal = c.fatal
         /\ IF Valid(c) THEN Drained(c).q = <<>> /\ Drained(c).box = FALSE ELSE Drained(c) = c
         /\ Drained(c).box => Len(Drained(c).q) = BoxSize
<1>1. CASE Valid(c)
  <2> PICK e : e = <<>> OBVIOUS
  <2> DEFINE d == [c EXCEPT !.q = e, !.box = FALSE]
  <2>1. Drained(c) = d BY <1>1 DEF Drained
  <2>2. e \in Seq({"data", "nil"}) /\ Len(e) = 0 BY EmptySeq
  <2>3. d \in ConnType /\ d.q = e /\ d.box = FALSE
    BY <2>2 DEF ConnOK, ConnType
  <2>4. SameWrite(c, d) /\ SameCall(c, d) /\ d.fatal = c.fatal
    BY DEF ConnOK, ConnType, SameWrite, SameCall
  <2>5. BoxSize \in Nat BY SizeAssumption
  <2> HIDE DEF d
  <2> QED BY <1>1, <2>1, <2>2, <2>3, <2>4, <2>5 DEF ConnOK
<1>2. CASE ~Valid(c)
  BY <1>2, SizeAssumption DEF Drained, ConnOK, ConnType, Valid, SameWrite, SameCall
<1> QED BY <1>1, <1>2

----
(* Every step keeps the invariant.                                         *)

(* The types, part by part. *)
TaskTypes == /\ mybox \in {"none", "empty", "full"} /\ adc \in {"delay", "mid"}
             /\ changed \subseteq Samples /\ faults \in 0..MaxFaults
ClientTypes == /\ at \in Calls \cup {"new", "token", "fetch"} /\ waits \in BOOLEAN
               /\ res \in {"ok", "err"} /\ hand \in Items
ConnTypes == /\ HasConn => ConnOK(conn)
             /\ HasPcb => pcb \in PcbType
             /\ queues \in 0..MaxQs

LEMMA TypeParts ==
    /\ TypeOK <=> TaskTypes /\ ClientTypes /\ ConnTypes
    /\ (TaskTypes /\ ClientTypes /\ ConnTypes)' => TypeOK'
BY DEF TypeOK, TaskTypes, ClientTypes, ConnTypes, ConnOK, ConnType, PcbType, Items

LEMMA Typed ==
  ASSUME IInv
  PROVE  TaskTypes /\ ClientTypes /\ ConnTypes /\ (HasPcb => HasConn)
BY TypeParts DEF IInv, PlaceInv

LEMMA NewConnOK == ConnOK(NewConn) /\ NewConn.sem = 0
<1> PICK e : e = <<>> OBVIOUS
<1>1. e \in Seq({"data", "nil"}) /\ Len(e) = 0 BY EmptySeq
<1>2. BoxSize \in Nat BY SizeAssumption
<1> QED BY <1>1, <1>2 DEF NewConn, ConnOK, ConnType, Cells

LEMMA NewStep == IInv /\ netconn_new => IInv'
<1> SUFFICES ASSUME IInv, netconn_new PROVE IInv' OBVIOUS
<1>1. CASE UNCHANGED vars
  BY <1>1 DEF IInv, vars, TypeOK, StartsClean, OneAnswer, WindowReturned, SamplesWhole,
              PlaceInv, ConnectInv, QueueInv, LateInv, DeleteInv, HasConn, HasPcb, OpInProgress
<1>2. CASE /\ queues > 0 /\ queues' = queues - 1 /\ at' = "newconn" /\ waits' = TRUE
           /\ do_newconn(NewConn) /\ UNCHANGED <<hand, tasks>>
  <2>1. /\ at' = "newconn" /\ waits' = TRUE /\ hand' = hand /\ queues' = queues - 1 /\ queues > 0
        /\ mybox' = mybox /\ adc' = adc /\ changed' = changed
    BY <1>2 DEF tasks
  <2>2. conn' = Signalled(NewConn) BY <1>2 DEF do_newconn, Answer
  <2>3. \/ res' = "ok" /\ pcb' = NewPcb /\ faults' = faults
        \/ res' = "err" /\ pcb' = NoPcb /\ faults' = faults + 1 /\ faults < MaxFaults
    BY <1>2 DEF do_newconn, Answer, Fault, NoFault
  <2>4. /\ NewConn.state = "none" /\ NewConn.cur = FALSE /\ NewConn.off = 0
        /\ NewConn.box = TRUE /\ NewConn.q = <<>> /\ NewConn.torn = FALSE
    BY DEF NewConn
  <2>5. /\ ConnOK(conn') /\ conn'.sem = 1 /\ conn'.state = "none" /\ conn'.cur = FALSE
        /\ conn'.off = 0 /\ conn'.box = TRUE /\ conn'.q = <<>> /\ conn'.torn = FALSE
    BY <2>2, <2>4, NewConnOK, SignalledConn DEF SameMail, SameWrite
  <2>6. /\ NewPcb \in PcbType /\ NewPcb.held = 0 /\ NewPcb.st = "closed"
        /\ NoPcb.st = "free" /\ NoConn.state = "free"
    BY SizeAssumption DEF NewPcb, PcbType, NoPcb, NoConn
  <2>7. (TaskTypes /\ ClientTypes /\ ConnTypes)'
    BY <2>1, <2>3, <2>5, <2>6, Typed, SizeAssumption
       DEF TaskTypes, ClientTypes, ConnTypes, HasConn, HasPcb, Calls
  <2>8. StartsClean' /\ OneAnswer' /\ SamplesWhole'
    BY <2>1, <2>3, <2>5, <2>6 DEF StartsClean, OneAnswer, SamplesWhole, OpInProgress, HasConn, HasPcb, Cells
  <2>9. WindowReturned' BY <2>1, <2>3, <2>5, <2>6, DataInEmpty DEF WindowReturned, HasPcb
  <2>10. PlaceInv' /\ ConnectInv' /\ QueueInv' /\ LateInv' /\ DeleteInv'
    BY <2>1, <2>3, <2>5, <2>6, Typed, SizeAssumption
       DEF ConnTypes, PlaceInv, ConnectInv, QueueInv, LateInv, DeleteInv, HasConn, HasPcb
  <2> QED BY <2>7, <2>8, <2>9, <2>10, TypeParts DEF IInv
<1> QED BY <1>1, <1>2 DEF netconn_new

LEMMA TakenConn ==
  ASSUME NEW c, ConnOK(c), c.sem = 1
  PROVE  LET d == [c EXCEPT !.sem = @ - 1]
         IN  /\ ConnOK(d) /\ d.sem = 0 /\ d.state = c.state /\ d.cur = c.cur
             /\ SameMail(c, d) /\ SameWrite(c, d)
BY DEF ConnOK, ConnType, SameMail, SameWrite, Cells

(* Every call but the first and the last returns like this. *)
LEMMA ReturnStep ==
  ASSUME IInv, HasConn, waits, conn.sem > 0, waits' = FALSE, Quiet, TakeSem,
         UNCHANGED <<hand, queues>>,
         at' \in Calls \cup {"token", "fetch"}, at' \notin {"newconn", "recved"},
         conn.box \/ at' \in {"close", "delconn"}
  PROVE  IInv'
<1>1. /\ res' = res /\ pcb' = pcb /\ mybox' = mybox /\ adc' = adc /\ changed' = changed
      /\ faults' = faults /\ hand' = hand /\ queues' = queues
  BY DEF Quiet, tasks
<1>2. ConnOK(conn) /\ conn.sem = 1 BY Typed DEF ConnTypes, ConnOK, ConnType
<1>3. /\ ConnOK(conn') /\ conn'.sem = 0 /\ conn'.state = conn.state /\ conn'.cur = conn.cur
      /\ SameMail(conn, conn') /\ SameWrite(conn, conn')
  BY <1>2, TakenConn DEF TakeSem
<1>4. conn.cur = FALSE /\ ~OpInProgress(conn)
  BY <1>2 DEF IInv, OneAnswer, ConnOK, ConnType
<1>5. HasConn' /\ (HasPcb' <=> HasPcb) /\ NoConn.state = "free"
  BY <1>1, <1>3 DEF HasConn, HasPcb, NoConn
<1>6. (TaskTypes /\ ClientTypes /\ ConnTypes)'
  BY <1>1, <1>3, <1>5, Typed DEF TaskTypes, ClientTypes, ConnTypes
<1>7. StartsClean' /\ OneAnswer' /\ SamplesWhole'
  BY <1>1, <1>3, <1>4, <1>5
     DEF IInv, StartsClean, OneAnswer, SamplesWhole, OpInProgress, SameWrite
<1>8. WindowReturned' BY <1>1, <1>3, <1>5 DEF IInv, WindowReturned, SameMail
<1>9. PlaceInv' /\ DeleteInv'
  BY <1>1, <1>3, <1>4, <1>5 DEF IInv, PlaceInv, DeleteInv, HasConn, Calls, OpInProgress
<1>10. ConnectInv' /\ QueueInv' /\ LateInv'
  BY <1>1, <1>3, <1>4, <1>5
     DEF IInv, ConnectInv, QueueInv, LateInv, SameMail, SameWrite, OpInProgress
<1> QED BY <1>6, <1>7, <1>8, <1>9, <1>10, TypeParts DEF IInv

LEMMA NewconnReturnsStep == IInv /\ NewconnReturns => IInv'
<1> SUFFICES ASSUME IInv, NewconnReturns PROVE IInv' OBVIOUS
<1>1. /\ at = "newconn" /\ waits /\ conn.sem > 0 /\ waits' = FALSE /\ Quiet /\ hand' = hand
  BY DEF NewconnReturns, Returned
<1>2. HasConn /\ conn.box /\ conn.state # "free"
  BY <1>1 DEF IInv, PlaceInv, QueueInv, HasConn
<1>3. CASE res = "ok"
  <2>1. at' = "connect" /\ TakeSem /\ queues' = queues BY <1>3 DEF NewconnReturns
  <2> QED BY <1>1, <1>2, <2>1, ReturnStep DEF Calls
<1>4. CASE res # "ok"
  <2>1. at' = "new" /\ conn' = NoConn /\ queues' = queues + 1 BY <1>4 DEF NewconnReturns
  <2>2. res = "err" BY <1>4, Typed DEF ClientTypes
  <2>3. pcb = NoPcb /\ NoPcb.st = "free" /\ NoConn.state = "free"
    BY <1>1, <2>2 DEF IInv, ConnectInv, PlaceInv, NoPcb, NoConn
  <2>4. /\ res' = res /\ pcb' = pcb /\ mybox' = mybox /\ adc' = adc /\ changed' = changed
        /\ faults' = faults
    BY <1>1 DEF Quiet, tasks
  <2>5. queues < MaxQs BY <1>2 DEF IInv, QueueInv
  <2>6. (TaskTypes /\ ClientTypes /\ ConnTypes)'
    <3>1. queues' \in 0..MaxQs
      BY <2>1, <2>5, Typed, SizeAssumption DEF ConnTypes
    <3>2. ~HasConn' /\ ~HasPcb' BY <2>1, <2>3, <2>4 DEF HasConn, HasPcb
    <3> QED BY <1>1, <2>1, <2>4, <3>1, <3>2, Typed DEF TaskTypes, ClientTypes, ConnTypes
  <2> QED BY <1>1, <2>1, <2>3, <2>4, <2>6, TypeParts
          DEF IInv, StartsClean, OneAnswer, WindowReturned, SamplesWhole, PlaceInv,
              ConnectInv, QueueInv, LateInv, DeleteInv, HasConn, HasPcb
<1> QED BY <1>3, <1>4

LEMMA ReturnsStep ==
  ASSUME IInv, \/ ConnectReturns \/ GetaddrReturns \/ WriteReturns \/ RecvReturns \/ CloseReturns
  PROVE  IInv'
<1>1. /\ at \in {"connect", "getaddr", "write", "recved", "close"}
      /\ waits /\ conn.sem > 0 /\ waits' = FALSE /\ Quiet /\ TakeSem /\ UNCHANGED <<hand, queues>>
      /\ at' \in {"getaddr", "delconn", "token", "fetch", "close"}
      /\ at = "close" => at' = "delconn"
  BY DEF ConnectReturns, GetaddrReturns, WriteReturns, RecvReturns, CloseReturns, Returned
<1>2. HasConn /\ (conn.box \/ at' \in {"close", "delconn"})
  BY <1>1 DEF IInv, PlaceInv, QueueInv
<1> QED BY <1>1, <1>2, ReturnStep DEF Calls

LEMMA DeleteReturnsStep == IInv /\ DeleteReturns => IInv'
<1> SUFFICES ASSUME IInv, DeleteReturns PROVE IInv' OBVIOUS
<1>1. /\ at = "delconn" /\ waits /\ conn.sem > 0 /\ waits' = FALSE /\ hand' = hand
      /\ at' = "new" /\ conn' = NoConn /\ queues' = queues
      /\ res' = res /\ pcb' = pcb /\ mybox' = mybox /\ adc' = adc /\ changed' = changed
      /\ faults' = faults
  BY DEF DeleteReturns, Returned, Quiet, tasks
<1>2. HasConn /\ ConnOK(conn) BY <1>1, Typed DEF ConnTypes, IInv, PlaceInv
<1>3. conn.sem = 1 BY <1>1, <1>2 DEF ConnOK, ConnType
<1>4. pcb = NoPcb /\ NoPcb.st = "free" /\ NoConn.state = "free"
  BY <1>1, <1>3 DEF IInv, DeleteInv, PlaceInv, NoPcb, NoConn
<1>5. (TaskTypes /\ ClientTypes /\ ConnTypes)'
  BY <1>1, <1>4, Typed DEF TaskTypes, ClientTypes, ConnTypes, HasConn, HasPcb
<1> QED BY <1>1, <1>4, <1>5, TypeParts
        DEF IInv, StartsClean, OneAnswer, WindowReturned, SamplesWhole, PlaceInv,
            ConnectInv, QueueInv, LateInv, DeleteInv, HasConn, HasPcb

----
(* Calls and events.                                                       *)

(* An answer or an event leaves the client where it is. *)
LEMMA Assembled ==
  ASSUME IInv, HasConn, at' = at, hand' = hand,
         waits' = waits \/ (waits' = TRUE /\ at \in Calls),
         res' \in {"ok", "err"}, ConnOK(conn'),
         pcb' = NoPcb \/ (HasPcb /\ pcb' \in PcbType),
         queues' \in 0..MaxQs, TaskTypes',
         conn'.state = "none" \/ conn'.state = conn.state
           \/ (conn'.state = "connect" /\ at = "connect") \/ (conn'.state = "write" /\ at = "write")
           \/ (conn'.state = "close" /\ at \in {"close", "delconn"}),
         StartsClean', OneAnswer', WindowReturned', SamplesWhole',
         ConnectInv', QueueInv', LateInv', DeleteInv'
  PROVE  IInv'
<1>1. /\ NoConn.state = "free" /\ conn'.state \in {"none", "connect", "write", "close"}
      /\ NoPcb.st = "free" /\ \A p \in PcbType : p.st \in {"closed", "synsent", "est", "closewait"}
  BY DEF NoConn, NoPcb, PcbType, ConnOK, ConnType
<1>2. HasConn' /\ conn' # NoConn BY <1>1 DEF HasConn
<1>3. pcb' = NoPcb \/ (HasPcb' /\ pcb' \in PcbType) BY <1>1 DEF HasPcb
<1>4. (TaskTypes /\ ClientTypes /\ ConnTypes)'
  <2>1. ClientTypes' BY Typed DEF ClientTypes
  <2>2. ConnTypes' BY <1>1, <1>2, <1>3 DEF ConnTypes, HasPcb
  <2> QED BY <2>1, <2>2
<1>5. PlaceInv'
  <2>1. waits' => at \in Calls \/ waits BY DEF Calls
  <2>2. at' # "new" /\ (at' \in {"token", "fetch"} => ~waits')
    BY DEF IInv, PlaceInv, Calls
  <2>3. at' = "newconn" => waits' BY DEF IInv, PlaceInv
  <2>4. /\ conn'.state = "connect" => at' = "connect"
        /\ conn'.state = "write" => at' = "write"
        /\ conn'.state = "close" => at' \in {"close", "delconn"}
    BY DEF IInv, PlaceInv
  <2> QED BY <1>1, <1>2, <1>3, <2>2, <2>3, <2>4 DEF PlaceInv, HasPcb
<1> QED BY <1>4, <1>5, TypeParts DEF IInv

(* While a call is under way there is nothing to take. *)
LEMMA Waiting ==
  ASSUME IInv, HasConn, OpInProgress(conn)
  PROVE  /\ waits = TRUE /\ conn.sem = 0 /\ conn.cur = TRUE /\ ConnOK(conn)
         /\ at \in {"connect", "write", "close", "delconn"}
<1>1. ConnOK(conn) BY Typed DEF ConnTypes
<1>2. conn.cur = TRUE BY <1>1 DEF IInv, OneAnswer, ConnOK, ConnType
<1>3. waits = TRUE /\ conn.sem = 0
  BY <1>1, <1>2, Typed DEF IInv, OneAnswer, ConnOK, ConnType, ClientTypes
<1> QED BY <1>1, <1>2, <1>3 DEF IInv, PlaceInv, OpInProgress

(* Before a call there is neither a message nor an answer. *)
LEMMA Idle ==
  ASSUME IInv, NEW call \in Calls, Makes(call)
  PROVE  /\ HasConn /\ ConnOK(conn) /\ conn.sem = 0 /\ conn.cur = FALSE /\ conn.state = "none"
         /\ at = call /\ call # "newconn" /\ waits = FALSE /\ waits' = TRUE /\ adc = "delay"
         /\ at' = at /\ hand' = hand /\ mybox' = mybox /\ adc' = adc
         /\ pcb.st = "synsent" => FALSE
<1>1. /\ at = call /\ waits = FALSE /\ waits' = TRUE /\ adc = "delay"
      /\ at' = at /\ hand' = hand /\ mybox' = mybox /\ adc' = adc
  BY Typed DEF Makes, ClientRuns, ClientTypes
<1>2. HasConn /\ call # "newconn" BY <1>1 DEF IInv, PlaceInv, Calls
<1>3. ConnOK(conn) BY <1>2, Typed DEF ConnTypes
<1>4. conn.sem = 0 /\ conn.cur = FALSE
  BY <1>1, <1>2, <1>3 DEF IInv, OneAnswer, ConnOK, ConnType
<1>5. conn.state = "none"
  BY <1>2, <1>3, <1>4 DEF IInv, OneAnswer, OpInProgress, ConnOK, ConnType
<1>6. pcb.st # "synsent" BY <1>5 DEF IInv, ConnectInv
<1> QED BY <1>1, <1>2, <1>3, <1>4, <1>5, <1>6

(* A call that is answered at once and leaves the pcb as it is. *)
LEMMA AnswerStep ==
  ASSUME IInv, NEW call \in Calls, Makes(call), conn' = Signalled(conn),
         res' \in {"ok", "err"}, pcb' = pcb, queues' = queues, TaskTypes',
         at = "delconn" => ~HasPcb /\ (conn.box => Len(conn.q) = BoxSize),
         at = "recved" /\ HasPcb => hand # "data"
  PROVE  IInv'
<1>1. /\ HasConn /\ ConnOK(conn) /\ conn.sem = 0 /\ conn.cur = FALSE /\ conn.state = "none"
      /\ at = call /\ call # "newconn" /\ waits = FALSE /\ waits' = TRUE /\ at' = at /\ hand' = hand
      /\ pcb.st # "synsent"
  BY Idle
<1>2. /\ ConnOK(conn') /\ conn'.sem = 1 /\ conn'.state = "none" /\ conn'.cur = FALSE
      /\ SameMail(conn, conn') /\ SameWrite(conn, conn')
  BY <1>1, SignalledConn
<1>3. HasConn' /\ (HasPcb' <=> HasPcb) BY <1>2 DEF HasConn, HasPcb
<1>4. pcb' = NoPcb \/ (HasPcb /\ pcb' \in PcbType)
  BY Typed DEF ConnTypes, IInv, PlaceInv
<1>5. StartsClean' /\ OneAnswer' /\ SamplesWhole'
  BY <1>1, <1>2, <1>3
     DEF IInv, StartsClean, OneAnswer, SamplesWhole, OpInProgress, SameWrite
<1>6. WindowReturned' BY <1>1, <1>2, <1>3 DEF IInv, WindowReturned, SameMail
<1>7. ConnectInv' /\ QueueInv' /\ LateInv' /\ DeleteInv'
  BY <1>1, <1>2, <1>3
     DEF IInv, ConnectInv, QueueInv, LateInv, DeleteInv, SameMail, SameWrite
<1>8. queues' \in 0..MaxQs BY Typed DEF ConnTypes
<1> HIDE DEF IInv
<1> QED BY <1>1, <1>2, <1>4, <1>5, <1>6, <1>7, <1>8, Assembled

LEMMA ConnectStep == IInv /\ netconn_connect => IInv'
<1> SUFFICES ASSUME IInv, netconn_connect PROVE IInv' OBVIOUS
<1>1. Makes("connect") /\ do_connect /\ queues' = queues /\ changed' = changed
  BY DEF netconn_connect
<1> PICK call \in Calls : call = "connect" BY DEF Calls
<1>2. /\ HasConn /\ ConnOK(conn) /\ conn.sem = 0 /\ conn.cur = FALSE /\ conn.state = "none"
      /\ at = "connect" /\ waits = FALSE /\ waits' = TRUE /\ at' = at /\ hand' = hand
      /\ mybox' = mybox /\ adc' = adc
  BY <1>1, Idle
<1>3. TaskTypes BY Typed
<1>4. CASE /\ conn' = Signalled(conn) /\ res' = "err" /\ pcb' = pcb
           /\ faults' = faults \/ (faults < MaxFaults /\ faults' = faults + 1)
  <2>1. TaskTypes' BY <1>1, <1>2, <1>3, <1>4, SizeAssumption DEF TaskTypes
  <2> QED BY <1>1, <1>2, <1>4, <2>1, AnswerStep
<1>5. CASE /\ HasPcb /\ conn' = Begun(conn, "connect") /\ pcb' = [pcb EXCEPT !.st = "synsent"]
           /\ faults' = faults /\ res' = res
  <2>1. /\ ConnOK(conn') /\ conn'.sem = 0 /\ conn'.state = "connect" /\ conn'.cur = TRUE
        /\ SameMail(conn, conn') /\ SameWrite(conn, conn')
    BY <1>2, <1>5, BegunConn
  <2>2. pcb' \in PcbType /\ pcb'.st = "synsent" /\ pcb'.held = pcb.held
    BY <1>5, Typed DEF ConnTypes, PcbType
  <2>3. HasConn' /\ HasPcb' BY <2>1, <2>2 DEF HasConn, HasPcb
  <2>4. StartsClean' /\ OneAnswer' /\ SamplesWhole'
    BY <1>2, <1>5, <2>1, <2>2, <2>3
       DEF IInv, StartsClean, OneAnswer, SamplesWhole, OpInProgress, SameWrite
  <2>5. WindowReturned' BY <1>2, <1>5, <2>1, <2>2, <2>3 DEF IInv, WindowReturned, SameMail
  <2>6. ConnectInv' /\ QueueInv' /\ LateInv' /\ DeleteInv'
    BY <1>1, <1>2, <2>1, <2>2, <2>3
       DEF IInv, ConnectInv, QueueInv, LateInv, DeleteInv, SameMail, SameWrite
  <2>7. queues' \in 0..MaxQs /\ res' \in {"ok", "err"} /\ TaskTypes'
    BY <1>1, <1>2, <1>3, <1>5, Typed DEF ConnTypes, ClientTypes, TaskTypes
  <2> HIDE DEF IInv
  <2> QED BY <1>2, <1>5, <2>1, <2>2, <2>4, <2>5, <2>6, <2>7, Assembled DEF Calls
<1> QED BY <1>1, <1>4, <1>5 DEF do_connect, Answer, NoFault, Fault

LEMMA GetaddrStep == IInv /\ netconn_getaddr => IInv'
<1> SUFFICES ASSUME IInv, netconn_getaddr PROVE IInv' OBVIOUS
<1>1. Makes("getaddr") /\ do_getaddr /\ queues' = queues /\ changed' = changed
  BY DEF netconn_getaddr
<1> PICK call \in Calls : call = "getaddr" BY DEF Calls
<1>2. at = "getaddr" /\ mybox' = mybox /\ adc' = adc BY <1>1, Idle
<1>3. /\ conn' = Signalled(conn) /\ res' \in {"ok", "err"} /\ pcb' = pcb /\ faults' = faults
  BY <1>1 DEF do_getaddr, Answer
<1>4. TaskTypes' BY <1>1, <1>2, <1>3, Typed DEF TaskTypes
<1> QED BY <1>1, <1>2, <1>3, <1>4, AnswerStep

LEMMA RecvedStep == IInv /\ netconn_recv => IInv'
<1> SUFFICES ASSUME IInv, netconn_recv PROVE IInv' OBVIOUS
<1>1. Makes("recved") /\ do_recv /\ queues' = queues /\ changed' = changed
  BY DEF netconn_recv
<1> PICK call \in Calls : call = "recved" BY DEF Calls
<1>2. /\ HasConn /\ ConnOK(conn) /\ conn.sem = 0 /\ conn.cur = FALSE /\ conn.state = "none"
      /\ at = "recved" /\ waits = FALSE /\ waits' = TRUE /\ at' = at /\ hand' = hand
      /\ mybox' = mybox /\ adc' = adc /\ pcb.st # "synsent"
  BY <1>1, Idle
<1>3. conn' = Signalled(conn) /\ res' = "ok" /\ faults' = faults
  BY <1>1 DEF do_recv, Answer, NoFault
<1>4. TaskTypes' BY <1>1, <1>2, <1>3, Typed DEF TaskTypes
<1>5. CASE ~(HasPcb /\ hand = "data")
  <2>1. pcb' = pcb BY <1>1, <1>5 DEF do_recv
  <2> QED BY <1>1, <1>2, <1>3, <1>4, <1>5, <2>1, AnswerStep
<1>6. CASE HasPcb /\ hand = "data"
  <2>1. pcb' = [pcb EXCEPT !.held = @ - 1] BY <1>1, <1>6 DEF do_recv
  <2>2. /\ ConnOK(conn') /\ conn'.sem = 1 /\ conn'.state = "none" /\ conn'.cur = FALSE
        /\ SameMail(conn, conn') /\ SameWrite(conn, conn')
    BY <1>2, <1>3, SignalledConn
  <2>3. pcb.held = Cardinality(DataIn(conn.q)) + 1 /\ Cardinality(DataIn(conn.q)) \in Nat
    BY <1>2, <1>6, DataFinite DEF IInv, WindowReturned, ConnOK, ConnType, Items
  <2>4. /\ pcb' \in PcbType /\ pcb'.st = pcb.st /\ pcb'.held = Cardinality(DataIn(conn.q))
    BY <1>6, <2>1, <2>3, Typed, SizeAssumption DEF ConnTypes, PcbType
  <2>5. HasConn' /\ HasPcb' BY <1>6, <2>2, <2>4 DEF HasConn, HasPcb
  <2>6. StartsClean' /\ OneAnswer' /\ SamplesWhole'
    BY <1>2, <1>6, <2>2, <2>5
       DEF IInv, StartsClean, OneAnswer, SamplesWhole, OpInProgress, SameWrite
  <2>7. WindowReturned' BY <1>2, <2>2, <2>3, <2>4 DEF WindowReturned, SameMail
  <2>8. ConnectInv' /\ QueueInv' /\ LateInv' /\ DeleteInv'
    BY <1>1, <1>2, <2>2, <2>4, <2>5
       DEF IInv, ConnectInv, QueueInv, LateInv, DeleteInv, SameMail, SameWrite
  <2>9. queues' \in 0..MaxQs BY <1>1, Typed DEF ConnTypes
  <2> HIDE DEF IInv
  <2> QED BY <1>2, <1>3, <1>4, <1>6, <2>2, <2>4, <2>6, <2>7, <2>8, <2>9, Assembled DEF Calls
<1> QED BY <1>5, <1>6

(* A write in the middle of its copy, when all of the upload may be taken.   *)
WideConn == [state : {"none", "connect", "write", "close"}, fatal : BOOLEAN,
             cur : BOOLEAN, off : Nat, sem : 0..1, box : BOOLEAN,
             q : Seq({"data", "nil"}), late : BOOLEAN, torn : BOOLEAN]

LEMMA OffsetMoved ==
  ASSUME NEW c, ConnOK(c), NEW o \in Nat
  PROVE  LET d == [c EXCEPT !.off = o]
         IN  /\ d \in WideConn /\ d.off = o /\ d.late = c.late /\ d.torn = c.torn
             /\ SameCall(c, d) /\ SameMail(c, d)
<1>1. c \in WideConn BY DEF ConnOK, ConnType, WideConn
<1> QED BY <1>1 DEF WideConn, SameCall, SameMail

LEMMA TornMarked ==
  ASSUME NEW c \in WideConn, NEW r \in BOOLEAN
  PROVE  LET d == [c EXCEPT !.torn = r]
         IN  /\ d \in WideConn /\ d.off = c.off /\ d.late = c.late /\ d.torn = r
             /\ SameCall(c, d) /\ SameMail(c, d)
BY DEF WideConn, SameCall, SameMail

LEMMA OffsetReset ==
  ASSUME NEW c \in WideConn, Len(c.q) <= BoxSize
  PROVE  LET d == [c EXCEPT !.off = 0]
         IN  /\ ConnOK(d) /\ d.off = 0 /\ d.late = c.late /\ d.torn = c.torn
             /\ SameCall(c, d) /\ SameMail(c, d)
BY DEF WideConn, ConnOK, ConnType, SameCall, SameMail, Cells

LEMMA LateMarked ==
  ASSUME NEW c \in WideConn
  PROVE  LET d == [c EXCEPT !.late = TRUE]
         IN  /\ d \in WideConn /\ d.off = c.off /\ d.late = TRUE /\ d.torn = c.torn
             /\ SameCall(c, d) /\ SameMail(c, d)
BY DEF WideConn, SameCall, SameMail

(* do_writemore, for a call or for an event that lets it go on. *)
LEMMA WritemoreStep ==
  ASSUME IInv, HasPcb, at = "write", at' = at, hand' = hand, waits' = TRUE,
         queues' = queues, mybox' = mybox, adc' = adc,
         NEW c, ConnOK(c), c.state = "write", c.cur = TRUE, c.sem = 0, SameMail(conn, c),
         (c.off = 0 /\ ~c.torn /\ adc = "delay") \/ c.late,
         NEW p \in PcbType, p.st = pcb.st, p.held = pcb.held,
         do_writemore(c, p)
  PROVE  IInv'
<1> PICK n : n = Copied(c, p) OBVIOUS
<1> PICK r : r = (c.torn \/ Torn(c.off, n)) OBVIOUS
<1>1. HasConn /\ pcb.st # "synsent" BY DEF IInv, PlaceInv, ConnectInv
<1>2. TaskTypes /\ res \in {"ok", "err"} /\ queues' \in 0..MaxQs
  BY Typed DEF ClientTypes, ConnTypes
<1>3. /\ c.off \in 0..Cells - 1 /\ p.unacked \in 0..SndBuf /\ SndBuf \in Nat /\ Cells = 4
      /\ c.torn \in BOOLEAN
  BY SizeAssumption DEF ConnOK, ConnType, PcbType, Cells
<1>4. n \in Nat /\ c.off + n <= Cells /\ p.unacked + n <= SndBuf
  BY <1>3 DEF Copied, Least
<1>5. r \in BOOLEAN /\ (r => c.late)
  <2>1. Torn(c.off, n) \in BOOLEAN BY Zenon DEF Torn
  <2>2. r \in BOOLEAN BY <1>3, <2>1
  <2>3. CASE c.late BY <2>2, <2>3
  <2>4. CASE c.off = 0 /\ ~c.torn /\ adc = "delay"
    <3>1. ~Torn(c.off, n)
      BY <1>4, <2>4 DEF Torn, High, Low, Samples, AdcSample
    <3> QED BY <2>4, <3>1
  <2> QED BY <2>3, <2>4
<1> PICK o \in Nat : o = c.off + n BY <1>3, <1>4
<1> PICK a : a = [c EXCEPT !.off = o] OBVIOUS
<1> PICK d : d = [a EXCEPT !.torn = r] OBVIOUS
<1> PICK z : z = [d EXCEPT !.off = 0] OBVIOUS
<1> PICK l : l = [d EXCEPT !.late = TRUE] OBVIOUS
<1>6. /\ a \in WideConn /\ a.off = c.off + n /\ a.late = c.late
      /\ SameCall(c, a) /\ SameMail(c, a)
  BY OffsetMoved
<1>7. /\ d \in WideConn /\ d.off = c.off + n /\ d.late = c.late /\ d.torn = r
      /\ SameCall(c, d) /\ SameMail(c, d) /\ Len(d.q) <= BoxSize
  <2>1. r \in BOOLEAN BY <1>5
  <2>2. /\ d \in WideConn /\ d.off = a.off /\ d.late = a.late /\ d.torn = r
        /\ SameCall(a, d) /\ SameMail(a, d)
    BY <1>6, <2>1, TornMarked
  <2> QED BY <1>6, <2>2 DEF SameCall, SameMail, ConnOK
<1>8. /\ \/ /\ c.off + n = Cells /\ conn' = Finished(z) /\ res' = "ok"
            /\ pcb' = [p EXCEPT !.unacked = @ + n] /\ faults' = faults
         \/ /\ c.off + n # Cells /\ conn' = l /\ res' = res
            /\ pcb' = [p EXCEPT !.unacked = @ + n] /\ faults' = faults
         \/ /\ conn' = [c EXCEPT !.late = TRUE] /\ res' = res /\ pcb' = p
            /\ faults < MaxFaults /\ faults' = faults + 1
      /\ changed' \in {changed, {}}
  BY <1>7 DEF do_writemore, Finish, NoFault, Fault
<1>9. /\ pcb' \in PcbType /\ pcb'.st = pcb.st /\ pcb'.held = pcb.held
  BY <1>3, <1>4, <1>8 DEF PcbType
<1>10. /\ ConnOK([c EXCEPT !.late = TRUE]) /\ SameCall(c, [c EXCEPT !.late = TRUE])
       /\ SameMail(c, [c EXCEPT !.late = TRUE]) /\ [c EXCEPT !.late = TRUE].late
       /\ [c EXCEPT !.late = TRUE].off = c.off
  BY DEF ConnOK, ConnType, SameCall, SameMail
<1>11. /\ ConnOK(conn') /\ SameMail(conn, conn') /\ (conn'.torn => conn'.late)
       /\ \/ conn'.state = "none" /\ conn'.cur = FALSE /\ conn'.sem = 1 /\ conn'.off = 0
          \/ conn'.state = "write" /\ conn'.cur = TRUE /\ conn'.sem = 0 /\ conn'.late
       /\ conn'.off < Cells
  <2>1. CASE c.off + n = Cells /\ conn' = Finished(z)
    <3>1. /\ ConnOK(z) /\ z.off = 0 /\ z.late = d.late /\ z.torn = d.torn
          /\ SameCall(d, z) /\ SameMail(d, z)
      BY <1>7, OffsetReset
    <3>2. z.sem = 0 /\ SameMail(c, z) BY <1>7, <3>1 DEF SameCall, SameMail
    <3>3. /\ ConnOK(conn') /\ conn'.sem = 1 /\ conn'.state = "none" /\ conn'.cur = FALSE
          /\ SameMail(z, conn') /\ SameWrite(z, conn')
      BY <2>1, <3>1, <3>2, FinishedConn
    <3>4. SameMail(conn, conn') BY <3>2, <3>3 DEF SameMail
    <3> QED BY <1>3, <1>5, <1>7, <3>1, <3>3, <3>4 DEF SameWrite
  <2>2. CASE c.off + n # Cells /\ conn' = l
    <3>1. /\ l \in WideConn /\ l.off = c.off + n /\ l.late = TRUE /\ l.torn = d.torn
          /\ SameCall(d, l) /\ SameMail(d, l)
      BY <1>7, LateMarked
    <3>2. l.off \in 0..Cells - 1 /\ Len(l.q) <= BoxSize
      BY <1>3, <1>4, <1>7, <2>2, <3>1 DEF SameMail
    <3>3. ConnOK(l) BY <3>1, <3>2 DEF WideConn, ConnOK, ConnType
    <3>4. SameMail(conn, l) /\ SameCall(c, l) BY <1>7, <3>1 DEF SameMail, SameCall
    <3> QED BY <1>3, <2>2, <3>1, <3>2, <3>3, <3>4 DEF SameCall
  <2>3. CASE conn' = [c EXCEPT !.late = TRUE]
    BY <1>3, <1>10, <2>3 DEF SameMail, SameCall
  <2> QED BY <1>8, <2>1, <2>2, <2>3
<1>12. TaskTypes' /\ res' \in {"ok", "err"}
  BY <1>2, <1>8, SizeAssumption DEF TaskTypes
<1>13. HasConn' /\ HasPcb' BY <1>9, <1>11 DEF HasConn, HasPcb
<1>14. StartsClean' /\ OneAnswer' /\ SamplesWhole'
  BY <1>11, <1>13 DEF StartsClean, OneAnswer, SamplesWhole, OpInProgress, Cells
<1>15. WindowReturned' BY <1>9, <1>11 DEF IInv, WindowReturned, SameMail
<1>16. ConnectInv' /\ QueueInv' /\ LateInv' /\ DeleteInv'
  BY <1>1, <1>9, <1>11, <1>13 DEF IInv, ConnectInv, QueueInv, LateInv, DeleteInv, SameMail
<1> HIDE DEF IInv
<1> QED BY <1>1, <1>2, <1>9, <1>11, <1>12, <1>14, <1>15, <1>16, Assembled DEF Calls

LEMMA WriteStep == IInv /\ netconn_write => IInv'
<1> SUFFICES ASSUME IInv, netconn_write PROVE IInv' OBVIOUS
<1>1. Makes("write") /\ do_write /\ queues' = queues BY DEF netconn_write
<1> PICK call \in Calls : call = "write" BY DEF Calls
<1>2. /\ HasConn /\ ConnOK(conn) /\ conn.sem = 0 /\ conn.cur = FALSE /\ conn.state = "none"
      /\ at = "write" /\ waits = FALSE /\ waits' = TRUE /\ at' = at /\ hand' = hand
      /\ mybox' = mybox /\ adc' = adc /\ adc = "delay" /\ pcb.st # "synsent"
  BY <1>1, Idle
<1>3. CASE conn.fatal \/ conn.state # "none" \/ ~HasPcb
  <2>1. /\ conn' = Signalled(conn) /\ res' = "err" /\ pcb' = pcb /\ changed' = changed
        /\ faults' = faults
    BY <1>1, <1>3 DEF do_write, Answer, NoFault
  <2>2. TaskTypes' BY <1>2, <2>1, Typed DEF TaskTypes
  <2> QED BY <1>1, <1>2, <2>1, <2>2, AnswerStep
<1>4. CASE ~(conn.fatal \/ conn.state # "none" \/ ~HasPcb)
  <2> PICK b : b = Begun(conn, "write") OBVIOUS
  <2> PICK c : c = [b EXCEPT !.off = 0, !.late = FALSE, !.torn = FALSE] OBVIOUS
  <2>1. do_writemore(c, pcb) BY <1>1, <1>4 DEF do_write
  <2>2. ConnOK(b) /\ b.sem = 0 /\ b.state = "write" /\ b.cur = TRUE /\ SameMail(conn, b)
    BY <1>2, BegunConn
  <2>3. /\ ConnOK(c) /\ c.sem = 0 /\ c.state = "write" /\ c.cur = TRUE /\ SameMail(conn, c)
        /\ c.off = 0 /\ c.torn = FALSE
    <3> PICK y : y = [b EXCEPT !.off = 0] OBVIOUS
    <3>1. /\ ConnOK(y) /\ y.sem = 0 /\ y.state = "write" /\ y.cur = TRUE /\ SameMail(conn, y)
          /\ y.off = 0
      BY <2>2 DEF ConnOK, ConnType, SameMail, Cells
    <3> PICK z : z = [y EXCEPT !.late = FALSE] OBVIOUS
    <3>2. /\ ConnOK(z) /\ z.sem = 0 /\ z.state = "write" /\ z.cur = TRUE /\ SameMail(conn, z)
          /\ z.off = 0
      BY <3>1 DEF ConnOK, ConnType, SameMail
    <3>3. c = [z EXCEPT !.torn = FALSE] OBVIOUS
    <3> QED BY <3>2, <3>3 DEF ConnOK, ConnType, SameMail
  <2>4. HasPcb /\ pcb \in PcbType BY <1>4, Typed DEF ConnTypes
  <2> QED BY <1>1, <1>2, <2>1, <2>3, <2>4, WritemoreStep
<1> QED BY <1>3, <1>4

(* tcp_close, for a call or for an event that lets it be tried again. *)
LEMMA CloseStep ==
  ASSUME IInv, HasPcb, at \in {"close", "delconn"}, at' = at, hand' = hand, waits' = TRUE,
         queues' \in 0..MaxQs, UNCHANGED tasks,
         NEW c, ConnOK(c), c.state = "close", c.cur = TRUE, c.sem = 0, SameWrite(conn, c),
         c.box => queues' < MaxQs,
         at = "delconn" /\ c.box => Len(c.q) = BoxSize,
         NEW p \in PcbType, p.st = pcb.st, p.held = Cardinality(DataIn(c.q)),
         do_close_internal(c, p)
  PROVE  IInv'
<1>1. HasConn /\ pcb.st # "synsent" /\ conn.off = 0
  BY Typed DEF IInv, PlaceInv, ConnectInv, StartsClean, ConnTypes, ConnOK, ConnType
<1>2. mybox' = mybox /\ adc' = adc /\ changed' = changed BY DEF tasks
<1>3. TaskTypes /\ res \in {"ok", "err"} BY Typed DEF ClientTypes
<1>4. \/ conn' = Finished(c) /\ res' = "ok" /\ pcb' = NoPcb /\ faults' = faults
      \/ /\ conn' = c /\ res' = res /\ pcb' = [p EXCEPT !.recv = FALSE]
         /\ faults < MaxFaults /\ faults' = faults + 1
  BY DEF do_close_internal, Finish, NoFault, Fault
<1>5. TaskTypes' /\ res' \in {"ok", "err"}
  BY <1>2, <1>3, <1>4, SizeAssumption DEF TaskTypes
<1>6. /\ ConnOK(conn') /\ SameMail(c, conn') /\ SameWrite(conn, conn')
      /\ \/ conn'.state = "none" /\ conn'.cur = FALSE /\ conn'.sem = 1 /\ pcb' = NoPcb
         \/ conn'.state = "close" /\ conn'.cur = TRUE /\ conn'.sem = 0
  <2>1. CASE conn' = Finished(c) /\ pcb' = NoPcb
    BY <2>1, FinishedConn DEF SameWrite
  <2>2. CASE conn' = c BY <2>2 DEF SameMail
  <2> QED BY <1>4, <2>1, <2>2
<1>7. pcb' = NoPcb \/ (pcb' \in PcbType /\ pcb'.st = pcb.st /\ pcb'.held = p.held)
  BY <1>4 DEF PcbType
<1>9. StartsClean' /\ OneAnswer' /\ SamplesWhole'
  <2>1. HasConn' BY <1>6 DEF HasConn
  <2>2. StartsClean' BY <1>1, <1>6 DEF StartsClean, SameWrite, Cells
  <2>3. OneAnswer' BY <1>6, <2>1 DEF OneAnswer, OpInProgress
  <2>4. SamplesWhole' BY <1>1, <1>6 DEF IInv, SamplesWhole, SameWrite
  <2> QED BY <2>2, <2>3, <2>4
<1>10. WindowReturned'
  <2>1. CASE pcb' = NoPcb BY <2>1 DEF WindowReturned, HasPcb, NoPcb
  <2>2. CASE pcb'.held = p.held
    <3>1. Cardinality(DataIn(c.q)) \in Nat BY DataFinite DEF ConnOK, ConnType, Items
    <3> QED BY <1>6, <2>2, <3>1 DEF WindowReturned, SameMail
  <2> QED BY <1>7, <2>1, <2>2
<1>11. ConnectInv'
  BY <1>1, <1>7 DEF ConnectInv, NoPcb
<1>12. QueueInv' /\ LateInv' BY <1>6 DEF QueueInv, LateInv, SameMail
<1>13. DeleteInv' BY <1>6 DEF DeleteInv, SameMail, HasPcb, NoPcb
<1> HIDE DEF IInv
<1> QED BY <1>1, <1>5, <1>6, <1>7, <1>9, <1>10, <1>11, <1>12, <1>13, Assembled DEF Calls

(* netconn_drain and then tcp_close. *)
LEMMA DrainStep ==
  ASSUME IInv, HasPcb, NEW call \in {"close", "delconn"}, Makes(call), UNCHANGED changed,
         netconn_drain(conn), do_close_internal(Begun(Drained(conn), "close"), Unread(conn, pcb))
  PROVE  IInv'
<1>1. /\ HasConn /\ ConnOK(conn) /\ conn.sem = 0 /\ conn.cur = FALSE /\ conn.state = "none"
      /\ at = call /\ waits = FALSE /\ waits' = TRUE /\ at' = at /\ hand' = hand
      /\ mybox' = mybox /\ adc' = adc /\ pcb.st # "synsent"
  BY Idle DEF Calls
<1> PICK d : d = Drained(conn) OBVIOUS
<1>2. /\ ConnOK(d) /\ SameWrite(conn, d) /\ SameCall(conn, d)
      /\ IF Valid(conn) THEN d.q = <<>> /\ d.box = FALSE ELSE d = conn
      /\ d.box => Len(d.q) = BoxSize
  BY <1>1, DrainedConn
<1> PICK c : c = Begun(d, "close") OBVIOUS
<1>3. /\ ConnOK(c) /\ c.sem = 0 /\ c.state = "close" /\ c.cur = TRUE
      /\ SameMail(d, c) /\ SameWrite(d, c)
  <2>1. d.sem = 0 BY <1>1, <1>2 DEF SameCall
  <2> QED BY <1>2, <2>1, BegunConn
<1> PICK p : p = Unread(conn, pcb) OBVIOUS
<1>4. p \in PcbType /\ p.st = pcb.st /\ p.held = Cardinality(DataIn(c.q))
  <2>1. pcb \in PcbType BY Typed DEF ConnTypes
  <2>2. CASE Valid(conn)
    <3>1. c.q = <<>> BY <1>2, <1>3, <2>2 DEF SameMail
    <3> QED BY <2>1, <2>2, <3>1, DataInEmpty, SizeAssumption DEF Unread, PcbType
  <2>3. CASE ~Valid(conn)
    <3>1. c.q = conn.q /\ p = pcb BY <1>2, <1>3, <2>3 DEF SameMail, Unread
    <3>2. Cardinality(DataIn(conn.q)) \in Nat
      BY <1>1, DataFinite DEF ConnOK, ConnType, Items
    <3> QED BY <1>1, <2>1, <3>1, <3>2 DEF IInv, WindowReturned
  <2> QED BY <2>2, <2>3
<1>5. queues' \in 0..MaxQs /\ (c.box => queues' < MaxQs)
  <2>1. queues \in 0..MaxQs BY Typed DEF ConnTypes
  <2>2. conn.box => queues < MaxQs BY <1>1 DEF IInv, QueueInv
  <2>3. CASE Valid(conn)
    <3>1. queues' = queues + 1 /\ conn.box BY <2>3 DEF netconn_drain, Valid
    <3>2. c.box = FALSE BY <1>2, <1>3, <2>3 DEF SameMail
    <3> QED BY <2>1, <2>2, <3>1, <3>2, SizeAssumption
  <2>4. CASE ~Valid(conn)
    BY <1>2, <1>3, <2>1, <2>2, <2>4 DEF netconn_drain, SameMail
  <2> QED BY <2>3, <2>4
<1>6. SameWrite(conn, c) /\ (c.box => Len(c.q) = BoxSize)
  BY <1>2, <1>3 DEF SameWrite, SameMail
<1>7. UNCHANGED tasks /\ do_close_internal(c, p) BY <1>1 DEF tasks
<1> QED BY <1>1, <1>3, <1>4, <1>5, <1>6, <1>7, CloseStep

LEMMA NetconnCloseStep == IInv /\ netconn_close => IInv'
<1> SUFFICES ASSUME IInv, netconn_close PROVE IInv' OBVIOUS
<1>1. Makes("close") /\ do_close /\ changed' = changed BY DEF netconn_close
<1> PICK call \in Calls : call = "close" BY DEF Calls
<1>2. at = "close" /\ conn.state = "none" /\ mybox' = mybox /\ adc' = adc BY <1>1, Idle
<1>3. CASE ~HasPcb
  <2>1. /\ conn' = Signalled(conn) /\ res' = "err" /\ pcb' = pcb /\ queues' = queues
        /\ faults' = faults
    BY <1>1, <1>3 DEF do_close, Answer, NoFault
  <2>2. TaskTypes' BY <1>1, <1>2, <2>1, Typed DEF TaskTypes
  <2> QED BY <1>1, <1>2, <2>1, <2>2, AnswerStep
<1>4. CASE HasPcb
  BY <1>1, <1>2, <1>4, DrainStep DEF do_close
<1> QED BY <1>3, <1>4

LEMMA DeleteStep == IInv /\ netconn_delete => IInv'
<1> SUFFICES ASSUME IInv, netconn_delete PROVE IInv' OBVIOUS
<1>1. Makes("delconn") /\ do_delconn /\ changed' = changed BY DEF netconn_delete
<1> PICK call \in Calls : call = "delconn" BY DEF Calls
<1>2. /\ HasConn /\ ConnOK(conn) /\ conn.sem = 0 /\ conn.cur = FALSE /\ conn.state = "none"
      /\ at = "delconn" /\ waits = FALSE /\ waits' = TRUE /\ at' = at /\ hand' = hand
      /\ mybox' = mybox /\ adc' = adc /\ pcb.st # "synsent"
  BY <1>1, Idle
<1>3. CASE ~HasPcb
  <2> PICK d : d = Drained(conn) OBVIOUS
  <2>1. netconn_drain(conn) /\ conn' = Signalled(d) /\ res' = res /\ pcb' = pcb /\ faults' = faults
    BY <1>1, <1>2, <1>3 DEF do_delconn, Answer, NoFault
  <2>2. /\ ConnOK(d) /\ SameWrite(conn, d) /\ SameCall(conn, d)
        /\ IF Valid(conn) THEN d.q = <<>> /\ d.box = FALSE ELSE d = conn
        /\ d.box => Len(d.q) = BoxSize
    BY <1>2, DrainedConn
  <2>3. /\ ConnOK(conn') /\ conn'.sem = 1 /\ conn'.state = "none" /\ conn'.cur = FALSE
        /\ SameMail(d, conn') /\ SameWrite(d, conn')
    <3>1. d.sem = 0 /\ d.state = "none" /\ d.cur = FALSE BY <1>2, <2>2 DEF SameCall
    <3> QED BY <2>1, <2>2, <3>1, SignalledConn
  <2>4. queues' \in 0..MaxQs /\ (conn'.box => queues' < MaxQs)
    <3>1. queues \in 0..MaxQs BY Typed DEF ConnTypes
    <3>2. conn.box => queues < MaxQs BY <1>2 DEF IInv, QueueInv
    <3>3. CASE Valid(conn)
      <4>1. queues' = queues + 1 /\ conn.box BY <2>1, <3>3 DEF netconn_drain, Valid
      <4>2. conn'.box = FALSE BY <2>2, <2>3, <3>3 DEF SameMail
      <4> QED BY <3>1, <3>2, <4>1, <4>2, SizeAssumption
    <3>4. CASE ~Valid(conn)
      BY <2>1, <2>2, <2>3, <3>1, <3>2, <3>4 DEF netconn_drain, SameMail
    <3> QED BY <3>3, <3>4
  <2>5. pcb' = NoPcb /\ ~HasPcb' BY <1>3, <2>1 DEF IInv, PlaceInv, HasPcb
  <2>6. StartsClean' /\ OneAnswer' /\ SamplesWhole'
    BY <1>2, <2>2, <2>3, <2>5
       DEF IInv, StartsClean, OneAnswer, SamplesWhole, OpInProgress, SameWrite, HasConn
  <2>7. WindowReturned' /\ ConnectInv' /\ QueueInv' /\ LateInv' /\ DeleteInv'
    BY <1>2, <2>1, <2>2, <2>3, <2>4, <2>5
       DEF WindowReturned, ConnectInv, QueueInv, LateInv, DeleteInv, SameMail
  <2>8. TaskTypes' /\ res' \in {"ok", "err"}
    BY <1>1, <1>2, <2>1, Typed DEF TaskTypes, ClientTypes
  <2> HIDE DEF IInv
  <2> QED BY <1>2, <2>3, <2>4, <2>5, <2>6, <2>7, <2>8, Assembled DEF Calls
<1>4. CASE HasPcb
  BY <1>1, <1>2, <1>4, DrainStep DEF do_delconn
<1> QED BY <1>3, <1>4

(* The pcb is gone: a call under way ends with an error, and no other. *)
LEMMA ErrStep ==
  ASSUME IInv, HasPcb, err_tcp, UNCHANGED client, UNCHANGED tasks
  PROVE  IInv'
<1>1. /\ at' = at /\ waits' = waits /\ hand' = hand
      /\ mybox' = mybox /\ adc' = adc /\ changed' = changed
      /\ queues' = queues /\ faults' = faults /\ pcb' = NoPcb
  BY DEF client, tasks, err_tcp
<1>2. HasConn /\ ConnOK(conn) /\ res \in {"ok", "err"} /\ queues \in 0..MaxQs /\ TaskTypes
  BY Typed DEF ConnTypes, ClientTypes
<1> PICK f : f = [conn EXCEPT !.fatal = TRUE] OBVIOUS
<1> PICK c : c = Queued(f, "nil") OBVIOUS
<1>3. /\ ConnOK(f) /\ SameWrite(conn, f) /\ SameCall(conn, f) /\ f.box = conn.box /\ f.q = conn.q
  BY <1>2 DEF ConnOK, ConnType, SameWrite, SameCall
<1>4. /\ ConnOK(c) /\ SameWrite(conn, c) /\ SameCall(conn, c) /\ c.box = conn.box
      /\ c.q = conn.q \/ Valid(conn)
  <2>1. /\ ConnOK(c) /\ SameWrite(f, c) /\ SameCall(f, c) /\ c.box = f.box
        /\ c.q = f.q \/ Valid(f)
    BY <1>3, QueuedConn DEF Items
  <2> QED BY <1>3, <2>1 DEF SameWrite, SameCall, Valid
<1>5. /\ ConnOK(conn') /\ SameWrite(conn, conn') /\ conn'.box = conn.box
      /\ conn'.q = conn.q \/ Valid(conn)
      /\ conn'.state = "none" /\ conn'.cur = FALSE /\ conn'.sem = (IF waits THEN 1 ELSE 0)
      /\ res' \in {"ok", "err"}
  <2>1. CASE OpInProgress(conn)
    <3>1. waits = TRUE /\ conn.sem = 0 BY <1>2, <2>1, Waiting
    <3>2. c.sem = 0 BY <1>4, <3>1 DEF SameCall
    <3>3. conn' = Finished(c) /\ res' = "err" BY <2>1 DEF err_tcp, Finish
    <3> QED BY <1>4, <3>1, <3>2, <3>3, FinishedConn DEF SameWrite, SameMail
  <2>2. CASE ~OpInProgress(conn)
    <3>1. conn.cur = FALSE /\ conn.sem = (IF waits THEN 1 ELSE 0)
      BY <1>2, <2>2 DEF IInv, OneAnswer, ConnOK, ConnType
    <3>2. conn' = [c EXCEPT !.state = "none"] /\ res' = res BY <2>2 DEF err_tcp
    <3>3. /\ ConnOK(conn') /\ SameWrite(c, conn') /\ SameMail(c, conn') /\ conn'.state = "none"
          /\ conn'.cur = c.cur /\ conn'.sem = c.sem
      BY <1>4, <3>2 DEF ConnOK, ConnType, SameWrite, SameMail
    <3> QED BY <1>2, <1>4, <3>1, <3>2, <3>3 DEF SameWrite, SameMail, SameCall
  <2> QED BY <2>1, <2>2
<1>6. HasConn' /\ ~HasPcb' BY <1>1, <1>5 DEF HasConn, HasPcb, NoPcb
<1>7. StartsClean' /\ SamplesWhole' /\ WindowReturned'
  BY <1>2, <1>5, <1>6 DEF IInv, StartsClean, SamplesWhole, WindowReturned, SameWrite
<1>8. OneAnswer'
  BY <1>1, <1>5, <1>6 DEF OneAnswer, OpInProgress
<1>9. ConnectInv' /\ LateInv' BY <1>1, <1>5, <1>6 DEF ConnectInv, LateInv, HasPcb, NoPcb
<1>10. QueueInv' BY <1>1, <1>2, <1>5, <1>6 DEF IInv, QueueInv
<1>11. DeleteInv'
  BY <1>1, <1>2, <1>5, <1>6 DEF IInv, DeleteInv, Valid
<1>12. TaskTypes' BY <1>1, <1>2 DEF TaskTypes
<1> HIDE DEF IInv
<1> QED BY <1>1, <1>2, <1>5, <1>7, <1>8, <1>9, <1>10, <1>11, <1>12, Assembled

LEMMA ConnectedStep == IInv /\ do_connected => IInv'
<1> SUFFICES ASSUME IInv, do_connected PROVE IInv' OBVIOUS
<1>1. /\ pcb.st = "synsent" /\ pcb' = [pcb EXCEPT !.st = "est"] /\ conn' = Finished(conn)
      /\ res' = "ok" /\ at' = at /\ waits' = waits /\ hand' = hand /\ queues' = queues
      /\ mybox' = mybox /\ adc' = adc /\ changed' = changed /\ faults' = faults
  BY DEF do_connected, Finish, client, tasks
<1>2. HasPcb /\ HasConn /\ ConnOK(conn) /\ pcb \in PcbType /\ queues \in 0..MaxQs /\ TaskTypes
  BY <1>1, Typed DEF HasPcb, ConnTypes
<1>3. at = "connect" /\ conn.state = "connect" /\ waits = TRUE /\ conn.sem = 0
  BY <1>1, <1>2, Waiting DEF IInv, ConnectInv, OpInProgress
<1>4. /\ ConnOK(conn') /\ conn'.sem = 1 /\ conn'.state = "none" /\ conn'.cur = FALSE
      /\ SameMail(conn, conn') /\ SameWrite(conn, conn')
  BY <1>1, <1>2, <1>3, FinishedConn
<1>5. pcb' \in PcbType /\ pcb'.st = "est" /\ pcb'.held = pcb.held BY <1>1, <1>2 DEF PcbType
<1>6. HasConn' /\ HasPcb' BY <1>4, <1>5 DEF HasConn, HasPcb
<1>7. StartsClean' /\ OneAnswer' /\ SamplesWhole'
  BY <1>1, <1>2, <1>3, <1>4, <1>6
     DEF IInv, StartsClean, OneAnswer, SamplesWhole, OpInProgress, SameWrite
<1>8. WindowReturned' BY <1>1, <1>2, <1>3, <1>4, <1>5, <1>6 DEF IInv, WindowReturned, SameMail
<1>9. ConnectInv' /\ QueueInv' /\ LateInv' /\ DeleteInv'
  BY <1>1, <1>2, <1>3, <1>4, <1>5, <1>6
     DEF IInv, ConnectInv, QueueInv, LateInv, DeleteInv, SameMail
<1>10. TaskTypes' BY <1>1, <1>2 DEF TaskTypes
<1> HIDE DEF IInv
<1> QED BY <1>1, <1>2, <1>4, <1>5, <1>7, <1>8, <1>9, <1>10, Assembled

(* An acknowledgement or the poll timer lets a write or a close go on. *)
LEMMA ResumeStep ==
  ASSUME IInv, HasPcb, NEW p \in PcbType, p.st = pcb.st, p.held = pcb.held, Resume(p)
  PROVE  IInv'
<1>1. at' = at /\ waits' = waits /\ hand' = hand /\ mybox' = mybox /\ adc' = adc
  BY DEF Resume, client
<1>2. HasConn /\ ConnOK(conn) /\ queues \in 0..MaxQs /\ TaskTypes /\ res \in {"ok", "err"}
  BY Typed DEF ConnTypes, ClientTypes
<1>3. CASE conn.state = "write"
  <2>1. do_writemore(conn, p) /\ queues' = queues BY <1>3 DEF Resume
  <2>2. at = "write" /\ waits = TRUE /\ conn.sem = 0 /\ conn.cur = TRUE /\ conn.late
    BY <1>2, <1>3, Waiting DEF IInv, PlaceInv, LateInv, OpInProgress
  <2> QED BY <1>1, <1>2, <1>3, <2>1, <2>2, WritemoreStep DEF SameMail
<1>4. CASE conn.state = "close"
  <2>1. do_close_internal(conn, p) /\ queues' = queues /\ changed' = changed
    BY <1>4 DEF Resume
  <2>2. at \in {"close", "delconn"} /\ waits = TRUE /\ conn.sem = 0 /\ conn.cur = TRUE
    BY <1>2, <1>4, Waiting DEF IInv, PlaceInv, OpInProgress
  <2>3. UNCHANGED tasks BY <1>1, <2>1 DEF tasks
  <2>4. conn.box => queues < MaxQs BY <1>2 DEF IInv, QueueInv
  <2>5. at = "delconn" /\ conn.box => Len(conn.q) = BoxSize BY <2>2 DEF IInv, DeleteInv
  <2>6. p.held = Cardinality(DataIn(conn.q))
    <3>1. Cardinality(DataIn(conn.q)) \in Nat BY <1>2, DataFinite DEF ConnOK, ConnType, Items
    <3> QED BY <2>2, <3>1 DEF IInv, WindowReturned
  <2> QED BY <1>1, <1>2, <1>4, <2>1, <2>2, <2>3, <2>4, <2>5, <2>6, CloseStep DEF SameWrite
<1>5. CASE conn.state \notin {"write", "close"}
  <2>1. /\ pcb' = p /\ conn' = conn /\ res' = res /\ queues' = queues /\ changed' = changed
        /\ faults' = faults
    BY <1>5 DEF Resume
  <2>2. HasConn' /\ HasPcb' BY <1>2, <2>1 DEF HasConn, HasPcb
  <2>3. StartsClean' /\ OneAnswer' /\ SamplesWhole' /\ WindowReturned'
    BY <1>1, <1>2, <2>1, <2>2
       DEF IInv, StartsClean, OneAnswer, SamplesWhole, WindowReturned, OpInProgress
  <2>4. ConnectInv' /\ QueueInv' /\ LateInv' /\ DeleteInv'
    BY <1>1, <1>2, <2>1, <2>2 DEF IInv, ConnectInv, QueueInv, LateInv, DeleteInv
  <2>5. TaskTypes' BY <1>1, <1>2, <2>1 DEF TaskTypes
  <2> HIDE DEF IInv
  <2> QED BY <1>1, <1>2, <2>1, <2>3, <2>4, <2>5, Assembled
<1> QED BY <1>3, <1>4, <1>5

LEMMA SentPollStep ==
  ASSUME IInv, SentTcp \/ poll_tcp
  PROVE  IInv'
<1>1. CASE SentTcp
  <2>1. HasPcb /\ pcb \in PcbType BY <1>1, Typed DEF SentTcp, ConnTypes
  <2>2. PICK k \in 1..pcb.unacked : Resume([pcb EXCEPT !.unacked = @ - k])
    BY <1>1 DEF SentTcp, sent_tcp
  <2> PICK p : p = [pcb EXCEPT !.unacked = @ - k] OBVIOUS
  <2>3. p \in PcbType /\ p.st = pcb.st /\ p.held = pcb.held
    BY <2>1, SizeAssumption DEF PcbType
  <2> QED BY <2>1, <2>2, <2>3, ResumeStep
<1>2. CASE poll_tcp
  BY <1>2, Typed, ResumeStep DEF poll_tcp, ConnTypes
<1> QED BY <1>1, <1>2

(* recv_tcp: an item goes into the mailbox, or nothing does. *)
LEMMA PutStep ==
  ASSUME IInv, HasPcb, NEW x \in Items, UNCHANGED client, UNCHANGED tasks,
         res' = res, queues' = queues, faults' = faults,
         conn' = Queued(conn, x) \/ (conn' = conn /\ x = "nil"),
         pcb' \in PcbType, pcb'.st # "synsent",
         pcb'.held = IF x = "data" /\ Valid(conn) THEN pcb.held + 1 ELSE pcb.held
  PROVE  IInv'
<1>1. /\ at' = at /\ waits' = waits /\ hand' = hand
      /\ mybox' = mybox /\ adc' = adc /\ changed' = changed
  BY DEF client, tasks
<1>2. HasConn /\ ConnOK(conn) /\ res \in {"ok", "err"} /\ queues \in 0..MaxQs /\ TaskTypes
      /\ pcb \in PcbType
  BY Typed DEF ConnTypes, ClientTypes
<1>3. /\ ConnOK(conn') /\ SameWrite(conn, conn') /\ SameCall(conn, conn')
      /\ conn'.box = conn.box
      /\ \/ Valid(conn) /\ conn'.q = Append(conn.q, x)
         \/ conn'.q = conn.q /\ (x = "nil" \/ ~Valid(conn))
  <2>1. CASE conn' = Queued(conn, x) BY <1>2, <2>1, QueuedConn
  <2>2. CASE conn' = conn /\ x = "nil" BY <1>2, <2>2 DEF SameWrite, SameCall
  <2> QED BY <2>1, <2>2
<1>4. HasConn' /\ HasPcb'
  BY <1>3 DEF HasConn, HasPcb, ConnOK, ConnType, PcbType
<1>5. StartsClean' /\ SamplesWhole' /\ OneAnswer'
  BY <1>1, <1>2, <1>3, <1>4
     DEF IInv, StartsClean, SamplesWhole, OneAnswer, OpInProgress, SameWrite, SameCall
<1>6. WindowReturned'
  <2> PICK m \in Nat : m = Cardinality(DataIn(conn.q))
    BY <1>2, DataFinite DEF ConnOK, ConnType, Items
  <2> PICK b \in 0..1 : b = IF at = "recved" /\ ~waits /\ hand = "data" THEN 1 ELSE 0 OBVIOUS
  <2>1. pcb.held = m + b BY DEF IInv, WindowReturned
  <2>2. conn.q \in Seq(Items) BY <1>2 DEF ConnOK, ConnType, Items
  <2>3. CASE x = "data" /\ Valid(conn)
    <3>1. Cardinality(DataIn(conn'.q)) = m + 1 BY <1>3, <2>2, <2>3, DataAppended
    <3> QED BY <1>1, <2>1, <2>3, <3>1 DEF WindowReturned
  <2>4. CASE ~(x = "data" /\ Valid(conn))
    <3>1. Cardinality(DataIn(conn'.q)) = m
      BY <1>3, <2>2, <2>4, DataAppended DEF Items
    <3> QED BY <1>1, <2>1, <2>4, <3>1 DEF WindowReturned
  <2> QED BY <2>3, <2>4
<1>7. ConnectInv' /\ QueueInv' /\ LateInv'
  BY <1>1, <1>2, <1>3, <1>4 DEF IInv, ConnectInv, QueueInv, LateInv, SameWrite, SameCall
<1>8. DeleteInv'
  BY <1>1, <1>2, <1>3, <1>4, SizeAssumption
     DEF IInv, DeleteInv, Valid, SameCall, ConnOK, ConnType
<1>9. TaskTypes' BY <1>1, <1>2 DEF TaskTypes
<1>10. conn'.state = conn.state BY <1>3 DEF SameCall
<1> HIDE DEF IInv
<1> QED BY <1>1, <1>2, <1>3, <1>5, <1>6, <1>7, <1>8, <1>9, <1>10, Assembled

LEMMA RecvDataStep == IInv /\ RecvData => IInv'
<1> SUFFICES ASSUME IInv, RecvData PROVE IInv' OBVIOUS
<1>1. HasPcb /\ pcb \in PcbType /\ pcb.st = "est" /\ pcb.held < Wnd
      /\ UNCHANGED client /\ UNCHANGED tasks
  BY Typed DEF RecvData, HasPcb, ConnTypes
<1>2. CASE ~pcb.recv BY <1>1, <1>2, ErrStep DEF RecvData
<1>3. CASE pcb.recv
  <2>1. /\ conn' = Queued(conn, "data") /\ res' = res /\ queues' = queues /\ faults' = faults
        /\ pcb' = IF Valid(conn) THEN [pcb EXCEPT !.held = @ + 1] ELSE pcb
    BY <1>3 DEF RecvData
  <2>2. /\ pcb' \in PcbType /\ pcb'.st = "est"
        /\ pcb'.held = IF Valid(conn) THEN pcb.held + 1 ELSE pcb.held
    BY <1>1, <2>1, SizeAssumption DEF PcbType
  <2> PICK x \in Items : x = "data" BY DEF Items
  <2> QED BY <1>1, <2>1, <2>2, PutStep
<1> QED BY <1>2, <1>3

LEMMA RecvFinStep == IInv /\ RecvFin => IInv'
<1> SUFFICES ASSUME IInv, RecvFin PROVE IInv' OBVIOUS
<1>1. HasPcb /\ pcb \in PcbType /\ pcb.st = "est"
      /\ UNCHANGED client /\ UNCHANGED tasks
  BY Typed DEF RecvFin, HasPcb, ConnTypes
<1>2. /\ conn' = Queued(conn, "nil") \/ conn' = conn
      /\ res' = res /\ queues' = queues /\ faults' = faults
      /\ pcb' = [pcb EXCEPT !.st = "closewait"]
  BY DEF RecvFin
<1>3. pcb' \in PcbType /\ pcb'.st = "closewait" /\ pcb'.held = pcb.held
  BY <1>1, <1>2 DEF PcbType
<1> PICK x \in Items : x = "nil" BY DEF Items
<1> QED BY <1>1, <1>2, <1>3, PutStep

----
(* The client between its calls, and the other tasks.                      *)

LEMMA PendTokenStep ==
  ASSUME IInv, PendToken \/ RecvFails
  PROVE  IInv'
<1>1. /\ at \in {"token", "fetch"} /\ at' \in {"write", "token"}
      /\ waits' = waits /\ res' = res /\ hand' = hand /\ conn' = conn /\ pcb' = pcb
      /\ queues' = queues /\ adc' = adc /\ changed' = changed /\ faults' = faults
      /\ mybox' \in {mybox, "empty"}
  BY DEF PendToken, RecvFails, tasks
<1>2. (HasConn' <=> HasConn) /\ (HasPcb' <=> HasPcb) BY <1>1 DEF HasConn, HasPcb
<1>3. waits = FALSE /\ HasConn /\ conn.state = "none" /\ pcb.st # "synsent" /\ conn.box
  <2>1. waits = FALSE /\ HasConn BY <1>1, Typed DEF IInv, PlaceInv, ClientTypes
  <2>2. conn.state = "none"
    BY <1>1, <2>1, Typed DEF IInv, PlaceInv, ConnTypes, ConnOK, ConnType
  <2> QED BY <1>1, <2>1, <2>2 DEF IInv, ConnectInv, QueueInv
<1>4. (TaskTypes /\ ClientTypes /\ ConnTypes)'
  BY <1>1, <1>2, Typed DEF TaskTypes, ClientTypes, ConnTypes, Calls
<1>5. StartsClean' /\ OneAnswer' /\ SamplesWhole' /\ WindowReturned'
  BY <1>1, <1>2, <1>3
     DEF IInv, StartsClean, OneAnswer, SamplesWhole, WindowReturned, OpInProgress
<1>6. PlaceInv' BY <1>1, <1>2, <1>3 DEF IInv, PlaceInv
<1>7. ConnectInv' /\ QueueInv' /\ LateInv' /\ DeleteInv'
  BY <1>1, <1>2, <1>3 DEF IInv, ConnectInv, QueueInv, LateInv, DeleteInv
<1> QED BY <1>4, <1>5, <1>6, <1>7, TypeParts DEF IInv

LEMMA FetchStep == IInv /\ RecvFetches => IInv'
<1> SUFFICES ASSUME IInv, RecvFetches PROVE IInv' OBVIOUS
<1>1. /\ at = "fetch" /\ at' = "recved" /\ conn.q # <<>> /\ hand' = Head(conn.q)
      /\ conn' = [conn EXCEPT !.q = Tail(@)]
      /\ waits' = waits /\ res' = res /\ pcb' = pcb /\ queues' = queues /\ faults' = faults
      /\ mybox' = mybox /\ adc' = adc /\ changed' = changed
  BY DEF RecvFetches, tasks
<1>2. waits = FALSE /\ HasConn /\ ConnOK(conn) /\ conn.state = "none" /\ pcb.st # "synsent"
      /\ conn.box
  <2>1. waits = FALSE /\ HasConn /\ ConnOK(conn)
    BY <1>1, Typed DEF IInv, PlaceInv, ClientTypes, ConnTypes
  <2>2. conn.state = "none" BY <1>1, <2>1 DEF IInv, PlaceInv, ConnOK, ConnType
  <2> QED BY <1>1, <2>1, <2>2 DEF IInv, ConnectInv, QueueInv
<1> PICK t : t = Tail(conn.q) OBVIOUS
<1>3. t \in Seq(Items) /\ Len(t) <= BoxSize /\ Head(conn.q) \in Items /\ conn.q \in Seq(Items)
  <2>1. conn.q \in Seq(Items) /\ Len(conn.q) <= BoxSize BY <1>2 DEF ConnOK, ConnType, Items
  <2>2. t \in Seq(Items) /\ Len(t) = Len(conn.q) - 1 /\ Head(conn.q) \in Items
        /\ Len(conn.q) \in Nat
    BY <1>1, <2>1, HeadTailProperties, LenProperties
  <2> QED BY <2>1, <2>2, SizeAssumption
<1>4. /\ ConnOK(conn') /\ SameWrite(conn, conn') /\ SameCall(conn, conn') /\ conn'.q = t
      /\ conn'.box = conn.box
  BY <1>1, <1>2, <1>3 DEF ConnOK, ConnType, SameWrite, SameCall, Items
<1>5. HasConn' /\ (HasPcb' <=> HasPcb) /\ conn' # NoConn
  BY <1>1, <1>4 DEF HasConn, HasPcb, ConnOK, ConnType, NoConn
<1>6. (TaskTypes /\ ClientTypes /\ ConnTypes)'
  BY <1>1, <1>3, <1>4, <1>5, Typed DEF TaskTypes, ClientTypes, ConnTypes, Calls
<1>7. StartsClean' /\ OneAnswer' /\ SamplesWhole'
  BY <1>1, <1>2, <1>4, <1>5
     DEF IInv, StartsClean, OneAnswer, SamplesWhole, OpInProgress, SameWrite, SameCall
<1>8. WindowReturned'
  <2>1. /\ Head(conn.q) = "data" => Cardinality(DataIn(conn.q)) = Cardinality(DataIn(t)) + 1
        /\ Head(conn.q) = "nil" => Cardinality(DataIn(conn.q)) = Cardinality(DataIn(t))
    BY <1>1, <1>3, DataTaken
  <2>2. Cardinality(DataIn(t)) \in Nat BY <1>3, DataFinite
  <2>3. HasPcb => pcb.held = Cardinality(DataIn(conn.q))
    <3>1. Cardinality(DataIn(conn.q)) \in Nat BY <1>3, DataFinite
    <3> QED BY <1>1, <3>1 DEF IInv, WindowReturned
  <2>4. CASE Head(conn.q) = "data"
    BY <1>1, <1>2, <1>4, <1>5, <2>1, <2>2, <2>3, <2>4 DEF WindowReturned
  <2>5. CASE Head(conn.q) = "nil"
    BY <1>1, <1>2, <1>4, <1>5, <2>1, <2>2, <2>3, <2>5 DEF WindowReturned
  <2> QED BY <1>3, <2>4, <2>5 DEF Items
<1>9. PlaceInv' BY <1>1, <1>2, <1>4, <1>5 DEF IInv, PlaceInv, SameCall
<1>10. ConnectInv' /\ QueueInv' /\ LateInv' /\ DeleteInv'
  BY <1>1, <1>2, <1>4, <1>5 DEF IInv, ConnectInv, QueueInv, LateInv, DeleteInv, SameCall, SameWrite
<1> QED BY <1>6, <1>7, <1>8, <1>9, <1>10, TypeParts DEF IInv

(* Nothing of the connection depends on the other tasks. *)
LEMMA TasksStep ==
  ASSUME IInv, UNCHANGED <<client, res, conn, pcb, queues>>, TaskTypes'
  PROVE  IInv'
<1>1. /\ at' = at /\ waits' = waits /\ hand' = hand /\ res' = res /\ conn' = conn
      /\ pcb' = pcb /\ queues' = queues
  BY DEF client
<1>2. (HasConn' <=> HasConn) /\ (HasPcb' <=> HasPcb) BY <1>1 DEF HasConn, HasPcb
<1>3. (ClientTypes /\ ConnTypes)' BY <1>1, <1>2, Typed DEF ClientTypes, ConnTypes
<1>4. StartsClean' /\ OneAnswer' /\ SamplesWhole' /\ WindowReturned'
  BY <1>1, <1>2
     DEF IInv, StartsClean, OneAnswer, SamplesWhole, WindowReturned, OpInProgress
<1>5. PlaceInv' /\ ConnectInv' /\ QueueInv' /\ LateInv' /\ DeleteInv'
  BY <1>1, <1>2 DEF IInv, PlaceInv, ConnectInv, QueueInv, LateInv, DeleteInv
<1> QED BY <1>3, <1>4, <1>5, TypeParts DEF IInv

LEMMA OtherTasksStep ==
  ASSUME IInv, led_task \/ modbus_task \/ adc_task
  PROVE  IInv'
<1>1. UNCHANGED <<client, res, conn, pcb, queues>>
  BY DEF led_task, modbus_task, adc_task
<1>2. TaskTypes'
  BY Typed DEF led_task, modbus_task, adc_task, Changes, TaskTypes, Samples, AdcSample
<1> QED BY <1>1, <1>2, TasksStep

LEMMA NextStep == IInv /\ [Next]_vars => IInv'
<1> SUFFICES ASSUME IInv, [Next]_vars PROVE IInv' OBVIOUS
<1>1. CASE UNCHANGED vars
  <2>1. UNCHANGED <<client, res, conn, pcb, queues>> /\ TaskTypes'
    BY <1>1, Typed DEF vars, client, TaskTypes
  <2> QED BY <2>1, TasksStep
<1>2. CASE Client
  BY <1>2, NewStep, NewconnReturnsStep, ConnectStep, ReturnsStep, GetaddrStep, PendTokenStep,
     WriteStep, FetchStep, RecvedStep, NetconnCloseStep, DeleteStep, DeleteReturnsStep DEF Client
<1>3. CASE Aborted
  BY <1>3, ErrStep DEF Aborted, HasPcb
<1>4. CASE do_connected \/ SentTcp \/ poll_tcp \/ RecvData \/ RecvFin
  BY <1>4, ConnectedStep, SentPollStep, RecvDataStep, RecvFinStep
<1>5. CASE led_task \/ modbus_task \/ adc_task BY <1>5, OtherTasksStep
<1> QED BY <1>1, <1>2, <1>3, <1>4, <1>5 DEF Next

LEMMA InitHolds == Init => IInv
<1> SUFFICES ASSUME Init PROVE IInv OBVIOUS
<1>1. ~HasConn /\ ~HasPcb /\ conn.state = "free" /\ pcb.st = "free"
  BY DEF Init, HasConn, HasPcb, NoConn, NoPcb
<1>2. TaskTypes /\ ClientTypes /\ ConnTypes
  <2>1. TaskTypes BY SizeAssumption DEF Init, TaskTypes
  <2>2. ClientTypes BY DEF Init, ClientTypes, Items
  <2>3. ConnTypes BY <1>1, SizeAssumption DEF Init, ConnTypes
  <2> QED BY <2>1, <2>2, <2>3
<1>3. StartsClean /\ OneAnswer /\ SamplesWhole /\ WindowReturned
  BY <1>1 DEF Init, StartsClean, OneAnswer, SamplesWhole, WindowReturned
<1>4. PlaceInv /\ ConnectInv /\ QueueInv /\ LateInv /\ DeleteInv
  BY <1>1 DEF Init, PlaceInv, ConnectInv, QueueInv, LateInv, DeleteInv
<1> QED BY <1>2, <1>3, <1>4, TypeParts DEF IInv

----
(* The theorems.                                                           *)

(* The invariant holds in every state of the upload. *)
THEOREM Inductive == Spec => []IInv
BY InitHolds, NextStep, PTL DEF Spec

(* Every netconn call is answered exactly once, whatever packets, timers and *)
(* errors come while it is under way (api_msg.c).                            *)
THEOREM AnsweredOnce == Spec => []OneAnswer
<1>1. IInv => OneAnswer BY DEF IInv
<1> QED BY <1>1, Inductive, PTL

(* Connection, pcb and tasks keep their form, and no call on a live pcb      *)
(* finds the remains of an earlier write (the assertions of api_msg.c).      *)
THEOREM CallsStartClean == Spec => []CallsSound
<1>1. IInv => CallsSound BY DEF IInv, CallsSound
<1> QED BY <1>1, Inductive, PTL

(* netconn_free finds no pcb that could call back, and no mailbox but one    *)
(* that is full.                                                             *)
THEOREM FreedWithoutPcb == Spec => []FreedWhole
<1>1. IInv => FreedWhole BY DEF IInv, FreedWhole, DeleteInv
<1> QED BY <1>1, Inductive, PTL

(* Every received segment is in the mailbox, in the client's hands, or has   *)
(* opened the window again.                                                  *)
THEOREM WindowAccounted == Spec => []WindowReturned
<1>1. IInv => WindowReturned BY DEF IInv
<1> QED BY <1>1, Inductive, PTL

(* A sample that TCP took at once is of one round, for all sizes of the send *)
(* buffer and wherever adc_task was interrupted.                             *)
THEOREM SampleOfOneRound == Spec => []SamplesWhole
<1>1. IInv => SamplesWhole BY DEF IInv
<1> QED BY <1>1, Inductive, PTL
=============================================================================
