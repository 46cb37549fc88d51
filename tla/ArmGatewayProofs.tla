-------------------------- MODULE ArmGatewayProofs --------------------------
(***************************************************************************)
(* Proofs about ArmGateway for any number of polls and faults, any cut of  *)
(* the answers on the line and any register contents.                      *)
(***************************************************************************)
EXTENDS ArmGateway, SequenceTheorems, TLAPS

(* The slaves and their answers *)

\* Every command addresses one of the three slaves.
LEMMA SlaveOfType == ASSUME NEW n \in Int PROVE SlaveOf(n) \in Slaves
  BY DEF SlaveOf, Slaves

\* An answer has 11 or 21 bytes.
LEMMA FrameLenType ==
  ASSUME NEW n \in Int
  PROVE  /\ DataLen(SlaveOf(n)) \in {6, 16}
         /\ FrameLen(n) = DataLen(SlaveOf(n)) + 5
  BY SlaveOfType DEF DataLen, FrameLen

\* The byte count com_read compares with nread is a byte.
LEMMA ByteValuesType ==
  ASSUME NEW c \in Cell
  PROVE  ByteValues(c) \subseteq 0..255
<1>1. CASE c = Unwritten
  BY <1>1 DEF ByteValues
<1>2. CASE c # Unwritten
  <2>1. c[1] \in Int
    BY <1>2, PollsAssumption DEF Cell
  <2>2. DataLen(SlaveOf(c[1])) \in 0..255
    BY <2>1, FrameLenType
  <2> QED
    BY <1>2, <2>2, BytesAssumption DEF ByteValues
<1> QED
  BY <1>1, <1>2

LEMMA AtMostType ==
  ASSUME NEW a \in Nat, NEW b \in Nat
  PROVE  AtMost(a, b) \in 0..a /\ AtMost(a, b) <= b
  BY DEF AtMost

\* What a read leaves in the kernel's buffer are still bytes of answers, and
\* so is what it writes into msg.
LEMMA ReadType ==
  ASSUME NEW at \in Nat, NEW k \in Nat, Read(at, k), k <= Len(rx),
         msg \in [0..MsgSize-1 -> Cell], rx \in Seq(Cell)
  PROVE  msg' \in [0..MsgSize-1 -> Cell] /\ rx' \in Seq(Cell)
<1>1. \A i \in 1..Len(rx) : rx[i] \in Cell
  BY ElementOfSeq
<1>2. Len(rx) \in Nat
  BY LenProperties
<1>3. msg' \in [0..MsgSize-1 -> Cell]
  <2>1. ASSUME NEW i \in 0..MsgSize-1
        PROVE  (IF i \in at..at+k-1 THEN rx[i - at + 1] ELSE msg[i]) \in Cell
    <3>1. CASE i \in at..at+k-1
      <4>1. i - at + 1 \in 1..Len(rx)
        BY <1>2, <3>1 DEF MsgSize
      <4> QED
        BY <1>1, <3>1, <4>1
    <3> QED
      BY <3>1
  <2> QED
    BY <2>1 DEF Read
<1>4. rx' \in Seq(Cell)
  <2>1. \A i \in k+1..Len(rx) : rx[i] \in Cell
    BY <1>1
  <2> QED
    BY <1>2, <2>1, SubSeqProperties DEF Read
<1> QED
  BY <1>3, <1>4

\* The bytes of an answer that arrive between two positions are a sequence of
\* cells, whatever the positions.
LEMMA BytesType ==
  ASSUME NEW n \in 1..MaxPolls, NEW pos \in 0..20, NEW last \in 0..21
  PROVE  [i \in 1..(last - pos) |-> <<n, pos + i - 1>>] \in Seq(Cell)
<1> DEFINE k == IF last - pos \in Nat THEN last - pos ELSE 0
<1>1. k \in Nat /\ 1..(last - pos) = 1..k
  OBVIOUS
<1>2. \A i \in 1..(last - pos) : <<n, pos + i - 1>> \in Cell
  BY PollsAssumption DEF Cell
<1> HIDE DEF k
<1>3. [i \in 1..(last - pos) |-> <<n, pos + i - 1>>] \in [1..k -> Cell]
  BY <1>1, <1>2
<1> QED
  BY <1>1, <1>3, SeqDef

-----------------------------------------------------------------------------
(* Type correctness *)

LEMMA PointsUnion == \A t \in Threads : PointsOf(t) \subseteq Points
  BY DEF Points

LEMMA InitType == Init => TypeOK
<1> SUFFICES ASSUME Init PROVE TypeOK
  OBVIOUS
<1>1. ControlTypeOK /\ MutexTypeOK
  <2>1. \A t \in Threads : pc[t] \in PointsOf(t)
    BY DEF Init, Threads, PointsOf
  <2> QED
    BY <2>1, PointsUnion DEF Init, ControlTypeOK, MutexTypeOK
<1>2. Unwritten \in Cell
  BY DEF Cell
<1>3. ReaderTypeOK
  <2>1. rx \in Seq(Cell)
    BY EmptySeq DEF Init
  <2>2. msg \in [0..MsgSize-1 -> Cell]
    BY <1>2 DEF Init
  <2>3. /\ nread \in 0..FirstRead
        /\ tmp \in -1..5
        /\ msg_length \in -1..FirstRead+5
        /\ modbus_data_change \in BOOLEAN /\ early \in BOOLEAN
    <3>1. nread = 0 /\ tmp = 0 /\ msg_length = 0
      BY DEF Init
    <3>2. modbus_data_change = FALSE /\ early = FALSE
      BY DEF Init
    <3>3. modbus_data_change \in BOOLEAN /\ early \in BOOLEAN
      BY <3>2
    <3> QED
      BY <3>1, <3>3 DEF FirstRead
  <2> QED
    BY <2>1, <2>2, <2>3 DEF ReaderTypeOK
<1>4. StoreTypeOK
  BY <1>2, FaultsAssumption DEF Init, StoreTypeOK, Slaves, Segment
<1>5. LineTypeOK
  BY PollsAssumption DEF Init, LineTypeOK
<1> QED
  BY <1>1, <1>3, <1>4, <1>5 DEF TypeOK

\* A thread that goes to one of its own points keeps the control state typed.
LEMMA GotoType ==
  ASSUME ControlTypeOK, NEW t \in Threads, NEW l \in PointsOf(t), Goto(t, l),
         UNCHANGED up
  PROVE  ControlTypeOK'
<1>1. pc' \in [Threads -> Points]
  BY PointsUnion DEF ControlTypeOK, Goto
<1>2. \A u \in Threads : pc'[u] = IF u = t THEN l ELSE pc[u]
  BY DEF ControlTypeOK, Goto
<1> QED
  BY <1>1, <1>2 DEF ControlTypeOK

\* Locking, unlocking, ending the process and starting threads touch nothing
\* but up, pc and the mutex.
LEMMA ControlStepType ==
  ASSUME TypeOK, UNCHANGED dataVars PROVE ReaderTypeOK' /\ StoreTypeOK' /\ LineTypeOK'
<1> USE DEF dataVars, readVars, bufVars, procVars, lineVars, netVars
<1>1. ReaderTypeOK'
  BY DEF TypeOK, ReaderTypeOK
<1>2. StoreTypeOK'
  BY DEF TypeOK, StoreTypeOK
<1>3. LineTypeOK'
  BY DEF TypeOK, LineTypeOK
<1> QED
  BY <1>1, <1>2, <1>3

LEMMA ExitType == ASSUME TypeOK, Exit PROVE TypeOK'
<1>1. ControlTypeOK' /\ MutexTypeOK'
  BY DEF TypeOK, ControlTypeOK, MutexTypeOK, Exit, mutexVars
<1> QED
  BY <1>1, ControlStepType DEF Exit, TypeOK

LEMMA LockType ==
  ASSUME TypeOK, NEW t \in Threads, NEW from, NEW to \in PointsOf(t), Lock(t, from, to)
  PROVE  TypeOK'
<1>1. ControlTypeOK'
  BY GotoType DEF TypeOK, Lock, Step
<1>2. MutexTypeOK'
  BY DEF TypeOK, MutexTypeOK, Lock
<1> QED
  BY <1>1, <1>2, ControlStepType DEF Lock, TypeOK

LEMMA MutexInitType ==
  ASSUME TypeOK, NEW t \in Threads, NEW from, NEW to \in PointsOf(t),
         MutexInit(t, from, to)
  PROVE  TypeOK'
<1>1. ControlTypeOK'
  BY GotoType DEF TypeOK, MutexInit, Step
<1>2. MutexTypeOK'
  BY DEF TypeOK, MutexTypeOK, MutexInit
<1> QED
  BY <1>1, <1>2, ControlStepType DEF MutexInit, TypeOK

LEMMA StartThreadType ==
  ASSUME TypeOK, NEW t \in Threads, NEW u \in Threads \ {t}, NEW from,
         NEW to \in PointsOf(t), NEW start \in PointsOf(u),
         StartThread(t, from, to, u, start)
  PROVE  TypeOK'
<1>1. CASE Exit
  BY <1>1, ExitType
<1>2. CASE /\ pc' = [pc EXCEPT ![t] = to, ![u] = start]
           /\ UNCHANGED <<up, mutexVars, dataVars>>
  <2>1. pc' \in [Threads -> Points]
    BY <1>2, PointsUnion DEF TypeOK, ControlTypeOK
  <2>2. \A v \in Threads :
          pc'[v] = IF v = u THEN start ELSE IF v = t THEN to ELSE pc[v]
    BY <1>2 DEF TypeOK, ControlTypeOK
  <2>3. ControlTypeOK'
    BY <1>2, <2>1, <2>2 DEF TypeOK, ControlTypeOK
  <2>4. MutexTypeOK'
    BY <1>2 DEF TypeOK, MutexTypeOK, mutexVars
  <2> QED
    BY <1>2, <2>3, <2>4, ControlStepType DEF TypeOK
<1> QED
  BY <1>1, <1>2 DEF StartThread

LEMMA StartType == ASSUME TypeOK, Main \/ Spi \/ Modbus PROVE TypeOK'
<1> USE DEF Threads, PointsOf
<1>1. CASE Main
  BY <1>1, MutexInitType, StartThreadType DEF Main
<1>2. CASE pc["spi"] \in {"open", "beat"} /\ Exit
  BY <1>2, ExitType
<1>3. CASE Step("spi", "open", "beat") /\ UNCHANGED <<up, mutexVars, dataVars>>
  <2>1. ControlTypeOK'
    BY <1>3, GotoType DEF TypeOK, Step
  <2> QED
    BY <1>3, <2>1, ControlStepType DEF TypeOK, MutexTypeOK, mutexVars
<1>4. CASE OpenSerial
  <2>1. CASE Exit
    BY <2>1, ExitType
  <2>2. CASE Step("modbus", "open", "init") /\ UNCHANGED <<up, mutexVars, dataVars>>
    <3>1. ControlTypeOK'
      BY <2>2, GotoType DEF TypeOK, Step
    <3> QED
      BY <2>2, <3>1, ControlStepType DEF TypeOK, MutexTypeOK, mutexVars
  <2> QED
    BY <1>4, <2>1, <2>2 DEF OpenSerial
<1>5. CASE Modbus /\ ~OpenSerial
  BY <1>5, MutexInitType, StartThreadType DEF Modbus
<1> QED
  BY <1>1, <1>2, <1>3, <1>4, <1>5 DEF Spi

LEMMA ComReadType == ASSUME TypeOK, ComRead PROVE TypeOK'
<1> USE DEF Threads, PointsOf
<1>1. CASE Select
  <2>1. ControlTypeOK'
    BY <1>1, GotoType DEF Select, Step, TypeOK
  <2> QED
    BY <1>1, <2>1, ControlStepType DEF Select, TypeOK, MutexTypeOK, mutexVars
<1>2. CASE \/ Lock("com_read", "lock1", "read1")
           \/ Lock("com_read", "lock2", "read2")
  BY <1>2, LockType
<1>3. CASE ReadFirst
  <2>1. ControlTypeOK'
    BY <1>3, GotoType DEF ReadFirst, Step, TypeOK
  <2>2. PICK k \in 0..FirstRead : k <= Len(rx) /\ nread' = k /\ Read(0, k)
    <3>1. Len(rx) \in Nat
      BY LenProperties DEF TypeOK, ReaderTypeOK
    <3> DEFINE k == AtMost(FirstRead, Len(rx))
    <3>2. k \in 0..FirstRead /\ k <= Len(rx)
      BY <3>1, AtMostType DEF FirstRead
    <3>3. nread' = k /\ Read(0, k)
      BY <1>3 DEF ReadFirst
    <3> HIDE DEF k
    <3> QED
      BY <3>2, <3>3
  <2>3. msg' \in [0..MsgSize-1 -> Cell] /\ rx' \in Seq(Cell)
    BY <2>2, ReadType DEF TypeOK, ReaderTypeOK, FirstRead
  <2>4. ReaderTypeOK'
    BY <1>3, <2>2, <2>3 DEF ReadFirst, TypeOK, ReaderTypeOK
  <2> QED
    BY <1>3, <2>1, <2>4 DEF ReadFirst, TypeOK, MutexTypeOK, StoreTypeOK,
                            LineTypeOK, mutexVars, procVars, lineVars, netVars
<1>4. CASE Classify
  <2>1. \E l \in {"store_len", "lock2", "select"} : Goto("com_read", l)
    BY <1>4 DEF Classify
  <2>2. ControlTypeOK'
    BY <1>4, <2>1, GotoType DEF Classify, TypeOK
  <2> QED
    BY <1>4, <2>2, ControlStepType DEF Classify, Unlock, TypeOK, MutexTypeOK
<1>5. CASE ReadSecond
  <2>1. ControlTypeOK'
    BY <1>5, GotoType DEF ReadSecond, Step, TypeOK
  <2>2. PICK k \in 0..SecondRead :
          k <= Len(rx) /\ tmp' = (IF k = 0 THEN -1 ELSE k) /\ Read(nread, k)
    <3>1. Len(rx) \in Nat
      BY LenProperties DEF TypeOK, ReaderTypeOK
    <3> DEFINE k == AtMost(SecondRead, Len(rx))
    <3>2. k \in 0..SecondRead /\ k <= Len(rx)
      BY <3>1, AtMostType DEF SecondRead
    <3>3. tmp' = (IF k = 0 THEN -1 ELSE k) /\ Read(nread, k)
      BY <1>5 DEF ReadSecond
    <3> HIDE DEF k
    <3> QED
      BY <3>2, <3>3
  <2>3. msg' \in [0..MsgSize-1 -> Cell] /\ rx' \in Seq(Cell)
    BY <2>2, ReadType DEF TypeOK, ReaderTypeOK, FirstRead, SecondRead
  <2>4. ReaderTypeOK'
    BY <1>5, <2>2, <2>3 DEF ReadSecond, TypeOK, ReaderTypeOK, SecondRead
  <2> QED
    BY <1>5, <2>1, <2>4 DEF ReadSecond, TypeOK, MutexTypeOK, StoreTypeOK,
                            LineTypeOK, mutexVars, procVars, lineVars, netVars
<1>6. CASE UnlockSecond
  <2>1. ControlTypeOK'
    BY <1>6, GotoType DEF UnlockSecond, Step, TypeOK
  <2> QED
    BY <1>6, <2>1, ControlStepType DEF UnlockSecond, Unlock, TypeOK, MutexTypeOK
<1>7. CASE StoreLength
  <2>1. \E l \in {"store_flag", "select"} : Goto("com_read", l)
    BY <1>7 DEF StoreLength
  <2>2. ControlTypeOK'
    BY <1>7, <2>1, GotoType DEF StoreLength, TypeOK
  <2>3. ReaderTypeOK'
    BY <1>7 DEF StoreLength, TypeOK, ReaderTypeOK, FirstRead, readVars
  <2> QED
    BY <1>7, <2>2, <2>3 DEF StoreLength, TypeOK, MutexTypeOK, StoreTypeOK,
                            LineTypeOK, mutexVars, procVars, lineVars, netVars
<1>8. CASE StoreFlag
  <2>1. \E l \in {"store_len_late", "select"} : Goto("com_read", l)
    BY <1>8 DEF StoreFlag, Step
  <2>2. ControlTypeOK'
    BY <1>8, <2>1, GotoType DEF StoreFlag, TypeOK
  <2>3. ReaderTypeOK'
    BY <1>8 DEF StoreFlag, TypeOK, ReaderTypeOK, readVars
  <2> QED
    BY <1>8, <2>2, <2>3 DEF StoreFlag, TypeOK, MutexTypeOK, StoreTypeOK,
                            LineTypeOK, mutexVars, procVars, lineVars, netVars
<1> QED
  BY <1>1, <1>2, <1>3, <1>4, <1>5, <1>6, <1>7, <1>8 DEF ComRead

LEMMA ComSendType == ASSUME TypeOK, ComSend PROVE TypeOK'
<1>1. \E l \in PointsOf("com_send") : Goto("com_send", l)
  BY DEF ComSend, WriteCommand, TurnAround, Step, PointsOf
<1>2. UNCHANGED <<up, mutexVars, readVars, bufVars, procVars, rx, netVars>>
  BY DEF ComSend, WriteCommand, TurnAround
<1>3. ControlTypeOK'
  BY <1>1, <1>2, GotoType DEF TypeOK, Threads
<1>4. LineTypeOK'
  <2>1. CASE WriteCommand
    BY <2>1, PollsAssumption DEF WriteCommand, TypeOK, LineTypeOK
  <2>2. CASE TurnAround
    BY <2>2 DEF TurnAround, TypeOK, LineTypeOK
  <2> QED
    BY <2>1, <2>2 DEF ComSend
<1>5. MutexTypeOK' /\ ReaderTypeOK' /\ StoreTypeOK'
  BY <1>2 DEF TypeOK, MutexTypeOK, ReaderTypeOK, StoreTypeOK, mutexVars,
              readVars, bufVars, procVars, netVars
<1> QED
  BY <1>3, <1>4, <1>5 DEF TypeOK

LEMMA LineType == ASSUME TypeOK, Line PROVE TypeOK'
<1>1. UNCHANGED <<up, pc, mutexVars, readVars, bufVars, procVars, netVars>>
  BY DEF Line, SlaveAnswers, LineDelivers
<1>2. ControlTypeOK' /\ MutexTypeOK' /\ StoreTypeOK'
  BY <1>1 DEF TypeOK, ControlTypeOK, MutexTypeOK, StoreTypeOK, mutexVars,
              procVars, netVars
<1>3. LineTypeOK' /\ rx' \in Seq(Cell)
  <2>1. CASE SlaveAnswers
    BY <2>1, PollsAssumption DEF SlaveAnswers, TypeOK, LineTypeOK, ReaderTypeOK
  <2>2. CASE LineDelivers
    <3> DEFINE n == answering.frame
    <3>1. n \in 1..MaxPolls /\ answering.pos \in 0..20
      BY <2>2, PollsAssumption DEF LineDelivers, TypeOK, LineTypeOK
    <3>2. FrameLen(n) \in {11, 21}
      BY <3>1, FrameLenType, PollsAssumption
    <3>3. PICK c \in Chunks :
            LET last == AtMost(answering.pos + c, FrameLen(n))
                bytes == [i \in 1..(last - answering.pos) |->
                            <<n, answering.pos + i - 1>>]
            IN /\ answering' = IF last = FrameLen(n) THEN [frame |-> 0, pos |-> 0]
                               ELSE [answering EXCEPT !.pos = last]
               /\ rx' \in IF de = "rece" THEN {rx, rx \o bytes} ELSE {rx}
      BY <2>2 DEF LineDelivers
    <3> DEFINE last == AtMost(answering.pos + c, FrameLen(n))
               bytes == [i \in 1..(last - answering.pos) |->
                           <<n, answering.pos + i - 1>>]
    <3>4. last \in 0..21 /\ (last # FrameLen(n) => last \in 0..20)
      BY <3>1, <3>2, ChunksAssumption DEF AtMost
    <3>5. bytes \in Seq(Cell)
      BY <3>1, <3>4, BytesType
    <3>6. rx \o bytes \in Seq(Cell)
      BY <3>5, ConcatProperties DEF TypeOK, ReaderTypeOK
    <3>7. rx' \in Seq(Cell)
      BY <3>3, <3>6 DEF TypeOK, ReaderTypeOK
    <3>8. answering' \in [frame : 0..MaxPolls, pos : 0..20]
      <4>1. CASE last = FrameLen(n)
        BY <3>3, <4>1, PollsAssumption
      <4>2. CASE last # FrameLen(n)
        <5>1. last \in 0..20 /\ answering' = [answering EXCEPT !.pos = last]
          BY <3>3, <3>4, <4>2
        <5> HIDE DEF last
        <5> QED
          BY <5>1 DEF TypeOK, LineTypeOK
      <4> QED
        BY <4>1, <4>2
    <3> QED
      BY <2>2, <3>7, <3>8 DEF LineDelivers, TypeOK, LineTypeOK
  <2> QED
    BY <2>1, <2>2 DEF Line
<1>4. ReaderTypeOK'
  BY <1>1, <1>3 DEF TypeOK, ReaderTypeOK, readVars, bufVars
<1> QED
  BY <1>2, <1>3, <1>4 DEF TypeOK

LEMMA ProcDataType == ASSUME TypeOK, ProcData PROVE TypeOK'
<1> USE DEF Threads, PointsOf
<1>1. CASE TestFlag
  <2>1. ControlTypeOK'
    BY <1>1, GotoType DEF TestFlag, Step, TypeOK
  <2> QED
    BY <1>1, <2>1, ControlStepType DEF TestFlag, TypeOK, MutexTypeOK, mutexVars
<1>2. CASE Lock("proc_data", "lock", "clear")
  BY <1>2, LockType
<1>3. CASE ClearFlag
  <2>1. ControlTypeOK'
    BY <1>3, GotoType DEF ClearFlag, Step, TypeOK
  <2>2. ReaderTypeOK'
    BY <1>3 DEF ClearFlag, TypeOK, ReaderTypeOK, readVars
  <2> QED
    BY <1>3, <2>1, <2>2 DEF ClearFlag, TypeOK, MutexTypeOK, StoreTypeOK,
                            LineTypeOK, mutexVars, procVars, lineVars, netVars
<1>4. CASE CheckMessage
  <2>1. \E l \in {"copy_first", "leave"} : Goto("proc_data", l)
    BY <1>4 DEF CheckMessage
  <2>2. ControlTypeOK'
    BY <1>4, <2>1, GotoType DEF CheckMessage, TypeOK
  <2>3. AddressIn(msg) \in Slaves
    <3>1. msg[0] \in Cell
      BY DEF TypeOK, ReaderTypeOK, MsgSize
    <3>2. msg[0][1] \in Int
      BY <3>1, PollsAssumption DEF Cell, Unwritten
    <3> QED
      BY <3>2, SlaveOfType DEF AddressIn
  <2>4. StoreTypeOK'
    BY <1>4, <2>3 DEF CheckMessage, TypeOK, StoreTypeOK, netVars
  <2> QED
    BY <1>4, <2>2, <2>4 DEF CheckMessage, TypeOK, MutexTypeOK, ReaderTypeOK,
                            LineTypeOK, mutexVars, readVars, bufVars, lineVars
<1>5. CASE CopyFirst \/ CopyLast
  <2>1. \E l \in {"copy_last", "leave"} : Goto("proc_data", l)
    BY <1>5 DEF CopyFirst, CopyLast, Step
  <2>2. UNCHANGED <<up, mutexVars, readVars, bufVars, target, lineVars, rx, netVars>>
    BY <1>5 DEF CopyFirst, CopyLast
  <2>3. ControlTypeOK'
    BY <2>1, <2>2, GotoType DEF TypeOK
  <2>4. msg[3] \in Cell /\ msg[2 + DataLen(target)] \in Cell
    BY DEF TypeOK, ReaderTypeOK, MsgSize, DataLen
  <2>5. dataBuf' \in [Slaves -> Segment]
    BY <1>5, <2>4 DEF CopyFirst, CopyLast, TypeOK, StoreTypeOK, Segment
  <2>6. StoreTypeOK'
    BY <2>2, <2>5 DEF TypeOK, StoreTypeOK, netVars
  <2> QED
    BY <2>2, <2>3, <2>6 DEF TypeOK, MutexTypeOK, ReaderTypeOK, LineTypeOK,
                            mutexVars, readVars, bufVars, lineVars
<1>6. CASE LeaveProc
  <2>1. ControlTypeOK'
    BY <1>6, GotoType DEF LeaveProc, Step, TypeOK
  <2> QED
    BY <1>6, <2>1, ControlStepType DEF LeaveProc, Unlock, TypeOK, MutexTypeOK
<1> QED
  BY <1>1, <1>2, <1>3, <1>4, <1>5, <1>6 DEF ProcData

LEMMA TcpType == ASSUME TypeOK, Tcp PROVE TypeOK'
<1> USE DEF Threads, PointsOf
<1>1. CASE Lock("tcp", "lock", "send")
  BY <1>1, LockType
<1>2. CASE LeaveTcp
  <2>1. \E l \in {"lock", "socket"} : Goto("tcp", l)
    BY <1>2 DEF LeaveTcp
  <2>2. ControlTypeOK'
    BY <1>2, <2>1, GotoType DEF LeaveTcp, TypeOK
  <2> QED
    BY <1>2, <2>2, ControlStepType DEF LeaveTcp, Unlock, TypeOK, MutexTypeOK
<1>3. CASE Socket \/ Connect \/ Send
  <2>1. UNCHANGED <<up, mutexVars, readVars, bufVars, procVars, lineVars, rx>>
    BY <1>3 DEF Socket, Connect, Send
  <2>2. \/ UNCHANGED pc
        \/ \E l \in {"connect", "lock", "socket", "sent_ok", "sent_err"} : Goto("tcp", l)
    BY <1>3 DEF Socket, Connect, Send
  <2>3. ControlTypeOK'
    BY <2>1, <2>2, GotoType DEF TypeOK, ControlTypeOK
  <2>4. sent' \in {sent, dataBuf} /\ faults' \in 0..MaxFaults
    BY <1>3, FaultsAssumption DEF Socket, Connect, Send, Fault, TypeOK, StoreTypeOK
  <2>5. StoreTypeOK'
    BY <2>1, <2>4 DEF TypeOK, StoreTypeOK, procVars
  <2> QED
    BY <2>1, <2>3, <2>5 DEF TypeOK, MutexTypeOK, ReaderTypeOK, LineTypeOK,
                            mutexVars, readVars, bufVars, lineVars
<1> QED
  BY <1>1, <1>2, <1>3 DEF Tcp

\* In every behaviour of the gateway every variable keeps its type: thread
\* positions, the 40 bytes of msg, and a message length of at most 26.
THEOREM TypeCorrect == Spec => []TypeOK
<1>1. TypeOK /\ [Next]_vars => TypeOK'
  <2> SUFFICES ASSUME TypeOK, [Next]_vars PROVE TypeOK'
    OBVIOUS
  <2>1. CASE UNCHANGED vars
    BY <2>1, ControlStepType DEF vars, TypeOK, ControlTypeOK, MutexTypeOK, mutexVars
  <2>2. CASE Next
    BY <2>1, <2>2, StartType, ComReadType, ComSendType, LineType, ProcDataType,
       TcpType DEF Next, Ended
  <2> QED
    BY <2>1, <2>2
<1> QED
  BY <1>1, InitType, PTL DEF Spec
-----------------------------------------------------------------------------
(* Mutual exclusion *)

\* Goto moves one thread and no other.
LEMMA GotoMoves ==
  ASSUME TypeOK, NEW t \in Threads, NEW l, Goto(t, l)
  PROVE  \A u \in Threads : pc'[u] = IF u = t THEN l ELSE pc[u]
  BY DEF TypeOK, ControlTypeOK, Goto

\* A step of com_read, com_send, proc_data or tcp moves that thread only, and
\* only one that exists.
LEMMA WorkerMoves ==
  ASSUME TypeOK
  PROVE  /\ ComRead => pc["com_read"] # "none" /\ \E l \in PointsOf("com_read") : Goto("com_read", l)
         /\ ComSend => \E l \in PointsOf("com_send") : Goto("com_send", l)
         /\ ProcData => pc["proc_data"] # "none" /\ \E l \in PointsOf("proc_data") : Goto("proc_data", l)
         /\ Tcp => pc["tcp"] # "none" /\ (UNCHANGED pc \/ \E l \in PointsOf("tcp") : Goto("tcp", l))
<1> USE DEF PointsOf, Step
<1>1. ComRead => pc["com_read"] # "none" /\ \E l \in PointsOf("com_read") : Goto("com_read", l)
  BY DEF ComRead, Select, Lock, ReadFirst, Classify, ReadSecond, UnlockSecond,
         StoreLength, StoreFlag
<1>2. ComSend => \E l \in PointsOf("com_send") : Goto("com_send", l)
  BY DEF ComSend, WriteCommand, TurnAround
<1>3. ProcData => pc["proc_data"] # "none" /\ \E l \in PointsOf("proc_data") : Goto("proc_data", l)
  BY DEF ProcData, TestFlag, Lock, ClearFlag, CheckMessage, CopyFirst, CopyLast, LeaveProc
<1>4. Tcp => pc["tcp"] # "none" /\ (UNCHANGED pc \/ \E l \in PointsOf("tcp") : Goto("tcp", l))
  BY DEF Tcp, Socket, Connect, Lock, Send, LeaveTcp
<1> QED
  BY <1>1, <1>2, <1>3, <1>4

\* The effect of a creation on the positions of the threads.
LEMMA StartMoves ==
  ASSUME TypeOK, NEW t \in Threads, NEW u \in Threads \ {t}, NEW from, NEW to, NEW start,
         StartThread(t, from, to, u, start)
  PROVE  \/ UNCHANGED pc
         \/ /\ pc[t] = from
            /\ \A v \in Threads :
                 pc'[v] = IF v = u THEN start ELSE IF v = t THEN to ELSE pc[v]
  BY DEF TypeOK, ControlTypeOK, StartThread, Exit

LEMMA CreatedStep == ASSUME TypeOK, CreatedInOrder, [Next]_vars PROVE CreatedInOrder'
<1> USE DEF CreatedInOrder, Threads
<1>1. CASE UNCHANGED pc
  BY <1>1
<1>2. CASE Main
  <2>1. CASE MutexInit("main", "boot", "mk_spi")
    BY <2>1, GotoMoves DEF MutexInit, Step
  <2>2. CASE StartThread("main", "mk_spi", "mk_modbus", "spi", "open")
    BY <1>1, <2>2, StartMoves
  <2>3. CASE StartThread("main", "mk_modbus", "mk_tcp", "modbus", "open")
    BY <1>1, <2>3, StartMoves
  <2>4. CASE StartThread("main", "mk_tcp", "spin", "tcp", "socket")
    BY <1>1, <2>4, StartMoves
  <2> QED
    BY <1>2, <2>1, <2>2, <2>3, <2>4 DEF Main
<1>3. CASE Spi
  BY <1>1, <1>3, GotoMoves DEF Spi, Step, Exit
<1>4. CASE Modbus
  <2>1. CASE OpenSerial
    BY <1>1, <2>1, GotoMoves DEF OpenSerial, Step, Exit
  <2>2. CASE MutexInit("modbus", "init", "mk_read")
    BY <2>2, GotoMoves DEF MutexInit, Step
  <2>3. CASE StartThread("modbus", "mk_read", "mk_send", "com_read", "select")
    BY <1>1, <2>3, StartMoves
  <2>4. CASE StartThread("modbus", "mk_send", "mk_proc", "com_send", "write")
    BY <1>1, <2>4, StartMoves
  <2>5. CASE StartThread("modbus", "mk_proc", "spin", "proc_data", "test")
    BY <1>1, <2>5, StartMoves
  <2> QED
    BY <1>4, <2>1, <2>2, <2>3, <2>4, <2>5 DEF Modbus
<1>5. CASE ComRead
  BY <1>5, WorkerMoves, GotoMoves
<1>6. CASE ComSend
  BY <1>6, WorkerMoves, GotoMoves
<1>7. CASE ProcData
  BY <1>7, WorkerMoves, GotoMoves
<1>8. CASE Tcp
  BY <1>1, <1>8, WorkerMoves, GotoMoves
<1>9. CASE Line
  BY <1>1, <1>9 DEF Line, SlaveAnswers, LineDelivers
<1> QED
  BY <1>1, <1>2, <1>3, <1>4, <1>5, <1>6, <1>7, <1>8, <1>9 DEF Next, Ended, vars

\* The four ways a step can touch the mutex and the critical sections.
LEMMA StayKeepsOwner ==
  ASSUME TypeOK, OwnerInside, NEW t \in Threads, NEW l, Goto(t, l),
         l \in CriticalPoints <=> pc[t] \in CriticalPoints, UNCHANGED mutexVars
  PROVE  OwnerInside'
  BY GotoMoves DEF OwnerInside, InCS, mutexVars

LEMMA LockKeepsOwner ==
  ASSUME TypeOK, OwnerInside, NEW t \in Threads, NEW from, NEW to,
         from \notin CriticalPoints, to \in CriticalPoints, Lock(t, from, to)
  PROVE  OwnerInside'
<1>1. \A u \in Threads : pc'[u] = IF u = t THEN to ELSE pc[u]
  BY GotoMoves DEF Lock, Step
<1>2. Nobody \notin Threads
  BY DEF Nobody, Threads
<1> QED
  BY <1>1, <1>2 DEF OwnerInside, InCS, Lock, Step

LEMMA UnlockKeepsOwner ==
  ASSUME TypeOK, OwnerInside, NEW t \in Threads, NEW l, Goto(t, l),
         pc[t] \in CriticalPoints, l \notin CriticalPoints, Unlock
  PROVE  OwnerInside'
<1>1. Nobody \notin Threads
  BY DEF Nobody, Threads
<1> QED
  BY <1>1, GotoMoves DEF OwnerInside, InCS, Unlock

\* The second initialisation keeps the owner right unless it taints it.
LEMMA MutexInitKeepsOwner ==
  ASSUME TypeOK, OwnerInside, NEW t \in Threads, NEW from, NEW to,
         to \notin CriticalPoints, MutexInit(t, from, to)
  PROVE  OwnerInside'
<1>1. \A u \in Threads : pc'[u] = IF u = t THEN to ELSE pc[u]
  BY GotoMoves DEF MutexInit, Step
<1>2. Nobody \notin Threads
  BY DEF Nobody, Threads
<1> QED
  BY <1>1, <1>2 DEF OwnerInside, InCS, MutexInit

LEMMA StartKeepsOwner ==
  ASSUME TypeOK, OwnerInside, NEW t \in Threads, NEW u \in Threads \ {t},
         NEW from, NEW to, NEW start, pc[u] \notin CriticalPoints,
         {from, to, start} \cap CriticalPoints = {},
         StartThread(t, from, to, u, start)
  PROVE  OwnerInside'
<1>1. UNCHANGED mutexVars
  BY DEF StartThread, Exit
<1> QED
  BY <1>1, StartMoves DEF OwnerInside, InCS, mutexVars

LEMMA OwnerStep ==
  ASSUME TypeOK, CreatedInOrder, OwnerInside, [Next]_vars PROVE OwnerInside'
<1> USE DEF Threads, Step
<1>1. CASE UNCHANGED <<pc, mutexVars>>
  BY <1>1 DEF OwnerInside, InCS, mutexVars
<1>2. CASE Main
  <2>1. CASE MutexInit("main", "boot", "mk_spi")
    BY <2>1, MutexInitKeepsOwner DEF CriticalPoints
  <2>2. CASE Main /\ ~MutexInit("main", "boot", "mk_spi")
    <3>1. pc["main"] \in {"mk_spi", "mk_modbus", "mk_tcp"}
      BY <2>2 DEF Main, StartThread
    <3> QED
      BY <2>2, <3>1, StartKeepsOwner DEF Main, StartThread, CreatedInOrder, CriticalPoints
  <2> QED
    BY <1>2, <2>1, <2>2
<1>3. CASE Spi
  BY <1>1, <1>3, StayKeepsOwner DEF Spi, Exit, CriticalPoints
<1>4. CASE Modbus
  <2>1. CASE OpenSerial
    BY <1>1, <2>1, StayKeepsOwner DEF OpenSerial, Exit, CriticalPoints
  <2>2. CASE MutexInit("modbus", "init", "mk_read")
    BY <2>2, MutexInitKeepsOwner DEF CriticalPoints
  <2>3. CASE StartThread("modbus", "mk_read", "mk_send", "com_read", "select")
    BY <2>3, StartKeepsOwner DEF StartThread, CreatedInOrder, CriticalPoints
  <2>4. CASE StartThread("modbus", "mk_send", "mk_proc", "com_send", "write")
    <3>1. pc["com_send"] \notin CriticalPoints
      BY DEF TypeOK, ControlTypeOK, PointsOf, CriticalPoints
    <3> QED
      BY <2>4, <3>1, StartKeepsOwner DEF CriticalPoints
  <2>5. CASE StartThread("modbus", "mk_proc", "spin", "proc_data", "test")
    BY <2>5, StartKeepsOwner DEF StartThread, CreatedInOrder, CriticalPoints
  <2> QED
    BY <1>4, <2>1, <2>2, <2>3, <2>4, <2>5 DEF Modbus
<1>5. CASE ComRead
  <2>1. CASE Lock("com_read", "lock1", "read1") \/ Lock("com_read", "lock2", "read2")
    BY <2>1, LockKeepsOwner DEF CriticalPoints
  <2>2. CASE Classify \/ UnlockSecond
    <3>1. \E l \in {"store_len", "lock2", "select"} : Goto("com_read", l)
      BY <2>2 DEF Classify, UnlockSecond
    <3> QED
      BY <2>2, <3>1, UnlockKeepsOwner DEF Classify, UnlockSecond, CriticalPoints
  <2>3. CASE Select \/ StoreLength \/ StoreFlag
    <3>1. \E l \in {"lock1", "store_flag", "store_len_late", "select"} : Goto("com_read", l)
      BY <2>3 DEF Select, StoreLength, StoreFlag
    <3> QED
      BY <2>3, <3>1, StayKeepsOwner DEF Select, StoreLength, StoreFlag, CriticalPoints
  <2>4. CASE ReadFirst \/ ReadSecond
    BY <2>4, StayKeepsOwner DEF ReadFirst, ReadSecond, CriticalPoints
  <2> QED
    BY <1>5, <2>1, <2>2, <2>3, <2>4 DEF ComRead
<1>6. CASE ComSend
  BY <1>6, StayKeepsOwner DEF ComSend, WriteCommand, TurnAround, CriticalPoints
<1>7. CASE ProcData
  <2>1. CASE Lock("proc_data", "lock", "clear")
    BY <2>1, LockKeepsOwner DEF CriticalPoints
  <2>2. CASE LeaveProc
    BY <2>2, UnlockKeepsOwner DEF LeaveProc, CriticalPoints
  <2>3. CASE TestFlag \/ ClearFlag \/ CopyFirst \/ CopyLast
    BY <2>3, StayKeepsOwner DEF TestFlag, ClearFlag, CopyFirst, CopyLast, CriticalPoints
  <2>4. CASE CheckMessage
    <3>1. \E l \in {"copy_first", "leave"} : Goto("proc_data", l)
      BY <2>4 DEF CheckMessage
    <3> QED
      BY <2>4, <3>1, StayKeepsOwner DEF CheckMessage, CriticalPoints
  <2> QED
    BY <1>7, <2>1, <2>2, <2>3, <2>4 DEF ProcData
<1>8. CASE Tcp
  <2>1. CASE Lock("tcp", "lock", "send")
    BY <2>1, LockKeepsOwner DEF CriticalPoints
  <2>2. CASE LeaveTcp
    <3>1. \E l \in {"lock", "socket"} : Goto("tcp", l)
      BY <2>2 DEF LeaveTcp
    <3> QED
      BY <2>2, <3>1, UnlockKeepsOwner DEF LeaveTcp, CriticalPoints
  <2>3. CASE Socket \/ Connect
    BY <1>1, <2>3, StayKeepsOwner DEF Socket, Connect, CriticalPoints
  <2>4. CASE Send
    <3>1. \E l \in {"sent_ok", "sent_err"} : Goto("tcp", l)
      BY <2>4 DEF Send
    <3> QED
      BY <2>4, <3>1, StayKeepsOwner DEF Send, CriticalPoints
  <2> QED
    BY <1>8, <2>1, <2>2, <2>3, <2>4 DEF Tcp
<1>9. CASE Line
  BY <1>1, <1>9 DEF Line, SlaveAnswers, LineDelivers
<1> QED
  BY <1>1, <1>2, <1>3, <1>4, <1>5, <1>6, <1>7, <1>8, <1>9 DEF Next, Ended, vars

LEMMA InitOwner == Init => CreatedInOrder /\ OwnerInside
  BY DEF Init, CreatedInOrder, OwnerInside, InCS, CriticalPoints, Threads, Nobody

\* The owner invariant holds in every behaviour.
LEMMA OwnerCorrect == Spec => [](TypeOK /\ CreatedInOrder /\ OwnerInside)
<1>1. TypeOK /\ CreatedInOrder /\ OwnerInside /\ [Next]_vars => CreatedInOrder' /\ OwnerInside'
  BY CreatedStep, OwnerStep
<1> QED
  BY <1>1, InitOwner, TypeCorrect, PTL DEF Spec

\* Two threads are never both between lock and unlock, however many answers,
\* faults and cuts there are, unless the mutex was initialised again while a
\* thread held it (modbus_demo.c:202).
THEOREM Exclusion == Spec => []ExclusionUnlessReinit
<1>1. OwnerInside => ExclusionUnlessReinit
  BY DEF OwnerInside, ExclusionUnlessReinit, MutualExclusion
<1> QED
  BY <1>1, OwnerCorrect, PTL
-----------------------------------------------------------------------------
(* What dataBuf and the uploads hold *)

DataInv == CopiesAnswer /\ WholeSegments /\ Attribution /\ WholeUploads

Copying == pc["proc_data"] \in {"copy_first", "copy_last"}

\* A step that leaves msg, dataBuf and the uploads alone and neither begins
\* nor ends a copy.
LEMMA StayKeepsData ==
  ASSUME DataInv, UNCHANGED <<msg, dataBuf, target, sent>>, tainted => tainted',
         UNCHANGED pc["proc_data"] \/ (~Copying /\ ~Copying')
  PROVE  DataInv'
<1>1. CopiesAnswer'
  BY DEF DataInv, CopiesAnswer, Copying
<1>2. WholeSegments' /\ Attribution' /\ WholeUploads'
  BY DEF DataInv, WholeSegments, Attribution, WholeUploads, Copying
<1> QED
  BY <1>1, <1>2 DEF DataInv

\* com_read fills msg only while proc_data does not copy.
LEMMA ReadKeepsData ==
  ASSUME TypeOK, OwnerInside, DataInv, ReadFirst \/ ReadSecond PROVE DataInv'
<1>1. UNCHANGED <<dataBuf, target, sent, tainted>>
  BY DEF ReadFirst, ReadSecond, mutexVars, procVars, netVars
<1>2. UNCHANGED pc["proc_data"]
  BY GotoMoves DEF ReadFirst, ReadSecond, Step, Threads
<1>3. tainted \/ ~Copying
  <2>1. InCS("com_read")
    BY DEF ReadFirst, ReadSecond, Step, InCS, CriticalPoints
  <2>2. Copying => InCS("proc_data")
    BY DEF Copying, InCS, CriticalPoints
  <2> QED
    BY <2>1, <2>2 DEF OwnerInside, Threads
<1>4. CopiesAnswer'
  BY <1>1, <1>2, <1>3 DEF CopiesAnswer, Copying
<1>5. WholeSegments' /\ Attribution' /\ WholeUploads'
  BY <1>1, <1>2 DEF DataInv, WholeSegments, Attribution, WholeUploads
<1> QED
  BY <1>4, <1>5 DEF DataInv

\* A message that passes the check is one whole answer of the slave whose
\* segment is chosen.
LEMMA CheckKeepsData == ASSUME TypeOK, DataInv, CheckMessage PROVE DataInv'
<1>1. UNCHANGED <<msg, dataBuf, sent, tainted>>
  BY DEF CheckMessage, mutexVars, bufVars, netVars
<1>2. CASE ~CheckIntegrity(msg, msg_length)
  <2>1. UNCHANGED target /\ pc'["proc_data"] = "leave" /\ pc["proc_data"] = "check"
    BY <1>2, GotoMoves DEF CheckMessage, Threads
  <2> QED
    BY <1>1, <2>1, StayKeepsData DEF Copying
<1>3. CASE CheckIntegrity(msg, msg_length)
  <2>1. pc'["proc_data"] = "copy_first" /\ pc["proc_data"] = "check"
    BY <1>3, GotoMoves DEF CheckMessage, Threads
  <2>2. PICK n \in 1..MaxPolls : \A i \in 0..FrameLen(n)-1 : msg[i] = <<n, i>>
    BY <1>3 DEF CheckIntegrity
  <2>3. n \in Int /\ FrameLen(n) = DataLen(SlaveOf(n)) + 5 /\ DataLen(SlaveOf(n)) \in {6, 16}
    BY FrameLenType, PollsAssumption
  <2>4. msg[0] = <<n, 0>> /\ msg[3] = <<n, 3>>
        /\ msg[2 + DataLen(SlaveOf(n))] = <<n, 2 + DataLen(SlaveOf(n))>>
    BY <2>2, <2>3
  <2>5. target' = SlaveOf(n)
    BY <1>3, <2>4 DEF CheckMessage, AddressIn
  <2>6. CopiesAnswer'
    BY <1>1, <2>1, <2>4, <2>5 DEF CopiesAnswer
  <2>7. WholeSegments' /\ Attribution' /\ WholeUploads'
    BY <1>1, <2>1 DEF DataInv, WholeSegments, Attribution, WholeUploads
  <2> QED
    BY <2>6, <2>7 DEF DataInv
<1> QED
  BY <1>2, <1>3

\* The two ends of the copy.
LEMMA CopyKeepsData ==
  ASSUME TypeOK, DataInv, CopyFirst \/ CopyLast PROVE DataInv'
<1>1. UNCHANGED <<msg, target, sent, tainted>>
  BY DEF CopyFirst, CopyLast, mutexVars, bufVars, netVars
<1>2. SUFFICES ASSUME ~tainted PROVE DataInv'
  BY <1>1 DEF DataInv, CopiesAnswer, WholeSegments, Attribution, WholeUploads
<1>3. PICK n \in 1..MaxPolls :
        /\ target = SlaveOf(n)
        /\ msg[3] = <<n, 3>>
        /\ msg[2 + DataLen(target)] = <<n, 2 + DataLen(target)>>
        /\ pc["proc_data"] = "copy_last" => dataBuf[target].first = <<n, 3>>
  BY <1>2 DEF DataInv, CopiesAnswer, CopyFirst, CopyLast, Step
<1>4. dataBuf \in [Slaves -> Segment] /\ target \in Slaves
  BY DEF TypeOK, StoreTypeOK
<1>5. CASE CopyFirst
  <2>1. pc["proc_data"] = "copy_first" /\ pc'["proc_data"] = "copy_last"
    BY <1>5, GotoMoves DEF CopyFirst, Step, Threads
  <2>2. \A s \in Slaves :
          /\ dataBuf'[s].first = IF s = target THEN <<n, 3>> ELSE dataBuf[s].first
          /\ dataBuf'[s].last = dataBuf[s].last
    BY <1>3, <1>4, <1>5 DEF CopyFirst, Segment
  <2>3. CopiesAnswer'
    BY <1>1, <1>3, <1>4, <2>1, <2>2 DEF CopiesAnswer
  <2>4. WholeSegments'
    BY <1>1, <1>2, <2>1, <2>2 DEF DataInv, WholeSegments, Whole
  <2>5. Attribution' /\ WholeUploads'
    BY <1>1, <1>2, <1>3, <2>2 DEF DataInv, Attribution, WholeUploads
  <2> QED
    BY <2>3, <2>4, <2>5 DEF DataInv
<1>6. CASE CopyLast
  <2>1. pc["proc_data"] = "copy_last" /\ pc'["proc_data"] = "leave"
    BY <1>6, GotoMoves DEF CopyLast, Step, Threads
  <2>2. \A s \in Slaves :
          /\ dataBuf'[s].first = dataBuf[s].first
          /\ dataBuf'[s].last = IF s = target THEN <<n, 2 + DataLen(target)>>
                                ELSE dataBuf[s].last
    BY <1>3, <1>4, <1>6 DEF CopyLast, Segment
  <2>3. dataBuf[target].first = <<n, 3>>
    BY <1>3, <2>1
  <2>4. CopiesAnswer'
    BY <2>1 DEF CopiesAnswer
  <2>5. WholeSegments'
    BY <1>2, <2>2, <2>3 DEF DataInv, WholeSegments, Whole
  <2>6. Attribution' /\ WholeUploads'
    BY <1>1, <1>2, <1>3, <2>2 DEF DataInv, Attribution, WholeUploads
  <2> QED
    BY <2>4, <2>5, <2>6 DEF DataInv
<1> QED
  BY <1>5, <1>6

\* tcp sends only while proc_data does not copy, hence whole segments.
LEMMA SendKeepsData ==
  ASSUME TypeOK, OwnerInside, DataInv, Send PROVE DataInv'
<1>1. UNCHANGED <<msg, dataBuf, target, tainted>> /\ sent' \in {sent, dataBuf}
  BY DEF Send, mutexVars, bufVars, procVars
<1>2. UNCHANGED pc["proc_data"]
  BY GotoMoves DEF Send, Threads
<1>3. tainted \/ ~Copying
  <2>1. InCS("tcp")
    BY DEF Send, InCS, CriticalPoints
  <2>2. Copying => InCS("proc_data")
    BY DEF Copying, InCS, CriticalPoints
  <2> QED
    BY <2>1, <2>2 DEF OwnerInside, Threads
<1>4. CopiesAnswer' /\ WholeSegments' /\ Attribution'
  BY <1>1, <1>2 DEF DataInv, CopiesAnswer, WholeSegments, Attribution
<1>5. WholeUploads'
  BY <1>1, <1>3 DEF DataInv, WholeSegments, WholeUploads, Copying
<1> QED
  BY <1>4, <1>5 DEF DataInv

LEMMA DataStep ==
  ASSUME TypeOK, CreatedInOrder, OwnerInside, DataInv, [Next]_vars PROVE DataInv'
<1> USE DEF Threads
<1>1. CASE UNCHANGED <<pc, tainted, msg, dataBuf, target, sent>>
  BY <1>1, StayKeepsData
<1>2. CASE Main \/ Spi \/ Modbus
  <2>1. UNCHANGED <<msg, dataBuf, target, sent>> /\ (tainted => tainted')
    <3>1. UNCHANGED dataVars /\ (UNCHANGED mutexVars \/ tainted' = (tainted \/ \E u \in Threads : InCS(u)))
      BY <1>2 DEF Main, Spi, Modbus, OpenSerial, MutexInit, StartThread, Exit
    <3>2. UNCHANGED <<msg, dataBuf, target, sent>>
      BY <3>1 DEF dataVars, bufVars, procVars, netVars
    <3>3. tainted => tainted'
      BY <3>1, Zenon DEF mutexVars
    <3> QED
      BY <3>2, <3>3
  <2>2. UNCHANGED pc["proc_data"] \/ (~Copying /\ ~Copying')
    <3>1. CASE Main \/ Spi
      BY <3>1, GotoMoves, StartMoves DEF Main, Spi, MutexInit, Step, Exit
    <3>2. CASE Modbus
      BY <3>2, GotoMoves, StartMoves
      DEF Modbus, OpenSerial, MutexInit, Step, Exit, CreatedInOrder, Copying
    <3> QED
      BY <1>2, <3>1, <3>2
  <2> QED
    BY <2>1, <2>2, StayKeepsData
<1>3. CASE ReadFirst \/ ReadSecond
  BY <1>3, ReadKeepsData
<1>4. CASE ComRead /\ ~(ReadFirst \/ ReadSecond)
  <2>1. UNCHANGED <<msg, dataBuf, target, sent, tainted>>
    BY <1>4 DEF ComRead, Select, Lock, Classify, UnlockSecond, Unlock, StoreLength,
                StoreFlag, mutexVars, dataVars, bufVars, procVars, netVars
  <2>2. UNCHANGED pc["proc_data"]
    BY <1>4, WorkerMoves, GotoMoves
  <2> QED
    BY <2>1, <2>2, StayKeepsData
<1>5. CASE ComSend
  <2>1. UNCHANGED <<msg, dataBuf, target, sent, tainted>>
    BY <1>5 DEF ComSend, WriteCommand, TurnAround, mutexVars, bufVars, procVars, netVars
  <2>2. UNCHANGED pc["proc_data"]
    BY <1>5, WorkerMoves, GotoMoves
  <2> QED
    BY <2>1, <2>2, StayKeepsData
<1>6. CASE CheckMessage
  BY <1>6, CheckKeepsData
<1>7. CASE CopyFirst \/ CopyLast
  BY <1>7, CopyKeepsData
<1>8. CASE ProcData /\ ~(CheckMessage \/ CopyFirst \/ CopyLast)
  <2>1. UNCHANGED <<msg, dataBuf, target, sent, tainted>>
    BY <1>8 DEF ProcData, TestFlag, Lock, ClearFlag, LeaveProc, Unlock, mutexVars,
                dataVars, bufVars, procVars, netVars
  <2>2. ~Copying /\ ~Copying'
    BY <1>8, GotoMoves DEF ProcData, TestFlag, Lock, ClearFlag, LeaveProc, Step, Copying
  <2> QED
    BY <2>1, <2>2, StayKeepsData
<1>9. CASE Send
  BY <1>9, SendKeepsData
<1>10. CASE Tcp /\ ~Send
  <2>1. UNCHANGED <<msg, dataBuf, target, sent, tainted>>
    BY <1>10 DEF Tcp, Socket, Connect, Lock, LeaveTcp, Unlock, mutexVars, dataVars,
                 bufVars, procVars, netVars
  <2>2. UNCHANGED pc["proc_data"]
    BY <1>10, WorkerMoves, GotoMoves
  <2> QED
    BY <2>1, <2>2, StayKeepsData
<1>11. CASE Line
  BY <1>1, <1>11 DEF Line, SlaveAnswers, LineDelivers, mutexVars, bufVars, procVars, netVars
<1> QED
  BY <1>1, <1>2, <1>3, <1>4, <1>5, <1>6, <1>7, <1>8, <1>9, <1>10, <1>11
  DEF Next, Ended, vars, mutexVars, dataVars, bufVars, procVars, netVars

LEMMA InitData == Init => DataInv
<1> SUFFICES ASSUME Init PROVE DataInv
  OBVIOUS
<1>1. \A s \in Slaves :
        /\ dataBuf[s] = [first |-> Unwritten, last |-> Unwritten]
        /\ sent[s] = [first |-> Unwritten, last |-> Unwritten]
  BY DEF Init
<1>2. pc["proc_data"] = "none"
  BY DEF Init, Threads
<1> QED
  BY <1>1, <1>2, PollsAssumption
  DEF DataInv, CopiesAnswer, WholeSegments, Attribution, WholeUploads, Whole, Unwritten

LEMMA DataCorrect == Spec => []DataInv
<1>1. /\ TypeOK /\ CreatedInOrder /\ OwnerInside /\ DataInv /\ [Next]_vars
      => DataInv'
  BY DataStep
<1> QED
  BY <1>1, InitData, OwnerCorrect, PTL DEF Spec

\* What is uploaded is never half of one answer and half of another, unless
\* the mutex was initialised again while a thread held it.
THEOREM UploadsWhole == Spec => []WholeUploads
<1>1. DataInv => WholeUploads
  BY DEF DataInv
<1> QED
  BY <1>1, DataCorrect, PTL

\* The segment of a slave holds data bytes of answers of that slave only,
\* whatever cut, late, lost or overwritten messages went through msg, with the
\* same exception.
THEOREM SegmentsAttributed == Spec => []Attribution
<1>1. DataInv => Attribution
  BY DEF DataInv
<1> QED
  BY <1>1, DataCorrect, PTL

-----------------------------------------------------------------------------
(* No announced answer is forgotten *)

\* Before com_read exists no length is stored, a first read has no second part
\* yet, and a length stored last became visible after its flag.
LengthInv == /\ pc["com_read"] = "none" => msg_length = 0
             /\ pc["com_read"] = "unlock1" => tmp = 0
             /\ pc["com_read"] = "store_len_late" => early

\* What becomes of answer n.
Kept(n) == \/ modbus_data_change
           \/ pc["proc_data"] \in {"check", "copy_first", "copy_last"}
           \/ dataBuf[SlaveOf(n)].last[1] = n

\* An announced answer is in msg from its first byte to its last.
LEMMA AnnouncedWhole ==
  ASSUME TypeOK, NEW n \in 1..MaxPolls, Announced(n)
  PROVE  /\ FrameLen(n) \in {11, 21} /\ FrameLen(n) = DataLen(SlaveOf(n)) + 5
         /\ \A i \in 0..FrameLen(n)-1 : msg[i] = <<n, i>>
<1>1. n \in Int /\ FrameLen(n) = DataLen(SlaveOf(n)) + 5 /\ DataLen(SlaveOf(n)) \in {6, 16}
  BY FrameLenType, PollsAssumption
<1>2. PICK k \in 1..MaxPolls : \A i \in 0..FrameLen(n)-1 : msg[i] = <<k, i>>
  BY DEF Announced, CheckIntegrity
<1>3. msg[0] = <<k, 0>> /\ msg[0][1] = n
  BY <1>1, <1>2 DEF Announced
<1>4. k = n
  BY <1>3
<1> QED
  BY <1>1, <1>2, <1>4

\* A message that com_read drops is longer than the answer it begins with.
LEMMA DroppedNotAnnounced ==
  ASSUME TypeOK, LengthInv, NEW n \in 1..MaxPolls, Classify, Announced(n)'
  PROVE  FALSE
<1>1. pc["com_read"] = "unlock1" /\ pc'["com_read"] \in {"select", "lock1"} /\ tmp = 0
  BY DEF Classify, Announced, LengthInv
<1>2. UNCHANGED <<msg, msg_length, nread, tmp>>
  BY DEF Classify, dataVars, readVars, bufVars
<1>3. /\ msg_length = nread + tmp /\ msg_length = FrameLen(n)
      /\ \A i \in 0..FrameLen(n)-1 : msg[i] = <<n, i>>
      /\ FrameLen(n) \in {11, 21} /\ FrameLen(n) = DataLen(SlaveOf(n)) + 5
  <2>1. n \in Int /\ FrameLen(n) = DataLen(SlaveOf(n)) + 5 /\ DataLen(SlaveOf(n)) \in {6, 16}
    BY FrameLenType, PollsAssumption
  <2>2. /\ msg_length = nread + tmp /\ msg_length = FrameLen(n)
        /\ CheckIntegrity(msg, msg_length) /\ msg[0][1] = n
    BY <1>2 DEF Announced
  <2>3. PICK k \in 1..MaxPolls : \A i \in 0..FrameLen(n)-1 : msg[i] = <<k, i>>
    BY <2>2 DEF CheckIntegrity
  <2>4. msg[0] = <<k, 0>> BY <2>1, <2>3
  <2>5. k = n BY <2>2, <2>4
  <2> QED BY <2>1, <2>2, <2>3, <2>5
<1>4. msg[2] = <<n, 2>> /\ nread = DataLen(SlaveOf(n)) + 5
  BY <1>1, <1>3 DEF TypeOK, ReaderTypeOK
<1>5. ByteValues(msg[2]) = {DataLen(SlaveOf(n))}
  BY <1>4, PollsAssumption DEF ByteValues, Unwritten
<1>6. Goto("com_read", "store_len")
  <2>1. PICK v \in ByteValues(msg[2]) :
          Goto("com_read", CASE nread = v + 5 -> "store_len"
                             [] nread < v + 5 -> "lock2"
                             [] OTHER -> "select")
    BY DEF Classify
  <2>2. nread = v + 5 /\ v \in Int
    <3>1. v = DataLen(SlaveOf(n))
      BY <1>5
    <3>2. DataLen(SlaveOf(n)) \in Int
      BY FrameLenType, PollsAssumption
    <3> QED
      BY <1>4, <3>1, <3>2
  <2>3. ~(nread < v + 5)
    BY <2>2
  <2> QED
    BY <2>1, <2>2, <2>3
<1> QED
  BY <1>1, <1>6, GotoMoves DEF Threads

\* A step that does not announce, and after which proc_data still has what it had.
LEMMA StayKeepsKept ==
  ASSUME NEW n, Announced(n) => Kept(n), Announced(n)' => Announced(n),
         modbus_data_change => modbus_data_change', dataBuf' = dataBuf,
         pc["proc_data"] \in {"check", "copy_first", "copy_last"} =>
           pc'["proc_data"] \in {"check", "copy_first", "copy_last"}
  PROVE  Announced(n)' => Kept(n)'
  BY DEF Kept

\* Announced depends on what com_read writes and where it is, and on nothing else.
LEMMA SameAnnounced ==
  ASSUME NEW n, UNCHANGED <<msg, msg_length, nread, tmp, early>>,
         pc'["com_read"] \in {"select", "lock1"} => pc["com_read"] \in {"select", "lock1"}
  PROVE  Announced(n)' => Announced(n)
  BY DEF Announced

LEMMA ComReadKept ==
  ASSUME TypeOK, LengthInv, ComRead, NEW n \in 1..MaxPolls, Announced(n) => Kept(n)
  PROVE  Announced(n)' => Kept(n)'
<1> SUFFICES ASSUME Announced(n)' PROVE Kept(n)'
  OBVIOUS
<1>1. pc'["com_read"] \in {"select", "lock1"}
  BY DEF Announced
<1>2. pc'["proc_data"] = pc["proc_data"]
  BY WorkerMoves, GotoMoves DEF Threads
<1>3. CASE Select
  <2>1. pc["com_read"] = "select" /\ UNCHANGED <<msg, msg_length, nread, tmp, early>>
        /\ modbus_data_change' = modbus_data_change /\ dataBuf' = dataBuf
    BY <1>3 DEF Select, Step, dataVars, readVars, bufVars, procVars
  <2>2. Announced(n)' => Announced(n)
    BY <2>1, SameAnnounced
  <2> QED
    BY <1>2, <2>1, <2>2, StayKeepsKept
<1>4. CASE StoreFlag
  BY <1>4 DEF StoreFlag, Kept
<1>5. CASE StoreLength
  <2>1. pc["com_read"] \in {"store_len", "store_len_late"}
        /\ msg_length' = nread + tmp /\ UNCHANGED <<nread, tmp, early, msg>>
        /\ Goto("com_read", IF pc["com_read"] = "store_len" /\ nread + tmp >= MinLength
                            THEN "store_flag" ELSE "select")
    BY <1>5 DEF StoreLength, readVars
  <2>2. msg_length' >= 11
    BY FrameLenType, PollsAssumption DEF Announced, CheckIntegrity, MinLength
  <2>3. nread + tmp >= MinLength
    BY <2>1, <2>2 DEF MinLength
  <2>4. pc["com_read"] = "store_len_late"
    BY <1>1, <2>1, <2>3, GotoMoves DEF Threads
  <2>5. early
    BY <2>4 DEF LengthInv
  <2> QED
    BY <2>1, <2>5 DEF Announced
<1>6. CASE Classify
  BY <1>6, DroppedNotAnnounced
<1>7. CASE Lock("com_read", "lock1", "read1") \/ Lock("com_read", "lock2", "read2")
           \/ ReadFirst \/ ReadSecond \/ UnlockSecond
  <2>1. \E l \in {"read1", "read2", "unlock1", "unlock2", "store_len"} : Goto("com_read", l)
    BY <1>7 DEF Lock, ReadFirst, ReadSecond, UnlockSecond, Step
  <2> QED
    BY <1>1, <2>1, GotoMoves DEF Threads
<1> QED
  BY <1>3, <1>4, <1>5, <1>6, <1>7 DEF ComRead

\* proc_data resets the flag before it looks at msg, and copies what it finds.
LEMMA ProcKept ==
  ASSUME TypeOK, DataInv, ~tainted, ProcData, NEW n \in 1..MaxPolls, Announced(n) => Kept(n)
  PROVE  Announced(n)' => Kept(n)'
<1> SUFFICES ASSUME Announced(n)' PROVE Kept(n)'
  OBVIOUS
<1>1. UNCHANGED <<msg, msg_length, nread, tmp, early>> /\ pc'["com_read"] = pc["com_read"]
  <2>1. pc'["com_read"] = pc["com_read"]
    BY WorkerMoves, GotoMoves DEF Threads
  <2>2. UNCHANGED <<msg, msg_length, nread, tmp, early>>
    BY DEF ProcData, TestFlag, Lock, ClearFlag, CheckMessage, CopyFirst, CopyLast,
           LeaveProc, dataVars, readVars, bufVars
  <2> QED BY <2>1, <2>2
<1>2. Announced(n) /\ Kept(n)
  BY <1>1, SameAnnounced
<1>3. /\ FrameLen(n) \in {11, 21} /\ FrameLen(n) = DataLen(SlaveOf(n)) + 5
      /\ \A i \in 0..FrameLen(n)-1 : msg[i] = <<n, i>>
  BY <1>2, AnnouncedWhole
<1>4. CASE TestFlag \/ Lock("proc_data", "lock", "clear")
  <2>1. UNCHANGED dataVars /\ pc["proc_data"] \in {"test", "lock"}
    BY <1>4 DEF TestFlag, Lock, Step
  <2>2. modbus_data_change' = modbus_data_change /\ dataBuf' = dataBuf
    BY <2>1 DEF dataVars, bufVars, procVars
  <2> QED
    BY <1>2, <2>1, <2>2 DEF Kept
<1>5. CASE ClearFlag \/ CopyFirst
  <2>1. pc'["proc_data"] \in {"check", "copy_last"}
    BY <1>5, GotoMoves DEF ClearFlag, CopyFirst, Step, Threads
  <2> QED
    BY <2>1 DEF Kept
<1>6. CASE CheckMessage
  <2>1. CheckIntegrity(msg, msg_length)
    BY <1>2 DEF Announced
  <2>2. pc'["proc_data"] = "copy_first"
    BY <1>6, <2>1, GotoMoves DEF CheckMessage, Threads
  <2> QED
    BY <2>2 DEF Kept
<1>7. CASE CopyLast
  <2>1. PICK k \in 1..MaxPolls :
          /\ target = SlaveOf(k) /\ msg[3] = <<k, 3>>
          /\ msg[2 + DataLen(target)] = <<k, 2 + DataLen(target)>>
    BY <1>7 DEF CopyLast, Step, DataInv, CopiesAnswer
  <2>2. k = n
    BY <1>3, <2>1
  <2>3. dataBuf \in [Slaves -> Segment] /\ SlaveOf(n) \in Slaves
    BY SlaveOfType, PollsAssumption DEF TypeOK, StoreTypeOK
  <2>4. dataBuf' = [dataBuf EXCEPT ![SlaveOf(n)].last = <<n, 2 + DataLen(SlaveOf(n))>>]
    BY <1>7, <2>1, <2>2 DEF CopyLast
  <2>5. dataBuf'[SlaveOf(n)].last = <<n, 2 + DataLen(SlaveOf(n))>>
    BY <2>3, <2>4 DEF Segment
  <2> QED
    BY <2>5 DEF Kept
<1>8. CASE LeaveProc
  <2>1. pc["proc_data"] = "leave" /\ modbus_data_change' = modbus_data_change /\ dataBuf' = dataBuf
    BY <1>8 DEF LeaveProc, Step, dataVars, bufVars, procVars
  <2> QED
    BY <1>2, <2>1 DEF Kept
<1> QED
  BY <1>4, <1>5, <1>6, <1>7, <1>8 DEF ProcData

\* The other threads and the line write nothing that matters here, and main
\* and modbus create threads that have announced nothing.
LEMMA OthersKept ==
  ASSUME TypeOK, CreatedInOrder, LengthInv, NEW n \in 1..MaxPolls, Announced(n) => Kept(n),
         Main \/ Spi \/ Modbus \/ ComSend \/ Line \/ Tcp
  PROVE  Announced(n)' => Kept(n)'
<1> SUFFICES ASSUME Announced(n)' PROVE Kept(n)'
  OBVIOUS
<1>1. UNCHANGED <<msg, msg_length, nread, tmp, early, modbus_data_change, dataBuf>>
  <2>1. CASE Main \/ Spi \/ Modbus
    <3>1. UNCHANGED dataVars
      BY <2>1 DEF Main, Spi, Modbus, OpenSerial, MutexInit, StartThread, Exit
    <3> QED
      BY <3>1 DEF dataVars, readVars, bufVars, procVars
  <2>2. CASE ComSend \/ Line
    BY <2>2 DEF ComSend, WriteCommand, TurnAround, Line, SlaveAnswers, LineDelivers,
                readVars, bufVars, procVars
  <2>3. CASE Tcp
    BY <2>3 DEF Tcp, Socket, Connect, Lock, Send, LeaveTcp, dataVars, readVars, bufVars, procVars
  <2> QED
    BY <2>1, <2>2, <2>3
<1>2. \/ pc'["com_read"] = pc["com_read"] /\ pc'["proc_data"] = pc["proc_data"]
      \/ pc["com_read"] = "none" /\ pc["proc_data"] = "none"
      \/ pc["proc_data"] = "none" /\ pc'["com_read"] = pc["com_read"]
  <2>1. CASE Main \/ Spi
    BY <2>1, GotoMoves, StartMoves DEF Main, Spi, MutexInit, Step, Exit, Threads
  <2>2. CASE Modbus
    BY <2>2, GotoMoves, StartMoves
    DEF Modbus, OpenSerial, MutexInit, Step, Exit, CreatedInOrder, Threads
  <2>3. CASE ComSend \/ Tcp
    BY <2>3, WorkerMoves, GotoMoves DEF Threads
  <2>4. CASE Line
    BY <2>4 DEF Line, SlaveAnswers, LineDelivers
  <2> QED
    BY <2>1, <2>2, <2>3, <2>4
<1>3. pc["com_read"] # "none"
  <2>1. msg_length = FrameLen(n) /\ FrameLen(n) \in {11, 21}
    <3>1. n \in Int /\ DataLen(SlaveOf(n)) \in {6, 16} /\ FrameLen(n) = DataLen(SlaveOf(n)) + 5
      BY FrameLenType, PollsAssumption
    <3>2. msg_length' = FrameLen(n)
      BY DEF Announced
    <3> QED
      BY <1>1, <3>1, <3>2
  <2> QED
    BY <2>1 DEF LengthInv
<1>4. Announced(n)
  BY <1>1, <1>2, <1>3, SameAnnounced
<1> QED
  BY <1>1, <1>2, <1>3, <1>4 DEF Kept

LEMMA LengthStep ==
  ASSUME TypeOK, CreatedInOrder, LengthInv, [Next]_vars PROVE LengthInv'
<1>1. CASE UNCHANGED <<msg_length, tmp, early>> /\ pc'["com_read"] = pc["com_read"]
  BY <1>1 DEF LengthInv
<1>2. CASE Main \/ Spi \/ Modbus
  <2>1. UNCHANGED <<msg_length, tmp, early>>
    <3>1. UNCHANGED dataVars
      BY <1>2 DEF Main, Spi, Modbus, OpenSerial, MutexInit, StartThread, Exit
    <3> QED
      BY <3>1 DEF dataVars, readVars, bufVars
  <2>2. pc'["com_read"] \in {pc["com_read"], "select"}
    <3>1. CASE Main \/ Spi
      BY <3>1, GotoMoves, StartMoves DEF Main, Spi, MutexInit, Step, Exit, Threads
    <3>2. CASE Modbus
      BY <3>2, GotoMoves, StartMoves DEF Modbus, OpenSerial, MutexInit, Step, Exit, Threads
    <3> QED
      BY <1>2, <3>1, <3>2
  <2> QED
    BY <2>1, <2>2 DEF LengthInv
<1>3. CASE ComRead
  <2>1. pc["com_read"] # "none" /\ pc'["com_read"] # "none"
    BY <1>3, WorkerMoves, GotoMoves DEF ComRead, Select, Lock, ReadFirst, Classify,
       ReadSecond, UnlockSecond, StoreLength, StoreFlag, Step, Threads
  <2>2. pc'["com_read"] = "unlock1" => tmp' = 0
    BY <1>3, GotoMoves DEF ComRead, Select, Lock, ReadFirst, Classify, ReadSecond,
       UnlockSecond, StoreLength, StoreFlag, Step, Threads
  <2>3. pc'["com_read"] = "store_len_late" => early'
    <3>1. CASE StoreFlag
      <4>1. \/ Goto("com_read", "select")
            \/ pc["com_read"] = "store_len"
        BY <3>1 DEF StoreFlag, Step
      <4>2. early' = (pc["com_read"] = "store_len")
        BY <3>1 DEF StoreFlag
      <4>3. CASE Goto("com_read", "select")
        <5>1. pc'["com_read"] = "select"
          BY <4>3, GotoMoves DEF Threads
        <5> QED
          BY <5>1
      <4>4. CASE pc["com_read"] = "store_len"
        BY <4>2, <4>4
      <4> QED
        BY <4>1, <4>3, <4>4
    <3>2. CASE Classify
      <4>1. \E l \in {"store_len", "lock2", "select"} : Goto("com_read", l)
        BY <3>2 DEF Classify
      <4> QED
        BY <4>1, GotoMoves DEF Threads
    <3>3. CASE StoreLength
      <4>1. \E l \in {"store_flag", "select"} : Goto("com_read", l)
        BY <3>3 DEF StoreLength
      <4> QED
        BY <4>1, GotoMoves DEF Threads
    <3>4. CASE Select \/ Lock("com_read", "lock1", "read1") \/ ReadFirst
               \/ Lock("com_read", "lock2", "read2") \/ ReadSecond \/ UnlockSecond
      <4>1. \E l \in {"lock1", "read1", "unlock1", "read2", "unlock2", "store_len"} :
              Goto("com_read", l)
        BY <3>4 DEF Select, Lock, ReadFirst, ReadSecond, UnlockSecond, Step
      <4> QED
        BY <4>1, GotoMoves DEF Threads
    <3> QED
      BY <1>3, <3>1, <3>2, <3>3, <3>4 DEF ComRead
  <2> QED
    BY <2>1, <2>2, <2>3 DEF LengthInv
<1>4. CASE ComSend \/ ProcData \/ Tcp \/ Line
  <2>1. UNCHANGED <<msg_length, tmp, early>>
    BY <1>4 DEF ComSend, WriteCommand, TurnAround, Line, SlaveAnswers, LineDelivers,
       ProcData, TestFlag, Lock, ClearFlag, CheckMessage, CopyFirst, CopyLast, LeaveProc,
       Tcp, Socket, Connect, Send, LeaveTcp, dataVars, readVars, bufVars
  <2>2. pc'["com_read"] = pc["com_read"]
    BY <1>4, WorkerMoves, GotoMoves DEF Line, SlaveAnswers, LineDelivers, Threads
  <2> QED
    BY <1>1, <2>1, <2>2
<1> QED
  BY <1>1, <1>2, <1>3, <1>4 DEF Next, Ended, vars, dataVars, readVars, bufVars

LEMMA KeptStep ==
  ASSUME TypeOK, CreatedInOrder, DataInv, LengthInv, AnswerNotForgotten, [Next]_vars
  PROVE  AnswerNotForgotten'
<1> SUFFICES ASSUME ~tainted', NEW n \in 1..MaxPolls PROVE Announced(n)' => Kept(n)'
  BY DEF AnswerNotForgotten, Kept
<1>1. ~tainted
  BY DEF Next, Main, Spi, Modbus, OpenSerial, MutexInit, StartThread, Exit, Step, ComRead,
     Select, Lock, ReadFirst, Classify, Unlock, ReadSecond, UnlockSecond, StoreLength,
     StoreFlag, ComSend, WriteCommand, TurnAround, Line, SlaveAnswers, LineDelivers,
     ProcData, TestFlag, ClearFlag, CheckMessage, CopyFirst, CopyLast, LeaveProc, Tcp,
     Socket, Connect, Send, LeaveTcp, Ended, vars, mutexVars
<1>2. Announced(n) => Kept(n)
  BY <1>1 DEF AnswerNotForgotten, Kept
<1>3. CASE UNCHANGED vars
  BY <1>2, <1>3 DEF vars, dataVars, readVars, bufVars, procVars, Announced, Kept
<1> QED
  BY <1>1, <1>2, <1>3, ComReadKept, ProcKept, OthersKept DEF Next, Ended

\* A whole answer that com_read announced while its two stores became visible
\* in program order reaches dataBuf before the next read touches msg, is being
\* dealt with, or has its flag set, in every interleaving of the threads.
THEOREM AnswersKept == Spec => []AnswerNotForgotten
<1>1. Init => LengthInv /\ AnswerNotForgotten
  <2>1. ASSUME Init PROVE LengthInv /\ ~\E n \in 1..MaxPolls : Announced(n)
    <3>1. pc["com_read"] = "none" /\ msg_length = 0
      BY <2>1 DEF Init, Threads
    <3> QED
      BY <3>1 DEF LengthInv, Announced
  <2> QED
    BY <2>1 DEF AnswerNotForgotten
<1>2. /\ TypeOK /\ CreatedInOrder /\ DataInv /\ LengthInv /\ AnswerNotForgotten /\ [Next]_vars
      => LengthInv' /\ AnswerNotForgotten'
  BY LengthStep, KeptStep
<1> QED
  BY <1>1, <1>2, OwnerCorrect, DataCorrect, PTL DEF Spec
=============================================================================
