------------------------- MODULE ModbusMasterProofs -------------------------
(***************************************************************************)
(* Theorems of ModbusMaster, for any lengths of commands and answers, any  *)
(* number of polls and any disturbances of the line.                       *)
(***************************************************************************)
EXTENDS ModbusMaster, TLAPS

(* The inductive invariant: its parts that the properties do not say.      *)

\* Between two interrupts the count of the bytes heard follows sendPosi.
TransmitInv ==
  /\ de = "send" => /\ polls > 0 /\ sendCount = CommandLen - 1
                    /\ shifting <=> ~tc
                    /\ heard = IF shifting THEN sendPosi ELSE sendPosi + 1
  /\ de = "rece" => /\ ~shifting /\ sendPosi = sendCount
                    /\ polls > 0 => heard = CommandLen /\ ~tc

\* Bytes and answers belong to commands that were sent, to their slave.
Sent(n) == n \in 1..polls
Genuine(c) == c = Stray \/ (Sent(c[2]) /\ c[1] = Polled(c[2]))
GenuineAnswer(a) ==
  a = Idle \/ (Sent(a.n) /\ a.slave = Polled(a.n) /\ a.pos < FrameLen(a.slave))
LineInv ==
  /\ Target(slaveraddr) = Polled(polls + 1)
  /\ \A i \in 0..RxLimit-1 : Genuine(receBuf[i])
  /\ dr # None => Genuine(dr)
  /\ GenuineAnswer(pending) /\ GenuineAnswer(answering)
  /\ pending.pos = 0

\* Nothing on its way to receBuf answers a command before the m-th.
NotOlder(m) ==
  /\ dr \notin {None, Stray} => m <= dr[2]
  /\ answering # Idle => m <= answering.n
  /\ pending # Idle => m <= pending.n
  /\ m <= polls

\* Answers come in the order of the commands, and what is uploaded is never
\* newer than what lies in receBuf or is on its way there.
OrderInv ==
  /\ \A i \in 0..RxLimit-1 : NotOlder(receBuf[i][2])
  /\ dr \notin {None, Stray} => /\ answering # Idle => dr[2] <= answering.n
                                /\ pending # Idle => dr[2] <= pending.n
  /\ answering # Idle /\ pending # Idle => answering.n <= pending.n
  /\ \A s \in Slaves :
       /\ NotOlder(sendbuf[s].first[2])
       /\ receBuf[3] # Stray => sendbuf[s].first[2] <= receBuf[3][2]

\* The first k bytes of the answer of s to command n lie in receBuf, the last
\* one perhaps still in the USART.
Arrived(s, n, k) ==
  /\ de = "rece" /\ k \in 1..FrameLen(s)
  /\ \/ dr = None /\ receCount = k
     \/ dr = <<s, n, k - 1>> /\ receCount = k - 1
  /\ \A i \in 0..receCount-1 : receBuf[i] = <<s, n, i>>

\* What "intact" says of an answer that comes without a disturbance.
IntactInv ==
  /\ intact = -1 => /\ answering # Idle
                    /\ Arrived(answering.slave, answering.n, answering.pos)
  /\ intact > 0 => /\ Sent(intact)
                   /\ Arrived(Polled(intact), intact, FrameLen(Polled(intact)))

UploadInv == value = sendbuf /\ Attribution

IInv == TypeOK /\ TransmitInv /\ LineInv /\ OrderInv /\ IntactInv /\ UploadInv
-----------------------------------------------------------------------------
(* Slaves, lengths and bytes *)

LEMMA PolledType ==
  ASSUME NEW n \in Nat \ {0}
  PROVE  Polled(n) \in Slaves
  BY DEF Polled, Slaves

\* The master goes round the slaves: command n + 1 is for the next one.  The
\* first round starts with slave 3, for which slaveraddr is 0.
LEMMA NextPolled ==
  ASSUME NEW n \in Nat \ {0}, NEW s \in 0..3, Target(s) = Polled(n)
  PROVE  Target(NextSlave(s)) = Polled(n + 1)
<1>1. n % 3 \in 0..2 /\ (n + 1) % 3 = IF n % 3 = 2 THEN 0 ELSE (n % 3) + 1
  OBVIOUS
<1>2. (n + 2) % 3 = IF n % 3 = 0 THEN 2 ELSE (n % 3) - 1
  OBVIOUS
<1> QED
  BY <1>1, <1>2 DEF Polled, Target, NextSlave

\* An answer fits into receBuf.
LEMMA LengthsType ==
  ASSUME NEW s \in Slaves
  PROVE  /\ DataLen(s) \in 1..LongData
         /\ FrameLen(s) = DataLen(s) + 5 /\ FrameLen(s) \in 6..LongData+5
         /\ FrameLen(s) <= RxLimit /\ RxLimit \in Nat
  BY LengthAssumption DEF DataLen, FrameLen

LEMMA CellType ==
  /\ Stray \in Cell /\ Stray[2] = 0 /\ None \notin Cell
  /\ \A c \in Cell : c[2] \in 0..MaxPolls
  /\ \A c \in Cell \ {Stray} : c[2] \in 1..MaxPolls
  BY PollsAssumption DEF Cell, Stray, None

\* A byte of an answer is a cell.
LEMMA AnswerByte ==
  ASSUME NEW a \in Answer, NEW i \in 0..LongData+4
  PROVE  <<a.slave, a.n, i>> \in Cell \ {Stray}
  BY DEF Answer, Cell, Stray, Slaves

-----------------------------------------------------------------------------
(* The initial state *)

LEMMA InitIInv == Init => IInv
<1> SUFFICES ASSUME Init PROVE IInv
  OBVIOUS
<1> USE DEF Init, InitTask
<1>1. TypeOK
  <2>1. NoSample \in Sample
    BY CellType DEF NoSample, Sample
  <2>2. value \in [Slaves -> Sample] /\ sendbuf \in [Slaves -> Sample]
    BY <2>1
  <2>3. receBuf \in [0..RxLimit-1 -> Cell]
    BY CellType
  <2>4. /\ 0 \in 0..3 /\ 0 \in 0..RxLimit /\ 0 \in 0..CommandLen-1 /\ 0 \in 0..CommandLen
        /\ 0 \in 0..MaxPolls /\ 0 \in -1..MaxPolls /\ 0 \in 0..MaxFaults
    BY LengthAssumption, PollsAssumption, FaultsAssumption DEF Slaves
  <2> QED
    BY <2>2, <2>3, <2>4 DEF TypeOK
<1>2. TransmitInv
  BY DEF TransmitInv
<1>3. LineInv
  BY LengthAssumption DEF LineInv, Genuine, GenuineAnswer, Polled, Target, Idle
<1>4. OrderInv
  BY LengthAssumption, CellType DEF OrderInv, NotOlder, NoSample
<1>5. IntactInv
  BY DEF IntactInv
<1>6. UploadInv
  BY DEF UploadInv, Attribution
<1> QED
  BY <1>1, <1>2, <1>3, <1>4, <1>5, <1>6 DEF IInv


-----------------------------------------------------------------------------
(* Types *)

\* The part of a step that goes through CrcRight: what is copied are cells.
LEMMA AnalyseType ==
  ASSUME TypeOK, NEW s \in 0..3, Analyse(s)
  PROVE  value' \in [Slaves -> Sample] /\ sendbuf' \in [Slaves -> Sample]
<1>1. s \in Slaves => 2 + DataLen(s) \in 0..RxLimit-1 /\ 3 \in 0..RxLimit-1
  BY LengthsType, LengthAssumption DEF DataLen
<1>2. s \in Slaves => [first |-> receBuf[3], last |-> receBuf[2 + DataLen(s)]] \in Sample
  <2>1. s \in Slaves => receBuf[3] \in Cell /\ receBuf[2 + DataLen(s)] \in Cell
    BY <1>1 DEF TypeOK
  <2> QED
    BY <2>1 DEF Sample
<1>3. value' \in [Slaves -> Sample]
  BY <1>2 DEF Analyse, TypeOK
<1> QED
  BY <1>3 DEF Analyse, TypeOK

LEMMA AddressesType ==
  ASSUME NEW c \in Cell PROVE Addresses(c) \subseteq 0..3
  BY DEF Addresses, Cell, Slaves

LEMMA StoreByteType ==
  ASSUME TypeOK, dr # None, StoreByte
  PROVE  receBuf' \in [0..RxLimit-1 -> Cell] /\ receCount' \in 0..RxLimit
  BY LengthAssumption DEF StoreByte, rxVars, TypeOK

\* A byte that arrives is the one in the USART, or none is.
LEMMA ArrivesType ==
  ASSUME TypeOK, NEW c \in Cell, Arrives(c)
  PROVE  dr' \in Cell \cup {None}
  BY DEF Arrives, TypeOK

LEMMA StepTypeOK ==
  ASSUME IInv, [Next]_vars
  PROVE  TypeOK'
<1> USE DEF IInv
<1>1. CASE ModbusTask
  <2>1. PICK s \in Addresses(receBuf[0]) : Analyse(s)
    BY <1>1 DEF ModbusTask
  <2>2. receBuf[0] \in Cell
    BY LengthAssumption DEF TypeOK
  <2>3. value' \in [Slaves -> Sample] /\ sendbuf' \in [Slaves -> Sample]
    BY <2>1, <2>2, AddressesType, AnalyseType
  <2>4. pending' \in Answer
    <3>1. Target(slaveraddr) \in Slaves
      BY DEF Target, Slaves
    <3> QED
      BY <1>1, <3>1, LengthAssumption, PollsAssumption DEF ModbusTask, TypeOK, Answer
  <2>5. NextSlave(slaveraddr) \in 0..3
    BY DEF NextSlave
  <2>6. faults' \in 0..MaxFaults
    BY <1>1, FaultsAssumption DEF ModbusTask, TypeOK, Fault
  <2> QED
    BY <1>1, <2>3, <2>4, <2>5, <2>6, LengthAssumption, PollsAssumption
       DEF ModbusTask, TypeOK, BeginSend
<1>2. CASE ReceiveInterrupt
  BY <1>2, StoreByteType
     DEF ReceiveInterrupt, TypeOK, taskVars, txVars, lineVars, envVars
<1>3. CASE TransmitInterrupt
  <2>1. sendPosi' \in 0..CommandLen-1 /\ receCount' \in 0..RxLimit
    BY <1>3, LengthAssumption DEF TransmitInterrupt, TypeOK
  <2>2. de' \in {"send", "rece"} /\ tc' \in BOOLEAN /\ shifting' \in BOOLEAN
    BY <1>3 DEF TransmitInterrupt, TypeOK
  <2> QED
    BY <1>3, <2>1, <2>2 DEF TransmitInterrupt, TypeOK, taskVars, lineVars, envVars
<1>4. CASE ByteSent
  <2>1. heard' \in 0..CommandLen
    BY <1>4, LengthAssumption DEF ByteSent, TypeOK, TransmitInv
  <2> QED
    BY <1>4, <2>1 DEF ByteSent, TypeOK, taskVars, rxVars, lineVars, envVars
<1>5. CASE SlaveAnswers
  BY <1>5, PollsAssumption
     DEF SlaveAnswers, TypeOK, taskVars, txVars, rxVars, envVars
<1>6. CASE LineByte
  <2>1. answering \in Answer /\ answering.pos + 1 <= FrameLen(answering.slave)
    <3>1. answering \in Answer /\ answering # Idle
      BY <1>6 DEF LineByte, TypeOK
    <3>2. answering.slave \in Slaves /\ answering.pos \in Nat
      BY <3>1, LengthAssumption DEF Answer
    <3> QED
      BY <3>1, <3>2, LengthsType DEF LineInv, GenuineAnswer
  <2>2. answering.slave \in Slaves /\ answering.n \in 1..MaxPolls /\ answering.pos \in 0..LongData+4
    BY <2>1 DEF Answer
  <2>3. <<answering.slave, answering.n, answering.pos>> \in Cell
    BY <2>1, <2>2, AnswerByte
  <2>4. dr' \in Cell \cup {None}
    BY <1>6, <2>3, ArrivesType DEF LineByte, TypeOK
  <2>5. answering' \in Answer \cup {Idle}
    <3>1. CASE answering.pos + 1 = FrameLen(answering.slave)
      BY <1>6, <3>1 DEF LineByte
    <3>2. CASE answering.pos + 1 # FrameLen(answering.slave)
      <4>1. answering.pos + 1 \in 0..LongData+4
        BY <2>1, <2>2, <3>2, LengthsType, LengthAssumption
      <4>2. [answering EXCEPT !.pos = answering.pos + 1] \in Answer
        BY <2>1, <4>1 DEF Answer
      <4> QED
        BY <1>6, <3>2, <4>2 DEF LineByte
    <3> QED
      BY <3>1, <3>2
  <2>6. intact' \in -1..MaxPolls /\ faults' \in 0..MaxFaults
    <3>1. intact' \in {0, -1, answering.n}
      BY <1>6 DEF LineByte
    <3>2. faults' \in 0..MaxFaults
      BY <1>6, FaultsAssumption DEF LineByte, TypeOK, Fault
    <3> QED
      BY <2>2, <3>1, <3>2, PollsAssumption
  <2>7. UNCHANGED <<taskVars, txVars, rxVars, polls, pending, masked>>
    BY <1>6 DEF LineByte
  <2> QED
    BY <2>4, <2>5, <2>6, <2>7 DEF TypeOK, taskVars, txVars, rxVars
<1>7. CASE StrayByte
  <2>1. dr' \in Cell \cup {None}
    BY <1>7, ArrivesType, CellType DEF StrayByte
  <2>2. faults' \in 0..MaxFaults /\ intact' \in -1..MaxPolls
    BY <1>7, PollsAssumption, FaultsAssumption DEF StrayByte, Fault, TypeOK
  <2>3. UNCHANGED <<taskVars, txVars, rxVars, polls, pending, answering, masked>>
    BY <1>7 DEF StrayByte
  <2> QED
    BY <2>1, <2>2, <2>3 DEF TypeOK, taskVars, txVars, rxVars
<1>8. CASE Mask \/ Unmask
  <2>1. faults' \in 0..MaxFaults
    BY <1>8, FaultsAssumption DEF Mask, Unmask, Fault, TypeOK
  <2>2. masked' \in BOOLEAN
    BY <1>8 DEF Mask, Unmask
  <2>3. UNCHANGED <<taskVars, txVars, rxVars, dr, polls, lineVars>>
    BY <1>8 DEF Mask, Unmask
  <2> QED
    BY <2>1, <2>2, <2>3 DEF TypeOK, taskVars, txVars, rxVars, lineVars
<1>9. CASE UNCHANGED vars
  BY <1>9 DEF vars, TypeOK, taskVars, txVars, rxVars, lineVars, envVars
<1> QED
  BY <1>1, <1>2, <1>3, <1>4, <1>5, <1>6, <1>7, <1>8, <1>9 DEF Next, Rest

-----------------------------------------------------------------------------
(* Sending *)

LEMMA StepTransmitInv ==
  ASSUME IInv, [Next]_vars
  PROVE  TransmitInv'
<1> USE DEF IInv, TransmitInv
<1>1. CASE ModbusTask
  BY <1>1, LengthAssumption DEF ModbusTask, BeginSend, TypeOK
<1>2. CASE TransmitInterrupt
  BY <1>2, LengthAssumption DEF TransmitInterrupt, TypeOK
<1>3. CASE ByteSent
  BY <1>3, LengthAssumption DEF ByteSent, TypeOK
<1>4. CASE UNCHANGED <<txVars, polls>>
  BY <1>4 DEF txVars
<1> QED
  BY <1>1, <1>2, <1>3, <1>4
     DEF Next, ReceiveInterrupt, SlaveAnswers, LineByte, StrayByte, Mask, Unmask, Rest, vars


-----------------------------------------------------------------------------
(* Bytes and answers belong to commands *)

LEMMA StepLineInv ==
  ASSUME IInv, [Next]_vars
  PROVE  LineInv'
<1> USE DEF IInv
<1>1. CASE ModbusTask
  <2>1. /\ polls \in Nat /\ polls' = polls + 1
        /\ Target(slaveraddr)' = Polled(polls' + 1)
    <3>1. polls \in Nat /\ polls + 1 \in Nat \ {0} /\ slaveraddr \in 0..3
      BY PollsAssumption DEF TypeOK
    <3>2. Target(NextSlave(slaveraddr)) = Polled(polls + 1 + 1)
      BY <3>1, NextPolled DEF LineInv
    <3> QED
      BY <1>1, <3>1, <3>2 DEF ModbusTask, Target
  <2>2. pending' = [slave |-> Polled(polls'), n |-> polls', pos |-> 0]
    BY <1>1, <2>1 DEF ModbusTask, LineInv
  <2>3. pending'.pos < FrameLen(pending'.slave)
    BY <2>1, <2>2, PolledType, LengthsType
  <2>4. \A c : Genuine(c) => Genuine(c)'
    BY <2>1 DEF Genuine, Sent
  <2>5. \A a : GenuineAnswer(a) => GenuineAnswer(a)'
    BY <2>1 DEF GenuineAnswer, Sent
  <2>6. GenuineAnswer(pending)'
    BY <2>1, <2>2, <2>3 DEF GenuineAnswer, Sent
  <2>7. UNCHANGED <<receBuf, dr, answering>>
    BY <1>1 DEF ModbusTask
  <2> QED
    BY <2>1, <2>2, <2>4, <2>5, <2>6, <2>7 DEF LineInv
<1>2. CASE ReceiveInterrupt
  <2>1. receBuf' = receBuf \/ receBuf' = [receBuf EXCEPT ![receCount] = dr]
    BY <1>2 DEF ReceiveInterrupt, StoreByte, rxVars
  <2>2. \A i \in 0..RxLimit-1 : receBuf'[i] \in {receBuf[i], dr}
    BY <2>1 DEF TypeOK
  <2> QED
    BY <1>2, <2>2
       DEF ReceiveInterrupt, LineInv, Genuine, GenuineAnswer, Sent, taskVars, lineVars
<1>3. CASE SlaveAnswers
  BY <1>3 DEF SlaveAnswers, LineInv, Genuine, GenuineAnswer, Sent, Idle, taskVars, rxVars
<1>4. CASE LineByte
  <2>1. answering # Idle /\ answering \in Answer
    BY <1>4 DEF LineByte, TypeOK
  <2>2. dr' = dr \/ dr' = <<answering.slave, answering.n, answering.pos>>
    BY <1>4 DEF LineByte, Arrives
  <2>3. dr' # None => Genuine(dr')
    BY <2>1, <2>2 DEF LineInv, Genuine, GenuineAnswer
  <2>4. GenuineAnswer(answering')
    <3>1. CASE answering.pos + 1 = FrameLen(answering.slave)
      BY <1>4, <3>1 DEF LineByte, GenuineAnswer
    <3>2. CASE answering.pos + 1 # FrameLen(answering.slave)
      <4>1. answering' = [answering EXCEPT !.pos = answering.pos + 1]
        BY <1>4, <3>2 DEF LineByte
      <4>2. /\ answering'.slave = answering.slave /\ answering'.n = answering.n
            /\ answering'.pos = answering.pos + 1
        BY <2>1, <4>1 DEF Answer
      <4>3. answering.slave \in Slaves /\ answering.pos \in Nat
        BY <2>1, LengthAssumption DEF Answer
      <4> QED
        BY <2>1, <3>2, <4>2, <4>3, LengthsType DEF LineInv, GenuineAnswer
    <3> QED
      BY <3>1, <3>2
  <2> QED
    BY <1>4, <2>3, <2>4
       DEF LineByte, LineInv, Genuine, GenuineAnswer, Sent, taskVars, rxVars
<1>5. CASE StrayByte
  <2>1. dr' = dr \/ dr' = Stray
    BY <1>5 DEF StrayByte, Arrives
  <2> QED
    BY <1>5, <2>1 DEF StrayByte, LineInv, Genuine, GenuineAnswer, Sent, taskVars, rxVars
<1>6. CASE UNCHANGED <<taskVars, receBuf, dr, polls, pending, answering>>
  BY <1>6 DEF LineInv, Genuine, GenuineAnswer, Sent, taskVars
<1> QED
  BY <1>1, <1>2, <1>3, <1>4, <1>5, <1>6
     DEF Next, TransmitInterrupt, ByteSent, Mask, Unmask, Rest, vars, rxVars, lineVars

-----------------------------------------------------------------------------
(* The order of commands and answers *)

\* What Analyse uploads for s: nothing new, or one whole answer of receBuf.
LEMMA AnalyseResult ==
  ASSUME IInv, NEW s \in 0..3, Analyse(s)
  PROVE  /\ value' = sendbuf'
         /\ \/ UNCHANGED sendbuf
            \/ /\ s \in Slaves /\ receBuf[3] # Stray
               /\ \E n \in 1..polls :
                    /\ Polled(n) = s /\ receBuf[3] = <<s, n, 3>>
                    /\ sendbuf' = [sendbuf EXCEPT ![s] =
                         [first |-> <<s, n, 3>>, last |-> <<s, n, 2 + DataLen(s)>>]]
<1> USE DEF IInv
<1>1. value = sendbuf /\ sendbuf \in [Slaves -> Sample]
  BY DEF UploadInv, TypeOK
<1>2. CASE s \notin Slaves \/ ~CrcRight(s)
  <2>1. value' = value /\ sendbuf' = sendbuf
    BY <1>1, <1>2 DEF Analyse
  <2> QED
    BY <1>1, <2>1
<1>3. CASE s \in Slaves /\ CrcRight(s)
  <2>1. PICK n \in 1..MaxPolls : \A i \in 0..FrameLen(s)-1 : receBuf[i] = <<s, n, i>>
    BY <1>3 DEF CrcRight
  <2>2. 3 \in 0..FrameLen(s)-1 /\ 2 + DataLen(s) \in 0..FrameLen(s)-1 /\ 3 \in 0..RxLimit-1
    BY <1>3, LengthsType
  <2>3. receBuf[3] = <<s, n, 3>> /\ receBuf[2 + DataLen(s)] = <<s, n, 2 + DataLen(s)>>
    BY <2>1, <2>2
  <2>4. receBuf[3] # Stray
    BY <1>3, <2>3 DEF Stray, Slaves
  <2>5. Sent(n) /\ Polled(n) = s
    <3>1. Genuine(receBuf[3])
      BY <2>2 DEF LineInv
    <3> QED
      BY <2>3, <2>4, <3>1 DEF Genuine
  <2>6. value' = [value EXCEPT ![s] = [first |-> receBuf[3], last |-> receBuf[2 + DataLen(s)]]]
    BY <1>3 DEF Analyse
  <2>7. sendbuf' = [sendbuf EXCEPT ![s] = value'[s]]
    BY <1>3 DEF Analyse
  <2>8. /\ value' = sendbuf'
        /\ sendbuf' = [sendbuf EXCEPT ![s] = [first |-> receBuf[3], last |-> receBuf[2 + DataLen(s)]]]
    BY <1>1, <1>3, <2>6, <2>7
  <2> QED
    BY <1>3, <2>3, <2>4, <2>5, <2>8 DEF Sent
<1> QED
  BY <1>2, <1>3

LEMMA StepOrderInv ==
  ASSUME IInv, [Next]_vars
  PROVE  OrderInv'
<1> USE DEF IInv
<1>1. CASE ModbusTask
  <2>1. polls \in Nat /\ polls' = polls + 1 /\ pending'.n = polls'
    BY <1>1, PollsAssumption DEF ModbusTask, TypeOK
  <2>2. UNCHANGED <<receBuf, dr, answering>>
    BY <1>1 DEF ModbusTask
  <2>3. ASSUME NEW m \in Int, NotOlder(m) PROVE NotOlder(m)'
    BY <2>1, <2>2, <2>3 DEF NotOlder
  <2>4. \A i \in 0..RxLimit-1 : receBuf[i][2] \in Int
    BY CellType, PollsAssumption DEF TypeOK
  <2>5. \A i \in 0..RxLimit-1 : NotOlder(receBuf[i][2])'
    BY <2>2, <2>3, <2>4 DEF OrderInv
  <2>6. dr \notin {None, Stray} => dr[2] \in 1..polls
    BY DEF LineInv, Genuine, Sent
  <2>7. answering # Idle => answering.n \in 1..polls
    BY DEF LineInv, GenuineAnswer, Sent
  <2>8. \A s \in Slaves : sendbuf[s].first \in Cell
    BY DEF TypeOK, Sample
  <2>9. ASSUME NEW t \in Slaves
        PROVE  /\ NotOlder(sendbuf[t].first[2])'
               /\ receBuf[3] # Stray => sendbuf'[t].first[2] <= receBuf[3][2]
    <3>1. PICK s \in Addresses(receBuf[0]) : Analyse(s)
      BY <1>1 DEF ModbusTask
    <3>2. s \in 0..3 /\ 3 \in 0..RxLimit-1
      BY <3>1, AddressesType, LengthAssumption DEF TypeOK
    <3>3. sendbuf[t].first[2] \in Int /\ receBuf[3][2] \in Int
      BY <2>8, <2>4, <3>2, CellType, PollsAssumption
    <3>4. CASE sendbuf'[t].first = sendbuf[t].first
      BY <2>3, <3>3, <3>4 DEF OrderInv
    <3>5. CASE sendbuf'[t].first = receBuf[3]
      BY <2>5, <3>2, <3>3, <3>5, <2>2 DEF OrderInv
    <3>6. sendbuf'[t].first \in {sendbuf[t].first, receBuf[3]}
      <4>1. CASE UNCHANGED sendbuf
        BY <4>1
      <4>2. CASE s \in Slaves /\ \E n \in 1..polls :
                    /\ receBuf[3] = <<s, n, 3>>
                    /\ sendbuf' = [sendbuf EXCEPT ![s] =
                         [first |-> <<s, n, 3>>, last |-> <<s, n, 2 + DataLen(s)>>]]
        BY <4>2 DEF TypeOK
      <4> QED
        BY <3>1, <3>2, <4>1, <4>2, AnalyseResult
    <3> QED
      BY <3>4, <3>5, <3>6
  <2> QED
    BY <2>1, <2>2, <2>5, <2>6, <2>7, <2>9 DEF OrderInv
<1>2. CASE ReceiveInterrupt
  <2>1. /\ dr' = None /\ dr \in Cell
        /\ UNCHANGED <<polls, pending, answering, sendbuf>>
    BY <1>2 DEF ReceiveInterrupt, taskVars, lineVars, TypeOK
  <2>2. \A m : NotOlder(m) => NotOlder(m)'
    BY <2>1 DEF NotOlder
  <2>3. NotOlder(dr[2])
    <3>1. polls \in Nat
      BY PollsAssumption DEF TypeOK
    <3>2. CASE dr = Stray
      BY <3>1, <3>2, CellType DEF NotOlder, LineInv, GenuineAnswer, Sent
    <3>3. CASE dr # Stray
      BY <2>1, <3>1, <3>3, CellType DEF NotOlder, OrderInv, LineInv, Genuine, Sent
    <3> QED
      BY <3>2, <3>3
  <2>4. receBuf' = receBuf \/ receBuf' = [receBuf EXCEPT ![receCount] = dr]
    BY <1>2 DEF ReceiveInterrupt, StoreByte, rxVars
  <2>5. \A i \in 0..RxLimit-1 : receBuf'[i] \in {receBuf[i], dr}
    BY <2>4 DEF TypeOK
  <2>6. \A i \in 0..RxLimit-1 : NotOlder(receBuf[i][2])'
    BY <2>2, <2>3, <2>5 DEF OrderInv, NotOlder
  <2>7. 3 \in 0..RxLimit-1
    BY LengthAssumption
  <2>8. ASSUME NEW s \in Slaves
        PROVE  /\ NotOlder(sendbuf[s].first[2])'
               /\ receBuf'[3] # Stray => sendbuf'[s].first[2] <= receBuf'[3][2]
    <3>1. NotOlder(sendbuf[s].first[2])
      BY DEF OrderInv
    <3>2. NotOlder(sendbuf[s].first[2])'
      BY <2>1, <3>1 DEF NotOlder
    <3>3. CASE receBuf'[3] = receBuf[3]
      BY <2>1, <3>2, <3>3 DEF OrderInv
    <3>4. CASE receBuf'[3] = dr
      BY <2>1, <3>1, <3>2, <3>4, CellType DEF NotOlder
    <3> QED
      BY <2>5, <2>7, <3>3, <3>4
  <2> QED
    BY <2>1, <2>6, <2>8 DEF OrderInv
<1>3. CASE SlaveAnswers
  <2>1. /\ answering' = pending /\ pending' = Idle /\ pending # Idle /\ answering = Idle
        /\ UNCHANGED <<dr, polls, receBuf, sendbuf>>
    BY <1>3 DEF SlaveAnswers, taskVars, rxVars
  <2>2. \A m : NotOlder(m) => NotOlder(m)'
    BY <2>1 DEF NotOlder
  <2>3. \A i \in 0..RxLimit-1 : NotOlder(receBuf[i][2])'
    BY <2>1, <2>2 DEF OrderInv, NotOlder
  <2>4. \A s \in Slaves : NotOlder(sendbuf[s].first[2])'
    BY <2>1, <2>2 DEF OrderInv, NotOlder
  <2> QED
    BY <2>1, <2>3, <2>4 DEF OrderInv
<1>4. CASE LineByte
  <2>1. /\ answering # Idle /\ answering \in Answer
        /\ UNCHANGED <<pending, polls, receBuf, sendbuf>>
    BY <1>4 DEF LineByte, TypeOK, taskVars, rxVars
  <2>2. answering' = Idle \/ answering' = [answering EXCEPT !.pos = answering.pos + 1]
    BY <1>4 DEF LineByte
  <2>3. answering' = Idle \/ answering'.n = answering.n
    BY <2>1, <2>2 DEF Answer
  <2>4. dr' = dr \/ dr' = <<answering.slave, answering.n, answering.pos>>
    BY <1>4 DEF LineByte, Arrives
  <2>5. dr' = dr \/ dr'[2] = answering.n
    BY <2>4
  <2>6. answering.n \in Int
    BY <2>1 DEF Answer
  <2>7. ASSUME NEW m, NotOlder(m) PROVE NotOlder(m)'
    BY <2>1, <2>3, <2>5, <2>7 DEF NotOlder
  <2>8. \A i \in 0..RxLimit-1 : NotOlder(receBuf[i][2])'
    BY <2>1, <2>7 DEF OrderInv, NotOlder
  <2>9. \A s \in Slaves : NotOlder(sendbuf[s].first[2])'
    BY <2>1, <2>7 DEF OrderInv, NotOlder
  <2> QED
    BY <2>1, <2>3, <2>5, <2>6, <2>8, <2>9 DEF OrderInv
<1>5. CASE StrayByte
  <2>1. dr' = dr \/ dr' = Stray
    BY <1>5 DEF StrayByte, Arrives
  <2> QED
    BY <1>5, <2>1 DEF StrayByte, OrderInv, NotOlder, taskVars, rxVars
<1>6. CASE UNCHANGED <<taskVars, receBuf, dr, polls, pending, answering>>
  BY <1>6 DEF OrderInv, NotOlder, taskVars
<1> QED
  BY <1>1, <1>2, <1>3, <1>4, <1>5, <1>6
     DEF Next, TransmitInterrupt, ByteSent, Mask, Unmask, Rest, vars, rxVars, lineVars

-----------------------------------------------------------------------------
(* Answers that come whole *)

LEMMA StepIntactInv ==
  ASSUME IInv, [Next]_vars
  PROVE  IntactInv'
<1> USE DEF IInv
<1>1. CASE intact' = 0
  BY <1>1 DEF IntactInv
<1>2. CASE ReceiveInterrupt
  <2>1. /\ dr' = None /\ UNCHANGED <<de, polls, answering, intact>>
        /\ dr # None /\ StoreByte
    BY <1>2 DEF ReceiveInterrupt, txVars, lineVars
  <2>2. ASSUME NEW s \in Slaves, NEW n, NEW k, Arrived(s, n, k)
        PROVE  Arrived(s, n, k)'
    <3>1. /\ de = "rece" /\ k \in 1..FrameLen(s) /\ dr = <<s, n, k - 1>>
          /\ receCount = k - 1 /\ \A i \in 0..receCount-1 : receBuf[i] = <<s, n, i>>
      BY <2>1, <2>2 DEF Arrived
    <3>2. receCount < RxLimit /\ k \in Int /\ receCount + 1 = k
      BY <3>1, LengthsType
    <3>3. receCount' = k /\ receBuf' = [receBuf EXCEPT ![receCount] = dr]
      BY <2>1, <3>2 DEF StoreByte
    <3>4. \A i \in 0..k-1 : receBuf'[i] = <<s, n, i>>
      <4>1. TAKE i \in 0..k-1
      <4>2. receCount \in 0..RxLimit-1 /\ i \in 0..RxLimit-1 /\ RxLimit \in Int
        BY <3>1, <3>2, LengthAssumption DEF TypeOK
      <4>3. CASE i = receCount
        BY <3>1, <3>3, <4>2, <4>3 DEF TypeOK
      <4>4. CASE i # receCount
        BY <3>1, <3>2, <3>3, <4>2, <4>4 DEF TypeOK
      <4> QED
        BY <4>3, <4>4
    <3> QED
      BY <2>1, <3>1, <3>3, <3>4 DEF Arrived
  <2>3. answering # Idle => answering.slave \in Slaves
    BY DEF TypeOK, Answer
  <2>4. Sent(intact) => Polled(intact) \in Slaves
    BY PolledType DEF Sent
  <2>5. intact = -1 => Arrived(answering.slave, answering.n, answering.pos)'
    <3>1. PICK a : a = answering
      OBVIOUS
    <3>2. intact = -1 => Arrived(a.slave, a.n, a.pos)'
      BY <2>2, <2>3, <3>1 DEF IntactInv
    <3> QED
      BY <2>1, <3>1, <3>2 DEF Arrived
  <2>6. intact > 0 => Arrived(Polled(intact), intact, FrameLen(Polled(intact)))'
    <3>1. PICK n : n = intact
      OBVIOUS
    <3>2. n > 0 => Arrived(Polled(n), n, FrameLen(Polled(n)))'
      BY <2>2, <2>4, <3>1 DEF IntactInv
    <3> QED
      BY <2>1, <3>1, <3>2 DEF Arrived
  <2> QED
    BY <2>1, <2>5, <2>6 DEF IntactInv, Sent
<1>3. CASE TransmitInterrupt
  <2>1. CASE de = "send"
    BY <1>3, <2>1 DEF TransmitInterrupt, IntactInv, Arrived, lineVars, TypeOK
  <2>2. CASE de = "rece"
    <3>1. polls = 0
      BY <1>3, <2>2, PollsAssumption DEF TransmitInterrupt, TransmitInv, TypeOK
    <3> QED
      BY <1>3, <3>1 DEF TransmitInterrupt, IntactInv, LineInv, GenuineAnswer, Sent, lineVars
  <2> QED
    BY <2>1, <2>2 DEF TypeOK
<1>4. CASE LineByte /\ intact' # 0
  <2>0. PICK a : a = answering
    OBVIOUS
  <2>1. /\ a # Idle /\ a \in Answer /\ a.slave \in Slaves /\ a.pos \in Nat
        /\ Sent(a.n) /\ a.slave = Polled(a.n) /\ a.pos < FrameLen(a.slave)
    BY <1>4, <2>0, LengthAssumption DEF LineByte, TypeOK, LineInv, GenuineAnswer, Answer
  <2>2. /\ de = "rece" /\ dr = None /\ receCount = a.pos /\ (a.pos = 0 \/ intact = -1)
        /\ dr' = <<a.slave, a.n, a.pos>>
        /\ UNCHANGED <<de, receBuf, receCount, polls>>
        /\ intact' = IF a.pos + 1 = FrameLen(a.slave) THEN a.n ELSE -1
        /\ answering' = IF a.pos + 1 = FrameLen(a.slave) THEN Idle
                        ELSE [a EXCEPT !.pos = a.pos + 1]
    BY <1>4, <2>0 DEF LineByte, Arrives, rxVars, txVars
  <2>3. \A i \in 0..a.pos-1 : receBuf[i] = <<a.slave, a.n, i>>
    <3>1. CASE a.pos = 0
      BY <3>1
    <3>2. CASE intact = -1
      <4>1. Arrived(a.slave, a.n, a.pos)
        BY <2>0, <3>2 DEF IntactInv
      <4> QED
        BY <2>2, <4>1 DEF Arrived
    <3> QED
      BY <2>2, <3>1, <3>2
  <2>4. Arrived(a.slave, a.n, a.pos + 1)'
    <3>1. a.pos + 1 \in 1..FrameLen(a.slave) /\ (a.pos + 1) - 1 = a.pos
      BY <2>1, LengthsType
    <3>2. /\ de' = "rece" /\ dr' = <<a.slave, a.n, (a.pos + 1) - 1>>
          /\ receCount' = (a.pos + 1) - 1
          /\ \A i \in 0..receCount'-1 : receBuf'[i] = <<a.slave, a.n, i>>
      BY <2>2, <2>3, <3>1
    <3> QED
      BY <3>1, <3>2 DEF Arrived
  <2>5. CASE a.pos + 1 = FrameLen(a.slave)
    <3>1. intact' = a.n /\ a.n > 0 /\ Sent(a.n)' /\ a.slave = Polled(intact')
      BY <2>1, <2>2, <2>5, PollsAssumption DEF Sent, TypeOK
    <3>2. Arrived(a.slave, a.n, FrameLen(a.slave))'
      BY <2>4, <2>5
    <3> QED
      BY <3>1, <3>2 DEF IntactInv, Arrived, Sent
  <2>6. CASE a.pos + 1 # FrameLen(a.slave)
    <3>1. /\ answering'.slave = a.slave /\ answering'.n = a.n /\ answering'.pos = a.pos + 1
          /\ intact' = -1
      BY <2>1, <2>2, <2>6 DEF Answer
    <3>2. answering' # Idle
      BY <2>1, <3>1 DEF Idle, Slaves
    <3>3. Arrived(answering.slave, answering.n, answering.pos)'
      BY <2>4, <3>1 DEF Arrived
    <3> QED
      BY <3>1, <3>2, <3>3 DEF IntactInv
  <2> QED
    BY <2>5, <2>6
<1>5. CASE UNCHANGED <<de, dr, receCount, receBuf, polls, answering, intact>>
  BY <1>5 DEF IntactInv, Arrived, Sent
<1> QED
  BY <1>1, <1>2, <1>3, <1>4, <1>5
     DEF Next, ModbusTask, ByteSent, SlaveAnswers, StrayByte, Mask, Unmask, Rest,
         vars, txVars, rxVars, lineVars

-----------------------------------------------------------------------------
(* What is uploaded *)

LEMMA StepUploadInv ==
  ASSUME IInv, [Next]_vars
  PROVE  UploadInv'
<1> USE DEF IInv
<1>1. CASE ModbusTask
  <2>1. PICK s \in Addresses(receBuf[0]) : Analyse(s)
    BY <1>1 DEF ModbusTask
  <2>2. s \in 0..3
    BY <2>1, AddressesType, LengthAssumption DEF TypeOK
  <2>3. polls \in Nat /\ polls' = polls + 1
    BY <1>1, PollsAssumption DEF ModbusTask, TypeOK
  <2>4. 1..polls \subseteq 1..polls'
    BY <2>3
  <2>5. ASSUME UNCHANGED sendbuf
        PROVE  Attribution'
    BY <2>4, <2>5 DEF UploadInv, Attribution
  <2>6. ASSUME s \in Slaves, \E n \in 1..polls :
               /\ Polled(n) = s
               /\ sendbuf' = [sendbuf EXCEPT ![s] =
                    [first |-> <<s, n, 3>>, last |-> <<s, n, 2 + DataLen(s)>>]]
        PROVE  Attribution'
    <3>1. PICK n \in 1..polls :
               /\ Polled(n) = s
               /\ sendbuf' = [sendbuf EXCEPT ![s] =
                    [first |-> <<s, n, 3>>, last |-> <<s, n, 2 + DataLen(s)>>]]
      BY <2>6
    <3>2. sendbuf'[s] = [first |-> <<s, n, 3>>, last |-> <<s, n, 2 + DataLen(s)>>]
      BY <2>6, <3>1 DEF TypeOK
    <3>3. \A t \in Slaves \ {s} : sendbuf'[t] = sendbuf[t]
      BY <3>1 DEF TypeOK
    <3> QED
      BY <2>4, <3>1, <3>2, <3>3 DEF UploadInv, Attribution
  <2>7. Attribution'
    BY <2>1, <2>2, <2>5, <2>6, AnalyseResult DEF UploadInv
  <2> QED
    BY <2>1, <2>2, <2>7, AnalyseResult DEF UploadInv
<1>2. CASE UNCHANGED <<value, sendbuf, polls>>
  BY <1>2 DEF UploadInv, Attribution
<1> QED
  BY <1>1, <1>2
     DEF Next, ReceiveInterrupt, TransmitInterrupt, ByteSent, SlaveAnswers, LineByte,
         StrayByte, Mask, Unmask, Rest, vars, taskVars

-----------------------------------------------------------------------------
(* The theorems *)

LEMMA StepIInv == IInv /\ [Next]_vars => IInv'
  BY StepTypeOK, StepTransmitInv, StepLineInv, StepOrderInv, StepIntactInv, StepUploadInv
     DEF IInv

LEMMA Inductive == Spec => []IInv
  BY InitIInv, StepIInv, PTL DEF Spec

\* receCount stays inside receBuf and sendPosi inside the command, whatever
\* the line brings (USART2_IRQHandler, beginSend).
THEOREM TypeCorrect == Spec => []TypeOK
<1>1. IInv => TypeOK
  BY DEF IInv
<1> QED
  BY <1>1, Inductive, PTL

\* The transceiver is turned round after the last byte of a command, not
\* before and not later (beginSend, USART2_IRQHandler).
THEOREM CommandsWhole == Spec => []CommandWhole
<1>1. IInv => CommandWhole
  BY DEF IInv, TransmitInv, CommandWhole, TypeOK
<1> QED
  BY <1>1, Inductive, PTL

\* A slave's segment of the upload only ever holds one whole answer of that
\* slave to a command sent to it (rtu_data_anlys, modbus_rtu).
THEOREM SegmentsAttributed == Spec => []Attribution
<1>1. IInv => Attribution
  BY DEF IInv, UploadInv
<1> QED
  BY <1>1, Inductive, PTL

\* A run of modbus_rtu that finds a whole answer uploads it.
LEMMA PublishStep ==
  ASSUME IInv, ModbusTask, intact > 0, dr = None
  PROVE  sendbuf'[Polled(intact)].first[2] = intact
<1> DEFINE t == Polled(intact)
<1>1. intact \in 1..polls /\ polls \in 0..MaxPolls /\ t \in Slaves
  BY PolledType DEF IInv, IntactInv, Sent, TypeOK
<1>2. \A i \in 0..FrameLen(t)-1 : receBuf[i] = <<t, intact, i>>
  <2>1. dr # <<t, intact, FrameLen(t) - 1>>
    BY DEF None
  <2> QED
    BY <2>1 DEF IInv, IntactInv, Arrived
<1>3. 0 \in 0..FrameLen(t)-1 /\ 3 \in 0..FrameLen(t)-1
  BY <1>1, LengthsType
<1>4. receBuf[0] = <<t, intact, 0>> /\ receBuf[3] = <<t, intact, 3>> /\ t # 0
  BY <1>1, <1>2, <1>3 DEF Slaves
<1>5. Addresses(receBuf[0]) = {t}
  BY <1>4 DEF Addresses, Stray
<1>6. Analyse(t)
  BY <1>5 DEF ModbusTask
<1>7. intact \in 1..MaxPolls
  BY <1>1, PollsAssumption
<1>8. CrcRight(t)
  BY <1>2, <1>7 DEF CrcRight
<1>9. value'[t] = [first |-> receBuf[3], last |-> receBuf[2 + DataLen(t)]]
  BY <1>1, <1>6, <1>8 DEF Analyse, IInv, TypeOK
<1>10. sendbuf'[t] = value'[t]
  BY <1>1, <1>6 DEF Analyse, IInv, TypeOK
<1> QED
  BY <1>4, <1>9, <1>10

\* An answer that arrives whole between two commands is not missed.
THEOREM IntactAnswersPublished == Spec => IntactPublished
<1>1. IInv /\ [Next]_vars
        => [ModbusTask /\ intact > 0 /\ dr = None
              => sendbuf'[Polled(intact)].first[2] = intact]_vars
  BY PublishStep
<1> QED
  BY <1>1, Inductive, PTL DEF Spec, IntactPublished

-----------------------------------------------------------------------------
(* Refinement of SampleStore: [s \in Slaves |-> sendbuf[s].first[2]] *)

Shown == [s \in Slaves |-> sendbuf[s].first[2]]

\* A run of modbus_rtu replaces the sample of one slave by a later one, or
\* shows the same one again.
LEMMA StoreStep ==
  ASSUME IInv, [Next]_vars
  PROVE  [Store!Next]_Shown
<1> USE DEF IInv
<1>1. CASE ModbusTask
  <2>1. PICK s \in Addresses(receBuf[0]) : Analyse(s)
    BY <1>1 DEF ModbusTask
  <2>2. s \in 0..3 /\ 3 \in 0..RxLimit-1
    BY <2>1, AddressesType, LengthAssumption DEF TypeOK
  <2>3. CASE UNCHANGED sendbuf
    BY <2>3 DEF Shown
  <2>4. ASSUME s \in Slaves, receBuf[3] # Stray, NEW n \in 1..polls,
               Polled(n) = s, receBuf[3] = <<s, n, 3>>,
               sendbuf' = [sendbuf EXCEPT ![s] =
                    [first |-> <<s, n, 3>>, last |-> <<s, n, 2 + DataLen(s)>>]]
        PROVE  [Store!Next]_Shown
    <3>1. sendbuf[s].first[2] <= n
      BY <2>4 DEF OrderInv
    <3>2. sendbuf[s].first \in Cell
      BY <2>4 DEF TypeOK, Sample
    <3>3. sendbuf[s].first[2] \in Int /\ n \in 1..MaxPolls
      BY <3>2, CellType, PollsAssumption DEF TypeOK
    <3>4. Shown' = [Shown EXCEPT ![s] = n]
      <4>1. ASSUME NEW t \in Slaves
            PROVE  sendbuf'[t].first[2] = IF t = s THEN n ELSE sendbuf[t].first[2]
        BY <2>4 DEF TypeOK
      <4> QED
        BY <2>4, <4>1 DEF Shown
    <3>5. CASE n = sendbuf[s].first[2]
      BY <2>4, <3>4, <3>5 DEF Shown
    <3>6. CASE n # sendbuf[s].first[2]
      <4>1. n > Shown[s] /\ n \in CommandsTo(s)
        BY <2>4, <3>1, <3>3, <3>6 DEF Shown, CommandsTo
      <4>2. Store!Replace(s)
        BY <3>4, <4>1 DEF Store!Replace, Shown
      <4> QED
        BY <2>4, <4>2 DEF Store!Next
    <3> QED
      BY <3>5, <3>6
  <2> QED
    BY <2>1, <2>2, <2>3, <2>4, AnalyseResult
<1>2. CASE UNCHANGED sendbuf
  BY <1>2 DEF Shown
<1> QED
  BY <1>1, <1>2
     DEF Next, ReceiveInterrupt, TransmitInterrupt, ByteSent, SlaveAnswers, LineByte,
         StrayByte, Mask, Unmask, Rest, vars, taskVars

\* The upload buffer implements the abstract store: a slave's sample is its
\* own and is only ever replaced by a later one.
THEOREM StoreImplemented == Spec => ImplementsStore
<1>1. Init => Store!Init
  BY DEF Init, InitTask, Store!Init, NoSample, Stray
<1>2. IInv /\ [Next]_vars => [Store!Next]_Shown
  BY StoreStep
<1> QED
  BY <1>1, <1>2, Inductive, PTL DEF Spec, ImplementsStore, Store!Spec, Shown
=============================================================================
