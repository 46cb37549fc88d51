---------------------------- MODULE ModbusMaster ----------------------------
(***************************************************************************)
(* The Modbus master of the STM32 firmware: modbus_task, the interrupt     *)
(* handler of USART2, and around them the USART, the RS-485 line and the   *)
(* slaves.  modbus_task runs modbus_rtu inside OS_ENTER_CRITICAL, so the   *)
(* handler never interrupts it and it is one action.                       *)
(*                                                                         *)
(* A byte is a cell <<s, n, i>>: byte i of the answer of slave s to the    *)
(* n-th command.  Stray is a byte that is no part of an answer (or memory  *)
(* never written); as an address it may read as any slave.                 *)
(***************************************************************************)
EXTENDS Integers

CONSTANTS
  LongData,    \* data bytes of an answer of slaves 1 and 2: 16 in the code
  ShortData,   \* of slave 3: 6
  RxLimit,     \* if(receCount<25)
  CommandLen,  \* bytes of a command: 8
  MaxPolls,    \* bound: commands sent
  MaxFaults    \* bound: bytes the line loses or invents, answers that the
               \* next command overtakes, and times another task keeps the
               \* interrupts masked for longer than a byte (enc28j60.c sends
               \* a packet that way)

ASSUME LengthAssumption ==
  /\ ShortData \in Nat \ {0} /\ LongData \in Nat /\ LongData > ShortData
  /\ RxLimit \in Nat /\ RxLimit >= LongData + 5
  /\ CommandLen \in Nat /\ CommandLen > 1
ASSUME PollsAssumption == MaxPolls \in Nat
ASSUME FaultsAssumption == MaxFaults \in Nat

VARIABLES
  slaveraddr, value, sendbuf,        \* master.c; sendbuf: tcp_client_sendbuf
  receBuf, receCount, sendCount, sendPosi,              \* usart.c
  de,         \* PA1: "send" or "rece"
  dr,         \* received byte waiting in the USART, or None
  tc,         \* USART_FLAG_TC
  shifting,   \* a byte is being shifted out
  heard,      \* bytes of the current command that were on the line
  polls, pending, answering,   \* the slaves: number of the last command, the
                               \* one to answer, the answer on the line
  intact,     \* history: the answer that arrived whole in an idle window
  masked, faults

taskVars == <<slaveraddr, value, sendbuf>>
txVars   == <<sendCount, sendPosi, de, tc, shifting, heard>>
rxVars   == <<receBuf, receCount>>
lineVars == <<pending, answering, intact>>
envVars  == <<masked, faults>>
vars == <<taskVars, txVars, rxVars, dr, polls, lineVars, envVars>>
-----------------------------------------------------------------------------
Slaves == 1..3
None == <<>>
Stray == <<0, 0, 0>>
DataLen(s) == IF s = 3 THEN ShortData ELSE LongData
FrameLen(s) == DataLen(s) + 5         \* 21, 21 and 11 in the code
Cell == {Stray} \cup (Slaves \X (1..MaxPolls) \X (0..LongData+4))
Idle == [slave |-> 0, n |-> 0, pos |-> 0]
NoSample == [first |-> Stray, last |-> Stray]

Addresses(c) == IF c # Stray /\ c[3] = 0 THEN {c[1]} ELSE 0..3

\* Wrong variant: the length is right and the checksum is not compared.
FrameStarts(s) == receBuf[0][1] = s \/ receBuf[2 + DataLen(s)] # Stray

\* crc16 over receBuf: right only for one whole answer.
CrcRight(s) ==
  \E n \in 1..MaxPolls : \A i \in 0..FrameLen(s)-1 : receBuf[i] = <<s, n, i>>
-----------------------------------------------------------------------------
\* slaveraddr and value have no initialiser: they start at 0, no slave's number.
InitTask ==
  /\ slaveraddr = 0
  /\ value = [s \in Slaves |-> NoSample]
  /\ sendbuf = [s \in Slaves |-> NoSample]

Init ==
  /\ InitTask
  /\ receBuf = [i \in 0..RxLimit-1 |-> Stray]
  /\ receCount = 0
  /\ sendCount = 0
  /\ sendPosi = 0
  /\ de = "rece"
  /\ dr = None
  /\ tc = TRUE          \* TC is set after reset and its interrupt is enabled
  /\ shifting = FALSE
  /\ heard = 0
  /\ polls = 0
  /\ pending = Idle
  /\ answering = Idle
  /\ intact = 0
  /\ masked = FALSE
  /\ faults = 0
Fault == faults < MaxFaults /\ faults' = faults + 1
-----------------------------------------------------------------------------
(* modbus_task *)

\* rtu_data_anlys(value, receBuf, ...) for the slave in receBuf[0], then the
\* copy of its part of value to tcp_client_sendbuf, good checksum or not.
Analyse(s) ==
  /\ value' = IF s \in Slaves /\ CrcRight(s)
              THEN [value EXCEPT ![s] = [first |-> receBuf[3],
                                         last |-> receBuf[2 + DataLen(s)]]]
              ELSE value
  /\ sendbuf' = IF s \in Slaves THEN [sendbuf EXCEPT ![s] = value'[s]]
                ELSE sendbuf

\* The slave a command goes to: the last branch of modbus_rtu, with its
\* literal 3, is also that of the 0 slaveraddr starts with.
Target(s) == IF s \in {1, 2} THEN s ELSE 3

\* Wrong variant: the last branch sets 2, so slave 1 is never polled.
NextSlaveSkips(s) == IF s = 2 THEN 3 ELSE 2

NextSlave(s) == IF s = 1 THEN 2 ELSE IF s = 2 THEN 3 ELSE 1

\* Wrong variant: the length is not turned into the last index.
BeginSendLong ==
  /\ de' = "send"
  /\ sendPosi' = 0
  /\ sendCount' = CommandLen
  /\ shifting' = TRUE
  /\ heard' = 0

\* rtu_read_hldreg and beginSend: sendCount = 8, then the index of the last
\* byte; the first byte goes to the USART.
BeginSend ==
  /\ de' = "send"
  /\ sendPosi' = 0
  /\ sendCount' = CommandLen - 1
  /\ shifting' = TRUE
  /\ heard' = 0

\* modbus_rtu, every 100 ms.  A command takes 2 ms at 38400 baud, so the
\* previous one has left the line: de is back at "rece" (timing assumption).
ModbusTask ==
  /\ ~masked
  /\ de = "rece" /\ ~tc
  /\ polls < MaxPolls
  /\ \E s \in Addresses(receBuf[0]) : Analyse(s)
  /\ receCount' = 0
  /\ polls' = polls + 1
  /\ pending' = [slave |-> Target(slaveraddr), n |-> polls + 1, pos |-> 0]
  /\ slaveraddr' = NextSlave(slaveraddr)
  /\ BeginSend
  /\ intact' = 0
  /\ IF answering # Idle THEN Fault ELSE UNCHANGED faults
  /\ UNCHANGED <<receBuf, tc, dr, answering, masked>>
-----------------------------------------------------------------------------
(* USART2_IRQHandler *)

\* Wrong variant: the limit is the length of a long answer less one.
StoreByteShort ==
  IF receCount < LongData + 4
  THEN /\ receBuf' = [receBuf EXCEPT ![receCount] = dr]
       /\ receCount' = receCount + 1
  ELSE UNCHANGED rxVars

StoreByte ==
  IF receCount < RxLimit
  THEN /\ receBuf' = [receBuf EXCEPT ![receCount] = dr]
       /\ receCount' = receCount + 1
  ELSE UNCHANGED rxVars

\* RXNE has precedence: TC is looked at only when no byte waits.
ReceiveInterrupt ==
  /\ ~masked
  /\ dr # None
  /\ StoreByte
  /\ dr' = None
  /\ UNCHANGED <<taskVars, txVars, polls, lineVars, envVars>>

\* Wrong variant: the transceiver is left sending after the last byte.
TransmitKeepsLine ==
  /\ ~masked
  /\ dr = None
  /\ tc
  /\ tc' = FALSE
  /\ IF sendPosi < sendCount
     THEN sendPosi' = sendPosi + 1 /\ shifting' = TRUE /\ UNCHANGED receCount
     ELSE receCount' = 0 /\ UNCHANGED <<sendPosi, shifting>>
  /\ UNCHANGED <<taskVars, de, sendCount, heard, receBuf, dr, polls, lineVars,
                 envVars>>

TransmitInterrupt ==
  /\ ~masked
  /\ dr = None
  /\ tc
  /\ tc' = FALSE
  /\ \/ /\ sendPosi < sendCount
        /\ sendPosi' = sendPosi + 1
        /\ shifting' = TRUE
        /\ UNCHANGED <<de, receCount>>
     \/ /\ sendPosi >= sendCount
        /\ de' = "rece"
        /\ receCount' = 0
        /\ UNCHANGED <<sendPosi, shifting>>
  /\ UNCHANGED <<taskVars, sendCount, heard, receBuf, dr, polls, lineVars,
                 envVars>>
-----------------------------------------------------------------------------
(* the USART, the line and the slaves *)

\* A byte takes 260 us: an interrupt that is not masked is served before the
\* line's next event.
Served == masked \/ (dr = None /\ ~tc)

\* The last bit of a byte has left.
ByteSent ==
  /\ Served
  /\ shifting
  /\ shifting' = FALSE
  /\ tc' = TRUE
  /\ heard' = heard + 1
  /\ UNCHANGED <<taskVars, sendCount, sendPosi, de, rxVars, dr, polls,
                 lineVars, envVars>>

\* A slave that heard exactly one command answers, now or later; it may
\* start so late that the next command is already on the line.
SlaveAnswers ==
  /\ Served
  /\ pending # Idle /\ answering = Idle
  /\ heard = CommandLen /\ ~shifting
  /\ answering' = pending
  /\ pending' = Idle
  /\ intact' = 0
  /\ UNCHANGED <<taskVars, txVars, rxVars, dr, polls, envVars>>

\* What a byte on the line does to the USART: nothing while the transceiver
\* sends (PA1 is also its receiver enable); an overrun loses it.
Arrives(c) == dr' = IF de = "rece" /\ dr = None THEN c ELSE dr

\* The next byte of the answer; intact notes an answer that came whole.
LineByte ==
  /\ Served
  /\ answering # Idle
  /\ LET a == answering
         c == <<a.slave, a.n, a.pos>>
         whole == /\ de = "rece" /\ dr = None
                  /\ receCount = a.pos
                  /\ a.pos = 0 \/ intact = -1
     IN /\ \/ Arrives(c) /\ UNCHANGED faults
              /\ intact' = IF ~whole THEN 0
                           ELSE IF a.pos + 1 = FrameLen(a.slave) THEN a.n ELSE -1
           \/ /\ Fault
              /\ intact' = 0
              /\ UNCHANGED dr
        /\ answering' = IF a.pos + 1 = FrameLen(a.slave) THEN Idle
                        ELSE [a EXCEPT !.pos = @ + 1]
  /\ UNCHANGED <<taskVars, txVars, rxVars, polls, pending, masked>>

\* A byte out of nowhere.
StrayByte ==
  /\ Served
  /\ Fault
  /\ Arrives(Stray)
  /\ intact' = 0
  /\ UNCHANGED <<taskVars, txVars, rxVars, polls, pending, answering, masked>>

\* Another task enters and leaves a long critical section.
Mask ==
  /\ ~masked
  /\ masked' = TRUE
  /\ Fault
  /\ UNCHANGED <<taskVars, txVars, rxVars, dr, polls, lineVars>>

Unmask ==
  /\ masked
  /\ masked' = FALSE
  /\ UNCHANGED <<taskVars, txVars, rxVars, dr, polls, lineVars, faults>>
-----------------------------------------------------------------------------
\* The bound on commands is reached; the line may rest.
Rest == polls = MaxPolls /\ UNCHANGED vars

Next ==
  \/ ModbusTask
  \/ ReceiveInterrupt
  \/ TransmitInterrupt
  \/ ByteSent
  \/ SlaveAnswers
  \/ LineByte
  \/ StrayByte
  \/ Mask
  \/ Unmask
  \/ Rest

Spec == Init /\ [][Next]_vars

\* The USART shifts its byte out, pending interrupts are taken once they are
\* unmasked, and no task keeps them masked for ever.
FairSpec == Spec /\ WF_vars(ByteSent) /\ WF_vars(ReceiveInterrupt)
                 /\ WF_vars(TransmitInterrupt) /\ WF_vars(Unmask)
-----------------------------------------------------------------------------
(* Properties *)

Answer == [slave : Slaves, n : 1..MaxPolls, pos : 0..LongData+4]

Sample == [first : Cell, last : Cell]

\* Every variable keeps its type; in particular sendPosi stays inside the
\* command in sendBuf and receCount inside the 25 bytes the handler fills.
TypeOK ==
  /\ slaveraddr \in 0..3
  /\ value \in [Slaves -> Sample]
  /\ sendbuf \in [Slaves -> Sample]
  /\ receBuf \in [0..RxLimit-1 -> Cell]
  /\ receCount \in 0..RxLimit
  /\ sendCount \in 0..CommandLen-1
  /\ sendPosi \in 0..CommandLen-1
  /\ de \in {"send", "rece"}
  /\ dr \in Cell \cup {None}
  /\ tc \in BOOLEAN
  /\ shifting \in BOOLEAN
  /\ heard \in 0..CommandLen
  /\ polls \in 0..MaxPolls
  /\ pending \in Answer \cup {Idle}
  /\ answering \in Answer \cup {Idle}
  /\ intact \in -1..MaxPolls
  /\ masked \in BOOLEAN
  /\ faults \in 0..MaxFaults

\* The transceiver goes back to receiving exactly when the last byte of the
\* command has left: never in the middle of a byte, never a byte too late
\* (sendCount-- of beginSend against the TC branch of USART2_IRQHandler).
CommandWhole ==
  de = "rece" /\ polls > 0 => heard = CommandLen /\ ~shifting

\* The slave command n goes to: 3, 1, 2, 3, 1, ...
Polled(n) == ((n + 1) % 3) + 1

\* What is uploaded for slave s are the data bytes of one answer of slave s to
\* a command sent to it: stale bytes of receBuf, late answers, overruns and
\* stray bytes never put two answers, or another slave's, into its segment.
Attribution ==
  \A s \in Slaves :
    \/ sendbuf[s] = NoSample
    \/ \E n \in 1..polls :
         /\ Polled(n) = s
         /\ sendbuf[s] = [first |-> <<s, n, 3>>, last |-> <<s, n, 2 + DataLen(s)>>]

\* An answer that arrived whole in the idle window after its command, and
\* whose last byte the handler has stored, is uploaded by the next run of
\* modbus_rtu.
IntactPublished ==
  [][ ModbusTask /\ intact > 0 /\ dr = None
        => sendbuf'[Polled(intact)].first[2] = intact ]_vars

\* The master never keeps the line: its transceiver always goes back to
\* receiving.
LineReleased == de = "send" ~> de = "rece"

\* The upload buffer implements the store of samples: no sample of another
\* slave and never an older one after a newer one.
CommandsTo(s) == {n \in 1..MaxPolls : Polled(n) = s}
Store == INSTANCE SampleStore
  WITH Samples <- CommandsTo, shown <- [s \in Slaves |-> sendbuf[s].first[2]]
ImplementsStore == Store!Spec
=============================================================================
