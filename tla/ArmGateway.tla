----------------------------- MODULE ArmGateway -----------------------------
(***************************************************************************)
(* The ARM gateway of src/arm.../fengji_v0.5: one Linux process whose      *)
(* threads poll three Modbus slaves over a half-duplex RS-485 line, check   *)
(* the answers, keep the last good one of every slave in dataBuf and upload *)
(* dataBuf over TCP.                                                       *)
(*                                                                         *)
(*   main       creates spi, modbus and tcp                  (fengji.c)    *)
(*   spi        heartbeat to the STM32, aborts the process   (spi_heart.c) *)
(*   modbus     opens the devices, initialises the mutex a second time,    *)
(*              creates com_read, com_send, proc_data     (modbus_demo.c)  *)
(*   com_read   serial port -> msg                                         *)
(*   com_send   writes the three read commands in turn                     *)
(*   proc_data  msg -> dataBuf                                             *)
(*   tcp        dataBuf -> server                         (tcp_client.c)   *)
(*                                                                         *)
(* A byte on the line is a cell <<n, i>>: byte i of the answer to the n-th *)
(* command.  Answer n = 0 stands for memory that was never written.  Only  *)
(* the bytes the code looks at have a value: the byte count at index 2 of  *)
(* an answer is known, any other byte may have any value of DataBytes.     *)
(***************************************************************************)
EXTENDS Integers, Sequences, FiniteSets

CONSTANTS
  MaxPolls,    \* bound: commands com_send writes
  MaxFaults,   \* bound: socket, connect and send calls that fail
  Chunks,      \* how many bytes the line may deliver at a time
  DataBytes,   \* values a register byte may have
  WeakStores   \* TRUE: the two unlocked stores of read_port, which race with
               \* proc_data, may become visible in either order

ASSUME PollsAssumption == MaxPolls \in Nat
ASSUME FaultsAssumption == MaxFaults \in Nat
ASSUME ChunksAssumption == Chunks \subseteq Nat \ {0}
ASSUME BytesAssumption == DataBytes \subseteq 0..255
ASSUME WeakAssumption == WeakStores \in BOOLEAN

VARIABLES
  up,         \* the process runs (no thread has called exit or abort)
  pc,         \* where each thread is
  owner,      \* the word of the mutex mut: its holder, or Nobody
  tainted,    \* history: mut was initialised again while a thread held it
  msg, nread, tmp, msg_length, modbus_data_change,   \* modbus_demo.c
  early,      \* history: the last message's flag was visible before its length
  dataBuf,    \* per slave, the first and the last data byte of its segment
  target,     \* the slave whose segment proc_data is filling
  de,         \* RS-485 direction set by gpio.c
  polls,      \* commands written so far; the last one was number polls
  answering,  \* the answer now on the line, [frame, pos], frame 0 if none
  pending,    \* the command a slave has still to answer, or 0
  rx,         \* bytes in the kernel's receive buffer of the serial port
  sent,       \* the dataBuf of the last upload
  faults

mutexVars == <<owner, tainted>>
readVars  == <<nread, tmp>>
bufVars   == <<msg, msg_length, modbus_data_change, early>>
procVars  == <<dataBuf, target>>
lineVars  == <<de, polls, answering, pending>>
netVars   == <<sent, faults>>
dataVars  == <<readVars, bufVars, procVars, lineVars, rx, netVars>>
vars == <<up, pc, mutexVars, dataVars>>
-----------------------------------------------------------------------------
Slaves  == 1..3
Threads == {"main", "spi", "modbus", "com_read", "com_send", "proc_data", "tcp"}
Nobody  == "nobody"

\* The slave command n addresses: cmd1, cmd2, cmd3 in turn.
SlaveOf(n) == ((n - 1) % 3) + 1

\* Data bytes of an answer: 8 registers of slaves 1 and 2, 3 of slave 3.
DataLen(s) == IF s = 3 THEN 6 ELSE 16
FrameLen(n) == DataLen(SlaveOf(n)) + 5

MsgSize == 40      \* unsigned char msg[40]
FirstRead == 21    \* read(fd,msg,21)
SecondReadWhole == 21   \* wrong variant: asks for a whole answer again
SecondRead == 5    \* read(fd,msg+nread,5)
MinLength == 11

Unwritten == <<0, 0>>
Cell == {Unwritten} \cup ((1..MaxPolls) \X (0..20))

\* The values the byte in a cell may have when the code compares it.
ByteValues(c) ==
  IF c = Unwritten THEN {0}
  ELSE IF c[2] = 2 THEN {DataLen(SlaveOf(c[1]))}
  ELSE DataBytes

\* Wrong variant: the checksum is not compared.
CheckLengthOnly(m, len) == len >= MinLength

\* modbus_rtu_check_integrity: the CRC of a buffer is right only when the
\* buffer is one whole answer (a CRC collision is not modelled).
CheckIntegrity(m, len) ==
  /\ len >= MinLength
  /\ \E n \in 1..MaxPolls : /\ len = FrameLen(n)
                            /\ \A i \in 0..len-1 : m[i] = <<n, i>>

\* msg[0] of a message that passed the check.
AddressIn(m) == SlaveOf(m[0][1])

\* read(): the first k bytes of rx land at msg[at..].
Read(at, k) ==
  /\ msg' = [i \in 0..MsgSize-1 |->
               IF i \in at..at+k-1 THEN rx[i - at + 1] ELSE msg[i]]
  /\ rx' = SubSeq(rx, k + 1, Len(rx))

AtMost(a, b) == IF a < b THEN a ELSE b
-----------------------------------------------------------------------------
\* The control points of a thread that lie between lock and unlock.
CriticalPoints ==
  {"read1", "unlock1", "read2", "unlock2",              \* com_read
   "clear", "check", "copy_first", "copy_last", "leave", \* proc_data
   "send", "sent_ok", "sent_err"}                       \* tcp

InCS(t) == pc[t] \in CriticalPoints

Goto(t, l) == pc' = [pc EXCEPT ![t] = l]
Step(t, from, to) == pc[t] = from /\ Goto(t, to)

Lock(t, from, to) ==
  /\ Step(t, from, to)
  /\ owner = Nobody
  /\ owner' = t
  /\ UNCHANGED <<up, tainted, dataVars>>

Unlock == owner' = Nobody /\ UNCHANGED tainted

\* exit() or abort(): every thread ends with the process.
Exit == up' = FALSE /\ UNCHANGED <<pc, mutexVars, dataVars>>

Init ==
  /\ up = TRUE
  /\ pc = [t \in Threads |-> IF t = "main" THEN "boot" ELSE "none"]
  /\ owner = Nobody
  /\ tainted = FALSE
  /\ msg = [i \in 0..MsgSize-1 |-> Unwritten]
  /\ nread = 0 /\ tmp = 0 /\ msg_length = 0
  /\ modbus_data_change = FALSE /\ early = FALSE
  /\ dataBuf = [s \in Slaves |-> [first |-> Unwritten, last |-> Unwritten]]
  /\ target = 1
  /\ de = "rece"
  /\ polls = 0
  /\ answering = [frame |-> 0, pos |-> 0]
  /\ pending = 0
  /\ rx = <<>>
  /\ sent = [s \in Slaves |-> [first |-> Unwritten, last |-> Unwritten]]
  /\ faults = 0
-----------------------------------------------------------------------------
(* main and the creation of the threads *)

\* start_thread_func: when pthread_create fails, its caller ends the process.
StartThread(t, from, to, u, start) ==
  /\ pc[t] = from
  /\ \/ /\ pc' = [pc EXCEPT ![t] = to, ![u] = start]
        /\ UNCHANGED <<up, mutexVars, dataVars>>
     \/ Exit

\* pthread_mutex_init writes an unlocked mutex over whatever mut was.
MutexInit(t, from, to) ==
  /\ Step(t, from, to)
  /\ owner' = Nobody
  /\ tainted' = (tainted \/ \E u \in Threads : InCS(u))
  /\ UNCHANGED <<up, dataVars>>

Main ==
  \/ MutexInit("main", "boot", "mk_spi")
  \/ StartThread("main", "mk_spi", "mk_modbus", "spi", "open")
  \/ StartThread("main", "mk_modbus", "mk_tcp", "modbus", "open")
  \/ StartThread("main", "mk_tcp", "spin", "tcp", "socket")

\* The heartbeat over SPI; a failing open or ioctl aborts the process.
Spi ==
  \/ Step("spi", "open", "beat") /\ UNCHANGED <<up, mutexVars, dataVars>>
  \/ pc["spi"] \in {"open", "beat"} /\ Exit

\* OpenDev, or exit when the serial port cannot be opened.
OpenSerial ==
  \/ Step("modbus", "open", "init") /\ UNCHANGED <<up, mutexVars, dataVars>>
  \/ pc["modbus"] = "open" /\ Exit

\* modbus_rtu_thread
Modbus ==
  \/ OpenSerial
  \/ MutexInit("modbus", "init", "mk_read")
  \/ StartThread("modbus", "mk_read", "mk_send", "com_read", "select")
  \/ StartThread("modbus", "mk_send", "mk_proc", "com_send", "write")
  \/ StartThread("modbus", "mk_proc", "spin", "proc_data", "test")
-----------------------------------------------------------------------------
(* com_read: read_port *)

\* select reports the port readable.
Select ==
  /\ Step("com_read", "select", "lock1")
  /\ rx # <<>>
  /\ UNCHANGED <<up, mutexVars, dataVars>>

\* nread = read(fd,msg,21); int tmp = 0;
ReadFirst ==
  /\ Step("com_read", "read1", "unlock1")
  /\ LET k == AtMost(FirstRead, Len(rx)) IN nread' = k /\ Read(0, k)
  /\ tmp' = 0
  /\ UNCHANGED <<up, mutexVars, msg_length, modbus_data_change, early, procVars,
                 lineVars, netVars>>

\* Wrong variant: the second read is made without locking again.
ClassifyNoRelock ==
  /\ pc["com_read"] = "unlock1"
  /\ Unlock
  /\ \E v \in ByteValues(msg[2]) :
       Goto("com_read", CASE nread = v + 5 -> "store_len"
                          [] nread < v + 5 -> "read2"
                          [] OTHER -> "select")
  /\ UNCHANGED <<up, dataVars>>

\* Unlock, then compare nread with the byte count: a whole answer, one to
\* complete, or one to drop.  Only com_read writes msg, so that the
\* comparison may be taken with the unlock.
Classify ==
  /\ pc["com_read"] = "unlock1"
  /\ Unlock
  /\ \E v \in ByteValues(msg[2]) :
       Goto("com_read", CASE nread = v + 5 -> "store_len"
                          [] nread < v + 5 -> "lock2"
                          [] OTHER -> "select")
  /\ UNCHANGED <<up, dataVars>>

\* tmp = read(fd,msg+nread,5): -1 when nothing has arrived (O_NDELAY).
ReadSecond ==
  /\ Step("com_read", "read2", "unlock2")
  /\ LET k == AtMost(SecondRead, Len(rx))
     IN tmp' = (IF k = 0 THEN -1 ELSE k) /\ Read(nread, k)
  /\ UNCHANGED <<up, mutexVars, nread, msg_length, modbus_data_change, early,
                 procVars, lineVars, netVars>>

UnlockSecond ==
  /\ Step("com_read", "unlock2", "store_len")
  /\ Unlock
  /\ UNCHANGED <<up, dataVars>>

\* msg_length = nread + tmp, outside the lock.
StoreLength ==
  /\ pc["com_read"] \in {"store_len", "store_len_late"}
  /\ msg_length' = nread + tmp
  /\ Goto("com_read",
          IF pc["com_read"] = "store_len" /\ nread + tmp >= MinLength
          THEN "store_flag" ELSE "select")
  /\ UNCHANGED <<up, mutexVars, readVars, msg, modbus_data_change, early, procVars,
                 lineVars, rx, netVars>>

\* modbus_data_change = 1, outside the lock; with WeakStores the other
\* threads may see it before the store of msg_length.
StoreFlag ==
  /\ \/ Step("com_read", "store_flag", "select")
     \/ /\ WeakStores /\ nread + tmp >= MinLength
        /\ Step("com_read", "store_len", "store_len_late")
  /\ modbus_data_change' = TRUE
  /\ early' = (pc["com_read"] = "store_len")
  /\ UNCHANGED <<up, mutexVars, readVars, msg, msg_length, procVars, lineVars,
                 rx, netVars>>

ComRead ==
  \/ Select
  \/ Lock("com_read", "lock1", "read1")
  \/ ReadFirst
  \/ Classify
  \/ Lock("com_read", "lock2", "read2")
  \/ ReadSecond
  \/ UnlockSecond
  \/ StoreLength
  \/ StoreFlag
-----------------------------------------------------------------------------
(* com_send and the line *)

\* sendEnable, write, and 2 ms for the eight bytes to leave.
WriteCommand ==
  /\ Step("com_send", "write", "turn")
  /\ polls < MaxPolls
  /\ de' = "send"
  /\ polls' = polls + 1
  /\ pending' = polls + 1
  /\ UNCHANGED <<up, mutexVars, readVars, bufVars, procVars, answering, rx,
                 netVars>>

\* receEnable, then 100 ms until the next command.
TurnAround ==
  /\ Step("com_send", "turn", "write")
  /\ de' = "rece"
  /\ UNCHANGED <<up, mutexVars, readVars, bufVars, procVars, polls, answering,
                 pending, rx, netVars>>

ComSend == WriteCommand \/ TurnAround

\* The addressed slave begins its answer, however late.
SlaveAnswers ==
  /\ pending # 0
  /\ answering.frame = 0
  /\ answering' = [frame |-> pending, pos |-> 0]
  /\ pending' = 0
  /\ UNCHANGED <<up, pc, mutexVars, readVars, bufVars, procVars, de, polls, rx,
                 netVars>>

\* The next bytes of the answer reach the port, or are lost: to noise, or
\* because the transceiver sends.
LineDelivers ==
  /\ answering.frame # 0
  /\ \E c \in Chunks :
       LET n == answering.frame
           last == AtMost(answering.pos + c, FrameLen(n))
           bytes == [i \in 1..(last - answering.pos) |->
                       <<n, answering.pos + i - 1>>]
       IN /\ answering' = IF last = FrameLen(n) THEN [frame |-> 0, pos |-> 0]
                          ELSE [answering EXCEPT !.pos = last]
          /\ rx' \in IF de = "rece" THEN {rx, rx \o bytes} ELSE {rx}
  /\ UNCHANGED <<up, pc, mutexVars, readVars, bufVars, procVars, de, polls,
                 pending, netVars>>

Line == SlaveAnswers \/ LineDelivers
-----------------------------------------------------------------------------
(* proc_data *)

TestFlag ==
  /\ Step("proc_data", "test", "lock")
  /\ modbus_data_change
  /\ UNCHANGED <<up, mutexVars, dataVars>>

ClearFlag ==
  /\ Step("proc_data", "clear", "check")
  /\ modbus_data_change' = FALSE
  /\ UNCHANGED <<up, mutexVars, readVars, msg, msg_length, early, procVars, lineVars,
                 rx, netVars>>

\* Wrong variant: the lock is given back before the copy.
CheckThenUnlock ==
  /\ pc["proc_data"] = "check"
  /\ Unlock
  /\ IF CheckIntegrity(msg, msg_length)
     THEN Goto("proc_data", "copy_first") /\ target' = AddressIn(msg)
     ELSE Goto("proc_data", "leave") /\ UNCHANGED target
  /\ UNCHANGED <<up, readVars, bufVars, dataBuf, lineVars, rx, netVars>>

\* Wrong variant: a message that fails the check leaves with the lock held.
CheckKeepsLock ==
  /\ pc["proc_data"] = "check"
  /\ IF CheckIntegrity(msg, msg_length)
     THEN Goto("proc_data", "copy_first") /\ target' = AddressIn(msg)
     ELSE Goto("proc_data", "test") /\ UNCHANGED target
  /\ UNCHANGED <<up, mutexVars, readVars, bufVars, dataBuf, lineVars, rx,
                 netVars>>

\* modbus_rtu_check_integrity and the choice of the segment by msg[0].
CheckMessage ==
  /\ pc["proc_data"] = "check"
  /\ IF CheckIntegrity(msg, msg_length)
     THEN Goto("proc_data", "copy_first") /\ target' = AddressIn(msg)
     ELSE Goto("proc_data", "leave") /\ UNCHANGED target
  /\ UNCHANGED <<up, mutexVars, readVars, bufVars, dataBuf, lineVars, rx,
                 netVars>>

\* rtu_data_anlys copies byte by byte; its first and its last byte stand for
\* the segment.
CopyFirst ==
  /\ Step("proc_data", "copy_first", "copy_last")
  /\ dataBuf' = [dataBuf EXCEPT ![target].first = msg[3]]
  /\ UNCHANGED <<up, mutexVars, readVars, bufVars, target, lineVars, rx,
                 netVars>>

CopyLast ==
  /\ Step("proc_data", "copy_last", "leave")
  /\ dataBuf' = [dataBuf EXCEPT ![target].last = msg[2 + DataLen(target)]]
  /\ UNCHANGED <<up, mutexVars, readVars, bufVars, target, lineVars, rx,
                 netVars>>

\* Wrong variant: the flag is reset when the message has been dealt with.
LeaveClearing ==
  /\ Step("proc_data", "leave", "test")
  /\ Unlock
  /\ modbus_data_change' = FALSE
  /\ UNCHANGED <<up, readVars, msg, msg_length, early, procVars, lineVars, rx,
                 netVars>>

LeaveProc ==
  /\ Step("proc_data", "leave", "test")
  /\ Unlock
  /\ UNCHANGED <<up, dataVars>>

ProcData ==
  \/ TestFlag
  \/ Lock("proc_data", "lock", "clear")
  \/ ClearFlag
  \/ CheckMessage
  \/ CopyFirst
  \/ CopyLast
  \/ LeaveProc
-----------------------------------------------------------------------------
(* tcp: tcp_client_thread *)

Fault == faults < MaxFaults /\ faults' = faults + 1

\* socket(), tried again after 10 ms.
Socket ==
  /\ pc["tcp"] = "socket"
  /\ \/ Goto("tcp", "connect") /\ UNCHANGED faults
     \/ Fault /\ UNCHANGED pc
  /\ UNCHANGED <<up, mutexVars, readVars, bufVars, procVars, lineVars, rx, sent>>

\* connect(); after a failure a new socket is made.
Connect ==
  /\ pc["tcp"] = "connect"
  /\ \/ Goto("tcp", "lock") /\ UNCHANGED faults
     \/ Fault /\ Goto("tcp", "socket")
  /\ UNCHANGED <<up, mutexVars, readVars, bufVars, procVars, lineVars, rx, sent>>

\* send(sockfd, dataBuf, 44, 0) with the lock held.
Send ==
  /\ pc["tcp"] = "send"
  /\ \/ Goto("tcp", "sent_ok") /\ sent' = dataBuf /\ UNCHANGED faults
     \/ Fault /\ Goto("tcp", "sent_err") /\ UNCHANGED sent
  /\ UNCHANGED <<up, mutexVars, readVars, bufVars, procVars, lineVars, rx>>

\* Wrong variant: the error path does not unlock.
LeaveTcpLocked ==
  /\ pc["tcp"] \in {"sent_ok", "sent_err"}
  /\ IF pc["tcp"] = "sent_ok" THEN Unlock ELSE UNCHANGED mutexVars
  /\ Goto("tcp", IF pc["tcp"] = "sent_ok" THEN "lock" ELSE "socket")
  /\ UNCHANGED <<up, dataVars>>

\* Unlock on both paths; an error closes the socket and starts again.
LeaveTcp ==
  /\ pc["tcp"] \in {"sent_ok", "sent_err"}
  /\ Unlock
  /\ Goto("tcp", IF pc["tcp"] = "sent_ok" THEN "lock" ELSE "socket")
  /\ UNCHANGED <<up, dataVars>>

Tcp ==
  \/ Socket
  \/ Connect
  \/ Lock("tcp", "lock", "send")
  \/ Send
  \/ LeaveTcp
-----------------------------------------------------------------------------
\* A dead process stays dead.
Ended == ~up /\ UNCHANGED vars

Next ==
  \/ up /\ Main
  \/ up /\ Spi
  \/ up /\ Modbus
  \/ up /\ ComRead
  \/ up /\ ComSend
  \/ up /\ Line
  \/ up /\ ProcData
  \/ up /\ Tcp
  \/ Ended

Spec == Init /\ [][Next]_vars

\* Every thread that can run does; a thread that waits for the mutex gets it
\* if the mutex is free again and again (the other threads sleep between two
\* locks).  The line and the heartbeat promise nothing.
Fairness ==
  /\ WF_vars(up /\ Main)
  /\ WF_vars(up /\ Modbus)
  /\ WF_vars(up /\ Tcp)
  /\ WF_vars(up /\ ComRead)
  /\ WF_vars(up /\ ComSend)
  /\ WF_vars(up /\ ProcData)
  /\ SF_vars(up /\ Lock("com_read", "lock1", "read1"))
  /\ SF_vars(up /\ Lock("com_read", "lock2", "read2"))
  /\ SF_vars(up /\ Lock("proc_data", "lock", "clear"))
  /\ SF_vars(up /\ Lock("tcp", "lock", "send"))

FairSpec == Spec /\ Fairness
-----------------------------------------------------------------------------
(* Properties *)

\* The two ends of a slave's segment of dataBuf.
Segment == [first : Cell, last : Cell]

\* Where each thread may be.
PointsOf(t) ==
  CASE t = "main" -> {"boot", "mk_spi", "mk_modbus", "mk_tcp", "spin"}
    [] t = "spi" -> {"none", "open", "beat"}
    [] t = "modbus" ->
         {"none", "open", "init", "mk_read", "mk_send", "mk_proc", "spin"}
    [] t = "com_read" ->
         {"none", "select", "lock1", "read1", "unlock1", "lock2", "read2",
          "unlock2", "store_len", "store_len_late", "store_flag"}
    [] t = "com_send" -> {"none", "write", "turn"}
    [] t = "proc_data" ->
         {"none", "test", "lock", "clear", "check", "copy_first", "copy_last",
          "leave"}
    [] t = "tcp" ->
         {"none", "socket", "connect", "lock", "send", "sent_ok", "sent_err"}

Points == UNION {PointsOf(t) : t \in Threads}

ControlTypeOK ==
  /\ up \in BOOLEAN
  /\ pc \in [Threads -> Points]
  /\ \A t \in Threads : pc[t] \in PointsOf(t)

MutexTypeOK == owner \in Threads \cup {Nobody} /\ tainted \in BOOLEAN

ReaderTypeOK ==
  /\ msg \in [0..MsgSize-1 -> Cell]
  /\ rx \in Seq(Cell)
  /\ nread \in 0..FirstRead
  /\ tmp \in -1..5
  /\ msg_length \in -1..FirstRead+5
  /\ modbus_data_change \in BOOLEAN /\ early \in BOOLEAN

StoreTypeOK ==
  /\ dataBuf \in [Slaves -> Segment]
  /\ sent \in [Slaves -> Segment]
  /\ target \in Slaves
  /\ faults \in 0..MaxFaults

LineTypeOK ==
  /\ de \in {"send", "rece"}
  /\ polls \in 0..MaxPolls
  /\ pending \in 0..MaxPolls
  /\ answering \in [frame : 0..MaxPolls, pos : 0..20]

\* Every variable keeps its type; in particular a message never holds more
\* than 26 bytes, so the second read stays inside msg[40] (modbus_demo.c).
TypeOK ==
  ControlTypeOK /\ MutexTypeOK /\ ReaderTypeOK /\ StoreTypeOK /\ LineTypeOK

\* At most one thread is between lock and unlock of mut: what the comment
\* "mutex" of fengji.c:30 promises.
MutualExclusion == \A t, u \in Threads : InCS(t) /\ InCS(u) => t = u

\* Only the second pthread_mutex_init (modbus_demo.c:202) can break mutual
\* exclusion, and only when it hits a thread inside its critical section.
ExclusionUnlessReinit == ~tainted => MutualExclusion

\* A segment of dataBuf shows one answer, not halves of two.
Whole(seg) == seg.first[1] = seg.last[1]

\* An upload never carries a half-copied segment (tcp_client.c:62 against
\* proc_data's copy), unless the mutex was initialised again under a holder.
WholeUploads == ~tainted => \A s \in Slaves : Whole(sent[s])

\* The bytes of the segment of slave s were data bytes of an answer of slave
\* s, from the first to the last, whatever cut, late, overwritten or
\* half-read messages msg and msg_length went through.
Attribution ==
  ~tainted =>
    \A s \in Slaves, n \in 1..MaxPolls :
      /\ dataBuf[s].first[1] = n => SlaveOf(n) = s /\ dataBuf[s].first[2] = 3
      /\ dataBuf[s].last[1] = n => SlaveOf(n) = s /\ dataBuf[s].last[2] = 2 + DataLen(s)

\* What makes the above inductive.  A thread does not exist before its
\* creator has come to the point that creates it.
CreatedInOrder ==
  /\ pc["main"] \in {"boot", "mk_spi"} => pc["spi"] = "none"
  /\ pc["main"] \in {"boot", "mk_spi", "mk_modbus"} => pc["modbus"] = "none"
  /\ pc["main"] # "spin" => pc["tcp"] = "none"
  /\ pc["modbus"] \in {"none", "open", "init", "mk_read"} => pc["com_read"] = "none"
  /\ pc["modbus"] # "spin" => pc["proc_data"] = "none"

\* The word of the mutex names the one thread inside a critical section.
OwnerInside == ~tainted => \A t \in Threads : InCS(t) <=> owner = t

\* While proc_data copies, msg is one whole answer of the slave it copies to.
CopiesAnswer ==
  ~tainted /\ pc["proc_data"] \in {"copy_first", "copy_last"} =>
    \E n \in 1..MaxPolls :
      /\ target = SlaveOf(n)
      /\ msg[3] = <<n, 3>>
      /\ msg[2 + DataLen(target)] = <<n, 2 + DataLen(target)>>
      /\ pc["proc_data"] = "copy_last" => dataBuf[target].first = <<n, 3>>

\* Only the segment being copied may be half new and half old.
WholeSegments ==
  ~tainted =>
    \A s \in Slaves :
      Whole(dataBuf[s]) \/ (pc["proc_data"] = "copy_last" /\ s = target)

\* com_read has announced answer n, whole in msg.  The length it stored is
\* the length it read: a message that it dropped because more came than the
\* byte count says leaves the length of an earlier one in msg_length.
Announced(n) ==
  /\ pc["com_read"] \in {"select", "lock1"} /\ ~early
  /\ msg_length = nread + tmp /\ msg_length = FrameLen(n)
  /\ CheckIntegrity(msg, msg_length) /\ msg[0][1] = n

\* A whole answer that com_read has announced is not forgotten: until the
\* next read touches msg, either the flag is still set, or proc_data holds
\* the lock and has not looked at msg yet, or the answer is being copied or
\* has reached dataBuf.  It needs proc_data to reset the flag before it looks
\* at msg, since com_read sets the flag outside the lock, and the two stores
\* of com_read to have become visible in program order (~early).
AnswerNotForgotten ==
  ~tainted => \A n \in 1..MaxPolls :
    Announced(n) => \/ modbus_data_change
                    \/ pc["proc_data"] \in {"check", "copy_first", "copy_last"}
                    \/ dataBuf[SlaveOf(n)].last[1] = n

\* An answer that reached dataBuf is uploaded, itself or a later one of the
\* same slave, unless the process ends: reconnecting never gives up.
AnswerUploaded ==
  \A s \in Slaves, n \in 1..MaxPolls :
    (dataBuf[s].last[1] = n) ~> (sent[s].last[1] >= n \/ ~up)

\* com_read is never locked out of msg for good: every holder unlocks on
\* every path.
ReaderServed ==
  pc["com_read"] \in {"lock1", "lock2"}
    ~> (pc["com_read"] \in {"read1", "read2"} \/ ~up)
=============================================================================
