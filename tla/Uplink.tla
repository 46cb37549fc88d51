---- MODULE Uplink ----
(***************************************************************************)
(* The upload of the STM32 firmware: tcp_client_thread (priority 8), the   *)
(* netconn API it calls, the tcpip thread (priority 5) that answers its    *)
(* calls and runs the callbacks of the connection's pcb, adc_task          *)
(* (priority 6) and modbus_task (7), which write the buffer being sent,    *)
(* and led_task (10), which paces the uploads.  Priorities make the steps  *)
(* atomic: the tcpip thread preempts its caller and every other task, so   *)
(* that a call and its handling are one step; the client moves only while  *)
(* adc_task sleeps, led_task only while the client blocks too.             *)
(***************************************************************************)
EXTENDS Naturals, Sequences, FiniteSets

CONSTANTS
    MaxQs,      \* message queues left for connections (OS_MAX_QS less the tcpip thread's)
    BoxSize,    \* entries of a recvmbox (MAX_QUEUE_ENTRIES)
    Wnd,        \* received segments the window has room for
    SndBuf,     \* TCP_SND_BUF, in cells of the upload
    MaxFaults   \* bound: allocations inside TCP that fail

ASSUME SizeAssumption == /\ MaxQs \in Nat \ {0} /\ BoxSize \in Nat \ {0}
                         /\ Wnd \in Nat \ {0} /\ SndBuf \in Nat \ {0} /\ MaxFaults \in Nat

(* An upload is four cells: the two bytes of a sample of modbus_task and the *)
(* two bytes of a sample of adc_task.                                        *)
Cells == 4
High(sample) == 2 * sample - 1
Low(sample) == 2 * sample
Samples == {1, 2}
AdcSample == 2

VARIABLES
    at,         \* the client: a call, or "new", "token", "fetch"
    waits,      \* it has made the call and waits for op_completed
    res,        \* err of the call's message
    hand,       \* what it fetched from the recvmbox: "data" or "nil"
    conn,       \* tcp_clientconn, or NoConn
    pcb,        \* its tcp_pcb, or NoPcb
    queues,     \* free OS queues
    mybox,      \* "none" before led_task created it, then "empty" or "full"
    adc,        \* adc_task: "delay", or "mid" of a sample
    changed,    \* samples written since a part of the upload was copied
    faults

vars == <<at, waits, res, hand, conn, pcb, queues, mybox, adc, changed, faults>>
client == <<at, waits, hand>>
tasks == <<mybox, adc, changed>>

NoConn == [state |-> "free"]
NoPcb == [st |-> "free"]
NewConn == [state |-> "none", fatal |-> FALSE, cur |-> FALSE, off |-> 0, sem |-> 0,
            box |-> TRUE, q |-> <<>>, late |-> FALSE, torn |-> FALSE]
NewPcb == [st |-> "closed", recv |-> TRUE, unacked |-> 0, held |-> 0]

Calls == {"newconn", "connect", "getaddr", "write", "recved", "close", "delconn"}
HasConn == conn.state # "free"
HasPcb == pcb.st # "free"

(* sys_mbox_valid: a queue that is full does not pass for valid. *)
Valid(c) == c.box /\ Len(c.q) < BoxSize

Fault == faults < MaxFaults /\ faults' = faults + 1
NoFault == UNCHANGED faults

----
(* The tcpip thread answers a call.  c is the connection as the handler has *)
(* changed it so far, p its pcb.                                            *)

Signalled(c) == [c EXCEPT !.sem = @ + 1]                        \* sys_sem_signal
Finished(c) == Signalled([c EXCEPT !.cur = FALSE, !.state = "none"])
Answer(c, r) == conn' = Signalled(c) /\ res' = r
Finish(c, r) == conn' = Finished(c) /\ res' = r
Begun(c, state) == [c EXCEPT !.state = state, !.cur = TRUE]

do_newconn(c) ==
    \/ Answer(c, "ok") /\ pcb' = NewPcb /\ NoFault
    \/ Answer(c, "err") /\ pcb' = NoPcb /\ Fault

do_connect ==
    IF ~HasPcb THEN Answer(conn, "err") /\ UNCHANGED <<pcb, faults>>
    ELSE
    \/ conn' = Begun(conn, "connect") /\ pcb' = [pcb EXCEPT !.st = "synsent"]
       /\ NoFault /\ UNCHANGED res
    \/ Answer(conn, "err") /\ Fault /\ UNCHANGED pcb            \* tcp_connect: ERR_MEM

do_getaddr == Answer(conn, IF HasPcb THEN "ok" ELSE "err") /\ UNCHANGED <<pcb, faults>>

(* do_writemore copies what fits of tcp_client_sendbuf into TCP's segments. *)
Least(a, b) == IF a < b THEN a ELSE b
Torn(from, n) == \E s \in Samples :
    \/ from < High(s) /\ Low(s) <= from + n /\ s = AdcSample /\ adc = "mid"
    \/ from = High(s) /\ n > 0 /\ s \in changed

Copied(c, p) == Least(Cells - c.off, SndBuf - p.unacked)

WritemoreKeepsOffset(c, p) ==                                   \* Wrong variant.
    \/ LET n == Copied(c, p)
           d == [c EXCEPT !.off = @ + n, !.torn = @ \/ Torn(c.off, n)]
       IN /\ IF d.off = Cells THEN Finish(d, "ok")
             ELSE conn' = [d EXCEPT !.late = TRUE] /\ UNCHANGED res
          /\ pcb' = [p EXCEPT !.unacked = @ + n]
          /\ changed' = (IF n = 0 THEN changed ELSE {}) /\ NoFault
    \/ conn' = [c EXCEPT !.late = TRUE] /\ pcb' = p /\ Fault /\ UNCHANGED <<res, changed>>

do_writemore(c, p) ==
    \/ LET n == Copied(c, p)
           d == [c EXCEPT !.off = @ + n, !.torn = @ \/ Torn(c.off, n)]
       IN /\ IF d.off = Cells THEN Finish([d EXCEPT !.off = 0], "ok")
             ELSE conn' = [d EXCEPT !.late = TRUE] /\ UNCHANGED res
          /\ pcb' = [p EXCEPT !.unacked = @ + n]
          /\ changed' = (IF n = 0 THEN changed ELSE {}) /\ NoFault
    \/ conn' = [c EXCEPT !.late = TRUE] /\ pcb' = p /\ Fault /\ UNCHANGED <<res, changed>>     \* ERR_MEM

do_write ==
    IF conn.fatal \/ conn.state # "none" \/ ~HasPcb
    THEN Answer(conn, "err") /\ NoFault /\ UNCHANGED <<pcb, changed>>
    ELSE do_writemore([Begun(conn, "write") EXCEPT !.off = 0, !.late = FALSE, !.torn = FALSE], pcb)

do_recv ==
    /\ Answer(conn, "ok") /\ NoFault
    /\ pcb' = IF HasPcb /\ hand = "data" THEN [pcb EXCEPT !.held = @ - 1] ELSE pcb

(* tcp_close: with unread data a reset, else a FIN, for which there may be  *)
(* no memory; then the callbacks come back, all but recv.                   *)
do_close_internal(c, p) ==
    \/ Finish(c, "ok") /\ pcb' = NoPcb /\ NoFault
    \/ /\ p.st \in {"est", "closewait"} /\ p.held = 0 /\ Fault
       /\ conn' = c /\ pcb' = [p EXCEPT !.recv = FALSE] /\ UNCHANGED res

(* netconn_drain leaves a full mailbox, which it takes for invalid, alone. *)
Drained(c) == IF Valid(c) THEN [c EXCEPT !.q = <<>>, !.box = FALSE] ELSE c
Unread(c, p) == IF Valid(c) THEN [p EXCEPT !.held = 0] ELSE p
netconn_drain(c) == queues' = IF Valid(c) THEN queues + 1 ELSE queues

do_close ==
    IF conn.state # "none" \/ ~HasPcb
    THEN Answer(conn, "err") /\ NoFault /\ UNCHANGED <<pcb, queues>>
    ELSE /\ netconn_drain(conn)
         /\ do_close_internal(Begun(Drained(conn), "close"), Unread(conn, pcb))

DelconnUndrained ==                                             \* Wrong variant.
    IF HasPcb
    THEN do_close_internal(Begun(conn, "close"), pcb) /\ UNCHANGED queues
    ELSE Answer(conn, res) /\ NoFault /\ UNCHANGED <<pcb, queues>>

do_delconn ==
    IF conn.state # "none"
    THEN Answer(conn, "err") /\ NoFault /\ UNCHANGED <<pcb, queues>>
    ELSE /\ netconn_drain(conn)
         /\ IF HasPcb
            THEN do_close_internal(Begun(Drained(conn), "close"), Unread(conn, pcb))
            ELSE Answer(Drained(conn), res) /\ NoFault /\ UNCHANGED pcb

----
(* Events of the pcb, from a packet or from a timer.                        *)

Queued(c, item) == IF Valid(c) THEN [c EXCEPT !.q = Append(@, item)] ELSE c
OpInProgress(c) == c.state \in {"write", "close", "connect"}

ErrSignalsAlways ==                                             \* Wrong variant.
    /\ pcb' = NoPcb /\ res' = "err"
    /\ conn' = Finished(Queued([conn EXCEPT !.fatal = TRUE], "nil"))
    /\ UNCHANGED <<queues, faults>>

(* err_tcp: a reset, too many retransmissions, or data after tcp_close. *)
err_tcp ==
    /\ pcb' = NoPcb
    /\ LET c == Queued([conn EXCEPT !.fatal = TRUE], "nil") IN
         IF OpInProgress(conn) THEN Finish(c, "err")
         ELSE conn' = [c EXCEPT !.state = "none"] /\ UNCHANGED res
    /\ UNCHANGED <<queues, faults>>

Aborted == /\ pcb.st \in {"synsent", "est", "closewait"} /\ err_tcp
           /\ UNCHANGED <<client, tasks>>

do_connected ==
    /\ pcb.st = "synsent"
    /\ pcb' = [pcb EXCEPT !.st = "est"] /\ Finish(conn, "ok")
    /\ UNCHANGED <<client, queues, tasks, faults>>

(* A write or a close that could not finish goes on. *)
Resume(p) ==
    /\ CASE conn.state = "write" -> do_writemore(conn, p) /\ UNCHANGED queues
         [] conn.state = "close" -> do_close_internal(conn, p) /\ UNCHANGED <<queues, changed>>
         [] OTHER -> pcb' = p /\ UNCHANGED <<conn, res, queues, changed, faults>>
    /\ UNCHANGED <<client, mybox, adc>>

sent_tcp == \E k \in 1..pcb.unacked : Resume([pcb EXCEPT !.unacked = @ - k])
SentTcp == HasPcb /\ sent_tcp
poll_tcp == HasPcb /\ conn.state \in {"write", "close"} /\ Resume(pcb)

DropUnacknowledged ==                                           \* Wrong variant.
    /\ pcb.st = "est" /\ pcb.held < Wnd
    /\ IF pcb.recv
       THEN /\ conn' = Queued(conn, "data") /\ pcb' = [pcb EXCEPT !.held = @ + 1]
            /\ UNCHANGED <<res, queues, faults>>
       ELSE err_tcp
    /\ UNCHANGED <<client, tasks>>

(* recv_tcp with data: what the mailbox does not take is dropped and        *)
(* acknowledged.  After tcp_close was tried, data abort the connection.     *)
RecvData ==
    /\ pcb.st = "est" /\ pcb.held < Wnd
    /\ IF pcb.recv
       THEN /\ conn' = Queued(conn, "data")
            /\ pcb' = IF Valid(conn) THEN [pcb EXCEPT !.held = @ + 1] ELSE pcb
            /\ UNCHANGED <<res, queues, faults>>
       ELSE err_tcp
    /\ UNCHANGED <<client, tasks>>

(* recv_tcp without: the peer's FIN. *)
RecvFin ==
    /\ pcb.st = "est" /\ pcb' = [pcb EXCEPT !.st = "closewait"]
    /\ conn' = IF pcb.recv THEN Queued(conn, "nil") ELSE conn
    /\ UNCHANGED <<client, res, queues, tasks, faults>>

----
(* The client.                                                              *)

ClientAnyTime == TRUE                                           \* Wrong variant.
ClientRuns == adc = "delay"
Makes(call) == ClientRuns /\ at = call /\ ~waits /\ waits' = TRUE /\ UNCHANGED <<at, hand, mybox, adc>>
Returned(call) == ClientRuns /\ at = call /\ waits /\ conn.sem > 0 /\ waits' = FALSE
TakeSem == conn' = [conn EXCEPT !.sem = @ - 1]
Quiet == UNCHANGED <<res, pcb, tasks, faults>>

(* netconn_new allocates semaphore and mailbox, then calls.  Without a      *)
(* queue there is no connection: connecting it fails, deleting it does      *)
(* nothing, and the client begins again.                                    *)
netconn_new ==
    /\ ClientRuns /\ at = "new"
    /\ \/ queues = 0 /\ UNCHANGED vars
       \/ /\ queues > 0 /\ queues' = queues - 1
          /\ at' = "newconn" /\ waits' = TRUE
          /\ do_newconn(NewConn) /\ UNCHANGED <<hand, tasks>>

NewconnReturns ==
    /\ Returned("newconn") /\ Quiet /\ UNCHANGED hand
    /\ IF res = "ok" THEN at' = "connect" /\ TakeSem /\ UNCHANGED queues
       ELSE at' = "new" /\ conn' = NoConn /\ queues' = queues + 1

netconn_connect == Makes("connect") /\ do_connect /\ UNCHANGED <<queues, changed>>
ConnectAgain ==                                                 \* Wrong variant.
    /\ Returned("connect") /\ Quiet /\ TakeSem /\ UNCHANGED <<hand, queues>>
    /\ at' = IF res = "ok" THEN "getaddr" ELSE "connect"
ConnectReturns ==
    /\ Returned("connect") /\ Quiet /\ TakeSem /\ UNCHANGED <<hand, queues>>
    /\ at' = IF res = "ok" THEN "getaddr" ELSE "delconn"

netconn_getaddr == Makes("getaddr") /\ do_getaddr /\ UNCHANGED <<queues, changed>>
GetaddrReturns == Returned("getaddr") /\ Quiet /\ TakeSem /\ at' = "token" /\ UNCHANGED <<hand, queues>>

(* OSMboxPend: on a mailbox that is not there yet it returns at once. *)
PendToken ==
    /\ ClientRuns /\ at = "token" /\ mybox # "empty"
    /\ at' = "write" /\ mybox' = IF mybox = "full" THEN "empty" ELSE mybox
    /\ UNCHANGED <<waits, res, hand, conn, pcb, queues, adc, changed, faults>>

netconn_write == Makes("write") /\ do_write /\ UNCHANGED queues
WriteReturns ==
    /\ Returned("write") /\ Quiet /\ TakeSem /\ UNCHANGED <<hand, queues>>
    /\ at' = IF res = "ok" THEN "fetch" ELSE "close"

(* netconn_recv, with a timeout of 10 ms: ERR_CONN on an invalid mailbox, a *)
(* fatal error, ERR_TIMEOUT: the client just goes on.                       *)
RecvFails ==
    /\ ClientRuns /\ at = "fetch"
    /\ ~Valid(conn) \/ conn.fatal \/ conn.q = <<>>
    /\ at' = "token" /\ UNCHANGED <<waits, res, hand, conn, pcb, queues, tasks, faults>>

RecvFetches ==
    /\ ClientRuns /\ at = "fetch" /\ Valid(conn) /\ ~conn.fatal /\ conn.q # <<>>
    /\ at' = "recved" /\ hand' = Head(conn.q) /\ conn' = [conn EXCEPT !.q = Tail(@)]
    /\ UNCHANGED <<waits, res, pcb, queues, tasks, faults>>

netconn_recv == Makes("recved") /\ do_recv /\ UNCHANGED <<queues, changed>>
EndIgnored ==                                                   \* Wrong variant.
    /\ Returned("recved") /\ Quiet /\ TakeSem /\ UNCHANGED <<hand, queues>>
    /\ at' = "token"
RecvReturns ==
    /\ Returned("recved") /\ Quiet /\ TakeSem /\ UNCHANGED <<hand, queues>>
    /\ at' = IF hand = "nil" THEN "close" ELSE "token"

netconn_close == Makes("close") /\ do_close /\ UNCHANGED changed
CloseReturns == Returned("close") /\ Quiet /\ TakeSem /\ at' = "delconn" /\ UNCHANGED <<hand, queues>>

netconn_delete == Makes("delconn") /\ do_delconn /\ UNCHANGED changed
DeleteReturns ==                                                \* netconn_free
    /\ Returned("delconn") /\ Quiet /\ at' = "new" /\ conn' = NoConn /\ UNCHANGED <<hand, queues>>

----
(* The other tasks.                                                         *)

Blocked == \/ waits /\ conn.sem = 0
           \/ at = "token" /\ mybox = "empty"
           \/ at = "fetch" /\ Valid(conn) /\ ~conn.fatal /\ conn.q = <<>>

led_task ==                                     \* its first run creates mybox
    /\ Blocked /\ adc = "delay" /\ mybox' = "full"
    /\ UNCHANGED <<client, res, conn, pcb, queues, adc, changed, faults>>

Writing == HasConn /\ conn.state = "write"
Changes(s) == changed' = IF Writing THEN changed \cup {s} ELSE changed

modbus_task ==
    /\ Writing /\ adc = "delay" /\ Changes(1)
    /\ UNCHANGED <<client, res, conn, pcb, queues, mybox, adc, faults>>

adc_task ==                                     \* of a round's samples, one
    /\ adc' = (IF adc = "delay" THEN "mid" ELSE "delay") /\ Changes(AdcSample)
    /\ UNCHANGED <<client, res, conn, pcb, queues, mybox, faults>>

Init ==
    /\ at = "new" /\ waits = FALSE /\ res = "ok" /\ hand = "nil"
    /\ conn = NoConn /\ pcb = NoPcb /\ queues = MaxQs
    /\ mybox = "none" /\ adc = "delay" /\ changed = {} /\ faults = 0

Client == \/ netconn_new \/ NewconnReturns \/ netconn_connect \/ ConnectReturns
          \/ netconn_getaddr \/ GetaddrReturns \/ PendToken \/ netconn_write \/ WriteReturns
          \/ RecvFails \/ RecvFetches \/ netconn_recv \/ RecvReturns
          \/ netconn_close \/ CloseReturns \/ netconn_delete \/ DeleteReturns

Next == Client \/ Aborted \/ do_connected \/ SentTcp \/ poll_tcp \/ RecvData \/ RecvFin
        \/ led_task \/ modbus_task \/ adc_task

Spec == Init /\ [][Next]_vars

Answered == pcb.st = "synsent" /\ (do_connected \/ Aborted)
Acknowledged == HasPcb /\ pcb.unacked > 0 /\ (SentTcp \/ Aborted)
AdcDone == adc # "delay" /\ adc_task
FairSpec == /\ Spec /\ SF_vars(Client) /\ WF_vars(AdcDone) /\ SF_vars(led_task)
            /\ WF_vars(Answered) /\ WF_vars(Acknowledged) /\ WF_vars(poll_tcp)

----
TypeOK ==
    /\ at \in Calls \cup {"new", "token", "fetch"} /\ waits \in BOOLEAN
    /\ res \in {"ok", "err"} /\ hand \in {"data", "nil"}
    /\ HasConn => conn \in [state : {"none", "connect", "write", "close"}, fatal : BOOLEAN,
                             cur : BOOLEAN, off : 0..Cells - 1, sem : 0..1, box : BOOLEAN,
                             q : Seq({"data", "nil"}), late : BOOLEAN,
                             torn : BOOLEAN] /\ Len(conn.q) <= BoxSize
    /\ HasPcb => pcb \in [st : {"closed", "synsent", "est", "closewait"}, recv : BOOLEAN,
                           unacked : 0..SndBuf, held : 0..Wnd]
    /\ queues \in 0..MaxQs /\ mybox \in {"none", "empty", "full"}
    /\ adc \in {"delay", "mid"} /\ changed \subseteq Samples /\ faults \in 0..MaxFaults

(* A call is answered once: while the client waits, either its message is   *)
(* still the connection's current one or the semaphore is up, never both;   *)
(* afterwards neither.  Packets, timers and errors end calls in any order.  *)
OneAnswer ==
    /\ HasConn => (IF conn.cur THEN 1 ELSE 0) + conn.sem = (IF waits THEN 1 ELSE 0)
    /\ HasConn => (conn.cur <=> OpInProgress(conn))
    /\ waits => HasConn

(* What api_msg.c asserts: a call on a live pcb never finds the remains of  *)
(* an earlier write, and a write never goes on past its end.                *)
StartsClean == HasPcb => (conn.off > 0 => conn.state = "write") /\ conn.off < Cells

(* Connection, pcb and tasks keep their form, and every call starts clean.   *)
CallsSound == TypeOK /\ StartsClean

(* When netconn_free runs, no pcb can call back into the connection, and    *)
(* its mailbox is gone; the exception is a mailbox that is full: that one,   *)
(* its queue and what it holds are lost for good.                           *)
FreedWhole == at = "delconn" /\ waits /\ conn.sem = 1 =>
    ~HasPcb /\ (conn.box => Len(conn.q) = BoxSize)

DataIn(q) == {i \in DOMAIN q : q[i] = "data"}

(* Received data take up the window exactly while they are in the mailbox or *)
(* in the client's hands: dropped, drained and read data open it again.      *)
WindowReturned == HasPcb =>
    pcb.held = Cardinality(DataIn(conn.q))
               + (IF at = "recved" /\ ~waits /\ hand = "data" THEN 1 ELSE 0)

(* A sample is sent with bytes of one round, although adc_task writes it     *)
(* without a lock, unless TCP could not take the whole upload at once and a  *)
(* packet or a timer made the rest of the copy.                              *)
SamplesWhole == HasConn /\ conn.torn => conn.late

(* A lost connection is noticed and given up, unless the mailbox is full:    *)
(* then netconn_recv fails for ever, and the peer's FIN is never read.       *)
Jammed == HasConn /\ Len(conn.q) = BoxSize
Lost == HasConn /\ (conn.fatal \/ pcb.st = "closewait")
LossNoticed == Lost ~> (at = "new" \/ Jammed)

(* The client leaves the processor to the tasks below it (iwdg_task feeds    *)
(* the watchdog) again and again once led_task has created the mailbox that  *)
(* paces it, unless full mailboxes have used up the queues.                  *)
OutOfQueues == queues = 0 /\ ~HasConn
NotStarving == <>[]OutOfQueues \/ <>[](mybox = "none") \/ []<>Blocked
====
