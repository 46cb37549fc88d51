------------------------------ MODULE SysTimers ------------------------------
(***************************************************************************)
(* The tcpip thread's wait: sys_timeouts_mbox_fetch of lwIP (timers.c) on  *)
(* top of sys_arch_mbox_fetch (LWIP/arch/sys_arch.c) and OSQPend, with the *)
(* list of timeouts kept as differences and the 32-bit tick arithmetic.    *)
(*                                                                         *)
(* Timers armed at start (arp, ip reassembly) re-arm themselves for ever;  *)
(* the tcp timer is armed by a message that creates a connection and       *)
(* re-arms itself while there is one.  Any task or interrupt may post a    *)
(* message at any time.                                                    *)
(***************************************************************************)
EXTENDS Integers, Sequences, FiniteSets

CONSTANTS
  M,         \* u32_t counts modulo M: 2^32
  Hz,        \* OS_TICKS_PER_SEC: 200
  Milli,     \* milliseconds in a second: 1000
  Boot,      \* timers that always re-arm themselves, as sys_timeouts_init arms them
  OnDemand,  \* timers armed by a message
  Period,    \* milliseconds of each timer
  MaxMsgs    \* bound: messages waiting in the mailbox

Periodic == {Boot[i] : i \in DOMAIN Boot}
Timers == Periodic \cup OnDemand

ASSUME RateAssumption ==
  M \in Nat \ {0} /\ Hz \in Nat \ {0} /\ Milli \in Nat /\ Milli >= Hz
ASSUME BootAssumption ==
  /\ Boot \in Seq(Periodic) /\ Periodic \cap OnDemand = {}
  /\ \A i, j \in DOMAIN Boot : Boot[i] = Boot[j] => i = j
ASSUME PeriodAssumption ==
  Period \in [Timers -> Nat \ {0}] /\ \A h \in Timers : Period[h] * Milli < M
ASSUME MsgsAssumption == MaxMsgs \in Nat \ {0}

VARIABLES
  time,    \* OSTime
  list,    \* next_timeout: sequence of [h, time], time after the one before
  pc,      \* "again", "pend" or "got"
  start,   \* OSTimeGet() when the wait began
  dly,     \* ticks left of the wait; 0: it has run out
  msgs,    \* messages in the mailbox
  fired    \* history: the timer whose handler ran last, or None
vars == <<time, list, pc, start, dly, msgs, fired>>

None == "none"
Timeout == M - 1            \* SYS_ARCH_TIMEOUT, 0xffffffff
-----------------------------------------------------------------------------
(* The list of timeouts *)

\* Due(l)[k]: milliseconds until timeout k of l.
Due(l) == LET due[k \in 0..Len(l)] == IF k = 0 THEN 0 ELSE due[k - 1] + l[k].time IN due

\* The timeouts of l that are due no later than in ms milliseconds come first.
NotAfter(l, ms) == Cardinality({j \in DOMAIN l : Due(l)[j] <= ms})

Armed(l, h) == \E k \in DOMAIN l : l[k].h = h

\* Wrong variant: the successor keeps its time.
InsertKeepingNext(l, h, ms) ==
  LET k == NotAfter(l, ms)
  IN SubSeq(l, 1, k) \o <<[h |-> h, time |-> ms - Due(l)[k]]>> \o SubSeq(l, k + 1, Len(l))

\* sys_timeout: after every timeout that is due no later; the time of the
\* next one becomes relative to the new one.
Insert(l, h, ms) ==
  LET k == NotAfter(l, ms)
      own == ms - Due(l)[k]
  IN [i \in 1..Len(l) + 1 |->
        CASE i <= k -> l[i]
          [] i = k + 1 -> [h |-> h, time |-> own]
          [] i = k + 2 -> [l[k + 1] EXCEPT !.time = @ - own]
          [] OTHER -> l[i - 1]]
-----------------------------------------------------------------------------
(* Tick arithmetic of sys_arch_mbox_fetch *)

\* ucos_timeout = (timeout*OS_TICKS_PER_SEC)/1000, at least 1
Ticks(ms) == LET t == ((ms * Hz) % M) \div Milli IN IF t < 1 THEN 1 ELSE t

\* Wrong variant: the wait as sys_arch_sem_wait computes it, not rounded up.
ElapsedNoPlus(from, now) ==
  LET d == IF now >= from THEN now - from ELSE (M - 1 - from + now) % M
  IN ((d * Milli) % M) \div Hz

\* timeout_new>timeout, so that a wait of no tick takes the other branch
Elapsed(from, now) ==
  LET d == IF now > from THEN now - from ELSE (M - 1 - from + now) % M
  IN (((d * Milli) % M) \div Hz + 1) % M
-----------------------------------------------------------------------------
\* sys_timeouts_init arms the periodic timers one after the other.
AtBoot ==
  LET armed[k \in 0..Len(Boot)] ==
        IF k = 0 THEN <<>> ELSE Insert(armed[k - 1], Boot[k], Period[Boot[k]])
  IN armed[Len(Boot)]

Init ==
  /\ time = 0
  /\ list = AtBoot
  /\ pc = "again"
  /\ start = 0
  /\ dly = 0
  /\ msgs = 0
  /\ fired = None

\* Wrong variant: every timer is taken for one that need not run again.
FireOnce ==
  LET h == Head(list).h
  IN /\ fired' = h
     /\ \/ list' = Insert(Tail(list), h, Period[h])
        \/ list' = Tail(list)
     /\ pc' = "again"

\* The next timeout is due: its handler runs, and arms it again if it is
\* periodic or if a connection still needs it.
Fire ==
  LET h == Head(list).h
  IN /\ fired' = h
     /\ \/ list' = Insert(Tail(list), h, Period[h])
        \/ h \in OnDemand /\ list' = Tail(list)
     /\ pc' = "again"

\* The locals of sys_arch_mbox_fetch go out of scope.
LeaveFetch == start' = 0 /\ dly' = 0

\* time 0: the timeout is taken as expired without a look at the mailbox.
FireAtOnce ==
  /\ pc = "again"
  /\ list # <<>> /\ Head(list).time = 0
  /\ Fire
  /\ UNCHANGED <<time, start, dly, msgs>>

\* sys_arch_mbox_fetch up to OSQPend, which returns at once if a message is
\* there and suspends the thread otherwise.
BeginWait ==
  /\ pc = "again"
  /\ list # <<>> /\ Head(list).time > 0
  /\ start' = time
  /\ IF msgs > 0
     THEN pc' = "got" /\ msgs' = msgs - 1 /\ dly' = 0
     ELSE pc' = "pend" /\ dly' = Ticks(Head(list).time) /\ UNCHANGED msgs
  /\ fired' = None
  /\ UNCHANGED <<time, list>>

\* A message ends the wait, even one that comes between the tick that ran
\* the wait out and the thread's return to OSQPend.
Wake ==
  /\ pc = "pend"
  /\ msgs > 0
  /\ msgs' = msgs - 1
  /\ pc' = "got"
  /\ UNCHANGED <<time, list, start, dly, fired>>

\* OS_ERR_TIMEOUT
TimeOut ==
  /\ pc = "pend"
  /\ dly = 0 /\ msgs = 0
  /\ Fire
  /\ LeaveFetch
  /\ UNCHANGED <<time, msgs>>

\* sys_arch_mbox_fetch returns the time it waited, sys_timeouts_mbox_fetch
\* takes it off the next timeout (or, if it is Timeout, would run the handler
\* instead), and the message is processed; it may create a connection.
Got ==
  /\ pc = "got"
  /\ LET t == Elapsed(start, time)
         l == [list EXCEPT ![1].time = IF t < @ THEN @ - t ELSE 0]
     IN IF t = Timeout THEN Fire
        ELSE /\ \/ list' = l
                \/ \E h \in OnDemand : /\ ~Armed(list, h)
                                       /\ list' = Insert(l, h, Period[h])
             /\ pc' = "again"
             /\ UNCHANGED fired
  /\ LeaveFetch
  /\ UNCHANGED <<time, msgs>>

TcpipThread == FireAtOnce \/ BeginWait \/ Wake \/ TimeOut \/ Got

\* OSTimeTick.  The thread has the highest priority and runs for less than a
\* tick: a tick that falls into its run is counted with the wait around it.
Tick ==
  /\ pc = "pend"
  /\ dly > 0 /\ msgs = 0
  /\ time' = (time + 1) % M
  /\ dly' = dly - 1
  /\ UNCHANGED <<list, pc, start, msgs, fired>>

\* Another task or an interrupt posts a message.
Post ==
  /\ msgs < MaxMsgs
  /\ msgs' = msgs + 1
  /\ UNCHANGED <<time, list, pc, start, dly, fired>>

Next == TcpipThread \/ Tick \/ Post

\* The thread runs when it is ready and time goes on.
Spec == Init /\ [][Next]_vars /\ WF_vars(TcpipThread) /\ WF_vars(Tick)
-----------------------------------------------------------------------------
(* Properties *)

\* Every variable keeps its type; in particular no difference in the list is
\* negative.
TypeOK ==
  /\ time \in 0..M-1
  /\ list \in Seq([h : Timers, time : 0..M-1])
  /\ pc \in {"again", "pend", "got"}
  /\ start \in 0..M-1
  /\ dly \in Nat
  /\ msgs \in 0..MaxMsgs
  /\ fired \in Timers \cup {None}

\* The list keeps every periodic timer armed, and no timer twice, whatever
\* fires, is inserted or is cut short by a message.
TimersKept ==
  /\ \A h \in Periodic : Armed(list, h)
  /\ \A j, k \in DOMAIN list : list[j].h = list[k].h => j = k

\* No timer is due later than its own period: the list never delays a timer.
DueWithinPeriod == \A k \in DOMAIN list : Due(list)[k] <= Period[list[k].h]

\* The differences sys_timeout leaves add up to times that are right.
ListSound == TypeOK /\ DueWithinPeriod

\* Messages, however fast they come, do not starve a timer.
NotStarved == \A h \in Periodic : []<>(fired = h)
=============================================================================
