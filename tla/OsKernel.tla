---- MODULE OsKernel ----
(***************************************************************************)
(* The kernel of the STM32 firmware, uC/OS-II: tasks with unique           *)
(* priorities, the ready table and the waiting lists (both indexed by      *)
(* priority), mailboxes, queues and semaphores, delays, the tick and       *)
(* nested interrupts.  A critical section is one step; what a task still   *)
(* has to do after it (call OS_Sched, finish a pend) is in "at", and an    *)
(* interrupt may come before that.  Tasks call any service at any time;    *)
(* interrupt handlers post, accept and abort, as the drivers do.           *)
(***************************************************************************)
EXTENDS Naturals, Sequences

CONSTANTS
    Tasks,          \* task control blocks
    Idle,           \* the idle task
    NoTask,         \* a free entry of OSTCBPrioTbl
    Prios,          \* priorities, the lowest number first; the idle task's is above
    IdlePrio,
    Events,         \* event control blocks
    NoEvent,
    Types,          \* the services in use: a subset of {"mbox", "q", "sem"}
    Msgs,           \* messages
    Unit,           \* what a semaphore gives: a unit
    NoMsg,          \* the null pointer
    QSize,          \* entries of a queue
    SemMax,         \* the semaphore's limit (65535 in the code)
    MaxDly,         \* longest delay or timeout in ticks
    MaxNest         \* interrupt nesting

ASSUME PrioAssumption == Prios \subseteq Nat /\ IdlePrio \in Nat /\ \A p \in Prios : p < IdlePrio
ASSUME TaskAssumption == Idle \notin Tasks /\ NoTask \notin Tasks /\ NoTask # Idle
ASSUME TypesAssumption == Types \subseteq {"mbox", "q", "sem"}
ASSUME ItemAssumption == NoMsg \notin Msgs \cup {Unit} /\ NoEvent \notin Events
ASSUME SizeAssumption == QSize \in Nat \ {0} /\ SemMax \in Nat \ {0} /\ MaxDly \in Nat /\ MaxNest \in Nat \ {0}

VARIABLES
    OSRdyTbl,       \* the priorities that are ready
    OSTCBPrioTbl,   \* the task of a priority
    OSTCBList,      \* the tasks, newest first
    tcb,            \* task control blocks
    ecb,            \* event control blocks
    ring,           \* OS_Q of an event that is a queue
    at,             \* where a task is: "run", "sched", "block" (OS_Sched of a pend), "wake"
    cur,            \* OSTCBCur
    OSPrioCur,      \* the priority under which cur was switched to
    OSIntNesting, OSLockNesting,
    tick,           \* position of OSTimeTick in OSTCBList, 0 when it does not run
    stray,          \* history: a task that is not waiting was put on a waiting list
    served          \* history, read by no action: the last call that posts, takes,
                    \* asks or returns, what it was given or gave, and a bit that
                    \* every such call turns

vars == <<OSRdyTbl, OSTCBPrioTbl, OSTCBList, tcb, ecb, ring, at, cur,
          OSPrioCur, OSIntNesting, OSLockNesting, tick, stray, served>>
tables == <<OSTCBPrioTbl, OSTCBList>>
running == <<cur, OSPrioCur>>
nesting == <<OSIntNesting, OSLockNesting, tick, stray>>

Items == Msgs \cup {Unit}
Lowest(P) == CHOOSE p \in P : \A q \in P : p <= q
PrioOf(t) == IF t = Idle THEN IdlePrio ELSE tcb[t].prio
Exists(t) == t \in Tasks /\ OSTCBPrioTbl[tcb[t].prio] = t
NewTcb(p) == [prio |-> p, stat |-> {}, pend |-> "ok", dly |-> 0, ev |-> NoEvent, msg |-> NoMsg]
FreeEcb == [type |-> "unused", items |-> <<>>, wait |-> {}]
EmptyRing == [buf |-> [i \in 0..QSize - 1 |-> NoMsg], in |-> 0, out |-> 0, entries |-> 0]

Pends(t) == tcb[t].stat \cap Types          \* OS_STAT_PEND_ANY
Highest == IF OSRdyTbl = {} THEN Idle ELSE OSTCBPrioTbl[Lowest(OSRdyTbl)]

----
(* The queue's ring of pointers. *)

After(i) == IF i + 1 = QSize THEN 0 ELSE i + 1
Before(i) == (IF i = 0 THEN QSize ELSE i) - 1

RingPut(q, m) == [q EXCEPT !.buf[q.in] = m, !.in = After(@), !.entries = @ + 1]
RingPutFrontLast(q, m) == RingPut(q, m)     \* Wrong variant: at the wrong end.
RingPutFront(q, m) ==
    LET o == Before(q.out) IN [q EXCEPT !.buf[o] = m, !.out = o, !.entries = @ + 1]
RingGet(q) == [q EXCEPT !.buf[q.out] = NoMsg, !.out = After(@), !.entries = @ - 1]

(* The items a ring holds, and those of an event, oldest first. *)
Wrap(k) == IF k < QSize THEN k ELSE k - QSize
RingItems(q) == [i \in 1..q.entries |-> q.buf[Wrap(q.out + i - 1)]]
Contents(e) == IF ecb[e].type = "q" THEN RingItems(ring[e]) ELSE ecb[e].items

Capacity(type) == CASE type = "mbox" -> 1 [] type = "q" -> QSize [] type = "sem" -> SemMax

(* The item the code reads: at the out pointer of a ring. *)
First(e) == IF ecb[e].type = "q" THEN ring[e].buf[ring[e].out] ELSE Head(ecb[e].items)

Call(op, x, s) == served' = [op |-> op, of |-> x, arg |-> s, turn |-> ~served.turn]

----
(* Who runs.  A service called by an interrupt handler does not switch.    *)

InTask == OSIntNesting = 0 /\ cur \in Tasks /\ at[cur] = "run"
InISR == OSIntNesting > (IF tick > 0 THEN 1 ELSE 0)
InCode == InTask \/ InISR
ThenSched == at' = IF OSIntNesting = 0 THEN [at EXCEPT ![cur] = "sched"] ELSE at

OS_SchedNew == IF OSRdyTbl = {} THEN IdlePrio ELSE Lowest(OSRdyTbl)

(* The switch, if the highest ready priority is not the one that was switched to. *)
SwitchTo(prio) ==
    IF OSLockNesting = 0 /\ prio # OSPrioCur
    THEN cur' = (IF prio = IdlePrio THEN Idle ELSE OSTCBPrioTbl[prio]) /\ OSPrioCur' = prio
    ELSE UNCHANGED running

OS_Sched ==
    /\ OSIntNesting = 0 /\ cur \in Tasks /\ at[cur] \in {"sched", "block"}
    /\ at' = [at EXCEPT ![cur] = IF @ = "sched" THEN "run" ELSE "wake"]
    /\ SwitchTo(OS_SchedNew)
    /\ UNCHANGED <<OSRdyTbl, tables, tcb, ecb, ring, nesting, served>>

OSSchedLock ==
    /\ InTask /\ OSLockNesting = 0                 \* nested locks only count
    /\ OSLockNesting' = 1
    /\ UNCHANGED <<OSRdyTbl, tables, tcb, ecb, ring, at, running, OSIntNesting, tick, stray, served>>

(* Wrong variant: the caller goes on although a task above it is ready. *)
OSSchedUnlockOnly ==
    /\ InTask /\ OSLockNesting > 0
    /\ OSLockNesting' = OSLockNesting - 1
    /\ UNCHANGED <<OSRdyTbl, tables, tcb, ecb, ring, at, running, OSIntNesting, tick, stray, served>>

OSSchedUnlock ==
    /\ InTask /\ OSLockNesting > 0
    /\ OSLockNesting' = OSLockNesting - 1
    /\ ThenSched
    /\ UNCHANGED <<OSRdyTbl, tables, tcb, ecb, ring, running, OSIntNesting, tick, stray, served>>

----
(* Events.  OS_EventTaskRdy makes the waiters with priorities P ready: one  *)
(* call readies the highest, a broadcast repeats it until none is left.     *)

Waiters(e) == ecb[e].wait
Woken(P) == {OSTCBPrioTbl[p] : p \in P}

Readied(e, P, m, result) ==
    /\ tcb' = [t \in Tasks |->
                 IF t \in Woken(P)
                 THEN [tcb[t] EXCEPT !.dly = 0, !.msg = m, !.pend = result,
                                     !.stat = @ \ {ecb[e].type}]
                 ELSE tcb[t]]
    /\ OSRdyTbl' = OSRdyTbl \cup {p \in P : "suspend" \notin tcb[OSTCBPrioTbl[p]].stat}

OS_EventTaskRdy(e, P, m, result) ==
    Readied(e, P, m, result) /\ ecb' = [ecb EXCEPT ![e].wait = @ \ P]

Chosen(e, broadcast) == IF broadcast THEN Waiters(e) ELSE {Lowest(Waiters(e))}

OS_EventTaskWait(e, type, d) ==
    /\ tcb' = [tcb EXCEPT ![cur] = [tcb[cur] EXCEPT !.stat = @ \cup {type},
                                                    !.pend = "ok", !.dly = d, !.ev = e]]
    /\ ecb' = [ecb EXCEPT ![e].wait = @ \cup {tcb[cur].prio}]
    /\ OSRdyTbl' = OSRdyTbl \ {tcb[cur].prio}
    /\ at' = [at EXCEPT ![cur] = "block"]

Add(e, m) ==
    /\ Len(Contents(e)) < Capacity(ecb[e].type)
    /\ IF ecb[e].type = "q"
       THEN ring' = [ring EXCEPT ![e] = RingPut(@, m)] /\ UNCHANGED ecb
       ELSE ecb' = [ecb EXCEPT ![e].items = Append(@, m)] /\ UNCHANGED ring

Take(e) ==
    /\ Contents(e) # <<>>
    /\ Call("got", e, <<First(e)>>)
    /\ IF ecb[e].type = "q"
       THEN ring' = [ring EXCEPT ![e] = RingGet(@)] /\ UNCHANGED ecb
       ELSE ecb' = [ecb EXCEPT ![e].items = Tail(@)] /\ UNCHANGED ring

(* A post hands the item to the highest waiter, stores it, or returns with  *)
(* an error: full, or the count would overflow.                             *)
Handed(e, m, broadcast) ==
    /\ Waiters(e) # {}
    /\ OS_EventTaskRdy(e, Chosen(e, broadcast), m, "ok")
    /\ ThenSched /\ UNCHANGED ring

Refused(e, m) ==
    /\ Waiters(e) = {} /\ Len(Contents(e)) >= Capacity(ecb[e].type)
    /\ Call("full", e, <<m>>)
    /\ UNCHANGED <<OSRdyTbl, tcb, at, ecb, ring>>

Posted(e, m, broadcast) == Call(IF broadcast THEN "all" ELSE "post", e, <<m>>)

(* Wrong variant: the item is stored although somebody waits. *)
PostStores(e, type, m, broadcast) ==
    /\ InCode /\ ecb[e].type = type
    /\ \/ Handed(e, m, broadcast) /\ Posted(e, m, broadcast)
       \/ Add(e, m) /\ UNCHANGED <<OSRdyTbl, tcb, at>> /\ Posted(e, m, broadcast)
       \/ Refused(e, m)
    /\ UNCHANGED <<tables, running, nesting>>

Post(e, type, m, broadcast) ==
    /\ InCode /\ ecb[e].type = type
    /\ \/ Handed(e, m, broadcast) /\ Posted(e, m, broadcast)
       \/ /\ Waiters(e) = {} /\ Add(e, m)
          /\ UNCHANGED <<OSRdyTbl, tcb, at>> /\ Posted(e, m, broadcast)
       \/ Refused(e, m)
    /\ UNCHANGED <<tables, running, nesting>>

OSMboxPost(e) == \E m \in Msgs : Post(e, "mbox", m, FALSE)
OSMboxPostOpt(e) == OSMboxPost(e) \/ \E m \in Msgs : Post(e, "mbox", m, TRUE)
OSQPost(e) == \E m \in Msgs : Post(e, "q", m, FALSE)
OSSemPost(e) == Post(e, "sem", Unit, FALSE)

OSQPostFront(e) == \E m \in Msgs :
    /\ InCode /\ ecb[e].type = "q"
    /\ \/ Handed(e, m, FALSE) /\ Call("front", e, <<m>>)
       \/ /\ Waiters(e) = {} /\ Len(Contents(e)) < QSize
          /\ ring' = [ring EXCEPT ![e] = RingPutFront(@, m)]
          /\ UNCHANGED <<OSRdyTbl, tcb, at, ecb>> /\ Call("front", e, <<m>>)
       \/ Refused(e, m)
    /\ UNCHANGED <<tables, running, nesting>>

(* With both of its options it is a broadcast when a task waits and a post  *)
(* to the front when none does.                                             *)
OSQPostOpt(e) == OSQPost(e) \/ OSQPostFront(e) \/ \E m \in Msgs : Post(e, "q", m, TRUE)

Accept(e, type) ==
    /\ InCode /\ ecb[e].type = type
    /\ \/ Take(e)
       \/ Contents(e) = <<>> /\ Call("empty", e, <<>>) /\ UNCHANGED <<ecb, ring>>
    /\ UNCHANGED <<OSRdyTbl, tables, tcb, at, running, nesting>>

OSMboxAccept(e) == Accept(e, "mbox")
OSQAccept(e) == Accept(e, "q")
OSSemAccept(e) == Accept(e, "sem")

(* A pend takes an item that is there or blocks, for ever if d is 0. *)
Pend(e, type, d) ==
    /\ InTask /\ OSLockNesting = 0 /\ ecb[e].type = type
    /\ \/ Take(e) /\ UNCHANGED <<OSRdyTbl, tcb, at>>
       \/ /\ Contents(e) = <<>> /\ OS_EventTaskWait(e, type, d)
          /\ UNCHANGED ring /\ Call("ask", e, <<cur>>)
    /\ UNCHANGED <<tables, running, nesting>>

OSMboxPend(e) == \E d \in 0..MaxDly : Pend(e, "mbox", d)
OSQPend(e) == \E d \in 0..MaxDly : Pend(e, "q", d)
OSSemPend(e) == \E d \in 0..MaxDly : Pend(e, "sem", d)

(* What a pend returns: OSTCBMsg, or nothing after a timeout or an abort. *)
Result(t) == IF tcb[t].pend = "ok" THEN tcb[t].msg ELSE NoMsg

(* Wrong variant: a pend that timed out forgets to leave the waiting list. *)
PendReturnListed ==
    /\ OSIntNesting = 0 /\ cur \in Tasks /\ at[cur] = "wake"
    /\ tcb' = [tcb EXCEPT ![cur] = [@ EXCEPT !.stat = {}, !.pend = "ok", !.ev = NoEvent, !.msg = NoMsg]]
    /\ at' = [at EXCEPT ![cur] = "run"]
    /\ Call("back", cur, <<Result(cur)>>)
    /\ UNCHANGED <<OSRdyTbl, tables, ecb, ring, running, nesting>>

(* The task runs again and returns with its result. *)
PendReturn ==
    /\ OSIntNesting = 0 /\ cur \in Tasks /\ at[cur] = "wake"
    /\ ecb' = IF tcb[cur].pend = "to"
              THEN [ecb EXCEPT ![tcb[cur].ev].wait = @ \ {tcb[cur].prio}] ELSE ecb
    /\ tcb' = [tcb EXCEPT ![cur] = [@ EXCEPT !.stat = {}, !.pend = "ok", !.ev = NoEvent, !.msg = NoMsg]]
    /\ at' = [at EXCEPT ![cur] = "run"]
    /\ Call("back", cur, <<Result(cur)>>)
    /\ UNCHANGED <<OSRdyTbl, tables, ring, running, nesting>>

(* The waiters give up.  One of them, or all. *)
PendAbort(e, type) == \E b \in BOOLEAN :
    /\ InCode /\ ecb[e].type = type /\ Waiters(e) # {}
    /\ OS_EventTaskRdy(e, Chosen(e, b), NoMsg, "abort")
    /\ ThenSched /\ Call(IF b THEN "abortall" ELSE "abort", e, <<>>)
    /\ UNCHANGED <<tables, ring, running, nesting>>

OSMboxPendAbort(e) == PendAbort(e, "mbox")
OSQPendAbort(e) == PendAbort(e, "q")
OSSemPendAbort(e) == PendAbort(e, "sem")

(* Taking an event control block from the free list, and giving it back. *)
Create(e, type, items) ==
    /\ InTask /\ type \in Types /\ ecb[e].type = "unused"
    /\ ecb' = [ecb EXCEPT ![e] = [type |-> type, items |-> items, wait |-> {}]]
    /\ ring' = [ring EXCEPT ![e] = EmptyRing]
    /\ Call("make", e, items)
    /\ UNCHANGED <<OSRdyTbl, tables, tcb, at, running, nesting>>

OSMboxCreate(e) == \E s \in {<<>>} \cup {<<m>> : m \in Msgs} : Create(e, "mbox", s)
OSQCreate(e) == Create(e, "q", <<>>)
Units(k) == [i \in 1..k |-> Unit]
OSSemCreate(e) == \E k \in 0..SemMax : Create(e, "sem", Units(k))

(* Deleted with OS_DEL_NO_PEND only when no task waits; with OS_DEL_ALWAYS  *)
(* the waiters return as if posted to, with the null pointer.  No other     *)
(* task may be between the check of the type, which every service does      *)
(* before its critical section, and that section: here it is one step.      *)
Del(e, type) ==
    /\ InTask /\ ecb[e].type = type
    /\ Readied(e, Waiters(e), NoMsg, "ok")
    /\ ecb' = [ecb EXCEPT ![e] = FreeEcb]
    /\ ring' = [ring EXCEPT ![e] = EmptyRing]
    /\ at' = IF Waiters(e) # {} THEN [at EXCEPT ![cur] = "sched"] ELSE at
    /\ Call("remove", e, <<>>)
    /\ UNCHANGED <<tables, running, nesting>>

OSMboxDel(e) == Del(e, "mbox")
OSQDel(e) == Del(e, "q")
OSSemDel(e) == Del(e, "sem")

OSQFlush(e) ==
    /\ InCode /\ ecb[e].type = "q"
    /\ ring' = [ring EXCEPT ![e] = EmptyRing]
    /\ Call("flush", e, <<>>)
    /\ UNCHANGED <<OSRdyTbl, tables, tcb, ecb, at, running, nesting>>

OSSemSet(e) == \E k \in 0..SemMax :
    /\ InCode /\ ecb[e].type = "sem"
    /\ ecb[e].items # <<>> \/ Waiters(e) = {}
    /\ ecb' = [ecb EXCEPT ![e].items = Units(k)]
    /\ Call("set", e, Units(k))
    /\ UNCHANGED <<OSRdyTbl, tables, tcb, ring, at, running, nesting>>

----
(* Time.                                                                   *)

OSTimeDly == \E d \in 1..MaxDly :
    /\ InTask /\ OSLockNesting = 0
    /\ OSRdyTbl' = OSRdyTbl \ {tcb[cur].prio}
    /\ tcb' = [tcb EXCEPT ![cur].dly = d]
    /\ at' = [at EXCEPT ![cur] = "sched"]
    /\ UNCHANGED <<tables, ecb, ring, running, nesting, served>>

(* The end of a delay: a pending task gives up, but stays on the waiting    *)
(* list until it runs.                                                      *)
Expired(t) == [tcb[t] EXCEPT !.dly = 0, !.stat = @ \ Types,
                             !.pend = IF Pends(t) # {} THEN "to" ELSE "ok"]
ReadyUnlessSuspended(t) ==
    OSRdyTbl' = IF "suspend" \in tcb[t].stat THEN OSRdyTbl ELSE OSRdyTbl \cup {tcb[t].prio}

OSTimeDlyResume(t) ==
    /\ InTask /\ Exists(t) /\ tcb[t].dly > 0
    /\ tcb' = [tcb EXCEPT ![t] = Expired(t)]
    /\ ReadyUnlessSuspended(t)
    /\ IF "suspend" \in tcb[t].stat THEN UNCHANGED at ELSE ThenSched
    /\ UNCHANGED <<tables, ecb, ring, running, nesting, served>>

OSIntEnter ==
    /\ OSIntNesting < MaxNest
    /\ OSIntNesting' = OSIntNesting + 1
    /\ UNCHANGED <<OSRdyTbl, tables, tcb, ecb, ring, at, running, OSLockNesting, tick, stray, served>>

OSIntExit ==
    /\ InISR
    /\ OSIntNesting' = OSIntNesting - 1
    /\ IF OSIntNesting = 1 THEN SwitchTo(OS_SchedNew) ELSE UNCHANGED running
    /\ UNCHANGED <<OSRdyTbl, tables, tcb, ecb, ring, at, OSLockNesting, tick, stray, served>>

(* SysTick: the handler enters, walks the tasks, one critical section each, *)
(* and leaves with OSIntExit.  It has the lowest interrupt priority.        *)
SysTick ==
    /\ OSIntNesting = 0
    /\ OSIntNesting' = 1
    /\ tick' = IF OSTCBList = <<>> THEN 0 ELSE 1
    /\ UNCHANGED <<OSRdyTbl, tables, tcb, ecb, ring, at, running, OSLockNesting, stray, served>>

OSTimeTick ==
    /\ tick > 0 /\ OSIntNesting = 1
    /\ LET t == OSTCBList[tick] IN
         CASE tcb[t].dly = 0 -> UNCHANGED <<OSRdyTbl, tcb>>
           [] tcb[t].dly = 1 -> tcb' = [tcb EXCEPT ![t] = Expired(t)] /\ ReadyUnlessSuspended(t)
           [] OTHER -> tcb' = [tcb EXCEPT ![t].dly = @ - 1] /\ UNCHANGED OSRdyTbl
    /\ tick' = IF tick = Len(OSTCBList) THEN 0 ELSE tick + 1
    /\ UNCHANGED <<tables, ecb, ring, at, running, OSIntNesting, OSLockNesting, stray, served>>

----
(* Tasks.                                                                  *)

(* The priority is reserved before the control block is filled in and       *)
(* entered: until then no service finds the task, so creation is one step.  *)
OSTaskCreate(t, p) ==
    /\ InTask /\ ~Exists(t) /\ OSTCBPrioTbl[p] = NoTask
    /\ tcb' = [tcb EXCEPT ![t] = NewTcb(p)]
    /\ OSTCBPrioTbl' = [OSTCBPrioTbl EXCEPT ![p] = t]
    /\ OSTCBList' = <<t>> \o OSTCBList
    /\ OSRdyTbl' = OSRdyTbl \cup {p}
    /\ at' = [at EXCEPT ![cur] = "sched", ![t] = "run"]
    /\ UNCHANGED <<ecb, ring, running, nesting, served>>

(* Deleted with the scheduler locked, so in one step.  A task that locked   *)
(* the scheduler does not delete itself.                                    *)
OSTaskDel(t) ==
    /\ InTask /\ Exists(t) /\ (t = cur => OSLockNesting = 0)
    /\ OSRdyTbl' = OSRdyTbl \ {tcb[t].prio}
    /\ ecb' = IF tcb[t].ev # NoEvent
              THEN [ecb EXCEPT ![tcb[t].ev].wait = @ \ {tcb[t].prio}] ELSE ecb
    /\ OSTCBPrioTbl' = [OSTCBPrioTbl EXCEPT ![tcb[t].prio] = NoTask]
    /\ \E k \in 1..Len(OSTCBList) :
         /\ OSTCBList[k] = t
         /\ OSTCBList' = SubSeq(OSTCBList, 1, k - 1) \o SubSeq(OSTCBList, k + 1, Len(OSTCBList))
    /\ tcb' = [tcb EXCEPT ![t] = NewTcb(@.prio)]
    /\ at' = [at EXCEPT ![t] = "run", ![cur] = "sched"]
    /\ Call("kill", t, <<>>)
    /\ UNCHANGED <<ring, running, nesting>>

OSTaskSuspend(t) ==
    /\ InTask /\ Exists(t)
    /\ OSRdyTbl' = OSRdyTbl \ {tcb[t].prio}
    /\ tcb' = [tcb EXCEPT ![t].stat = @ \cup {"suspend"}]
    /\ at' = IF t = cur THEN [at EXCEPT ![cur] = "sched"] ELSE at
    /\ UNCHANGED <<tables, ecb, ring, running, nesting, served>>

Runnable(t) == tcb[t].stat = {} /\ tcb[t].dly = 0

(* Wrong variant: resumed although it still waits or is delayed. *)
TaskResumeAlways(t) ==
    /\ InTask /\ Exists(t) /\ "suspend" \in tcb[t].stat
    /\ tcb' = [tcb EXCEPT ![t].stat = @ \ {"suspend"}]
    /\ OSRdyTbl' = OSRdyTbl \cup {tcb[t].prio} /\ ThenSched
    /\ UNCHANGED <<tables, ecb, ring, running, nesting, served>>

OSTaskResume(t) ==
    /\ InTask /\ Exists(t) /\ "suspend" \in tcb[t].stat
    /\ tcb' = [tcb EXCEPT ![t].stat = @ \ {"suspend"}]
    /\ IF tcb[t].stat = {"suspend"} /\ tcb[t].dly = 0
       THEN OSRdyTbl' = OSRdyTbl \cup {tcb[t].prio} /\ ThenSched
       ELSE UNCHANGED <<OSRdyTbl, at>>
    /\ UNCHANGED <<tables, ecb, ring, running, nesting, served>>

Moved(P, p, q) == IF p \in P THEN (P \ {p}) \cup {q} ELSE P

(* OSTCBEventPtr is not cleared when a task is posted to, only when it has  *)
(* run: a task in between is put back on the waiting list.                  *)
OSTaskChangePrio(t, q) ==
    /\ InTask /\ Exists(t) /\ OSTCBPrioTbl[q] = NoTask
    /\ LET p == tcb[t].prio
           e == tcb[t].ev IN
         /\ OSTCBPrioTbl' = [OSTCBPrioTbl EXCEPT ![p] = NoTask, ![q] = t]
         /\ OSRdyTbl' = Moved(OSRdyTbl, p, q)
         /\ ecb' = IF e # NoEvent THEN [ecb EXCEPT ![e].wait = (@ \ {p}) \cup {q}] ELSE ecb
         /\ tcb' = [tcb EXCEPT ![t].prio = q]
         /\ stray' = (e # NoEvent /\ p \notin ecb[e].wait)
    /\ ThenSched
    /\ UNCHANGED <<OSTCBList, ring, running, OSIntNesting, OSLockNesting, tick, served>>

----
Init ==
    /\ \E t \in Tasks, p \in Prios :
         /\ OSTCBPrioTbl = [q \in Prios |-> IF q = p THEN t ELSE NoTask]
         /\ OSTCBList = <<t>> /\ cur = t /\ OSPrioCur = p /\ OSRdyTbl = {p}
         /\ tcb = [u \in Tasks |-> NewTcb(p)]
    /\ ecb = [e \in Events |-> FreeEcb]
    /\ ring = [e \in Events |-> EmptyRing]
    /\ at = [t \in Tasks |-> "run"]
    /\ OSIntNesting = 0 /\ OSLockNesting = 0 /\ tick = 0 /\ stray = FALSE
    /\ served = [op |-> "start", of |-> NoEvent, arg |-> <<>>, turn |-> FALSE]

(* OSMboxPost, OSQPost and OSQPostFront are steps of the services with      *)
(* options, too.                                                            *)
MboxStep(e) == \/ OSMboxCreate(e) \/ OSMboxDel(e) \/ OSMboxPend(e) \/ OSMboxPendAbort(e)
               \/ OSMboxPostOpt(e) \/ OSMboxAccept(e)
QStep(e) == \/ OSQCreate(e) \/ OSQDel(e) \/ OSQPend(e) \/ OSQPendAbort(e)
            \/ OSQPostOpt(e) \/ OSQAccept(e) \/ OSQFlush(e)
SemStep(e) == \/ OSSemCreate(e) \/ OSSemDel(e) \/ OSSemPend(e) \/ OSSemPendAbort(e)
              \/ OSSemPost(e) \/ OSSemAccept(e) \/ OSSemSet(e)
TaskStep(t) == \/ OSTaskDel(t) \/ OSTaskSuspend(t) \/ OSTaskResume(t) \/ OSTimeDlyResume(t)
               \/ \E p \in Prios : OSTaskCreate(t, p) \/ OSTaskChangePrio(t, p)

(* Two uses of OSTaskChangePrio leave the tables wrong, and the model ends    *)
(* there: the one above, and a task that moved itself with the scheduler      *)
(* locked and whose old priority, still in OSPrioCur, another task has taken: *)
(* OS_Sched then takes that task for the one that runs, and nobody blocks.    *)
Astray == \/ stray
          \/ OSPrioCur \in Prios /\ OSTCBPrioTbl[OSPrioCur] \notin {cur, NoTask}
Ended == Astray /\ UNCHANGED vars

Next == \/ /\ ~Astray
           /\ \/ \E e \in Events : MboxStep(e) \/ QStep(e) \/ SemStep(e)
              \/ \E t \in Tasks : TaskStep(t)
              \/ OSTimeDly \/ PendReturn
              \/ OS_Sched \/ OSSchedLock \/ OSSchedUnlock
              \/ OSIntEnter \/ OSIntExit \/ SysTick \/ OSTimeTick
        \/ Ended

Spec == Init /\ [][Next]_vars

----
TypeOK ==
    /\ OSRdyTbl \subseteq Prios
    /\ OSTCBPrioTbl \in [Prios -> Tasks \cup {NoTask}]
    /\ tcb \in [Tasks -> [prio : Prios, stat : SUBSET (Types \cup {"suspend"}),
                          pend : {"ok", "to", "abort"}, dly : 0..MaxDly,
                          ev : Events \cup {NoEvent}, msg : Items \cup {NoMsg}]]
    /\ OSTCBList \in Seq(Tasks)
    /\ ecb \in [Events -> [type : Types \cup {"unused"}, items : Seq(Items),
                           wait : SUBSET Prios]]
    /\ ring \in [Events -> [buf : [0..QSize - 1 -> Msgs \cup {NoMsg}], in : 0..QSize - 1,
                            out : 0..QSize - 1, entries : 0..QSize]]
    /\ at \in [Tasks -> {"run", "sched", "block", "wake"}]
    /\ cur \in Tasks \cup {Idle} /\ OSPrioCur \in Prios \cup {IdlePrio}
    /\ OSIntNesting \in 0..MaxNest /\ OSLockNesting \in 0..1
    /\ tick \in 0..Len(OSTCBList) /\ stray \in BOOLEAN

(* The ready table holds exactly the tasks that wait for nothing, are not   *)
(* delayed and not suspended, whatever order posts, ticks, timeouts,        *)
(* suspensions, aborts and deletions come in.                               *)
ReadyIffRunnable ==
    /\ \A t \in Tasks : Exists(t) => (tcb[t].prio \in OSRdyTbl <=> Runnable(t))
    /\ \A p \in OSRdyTbl : OSTCBPrioTbl[p] # NoTask

(* A waiting list holds exactly the tasks that wait for the event and those *)
(* whose wait timed out and that have not run since.                        *)
Listed(t, e) == /\ Exists(t) /\ at[t] \in {"block", "wake"} /\ tcb[t].ev = e
                /\ Pends(t) # {} \/ tcb[t].pend = "to"
WaitersListed ==
    stray \/ \A e \in Events : ecb[e].wait = {tcb[t].prio : t \in {u \in Tasks : Listed(u, e)}}

(* Control blocks and waiting lists, in every task, interrupt and tick.      *)
KernelSound == TypeOK /\ WaitersListed

(* Nobody waits for what is there. *)
NoneWaitsInVain == stray \/ \A e \in Events : Waiters(e) # {} => Contents(e) = <<>>

(* Whenever tasks run and the scheduler is not locked, the task that runs   *)
(* is the highest ready one: no path forgets to switch.                     *)
HighestRuns ==
    \/ OSIntNesting > 0 \/ OSLockNesting > 0
    \/ cur \in Tasks /\ at[cur] \in {"sched", "block"}
    \/ Astray
    \/ PrioOf(cur) = OS_SchedNew

(* The item in the control block of a task that is in a pend, and the event *)
(* at which it waits or has timed out.                                      *)
InPend(t) == at[t] \in {"block", "wake"}
Hand(t) == IF InPend(t) THEN Result(t) ELSE NoMsg
Asks(t) == IF InPend(t) /\ (Pends(t) # {} \/ tcb[t].pend = "to") THEN tcb[t].ev ELSE NoEvent
Room(e) == IF ecb[e].type = "unused" THEN 0 ELSE Capacity(ecb[e].type)

(* Every call moves items as the abstract channel says that call does, and   *)
(* what is no call moves none: a post puts its item at the right end, gives  *)
(* it to a task that asked or is refused because the event is full; an item  *)
(* leaves only to the call that returns it, the oldest first; a task comes   *)
(* back with exactly what was handed to it, in the time between its timeout  *)
(* and its next run too.                                                     *)
Channel == INSTANCE MsgChannel WITH
    NoItem <- NoMsg,
    Sizes <- {1, QSize, SemMax},
    Loads <- {<<>>} \cup {<<m>> : m \in Msgs} \cup {Units(k) : k \in 0..SemMax},
    chan <- [e \in Events |-> Contents(e)],
    hand <- [t \in Tasks |-> Hand(t)],
    asks <- [t \in Tasks |-> Asks(t)],
    room <- [e \in Events |-> Room(e)]
ImplementsChannel == Channel!Spec
====
