--------------------------- MODULE OsKernelProofs ---------------------------
(***************************************************************************)
(* Theorems of OsKernel, for any number of tasks, priorities, events and   *)
(* messages, any size of the queues and any limit of the semaphores, of    *)
(* the delays and of the nesting of interrupts.                            *)
(***************************************************************************)
EXTENDS OsKernel, Integers, SequenceTheorems, WellFoundedInduction, TLAPS

(* The inductive invariant.                                                *)

\* A task is entered in OSTCBPrioTbl under the priority it has.
PrioInv == \A p \in Prios :
  OSTCBPrioTbl[p] # NoTask => tcb[OSTCBPrioTbl[p]].prio = p

\* The list has each task once, and the tick walks it from an interrupt.
ListInv ==
  /\ \A i \in 1..Len(OSTCBList) : Exists(OSTCBList[i])
  /\ \A i, j \in 1..Len(OSTCBList) : OSTCBList[i] = OSTCBList[j] => i = j
  /\ tick > 0 => OSIntNesting > 0

\* Where a task is tells what its control block holds: only a task that is in
\* a pend waits, and only for the event it called; a message, a timeout or an
\* abort ends the wait and the delay.
PendState(t) ==
  /\ at[t] \in {"run", "sched"} =>
       Pends(t) = {} /\ tcb[t].ev = NoEvent /\ tcb[t].msg = NoMsg /\ tcb[t].pend = "ok"
  /\ at[t] \in {"block", "wake"} =>
       Exists(t) /\ tcb[t].ev \in Events /\ (Pends(t) = {} => tcb[t].dly = 0)
  /\ Pends(t) # {} =>
       Pends(t) = {ecb[tcb[t].ev].type} /\ tcb[t].pend = "ok" /\ tcb[t].msg = NoMsg
PendInv == \A t \in Tasks : PendState(t)

\* WaitersListed, task by task; nobody waits for an event that was deleted.
WaitInv == stray \/ \A e \in Events :
  /\ \A t \in Tasks : Exists(t) => (tcb[t].prio \in ecb[e].wait <=> Listed(t, e))
  /\ \A p \in ecb[e].wait : OSTCBPrioTbl[p] # NoTask
  /\ ecb[e].type = "unused" => ecb[e].wait = {}

\* A deleted task is on its way to OS_Sched, and while the scheduler is locked
\* the task that locked it has the processor and does not wait.
RunInv ==
  /\ cur = Idle <=> OSPrioCur = IdlePrio
  /\ cur \in Tasks /\ ~Exists(cur) => at[cur] = "sched" /\ OSLockNesting = 0
  /\ OSLockNesting > 0 => cur \in Tasks /\ at[cur] \in {"run", "sched"}

\* The queue's entries lie between its pointers.
RingInv == \A e \in Events : ring[e].in = Wrap(ring[e].out + ring[e].entries)

IInv == /\ TypeOK /\ PrioInv /\ ListInv /\ ReadyIffRunnable /\ PendInv /\ WaitInv
        /\ RunInv /\ RingInv /\ NoneWaitsInVain /\ HighestRuns

-----------------------------------------------------------------------------
(* Lemmas about a state. *)


Vals == Items \cup {NoMsg}
TcbType == [prio : Prios, stat : SUBSET (Types \cup {"suspend"}),
            pend : {"ok", "to", "abort"}, dly : 0..MaxDly,
            ev : Events \cup {NoEvent}, msg : Items \cup {NoMsg}]
EcbType == [type : Types \cup {"unused"}, items : Seq(Items), wait : SUBSET Prios]
RingType == [buf : [0..QSize - 1 -> Msgs \cup {NoMsg}], in : 0..QSize - 1,
             out : 0..QSize - 1, entries : 0..QSize]

LEMMA Typed ==
  ASSUME TypeOK
  PROVE  /\ tcb \in [Tasks -> TcbType] /\ ecb \in [Events -> EcbType]
         /\ ring \in [Events -> RingType]
         /\ at \in [Tasks -> {"run", "sched", "block", "wake"}]
         /\ OSTCBPrioTbl \in [Prios -> Tasks \cup {NoTask}]
         /\ OSTCBList \in Seq(Tasks) /\ OSRdyTbl \subseteq Prios
  BY DEF TypeOK, TcbType, EcbType, RingType

LEMMA TaskTyped ==
  ASSUME TypeOK, NEW t \in Tasks
  PROVE  /\ tcb[t] \in TcbType /\ tcb[t].prio \in Prios /\ tcb[t].prio \in Nat
         /\ tcb[t].stat \subseteq Types \cup {"suspend"}
         /\ tcb[t].pend \in {"ok", "to", "abort"} /\ tcb[t].dly \in 0..MaxDly
         /\ tcb[t].dly \in Nat /\ tcb[t].ev \in Events \cup {NoEvent}
         /\ tcb[t].msg \in Vals /\ at[t] \in {"run", "sched", "block", "wake"}
         /\ Pends(t) \subseteq Types
<1>1. tcb[t] \in TcbType /\ at[t] \in {"run", "sched", "block", "wake"} BY Typed
<1>2. tcb[t].prio \in Prios /\ tcb[t].prio \in Nat BY <1>1, PrioAssumption DEF TcbType
<1>3. tcb[t].dly \in 0..MaxDly /\ tcb[t].dly \in Nat BY <1>1, SizeAssumption DEF TcbType
<1>4. tcb[t].ev \in Events \cup {NoEvent} /\ tcb[t].msg \in Vals BY <1>1 DEF TcbType, Vals
<1>5. /\ tcb[t].stat \subseteq Types \cup {"suspend"} /\ Pends(t) \subseteq Types
      /\ tcb[t].pend \in {"ok", "to", "abort"}
  BY <1>1 DEF TcbType, Pends
<1> QED BY <1>1, <1>2, <1>3, <1>4, <1>5

LEMMA EventTyped ==
  ASSUME TypeOK, NEW e \in Events
  PROVE  /\ ecb[e] \in EcbType /\ ecb[e].type \in Types \cup {"unused"}
         /\ ecb[e].items \in Seq(Items) /\ ecb[e].wait \subseteq Prios
         /\ ring[e] \in RingType /\ ring[e].in \in 0..QSize - 1
         /\ ring[e].out \in 0..QSize - 1 /\ ring[e].entries \in 0..QSize
         /\ ring[e].buf \in [0..QSize - 1 -> Msgs \cup {NoMsg}]
  BY DEF TypeOK, EcbType, RingType

\* The highest priority of a set.
LEMMA LowestIn ==
  ASSUME NEW P \in SUBSET Nat, P # {}
  PROVE  Lowest(P) \in P /\ \A q \in P : Lowest(P) <= q
<1>1. PICK x \in P : \A y \in P : ~(<<y, x>> \in OpToRel(<, Nat))
  BY NatLessThanWellFounded, WFMin
<1>2. ASSUME NEW y \in P PROVE x <= y
  <2>1. <<y, x>> \in Nat \X Nat /\ y \in Nat /\ x \in Nat OBVIOUS
  <2>2. ~(y < x) BY <1>1, <2>1 DEF OpToRel
  <2> QED BY <2>1, <2>2
<1> QED BY <1>2 DEF Lowest

LEMMA LowestIs ==
  ASSUME NEW P \in SUBSET Nat, NEW x \in P, \A q \in P : x <= q
  PROVE  Lowest(P) = x
<1>1. Lowest(P) \in P /\ Lowest(P) <= x BY LowestIn
<1>2. x <= Lowest(P) /\ x \in Nat /\ Lowest(P) \in Nat BY <1>1
<1> HIDE DEF Lowest
<1> QED BY <1>1, <1>2

\* The highest ready priority, and its task.
LEMMA SchedNew ==
  ASSUME TypeOK, ReadyIffRunnable
  PROVE  /\ OS_SchedNew \in Prios \cup {IdlePrio}
         /\ OS_SchedNew = IdlePrio <=> OSRdyTbl = {}
         /\ OS_SchedNew # IdlePrio =>
              OS_SchedNew \in OSRdyTbl /\ OSTCBPrioTbl[OS_SchedNew] \in Tasks
<1>1. OSRdyTbl \subseteq Prios /\ OSRdyTbl \in SUBSET Nat BY Typed, PrioAssumption
<1>2. CASE OSRdyTbl = {} BY <1>2 DEF OS_SchedNew
<1>3. CASE OSRdyTbl # {}
  <2>1. OS_SchedNew = Lowest(OSRdyTbl) BY <1>3 DEF OS_SchedNew
  <2>2. Lowest(OSRdyTbl) \in OSRdyTbl BY <1>1, <1>3, LowestIn
  <2>3. Lowest(OSRdyTbl) \in Prios /\ Lowest(OSRdyTbl) # IdlePrio
    <3>1. PICK p \in Prios : p = Lowest(OSRdyTbl) BY <1>1, <2>2
    <3>2. p < IdlePrio /\ p \in Nat /\ IdlePrio \in Nat BY PrioAssumption
    <3> QED BY <3>1, <3>2
  <2>4. OSTCBPrioTbl[Lowest(OSRdyTbl)] \in Tasks
    BY <2>2, <2>3, Typed DEF ReadyIffRunnable
  <2> QED BY <1>3, <2>1, <2>2, <2>3, <2>4
<1> QED BY <1>2, <1>3

\* Two tasks have two priorities.
LEMMA OnePrio ==
  ASSUME NEW t \in Tasks, NEW u \in Tasks, Exists(t), Exists(u), tcb[t].prio = tcb[u].prio
  PROVE  t = u
  BY DEF Exists

LEMMA EntryExists ==
  ASSUME TypeOK, PrioInv, NEW p \in Prios, OSTCBPrioTbl[p] # NoTask
  PROVE  OSTCBPrioTbl[p] \in Tasks /\ Exists(OSTCBPrioTbl[p]) /\ tcb[OSTCBPrioTbl[p]].prio = p
<1>1. OSTCBPrioTbl[p] \in Tasks BY Typed
<1>2. tcb[OSTCBPrioTbl[p]].prio = p BY DEF PrioInv
<1> QED BY <1>1, <1>2 DEF Exists

\* The tasks of a set of priorities that are all in use.
LEMMA WokenIff ==
  ASSUME TypeOK, PrioInv, NEW P \in SUBSET Prios, \A p \in P : OSTCBPrioTbl[p] # NoTask,
         NEW t \in Tasks
  PROVE  t \in Woken(P) <=> Exists(t) /\ tcb[t].prio \in P
<1>1. ASSUME t \in Woken(P) PROVE Exists(t) /\ tcb[t].prio \in P
  <2>1. PICK p \in P : t = OSTCBPrioTbl[p] BY <1>1 DEF Woken
  <2> QED BY <2>1, EntryExists
<1>2. ASSUME Exists(t), tcb[t].prio \in P PROVE t \in Woken(P)
  BY <1>2 DEF Exists, Woken
<1> QED BY <1>1, <1>2

\* A task in a step of its own exists, and an idle processor is in no task.
LEMMA InTaskExists ==
  ASSUME IInv, InTask
  PROVE  /\ cur \in Tasks /\ Exists(cur) /\ at[cur] = "run" /\ OSIntNesting = 0 /\ tick = 0
         /\ Pends(cur) = {} /\ tcb[cur].ev = NoEvent /\ tcb[cur].msg = NoMsg
         /\ tcb[cur].pend = "ok"
<1>1. cur \in Tasks /\ at[cur] = "run" /\ OSIntNesting = 0 BY DEF InTask
<1>2. Exists(cur) BY <1>1 DEF IInv, RunInv
<1>3. tick = 0 BY <1>1 DEF IInv, ListInv, TypeOK
<1>4. PendState(cur) BY <1>1 DEF IInv, PendInv
<1> QED BY <1>1, <1>2, <1>3, <1>4 DEF PendState

LEMMA InCodeCases ==
  ASSUME InCode PROVE OSIntNesting = 0 => InTask
  BY DEF InCode, InISR
-----------------------------------------------------------------------------
(* Lemmas about a step: what need not be looked at again. *)

\* No task is created, deleted or moved to another priority.
LEMMA SameTasks ==
  ASSUME TypeOK, PrioInv, ListInv, OSTCBPrioTbl' = OSTCBPrioTbl, OSTCBList' = OSTCBList,
         \A t \in Tasks : tcb'[t].prio = tcb[t].prio, tick' > 0 => OSIntNesting' > 0
  PROVE  PrioInv' /\ ListInv' /\ \A t : Exists(t)' <=> Exists(t)
<1>1. \A t : Exists(t)' <=> Exists(t) BY DEF Exists
<1>2. PrioInv' BY Typed DEF PrioInv
<1>3. ListInv' BY <1>1 DEF ListInv
<1> QED BY <1>1, <1>2, <1>3

\* Nobody becomes ready, waits or is delayed.
LEMMA SameReady ==
  ASSUME ReadyIffRunnable, OSTCBPrioTbl' = OSTCBPrioTbl, tcb' = tcb, OSRdyTbl' = OSRdyTbl
  PROVE  ReadyIffRunnable'
  BY DEF ReadyIffRunnable, Exists, Runnable

\* A call that is refused or finds nothing changes no more than "served".
LEMMA SameIInv ==
  ASSUME IInv, UNCHANGED <<OSRdyTbl, tables, tcb, ecb, ring, at, running, nesting>>
  PROVE  IInv'
<1>1. /\ OSRdyTbl' = OSRdyTbl /\ OSTCBPrioTbl' = OSTCBPrioTbl /\ OSTCBList' = OSTCBList
      /\ tcb' = tcb /\ ecb' = ecb /\ ring' = ring /\ at' = at /\ cur' = cur
      /\ OSPrioCur' = OSPrioCur /\ OSIntNesting' = OSIntNesting
      /\ OSLockNesting' = OSLockNesting /\ tick' = tick /\ stray' = stray
  BY DEF tables, running, nesting
<1>2. TypeOK' /\ PrioInv' /\ RingInv' BY <1>1 DEF IInv, TypeOK, PrioInv, RingInv
<1>3. \A u : Exists(u)' <=> Exists(u) BY <1>1 DEF Exists
<1>4. ListInv' /\ RunInv' BY <1>1 DEF IInv, ListInv, RunInv, Exists
<1>5. ReadyIffRunnable' BY <1>1, SameReady DEF IInv
<1>6. \A u : PendState(u)' <=> PendState(u) BY <1>1, <1>3 DEF PendState, Pends
<1>7. PendInv' BY <1>6 DEF IInv, PendInv
<1>8. \A u, e : Listed(u, e)' <=> Listed(u, e) BY <1>1, <1>3 DEF Listed, Pends
<1>9. WaitInv' BY <1>1, <1>3, <1>8 DEF IInv, WaitInv
<1>10. NoneWaitsInVain' BY <1>1 DEF IInv, NoneWaitsInVain, Waiters, Contents
<1>11. HighestRuns' BY <1>1 DEF IInv, HighestRuns, Astray, PrioOf, OS_SchedNew
<1> QED BY <1>2, <1>4, <1>5, <1>7, <1>9, <1>10, <1>11 DEF IInv

\* The step of a service that ends in OS_Sched, of an interrupt handler, or
\* that readies and stops nobody.
LEMMA SameRunning ==
  ASSUME IInv, OSIntNesting = 0 => InTask, ~Astray,
         UNCHANGED <<running, OSIntNesting, OSLockNesting>>,
         \A t \in Tasks : t = cur /\ Exists(t) => Exists(t)',
         OSIntNesting > 0 => at' = at /\ OSTCBPrioTbl' = OSTCBPrioTbl,
         OSIntNesting = 0 => \/ at'[cur] = "sched"
                             \/ at'[cur] = "block" /\ OSLockNesting = 0
                             \/ /\ at'[cur] = "run" /\ OSRdyTbl' = OSRdyTbl
                                /\ tcb'[cur].prio = tcb[cur].prio
  PROVE  RunInv' /\ HighestRuns'
<1> USE DEF IInv
<1>0. /\ cur' = cur /\ OSPrioCur' = OSPrioCur /\ OSIntNesting' = OSIntNesting
      /\ OSLockNesting' = OSLockNesting
  BY DEF running
<1> PICK c : c = cur OBVIOUS
<1>1. CASE OSIntNesting > 0
  <2>1. HighestRuns' BY <1>0, <1>1 DEF HighestRuns
  <2>2. c \in Tasks /\ ~Exists(c)' => ~Exists(c) OBVIOUS
  <2>3. c \in Tasks /\ ~Exists(c)' => at[c] = "sched" /\ OSLockNesting = 0
    BY <2>2 DEF RunInv
  <2>4. cur' \in Tasks /\ ~Exists(cur)' => at'[cur'] = "sched" /\ OSLockNesting' = 0
    BY <1>0, <1>1, <2>3 DEF Exists
  <2>5. RunInv' BY <1>0, <1>1, <2>4 DEF RunInv
  <2> QED BY <2>1, <2>5
<1>2. CASE OSIntNesting = 0
  <2>1. InTask /\ cur \in Tasks /\ Exists(cur) /\ at[cur] = "run"
    BY <1>2, InTaskExists
  <2>2. \/ at'[cur] = "sched"
        \/ at'[cur] = "block" /\ OSLockNesting = 0
        \/ /\ at'[cur] = "run" /\ OSRdyTbl' = OSRdyTbl
           /\ tcb'[cur].prio = tcb[cur].prio
    BY <1>2
  <2>4. RunInv'
    <3>1. Exists(c)' BY <2>1
    <3>2. OSLockNesting' > 0 => cur' \in Tasks /\ at'[cur'] \in {"run", "sched"}
      BY <1>0, <2>1, <2>2
    <3>3. cur' = Idle <=> OSPrioCur' = IdlePrio BY <1>0 DEF RunInv
    <3>4. Exists(cur)' BY <1>0, <3>1 DEF Exists
    <3> QED BY <3>2, <3>3, <3>4 DEF RunInv
  <2>5. HighestRuns'
    <3>1. CASE at'[cur] \in {"sched", "block"} BY <1>0, <2>1, <3>1 DEF HighestRuns
    <3>2. CASE /\ at'[cur] = "run" /\ OSRdyTbl' = OSRdyTbl
               /\ tcb'[cur].prio = tcb[cur].prio
      <4>1. OSLockNesting > 0 \/ PrioOf(cur) = OS_SchedNew
        BY <1>2, <2>1 DEF HighestRuns, TypeOK
      <4>2. OS_SchedNew' = OS_SchedNew BY <3>2 DEF OS_SchedNew
      <4>3. PrioOf(cur)' = PrioOf(cur) BY <1>0, <2>1, <3>2 DEF PrioOf
      <4> QED BY <1>0, <4>1, <4>2, <4>3 DEF HighestRuns
    <3> QED BY <2>2, <3>1, <3>2
  <2> QED BY <2>4, <2>5
<1> QED BY <1>1, <1>2 DEF TypeOK

-----------------------------------------------------------------------------
(* Lemmas about rings. *)

RingSound(q) == q \in RingType /\ q.in = Wrap(q.out + q.entries)

LEMMA RingTyped ==
  ASSUME NEW q, RingSound(q)
  PROVE  /\ q \in RingType /\ q.out \in Nat /\ q.out < QSize /\ q.in \in Nat /\ q.in < QSize
         /\ q.entries \in Nat /\ q.entries <= QSize
         /\ q.buf \in [0..QSize - 1 -> Msgs \cup {NoMsg}]
         /\ q.in = Wrap(q.out + q.entries) /\ QSize \in Nat /\ QSize > 0
  BY SizeAssumption DEF RingSound, RingType

LEMMA RingItemsSeq ==
  ASSUME NEW q \in RingType
  PROVE  /\ RingItems(q) \in Seq(Vals) /\ Len(RingItems(q)) = q.entries
         /\ \A i \in 1..q.entries : RingItems(q)[i] = q.buf[Wrap(q.out + i - 1)]
<1> DEFINE n == q.entries
           v(i) == q.buf[Wrap(q.out + i - 1)]
           C == RingItems(q)
<1>1. n \in Nat /\ n <= QSize /\ q.out \in 0..QSize - 1
      /\ q.buf \in [0..QSize - 1 -> Msgs \cup {NoMsg}]
  BY SizeAssumption DEF RingType
<1>2. C = [i \in 1..n |-> v(i)] BY DEF RingItems
<1>3. ASSUME NEW i \in 1..n PROVE v(i) \in Vals
  <2>1. Wrap(q.out + i - 1) \in 0..QSize - 1 BY <1>1, SizeAssumption DEF Wrap
  <2> QED BY <1>1, <2>1 DEF Vals, Items
<1> HIDE DEF v, C
<1>4. C \in [1..n -> Vals] BY <1>2, <1>3
<1>5. C \in Seq(Vals) BY <1>1, <1>4, SeqDef
<1>6. Len(C) = n
  <2>1. DOMAIN C = 1..n BY <1>4
  <2>2. Len(C) \in Nat /\ DOMAIN C = 1..Len(C) BY <1>5, LenProperties
  <2> QED BY <1>1, <2>1, <2>2
<1>7. \A i \in 1..n : C[i] = v(i) BY <1>2
<1> QED BY <1>1, <1>5, <1>6, <1>7 DEF v, C

LEMMA EmptyRingSound == RingSound(EmptyRing) /\ RingItems(EmptyRing) = <<>>
<1>1. 0 \in 0..QSize - 1 /\ 0 \in 0..QSize BY SizeAssumption
<1>2. Wrap(0 + 0) = 0 BY SizeAssumption DEF Wrap
<1>3. EmptyRing \in RingType BY <1>1 DEF EmptyRing, RingType
<1>4. EmptyRing.entries = 0 /\ EmptyRing.in = 0 /\ EmptyRing.out = 0 BY DEF EmptyRing
<1>5. RingItems(EmptyRing) = <<>>
  <2>1. RingItems(EmptyRing) \in Seq(Vals) /\ Len(RingItems(EmptyRing)) = 0
    BY <1>3, <1>4, RingItemsSeq
  <2> QED BY <2>1, EmptySeq
<1> QED BY <1>2, <1>3, <1>4, <1>5 DEF RingSound

\* A post appends.
LEMMA RingPutAppends ==
  ASSUME NEW q, RingSound(q), q.entries < QSize, NEW m \in Msgs
  PROVE  RingSound(RingPut(q, m)) /\ RingItems(RingPut(q, m)) = Append(RingItems(q), m)
<1> DEFINE n == q.entries
           r == RingPut(q, m)
           C == RingItems(q)
<1>1. /\ q \in RingType /\ q.out \in Nat /\ q.out < QSize /\ n \in Nat /\ n < QSize
      /\ q.in \in Nat /\ q.in < QSize
      /\ q.in = Wrap(q.out + n) /\ QSize \in Nat /\ QSize > 0
      /\ q.buf \in [0..QSize - 1 -> Msgs \cup {NoMsg}]
  BY RingTyped
<1>2. /\ r.out = q.out /\ r.entries = n + 1 /\ r.in = After(q.in)
      /\ r.buf = [q.buf EXCEPT ![q.in] = m]
  BY <1>1 DEF RingPut, RingType
<1>3. r \in RingType
  <2>1. After(q.in) \in 0..QSize - 1 /\ n + 1 \in 0..QSize BY <1>1 DEF After
  <2>2. [q.buf EXCEPT ![q.in] = m] \in [0..QSize - 1 -> Msgs \cup {NoMsg}] BY <1>1
  <2> QED BY <1>1, <2>1, <2>2 DEF RingPut, RingType
<1>4. r.in = Wrap(r.out + r.entries)
  <2> HIDE DEF r
  <2>1. After(Wrap(q.out + n)) = Wrap(q.out + (n + 1)) BY <1>1 DEF Wrap, After
  <2> QED BY <1>1, <1>2, <2>1
<1>5. /\ C \in Seq(Vals) /\ Len(C) = n /\ m \in Vals
      /\ \A i \in 1..n : C[i] = q.buf[Wrap(q.out + i - 1)]
  BY <1>1, RingItemsSeq DEF Vals, Items
<1>6. /\ RingItems(r) \in Seq(Vals) /\ Len(RingItems(r)) = n + 1
      /\ \A i \in 1..n + 1 : RingItems(r)[i] = r.buf[Wrap(q.out + i - 1)]
  <2> HIDE DEF r
  <2> QED BY <1>2, <1>3, RingItemsSeq
<1>7. ASSUME NEW i \in 1..n PROVE r.buf[Wrap(q.out + i - 1)] = C[i]
  <2>1. Wrap(q.out + i - 1) \in 0..QSize - 1 /\ Wrap(q.out + i - 1) # q.in
    BY <1>1 DEF Wrap
  <2> QED BY <1>1, <1>2, <1>5, <2>1
<1>8. r.buf[Wrap(q.out + (n + 1) - 1)] = m
  <2>1. Wrap(q.out + (n + 1) - 1) = q.in /\ q.in \in 0..QSize - 1 BY <1>1 DEF Wrap
  <2> QED BY <1>1, <1>2, <2>1
<1> HIDE DEF r, C
<1>9. /\ Append(C, m) \in Seq(Vals) /\ Len(Append(C, m)) = n + 1
      /\ \A i \in 1..n : Append(C, m)[i] = C[i]
      /\ Append(C, m)[n + 1] = m
  BY <1>5, AppendProperties
<1>10. \A i \in 1..n + 1 : RingItems(r)[i] = Append(C, m)[i]
  <2> TAKE i \in 1..n + 1
  <2>1. CASE i = n + 1 BY <1>1, <1>6, <1>8, <1>9, <2>1
  <2>2. CASE i # n + 1
    <3>1. i \in 1..n BY <1>1, <2>2
    <3> QED BY <1>6, <1>7, <1>9, <3>1
  <2> QED BY <2>1, <2>2
<1>11. RingItems(r) = Append(C, m) BY <1>1, <1>6, <1>9, <1>10, SeqEqual
<1> QED BY <1>3, <1>4, <1>11 DEF RingSound, r, C

\* A post to the front puts the message before the others.
LEMMA RingPutFrontPrepends ==
  ASSUME NEW q, RingSound(q), q.entries < QSize, NEW m \in Msgs
  PROVE  /\ RingSound(RingPutFront(q, m))
         /\ RingItems(RingPutFront(q, m)) = <<m>> \o RingItems(q)
<1> DEFINE n == q.entries
           o == Before(q.out)
           r == RingPutFront(q, m)
           C == RingItems(q)
           D == <<m>> \o C
<1>1. /\ q \in RingType /\ q.out \in Nat /\ q.out < QSize /\ n \in Nat /\ n < QSize
      /\ q.in \in Nat /\ q.in < QSize
      /\ q.in = Wrap(q.out + n) /\ QSize \in Nat /\ QSize > 0
      /\ q.buf \in [0..QSize - 1 -> Msgs \cup {NoMsg}]
  BY RingTyped
<1>2. o \in 0..QSize - 1 /\ o \in Nat BY <1>1 DEF Before
<1>3. /\ r.out = o /\ r.entries = n + 1 /\ r.in = q.in
      /\ r.buf = [q.buf EXCEPT ![o] = m]
  <2> HIDE DEF o
  <2>1. r = [q EXCEPT !.buf[o] = m, !.out = o, !.entries = @ + 1] BY DEF RingPutFront, o
  <2> QED BY <1>1, <2>1 DEF RingType
<1>4. r \in RingType
  <2>1. n + 1 \in 0..QSize BY <1>1
  <2>2. [q.buf EXCEPT ![o] = m] \in [0..QSize - 1 -> Msgs \cup {NoMsg}] BY <1>1
  <2> HIDE DEF o
  <2>3. r = [q EXCEPT !.buf[o] = m, !.out = o, !.entries = @ + 1] BY DEF RingPutFront, o
  <2> QED BY <1>1, <1>2, <2>1, <2>2, <2>3 DEF RingType
<1>5. r.in = Wrap(r.out + r.entries)
  <2> HIDE DEF r
  <2> QED BY <1>1, <1>3 DEF Wrap, Before
<1>6. /\ C \in Seq(Vals) /\ Len(C) = n /\ m \in Vals
      /\ \A i \in 1..n : C[i] = q.buf[Wrap(q.out + i - 1)]
  BY <1>1, RingItemsSeq DEF Vals, Items
<1>7. /\ RingItems(r) \in Seq(Vals) /\ Len(RingItems(r)) = n + 1
      /\ \A i \in 1..n + 1 : RingItems(r)[i] = r.buf[Wrap(o + i - 1)]
  <2> HIDE DEF r, o
  <2> QED BY <1>3, <1>4, RingItemsSeq
<1>8. ASSUME NEW i \in 2..n + 1 PROVE r.buf[Wrap(o + i - 1)] = C[i - 1]
  <2>1. i - 1 \in 1..n BY <1>1
  <2>2. Wrap(o + i - 1) = Wrap(q.out + (i - 1) - 1) /\ Wrap(o + i - 1) # o
        /\ Wrap(o + i - 1) \in 0..QSize - 1
    <3>1. i \in Nat /\ i >= 2 /\ i <= n + 1 BY <1>1
    <3>2. CASE q.out = 0
      <4>1. o = QSize - 1 BY <1>1, <3>2 DEF Before
      <4>2. o + i - 1 = QSize + i - 2 /\ q.out + (i - 1) - 1 = i - 2
        BY <1>1, <3>1, <3>2, <4>1
      <4>3. Wrap(QSize + i - 2) = i - 2 /\ Wrap(i - 2) = i - 2 /\ i - 2 \in 0..QSize - 1
        BY <1>1, <3>1 DEF Wrap
      <4>4. i - 2 # o BY <1>1, <3>1, <4>1
      <4> HIDE DEF o
      <4> QED BY <4>2, <4>3, <4>4
    <3>3. CASE q.out # 0
      <4>1. o = q.out - 1 BY <1>1, <3>3 DEF Before
      <4>2. o + i - 1 = q.out + (i - 1) - 1 BY <1>1, <3>1, <4>1
      <4>3. Wrap(q.out + (i - 1) - 1) \in 0..QSize - 1 /\ Wrap(q.out + (i - 1) - 1) # q.out - 1
        <5>1. CASE q.out + (i - 1) - 1 < QSize
          <6>1. Wrap(q.out + (i - 1) - 1) = q.out + (i - 1) - 1 BY <5>1 DEF Wrap
          <6> QED BY <1>1, <3>1, <5>1, <6>1
        <5>2. CASE ~(q.out + (i - 1) - 1 < QSize)
          <6>1. Wrap(q.out + (i - 1) - 1) = q.out + (i - 1) - 1 - QSize
            BY <1>1, <3>1, <5>2 DEF Wrap
          <6> QED BY <1>1, <3>1, <5>2, <6>1
        <5> QED BY <5>1, <5>2
      <4> HIDE DEF o
      <4> QED BY <4>1, <4>2, <4>3
    <3> QED BY <3>2, <3>3
  <2> HIDE DEF o, r
  <2> QED BY <1>1, <1>3, <1>6, <2>1, <2>2
<1>9. r.buf[Wrap(o + 1 - 1)] = m
  <2>1. Wrap(o + 1 - 1) = o BY <1>1, <1>2 DEF Wrap
  <2> HIDE DEF o, r
  <2> QED BY <1>1, <1>2, <1>3, <2>1
<1> HIDE DEF r, C, o
<1>10. /\ D \in Seq(Vals) /\ Len(D) = n + 1
       /\ D[1] = m /\ \A i \in 2..n + 1 : D[i] = C[i - 1]
  <2>1. <<m>> \in Seq(Vals) /\ Len(<<m>>) = 1 /\ <<m>>[1] = m BY <1>6
  <2>2. /\ D \in Seq(Vals) /\ Len(D) = 1 + n
        /\ \A i \in 1..1 + n : D[i] = IF i <= 1 THEN <<m>>[i] ELSE C[i - 1]
    BY <1>6, <2>1, ConcatProperties
  <2> HIDE DEF D
  <2>3. D[1] = m BY <1>1, <2>1, <2>2
  <2>4. ASSUME NEW i \in 2..n + 1 PROVE D[i] = C[i - 1]
    <3>1. i \in 1..1 + n /\ ~(i <= 1) BY <1>1
    <3> QED BY <2>2, <3>1
  <2> QED BY <1>1, <2>2, <2>3, <2>4
<1> HIDE DEF D
<1>11. \A i \in 1..n + 1 : RingItems(r)[i] = D[i]
  <2> TAKE i \in 1..n + 1
  <2>1. CASE i = 1 BY <1>1, <1>7, <1>9, <1>10, <2>1
  <2>2. CASE i # 1
    <3>1. i \in 2..n + 1 BY <1>1, <2>2
    <3> QED BY <1>7, <1>8, <1>10, <3>1
  <2> QED BY <2>1, <2>2
<1>12. RingItems(r) = D BY <1>1, <1>7, <1>10, <1>11, SeqEqual
<1> QED BY <1>4, <1>5, <1>12 DEF RingSound, r, C, D

\* A pend takes the oldest.
LEMMA RingGetTakes ==
  ASSUME NEW q, RingSound(q), q.entries > 0
  PROVE  RingSound(RingGet(q)) /\ RingItems(RingGet(q)) = Tail(RingItems(q))
<1> DEFINE n == q.entries
           r == RingGet(q)
           C == RingItems(q)
<1>1. /\ q \in RingType /\ q.out \in Nat /\ q.out < QSize /\ n \in Nat /\ n > 0 /\ n <= QSize
      /\ q.in \in Nat /\ q.in < QSize
      /\ q.in = Wrap(q.out + n) /\ QSize \in Nat /\ QSize > 0
      /\ q.buf \in [0..QSize - 1 -> Msgs \cup {NoMsg}]
  BY RingTyped
<1>2. /\ r.out = After(q.out) /\ r.entries = n - 1 /\ r.in = q.in
      /\ r.buf = [q.buf EXCEPT ![q.out] = NoMsg]
  BY <1>1 DEF RingGet, RingType
<1>3. r \in RingType
  <2>1. After(q.out) \in 0..QSize - 1 /\ n - 1 \in 0..QSize BY <1>1 DEF After
  <2>2. [q.buf EXCEPT ![q.out] = NoMsg] \in [0..QSize - 1 -> Msgs \cup {NoMsg}] BY <1>1
  <2> QED BY <1>1, <2>1, <2>2 DEF RingGet, RingType
<1>4. r.in = Wrap(r.out + r.entries) BY <1>1, <1>2 DEF Wrap, After
<1>5. /\ C \in Seq(Vals) /\ Len(C) = n
      /\ \A i \in 1..n : C[i] = q.buf[Wrap(q.out + i - 1)]
  BY <1>1, RingItemsSeq
<1>6. /\ RingItems(r) \in Seq(Vals) /\ Len(RingItems(r)) = n - 1
      /\ \A i \in 1..n - 1 : RingItems(r)[i] = r.buf[Wrap(After(q.out) + i - 1)]
  <2> HIDE DEF r
  <2> QED BY <1>2, <1>3, RingItemsSeq
<1>7. ASSUME NEW i \in 1..n - 1 PROVE r.buf[Wrap(After(q.out) + i - 1)] = C[i + 1]
  <2>1. i + 1 \in 1..n BY <1>1
  <2>2. /\ Wrap(After(q.out) + i - 1) = Wrap(q.out + (i + 1) - 1)
        /\ Wrap(After(q.out) + i - 1) # q.out
        /\ Wrap(After(q.out) + i - 1) \in 0..QSize - 1
    <3>1. i \in Nat /\ i >= 1 /\ i <= n - 1 /\ q.out \in Nat BY <1>1
    <3>2. CASE q.out + 1 = QSize
      <4>1. After(q.out) = 0 BY <3>2 DEF After
      <4>2. After(q.out) + i - 1 = i - 1 /\ q.out + (i + 1) - 1 = QSize + i - 1
        BY <1>1, <3>1, <3>2, <4>1
      <4>3. Wrap(i - 1) = i - 1 /\ Wrap(QSize + i - 1) = i - 1 /\ i - 1 \in 0..QSize - 1
        BY <1>1, <3>1 DEF Wrap
      <4>4. i - 1 # q.out BY <1>1, <3>1, <3>2
      <4> QED BY <4>2, <4>3, <4>4
    <3>3. CASE q.out + 1 # QSize
      <4>1. After(q.out) = q.out + 1 BY <3>3 DEF After
      <4>2. After(q.out) + i - 1 = q.out + i /\ q.out + (i + 1) - 1 = q.out + i
        BY <3>1, <4>1
      <4>3. Wrap(q.out + i) \in 0..QSize - 1 /\ Wrap(q.out + i) # q.out
        BY <1>1, <3>1 DEF Wrap
      <4> QED BY <4>2, <4>3
    <3> QED BY <3>2, <3>3
  <2> HIDE DEF r
  <2> QED BY <1>1, <1>2, <1>5, <2>1, <2>2
<1> HIDE DEF r, C
<1>8. C # <<>> BY <1>1, <1>5, EmptySeq
<1>9. /\ Tail(C) \in Seq(Vals) /\ Len(Tail(C)) = n - 1
      /\ \A i \in 1..n - 1 : Tail(C)[i] = C[i + 1]
  BY <1>5, <1>8, HeadTailProperties
<1>10. \A i \in 1..n - 1 : RingItems(r)[i] = Tail(C)[i] BY <1>6, <1>7, <1>9
<1>11. RingItems(r) = Tail(C) BY <1>1, <1>6, <1>9, <1>10, SeqEqual
<1> QED BY <1>3, <1>4, <1>11 DEF RingSound, r, C

-----------------------------------------------------------------------------
(* Lemmas about the items of events. *)

LEMMA RingsSound ==
  ASSUME TypeOK, RingInv, NEW e \in Events
  PROVE  RingSound(ring[e])
  BY EventTyped DEF RingInv, RingSound

LEMMA ContentsSeq ==
  ASSUME TypeOK, NEW e \in Events
  PROVE  /\ Contents(e) \in Seq(Vals) /\ Len(Contents(e)) \in Nat
         /\ Contents(e) = <<>> <=> Len(Contents(e)) = 0
         /\ ecb[e].type = "q" => Len(Contents(e)) = ring[e].entries
<1>1. ecb[e].type = "q" => /\ Contents(e) \in Seq(Vals)
                           /\ Len(Contents(e)) = ring[e].entries
  BY EventTyped, RingItemsSeq DEF Contents
<1>2. ecb[e].type # "q" => Contents(e) \in Seq(Vals)
  <2>1. ecb[e].items \in Seq(Items) /\ Items \subseteq Vals BY EventTyped DEF Vals
  <2> QED BY <2>1, SeqMonotonic DEF Contents
<1>3. Contents(e) \in Seq(Vals) BY <1>1, <1>2
<1>4. Len(Contents(e)) \in Nat BY <1>3, LenProperties
<1>5. Contents(e) = <<>> => Len(Contents(e)) = 0 BY <1>3, EmptySeq
<1>6. Contents(e) # <<>> => Len(Contents(e)) # 0 BY <1>3, EmptySeq
<1> QED BY <1>1, <1>3, <1>4, <1>5, <1>6

\* An event whose block and ring do not change keeps its items.
LEMMA SameContents ==
  ASSUME NEW e, ecb'[e].type = ecb[e].type,
         ecb[e].type = "q" => ring'[e] = ring[e],
         ecb[e].type # "q" => ecb'[e].items = ecb[e].items
  PROVE  Contents(e)' = Contents(e)
  BY DEF Contents

\* The items of one event change, and nothing else of the events does.
OnlyItems(e) ==
  /\ ecb' \in [Events -> EcbType] /\ ring' \in [Events -> RingType] /\ RingInv'
  /\ \A x \in Events : ecb'[x].wait = ecb[x].wait /\ ecb'[x].type = ecb[x].type
  /\ \A x \in Events : x # e => Contents(x)' = Contents(x)

LEMMA SetItems ==
  ASSUME TypeOK, RingInv, NEW e \in Events, ecb[e].type # "q", NEW s \in Seq(Items),
         ecb' = [ecb EXCEPT ![e].items = s], ring' = ring
  PROVE  OnlyItems(e) /\ Contents(e)' = s
<1>1. ecb \in [Events -> EcbType] /\ ring \in [Events -> RingType] BY Typed
<1>2. ecb' \in [Events -> EcbType] BY <1>1 DEF EcbType
<1>3. \A x \in Events : ecb'[x].wait = ecb[x].wait /\ ecb'[x].type = ecb[x].type
  BY <1>1 DEF EcbType
<1>4. \A x \in Events : x # e => ecb'[x] = ecb[x] BY <1>1
<1>5. ecb'[e].items = s BY <1>1 DEF EcbType
<1>6. \A x \in Events : x # e => Contents(x)' = Contents(x) BY <1>4, SameContents
<1>7. Contents(e)' = s BY <1>3, <1>5 DEF Contents
<1>8. RingInv' BY DEF RingInv
<1> QED BY <1>1, <1>2, <1>3, <1>6, <1>7, <1>8 DEF OnlyItems

LEMMA SetRing ==
  ASSUME TypeOK, RingInv, NEW e \in Events, ecb[e].type = "q", NEW r, RingSound(r),
         ring' = [ring EXCEPT ![e] = r], ecb' = ecb
  PROVE  OnlyItems(e) /\ Contents(e)' = RingItems(r)
<1>1. ecb \in [Events -> EcbType] /\ ring \in [Events -> RingType] /\ r \in RingType
  BY Typed DEF RingSound
<1>2. ring' \in [Events -> RingType] /\ ring'[e] = r BY <1>1
<1>3. \A x \in Events : x # e => ring'[x] = ring[x] BY <1>1
<1>4. \A x \in Events : x # e => Contents(x)' = Contents(x) BY <1>3, SameContents
<1>5. RingInv' BY <1>2, <1>3 DEF RingInv, RingSound
<1>6. Contents(e)' = RingItems(r) BY <1>2 DEF Contents
<1> QED BY <1>1, <1>2, <1>4, <1>5, <1>6 DEF OnlyItems

LEMMA AddAppends ==
  ASSUME TypeOK, RingInv, NEW e \in Events, NEW m \in Items,
         ecb[e].type = "q" => m \in Msgs, Add(e, m)
  PROVE  OnlyItems(e) /\ Contents(e)' = Append(Contents(e), m)
<1>1. CASE ecb[e].type = "q"
  <2>1. ring' = [ring EXCEPT ![e] = RingPut(ring[e], m)] /\ ecb' = ecb BY <1>1 DEF Add
  <2>2. ring[e].entries < QSize
    <3>1. Len(Contents(e)) < QSize BY <1>1 DEF Add, Capacity
    <3> QED BY <1>1, <3>1, ContentsSeq
  <2>3. /\ RingSound(RingPut(ring[e], m))
        /\ RingItems(RingPut(ring[e], m)) = Append(RingItems(ring[e]), m)
    BY <1>1, <2>2, RingsSound, RingPutAppends
  <2>4. PICK r : r = RingPut(ring[e], m) OBVIOUS
  <2>5. OnlyItems(e) /\ Contents(e)' = RingItems(r) BY <1>1, <2>1, <2>3, <2>4, SetRing
  <2> QED BY <1>1, <2>3, <2>4, <2>5 DEF Contents
<1>2. CASE ecb[e].type # "q"
  <2>1. ring' = ring /\ ecb' = [ecb EXCEPT ![e].items = Append(ecb[e].items, m)]
    BY <1>2, Typed DEF Add
  <2>2. PICK s : s = Append(ecb[e].items, m) OBVIOUS
  <2>3. s \in Seq(Items) BY <2>2, EventTyped, AppendProperties
  <2>4. OnlyItems(e) /\ Contents(e)' = s BY <1>2, <2>1, <2>2, <2>3, SetItems
  <2> QED BY <1>2, <2>2, <2>4 DEF Contents
<1> QED BY <1>1, <1>2

LEMMA TakeRemoves ==
  ASSUME TypeOK, RingInv, NEW e \in Events, Take(e)
  PROVE  OnlyItems(e) /\ Contents(e) # <<>> /\ Contents(e)' = Tail(Contents(e))
<1>0. Contents(e) # <<>> BY DEF Take
<1>1. CASE ecb[e].type = "q"
  <2>1. ring' = [ring EXCEPT ![e] = RingGet(ring[e])] /\ ecb' = ecb BY <1>1 DEF Take
  <2>2. ring[e].entries > 0
    <3>1. Len(Contents(e)) # 0 /\ Len(Contents(e)) \in Nat BY <1>0, ContentsSeq
    <3> QED BY <1>1, <3>1, ContentsSeq
  <2>3. /\ RingSound(RingGet(ring[e]))
        /\ RingItems(RingGet(ring[e])) = Tail(RingItems(ring[e]))
    BY <2>2, RingsSound, RingGetTakes
  <2>4. PICK r : r = RingGet(ring[e]) OBVIOUS
  <2>5. OnlyItems(e) /\ Contents(e)' = RingItems(r) BY <1>1, <2>1, <2>3, <2>4, SetRing
  <2> QED BY <1>0, <1>1, <2>3, <2>4, <2>5 DEF Contents
<1>2. CASE ecb[e].type # "q"
  <2>1. ring' = ring /\ ecb' = [ecb EXCEPT ![e].items = Tail(ecb[e].items)]
    BY <1>2, Typed DEF Take
  <2>2. PICK s : s = Tail(ecb[e].items) OBVIOUS
  <2>3. ecb[e].items # <<>> BY <1>0, <1>2 DEF Contents
  <2>4. s \in Seq(Items) BY <2>2, <2>3, EventTyped, HeadTailProperties
  <2>5. OnlyItems(e) /\ Contents(e)' = s BY <1>2, <2>1, <2>2, <2>4, SetItems
  <2> QED BY <1>0, <1>2, <2>2, <2>5 DEF Contents
<1> QED BY <1>1, <1>2

LEMMA UnitsTyped ==
  ASSUME NEW k \in Nat
  PROVE  Units(k) \in Seq(Items) /\ Len(Units(k)) = k
<1>1. Units(k) \in [1..k -> Items] BY DEF Units, Items
<1>2. Units(k) \in Seq(Items) BY <1>1, SeqDef
<1>3. DOMAIN Units(k) = 1..k BY <1>1
<1>4. Len(Units(k)) \in Nat /\ DOMAIN Units(k) = 1..Len(Units(k)) BY <1>2, LenProperties
<1> HIDE DEF Units
<1>5. Len(Units(k)) = k BY <1>3, <1>4
<1> QED BY <1>2, <1>5

-----------------------------------------------------------------------------
(* Steps that move items and no task. *)

LEMMA TypeOfParts ==
  ASSUME TypeOK, OSRdyTbl' \subseteq Prios, OSTCBPrioTbl' = OSTCBPrioTbl,
         OSTCBList' = OSTCBList, tcb' \in [Tasks -> TcbType],
         ecb' \in [Events -> EcbType], ring' \in [Events -> RingType],
         at' \in [Tasks -> {"run", "sched", "block", "wake"}],
         UNCHANGED running, UNCHANGED nesting
  PROVE  TypeOK'
  BY DEF TypeOK, TcbType, EcbType, RingType, running, nesting

LEMMA ItemsStep ==
  ASSUME IInv, ~Astray, InCode, NEW e \in Events, OnlyItems(e),
         UNCHANGED <<OSRdyTbl, tables, tcb, at, running, nesting>>,
         Waiters(e) = {} \/ Contents(e)' = <<>>
  PROVE  IInv'
<1> USE DEF IInv
<1>1. /\ OSRdyTbl' = OSRdyTbl /\ OSTCBPrioTbl' = OSTCBPrioTbl /\ OSTCBList' = OSTCBList
      /\ tcb' = tcb /\ at' = at /\ UNCHANGED running /\ UNCHANGED nesting
      /\ tick' = tick /\ OSIntNesting' = OSIntNesting /\ OSLockNesting' = OSLockNesting
      /\ stray' = stray /\ ~stray
  BY DEF tables, nesting, Astray
<1>2. TypeOK'
  <2>1. tcb' \in [Tasks -> TcbType] /\ OSRdyTbl' \subseteq Prios
        /\ at' \in [Tasks -> {"run", "sched", "block", "wake"}]
    BY <1>1, Typed
  <2> QED BY <1>1, <2>1, TypeOfParts DEF OnlyItems
<1>3. PrioInv' /\ ListInv' /\ \A t : Exists(t)' <=> Exists(t)
  BY <1>1, SameTasks DEF ListInv
<1>4. ReadyIffRunnable' BY <1>1, SameReady
<1>5. PendInv'
  <2> SUFFICES ASSUME NEW t \in Tasks PROVE PendState(t)' BY DEF PendInv
  <2>1. PendState(t) BY DEF PendInv
  <2>2. Pends(t)' = Pends(t) BY <1>1 DEF Pends
  <2>3. Pends(t) # {} => tcb[t].ev \in Events
    BY <2>1, TaskTyped DEF PendState
  <2>4. Pends(t) # {} => ecb'[tcb[t].ev].type = ecb[tcb[t].ev].type
    BY <2>3 DEF OnlyItems
  <2> QED BY <1>1, <1>3, <2>1, <2>2, <2>4 DEF PendState
<1>6. WaitInv'
  <2>1. \A t, x : Listed(t, x)' <=> Listed(t, x) BY <1>1, <1>3 DEF Listed, Pends
  <2> QED BY <1>1, <1>3, <2>1 DEF WaitInv, OnlyItems
<1>7. RunInv' /\ HighestRuns'
  <2>1. OSIntNesting = 0 => at'[cur] = "run" BY <1>1, InCodeCases, InTaskExists
  <2> QED BY <1>1, <1>3, <2>1, SameRunning, InCodeCases
<1>8. RingInv' BY DEF OnlyItems
<1>9. NoneWaitsInVain'
  <2> SUFFICES ASSUME NEW x \in Events, Waiters(x)' # {} PROVE Contents(x)' = <<>>
    BY DEF NoneWaitsInVain
  <2>1. Waiters(x) # {} BY DEF Waiters, OnlyItems
  <2>2. Contents(x) = <<>> BY <1>1, <2>1 DEF NoneWaitsInVain
  <2>3. CASE x = e BY <2>1, <2>3
  <2>4. CASE x # e BY <2>2, <2>4 DEF OnlyItems
  <2> QED BY <2>3, <2>4
<1> QED BY <1>2, <1>3, <1>4, <1>5, <1>6, <1>7, <1>8, <1>9

LEMMA TakeStep ==
  ASSUME IInv, ~Astray, InCode, NEW e \in Events, Take(e),
         UNCHANGED <<OSRdyTbl, tables, tcb, at, running, nesting>>
  PROVE  IInv'
<1>1. OnlyItems(e) /\ Contents(e) # <<>> BY TakeRemoves DEF IInv
<1>2. Waiters(e) = {} BY <1>1 DEF IInv, NoneWaitsInVain, Astray
<1> QED BY <1>1, <1>2, ItemsStep

LEMMA AddStep ==
  ASSUME IInv, ~Astray, InCode, NEW e \in Events, NEW m \in Items,
         ecb[e].type = "q" => m \in Msgs, Waiters(e) = {}, Add(e, m),
         UNCHANGED <<OSRdyTbl, tables, tcb, at, running, nesting>>
  PROVE  IInv'
<1>1. OnlyItems(e) BY AddAppends DEF IInv
<1> QED BY <1>1, ItemsStep

\* What OSQPostFront, OSQFlush and OSSemSet do to the items.
LEMMA PutFrontPrepends ==
  ASSUME IInv, NEW e \in Events, NEW m \in Msgs, ecb[e].type = "q",
         Len(Contents(e)) < QSize, ecb' = ecb,
         ring' = [ring EXCEPT ![e] = RingPutFront(@, m)]
  PROVE  OnlyItems(e) /\ Contents(e)' = <<m>> \o Contents(e)
<1>1. ring[e].entries < QSize BY ContentsSeq DEF IInv
<1>2. PICK r : r = RingPutFront(ring[e], m) OBVIOUS
<1>3. RingSound(r) /\ RingItems(r) = <<m>> \o RingItems(ring[e])
  BY <1>1, <1>2, RingsSound, RingPutFrontPrepends DEF IInv
<1>4. ring' = [ring EXCEPT ![e] = r] BY <1>2
<1>5. OnlyItems(e) /\ Contents(e)' = RingItems(r) BY <1>3, <1>4, SetRing DEF IInv
<1> QED BY <1>3, <1>5 DEF Contents

LEMMA FlushEmpties ==
  ASSUME IInv, NEW e \in Events, ecb[e].type = "q", ecb' = ecb,
         ring' = [ring EXCEPT ![e] = EmptyRing]
  PROVE  OnlyItems(e) /\ Contents(e)' = <<>>
  BY EmptyRingSound, SetRing DEF IInv

LEMMA SetCount ==
  ASSUME IInv, NEW e \in Events, ecb[e].type = "sem", NEW k \in Nat,
         ecb' = [ecb EXCEPT ![e].items = Units(k)], ring' = ring
  PROVE  OnlyItems(e) /\ Contents(e)' = Units(k)
<1>1. PICK s : s = Units(k) OBVIOUS
<1>2. s \in Seq(Items) BY <1>1, UnitsTyped
<1> QED BY <1>1, <1>2, SetItems DEF IInv

LEMMA FlushStep ==
  ASSUME IInv, ~Astray, NEW e \in Events, OSQFlush(e) PROVE IInv'
<1>1. OnlyItems(e) /\ Contents(e)' = <<>> BY FlushEmpties DEF OSQFlush
<1> QED BY <1>1, ItemsStep DEF OSQFlush

LEMMA SemSetStep ==
  ASSUME IInv, ~Astray, NEW e \in Events, OSSemSet(e) PROVE IInv'
<1>1. PICK k \in 0..SemMax :
        /\ InCode /\ ecb[e].type = "sem"
        /\ ecb[e].items # <<>> \/ Waiters(e) = {}
        /\ ecb' = [ecb EXCEPT ![e].items = Units(k)]
        /\ UNCHANGED <<OSRdyTbl, tables, tcb, ring, at, running, nesting>>
  BY DEF OSSemSet
<1>2. k \in Nat BY SizeAssumption
<1>3. OnlyItems(e) BY <1>1, <1>2, SetCount
<1>4. Waiters(e) = {}
  <2>1. Contents(e) = ecb[e].items BY <1>1 DEF Contents
  <2> QED BY <1>1, <2>1 DEF IInv, NoneWaitsInVain, Astray
<1> QED BY <1>1, <1>3, <1>4, ItemsStep

-----------------------------------------------------------------------------
(* Steps that ready tasks. *)

\* A task on a waiting list is in a pend of that event, and has no message.
LEMMA WaiterFacts ==
  ASSUME IInv, ~Astray, NEW e \in Events, NEW t \in Tasks, Exists(t),
         tcb[t].prio \in Waiters(e)
  PROVE  /\ at[t] \in {"block", "wake"} /\ tcb[t].ev = e
         /\ Pends(t) \subseteq {ecb[e].type}
         /\ Hand(t) = NoMsg /\ (InTask => t # cur)
<1>1. Listed(t, e) BY DEF IInv, WaitInv, Astray, Waiters
<1>2. PendState(t) BY DEF IInv, PendInv
<1>3. at[t] \in {"block", "wake"} /\ tcb[t].ev = e BY <1>1 DEF Listed
<1>4. Pends(t) \subseteq {ecb[e].type} BY <1>2, <1>3 DEF PendState
<1>5. Hand(t) = NoMsg BY <1>1, <1>2 DEF Hand, Result, Listed, PendState
<1>6. InTask => t # cur BY <1>3 DEF InTask
<1> QED BY <1>3, <1>4, <1>5, <1>6

LEMMA WokenFacts ==
  ASSUME IInv, ~Astray, NEW e \in Events, NEW P \in SUBSET Waiters(e),
         NEW m \in Vals, NEW result \in {"ok", "abort"}, Readied(e, P, m, result)
  PROVE  /\ tcb' \in [Tasks -> TcbType] /\ OSRdyTbl' \subseteq Prios
         /\ \A p \in P : OSTCBPrioTbl[p] # NoTask
         /\ \A t \in Tasks : tcb'[t].prio = tcb[t].prio /\ tcb'[t].ev = tcb[t].ev
         /\ \A t \in Tasks : t \in Woken(P) <=> Exists(t) /\ tcb[t].prio \in P
         /\ \A t \in Tasks : t \notin Woken(P) => tcb'[t] = tcb[t]
         /\ \A t \in Woken(P) :
              /\ t \in Tasks /\ tcb'[t].dly = 0 /\ tcb'[t].msg = m /\ tcb'[t].pend = result
              /\ tcb'[t].stat = tcb[t].stat \ {ecb[e].type} /\ Pends(t)' = {}
<1> USE DEF IInv
<1>1. P \subseteq Prios /\ \A p \in P : OSTCBPrioTbl[p] # NoTask
  BY EventTyped DEF WaitInv, Astray, Waiters
<1>2. \A t \in Tasks : t \in Woken(P) <=> Exists(t) /\ tcb[t].prio \in P
  BY <1>1, WokenIff
<1>3. Woken(P) \subseteq Tasks BY <1>1, Typed DEF Woken
<1>4. ASSUME NEW t \in Tasks, t \in Woken(P)
      PROVE  /\ tcb'[t] \in TcbType /\ tcb'[t].prio = tcb[t].prio /\ tcb'[t].ev = tcb[t].ev
             /\ tcb'[t].dly = 0 /\ tcb'[t].msg = m /\ tcb'[t].pend = result
             /\ tcb'[t].stat = tcb[t].stat \ {ecb[e].type} /\ Pends(t)' = {}
  <2>1. tcb'[t] = [tcb[t] EXCEPT !.dly = 0, !.msg = m, !.pend = result,
                                 !.stat = @ \ {ecb[e].type}]
    BY <1>4 DEF Readied
  <2>2. tcb[t] \in TcbType BY TaskTyped
  <2>3. /\ tcb'[t].prio = tcb[t].prio /\ tcb'[t].ev = tcb[t].ev
        /\ tcb'[t].dly = 0 /\ tcb'[t].msg = m /\ tcb'[t].pend = result
        /\ tcb'[t].stat = tcb[t].stat \ {ecb[e].type}
    BY <2>1, <2>2 DEF TcbType
  <2>4. tcb'[t] \in TcbType
    <3>1. 0 \in 0..MaxDly BY SizeAssumption
    <3>2. tcb[t].stat \ {ecb[e].type} \in SUBSET (Types \cup {"suspend"}) BY TaskTyped
    <3> QED BY <2>1, <2>2, <3>1, <3>2 DEF TcbType, Vals
  <2>5. Pends(t) \subseteq {ecb[e].type} BY <1>2, <1>4, WaiterFacts
  <2>6. Pends(t)' = {} BY <2>3, <2>5 DEF Pends
  <2> QED BY <2>3, <2>4, <2>6
<1>5. \A t \in Tasks : t \notin Woken(P) => tcb'[t] = tcb[t] BY DEF Readied
<1>6. tcb' \in [Tasks -> TcbType]
  <2>1. \A t \in Tasks : tcb'[t] \in TcbType BY <1>4, <1>5, TaskTyped
  <2>2. tcb' = [t \in Tasks |-> tcb'[t]] BY DEF Readied
  <2> QED BY <2>1, <2>2
<1>7. OSRdyTbl' \subseteq Prios BY <1>1, Typed DEF Readied
<1> QED BY <1>1, <1>2, <1>3, <1>4, <1>5, <1>6, <1>7

LEMMA ReadiedStep ==
  ASSUME IInv, ~Astray, InCode, NEW e \in Events, NEW P \in SUBSET Waiters(e),
         NEW m \in Vals, NEW result \in {"ok", "abort"}, Readied(e, P, m, result),
         ecb' \in [Events -> EcbType], ring' \in [Events -> RingType], RingInv',
         ecb'[e].wait = Waiters(e) \ P, \A x \in Events : x # e => ecb'[x] = ecb[x],
         ecb'[e].type = ecb[e].type \/ P = Waiters(e),
         \A x \in Events : Waiters(x)' # {} => Contents(x)' = Contents(x),
         UNCHANGED <<tables, running, nesting>>,
         at' = IF P = {} \/ OSIntNesting > 0 THEN at ELSE [at EXCEPT ![cur] = "sched"],
         ecb[e].type # "unused"
  PROVE  IInv'
<1> USE DEF IInv
<1>1. /\ OSTCBPrioTbl' = OSTCBPrioTbl /\ OSTCBList' = OSTCBList
      /\ UNCHANGED running /\ UNCHANGED nesting
      /\ tick' = tick /\ OSIntNesting' = OSIntNesting /\ OSLockNesting' = OSLockNesting
      /\ stray' = stray /\ ~stray
  BY DEF tables, nesting, Astray
<1>2. /\ tcb' \in [Tasks -> TcbType] /\ OSRdyTbl' \subseteq Prios
      /\ \A p \in P : OSTCBPrioTbl[p] # NoTask
      /\ \A t \in Tasks : tcb'[t].prio = tcb[t].prio /\ tcb'[t].ev = tcb[t].ev
      /\ \A t \in Tasks : t \in Woken(P) <=> Exists(t) /\ tcb[t].prio \in P
      /\ \A t \in Tasks : t \notin Woken(P) => tcb'[t] = tcb[t]
      /\ \A t \in Woken(P) :
           /\ t \in Tasks /\ tcb'[t].dly = 0 /\ tcb'[t].msg = m /\ tcb'[t].pend = result
           /\ tcb'[t].stat = tcb[t].stat \ {ecb[e].type} /\ Pends(t)' = {}
  BY WokenFacts
<1>3. \A t \in Woken(P) : at[t] \in {"block", "wake"} /\ tcb[t].ev = e
                          /\ Pends(t) \subseteq {ecb[e].type} /\ (InTask => t # cur)
  BY <1>2, WaiterFacts
<1>4. \A t \in Tasks : \/ at'[t] = at[t]
                       \/ t = cur /\ InTask /\ at[t] = "run" /\ at'[t] = "sched"
  <2>1. at' = at \/ at' = [at EXCEPT ![cur] = "sched"] OBVIOUS
  <2>2. at' # at => InTask /\ at[cur] = "run"
    BY InCodeCases, InTaskExists DEF TypeOK
  <2> QED BY <2>1, <2>2, Typed
<1>5. at' \in [Tasks -> {"run", "sched", "block", "wake"}] BY Typed
<1>6. TypeOK' BY <1>1, <1>2, <1>5, TypeOfParts
<1>7. PrioInv' /\ ListInv' /\ \A t : Exists(t)' <=> Exists(t)
  BY <1>1, <1>2, SameTasks DEF ListInv
<1>8. \A t \in Tasks : t \notin Woken(P) => Pends(t)' = Pends(t) BY <1>2 DEF Pends
<1>9. \A t \in Woken(P) : at'[t] = at[t] BY <1>2, <1>3, <1>4
<1>10. ReadyIffRunnable'
  <2>1. ASSUME NEW t \in Tasks, Exists(t)'
        PROVE  tcb'[t].prio \in OSRdyTbl' <=> Runnable(t)'
    <3>1. Exists(t) /\ OSTCBPrioTbl[tcb[t].prio] = t BY <1>7, <2>1 DEF Exists
    <3>2. tcb[t].prio \in OSRdyTbl <=> Runnable(t) BY <3>1 DEF ReadyIffRunnable
    <3>3. CASE t \notin Woken(P)
      <4>1. Runnable(t)' <=> Runnable(t) BY <1>2, <3>3 DEF Runnable
      <4>2. tcb[t].prio \in OSRdyTbl' <=> tcb[t].prio \in OSRdyTbl
        BY <1>2, <3>1, <3>3 DEF Readied
      <4> QED BY <1>2, <3>2, <4>1, <4>2
    <3>4. CASE t \in Woken(P)
      <4>1. tcb[t].prio \in P BY <1>2, <3>4
      <4>2. tcb[t].prio \in OSRdyTbl' <=> tcb[t].prio \in OSRdyTbl \/ "suspend" \notin tcb[t].stat
        BY <3>1, <4>1 DEF Readied
      <4>3. Runnable(t)' <=> tcb[t].stat \ {ecb[e].type} = {} BY <1>2, <3>4 DEF Runnable
      <4>4. tcb[t].stat \ {ecb[e].type} = {} <=> "suspend" \notin tcb[t].stat
        <5>1. "suspend" \notin {ecb[e].type} BY EventTyped, TypesAssumption
        <5>2. tcb[t].stat \subseteq Types \cup {"suspend"} BY TaskTyped
        <5>3. tcb[t].stat \cap Types \subseteq {ecb[e].type} BY <1>3, <3>4 DEF Pends
        <5> QED BY <5>1, <5>2, <5>3
      <4>5. Runnable(t) => "suspend" \notin tcb[t].stat BY DEF Runnable
      <4> QED BY <1>2, <3>2, <4>2, <4>3, <4>4, <4>5
    <3> QED BY <3>3, <3>4
  <2>2. \A p \in OSRdyTbl' : OSTCBPrioTbl'[p] # NoTask
    BY <1>1, <1>2 DEF Readied, ReadyIffRunnable
  <2> QED BY <2>1, <2>2 DEF ReadyIffRunnable
<1>11. PendInv'
  <2> SUFFICES ASSUME NEW t \in Tasks PROVE PendState(t)' BY DEF PendInv
  <2>1. PendState(t) BY DEF PendInv
  <2>2. CASE t \in Woken(P)
    <3>1. /\ Pends(t)' = {} /\ tcb'[t].dly = 0 /\ at'[t] \in {"block", "wake"}
          /\ tcb'[t].ev = e /\ Exists(t)'
      BY <1>2, <1>3, <1>7, <1>9, <2>2
    <3> QED BY <3>1 DEF PendState
  <2>3. CASE t \notin Woken(P)
    <3>1. tcb'[t] = tcb[t] /\ Pends(t)' = Pends(t) /\ (Exists(t)' <=> Exists(t))
      BY <1>2, <1>7, <1>8, <2>3
    <3>2. Pends(t) # {} => ecb'[tcb[t].ev].type = ecb[tcb[t].ev].type
      <4> SUFFICES ASSUME Pends(t) # {}
          PROVE  ecb'[tcb[t].ev].type = ecb[tcb[t].ev].type
        OBVIOUS
      <4>1. at[t] \in {"block", "wake"} /\ Exists(t) /\ tcb[t].ev \in Events
        BY <2>1, TaskTyped DEF PendState
      <4>2. CASE tcb[t].ev # e BY <4>1, <4>2
      <4>3. CASE tcb[t].ev = e /\ P = Waiters(e)
        <5>1. Listed(t, e) BY <4>1, <4>3 DEF Listed
        <5>2. tcb[t].prio \in P BY <1>1, <4>1, <4>3, <5>1 DEF WaitInv, Waiters
        <5> QED BY <1>2, <2>3, <4>1, <5>2
      <4> QED BY <4>2, <4>3
    <3>3. \/ at'[t] = at[t]
          \/ at[t] = "run" /\ at'[t] = "sched"
      BY <1>4
    <3> QED BY <2>1, <3>1, <3>2, <3>3 DEF PendState
  <2> QED BY <2>2, <2>3
<1>12. WaitInv'
  <2>1. ASSUME NEW x \in Events, NEW t \in Tasks, Exists(t)
        PROVE  tcb[t].prio \in ecb'[x].wait <=> Listed(t, x)'
    <3>1. tcb[t].prio \in ecb[x].wait <=> Listed(t, x) BY <1>1, <2>1 DEF WaitInv
    <3>2. CASE t \in Woken(P)
      <4>1. ~Listed(t, x)' BY <1>2, <3>2 DEF Listed
      <4>2. x # e => ~Listed(t, x) BY <1>3, <3>2 DEF Listed
      <4>3. tcb[t].prio \in P BY <1>2, <3>2
      <4> QED BY <3>1, <4>1, <4>2, <4>3
    <3>3. CASE t \notin Woken(P)
      <4>1. tcb[t].prio \notin P BY <1>2, <2>1, <3>3
      <4>2. tcb[t].prio \in ecb'[x].wait <=> tcb[t].prio \in ecb[x].wait
        BY <4>1 DEF Waiters
      <4>3. at'[t] \in {"block", "wake"} <=> at[t] \in {"block", "wake"} BY <1>4
      <4>4. Listed(t, x)' <=> Listed(t, x)
        BY <1>2, <1>7, <1>8, <3>3, <4>3 DEF Listed
      <4> QED BY <3>1, <4>2, <4>4
    <3> QED BY <3>2, <3>3
  <2>2. ASSUME NEW x \in Events
        PROVE  /\ \A p \in ecb'[x].wait : OSTCBPrioTbl[p] # NoTask
               /\ ecb'[x].type = "unused" => ecb'[x].wait = {}
    BY <1>1 DEF WaitInv, Waiters
  <2> QED BY <1>1, <1>2, <1>7, <2>1, <2>2 DEF WaitInv
<1>13. RunInv' /\ HighestRuns'
  <2>1. OSIntNesting > 0 => at' = at OBVIOUS
  <2>2. OSIntNesting = 0 => \/ at'[cur] = "sched"
                            \/ /\ at'[cur] = "run" /\ OSRdyTbl' = OSRdyTbl
                               /\ tcb'[cur].prio = tcb[cur].prio
    <3> SUFFICES ASSUME OSIntNesting = 0 PROVE \/ at'[cur] = "sched"
                            \/ /\ at'[cur] = "run" /\ OSRdyTbl' = OSRdyTbl
                               /\ tcb'[cur].prio = tcb[cur].prio
      OBVIOUS
    <3>1. cur \in Tasks /\ at[cur] = "run" BY InCodeCases, InTaskExists
    <3>2. CASE P = {}
      <4>1. OSRdyTbl' = OSRdyTbl BY <3>2 DEF Readied
      <4> QED BY <1>2, <3>1, <3>2, <4>1
    <3>3. CASE P # {} BY <3>1, <3>3, Typed
    <3> QED BY <3>2, <3>3
  <2> QED BY <1>1, <1>7, <2>1, <2>2, SameRunning, InCodeCases
<1>14. NoneWaitsInVain'
  <2> SUFFICES ASSUME NEW x \in Events, Waiters(x)' # {} PROVE Contents(x)' = <<>>
    BY DEF NoneWaitsInVain
  <2>1. Waiters(x) # {} BY DEF Waiters
  <2> QED BY <1>1, <2>1 DEF NoneWaitsInVain
<1> QED BY <1>6, <1>7, <1>10, <1>11, <1>12, <1>13, <1>14

\* A post or an abort readies the highest waiter, or all of them.
LEMMA ChosenWaiters ==
  ASSUME IInv, NEW e \in Events, Waiters(e) # {}, NEW b \in BOOLEAN
  PROVE  Chosen(e, b) \in SUBSET Waiters(e) /\ Chosen(e, b) # {}
<1>1. Waiters(e) \in SUBSET Nat BY EventTyped, PrioAssumption DEF IInv, Waiters
<1>2. Lowest(Waiters(e)) \in Waiters(e) BY <1>1, LowestIn
<1> QED BY <1>2 DEF Chosen

LEMMA TaskRdyStep ==
  ASSUME IInv, ~Astray, InCode, NEW e \in Events, Waiters(e) # {}, NEW b \in BOOLEAN,
         NEW m \in Vals, NEW result \in {"ok", "abort"},
         OS_EventTaskRdy(e, Chosen(e, b), m, result), ThenSched, ring' = ring,
         UNCHANGED <<tables, running, nesting>>
  PROVE  /\ IInv'
         /\ \A x \in Events : ecb'[x].type = ecb[x].type /\ ecb'[x].items = ecb[x].items
<1>1. PICK P : P = Chosen(e, b) OBVIOUS
<1>2. P \in SUBSET Waiters(e) /\ P # {} BY <1>1, ChosenWaiters
<1>3. Readied(e, P, m, result) /\ ecb' = [ecb EXCEPT ![e].wait = Waiters(e) \ P]
  BY <1>1, Typed DEF OS_EventTaskRdy, IInv, Waiters
<1>4. ecb \in [Events -> EcbType] /\ ring \in [Events -> RingType] BY Typed DEF IInv
<1>5. ecb' \in [Events -> EcbType]
  <2>1. Waiters(e) \ P \in SUBSET Prios BY EventTyped DEF IInv, Waiters
  <2> QED BY <1>3, <1>4, <2>1 DEF EcbType
<1>6. ecb'[e].wait = Waiters(e) \ P /\ \A x \in Events : x # e => ecb'[x] = ecb[x]
  BY <1>3, <1>4 DEF EcbType
<1>7. \A x \in Events : ecb'[x].type = ecb[x].type /\ ecb'[x].items = ecb[x].items
  BY <1>3, <1>4 DEF EcbType
<1>8. \A x \in Events : Contents(x)' = Contents(x) BY <1>7, SameContents
<1>9. RingInv' BY DEF IInv, RingInv
<1>10. ecb[e].type # "unused" BY DEF IInv, WaitInv, Astray, Waiters
<1>11. at' = IF P = {} \/ OSIntNesting > 0 THEN at ELSE [at EXCEPT ![cur] = "sched"]
  BY <1>2 DEF ThenSched, IInv, TypeOK
<1>12. /\ ring' \in [Events -> RingType]
       /\ ecb'[e].type = ecb[e].type \/ P = Waiters(e)
       /\ \A x \in Events : Waiters(x)' # {} => Contents(x)' = Contents(x)
  BY <1>4, <1>7, <1>8
<1>13. Readied(e, P, m, result) BY <1>3
<1>14. IInv'
  BY ONLY IInv, ~Astray, InCode, UNCHANGED <<tables, running, nesting>>, m \in Vals,
     result \in {"ok", "abort"}, e \in Events, <1>2, <1>13, <1>5, <1>6, <1>9, <1>10, <1>11,
     <1>12, ReadiedStep
<1> QED BY <1>7, <1>14

LEMMA HandedStep ==
  ASSUME IInv, ~Astray, InCode, NEW e \in Events, NEW m \in Items, NEW b \in BOOLEAN,
         Handed(e, m, b), UNCHANGED <<tables, running, nesting>>
  PROVE  IInv'
  BY TaskRdyStep DEF Handed, Vals

LEMMA PendAbortStep ==
  ASSUME IInv, ~Astray, NEW e \in Events, NEW type, PendAbort(e, type)
  PROVE  IInv'
<1>1. PICK b \in BOOLEAN :
        /\ InCode /\ Waiters(e) # {} /\ OS_EventTaskRdy(e, Chosen(e, b), NoMsg, "abort")
        /\ ThenSched /\ UNCHANGED <<tables, ring, running, nesting>>
  BY DEF PendAbort
<1>2. NoMsg \in Vals BY DEF Vals
<1> QED BY <1>1, <1>2, TaskRdyStep

LEMMA PostStep ==
  ASSUME IInv, ~Astray, NEW e \in Events, NEW type \in {"mbox", "q", "sem"},
         NEW m \in Items, type = "q" => m \in Msgs, NEW b \in BOOLEAN, Post(e, type, m, b)
  PROVE  IInv'
<1>1. CASE Handed(e, m, b) BY <1>1, HandedStep DEF Post
<1>2. CASE /\ Waiters(e) = {} /\ Add(e, m) /\ UNCHANGED <<OSRdyTbl, tcb, at>>
  BY <1>2, AddStep DEF Post
<1>3. CASE Refused(e, m) BY <1>3, SameIInv DEF Post, Refused
<1> QED BY <1>1, <1>2, <1>3 DEF Post

LEMMA PostFrontStep ==
  ASSUME IInv, ~Astray, NEW e \in Events, OSQPostFront(e) PROVE IInv'
<1>1. PICK m \in Msgs :
        /\ InCode /\ ecb[e].type = "q"
        /\ \/ Handed(e, m, FALSE)
           \/ /\ Waiters(e) = {} /\ Len(Contents(e)) < QSize
              /\ ring' = [ring EXCEPT ![e] = RingPutFront(@, m)]
              /\ UNCHANGED <<OSRdyTbl, tcb, at, ecb>>
           \/ Refused(e, m)
        /\ UNCHANGED <<tables, running, nesting>>
  BY DEF OSQPostFront
<1>2. CASE Handed(e, m, FALSE) BY <1>1, <1>2, HandedStep DEF Items
<1>3. CASE /\ Waiters(e) = {} /\ Len(Contents(e)) < QSize
           /\ ring' = [ring EXCEPT ![e] = RingPutFront(@, m)]
           /\ UNCHANGED <<OSRdyTbl, tcb, at, ecb>>
  <2>1. OnlyItems(e) BY <1>1, <1>3, PutFrontPrepends
  <2> QED BY <1>1, <1>3, <2>1, ItemsStep
<1>4. CASE Refused(e, m) BY <1>1, <1>4, SameIInv DEF Refused
<1> QED BY <1>1, <1>2, <1>3, <1>4

\* A deleted event has no items and no waiters.
LEMMA DelClears ==
  ASSUME IInv, NEW e \in Events, ecb' = [ecb EXCEPT ![e] = FreeEcb],
         ring' = [ring EXCEPT ![e] = EmptyRing]
  PROVE  /\ ecb' \in [Events -> EcbType] /\ ring' \in [Events -> RingType] /\ RingInv'
         /\ ecb'[e].type = "unused" /\ ecb'[e].wait = {} /\ Contents(e)' = <<>>
         /\ \A x \in Events : x # e => ecb'[x] = ecb[x] /\ Contents(x)' = Contents(x)
<1>1. ecb \in [Events -> EcbType] /\ ring \in [Events -> RingType] BY Typed DEF IInv
<1>2. FreeEcb \in EcbType BY EmptySeq DEF FreeEcb, EcbType
<1>3. EmptyRing \in RingType /\ EmptyRing.in = Wrap(EmptyRing.out + EmptyRing.entries)
  BY EmptyRingSound DEF RingSound
<1>4. /\ ecb' \in [Events -> EcbType] /\ ecb'[e] = FreeEcb
      /\ \A x \in Events : x # e => ecb'[x] = ecb[x]
  BY <1>1, <1>2
<1>5. /\ ring' \in [Events -> RingType] /\ ring'[e] = EmptyRing
      /\ \A x \in Events : x # e => ring'[x] = ring[x]
  BY <1>1, <1>3
<1>6. RingInv' BY <1>3, <1>5 DEF IInv, RingInv
<1>7. ecb'[e].type = "unused" /\ ecb'[e].wait = {} /\ ecb'[e].items = <<>>
  BY <1>4 DEF FreeEcb
<1>8. Contents(e)' = <<>> BY <1>7 DEF Contents
<1>9. \A x \in Events : x # e => Contents(x)' = Contents(x) BY <1>4, <1>5, SameContents
<1> QED BY <1>4, <1>5, <1>6, <1>7, <1>8, <1>9

LEMMA DelStep ==
  ASSUME IInv, ~Astray, NEW e \in Events, NEW type \in {"mbox", "q", "sem"}, Del(e, type)
  PROVE  IInv'
<1>1. /\ InTask /\ ecb[e].type = type /\ Readied(e, Waiters(e), NoMsg, "ok")
      /\ ecb' = [ecb EXCEPT ![e] = FreeEcb] /\ ring' = [ring EXCEPT ![e] = EmptyRing]
      /\ at' = IF Waiters(e) # {} THEN [at EXCEPT ![cur] = "sched"] ELSE at
      /\ UNCHANGED <<tables, running, nesting>>
  BY DEF Del
<1>2. PICK P : P = Waiters(e) OBVIOUS
<1>3. /\ ecb' \in [Events -> EcbType] /\ ring' \in [Events -> RingType] /\ RingInv'
      /\ ecb'[e].wait = {}
      /\ \A x \in Events : x # e => ecb'[x] = ecb[x] /\ Contents(x)' = Contents(x)
  BY <1>1, DelClears
<1>4. \A x \in Events : Waiters(x)' # {} => Contents(x)' = Contents(x)
  BY <1>3 DEF Waiters
<1>5. at' = IF P = {} \/ OSIntNesting > 0 THEN at ELSE [at EXCEPT ![cur] = "sched"]
  BY <1>1, <1>2 DEF InTask
<1>6. InCode /\ NoMsg \in Vals /\ ecb[e].type # "unused" BY <1>1 DEF InCode, Vals
<1>7. P \in SUBSET Waiters(e) /\ ecb'[e].wait = Waiters(e) \ P BY <1>2, <1>3
<1> QED BY <1>1, <1>2, <1>3, <1>4, <1>5, <1>6, <1>7, ReadiedStep
-----------------------------------------------------------------------------
(* Creating an event. *)

LEMMA CreateStep ==
  ASSUME IInv, ~Astray, NEW e \in Events, NEW type, NEW s \in Seq(Items), Create(e, type, s)
  PROVE  /\ IInv'
         /\ \A x \in Events : x # e => Contents(x)' = Contents(x)
         /\ Contents(e)' = IF type = "q" THEN <<>> ELSE s
<1> USE DEF IInv
<1> DEFINE b == [type |-> type, items |-> s, wait |-> {}]
<1>1. /\ InTask /\ type \in Types /\ ecb[e].type = "unused"
      /\ ecb' = [ecb EXCEPT ![e] = b] /\ ring' = [ring EXCEPT ![e] = EmptyRing]
      /\ OSRdyTbl' = OSRdyTbl /\ OSTCBPrioTbl' = OSTCBPrioTbl /\ OSTCBList' = OSTCBList
      /\ tcb' = tcb /\ at' = at /\ UNCHANGED running /\ UNCHANGED nesting
      /\ tick' = tick /\ OSIntNesting' = OSIntNesting /\ OSLockNesting' = OSLockNesting
      /\ stray' = stray /\ ~stray
  BY DEF Create, tables, nesting, Astray
<1>2. ecb \in [Events -> EcbType] /\ ring \in [Events -> RingType] BY Typed
<1>3. b \in EcbType BY <1>1 DEF EcbType
<1>4. EmptyRing \in RingType /\ EmptyRing.in = Wrap(EmptyRing.out + EmptyRing.entries)
      /\ RingItems(EmptyRing) = <<>>
  BY EmptyRingSound DEF RingSound
<1>5. /\ ecb' \in [Events -> EcbType] /\ ecb'[e].type = type /\ ecb'[e].wait = {}
      /\ ecb'[e].items = s /\ \A x \in Events : x # e => ecb'[x] = ecb[x]
  BY <1>1, <1>2, <1>3
<1>6. /\ ring' \in [Events -> RingType] /\ ring'[e] = EmptyRing
      /\ \A x \in Events : x # e => ring'[x] = ring[x]
  BY <1>1, <1>2, <1>4
<1>7. \A x \in Events : x # e => Contents(x)' = Contents(x) BY <1>5, <1>6, SameContents
<1>8. Contents(e)' = IF type = "q" THEN <<>> ELSE s BY <1>4, <1>5, <1>6 DEF Contents
<1>9. TypeOK'
  <2>1. tcb' \in [Tasks -> TcbType] /\ OSRdyTbl' \subseteq Prios
        /\ at' \in [Tasks -> {"run", "sched", "block", "wake"}]
    BY <1>1, Typed
  <2> QED BY <1>1, <1>5, <1>6, <2>1, TypeOfParts
<1>10. PrioInv' /\ ListInv' /\ \A t : Exists(t)' <=> Exists(t)
  BY <1>1, SameTasks DEF ListInv
<1>11. ReadyIffRunnable' BY <1>1, SameReady
<1>12. PendInv'
  <2> SUFFICES ASSUME NEW t \in Tasks PROVE PendState(t)' BY DEF PendInv
  <2>1. PendState(t) BY DEF PendInv
  <2>2. Pends(t)' = Pends(t) BY <1>1 DEF Pends
  <2>3. Pends(t) # {} => ecb'[tcb[t].ev].type = ecb[tcb[t].ev].type
    <3> SUFFICES ASSUME Pends(t) # {} PROVE ecb'[tcb[t].ev].type = ecb[tcb[t].ev].type
      OBVIOUS
    <3>1. tcb[t].ev \in Events BY <2>1, TaskTyped DEF PendState
    <3>2. tcb[t].ev # e
      <4>1. "unused" \notin Types BY TypesAssumption
      <4> QED BY <1>1, <2>1, <4>1, TaskTyped DEF PendState
    <3> QED BY <1>5, <3>1, <3>2
  <2> QED BY <1>1, <1>10, <2>1, <2>2, <2>3 DEF PendState
<1>13. WaitInv'
  <2>1. \A t, x : Listed(t, x)' <=> Listed(t, x) BY <1>1, <1>10 DEF Listed, Pends
  <2>2. \A x \in Events : ecb'[x].wait = ecb[x].wait
                          /\ (ecb'[x].type = "unused" => ecb[x].type = "unused")
    BY <1>1, <1>5 DEF WaitInv
  <2> QED BY <1>1, <1>10, <2>1, <2>2 DEF WaitInv
<1>14. RunInv' /\ HighestRuns'
  <2>1. InCode BY <1>1 DEF InCode
  <2>2. OSIntNesting = 0 => at'[cur] = "run" BY <1>1, InTaskExists
  <2> QED BY <1>1, <1>10, <2>1, <2>2, SameRunning, InCodeCases
<1>15. RingInv' BY <1>4, <1>6 DEF RingInv
<1>16. NoneWaitsInVain'
  <2> SUFFICES ASSUME NEW x \in Events, Waiters(x)' # {} PROVE Contents(x)' = <<>>
    BY DEF NoneWaitsInVain
  <2>1. x # e BY <1>5 DEF Waiters
  <2>2. Waiters(x) # {} BY <1>5, <2>1 DEF Waiters
  <2> QED BY <1>1, <1>7, <2>1, <2>2 DEF NoneWaitsInVain
<1> QED BY <1>7, <1>8, <1>9, <1>10, <1>11, <1>12, <1>13, <1>14, <1>15, <1>16

-----------------------------------------------------------------------------
(* Steps that change the control block of one task. *)

LEMMA OneTaskStep ==
  ASSUME IInv, ~Astray, NEW t \in Tasks, Exists(t), NEW o \in TcbType,
         o.prio = tcb[t].prio, tcb' = [tcb EXCEPT ![t] = o],
         UNCHANGED <<tables, ring, running, OSIntNesting, OSLockNesting, stray>>,
         tick' \in 0..Len(OSTCBList), tick' > 0 => OSIntNesting > 0,
         \A p \in OSRdyTbl' : p \in OSRdyTbl \/ p = o.prio,
         \A p \in OSRdyTbl : p \in OSRdyTbl' \/ p = o.prio,
         o.prio \in OSRdyTbl' <=> o.stat = {} /\ o.dly = 0,
         at' \in [Tasks -> {"run", "sched", "block", "wake"}],
         \A u \in Tasks \ {t} : at'[u] = at[u] \/ (at[u] = "run" /\ at'[u] = "sched"),
         ecb' \in [Events -> EcbType],
         \A x \in Events : ecb'[x].type = ecb[x].type /\ ecb'[x].items = ecb[x].items,
         \A x \in Events : /\ ecb'[x].wait \ {o.prio} = ecb[x].wait \ {o.prio}
                           /\ o.prio \in ecb'[x].wait <=> Listed(t, x)'
                           /\ o.prio \in ecb'[x].wait =>
                                o.prio \in ecb[x].wait \/ (ecb[x].type # "unused" /\ Contents(x) = <<>>),
         PendState(t)', RunInv', HighestRuns'
  PROVE  IInv'
<1> USE DEF IInv
<1>1. /\ OSTCBPrioTbl' = OSTCBPrioTbl /\ OSTCBList' = OSTCBList /\ ring' = ring
      /\ UNCHANGED running /\ OSIntNesting' = OSIntNesting /\ OSLockNesting' = OSLockNesting
      /\ stray' = stray /\ ~stray
  BY DEF tables, Astray
<1>2. tcb \in [Tasks -> TcbType] /\ OSRdyTbl \subseteq Prios /\ tcb[t].prio \in Prios
  BY Typed, TaskTyped
<1>3. /\ tcb' \in [Tasks -> TcbType] /\ tcb'[t] = o
      /\ \A u \in Tasks \ {t} : tcb'[u] = tcb[u]
      /\ \A u \in Tasks : tcb'[u].prio = tcb[u].prio
  BY <1>2
<1>4. OSRdyTbl' \subseteq Prios BY <1>2
<1>5. TypeOK'
  <2>1. ring' \in [Events -> RingType] BY <1>1, Typed
  <2>2. cur' \in Tasks \cup {Idle} /\ OSPrioCur' \in Prios \cup {IdlePrio}
    BY <1>1 DEF TypeOK, running
  <2>3. OSIntNesting' \in 0..MaxNest /\ OSLockNesting' \in 0..1 /\ stray' \in BOOLEAN
        /\ OSTCBList' \in Seq(Tasks) /\ OSTCBPrioTbl' \in [Prios -> Tasks \cup {NoTask}]
        /\ tick' \in 0..Len(OSTCBList')
    BY <1>1 DEF TypeOK
  <2> QED BY <1>3, <1>4, <2>1, <2>2, <2>3 DEF TypeOK, TcbType, EcbType, RingType
<1>6. PrioInv' /\ ListInv' /\ \A u : Exists(u)' <=> Exists(u)
  <2>1. tick' > 0 => OSIntNesting' > 0 BY <1>1
  <2> QED BY <1>1, <1>3, <2>1, SameTasks
<1>7. \A u \in Tasks \ {t} : Exists(u) => tcb[u].prio # o.prio BY OnePrio
<1>8. ReadyIffRunnable'
  <2>1. ASSUME NEW u \in Tasks, Exists(u)
        PROVE  tcb'[u].prio \in OSRdyTbl' <=> Runnable(u)'
    <3>1. CASE u = t BY <1>3, <3>1 DEF Runnable
    <3>2. CASE u # t
      <4>1. tcb'[u] = tcb[u] /\ tcb[u].prio # o.prio BY <1>3, <1>7, <2>1, <3>2
      <4>2. tcb[u].prio \in OSRdyTbl <=> Runnable(u) BY <2>1 DEF ReadyIffRunnable
      <4>3. Runnable(u)' <=> Runnable(u) BY <4>1 DEF Runnable
      <4> QED BY <4>1, <4>2, <4>3
    <3> QED BY <3>1, <3>2
  <2>2. \A p \in OSRdyTbl' : OSTCBPrioTbl'[p] # NoTask
    <3>1. OSTCBPrioTbl[o.prio] # NoTask BY TaskAssumption DEF Exists
    <3> QED BY <1>1, <3>1 DEF ReadyIffRunnable
  <2> QED BY <1>6, <2>1, <2>2 DEF ReadyIffRunnable
<1>9. PendInv'
  <2> SUFFICES ASSUME NEW u \in Tasks, u # t PROVE PendState(u)' BY DEF PendInv
  <2>1. PendState(u) BY DEF PendInv
  <2>2. tcb'[u] = tcb[u] /\ Pends(u)' = Pends(u) BY <1>3 DEF Pends
  <2>3. Pends(u) # {} => ecb'[tcb[u].ev].type = ecb[tcb[u].ev].type
    BY <2>1, TaskTyped DEF PendState
  <2>4. at'[u] = at[u] \/ (at[u] = "run" /\ at'[u] = "sched") OBVIOUS
  <2> QED BY <1>6, <2>1, <2>2, <2>3, <2>4 DEF PendState
<1>10. WaitInv'
  <2>1. ASSUME NEW x \in Events, NEW u \in Tasks, Exists(u)
        PROVE  tcb'[u].prio \in ecb'[x].wait <=> Listed(u, x)'
    <3>1. CASE u = t BY <1>3, <3>1
    <3>2. CASE u # t
      <4>1. tcb'[u] = tcb[u] /\ tcb[u].prio # o.prio BY <1>3, <1>7, <2>1, <3>2
      <4>2. tcb[u].prio \in ecb[x].wait <=> Listed(u, x) BY <1>1, <2>1 DEF WaitInv
      <4>3. at'[u] = at[u] \/ (at[u] = "run" /\ at'[u] = "sched") BY <3>2
      <4>4. Listed(u, x)' <=> Listed(u, x) BY <1>6, <4>1, <4>3 DEF Listed, Pends
      <4>5. tcb[u].prio \in ecb'[x].wait <=> tcb[u].prio \in ecb[x].wait
        BY <4>1
      <4> QED BY <4>1, <4>2, <4>4, <4>5
    <3> QED BY <3>1, <3>2
  <2>2. ASSUME NEW x \in Events, NEW p \in ecb'[x].wait PROVE OSTCBPrioTbl[p] # NoTask
    <3>1. CASE p = o.prio BY <3>1, TaskAssumption DEF Exists
    <3>2. CASE p # o.prio
      <4>1. p \in ecb[x].wait BY <3>2
      <4> QED BY <1>1, <4>1 DEF WaitInv
    <3> QED BY <3>1, <3>2
  <2>3. ASSUME NEW x \in Events, ecb'[x].type = "unused" PROVE ecb'[x].wait = {}
    <3>1. ecb[x].type = "unused" /\ ecb[x].wait = {} BY <1>1, <2>3 DEF WaitInv
    <3>2. o.prio \notin ecb'[x].wait BY <3>1
    <3>3. ecb'[x].wait \ {o.prio} = {} BY <3>1
    <3> QED BY <3>2, <3>3
  <2> QED BY <1>1, <1>6, <2>1, <2>2, <2>3 DEF WaitInv
<1>11. RingInv' BY <1>1 DEF RingInv
<1>12. NoneWaitsInVain'
  <2> SUFFICES ASSUME NEW x \in Events, Waiters(x)' # {} PROVE Contents(x)' = <<>>
    BY DEF NoneWaitsInVain
  <2>1. Contents(x)' = Contents(x) BY <1>1, SameContents
  <2>2. CASE Waiters(x) # {} BY <1>1, <2>1, <2>2 DEF NoneWaitsInVain
  <2>3. CASE Waiters(x) = {} BY <2>1, <2>3 DEF Waiters
  <2> QED BY <2>2, <2>3
<1> QED BY <1>5, <1>6, <1>8, <1>9, <1>10, <1>11, <1>12

\* The task that runs is on no waiting list.
LEMMA RunnerNotListed ==
  ASSUME IInv, ~Astray, InTask, NEW x \in Events
  PROVE  tcb[cur].prio \notin ecb[x].wait
<1>1. cur \in Tasks /\ Exists(cur) /\ at[cur] = "run" BY InTaskExists
<1>2. tcb[cur].prio \in ecb[x].wait <=> Listed(cur, x)
  BY <1>1 DEF IInv, WaitInv, Astray
<1> QED BY <1>1, <1>2 DEF Listed

LEMMA WaitStep ==
  ASSUME IInv, ~Astray, NEW e \in Events, NEW type \in {"mbox", "q", "sem"}, NEW d \in 0..MaxDly,
         InTask, OSLockNesting = 0, ecb[e].type = type, Contents(e) = <<>>,
         OS_EventTaskWait(e, type, d), UNCHANGED <<tables, ring, running, nesting>>
  PROVE  IInv'
<1> USE DEF IInv
<1> PICK t : t = cur OBVIOUS
<1> DEFINE o == [tcb[t] EXCEPT !.stat = @ \cup {type}, !.pend = "ok", !.dly = d, !.ev = e]
           p == tcb[t].prio
<1>1. /\ t \in Tasks /\ Exists(t) /\ at[t] = "run" /\ OSIntNesting = 0 /\ tick = 0
      /\ Pends(t) = {} /\ tcb[t].msg = NoMsg
  BY InTaskExists
<1>2. /\ cur' = cur /\ tick' = tick /\ OSIntNesting' = OSIntNesting
      /\ OSLockNesting' = OSLockNesting /\ stray' = stray /\ ~stray
      /\ OSTCBPrioTbl' = OSTCBPrioTbl /\ OSTCBList' = OSTCBList
  BY DEF running, nesting, tables, Astray
<1>3. tcb' = [tcb EXCEPT ![t] = o] /\ OSRdyTbl' = OSRdyTbl \ {p}
      /\ at' = [at EXCEPT ![t] = "block"]
      /\ ecb' = [ecb EXCEPT ![e].wait = @ \cup {p}]
  <2>1. tcb' = [tcb EXCEPT ![cur] = [tcb[cur] EXCEPT !.stat = @ \cup {type},
                                       !.pend = "ok", !.dly = d, !.ev = e]]
    BY DEF OS_EventTaskWait
  <2>2. o = [tcb[cur] EXCEPT !.stat = @ \cup {type}, !.pend = "ok", !.dly = d, !.ev = e]
    OBVIOUS
  <2>3. tcb' = [tcb EXCEPT ![t] = o] BY <2>1, <2>2
  <2> HIDE DEF o
  <2> QED BY <2>3 DEF OS_EventTaskWait
<1>4. tcb[t] \in TcbType /\ tcb[t].stat \subseteq Types \cup {"suspend"} /\ p \in Prios
      /\ type \in Types
  BY <1>1, TaskTyped, EventTyped
<1>5. /\ o.prio = p /\ o.stat = tcb[t].stat \cup {type} /\ o.pend = "ok" /\ o.dly = d
      /\ o.ev = e /\ o.msg = NoMsg
  BY <1>1, <1>4 DEF TcbType
<1>6. o \in TcbType
  <2>1. tcb[t].stat \cup {type} \in SUBSET (Types \cup {"suspend"}) BY <1>4
  <2> QED BY <1>4, <2>1 DEF TcbType
<1> HIDE DEF o
<1>7. tcb \in [Tasks -> TcbType] /\ ecb \in [Events -> EcbType]
      /\ at \in [Tasks -> {"run", "sched", "block", "wake"}]
  BY Typed
<1>8. tcb'[t] = o /\ at'[t] = "block" /\ at' \in [Tasks -> {"run", "sched", "block", "wake"}]
      /\ \A u \in Tasks \ {t} : at'[u] = at[u]
  BY <1>1, <1>3, <1>7
<1>9. /\ ecb' \in [Events -> EcbType]
      /\ \A x \in Events : ecb'[x].type = ecb[x].type /\ ecb'[x].items = ecb[x].items
      /\ ecb'[e].wait = ecb[e].wait \cup {p}
      /\ \A x \in Events : x # e => ecb'[x].wait = ecb[x].wait
  <2>1. ecb[e].wait \cup {p} \in SUBSET Prios BY <1>4, EventTyped
  <2> QED BY <1>3, <1>7, <2>1 DEF EcbType
<1>10. Exists(t)' BY <1>1, <1>2, <1>5, <1>8 DEF Exists
<1>11. Pends(t)' = {type} BY <1>1, <1>4, <1>5, <1>8 DEF Pends
<1>12. PendState(t)'
  BY <1>5, <1>8, <1>9, <1>10, <1>11 DEF PendState
<1>13. ASSUME NEW x \in Events
       PROVE  /\ ecb'[x].wait \ {o.prio} = ecb[x].wait \ {o.prio}
              /\ o.prio \in ecb'[x].wait <=> Listed(t, x)'
              /\ o.prio \in ecb'[x].wait =>
                   o.prio \in ecb[x].wait \/ (ecb[x].type # "unused" /\ Contents(x) = <<>>)
  <2>1. Listed(t, x)' <=> x = e BY <1>5, <1>8, <1>10, <1>11 DEF Listed
  <2>2. p \notin ecb[x].wait BY RunnerNotListed
  <2>3. CASE x = e BY <1>5, <1>9, <2>1, <2>3
  <2>4. CASE x # e BY <1>5, <1>9, <2>1, <2>2, <2>4
  <2> QED BY <2>3, <2>4
<1>14. RunInv' /\ HighestRuns'
  <2>1. at'[cur] = "block" /\ OSLockNesting = 0 BY <1>8
  <2>2. \A u \in Tasks : u = cur /\ Exists(u) => Exists(u)' BY <1>10
  <2>3. ~(OSIntNesting > 0) BY <1>1
  <2> QED BY <1>2, <2>1, <2>2, <2>3, SameRunning
<1>15. o.prio \in OSRdyTbl' <=> o.stat = {} /\ o.dly = 0 BY <1>3, <1>5
<1>16. /\ \A q \in OSRdyTbl' : q \in OSRdyTbl \/ q = o.prio
       /\ \A q \in OSRdyTbl : q \in OSRdyTbl' \/ q = o.prio
       /\ \A u \in Tasks \ {t} : at'[u] = at[u] \/ (at[u] = "run" /\ at'[u] = "sched")
  BY <1>3, <1>5, <1>8
<1>17. tick' \in 0..Len(OSTCBList) /\ (tick' > 0 => OSIntNesting > 0)
  BY <1>1, <1>2 DEF TypeOK
<1> QED
  <2>1. tcb' = [tcb EXCEPT ![t] = o] BY <1>3
  <2>2. UNCHANGED <<tables, ring, running, OSIntNesting, OSLockNesting, stray>> BY <1>2
  <2> QED
    BY ONLY IInv, ~Astray, <1>1, <1>5, <1>6, <1>8, <1>9, <1>12, <1>13, <1>14, <1>15, <1>16,
       <1>17, <2>1, <2>2, OneTaskStep

LEMMA PendStep ==
  ASSUME IInv, ~Astray, NEW e \in Events, NEW type \in {"mbox", "q", "sem"}, NEW d \in 0..MaxDly,
         Pend(e, type, d)
  PROVE  IInv'
<1>1. CASE Take(e) /\ UNCHANGED <<OSRdyTbl, tcb, at>>
  <2>1. InCode BY DEF Pend, InCode
  <2> QED BY <1>1, <2>1, TakeStep DEF Pend
<1>2. CASE Contents(e) = <<>> /\ OS_EventTaskWait(e, type, d) /\ UNCHANGED ring
  BY <1>2, WaitStep DEF Pend
<1> QED BY <1>1, <1>2 DEF Pend

LEMMA AcceptStep ==
  ASSUME IInv, ~Astray, NEW e \in Events, NEW type, Accept(e, type)
  PROVE  IInv'
<1>1. CASE Take(e) BY <1>1, TakeStep DEF Accept
<1>2. CASE UNCHANGED <<ecb, ring>> BY <1>2, SameIInv DEF Accept
<1> QED BY <1>1, <1>2 DEF Accept

\* The events stay as they are.  A wait goes on, or it ends as a timeout.
LEMMA OneQuietStep ==
  ASSUME IInv, ~Astray, NEW t \in Tasks, Exists(t), NEW o \in TcbType,
         o.prio = tcb[t].prio, o.ev = tcb[t].ev, o.msg = tcb[t].msg,
         tcb' = [tcb EXCEPT ![t] = o],
         UNCHANGED <<tables, ecb, ring, running, OSIntNesting, OSLockNesting, stray>>,
         tick' \in 0..Len(OSTCBList), tick' > 0 => OSIntNesting > 0,
         \A p \in OSRdyTbl' : p \in OSRdyTbl \/ p = o.prio,
         \A p \in OSRdyTbl : p \in OSRdyTbl' \/ p = o.prio,
         o.prio \in OSRdyTbl' <=> o.stat = {} /\ o.dly = 0,
         at' \in [Tasks -> {"run", "sched", "block", "wake"}],
         \A u \in Tasks : at'[u] = at[u] \/ (at[u] = "run" /\ at'[u] = "sched"),
         \/ /\ o.pend = tcb[t].pend /\ o.stat \cap Types = Pends(t)
            /\ at[t] \in {"block", "wake"} /\ Pends(t) = {} => o.dly = 0
         \/ /\ Pends(t) # {} /\ o.stat \cap Types = {} /\ o.pend = "to" /\ o.dly = 0,
         RunInv', HighestRuns'
  PROVE  IInv'
<1> USE DEF IInv
<1>1. /\ OSTCBPrioTbl' = OSTCBPrioTbl /\ ecb' = ecb /\ ~stray /\ PendState(t)
  BY DEF tables, Astray, PendInv
<1>2. tcb'[t] = o BY Typed
<1>3. Pends(t)' = o.stat \cap Types BY <1>2 DEF Pends
<1>4. Exists(t)' BY <1>1, <1>2 DEF Exists
<1>5. \/ at'[t] = at[t]
      \/ at[t] = "run" /\ at'[t] = "sched"
  OBVIOUS
<1>6. Pends(t) # {} => at[t] \in {"block", "wake"}
  BY <1>1, TaskTyped DEF PendState
<1>7. PendState(t)'
  <2>1. CASE /\ o.pend = tcb[t].pend /\ o.stat \cap Types = Pends(t)
             /\ at[t] \in {"block", "wake"} /\ Pends(t) = {} => o.dly = 0
    BY <1>1, <1>2, <1>3, <1>4, <1>5, <2>1 DEF PendState
  <2>2. CASE Pends(t) # {} /\ o.stat \cap Types = {} /\ o.pend = "to" /\ o.dly = 0
    <3>1. at'[t] \in {"block", "wake"} /\ at[t] \in {"block", "wake"} BY <1>5, <1>6, <2>2
    <3> QED BY <1>1, <1>2, <1>3, <1>4, <2>2, <3>1 DEF PendState
  <2> QED BY <2>1, <2>2
<1>8. ASSUME NEW x \in Events
      PROVE  /\ ecb'[x].wait \ {o.prio} = ecb[x].wait \ {o.prio}
             /\ o.prio \in ecb'[x].wait <=> Listed(t, x)'
             /\ o.prio \in ecb'[x].wait =>
                  o.prio \in ecb[x].wait \/ (ecb[x].type # "unused" /\ Contents(x) = <<>>)
  <2>1. o.prio \in ecb[x].wait <=> Listed(t, x) BY <1>1 DEF WaitInv
  <2>2. at'[t] \in {"block", "wake"} <=> at[t] \in {"block", "wake"} BY <1>5
  <2>3. Listed(t, x)' <=> Listed(t, x)
    BY <1>2, <1>3, <1>4, <2>2 DEF Listed
  <2> QED BY <1>1, <2>1, <2>3
<1>9. /\ ecb' \in [Events -> EcbType]
      /\ \A x \in Events : ecb'[x].type = ecb[x].type /\ ecb'[x].items = ecb[x].items
  BY <1>1, Typed
<1>10. \A u \in Tasks \ {t} : at'[u] = at[u] \/ (at[u] = "run" /\ at'[u] = "sched")
  OBVIOUS
<1>11. UNCHANGED <<tables, ring, running, OSIntNesting, OSLockNesting, stray>> OBVIOUS
<1> QED BY <1>7, <1>8, <1>9, <1>10, <1>11, OneTaskStep

LEMMA TimeDlyStep ==
  ASSUME IInv, ~Astray, OSTimeDly PROVE IInv'
<1> USE DEF IInv
<1> PICK t : t = cur OBVIOUS
<1>1. PICK d \in 1..MaxDly :
        /\ InTask /\ OSLockNesting = 0
        /\ OSRdyTbl' = OSRdyTbl \ {tcb[cur].prio} /\ tcb' = [tcb EXCEPT ![cur].dly = d]
        /\ at' = [at EXCEPT ![cur] = "sched"]
        /\ UNCHANGED <<tables, ecb, ring, running, nesting>>
  BY DEF OSTimeDly
<1> DEFINE o == [tcb[t] EXCEPT !.dly = d]
<1>2. /\ t \in Tasks /\ Exists(t) /\ at[t] = "run" /\ OSIntNesting = 0 /\ tick = 0
      /\ Pends(t) = {}
  BY <1>1, InTaskExists
<1>3. /\ cur' = cur /\ tick' = tick /\ OSIntNesting' = OSIntNesting
      /\ OSLockNesting' = OSLockNesting /\ stray' = stray /\ OSTCBPrioTbl' = OSTCBPrioTbl
  BY <1>1 DEF running, nesting, tables
<1>4. tcb \in [Tasks -> TcbType] /\ tcb[t] \in TcbType /\ d \in 0..MaxDly /\ d # 0
      /\ at \in [Tasks -> {"run", "sched", "block", "wake"}]
  BY <1>1, <1>2, Typed, TaskTyped, SizeAssumption
<1>5. o \in TcbType /\ tcb' = [tcb EXCEPT ![t] = o] BY <1>1, <1>4 DEF TcbType
<1>6. /\ o.prio = tcb[t].prio /\ o.ev = tcb[t].ev /\ o.msg = tcb[t].msg
      /\ o.pend = tcb[t].pend /\ o.stat = tcb[t].stat /\ o.dly = d
  BY <1>4 DEF TcbType
<1> HIDE DEF o
<1>7. /\ at' \in [Tasks -> {"run", "sched", "block", "wake"}] /\ at'[t] = "sched"
      /\ \A u \in Tasks : at'[u] = at[u] \/ (at[u] = "run" /\ at'[u] = "sched")
  BY <1>1, <1>2, <1>4
<1>8. /\ \A p \in OSRdyTbl' : p \in OSRdyTbl \/ p = o.prio
      /\ \A p \in OSRdyTbl : p \in OSRdyTbl' \/ p = o.prio
      /\ o.prio \in OSRdyTbl' <=> o.stat = {} /\ o.dly = 0
  BY <1>1, <1>4, <1>6
<1>9. RunInv' /\ HighestRuns'
  <2>1. at'[cur] = "sched" /\ ~(OSIntNesting > 0) BY <1>2, <1>7
  <2>2. Exists(t)' BY <1>2, <1>3, <1>4, <1>5, <1>6 DEF Exists
  <2> QED BY <1>1, <1>3, <2>1, <2>2, SameRunning
<1>10. o.stat \cap Types = Pends(t) BY <1>6 DEF Pends
<1>11. tick' \in 0..Len(OSTCBList) /\ (tick' > 0 => OSIntNesting > 0)
  BY <1>2, <1>3 DEF TypeOK
<1>12. UNCHANGED <<tables, ecb, ring, running, OSIntNesting, OSLockNesting, stray>>
  BY <1>1, <1>3
<1>13. at[t] \in {"block", "wake"} /\ Pends(t) = {} => o.dly = 0 BY <1>2
<1> QED
  BY <1>2, <1>5, <1>6, <1>7, <1>8, <1>9, <1>10, <1>11, <1>12, <1>13, OneQuietStep

\* The end of a delay or of a timed wait.
LEMMA ExpiredFacts ==
  ASSUME IInv, ~Astray, NEW t \in Tasks, tcb[t].dly > 0, NEW o, o = Expired(t)
  PROVE  /\ o \in TcbType /\ o.prio = tcb[t].prio /\ o.ev = tcb[t].ev /\ o.msg = tcb[t].msg
         /\ o.dly = 0 /\ o.stat = tcb[t].stat \ Types
         /\ \/ /\ o.pend = tcb[t].pend /\ o.stat \cap Types = Pends(t)
               /\ at[t] \in {"block", "wake"} /\ Pends(t) = {} => o.dly = 0
            \/ /\ Pends(t) # {} /\ o.stat \cap Types = {} /\ o.pend = "to" /\ o.dly = 0
         /\ o.stat = {} <=> "suspend" \notin tcb[t].stat
<1>1. tcb[t] \in TcbType /\ tcb[t].stat \subseteq Types \cup {"suspend"} BY TaskTyped DEF IInv
<1>2. o = [tcb[t] EXCEPT !.dly = 0, !.stat = tcb[t].stat \ Types,
                         !.pend = IF Pends(t) # {} THEN "to" ELSE "ok"]
  BY <1>1 DEF Expired
<1>3. /\ o.prio = tcb[t].prio /\ o.ev = tcb[t].ev /\ o.msg = tcb[t].msg
      /\ o.dly = 0 /\ o.stat = tcb[t].stat \ Types
      /\ o.pend = IF Pends(t) # {} THEN "to" ELSE "ok"
  BY <1>1, <1>2 DEF TcbType
<1>4. o \in TcbType
  <2>1. tcb[t].stat \ Types \in SUBSET (Types \cup {"suspend"}) /\ 0 \in 0..MaxDly
    BY <1>1, SizeAssumption
  <2>2. (IF Pends(t) # {} THEN "to" ELSE "ok") \in {"ok", "to", "abort"} OBVIOUS
  <2> QED BY <1>1, <1>2, <2>1, <2>2 DEF TcbType
<1>5. o.stat \cap Types = {} BY <1>3
<1>6. Pends(t) = {} => tcb[t].pend = "ok"
  <2>1. PendState(t) /\ at[t] \in {"run", "sched", "block", "wake"}
    BY TaskTyped DEF IInv, PendInv
  <2> QED BY <2>1 DEF PendState
<1>7. o.stat = {} <=> "suspend" \notin tcb[t].stat
  <2>1. "suspend" \notin Types BY TypesAssumption
  <2> QED BY <1>1, <1>3, <2>1
<1> QED BY <1>3, <1>4, <1>5, <1>6, <1>7

LEMMA TimeDlyResumeStep ==
  ASSUME IInv, ~Astray, NEW t \in Tasks, OSTimeDlyResume(t) PROVE IInv'
<1> USE DEF IInv
<1>1. /\ InTask /\ Exists(t) /\ tcb[t].dly > 0 /\ tcb' = [tcb EXCEPT ![t] = Expired(t)]
      /\ ReadyUnlessSuspended(t)
      /\ IF "suspend" \in tcb[t].stat THEN UNCHANGED at ELSE ThenSched
      /\ UNCHANGED <<tables, ecb, ring, running, nesting>>
  BY DEF OSTimeDlyResume
<1> PICK o : o = Expired(t) OBVIOUS
<1>2. /\ cur \in Tasks /\ Exists(cur) /\ at[cur] = "run" /\ OSIntNesting = 0 /\ tick = 0
  BY <1>1, InTaskExists
<1>3. /\ cur' = cur /\ tick' = tick /\ OSIntNesting' = OSIntNesting
      /\ OSLockNesting' = OSLockNesting /\ stray' = stray /\ OSTCBPrioTbl' = OSTCBPrioTbl
  BY <1>1 DEF running, nesting, tables
<1>4. /\ o \in TcbType /\ o.prio = tcb[t].prio /\ o.ev = tcb[t].ev /\ o.msg = tcb[t].msg
      /\ o.dly = 0
      /\ \/ /\ o.pend = tcb[t].pend /\ o.stat \cap Types = Pends(t)
            /\ at[t] \in {"block", "wake"} /\ Pends(t) = {} => o.dly = 0
         \/ /\ Pends(t) # {} /\ o.stat \cap Types = {} /\ o.pend = "to" /\ o.dly = 0
      /\ o.stat = {} <=> "suspend" \notin tcb[t].stat
  BY <1>1, ExpiredFacts
<1>5. tcb' = [tcb EXCEPT ![t] = o] BY <1>1
<1>6. at \in [Tasks -> {"run", "sched", "block", "wake"}] /\ tcb \in [Tasks -> TcbType] BY Typed
<1>7. \/ "suspend" \in tcb[t].stat /\ at' = at
      \/ "suspend" \notin tcb[t].stat /\ at' = [at EXCEPT ![cur] = "sched"]
  BY <1>1, <1>2 DEF ThenSched
<1>8. /\ at' \in [Tasks -> {"run", "sched", "block", "wake"}]
      /\ \A u \in Tasks : at'[u] = at[u] \/ (at[u] = "run" /\ at'[u] = "sched")
  BY <1>2, <1>6, <1>7
<1>9. ~(tcb[t].prio \in OSRdyTbl)
  BY <1>1 DEF ReadyIffRunnable, Runnable
<1>10. /\ \A p \in OSRdyTbl' : p \in OSRdyTbl \/ p = o.prio
       /\ \A p \in OSRdyTbl : p \in OSRdyTbl' \/ p = o.prio
       /\ o.prio \in OSRdyTbl' <=> o.stat = {} /\ o.dly = 0
  BY <1>1, <1>4, <1>9 DEF ReadyUnlessSuspended
<1>11. RunInv' /\ HighestRuns'
  <2>1. \A u \in Tasks : tcb'[u].prio = tcb[u].prio BY <1>4, <1>5, <1>6
  <2>2. \A u \in Tasks : u = cur /\ Exists(u) => Exists(u)' BY <1>3, <2>1 DEF Exists
  <2>3. \/ at'[cur] = "sched"
        \/ /\ at'[cur] = "run" /\ OSRdyTbl' = OSRdyTbl
           /\ tcb'[cur].prio = tcb[cur].prio
    BY <1>1, <1>2, <1>6, <1>7, <2>1 DEF ReadyUnlessSuspended
  <2>4. ~(OSIntNesting > 0) BY <1>2
  <2> QED BY <1>1, <1>3, <2>2, <2>3, <2>4, SameRunning
<1>12. tick' \in 0..Len(OSTCBList) /\ (tick' > 0 => OSIntNesting > 0)
  BY <1>2, <1>3 DEF TypeOK
<1>13. UNCHANGED <<tables, ecb, ring, running, OSIntNesting, OSLockNesting, stray>>
  BY <1>1, <1>3
<1> QED
  BY <1>1, <1>4, <1>5, <1>8, <1>10, <1>11, <1>12, <1>13, OneQuietStep

\* The tick looks at one task of the list.
LEMMA TimeTickStep ==
  ASSUME IInv, ~Astray, OSTimeTick PROVE IInv'
<1> USE DEF IInv
<1> PICK t : t = OSTCBList[tick] OBVIOUS
<1>1. /\ tick > 0 /\ OSIntNesting = 1
      /\ \/ tcb[t].dly = 0 /\ UNCHANGED <<OSRdyTbl, tcb>>
         \/ tcb[t].dly = 1 /\ tcb' = [tcb EXCEPT ![t] = Expired(t)] /\ ReadyUnlessSuspended(t)
         \/ /\ tcb[t].dly # 0 /\ tcb[t].dly # 1
            /\ tcb' = [tcb EXCEPT ![t].dly = @ - 1] /\ UNCHANGED OSRdyTbl
      /\ tick' = IF tick = Len(OSTCBList) THEN 0 ELSE tick + 1
      /\ UNCHANGED <<tables, ecb, ring, at, running, OSIntNesting, OSLockNesting, stray>>
  BY DEF OSTimeTick
<1>2. tick \in 1..Len(OSTCBList) /\ Len(OSTCBList) \in Nat
  BY <1>1, Typed, LenProperties DEF TypeOK
<1>3. t \in Tasks /\ Exists(t) BY <1>2, Typed, ElementOfSeq DEF ListInv
<1>4. /\ cur' = cur /\ OSTCBPrioTbl' = OSTCBPrioTbl /\ at' = at
      /\ OSIntNesting' = OSIntNesting /\ OSLockNesting' = OSLockNesting
  BY <1>1 DEF running, tables
<1>5. tick' \in 0..Len(OSTCBList) /\ (tick' > 0 => OSIntNesting > 0) BY <1>1, <1>2
<1>6. at' \in [Tasks -> {"run", "sched", "block", "wake"}] BY <1>4, Typed
<1>7. tcb \in [Tasks -> TcbType] /\ tcb[t] \in TcbType /\ tcb[t].dly \in 0..MaxDly
      /\ MaxDly \in Nat
  BY <1>3, Typed, TaskTyped, SizeAssumption
<1>8. PendState(t) BY <1>3 DEF PendInv
<1>9. tcb[t].prio \in OSRdyTbl <=> tcb[t].stat = {} /\ tcb[t].dly = 0
  BY <1>3 DEF ReadyIffRunnable, Runnable
<1>10. ASSUME NEW o \in TcbType, o.prio = tcb[t].prio, tcb' = [tcb EXCEPT ![t] = o]
       PROVE  RunInv' /\ HighestRuns'
  <2>1. \A u \in Tasks : tcb'[u].prio = tcb[u].prio BY <1>7, <1>10
  <2>2. \A u \in Tasks : u = cur /\ Exists(u) => Exists(u)' BY <1>4, <2>1 DEF Exists
  <2>3. ~(OSIntNesting = 0) BY <1>1
  <2> QED BY <1>1, <1>4, <2>2, <2>3, SameRunning
<1>11. UNCHANGED <<tables, ecb, ring, running, OSIntNesting, OSLockNesting, stray>> BY <1>1
<1>12. \A u \in Tasks : at'[u] = at[u] \/ (at[u] = "run" /\ at'[u] = "sched") BY <1>4
<1>13. CASE tcb[t].dly = 0 /\ UNCHANGED <<OSRdyTbl, tcb>>
  <2> PICK o : o = tcb[t] OBVIOUS
  <2>1. o \in TcbType /\ tcb' = [tcb EXCEPT ![t] = o] BY <1>7, <1>13
  <2>2. /\ o.prio = tcb[t].prio /\ o.ev = tcb[t].ev /\ o.msg = tcb[t].msg /\ o.dly = 0
        /\ o.pend = tcb[t].pend /\ o.stat \cap Types = Pends(t) /\ o.stat = tcb[t].stat
    BY <1>13 DEF Pends
  <2>3. RunInv' /\ HighestRuns' BY <1>10, <2>1, <2>2
  <2>4. /\ \A p \in OSRdyTbl' : p \in OSRdyTbl \/ p = o.prio
        /\ \A p \in OSRdyTbl : p \in OSRdyTbl' \/ p = o.prio
        /\ o.prio \in OSRdyTbl' <=> o.stat = {} /\ o.dly = 0
    BY <1>9, <1>13
  <2> QED BY <1>3, <1>5, <1>6, <1>11, <1>12, <2>1, <2>2, <2>3, <2>4, OneQuietStep
<1>14. CASE /\ tcb[t].dly = 1 /\ tcb' = [tcb EXCEPT ![t] = Expired(t)]
            /\ ReadyUnlessSuspended(t)
  <2> PICK o : o = Expired(t) OBVIOUS
  <2>1. /\ o \in TcbType /\ o.prio = tcb[t].prio /\ o.ev = tcb[t].ev /\ o.msg = tcb[t].msg
        /\ o.dly = 0
        /\ \/ /\ o.pend = tcb[t].pend /\ o.stat \cap Types = Pends(t)
              /\ at[t] \in {"block", "wake"} /\ Pends(t) = {} => o.dly = 0
           \/ /\ Pends(t) # {} /\ o.stat \cap Types = {} /\ o.pend = "to" /\ o.dly = 0
        /\ o.stat = {} <=> "suspend" \notin tcb[t].stat
    <3>1. tcb[t].dly > 0 BY <1>14
    <3> QED BY <1>3, <3>1, ExpiredFacts
  <2>2. tcb' = [tcb EXCEPT ![t] = o] BY <1>14
  <2>3. RunInv' /\ HighestRuns' BY <1>10, <2>1, <2>2
  <2>4. /\ \A p \in OSRdyTbl' : p \in OSRdyTbl \/ p = o.prio
        /\ \A p \in OSRdyTbl : p \in OSRdyTbl' \/ p = o.prio
        /\ o.prio \in OSRdyTbl' <=> o.stat = {} /\ o.dly = 0
    BY <1>9, <1>14, <2>1 DEF ReadyUnlessSuspended
  <2> QED BY <1>3, <1>5, <1>6, <1>11, <1>12, <2>1, <2>2, <2>3, <2>4, OneQuietStep
<1>15. CASE /\ tcb[t].dly # 0 /\ tcb[t].dly # 1
            /\ tcb' = [tcb EXCEPT ![t].dly = @ - 1] /\ UNCHANGED OSRdyTbl
  <2> DEFINE o == [tcb[t] EXCEPT !.dly = @ - 1]
  <2>1. o \in TcbType /\ tcb' = [tcb EXCEPT ![t] = o]
    <3>1. tcb[t].dly - 1 \in 0..MaxDly BY <1>7, <1>15
    <3> QED BY <1>7, <1>15, <3>1 DEF TcbType
  <2>2. /\ o.prio = tcb[t].prio /\ o.ev = tcb[t].ev /\ o.msg = tcb[t].msg /\ o.dly # 0
        /\ o.pend = tcb[t].pend /\ o.stat \cap Types = Pends(t) /\ o.stat = tcb[t].stat
    BY <1>7, <1>15 DEF TcbType, Pends
  <2> HIDE DEF o
  <2>3. RunInv' /\ HighestRuns' BY <1>10, <2>1, <2>2
  <2>4. /\ \A p \in OSRdyTbl' : p \in OSRdyTbl \/ p = o.prio
        /\ \A p \in OSRdyTbl : p \in OSRdyTbl' \/ p = o.prio
        /\ o.prio \in OSRdyTbl' <=> o.stat = {} /\ o.dly = 0
    BY <1>9, <1>15, <2>2
  <2>5. at[t] \in {"block", "wake"} /\ Pends(t) = {} => o.dly = 0
    BY <1>8, <1>15 DEF PendState
  <2> QED BY <1>3, <1>5, <1>6, <1>11, <1>12, <2>1, <2>2, <2>3, <2>4, <2>5, OneQuietStep
<1> QED BY <1>1, <1>13, <1>14, <1>15

\* Taking a task other than the highest from the ready table leaves the highest.
LEMMA StillHighest ==
  ASSUME TypeOK, NEW p \in Prios, NEW q \in Prios, p # q,
         q = OS_SchedNew, OSRdyTbl' = OSRdyTbl \ {p}
  PROVE  OS_SchedNew' = q
<1>1. OSRdyTbl \subseteq Prios /\ OSRdyTbl \in SUBSET Nat /\ OSRdyTbl' \in SUBSET Nat
  BY Typed, PrioAssumption
<1>2. q # IdlePrio BY PrioAssumption
<1>3. OSRdyTbl # {} /\ q = Lowest(OSRdyTbl) BY <1>2 DEF OS_SchedNew
<1>4. q \in OSRdyTbl /\ \A x \in OSRdyTbl : q <= x BY <1>1, <1>3, LowestIn
<1>5. PICK R : R = OSRdyTbl' OBVIOUS
<1>6. q \in R /\ \A x \in R : q <= x BY <1>4, <1>5
<1>7. Lowest(R) = q BY <1>1, <1>5, <1>6, LowestIs
<1> QED BY <1>5, <1>6, <1>7 DEF OS_SchedNew

LEMMA SuspendStep ==
  ASSUME IInv, ~Astray, NEW t \in Tasks, OSTaskSuspend(t) PROVE IInv'
<1> USE DEF IInv
<1>1. /\ InTask /\ Exists(t) /\ OSRdyTbl' = OSRdyTbl \ {tcb[t].prio}
      /\ tcb' = [tcb EXCEPT ![t].stat = @ \cup {"suspend"}]
      /\ at' = IF t = cur THEN [at EXCEPT ![cur] = "sched"] ELSE at
      /\ UNCHANGED <<tables, ecb, ring, running, nesting>>
  BY DEF OSTaskSuspend
<1> DEFINE o == [tcb[t] EXCEPT !.stat = @ \cup {"suspend"}]
<1> PICK c : c = cur OBVIOUS
<1>2. /\ c \in Tasks /\ Exists(c) /\ at[c] = "run" /\ OSIntNesting = 0 /\ tick = 0
  BY <1>1, InTaskExists
<1>3. /\ cur' = c /\ tick' = tick /\ OSIntNesting' = OSIntNesting
      /\ OSLockNesting' = OSLockNesting /\ stray' = stray /\ OSTCBPrioTbl' = OSTCBPrioTbl
      /\ OSPrioCur' = OSPrioCur
  BY <1>1 DEF running, nesting, tables
<1>4. tcb \in [Tasks -> TcbType] /\ tcb[t] \in TcbType
      /\ at \in [Tasks -> {"run", "sched", "block", "wake"}] /\ tcb[t].prio \in Prios
      /\ tcb[c].prio \in Prios
  BY <1>2, Typed, TaskTyped
<1>5. /\ o.prio = tcb[t].prio /\ o.ev = tcb[t].ev /\ o.msg = tcb[t].msg
      /\ o.pend = tcb[t].pend /\ o.stat = tcb[t].stat \cup {"suspend"} /\ o.dly = tcb[t].dly
  BY <1>4 DEF TcbType
<1>6. o \in TcbType /\ tcb' = [tcb EXCEPT ![t] = o]
  <2>1. tcb[t].stat \cup {"suspend"} \in SUBSET (Types \cup {"suspend"}) BY TaskTyped
  <2> QED BY <1>1, <1>4, <2>1 DEF TcbType
<1> HIDE DEF o
<1>7. /\ at' \in [Tasks -> {"run", "sched", "block", "wake"}]
      /\ \A u \in Tasks : at'[u] = at[u] \/ (at[u] = "run" /\ at'[u] = "sched")
  BY <1>1, <1>2, <1>4
<1>8. /\ \A p \in OSRdyTbl' : p \in OSRdyTbl \/ p = o.prio
      /\ \A p \in OSRdyTbl : p \in OSRdyTbl' \/ p = o.prio
      /\ o.prio \in OSRdyTbl' <=> o.stat = {} /\ o.dly = 0
  BY <1>1, <1>5
<1>9. \A u \in Tasks : tcb'[u].prio = tcb[u].prio BY <1>4, <1>5, <1>6
<1>10. \A u \in Tasks : u = cur /\ Exists(u) => Exists(u)' BY <1>3, <1>9 DEF Exists
<1>11. RunInv' /\ HighestRuns'
  <2>1. CASE t = c
    <3>1. at'[cur] = "sched" /\ ~(OSIntNesting > 0) BY <1>1, <1>2, <1>4, <2>1
    <3> QED BY <1>1, <1>3, <1>10, <3>1, SameRunning
  <2>2. CASE t # c
    <3>1. Exists(c)' BY <1>2, <1>10
    <3>2. RunInv'
      <4>1. Exists(cur)' BY <1>3, <3>1 DEF Exists
      <4> QED BY <1>1, <1>2, <1>3, <2>2, <4>1 DEF RunInv
    <3>3. OSLockNesting > 0 \/ PrioOf(c) = OS_SchedNew
      BY <1>2 DEF HighestRuns, TypeOK
    <3>4. CASE OSLockNesting > 0 BY <1>3, <3>2, <3>4 DEF HighestRuns
    <3>5. CASE PrioOf(c) = OS_SchedNew
      <4>1. c # Idle BY <1>2, TaskAssumption
      <4>2. PrioOf(c) = tcb[c].prio BY <4>1 DEF PrioOf
      <4>3. tcb[t].prio # tcb[c].prio BY <1>1, <1>2, <2>2, OnePrio
      <4>4. PICK p, q : p = tcb[t].prio /\ q = tcb[c].prio OBVIOUS
      <4>5. OS_SchedNew' = q BY <1>1, <1>4, <3>5, <4>2, <4>3, <4>4, StillHighest
      <4>6. PrioOf(cur)' = q BY <1>2, <1>3, <1>9, <4>1, <4>4 DEF PrioOf
      <4> QED BY <3>2, <4>5, <4>6 DEF HighestRuns
    <3> QED BY <3>2, <3>3, <3>4, <3>5
  <2> QED BY <2>1, <2>2
<1>12. o.stat \cap Types = Pends(t)
  <2>1. "suspend" \notin Types BY TypesAssumption
  <2> QED BY <1>5, <2>1 DEF Pends
<1>13. tick' \in 0..Len(OSTCBList) /\ (tick' > 0 => OSIntNesting > 0)
  BY <1>2, <1>3 DEF TypeOK
<1>14. UNCHANGED <<tables, ecb, ring, running, OSIntNesting, OSLockNesting, stray>>
  BY <1>1, <1>3
<1>15. at[t] \in {"block", "wake"} /\ Pends(t) = {} => o.dly = 0
  BY <1>5 DEF PendInv, PendState
<1>16. Exists(t) BY <1>1
<1> QED
  BY <1>16, <1>5, <1>6, <1>7, <1>8, <1>11, <1>12, <1>13, <1>14, <1>15, OneQuietStep

LEMMA ResumeStep ==
  ASSUME IInv, ~Astray, NEW t \in Tasks, OSTaskResume(t) PROVE IInv'
<1> USE DEF IInv
<1>1. /\ InTask /\ Exists(t) /\ "suspend" \in tcb[t].stat
      /\ tcb' = [tcb EXCEPT ![t].stat = @ \ {"suspend"}]
      /\ IF tcb[t].stat = {"suspend"} /\ tcb[t].dly = 0
         THEN OSRdyTbl' = OSRdyTbl \cup {tcb[t].prio} /\ ThenSched
         ELSE UNCHANGED <<OSRdyTbl, at>>
      /\ UNCHANGED <<tables, ecb, ring, running, nesting>>
  BY DEF OSTaskResume
<1> DEFINE o == [tcb[t] EXCEPT !.stat = @ \ {"suspend"}]
<1>2. /\ cur \in Tasks /\ Exists(cur) /\ at[cur] = "run" /\ OSIntNesting = 0 /\ tick = 0
  BY <1>1, InTaskExists
<1>3. /\ cur' = cur /\ tick' = tick /\ OSIntNesting' = OSIntNesting
      /\ OSLockNesting' = OSLockNesting /\ stray' = stray /\ OSTCBPrioTbl' = OSTCBPrioTbl
  BY <1>1 DEF running, nesting, tables
<1>4. tcb \in [Tasks -> TcbType] /\ tcb[t] \in TcbType
      /\ at \in [Tasks -> {"run", "sched", "block", "wake"}]
  BY Typed, TaskTyped
<1>5. /\ o.prio = tcb[t].prio /\ o.ev = tcb[t].ev /\ o.msg = tcb[t].msg
      /\ o.pend = tcb[t].pend /\ o.stat = tcb[t].stat \ {"suspend"} /\ o.dly = tcb[t].dly
  BY <1>4 DEF TcbType
<1>6. o \in TcbType /\ tcb' = [tcb EXCEPT ![t] = o]
  <2>1. tcb[t].stat \ {"suspend"} \in SUBSET (Types \cup {"suspend"}) BY TaskTyped
  <2> QED BY <1>1, <1>4, <2>1 DEF TcbType
<1> HIDE DEF o
<1>7. \/ /\ tcb[t].stat = {"suspend"} /\ tcb[t].dly = 0
         /\ OSRdyTbl' = OSRdyTbl \cup {tcb[t].prio} /\ at' = [at EXCEPT ![cur] = "sched"]
      \/ /\ ~(tcb[t].stat = {"suspend"} /\ tcb[t].dly = 0)
         /\ OSRdyTbl' = OSRdyTbl /\ at' = at
  BY <1>1, <1>2 DEF ThenSched
<1>8. /\ at' \in [Tasks -> {"run", "sched", "block", "wake"}]
      /\ \A u \in Tasks : at'[u] = at[u] \/ (at[u] = "run" /\ at'[u] = "sched")
  BY <1>2, <1>4, <1>7
<1>9. tcb[t].prio \notin OSRdyTbl BY <1>1 DEF ReadyIffRunnable, Runnable
<1>10. /\ \A p \in OSRdyTbl' : p \in OSRdyTbl \/ p = o.prio
       /\ \A p \in OSRdyTbl : p \in OSRdyTbl' \/ p = o.prio
       /\ o.prio \in OSRdyTbl' <=> o.stat = {} /\ o.dly = 0
  <2>1. o.stat = {} <=> tcb[t].stat = {"suspend"} BY <1>1, <1>5
  <2> QED BY <1>5, <1>7, <1>9, <2>1
<1>11. RunInv' /\ HighestRuns'
  <2>1. \A u \in Tasks : tcb'[u].prio = tcb[u].prio BY <1>4, <1>5, <1>6
  <2>2. \A u \in Tasks : u = cur /\ Exists(u) => Exists(u)' BY <1>3, <2>1 DEF Exists
  <2>3. \/ at'[cur] = "sched"
        \/ /\ at'[cur] = "run" /\ OSRdyTbl' = OSRdyTbl
           /\ tcb'[cur].prio = tcb[cur].prio
    BY <1>2, <1>4, <1>7, <2>1
  <2>4. ~(OSIntNesting > 0) BY <1>2
  <2> QED BY <1>1, <1>3, <2>2, <2>3, <2>4, SameRunning
<1>12. o.stat \cap Types = Pends(t)
  <2>1. "suspend" \notin Types BY TypesAssumption
  <2> QED BY <1>5, <2>1 DEF Pends
<1>13. tick' \in 0..Len(OSTCBList) /\ (tick' > 0 => OSIntNesting > 0)
  BY <1>2, <1>3 DEF TypeOK
<1>14. UNCHANGED <<tables, ecb, ring, running, OSIntNesting, OSLockNesting, stray>>
  BY <1>1, <1>3
<1>15. at[t] \in {"block", "wake"} /\ Pends(t) = {} => o.dly = 0
  BY <1>5 DEF PendInv, PendState
<1> QED
  BY <1>1, <1>5, <1>6, <1>8, <1>10, <1>11, <1>12, <1>13, <1>14, <1>15, OneQuietStep

\* A task that returns from a pend is ready, and leaves the list it is still on.
LEMMA PendReturnFacts ==
  ASSUME IInv, ~Astray, PendReturn
  PROVE  /\ cur \in Tasks /\ Exists(cur) /\ OSIntNesting = 0 /\ tick = 0 /\ OSLockNesting = 0
         /\ at[cur] = "wake" /\ tcb[cur].stat = {} /\ tcb[cur].dly = 0
         /\ tcb[cur].prio \in OSRdyTbl /\ PrioOf(cur) = OS_SchedNew
         /\ tcb[cur].ev \in Events
<1> USE DEF IInv
<1>1. cur \in Tasks /\ at[cur] = "wake" /\ OSIntNesting = 0 BY DEF PendReturn
<1>2. Exists(cur) /\ OSLockNesting = 0 BY <1>1 DEF RunInv, TypeOK
<1>3. tick = 0 BY <1>1 DEF ListInv, TypeOK
<1>4. PrioOf(cur) = OS_SchedNew BY <1>1, <1>2 DEF HighestRuns
<1>5. cur # Idle /\ PrioOf(cur) = tcb[cur].prio BY <1>1, TaskAssumption DEF PrioOf
<1>6. tcb[cur].prio \in Prios /\ tcb[cur].prio # IdlePrio
  <2>1. tcb[cur].prio \in Prios BY <1>1, TaskTyped
  <2> QED BY <2>1, PrioAssumption
<1>7. tcb[cur].prio \in OSRdyTbl BY <1>4, <1>5, <1>6, SchedNew
<1>8. tcb[cur].stat = {} /\ tcb[cur].dly = 0
  BY <1>1, <1>2, <1>7 DEF ReadyIffRunnable, Runnable
<1>9. tcb[cur].ev \in Events BY <1>1 DEF PendInv, PendState
<1> QED BY <1>1, <1>2, <1>3, <1>4, <1>7, <1>8, <1>9

LEMMA PendReturnStep ==
  ASSUME IInv, ~Astray, PendReturn PROVE IInv'
<1> USE DEF IInv
<1> PICK t : t = cur OBVIOUS
<1> DEFINE o == [tcb[t] EXCEPT !.stat = {}, !.pend = "ok", !.ev = NoEvent, !.msg = NoMsg]
<1>1. /\ ecb' = IF tcb[t].pend = "to"
                THEN [ecb EXCEPT ![tcb[t].ev].wait = @ \ {tcb[t].prio}] ELSE ecb
      /\ at' = [at EXCEPT ![t] = "run"]
      /\ OSRdyTbl' = OSRdyTbl /\ OSTCBPrioTbl' = OSTCBPrioTbl
      /\ UNCHANGED <<tables, ring, running, nesting>>
  BY DEF PendReturn, tables
<1>2. tcb' = [tcb EXCEPT ![t] = o] BY DEF PendReturn
<1>3. /\ t \in Tasks /\ Exists(t) /\ OSIntNesting = 0 /\ tick = 0 /\ OSLockNesting = 0
      /\ at[t] = "wake" /\ tcb[t].stat = {} /\ tcb[t].dly = 0
      /\ tcb[t].prio \in OSRdyTbl /\ PrioOf(t) = OS_SchedNew /\ tcb[t].ev \in Events
  BY PendReturnFacts
<1>4. /\ cur' = t /\ tick' = tick /\ OSIntNesting' = OSIntNesting /\ OSPrioCur' = OSPrioCur
      /\ OSLockNesting' = OSLockNesting /\ stray' = stray /\ ~stray
  BY <1>1 DEF running, nesting, Astray
<1>5. tcb \in [Tasks -> TcbType] /\ tcb[t] \in TcbType /\ ecb \in [Events -> EcbType]
      /\ at \in [Tasks -> {"run", "sched", "block", "wake"}]
  BY <1>3, Typed
<1>6. /\ o.prio = tcb[t].prio /\ o.ev = NoEvent /\ o.msg = NoMsg
      /\ o.pend = "ok" /\ o.stat = {} /\ o.dly = 0
  BY <1>3, <1>5 DEF TcbType
<1>7. o \in TcbType BY <1>5 DEF TcbType
<1> HIDE DEF o
<1>8. /\ at' \in [Tasks -> {"run", "sched", "block", "wake"}] /\ at'[t] = "run"
      /\ \A u \in Tasks \ {t} : at'[u] = at[u] \/ (at[u] = "run" /\ at'[u] = "sched")
  BY <1>1, <1>3, <1>5
<1>9. /\ \A p \in OSRdyTbl' : p \in OSRdyTbl \/ p = o.prio
      /\ \A p \in OSRdyTbl : p \in OSRdyTbl' \/ p = o.prio
      /\ o.prio \in OSRdyTbl' <=> o.stat = {} /\ o.dly = 0
  BY <1>1, <1>3, <1>6
<1>10. tcb'[t] = o /\ \A u \in Tasks : tcb'[u].prio = tcb[u].prio BY <1>2, <1>3, <1>5, <1>6
<1>11. Exists(t)' BY <1>1, <1>3, <1>10 DEF Exists
<1>12. PendState(t)'
  <2>1. Pends(t)' = {} BY <1>6, <1>10 DEF Pends
  <2> QED BY <1>6, <1>8, <1>10, <2>1 DEF PendState
<1>13. /\ ecb' \in [Events -> EcbType]
       /\ \A x \in Events : ecb'[x].type = ecb[x].type /\ ecb'[x].items = ecb[x].items
       /\ \A x \in Events : x # tcb[t].ev \/ tcb[t].pend # "to" => ecb'[x].wait = ecb[x].wait
       /\ tcb[t].pend = "to" => ecb'[tcb[t].ev].wait = ecb[tcb[t].ev].wait \ {tcb[t].prio}
  <2>1. CASE tcb[t].pend = "to"
    <3>1. ecb' = [ecb EXCEPT ![tcb[t].ev].wait = @ \ {tcb[t].prio}] BY <1>1, <2>1
    <3>2. ecb[tcb[t].ev].wait \ {tcb[t].prio} \in SUBSET Prios BY <1>3, EventTyped
    <3>3. PICK y \in Events : y = tcb[t].ev BY <1>3
    <3>4. PICK W \in SUBSET Prios : W = ecb[y].wait \ {tcb[t].prio} BY <3>2, <3>3
    <3>5. ecb' = [ecb EXCEPT ![y].wait = W] BY <3>1, <3>3, <3>4
    <3>6. /\ ecb' \in [Events -> EcbType] /\ ecb'[y].wait = W
          /\ \A x \in Events : ecb'[x].type = ecb[x].type /\ ecb'[x].items = ecb[x].items
          /\ \A x \in Events : x # y => ecb'[x].wait = ecb[x].wait
      BY <1>5, <3>5 DEF EcbType
    <3> QED BY <2>1, <3>3, <3>4, <3>6
  <2>2. CASE tcb[t].pend # "to" BY <1>1, <1>5, <2>2
  <2> QED BY <2>1, <2>2
<1>14. ASSUME NEW x \in Events
       PROVE  /\ ecb'[x].wait \ {o.prio} = ecb[x].wait \ {o.prio}
              /\ o.prio \in ecb'[x].wait <=> Listed(t, x)'
              /\ o.prio \in ecb'[x].wait =>
                   o.prio \in ecb[x].wait \/ (ecb[x].type # "unused" /\ Contents(x) = <<>>)
  <2>1. ~Listed(t, x)' BY <1>8 DEF Listed
  <2>2. o.prio \in ecb[x].wait <=> Listed(t, x) BY <1>3, <1>4, <1>6 DEF WaitInv
  <2>3. Pends(t) = {} BY <1>3 DEF Pends
  <2>4. CASE x # tcb[t].ev \/ tcb[t].pend # "to"
    <3>1. ecb'[x].wait = ecb[x].wait BY <1>13, <2>4
    <3>2. ~Listed(t, x) BY <2>3, <2>4 DEF Listed
    <3> QED BY <2>1, <2>2, <3>1, <3>2
  <2>5. CASE x = tcb[t].ev /\ tcb[t].pend = "to"
    <3>1. ecb'[x].wait = ecb[x].wait \ {o.prio} BY <1>6, <1>13, <2>5
    <3> QED BY <2>1, <3>1
  <2> QED BY <2>4, <2>5
<1>15. RunInv'
  <2>1. Exists(cur)' BY <1>4, <1>11 DEF Exists
  <2> QED BY <1>3, <1>4, <2>1 DEF RunInv
<1>16. HighestRuns'
  <2>1. OS_SchedNew' = OS_SchedNew BY <1>1 DEF OS_SchedNew
  <2>2. PrioOf(cur)' = PrioOf(t) BY <1>3, <1>4, <1>10 DEF PrioOf
  <2> QED BY <1>3, <2>1, <2>2 DEF HighestRuns
<1>17. tick' \in 0..Len(OSTCBList) /\ (tick' > 0 => OSIntNesting > 0)
  BY <1>3, <1>4 DEF TypeOK
<1>18. UNCHANGED <<tables, ring, running, OSIntNesting, OSLockNesting, stray>>
  BY <1>1, <1>4
<1>19. t \in Tasks /\ Exists(t) BY <1>3
<1>20. ecb' \in [Events -> EcbType]
       /\ \A x \in Events : ecb'[x].type = ecb[x].type /\ ecb'[x].items = ecb[x].items
  BY <1>13
<1> QED
  BY <1>2, <1>6, <1>7, <1>8, <1>9, <1>12, <1>14, <1>15, <1>16, <1>17, <1>18, <1>19, <1>20,
     OneTaskStep

-----------------------------------------------------------------------------
(* Who runs. *)

LEMMA RunsStep ==
  ASSUME IInv, ~Astray, UNCHANGED <<OSRdyTbl, tables, tcb, ecb, ring, stray>>,
         at' \in [Tasks -> {"run", "sched", "block", "wake"}],
         \A t \in Tasks : \/ at'[t] = at[t]
                          \/ at[t] \in {"run", "sched"} /\ at'[t] \in {"run", "sched"}
                          \/ at[t] = "block" /\ at'[t] = "wake",
         cur' \in Tasks \cup {Idle}, OSPrioCur' \in Prios \cup {IdlePrio},
         OSIntNesting' \in 0..MaxNest, OSLockNesting' \in 0..1, tick' \in 0..Len(OSTCBList),
         tick' > 0 => OSIntNesting' > 0, RunInv', HighestRuns'
  PROVE  IInv'
<1> USE DEF IInv
<1>1. /\ OSTCBPrioTbl' = OSTCBPrioTbl /\ OSTCBList' = OSTCBList /\ tcb' = tcb /\ ecb' = ecb
      /\ ring' = ring /\ OSRdyTbl' = OSRdyTbl /\ stray' = stray /\ ~stray
  BY DEF tables, Astray
<1>2. TypeOK' BY <1>1 DEF TypeOK
<1>3. PrioInv' /\ ListInv' /\ \A t : Exists(t)' <=> Exists(t) BY <1>1, SameTasks
<1>4. ReadyIffRunnable' BY <1>1, SameReady
<1>5. \A t : Pends(t)' = Pends(t) BY <1>1 DEF Pends
<1>6. \A t \in Tasks : at'[t] \in {"block", "wake"} <=> at[t] \in {"block", "wake"}
  BY TaskTyped
<1>7. PendInv'
  <2> SUFFICES ASSUME NEW t \in Tasks PROVE PendState(t)' BY DEF PendInv
  <2>1. PendState(t) /\ at[t] \in {"run", "sched", "block", "wake"} BY TaskTyped DEF PendInv
  <2>2. at'[t] \in {"run", "sched", "block", "wake"} OBVIOUS
  <2> QED BY <1>1, <1>3, <1>5, <1>6, <2>1, <2>2 DEF PendState
<1>8. WaitInv'
  <2>1. \A t \in Tasks, x \in Events : Listed(t, x)' <=> Listed(t, x)
    BY <1>1, <1>3, <1>5, <1>6 DEF Listed
  <2> QED BY <1>1, <1>3, <2>1 DEF WaitInv
<1>9. RingInv' /\ NoneWaitsInVain'
  BY <1>1 DEF RingInv, NoneWaitsInVain, Waiters, Contents
<1> QED BY <1>2, <1>3, <1>4, <1>7, <1>8, <1>9

\* The switch: afterwards the highest ready task has the processor.
LEMMA SwitchFacts ==
  ASSUME IInv, ~Astray, OSLockNesting = 0, SwitchTo(OS_SchedNew),
         UNCHANGED <<OSRdyTbl, tables, tcb>>
  PROVE  /\ cur' \in Tasks \cup {Idle} /\ OSPrioCur' \in Prios \cup {IdlePrio}
         /\ cur' = Idle <=> OSPrioCur' = IdlePrio
         /\ cur' \in Tasks => Exists(cur)'
         /\ PrioOf(cur)' = OS_SchedNew'
<1> USE DEF IInv
<1>1. OSTCBPrioTbl' = OSTCBPrioTbl /\ tcb' = tcb /\ OSRdyTbl' = OSRdyTbl BY DEF tables
<1> PICK n : n = OS_SchedNew OBVIOUS
<1> PICK d : d = cur' OBVIOUS
<1>2. OS_SchedNew' = n BY <1>1 DEF OS_SchedNew
<1>3. /\ n \in Prios \cup {IdlePrio} /\ (n = IdlePrio <=> OSRdyTbl = {})
      /\ n # IdlePrio => n \in Prios /\ OSTCBPrioTbl[n] \in Tasks
  BY SchedNew, Typed
<1>4. n # IdlePrio => Exists(OSTCBPrioTbl[n]) /\ tcb[OSTCBPrioTbl[n]].prio = n
                      /\ OSTCBPrioTbl[n] # Idle /\ OSTCBPrioTbl[n] # NoTask
  BY <1>3, EntryExists, TaskAssumption
<1>5. OSPrioCur' = n /\ d = (IF n = IdlePrio THEN Idle ELSE OSTCBPrioTbl[n])
  <2>1. CASE n # OSPrioCur BY <2>1 DEF SwitchTo
  <2>2. CASE n = OSPrioCur
    <3>1. d = cur /\ OSPrioCur' = n BY <2>2 DEF SwitchTo, running
    <3>2. CASE n = IdlePrio BY <2>2, <3>1, <3>2 DEF RunInv
    <3>3. CASE n # IdlePrio
      <4>1. OSTCBPrioTbl[n] = cur BY <1>3, <1>4, <2>2, <3>3 DEF Astray
      <4> QED BY <3>1, <3>3, <4>1
    <3> QED BY <3>2, <3>3
  <2> QED BY <2>1, <2>2
<1>6. d \in Tasks \cup {Idle} /\ (d = Idle <=> n = IdlePrio)
  BY <1>3, <1>4, <1>5
<1>7. d \in Tasks => Exists(d) /\ tcb[d].prio = n BY <1>4, <1>5, <1>6, TaskAssumption
<1>8. PrioOf(cur)' = n
  <2>1. CASE d = Idle BY <1>6, <2>1 DEF PrioOf
  <2>2. CASE d # Idle BY <1>1, <1>6, <1>7, <2>2, TaskAssumption DEF PrioOf
  <2> QED BY <2>1, <2>2
<1>9. d \in Tasks => Exists(cur)' BY <1>1, <1>7 DEF Exists
<1> QED BY <1>2, <1>3, <1>5, <1>6, <1>8, <1>9

LEMMA SchedStep ==
  ASSUME IInv, ~Astray, OS_Sched PROVE IInv'
<1> USE DEF IInv
<1> PICK c : c = cur OBVIOUS
<1> PICK d : d = cur' OBVIOUS
<1>1. /\ OSIntNesting = 0 /\ c \in Tasks /\ at[c] \in {"sched", "block"}
      /\ at' = [at EXCEPT ![c] = IF @ = "sched" THEN "run" ELSE "wake"]
      /\ SwitchTo(OS_SchedNew)
      /\ UNCHANGED <<OSRdyTbl, tables, tcb, ecb, ring, nesting>>
  BY DEF OS_Sched
<1>2. /\ tick' = tick /\ OSIntNesting' = OSIntNesting /\ stray' = stray
      /\ OSLockNesting' = OSLockNesting /\ OSTCBPrioTbl' = OSTCBPrioTbl /\ tcb' = tcb
      /\ UNCHANGED <<OSRdyTbl, tables, tcb, ecb, ring, stray>>
  BY <1>1 DEF nesting, tables
<1>3. at \in [Tasks -> {"run", "sched", "block", "wake"}] BY Typed
<1>4. at'[c] = IF at[c] = "sched" THEN "run" ELSE "wake" BY <1>1, <1>3
<1>5. /\ at' \in [Tasks -> {"run", "sched", "block", "wake"}]
      /\ \A t \in Tasks : \/ at'[t] = at[t]
                          \/ at[t] \in {"run", "sched"} /\ at'[t] \in {"run", "sched"}
                          \/ at[t] = "block" /\ at'[t] = "wake"
  <2>1. \A t \in Tasks \ {c} : at'[t] = at[t] BY <1>1, <1>3
  <2>2. at' \in [Tasks -> {"run", "sched", "block", "wake"}] BY <1>1, <1>3
  <2> QED BY <1>1, <1>4, <2>1, <2>2
<1>6. /\ OSIntNesting' \in 0..MaxNest /\ OSLockNesting' \in 0..1
      /\ tick' \in 0..Len(OSTCBList) /\ (tick' > 0 => OSIntNesting' > 0)
  BY <1>2 DEF TypeOK, ListInv
<1>7. /\ cur' \in Tasks \cup {Idle} /\ OSPrioCur' \in Prios \cup {IdlePrio}
      /\ RunInv' /\ HighestRuns'
  <2>1. CASE OSLockNesting = 0
    <3>1. /\ cur' \in Tasks \cup {Idle} /\ OSPrioCur' \in Prios \cup {IdlePrio}
          /\ cur' = Idle <=> OSPrioCur' = IdlePrio
          /\ cur' \in Tasks => Exists(cur)'
          /\ PrioOf(cur)' = OS_SchedNew'
      BY <1>1, <2>1, SwitchFacts
    <3>2. RunInv' BY <1>2, <2>1, <3>1 DEF RunInv
    <3>3. HighestRuns' BY <3>1 DEF HighestRuns
    <3> QED BY <3>1, <3>2, <3>3
  <2>2. CASE OSLockNesting # 0
    <3>1. cur' = c /\ OSPrioCur' = OSPrioCur BY <1>1, <2>2 DEF SwitchTo, running
    <3>2. OSLockNesting > 0 /\ OSLockNesting' > 0 BY <1>2, <2>2 DEF TypeOK
    <3>3. HighestRuns' BY <3>2 DEF HighestRuns
    <3>4. at[c] = "sched" /\ Exists(c) BY <1>1, <3>2, <2>2 DEF RunInv
    <3>5. Exists(cur)' BY <1>2, <3>1, <3>4 DEF Exists
    <3>6. cur' \in Tasks /\ at'[cur'] = "run" BY <1>1, <1>4, <3>1, <3>4
    <3>7. cur' = Idle <=> OSPrioCur' = IdlePrio BY <3>1 DEF RunInv
    <3>8. RunInv' BY <3>5, <3>6, <3>7 DEF RunInv
    <3>9. cur' \in Tasks \cup {Idle} /\ OSPrioCur' \in Prios \cup {IdlePrio}
      BY <3>1 DEF TypeOK
    <3> QED BY <3>3, <3>8, <3>9
  <2> QED BY <2>1, <2>2
<1> QED BY <1>2, <1>5, <1>6, <1>7, RunsStep

LEMMA SchedLockStep ==
  ASSUME IInv, ~Astray, OSSchedLock PROVE IInv'
<1> USE DEF IInv
<1>1. /\ InTask /\ OSLockNesting' = 1 /\ cur' = cur /\ OSPrioCur' = OSPrioCur /\ tick' = tick
      /\ OSIntNesting' = OSIntNesting /\ at' = at /\ OSTCBPrioTbl' = OSTCBPrioTbl /\ tcb' = tcb
      /\ UNCHANGED <<OSRdyTbl, tables, tcb, ecb, ring, stray>>
  BY DEF OSSchedLock, running, tables
<1>2. cur \in Tasks /\ Exists(cur) /\ at[cur] = "run" BY <1>1, InTaskExists
<1>3. HighestRuns' BY <1>1 DEF HighestRuns
<1>4. Exists(cur)' BY <1>1, <1>2 DEF Exists
<1>5. RunInv' BY <1>1, <1>2, <1>4 DEF RunInv
<1>6. at' \in [Tasks -> {"run", "sched", "block", "wake"}] BY <1>1, Typed
<1>7. /\ cur' \in Tasks \cup {Idle} /\ OSPrioCur' \in Prios \cup {IdlePrio}
      /\ OSIntNesting' \in 0..MaxNest /\ OSLockNesting' \in 0..1
      /\ tick' \in 0..Len(OSTCBList) /\ (tick' > 0 => OSIntNesting' > 0)
  BY <1>1 DEF TypeOK, ListInv
<1> QED BY <1>1, <1>3, <1>5, <1>6, <1>7, RunsStep

LEMMA SchedUnlockStep ==
  ASSUME IInv, ~Astray, OSSchedUnlock PROVE IInv'
<1> USE DEF IInv
<1>1. /\ InTask /\ OSLockNesting > 0 /\ OSLockNesting' = OSLockNesting - 1 /\ ThenSched
      /\ cur' = cur /\ OSPrioCur' = OSPrioCur /\ tick' = tick
      /\ OSIntNesting' = OSIntNesting /\ OSTCBPrioTbl' = OSTCBPrioTbl /\ tcb' = tcb
      /\ UNCHANGED <<OSRdyTbl, tables, tcb, ecb, ring, stray>>
  BY DEF OSSchedUnlock, running, tables
<1>2. cur \in Tasks /\ Exists(cur) /\ at[cur] = "run" /\ OSIntNesting = 0 BY <1>1, InTaskExists
<1>3. at' = [at EXCEPT ![cur] = "sched"] BY <1>1, <1>2 DEF ThenSched
<1>4. /\ at' \in [Tasks -> {"run", "sched", "block", "wake"}] /\ at'[cur] = "sched"
      /\ \A t \in Tasks : \/ at'[t] = at[t]
                          \/ at[t] \in {"run", "sched"} /\ at'[t] \in {"run", "sched"}
                          \/ at[t] = "block" /\ at'[t] = "wake"
  BY <1>2, <1>3, Typed
<1>5. HighestRuns' BY <1>1, <1>2, <1>4 DEF HighestRuns
<1>6. Exists(cur)' BY <1>1, <1>2 DEF Exists
<1>7. RunInv' BY <1>1, <1>2, <1>4, <1>6 DEF RunInv
<1>8. /\ cur' \in Tasks \cup {Idle} /\ OSPrioCur' \in Prios \cup {IdlePrio}
      /\ OSIntNesting' \in 0..MaxNest /\ OSLockNesting' \in 0..1
      /\ tick' \in 0..Len(OSTCBList) /\ (tick' > 0 => OSIntNesting' > 0)
  BY <1>1 DEF TypeOK, ListInv
<1> QED BY <1>1, <1>4, <1>5, <1>7, <1>8, RunsStep

LEMMA IntEnterStep ==
  ASSUME IInv, ~Astray, OSIntEnter \/ SysTick PROVE IInv'
<1> USE DEF IInv
<1>1. /\ OSIntNesting' = OSIntNesting + 1 /\ OSIntNesting < MaxNest
      /\ tick' = tick \/ tick' = IF OSTCBList = <<>> THEN 0 ELSE 1
      /\ cur' = cur /\ OSPrioCur' = OSPrioCur /\ OSLockNesting' = OSLockNesting
      /\ at' = at /\ OSTCBPrioTbl' = OSTCBPrioTbl /\ tcb' = tcb
      /\ UNCHANGED <<OSRdyTbl, tables, tcb, ecb, ring, stray>>
  BY SizeAssumption DEF OSIntEnter, SysTick, running, tables
<1>2. OSIntNesting \in 0..MaxNest /\ MaxNest \in Nat BY SizeAssumption DEF TypeOK
<1>3. OSIntNesting' \in 0..MaxNest /\ OSIntNesting' > 0 BY <1>1, <1>2
<1>4. HighestRuns' BY <1>3 DEF HighestRuns
<1>5. Exists(cur)' <=> Exists(cur) BY <1>1 DEF Exists
<1>6. RunInv' BY <1>1, <1>5 DEF RunInv
<1>7. tick' \in 0..Len(OSTCBList)
  <2>1. OSTCBList # <<>> => Len(OSTCBList) > 0 BY Typed, EmptySeq, LenProperties
  <2>2. Len(OSTCBList) \in Nat BY Typed, LenProperties
  <2> QED BY <1>1, <2>1, <2>2 DEF TypeOK
<1>8. at' \in [Tasks -> {"run", "sched", "block", "wake"}] BY <1>1, Typed
<1>9. /\ cur' \in Tasks \cup {Idle} /\ OSPrioCur' \in Prios \cup {IdlePrio}
      /\ OSLockNesting' \in 0..1
  BY <1>1 DEF TypeOK
<1> QED BY <1>1, <1>3, <1>4, <1>6, <1>7, <1>8, <1>9, RunsStep

LEMMA IntExitStep ==
  ASSUME IInv, ~Astray, OSIntExit PROVE IInv'
<1> USE DEF IInv
<1>1. /\ InISR /\ OSIntNesting' = OSIntNesting - 1
      /\ IF OSIntNesting = 1 THEN SwitchTo(OS_SchedNew) ELSE UNCHANGED running
      /\ tick' = tick /\ OSLockNesting' = OSLockNesting
      /\ at' = at /\ OSTCBPrioTbl' = OSTCBPrioTbl /\ tcb' = tcb
      /\ UNCHANGED <<OSRdyTbl, tables, tcb, ecb, ring, stray>>
  BY DEF OSIntExit, tables
<1>2. OSIntNesting \in 0..MaxNest /\ MaxNest \in Nat /\ tick \in Nat
  <2>1. Len(OSTCBList) \in Nat BY Typed, LenProperties
  <2> QED BY <2>1, SizeAssumption DEF TypeOK
<1>3. OSIntNesting > 0 /\ (tick > 0 => OSIntNesting > 1) BY <1>1, <1>2 DEF InISR
<1>4. OSIntNesting' \in 0..MaxNest /\ (tick' > 0 => OSIntNesting' > 0) BY <1>1, <1>2, <1>3
<1>5. at' \in [Tasks -> {"run", "sched", "block", "wake"}] BY <1>1, Typed
<1>6. /\ cur' \in Tasks \cup {Idle} /\ OSPrioCur' \in Prios \cup {IdlePrio}
      /\ RunInv' /\ HighestRuns'
  <2>1. CASE OSLockNesting = 0 /\ OSIntNesting = 1
    <3>1. /\ cur' \in Tasks \cup {Idle} /\ OSPrioCur' \in Prios \cup {IdlePrio}
          /\ cur' = Idle <=> OSPrioCur' = IdlePrio
          /\ cur' \in Tasks => Exists(cur)'
          /\ PrioOf(cur)' = OS_SchedNew'
      BY <1>1, <2>1, SwitchFacts
    <3>2. RunInv' BY <1>1, <2>1, <3>1 DEF RunInv
    <3>3. HighestRuns' BY <3>1 DEF HighestRuns
    <3> QED BY <3>1, <3>2, <3>3
  <2>2. CASE ~(OSLockNesting = 0 /\ OSIntNesting = 1)
    <3>1. cur' = cur /\ OSPrioCur' = OSPrioCur BY <1>1, <2>2 DEF SwitchTo, running
    <3>2. Exists(cur)' <=> Exists(cur) BY <1>1, <3>1 DEF Exists
    <3>3. RunInv' BY <1>1, <3>1, <3>2 DEF RunInv
    <3>4. OSLockNesting' > 0 \/ OSIntNesting' > 0 BY <1>1, <1>2, <1>3, <2>2 DEF TypeOK
    <3>5. HighestRuns' BY <3>4 DEF HighestRuns
    <3> QED BY <3>1, <3>3, <3>5 DEF TypeOK
  <2> QED BY <2>1, <2>2
<1>7. OSLockNesting' \in 0..1 /\ tick' \in 0..Len(OSTCBList) BY <1>1 DEF TypeOK
<1> QED BY <1>1, <1>4, <1>5, <1>6, <1>7, RunsStep

-----------------------------------------------------------------------------
(* Tasks. *)

LEMMA RemoveAt ==
  ASSUME NEW S, NEW s \in Seq(S), NEW k \in 1..Len(s), NEW r,
         r = SubSeq(s, 1, k - 1) \o SubSeq(s, k + 1, Len(s))
  PROVE  /\ r \in Seq(S) /\ Len(r) = Len(s) - 1
         /\ \A i \in 1..Len(r) : r[i] = IF i < k THEN s[i] ELSE s[i + 1]
<1> DEFINE n == Len(s)
           a == SubSeq(s, 1, k - 1)
           b == SubSeq(s, k + 1, n)
<1>1. n \in Nat /\ k \in Nat /\ k >= 1 /\ k <= n BY LenProperties
<1>2. \A i \in 1..n : s[i] \in S BY ElementOfSeq
<1>3. a \in Seq(S) /\ Len(a) = k - 1 /\ \A i \in 1..k - 1 : a[i] = s[i]
  <2>1. /\ a \in Seq(S) /\ Len(a) = IF 1 <= k - 1 THEN (k - 1) - 1 + 1 ELSE 0
        /\ \A i \in 1..(k - 1) - 1 + 1 : a[i] = s[1 + i - 1]
    <3>1. \A i \in 1..k - 1 : s[i] \in S BY <1>1, <1>2
    <3> QED BY <1>1, <3>1, SubSeqProperties
  <2> HIDE DEF a
  <2> QED BY <1>1, <2>1
<1>4. b \in Seq(S) /\ Len(b) = n - k /\ \A i \in 1..n - k : b[i] = s[k + i]
  <2>1. /\ b \in Seq(S) /\ Len(b) = IF k + 1 <= n THEN n - (k + 1) + 1 ELSE 0
        /\ \A i \in 1..n - (k + 1) + 1 : b[i] = s[(k + 1) + i - 1]
    <3>1. \A i \in k + 1..n : s[i] \in S BY <1>1, <1>2
    <3> HIDE DEF n
    <3> QED BY <1>1, <3>1, SubSeqProperties
  <2> HIDE DEF b, n
  <2> QED BY <1>1, <2>1
<1> HIDE DEF a, b, n
<1>5. /\ r \in Seq(S) /\ Len(r) = (k - 1) + (n - k)
      /\ \A i \in 1..(k - 1) + (n - k) : r[i] = IF i <= k - 1 THEN a[i] ELSE b[i - (k - 1)]
  <2>1. r = a \o b BY DEF a, b, n
  <2>2. a \in Seq(S) /\ b \in Seq(S) BY <1>3, <1>4
  <2>3. /\ a \o b \in Seq(S) /\ Len(a \o b) = Len(a) + Len(b)
        /\ \A i \in 1..Len(a) + Len(b) :
             (a \o b)[i] = IF i <= Len(a) THEN a[i] ELSE b[i - Len(a)]
    BY ONLY <2>2, ConcatProperties
  <2> QED BY <1>3, <1>4, <2>1, <2>3
<1>6. ASSUME NEW i \in 1..n - 1 PROVE r[i] = IF i < k THEN s[i] ELSE s[i + 1]
  <2>1. i \in 1..(k - 1) + (n - k) BY <1>1
  <2>2. CASE i < k
    <3>1. i \in 1..k - 1 /\ i <= k - 1 BY <1>1, <2>2
    <3> QED BY <1>3, <1>5, <2>1, <2>2, <3>1
  <2>3. CASE ~(i < k)
    <3>1. i - (k - 1) \in 1..n - k /\ ~(i <= k - 1) /\ k + (i - (k - 1)) = i + 1
      BY <1>1, <2>3
    <3> QED BY <1>4, <1>5, <2>1, <2>3, <3>1
  <2> QED BY <2>2, <2>3
<1>7. Len(r) = n - 1
  <2>1. (k - 1) + (n - k) = n - 1 BY <1>1
  <2> QED BY <1>5, <2>1
<1> QED BY <1>5, <1>6, <1>7 DEF n

LEMMA TaskCreateStep ==
  ASSUME IInv, ~Astray, NEW t \in Tasks, NEW p \in Prios, OSTaskCreate(t, p) PROVE IInv'
<1> USE DEF IInv
<1> DEFINE o == NewTcb(p)
<1> PICK c : c = cur OBVIOUS
<1>1. /\ InTask /\ ~Exists(t) /\ OSTCBPrioTbl[p] = NoTask
      /\ tcb' = [tcb EXCEPT ![t] = o] /\ OSTCBPrioTbl' = [OSTCBPrioTbl EXCEPT ![p] = t]
      /\ OSTCBList' = <<t>> \o OSTCBList /\ OSRdyTbl' = OSRdyTbl \cup {p}
      /\ at' = [at EXCEPT ![c] = "sched", ![t] = "run"]
      /\ UNCHANGED <<ecb, ring, running, nesting>>
  BY DEF OSTaskCreate
<1>2. /\ c \in Tasks /\ Exists(c) /\ at[c] = "run" /\ OSIntNesting = 0 /\ tick = 0 /\ c # t
  BY <1>1, InTaskExists
<1>3. /\ cur' = c /\ tick' = 0 /\ OSIntNesting' = 0 /\ OSPrioCur' = OSPrioCur
      /\ OSLockNesting' = OSLockNesting /\ stray' = stray /\ ~stray
  BY <1>1, <1>2 DEF running, nesting, Astray
<1>4. /\ tcb \in [Tasks -> TcbType] /\ OSTCBPrioTbl \in [Prios -> Tasks \cup {NoTask}]
      /\ at \in [Tasks -> {"run", "sched", "block", "wake"}] /\ OSRdyTbl \subseteq Prios
      /\ OSTCBList \in Seq(Tasks) /\ t # NoTask
  BY Typed, TaskAssumption
<1>5. /\ o \in TcbType /\ o.prio = p /\ o.stat = {} /\ o.pend = "ok" /\ o.dly = 0
      /\ o.ev = NoEvent /\ o.msg = NoMsg
  BY SizeAssumption DEF NewTcb, TcbType
<1> HIDE DEF o
<1>6. /\ tcb' \in [Tasks -> TcbType] /\ tcb'[t] = o /\ \A u \in Tasks \ {t} : tcb'[u] = tcb[u]
  BY <1>1, <1>4, <1>5
<1>7. /\ OSTCBPrioTbl' \in [Prios -> Tasks \cup {NoTask}] /\ OSTCBPrioTbl'[p] = t
      /\ \A q \in Prios \ {p} : OSTCBPrioTbl'[q] = OSTCBPrioTbl[q]
  BY <1>1, <1>4
<1>8. /\ at' \in [Tasks -> {"run", "sched", "block", "wake"}] /\ at'[c] = "sched"
      /\ at'[t] = "run" /\ \A u \in Tasks \ {t, c} : at'[u] = at[u]
  BY <1>1, <1>2, <1>4
<1>9. /\ Exists(t)'
      /\ \A u \in Tasks \ {t} : /\ Exists(u)' <=> Exists(u)
                                /\ Exists(u) => tcb[u].prio # p
  <2>1. Exists(t)' BY <1>5, <1>6, <1>7 DEF Exists
  <2>2. ASSUME NEW u \in Tasks \ {t} PROVE /\ Exists(u)' <=> Exists(u)
                                           /\ Exists(u) => tcb[u].prio # p
    <3>1. tcb[u].prio \in Prios /\ tcb'[u] = tcb[u] BY <1>6, TaskTyped
    <3>2. CASE tcb[u].prio = p
      <4>1. u # NoTask BY TaskAssumption
      <4> QED BY <1>1, <1>7, <3>1, <3>2, <4>1 DEF Exists
    <3>3. CASE tcb[u].prio # p BY <1>7, <3>1, <3>3 DEF Exists
    <3> QED BY <3>2, <3>3
  <2> QED BY <2>1, <2>2
<1>10. \A q \in Prios : OSTCBPrioTbl[q] # t
  <2> SUFFICES ASSUME NEW q \in Prios, OSTCBPrioTbl[q] = t PROVE FALSE OBVIOUS
  <2>1. Exists(t) BY <1>4, EntryExists
  <2> QED BY <1>1, <2>1
<1>11. PrioInv'
  <2> SUFFICES ASSUME NEW q \in Prios, OSTCBPrioTbl'[q] # NoTask
      PROVE  tcb'[OSTCBPrioTbl'[q]].prio = q
    BY DEF PrioInv
  <2>1. CASE q = p BY <1>5, <1>6, <1>7, <2>1
  <2>2. CASE q # p
    <3>1. OSTCBPrioTbl[q] \in Tasks \ {t} /\ OSTCBPrioTbl'[q] = OSTCBPrioTbl[q]
      BY <1>4, <1>7, <1>10, <2>2
    <3> QED BY <1>6, <3>1 DEF PrioInv
  <2> QED BY <2>1, <2>2
<1>12. /\ OSTCBList' \in Seq(Tasks) /\ Len(OSTCBList') = 1 + Len(OSTCBList)
       /\ OSTCBList'[1] = t /\ Len(OSTCBList) \in Nat
       /\ \A i \in 2..1 + Len(OSTCBList) : OSTCBList'[i] = OSTCBList[i - 1]
  <2>1. <<t>> \in Seq(Tasks) /\ Len(<<t>>) = 1 /\ <<t>>[1] = t OBVIOUS
  <2>2. Len(OSTCBList) \in Nat BY <1>4, LenProperties
  <2>3. PICK s : s = <<t>> \o OSTCBList OBVIOUS
  <2>4. /\ s \in Seq(Tasks) /\ Len(s) = 1 + Len(OSTCBList)
        /\ \A i \in 1..1 + Len(OSTCBList) : s[i] = IF i <= 1 THEN <<t>>[i] ELSE OSTCBList[i - 1]
    BY <1>4, <2>1, <2>3, ConcatProperties
  <2>5. s[1] = t
    <3>1. 1 \in 1..1 + Len(OSTCBList) BY <2>2
    <3> QED BY <2>1, <2>4, <3>1
  <2>6. ASSUME NEW i \in 2..1 + Len(OSTCBList) PROVE s[i] = OSTCBList[i - 1]
    <3>1. i \in 1..1 + Len(OSTCBList) /\ ~(i <= 1) BY <2>2
    <3> QED BY <2>4, <3>1
  <2> QED BY <1>1, <2>2, <2>3, <2>4, <2>5, <2>6
<1>13. ListInv'
  <2>1. ASSUME NEW i \in 1..Len(OSTCBList')
        PROVE  \/ i = 1 /\ OSTCBList'[i] = t
               \/ /\ i # 1 /\ i - 1 \in 1..Len(OSTCBList) /\ OSTCBList'[i] = OSTCBList[i - 1]
                  /\ OSTCBList[i - 1] \in Tasks \ {t} /\ Exists(OSTCBList[i - 1])
    <3>1. CASE i = 1 BY <1>12, <3>1
    <3>2. CASE i # 1
      <4>1. i \in 2..1 + Len(OSTCBList) /\ i - 1 \in 1..Len(OSTCBList) BY <1>12, <3>2
      <4>2. Exists(OSTCBList[i - 1]) BY <4>1 DEF ListInv
      <4>3. OSTCBList[i - 1] \in Tasks \ {t} BY <1>1, <4>2 DEF Exists
      <4> QED BY <1>12, <3>2, <4>1, <4>2, <4>3
    <3> QED BY <3>1, <3>2
  <2>2. ASSUME NEW i \in 1..Len(OSTCBList') PROVE Exists(OSTCBList[i])'
    <3>1. PICK u : u = OSTCBList'[i] OBVIOUS
    <3>2. Exists(u)' BY <1>9, <2>1, <3>1
    <3> QED BY <3>1, <3>2 DEF Exists
  <2>3. ASSUME NEW i \in 1..Len(OSTCBList'), NEW j \in 1..Len(OSTCBList'),
               OSTCBList'[i] = OSTCBList'[j]
        PROVE  i = j
    <3>1. i \in Nat /\ j \in Nat BY <1>12
    <3>2. CASE i = 1 \/ j = 1 BY <2>1, <2>3, <3>2
    <3>3. CASE i # 1 /\ j # 1
      <4>1. /\ i - 1 \in 1..Len(OSTCBList) /\ j - 1 \in 1..Len(OSTCBList)
            /\ OSTCBList[i - 1] = OSTCBList[j - 1]
        BY <2>1, <2>3, <3>3
      <4>2. i - 1 = j - 1 BY <4>1 DEF ListInv
      <4> QED BY <3>1, <4>2
    <3> QED BY <3>2, <3>3
  <2> QED BY <1>3, <2>2, <2>3 DEF ListInv
<1>14. TypeOK'
  <2>1. ecb' \in [Events -> EcbType] /\ ring' \in [Events -> RingType] BY <1>1, Typed
  <2>2. OSRdyTbl' \subseteq Prios BY <1>1, <1>4
  <2>3. tick' \in 0..Len(OSTCBList') BY <1>3, <1>12
  <2>4. /\ cur' \in Tasks \cup {Idle} /\ OSPrioCur' \in Prios \cup {IdlePrio}
        /\ OSIntNesting' \in 0..MaxNest /\ OSLockNesting' \in 0..1 /\ stray' \in BOOLEAN
    BY <1>2, <1>3 DEF TypeOK
  <2> QED BY <1>6, <1>7, <1>8, <1>12, <2>1, <2>2, <2>3, <2>4
          DEF TypeOK, TcbType, EcbType, RingType
<1>15. ReadyIffRunnable'
  <2>1. ASSUME NEW u \in Tasks, Exists(u)'
        PROVE  tcb'[u].prio \in OSRdyTbl' <=> Runnable(u)'
    <3>1. CASE u = t BY <1>1, <1>5, <1>6, <3>1 DEF Runnable
    <3>2. CASE u # t
      <4>1. tcb'[u] = tcb[u] /\ tcb[u].prio # p /\ Exists(u) BY <1>6, <1>9, <2>1, <3>2
      <4>2. tcb[u].prio \in OSRdyTbl <=> Runnable(u) BY <4>1 DEF ReadyIffRunnable
      <4> QED BY <1>1, <4>1, <4>2 DEF Runnable
    <3> QED BY <3>1, <3>2
  <2>2. ASSUME NEW q \in OSRdyTbl' PROVE OSTCBPrioTbl'[q] # NoTask
    <3>1. q \in Prios BY <1>1, <1>4
    <3>2. CASE q = p BY <1>4, <1>7, <3>2
    <3>3. CASE q # p BY <1>1, <1>7, <3>1, <3>3 DEF ReadyIffRunnable
    <3> QED BY <3>2, <3>3
  <2> QED BY <2>1, <2>2 DEF ReadyIffRunnable
<1>16. PendInv'
  <2> SUFFICES ASSUME NEW u \in Tasks PROVE PendState(u)' BY DEF PendInv
  <2>1. PendState(u) BY DEF PendInv
  <2>2. CASE u = t
    <3>1. Pends(t)' = {} BY <1>5, <1>6 DEF Pends
    <3> QED BY <1>5, <1>6, <1>8, <2>2, <3>1 DEF PendState
  <2>3. CASE u # t
    <3>1. tcb'[u] = tcb[u] /\ (Exists(u)' <=> Exists(u)) /\ ecb' = ecb BY <1>1, <1>6, <1>9, <2>3
    <3>2. Pends(u)' = Pends(u) BY <3>1 DEF Pends
    <3>3. \/ at'[u] = at[u]
          \/ at[u] = "run" /\ at'[u] = "sched"
      BY <1>2, <1>8, <2>3
    <3> QED BY <2>1, <3>1, <3>2, <3>3 DEF PendState
  <2> QED BY <2>2, <2>3
<1>17. WaitInv'
  <2>1. ecb' = ecb BY <1>1
  <2>2. ASSUME NEW x \in Events PROVE p \notin ecb[x].wait BY <1>1, <1>3 DEF WaitInv
  <2>3. ASSUME NEW x \in Events, NEW u \in Tasks, Exists(u)'
        PROVE  tcb'[u].prio \in ecb[x].wait <=> Listed(u, x)'
    <3>1. CASE u = t
      <4>1. ~Listed(t, x)' BY <1>8 DEF Listed
      <4> QED BY <1>5, <1>6, <2>2, <3>1, <4>1
    <3>2. CASE u # t
      <4>1. tcb'[u] = tcb[u] /\ Exists(u) BY <1>6, <1>9, <2>3, <3>2
      <4>2. tcb[u].prio \in ecb[x].wait <=> Listed(u, x) BY <1>3, <4>1 DEF WaitInv
      <4>3. at'[u] = at[u] \/ (at[u] = "run" /\ at'[u] = "sched") BY <1>2, <1>8, <3>2
      <4>4. Listed(u, x)' <=> Listed(u, x) BY <2>3, <4>1, <4>3 DEF Listed, Pends
      <4> QED BY <4>1, <4>2, <4>4
    <3> QED BY <3>1, <3>2
  <2>4. ASSUME NEW x \in Events, NEW q \in ecb[x].wait PROVE OSTCBPrioTbl'[q] # NoTask
    <3>1. q \in Prios /\ q # p BY <2>2, EventTyped
    <3> QED BY <1>3, <1>7, <3>1 DEF WaitInv
  <2> QED BY <1>3, <2>1, <2>3, <2>4 DEF WaitInv
<1>18. RunInv' /\ HighestRuns'
  <2>1. Exists(c)' BY <1>2, <1>9
  <2>2. Exists(cur)' BY <1>3, <2>1 DEF Exists
  <2>3. HighestRuns' BY <1>2, <1>3, <1>8 DEF HighestRuns
  <2>4. cur' = Idle <=> OSPrioCur' = IdlePrio BY <1>3 DEF RunInv
  <2> QED BY <1>2, <1>3, <1>8, <2>2, <2>3, <2>4 DEF RunInv
<1>19. RingInv' /\ NoneWaitsInVain'
  BY <1>1, <1>3 DEF RingInv, NoneWaitsInVain, Waiters, Contents
<1> QED BY <1>11, <1>13, <1>14, <1>15, <1>16, <1>17, <1>18, <1>19

LEMMA TaskDelStep ==
  ASSUME IInv, ~Astray, NEW t \in Tasks, OSTaskDel(t) PROVE IInv'
<1> USE DEF IInv
<1> DEFINE p == tcb[t].prio
           y == tcb[t].ev
           o == NewTcb(p)
<1> PICK c : c = cur OBVIOUS
<1>1. /\ InTask /\ Exists(t) /\ (t = c => OSLockNesting = 0)
      /\ OSRdyTbl' = OSRdyTbl \ {p}
      /\ ecb' = IF y # NoEvent THEN [ecb EXCEPT ![y].wait = @ \ {p}] ELSE ecb
      /\ OSTCBPrioTbl' = [OSTCBPrioTbl EXCEPT ![p] = NoTask]
      /\ tcb' = [tcb EXCEPT ![t] = NewTcb(@.prio)]
      /\ at' = [at EXCEPT ![t] = "run", ![c] = "sched"]
      /\ UNCHANGED <<ring, running, nesting>>
  BY DEF OSTaskDel
<1>2. /\ c \in Tasks /\ Exists(c) /\ at[c] = "run" /\ OSIntNesting = 0 /\ tick = 0
  BY <1>1, InTaskExists
<1>3. /\ cur' = c /\ tick' = 0 /\ OSIntNesting' = 0 /\ OSPrioCur' = OSPrioCur
      /\ OSLockNesting' = OSLockNesting /\ stray' = stray /\ ~stray
  BY <1>1, <1>2 DEF running, nesting, Astray
<1>4. /\ tcb \in [Tasks -> TcbType] /\ OSTCBPrioTbl \in [Prios -> Tasks \cup {NoTask}]
      /\ at \in [Tasks -> {"run", "sched", "block", "wake"}] /\ OSRdyTbl \subseteq Prios
      /\ OSTCBList \in Seq(Tasks) /\ t # NoTask /\ p \in Prios /\ y \in Events \cup {NoEvent}
      /\ ecb \in [Events -> EcbType]
  BY Typed, TaskTyped, TaskAssumption
<1>5. /\ o \in TcbType /\ o.prio = p /\ o.stat = {} /\ o.pend = "ok" /\ o.dly = 0
      /\ o.ev = NoEvent /\ o.msg = NoMsg
  BY <1>4, SizeAssumption DEF NewTcb, TcbType
<1>6. tcb' = [tcb EXCEPT ![t] = o] BY <1>1
<1> HIDE DEF o
<1>7. /\ tcb' \in [Tasks -> TcbType] /\ tcb'[t] = o /\ \A u \in Tasks \ {t} : tcb'[u] = tcb[u]
  BY <1>4, <1>5, <1>6
<1>8. /\ OSTCBPrioTbl' \in [Prios -> Tasks \cup {NoTask}] /\ OSTCBPrioTbl'[p] = NoTask
      /\ \A q \in Prios \ {p} : OSTCBPrioTbl'[q] = OSTCBPrioTbl[q]
  BY <1>1, <1>4
<1>9. /\ at' \in [Tasks -> {"run", "sched", "block", "wake"}] /\ at'[c] = "sched"
      /\ at'[t] \in {"run", "sched"} /\ \A u \in Tasks \ {t, c} : at'[u] = at[u]
  BY <1>1, <1>2, <1>4
<1>10. /\ ~Exists(t)'
       /\ \A u \in Tasks \ {t} : /\ Exists(u)' <=> Exists(u)
                                 /\ Exists(u) => tcb[u].prio # p
  <2>1. ~Exists(t)' BY <1>4, <1>5, <1>7, <1>8 DEF Exists
  <2>2. ASSUME NEW u \in Tasks \ {t} PROVE /\ Exists(u)' <=> Exists(u)
                                           /\ Exists(u) => tcb[u].prio # p
    <3>1. tcb[u].prio \in Prios /\ tcb'[u] = tcb[u] BY <1>7, TaskTyped
    <3>2. CASE tcb[u].prio = p
      <4>1. u # NoTask BY TaskAssumption
      <4> QED BY <1>1, <1>8, <3>1, <3>2, <4>1 DEF Exists
    <3>3. CASE tcb[u].prio # p BY <1>8, <3>1, <3>3 DEF Exists
    <3> QED BY <3>2, <3>3
  <2> QED BY <2>1, <2>2
<1>11. PrioInv'
  <2> SUFFICES ASSUME NEW q \in Prios, OSTCBPrioTbl'[q] # NoTask
      PROVE  tcb'[OSTCBPrioTbl'[q]].prio = q
    BY DEF PrioInv
  <2>1. q # p BY <1>8
  <2>2. OSTCBPrioTbl'[q] = OSTCBPrioTbl[q] /\ OSTCBPrioTbl[q] # NoTask BY <1>8, <2>1
  <2>3. OSTCBPrioTbl[q] \in Tasks /\ tcb[OSTCBPrioTbl[q]].prio = q BY <2>2, EntryExists
  <2>4. OSTCBPrioTbl[q] # t BY <2>1, <2>3
  <2> QED BY <1>7, <2>2, <2>3, <2>4
<1>12. PICK k \in 1..Len(OSTCBList) :
          /\ OSTCBList[k] = t
          /\ OSTCBList' = SubSeq(OSTCBList, 1, k - 1) \o SubSeq(OSTCBList, k + 1, Len(OSTCBList))
  BY DEF OSTaskDel
<1>13. /\ OSTCBList' \in Seq(Tasks) /\ Len(OSTCBList') = Len(OSTCBList) - 1
       /\ \A i \in 1..Len(OSTCBList') :
            OSTCBList'[i] = IF i < k THEN OSTCBList[i] ELSE OSTCBList[i + 1]
  <2>1. PICK r : r = OSTCBList' OBVIOUS
  <2>2. r = SubSeq(OSTCBList, 1, k - 1) \o SubSeq(OSTCBList, k + 1, Len(OSTCBList))
    BY <1>12, <2>1
  <2>3. /\ r \in Seq(Tasks) /\ Len(r) = Len(OSTCBList) - 1
        /\ \A i \in 1..Len(r) : r[i] = IF i < k THEN OSTCBList[i] ELSE OSTCBList[i + 1]
    <3>1. OSTCBList \in Seq(Tasks) BY <1>4
    <3>2. PICK l : l = OSTCBList OBVIOUS
    <3>3. l \in Seq(Tasks) /\ k \in 1..Len(l) BY <3>1, <3>2
    <3>4. r = SubSeq(l, 1, k - 1) \o SubSeq(l, k + 1, Len(l)) BY <2>2, <3>2
    <3>5. /\ r \in Seq(Tasks) /\ Len(r) = Len(l) - 1
          /\ \A i \in 1..Len(r) : r[i] = IF i < k THEN l[i] ELSE l[i + 1]
      BY ONLY <3>3, <3>4, RemoveAt
    <3> QED BY <3>2, <3>5
  <2> QED BY <2>1, <2>3
<1>14. Len(OSTCBList) \in Nat /\ Len(OSTCBList) > 0
  BY <1>4, <1>12, LenProperties
<1>15. ListInv'
  <2> DEFINE f(i) == IF i < k THEN i ELSE i + 1
  <2>1. ASSUME NEW i \in 1..Len(OSTCBList')
        PROVE  /\ f(i) \in 1..Len(OSTCBList) /\ OSTCBList'[i] = OSTCBList[f(i)]
               /\ OSTCBList[f(i)] \in Tasks \ {t} /\ Exists(OSTCBList[f(i)])
    <3>1. f(i) \in 1..Len(OSTCBList) /\ f(i) # k BY <1>13, <1>14
    <3>2. OSTCBList'[i] = OSTCBList[f(i)] BY <1>13
    <3> HIDE DEF f
    <3>3. Exists(OSTCBList[f(i)]) /\ OSTCBList[f(i)] # OSTCBList[k]
      BY <3>1 DEF ListInv
    <3> QED BY <1>12, <3>1, <3>2, <3>3 DEF Exists
  <2>2. ASSUME NEW i \in 1..Len(OSTCBList') PROVE Exists(OSTCBList[i])'
    <3>1. PICK u : u = OSTCBList'[i] OBVIOUS
    <3>2. u \in Tasks \ {t} /\ Exists(u) BY <2>1, <3>1
    <3>3. Exists(u)' BY <1>10, <3>2
    <3> QED BY <3>1, <3>3 DEF Exists
  <2>3. ASSUME NEW i \in 1..Len(OSTCBList'), NEW j \in 1..Len(OSTCBList'),
               OSTCBList'[i] = OSTCBList'[j]
        PROVE  i = j
    <3>1. /\ f(i) \in 1..Len(OSTCBList) /\ f(j) \in 1..Len(OSTCBList)
          /\ OSTCBList[f(i)] = OSTCBList[f(j)]
      BY <2>1, <2>3
    <3>2. f(i) = f(j)
      <4> HIDE DEF f
      <4> QED BY <3>1 DEF ListInv
    <3>3. i \in Nat /\ j \in Nat BY <1>13, <1>14
    <3> QED BY <3>2, <3>3
  <2> QED BY <1>3, <2>2, <2>3 DEF ListInv
<1>16. /\ ecb' \in [Events -> EcbType]
       /\ \A x \in Events : ecb'[x].type = ecb[x].type /\ ecb'[x].items = ecb[x].items
       /\ \A x \in Events : x # y => ecb'[x].wait = ecb[x].wait
       /\ y \in Events => ecb'[y].wait = ecb[y].wait \ {p}
  <2>1. CASE y # NoEvent
    <3>1. PICK z \in Events : z = y BY <1>4, <2>1
    <3>2. ecb[z].wait \ {p} \in SUBSET Prios BY EventTyped
    <3>3. PICK W \in SUBSET Prios : W = ecb[z].wait \ {p} BY <3>2
    <3>4. ecb' = [ecb EXCEPT ![z].wait = W] BY <1>1, <2>1, <3>1, <3>3
    <3>5. /\ ecb' \in [Events -> EcbType] /\ ecb'[z].wait = W
          /\ \A x \in Events : ecb'[x].type = ecb[x].type /\ ecb'[x].items = ecb[x].items
          /\ \A x \in Events : x # z => ecb'[x].wait = ecb[x].wait
      BY <1>4, <3>4 DEF EcbType
    <3> QED BY <3>1, <3>3, <3>5
  <2>2. CASE y = NoEvent BY <1>1, <1>4, <2>2, ItemAssumption
  <2> QED BY <2>1, <2>2
<1>17. TypeOK'
  <2>1. ring' \in [Events -> RingType] BY <1>1, Typed
  <2>2. OSRdyTbl' \subseteq Prios BY <1>1, <1>4
  <2>3. tick' \in 0..Len(OSTCBList') BY <1>3, <1>13, <1>14
  <2>4. /\ cur' \in Tasks \cup {Idle} /\ OSPrioCur' \in Prios \cup {IdlePrio}
        /\ OSIntNesting' \in 0..MaxNest /\ OSLockNesting' \in 0..1 /\ stray' \in BOOLEAN
    BY <1>2, <1>3 DEF TypeOK
  <2> QED BY <1>7, <1>8, <1>9, <1>13, <1>16, <2>1, <2>2, <2>3, <2>4
          DEF TypeOK, TcbType, EcbType, RingType
<1>18. ReadyIffRunnable'
  <2>1. ASSUME NEW u \in Tasks, Exists(u)'
        PROVE  tcb'[u].prio \in OSRdyTbl' <=> Runnable(u)'
    <3>1. u # t BY <1>10, <2>1
    <3>2. tcb'[u] = tcb[u] /\ tcb[u].prio # p /\ Exists(u) BY <1>7, <1>10, <2>1, <3>1
    <3>3. tcb[u].prio \in OSRdyTbl <=> Runnable(u) BY <3>2 DEF ReadyIffRunnable
    <3> QED BY <1>1, <3>2, <3>3 DEF Runnable
  <2>2. ASSUME NEW q \in OSRdyTbl' PROVE OSTCBPrioTbl'[q] # NoTask
    <3>1. q \in Prios \ {p} /\ q \in OSRdyTbl BY <1>1, <1>4
    <3> QED BY <1>8, <3>1 DEF ReadyIffRunnable
  <2> QED BY <2>1, <2>2 DEF ReadyIffRunnable
<1>19. PendInv'
  <2> SUFFICES ASSUME NEW u \in Tasks PROVE PendState(u)' BY DEF PendInv
  <2>1. PendState(u) BY DEF PendInv
  <2>2. CASE u = t
    <3>1. Pends(t)' = {} BY <1>5, <1>7 DEF Pends
    <3> QED BY <1>5, <1>7, <1>9, <2>2, <3>1 DEF PendState
  <2>3. CASE u # t
    <3>1. tcb'[u] = tcb[u] /\ (Exists(u)' <=> Exists(u)) BY <1>7, <1>10, <2>3
    <3>2. Pends(u)' = Pends(u) BY <3>1 DEF Pends
    <3>3. \/ at'[u] = at[u]
          \/ at[u] = "run" /\ at'[u] = "sched"
      BY <1>2, <1>9, <2>3
    <3>4. Pends(u) # {} => ecb'[tcb[u].ev].type = ecb[tcb[u].ev].type
      BY <1>16, <2>1, TaskTyped DEF PendState
    <3> QED BY <2>1, <3>1, <3>2, <3>3, <3>4 DEF PendState
  <2> QED BY <2>2, <2>3
<1>20. WaitInv'
  <2>1. ASSUME NEW x \in Events PROVE p \notin ecb'[x].wait
    <3>1. p \in ecb[x].wait <=> Listed(t, x) BY <1>1, <1>3 DEF WaitInv
    <3>2. CASE x = y BY <1>16, <3>2
    <3>3. CASE x # y
      <4>1. ~Listed(t, x) BY <3>3 DEF Listed
      <4> QED BY <1>16, <3>1, <3>3, <4>1
    <3> QED BY <3>2, <3>3
  <2>2. ASSUME NEW x \in Events, NEW q \in Prios, q # p
        PROVE  q \in ecb'[x].wait <=> q \in ecb[x].wait
    <3>1. CASE x = y BY <1>16, <2>2, <3>1
    <3>2. CASE x # y BY <1>16, <3>2
    <3> QED BY <3>1, <3>2
  <2>3. ASSUME NEW x \in Events, NEW u \in Tasks, Exists(u)'
        PROVE  tcb'[u].prio \in ecb'[x].wait <=> Listed(u, x)'
    <3>1. u # t BY <1>10, <2>3
    <3>2. tcb'[u] = tcb[u] /\ Exists(u) /\ tcb[u].prio # p BY <1>7, <1>10, <2>3, <3>1
    <3>3. tcb[u].prio \in ecb[x].wait <=> Listed(u, x) BY <1>3, <3>2 DEF WaitInv
    <3>4. at'[u] = at[u] \/ (at[u] = "run" /\ at'[u] = "sched") BY <1>2, <1>9, <3>1
    <3>5. Listed(u, x)' <=> Listed(u, x) BY <2>3, <3>2, <3>4 DEF Listed, Pends
    <3> QED BY <2>2, <3>2, <3>3, <3>5, TaskTyped
  <2>4. ASSUME NEW x \in Events, NEW q \in ecb'[x].wait PROVE OSTCBPrioTbl'[q] # NoTask
    <3>1. q \in Prios /\ q # p
      <4>1. ecb'[x].wait \subseteq Prios BY <1>16 DEF EcbType
      <4> QED BY <2>1, <4>1
    <3>2. q \in ecb[x].wait BY <2>2, <3>1
    <3> QED BY <1>3, <1>8, <3>1, <3>2 DEF WaitInv
  <2>5. ASSUME NEW x \in Events, ecb'[x].type = "unused" PROVE ecb'[x].wait = {}
    <3>1. ecb[x].wait = {} BY <1>3, <1>16, <2>5 DEF WaitInv
    <3> QED BY <1>16, <3>1
  <2> QED BY <1>3, <2>3, <2>4, <2>5 DEF WaitInv
<1>21. RunInv' /\ HighestRuns'
  <2>1. HighestRuns' BY <1>2, <1>3, <1>9 DEF HighestRuns
  <2>2. c # t => Exists(c)' BY <1>2, <1>10
  <2>3. ~Exists(cur)' => OSLockNesting' = 0 /\ at'[cur'] = "sched"
    <3>1. Exists(c)' => Exists(cur)' BY <1>3 DEF Exists
    <3> QED BY <1>1, <1>3, <1>9, <2>2, <3>1
  <2>4. cur' = Idle <=> OSPrioCur' = IdlePrio BY <1>3 DEF RunInv
  <2> QED BY <1>2, <1>3, <1>9, <2>1, <2>3, <2>4 DEF RunInv
<1>22. RingInv' BY <1>1 DEF RingInv
<1>23. NoneWaitsInVain'
  <2> SUFFICES ASSUME NEW x \in Events, Waiters(x)' # {} PROVE Contents(x)' = <<>>
    BY DEF NoneWaitsInVain
  <2>1. Contents(x)' = Contents(x) BY <1>1, <1>16, SameContents
  <2>2. Waiters(x) # {} BY <1>16 DEF Waiters
  <2> QED BY <1>3, <2>1, <2>2 DEF NoneWaitsInVain
<1> QED BY <1>11, <1>15, <1>17, <1>18, <1>19, <1>20, <1>21, <1>22, <1>23

LEMMA ChangePrioStep ==
  ASSUME IInv, ~Astray, NEW t \in Tasks, NEW q \in Prios, OSTaskChangePrio(t, q) PROVE IInv'
<1> USE DEF IInv
<1> DEFINE p == tcb[t].prio
           y == tcb[t].ev
           o == [tcb[t] EXCEPT !.prio = q]
<1> PICK c : c = cur OBVIOUS
<1>1. /\ InTask /\ Exists(t) /\ OSTCBPrioTbl[q] = NoTask
      /\ OSTCBPrioTbl' = [OSTCBPrioTbl EXCEPT ![p] = NoTask, ![q] = t]
      /\ OSRdyTbl' = Moved(OSRdyTbl, p, q)
      /\ ecb' = IF y # NoEvent THEN [ecb EXCEPT ![y].wait = (@ \ {p}) \cup {q}] ELSE ecb
      /\ tcb' = [tcb EXCEPT ![t].prio = q]
      /\ stray' = (y # NoEvent /\ p \notin ecb[y].wait)
      /\ ThenSched
      /\ UNCHANGED <<OSTCBList, ring, running, OSIntNesting, OSLockNesting, tick>>
  BY DEF OSTaskChangePrio
<1>2. /\ c \in Tasks /\ Exists(c) /\ at[c] = "run" /\ OSIntNesting = 0 /\ tick = 0
  BY <1>1, InTaskExists
<1>3. /\ cur' = c /\ tick' = 0 /\ OSIntNesting' = 0 /\ OSPrioCur' = OSPrioCur
      /\ OSLockNesting' = OSLockNesting /\ ~stray
  BY <1>1, <1>2 DEF running, Astray
<1>4. /\ tcb \in [Tasks -> TcbType] /\ OSTCBPrioTbl \in [Prios -> Tasks \cup {NoTask}]
      /\ at \in [Tasks -> {"run", "sched", "block", "wake"}] /\ OSRdyTbl \subseteq Prios
      /\ OSTCBList \in Seq(Tasks) /\ t # NoTask /\ p \in Prios /\ y \in Events \cup {NoEvent}
      /\ ecb \in [Events -> EcbType] /\ tcb[t] \in TcbType
  BY Typed, TaskTyped, TaskAssumption
<1>5. /\ o \in TcbType /\ o.prio = q /\ o.stat = tcb[t].stat /\ o.pend = tcb[t].pend
      /\ o.dly = tcb[t].dly /\ o.ev = tcb[t].ev /\ o.msg = tcb[t].msg
  BY <1>4 DEF TcbType
<1>6. tcb' = [tcb EXCEPT ![t] = o] BY <1>1, <1>4
<1> HIDE DEF o
<1>7. /\ tcb' \in [Tasks -> TcbType] /\ tcb'[t] = o /\ \A u \in Tasks \ {t} : tcb'[u] = tcb[u]
  BY <1>4, <1>5, <1>6
<1>8. p # q /\ OSTCBPrioTbl[p] = t BY <1>1, <1>4 DEF Exists
<1>9. /\ OSTCBPrioTbl' \in [Prios -> Tasks \cup {NoTask}] /\ OSTCBPrioTbl'[p] = NoTask
      /\ OSTCBPrioTbl'[q] = t
      /\ \A x \in Prios \ {p, q} : OSTCBPrioTbl'[x] = OSTCBPrioTbl[x]
  BY <1>1, <1>4, <1>8
<1>10. at' = [at EXCEPT ![c] = "sched"] BY <1>1, <1>2 DEF ThenSched
<1>11. /\ at' \in [Tasks -> {"run", "sched", "block", "wake"}] /\ at'[c] = "sched"
       /\ \A u \in Tasks : at'[u] = at[u] \/ (at[u] = "run" /\ at'[u] = "sched")
  BY <1>2, <1>4, <1>10
<1>12. \A u \in Tasks : /\ Exists(u)' <=> Exists(u)
                        /\ u # t /\ Exists(u) => tcb[u].prio \in Prios \ {p, q}
  <2> SUFFICES ASSUME NEW u \in Tasks
      PROVE  /\ Exists(u)' <=> Exists(u)
             /\ u # t /\ Exists(u) => tcb[u].prio \in Prios \ {p, q}
    OBVIOUS
  <2>1. CASE u = t BY <1>1, <1>5, <1>7, <1>9, <2>1 DEF Exists
  <2>2. CASE u # t
    <3>1. tcb[u].prio \in Prios /\ tcb'[u] = tcb[u] BY <1>7, <2>2, TaskTyped
    <3>2. u # NoTask BY TaskAssumption
    <3>3. CASE tcb[u].prio \in {p, q} BY <1>1, <1>8, <1>9, <2>2, <3>1, <3>2, <3>3 DEF Exists
    <3>4. CASE tcb[u].prio \notin {p, q} BY <1>9, <3>1, <3>4 DEF Exists
    <3> QED BY <3>3, <3>4
  <2> QED BY <2>1, <2>2
<1>13. PrioInv'
  <2> SUFFICES ASSUME NEW x \in Prios, OSTCBPrioTbl'[x] # NoTask
      PROVE  tcb'[OSTCBPrioTbl'[x]].prio = x
    BY DEF PrioInv
  <2>1. CASE x = q BY <1>5, <1>7, <1>9, <2>1
  <2>2. CASE x # q
    <3>1. x # p BY <1>9
    <3>2. OSTCBPrioTbl'[x] = OSTCBPrioTbl[x] /\ OSTCBPrioTbl[x] # NoTask BY <1>9, <2>2, <3>1
    <3>3. OSTCBPrioTbl[x] \in Tasks /\ tcb[OSTCBPrioTbl[x]].prio = x BY <3>2, EntryExists
    <3>4. OSTCBPrioTbl[x] # t BY <3>1, <3>3
    <3> QED BY <1>7, <3>2, <3>3, <3>4
  <2> QED BY <2>1, <2>2
<1>14. ListInv'
  <2>1. OSTCBList' = OSTCBList BY <1>1
  <2>2. ASSUME NEW i \in 1..Len(OSTCBList) PROVE Exists(OSTCBList[i])'
    <3>1. PICK u : u = OSTCBList[i] OBVIOUS
    <3>2. Exists(u) BY <3>1 DEF ListInv
    <3>3. Exists(u)' BY <1>12, <3>2 DEF Exists
    <3> QED BY <2>1, <3>1, <3>3 DEF Exists
  <2> QED BY <1>3, <2>1, <2>2 DEF ListInv
<1>15. /\ ecb' \in [Events -> EcbType]
       /\ \A x \in Events : ecb'[x].type = ecb[x].type /\ ecb'[x].items = ecb[x].items
       /\ \A x \in Events : x # y => ecb'[x].wait = ecb[x].wait
       /\ y \in Events => ecb'[y].wait = (ecb[y].wait \ {p}) \cup {q}
  <2>1. CASE y # NoEvent
    <3>1. PICK z \in Events : z = y BY <1>4, <2>1
    <3>2. (ecb[z].wait \ {p}) \cup {q} \in SUBSET Prios BY EventTyped
    <3>3. PICK W \in SUBSET Prios : W = (ecb[z].wait \ {p}) \cup {q} BY <3>2
    <3>4. ecb' = [ecb EXCEPT ![z].wait = W] BY <1>1, <2>1, <3>1, <3>3
    <3>5. /\ ecb' \in [Events -> EcbType] /\ ecb'[z].wait = W
          /\ \A x \in Events : ecb'[x].type = ecb[x].type /\ ecb'[x].items = ecb[x].items
          /\ \A x \in Events : x # z => ecb'[x].wait = ecb[x].wait
      BY <1>4, <3>4 DEF EcbType
    <3> QED BY <3>1, <3>3, <3>5
  <2>2. CASE y = NoEvent BY <1>1, <1>4, <2>2, ItemAssumption
  <2> QED BY <2>1, <2>2
<1>16. /\ p \in OSRdyTbl => OSRdyTbl' = (OSRdyTbl \ {p}) \cup {q}
       /\ p \notin OSRdyTbl => OSRdyTbl' = OSRdyTbl
       /\ q \notin OSRdyTbl
  BY <1>1 DEF Moved, ReadyIffRunnable
<1>17. TypeOK'
  <2>1. ring' \in [Events -> RingType] /\ OSTCBList' \in Seq(Tasks) BY <1>1, Typed
  <2>2. OSRdyTbl' \subseteq Prios BY <1>4, <1>16
  <2>3. tick' \in 0..Len(OSTCBList') BY <1>1 DEF TypeOK
  <2>4. /\ cur' \in Tasks \cup {Idle} /\ OSPrioCur' \in Prios \cup {IdlePrio}
        /\ OSIntNesting' \in 0..MaxNest /\ OSLockNesting' \in 0..1 /\ stray' \in BOOLEAN
    BY <1>1, <1>2, <1>3 DEF TypeOK
  <2> QED BY <1>7, <1>9, <1>11, <1>15, <2>1, <2>2, <2>3, <2>4
          DEF TypeOK, TcbType, EcbType, RingType
<1>18. ReadyIffRunnable'
  <2>1. ASSUME NEW u \in Tasks, Exists(u)'
        PROVE  tcb'[u].prio \in OSRdyTbl' <=> Runnable(u)'
    <3>1. Exists(u) BY <1>12, <2>1
    <3>2. tcb[u].prio \in OSRdyTbl <=> Runnable(u) BY <3>1 DEF ReadyIffRunnable
    <3>3. CASE u = t
      <4>1. Runnable(t)' <=> Runnable(t) BY <1>5, <1>7 DEF Runnable
      <4>2. q \in OSRdyTbl' <=> p \in OSRdyTbl BY <1>16
      <4> QED BY <1>5, <1>7, <3>2, <3>3, <4>1, <4>2
    <3>4. CASE u # t
      <4>1. tcb'[u] = tcb[u] /\ tcb[u].prio \in Prios \ {p, q} BY <1>7, <1>12, <3>1, <3>4
      <4>2. tcb[u].prio \in OSRdyTbl' <=> tcb[u].prio \in OSRdyTbl BY <1>16, <4>1
      <4> QED BY <3>2, <4>1, <4>2 DEF Runnable
    <3> QED BY <3>3, <3>4
  <2>2. ASSUME NEW x \in OSRdyTbl' PROVE OSTCBPrioTbl'[x] # NoTask
    <3>1. CASE x = q BY <1>4, <1>9, <3>1
    <3>2. CASE x # q
      <4>1. x \in Prios \ {p, q} /\ x \in OSRdyTbl BY <1>4, <1>16, <3>2
      <4> QED BY <1>9, <4>1 DEF ReadyIffRunnable
    <3> QED BY <3>1, <3>2
  <2> QED BY <2>1, <2>2 DEF ReadyIffRunnable
<1>19. \A u \in Tasks : /\ tcb'[u].stat = tcb[u].stat /\ tcb'[u].pend = tcb[u].pend
                        /\ tcb'[u].dly = tcb[u].dly /\ tcb'[u].ev = tcb[u].ev
                        /\ tcb'[u].msg = tcb[u].msg /\ Pends(u)' = Pends(u)
  BY <1>5, <1>7 DEF Pends
<1>20. PendInv'
  <2> SUFFICES ASSUME NEW u \in Tasks PROVE PendState(u)' BY DEF PendInv
  <2>1. PendState(u) BY DEF PendInv
  <2>2. Pends(u) # {} => ecb'[tcb[u].ev].type = ecb[tcb[u].ev].type
    BY <1>15, <2>1, TaskTyped DEF PendState
  <2>3. \/ at'[u] = at[u]
        \/ at[u] = "run" /\ at'[u] = "sched"
    BY <1>11
  <2> QED BY <1>12, <1>19, <2>1, <2>2, <2>3 DEF PendState
<1>21. ~stray' /\ y \in Events => p \in ecb[y].wait
  BY <1>1, ItemAssumption
<1>22. WaitInv'
  <2> SUFFICES ASSUME ~stray' PROVE WaitInv' BY DEF WaitInv
  <2>1. \A u \in Tasks, x \in Events : Listed(u, x)' <=> Listed(u, x)
    BY <1>11, <1>12, <1>19 DEF Listed
  <2>2. ASSUME NEW x \in Events, NEW u \in Tasks, Exists(u)
        PROVE  tcb'[u].prio \in ecb'[x].wait <=> Listed(u, x)
    <3>1. tcb[u].prio \in ecb[x].wait <=> Listed(u, x) BY <1>3, <2>2 DEF WaitInv
    <3>2. CASE u = t
      <4>1. CASE x = y BY <1>5, <1>7, <1>15, <1>21, <3>1, <3>2, <4>1
      <4>2. CASE x # y
        <5>1. ~Listed(t, x) BY <4>2 DEF Listed
        <5>2. q \notin ecb[x].wait BY <1>1, <1>3 DEF WaitInv
        <5> QED BY <1>5, <1>7, <1>15, <3>2, <4>2, <5>1, <5>2
      <4> QED BY <4>1, <4>2
    <3>3. CASE u # t
      <4>1. tcb'[u] = tcb[u] /\ tcb[u].prio \in Prios \ {p, q} BY <1>7, <1>12, <2>2, <3>3
      <4>2. tcb[u].prio \in ecb'[x].wait <=> tcb[u].prio \in ecb[x].wait
        <5>1. CASE x = y BY <1>15, <4>1, <5>1
        <5>2. CASE x # y BY <1>15, <5>2
        <5> QED BY <5>1, <5>2
      <4> QED BY <3>1, <4>1, <4>2
    <3> QED BY <3>2, <3>3
  <2>3. ASSUME NEW x \in Events, NEW z \in ecb'[x].wait PROVE OSTCBPrioTbl'[z] # NoTask
    <3>1. CASE z = q BY <1>4, <1>9, <3>1
    <3>2. CASE z # q
      <4>1. z \in ecb[x].wait /\ z # p
        <5>1. CASE x = y BY <1>15, <3>2, <5>1
        <5>2. CASE x # y
          <6>1. z \in ecb[x].wait BY <1>15, <5>2
          <6>2. p \notin ecb[x].wait BY <1>1, <1>3, <5>2 DEF WaitInv, Listed
          <6> QED BY <6>1, <6>2
        <5> QED BY <5>1, <5>2
      <4>2. z \in Prios BY <4>1, EventTyped
      <4> QED BY <1>3, <1>9, <3>2, <4>1, <4>2 DEF WaitInv
    <3> QED BY <3>1, <3>2
  <2>4. ASSUME NEW x \in Events, ecb'[x].type = "unused" PROVE ecb'[x].wait = {}
    <3>1. ecb[x].wait = {} BY <1>3, <1>15, <2>4 DEF WaitInv
    <3>2. x # y BY <1>21, <3>1
    <3> QED BY <1>15, <3>1, <3>2
  <2> QED BY <1>12, <2>1, <2>2, <2>3, <2>4 DEF WaitInv
<1>23. RunInv' /\ HighestRuns'
  <2>1. HighestRuns' BY <1>2, <1>3, <1>11 DEF HighestRuns
  <2>2. Exists(c)' BY <1>2, <1>12
  <2>3. Exists(cur)' BY <1>3, <2>2 DEF Exists
  <2>4. cur' = Idle <=> OSPrioCur' = IdlePrio BY <1>3 DEF RunInv
  <2> QED BY <1>2, <1>3, <1>11, <2>1, <2>3, <2>4 DEF RunInv
<1>24. RingInv' BY <1>1 DEF RingInv
<1>25. NoneWaitsInVain'
  <2> SUFFICES ASSUME ~stray', NEW x \in Events, Waiters(x)' # {} PROVE Contents(x)' = <<>>
    BY DEF NoneWaitsInVain
  <2>1. Contents(x)' = Contents(x) BY <1>1, <1>15, SameContents
  <2>2. Waiters(x) # {} BY <1>15, <1>21 DEF Waiters
  <2> QED BY <1>3, <2>1, <2>2 DEF NoneWaitsInVain
<1> QED BY <1>13, <1>14, <1>17, <1>18, <1>20, <1>22, <1>23, <1>24, <1>25

-----------------------------------------------------------------------------
(* The invariant. *)

LEMMA InitIInv == Init => IInv
<1> SUFFICES ASSUME Init PROVE IInv OBVIOUS
<1>1. PICK t \in Tasks, p \in Prios :
         /\ OSTCBPrioTbl = [q \in Prios |-> IF q = p THEN t ELSE NoTask]
         /\ OSTCBList = <<t>> /\ cur = t /\ OSPrioCur = p /\ OSRdyTbl = {p}
         /\ tcb = [u \in Tasks |-> NewTcb(p)]
  BY DEF Init
<1>2. /\ ecb = [e \in Events |-> FreeEcb] /\ ring = [e \in Events |-> EmptyRing]
      /\ at = [u \in Tasks |-> "run"]
      /\ OSIntNesting = 0 /\ OSLockNesting = 0 /\ tick = 0 /\ stray = FALSE
  BY DEF Init
<1>3. t # NoTask /\ t # Idle /\ p # IdlePrio /\ p \in Nat BY TaskAssumption, PrioAssumption
<1> DEFINE o == NewTcb(p)
<1>4. /\ o \in TcbType /\ o.prio = p /\ o.stat = {} /\ o.pend = "ok" /\ o.dly = 0
      /\ o.ev = NoEvent /\ o.msg = NoMsg
  BY SizeAssumption DEF NewTcb, TcbType
<1>5. \A u \in Tasks : tcb[u] = o BY <1>1
<1>6. tcb \in [Tasks -> TcbType] BY <1>1, <1>4
<1> HIDE DEF o
<1>7. /\ FreeEcb \in EcbType /\ FreeEcb.wait = {} /\ FreeEcb.items = <<>>
      /\ FreeEcb.type = "unused"
  BY EmptySeq DEF FreeEcb, EcbType
<1>8. EmptyRing \in RingType /\ EmptyRing.in = Wrap(EmptyRing.out + EmptyRing.entries)
  BY EmptyRingSound DEF RingSound
<1>9. <<t>> \in Seq(Tasks) /\ Len(<<t>>) = 1 /\ <<t>>[1] = t OBVIOUS
<1>10. TypeOK
  <2>1. ecb \in [Events -> EcbType] /\ ring \in [Events -> RingType] BY <1>2, <1>7, <1>8
  <2>2. OSTCBPrioTbl \in [Prios -> Tasks \cup {NoTask}] BY <1>1
  <2>3. tick \in 0..Len(OSTCBList) BY <1>1, <1>2, <1>9
  <2>4. OSIntNesting \in 0..MaxNest BY <1>2, SizeAssumption
  <2>5. OSTCBList \in Seq(Tasks) BY <1>1, <1>9
  <2> QED BY <1>1, <1>2, <1>6, <2>1, <2>2, <2>3, <2>4, <2>5 DEF TypeOK, TcbType, EcbType, RingType
<1>11. \A u : Exists(u) <=> u = t BY <1>1, <1>3, <1>4, <1>5 DEF Exists
<1>12. PrioInv BY <1>1, <1>4, <1>5 DEF PrioInv
<1>13. ListInv
  <2>1. Len(OSTCBList) = 1 /\ OSTCBList[1] = t BY <1>1, <1>9
  <2> QED BY <1>2, <1>11, <2>1 DEF ListInv
<1>14. ReadyIffRunnable BY <1>1, <1>3, <1>4, <1>5, <1>11 DEF ReadyIffRunnable, Runnable
<1>15. \A u \in Tasks : Pends(u) = {} BY <1>4, <1>5 DEF Pends
<1>16. PendInv
  <2>1. ASSUME NEW u \in Tasks PROVE PendState(u)
    <3>1. at[u] = "run" BY <1>2
    <3> QED BY <1>4, <1>5, <1>15, <3>1 DEF PendState
  <2> QED BY <2>1 DEF PendInv
<1>17. WaitInv
  <2>1. \A e \in Events : ecb[e].wait = {} BY <1>2, <1>7
  <2>2. \A u \in Tasks : at[u] = "run" BY <1>2
  <2>3. \A u, e : ~Listed(u, e) BY <2>2 DEF Listed, Exists
  <2> QED BY <2>1, <2>3 DEF WaitInv
<1>18. RunInv BY <1>1, <1>2, <1>3, <1>11 DEF RunInv
<1>19. RingInv BY <1>2, <1>8 DEF RingInv
<1>20. NoneWaitsInVain BY <1>2, <1>7 DEF NoneWaitsInVain, Waiters
<1>21. HighestRuns
  <2>1. Lowest({p}) = p
    <3>1. {p} \in SUBSET Nat /\ p \in {p} /\ \A x \in {p} : p <= x BY <1>3
    <3> QED BY <3>1, LowestIs
  <2>2. OS_SchedNew = p BY <1>1, <2>1 DEF OS_SchedNew
  <2>3. PrioOf(cur) = p BY <1>1, <1>3, <1>4, <1>5 DEF PrioOf
  <2> QED BY <2>2, <2>3 DEF HighestRuns
<1> QED
  BY <1>10, <1>12, <1>13, <1>14, <1>16, <1>17, <1>18, <1>19, <1>20, <1>21 DEF IInv

LEMMA MboxStepIInv ==
  ASSUME IInv, ~Astray, NEW e \in Events, MboxStep(e) PROVE IInv'
<1>1. CASE OSMboxCreate(e)
  <2>1. PICK s \in {<<>>} \cup {<<m>> : m \in Msgs} : Create(e, "mbox", s)
    BY <1>1 DEF OSMboxCreate
  <2>2. s \in Seq(Items)
    <3>1. CASE s = <<>> BY <3>1, EmptySeq
    <3>2. CASE s \in {<<m>> : m \in Msgs}
      <4>1. PICK m \in Msgs : s = <<m>> BY <3>2
      <4>2. m \in Items BY DEF Items
      <4> QED BY <4>1, <4>2
    <3> QED BY <3>1, <3>2
  <2> QED BY <2>1, <2>2, CreateStep
<1>2. CASE OSMboxDel(e) BY <1>2, DelStep DEF OSMboxDel
<1>3. CASE OSMboxPend(e) BY <1>3, PendStep DEF OSMboxPend
<1>4. CASE OSMboxPendAbort(e) BY <1>4, PendAbortStep DEF OSMboxPendAbort
<1>5. CASE OSMboxPostOpt(e)
  <2>1. PICK m \in Msgs, b \in BOOLEAN : Post(e, "mbox", m, b)
    BY <1>5 DEF OSMboxPost, OSMboxPostOpt
  <2>2. m \in Items BY DEF Items
  <2> QED BY <2>1, <2>2, PostStep
<1>6. CASE OSMboxAccept(e) BY <1>6, AcceptStep DEF OSMboxAccept
<1> QED BY <1>1, <1>2, <1>3, <1>4, <1>5, <1>6 DEF MboxStep

LEMMA QStepIInv ==
  ASSUME IInv, ~Astray, NEW e \in Events, QStep(e) PROVE IInv'
<1>1. CASE OSQCreate(e)
  <2>1. <<>> \in Seq(Items) BY EmptySeq
  <2> QED BY <1>1, <2>1, CreateStep DEF OSQCreate
<1>2. CASE OSQDel(e) BY <1>2, DelStep DEF OSQDel
<1>3. CASE OSQPend(e) BY <1>3, PendStep DEF OSQPend
<1>4. CASE OSQPendAbort(e) BY <1>4, PendAbortStep DEF OSQPendAbort
<1>5. CASE OSQPost(e) \/ \E m \in Msgs, b \in BOOLEAN : Post(e, "q", m, b)
  <2>1. PICK m \in Msgs, b \in BOOLEAN : Post(e, "q", m, b) BY <1>5 DEF OSQPost
  <2>2. m \in Items BY DEF Items
  <2> QED BY <2>1, <2>2, PostStep
<1>6. CASE OSQPostFront(e) BY <1>6, PostFrontStep
<1>7. CASE OSQAccept(e) BY <1>7, AcceptStep DEF OSQAccept
<1>8. CASE OSQFlush(e) BY <1>8, FlushStep
<1> QED
  BY <1>1, <1>2, <1>3, <1>4, <1>5, <1>6, <1>7, <1>8 DEF QStep, OSQPostOpt

LEMMA SemStepIInv ==
  ASSUME IInv, ~Astray, NEW e \in Events, SemStep(e) PROVE IInv'
<1>1. CASE OSSemCreate(e)
  <2>1. PICK k \in 0..SemMax : Create(e, "sem", Units(k)) BY <1>1 DEF OSSemCreate
  <2>2. Units(k) \in Seq(Items) BY UnitsTyped, SizeAssumption
  <2> QED BY <2>1, <2>2, CreateStep
<1>2. CASE OSSemDel(e) BY <1>2, DelStep DEF OSSemDel
<1>3. CASE OSSemPend(e) BY <1>3, PendStep DEF OSSemPend
<1>4. CASE OSSemPendAbort(e) BY <1>4, PendAbortStep DEF OSSemPendAbort
<1>5. CASE OSSemPost(e)
  <2>1. Unit \in Items BY DEF Items
  <2> QED BY <1>5, <2>1, PostStep DEF OSSemPost
<1>6. CASE OSSemAccept(e) BY <1>6, AcceptStep DEF OSSemAccept
<1>7. CASE OSSemSet(e) BY <1>7, SemSetStep
<1> QED BY <1>1, <1>2, <1>3, <1>4, <1>5, <1>6, <1>7 DEF SemStep

LEMMA TaskStepIInv ==
  ASSUME IInv, ~Astray, NEW t \in Tasks, TaskStep(t) PROVE IInv'
<1>1. CASE OSTaskDel(t) BY <1>1, TaskDelStep
<1>2. CASE OSTaskSuspend(t) BY <1>2, SuspendStep
<1>3. CASE OSTaskResume(t) BY <1>3, ResumeStep
<1>4. CASE OSTimeDlyResume(t) BY <1>4, TimeDlyResumeStep
<1>5. CASE \E p \in Prios : OSTaskCreate(t, p) \/ OSTaskChangePrio(t, p)
  BY <1>5, TaskCreateStep, ChangePrioStep
<1> QED BY <1>1, <1>2, <1>3, <1>4, <1>5 DEF TaskStep

LEMMA NextIInv == IInv /\ [Next]_vars => IInv'
<1> SUFFICES ASSUME IInv, [Next]_vars PROVE IInv' OBVIOUS
<1>1. CASE UNCHANGED vars
  <2>1. UNCHANGED <<OSRdyTbl, tables, tcb, ecb, ring, at, running, nesting>>
    BY <1>1 DEF vars, tables, running, nesting
  <2> QED BY <2>1, SameIInv
<1>2. ASSUME ~Astray, NEW e \in Events, MboxStep(e) \/ QStep(e) \/ SemStep(e) PROVE IInv'
  BY <1>2, MboxStepIInv, QStepIInv, SemStepIInv
<1>3. ASSUME ~Astray, NEW t \in Tasks, TaskStep(t) PROVE IInv' BY <1>3, TaskStepIInv
<1>4. ASSUME ~Astray, OSTimeDly \/ PendReturn \/ OS_Sched \/ OSSchedLock \/ OSSchedUnlock PROVE IInv'
  BY <1>4, TimeDlyStep, PendReturnStep, SchedStep, SchedLockStep, SchedUnlockStep
<1>5. ASSUME ~Astray, OSIntEnter \/ OSIntExit \/ SysTick \/ OSTimeTick PROVE IInv'
  BY <1>5, IntEnterStep, IntExitStep, TimeTickStep
<1>6. CASE Ended BY <1>1, <1>6 DEF Ended
<1> QED BY <1>1, <1>2, <1>3, <1>4, <1>5, <1>6 DEF Next

-----------------------------------------------------------------------------
(* The theorems. *)

\* The invariant holds in every state of the kernel, whatever order services,
\* interrupts and ticks come in.
THEOREM Inductive == Spec => []IInv
<1>1. Init => IInv BY InitIInv
<1>2. IInv /\ [Next]_vars => IInv' BY NextIInv
<1> QED BY <1>1, <1>2, PTL DEF Spec

\* Control blocks, tables and rings keep their types, and a waiting list holds
\* exactly the tasks that wait for its event and those that timed out and have
\* not run since.
THEOREM TablesSound == Spec => []KernelSound
<1>1. IInv => KernelSound
  <2> SUFFICES ASSUME IInv, ~stray, NEW e \in Events
      PROVE  ecb[e].wait = {tcb[t].prio : t \in {u \in Tasks : Listed(u, e)}}
    BY DEF KernelSound, WaitersListed, IInv
  <2>1. /\ \A t \in Tasks : Exists(t) => (tcb[t].prio \in ecb[e].wait <=> Listed(t, e))
        /\ \A p \in ecb[e].wait : OSTCBPrioTbl[p] # NoTask
    BY DEF IInv, WaitInv
  <2>2. ASSUME NEW p \in ecb[e].wait PROVE \E t \in Tasks : Listed(t, e) /\ tcb[t].prio = p
    <3>1. p \in Prios BY EventTyped DEF IInv
    <3>2. OSTCBPrioTbl[p] \in Tasks /\ Exists(OSTCBPrioTbl[p]) /\ tcb[OSTCBPrioTbl[p]].prio = p
      BY <2>1, <3>1, EntryExists DEF IInv
    <3> QED BY <2>1, <3>2
  <2>3. ASSUME NEW t \in Tasks, Listed(t, e) PROVE tcb[t].prio \in ecb[e].wait
    BY <2>1, <2>3 DEF Listed
  <2> QED BY <2>2, <2>3
<1> QED BY <1>1, Inductive, PTL

\* The ready table holds exactly the tasks that can run.
THEOREM ReadyTableExact == Spec => []ReadyIffRunnable
<1>1. IInv => ReadyIffRunnable BY DEF IInv
<1> QED BY <1>1, Inductive, PTL

\* No task waits at an event that has an item.
THEOREM NoWaitInVain == Spec => []NoneWaitsInVain
<1>1. IInv => NoneWaitsInVain BY DEF IInv
<1> QED BY <1>1, Inductive, PTL

\* The highest ready task has the processor, whenever tasks run and the
\* scheduler is not locked.
THEOREM HighestHasProcessor == Spec => []HighestRuns
<1>1. IInv => HighestRuns BY DEF IInv
<1> QED BY <1>1, Inductive, PTL

-----------------------------------------------------------------------------
(* Every step is a step of the channel, or changes nothing it has. *)

ChanNow == [e \in Events |-> Contents(e)]
HandNow == [t \in Tasks |-> Hand(t)]
AskNow == [t \in Tasks |-> Asks(t)]
RoomNow == [e \in Events |-> Room(e)]
AskersAt(e) == {t \in Tasks : Asks(t) = e}
ChannelStep == [Channel!Next]_(Channel!cvars)

SameTasksNow == \A t \in Tasks : Hand(t)' = Hand(t) /\ Asks(t)' = Asks(t)
SameChans == \A e \in Events : Contents(e)' = Contents(e)
SameRooms == \A e \in Events : Room(e)' = Room(e)
OthersSame(e) == \A x \in Events : x # e => Contents(x)' = Contents(x)

LEMMA SameNow ==
  /\ SameTasksNow => HandNow' = HandNow /\ AskNow' = AskNow
  /\ SameChans => ChanNow' = ChanNow
  /\ SameRooms => RoomNow' = RoomNow
  BY DEF SameTasksNow, SameChans, SameRooms, HandNow, AskNow, ChanNow, RoomNow

LEMMA AtNow ==
  /\ \A e \in Events : ChanNow[e] = Contents(e) /\ RoomNow[e] = Room(e)
  /\ \A t \in Tasks : HandNow[t] = Hand(t) /\ AskNow[t] = Asks(t)
  BY DEF HandNow, AskNow, ChanNow, RoomNow

LEMMA ChanSet ==
  ASSUME NEW e \in Events, OthersSame(e)
  PROVE  ChanNow' = [ChanNow EXCEPT ![e] = Contents(e)']
  BY DEF ChanNow, OthersSame

LEMMA TaskSet ==
  ASSUME NEW t \in Tasks, \A u \in Tasks \ {t} : Hand(u)' = Hand(u) /\ Asks(u)' = Asks(u)
  PROVE  /\ HandNow' = [HandNow EXCEPT ![t] = Hand(t)']
         /\ AskNow' = [AskNow EXCEPT ![t] = Asks(t)']
<1>1. HandNow' = [HandNow EXCEPT ![t] = Hand(t)']
  <2>1. HandNow' = [u \in Tasks |-> Hand(u)'] BY DEF HandNow
  <2>2. \A u \in Tasks : Hand(u)' = IF u = t THEN Hand(t)' ELSE HandNow[u] BY DEF HandNow
  <2>3. HandNow = [u \in Tasks |-> HandNow[u]] BY DEF HandNow
  <2> QED BY <2>1, <2>2, <2>3
<1>2. AskNow' = [AskNow EXCEPT ![t] = Asks(t)']
  <2>1. AskNow' = [u \in Tasks |-> Asks(u)'] BY DEF AskNow
  <2>2. \A u \in Tasks : Asks(u)' = IF u = t THEN Asks(t)' ELSE AskNow[u] BY DEF AskNow
  <2>3. AskNow = [u \in Tasks |-> AskNow[u]] BY DEF AskNow
  <2> QED BY <2>1, <2>2, <2>3
<1> QED BY <1>1, <1>2

\* The tasks S are answered with m.
Answers(S, m) ==
  /\ \A t \in S : Hand(t)' = m /\ Asks(t)' = NoEvent
  /\ \A t \in Tasks \ S : Hand(t)' = Hand(t) /\ Asks(t)' = Asks(t)

LEMMA AnswersNow ==
  ASSUME NEW S \in SUBSET Tasks, NEW m, Answers(S, m)
  PROVE  /\ HandNow' = [t \in Tasks |-> IF t \in S THEN m ELSE HandNow[t]]
         /\ AskNow' = [t \in Tasks |-> IF t \in S THEN NoEvent ELSE AskNow[t]]
<1>1. HandNow' = [t \in Tasks |-> Hand(t)'] /\ AskNow' = [t \in Tasks |-> Asks(t)']
  BY DEF HandNow, AskNow
<1>2. \A t \in Tasks : /\ Hand(t)' = IF t \in S THEN m ELSE HandNow[t]
                       /\ Asks(t)' = IF t \in S THEN NoEvent ELSE AskNow[t]
  BY AtNow DEF Answers
<1> QED BY <1>1, <1>2

\* The parts of the channel, by their names here.
LEMMA ChannelIs ==
  /\ \A e : Channel!Askers(e) = AskersAt(e)
  /\ \A op, x, s : Channel!Called(op, x, s) <=> Call(op, x, s)
  /\ \A S : Channel!Answered(S) <=>
              AskNow' = [t \in Tasks |-> IF t \in S THEN NoEvent ELSE AskNow[t]]
  /\ Channel!cvars = <<ChanNow, HandNow, AskNow, RoomNow, served>>
<1>1. \A e : Channel!Askers(e) = AskersAt(e) BY DEF Channel!Askers, AskersAt
<1>2. \A op, x, s : Channel!Called(op, x, s) <=> Call(op, x, s) BY DEF Channel!Called, Call
<1>3. \A S : Channel!Answered(S) <=>
              AskNow' = [t \in Tasks |-> IF t \in S THEN NoEvent ELSE AskNow[t]]
  BY DEF Channel!Answered, AskNow
<1>4. Channel!cvars = <<ChanNow, HandNow, AskNow, RoomNow, served>>
  BY DEF Channel!cvars, ChanNow, HandNow, AskNow, RoomNow
<1> QED BY <1>1, <1>2, <1>3, <1>4

LEMMA AsStutter ==
  ASSUME SameTasksNow, SameChans, SameRooms, served' = served PROVE ChannelStep
<1>1. UNCHANGED <<ChanNow, HandNow, AskNow, RoomNow, served>> BY SameNow
<1> QED BY <1>1 DEF ChannelStep, Channel!cvars, ChanNow, HandNow, AskNow, RoomNow

LEMMA AsPut ==
  ASSUME NEW e \in Events, NEW m \in Items, NEW op \in {"post", "all"}, Call(op, e, <<m>>),
         SameTasksNow, SameRooms, OthersSame(e),
         AskersAt(e) = {}, Len(Contents(e)) < Room(e), Contents(e)' = Append(Contents(e), m)
  PROVE  ChannelStep
<1>1. /\ ChanNow' = [ChanNow EXCEPT ![e] = Append(@, m)]
      /\ UNCHANGED <<HandNow, AskNow, RoomNow>> /\ Len(ChanNow[e]) < RoomNow[e]
  BY ChanSet, SameNow, AtNow
<1>2. Channel!Called(op, e, <<m>>) /\ Channel!Askers(e) = {} BY ChannelIs
<1>3. Channel!Put(e) BY <1>1, <1>2 DEF Channel!Put, ChanNow, HandNow, AskNow, RoomNow
<1> QED BY <1>3 DEF ChannelStep, Channel!Next

LEMMA AsPutFirst ==
  ASSUME NEW e \in Events, NEW m \in Items, Call("front", e, <<m>>),
         SameTasksNow, SameRooms, OthersSame(e),
         AskersAt(e) = {}, Len(Contents(e)) < Room(e), Contents(e)' = <<m>> \o Contents(e)
  PROVE  ChannelStep
<1>1. /\ ChanNow' = [ChanNow EXCEPT ![e] = <<m>> \o @]
      /\ UNCHANGED <<HandNow, AskNow, RoomNow>> /\ Len(ChanNow[e]) < RoomNow[e]
  BY ChanSet, SameNow, AtNow
<1>2. Channel!Called("front", e, <<m>>) /\ Channel!Askers(e) = {} BY ChannelIs
<1>3. Channel!PutFirst(e) BY <1>1, <1>2 DEF Channel!PutFirst, ChanNow, HandNow, AskNow, RoomNow
<1> QED BY <1>3 DEF ChannelStep, Channel!Next

\* The item goes to the tasks S.
LEMMA AsHandTo ==
  ASSUME NEW e \in Events, NEW m \in Items, NEW S \in SUBSET Tasks,
         Answers(S, m), SameChans, SameRooms, Contents(e) = <<>>
  PROVE  Channel!HandTo(e, S, m)
<1>1. /\ UNCHANGED <<ChanNow, RoomNow>> /\ ChanNow[e] = <<>>
      /\ HandNow' = [t \in Tasks |-> IF t \in S THEN m ELSE HandNow[t]]
  BY SameNow, AtNow, AnswersNow
<1>2. Channel!Answered(S) BY AnswersNow, ChannelIs
<1> QED BY <1>1, <1>2 DEF Channel!HandTo, ChanNow, HandNow, RoomNow

LEMMA AsHandOver ==
  ASSUME NEW e \in Events, NEW m \in Items, NEW op \in {"post", "front"}, Call(op, e, <<m>>),
         NEW t \in AskersAt(e), Answers({t}, m), SameChans, SameRooms, Contents(e) = <<>>
  PROVE  ChannelStep
<1>1. {t} \in SUBSET Tasks BY DEF AskersAt
<1>2. Channel!HandTo(e, {t}, m) BY <1>1, AsHandTo
<1>3. Channel!Called(op, e, <<m>>) /\ t \in Channel!Askers(e) BY ChannelIs
<1>4. Channel!HandOver(e) BY <1>2, <1>3 DEF Channel!HandOver
<1> QED BY <1>4 DEF ChannelStep, Channel!Next

LEMMA AsHandToAll ==
  ASSUME NEW e \in Events, NEW m \in Items, Call("all", e, <<m>>), AskersAt(e) # {},
         Answers(AskersAt(e), m), SameChans, SameRooms, Contents(e) = <<>>
  PROVE  ChannelStep
<1>1. AskersAt(e) \in SUBSET Tasks BY DEF AskersAt
<1>2. Channel!HandTo(e, AskersAt(e), m) BY <1>1, AsHandTo
<1>3. Channel!Called("all", e, <<m>>) /\ Channel!Askers(e) = AskersAt(e) BY ChannelIs
<1>4. Channel!HandToAll(e) BY <1>2, <1>3 DEF Channel!HandToAll
<1> QED BY <1>4 DEF ChannelStep, Channel!Next

LEMMA AsRefuse ==
  ASSUME NEW e \in Events, NEW m \in Items, Call("full", e, <<m>>),
         SameTasksNow, SameRooms, SameChans, AskersAt(e) = {}, Len(Contents(e)) >= Room(e)
  PROVE  ChannelStep
<1>1. UNCHANGED <<ChanNow, HandNow, AskNow, RoomNow>> /\ Len(ChanNow[e]) >= RoomNow[e]
  BY SameNow, AtNow
<1>2. Channel!Called("full", e, <<m>>) /\ Channel!Askers(e) = {} BY ChannelIs
<1>3. Channel!Refuse(e) BY <1>1, <1>2 DEF Channel!Refuse, ChanNow, HandNow, AskNow, RoomNow
<1> QED BY <1>3 DEF ChannelStep, Channel!Next

LEMMA AsTakeFirst ==
  ASSUME NEW e \in Events, Contents(e) # <<>>, Call("got", e, <<Head(Contents(e))>>),
         SameTasksNow, SameRooms, OthersSame(e), Contents(e)' = Tail(Contents(e))
  PROVE  ChannelStep
<1>1. /\ ChanNow' = [ChanNow EXCEPT ![e] = Tail(@)] /\ ChanNow[e] # <<>>
      /\ UNCHANGED <<HandNow, AskNow, RoomNow>>
  BY ChanSet, SameNow, AtNow
<1>2. Channel!Called("got", e, <<Head(ChanNow[e])>>) BY ChannelIs, AtNow
<1>3. Channel!TakeFirst(e) BY <1>1, <1>2 DEF Channel!TakeFirst, ChanNow, HandNow, AskNow, RoomNow
<1> QED BY <1>3 DEF ChannelStep, Channel!Next

LEMMA AsNoneLeft ==
  ASSUME NEW e \in Events, Contents(e) = <<>>, Call("empty", e, <<>>),
         SameTasksNow, SameRooms, SameChans
  PROVE  ChannelStep
<1>1. UNCHANGED <<ChanNow, HandNow, AskNow, RoomNow>> /\ ChanNow[e] = <<>> BY SameNow, AtNow
<1>2. Channel!Called("empty", e, <<>>) BY ChannelIs
<1>3. Channel!NoneLeft(e) BY <1>1, <1>2 DEF Channel!NoneLeft, ChanNow, HandNow, AskNow, RoomNow
<1> QED BY <1>3 DEF ChannelStep, Channel!Next

LEMMA AsAsk ==
  ASSUME NEW e \in Events, NEW t \in Tasks, Call("ask", e, <<t>>), Contents(e) = <<>>,
         Asks(t) = NoEvent, Hand(t) = NoMsg, Asks(t)' = e, Hand(t)' = NoMsg,
         \A u \in Tasks \ {t} : Hand(u)' = Hand(u) /\ Asks(u)' = Asks(u), SameRooms, SameChans
  PROVE  ChannelStep
<1>1. /\ UNCHANGED <<ChanNow, RoomNow>> /\ ChanNow[e] = <<>>
      /\ AskNow[t] = NoEvent /\ HandNow[t] = NoMsg
  BY SameNow, AtNow
<1>2. HandNow' = HandNow BY DEF HandNow
<1>3. AskNow' = [AskNow EXCEPT ![t] = e] BY TaskSet
<1>4. Channel!Called("ask", e, <<t>>) BY ChannelIs
<1>5. Channel!Ask(e)
  BY <1>1, <1>2, <1>3, <1>4 DEF Channel!Ask, ChanNow, HandNow, AskNow, RoomNow
<1> QED BY <1>5 DEF ChannelStep, Channel!Next

LEMMA AsReturn ==
  ASSUME NEW t \in Tasks, Call("back", t, <<Hand(t)>>), Asks(t)' = NoEvent, Hand(t)' = NoMsg,
         \A u \in Tasks \ {t} : Hand(u)' = Hand(u) /\ Asks(u)' = Asks(u), SameRooms, SameChans
  PROVE  ChannelStep
<1>1. UNCHANGED <<ChanNow, RoomNow>> BY SameNow
<1>2. HandNow' = [HandNow EXCEPT ![t] = NoMsg] /\ AskNow' = [AskNow EXCEPT ![t] = NoEvent]
  BY TaskSet
<1>3. Channel!Called("back", t, <<HandNow[t]>>) BY ChannelIs, AtNow
<1>4. Channel!Return(t)
  BY <1>1, <1>2, <1>3 DEF Channel!Return, ChanNow, HandNow, AskNow, RoomNow
<1> QED BY <1>4 DEF ChannelStep, Channel!Next

LEMMA AsKill ==
  ASSUME NEW t \in Tasks, Call("kill", t, <<>>), Asks(t)' = NoEvent, Hand(t)' = NoMsg,
         \A u \in Tasks \ {t} : Hand(u)' = Hand(u) /\ Asks(u)' = Asks(u), SameRooms, SameChans
  PROVE  ChannelStep
<1>1. UNCHANGED <<ChanNow, RoomNow>> BY SameNow
<1>2. HandNow' = [HandNow EXCEPT ![t] = NoMsg] /\ AskNow' = [AskNow EXCEPT ![t] = NoEvent]
  BY TaskSet
<1>3. Channel!Called("kill", t, <<>>) BY ChannelIs
<1>4. Channel!Kill(t)
  BY <1>1, <1>2, <1>3 DEF Channel!Kill, ChanNow, HandNow, AskNow, RoomNow
<1> QED BY <1>4 DEF ChannelStep, Channel!Next

\* The tasks S are answered with nothing, and had nothing.
LEMMA AnsweredNone ==
  ASSUME NEW S \in SUBSET Tasks, Answers(S, NoMsg), \A t \in S : Hand(t) = NoMsg
  PROVE  HandNow' = HandNow /\ Channel!Answered(S)
<1>1. \A t \in Tasks : Hand(t)' = Hand(t) BY DEF Answers
<1> QED BY <1>1, AnswersNow, ChannelIs DEF HandNow

LEMMA AsGiveUp ==
  ASSUME NEW e \in Events, Call("abort", e, <<>>), NEW t \in AskersAt(e), Answers({t}, NoMsg),
         Hand(t) = NoMsg, SameChans, SameRooms
  PROVE  ChannelStep
<1>1. {t} \in SUBSET Tasks BY DEF AskersAt
<1>2. HandNow' = HandNow /\ Channel!Answered({t}) BY <1>1, AnsweredNone
<1>3. UNCHANGED <<ChanNow, RoomNow>> BY SameNow
<1>4. Channel!Called("abort", e, <<>>) /\ t \in Channel!Askers(e) BY ChannelIs
<1>5. Channel!GiveUp(e)
  BY <1>2, <1>3, <1>4 DEF Channel!GiveUp, ChanNow, HandNow, RoomNow
<1> QED BY <1>5 DEF ChannelStep, Channel!Next

LEMMA AsAllGiveUp ==
  ASSUME NEW e \in Events, Call("abortall", e, <<>>), Answers(AskersAt(e), NoMsg),
         \A t \in AskersAt(e) : Hand(t) = NoMsg, SameChans, SameRooms
  PROVE  ChannelStep
<1>1. AskersAt(e) \in SUBSET Tasks BY DEF AskersAt
<1>2. HandNow' = HandNow /\ Channel!Answered(AskersAt(e)) BY <1>1, AnsweredNone
<1>3. UNCHANGED <<ChanNow, RoomNow>> BY SameNow
<1>4. Channel!Called("abortall", e, <<>>) /\ Channel!Askers(e) = AskersAt(e) BY ChannelIs
<1>5. Channel!AllGiveUp(e)
  BY <1>2, <1>3, <1>4 DEF Channel!AllGiveUp, ChanNow, HandNow, RoomNow
<1> QED BY <1>5 DEF ChannelStep, Channel!Next

\* What an event can be created with or set to, and its sizes.
Loaded == {<<>>} \cup {<<m>> : m \in Msgs} \cup {Units(k) : k \in 0..SemMax}

LEMMA AsMake ==
  ASSUME NEW e \in Events, NEW s \in Loaded, NEW k \in {1, QSize, SemMax}, Call("make", e, s),
         Room(e) = 0, Room(e)' = k, Len(s) <= k, Contents(e)' = s,
         OthersSame(e), \A x \in Events : x # e => Room(x)' = Room(x), SameTasksNow
  PROVE  ChannelStep
<1>1. /\ ChanNow' = [ChanNow EXCEPT ![e] = s] /\ UNCHANGED <<HandNow, AskNow>> /\ RoomNow[e] = 0
  BY ChanSet, SameNow, AtNow
<1>2. RoomNow' = [RoomNow EXCEPT ![e] = k] BY DEF RoomNow
<1>3. Channel!Called("make", e, s) BY ChannelIs
<1>4. Channel!Make(e)
  BY <1>1, <1>2, <1>3 DEF Channel!Make, ChanNow, HandNow, AskNow, RoomNow, Loaded
<1> QED BY <1>4 DEF ChannelStep, Channel!Next

LEMMA AsRemove ==
  ASSUME NEW e \in Events, Call("remove", e, <<>>), Room(e) > 0, Room(e)' = 0,
         Contents(e)' = <<>>, OthersSame(e), \A x \in Events : x # e => Room(x)' = Room(x),
         Answers(AskersAt(e), NoMsg), \A t \in AskersAt(e) : Hand(t) = NoMsg
  PROVE  ChannelStep
<1>1. AskersAt(e) \in SUBSET Tasks BY DEF AskersAt
<1>2. HandNow' = HandNow /\ Channel!Answered(AskersAt(e)) BY <1>1, AnsweredNone
<1>3. ChanNow' = [ChanNow EXCEPT ![e] = <<>>] /\ RoomNow[e] > 0 BY ChanSet, AtNow
<1>4. RoomNow' = [RoomNow EXCEPT ![e] = 0] BY DEF RoomNow
<1>5. Channel!Called("remove", e, <<>>) /\ Channel!Askers(e) = AskersAt(e) BY ChannelIs
<1>6. Channel!Remove(e)
  BY <1>2, <1>3, <1>4, <1>5 DEF Channel!Remove, ChanNow, HandNow, RoomNow
<1> QED BY <1>6 DEF ChannelStep, Channel!Next

LEMMA AsFlush ==
  ASSUME NEW e \in Events, Call("flush", e, <<>>), Contents(e)' = <<>>, OthersSame(e),
         SameTasksNow, SameRooms
  PROVE  ChannelStep
<1>1. ChanNow' = [ChanNow EXCEPT ![e] = <<>>] /\ UNCHANGED <<HandNow, AskNow, RoomNow>>
  BY ChanSet, SameNow
<1>2. Channel!Called("flush", e, <<>>) BY ChannelIs
<1>3. Channel!Flush(e) BY <1>1, <1>2 DEF Channel!Flush, ChanNow, HandNow, AskNow, RoomNow
<1> QED BY <1>3 DEF ChannelStep, Channel!Next

LEMMA AsSet ==
  ASSUME NEW e \in Events, NEW s \in Loaded, Call("set", e, s), Contents(e)' = s, OthersSame(e),
         Contents(e) # <<>> \/ AskersAt(e) = {}, Len(s) <= Room(e), SameTasksNow, SameRooms
  PROVE  ChannelStep
<1>1. /\ ChanNow' = [ChanNow EXCEPT ![e] = s] /\ UNCHANGED <<HandNow, AskNow, RoomNow>>
      /\ Len(s) <= RoomNow[e] /\ (ChanNow[e] # <<>> \/ AskersAt(e) = {})
  BY ChanSet, SameNow, AtNow
<1>2. Channel!Called("set", e, s) /\ Channel!Askers(e) = AskersAt(e) BY ChannelIs
<1>3. Channel!Set(e)
  BY <1>1, <1>2 DEF Channel!Set, ChanNow, HandNow, AskNow, RoomNow, Loaded
<1> QED BY <1>3 DEF ChannelStep, Channel!Next

-----------------------------------------------------------------------------
(* What the steps of the kernel do to items, hands and waiting tasks. *)

\* A task keeps its item and its wait while its control block and its pend go on.
LEMMA KeepsTask ==
  ASSUME NEW t, tcb'[t].msg = tcb[t].msg, tcb'[t].pend = tcb[t].pend,
         tcb'[t].ev = tcb[t].ev, Pends(t)' = {} <=> Pends(t) = {},
         at'[t] = at[t] \/ (at[t] \in {"run", "sched"} /\ at'[t] \in {"run", "sched"})
           \/ (at[t] = "block" /\ at'[t] = "wake")
  PROVE  Hand(t)' = Hand(t) /\ Asks(t)' = Asks(t)
<1>1. InPend(t)' <=> InPend(t) BY DEF InPend
<1>2. Result(t)' = Result(t) BY DEF Result
<1>3. Hand(t)' = Hand(t) BY <1>1, <1>2 DEF Hand
<1>4. Asks(t)' = Asks(t) BY <1>1 DEF Asks
<1> QED BY <1>3, <1>4

LEMMA SameTask ==
  ASSUME NEW t, tcb'[t] = tcb[t],
         at'[t] = at[t] \/ (at[t] \in {"run", "sched"} /\ at'[t] \in {"run", "sched"})
           \/ (at[t] = "block" /\ at'[t] = "wake")
  PROVE  Hand(t)' = Hand(t) /\ Asks(t)' = Asks(t)
<1>1. Pends(t)' = Pends(t) BY DEF Pends
<1> QED BY <1>1, KeepsTask

\* A task that is in no pend has nothing in its hand and asks nobody.
LEMMA OutOfPend ==
  ASSUME NEW t, at[t] \in {"run", "sched"}
  PROVE  Hand(t) = NoMsg /\ Asks(t) = NoEvent
<1>1. ~InPend(t) BY DEF InPend
<1> QED BY <1>1 DEF Hand, Asks

LEMMA SameItems ==
  ASSUME \A x \in Events : ecb'[x].type = ecb[x].type /\ ecb'[x].items = ecb[x].items,
         ring' = ring
  PROVE  SameChans /\ SameRooms
<1>1. SameChans BY SameContents DEF SameChans
<1>2. SameRooms BY DEF SameRooms, Room
<1> QED BY <1>1, <1>2

LEMMA OnlyRooms ==
  ASSUME NEW e, OnlyItems(e)
  PROVE  SameRooms /\ OthersSame(e)
  BY DEF OnlyItems, OthersSame, SameRooms, Room

LEMMA NoTaskMoves ==
  ASSUME tcb' = tcb, at' = at PROVE SameTasksNow
  BY SameTask DEF SameTasksNow

LEMMA AsQuiet ==
  ASSUME \A t \in Tasks : Hand(t)' = Hand(t) /\ Asks(t)' = Asks(t),
         \A x \in Events : ecb'[x].type = ecb[x].type /\ ecb'[x].items = ecb[x].items,
         ring' = ring, served' = served
  PROVE  ChannelStep
  BY SameItems, AsStutter DEF SameTasksNow

\* The room of an event in use.
LEMMA RoomIs ==
  ASSUME NEW e, ecb[e].type \in {"mbox", "q", "sem"}
  PROVE  /\ Room(e) = Capacity(ecb[e].type) /\ Room(e) \in {1, QSize, SemMax} /\ Room(e) > 0
         /\ ecb[e].type = "q" => Room(e) = QSize
         /\ ecb[e].type = "sem" => Room(e) = SemMax
  BY SizeAssumption DEF Room, Capacity

\* The tasks that ask are those on the waiting list whose wait goes on or has
\* timed out: all of them.
LEMMA AsksIff ==
  ASSUME IInv, ~Astray, NEW e \in Events, NEW t \in Tasks
  PROVE  t \in AskersAt(e) <=> Exists(t) /\ tcb[t].prio \in Waiters(e)
<1>1. e # NoEvent BY ItemAssumption
<1>2. Asks(t) = e <=> InPend(t) /\ (Pends(t) # {} \/ tcb[t].pend = "to") /\ tcb[t].ev = e
  BY <1>1 DEF Asks
<1>3. InPend(t) => Exists(t) BY DEF IInv, PendInv, PendState, InPend
<1>4. Asks(t) = e <=> Listed(t, e) BY <1>2, <1>3 DEF Listed, InPend
<1>5. Exists(t) => (tcb[t].prio \in Waiters(e) <=> Listed(t, e))
  BY DEF IInv, WaitInv, Astray, Waiters
<1>6. Listed(t, e) => Exists(t) BY DEF Listed
<1> QED BY <1>4, <1>5, <1>6 DEF AskersAt

LEMMA AskersWoken ==
  ASSUME IInv, ~Astray, NEW e \in Events
  PROVE  /\ AskersAt(e) = Woken(Waiters(e))
         /\ \A P \in SUBSET Waiters(e) : Woken(P) \in SUBSET AskersAt(e)
         /\ Waiters(e) = {} => AskersAt(e) = {}
<1>1. Waiters(e) \in SUBSET Prios /\ \A p \in Waiters(e) : OSTCBPrioTbl[p] # NoTask
  BY EventTyped DEF IInv, WaitInv, Astray, Waiters
<1>2. \A P \in SUBSET Waiters(e), t \in Tasks :
        t \in Woken(P) <=> Exists(t) /\ tcb[t].prio \in P
  BY <1>1, WokenIff DEF IInv
<1>3. \A P \in SUBSET Waiters(e) : Woken(P) \subseteq Tasks
  BY <1>1, Typed DEF Woken, IInv
<1>4. AskersAt(e) \subseteq Tasks BY DEF AskersAt
<1>5. AskersAt(e) = Woken(Waiters(e)) BY <1>2, <1>3, <1>4, AsksIff
<1>6. \A P \in SUBSET Waiters(e) : Woken(P) \subseteq Woken(Waiters(e)) BY DEF Woken
<1>7. Waiters(e) = {} => Woken(Waiters(e)) = {} BY DEF Woken
<1> QED BY <1>5, <1>6, <1>7

\* The code reads the oldest item.
LEMMA FirstIsHead ==
  ASSUME TypeOK, NEW e \in Events, Contents(e) # <<>>
  PROVE  First(e) = Head(Contents(e))
<1>1. CASE ecb[e].type = "q"
  <2>1. PICK q : q = ring[e] OBVIOUS
  <2>2. q \in RingType /\ q.out \in 0..QSize - 1 /\ q.entries \in 0..QSize
    BY <2>1, EventTyped
  <2>3. /\ RingItems(q) \in Seq(Vals) /\ Len(RingItems(q)) = q.entries
        /\ \A i \in 1..q.entries : RingItems(q)[i] = q.buf[Wrap(q.out + i - 1)]
    BY <2>2, RingItemsSeq
  <2>4. Contents(e) = RingItems(q) BY <1>1, <2>1 DEF Contents
  <2>5. q.entries # 0 BY <2>3, <2>4, EmptySeq
  <2>6. 1 \in 1..q.entries BY <2>2, <2>5, SizeAssumption
  <2>7. Wrap(q.out + 1 - 1) = q.out BY <2>2, SizeAssumption DEF Wrap
  <2>8. RingItems(q)[1] = q.buf[q.out] BY <2>3, <2>6, <2>7
  <2>9. Head(RingItems(q)) = RingItems(q)[1] BY <2>3, <2>4, HeadTailProperties
  <2> QED BY <1>1, <2>1, <2>4, <2>8, <2>9 DEF First
<1>2. CASE ecb[e].type # "q" BY <1>2 DEF First, Contents
<1> QED BY <1>1, <1>2

LEMMA AddChannel ==
  ASSUME IInv, ~Astray, NEW e \in Events, NEW m \in Items, ecb[e].type = "q" => m \in Msgs,
         ecb[e].type \in {"mbox", "q", "sem"}, Waiters(e) = {}, Add(e, m),
         NEW op \in {"post", "all"}, Call(op, e, <<m>>), tcb' = tcb, at' = at
  PROVE  ChannelStep
<1>1. OnlyItems(e) /\ Contents(e)' = Append(Contents(e), m) BY AddAppends DEF IInv
<1>2. SameRooms /\ OthersSame(e) BY <1>1, OnlyRooms
<1>3. Len(Contents(e)) < Room(e) BY RoomIs DEF Add
<1>4. AskersAt(e) = {} BY AskersWoken
<1> QED BY <1>1, <1>2, <1>3, <1>4, NoTaskMoves, AsPut

LEMMA TakeChannel ==
  ASSUME IInv, NEW e \in Events, Take(e), tcb' = tcb, at' = at
  PROVE  ChannelStep
<1>1. OnlyItems(e) /\ Contents(e) # <<>> /\ Contents(e)' = Tail(Contents(e))
  BY TakeRemoves DEF IInv
<1>2. SameRooms /\ OthersSame(e) BY <1>1, OnlyRooms
<1>3. First(e) = Head(Contents(e)) BY <1>1, FirstIsHead DEF IInv
<1>4. Call("got", e, <<First(e)>>) BY DEF Take
<1> QED BY <1>1, <1>2, <1>3, <1>4, NoTaskMoves, AsTakeFirst

LEMMA AcceptChannel ==
  ASSUME IInv, NEW e \in Events, NEW type, Accept(e, type)
  PROVE  ChannelStep
<1>1. tcb' = tcb /\ at' = at BY DEF Accept
<1>2. CASE Take(e) BY <1>1, <1>2, TakeChannel
<1>3. CASE Contents(e) = <<>> /\ Call("empty", e, <<>>) /\ UNCHANGED <<ecb, ring>>
  BY <1>1, <1>3, SameItems, NoTaskMoves, AsNoneLeft
<1> QED BY <1>2, <1>3 DEF Accept

LEMMA RefusedChannel ==
  ASSUME IInv, ~Astray, NEW e \in Events, NEW m \in Items,
         ecb[e].type \in {"mbox", "q", "sem"}, Refused(e, m)
  PROVE  ChannelStep
<1>1. /\ Waiters(e) = {} /\ Len(Contents(e)) >= Room(e) /\ Call("full", e, <<m>>)
      /\ tcb' = tcb /\ at' = at /\ ecb' = ecb /\ ring' = ring
  BY RoomIs DEF Refused
<1>2. AskersAt(e) = {} BY <1>1, AskersWoken
<1> QED BY <1>1, <1>2, SameItems, NoTaskMoves, AsRefuse

\* The caller of a service goes on to OS_Sched, or it is an interrupt.
LEMMA SchedAt ==
  ASSUME IInv, InCode, ThenSched, NEW u \in Tasks
  PROVE  at'[u] = at[u] \/ (InTask /\ u = cur /\ at'[u] = "sched")
<1>1. CASE OSIntNesting = 0
  <2>1. InTask /\ cur \in Tasks BY <1>1, InCodeCases, InTaskExists
  <2>2. at' = [at EXCEPT ![cur] = "sched"] BY <1>1 DEF ThenSched
  <2> QED BY <2>1, <2>2, Typed DEF IInv
<1>2. CASE OSIntNesting # 0 BY <1>2 DEF ThenSched
<1> QED BY <1>1, <1>2

\* The woken tasks had no item, what they are given is in their hands, and
\* they ask no longer.
LEMMA WokenHands ==
  ASSUME IInv, ~Astray, NEW e \in Events, NEW P \in SUBSET Waiters(e),
         NEW m \in Vals, NEW result \in {"ok", "abort"}, Readied(e, P, m, result),
         \A u \in Tasks : at'[u] = at[u] \/ (InTask /\ u = cur /\ at'[u] = "sched")
  PROVE  /\ Woken(P) \in SUBSET AskersAt(e) /\ \A t \in Woken(P) : Hand(t) = NoMsg
         /\ Answers(Woken(P), IF result = "ok" THEN m ELSE NoMsg)
<1>1. /\ \A t \in Tasks : t \in Woken(P) <=> Exists(t) /\ tcb[t].prio \in P
      /\ \A t \in Tasks : t \notin Woken(P) => tcb'[t] = tcb[t]
      /\ \A t \in Woken(P) :
           t \in Tasks /\ tcb'[t].msg = m /\ tcb'[t].pend = result /\ Pends(t)' = {}
  BY WokenFacts
<1>2. ASSUME NEW t \in Woken(P)
      PROVE  /\ Hand(t) = NoMsg /\ Asks(t)' = NoEvent
             /\ Hand(t)' = IF result = "ok" THEN m ELSE NoMsg
  <2>1. t \in Tasks /\ Exists(t) /\ tcb[t].prio \in Waiters(e) BY <1>1, <1>2
  <2>2. at[t] \in {"block", "wake"} /\ Hand(t) = NoMsg /\ (InTask => t # cur)
    BY <2>1, WaiterFacts
  <2>3. InPend(t)' BY <2>1, <2>2 DEF InPend
  <2>4. Hand(t)' = IF result = "ok" THEN m ELSE NoMsg
    BY <1>1, <1>2, <2>3 DEF Hand, Result
  <2>5. Asks(t)' = NoEvent
    <3>1. Pends(t)' = {} /\ tcb'[t].pend # "to" BY <1>1, <1>2
    <3> QED BY <3>1 DEF Asks
  <2> QED BY <2>2, <2>4, <2>5
<1>3. ASSUME NEW t \in Tasks \ Woken(P) PROVE Hand(t)' = Hand(t) /\ Asks(t)' = Asks(t)
  <2>1. tcb'[t] = tcb[t] BY <1>1, <1>3
  <2>2. InTask /\ t = cur => at[t] = "run" BY InTaskExists
  <2> QED BY <1>3, <2>1, <2>2, SameTask
<1>4. Woken(P) \in SUBSET AskersAt(e) BY AskersWoken
<1> QED BY <1>2, <1>3, <1>4 DEF Answers

\* A post or an abort answers the highest waiter, or all of them.
LEMMA ReadyAnswers ==
  ASSUME IInv, ~Astray, InCode, NEW e \in Events, Waiters(e) # {}, NEW b \in BOOLEAN,
         NEW m \in Vals, NEW result \in {"ok", "abort"}, NEW x,
         x = IF result = "ok" THEN m ELSE NoMsg,
         OS_EventTaskRdy(e, Chosen(e, b), m, result), ThenSched, ring' = ring,
         UNCHANGED <<tables, running, nesting>>
  PROVE  /\ SameChans /\ SameRooms /\ Contents(e) = <<>>
         /\ AskersAt(e) # {} /\ \A t \in AskersAt(e) : Hand(t) = NoMsg
         /\ b => Answers(AskersAt(e), x)
         /\ ~b => \E t \in AskersAt(e) : Answers({t}, x)
<1>1. PICK P : P = Chosen(e, b) OBVIOUS
<1>2. P \in SUBSET Waiters(e) /\ P # {} BY <1>1, ChosenWaiters
<1>3. Readied(e, P, m, result) BY <1>1 DEF OS_EventTaskRdy
<1>4. \A y \in Events : ecb'[y].type = ecb[y].type /\ ecb'[y].items = ecb[y].items
  BY TaskRdyStep
<1>5. SameChans /\ SameRooms BY <1>4, SameItems
<1>6. \A u \in Tasks : at'[u] = at[u] \/ (InTask /\ u = cur /\ at'[u] = "sched") BY SchedAt
<1>7. Woken(P) \in SUBSET AskersAt(e) /\ Answers(Woken(P), x)
  BY <1>2, <1>3, <1>6, WokenHands
<1>8. Woken(P) # {} BY <1>2 DEF Woken
<1>9. Contents(e) = <<>> BY DEF IInv, NoneWaitsInVain, Astray
<1>10. ASSUME NEW t \in AskersAt(e) PROVE Hand(t) = NoMsg
  <2>1. t \in Tasks BY DEF AskersAt
  <2>2. Exists(t) /\ tcb[t].prio \in Waiters(e) BY <2>1, AsksIff
  <2> QED BY <2>1, <2>2, WaiterFacts
<1>11. b => Answers(AskersAt(e), x)
  <2>1. b => P = Waiters(e) BY <1>1 DEF Chosen
  <2> QED BY <1>7, <2>1, AskersWoken
<1>12. ~b => \E t \in AskersAt(e) : Answers({t}, x)
  <2>1. SUFFICES ASSUME ~b PROVE \E t \in AskersAt(e) : Answers({t}, x) OBVIOUS
  <2>2. P = {Lowest(Waiters(e))} BY <1>1, <2>1 DEF Chosen
  <2>3. PICK t : t = OSTCBPrioTbl[Lowest(Waiters(e))] OBVIOUS
  <2>4. Woken(P) = {t} BY <2>2, <2>3 DEF Woken
  <2> QED BY <1>7, <2>4
<1> QED BY <1>5, <1>7, <1>8, <1>9, <1>10, <1>11, <1>12

LEMMA HandedChannel ==
  ASSUME IInv, ~Astray, InCode, NEW e \in Events, NEW m \in Items, NEW b \in BOOLEAN,
         Handed(e, m, b), UNCHANGED <<tables, running, nesting>>,
         NEW op, Call(op, e, <<m>>), IF b THEN op = "all" ELSE op \in {"post", "front"}
  PROVE  ChannelStep
<1>1. /\ Waiters(e) # {} /\ OS_EventTaskRdy(e, Chosen(e, b), m, "ok") /\ ThenSched
      /\ ring' = ring
  BY DEF Handed
<1>2. m \in Vals BY DEF Vals
<1>3. /\ SameChans /\ SameRooms /\ Contents(e) = <<>> /\ AskersAt(e) # {}
      /\ b => Answers(AskersAt(e), m)
      /\ ~b => \E t \in AskersAt(e) : Answers({t}, m)
  BY <1>1, <1>2, ReadyAnswers
<1>4. CASE b BY <1>3, <1>4, AsHandToAll
<1>5. CASE ~b
  <2>1. PICK t \in AskersAt(e) : Answers({t}, m) BY <1>3, <1>5
  <2> QED BY <1>3, <1>5, <2>1, AsHandOver
<1> QED BY <1>4, <1>5

LEMMA PendAbortChannel ==
  ASSUME IInv, ~Astray, NEW e \in Events, NEW type, PendAbort(e, type)
  PROVE  ChannelStep
<1>1. PICK b \in BOOLEAN :
        /\ InCode /\ Waiters(e) # {} /\ OS_EventTaskRdy(e, Chosen(e, b), NoMsg, "abort")
        /\ ThenSched /\ Call(IF b THEN "abortall" ELSE "abort", e, <<>>)
        /\ UNCHANGED <<tables, ring, running, nesting>>
  BY DEF PendAbort
<1>2. NoMsg \in Vals BY DEF Vals
<1>3. /\ SameChans /\ SameRooms /\ \A t \in AskersAt(e) : Hand(t) = NoMsg
      /\ b => Answers(AskersAt(e), NoMsg)
      /\ ~b => \E t \in AskersAt(e) : Answers({t}, NoMsg)
  BY <1>1, <1>2, ReadyAnswers
<1>4. CASE b BY <1>1, <1>3, <1>4, AsAllGiveUp
<1>5. CASE ~b
  <2>1. PICK t \in AskersAt(e) : Answers({t}, NoMsg) BY <1>3, <1>5
  <2> QED BY <1>1, <1>3, <1>5, <2>1, AsGiveUp
<1> QED BY <1>4, <1>5

LEMMA DelChannel ==
  ASSUME IInv, ~Astray, NEW e \in Events, NEW type \in {"mbox", "q", "sem"}, Del(e, type)
  PROVE  ChannelStep
<1>1. /\ InTask /\ ecb[e].type = type /\ Readied(e, Waiters(e), NoMsg, "ok")
      /\ ecb' = [ecb EXCEPT ![e] = FreeEcb] /\ ring' = [ring EXCEPT ![e] = EmptyRing]
      /\ at' = IF Waiters(e) # {} THEN [at EXCEPT ![cur] = "sched"] ELSE at
      /\ Call("remove", e, <<>>)
  BY DEF Del
<1>2. PICK P : P = Waiters(e) OBVIOUS
<1>3. /\ Contents(e)' = <<>> /\ ecb'[e].type = "unused"
      /\ \A x \in Events : x # e => ecb'[x] = ecb[x] /\ Contents(x)' = Contents(x)
  BY <1>1, DelClears
<1>4. cur \in Tasks BY <1>1, InTaskExists
<1>5. \A u \in Tasks : at'[u] = at[u] \/ (InTask /\ u = cur /\ at'[u] = "sched")
  BY <1>1, <1>4, Typed DEF IInv
<1>6. NoMsg \in Vals BY DEF Vals
<1>7. Answers(Woken(P), NoMsg) /\ \A t \in Woken(P) : Hand(t) = NoMsg
  BY <1>1, <1>2, <1>5, <1>6, WokenHands
<1>8. Answers(AskersAt(e), NoMsg) /\ \A t \in AskersAt(e) : Hand(t) = NoMsg
  BY <1>2, <1>7, AskersWoken
<1>9. /\ Room(e) > 0 /\ Room(e)' = 0 /\ \A x \in Events : x # e => Room(x)' = Room(x)
  <2>1. Room(e)' = 0 /\ \A x \in Events : x # e => Room(x)' = Room(x) BY <1>3 DEF Room
  <2> QED BY <1>1, <2>1, RoomIs
<1>10. OthersSame(e) BY <1>3 DEF OthersSame
<1> QED BY <1>1, <1>3, <1>8, <1>9, <1>10, AsRemove

LEMMA PostChannel ==
  ASSUME IInv, ~Astray, NEW e \in Events, NEW type \in {"mbox", "q", "sem"},
         NEW m \in Items, type = "q" => m \in Msgs, NEW b \in BOOLEAN, Post(e, type, m, b)
  PROVE  ChannelStep
<1>1. InCode /\ ecb[e].type = type /\ UNCHANGED <<tables, running, nesting>> BY DEF Post
<1>2. PICK op : op = IF b THEN "all" ELSE "post" OBVIOUS
<1>3. CASE Handed(e, m, b) /\ Posted(e, m, b)
  BY <1>1, <1>2, <1>3, HandedChannel DEF Posted
<1>4. CASE /\ Waiters(e) = {} /\ Add(e, m)
           /\ UNCHANGED <<OSRdyTbl, tcb, at>> /\ Posted(e, m, b)
  BY <1>1, <1>2, <1>4, AddChannel DEF Posted
<1>5. CASE Refused(e, m) BY <1>1, <1>5, RefusedChannel
<1> QED BY <1>3, <1>4, <1>5 DEF Post

LEMMA PostFrontChannel ==
  ASSUME IInv, ~Astray, NEW e \in Events, OSQPostFront(e) PROVE ChannelStep
<1>1. PICK m \in Msgs :
        /\ InCode /\ ecb[e].type = "q"
        /\ \/ Handed(e, m, FALSE) /\ Call("front", e, <<m>>)
           \/ /\ Waiters(e) = {} /\ Len(Contents(e)) < QSize
              /\ ring' = [ring EXCEPT ![e] = RingPutFront(@, m)]
              /\ UNCHANGED <<OSRdyTbl, tcb, at, ecb>> /\ Call("front", e, <<m>>)
           \/ Refused(e, m)
        /\ UNCHANGED <<tables, running, nesting>>
  BY DEF OSQPostFront
<1>2. m \in Items BY DEF Items
<1>3. CASE Handed(e, m, FALSE) /\ Call("front", e, <<m>>)
  BY <1>1, <1>2, <1>3, HandedChannel
<1>4. CASE /\ Waiters(e) = {} /\ Len(Contents(e)) < QSize
           /\ ring' = [ring EXCEPT ![e] = RingPutFront(@, m)]
           /\ UNCHANGED <<OSRdyTbl, tcb, at, ecb>> /\ Call("front", e, <<m>>)
  <2>1. OnlyItems(e) /\ Contents(e)' = <<m>> \o Contents(e) BY <1>1, <1>4, PutFrontPrepends
  <2>2. SameRooms /\ OthersSame(e) BY <2>1, OnlyRooms
  <2>3. Len(Contents(e)) < Room(e) BY <1>1, <1>4, RoomIs
  <2>4. AskersAt(e) = {} BY <1>4, AskersWoken
  <2> QED BY <1>2, <1>4, <2>1, <2>2, <2>3, <2>4, NoTaskMoves, AsPutFirst
<1>5. CASE Refused(e, m) BY <1>1, <1>2, <1>5, RefusedChannel
<1> QED BY <1>1, <1>3, <1>4, <1>5

LEMMA PendChannel ==
  ASSUME IInv, NEW e \in Events, NEW type \in {"mbox", "q", "sem"}, NEW d, Pend(e, type, d)
  PROVE  ChannelStep
<1>1. CASE Take(e) /\ UNCHANGED <<OSRdyTbl, tcb, at>> BY <1>1, TakeChannel
<1>2. CASE /\ Contents(e) = <<>> /\ OS_EventTaskWait(e, type, d)
           /\ UNCHANGED ring /\ Call("ask", e, <<cur>>)
  <2>1. PICK c : c = cur OBVIOUS
  <2>2. /\ c \in Tasks /\ at[c] = "run" /\ tcb[c].msg = NoMsg
    BY <2>1, InTaskExists DEF Pend
  <2>3. /\ tcb' = [tcb EXCEPT ![c] = [tcb[c] EXCEPT !.stat = @ \cup {type},
                                         !.pend = "ok", !.dly = d, !.ev = e]]
        /\ ecb' = [ecb EXCEPT ![e].wait = @ \cup {tcb[c].prio}]
        /\ at' = [at EXCEPT ![c] = "block"]
    BY <1>2, <2>1 DEF OS_EventTaskWait
  <2>4. /\ tcb \in [Tasks -> TcbType] /\ ecb \in [Events -> EcbType]
        /\ at \in [Tasks -> {"run", "sched", "block", "wake"}]
    BY Typed DEF IInv
  <2>5. /\ tcb'[c].msg = NoMsg /\ tcb'[c].pend = "ok" /\ tcb'[c].ev = e
        /\ tcb'[c].stat = tcb[c].stat \cup {type} /\ at'[c] = "block"
        /\ \A u \in Tasks \ {c} : tcb'[u] = tcb[u] /\ at'[u] = at[u]
    BY <2>2, <2>3, <2>4 DEF TcbType
  <2>6. \A x \in Events : ecb'[x].type = ecb[x].type /\ ecb'[x].items = ecb[x].items
    BY <2>3, <2>4 DEF EcbType
  <2>7. Hand(c)' = NoMsg BY <2>5 DEF Hand, Result
  <2>8. Asks(c)' = e
    <3>1. type \in Types
      <4>1. ecb[e].type = type /\ ecb[e].type \in Types \cup {"unused"}
        BY EventTyped DEF IInv, Pend
      <4> QED BY <4>1
    <3>2. Pends(c)' # {} BY <2>5, <3>1 DEF Pends
    <3>3. InPend(c)' BY <2>5 DEF InPend
    <3> QED BY <2>5, <3>2, <3>3 DEF Asks
  <2>9. Hand(c) = NoMsg /\ Asks(c) = NoEvent BY <2>2, OutOfPend
  <2>10. \A u \in Tasks \ {c} : Hand(u)' = Hand(u) /\ Asks(u)' = Asks(u) BY <2>5, SameTask
  <2>11. SameChans /\ SameRooms BY <1>2, <2>6, SameItems
  <2> QED BY <1>2, <2>1, <2>2, <2>7, <2>8, <2>9, <2>10, <2>11, AsAsk
<1> QED BY <1>1, <1>2 DEF Pend

LEMMA FlushChannel ==
  ASSUME IInv, NEW e \in Events, OSQFlush(e) PROVE ChannelStep
<1>1. OnlyItems(e) /\ Contents(e)' = <<>> BY FlushEmpties DEF OSQFlush
<1>2. SameRooms /\ OthersSame(e) BY <1>1, OnlyRooms
<1>3. SameTasksNow BY NoTaskMoves DEF OSQFlush
<1> QED BY <1>1, <1>2, <1>3, AsFlush DEF OSQFlush

LEMMA SetChannel ==
  ASSUME IInv, ~Astray, NEW e \in Events, OSSemSet(e) PROVE ChannelStep
<1>1. PICK k \in 0..SemMax :
        /\ ecb[e].type = "sem"
        /\ ecb[e].items # <<>> \/ Waiters(e) = {}
        /\ ecb' = [ecb EXCEPT ![e].items = Units(k)] /\ Call("set", e, Units(k))
        /\ UNCHANGED <<OSRdyTbl, tables, tcb, ring, at, running, nesting>>
  BY DEF OSSemSet
<1>2. k \in Nat /\ k <= SemMax BY SizeAssumption
<1>3. OnlyItems(e) /\ Contents(e)' = Units(k) BY <1>1, <1>2, SetCount
<1>4. SameRooms /\ OthersSame(e) BY <1>3, OnlyRooms
<1>5. SameTasksNow BY <1>1, NoTaskMoves
<1>6. PICK s : s = Units(k) OBVIOUS
<1>7. s \in Loaded BY <1>6 DEF Loaded
<1>8. Len(s) <= Room(e) BY <1>1, <1>2, <1>6, UnitsTyped, RoomIs
<1>9. Contents(e) # <<>> \/ AskersAt(e) = {}
  <2>1. Contents(e) = ecb[e].items BY <1>1 DEF Contents
  <2> QED BY <1>1, <2>1, AskersWoken
<1> QED BY <1>1, <1>3, <1>4, <1>5, <1>6, <1>7, <1>8, <1>9, AsSet

LEMMA CreateChannel ==
  ASSUME IInv, ~Astray, NEW e \in Events, NEW type \in {"mbox", "q", "sem"}, NEW s \in Seq(Items),
         s \in Loaded, Len(s) <= Capacity(type), type = "q" => s = <<>>, Create(e, type, s)
  PROVE  ChannelStep
<1>1. /\ type \in Types /\ ecb[e].type = "unused" /\ Call("make", e, s)
      /\ ecb' = [ecb EXCEPT ![e] = [type |-> type, items |-> s, wait |-> {}]]
      /\ tcb' = tcb /\ at' = at
  BY DEF Create
<1>2. OthersSame(e) /\ Contents(e)' = s BY CreateStep DEF OthersSame
<1>3. ecb'[e].type = type /\ \A x \in Events : x # e => ecb'[x] = ecb[x]
  <2>1. ecb \in [Events -> EcbType] BY Typed DEF IInv
  <2> QED BY <1>1, <2>1
<1>4. Room(e) = 0 /\ Room(e)' = Capacity(type) /\ \A x \in Events : x # e => Room(x)' = Room(x)
  BY <1>1, <1>3 DEF Room
<1>5. PICK k \in {1, QSize, SemMax} : k = Capacity(type) BY DEF Capacity
<1>6. SameTasksNow BY <1>1, NoTaskMoves
<1> QED BY <1>1, <1>2, <1>4, <1>5, <1>6, AsMake

LEMMA CreatedChannel ==
  ASSUME IInv, ~Astray, NEW e \in Events, OSMboxCreate(e) \/ OSQCreate(e) \/ OSSemCreate(e)
  PROVE  ChannelStep
<1>1. /\ Capacity("mbox") = 1 /\ Capacity("q") = QSize /\ Capacity("sem") = SemMax
      /\ QSize \in Nat /\ SemMax \in Nat
  BY SizeAssumption DEF Capacity
<1>2. CASE Create(e, "mbox", <<>>) \/ OSQCreate(e)
  <2>1. PICK s : s = <<>> OBVIOUS
  <2>2. s \in Seq(Items) /\ s \in Loaded BY <2>1, EmptySeq DEF Loaded
  <2>3. Len(s) = 0 BY <2>1
  <2>4. Len(s) <= Capacity("mbox") /\ Len(s) <= Capacity("q") BY <1>1, <2>3
  <2>5. Create(e, "mbox", s) \/ Create(e, "q", s) BY <1>2, <2>1 DEF OSQCreate
  <2> QED BY <2>1, <2>2, <2>4, <2>5, CreateChannel
<1>3. CASE \E m \in Msgs : Create(e, "mbox", <<m>>)
  <2>1. PICK m \in Msgs : Create(e, "mbox", <<m>>) BY <1>3
  <2>2. PICK s : s = <<m>> OBVIOUS
  <2>3. m \in Items BY DEF Items
  <2>4. s \in Seq(Items) /\ Len(s) = 1 BY <2>2, <2>3
  <2>5. s \in Loaded BY <2>2 DEF Loaded
  <2>6. Len(s) <= Capacity("mbox") BY <1>1, <2>4
  <2>7. Create(e, "mbox", s) BY <2>1, <2>2
  <2> QED BY <2>4, <2>5, <2>6, <2>7, CreateChannel
<1>4. CASE OSSemCreate(e)
  <2>1. PICK k \in 0..SemMax : Create(e, "sem", Units(k)) BY <1>4 DEF OSSemCreate
  <2>2. k \in Nat /\ k <= SemMax BY <1>1
  <2>3. Units(k) \in Seq(Items) /\ Len(Units(k)) = k BY <2>2, UnitsTyped
  <2>4. Units(k) \in Loaded BY DEF Loaded
  <2> QED BY <1>1, <2>1, <2>2, <2>3, <2>4, CreateChannel
<1> QED BY <1>2, <1>3, <1>4 DEF OSMboxCreate

LEMMA EventChannel ==
  ASSUME IInv, ~Astray, NEW e \in Events, MboxStep(e) \/ QStep(e) \/ SemStep(e)
  PROVE  ChannelStep
<1>1. Unit \in Items BY DEF Items
<1>2. CASE OSMboxCreate(e) \/ OSQCreate(e) \/ OSSemCreate(e) BY <1>2, CreatedChannel
<1>3. CASE OSMboxDel(e) \/ OSQDel(e) \/ OSSemDel(e)
  BY <1>3, DelChannel DEF OSMboxDel, OSQDel, OSSemDel
<1>4. CASE OSMboxPend(e) \/ OSQPend(e) \/ OSSemPend(e)
  BY <1>4, PendChannel DEF OSMboxPend, OSQPend, OSSemPend
<1>5. CASE OSMboxPendAbort(e) \/ OSQPendAbort(e) \/ OSSemPendAbort(e)
  BY <1>5, PendAbortChannel DEF OSMboxPendAbort, OSQPendAbort, OSSemPendAbort
<1>6. CASE OSMboxAccept(e) \/ OSQAccept(e) \/ OSSemAccept(e)
  BY <1>6, AcceptChannel DEF OSMboxAccept, OSQAccept, OSSemAccept
<1>7. CASE OSSemPost(e) BY <1>1, <1>7, PostChannel DEF OSSemPost
<1>8. CASE \E m \in Msgs, b \in BOOLEAN, type \in {"mbox", "q"} : Post(e, type, m, b)
  <2>1. PICK m \in Msgs, b \in BOOLEAN, type \in {"mbox", "q"} : Post(e, type, m, b) BY <1>8
  <2>2. m \in Items BY DEF Items
  <2> QED BY <2>1, <2>2, PostChannel
<1>9. CASE OSQPostFront(e) BY <1>9, PostFrontChannel
<1>10. CASE OSQFlush(e) BY <1>10, FlushChannel
<1>11. CASE OSSemSet(e) BY <1>11, SetChannel
<1>12. OSMboxPostOpt(e) \/ OSQPost(e) =>
         \E m \in Msgs, b \in BOOLEAN, type \in {"mbox", "q"} : Post(e, type, m, b)
  BY DEF OSMboxPost, OSMboxPostOpt, OSQPost
<1>13. OSQPostOpt(e) =>
         \/ OSQPostFront(e)
         \/ \E m \in Msgs, b \in BOOLEAN, type \in {"mbox", "q"} : Post(e, type, m, b)
  BY <1>12 DEF OSQPostOpt
<1> QED BY <1>2, <1>3, <1>4, <1>5, <1>6, <1>7, <1>8, <1>9, <1>10, <1>11, <1>12, <1>13
        DEF MboxStep, QStep, SemStep

\* Only the waiting list of one event changes.
LEMMA OnlyWait ==
  ASSUME TypeOK, NEW y, NEW W,
         ecb' = IF y \in Events THEN [ecb EXCEPT ![y].wait = W] ELSE ecb
  PROVE  \A x \in Events : ecb'[x].type = ecb[x].type /\ ecb'[x].items = ecb[x].items
<1>1. ecb \in [Events -> EcbType] BY Typed
<1>2. CASE y \in Events BY <1>1, <1>2 DEF EcbType
<1>3. CASE y \notin Events BY <1>3
<1> QED BY <1>2, <1>3

LEMMA PendReturnChannel ==
  ASSUME IInv, ~Astray, PendReturn PROVE ChannelStep
<1>1. PICK t : t = cur OBVIOUS
<1>2. PICK y : y = tcb[t].ev OBVIOUS
<1>3. t \in Tasks /\ y \in Events /\ at[t] = "wake" BY <1>1, <1>2, PendReturnFacts
<1>4. tcb \in [Tasks -> TcbType] /\ at \in [Tasks -> {"run", "sched", "block", "wake"}]
  BY Typed DEF IInv
<1>5. /\ \A u \in Tasks \ {t} : tcb'[u] = tcb[u] /\ at'[u] = at[u]
      /\ at'[t] = "run" /\ ring' = ring /\ Call("back", t, <<Result(t)>>)
  BY <1>1, <1>3, <1>4 DEF PendReturn
<1>6. \A x \in Events : ecb'[x].type = ecb[x].type /\ ecb'[x].items = ecb[x].items
  <2>1. CASE tcb[t].pend = "to"
    <3> PICK W : W = ecb[y].wait \ {tcb[t].prio} OBVIOUS
    <3>1. ecb' = [ecb EXCEPT ![y].wait = W] BY <1>1, <1>2, <2>1 DEF PendReturn
    <3> QED BY <1>3, <3>1, OnlyWait DEF IInv
  <2>2. CASE tcb[t].pend # "to" BY <1>1, <2>2 DEF PendReturn
  <2> QED BY <2>1, <2>2
<1>7. Hand(t) = Result(t) BY <1>3 DEF Hand, InPend
<1>8. Hand(t)' = NoMsg /\ Asks(t)' = NoEvent BY <1>5 DEF Hand, Asks, InPend
<1>9. \A u \in Tasks \ {t} : Hand(u)' = Hand(u) /\ Asks(u)' = Asks(u) BY <1>5, SameTask
<1>10. SameChans /\ SameRooms BY <1>5, <1>6, SameItems
<1> QED BY <1>3, <1>5, <1>7, <1>8, <1>9, <1>10, AsReturn

LEMMA TaskDelChannel ==
  ASSUME IInv, ~Astray, NEW t \in Tasks, OSTaskDel(t) PROVE ChannelStep
<1>1. PICK c : c = cur OBVIOUS
<1>2. PICK y : y = tcb[t].ev OBVIOUS
<1>3. PICK p : p = tcb[t].prio OBVIOUS
<1>4. c \in Tasks /\ at[c] = "run" BY <1>1, InTaskExists DEF OSTaskDel
<1>5. /\ tcb \in [Tasks -> TcbType] /\ at \in [Tasks -> {"run", "sched", "block", "wake"}]
      /\ y \in Events \cup {NoEvent}
  BY <1>2, Typed, TaskTyped DEF IInv
<1>6. /\ tcb' = [tcb EXCEPT ![t] = NewTcb(@.prio)] /\ at' = [at EXCEPT ![t] = "run", ![c] = "sched"]
      /\ ecb' = IF y # NoEvent THEN [ecb EXCEPT ![y].wait = @ \ {p}] ELSE ecb
      /\ ring' = ring /\ Call("kill", t, <<>>)
  BY <1>1, <1>2, <1>3 DEF OSTaskDel
<1>7. /\ \A u \in Tasks \ {t} : tcb'[u] = tcb[u]
      /\ \A u \in Tasks \ {t} : at'[u] = at[u] \/ (at[u] = "run" /\ at'[u] = "sched")
      /\ at'[t] \in {"run", "sched"}
  BY <1>4, <1>5, <1>6
<1>8. \A x \in Events : ecb'[x].type = ecb[x].type /\ ecb'[x].items = ecb[x].items
  <2>1. CASE y \in Events
    <3> PICK W : W = ecb[y].wait \ {p} OBVIOUS
    <3>1. y # NoEvent BY <2>1, ItemAssumption
    <3>2. ecb' = [ecb EXCEPT ![y].wait = W] BY <1>6, <3>1
    <3> QED BY <2>1, <3>2, OnlyWait DEF IInv
  <2>2. CASE y = NoEvent BY <1>6, <2>2
  <2> QED BY <1>5, <2>1, <2>2
<1>9. Hand(t)' = NoMsg /\ Asks(t)' = NoEvent BY <1>7 DEF Hand, Asks, InPend
<1>10. \A u \in Tasks \ {t} : Hand(u)' = Hand(u) /\ Asks(u)' = Asks(u) BY <1>7, SameTask
<1>11. SameChans /\ SameRooms BY <1>6, <1>8, SameItems
<1> QED BY <1>6, <1>9, <1>10, <1>11, AsKill

\* No control block's message or event changes, no wait ends and the events stay.
LEMMA QuietChannel ==
  ASSUME \A x \in Events : ecb'[x].type = ecb[x].type /\ ecb'[x].items = ecb[x].items,
         ring' = ring, served' = served,
         \A u \in Tasks : /\ tcb'[u].msg = tcb[u].msg /\ tcb'[u].pend = tcb[u].pend
                          /\ tcb'[u].ev = tcb[u].ev /\ Pends(u)' = Pends(u),
         \A u \in Tasks : \/ at'[u] = at[u]
                          \/ at[u] \in {"run", "sched"} /\ at'[u] \in {"run", "sched"}
                          \/ at[u] = "block" /\ at'[u] = "wake"
  PROVE  ChannelStep
<1>1. \A u \in Tasks : Hand(u)' = Hand(u) /\ Asks(u)' = Asks(u) BY KeepsTask
<1> QED BY <1>1, AsQuiet

\* A wait that ends by time had nothing in the hand, and the task still asks
\* until it runs.
LEMMA ExpiredHand ==
  ASSUME IInv, ~Astray, NEW t \in Tasks, tcb[t].dly > 0, tcb'[t] = Expired(t),
         at'[t] = at[t] \/ (at[t] = "run" /\ at'[t] = "sched")
  PROVE  Hand(t)' = Hand(t) /\ Asks(t)' = Asks(t)
<1>1. PICK o : o = Expired(t) OBVIOUS
<1>2. /\ o.msg = tcb[t].msg /\ o.ev = tcb[t].ev
      /\ \/ o.pend = tcb[t].pend /\ o.stat \cap Types = Pends(t)
         \/ Pends(t) # {} /\ o.pend = "to"
  BY <1>1, ExpiredFacts
<1>3. Pends(t)' = o.stat \cap Types BY <1>1 DEF Pends
<1>4. CASE o.pend = tcb[t].pend /\ o.stat \cap Types = Pends(t)
  BY <1>1, <1>2, <1>3, <1>4, KeepsTask
<1>5. CASE Pends(t) # {} /\ o.pend = "to"
  <2>1. tcb[t].msg = NoMsg BY <1>5 DEF IInv, PendInv, PendState
  <2>2. InPend(t)' <=> InPend(t) BY DEF InPend
  <2>3. Hand(t)' = Hand(t) BY <1>1, <1>5, <2>1, <2>2 DEF Hand, Result
  <2>4. Asks(t)' = Asks(t) BY <1>1, <1>2, <1>5, <2>2 DEF Asks
  <2> QED BY <2>3, <2>4
<1> QED BY <1>2, <1>4, <1>5

LEMMA TimeChannel ==
  ASSUME IInv, ~Astray, OSTimeDly \/ OSTimeTick \/ \E t \in Tasks : OSTimeDlyResume(t)
  PROVE  ChannelStep
<1>1. /\ tcb \in [Tasks -> TcbType] /\ at \in [Tasks -> {"run", "sched", "block", "wake"}]
      /\ OSTCBList \in Seq(Tasks)
  BY Typed DEF IInv
<1>2. CASE OSTimeDly
  <2>1. PICK c : c = cur OBVIOUS
  <2>2. PICK d \in 1..MaxDly :
          /\ InTask /\ tcb' = [tcb EXCEPT ![c].dly = d] /\ at' = [at EXCEPT ![c] = "sched"]
          /\ ecb' = ecb /\ ring' = ring /\ served' = served
    BY <1>2, <2>1 DEF OSTimeDly
  <2>3. c \in Tasks /\ at[c] = "run" BY <2>1, <2>2, InTaskExists
  <2>4. \A u \in Tasks : /\ tcb'[u].msg = tcb[u].msg /\ tcb'[u].pend = tcb[u].pend
                         /\ tcb'[u].ev = tcb[u].ev /\ tcb'[u].stat = tcb[u].stat
    BY <1>1, <2>2, <2>3 DEF TcbType
  <2>5. \A u \in Tasks : Pends(u)' = Pends(u) BY <2>4 DEF Pends
  <2> QED BY <1>1, <2>2, <2>3, <2>4, <2>5, QuietChannel
<1>3. CASE \E t \in Tasks : OSTimeDlyResume(t)
  <2>1. PICK t \in Tasks : OSTimeDlyResume(t) BY <1>3
  <2>2. /\ InTask /\ tcb[t].dly > 0 /\ tcb' = [tcb EXCEPT ![t] = Expired(t)]
        /\ IF "suspend" \in tcb[t].stat THEN UNCHANGED at ELSE ThenSched
        /\ ecb' = ecb /\ ring' = ring /\ served' = served
    BY <2>1 DEF OSTimeDlyResume
  <2>3. InCode BY <2>2 DEF InCode
  <2>4. \A u \in Tasks : at'[u] = at[u] \/ (InTask /\ u = cur /\ at'[u] = "sched")
    BY <2>2, <2>3, SchedAt
  <2>5. \A u \in Tasks : at'[u] = at[u] \/ (at[u] = "run" /\ at'[u] = "sched")
    BY <2>4, InTaskExists
  <2>6. tcb'[t] = Expired(t) /\ \A u \in Tasks \ {t} : tcb'[u] = tcb[u] BY <1>1, <2>2
  <2>7. \A u \in Tasks : Hand(u)' = Hand(u) /\ Asks(u)' = Asks(u)
    BY <2>2, <2>5, <2>6, ExpiredHand, SameTask
  <2> QED BY <2>2, <2>7, AsQuiet
<1>4. CASE OSTimeTick
  <2>1. PICK t : t = OSTCBList[tick] OBVIOUS
  <2>2. t \in Tasks
    <3>1. tick \in 1..Len(OSTCBList) BY <1>4, LenProperties DEF OSTimeTick, IInv, TypeOK
    <3> QED BY <1>1, <2>1, <3>1, ElementOfSeq
  <2>3. /\ at' = at /\ ecb' = ecb /\ ring' = ring /\ served' = served BY <1>4 DEF OSTimeTick
  <2>4. CASE tcb' = tcb
    <3>1. \A u \in Tasks : Hand(u)' = Hand(u) /\ Asks(u)' = Asks(u) BY <2>3, <2>4, SameTask
    <3> QED BY <2>3, <3>1, AsQuiet
  <2>5. CASE tcb[t].dly = 1 /\ tcb' = [tcb EXCEPT ![t] = Expired(t)]
    <3>1. tcb'[t] = Expired(t) /\ \A u \in Tasks \ {t} : tcb'[u] = tcb[u]
      BY <1>1, <2>2, <2>5
    <3>2. tcb[t].dly > 0 BY <2>5
    <3>3. \A u \in Tasks : Hand(u)' = Hand(u) /\ Asks(u)' = Asks(u)
      BY <2>2, <2>3, <3>1, <3>2, ExpiredHand, SameTask
    <3> QED BY <2>3, <3>3, AsQuiet
  <2>6. CASE tcb' = [tcb EXCEPT ![t].dly = @ - 1]
    <3>1. \A u \in Tasks : /\ tcb'[u].msg = tcb[u].msg /\ tcb'[u].pend = tcb[u].pend
                           /\ tcb'[u].ev = tcb[u].ev /\ tcb'[u].stat = tcb[u].stat
      BY <1>1, <2>2, <2>6 DEF TcbType
    <3>2. \A u \in Tasks : Pends(u)' = Pends(u) BY <3>1 DEF Pends
    <3> QED BY <2>3, <3>1, <3>2, QuietChannel
  <2> QED BY <1>4, <2>1, <2>4, <2>5, <2>6 DEF OSTimeTick
<1> QED BY <1>2, <1>3, <1>4

LEMMA TaskChannel ==
  ASSUME IInv, ~Astray, NEW t \in Tasks, TaskStep(t)
  PROVE  ChannelStep
<1>1. /\ tcb \in [Tasks -> TcbType] /\ at \in [Tasks -> {"run", "sched", "block", "wake"}]
      /\ "suspend" \notin Types
  BY Typed, TypesAssumption DEF IInv
<1>2. PICK c : c = cur OBVIOUS
<1>3. InTask => c \in Tasks /\ at[c] = "run" /\ InCode BY <1>2, InTaskExists DEF InCode
<1>4. CASE OSTaskDel(t) BY <1>4, TaskDelChannel
<1>5. CASE OSTimeDlyResume(t) BY <1>5, TimeChannel
<1>6. CASE OSTaskSuspend(t)
  <2>1. /\ InTask /\ tcb' = [tcb EXCEPT ![t].stat = @ \cup {"suspend"}]
        /\ at' = IF t = c THEN [at EXCEPT ![c] = "sched"] ELSE at
        /\ ecb' = ecb /\ ring' = ring /\ served' = served
    BY <1>2, <1>6 DEF OSTaskSuspend
  <2>2. \A u \in Tasks : /\ tcb'[u].msg = tcb[u].msg /\ tcb'[u].pend = tcb[u].pend
                         /\ tcb'[u].ev = tcb[u].ev
                         /\ tcb'[u].stat = IF u = t THEN tcb[u].stat \cup {"suspend"} ELSE tcb[u].stat
    BY <1>1, <2>1 DEF TcbType
  <2>3. \A u \in Tasks : Pends(u)' = Pends(u) BY <1>1, <2>2 DEF Pends
  <2>4. \A u \in Tasks : at'[u] = at[u] \/ (at[u] = "run" /\ at'[u] = "sched")
    BY <1>1, <1>3, <2>1
  <2> QED BY <2>1, <2>2, <2>3, <2>4, QuietChannel
<1>7. CASE OSTaskResume(t)
  <2>1. /\ InTask /\ tcb' = [tcb EXCEPT ![t].stat = @ \ {"suspend"}]
        /\ at' = at \/ ThenSched
        /\ ecb' = ecb /\ ring' = ring /\ served' = served
    BY <1>7 DEF OSTaskResume
  <2>2. \A u \in Tasks : /\ tcb'[u].msg = tcb[u].msg /\ tcb'[u].pend = tcb[u].pend
                         /\ tcb'[u].ev = tcb[u].ev
                         /\ tcb'[u].stat = IF u = t THEN tcb[u].stat \ {"suspend"} ELSE tcb[u].stat
    BY <1>1, <2>1 DEF TcbType
  <2>3. \A u \in Tasks : Pends(u)' = Pends(u) BY <1>1, <2>2 DEF Pends
  <2>4. \A u \in Tasks : at'[u] = at[u] \/ (InTask /\ u = cur /\ at'[u] = "sched")
    BY <1>3, <2>1, SchedAt
  <2>5. \A u \in Tasks : at'[u] = at[u] \/ (at[u] = "run" /\ at'[u] = "sched")
    BY <1>2, <1>3, <2>4
  <2> QED BY <2>1, <2>2, <2>3, <2>5, QuietChannel
<1>8. CASE \E p \in Prios : OSTaskCreate(t, p)
  <2>1. PICK p \in Prios : OSTaskCreate(t, p) BY <1>8
  <2>2. /\ InTask /\ ~Exists(t) /\ tcb' = [tcb EXCEPT ![t] = NewTcb(p)]
        /\ at' = [at EXCEPT ![c] = "sched", ![t] = "run"]
        /\ ecb' = ecb /\ ring' = ring /\ served' = served
    BY <1>2, <2>1 DEF OSTaskCreate
  <2>3. /\ \A u \in Tasks \ {t} : tcb'[u] = tcb[u]
        /\ \A u \in Tasks \ {t} : at'[u] = at[u] \/ (at[u] = "run" /\ at'[u] = "sched")
        /\ at'[t] \in {"run", "sched"}
    BY <1>1, <1>3, <2>2
  <2>4. at[t] \in {"run", "sched"}
    <3>1. at[t] \in {"run", "sched", "block", "wake"} /\ PendState(t)
      BY <1>1 DEF IInv, PendInv
    <3> QED BY <2>2, <3>1 DEF PendState
  <2>5. Hand(t) = NoMsg /\ Asks(t) = NoEvent /\ Hand(t)' = NoMsg /\ Asks(t)' = NoEvent
    BY <2>3, <2>4 DEF Hand, Asks, InPend
  <2>6. \A u \in Tasks : Hand(u)' = Hand(u) /\ Asks(u)' = Asks(u) BY <2>3, <2>5, SameTask
  <2> QED BY <2>2, <2>6, AsQuiet
<1>9. CASE \E q \in Prios : OSTaskChangePrio(t, q)
  <2>1. PICK q \in Prios : OSTaskChangePrio(t, q) BY <1>9
  <2>2. PICK y : y = tcb[t].ev OBVIOUS
  <2>3. PICK p : p = tcb[t].prio OBVIOUS
  <2>4. /\ InTask /\ ThenSched /\ ring' = ring /\ tcb' = [tcb EXCEPT ![t].prio = q]
        /\ ecb' = IF y # NoEvent THEN [ecb EXCEPT ![y].wait = (@ \ {p}) \cup {q}] ELSE ecb
        /\ served' = served
    BY <2>1, <2>2, <2>3 DEF OSTaskChangePrio
  <2>5. \A u \in Tasks : /\ tcb'[u].msg = tcb[u].msg /\ tcb'[u].pend = tcb[u].pend
                         /\ tcb'[u].ev = tcb[u].ev /\ tcb'[u].stat = tcb[u].stat
    BY <1>1, <2>4 DEF TcbType
  <2>6. \A u \in Tasks : Pends(u)' = Pends(u) BY <2>5 DEF Pends
  <2>7. \A u \in Tasks : at'[u] = at[u] \/ (InTask /\ u = cur /\ at'[u] = "sched")
    BY <1>3, <2>4, SchedAt
  <2>8. \A u \in Tasks : at'[u] = at[u] \/ (at[u] = "run" /\ at'[u] = "sched")
    BY <1>2, <1>3, <2>7
  <2>9. \A x \in Events : ecb'[x].type = ecb[x].type /\ ecb'[x].items = ecb[x].items
    <3>1. y \in Events \cup {NoEvent} BY <2>2, TaskTyped DEF IInv
    <3>2. CASE y \in Events
      <4> PICK W : W = (ecb[y].wait \ {p}) \cup {q} OBVIOUS
      <4>1. y # NoEvent BY <3>2, ItemAssumption
      <4>2. ecb' = [ecb EXCEPT ![y].wait = W] BY <2>4, <4>1
      <4> QED BY <3>2, <4>2, OnlyWait DEF IInv
    <3>3. CASE y = NoEvent BY <2>4, <3>3
    <3> QED BY <3>1, <3>2, <3>3
  <2> QED BY <2>4, <2>5, <2>6, <2>8, <2>9, QuietChannel
<1> QED BY <1>4, <1>5, <1>6, <1>7, <1>8, <1>9 DEF TaskStep

LEMMA SchedChannel ==
  ASSUME IInv, OS_Sched \/ OSSchedLock \/ OSSchedUnlock \/ OSIntEnter \/ OSIntExit \/ SysTick
  PROVE  ChannelStep
<1>1. at \in [Tasks -> {"run", "sched", "block", "wake"}] BY Typed DEF IInv
<1>2. tcb' = tcb /\ ecb' = ecb /\ ring' = ring /\ served' = served
  BY DEF OS_Sched, OSSchedLock, OSSchedUnlock, OSIntEnter, OSIntExit, SysTick
<1>3. ASSUME NEW u \in Tasks
      PROVE  \/ at'[u] = at[u]
             \/ at[u] \in {"run", "sched"} /\ at'[u] \in {"run", "sched"}
             \/ at[u] = "block" /\ at'[u] = "wake"
  <2>1. CASE OS_Sched BY <1>1, <2>1 DEF OS_Sched
  <2>2. CASE OSSchedUnlock
    <3>1. InTask /\ InCode /\ ThenSched BY <2>2 DEF OSSchedUnlock, InCode
    <3>2. at'[u] = at[u] \/ (u = cur /\ at'[u] = "sched") BY <3>1, SchedAt
    <3>3. at[cur] = "run" BY <3>1, InTaskExists
    <3> QED BY <3>2, <3>3
  <2>3. CASE OSSchedLock \/ OSIntEnter \/ OSIntExit \/ SysTick
    BY <2>3 DEF OSSchedLock, OSIntEnter, OSIntExit, SysTick
  <2> QED BY <2>1, <2>2, <2>3
<1>4. \A u \in Tasks : Hand(u)' = Hand(u) /\ Asks(u)' = Asks(u) BY <1>2, <1>3, SameTask
<1> QED BY <1>2, <1>4, AsQuiet

LEMMA NextChannel == IInv /\ [Next]_vars => ChannelStep
<1> SUFFICES ASSUME IInv, [Next]_vars PROVE ChannelStep OBVIOUS
<1>1. CASE UNCHANGED vars
  <2>1. tcb' = tcb /\ ecb' = ecb /\ ring' = ring /\ at' = at /\ served' = served
    BY <1>1 DEF vars
  <2>2. \A u \in Tasks : Hand(u)' = Hand(u) /\ Asks(u)' = Asks(u) BY <2>1, SameTask
  <2> QED BY <2>1, <2>2, AsQuiet
<1>2. ASSUME ~Astray, NEW e \in Events, MboxStep(e) \/ QStep(e) \/ SemStep(e)
      PROVE  ChannelStep
  BY <1>2, EventChannel
<1>3. ASSUME ~Astray, NEW t \in Tasks, TaskStep(t) PROVE ChannelStep BY <1>3, TaskChannel
<1>4. ASSUME ~Astray, OSTimeDly \/ OSTimeTick PROVE ChannelStep BY <1>4, TimeChannel
<1>5. ASSUME ~Astray, PendReturn PROVE ChannelStep BY <1>5, PendReturnChannel
<1>6. ASSUME OS_Sched \/ OSSchedLock \/ OSSchedUnlock \/ OSIntEnter \/ OSIntExit \/ SysTick
      PROVE  ChannelStep
  BY <1>6, SchedChannel
<1>7. CASE Ended BY <1>1, <1>7 DEF Ended
<1> QED BY <1>1, <1>2, <1>3, <1>4, <1>5, <1>6, <1>7 DEF Next

LEMMA InitChannel == Init => Channel!Init
<1> SUFFICES ASSUME Init PROVE Channel!Init OBVIOUS
<1>1. ASSUME NEW e \in Events PROVE Contents(e) = <<>> /\ Room(e) = 0
  <2>1. ecb[e].type = "unused" /\ ecb[e].items = <<>> BY DEF Init, FreeEcb
  <2> QED BY <2>1 DEF Contents, Room
<1>2. ASSUME NEW t \in Tasks PROVE Hand(t) = NoMsg /\ Asks(t) = NoEvent
  <2>1. at[t] = "run" BY DEF Init
  <2> QED BY <2>1, OutOfPend
<1>3. /\ ChanNow = [e \in Events |-> <<>>] /\ RoomNow = [e \in Events |-> 0]
      /\ HandNow = [t \in Tasks |-> NoMsg] /\ AskNow = [t \in Tasks |-> NoEvent]
  BY <1>1, <1>2 DEF ChanNow, HandNow, AskNow, RoomNow
<1>4. served = [op |-> "start", of |-> NoEvent, arg |-> <<>>, turn |-> FALSE] BY DEF Init
<1> QED BY <1>3, <1>4 DEF Channel!Init, ChanNow, HandNow, AskNow, RoomNow

\* Mailboxes, queues and semaphores implement the abstract channel, whatever
\* posts, pends, timeouts, aborts, deletions, ticks and interrupts come
\* together.  A post stores its item at the end it names, gives it to a task
\* that asks, or is refused, and refused only when there is no room; an item
\* leaves only to the call that returns it, the oldest first, or with a flush,
\* a setting or a deletion; a task that asked comes back with the item it was
\* handed, and no other step touches an item, a hand or a wait.
THEOREM ChannelImplemented == Spec => ImplementsChannel
<1>1. Init => Channel!Init BY InitChannel
<1>2. IInv /\ [Next]_vars => [Channel!Next]_(Channel!cvars) BY NextChannel DEF ChannelStep
<1> QED BY <1>1, <1>2, Inductive, PTL DEF Spec, ImplementsChannel, Channel!Spec
=============================================================================
