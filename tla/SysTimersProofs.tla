---- MODULE SysTimersProofs ----
(***************************************************************************)
(* The list of timeouts, for any number of timers, any periods, any tick   *)
(* rate and any width of the tick counter.                                 *)
(***************************************************************************)
EXTENDS SysTimers, FiniteSetTheorems, WellFoundedInduction, SequenceTheorems, TLAPS

Entry == [h : Timers, time : 0..M-1]
Distinct(l) == \A j, k \in DOMAIN l : l[j].h = l[k].h => j = k
InPeriod(l) == \A k \in DOMAIN l : Due(l)[k] <= Period[l[k].h]
Sound(l) == l \in Seq(Entry) /\ Distinct(l) /\ InPeriod(l)

\* While the thread waits there is a timeout that bounds the wait.
WaitInv == pc # "again" => list # <<>>

IInv == TypeOK /\ TimersKept /\ DueWithinPeriod /\ WaitInv
-----------------------------------------------------------------------------
(* Induction: a set of numbers has a least one.                            *)

LEMMA LeastNat ==
  ASSUME NEW C, C \subseteq Nat, C # {}
  PROVE  \E m \in C : \A n \in C : m <= n
<1> DEFINE T == {1..n : n \in C}
<1>1. IsWellFoundedOn(StrictSubsetOrdering(Nat), FiniteSubsetsOf(Nat))
  BY FS_StrictSubsetOrderingWellFounded
<1>2. T \subseteq FiniteSubsetsOf(Nat)
  <2> SUFFICES ASSUME NEW n \in C PROVE 1..n \in FiniteSubsetsOf(Nat) OBVIOUS
  <2>1. IsFiniteSet(1..n) BY FS_Interval
  <2> QED BY <2>1 DEF FiniteSubsetsOf
<1>3. T # {} OBVIOUS
<1> HIDE DEF T
<1>4. PICK x \in T : \A y \in T : ~(<<y, x>> \in StrictSubsetOrdering(Nat))
  BY <1>1, <1>2, <1>3, WFMin
<1>5. PICK m \in C : x = 1..m BY DEF T
<1>6. \A n \in C : m <= n
  <2> SUFFICES ASSUME NEW n \in C, n < m PROVE FALSE OBVIOUS
  <2>1. 1..n \in T BY DEF T
  <2>2. m \in 1..m /\ m \notin 1..n /\ 1..n \subseteq 1..m
        /\ 1..n \in SUBSET Nat /\ 1..m \in SUBSET Nat OBVIOUS
  <2>3. <<1..n, 1..m>> \in StrictSubsetOrdering(Nat) BY <2>2 DEF StrictSubsetOrdering
  <2> QED BY <1>4, <1>5, <2>1, <2>3
<1> QED BY <1>6

-----------------------------------------------------------------------------
(* When a timeout is due.                                                  *)

LEMMA EntryFields ==
  ASSUME NEW l \in Seq(Entry)
  PROVE  /\ Len(l) \in Nat /\ DOMAIN l = 1..Len(l)
         /\ \A k \in 1..Len(l) : l[k] \in Entry /\ l[k].h \in Timers /\ l[k].time \in Nat
<1>1. Len(l) \in Nat /\ DOMAIN l = 1..Len(l) OBVIOUS
<1>2. ASSUME NEW k \in 1..Len(l)
      PROVE  l[k] \in Entry /\ l[k].h \in Timers /\ l[k].time \in Nat
  <2>1. l[k] \in Entry OBVIOUS
  <2> QED BY <2>1, RateAssumption DEF Entry
<1> QED BY <1>1, <1>2

\* Times add up.
LEMMA Sums ==
  ASSUME NEW n \in Nat, NEW v \in [1..n -> Nat]
  PROVE  \E f \in [0..n -> Nat] : f[0] = 0 /\ \A k \in 1..n : f[k] = f[k - 1] + v[k]
<1> DEFINE Upto(m) == \E f \in [0..m -> Nat] :
                        f[0] = 0 /\ \A k \in 1..m : f[k] = f[k - 1] + v[k]
           C == {m \in 0..n : ~Upto(m)}
<1>1. Upto(0)
  <2> PICK z : z = [k \in 0..0 |-> 0] OBVIOUS
  <2>1. z \in [0..0 -> Nat] /\ z[0] = 0 /\ \A k \in 1..0 : z[k] = z[k - 1] + v[k] OBVIOUS
  <2> QED BY <2>1
<1>2. ASSUME NEW m \in 1..n, Upto(m - 1) PROVE Upto(m)
  <2>1. PICK f \in [0..m - 1 -> Nat] :
             f[0] = 0 /\ \A k \in 1..m - 1 : f[k] = f[k - 1] + v[k]
    BY <1>2
  <2> DEFINE g == [k \in 0..m |-> IF k = m THEN f[m - 1] + v[m] ELSE f[k]]
  <2>2. f[m - 1] + v[m] \in Nat BY <2>1
  <2>3. g \in [0..m -> Nat] BY <2>1, <2>2
  <2>4. g[0] = 0 BY <2>1
  <2>5. ASSUME NEW k \in 1..m PROVE g[k] = g[k - 1] + v[k]
    <3>1. g[k - 1] = f[k - 1] OBVIOUS
    <3>2. CASE k = m BY <3>1, <3>2
    <3>3. CASE k # m BY <2>1, <3>1, <3>3
    <3> QED BY <3>2, <3>3
  <2> HIDE DEF g
  <2> QED BY <2>3, <2>4, <2>5
<1> HIDE DEF Upto
<1>3. C = {}
  <2> SUFFICES ASSUME C # {} PROVE FALSE OBVIOUS
  <2>1. C \subseteq Nat OBVIOUS
  <2>2. PICK m \in C : \A k \in C : m <= k BY <2>1, LeastNat
  <2>3. m # 0 BY <1>1
  <2>4. m - 1 \notin C BY <2>1, <2>2
  <2>5. Upto(m - 1) BY <2>3, <2>4
  <2> QED BY <1>2, <2>3, <2>5
<1>4. Upto(n) BY <1>3
<1> QED BY <1>4 DEF Upto

\* The recursive definition of Due has a solution, and it is in milliseconds.
LEMMA DueDefined ==
  ASSUME NEW l \in Seq(Entry)
  PROVE  /\ Due(l) \in [0..Len(l) -> Nat] /\ Due(l)[0] = 0
         /\ \A k \in 1..Len(l) : Due(l)[k] = Due(l)[k - 1] + l[k].time
<1> PICK n \in Nat : n = Len(l) BY EntryFields
<1> DEFINE P(g) == g = [k \in 0..n |-> IF k = 0 THEN 0 ELSE g[k - 1] + l[k].time]
<1>1. \E f : P(f)
  <2> DEFINE v == [k \in 1..n |-> l[k].time]
  <2>1. v \in [1..n -> Nat] BY EntryFields
  <2>2. \A k \in 1..n : v[k] = l[k].time OBVIOUS
  <2> HIDE DEF v
  <2>3. PICK f \in [0..n -> Nat] : f[0] = 0 /\ \A k \in 1..n : f[k] = f[k - 1] + v[k]
    BY <2>1, Sums
  <2>4. P(f) BY <2>2, <2>3
  <2> QED BY <2>4
<1>2. Due(l) = CHOOSE f : P(f) BY DEF Due
<1>3. P(Due(l)) BY <1>1, <1>2
<1> PICK d : d = Due(l) OBVIOUS
<1>4. /\ DOMAIN d = 0..n /\ d[0] = 0
      /\ \A k \in 1..n : d[k] = d[k - 1] + l[k].time
  BY <1>3
<1>5. {k \in 0..n : d[k] \notin Nat} = {}
  <2> DEFINE C == {k \in 0..n : d[k] \notin Nat}
  <2> SUFFICES ASSUME C # {} PROVE FALSE OBVIOUS
  <2>1. C \subseteq Nat OBVIOUS
  <2>2. PICK m \in C : \A k \in C : m <= k BY <2>1, LeastNat
  <2>3. m \in 1..n BY <1>4, <2>2
  <2>4. d[m - 1] \in Nat BY <2>2, <2>3
  <2> QED BY <1>4, <2>2, <2>3, <2>4, EntryFields
<1>6. d \in [0..n -> Nat] BY <1>3, <1>4, <1>5
<1> QED BY <1>4, <1>6

LEMMA DueUnique ==
  ASSUME NEW l \in Seq(Entry), NEW d, d[0] = 0,
         \A k \in 1..Len(l) : d[k] = d[k - 1] + l[k].time
  PROVE  \A k \in 0..Len(l) : Due(l)[k] = d[k]
<1> DEFINE C == {k \in 0..Len(l) : Due(l)[k] # d[k]}
<1> SUFFICES ASSUME C # {} PROVE FALSE OBVIOUS
<1>1. C \subseteq Nat BY EntryFields
<1>2. PICK m \in C : \A k \in C : m <= k BY <1>1, LeastNat
<1>3. m \in 1..Len(l) BY <1>2, DueDefined, EntryFields
<1>4. Due(l)[m - 1] = d[m - 1] BY <1>2, <1>3, EntryFields
<1> QED BY <1>2, <1>3, <1>4, DueDefined

LEMMA DueMonotone ==
  ASSUME NEW l \in Seq(Entry), NEW j \in 0..Len(l), NEW k \in 0..Len(l), j <= k
  PROVE  Due(l)[j] <= Due(l)[k]
<1> DEFINE C == {i \in 0..Len(l) : j <= i /\ ~(Due(l)[j] <= Due(l)[i])}
<1> SUFFICES ASSUME C # {} PROVE FALSE OBVIOUS
<1>1. C \subseteq Nat BY EntryFields
<1>2. PICK m \in C : \A i \in C : m <= i BY <1>1, LeastNat
<1>3. /\ m \in 0..Len(l) /\ j <= m /\ Len(l) \in Nat
      /\ \A i \in 0..Len(l) : Due(l)[i] \in Nat
  BY <1>2, DueDefined, EntryFields
<1>4. m # j BY <1>2, <1>3
<1>5. m - 1 \in 0..Len(l) /\ j <= m - 1 /\ m \in 1..Len(l) BY <1>3, <1>4
<1>6. Due(l)[j] <= Due(l)[m - 1] BY <1>2, <1>5
<1>7. Due(l)[m] = Due(l)[m - 1] + l[m].time /\ l[m].time \in Nat
  BY <1>5, DueDefined, EntryFields
<1>8. Due(l)[j] <= Due(l)[m] BY <1>3, <1>5, <1>6, <1>7
<1> QED BY <1>2, <1>8

\* What is due no later is a prefix of the list.
LEMMA NotAfterPrefix ==
  ASSUME NEW l \in Seq(Entry), NEW ms \in Nat
  PROVE  /\ NotAfter(l, ms) \in 0..Len(l)
         /\ Due(l)[NotAfter(l, ms)] <= ms
         /\ NotAfter(l, ms) < Len(l) => Due(l)[NotAfter(l, ms) + 1] > ms
<1> PICK n \in Nat : n = Len(l) BY EntryFields
<1> PICK d \in [0..n -> Nat] : d = Due(l) BY DueDefined
<1> DEFINE C == {i \in 0..n : i = n \/ d[i + 1] > ms}
<1>1. n \in C /\ C \subseteq Nat OBVIOUS
<1>2. PICK m \in C : \A i \in C : m <= i BY <1>1, LeastNat
<1>3. m \in 0..n /\ (m = n \/ d[m + 1] > ms) BY <1>2
<1>4. d[m] <= ms
  <2>1. CASE m = 0 BY <2>1, DueDefined
  <2>2. CASE m # 0
    <3>1. m - 1 \in 0..n /\ m - 1 # n BY <1>3, <2>2
    <3>2. m - 1 \in C => m <= m - 1 BY <1>2
    <3>3. ~(d[m - 1 + 1] > ms) BY <1>3, <3>1, <3>2
    <3> QED BY <1>3, <3>1, <3>3
  <2> QED BY <2>1, <2>2
<1>5. {j \in DOMAIN l : d[j] <= ms} = 1..m
  <2>1. ASSUME NEW j \in 1..n, j <= m PROVE d[j] <= ms
    <3>1. d[j] <= d[m] BY <1>3, <2>1, DueMonotone
    <3> QED BY <1>3, <1>4, <3>1
  <2>2. ASSUME NEW j \in 1..n, j > m PROVE d[j] > ms
    <3>1. m + 1 \in 0..n /\ m + 1 <= j /\ d[m + 1] > ms BY <1>3, <2>2
    <3>2. d[m + 1] <= d[j] BY <3>1, DueMonotone
    <3> QED BY <3>1, <3>2
  <2> QED BY <1>3, <2>1, <2>2, EntryFields
<1>6. NotAfter(l, ms) = m
  <2>1. Cardinality(1..m) = m BY <1>3, FS_Interval
  <2>2. NotAfter(l, ms) = Cardinality({j \in DOMAIN l : d[j] <= ms}) BY DEF NotAfter
  <2> QED BY <1>5, <2>1, <2>2
<1> QED BY <1>3, <1>4, <1>6

-----------------------------------------------------------------------------
(* What sys_timeout and its callers do to a sound list.                    *)

LEMMA EntryTime ==
  ASSUME NEW e \in Entry, NEW x \in 0..M-1
  PROVE  /\ [e EXCEPT !.time = x] \in Entry
         /\ [e EXCEPT !.time = x].h = e.h
         /\ [e EXCEPT !.time = x].time = x
BY DEF Entry

\* A period fits in u32_t.
LEMMA PeriodFits ==
  ASSUME NEW h \in Timers
  PROVE  Period[h] \in Nat \ {0} /\ Period[h] <= M - 1
<1>1. Period[h] \in Nat \ {0} /\ Period[h] * Milli < M BY PeriodAssumption
<1>2. \A a \in Nat, b \in Nat \ {0} : a <= a * b OBVIOUS
<1>3. Milli \in Nat \ {0} /\ M \in Nat BY RateAssumption
<1>4. Period[h] <= Period[h] * Milli BY <1>1, <1>2, <1>3
<1>5. \A a, b \in Nat : a <= b /\ b < M => a <= M - 1 BY <1>3
<1>6. \A a, b \in Nat : a * b \in Nat OBVIOUS
<1>7. Period[h] * Milli \in Nat BY <1>1, <1>3, <1>6
<1> QED BY <1>1, <1>4, <1>5, <1>7

\* q is l with h put after its first k timeouts, d being when they are due.
Places(l, h, ms, n, k, d, q) ==
  /\ n \in Nat /\ k \in 0..n
  /\ q \in Seq(Entry) /\ Len(q) = n + 1
  /\ \A i \in 1..n : i <= k => q[i] = l[i]
  /\ q[k + 1].h = h /\ q[k + 1].time = ms - d[k]
  /\ k < n => q[k + 2].h = l[k + 1].h /\ q[k + 2].time = d[k + 1] - ms
  /\ \A i \in 1..n : i > k + 1 => q[i + 1] = l[i]

\* What Insert leaves at each place.
LEMMA InsertPlaces ==
  ASSUME NEW l \in Seq(Entry), NEW h \in Timers, NEW ms \in 0..M-1
  PROVE  Places(l, h, ms, Len(l), NotAfter(l, ms), Due(l), Insert(l, h, ms))
<1> PICK n : n = Len(l) OBVIOUS
<1> PICK k : k = NotAfter(l, ms) OBVIOUS
<1> PICK d : d = Due(l) OBVIOUS
<1> PICK q : q = Insert(l, h, ms) OBVIOUS
<1>0. n \in Nat /\ k \in 0..n BY NotAfterPrefix, EntryFields, RateAssumption
<1> PICK own : own = ms - d[k] OBVIOUS
<1>1. /\ d \in [0..n -> Nat] /\ d[k] <= ms /\ own \in 0..M-1
      /\ k < n => d[k + 1] > ms
  <2>1. d \in [0..n -> Nat] BY DueDefined
  <2>2. d[k] <= ms /\ (k < n => d[k + 1] > ms) BY NotAfterPrefix, RateAssumption
  <2>3. d[k] \in Nat BY <1>0, <2>1
  <2>4. own \in 0..M-1 BY <2>2, <2>3, RateAssumption
  <2> QED BY <2>1, <2>2, <2>4
<1> PICK new : new = [h |-> h, time |-> own] OBVIOUS
<1>2. new \in Entry /\ new.h = h /\ new.time = own BY <1>1 DEF Entry
<1> PICK nxt : nxt = [l[k + 1] EXCEPT !.time = @ - own] OBVIOUS
<1>3. k < n => nxt \in Entry /\ nxt.h = l[k + 1].h /\ nxt.time = d[k + 1] - ms
  <2> SUFFICES ASSUME k < n PROVE nxt \in Entry /\ nxt.h = l[k + 1].h /\ nxt.time = d[k + 1] - ms
    OBVIOUS
  <2> PICK e : e = l[k + 1] OBVIOUS
  <2>0. k + 1 \in 1..n BY <1>0
  <2>1. e \in Entry BY <2>0, EntryFields
  <2>5. e.time \in 0..M-1 BY <2>1 DEF Entry
  <2>2. d[k + 1] = d[k] + e.time
    <3>1. \A i \in 1..n : d[i] = d[i - 1] + l[i].time BY DueDefined
    <3> PICK j : j = k + 1 OBVIOUS
    <3>2. j \in 1..n /\ j - 1 = k BY <1>0, <2>0
    <3>3. d[j] = d[j - 1] + l[j].time BY <3>1, <3>2
    <3> QED BY <3>2, <3>3
  <2>3. e.time - own = d[k + 1] - ms /\ e.time - own \in 0..M-1
    <3>1. k + 1 \in 0..n BY <1>0
    <3>2. d[k] \in Nat /\ d[k + 1] \in Nat BY <1>0, <1>1, <3>1
    <3>3. e.time - own = d[k + 1] - ms BY <2>5, <2>2, <3>2, RateAssumption
    <3>4. own \in Nat /\ d[k + 1] - ms \in Nat
      BY <1>1, <3>2, RateAssumption
    <3>5. e.time \in Nat /\ e.time <= M - 1 BY <2>5, RateAssumption
    <3>6. e.time - own \in Nat BY <3>3, <3>4
    <3>7. e.time - own <= M - 1 BY <3>4, <3>5, RateAssumption
    <3> QED BY <3>3, <3>6, <3>7, RateAssumption
  <2>4. nxt = [e EXCEPT !.time = e.time - own] OBVIOUS
  <2> QED BY <2>1, <2>3, <2>4, EntryTime
<1>4. q = [i \in 1..n + 1 |-> CASE i <= k -> l[i]
                                [] i = k + 1 -> new
                                [] i = k + 2 -> nxt
                                [] OTHER -> l[i - 1]]
  BY DEF Insert
<1>5. DOMAIN q = 1..n + 1 BY <1>4
<1>6. ASSUME NEW i \in 1..n, i <= k PROVE q[i] = l[i] BY <1>0, <1>4, <1>6
<1>7. q[k + 1] = new
  <2>1. k + 1 \in 1..n + 1 /\ ~(k + 1 <= k) BY <1>0
  <2>2. \A i \in 1..n + 1 : ~(i <= k) /\ i = k + 1 => q[i] = new BY <1>0, <1>4
  <2> QED BY <2>1, <2>2
<1>8. k < n => q[k + 2] = nxt
  <2> SUFFICES ASSUME k < n PROVE q[k + 2] = nxt OBVIOUS
  <2>1. k + 2 \in 1..n + 1 /\ ~(k + 2 <= k) /\ k + 2 # k + 1 BY <1>0
  <2> QED BY <1>4, <2>1
<1>9. ASSUME NEW i \in 1..n, i > k + 1 PROVE q[i + 1] = l[i]
  <2>1. /\ i + 1 \in 1..n + 1 /\ ~(i + 1 <= k) /\ i + 1 # k + 1 /\ i + 1 # k + 2
        /\ i + 1 - 1 = i
    BY <1>0, <1>9
  <2> QED BY <1>4, <2>1
<1>10. ASSUME NEW i \in 1..n + 1 PROVE q[i] \in Entry
  <2>1. CASE i <= k BY <1>0, <1>6, <2>1
  <2>2. CASE i = k + 1 BY <1>2, <1>7, <2>2
  <2>3. CASE i = k + 2 BY <1>0, <1>3, <1>8, <2>3
  <2>4. CASE i > k + 2
    <3>1. i - 1 \in 1..n /\ i - 1 > k + 1 /\ i - 1 + 1 = i BY <1>0, <2>4
    <3>2. q[i] = l[i - 1] BY <1>9, <3>1
    <3> QED BY <3>1, <3>2
  <2> QED BY <1>0, <2>1, <2>2, <2>3, <2>4
<1>11. q \in Seq(Entry) /\ Len(q) = n + 1
  <2> PICK m \in Nat : m = n + 1 BY <1>0
  <2>1. q \in [1..m -> Entry] BY <1>4, <1>10
  <2> QED BY <2>1
<1>12. Places(l, h, ms, n, k, d, q)
  BY <1>0, <1>2, <1>3, <1>6, <1>7, <1>8, <1>9, <1>11 DEF Places
<1> QED BY <1>12

\* sys_timeout with the timer's own period, for a timer that is not armed,
\* keeps the list sound, loses no timer and adds this one.
LEMMA InsertSound ==
  ASSUME NEW l, Sound(l), NEW h \in Timers, ~Armed(l, h),
         NEW q, q = Insert(l, h, Period[h])
  PROVE  /\ Sound(q) /\ q # <<>>
         /\ \A g : Armed(q, g) <=> Armed(l, g) \/ g = h
<1>0. l \in Seq(Entry) BY DEF Sound
<1> PICK ms : ms = Period[h] OBVIOUS
<1> PICK n : n = Len(l) OBVIOUS
<1> PICK k : k = NotAfter(l, ms) OBVIOUS
<1> PICK d : d = Due(l) OBVIOUS
<1>1. ms \in 0..M-1 /\ ms \in Nat BY PeriodFits, RateAssumption
<1>2. q = Insert(l, h, ms) OBVIOUS
<1>3. /\ n \in Nat /\ k \in 0..n
      /\ q \in Seq(Entry) /\ Len(q) = n + 1
      /\ \A i \in 1..n : i <= k => q[i] = l[i]
      /\ q[k + 1].h = h /\ q[k + 1].time = ms - d[k]
      /\ k < n => q[k + 2].h = l[k + 1].h /\ q[k + 2].time = d[k + 1] - ms
      /\ \A i \in 1..n : i > k + 1 => q[i + 1] = l[i]
  <2>1. Places(l, h, ms, n, k, d, q) BY <1>0, <1>1, <1>2, InsertPlaces
  <2> QED BY <2>1 DEF Places
<1>4. /\ DOMAIN l = 1..n /\ DOMAIN q = 1..n + 1
      /\ d \in [0..n -> Nat] /\ d[0] = 0
      /\ \A i \in 1..n : d[i] = d[i - 1] + l[i].time
  BY <1>0, <1>3, EntryFields, DueDefined
<1>5. ASSUME NEW i \in 1..n
      PROVE  /\ i <= k => q[i].h = l[i].h
             /\ i > k => q[i + 1].h = l[i].h
  <2>1. CASE i = k + 1
    <3>1. k < n /\ k + 2 = i + 1 /\ ~(i <= k) BY <1>3, <2>1
    <3>2. q[k + 2].h = l[k + 1].h BY <1>3, <3>1
    <3> QED BY <2>1, <3>1, <3>2
  <2>2. CASE i <= k
    <3>1. q[i] = l[i] BY <1>3, <2>2
    <3> QED BY <1>3, <2>2, <3>1
  <2>3. CASE i > k + 1
    <3>1. q[i + 1] = l[i] BY <1>3, <2>3
    <3> QED BY <1>3, <2>3, <3>1
  <2> QED BY <1>3, <2>1, <2>2, <2>3
<1>6. \A i \in 1..n : l[i].h # h BY <1>4 DEF Armed
<1>7. ASSUME NEW i \in 1..n + 1
      PROVE  \/ i = k + 1 /\ q[i].h = h
             \/ i <= k /\ i \in 1..n /\ q[i].h = l[i].h
             \/ i > k + 1 /\ i - 1 \in 1..n /\ q[i].h = l[i - 1].h
  <2>1. CASE i = k + 1 BY <1>3, <2>1
  <2>2. CASE i <= k
    <3>1. i \in 1..n BY <1>3, <2>2
    <3> QED BY <1>5, <2>2, <3>1
  <2>3. CASE i > k + 1
    <3>1. i - 1 \in 1..n /\ i - 1 > k /\ i - 1 + 1 = i BY <1>3, <2>3
    <3>2. q[i - 1 + 1].h = l[i - 1].h BY <1>5, <3>1
    <3> QED BY <2>3, <3>1, <3>2
  <2> QED BY <1>3, <2>1, <2>2, <2>3
<1>8. Distinct(q)
  <2> SUFFICES ASSUME NEW i \in 1..n + 1, NEW j \in 1..n + 1, q[i].h = q[j].h
               PROVE  i = j
    BY <1>4 DEF Distinct
  <2>1. \A a, b \in 1..n : l[a].h = l[b].h => a = b BY <1>4 DEF Sound, Distinct
  <2>2. CASE i = k + 1
    <3>1. q[j].h = h BY <1>3, <2>2
    <3> QED BY <1>6, <1>7, <2>2, <3>1
  <2>3. CASE i <= k /\ i \in 1..n /\ q[i].h = l[i].h
    <3>1. i = j \/ (j > k + 1 /\ j - 1 \in 1..n /\ l[i].h = l[j - 1].h)
      <4>1. CASE j = k + 1
        <5>1. q[j].h = h BY <1>3, <4>1
        <5> QED BY <1>6, <2>3, <5>1
      <4>2. CASE j <= k /\ j \in 1..n /\ q[j].h = l[j].h BY <2>1, <2>3, <4>2
      <4>3. CASE j > k + 1 /\ j - 1 \in 1..n /\ q[j].h = l[j - 1].h BY <2>3, <4>3
      <4> QED BY <1>7, <4>1, <4>2, <4>3
    <3>2. j > k + 1 /\ j - 1 \in 1..n /\ l[i].h = l[j - 1].h => i = j - 1 BY <2>1, <2>3
    <3> QED BY <1>3, <2>3, <3>1, <3>2
  <2>4. CASE i > k + 1 /\ i - 1 \in 1..n /\ q[i].h = l[i - 1].h
    <3>1. \/ j <= k /\ j \in 1..n /\ l[i - 1].h = l[j].h
          \/ j > k + 1 /\ j - 1 \in 1..n /\ l[i - 1].h = l[j - 1].h
      BY <1>3, <1>6, <1>7, <2>4
    <3>2. (j <= k /\ i - 1 = j) \/ (j > k + 1 /\ i - 1 = j - 1) BY <2>1, <2>4, <3>1
    <3> QED BY <1>3, <2>4, <3>2
  <2> QED BY <1>7, <2>2, <2>3, <2>4
<1>9. \A g : Armed(q, g) <=> Armed(l, g) \/ g = h
  <2> TAKE g
  <2>1. ASSUME Armed(q, g) PROVE Armed(l, g) \/ g = h
    <3>1. PICK i \in 1..n + 1 : q[i].h = g BY <1>4, <2>1 DEF Armed
    <3>2. g = h \/ \E j \in 1..n : l[j].h = g BY <1>7, <3>1
    <3> QED BY <1>4, <3>2 DEF Armed
  <2>2. ASSUME Armed(l, g) PROVE Armed(q, g)
    <3>1. PICK i \in 1..n : l[i].h = g BY <1>4, <2>2 DEF Armed
    <3>2. i \in 1..n + 1 /\ i + 1 \in 1..n + 1 /\ (i <= k \/ i > k) BY <1>3
    <3>3. q[i].h = g \/ q[i + 1].h = g BY <1>5, <3>1, <3>2
    <3> QED BY <1>4, <3>2, <3>3 DEF Armed
  <2>3. Armed(q, h)
    <3>1. k + 1 \in 1..n + 1 BY <1>3
    <3> QED BY <1>3, <1>4, <3>1 DEF Armed
  <2> QED BY <2>1, <2>2, <2>3
<1> DEFINE e == [i \in 0..n + 1 |-> IF i <= k THEN d[i] ELSE IF i = k + 1 THEN ms ELSE d[i - 1]]
<1>10. /\ \A i \in 0..n + 1 : i <= k => e[i] = d[i]
       /\ e[k + 1] = ms
       /\ \A i \in 0..n + 1 : i > k + 1 => e[i] = d[i - 1]
  <2>1. k + 1 \in 0..n + 1 /\ ~(k + 1 <= k) BY <1>3
  <2>2. \A i \in 0..n + 1 : ~(i <= k) /\ i = k + 1 => e[i] = ms BY <1>3
  <2> QED BY <1>3, <2>1, <2>2
<1> HIDE DEF e
<1>11. ASSUME NEW i \in 1..n + 1 PROVE e[i] = e[i - 1] + q[i].time
  <2>0. \A j \in 0..n : d[j] \in Nat BY <1>4
  <2>1. CASE i <= k
    <3>1. i \in 1..n /\ i - 1 \in 0..n + 1 /\ i \in 0..n + 1 /\ i - 1 <= k BY <1>3, <2>1
    <3>2. e[i] = d[i] /\ e[i - 1] = d[i - 1] /\ q[i] = l[i] BY <1>3, <1>10, <2>1, <3>1
    <3> QED BY <1>4, <3>1, <3>2
  <2>2. CASE i = k + 1
    <3>1. i - 1 = k /\ k \in 0..n + 1 /\ d[k] \in Nat BY <1>3, <2>0, <2>2
    <3>2. e[i] = ms /\ e[i - 1] = d[k] BY <1>3, <1>10, <2>2, <3>1
    <3>3. q[i].time = ms - d[k] BY <1>3, <2>2
    <3> QED BY <1>1, <3>1, <3>2, <3>3
  <2>3. CASE i = k + 2
    <3>1. /\ i - 1 = k + 1 /\ k < n /\ i \in 0..n + 1 /\ i > k + 1
          /\ k + 1 \in 0..n /\ d[k + 1] \in Nat
      BY <1>3, <2>0, <2>3
    <3>2. e[i] = d[k + 1] /\ e[i - 1] = ms BY <1>10, <3>1
    <3>3. q[i].time = d[k + 1] - ms BY <1>3, <2>3, <3>1
    <3> QED BY <1>1, <3>1, <3>2, <3>3
  <2>4. CASE i > k + 2
    <3> PICK j : j = i - 1 OBVIOUS
    <3>1. /\ j \in 1..n /\ j > k + 1 /\ j \in 0..n + 1 /\ i \in 0..n + 1 /\ i > k + 1
          /\ i = j + 1
      BY <1>3, <2>4
    <3>2. e[i] = d[j] /\ e[j] = d[j - 1] BY <1>10, <3>1
    <3>3. q[i] = l[j] BY <1>3, <3>1
    <3> QED BY <1>4, <3>1, <3>2, <3>3
  <2> QED BY <1>3, <2>1, <2>2, <2>3, <2>4
<1>12. \A i \in 0..n + 1 : Due(q)[i] = e[i]
  <2>1. 0 \in 0..n + 1 /\ 0 <= k BY <1>3
  <2>2. e[0] = 0 BY <1>4, <1>10, <2>1
  <2>3. \A i \in 1..Len(q) : e[i] = e[i - 1] + q[i].time BY <1>3, <1>11
  <2>4. \A i \in 0..Len(q) : Due(q)[i] = e[i] BY <1>3, <2>2, <2>3, DueUnique
  <2> QED BY <1>3, <2>4
<1>13. InPeriod(q)
  <2> SUFFICES ASSUME NEW i \in 1..n + 1 PROVE e[i] <= Period[q[i].h]
    <3>1. \A i \in 1..n + 1 : i \in 0..n + 1 BY <1>3
    <3> QED BY <1>4, <1>12, <3>1 DEF InPeriod
  <2>1. \A j \in 1..n : d[j] <= Period[l[j].h] BY <1>4 DEF Sound, InPeriod
  <2>2. i \in 0..n + 1 BY <1>3
  <2>3. CASE i = k + 1
    <3>1. e[i] = ms /\ q[i].h = h BY <1>3, <1>10, <2>3
    <3> QED BY <1>1, <3>1
  <2>4. CASE i <= k
    <3>1. i \in 1..n /\ q[i].h = l[i].h BY <1>3, <1>7, <2>4
    <3>2. e[i] = d[i] BY <1>10, <2>2, <2>4
    <3> QED BY <2>1, <3>1, <3>2
  <2>5. CASE i > k + 1
    <3>1. i - 1 \in 1..n /\ q[i].h = l[i - 1].h BY <1>3, <1>7, <2>5
    <3>2. e[i] = d[i - 1] BY <1>10, <2>2, <2>5
    <3> QED BY <2>1, <3>1, <3>2
  <2> QED BY <1>3, <2>3, <2>4, <2>5
<1>14. q # <<>>
  <2>1. Len(q) # 0 BY <1>3
  <2> QED BY <2>1
<1> QED BY <1>3, <1>8, <1>9, <1>13, <1>14 DEF Sound

\* Taking the first timeout off brings the others forward, and only its own
\* timer is no longer armed.
LEMMA TailSound ==
  ASSUME NEW l, Sound(l), l # <<>>, NEW q, q = Tail(l)
  PROVE  /\ Sound(q) /\ Head(l) = l[1] /\ l[1].h \in Timers
         /\ \A g : Armed(q, g) <=> Armed(l, g) /\ g # l[1].h
<1> PICK n : n = Len(l) OBVIOUS
<1> PICK d : d = Due(l) OBVIOUS
<1>1. /\ l \in Seq(Entry) /\ n \in Nat \ {0} /\ 1 \in 1..n /\ Head(l) = l[1]
      /\ q \in Seq(Entry) /\ Len(q) = n - 1
      /\ \A i \in 1..n - 1 : q[i] = l[i + 1]
  BY DEF Sound
<1>2. /\ DOMAIN l = 1..n /\ DOMAIN q = 1..n - 1
      /\ d \in [0..n -> Nat] /\ d[0] = 0
      /\ \A i \in 1..n : d[i] = d[i - 1] + l[i].time
      /\ l[1].h \in Timers
  BY <1>1, EntryFields, DueDefined
<1>3. \A a, b \in 1..n : l[a].h = l[b].h => a = b BY <1>2 DEF Sound, Distinct
<1>4. Distinct(q)
  <2> SUFFICES ASSUME NEW i \in 1..n - 1, NEW j \in 1..n - 1, q[i].h = q[j].h
               PROVE  i = j
    BY <1>2 DEF Distinct
  <2>1. i + 1 \in 1..n /\ j + 1 \in 1..n /\ l[i + 1].h = l[j + 1].h BY <1>1
  <2>2. i + 1 = j + 1 BY <1>3, <2>1
  <2> QED BY <2>2
<1>5. \A g : Armed(q, g) <=> Armed(l, g) /\ g # l[1].h
  <2> TAKE g
  <2>1. ASSUME Armed(q, g) PROVE Armed(l, g) /\ g # l[1].h
    <3>1. PICK i \in 1..n - 1 : q[i].h = g BY <1>2, <2>1 DEF Armed
    <3>2. i + 1 \in 1..n /\ i + 1 # 1 /\ l[i + 1].h = g BY <1>1, <3>1
    <3> QED BY <1>1, <1>2, <1>3, <3>2 DEF Armed
  <2>2. ASSUME Armed(l, g), g # l[1].h PROVE Armed(q, g)
    <3>1. PICK i \in 1..n : l[i].h = g BY <1>2, <2>2 DEF Armed
    <3>2. i # 1 BY <2>2, <3>1
    <3>3. i - 1 \in 1..n - 1 /\ i - 1 + 1 = i BY <1>1, <3>2
    <3>4. q[i - 1] = l[i] BY <1>1, <3>3
    <3> QED BY <1>2, <3>1, <3>3, <3>4 DEF Armed
  <2> QED BY <2>1, <2>2
<1> DEFINE e == [i \in 0..n - 1 |-> d[i + 1] - d[1]]
<1>6. \A i \in 0..n - 1 : e[i] = d[i + 1] - d[1] OBVIOUS
<1> HIDE DEF e
<1>7. e[0] = 0
  <2>1. 0 \in 0..n - 1 /\ d[1] \in Nat BY <1>1, <1>2
  <2> QED BY <1>6, <2>1
<1>8. ASSUME NEW i \in 1..n - 1 PROVE e[i] = e[i - 1] + q[i].time
  <2> PICK j : j = i + 1 OBVIOUS
  <2>1. /\ i \in 0..n - 1 /\ i - 1 \in 0..n - 1 /\ i - 1 + 1 = i
        /\ j \in 1..n /\ j - 1 = i /\ i \in 0..n /\ j \in 0..n /\ 1 \in 0..n
    BY <1>1
  <2>2. e[i] = d[j] - d[1] /\ e[i - 1] = d[i] - d[1] BY <1>6, <2>1
  <2>3. d[j] = d[i] + l[j].time /\ q[i] = l[j] BY <1>1, <1>2, <2>1
  <2>4. d[j] \in Nat /\ d[i] \in Nat /\ d[1] \in Nat /\ l[j].time \in Nat
    BY <1>1, <1>2, <2>1, EntryFields
  <2> QED BY <2>2, <2>3, <2>4
<1>9. \A i \in 0..n - 1 : Due(q)[i] = e[i]
  <2>1. \A i \in 1..Len(q) : e[i] = e[i - 1] + q[i].time BY <1>1, <1>8
  <2>2. \A i \in 0..Len(q) : Due(q)[i] = e[i] BY <1>1, <1>7, <2>1, DueUnique
  <2> QED BY <1>1, <2>2
<1>10. InPeriod(q)
  <2> SUFFICES ASSUME NEW i \in 1..n - 1 PROVE e[i] <= Period[q[i].h]
    <3>1. \A i \in 1..n - 1 : i \in 0..n - 1 BY <1>1
    <3> QED BY <1>2, <1>9, <3>1 DEF InPeriod
  <2> PICK j : j = i + 1 OBVIOUS
  <2>1. i \in 0..n - 1 /\ j \in 1..n /\ j \in 0..n /\ 1 \in 0..n BY <1>1
  <2>2. e[i] = d[j] - d[1] /\ d[j] \in Nat /\ d[1] \in Nat BY <1>2, <1>6, <2>1
  <2>3. d[j] <= Period[l[j].h] BY <1>2, <2>1 DEF Sound, InPeriod
  <2>4. q[i] = l[j] BY <1>1
  <2>5. l[j].h \in Timers BY <1>1, <2>1, EntryFields
  <2>6. Period[l[j].h] \in Nat BY <2>5, PeriodFits
  <2> QED BY <2>2, <2>3, <2>4, <2>6
<1> QED BY <1>1, <1>2, <1>4, <1>5, <1>10 DEF Sound

Cut(l, x) == [l EXCEPT ![1].time = x]

\* Taking the time waited off the first timeout brings all of them forward.
LEMMA CutSound ==
  ASSUME NEW l, Sound(l), l # <<>>, NEW x \in 0..M-1, x <= l[1].time
  PROVE  /\ Sound(Cut(l, x)) /\ Cut(l, x) # <<>>
         /\ \A g : Armed(Cut(l, x), g) <=> Armed(l, g)
<1> PICK q : q = Cut(l, x) OBVIOUS
<1> PICK n : n = Len(l) OBVIOUS
<1> PICK d : d = Due(l) OBVIOUS
<1> PICK f : f = l[1] OBVIOUS
<1> PICK g : g = [f EXCEPT !.time = x] OBVIOUS
<1>1. l \in Seq(Entry) /\ n \in Nat \ {0} /\ 1 \in 1..n /\ f \in Entry
  <2>1. l \in Seq(Entry) /\ n \in Nat \ {0} /\ 1 \in 1..n BY DEF Sound
  <2> QED BY <2>1, EntryFields
<1>2. g \in Entry /\ g.h = f.h /\ g.time = x BY <1>1, EntryTime
<1>3. q = [l EXCEPT ![1] = g] BY DEF Cut
<1>4. /\ DOMAIN l = 1..n
      /\ d \in [0..n -> Nat] /\ d[0] = 0
      /\ \A i \in 1..n : d[i] = d[i - 1] + l[i].time
      /\ f.h \in Timers /\ f.time \in Nat
  BY <1>1, EntryFields, DueDefined
<1>5. /\ q \in Seq(Entry) /\ Len(q) = n /\ DOMAIN q = 1..n
      /\ q[1] = g /\ \A i \in 1..n : i # 1 => q[i] = l[i]
  BY <1>1, <1>2, <1>3, <1>4
<1>6. \A i \in 1..n : q[i].h = l[i].h BY <1>2, <1>5
<1>7. Distinct(q) BY <1>4, <1>5, <1>6 DEF Sound, Distinct
<1>8. \A y : Armed(q, y) <=> Armed(l, y) BY <1>4, <1>5, <1>6 DEF Armed
<1> DEFINE e == [i \in 0..n |-> IF i = 0 THEN 0 ELSE d[i] - (f.time - x)]
<1>9. e[0] = 0 /\ \A i \in 1..n : e[i] = d[i] - (f.time - x) BY <1>1
<1> HIDE DEF e
<1>10. x \in Nat /\ d[1] = f.time
  <2>1. d[1] = d[0] + f.time
    <3>1. \A i \in 1..n : i = 1 => d[i] = d[0] + l[i].time BY <1>4
    <3> QED BY <1>1, <3>1
  <2> QED BY <1>4, <2>1, RateAssumption
<1>11. ASSUME NEW i \in 1..n PROVE e[i] = e[i - 1] + q[i].time
  <2>1. CASE i = 1
    <3>1. e[i] = d[1] - (f.time - x) /\ e[i - 1] = 0
      <4>1. 1 - 1 = 0 /\ e[1] = d[1] - (f.time - x) BY <1>1, <1>9
      <4> QED BY <1>9, <2>1, <4>1
    <3>2. q[i].time = x BY <1>2, <1>5, <2>1
    <3> QED BY <1>4, <1>10, <3>1, <3>2
  <2>2. CASE i # 1
    <3>1. i - 1 \in 1..n /\ i - 1 \in 0..n /\ i \in 0..n BY <1>1, <2>2
    <3>2. e[i] = d[i] - (f.time - x) /\ e[i - 1] = d[i - 1] - (f.time - x) BY <1>9, <3>1
    <3>3. d[i] = d[i - 1] + l[i].time /\ q[i] = l[i] /\ l[i].time \in Nat
      BY <1>1, <1>4, <1>5, <2>2, EntryFields
    <3>4. d[i] \in Nat /\ d[i - 1] \in Nat BY <1>4, <3>1
    <3>5. f.time \in Nat /\ x \in Nat BY <1>4, <1>10
    <3>6. q[i].time = l[i].time BY <3>3
    <3> QED BY ONLY <3>2, <3>3, <3>4, <3>5, <3>6
  <2> QED BY <2>1, <2>2
<1>12. \A i \in 0..n : Due(q)[i] = e[i]
  <2>1. \A i \in 1..Len(q) : e[i] = e[i - 1] + q[i].time BY <1>5, <1>11
  <2>2. q \in Seq(Entry) /\ e[0] = 0 BY <1>5, <1>9
  <2>3. \A i \in 0..Len(q) : Due(q)[i] = e[i] BY ONLY <2>1, <2>2, DueUnique
  <2> QED BY <1>5, <2>3
<1>13. InPeriod(q)
  <2> SUFFICES ASSUME NEW i \in 1..n PROVE e[i] <= Period[q[i].h]
    <3>1. \A i \in 1..n : i \in 0..n BY <1>1
    <3> QED BY <1>5, <1>12, <3>1 DEF InPeriod
  <2>1. i \in 0..n BY <1>1
  <2>2. e[i] = d[i] - (f.time - x) /\ d[i] \in Nat BY <1>4, <1>9, <2>1
  <2>3. d[i] <= Period[l[i].h] BY <1>4 DEF Sound, InPeriod
  <2>4. q[i].h = l[i].h BY <1>6
  <2>5. l[i].h \in Timers BY <1>1, EntryFields
  <2>6. Period[l[i].h] \in Nat BY <2>5, PeriodFits
  <2> QED BY <1>4, <1>10, <2>2, <2>3, <2>4, <2>6
<1>14. q # <<>>
  <2>1. Len(q) # 0 BY <1>1, <1>5
  <2> QED BY <2>1
<1> QED BY <1>5, <1>7, <1>8, <1>13, <1>14 DEF Sound

\* sys_timeouts_init: the list it leaves is sound and holds the periodic
\* timers and no other.
LEMMA BootSound ==
  /\ Sound(AtBoot)
  /\ \A g : Armed(AtBoot, g) <=> g \in Periodic
<1> PICK n : n = Len(Boot) OBVIOUS
<1> DEFINE P(a) == a = [k \in 0..n |-> IF k = 0 THEN <<>>
                                       ELSE Insert(a[k - 1], Boot[k], Period[Boot[k]])]
           Upto(m) == \E a : a = [k \in 0..m |-> IF k = 0 THEN <<>>
                                    ELSE Insert(a[k - 1], Boot[k], Period[Boot[k]])]
           C == {m \in 0..n : ~Upto(m)}
<1>0. n \in Nat /\ DOMAIN Boot = 1..n BY BootAssumption
<1>1. Upto(0)
  <2> PICK z : z = [k \in 0..0 |-> <<>>] OBVIOUS
  <2>1. z = [k \in 0..0 |-> IF k = 0 THEN <<>>
                            ELSE Insert(z[k - 1], Boot[k], Period[Boot[k]])]
    OBVIOUS
  <2> QED BY <2>1
<1>2. ASSUME NEW m \in 1..n, Upto(m - 1) PROVE Upto(m)
  <2>1. PICK a : a = [k \in 0..m - 1 |-> IF k = 0 THEN <<>>
                        ELSE Insert(a[k - 1], Boot[k], Period[Boot[k]])]
    BY <1>2
  <2>2. \A k \in 0..m - 1 : a[k] = IF k = 0 THEN <<>>
                                   ELSE Insert(a[k - 1], Boot[k], Period[Boot[k]])
    BY <2>1
  <2> HIDE <2>1
  <2> DEFINE b == [k \in 0..m |-> IF k = m THEN Insert(a[m - 1], Boot[m], Period[Boot[m]])
                                  ELSE a[k]]
  <2>3. ASSUME NEW k \in 0..m
        PROVE  b[k] = IF k = 0 THEN <<>> ELSE Insert(b[k - 1], Boot[k], Period[Boot[k]])
    <3>1. k # 0 => b[k - 1] = a[k - 1] BY <1>0
    <3>2. CASE k = m BY <1>0, <3>1, <3>2
    <3>3. CASE k # m BY <1>0, <2>2, <3>1, <3>3
    <3> QED BY <3>2, <3>3
  <2>4. b = [k \in 0..m |-> b[k]] OBVIOUS
  <2> HIDE DEF b
  <2>5. b = [k \in 0..m |-> IF k = 0 THEN <<>>
                            ELSE Insert(b[k - 1], Boot[k], Period[Boot[k]])]
    BY <2>3, <2>4
  <2> QED BY <2>5
<1> HIDE DEF Upto
<1>3. C = {}
  <2> SUFFICES ASSUME C # {} PROVE FALSE OBVIOUS
  <2>1. C \subseteq Nat OBVIOUS
  <2>2. PICK m \in C : \A k \in C : m <= k BY <2>1, LeastNat
  <2>3. m \in 1..n BY <1>0, <1>1, <2>2
  <2>4. m - 1 \in 0..n BY <1>0, <2>3
  <2>5. Upto(m - 1) BY <1>0, <2>2, <2>3, <2>4
  <2> QED BY <1>2, <2>2, <2>3, <2>5
<1>4. \E a : P(a)
  <2>1. Upto(n) BY <1>0, <1>3
  <2> QED BY <2>1 DEF Upto
<1> PICK a : a = CHOOSE x : P(x) OBVIOUS
<1>5. P(a) BY <1>4
<1>6. AtBoot = a[n] BY DEF AtBoot
<1>7. a[0] = <<>> /\ \A k \in 1..n : a[k] = Insert(a[k - 1], Boot[k], Period[Boot[k]])
  <2>1. \A k \in 0..n : a[k] = IF k = 0 THEN <<>>
                               ELSE Insert(a[k - 1], Boot[k], Period[Boot[k]])
    BY <1>5
  <2> QED BY <1>0, <2>1
<1> HIDE DEF P
<1> DEFINE Good(k) == /\ Sound(a[k])
                      /\ \A g : Armed(a[k], g) <=> \E j \in 1..k : Boot[j] = g
           D == {k \in 0..n : ~Good(k)}
<1>8. Good(0)
  <2>1. <<>> \in Seq(Entry) /\ DOMAIN <<>> = {} OBVIOUS
  <2>2. Sound(<<>>) BY <2>1 DEF Sound, Distinct, InPeriod
  <2>3. \A g : ~Armed(<<>>, g) BY <2>1 DEF Armed
  <2>4. \A g : ~(\E j \in 1..0 : Boot[j] = g) OBVIOUS
  <2>5. Sound(a[0]) /\ \A g : ~Armed(a[0], g) BY <1>7, <2>2, <2>3
  <2> QED BY <2>4, <2>5
<1>9. ASSUME NEW k \in 1..n, Good(k - 1) PROVE Good(k)
  <2> PICK l : l = a[k - 1] OBVIOUS
  <2> PICK h : h = Boot[k] OBVIOUS
  <2>1. h \in Timers BY <1>0 DEF Timers, Periodic
  <2>2. Sound(l) /\ \A g : Armed(l, g) <=> \E j \in 1..k - 1 : Boot[j] = g BY <1>9
  <2>3. ~Armed(l, h)
    <3>1. ASSUME NEW j \in 1..k - 1 PROVE Boot[j] # h
      <4>1. j \in DOMAIN Boot /\ k \in DOMAIN Boot /\ j # k BY <1>0
      <4> QED BY <4>1, BootAssumption
    <3> QED BY <2>2, <3>1
  <2> PICK q : q = a[k] OBVIOUS
  <2>4. q = Insert(l, h, Period[h]) BY <1>7
  <2>5. Sound(q) /\ \A g : Armed(q, g) <=> Armed(l, g) \/ g = h
    BY ONLY <2>1, <2>2, <2>3, <2>4, InsertSound
  <2>6. \A g : (\E j \in 1..k : Boot[j] = g) <=> (\E j \in 1..k - 1 : Boot[j] = g) \/ g = h
    <3>1. 1..k = 1..k - 1 \cup {k} BY <1>0
    <3> QED BY <3>1
  <2> QED BY <2>2, <2>5, <2>6
<1> HIDE DEF Good
<1>10. D = {}
  <2> SUFFICES ASSUME D # {} PROVE FALSE OBVIOUS
  <2>1. D \subseteq Nat OBVIOUS
  <2>2. PICK m \in D : \A k \in D : m <= k BY <2>1, LeastNat
  <2>3. m \in 1..n BY <1>0, <1>8, <2>2
  <2>4. m - 1 \in 0..n BY <1>0, <2>3
  <2>5. Good(m - 1) BY <1>0, <2>2, <2>3, <2>4
  <2> QED BY <1>9, <2>2, <2>3, <2>5
<1>11. Good(n) BY <1>0, <1>10
<1>12. \A g : (\E j \in 1..n : Boot[j] = g) <=> g \in Periodic BY <1>0 DEF Periodic
<1> QED BY <1>6, <1>11, <1>12 DEF Good

-----------------------------------------------------------------------------
(* The inductive invariant, step by step.                                  *)

Kept(l) == Sound(l) /\ \A h \in Periodic : Armed(l, h)

ScalarsOK ==
  /\ time \in 0..M-1
  /\ pc \in {"again", "pend", "got"}
  /\ start \in 0..M-1
  /\ dly \in Nat
  /\ msgs \in 0..MaxMsgs
  /\ fired \in Timers \cup {None}

LEMMA Parts ==
  /\ IInv <=> ScalarsOK /\ Kept(list) /\ WaitInv
  /\ IInv' <=> ScalarsOK' /\ Kept(list') /\ WaitInv'
<1>1. IInv <=> ScalarsOK /\ Kept(list) /\ WaitInv
  BY DEF IInv, TypeOK, ScalarsOK, Kept, Sound, Distinct, InPeriod, Entry,
         TimersKept, DueWithinPeriod
<1>2. IInv' <=> ScalarsOK' /\ Kept(list') /\ WaitInv'
  BY DEF IInv, TypeOK, ScalarsOK, Kept, Sound, Distinct, InPeriod, Entry,
         TimersKept, DueWithinPeriod, Armed, Due
<1> QED BY <1>1, <1>2

LEMMA ModRange ==
  ASSUME NEW a \in Int
  PROVE  a % M \in 0..M-1
BY RateAssumption

LEMMA ElapsedRange ==
  ASSUME NEW from \in 0..M-1, NEW now \in 0..M-1
  PROVE  Elapsed(from, now) \in 0..M-1
<1> PICK d : d = IF now > from THEN now - from ELSE (M - 1 - from + now) % M OBVIOUS
<1>1. d \in Int
  <2>1. from \in Int /\ now \in Int /\ M \in Int BY RateAssumption
  <2>2. (M - 1 - from + now) % M \in 0..M-1 BY <2>1, ModRange
  <2> QED BY <2>1, <2>2
<1>2. d * Milli \in Int BY <1>1, RateAssumption
<1>3. (d * Milli) % M \in Int BY <1>2, ModRange
<1>4. ((d * Milli) % M) \div Hz \in Int BY <1>3, RateAssumption
<1>5. ((d * Milli) % M) \div Hz + 1 \in Int BY <1>4
<1>6. Elapsed(from, now) = (((d * Milli) % M) \div Hz + 1) % M BY DEF Elapsed
<1> QED BY <1>5, <1>6, ModRange

LEMMA TicksRange ==
  ASSUME NEW ms \in 0..M-1
  PROVE  Ticks(ms) \in Nat
<1> PICK t : t = ((ms * Hz) % M) \div Milli OBVIOUS
<1>1. ms * Hz \in Int BY RateAssumption
<1>2. (ms * Hz) % M \in Int BY <1>1, ModRange
<1>3. Milli \in Int /\ Milli > 0 BY RateAssumption
<1>4. t \in Int BY <1>2, <1>3
<1>5. Ticks(ms) = IF t < 1 THEN 1 ELSE t BY DEF Ticks
<1> QED BY <1>4, <1>5

LEMMA InitIInv == Init => IInv
<1> SUFFICES ASSUME Init PROVE IInv OBVIOUS
<1>1. Kept(list) BY BootSound DEF Init, Kept
<1>2. 0 \in 0..M-1 /\ 0 \in 0..MaxMsgs BY RateAssumption, MsgsAssumption
<1>3. ScalarsOK BY <1>2 DEF Init, ScalarsOK
<1>4. WaitInv BY DEF Init, WaitInv
<1> QED BY <1>1, <1>3, <1>4, Parts

\* A handler that runs leaves the list sound, with every periodic timer.
LEMMA FireKept ==
  ASSUME Kept(list), list # <<>>, Fire
  PROVE  Kept(list') /\ fired' \in Timers /\ pc' = "again"
<1> PICK l : l = list OBVIOUS
<1> PICK h : h = Head(l).h OBVIOUS
<1> PICK q : q = Tail(l) OBVIOUS
<1>1. Sound(l) /\ l # <<>> /\ \A g \in Periodic : Armed(l, g) BY DEF Kept
<1>2. /\ Sound(q) /\ h \in Timers
      /\ \A g : Armed(q, g) <=> Armed(l, g) /\ g # h
  <2>1. h = Head(l).h /\ q = Tail(l) OBVIOUS
  <2>2. /\ Sound(Tail(l)) /\ Head(l) = l[1] /\ l[1].h \in Timers
        /\ \A g : Armed(Tail(l), g) <=> Armed(l, g) /\ g # l[1].h
    BY ONLY <1>1, TailSound
  <2> QED BY ONLY <2>1, <2>2
<1>3. fired' = h /\ pc' = "again" BY DEF Fire
<1>4. list' = Insert(q, h, Period[h]) \/ (h \in OnDemand /\ list' = q) BY DEF Fire
<1>5. CASE list' = Insert(q, h, Period[h])
  <2> PICK r : r = Insert(q, h, Period[h]) OBVIOUS
  <2>1. r = Insert(q, h, Period[h]) /\ ~Armed(q, h) BY <1>2
  <2>2. Sound(r) /\ \A g : Armed(r, g) <=> Armed(q, g) \/ g = h
    BY ONLY <1>2, <2>1, InsertSound
  <2>3. Kept(r) BY ONLY <1>1, <1>2, <2>2 DEF Kept
  <2> QED BY <1>2, <1>3, <1>5, <2>3
<1>6. CASE h \in OnDemand /\ list' = q
  <2>1. h \notin Periodic BY <1>6, BootAssumption
  <2>2. Kept(q) BY ONLY <1>1, <1>2, <2>1 DEF Kept
  <2> QED BY <1>2, <1>3, <1>6, <2>2
<1> QED BY <1>4, <1>5, <1>6

LEMMA FireAtOnceIInv == IInv /\ FireAtOnce => IInv'
<1> SUFFICES ASSUME IInv, FireAtOnce PROVE IInv' OBVIOUS
<1>1. ScalarsOK /\ Kept(list) BY Parts
<1>2. Kept(list') /\ fired' \in Timers /\ pc' = "again"
  BY <1>1, FireKept DEF FireAtOnce
<1>3. ScalarsOK' BY <1>1, <1>2 DEF FireAtOnce, ScalarsOK
<1>4. WaitInv' BY <1>2 DEF WaitInv
<1> QED BY <1>2, <1>3, <1>4, Parts

LEMMA BeginWaitIInv == IInv /\ BeginWait => IInv'
<1> SUFFICES ASSUME IInv, BeginWait PROVE IInv' OBVIOUS
<1>1. ScalarsOK /\ Kept(list) BY Parts
<1>2. list' = list /\ list # <<>> BY DEF BeginWait
<1>3. Ticks(Head(list).time) \in Nat
  <2>1. list \in Seq(Entry) /\ list # <<>> BY <1>1, <1>2 DEF Kept, Sound
  <2>2. Head(list) \in Entry BY <2>1
  <2>3. Head(list).time \in 0..M-1 BY <2>2 DEF Entry
  <2> QED BY <2>3, TicksRange
<1>4. 0 \in 0..M-1 BY RateAssumption
<1>5. ScalarsOK'
  <2>1. /\ time' = time /\ start' = time /\ fired' = None
    BY DEF BeginWait
  <2>2. CASE msgs > 0
    <3>1. pc' = "got" /\ msgs' = msgs - 1 /\ dly' = 0 BY <2>2 DEF BeginWait
    <3>2. msgs' \in 0..MaxMsgs BY <1>1, <2>2, <3>1, MsgsAssumption DEF ScalarsOK
    <3> QED BY <1>1, <1>4, <2>1, <3>1, <3>2 DEF ScalarsOK
  <2>3. CASE ~(msgs > 0)
    <3>1. pc' = "pend" /\ msgs' = msgs /\ dly' = Ticks(Head(list).time)
      BY <2>3 DEF BeginWait
    <3> QED BY <1>1, <1>3, <1>4, <2>1, <3>1 DEF ScalarsOK
  <2> QED BY <2>2, <2>3
<1>6. WaitInv' BY <1>2 DEF WaitInv
<1> QED BY <1>1, <1>2, <1>5, <1>6, Parts

LEMMA WakeIInv == IInv /\ Wake => IInv'
<1> SUFFICES ASSUME IInv, Wake PROVE IInv' OBVIOUS
<1>1. ScalarsOK /\ Kept(list) /\ WaitInv BY Parts
<1>2. msgs' \in 0..MaxMsgs BY <1>1, MsgsAssumption DEF Wake, ScalarsOK
<1>3. ScalarsOK' BY <1>1, <1>2 DEF Wake, ScalarsOK
<1>4. list' = list /\ list # <<>> BY <1>1 DEF Wake, WaitInv
<1>5. WaitInv' BY <1>4 DEF WaitInv
<1> QED BY <1>1, <1>3, <1>4, <1>5, Parts

LEMMA TimeOutIInv == IInv /\ TimeOut => IInv'
<1> SUFFICES ASSUME IInv, TimeOut PROVE IInv' OBVIOUS
<1>1. ScalarsOK /\ Kept(list) /\ WaitInv BY Parts
<1>2. list # <<>> BY <1>1 DEF TimeOut, WaitInv
<1>3. Kept(list') /\ fired' \in Timers /\ pc' = "again"
  BY <1>1, <1>2, FireKept DEF TimeOut
<1>4. 0 \in 0..M-1 /\ M - 1 \in 0..M-1 BY RateAssumption
<1>5. ScalarsOK' BY <1>1, <1>3, <1>4 DEF TimeOut, LeaveFetch, Timeout, ScalarsOK
<1>6. WaitInv' BY <1>3 DEF WaitInv
<1> QED BY <1>3, <1>5, <1>6, Parts

LEMMA GotIInv == IInv /\ Got => IInv'
<1> SUFFICES ASSUME IInv, Got PROVE IInv' OBVIOUS
<1>1. ScalarsOK /\ Kept(list) /\ WaitInv BY Parts
<1>2. list # <<>> BY <1>1 DEF Got, WaitInv
<1> PICK t : t = Elapsed(start, time) OBVIOUS
<1>3. t \in 0..M-1 BY <1>1, ElapsedRange DEF ScalarsOK
<1> PICK x : x = IF t < list[1].time THEN list[1].time - t ELSE 0 OBVIOUS
<1> PICK l : l = [list EXCEPT ![1].time = x] OBVIOUS
<1>4. \/ t = Timeout /\ Fire
      \/ /\ pc' = "again" /\ fired' = fired
         /\ \/ list' = l
            \/ \E h \in OnDemand : ~Armed(list, h) /\ list' = Insert(l, h, Period[h])
  BY DEF Got
<1>5. time' = time /\ msgs' = msgs /\ start' = 0 /\ dly' = 0
  BY DEF Got, LeaveFetch
<1>6. x \in 0..M-1 /\ x <= list[1].time
  <2>1. list \in Seq(Entry) /\ 1 \in 1..Len(list) BY <1>1, <1>2 DEF Kept, Sound
  <2>2. list[1] \in Entry BY <2>1
  <2>3. list[1].time \in 0..M-1 BY <2>2 DEF Entry
  <2> QED BY <1>3, <2>3, RateAssumption
<1>7. Sound(l) /\ \A g : Armed(l, g) <=> Armed(list, g)
  <2>1. Sound(list) BY <1>1 DEF Kept
  <2> PICK k : k = list OBVIOUS
  <2>2. Sound(k) /\ k # <<>> /\ x \in 0..M-1 /\ x <= k[1].time BY <1>2, <1>6, <2>1
  <2>3. l = Cut(k, x) BY DEF Cut
  <2>4. Sound(l) /\ \A g : Armed(l, g) <=> Armed(k, g)
    BY ONLY <2>2, <2>3, CutSound
  <2> QED BY <2>4
<1>8. Kept(list') /\ pc' = "again" /\ (fired' = fired \/ fired' \in Timers)
  <2>1. CASE t = Timeout /\ Fire BY <1>1, <1>2, <2>1, FireKept
  <2>2. CASE list' = l /\ pc' = "again" /\ fired' = fired
    <3>1. Kept(l) BY <1>1, <1>7 DEF Kept
    <3> QED BY <2>2, <3>1
  <2>3. ASSUME NEW h \in OnDemand, ~Armed(list, h), list' = Insert(l, h, Period[h]),
               pc' = "again", fired' = fired
        PROVE  Kept(list') /\ pc' = "again" /\ fired' = fired
    <3>1. h \in Timers /\ ~Armed(l, h) BY <1>7, <2>3 DEF Timers
    <3> PICK r : r = Insert(l, h, Period[h]) OBVIOUS
    <3>2. r = Insert(l, h, Period[h]) OBVIOUS
    <3>3. Sound(r) /\ \A g : Armed(r, g) <=> Armed(l, g) \/ g = h
      BY ONLY <1>7, <3>1, <3>2, InsertSound
    <3>4. Kept(r) BY <1>1, <1>7, <3>3 DEF Kept
    <3> QED BY <2>3, <3>4
  <2> QED BY <1>4, <2>1, <2>2, <2>3
<1>9. 0 \in 0..M-1 BY RateAssumption
<1>10. ScalarsOK' BY <1>1, <1>3, <1>4, <1>5, <1>8, <1>9 DEF ScalarsOK
<1>11. WaitInv' BY <1>8 DEF WaitInv
<1> QED BY <1>8, <1>10, <1>11, Parts

LEMMA TickIInv == IInv /\ Tick => IInv'
<1> SUFFICES ASSUME IInv, Tick PROVE IInv' OBVIOUS
<1>1. ScalarsOK /\ Kept(list) /\ WaitInv BY Parts
<1>2. time' \in 0..M-1
  <2>1. time + 1 \in Int BY <1>1, RateAssumption DEF ScalarsOK
  <2> QED BY <2>1, ModRange DEF Tick
<1>3. dly' \in Nat BY <1>1 DEF Tick, ScalarsOK
<1>4. ScalarsOK' BY <1>1, <1>2, <1>3 DEF Tick, ScalarsOK
<1>5. list' = list /\ pc' = pc BY DEF Tick
<1>6. WaitInv' BY <1>1, <1>5 DEF WaitInv
<1> QED BY <1>1, <1>4, <1>5, <1>6, Parts

LEMMA PostIInv == IInv /\ Post => IInv'
<1> SUFFICES ASSUME IInv, Post PROVE IInv' OBVIOUS
<1>1. ScalarsOK /\ Kept(list) /\ WaitInv BY Parts
<1>2. msgs' \in 0..MaxMsgs BY <1>1, MsgsAssumption DEF Post, ScalarsOK
<1>3. ScalarsOK' BY <1>1, <1>2 DEF Post, ScalarsOK
<1>4. list' = list /\ pc' = pc BY DEF Post
<1>5. WaitInv' BY <1>1, <1>4 DEF WaitInv
<1> QED BY <1>1, <1>3, <1>4, <1>5, Parts
-----------------------------------------------------------------------------
(* Theorems *)

\* IInv is inductive: it holds from sys_timeouts_init on, whatever the thread,
\* the tick and the senders do.
THEOREM Inductive == Spec => []IInv
<1>1. IInv /\ [Next]_vars => IInv'
  <2> SUFFICES ASSUME IInv, [Next]_vars PROVE IInv' OBVIOUS
  <2>1. CASE FireAtOnce BY <2>1, FireAtOnceIInv
  <2>2. CASE BeginWait BY <2>2, BeginWaitIInv
  <2>3. CASE Wake BY <2>3, WakeIInv
  <2>4. CASE TimeOut BY <2>4, TimeOutIInv
  <2>5. CASE Got BY <2>5, GotIInv
  <2>6. CASE Tick BY <2>6, TickIInv
  <2>7. CASE Post BY <2>7, PostIInv
  <2>8. CASE UNCHANGED vars
    <3>1. ScalarsOK' <=> ScalarsOK BY <2>8 DEF vars, ScalarsOK
    <3>2. WaitInv' <=> WaitInv BY <2>8 DEF vars, WaitInv
    <3>3. list' = list BY <2>8 DEF vars
    <3> QED BY <3>1, <3>2, <3>3, Parts
  <2> QED BY <2>1, <2>2, <2>3, <2>4, <2>5, <2>6, <2>7, <2>8 DEF Next, TcpipThread
<1> QED BY InitIInv, <1>1, PTL DEF Spec

\* sys_timeout and sys_timeouts_mbox_fetch never lose a periodic timer and
\* never arm a timer twice.
THEOREM NoTimerLost == Spec => []TimersKept
<1>1. IInv => TimersKept BY DEF IInv
<1> QED BY Inductive, <1>1, PTL

\* The differences kept in the list stay within u32_t and add up to no more
\* than each timer's own period, however often the list is cut short by
\* messages and inserted into.
THEOREM DifferencesSound == Spec => []ListSound
<1>1. IInv => ListSound BY DEF IInv, ListSound
<1> QED BY Inductive, <1>1, PTL
=============================================================================
