---------------------------- MODULE MallocProofs ----------------------------
(***************************************************************************)
(* Theorems of Malloc, for any size of the pool and of its blocks, any     *)
(* requests and any number of blocks the client keeps.                     *)
(***************************************************************************)
EXTENDS Malloc, TLAPS

(* Entries that show the length of a call's block now, and those a call    *)
(* has found free and will write.                                          *)
Held(c, x) ==
  \/ op[c].pc = "mark" /\ x \in op[c].offset..op[c].offset + op[c].i - 1
  \/ op[c].pc = "use" /\ x \in op[c].offset..op[c].offset + op[c].nmemb - 1
  \/ op[c].pc = "clear" /\ x \in op[c].offset + op[c].i..op[c].offset + op[c].nmemb - 1

Planned(c, x) ==
  \/ op[c].pc = "scan" /\ x \in op[c].offset + 1..op[c].offset + op[c].cmemb
  \/ op[c].pc = "mark" /\ x \in op[c].offset + op[c].i..op[c].offset + op[c].nmemb - 1

Kept(x) == \E b \in live : x \in Span(b)

\* Taken as long as context c is in its call: contexts above c give back what
\* they took before c goes on.
Below(c, x) == Kept(x) \/ \E d \in Contexts : d < c /\ Held(d, x)

(* The inductive invariant.                                                *)

\* The locals of a call.
LocalsInv == \A c \in Contexts :
  /\ op[c].pc = "scan" => /\ op[c].nmemb > op[c].cmemb
                          /\ op[c].offset + op[c].cmemb < N /\ op[c].i = 0
  /\ op[c].pc \in {"mark", "use", "clear"} =>
       /\ op[c].offset >= 0 /\ op[c].nmemb > 0 /\ op[c].offset + op[c].nmemb <= N
       /\ op[c].i <= op[c].nmemb

\* An entry shows the block that holds it, and no other entry is in use.
MapInv ==
  /\ \A b \in live : \A x \in Span(b) : map[x] = b.n
  /\ \A c \in Contexts : \A x \in Index : Held(c, x) => map[x] = op[c].nmemb
  /\ \A x \in Index : map[x] # 0 => Kept(x) \/ \E c \in Contexts : Held(c, x)

\* Nobody holds what somebody else holds.
DisjointInv ==
  /\ \A b \in live : b.at + b.n <= N
  /\ \A a, b \in live : a # b => \A x \in Index : ~(x \in Span(a) /\ x \in Span(b))
  /\ \A c \in Contexts : \A x \in Index : ~(Held(c, x) /\ Kept(x))
  /\ \A c, d \in Contexts : c # d => \A x \in Index : ~(Held(c, x) /\ Held(d, x))

\* What a call has found free stays free, whoever interrupts it.
PlanInv == \A c \in Contexts : \A x \in Index : Planned(c, x) => ~Below(c, x)

\* The search has passed no run that is long enough, and counts all it can.
SearchInv == \A c \in Contexts : op[c].pc = "scan" =>
  /\ op[c].offset + op[c].cmemb < N - 1 => Below(c, op[c].offset + op[c].cmemb + 1)
  /\ \A first \in Index :
       first > op[c].offset /\ first + op[c].nmemb <= N
         => \E x \in first..first + op[c].nmemb - 1 : Below(c, x)

IInv == TypeOK /\ LocalsInv /\ MapInv /\ DisjointInv /\ PlanInv /\ SearchInv

(* A statement of PlanInv and SearchInv about one context. *)
PlanOf(c) == \A x \in Index : Planned(c, x) => ~Below(c, x)

SearchOf(c) == op[c].pc = "scan" =>
  /\ op[c].offset + op[c].cmemb < N - 1 => Below(c, op[c].offset + op[c].cmemb + 1)
  /\ \A first \in Index :
       first > op[c].offset /\ first + op[c].nmemb <= N
         => \E x \in first..first + op[c].nmemb - 1 : Below(c, x)
-----------------------------------------------------------------------------
(* Lemmas about a state. *)

\* The locals of a call.
LEMMA Locals ==
  ASSUME TypeOK, NEW c \in Contexts
  PROVE  /\ op[c].pc \in {"idle", "scan", "mark", "use", "clear"}
         /\ op[c].nmemb \in Nat /\ op[c].offset \in -1..N-1
         /\ op[c].cmemb \in 0..N /\ op[c].i \in 0..N
         /\ op[c].offset \in Int /\ op[c].cmemb \in Nat /\ op[c].i \in Nat
         /\ N \in Nat
  BY PoolAssumption DEF TypeOK

\* A context that is idle holds and plans nothing.
LEMMA IdleHoldsNone ==
  ASSUME NEW d \in Contexts, op[d].pc = "idle", NEW x
  PROVE  ~Held(d, x) /\ ~Planned(d, x)
  BY DEF Held, Planned

\* An allocation has at least one block.
LEMMA BlocksPositive ==
  ASSUME NEW size \in Nat, size # 0
  PROVE  Blocks(size) \in Nat /\ Blocks(size) > 0
<1> DEFINE q == (size + BlockSize - 1) \div BlockSize
<1>1. BlockSize \in Nat /\ BlockSize > 0 /\ size + BlockSize - 1 >= BlockSize
  BY PoolAssumption
<1>2. q \in Int /\ q > 0
  BY <1>1, Z3
<1> QED BY <1>2 DEF Blocks

\* An entry that shows 0 belongs to nobody.
LEMMA FreeEntry ==
  ASSUME TypeOK, LocalsInv, MapInv, NEW x \in Index, map[x] = 0
  PROVE  ~Kept(x) /\ \A c \in Contexts : ~Held(c, x) /\ ~Below(c, x)
<1>1. ~Kept(x)
  <2> SUFFICES ASSUME NEW b \in live, x \in Span(b) PROVE FALSE BY DEF Kept
  <2>1. map[x] = b.n BY DEF MapInv
  <2>2. b.n \in 1..N BY DEF TypeOK, Block
  <2> QED BY <2>1, <2>2
<1>2. ASSUME NEW c \in Contexts, Held(c, x) PROVE FALSE
  <2>1. map[x] = op[c].nmemb BY <1>2 DEF MapInv
  <2>2. op[c].pc \in {"mark", "use", "clear"} BY <1>2 DEF Held
  <2>3. op[c].nmemb \in Nat /\ op[c].nmemb > 0 BY <2>2, Locals DEF LocalsInv
  <2> QED BY <2>1, <2>3
<1> QED BY <1>1, <1>2 DEF Below

\* What the running context finds in use stays so during its call.
LEMMA BusyEntry ==
  ASSUME TypeOK, MapInv, NEW c \in Contexts, Runs(c), op[c].pc \in {"idle", "scan"},
         NEW x \in Index, map[x] # 0
  PROVE  Below(c, x)
<1>1. Kept(x) \/ \E d \in Contexts : Held(d, x) BY DEF MapInv
<1>2. ASSUME NEW d \in Contexts, Held(d, x) PROVE d < c
  <2>1. ~(d > c) BY <1>2, IdleHoldsNone DEF Runs
  <2>2. d # c BY <1>2 DEF Held
  <2> QED BY <2>1, <2>2 DEF Contexts
<1> QED BY <1>1, <1>2 DEF Below
-----------------------------------------------------------------------------
(* Lemmas about a step of the context that runs: the others do not move.   *)

LEMMA Elsewhere ==
  ASSUME NEW d \in Contexts, op'[d] = op[d], NEW x
  PROVE  (Held(d, x)' <=> Held(d, x)) /\ (Planned(d, x)' <=> Planned(d, x))
  BY DEF Held, Planned

\* What lies below a context that does not run is unchanged, unless what the
\* client keeps changes.
LEMMA BelowUnchanged ==
  ASSUME NEW c \in Contexts, \A d \in Contexts : d # c => op'[d] = op[d],
         live' = live, NEW d \in Contexts, d <= c, NEW x
  PROVE  Below(d, x)' <=> Below(d, x)
<1>1. Kept(x)' <=> Kept(x) BY DEF Kept, Span
<1>2. ASSUME NEW e \in Contexts, e < d PROVE Held(e, x)' <=> Held(e, x)
  BY <1>2, Elsewhere DEF Contexts
<1> QED BY <1>1, <1>2 DEF Below

\* The contexts that do not run keep their plans and what their search knows.
LEMMA OthersPlan ==
  ASSUME PlanInv, SearchInv, NEW c \in Contexts, Runs(c),
         \A d \in Contexts : d # c => op'[d] = op[d],
         live' = live \/ \A d \in Contexts : d < c => op[d].pc = "idle",
         NEW d \in Contexts, d # c
  PROVE  PlanOf(d)' /\ SearchOf(d)'
<1>1. CASE d > c
  <2>1. op'[d].pc = "idle" BY <1>1 DEF Runs
  <2> QED BY <2>1 DEF PlanOf, SearchOf, Planned
<1>2. CASE d < c /\ op[d].pc = "idle"
  <2>1. op'[d].pc = "idle" BY <1>2
  <2> QED BY <2>1 DEF PlanOf, SearchOf, Planned
<1>3. CASE d < c /\ live' = live
  <2>1. \A x : Below(d, x)' <=> Below(d, x) BY <1>3, BelowUnchanged DEF Contexts
  <2>2. \A x : Planned(d, x)' <=> Planned(d, x) BY Elsewhere
  <2>3. PlanOf(d)' BY <2>1, <2>2 DEF PlanOf, PlanInv
  <2>4. SearchOf(d) BY DEF SearchInv, SearchOf
  <2>5. SearchOf(d)' BY <2>1, <2>4 DEF SearchOf
  <2> QED BY <2>3, <2>5
<1> QED BY <1>1, <1>2, <1>3 DEF Contexts

LEMMA PlanAndSearch ==
  ASSUME PlanInv, SearchInv, NEW c \in Contexts, Runs(c),
         \A d \in Contexts : d # c => op'[d] = op[d],
         live' = live \/ \A d \in Contexts : d < c => op[d].pc = "idle",
         PlanOf(c)', SearchOf(c)'
  PROVE  PlanInv' /\ SearchInv'
<1>1. ASSUME NEW d \in Contexts PROVE PlanOf(d)' /\ SearchOf(d)'
  BY OthersPlan
<1> QED BY <1>1 DEF PlanInv, SearchInv, PlanOf, SearchOf

\* The locals of the others are as they were.
LEMMA OthersLocals ==
  ASSUME LocalsInv, NEW c \in Contexts, \A d \in Contexts : d # c => op'[d] = op[d],
         op'[c].pc = "scan" => /\ op'[c].nmemb > op'[c].cmemb
                               /\ op'[c].offset + op'[c].cmemb < N /\ op'[c].i = 0,
         op'[c].pc \in {"mark", "use", "clear"} =>
           /\ op'[c].offset >= 0 /\ op'[c].nmemb > 0 /\ op'[c].offset + op'[c].nmemb <= N
           /\ op'[c].i <= op'[c].nmemb
  PROVE  LocalsInv'
  BY DEF LocalsInv

\* A step that moves no entry from one holder to another.
LEMMA HoldersUnchanged ==
  ASSUME MapInv, DisjointInv, NEW c \in Contexts, map' = map, live' = live,
         \A d \in Contexts : d # c => op'[d] = op[d],
         \A x \in Index : Held(c, x)' <=> Held(c, x),
         \A x \in Index : Held(c, x) => op'[c].nmemb = op[c].nmemb
  PROVE  MapInv' /\ DisjointInv'
<1>1. \A d \in Contexts, x \in Index : Held(d, x)' <=> Held(d, x) BY Elsewhere
<1>2. \A x : Kept(x)' <=> Kept(x) BY DEF Kept, Span
<1>3. MapInv'
  <2>1. \A d \in Contexts, x \in Index : Held(d, x)' => map'[x] = op'[d].nmemb
    BY <1>1 DEF MapInv
  <2> QED BY <1>1, <1>2, <2>1 DEF MapInv, Span
<1>4. DisjointInv' BY <1>1, <1>2 DEF DisjointInv, Span
<1> QED BY <1>3, <1>4

-----------------------------------------------------------------------------
(* The steps of my_mem_malloc. *)

CallType == [pc : {"idle", "scan", "mark", "use", "clear"},
             nmemb : Nat, offset : -1..N-1, cmemb : 0..N, i : 0..N]

\* The call of one context changes, the others stay.
LEMMA CallChanges ==
  ASSUME TypeOK, NEW c \in Contexts, NEW o \in CallType, op' = [op EXCEPT ![c] = o],
         map' \in [Index -> 0..N], live' \subseteq Block
  PROVE  TypeOK' /\ op'[c] = o /\ \A d \in Contexts : d # c => op'[d] = op[d]
  BY DEF TypeOK, CallType

LEMMA InitIInv == Init => IInv
<1> SUFFICES ASSUME Init PROVE IInv OBVIOUS
<1>1. TypeOK BY PoolAssumption DEF Init, TypeOK, Contexts, Quiet
<1>2. \A c \in Contexts : op[c] = Quiet /\ op[c].pc = "idle" BY DEF Init, Quiet
<1>3. \A c \in Contexts, x \in Index : ~Held(c, x) /\ ~Planned(c, x)
  BY <1>2, IdleHoldsNone
<1>4. LocalsInv BY <1>2 DEF LocalsInv
<1>5. MapInv BY <1>3 DEF MapInv, Init
<1>6. DisjointInv BY <1>3 DEF DisjointInv, Init
<1>7. PlanInv BY <1>3 DEF PlanInv
<1>8. SearchInv BY <1>2 DEF SearchInv
<1> QED BY <1>1, <1>4, <1>5, <1>6, <1>7, <1>8 DEF IInv

LEMMA CallMallocStep ==
  ASSUME IInv, NEW c \in Contexts, CallMalloc(c) PROVE IInv'
<1> USE DEF IInv
<1>1. PICK size \in Sizes : /\ size # 0
        /\ op' = [op EXCEPT ![c] = [Quiet EXCEPT !.pc = "scan", !.nmemb = Blocks(size),
                                                 !.offset = N - 1]]
  BY DEF CallMalloc
<1> DEFINE o == [Quiet EXCEPT !.pc = "scan", !.nmemb = Blocks(size), !.offset = N - 1]
<1>2. Blocks(size) \in Nat /\ Blocks(size) > 0
  BY <1>1, SizesAssumption, BlocksPositive
<1>3. N \in Nat /\ N > 0 BY PoolAssumption
<1>4. o \in CallType
  <2>1. N - 1 \in -1..N-1 /\ 0 \in -1..N-1 /\ 0 \in 0..N BY <1>3
  <2>2. Quiet \in CallType BY <2>1 DEF Quiet, CallType
  <2> QED BY <1>2, <2>1, <2>2 DEF CallType
<1>5. op' = [op EXCEPT ![c] = o] BY <1>1
<1>6. map' = map /\ live' = live /\ Runs(c) /\ op[c].pc = "idle" BY DEF CallMalloc
<1>7. map' \in [Index -> 0..N] /\ live' \subseteq Block BY <1>6 DEF TypeOK
<1>8. TypeOK' /\ op'[c] = o /\ \A d \in Contexts : d # c => op'[d] = op[d]
  BY <1>4, <1>5, <1>7, CallChanges
<1> HIDE DEF o
<1>9. /\ op'[c].pc = "scan" /\ op'[c].nmemb = Blocks(size) /\ op'[c].offset = N - 1
      /\ op'[c].cmemb = 0 /\ op'[c].i = 0
  BY <1>8 DEF o, Quiet
<1>10. LocalsInv' BY <1>2, <1>3, <1>8, <1>9, OthersLocals
<1>11. \A x : ~Held(c, x)' /\ ~Held(c, x) BY <1>6, <1>9 DEF Held
<1>12. MapInv' /\ DisjointInv' BY <1>6, <1>8, <1>11, HoldersUnchanged
<1>13. PlanOf(c)'
  <2>1. \A x \in Index : ~Planned(c, x)' BY <1>3, <1>9 DEF Planned, Index
  <2> QED BY <2>1 DEF PlanOf
<1>14. SearchOf(c)'
  <2>1. ~(op'[c].offset + op'[c].cmemb < N - 1) BY <1>3, <1>9
  <2>2. ASSUME NEW first \in Index, first > op'[c].offset PROVE FALSE
    BY <1>3, <1>9, <2>2 DEF Index
  <2> QED BY <2>1, <2>2 DEF SearchOf
<1>15. PlanInv' /\ SearchInv' BY <1>6, <1>8, <1>13, <1>14, PlanAndSearch
<1> QED BY <1>8, <1>10, <1>12, <1>15

LEMMA ScanStep ==
  ASSUME IInv, NEW c \in Contexts, Scan(c) PROVE IInv'
<1> USE DEF IInv
<1> DEFINE off == op[c].offset
           cm == op[c].cmemb
           nm == op[c].nmemb
           run == IF map[off] = 0 THEN cm + 1 ELSE 0
<1>1. /\ Runs(c) /\ op[c].pc = "scan" /\ off >= 0
      /\ op' = IF run = nm THEN [op EXCEPT ![c].pc = "mark"]
               ELSE [op EXCEPT ![c].offset = @ - 1, ![c].cmemb = run]
      /\ map' = map /\ live' = live
  BY DEF Scan
<1>2. /\ off \in Int /\ cm \in Nat /\ nm \in Nat /\ N \in Nat
      /\ off \in Index /\ off + cm < N /\ nm > cm /\ op[c].i = 0 /\ cm \in 0..N
  BY <1>1, Locals DEF LocalsInv, Index
<1>3. run \in Nat /\ run <= nm /\ run + off <= N /\ run \in 0..N
  <2>1. CASE map[off] = 0
    <3>1. run = cm + 1 BY <2>1
    <3> HIDE DEF run
    <3>2. run \in Nat /\ run <= nm BY <1>2, <3>1
    <3>3. run + off <= N BY <1>2, <3>1
    <3>4. run <= N BY <1>2, <3>1 DEF Index
    <3> QED BY <1>2, <3>2, <3>3, <3>4
  <2>2. CASE map[off] # 0
    <3>1. run = 0 BY <2>2
    <3> HIDE DEF run
    <3>2. off <= N /\ 0 \in 0..N BY <1>2 DEF Index
    <3> QED BY <1>2, <3>1, <3>2
  <2> QED BY <2>1, <2>2
<1> DEFINE o == IF run = nm THEN [op[c] EXCEPT !.pc = "mark"]
                ELSE [op[c] EXCEPT !.offset = @ - 1, !.cmemb = run]
<1>4. op[c] \in CallType BY DEF TypeOK, CallType
<1>5. o \in CallType
  <2>1. off - 1 \in -1..N-1 BY <1>2 DEF Index
  <2> HIDE DEF run
  <2>2. [op[c] EXCEPT !.pc = "mark"] \in CallType BY <1>4 DEF CallType
  <2>3. [op[c] EXCEPT !.offset = @ - 1, !.cmemb = run] \in CallType
    BY <1>3, <1>4, <2>1 DEF CallType
  <2> QED BY <2>2, <2>3
<1>6. op' = [op EXCEPT ![c] = o]
  <2> HIDE DEF run
  <2>1. op \in [Contexts -> CallType] BY DEF TypeOK, CallType
  <2>2. CASE run = nm BY <1>1, <2>1, <2>2
  <2>3. CASE run # nm
    <3>1. op' = [op EXCEPT ![c].offset = @ - 1, ![c].cmemb = run] BY <1>1, <2>3
    <3> QED BY <2>1, <2>3, <3>1
  <2> QED BY <2>2, <2>3
<1>7. map' \in [Index -> 0..N] /\ live' \subseteq Block BY <1>1 DEF TypeOK
<1>8. TypeOK' /\ op'[c] = o /\ \A d \in Contexts : d # c => op'[d] = op[d]
  <2> HIDE DEF o
  <2> QED BY <1>5, <1>6, <1>7, CallChanges
<1>9. op'[c].nmemb = nm /\ op'[c].i = 0
  <2> HIDE DEF run
  <2> QED BY <1>2, <1>4, <1>8 DEF CallType
<1>10. run = nm => op'[c].pc = "mark" /\ op'[c].offset = off BY <1>4, <1>8 DEF CallType
<1>11. run # nm => /\ op'[c].pc = "scan" /\ op'[c].offset = off - 1 /\ op'[c].cmemb = run
  <2> HIDE DEF run
  <2> SUFFICES ASSUME run # nm
      PROVE  op'[c].pc = "scan" /\ op'[c].offset = off - 1 /\ op'[c].cmemb = run
    OBVIOUS
  <2>1. op'[c] = [op[c] EXCEPT !.offset = @ - 1, !.cmemb = run] BY <1>8
  <2> QED BY <1>1, <1>4, <2>1 DEF CallType
<1>12. run = 0 => Below(c, off)
  <2>1. ASSUME run = 0 PROVE map[off] # 0 BY <2>1, <1>2
  <2> QED BY <2>1, <1>1, <1>2, BusyEntry
<1>13. run # 0 => run = cm + 1 /\ ~Below(c, off)
  BY <1>2, FreeEntry
<1>14. \A x : Below(c, x)' <=> Below(c, x)
  BY <1>1, <1>8, BelowUnchanged DEF Contexts
<1> HIDE DEF run, o
<1>15. LocalsInv'
  <2>1. CASE run = nm
    <3>1. nm > 0 /\ off + nm <= N BY <1>2, <1>3, <2>1
    <3> QED BY <1>1, <1>2, <1>8, <1>9, <1>10, <2>1, <3>1, OthersLocals
  <2>2. CASE run # nm
    <3>1. nm > run /\ off - 1 + run < N BY <1>2, <1>3, <2>2
    <3> QED BY <1>8, <1>9, <1>11, <2>2, <3>1, OthersLocals
  <2> QED BY <2>1, <2>2
<1>16. \A x \in Index : ~Held(c, x)' /\ ~Held(c, x)
  <2>1. \A x \in Index : ~Held(c, x) BY <1>1 DEF Held
  <2>2. ASSUME NEW x \in Index, Held(c, x)' PROVE FALSE
    <3>1. op'[c].pc = "mark" /\ x \in op'[c].offset..op'[c].offset + op'[c].i - 1
      BY <1>10, <1>11, <2>2 DEF Held
    <3>2. x \in off..off + 0 - 1 BY <1>9, <1>10, <1>11, <3>1
    <3> QED BY <1>2, <3>2
  <2> QED BY <2>1, <2>2
<1>17. MapInv' /\ DisjointInv' BY <1>1, <1>8, <1>16, HoldersUnchanged
<1>18. \A x \in Index : x \in off..off + run - 1 => ~Below(c, x)
  <2> SUFFICES ASSUME NEW x \in Index, x \in off..off + run - 1 PROVE ~Below(c, x)
    OBVIOUS
  <2>1. run = cm + 1 /\ ~Below(c, off) BY <1>2, <1>3, <1>13
  <2>2. x = off \/ x \in off + 1..off + cm BY <1>2, <2>1
  <2>3. x \in off + 1..off + cm => ~Below(c, x) BY <1>1 DEF PlanInv, Planned
  <2> QED BY <2>1, <2>2, <2>3
<1>19. PlanOf(c)'
  <2>1. ASSUME NEW x \in Index, Planned(c, x)' PROVE x \in off..off + run - 1
    <3>1. CASE run = nm
      <4>1. x \in off + 0..off + nm - 1 BY <1>9, <1>10, <2>1, <3>1 DEF Planned
      <4> QED BY <1>2, <3>1, <4>1
    <3>2. CASE run # nm
      <4>1. x \in off - 1 + 1..off - 1 + run BY <1>11, <2>1, <3>2 DEF Planned
      <4> QED BY <1>2, <1>3, <4>1
    <3> QED BY <3>1, <3>2
  <2> QED BY <1>14, <1>18, <2>1 DEF PlanOf
<1>20. SearchOf(c)'
  <2> SUFFICES ASSUME run # nm PROVE SearchOf(c)' BY <1>10 DEF SearchOf
  <2>1. ASSUME off - 1 + run < N - 1 PROVE Below(c, off - 1 + run + 1)
    <3>1. CASE run = 0
      <4>1. off - 1 + run + 1 = off BY <1>2, <3>1
      <4> QED BY <1>12, <3>1, <4>1
    <3>2. CASE run # 0
      <4>1. run = cm + 1 BY <1>13, <3>2
      <4>2. off - 1 + run + 1 = off + cm + 1 BY <1>2, <4>1
      <4>3. off + cm < N - 1 BY <1>2, <2>1, <4>1
      <4>4. Below(c, off + cm + 1) BY <1>1, <4>3 DEF SearchInv
      <4> QED BY <4>2, <4>4
    <3> QED BY <3>1, <3>2
  <2>2. ASSUME NEW first \in Index, first > off - 1, first + nm <= N
        PROVE  \E x \in first..first + nm - 1 : Below(c, x)
    <3>1. CASE first = off
      <4>1. off - 1 + run < N - 1 BY <1>2, <1>3, <2>2, <3>1, run # nm
      <4>2. Below(c, off - 1 + run + 1) BY <2>1, <4>1
      <4>3. off - 1 + run + 1 \in first..first + nm - 1
        BY <1>2, <1>3, <3>1, run # nm
      <4> QED BY <4>2, <4>3
    <3>2. CASE first # off
      <4>1. first > off BY <1>2, <2>2, <3>2 DEF Index
      <4> QED BY <1>1, <2>2, <4>1 DEF SearchInv
    <3> QED BY <3>1, <3>2
  <2>3. /\ op'[c].offset + op'[c].cmemb < N - 1
             => Below(c, op'[c].offset + op'[c].cmemb + 1)
        /\ \A first \in Index :
             first > op'[c].offset /\ first + op'[c].nmemb <= N
               => \E x \in first..first + op'[c].nmemb - 1 : Below(c, x)
    BY <1>9, <1>11, <2>1, <2>2
  <2>4. PICK y : y = op'[c].offset + op'[c].cmemb + 1 OBVIOUS
  <2>5. op'[c].offset + op'[c].cmemb < N - 1 => Below(c, y)' BY <1>14, <2>3, <2>4
  <2>6. \A first \in Index :
             first > op'[c].offset /\ first + op'[c].nmemb <= N
               => \E x \in first..first + op'[c].nmemb - 1 : Below(c, x)'
    BY <1>14, <2>3
  <2> QED BY <2>4, <2>5, <2>6 DEF SearchOf
<1>21. PlanInv' /\ SearchInv' BY <1>1, <1>8, <1>19, <1>20, PlanAndSearch
<1> QED BY <1>8, <1>15, <1>17, <1>21

\* A call that neither searches nor marks plans nothing.
LEMMA NothingPlanned ==
  ASSUME NEW c \in Contexts, op'[c].pc \in {"idle", "use", "clear"}
  PROVE  PlanOf(c)' /\ SearchOf(c)'
  BY DEF PlanOf, SearchOf, Planned

LEMMA ExhaustedStep ==
  ASSUME IInv, NEW c \in Contexts, Exhausted(c) PROVE IInv'
<1> USE DEF IInv
<1>1. /\ Runs(c) /\ op[c].pc = "scan" /\ op' = [op EXCEPT ![c] = Quiet]
      /\ map' = map /\ live' = live
  BY DEF Exhausted
<1>2. Quiet \in CallType
  <2>1. 0 \in -1..N-1 /\ 0 \in 0..N BY PoolAssumption
  <2> QED BY <2>1 DEF Quiet, CallType
<1>3. map' \in [Index -> 0..N] /\ live' \subseteq Block BY <1>1 DEF TypeOK
<1>4. TypeOK' /\ op'[c] = Quiet /\ \A d \in Contexts : d # c => op'[d] = op[d]
  BY <1>1, <1>2, <1>3, CallChanges
<1>5. op'[c].pc = "idle" BY <1>4 DEF Quiet
<1>6. LocalsInv' BY <1>4, <1>5, OthersLocals
<1>7. \A x : ~Held(c, x)' /\ ~Held(c, x) BY <1>1, <1>5 DEF Held
<1>8. MapInv' /\ DisjointInv' BY <1>1, <1>4, <1>7, HoldersUnchanged
<1>9. PlanInv' /\ SearchInv' BY <1>1, <1>4, <1>5, NothingPlanned, PlanAndSearch
<1> QED BY <1>4, <1>6, <1>8, <1>9

\* A block that is kept lies in the table.
LEMMA KeptInside ==
  ASSUME TypeOK, DisjointInv, NEW b \in live, NEW x \in Span(b)
  PROVE  x \in Index
<1>1. b.at \in Index /\ b.n \in 1..N /\ b.at + b.n <= N BY DEF TypeOK, Block, DisjointInv
<1>2. N \in Nat BY PoolAssumption
<1> QED BY <1>1, <1>2 DEF Span, Index

LEMMA MarkStep ==
  ASSUME IInv, NEW c \in Contexts, Mark(c) PROVE IInv'
<1> USE DEF IInv
<1> DEFINE off == op[c].offset
           i == op[c].i
           nm == op[c].nmemb
           x0 == off + i
           o == [op[c] EXCEPT !.i = @ + 1]
<1>1. /\ Runs(c) /\ op[c].pc = "mark" /\ i < nm
      /\ map' = [map EXCEPT ![x0] = nm]
      /\ op' = [op EXCEPT ![c].i = @ + 1] /\ live' = live
  BY DEF Mark
<1>2. /\ off \in Nat /\ i \in Nat /\ nm \in Nat /\ N \in Nat /\ nm > 0
      /\ off + nm <= N /\ x0 \in Index /\ i + 1 \in 0..N /\ nm \in 0..N
  BY <1>1, Locals DEF LocalsInv, Index
<1>3. op[c] \in CallType /\ op \in [Contexts -> CallType] BY DEF TypeOK, CallType
<1>4. o \in CallType BY <1>2, <1>3 DEF CallType
<1>5. op' = [op EXCEPT ![c] = o] BY <1>1, <1>3
<1>6. map \in [Index -> 0..N] /\ map' \in [Index -> 0..N] /\ live' \subseteq Block
  BY <1>1, <1>2 DEF TypeOK
<1>7. TypeOK' /\ op'[c] = o /\ \A d \in Contexts : d # c => op'[d] = op[d]
  <2> HIDE DEF o
  <2> QED BY <1>4, <1>5, <1>6, CallChanges
<1>8. op'[c].pc = "mark" /\ op'[c].offset = off /\ op'[c].nmemb = nm /\ op'[c].i = i + 1
  BY <1>1, <1>3, <1>7 DEF CallType
<1>9. map'[x0] = nm /\ \A x \in Index : x # x0 => map'[x] = map[x]
  BY <1>1, <1>2, <1>6
<1>10. \A x \in Index : Held(c, x)' <=> Held(c, x) \/ x = x0
  <2> SUFFICES ASSUME NEW x \in Index PROVE Held(c, x)' <=> Held(c, x) \/ x = x0
    OBVIOUS
  <2>1. Held(c, x)' <=> x \in off..off + (i + 1) - 1 BY <1>8 DEF Held
  <2>2. Held(c, x) <=> x \in off..off + i - 1 BY <1>1 DEF Held
  <2>3. x \in off..off + (i + 1) - 1 <=> x \in off..off + i - 1 \/ x = off + i
    BY <1>2 DEF Index
  <2> QED BY <2>1, <2>2, <2>3
<1>11. \A x \in Index : Planned(c, x)' => Planned(c, x)
  <2> SUFFICES ASSUME NEW x \in Index, Planned(c, x)' PROVE Planned(c, x)
    OBVIOUS
  <2>1. x \in off + (i + 1)..off + nm - 1 BY <1>8 DEF Planned
  <2>2. x \in off + i..off + nm - 1 BY <1>2, <2>1
  <2> QED BY <1>1, <2>2 DEF Planned
<1>12. Planned(c, x0)
  <2>1. x0 \in off + i..off + nm - 1 BY <1>1, <1>2
  <2> QED BY <1>1, <2>1 DEF Planned
<1>13. ~Held(c, x0)
  <2>1. ~(x0 \in off..off + i - 1) BY <1>2
  <2> QED BY <1>1, <2>1 DEF Held
<1> HIDE DEF o, x0
<1>14. ~Kept(x0) /\ \A d \in Contexts : ~Held(d, x0)
  <2>1. ~Below(c, x0) BY <1>2, <1>12 DEF PlanInv
  <2>2. ASSUME NEW d \in Contexts PROVE ~Held(d, x0)
    <3>1. CASE d < c BY <2>1, <3>1 DEF Below
    <3>2. CASE d = c BY <1>13, <3>2
    <3>3. CASE d > c BY <1>1, <3>3, IdleHoldsNone DEF Runs
    <3> QED BY <3>1, <3>2, <3>3 DEF Contexts
  <2> QED BY <2>1, <2>2 DEF Below
<1>15. \A d \in Contexts, x \in Index : d # c => (Held(d, x)' <=> Held(d, x))
  BY <1>7, Elsewhere
<1>16. \A x : Kept(x)' <=> Kept(x) BY <1>1 DEF Kept, Span
<1>17. LocalsInv' BY <1>1, <1>2, <1>7, <1>8, OthersLocals
<1>18. MapInv'
  <2>1. ASSUME NEW b \in live', NEW x \in Span(b) PROVE map'[x] = b.n
    <3>1. b \in live BY <1>1
    <3>2. x \in Index /\ Kept(x) BY <3>1, KeptInside DEF Kept
    <3>3. map'[x] = map[x] BY <1>9, <1>14, <3>2
    <3> QED BY <3>1, <3>3 DEF MapInv
  <2>2. ASSUME NEW d \in Contexts, NEW x \in Index, Held(d, x)'
        PROVE map'[x] = op'[d].nmemb
    <3>1. CASE x = x0
      <4>1. d = c BY <1>14, <1>15, <2>2, <3>1
      <4> QED BY <1>8, <1>9, <3>1, <4>1
    <3>2. CASE x # x0
      <4>1. Held(d, x) BY <1>10, <1>15, <2>2, <3>2
      <4>2. op'[d].nmemb = op[d].nmemb BY <1>7, <1>8
      <4>3. map[x] = op[d].nmemb BY <4>1 DEF MapInv
      <4> QED BY <1>9, <3>2, <4>2, <4>3
    <3> QED BY <3>1, <3>2
  <2>3. ASSUME NEW x \in Index, map'[x] # 0
        PROVE Kept(x)' \/ \E d \in Contexts : Held(d, x)'
    <3>1. CASE x = x0 BY <1>10, <3>1
    <3>2. CASE x # x0
      <4>1. map[x] # 0 BY <1>9, <2>3, <3>2
      <4>2. Kept(x) \/ \E d \in Contexts : Held(d, x) BY <4>1 DEF MapInv
      <4>3. \A d \in Contexts : Held(d, x) => Held(d, x)' BY <1>10, <1>15
      <4> QED BY <1>16, <4>2, <4>3
    <3> QED BY <3>1, <3>2
  <2>4. \A b \in live' : \A x \in Span(b)' : map'[x] = b.n BY <2>1 DEF Span
  <2> QED BY <2>2, <2>3, <2>4 DEF MapInv
<1>19. DisjointInv'
  <2>1. \A d \in Contexts, x \in Index : ~(Held(d, x)' /\ Kept(x)')
    BY <1>10, <1>14, <1>15, <1>16 DEF DisjointInv
  <2>2. ASSUME NEW d \in Contexts, NEW e \in Contexts, d # e, NEW x \in Index
        PROVE  ~(Held(d, x)' /\ Held(e, x)')
    <3>1. ~(Held(d, x) /\ Held(e, x)) BY <2>2 DEF DisjointInv
    <3> QED BY <1>10, <1>14, <1>15, <2>2, <3>1
  <2>3. /\ \A b \in live' : b.at + b.n <= N
        /\ \A a, b \in live' : a # b =>
             \A x \in Index : ~(x \in Span(a)' /\ x \in Span(b)')
    BY <1>1 DEF DisjointInv, Span
  <2> QED BY <2>1, <2>2, <2>3 DEF DisjointInv
<1>20. \A x : Below(c, x)' <=> Below(c, x)
  BY <1>1, <1>7, BelowUnchanged DEF Contexts
<1>21. PlanOf(c)' BY <1>11, <1>20 DEF PlanOf, PlanInv
<1>22. SearchOf(c)' BY <1>8 DEF SearchOf
<1>23. PlanInv' /\ SearchInv' BY <1>1, <1>7, <1>21, <1>22, PlanAndSearch
<1> QED BY <1>7, <1>17, <1>18, <1>19, <1>23

LEMMA ReturnToClient ==
  ASSUME IInv, ReturnBlock(1) PROVE IInv'
<1> USE DEF IInv
<1> DEFINE off == op[1].offset
           nm == op[1].nmemb
           b == Taken(1)
<1>0. 1 \in Contexts BY DEF Contexts
<1>1. /\ Runs(1) /\ op[1].pc = "mark" /\ op[1].i = nm
      /\ map' = map /\ op' = [op EXCEPT ![1] = Quiet] /\ live' = live \cup {b}
  BY DEF ReturnBlock
<1>2. /\ off \in Nat /\ nm \in Nat /\ N \in Nat /\ nm > 0 /\ off + nm <= N
      /\ op[1].i \in 0..N
  BY <1>0, <1>1, Locals DEF LocalsInv
<1>3. Quiet \in CallType
  <2>1. 0 \in -1..N-1 /\ 0 \in 0..N BY PoolAssumption
  <2> QED BY <2>1 DEF Quiet, CallType
<1>4. b.at = off /\ b.n = nm /\ b \in Block
  <2>1. b.at = off /\ b.n = nm BY DEF Taken
  <2>2. off \in Index /\ nm \in 1..N BY <1>2 DEF Index
  <2> QED BY <2>1, <2>2 DEF Block, Taken
<1>5. map' \in [Index -> 0..N] /\ live' \subseteq Block BY <1>1, <1>4 DEF TypeOK
<1>6. TypeOK' /\ op'[1] = Quiet /\ \A d \in Contexts : d # 1 => op'[d] = op[d]
  BY <1>0, <1>1, <1>3, <1>5, CallChanges
<1>7. \A d \in Contexts : op'[d].pc = "idle"
  <2>1. op'[1].pc = "idle" BY <1>6 DEF Quiet
  <2>2. ASSUME NEW d \in Contexts, d # 1 PROVE op'[d].pc = "idle"
    <3>1. d > 1 BY <2>2 DEF Contexts
    <3> QED BY <1>1, <1>6, <3>1 DEF Runs
  <2> QED BY <2>1, <2>2
<1>8. \A d \in Contexts : \A x : ~Held(d, x)' /\ ~Planned(d, x)' BY <1>7 DEF Held, Planned
<1>9. \A d \in Contexts : \A x : d # 1 => ~Held(d, x)
  BY <1>0, <1>1, IdleHoldsNone DEF Runs, Contexts
<1> HIDE DEF b
<1>10. \A x \in Index : Held(1, x) <=> x \in Span(b)
  <2> SUFFICES ASSUME NEW x \in Index PROVE Held(1, x) <=> x \in Span(b) OBVIOUS
  <2>1. Held(1, x) <=> x \in off..off + nm - 1 BY <1>1 DEF Held
  <2>2. Span(b) = off..off + nm - 1 BY <1>4 DEF Span
  <2> QED BY <2>1, <2>2
<1>11. \A x : Kept(x)' <=> Kept(x) \/ x \in Span(b)
  BY <1>1 DEF Kept, Span
<1>12. LocalsInv' BY <1>7 DEF LocalsInv
<1>13. \A x \in Span(b) : x \in Index /\ Held(1, x)
  <2> SUFFICES ASSUME NEW x \in Span(b) PROVE x \in Index /\ Held(1, x) OBVIOUS
  <2>1. x \in off..off + nm - 1 BY <1>4 DEF Span
  <2>2. x \in Index BY <1>2, <2>1 DEF Index
  <2> QED BY <1>10, <2>2
<1>14. MapInv'
  <2>1. ASSUME NEW a \in live', NEW x \in Span(a) PROVE map'[x] = a.n
    <3>1. CASE a \in live BY <1>1, <3>1 DEF MapInv
    <3>2. CASE a = b
      <4>1. x \in Index /\ Held(1, x) BY <1>13, <3>2
      <4>2. map[x] = nm BY <1>0, <4>1 DEF MapInv
      <4> QED BY <1>1, <1>4, <3>2, <4>2
    <3> QED BY <1>1, <3>1, <3>2
  <2>2. ASSUME NEW x \in Index, map'[x] # 0 PROVE Kept(x)'
    <3>1. Kept(x) \/ \E d \in Contexts : Held(d, x) BY <1>1, <2>2 DEF MapInv
    <3>2. Kept(x) \/ Held(1, x) BY <1>9, <3>1
    <3> QED BY <1>10, <1>11, <3>2
  <2>3. \A a \in live' : \A x \in Span(a)' : map'[x] = a.n BY <2>1 DEF Span
  <2> QED BY <1>8, <2>2, <2>3 DEF MapInv
<1>15. DisjointInv'
  <2>1. \A a \in live' : a.at + a.n <= N BY <1>1, <1>2, <1>4 DEF DisjointInv
  <2>2. ASSUME NEW a \in live', NEW e \in live', a # e, NEW x \in Index,
               x \in Span(a), x \in Span(e)
        PROVE  FALSE
    <3>1. CASE a \in live /\ e \in live BY <2>2, <3>1 DEF DisjointInv
    <3>2. CASE a = b \/ e = b
      <4>1. Held(1, x) BY <1>10, <2>2, <3>2
      <4>2. Kept(x) BY <1>1, <2>2, <3>2 DEF Kept
      <4> QED BY <1>0, <4>1, <4>2 DEF DisjointInv
    <3> QED BY <1>1, <3>1, <3>2
  <2>3. \A a, e \in live' : a # e => \A x \in Index : ~(x \in Span(a)' /\ x \in Span(e)')
    BY <2>2 DEF Span
  <2> QED BY <1>8, <2>1, <2>3 DEF DisjointInv
<1>16. PlanInv' BY <1>8 DEF PlanInv
<1>17. SearchInv' BY <1>7 DEF SearchInv
<1> QED BY <1>6, <1>12, <1>14, <1>15, <1>16, <1>17

LEMMA ReturnBlockStep ==
  ASSUME IInv, NEW c \in Contexts, ReturnBlock(c) PROVE IInv'
<1> USE DEF IInv
<1>1. CASE c = 1 BY <1>1, ReturnToClient
<1>2. CASE c # 1
  <2> DEFINE o == [op[c] EXCEPT !.pc = "use"]
  <2>1. /\ Runs(c) /\ op[c].pc = "mark" /\ op[c].i = op[c].nmemb
        /\ map' = map /\ op' = [op EXCEPT ![c].pc = "use"] /\ live' = live
    BY <1>2 DEF ReturnBlock
  <2>2. op[c] \in CallType /\ op \in [Contexts -> CallType] BY DEF TypeOK, CallType
  <2>3. o \in CallType /\ op' = [op EXCEPT ![c] = o] BY <2>1, <2>2 DEF CallType
  <2>4. map' \in [Index -> 0..N] /\ live' \subseteq Block BY <2>1 DEF TypeOK
  <2>5. TypeOK' /\ op'[c] = o /\ \A d \in Contexts : d # c => op'[d] = op[d]
    <3> HIDE DEF o
    <3> QED BY <2>3, <2>4, CallChanges
  <2>6. /\ op'[c].pc = "use" /\ op'[c].offset = op[c].offset
        /\ op'[c].nmemb = op[c].nmemb /\ op'[c].i = op[c].i
    BY <2>2, <2>5 DEF CallType
  <2>7. LocalsInv' BY <2>1, <2>5, <2>6, OthersLocals DEF LocalsInv
  <2>8. \A x \in Index : Held(c, x)' <=> Held(c, x) BY <2>1, <2>6 DEF Held
  <2>9. MapInv' /\ DisjointInv' BY <2>1, <2>5, <2>6, <2>8, HoldersUnchanged
  <2>10. PlanInv' /\ SearchInv' BY <2>1, <2>5, <2>6, NothingPlanned, PlanAndSearch
  <2> QED BY <2>5, <2>7, <2>9, <2>10
<1> QED BY <1>1, <1>2
-----------------------------------------------------------------------------
(* The steps of my_mem_free. *)

\* The call that StartClear begins.
LEMMA ClearStarts ==
  ASSUME TypeOK, NEW c \in Contexts, NEW at \in Index, StartClear(c, at),
         map' = map, live' \subseteq Block
  PROVE  /\ TypeOK' /\ \A d \in Contexts : d # c => op'[d] = op[d]
         /\ op'[c].pc = "clear" /\ op'[c].offset = at /\ op'[c].nmemb = map[at]
         /\ op'[c].i = 0
<1> DEFINE o == [Quiet EXCEPT !.pc = "clear", !.offset = at, !.nmemb = map[at]]
<1>1. op' = [op EXCEPT ![c] = o] BY DEF StartClear
<1>2. map[at] \in Nat /\ at \in -1..N-1 /\ map' \in [Index -> 0..N]
  BY PoolAssumption DEF TypeOK, Index
<1>3. Quiet \in CallType
  <2>1. 0 \in -1..N-1 /\ 0 \in 0..N BY PoolAssumption
  <2> QED BY <2>1 DEF Quiet, CallType
<1>4. o \in CallType BY <1>2, <1>3 DEF CallType
<1>5. TypeOK' /\ op'[c] = o /\ \A d \in Contexts : d # c => op'[d] = op[d]
  <2> HIDE DEF o
  <2> QED BY <1>1, <1>2, <1>4, CallChanges
<1> QED BY <1>5 DEF Quiet

LEMMA FreeOwnStep ==
  ASSUME IInv, NEW c \in Contexts, FreeOwn(c) PROVE IInv'
<1> USE DEF IInv
<1> DEFINE off == op[c].offset
           nm == op[c].nmemb
<1>1. /\ Runs(c) /\ op[c].pc = "use" /\ StartClear(c, off)
      /\ map' = map /\ live' = live
  BY DEF FreeOwn
<1>2. /\ off \in Nat /\ nm \in Nat /\ N \in Nat /\ nm > 0 /\ off + nm <= N /\ off \in Index
  BY <1>1, Locals DEF LocalsInv, Index
<1>3. map[off] = nm
  <2>1. off \in off..off + nm - 1 BY <1>2
  <2>2. Held(c, off) BY <1>1, <2>1 DEF Held
  <2> QED BY <1>2, <2>2 DEF MapInv
<1>4. live' \subseteq Block BY <1>1 DEF TypeOK
<1>5. /\ TypeOK' /\ \A d \in Contexts : d # c => op'[d] = op[d]
      /\ op'[c].pc = "clear" /\ op'[c].offset = off /\ op'[c].nmemb = nm
      /\ op'[c].i = 0
  <2>1. PICK at \in Index : at = off BY <1>2
  <2> QED BY <1>1, <1>3, <1>4, <2>1, ClearStarts
<1>6. LocalsInv' BY <1>2, <1>5, OthersLocals
<1>7. \A x \in Index : Held(c, x)' <=> Held(c, x)
  <2> SUFFICES ASSUME NEW x \in Index PROVE Held(c, x)' <=> Held(c, x) OBVIOUS
  <2>1. Held(c, x) <=> x \in off..off + nm - 1 BY <1>1 DEF Held
  <2>2. Held(c, x)' <=> x \in off + 0..off + nm - 1 BY <1>5 DEF Held
  <2>3. off + 0 = off BY <1>2
  <2> QED BY <2>1, <2>2, <2>3
<1>8. MapInv' /\ DisjointInv' BY <1>1, <1>5, <1>7, HoldersUnchanged
<1>9. PlanInv' /\ SearchInv' BY <1>1, <1>5, NothingPlanned, PlanAndSearch
<1> QED BY <1>5, <1>6, <1>8, <1>9

LEMMA FreeLiveStep ==
  ASSUME IInv, NEW c \in Contexts, FreeLive(c) PROVE IInv'
<1> USE DEF IInv
<1>1. PICK b \in live : StartClear(c, b.at) /\ live' = live \ {b} BY DEF FreeLive
<1>2. Runs(c) /\ op[c].pc = "idle" /\ c \in {1, 2} /\ op[1].pc = "idle" /\ map' = map
  BY DEF FreeLive
<1>3. b.at \in Index /\ b.n \in 1..N /\ b.at + b.n <= N /\ N \in Nat /\ b.at \in Nat
  BY PoolAssumption DEF TypeOK, Block, DisjointInv, Index
<1>4. map[b.at] = b.n
  <2>1. b.at \in Span(b) BY <1>3 DEF Span
  <2> QED BY <2>1 DEF MapInv
<1>5. live' \subseteq Block BY <1>1 DEF TypeOK
<1>6. /\ TypeOK' /\ \A d \in Contexts : d # c => op'[d] = op[d]
      /\ op'[c].pc = "clear" /\ op'[c].offset = b.at /\ op'[c].nmemb = b.n
      /\ op'[c].i = 0
  BY <1>1, <1>2, <1>3, <1>4, <1>5, ClearStarts
<1>7. \A d \in Contexts : d < c => op[d].pc = "idle" BY <1>2 DEF Contexts
<1>8. \A d \in Contexts : \A x : ~Held(d, x)
  <2>1. \A d \in Contexts : op[d].pc = "idle" BY <1>2, <1>7 DEF Runs, Contexts
  <2> QED BY <2>1, IdleHoldsNone
<1>9. LocalsInv' BY <1>3, <1>6, OthersLocals
<1>10. \A x : Held(c, x)' <=> x \in Span(b)
  <2> SUFFICES ASSUME NEW x PROVE Held(c, x)' <=> x \in Span(b) OBVIOUS
  <2>1. Held(c, x)' <=> x \in b.at + 0..b.at + b.n - 1 BY <1>6 DEF Held
  <2>2. b.at + 0 = b.at BY <1>3
  <2> QED BY <2>1, <2>2 DEF Span
<1>11. \A d \in Contexts : \A x : d # c => ~Held(d, x)' BY <1>6, <1>8, Elsewhere
<1>12. \A x \in Index : Kept(x)' <=> Kept(x) /\ x \notin Span(b)
  <2> SUFFICES ASSUME NEW x \in Index PROVE Kept(x)' <=> Kept(x) /\ x \notin Span(b)
    OBVIOUS
  <2>1. Kept(x)' <=> \E a \in live \ {b} : x \in Span(a) BY <1>1 DEF Kept, Span
  <2>2. \A a \in live : a # b => ~(x \in Span(a) /\ x \in Span(b)) BY DEF DisjointInv
  <2> QED BY <2>1, <2>2 DEF Kept
<1>13. MapInv'
  <2>1. \A a \in live' : \A x \in Span(a)' : map'[x] = a.n BY <1>1, <1>2 DEF MapInv, Span
  <2>2. ASSUME NEW d \in Contexts, NEW x \in Index, Held(d, x)'
        PROVE  map'[x] = op'[d].nmemb
    <3>1. d = c /\ x \in Span(b) BY <1>10, <1>11, <2>2
    <3> QED BY <1>2, <1>6, <3>1 DEF MapInv
  <2>3. ASSUME NEW x \in Index, map'[x] # 0
        PROVE  Kept(x)' \/ \E d \in Contexts : Held(d, x)'
    <3>1. Kept(x) BY <1>2, <1>8, <2>3 DEF MapInv
    <3> QED BY <1>10, <1>12, <3>1
  <2> QED BY <2>1, <2>2, <2>3 DEF MapInv
<1>14. DisjointInv'
  <2>1. /\ \A a \in live' : a.at + a.n <= N
        /\ \A a, e \in live' : a # e =>
             \A x \in Index : ~(x \in Span(a)' /\ x \in Span(e)')
    BY <1>1 DEF DisjointInv, Span
  <2>2. \A d \in Contexts, x \in Index : ~(Held(d, x)' /\ Kept(x)')
    BY <1>10, <1>11, <1>12
  <2>3. \A d, e \in Contexts : d # e => \A x \in Index : ~(Held(d, x)' /\ Held(e, x)')
    BY <1>11
  <2> QED BY <2>1, <2>2, <2>3 DEF DisjointInv
<1>15. PlanInv' /\ SearchInv' BY <1>2, <1>6, <1>7, NothingPlanned, PlanAndSearch
<1> QED BY <1>6, <1>9, <1>13, <1>14, <1>15

LEMMA ClearEntry ==
  ASSUME IInv, NEW c \in Contexts, Clear(c), op[c].i < op[c].nmemb PROVE IInv'
<1> USE DEF IInv
<1> DEFINE off == op[c].offset
           i == op[c].i
           nm == op[c].nmemb
           x0 == off + i
           o == [op[c] EXCEPT !.i = @ + 1]
<1>1. /\ Runs(c) /\ op[c].pc = "clear" /\ i < nm
      /\ map' = [map EXCEPT ![x0] = 0]
      /\ op' = [op EXCEPT ![c].i = @ + 1] /\ live' = live
  BY DEF Clear
<1>2. /\ off \in Nat /\ i \in Nat /\ nm \in Nat /\ N \in Nat /\ nm > 0
      /\ off + nm <= N /\ x0 \in Index /\ i + 1 \in 0..N
  BY <1>1, Locals DEF LocalsInv, Index
<1>3. op[c] \in CallType /\ op \in [Contexts -> CallType] BY DEF TypeOK, CallType
<1>4. o \in CallType BY <1>2, <1>3 DEF CallType
<1>5. op' = [op EXCEPT ![c] = o] BY <1>1, <1>3
<1>6. map \in [Index -> 0..N] /\ map' \in [Index -> 0..N] /\ live' \subseteq Block
  <2>1. 0 \in 0..N BY <1>2
  <2> QED BY <1>1, <1>2, <2>1 DEF TypeOK
<1>7. TypeOK' /\ op'[c] = o /\ \A d \in Contexts : d # c => op'[d] = op[d]
  <2> HIDE DEF o
  <2> QED BY <1>4, <1>5, <1>6, CallChanges
<1>8. op'[c].pc = "clear" /\ op'[c].offset = off /\ op'[c].nmemb = nm /\ op'[c].i = i + 1
  BY <1>1, <1>3, <1>7 DEF CallType
<1>9. map'[x0] = 0 /\ \A x \in Index : x # x0 => map'[x] = map[x]
  BY <1>1, <1>2, <1>6
<1>10. Held(c, x0)
  <2>1. x0 \in off + i..off + nm - 1 BY <1>1, <1>2
  <2> QED BY <1>1, <2>1 DEF Held
<1>11. \A x \in Index : Held(c, x)' <=> Held(c, x) /\ x # x0
  <2> SUFFICES ASSUME NEW x \in Index PROVE Held(c, x)' <=> Held(c, x) /\ x # x0
    OBVIOUS
  <2>1. Held(c, x)' <=> x \in off + (i + 1)..off + nm - 1 BY <1>8 DEF Held
  <2>2. Held(c, x) <=> x \in off + i..off + nm - 1 BY <1>1 DEF Held
  <2>3. x \in off + (i + 1)..off + nm - 1 <=> x \in off + i..off + nm - 1 /\ x # off + i
    BY <1>2 DEF Index
  <2> QED BY <2>1, <2>2, <2>3
<1> HIDE DEF o, x0
<1>12. ~Kept(x0) /\ \A d \in Contexts : d # c => ~Held(d, x0)
  BY <1>2, <1>10 DEF DisjointInv
<1>13. \A d \in Contexts, x \in Index : d # c => (Held(d, x)' <=> Held(d, x))
  BY <1>7, Elsewhere
<1>14. \A x : Kept(x)' <=> Kept(x) BY <1>1 DEF Kept, Span
<1>15. \A d \in Contexts, x \in Index : Held(d, x)' <=> Held(d, x) /\ x # x0
  BY <1>11, <1>12, <1>13
<1>16. LocalsInv' BY <1>1, <1>2, <1>7, <1>8, OthersLocals
<1>17. MapInv'
  <2>1. ASSUME NEW b \in live', NEW x \in Span(b) PROVE map'[x] = b.n
    <3>1. b \in live BY <1>1
    <3>2. x \in Index /\ Kept(x) BY <3>1, KeptInside DEF Kept
    <3>3. map'[x] = map[x] BY <1>9, <1>12, <3>2
    <3> QED BY <3>1, <3>3 DEF MapInv
  <2>2. ASSUME NEW d \in Contexts, NEW x \in Index, Held(d, x)'
        PROVE map'[x] = op'[d].nmemb
    <3>1. Held(d, x) /\ x # x0 BY <1>15, <2>2
    <3>2. op'[d].nmemb = op[d].nmemb BY <1>7, <1>8
    <3>3. map[x] = op[d].nmemb BY <3>1 DEF MapInv
    <3> QED BY <1>9, <3>1, <3>2, <3>3
  <2>3. ASSUME NEW x \in Index, map'[x] # 0
        PROVE Kept(x)' \/ \E d \in Contexts : Held(d, x)'
    <3>1. x # x0 /\ map[x] # 0 BY <1>9, <2>3
    <3>2. Kept(x) \/ \E d \in Contexts : Held(d, x) BY <3>1 DEF MapInv
    <3> QED BY <1>14, <1>15, <3>1, <3>2
  <2>4. \A b \in live' : \A x \in Span(b)' : map'[x] = b.n BY <2>1 DEF Span
  <2> QED BY <2>2, <2>3, <2>4 DEF MapInv
<1>18. DisjointInv'
  <2>1. \A d \in Contexts, x \in Index : ~(Held(d, x)' /\ Kept(x)')
    BY <1>14, <1>15 DEF DisjointInv
  <2>2. \A d, e \in Contexts : d # e => \A x \in Index : ~(Held(d, x)' /\ Held(e, x)')
    BY <1>15 DEF DisjointInv
  <2>3. /\ \A b \in live' : b.at + b.n <= N
        /\ \A a, b \in live' : a # b =>
             \A x \in Index : ~(x \in Span(a)' /\ x \in Span(b)')
    BY <1>1 DEF DisjointInv, Span
  <2> QED BY <2>1, <2>2, <2>3 DEF DisjointInv
<1>19. PlanInv' /\ SearchInv' BY <1>1, <1>7, <1>8, NothingPlanned, PlanAndSearch
<1> QED BY <1>7, <1>16, <1>17, <1>18, <1>19

LEMMA ClearEnds ==
  ASSUME IInv, NEW c \in Contexts, Clear(c), ~(op[c].i < op[c].nmemb) PROVE IInv'
<1> USE DEF IInv
<1>1. /\ Runs(c) /\ op[c].pc = "clear" /\ op' = [op EXCEPT ![c] = Quiet]
      /\ map' = map /\ live' = live
  BY DEF Clear
<1>2. Quiet \in CallType
  <2>1. 0 \in -1..N-1 /\ 0 \in 0..N BY PoolAssumption
  <2> QED BY <2>1 DEF Quiet, CallType
<1>3. map' \in [Index -> 0..N] /\ live' \subseteq Block BY <1>1 DEF TypeOK
<1>4. TypeOK' /\ op'[c] = Quiet /\ \A d \in Contexts : d # c => op'[d] = op[d]
  BY <1>1, <1>2, <1>3, CallChanges
<1>5. op'[c].pc = "idle" BY <1>4 DEF Quiet
<1>6. LocalsInv' BY <1>4, <1>5, OthersLocals
<1>7. \A x \in Index : ~Held(c, x)' /\ ~Held(c, x)
  <2> SUFFICES ASSUME NEW x \in Index, Held(c, x) PROVE FALSE BY <1>5 DEF Held
  <2>1. x \in op[c].offset + op[c].i..op[c].offset + op[c].nmemb - 1 BY <1>1 DEF Held
  <2> QED BY <2>1, Locals DEF Index
<1>8. MapInv' /\ DisjointInv' BY <1>1, <1>4, <1>7, HoldersUnchanged
<1>9. PlanInv' /\ SearchInv' BY <1>1, <1>4, <1>5, NothingPlanned, PlanAndSearch
<1> QED BY <1>4, <1>6, <1>8, <1>9
-----------------------------------------------------------------------------
(* Theorems. *)

LEMMA NextIInv == IInv /\ [Next]_vars => IInv'
<1> SUFFICES ASSUME IInv, [Next]_vars PROVE IInv' OBVIOUS
<1>1. ASSUME NEW c \in Contexts, CallMalloc(c) PROVE IInv' BY <1>1, CallMallocStep
<1>2. ASSUME NEW c \in Contexts, Scan(c) PROVE IInv' BY <1>2, ScanStep
<1>3. ASSUME NEW c \in Contexts, Exhausted(c) PROVE IInv' BY <1>3, ExhaustedStep
<1>4. ASSUME NEW c \in Contexts, Mark(c) PROVE IInv' BY <1>4, MarkStep
<1>5. ASSUME NEW c \in Contexts, ReturnBlock(c) PROVE IInv' BY <1>5, ReturnBlockStep
<1>6. ASSUME NEW c \in Contexts, FreeOwn(c) PROVE IInv' BY <1>6, FreeOwnStep
<1>7. ASSUME NEW c \in Contexts, FreeLive(c) PROVE IInv' BY <1>7, FreeLiveStep
<1>8. ASSUME NEW c \in Contexts, Clear(c) PROVE IInv' BY <1>8, ClearEntry, ClearEnds
<1>9. CASE UNCHANGED vars
  <2>1. map' = map /\ op' = op /\ live' = live BY <1>9 DEF vars
  <2>2. TypeOK' /\ LocalsInv' BY <2>1 DEF IInv, TypeOK, LocalsInv
  <2>3. \A c \in Contexts : \A x : (Held(c, x)' <=> Held(c, x)) /\ (Planned(c, x)' <=> Planned(c, x))
    BY <2>1, Elsewhere
  <2>4. \A x : Kept(x)' <=> Kept(x) BY <2>1 DEF Kept, Span
  <2>5. \A c \in Contexts : \A x : Below(c, x)' <=> Below(c, x) BY <2>3, <2>4 DEF Below
  <2>6. MapInv' /\ DisjointInv' BY <2>1, <2>3, <2>4 DEF IInv, MapInv, DisjointInv, Span
  <2>7. PlanInv' BY <2>3, <2>5 DEF IInv, PlanInv
  <2>8. SearchInv'
    <3>1. SearchInv BY DEF IInv
    <3> QED BY <2>1, <2>5, <3>1 DEF SearchInv
  <2> QED BY <2>2, <2>6, <2>7, <2>8 DEF IInv
<1> QED BY <1>1, <1>2, <1>3, <1>4, <1>5, <1>6, <1>7, <1>8, <1>9 DEF Next

\* The invariant holds in every state, however deep the calls of mymalloc and
\* myfree interrupt each other.
THEOREM Inductive == Spec => []IInv
<1>1. Init => IInv BY InitIInv
<1>2. IInv /\ [Next]_vars => IInv' BY NextIInv
<1> QED BY <1>1, <1>2, PTL DEF Spec

\* A block in use is kept by the client, or held by the context that uses it.
LEMMA InUseHeld ==
  ASSUME IInv, NEW b \in InUse
  PROVE  \/ b \in live
         \/ \E c \in Contexts : /\ op[c].pc = "use" /\ b = Taken(c)
                                /\ \A x \in Span(b) : Held(c, x) /\ x \in Index
<1>1. CASE b \in live BY <1>1
<1>2. CASE b \notin live
  <2>1. PICK c \in Contexts : op[c].pc = "use" /\ b = Taken(c) BY <1>2 DEF InUse
  <2>2. op[c].offset \in Nat /\ op[c].nmemb \in Nat /\ op[c].offset + op[c].nmemb <= N /\ N \in Nat
    BY <2>1, Locals DEF IInv, LocalsInv
  <2>3. Span(b) = op[c].offset..op[c].offset + op[c].nmemb - 1
    BY <2>1 DEF Span, Taken
  <2>4. \A x \in Span(b) : Held(c, x) BY <2>1, <2>3 DEF Held
  <2>5. \A x \in Span(b) : x \in Index BY <2>2, <2>3 DEF Index
  <2> QED BY <2>1, <2>4, <2>5
<1> QED BY <1>1, <1>2

LEMMA DisjointUse == IInv => InUseDisjoint
<1> SUFFICES ASSUME IInv PROVE InUseDisjoint OBVIOUS
<1>1. ASSUME NEW b \in InUse PROVE Span(b) \subseteq Index
  <2>1. CASE b \in live BY <2>1, KeptInside DEF IInv
  <2>2. CASE b \notin live BY <2>2, InUseHeld
  <2> QED BY <2>1, <2>2
<1>2. ASSUME NEW a \in InUse, NEW b \in InUse, a # b, NEW x \in Span(a), x \in Span(b)
      PROVE FALSE
  <2>1. x \in Index BY <1>1
  <2>2. CASE a \in live /\ b \in live BY <1>2, <2>1, <2>2 DEF IInv, DisjointInv
  <2>3. CASE a \in live /\ b \notin live
    <3>1. PICK c \in Contexts : Held(c, x) BY <1>2, <2>3, InUseHeld
    <3>2. Kept(x) BY <2>3 DEF Kept
    <3> QED BY <2>1, <3>1, <3>2 DEF IInv, DisjointInv
  <2>4. CASE a \notin live /\ b \in live
    <3>1. PICK c \in Contexts : Held(c, x) BY <2>4, InUseHeld
    <3>2. Kept(x) BY <1>2, <2>4 DEF Kept
    <3> QED BY <2>1, <3>1, <3>2 DEF IInv, DisjointInv
  <2>5. CASE a \notin live /\ b \notin live
    <3>1. PICK c \in Contexts : a = Taken(c) /\ Held(c, x) BY <2>5, InUseHeld
    <3>2. PICK d \in Contexts : b = Taken(d) /\ Held(d, x) BY <1>2, <2>5, InUseHeld
    <3>3. c # d BY <1>2, <3>1, <3>2
    <3> QED BY <2>1, <3>1, <3>2, <3>3 DEF IInv, DisjointInv
  <2> QED BY <2>2, <2>3, <2>4, <2>5
<1> QED BY <1>1, <1>2 DEF InUseDisjoint

LEMMA MarkedUse == IInv => InUseMarked
<1> SUFFICES ASSUME IInv, NEW b \in InUse, NEW x \in Span(b) PROVE map[x] = b.n
  BY DEF InUseMarked
<1>1. CASE b \in live BY <1>1 DEF IInv, MapInv
<1>2. CASE b \notin live
  <2>1. PICK c \in Contexts : b = Taken(c) /\ Held(c, x) /\ x \in Index BY <1>2, InUseHeld
  <2>2. map[x] = op[c].nmemb BY <2>1 DEF IInv, MapInv
  <2> QED BY <2>1, <2>2 DEF Taken
<1> QED BY <1>1, <1>2

\* Whichever context is interrupted in the middle of mymalloc or myfree, two
\* blocks in use never share memory, lie inside the pool, and the table shows
\* each with its length.
THEOREM PoolSound == Spec => []TableSound
<1>1. IInv => TableSound BY DisjointUse, MarkedUse DEF IInv, TableSound
<1> QED BY <1>1, Inductive, PTL

\* When no call of the pool is in progress, every entry that shows a length
\* belongs to a block the client keeps.
THEOREM PoolKeepsNothing == Spec => []NothingLeaks
<1>1. IInv => NothingLeaks
  <2> SUFFICES ASSUME IInv, \A c \in Contexts : op[c].pc = "idle",
                      NEW x \in Index, map[x] # 0
               PROVE  Kept(x)
    BY DEF NothingLeaks, Kept
  <2>1. Kept(x) \/ \E c \in Contexts : Held(c, x) BY DEF IInv, MapInv
  <2> QED BY <2>1, IdleHoldsNone
<1> QED BY <1>1, Inductive, PTL

\* mymalloc returns NULL only if no run of free blocks is long enough: blocks
\* that an interrupting context took and gave back during the search hide none.
THEOREM MallocFailsOnlyWhenFull == Spec => FailsOnlyWhenFull
<1> DEFINE Fails == \A c \in Contexts : Exhausted(c) =>
                      \A at \in Index :
                        \/ at + op[c].nmemb > N
                        \/ \E x \in at..at+op[c].nmemb-1 : map[x] # 0
<1>1. IInv => Fails
  <2> SUFFICES ASSUME IInv, NEW c \in Contexts, Exhausted(c), NEW at \in Index,
                      ~(at + op[c].nmemb > N)
               PROVE  \E x \in at..at+op[c].nmemb-1 : map[x] # 0
    OBVIOUS
  <2>1. op[c].pc = "scan" /\ op[c].offset < 0 BY DEF Exhausted
  <2>2. /\ op[c].offset \in Int /\ op[c].nmemb \in Nat /\ N \in Nat
        /\ at \in Nat /\ at + op[c].nmemb <= N /\ at > op[c].offset
    BY <2>1, Locals DEF IInv, Index
  <2>3. PICK x \in at..at + op[c].nmemb - 1 : Below(c, x)
    BY <2>1, <2>2 DEF IInv, SearchInv
  <2>4. x \in Index BY <2>2 DEF Index
  <2>5. map[x] # 0 BY <2>3, <2>4, FreeEntry DEF IInv
  <2> QED BY <2>5
<1>2. Spec => []IInv BY Inductive
<1> QED BY <1>1, <1>2, PTL DEF FailsOnlyWhenFull
=============================================================================
