------------------------------- MODULE Malloc -------------------------------
(***************************************************************************)
(* The memory pool of MALLOC/malloc.c: a table with one entry per block of *)
(* the pool, 0 for a free block and the length of the allocation for a     *)
(* block in use.  The code takes no lock and masks no interrupt, and three *)
(* contexts call it, each of which may interrupt the ones before it:       *)
(*                                                                         *)
(*   1  tcp_client_thread: sys_mbox_new keeps a block until the mailbox is *)
(*      freed                                                              *)
(*   2  the tcpip thread: low_level_output allocates and frees one buffer; *)
(*      netconn_drain frees the client's mailbox while the client waits    *)
(*   3  the EXTI9_5 interrupt: low_level_input allocates and frees one     *)
(*                                                                         *)
(* A context that interrupts another one returns what it took before it    *)
(* gives the processor back; that is what the pool's safety rests on.      *)
(***************************************************************************)
EXTENDS Integers, FiniteSets

CONSTANTS
  N,          \* entries of the table: 33*1024/32 in the code
  BlockSize,  \* 32
  Sizes,      \* sizes asked for
  MaxLive     \* bound: blocks the client keeps

ASSUME PoolAssumption == N \in Nat \ {0} /\ BlockSize \in Nat \ {0}
ASSUME SizesAssumption == Sizes \subseteq Nat
ASSUME LiveAssumption == MaxLive \in Nat

VARIABLES
  map,   \* mallco_dev.memmap[SRAMIN]
  op,    \* the call each context is in
  live   \* what the client has been given and not freed: [at, n]

vars == <<map, op, live>>

Contexts == 1..3
Index == 0..N-1

\* pc; nmemb, offset, cmemb, i: the locals of my_mem_malloc and my_mem_free
Quiet == [pc |-> "idle", nmemb |-> 0, offset |-> 0, cmemb |-> 0, i |-> 0]

\* size/memblksize, rounded up
Blocks(size) == (size + BlockSize - 1) \div BlockSize

\* c has the processor: nothing that can interrupt it is in a call.
Runs(c) == \A d \in Contexts : d > c => op[d].pc = "idle"
-----------------------------------------------------------------------------
Init ==
  /\ map = [x \in Index |-> 0]
  /\ op = [c \in Contexts |-> Quiet]
  /\ live = {}
-----------------------------------------------------------------------------
(* my_mem_malloc *)

\* nmemb is computed; size 0 fails at once and changes nothing.
CallMalloc(c) ==
  /\ Runs(c) /\ op[c].pc = "idle"
  /\ c = 1 => Cardinality(live) < MaxLive
  /\ \E size \in Sizes :
       /\ size # 0
       /\ op' = [op EXCEPT ![c] = [Quiet EXCEPT !.pc = "scan",
                                                !.nmemb = Blocks(size),
                                                !.offset = N - 1]]
  /\ UNCHANGED <<map, live>>

\* Wrong variant: a block in use does not restart the count.
ScanNoReset(c) ==
  /\ Runs(c) /\ op[c].pc = "scan" /\ op[c].offset >= 0
  /\ LET run == IF map[op[c].offset] = 0 THEN op[c].cmemb + 1 ELSE op[c].cmemb
     IN op' = IF run = op[c].nmemb THEN [op EXCEPT ![c].pc = "mark"]
              ELSE [op EXCEPT ![c].offset = @ - 1, ![c].cmemb = run]
  /\ UNCHANGED <<map, live>>

\* Wrong variant: the search stops before block 0.
ScanAboveZero(c) ==
  /\ Runs(c) /\ op[c].pc = "scan" /\ op[c].offset >= 0
  /\ LET run == IF map[op[c].offset] = 0 THEN op[c].cmemb + 1 ELSE 0
     IN op' = IF run = op[c].nmemb /\ op[c].offset > 0
              THEN [op EXCEPT ![c].pc = "mark"]
              ELSE [op EXCEPT ![c].offset = @ - 1, ![c].cmemb = run]
  /\ UNCHANGED <<map, live>>

\* One round of the search, from the end of the table downwards.
Scan(c) ==
  /\ Runs(c) /\ op[c].pc = "scan" /\ op[c].offset >= 0
  /\ LET run == IF map[op[c].offset] = 0 THEN op[c].cmemb + 1 ELSE 0
     IN op' = IF run = op[c].nmemb THEN [op EXCEPT ![c].pc = "mark"]
              ELSE [op EXCEPT ![c].offset = @ - 1, ![c].cmemb = run]
  /\ UNCHANGED <<map, live>>

\* No room: NULL.  (low_level_output goes on with it; see the README.)
Exhausted(c) ==
  /\ Runs(c) /\ op[c].pc = "scan" /\ op[c].offset < 0
  /\ op' = [op EXCEPT ![c] = Quiet]
  /\ UNCHANGED <<map, live>>

\* Every entry of the allocation gets its length.
Mark(c) ==
  /\ Runs(c) /\ op[c].pc = "mark" /\ op[c].i < op[c].nmemb
  /\ map' = [map EXCEPT ![op[c].offset + op[c].i] = op[c].nmemb]
  /\ op' = [op EXCEPT ![c].i = @ + 1]
  /\ UNCHANGED live

Taken(c) == [at |-> op[c].offset, n |-> op[c].nmemb]

\* mymalloc returns: the client keeps the block, the others use it now.
ReturnBlock(c) ==
  /\ Runs(c) /\ op[c].pc = "mark" /\ op[c].i = op[c].nmemb
  /\ IF c = 1
     THEN op' = [op EXCEPT ![c] = Quiet] /\ live' = live \cup {Taken(c)}
     ELSE op' = [op EXCEPT ![c].pc = "use"] /\ UNCHANGED live
  /\ UNCHANGED map
-----------------------------------------------------------------------------
(* my_mem_free *)

\* nmemb is read from the table at the block's first entry.
StartClear(c, at) ==
  op' = [op EXCEPT ![c] = [Quiet EXCEPT !.pc = "clear", !.offset = at,
                                        !.nmemb = map[at]]]

\* The end of low_level_output and of low_level_input.
FreeOwn(c) ==
  /\ Runs(c) /\ op[c].pc = "use"
  /\ StartClear(c, op[c].offset)
  /\ UNCHANGED <<map, live>>

\* sys_mbox_free, in the client (netconn_new that fails) or in the tcpip
\* thread while the client waits for it.
FreeLive(c) ==
  /\ Runs(c) /\ op[c].pc = "idle"
  /\ c \in {1, 2} /\ op[1].pc = "idle"
  /\ \E b \in live : StartClear(c, b.at) /\ live' = live \ {b}
  /\ UNCHANGED map

\* Wrong variant: the last block of the allocation is left marked.
ClearShort(c) ==
  /\ Runs(c) /\ op[c].pc = "clear"
  /\ IF op[c].i + 1 < op[c].nmemb
     THEN /\ map' = [map EXCEPT ![op[c].offset + op[c].i] = 0]
          /\ op' = [op EXCEPT ![c].i = @ + 1]
     ELSE op' = [op EXCEPT ![c] = Quiet] /\ UNCHANGED map
  /\ UNCHANGED live

Clear(c) ==
  /\ Runs(c) /\ op[c].pc = "clear"
  /\ IF op[c].i < op[c].nmemb
     THEN /\ map' = [map EXCEPT ![op[c].offset + op[c].i] = 0]
          /\ op' = [op EXCEPT ![c].i = @ + 1]
     ELSE op' = [op EXCEPT ![c] = Quiet] /\ UNCHANGED map
  /\ UNCHANGED live
-----------------------------------------------------------------------------
Next ==
  \E c \in Contexts :
    \/ CallMalloc(c)
    \/ Scan(c)
    \/ Exhausted(c)
    \/ Mark(c)
    \/ ReturnBlock(c)
    \/ FreeOwn(c)
    \/ FreeLive(c)
    \/ Clear(c)

Spec == Init /\ [][Next]_vars
-----------------------------------------------------------------------------
(* Properties *)

Block == [at : Index, n : 1..N]
Span(b) == b.at..b.at+b.n-1

\* Blocks somebody may be writing to.
InUse == live \cup {Taken(c) : c \in {d \in Contexts : op[d].pc = "use"}}

\* Every variable keeps its type; in particular an allocation has a block.
TypeOK ==
  /\ map \in [Index -> 0..N]
  /\ op \in [Contexts -> [pc : {"idle", "scan", "mark", "use", "clear"},
                          nmemb : Nat, offset : -1..N-1, cmemb : 0..N, i : 0..N]]
  /\ live \subseteq Block

\* Two blocks in use never share memory and lie inside the pool, whichever
\* context was interrupted in the middle of my_mem_malloc or my_mem_free.
InUseDisjoint ==
  /\ \A b \in InUse : Span(b) \subseteq Index
  /\ \A a, b \in InUse : a # b => Span(a) \cap Span(b) = {}

\* The table shows every block in use with its length, at every moment: no
\* context, however interrupted, has overwritten an entry of another one's.
InUseMarked == \A b \in InUse : \A x \in Span(b) : map[x] = b.n

\* The pool is safe to use from a thread, a task and the interrupt handler.
TableSound == TypeOK /\ InUseDisjoint /\ InUseMarked

\* When no call is in progress, every other entry is free: nothing leaks.
NothingLeaks ==
  (\A c \in Contexts : op[c].pc = "idle")
    => \A x \in Index : map[x] = 0 \/ \E b \in live : x \in Span(b)

\* my_mem_malloc fails only when there is no run of nmemb free blocks, even
\* if the table changed under the search and was restored.
FailsOnlyWhenFull ==
  [][ \A c \in Contexts : Exhausted(c) =>
        \A at \in Index :
          \/ at + op[c].nmemb > N
          \/ \E x \in at..at+op[c].nmemb-1 : map[x] # 0 ]_vars
=============================================================================
