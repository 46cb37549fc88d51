---- MODULE Enc28j60Proofs ----
(***************************************************************************)
(* Theorems of Enc28j60, for any ring, any packet length and any number of *)
(* packets.                                                                *)
(***************************************************************************)
EXTENDS Enc28j60, TLAPS

(* The parts of the inductive invariant that the properties do not say.    *)
RingBound == ~wild => unread <= Ring
ErrorsOnlyAfterOverrun == ~overrun => "RXERIF" \notin EIR /\ "RXERIF" \notin status
(* From the last look at INT to the next entry of the handler. *)
EdgeInv == ~INT /\ isr \in {"out", "exit"} => pend
PacketSeen == isr = "pkt" /\ "PKTIF" \in status => EPKTCNT > 0
Balanced == masked <=> send # "idle"

IInv == TypeOK /\ RingBound /\ InStep /\ ErrorsOnlyAfterOverrun /\ EdgeInv /\ PacketSeen /\ Balanced

LEMMA InitIInv == Init => IInv
<1> SUFFICES ASSUME Init PROVE IInv
  OBVIOUS
<1>1. RingTypeOK
  BY RingAssumption DEF Init, RingTypeOK
<1>2. FlagsTypeOK /\ PlacesTypeOK
  BY DEF Init, FlagsTypeOK, PlacesTypeOK
<1>3. SwitchesTypeOK
  BY DEF Init, SwitchesTypeOK
<1>4. RingBound /\ InStep /\ ErrorsOnlyAfterOverrun /\ PacketSeen /\ Balanced
  BY RingAssumption DEF Init, RingBound, InStep, ErrorsOnlyAfterOverrun, PacketSeen, Balanced
<1>5. EdgeInv
  BY DEF Init, EdgeInv, INT, Low, Flags
<1>6. QED
  BY <1>1, <1>2, <1>3, <1>4, <1>5 DEF IInv, TypeOK

(* A receive error is reported only after the ring overflowed. *)
LEMMA ErrorsStep ==
  ASSUME ErrorsOnlyAfterOverrun, Runs
  PROVE  ErrorsOnlyAfterOverrun'
<1> USE DEF ErrorsOnlyAfterOverrun
<1>1. CASE Arrives
  BY <1>1 DEF Arrives, handler
<1>2. CASE Transmitted
  BY <1>2 DEF Transmitted, rx, handler
<1>3. CASE Acknowledge
  BY <1>3 DEF Acknowledge
<1>4. CASE ReadStatus
  BY <1>4 DEF ReadStatus, Flags, rx
<1>5. CASE Handle
  BY <1>5 DEF Handle
<1>6. CASE Enter \/ Loop \/ LoopEnds \/ Leave \/ Enable
  BY <1>6 DEF Enter, Loop, LoopEnds, Leave, Enable, rx
<1>7. CASE Send \/ Start \/ Check \/ PoolChanges
  BY <1>7 DEF Send, Start, Check, PoolChanges, rx, handler
<1>8. QED
  BY <1>1, <1>2, <1>3, <1>4, <1>5, <1>6, <1>7 DEF Runs, Handler, Sender

(* The ring: counts and pointers. *)
LEMMA RingStep ==
  ASSUME RingTypeOK, RingBound, InStep, ErrorsOnlyAfterOverrun, ~wild, Runs
  PROVE  RingTypeOK' /\ RingBound' /\ InStep'
<1> USE RingAssumption DEF RingTypeOK, RingBound, InStep
<1>1. CASE Arrives
  <2>1. /\ arrived < MaxPkts /\ arrived' = arrived + 1 /\ UNCHANGED creep
        /\ unread <= Ring
    BY <1>1 DEF Arrives
  <2>2. CASE /\ unread < Ring \/ creep >= PktLen
             /\ unread' = unread + 1 /\ EPKTCNT' = EPKTCNT + 1
             /\ wild' = (unread = Ring) /\ UNCHANGED overrun
    <3>1. RingTypeOK' /\ EPKTCNT' <= unread'
      BY <2>1, <2>2
    <3>2. CASE unread # Ring
      <4>1. wild' = FALSE
        BY <2>2, <3>2, Zenon
      <4>2. QED
        BY <2>1, <2>2, <3>1, <3>2, <4>1
    <3>3. CASE unread = Ring
      <4>1. wild' = TRUE
        BY <2>2, <3>3, Zenon
      <4>2. overrun
        BY <2>1, <2>2, <3>3
      <4>3. QED
        BY <2>2, <3>1, <4>1, <4>2
    <3>4. QED
      BY <3>2, <3>3
  <2>3. CASE overrun' = TRUE /\ UNCHANGED <<unread, EPKTCNT, wild>>
    BY <2>1, <2>3
  <2>4. QED
    BY <1>1, <2>2, <2>3 DEF Arrives
<1>2. CASE Handle
  <2>1. UNCHANGED <<arrived, overrun, wild>>
    BY <1>2 DEF Handle
  <2>2. CASE UNCHANGED <<unread, EPKTCNT, creep>>
    BY <2>1, <2>2
  <2>3. CASE EPKTCNT # 0 /\ unread' = unread - 1 /\ EPKTCNT' = EPKTCNT - 1 /\ creep' = 0
    BY <2>1, <2>3
  <2>4. QED
    BY <1>2, <2>2, <2>3 DEF Handle, ENC28J60_Packet_Receive
<1>3. CASE Acknowledge
  <2>1. UNCHANGED <<unread, arrived, overrun, wild>>
    BY <1>3 DEF Acknowledge
  <2>2. CASE UNCHANGED <<creep, EPKTCNT>>
    BY <2>1, <2>2
  <2>3. CASE /\ overrun /\ creep' = creep + 1
             /\ EPKTCNT' = IF EPKTCNT > 0 THEN EPKTCNT - 1 ELSE 0
    BY <2>1, <2>3
  <2>4. QED
    BY <1>3, <2>2, <2>3 DEF Acknowledge, ErrorsOnlyAfterOverrun
<1>4. CASE Transmitted \/ Send \/ Start \/ Check \/ PoolChanges
  BY <1>4 DEF Transmitted, Send, Start, Check, PoolChanges, rx
<1>5. CASE Enter \/ Loop \/ LoopEnds \/ Leave \/ ReadStatus \/ Enable
  BY <1>5 DEF Enter, Loop, LoopEnds, Leave, ReadStatus, Enable, rx
<1>6. QED
  BY <1>1, <1>2, <1>3, <1>4, <1>5 DEF Runs, Handler, Sender

(* The handler's look at a packet, and who has the interrupts off. *)
LEMMA ControlStep ==
  ASSUME FlagsTypeOK, PlacesTypeOK, RingTypeOK, PacketSeen, Balanced, ~wild, Runs
  PROVE  FlagsTypeOK' /\ PlacesTypeOK' /\ PacketSeen' /\ Balanced'
<1> USE DEF FlagsTypeOK, PlacesTypeOK, PacketSeen, Balanced
<1>1. CASE Arrives
  <2>1. FlagsTypeOK'
    BY <1>1 DEF Arrives, handler
  <2>2. PlacesTypeOK' /\ Balanced'
    BY <1>1 DEF Arrives, handler
  <2>3. EPKTCNT > 0 => EPKTCNT' > 0
    BY <1>1 DEF Arrives, RingTypeOK
  <2>4. UNCHANGED <<isr, status>>
    BY <1>1 DEF Arrives, handler
  <2>5. QED
    BY <2>1, <2>2, <2>3, <2>4
<1>2. CASE Transmitted
  BY <1>2 DEF Transmitted, rx, handler
<1>3. CASE Handle
  BY <1>3 DEF Handle, ENC28J60_Packet_Receive
<1>4. CASE Acknowledge
  BY <1>4 DEF Acknowledge
<1>5. CASE ReadStatus
  BY <1>5 DEF ReadStatus, Flags, rx
<1>6. CASE Enter \/ Loop \/ LoopEnds \/ Leave \/ Enable
  BY <1>6 DEF Enter, Loop, LoopEnds, Leave, Enable, rx
<1>7. CASE Send \/ Start \/ Check \/ PoolChanges
  BY <1>7 DEF Send, Start, Check, PoolChanges, rx, handler
<1>8. QED
  BY <1>1, <1>2, <1>3, <1>4, <1>5, <1>6, <1>7 DEF Runs, Handler, Sender

LEMMA SwitchesStep ==
  ASSUME SwitchesTypeOK, Runs
  PROVE  SwitchesTypeOK'
<1> USE DEF SwitchesTypeOK
<1>1. CASE Arrives \/ Transmitted
  BY <1>1, Zenon DEF Arrives, Transmitted, Latch, rx
<1>2. CASE Handler
  BY <1>2, Zenon DEF Handler, Enter, Loop, LoopEnds, Leave, ReadStatus, Handle,
                     ENC28J60_Packet_Receive, Acknowledge, Enable, Latch, rx
<1>3. CASE Send \/ Sender \/ PoolChanges
  BY <1>3, Zenon DEF Send, Sender, Start, Check, PoolChanges, rx
<1>4. QED
  BY <1>1, <1>2, <1>3 DEF Runs

(* What pulls INT low outside the handler latches the edge; what the        *)
(* handler does is followed by a look at INT.                               *)
LEMMA EdgeStep ==
  ASSUME IInv, ~wild, Runs
  PROVE  EdgeInv'
<1> USE DEF IInv, EdgeInv
<1>1. CASE Arrives \/ Transmitted
  BY <1>1 DEF Arrives, Transmitted, Latch, handler
<1>2. CASE Enter \/ Loop \/ ReadStatus \/ Handle \/ Acknowledge \/ Enable
  BY <1>2 DEF Enter, Loop, ReadStatus, Handle, Acknowledge, Enable
<1>3. CASE LoopEnds
  BY <1>3 DEF LoopEnds, rx, INT
<1>4. CASE Leave \/ Send \/ Sender \/ PoolChanges
  BY <1>4 DEF Leave, Send, Sender, Start, Check, PoolChanges, rx, handler, INT
<1>5. QED
  BY <1>1, <1>2, <1>3, <1>4 DEF Runs, Handler

LEMMA StepIInv == IInv /\ [Next]_vars => IInv'
<1> SUFFICES ASSUME IInv, [Next]_vars PROVE IInv'
  OBVIOUS
<1>1. CASE ~wild /\ Runs
  BY <1>1, ErrorsStep, RingStep, ControlStep, SwitchesStep, EdgeStep DEF IInv, TypeOK
<1>2. CASE UNCHANGED vars
  BY <1>2 DEF vars, IInv, TypeOK, RingTypeOK, FlagsTypeOK, PlacesTypeOK, SwitchesTypeOK, RingBound, InStep, ErrorsOnlyAfterOverrun, EdgeInv, PacketSeen,
              Balanced, INT, Low, Flags
<1>3. QED
  BY <1>1, <1>2 DEF Next, Ended

LEMMA Inductive == Spec => []IInv
  BY InitIInv, StepIInv, PTL DEF Spec

(* An interrupt is never lost: INT low without the handler means an edge is  *)
(* latched.                                                                  *)
THEOREM NoLostEdge == Spec => []EdgeKept
<1>1. IInv => EdgeKept
  BY DEF IInv, EdgeInv, EdgeKept
<1>2. QED
  BY <1>1, Inductive, PTL

(* Driver and chip agree on the packets in the ring until it overflows.      *)
THEOREM ReceiverInStep == Spec => []InStep
<1>1. IInv => InStep
  BY DEF IInv
<1>2. QED
  BY <1>1, Inductive, PTL

(* The interrupts are off only inside ENC28J60_Packet_Send: the return of    *)
(* ENC28J60_Packet_Receive that leaves them off is never reached.            *)
THEOREM SectionsClosed == Spec => []Balanced
<1>1. IInv => Balanced
  BY DEF IInv
<1>2. QED
  BY <1>1, Inductive, PTL
====
