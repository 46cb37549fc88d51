---- MODULE Enc28j60 ----
(***************************************************************************)
(* The Ethernet driver of the STM32 firmware: the ENC28J60 chip, its       *)
(* interrupt (EXTI line 5, falling edge) and the tcpip thread that sends.  *)
(* The chip stores packets in a ring between ERXRDPT and ERXWRPT and       *)
(* counts them in EPKTCNT; the driver keeps its own place in the ring,     *)
(* NextPacketPtr.  The chip works on while the handler or the thread runs. *)
(***************************************************************************)
EXTENDS Naturals

CONSTANTS
    Ring,       \* packets the receive ring has room for
    PktLen,     \* length of a packet, in bytes of the ring
    MaxPkts     \* bound: packets that come

ASSUME RingAssumption == Ring \in Nat \ {0} /\ PktLen \in Nat \ {0} /\ MaxPkts \in Nat

VARIABLES
    unread,     \* packets from NextPacketPtr to ERXWRPT
    EPKTCNT,
    creep,      \* bytes by which ERXRDPT is ahead of NextPacketPtr
    EIR,        \* interrupt flags: TXIF, TXERIF, RXERIF (PKTIF is EPKTCNT > 0)
    INTIE,
    TXRTS,      \* the chip transmits
    pend,       \* the latched edge of EXTI line 5
    masked,     \* interrupts are off
    isr,        \* the handler: "out", "loop", "status", "pkt", "ack", "on", "exit"
    status,     \* its copy of EIR
    send,       \* low_level_output: "idle", "wait", "check"
    room,       \* the pool has a block of 1600 bytes
    arrived,
    overrun,    \* history: the ring was full when a packet came
    wild        \* an unread packet was written over

vars == <<unread, EPKTCNT, creep, EIR, INTIE, TXRTS, pend, masked, isr, status,
          send, room, arrived, overrun, wild>>
rx == <<unread, EPKTCNT, creep, arrived, overrun, wild>>
handler == <<isr, status>>

Flags(eir, count) == eir \cup IF count > 0 THEN {"PKTIF"} ELSE {}
Low(intie, eir, count) == intie /\ Flags(eir, count) # {}
INT == ~Low(INTIE, EIR, EPKTCNT)
Latch == pend' = (pend \/ (INT /\ ~INT'))           \* a falling edge

----
(* The chip. *)

(* A packet needs room up to ERXRDPT; without it RXERIF is set and nothing stored. *)
Arrives ==
    /\ arrived < MaxPkts /\ arrived' = arrived + 1
    /\ \/ /\ unread < Ring \/ creep >= PktLen
          /\ unread' = unread + 1 /\ EPKTCNT' = EPKTCNT + 1
          /\ wild' = (unread = Ring) /\ UNCHANGED <<EIR, overrun>>
       \/ /\ unread = Ring /\ creep < PktLen
          /\ EIR' = EIR \cup {"RXERIF"} /\ overrun' = TRUE
          /\ UNCHANGED <<unread, EPKTCNT, wild>>
    /\ UNCHANGED <<creep, INTIE, TXRTS, masked, handler, send, room>> /\ Latch

Transmitted == \E error \in {{}, {"TXERIF"}} :
    /\ TXRTS /\ TXRTS' = FALSE /\ EIR' = EIR \cup {"TXIF"} \cup error
    /\ UNCHANGED <<rx, INTIE, masked, handler, send, room>> /\ Latch

----
(* EXTI9_5_IRQHandler.  The pending bit is cleared before INT is looked at. *)

Enter ==
    /\ isr = "out" /\ pend /\ ~masked
    /\ isr' = "loop" /\ pend' = FALSE
    /\ UNCHANGED <<rx, EIR, INTIE, TXRTS, masked, status, send, room>>

Loop ==                                         \* while INT is low: INTIE off
    /\ isr = "loop" /\ ~INT
    /\ isr' = "status" /\ INTIE' = FALSE
    /\ UNCHANGED <<rx, EIR, TXRTS, pend, masked, status, send, room>>

LoopEnds ==
    /\ isr = "loop" /\ INT
    /\ isr' = "exit"
    /\ UNCHANGED <<rx, EIR, INTIE, TXRTS, pend, masked, status, send, room>>

LeaveClearing ==                                \* Wrong variant.
    /\ isr = "exit" /\ isr' = "out" /\ pend' = FALSE
    /\ UNCHANGED <<rx, EIR, INTIE, TXRTS, masked, status, send, room>>

Leave ==                                        \* OSIntExit
    /\ isr = "exit" /\ isr' = "out"
    /\ UNCHANGED <<rx, EIR, INTIE, TXRTS, pend, masked, status, send, room>>

ReadStatus ==
    /\ isr = "status" /\ isr' = "pkt" /\ status' = Flags(EIR, EPKTCNT)
    /\ UNCHANGED <<rx, EIR, INTIE, TXRTS, pend, masked, send, room>>

ReceiveInPlace ==                               \* Wrong variant: the place is not moved.
    IF EPKTCNT = 0
    THEN masked' = TRUE /\ UNCHANGED <<unread, EPKTCNT, creep>>
    ELSE EPKTCNT' = EPKTCNT - 1 /\ UNCHANGED <<unread, creep, masked>>

(* One packet, in a critical section, which the early return leaves open.  *)
(* Whether the packet then finds a pbuf and a place in the tcpip mailbox or *)
(* is dropped makes no difference to the driver.                            *)
ENC28J60_Packet_Receive ==
    IF EPKTCNT = 0
    THEN masked' = TRUE /\ UNCHANGED <<unread, EPKTCNT, creep>>
    ELSE /\ unread' = unread - 1 /\ EPKTCNT' = EPKTCNT - 1 /\ creep' = 0
         /\ UNCHANGED masked

HandleAlways ==                                 \* Wrong variant.
    /\ isr = "pkt" /\ isr' = "ack"
    /\ IF room THEN ENC28J60_Packet_Receive ELSE UNCHANGED <<unread, EPKTCNT, creep, masked>>
    /\ UNCHANGED <<EIR, INTIE, TXRTS, pend, status, send, room, arrived, overrun, wild>>

(* lwip_pkt_handle: without a block from the pool nothing is read. *)
Handle ==
    /\ isr = "pkt" /\ isr' = "ack"
    /\ IF "PKTIF" \in status /\ room THEN ENC28J60_Packet_Receive
       ELSE UNCHANGED <<unread, EPKTCNT, creep, masked>>
    /\ UNCHANGED <<EIR, INTIE, TXRTS, pend, status, send, room, arrived, overrun, wild>>

(* After a receive error ERXRDPT moves by one and the count by one, although *)
(* no packet was read.                                                       *)
Acknowledge ==
    /\ isr = "ack" /\ isr' = "on"
    /\ EIR' = EIR \ status
    /\ IF "RXERIF" \in status
       THEN creep' = creep + 1 /\ EPKTCNT' = (IF EPKTCNT > 0 THEN EPKTCNT - 1 ELSE 0)
       ELSE UNCHANGED <<creep, EPKTCNT>>
    /\ UNCHANGED <<unread, INTIE, TXRTS, pend, masked, status, send, room, arrived, overrun, wild>>

EnableNot ==                                    \* Wrong variant.
    /\ isr = "on" /\ isr' = "loop"
    /\ UNCHANGED <<rx, EIR, INTIE, TXRTS, pend, masked, status, send, room>>

Enable ==
    /\ isr = "on" /\ isr' = "loop" /\ INTIE' = TRUE
    /\ UNCHANGED <<rx, EIR, TXRTS, masked, status, send, room>> /\ Latch

----
(* The tcpip thread: low_level_output with ENC28J60_Packet_Send, a critical *)
(* section that waits for the packet before this one, and gives the new one *)
(* up if TXERIF is set.                                                     *)

Send ==
    /\ isr = "out" /\ ~masked /\ send = "idle"
    /\ send' = "wait" /\ masked' = TRUE
    /\ UNCHANGED <<rx, EIR, INTIE, TXRTS, pend, handler, room>>

Start ==
    /\ send = "wait" /\ ~TXRTS
    /\ send' = "check" /\ TXRTS' = TRUE
    /\ UNCHANGED <<rx, EIR, INTIE, pend, masked, handler, room>>

Check ==
    /\ send = "check" /\ send' = "idle" /\ masked' = FALSE
    /\ TXRTS' = (TXRTS /\ "TXERIF" \notin EIR)
    /\ UNCHANGED <<rx, EIR, INTIE, pend, handler, room>>

(* The tasks take blocks from the pool and give them back. *)
PoolChanges ==
    /\ isr = "out" /\ send = "idle" /\ room' = ~room
    /\ UNCHANGED <<rx, EIR, INTIE, TXRTS, pend, masked, handler, send>>

Init ==
    /\ unread = 0 /\ EPKTCNT = 0 /\ creep = 0 /\ arrived = 0
    /\ EIR = {} /\ INTIE = TRUE /\ TXRTS = FALSE
    /\ pend = FALSE /\ masked = FALSE /\ isr = "out" /\ status = {}
    /\ send = "idle" /\ room = TRUE /\ overrun = FALSE /\ wild = FALSE

Handler == Enter \/ Loop \/ LoopEnds \/ Leave \/ ReadStatus \/ Handle \/ Acknowledge \/ Enable
Sender == Start \/ Check

(* Once a header has been written over, what the driver reads is arbitrary: *)
(* the model ends there.                                                    *)
Runs == Arrives \/ Transmitted \/ Handler \/ Send \/ Sender \/ PoolChanges
Ended == wild /\ UNCHANGED vars

Next == (~wild /\ Runs) \/ Ended

Spec == Init /\ [][Next]_vars
FairSpec == /\ Spec /\ SF_vars(~wild /\ Handler)
            /\ WF_vars(~wild /\ Sender) /\ WF_vars(~wild /\ Transmitted)

----
RingTypeOK == /\ unread \in 0..Ring + 1 /\ EPKTCNT \in 0..Ring + 1
              /\ creep \in Nat /\ arrived \in 0..MaxPkts
FlagsTypeOK == /\ EIR \subseteq {"TXIF", "TXERIF", "RXERIF"}
               /\ status \subseteq {"PKTIF", "TXIF", "TXERIF", "RXERIF"}
PlacesTypeOK == /\ isr \in {"out", "loop", "status", "pkt", "ack", "on", "exit"}
                /\ send \in {"idle", "wait", "check"}
SwitchesTypeOK == /\ INTIE \in BOOLEAN /\ TXRTS \in BOOLEAN /\ pend \in BOOLEAN /\ masked \in BOOLEAN
                  /\ room \in BOOLEAN /\ overrun \in BOOLEAN /\ wild \in BOOLEAN

TypeOK == RingTypeOK /\ FlagsTypeOK /\ PlacesTypeOK /\ SwitchesTypeOK

(* The interrupt line is a level, the interrupt an edge: whenever the chip   *)
(* pulls INT low and the handler does not run, an edge is latched, so that   *)
(* no event waits for another one to be seen.                                *)
EdgeKept == ~INT /\ isr = "out" => pend

(* The chip's count never runs ahead of the packets in the ring, and follows *)
(* them exactly until the ring first overflows: then, and only then, the     *)
(* driver may read a header that is none.                                    *)
InStep == /\ EPKTCNT <= unread
          /\ ~overrun => EPKTCNT = unread /\ creep = 0 /\ ~wild

(* The handler may be entered without a packet waiting, and may handle one   *)
(* while errors are acknowledged; still the interrupts never stay off: the   *)
(* early return of ENC28J60_Packet_Receive is not reached, and a             *)
(* transmission ends.                                                        *)
MasksEnd == masked ~> (~masked \/ wild)

(* After every burst the ring is emptied, unless it overflowed, or the pool  *)
(* has no block when the handler runs: then the handler never ends.          *)
Spinning == isr # "out" /\ ~room
PacketsTaken == unread > 0 ~> (unread = 0 \/ overrun \/ Spinning)
====
