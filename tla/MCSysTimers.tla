----------------------------- MODULE MCSysTimers -----------------------------
(***************************************************************************)
(* SysTimers for TLC: ticks of 5 ms as in the code (200 a second), two     *)
(* periodic timers and the tcp timer, with periods of two ticks, two ticks *)
(* and a bit, and one tick and a bit.                                      *)
(***************************************************************************)
EXTENDS SysTimers, TLC

CONSTANTS arp, ip, tcp

MCBoot == <<ip, arp>>
MCPeriod == (ip :> 10 @@ arp :> 12) @@ tcp :> 7
=============================================================================
