---------------------------- MODULE MCArmGateway ----------------------------
(***************************************************************************)
(* Instances of ArmGateway for TLC.  The line delivers an answer in one    *)
(* piece, or cut after 16 bytes (the second read then completes it) or     *)
(* after 11.                                                               *)
(***************************************************************************)
EXTENDS ArmGateway

MCChunks == {16, 21}
\* A stray byte at index 2: none, one that makes 11 bytes look whole, one
\* that makes any message look short.
MCDataBytes == {0, 11, 200}
=============================================================================
