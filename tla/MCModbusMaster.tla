--------------------------- MODULE MCModbusMaster ---------------------------
(***************************************************************************)
(* ModbusMaster for TLC: five commands, to slaves 3, 1, 2, 3 and 1: two     *)
(* slaves are polled twice, and their first answers are stale when the     *)
(* second ones come.                                                       *)
(***************************************************************************)
EXTENDS ModbusMaster
=============================================================================
