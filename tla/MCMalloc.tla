------------------------------ MODULE MCMalloc ------------------------------
(***************************************************************************)
(* Malloc for TLC: a pool of six blocks and requests of one, two and three *)
(* blocks, at, below and above a block boundary, and of nothing.           *)
(***************************************************************************)
EXTENDS Malloc

MCSizes == {0, 1, 33, 96}
=============================================================================
