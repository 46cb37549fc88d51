---- MODULE MCEnc28j60 ----
(* Instance of Enc28j60. *)
EXTENDS Enc28j60
====
