---- MODULE MCUplink ----
(* Instance of Uplink. *)
EXTENDS Uplink
====
