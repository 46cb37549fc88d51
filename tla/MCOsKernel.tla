---- MODULE MCOsKernel ----
(* Two tasks, three priorities, and an event that is created as any kind.   *)
(* The history of the last call is left out of the view: no action reads    *)
(* it but to turn its bit, so two states that differ in it alone have the   *)
(* same steps, and every step is checked against the channel.               *)
EXTENDS OsKernel, TLC

Symmetry == Permutations(Tasks) \cup Permutations(Msgs)
View == <<OSRdyTbl, tables, tcb, ecb, ring, at, running, nesting>>
====
