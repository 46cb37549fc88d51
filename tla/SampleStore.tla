----------------------------- MODULE SampleStore -----------------------------
(***************************************************************************)
(* What a Modbus master promises its upload: for every slave one sample,   *)
(* the number of the command it answers.  A sample belongs to the slave it *)
(* is shown for and is only ever replaced by a later one.                  *)
(***************************************************************************)
EXTENDS Naturals

CONSTANTS Slaves,      \* the addresses that are polled
          Samples(_)   \* the numbers of the commands sent to a slave

VARIABLE shown

Init == shown = [s \in Slaves |-> 0]

Replace(s) ==
  \E n \in Samples(s) :
    /\ n > shown[s]
    /\ shown' = [shown EXCEPT ![s] = n]

Next == \E s \in Slaves : Replace(s)

Spec == Init /\ [][Next]_shown
=============================================================================
