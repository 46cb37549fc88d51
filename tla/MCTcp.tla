-------------------------------- MODULE MCTcp --------------------------------
(* Instances of TcpConnection.  Five units and two faults: zero windows, lost *)
(* window updates, duplicate acknowledgements, fast retransmit and the limit *)
(* of retransmissions.  The next two close the connection from either end    *)
(* and reset it, with data one way and both ways.  The last two fill the     *)
(* receive window, with segments cut, doubled, early and late, one of them   *)
(* with the FIN beyond it.                                                   *)
EXTENDS TcpConnection

MCPlans == { [out |-> 5, in |-> 0, faults |-> 2, ends |-> {}],
             [out |-> 3, in |-> 0, faults |-> 1, ends |-> Ends],
             [out |-> 1, in |-> 1, faults |-> 1, ends |-> Ends],
             [out |-> 0, in |-> 5, faults |-> 1, ends |-> {}],
             [out |-> 0, in |-> 4, faults |-> 1, ends |-> {"fin"}] }

\* One unit, a close that must wait, a lost acknowledgement.
MCFreed == { [out |-> 1, in |-> 0, faults |-> 2, ends |-> Ends] }

\* Eight units, one unit the other way, two faults.  The search keeps to the
\* behaviours in which the application does not read, and the peer reads only
\* when a number has come to be held twice.
MCHeldTwice == { [out |-> 8, in |-> 1, faults |-> 2, ends |-> {}] }
Narrowed == /\ conn.unread = Len(conn.given)
            /\ peer.unread = Len(peer.got) \/ ~QueuesHold
===============================================================================
