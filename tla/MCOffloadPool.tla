---------------------------- MODULE MCOffloadPool ----------------------------
(* OffloadPool for TLC: a main program that joins its one child actor       *)
(* twice, and the child, which makes a call of its own that may panic.      *)
EXTENDS OffloadPool

CONSTANTS main, child, join1, join2, call

MCOwner == [j \in Jobs |-> IF j = call THEN child ELSE main]
MCTarget == [j \in {join1, join2} |-> child]

=============================================================================
