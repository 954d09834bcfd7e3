------------------------------ MODULE MCChannel ------------------------------
(* Channel for TLC: one bounded and one unbounded channel, a few threads.     *)
EXTENDS Channel

=============================================================================
