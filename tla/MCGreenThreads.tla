---------------------------- MODULE MCGreenThreads ----------------------------
(* GreenThreads for TLC: a main program, two `go` coroutines, at most one     *)
(* deferred, offloaded calls and a clock of a few ticks.                      *)
EXTENDS GreenThreads

=============================================================================
