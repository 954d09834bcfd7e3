------------------------------ MODULE MCSession ------------------------------
(* Session for TLC: a host, its program and two `go` coroutines.             *)
EXTENDS Session

=============================================================================
