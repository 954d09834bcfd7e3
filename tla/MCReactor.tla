------------------------------- MODULE MCReactor ------------------------------
(* Reactor for TLC: one socket of any kind, shared by two actors that make   *)
(* one call each; one socket has a timeout.                                  *)
EXTENDS Reactor

CONSTANTS a, b, j1, j2

MCOwner == [j \in Jobs |-> IF j = j1 THEN a ELSE b]

Op(name, n) == [name |-> name, n |-> n]
Plan(k, t, c1, c2) ==
  [kind |-> k, timed |-> t, calls |-> [j \in Jobs |-> IF j = j1 THEN c1 ELSE c2]]

MCPlans ==
  { Plan("tcp", TRUE, Op("exact", 2), Op("until", 0)),
    Plan("tcp", FALSE, Op("all", 0), Op("write", 1)),
    Plan("tls", FALSE, Op("chunk", 1), Op("write", 2)),
    Plan("listener", FALSE, Op("item", 1), Op("item", 1)),
    Plan("udp", FALSE, Op("item", 1), Op("item", 1)) }

===============================================================================
