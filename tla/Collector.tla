------------------------------ MODULE Collector ------------------------------
(***************************************************************************)
(* The garbage collector (src/src/vm/gc.rs, trace_roots in                 *)
(* src/src/vm/vm.rs): mark what the roots reach, sweep the rest.           *)
(*                                                                         *)
(* What is collected are the records of the heap and the upvalue cells of  *)
(* a world `w` (see Machine).  A place is never given out twice here, and  *)
(* a freed one keeps nothing: a handle to it is what the generation        *)
(* counters of the arenas call stale.                                      *)
(***************************************************************************)
EXTENDS Values

CONSTANT MinThreshold       \* MIN_THRESHOLD: fewer records are never collected
ASSUME MinThresholdAssumption == MinThreshold \in Nat \ {0}

Freed == [k |-> "freed"]
FreedCell == [open |-> FALSE, v |-> <<"freed">>]

Record_(i) == <<"record", i>>
Cell(i) == <<"cell", i>>

-----------------------------------------------------------------------------
(* What each thing refers to                                                *)
InValue(v) == IF v[1] \in {"arr", "obj", "fn", "iter", "gen"} THEN {Record_(v[2])} ELSE {}
InValues(vs) == UNION {InValue(vs[i]) : i \in DOMAIN vs}

\* A frame keeps its closure, and what a pulled value will go into.
InFrame(f) ==
    (IF f.fn = 0 THEN {} ELSE {Record_(f.fn)})
        \cup (IF f.kind[1] \in {"IterPull", "SpreadPull"} THEN {Record_(f.kind[2])} ELSE {})

InCoroutine(c) ==
    InValues(c.stack) \cup {Cell(i) : i \in c.open} \cup UNION {InFrame(f) : f \in ToSet(c.frames)}

\* Wrong: an iterator does not keep what it iterates over.
InRecordButIterators(o) ==
    CASE o.k = "arr" -> InValues(o.items)
      [] o.k = "obj" -> UNION {InValue(o.pairs[i][2]) : i \in DOMAIN o.pairs}
      [] o.k = "fn" -> {Cell(i) : i \in ToSet(o.ups)}
      [] o.k = "gen" /\ o.status # "running" -> InCoroutine(o.co)
      [] OTHER -> {}

\* The state of a generator that runs is not with its handle.
InRecord(o) ==
    CASE o.k = "arr" -> InValues(o.items)
      [] o.k = "obj" -> UNION {InValue(o.pairs[i][2]) : i \in DOMAIN o.pairs}
      [] o.k = "fn" -> {Cell(i) : i \in ToSet(o.ups)}
      [] o.k = "iter" -> InValue(o.src)
      [] o.k = "gen" /\ o.status # "running" -> InCoroutine(o.co)
      [] OTHER -> {}

\* The value of an open cell is on the stack of its coroutine.
InCell(cell) == IF cell.open THEN {} ELSE InValue(cell.v)

Refers(w, ref) == IF ref[1] = "cell" THEN InCell(w.cells[ref[2]]) ELSE InRecord(w.heap[ref[2]])

Handle(gen) == IF gen = 0 THEN {} ELSE {Record_(gen)}

Roots(w) ==
    UNION ({InCoroutine(w.co), Handle(w.gen)}
             \cup {InCoroutine(ctx.co) \cup Handle(ctx.gen) : ctx \in ToSet(w.resumers)}
             \cup {InValue(w.imports.done[name]) : name \in DOMAIN w.imports.done})

-----------------------------------------------------------------------------
RECURSIVE Mark(_, _, _)
(* `marked` grows by what the newly marked refer to, until nothing is new.  *)
Mark(w, marked, new) ==
    LET next == UNION {Refers(w, ref) : ref \in new} \ marked
    IN IF new = {} THEN marked ELSE Mark(w, marked \cup next, next)

Sweep(w, marked) ==
    [w EXCEPT !.heap = [i \in DOMAIN @ |-> IF Record_(i) \in marked THEN @[i] ELSE Freed],
              !.cells = [i \in DOMAIN @ |-> IF Cell(i) \in marked THEN @[i] ELSE FreedCell]]

Swept(w) == Sweep(w, Mark(w, Roots(w), Roots(w)))

Live(w) ==
    Cardinality({i \in DOMAIN w.heap : w.heap[i] # Freed})
        + Cardinality({i \in DOMAIN w.cells : w.cells[i] # FreedCell})

\* The trigger is twice what survived.
Threshold(live) == Max({2 * live, MinThreshold})
=============================================================================
