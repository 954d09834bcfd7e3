------------------------------ MODULE Reference ------------------------------
(***************************************************************************)
(* What a tigr program means, stated over its syntax tree alone: the       *)
(* abstract specification that the folder, the compiler and the machine    *)
(* are compared with.  It knows nothing of slots, stack heights, jumps,    *)
(* frames, upvalues or handlers: a name has a location in a store, and an  *)
(* expression evaluates to an outcome.                                     *)
(*                                                                         *)
(* A state `s` has the names in scope and their locations (`vars`), the    *)
(* names declared in the innermost scope (`here`), the store, the heap,    *)
(* the loops around the expression, the depth of calls, the values yielded *)
(* so far, and the modules imported.  An outcome `r` is a record: `out`,   *)
(* the value `v`, and the state `s` left behind.                           *)
(*   val  a value             brk, cnt  a break or continue of loop `loop` *)
(*   ret  a return            err       an error raised                    *)
(*   bad  the program is not legal, v says why                             *)
(*                                                                         *)
(* A generator is evaluated to its end at its first next(), its yields     *)
(* queued: programs whose generators share variables with their consumer   *)
(* are out of this module's reach.                                         *)
(***************************************************************************)
EXTENDS Values

CONSTANTS Modules, Deepest

Empty == [vars |-> <<>>, here |-> {}, store |-> <<>>, heap |-> <<>>, loops |-> <<>>, depth |-> 0,
          yields |-> <<>>, done |-> <<>>, busy |-> {}]

Outcome(out, v, s) == [out |-> out, v |-> v, s |-> s, loop |-> 0]
Val(v, s) == Outcome("val", v, s)
Err(kind, s) == Outcome("err", ErrV(kind), s)
Bad(kind, s) == Outcome("bad", kind, s)
Lift(res, s) == IF res.ok THEN Val(res.v, [s EXCEPT !.heap = res.heap]) ELSE Err(res.kind, s)

\* An outcome goes on only from a value.
Then(r, K(_, _)) == IF r.out = "val" THEN K(r.v, r.s) ELSE r
Each(K(_, _, _), seq, r) ==
    Through(LAMBDA acc, x : Then(acc, LAMBDA v, s : K(v, x, s)), r, seq)

\* Names declared by r go out of scope.
Leaving(r, s) == [r EXCEPT !.s.vars = s.vars, !.s.here = s.here]
Entering(s) == [s EXCEPT !.here = {}]

-----------------------------------------------------------------------------
(* Names and patterns *)
Bind(x, v, s) ==
    IF x \in s.here THEN Bad("DuplicateDeclaration", s)
    ELSE Val(v, [s EXCEPT !.store = Append(@, v), !.vars = (x :> Len(s.store) + 1) @@ @,
                          !.here = @ \cup {x}])
SetName(x, v, s) ==
    IF x \in DOMAIN s.vars THEN Val(v, [s EXCEPT !.store[s.vars[x]] = v])
    ELSE Bad(IF x \in DOMAIN Natives THEN "AssignToBuiltin" ELSE "UndeclaredAssign", s)
GetName(x, s) ==
    IF x \in DOMAIN s.vars THEN Val(s.store[s.vars[x]], s)
    ELSE IF x \in DOMAIN Natives THEN Val(NativeV(x), s) ELSE Bad("UndeclaredVariable", s)

Keyed(pat) ==
    IF pat.p = "Obj" THEN [i \in DOMAIN pat.fields |-> <<StrV(pat.fields[i].key), pat.fields[i].pat>>]
    ELSE [i \in DOMAIN pat.items |-> <<IntV(i - 1), pat.items[i]>>]
RestOf(pat, v, heap) ==
    IF pat.p = "Arr" THEN SliceFrom(v, Len(pat.items), heap)
    ELSE ObjRest(v, [i \in DOMAIN pat.fields |-> StrV(pat.fields[i].key)], heap)

RECURSIVE Take(_, _, _, _)
(* Take v apart by the pattern, into new names or into those there are.     *)
Take(pat, v, s, new) ==
    LET Name(x, w, t) == IF new THEN Bind(x, w, t) ELSE SetName(x, w, t)
        parts == Each(LAMBDA u, part, t : IF part[2] = PWild THEN Val(u, t)
                        ELSE Then(Lift(IndexGet(v, part[1], t.heap), t),
                                  LAMBDA w, t2 : Take(part[2], w, t2, new)),
                      Keyed(pat), Val(v, s))
    IN CASE pat.p = "Wild" -> Val(v, s)
         [] pat.p = "Name" -> Name(pat.name, v, s)
         [] OTHER -> IF pat.rest = "" THEN parts
                     ELSE Then(parts, LAMBDA u, t : Then(Lift(RestOf(pat, v, t.heap), t),
                                                         LAMBDA w, t2 : Name(pat.rest, w, t2)))

Same(a, b, s) == Deep(a, s.heap) = Deep(b, s.heap)
Within(v, pat) ==
    /\ v[1] = "int" /\ pat.from[2] <= v[2]
    /\ IF pat.incl THEN v[2] <= pat.to[2] ELSE v[2] < pat.to[2]

\* The alternatives of an or-pattern may not bind.
Legal(pat) == pat.p # "Or" \/ \A i \in DOMAIN pat.alts : pat.alts[i].p \in {"Lit", "Range", "Wild"}

RECURSIVE Fits(_, _, _)
(* Whether v matches, and the state with its names bound: [yes, s].         *)
Fits(pat, v, s) ==
    LET shape == IF pat.p = "Arr"
                 THEN /\ v[1] = "arr"
                      /\ LET n == Len(s.heap[v[2]].items)
                         IN IF pat.rest = "" THEN n = Len(pat.items) ELSE n >= Len(pat.items)
                 ELSE v[1] \in {"obj", "err"}
        parts == Through(LAMBDA acc, part :
                            LET w == IndexGet(v, part[1], acc.s.heap).v
                            IN IF ~acc.yes THEN acc
                               ELSE Fits(IF part[2] = PShort THEN PName(part[1][2]) ELSE part[2], w, acc.s),
                          [yes |-> shape, s |-> s], Keyed(pat))
        rest == Lift(RestOf(pat, v, parts.s.heap), parts.s)
    IN CASE pat.p = "Wild" -> [yes |-> TRUE, s |-> s]
         [] pat.p = "Name" -> [yes |-> TRUE, s |-> Bind(pat.name, v, s).s]
         [] pat.p = "Lit" -> [yes |-> Same(v, pat.v, s), s |-> s]
         [] pat.p = "Range" -> [yes |-> Within(v, pat), s |-> s]
         [] pat.p = "Or" -> [yes |-> \E i \in DOMAIN pat.alts : Fits(pat.alts[i], v, s).yes, s |-> s]
         [] OTHER -> IF pat.rest = "" \/ ~parts.yes THEN parts
                     ELSE [yes |-> TRUE, s |-> Bind(pat.rest, rest.v, rest.s).s]

-----------------------------------------------------------------------------
RECURSIVE Eval(_, _)
All(es, s) == Each(LAMBDA vs, e, t : Then(Eval(e, t), LAMBDA v, u : Val(Append(vs, v), u)),
                   es, Val(<<>>, s))
Optional(es, s) == IF es = <<>> THEN Val(NullV, s) ELSE Eval(es[1], s)

Sequence(b, s) ==
    LET r == Each(LAMBDA v, e, t : Eval(e, t), b.kids, Val(NullV, s))
    IN IF r.out = "val" /\ ~b.tail THEN [r EXCEPT !.v = NullV] ELSE r

(* Calls *)
RECURSIVE Invoke(_, _, _)
RunBody(f, args, s) ==
    LET e == f.fn
        arg(i) == IF i <= Len(args) THEN args[i] ELSE NullV
        slots == [i \in DOMAIN e.params |-> i]
        named == Each(LAMBDA v, i, t : Bind(IF e.params[i].p = "Name" THEN e.params[i].name
                                            ELSE ToString(i), arg(i), t),
                      slots, Val(NullV, [s EXCEPT !.vars = f.vars, !.here = {}, !.loops = <<>>]))
        rest == IF e.rest = "" THEN named
                ELSE Then(named, LAMBDA v, t :
                       Then(Lift(Alloc(ArrayObj(SubSeq(args, Len(e.params) + 1, Len(args))), ArrV, t.heap), t),
                            LAMBDA w, u : Bind(e.rest, w, u)))
        place(t, i) == t.vars[IF e.params[i].p = "Name" THEN e.params[i].name ELSE ToString(i)]
        filled == Each(LAMBDA v, i, t :
                         IF e.defaults[i] = <<>> \/ t.store[place(t, i)] # NullV THEN Val(v, t)
                         ELSE Then(Eval(e.defaults[i][1], t),
                                   LAMBDA w, u : Val(w, [u EXCEPT !.store[place(u, i)] = w])),
                       slots, rest)
        taken == Each(LAMBDA v, i, t : IF e.params[i].p = "Name" THEN Val(v, t)
                                       ELSE Take(e.params[i], t.store[place(t, i)], t, TRUE),
                      slots, filled)
        r == Then(taken, LAMBDA v, t : Eval(e.kids[1], t))
    IN [r EXCEPT !.out = IF @ = "ret" THEN "val" ELSE @,
                 !.s.vars = s.vars, !.s.here = s.here, !.s.loops = s.loops]

Answer(pairs, s) == Lift(Alloc(ObjectObj(pairs), ObjV, s.heap), s)

\* next() of generator g: run it if it has not run, then deliver.
GenNext(g, s) ==
    LET gen == s.heap[g]
        r == RunBody(gen.fn, gen.args, [s EXCEPT !.heap[g].status = "running", !.yields = <<<<>>>> \o @])
        ran == [r.s EXCEPT !.yields = s.yields, !.heap[g].status = "ran", !.heap[g].queue = r.s.yields[1],
                           !.heap[g].last = [r EXCEPT !.s = 0]]
        t == IF gen.status = "fresh" THEN ran ELSE s
        queue == t.heap[g].queue
        over == [t EXCEPT !.heap[g].status = "done"]
    IN CASE gen.status = "done" -> Answer(<<<<"done", BoolV(TRUE)>>>>, s)
         [] gen.status = "running" -> Err("type_mismatch", s)
         [] OTHER ->
              IF queue # <<>>
              THEN Answer(<<<<"done", BoolV(FALSE)>>, <<"value", Head(queue)>>>>,
                          [t EXCEPT !.heap[g].queue = Tail(@)])
              ELSE IF t.heap[g].last.out = "val" THEN Answer(<<<<"done", BoolV(TRUE)>>>>, over)
              ELSE [t.heap[g].last EXCEPT !.s = over]

MakeGen(f, args, s) ==
    LET g == Len(s.heap) + 1
        made == [k |-> "gen", fn |-> f, args |-> args, status |-> "fresh", queue |-> <<>>, last |-> 0]
    IN Answer(<<<<"next", FnV(g + 1)>>>>,
              [s EXCEPT !.heap = @ \o <<made, [k |-> "gennext", g |-> g]>>])

Invoke(f, args, s) ==
    LET fn == s.heap[f[2]]
        r == RunBody(fn, args, [s EXCEPT !.depth = @ + 1])
    IN CASE f[1] = "native" ->
              IF Len(args) # Natives[f[2]] THEN Err("arity_mismatch", s)
              ELSE Val(StrV(TypeName(args[1])), s)
         [] f[1] = "fn" ->
              IF s.depth >= Deepest THEN Err("stack_overflow", s)
              ELSE IF fn.k = "gennext" THEN GenNext(fn.g, s)
              ELSE IF fn.fn.gen THEN MakeGen(fn, args, s)
              ELSE [r EXCEPT !.s.depth = s.depth]
         [] OTHER -> Err("not_callable", s)

-----------------------------------------------------------------------------
(* Iteration *)
\* One answer of the iterator object `obj`: a value [done, v].
Ask(next, s) ==
    Then(IF IsCallable(next) THEN Invoke(next, <<>>, s) ELSE Err("type_mismatch", s),
         LAMBDA v, t : LET res == ParseIterResult(v, t.heap)
                       IN IF res.ok THEN Val(res, t) ELSE Err(res.kind, t))

\* The next element of an iterator: a value, <<>> or <<counter, element>>.
NextOf(ref, s) ==
    LET it == s.heap[ref]
        step == Advance(it, s.heap)
    IN IF it.kind # "object"
       THEN Val(IF step.more THEN <<step.counter, step.v>> ELSE <<>>, [s EXCEPT !.heap[ref] = step.it])
       ELSE IF it.done THEN Val(<<>>, s)
       ELSE Then(Ask(Field(s.heap[it.src[2]].pairs, "next"), s), LAMBDA res, t :
              Val(IF res.done THEN <<>> ELSE <<IntV(t.heap[ref].at), res.v>>,
                  [t EXCEPT !.heap[ref].at = @ + 1, !.heap[ref].done = res.done]))

RECURSIVE Drain(_, _, _)
Drain(next, arr, s) ==
    Then(Ask(next, s), LAMBDA res, t :
           IF res.done THEN Val(ArrV(arr), t)
           ELSE Drain(next, arr, [t EXCEPT !.heap[arr].items = Append(@, res.v)]))

SpreadOnto(arr, v, s) ==
    IF IsIterObject(v, s.heap) THEN Drain(Field(s.heap[v[2]].pairs, "next"), arr, s)
    ELSE Lift(ExtendArray(ArrV(arr), v, s.heap), s)

\* The array of the elements, spread or not.
Listed(es, s) ==
    LET arr == Len(s.heap) + 1
        spread(e) == e.t = "Spread"
    IN Each(LAMBDA v, e, t :
              Then(Eval(IF spread(e) THEN e.kids[1] ELSE e, t), LAMBDA w, u :
                     IF spread(e) THEN SpreadOnto(arr, w, u)
                     ELSE Val(v, [u EXCEPT !.heap[arr].items = Append(@, w)])),
            es, Val(ArrV(arr), [s EXCEPT !.heap = Append(@, ArrayObj(<<>>))]))

-----------------------------------------------------------------------------
(* Loops.  The value of a loop is its last body's, or the array of all.     *)
Kept(e, acc, vs, s) ==
    IF e.arr THEN Val(acc, [s EXCEPT !.heap[acc[2]].items = @ \o vs])
    ELSE Val(IF vs = <<>> THEN NullV ELSE vs[1], s)

\* What the outcome r of a round does to its loop, the i-th one.
Round(e, r, i, acc, again(_, _)) ==
    CASE r.out = "val" -> LET k == Kept(e, acc, <<r.v>>, r.s) IN again(k.v, k.s)
      [] r.out = "cnt" /\ r.loop = i -> LET k == Kept(e, acc, <<>>, r.s) IN again(k.v, k.s)
      [] r.out = "brk" /\ r.loop = i -> Kept(e, acc, r.v, r.s)
      [] OTHER -> r

RECURSIVE WhileFrom(_, _, _, _), ForFrom(_, _, _, _, _)
WhileFrom(e, i, acc, s) ==
    LET cond == Eval(e.kids[1], s)
        over == cond.out = "val" /\ ~IsTruthy(cond.v)
        body == Then(cond, LAMBDA v, t : Eval(e.kids[2], t))
    IN IF over THEN Val(acc, cond.s)
       ELSE Round(e, Leaving(body, s), i, acc, LAMBDA a, t : WhileFrom(e, i, a, [t EXCEPT !.loops = s.loops]))

ForFrom(e, i, ref, acc, s) ==
    Then(NextOf(ref, s), LAMBDA next, t :
           LET names == IF Len(e.vars) = 1 THEN <<<<e.vars[1], next[2]>>>>
                        ELSE <<<<e.vars[1], next[1]>>, <<e.vars[2], next[2]>>>>
               bound == Each(LAMBDA v, nv, u : Bind(nv[1], nv[2], u), names, Val(NullV, Entering(t)))
               body == Then(bound, LAMBDA v, u : Eval(e.kids[2], u))
           IN IF next = <<>> THEN Val(acc, t)
              ELSE Round(e, Leaving(body, s), i, acc,
                         LAMBDA a, u : ForFrom(e, i, ref, a, [u EXCEPT !.loops = s.loops])))

InLoop(e, s, run(_, _, _)) ==
    LET i == Len(s.loops) + 1
        inside == [s EXCEPT !.loops = Append(@, FALSE), !.here = {}]
        start == IF e.arr THEN Lift(Alloc(ArrayObj(<<>>), ArrV, s.heap), inside) ELSE Val(NullV, inside)
        r == run(i, start.v, start.s)
    IN [Leaving(r, s) EXCEPT !.s.loops = s.loops]

\* The loop that a break means: the innermost that is not being left.
MeantLoop(s) ==
    LET open == {i \in DOMAIN s.loops : ~s.loops[i]} IN Max({0} \cup open)

EvalBreak(es, s) ==
    LET i == MeantLoop(s)
        r == All(es, [s EXCEPT !.loops[i] = TRUE])
    IN IF i = 0 THEN Bad("BreakOutsideLoop", s)
       ELSE Then(r, LAMBDA vs, t : [Outcome("brk", vs, t) EXCEPT !.loop = i])

EvalContinue(s) ==
    IF MeantLoop(s) = 0 THEN Bad("ContinueOutsideLoop", s)
    ELSE [Outcome("cnt", NullV, s) EXCEPT !.loop = MeantLoop(s)]

-----------------------------------------------------------------------------
EvalBinOp(e, s) ==
    LET both == All(e.kids, s)
    IN IF e.op \in {"And", "Or"}
       THEN Then(Eval(e.kids[1], s), LAMBDA v, t :
                   IF IsTruthy(v) = (e.op = "And") THEN Eval(e.kids[2], t) ELSE Val(v, t))
       ELSE Then(both, LAMBDA vs, t : Lift(BinaryOp(e.op, vs[1], vs[2], t.heap), t))

\* `a op= b`, an array being added to in place.
Combined(op, a, b, s) ==
    IF op = "" THEN Val(b, s)
    ELSE Lift(IF op = "Add" THEN AddAssign(a, b, s.heap) ELSE BinaryOp(op, a, b, s.heap), s)

EvalAssign(e, s) ==
    Then(SetName(e.name, IF e.name \in DOMAIN s.vars THEN s.store[s.vars[e.name]] ELSE NullV, s),
         LAMBDA old, t : Then(Eval(e.kids[1], t), LAMBDA v, u :
                                Then(Combined(e.op, old, v, u), LAMBDA w, u2 : SetName(e.name, w, u2))))

EvalIndexAssign(e, s) ==
    Then(All(<<e.kids[1], e.kids[2]>>, s), LAMBDA place, t :
      Then(IF e.op = "" THEN Val(NullV, t) ELSE Lift(IndexGet(place[1], place[2], t.heap), t), LAMBDA old, u :
        Then(Eval(e.kids[3], u), LAMBDA v, u2 :
          Then(Combined(e.op, old, v, u2), LAMBDA w, u3 :
            Lift(IndexSet(place[1], place[2], w, u3.heap), u3)))))

EvalDecl(e, s) ==
    LET init == e.kids[1]
        ahead == Bind(e.pat.name, NullV, s)
    IN IF e.pat.p = "Name" /\ init.t = "Fn"
       THEN Then(ahead, LAMBDA v, t : Then(Eval(init, t), LAMBDA f, u : SetName(e.pat.name, f, u)))
       ELSE Then(Eval(init, s), LAMBDA v, t :
              LET r == Take(e.pat, v, t, TRUE) IN IF r.out = "val" THEN [r EXCEPT !.v = v] ELSE r)

EvalObject(e, s) ==
    LET obj == Len(s.heap) + 1
    IN Each(LAMBDA v, i, t : Then(Eval(e.kids[i], t), LAMBDA w, u :
                Lift(IF e.keys[i] = "..." THEN MergeObject(ObjV(obj), w, u.heap)
                     ELSE Done(ObjV(obj), [u.heap EXCEPT ![obj].pairs = Put(@, e.keys[i], w)]), u)),
            [i \in DOMAIN e.keys |-> i],
            Val(ObjV(obj), [s EXCEPT !.heap = Append(@, ObjectObj(<<>>))]))

RECURSIVE Arms(_, _, _, _)
Arms(arms, i, v, s) ==
    LET fit == Fits(arms[i].pat, v, Entering(s))
        guard == IF arms[i].guard = <<>> THEN Val(BoolV(TRUE), fit.s) ELSE Eval(arms[i].guard[1], fit.s)
        else(t) == Arms(arms, i + 1, v, Leaving(Val(v, t), s).s)
    IN IF i > Len(arms) THEN Err("no_match", s)
       ELSE IF ~fit.yes THEN else(fit.s)
       ELSE Leaving(Then(guard, LAMBDA g, t : IF IsTruthy(g) THEN Eval(arms[i].body, t) ELSE else(t)), s)

EvalImport(name, s) ==
    LET r == Sequence(Modules[name],
                      [s EXCEPT !.vars = <<>>, !.here = {}, !.loops = <<>>, !.busy = @ \cup {name}])
        back == [[r.s EXCEPT !.vars = s.vars] EXCEPT !.here = s.here, !.loops = s.loops, !.busy = s.busy]
    IN CASE name \in DOMAIN s.done -> Val(s.done[name], s)
         [] name \in s.busy \/ name \notin DOMAIN Modules -> Err("import_failed", s)
         [] OTHER -> (CASE r.out \in {"val", "ret"} -> Val(r.v, [back EXCEPT !.done = (name :> r.v) @@ @])
                        [] r.out = "bad" -> Err("import_failed", s)
                        [] OTHER -> [r EXCEPT !.s = back])

Eval(e, s) ==
    LET one == Eval(e.kids[1], s)
        all == All(e.kids, s)
    IN CASE e.t = "Lit" -> Val(e.v, s)
         [] e.t = "Null" -> Val(NullV, s)
         [] e.t = "Ident" -> GetName(e.name, s)
         [] e.t = "BinOp" -> EvalBinOp(e, s)
         [] e.t = "UnOp" -> Then(one, LAMBDA v, t : Lift(UnaryOp(e.op, v, t.heap), t))
         [] e.t = "Block" -> Sequence(e, s)
         [] e.t = "Scope" -> Leaving(Sequence(e, Entering(s)), s)
         [] e.t = "Decl" -> EvalDecl(e, s)
         [] e.t = "Assign" -> EvalAssign(e, s)
         [] e.t = "AssignPattern" ->
              Then(one, LAMBDA v, t : LET r == Take(e.pat, v, t, FALSE)
                                      IN IF r.out = "val" THEN [r EXCEPT !.v = v] ELSE r)
         [] e.t = "If" -> Then(one, LAMBDA v, t : Eval(e.kids[IF IsTruthy(v) THEN 2 ELSE 3], t))
         [] e.t = "While" -> InLoop(e, s, LAMBDA i, acc, t : WhileFrom(e, i, acc, t))
         [] e.t = "For" ->
              Leaving(Then(Eval(e.kids[1], Entering(s)), LAMBDA v, t :
                        Then(Lift(MakeIter(v, t.heap), t), LAMBDA it, u :
                          InLoop(e, u, LAMBDA i, acc, u2 : ForFrom(e, i, it[2], acc, u2)))), s)
         [] e.t = "Range" ->
              Then(all, LAMBDA vs, t : Lift(MakeRange(vs[1], vs[2], SubSeq(vs, 3, Len(vs)), e.incl, t.heap), t))
         [] e.t = "Break" -> EvalBreak(e.kids, s)
         [] e.t = "Continue" -> EvalContinue(s)
         [] e.t = "Return" -> Then(Optional(e.kids, s), LAMBDA v, t : Outcome("ret", v, t))
         [] e.t = "Yield" ->
              Then(Optional(e.kids, s), LAMBDA v, t :
                     Val(NullV, IF t.yields = <<>> THEN t ELSE [t EXCEPT !.yields[1] = Append(@, v)]))
         [] e.t = "Array" -> Listed(e.kids, s)
         [] e.t = "Object" -> EvalObject(e, s)
         [] e.t = "Template" -> Then(all, LAMBDA vs, t :
                                       Val(StrV(Through(LAMBDA a, v : a \o Display(v), "", vs)), t))
         [] e.t = "Index" -> Then(all, LAMBDA vs, t : Lift(IndexGet(vs[1], vs[2], t.heap), t))
         [] e.t = "IndexAssign" -> EvalIndexAssign(e, s)
         [] e.t = "Call" -> Then(one, LAMBDA f, t : Then(Listed(Tail(e.kids), t), LAMBDA args, u :
                                                           Invoke(f, u.heap[args[2]].items, u)))
         [] e.t = "Fn" -> Lift(Alloc([k |-> "fn", fn |-> e, vars |-> s.vars], FnV, s.heap), s)
         [] e.t = "Try" ->
              (LET r == [one EXCEPT !.s.loops = s.loops]
               IN IF r.out # "err" THEN r
                  ELSE IF e.catch = <<>> THEN Val(NullV, Leaving(r, s).s)
                  ELSE Leaving(Then(Bind(e.catch[1], r.v, Entering(Leaving(r, s).s)),
                                    LAMBDA v, t : Eval(e.catch[2], t)), s))
         [] e.t = "Raise" -> Then(one, LAMBDA v, t : Outcome("err", v, t))
         [] e.t = "Import" ->
              Then(one, LAMBDA v, t : IF v[1] = "str" THEN EvalImport(v[2], t) ELSE Err("type_mismatch", t))
         [] e.t = "Spread" -> Bad("SpreadInInvalidPosition", s)
         [] e.t = "Match" -> Then(one, LAMBDA v, t :
              IF \E i \in DOMAIN e.arms : ~Legal(e.arms[i].pat) THEN Bad("InvalidMatchPattern", t)
              ELSE Leaving(Arms(e.arms, 1, v, t), s))

-----------------------------------------------------------------------------
(* The outcomes of the lines of a program, in order.  A line that raises    *)
(* takes the names it declared with it; a line that is not legal leaves     *)
(* nothing at all.                                                          *)
Line(block, acc) ==
    LET r == Sequence(block, acc.s)
        given(kind, v) == Append(acc.given, <<kind, v>>)
    IN CASE r.out \in {"val", "ret"} -> [s |-> r.s, given |-> given("value", Deep(r.v, r.s.heap))]
         [] r.out = "err" ->
              [s |-> [r.s EXCEPT !.vars = acc.s.vars, !.here = acc.s.here, !.loops = <<>>, !.depth = 0,
                                 !.busy = {}, !.yields = <<>>],
               given |-> given("raised", Deep(r.v, r.s.heap))]
         [] OTHER -> [s |-> acc.s, given |-> given("rejected", r.v)]

Meaning(program) ==
    Through(LAMBDA acc, block : Line(block, acc), [s |-> Empty, given |-> <<>>], program.lines).given
=============================================================================
