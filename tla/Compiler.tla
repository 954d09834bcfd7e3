------------------------------ MODULE Compiler ------------------------------
(***************************************************************************)
(* The compiler from syntax trees to bytecode (src/src/vm/compiler.rs).    *)
(*                                                                         *)
(* The machine's stack holds the locals of a function and, above and       *)
(* between them, the values an expression is in the middle of using.  The  *)
(* compiler knows where each local is because it tracks the height the     *)
(* stack will have at every instruction (`height`); everything else here   *)
(* depends on that number being right.                                     *)
(*                                                                         *)
(* An instruction is a record: `op`, its operand `a`, and the tracked      *)
(* height `h` before it, which the bytecode does not carry and which the   *)
(* model keeps to compare with the running stack.  Jumps name the index of *)
(* their target.  The compiler's state `c` is a record: the functions      *)
(* being compiled `fs`, innermost last, the finished functions `table`,    *)
(* the errors recorded `errs`, and `fails`, the jumps of the match arm in  *)
(* progress that wait for its fail label.                                  *)
(***************************************************************************)
EXTENDS Values, Folder

CONSTANT SlotRange      \* a slot and a height are a byte in an instruction: 256
ASSUME SlotRangeAssumption == SlotRange \in Nat \ {0}

SlotOf(n) == n % SlotRange

-----------------------------------------------------------------------------
(* The function being compiled *)
NewFunction ==
    [code |-> <<>>, locals |-> <<>>, ups |-> <<>>, depth |-> 0, height |-> 1,
     loops |-> <<>>, hoisted |-> <<<<>>>>]
NewCompiler == [fs |-> <<NewFunction>>, table |-> <<>>, errs |-> <<>>, fails |-> <<>>]

Current(c) == Last(c.fs)
Height(c) == Current(c).height
Here(c) == Len(Current(c).code)
LastSlot(c) == Last(Current(c).locals).slot
WithCurrent(c, fc) == [c EXCEPT !.fs[Len(c.fs)] = fc]
\* Wrong: the height after a branch is not put back.
HeightForgotten(c, h) == c
AtHeight(c, h) == [c EXCEPT !.fs[Len(c.fs)].height = h]
Record(c, kind) == [c EXCEPT !.errs = Append(@, kind)]

Comparisons == {"Eq", "Neq", "Lt", "Le", "Gt", "Ge"}
BinOpcodes == {"Add", "Sub", "Mul", "Div", "Mod", "Pow", "AddAssign"} \cup Comparisons

\* By how much an instruction changes the height of the stack.
Effect(op, a) ==
    CASE op \in {"LoadConst", "LoadLocal", "LoadGlobal", "GetUpvalue", "PushNull", "Dup",
                 "Closure", "TypeTest", "IterNext"} -> 1
      [] op \in {"Dup2", "IterNext2"} -> 2
      [] op \in {"Pop", "Raise", "Halt", "IndexGet", "ArrayPush", "ArrayExtend", "ObjectMerge",
                 "SliceFrom", "ObjRest", "IterAppend", "CallSpread"} \cup BinOpcodes -> -1
      [] op = "IndexSet" -> -2
      [] op \in {"MakeArray", "ConcatN"} -> 1 - a
      [] op = "MakeObject" -> 1 - 2 * a
      [] op = "MakeRange" -> 1 - a.n
      [] op \in {"Call", "TailCall", "CloseScope"} -> -a
      [] OTHER -> 0

EmitOp(fc, op, a) ==
    [fc EXCEPT !.code = Append(@, [op |-> op, a |-> a, h |-> fc.height]), !.height = @ + Effect(op, a)]

\* c ++ <<op, operand>> emits an instruction.
c ++ instr ==
    WithCurrent(c, EmitOp(Current(c), instr[1], IF Len(instr) > 1 THEN instr[2] ELSE 0))

Emit(c, instrs) ==
    LET after[i \in 0..Len(instrs)] == IF i = 0 THEN c ELSE after[i - 1] ++ instrs[i]
    IN after[Len(instrs)]

\* The jump at index `at` lands on the next instruction.
Patch(c, at) == [c EXCEPT !.fs[Len(c.fs)].code[at].a = Here(c) + 1]
PatchAll(c, ats) ==
    LET code == Current(c).code
    IN [c EXCEPT !.fs[Len(c.fs)].code =
          [i \in DOMAIN code |-> IF i \in ToSet(ats) THEN [code[i] EXCEPT !.a = Len(code) + 1] ELSE code[i]]]

-----------------------------------------------------------------------------
(* Scopes and names *)
BeginScope(c) ==
    [c EXCEPT !.fs[Len(c.fs)].depth = @ + 1, !.fs[Len(c.fs)].hoisted = Append(@, <<>>)]

\* The locals of the innermost scope are dropped; nothing is emitted.
LeaveScope(c) ==
    LET fc == Current(c)
    IN WithCurrent(c, [fc EXCEPT !.locals = SelectSeq(@, LAMBDA l : l.depth < fc.depth),
                                 !.depth = @ - 1, !.hoisted = Front(@)])

EndScope(c) ==
    LET n == Len(Current(c).locals) - Len(Current(LeaveScope(c)).locals)
        closed == IF n = 0 THEN c ELSE c ++ <<"CloseScope", n>>
    IN LeaveScope(IF n < SlotRange THEN closed ELSE Record(closed, "TooManyLocals"))

Anonymous == {"", "$for_iter", "$for_result", "$while_result", "$match_result"}

DeclareAt(c, x, slot) ==
    LET fc == Current(c)
        twice == /\ x \notin Anonymous
                 /\ \E i \in DOMAIN fc.locals : fc.locals[i].name = x /\ fc.locals[i].depth = fc.depth
        local == [name |-> x, depth |-> fc.depth, slot |-> slot]
    IN WithCurrent(IF twice THEN Record(c, "DuplicateDeclaration") ELSE c,
                   [fc EXCEPT !.locals = Append(@, local)])

\* The value on top of the stack becomes the local x.
Declare(c, x) == DeclareAt(c, x, SlotOf(Height(c) - 1))

\* An upvalue of function f: a local of the function around it, or one of
\* that function's own upvalues.
AddUpvalue(c, f, up) ==
    LET ups == c.fs[f].ups
    IN IF up \in ToSet(ups) THEN [c |-> c, r |-> <<"Upvalue", SelectInSeq(ups, LAMBDA u : u = up)>>]
       ELSE [c |-> [IF Len(ups) < SlotRange THEN c ELSE Record(c, "TooManyUpvalues")
                    EXCEPT !.fs[f].ups = Append(@, up)],
             r |-> <<"Upvalue", Len(ups) + 1>>]

RECURSIVE ResolveIn(_, _, _)
(* What the name x means in function f: [c, r], r being <<>> for nothing,   *)
(* and c the state with the upvalues that reaching it needs.                *)
ResolveIn(c, f, x) ==
    LET locals == c.fs[f].locals
        hits == {i \in DOMAIN locals : locals[i].name = x}
        outer == ResolveIn(c, f - 1, x)
        up == AddUpvalue(outer.c, f, [local |-> outer.r[1] = "Local", index |-> outer.r[2]])
    IN CASE hits # {} -> [c |-> c, r |-> <<"Local", locals[Max(hits)].slot>>]
         [] hits = {} /\ f > 1 ->
              IF outer.r # <<>> /\ outer.r[1] # "Global" THEN up ELSE outer
         [] OTHER -> [c |-> c, r |-> IF x \in DOMAIN Natives THEN <<"Global", x>> ELSE <<>>]

Resolve(c, x) == ResolveIn(c, Len(c.fs), x)

LoadName(c, r) ==
    c ++ <<[Local |-> "LoadLocal", Upvalue |-> "GetUpvalue", Global |-> "LoadGlobal"][r[1]], r[2]>>
StoreName(c, r) == c ++ <<[Local |-> "StoreLocal", Upvalue |-> "SetUpvalue"][r[1]], r[2]>>

\* The target of an assignment, and the error when there is none.
Target(c, x) ==
    LET res == Resolve(c, x)
    IN IF res.r = <<>> THEN [c |-> Record(res.c, "UndeclaredAssign"), r |-> <<>>]
       ELSE IF res.r[1] = "Global" THEN [c |-> Record(res.c, "AssignToBuiltin"), r |-> <<>>]
       ELSE res

\* Store the value on top in the name x and drop it.
StorePop(c, x) ==
    LET target == Target(c, x)
    IN (IF target.r = <<>> THEN target.c ELSE StoreName(target.c, target.r)) ++ <<"Pop">>

-----------------------------------------------------------------------------
(* Hoisting.  A declaration in the middle of an expression would put its    *)
(* local above values the expression is still using.  Such names get their  *)
(* slot where the scope starts, and the declaration becomes a store.        *)
RECURSIVE Nested(_)
Nested(e) ==
    LET inner == FlattenSeq([i \in DOMAIN e.kids |-> Nested(e.kids[i])])
    IN CASE e.t \in {"Scope", "Fn", "While", "For", "Match"} -> <<>>
         [] e.t = "Decl" -> LeafNames(e.pat) \o inner
         [] OTHER -> inner

\* A declaration that is a statement of the block keeps its place.
NestedInBlock(es) ==
    FlattenSeq([i \in DOMAIN es |-> Nested(IF es[i].t = "Decl" THEN es[i].kids[1] ELSE es[i])])

Hoisted(c) == Last(Current(c).hoisted)
HoistName(c, x) ==
    LET d == Declare(c ++ <<"PushNull">>, x)
        n == Len(Current(c).hoisted)
    IN IF x \in DOMAIN Hoisted(c) THEN c
       ELSE [d EXCEPT !.fs[Len(d.fs)].hoisted[n] = (x :> LastSlot(d)) @@ @]
Hoist(c, names) ==
    LET after[i \in 0..Len(names)] == IF i = 0 THEN c ELSE HoistName(after[i - 1], names[i])
    IN after[Len(names)]

-----------------------------------------------------------------------------
(* Taking a value apart.  The value is on top of the stack.                 *)
FieldKeys(pat) == [i \in DOMAIN pat.fields |-> <<"LoadConst", StrV(pat.fields[i].key)>>]

LoadRest(c, pat, src) ==
    LET from == c ++ <<"LoadLocal", src>>
    IN IF pat.p = "Arr"
       THEN from ++ <<"LoadConst", IntV(Len(pat.items))>> ++ <<"SliceFrom">>
       ELSE Emit(from, FieldKeys(pat)) ++ <<"MakeArray", Len(pat.fields)>> ++ <<"ObjRest">>

\* The parts of a pattern as <<index, pattern>>, `_` elements left out.
Parts(pat) ==
    IF pat.p = "Obj" THEN [i \in DOMAIN pat.fields |-> <<StrV(pat.fields[i].key), pat.fields[i].pat>>]
    ELSE SelectSeq([i \in DOMAIN pat.items |-> <<IntV(i - 1), pat.items[i]>>],
                   LAMBDA part : part[2] # PWild)

LoadPart(c, src, index) == Emit(c, <<<<"LoadLocal", src>>, <<"LoadConst", index>>, <<"IndexGet">>>>)

RECURSIVE Destructure(_, _), AssignPattern_(_, _)
(* Declare the names of a pattern.                                          *)
Destructure(c, pat) ==
    LET src == SlotOf(Height(c) - 1)
        todo == Parts(pat)
        after[i \in 0..Len(todo)] ==
            IF i = 0 THEN Declare(c, "") ELSE Destructure(LoadPart(after[i - 1], src, todo[i][1]), todo[i][2])
        parts == after[Len(todo)]
    IN CASE pat.p = "Wild" -> c ++ <<"Pop">>
         [] pat.p = "Name" -> Declare(c, pat.name)
         [] OTHER -> IF pat.rest = "" THEN parts ELSE Declare(LoadRest(parts, pat, src), pat.rest)

(* Store into names that exist already; the value itself is dropped.        *)
AssignPattern_(c, pat) ==
    LET src == SlotOf(Height(c) - 1)
        todo == Parts(pat)
        after[i \in 0..Len(todo)] ==
            IF i = 0 THEN Declare(c, "") ELSE AssignPattern_(LoadPart(after[i - 1], src, todo[i][1]), todo[i][2])
        parts == after[Len(todo)]
        all == (IF pat.rest = "" THEN parts ELSE StorePop(LoadRest(parts, pat, src), pat.rest))
                 ++ <<"Pop">>
    IN CASE pat.p = "Wild" -> c ++ <<"Pop">>
         [] pat.p = "Name" -> StorePop(c, pat.name)
         [] OTHER -> [all EXCEPT !.fs[Len(all.fs)].locals = Front(@)]

-----------------------------------------------------------------------------
(* The test of a match arm, on the value in slot src.  It falls through,    *)
(* with the names bound, when the value matches; otherwise it leaves by one *)
(* of the `fails`, the outcome of the last test still on the stack.         *)
OrFail(c) ==
    LET j == c ++ <<"JumpIfFalse", 0>>
    IN [j EXCEPT !.fails = Append(@, Here(j))] ++ <<"Pop">>

TestType(c, src, tag) ==
    OrFail(Emit(c, <<<<"LoadLocal", src>>, <<"TypeTest", tag>>>>)) ++ <<"Pop">>
TestAgainst(c, src, op, v) ==
    OrFail(Emit(c, <<<<"LoadLocal", src>>, <<"LoadConst", v>>, <<op>>>>))

RECURSIVE MatchTest(_, _, _)
MatchPart(c, src, part) ==
    LET loaded == LoadPart(c, src, part[1])
        slot == SlotOf(Height(loaded) - 1)
    IN IF part[2] = PShort THEN Declare(loaded, part[1][2])
       ELSE MatchTest(Declare(loaded, ""), part[2], slot)

\* One alternative that is not the last: a match leaves for the end.
MatchAlternative(acc, alt, src) ==
    LET t == MatchTest([acc.c EXCEPT !.fails = <<>>], alt, src) ++ <<"Jump", 0>>
    IN [c |-> [PatchAll(t, t.fails) EXCEPT !.fails = acc.c.fails],
        out |-> Append(acc.out, Here(t))]

MatchOr(c, alts, src) ==
    LET after[i \in 0..(Len(alts) - 1)] ==
            IF i = 0 THEN [c |-> c, out |-> <<>>] ELSE MatchAlternative(after[i - 1], alts[i], src)
        before == after[Len(alts) - 1]
        legal == \A i \in DOMAIN alts : alts[i].p \in {"Lit", "Range", "Wild"}
    IN IF legal THEN PatchAll(MatchTest(before.c, Last(alts), src), before.out)
       ELSE Record(c, "InvalidMatchPattern")

MatchTest(c, pat, src) ==
    LET arr == OrFail(Emit(TestType(c, src, 4),
                 <<<<"LoadLocal", src>>, <<"Len">>, <<"LoadConst", IntV(Len(pat.items))>>,
                   <<IF pat.rest = "" THEN "Eq" ELSE "Ge">>>>))
        todo == Parts(pat)
        after[i \in 0..Len(todo)] ==
            IF i > 0 THEN MatchPart(after[i - 1], src, todo[i])
            ELSE IF pat.p = "Arr" THEN arr ELSE TestType(c, src, 5)
        parts == after[Len(todo)]
    IN CASE pat.p = "Wild" -> c
         [] pat.p = "Name" -> Declare(c ++ <<"LoadLocal", src>>, pat.name)
         [] pat.p = "Lit" -> TestAgainst(c, src, "Eq", pat.v)
         [] pat.p = "Range" ->
              TestAgainst(TestAgainst(TestType(c, src, 8), src, "Ge", pat.from),
                          src, IF pat.incl THEN "Le" ELSE "Lt", pat.to)
         [] pat.p = "Or" -> MatchOr(c, pat.alts, src)
         [] OTHER -> IF pat.rest = "" THEN parts
                     ELSE Declare(LoadRest(parts, pat, src), pat.rest)

-----------------------------------------------------------------------------
(* Expressions.  Expr(c, e, tail) leaves the value of e on the stack; a     *)
(* call in tail position gives up its frame.                                *)
RECURSIVE Expr(_, _, _)
Value(c, e) == Expr(c, e, FALSE)
Values_(c, es) ==
    LET after[i \in 0..Len(es)] == IF i = 0 THEN c ELSE Value(after[i - 1], es[i])
    IN after[Len(es)]

\* The optional value of break, return and yield.
ValueOrNull(c, es) == IF es = <<>> THEN c ++ <<"PushNull">> ELSE Value(c, es[1])

Statements(c, es) ==
    LET after[i \in 0..Len(es)] ==
            IF i = 0 THEN c ELSE CHOOSE r \in {Value(d, es[i]) ++ <<"Pop">> : d \in {after[i - 1]}} : TRUE
    IN after[Len(es)]

BlockValue(c, b, tail) ==
    IF b.tail THEN Expr(Statements(c, Front(b.kids)), Last(b.kids), tail)
    ELSE Statements(c, b.kids) ++ <<"PushNull">>

CompileScope(c, b, tail) ==
    EndScope(BlockValue(Hoist(BeginScope(c), NestedInBlock(b.kids)), b, tail))

\* Elements, spread or not, onto the array on the stack.
Element(c, e) ==
    IF e.t = "Spread" THEN Value(c, e.kids[1]) ++ <<"ArrayExtend">>
    ELSE Value(c, e) ++ <<"ArrayPush">>
Elements_(c, es) ==
    LET after[i \in 0..Len(es)] == IF i = 0 THEN c ++ <<"MakeArray", 0>> ELSE Element(after[i - 1], es[i])
    IN after[Len(es)]

Spreads(es) == \E i \in DOMAIN es : es[i].t = "Spread"

CompileArray(c, es) ==
    IF Spreads(es) \/ Len(es) >= SlotRange THEN Elements_(c, es)
    ELSE Values_(c, es) ++ <<"MakeArray", Len(es)>>

\* A member put into the object on the stack.
Member(c, name, e) ==
    IF name = "..." THEN Value(c, e) ++ <<"ObjectMerge">>
    ELSE Value(c ++ <<"Dup">> ++ <<"LoadConst", StrV(name)>>, e) ++ <<"IndexSet">> ++ <<"Pop">>

CompileObject(c, e) ==
    LET n == Len(e.keys)
        oneByOne == "..." \in ToSet(e.keys) \/ n >= SlotRange
        after[i \in 0..n] ==
            IF i = 0 THEN IF oneByOne THEN c ++ <<"MakeObject", 0>> ELSE c
            ELSE IF oneByOne THEN Member(after[i - 1], e.keys[i], e.kids[i])
            ELSE Value(after[i - 1] ++ <<"LoadConst", StrV(e.keys[i])>>, e.kids[i])
    IN IF oneByOne THEN after[n] ELSE after[n] ++ <<"MakeObject", n>>

CompileCall(c, e, tail) ==
    LET args == Tail(e.kids)
        op == IF tail THEN "TailCall" ELSE "Call"
    IN IF Spreads(args)
       THEN Elements_(Value(c, e.kids[1]), args) ++ <<"CallSpread">>
       ELSE IF Len(args) >= SlotRange THEN Record(c, "TooManyConstants")
       ELSE Values_(c, e.kids) ++ <<op, Len(args)>>

Compound(op) == IF op = "Add" THEN "AddAssign" ELSE op

CompileAssign(c, e) ==
    LET target == Target(c, e.name)
        old == IF e.op = "" THEN target.c ELSE LoadName(target.c, target.r)
        new == Value(old, e.kids[1])
    IN IF target.r = <<>> THEN Value(target.c, e.kids[1])
       ELSE StoreName(IF e.op = "" THEN new ELSE new ++ <<Compound(e.op)>>, target.r)

CompileIndexAssign(c, e) ==
    LET place == Values_(c, <<e.kids[1], e.kids[2]>>)
        old == IF e.op = "" THEN place ELSE place ++ <<"Dup2">> ++ <<"IndexGet">>
        new == Value(old, e.kids[3])
    IN (IF e.op = "" THEN new ELSE new ++ <<Compound(e.op)>>) ++ <<"IndexSet">>

\* The value of a declaration is what was bound.
CompileDecl(c, e) ==
    LET pat == e.pat
        init == e.kids[1]
        value == Value(c, init)
        named == pat.p = "Name"
        leaves == LeafNames(pat)
        ahead == Declare(c ++ <<"PushNull">>, pat.name)
    IN CASE named /\ pat.name \in DOMAIN Hoisted(c) ->
              value ++ <<"StoreLocal", Hoisted(c)[pat.name]>>
         [] named /\ pat.name \notin DOMAIN Hoisted(c) ->
              IF init.t = "Fn" THEN Value(ahead, init) ++ <<"StoreLocal", LastSlot(ahead)>>
              ELSE Declare(value, pat.name) ++ <<"Dup">>
         [] pat.p = "Wild" -> value
         [] OTHER ->
              IF leaves # <<>> /\ leaves[1] \in DOMAIN Hoisted(c)
              THEN AssignPattern_(value ++ <<"Dup">>, pat)
              ELSE Destructure(value, pat) ++ <<"LoadLocal", SlotOf(Height(value) - 1)>>

\* `and` and `or` keep the left value when it decides.
CompileShort(c, jump, l, r) ==
    LET test == Value(c, l) ++ <<jump, 0>>
    IN Patch(Value(test ++ <<"Pop">>, r), Here(test))

CompileIf(c, es, tail) ==
    LET cond == Value(c, es[1])
        test == cond ++ <<"JumpIfFalse", 0>>
        then == Expr(test ++ <<"Pop">>, es[2], tail) ++ <<"Jump", 0>>
        else == Patch(AtHeight(then, Height(cond)), Here(test)) ++ <<"Pop">>
    IN Patch(Expr(else, es[3], tail), Here(then))

-----------------------------------------------------------------------------
(* Loops.  A loop keeps its value in a slot; `base` is the height to which  *)
(* break, continue and the end of an iteration cut the stack.               *)
OpenLoop(c, e, name) ==
    Declare(BeginScope(c) ++ (IF e.arr THEN <<"MakeArray", 0>> ELSE <<"PushNull">>), name)

PushLoop(c, e, slot) ==
    [c EXCEPT !.fs[Len(c.fs)].loops = Append(@,
        [slot |-> slot, base |-> Height(c), arr |-> e.arr, exits |-> <<>>, skip |-> FALSE,
         start |-> Here(c) + 1])]

Collect(c, arr, slot) ==
    IF arr THEN c ++ <<"IterAppend", slot>> ELSE c ++ <<"StoreLocal", slot>> ++ <<"Pop">>

\* The breaks of the loop land here, where its value is loaded.
CloseLoop(c, slot) ==
    LET out == PatchAll(c, Last(Current(c).loops).exits)
    IN EndScope([out EXCEPT !.fs[Len(out.fs)].loops = Front(@)] ++ <<"LoadLocal", slot>>)

CompileWhile(c, e) ==
    LET open == OpenLoop(c, e, "$while_result")
        slot == LastSlot(open)
        loop == PushLoop(Hoist(open, Nested(e.kids[1])), e, slot)
        cond == Value(loop, e.kids[1])
        test == cond ++ <<"JumpIfFalse", 0>>
        body == Collect(Value(test ++ <<"Pop">>, e.kids[2]), e.arr, slot)
                  ++ <<"Loop", Here(loop) + 1>>
    IN CloseLoop(Patch(AtHeight(body, Height(cond)), Here(test)) ++ <<"Pop">>, slot)

CompileFor(c, e) ==
    LET open == OpenLoop(c, e, "$for_result")
        slot == LastSlot(open)
        iter == Value(Hoist(open, Nested(e.kids[1])), e.kids[1]) ++ <<"MakeIter">>
        loop == PushLoop(Declare(iter, "$for_iter"), e, slot)
        n == Len(e.vars)
        next == loop ++ <<IF n = 1 THEN "IterNext" ELSE "IterNext2", 0>>
        top == Height(next) - 1
        after[i \in 0..n] ==
            IF i = 0 THEN BeginScope(next) ELSE DeclareAt(after[i - 1], e.vars[i], SlotOf(top - (n - i)))
        body == Collect(Value(after[n], e.kids[2]), e.arr, slot) ++ <<"Unwind", SlotOf(Height(loop))>>
        again == LeaveScope(AtHeight(body, Height(loop))) ++ <<"Loop", Here(loop) + 1>>
    IN CloseLoop(Patch(AtHeight(again, Height(loop)), Here(next)), slot)

\* Wrong: a break in the value of a break means the same loop again.
InnermostLoop(c) == Len(Current(c).loops)

\* The loop that break and continue mean: the innermost that is not about to
\* be left, its break still computing a value.
TargetLoop(c) ==
    LET loops == Current(c).loops IN Max({0} \cup {i \in DOMAIN loops : ~loops[i].skip})

SetSkip(c, i, skip) == [c EXCEPT !.fs[Len(c.fs)].loops[i].skip = skip]

CompileBreak(c, es) ==
    LET i == TargetLoop(c)
        loop == Current(c).loops[i]
        value == IF es = <<>> /\ loop.arr THEN SetSkip(c, i, TRUE)
                 ELSE ValueOrNull(SetSkip(c, i, TRUE), es)
        kept == IF es = <<>> /\ loop.arr THEN value ELSE Collect(value, loop.arr, loop.slot)
        out == SetSkip(kept, i, FALSE) ++ <<"Unwind", SlotOf(loop.base)>> ++ <<"Jump", 0>>
        left == [out EXCEPT !.fs[Len(out.fs)].loops[i].exits = Append(@, Here(out))]
    IN IF i = 0 THEN Record(c, "BreakOutsideLoop") ++ <<"PushNull">>
       ELSE AtHeight(left, Height(c) + 1)

CompileContinue(c) ==
    LET i == TargetLoop(c)
        loop == Current(c).loops[i]
        kept == IF loop.arr THEN c ELSE Collect(c ++ <<"PushNull">>, FALSE, loop.slot)
        out == kept ++ <<"Unwind", SlotOf(loop.base)>> ++ <<"Loop", loop.start>>
    IN IF i = 0 THEN Record(c, "ContinueOutsideLoop") ++ <<"PushNull">>
       ELSE AtHeight(out, Height(c) + 1)

-----------------------------------------------------------------------------
\* Wrong: a call that ends the body gives up the frame that has the handler.
TryBodyInTail(c, e) == Expr(c, e, TRUE)

\* The body of a try is never in tail position.
TryBody(c, e) == Value(c, e)

\* PushTry names the handler; PopTry is on the way out without an error.
CompileTry(c, e) ==
    LET push == c ++ <<"PushTry", 0>>
        body == TryBody(push, e.kids[1])
        done == body ++ <<"PopTry">> ++ <<"Jump", 0>>
        caught == AtHeight(Patch(done, Here(push)), Height(body))
        handler == IF e.catch = <<>> THEN caught ++ <<"Pop">> ++ <<"PushNull">>
                   ELSE EndScope(Value(Declare(BeginScope(caught), e.catch[1]), e.catch[2]))
    IN AtHeight(Patch(handler, Here(done)), Height(body))

\* What follows is never reached, or finds one value.
OneValue(c, after) == AtHeight(after, Height(c) + 1)

(* Match.  The subject and the result have slots; every arm starts and ends *)
(* at the height above them.                                                *)
Guarded(c, guard) == IF guard = <<>> THEN c ELSE OrFail(Value(c, guard[1]))

ArmTest(c, arm, src) ==
    LET names == FlattenSeq([i \in DOMAIN arm.guard |-> Nested(arm.guard[i])]) \o Nested(arm.body)
    IN Guarded(MatchTest(Hoist(BeginScope(c), names), arm.pat, src), arm.guard)

ArmBody(c, body, slots, tail) ==
    LET kept == Expr(c, body, tail) ++ <<"StoreLocal", slots.result>> ++ <<"Pop">>
                  ++ <<"Unwind", SlotOf(slots.base)>>
    IN LeaveScope(AtHeight(kept, slots.base) ++ <<"Jump", 0>>)

CloseArm(c, fails, base) ==
    [AtHeight(PatchAll(c, c.fails) ++ <<"Unwind", SlotOf(base)>>, base) EXCEPT !.fails = fails]

AddArm(acc, c, base) == [c |-> CloseArm(c, acc.c.fails, base), out |-> Append(acc.out, Here(c))]

CompileArm(acc, arm, slots, tail) ==
    AddArm(acc, ArmBody(ArmTest([acc.c EXCEPT !.fails = <<>>], arm, slots.subject), arm.body, slots, tail),
           slots.base)

Exhaustive(arms) ==
    LET last == Last(arms) IN arms # <<>> /\ last.guard = <<>> /\ last.pat.p \in {"Wild", "Name"}

CompileArms(c, arms, slots, tail) ==
    LET after[i \in 0..Len(arms)] ==
            IF i = 0 THEN [c |-> c, out |-> <<>>]
            ELSE CHOOSE r \in {CompileArm(acc, arms[i], slots, tail) : acc \in {after[i - 1]}} : TRUE
    IN after[Len(arms)]

\* Every arm that matched lands behind the last, where the result is loaded.
CloseMatch(acc, arms, slots) ==
    LET none == IF Exhaustive(arms) THEN acc.c ELSE acc.c ++ <<"NoMatchError">>
    IN EndScope(PatchAll(none, acc.out) ++ <<"LoadLocal", slots.result>>)

CompileMatch(c, e, tail) ==
    LET subject == Value(Hoist(BeginScope(c), Nested(e.kids[1])), e.kids[1])
        h == Height(subject)
        slots == [subject |-> SlotOf(h - 1), result |-> SlotOf(h), base |-> h + 1]
        open == Declare(Declare(subject, "") ++ <<"PushNull">>, "$match_result")
    IN CloseMatch(CompileArms(open, e.arms, slots, tail), e.arms, slots)

-----------------------------------------------------------------------------
(* Jump threading: a forward jump to an unconditional jump goes where that  *)
(* one goes.                                                                *)
ThreadJumps(code) ==
    LET follow[i \in 1..(Len(code) + 1)] ==
            IF i <= Len(code) /\ code[i].op = "Jump" THEN follow[code[i].a] ELSE i
    IN [i \in DOMAIN code |->
          IF code[i].op \in {"Jump", "JumpIfFalse", "JumpIfTrue", "JumpIfNotNull"}
          THEN [code[i] EXCEPT !.a = follow[@]] ELSE code[i]]

\* The function just compiled leaves the stack of functions for the table.
Finish(c, arity, rest, gen) ==
    LET fc == Current(c)
        fn == [arity |-> arity, rest |-> rest, gen |-> gen, code |-> ThreadJumps(fc.code), ups |-> fc.ups]
    IN [c EXCEPT !.fs = Front(@), !.table = Append(@, fn)]

Param(c, x) == Declare(AtHeight(c, Height(c) + 1), x)

\* A missing argument is null, and null asks for the default.
Default(c, slot, e) ==
    LET test == c ++ <<"LoadLocal", slot>> ++ <<"JumpIfNotNull", 0>>
    IN Patch(Value(test, e) ++ <<"StoreLocal", slot>> ++ <<"Pop">>, Here(test)) ++ <<"Pop">>

(* The frame of a function: slot 0 its closure, then the parameters, then   *)
(* the rest array.                                                          *)
CompileFn(c, e) ==
    LET n == Len(e.params)
        open == Declare([c EXCEPT !.fs = Append(@, NewFunction)], "")
        params[i \in 0..n] ==
            IF i = 0 THEN open
            ELSE Param(params[i - 1], IF e.params[i].p = "Name" THEN e.params[i].name ELSE "")
        rest == IF e.rest = "" THEN params[n] ELSE Param(params[n], e.rest)
        defaults[i \in 0..n] ==
            IF i = 0 THEN rest
            ELSE IF e.defaults[i] = <<>> THEN defaults[i - 1]
            ELSE Default(defaults[i - 1], i, e.defaults[i][1])
        taken[i \in 0..n] ==
            IF i = 0 THEN defaults[n]
            ELSE IF e.params[i].p \in {"Name", "Wild"} THEN taken[i - 1]
            ELSE Destructure(taken[i - 1] ++ <<"LoadLocal", i>>, e.params[i])
        done == Finish(Expr(taken[n], e.kids[1], TRUE) ++ <<"Return">>, n, e.rest # "", e.gen)
    IN done ++ <<"Closure", [fn |-> Len(done.table), ups |-> Last(done.table).ups]>>

CompileIdent(c, x) ==
    LET res == Resolve(c, x)
    IN IF res.r = <<>> THEN Record(c, "UndeclaredVariable") ++ <<"PushNull">>
       ELSE LoadName(res.c, res.r)

Lower(c, e, tail) ==
    LET one == Value(c, e.kids[1])
        after(op) == OneValue(c, one ++ <<op>>)
    IN CASE e.t = "Lit" -> c ++ <<"LoadConst", e.v>>
         [] e.t = "Null" -> c ++ <<"PushNull">>
         [] e.t = "Ident" -> CompileIdent(c, e.name)
         [] e.t = "BinOp" ->
              (CASE e.op = "And" -> CompileShort(c, "JumpIfFalse", e.kids[1], e.kids[2])
                 [] e.op = "Or" -> CompileShort(c, "JumpIfTrue", e.kids[1], e.kids[2])
                 [] OTHER -> Values_(c, e.kids) ++ <<e.op>>)
         [] e.t = "UnOp" -> one ++ <<e.op>>
         [] e.t = "Block" -> BlockValue(c, e, tail)
         [] e.t = "Scope" -> CompileScope(c, e, tail)
         [] e.t = "Decl" -> CompileDecl(c, e)
         [] e.t = "Assign" -> CompileAssign(c, e)
         [] e.t = "AssignPattern" -> AssignPattern_(one ++ <<"Dup">>, e.pat)
         [] e.t = "If" -> CompileIf(c, e.kids, tail)
         [] e.t = "While" -> CompileWhile(c, e)
         [] e.t = "For" -> CompileFor(c, e)
         [] e.t = "Range" ->
              Values_(c, e.kids) ++ <<"MakeRange", [n |-> Len(e.kids), incl |-> e.incl]>>
         [] e.t = "Break" -> CompileBreak(c, e.kids)
         [] e.t = "Continue" -> CompileContinue(c)
         [] e.t = "Return" -> ValueOrNull(c, e.kids) ++ <<"Return">>
         [] e.t = "Yield" -> OneValue(c, ValueOrNull(c, e.kids) ++ <<"Yield">>)
         [] e.t = "Array" -> CompileArray(c, e.kids)
         [] e.t = "Object" -> CompileObject(c, e)
         [] e.t = "Spread" -> Record(c, "SpreadInInvalidPosition") ++ <<"PushNull">>
         [] e.t = "Template" -> Values_(c, e.kids) ++ <<"ConcatN", Len(e.kids)>>
         [] e.t = "Index" -> Values_(c, e.kids) ++ <<"IndexGet">>
         [] e.t = "IndexAssign" -> CompileIndexAssign(c, e)
         [] e.t = "Call" -> CompileCall(c, e, tail)
         [] e.t = "Fn" -> CompileFn(c, e)
         [] e.t = "Try" -> CompileTry(c, e)
         [] e.t \in {"Raise", "Import", "Spawn", "Go"} -> after(e.t)
         [] e.t = "Match" -> CompileMatch(c, e, tail)

\* TLC evaluates c before the compilation of e, not somewhere within it.
Expr(c, e, tail) == CHOOSE r \in {Lower(d, e, tail) : d \in {c}} : TRUE

-----------------------------------------------------------------------------
(* A unit: its functions, the last of them the main one, and the errors     *)
(* that keep it from running.  A main program and a module end in Return.   *)
(* A line of the REPL, after lines that left the locals `existing`, ends in *)
(* Halt, which leaves the frame where it is; the locals it declares are     *)
(* kept for the next line.                                                  *)
MainBody(c, block) == Expr(Hoist(c, NestedInBlock(block.kids)), block, FALSE)

Known(existing) ==
    LET after[i \in 0..Len(existing)] ==
            IF i = 0 THEN Declare(NewCompiler, "")
            ELSE DeclareAt(AtHeight(after[i - 1], existing[i].slot + 1), existing[i].name, existing[i].slot)
    IN AtHeight(after[Len(existing)], 1 + Len(existing))

NewLocals(locals, n) ==
    [i \in 1..(Len(locals) - n) |-> [name |-> locals[n + i].name, slot |-> locals[n + i].slot]]

UnitCode(c, n) ==
    LET done == Finish(c, 0, FALSE, FALSE)
    IN [fns |-> done.table, errs |-> done.errs, locals |-> NewLocals(Current(c).locals, n)]

CompileUnit(block, existing, end) ==
    UnitCode(MainBody(Known(existing), block) ++ <<end>>, Len(existing) + 1)
=============================================================================
