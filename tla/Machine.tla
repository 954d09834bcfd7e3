------------------------------- MODULE Machine -------------------------------
(***************************************************************************)
(* The virtual machine that runs compiled tigr (src/src/vm/vm.rs): its     *)
(* value stack, its call frames, its upvalue cells, its try handlers, and  *)
(* the generators that are coroutines with a stack of their own.           *)
(*                                                                         *)
(* One step is one instruction, with everything the instruction does: a    *)
(* raise unwinds frames and generators to its handler in the step that     *)
(* raised.  A run starts from a program of `Keys`: a main program, or the  *)
(* lines of a REPL session.  What is compiled at once is a unit and goes   *)
(* to the `table`: a main program or an imported module, folded first      *)
(* (run_source_inner in src/src/vm/mod.rs), or a line of a session.             *)
(*                                                                         *)
(* Slots count from 0 and stack positions from 1, so slot s of a frame is  *)
(* stack[base + s + 1].  Green threads, actors and sockets have modules of *)
(* their own and no instruction here.                                      *)
(***************************************************************************)
EXTENDS Compiler, Collector

CONSTANTS Keys,         \* the names of the programs
          Source,       \* the programs, by name: [kind, lines]
          Modules,      \* what `import` finds: a function from names to blocks
          MaxDepth      \* max_call_depth: the frames a call may stack up

ASSUME MaxDepthAssumption == MaxDepth \in Nat \ {0}

VARIABLES
    script,     \* the program that runs
    table,      \* the units compiled so far: functions, errors, locals
    co,         \* the running coroutine: id, frames, stack, open upvalues
    resumers,   \* the coroutines that wait for a generator, innermost last
    resumed,    \* the generator that runs, or 0
    cells,      \* upvalue cells: open on a slot of a coroutine, or closed on a value
    objects,    \* see Values
    imports,    \* modules already evaluated, and those being evaluated
    collector,  \* records and cells that are live, and how many bring the collector
    session     \* the lines run, the locals they left, and what they gave

vars == <<script, table, co, resumers, resumed, cells, objects, imports, collector, session>>

\* What an instruction may change; operators below take and return one.
World == [table |-> table, co |-> co, resumers |-> resumers, gen |-> resumed, cells |-> cells, heap |-> objects,
          imports |-> imports]

Frame(fn, base, kind) == [fn |-> fn, ip |-> 1, base |-> base, tries |-> <<>>, kind |-> kind]
Coroutine(id, frames, stack) == [id |-> id, frames |-> frames, stack |-> stack, open |-> {}]

\* A closure of function fn of a unit; a unit's main function is its last.
ClosureObj(unit, fn, ups) == [k |-> "fn", unit |-> unit, fn |-> fn, ups |-> ups]

\* The body of every generator's `next`: the handle is its only upvalue.
GeneratorNext ==
    [arity |-> 0, rest |-> FALSE, gen |-> FALSE, ups |-> <<[local |-> FALSE, index |-> 1]>>,
     code |-> <<[op |-> "GetUpvalue", a |-> 1, h |-> 1], [op |-> "Resume", a |-> 0, h |-> 2],
                [op |-> "Return", a |-> 0, h |-> 2]>>]

-----------------------------------------------------------------------------
(* The world's parts *)
TopFrame(w) == Last(w.co.frames)
ClosureOf(w) == w.heap[TopFrame(w).fn]
FunctionAt(w, fn) == w.table[w.heap[fn].unit].fns[w.heap[fn].fn]
FunctionOf(w) == FunctionAt(w, TopFrame(w).fn)
Base(w) == TopFrame(w).base
Height_(w) == Len(w.co.stack) - Base(w)
Peek(w, n) == w.co.stack[Len(w.co.stack) - n]
Top_(w) == Peek(w, 0)

Push(w, v) == [w EXCEPT !.co.stack = Append(@, v)]
Drop(w, n) == [w EXCEPT !.co.stack = SubSeq(@, 1, Len(@) - n)]
Replace(w, n, v) == Push(Drop(w, n), v)
Local(w, slot) == w.co.stack[Base(w) + slot + 1]
SetIp(w, ip) == [w EXCEPT !.co.frames[Len(w.co.frames)].ip = ip]
Advanced(w) == SetIp(w, TopFrame(w).ip + 1)
WithHeap(w, res) == [w EXCEPT !.heap = res.heap]

\* Close the cells on slots n and above, and cut the stack to n values.
CloseUpvalues(w, n) ==
    LET closing == {i \in w.co.open : w.cells[i].slot >= n}
    IN [w EXCEPT !.cells = [i \in DOMAIN @ |->
                               IF i \in closing THEN [open |-> FALSE, v |-> w.co.stack[w.cells[i].slot + 1]]
                               ELSE @[i]],
                 !.co.open = @ \ closing]
Cut(w, n) == [CloseUpvalues(w, n) EXCEPT !.co.stack = SubSeq(@, 1, n)]

\* The stack that owns an open cell: the running one, or one that waits
\* under a generator.  <<>> is the case the code does not survive.
StackFor(w, owner) ==
    LET waiting == {i \in DOMAIN w.resumers : w.resumers[i].co.id = owner}
    IN IF w.co.id = owner THEN w.co.stack
       ELSE IF waiting = {} THEN <<>> ELSE w.resumers[Max(waiting)].co.stack

UpvalueGet(w, cell) ==
    IF w.cells[cell].open THEN StackFor(w, w.cells[cell].owner)[w.cells[cell].slot + 1]
    ELSE w.cells[cell].v

UpvalueSet(w, cell, v) ==
    LET owner == w.cells[cell].owner
        at == w.cells[cell].slot + 1
        waiting == {i \in DOMAIN w.resumers : w.resumers[i].co.id = owner}
    IN IF ~w.cells[cell].open THEN [w EXCEPT !.cells[cell].v = v]
       ELSE IF w.co.id = owner THEN [w EXCEPT !.co.stack[at] = v]
       ELSE [w EXCEPT !.resumers[Max(waiting)].co.stack[at] = v]

\* Wrong: every closure gets a cell of its own.
CaptureAnew(w, slot) ==
    [w |-> [w EXCEPT !.cells = Append(@, [open |-> TRUE, owner |-> w.co.id, slot |-> slot]),
                     !.co.open = @ \cup {Len(w.cells) + 1}],
     cell |-> Len(w.cells) + 1]

\* Wrong: the closure gets the place of a cell that is still to come.
CaptureNext(w, slot) ==
    [w |-> [w EXCEPT !.cells = Append(@, [open |-> TRUE, owner |-> w.co.id, slot |-> slot]),
                     !.co.open = @ \cup {Len(w.cells) + 1}],
     cell |-> Len(w.cells) + 2]

\* The cell of a slot of the running coroutine: [w, cell].
Capture(w, slot) ==
    LET known == {i \in w.co.open : w.cells[i].slot = slot}
        i == Len(w.cells) + 1
    IN IF known # {} THEN [w |-> w, cell |-> CHOOSE j \in known : TRUE]
       ELSE [w |-> [w EXCEPT !.cells = Append(@, [open |-> TRUE, owner |-> w.co.id, slot |-> slot]),
                             !.co.open = @ \cup {i}],
             cell |-> i]

-----------------------------------------------------------------------------
(* Generators *)
IterDone == ObjectObj(<<<<"done", BoolV(TRUE)>>>>)
IterYield(v) == ObjectObj(<<<<"done", BoolV(FALSE)>>, <<"value", v>>>>)
PushNew(w, obj) == Push([w EXCEPT !.heap = Append(@, obj)], ObjV(Len(w.heap) + 1))

\* A call of a `gen fn`: its frame becomes a suspended coroutine, whose id is
\* its place in the heap, behind an iterator object.
MakeGenerator(w, fn, base) ==
    LET id == Len(w.heap) + 1
        stack == SubSeq(w.co.stack, base + 1, Len(w.co.stack))
        state == [k |-> "gen", status |-> "suspended",
                  co |-> Coroutine(id, <<Frame(fn, 0, <<"Function">>)>>, stack)]
        next == ClosureObj(1, 1, <<Len(w.cells) + 1>>)
    IN PushNew([w EXCEPT !.co.stack = SubSeq(@, 1, base),
                         !.heap = @ \o <<state, next>>,
                         !.cells = Append(@, [open |-> FALSE, v |-> GenV(id)])],
               ObjectObj(<<<<"next", FnV(id + 1)>>>>))

\* Wrong: the handle keeps its status.
ParkAsRunning(w, status) ==
    LET ctx == Last(w.resumers)
    IN [w EXCEPT !.heap[w.gen].co = w.co, !.co = ctx.co, !.gen = ctx.gen, !.resumers = Front(@)]

\* The generator that runs goes to its handle, and its resumer comes back.
ParkGenerator(w, status) ==
    LET ctx == Last(w.resumers)
    IN [w EXCEPT !.heap[w.gen].status = status, !.heap[w.gen].co = w.co,
                 !.co = ctx.co, !.gen = ctx.gen, !.resumers = Front(@)]

-----------------------------------------------------------------------------
(* Raising *)
RECURSIVE TryCatch(_, _)
(* [caught, w]: the frames are unwound to a handler, which finds the error  *)
(* on the stack; or to nothing, or to the frame of the REPL.                *)
TryCatch(w, v) ==
    LET f == TopFrame(w)
        handler == Last(f.tries)
        n == Len(w.co.frames)
        under == Push(Cut(w, handler.len), v)
        popped == [Cut(w, f.base) EXCEPT !.co.frames = Front(@),
                       !.imports.busy = IF f.kind[1] = "Import" THEN @ \ {f.kind[2]} ELSE @]
    IN IF w.co.frames = <<>> THEN [caught |-> FALSE, w |-> w]
       ELSE IF f.tries # <<>>
       THEN [caught |-> TRUE,
             w |-> [under EXCEPT !.co.frames[n].ip = handler.pc, !.co.frames[n].tries = Front(@)]]
       ELSE IF f.kind[1] = "Repl" THEN [caught |-> FALSE, w |-> w]
       ELSE TryCatch(popped, v)

RECURSIVE CatchWithGenerators(_, _)
(* What a generator does not catch, its resumer may.                        *)
CatchWithGenerators(w, v) ==
    LET here == TryCatch(w, v)
    IN IF here.caught \/ here.w.gen = 0 THEN here
       ELSE CatchWithGenerators(ParkGenerator(here.w, "done"), v)

-----------------------------------------------------------------------------
Become(w) ==
    /\ table' = w.table /\ co' = w.co /\ resumers' = w.resumers /\ resumed' = w.gen
    /\ cells' = w.cells /\ objects' = w.heap /\ imports' = w.imports
    /\ collector' = [collector EXCEPT !.live = @ + Len(w.heap) - Len(objects) + Len(w.cells) - Len(cells)]
    /\ script' = script

\* The outcome of a line, and the locals of the session from then on.
Ended(kind, v, w, locals) ==
    session' = [session EXCEPT !.given = Append(@, <<kind, Deep(v, w.heap)>>),
                               !.locals = locals, !.news = <<>>, !.running = FALSE]

IsRepl == Source[script].kind = "repl"
Repl == Frame(0, 0, <<"Repl">>)

\* Wrong: what the line left on the stack stays.
RunFailedUncut(w, v) == Become(w) /\ Ended("raised", v, w, session.locals)

\* An uncaught error ends the run; in the REPL it cuts the stack back to what
\* it was before the line.  (Without coroutines the Repl frame is still there:
\* what start_repl rebuilds when one died in the line is left out.)
RunFailed(w, v) ==
    LET cut == Cut(w, 1 + Len(session.locals))
    IN /\ Become(IF IsRepl THEN [cut EXCEPT !.co.frames[1].tries = <<>>, !.co.frames[1].ip = 1]
                 ELSE w)
       /\ Ended("raised", v, w, session.locals)

Throw(w, v) ==
    LET res == CatchWithGenerators(w, v)
    IN IF res.caught THEN Become(res.w) /\ UNCHANGED session ELSE RunFailed(res.w, v)

\* The closure of the main function of the unit just compiled, and its frame,
\* which goes on top of the stack.
MainClosure(w) == ClosureObj(Len(w.table), Len(Last(w.table).fns), <<>>)
Enter(w, kind) ==
    [w EXCEPT !.heap = Append(@, MainClosure(w)),
              !.co.frames = Append(@, Frame(Len(w.heap) + 1, Len(w.co.stack), kind)),
              !.co.stack = Append(@, FnV(Len(w.heap) + 1))]

Continue_(w) == Become(w) /\ UNCHANGED session

\* An operation that raises, or replaces n operands by its value.
Settle(w, n, res) ==
    IF res.ok THEN Continue_(WithHeap(Replace(w, n, res.v), res)) ELSE Throw(Drop(w, n), ErrV(res.kind))

-----------------------------------------------------------------------------
(* The instruction about to run, and the world past it.                     *)
ShouldCollect == collector.live >= collector.threshold
Instr == FunctionOf(World).code[TopFrame(World).ip]
At(ops) == session.running /\ ~ShouldCollect /\ Instr.op \in ops
After == Advanced(World)

\* The collector runs between two instructions.
CollectGarbage ==
    /\ session.running /\ ShouldCollect
    /\ LET w == Swept(World)
       IN /\ objects' = w.heap
          /\ cells' = w.cells
          /\ collector' = [live |-> Live(w), threshold |-> Threshold(Live(w))]
    /\ UNCHANGED <<script, table, co, resumers, resumed, imports, session>>

\* Code that ends the process: the actor has no outcome to report.
Panic == Become(World) /\ Ended("panic", NullV, World, session.locals)

Load ==
    /\ At({"LoadConst", "LoadLocal", "LoadGlobal", "PushNull", "Dup", "Dup2", "TypeTest"})
    /\ LET w == After
           a == Instr.a
       IN Continue_(CASE Instr.op = "LoadConst" -> Push(w, a)
                      [] Instr.op = "LoadLocal" -> Push(w, Local(w, a))
                      [] Instr.op = "LoadGlobal" -> Push(w, NativeV(a))
                      [] Instr.op = "PushNull" -> Push(w, NullV)
                      [] Instr.op = "Dup" -> Push(w, Top_(w))
                      [] Instr.op = "Dup2" -> Push(Push(w, Peek(w, 1)), Top_(w))
                      [] Instr.op = "TypeTest" -> Push(w, BoolV(TypeTest(a, Top_(w)))))

LoadUpvalue ==
    /\ At({"GetUpvalue"})
    /\ LET cell == ClosureOf(After).ups[Instr.a]
           lost == cells[cell].open /\ StackFor(World, cells[cell].owner) = <<>>
       IN IF lost THEN Panic ELSE Continue_(Push(After, UpvalueGet(After, cell)))

Store ==
    /\ At({"StoreLocal", "SetUpvalue", "Pop"})
    /\ LET w == After
       IN Continue_(CASE Instr.op = "StoreLocal" -> [w EXCEPT !.co.stack[Base(w) + Instr.a + 1] = Top_(w)]
                      [] Instr.op = "SetUpvalue" -> UpvalueSet(w, ClosureOf(w).ups[Instr.a], Top_(w))
                      [] Instr.op = "Pop" -> Drop(w, 1))

Arithmetic ==
    /\ At(BinOpcodes \ Comparisons)
    /\ LET a == Peek(World, 1)
           b == Top_(World)
       IN Settle(After, 2, IF Instr.op = "AddAssign" THEN AddAssign(a, b, objects)
                           ELSE BinaryOp(Instr.op, a, b, objects))

Comparison == At(Comparisons) /\ Settle(After, 2, BinaryOp(Instr.op, Peek(World, 1), Top_(World), objects))

Unary == At({"Negate", "Not", "Len"}) /\ Settle(After, 1, UnaryOp(Instr.op, Top_(World), objects))

Indexing ==
    \/ At({"IndexGet"}) /\ Settle(After, 2, IndexGet(Peek(World, 1), Top_(World), objects))
    \/ At({"IndexSet"}) /\ Settle(After, 3, IndexSet(Peek(World, 2), Peek(World, 1), Top_(World), objects))

TakeRest ==
    \/ At({"SliceFrom"}) /\ Settle(After, 2, SliceFrom(Peek(World, 1), Top_(World)[2], objects))
    \/ At({"ObjRest"}) /\ Settle(After, 2, ObjRest(Peek(World, 1), objects[Top_(World)[2]].items, objects))

MakeRange_ ==
    /\ At({"MakeRange"})
    /\ LET n == Instr.a.n
           step == IF n = 3 THEN <<Top_(World)>> ELSE <<>>
       IN Settle(After, n, MakeRange(Peek(World, n - 1), Peek(World, n - 2), step, Instr.a.incl, objects))

MakeIter_ == At({"MakeIter"}) /\ Settle(After, 1, MakeIter(Top_(World), objects))

TopValues(w, n) == SubSeq(w.co.stack, Len(w.co.stack) - n + 1, Len(w.co.stack))

Build ==
    LET n == Instr.a
        pairs == TopValues(World, 2 * n)
        object == Through(LAMBDA ps, i : Put(ps, pairs[2 * i - 1][2], pairs[2 * i]), <<>>, [i \in 1..n |-> i])
    IN \/ At({"MakeArray"}) /\ Settle(After, n, Alloc(ArrayObj(TopValues(World, n)), ArrV, objects))
       \/ At({"MakeObject"}) /\ Settle(After, 2 * n, Alloc(ObjectObj(object), ObjV, objects))

Concat ==
    /\ At({"ConcatN"})
    /\ Settle(After, Instr.a, Done(StrV(Through(LAMBDA s, v : s \o Display(v), "", TopValues(World, Instr.a))),
                                   objects))

Extend ==
    LET put(ref) == Drop([After EXCEPT !.heap[ref].items = Append(@, Top_(World))], 1)
    IN \/ At({"ArrayPush"}) /\ Continue_(put(Peek(World, 1)[2]))
       \/ At({"IterAppend"}) /\ Continue_(put(Local(World, Instr.a)[2]))

Merge == At({"ObjectMerge"}) /\ Settle(After, 2, MergeObject(Peek(World, 1), Top_(World), objects))

\* The cells of a new closure, captured from the frame or passed on.
CaptureAll(w, ups) ==
    Through(LAMBDA acc, up :
               LET cap == Capture(acc.w, Base(w) + up.index)
               IN IF up.local THEN [w |-> cap.w, cs |-> Append(acc.cs, cap.cell)]
                  ELSE [acc EXCEPT !.cs = Append(@, ClosureOf(w).ups[up.index])],
             [w |-> w, cs |-> <<>>], ups)

MakeClosure ==
    /\ At({"Closure"})
    /\ LET cap == CaptureAll(After, Instr.a.ups)
       IN Settle(cap.w, 0, Alloc(ClosureObj(ClosureOf(World).unit, Instr.a.fn, cap.cs), FnV, objects))

Jump ==
    /\ At({"Jump", "Loop", "JumpIfFalse", "JumpIfTrue", "JumpIfNotNull"})
    /\ LET top == Top_(World)
           taken == CASE Instr.op = "JumpIfFalse" -> ~IsTruthy(top)
                      [] Instr.op = "JumpIfTrue" -> IsTruthy(top)
                      [] Instr.op = "JumpIfNotNull" -> top # NullV
                      [] OTHER -> TRUE
       IN Continue_(IF taken THEN SetIp(World, Instr.a) ELSE After)

CloseScope ==
    /\ At({"CloseScope"})
    /\ LET w == Drop(After, 1)
       IN Continue_(Push(Cut(w, Len(w.co.stack) - Instr.a), Top_(World)))

Unwind ==
    /\ At({"Unwind"})
    /\ Continue_(Cut(After, Base(World) + Instr.a))

-----------------------------------------------------------------------------
(* Calls *)
\* The n arguments on top made to fit a function: missing ones are null,
\* extra ones are dropped or packed into the rest array.
FitArguments(w, n, fn) ==
    LET args == TopValues(w, n)
        fixed == [i \in 1..fn.arity |-> IF i <= n THEN args[i] ELSE NullV]
        fit == [w EXCEPT !.co.stack = SubSeq(@, 1, Len(@) - n) \o fixed]
    IN IF ~fn.rest THEN fit
       ELSE Push([fit EXCEPT !.heap = Append(@, ArrayObj(SubSeq(args, fn.arity + 1, n)))],
                 ArrV(Len(w.heap) + 1))

CallNative(w, n) ==
    IF n # Natives[Peek(w, n)[2]] THEN Throw(Drop(w, n + 1), ErrV("arity_mismatch"))
    ELSE Continue_(Replace(w, n + 1, StrV(TypeName(Top_(w)))))

\* A tail call gives its frame to the callee.
ReuseFrame(w, fn, base) ==
    LET i == Len(w.co.frames)
        closed == CloseUpvalues(w, Base(w))
    IN [closed EXCEPT !.co.stack = SubSeq(@, 1, Base(w)) \o SubSeq(@, base + 1, Len(@)),
                      !.co.frames[i].fn = fn, !.co.frames[i].ip = 1]

\* Only the plain call looks at the depth.
CallFunction(w, n, op) ==
    LET fn == Peek(w, n)[2]
        template == FunctionAt(w, fn)
        fit == FitArguments(w, n, template)
        base == Len(w.co.stack) - n - 1
    IN IF op = "Call" /\ Len(w.co.frames) >= MaxDepth THEN Throw(w, ErrV("stack_overflow"))
       ELSE Continue_(CASE template.gen -> MakeGenerator(fit, fn, base)
                        [] ~template.gen /\ op = "TailCall" -> ReuseFrame(fit, fn, base)
                        [] OTHER -> [fit EXCEPT !.co.frames = Append(@, Frame(fn, base, <<"Function">>))])

CallValue(w, n, op) ==
    CASE Peek(w, n)[1] = "native" -> CallNative(w, n)
      [] Peek(w, n)[1] = "fn" -> CallFunction(w, n, op)
      [] OTHER -> Throw(w, ErrV("not_callable"))

Call_ == At({"Call", "TailCall"}) /\ CallValue(After, Instr.a, Instr.op)

CallSpread ==
    /\ At({"CallSpread"})
    /\ LET args == objects[Top_(World)[2]].items
           w == Drop(After, 1)
       IN CallValue([w EXCEPT !.co.stack = @ \o args], Len(args), "CallSpread")

\* The frame that asks an iterator object for its next value.
Pull(w, next, kind) ==
    LET fit == FitArguments(Push(w, FnV(next)), 0, FunctionAt(w, next))
    IN IF Len(w.co.frames) >= MaxDepth THEN Throw(w, ErrV("stack_overflow"))
       ELSE Continue_([fit EXCEPT !.co.frames = Append(@, Frame(next, Len(w.co.stack), kind))])

\* `next` is a native only by accident: natives here take an argument.
PullNext(w, obj, kind) ==
    LET next == Field(w.heap[obj[2]].pairs, "next")
    IN CASE next[1] = "fn" -> Pull(w, next[2], kind)
         [] next[1] = "native" -> Throw(w, ErrV("arity_mismatch"))
         [] OTHER -> Throw(w, ErrV("type_mismatch"))

Iterate ==
    /\ At({"IterNext", "IterNext2"})
    /\ LET ref == Top_(World)[2]
           it == objects[ref]
           two == Instr.op = "IterNext2"
           step == Advance(it, objects)
           moved == [After EXCEPT !.heap[ref] = step.it]
       IN IF it.kind = "object"
          THEN IF it.done THEN Continue_(SetIp(World, Instr.a))
               ELSE PullNext(After, it.src, <<"IterPull", ref, Instr.a, two>>)
          ELSE Continue_(IF ~step.more THEN SetIp(World, Instr.a)
                         ELSE Push(IF two THEN Push(moved, step.counter) ELSE moved, step.v))

SpreadInto ==
    /\ At({"ArrayExtend"})
    /\ LET src == Top_(World)
           target == Peek(World, 1)
       IN IF IsIterObject(src, objects) THEN PullNext(After, src, <<"SpreadPull", target[2]>>)
          ELSE Settle(After, 2, ExtendArray(target, src, objects))

-----------------------------------------------------------------------------
(* Return: what happens depends on what the frame was for.                  *)
ReturnToIterator(w, kind, res) ==
    LET ref == kind[2]
        next == [w EXCEPT !.heap[ref].at = @ + 1]
    IN IF res.done THEN SetIp([w EXCEPT !.heap[ref].done = TRUE], kind[3])
       ELSE Push(IF kind[4] THEN Push(next, IntV(w.heap[ref].at)) ELSE next, res.v)

Returned(w, f, v) ==
    CASE f.kind[1] = "IterPull" ->
           LET res == ParseIterResult(v, objects)
           IN IF res.ok THEN Continue_(ReturnToIterator(w, f.kind, res)) ELSE Throw(w, ErrV(res.kind))
      [] f.kind[1] = "SpreadPull" ->
           LET res == ParseIterResult(v, objects)
           IN IF ~res.ok THEN Throw(w, ErrV(res.kind))
              ELSE IF res.done THEN Continue_(Drop(w, 1))
              ELSE Pull([w EXCEPT !.heap[f.kind[2]].items = Append(@, res.v)], f.fn, f.kind)
      [] f.kind[1] = "Import" ->
           Continue_(Push([w EXCEPT !.imports.done = (f.kind[2] :> v) @@ @,
                                    !.imports.busy = @ \ {f.kind[2]}], v))
      [] OTHER ->
           IF w.co.frames # <<>> THEN Continue_(Push(w, v))
           ELSE IF w.gen # 0 THEN Continue_(PushNew(ParkGenerator(w, "done"), IterDone))
           ELSE Become(w) /\ Ended("value", v, w, session.locals \o session.news)

Return_ ==
    /\ At({"Return"})
    /\ LET f == TopFrame(World)
           cut == Cut(Drop(World, 1), f.base)
       IN Returned([cut EXCEPT !.co.frames = Front(@)], f, Top_(World))

-----------------------------------------------------------------------------
(* Handlers *)
Handlers ==
    LET w == After
        i == Len(co.frames)
    IN \/ /\ At({"PushTry"})
          /\ Continue_([w EXCEPT !.co.frames[i].tries = Append(@, [pc |-> Instr.a, len |-> Len(co.stack)])])
       \/ At({"PopTry"}) /\ Continue_([w EXCEPT !.co.frames[i].tries = Front(@)])
       \/ At({"Raise"}) /\ Throw(Drop(w, 1), Top_(w))
       \/ At({"NoMatchError"}) /\ Throw(w, ErrV("no_match"))

(* Generators.  Outside one, with no other green thread, yield gives null.  *)
Yield_ ==
    /\ At({"Yield"})
    /\ LET w == Replace(After, 1, NullV)
       IN Continue_(IF resumed = 0 THEN w
                    ELSE PushNew(ParkGenerator(w, "suspended"), IterYield(Top_(World))))

Resume ==
    /\ At({"Resume"})
    /\ LET g == Top_(World)[2]
           w == Drop(After, 1)
       IN CASE objects[g].status = "done" -> Continue_(PushNew(w, IterDone))
            [] objects[g].status = "running" -> Throw(w, ErrV("type_mismatch"))
            [] objects[g].status = "suspended" ->
                 Continue_([w EXCEPT !.resumers = Append(@, [co |-> w.co, gen |-> w.gen]),
                                     !.heap[g].status = "running",
                                     !.co = objects[g].co, !.gen = g])

(* A module is evaluated once, by StartUnit; asking for it while it is being *)
(* evaluated is an error.                                                    *)
ToImport ==
    /\ At({"Import"})
    /\ Top_(World)[1] = "str"
    /\ Top_(World)[2] \in DOMAIN Modules \ (DOMAIN imports.done \cup imports.busy)

Import_ ==
    /\ At({"Import"}) /\ ~ToImport
    /\ LET path == Top_(World)
           w == Drop(After, 1)
       IN CASE path[1] # "str" -> Throw(w, ErrV("type_mismatch"))
            [] path[1] = "str" /\ path[2] \in DOMAIN imports.done -> Continue_(Push(w, imports.done[path[2]]))
            [] path[1] = "str" /\ path[2] \notin DOMAIN imports.done -> Throw(w, ErrV("import_failed"))

\* The end of a line: its value is taken, its frame and its locals stay.
Halt ==
    /\ At({"Halt"})
    /\ Become(Drop(After, 1))
    /\ Ended("value", Top_(World), World, session.locals \o session.news)

-----------------------------------------------------------------------------
(* Starting a unit: a main program, a line of a session, or a module.       *)
Lines == Source[script].lines
HasLine == ~session.running /\ Len(session.given) < Len(Lines)

Rejected(w, err) ==
    /\ Become(w)
    /\ session' = [session EXCEPT !.given = Append(@, <<"rejected", err>>)]

StartMain(w, unit) ==
    IF unit.errs # <<>> THEN Rejected(w, unit.errs[1])
    ELSE /\ Become(Enter([w EXCEPT !.co.frames = <<>>, !.co.stack = <<>>], <<"Function">>))
         /\ session' = [session EXCEPT !.running = TRUE]

\* The frame of the session, and its slot 0, are for every line in turn.
StartLine(w, unit) ==
    LET fn == Len(objects) + 1
    IN IF unit.errs # <<>> THEN Rejected(w, unit.errs[1])
       ELSE IF co.frames = <<>> THEN Become(w) /\ Ended("panic", NullV, w, session.locals)
       ELSE /\ Become([w EXCEPT !.heap = Append(@, MainClosure(w)),
                                !.co.frames[1] = Frame(fn, 0, <<"Repl">>), !.co.stack[1] = FnV(fn)])
            /\ session' = [session EXCEPT !.running = TRUE, !.news = unit.locals]

StartModule(w, unit, name) ==
    IF unit.errs # <<>> THEN Throw(w, ErrV("import_failed"))
    ELSE Continue_(Enter([w EXCEPT !.imports.busy = @ \cup {name}], <<"Import", name>>))

Start(w, unit) ==
    CASE ToImport -> StartModule(Advanced(Drop(w, 1)), unit, Top_(w)[2])
      [] HasLine /\ ~IsRepl -> StartMain(w, unit)
      [] HasLine /\ IsRepl -> StartLine(w, unit)

\* A line is compiled as it is; a program and a module are folded first.
StartUnit ==
    /\ HasLine \/ ToImport
    /\ LET line == Lines[Len(session.given) + 1]
           asLine == HasLine /\ IsRepl
           block == IF asLine THEN line ELSE FoldProgram(IF HasLine THEN line ELSE Modules[Top_(World)[2]])
       IN table' = Append(table, CompileUnit(block, IF asLine THEN session.locals ELSE <<>>,
                                             IF asLine THEN "Halt" ELSE "Return"))
    /\ Start([World EXCEPT !.table = table'], Last(table'))

Over == ~session.running /\ Len(session.given) = Len(Lines)
Finished == Over /\ UNCHANGED vars

Init ==
    /\ script \in Keys
    /\ table = <<[fns |-> <<GeneratorNext>>, errs |-> <<>>, locals |-> <<>>]>>
    /\ co = Coroutine(0, <<Repl>>, <<NullV>>)
    /\ resumers = <<>> /\ resumed = 0 /\ cells = <<>> /\ objects = <<>>
    /\ imports = [done |-> <<>>, busy |-> {}]
    /\ collector = [live |-> 0, threshold |-> MinThreshold]
    /\ session = [locals |-> <<>>, news |-> <<>>, given |-> <<>>, running |-> FALSE]

Next ==
    \/ StartUnit \/ CollectGarbage \/ Finished
    \/ Load \/ LoadUpvalue \/ Store \/ Arithmetic \/ Comparison \/ Unary \/ Indexing \/ TakeRest
    \/ MakeRange_ \/ MakeIter_ \/ Build \/ Concat \/ Extend \/ Merge
    \/ MakeClosure \/ Jump \/ CloseScope \/ Unwind
    \/ Call_ \/ CallSpread \/ Iterate \/ SpreadInto \/ Return_
    \/ Handlers \/ Yield_ \/ Resume \/ Import_ \/ Halt

Spec == Init /\ [][Next]_vars

-----------------------------------------------------------------------------
(* Properties *)

Generators_ == {g \in DOMAIN objects : objects[g].k = "gen"}

\* The coroutines with a stack: the running one, those that wait for it, and
\* the generators that are suspended.
Coroutines ==
    {co} \cup {resumers[i].co : i \in DOMAIN resumers}
         \cup {objects[g].co : g \in {g \in Generators_ : objects[g].status # "running"}}

Frames == UNION {ToSet(c.frames) : c \in Coroutines}

(* Every frame runs a function of the table, with its base in a stack; every *)
(* value on a stack refers to an object of its own type.                     *)
TypeOK ==
    /\ script \in Keys
    /\ \A c \in Coroutines :
          /\ \A f \in ToSet(c.frames) : f.base <= Len(c.stack) /\ (f.fn # 0 => objects[f.fn].k = "fn")
          /\ \A v \in ToSet(c.stack) :
               v[1] \in {"arr", "obj", "fn", "iter", "gen"} => objects[v[2]].k = v[1]
    /\ \A i \in DOMAIN objects : objects[i].k = "fn" => ToSet(objects[i].ups) \subseteq DOMAIN cells
    /\ session.running \in BOOLEAN

(* The height that the compiler assumed for an instruction when it chose the *)
(* slots of the locals is the height at which the machine runs it, whatever  *)
(* jumps, handlers, breaks and calls came before.  (An Unwind is there to    *)
(* repair the height, and the jump after it has none.)                       *)
StackIsWhereTheCompilerSaysItIs ==
    session.running /\ Instr.op \notin {"Unwind", "Jump", "Loop"} => Height_(World) = Instr.h

(* The handlers of a frame are those of the `try` bodies its next            *)
(* instruction lies in, innermost last, each with the stack of its `try`.    *)
Around(f) ==
    LET code == FunctionAt(World, f.fn).code
    IN SetToSortSeq({p \in DOMAIN code : code[p].op = "PushTry" /\ p < f.ip /\ f.ip <= code[p].a - 2}, <)

HandlersAreThoseAround ==
    \A f \in {f \in Frames : f.fn # 0} :
        LET code == FunctionAt(World, f.fn).code
        IN f.tries = [i \in DOMAIN Around(f) |-> [pc |-> code[Around(f)[i]].a,
                                                 len |-> f.base + code[Around(f)[i]].h]]

(* Closures that capture the same variable share one cell, and as long as    *)
(* the variable lives the cell is on its slot, in one stack.                 *)
SharedVariablesHaveOneCell ==
    LET open == {i \in DOMAIN cells : cells[i].open}
    IN /\ \A i \in open : \E c \in Coroutines :
             c.id = cells[i].owner /\ i \in c.open /\ cells[i].slot < Len(c.stack)
       /\ \A i, j \in open : cells[i] = cells[j] => i = j
       /\ \A c \in Coroutines : c.open \subseteq open

(* No value that the machine can still come to, on a stack, in a collection, *)
(* behind an iterator or in a cell, and no closure, refers to what the       *)
(* collector has freed.                                                      *)
ValuesIn(o) ==
    CASE o.k = "arr" -> ToSet(o.items)
      [] o.k = "obj" -> {o.pairs[i][2] : i \in DOMAIN o.pairs}
      [] o.k = "iter" -> {o.src}
      [] OTHER -> {}

NoHandleIsStale ==
    LET held == UNION ({ToSet(c.stack) : c \in Coroutines} \cup {ValuesIn(objects[i]) : i \in DOMAIN objects}
                         \cup {{cells[i].v} : i \in {i \in DOMAIN cells : ~cells[i].open}})
    IN /\ \A v \in held : v[1] \in {"arr", "obj", "fn", "iter", "gen"} => objects[v[2]] # Freed
       /\ \A i \in DOMAIN objects :
             objects[i].k = "fn" => \A cell \in ToSet(objects[i].ups) : cells[cell] # FreedCell

(* Between two lines of a session the stack holds its bindings and nothing   *)
(* else, whether the line ended, raised or was not compiled.  (A line that   *)
(* says `return` outside a function pops the Repl frame itself, vm.rs:1413:  *)
(* no session here has one.)                                                 *)
SessionKeepsItsBindings ==
    IsRepl /\ ~session.running =>
        /\ Len(co.frames) = 1 /\ co.frames[1].tries = <<>> /\ resumers = <<>> /\ resumed = 0
        /\ Len(co.stack) = 1 + Len(session.locals)
        /\ \A i \in DOMAIN session.locals : session.locals[i].slot = i

(* A generator counts as running, and a module as being imported, exactly    *)
(* while somebody waits for it; an error that passes through leaves neither. *)
NothingStaysInProgress ==
    /\ {g \in Generators_ : objects[g].status = "running"} =
          ({resumed} \cup {resumers[i].gen : i \in DOMAIN resumers}) \ {0}
    /\ imports.busy = {f.kind[2] : f \in {f \in Frames : f.kind[1] = "Import"}}
=============================================================================
