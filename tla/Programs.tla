------------------------------ MODULE Programs ------------------------------
(***************************************************************************)
(* The programs that the language is checked on, as syntax trees.          *)
(*                                                                         *)
(* Most are generated: an `effect` (a declaration, a break, a raise, a     *)
(* closure...) put into a `context` that has values of its own on the      *)
(* stack, inside a loop, inside a function that a program calls and whose  *)
(* traces in shared variables it then reads back.  The others are written  *)
(* out, one per feature that a context cannot hold.                        *)
(***************************************************************************)
EXTENDS Values

I(n) == Lit(IntV(n))
S(s) == Lit(StrV(s))
V(x) == Ident(x)
B(b) == Lit(BoolV(b))
Let(x, e) == Decl(PName(x), e)
Set(x, e) == Assign(x, "", e)
Plus(a, b) == BinOp("Add", a, b)
Eq(a, b) == BinOp("Eq", a, b)
Body(es) == Scope(es, TRUE)
Only(e) == Body(<<e>>)
Nones(n) == [i \in 1..n |-> <<>>]
Func(ps, es) == Fn([i \in DOMAIN ps |-> PName(ps[i])], Nones(Len(ps)), "", Body(es), FALSE)
Gen(ps, es) == [Func(ps, es) EXCEPT !.gen = TRUE]
Main(es) == [kind |-> "main", lines |-> <<Block(es, TRUE)>>]
Session(lines) == [kind |-> "repl", lines |-> [i \in DOMAIN lines |-> Block(lines[i], TRUE)]]
Caught(e) == Try(Only(e), <<"err", Only(V("err"))>>)
Get(o, k) == Index(o, S(k))
Next0(g) == Call(Get(g, "next"), <<>>)

-----------------------------------------------------------------------------
(* Generated programs *)
At1(e, other) == If(Eq(V("i"), I(1)), Only(e), Only(other))
Leaves == {"break", "breakvalue", "continue", "breakbreak"}
Effect_(name) ==
    CASE name = "value" -> V("i")
      [] name = "decl" -> Let("x", Plus(V("i"), I(1)))
      [] name = "declpattern" -> Decl(PArr(<<PName("x")>>, "y"), Array(<<V("i"), V("n")>>))
      [] name = "break" -> At1(Break(<<>>), V("i"))
      [] name = "breakvalue" -> At1(Break(<<I(5)>>), V("i"))
      [] name = "breakbreak" -> At1(Break(<<Break(<<I(3)>>)>>), V("i"))
      [] name = "continue" -> At1(Continue, V("i"))
      [] name = "return" -> At1(Return(<<I(6)>>), V("i"))
      [] name = "raise" -> At1(Raise(S("e")), V("i"))
      [] name = "divide" -> BinOp("Div", I(2), V("i"))
      [] name = "close" -> Body(<<Let("c", V("i")),
                                  Assign("fs", "Add", Func(<<>>, <<Set("c", Plus(V("c"), I(1)))>>)), V("i")>>)
      [] name = "match" -> Match(V("i"), <<Arm(PLit(IntV(0)), <<>>, I(4)),
                                           Arm(PName("m"), <<BinOp("Lt", V("m"), I(2))>>, Plus(V("m"), I(3))),
                                           Arm(PWild, <<>>, Null)>>)
      [] name = "try" -> Caught(Raise(V("i")))
      [] name = "call" -> Call(V("g"), <<V("i")>>)
      [] name = "yield" -> Yield(<<V("i")>>)

Context(name, e) ==
    CASE name = "plain" -> e
      [] name = "sum" -> Plus(I(1), e)
      [] name = "array" -> Array(<<I(1), e, V("i")>>)
      [] name = "spread" -> Array(<<I(1), Spread(Array(<<e>>)), I(2)>>)
      [] name = "object" -> Get(Object(<<"j", "k">>, <<I(2), e>>), "k")
      [] name = "merge" -> Get(Object(<<"k", "...">>, <<e, Object(<<"j">>, <<I(1)>>)>>), "k")
      [] name = "argument" -> Call(V("g"), <<e>>)
      [] name = "arguments" -> Call(V("g"), <<Spread(Array(<<e>>))>>)
      [] name = "index" -> Index(Array(<<I(7), I(6)>>), e)
      [] name = "put" -> IndexAssign(Array(<<I(7), I(6)>>), I(0), "Add", e)
      [] name = "template" -> Template(<<S("t"), e>>)
      [] name = "scope" -> Body(<<Let("y1", I(2)), Let("z", e), Array(<<V("y1"), V("z")>>)>>)
      [] name = "if" -> If(e, Only(I(1)), Only(I(2)))
      [] name = "and" -> BinOp("And", e, I(1))
      [] name = "or" -> BinOp("Or", UnOp("Not", e), I(1))
      [] name = "subject" -> Match(e, <<Arm(PLit(IntV(1)), <<>>, S("one")), Arm(PName("m"), <<>>, V("m"))>>)
      [] name = "arm" -> Match(I(1), <<Arm(PName("m"), <<>>, Array(<<V("m"), e>>))>>)
      [] name = "guard" -> Match(I(1), <<Arm(PName("m"), <<e>>, V("m")), Arm(PWild, <<>>, S("no"))>>)
      [] name = "try" -> Array(<<I(1), Caught(e)>>)
      [] name = "catch" -> Try(Only(Raise(I(1))), <<"err", Body(<<Let("w", V("err")), e>>)>>)
      [] name = "for" -> For(TRUE, <<"j">>, Array(<<e, I(1)>>), Only(V("j")))
      [] name = "range" -> Array(<<Spread(RangeExpr(FALSE, <<I(0), e>>))>>)
      [] name = "function" -> Call(Func(<<>>, <<e>>), <<>>)
      [] name = "break" -> At1(Break(<<e>>), V("i"))

Loop_(name, body) ==
    LET isWhile == name \in {"while", "while[]"}
        arr == name \in {"for[]", "while[]"}
    IN IF isWhile
       THEN Body(<<Let("i", I(-1)),
                   While(arr, BinOp("Lt", V("i"), I(1)), Body(<<Assign("i", "Add", I(1)), body>>))>>)
       ELSE For(arr, <<"i">>, RangeExpr(FALSE, <<I(0), I(2)>>), Only(body))

\* `try` around a break or continue is left out: see TryProgram.
Sensible(context, effect) == ~(context = "try" /\ effect \in Leaves)

Generated(loop, context, effect) ==
    LET e == Context(context, Effect_(effect))
        outer == For(TRUE, <<"o">>, RangeExpr(FALSE, <<I(0), I(1)>>), Only(Array(<<V("o"), Loop_(loop, e)>>)))
        body == <<Let("r", outer), V("r")>>
        f == IF effect = "yield" THEN Gen(<<"a">>, body) ELSE Func(<<"a">>, body)
        run == Call(V("f"), <<I(1)>>)
    IN Main(<<Let("fs", Array(<<>>)), Let("n", I(0)),
              Let("g", Func(<<"p">>, <<Assign("n", "Add", I(1)), V("p")>>)),
              Let("f", f),
              Let("v", Caught(IF effect = "yield" THEN Array(<<Spread(run)>>) ELSE run)),
              Array(<<V("v"), V("n"), For(TRUE, <<"h">>, V("fs"), Only(Call(V("h"), <<>>)))>>)>>)

(* Constant expressions, which the folder computes, against the same with   *)
(* variables, which it does not.                                            *)
Constant(op, x, y) ==
    LET safe(e) == Caught(e)
    IN Main(<<Let("x", I(x)), Let("y", I(y)),
              Array(<<safe(BinOp(op, I(x), I(y))), safe(BinOp(op, V("x"), V("y"))),
                      safe(BinOp(op, UnOp("Negate", I(x)), If(B(TRUE), Only(I(y)), Only(I(0)))))>>)>>)

-----------------------------------------------------------------------------
(* One program per feature.                                                 *)
For1(x, it, e) == For(TRUE, <<x>>, it, Only(e))
For2(x, y, it, e) == For(TRUE, <<x, y>>, it, Only(e))
UpTo(n) == RangeExpr(FALSE, <<I(0), I(n)>>)
Numbers(ns) == Array([i \in DOMAIN ns |-> I(ns[i])])
CallF(x, args) == Call(V(x), args)

\* A generator of 0..n, that then raises if asked to, and its consumers.
Counting(after) == Gen(<<"m">>, <<For(FALSE, <<"i">>, RangeExpr(FALSE, <<I(0), V("m")>>), Only(Yield(<<V("i")>>)))>> \o after)
Generators ==
    Main(<<Let("count", Counting(<<>>)), Let("fail", Counting(<<Raise(S("e"))>>)),
           Let("outer", Gen(<<>>, <<Yield(<<I(7)>>), For(FALSE, <<"k">>, CallF("count", <<I(2)>>), Only(Yield(<<V("k")>>)))>>)),
           Let("g", CallF("count", <<I(1)>>)),
           Array(<<For1("x", CallF("count", <<I(2)>>), V("x")), For2("c", "x", CallF("outer", <<>>), Array(<<V("c"), V("x")>>)),
                   Array(<<Spread(CallF("outer", <<>>)), I(5)>>),
                   Next0(V("g")), Next0(V("g")), Next0(V("g")),
                   Caught(For1("x", CallF("fail", <<I(1)>>), V("x"))), Yield(<<I(1)>>),
                   Caught(Array(<<Spread(CallF("fail", <<I(2)>>))>>))>>)>>)
\* A generator whose error another one catches; one that asks for itself.
GeneratorErrors ==
    Main(<<Let("bad", Gen(<<>>, <<Yield(<<I(1)>>), Raise(S("in"))>>)),
           Let("wrap", Gen(<<>>, <<Yield(<<Caught(Array(<<Spread(CallF("bad", <<>>))>>))>>), Yield(<<I(2)>>)>>)),
           Let("deep", Gen(<<>>, <<For(FALSE, <<"k">>, CallF("bad", <<>>), Only(Yield(<<V("k")>>)))>>)),
           Let("self", Null),
           Let("own", Gen(<<>>, <<Yield(<<Caught(Next0(V("self")))>>), Next0(V("self"))>>)),
           Set("self", CallF("own", <<>>)),
           Array(<<Array(<<Spread(CallF("wrap", <<>>))>>), Caught(Array(<<Spread(CallF("deep", <<>>))>>)),
                   Next0(V("self")), Caught(Next0(V("self"))), Next0(V("self"))>>)>>)
\* A generator that reads and writes a variable of the function that made it.
GeneratorCells ==
    Main(<<Let("make", Func(<<"n">>, <<Let("total", V("n")),
              Let("add", Gen(<<>>, <<Assign("total", "Add", I(1)), Yield(<<V("total")>>), Assign("total", "Add", I(1))>>)),
              Let("vs", Array(<<Spread(CallF("add", <<>>))>>)), Array(<<V("vs"), V("total")>>)>>)),
           CallF("make", <<I(3)>>)>>)

Destructuring ==
    Main(<<Decl(PArr(<<PName("a"), PWild, PArr(<<PName("b")>>, "")>>, "more"), Array(<<I(1), I(2), Numbers(<<3, 4>>), I(5)>>)),
           Decl(PObj(<<PField("k", PName("c")), PField("j", PArr(<<PName("d")>>, ""))>>, "others"),
                Object(<<"k", "j", "l">>, <<I(6), Numbers(<<7>>), I(0)>>)),
           Decl(PWild, I(1)),
           AssignPattern(PArr(<<PName("a"), PName("b")>>, "more"), Array(<<V("b"), V("a"), I(2)>>)),
           AssignPattern(PObj(<<PField("k", PName("d")), PField("x", PWild)>>, "others"), Object(<<"k", "m">>, <<I(3), I(4)>>)),
           AssignPattern(PArr(<<PWild>>, ""), Numbers(<<2>>)),
           Let("swap", Array(<<I(0), AssignPattern(PArr(<<PName("a"), PName("b")>>, ""), Array(<<V("b"), V("a")>>))>>)),
           Let("nested", Array(<<I(0), Decl(PObj(<<PField("k", PName("n"))>>, "m"), Object(<<"k", "l">>, <<I(1), I(2)>>)), V("n"), V("m")>>)),
           Array(<<V("a"), V("b"), V("more"), V("c"), V("d"), V("others"), V("swap"), V("nested"),
                   Caught(Decl(PArr(<<PName("q")>>, ""), I(1))), Caught(Decl(PArr(<<>>, "q"), S("s"))),
                   Caught(Decl(PObj(<<>>, "q"), I(1))), Caught(Decl(PObj(<<PField("k", PName("q"))>>, ""), Numbers(<<1>>)))>>)>>)

Parameters ==
    Main(<<Let("f", Fn(<<PName("a"), PArr(<<PName("c")>>, "d"), PName("b"), PName("e")>>,
                       <<<<>>, <<>>, <<Plus(V("a"), I(1))>>, <<Array(<<V("b"), I(4)>>)>>>>, "rest",
                       Body(<<Array(<<V("a"), V("b"), V("c"), V("d"), V("e"), V("rest")>>)>>), FALSE)),
           Let("g", Fn(<<PWild, PObj(<<PField("k", PName("c"))>>, "")>>, <<<<>>, <<>>>>, "",
                       Body(<<Let("h", Func(<<>>, <<V("c")>>)), CallF("h", <<>>)>>), FALSE)),
           Array(<<CallF("f", <<I(1), Numbers(<<5>>)>>), CallF("f", <<I(1), Numbers(<<2, 3>>), I(3), I(6), I(7)>>), Caught(CallF("f", <<I(1)>>)),
                   CallF("g", <<I(1), Object(<<"k">>, <<I(3)>>)>>), CallF("g", <<I(1), Object(<<>>, <<>>), I(9)>>),
                   Caught(CallF("g", <<I(1), I(2)>>)), CallF("f", <<Spread(Array(<<I(1), Numbers(<<2>>)>>)), Numbers(<<6>>), Spread(UpTo(2))>>)>>)>>)

MatchOn(x) ==
    Match(x, <<Arm(PLit(NullV), <<>>, S("null")),
               Arm(POr(<<PWild, PLit(IntV(1))>>), <<Eq(V("x"), I(-1))>>, S("or")),
               Arm(PRange(IntV(1), IntV(3), FALSE), <<>>, S("low")),
               Arm(PRange(IntV(3), IntV(4), TRUE), <<>>, S("mid")),
               Arm(PArr(<<>>, ""), <<>>, S("empty")),
               Arm(PArr(<<PLit(IntV(0)), PName("a")>>, ""), <<>>, V("a")),
               Arm(PArr(<<PName("a"), PArr(<<PName("b")>>, "")>>, "c"), <<>>, Array(<<V("a"), V("b"), V("c")>>)),
               Arm(PObj(<<PField("k", PLit(IntV(1))), PField("j", PShort)>>, "o"), <<>>, Array(<<V("j"), V("o")>>)),
               Arm(PObj(<<PField("k", PArr(<<PName("a")>>, ""))>>, ""), <<Eq(V("a"), I(2))>>, Only(Array(<<V("a")>>)))>>)
Matches ==
    Main(<<Let("m", Func(<<"x">>, <<Caught(MatchOn(V("x")))>>)),
           For1("x", Array(<<Null, I(-1), I(0), I(2), I(3), I(4), I(5), Numbers(<<>>), Numbers(<<0, 7>>),
                             Array(<<I(1), Numbers(<<2>>), I(3)>>), Array(<<I(1), Numbers(<<>>)>>), S("s"), B(FALSE),
                             Object(<<"k", "j", "l">>, <<I(1), I(2), I(3)>>), Object(<<"k">>, <<Numbers(<<2>>)>>),
                             Object(<<"k">>, <<Numbers(<<3>>)>>)>>),
                CallF("m", <<V("x")>>))>>)
\* The last alternative of an or-pattern may fail: its test has no other below.
MatchTail ==
    Main(<<Let("f", Func(<<"x", "n">>, <<Match(V("x"), <<Arm(PLit(IntV(0)), <<>>, V("n")),
                       Arm(PName("y"), <<>>, CallF("f", <<Plus(V("y"), I(-1)), Plus(V("n"), I(1))>>))>>)>>)),
           CallF("f", <<I(3), I(0)>>)>>)

\* A module is evaluated once; a cycle, a missing module, an error in one.
ModulesOf ==
    [counter |-> Block(<<Let("n", I(0)), Object(<<"up", "n">>, <<Func(<<>>, <<Assign("n", "Add", I(1)), V("n")>>), I(0)>>)>>, TRUE),
     cycle |-> Block(<<Caught(Import(S("cycle")))>>, TRUE),
     raises |-> Block(<<Let("c", Import(S("counter"))), Call(Get(V("c"), "up"), <<>>), Raise(S("m"))>>, TRUE),
     wrong |-> Block(<<V("nobody")>>, TRUE),
     early |-> Block(<<Return(<<I(4)>>), I(5)>>, TRUE)]
Imports ==
    Main(<<Let("a", Import(S("counter"))), Let("b", Import(S("counter"))),
           Array(<<Call(Get(V("a"), "up"), <<>>), Call(Get(V("b"), "up"), <<>>), Eq(V("a"), V("b")),
                   Import(S("cycle")), Caught(Import(S("missing"))), Caught(Import(S("raises"))), Caught(Import(S("raises"))),
                   Call(Get(V("a"), "up"), <<>>), Caught(Import(S("wrong"))), Import(S("early")), Caught(Import(I(1)))>>)>>)

\* Deep recursion in tail position, and without end.
Recursion ==
    Main(<<Let("down", Func(<<"n", "acc">>, <<If(Eq(V("n"), I(0)), Only(V("acc")),
                              Only(CallF("down", <<Plus(V("n"), I(-1)), Plus(V("acc"), I(1))>>)))>>)),
           Let("forever", Func(<<"n">>, <<Plus(I(1), CallF("forever", <<V("n")>>))>>)),
           Let("sum", Func(<<"n">>, <<If(Eq(V("n"), I(0)), Only(I(0)), Only(Plus(V("n"), CallF("sum", <<Plus(V("n"), I(-1))>>))))>>)),
           Let("loop", Gen(<<>>, <<Yield(<<I(1)>>), CallF("forever", <<I(1)>>)>>)),
           Let("it", Object(<<>>, <<>>)), IndexAssign(V("it"), S("next"), "", Func(<<>>, <<For1("x", V("it"), V("x"))>>)),
           Array(<<CallF("down", <<I(6), I(0)>>), Caught(CallF("forever", <<I(0)>>)), CallF("sum", <<I(3)>>),
                   Caught(For1("x", CallF("loop", <<>>), V("x"))), Caught(For1("x", V("it"), V("x")))>>)>>)

Answers(done, v) == Object(<<"done", "value">>, <<done, v>>)
Iterations ==
    Main(<<Let("to3", Func(<<>>, <<Let("n", I(0)), Object(<<"next">>, <<Func(<<>>,
                       <<Assign("n", "Add", I(1)), Answers(Eq(V("n"), I(3)), V("n"))>>)>>)>>)),
           Let("bad", Func(<<"v">>, <<Object(<<"next">>, <<Func(<<>>, <<V("v")>>)>>)>>)),
           Let("xs", Numbers(<<1, 2>>)), Let("o", Object(<<"a", "b">>, <<I(1), I(2)>>)), Let("it", CallF("to3", <<>>)),
           Array(<<For1("x", V("o"), V("x")), For2("k", "x", V("o"), Array(<<V("k"), V("x")>>)), For2("k", "x", S("hi"), Array(<<V("k"), V("x")>>)),
                   For2("k", "x", RangeExpr(TRUE, <<I(3), I(1)>>), Array(<<V("k"), V("x")>>)), For1("x", RangeExpr(FALSE, <<I(0), I(5), I(2)>>), V("x")),
                   For1("x", RangeExpr(TRUE, <<I(0), I(5), I(0)>>), V("x")),
                   For1("x", CallF("to3", <<>>), V("x")), For2("c", "x", CallF("to3", <<>>), Array(<<V("c"), V("x")>>)),
                   Array(<<Spread(CallF("to3", <<>>)), Spread(V("xs")), Spread(S("ab"))>>),
                   For(FALSE, <<"x">>, V("it"), Only(Break(<<V("x")>>))), Array(<<Spread(V("it"))>>),
                   For1("x", V("xs"), Body(<<If(Eq(V("x"), I(2)), Only(Assign("xs", "Add", I(3))), Only(Null)), V("x")>>)),
                   Caught(For1("x", I(1), V("x"))), Caught(For1("x", CallF("bad", <<I(1)>>), V("x"))),
                   Caught(Array(<<Spread(CallF("bad", <<Object(<<>>, <<>>)>>))>>)), Caught(Array(<<Spread(I(1))>>)),
                   Caught(For1("x", CallF("bad", <<Answers(B(TRUE), I(1))>>), V("x"))),
                   Caught(For1("x", Object(<<"next">>, <<V("type")>>), V("x"))), Caught(Array(<<Spread(Object(<<"next">>, <<V("type")>>))>>)),
                   Caught(RangeExpr(FALSE, <<I(0), S("x")>>)), Caught(RangeExpr(FALSE, <<I(0), I(1), Null>>))>>)>>)

Collections ==
    Main(<<Let("o", Object(<<"a", "b">>, <<I(1), Numbers(<<2>>)>>)), Let("p", V("o")), Let("xs", Numbers(<<1, 2>>)), Let("ys", V("xs")),
           IndexAssign(V("o"), S("a"), "Add", I(1)), IndexAssign(Get(V("p"), "b"), I(0), "", I(3)), IndexAssign(V("p"), S("c"), "", I(4)),
           Assign("xs", "Add", I(3)), Set("ys", Plus(V("ys"), I(4))), Assign("ys", "Add", Numbers(<<5>>)),
           IndexAssign(V("o"), S("b"), "Add", I(6)),
           Let("m", Object(<<"...", "a", "...">>, <<V("o"), I(0), Object(<<"z", "c">>, <<I(7), Null>>)>>)),
           Array(<<V("o"), Eq(V("o"), V("p")), V("xs"), V("ys"), V("m"), UnOp("Len", V("m")), Get(V("o"), "zz"), Index(V("xs"), I(-1)), Index(V("xs"), I(3)),
                   Index(S("abc"), I(1)), UnOp("Len", S("abc")), UnOp("Not", Null), Get(Object(<<"a", "a">>, <<I(1), I(2)>>), "a"),
                   Template(<<S("x"), I(1), B(TRUE), Null>>), CallF("type", <<V("xs")>>), BinOp("Neq", V("xs"), V("ys"))>>)>>)
Complaints ==
    Main(<<Let("xs", Numbers(<<1>>)),
           Array(<<Caught(CallF("xs", <<>>)), Caught(CallF("type", <<>>)), Caught(Index(I(1), I(1))), Caught(Index(V("xs"), S("a"))),
                   Caught(IndexAssign(V("xs"), I(2), "", I(1))), Caught(IndexAssign(V("xs"), S("a"), "", I(1))), Caught(IndexAssign(S("a"), I(0), "", I(1))),
                   Caught(IndexAssign(I(1), I(0), "", I(1))), Caught(IndexAssign(Object(<<>>, <<>>), I(1), "", I(1))), Caught(UnOp("Len", I(1))),
                   Caught(UnOp("Negate", S("a"))), Caught(UnOp("Negate", I(-MaxInt - 1))), Caught(BinOp("Lt", I(1), S("a"))), Caught(BinOp("Mul", V("xs"), I(1))),
                   Caught(Get(Object(<<"...">>, <<I(1)>>), "a")), Caught(Match(I(1), <<>>)), Try(Only(Raise(I(1))), <<>>),
                   Caught(Raise(Object(<<"k">>, <<I(1)>>))), Caught(CallF("type", <<Spread(Numbers(<<1, 2>>))>>)), Caught(CallF("xs", <<Spread(V("xs"))>>)),
                   Get(Caught(BinOp("Mod", I(1), I(0))), "kind"), Try(Only(Caught(Raise(I(2)))), <<"e", Only(V("e"))>>),
                   Caught(Body(<<Let("k", I(1)), Caught(Raise(V("k"))), Raise(Array(<<V("k")>>)), I(1)>>))>>)>>)

\* Closures that share a variable, pass it inwards, and outlive its scope.
Closures ==
    Main(<<Let("pair", Func(<<"n">>, <<Let("m", I(0)), Let("up", Func(<<>>, <<Assign("n", "Add", I(1)), Assign("m", "Add", V("n"))>>)),
                       Object(<<"up", "get">>, <<V("up"), Func(<<>>, <<Array(<<V("n"), V("m")>>)>>)>>)>>)),
           Let("p", CallF("pair", <<I(1)>>)), Let("q", CallF("pair", <<I(3)>>)),
           Let("curry", Func(<<"a">>, <<Func(<<"b">>, <<Func(<<"c">>, <<Array(<<Assign("a", "Add", V("b")), V("c")>>)>>)>>)>>)),
           Let("k", Call(CallF("curry", <<I(1)>>), <<I(2)>>)),
           Let("fs", Body(<<Let("t", I(1)), Let("inc", Func(<<>>, <<Assign("t", "Add", I(1))>>)), CallF("inc", <<>>), Array(<<V("inc"), V("t")>>)>>)),
           Array(<<Call(Get(V("p"), "up"), <<>>), Call(Get(V("p"), "up"), <<>>), Call(Get(V("p"), "get"), <<>>), Call(Get(V("q"), "get"), <<>>),
                   CallF("k", <<I(0)>>), CallF("k", <<I(0)>>), Call(Index(V("fs"), I(0)), <<>>), Index(V("fs"), I(1))>>)>>)

Sessions ==
    [bindings |-> Session(<<<<Let("x", I(1))>>, <<Let("y", Plus(V("x"), I(1))), Array(<<V("x"), V("y")>>)>>, <<Set("x", I(5))>>, <<V("x")>>, <<V("y")>>>>),
     errors |-> Session(<<<<Let("x", I(1))>>, <<Set("x", I(2)), Let("lost", I(3)), Array(<<I(1), Raise(S("e"))>>)>>, <<V("lost")>>, <<Let("lost", I(4))>>, <<Array(<<V("x"), V("lost")>>)>>>>),
     rejected |-> Session(<<<<V("x")>>, <<Let("x", I(1)), V("nobody")>>, <<Let("x", I(2))>>, <<Let("x", I(3))>>, <<Set("z", V("x"))>>, <<Set("type", I(1))>>, <<V("x")>>,
                            <<Break(<<>>)>>, <<Continue>>, <<V("x")>>>>),
     closures |-> Session(<<<<Let("n", I(0))>>, <<Let("up", Func(<<>>, <<Assign("n", "Add", I(1))>>)), I(0)>>, <<CallF("up", <<>>)>>, <<V("n")>>,
                            <<Set("n", I(5)), CallF("up", <<>>), Raise(V("n"))>>, <<CallF("up", <<>>)>>, <<V("n")>>>>),
     nested |-> Session(<<<<Array(<<I(1), Let("a", I(2)), Let("b", I(3))>>)>>, <<Let("t", Caught(Raise(V("a")))), V("t")>>, <<For1("i", Array(<<V("a"), V("b")>>), Let("z", V("i")))>>,
                          <<Let("g", Gen(<<>>, <<Yield(<<V("a")>>), Raise(V("b"))>>)), I(0)>>, <<Array(<<Spread(CallF("g", <<>>))>>)>>, <<Array(<<V("a"), V("b"), V("t")>>)>>>>)]

(* Two shapes that the other programs leave out, because the machine does   *)
(* not give what they mean: a try left by break, and an alternative that    *)
(* fails before another one matches.                                        *)
Shapes ==
    [staleTry |-> Main(<<For(FALSE, <<"i">>, UpTo(2), Only(Try(Only(Break(<<>>)), <<"e", Only(V("e"))>>))), Raise(S("late"))>>),
     orPattern |-> Main(<<Match(Numbers(<<2, 7>>), <<Arm(PArr(<<POr(<<PLit(IntV(1)), PLit(IntV(2))>>), PName("x")>>, ""), <<>>, V("x"))>>)>>)]

NotLegal ==
    [twice |-> Main(<<Let("x", I(1)), Let("x", I(2))>>),
     pattern |-> Main(<<Match(I(1), <<Arm(POr(<<PName("x"), PWild>>), <<>>, I(1))>>)>>), early |-> Main(<<Return(<<I(3)>>), I(4)>>),
     uncaught |-> Main(<<Let("f", Func(<<"x">>, <<Array(<<I(1), Raise(V("x"))>>)>>)), Try(Only(I(1)), <<>>), CallF("f", <<I(2)>>)>>)]

\* Read, and never run: every operator next to every kind of operand, and the
\* forms that the parser builds out of others.
Ops == <<"Or", "And", "Eq", "Lt", "BitOr", "BitXor", "BitAnd", "Shl", "Add", "Sub", "Mul", "Pow">>
OneOf(op) == BinOp(op, V("x"), V("y"))
Operands ==
    <<RangeExpr(TRUE, <<V("x"), V("y"), I(1)>>), CallF("f", <<V("x"), V("y")>>), Index(V("x"), V("y")), UnOp("Negate", V("x")),
      UnOp("BitNot", V("x")), Set("x", V("y")), Try(V("x"), <<>>), Caught(V("x")), If(V("x"), Only(V("y")), Null), Raise(V("x"))>>
        \o [i \in DOMAIN Ops |-> OneOf(Ops[i])]
Surrounded(e) == [i \in DOMAIN Ops |-> BinOp(Ops[i], BinOp(Ops[i], e, V("z")), BinOp(Ops[i], I(2), e))]
                \o <<UnOp("Len", e), Index(e, e), Call(e, <<e, Spread(e)>>), RangeExpr(FALSE, <<e, e>>), Try(e, <<>>), Set("x", e),
                     While(FALSE, e, Only(e)), Template(<<S("s"), e>>), Match(e, <<Arm(PWild, <<e>>, e)>>)>>
FieldOf(key, pat) == PObj(<<PField("index", PLit(IntV(key))), PField("value", pat)>>, "")
Selecting(arms, hasElse) == Match(Call(V("__select"), <<Array(<<V("x"), V("y")>>), B(hasElse)>>), arms)
Parallel(vars, it, body) ==
    Block(<<Let("$parallel_tasks", For(TRUE, vars, it, Spawn(Func(<<>>, body)))),
            For(TRUE, <<"$parallel_t">>, V("$parallel_tasks"), CallF("join", <<V("$parallel_t")>>))>>, TRUE)
Sugar ==
    <<Selecting(<<Arm(FieldOf(0, PName("m")), <<>>, V("m")), Arm(FieldOf(1, PWild), <<>>, V("x"))>>, FALSE),
      Selecting(<<Arm(FieldOf(0, PName("m")), <<>>, V("m")), Arm(FieldOf(1, PWild), <<>>, V("x")), Arm(PWild, <<>>, V("y"))>>, TRUE),
      Parallel(<<"p">>, V("x"), <<V("p")>>), Parallel(<<"p", "q">>, V("x"), <<V("p"), V("q")>>), Go(V("f")), While(TRUE, Array(<<>>), Only(V("x")))>>
AllSyntax == <<Block(Sugar, FALSE)>> \o [i \in DOMAIN Operands |-> Block(Surrounded(Operands[i]), FALSE)]

Written ==
    [syntax |-> Main(<<Null>>), generators |-> Generators, generatorErrors |-> GeneratorErrors, generatorCells |-> GeneratorCells, destructuring |-> Destructuring,
     parameters |-> Parameters, matches |-> Matches, matchTail |-> MatchTail, imports |-> Imports, recursion |-> Recursion,
     iterations |-> Iterations, collections |-> Collections, complaints |-> Complaints, closures |-> Closures]
=============================================================================
