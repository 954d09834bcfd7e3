------------------------------ MODULE Grammar -------------------------------
(***************************************************************************)
(* How a syntax tree is written, after docs/language: the precedence table *)
(* of operator-precedence.md, the forms of control-flow.md, functions.md,  *)
(* objects.md, concurrency.md.  What the parser must read back.            *)
(*                                                                         *)
(* A tree is written with the fewest parentheses the table allows, in one  *)
(* of two styles: plain, or sugared (calls as pipes, last commas).         *)
(***************************************************************************)
EXTENDS Integers, Syntax

Eof == <<"Eof">>
Spelled(op) ==
    CASE op = "Or" -> "||" [] op = "And" -> "&&" [] op = "Eq" -> "==" [] op = "Neq" -> "!="
      [] op = "Lt" -> "<" [] op = "Le" -> "<=" [] op = "Gt" -> ">" [] op = "Ge" -> ">="
      [] op = "BitOr" -> "|" [] op = "BitXor" -> "^" [] op = "BitAnd" -> "&" [] op = "Shl" -> "<<" [] op = "Shr" -> ">>"
      [] op = "Add" -> "+" [] op = "Sub" -> "-" [] op = "Mul" -> "*" [] op = "Div" -> "/" [] op = "Mod" -> "%" [] op = "Pow" -> "^^"
      [] op = "Negate" -> "-" [] op = "Not" -> "!" [] op = "Len" -> "#" [] op = "BitNot" -> "~"
LevelOfOp(op) ==
    CASE op = "Or" -> 2 [] op = "And" -> 3 [] op \in {"Eq", "Neq", "Lt", "Le", "Gt", "Ge"} -> 4
      [] op = "BitOr" -> 5 [] op = "BitXor" -> 6 [] op = "BitAnd" -> 7 [] op \in {"Shl", "Shr"} -> 10
      [] op \in {"Add", "Sub"} -> 11 [] op \in {"Mul", "Div", "Mod"} -> 12 [] op = "Pow" -> 13

\* A call that can be written with its first argument before the function.
IsPiped(e, sugared) ==
    e.t = "Call" /\ sugared /\ Len(e.kids) > 1 /\ e.kids[2].t # "Spread"
\* What goes on to the right as far as it can has the level of an assignment;
\* a try without catch goes on to the next ||.
LevelOf(e, sugared) ==
    CASE e.t = "BinOp" -> LevelOfOp(e.op)
      [] e.t = "UnOp" \/ (e.t = "Lit" /\ e.v[1] = "int" /\ e.v[2] < 0) -> 14
      [] e.t = "Range" -> 9
      [] e.t = "Try" /\ e.catch = <<>> -> 2
      [] e.t \in {"Decl", "Assign", "AssignPattern", "IndexAssign", "Break", "Return", "Yield",
                  "Raise", "Import", "Spawn", "Go"} -> 1
      [] IsPiped(e, sugared) -> 8
      [] OTHER -> 15

T(x) == <<<<x>>>>
Name(x) == <<<<"Ident", x>>>>
Number(n) == (IF n < 0 THEN T("-") ELSE <<>>) \o <<<<"Int", IF n < 0 THEN -n ELSE n>>>>
Constant(v) ==
    CASE v[1] = "int" -> Number(v[2]) [] v[1] = "str" -> <<<<"Str", v[2]>>>>
      [] v[1] = "bool" -> T(IF v[2] THEN "true" ELSE "false") [] v[1] = "null" -> T("null")
Comma(items) == FlattenSeq([i \in DOMAIN items |-> (IF i = 1 THEN <<>> ELSE T(",")) \o items[i]])
Enclosed(open, items, last, close) == T(open) \o Comma(items) \o (IF last /\ items # <<>> THEN T(",") ELSE <<>>) \o T(close)
RestOf(x) == IF x = "" THEN <<>> ELSE <<T("...") \o Name(x)>>

RECURSIVE PatternText(_, _)
(* A pattern of a binding, or of a match arm when `inMatch`.                *)
PatternText(p, inMatch) ==
    LET field(f) == IF f.pat = PShort \/ (f.pat = PName(f.key) /\ ~inMatch) THEN Name(f.key)
                    ELSE Name(f.key) \o T(":") \o PatternText(f.pat, inMatch)
    IN CASE p.p = "Wild" -> Name("_")
         [] p.p = "Name" -> Name(p.name)
         [] p.p = "Lit" -> Constant(p.v)
         [] p.p = "Range" -> Constant(p.from) \o T(IF p.incl THEN "..=" ELSE "..") \o Constant(p.to)
         [] p.p = "Arr" -> Enclosed("[", [i \in DOMAIN p.items |-> PatternText(p.items[i], inMatch)] \o RestOf(p.rest), FALSE, "]")
         [] p.p = "Obj" -> T("$") \o Enclosed("{", [i \in DOMAIN p.fields |-> field(p.fields[i])] \o RestOf(p.rest), FALSE, "}")
         [] p.p = "Or" -> FlattenSeq([i \in DOMAIN p.alts |->
                              (IF i = 1 THEN <<>> ELSE T("|")) \o PatternText(p.alts[i], inMatch)])

IsSelect(e) == e.t = "Match" /\ e.kids[1].t = "Call" /\ e.kids[1].kids[1] = Ident("__select")
IsParallel(e) == e.t = "Block" /\ e.kids # <<>> /\ e.kids[1].t = "Decl" /\ e.kids[1].pat = PName("$parallel_tasks")

RECURSIVE Text(_, _, _)
(* The statements of a block.                                               *)
Statements(es, tail, sug) ==
    FlattenSeq([i \in DOMAIN es |-> Text(es[i], 1, sug) \o (IF i < Len(es) \/ ~tail THEN T(";") ELSE <<>>)])
\* `for (x, it)` without its body.
LoopText(word, arr, vars, it, sug) ==
    T(word) \o (IF arr THEN T("[") \o T("]") ELSE <<>>)
        \o Enclosed("(", [i \in DOMAIN vars |-> Name(vars[i])] \o <<Text(it, 1, sug)>>, FALSE, ")")
\* A condition that begins with a bracket would be taken for the `[]` of while[].
Condition(ts) == IF ts[1] = <<"[">> THEN Enclosed("(", <<ts>>, FALSE, ")") ELSE ts
ArmText(a, sug) ==
    PatternText(a.pat, TRUE) \o (IF a.guard = <<>> THEN <<>> ELSE T("if") \o Text(a.guard[1], 1, sug)) \o T("=>") \o Text(a.body, 1, sug)
SelectText(e, sug) ==
    LET channels == e.kids[1].kids[2].kids
        arm(i) == IF i > Len(channels) THEN T("else") \o T("=>") \o Text(e.arms[i].body, 1, sug)
                  ELSE PatternText(e.arms[i].pat.fields[2].pat, TRUE) \o T(":=") \o Text(channels[i], 1, sug)
                         \o T("=>") \o Text(e.arms[i].body, 1, sug)
    IN T("select") \o Enclosed("{", [i \in DOMAIN e.arms |-> arm(i)], sug, "}")
Operation(word, kids, sug) == T(word) \o (IF kids = <<>> THEN <<>> ELSE Text(kids[1], 1, sug))

(* The expression e where an expression of at least `level` is asked for.   *)
Text(e, level, sug) ==
    LET kid(i, n) == Text(e.kids[i], n, sug)
        each(es) == [i \in DOMAIN es |-> Text(es[i], 1, sug)]
        own == LevelOf(e, sug)
        alone == Len(e.kids) = 2 /\ e.kids[1].t # "Call"
        param(i) == IF e.defaults[i] = <<>> THEN PatternText(e.params[i], FALSE)
                    ELSE PatternText(e.params[i], FALSE) \o T("=") \o Text(e.defaults[i][1], 1, sug)
        member(i) == IF e.keys[i] = "..." THEN T("...") \o kid(i, 1)
                     ELSE Name(e.keys[i]) \o (IF sug /\ e.kids[i] = Ident(e.keys[i]) THEN <<>> ELSE T(":") \o kid(i, 1))
        part(k) == IF k.t = "Lit" /\ k.v[1] = "str" THEN <<"Lit", k.v[2]>> ELSE <<"Expr", Text(k, 1, sug) \o <<Eof>> >>
        assign(op) == T((IF op = "" THEN "" ELSE Spelled(op)) \o "=")
        text ==
          CASE e.t = "Lit" -> Constant(e.v)
            [] e.t = "Null" -> T("null")
            [] e.t = "Ident" -> Name(e.name)
            [] e.t = "BinOp" -> IF e.op = "Pow" THEN kid(1, 14) \o T("^^") \o kid(2, 13)
                                ELSE kid(1, own) \o T(Spelled(e.op)) \o kid(2, own + 1)
            [] e.t = "UnOp" -> T(Spelled(e.op)) \o kid(1, 14)
            [] e.t = "Range" -> kid(1, 10) \o T(IF e.incl THEN "..=" ELSE "..") \o kid(2, 10)
                                  \o (IF Len(e.kids) = 2 THEN <<>> ELSE T(":") \o kid(3, 10))
            [] e.t = "Call" /\ own = 8 ->
                 kid(2, 8) \o T("|>")
                   \o (IF alone THEN kid(1, 9) ELSE kid(1, 15) \o Enclosed("(", each(SubSeq(e.kids, 3, Len(e.kids))), FALSE, ")"))
            [] e.t = "Call" /\ own # 8 -> kid(1, 15) \o Enclosed("(", each(Tail(e.kids)), sug, ")")
            [] e.t = "Index" ->
                 kid(1, 15) \o (IF e.kids[2].t = "Lit" /\ e.kids[2].v[1] = "str" /\ sug THEN T(".") \o Name(e.kids[2].v[2])
                                ELSE T("[") \o kid(2, 1) \o T("]"))
            [] e.t = "Array" -> Enclosed("[", each(e.kids), sug, "]")
            [] e.t = "Spread" -> T("...") \o kid(1, 1)
            [] e.t = "Object" -> T("$") \o Enclosed("{", [i \in DOMAIN e.kids |-> member(i)], sug, "}")
            [] e.t = "Template" -> <<<<"Template", [i \in DOMAIN e.kids |-> part(e.kids[i])]>>>>
            [] e.t = "Decl" -> PatternText(e.pat, FALSE) \o T(":=") \o kid(1, 1)
            [] e.t = "Assign" -> Name(e.name) \o assign(e.op) \o kid(1, 1)
            [] e.t = "AssignPattern" -> PatternText(e.pat, FALSE) \o T("=") \o kid(1, 1)
            [] e.t = "IndexAssign" -> kid(1, 15) \o T("[") \o kid(2, 1) \o T("]") \o assign(e.op) \o kid(3, 1)
            [] IsParallel(e) ->
                 LoopText("parallel", TRUE, e.kids[1].kids[1].vars, e.kids[1].kids[1].kids[1], sug)
                   \o Text(e.kids[1].kids[1].kids[2].kids[1].kids[1], 15, sug)
            [] e.t = "Block" /\ ~IsParallel(e) -> T("(") \o Statements(e.kids, e.tail, sug) \o T(")")
            [] e.t = "Scope" -> T("{") \o Statements(e.kids, e.tail, sug) \o T("}")
            [] e.t = "If" -> T("if") \o kid(1, 1) \o kid(2, 15) \o (IF e.kids[3] = Null THEN <<>> ELSE T("else") \o kid(3, 15))
            [] e.t = "While" -> T("while") \o (IF e.arr THEN T("[") \o T("]") ELSE <<>>) \o Condition(kid(1, 1)) \o kid(2, 15)
            [] e.t = "For" -> LoopText("for", e.arr, e.vars, e.kids[1], sug) \o kid(2, 15)
            [] e.t = "Fn" -> (IF e.gen THEN T("gen") ELSE <<>>) \o T("fn")
                               \o Enclosed("(", [i \in DOMAIN e.params |-> param(i)] \o RestOf(e.rest), FALSE, ")") \o kid(1, 15)
            [] e.t = "Try" -> T("try") \o kid(1, 3)
                                \o (IF e.catch = <<>> THEN <<>>
                                    ELSE T("catch") \o T("(") \o Name(e.catch[1]) \o T(")") \o Text(e.catch[2], 15, sug))
            [] IsSelect(e) -> SelectText(e, sug)
            [] e.t = "Match" /\ ~IsSelect(e) ->
                 T("match") \o kid(1, 1) \o Enclosed("{", [i \in DOMAIN e.arms |-> ArmText(e.arms[i], sug)], sug, "}")
            [] e.t = "Continue" -> T("continue")
            [] e.t \in {"Break", "Return", "Yield", "Raise", "Import", "Spawn", "Go"} ->
                 Operation(CASE e.t = "Break" -> "break" [] e.t = "Return" -> "return" [] e.t = "Yield" -> "yield"
                             [] e.t = "Raise" -> "raise" [] e.t = "Import" -> "import" [] e.t = "Spawn" -> "spawn"
                             [] e.t = "Go" -> "go", e.kids, sug)
    IN IF own < level THEN T("(") \o text \o T(")") ELSE text

Written(block, sug) == Statements(block.kids, block.tail, sug) \o <<Eof>>

-----------------------------------------------------------------------------
RECURSIVE Bare(_)
(* The tree without the parentheses that only group, and with a negative    *)
(* number as the negation it is written as.                                 *)
Bare(e) ==
    LET kids == [i \in DOMAIN e.kids |-> Bare(e.kids[i])]
        all(es) == [i \in DOMAIN es |-> Bare(es[i])]
    IN CASE e.t = "Block" /\ Len(e.kids) = 1 /\ e.tail -> kids[1]
         [] e.t = "Lit" -> IF e.v[1] = "int" /\ e.v[2] < 0 THEN UnOp("Negate", Lit(<<"int", -e.v[2]>>)) ELSE e
         [] e.t = "Match" -> [e EXCEPT !.kids = kids, !.arms = [i \in DOMAIN e.arms |->
                                 Arm(e.arms[i].pat, all(e.arms[i].guard), Bare(e.arms[i].body))]]
         [] e.t = "Try" /\ e.catch # <<>> -> [e EXCEPT !.kids = kids, !.catch = <<e.catch[1], Bare(e.catch[2])>>]
         [] e.t = "Fn" -> [e EXCEPT !.kids = kids, !.defaults = [i \in DOMAIN e.defaults |-> all(e.defaults[i])]]
         [] OTHER -> [e EXCEPT !.kids = kids]
=============================================================================
