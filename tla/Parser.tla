------------------------------- MODULE Parser -------------------------------
(***************************************************************************)
(* The parser (src/src/vm/parser.rs): from tokens to a syntax tree, by     *)
(* recursive descent, going on after an error so that all are reported.    *)
(*                                                                         *)
(* A token is <<its spelling>>, or <<kind, value>> for Int, Str, Ident and *)
(* Template; the last one is <<"Eof">>.  A parse function takes the state  *)
(* of the parser to the one after it: `at` is the next token, `errs` what  *)
(* has been recorded, and `e` the tree (or the list) just read, or, when   *)
(* `ok` is FALSE, the error that the function returns.  What does not      *)
(* change is the text, `toks`, and the way back into the grammar:          *)
(* read[n, at] is an expression of level n at token `at`.                  *)
(***************************************************************************)
EXTENDS Integers, Syntax

Peek(s) == s.toks[s.at][1]
Value(s) == s.toks[s.at][2]
Next_(s) == IF Peek(s) = "Eof" THEN s ELSE [s EXCEPT !.at = @ + 1]
Give(s, e) == [s EXCEPT !.e = e]
Error(s, err) == [s EXCEPT !.ok = FALSE, !.e = err]
Unexpected(s) == Error(s, <<"UnexpectedToken", Peek(s)>>)

\* K(s), unless s has failed: Rust's `?`.
Then(s, K(_)) == IF s.ok THEN K(s) ELSE s

Expect(s, k) == Then(s, LAMBDA t : IF Peek(t) = k THEN Next_(t) ELSE Error(t, <<"Expected", k, Peek(t)>>))
\* The token k, keeping the tree read before it.
Name(s) == IF Peek(s) = "Ident" THEN Give(Next_(s), Value(s)) ELSE Unexpected(s)

-----------------------------------------------------------------------------
RECURSIVE ParseStatements(_, _, _), ParseList(_, _, _, _), LeftLoop(_, _), PostfixLoop(_), ParseIf(_)
RECURSIVE ParseMatchPattern(_), ParseParts(_, _, _), Synchronize(_, _, _), Parser(_)
RECURSIVE ParseUnary(_), ParsePrimary(_)

\* An expression with no operator of its own that is looser than level n.
ParseLevel(s, n) ==
    LET t == s.read[n, s.at]
    IN [s EXCEPT !.at = t.at, !.ok = t.ok, !.e = t.e, !.errs = @ \o t.errs]
ParseExpr(s) == ParseLevel(s, 1)

(* Skips to a place where a statement may begin: past a `;` outside any     *)
(* bracket opened since, or before the end of the block.                   *)
Synchronize(s, close, depth) ==
    LET k == Peek(s)
    IN CASE k = "Eof" \/ (depth = 0 /\ k = close) -> s
         [] k = ";" /\ depth = 0 -> Next_(s)
         [] k \in {"(", "[", "{"} -> Synchronize(Next_(s), close, depth + 1)
         [] k \in {")", "]", "}"} /\ ~(depth = 0 /\ k = close) ->
              Synchronize(Next_(s), close, IF depth > 0 THEN depth - 1 ELSE 0)
         [] OTHER -> Synchronize(Next_(s), close, depth)

Recorded(s, err) == [s EXCEPT !.ok = TRUE, !.errs = Append(@, err)]

(* The statements up to `close`, after stmts: never an error of its own.    *)
ParseStatements(s, close, stmts) ==
    IF Peek(s) \in {close, "Eof"} THEN Give(s, Block(stmts, FALSE))
    ELSE LET t == ParseExpr(s)
         IN CASE ~t.ok -> ParseStatements(Synchronize(Recorded(t, t.e), close, 0), close, stmts)
              [] t.ok /\ Peek(t) = ";" -> ParseStatements(Next_(t), close, Append(stmts, t.e))
              [] t.ok /\ Peek(t) \in {close, "Eof"} -> Give(t, Block(Append(stmts, t.e), TRUE))
              [] t.ok /\ Peek(t) \notin {";", close, "Eof"} ->
                   ParseStatements(Recorded(t, <<"MissingSemicolon">>), close, Append(stmts, t.e))

ParseBlock(s) == Expect(ParseStatements(Next_(s), ")", <<>>), ")")
ParseScope(s) ==
    Then(Expect(s, "{"), LAMBDA t :
    Then(Expect(ParseStatements(t, "}", <<>>), "}"), LAMBDA u : Give(u, Scope(u.e.kids, u.e.tail))))

-----------------------------------------------------------------------------
(* Operators, from the loosest level to the tightest.                       *)
OperatorsAt ==
    [n \in 2..12 |->
        CASE n = 2 -> {"||"} [] n = 3 -> {"&&"} [] n = 4 -> {"==", "!=", "<", "<=", ">", ">="}
          [] n = 5 -> {"|"} [] n = 6 -> {"^"} [] n = 7 -> {"&"} [] n = 8 -> {"|>"} [] n = 9 -> {"..", "..="}
          [] n = 10 -> {"<<", ">>"} [] n = 11 -> {"+", "-"} [] n = 12 -> {"*", "/", "%"}]
Range_ == 9
Power == 13
Unary == 14

Opcode(k) ==
    CASE k = "||" -> "Or" [] k = "&&" -> "And" [] k = "==" -> "Eq" [] k = "!=" -> "Neq"
      [] k = "<" -> "Lt" [] k = "<=" -> "Le" [] k = ">" -> "Gt" [] k = ">=" -> "Ge"
      [] k = "|" -> "BitOr" [] k = "^" -> "BitXor" [] k = "&" -> "BitAnd" [] k = "<<" -> "Shl" [] k = ">>" -> "Shr"
      [] k = "+" -> "Add" [] k = "-" -> "Sub" [] k = "*" -> "Mul" [] k = "/" -> "Div" [] k = "%" -> "Mod"
UnaryOpcode(k) ==
    CASE k = "-" -> "Negate" [] k = "!" -> "Not" [] k = "#" -> "Len" [] k = "~" -> "BitNot"
\* x |> f(args) is f(x, args).
Piped(l, r) == IF r.t = "Call" THEN Call(r.kids[1], <<l>> \o Tail(r.kids)) ELSE Call(r, <<l>>)

LeftLoop(s, n) ==
    IF Peek(s) \notin OperatorsAt[n] THEN s
    ELSE Then(ParseLevel(Next_(s), n + 1), LAMBDA t :
           LeftLoop(Give(t, IF n = 8 THEN Piped(s.e, t.e) ELSE BinOp(Opcode(Peek(s)), s.e, t.e)), n))

ParseStep(s, incl, from) ==
    IF Peek(s) # ":" THEN Give(s, RangeExpr(incl, <<from, s.e>>))
    ELSE Then(ParseLevel(Next_(s), Range_ + 1), LAMBDA t : Give(t, RangeExpr(incl, <<from, s.e, t.e>>)))
ParseRange(s) ==
    IF Peek(s) \notin OperatorsAt[Range_] THEN s
    ELSE Then(ParseLevel(Next_(s), Range_ + 1), LAMBDA t : ParseStep(t, Peek(s) = "..=", s.e))

\* What follows a left operand of level n + 1.
Following(s, n) == IF ~s.ok THEN s ELSE IF n = Range_ THEN ParseRange(s) ELSE LeftLoop(s, n)

\* Wrong: the exponent is read as a unary expression.
PowerOfUnary(s) ==
    Then(ParseUnary(s), LAMBDA t :
        IF Peek(t) # "^^" THEN t
        ELSE Then(ParseLevel(Next_(t), Unary), LAMBDA u : Give(u, BinOp("Pow", t.e, u.e))))
ParsePower(s) ==
    Then(ParseUnary(s), LAMBDA t :
        IF Peek(t) # "^^" THEN t
        ELSE Then(ParseLevel(Next_(t), Power), LAMBDA u : Give(u, BinOp("Pow", t.e, u.e))))

\* The operator of an assignment: "" for the plain one.
Compound_(k) ==
    CASE k = "=" -> "" [] k = "+=" -> "Add" [] k = "-=" -> "Sub" [] k = "*=" -> "Mul" [] k = "/=" -> "Div" [] k = "%=" -> "Mod"
Assignments == {":=", "=", "+=", "-=", "*=", "/=", "%="}

\* `target k value`, the value just read by s.
Assigned(s, k, target) ==
    LET pat == ExprToPattern(target)
        isPattern == target.t \in {"Array", "Object"} /\ k = "="
    IN CASE k = ":=" -> IF pat.ok THEN Give(s, Decl(pat.pat, s.e)) ELSE Error(s, <<"InvalidPattern">>)
         [] k # ":=" /\ target.t = "Ident" -> Give(s, Assign(target.name, Compound_(k), s.e))
         [] k # ":=" /\ target.t = "Index" ->
              Give(s, IndexAssign(target.kids[1], target.kids[2], Compound_(k), s.e))
         [] isPattern -> IF pat.ok THEN Give(s, AssignPattern(pat.pat, s.e)) ELSE Error(s, <<"InvalidPattern">>)
         [] k # ":=" /\ target.t \notin {"Ident", "Index"} /\ ~isPattern -> Error(s, <<"InvalidAssignTarget">>)
ParseAssign(s) ==
    IF Peek(s) \notin Assignments THEN s
    ELSE Then(ParseExpr(Next_(s)), LAMBDA t : Assigned(t, Peek(s), s.e))

ParseUnary(s) ==
    IF Peek(s) \in {"-", "!", "#", "~"}
    THEN Then(ParseLevel(Next_(s), Unary), LAMBDA t : Give(t, UnOp(UnaryOpcode(Peek(s)), t.e)))
    ELSE Then(ParsePrimary(s), PostfixLoop)

PostfixLoop(s) ==
    CASE Peek(s) = "[" ->
           Then(Expect(ParseExpr(Next_(s)), "]"), LAMBDA t : PostfixLoop(Give(t, Index(s.e, t.e))))
      [] Peek(s) = "." ->
           Then(Name(Next_(s)), LAMBDA t : PostfixLoop(Give(t, Index(s.e, Lit(StrV(t.e))))))
      [] Peek(s) = "(" ->
           Then(ParseList(Next_(s), "spreadable", ")", <<>>), LAMBDA t : PostfixLoop(Give(t, Call(s.e, t.e))))
      [] OTHER -> s

-----------------------------------------------------------------------------
(* Lists: items separated by commas, a last comma allowed, and the bracket  *)
(* that closes them.                                                        *)
Spreadable(s) ==
    IF Peek(s) = "..." THEN Then(ParseExpr(Next_(s)), LAMBDA t : Give(t, Spread(t.e))) ELSE ParseExpr(s)

Member(s) ==
    CASE Peek(s) = "..." -> Then(ParseExpr(Next_(s)), LAMBDA t : Give(t, <<"...", t.e>>))
      [] Peek(s) \in {"Ident", "Str"} ->
           LET t == Next_(s)
           IN IF Peek(t) = ":" THEN Then(ParseExpr(Next_(t)), LAMBDA u : Give(u, <<Value(s), u.e>>))
              ELSE Give(t, <<Value(s), Ident(Value(s))>>)
      [] Peek(s) \notin {"...", "Ident", "Str"} -> Unexpected(s)

\* `...name`, which must be the last item.
Rest(s, close) ==
    Then(Name(Next_(s)), LAMBDA t : IF Peek(t) = close THEN Give(t, [rest |-> t.e]) ELSE Error(t, <<"InvalidPattern">>))
IsRest(item) == DOMAIN item = {"rest"}

\* A parameter is read as an expression: an assignment is a default.
AsParam(e) ==
    LET pat == ExprToPattern(e)
    IN CASE e.t = "Assign" /\ e.op = "" -> [ok |-> TRUE, pat |-> PName(e.name), default |-> e.kids]
         [] e.t # "Assign" /\ pat.ok -> [ok |-> TRUE, pat |-> pat.pat, default |-> <<>>]
         [] OTHER -> [ok |-> FALSE]
Param(s) ==
    IF Peek(s) = "..." THEN Rest(s, ")")
    ELSE Then(ParseExpr(s), LAMBDA t : LET p == AsParam(t.e) IN IF p.ok THEN Give(t, p) ELSE Error(t, <<"InvalidPattern">>))

ItemPattern(s) == IF Peek(s) = "..." THEN Rest(s, "]") ELSE ParseMatchPattern(s)
FieldPattern(s) ==
    IF Peek(s) = "..." THEN Rest(s, "}")
    ELSE Then(Name(s), LAMBDA t :
           IF Peek(t) # ":" THEN Give(t, PField(t.e, PShort))
           ELSE Then(ParseMatchPattern(Next_(t)), LAMBDA u : Give(u, PField(t.e, u.e))))

MatchArm(s) ==
    Then(ParseMatchPattern(s), LAMBDA p :
    Then(IF Peek(p) = "if" THEN Then(ParseExpr(Next_(p)), LAMBDA g : Give(g, <<g.e>>)) ELSE Give(p, <<>>), LAMBDA g :
    Then(Expect(g, "=>"), LAMBDA t :
    Then(ParseExpr(t), LAMBDA b : Give(b, Arm(p.e, g.e, b.e))))))

BindingOf(x) == IF x = "_" THEN PWild ELSE PName(x)
SelectArm(s) ==
    IF Peek(s) = "else"
    THEN Then(Expect(Next_(s), "=>"), LAMBDA t : Then(ParseExpr(t), LAMBDA b : Give(b, [else |-> b.e])))
    ELSE Then(Name(s), LAMBDA x :
         Then(Expect(x, ":="), LAMBDA t :
         Then(Expect(ParseExpr(t), "=>"), LAMBDA ch :
         Then(ParseExpr(ch), LAMBDA b : Give(b, [bind |-> BindingOf(x.e), channel |-> ch.e, body |-> b.e])))))

ParseItem(s, item) ==
    CASE item = "spreadable" -> Spreadable(s) [] item = "member" -> Member(s) [] item = "param" -> Param(s)
      [] item = "item" -> ItemPattern(s) [] item = "field" -> FieldPattern(s)
      [] item = "arm" -> MatchArm(s) [] item = "select" -> SelectArm(s)
ParseList(s, item, close, es) ==
    IF Peek(s) = close THEN Give(Next_(s), es)
    ELSE Then(ParseItem(s, item), LAMBDA t :
           IF Peek(t) = "," THEN ParseList(Next_(t), item, close, Append(es, t.e))
           ELSE Expect(Give(t, Append(es, t.e)), close))

-----------------------------------------------------------------------------
(* Patterns of a match arm.                                                 *)
Number(s) ==
    LET t == IF Peek(s) = "-" THEN Next_(s) ELSE s
    IN IF Peek(t) = "Int" THEN Give(Next_(t), IntV(IF Peek(s) = "-" THEN -Value(t) ELSE Value(t))) ELSE Unexpected(t)

NumberPattern(s) ==
    Then(Number(s), LAMBDA t :
        IF Peek(t) \notin {"..", "..="} THEN Give(t, PLit(t.e))
        ELSE Then(Number(Next_(t)), LAMBDA u : Give(u, PRange(t.e, u.e, Peek(t) = "..="))))

\* The items before a rest, and its name.
Front_(items) == SelectSeq(items, LAMBDA i : ~IsRest(i))
RestOf(items) == IF items # <<>> /\ IsRest(Last(items)) THEN Last(items).rest ELSE ""

PatternPrimary(s) ==
    LET k == Peek(s)
        literal(v) == Give(Next_(s), PLit(v))
    IN CASE k \in {"Int", "-"} -> NumberPattern(s)
         [] k = "Str" -> literal(StrV(Value(s)))
         [] k = "true" -> literal(BoolV(TRUE)) [] k = "false" -> literal(BoolV(FALSE)) [] k = "null" -> literal(NullV)
         [] k = "Ident" -> Give(Next_(s), BindingOf(Value(s)))
         [] k = "[" -> Then(ParseList(Next_(s), "item", "]", <<>>), LAMBDA t : Give(t, PArr(Front_(t.e), RestOf(t.e))))
         [] k = "$" -> Then(Expect(Next_(s), "{"), LAMBDA b :
                       Then(ParseList(b, "field", "}", <<>>), LAMBDA t : Give(t, PObj(Front_(t.e), RestOf(t.e)))))
         [] OTHER -> Unexpected(s)

RECURSIVE Alternatives(_, _)
Alternatives(s, alts) ==
    IF Peek(s) # "|" THEN Give(s, alts)
    ELSE Then(PatternPrimary(Next_(s)), LAMBDA t : Alternatives(t, Append(alts, t.e)))
ParseMatchPattern(s) ==
    Then(PatternPrimary(s), LAMBDA t :
        IF Peek(t) # "|" THEN t ELSE Then(Alternatives(t, <<t.e>>), LAMBDA u : Give(u, POr(u.e))))

-----------------------------------------------------------------------------
(* Expressions that begin with a keyword or a bracket; s is at it.          *)
Operand(s, Of(_)) == Then(ParseExpr(Next_(s)), LAMBDA t : Give(t, Of(t.e)))
\* The value of return, break and yield is left out before a token that no
\* expression begins with.
OptionalOperand(s, Of(_)) ==
    IF Peek(Next_(s)) \in {";", ")", "}", "]", ",", "Eof"} THEN Give(Next_(s), Of(<<>>))
    ELSE Operand(s, LAMBDA e : Of(<<e>>))

\* The body is read one level above ||, so that `try a || b` is `(try a) || b`.
TryLevel == 3
ParseTry(s) ==
    Then(ParseLevel(Next_(s), TryLevel), LAMBDA body :
        IF Peek(body) # "catch" THEN Give(body, Try(body.e, <<>>))
        ELSE Then(Expect(Next_(body), "("), LAMBDA t :
             Then(Expect(Name(t), ")"), LAMBDA x :
             Then(ParseScope(x), LAMBDA handler : Give(handler, Try(body.e, <<x.e, handler.e>>))))))

ParseIf(s) ==
    Then(ParseExpr(Next_(s)), LAMBDA c :
    Then(ParseScope(c), LAMBDA a :
    Then(CASE Peek(a) # "else" -> Give(a, Null)
           [] Peek(a) = "else" /\ Peek(Next_(a)) = "if" -> ParseIf(Next_(a))
           [] Peek(a) = "else" /\ Peek(Next_(a)) # "if" -> ParseScope(Next_(a)), LAMBDA b :
    Give(b, If(c.e, a.e, b.e)))))

\* `[]` after for, while and parallel.
ArrayForm(s) == Then(IF Peek(s) = "[" THEN Expect(Next_(s), "]") ELSE s, LAMBDA t : Give(t, Peek(s) = "["))

ParseWhile(s) ==
    Then(ArrayForm(Next_(s)), LAMBDA arr :
    Then(ParseExpr(arr), LAMBDA c :
    Then(ParseScope(c), LAMBDA body : Give(body, While(arr.e, c.e, body.e)))))

(* `(x, it) { }` and `(x, y, it) { }`: what follows the first name is read  *)
(* as an expression, and is the second name when a comma comes next.        *)
LoopHead(s) ==
    Then(Expect(s, "("), LAMBDA t :
    Then(Expect(Name(t), ","), LAMBDA x :
    Then(ParseExpr(x), LAMBDA e :
    Expect(CASE Peek(e) # "," -> Give(e, [vars |-> <<x.e>>, it |-> e.e])
             [] Peek(e) = "," /\ e.e.t = "Ident" ->
                  Then(ParseExpr(Next_(e)), LAMBDA it : Give(it, [vars |-> <<x.e, e.e.name>>, it |-> it.e]))
             [] Peek(e) = "," /\ e.e.t # "Ident" -> Error(e, <<"InvalidAssignTarget">>), ")"))))

ParseFor(s) ==
    Then(ArrayForm(Next_(s)), LAMBDA arr :
    Then(LoopHead(arr), LAMBDA head :
    Then(ParseScope(head), LAMBDA body : Give(body, For(arr.e, head.e.vars, head.e.it, body.e)))))

\* Start an actor for each element, then join them all.
SpawnAll(head, body) ==
    Block(<<Decl(PName("$parallel_tasks"),
                 For(TRUE, head.vars, head.it, Spawn(Fn(<<>>, <<>>, "", body, FALSE)))),
            For(TRUE, <<"$parallel_t">>, Ident("$parallel_tasks"), Call(Ident("join"), <<Ident("$parallel_t")>>))>>, TRUE)
ParseParallel(s) ==
    Then(ArrayForm(Next_(s)), LAMBDA arr :
    Then(LoopHead(arr), LAMBDA head :
    Then(ParseScope(head), LAMBDA body : Give(body, SpawnAll(head.e, body.e)))))

\* A match over the index and the message that __select returns.
SelectMatch(arms) ==
    LET receives == SelectSeq(arms, LAMBDA a : "bind" \in DOMAIN a)
        elses == SelectSeq(arms, LAMBDA a : "else" \in DOMAIN a)
        received(i) == PObj(<<PField("index", PLit(IntV(i - 1))), PField("value", receives[i].bind)>>, "")
    IN Match(Call(Ident("__select"), <<Array([i \in DOMAIN receives |-> receives[i].channel]), Lit(BoolV(elses # <<>>))>>),
             [i \in DOMAIN receives |-> Arm(received(i), <<>>, receives[i].body)]
                \o (IF elses = <<>> THEN <<>> ELSE <<Arm(PWild, <<>>, Last(elses).else)>>))
ParseSelect(s) ==
    Then(Expect(Next_(s), "{"), LAMBDA t :
    Then(ParseList(t, "select", "}", <<>>), LAMBDA arms : Give(arms, SelectMatch(arms.e))))

ParseMatch(s) ==
    Then(Expect(ParseExpr(Next_(s)), "{"), LAMBDA subject :
    Then(ParseList(subject, "arm", "}", <<>>), LAMBDA arms : Give(arms, Match(subject.e, arms.e))))

ParseFn(s, gen) ==
    Then(Expect(s, "fn"), LAMBDA f :
    Then(Expect(f, "("), LAMBDA t :
    Then(ParseList(t, "param", ")", <<>>), LAMBDA ps :
    Then(ParseScope(ps), LAMBDA body :
        LET params == Front_(ps.e)
        IN Give(body, Fn([i \in DOMAIN params |-> params[i].pat], [i \in DOMAIN params |-> params[i].default],
                         RestOf(ps.e), body.e, gen))))))

ParseObject(s) ==
    Then(Expect(Next_(s), "{"), LAMBDA t :
    Then(ParseList(t, "member", "}", <<>>), LAMBDA ms :
        Give(ms, Object([i \in DOMAIN ms.e |-> ms.e[i][1]], [i \in DOMAIN ms.e |-> ms.e[i][2]]))))

(* Each interpolation is read by a parser of its own, whose recorded errors *)
(* go with it.                                                              *)
ParseParts(s, parts, es) ==
    IF parts = <<>> THEN Give(s, Template(es))
    ELSE IF Head(parts)[1] = "Lit" THEN ParseParts(s, Tail(parts), Append(es, Lit(StrV(Head(parts)[2]))))
    ELSE LET sub == ParseExpr(Parser(Head(parts)[2]))
         IN CASE ~sub.ok -> Error(s, sub.e)
              [] sub.ok /\ Peek(sub) # "Eof" -> Error(s, <<"InterpolationError">>)
              [] sub.ok /\ Peek(sub) = "Eof" -> ParseParts(s, Tail(parts), Append(es, sub.e))

Literal(s) ==
    LET k == Peek(s)
    IN Give(Next_(s), CASE k = "Int" -> Lit(IntV(Value(s))) [] k = "Str" -> Lit(StrV(Value(s)))
                        [] k = "true" -> Lit(BoolV(TRUE)) [] k = "false" -> Lit(BoolV(FALSE))
                        [] k = "null" -> Null [] k = "Ident" -> Ident(Value(s)))

ParsePrimary(s) ==
    LET k == Peek(s)
    IN CASE k \in {"Int", "Str", "true", "false", "null", "Ident"} -> Literal(s)
         [] k = "Template" -> ParseParts(Next_(s), Value(s), <<>>)
         [] k = "(" -> ParseBlock(s)
         [] k = "{" -> ParseScope(s)
         [] k = "[" -> Then(ParseList(Next_(s), "spreadable", "]", <<>>), LAMBDA t : Give(t, Array(t.e)))
         [] k = "$" -> ParseObject(s)
         [] k = "if" -> ParseIf(s) [] k = "while" -> ParseWhile(s) [] k = "for" -> ParseFor(s)
         [] k = "fn" -> ParseFn(s, FALSE) [] k = "gen" -> ParseFn(Next_(s), TRUE)
         [] k = "return" -> OptionalOperand(s, Return) [] k = "break" -> OptionalOperand(s, Break)
         [] k = "yield" -> OptionalOperand(s, Yield) [] k = "continue" -> Give(Next_(s), Continue)
         [] k = "import" -> Operand(s, Import) [] k = "raise" -> Operand(s, Raise)
         [] k = "spawn" -> Operand(s, Spawn) [] k = "go" -> Operand(s, Go)
         [] k = "try" -> ParseTry(s) [] k = "match" -> ParseMatch(s)
         [] k = "select" -> ParseSelect(s) [] k = "parallel" -> ParseParallel(s)
         [] OTHER -> Unexpected(s)

(* A level reads one of the next level, then the operators of its own that  *)
(* follow.                                                                  *)
AtLevel(s, n) ==
    CASE n = 1 -> Then(ParseLevel(s, 2), ParseAssign)
      [] n \in 2..12 -> Then(ParsePower(s), LAMBDA t : Through(Following, t, [i \in 1..(13 - n) |-> 13 - i]))
      [] n = Power -> ParsePower(s)
      [] n = Unary -> ParseUnary(s)

(* The parser of a text, at its first token.                                *)
Parser(toks) ==
    LET state(read_, at) == [read |-> read_, toks |-> toks, at |-> at, errs |-> <<>>, ok |-> TRUE, e |-> Null]
        read[n \in 1..Unary, at \in DOMAIN toks] ==
            LET t == AtLevel(state(read, at), n) IN [at |-> t.at, ok |-> t.ok, e |-> t.e, errs |-> t.errs]
    IN state(read, 1)

(* A whole text: what was read, and every error.                            *)
ParseProgram(toks) ==
    Strictly(toks, LAMBDA ts :
        Strictly(ParseStatements(Parser(ts), "Eof", <<>>), LAMBDA s : [block |-> s.e, errs |-> s.errs]))
=============================================================================
