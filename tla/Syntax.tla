------------------------------- MODULE Syntax -------------------------------
(***************************************************************************)
(* The syntax trees of tigr (src/src/vm/ast.rs): what the parser builds,   *)
(* the folder rewrites and the compiler lowers.                            *)
(*                                                                         *)
(* An expression is a record with its kind in `t` and its direct           *)
(* sub-expressions, in source order, in `kids`.  A kind of expression with *)
(* more to say (a name, an operator, a pattern) has further fields.  Spans *)
(* are left out: no rule of the compiler depends on them.                  *)
(***************************************************************************)
EXTENDS Naturals, Sequences, SequencesExt

\* K(x).  TLC evaluates x once, before K, where it would otherwise carry the
\* unevaluated x through the whole of K.
Strictly(x, K(_)) == CHOOSE r \in {K(y) : y \in {x}} : TRUE

\* op(... op(op(x, seq[1]), seq[2]) ..., seq[n]), evaluated in that order.
Through(op(_, _), x, seq) ==
    LET f[i \in 0..Len(seq)] ==
            IF i = 0 THEN x ELSE Strictly(f[i - 1], LAMBDA y : op(y, seq[i]))
    IN f[Len(seq)]

ThroughDomain(op(_, _), x, seq) == Through(op, x, [i \in DOMAIN seq |-> i])


-----------------------------------------------------------------------------
(* Values that a literal can denote.  Floats, big integers and bytes are   *)
(* left out.                                                               *)
NullV == <<"null">>
IntV(n) == <<"int", n>>
BoolV(b) == <<"bool", b>>
StrV(s) == <<"str", s>>

(* Expressions *)
Lit(v) == [t |-> "Lit", v |-> v, kids |-> <<>>]
Null == [t |-> "Null", kids |-> <<>>]
Ident(x) == [t |-> "Ident", name |-> x, kids |-> <<>>]
BinOp(op, l, r) == [t |-> "BinOp", op |-> op, kids |-> <<l, r>>]
UnOp(op, e) == [t |-> "UnOp", op |-> op, kids |-> <<e>>]
\* `kids` holds the statements and, when `tail` is TRUE, the tail expression.
Block(es, tail) == [t |-> "Block", kids |-> es, tail |-> tail]
Scope(es, tail) == [t |-> "Scope", kids |-> es, tail |-> tail]
Decl(pat, e) == [t |-> "Decl", pat |-> pat, kids |-> <<e>>]
\* op is "" for `x = e`, the operator for `x op= e`.
Assign(x, op, e) == [t |-> "Assign", name |-> x, op |-> op, kids |-> <<e>>]
AssignPattern(pat, e) == [t |-> "AssignPattern", pat |-> pat, kids |-> <<e>>]
If(c, a, b) == [t |-> "If", kids |-> <<c, a, b>>]
While(arr, c, body) == [t |-> "While", arr |-> arr, kids |-> <<c, body>>]
For(arr, vars, it, body) == [t |-> "For", arr |-> arr, vars |-> vars, kids |-> <<it, body>>]
\* kids is <<from, to>> or <<from, to, step>>.
RangeExpr(incl, es) == [t |-> "Range", incl |-> incl, kids |-> es]
\* For break, return and yield, kids is <<>> or <<value>>.
Break(es) == [t |-> "Break", kids |-> es]
Return(es) == [t |-> "Return", kids |-> es]
Yield(es) == [t |-> "Yield", kids |-> es]
Continue == [t |-> "Continue", kids |-> <<>>]
Array(es) == [t |-> "Array", kids |-> es]
\* keys[i] is the key of kids[i], or "..." for a spread member.
Object(keys, es) == [t |-> "Object", keys |-> keys, kids |-> es]
Spread(e) == [t |-> "Spread", kids |-> <<e>>]
Template(es) == [t |-> "Template", kids |-> es]
Index(o, k) == [t |-> "Index", kids |-> <<o, k>>]
IndexAssign(o, k, op, e) == [t |-> "IndexAssign", op |-> op, kids |-> <<o, k, e>>]
Call(f, args) == [t |-> "Call", kids |-> <<f>> \o args]
\* defaults[i] is <<>> or <<default of params[i]>>; rest is "" for none.
Fn(params, defaults, rest, body, gen) ==
    [t |-> "Fn", params |-> params, defaults |-> defaults, rest |-> rest,
     gen |-> gen, kids |-> <<body>>]
\* catch is <<>> or <<name, handler>>.
Try(body, catch) == [t |-> "Try", catch |-> catch, kids |-> <<body>>]
Raise(e) == [t |-> "Raise", kids |-> <<e>>]
Import(e) == [t |-> "Import", kids |-> <<e>>]
Spawn(e) == [t |-> "Spawn", kids |-> <<e>>]
Go(e) == [t |-> "Go", kids |-> <<e>>]
Match(subject, arms) == [t |-> "Match", arms |-> arms, kids |-> <<subject>>]
\* guard is <<>> or <<expression>>.
Arm(pat, guard, body) == [pat |-> pat, guard |-> guard, body |-> body]

(* Patterns of a binding and of a match arm.  A field is [key, pat].       *)
PWild == [p |-> "Wild"]
PName(x) == [p |-> "Name", name |-> x]
PArr(items, rest) == [p |-> "Arr", items |-> items, rest |-> rest]
PObj(fields, rest) == [p |-> "Obj", fields |-> fields, rest |-> rest]
PField(key, pat) == [key |-> key, pat |-> pat]
PLit(v) == [p |-> "Lit", v |-> v]
\* A shorthand field of a match pattern binds the value to its key.
PShort == [p |-> "Short"]
PRange(from, to, incl) == [p |-> "Range", from |-> from, to |-> to, incl |-> incl]
POr(alts) == [p |-> "Or", alts |-> alts]

-----------------------------------------------------------------------------
RECURSIVE LeafNames(_)
(* The names a binding pattern introduces, in the order of the source.     *)
LeafNames(pat) ==
    LET rest == IF pat.rest = "" THEN <<>> ELSE <<pat.rest>>
    IN CASE pat.p = "Wild" -> <<>>
         [] pat.p = "Name" -> <<pat.name>>
         [] pat.p = "Arr" -> FlattenSeq([i \in DOMAIN pat.items |-> LeafNames(pat.items[i])]) \o rest
         [] pat.p = "Obj" -> FlattenSeq([i \in DOMAIN pat.fields |-> LeafNames(pat.fields[i].pat)]) \o rest

RECURSIVE ExprToPattern(_)
(* An expression read as the pattern of a binding: [ok, pat].  A spread is  *)
(* allowed only as the last element, and only of a name.                   *)
ExprToPattern(e) ==
    LET n == Len(e.kids)
        isRest(i) == IF e.t = "Array" THEN e.kids[i].t = "Spread" ELSE e.keys[i] = "..."
        restName(i) == IF e.t = "Array" THEN e.kids[i].kids[1] ELSE e.kids[i]
        rests == {i \in 1..n : isRest(i)}
        subs == [i \in 1..n |-> IF isRest(i) THEN [ok |-> TRUE] ELSE ExprToPattern(e.kids[i])]
        fits == /\ \A i \in rests : i = n /\ restName(i).t = "Ident"
                /\ \A i \in 1..n : subs[i].ok
        items == [i \in 1..(n - IF rests = {} THEN 0 ELSE 1) |-> subs[i].pat]
        rest == IF rests = {} THEN "" ELSE restName(n).name
        bad == [ok |-> FALSE]
    IN CASE e.t = "Ident" ->
              [ok |-> TRUE, pat |-> IF e.name = "_" THEN PWild ELSE PName(e.name)]
         [] e.t = "Array" -> IF fits THEN [ok |-> TRUE, pat |-> PArr(items, rest)] ELSE bad
         [] e.t = "Object" ->
              IF fits THEN [ok |-> TRUE,
                            pat |-> PObj([i \in DOMAIN items |-> PField(e.keys[i], items[i])], rest)]
              ELSE bad
         [] OTHER -> bad
=============================================================================
