------------------------------- MODULE Folder -------------------------------
(***************************************************************************)
(* Constant folding (src/src/vm/fold.rs): a rewrite of the tree, run       *)
(* between the parser and the compiler, that replaces an operation on      *)
(* literals by its result.  An operation that would raise is left for the  *)
(* machine, which raises it where a handler can see it.                    *)
(***************************************************************************)
EXTENDS Values

IsLiteral(e) == e.t \in {"Lit", "Null"}
FoldableOps == {"Add", "Sub", "Mul", "Div", "Mod", "Pow"}

\* A result is a literal unless the operation declines; adding to an array
\* does not arise, for an array is not a literal.
FoldBinOp(e) ==
    LET l == e.kids[1]
        r == e.kids[2]
        res == BinaryOp(e.op, l.v, r.v, <<>>)
    IN IF l.t = "Lit" /\ r.t = "Lit" /\ e.op \in FoldableOps /\ res.ok THEN Lit(res.v) ELSE e

FoldUnOp(e) ==
    LET v == e.kids[1].v
    IN IF /\ e.op = "Negate" /\ e.kids[1].t = "Lit" /\ v[1] = "int"
          /\ UnaryOp("Negate", v, <<>>).ok
       THEN Lit(UnaryOp("Negate", v, <<>>).v) ELSE e

\* `(literal)` is the literal; `{literal}` opens a scope and stays.
FoldBlock(e) ==
    IF Len(e.kids) = 1 /\ e.tail /\ IsLiteral(e.kids[1]) THEN e.kids[1] ELSE e

RECURSIVE Fold(_)
FoldIn(es) == [i \in DOMAIN es |-> Fold(es[i])]
FoldArm(arm) == [arm EXCEPT !.guard = FoldIn(@), !.body = Fold(@)]

(* The sub-expressions first, then the expression itself.                   *)
Fold(e) ==
    LET inner == [e EXCEPT !.kids = FoldIn(@)]
    IN CASE e.t = "BinOp" -> FoldBinOp(inner)
         [] e.t = "UnOp" -> FoldUnOp(inner)
         [] e.t = "Block" -> FoldBlock(inner)
         [] e.t = "Fn" -> [inner EXCEPT !.defaults = [i \in DOMAIN @ |-> FoldIn(@[i])]]
         [] e.t = "Try" -> IF e.catch = <<>> THEN inner ELSE [inner EXCEPT !.catch[2] = Fold(@)]
         [] e.t = "Match" -> [inner EXCEPT !.arms = [i \in DOMAIN @ |-> FoldArm(@[i])]]
         [] OTHER -> inner

\* The program itself is a block whose parts are folded, never collapsed.
FoldProgram(block) == [block EXCEPT !.kids = FoldIn(@)]
=============================================================================
