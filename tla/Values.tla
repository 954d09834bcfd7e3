------------------------------- MODULE Values -------------------------------
(***************************************************************************)
(* The values of tigr and the operations on them that raise no question of *)
(* control: arithmetic, comparison, indexing, spreading and iterating      *)
(* (src/src/vm/value.rs and the helpers at the end of src/src/vm/vm.rs).   *)
(*                                                                         *)
(* A value is a tuple tagged with its type.  Arrays, objects, functions,   *)
(* iterators and generators are references <<tag, i>> into a heap, a       *)
(* sequence of records.  An array's record has its `items`, an object's    *)
(* the sequence `pairs` of its <<key, value>> in insertion order.          *)
(* An operation that can raise returns a record: `ok`, and either the      *)
(* value `v` and the heap it leaves, or the `kind` of the error.           *)
(*                                                                         *)
(* Floats are uninterpreted and no operation takes one; big integers,      *)
(* bytes, maps and sets are left out.  Integers have the range             *)
(* MinInt..MaxInt in place of 64 bits.                                     *)
(***************************************************************************)
EXTENDS Syntax, Integers

CONSTANT MaxInt
ASSUME MaxIntAssumption == MaxInt \in Nat \ {0}
MinInt == -MaxInt - 1

FloatV(op, x, y) == <<"float", op, x, y>>
ArrV(i) == <<"arr", i>>
ObjV(i) == <<"obj", i>>
FnV(i) == <<"fn", i>>
IterV(i) == <<"iter", i>>
GenV(i) == <<"gen", i>>
NativeV(name) == <<"native", name>>
RangeV(from, to, step, incl) == <<"range", from, to, step, incl>>
\* A built-in error as a handler sees it: `${kind, message, line}`, of which
\* only the kind is kept.
ErrV(kind) == <<"err", kind>>

ArrayObj(items) == [k |-> "arr", items |-> items]
ObjectObj(pairs) == [k |-> "obj", pairs |-> pairs]

Done(v, heap) == [ok |-> TRUE, v |-> v, heap |-> heap]
Fail(kind) == [ok |-> FALSE, kind |-> kind]
Alloc(obj, mk(_), heap) == Done(mk(Len(heap) + 1), Append(heap, obj))

IsTruthy(v) == v # NullV /\ v # BoolV(FALSE)

\* The native functions that programs here use, with their arity.
Natives == [type |-> 1]
TypeName(v) ==
    CASE v[1] = "str" -> "string" [] v[1] = "arr" -> "array" [] v[1] = "obj" -> "object"
      [] v[1] \in {"fn", "native"} -> "function" [] v[1] = "iter" -> "iterator"
      [] v[1] = "gen" -> "generator" [] v[1] = "err" -> "object" [] OTHER -> v[1]

-----------------------------------------------------------------------------
RECURSIVE Deep(_, _)
(* What a value looks like, whatever the heap it lives in: two collections  *)
(* are equal when they look alike.                                          *)
Deep(v, heap) ==
    CASE v[1] = "arr" ->
           <<"arr", [i \in DOMAIN heap[v[2]].items |-> Deep(heap[v[2]].items[i], heap)]>>
      [] v[1] = "obj" ->
           <<"obj", {<<heap[v[2]].pairs[i][1], Deep(heap[v[2]].pairs[i][2], heap)>> :
                       i \in DOMAIN heap[v[2]].pairs}>>
      [] OTHER -> v

Field(pairs, key) ==
    LET is == {i \in DOMAIN pairs : pairs[i][1] = key}
    IN IF is = {} THEN NullV ELSE pairs[CHOOSE i \in is : TRUE][2]

\* IndexMap::insert: an existing key keeps its place.
Put(pairs, key, v) ==
    IF \E i \in DOMAIN pairs : pairs[i][1] = key
    THEN [i \in DOMAIN pairs |-> IF pairs[i][1] = key THEN <<key, v>> ELSE pairs[i]]
    ELSE Append(pairs, <<key, v>>)

Checked(n, heap) == IF n \in MinInt..MaxInt THEN Done(IntV(n), heap) ELSE Fail("overflow")

\* Division and remainder truncate towards zero.
Magnitude(n) == IF n < 0 THEN -n ELSE n
Rem(x, y) == (Magnitude(x) % Magnitude(y)) * (IF x < 0 THEN -1 ELSE 1)
Quot(x, y) == (Magnitude(x) \div Magnitude(y)) * (IF (x < 0) # (y < 0) THEN -1 ELSE 1)

ArithDiv(x, y, heap) ==
    IF y = 0 THEN Fail("div_by_zero")
    ELSE IF x = MinInt /\ y = -1 THEN Fail("overflow")
    ELSE IF Rem(x, y) = 0 THEN Done(IntV(Quot(x, y)), heap)
    ELSE Done(FloatV("Div", x, y), heap)

ArithMod(x, y, heap) ==
    IF y = 0 THEN Fail("div_by_zero") ELSE Done(IntV(Rem(x, y)), heap)

Arith(op, x, y, heap) ==
    CASE op = "Add" -> Checked(x + y, heap)
      [] op = "Sub" -> Checked(x - y, heap)
      [] op = "Mul" -> Checked(x * y, heap)
      [] op = "Div" -> ArithDiv(x, y, heap)
      [] op = "Mod" -> ArithMod(x, y, heap)
      [] op = "Pow" -> Done(FloatV("Pow", x, y), heap)

ArithAdd(a, b, heap) ==
    CASE a[1] = "int" /\ b[1] = "int" -> Arith("Add", a[2], b[2], heap)
      [] a[1] = "str" /\ b[1] = "str" -> Done(StrV(a[2] \o b[2]), heap)
      [] a[1] = "arr" /\ b[1] = "arr" ->
           Alloc(ArrayObj(heap[a[2]].items \o heap[b[2]].items), ArrV, heap)
      [] a[1] = "arr" /\ b[1] # "arr" ->
           Alloc(ArrayObj(Append(heap[a[2]].items, b)), ArrV, heap)
      [] OTHER -> Fail("type_mismatch")

Compare(op, a, b, heap) ==
    LET lt == a[2] < b[2]
    IN IF a[1] # "int" \/ b[1] # "int" THEN Fail("type_mismatch")
       ELSE Done(BoolV(CASE op = "Lt" -> lt [] op = "Le" -> lt \/ a[2] = b[2]
                         [] op = "Gt" -> ~lt /\ a[2] # b[2] [] op = "Ge" -> ~lt), heap)

(* The two-operand opcodes, `a` being the lower of the two operands.        *)
BinaryOp(op, a, b, heap) ==
    CASE op = "Add" -> ArithAdd(a, b, heap)
      [] op = "Eq" -> Done(BoolV(Deep(a, heap) = Deep(b, heap)), heap)
      [] op = "Neq" -> Done(BoolV(Deep(a, heap) # Deep(b, heap)), heap)
      [] op \in {"Lt", "Le", "Gt", "Ge"} -> Compare(op, a, b, heap)
      [] OTHER -> IF a[1] = "int" /\ b[1] = "int" THEN Arith(op, a[2], b[2], heap)
                  ELSE Fail("type_mismatch")

(* `a += b` changes the array a in place; any other target is added.        *)
AddAssign(a, b, heap) ==
    IF a[1] # "arr" THEN ArithAdd(a, b, heap)
    ELSE LET more == IF b[1] = "arr" THEN heap[b[2]].items ELSE <<b>>
         IN Done(a, [heap EXCEPT ![a[2]].items = @ \o more])

\* A value inside a template; of the others, only the type is kept.
Display(v) ==
    CASE v[1] = "str" -> v[2]
      [] v[1] = "null" -> "null"
      [] v[1] \in {"int", "bool"} -> ToString(v[2])
      [] OTHER -> TypeName(v)

RangeLength(r) ==
    LET up == r[4] > 0
        span == IF up THEN r[3] - r[2] ELSE r[2] - r[3]
    IN IF r[4] = 0 \/ span < 0 \/ (span = 0 /\ ~r[5]) THEN 0
       ELSE IF r[5] THEN span \div Magnitude(r[4]) + 1
       ELSE (span - 1) \div Magnitude(r[4]) + 1

Elements(v, heap) ==
    CASE v[1] = "arr" -> heap[v[2]].items
      [] v[1] = "range" -> [i \in 1..RangeLength(v) |-> IntV(v[2] + (i - 1) * v[4])]
      [] v[1] = "str" -> [i \in 1..Len(v[2]) |-> StrV(SubSeq(v[2], i, i))]

(* `#v`                                                                     *)
LenOf(v, heap) ==
    IF v[1] \in {"arr", "range", "str"} THEN Done(IntV(Len(Elements(v, heap))), heap)
    ELSE IF v[1] = "obj" THEN Done(IntV(Len(heap[v[2]].pairs)), heap)
    ELSE Fail("type_mismatch")

UnaryOp(op, v, heap) ==
    CASE op = "Not" -> Done(BoolV(~IsTruthy(v)), heap)
      [] op = "Len" -> LenOf(v, heap)
      [] op = "Negate" -> IF v[1] = "int" THEN Checked(-v[2], heap) ELSE Fail("type_mismatch")

\* A negative index counts from the end; 0 stands for "out of bounds".
NormalizeIndex(n, len) ==
    LET i == IF n < 0 THEN n + len ELSE n
    IN IF i < 0 \/ i >= len THEN 0 ELSE i + 1

IndexGet(coll, key, heap) ==
    CASE coll[1] = "obj" ->
           IF key[1] = "str" THEN Done(Field(heap[coll[2]].pairs, key[2]), heap)
           ELSE Fail("invalid_index_type")
      [] coll[1] = "err" -> Done(IF key = StrV("kind") THEN StrV(coll[2]) ELSE NullV, heap)
      [] coll[1] \in {"arr", "range", "str"} ->
           IF key[1] # "int" THEN Fail("invalid_index_type")
           ELSE LET es == Elements(coll, heap)
                    i == NormalizeIndex(key[2], Len(es))
                IN Done(IF i = 0 THEN NullV ELSE es[i], heap)
      [] OTHER -> Fail("type_mismatch")

IndexSet(coll, key, v, heap) ==
    CASE coll[1] = "obj" ->
           IF key[1] = "str"
           THEN Done(v, [heap EXCEPT ![coll[2]].pairs = Put(@, key[2], v)])
           ELSE Fail("invalid_index_type")
      [] coll[1] = "arr" ->
           IF key[1] # "int" THEN Fail("invalid_index_type")
           ELSE LET i == NormalizeIndex(key[2], Len(heap[coll[2]].items))
                IN IF i = 0 THEN Fail("index_out_of_bounds")
                   ELSE Done(v, [heap EXCEPT ![coll[2]].items[i] = v])
      [] coll[1] = "str" -> Fail("immutable_target")
      [] OTHER -> Fail("type_mismatch")

(* `[...v]` onto the array `target`, for the values that spread without a   *)
(* call (extend_array).                                                     *)
ExtendArray(target, v, heap) ==
    IF v[1] \in {"arr", "range", "str"}
    THEN Done(target, [heap EXCEPT ![target[2]].items = @ \o Elements(v, heap)])
    ELSE Fail("type_mismatch")

(* `${...v}` onto the object `target`: a later key wins, in its old place.  *)
MergeObject(target, v, heap) ==
    IF v[1] # "obj" THEN Fail("type_mismatch")
    ELSE Done(target, [heap EXCEPT ![target[2]].pairs =
             Through(LAMBDA ps, kv : Put(ps, kv[1], kv[2]), @, heap[v[2]].pairs)])

(* `[..., ...rest]` from index n on, and `${..., ...rest}` without `keys`.  *)
SliceFrom(v, n, heap) ==
    IF v[1] # "arr" THEN Fail("type_mismatch")
    ELSE Alloc(ArrayObj(SubSeq(heap[v[2]].items, n + 1, Len(heap[v[2]].items))), ArrV, heap)

ObjRest(v, keys, heap) ==
    IF v[1] # "obj" THEN Fail("type_mismatch")
    ELSE Alloc(ObjectObj(SelectSeq(heap[v[2]].pairs, LAMBDA kv : StrV(kv[1]) \notin ToSet(keys))),
               ObjV, heap)

\* The step of a range without one is chosen by its direction.
MakeRange(from, to, step, incl, heap) ==
    IF {from[1], to[1]} \cup (IF step = <<>> THEN {} ELSE {step[1][1]}) # {"int"}
    THEN Fail("type_mismatch")
    ELSE Done(RangeV(from[2], to[2],
                     IF step # <<>> THEN step[1][2] ELSE IF from[2] <= to[2] THEN 1 ELSE -1,
                     incl), heap)

TypeTest(tag, v) ==
    CASE tag = 4 -> v[1] = "arr" [] tag = 5 -> v[1] \in {"obj", "err"} [] tag = 8 -> v[1] = "int"

-----------------------------------------------------------------------------
(* Iterators.  `at` counts the elements already delivered; a range keeps    *)
(* its current number, which wraps at the end of the integers.              *)
IsCallable(v) == v[1] \in {"fn", "native"}
IsIterObject(v, heap) == v[1] = "obj" /\ IsCallable(Field(heap[v[2]].pairs, "next"))

Wrap(n) == ((n - MinInt) % (2 * MaxInt + 2)) + MinInt

MakeIter(v, heap) ==
    LET it(kind) == [k |-> "iter", kind |-> kind, src |-> v, at |-> 0, done |-> FALSE,
                     cur |-> IF v[1] = "range" THEN v[2] ELSE 0]
    IN CASE v[1] \in {"arr", "range", "str"} -> Alloc(it(v[1]), IterV, heap)
         [] v[1] = "obj" ->
              Alloc(it(IF IsIterObject(v, heap) THEN "object" ELSE "entries"), IterV, heap)
         [] OTHER -> Fail("type_mismatch")

(* One advance of a built-in iterator: [more, counter, v, it].              *)
Advance(it, heap) ==
    LET src == it.src
        pairs == heap[src[2]].pairs
        next == [it EXCEPT !.at = @ + 1]
        End == [more |-> FALSE, it |-> it]
        Next(counter, v) == [more |-> TRUE, counter |-> counter, v |-> v, it |-> next]
        inRange == IF src[4] > 0 THEN it.cur < src[3] \/ (src[5] /\ it.cur = src[3])
                   ELSE /\ src[4] < 0
                        /\ it.cur > src[3] \/ (src[5] /\ it.cur = src[3])
    IN CASE it.kind = "range" ->
              IF ~inRange THEN End
              ELSE [more |-> TRUE, counter |-> IntV(it.at), v |-> IntV(it.cur),
                    it |-> [next EXCEPT !.cur = Wrap(@ + src[4])]]
         [] it.kind = "entries" ->
              IF it.at >= Len(pairs) THEN End
              ELSE Next(StrV(pairs[it.at + 1][1]), pairs[it.at + 1][2])
         [] OTHER -> LET es == Elements(src, heap)
                     IN IF it.at >= Len(es) THEN End ELSE Next(IntV(it.at), es[it.at + 1])

(* The answer of an iterator object's next(): [ok, done, v].                *)
ParseIterResult(v, heap) ==
    IF v[1] # "obj" \/ ~\E i \in DOMAIN heap[v[2]].pairs : heap[v[2]].pairs[i][1] = "done"
    THEN Fail("type_mismatch")
    ELSE [ok |-> TRUE, done |-> IsTruthy(Field(heap[v[2]].pairs, "done")),
          v |-> Field(heap[v[2]].pairs, "value")]
=============================================================================
