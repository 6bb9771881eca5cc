------------------------------ MODULE Lowering ------------------------------
(***************************************************************************)
(* Lowering of a checked tree to the intermediate representation           *)
(* (compiler/src/ir.rs).                                                   *)
(*                                                                         *)
(* A function is a sequence of blocks of values and a terminator; values   *)
(* are numbered in the order they are made, and variables live in slots.   *)
(* A construct is lowered by a script: a sequence of steps for the builder,*)
(* which keeps the values the steps leave on a stack.  Some steps stand    *)
(* for scripts of their own (Eval of a subexpression, Stmt of a nested     *)
(* statement).  The number of a block or of a slot is not observable, so   *)
(* a script makes all of its blocks and hidden slots first.                *)
(***************************************************************************)
EXTENDS Typing
LOCAL INSTANCE TLC
LOCAL INSTANCE SequencesExt

\* Steps.  Op takes its n arguments from the stack and leaves its result there,
\* Do leaves nothing; As names the top of the stack, V brings it back.
Op(op, n, ty, imm) == [k |-> "Op", op |-> op, n |-> n, ty |-> ty, imm |-> imm]
Do(op, n, imm) == [k |-> "Do", op |-> op, n |-> n, ty |-> UnitTy, imm |-> imm]
Native(name, n, ty) == Op("NativeCall", n, ty, name)
K(ty, t, v) == Op("Const", 0, ty, [t |-> t, v |-> v])
IntC(v) == K(I64Ty, "i64", v)
StrC(v) == K(StrTy, "str", v)
As(x) == [k |-> "As", x |-> x]
V(x) == [k |-> "V", x |-> x]
Get(name) == [k |-> "Get", name |-> name]
Put(name) == [k |-> "Put", name |-> name]
Keep(name, ty) == [k |-> "Keep", name |-> name, ty |-> ty]
New(n) == [k |-> "New", n |-> n]
At(block) == [k |-> "At", to |-> block]
Fresh == [k |-> "Fresh"]
Br(block) == [k |-> "Br", to |-> block]
IfBr(t, f) == [k |-> "If", t |-> t, f |-> f]
Ret(n) == [k |-> "Ret", n |-> n]
Throw == [k |-> "Throw"]
Loop(header, exit) == [k |-> "Loop", loop |-> <<header, exit>>]
EndLoop == [k |-> "EndLoop"]
\* Steps that stand for scripts.
Eval(e) == [k |-> "Eval", e |-> e]
Stmt(s) == [k |-> "Stmt", s |-> s]
Binop(op, ty) == [k |-> "Binop", op |-> op, ty |-> ty]
Coerce(from, to) == [k |-> "Coerce", from |-> from, to |-> to]
StrOf(ty) == [k |-> "StrOf", ty |-> ty]
Normalize == [k |-> "Normalize"]
Select == [k |-> "Select"]
Fetch(lv) == [k |-> "Fetch", lv |-> lv]
Store(lv) == [k |-> "Store", lv |-> lv]
Lift(e, key, n) == [k |-> "Lift", e |-> e, key |-> key, n |-> n]
Scripts == {"Eval", "Stmt", "Binop", "Coerce", "StrOf", "Normalize", "Select", "Fetch", "Store"}

Each(n, S(_)) == FlattenSeq([i \in 1..n |-> S(i)])
N(x, i) == x \o ToString(i)
EvalEach(es, x) == Each(Len(es), LAMBDA i : <<Eval(es[i]), As(N(x, i))>>)
VEach(n, x) == [i \in 1..n |-> V(N(x, i))]
Block(b) == [i \in DOMAIN b |-> Stmt(b[i])]

-----------------------------------------------------------------------------
(* The builder.                                                            *)
Unreachable == [k |-> "Unreachable"]
Builder(subst, inplace, key) ==
  [blocks |-> <<[vals |-> <<>>, term |-> Unreachable]>>, cur |-> 1, tys |-> <<>>, slots |-> <<>>, loops |-> <<>>,
   st |-> <<>>, tmp |-> <<>>, inplace |-> inplace, subst |-> subst, key |-> key, lifted |-> <<>>, insts |-> {}]

HasSlot(b, name) == \E i \in DOMAIN b.slots : b.slots[i][1] = name
Slot(b, name) == CHOOSE i \in DOMAIN b.slots : b.slots[i][1] = name
ExprTy(e, b) == SubstTy(e.ty, b.subst)
Top(b, n) == b.tys[b.st[Len(b.st) + 1 - n]]
L(b, i) == Len(b.blocks) + i
H(b, i) == ToString(Len(b.slots)) \o "." \o ToString(i)

PushValue(b, ty, op, args, imm) ==
  [b EXCEPT !.blocks[b.cur].vals = Append(@, [id |-> Len(b.tys) + 1, ty |-> ty, op |-> op, args |-> args, imm |-> imm]),
            !.tys = Append(@, ty)]
Pop(b, n) == [b EXCEPT !.st = SubSeq(@, 1, Len(@) - n)]
Args(b, n) == SubSeq(b.st, Len(b.st) - n + 1, Len(b.st))
PushId(b, id) == [b EXCEPT !.st = Append(@, id)]
\* A block ends once: what would end it again is dropped.
Terminate(b, term) == IF b.blocks[b.cur].term.k = "Unreachable" THEN [b EXCEPT !.blocks[b.cur].term = term] ELSE b
NewBlocks(b, n) == [b EXCEPT !.blocks = @ \o [i \in 1..n |-> [vals |-> <<>>, term |-> Unreachable]]]
AllocSlot(b, name, ty) == IF HasSlot(b, name) THEN b ELSE [b EXCEPT !.slots = Append(@, <<name, ty>>)]

Step(s, b) ==
  CASE s.k = "Op" ->
         LET made == PushValue(Pop(b, s.n), s.ty, s.op, Args(b, s.n), s.imm)
         IN  [PushId(made, Len(made.tys)) EXCEPT !.insts = IF s.op = "DirectCall" THEN @ \cup {s.imm} ELSE @]
    [] s.k = "Do" -> PushValue(Pop(b, s.n), UnitTy, s.op, Args(b, s.n), s.imm)
    [] s.k = "As" -> [Pop(b, 1) EXCEPT !.tmp = (s.x :> Last(b.st)) @@ @]
    [] s.k = "V" -> PushId(b, b.tmp[s.x])
    [] s.k = "Get" ->
         LET i == Slot(b, s.name)
             made == PushValue(b, b.slots[i][2], "ReadLocal", <<>>, i)
         IN  PushId(made, Len(made.tys))
    [] s.k = "Put" -> LET kept == AllocSlot(b, s.name, Top(b, 1))
                      IN  PushValue(Pop(kept, 1), UnitTy, "WriteLocal", Args(b, 1), Slot(kept, s.name))
    [] s.k = "Keep" -> AllocSlot(b, s.name, s.ty)
    [] s.k = "New" -> NewBlocks(b, s.n)
    [] s.k = "At" -> [b EXCEPT !.cur = s.to]
    [] s.k = "Fresh" -> [NewBlocks(b, 1) EXCEPT !.cur = Len(b.blocks) + 1]
    [] s.k = "Br" -> Terminate(b, [k |-> "Branch", to |-> s.to])
    [] s.k = "If" -> Terminate(Pop(b, 1), [k |-> "CondBranch", cond |-> Last(b.st), t |-> s.t, f |-> s.f])
    [] s.k = "Ret" -> Terminate(Pop(b, s.n), [k |-> "Ret", value |-> Args(b, s.n)])
    [] s.k = "Throw" -> Terminate(Pop(b, 1), [k |-> "Throw", exc |-> Last(b.st)])
    [] s.k = "Loop" -> [b EXCEPT !.loops = Append(@, s.loop)]
    [] s.k = "EndLoop" -> [b EXCEPT !.loops = Front(@)]

-----------------------------------------------------------------------------
(* Layout and dispatch.                                                    *)
SizeOf(ty) == CASE IsPrim(ty, {"bool", "i8", "u8", "char"}) -> 1 [] IsPrim(ty, {"i16", "u16"}) -> 2
                [] IsPrim(ty, {"i32", "u32", "f32"}) -> 4 [] OTHER -> 8
AlignUp(n, a) == ((n + a - 1) \div a) * a
\* Fields are laid out in order, each aligned to its own size.
Layout(c, cx) ==
  LET fs == FieldsOf(c, cx)
      ty(i) == AstTy(fs[i].ty, {}, cx)
      off[i \in 1..Len(fs)] == AlignUp(IF i = 1 THEN 0 ELSE off[i - 1] + SizeOf(ty(i - 1)), SizeOf(ty(i)))
  IN  [i \in DOMAIN fs |-> [name |-> fs[i].name, ty |-> ty(i), off |-> off[i]]]
FieldAt(ty, name, cx) ==
  CASE ty.k = "Tuple" -> 8 * ((CHOOSE i \in DOMAIN ty.elems : name = ToString(i - 1)) - 1)
    [] OTHER -> LET fs == Layout(ty.c, cx) IN fs[CHOOSE i \in DOMAIN fs : fs[i].name = name].off

MethodKey(c, m) == <<c \o "." \o m, <<>>>>
Declares(c, m, cx) == \E i \in DOMAIN cx.classes[c].methods : cx.classes[c].methods[i].name = m
\* A method of a class nothing extends, declared there, is called directly.
CallMethod(c, m, n, ty, cx) ==
  IF ~cx.classes[c].open /\ Declares(c, m, cx) THEN Op("DirectCall", n, ty, MethodKey(c, m))
  ELSE Op("VirtualCall", n, ty, SlotOf(c, m, cx))
ClassHas(ty, m, cx) == ty.k = "Class" /\ ty.c \in DOMAIN cx.classes /\ HasMethod(ty.c, m, cx)

-----------------------------------------------------------------------------
(* Operators, on the operands at the top of the stack.                     *)
IntOps == [op \in {"+", "-", "*", "/", "//", "%", "&", "|", "^", "<<", ">>", "==", "!=", "<", "<=", ">", ">=", "in", "not in"} |->
  CASE op = "+" -> "IAdd" [] op = "-" -> "ISub" [] op = "*" -> "IMul" [] op \in {"/", "//"} -> "IDiv" [] op = "%" -> "IRem"
    [] op = "&" -> "IAnd" [] op = "|" -> "IOr" [] op = "^" -> "IXor" [] op = "<<" -> "IShl" [] op = ">>" -> "IShr"
    [] op \in {"==", "in"} -> "IEq" [] op \in {"!=", "not in"} -> "INe" [] op = "<" -> "ILt" [] op = "<=" -> "ILe"
    [] op = ">" -> "IGt" [] op = ">=" -> "IGe"]
FloatOps == [op \in {"+", "-", "*", "/", "//", "==", "!=", "<", "<=", ">", ">="} |->
  CASE op = "+" -> "FAdd" [] op = "-" -> "FSub" [] op = "*" -> "FMul" [] op \in {"/", "//"} -> "FDiv" [] op = "==" -> "FEq"
    [] op = "!=" -> "FNe" [] op = "<" -> "FLt" [] op = "<=" -> "FLe" [] op = ">" -> "FGt" [] op = ">=" -> "FGe"]
Arithmetic_ == {"+", "-", "*", "/", "//", "%", "&", "|", "^", "<<", ">>"}
Not == Op("BoolNot", 1, BoolTy, "")

BinopScript(op, ty, b) ==
  LET operand == UnwrapNullable(Top(b, 2))
      str == operand = StrTy
      float == IsPrim(operand, Floats)
      inDict == IsGeneric(UnwrapNullable(Top(b, 1)), "Dict") /\ UnwrapNullable(Top(b, 1)).args[1] = StrTy
      has == <<As("r"), As("l"), V("r"), V("l"), Native("DictHas", 2, BoolTy)>>
  IN  CASE op = "+" /\ str -> <<Native("StrConcat", 2, StrTy)>>
        [] op = "**" -> <<Native(IF float THEN "MathPow" ELSE "IntPow", 2, ty)>>
        [] op = "==" /\ str -> <<Op("StrEq", 2, ty, "")>>
        [] op = "!=" /\ str -> <<Op("StrEq", 2, BoolTy, ""), Not>>
        [] op \in {"<", "<=", ">", ">="} /\ str -> <<Native("StrCmp", 2, I64Ty), IntC(0), Op(IntOps[op], 2, ty, "")>>
        [] op = "is" -> <<Op("RefEq", 2, ty, "")>>
        [] op = "is not" -> <<Op("RefEq", 2, BoolTy, ""), Not>>
        [] op = "in" /\ inDict -> has
        [] op = "not in" /\ inDict -> Append(has, Not)
        [] float /\ op \in DOMAIN FloatOps -> <<Op(FloatOps[op], 2, ty, "")>>
        [] OTHER -> <<Op(IntOps[op], 2, ty, "")>>

CoerceScript(from, to) ==
  LET native(name) == <<Native(name, 1, Prim(to))>>
  IN  CASE from = to -> <<>>
        [] to = "i64" /\ from \in {"i8", "i16", "i32", "u8", "u16", "u32", "bool"} -> native("I64FromI32")
        [] to = "f64" /\ from \in {"i8", "i16", "i32", "bool"} -> native("F64FromI32")
        [] to = "f64" /\ from = "i64" -> native("F64FromI64")
        [] to = "f64" /\ from = "f32" -> <<Op("FExt", 1, F64Ty, "")>>
        [] to = "i32" /\ from \in {"i8", "i16", "bool"} -> <<Op("Copy", 1, Prim("i32"), "")>>
        [] OTHER -> <<>>

\* The operands of an arithmetic operator are widened to a common type first.
ArithmeticScript(e, b) ==
  LET lty == UnwrapNullable(ExprTy(e.lhs, b))
      rty == UnwrapNullable(ExprTy(e.rhs, b))
      common == IF NumericCommonTy(lty.p, rty.p) = "none" THEN lty.p ELSE NumericCommonTy(lty.p, rty.p)
      target == IF e.op = "/" THEN "f64" ELSE common
      plain == <<Binop(e.op, ExprTy(e, b))>>
  IN  IF ~(IsNumeric(lty) /\ IsNumeric(rty)) \/ e.op \in {"<<", ">>"} THEN plain
      ELSE <<As("r"), Coerce(lty.p, target), V("r"), Coerce(rty.p, target),
             Binop(e.op, IF e.op = "/" THEN F64Ty ELSE ExprTy(e, b))>>

TupleEqScript(op, elems) ==
  LET load(i, x) == <<V(x), Op("Load", 1, elems[i], 8 * (i - 1))>>
      equal(i) == load(i, "l") \o load(i, "r") \o <<Binop("==", BoolTy)>>
                    \o (IF i = 1 THEN <<>> ELSE <<Op("IAnd", 2, BoolTy, "")>>)
  IN  IF elems = <<>> THEN <<K(BoolTy, "bool", op = "==")>>
      ELSE <<As("r"), As("l")>> \o Each(Len(elems), equal) \o (IF op = "!=" THEN <<Not>> ELSE <<>>)

\* The right operand is evaluated only if the left one does not decide.
ShortCircuitScript(e, b) ==
  LET h == H(b, 1)
      rhs == L(b, 1)
      merge == L(b, 2)
  IN  <<New(2), Keep(h, BoolTy), Eval(e.lhs), As("l"), V("l"), Put(h), V("l"),
        IF e.op = "and" THEN IfBr(rhs, merge) ELSE IfBr(merge, rhs),
        At(rhs), Eval(e.rhs), Put(h), Br(merge), At(merge), Get(h)>>

BinaryScript(e, b, cx) ==
  LET lty == ExprTy(e.lhs, b)
      both == <<Eval(e.lhs), Eval(e.rhs)>>
      dunder == IF lty.k = "Class" /\ e.op \in DOMAIN Dunder THEN DunderOf(e.op, lty.c, cx) ELSE <<>>
      borrowed == dunder = <<"__eq__">> /\ e.op = "!="
  IN  CASE e.op \in {"and", "or"} -> ShortCircuitScript(e, b)
        [] e.op \in {"==", "!="} /\ lty.k = "Tuple" /\ ExprTy(e.rhs, b).k = "Tuple" -> both \o TupleEqScript(e.op, lty.elems)
        [] dunder # <<>> -> both \o <<CallMethod(lty.c, dunder[1], 2, IF borrowed THEN BoolTy ELSE ExprTy(e, b), cx)>>
                                 \o (IF borrowed THEN <<Not>> ELSE <<>>)
        [] OTHER -> both \o ArithmeticScript(e, b)

UnaryScript(e, b) ==
  LET ty == ExprTy(e, b)
      op == CASE e.op = "-" -> IF IsPrim(UnwrapNullable(ty), Floats) THEN "FNeg" ELSE "INeg"
              [] e.op = "+" -> "Copy" [] e.op = "~" -> "INot" [] e.op = "not" -> "BoolNot"
  IN  <<Eval(e.operand), Op(op, 1, ty, "")>>

-----------------------------------------------------------------------------
(* Text.                                                                   *)
Concat == Native("StrConcat", 2, StrTy)
StrNative(ty) ==
  CASE IsPrim(ty, {"i32", "u32", "i8", "i16", "u8", "u16"}) -> "StrFromI32" [] IsPrim(ty, {"i64", "u64"}) -> "StrFromI64"
    [] IsPrim(ty, Floats) -> "StrFromF64" [] IsPrim(ty, {"bool"}) -> "StrFromBool" [] IsPrim(ty, {"char"}) -> "StrFromChar"
    [] OTHER -> "StrFromAny"
\* A part of the text of an object or a tuple: a field and what precedes it.
Part(before, off, ty) == <<StrC(before), Concat, V("v"), Op("Load", 1, ty, off), StrOf(ty), Concat>>
StrOfScript(ty, cx) ==
  LET elem(i) == (IF i = 1 THEN <<>> ELSE <<StrC(", "), Concat>>)
                   \o <<V("v"), Op("Load", 1, ty.elems[i], 8 * (i - 1)), StrOf(ty.elems[i]), Concat>>
      fs == Layout(ty.c, cx)
      field(i) == Part((IF i = 1 THEN "" ELSE ", ") \o fs[i].name \o "=", fs[i].off, fs[i].ty)
  IN  CASE ty = StrTy -> <<>>
        [] ty.k = "Tuple" -> <<As("v"), StrC("(")>> \o Each(Len(ty.elems), elem) \o <<StrC(")"), Concat>>
        [] ClassHas(ty, "__str__", cx) -> <<CallMethod(ty.c, "__str__", 1, StrTy, cx)>>
        [] ClassHas(ty, "__repr__", cx) -> <<CallMethod(ty.c, "__repr__", 1, StrTy, cx)>>
        [] ty.k = "Class" -> <<As("v"), StrC(ty.c \o "(")>> \o Each(Len(fs), field) \o <<StrC(")"), Concat>>
        [] OTHER -> <<Native(StrNative(ty), 1, StrTy)>>

-----------------------------------------------------------------------------
(* Places.                                                                 *)
\* A negative index counts from the end of the list.
NormalizeScript(b) ==
  LET h == H(b, 1)
  IN  <<New(2), Keep(h, I64Ty), As("i"), As("a"), V("i"), Put(h), V("i"), IntC(0), Op("ILt", 2, BoolTy, ""), IfBr(L(b, 1), L(b, 2)),
        At(L(b, 1)), V("a"), Op("ArrayLen", 1, I64Ty, ""), V("i"), Op("IAdd", 2, I64Ty, ""), Put(h), Br(L(b, 2)),
        At(L(b, 2)), V("a"), Get(h)>>
ElementScript(ty, e, b, cx) ==
  CASE IsGeneric(ty, "Dict") -> <<Native("DictGet", 2, ExprTy(e, b))>>
    [] ty = StrTy -> <<Native("StrCharAt", 2, ExprTy(e, b))>>
    [] ClassHas(ty, "__getitem__", cx) -> <<CallMethod(ty.c, "__getitem__", 2, ExprTy(e, b), cx)>>
    [] OTHER -> <<Normalize, Op("ArrayGet", 2, ExprTy(e, b), "")>>
FetchScript(e, b, cx) ==
  CASE e.k = "Ident" -> <<Get(e.name)>>
    [] e.k = "Attr" -> <<Eval(e.obj), Op("Load", 1, ExprTy(e, b), FieldAt(ExprTy(e.obj, b), e.name, cx))>>
    [] e.k = "Index" -> <<Eval(e.obj), Eval(e.indices[1])>> \o ElementScript(ExprTy(e.obj, b), e, b, cx)
\* The value to store is on the stack: it was evaluated before the place.
StoreScript(e, b, cx) ==
  LET ty == ExprTy(e.obj, b)
      set == CASE IsGeneric(ty, "Dict") -> <<V("v"), Do("NativeCall", 3, "DictSet")>>
               [] ClassHas(ty, "__setitem__", cx) -> <<V("v"), CallMethod(ty.c, "__setitem__", 3, UnitTy, cx), As("unit")>>
               [] OTHER -> <<Normalize, V("v"), Do("ArraySet", 3, "")>>
  IN  CASE e.k = "Ident" -> <<Put(e.name)>>
        [] e.k = "Attr" -> <<As("v"), Eval(e.obj), V("v"), Do("Store", 2, FieldAt(ty, e.name, cx))>>
        [] e.k = "Index" -> <<As("v"), Eval(e.obj), Eval(e.indices[1])>> \o set

-----------------------------------------------------------------------------
(* Displays, comprehensions, slices and conditionals.                      *)
DisplayScript(e, b) ==
  LET ty == ExprTy(e, b)
  IN  CASE e.k = "Tuple" ->
             EvalEach(e.elems, "e") \o <<Op("Alloc", 0, ty, "Tuple"), As("t")>>
               \o Each(Len(e.elems), LAMBDA i : <<V("t"), V(N("e", i)), Do("Store", 2, 8 * (i - 1))>>) \o <<V("t")>>
        [] e.k = "List" ->
             EvalEach(e.elems, "e") \o <<Op("ArrayNew", 0, ty, ""), As("t")>>
               \o Each(Len(e.elems), LAMBDA i : <<V("t"), V(N("e", i)), Do("ListPush", 2, "")>>) \o <<V("t")>>
        [] e.k = "Dict" ->
             <<Native("DictNew", 0, ty), As("t")>>
               \o Each(Len(e.entries), LAMBDA i : <<V("t"), Eval(e.entries[i][1]), Eval(e.entries[i][2]), Do("NativeCall", 3, "DictSet")>>)
               \o <<V("t")>>

\* The counted loop over a list: i and n are the slots of the index and of the
\* length, the list is named arr, and the body follows with the element.
CountedLoop(i, n, header, body, exit, elemTy, var) ==
  <<IntC(0), Put(i), V("arr"), Op("ArrayLen", 1, I64Ty, ""), Put(n), Keep(var, elemTy), Br(header),
    At(header), Get(i), Get(n), Op("ILt", 2, BoolTy, ""), IfBr(body, exit),
    At(body), V("arr"), Get(i), Op("ArrayGet", 2, elemTy, ""), Put(var)>>
Advance(i, header) == <<Get(i), IntC(1), Op("IAdd", 2, I64Ty, ""), Put(i), Br(header)>>

ComprehensionScript(e, b) ==
  LET out == H(b, 1)
      i == H(b, 2)
      n == H(b, 3)
      iterTy == ExprTy(e.iter, b)
      keep == L(b, 4)
      latch == L(b, 5)
      cond == IF e.cond = <<>> THEN <<Br(keep)>> ELSE <<Eval(e.cond[1]), IfBr(keep, latch)>>
  IN  <<New(5), Keep(out, ExprTy(e, b)), Keep(i, I64Ty), Keep(n, I64Ty),
        Op("ArrayNew", 0, ExprTy(e, b), ""), Put(out), Eval(e.iter), As("arr")>>
        \o CountedLoop(i, n, L(b, 1), L(b, 2), L(b, 3), iterTy.args[1], e.var)
        \o cond \o <<At(keep), Get(out), Eval(e.body), Do("ListPush", 2, ""), Br(latch), At(latch)>> \o Advance(i, L(b, 1))
        \o <<At(L(b, 3)), Get(out)>>

\* Takes cond, then and else from the stack, all three evaluated.
SelectScript(b) ==
  <<New(2), Keep(H(b, 1), I64Ty), As("e"), As("t"), As("c"), V("e"), Put(H(b, 1)), V("c"), IfBr(L(b, 1), L(b, 2)),
    At(L(b, 1)), V("t"), Put(H(b, 1)), Br(L(b, 2)), At(L(b, 2)), Get(H(b, 1))>>

Less == Op("ILt", 2, BoolTy, "")
Greater == Op("IGt", 2, BoolTy, "")
Plus == Op("IAdd", 2, I64Ty, "")
Choose(c, t, e) == <<V(c), V(t), V(e), Select>>
\* x, brought between lo and hi.
Clamp(x, lo, hi, as) ==
  <<V(x), V(hi), Greater, As("over")>> \o Choose("over", hi, x) \o <<As("m"), V("m"), V(lo), Less, As("under")>>
    \o Choose("under", lo, "m") \o <<As(as)>>
\* One end of a slice, given or absent: in which direction it goes is only known
\* at run time, so both readings of it are computed.
Bound(e, fwd, bwd, as) ==
  IF e = <<>> THEN Choose("neg", bwd, fwd) \o <<As(as)>>
  ELSE <<Eval(e[1]), As("x"), V("x"), V("len"), Plus, As("plus"), V("x"), IntC(0), Less, As("isNeg")>>
         \o Choose("isNeg", "plus", "x") \o <<As("adj")>> \o Clamp("adj", "zero", "len", "fwd")
         \o Clamp("adj", "negOne", "lenLess1", "bwd") \o Choose("neg", "bwd", "fwd") \o <<As(as)>>

SliceScript(e, b) ==
  LET ty == ExprTy(e, b)
      isStr == ExprTy(e.obj, b) = StrTy
      r == H(b, 1)
      i == H(b, 2)
      stop == H(b, 3)
      step == H(b, 4)
      body == L(b, 4)
      exit == L(b, 5)
      copy == IF isStr
              THEN <<V("src"), Get(i), Native("StrCharAt", 2, Prim("char")), As("ch"), Get(r), V("ch"), Native("StrAppendChar", 2, StrTy), Put(r)>>
              ELSE <<V("src"), Get(i), Op("ArrayGet", 2, ty.args[1], ""), As("elt"), Get(r), V("elt"), Do("ListPush", 2, "")>>
  IN  <<New(5), Keep(r, ty), Keep(i, I64Ty), Keep(stop, I64Ty), Keep(step, I64Ty), Eval(e.obj), As("src"), V("src"),
        IF isStr THEN Native("Len", 1, I64Ty) ELSE Op("ArrayLen", 1, I64Ty, ""), As("len"),
        IF e.step = <<>> THEN IntC(1) ELSE Eval(e.step[1]), As("step"), IntC(0), As("zero"), IntC(1), As("one"), IntC(-1), As("negOne"),
        V("step"), V("zero"), Less, As("neg"), V("len"), V("one"), Op("ISub", 2, I64Ty, ""), As("lenLess1")>>
      \o Bound(e.lo, "zero", "lenLess1", "from") \o Bound(e.hi, "len", "negOne", "to")
      \o <<IF isStr THEN StrC("") ELSE Op("ArrayNew", 0, ty, ""), Put(r), V("from"), Put(i), V("to"), Put(stop), V("step"), Put(step),
           Br(L(b, 1)), At(L(b, 1)), Get(step), IntC(0), Less, IfBr(L(b, 3), L(b, 2)),
           At(L(b, 2)), Get(i), Get(stop), Less, IfBr(body, exit),
           At(L(b, 3)), Get(i), Get(stop), Greater, IfBr(body, exit), At(body)>>
      \o copy \o <<Get(i), Get(step), Plus, Put(i), Br(L(b, 1)), At(exit), Get(r)>>

CoalesceScript(e, b) ==
  LET h == H(b, 1)
  IN  <<New(2), Keep(h, ExprTy(e, b)), Eval(e.lhs), As("l"), V("l"), Put(h), V("l"), K(NullTy, "none", 0), Op("RefEq", 2, BoolTy, ""),
        IfBr(L(b, 1), L(b, 2)), At(L(b, 1)), Eval(e.rhs), Put(h), Br(L(b, 2)), At(L(b, 2)), Get(h)>>

-----------------------------------------------------------------------------
(* Calls and functions.                                                    *)
\* The arguments in the order of the parameters; a default is evaluated in the
\* place of a missing one.
Bound_(params, args) ==
  LET slots == BindArgs(params, args)
  IN  [i \in DOMAIN params |-> IF slots[i] = 0 THEN params[i].default[1] ELSE args[slots[i]].value]
Values(args) == [i \in DOMAIN args |-> args[i].value]
EvalAll(es) == [i \in DOMAIN es |-> Eval(es[i])]
\* A method's parameters are known where the class of the receiver declares it.
MethodArgs(c, m, args, cx) ==
  IF ~Declares(c, m, cx) THEN Values(args)
  ELSE Bound_(Params(cx.classes[c].methods[CHOOSE i \in DOMAIN cx.classes[c].methods : cx.classes[c].methods[i].name = m]), args)

ConversionOp(to, from) ==
  LET wide == {"i64", "u64"}
      ints == {"i32", "u32", "i8", "i16", "u8", "u16", "bool"}
      of(fs, name) == IF IsPrim(from, fs) THEN <<name>> ELSE <<>>
      fallback(s, name) == IF s = <<>> THEN name ELSE s[1]
  IN  CASE to = "i32" -> fallback(of(wide, "I32FromI64") \o of(ints \cup {"char"}, "Copy"), "I32FromF64")
        [] to = "i64" -> fallback(of(Floats, "I64FromF64") \o of(wide \cup {"char"}, "Copy"), "I64FromI32")
        [] to = "f64" -> fallback(of(ints, "F64FromI32") \o of(Floats, "Copy"), "F64FromI64")
Convert(to, from, ty) ==
  IF ConversionOp(to, from) = "Copy" THEN Op("Copy", 1, ty, "") ELSE Native(ConversionOp(to, from), 1, ty)

\* An object is allocated, an exception is given its name, and the class's own
\* constructor is called if it has one.
ConstructScript(c, args, cx) ==
  LET init == cx.classes[c].init
      values == IF init = <<>> THEN Values(args) ELSE Bound_(Params(init[1]), args)
      n == Len(values)
  IN  EvalEach(values, "a") \o <<Op("Alloc", 0, ClassTy(c), c), As("o")>>
      \o (IF ClassIsException(c, cx) THEN <<V("o"), StrC(c), Do("Store", 2, 0)>> ELSE <<>>)
      \o (IF init = <<>> THEN <<>>
          ELSE <<V("o")>> \o VEach(n, "a") \o <<Op("DirectCall", n + 1, UnitTy, MethodKey(c, "__init__")), As("unit")>>)
      \o <<V("o")>>

BuiltinScript(e, b, cx) ==
  LET name == e.callee.name
      args == EvalAll(Values(e.args))
      argTy == ExprTy(e.args[1].value, b)
  IN  CASE name = "isinstance" -> <<args[1], Op("IsInstance", 1, BoolTy, e.args[2].value.name)>>
        [] name = "print" -> EvalEach(Values(e.args), "a")
             \o Each(Len(e.args), LAMBDA i : LET ty == ExprTy(e.args[i].value, b)
                                             IN  IF ty.k = "Class" THEN <<V(N("a", i)), StrOf(ty), As(N("a", i))>> ELSE <<>>)
             \o VEach(Len(e.args), "a") \o <<Native("Println", Len(e.args), UnitTy)>>
        [] name = "len" -> Append(args, Native(IF IsGeneric(argTy, "Dict") THEN "DictLen" ELSE "Len", Len(args), I64Ty))
        [] name = "str" /\ argTy = StrTy -> Append(args, Op("Copy", 1, StrTy, ""))
        [] name = "str" -> Append(args, StrOf(argTy))
        [] name \in Casts -> Append(args, Convert(name, argTy, ExprTy(e, b)))
        [] OTHER -> Append(args, Native(name, Len(args), ExprTy(e, b)))

CallScript(e, b, cx) ==
  LET name == e.callee.name
      named == e.callee.k = "Ident"
      f == cx.funs[name]
      insts == [i \in DOMAIN e.insts |-> SubstTy(e.insts[i], b.subst)]
      args(es) == EvalAll(es)
      n == Len(e.args)
  IN  CASE named /\ name \in Builtins -> BuiltinScript(e, b, cx)
        [] named /\ name \in DOMAIN cx.classes -> ConstructScript(name, e.args, cx)
        [] named /\ name \in DOMAIN cx.funs /\ f.generics # <<>> ->
             Append(args(Values(e.args)), Op("DirectCall", n, ExprTy(e, b), <<name, insts>>))
        [] named /\ name \in DOMAIN cx.funs ->
             Append(args(Bound_(f.params, e.args)), Op("DirectCall", Len(f.params), ExprTy(e, b), <<name, <<>>>>))
        [] OTHER -> EvalEach(Values(e.args), "a") \o <<Eval(e.callee)>> \o VEach(n, "a") \o <<Op("IndirectCall", n + 1, ExprTy(e, b), "")>>

MethodScript(e, b, cx) ==
  LET ty == ExprTy(e.receiver, b)
      args == IF ty.k = "Class" THEN MethodArgs(ty.c, e.method, e.args, cx) ELSE Values(e.args)
      call == CASE ty.k = "Class" -> <<CallMethod(ty.c, e.method, Len(args) + 1, ExprTy(e, b), cx)>>
                [] e.method = "get" -> <<Native("DictGet", 2, ExprTy(e, b))>>
                [] OTHER -> <<Native("ListAppend", 2, ExprTy(e, b))>>
  IN  <<Eval(e.receiver)>> \o EvalAll(args) \o call

\* The subexpressions of an expression, from left to right.
Values2(entries) == FlattenSeq([i \in DOMAIN entries |-> entries[i]])
Parts(e) ==
  CASE e.k \in {"Tuple", "List"} -> e.elems
    [] e.k = "Dict" -> Values2(e.entries)
    [] e.k = "Unary" -> <<e.operand>>
    [] e.k \in {"Binary", "NullCoalesce"} -> <<e.lhs, e.rhs>>
    [] e.k = "Ternary" -> <<e.cond, e.then, e.else>>
    [] e.k = "Call" -> <<e.callee>> \o Values(e.args)
    [] e.k = "MethodCall" -> <<e.receiver>> \o Values(e.args)
    [] e.k = "Attr" -> <<e.obj>>
    [] e.k = "Index" -> <<e.obj>> \o e.indices
    [] e.k = "Slice" -> <<e.obj>> \o e.lo \o e.hi \o e.step
    [] e.k = "Lambda" -> <<e.body>>
    [] e.k = "Comprehension" -> <<e.iter, e.body>> \o e.cond
    [] OTHER -> <<>>
RECURSIVE FreeVars(_, _)
FreeVars(e, bound) ==
  LET inner == bound \cup (IF e.k = "Lambda" THEN {e.params[i].name : i \in DOMAIN e.params}
                           ELSE IF e.k = "Comprehension" THEN {e.var} ELSE {})
      parts == Parts(e)
  IN  IF e.k = "Ident" THEN (IF e.name \in bound THEN <<>> ELSE <<e.name>>)
      ELSE FlattenSeq([i \in DOMAIN parts |-> FreeVars(parts[i], inner)])
RECURSIVE FirstOnly(_)
FirstOnly(s) == IF s = <<>> THEN s ELSE <<s[1]>> \o FirstOnly(SelectSeq(Tail(s), LAMBDA x : x # s[1]))

\* The variables a lambda uses are read where it stands and become its first
\* parameters.
Captures(e, b) == SelectSeq(FirstOnly(FreeVars(e, {})), LAMBDA x : HasSlot(b, x))
LambdaScript(e, b) ==
  LET captured == Captures(e, b)
      key == <<b.key[1] \o ".lambda" \o ToString(Len(b.tys)), b.key[2]>>
  IN  [i \in DOMAIN captured |-> Get(captured[i])] \o <<Lift(e, key, Len(captured))>>

ExprScript(e, b, cx) ==
  CASE e.k = "Literal" ->
         LET ty == ExprTy(e, b)
             t == CASE e.lit.t = "int" -> IF IsPrim(ty, {"i32", "i64", "u32", "u64"}) THEN ty.p ELSE "i64"
                    [] e.lit.t = "float" -> IF IsPrim(ty, {"f32"}) THEN "f32" ELSE "f64"
                    [] OTHER -> e.lit.t
         IN  <<K(ty, t, IF t \in DOMAIN Half THEN Wrap(e.lit.v, t) ELSE e.lit.v)>>
    [] e.k = "Ident" ->
         IF HasSlot(b, e.name) THEN <<Get(e.name)>>
         ELSE IF e.name \in DOMAIN cx.folded THEN <<K(ExprTy(e, b), cx.folded[e.name].t, cx.folded[e.name].v)>>
         ELSE IF e.name \in DOMAIN cx.funs THEN <<Op("ClosureNew", 0, ExprTy(e, b), <<e.name, <<>>>>)>>
         ELSE <<K(ExprTy(e, b), "none", 0)>>
    [] e.k \in {"Tuple", "List", "Dict"} -> DisplayScript(e, b)
    [] e.k = "Unary" -> UnaryScript(e, b)
    [] e.k = "Binary" -> BinaryScript(e, b, cx)
    [] e.k = "NullCoalesce" -> CoalesceScript(e, b)
    [] e.k = "Ternary" -> <<Eval(e.cond), Eval(e.then), Eval(e.else), Op("Select", 3, ExprTy(e, b), "")>>
    [] e.k = "Call" -> CallScript(e, b, cx)
    [] e.k = "MethodCall" -> MethodScript(e, b, cx)
    [] e.k \in {"Attr", "Index"} -> FetchScript(e, b, cx)
    [] e.k = "Slice" -> SliceScript(e, b)
    [] e.k = "Lambda" -> LambdaScript(e, b)
    [] e.k = "Comprehension" -> ComprehensionScript(e, b)

-----------------------------------------------------------------------------
(* Statements.                                                             *)
IfScript(s, b) ==
  LET rest == IF s.elifs # <<>>
              THEN <<Stmt([s EXCEPT !.cond = s.elifs[1][1], !.then = s.elifs[1][2], !.elifs = Tail(@)])>>
              ELSE IF s.else # <<>> THEN Block(s.else[1]) ELSE <<>>
  IN  <<New(3), Eval(s.cond), IfBr(L(b, 1), L(b, 2)), At(L(b, 1))>> \o Block(s.then) \o <<Br(L(b, 3)), At(L(b, 2))>>
        \o rest \o <<Br(L(b, 3)), At(L(b, 3))>>

WhileScript(s, b) ==
  <<New(3), Br(L(b, 1)), At(L(b, 1)), Eval(s.cond), IfBr(L(b, 2), L(b, 3)), At(L(b, 2)), Loop(L(b, 1), L(b, 3))>>
    \o Block(s.body) \o <<EndLoop, Br(L(b, 1)), At(L(b, 3))>>

\* A range is counted; the sign of a literal step chooses the test.
ConstStep(args) ==
  LET e == args[3].value
  IN  IF Len(args) < 3 THEN <<1>> ELSE IF IsLit(e, {"int"}) THEN <<e.lit.v>>
      ELSE IF IsSign(e) /\ e.op = "-" /\ IsLit(e.operand, {"int"}) THEN <<-e.operand.lit.v>> ELSE <<>>
RangeScript(s, b) ==
  LET args == s.iter.args
      arg(i) == Eval(args[i].value)
      i == H(b, 1)
      stop == H(b, 2)
      step == H(b, 3)
      test == CASE ConstStep(args) = <<>> ->
                     <<Get(stop), Get(i), Binop("-", I64Ty), Get(step), Binop("*", I64Ty), IntC(0), Binop(">", I64Ty)>>
                [] ConstStep(args) = <<0>> -> <<K(BoolTy, "bool", FALSE)>>
                [] OTHER -> <<Get(i), Get(stop), Binop(IF ConstStep(args)[1] > 0 THEN "<" ELSE ">", I64Ty)>>
  IN  <<New(4), Keep(i, I64Ty), Keep(stop, I64Ty), Keep(step, I64Ty), IF Len(args) = 1 THEN IntC(0) ELSE arg(1), As("start"),
        IF Len(args) = 1 THEN arg(1) ELSE arg(2), As("stop"), IF Len(args) < 3 THEN IntC(1) ELSE arg(3), Put(step),
        V("stop"), Put(stop), V("start"), Put(i), Keep(s.var, I64Ty), Br(L(b, 1)), At(L(b, 1))>>
      \o test \o <<IfBr(L(b, 2), L(b, 4)), At(L(b, 2)), Get(i), Put(s.var), Loop(L(b, 3), L(b, 4))>>
      \o Block(s.body) \o <<EndLoop, Br(L(b, 3)), At(L(b, 3)), Get(i), Get(step), Binop("+", I64Ty), Put(i), Br(L(b, 1)), At(L(b, 4))>>

IteratorScript(s, b, cx) ==
  LET c == ExprTy(s.iter, b).c
      itTy == LookupMethod(c, "__iter__", cx).decl.ret
      nextTy == LookupMethod(itTy.c, "__next__", cx).decl.ret
      it == H(b, 1)
      next == H(b, 2)
  IN  <<New(3), Keep(it, itTy), Keep(next, nextTy), Eval(s.iter), CallMethod(c, "__iter__", 1, itTy, cx), Put(it),
        Keep(s.var, UnwrapNullable(nextTy)), Br(L(b, 1)), At(L(b, 1)), Get(it), CallMethod(itTy.c, "__next__", 1, nextTy, cx),
        As("v"), V("v"), Put(next), V("v"), K(NullTy, "none", 0), Op("RefEq", 2, BoolTy, ""), IfBr(L(b, 3), L(b, 2)),
        At(L(b, 2)), Get(next), Put(s.var), Loop(L(b, 1), L(b, 3))>>
      \o Block(s.body) \o <<EndLoop, Br(L(b, 1)), At(L(b, 3))>>

\* The index of a list's loop advances at the end of the body, past which a
\* continue jumps.
ListScript(s, b) ==
  LET i == H(b, 1)
      n == H(b, 2)
  IN  <<New(3), Keep(i, I64Ty), Keep(n, I64Ty), Eval(s.iter), As("arr")>>
        \o CountedLoop(i, n, L(b, 1), L(b, 2), L(b, 3), ExprTy(s.iter, b).args[1], s.var)
        \o <<Loop(L(b, 1), L(b, 3))>> \o Block(s.body) \o <<EndLoop>> \o Advance(i, L(b, 1)) \o <<At(L(b, 3))>>

ForScript(s, b, cx) ==
  LET ty == ExprTy(s.iter, b)
  IN  CASE ty = RangeTy -> RangeScript(s, b)
        [] ClassHas(ty, "__iter__", cx) -> IteratorScript(s, b, cx)
        [] IsGeneric(ty, "List") -> ListScript(s, b)
        [] OTHER -> <<Eval(s.iter), As("unused"), K(UnitTy, "none", 0), Put(s.var)>> \o Block(s.body)

BindFields(names, tys, offs) ==
  Each(Len(names), LAMBDA i : IF names[i] = "" THEN <<>>
                              ELSE <<V("whole"), Op("Load", 1, tys[i], offs[i]), Keep(names[i], tys[i]), Put(names[i])>>)
LetScript(s, b) ==
  LET ty == ExprTy(s.init, b)
      elem == ty.args[1]
      i == H(b, 1)
      stop == H(b, 2)
      nB == Len(s.before)
      at(name, index) == <<V("whole")>> \o index \o <<Op("ArrayGet", 2, elem, ""), Keep(name, elem), Put(name)>>
  IN  CASE s.k = "Let" -> <<Eval(s.init), Keep(s.name, s.ty), Put(s.name)>>
        [] s.k = "LetDestructure" ->
             <<Eval(s.init), As("whole")>> \o BindFields(s.names, ty.elems, [j \in DOMAIN ty.elems |-> 8 * (j - 1)])
        [] OTHER ->
             <<New(3), Keep(i, I64Ty), Keep(stop, I64Ty), Eval(s.init), As("whole"), V("whole"), Op("ArrayLen", 1, I64Ty, ""), As("len")>>
             \o Each(nB, LAMBDA j : at(s.before[j], <<IntC(j - 1)>>))
             \o <<Op("ArrayNew", 0, ty, ""), Keep(s.star, ty), Put(s.star), V("len"), IntC(Len(s.after)), Op("ISub", 2, I64Ty, ""), Put(stop),
                  IntC(nB), Put(i), Br(L(b, 1)), At(L(b, 1)), Get(i), Get(stop), Less, IfBr(L(b, 2), L(b, 3)),
                  At(L(b, 2)), V("whole"), Get(i), Op("ArrayGet", 2, elem, ""), As("elt"), Get(s.star), V("elt"), Do("ListPush", 2, "")>>
             \o Advance(i, L(b, 1)) \o <<At(L(b, 3))>>
             \o Each(Len(s.after), LAMBDA j : at(s.after[j], <<Get(stop), IntC(j - 1), Plus>>))

\* Each arm reads the scrutinee again; a pattern that always matches makes what
\* follows it dead.  Guards, and patterns inside a pattern that are not names,
\* are not looked at.
ArmScript(arm, scrut, ty, body, next, exit, cx) ==
  LET pat == arm.pattern
      name(p) == IF p.k = "Binding" THEN p.name ELSE ""
      names(ps) == [i \in DOMAIN ps |-> name(ps[i])]
      fs == Layout(pat.ty.path[1], cx)
      litTy == CASE pat.lit.t = "int" -> IF IsPrim(ty, {"i64", "u64"}) THEN ty ELSE Prim("i32")
                 [] pat.lit.t = "none" -> NullTy [] pat.lit.t = "float" -> F64Ty [] OTHER -> Prim(pat.lit.t)
      litTag == CASE pat.lit.t = "int" -> IF IsPrim(ty, {"i64", "u64"}) THEN "i64" ELSE "i32"
                  [] pat.lit.t = "float" -> "f64" [] OTHER -> pat.lit.t
      eq == CASE IsPrim(ty, Floats) -> "FEq" [] ty = StrTy -> "StrEq" [] OTHER -> "IEq"
      always == Block(arm.body) \o <<Br(exit), At(next)>>
      when == <<IfBr(body, next), At(body)>>
  IN  <<Get(scrut), As("whole")>> \o
      CASE pat.k = "Binding" -> <<V("whole"), Keep(pat.name, ty), Put(pat.name)>> \o always
        [] pat.k = "TuplePattern" ->
             (IF ty.k = "Tuple" THEN BindFields(names(pat.elems), ty.elems, [j \in DOMAIN ty.elems |-> 8 * (j - 1)]) ELSE <<>>) \o always
        [] pat.k = "Constructor" ->
             <<V("whole"), Op("IsInstance", 1, BoolTy, pat.ty.path[1])>> \o when \o <<Get(scrut), As("whole")>>
             \o BindFields(names(pat.fields), [j \in DOMAIN fs |-> fs[j].ty], [j \in DOMAIN fs |-> fs[j].off]) \o always
        [] pat.k = "LitPattern" -> <<V("whole"), K(litTy, litTag, pat.lit.v), Op(eq, 2, BoolTy, "")>> \o when \o always
        [] OTHER -> always
MatchScript(s, b, cx) ==
  LET ty == ExprTy(s.scrutinee, b)
      n == Len(s.arms)
      exit == L(b, 2 * n + 1)
  IN  <<New(2 * n + 1), Keep(H(b, 1), ty), Eval(s.scrutinee), Put(H(b, 1))>>
        \o Each(n, LAMBDA i : ArmScript(s.arms[i], H(b, 1), ty, L(b, 2 * i - 1), L(b, 2 * i), exit, cx))
        \o <<Br(exit), At(exit)>>

RaiseScript(s) ==
  LET e == s.exc
      builtin == e.k = "Call" /\ e.callee.k = "Ident" /\ e.callee.name \in BuiltinExceptions
  IN  IF builtin
      THEN <<Op("Alloc", 0, ClassTy(e.callee.name), e.callee.name), As("e"), V("e"), StrC(e.callee.name), Do("Store", 2, 0),
             V("e"), Eval(e.args[1].value), Do("Store", 2, 8), V("e"), Throw, Fresh>>
      ELSE <<Eval(e), Throw, Fresh>>

-----------------------------------------------------------------------------
(* Strings that are appended to in place.                                  *)
RECURSIVE Mentions(_, _)
Mentions(e, name) == (e.k = "Ident" /\ e.name = name) \/ \E i \in DOMAIN Parts(e) : Mentions(Parts(e)[i], name)
\* The operands of name + e1 + ... + en, none of which mentions name; none if the
\* expression is not of that form.
RECURSIVE AppendOperands(_, _)
AppendOperands(e, name) ==
  IF e.k = "Binary" /\ e.op = "+" /\ ~Mentions(e.rhs, name)
  THEN IF e.lhs.k = "Ident" /\ e.lhs.name = name THEN <<e.rhs>>
       ELSE LET rest == AppendOperands(e.lhs, name) IN IF rest = <<>> THEN <<>> ELSE Append(rest, e.rhs)
  ELSE <<>>
AppendTo(s) ==
  IF s.k \in {"Assign", "AugAssign"} /\ s.target.k = "Ident" /\ s.value.ty = StrTy
  THEN IF s.k = "Assign" THEN AppendOperands(s.value, s.target.name)
       ELSE IF s.op = "+" /\ ~Mentions(s.value, s.target.name) THEN <<s.value>> ELSE <<>>
  ELSE <<>>
ChildBlocks(s) ==
  CASE s.k = "If" -> <<s.then>> \o [i \in DOMAIN s.elifs |-> s.elifs[i][2]] \o s.else
    [] s.k \in {"While", "For"} -> <<s.body>> \o s.else
    [] s.k = "Match" -> [i \in DOMAIN s.arms |-> s.arms[i].body]
    [] OTHER -> <<>>
RECURSIVE Statements(_)
Statements(b) == FlattenSeq([i \in DOMAIN b |-> <<b[i]>> \o FlattenSeq([j \in DOMAIN ChildBlocks(b[i]) |-> Statements(ChildBlocks(b[i])[j])])])
\* The expressions of a statement whose names stop being candidates, and the
\* names it binds.
RECURSIVE PatternNames(_)
PatternNames(p) ==
  LET all(ps) == UNION {PatternNames(ps[i]) : i \in DOMAIN ps}
  IN  CASE p.k = "Binding" -> {p.name} [] p.k = "Constructor" -> all(p.fields) [] p.k = "TuplePattern" -> all(p.elems) [] OTHER -> {}
Uses(s) ==
  CASE s.k \in {"Let", "LetDestructure", "LetStarDestructure"} -> <<s.init>>
    [] s.k \in {"Assign", "AugAssign"} -> (IF s.target.k = "Ident" THEN <<>> ELSE Parts(s.target)) \o <<s.value>>
    [] s.k = "Return" -> IF s.value # <<>> /\ s.value[1].k = "Ident" THEN <<>> ELSE s.value
    [] s.k = "If" -> <<s.cond>> \o [i \in DOMAIN s.elifs |-> s.elifs[i][1]]
    [] s.k = "While" -> <<s.cond>>
    [] s.k = "For" -> <<s.iter>>
    [] s.k = "Match" -> <<s.scrutinee>> \o FlattenSeq([i \in DOMAIN s.arms |-> s.arms[i].guard])
    [] s.k = "Raise" -> <<s.exc>>
    [] s.k = "Assert" -> <<s.cond>>
    [] s.k = "Del" -> Parts(s.target)
    [] s.k = "Expr" -> <<s.expr>>
    [] OTHER -> <<>>
Binds_(s) ==
  CASE s.k = "LetDestructure" -> ToSet(s.names)
    [] s.k = "LetStarDestructure" -> ToSet(s.before) \cup {s.star} \cup ToSet(s.after)
    [] s.k = "For" -> {s.var}
    [] s.k = "Match" -> UNION {PatternNames(s.arms[i].pattern) : i \in DOMAIN s.arms}
    [] OTHER -> {}
InPlace(body) ==
  LET ss == ToSet(Statements(body))
      appended == {s.target.name : s \in {s \in ss : AppendTo(s) # <<>>}}
      own(s, x) == AppendTo(s) # <<>> /\ s.target.name = x
  IN  {x \in appended : \A s \in ss : x \notin Binds_(s) /\ (own(s, x) \/ \A i \in DOMAIN Uses(s) : ~Mentions(Uses(s)[i], x))}

AppendScript(s, ops) ==
  <<Fetch(s.target), As("s")>> \o EvalEach(ops, "e") \o <<V("s")>>
    \o Each(Len(ops), LAMBDA i : <<V(N("e", i)), Native("StrAppendInPlace", 2, StrTy)>>) \o <<Store(s.target)>>
AssignScript(s, b) ==
  LET ops == AppendTo(s)
  IN  IF s.target.k = "Ident" /\ s.target.name \in b.inplace /\ ops # <<>> THEN AppendScript(s, ops)
      ELSE IF s.k = "Assign" THEN <<Eval(s.value), Store(s.target)>>
      ELSE <<Fetch(s.target), Eval(s.value), Binop(s.op, ExprTy(s.target, b)), Store(s.target)>>

StmtScript(s, b, cx) ==
  CASE s.k \in {"Let", "LetDestructure", "LetStarDestructure"} -> LetScript(s, b)
    [] s.k \in {"Assign", "AugAssign"} -> AssignScript(s, b)
    [] s.k = "Return" -> EvalAll(s.value) \o <<Ret(Len(s.value)), Fresh>>
    [] s.k = "If" -> IfScript(s, b)
    [] s.k = "While" -> WhileScript(s, b)
    [] s.k = "For" -> ForScript(s, b, cx)
    [] s.k = "Match" -> MatchScript(s, b, cx)
    [] s.k = "Raise" -> RaiseScript(s)
    [] s.k = "Assert" -> <<Eval(s.cond), As("unused")>>
    [] s.k = "Del" -> <<Eval(s.target.obj), Eval(s.target.indices[1]), Native("DictRemove", 2, BoolTy), As("unused")>>
    [] s.k = "Expr" -> <<Eval(s.expr), As("unused")>>
    [] s.k = "Word" /\ b.loops # <<>> /\ s.word = "break" -> <<Br(Last(b.loops)[2]), Fresh>>
    [] s.k = "Word" /\ b.loops # <<>> /\ s.word = "continue" -> <<Br(Last(b.loops)[1]), Fresh>>
    [] OTHER -> <<>>

Expand(s, b, cx) ==
  CASE s.k = "Eval" -> ExprScript(s.e, b, cx)
    [] s.k = "Stmt" -> StmtScript(s.s, b, cx)
    [] s.k = "Binop" -> BinopScript(s.op, s.ty, b)
    [] s.k = "Coerce" -> CoerceScript(s.from, s.to)
    [] s.k = "StrOf" -> StrOfScript(s.ty, cx)
    [] s.k = "Normalize" -> NormalizeScript(b)
    [] s.k = "Select" -> SelectScript(b)
    [] s.k = "Fetch" -> FetchScript(s.lv, b, cx)
    [] s.k = "Store" -> StoreScript(s.lv, b, cx)

-----------------------------------------------------------------------------
(* Functions.                                                              *)
\* The parameters arrive as values and are kept in slots.
Prologue(names, tys) ==
  Each(Len(names), LAMBDA i : <<Op("Param", 0, tys[i], i), Keep(names[i], tys[i]), Put(names[i])>>)
\* Falling off the end returns nothing.
Finish(b, nParams) ==
  [key |-> b.key, params |-> nParams, tys |-> b.tys, blocks |-> Terminate(b, [k |-> "Ret", value |-> <<>>]).blocks]

\* A lambda is lifted to a function of its own, whose first parameters are what it
\* captures.  A long script is run in halves, only to bound the depth of recursion.
RECURSIVE Run(_, _, _)
RunStep(s, b, cx) ==
  LET captured == [i \in 1..s.n |-> b.slots[CHOOSE j \in DOMAIN b.slots : b.slots[j][1] = Captures(s.e, b)[i]]]
      names == [i \in 1..s.n |-> captured[i][1]] \o [i \in DOMAIN s.e.params |-> s.e.params[i].name]
      tys == [i \in 1..s.n |-> captured[i][2]] \o s.e.tys
      sub == Run(Prologue(names, tys) \o <<Eval(s.e.body), Ret(1)>>, Builder(b.subst, {}, s.key), cx)
  IN  CASE s.k \in Scripts -> [Run(Expand(s, b, cx), [b EXCEPT !.tmp = <<>>], cx) EXCEPT !.tmp = b.tmp]
        [] s.k = "Lift" -> [Step(Op("ClosureNew", s.n, ExprTy(s.e, b), s.key), b)
                              EXCEPT !.lifted = @ \o sub.lifted \o <<Finish(sub, Len(tys))>>, !.insts = @ \cup sub.insts]
        [] OTHER -> Step(s, b)
Run(steps, b, cx) ==
  LET half == Len(steps) \div 2
      rest == SubSeq(steps, half + 1, Len(steps))
  IN  CASE steps = <<>> -> b
        [] Len(steps) = 1 -> RunStep(steps[1], b, cx)
        [] OTHER -> CHOOSE r \in {Run(rest, first, cx) : first \in {Run(SubSeq(steps, 1, half), b, cx)}} : TRUE

\* A function of a checked module, for the types insts of its type parameters;
\* with those it calls and those lifted out of it.
LowerFunc(f, key, cx) ==
  LET generics == f.generics
      subst == [n \in {generics[i].name : i \in DOMAIN generics} |-> key[2][CHOOSE i \in DOMAIN generics : generics[i].name = n]]
      names == [i \in DOMAIN f.params |-> f.params[i].name]
      tys == [i \in DOMAIN f.params |-> SubstTy(f.params[i].ty, subst)]
      inplace == IF generics = <<>> THEN InPlace(f.body) ELSE {}
      made(b) == [funs |-> b.lifted \o <<Finish(b, Len(tys))>>, insts |-> b.insts]
  IN  made(Run(Prologue(names, tys) \o Block(f.body), Builder(subst, inplace, key), cx))

\* The constants that are known when the module is compiled.  The arithmetic of
\* their initializers wraps.
RECURSIVE FoldConst(_, _, _)
FoldConst(e, ty, cx) ==
  LET at(x) == FoldConst(x, ty, cx)
      l == at(e.lhs)
      r == at(e.rhs)
      o == at(e.operand)
      t == l[1].t
      some(tag, v) == <<[t |-> tag, v |-> v]>>
      int == IF IsPrim(ty, {"i32", "u32", "u64"}) THEN ty.p ELSE "i64"
  IN  CASE e.k = "Literal" -> some(CASE e.lit.t = "int" -> int [] e.lit.t = "float" -> "f64" [] OTHER -> e.lit.t, e.lit.v)
        [] e.k = "Ident" -> IF e.name \in DOMAIN cx.consts THEN FoldConst(cx.consts[e.name].value, cx.consts[e.name].ty, cx) ELSE <<>>
        [] e.k = "Unary" /\ e.op = "+" -> o
        [] e.k = "Unary" /\ e.op = "-" /\ o # <<>> ->
             CASE o[1].t \in DOMAIN Half -> some(o[1].t, Wrap(-o[1].v, o[1].t)) [] o[1].t = "f64" -> some("f64", -o[1].v) [] OTHER -> <<>>
        [] e.k = "Unary" /\ e.op = "not" /\ o # <<>> -> IF o[1].t = "bool" THEN some("bool", ~o[1].v) ELSE <<>>
        [] e.k = "Binary" /\ l # <<>> /\ r # <<>> /\ (l # <<>> => t = r[1].t) ->
             CASE t \in DOMAIN Half /\ e.op \in Arithmetic_ ->
                    IF e.op \in {"/", "//", "%"} /\ r[1].v = 0 THEN <<>>
                    ELSE some(t, Wrap(Exact(IntOps[e.op], l[1].v, r[1].v, t), t))
               [] t = "f64" /\ e.op \in {"+", "-", "*", "/", "//"} -> some(t, FloatResult(FloatOps[e.op], l[1].v, r[1].v))
               [] t = "str" /\ e.op = "+" -> some(t, l[1].v \o r[1].v)
               [] OTHER -> <<>>
        [] OTHER -> <<>>

Lookup(key, cx) ==
  LET owner == {c \in DOMAIN cx.classes : \E m \in ToSet(cx.classes[c].methods \o cx.classes[c].init) : MethodKey(c, m.name)[1] = key[1]}
      c == CHOOSE c \in owner : TRUE
  IN  IF key[1] \in DOMAIN cx.funs THEN cx.funs[key[1]]
      ELSE CHOOSE m \in ToSet(cx.classes[c].methods \o cx.classes[c].init) : MethodKey(c, m.name)[1] = key[1]
RECURSIVE LowerAll(_, _, _)
LowerAll(todo, done, cx) ==
  IF todo = {} THEN done
  ELSE LET key == CHOOSE k \in todo : TRUE
           known == {done[i].key : i \in DOMAIN done} \cup {key}
           after(r) == LowerAll((todo \cup r.insts) \ known, done \o r.funs, cx)
       IN  after(LowerFunc(Lookup(key, cx), key, cx))

\* The functions of a module: those that are not generic, the methods, and the
\* instances of generic functions that something calls.
LowerModule(m) ==
  LET folded == [c \in {c \in DOMAIN m.consts : FoldConst(m.consts[c].value, m.consts[c].ty, m) # <<>>} |->
                   FoldConst(m.consts[c].value, m.consts[c].ty, m)[1]]
      funs == {<<f, <<>>>> : f \in {f \in DOMAIN m.funs : m.funs[f].generics = <<>>}}
      methods == UNION {{MethodKey(c, d.name) : d \in ToSet(m.classes[c].methods \o m.classes[c].init)} : c \in DOMAIN m.classes}
  IN  LowerAll(funs \cup methods, <<>>, m @@ [folded |-> folded])
=============================================================================
