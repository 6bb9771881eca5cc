------------------------------- MODULE Types --------------------------------
(***************************************************************************)
(* The semantic types of StrictPy (compiler/src/types.rs), the relations   *)
(* between them, and the binding of a call's arguments to the parameters   *)
(* of the callee (compiler/src/argbind.rs).                                *)
(*                                                                         *)
(* cx stands for what the resolver knows of a program: cx.classes maps the *)
(* name of a class to its base, fields, methods and constructor, cx.funs   *)
(* the name of a function to its declaration, and cx.consts the name of a  *)
(* module constant to its type and value.                                  *)
(***************************************************************************)
EXTENDS Naturals, Integers, Sequences, FiniteSets
LOCAL INSTANCE Bitwise
LOCAL INSTANCE TLC

CONSTANT
  Half,        \* for each signed type, the first positive number it does not hold
  Scale        \* a floating-point number is held as a whole number of 1/Scale

ASSUME HalfAssumption == \A p \in DOMAIN Half : Half[p] \in Nat \ {0}
ASSUME ScaleAssumption == Scale \in Nat \ {0}

Prim(p) == [k |-> "Primitive", p |-> p]
ClassTy(c) == [k |-> "Class", c |-> c]
Generic_(base, args) == [k |-> "Generic", base |-> base, args |-> args]
FunctionTy(params, ret) == [k |-> "Function", params |-> params, ret |-> ret]
TupleTy(elems) == [k |-> "Tuple", elems |-> elems]
NullableTy(inner) == [k |-> "Nullable", inner |-> inner]
VarTy(name) == [k |-> "Var", name |-> name]
Never == [k |-> "Never"]
Bad == [k |-> "Bad"]                    \* the type of what is rejected

ListTy(elem) == Generic_("List", <<elem>>)
DictTy(key, val) == Generic_("Dict", <<key, val>>)
RangeTy == Generic_("Range", <<>>)
BoolTy == Prim("bool")
StrTy == Prim("str")
UnitTy == Prim("unit")
NullTy == Prim("null")
I64Ty == Prim("i64")
F64Ty == Prim("f64")

SignedInts == {"i8", "i16", "i32", "i64"}
UnsignedInts == {"u8", "u16", "u32", "u64"}
Integers_ == SignedInts \cup UnsignedInts
Floats == {"f32", "f64"}
Numerics == Integers_ \cup Floats
PrimTypes == Numerics \cup {"bool", "char", "str", "bytes", "null", "unit"}

IsPrim(ty, ps) == ty.k = "Primitive" /\ ty.p \in ps
IsNumeric(ty) == IsPrim(ty, Numerics)
IsGeneric(ty, base) == ty.k = "Generic" /\ ty.base = base
UnwrapNullable(ty) == IF ty.k = "Nullable" THEN ty.inner ELSE ty

-----------------------------------------------------------------------------
(* Arithmetic.  Integers are in two's complement.  Division truncates, and  *)
(* the machine's remainder with it.                                        *)
Fits(v, p) == p \in DOMAIN Half => v \in (-Half[p])..(Half[p] - 1)
Wrap(v, p) == ((v + Half[p]) % (2 * Half[p])) - Half[p]
Bits(v, p) == v % (2 * Half[p])
Magnitude(v) == IF v < 0 THEN -v ELSE v
Quot(a, b) == IF (a < 0) = (b < 0) THEN Magnitude(a) \div Magnitude(b) ELSE -(Magnitude(a) \div Magnitude(b))
Width(p) == CHOOSE w \in 0..Half[p] : 2 ^ w = 2 * Half[p]
\* The result of an operation before it is brought back into its type.
Exact(op, a, b, p) ==
  CASE op = "IAdd" -> a + b [] op = "ISub" -> a - b [] op = "IMul" -> a * b [] op = "IDiv" -> Quot(a, b)
    [] op = "IRem" -> a - b * Quot(a, b) [] op = "IAnd" -> Bits(a, p) & Bits(b, p) [] op = "IOr" -> Bits(a, p) | Bits(b, p)
    [] op = "IXor" -> Bits(a, p) ^^ Bits(b, p) [] op = "IShl" -> a * 2 ^ (b % Width(p)) [] op = "IShr" -> a \div 2 ^ (b % Width(p))
Trapping == {"IAdd", "ISub", "IMul"}
FloatResult(op, a, b) ==
  CASE op = "FAdd" -> a + b [] op = "FSub" -> a - b [] op = "FMul" -> Quot(a * b, Scale) [] op = "FDiv" -> Quot(a * Scale, b)
FloatPower(a, b) == Quot(a ^ (b \div Scale) * Scale, Scale ^ (b \div Scale))
\* A whole number is printed with one decimal, another with those it has, two at
\* most.
FormatF64(v) ==
  LET hundredths == ((Magnitude(v) % Scale) * 100) \div Scale
      decimals == IF hundredths % 10 = 0 THEN hundredths \div 10 ELSE hundredths
  IN  (IF v < 0 THEN "-" ELSE "") \o ToString(Magnitude(v) \div Scale) \o "." \o ToString(decimals)
\* Strings are compared by their characters, which are those of Alphabet here.
Alphabet == <<"a", "b", "c">>
StrCompare(s, t) ==
  LET rank(x, i) == CHOOSE n \in 1..Len(Alphabet) : Alphabet[n] = SubSeq(x, i, i)
      shorter == IF Len(s) < Len(t) THEN Len(s) ELSE Len(t)
      differ == {i \in 1..shorter : SubSeq(s, i, i) # SubSeq(t, i, i)}
      first == CHOOSE i \in differ : \A j \in differ : i <= j
      order(m, n) == IF m < n THEN -1 ELSE IF m > n THEN 1 ELSE 0
  IN  IF differ = {} THEN order(Len(s), Len(t)) ELSE order(rank(s, first), rank(t, first))

-----------------------------------------------------------------------------
(* Classes.                                                                *)

\* A class and its bases, the nearest first.
RECURSIVE Ancestry(_, _)
Ancestry(c, cx) ==
  IF c \notin DOMAIN cx.classes THEN <<>>
  ELSE <<c>> \o (IF cx.classes[c].base = <<>> THEN <<>> ELSE Ancestry(cx.classes[c].base[1], cx))

ClassExtends(c, target, cx) == \E i \in DOMAIN Ancestry(c, cx) : Ancestry(c, cx)[i] = target

BuiltinExceptions == {"Exception", "ValueError", "IndexError", "KeyError", "TypeError", "OverflowError",
                      "DivisionByZeroError", "ZeroDivisionError", "IOError", "NullPointerError", "AssertionError", "RuntimeError",
                      "StopIteration", "ChannelClosedError"}
ClassIsException(c, cx) ==
  c \in BuiltinExceptions \/ \E i \in DOMAIN Ancestry(c, cx) :
    LET base == cx.classes[Ancestry(c, cx)[i]].base IN base # <<>> /\ base[1] \in BuiltinExceptions

\* The virtual methods of a class, in the order of their slots: those of the
\* base, an override in the place of what it overrides, then the new ones.
RECURSIVE MethodTable(_, _)
MethodTable(c, cx) ==
  LET own == cx.classes[c].methods
      names(ms) == {ms[i].name : i \in DOMAIN ms}
      base == IF cx.classes[c].base = <<>> \/ cx.classes[c].base[1] \notin DOMAIN cx.classes THEN <<>>
              ELSE MethodTable(cx.classes[c].base[1], cx)
      decl(name) == own[CHOOSE i \in DOMAIN own : own[i].name = name]
      inherited == [i \in DOMAIN base |->
                      IF base[i].name \in names(own) THEN [name |-> base[i].name, owner |-> c, decl |-> decl(base[i].name)]
                      ELSE base[i]]
      new == SelectSeq(own, LAMBDA m : m.name \notin names(base))
  IN  inherited \o [i \in DOMAIN new |-> [name |-> new[i].name, owner |-> c, decl |-> new[i]]]
HasMethod(c, name, cx) == \E i \in DOMAIN MethodTable(c, cx) : MethodTable(c, cx)[i].name = name
SlotOf(c, name, cx) == CHOOSE i \in DOMAIN MethodTable(c, cx) : MethodTable(c, cx)[i].name = name
LookupMethod(c, name, cx) == MethodTable(c, cx)[SlotOf(c, name, cx)]

\* Every field of an object, those of the bases first.
StrField(name) == [name |-> name, ty |-> [k |-> "Named", path |-> <<"str">>, args |-> <<>>]]
RECURSIVE FieldsOf(_, _)
FieldsOf(c, cx) ==
  IF c \notin DOMAIN cx.classes THEN (IF c \in BuiltinExceptions THEN <<StrField("type_name"), StrField("message")>> ELSE <<>>)
  ELSE (IF cx.classes[c].base = <<>> THEN <<>> ELSE FieldsOf(cx.classes[c].base[1], cx)) \o cx.classes[c].fields

-----------------------------------------------------------------------------
(* Subtypes.  Two types are equal if they have the same structure.         *)
RECURSIVE IsSubtype(_, _, _)
IsSubtype(a, b, cx) ==
  LET all(xs, ys) == Len(xs) = Len(ys) /\ \A i \in DOMAIN xs : IsSubtype(xs[i], ys[i], cx)
  IN  \/ a.k = "Never"
      \/ a = b
      \/ b.k = "Nullable" /\ (a = NullTy \/ IsSubtype(a, b.inner, cx))
      \/ a.k = "Nullable" /\ b.k = "Nullable" /\ IsSubtype(a.inner, b.inner, cx)
      \/ a.k = "Class" /\ b.k = "Class" /\ ClassExtends(a.c, b.c, cx)
      \/ a.k = "Tuple" /\ b.k = "Tuple" /\ all(a.elems, b.elems)
      \/ a.k = "Function" /\ b.k = "Function" /\ all(b.params, a.params) /\ IsSubtype(a.ret, b.ret, cx)

IsSubtypeTrivial(a, b) ==
  \/ a.k = "Never"
  \/ a = b
  \/ b.k = "Nullable" /\ (a = NullTy \/ a = b.inner)

\* The type of a value that is of type a or of type b.
Lub(a, b) ==
  IF IsSubtypeTrivial(a, b) THEN b
  ELSE IF IsSubtypeTrivial(b, a) THEN a
  ELSE IF a = NullTy THEN NullableTy(b)
  ELSE IF b = NullTy THEN NullableTy(a)
  ELSE Bad

\* The type both operands are widened to, if one holds the values of both.
NumericCommonTy(a, b) ==
  LET some(ps) == a \in ps \/ b \in ps
      both(ps) == a \in ps /\ b \in ps
  IN  IF a = b THEN a
      ELSE IF some({"f64"}) THEN "f64"
      ELSE IF some({"f32"}) THEN "f64"
      ELSE IF some({"i64"}) /\ both(SignedInts) THEN "i64"
      ELSE IF some({"i32"}) /\ both(SignedInts) THEN "i32"
      ELSE "none"

-----------------------------------------------------------------------------
(* Type parameters.                                                        *)
RECURSIVE SubstTy(_, _)
SubstTy(ty, s) ==
  LET all(ts) == [i \in DOMAIN ts |-> SubstTy(ts[i], s)]
  IN  CASE ty.k = "Var" -> IF ty.name \in DOMAIN s THEN s[ty.name] ELSE ty
        [] ty.k = "Generic" -> [ty EXCEPT !.args = all(@)]
        [] ty.k = "Function" -> FunctionTy(all(ty.params), SubstTy(ty.ret, s))
        [] ty.k = "Tuple" -> TupleTy(all(ty.elems))
        [] ty.k = "Nullable" -> NullableTy(SubstTy(ty.inner, s))
        [] OTHER -> ty

RECURSIVE HasVar(_)
HasVar(ty) ==
  LET some(ts) == \E i \in DOMAIN ts : HasVar(ts[i])
  IN  CASE ty.k = "Var" -> TRUE
        [] ty.k = "Generic" -> some(ty.args)
        [] ty.k = "Function" -> some(Append(ty.params, ty.ret))
        [] ty.k = "Tuple" -> some(ty.elems)
        [] ty.k = "Nullable" -> HasVar(ty.inner)
        [] OTHER -> FALSE

\* The pairs of a parameter and a type that make pat equal to ty; a pair of
\* two different types stands for a clash.
RECURSIVE Unify(_, _)
Unify(pat, ty) ==
  LET all(ps, ts) == IF Len(ps) # Len(ts) THEN {<<"", pat, ty>>} ELSE UNION {Unify(ps[i], ts[i]) : i \in DOMAIN ps}
  IN  CASE pat.k = "Var" -> {<<pat.name, ty, ty>>}
        [] pat.k = "Nullable" -> Unify(pat.inner, UnwrapNullable(ty))
        [] pat.k = "Generic" /\ ty.k = "Generic" /\ pat.base = ty.base -> all(pat.args, ty.args)
        [] pat.k = "Tuple" /\ ty.k = "Tuple" -> all(pat.elems, ty.elems)
        [] pat.k = "Function" /\ ty.k = "Function" -> all(Append(pat.params, pat.ret), Append(ty.params, ty.ret))
        [] OTHER -> IF pat = ty THEN {} ELSE {<<"", pat, ty>>}
Consistent(pairs) == \A x, y \in pairs : x[1] # "" /\ (x[1] = y[1] => x[2] = y[2])
Solution(pairs) == [v \in {x[1] : x \in pairs} |-> (CHOOSE x \in pairs : x[1] = v)[2]]

-----------------------------------------------------------------------------
(* Arguments.  slots[i] is the index of the argument of parameter i, and 0 *)
(* stands for its default.                                                 *)
Positional(args) == {i \in DOMAIN args : \A j \in 1..i : args[j].name = <<>>}
Binds(params, args, i, j) ==
  IF j \in Positional(args) THEN i = j ELSE args[j].name = <<params[i].name>>
BindOk(params, args) ==
  /\ \A j \in DOMAIN args : args[j].name = <<>> => j \in Positional(args)
  /\ \A j \in DOMAIN args : \E i \in DOMAIN params : Binds(params, args, i, j)
  /\ \A i \in DOMAIN params : Cardinality({j \in DOMAIN args : Binds(params, args, i, j)}) <= 1
  /\ \A i \in DOMAIN params : params[i].default # <<>> \/ \E j \in DOMAIN args : Binds(params, args, i, j)
BindArgs(params, args) ==
  [i \in DOMAIN params |->
     IF \E j \in DOMAIN args : Binds(params, args, i, j) THEN CHOOSE j \in DOMAIN args : Binds(params, args, i, j)
     ELSE 0]
DefaultOrderOk(params) ==
  \A i, j \in DOMAIN params : i < j /\ params[i].default # <<>> => params[j].default # <<>>
=============================================================================
