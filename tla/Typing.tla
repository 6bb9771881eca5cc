------------------------------- MODULE Typing -------------------------------
(***************************************************************************)
(* The type checker (compiler/src/typecheck.rs).  It annotates every       *)
(* expression of a tree with its type, in the field ty; a tree it rejects  *)
(* becomes Fail.  An expression is checked against an expected type, which *)
(* gives the literals in it their width, or synthesized without one.       *)
(*                                                                         *)
(* The environment env holds the type of every name in scope (env.vars,    *)
(* narrowed by the conditions that are known to hold), the type the        *)
(* function returns (env.ret) and the bounds of its type parameters.       *)
(***************************************************************************)
EXTENDS Types
LOCAL INSTANCE Syntax WITH Names <- {}, Digits <- {}, Strings <- {}
LOCAL INSTANCE TLC
LOCAL INSTANCE SequencesExt

Lit(t, v, suffix) == Literal([t |-> t, v |-> v, suffix |-> suffix])
Fail == [k |-> "Fail", ty |-> Bad]
Good(e) == e.ty # Bad
GoodAll(es) == \A i \in DOMAIN es : Good(es[i])
\* e of type ty, with the annotated parts of it that are new.
Typed(e, new, ty) == new @@ [ty |-> ty] @@ e
When(ok, e) == IF ok THEN e ELSE Fail
Bind(vars, name, ty) == (name :> ty) @@ vars

\* The type a written type denotes (resolver.rs, lower_ast_type).
Prims == PrimTypes \ {"null", "unit"}
RECURSIVE AstTy(_, _, _)
AstTy(t, generics, cx) ==
  LET all(ts) == [i \in DOMAIN ts |-> AstTy(ts[i], generics, cx)]
      name == t.path[1]
  IN  CASE t.k = "Nullable" -> NullableTy(AstTy(t.inner, generics, cx))
        [] t.k = "Function" -> FunctionTy(all(t.params), AstTy(t.ret, generics, cx))
        [] t.k = "TupleType" -> TupleTy(all(t.elems))
        [] t.k = "Infer" -> Never
        [] t.k = "Named" /\ name = "None" -> UnitTy
        [] t.k = "Named" /\ name = "Tuple" -> TupleTy(all(t.args))
        [] t.k = "Named" /\ name \in Prims -> Prim(name)
        [] t.k = "Named" /\ name \in DOMAIN cx.classes -> ClassTy(name)
        [] t.k = "Named" /\ name \in generics -> VarTy(name)
        [] OTHER -> Generic_(name, all(t.args))

-----------------------------------------------------------------------------
(* Literals.                                                               *)
IsLit(e, ts) == e.k = "Literal" /\ e.lit.t \in ts
IsNone(e) == IsLit(e, {"none"})
IsSign(e) == e.k = "Unary" /\ e.op \in {"-", "+"}

\* The type of a literal where the types in exp, one at most, are expected.
LitTy(lit, exp) ==
  LET inner == IF exp = <<>> THEN Never ELSE UnwrapNullable(exp[1])
  IN  CASE lit.t = "int" ->
             IF lit.suffix # <<>> THEN Prim(lit.suffix[1]) ELSE IF IsNumeric(inner) THEN inner ELSE I64Ty
        [] lit.t = "float" ->
             IF lit.suffix = <<"f32">> \/ (lit.suffix = <<>> /\ exp = <<Prim("f32")>>) THEN Prim("f32") ELSE F64Ty
        [] lit.t = "none" -> NullTy
        [] OTHER -> Prim(lit.t)
LitOk(lit, ty) == lit.t = "int" => Fits(lit.v, ty.p)

RECURSIVE Unsuffixed(_, _)
Unsuffixed(e, ts) == IF IsSign(e) THEN Unsuffixed(e.operand, ts) ELSE IsLit(e, ts) /\ e.lit.suffix = <<>>

Widened == {"+", "-", "*", "//", "%", "&", "|", "^"}
RECURSIVE CanAdopt(_, _)
CanAdopt(e, p) ==
  \/ IsLit(e, {"int"}) /\ IF e.lit.suffix = <<>> THEN p \in Integers_ ELSE e.lit.suffix = <<p>>
  \/ IsLit(e, {"float"}) /\ IF e.lit.suffix = <<>> THEN p \in Floats ELSE e.lit.suffix = <<p>>
  \/ IsSign(e) /\ CanAdopt(e.operand, p)
  \/ e.k = "Binary" /\ e.op \in Widened /\ CanAdopt(e.lhs, p) /\ CanAdopt(e.rhs, p)

Dunder == [op \in {"+", "-", "*", "/", "//", "%", "**", "==", "!=", "<", "<=", ">", ">="} |->
  CASE op = "+" -> "__add__" [] op = "-" -> "__sub__" [] op = "*" -> "__mul__" [] op = "/" -> "__truediv__"
    [] op = "//" -> "__floordiv__" [] op = "%" -> "__mod__" [] op = "**" -> "__pow__" [] op = "==" -> "__eq__"
    [] op = "!=" -> "__ne__" [] op = "<" -> "__lt__" [] op = "<=" -> "__le__" [] op = ">" -> "__gt__"
    [] op = ">=" -> "__ge__"]
\* The method an operator calls on a class; != may borrow __eq__.
DunderOf(op, c, cx) ==
  IF op \in DOMAIN Dunder /\ HasMethod(c, Dunder[op], cx) THEN <<Dunder[op]>>
  ELSE IF op = "!=" /\ HasMethod(c, "__eq__", cx) THEN <<"__eq__">>
  ELSE <<>>

\* What a condition says of the type of a name, where it holds and where not.
Narrowings(cond, env) ==
  LET named(e) == e.k = "Ident" /\ e.name \in DOMAIN env.vars
      set(ty) == [env EXCEPT !.vars = Bind(@, cond.lhs.name, ty)]
      value == set(UnwrapNullable(env.vars[cond.lhs.name]))
      isNone == cond.op \in {"is", "=="}
  IN  IF cond.k = "Binary" /\ cond.op \in {"is", "is not", "==", "!="} /\ IsNone(cond.rhs) /\ named(cond.lhs)
      THEN [then |-> IF isNone THEN set(NullTy) ELSE value, else |-> IF isNone THEN value ELSE set(NullTy)]
      ELSE IF cond.k = "Call" /\ cond.callee.k = "Ident" /\ cond.callee.name = "isinstance" /\ named(cond.args[1].value)
      THEN [then |-> [env EXCEPT !.vars = Bind(@, cond.args[1].value.name, ClassTy(cond.args[2].value.name))], else |-> env]
      ELSE [then |-> env, else |-> env]

AlwaysReturns(b) == b # <<>> /\ Last(b).k \in {"Return", "Raise"}

FieldTy(c, name, cx) ==
  LET fs == SelectSeq(FieldsOf(c, cx), LAMBDA f : f.name = name)
  IN  IF fs = <<>> THEN Bad ELSE AstTy(fs[1].ty, {}, cx)
AttrTy(ty, name, cx) ==
  CASE ty.k = "Tuple" -> IF \E i \in DOMAIN ty.elems : name = ToString(i - 1)
                         THEN ty.elems[CHOOSE i \in DOMAIN ty.elems : name = ToString(i - 1)] ELSE Bad
    [] ty.k = "Class" -> FieldTy(ty.c, name, cx)
    [] OTHER -> Bad
IndexTy(ty) ==
  CASE IsGeneric(ty, "List") -> ty.args[1]
    [] IsGeneric(ty, "Dict") -> ty.args[2]
    [] ty = StrTy -> Prim("char")
    [] ty.k = "Tuple" /\ ty.elems # <<>> -> ty.elems[1]
    [] OTHER -> Bad

Params(f) == SelectSeq(f.params, LAMBDA p : p.name # "self")
GenericNames(f) == {f.generics[i].name : i \in DOMAIN f.generics}
ParamTys(f, cx) == [i \in DOMAIN Params(f) |-> AstTy(Params(f)[i].ty, GenericNames(f), cx)]
RetTy(f, cx) == AstTy(f.ret, GenericNames(f), cx)
BoundsOf(f) == [n \in GenericNames(f) |-> LET g == CHOOSE g \in ToSet(f.generics) : g.name = n IN {g.bounds[i].path[1] : i \in DOMAIN g.bounds}]

\* The types a bound admits, and the bounds a bound implies.
Satisfies(ty, bound, env) ==
  IF ty.k = "Var" THEN env.bounds[ty.name] \cap {bound, "Comparable"} # {}
  ELSE IsPrim(ty, Numerics \cup {"str", "char"} \cup (IF bound = "Comparable" THEN {} ELSE {"bool"}))

Casts == {"i32", "i64", "f64"}
Builtins == {"print", "len", "range", "str", "isinstance"} \cup Casts

-----------------------------------------------------------------------------
(* Expressions.  A tree is annotated by its kind: an expression against the *)
(* type expected, a block and a statement with the environment after them. *)
RECURSIVE Annotate(_, _, _, _)
Synth(e, env, cx) == Annotate(e, <<>>, env, cx)
Check(e, ty, env, cx) == Annotate(e, <<ty>>, env, cx)
CheckBlock(b, env, cx) == Annotate([k |-> "Block", b |-> b], <<>>, env, cx)
CheckFunc(f, self, cx) == Annotate(f, self, <<>>, cx)

\* The rest of the elements take the type of the first where none is expected.
Elements(es, exp, env, cx) ==
  LET first == Annotate(es[1], exp, env, cx)
  IN  [i \in DOMAIN es |-> IF i = 1 THEN first ELSE Check(es[i], IF exp = <<>> THEN first.ty ELSE exp[1], env, cx)]
\* Synthesized, they may differ: the list is of what joins their types, as far
\* as it goes.
RECURSIVE JoinTys(_, _)
JoinTys(ty, es) ==
  IF es = <<>> THEN ty
  ELSE JoinTys(IF Lub(ty, es[1].ty) = Bad THEN ty ELSE Lub(ty, es[1].ty), Tail(es))

CheckDisplay(e, exp, env, cx) ==
  LET inner(base) == IF IsGeneric(exp, base) THEN exp.args ELSE <<>>
      at(args, i) == IF args = <<>> THEN <<>> ELSE <<args[i]>>
  IN  CASE e.k = "List" ->
             LET es == Elements(e.elems, inner("List"), env, cx)
                 ty == ListTy(IF inner("List") # <<>> THEN exp.args[1] ELSE IF es = <<>> THEN Never ELSE es[1].ty)
             IN  When(GoodAll(es) /\ IsSubtype(ty, exp, cx), Typed(e, [elems |-> es], ty))
        [] e.k = "Dict" ->
             LET ks == Elements([i \in DOMAIN e.entries |-> e.entries[i][1]], at(inner("Dict"), 1), env, cx)
                 vs == Elements([i \in DOMAIN e.entries |-> e.entries[i][2]], at(inner("Dict"), 2), env, cx)
                 ty == IF inner("Dict") # <<>> THEN exp ELSE IF ks = <<>> THEN DictTy(Never, Never) ELSE DictTy(ks[1].ty, vs[1].ty)
             IN  When(GoodAll(ks \o vs) /\ ty.args[1] \in {StrTy, Never},
                      Typed(e, [entries |-> [i \in DOMAIN ks |-> <<ks[i], vs[i]>>]], ty))
        [] OTHER ->
             LET es == [i \in DOMAIN e.elems |-> Check(e.elems[i], exp.elems[i], env, cx)]
                 ty == TupleTy([i \in DOMAIN es |-> es[i].ty])
             IN  When(GoodAll(es) /\ IsSubtype(ty, exp, cx), Typed(e, [elems |-> es], ty))

SynthDisplay(e, env, cx) ==
  LET all(es) == [i \in DOMAIN es |-> Synth(es[i], env, cx)]
  IN  CASE e.k = "Tuple" ->
             LET es == all(e.elems) IN When(GoodAll(es), Typed(e, [elems |-> es], TupleTy([i \in DOMAIN es |-> es[i].ty])))
        [] e.k = "List" ->
             LET es == all(e.elems)
             IN  When(GoodAll(es), Typed(e, [elems |-> es], ListTy(IF es = <<>> THEN Never ELSE JoinTys(es[1].ty, Tail(es)))))
        [] OTHER ->
             LET ks == all([i \in DOMAIN e.entries |-> e.entries[i][1]])
                 vs == all([i \in DOMAIN e.entries |-> e.entries[i][2]])
                 ty == IF ks = <<>> THEN DictTy(Never, Never) ELSE DictTy(Last(ks).ty, Last(vs).ty)
             IN  When(GoodAll(ks \o vs) /\ ty.args[1] \in {StrTy, Never},
                      Typed(e, [entries |-> [i \in DOMAIN ks |-> <<ks[i], vs[i]>>]], ty))

SynthUnary(e, env, cx) ==
  LET t == Synth(e.operand, env, cx)
  IN  IF e.op = "-" /\ IsLit(e.operand, {"int"})
      THEN LET ty == LitTy(e.operand.lit, <<>>)
           IN  When(Fits(-e.operand.lit.v, ty.p), Typed(e, [operand |-> Typed(e.operand, <<>>, ty)], ty))
      ELSE When(Good(t) /\ IF e.op = "not" THEN t.ty = BoolTy ELSE IsNumeric(t.ty), Typed(e, [operand |-> t], t.ty))

SynthDunder(e, l, env, cx) ==
  LET m == DunderOf(e.op, l.ty.c, cx)
      decl == LookupMethod(l.ty.c, m[1], cx).decl
      r == IF ParamTys(decl, cx) = <<>> THEN Synth(e.rhs, env, cx) ELSE Check(e.rhs, ParamTys(decl, cx)[1], env, cx)
  IN  IF m = <<>> THEN Fail ELSE When(Good(r), Typed(e, [lhs |-> l, rhs |-> r], RetTy(decl, cx)))

SynthCompare(e, l, env, cx) ==
  LET r == Check(e.rhs, l.ty, env, cx)
      bound == IF e.op \in {"==", "!="} THEN "Equatable" ELSE "Comparable"
      ok(ty) == ty.k = "Var" => Satisfies(ty, bound, env)
  IN  When(Good(r) /\ ok(l.ty) /\ ok(r.ty), Typed(e, [lhs |-> l, rhs |-> r], BoolTy))

SynthArithmetic(e, l, env, cx) ==
  LET text == e.op = "+" /\ l.ty = StrTy
      r == IF text \/ (Unsuffixed(e.rhs, {"int", "float"}) /\ IsNumeric(l.ty)) THEN Check(e.rhs, l.ty, env, cx)
           ELSE Synth(e.rhs, env, cx)
      lAdopts == CanAdopt(e.lhs, r.ty.p) /\ ~CanAdopt(e.rhs, l.ty.p) /\ l.ty # r.ty
      rAdopts == CanAdopt(e.rhs, l.ty.p) /\ ~CanAdopt(e.lhs, r.ty.p) /\ l.ty # r.ty
      lhs == IF lAdopts THEN Check(e.lhs, r.ty, env, cx) ELSE l
      rhs == IF rAdopts THEN Check(e.rhs, l.ty, env, cx) ELSE r
      common == NumericCommonTy(lhs.ty.p, rhs.ty.p)
      ty == CASE e.op \in {"<<", ">>"} -> lhs.ty [] e.op = "/" -> F64Ty [] OTHER -> Prim(common)
  IN  CASE ~Good(r) -> Fail
        [] l.ty.k = "Var" \/ text -> Typed(e, [lhs |-> l, rhs |-> r], l.ty)
        [] r.ty.k = "Var" -> Typed(e, [lhs |-> l, rhs |-> r], r.ty)
        [] ~(IsNumeric(l.ty) /\ IsNumeric(r.ty)) -> Fail
        [] OTHER -> When(Good(lhs) /\ Good(rhs) /\ common # "none", Typed(e, [lhs |-> lhs, rhs |-> rhs], ty))

SynthBinary(e, env, cx) ==
  LET bools(l, r) == When(l.ty = BoolTy /\ r.ty = BoolTy, Typed(e, [lhs |-> l, rhs |-> r], BoolTy))
      l == Synth(e.lhs, env, cx)
  IN  CASE e.op \in {"and", "or"} -> bools(Check(e.lhs, BoolTy, env, cx), Check(e.rhs, BoolTy, env, cx))
        [] e.op \in {"is", "is not", "in", "not in"} ->
             LET r == Synth(e.rhs, env, cx) IN When(Good(l) /\ Good(r), Typed(e, [lhs |-> l, rhs |-> r], BoolTy))
        [] ~Good(l) -> Fail
        [] l.ty.k = "Class" /\ e.op \in DOMAIN Dunder -> SynthDunder(e, l, env, cx)
        [] e.op \in {"==", "!=", "<", "<=", ">", ">="} -> SynthCompare(e, l, env, cx)
        [] OTHER -> SynthArithmetic(e, l, env, cx)

\* The arguments, bound to the parameters and checked against their types; what
\* is rejected has no arguments.
Arguments(params, tys, args, env, cx) ==
  LET slots == BindArgs(params, args)
      ofArg(j) == CHOOSE i \in DOMAIN params : slots[i] = j
      values == [j \in DOMAIN args |-> Check(args[j].value, tys[ofArg(j)], env, cx)]
  IN  IF BindOk(params, args) /\ GoodAll(values)
      THEN <<[j \in DOMAIN args |-> [args[j] EXCEPT !.value = values[j]]]>> ELSE <<>>
\* The arguments of what has no parameter names.
Unnamed(tys, args, env, cx) ==
  LET values == [j \in DOMAIN args |-> Check(args[j].value, tys[j], env, cx)]
  IN  IF Len(args) = Len(tys) /\ GoodAll(values)
      THEN <<[j \in DOMAIN args |-> [args[j] EXCEPT !.value = values[j]]]>> ELSE <<>>
Called(e, args, new, ty) == IF args = <<>> THEN Fail ELSE Typed(e, [args |-> args[1]] @@ new, ty)

SynthBuiltin(e, env, cx) ==
  LET name == e.callee.name
      vs == [j \in DOMAIN e.args |->
               CASE name = "range" -> Check(e.args[j].value, I64Ty, env, cx)
                 [] name = "isinstance" /\ j = 2 -> Typed(e.args[j].value, <<>>, ClassTy(e.args[j].value.name))
                 [] OTHER -> Synth(e.args[j].value, env, cx)]
      ty == CASE name = "print" -> UnitTy [] name = "len" -> I64Ty [] name = "range" -> RangeTy [] name = "str" -> StrTy
              [] name = "isinstance" -> BoolTy [] OTHER -> Prim(name)
      arity == CASE name \in {"print", "range"} -> TRUE [] name = "isinstance" -> Len(vs) = 2 [] OTHER -> Len(vs) = 1
  IN  When(arity /\ GoodAll(vs), Typed(e, [args |-> [j \in DOMAIN vs |-> [e.args[j] EXCEPT !.value = vs[j]]]], ty))

\* The arguments of a generic function, from left to right: a parameter whose
\* type is known by then gives it to its argument, another takes its type.
RECURSIVE GenericArgs(_, _, _, _, _, _)
GenericArgs(tys, args, pairs, done, env, cx) ==
  IF args = <<>> THEN [pairs |-> pairs, args |-> done]
  ELSE LET s == Solution(pairs)
           exp == SubstTy(tys[1], s)
           v == IF ~HasVar(exp) THEN Check(args[1].value, exp, env, cx) ELSE Synth(args[1].value, env, cx)
       IN  IF ~Good(v) THEN [pairs |-> {<<"", Bad, Bad>>}, args |-> <<>>]
           ELSE GenericArgs(Tail(tys), Tail(args), pairs \cup Unify(exp, v.ty),
                            Append(done, [args[1] EXCEPT !.value = v]), env, cx)
CallGeneric(e, f, env, cx) ==
  LET r == GenericArgs(ParamTys(f, cx), e.args, {}, <<>>, env, cx)
      s == Solution(r.pairs)
      insts == [i \in DOMAIN f.generics |-> s[f.generics[i].name]]
  IN  IF /\ Len(e.args) = Len(f.params) /\ Consistent(r.pairs) /\ GenericNames(f) \subseteq DOMAIN s
         /\ \A n \in GenericNames(f) : \A b \in BoundsOf(f)[n] : Satisfies(s[n], b, env)
      THEN Typed(e, [args |-> r.args, insts |-> insts], SubstTy(RetTy(f, cx), s)) ELSE Fail

Construct(e, c, env, cx) ==
  LET init == cx.classes[c].init
  IN  IF init = <<>> THEN When(e.args = <<>>, Typed(e, <<>>, ClassTy(c)))
      ELSE Called(e, Arguments(Params(init[1]), ParamTys(init[1], cx), e.args, env, cx), <<>>, ClassTy(c))

SynthCall(e, env, cx) ==
  LET name == e.callee.name
      f == cx.funs[name]
      callee == Synth(e.callee, env, cx)
  IN  CASE e.callee.k = "Ident" /\ name \in Builtins -> SynthBuiltin(e, env, cx)
        [] e.callee.k = "Ident" /\ name \in DOMAIN cx.funs /\ f.generics # <<>> -> CallGeneric(e, f, env, cx)
        [] e.callee.k = "Ident" /\ name \in DOMAIN cx.funs ->
             Called(e, Arguments(f.params, ParamTys(f, cx), e.args, env, cx), <<>>, RetTy(f, cx))
        [] e.callee.k = "Ident" /\ name \in DOMAIN cx.classes -> Construct(e, name, env, cx)
        [] OTHER ->
             IF callee.ty.k # "Function" THEN Fail
             ELSE Called(e, Unnamed(callee.ty.params, e.args, env, cx), [callee |-> callee], callee.ty.ret)

\* The parameters of a method are known by name only where its receiver's own
\* class declares it.
SynthMethod(e, env, cx) ==
  LET r == Synth(e.receiver, env, cx)
      m == LookupMethod(r.ty.c, e.method, cx)
      tys == ParamTys(m.decl, cx)
      args == CASE r.ty.k = "Class" -> IF m.owner = r.ty.c THEN Arguments(Params(m.decl), tys, e.args, env, cx)
                                       ELSE Unnamed(tys, e.args, env, cx)
                [] e.method = "append" -> Unnamed(r.ty.args, e.args, env, cx)
                [] OTHER -> Unnamed(<<r.ty.args[1]>>, e.args, env, cx)
      new == [receiver |-> r]
  IN  CASE ~Good(r) -> Fail
        [] r.ty.k = "Class" ->
             IF HasMethod(r.ty.c, e.method, cx) THEN Called(e, args, new, RetTy(m.decl, cx)) ELSE Fail
        [] IsGeneric(r.ty, "List") /\ e.method = "append" -> Called(e, args, new, UnitTy)
        [] IsGeneric(r.ty, "Dict") /\ e.method = "get" -> Called(e, args, new, NullableTy(r.ty.args[2]))
        [] OTHER -> Fail

SynthLambda(e, env, cx) ==
  LET tys == [i \in DOMAIN e.params |-> AstTy(e.params[i].ty, {}, cx)]
      inner == [env EXCEPT !.vars = [n \in {e.params[i].name : i \in DOMAIN e.params} |->
                                        tys[CHOOSE i \in DOMAIN tys : e.params[i].name = n]] @@ @]
      ret == AstTy(e.ret, {}, cx)
      b == Check(e.body, ret, inner, cx)
  IN  When(Good(b), Typed(e, [body |-> b, tys |-> tys], FunctionTy(tys, ret)))

\* exp is the type the whole is to be, if there is one.
CheckComprehension(e, exp, env, cx) ==
  LET it == Synth(e.iter, env, cx)
      decl == AstTy(e.ty, {}, cx)
      inner == [env EXCEPT !.vars = Bind(@, e.var, IF decl = Never THEN it.ty.args[1] ELSE decl)]
      elem == IF exp # <<>> /\ IsGeneric(exp[1], "List") THEN exp[1].args ELSE <<>>
      b == Annotate(e.body, elem, inner, cx)
      c == [i \in DOMAIN e.cond |-> Synth(e.cond[i], inner, cx)]
  IN  IF ~(Good(it) /\ IsGeneric(it.ty, "List")) THEN Fail
      ELSE When((\A i \in DOMAIN c : c[i].ty = BoolTy) /\ Good(b),
                Typed(e, [iter |-> it, body |-> b, cond |-> c, varTy |-> inner.vars[e.var]], ListTy(IF elem = <<>> THEN b.ty ELSE elem[1])))

\* An element that is read, or one that is assigned: a class has a method for each,
\* and the type of the second is that of the value it takes.
SynthIndex(e, dunder, env, cx) ==
  LET o == Synth(e.obj, env, cx)
      is == [i \in DOMAIN e.indices |-> Synth(e.indices[i], env, cx)]
      m == LookupMethod(o.ty.c, dunder, cx).decl
      tys == ParamTys(m, cx)
      key == Check(e.indices[1], tys[1], env, cx)
      store == dunder = "__setitem__"
  IN  IF o.ty.k = "Class" /\ (o.ty.k = "Class" => HasMethod(o.ty.c, dunder, cx))
      THEN When(Len(e.indices) = 1 /\ Len(tys) = (IF store THEN 2 ELSE 1) /\ Good(key),
                Typed(e, [obj |-> o, indices |-> <<key>>], IF store THEN tys[2] ELSE RetTy(m, cx)))
      ELSE When(Good(o) /\ GoodAll(is) /\ IndexTy(o.ty) # Bad, Typed(e, [obj |-> o, indices |-> is], IndexTy(o.ty)))

SynthOther(e, env, cx) ==
  LET at(o) == Synth(o, env, cx)
      opt(os) == [i \in DOMAIN os |-> at(os[i])]
  IN  CASE e.k = "Literal" -> When(LitOk(e.lit, LitTy(e.lit, <<>>)), Typed(e, <<>>, LitTy(e.lit, <<>>)))
        [] e.k = "Ident" ->
             IF e.name \in DOMAIN env.vars THEN Typed(e, <<>>, env.vars[e.name])
             ELSE IF e.name \in DOMAIN cx.consts THEN Typed(e, <<>>, AstTy(cx.consts[e.name].ty, {}, cx))
             ELSE IF e.name \in DOMAIN cx.funs
             THEN Typed(e, <<>>, FunctionTy(ParamTys(cx.funs[e.name], cx), RetTy(cx.funs[e.name], cx))) ELSE Fail
        [] e.k \in {"Tuple", "List", "Dict"} -> SynthDisplay(e, env, cx)
        [] e.k = "Unary" -> SynthUnary(e, env, cx)
        [] e.k = "Binary" -> SynthBinary(e, env, cx)
        [] e.k = "NullCoalesce" ->
             LET l == at(e.lhs)
                 r == Check(e.rhs, IF l.ty = NullTy THEN Never ELSE UnwrapNullable(l.ty), env, cx)
             IN  When(Good(l) /\ Good(r), Typed(e, [lhs |-> l, rhs |-> r], r.ty))
        [] e.k = "Ternary" ->
             LET c == Check(e.cond, BoolTy, env, cx)
                 ty == Lub(at(e.then).ty, at(e.else).ty)
             IN  When(Good(c) /\ Good(at(e.then)) /\ Good(at(e.else)) /\ ty # Bad,
                      Typed(e, [cond |-> c, then |-> at(e.then), else |-> at(e.else)], ty))
        [] e.k = "Call" -> SynthCall(e, env, cx)
        [] e.k = "MethodCall" -> SynthMethod(e, env, cx)
        [] e.k = "Attr" ->
             LET o == at(e.obj) IN When(Good(o) /\ AttrTy(o.ty, e.name, cx) # Bad, Typed(e, [obj |-> o], AttrTy(o.ty, e.name, cx)))
        [] e.k = "Index" -> SynthIndex(e, "__getitem__", env, cx)
        [] e.k = "Slice" ->
             LET o == at(e.obj)
                 bounds == opt(e.lo \o e.hi \o e.step)
             IN  When(Good(o) /\ (\A i \in DOMAIN bounds : IsPrim(bounds[i].ty, Integers_))
                        /\ (o.ty = StrTy \/ IsGeneric(o.ty, "List")),
                      Typed(e, [obj |-> o, lo |-> opt(e.lo), hi |-> opt(e.hi), step |-> opt(e.step)], o.ty))
        [] e.k = "Lambda" -> SynthLambda(e, env, cx)
        [] OTHER -> CheckComprehension(e, <<>>, env, cx)

CheckOther(e, exp, env, cx) ==
  LET sub(t) == When(Good(t) /\ IsSubtype(t.ty, exp, cx), t)
      bothAdopt == /\ e.k = "Binary" /\ e.op \in Widened /\ IsNumeric(exp)
                   /\ CanAdopt(e.lhs, exp.p) /\ CanAdopt(e.rhs, exp.p)
  IN  CASE e.k = "Literal" -> sub(When(LitOk(e.lit, LitTy(e.lit, <<exp>>)), Typed(e, <<>>, LitTy(e.lit, <<exp>>))))
        [] IsSign(e) /\ IsLit(e.operand, {"int"}) ->
             LET ty == LitTy(e.operand.lit, <<exp>>)
                 v == e.operand.lit.v
             IN  When(Fits(IF e.op = "-" THEN -v ELSE v, ty.p), Typed(e, [operand |-> Typed(e.operand, <<>>, ty)], ty))
        [] IsSign(e) /\ IsLit(e.operand, {"float"}) ->
             LET t == Check(e.operand, exp, env, cx) IN When(Good(t), Typed(e, [operand |-> t], t.ty))
        [] bothAdopt ->
             LET l == Check(e.lhs, exp, env, cx)
                 r == Check(e.rhs, exp, env, cx)
             IN  IF l.ty = exp /\ r.ty = exp THEN Typed(e, [lhs |-> l, rhs |-> r], exp)
                 ELSE IF Good(l) /\ Good(r) THEN sub(Synth(e, env, cx)) ELSE Fail
        [] e.k \in {"List", "Dict"} \/ (e.k = "Tuple" /\ exp.k = "Tuple" /\ Len(exp.elems) = Len(e.elems)) ->
             CheckDisplay(e, exp, env, cx)
        [] e.k = "Comprehension" -> sub(CheckComprehension(e, <<exp>>, env, cx))
        [] OTHER -> sub(Synth(e, env, cx))

-----------------------------------------------------------------------------
(* Statements.  A checked statement comes with the environment after it; an *)
(* annotation in it is replaced by the type it denotes.                    *)
TypeOf(ast, env, cx) == AstTy(ast, DOMAIN env.bounds, cx)
Sub(e, ty, cx) == Good(e) /\ IsSubtype(e.ty, ty, cx)
Holds(cond, env, cx) == LET c == Check(cond, BoolTy, env, cx) IN When(c.ty = BoolTy, c)
BindAll(env, names, tys) ==
  [env EXCEPT !.vars = [n \in {names[i] : i \in DOMAIN names} |-> tys[CHOOSE i \in DOMAIN names : names[i] = n]] @@ @]

\* What a pattern binds, and what it says of the type of a name it is matched with.
PatternEnv(pat, scrutinee, env, cx) ==
  LET ty == scrutinee.ty
      binders(pats) == SelectSeq([i \in DOMAIN pats |-> <<pats[i], i>>], LAMBDA x : x[1].k = "Binding")
      bind(pats, tys) == BindAll(env, [i \in DOMAIN binders(pats) |-> binders(pats)[i][1].name],
                                      [i \in DOMAIN binders(pats) |-> tys[binders(pats)[i][2]]])
      fields == FieldsOf(pat.ty.path[1], cx)
      narrowed(en) == IF scrutinee.k = "Ident" THEN BindAll(en, <<scrutinee.name>>, <<ClassTy(pat.ty.path[1])>>) ELSE en
  IN  CASE pat.k = "Binding" -> BindAll(env, <<pat.name>>, <<ty>>)
        [] pat.k = "Constructor" -> narrowed(bind(pat.fields, [i \in DOMAIN fields |-> AstTy(fields[i].ty, {}, cx)]))
        [] pat.k = "TuplePattern" /\ ty.k = "Tuple" -> bind(pat.elems, ty.elems)
        [] OTHER -> env

\* A loop over an object calls __iter__ and then __next__ until it returns none.
Iterable(it, varTy, cx) ==
  it.ty.k = "Class" =>
    /\ HasMethod(it.ty.c, "__iter__", cx)
    /\ LET ret == RetTy(LookupMethod(it.ty.c, "__iter__", cx).decl, cx)
       IN  /\ ret.k = "Class" /\ HasMethod(ret.c, "__next__", cx)
           /\ IsSubtype(UnwrapNullable(RetTy(LookupMethod(ret.c, "__next__", cx).decl, cx)), varTy, cx)

\* The checked block, in a sequence; none if it is rejected.
BlockOf(b, env, cx) ==
  IF b = <<>> THEN <<b>>
  ELSE LET first == Annotate(b[1], <<>>, env, cx)
           rest == CheckBlock(Tail(b), first.env, cx)
       IN  IF first.s.k = "Fail" \/ rest = <<>> THEN <<>> ELSE <<<<first.s>> \o rest[1]>>

CheckLet(s, env, cx) ==
  CASE s.k = "Let" ->
         LET ty == TypeOf(s.ty, env, cx)
             init == Check(s.init, ty, env, cx)
         IN  [s |-> When(Sub(init, ty, cx), [s EXCEPT !.ty = ty, !.init = init]), env |-> BindAll(env, <<s.name>>, <<ty>>)]
    [] s.k = "LetDestructure" ->
         LET init == Synth(s.init, env, cx)
             annotated(i) == s.tys[i] # <<>> => IsSubtype(init.ty.elems[i], TypeOf(s.tys[i][1], env, cx), cx)
             ok == init.ty.k = "Tuple" /\ Len(init.ty.elems) = Len(s.names) /\ \A i \in DOMAIN s.names : annotated(i)
         IN  [s |-> When(ok, [s EXCEPT !.init = init]), env |-> IF ok THEN BindAll(env, s.names, init.ty.elems) ELSE env]
    [] s.k = "LetStarDestructure" ->
         LET init == Synth(s.init, env, cx)
             names == s.before \o <<s.star>> \o s.after
             tys == [i \in DOMAIN names |-> IF i = Len(s.before) + 1 THEN init.ty ELSE init.ty.args[1]]
             ok == IsGeneric(init.ty, "List")
         IN  [s |-> When(ok, [s EXCEPT !.init = init]), env |-> IF ok THEN BindAll(env, names, tys) ELSE env]

CheckAssign(s, env, cx) ==
  LET target == IF s.target.k = "Index" THEN SynthIndex(s.target, "__setitem__", env, cx) ELSE Synth(s.target, env, cx)
      value == Check(s.value, target.ty, env, cx)
      ok == IF s.k = "Assign" THEN Sub(value, target.ty, cx)
            ELSE target.ty = value.ty /\ (s.op = "/" => IsPrim(target.ty, Floats))
  IN  When(Good(target) /\ Good(value) /\ ok, [s EXCEPT !.target = target, !.value = value])

\* Only a block that ends in return or raise says anything of what follows it.
CheckIf(s, env, cx) ==
  LET cond == Holds(s.cond, env, cx)
      known == Narrowings(s.cond, env)
      then == CheckBlock(s.then, known.then, cx)
      conds == [i \in DOMAIN s.elifs |-> Holds(s.elifs[i][1], env, cx)]
      elifs == [i \in DOMAIN s.elifs |-> CheckBlock(s.elifs[i][2], env, cx)]
      else == [i \in DOMAIN s.else |-> CheckBlock(s.else[i], known.else, cx)]
  IN  [s |-> When(/\ Good(cond) /\ GoodAll(conds) /\ then # <<>>
                  /\ (\A i \in DOMAIN elifs : elifs[i] # <<>>) /\ (\A i \in DOMAIN else : else[i] # <<>>),
                  [s EXCEPT !.cond = cond, !.then = then[1], !.elifs = [i \in DOMAIN elifs |-> <<conds[i], elifs[i][1]>>],
                            !.else = [i \in DOMAIN else |-> else[i][1]]]),
       env |-> IF AlwaysReturns(s.then) THEN known.else ELSE env]

CheckLoop(s, env, cx) ==
  LET cond == Holds(s.cond, env, cx)
      iter == Synth(s.iter, env, cx)
      ty == TypeOf(s.ty, env, cx)
      body == CheckBlock(s.body, IF s.k = "For" THEN BindAll(env, <<s.var>>, <<ty>>) ELSE env, cx)
  IN  IF s.k = "While" THEN When(Good(cond) /\ body # <<>>, [s EXCEPT !.cond = cond, !.body = body[1]])
      ELSE When(Good(iter) /\ Iterable(iter, ty, cx) /\ body # <<>>, [s EXCEPT !.iter = iter, !.ty = ty, !.body = body[1]])

CheckMatch(s, env, cx) ==
  LET scrutinee == Synth(s.scrutinee, env, cx)
      bodies == [i \in DOMAIN s.arms |-> CheckBlock(s.arms[i].body, PatternEnv(s.arms[i].pattern, scrutinee, env, cx), cx)]
  IN  When(Good(scrutinee) /\ \A i \in DOMAIN bodies : bodies[i] # <<>>,
           [s EXCEPT !.scrutinee = scrutinee, !.arms = [i \in DOMAIN @ |-> [@[i] EXCEPT !.body = bodies[i][1]]]])

CheckRaise(s, env, cx) ==
  LET builtin == s.exc.k = "Call" /\ s.exc.callee.k = "Ident" /\ s.exc.callee.name \in BuiltinExceptions
      msg == Check(s.exc.args[1].value, StrTy, env, cx)
      exc == Synth(s.exc, env, cx)
  IN  IF builtin
      THEN When(Len(s.exc.args) = 1 /\ Good(msg), [s EXCEPT !.exc = Typed(@, [args |-> <<[@.args[1] EXCEPT !.value = msg]>>], ClassTy(@.callee.name))])
      ELSE When(Good(exc) /\ (exc.ty.k = "Class" => ClassIsException(exc.ty.c, cx)), [s EXCEPT !.exc = exc])

CheckStmt(s, env, cx) ==
  LET same(t) == [s |-> t, env |-> env]
      value == Check(s.value[1], env.ret, env, cx)
      expr == Synth(s.expr, env, cx)
      cond == Holds(s.cond, env, cx)
      dict == Synth(s.target.obj, env, cx)
      key == Check(s.target.indices[1], dict.ty.args[1], env, cx)
  IN  CASE s.k \in {"Let", "LetDestructure", "LetStarDestructure"} -> CheckLet(s, env, cx)
        [] s.k \in {"Assign", "AugAssign"} -> same(CheckAssign(s, env, cx))
        [] s.k = "Return" /\ s.value = <<>> -> same(When(env.ret = UnitTy, s))
        [] s.k = "Return" -> same(When(Sub(value, env.ret, cx), [s EXCEPT !.value = <<value>>]))
        [] s.k = "If" -> CheckIf(s, env, cx)
        [] s.k \in {"While", "For"} -> same(CheckLoop(s, env, cx))
        [] s.k = "Match" -> same(CheckMatch(s, env, cx))
        [] s.k = "Raise" -> same(CheckRaise(s, env, cx))
        [] s.k = "Assert" -> same(When(Good(cond), [s EXCEPT !.cond = cond]))
        [] s.k = "Expr" -> same(When(Good(expr), [s EXCEPT !.expr = expr]))
        [] s.k = "Del" -> same(When(IsGeneric(dict.ty, "Dict") /\ Good(key),
                                    [s EXCEPT !.target = [@ EXCEPT !.obj = dict, !.indices = <<key>>]]))
        [] s.k = "Word" -> same(s)

\* A function is checked with the types of its parameters; its defaults see none
\* of them.  self is the class of a method, in a sequence.
FuncOf(f, self, cx) ==
  LET tys == [i \in DOMAIN f.params |-> IF f.params[i].name = "self" THEN ClassTy(self[1]) ELSE AstTy(f.params[i].ty, GenericNames(f), cx)]
      empty == [vars |-> <<>>, ret |-> RetTy(f, cx), bounds |-> BoundsOf(f)]
      defaults == [i \in DOMAIN tys |-> [j \in DOMAIN f.params[i].default |-> Check(f.params[i].default[j], tys[i], empty, cx)]]
      body == CheckBlock(f.body, BindAll(empty, [i \in DOMAIN tys |-> f.params[i].name], tys), cx)
  IN  When(/\ DefaultOrderOk(Params(f)) /\ body # <<>>
           /\ \A i \in DOMAIN tys : \A j \in DOMAIN defaults[i] : Sub(defaults[i][j], tys[i], cx),
           [f EXCEPT !.params = [i \in DOMAIN tys |-> [@[i] EXCEPT !.ty = tys[i], !.default = defaults[i]]],
                     !.ret = RetTy(f, cx), !.body = body[1]])

CheckClass(c, name, cx) ==
  [c EXCEPT !.methods = [i \in DOMAIN @ |-> CheckFunc(@[i], <<name>>, cx)],
            !.init = [i \in DOMAIN @ |-> CheckFunc(@[i], <<name>>, cx)]]

\* What the resolver knows of the declarations.
Context(decls) ==
  LET of(k) == {d \in ToSet(decls) : d.k = k}
      named(ds) == [n \in {d.name : d \in ds} |-> CHOOSE d \in ds : d.name = n]
      classes == named(of("Class"))
  IN  [classes |-> [n \in DOMAIN classes |-> [base |-> [i \in DOMAIN classes[n].bases |-> classes[n].bases[i].path[1]],
                                              open |-> classes[n].modifier \in {"open", "sealed"},
                                              fields |-> classes[n].fields, methods |-> classes[n].methods, init |-> classes[n].init]],
       funs |-> named(of("Func")), consts |-> named(of("Const"))]

\* The annotated program; a function that is rejected has become Fail.
ModuleOf(cx) ==
  [classes |-> [c \in DOMAIN cx.classes |-> CheckClass(cx.classes[c], c, cx)],
   funs |-> [f \in DOMAIN cx.funs |-> CheckFunc(cx.funs[f], <<>>, cx)],
   consts |-> [c \in DOMAIN cx.consts |-> [cx.consts[c] EXCEPT !.ty = AstTy(@, {}, cx),
                 !.value = Check(@, AstTy(cx.consts[c].ty, {}, cx), [vars |-> <<>>, ret |-> UnitTy, bounds |-> <<>>], cx)]]]

Annotate(x, exp, env, cx) ==
  CASE x.k = "Module" -> ModuleOf(cx)
    [] x.k = "Func" -> FuncOf(x, exp, cx)
    [] x.k = "Block" -> BlockOf(x.b, env, cx)
    [] x.k \in {"Let", "LetDestructure", "LetStarDestructure", "Assign", "AugAssign", "Return", "If", "While", "For", "Match", "Raise",
                "Assert", "Expr", "Del", "Word"} -> CheckStmt(x, env, cx)
    [] OTHER -> IF exp = <<>> THEN SynthOther(x, env, cx) ELSE CheckOther(x, exp[1], env, cx)

CheckModule(cx) == Annotate([k |-> "Module"], <<>>, <<>>, cx)

Accepted(m) ==
  LET funcs(fs) == \A i \in DOMAIN fs : fs[i].k # "Fail"
  IN  /\ funcs(m.funs) /\ \A c \in DOMAIN m.classes : funcs(m.classes[c].methods) /\ funcs(m.classes[c].init)
      /\ \A c \in DOMAIN m.consts : Good(m.consts[c].value)
=============================================================================
