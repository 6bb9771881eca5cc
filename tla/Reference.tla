------------------------------ MODULE Reference ------------------------------
(***************************************************************************)
(* What a checked program means, said directly on its tree: the value of   *)
(* every expression and the effect of every statement, with neither        *)
(* registers nor slots nor widths of opcodes.  This is the specification   *)
(* the compiler and the machine are held to.                               *)
(*                                                                         *)
(* Meaning of x in a state s is the state after it: s.v is the value of    *)
(* the expression, and s.ctl is ok unless something left the normal order: *)
(* return, break, continue, raise, or a trap.  A value is a record of its  *)
(* kind t and its contents v.                                              *)
(***************************************************************************)
EXTENDS Typing
LOCAL INSTANCE TLC
LOCAL INSTANCE SequencesExt

CONSTANT CallDepth    \* how deep calls may nest

Val(t, v) == [t |-> t, v |-> v]
Unit == Val("unit", 0)
Null == Val("null", 0)
Boolean(b) == Val("bool", b)
Gives(s, v) == [s EXCEPT !.v = v]
Leaves(s, how, v) == [s EXCEPT !.ctl = how, !.v = v]
Raises(s, name) == Leaves(s, "raise", <<name>>)
Then(s, F(_)) == IF s.ctl = "ok" THEN F(s) ELSE s
Bound(s, name, v) == [s EXCEPT !.vars = Bind(@, name, v)]
Allocate(s, object) == [s EXCEPT !.heap = Append(@, object), !.v = Val("ref", Len(s.heap) + 1)]
Contents(s, p) == s.heap[p.v].v
Update(s, p, v) == [s EXCEPT !.heap[p.v].v = v]
All(es) == [k |-> "All", es |-> es, vs |-> <<>>]
Body(b) == [k |-> "Block", b |-> b]

-----------------------------------------------------------------------------
(* Operators.                                                              *)
To(x, t) == IF x.t # "f64" /\ t = "f64" THEN Val(t, x.v * Scale) ELSE Val(t, x.v)
OpName(op) ==
  CASE op = "+" -> "IAdd" [] op = "-" -> "ISub" [] op = "*" -> "IMul" [] op = "//" -> "IDiv"
    [] op = "&" -> "IAnd" [] op = "|" -> "IOr" [] op = "^" -> "IXor" [] op = "<<" -> "IShl" [] op = ">>" -> "IShr"
FloatName(op) == CASE op = "+" -> "FAdd" [] op = "-" -> "FSub" [] op = "*" -> "FMul" [] op = "/" -> "FDiv"
\* The remainder has the sign of the divisor (STRICTPY_SPEC.md:977); the
\* machine's has that of the dividend (IRem of Types).
Remainder(a, b) == IF b > 0 THEN a % b ELSE -((-a) % (-b))
Numeral(s, op, x, y) ==
  LET t == IF op = "/" THEN "f64" ELSE IF op \in {"<<", ">>"} THEN x.t ELSE NumericCommonTy(x.t, y.t)
      exact == IF op = "%" THEN Remainder(x.v, y.v) ELSE Exact(OpName(op), x.v, y.v, t)
  IN  CASE t = "f64" /\ op = "**" -> Gives(s, Val(t, FloatPower(To(x, t).v, To(y, t).v)))
        [] t = "f64" -> Gives(s, Val(t, FloatResult(FloatName(op), To(x, t).v, To(y, t).v)))
        [] op = "**" -> IF y.v < 0 THEN Raises(s, "ValueError") ELSE Gives(s, Val(t, Wrap(x.v ^ y.v, t)))
        [] op \in {"//", "%"} /\ y.v = 0 -> Raises(s, "ZeroDivisionError")
        [] op \in {"+", "-", "*"} /\ ~Fits(exact, t) /\ s.build = "debug" -> Raises(s, "OverflowError")
        [] OTHER -> Gives(s, Val(t, Wrap(exact, t)))

RECURSIVE Equal(_, _)
Equal(x, y) ==
  IF x.t \in Numerics /\ y.t \in Numerics
  THEN To(x, NumericCommonTy(x.t, y.t)).v = To(y, NumericCommonTy(x.t, y.t)).v
  ELSE /\ x.t = y.t
       /\ x.t = y.t => IF x.t = "tuple" THEN \A i \in DOMAIN x.v : Equal(x.v[i], y.v[i]) ELSE x.v = y.v
Less_(x, y) ==
  IF x.t = "str" THEN StrCompare(x.v, y.v) < 0
  ELSE LET t == NumericCommonTy(x.t, y.t) IN To(x, t).v < To(y, t).v
Operator(s, op, x, y) ==
  LET is(b) == Gives(s, Boolean(b))
  IN  CASE op \in {"==", "is"} -> is(Equal(x, y)) [] op \in {"!=", "is not"} -> is(~Equal(x, y))
        [] op = "<" -> is(Less_(x, y)) [] op = ">" -> is(Less_(y, x))
        [] op = "<=" -> is(~Less_(y, x)) [] op = ">=" -> is(~Less_(x, y))
        [] op = "in" -> is(x.v \in DOMAIN Contents(s, y)) [] op = "not in" -> is(x.v \notin DOMAIN Contents(s, y))
        [] x.t = "str" -> Gives(s, Val("str", x.v \o y.v))
        [] OTHER -> Numeral(s, op, x, y)

\* An index from the end is negative.
Place(i, n) == IF i < 0 THEN i + n ELSE i
\* The indices a slice goes through, as in a sequence of length n.
SliceOf(n, lo, hi, step) ==
  LET clamp(x, l, h) == IF x < l THEN l ELSE IF x > h THEN h ELSE x
      bound(x, absent) == IF x = <<>> THEN absent
                          ELSE IF step > 0 THEN clamp(Place(x[1], n), 0, n) ELSE clamp(Place(x[1], n), -1, n - 1)
      from == bound(lo, IF step > 0 THEN 0 ELSE n - 1)
      to == bound(hi, IF step > 0 THEN n ELSE -1)
      count == CHOOSE c \in 0..n : /\ \A j \in 0..(c - 1) : IF step > 0 THEN from + j * step < to ELSE from + j * step > to
                                   /\ IF step > 0 THEN from + c * step >= to ELSE from + c * step <= to
  IN  [j \in 1..count |-> from + (j - 1) * step + 1]

-----------------------------------------------------------------------------
RECURSIVE Ev(_, _, _)
\* A call runs the body of the callee in its own scope.
CallBody(vars, body, s, cx) ==
  LET r == Ev(body, [s EXCEPT !.vars = vars, !.depth = @ + 1], cx)
      back == [r EXCEPT !.vars = s.vars, !.depth = s.depth]
  IN  IF s.depth >= CallDepth THEN Leaves(s, "trap", <<>>)
      ELSE IF r.ctl = "return" THEN [back EXCEPT !.ctl = "ok"] ELSE IF r.ctl = "ok" THEN Gives(back, IF body.k = "Block" THEN Unit ELSE r.v) ELSE back
Scope(params, vs) == [n \in {params[i].name : i \in DOMAIN params} |-> vs[CHOOSE i \in DOMAIN params : params[i].name = n]]
CallFunc(f, vs, s, cx) == CallBody(Scope(f.params, vs), Body(f.body), s, cx)
CallMember(p, name, vs, s, cx) ==
  IF p.t = "null" THEN Raises(s, "NullPointerError")
  ELSE CallFunc(LookupMethod(s.heap[p.v].c, name, cx).decl, <<p>> \o vs, s, cx)

\* Arguments and defaults in the order of the parameters.
Supplied(params, args) ==
  LET slots == BindArgs(params, args)
  IN  [i \in DOMAIN params |-> IF slots[i] = 0 THEN params[i].default[1] ELSE args[slots[i]].value]
Plain(args) == [i \in DOMAIN args |-> args[i].value]

TextOf(v, s, cx) ==
  LET named(m) == HasMethod(s.heap[v.v].c, m, cx)
  IN  CASE v.t \in {"i32", "i64"} -> Gives(s, Val("str", ToString(v.v)))
        [] v.t = "f64" -> Gives(s, Val("str", FormatF64(v.v)))
        [] v.t = "bool" -> Gives(s, Val("str", IF v.v THEN "true" ELSE "false"))
        [] v.t = "tuple" -> Ev([k |-> "Join", before |-> "(", vs |-> v.v, labels |-> [i \in DOMAIN v.v |-> ""]], s, cx)
        [] v.t = "ref" /\ (v.t = "ref" => named("__str__")) -> CallMember(v, "__str__", <<>>, s, cx)
        [] v.t = "ref" /\ (v.t = "ref" => named("__repr__")) -> CallMember(v, "__repr__", <<>>, s, cx)
        [] v.t = "ref" ->
             LET c == s.heap[v.v].c
                 fs == FieldsOf(c, cx)
             IN  Ev([k |-> "Join", before |-> c \o "(", vs |-> [i \in DOMAIN fs |-> Contents(s, v)[fs[i].name]],
                     labels |-> [i \in DOMAIN fs |-> fs[i].name \o "="]], s, cx)
        [] OTHER -> Gives(s, Val("str", v.v))
\* The texts of values, each with a label, between commas.
Joined(x, s, cx) ==
  IF x.vs = <<>> THEN Gives(s, Val("str", x.before \o ")"))
  ELSE Then(Ev([k |-> "Text", v |-> x.vs[1]], s, cx),
            LAMBDA r : Ev([x EXCEPT !.before = @ \o x.labels[1] \o r.v.v \o (IF Len(x.vs) > 1 THEN ", " ELSE ""),
                                    !.vs = Tail(@), !.labels = Tail(@)], r, cx))

Cast(to, v) ==
  LET whole == Quot(v.v, Scale)
      near(p) == IF whole >= Half[p] THEN Half[p] - 1 ELSE IF whole < -Half[p] THEN -Half[p] ELSE whole
  IN  CASE v.t = "bool" -> To(Val("i64", IF v.v THEN 1 ELSE 0), to)
        [] to = "f64" -> To(v, to)
        [] v.t = "f64" -> Val(to, near(to))
        [] OTHER -> Val(to, Wrap(v.v, to))

CallNamed(name, e, s, cx) ==
  LET values == Ev(All(Plain(e.args)), s, cx)
      init == cx.classes[name].init
      made(r) == Allocate(r, [c |-> name, v |-> [n \in {f.name : f \in ToSet(FieldsOf(name, cx))} |->
                                IF ClassIsException(name, cx) /\ n = "type_name" THEN Val("str", name) ELSE Null]])
  IN  CASE name = "print" -> Then(values, LAMBDA r : Then(Ev([k |-> "Text", v |-> r.v[1]], r, cx),
                                                          LAMBDA t : Gives([t EXCEPT !.out = Append(@, t.v.v)], Unit)))
        [] name = "str" -> Then(values, LAMBDA r : Ev([k |-> "Text", v |-> r.v[1]], r, cx))
        [] name = "len" -> Then(values, LAMBDA r : Gives(r, Val("i64", IF r.v[1].t = "str" THEN Len(r.v[1].v)
                                                          ELSE Cardinality(DOMAIN Contents(r, r.v[1])))))
        [] name = "isinstance" ->
             Then(Ev(e.args[1].value, s, cx),
                  LAMBDA r : Gives(r, Boolean(r.v.t = "ref" /\ (r.v.t = "ref" => ClassExtends(r.heap[r.v.v].c, e.args[2].value.name, cx)))))
        [] name \in Casts -> Then(values, LAMBDA r : Gives(r, Cast(name, r.v[1])))
        [] name \in DOMAIN cx.classes /\ (name \in DOMAIN cx.classes => init = <<>>) -> Then(values, made)
        [] name \in DOMAIN cx.classes ->
             Then(Ev(All(Supplied(Params(init[1]), e.args)), s, cx),
                  LAMBDA r : LET o == made(r) IN Then(CallFunc(init[1], <<o.v>> \o r.v, o, cx), LAMBDA d : Gives(d, o.v)))
        [] OTHER -> Then(Ev(All(Supplied(cx.funs[name].params, e.args)), s, cx), LAMBDA r : CallFunc(cx.funs[name], r.v, r, cx))

CallValue(f, vs, s, cx) ==
  IF f.v.k = "Lambda" THEN CallBody(Scope(f.v.params, vs) @@ f.v.vars, f.v.body, s, cx) ELSE CallFunc(f.v, vs, s, cx)

ElementAt(s, x, i) ==
  CASE x.t = "str" -> IF Place(i.v, Len(x.v)) \in 0..(Len(x.v) - 1)
                      THEN LET j == Place(i.v, Len(x.v)) + 1 IN Gives(s, Val("char", SubSeq(x.v, j, j))) ELSE Raises(s, "IndexError")
    [] i.t = "str" -> Gives(s, IF i.v \in DOMAIN Contents(s, x) THEN Contents(s, x)[i.v] ELSE Val("none", 0))
    [] OTHER -> LET xs == Contents(s, x)
                IN  IF Place(i.v, Len(xs)) \in 0..(Len(xs) - 1) THEN Gives(s, xs[Place(i.v, Len(xs)) + 1]) ELSE Raises(s, "IndexError")
FieldOf(s, p, name) ==
  CASE p.t = "tuple" -> Gives(s, p.v[CHOOSE i \in DOMAIN p.v : name = ToString(i - 1)])
    [] p.t = "null" -> Raises(s, "NullPointerError")
    [] OTHER -> Gives(s, Contents(s, p)[name])
\* v is stored in a place, whose parts are evaluated after it.
Into(target, v, s, cx) ==
  CASE target.k = "Ident" -> Bound(s, target.name, v)
    [] target.k = "Attr" -> Then(Ev(target.obj, s, cx), LAMBDA r : IF r.v.t = "null" THEN Raises(r, "NullPointerError")
                                                                   ELSE Update(r, r.v, Bind(Contents(r, r.v), target.name, v)))
    [] OTHER -> Then(Ev(All(<<target.obj, target.indices[1]>>), s, cx), LAMBDA r :
          LET p == r.v[1]
              i == r.v[2]
              xs == Contents(r, p)
          IN  CASE target.obj.ty.k = "Class" -> CallMember(p, "__setitem__", <<i, v>>, r, cx)
                [] i.t = "str" -> Update(r, p, Bind(xs, i.v, v))
                [] OTHER -> IF Place(i.v, Len(xs)) \in 0..(Len(xs) - 1) THEN Update(r, p, [xs EXCEPT ![Place(i.v, Len(xs)) + 1] = v])
                            ELSE Raises(r, "IndexError"))

Binary_(e, s, cx) ==
  LET dunder(r) == DunderOf(e.op, r.heap[r.v[1].v].c, cx)[1]
  IN  CASE e.op = "and" -> Then(Ev(e.lhs, s, cx), LAMBDA r : IF r.v.v THEN Ev(e.rhs, r, cx) ELSE r)
        [] e.op = "or" -> Then(Ev(e.lhs, s, cx), LAMBDA r : IF r.v.v THEN r ELSE Ev(e.rhs, r, cx))
        [] OTHER -> Then(Ev(All(<<e.lhs, e.rhs>>), s, cx), LAMBDA r :
             IF r.v[1].t = "ref" /\ e.op \in DOMAIN Dunder
             THEN LET c == CallMember(r.v[1], dunder(r), <<r.v[2]>>, r, cx)
                  IN  IF e.op = "!=" /\ dunder(r) = "__eq__" THEN Then(c, LAMBDA d : Gives(d, Boolean(~d.v.v))) ELSE c
             ELSE Operator(r, e.op, r.v[1], r.v[2]))

Method(e, s, cx) ==
  LET c(p, r) == r.heap[p.v].c
      ms == cx.classes[e.receiver.ty.c].methods
      own == {i \in DOMAIN ms : ms[i].name = e.method}
      args == IF e.receiver.ty.k = "Class" /\ (e.receiver.ty.k = "Class" => own # {})
              THEN Supplied(Params(ms[CHOOSE i \in own : TRUE]), e.args) ELSE Plain(e.args)
  IN  Then(Ev(All(<<e.receiver>> \o args), s, cx), LAMBDA r :
        CASE e.receiver.ty.k = "Class" -> CallMember(r.v[1], e.method, Tail(r.v), r, cx)
          [] e.method = "get" -> ElementAt(r, r.v[1], r.v[2])
          [] OTHER -> Gives(Update(r, r.v[1], Append(Contents(r, r.v[1]), r.v[2])), Unit))

\* The elements a loop or a comprehension goes through.
Items(x, s) == IF x.t = "range" THEN x.v ELSE Contents(s, x)
RangeOf(vs) ==
  LET from == IF Len(vs) = 1 THEN 0 ELSE vs[1].v
      to == IF Len(vs) = 1 THEN vs[1].v ELSE vs[2].v
      step == IF Len(vs) = 3 THEN vs[3].v ELSE 1
      dist == IF step > 0 THEN to - from ELSE from - to
      n == IF dist <= 0 \/ step = 0 THEN 0 ELSE (dist + Magnitude(step) - 1) \div Magnitude(step)
  IN  Val("range", [j \in 1..n |-> Val("i64", from + (j - 1) * step)])

Expression(e, s, cx) ==
  LET all(es, F(_)) == Then(Ev(All(es), s, cx), F)
  IN  CASE e.k = "Literal" ->
             Gives(s, CASE e.ty.p = "null" -> Val("none", 0) [] OTHER -> Val(e.ty.p, e.lit.v))
        [] e.k = "Ident" ->
             IF e.name \in DOMAIN s.vars THEN Gives(s, s.vars[e.name])
             ELSE IF e.name \in DOMAIN cx.consts THEN Ev(cx.consts[e.name].value, s, cx) ELSE Gives(s, Val("fn", cx.funs[e.name]))
        [] e.k = "Tuple" -> all(e.elems, LAMBDA r : Gives(r, Val("tuple", r.v)))
        [] e.k = "List" -> all(e.elems, LAMBDA r : Allocate(r, [v |-> r.v]))
        [] e.k = "Dict" ->
             all(FlattenSeq(e.entries), LAMBDA r :
                   Allocate(r, [v |-> [n \in {r.v[2 * i - 1].v : i \in DOMAIN e.entries} |->
                                         r.v[2 * Max({i \in DOMAIN e.entries : r.v[2 * i - 1].v = n})]]]))
        [] e.k = "Unary" ->
             Then(Ev(e.operand, s, cx), LAMBDA r :
               Gives(r, CASE e.op = "not" -> Boolean(~r.v.v) [] e.op = "+" -> r.v [] e.op = "~" -> Val(r.v.t, -r.v.v - 1)
                          [] OTHER -> Val(r.v.t, IF r.v.t = "f64" THEN -r.v.v ELSE Wrap(-r.v.v, r.v.t))))
        [] e.k = "Binary" -> Binary_(e, s, cx)
        [] e.k = "NullCoalesce" -> Then(Ev(e.lhs, s, cx), LAMBDA r : IF r.v.t = "none" THEN Ev(e.rhs, r, cx) ELSE r)
        [] e.k = "Call" /\ e.callee.k = "Ident" /\ e.callee.name = "range" -> all(Plain(e.args), LAMBDA r : Gives(r, RangeOf(r.v)))
        [] e.k = "Call" /\ e.callee.k = "Ident" /\ e.callee.name \in Builtins \cup DOMAIN cx.classes \cup DOMAIN cx.funs ->
             CallNamed(e.callee.name, e, s, cx)
        [] e.k = "Call" -> all(Append(Plain(e.args), e.callee), LAMBDA r : CallValue(Last(r.v), Front(r.v), r, cx))
        [] e.k = "MethodCall" -> Method(e, s, cx)
        [] e.k = "Attr" -> Then(Ev(e.obj, s, cx), LAMBDA r : FieldOf(r, r.v, e.name))
        [] e.k = "Index" ->
             all(<<e.obj, e.indices[1]>>, LAMBDA r : IF e.obj.ty.k = "Class" THEN CallMember(r.v[1], "__getitem__", <<r.v[2]>>, r, cx)
                                                     ELSE ElementAt(r, r.v[1], r.v[2]))
        [] e.k = "Slice" ->
             all(<<e.obj>> \o e.step \o e.lo \o e.hi, LAMBDA r :
               LET x == r.v[1]
                   nS == Len(e.step)
                   nL == Len(e.lo)
                   opt(from, n) == [i \in 1..n |-> r.v[from + i].v]
                   xs == IF x.t = "str" THEN [i \in 1..Len(x.v) |-> SubSeq(x.v, i, i)] ELSE Contents(r, x)
                   at == SliceOf(Len(xs), opt(1 + nS, nL), opt(1 + nS + nL, Len(e.hi)), IF nS = 0 THEN 1 ELSE r.v[2].v)
                   ys == [i \in DOMAIN at |-> xs[at[i]]]
               IN  IF x.t = "str" THEN Gives(r, Val("str", FoldLeft(LAMBDA a, b : a \o b, "", ys))) ELSE Allocate(r, [v |-> ys]))
        [] e.k = "Lambda" -> Gives(s, Val("fn", [k |-> "Lambda", params |-> e.params, body |-> e.body, vars |-> s.vars]))
        [] OTHER -> Then(Ev(e.iter, s, cx), LAMBDA r : Ev([k |-> "Collect", e |-> e, xs |-> Items(r.v, r), vs |-> <<>>, outer |-> s.vars], r, cx))

-----------------------------------------------------------------------------
(* Statements.                                                             *)
BindAs(s, names, vs) == [s EXCEPT !.vars = Scope([i \in DOMAIN names |-> [name |-> names[i]]], vs) @@ @]
Destructure(x, r) ==
  LET xs == Contents(r, r.v)
      nB == Len(x.before)
      nA == Len(x.after)
      short == Len(xs) < nB + nA
      rest == Allocate(r, [v |-> SubSeq(xs, nB + 1, Len(xs) - nA)])
  IN  IF short THEN Raises(r, "IndexError")
      ELSE BindAs(Bound(rest, x.star, rest.v), x.before \o x.after, SubSeq(xs, 1, nB) \o SubSeq(xs, Len(xs) - nA + 1, Len(xs)))
Matches(pat, v, s, cx) ==
  CASE pat.k = "LitPattern" -> v.v = pat.lit.v
    [] pat.k = "Constructor" -> v.t = "ref" /\ (v.t = "ref" => ClassExtends(s.heap[v.v].c, pat.ty.path[1], cx))
    [] OTHER -> TRUE
BindPattern(pat, v, s, cx) ==
  LET bind(ps, val(_)) == BindAs(s, [i \in DOMAIN ps |-> IF ps[i].k = "Binding" THEN ps[i].name ELSE "_"], [i \in DOMAIN ps |-> val(i)])
  IN  CASE pat.k = "Binding" -> Bound(s, pat.name, v)
        [] pat.k = "TuplePattern" -> bind(pat.elems, LAMBDA i : v.v[i])
        [] pat.k = "Constructor" -> bind(pat.fields, LAMBDA i : Contents(s, v)[FieldsOf(pat.ty.path[1], cx)[i].name])
        [] OTHER -> s
\* What a loop does after its body: nothing more, or the rest of it.
Again(r, more) == IF r.ctl \in {"ok", "continue"} THEN more ELSE IF r.ctl = "break" THEN [r EXCEPT !.ctl = "ok"] ELSE r
Normal(r) == [r EXCEPT !.ctl = "ok"]

Statement(x, s, cx) ==
  CASE x.k = "Let" -> Then(Ev(x.init, s, cx), LAMBDA r : Bound(r, x.name, r.v))
    [] x.k = "LetDestructure" -> Then(Ev(x.init, s, cx), LAMBDA r : BindAs(r, x.names, r.v.v))
    [] x.k = "LetStarDestructure" -> Then(Ev(x.init, s, cx), LAMBDA r : Destructure(x, r))
    [] x.k = "Assign" -> Then(Ev(x.value, s, cx), LAMBDA r : Into(x.target, r.v, r, cx))
    [] x.k = "AugAssign" -> Then(Ev(All(<<x.target, x.value>>), s, cx), LAMBDA r :
         Then(Operator(r, x.op, r.v[1], r.v[2]), LAMBDA d : Into(x.target, d.v, d, cx)))
    [] x.k = "Return" -> IF x.value = <<>> THEN Leaves(s, "return", Unit) ELSE Then(Ev(x.value[1], s, cx), LAMBDA r : [r EXCEPT !.ctl = "return"])
    [] x.k = "If" -> Then(Ev(x.cond, s, cx), LAMBDA r :
         IF r.v.v THEN Ev(Body(x.then), r, cx)
         ELSE IF x.elifs # <<>> THEN Ev([x EXCEPT !.cond = x.elifs[1][1], !.then = x.elifs[1][2], !.elifs = Tail(@)], r, cx)
         ELSE IF x.else # <<>> THEN Ev(Body(x.else[1]), r, cx) ELSE r)
    [] x.k = "While" -> Then(Ev(x.cond, s, cx), LAMBDA r :
         IF r.v.v THEN LET b == Ev(Body(x.body), r, cx) IN Again(b, Ev(x, Normal(b), cx)) ELSE r)
    [] x.k = "For" -> Then(Ev(x.iter, s, cx), LAMBDA r :
         IF x.iter.ty.k = "Class"
         THEN Then(CallMember(r.v, "__iter__", <<>>, r, cx), LAMBDA i : Ev([k |-> "Iterate", it |-> i.v, s |-> x], i, cx))
         ELSE Ev([k |-> "Each", xs |-> Items(r.v, r), s |-> x], r, cx))
    [] x.k = "Each" ->
         IF x.xs = <<>> THEN s
         ELSE LET b == Ev(Body(x.s.body), Bound(s, x.s.var, x.xs[1]), cx) IN Again(b, Ev([x EXCEPT !.xs = Tail(@)], Normal(b), cx))
    [] x.k = "Iterate" -> Then(CallMember(x.it, "__next__", <<>>, s, cx), LAMBDA r :
         IF r.v.t = "none" THEN r
         ELSE LET b == Ev(Body(x.s.body), Bound(r, x.s.var, r.v), cx) IN Again(b, Ev(x, Normal(b), cx)))
    [] x.k = "Match" -> Then(Ev(x.scrutinee, s, cx), LAMBDA r :
         LET hits == {i \in DOMAIN x.arms : Matches(x.arms[i].pattern, r.v, r, cx)}
             arm == x.arms[CHOOSE i \in hits : \A j \in hits : i <= j]
         IN  IF hits = {} THEN r ELSE Ev(Body(arm.body), BindPattern(arm.pattern, r.v, r, cx), cx))
    [] x.k = "Raise" ->
         IF x.exc.callee.name \in BuiltinExceptions
         THEN Then(Ev(x.exc.args[1].value, s, cx), LAMBDA r : Leaves(r, "raise", <<x.exc.callee.name, r.v.v>>))
         ELSE Then(Ev(x.exc, s, cx), LAMBDA r : Leaves(r, "raise", <<r.heap[r.v.v].c, Contents(r, r.v)["message"].v>>))
    [] x.k = "Assert" -> Then(Ev(x.cond, s, cx), LAMBDA r : IF r.v.v THEN r ELSE Raises(r, "AssertionError"))
    [] x.k = "Del" -> Then(Ev(All(<<x.target.obj, x.target.indices[1]>>), s, cx), LAMBDA r :
         LET d == Contents(r, r.v[1]) IN Update(r, r.v[1], [n \in DOMAIN d \ {r.v[2].v} |-> d[n]]))
    [] x.k = "Expr" -> Ev(x.expr, s, cx)
    [] x.k = "Word" -> IF x.word = "pass" THEN s ELSE Leaves(s, x.word, Unit)
    [] x.k = "Block" -> IF x.b = <<>> THEN s ELSE Then(Ev(x.b[1], s, cx), LAMBDA r : Ev(Body(Tail(x.b)), r, cx))

Ev(x, s, cx) ==
  CASE x.k = "All" -> IF x.es = <<>> THEN Gives(s, x.vs)
                      ELSE Then(Ev(x.es[1], s, cx), LAMBDA r : Ev([x EXCEPT !.es = Tail(@), !.vs = Append(@, r.v)], r, cx))
    [] x.k = "Text" -> TextOf(x.v, s, cx)
    [] x.k = "Join" -> Joined(x, s, cx)
    [] x.k = "Collect" ->
         LET in == Bound(s, x.e.var, x.xs[1])
             rest == [x EXCEPT !.xs = Tail(@)]
             keep(r) == Then(Ev(x.e.body, r, cx), LAMBDA d : Ev([rest EXCEPT !.vs = Append(@, d.v)], d, cx))
         IN  IF x.xs = <<>> THEN [Allocate(s, [v |-> x.vs]) EXCEPT !.vars = x.outer]
             ELSE IF x.e.cond = <<>> THEN keep(in)
             ELSE Then(Ev(x.e.cond[1], in, cx), LAMBDA r : IF r.v.v THEN keep(r) ELSE Ev(rest, r, cx))
    [] "ty" \in DOMAIN x /\ x.k # "Let" /\ x.k # "For" -> Expression(x, s, cx)
    [] OTHER -> Statement(x, s, cx)

\* What a checked program prints and how it ends.
Outcome(s) ==
  [out |-> s.out,
   status |-> CASE s.ctl = "raise" -> [k |-> "raised", exc |-> s.v] [] s.ctl = "trap" -> [k |-> "trap"] [] OTHER -> [k |-> "done"]]
Meaning(m, build) ==
  LET start == [vars |-> <<>>, heap |-> <<>>, out |-> <<>>, ctl |-> "ok", v |-> Unit, depth |-> 0, build |-> build]
  IN  Outcome(CallFunc(m.funs["main"], <<>>, start, m))
=============================================================================
