----------------------------- MODULE MCPipeline -----------------------------
\* Programs that between them use every construct that is lowered, with operands
\* on both sides of every boundary: i32 has 4 bits here and i64 has 8.
EXTENDS Machine
LOCAL INSTANCE Syntax WITH Names <- {}, Digits <- {}, Strings <- {}
LOCAL INSTANCE TLC
LOCAL INSTANCE SequencesExt

MCHalf == [i32 |-> 8, i64 |-> 128]

int(v) == IF v < 0 THEN Unary("-", Lit("int", -v, <<>>)) ELSE Lit("int", v, <<>>)
i32(v) == Lit("int", v, <<"i32">>)
float(v) == IF v < 0 THEN Unary("-", Lit("float", -v, <<>>)) ELSE Lit("float", v, <<>>)
text(s) == Lit("str", s, <<>>)
bool(b) == Lit("bool", b, <<>>)
char(c) == Lit("char", c, <<>>)
none == Lit("none", 0, <<>>)
x == Ident("x")
y == Ident("y")
z == Ident("z")
self == Ident("self")
T(name) == Named(<<name>>, <<>>)
ListOf(t) == Named(<<"List">>, <<t>>)
DictOf(t) == Named(<<"Dict">>, <<T("str"), t>>)
args(es) == [i \in DOMAIN es |-> [name |-> None, value |-> es[i]]]
call(f, es) == Call(Ident(f), args(es))
named(f, n, e, es) == Call(Ident(f), args(es) \o <<[name |-> <<n>>, value |-> e]>>)
send(o, m, es) == MethodCall(o, m, args(es))
show(e) == ExprStmt(call("print", <<call("str", <<e>>)>>))
do(e) == ExprStmt(e)
p(name, t) == Param(name, T(t), None)
me == Param("self", Infer, None)
fun(name, params, ret, body) == Func(name, <<>>, params, ret, body, <<>>)
main(body) == <<fun("main", <<>>, T("None"), body)>>
class(name, mod, bases, fields, methods, init) ==
  Class(name, mod, <<>>, [i \in DOMAIN bases |-> T(bases[i])], fields, methods, init)
field(name, t) == Field(name, T(t), None)
let(name, t, e) == Let(name, T(t), e)
set(e, v) == Assign(e, v)
get(o, name) == Attr(o, name)
at(o, i) == Index(o, <<i>>)
plus(a, b) == Binary("+", a, b)

-----------------------------------------------------------------------------
(* Every operator, on operands at the boundaries.                          *)
Cross(s, t) ==
  [i \in 1..(Len(s) * Len(t)) |-> <<s[((i - 1) \div Len(t)) + 1], t[((i - 1) % Len(t)) + 1]>>]
Each_(s, F(_)) == [i \in DOMAIN s |-> F(s[i])]
\* A program for each pair of operands x : t and y : u: one line for each operator,
\* of which those that may trap come last.
Operate(t, u, pairs, ops) ==
  Each_(pairs, LAMBDA c : main(<<let("x", t, c[1]), let("y", u, c[2])>>
                               \o [i \in DOMAIN ops |-> show(Binary(ops[i], x, y))]))
ints(vs) == [i \in DOMAIN vs |-> int(vs[i])]
\* No remainder is asked for whose operands differ in sign and that is not zero.
Remainders(t, pairs) == Operate(t, t, Each_(pairs, ints), <<"%">>)
Relations == <<"==", "!=", "<", "<=", ">", ">=">>
IntBinary ==
  Operate("i32", "i32", Cross(ints(<<-8, 3, 7>>), ints(<<-1, 0, 7>>)), <<"&", "|", "^", "//", "-", "+", "*">>)
  \o Operate("i64", "i64", Cross(ints(<<-127, 100>>), ints(<<-2, 0, 27>>)), <<"&", "|", "^", "//", "*", "+", "-">>)
  \o Remainders("i32", <<<<-8, -3>>, <<-8, -1>>, <<7, 3>>, <<7, 0>>>>)
  \o Remainders("i64", <<<<-127, -2>>, <<100, 27>>, <<100, -2>>, <<100, 0>>>>)
  \o Operate("i32", "i32", Cross(ints(<<-8, 7>>), ints(<<5>>)), <<"<<", ">>", "*">>)
  \o Operate("i64", "i64", Cross(ints(<<-3, 2>>), ints(<<7>>)), <<"**", "<<", ">>", "-">>)
  \o Operate("i64", "i64", <<<<int(2), int(-1)>>>>, <<"**">>)
Compares ==
  Operate("i32", "i32", Cross(ints(<<-1, 7>>), ints(<<-1, 3>>)), Relations)
  \o Operate("i64", "i64", Cross(ints(<<-1, 127>>), ints(<<-1, 3>>)), Relations)
  \o Operate("str", "str", Cross(<<text(""), text("ab"), text("b")>>, <<text("ab"), text("abc")>>), Relations \o <<"+">>)
FloatBinary ==
  Operate("f64", "f64", Cross(<<float(-6), float(10)>>, <<float(8), float(-2)>>), Relations \o <<"+", "-", "*", "/">>)
Mixed ==
  LET num(t, v) == IF t = "f64" THEN float(4 * v) ELSE int(v)
      kinds == <<"i32", "i64", "f64">>
      pair(c) == Operate(c[1], c[2], <<<<num(c[1], 7), num(c[2], 2)>>>>, <<"/", "<", "==", "-", "+", "*">>)
      all == Each_(Cross(kinds, kinds), LAMBDA c : pair(c)[1])
  IN  all
Unaries ==
  Each_(ints(<<-8, 7>>), LAMBDA v : main(<<let("x", "i32", v), show(Unary("~", x)), show(Unary("+", x)), show(Unary("-", x))>>))
  \o <<main(<<let("x", "f64", float(6)), show(Unary("-", x)), let("y", "bool", bool(TRUE)), show(Unary("not", y))>>)>>
Folds ==
  Each_(Cross(<<-2, 3>>, <<1, 2>>), LAMBDA c :
    main(Each_(<<"+", "-", "*", "//", "%">>, LAMBDA op : show(Binary(op, int(c[1]), int(c[2]))))
         \o Each_(<<"+", "-", "*">>, LAMBDA op : show(Binary(op, i32(3), i32(c[2]))))))
Converts ==
  Each_(<<<<"i32", int(-8)>>, <<"i64", int(9)>>, <<"f64", float(-41)>>, <<"f64", float(601)>>, <<"bool", bool(TRUE)>>>>,
        LAMBDA c : main(<<let("x", c[1], c[2])>> \o Each_(<<"i32", "i64", "f64">>, LAMBDA t : show(call(t, <<x>>)))))

-----------------------------------------------------------------------------
(* Data.                                                                   *)
a == Ident("a")
b == Ident("b")
xs == Ident("xs")
d == Ident("d")
o == Ident("o")
Ints == ListOf(T("i64"))
list(vs) == List(ints(vs))
fn(ps, ret) == Function(ps, ret)
num(name) == p(name, "i64")
opt(v) == IF v = 0 THEN <<>> ELSE <<int(v)>>
slice(e, lo, hi, step) == Slice(e, lo, hi, step)
for(v, t, it, body) == For(v, T(t), it, body, None)
aug(e, op, v) == AugAssign(e, op, v)
if(c, body) == If(c, body, <<>>, None)
ifelse(c, body, other) == If(c, body, <<>>, <<other>>)
ret(e) == Return(<<e>>)
range(es) == call("range", es)
lambda(ps, body) == Lambda(ps, T("i64"), body)
each(e, var, it, cond) == Comprehension("List", var, T("i64"), it, e, None, cond)
\* The elements of a list of integers, one after the other.
dump(e) == for("e", "i64", e, <<show(Ident("e"))>>)

Tuples == main(<<
  Let("x", TupleType(<<T("i64"), T("str")>>), Tuple(<<int(1), text("a")>>)), show(x), show(get(x, "0")),
  LetDestructure(<<"a", "b">>, <<<<>>, <<T("str")>>>>, x), show(b), show(Tuple(<<a, Tuple(<<float(2), char("b")>>)>>)),
  Let("y", TupleType(<<T("i64"), T("str")>>), Tuple(<<a, plus(text(""), b)>>)),
  show(Binary("==", x, y)), show(Binary("!=", x, Tuple(<<int(1), text("b")>>)))>>)
Lists == main(<<
  Let("xs", Ints, list(<<3, 1, 2>>)), do(send(xs, "append", <<int(5)>>)), set(at(xs, int(0)), int(9)), set(at(xs, int(-1)), int(8)),
  show(at(xs, int(-2))), show(call("len", <<xs>>)), dump(xs),
  Let("x", Ints, each(plus(a, int(1)), "a", xs, <<Binary("<", a, int(9))>>)), dump(x), dump(each(Binary("*", a, a), "a", x, <<>>)),
  LetStarDestructure(<<"a">>, "d", <<"b">>, xs), show(a), show(b), dump(d), aug(at(xs, int(1)), "+", int(40)), show(at(xs, int(1))),
  LetStarDestructure(<<>>, "z", <<"y">>, d), dump(z), show(at(xs, int(4)))>>)
BadIndex(i, store) == main(<<Let("xs", Ints, list(<<7, 8>>)),
  IF store THEN set(at(xs, int(i)), int(1)) ELSE show(at(xs, int(i))), show(call("len", <<xs>>))>>)
ShortList == main(<<Let("xs", Ints, list(<<7>>)), LetStarDestructure(<<"a", "b">>, "d", <<>>, xs), show(a)>>)
Ends == <<<<2, -1, 1>>, <<-2, 0, 0>>, <<0, 3, 2>>, <<0, 0, -1>>, <<-1, 1, -2>>, <<3, 2, 0>>, <<-9, 9, 1>>, <<9, -9, -3>>>>
Slices ==
  Each_(Ends, LAMBDA c : main(<<Let("xs", Ints, list(<<1, 2, 3, 4, 5>>)), dump(slice(xs, opt(c[1]), opt(c[2]), opt(c[3])))>>))
  \o Each_(Ends, LAMBDA c : main(<<show(slice(text("abcd"), opt(c[1]), opt(c[2]), opt(c[3])))>>))
Dicts == main(<<
  Let("d", DictOf(T("i64")), Dict(<<<<text("a"), int(1)>>, <<text("b"), int(2)>>, <<text("a"), int(3)>>>>)),
  show(at(d, text("a"))), set(at(d, text("ab")), int(4)), show(call("len", <<d>>)),
  show(Binary("in", text("b"), d)), Del(at(d, text("b"))), show(Binary("not in", text("b"), d)), show(Binary("in", text("b"), d)),
  Let("x", Nullable(T("i64")), send(d, "get", <<text("b")>>)), show(Binary("is", x, none)),
  show(NullCoalesce(x, int(7))), show(NullCoalesce(send(d, "get", <<text("ab")>>), int(7)))>>)
Texts == main(<<
  let("x", "str", text("a")), for("a", "i64", range(<<int(3)>>), <<set(x, plus(plus(x, call("str", <<a>>)), text(",")))>>), show(x),
  aug(x, "+", text("b")), show(x), show(at(x, int(-1))), show(at(x, int(1))), show(call("len", <<x>>)),
  let("y", "char", char("b")), show(y), show(bool(FALSE)), show(at(x, int(20)))>>)
\* x is appended to only while nothing else can see its contents.
Aliased == main(<<
  let("x", "str", text("a")), aug(x, "+", text("b")), let("y", "str", x), aug(x, "+", text("c")), show(x), show(y)>>)

-----------------------------------------------------------------------------
(* Control.                                                                *)
Branches == <<
  fun("kind", <<num("x")>>, T("str"),
      <<If(Binary("<", x, int(0)), <<ret(text("a"))>>, <<<<Binary("==", x, int(0)), <<ret(text("b"))>>>>, <<Binary(">", x, int(9)), <<Word("pass")>>>>>>,
           <<<<ret(text("ab"))>>>>), ret(text("abc"))>>),
  fun("main", <<>>, T("None"), Each_(<<-1, 0, 3, 12>>, LAMBDA v : show(call("kind", <<int(v)>>))))>>
Loops == main(<<
  let("x", "i64", int(0)),
  While(bool(TRUE), <<aug(x, "+", int(1)), if(Binary("==", x, int(2)), <<Word("continue")>>), if(Binary(">", x, int(4)), <<Word("break")>>), show(x)>>, None),
  for("a", "i64", range(<<int(1), int(4)>>), <<if(Binary("==", a, int(2)), <<Word("continue")>>), show(a)>>),
  for("a", "i64", range(<<int(5), int(0), int(-2)>>), <<show(a)>>), for("a", "i64", range(<<int(0), int(5), int(3)>>), <<show(a)>>),
  for("a", "i64", list(<<1, 2, 3>>), <<if(Binary("==", a, int(2)), <<Word("break")>>), show(a)>>)>>)
Conditions == Each_(Cross(<<"and", "or">>, Cross(<<0, 1>>, <<0, 2>>)), LAMBDA c : <<
  fun("say", <<num("x")>>, T("bool"), <<show(x), ret(Binary(">", x, int(0)))>>),
  fun("main", <<>>, T("None"),
    <<ifelse(Binary(c[1], call("say", <<int(c[2][1])>>), call("say", <<int(c[2][2])>>)), <<show(text("a"))>>, <<show(text("b"))>>),
      if(Unary("not", call("say", <<int(0)>>)), <<AssertStmt(call("say", <<int(1)>>), None)>>)>>)>>)
Narrowed == <<
  fun("or0", <<Param("x", Nullable(T("i64")), None)>>, T("i64"), <<if(Binary("is", x, none), <<ret(int(0))>>), ret(plus(x, int(1)))>>),
  fun("main", <<>>, T("None"),
      <<show(call("or0", <<none>>)), show(call("or0", <<int(4)>>)), Let("y", Nullable(T("i64")), int(5)),
        if(Binary("is not", y, none), <<show(plus(y, int(1)))>>)>>)>>
Matched == main(<<
  for("a", "i64", range(<<int(4)>>),
    <<Match(a, <<Arm(LitPattern([t |-> "int", v |-> 1, suffix |-> <<>>]), None, <<show(text("b"))>>),
                 Arm(LitPattern([t |-> "int", v |-> 2, suffix |-> <<>>]), None, <<show(text("ab"))>>),
                 Arm(Binding("b"), None, <<show(plus(b, int(10)))>>)>>)>>),
  Match(text("ab"), <<Arm(LitPattern([t |-> "str", v |-> "a", suffix |-> <<>>]), None, <<show(int(1))>>),
                      Arm(LitPattern([t |-> "str", v |-> "ab", suffix |-> <<>>]), None, <<show(int(2))>>),
                      Arm(Wildcard, None, <<show(int(3))>>)>>),
  Match(Tuple(<<int(5), text("a")>>), <<Arm(TuplePattern(<<Binding("x"), Binding("y")>>), None, <<show(plus(y, call("str", <<x>>)))>>)>>)>>)

-----------------------------------------------------------------------------
(* Functions.                                                              *)
Defaults == <<
  fun("f", <<num("x"), Param("y", T("i64"), <<int(2)>>), Param("z", T("i64"), <<int(3)>>)>>, T("i64"),
      <<ret(Binary("-", Binary("*", x, y), z))>>),
  fun("main", <<>>, T("None"),
      <<show(call("f", <<int(5)>>)), show(call("f", <<int(5), int(6)>>)), show(named("f", "z", int(1), <<int(5)>>)),
        show(Call(Ident("f"), <<[name |-> <<"y">>, value |-> int(1)], [name |-> <<"x">>, value |-> int(9)]>>))>>)>>
Recursion == <<
  fun("fact", <<num("x")>>, T("i64"), <<if(Binary("<=", x, int(1)), <<ret(int(1))>>), ret(Binary("*", x, call("fact", <<Binary("-", x, int(1))>>)))>>),
  fun("main", <<>>, T("None"), <<show(call("fact", <<int(3)>>)), show(call("fact", <<int(5)>>))>>)>>
Endless == <<
  fun("f", <<num("x")>>, T("i64"), <<show(x), ret(call("f", <<plus(x, int(1))>>))>>),
  fun("main", <<>>, T("None"), <<show(call("f", <<int(1)>>))>>)>>
Closures == <<
  fun("twice", <<Param("x", fn(<<T("i64")>>, T("i64")), None), num("y")>>, T("i64"), <<ret(call("x", <<call("x", <<y>>)>>))>>),
  fun("adder", <<num("x")>>, fn(<<T("i64")>>, T("i64")), <<ret(lambda(<<num("y")>>, plus(y, x)))>>),
  fun("inc", <<num("x")>>, T("i64"), <<ret(plus(x, int(1)))>>),
  fun("main", <<>>, T("None"),
      <<let("a", "i64", int(10)), Let("b", fn(<<T("i64")>>, T("i64")), lambda(<<num("x")>>, plus(Binary("*", x, a), x))), set(a, int(3)),
        show(call("b", <<int(2)>>)), show(call("twice", <<Ident("inc"), int(5)>>)), show(call("twice", <<call("adder", <<a>>), int(1)>>)),
        show(call("twice", <<lambda(<<num("x")>>, Binary("-", a, x)), int(1)>>)),
        Let("y", fn(<<T("i64")>>, T("i64")), Ident("inc")), show(call("y", <<int(1)>>))>>)>>
Generics == <<
  Func("pick", <<Generic("A", <<>>), Generic("B", <<>>)>>, <<Param("x", T("A"), None), Param("y", T("B"), None)>>, T("B"), <<ret(y)>>, <<>>),
  Func("larger", <<Generic("A", <<T("Comparable")>>)>>, <<Param("x", T("A"), None), Param("y", T("A"), None)>>, T("A"),
       <<if(Binary("<", x, y), <<ret(y)>>), ret(x)>>, <<>>),
  fun("main", <<>>, T("None"),
      <<show(call("pick", <<int(1), text("a")>>)), show(call("pick", <<text("a"), int(2)>>)), show(call("larger", <<int(3), int(5)>>)),
        show(call("larger", <<float(9), float(5)>>)), show(call("larger", <<text("ab"), text("b")>>))>>)>>
Constants_ == <<
  Const("LOW", T("i64"), Binary("+", int(2), Binary("*", int(3), int(4)))), Const("HIGH", T("i64"), Binary("*", Ident("LOW"), int(2))),
  Const("NAME", T("str"), Binary("+", text("a"), text("b"))),
  fun("main", <<>>, T("None"), <<show(plus(Ident("LOW"), Ident("HIGH"))), show(plus(Ident("NAME"), text("c")))>>)>>
\* A store to a variable whose value is never read, and a call for its effect only.
Effects == <<
  fun("f", <<num("x")>>, T("i64"), <<show(x), ret(plus(x, int(1)))>>),
  fun("main", <<>>, T("None"),
      <<let("x", "i64", int(1)), let("y", "i64", x), set(x, int(5)), show(y), do(call("f", <<x>>)), let("z", "i64", call("f", <<y>>)),
        show(x)>>)>>

-----------------------------------------------------------------------------
(* Classes.                                                                *)
init(params, body) == <<fun("__init__", <<me>> \o params, T("None"), body)>>
method(name, params, t, body) == fun(name, <<me>> \o params, t, body)
mine(name) == Attr(self, name)
Shapes(show_) == <<
  class("Shape", "open", <<>>, <<field("x", "i64"), field("y", "str")>>,
        <<method("area", <<>>, T("i64"), <<ret(int(0))>>), method("label", <<p("a", "str")>>, T("str"),
            <<ret(plus(plus(mine("y"), a), call("str", <<send(self, "area", <<>>)>>)))>>)>>,
        init(<<num("x"), Param("y", T("str"), <<text("a")>>)>>, <<set(mine("x"), x), set(mine("y"), y)>>)),
  class("Square", "", <<"Shape">>, <<>>, <<method("area", <<>>, T("i64"), <<ret(Binary("*", mine("x"), mine("x")))>>)>>,
        init(<<num("x")>>, <<set(mine("x"), x), set(mine("y"), text("b"))>>)),
  fun("main", <<>>, T("None"), show_)>>
Virtual == Shapes(<<
  Let("o", T("Shape"), call("Shape", <<int(3)>>)), show(send(o, "label", <<text("c")>>)), set(o, call("Square", <<int(3)>>)),
  show(send(o, "label", <<text("c")>>)), show(call("isinstance", <<o, Ident("Square")>>)), show(call("isinstance", <<call("Shape", <<int(1)>>), Ident("Square")>>)),
  Let("z", T("Square"), call("Square", <<int(2)>>)), show(send(z, "label", <<text("")>>)), show(named("Shape", "y", text("ab"), <<int(4)>>)), show(z),
  aug(get(z, "x"), "*", int(5)), show(get(z, "x")),
  if(call("isinstance", <<o, Ident("Square")>>), <<show(send(o, "area", <<>>))>>),
  Match(o, <<Arm(Constructor(T("Square"), <<Binding("a"), Wildcard>>), None, <<show(a)>>), Arm(Wildcard, None, <<show(text("a"))>>)>>)>>)
Operators == <<
  class("Vec", "", <<>>, <<field("x", "i32"), field("y", "bool"), field("z", "f64")>>,
        <<method("__add__", <<p("o", "Vec")>>, T("Vec"), <<ret(call("Vec", <<plus(mine("x"), get(o, "x")), mine("y"), mine("z")>>))>>),
          method("__eq__", <<p("o", "Vec")>>, T("bool"), <<ret(Binary("==", mine("x"), get(o, "x")))>>),
          method("__lt__", <<p("o", "Vec")>>, T("bool"), <<ret(Binary("<", mine("z"), get(o, "z")))>>),
          method("__getitem__", <<num("a")>>, T("i64"), <<show(a), ret(plus(a, int(1)))>>),
          method("__setitem__", <<num("a"), num("b")>>, T("None"), <<show(a), show(b)>>)>>,
        init(<<p("x", "i32"), p("y", "bool"), p("z", "f64")>>, <<set(mine("x"), x), set(mine("y"), y), set(mine("z"), z)>>)),
  class("Word", "", <<>>, <<>>, <<method("__str__", <<>>, T("str"), <<ret(text("ab"))>>), method("__repr__", <<>>, T("str"), <<ret(text("b"))>>)>>, <<>>),
  class("Repr", "", <<>>, <<>>, <<method("__repr__", <<>>, T("str"), <<ret(text("b"))>>)>>, <<>>),
  fun("main", <<>>, T("None"), <<
    Let("o", T("Vec"), call("Vec", <<int(-3), bool(TRUE), float(6)>>)), Let("d", T("Vec"), call("Vec", <<int(4), bool(FALSE), float(-2)>>)),
    show(plus(o, d)), show(Binary("==", o, d)), show(Binary("!=", o, d)), show(Binary("<", o, d)), show(at(o, int(6))), set(at(o, int(1)), int(2)),
    do(call("print", <<call("Word", <<>>)>>)), show(call("Word", <<>>)), show(call("Repr", <<>>))>>)>>
Iterated == <<
  class("Down", "", <<>>, <<field("x", "i64")>>,
        <<method("__iter__", <<>>, T("Down"), <<ret(self)>>),
          fun("__next__", <<me>>, Nullable(T("i64")),
              <<if(Binary("<=", mine("x"), int(0)), <<ret(none)>>), set(mine("x"), Binary("-", mine("x"), int(1))), ret(mine("x"))>>)>>,
        init(<<num("x")>>, <<set(mine("x"), x)>>)),
  fun("main", <<>>, T("None"), <<for("a", "i64", call("Down", <<int(4)>>), <<if(Binary("==", a, int(2)), <<Word("continue")>>), show(a)>>)>>)>>
Linked(body) == <<
  class("Node", "", <<>>, <<field("next", "Node"), field("x", "i64")>>, <<method("value", <<>>, T("i64"), <<ret(mine("x"))>>)>>,
        init(<<num("x")>>, <<set(mine("x"), x)>>)),
  fun("main", <<>>, T("None"), <<Let("o", T("Node"), call("Node", <<int(4)>>))>> \o body)>>
NullFields == <<
  Linked(<<show(get(o, "x")), show(send(get(o, "next"), "value", <<>>))>>), Linked(<<show(get(get(o, "next"), "x"))>>),
  Linked(<<set(get(get(o, "next"), "x"), int(1)), show(get(o, "x"))>>),
  Linked(<<set(get(o, "next"), call("Node", <<int(5)>>)), show(send(get(o, "next"), "value", <<>>)), set(get(get(o, "next"), "x"), int(6)),
           show(get(get(o, "next"), "x"))>>)>>
Raised == Each_(<<call("ValueError", <<text("ab")>>), call("Broken", <<text("b")>>)>>, LAMBDA e : <<
  class("Broken", "", <<"Exception">>, <<>>, <<>>, init(<<p("a", "str")>>, <<set(mine("message"), a)>>)),
  fun("f", <<>>, T("i64"), <<Raise(e, None)>>), fun("main", <<>>, T("None"), <<show(int(1)), show(call("f", <<>>)), show(int(2))>>)>>)

-----------------------------------------------------------------------------
\* Programs with a type error, which compile to nothing: if one did, an opcode would
\* find the wrong kind of thing.  (Two that do compile are left out: a loop variable
\* over a range or a list declared with another type, and raise of a number.)
Wrong == Each_(<<
  let("a", "i64", text("a")), let("a", "i32", int(9)), let("a", "str", none), let("a", "bool", int(0)), set(x, float(4)), aug(x, "+", text("a")),
  show(plus(x, text("a"))), show(Binary("<", text("a"), x)), show(Unary("-", text("a"))), show(plus(y, int(1))), show(get(x, "b")),
  show(at(x, int(0))), show(call("f", <<text("a")>>)), show(call("f", <<>>)), show(call("f", <<int(1), int(2)>>)), show(call("x", <<int(1)>>)),
  if(x, <<>>), While(text("a"), <<>>, None), do(send(call("Empty", <<>>), "m", <<>>)),
  Raise(call("Empty", <<>>), None), AssertStmt(x, None), LetDestructure(<<"a", "b">>, <<<<>>, <<>>>>, x), show(Ident("nothing")), show(call("larger", <<y, y>>))>>,
  LAMBDA s : <<
    class("Empty", "", <<>>, <<field("x", "i64")>>, <<>>, <<>>), fun("f", <<num("x")>>, T("i64"), <<ret(x)>>),
    Func("larger", <<Generic("A", <<T("Comparable")>>)>>, <<Param("x", T("A"), None), Param("y", T("A"), None)>>, T("A"), <<ret(x)>>, <<>>),
    fun("main", <<>>, T("None"), <<let("x", "i64", int(1)), Let("y", Nullable(T("i64")), x), s>>)>>)
  \o <<<<fun("f", <<num("x")>>, T("i64"), <<ret(text("a"))>>), fun("main", <<>>, T("None"), <<show(call("f", <<int(1)>>))>>)>>>>

MCSource ==
  IntBinary \o Compares \o FloatBinary \o Mixed \o Unaries \o Folds \o Converts
  \o <<Tuples, Lists, BadIndex(2, FALSE), BadIndex(-3, FALSE), BadIndex(2, TRUE), ShortList, Dicts, Texts, Aliased>> \o Slices
  \o <<Branches, Loops, Narrowed, Matched, Defaults, Recursion, Endless, Closures, Generics, Constants_, Effects>>
  \o Conditions \o <<Virtual, Operators, Iterated>> \o NullFields \o Raised \o Wrong
=============================================================================
