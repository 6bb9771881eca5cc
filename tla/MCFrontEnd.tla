----------------------------- MODULE MCFrontEnd -----------------------------
\* Small programs that between them hold every kind of node.
EXTENDS FrontEnd

MCNames == {"a", "b", "f", "T", "str", "_", "self", "type", "__init__"}
MCDigits == {"1", "2"}
MCStrings == {"'s'"}
MCInds == {0, 6}

a == Ident("a")
b == Ident("b")
one == Literal("1")
T == Named(<<"T">>, <<>>)
TofT == Named(<<"a", "T">>, <<T, Nullable(T)>>)
pa == Param("a", T, None)
str(e) == Call(Ident("str"), <<Arg(None, e)>>)
Main(body) == Module(<<>>, <<Func("f", <<>>, <<>>, T, body, <<>>)>>)
Do(e) == ExprStmt(e)
Lets(e) == Let("a", T, e)

\* Binary operators nested in every way that printing keeps.
Nested ==
  Main(<<Lets(Binary("*", Binary("+", a, b), Unary("-", one))),
         Lets(Binary("-", a, Binary("-", a, b))),
         Return(Some(Binary("or", Binary("is not", a, Literal("none")), Unary("not", Binary("<", a, b)))))>>)
Operators ==
  Main(<<Do(Binary("|", a, Binary("^", b, Binary("&", a, Binary("<<", b, Binary("//", a, b)))))),
         Do(Binary("**", Binary("**", a, b), Unary("-", Binary("**", a, b)))),
         Do(Binary("not in", Binary("|", a, one), Ternary(a, b, Ternary(b, a, one))))>>)
Postfixes ==
  Main(<<Do(Attr(Index(MethodCall(a, "f", <<Arg(None, one), Arg(Some("a"), b)>>), <<a, one>>), "1")),
         Do(Call(Ternary(a, b, a), <<Arg(None, Slice(a, Some(one), None, Some(b)))>>)),
         Assign(Index(a, <<one>>), NullCoalesce(NullCoalesce(a, b), Slice(b, None, Some(a), None)))>>)
Displays ==
  Main(<<Do(Dict(<<<<a, Tuple(<<one, b>>)>>, <<b, Set(<<a, one>>)>>>>)),
         Do(List(<<Dict(<<>>), Tuple(<<>>), Lambda(<<pa>>, T, a), Tuple(<<a>>)>>)),
         Do(Comprehension("Dict", "a", T, b, a, Some(one), Some(Literal("true"))))>>)
Texts ==
  Main(<<Let("a", Function(<<T, T>>, TupleType(<<T, T>>)), Binary("+", Literal("'s'"), str(a))),
         Return(Some(Comprehension("List", "b", T, a, str(b), None, None))),
         Do(Comprehension("Set", "b", T, a, b, None, None))>>)
Loops ==
  Main(<<For("a", T, b, <<If(a, <<Word("break")>>, <<<<b, <<Word("continue")>>>>>>, Some(<<Word("pass")>>))>>,
             Some(<<While(a, <<Del(Attr(a, "b"))>>, None)>>)),
         Return(None)>>)
Catches ==
  Main(<<Try(<<Raise(a, Some(b))>>, <<Handler(T, Some("b"), <<Raise(b, None)>>), Handler(TofT, None, <<Word("pass")>>)>>,
             Some(<<AssertStmt(a, Some(b))>>), Some(<<AssertStmt(a, None)>>)),
         With(a, Some([name |-> "b", ty |-> T]), <<Do(b)>>), With(a, None, <<AugAssign(a, "<<", b)>>)>>)
Matches ==
  Main(<<Match(a, <<Arm(LitPattern("1"), Some(b), <<Yield(a)>>),
                    Arm(Constructor(T, <<Binding("a"), TuplePattern(<<Wildcard, Binding("b")>>)>>), None, <<Do(a)>>),
                    Arm(Wildcard, None, <<Word("pass")>>)>>)>>)
Targetings ==
  Main(<<LetDestructure(<<"a", "b">>, <<None, None>>, Tuple(<<a, b>>)),
         LetDestructure(<<"a", "b">>, <<Some(T), None>>, a),
         LetStarDestructure(<<"a">>, "b", <<"_">>, a), AugAssign(Attr(a, "b"), "+", one)>>)
Declarations ==
  Module(<<Import(<<"a", "b">>, <<>>, Some("f")), Import(<<"a">>, <<ImportItem("b", None), ImportItem("f", Some("a"))>>, None)>>,
    <<Class("T", "open", <<Generic("a", <<T, TofT>>)>>, <<T>>, <<Field("a", T, Some(one)), Field("b", T, None)>>,
            <<Func("f", <<>>, <<Param("self", Infer, None)>>, T, <<Word("pass")>>, <<Decorator(<<"a">>, <<Arg(None, one)>>)>>)>>,
            <<Func("__init__", <<>>, <<Param("self", Infer, None), Param("a", T, Some(one))>>, T, <<Do(a)>>, <<>>)>>),
      Const("a", TofT, one)>>)
Contracts ==
  Module(<<>>,
    <<Protocol("T", <<Generic("a", <<>>), Generic("b", <<T>>)>>, <<ProtoMethod("f", <<Param("self", Infer, None), pa>>, T)>>),
      TypeAlias("T", <<>>, Function(<<>>, Nullable(T))),
      Func("f", <<Generic("T", <<>>)>>, <<pa>>, T, <<Return(None)>>, <<Decorator(<<"a", "b">>, <<>>)>>)>>)

\* Three lines, small enough for two edits.
Short == Main(<<If(a, <<Return(Some(List(<<a, one>>)))>>, <<>>, None)>>)

MCPrograms == {Short, Nested, Operators, Postfixes, Displays, Texts, Loops, Catches, Matches, Targetings,
               Declarations, Contracts}
MCMaxEdits == [m \in MCPrograms |-> IF m = Short THEN 2 ELSE 1]
=============================================================================
