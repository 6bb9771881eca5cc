------------------------------- MODULE Parser -------------------------------
(***************************************************************************)
(* The recursive-descent parser (compiler/src/parser.rs): from tokens to a *)
(* tree.  Each operator parses one thing of the tokens t from position p,  *)
(* and gives it with the position after it; position 0 means an error, and *)
(* whatever is parsed from there is one too.                               *)
(***************************************************************************)
EXTENDS Lexer
LOCAL INSTANCE SequencesExt
LOCAL INSTANCE FiniteSets

R(v, p) == [v |-> v, p |-> p]
Bad == R(None, 0)
Ok(v, p) == IF p = 0 THEN Bad ELSE R(v, p)
At(t, p) == IF p \in DOMAIN t THEN t[p] ELSE ""
Expect(t, p, tok) == IF At(t, p) = tok THEN p + 1 ELSE 0
Name(t, p) == IF At(t, p) \in Names THEN R(At(t, p), p + 1) ELSE Bad
RECURSIVE SkipNewlines(_, _)
SkipNewlines(t, p) == IF At(t, p) = "NEWLINE" THEN SkipNewlines(t, p + 1) ELSE p
ExpectNewline(t, p) ==
  CASE At(t, p) = "NEWLINE" -> p + 1 [] At(t, p) = "EOF" -> p [] OTHER -> 0
OptName(t, p, word) ==
  LET x == Name(t, p + 1) IN IF At(t, p) = word THEN Ok(Some(x.v), x.p) ELSE R(None, p)
RECURSIVE ParseDotted(_, _)
ParseDotted(t, p) ==
  LET first == Name(t, p)
      rest == ParseDotted(t, p + 2)
  IN  IF At(t, first.p) = "." THEN Ok(<<first.v>> \o rest.v, rest.p) ELSE Ok(<<first.v>>, first.p)

\* One thing of the given kind.
RECURSIVE Item(_, _, _)

\* One or more items; only some kinds allow a comma after the last.
Trailing == {"expr", "arg", "type", "pattern", "entry"}
RECURSIVE Items(_, _, _, _)
Items(kind, t, p, close) ==
  LET x == Item(kind, t, p)
      q == Expect(t, x.p, ",")
      rest == CASE q = 0 -> R(<<>>, x.p)
                [] q # 0 /\ kind \in Trailing /\ At(t, q) = close -> R(<<>>, q)
                [] OTHER -> Items(kind, t, q, close)
  IN  Ok(<<x.v>> \o rest.v, IF x.p = 0 THEN 0 ELSE rest.p)
Bracketed(kind, t, p, open, close) ==
  LET first == Expect(t, p, open)
      xs == IF At(t, first) = close THEN R(<<>>, first) ELSE Items(kind, t, first, close)
  IN  Ok(xs.v, Expect(t, xs.p, close))
\* A comma makes a tuple, even of one element.
IsTuple(t, xs) == Len(xs.v) > 1 \/ At(t, xs.p - 1) = ","

ParseOptExpr(t, p, word) ==
  LET x == Item("expr", t, p + 1) IN IF At(t, p) = word THEN Ok(Some(x.v), x.p) ELSE R(None, p)
ExprUnless(t, p, stops) ==
  LET x == Item("expr", t, p) IN IF At(t, p) \in stops THEN R(None, p) ELSE Ok(Some(x.v), x.p)

-----------------------------------------------------------------------------
ParseTypeAtom(t, p) ==
  LET params == Bracketed("type", t, p + 1, "(", ")")
      ret == Item("type", t, Expect(t, params.p, "->"))
      elems == Items("type", t, p + 1, ")")
      path == ParseDotted(t, p)
      args == IF At(t, path.p) = "[" THEN Bracketed("type", t, path.p, "[", "]") ELSE R(<<>>, path.p)
  IN  CASE At(t, p) = "fn" -> Ok(Function(params.v, ret.v), ret.p)
        [] At(t, p) = "(" ->
             Ok(IF IsTuple(t, elems) THEN TupleType(elems.v) ELSE elems.v[1], Expect(t, elems.p, ")"))
        [] OTHER -> Ok(Named(path.v, args.v), args.p)
ParseType(t, p) ==
  LET ty == ParseTypeAtom(t, p)
  IN  IF At(t, ty.p) = "?" THEN R(Nullable(ty.v), ty.p + 1) ELSE ty
Annotated(t, p) == Item("type", t, Expect(t, p, ":"))

Literals == Digits \cup Strings \cup Floats \cup {"true", "false", "none"}

ParsePattern(t, p) ==
  LET tuple == Items("pattern", t, p + 1, ")")
      path == ParseDotted(t, p)
      ty == Item("type", t, p)
      fields == Bracketed("pattern", t, ty.p, "(", ")")
  IN  CASE At(t, p) = "_" -> R(Wildcard, p + 1)
        [] At(t, p) \in Literals -> R(LitPattern(At(t, p)), p + 1)
        [] At(t, p) = "(" ->
             IF IsTuple(t, tuple) THEN Ok(TuplePattern(tuple.v), Expect(t, tuple.p, ")")) ELSE Bad
        [] At(t, p) \in Names \ {"_"} ->
             IF At(t, p + 1) = "." \/ At(t, path.p) \in {"[", "("}
             THEN Ok(Constructor(ty.v, fields.v), fields.p)
             ELSE R(Binding(At(t, p)), p + 1)
        [] OTHER -> Bad

-----------------------------------------------------------------------------
(* Expressions, from the loosest operators to the tightest.                *)
OpsAt == [or |-> {"or"}, and |-> {"and"}, bitor |-> {"|"}, bitxor |-> {"^"}, bitand |-> {"&"},
          shift |-> {"<<", ">>"}, addition |-> {"+", "-"}, multiplication |-> {"*", "/", "//", "%"}]
OperandOf == [or |-> "and", and |-> "not", bitor |-> "bitxor", bitxor |-> "bitand", bitand |-> "shift",
              shift |-> "addition", addition |-> "multiplication", multiplication |-> "unary"]

\* The operators of a level associate to the left.
RECURSIVE LevelTail(_, _, _)
LevelTail(t, lhs, level) ==
  LET op == At(t, lhs.p)
      rhs == Item(OperandOf[level], t, lhs.p + 1)
  IN  CASE op \notin OpsAt[level] -> lhs
        [] op \in OpsAt[level] /\ rhs.p = 0 -> Bad
        [] OTHER -> LevelTail(t, R(Binary(op, lhs.v, rhs.v), rhs.p), level)
ParseLevel(level, t, p) == LevelTail(t, Item(OperandOf[level], t, p), level)

\* The comparison at p, as the operator and its number of tokens.
PeekCompOp(t, p) ==
  CASE At(t, p) = "is" /\ At(t, p + 1) = "not" -> <<"is not", 2>>
    [] At(t, p) = "not" /\ At(t, p + 1) = "in" -> <<"not in", 2>>
    [] At(t, p) \in CompareOps /\ ~(At(t, p) = "is" /\ At(t, p + 1) = "not") -> <<At(t, p), 1>>
    [] OTHER -> None
\* Comparisons do not chain.
ParseComparison(t, p) ==
  LET lhs == Item("bitor", t, p)
      op == PeekCompOp(t, lhs.p)
      rhs == Item("bitor", t, lhs.p + op[2])
  IN  CASE op = None -> lhs
        [] op # None /\ PeekCompOp(t, rhs.p) = None -> Ok(Binary(op[1], lhs.v, rhs.v), rhs.p)
        [] OTHER -> Bad
ParseNot(t, p) ==
  LET x == Item("not", t, p + 1)
  IN  IF At(t, p) = "not" THEN Ok(Unary("not", x.v), x.p) ELSE ParseComparison(t, p)

ParseExpr(t, p) ==
  LET then == Item("or", t, p)
      cond == Item("or", t, then.p + 1)
      else == Item("expr", t, Expect(t, cond.p, "else"))
  IN  IF At(t, then.p) = "if" THEN Ok(Ternary(cond.v, then.v, else.v), else.p) ELSE then

\* What follows the bracket of a subscript: indices or a slice.
ParseSubscript(t, obj, p) ==
  LET lo == ExprUnless(t, p, {":"})
      hi == ExprUnless(t, Expect(t, lo.p, ":"), {":", "]"})
      step == IF At(t, hi.p) = ":" THEN ExprUnless(t, hi.p + 1, {"]"}) ELSE R(None, hi.p)
      indices == Items("expr", t, p, "]")
  IN  IF At(t, lo.p) = ":" THEN Ok(Slice(obj, lo.v, hi.v, step.v), Expect(t, step.p, "]"))
      ELSE Ok(Index(obj, indices.v), Expect(t, indices.p, "]"))

\* One postfix applied to the expression e; a call of an attribute is a
\* method call, and an index of a tuple is an attribute.
PostfixOf(t, e) ==
  LET args == Bracketed("arg", t, e.p, "(", ")")
      rhs == Item("unary", t, e.p + 1)
      name == At(t, e.p + 1)
  IN  CASE At(t, e.p) = "(" ->
             IF e.v.k = "Attr" THEN Ok(MethodCall(e.v.obj, e.v.name, args.v), args.p)
             ELSE Ok(Call(e.v, args.v), args.p)
        [] At(t, e.p) = "." ->
             IF name \in Names \cup Digits \cup {"await", "async", "open"}
             THEN R(Attr(e.v, name), e.p + 2) ELSE Bad
        [] At(t, e.p) = "[" -> ParseSubscript(t, e.v, e.p + 1)
        [] At(t, e.p) = "??" -> Ok(NullCoalesce(e.v, rhs.v), rhs.p)
RECURSIVE PostfixTail(_, _)
PostfixTail(t, e) ==
  IF At(t, e.p) \in {"(", ".", "[", "??"} THEN PostfixTail(t, PostfixOf(t, e)) ELSE e

ParseComprehension(t, p, kind, body, value, close) ==
  LET var == Name(t, p + 1)
      ty == Annotated(t, var.p)
      iter == Item("or", t, Expect(t, ty.p, "in"))
      cond == ParseOptExpr(t, iter.p, "if")
  IN  Ok(Comprehension(kind, var.v, ty.v, iter.v, body, value, cond.v), Expect(t, cond.p, close))
ParseParen(t, p) ==
  LET elems == Items("expr", t, p + 1, ")")
  IN  IF At(t, p + 1) = ")" THEN R(Tuple(<<>>), p + 2)
      ELSE Ok(IF IsTuple(t, elems) THEN Tuple(elems.v) ELSE elems.v[1], Expect(t, elems.p, ")"))
ParseList(t, p) ==
  LET first == Item("expr", t, p + 1)
      elems == Bracketed("expr", t, p, "[", "]")
  IN  IF At(t, p + 1) # "]" /\ At(t, first.p) = "for"
      THEN ParseComprehension(t, first.p, "List", first.v, None, "]")
      ELSE Ok(List(elems.v), elems.p)
ParseBraces(t, p) ==
  LET key == Item("expr", t, p + 1)
      value == Item("expr", t, key.p + 1)
      entries == Bracketed("entry", t, p, "{", "}")
      elems == Bracketed("expr", t, p, "{", "}")
  IN  CASE At(t, p + 1) = "}" -> R(Dict(<<>>), p + 2)
        [] At(t, p + 1) # "}" /\ At(t, key.p) = "for" ->
             ParseComprehension(t, key.p, "Set", key.v, None, "}")
        [] At(t, p + 1) # "}" /\ At(t, key.p) = ":" ->
             IF At(t, value.p) = "for"
             THEN ParseComprehension(t, value.p, "Dict", key.v, Some(value.v), "}")
             ELSE Ok(Dict(entries.v), entries.p)
        [] OTHER -> Ok(Set(elems.v), elems.p)
ParseLambda(t, p) ==
  LET params == Bracketed("param", t, p + 1, "(", ")")
      ret == Item("type", t, Expect(t, params.p, "->"))
      body == Item("expr", t, Expect(t, ret.p, ":"))
  IN  Ok(Lambda(params.v, ret.v, body.v), body.p)

\* The pieces of an f-string: its literals, and str of its interpolations.
RECURSIVE Pieces(_, _)
Pieces(t, p) ==
  LET inner == Item("expr", t, p + 1)
      closed == Expect(t, inner.p, "FEXPREND")
      rest == Pieces(t, IF At(t, p) = "FEXPR" THEN closed ELSE p + 1)
      str == Call(Ident("str"), <<Arg(None, inner.v)>>)
      text == CHOOSE s \in Strings : Chunk(s) = At(t, p)
  IN  CASE At(t, p) = "FEND" -> R(<<>>, p + 1)
        [] At(t, p) = "FEXPR" -> Ok(<<str>> \o rest.v, IF closed = 0 THEN 0 ELSE rest.p)
        [] At(t, p) \in {Chunk(s) : s \in Strings} -> Ok(<<Literal(text)>> \o rest.v, rest.p)
        [] OTHER -> Bad
ParseFString(t, p) ==
  LET pieces == Pieces(t, p + 1)
  IN  IF pieces.p = 0 \/ pieces.v = <<>> THEN Ok(Literal("\"\""), pieces.p)
      ELSE R(FoldLeft(LAMBDA sum, e : Binary("+", sum, e), Head(pieces.v), Tail(pieces.v)), pieces.p)

ParsePrimary(t, p) ==
  CASE At(t, p) \in Literals -> R(Literal(At(t, p)), p + 1)
    [] At(t, p) \in Names \cup {"open"} -> R(Ident(At(t, p)), p + 1)
    [] At(t, p) = "(" -> ParseParen(t, p)
    [] At(t, p) = "[" -> ParseList(t, p)
    [] At(t, p) = "{" -> ParseBraces(t, p)
    [] At(t, p) = "fn" -> ParseLambda(t, p)
    [] At(t, p) = "FSTART" -> ParseFString(t, p)
    [] OTHER -> Bad
ParsePostfix(t, p) == PostfixTail(t, ParsePrimary(t, p))
ParsePower(t, p) ==
  LET lhs == ParsePostfix(t, p)
      rhs == Item("unary", t, lhs.p + 1)
  IN  IF At(t, lhs.p) = "**" THEN Ok(Binary("**", lhs.v, rhs.v), rhs.p) ELSE lhs
ParseUnary(t, p) ==
  LET x == Item("unary", t, p + 1)
  IN  IF At(t, p) \in UnaryOps \ {"not"} THEN Ok(Unary(At(t, p), x.v), x.p) ELSE ParsePower(t, p)

-----------------------------------------------------------------------------
(* Statements.  The rows of an indented block are statements, the arms of  *)
(* a match, or the members of a class or a protocol.                       *)
RECURSIVE Rows(_, _, _)
Rows(kind, t, p) ==
  LET q == SkipNewlines(t, p)
      x == Item(kind, t, q)
      rest == Rows(kind, t, x.p)
  IN  CASE At(t, q) \in {"DEDENT", "EOF"} -> R(<<>>, q)
        [] At(t, q) \notin {"DEDENT", "EOF"} /\ x.p = 0 -> Bad
        [] OTHER -> Ok(<<x.v>> \o rest.v, rest.p)
IndentedRows(kind, t, p) ==
  LET rows == Rows(kind, t, Expect(t, SkipNewlines(t, p), "INDENT"))
  IN  IF Expect(t, SkipNewlines(t, p), "INDENT") = 0 THEN Bad ELSE Ok(rows.v, Expect(t, rows.p, "DEDENT"))

\* A block is indented, or one statement on the line of its colon.
ParseBlock(t, p) ==
  LET q == SkipNewlines(t, Expect(t, p, ":"))
      one == Item("stmt", t, q)
  IN  IF At(t, q) = "INDENT" THEN IndentedRows("stmt", t, q) ELSE Ok(<<one.v>>, one.p)
ParseOptBlock(t, p, word) ==
  LET q == SkipNewlines(t, p)
      block == Item("block", t, q + 1)
  IN  IF At(t, q) = word THEN Ok(Some(block.v), block.p) ELSE R(None, q)

ParseLvalue(t, p) ==
  LET e == Item("expr", t, p)
  IN  IF e.p # 0 /\ e.v.k \in {"Ident", "Attr", "Index"} THEN e ELSE Bad

\* The names before "=" of a destructuring assignment, with or without types.
DestructureTarget(t, p, typed) ==
  LET star == ~typed /\ At(t, p) = "*"
      name == Name(t, IF star THEN p + 1 ELSE p)
      ty == IF typed /\ At(t, name.p) = ":" THEN Item("type", t, name.p + 1) ELSE R(Infer, name.p)
  IN  Ok([name |-> name.v, star |-> star,
          ty |-> IF typed /\ At(t, name.p) = ":" THEN Some(ty.v) ELSE None], ty.p)
RECURSIVE Targets(_, _, _)
Targets(t, p, typed) ==
  LET x == DestructureTarget(t, p, typed)
      rest == Targets(t, x.p + 1, typed)
  IN  IF At(t, x.p) = "," THEN Ok(<<x.v>> \o rest.v, rest.p) ELSE Ok(<<x.v>>, x.p)

ParseDestructure(t, p, typed) ==
  LET targets == Targets(t, p, typed)
      init == Item("expr", t, Expect(t, targets.p, "="))
      names == [i \in DOMAIN targets.v |-> targets.v[i].name]
      stars == {i \in DOMAIN targets.v : targets.v[i].star}
      star == CHOOSE i \in stars : TRUE
  IN  CASE stars = {} ->
             Ok(LetDestructure(names, [i \in DOMAIN names |-> targets.v[i].ty], init.v), init.p)
        [] Cardinality(stars) = 1 ->
             Ok(LetStarDestructure(SubSeq(names, 1, star - 1), names[star],
                                   SubSeq(names, star + 1, Len(names)), init.v), init.p)
        [] OTHER -> Bad

\* An expression, or an assignment to it.
ParseAssignOrExpr(t, p) ==
  LET e == Item("expr", t, p)
      target == ParseLvalue(t, p)
      value == Item("expr", t, target.p + 1)
      op == At(t, e.p)
  IN  CASE op = "=" /\ target.p # 0 -> Ok(Assign(target.v, value.v), value.p)
        [] op \in {AugOf(o) : o \in Arithmetic} /\ target.p # 0 ->
             Ok(AugAssign(target.v, CHOOSE o \in Arithmetic : AugOf(o) = op, value.v), value.p)
        [] op \in {"="} \cup {AugOf(o) : o \in Arithmetic} /\ target.p = 0 -> Bad
        [] OTHER -> Ok(ExprStmt(e.v), e.p)

ParseLet(t, p) ==
  LET ty == Item("type", t, p + 2)
      init == Item("expr", t, Expect(t, ty.p, "="))
  IN  IF At(t, ty.p) = "," THEN Item("typed targets", t, p)
      ELSE Ok(Let(At(t, p), ty.v, init.v), init.p)

SimpleStmt(t, p) ==
  LET x == Item("expr", t, p + 1)
      cause == ParseOptExpr(t, x.p, "from")
      msg == ParseOptExpr(t, x.p, ",")
      value == ExprUnless(t, p + 1, {"NEWLINE", "EOF", "DEDENT"})
      target == ParseLvalue(t, p + 1)
      destructured == Item("targets", t, p)
  IN  CASE At(t, p) = "return" -> Ok(Return(value.v), value.p)
        [] At(t, p) = "yield" -> Ok(Yield(x.v), x.p)
        [] At(t, p) \in {"break", "continue", "pass"} -> R(Word(At(t, p)), p + 1)
        [] At(t, p) = "raise" -> Ok(Raise(x.v, cause.v), cause.p)
        [] At(t, p) = "assert" -> Ok(AssertStmt(x.v, msg.v), msg.p)
        [] At(t, p) = "del" -> Ok(Del(target.v), target.p)
        [] At(t, p) \in Names /\ At(t, p + 1) = ":" -> ParseLet(t, p)
        [] \/ At(t, p) \in Names /\ At(t, p + 1) = "," /\ At(t, p + 2) \in Names \cup {"*"}
           \/ At(t, p) = "*" /\ At(t, p + 1) \in Names ->
             IF destructured.p # 0 THEN destructured ELSE ParseAssignOrExpr(t, p)
        [] OTHER -> ParseAssignOrExpr(t, p)

ParseFor(t, p) ==
  LET var == Name(t, p + 1)
      ty == Annotated(t, var.p)
      iter == Item("expr", t, Expect(t, ty.p, "in"))
      body == Item("block", t, iter.p)
      else == Item("else", t, body.p)
  IN  Ok(For(var.v, ty.v, iter.v, body.v, else.v), IF body.p = 0 THEN 0 ELSE else.p)
ParseWhile(t, p) ==
  LET cond == Item("expr", t, p + 1)
      body == Item("block", t, cond.p)
      else == Item("else", t, body.p)
  IN  Ok(While(cond.v, body.v, else.v), IF body.p = 0 THEN 0 ELSE else.p)

\* The clauses that begin with a word: elif with its condition, except with
\* its type and binding.
Clause(t, p, word) ==
  LET head == IF word = "elif" THEN Item("expr", t, p + 1) ELSE Item("type", t, p + 1)
      binding == OptName(t, head.p, "as")
      body == Item("block", t, IF word = "elif" THEN head.p ELSE binding.p)
  IN  Ok(IF word = "elif" THEN <<head.v, body.v>> ELSE Handler(head.v, binding.v, body.v), body.p)
RECURSIVE Clauses(_, _, _)
Clauses(t, p, word) ==
  LET q == SkipNewlines(t, p)
      x == Clause(t, q, word)
      rest == Clauses(t, x.p, word)
  IN  CASE At(t, q) # word -> R(<<>>, q)
        [] At(t, q) = word /\ x.p = 0 -> Bad
        [] OTHER -> Ok(<<x.v>> \o rest.v, rest.p)

ParseIf(t, p) ==
  LET cond == Item("expr", t, p + 1)
      then == Item("block", t, cond.p)
      elifs == Item("elif", t, then.p)
      else == Item("else", t, elifs.p)
  IN  Ok(If(cond.v, then.v, elifs.v, else.v), IF then.p = 0 \/ elifs.p = 0 THEN 0 ELSE else.p)
ParseTry(t, p) ==
  LET body == Item("block", t, p + 1)
      handlers == Item("except", t, body.p)
      else == Item("else", t, handlers.p)
      finally == Item("finally", t, else.p)
  IN  Ok(Try(body.v, handlers.v, else.v, finally.v),
         IF 0 \in {body.p, handlers.p, else.p} THEN 0 ELSE finally.p)
ParseMatch(t, p) ==
  LET scrutinee == Item("expr", t, p + 1)
      arms == IndentedRows("arm", t, Expect(t, scrutinee.p, ":"))
  IN  Ok(Match(scrutinee.v, arms.v), arms.p)
ParseArm(t, p) ==
  LET pattern == Item("pattern", t, Expect(t, p, "case"))
      guard == ParseOptExpr(t, pattern.p, "if")
      body == Item("block", t, guard.p)
  IN  Ok(Arm(pattern.v, guard.v, body.v), body.p)
ParseWith(t, p) ==
  LET e == Item("expr", t, p + 1)
      name == Name(t, e.p + 1)
      ty == Annotated(t, name.p)
      bound == At(t, e.p) = "as"
      body == Item("block", t, IF bound THEN ty.p ELSE e.p)
  IN  Ok(With(e.v, IF bound THEN Some([name |-> name.v, ty |-> ty.v]) ELSE None, body.v), body.p)

ParseStmt(t, p) ==
  LET simple == Item("simple", t, p)
  IN  IF At(t, p) \in {"if", "while", "for", "match", "try", "with"} THEN Item(At(t, p), t, p)
      ELSE Ok(simple.v, ExpectNewline(t, simple.p))

-----------------------------------------------------------------------------
(* Declarations.                                                           *)
ParseArg(t, p) ==
  LET named == At(t, p) \in Names /\ At(t, p + 1) = "="
      value == Item("expr", t, IF named THEN p + 2 ELSE p)
  IN  Ok(Arg(IF named THEN Some(At(t, p)) ELSE None, value.v), value.p)
\* Only the first parameter may be a bare self.
ParseParam(t, p) ==
  LET name == Name(t, p)
      ty == Annotated(t, name.p)
      default == ParseOptExpr(t, ty.p, "=")
  IN  IF At(t, p) = "self" /\ At(t, p - 1) = "(" /\ At(t, p + 1) # ":"
      THEN R(Param("self", Infer, None), p + 1)
      ELSE Ok(Param(name.v, ty.v, default.v), IF ty.p = 0 THEN 0 ELSE default.p)
RECURSIVE Bounds(_, _)
Bounds(t, p) ==
  LET ty == Item("type", t, p)
      rest == Bounds(t, ty.p + 1)
  IN  IF At(t, ty.p) = "+" THEN Ok(<<ty.v>> \o rest.v, rest.p) ELSE Ok(<<ty.v>>, ty.p)
ParseGeneric(t, p) ==
  LET name == Name(t, p)
      bounds == IF At(t, name.p) = ":" THEN Bounds(t, name.p + 1) ELSE R(<<>>, name.p)
  IN  Ok(Generic(name.v, bounds.v), bounds.p)
ParseGenerics(t, p) ==
  LET gs == Items("generic", t, p + 1, "]")
  IN  IF At(t, p) = "[" THEN Ok(gs.v, Expect(t, gs.p, "]")) ELSE R(<<>>, p)
ParseImportItem(t, p) ==
  LET name == Name(t, p)
      alias == OptName(t, name.p, "as")
  IN  Ok(ImportItem(name.v, alias.v), IF name.p = 0 THEN 0 ELSE alias.p)
ParseEntry(t, p) ==
  LET key == Item("expr", t, p)
      value == Item("expr", t, Expect(t, key.p, ":"))
  IN  Ok(<<key.v, value.v>>, value.p)

ParseDecorator(t, p) ==
  LET path == ParseDotted(t, Expect(t, p, "@"))
      args == IF At(t, path.p) = "(" THEN Bracketed("arg", t, path.p, "(", ")") ELSE R(<<>>, path.p)
  IN  Ok(Decorator(path.v, args.v), ExpectNewline(t, args.p))
RECURSIVE Decorators(_, _)
Decorators(t, p) ==
  LET x == ParseDecorator(t, p)
      rest == Decorators(t, SkipNewlines(t, x.p))
  IN  IF At(t, p) = "@" THEN Ok(<<x.v>> \o rest.v, IF x.p = 0 THEN 0 ELSE rest.p) ELSE R(<<>>, p)
ParseSignature(t, p) ==
  LET params == Bracketed("param", t, p, "(", ")")
      ret == Item("type", t, Expect(t, params.p, "->"))
  IN  Ok([params |-> params.v, ret |-> ret.v], ret.p)
ParseFunc(t, p) ==
  LET name == Name(t, Expect(t, p, "fn"))
      generics == Item("generics", t, name.p)
      sig == Item("signature", t, generics.p)
      body == Item("block", t, sig.p)
  IN  Ok(Func(name.v, generics.v, sig.v.params, sig.v.ret, body.v, <<>>),
         IF sig.p = 0 THEN 0 ELSE body.p)
ParseField(t, p) ==
  LET name == Name(t, p)
      ty == Annotated(t, name.p)
      default == ParseOptExpr(t, ty.p, "=")
  IN  Ok(Field(name.v, ty.v, default.v), ExpectNewline(t, default.p))
\* A field, or a method that may be open.
ParseMember(t, p) ==
  LET decorators == Item("decorators", t, p)
      q == IF At(t, decorators.p) = "open" THEN decorators.p + 1 ELSE decorators.p
      f == Item("fn", t, q)
  IN  CASE At(t, q) = "fn" -> Ok([f.v EXCEPT !.decorators = decorators.v], f.p)
        [] At(t, q) # "fn" /\ decorators.v = <<>> -> ParseField(t, q)
        [] OTHER -> Bad
ParseProtoMethod(t, p) ==
  LET name == Name(t, Expect(t, p, "fn"))
      sig == Item("signature", t, name.p)
  IN  Ok(ProtoMethod(name.v, sig.v.params, sig.v.ret), ExpectNewline(t, sig.p))

\* The body of a class or a protocol: pass on the line of the colon, or rows.
ParseBody(kind, t, p) ==
  LET q == SkipNewlines(t, Expect(t, p, ":"))
  IN  IF At(t, q) = "pass" THEN Ok(<<>>, ExpectNewline(t, q + 1)) ELSE IndentedRows(kind, t, q)
ParseClass(t, p, modifier) ==
  LET name == Name(t, Expect(t, p, "class"))
      generics == Item("generics", t, name.p)
      bases == IF At(t, generics.p) = "(" THEN Bracketed("base", t, generics.p, "(", ")")
               ELSE R(<<>>, generics.p)
      body == ParseBody("member", t, bases.p)
      fields == SelectSeq(body.v, LAMBDA m : m.k = "Field")
      inits == SelectSeq(body.v, LAMBDA m : m.k = "Func" /\ m.name = "__init__")
      methods == SelectSeq(body.v, LAMBDA m : m.k = "Func" /\ m.name # "__init__")
  IN  IF body.p = 0 \/ Len(bases.v) > 1 \/ Len(inits) > 1 THEN Bad
      ELSE R(Class(name.v, modifier, generics.v, bases.v, fields, methods, inits), body.p)
ParseProtocol(t, p) ==
  LET name == Name(t, p + 1)
      generics == Item("generics", t, name.p)
      body == ParseBody("method", t, generics.p)
  IN  Ok(Protocol(name.v, generics.v, body.v), body.p)
ParseConst(t, p) ==
  LET name == Name(t, p + 1)
      ty == Annotated(t, name.p)
      value == Item("expr", t, Expect(t, ty.p, "="))
  IN  Ok(Const(name.v, ty.v, value.v), ExpectNewline(t, value.p))
ParseTypeAlias(t, p) ==
  LET name == Name(t, p + 1)
      generics == Item("generics", t, name.p)
      ty == Item("type", t, Expect(t, generics.p, "="))
  IN  Ok(TypeAlias(name.v, generics.v, ty.v), ExpectNewline(t, ty.p))

ParseTopDecl(t, p) ==
  LET decorators == Item("decorators", t, p)
      q == decorators.p
      f == Item("fn", t, q)
  IN  CASE At(t, q) = "fn" -> Ok([f.v EXCEPT !.decorators = decorators.v], f.p)
        [] At(t, q) = "class" /\ decorators.v = <<>> -> Item("final", t, q)
        [] At(t, q) = "final" /\ At(t, q + 1) = "class" -> Item("final", t, q + 1)
        [] At(t, q) = "final" /\ At(t, q + 1) # "class" -> Item("const", t, q)
        [] At(t, q) \in {"open", "sealed"} -> Item(At(t, q), t, q + 1)
        [] At(t, q) = "protocol" -> Item("protocol", t, q)
        [] At(t, q) = "type" -> Item("alias", t, q)
        [] OTHER -> Bad
ParseImport(t, p) ==
  LET path == ParseDotted(t, p + 1)
      items == Items("import item", t, Expect(t, path.p, "import"), "")
      alias == OptName(t, path.p, "as")
  IN  CASE At(t, p) = "from" -> Ok(Import(path.v, items.v, None), ExpectNewline(t, items.p))
        [] At(t, p) = "import" /\ path.p # 0 -> Ok(Import(path.v, <<>>, alias.v), ExpectNewline(t, alias.p))
        [] OTHER -> Bad

\* A string alone on a line of the module is a docstring and is skipped.
RECURSIVE ParseModule(_, _, _)
ParseModule(t, p, m) ==
  LET q == SkipNewlines(t, p)
      imp == Item("import", t, q)
      decl == Item("decl", t, q)
  IN  CASE At(t, q) = "EOF" -> R(m, q)
        [] At(t, q) = "" -> R(Module(<<>>, <<>>), 0)
        [] At(t, q) \in {"from", "import"} ->
             ParseModule(t, imp.p, [m EXCEPT !.imports = Append(@, imp.v)])
        [] At(t, q) \in Strings /\ At(t, q + 1) \in {"NEWLINE", "EOF"} ->
             ParseModule(t, ExpectNewline(t, q + 1), m)
        [] OTHER -> ParseModule(t, decl.p, [m EXCEPT !.decls = Append(@, decl.v)])
Item(kind, t, p) ==
  CASE kind = "expr" -> ParseExpr(t, p)
    [] kind \in DOMAIN OpsAt -> ParseLevel(kind, t, p)
    [] kind = "not" -> ParseNot(t, p)
    [] kind = "unary" -> ParseUnary(t, p)
    [] kind \in {"type", "base"} -> ParseType(t, p)
    [] kind = "pattern" -> ParsePattern(t, p)
    [] kind = "entry" -> ParseEntry(t, p)
    [] kind = "arg" -> ParseArg(t, p)
    [] kind = "param" -> ParseParam(t, p)
    [] kind = "generic" -> ParseGeneric(t, p)
    [] kind = "import item" -> ParseImportItem(t, p)
    [] kind = "import" -> ParseImport(t, p)
    [] kind = "stmt" -> ParseStmt(t, p)
    [] kind = "simple" -> SimpleStmt(t, p)
    [] kind = "targets" -> ParseDestructure(t, p, FALSE)
    [] kind = "typed targets" -> ParseDestructure(t, p, TRUE)
    [] kind = "block" -> ParseBlock(t, p)
    [] kind = "if" -> ParseIf(t, p)
    [] kind \in {"elif", "except"} -> Clauses(t, p, kind)
    [] kind \in {"else", "finally"} -> ParseOptBlock(t, p, kind)
    [] kind = "while" -> ParseWhile(t, p)
    [] kind = "for" -> ParseFor(t, p)
    [] kind = "match" -> ParseMatch(t, p)
    [] kind = "try" -> ParseTry(t, p)
    [] kind = "with" -> ParseWith(t, p)
    [] kind = "arm" -> ParseArm(t, p)
    [] kind = "member" -> ParseMember(t, p)
    [] kind = "method" -> ParseProtoMethod(t, p)
    [] kind \in {"final", "open", "sealed"} -> ParseClass(t, p, kind)
    [] kind = "protocol" -> ParseProtocol(t, p)
    [] kind = "const" -> ParseConst(t, p)
    [] kind = "alias" -> ParseTypeAlias(t, p)
    [] kind = "fn" -> ParseFunc(t, p)
    [] kind = "decorators" -> Decorators(t, p)
    [] kind = "generics" -> ParseGenerics(t, p)
    [] kind = "signature" -> ParseSignature(t, p)
    [] kind = "decl" -> ParseTopDecl(t, p)
    [] kind = "module" -> ParseModule(t, p, Module(<<>>, <<>>))

Parse(t) == Item("module", t, 1)
=============================================================================
