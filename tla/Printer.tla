------------------------------ MODULE Printer ------------------------------
(***************************************************************************)
(* The pretty-printer (compiler/src/pretty.rs): from a tree to canonical   *)
(* source text.  A text is a sequence of lines, each with its indentation, *)
(* the lexemes on it, and whether it continues the line before, as no line *)
(* that is printed does.  The spaces within a line are left out.           *)
(***************************************************************************)
EXTENDS Syntax
LOCAL INSTANCE SequencesExt

Line(ind, toks) == [ind |-> ind, toks |-> toks, cont |-> FALSE]

\* Pieces separated by commas, or by another separator.
SepBy(pieces, sep) ==
  FlattenSeq([i \in DOMAIN pieces |-> IF i = 1 THEN pieces[i] ELSE <<sep>> \o pieces[i]])
Commas(pieces) == SepBy(pieces, ",")
Enclosed(open, pieces, close) == <<open>> \o Commas(pieces) \o <<close>>
\* An optional piece with what goes before it.
Prefixed(before, pieces) == IF pieces = None THEN <<>> ELSE before \o pieces[1]
Words(names) == [i \in DOMAIN names |-> <<names[i]>>]
Dotted(path) == SepBy(Words(path), ".")

-----------------------------------------------------------------------------
RECURSIVE PrintType(_)
PrintType(t) ==
  LET types(ts) == [i \in DOMAIN ts |-> PrintType(ts[i])]
  IN  CASE t.k = "Named" ->
             Dotted(t.path) \o (IF t.args = <<>> THEN <<>> ELSE Enclosed("[", types(t.args), "]"))
        [] t.k = "Nullable" -> PrintType(t.inner) \o <<"?">>
        [] t.k = "Function" ->
             <<"fn">> \o Enclosed("(", types(t.params), ")") \o <<"->">> \o PrintType(t.ret)
        [] t.k = "TupleType" -> Enclosed("(", types(t.elems), ")")
        [] t.k = "Infer" -> <<"_">>

Typed(name, ty) == <<name, ":">> \o PrintType(ty)

\* Higher binds tighter.
PrecTernary == 1
PrecCoalesce == 4
PrecUnary == 13
\* A mutant of Precedence: sums and products bind alike.
PrecedenceFlat(op) == IF op \in {"+", "-", "*", "/", "//", "%"} THEN 10 ELSE 9
Precedence(op) ==
  CASE op = "or" -> 2
    [] op = "and" -> 3
    [] op \in CompareOps -> 5
    [] op = "|" -> 6
    [] op = "^" -> 7
    [] op = "&" -> 8
    [] op \in {"<<", ">>"} -> 9
    [] op \in {"+", "-"} -> 10
    [] op \in {"*", "/", "//", "%"} -> 11
    [] op = "**" -> 12

\* What may take a postfix without parentheses.
Atoms == {"Literal", "Ident", "Tuple", "List", "Dict", "Set", "Call", "MethodCall", "Attr", "Index",
          "Slice", "Comprehension"}

Parens(needed, p) == IF needed THEN <<"(">> \o p \o <<")">> ELSE p

\* An operator of two words is two lexemes.
OpWords(op) == CASE op = "is not" -> <<"is", "not">> [] op = "not in" -> <<"not", "in">> [] OTHER -> <<op>>

RECURSIVE PrintPrec(_, _)
PrintExpr(e) == PrintPrec(e, 0)
Exprs(es) == [i \in DOMAIN es |-> PrintExpr(es[i])]
PrintAtom(e) == Parens(e.k \notin Atoms, PrintExpr(e))
PrintArgs(args) ==
  Enclosed("(", [i \in DOMAIN args |->
    (IF args[i].name = None THEN <<>> ELSE <<args[i].name[1], "=">>) \o PrintExpr(args[i].value)], ")")
\* self is printed bare where the tree has no type for it.
PrintParam(p) ==
  IF p.name = "self" /\ p.ty = Infer THEN <<"self">>
  ELSE Typed(p.name, p.ty) \o Prefixed(<<"=">>, Exprs(p.default))
PrintParams(params) == Enclosed("(", [i \in DOMAIN params |-> PrintParam(params[i])], ")")

PrintBinary(e) ==
  LET p == Precedence(e.op)
  IN  PrintPrec(e.lhs, IF e.op = "**" THEN p + 1 ELSE p) \o OpWords(e.op)
        \o PrintPrec(e.rhs, IF e.op = "**" THEN p ELSE p + 1)

PrintComprehension(e) ==
  LET brackets == IF e.kind = "List" THEN <<"[", "]">> ELSE <<"{", "}">>
  IN  <<brackets[1]>> \o PrintExpr(e.body) \o Prefixed(<<":">>, Exprs(e.value)) \o <<"for">>
        \o Typed(e.var, e.ty) \o <<"in">> \o PrintExpr(e.iter)
        \o Prefixed(<<"if">>, Exprs(e.cond)) \o <<brackets[2]>>

\* The expression e in a context of precedence ctx.
PrintPrec(e, ctx) ==
  CASE e.k = "Literal" -> <<e.lit>>
    [] e.k = "Ident" -> <<e.name>>
    [] e.k = "Tuple" ->
         IF Len(e.elems) = 1 THEN <<"(">> \o PrintExpr(e.elems[1]) \o <<",", ")">>
         ELSE Enclosed("(", Exprs(e.elems), ")")
    [] e.k = "List" -> Enclosed("[", Exprs(e.elems), "]")
    [] e.k = "Set" -> Enclosed("{", Exprs(e.elems), "}")
    [] e.k = "Dict" ->
         Enclosed("{", [i \in DOMAIN e.entries |->
           PrintExpr(e.entries[i][1]) \o <<":">> \o PrintExpr(e.entries[i][2])], "}")
    [] e.k = "Unary" -> Parens(ctx > PrecUnary, <<e.op>> \o PrintPrec(e.operand, PrecUnary))
    [] e.k = "Binary" -> Parens(Precedence(e.op) < ctx, PrintBinary(e))
    [] e.k = "Call" -> PrintAtom(e.callee) \o PrintArgs(e.args)
    [] e.k = "MethodCall" -> PrintAtom(e.receiver) \o <<".", e.method>> \o PrintArgs(e.args)
    [] e.k = "Attr" -> PrintAtom(e.obj) \o <<".", e.name>>
    [] e.k = "Index" -> PrintAtom(e.obj) \o Enclosed("[", Exprs(e.indices), "]")
    [] e.k = "Slice" ->
         PrintAtom(e.obj) \o <<"[">> \o Prefixed(<<>>, Exprs(e.lo)) \o <<":">>
           \o Prefixed(<<>>, Exprs(e.hi)) \o Prefixed(<<":">>, Exprs(e.step)) \o <<"]">>
    [] e.k = "NullCoalesce" ->
         Parens(ctx > PrecCoalesce,
                PrintPrec(e.lhs, PrecCoalesce + 1) \o <<"??">> \o PrintPrec(e.rhs, PrecCoalesce))
    [] e.k = "Ternary" ->
         Parens(ctx > PrecTernary,
                PrintPrec(e.then, PrecTernary + 1) \o <<"if">> \o PrintPrec(e.cond, PrecTernary + 1)
                  \o <<"else">> \o PrintPrec(e.else, PrecTernary))
    [] e.k = "Lambda" ->
         Parens(ctx > PrecTernary,
                <<"fn">> \o PrintParams(e.params) \o <<"->">> \o PrintType(e.ret) \o <<":">>
                  \o PrintExpr(e.body))
    [] e.k = "Comprehension" -> PrintComprehension(e)

RECURSIVE PrintPattern(_)
PrintPattern(p) ==
  LET patterns(ps) == [i \in DOMAIN ps |-> PrintPattern(ps[i])]
  IN  CASE p.k = "Wildcard" -> <<"_">>
        [] p.k = "LitPattern" -> <<p.lit>>
        [] p.k = "Binding" -> <<p.name>>
        [] p.k = "Constructor" -> PrintType(p.ty) \o Enclosed("(", patterns(p.fields), ")")
        [] p.k = "TuplePattern" -> Enclosed("(", patterns(p.elems), ")")

-----------------------------------------------------------------------------
(* Statements and declarations are sequences of lines.                     *)

Lines(parts) == FlattenSeq(parts)
OptExpr(word, e) == Prefixed(<<word>>, Exprs(e))

PrintSimple(s) ==
  CASE s.k = "Let" -> Typed(s.name, s.ty) \o <<"=">> \o PrintExpr(s.init)
    [] s.k = "LetDestructure" ->
         Commas([i \in DOMAIN s.names |->
           IF s.tys[i] = None THEN <<s.names[i]>> ELSE Typed(s.names[i], s.tys[i][1])])
           \o <<"=">> \o PrintExpr(s.init)
    [] s.k = "LetStarDestructure" ->
         Commas(Words(s.before) \o <<<<"*", s.star>>>> \o Words(s.after)) \o <<"=">> \o PrintExpr(s.init)
    [] s.k = "Assign" -> PrintExpr(s.target) \o <<"=">> \o PrintExpr(s.value)
    [] s.k = "AugAssign" -> PrintExpr(s.target) \o <<AugOf(s.op)>> \o PrintExpr(s.value)
    [] s.k = "Return" -> <<"return">> \o Prefixed(<<>>, Exprs(s.value))
    [] s.k = "Yield" -> <<"yield">> \o PrintExpr(s.value)
    [] s.k = "Raise" -> <<"raise">> \o PrintExpr(s.exc) \o OptExpr("from", s.cause)
    [] s.k = "Assert" -> <<"assert">> \o PrintExpr(s.cond) \o OptExpr(",", s.msg)
    [] s.k = "Del" -> <<"del">> \o PrintExpr(s.target)
    [] s.k = "Expr" -> PrintExpr(s.expr)
    [] s.k = "Word" -> <<s.word>>

RECURSIVE PrintStmt(_, _)
PrintBlock(head, block, ind) ==
  <<Line(ind, head \o <<":">>)>> \o
    (IF block = <<>> THEN <<Line(ind + 4, <<"pass">>)>>
     ELSE Lines([i \in DOMAIN block |-> PrintStmt(block[i], ind + 4)]))
OptBlock(word, block, ind) == IF block = None THEN <<>> ELSE PrintBlock(<<word>>, block[1], ind)

PrintArm(arm, ind) ==
  PrintBlock(<<"case">> \o PrintPattern(arm.pattern) \o OptExpr("if", arm.guard), arm.body, ind)
PrintHandler(h, ind) ==
  PrintBlock(<<"except">> \o PrintType(h.ty) \o Prefixed(<<"as">>, Words(h.binding)), h.body, ind)

PrintStmt(s, ind) ==
  CASE s.k = "If" ->
         PrintBlock(<<"if">> \o PrintExpr(s.cond), s.then, ind)
           \o Lines([i \in DOMAIN s.elifs |->
                PrintBlock(<<"elif">> \o PrintExpr(s.elifs[i][1]), s.elifs[i][2], ind)])
           \o OptBlock("else", s.else, ind)
    [] s.k = "While" ->
         PrintBlock(<<"while">> \o PrintExpr(s.cond), s.body, ind) \o OptBlock("else", s.else, ind)
    [] s.k = "For" ->
         PrintBlock(<<"for">> \o Typed(s.var, s.ty) \o <<"in">> \o PrintExpr(s.iter), s.body, ind)
           \o OptBlock("else", s.else, ind)
    [] s.k = "Match" ->
         <<Line(ind, <<"match">> \o PrintExpr(s.scrutinee) \o <<":">>)>>
           \o (IF s.arms = <<>> THEN <<Line(ind + 4, <<"pass">>)>>
               ELSE Lines([i \in DOMAIN s.arms |-> PrintArm(s.arms[i], ind + 4)]))
    [] s.k = "Try" ->
         PrintBlock(<<"try">>, s.body, ind)
           \o Lines([i \in DOMAIN s.handlers |-> PrintHandler(s.handlers[i], ind)])
           \o OptBlock("else", s.else, ind) \o OptBlock("finally", s.finally, ind)
    [] s.k = "With" ->
         PrintBlock(<<"with">> \o PrintExpr(s.expr)
                      \o (IF s.binding = None THEN <<>>
                          ELSE <<"as">> \o Typed(s.binding[1].name, s.binding[1].ty)), s.body, ind)
    [] OTHER -> <<Line(ind, PrintSimple(s))>>

PrintGenerics(gs) ==
  IF gs = <<>> THEN <<>>
  ELSE Enclosed("[", [i \in DOMAIN gs |-> <<gs[i].name>> \o
         (IF gs[i].bounds = <<>> THEN <<>>
          ELSE <<":">> \o SepBy([j \in DOMAIN gs[i].bounds |-> PrintType(gs[i].bounds[j])], "+"))], "]")
PrintDecorator(d, ind) ==
  Line(ind, <<"@">> \o Dotted(d.path) \o (IF d.args = <<>> THEN <<>> ELSE PrintArgs(d.args)))
PrintSignature(f) == PrintParams(f.params) \o <<"->">> \o PrintType(f.ret)
PrintFunc(f, ind) ==
  [i \in DOMAIN f.decorators |-> PrintDecorator(f.decorators[i], ind)]
    \o PrintBlock(<<"fn", f.name>> \o PrintGenerics(f.generics) \o PrintSignature(f), f.body, ind)
PrintField(f) == Line(4, Typed(f.name, f.ty) \o Prefixed(<<"=">>, Exprs(f.default)))
PrintBody(lines) == IF lines = <<>> THEN <<Line(4, <<"pass">>)>> ELSE lines

PrintClass(c) ==
  <<Line(0, <<c.modifier, "class", c.name>> \o PrintGenerics(c.generics)
      \o (IF c.bases = <<>> THEN <<>>
          ELSE Enclosed("(", [i \in DOMAIN c.bases |-> PrintType(c.bases[i])], ")")) \o <<":">>)>>
    \o PrintBody([i \in DOMAIN c.fields |-> PrintField(c.fields[i])]
         \o Lines([i \in DOMAIN (c.init \o c.methods) |-> PrintFunc((c.init \o c.methods)[i], 4)]))
PrintProtocol(p) ==
  <<Line(0, <<"protocol", p.name>> \o PrintGenerics(p.generics) \o <<":">>)>>
    \o PrintBody([i \in DOMAIN p.methods |->
         Line(4, <<"fn", p.methods[i].name>> \o PrintSignature(p.methods[i]))])

PrintDecl(d) ==
  CASE d.k = "Func" -> PrintFunc(d, 0)
    [] d.k = "Class" -> PrintClass(d)
    [] d.k = "Protocol" -> PrintProtocol(d)
    [] d.k = "Const" -> <<Line(0, <<"final">> \o Typed(d.name, d.ty) \o <<"=">> \o PrintExpr(d.value))>>
    [] d.k = "TypeAlias" ->
         <<Line(0, <<"type", d.name>> \o PrintGenerics(d.generics) \o <<"=">> \o PrintType(d.ty))>>

PrintImport(imp) ==
  LET alias(a) == Prefixed(<<"as">>, Words(a))
  IN  IF imp.items = <<>> THEN Line(0, <<"import">> \o Dotted(imp.path) \o alias(imp.alias))
      ELSE Line(0, <<"from">> \o Dotted(imp.path) \o <<"import">>
             \o Commas([i \in DOMAIN imp.items |-> <<imp.items[i].name>> \o alias(imp.items[i].alias)]))

\* One blank line after the imports and between declarations.
PrintModule(m) ==
  [i \in DOMAIN m.imports |-> PrintImport(m.imports[i])]
    \o Lines([i \in DOMAIN m.decls |->
         (IF i > 1 \/ m.imports # <<>> THEN <<Line(0, <<>>)>> ELSE <<>>) \o PrintDecl(m.decls[i])])
=============================================================================
