------------------------------- MODULE Syntax -------------------------------
(***************************************************************************)
(* The untyped syntax trees of StrictPy (compiler/src/ast.rs), and the     *)
(* words its sources are made of.  A tree is a record whose field k says   *)
(* what it is; an optional part is a sequence of at most one element.      *)
(* Spans are left out: they only place diagnostics.                        *)
(***************************************************************************)
EXTENDS Naturals, Integers, Sequences

CONSTANTS
  Names,       \* the identifiers of the programs
  Digits,      \* their runs of decimal digits
  Strings      \* their string literals, quotes included

ASSUME WordsAssumption ==
  Names \cap Digits = {} /\ Names \cap Strings = {} /\ Digits \cap Strings = {}

None == <<>>
Some(x) == <<x>>

-----------------------------------------------------------------------------
(* Expressions.                                                            *)
Literal(lit) == [k |-> "Literal", lit |-> lit]
Ident(name) == [k |-> "Ident", name |-> name]
Tuple(elems) == [k |-> "Tuple", elems |-> elems]
List(elems) == [k |-> "List", elems |-> elems]
Set(elems) == [k |-> "Set", elems |-> elems]
Dict(entries) == [k |-> "Dict", entries |-> entries]
Unary(op, operand) == [k |-> "Unary", op |-> op, operand |-> operand]
Binary(op, lhs, rhs) == [k |-> "Binary", op |-> op, lhs |-> lhs, rhs |-> rhs]
Call(callee, args) == [k |-> "Call", callee |-> callee, args |-> args]
MethodCall(receiver, method, args) ==
  [k |-> "MethodCall", receiver |-> receiver, method |-> method, args |-> args]
Attr(obj, name) == [k |-> "Attr", obj |-> obj, name |-> name]
Index(obj, indices) == [k |-> "Index", obj |-> obj, indices |-> indices]
Slice(obj, lo, hi, step) == [k |-> "Slice", obj |-> obj, lo |-> lo, hi |-> hi, step |-> step]
NullCoalesce(lhs, rhs) == [k |-> "NullCoalesce", lhs |-> lhs, rhs |-> rhs]
Ternary(cond, then, else) == [k |-> "Ternary", cond |-> cond, then |-> then, else |-> else]
Lambda(params, ret, body) == [k |-> "Lambda", params |-> params, ret |-> ret, body |-> body]
Comprehension(kind, var, ty, iter, body, value, cond) ==
  [k |-> "Comprehension", kind |-> kind, var |-> var, ty |-> ty, iter |-> iter,
   body |-> body, value |-> value, cond |-> cond]
Arg(name, value) == [name |-> name, value |-> value]

(* Types.  A missing annotation is Infer.                                  *)
Named(path, args) == [k |-> "Named", path |-> path, args |-> args]
Nullable(inner) == [k |-> "Nullable", inner |-> inner]
Function(params, ret) == [k |-> "Function", params |-> params, ret |-> ret]
TupleType(elems) == [k |-> "TupleType", elems |-> elems]
Infer == [k |-> "Infer"]

(* Patterns.                                                               *)
Wildcard == [k |-> "Wildcard"]
LitPattern(lit) == [k |-> "LitPattern", lit |-> lit]
Binding(name) == [k |-> "Binding", name |-> name]
Constructor(ty, fields) == [k |-> "Constructor", ty |-> ty, fields |-> fields]
TuplePattern(elems) == [k |-> "TuplePattern", elems |-> elems]

(* Statements.  A block is a sequence of statements.                       *)
Let(name, ty, init) == [k |-> "Let", name |-> name, ty |-> ty, init |-> init]
LetDestructure(names, tys, init) ==
  [k |-> "LetDestructure", names |-> names, tys |-> tys, init |-> init]
LetStarDestructure(before, star, after, init) ==
  [k |-> "LetStarDestructure", before |-> before, star |-> star, after |-> after, init |-> init]
Assign(target, value) == [k |-> "Assign", target |-> target, value |-> value]
AugAssign(target, op, value) == [k |-> "AugAssign", target |-> target, op |-> op, value |-> value]
Return(value) == [k |-> "Return", value |-> value]
Yield(value) == [k |-> "Yield", value |-> value]
If(cond, then, elifs, else) ==
  [k |-> "If", cond |-> cond, then |-> then, elifs |-> elifs, else |-> else]
While(cond, body, else) == [k |-> "While", cond |-> cond, body |-> body, else |-> else]
For(var, ty, iter, body, else) ==
  [k |-> "For", var |-> var, ty |-> ty, iter |-> iter, body |-> body, else |-> else]
Match(scrutinee, arms) == [k |-> "Match", scrutinee |-> scrutinee, arms |-> arms]
Arm(pattern, guard, body) == [pattern |-> pattern, guard |-> guard, body |-> body]
Try(body, handlers, else, finally) ==
  [k |-> "Try", body |-> body, handlers |-> handlers, else |-> else, finally |-> finally]
Handler(ty, binding, body) == [ty |-> ty, binding |-> binding, body |-> body]
With(expr, binding, body) == [k |-> "With", expr |-> expr, binding |-> binding, body |-> body]
Raise(exc, cause) == [k |-> "Raise", exc |-> exc, cause |-> cause]
AssertStmt(cond, msg) == [k |-> "Assert", cond |-> cond, msg |-> msg]
Del(target) == [k |-> "Del", target |-> target]
ExprStmt(expr) == [k |-> "Expr", expr |-> expr]
Word(word) == [k |-> "Word", word |-> word]       \* break, continue and pass

(* Declarations.                                                           *)
Param(name, ty, default) == [name |-> name, ty |-> ty, default |-> default]
Generic(name, bounds) == [name |-> name, bounds |-> bounds]
Decorator(path, args) == [path |-> path, args |-> args]
Func(name, generics, params, ret, body, decorators) ==
  [k |-> "Func", name |-> name, generics |-> generics, params |-> params, ret |-> ret,
   body |-> body, decorators |-> decorators]
Field(name, ty, default) == [k |-> "Field", name |-> name, ty |-> ty, default |-> default]
Class(name, modifier, generics, bases, fields, methods, init) ==
  [k |-> "Class", name |-> name, modifier |-> modifier, generics |-> generics, bases |-> bases,
   fields |-> fields, methods |-> methods, init |-> init]
ProtoMethod(name, params, ret) == [name |-> name, params |-> params, ret |-> ret]
Protocol(name, generics, methods) ==
  [k |-> "Protocol", name |-> name, generics |-> generics, methods |-> methods]
Const(name, ty, value) == [k |-> "Const", name |-> name, ty |-> ty, value |-> value]
TypeAlias(name, generics, ty) == [k |-> "TypeAlias", name |-> name, generics |-> generics, ty |-> ty]
Import(path, items, alias) == [path |-> path, items |-> items, alias |-> alias]
ImportItem(name, alias) == [name |-> name, alias |-> alias]
Module(imports, decls) == [imports |-> imports, decls |-> decls]

-----------------------------------------------------------------------------
(* Operators, as they are written.                                         *)
UnaryOps == {"-", "+", "~", "not"}
CompareOps == {"==", "!=", "<", "<=", ">", ">=", "is", "is not", "in", "not in"}
Arithmetic == {"+", "-", "*", "/", "//", "%", "**", "&", "|", "^", "<<", ">>"}
BinaryOps == Arithmetic \cup CompareOps \cup {"and", "or"}
AugOf(op) == op \o "="

Keywords == {"and", "as", "assert", "async", "await", "break", "case", "class", "continue", "def",
             "del", "effect", "elif", "else", "except", "false", "final", "finally", "fn", "for", "from",
             "global", "if", "import", "in", "is", "lambda", "match", "none", "not", "open", "or", "pass",
             "protocol", "raise", "region", "return", "sealed", "true", "try", "unsafe", "while", "with",
             "yield"}
ASSUME NamesAssumption == Names \cap Keywords = {}
Openers == {"(", "[", "{"}
Closers == {")", "]", "}"}
=============================================================================
