------------------------------- MODULE Machine -------------------------------
(***************************************************************************)
(* The interpreter (vm/src/interp.rs) running what the compiler makes of a *)
(* program (compiler/src/lib.rs): the whole way from a tree to its output. *)
(*                                                                         *)
(* A register holds 64 bits whose meaning only the opcode that reads them  *)
(* gives: here a value keeps the kind of thing it is (t), and an opcode    *)
(* that reads another kind has no step.  Memory is never reclaimed: Heap   *)
(* models the collector, Handlers what try statements add to the frames.   *)
(***************************************************************************)
EXTENDS Lowering, Optimizer, Codegen
LOCAL INSTANCE TLC
LOCAL INSTANCE SequencesExt

CONSTANTS
  Source,      \* the declarations of each program
  MaxFrames    \* the depth of the call stack

ASSUME MaxFramesAssumption == MaxFrames \in Nat \ {0}

\* The module a checked program is compiled to: the code of its functions and, for
\* each class, its virtual methods and its ancestors.
Emit(m, fs) ==
  LET optimized == {<<fs[i].key, Optimize(fs[i])>> : i \in DOMAIN fs}
      code == {<<f[1], EmitFunction(f[2])>> : f \in optimized}
      virtual(c) == [i \in DOMAIN MethodTable(c, m) |->
                       MethodKey(MethodTable(c, m)[i].owner, MethodTable(c, m)[i].name)]
  IN  [code |-> [k \in {f[1] : f \in code} |-> (CHOOSE f \in code : f[1] = k)[2]],
       vtable |-> [c \in DOMAIN m.classes |-> virtual(c)],
       bases |-> [c \in DOMAIN m.classes |-> Ancestry(c, m)]]
\* Nothing, if the program is rejected.
CompileChecked(m) == IF Accepted(m) THEN <<Emit(m, LowerModule(m))>> ELSE <<>>
Compile(decls) == CompileChecked(CheckModule(Context(decls)))

VARIABLES
  prog,        \* the program
  image,       \* what it compiles to: the module that is loaded
  build,       \* of the interpreter: debug or release
  frames,      \* the call stack
  heap,        \* the objects, by address
  out,         \* the lines printed
  status       \* running, done, or how it failed
vars == <<prog, image, build, frames, heap, out, status>>

Num(v) == [t |-> "int", v |-> v]
Truth(b) == Num(IF b THEN 1 ELSE 0)
Char(c) == [t |-> "char", v |-> c]
Float(v) == [t |-> "f64", v |-> v]
Pointer(a) == [t |-> "ref", v |-> a]
Zero == Num(0)                          \* also the null pointer
NoneSentinel == Num(-Half["i64"])       \* none, in the band of the integers
Same(x, y) == x.t = y.t /\ (x.t = y.t => x.v = y.v)

BuildFrame(key, args, returnReg) ==
  LET params == image.code[key].params
  IN  [key |-> key, pc |-> 1, ret |-> returnReg,
       regs |-> [r \in {params[i] : i \in DOMAIN params} |-> args[CHOOSE i \in DOMAIN params : params[i] = r]]]
Init ==
  /\ prog \in DOMAIN Source
  /\ \E compiled \in {Compile(Source[prog])} : compiled # <<>> /\ image = compiled[1]
  /\ build \in {"debug", "release"}
  /\ frames = <<BuildFrame(<<"main", <<>>>>, <<>>, Discard)>>
  /\ heap = <<>>
  /\ out = <<>>
  /\ status = [k |-> "running"]

-----------------------------------------------------------------------------
(* The instruction at the top frame, and its operands.                     *)
Frame == Last(frames)
I == image.code[Frame.key].code[Frame.pc]
ReadReg(f, r) == IF r \in DOMAIN f.regs THEN f.regs[r] ELSE Zero
WriteReg(f, r, v) == IF r = Discard THEN f ELSE [f EXCEPT !.regs = (r :> v) @@ @]
Operand(i) == ReadReg(Frame, I.args[i])
OperandsFrom(i) == [j \in 1..(Len(I.args) + 1 - i) |-> Operand(j + i - 1)]
IsNull(v) == v.t = "int" /\ (v.t = "int" => v.v = 0)
Object(v) == heap[v.v]
Text(v) == IF IsNull(v) THEN "" ELSE Object(v).v

\* What an operand must be for the opcode that reads it.
IsA(v, kind) ==
  CASE kind = "any" -> TRUE
    [] kind = "int" -> v.t = "int"
    [] kind = "i32" -> v.t = "int" /\ (v.t = "int" => Fits(v.v, "i32"))
    [] kind = "scalar" -> v.t = "char" \/ (v.t = "int" /\ (v.t = "int" => Fits(v.v, "i32")))
    [] kind \in {"char", "f64"} -> v.t = kind
    [] kind = "sized" -> IsNull(v) \/ (v.t = "ref" /\ (v.t = "ref" => Object(v).k \in {"str", "list"}))
    [] OTHER -> IsNull(v) \/ (v.t = "ref" /\ (v.t = "ref" => Object(v).k = kind))
NativeReads(name) ==
  CASE name \in {"StrConcat", "StrCmp", "StrAppendInPlace"} -> <<"str", "str">>
    [] name = "StrAppendChar" -> <<"str", "char">>
    [] name = "StrCharAt" -> <<"str", "int">>
    [] name \in {"StrFromI32", "I64FromI32", "F64FromI32"} -> <<"i32">>
    [] name \in {"StrFromI64", "StrFromBool", "I32FromI64", "F64FromI64"} -> <<"int">>
    [] name \in {"StrFromF64", "I32FromF64", "I64FromF64"} -> <<"f64">>
    [] name = "StrFromChar" -> <<"char">>
    [] name = "IntPow" -> <<"int", "int">>
    [] name = "MathPow" -> <<"f64", "f64">>
    [] name = "Len" -> <<"sized">>
    [] name = "ListAppend" -> <<"list", "any">>
    [] name = "DictLen" -> <<"dict">>
    [] name \in {"DictGet", "DictHas", "DictRemove", "DictSet"} -> <<"dict", "str">>
    [] name = "Println" -> <<"str">>
    [] OTHER -> <<>>
IntOpcodes == ByResult \cup {"IRem", "INeg"}
Reads(i) ==
  CASE i.op \in IntOpcodes -> IF i.w = "i32" THEN <<"i32", "i32">> ELSE <<"int", "int">>
    [] i.op \in IntCmp -> IF i.w = "i32" THEN <<"scalar", "scalar">> ELSE <<"int", "int">>
    [] i.op \in FloatOpcodes -> <<"f64", "f64">>
    [] i.op = "StrEq" -> <<"str", "str">>
    [] i.op \in {"Load", "Store", "VirtualCall", "IsInstance", "Throw"} -> <<"obj">>
    [] i.op \in {"ArrayLen", "ListPush"} -> <<"list">>
    [] i.op \in {"ArrayGet", "ArraySet"} -> <<"list", "int">>
    [] i.op = "IndirectCall" -> <<"fn">>
    [] i.op = "JumpIf" -> <<"int">>
    [] i.op = "NativeCall" -> NativeReads(i.imm)
    [] OTHER -> <<>>
Fit == \A j \in DOMAIN I.args : j \in DOMAIN Reads(I) => IsA(Operand(j), Reads(I)[j])

\* What executing an instruction gives: a value for its register and the heap
\* after it, or an exception.
Yields(v) == [exc |-> "", v |-> v, heap |-> heap]
Makes(object) == [exc |-> "", v |-> Pointer(Len(heap) + 1), heap |-> Append(heap, object)]
Changes(p, contents, v) == [exc |-> "", v |-> v, heap |-> [heap EXCEPT ![p.v].v = contents]]
Fails(name) == [exc |-> name, v |-> Zero, heap |-> heap]
NullPointer == Fails("NullPointerError")
MakesStr(s) == Makes([k |-> "str", v |-> s])

Stepped(f) == [frames EXCEPT ![Len(frames)] = [f EXCEPT !.pc = @ + 1]]
Executing(ops) == status.k = "running" /\ I.op \in ops /\ Fit
Complete(r) ==
  /\ IF r.exc = ""
     THEN /\ frames' = Stepped(WriteReg(Frame, I.dst, r.v))
          /\ heap' = r.heap
          /\ UNCHANGED status
     ELSE /\ status' = [k |-> "raised", exc |-> <<r.exc>>]
          /\ UNCHANGED <<frames, heap>>
  /\ UNCHANGED <<prog, image, build, out>>

-----------------------------------------------------------------------------
(* Values.                                                                 *)
ConstResult ==
  CASE I.w = "str" -> MakesStr(I.imm)
    [] I.w = "none" -> Yields(NoneSentinel)
    [] I.w = "char" -> Yields(Char(I.imm))
    [] I.w = "f64" -> Yields(Float(I.imm))
    [] OTHER -> Yields(Num(I.imm))

\* Addition, subtraction and multiplication trap in a debug build only.
IntResult(op, x, y) ==
  LET exact == Exact(op, x, y, I.w)
  IN  CASE op \in {"IDiv", "IRem"} /\ y = 0 -> Fails("ZeroDivisionError")
        [] op \in Trapping /\ ~Fits(exact, I.w) /\ build = "debug" -> Fails("OverflowError")
        [] OTHER -> Yields(Num(Wrap(exact, I.w)))
UnaryResult(op, x) == Yields(Num(Wrap(IF op = "INeg" THEN -x ELSE -x - 1, I.w)))
FloatUnary(op, x) == Yields(Float(-x))

Ordered(op, x, y) ==
  CASE op \in {"ILt", "FLt"} -> x < y [] op \in {"ILe", "FLe"} -> x <= y
    [] op \in {"IGt", "FGt"} -> x > y [] op \in {"IGe", "FGe"} -> x >= y
Compared(op, x, y) ==
  Yields(Truth(CASE op \in {"IEq", "FEq"} -> Same(x, y) [] op \in {"INe", "FNe"} -> ~Same(x, y)
                 [] op = "StrEq" -> Text(x) = Text(y) [] op = "RefEq" -> Same(x, y)
                 [] OTHER -> Ordered(op, x.v, y.v)))
Comparisons == IntCmp \cup {"FEq", "FNe", "FLt", "FLe", "FGt", "FGe", "StrEq", "RefEq"}

-----------------------------------------------------------------------------
(* Objects.  A field is read by its width; it is written as eight bytes,   *)
(* over the narrow fields that follow it.                                  *)
Sign(v) == IF v.t = "int" THEN (IF v.v < 0 THEN Num(-1) ELSE Zero) ELSE Zero
Stored(cells, off, v) ==
  [o \in DOMAIN cells \cup {off} |-> IF o = off THEN v ELSE IF o \in off..(off + 7) THEN Sign(v) ELSE cells[o]]
LoadResult(p) ==
  LET cells == Object(p).v
      v == IF I.imm.off \in DOMAIN cells THEN cells[I.imm.off] ELSE Zero
  IN  IF IsNull(p) THEN NullPointer
      ELSE Yields(IF v.t = "int" /\ I.imm.tag \in DOMAIN Half THEN Num(Wrap(v.v, I.imm.tag)) ELSE v)
StoreResult(p, v) == IF IsNull(p) THEN NullPointer ELSE Changes(p, Stored(Object(p).v, I.imm.off, v), Zero)
InstanceResult(p) ==
  LET c == Object(p).c
  IN  Yields(Truth(~IsNull(p) /\ (~IsNull(p) => c \in DOMAIN image.bases /\ I.imm \in ToSet(image.bases[c]))))
ObjectResult ==
  CASE I.op = "Alloc" -> Makes([k |-> "obj", c |-> I.imm, v |-> <<>>])
    [] I.op = "Load" -> LoadResult(Operand(1))
    [] I.op = "Store" -> StoreResult(Operand(1), Operand(2))
    [] I.op = "IsInstance" -> InstanceResult(Operand(1))
    [] I.op = "ClosureNew" -> Makes([k |-> "fn", key |-> I.imm, v |-> OperandsFrom(1)])

\* Lists are indexed from 0.
ListResult ==
  LET xs == IF IsNull(Operand(1)) THEN <<>> ELSE Object(Operand(1)).v
      i == Operand(2).v
      at(r) == IF IsNull(Operand(1)) THEN NullPointer ELSE IF i \in 0..(Len(xs) - 1) THEN r ELSE Fails("IndexError")
  IN  CASE I.op = "ArrayNew" -> Makes([k |-> "list", v |-> <<>>])
        [] I.op = "ArrayLen" -> Yields(Num(Len(xs)))
        [] I.op = "ArrayGet" -> at(Yields(xs[i + 1]))
        [] I.op = "ArraySet" -> at(Changes(Operand(1), [xs EXCEPT ![i + 1] = Operand(3)], Zero))
        [] I.op = "ListPush" -> IF IsNull(Operand(1)) THEN NullPointer ELSE Changes(Operand(1), Append(xs, Operand(2)), Zero)

-----------------------------------------------------------------------------
(* Natives (vm/src/builtins.rs).                                           *)
Saturate(v, p) == IF v >= Half[p] THEN Half[p] - 1 ELSE IF v < -Half[p] THEN -Half[p] ELSE v
StrNatives == {"StrConcat", "StrCmp", "StrAppendInPlace", "StrAppendChar", "StrCharAt", "StrFromI32", "StrFromI64", "StrFromF64",
               "StrFromBool", "StrFromChar", "StrFromAny", "Len"}
StrResult(name) ==
  LET x == Operand(1)
      y == Operand(2)
      s == Text(x)
      i == IF y.v < 0 THEN y.v + Len(s) ELSE y.v
      isStr(v) == v.t = "ref" /\ (v.t = "ref" => Object(v).k = "str")
  IN  CASE name = "StrConcat" -> MakesStr(Text(x) \o Text(y))
        [] name = "StrCmp" -> Yields(Num(StrCompare(Text(x), Text(y))))
        [] name = "StrAppendChar" -> MakesStr(Text(x) \o y.v)
        [] name = "StrAppendInPlace" -> IF IsNull(x) THEN MakesStr(Text(y)) ELSE Changes(x, Text(x) \o Text(y), x)
        [] name = "StrCharAt" ->
             IF IsNull(x) THEN NullPointer
             ELSE IF i \in 0..(Len(s) - 1) THEN Yields(Char(SubSeq(s, i + 1, i + 1))) ELSE Fails("IndexError")
        [] name \in {"StrFromI32", "StrFromI64"} -> MakesStr(ToString(x.v))
        [] name = "StrFromF64" -> MakesStr(FormatF64(x.v))
        [] name = "StrFromBool" -> MakesStr(IF x.v # 0 THEN "true" ELSE "false")
        [] name = "StrFromChar" -> MakesStr(x.v)
        [] name = "StrFromAny" -> IF isStr(x) THEN Yields(x) ELSE MakesStr(IF x.t = "int" THEN ToString(x.v) ELSE "?")
        [] name = "Len" -> Yields(Num(IF IsNull(x) THEN 0 ELSE Len(Object(x).v)))

NumNatives == {"I32FromI64", "I64FromI32", "F64FromI32", "F64FromI64", "I32FromF64", "I64FromF64", "IntPow", "MathPow"}
NumResult(name) ==
  LET x == Operand(1).v
      y == Operand(2).v
  IN  CASE name = "I32FromI64" -> Yields(Num(Wrap(x, "i32")))
        [] name = "I64FromI32" -> Yields(Num(x))
        [] name \in {"F64FromI32", "F64FromI64"} -> Yields(Float(x * Scale))
        [] name = "I32FromF64" -> Yields(Num(Saturate(Quot(x, Scale), "i32")))
        [] name = "I64FromF64" -> Yields(Num(Saturate(Quot(x, Scale), "i64")))
        [] name = "IntPow" -> IF y < 0 THEN Fails("ValueError") ELSE Yields(Num(Wrap(x ^ y, "i64")))
        [] name = "MathPow" -> Yields(Float(FloatPower(x, y)))

\* A dict maps the contents of a string; its own object is a handle to a table.
DictNatives == {"DictNew", "DictLen", "DictGet", "DictSet", "DictHas", "DictRemove", "ListAppend"}
DictResult(name) ==
  LET d == IF IsNull(Operand(1)) THEN <<>> ELSE Object(Operand(1)).v
      key == Text(Operand(2))
      on(r) == IF IsNull(Operand(1)) THEN NullPointer ELSE r
  IN  CASE name = "DictNew" -> Makes([k |-> "dict", v |-> <<>>])
        [] name = "DictLen" -> Yields(Num(Cardinality(DOMAIN d)))
        [] name = "DictGet" -> on(Yields(IF key \in DOMAIN d THEN d[key] ELSE NoneSentinel))
        [] name = "DictSet" -> on(Changes(Operand(1), (key :> Operand(3)) @@ d, Zero))
        [] name = "DictHas" -> Yields(Truth(key \in DOMAIN d))
        [] name = "DictRemove" ->
             on(Changes(Operand(1), [k \in DOMAIN d \ {key} |-> d[k]], Truth(key \in DOMAIN d)))
        [] name = "ListAppend" -> on(Changes(Operand(1), Append(d, Operand(2)), Zero))

-----------------------------------------------------------------------------
(* Steps.                                                                  *)
ConstStep_ == Executing({"Const"}) /\ Complete(ConstResult)
MoveStep == Executing({"Move"}) /\ Complete(Yields(Operand(1)))
IntStep == Executing(IntOpcodes \ {"INeg", "INot"}) /\ Complete(IntResult(I.op, Operand(1).v, Operand(2).v))
UnaryStep == Executing({"INeg", "INot"}) /\ Complete(UnaryResult(I.op, Operand(1).v))
FloatStep == Executing({"FAdd", "FSub", "FMul", "FDiv"}) /\ Complete(Yields(Float(FloatResult(I.op, Operand(1).v, Operand(2).v))))
FloatNegStep == Executing({"FNeg"}) /\ Complete(FloatUnary(I.op, Operand(1).v))
CompareStep == Executing(Comparisons) /\ Complete(Compared(I.op, Operand(1), Operand(2)))
ObjectStep == Executing({"Alloc", "Load", "Store", "IsInstance", "ClosureNew"}) /\ Complete(ObjectResult)
ListStep == Executing({"ArrayNew", "ArrayLen", "ArrayGet", "ArraySet", "ListPush"}) /\ Complete(ListResult)
StrStep == Executing({"NativeCall"}) /\ I.imm \in StrNatives /\ Complete(StrResult(I.imm))
NumStep == Executing({"NativeCall"}) /\ I.imm \in NumNatives /\ Complete(NumResult(I.imm))
DictStep == Executing({"NativeCall"}) /\ I.imm \in DictNatives /\ Complete(DictResult(I.imm))
Println ==
  /\ Executing({"NativeCall"})
  /\ I.imm = "Println"
  /\ out' = Append(out, Text(Operand(1)))
  /\ frames' = Stepped(Frame)
  /\ UNCHANGED <<prog, image, build, heap, status>>

End(how) == status' = how /\ UNCHANGED <<prog, image, build, frames, heap, out>>
\* The frame of the caller is stepped over the call before that of the callee is
\* pushed.
DoCall(key, args) ==
  IF Len(frames) >= MaxFrames THEN End([k |-> "trap"])
  ELSE /\ frames' = Append(Stepped(Frame), BuildFrame(key, args, I.dst))
       /\ UNCHANGED <<prog, image, build, heap, out, status>>
CallDirect == Executing({"DirectCall"}) /\ DoCall(I.imm, OperandsFrom(1))
CallVirtual ==
  /\ Executing({"VirtualCall"})
  /\ IF IsNull(Operand(1)) THEN Complete(NullPointer) ELSE DoCall(image.vtable[Object(Operand(1)).c][I.imm], OperandsFrom(1))
CallIndirect ==
  /\ Executing({"IndirectCall"})
  /\ IF IsNull(Operand(1)) THEN Complete(NullPointer) ELSE DoCall(Object(Operand(1)).key, Object(Operand(1)).v \o OperandsFrom(2))

Jump ==
  /\ Executing({"Jump", "JumpIf"})
  /\ frames' = [frames EXCEPT ![Len(frames)].pc = IF I.op = "Jump" \/ Operand(1).v # 0 THEN I.imm ELSE @ + 1]
  /\ UNCHANGED <<prog, image, build, heap, out, status>>
Return_ ==
  /\ Executing({"Ret", "RetVoid"})
  /\ LET callers == Front(frames)
         caller == WriteReg(Last(callers), IF I.op = "Ret" THEN Frame.ret ELSE Discard, Operand(1))
     IN  /\ frames' = IF callers = <<>> THEN <<>> ELSE [callers EXCEPT ![Len(callers)] = caller]
         /\ status' = IF callers = <<>> THEN [k |-> "done"] ELSE status
  /\ UNCHANGED <<prog, image, build, heap, out>>
\* An exception is its name and its message; nothing here catches it.
ThrowStep ==
  /\ Executing({"Throw"})
  /\ LET cell(off) == IF off \in DOMAIN Object(Operand(1)).v THEN Text(Object(Operand(1)).v[off]) ELSE ""
     IN  End([k |-> "raised", exc |-> IF IsNull(Operand(1)) THEN <<"Exception", "">>
                                      ELSE <<IF cell(0) = "" THEN "Exception" ELSE cell(0), cell(8)>>])

Halted == status.k # "running" /\ UNCHANGED vars
Next ==
  \/ ConstStep_ \/ MoveStep \/ IntStep \/ UnaryStep \/ FloatStep \/ FloatNegStep \/ CompareStep
  \/ ObjectStep \/ ListStep \/ StrStep \/ NumStep \/ DictStep \/ Println
  \/ CallDirect \/ CallVirtual \/ CallIndirect \/ Jump \/ Return_ \/ ThrowStep \/ Halted
Spec == Init /\ [][Next]_vars

-----------------------------------------------------------------------------
\* Every opcode finds in its registers the kind of thing it reads: what the type
\* checker accepts, the code generator gives opcodes of the right width and kind
\* (codegen.rs, op_for_...), through every rewriting of the optimizer.
OperandsFit == status.k = "running" => Fit

\* A program prints what its tree means and ends the way it does, in both builds
\* and whatever the optimizer folded, forwarded or dropped (optimize.rs).
Meant == INSTANCE Reference WITH CallDepth <- MaxFrames
SameOutcome ==
  status.k # "running" =>
    [out |-> out, status |-> status] = Meant!Meaning(CheckModule(Context(Source[prog])), build)
=============================================================================
