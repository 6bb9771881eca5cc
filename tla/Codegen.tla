------------------------------- MODULE Codegen -------------------------------
(***************************************************************************)
(* Code generation (compiler/src/codegen.rs).  The static types end here:  *)
(* every operation becomes an opcode that reads its registers as numbers   *)
(* of a given width, floating-point numbers or pointers, whatever is in    *)
(* them.  An instruction is an opcode, its width where it has one, the     *)
(* register it writes, those it reads, and an immediate operand.           *)
(*                                                                         *)
(* Each value has a register, that of its number, and each slot one of     *)
(* its own, that of its number negated.                                    *)
(***************************************************************************)
EXTENDS Types
LOCAL INSTANCE SequencesExt

Discard == 65535       \* the register that is never written
Tmp == 0
Instr(op, w, dst, args, imm) == [op |-> op, w |-> w, dst |-> dst, args |-> args, imm |-> imm]

\* The width of an opcode, by a type; "" where the type does not say.
WidthFor(ty) == IF IsPrim(UnwrapNullable(ty), {"i32", "i64", "u32", "u64"}) THEN UnwrapNullable(ty).p ELSE ""
Wide(ty) == IsPrim(UnwrapNullable(ty), {"i64", "u64"})
FirstOf(w, v, default) == IF w # "" THEN w ELSE IF v # "" THEN v ELSE default
ByResult == {"IAdd", "ISub", "IMul", "IDiv", "IAnd", "IOr", "IXor", "IShl", "IShr", "INot"}
IntCmp == {"IEq", "INe", "ILt", "ILe", "IGt", "IGe"}
FloatOpcodes == {"FAdd", "FSub", "FMul", "FDiv", "FNeg", "FEq", "FNe", "FLt", "FLe", "FGt", "FGe"}
\* A comparison by the type of its result.
OpWidthOfResult(op, ty, operandTy) ==
  IF op \in FloatOpcodes THEN "f64" ELSE FirstOf(WidthFor(ty), "", "i32")
OpWidth(op, ty, operandTy) ==
  CASE op \in ByResult -> FirstOf(WidthFor(ty), WidthFor(operandTy), "i32")
    [] op \in {"IRem", "INeg"} -> IF Wide(ty) THEN "i64" ELSE "i32"
    [] op \in IntCmp -> FirstOf(WidthFor(operandTy), "", "i32")
    [] op \in FloatOpcodes -> IF IsPrim(UnwrapNullable(operandTy), {"f32"}) THEN "f32" ELSE "f64"
    [] OTHER -> ""
TyTag(ty) == IF IsPrim(UnwrapNullable(ty), Numerics \cup {"bool"}) THEN UnwrapNullable(ty).p ELSE "ref"

EmitConst(dst, imm) ==
  LET const(w, v) == <<Instr("Const", w, dst, <<>>, v)>>
  IN  CASE imm.t \in {"i32", "u32", "char"} -> const(IF imm.t = "char" THEN "char" ELSE "i32", imm.v)
        [] imm.t \in {"i64", "u64"} -> const("i64", imm.v)
        [] imm.t = "bool" -> const("i32", IF imm.v THEN 1 ELSE 0)
        [] OTHER -> const(imm.t, imm.v)

EmitOp(v, operandTy) ==
  LET unit == v.ty = UnitTy
      one(op, args, imm) == <<Instr(op, OpWidth(v.op, v.ty, operandTy), v.id, args, imm)>>
      call(imm) == <<Instr(v.op, "", IF unit THEN Discard ELSE v.id, v.args, imm)>>
  IN  CASE v.op = "BoolNot" -> <<Instr("Const", "i32", Tmp, <<>>, 0), Instr("IEq", "i32", v.id, <<v.args[1], Tmp>>, "")>>
        [] v.op = "ReadLocal" -> one("Move", <<-v.imm>>, "")
        [] v.op = "WriteLocal" -> <<Instr("Move", "", -v.imm, <<v.args[1]>>, "")>>
        [] v.op = "Copy" -> one("Move", v.args, "")
        [] v.op = "Select" -> one("Move", <<v.args[2]>>, "")
        [] v.op = "Load" -> one("Load", v.args, [off |-> v.imm, tag |-> TyTag(v.ty)])
        [] v.op = "Store" -> one("Store", v.args, [off |-> v.imm, tag |-> "ref"])
        [] v.op \in {"DirectCall", "VirtualCall", "IndirectCall", "NativeCall"} -> call(v.imm)
        [] OTHER -> one(v.op, v.args, v.imm)

\* Where a terminator jumps to is a block here, and a place in the code once all
\* blocks are laid out.
EmitTerminator(t) ==
  CASE t.k = "Branch" -> <<Instr("Jump", "", Discard, <<>>, t.to)>>
    [] t.k = "CondBranch" -> <<Instr("JumpIf", "", Discard, <<t.cond>>, t.t), Instr("Jump", "", Discard, <<>>, t.f)>>
    [] t.k = "Ret" -> <<Instr(IF t.value = <<>> THEN "RetVoid" ELSE "Ret", "", Discard, t.value, "")>>
    [] t.k = "Throw" -> <<Instr("Throw", "", Discard, <<t.exc>>, "")>>
    [] t.k = "Unreachable" -> <<Instr("Halt", "", Discard, <<>>, "")>>

EmitFunction(f) ==
  LET value(v) == CASE v.op = "Param" -> <<>>
                    [] v.op = "Const" -> EmitConst(v.id, v.imm)
                    [] OTHER -> EmitOp(v, IF v.args = <<>> THEN v.ty ELSE f.tys[v.args[1]])
      block(b) == FlattenSeq([i \in DOMAIN b.vals |-> value(b.vals[i])]) \o EmitTerminator(b.term)
      blocks == [n \in DOMAIN f.blocks |-> block(f.blocks[n])]
      start[n \in DOMAIN blocks] == IF n = 1 THEN 1 ELSE start[n - 1] + Len(blocks[n - 1])
      patch(i) == IF i.op \in {"Jump", "JumpIf"} THEN [i EXCEPT !.imm = start[@]] ELSE i
      entry == f.blocks[1].vals
      params == SelectSeq(entry, LAMBDA v : v.op = "Param")
      code == FlattenSeq(blocks)
  IN  [params |-> [i \in DOMAIN params |-> params[i].id], code |-> [i \in DOMAIN code |-> patch(code[i])]]
=============================================================================
