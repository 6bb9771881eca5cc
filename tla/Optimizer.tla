------------------------------ MODULE Optimizer ------------------------------
(***************************************************************************)
(* The passes over the intermediate representation of one function         *)
(* (compiler/src/optimize.rs and compiler/src/opts).                       *)
(***************************************************************************)
EXTENDS Types
LOCAL INSTANCE SequencesExt

Operands(term) ==
  CASE term.k = "CondBranch" -> {term.cond} [] term.k = "Ret" -> ToSet(term.value) [] term.k = "Throw" -> {term.exc} [] OTHER -> {}
Used(b) == Operands(b.term) \cup UNION {ToSet(b.vals[i].args) : i \in DOMAIN b.vals}
EachBlock(f, F(_)) == [f EXCEPT !.blocks = [i \in DOMAIN @ |-> F(@[i])]]
EachValue(b, F(_)) == [b EXCEPT !.vals = [i \in DOMAIN @ |-> F(@[i])]]

\* An operation on two constants of its own block becomes a constant; the
\* arithmetic wraps.
Foldable == [i32 |-> {"IAdd", "ISub", "IMul", "IAnd", "IOr", "IXor"}, i64 |-> {"IAdd", "ISub", "IMul"}]
FoldBlock(b) ==
  LET at(id) == {i \in DOMAIN b.vals : b.vals[i].id = id /\ b.vals[i].op = "Const"}
      imm(id) == b.vals[CHOOSE i \in at(id) : TRUE].imm
      fold(v) ==
        IF Len(v.args) = 2 /\ (\A k \in 1..Len(v.args) : at(v.args[k]) # {})
        THEN LET l == imm(v.args[1])
                 r == imm(v.args[2])
             IN  IF l.t = r.t /\ l.t \in DOMAIN Foldable /\ (l.t \in DOMAIN Foldable => v.op \in Foldable[l.t])
                 THEN [v EXCEPT !.op = "Const", !.args = <<>>, !.imm = [t |-> l.t, v |-> Wrap(Exact(v.op, l.v, r.v, l.t), l.t)]]
                 ELSE v
        ELSE v
  IN  EachValue(b, fold)
ConstantFold(f) == EachBlock(f, FoldBlock)

\* A tuple that its block makes and only takes apart: what is loaded from it is
\* what was last stored there, and nothing is stored in it any more.
Escapes(id, b) ==
  \/ id \in Operands(b.term)
  \/ \E i \in DOMAIN b.vals : \E k \in DOMAIN b.vals[i].args :
       b.vals[i].args[k] = id /\ ~(k = 1 /\ b.vals[i].op \in {"Store", "Load"})
TuplesOf(b) == {b.vals[i].id : i \in {i \in DOMAIN b.vals : b.vals[i].op = "Alloc" /\ b.vals[i].ty.k = "Tuple"}}
ScalarTuples(f, n) ==
  LET b == f.blocks[n]
      candidates == {id \in TuplesOf(b) : ~Escapes(id, b) /\ \A m \in DOMAIN f.blocks \ {n} : id \notin Used(f.blocks[m])}
      about(i, op) == b.vals[i].op = op /\ b.vals[i].args[1] \in candidates
      stores(i) == {j \in 1..(i - 1) : about(j, "Store") /\ b.vals[j].args[1] = b.vals[i].args[1] /\ b.vals[j].imm = b.vals[i].imm}
      last(i) == CHOOSE j \in stores(i) : \A h \in stores(i) : h <= j
      new(i) == IF about(i, "Load") /\ (about(i, "Load") => stores(i) # {})
                THEN [b.vals[i] EXCEPT !.op = "Copy", !.args = <<b.vals[last(i)].args[2]>>, !.imm = ""] ELSE b.vals[i]
      kept == SelectSeq([i \in DOMAIN b.vals |-> i], LAMBDA i : ~about(i, "Store"))
  IN  IF candidates = {} THEN f ELSE [f EXCEPT !.blocks[n].vals = [j \in DOMAIN kept |-> new(kept[j])]]
TupleScalar(f) == FoldLeft(ScalarTuples, f, SelectSeq([n \in DOMAIN f.blocks |-> n], LAMBDA n : TuplesOf(f.blocks[n]) # {}))

\* What reads a copy reads what was copied; terminators are left as they are.
CopyProp(f) ==
  LET at(b, id) == {i \in DOMAIN b.vals : b.vals[i].id = id /\ b.vals[i].op = "Copy"}
      copied(b) == {b.vals[i].id : i \in {i \in DOMAIN b.vals : b.vals[i].op = "Copy"}}
      copies == UNION {copied(f.blocks[n]) : n \in DOMAIN f.blocks}
      home(id) == f.blocks[CHOOSE n \in DOMAIN f.blocks : at(f.blocks[n], id) # {}]
      src == [id \in copies |-> home(id).vals[CHOOSE i \in at(home(id), id) : TRUE].args[1]]
      resolve[id \in Nat] == IF id \in copies THEN resolve[src[id]] ELSE id
      value(v) == [v EXCEPT !.args = [k \in DOMAIN @ |-> resolve[@[k]]]]
      block(b) == EachValue(b, value)
  IN  IF copies = {} THEN f ELSE EachBlock(f, block)

\* What nothing uses is dropped, unless it does something.
\* A call whose result is not used is dropped.
HasSideEffectButCalls == {"Alloc", "Store", "ArraySet", "ListPush", "WriteLocal", "VirtualCall", "IndirectCall", "NativeCall", "ClosureNew"}
HasSideEffect == {"Alloc", "Store", "ArraySet", "ListPush", "WriteLocal", "DirectCall", "VirtualCall", "IndirectCall", "NativeCall", "ClosureNew"}
DeadCode(f) ==
  LET used == UNION {Used(f.blocks[n]) : n \in DOMAIN f.blocks}
      live(v) == v.id \in used \/ v.op \in HasSideEffect
      block(b) == [b EXCEPT !.vals = SelectSeq(@, live)]
  IN  EachBlock(f, block)

\* All passes, again while they change something.
Shape(f) == [n \in DOMAIN f.blocks |-> [i \in DOMAIN f.blocks[n].vals |-> <<f.blocks[n].vals[i].op, f.blocks[n].vals[i].args>>]]
MaxIterations == 33
RECURSIVE Passes(_, _)
Passes(f, n) ==
  LET g == DeadCode(CopyProp(TupleScalar(ConstantFold(f))))
  IN  IF n = 1 \/ Shape(g) = Shape(f) THEN g ELSE Passes(g, n - 1)
Optimize(f) == Passes(f, MaxIterations)
=============================================================================
