----------------------------- MODULE HeapProofs -----------------------------
(***************************************************************************)
(* Proofs about the collector (module Heap), for any set of addresses.     *)
(***************************************************************************)
EXTENDS Heap, TLAPS

\* A program that never starts a second interpreter.
SingleThread == \A t, u \in Thread : t = u

\* A program whose objects all carry a vtable.
Typed == AllocKinds \subseteq {"refs", "leaf"}

USE NoThreadAssumption, NoObjAssumption, KindsAssumption, ThresholdAssumption

-----------------------------------------------------------------------------
(* Stacks.                                                                 *)

LEMMA AppendFacts ==
  ASSUME NEW S, NEW s \in Seq(S), NEW e \in S
  PROVE  /\ Append(s, e) \in Seq(S)
         /\ Len(Append(s, e)) = Len(s) + 1
         /\ Append(s, e)[Len(s) + 1] = e
         /\ \A i \in 1..Len(s) : Append(s, e)[i] = s[i]
         /\ Entries(Append(s, e)) = Entries(s) \cup {e}
<1>1. /\ Append(s, e) \in Seq(S) /\ Len(s) \in Nat
      /\ Len(Append(s, e)) = Len(s) + 1
      /\ Append(s, e)[Len(s) + 1] = e
      /\ \A i \in 1..Len(s) : Append(s, e)[i] = s[i]
  OBVIOUS
<1>2. 1..Len(s) + 1 = (1..Len(s)) \cup {Len(s) + 1}
  BY <1>1
<1> QED BY <1>1, <1>2 DEF Entries

LEMMA PrefixFacts ==
  ASSUME NEW S, NEW s \in Seq(S), NEW n \in Nat, n <= Len(s)
  PROVE  /\ SubSeq(s, 1, n) \in Seq(S)
         /\ Len(SubSeq(s, 1, n)) = n
         /\ \A i \in 1..n : SubSeq(s, 1, n)[i] = s[i]
         /\ Entries(SubSeq(s, 1, n)) \subseteq Entries(s)
<1>1. Len(s) \in Nat /\ 1..n \subseteq 1..Len(s) /\ \A i \in 1..Len(s) : s[i] \in S
  OBVIOUS
<1>2. /\ SubSeq(s, 1, n) \in Seq(S)
      /\ Len(SubSeq(s, 1, n)) = n
      /\ \A i \in 1..n : SubSeq(s, 1, n)[i] = s[i]
  BY <1>1
<1> QED BY <1>1, <1>2 DEF Entries

LEMMA FrontFacts ==
  ASSUME NEW S, NEW s \in Seq(S), s # <<>>
  PROVE  /\ Front(s) \in Seq(S)
         /\ Len(Front(s)) = Len(s) - 1
         /\ \A i \in 1..Len(s) - 1 : Front(s)[i] = s[i]
         /\ Entries(Front(s)) \subseteq Entries(s)
         /\ s[Len(s)] \in S
         /\ s[Len(s)] \in Entries(s)
<1>1. Len(s) \in Nat /\ Len(s) # 0
  OBVIOUS
<1>2. Len(s) - 1 \in Nat /\ Len(s) - 1 <= Len(s) /\ Len(s) \in 1..Len(s)
  BY <1>1
<1>3. s[Len(s)] \in S /\ s[Len(s)] \in Entries(s)
  BY <1>2 DEF Entries
<1> QED BY <1>2, <1>3, PrefixFacts DEF Front

-----------------------------------------------------------------------------
(* What a native holds in its local variable is at its mark in temp_roots. *)
NativesRooted ==
  \A t \in Thread :
    /\ Len(temp_roots[t]) = Len(natives[t])
    /\ \A i \in 1..Len(natives[t]) :
         /\ natives[t][i].mark = i - 1
         /\ natives[t][i].local = temp_roots[t][i]

LEMMA NewNative ==
  ASSUME TypeOK, NEW t \in Thread, NEW a \in Addr
  PROVE  /\ natives[t] \in Seq(Native) /\ temp_roots[t] \in Seq(Addr)
         /\ [local |-> a, mark |-> Len(temp_roots[t])] \in Native
<1>1. natives[t] \in Seq(Native) /\ temp_roots[t] \in Seq(Addr)
  BY DEF TypeOK
<1>2. Len(temp_roots[t]) \in Nat
  BY <1>1
<1> QED BY <1>1, <1>2 DEF Native

LEMMA InitialTypes == Init => TypeOK /\ NativesRooted
<1> SUFFICES ASSUME Init PROVE TypeOK /\ NativesRooted
  OBVIOUS
<1>1. <<>> \in Seq(Native) /\ <<>> \in Seq(Addr) /\ Len(<<>>) = 0
  OBVIOUS
<1>2. TypeOK
  BY <1>1 DEF Init, TypeOK, Kinds
<1>3. NativesRooted
  BY <1>1 DEF Init, NativesRooted
<1> QED BY <1>2, <1>3

LEMMA StepTypes == TypeOK /\ NativesRooted /\ [Next]_vars => TypeOK'
<1> SUFFICES ASSUME TypeOK, NativesRooted, [Next]_vars PROVE TypeOK'
  OBVIOUS
<1>1. CASE UNCHANGED vars
  BY <1>1 DEF TypeOK, vars, heapVars, rootVars, natVars, excVars, gcVars
<1>2. ASSUME NEW t \in Thread, Mutate(t) PROVE TypeOK'
  <2>1. ASSUME NEW a \in Addr, NEW k \in AllocKinds,
               NEW p \in SUBSET frames[t], Alloc(t, a, k, p)
        PROVE  TypeOK'
    BY <2>1 DEF TypeOK, Alloc, natVars, excVars, gcVars
  <2>2. ASSUME NEW a \in Addr, NEW b \in Addr, Store(t, a, b)
        PROVE  TypeOK'
    BY <2>2 DEF TypeOK, Store, rootVars, natVars, excVars, gcVars
  <2>3. ASSUME NEW a \in Addr, NEW b \in Addr, Erase(t, a, b)
        PROVE  TypeOK'
    BY <2>3 DEF TypeOK, Erase, rootVars, natVars, excVars, gcVars
  <2>4. ASSUME NEW a \in Addr, NEW b \in Addr, Load(t, a, b)
        PROVE  TypeOK'
    BY <2>4 DEF TypeOK, Load, heapVars, natVars, excVars, gcVars
  <2>5. ASSUME NEW p \in Place, NEW a \in Addr, PutInt(t, p, a)
        PROVE  TypeOK'
    BY <2>5 DEF TypeOK, PutInt, rootVars, natVars, excVars, gcVars
  <2>6. ASSUME NEW p \in Place, NEW a \in Addr, ClearInt(t, p, a)
        PROVE  TypeOK'
    BY <2>6 DEF TypeOK, ClearInt, rootVars, natVars, excVars, gcVars
  <2>7. ASSUME NEW a \in Addr, DropReg(t, a)
        PROVE  TypeOK'
    BY <2>7 DEF TypeOK, DropReg, heapVars, natVars, excVars, gcVars
  <2>8. ASSUME NEW a \in Addr, Park(t, a)
        PROVE  TypeOK'
    <3> DEFINE native == [local |-> a, mark |-> Len(temp_roots[t])]
    <3>1. /\ Append(natives[t], native) \in Seq(Native)
          /\ Append(temp_roots[t], a) \in Seq(Addr)
      BY NewNative, AppendFacts
    <3>2. /\ natives' \in [Thread -> Seq(Native)]
          /\ temp_roots' \in [Thread -> Seq(Addr)]
      BY <2>8, <3>1 DEF Park, TypeOK
    <3> QED BY <2>8, <3>2 DEF TypeOK, Park, heapVars, excVars, gcVars
  <2>9. ASSUME NEW a \in Addr, Throw(t, a)
        PROVE  TypeOK'
    BY <2>9 DEF TypeOK, Throw, heapVars, natVars, gcVars
  <2>10. ASSUME NEW a \in Addr, GenNext(t, a)
        PROVE  TypeOK'
    BY <2>10 DEF TypeOK, GenNext, IntsAt, Place, natVars, excVars, gcVars
  <2>11. CASE Unpark(t)
    <3> DEFINE native == natives[t][Len(natives[t])]
    <3>1. native \in Native
      BY <2>11, FrontFacts DEF TypeOK, Unpark
    <3>2. native.mark <= Len(temp_roots[t])
      BY <2>11 DEF Unpark, NativesRooted, TypeOK, Native
    <3>3. Truncated(t, native.mark) \in Seq(Addr)
      BY <3>1, <3>2, PrefixFacts DEF Truncated, TypeOK, Native
    <3>4. Front(natives[t]) \in Seq(Native)
      BY <2>11, FrontFacts DEF TypeOK, Unpark
    <3>5. /\ natives' \in [Thread -> Seq(Native)]
          /\ temp_roots' \in [Thread -> Seq(Addr)]
      BY <2>11, <3>3, <3>4 DEF TypeOK, Unpark
    <3>6. native.local \in Addr
      BY <3>1 DEF Native
    <3>7. frames' \in [Thread -> SUBSET Addr]
      BY <2>11, <3>6 DEF TypeOK, Unpark
    <3> QED BY <2>11, <3>5, <3>7 DEF TypeOK, Unpark, heapVars, excVars, gcVars
  <2>12. CASE Catch(t)
    BY <2>12 DEF TypeOK, Catch, ObjSet, heapVars, natVars, gcVars
  <2>13. CASE ToFinally(t)
    BY <2>13 DEF TypeOK, ToFinally, heapVars, natVars, gcVars
  <2>14. CASE Escape(t)
    BY <2>14 DEF TypeOK, Escape, heapVars, natVars, gcVars
  <2>15. CASE EndFinally(t)
    BY <2>15 DEF TypeOK, EndFinally, heapVars, natVars, gcVars
  <2>16. CASE Yield(t)
    <3>1. /\ Front(gen_stack[t]) \in Seq(Addr)
          /\ gen_stack[t][Len(gen_stack[t])] \in Addr
      BY <2>16, FrontFacts DEF TypeOK, Yield
    <3>2. slots' \in [Addr -> SUBSET Addr] /\ frames' \in [Thread -> SUBSET Addr]
      BY <2>16, <3>1 DEF TypeOK, Yield
    <3>3. ints' \subseteq Place \X Addr
      BY <2>16, <3>1 DEF TypeOK, Yield, IntsAt, Place
    <3> QED BY <2>16, <3>1, <3>2, <3>3 DEF TypeOK, Yield, natVars, excVars, gcVars
  <2>17. CASE GenEnd(t)
    BY <2>17, FrontFacts DEF TypeOK, GenEnd, heapVars, natVars, excVars, gcVars
  <2>18. ASSUME NEW a \in Addr, DictSet(t, a)
        PROVE  TypeOK'
    BY <2>18 DEF TypeOK, DictSet, heapVars, natVars, excVars, gcVars
  <2>19. ASSUME NEW a \in Addr, DictGet(t, a)
        PROVE  TypeOK'
    BY <2>19 DEF TypeOK, DictGet, heapVars, natVars, excVars, gcVars
  <2>20. ASSUME NEW a \in Addr, DictRemove(t, a)
        PROVE  TypeOK'
    BY <2>20 DEF TypeOK, DictRemove, heapVars, natVars, excVars, gcVars
  <2>21. ASSUME NEW a \in Addr, Send(t, a)
        PROVE  TypeOK'
    BY <2>21 DEF TypeOK, Send, heapVars, natVars, excVars, gcVars
  <2>22. ASSUME NEW a \in Addr, Receive(t, a)
        PROVE  TypeOK'
    BY <2>22 DEF TypeOK, Receive, heapVars, natVars, excVars, gcVars
  <2> QED BY <1>2, <2>1, <2>2, <2>3, <2>4, <2>5, <2>6, <2>7, <2>8, <2>9,
             <2>10, <2>11, <2>12, <2>13, <2>14, <2>15, <2>16, <2>17,
             <2>18, <2>19, <2>20, <2>21, <2>22 DEF Mutate
<1>3. ASSUME NEW t \in Thread, Collect(t) PROVE TypeOK'
  <2>1. CASE BeginCollect(t)
    BY <2>1 DEF TypeOK, BeginCollect, heapVars, rootVars, natVars, excVars
  <2>2. ASSUME NEW a \in Addr, TraceObject(t, a) PROVE TypeOK'
    BY <2>2 DEF TypeOK, TraceObject, heapVars, rootVars, natVars, excVars
  <2>3. CASE Sweep(t)
    BY <2>3 DEF TypeOK, Sweep, MarksLeft, Kinds, rootVars, natVars, excVars
  <2> QED BY <1>3, <2>1, <2>2, <2>3 DEF Collect
<1> QED BY <1>1, <1>2, <1>3 DEF Next

LEMMA StepNatives == TypeOK /\ NativesRooted /\ [Next]_vars => NativesRooted'
<1> SUFFICES ASSUME TypeOK, NativesRooted, [Next]_vars PROVE NativesRooted'
  OBVIOUS
<1>1. CASE UNCHANGED natVars
  BY <1>1 DEF NativesRooted, natVars
<1>2. ASSUME NEW t \in Thread, NEW a \in Addr, Park(t, a) PROVE NativesRooted'
  <2> DEFINE native == [local |-> a, mark |-> Len(temp_roots[t])]
  <2>1. /\ natives[t] \in Seq(Native) /\ temp_roots[t] \in Seq(Addr)
        /\ native \in Native
    BY NewNative
  <2>2. /\ natives' = [natives EXCEPT ![t] = Append(natives[t], native)]
        /\ temp_roots' = [temp_roots EXCEPT ![t] = Append(temp_roots[t], a)]
    BY <1>2 DEF Park
  <2>3. /\ natives'[t] = Append(natives[t], native)
        /\ temp_roots'[t] = Append(temp_roots[t], a)
        /\ \A u \in Thread \ {t} :
             natives'[u] = natives[u] /\ temp_roots'[u] = temp_roots[u]
    BY <2>2 DEF TypeOK
  <2> DEFINE m == Len(natives[t])
  <2>4. m \in Nat /\ Len(temp_roots[t]) = m
    BY <2>1 DEF NativesRooted
  <2>5. /\ Len(natives'[t]) = m + 1 /\ Len(temp_roots'[t]) = m + 1
        /\ natives'[t][m + 1] = native /\ temp_roots'[t][m + 1] = a
        /\ \A i \in 1..m : natives'[t][i] = natives[t][i] /\
                           temp_roots'[t][i] = temp_roots[t][i]
    BY <2>1, <2>3, <2>4, AppendFacts
  <2>6. \A i \in 1..m : natives[t][i].mark = i - 1 /\
                        natives[t][i].local = temp_roots[t][i]
    BY DEF NativesRooted
  <2> HIDE DEF m
  <2>7. ASSUME NEW i \in 1..m + 1
        PROVE  natives'[t][i].mark = i - 1 /\ natives'[t][i].local = temp_roots'[t][i]
    <3>1. CASE i = m + 1
      BY <2>4, <2>5, <3>1
    <3>2. CASE i \in 1..m
      BY <2>5, <2>6, <3>2
    <3> QED BY <2>4, <3>1, <3>2
  <2>8. ASSUME NEW u \in Thread
        PROVE  /\ Len(temp_roots'[u]) = Len(natives'[u])
               /\ \A i \in 1..Len(natives'[u]) :
                    /\ natives'[u][i].mark = i - 1
                    /\ natives'[u][i].local = temp_roots'[u][i]
    <3>1. CASE u = t
      BY <2>5, <2>7, <3>1
    <3>2. CASE u # t
      BY <2>3, <3>2 DEF NativesRooted
    <3> QED BY <3>1, <3>2
  <2> QED BY <2>8 DEF NativesRooted
<1>3. ASSUME NEW t \in Thread, Unpark(t) PROVE NativesRooted'
  <2> DEFINE m == Len(natives[t])
  <2>1. /\ natives[t] \in Seq(Native) /\ temp_roots[t] \in Seq(Addr)
        /\ natives[t] # <<>>
    BY <1>3 DEF TypeOK, Unpark
  <2>2. m \in Nat /\ m # 0 /\ m - 1 \in Nat /\ m \in 1..m
    BY <2>1
  <2>3. Len(temp_roots[t]) = m /\ natives[t][m].mark = m - 1
    BY <2>2 DEF NativesRooted
  <2>4. /\ natives'[t] = Front(natives[t])
        /\ temp_roots'[t] = SubSeq(temp_roots[t], 1, m - 1)
        /\ \A u \in Thread \ {t} :
             natives'[u] = natives[u] /\ temp_roots'[u] = temp_roots[u]
    BY <1>3, <2>3 DEF Unpark, Truncated, TypeOK
  <2>5. /\ Len(natives'[t]) = m - 1 /\ Len(temp_roots'[t]) = m - 1
        /\ \A i \in 1..m - 1 : natives'[t][i] = natives[t][i] /\
                               temp_roots'[t][i] = temp_roots[t][i]
    <3>1. /\ Len(natives'[t]) = m - 1
          /\ \A i \in 1..m - 1 : natives'[t][i] = natives[t][i]
      <4>1. /\ Len(Front(natives[t])) = m - 1
            /\ \A i \in 1..m - 1 : Front(natives[t])[i] = natives[t][i]
        BY <2>1, FrontFacts
      <4> QED BY <2>4, <4>1
    <3>2. /\ Len(temp_roots'[t]) = m - 1
          /\ \A i \in 1..m - 1 : temp_roots'[t][i] = temp_roots[t][i]
      BY <2>1, <2>2, <2>3, <2>4, PrefixFacts
    <3> QED BY <3>1, <3>2
  <2>6. \A i \in 1..m - 1 : i \in 1..m
    BY <2>2
  <2>7. \A i \in 1..m : natives[t][i].mark = i - 1 /\
                        natives[t][i].local = temp_roots[t][i]
    BY DEF NativesRooted
  <2> HIDE DEF m
  <2>8. ASSUME NEW u \in Thread
        PROVE  /\ Len(temp_roots'[u]) = Len(natives'[u])
               /\ \A i \in 1..Len(natives'[u]) :
                    /\ natives'[u][i].mark = i - 1
                    /\ natives'[u][i].local = temp_roots'[u][i]
    <3>1. CASE u = t
      BY <2>5, <2>6, <2>7, <3>1
    <3>2. CASE u # t
      BY <2>4, <3>2 DEF NativesRooted
    <3> QED BY <3>1, <3>2
  <2> QED BY <2>8 DEF NativesRooted
<1>4. ASSUME NEW t \in Thread, Collect(t) PROVE UNCHANGED natVars
  BY <1>4 DEF Collect, BeginCollect, TraceObject, Sweep, rootVars
<1>5. ASSUME NEW t \in Thread, Mutate(t)
      PROVE  UNCHANGED natVars \/ Unpark(t) \/ \E a \in Addr : Park(t, a)
  BY <1>5 DEF Mutate, Alloc, Store, Erase, Load, PutInt, ClearInt, DropReg, Park,
             Unpark, Throw, Catch, ToFinally, Escape, EndFinally, GenNext, Yield,
             GenEnd, DictSet, DictGet, DictRemove, Send, Receive, rootVars
<1> QED BY <1>1, <1>2, <1>3, <1>4, <1>5 DEF Next, vars, rootVars

\* Every step keeps the state's shape: an address in a register, a table or
\* a mark set is one the allocator returned.
THEOREM TypeCorrect == Spec => []TypeOK
<1>1. Init => TypeOK /\ NativesRooted
  BY InitialTypes
<1>2. TypeOK /\ NativesRooted /\ [Next]_vars => (TypeOK /\ NativesRooted)'
  BY StepTypes, StepNatives
<1> QED BY <1>1, <1>2, PTL DEF Spec

\* Natives that wait for callbacks, however deeply nested, have their pointers
\* parked, each where its own mark says: a truncation drops the roots of the
\* native that ends and of no other.
THEOREM NativesSafe == Spec => []NativesRooted
<1>1. Init => TypeOK /\ NativesRooted
  BY InitialTypes
<1>2. TypeOK /\ NativesRooted /\ [Next]_vars => (TypeOK /\ NativesRooted)'
  BY StepTypes, StepNatives
<1> QED BY <1>1, <1>2, PTL DEF Spec

\* So what the program holds is in the root windows, and nothing else is in
\* them but integers.
LEMMA HeldIsRooted ==
  ASSUME TypeOK, NativesRooted, NEW t \in Thread
  PROVE  Held(t) \subseteq Roots(t) /\ Roots(t) \subseteq Resembling(t)
<1>1. {n.local : n \in Entries(natives[t])} = Entries(temp_roots[t])
  BY DEF NativesRooted, Entries
<1> QED BY <1>1 DEF Held, Roots, Resembling

-----------------------------------------------------------------------------
(* The inductive invariant of the mark phase.                              *)
MarkingInv ==
  /\ marked \subseteq objects
  /\ worklist \subseteq marked
  /\ collector = NoThread => marked = {}
  /\ \A t \in Thread : collector = t =>
       /\ Roots(t) \cap objects \subseteq marked
       /\ \A a \in marked \ worklist : Traced(a) \cap objects \subseteq marked

\* The only thread there is cannot run while it collects.
LEMMA MutatorStops ==
  ASSUME SingleThread, TypeOK, NEW t \in Thread, Mutate(t)
  PROVE  collector = NoThread /\ UNCHANGED gcVars
BY SingleThread
   DEF SingleThread, TypeOK, Running, Mutate, Alloc, Store, Erase, Load,
             PutInt, ClearInt, DropReg, Park, Unpark, Throw, Catch, ToFinally,
             Escape, EndFinally, GenNext, Yield, GenEnd, DictSet, DictGet, DictRemove, Send, Receive

LEMMA SameWords ==
  ASSUME UNCHANGED <<heapVars, rootVars>>, NEW t
  PROVE  /\ Roots(t)' = Roots(t) /\ Held(t)' = Held(t)
         /\ Resembling(t)' = Resembling(t)
         /\ Words' = Words /\ \A a : Traced(a)' = Traced(a)
BY DEF Roots, Held, Resembling, Words, Traced, IntsAt, ObjSet, Entries,
       heapVars, rootVars, natVars, excVars

\* What makes a sweep safe when no other thread runs: the collecting thread's
\* roots are marked from the start of a collection, and (tri-colour) an object
\* that has been traced has no unmarked child.
THEOREM MarkingSafe == ASSUME SingleThread PROVE Spec => []MarkingInv
<1>1. Init => MarkingInv
  BY DEF Init, MarkingInv
<1>2. TypeOK /\ MarkingInv /\ [Next]_vars => MarkingInv'
  <2> SUFFICES ASSUME TypeOK, MarkingInv, [Next]_vars PROVE MarkingInv'
    OBVIOUS
  <2>1. CASE UNCHANGED vars
    BY <2>1, SameWords DEF MarkingInv, vars, heapVars, gcVars
  <2>2. ASSUME NEW t \in Thread, Mutate(t) PROVE MarkingInv'
    <3>1. collector = NoThread /\ UNCHANGED gcVars
      BY <2>2, MutatorStops, SingleThread
    <3> QED BY <3>1 DEF MarkingInv, gcVars
  <2>3. ASSUME NEW t \in Thread, Collect(t) PROVE MarkingInv'
    <3>1. CASE BeginCollect(t)
      <4>1. UNCHANGED <<heapVars, rootVars>>
        BY <3>1 DEF BeginCollect
      <4> QED BY <3>1, <4>1, SameWords, SingleThread
              DEF BeginCollect, MarkingInv, heapVars, SingleThread
    <3>2. ASSUME NEW a \in Addr, TraceObject(t, a) PROVE MarkingInv'
      <4>1. UNCHANGED <<heapVars, rootVars>>
        BY <3>2 DEF TraceObject
      <4> QED BY <3>2, <4>1, SameWords DEF TraceObject, MarkingInv, heapVars
    <3>3. CASE Sweep(t)
      BY <3>3 DEF Sweep, MarksLeft, MarkingInv
    <3> QED BY <2>3, <3>1, <3>2, <3>3 DEF Collect
  <2> QED BY <2>1, <2>2, <2>3 DEF Next
<1> QED BY <1>1, <1>2, TypeCorrect, PTL DEF Spec

-----------------------------------------------------------------------------
(* Nothing in use is freed.                                                *)

\* Every object has a class the collector knows, and one that is not scanned
\* holds no pointer.
TypedInv ==
  \A a \in Addr : kind[a] # "untyped" /\ (kind[a] = "leaf" => slots[a] = {})

\* The collector looks into whatever holds a pointer, if all objects are typed.
THEOREM TypedSafe == ASSUME Typed PROVE Spec => []TypedInv
<1>1. Init => TypedInv
  BY DEF Init, TypedInv
<1>2. TypeOK /\ TypedInv /\ [Next]_vars => TypedInv'
  <2> SUFFICES ASSUME TypeOK, TypedInv, [Next]_vars PROVE TypedInv'
    OBVIOUS
  <2>1. CASE UNCHANGED <<kind, slots>>
    BY <2>1 DEF TypedInv
  <2>2. ASSUME NEW t \in Thread, Mutate(t) PROVE TypedInv'
    <3>1. ASSUME NEW a \in Addr, NEW k \in AllocKinds,
                 NEW p \in SUBSET frames[t], Alloc(t, a, k, p)
          PROVE  TypedInv'
      <4>1. k \in {"refs", "leaf"} /\ p = {}
        BY <3>1, Typed DEF Typed, Alloc
      <4> QED BY <3>1, <4>1 DEF TypedInv, TypeOK, Alloc
    <3>2. ASSUME NEW a \in Addr, NEW b \in Addr, Store(t, a, b) \/ Erase(t, a, b)
          PROVE  TypedInv'
      BY <3>2 DEF TypedInv, TypeOK, Store, Erase
    <3>3. CASE Yield(t)
      BY <3>3 DEF TypedInv, TypeOK, Yield
    <3>4. \/ UNCHANGED <<kind, slots>>
          \/ \E a, b \in Addr : Store(t, a, b) \/ Erase(t, a, b)
          \/ Yield(t)
          \/ \E a \in Addr, k \in AllocKinds, p \in SUBSET frames[t] :
               Alloc(t, a, k, p)
      BY <2>2 DEF Mutate, Load, PutInt, ClearInt, DropReg, Park, Unpark, Throw,
                  Catch, ToFinally, Escape, EndFinally, GenNext, GenEnd,
                  DictSet, DictGet, DictRemove, Send, Receive, heapVars
    <3> QED BY <2>1, <3>1, <3>2, <3>3, <3>4
  <2>3. ASSUME NEW t \in Thread, Collect(t) PROVE TypedInv'
    BY <2>3 DEF Collect, BeginCollect, TraceObject, Sweep, TypedInv, TypeOK,
                heapVars
  <2> QED BY <2>1, <2>2, <2>3 DEF Next, vars, heapVars
<1> QED BY <1>1, <1>2, TypeCorrect, PTL DEF Spec

\* With one interpreter and typed objects, a sweep frees nothing to which
\* pointers lead from the registers, the native activations, the exceptions,
\* the generators and the dicts, even when queued payloads dangle elsewhere.
THEOREM SweepIsSound ==
  ASSUME SingleThread, Typed PROVE Spec => SweepSound
<1>1. TypeOK /\ NativesRooted /\ MarkingInv /\ TypedInv /\ [Next]_vars =>
        [\A t \in Thread : Sweep(t) => Reach(Held(t), slots) \subseteq objects']_vars
  <2> SUFFICES ASSUME TypeOK, NativesRooted, MarkingInv, TypedInv,
                      NEW t \in Thread, Sweep(t)
               PROVE  Reach(Held(t), slots) \subseteq objects'
    OBVIOUS
  <2>1. \A a \in marked : slots[a] \subseteq Traced(a)
    BY DEF TypedInv, TypeOK, Traced, Kinds
  <2>2. ClosedFrom(Held(t), slots, marked)
    BY <2>1, HeldIsRooted DEF Sweep, MarkingInv, ClosedFrom
  <2>3. Reach(Held(t), slots) \subseteq marked
    BY <2>2 DEF Reach, MarkingInv
  <2> QED BY <2>3 DEF Sweep
<1> QED BY <1>1, TypeCorrect, NativesSafe, MarkingSafe, TypedSafe, PTL
        DEF Spec, SweepSound

-----------------------------------------------------------------------------
(* What survives could be needed.                                          *)

\* What is marked is reachable, word by word, from the thread that collects.
MarkedReachable ==
  \A t \in Thread : collector = t => marked \subseteq Reach(Resembling(t), Words)

\* A closed set keeps what is traced from its members inside.
LEMMA ReachStep ==
  ASSUME NEW S, NEW a \in Reach(S, Words), a \in Addr
  PROVE  Traced(a) \cap objects \subseteq Reach(S, Words)
<1> SUFFICES ASSUME NEW b \in Traced(a) \cap objects,
                    NEW C \in SUBSET objects, ClosedFrom(S, Words, C)
             PROVE  b \in C
  BY DEF Reach
<1>1. a \in C
  BY DEF Reach
<1>2. b \in Words[a]
  BY DEF Traced, Words
<1> QED BY <1>1, <1>2 DEF ClosedFrom

\* With one interpreter, a sweep keeps no object but those to which words
\* lead, be they pointers or integers that equal an address, from the words of
\* its roots: nothing is marked but from a root, no cycle keeps itself alive,
\* and no mark is left over from the collection before.
THEOREM SweepIsComplete == ASSUME SingleThread PROVE Spec => SweepComplete
<1>1. Init => MarkedReachable
  BY DEF Init, MarkedReachable
<1>2. TypeOK /\ NativesRooted /\ MarkingInv /\ MarkedReachable /\ [Next]_vars
        => MarkedReachable'
  <2> SUFFICES ASSUME TypeOK, NativesRooted, MarkingInv, MarkedReachable,
                      [Next]_vars
               PROVE  MarkedReachable'
    OBVIOUS
  <2>1. ASSUME UNCHANGED <<heapVars, rootVars>>, NEW t \in Thread
        PROVE  Reach(Resembling(t), Words)' = Reach(Resembling(t), Words)
    <3>1. Resembling(t)' = Resembling(t) /\ Words' = Words
      BY <2>1, SameWords
    <3>2. objects' = objects
      BY <2>1 DEF heapVars
    <3> QED BY <3>1, <3>2 DEF Reach, ClosedFrom
  <2>2. CASE UNCHANGED vars
    BY <2>1, <2>2 DEF MarkedReachable, vars, gcVars
  <2>3. ASSUME NEW t \in Thread, Mutate(t) PROVE MarkedReachable'
    <3>1. collector = NoThread /\ UNCHANGED gcVars
      BY <2>3, MutatorStops, SingleThread
    <3> QED BY <3>1 DEF MarkedReachable, gcVars
  <2>4. ASSUME NEW t \in Thread, BeginCollect(t) PROVE MarkedReachable'
    <3>1. marked' = Roots(t) \cap objects /\ collector' = t
      BY <2>4 DEF BeginCollect, MarkingInv
    <3>2. Roots(t) \cap objects \subseteq Reach(Resembling(t), Words)
      BY HeldIsRooted DEF Reach, ClosedFrom
    <3>3. Reach(Resembling(t), Words)' = Reach(Resembling(t), Words)
      BY <2>1, <2>4 DEF BeginCollect
    <3> QED BY <3>1, <3>2, <3>3 DEF MarkedReachable
  <2>5. ASSUME NEW t \in Thread, NEW a \in Addr, TraceObject(t, a)
        PROVE  MarkedReachable'
    <3>1. collector = t /\ collector' = t /\ a \in Reach(Resembling(t), Words)
      BY <2>5 DEF TraceObject, MarkingInv, MarkedReachable
    <3>2. marked' \subseteq marked \cup (Traced(a) \cap objects)
      BY <2>5 DEF TraceObject
    <3>3. marked' \subseteq Reach(Resembling(t), Words)
      BY <3>1, <3>2, ReachStep DEF MarkedReachable
    <3>4. Reach(Resembling(t), Words)' = Reach(Resembling(t), Words)
      BY <2>1, <2>5 DEF TraceObject
    <3> QED BY <3>1, <3>3, <3>4 DEF MarkedReachable
  <2>6. ASSUME NEW t \in Thread, Sweep(t) PROVE MarkedReachable'
    BY <2>6 DEF Sweep, MarkedReachable
  <2> QED BY <2>2, <2>3, <2>4, <2>5, <2>6 DEF Next, Collect
<1>3. MarkedReachable /\ [Next]_vars =>
        [\A t \in Thread : Sweep(t) =>
           objects' \subseteq Reach(Resembling(t), Words)]_vars
  BY DEF MarkedReachable, Sweep
<1> QED BY <1>1, <1>2, <1>3, TypeCorrect, NativesSafe, MarkingSafe, PTL
        DEF Spec, SweepComplete

-----------------------------------------------------------------------------
(* Nothing dangles.                                                        *)

QueuedInv == ~has_queued => queued = {}

\* With one interpreter and typed objects, and as long as no pointer has been
\* put into a channel, a future or a priority queue, no register, native
\* activation, exception, generator, dict or payload refers to freed memory.
THEOREM NoDanglingPointers ==
  ASSUME SingleThread, Typed PROVE Spec => []NoDangling
<1>1. Init => NoDangling /\ QueuedInv
  BY DEF Init, NoDangling, QueuedInv, Held, ObjSet, Entries
<1>2. TypeOK /\ NativesRooted /\ MarkingInv /\ TypedInv /\ NoDangling /\ QueuedInv
        /\ [Next]_vars => (NoDangling /\ QueuedInv)'
  <2> SUFFICES ASSUME TypeOK, NativesRooted, MarkingInv, TypedInv, NoDangling,
                      QueuedInv, [Next]_vars
               PROVE  (NoDangling /\ QueuedInv)'
    OBVIOUS
  <2> USE DEF NoDangling, QueuedInv
  <2>1. CASE UNCHANGED vars
    BY <2>1, SameWords DEF vars, heapVars, rootVars
  <2>2. ASSUME NEW t \in Thread, Mutate(t) PROVE (NoDangling /\ QueuedInv)'
    <3> USE DEF Held
    <3>1. ASSUME NEW a \in Addr, NEW k \in AllocKinds,
                 NEW p \in SUBSET frames[t], Alloc(t, a, k, p)
          PROVE  (NoDangling /\ QueuedInv)'
      BY <3>1 DEF TypeOK, Alloc, natVars, excVars
    <3>2. ASSUME NEW a \in Addr, NEW b \in Addr, Store(t, a, b)
          PROVE  (NoDangling /\ QueuedInv)'
      BY <3>2 DEF TypeOK, Store, rootVars, natVars, excVars
    <3>3. ASSUME NEW a \in Addr, NEW b \in Addr, Erase(t, a, b)
          PROVE  (NoDangling /\ QueuedInv)'
      BY <3>3 DEF TypeOK, Erase, rootVars, natVars, excVars
    <3>4. ASSUME NEW a \in Addr, NEW b \in Addr, Load(t, a, b)
          PROVE  (NoDangling /\ QueuedInv)'
      BY <3>4 DEF TypeOK, Load, heapVars, natVars, excVars
    <3>5. ASSUME NEW p \in Place, NEW a \in Addr, PutInt(t, p, a)
          PROVE  (NoDangling /\ QueuedInv)'
      BY <3>5 DEF TypeOK, PutInt, rootVars, natVars, excVars
    <3>6. ASSUME NEW p \in Place, NEW a \in Addr, ClearInt(t, p, a)
          PROVE  (NoDangling /\ QueuedInv)'
      BY <3>6 DEF TypeOK, ClearInt, rootVars, natVars, excVars
    <3>7. ASSUME NEW a \in Addr, DropReg(t, a)
          PROVE  (NoDangling /\ QueuedInv)'
      BY <3>7 DEF TypeOK, DropReg, heapVars, natVars, excVars
    <3>8. ASSUME NEW a \in Addr, Park(t, a)
          PROVE  (NoDangling /\ QueuedInv)'
      <4>1. /\ natives[t] \in Seq(Native) /\ temp_roots[t] \in Seq(Addr)
            /\ [local |-> a, mark |-> Len(temp_roots[t])] \in Native
        BY NewNative
      <4>2. Entries(natives'[t]) =
              Entries(natives[t]) \cup {[local |-> a, mark |-> Len(temp_roots[t])]}
        BY <3>8, <4>1, AppendFacts DEF Park, TypeOK
      <4> QED BY <3>8, <4>2 DEF TypeOK, Park, heapVars, excVars
    <3>9. ASSUME NEW a \in Addr, Throw(t, a)
          PROVE  (NoDangling /\ QueuedInv)'
      BY <3>9 DEF TypeOK, Throw, ObjSet, heapVars, natVars
    <3>10. ASSUME NEW a \in Addr, GenNext(t, a)
          PROVE  (NoDangling /\ QueuedInv)'
      <4>1. Entries(Append(gen_stack[t], a)) = Entries(gen_stack[t]) \cup {a}
        BY AppendFacts DEF TypeOK
      <4> QED BY <3>10, <4>1 DEF TypeOK, GenNext, natVars, excVars
    <3>11. CASE Unpark(t)
      <4>1. /\ Entries(Front(natives[t])) \subseteq Entries(natives[t])
            /\ natives[t][Len(natives[t])] \in Entries(natives[t])
        BY <3>11, FrontFacts DEF TypeOK, Unpark
      <4> QED BY <3>11, <4>1 DEF TypeOK, Unpark, heapVars, excVars
    <3>12. CASE Catch(t)
      BY <3>12 DEF TypeOK, Catch, ObjSet, heapVars, natVars
    <3>13. CASE ToFinally(t)
      BY <3>13 DEF TypeOK, ToFinally, ObjSet, heapVars, natVars
    <3>14. CASE Escape(t)
      BY <3>14 DEF TypeOK, Escape, ObjSet, heapVars, natVars
    <3>15. CASE EndFinally(t)
      BY <3>15 DEF TypeOK, EndFinally, ObjSet, heapVars, natVars
    <3>16. CASE Yield(t)
      <4>1. /\ Entries(Front(gen_stack[t])) \subseteq Entries(gen_stack[t])
            /\ gen_stack[t][Len(gen_stack[t])] \in Addr
        BY <3>16, FrontFacts DEF TypeOK, Yield
      <4>2. \A u \in Thread : Held(u)' \subseteq Held(u)
        BY <3>16, <4>1 DEF TypeOK, Yield, natVars, excVars
      <4>3. \A o \in Addr : slots'[o] \subseteq slots[o] \cup frames[t]
        BY <3>16, <4>1 DEF TypeOK, Yield
      <4>4. UNCHANGED <<objects, has_queued, queued>>
        BY <3>16 DEF Yield
      <4> QED BY <4>2, <4>3, <4>4 DEF TypeOK
    <3>17. CASE GenEnd(t)
      <4>1. Entries(Front(gen_stack[t])) \subseteq Entries(gen_stack[t])
        BY <3>17, FrontFacts DEF TypeOK, GenEnd
      <4> QED BY <3>17, <4>1 DEF TypeOK, GenEnd, heapVars, natVars, excVars
    <3>18. ASSUME NEW a \in Addr, DictSet(t, a)
          PROVE  (NoDangling /\ QueuedInv)'
      BY <3>18 DEF TypeOK, DictSet, heapVars, natVars, excVars
    <3>19. ASSUME NEW a \in Addr, DictGet(t, a)
          PROVE  (NoDangling /\ QueuedInv)'
      BY <3>19 DEF TypeOK, DictGet, heapVars, natVars, excVars
    <3>20. ASSUME NEW a \in Addr, DictRemove(t, a)
          PROVE  (NoDangling /\ QueuedInv)'
      BY <3>20 DEF TypeOK, DictRemove, heapVars, natVars, excVars
    <3>21. ASSUME NEW a \in Addr, Send(t, a)
          PROVE  (NoDangling /\ QueuedInv)'
      BY <3>21 DEF Send
    <3>22. ASSUME NEW a \in Addr, Receive(t, a)
          PROVE  (NoDangling /\ QueuedInv)'
      BY <3>22 DEF TypeOK, Receive, heapVars, natVars, excVars
    <3> QED BY <2>2, <3>1, <3>2, <3>3, <3>4, <3>5, <3>6, <3>7, <3>8, <3>9,
               <3>10, <3>11, <3>12, <3>13, <3>14, <3>15, <3>16, <3>17,
               <3>18, <3>19, <3>20, <3>21, <3>22 DEF Mutate
  <2>3. ASSUME NEW t \in Thread, Collect(t) PROVE (NoDangling /\ QueuedInv)'
    <3>1. CASE BeginCollect(t)
      BY <3>1, SameWords DEF BeginCollect, heapVars, rootVars
    <3>2. ASSUME NEW a \in Addr, TraceObject(t, a)
          PROVE  (NoDangling /\ QueuedInv)'
      BY <3>2, SameWords DEF TraceObject, heapVars, rootVars
    <3>3. CASE Sweep(t)
      <4>1. has_queued' = has_queued /\ queued' = queued
        BY <3>3 DEF Sweep, rootVars
      <4>2. \A u \in Thread : Held(u)' = Held(u)
        BY <3>3 DEF Sweep, Held, rootVars, natVars, excVars
      <4>3. \A u \in Thread : Held(u) \cap objects \subseteq marked
        BY <3>3, HeldIsRooted, SingleThread DEF Sweep, MarkingInv, SingleThread
      <4>4. \A a \in marked : slots[a] \cap objects \subseteq marked
        BY <3>3 DEF Sweep, MarkingInv, TypedInv, TypeOK, Traced, Kinds
      <4>5. /\ \A a \in marked : slots'[a] = slots[a]
            /\ objects' = marked
        BY <3>3 DEF Sweep, TypeOK
      <4> QED BY <4>1, <4>2, <4>3, <4>4, <4>5 DEF MarkingInv
    <3> QED BY <2>3, <3>1, <3>2, <3>3 DEF Collect
  <2> QED BY <2>1, <2>2, <2>3 DEF Next
<1> QED BY <1>1, <1>2, TypeCorrect, NativesSafe, MarkingSafe, TypedSafe, PTL DEF Spec
=============================================================================
