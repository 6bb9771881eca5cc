----------------------------- MODULE FrameProofs -----------------------------
(***************************************************************************)
(* Lemmas about the calls on data frames (modules Columns to Loading), for *)
(* any columns and frames, of any size.                                    *)
(*                                                                         *)
(* Two columns, indexes or frames are twins when they differ at most under *)
(* their null cells.  After lists and sorts, a lemma for each call shows   *)
(* that it answers twins of twins: frames that are well formed, in which   *)
(* nothing that lay under a null can be read.  The theorems about sessions *)
(* rest on them (module NotebookProofs).                                   *)
(*                                                                         *)
(* The provers have no induction over an operator, so what is defined by   *)
(* recursion over a list is reasoned about by the set of the positions up  *)
(* to which a property holds: the least one beyond it is a contradiction.  *)
(***************************************************************************)
EXTENDS Notebook, WellFoundedInduction, NaturalsInduction, TLAPS

(* A set of numbers that is not empty has a least one. *)
LEMMA LeastNatural ==
  ASSUME NEW T \in SUBSET Nat, T # {}
  PROVE  \E x \in T : \A y \in T : x <= y
<1> DEFINE R == {ss \in Nat \X Nat : ss[1] < ss[2]}
<1>1. OpToRel(<, Nat) = R BY DEF OpToRel
<1>2. IsWellFoundedOn(R, Nat) BY <1>1, NatLessThanWellFounded, Zenon
<1> HIDE DEF R
<1>3. PICK x \in T : \A y \in T : <<y, x>> \notin R BY <1>2, WFMin, Zenon
<1>4. ASSUME NEW y \in T PROVE x <= y
  <2>1. <<y, x>> \in Nat \X Nat /\ <<y, x>> \notin R BY <1>3
  <2>2. ~(y < x) BY <2>1 DEF R
  <2>3. QED BY <2>2
<1>5. QED BY <1>4

(* Induction up to n, over the set of the numbers that have the property. *)
LEMMA UpTo ==
  ASSUME NEW n \in Nat, NEW T, 0 \in T, \A k \in 1..n : k - 1 \in T => k \in T
  PROVE  \A k \in 0..n : k \in T
<1> DEFINE Left == {k \in 0..n : k \notin T}
<1>1. CASE Left = {} BY <1>1
<1>2. CASE Left # {}
  <2>1. Left \in SUBSET Nat OBVIOUS
  <2>2. PICK x \in Left : \A y \in Left : x <= y BY <2>1, <1>2, LeastNatural
  <2>3. x \in 1..n BY <2>2
  <2>4. x - 1 \in 0..n /\ x - 1 \notin Left BY <2>2, <2>3
  <2>5. QED BY <2>2, <2>3, <2>4
<1>3. QED BY <1>1, <1>2

------------------------------------------------------------------------------
(* Lists. *)

(* A function over 1..n is a list of n members. *)
LEMMA ListIntro ==
  ASSUME NEW n \in Nat, NEW s, s = [i \in 1..n |-> s[i]]
  PROVE  IsList(s) /\ Len(s) = n /\ DOMAIN s = 1..n
<1>1. s \in Seq(ToSet(s)) BY DEF ToSet
<1>2. QED BY <1>1 DEF IsList

(* A list is the function of its members over the positions up to its *)
(* length.                                                            *)
LEMMA ListElim ==
  ASSUME NEW s, IsList(s)
  PROVE  /\ Len(s) \in Nat
         /\ DOMAIN s = 1..Len(s)
         /\ s = [i \in 1..Len(s) |-> s[i]]
BY DEF IsList

(* The list with no members. *)
LEMMA EmptyList == /\ IsList(<<>>) /\ Len(<<>>) = 0 /\ ToSet(<<>>) = {} /\ DOMAIN <<>> = {}
BY DEF IsList, ToSet

(* The list of one member. *)
LEMMA OneList == ASSUME NEW x PROVE /\ IsList(<<x>>) /\ Len(<<x>>) = 1 /\ ToSet(<<x>>) = {x}
BY DEF IsList, ToSet

(* What a list holds is at one of its positions. *)
LEMMA MemberOfList ==
  ASSUME NEW s, IsList(s), NEW x
  PROVE  x \in ToSet(s) <=> \E i \in 1..Len(s) : s[i] = x
BY ListElim DEF ToSet

(* A list after another: the length, the members at each place and the set *)
(* of the members.                                                         *)
LEMMA ConcatList ==
  ASSUME NEW a, NEW b, IsList(a), IsList(b)
  PROVE  /\ IsList(a \o b)
         /\ Len(a \o b) = Len(a) + Len(b)
         /\ \A i \in 1..Len(a) : (a \o b)[i] = a[i]
         /\ \A i \in 1..Len(b) : (a \o b)[Len(a) + i] = b[i]
         /\ ToSet(a \o b) = ToSet(a) \union ToSet(b)
<1> DEFINE S == ToSet(a) \union ToSet(b)
<1>1. a \in Seq(S) /\ b \in Seq(S)
  <2>1. a \in Seq(ToSet(a)) /\ b \in Seq(ToSet(b)) BY DEF IsList
  <2>2. QED BY <2>1
<1>2. a \o b \in Seq(S) /\ Len(a \o b) = Len(a) + Len(b) BY <1>1
<1>3. \A i \in 1..Len(a) : (a \o b)[i] = a[i] BY <1>1
<1>4. \A i \in 1..Len(b) : (a \o b)[Len(a) + i] = b[i] BY <1>1
<1>5. \A i \in 1..Len(a \o b) : i \in 1..Len(a) \/ \E j \in 1..Len(b) : i = Len(a) + j
  <2>1. Len(a) \in Nat /\ Len(b) \in Nat BY <1>1
  <2> TAKE i \in 1..Len(a \o b)
  <2>2. CASE i > Len(a)
    <3>1. i - Len(a) \in 1..Len(b) /\ i = Len(a) + (i - Len(a)) BY <1>2, <2>1, <2>2
    <3>2. QED BY <3>1
  <2>3. QED BY <2>1, <2>2
<1>6. ToSet(a \o b) = S
  <2>1. DOMAIN (a \o b) = 1..Len(a \o b) /\ DOMAIN a = 1..Len(a) /\ DOMAIN b = 1..Len(b) BY <1>1, <1>2
  <2>2. ASSUME NEW i \in 1..Len(a \o b) PROVE (a \o b)[i] \in S
    <3>1. CASE i \in 1..Len(a)
      <4>1. a[i] \in ToSet(a) BY <2>1, <3>1 DEF ToSet
      <4>2. QED BY <1>3, <3>1, <4>1
    <3>2. CASE \E j \in 1..Len(b) : i = Len(a) + j
      <4>1. PICK j \in 1..Len(b) : i = Len(a) + j BY <3>2
      <4>2. b[j] \in ToSet(b) BY <2>1 DEF ToSet
      <4>3. QED BY <1>4, <4>1, <4>2
    <3>3. QED BY <1>5, <3>1, <3>2
  <2>3. ToSet(a) \subseteq ToSet(a \o b)
    <3>1. 1..Len(a) \subseteq 1..Len(a \o b) BY <1>1, <1>2
    <3>2. QED BY <2>1, <3>1, <1>3 DEF ToSet
  <2>4. ToSet(b) \subseteq ToSet(a \o b)
    <3>1. \A i \in 1..Len(b) : Len(a) + i \in 1..Len(a \o b) BY <1>1, <1>2
    <3>2. QED BY <2>1, <3>1, <1>4 DEF ToSet
  <2>5. ToSet(a \o b) \subseteq S BY <2>1, <2>2 DEF ToSet
  <2>6. QED BY <2>3, <2>4, <2>5
<1>7. IsList(a \o b) BY <1>2, <1>6 DEF IsList
<1>8. QED BY <1>2, <1>3, <1>4, <1>6, <1>7

------------------------------------------------------------------------------
(* FlattenSeq, by way of what it has gathered after each of its lists.      *)

(* P gives, after each of the lists, what they hold one after another. *)
Gathers(ss, P) ==
  /\ P[0] = <<>>
  /\ \A k \in 1..Len(ss) : P[k] = P[k - 1] \o ss[k]
  /\ P[Len(ss)] = FlattenSeq(ss)

(* There is such a function: the one that a recursion over the lists *)
(* defines.                                                          *)
LEMMA FlattenGathers ==
  ASSUME NEW ss, IsList(ss), \A k \in 1..Len(ss) : IsList(ss[k])
  PROVE  \E P : Gathers(ss, P)
<1> DEFINE n == Len(ss)
           Flat(m, f) == f = [i \in 1..m |-> IF i = 1 THEN ss[i] ELSE f[i - 1] \o ss[i]]
<1>1. n \in Nat BY ListElim
<1>2. CASE n = 0
  <2>1. ss = <<>> BY <1>2, ListElim
  <2>2. FlattenSeq(ss) = <<>> BY <1>2, <2>1 DEF FlattenSeq
  <2>3. Gathers(ss, [k \in 0..0 |-> <<>>]) BY <1>2, <2>2 DEF Gathers
  <2>4. QED BY <2>3
<1>3. CASE n # 0
  <2> DEFINE T == {m \in 0..n : \E f : Flat(m, f)}
  <2>1. 0 \in T
    <3> DEFINE e == [i \in 1..0 |-> 0]
    <3>1. Flat(0, e) OBVIOUS
    <3> HIDE DEF Flat
    <3>2. \E f : Flat(0, f) BY <3>1
    <3>3. QED BY <3>2, <1>1
  <2>2. \A m \in 1..n : m - 1 \in T => m \in T
    <3> SUFFICES ASSUME NEW m \in 1..n, m - 1 \in T PROVE \E f : Flat(m, f)
      <4> HIDE DEF Flat
      <4>1. QED BY <1>1
    <3>1. PICK f : Flat(m - 1, f)
      <4> HIDE DEF Flat
      <4>1. QED OBVIOUS
    <3> DEFINE g == [i \in 1..m |-> IF i = m THEN (IF i = 1 THEN ss[i] ELSE f[i - 1] \o ss[i]) ELSE f[i]]
    <3>2. ASSUME NEW i \in 1..m
          PROVE  g[i] = IF i = 1 THEN ss[i] ELSE g[i - 1] \o ss[i]
      <4>1. CASE i = m
        <5>1. i # 1 => i - 1 \in 1..m /\ i - 1 # m BY <4>1, <1>1
        <5>2. i # 1 => g[i - 1] = f[i - 1] BY <5>1
        <5>3. QED BY <4>1, <5>2
      <4>2. CASE i # m
        <5>1. i \in 1..(m - 1) BY <4>2, <1>1
        <5>2. f[i] = IF i = 1 THEN ss[i] ELSE f[i - 1] \o ss[i] BY <3>1, <5>1
        <5>3. i # 1 => i - 1 \in 1..m /\ i - 1 # m BY <5>1, <1>1
        <5>4. i # 1 => g[i - 1] = f[i - 1] BY <5>3
        <5>5. g[i] = f[i] BY <4>2
        <5>6. QED BY <5>2, <5>4, <5>5
      <4>3. QED BY <4>1, <4>2
    <3> HIDE DEF g
    <3>3. g = [i \in 1..m |-> g[i]] BY DEF g
    <3>4. Flat(m, g) BY <3>2, <3>3
    <3>5. QED BY <3>4
  <2> HIDE DEF T
  <2>3. n \in T BY <1>1, <2>1, <2>2, UpTo
  <2>4. \E f : Flat(n, f) BY <2>3 DEF T
  <2> DEFINE F == CHOOSE f : Flat(n, f)
  <2>5. Flat(n, F) BY <2>4
  <2>6. FlattenSeq(ss) = F[n] BY <1>3 DEF FlattenSeq
  <2> HIDE DEF F
  <2> DEFINE P == [k \in 0..n |-> IF k = 0 THEN <<>> ELSE F[k]]
  <2>7. ASSUME NEW k \in 1..n PROVE P[k] = P[k - 1] \o ss[k]
    <3>1. P[k] = F[k] BY <1>1
    <3>2. F[k] = IF k = 1 THEN ss[k] ELSE F[k - 1] \o ss[k] BY <2>5
    <3>3. CASE k = 1
      <4>1. P[k - 1] = <<>> BY <3>3, <1>1
      <4>2. IsList(ss[k]) OBVIOUS
      <4>3. <<>> \o ss[k] = ss[k] BY <4>2 DEF IsList
      <4>4. QED BY <3>1, <3>2, <3>3, <4>1, <4>3
    <3>4. CASE k # 1
      <4>1. k - 1 \in 0..n /\ k - 1 # 0 BY <3>4, <1>1
      <4>2. P[k - 1] = F[k - 1] BY <4>1
      <4>3. QED BY <3>1, <3>2, <3>4, <4>2
    <3>5. QED BY <3>3, <3>4
  <2>8. P[0] = <<>> /\ P[n] = F[n] BY <1>1, <1>3
  <2>9. Gathers(ss, P) BY <2>6, <2>7, <2>8 DEF Gathers
  <2>10. QED BY <2>9
<1>4. QED BY <1>2, <1>3

(* The flattening of lists is a list, of all that they hold. *)
LEMMA FlattenList ==
  ASSUME NEW ss, IsList(ss), \A k \in 1..Len(ss) : IsList(ss[k])
  PROVE  /\ IsList(FlattenSeq(ss))
         /\ ToSet(FlattenSeq(ss)) = UNION {ToSet(ss[k]) : k \in 1..Len(ss)}
<1> DEFINE n == Len(ss)
<1>1. n \in Nat BY ListElim
<1>2. PICK P : Gathers(ss, P) BY FlattenGathers
<1> DEFINE Upto(k) == UNION {ToSet(ss[j]) : j \in 1..k}
           Good(k) == IsList(P[k]) /\ ToSet(P[k]) = Upto(k)
           T == {k \in 0..n : Good(k)}
<1>3. Good(0)
  <2>1. P[0] = <<>> BY <1>2 DEF Gathers
  <2>2. QED BY <1>1, <2>1, EmptyList
<1>4. ASSUME NEW k \in 1..n, Good(k - 1) PROVE Good(k)
  <2>1. P[k] = P[k - 1] \o ss[k] /\ IsList(P[k - 1]) /\ IsList(ss[k]) BY <1>2, <1>4 DEF Gathers
  <2>2. ToSet(P[k]) = Upto(k - 1) \union ToSet(ss[k]) /\ IsList(P[k]) BY <1>4, <2>1, ConcatList
  <2>3. 1..k = 1..(k - 1) \union {k} BY <1>1
  <2>4. Upto(k) = Upto(k - 1) \union ToSet(ss[k]) BY <2>3
  <2>5. QED BY <2>2, <2>4
<1> HIDE DEF Good
<1>5. n \in T
  <2>1. 0 \in T BY <1>1, <1>3
  <2>2. \A k \in 1..n : k - 1 \in T => k \in T BY <1>1, <1>4
  <2> HIDE DEF T, n
  <2>3. \A k \in 0..n : k \in T BY <1>1, <2>1, <2>2, UpTo
  <2>4. QED BY <1>1, <2>3
<1>7. P[n] = FlattenSeq(ss) BY <1>2 DEF Gathers
<1>8. QED BY <1>5, <1>7 DEF Good, T

(* Two lists of lists of the same lengths, whose members at the same places *)
(* are related, have related members at the same places when flattened.     *)
LEMMA FlattenPairs ==
  ASSUME NEW ss, IsList(ss), \A k \in 1..Len(ss) : IsList(ss[k]),
         NEW tt, IsList(tt), \A k \in 1..Len(tt) : IsList(tt[k]),
         Len(ss) = Len(tt), NEW R,
         \A k \in 1..Len(ss) : /\ Len(ss[k]) = Len(tt[k])
                               /\ \A i \in 1..Len(ss[k]) : <<ss[k][i], tt[k][i]>> \in R
  PROVE  /\ Len(FlattenSeq(ss)) = Len(FlattenSeq(tt))
         /\ \A i \in 1..Len(FlattenSeq(ss)) : <<FlattenSeq(ss)[i], FlattenSeq(tt)[i]>> \in R
<1> DEFINE n == Len(ss)
<1>1. n \in Nat BY ListElim
<1>2. PICK P : Gathers(ss, P) BY FlattenGathers
<1>3. PICK Q : Gathers(tt, Q) BY FlattenGathers
<1> DEFINE Alike(a, b) == /\ IsList(a) /\ IsList(b) /\ Len(a) = Len(b)
                          /\ \A i \in 1..Len(a) : <<a[i], b[i]>> \in R
           Good(k) == Alike(P[k], Q[k])
           T == {k \in 0..n : Good(k)}
<1>4. Good(0)
  <2>1. P[0] = <<>> /\ Q[0] = <<>> BY <1>2, <1>3 DEF Gathers
  <2>2. QED BY <1>1, <2>1, EmptyList
<1>5. ASSUME NEW k \in 1..n, Good(k - 1) PROVE Good(k)
  <2> DEFINE a == P[k - 1]  b == Q[k - 1]  c == ss[k]  d == tt[k]
  <2>1. P[k] = a \o c /\ Q[k] = b \o d BY <1>2, <1>3 DEF Gathers
  <2>2. Alike(a, b) /\ Alike(c, d) BY <1>5
  <2> HIDE DEF a, b, c, d
  <2>a. IsList(a) /\ IsList(b) /\ IsList(c) /\ IsList(d) BY <2>2
  <2>3. /\ IsList(a \o c) /\ Len(a \o c) = Len(a) + Len(c)
        /\ \A i \in 1..Len(a) : (a \o c)[i] = a[i]
        /\ \A i \in 1..Len(c) : (a \o c)[Len(a) + i] = c[i]
    BY <2>a, ConcatList
  <2>4. /\ IsList(b \o d) /\ Len(b \o d) = Len(b) + Len(d)
        /\ \A i \in 1..Len(b) : (b \o d)[i] = b[i]
        /\ \A i \in 1..Len(d) : (b \o d)[Len(b) + i] = d[i]
    BY <2>a, ConcatList
  <2>5. Len(a) \in Nat /\ Len(c) \in Nat BY <2>2, ListElim
  <2>6. ASSUME NEW i \in 1..Len(a \o c) PROVE <<(a \o c)[i], (b \o d)[i]>> \in R
    <3>1. CASE i \in 1..Len(a)
      <4>1. (a \o c)[i] = a[i] /\ (b \o d)[i] = b[i] BY <3>1, <2>2, <2>3, <2>4
      <4>2. QED BY <4>1, <3>1, <2>2
    <3>2. CASE i \notin 1..Len(a)
      <4>1. i - Len(a) \in 1..Len(c) /\ i = Len(a) + (i - Len(a)) BY <3>2, <2>3, <2>5
      <4>2. PICK j \in 1..Len(c) : i = Len(a) + j BY <4>1
      <4>3. (a \o c)[i] = c[j] /\ (b \o d)[i] = d[j] BY <4>2, <2>2, <2>3, <2>4
      <4>4. QED BY <4>2, <4>3, <2>2
    <3>3. QED BY <3>1, <3>2
  <2>7. QED BY <2>1, <2>2, <2>3, <2>4, <2>6
<1> HIDE DEF Good
<1>6. n \in T
  <2>1. 0 \in T BY <1>1, <1>4
  <2>2. \A k \in 1..n : k - 1 \in T => k \in T BY <1>1, <1>5
  <2> HIDE DEF T, n
  <2>3. \A k \in 0..n : k \in T BY <1>1, <2>1, <2>2, UpTo
  <2>4. QED BY <1>1, <2>3
<1>8. P[n] = FlattenSeq(ss) /\ Q[n] = FlattenSeq(tt) BY <1>2, <1>3 DEF Gathers
<1>9. QED BY <1>6, <1>8 DEF Good, T

------------------------------------------------------------------------------
(* The members of a list that are in a set. *)

(* Each member as a list of one if the filter keeps it, of none if not. *)
AmongParts(seq, S) == [k \in DOMAIN seq |-> IF seq[k] \in S THEN <<seq[k]>> ELSE <<>>]

(* Each member is kept as a list of one or dropped as a list of none. *)
LEMMA AmongPartsLists ==
  ASSUME NEW seq, IsList(seq), NEW S
  PROVE  /\ IsList(AmongParts(seq, S)) /\ Len(AmongParts(seq, S)) = Len(seq)
         /\ \A k \in 1..Len(seq) :
              /\ AmongParts(seq, S)[k] = IF seq[k] \in S THEN <<seq[k]>> ELSE <<>>
              /\ IsList(AmongParts(seq, S)[k])
<1> DEFINE A == AmongParts(seq, S)
<1>1. Len(seq) \in Nat /\ DOMAIN seq = 1..Len(seq) BY ListElim
<1>2. A = [k \in 1..Len(seq) |-> A[k]] BY <1>1 DEF AmongParts
<1>3. IsList(A) /\ Len(A) = Len(seq) BY <1>1, <1>2, ListIntro
<1>4. \A k \in 1..Len(seq) : A[k] = IF seq[k] \in S THEN <<seq[k]>> ELSE <<>>
  BY <1>1 DEF AmongParts
<1>5. \A k \in 1..Len(seq) : IsList(A[k]) BY <1>4, OneList, EmptyList
<1>6. QED BY <1>3, <1>4, <1>5

(* The members that a filter keeps are those in the set, as a list. *)
LEMMA AmongFacts ==
  ASSUME NEW seq, IsList(seq), NEW S
  PROVE  /\ IsList(Among(seq, S))
         /\ ToSet(Among(seq, S)) = ToSet(seq) \intersect S
<1> DEFINE A == AmongParts(seq, S)
<1>1. Len(seq) \in Nat /\ DOMAIN seq = 1..Len(seq) BY ListElim
<1>2. /\ IsList(A) /\ Len(A) = Len(seq)
      /\ \A k \in 1..Len(seq) : IsList(A[k]) /\ A[k] = IF seq[k] \in S THEN <<seq[k]>> ELSE <<>>
  BY AmongPartsLists
<1>3. Among(seq, S) = FlattenSeq(A) BY DEF Among, AmongParts
<1> HIDE DEF A
<1>4. IsList(FlattenSeq(A)) /\ ToSet(FlattenSeq(A)) = UNION {ToSet(A[k]) : k \in 1..Len(A)}
  BY <1>2, FlattenList
<1>5. ASSUME NEW k \in 1..Len(seq) PROVE ToSet(A[k]) = {seq[k]} \intersect S
  <2> DEFINE x == seq[k]
  <2>1. A[k] = IF x \in S THEN <<x>> ELSE <<>> BY <1>2
  <2> HIDE DEF x
  <2>2. CASE x \in S
    <3>1. ToSet(A[k]) = {x} BY <2>1, <2>2, OneList
    <3>2. QED BY <2>2, <3>1 DEF x
  <2>3. CASE x \notin S
    <3>1. ToSet(A[k]) = {} BY <2>1, <2>3, EmptyList
    <3>2. QED BY <2>3, <3>1 DEF x
  <2>4. QED BY <2>2, <2>3
<1>6. UNION {ToSet(A[k]) : k \in 1..Len(A)} = ToSet(seq) \intersect S
  BY <1>1, <1>2, <1>5 DEF ToSet
<1>7. QED BY <1>3, <1>4, <1>6

(* The list of the row numbers of a frame of n rows. *)
LEMMA RowsList ==
  ASSUME NEW n \in Nat
  PROVE  IsList(Rows(n)) /\ Len(Rows(n)) = n /\ ToSet(Rows(n)) = 1..n /\ DOMAIN Rows(n) = 1..n
<1>1. Rows(n) = [i \in 1..n |-> Rows(n)[i]] BY DEF Rows
<1>2. IsList(Rows(n)) /\ Len(Rows(n)) = n BY <1>1, ListIntro
<1>3. ToSet(Rows(n)) = 1..n BY DEF Rows, ToSet
<1>4. QED BY <1>2, <1>3, ListElim

(* The rows in a set, as the loops over the rows push them. *)
LEMMA RowsInFacts ==
  ASSUME NEW n \in Nat, NEW S
  PROVE  IsList(RowsIn(n, S)) /\ ToSet(RowsIn(n, S)) = (1..n) \intersect S
BY RowsList, AmongFacts DEF RowsIn

(* Two sets that share out the members of a list share out its length. *)
LEMMA AmongShares ==
  ASSUME NEW seq, IsList(seq), NEW S, NEW U,
         \A k \in 1..Len(seq) : (seq[k] \in S) # (seq[k] \in U)
  PROVE  Len(Among(seq, S)) + Len(Among(seq, U)) = Len(seq)
<1> DEFINE n == Len(seq)  A == AmongParts(seq, S)  B == AmongParts(seq, U)
<1>1. n \in Nat BY ListElim
<1>2. /\ IsList(A) /\ Len(A) = n
      /\ \A k \in 1..n : IsList(A[k]) /\ A[k] = IF seq[k] \in S THEN <<seq[k]>> ELSE <<>>
  BY AmongPartsLists
<1>3. /\ IsList(B) /\ Len(B) = n
      /\ \A k \in 1..n : IsList(B[k]) /\ B[k] = IF seq[k] \in U THEN <<seq[k]>> ELSE <<>>
  BY AmongPartsLists
<1> HIDE DEF n, A, B
<1>4. PICK P : Gathers(A, P) BY <1>2, FlattenGathers
<1>5. PICK Q : Gathers(B, Q) BY <1>3, FlattenGathers
<1> DEFINE Good(k) == IsList(P[k]) /\ IsList(Q[k]) /\ Len(P[k]) + Len(Q[k]) = k
           T == {k \in 0..n : Good(k)}
<1>6. Good(0)
  <2>1. P[0] = <<>> /\ Q[0] = <<>> BY <1>4, <1>5 DEF Gathers
  <2>2. QED BY <1>1, <2>1, EmptyList
<1>7. ASSUME NEW k \in 1..n, Good(k - 1) PROVE Good(k)
  <2>1. P[k] = P[k - 1] \o A[k] /\ Q[k] = Q[k - 1] \o B[k] BY <1>2, <1>3, <1>4, <1>5 DEF Gathers
  <2>2. IsList(P[k]) /\ Len(P[k]) = Len(P[k - 1]) + Len(A[k]) BY <2>1, <1>2, <1>7, ConcatList
  <2>3. IsList(Q[k]) /\ Len(Q[k]) = Len(Q[k - 1]) + Len(B[k]) BY <2>1, <1>3, <1>7, ConcatList
  <2>4. (seq[k] \in S) # (seq[k] \in U) BY DEF n
  <2>8. Len(A[k]) + Len(B[k]) = 1
    <3>1. CASE seq[k] \in S
      <4>1. A[k] = <<seq[k]>> /\ B[k] = <<>> BY <1>2, <1>3, <2>4, <3>1
      <4>2. QED BY <4>1
    <3>2. CASE seq[k] \notin S
      <4>1. A[k] = <<>> /\ B[k] = <<seq[k]>> BY <1>2, <1>3, <2>4, <3>2
      <4>2. QED BY <4>1
    <3>3. QED BY <3>1, <3>2
  <2>5. /\ Len(A[k]) \in Nat /\ Len(B[k]) \in Nat
        /\ Len(P[k - 1]) \in Nat /\ Len(Q[k - 1]) \in Nat BY <1>2, <1>3, <1>7, ListElim
  <2>6. Len(P[k - 1]) + Len(Q[k - 1]) = k - 1 BY <1>7
  <2>9. Len(P[k]) + Len(Q[k]) = k
    <3> DEFINE p == Len(P[k - 1])  q == Len(Q[k - 1])  a == Len(A[k])  b == Len(B[k])
    <3>1. p \in Nat /\ q \in Nat /\ a \in Nat /\ b \in Nat /\ k \in Int BY <2>5, <1>1
    <3>2. a + b = 1 /\ p + q = k - 1 BY <2>8, <2>6
    <3> HIDE DEF p, q, a, b
    <3>3. (p + a) + (q + b) = k BY <3>1, <3>2
    <3>4. QED BY <3>3, <2>2, <2>3 DEF p, q, a, b
  <2>10. QED BY <2>2, <2>3, <2>9
<1> HIDE DEF Good
<1>8. n \in T
  <2>1. 0 \in T BY <1>1, <1>6
  <2>2. \A k \in 1..n : k - 1 \in T => k \in T BY <1>1, <1>7
  <2> HIDE DEF T, n
  <2>3. \A k \in 0..n : k \in T BY <1>1, <2>1, <2>2, UpTo
  <2>4. QED BY <1>1, <2>3
<1>10. P[n] = Among(seq, S) /\ Q[n] = Among(seq, U)
  BY <1>2, <1>3, <1>4, <1>5 DEF Gathers, Among, AmongParts, A, B
<1>11. QED BY <1>8, <1>10 DEF Good, T, n

(* A filter that every member passes changes nothing. *)
LEMMA AmongAll ==
  ASSUME NEW seq, IsList(seq), NEW S, \A k \in 1..Len(seq) : seq[k] \in S
  PROVE  Among(seq, S) = seq
<1> DEFINE n == Len(seq)  A == AmongParts(seq, S)
<1>1. n \in Nat /\ seq = [i \in 1..n |-> seq[i]] BY ListElim
<1>2. IsList(A) /\ Len(A) = n /\ \A k \in 1..n : IsList(A[k]) /\ A[k] = <<seq[k]>>
  BY AmongPartsLists
<1>3. Among(seq, S) = FlattenSeq(A) BY DEF Among, AmongParts
<1> HIDE DEF A, n
<1>4. PICK P : Gathers(A, P) BY <1>2, FlattenGathers
<1> DEFINE Good(k) == /\ IsList(P[k]) /\ Len(P[k]) = k
                      /\ \A i \in 1..k : P[k][i] = seq[i]
           T == {k \in 0..n : Good(k)}
<1>5. Good(0)
  <2>1. P[0] = <<>> BY <1>4 DEF Gathers
  <2>2. QED BY <1>1, <2>1, EmptyList
<1>6. ASSUME NEW k \in 1..n, Good(k - 1) PROVE Good(k)
  <2> DEFINE p == P[k - 1]  s == <<seq[k]>>
  <2>1. P[k] = p \o s BY <1>2, <1>4 DEF Gathers
  <2>2. Len(p) = k - 1 /\ \A i \in 1..(k - 1) : p[i] = seq[i] BY <1>6
  <2>3. Len(s) = 1 /\ s[1] = seq[k] OBVIOUS
  <2>10. IsList(p) /\ IsList(s) BY <1>6, OneList
  <2> HIDE DEF p, s
  <2>4. /\ IsList(p \o s) /\ Len(p \o s) = Len(p) + Len(s)
        /\ \A i \in 1..Len(p) : (p \o s)[i] = p[i]
        /\ \A i \in 1..Len(s) : (p \o s)[Len(p) + i] = s[i]
    BY <2>10, ConcatList
  <2>5. k \in Nat BY <1>1
  <2>6. Len(p \o s) = k /\ (p \o s)[k] = seq[k]
    <3>1. (k - 1) + 1 = k /\ 1 \in 1..Len(s) BY <2>5, <2>3
    <3>2. (p \o s)[Len(p) + 1] = s[1] BY <2>4, <3>1
    <3>3. QED BY <2>2, <2>3, <2>4, <3>1, <3>2
  <2>7. \A i \in 1..k : i \in 1..(k - 1) \/ i = k BY <2>5
  <2>8. \A i \in 1..k : (p \o s)[i] = seq[i] BY <2>2, <2>4, <2>6, <2>7
  <2>9. QED BY <2>1, <2>4, <2>6, <2>8
<1> HIDE DEF Good
<1>7. n \in T
  <2>1. 0 \in T BY <1>1, <1>5
  <2>2. \A k \in 1..n : k - 1 \in T => k \in T BY <1>1, <1>6
  <2> HIDE DEF T
  <2>3. \A k \in 0..n : k \in T BY <1>1, <2>1, <2>2, UpTo
  <2>4. QED BY <1>1, <2>3
<1>8. P[n] = FlattenSeq(A) BY <1>2, <1>4 DEF Gathers
<1> DEFINE f == FlattenSeq(A)
<1>9. IsList(f) /\ Len(f) = n /\ \A i \in 1..n : f[i] = seq[i] BY <1>7, <1>8 DEF Good, T
<1> HIDE DEF f
<1>10. f = [i \in 1..n |-> f[i]] BY <1>9, ListElim
<1>11. f = seq BY <1>1, <1>9, <1>10
<1>12. QED BY <1>3, <1>11 DEF f

------------------------------------------------------------------------------
(* The first of a set of numbers, and the place of a member in a list. *)

(* A set of naturals that is not empty has its minimum in it. *)
LEMMA MinFacts ==
  ASSUME NEW S \in SUBSET Nat, S # {}
  PROVE  Min(S) \in S /\ \A y \in S : Min(S) <= y
<1>1. \E x \in S : \A y \in S : x <= y BY LeastNatural
<1>2. QED BY <1>1 DEF Min

(* The first of a set of row numbers, or 0 where the search finds none. *)
LEMMA FirstOfFacts ==
  ASSUME NEW S \in SUBSET Nat
  PROVE  /\ FirstOf(S) \in Nat
         /\ S # {} => FirstOf(S) \in S
         /\ FirstOf(S) \in S \union {0}
BY MinFacts DEF FirstOf

(* The position of a name among the names of a frame, or 0 *)
(* (DataFrame::column_index).                              *)
LEMMA PositionFacts ==
  ASSUME NEW seq, IsList(seq), NEW x
  PROVE  /\ x \in ToSet(seq) => Position(seq, x) \in 1..Len(seq) /\ seq[Position(seq, x)] = x
         /\ x \notin ToSet(seq) => Position(seq, x) = 0
         /\ Position(seq, x) \in 0..Len(seq)
<1> DEFINE I == {i \in 1..Len(seq) : seq[i] = x}
<1>1. Position(seq, x) = IF I # {} THEN Min(I) ELSE 0 BY DEF Position, SelectInSeq
<1>2. Len(seq) \in Nat BY ListElim
<1>3. I \in SUBSET Nat BY <1>2
<1>4. I # {} => Min(I) \in I BY <1>3, MinFacts
<1>5. x \in ToSet(seq) <=> I # {} BY MemberOfList
<1>6. QED BY <1>1, <1>2, <1>4, <1>5

(* The greater and the lesser of two numbers, as the clamps of head, tail *)
(* and iloc take them.                                                    *)
LEMMA MaxOfTwo ==
  ASSUME NEW a \in Int, NEW b \in Int
  PROVE  /\ Max({a, b}) = IF a >= b THEN a ELSE b
         /\ Min({a, b}) = IF a <= b THEN a ELSE b
<1>1. \E x \in {a, b} : \A y \in {a, b} : x >= y OBVIOUS
<1>2. \E x \in {a, b} : \A y \in {a, b} : x <= y OBVIOUS
<1>3. Max({a, b}) \in {a, b} /\ \A y \in {a, b} : Max({a, b}) >= y BY <1>1 DEF Max
<1>4. Min({a, b}) \in {a, b} /\ \A y \in {a, b} : Min({a, b}) <= y BY <1>2 DEF Min
<1>5. QED BY <1>3, <1>4

------------------------------------------------------------------------------
(* Sorting keeps the members of a list. *)

(* A part of a list. *)
LEMMA SubSeqList ==
  ASSUME NEW s, IsList(s), NEW m \in 1..(Len(s) + 1), NEW n \in 0..Len(s), m <= n + 1
  PROVE  /\ IsList(SubSeq(s, m, n)) /\ Len(SubSeq(s, m, n)) = n - m + 1
         /\ \A i \in 1..(n - m + 1) : SubSeq(s, m, n)[i] = s[m + i - 1]
<1>1. Len(s) \in Nat BY ListElim
<1>2. SubSeq(s, m, n) = [i \in 1..(n - m + 1) |-> s[i + m - 1]]
  <2>1. s \in Seq(ToSet(s)) BY DEF IsList
  <2>2. QED BY <1>1, <2>1
<1> DEFINE t == SubSeq(s, m, n)
<1>3. n - m + 1 \in Nat BY <1>1
<1>4. t = [i \in 1..(n - m + 1) |-> t[i]] BY <1>2
<1>5. IsList(t) /\ Len(t) = n - m + 1 BY <1>3, <1>4, ListIntro
<1>6. QED BY <1>1, <1>2, <1>5

(* An insertion adds one member to a list, wherever the order puts it. *)
LEMMA InsertFacts ==
  ASSUME NEW seq, IsList(seq), NEW x, NEW R
  PROVE  /\ IsList(Insert(seq, x, R))
         /\ Len(Insert(seq, x, R)) = Len(seq) + 1
         /\ ToSet(Insert(seq, x, R)) = ToSet(seq) \union {x}
<1> DEFINE S == {k \in DOMAIN seq : <<x, seq[k]>> \in R}
           at == FirstOf(S)
<1>1. Len(seq) \in Nat /\ DOMAIN seq = 1..Len(seq) BY ListElim
<1>2. at = 0 \/ at \in 1..Len(seq)
  <2>1. S \in SUBSET Nat BY <1>1
  <2>2. at \in S \union {0} BY <2>1, FirstOfFacts
  <2>3. QED BY <1>1, <2>2
<1>3. Insert(seq, x, R) = IF at = 0 THEN Append(seq, x) ELSE InsertAt(seq, at, x) BY DEF Insert
<1> HIDE DEF at
<1>4. CASE at = 0
  <2>1. Append(seq, x) = seq \o <<x>> BY DEF IsList
  <2>2. QED BY <1>3, <1>4, <2>1, OneList, ConcatList
<1>5. CASE at \in 1..Len(seq)
  <2> DEFINE p == SubSeq(seq, 1, at - 1)  q == SubSeq(seq, at, Len(seq))  o == <<x>>
  <2>1. /\ IsList(p) /\ Len(p) = at - 1
        /\ \A i \in 1..(at - 1) : p[i] = seq[i]
    <3>1. 1 \in 1..(Len(seq) + 1) /\ at - 1 \in 0..Len(seq) /\ 1 <= (at - 1) + 1 BY <1>1, <1>5
    <3>2. /\ IsList(p) /\ Len(p) = (at - 1) - 1 + 1
          /\ \A i \in 1..((at - 1) - 1 + 1) : p[i] = seq[1 + i - 1] BY <3>1, SubSeqList
    <3>3. (at - 1) - 1 + 1 = at - 1 BY <1>1, <1>5
    <3>4. \A i \in 1..(at - 1) : 1 + i - 1 = i BY <1>1, <1>5
    <3>5. QED BY <3>2, <3>3, <3>4
  <2>2. /\ IsList(q) /\ Len(q) = Len(seq) - at + 1
        /\ \A i \in 1..(Len(seq) - at + 1) : q[i] = seq[at + i - 1]
    <3>1. at \in 1..(Len(seq) + 1) /\ Len(seq) \in 0..Len(seq) /\ at <= Len(seq) + 1 BY <1>1, <1>5
    <3>2. QED BY <3>1, SubSeqList
  <2>3. IsList(o) /\ Len(o) = 1 /\ ToSet(o) = {x} BY OneList
  <2>4. Insert(seq, x, R) = (p \o o) \o q BY <1>1, <1>3, <1>5 DEF InsertAt
  <2>5. ToSet(p) \union ToSet(q) = ToSet(seq)
    <3>1. ToSet(p) \subseteq ToSet(seq)
      <4> SUFFICES ASSUME NEW y \in ToSet(p) PROVE y \in ToSet(seq) OBVIOUS
      <4> HIDE DEF p
      <4>1. PICK i \in 1..Len(p) : p[i] = y BY <2>1, MemberOfList
      <4>2. i \in 1..Len(seq) /\ seq[i] = y BY <1>1, <1>5, <2>1, <4>1
      <4>3. QED BY <4>2, MemberOfList
    <3>2. ToSet(q) \subseteq ToSet(seq)
      <4> SUFFICES ASSUME NEW y \in ToSet(q) PROVE y \in ToSet(seq) OBVIOUS
      <4> HIDE DEF q
      <4>1. PICK i \in 1..Len(q) : q[i] = y BY <2>2, MemberOfList
      <4>2. at + i - 1 \in 1..Len(seq) /\ seq[at + i - 1] = y BY <1>1, <1>5, <2>2, <4>1
      <4>3. QED BY <4>2, MemberOfList
    <3>3. ASSUME NEW i \in 1..Len(seq) PROVE seq[i] \in ToSet(p) \union ToSet(q)
      <4>1. CASE i < at
        <5>1. i \in 1..(at - 1) BY <1>1, <1>5, <4>1
        <5>2. QED BY <5>1, <2>1, MemberOfList
      <4>2. CASE i >= at
        <5>1. i - at + 1 \in 1..(Len(seq) - at + 1) /\ at + (i - at + 1) - 1 = i BY <1>1, <1>5, <4>2
        <5>2. q[i - at + 1] = seq[i] BY <5>1, <2>2
        <5>3. QED BY <5>1, <5>2, <2>2, MemberOfList
      <4>3. QED BY <1>1, <1>5, <4>1, <4>2
    <3>4. QED BY <3>1, <3>2, <3>3, MemberOfList
  <2> HIDE DEF p, q, o
  <2>6. IsList(p \o o) /\ Len(p \o o) = Len(p) + 1 /\ ToSet(p \o o) = ToSet(p) \union {x}
    BY <2>1, <2>3, ConcatList
  <2>7. /\ IsList((p \o o) \o q) /\ Len((p \o o) \o q) = Len(p \o o) + Len(q)
        /\ ToSet((p \o o) \o q) = ToSet(p \o o) \union ToSet(q)
    BY <2>6, <2>2, ConcatList
  <2>8. Len((p \o o) \o q) = Len(seq) + 1 BY <1>1, <1>5, <2>1, <2>2, <2>6, <2>7
  <2>9. ToSet((p \o o) \o q) = ToSet(seq) \union {x} BY <2>5, <2>6, <2>7
  <2>10. QED BY <2>4, <2>7, <2>8, <2>9
<1>6. QED BY <1>2, <1>4, <1>5

(* The insertions of a sort, one after the other. *)
Inserts(seq, R, F) ==
  /\ F[0] = <<>>
  /\ \A k \in 1..Len(seq) : F[k] = Insert(F[k - 1], seq[k], R)
  /\ Sorted(seq, R) = F[Len(seq)]
LEMMA SortedInserts ==
  ASSUME NEW seq, IsList(seq), NEW R
  PROVE  \E F : Inserts(seq, R, F)
<1> DEFINE n == Len(seq)
           Sorts(m, f) == f = [k \in 0..m |-> IF k = 0 THEN <<>> ELSE Insert(f[k - 1], seq[k], R)]
           T == {m \in 0..n : \E f : Sorts(m, f)}
<1>1. n \in Nat BY ListElim
<1>2. 0 \in T
  <2> DEFINE e == [k \in 0..0 |-> <<>>]
  <2>1. Sorts(0, e) OBVIOUS
  <2> HIDE DEF Sorts
  <2>2. \E f : Sorts(0, f) BY <2>1
  <2>3. QED BY <2>2, <1>1
<1>3. ASSUME NEW m \in 1..n, NEW f, Sorts(m - 1, f) PROVE \E g : Sorts(m, g)
  <2> DEFINE g == [k \in 0..m |-> IF k = m THEN Insert(f[k - 1], seq[k], R) ELSE f[k]]
  <2>1. ASSUME NEW k \in 0..m
        PROVE  g[k] = IF k = 0 THEN <<>> ELSE Insert(g[k - 1], seq[k], R)
    <3>1. CASE k = m
      <4>1. k # 0 /\ k - 1 \in 0..m /\ k - 1 # m BY <3>1, <1>1
      <4>2. g[k - 1] = f[k - 1] BY <4>1
      <4>3. QED BY <3>1, <4>1, <4>2
    <3>2. CASE k # m
      <4>1. k \in 0..(m - 1) BY <3>2, <1>1
      <4>2. f[k] = IF k = 0 THEN <<>> ELSE Insert(f[k - 1], seq[k], R) BY <1>3, <4>1
      <4>3. k # 0 => k - 1 \in 0..m /\ k - 1 # m BY <4>1, <1>1
      <4>4. k # 0 => g[k - 1] = f[k - 1] BY <4>3
      <4>5. g[k] = f[k] BY <3>2
      <4>6. QED BY <4>2, <4>4, <4>5
    <3>3. QED BY <3>1, <3>2
  <2> HIDE DEF g
  <2>2. g = [k \in 0..m |-> g[k]] BY DEF g
  <2>3. Sorts(m, g) BY <2>1, <2>2
  <2> HIDE DEF Sorts
  <2>4. QED BY <2>3
<1>4. \E f : Sorts(n, f)
  <2> HIDE DEF Sorts
  <2>1. \A m \in 1..n : m - 1 \in T => m \in T BY <1>1, <1>3
  <2> HIDE DEF n, T
  <2>2. \A m \in 0..n : m \in T BY <1>1, <1>2, <2>1, UpTo
  <2>3. n \in T BY <1>1, <2>2
  <2>4. QED BY <2>3 DEF T
<1> DEFINE F == CHOOSE f : Sorts(n, f)
<1>5. Sorts(n, F) BY <1>4
<1>6. Sorted(seq, R) = F[n] BY DEF Sorted
<1> HIDE DEF F
<1>7. F[0] = <<>> /\ \A k \in 1..n : F[k] = Insert(F[k - 1], seq[k], R) BY <1>1, <1>5
<1>8. QED BY <1>6, <1>7 DEF Inserts

(* A sort is a permutation as far as its length and its members go, *)
(* whatever the order.                                              *)
LEMMA SortedFacts ==
  ASSUME NEW seq, IsList(seq), NEW R
  PROVE  /\ IsList(Sorted(seq, R))
         /\ Len(Sorted(seq, R)) = Len(seq)
         /\ ToSet(Sorted(seq, R)) = ToSet(seq)
<1> DEFINE n == Len(seq)
<1>1. n \in Nat BY ListElim
<1>2. PICK F : Inserts(seq, R, F) BY SortedInserts
<1>3. F[0] = <<>> /\ \A k \in 1..n : F[k] = Insert(F[k - 1], seq[k], R) BY <1>2 DEF Inserts
<1>4. Sorted(seq, R) = F[n] BY <1>2 DEF Inserts
<1> DEFINE Good(k) == /\ IsList(F[k]) /\ Len(F[k]) = k
                      /\ ToSet(F[k]) = {seq[i] : i \in 1..k}
           U == {k \in 0..n : Good(k)}
<1>5. Good(0)
  <2>1. F[0] = <<>> BY <1>1, <1>3
  <2>2. QED BY <2>1, EmptyList
<1>6. ASSUME NEW k \in 1..n, Good(k - 1) PROVE Good(k)
  <2>1. F[k] = Insert(F[k - 1], seq[k], R) BY <1>1, <1>3
  <2>2. IsList(F[k - 1]) BY <1>6
  <2>3. /\ IsList(F[k]) /\ Len(F[k]) = Len(F[k - 1]) + 1
        /\ ToSet(F[k]) = ToSet(F[k - 1]) \union {seq[k]} BY <2>1, <2>2, InsertFacts
  <2>4. 1..k = 1..(k - 1) \union {k} BY <1>1
  <2>5. Len(F[k]) = k BY <1>1, <1>6, <2>3
  <2>6. ToSet(F[k]) = {seq[i] : i \in 1..k} BY <1>6, <2>3, <2>4
  <2>7. QED BY <2>3, <2>5, <2>6
<1>7. Good(n)
  <2> HIDE DEF Good
  <2>1. 0 \in U BY <1>1, <1>5
  <2>2. \A k \in 1..n : k - 1 \in U => k \in U BY <1>1, <1>6
  <2> HIDE DEF U, n
  <2>3. \A k \in 0..n : k \in U BY <1>1, <2>1, <2>2, UpTo
  <2>4. n \in U BY <1>1, <2>3
  <2>5. QED BY <2>4 DEF U
<1>8. ToSet(seq) = {seq[i] : i \in 1..n} BY ListElim DEF ToSet
<1>9. QED BY <1>4, <1>7, <1>8

------------------------------------------------------------------------------
(* Columns of the two copies that differ only under their null cells. *)

(* Two columns that differ only under their null cells. *)
TwinCol(c, d) ==
  /\ ColumnShape(c) /\ ColumnShape(d)
  /\ c.cls = d.cls /\ c.nulls = d.nulls /\ c.cats = d.cats
  /\ Len(c.vals) = Len(d.vals)
  /\ \A i \in 1..Len(c.vals) : ~NullAt(c, i) => c.vals[i] = d.vals[i]

(* A column has a length, that of its nulls buffer. *)
LEMMA LengthNat == ASSUME NEW c, ColumnShape(c) PROVE Length(c) \in Nat /\ DOMAIN c.nulls = 1..Length(c)
BY ListElim DEF ColumnShape, Length

(* A column is its own twin. *)
LEMMA SelfTwin == ASSUME NEW c, ColumnShape(c) PROVE TwinCol(c, c)
BY DEF TwinCol

(* The cell that is read of a DateTime column is a number, in bounds or *)
(* not.                                                                 *)
LEMMA TimeAt ==
  ASSUME NEW c, ColumnShape(c), c.cls = "DateTime", NEW i
  PROVE  ValueAt(c, i) \in Int
BY DEF ColumnShape, Times, ValueAt, Filler

(* What the program can read of them is the same. *)
LEMMA TwinReads ==
  ASSUME NEW c, NEW d, TwinCol(c, d)
  PROVE  /\ c.cls = d.cls /\ c.nulls = d.nulls /\ c.cats = d.cats
         /\ Length(c) = Length(d) /\ Length(c) \in Nat
         /\ \A i : NullAt(c, i) = NullAt(d, i)
         /\ \A i : ~NullAt(c, i) => ValueAt(c, i) = ValueAt(d, i)
<1>1. c.cls = d.cls /\ c.nulls = d.nulls /\ c.cats = d.cats BY DEF TwinCol
<1>2. Length(c) = Length(d) /\ Length(c) \in Nat BY <1>1, LengthNat DEF TwinCol, Length
<1>3. ASSUME NEW i PROVE NullAt(c, i) = NullAt(d, i) BY <1>1 DEF NullAt
<1>4. ASSUME NEW i, ~NullAt(c, i) PROVE ValueAt(c, i) = ValueAt(d, i)
  <2>1. DOMAIN c.vals = 1..Len(c.vals) /\ DOMAIN d.vals = 1..Len(c.vals)
    BY ListElim DEF TwinCol, ColumnShape
  <2>2. QED BY <1>1, <1>4, <2>1 DEF TwinCol, ValueAt
<1>5. QED BY <1>1, <1>2, <1>3, <1>4

(* get answers the same of twins: None where the cell is null. *)
LEMMA TwinGet ==
  ASSUME NEW c, NEW d, TwinCol(c, d), NEW i
  PROVE  Get(c, i) = Get(d, i)
<1>1. c.cls = d.cls /\ c.cats = d.cats /\ NullAt(c, i) = NullAt(d, i) BY TwinReads
<1>2. CASE NullAt(c, i) BY <1>1, <1>2 DEF Get
<1>3. CASE ~NullAt(c, i)
  <2>1. ValueAt(c, i) = ValueAt(d, i) BY <1>3, TwinReads
  <2>2. QED BY <1>1, <1>3, <2>1 DEF Get
<1>4. QED BY <1>2, <1>3

(* Columns of lists of one length. *)
LEMMA ColumnTwin ==
  ASSUME NEW cls, NEW v, NEW w, NEW nulls,
         IsList(v), IsList(w), IsList(nulls), Len(v) = Len(nulls), Len(w) = Len(nulls),
         Times(cls, v), Times(cls, w),
         \A i \in 1..Len(nulls) : ~nulls[i] => v[i] = w[i]
  PROVE  /\ TwinCol(Column(cls, v, nulls), Column(cls, w, nulls))
         /\ Length(Column(cls, v, nulls)) = Len(nulls)
<1>1. DOMAIN nulls = 1..Len(nulls) BY ListElim
<1>2. QED BY <1>1, EmptyList DEF TwinCol, Column, ColumnShape, Length, NullAt

(* A column of a values buffer and a nulls buffer of one length has a *)
(* column's shape.                                                    *)
LEMMA ColumnMade ==
  ASSUME NEW cls, NEW v, NEW nulls, IsList(v), IsList(nulls), Len(v) = Len(nulls), Times(cls, v)
  PROVE  ColumnShape(Column(cls, v, nulls)) /\ Length(Column(cls, v, nulls)) = Len(nulls)
BY EmptyList DEF Column, ColumnShape, Length

(* A column of codes, nulls and categories has a column's shape. *)
LEMMA CategoricalMade ==
  ASSUME NEW codes, NEW nulls, NEW cats, IsList(codes), IsList(nulls), IsList(cats), Len(codes) = Len(nulls)
  PROVE  /\ ColumnShape(Categorical(codes, nulls, cats))
         /\ Length(Categorical(codes, nulls, cats)) = Len(nulls)
BY DEF Categorical, ColumnShape, Length, Times

(* A column made cell by cell, None for a null, has a column's shape. *)
LEMMA FilledMade ==
  ASSUME NEW cls, NEW cells, IsList(cells),
         cls = "DateTime" => \A i \in 1..Len(cells) : cells[i] = None \/ cells[i] \in Int
  PROVE  ColumnShape(Filled(cls, cells)) /\ Length(Filled(cls, cells)) = Len(cells)
<1> DEFINE v == [i \in DOMAIN cells |-> IF cells[i] = None THEN Filler(cls) ELSE cells[i]]
           w == [i \in DOMAIN cells |-> cells[i] = None]
<1>1. Len(cells) \in Nat /\ DOMAIN cells = 1..Len(cells) BY ListElim
<1>2. v = [i \in 1..Len(cells) |-> v[i]] /\ w = [i \in 1..Len(cells) |-> w[i]] BY <1>1
<1>6. Times(cls, v) BY <1>1 DEF Times, Filler
<1> HIDE DEF v, w
<1>3. IsList(v) /\ Len(v) = Len(cells) /\ IsList(w) /\ Len(w) = Len(cells) BY <1>1, <1>2, ListIntro
<1>4. Filled(cls, cells) = Column(cls, v, w) BY DEF Filled, v, w
<1>5. QED BY <1>3, <1>4, <1>6, ColumnMade

(* A column with no nulls has a column's shape. *)
LEMMA WholeMade ==
  ASSUME NEW cls, NEW vals, IsList(vals), Times(cls, vals)
  PROVE  ColumnShape(Whole(cls, vals)) /\ Length(Whole(cls, vals)) = Len(vals)
<1> DEFINE w == [i \in DOMAIN vals |-> FALSE]
<1>1. Len(vals) \in Nat /\ DOMAIN vals = 1..Len(vals) BY ListElim
<1>2. w = [i \in 1..Len(vals) |-> w[i]] BY <1>1
<1>3. Whole(cls, vals) = Column(cls, vals, w) BY DEF Whole
<1> HIDE DEF w
<1>4. IsList(w) /\ Len(w) = Len(vals) BY <1>1, <1>2, ListIntro
<1>5. QED BY <1>3, <1>4, ColumnMade

(* Rows taken of twin columns are twin columns, as many as were taken. *)
LEMMA TwinTake ==
  ASSUME NEW c, NEW d, TwinCol(c, d), NEW rows, IsList(rows)
  PROVE  TwinCol(Take(c, rows), Take(d, rows)) /\ Length(Take(c, rows)) = Len(rows)
<1> DEFINE n == Len(rows)
           nulls == [k \in DOMAIN rows |-> NullAt(c, rows[k])]
           zeros == [k \in DOMAIN rows |-> 0]
           v == [k \in DOMAIN rows |-> ValueAt(c, rows[k])]
           w == [k \in DOMAIN rows |-> ValueAt(d, rows[k])]
<1>1. n \in Nat /\ DOMAIN rows = 1..n BY ListElim
<1>2. /\ nulls = [k \in 1..n |-> nulls[k]] /\ zeros = [k \in 1..n |-> zeros[k]]
      /\ v = [k \in 1..n |-> v[k]] /\ w = [k \in 1..n |-> w[k]] BY <1>1
<1>3. \A k \in 1..n : ~nulls[k] => v[k] = w[k] BY <1>1, TwinReads
<1>4. c.cls = d.cls /\ nulls = [k \in DOMAIN rows |-> NullAt(d, rows[k])] BY TwinReads
<1>5. /\ Take(c, rows) = IF c.cls = "Cat" THEN Column("I64", zeros, nulls) ELSE Column(c.cls, v, nulls)
      /\ Take(d, rows) = IF c.cls = "Cat" THEN Column("I64", zeros, nulls) ELSE Column(c.cls, w, nulls)
  BY <1>4 DEF Take
<1>10. Times("I64", zeros) /\ Times(c.cls, v) /\ Times(c.cls, w)
  <2>1. c.cls = "DateTime" => \A i : ValueAt(c, i) \in Int /\ ValueAt(d, i) \in Int
    <3>1. ColumnShape(c) /\ ColumnShape(d) BY DEF TwinCol
    <3>2. QED BY <1>4, <3>1, TimeAt
  <2>2. QED BY <2>1 DEF Times
<1> HIDE DEF n, nulls, zeros, v, w
<1>6. /\ IsList(nulls) /\ Len(nulls) = n /\ IsList(zeros) /\ Len(zeros) = n
      /\ IsList(v) /\ Len(v) = n /\ IsList(w) /\ Len(w) = n BY <1>1, <1>2, ListIntro
<1>7. CASE c.cls = "Cat"
  <2>1. TwinCol(Column("I64", zeros, nulls), Column("I64", zeros, nulls)) /\ Length(Column("I64", zeros, nulls)) = n
    BY <1>6, <1>10, ColumnTwin
  <2>2. QED BY <1>5, <1>7, <2>1 DEF n
<1>8. CASE c.cls # "Cat"
  <2>1. TwinCol(Column(c.cls, v, nulls), Column(c.cls, w, nulls)) /\ Length(Column(c.cls, v, nulls)) = n
    BY <1>3, <1>6, <1>10, ColumnTwin
  <2>2. QED BY <1>5, <1>8, <2>1 DEF n
<1>9. QED BY <1>7, <1>8

(* Copies of twin columns are twin columns. *)
LEMMA TwinClone ==
  ASSUME NEW c, NEW d, TwinCol(c, d)
  PROVE  TwinCol(Clone(c), Clone(d)) /\ Length(Clone(c)) = Length(c)
BY EmptyList DEF TwinCol, Clone, Column, ColumnShape, NullAt, Length

(* Twin columns of one class, one below the other, are twin columns; the *)
(* lengths add up.                                                       *)
LEMMA TwinJoined ==
  ASSUME NEW a, NEW b, TwinCol(a, b), NEW c, NEW d, TwinCol(c, d), c.cls = a.cls
  PROVE  /\ TwinCol(Joined(a, c), Joined(b, d))
         /\ Length(Joined(a, c)) = Length(a) + Length(c)
<1>1. /\ a.cls = b.cls /\ a.nulls = b.nulls /\ Length(a) = Length(b) /\ Length(a) \in Nat
      /\ c.cls = d.cls /\ c.nulls = d.nulls /\ Length(c) = Length(d) /\ Length(c) \in Nat
  BY TwinReads
<1>2. IsList(a.nulls) /\ IsList(c.nulls) BY DEF TwinCol, ColumnShape
<1> DEFINE nulls == a.nulls \o c.nulls
<1>3. /\ IsList(nulls) /\ Len(nulls) = Length(a) + Length(c)
      /\ \A i \in 1..Length(a) : nulls[i] = a.nulls[i]
      /\ \A i \in 1..Length(c) : nulls[Length(a) + i] = c.nulls[i]
  <2> DEFINE x == a.nulls  y == c.nulls
  <2>1. IsList(x) /\ IsList(y) BY <1>2
  <2> HIDE DEF x, y, nulls
  <2>2. /\ IsList(x \o y) /\ Len(x \o y) = Len(x) + Len(y)
        /\ \A i \in 1..Len(x) : (x \o y)[i] = x[i]
        /\ \A i \in 1..Len(y) : (x \o y)[Len(x) + i] = y[i]
    BY <2>1, ConcatList
  <2>3. nulls = x \o y /\ Length(a) = Len(x) /\ Length(c) = Len(y) /\ x = a.nulls /\ y = c.nulls
    BY DEF Length, nulls, x, y
  <2>4. QED BY <2>2, <2>3
<1>4. CASE a.cls = "Cat"
  <2>1. Joined(a, c) = Column("Cat", <<>>, nulls) /\ Joined(b, d) = Column("Cat", <<>>, nulls)
    BY <1>1, <1>4 DEF Joined
  <2> HIDE DEF nulls
  <2> DEFINE C == Column("Cat", <<>>, nulls)
  <2>2. C.cls = "Cat" /\ C.vals = <<>> /\ C.nulls = nulls /\ C.cats = <<>> BY DEF Column
  <2> HIDE DEF C, nulls
  <2>3. ColumnShape(C) BY <1>3, <2>2, EmptyList DEF ColumnShape, Times
  <2>4. TwinCol(C, C) BY <2>3, SelfTwin
  <2>5. Length(C) = Len(nulls) BY <2>2 DEF Length
  <2>6. QED BY <1>3, <2>1, <2>4, <2>5 DEF C
<1>5. CASE a.cls # "Cat"
  <2> DEFINE va == Cells(a)  vb == Cells(b)  vc == Cells(c)  vd == Cells(d)
  <2>1. /\ va = [i \in 1..Length(a) |-> va[i]] /\ vb = [i \in 1..Length(a) |-> vb[i]]
        /\ vc = [i \in 1..Length(c) |-> vc[i]] /\ vd = [i \in 1..Length(c) |-> vd[i]]
    BY <1>1 DEF Cells
  <2>2. /\ \A i \in 1..Length(a) : ~a.nulls[i] => va[i] = vb[i]
        /\ \A i \in 1..Length(c) : ~c.nulls[i] => vc[i] = vd[i]
    <3>1. DOMAIN a.nulls = 1..Length(a) /\ DOMAIN c.nulls = 1..Length(c)
      BY <1>2, ListElim DEF Length
    <3>2. /\ \A i \in 1..Length(a) : ~NullAt(a, i) => ValueAt(a, i) = ValueAt(b, i)
          /\ \A i \in 1..Length(c) : ~NullAt(c, i) => ValueAt(c, i) = ValueAt(d, i)
      BY TwinReads
    <3>3. QED BY <1>1, <3>1, <3>2 DEF Cells, NullAt
  <2>3. /\ Joined(a, c) = Column(a.cls, va \o vc, nulls)
        /\ Joined(b, d) = Column(a.cls, vb \o vd, nulls)
    BY <1>1, <1>5 DEF Joined
  <2>t. a.cls = "DateTime" => /\ \A i \in 1..Length(a) : va[i] \in Int /\ vb[i] \in Int
                              /\ \A i \in 1..Length(c) : vc[i] \in Int /\ vd[i] \in Int
    <3>1. ColumnShape(a) /\ ColumnShape(b) /\ ColumnShape(c) /\ ColumnShape(d) BY DEF TwinCol
    <3>2. a.cls = "DateTime" => \A i : /\ ValueAt(a, i) \in Int /\ ValueAt(b, i) \in Int
                                        /\ ValueAt(c, i) \in Int /\ ValueAt(d, i) \in Int
      BY <1>1, <3>1, TimeAt
    <3>3. QED BY <1>1, <3>2 DEF Cells
  <2> HIDE DEF va, vb, vc, vd, nulls
  <2>4. /\ IsList(va) /\ Len(va) = Length(a) /\ IsList(vb) /\ Len(vb) = Length(a)
        /\ IsList(vc) /\ Len(vc) = Length(c) /\ IsList(vd) /\ Len(vd) = Length(c)
    BY <1>1, <2>1, ListIntro
  <2> DEFINE v == va \o vc  w == vb \o vd
  <2>5. /\ IsList(v) /\ Len(v) = Length(a) + Length(c)
        /\ \A i \in 1..Length(a) : v[i] = va[i]
        /\ \A i \in 1..Length(c) : v[Length(a) + i] = vc[i] BY <2>4, ConcatList
  <2>6. /\ IsList(w) /\ Len(w) = Length(a) + Length(c)
        /\ \A i \in 1..Length(a) : w[i] = vb[i]
        /\ \A i \in 1..Length(c) : w[Length(a) + i] = vd[i] BY <2>4, ConcatList
  <2> HIDE DEF v, w
  <2>7. ASSUME NEW i \in 1..Len(nulls), ~nulls[i] PROVE v[i] = w[i]
    <3>1. CASE i \in 1..Length(a)
      BY <1>3, <2>2, <2>5, <2>6, <2>7, <3>1
    <3>2. CASE i \notin 1..Length(a)
      <4>1. i - Length(a) \in 1..Length(c) /\ i = Length(a) + (i - Length(a)) BY <1>1, <1>3, <3>2
      <4>2. PICK j \in 1..Length(c) : i = Length(a) + j BY <4>1
      <4>3. QED BY <1>3, <2>2, <2>5, <2>6, <2>7, <4>2
    <3>3. QED BY <3>1, <3>2
  <2>11. Times(a.cls, v) /\ Times(a.cls, w)
    <3>1. ASSUME a.cls = "DateTime", NEW i \in 1..(Length(a) + Length(c)) PROVE v[i] \in Int /\ w[i] \in Int
      <4>1. CASE i \in 1..Length(a) BY <2>t, <2>5, <2>6, <3>1, <4>1
      <4>2. CASE i \notin 1..Length(a)
        <5>1. i - Length(a) \in 1..Length(c) /\ i = Length(a) + (i - Length(a)) BY <1>1, <4>2
        <5>2. PICK j \in 1..Length(c) : i = Length(a) + j BY <5>1
        <5>3. QED BY <2>t, <2>5, <2>6, <3>1, <5>2
      <4>3. QED BY <4>1, <4>2
    <3>2. DOMAIN v = 1..(Length(a) + Length(c)) /\ DOMAIN w = 1..(Length(a) + Length(c))
      BY <2>5, <2>6, ListElim
    <3>3. QED BY <3>1, <3>2 DEF Times
  <2>8. Len(v) = Len(nulls) /\ Len(w) = Len(nulls) BY <1>3, <2>5, <2>6
  <2>9. /\ TwinCol(Column(a.cls, v, nulls), Column(a.cls, w, nulls))
        /\ Length(Column(a.cls, v, nulls)) = Len(nulls)
    BY <1>3, <2>5, <2>6, <2>7, <2>8, <2>11, ColumnTwin
  <2>10. QED BY <1>3, <2>3, <2>9 DEF v, w
<1>6. QED BY <1>4, <1>5

(* Twin columns, levels and frames.  Where ok holds, the columns have the   *)
(* length the frame gives for its rows.                                     *)
TwinCols(cs, ds, ok, n) ==
  /\ IsList(cs) /\ IsList(ds) /\ Len(cs) = Len(ds)
  /\ \A k \in 1..Len(cs) : TwinCol(cs[k], ds[k]) /\ (ok => Length(cs[k]) = n)
(* Two indexes of twin levels, with the same names. *)
TwinIndex(a, b, ok, n) ==
  /\ TwinCols(a.levels, b.levels, ok, n)
  /\ a.names = b.names /\ IsList(a.names) /\ Len(a.names) = Len(a.levels)
  /\ a.multi = b.multi /\ a.multi \in BOOLEAN
  /\ a.multi => a.levels # <<>>
  /\ ~a.multi => Len(a.levels) <= 1
(* Two frames of the same names and the same number of rows, of twin      *)
(* columns and twin levels: what a second copy of the program holds where *)
(* the cells under its nulls are others.                                  *)
Twin(f, g, ok) ==
  /\ f.names = g.names /\ IsList(f.names) /\ Len(f.names) = Len(f.cols)
  /\ f.nrows = g.nrows /\ f.nrows \in Nat
  /\ TwinCols(f.cols, g.cols, ok, f.nrows)
  /\ TwinIndex(f.ix, g.ix, ok, f.nrows)

(* A list is empty if and only if its length is 0. *)
LEMMA EmptyIff == ASSUME NEW s, IsList(s) PROVE s = <<>> <=> Len(s) = 0
<1>1. CASE Len(s) = 0
  <2>1. s = [i \in 1..0 |-> s[i]] BY <1>1, ListElim
  <2>2. s = <<>> BY <2>1
  <2>3. QED BY <1>1, <2>2
<1>2. CASE Len(s) # 0 BY <1>2, EmptyList
<1>3. QED BY <1>1, <1>2

(* Lists of twin columns are introduced position by position. *)
LEMMA ColsIntro ==
  ASSUME NEW m \in Nat, NEW cs, cs = [k \in 1..m |-> cs[k]], NEW ds, ds = [k \in 1..m |-> ds[k]],
         NEW ok, NEW n, \A k \in 1..m : TwinCol(cs[k], ds[k]) /\ (ok => Length(cs[k]) = n)
  PROVE  TwinCols(cs, ds, ok, n) /\ Len(cs) = m
<1>1. IsList(cs) /\ Len(cs) = m /\ IsList(ds) /\ Len(ds) = m BY ListIntro
<1>2. QED BY <1>1 DEF TwinCols

(* What lists of twin columns have in common. *)
LEMMA ColsElim ==
  ASSUME NEW cs, NEW ds, NEW ok, NEW n, TwinCols(cs, ds, ok, n)
  PROVE  /\ Len(cs) \in Nat /\ Len(ds) = Len(cs)
         /\ DOMAIN cs = 1..Len(cs) /\ DOMAIN ds = 1..Len(cs)
         /\ cs = [k \in 1..Len(cs) |-> cs[k]] /\ ds = [k \in 1..Len(cs) |-> ds[k]]
         /\ cs = <<>> <=> Len(cs) = 0
         /\ ds = <<>> <=> Len(cs) = 0
<1>1. IsList(cs) /\ IsList(ds) /\ Len(cs) = Len(ds) BY DEF TwinCols
<1>2. QED BY <1>1, ListElim, EmptyIff

(* The columns at one position of lists of twins are twins. *)
LEMMA ColsOf ==
  ASSUME NEW cs, NEW ds, NEW ok, NEW n, TwinCols(cs, ds, ok, n), NEW k \in 1..Len(cs)
  PROVE  TwinCol(cs[k], ds[k]) /\ (ok => Length(cs[k]) = n)
BY DEF TwinCols

(* No columns are twins of no columns. *)
LEMMA NoCols == ASSUME NEW ok, NEW n PROVE TwinCols(<<>>, <<>>, ok, n)
BY EmptyList DEF TwinCols

(* One column, as a list. *)
LEMMA OneCol ==
  ASSUME NEW c, NEW d, TwinCol(c, d), NEW ok, NEW n, ok => Length(c) = n
  PROVE  TwinCols(<<c>>, <<d>>, ok, n)
<1> DEFINE cs == <<c>>  ds == <<d>>
<1>1. cs = [k \in 1..1 |-> cs[k]] /\ ds = [k \in 1..1 |-> ds[k]] /\ cs[1] = c /\ ds[1] = d OBVIOUS
<1> HIDE DEF cs, ds
<1>2. \A k \in 1..1 : TwinCol(cs[k], ds[k]) /\ (ok => Length(cs[k]) = n) BY <1>1
<1>3. TwinCols(cs, ds, ok, n) BY <1>1, <1>2, ColsIntro
<1>4. QED BY <1>3 DEF cs, ds

(* Twin columns after twin columns. *)
LEMMA ColsConcat ==
  ASSUME NEW a, NEW b, NEW c, NEW d, NEW ok, NEW n, TwinCols(a, b, ok, n), TwinCols(c, d, ok, n)
  PROVE  TwinCols(a \o c, b \o d, ok, n) /\ Len(a \o c) = Len(a) + Len(c)
<1>1. IsList(a) /\ IsList(b) /\ IsList(c) /\ IsList(d) /\ Len(a) = Len(b) /\ Len(c) = Len(d)
  BY DEF TwinCols
<1> DEFINE x == a \o c  y == b \o d
<1>2. /\ IsList(x) /\ Len(x) = Len(a) + Len(c)
      /\ \A i \in 1..Len(a) : x[i] = a[i]
      /\ \A i \in 1..Len(c) : x[Len(a) + i] = c[i] BY <1>1, ConcatList
<1>3. /\ IsList(y) /\ Len(y) = Len(a) + Len(c)
      /\ \A i \in 1..Len(a) : y[i] = b[i]
      /\ \A i \in 1..Len(c) : y[Len(a) + i] = d[i] BY <1>1, ConcatList
<1>4. Len(a) \in Nat /\ Len(c) \in Nat BY <1>1, ListElim
<1> HIDE DEF x, y
<1>5. ASSUME NEW k \in 1..Len(x) PROVE TwinCol(x[k], y[k]) /\ (ok => Length(x[k]) = n)
  <2>1. CASE k \in 1..Len(a) BY <1>2, <1>3, <2>1, ColsOf
  <2>2. CASE k \notin 1..Len(a)
    <3>1. k - Len(a) \in 1..Len(c) /\ k = Len(a) + (k - Len(a)) BY <1>2, <1>4, <2>2
    <3>2. PICK j \in 1..Len(c) : k = Len(a) + j BY <3>1
    <3>3. QED BY <1>2, <1>3, <3>2, ColsOf
  <2>3. QED BY <2>1, <2>2
<1>6. TwinCols(x, y, ok, n) BY <1>2, <1>3, <1>5 DEF TwinCols
<1>7. QED BY <1>2, <1>6 DEF x, y

(* Rows taken of every column of a frame. *)
LEMMA ColsTake ==
  ASSUME NEW cs, NEW ds, NEW p, NEW m, TwinCols(cs, ds, p, m), NEW rows, IsList(rows), NEW ok
  PROVE  /\ TwinCols([k \in DOMAIN cs |-> Take(cs[k], rows)], [k \in DOMAIN ds |-> Take(ds[k], rows)],
                     ok, Len(rows))
         /\ Len([k \in DOMAIN cs |-> Take(cs[k], rows)]) = Len(cs)
<1> DEFINE x == [k \in DOMAIN cs |-> Take(cs[k], rows)]
           y == [k \in DOMAIN ds |-> Take(ds[k], rows)]
<1>1. Len(cs) \in Nat /\ DOMAIN cs = 1..Len(cs) /\ DOMAIN ds = 1..Len(cs) BY ColsElim
<1>2. x = [k \in 1..Len(cs) |-> x[k]] /\ y = [k \in 1..Len(cs) |-> y[k]] BY <1>1
<1>3. \A k \in 1..Len(cs) : TwinCol(x[k], y[k]) /\ (ok => Length(x[k]) = Len(rows))
  BY <1>1, ColsOf, TwinTake
<1> HIDE DEF x, y
<1>4. TwinCols(x, y, ok, Len(rows)) /\ Len(x) = Len(cs) BY <1>1, <1>2, <1>3, ColsIntro
<1>5. QED BY <1>4 DEF x, y

(* Every column of a frame, copied. *)
LEMMA ColsClone ==
  ASSUME NEW cs, NEW ds, NEW ok, NEW n, TwinCols(cs, ds, ok, n)
  PROVE  /\ TwinCols([k \in DOMAIN cs |-> Clone(cs[k])], [k \in DOMAIN ds |-> Clone(ds[k])], ok, n)
         /\ Len([k \in DOMAIN cs |-> Clone(cs[k])]) = Len(cs)
<1> DEFINE x == [k \in DOMAIN cs |-> Clone(cs[k])]
           y == [k \in DOMAIN ds |-> Clone(ds[k])]
<1>1. Len(cs) \in Nat /\ DOMAIN cs = 1..Len(cs) /\ DOMAIN ds = 1..Len(cs) BY ColsElim
<1>2. x = [k \in 1..Len(cs) |-> x[k]] /\ y = [k \in 1..Len(cs) |-> y[k]] BY <1>1
<1>3. \A k \in 1..Len(cs) : TwinCol(x[k], y[k]) /\ (ok => Length(x[k]) = n)
  BY <1>1, ColsOf, TwinClone
<1> HIDE DEF x, y
<1>4. TwinCols(x, y, ok, n) /\ Len(x) = Len(cs) BY <1>1, <1>2, <1>3, ColsIntro
<1>5. QED BY <1>4 DEF x, y

(* Columns chosen by their positions. *)
LEMMA ColsChosen ==
  ASSUME NEW cs, NEW ds, NEW ok, NEW n, TwinCols(cs, ds, ok, n),
         NEW ks, IsList(ks), \A k \in 1..Len(ks) : ks[k] \in 1..Len(cs)
  PROVE  /\ TwinCols([k \in DOMAIN ks |-> cs[ks[k]]], [k \in DOMAIN ks |-> ds[ks[k]]], ok, n)
         /\ Len([k \in DOMAIN ks |-> cs[ks[k]]]) = Len(ks)
<1> DEFINE x == [k \in DOMAIN ks |-> cs[ks[k]]]
           y == [k \in DOMAIN ks |-> ds[ks[k]]]
<1>1. Len(ks) \in Nat /\ DOMAIN ks = 1..Len(ks) BY ListElim
<1>2. x = [k \in 1..Len(ks) |-> x[k]] /\ y = [k \in 1..Len(ks) |-> y[k]] BY <1>1
<1>3. \A k \in 1..Len(ks) : TwinCol(x[k], y[k]) /\ (ok => Length(x[k]) = n)
  BY <1>1, ColsOf
<1> HIDE DEF x, y
<1>4. TwinCols(x, y, ok, n) /\ Len(x) = Len(ks) BY <1>1, <1>2, <1>3, ColsIntro
<1>5. QED BY <1>4 DEF x, y

(* A list that is made from another position by position has its length. *)
LEMMA MapLen ==   \* names chosen or made, position by position
  ASSUME NEW ks, IsList(ks), NEW s, s = [k \in DOMAIN ks |-> s[k]]
  PROVE  IsList(s) /\ Len(s) = Len(ks)
BY ListElim, ListIntro

(* A frame with no index. *)
LEMMA NoIndexTwin == ASSUME NEW ok, NEW n PROVE TwinIndex(NoIndex, NoIndex, ok, n)
BY NoCols, EmptyList DEF TwinIndex, NoIndex

(* An index of one level. *)
LEMMA OneIndexTwin ==
  ASSUME NEW c, NEW d, TwinCol(c, d), NEW ok, NEW n, ok => Length(c) = n, NEW name
  PROVE  TwinIndex(Index(c, name), Index(d, name), ok, n)
<1>1. TwinCols(<<c>>, <<d>>, ok, n) BY OneCol
<1>2. IsList(<<name>>) /\ Len(<<name>>) = 1 /\ Len(<<c>>) = 1 BY OneList
<1>3. QED BY <1>1, <1>2 DEF TwinIndex, Index

(* An index of many levels. *)
LEMMA MultiIndexTwin ==
  ASSUME NEW a, NEW b, NEW ok, NEW n, TwinCols(a, b, ok, n), NEW names, IsList(names), Len(names) = Len(a)
  PROVE  TwinIndex(MultiIndex(a, names), MultiIndex(b, names), ok, n)
<1>1. (a = <<>>) <=> (b = <<>>) BY ColsElim
<1>2. CASE a = <<>>
  <2>1. MultiIndex(a, names) = NoIndex /\ MultiIndex(b, names) = NoIndex BY <1>1, <1>2 DEF MultiIndex
  <2>2. QED BY <2>1, NoIndexTwin
<1>3. CASE a # <<>>
  <2>1. /\ MultiIndex(a, names) = [multi |-> TRUE, levels |-> a, names |-> names]
        /\ MultiIndex(b, names) = [multi |-> TRUE, levels |-> b, names |-> names]
    BY <1>1, <1>3 DEF MultiIndex
  <2>2. QED BY <1>3, <2>1 DEF TwinIndex
<1>4. QED BY <1>2, <1>3

(* Twin frames are made of twin columns and twin indexes. *)
LEMMA FrameTwin ==
  ASSUME NEW names, IsList(names), NEW cs, NEW ds, NEW ok, NEW n \in Nat, TwinCols(cs, ds, ok, n),
         Len(names) = Len(cs), NEW a, NEW b, TwinIndex(a, b, ok, n)
  PROVE  Twin(Frame(names, cs, n, a), Frame(names, ds, n, b), ok)
BY DEF Twin, Frame

(* The levels of an index, replaced by twins. *)
LEMMA WithLevelsTwin ==
  ASSUME NEW a, NEW b, NEW p, NEW m, TwinIndex(a, b, p, m), NEW x, NEW y, NEW ok, NEW n,
         TwinCols(x, y, ok, n), Len(x) = Len(a.levels)
  PROVE  TwinIndex(WithLevels(a, x), WithLevels(b, y), ok, n)
<1>1. TwinCols(a.levels, b.levels, p, m) BY DEF TwinIndex
<1>2. x = <<>> <=> a.levels = <<>> BY <1>1, ColsElim
<1>3. QED BY <1>2 DEF TwinIndex, WithLevels

(* Rows taken of an index. *)
LEMMA TakeIndexTwin ==
  ASSUME NEW a, NEW b, NEW p, NEW m, TwinIndex(a, b, p, m), NEW rows, IsList(rows), NEW ok
  PROVE  TwinIndex(TakeIndex(a, rows), TakeIndex(b, rows), ok, Len(rows))
<1>1. TwinCols(a.levels, b.levels, p, m) BY DEF TwinIndex
<1>2. QED BY <1>1, ColsTake, WithLevelsTwin DEF TakeIndex

(* An index, copied. *)
LEMMA CloneIndexTwin ==
  ASSUME NEW a, NEW b, NEW ok, NEW n, TwinIndex(a, b, ok, n)
  PROVE  TwinIndex(CloneIndex(a), CloneIndex(b), ok, n)
<1>1. TwinCols(a.levels, b.levels, ok, n) BY DEF TwinIndex
<1>2. QED BY <1>1, ColsClone, WithLevelsTwin DEF CloneIndex

(* Rows taken of frames: whatever the rows are, the frame they make is *)
(* even.                                                               *)
LEMMA TakeRowsTwin ==
  ASSUME NEW f, NEW g, NEW p, Twin(f, g, p), NEW rows, IsList(rows), NEW ok
  PROVE  Twin(TakeRows(f, rows), TakeRows(g, rows), ok)
<1>1. /\ f.names = g.names /\ IsList(f.names) /\ Len(f.names) = Len(f.cols)
      /\ TwinCols(f.cols, g.cols, p, f.nrows) /\ TwinIndex(f.ix, g.ix, p, f.nrows) BY DEF Twin
<1>2. Len(rows) \in Nat BY ListElim
<1> DEFINE x == [k \in DOMAIN f.cols |-> Take(f.cols[k], rows)]
           y == [k \in DOMAIN g.cols |-> Take(g.cols[k], rows)]
<1>3. TwinCols(x, y, ok, Len(rows)) /\ Len(x) = Len(f.cols) BY <1>1, ColsTake
<1>4. TwinIndex(TakeIndex(f.ix, rows), TakeIndex(g.ix, rows), ok, Len(rows)) BY <1>1, TakeIndexTwin
<1>5. /\ TakeRows(f, rows) = Frame(f.names, x, Len(rows), TakeIndex(f.ix, rows))
      /\ TakeRows(g, rows) = Frame(f.names, y, Len(rows), TakeIndex(g.ix, rows)) BY <1>1 DEF TakeRows
<1> HIDE DEF x, y
<1>6. QED BY <1>1, <1>2, <1>3, <1>4, <1>5, FrameTwin

(* The columns of one name of twin frames are twins, and as long as the *)
(* frame where it is even.                                              *)
LEMMA ColumnOfTwin ==
  ASSUME NEW f, NEW g, NEW ok, Twin(f, g, ok), NEW name, HasColumn(f, name)
  PROVE  /\ Position(f.names, name) \in 1..Len(f.cols) /\ HasColumn(g, name)
         /\ TwinCol(ColumnOf(f, name), ColumnOf(g, name))
         /\ ok => Length(ColumnOf(f, name)) = f.nrows
<1>1. f.names = g.names /\ IsList(f.names) /\ Len(f.names) = Len(f.cols) /\ TwinCols(f.cols, g.cols, ok, f.nrows)
  BY DEF Twin
<1>2. Position(f.names, name) \in 1..Len(f.cols) BY <1>1, PositionFacts DEF HasColumn
<1>3. QED BY <1>1, <1>2, ColsOf DEF ColumnOf, HasColumn

------------------------------------------------------------------------------
(* Masks and row numbers. *)

(* Within the column the nulls buffer says which cells are null. *)
LEMMA NullsOf ==
  ASSUME NEW c, ColumnShape(c), NEW i \in 1..Length(c)
  PROVE  NullAt(c, i) <=> c.nulls[i]
BY LengthNat DEF NullAt

(* Twins have the shape of columns. *)
LEMMA ShapeOf == ASSUME NEW c, NEW d, TwinCol(c, d) PROVE ColumnShape(c) /\ ColumnShape(d)
BY DEF TwinCol

(* A mask is the same for twins if the test is, at every cell that is not *)
(* null.                                                                  *)
LEMMA MaskSame ==
  ASSUME NEW c, NEW d, TwinCol(c, d), NEW h, NEW k, \A i \in 1..Length(c) : ~NullAt(c, i) => (h[i] <=> k[i])
  PROVE  Mask(c, h) = Mask(d, k)
<1>1. Length(c) = Length(d) /\ c.nulls = d.nulls BY TwinReads
<1>2. \A i \in 1..Length(c) : NullAt(c, i) <=> c.nulls[i] BY NullsOf, ShapeOf
<1>3. [i \in 1..Length(c) |-> ~c.nulls[i] /\ h[i]] = [i \in 1..Length(c) |-> ~c.nulls[i] /\ k[i]]
  <2>1. \A i \in 1..Length(c) : (~c.nulls[i] /\ h[i]) <=> (~c.nulls[i] /\ k[i]) BY <1>2
  <2>2. QED BY <2>1
<1>4. QED BY <1>1, <1>3 DEF Mask

(* A comparison with a scalar gives the same mask of twins (the lt and eq *)
(* of a column).                                                          *)
LEMMA CompareSame ==
  ASSUME NEW c, NEW d, TwinCol(c, d), NEW op, NEW x
  PROVE  Compare(c, op, x) = Compare(d, op, x)
<1>1. Length(c) = Length(d) /\ c.cls = d.cls /\ \A i : ~NullAt(c, i) => ValueAt(c, i) = ValueAt(d, i)
  BY TwinReads
<1> DEFINE h == [i \in 1..Length(c) |-> CASE op = "eq" -> ValueAt(c, i) = x
                                    [] op = "gt" -> Less(c.cls, x, ValueAt(c, i))
                                    [] op = "lt" -> Less(c.cls, ValueAt(c, i), x)]
           k == [i \in 1..Length(c) |-> CASE op = "eq" -> ValueAt(d, i) = x
                                    [] op = "gt" -> Less(c.cls, x, ValueAt(d, i))
                                    [] op = "lt" -> Less(c.cls, ValueAt(d, i), x)]
<1>2. ASSUME NEW i \in 1..Length(c), ~NullAt(c, i) PROVE h[i] <=> k[i]
  <2>1. ValueAt(c, i) = ValueAt(d, i) BY <1>1, <1>2
  <2>2. h[i] = k[i]
    <3>1. h[i] = CASE op = "eq" -> ValueAt(c, i) = x
                   [] op = "gt" -> Less(c.cls, x, ValueAt(c, i))
                   [] op = "lt" -> Less(c.cls, ValueAt(c, i), x) BY Zenon
    <3>2. k[i] = CASE op = "eq" -> ValueAt(d, i) = x
                   [] op = "gt" -> Less(c.cls, x, ValueAt(d, i))
                   [] op = "lt" -> Less(c.cls, ValueAt(d, i), x) BY Zenon
    <3> HIDE DEF h, k
    <3>3. QED BY <2>1, <3>1, <3>2, Zenon
  <2>3. QED BY <2>2
<1>3. Compare(c, op, x) = Mask(c, h) /\ Compare(d, op, x) = Mask(d, k) BY <1>1 DEF Compare
<1> HIDE DEF h, k
<1>4. QED BY <1>2, <1>3, MaskSame

(* between gives the same mask of twins, one cell for each row. *)
LEMMA BetweenSame ==
  ASSUME NEW c, NEW d, TwinCol(c, d), NEW lo, NEW hi
  PROVE  Between(c, lo, hi) = Between(d, lo, hi) /\ Length(Between(c, lo, hi)) = Length(c)
<1>1. Length(c) = Length(d) /\ c.cls = d.cls /\ \A i : ~NullAt(c, i) => ValueAt(c, i) = ValueAt(d, i)
  BY TwinReads
<1> DEFINE h == [i \in 1..Length(c) |-> /\ ~Less(c.cls, ValueAt(c, i), lo)
                                  /\ ~Less(c.cls, hi, ValueAt(c, i))]
           k == [i \in 1..Length(c) |-> /\ ~Less(c.cls, ValueAt(d, i), lo)
                                  /\ ~Less(c.cls, hi, ValueAt(d, i))]
<1>2. \A i \in 1..Length(c) : ~NullAt(c, i) => (h[i] <=> k[i]) BY <1>1
<1>3. Between(c, lo, hi) = Mask(c, h) /\ Between(d, lo, hi) = Mask(d, k) BY <1>1 DEF Between
<1> HIDE DEF h, k
<1>4. Length(Mask(c, h)) = Length(c) BY DEF Mask, Column, Length
<1>5. QED BY <1>2, <1>3, <1>4, MaskSame

(* The rows that a mask keeps are rows of the frame. *)
LEMMA KeptFacts ==
  ASSUME NEW mask, Length(mask) \in Nat
  PROVE  IsList(Kept(mask)) /\ ToSet(Kept(mask)) \subseteq 1..Length(mask)
BY RowsInFacts DEF Kept

(* The masks of the session, made with a comparison, a negation or a *)
(* connective.                                                       *)
LEMMA MaskOfSame ==
  ASSUME NEW f, NEW g, NEW ok, Twin(f, g, ok), NEW name, HasColumn(f, name),
         NEW how \in {"lt", "not", "or", "and"}
  PROVE  MaskOf(f, name, how) = MaskOf(g, name, how)
<1> DEFINE c == ColumnOf(f, name)  d == ColumnOf(g, name)
<1>1. TwinCol(c, d) BY ColumnOfTwin
<1> HIDE DEF c, d
<1>2. \A op, x : Compare(c, op, x) = Compare(d, op, x) BY <1>1, CompareSame
<1>3. c.cls = d.cls BY <1>1, TwinReads
<1>4. QED BY <1>2, <1>3 DEF MaskOf, c, d

(* The rows whose cells are not null are the same of twins. *)
LEMMA NonNullSame ==
  ASSUME NEW c, NEW d, TwinCol(c, d)
  PROVE  NonNull(c) = NonNull(d)
BY TwinReads DEF NonNull

(* Those rows are the rows of the column whose cells are not null. *)
LEMMA NonNullFacts ==
  ASSUME NEW c, ColumnShape(c)
  PROVE  IsList(NonNull(c)) /\ ToSet(NonNull(c)) = {i \in 1..Length(c) : ~NullAt(c, i)}
<1>1. Length(c) \in Nat BY LengthNat
<1>2. \A i \in 1..Length(c) : NullAt(c, i) <=> c.nulls[i] BY NullsOf
<1>3. QED BY <1>1, <1>2, RowsInFacts DEF NonNull

(* The permutation sort_by takes the rows through. *)
LEMMA SortRowsSame ==
  ASSUME NEW c, NEW d, TwinCol(c, d), NEW up
  PROVE  SortRows(c, up) = SortRows(d, up)
<1>1. Length(c) = Length(d) /\ c.cls = d.cls /\ c.nulls = d.nulls BY TwinReads
<1> DEFINE cls == IF c.cls = "Cat" THEN "I64" ELSE c.cls
           present == {i \in 1..Length(c) : ~c.nulls[i]}
           b(e) == {p \in present \X present :
                     IF up THEN Less(cls, ValueAt(e, p[1]), ValueAt(e, p[2]))
                     ELSE Less(cls, ValueAt(e, p[2]), ValueAt(e, p[1]))}
<1>2. \A i \in present : ValueAt(c, i) = ValueAt(d, i)
  <2>1. \A i \in 1..Length(c) : NullAt(c, i) <=> c.nulls[i] BY NullsOf, ShapeOf
  <2>2. QED BY <2>1, TwinReads
<1>3. \A p \in present \X present : ValueAt(c, p[1]) = ValueAt(d, p[1]) /\ ValueAt(c, p[2]) = ValueAt(d, p[2])
  BY <1>2
<1> HIDE DEF cls, present
<1>4. b(c) = b(d) BY <1>3
<1> USE DEF cls, present
<1>5. /\ SortRows(c, up) = Sorted(NonNull(c), b(c)) \o RowsIn(Length(c), (1..Length(c)) \ present)
      /\ SortRows(d, up) = Sorted(NonNull(d), b(d)) \o RowsIn(Length(c), (1..Length(c)) \ present)
  BY <1>1 DEF SortRows
<1>6. QED BY <1>4, <1>5, NonNullSame

(* It is a permutation of the rows of the column. *)
LEMMA SortRowsFacts ==
  ASSUME NEW c, ColumnShape(c), NEW up
  PROVE  /\ IsList(SortRows(c, up)) /\ Len(SortRows(c, up)) = Length(c)
         /\ ToSet(SortRows(c, up)) = 1..Length(c)
<1> DEFINE n == Length(c)
           present == {i \in 1..n : ~c.nulls[i]}
           A == RowsIn(n, present)
           B == RowsIn(n, (1..n) \ present)
<1>1. n \in Nat BY LengthNat
<1>2. PICK before : SortRows(c, up) = Sorted(A, before) \o B BY DEF SortRows, NonNull
<1>p. present \subseteq 1..n OBVIOUS
<1> HIDE DEF n, present
<1>3. IsList(A) /\ ToSet(A) = present /\ IsList(B) /\ ToSet(B) = (1..n) \ present
  BY <1>1, <1>p, RowsInFacts
<1>4. Len(A) + Len(B) = n
  <2>1. IsList(Rows(n)) /\ Len(Rows(n)) = n BY <1>1, RowsList
  <2>2. \A k \in 1..n : Rows(n)[k] = k BY DEF Rows
  <2>3. \A k \in 1..Len(Rows(n)) : (Rows(n)[k] \in present) # (Rows(n)[k] \in (1..n) \ present)
    BY <2>1, <2>2
  <2>4. QED BY <2>1, <2>3, AmongShares DEF RowsIn
<1> HIDE DEF A, B
<1>5. /\ IsList(Sorted(A, before)) /\ Len(Sorted(A, before)) = Len(A)
      /\ ToSet(Sorted(A, before)) = ToSet(A) BY <1>3, SortedFacts
<1> DEFINE S == Sorted(A, before)
<1> HIDE DEF S
<1>6. IsList(S) /\ Len(S) = Len(A) /\ ToSet(S) = present BY <1>3, <1>5 DEF S
<1>7. /\ IsList(S \o B) /\ Len(S \o B) = Len(S) + Len(B) /\ ToSet(S \o B) = ToSet(S) \union ToSet(B)
  BY <1>3, <1>6, ConcatList
<1>8. ToSet(S \o B) = 1..n BY <1>3, <1>6, <1>7, <1>p
<1>9. QED BY <1>2, <1>4, <1>6, <1>7, <1>8 DEF S, n

(* The permutation sort_index takes the rows through. *)
LEMMA IndexBeforeSame ==
  ASSUME NEW a, NEW b, NEW ok, NEW n, TwinIndex(a, b, ok, n), NEW i, NEW j
  PROVE  IndexBefore(a, i, j) <=> IndexBefore(b, i, j)
<1>1. TwinCols(a.levels, b.levels, ok, n) /\ a.multi = b.multi BY DEF TwinIndex
<1>2. DOMAIN a.levels = 1..Len(a.levels) /\ DOMAIN b.levels = 1..Len(a.levels) /\ Len(a.levels) \in Nat
  BY <1>1, ColsElim
<1>3. ASSUME NEW k \in 1..Len(a.levels), NEW x, NEW y
      PROVE  LevelBefore(a, k, x, y) <=> LevelBefore(b, k, x, y)
  <2>1. TwinCol(a.levels[k], b.levels[k]) BY <1>1, ColsOf
  <2> DEFINE c == a.levels[k]  d == b.levels[k]
  <2>2. /\ c.cls = d.cls
        /\ \A z : NullAt(c, z) = NullAt(d, z)
        /\ \A z : ~NullAt(c, z) => ValueAt(c, z) = ValueAt(d, z) BY <2>1, TwinReads
  <2>3. /\ LevelBefore(a, k, x, y) <=>
             /\ a.multi \/ c.cls # "Cat"
             /\ ~NullAt(c, x)
             /\ NullAt(c, y) \/ Less(IF c.cls = "Cat" THEN "I64" ELSE c.cls, ValueAt(c, x), ValueAt(c, y))
        /\ LevelBefore(b, k, x, y) <=>
             /\ b.multi \/ d.cls # "Cat"
             /\ ~NullAt(d, x)
             /\ NullAt(d, y) \/ Less(IF d.cls = "Cat" THEN "I64" ELSE d.cls, ValueAt(d, x), ValueAt(d, y))
    BY DEF LevelBefore
  <2> HIDE DEF c, d
  <2>4. QED BY <1>1, <2>2, <2>3
<1>4. \A k \in 1..Len(a.levels) : 1..(k - 1) \subseteq 1..Len(a.levels) BY <1>2
<1>5. QED BY <1>2, <1>3, <1>4 DEF IndexBefore

------------------------------------------------------------------------------
(* Calls that move rows. *)

(* filter of twins. *)
LEMMA FilterTwin ==
  ASSUME NEW f, NEW g, NEW ok, Twin(f, g, ok), NEW mask, Length(mask) = f.nrows
  PROVE  Twin(Filter(f, mask), Filter(g, mask), ok)
<1>1. IsList(Kept(mask)) BY KeptFacts DEF Twin
<1>2. QED BY <1>1, TakeRowsTwin DEF Filter

(* The count that head and tail take is clamped to the rows of the frame. *)
LEMMA ClampFacts ==
  ASSUME NEW f, NEW g, NEW ok, Twin(f, g, ok), NEW n \in Nat
  PROVE  Clamp(n, f) \in 0..f.nrows /\ Clamp(n, g) = Clamp(n, f)
<1>1. f.nrows \in Nat /\ f.nrows = g.nrows BY DEF Twin
<1>2. Min({n, f.nrows}) \in 0..f.nrows BY <1>1, MaxOfTwo
<1>3. Max({0, Min({n, f.nrows})}) = Min({n, f.nrows}) BY <1>1, <1>2, MaxOfTwo
<1>4. QED BY <1>1, <1>2, <1>3 DEF Clamp

(* head of twins. *)
LEMMA HeadTwin ==
  ASSUME NEW f, NEW g, NEW ok, Twin(f, g, ok), NEW n \in Nat
  PROVE  Twin(HeadRows(f, n), HeadRows(g, n), ok)
<1>0. f.nrows \in Nat BY DEF Twin
<1>1. Clamp(n, f) \in Nat /\ Clamp(n, g) = Clamp(n, f) BY <1>0, ClampFacts
<1>2. IsList(Rows(Clamp(n, f))) BY <1>1, RowsList
<1>3. QED BY <1>1, <1>2, TakeRowsTwin DEF HeadRows

(* tail of twins. *)
LEMMA TailTwin ==
  ASSUME NEW f, NEW g, NEW ok, Twin(f, g, ok), NEW n \in Nat
  PROVE  Twin(TailRows(f, n), TailRows(g, n), ok)
<1>0. f.nrows \in Nat /\ f.nrows = g.nrows BY DEF Twin
<1>1. Clamp(n, f) \in Nat /\ Clamp(n, g) = Clamp(n, f) /\ f.nrows = g.nrows BY <1>0, ClampFacts
<1> DEFINE rows == [k \in 1..Clamp(n, f) |-> f.nrows - Clamp(n, f) + k]
<1>2. rows = [k \in 1..Clamp(n, f) |-> rows[k]] OBVIOUS
<1>3. TailRows(f, n) = TakeRows(f, rows) /\ TailRows(g, n) = TakeRows(g, rows) BY <1>1 DEF TailRows
<1> HIDE DEF rows
<1>4. IsList(rows) BY <1>1, <1>2, ListIntro
<1>5. QED BY <1>3, <1>4, TakeRowsTwin

(* A bound of iloc, negative or not, is brought within the rows. *)
LEMMA BoundFacts ==
  ASSUME NEW x \in Int, NEW n \in Nat
  PROVE  Bound(x, n) \in 0..n
<1> DEFINE y == IF x < 0 THEN x + n ELSE x
<1>1. y \in Int OBVIOUS
<1>2. Bound(x, n) = Max({0, Min({y, n})}) BY DEF Bound
<1> HIDE DEF y
<1>i. n \in Int OBVIOUS
<1>m. Min({y, n}) = IF y <= n THEN y ELSE n BY <1>1, <1>i, MaxOfTwo
<1>3. Min({y, n}) \in Int /\ Min({y, n}) <= n BY <1>1, <1>m
<1>4. QED BY <1>2, <1>3, MaxOfTwo

(* The rows from one bound to another are rows of the frame. *)
LEMMA SliceFacts ==
  ASSUME NEW n \in Nat, NEW lo \in 0..n, NEW hi \in 0..n
  PROVE  IsList(Slice(lo, hi)) /\ \A k \in 1..Len(Slice(lo, hi)) : Slice(lo, hi)[k] \in 1..n
<1> DEFINE m == IF lo < hi THEN hi - lo ELSE 0
           s == Slice(lo, hi)
<1>1. m \in Nat OBVIOUS
<1>2. s = [k \in 1..m |-> lo + k] BY DEF Slice
<1>3. \A k \in 1..m : lo + k \in 1..n OBVIOUS
<1> HIDE DEF m, s
<1>4. IsList(s) /\ Len(s) = m BY <1>1, <1>2, ListIntro
<1>5. QED BY <1>2, <1>3, <1>4 DEF s

(* iloc of twins. *)
LEMMA ILocTwin ==
  ASSUME NEW f, NEW g, NEW ok, Twin(f, g, ok), NEW lo \in Int, NEW hi \in Int
  PROVE  Twin(ILoc(f, lo, hi), ILoc(g, lo, hi), ok)
<1>1. f.nrows = g.nrows /\ f.nrows \in Nat BY DEF Twin
<1>2. IsList(Slice(Bound(lo, f.nrows), Bound(hi, f.nrows))) BY <1>1, BoundFacts, SliceFacts
<1>3. QED BY <1>1, <1>2, TakeRowsTwin DEF ILoc

(* iloc of rows and columns, of twins. *)
LEMMA ILoc2DTwin ==
  ASSUME NEW f, NEW g, NEW ok, Twin(f, g, ok),
         NEW r1 \in Int, NEW r2 \in Int, NEW c1 \in Int, NEW c2 \in Int
  PROVE  Twin(ILoc2D(f, r1, r2, c1, c2), ILoc2D(g, r1, r2, c1, c2), ok)
<1>1. /\ f.nrows = g.nrows /\ f.nrows \in Nat /\ f.names = g.names
      /\ TwinCols(f.cols, g.cols, ok, f.nrows) /\ TwinIndex(f.ix, g.ix, ok, f.nrows) BY DEF Twin
<1>2. Len(f.cols) \in Nat /\ Len(g.cols) = Len(f.cols) BY <1>1, ColsElim
<1> DEFINE rows == Slice(Bound(r1, f.nrows), Bound(r2, f.nrows))
           cs == Slice(Bound(c1, Len(f.cols)), Bound(c2, Len(f.cols)))
           names == [k \in DOMAIN cs |-> f.names[cs[k]]]
           x == [k \in DOMAIN cs |-> f.cols[cs[k]]]
           y == [k \in DOMAIN cs |-> g.cols[cs[k]]]
<1>3. IsList(rows) BY <1>1, BoundFacts, SliceFacts
<1>4. IsList(cs) /\ \A k \in 1..Len(cs) : cs[k] \in 1..Len(f.cols) BY <1>2, BoundFacts, SliceFacts
<1>5. DOMAIN x = DOMAIN cs /\ DOMAIN y = DOMAIN cs /\ names = [k \in DOMAIN cs |-> names[k]] OBVIOUS
<1>6. /\ ILoc2D(f, r1, r2, c1, c2)
           = Frame(names, [k \in DOMAIN x |-> Take(x[k], rows)], Len(rows), TakeIndex(f.ix, rows))
      /\ ILoc2D(g, r1, r2, c1, c2)
           = Frame(names, [k \in DOMAIN y |-> Take(y[k], rows)], Len(rows), TakeIndex(g.ix, rows))
  BY <1>1, <1>2 DEF ILoc2D
<1> HIDE DEF rows, cs
<1>7. TwinCols(x, y, ok, f.nrows) /\ Len(x) = Len(cs) BY <1>1, <1>4, ColsChosen
<1> HIDE DEF x, y, names
<1>8. IsList(names) /\ Len(names) = Len(cs) BY <1>4, <1>5, MapLen
<1>9. /\ TwinCols([k \in DOMAIN x |-> Take(x[k], rows)], [k \in DOMAIN y |-> Take(y[k], rows)], ok, Len(rows))
      /\ Len([k \in DOMAIN x |-> Take(x[k], rows)]) = Len(x) BY <1>3, <1>7, ColsTake
<1>10. TwinIndex(TakeIndex(f.ix, rows), TakeIndex(g.ix, rows), ok, Len(rows)) BY <1>1, <1>3, TakeIndexTwin
<1>11. Len(rows) \in Nat BY <1>3, ListElim
<1>12. QED BY <1>6, <1>7, <1>8, <1>9, <1>10, <1>11, FrameTwin

(* dropna of twins: it asks only which cells are null. *)
LEMMA DropNaTwin ==
  ASSUME NEW f, NEW g, NEW ok, Twin(f, g, ok), NEW names
  PROVE  Twin(DropNa(f, names), DropNa(g, names), ok)
<1>1. /\ f.nrows = g.nrows /\ f.nrows \in Nat /\ f.names = g.names /\ IsList(f.names)
      /\ Len(f.names) = Len(f.cols) /\ TwinCols(f.cols, g.cols, ok, f.nrows) BY DEF Twin
<1>2. DOMAIN f.names = 1..Len(f.cols) BY <1>1, ListElim
<1>3. \A k \in DOMAIN f.names : \A i : NullAt(f.cols[k], i) = NullAt(g.cols[k], i)
  BY <1>1, <1>2, ColsOf, TwinReads
<1> DEFINE S == {i \in 1..f.nrows : \A k \in DOMAIN f.names : f.names[k] \in names => ~NullAt(f.cols[k], i)}
<1>4. S = {i \in 1..f.nrows : \A k \in DOMAIN f.names : f.names[k] \in names => ~NullAt(g.cols[k], i)}
  BY <1>3
<1>5. /\ DropNa(f, names) = TakeRows(f, RowsIn(f.nrows, S))
      /\ DropNa(g, names) = TakeRows(g, RowsIn(f.nrows, S)) BY <1>1, <1>4 DEF DropNa
<1> HIDE DEF S
<1>6. IsList(RowsIn(f.nrows, S)) BY <1>1, RowsInFacts
<1>7. QED BY <1>5, <1>6, TakeRowsTwin

(* sort_by of twins: null cells are ordered by their nulls and not by what *)
(* is under them.                                                          *)
LEMMA SortByTwin ==
  ASSUME NEW f, NEW g, NEW ok, Twin(f, g, ok), NEW name, HasColumn(f, name), NEW up
  PROVE  Twin(SortBy(f, name, up), SortBy(g, name, up), ok)
<1> DEFINE c == ColumnOf(f, name)
           rows == SortRows(c, up)
<1>1. TwinCol(c, ColumnOf(g, name)) /\ (ok => Length(c) = f.nrows) BY ColumnOfTwin
<1>2. rows = SortRows(ColumnOf(g, name), up) BY <1>1, SortRowsSame
<1>3. IsList(rows) /\ Len(rows) = Length(c) BY <1>1, ShapeOf, SortRowsFacts
<1>4. /\ f.nrows = g.nrows /\ f.nrows \in Nat /\ f.names = g.names
      /\ TwinIndex(f.ix, g.ix, ok, f.nrows) BY DEF Twin
<1>5. /\ SortBy(f, name, up) = Frame(f.names, TakeRows(f, rows).cols, f.nrows, TakeIndex(f.ix, rows))
      /\ SortBy(g, name, up) = Frame(f.names, TakeRows(g, rows).cols, f.nrows, TakeIndex(g.ix, rows))
  BY <1>2, <1>4 DEF SortBy
<1> HIDE DEF rows, c
<1>6. Twin(TakeRows(f, rows), TakeRows(g, rows), ok) BY <1>3, TakeRowsTwin
<1>7. /\ TakeRows(f, rows).nrows = Len(rows) /\ TakeRows(f, rows).names = f.names
      /\ TakeRows(f, rows).ix = TakeIndex(f.ix, rows)
      /\ TakeRows(g, rows).ix = TakeIndex(g.ix, rows) BY DEF TakeRows, Frame
<1>8. ok => Len(rows) = f.nrows BY <1>1, <1>3
<1>9. /\ TwinCols(TakeRows(f, rows).cols, TakeRows(g, rows).cols, ok, f.nrows)
      /\ TwinIndex(TakeIndex(f.ix, rows), TakeIndex(g.ix, rows), ok, f.nrows)
      /\ IsList(f.names) /\ Len(f.names) = Len(TakeRows(f, rows).cols)
  BY <1>6, <1>7, <1>8 DEF Twin, TwinCols, TwinIndex
<1>10. QED BY <1>4, <1>5, <1>9, FrameTwin

(* A list, reversed. *)
LEMMA ReverseList ==
  ASSUME NEW s, IsList(s)
  PROVE  IsList(Reverse(s)) /\ Len(Reverse(s)) = Len(s) /\ ToSet(Reverse(s)) = ToSet(s)
<1>1. Len(s) \in Nat /\ DOMAIN s = 1..Len(s) BY ListElim
<1> DEFINE r == Reverse(s)
<1>2. r = [i \in 1..Len(s) |-> s[(Len(s) - i) + 1]] BY DEF Reverse
<1>3. r = [i \in 1..Len(s) |-> r[i]] BY <1>2
<1> HIDE DEF r
<1>4. IsList(r) /\ Len(r) = Len(s) BY <1>1, <1>3, ListIntro
<1>5. ASSUME NEW x PROVE x \in ToSet(r) <=> x \in ToSet(s)
  <2>1. \A i \in 1..Len(s) : (Len(s) - i) + 1 \in 1..Len(s) /\ (Len(s) - ((Len(s) - i) + 1)) + 1 = i BY <1>1
  <2>2. (\E i \in 1..Len(s) : r[i] = x) <=> (\E i \in 1..Len(s) : s[i] = x) BY <1>2, <2>1
  <2>3. QED BY <1>4, <2>2, MemberOfList
<1>6. QED BY <1>4, <1>5 DEF r

(* Twins have the shape of frames, and are even where it is asked. *)
LEMMA TwinShapes ==
  ASSUME NEW f, NEW g, NEW ok, Twin(f, g, ok)
  PROVE  FrameShape(f) /\ FrameShape(g) /\ (ok => Even(f) /\ Even(g))
<1>1. TwinCols(f.cols, g.cols, ok, f.nrows) /\ TwinCols(f.ix.levels, g.ix.levels, ok, f.nrows)
  BY DEF Twin, TwinIndex
<1>2. /\ DOMAIN f.cols = 1..Len(f.cols) /\ DOMAIN g.cols = 1..Len(f.cols)
      /\ DOMAIN f.ix.levels = 1..Len(f.ix.levels) /\ DOMAIN g.ix.levels = 1..Len(f.ix.levels)
      /\ (f.ix.levels = <<>>) <=> (g.ix.levels = <<>>)
  BY <1>1, ColsElim
<1>3. /\ \A k \in DOMAIN f.cols : ColumnShape(f.cols[k]) /\ ColumnShape(g.cols[k])
      /\ \A k \in DOMAIN f.ix.levels : ColumnShape(f.ix.levels[k]) /\ ColumnShape(g.ix.levels[k])
  BY <1>1, <1>2, ColsOf, ShapeOf
<1>4. IndexShape(f.ix) /\ IndexShape(g.ix) BY <1>2, <1>3 DEF Twin, TwinIndex, TwinCols, IndexShape
<1>5. FrameShape(f) /\ FrameShape(g) BY <1>2, <1>3, <1>4 DEF Twin, TwinCols, FrameShape
<1>6. ASSUME ok PROVE Even(f) /\ Even(g)
  <2>1. /\ \A k \in DOMAIN f.cols : Length(f.cols[k]) = f.nrows /\ Length(g.cols[k]) = f.nrows
        /\ \A k \in DOMAIN f.ix.levels : Length(f.ix.levels[k]) = f.nrows /\ Length(g.ix.levels[k]) = f.nrows
    <3>1. /\ \A k \in 1..Len(f.cols) : TwinCol(f.cols[k], g.cols[k]) /\ Length(f.cols[k]) = f.nrows
          /\ \A k \in 1..Len(f.ix.levels) : /\ TwinCol(f.ix.levels[k], g.ix.levels[k])
                                            /\ Length(f.ix.levels[k]) = f.nrows
      BY <1>1, <1>6, ColsOf
    <3>2. /\ \A k \in 1..Len(f.cols) : Length(g.cols[k]) = f.nrows
          /\ \A k \in 1..Len(f.ix.levels) : Length(g.ix.levels[k]) = f.nrows
      BY <3>1, TwinReads
    <3>3. QED BY <1>2, <3>1, <3>2
  <2>2. QED BY <1>2, <2>1 DEF Even, AllLong, Twin
<1>7. QED BY <1>5, <1>6

(* sort_index of twins. *)
LEMMA SortIndexTwin ==
  ASSUME NEW f, NEW g, NEW ok, Twin(f, g, ok), f.ix.levels # <<>>, NEW up
  PROVE  Twin(SortIndex(f, up), SortIndex(g, up), ok)
<1>1. TwinIndex(f.ix, g.ix, ok, f.nrows) /\ TwinCols(f.ix.levels, g.ix.levels, ok, f.nrows) BY DEF Twin, TwinIndex
<1>2. 1 \in 1..Len(f.ix.levels) BY <1>1, ColsElim
<1>3. TwinCol(f.ix.levels[1], g.ix.levels[1]) BY <1>1, <1>2, ColsOf
<1> DEFINE n == Length(f.ix.levels[1])
           before == {p \in (1..n) \X (1..n) : IndexBefore(f.ix, p[1], p[2])}
           perm == Sorted(Rows(n), before)
           rows == IF up THEN perm ELSE Reverse(perm)
<1>4. n \in Nat /\ n = Length(g.ix.levels[1]) BY <1>3, TwinReads
<1>5. before = {p \in (1..n) \X (1..n) : IndexBefore(g.ix, p[1], p[2])} BY <1>1, IndexBeforeSame
<1>6. SortIndex(f, up) = TakeRows(f, rows) /\ SortIndex(g, up) = TakeRows(g, rows)
  BY <1>4, <1>5 DEF SortIndex
<1> HIDE DEF n, before
<1>7. IsList(perm) BY <1>4, RowsList, SortedFacts
<1> HIDE DEF perm
<1>8. IsList(rows) BY <1>7, ReverseList
<1> HIDE DEF rows
<1>9. QED BY <1>6, <1>8, TakeRowsTwin

(* loc by a range of one level, of twins. *)
LEMMA LocRangeLevelTwin ==
  ASSUME NEW f, NEW g, NEW ok, Twin(f, g, ok), NEW k \in 1..Len(f.ix.levels), NEW lo, NEW hi
  PROVE  Twin(LocRangeLevel(f, k, lo, hi), LocRangeLevel(g, k, lo, hi), ok)
<1>1. TwinCol(f.ix.levels[k], g.ix.levels[k]) BY ColsOf DEF Twin, TwinIndex
<1> DEFINE mask == Between(f.ix.levels[k], lo, hi)
<1>2. mask = Between(g.ix.levels[k], lo, hi) /\ Length(mask) \in Nat BY <1>1, BetweenSame, TwinReads
<1>3. LocRangeLevel(f, k, lo, hi) = TakeRows(f, Kept(mask)) /\ LocRangeLevel(g, k, lo, hi) = TakeRows(g, Kept(mask))
  BY <1>2 DEF LocRangeLevel
<1> HIDE DEF mask
<1>4. IsList(Kept(mask)) BY <1>2, KeptFacts
<1>5. QED BY <1>3, <1>4, TakeRowsTwin

(* loc by a label, of twins. *)
LEMMA SelectByLabelTwin ==
  ASSUME NEW f, NEW g, NEW ok, Twin(f, g, ok), f.ix.levels # <<>>, NEW x
  PROVE  Twin(SelectByLabel(f, x), SelectByLabel(g, x), ok)
<1>1. TwinCols(f.ix.levels, g.ix.levels, ok, f.nrows) BY DEF Twin, TwinIndex
<1>2. 1 \in 1..Len(f.ix.levels) BY <1>1, ColsElim
<1> DEFINE c == f.ix.levels[1]  d == g.ix.levels[1]
<1>3. TwinCol(c, d) BY <1>1, <1>2, ColsOf
<1>4. LabelRow(f, x) = FirstOf({i \in 1..Length(c) : ~c.nulls[i] /\ ValueAt(c, i) = x}) BY DEF LabelRow
<1>5. LabelRow(g, x) = FirstOf({i \in 1..Length(d) : ~d.nulls[i] /\ ValueAt(d, i) = x}) BY DEF LabelRow
<1> HIDE DEF c, d
<1>6. \A i \in 1..Length(c) : NullAt(c, i) <=> c.nulls[i] BY <1>3, NullsOf, ShapeOf
<1>7. /\ Length(c) = Length(d) /\ c.nulls = d.nulls
      /\ \A i : ~NullAt(c, i) => ValueAt(c, i) = ValueAt(d, i) BY <1>3, TwinReads
<1>8. \A i \in 1..Length(c) : (~c.nulls[i] /\ ValueAt(c, i) = x) <=> (~d.nulls[i] /\ ValueAt(d, i) = x)
  BY <1>6, <1>7
<1>9. LabelRow(f, x) = LabelRow(g, x) BY <1>4, <1>5, <1>7, <1>8
<1>10. IsList(<<LabelRow(f, x)>>) BY OneList
<1>11. QED BY <1>9, <1>10, TakeRowsTwin DEF SelectByLabel

------------------------------------------------------------------------------
(* Calls that move columns. *)

(* The entries of the list of the rows in a set. *)
LEMMA RowsInEntries ==
  ASSUME NEW n \in Nat, NEW S
  PROVE  /\ IsList(RowsIn(n, S)) /\ Len(RowsIn(n, S)) \in Nat
         /\ DOMAIN RowsIn(n, S) = 1..Len(RowsIn(n, S))
         /\ \A k \in 1..Len(RowsIn(n, S)) : RowsIn(n, S)[k] \in 1..n /\ RowsIn(n, S)[k] \in S
<1> DEFINE s == RowsIn(n, S)
<1>1. IsList(s) /\ ToSet(s) = (1..n) \intersect S BY RowsInFacts
<1> HIDE DEF s
<1>2. \A k \in 1..Len(s) : s[k] \in ToSet(s) BY <1>1, MemberOfList
<1>3. Len(s) \in Nat /\ DOMAIN s = 1..Len(s) BY <1>1, ListElim
<1>4. QED BY <1>1, <1>2, <1>3 DEF s

(* Twins with columns of the frame's length are twins. *)
LEMMA TwinWeaken ==
  ASSUME NEW f, NEW g, NEW p, Twin(f, g, p), NEW q, q => p
  PROVE  Twin(f, g, q)
BY DEF Twin, TwinCols, TwinIndex

(* What twin frames have in common, part by part. *)
LEMMA TwinParts ==
  ASSUME NEW f, NEW g, NEW ok, Twin(f, g, ok)
  PROVE  /\ f.names = g.names /\ IsList(f.names) /\ Len(f.names) = Len(f.cols) /\ Len(f.names) \in Nat
         /\ DOMAIN f.names = 1..Len(f.cols)
         /\ f.nrows = g.nrows /\ f.nrows \in Nat
         /\ TwinCols(f.cols, g.cols, ok, f.nrows)
         /\ Len(g.cols) = Len(f.cols) /\ DOMAIN f.cols = 1..Len(f.cols) /\ DOMAIN g.cols = 1..Len(f.cols)
         /\ (f.cols = <<>>) <=> (g.cols = <<>>)
         /\ TwinIndex(f.ix, g.ix, ok, f.nrows)
<1>1. /\ f.names = g.names /\ IsList(f.names) /\ Len(f.names) = Len(f.cols)
      /\ f.nrows = g.nrows /\ f.nrows \in Nat
      /\ TwinCols(f.cols, g.cols, ok, f.nrows) /\ TwinIndex(f.ix, g.ix, ok, f.nrows) BY DEF Twin
<1>2. DOMAIN f.names = 1..Len(f.names) /\ Len(f.names) \in Nat BY <1>1, ListElim
<1>3. QED BY <1>1, <1>2, ColsElim

(* What the indexes of twin frames have in common, part by part. *)
LEMMA IndexParts ==
  ASSUME NEW a, NEW b, NEW ok, NEW n, TwinIndex(a, b, ok, n)
  PROVE  /\ TwinCols(a.levels, b.levels, ok, n)
         /\ a.names = b.names /\ IsList(a.names) /\ Len(a.names) = Len(a.levels)
         /\ a.multi = b.multi /\ a.multi \in BOOLEAN
         /\ DOMAIN a.names = 1..Len(a.levels)
         /\ Len(a.levels) \in Nat /\ Len(b.levels) = Len(a.levels)
         /\ DOMAIN a.levels = 1..Len(a.levels) /\ DOMAIN b.levels = 1..Len(a.levels)
         /\ (a.levels = <<>>) <=> (b.levels = <<>>)
         /\ a.levels # <<>> => 1 \in 1..Len(a.levels)
         /\ a.multi => a.levels # <<>>
         /\ ~a.multi => Len(a.levels) <= 1
<1>1. /\ TwinCols(a.levels, b.levels, ok, n)
      /\ a.names = b.names /\ IsList(a.names) /\ Len(a.names) = Len(a.levels)
      /\ a.multi = b.multi /\ a.multi \in BOOLEAN
      /\ a.multi => a.levels # <<>>
      /\ ~a.multi => Len(a.levels) <= 1 BY DEF TwinIndex
<1>2. DOMAIN a.names = 1..Len(a.names) BY <1>1, ListElim
<1>3. /\ Len(a.levels) \in Nat /\ Len(b.levels) = Len(a.levels)
      /\ DOMAIN a.levels = 1..Len(a.levels) /\ DOMAIN b.levels = 1..Len(a.levels)
      /\ (a.levels = <<>>) <=> (Len(a.levels) = 0)
      /\ (b.levels = <<>>) <=> (Len(a.levels) = 0) BY <1>1, ColsElim
<1>4. a.levels # <<>> => 1 \in 1..Len(a.levels) BY <1>3
<1>5. QED BY <1>1, <1>2, <1>3, <1>4

(* Columns picked by their positions. *)
LEMMA PickTwin ==
  ASSUME NEW f, NEW g, NEW ok, Twin(f, g, ok),
         NEW ks, IsList(ks), \A k \in 1..Len(ks) : ks[k] \in 1..Len(f.cols)
  PROVE  Twin(Pick(f, ks), Pick(g, ks), ok) /\ Pick(f, ks).nrows = f.nrows
<1>1. /\ f.names = g.names /\ f.nrows = g.nrows /\ f.nrows \in Nat
      /\ TwinCols(f.cols, g.cols, ok, f.nrows) /\ TwinIndex(f.ix, g.ix, ok, f.nrows) BY TwinParts
<1> DEFINE names == [k \in DOMAIN ks |-> f.names[ks[k]]]
           x == [k \in DOMAIN ks |-> f.cols[ks[k]]]
           y == [k \in DOMAIN ks |-> g.cols[ks[k]]]
<1>2. names = [k \in DOMAIN ks |-> names[k]] OBVIOUS
<1>3. TwinCols(x, y, ok, f.nrows) /\ Len(x) = Len(ks) BY <1>1, ColsChosen
<1>4. /\ Pick(f, ks) = Frame(names, x, f.nrows, CloneIndex(f.ix))
      /\ Pick(g, ks) = Frame(names, y, f.nrows, CloneIndex(g.ix)) BY <1>1 DEF Pick
<1> HIDE DEF names, x, y
<1>5. IsList(names) /\ Len(names) = Len(ks) BY <1>2, MapLen
<1>6. TwinIndex(CloneIndex(f.ix), CloneIndex(g.ix), ok, f.nrows) BY <1>1, CloneIndexTwin
<1>7. Twin(Pick(f, ks), Pick(g, ks), ok) BY <1>1, <1>3, <1>4, <1>5, <1>6, FrameTwin
<1>8. QED BY <1>4, <1>7 DEF Frame

(* select of twins. *)
LEMMA SelectTwin ==
  ASSUME NEW f, NEW g, NEW ok, Twin(f, g, ok),
         NEW names, IsList(names), \A k \in 1..Len(names) : HasColumn(f, names[k])
  PROVE  Twin(Select(f, names), Select(g, names), ok)
<1> DEFINE ks == [k \in DOMAIN names |-> Position(f.names, names[k])]
<1>1. f.names = g.names BY TwinParts
<1>2. DOMAIN names = 1..Len(names) BY ListElim
<1>3. ks = [k \in DOMAIN names |-> ks[k]] OBVIOUS
<1>4. \A k \in 1..Len(names) : ks[k] \in 1..Len(f.cols) BY <1>2, ColumnOfTwin
<1>5. Select(f, names) = Pick(f, ks) /\ Select(g, names) = Pick(g, ks) BY <1>1 DEF Select
<1> HIDE DEF ks
<1>6. IsList(ks) /\ Len(ks) = Len(names) BY <1>3, MapLen
<1>7. QED BY <1>4, <1>5, <1>6, PickTwin

(* The columns that are left when some are set apart, picked. *)
LEMMA PickRestTwin ==
  ASSUME NEW f, NEW g, NEW ok, Twin(f, g, ok), NEW S
  PROVE  /\ Twin(Pick(f, RowsIn(Len(f.names), S)), Pick(g, RowsIn(Len(g.names), S)), ok)
         /\ Pick(f, RowsIn(Len(f.names), S)).nrows = f.nrows
<1>1. f.names = g.names /\ Len(f.names) \in Nat /\ Len(f.names) = Len(f.cols) BY TwinParts
<1> DEFINE ks == RowsIn(Len(f.names), S)
<1>2. IsList(ks) /\ \A k \in 1..Len(ks) : ks[k] \in 1..Len(f.cols) BY <1>1, RowsInEntries
<1> HIDE DEF ks
<1>3. QED BY <1>1, <1>2, PickTwin DEF ks

(* drop of twins. *)
LEMMA DropTwin ==
  ASSUME NEW f, NEW g, NEW ok, Twin(f, g, ok), NEW names
  PROVE  Twin(Drop(f, names), Drop(g, names), ok)
<1>1. f.names = g.names BY TwinParts
<1>2. QED BY <1>1, PickRestTwin DEF Drop

(* rename of twins. *)
LEMMA RenameTwin ==
  ASSUME NEW f, NEW g, NEW ok, Twin(f, g, ok), NEW old, NEW new
  PROVE  Twin(Rename(f, old, new), Rename(g, old, new), ok)
<1>1. /\ f.names = g.names /\ IsList(f.names) /\ Len(f.names) = Len(f.cols)
      /\ f.nrows = g.nrows /\ f.nrows \in Nat
      /\ TwinCols(f.cols, g.cols, ok, f.nrows) /\ TwinIndex(f.ix, g.ix, ok, f.nrows) BY TwinParts
<1> DEFINE at == Position(f.names, old)
           names == IF at = 0 THEN f.names ELSE [f.names EXCEPT ![at] = new]
<1>2. Len(f.names) \in Nat /\ DOMAIN f.names = 1..Len(f.names)
      /\ f.names = [k \in 1..Len(f.names) |-> f.names[k]] BY <1>1, ListElim
<1>3. names = [k \in 1..Len(f.names) |-> names[k]] BY <1>2
<1>4. /\ Rename(f, old, new) = Frame(names, f.cols, f.nrows, CloneIndex(f.ix))
      /\ Rename(g, old, new) = Frame(names, g.cols, f.nrows, CloneIndex(g.ix)) BY <1>1 DEF Rename
<1> HIDE DEF names
<1>5. IsList(names) /\ Len(names) = Len(f.cols) BY <1>1, <1>2, <1>3, ListIntro
<1>6. TwinIndex(CloneIndex(f.ix), CloneIndex(g.ix), ok, f.nrows) BY <1>1, CloneIndexTwin
<1>7. QED BY <1>1, <1>4, <1>5, <1>6, FrameTwin

(* A fill writes its value over whatever is under a null cell: the filled *)
(* columns of twins are equal.                                            *)
LEMMA FillNullFacts ==
  ASSUME NEW c, NEW d, TwinCol(c, d), NEW x, c.cls # "DateTime"
  PROVE  /\ FillNull(c, x) = FillNull(d, x)
         /\ ColumnShape(FillNull(c, x)) /\ Length(FillNull(c, x)) = Length(c)
<1>1. /\ Length(c) = Length(d) /\ Length(c) \in Nat /\ c.cls = d.cls /\ c.nulls = d.nulls
      /\ \A i : ~NullAt(c, i) => ValueAt(c, i) = ValueAt(d, i) BY TwinReads
<1>2. \A i \in 1..Length(c) : NullAt(c, i) <=> c.nulls[i] BY NullsOf, ShapeOf
<1> DEFINE v(e) == [i \in 1..Length(c) |-> IF c.nulls[i] THEN x ELSE ValueAt(e, i)]
           w == v(c)
<1>3. v(c) = v(d) BY <1>1, <1>2
<1>4. FillNull(c, x) = Whole(c.cls, w) /\ FillNull(d, x) = Whole(c.cls, w) BY <1>1, <1>3 DEF FillNull
<1>5. w = [i \in 1..Length(c) |-> w[i]] OBVIOUS
<1> HIDE DEF w
<1>6. IsList(w) /\ Len(w) = Length(c) BY <1>1, <1>5, ListIntro
<1>7. Times(c.cls, w) BY DEF Times
<1>8. QED BY <1>4, <1>6, <1>7, WholeMade

(* fillna of twins. *)
LEMMA FillNaTwin ==
  ASSUME NEW f, NEW g, NEW ok, Twin(f, g, ok), NEW cls, NEW x, cls # "DateTime"
  PROVE  Twin(FillNa(f, cls, x), FillNa(g, cls, x), ok)
<1>1. /\ f.names = g.names /\ IsList(f.names) /\ Len(f.names) = Len(f.cols) /\ Len(f.names) \in Nat
      /\ f.nrows = g.nrows /\ f.nrows \in Nat
      /\ TwinCols(f.cols, g.cols, ok, f.nrows) /\ TwinIndex(f.ix, g.ix, ok, f.nrows)
      /\ DOMAIN f.cols = 1..Len(f.cols) /\ DOMAIN g.cols = 1..Len(f.cols) BY TwinParts
<1> DEFINE u == [k \in DOMAIN f.cols |-> IF f.cols[k].cls = cls THEN FillNull(f.cols[k], x) ELSE f.cols[k]]
           v == [k \in DOMAIN g.cols |-> IF g.cols[k].cls = cls THEN FillNull(g.cols[k], x) ELSE g.cols[k]]
<1>2. u = [k \in 1..Len(f.cols) |-> u[k]] /\ v = [k \in 1..Len(f.cols) |-> v[k]] BY <1>1
<1>3. ASSUME NEW k \in 1..Len(f.cols) PROVE TwinCol(u[k], v[k]) /\ (ok => Length(u[k]) = f.nrows)
  <2> DEFINE c == f.cols[k]  d == g.cols[k]
  <2>1. TwinCol(c, d) /\ (ok => Length(c) = f.nrows) BY <1>1, ColsOf
  <2>2. /\ u[k] = IF c.cls = cls THEN FillNull(c, x) ELSE c
        /\ v[k] = IF d.cls = cls THEN FillNull(d, x) ELSE d BY <1>1
  <2> HIDE DEF c, d, u, v
  <2>3. c.cls = d.cls BY <2>1, TwinReads
  <2>4. c.cls = cls => /\ FillNull(c, x) = FillNull(d, x)
        /\ ColumnShape(FillNull(c, x)) /\ Length(FillNull(c, x)) = Length(c) BY <2>1, FillNullFacts
  <2>5. c.cls = cls => TwinCol(FillNull(c, x), FillNull(c, x)) BY <2>4, SelfTwin
  <2>6. QED BY <2>1, <2>2, <2>3, <2>4, <2>5
<1>4. /\ FillNa(f, cls, x) = Frame(f.names, u, f.nrows, CloneIndex(f.ix))
      /\ FillNa(g, cls, x) = Frame(f.names, v, f.nrows, CloneIndex(g.ix)) BY <1>1 DEF FillNa
<1> HIDE DEF u, v
<1>5. TwinCols(u, v, ok, f.nrows) /\ Len(u) = Len(f.cols) BY <1>1, <1>2, <1>3, ColsIntro
<1>6. TwinIndex(CloneIndex(f.ix), CloneIndex(g.ix), ok, f.nrows) BY <1>1, CloneIndexTwin
<1>7. QED BY <1>1, <1>4, <1>5, <1>6, FrameTwin

(* A frame with another index. *)
LEMMA ReindexedTwin ==
  ASSUME NEW f, NEW g, NEW ok, Twin(f, g, ok), NEW a, NEW b, TwinIndex(a, b, ok, f.nrows)
  PROVE  Twin(Reindexed(f, a), Reindexed(g, b), ok)
<1>1. /\ f.names = g.names /\ IsList(f.names) /\ Len(f.names) = Len(f.cols)
      /\ f.nrows = g.nrows /\ f.nrows \in Nat /\ TwinCols(f.cols, g.cols, ok, f.nrows) BY TwinParts
<1>2. QED BY <1>1, FrameTwin DEF Reindexed

(* set_index of twins. *)
LEMMA SetIndexTwin ==
  ASSUME NEW f, NEW g, NEW ok, Twin(f, g, ok), NEW name, HasColumn(f, name)
  PROVE  Twin(SetIndex(f, name), SetIndex(g, name), ok)
<1> DEFINE S == DOMAIN f.names \ {Position(f.names, name)}
           x == Pick(f, RowsIn(Len(f.names), S))
           y == Pick(g, RowsIn(Len(g.names), S))
           a == Index(Clone(ColumnOf(f, name)), name)
           b == Index(Clone(ColumnOf(g, name)), name)
<1>1. f.names = g.names BY TwinParts
<1>2. SetIndex(f, name) = Reindexed(x, a) /\ SetIndex(g, name) = Reindexed(y, b) BY <1>1 DEF SetIndex
<1>3. TwinCol(ColumnOf(f, name), ColumnOf(g, name)) /\ (ok => Length(ColumnOf(f, name)) = f.nrows)
  BY ColumnOfTwin
<1>4. TwinIndex(a, b, ok, f.nrows) BY <1>3, TwinClone, OneIndexTwin
<1> HIDE DEF S, a, b
<1>5. Twin(x, y, ok) /\ x.nrows = f.nrows BY PickRestTwin
<1> HIDE DEF x, y
<1>6. QED BY <1>2, <1>4, <1>5, ReindexedTwin

(* set_index of several names, of twins. *)
LEMMA SetIndexMultiTwin ==
  ASSUME NEW f, NEW g, NEW ok, Twin(f, g, ok),
         NEW names, IsList(names), \A k \in 1..Len(names) : HasColumn(f, names[k])
  PROVE  Twin(SetIndexMulti(f, names), SetIndexMulti(g, names), ok)
<1> DEFINE at == [k \in DOMAIN names |-> Position(f.names, names[k])]
           S == DOMAIN f.names \ ToSet(at)
           x == Pick(f, RowsIn(Len(f.names), S))
           y == Pick(g, RowsIn(Len(g.names), S))
           u == [k \in DOMAIN at |-> f.cols[at[k]]]
           v == [k \in DOMAIN at |-> g.cols[at[k]]]
           cu == [k \in DOMAIN u |-> Clone(u[k])]
           cv == [k \in DOMAIN v |-> Clone(v[k])]
           a == MultiIndex(cu, names)
           b == MultiIndex(cv, names)
<1>1. f.names = g.names /\ TwinCols(f.cols, g.cols, ok, f.nrows) BY TwinParts
<1>d. DOMAIN names = 1..Len(names) BY ListElim
<1>2. SetIndexMulti(f, names) = Reindexed(x, a) /\ SetIndexMulti(g, names) = Reindexed(y, b)
  <2>1. DOMAIN u = DOMAIN at /\ DOMAIN v = DOMAIN at OBVIOUS
  <2>2. cu = [k \in DOMAIN at |-> Clone(f.cols[at[k]])] /\ cv = [k \in DOMAIN at |-> Clone(g.cols[at[k]])]
    BY <2>1
  <2>3. QED BY <1>1, <2>2 DEF SetIndexMulti
<1>3. at = [k \in DOMAIN names |-> at[k]] OBVIOUS
<1>4. \A k \in 1..Len(names) : at[k] \in 1..Len(f.cols) BY <1>d, ColumnOfTwin
<1> HIDE DEF at
<1>5. IsList(at) /\ Len(at) = Len(names) BY <1>3, MapLen
<1>6. TwinCols(u, v, ok, f.nrows) /\ Len(u) = Len(names) BY <1>1, <1>4, <1>5, ColsChosen
<1> HIDE DEF u, v
<1>7. TwinCols(cu, cv, ok, f.nrows) /\ Len(cu) = Len(names) BY <1>6, ColsClone
<1> HIDE DEF cu, cv, S
<1>8. TwinIndex(a, b, ok, f.nrows) BY <1>7, MultiIndexTwin
<1>9. Twin(x, y, ok) /\ x.nrows = f.nrows BY PickRestTwin
<1> HIDE DEF x, y, a, b
<1>10. QED BY <1>2, <1>8, <1>9, ReindexedTwin

(* The levels of an index put back before the columns. *)
LEMMA RestoreTwin ==
  ASSUME NEW f, NEW g, NEW ok, Twin(f, g, ok), NEW names, IsList(names), Len(names) = Len(f.ix.levels)
  PROVE  Twin(Restore(f, names), Restore(g, names), ok)
<1>1. /\ f.names = g.names /\ IsList(f.names) /\ Len(f.names) = Len(f.cols)
      /\ f.nrows = g.nrows /\ f.nrows \in Nat /\ TwinCols(f.cols, g.cols, ok, f.nrows)
      /\ TwinIndex(f.ix, g.ix, ok, f.nrows) BY TwinParts
<1>2. TwinCols(f.ix.levels, g.ix.levels, ok, f.nrows) BY <1>1, IndexParts
<1> DEFINE fn == f.names  x == f.ix.levels \o f.cols  y == g.ix.levels \o g.cols
<1>3. TwinCols(x, y, ok, f.nrows) /\ Len(x) = Len(f.ix.levels) + Len(f.cols) BY <1>1, <1>2, ColsConcat
<1>4. IsList(fn) BY <1>1
<1> HIDE DEF fn
<1>5. IsList(names \o fn) /\ Len(names \o fn) = Len(names) + Len(fn) BY <1>4, ConcatList
<1>6. /\ Restore(f, names) = Frame(names \o fn, x, f.nrows, NoIndex)
      /\ Restore(g, names) = Frame(names \o fn, y, f.nrows, NoIndex) BY <1>1 DEF Restore, fn
<1>7. Len(names \o fn) = Len(x) BY <1>1, <1>3, <1>5 DEF fn
<1> HIDE DEF x, y
<1>8. QED BY <1>1, <1>3, <1>5, <1>6, <1>7, NoIndexTwin, FrameTwin

(* reset_index of twins. *)
LEMMA ResetIndexTwin ==
  ASSUME NEW f, NEW g, NEW ok, Twin(f, g, ok)
  PROVE  Twin(ResetIndex(f), ResetIndex(g), ok)
<1>1. TwinIndex(f.ix, g.ix, ok, f.nrows) BY TwinParts
<1>2. /\ f.ix.names = g.ix.names /\ IsList(f.ix.names) /\ Len(f.ix.names) = Len(f.ix.levels)
      /\ f.ix.multi = g.ix.multi
      /\ (f.ix.levels = <<>>) <=> (g.ix.levels = <<>>)
      /\ f.ix.levels # <<>> => 1 \in 1..Len(f.ix.levels)
      /\ ~f.ix.multi => Len(f.ix.levels) <= 1
      /\ Len(f.ix.levels) \in Nat BY <1>1, IndexParts
<1> DEFINE names == IF f.ix.names[1] = None THEN <<"index">> ELSE f.ix.names
<1>3. CASE IsSingle(f)
  <2>0. ~f.ix.multi /\ f.ix.levels # <<>> BY <1>3 DEF IsSingle
  <2>1. IsSingle(g) /\ Len(f.ix.levels) = 1
    <3>1. 1 \in 1..Len(f.ix.levels) /\ Len(f.ix.levels) <= 1 /\ Len(f.ix.levels) \in Nat BY <1>2, <2>0
    <3> DEFINE n == Len(f.ix.levels)
    <3>5. 1 \in 1..n /\ n <= 1 /\ n \in Nat BY <3>1
    <3> HIDE DEF n
    <3>6. n = 1 BY <3>5
    <3>2. Len(f.ix.levels) = 1 BY <3>6 DEF n
    <3>3. IsSingle(g) BY <1>2, <2>0 DEF IsSingle
    <3>4. QED BY <3>2, <3>3
  <2>2. ResetIndex(f) = Restore(f, names) /\ ResetIndex(g) = Restore(g, names)
    BY <1>2, <1>3, <2>1 DEF ResetIndex
  <2>3. IsList(names) /\ Len(names) = Len(f.ix.levels) BY <1>2, <2>1, OneList
  <2> HIDE DEF names
  <2>4. QED BY <2>2, <2>3, RestoreTwin
<1>4. CASE ~IsSingle(f)
  <2>1. ~IsSingle(g) BY <1>2, <1>4 DEF IsSingle
  <2>2. QED BY <1>4, <2>1, NoIndexTwin, ReindexedTwin DEF ResetIndex
<1>5. QED BY <1>3, <1>4

(* reset_index of several levels, of twins. *)
LEMMA ResetIndexMultiTwin ==
  ASSUME NEW f, NEW g, NEW ok, Twin(f, g, ok)
  PROVE  Twin(ResetIndexMulti(f), ResetIndexMulti(g), ok)
<1>1. TwinIndex(f.ix, g.ix, ok, f.nrows) BY TwinParts
<1>2. /\ f.ix.names = g.ix.names /\ IsList(f.ix.names) /\ Len(f.ix.names) = Len(f.ix.levels)
      /\ f.ix.multi = g.ix.multi BY <1>1, IndexParts
<1>3. CASE IsMulti(f)
  <2>1. ResetIndexMulti(f) = Restore(f, f.ix.names) /\ ResetIndexMulti(g) = Restore(g, f.ix.names)
    BY <1>2, <1>3 DEF ResetIndexMulti, IsMulti
  <2>2. QED BY <1>2, <2>1, RestoreTwin
<1>4. CASE ~IsMulti(f)
  <2>1. ResetIndexMulti(f) = Reindexed(f, NoIndex) /\ ResetIndexMulti(g) = Reindexed(g, NoIndex)
    BY <1>2, <1>4 DEF ResetIndexMulti, IsMulti
  <2>2. QED BY <2>1, NoIndexTwin, ReindexedTwin
<1>5. QED BY <1>3, <1>4

------------------------------------------------------------------------------
(* Frames one below the other and side by side. *)

(* Two ranges of positions that are equal end at one number. *)
LEMMA SameRange == ASSUME NEW m \in Nat, NEW n \in Nat, 1..m = 1..n PROVE m = n
<1>1. \A i \in Nat : i \in 1..m <=> i \in 1..n OBVIOUS
<1>2. (m \in 1..m <=> m \in 1..n) /\ (n \in 1..m <=> n \in 1..n) BY <1>1
<1>3. (m = 0 \/ m <= n) /\ (n = 0 \/ n <= m) BY <1>2
<1>4. QED BY <1>3

(* The columns of two frames, joined one by one. *)
LEMMA ColsJoined ==
  ASSUME NEW a, NEW b, NEW p, NEW m, TwinCols(a, b, p, m), NEW c, NEW d, NEW q, NEW n, TwinCols(c, d, q, n),
         Classes(a) = Classes(c), NEW ok, NEW h, ok => p /\ q /\ m + n = h
  PROVE  /\ TwinCols([k \in DOMAIN a |-> Joined(a[k], c[k])], [k \in DOMAIN b |-> Joined(b[k], d[k])], ok, h)
         /\ Len([k \in DOMAIN a |-> Joined(a[k], c[k])]) = Len(a)
<1>1. /\ Len(a) \in Nat /\ DOMAIN a = 1..Len(a) /\ DOMAIN b = 1..Len(a)
      /\ Len(c) \in Nat /\ DOMAIN c = 1..Len(c) BY ColsElim
<1>2. DOMAIN c = DOMAIN a /\ \A k \in DOMAIN a : c[k].cls = a[k].cls
  <2>1. DOMAIN Classes(a) = DOMAIN a /\ DOMAIN Classes(c) = DOMAIN c BY DEF Classes
  <2>2. \A k \in DOMAIN a : Classes(a)[k] = a[k].cls BY DEF Classes
  <2>3. \A k \in DOMAIN c : Classes(c)[k] = c[k].cls BY DEF Classes
  <2>4. QED BY <2>1, <2>2, <2>3
<1>3. Len(c) = Len(a) BY <1>1, <1>2, SameRange
<1> DEFINE x == [k \in DOMAIN a |-> Joined(a[k], c[k])]
           y == [k \in DOMAIN b |-> Joined(b[k], d[k])]
<1>4. x = [k \in 1..Len(a) |-> x[k]] /\ y = [k \in 1..Len(a) |-> y[k]] BY <1>1
<1>5. ASSUME NEW k \in 1..Len(a) PROVE TwinCol(x[k], y[k]) /\ (ok => Length(x[k]) = h)
  <2>1. TwinCol(a[k], b[k]) /\ (p => Length(a[k]) = m) BY ColsOf
  <2>2. TwinCol(c[k], d[k]) /\ (q => Length(c[k]) = n) BY <1>3, ColsOf
  <2>3. c[k].cls = a[k].cls BY <1>1, <1>2
  <2>4. /\ TwinCol(Joined(a[k], c[k]), Joined(b[k], d[k]))
        /\ Length(Joined(a[k], c[k])) = Length(a[k]) + Length(c[k]) BY <2>1, <2>2, <2>3, TwinJoined
  <2>5. x[k] = Joined(a[k], c[k]) /\ y[k] = Joined(b[k], d[k]) BY <1>1
  <2> HIDE DEF x, y
  <2>6. QED BY <2>1, <2>2, <2>4, <2>5
<1> HIDE DEF x, y
<1>6. TwinCols(x, y, ok, h) /\ Len(x) = Len(a) BY <1>1, <1>4, <1>5, ColsIntro
<1>7. QED BY <1>6 DEF x, y

(* The classes of the columns of twins are the same. *)
LEMMA ClassesSame ==
  ASSUME NEW a, NEW b, NEW ok, NEW n, TwinCols(a, b, ok, n)
  PROVE  Classes(a) = Classes(b)
<1>1. DOMAIN a = 1..Len(a) /\ DOMAIN b = 1..Len(a) BY ColsElim
<1>2. \A k \in 1..Len(a) : a[k].cls = b[k].cls BY ColsOf, TwinReads
<1>3. QED BY <1>1, <1>2 DEF Classes

(* concat_rows of twins.  Frames with no columns come out with the rows of *)
(* the first: the result is even only if there is a column (builtins.rs,   *)
(* the row count is read of the first result column).                      *)
LEMMA ConcatRowsTwin ==
  ASSUME NEW f, NEW g, NEW ok, Twin(f, g, ok), NEW u, NEW v, Twin(u, v, ok), ConcatRowsOK(f, u)
  PROVE  Twin(ConcatRows(f, u), ConcatRows(g, v), ok /\ f.cols # <<>>)
<1> DEFINE yes == ok /\ f.cols # <<>>
           h == IF f.cols = <<>> THEN 0 ELSE Length(f.cols[1]) + Length(u.cols[1])
           x == [k \in DOMAIN f.cols |-> Joined(f.cols[k], u.cols[k])]
           y == [k \in DOMAIN g.cols |-> Joined(g.cols[k], v.cols[k])]
<1>1. /\ f.names = g.names /\ IsList(f.names) /\ Len(f.names) = Len(f.cols) /\ Len(f.names) \in Nat
      /\ f.nrows = g.nrows /\ f.nrows \in Nat /\ TwinCols(f.cols, g.cols, ok, f.nrows)
      /\ (f.cols = <<>>) <=> (g.cols = <<>>)
      /\ TwinIndex(f.ix, g.ix, ok, f.nrows) BY TwinParts
<1>2. /\ u.nrows \in Nat /\ TwinCols(u.cols, v.cols, ok, u.nrows) /\ TwinIndex(u.ix, v.ix, ok, u.nrows)
  BY TwinParts
<1>3. f.cols # <<>> => /\ TwinCol(f.cols[1], g.cols[1]) /\ (ok => Length(f.cols[1]) = f.nrows)
                       /\ TwinCol(u.cols[1], v.cols[1]) /\ (ok => Length(u.cols[1]) = u.nrows)
  <2>1. SUFFICES ASSUME f.cols # <<>> PROVE 1 \in 1..Len(f.cols) /\ 1 \in 1..Len(u.cols)
    BY <1>1, <1>2, ColsOf
  <2>2. Len(f.cols) # 0 /\ DOMAIN f.cols = 1..Len(f.cols) BY <1>1, <2>1, ColsElim
  <2>3. DOMAIN u.cols = 1..Len(u.cols) /\ Len(u.cols) \in Nat BY <1>2, ColsElim
  <2>4. Classes(f.cols) = Classes(u.cols) BY DEF ConcatRowsOK
  <2>5. DOMAIN f.cols = DOMAIN u.cols BY <2>4 DEF Classes
  <2>6. QED BY <1>1, <2>2, <2>3, <2>5
<1>4. h \in Nat /\ (f.cols # <<>> => Length(f.cols[1]) = Length(g.cols[1]) /\ Length(u.cols[1]) = Length(v.cols[1]))
  <2>1. f.cols # <<>> => /\ Length(f.cols[1]) = Length(g.cols[1]) /\ Length(u.cols[1]) = Length(v.cols[1])
                         /\ Length(f.cols[1]) \in Nat /\ Length(u.cols[1]) \in Nat
    BY <1>3, TwinReads
  <2>2. QED BY <2>1
<1>5. yes => ok /\ f.nrows + u.nrows = h BY <1>3
<1>6. ConcatRows(f, u) = Frame(f.names, x, h, ConcatIndex(f, u)) BY DEF ConcatRows
<1>7. ConcatRows(g, v) = Frame(f.names, y, h, ConcatIndex(g, v)) BY <1>1, <1>4 DEF ConcatRows
<1> HIDE DEF yes, h
<1>8. TwinCols(x, y, yes, h) /\ Len(x) = Len(f.cols)
  <2>1. Classes(f.cols) = Classes(u.cols) BY DEF ConcatRowsOK
  <2>2. QED BY <1>1, <1>2, <1>5, <2>1, ColsJoined
<1> HIDE DEF x, y
<1>9. TwinIndex(ConcatIndex(f, u), ConcatIndex(g, v), yes, h)
  <2> DEFINE p == [k \in DOMAIN f.ix.levels |-> Joined(f.ix.levels[k], u.ix.levels[k])]
             q == [k \in DOMAIN g.ix.levels |-> Joined(g.ix.levels[k], v.ix.levels[k])]
             alike == /\ f.ix.levels # <<>> /\ f.ix.multi = u.ix.multi /\ LevelNames(f.ix) = LevelNames(u.ix)
                      /\ Classes(f.ix.levels) = Classes(u.ix.levels)
  <2>1. /\ TwinCols(f.ix.levels, g.ix.levels, ok, f.nrows) /\ f.ix.names = g.ix.names
        /\ f.ix.multi = g.ix.multi
        /\ (f.ix.levels = <<>>) <=> (g.ix.levels = <<>>) BY <1>1, IndexParts
  <2>2. /\ TwinCols(u.ix.levels, v.ix.levels, ok, u.nrows) /\ u.ix.names = v.ix.names
        /\ u.ix.multi = v.ix.multi BY <1>2, IndexParts
  <2>3. Classes(f.ix.levels) = Classes(g.ix.levels) /\ Classes(u.ix.levels) = Classes(v.ix.levels)
    BY <2>1, <2>2, ClassesSame
  <2>4. LevelNames(f.ix) = LevelNames(g.ix) /\ LevelNames(u.ix) = LevelNames(v.ix) BY <2>1, <2>2 DEF LevelNames
  <2>5. /\ ConcatIndex(f, u) = IF alike THEN WithLevels(f.ix, p) ELSE NoIndex
        /\ ConcatIndex(g, v) = IF alike THEN WithLevels(g.ix, q) ELSE NoIndex
    <3>1. ConcatIndex(f, u) = IF alike THEN WithLevels(f.ix, p) ELSE NoIndex BY DEF ConcatIndex
    <3> DEFINE also == /\ g.ix.levels # <<>> /\ g.ix.multi = v.ix.multi /\ LevelNames(g.ix) = LevelNames(v.ix)
                       /\ Classes(g.ix.levels) = Classes(v.ix.levels)
    <3>2. ConcatIndex(g, v) = IF also THEN WithLevels(g.ix, q) ELSE NoIndex BY DEF ConcatIndex
    <3>3. alike <=> also
      <4>1. (f.ix.levels # <<>>) <=> (g.ix.levels # <<>>) BY <2>1
      <4>2. (f.ix.multi = u.ix.multi) <=> (g.ix.multi = v.ix.multi) BY <2>1, <2>2, Zenon
      <4>3. (LevelNames(f.ix) = LevelNames(u.ix)) <=> (LevelNames(g.ix) = LevelNames(v.ix)) BY <2>4, Zenon
      <4>4. (Classes(f.ix.levels) = Classes(u.ix.levels)) <=> (Classes(g.ix.levels) = Classes(v.ix.levels))
        BY <2>3, Zenon
      <4>5. QED BY <4>1, <4>2, <4>3, <4>4, Zenon
    <3> HIDE DEF alike, also, p, q
    <3>4. QED BY <3>1, <3>2, <3>3
  <2>6. CASE alike
    <3>1. TwinCols(p, q, yes, h) /\ Len(p) = Len(f.ix.levels) BY <1>5, <2>1, <2>2, <2>6, ColsJoined
    <3> HIDE DEF p, q, alike
    <3>2. TwinIndex(WithLevels(f.ix, p), WithLevels(g.ix, q), yes, h) BY <1>1, <3>1, WithLevelsTwin
    <3>3. QED BY <2>5, <2>6, <3>2
  <2>7. CASE ~alike
    <3> HIDE DEF p, q, alike
    <3>1. QED BY <2>5, <2>7, NoIndexTwin
  <2>8. QED BY <2>6, <2>7
<1>10. Twin(ConcatRows(f, u), ConcatRows(g, v), yes)
  BY <1>1, <1>4, <1>6, <1>7, <1>8, <1>9, FrameTwin
<1>11. QED BY <1>10 DEF yes

(* concat_cols of twins. *)
LEMMA ConcatColsTwin ==
  ASSUME NEW f, NEW g, NEW ok, Twin(f, g, ok), NEW u, NEW v, Twin(u, v, ok), ConcatColsOK(f, u)
  PROVE  Twin(ConcatCols(f, u), ConcatCols(g, v), ok)
<1>1. /\ f.names = g.names /\ IsList(f.names) /\ Len(f.names) = Len(f.cols)
      /\ f.nrows = g.nrows /\ f.nrows \in Nat /\ TwinCols(f.cols, g.cols, ok, f.nrows)
      /\ TwinIndex(f.ix, g.ix, ok, f.nrows) BY TwinParts
<1>2. /\ u.names = v.names /\ IsList(u.names) /\ Len(u.names) = Len(u.cols)
      /\ TwinCols(u.cols, v.cols, ok, f.nrows)
  BY TwinParts DEF ConcatColsOK
<1> DEFINE fn == f.names  un == u.names  x == f.cols \o u.cols  y == g.cols \o v.cols
<1>3. TwinCols(x, y, ok, f.nrows) /\ Len(x) = Len(f.cols) + Len(u.cols) BY <1>1, <1>2, ColsConcat
<1>4. IsList(fn) /\ IsList(un) /\ Len(fn) = Len(f.cols) /\ Len(un) = Len(u.cols) BY <1>1, <1>2
<1>5. /\ ConcatCols(f, u) = Frame(fn \o un, x, f.nrows, CloneIndex(f.ix))
      /\ ConcatCols(g, v) = Frame(fn \o un, y, f.nrows, CloneIndex(g.ix)) BY <1>1, <1>2 DEF ConcatCols
<1> HIDE DEF fn, un, x, y
<1>9. IsList(fn \o un) /\ Len(fn \o un) = Len(fn) + Len(un) BY <1>4, ConcatList
<1>6. Len(fn \o un) = Len(x) BY <1>3, <1>4, <1>9
<1>7. TwinIndex(CloneIndex(f.ix), CloneIndex(g.ix), ok, f.nrows) BY <1>1, CloneIndexTwin
<1>8. QED BY <1>1, <1>3, <1>5, <1>6, <1>7, <1>9, FrameTwin

------------------------------------------------------------------------------
(* Groups. *)

(* The rows where a key is met first. *)
LEMMA FirstsFacts ==
  ASSUME NEW rows, IsList(rows), NEW key
  PROVE  /\ IsList(Firsts(rows, key)) /\ Len(Firsts(rows, key)) \in Nat
         /\ DOMAIN Firsts(rows, key) = 1..Len(Firsts(rows, key))
         /\ \A k \in 1..Len(Firsts(rows, key)) : Firsts(rows, key)[k] \in ToSet(rows)
<1> DEFINE S == {i \in ToSet(rows) : \A j \in ToSet(rows) : j < i => key[j] # key[i]}
           s == Firsts(rows, key)
<1>1. s = Among(rows, S) BY DEF Firsts
<1> HIDE DEF S, s
<1>2. IsList(s) /\ ToSet(s) = ToSet(rows) \intersect S BY <1>1, AmongFacts
<1>3. \A k \in 1..Len(s) : s[k] \in ToSet(s) BY <1>2, MemberOfList
<1>4. Len(s) \in Nat /\ DOMAIN s = 1..Len(s) BY <1>2, ListElim
<1>5. QED BY <1>2, <1>3, <1>4 DEF s

(* The groups are lists of rows. *)
LEMMA GroupsFacts ==
  ASSUME NEW rows, IsList(rows), NEW key
  PROVE  /\ IsList(GroupsOf(rows, key)) /\ Len(GroupsOf(rows, key)) \in Nat
         /\ DOMAIN GroupsOf(rows, key) = 1..Len(GroupsOf(rows, key))
         /\ \A k \in 1..Len(GroupsOf(rows, key)) : IsList(GroupsOf(rows, key)[k])
<1> DEFINE firsts == Firsts(rows, key)
           g == GroupsOf(rows, key)
<1>1. IsList(firsts) /\ DOMAIN firsts = 1..Len(firsts) /\ Len(firsts) \in Nat BY FirstsFacts
<1>2. g = [k \in DOMAIN firsts |-> Among(rows, {i \in ToSet(rows) : key[i] = key[firsts[k]]})] BY DEF GroupsOf
<1>3. g = [k \in DOMAIN firsts |-> g[k]] BY <1>2
<1>4. \A k \in DOMAIN firsts : IsList(g[k]) BY <1>2, AmongFacts
<1> HIDE DEF firsts, g
<1>5. IsList(g) /\ Len(g) = Len(firsts) /\ DOMAIN g = 1..Len(firsts) BY <1>1, <1>3, ListIntro
<1>6. QED BY <1>1, <1>4, <1>5 DEF g

(* The values of a column in some rows, nulls skipped, are the same of *)
(* twins.                                                              *)
LEMMA ValuesInFacts ==
  ASSUME NEW c, NEW d, TwinCol(c, d), NEW rows, IsList(rows)
  PROVE  /\ ValuesIn(c, rows) = ValuesIn(d, rows)
         /\ IsList(ValuesIn(c, rows))
         /\ c.cls = "DateTime" => \A k \in 1..Len(ValuesIn(c, rows)) : ValuesIn(c, rows)[k] \in Int
<1> DEFINE S == {i \in ToSet(rows) : ~NullAt(c, i)}
           kept == Among(rows, S)
           v == [k \in DOMAIN kept |-> ValueAt(c, kept[k])]
<1>1. \A i : NullAt(c, i) = NullAt(d, i) BY TwinReads
<1>2. S = {i \in ToSet(rows) : ~NullAt(d, i)} BY <1>1
<1>3. ValuesIn(c, rows) = v /\ ValuesIn(d, rows) = [k \in DOMAIN kept |-> ValueAt(d, kept[k])]
  BY <1>2 DEF ValuesIn
<1>4. IsList(kept) /\ ToSet(kept) \subseteq S BY AmongFacts
<1>5. \A i \in S : ValueAt(c, i) = ValueAt(d, i) BY TwinReads
<1> HIDE DEF S, kept
<1>6. DOMAIN kept = 1..Len(kept) BY <1>4, ListElim
<1>7. \A k \in DOMAIN kept : kept[k] \in S BY <1>4, <1>6, MemberOfList
<1>8. v = [k \in DOMAIN kept |-> ValueAt(d, kept[k])] BY <1>5, <1>7
<1>9. v = [k \in DOMAIN kept |-> v[k]] OBVIOUS
<1>10. c.cls = "DateTime" => \A k \in DOMAIN kept : v[k] \in Int BY ShapeOf, TimeAt
<1> HIDE DEF v
<1>11. IsList(v) /\ Len(v) = Len(kept) BY <1>4, <1>9, MapLen
<1>12. QED BY <1>3, <1>6, <1>8, <1>10, <1>11

(* The texts that are made of a cell, for keys, labels and files, are the *)
(* same of twins.                                                         *)
LEMMA TextsSame ==
  ASSUME NEW c, NEW d, TwinCol(c, d), NEW i
  PROVE  /\ ~NullAt(c, i) => CellText(c, i) = CellText(d, i)
         /\ KeyText(c, i) = KeyText(d, i)
         /\ CellToStr(c, i) = CellToStr(d, i)
         /\ LevelText(c, i) = LevelText(d, i)
         /\ CellOut(c, i) = CellOut(d, i)
<1>1. Get(c, i) = Get(d, i) BY TwinGet
<1>2. c.cls = d.cls /\ NullAt(c, i) = NullAt(d, i) /\ (~NullAt(c, i) => ValueAt(c, i) = ValueAt(d, i))
  BY TwinReads
<1>3. ~NullAt(c, i) => CellText(c, i) = CellText(d, i) BY <1>1, <1>2 DEF CellText
<1>4. KeyText(c, i) = KeyText(d, i) BY <1>2, <1>3 DEF KeyText
<1>5. CellToStr(c, i) = CellToStr(d, i) BY <1>2 DEF CellToStr
<1>6. LevelText(c, i) = LevelText(d, i) BY <1>2 DEF LevelText
<1>7. CellOut(c, i) = CellOut(d, i) BY <1>2, <1>3 DEF CellOut
<1>8. QED BY <1>3, <1>4, <1>5, <1>6, <1>7

(* The key of a row is the same of twins, by codes or by texts. *)
LEMMA KeysSame ==
  ASSUME NEW cs, NEW ds, NEW ok, NEW n, TwinCols(cs, ds, ok, n)
  PROVE  /\ AllCategorical(cs) <=> AllCategorical(ds)
         /\ \A i : CodesOf(cs, i) = CodesOf(ds, i)
         /\ \A i : RowKey(cs, i) = RowKey(ds, i)
         /\ \A i : NullKey(cs, i) <=> NullKey(ds, i)
<1>1. DOMAIN cs = 1..Len(cs) /\ DOMAIN ds = 1..Len(cs) BY ColsElim
<1>2. \A k \in 1..Len(cs) : TwinCol(cs[k], ds[k]) BY ColsOf
<1>3. \A k \in 1..Len(cs) : cs[k].cls = ds[k].cls BY <1>2, TwinReads
<1>4. \A k \in 1..Len(cs) : \A i : NullAt(cs[k], i) = NullAt(ds[k], i) BY <1>2, TwinReads
<1>5. AllCategorical(cs) <=> AllCategorical(ds) BY <1>1, <1>3 DEF AllCategorical
<1>6. ASSUME NEW i PROVE CodesOf(cs, i) = CodesOf(ds, i)
  <2>1. \A k \in 1..Len(cs) : ~NullAt(cs[k], i) => ValueAt(cs[k], i) = ValueAt(ds[k], i) BY <1>2, TwinReads
  <2>2. QED BY <1>1, <1>4, <2>1 DEF CodesOf
<1>7. ASSUME NEW i PROVE RowKey(cs, i) = RowKey(ds, i)
  <2>1. \A k \in 1..Len(cs) : KeyText(cs[k], i) = KeyText(ds[k], i) BY <1>2, TextsSame
  <2>2. QED BY <1>1, <2>1 DEF RowKey
<1>8. ASSUME NEW i PROVE NullKey(cs, i) <=> NullKey(ds, i) BY <1>1, <1>4 DEF NullKey
<1>9. QED BY <1>5, <1>6, <1>7, <1>8

(* The key columns of twins. *)
LEMMA KeyColumnsTwin ==
  ASSUME NEW f, NEW g, NEW ok, Twin(f, g, ok),
         NEW names, IsList(names), \A k \in 1..Len(names) : HasColumn(f, names[k])
  PROVE  TwinCols(KeyColumns(f, names), KeyColumns(g, names), ok, f.nrows) /\ Len(KeyColumns(f, names)) = Len(names)
<1> DEFINE x == KeyColumns(f, names)  y == KeyColumns(g, names)
<1>1. Len(names) \in Nat /\ DOMAIN names = 1..Len(names) BY ListElim
<1>2. x = [k \in 1..Len(names) |-> ColumnOf(f, names[k])] /\ y = [k \in 1..Len(names) |-> ColumnOf(g, names[k])]
  BY <1>1 DEF KeyColumns
<1>3. \A k \in 1..Len(names) : TwinCol(x[k], y[k]) /\ (ok => Length(x[k]) = f.nrows)
  BY <1>2, ColumnOfTwin
<1>4. x = [k \in 1..Len(names) |-> x[k]] /\ y = [k \in 1..Len(names) |-> y[k]] BY <1>2
<1> HIDE DEF x, y
<1>5. TwinCols(x, y, ok, f.nrows) /\ Len(x) = Len(names) BY <1>1, <1>3, <1>4, ColsIntro
<1>6. QED BY <1>5 DEF x, y

(* The groups of twins have the same rows in the same order. *)
LEMMA GroupRowsSame ==
  ASSUME NEW f, NEW g, NEW ok, Twin(f, g, ok),
         NEW names, IsList(names), \A k \in 1..Len(names) : HasColumn(f, names[k])
  PROVE  GroupRows(f, names) = GroupRows(g, names)
<1> DEFINE x == KeyColumns(f, names)  y == KeyColumns(g, names)
<1>1. TwinCols(x, y, ok, f.nrows) BY KeyColumnsTwin
<1>2. f.nrows = g.nrows BY TwinParts
<1>3. /\ GroupRows(f, names) = IF AllCategorical(x)
           THEN GroupsOf(Rows(f.nrows), [i \in 1..f.nrows |-> CodesOf(x, i)])
           ELSE GroupsOf(Rows(f.nrows), [i \in 1..f.nrows |-> RowKey(x, i)])
      /\ GroupRows(g, names) = IF AllCategorical(y)
           THEN GroupsOf(Rows(f.nrows), [i \in 1..f.nrows |-> CodesOf(y, i)])
           ELSE GroupsOf(Rows(f.nrows), [i \in 1..f.nrows |-> RowKey(y, i)])
  BY <1>2 DEF GroupRows
<1> HIDE DEF x, y
<1>4. /\ AllCategorical(x) <=> AllCategorical(y)
      /\ \A i : CodesOf(x, i) = CodesOf(y, i) /\ RowKey(x, i) = RowKey(y, i) BY <1>1, KeysSame
<1>5. /\ [i \in 1..f.nrows |-> CodesOf(x, i)] = [i \in 1..f.nrows |-> CodesOf(y, i)]
      /\ [i \in 1..f.nrows |-> RowKey(x, i)] = [i \in 1..f.nrows |-> RowKey(y, i)] BY <1>4
<1>6. CASE AllCategorical(x)
  <2>1. AllCategorical(y) BY <1>4, <1>6
  <2>2. GroupRows(f, names) = GroupsOf(Rows(f.nrows), [i \in 1..f.nrows |-> CodesOf(x, i)]) BY <1>3, <1>6, Zenon
  <2>3. GroupRows(g, names) = GroupsOf(Rows(f.nrows), [i \in 1..f.nrows |-> CodesOf(y, i)]) BY <1>3, <2>1, Zenon
  <2>4. QED BY <1>5, <2>2, <2>3, Zenon
<1>7. CASE ~AllCategorical(x)
  <2>1. ~AllCategorical(y) BY <1>4, <1>7
  <2>2. GroupRows(f, names) = GroupsOf(Rows(f.nrows), [i \in 1..f.nrows |-> RowKey(x, i)]) BY <1>3, <1>7, Zenon
  <2>3. GroupRows(g, names) = GroupsOf(Rows(f.nrows), [i \in 1..f.nrows |-> RowKey(y, i)]) BY <1>3, <2>1, Zenon
  <2>4. QED BY <1>5, <2>2, <2>3, Zenon
<1>8. QED BY <1>6, <1>7

(* They are lists of rows. *)
LEMMA GroupRowsFacts ==
  ASSUME NEW f, f.nrows \in Nat, NEW names
  PROVE  /\ IsList(GroupRows(f, names)) /\ Len(GroupRows(f, names)) \in Nat
         /\ DOMAIN GroupRows(f, names) = 1..Len(GroupRows(f, names))
         /\ \A k \in 1..Len(GroupRows(f, names)) : IsList(GroupRows(f, names)[k])
<1>1. PICK key : GroupRows(f, names) = GroupsOf(Rows(f.nrows), key) BY DEF GroupRows
<1>2. IsList(Rows(f.nrows)) BY RowsList
<1>3. QED BY <1>1, <1>2, GroupsFacts

(* The index of an aggregation. *)
LEMMA KeyIndexTwin ==
  ASSUME NEW f, NEW g, NEW ok, Twin(f, g, ok),
         NEW names, IsList(names), \A k \in 1..Len(names) : HasColumn(f, names[k]), NEW p
  PROVE  TwinIndex(KeyIndex(GroupBy(f, names)), KeyIndex(GroupBy(g, names)), p, Len(GroupRows(f, names)))
<1> DEFINE gs == GroupRows(f, names)
           firsts == [k \in DOMAIN gs |-> gs[k][1]]
           kc == KeyColumns(f, names)
           kd == KeyColumns(g, names)
           x == [k \in DOMAIN kc |-> Take(kc[k], firsts)]
           y == [k \in DOMAIN kd |-> Take(kd[k], firsts)]
<1>1. gs = GroupRows(g, names) BY GroupRowsSame
<1>2. IsList(gs) BY TwinParts, GroupRowsFacts
<1>3. /\ DOMAIN kc = DOMAIN names /\ DOMAIN kd = DOMAIN names
      /\ x = [k \in DOMAIN names |-> Take(ColumnOf(f, names[k]), firsts)]
      /\ y = [k \in DOMAIN names |-> Take(ColumnOf(g, names[k]), firsts)] BY DEF KeyColumns
<1>4. /\ KeyIndex(GroupBy(f, names)) = IF Len(x) = 1 THEN Index(x[1], names[1]) ELSE MultiIndex(x, names)
      /\ KeyIndex(GroupBy(g, names)) = IF Len(y) = 1 THEN Index(y[1], names[1]) ELSE MultiIndex(y, names)
  <2> DEFINE G == GroupBy(f, names)  H == GroupBy(g, names)
  <2>1. /\ G.parent = f /\ G.keys = names /\ G.groups = gs
        /\ H.parent = g /\ H.keys = names /\ H.groups = gs BY <1>1 DEF GroupBy
  <2> HIDE DEF G, H, gs
  <2> DEFINE fs(K) == [k \in DOMAIN K.groups |-> K.groups[k][1]]
             xs(K) == [k \in DOMAIN K.keys |-> Take(ColumnOf(K.parent, K.keys[k]), fs(K))]
  <2>2. \A K : KeyIndex(K) = IF Len(xs(K)) = 1 THEN Index(xs(K)[1], K.keys[1]) ELSE MultiIndex(xs(K), K.keys)
    BY Zenon DEF KeyIndex
  <2>3. fs(G) = firsts /\ fs(H) = firsts BY <2>1
  <2> HIDE DEF fs, firsts
  <2>4. xs(G) = x /\ xs(H) = y BY <1>3, <2>1, <2>3
  <2> HIDE DEF xs, x, y
  <2>5. /\ KeyIndex(G) = IF Len(x) = 1 THEN Index(x[1], G.keys[1]) ELSE MultiIndex(x, G.keys)
        /\ KeyIndex(H) = IF Len(y) = 1 THEN Index(y[1], H.keys[1]) ELSE MultiIndex(y, H.keys)
    BY <2>2, <2>4
  <2>6. QED BY <2>1, <2>5 DEF G, H
<1>5. firsts = [k \in DOMAIN gs |-> firsts[k]] OBVIOUS
<1>6. TwinCols(kc, kd, ok, f.nrows) /\ Len(kc) = Len(names) BY KeyColumnsTwin
<1> HIDE DEF firsts, gs, kc, kd
<1>7. IsList(firsts) /\ Len(firsts) = Len(gs) BY <1>2, <1>5, MapLen
<1>8. TwinCols(x, y, p, Len(gs)) /\ Len(x) = Len(names) BY <1>6, <1>7, ColsTake
<1> HIDE DEF x, y
<1>9. Len(x) = Len(y) BY <1>8, ColsElim
<1>10. CASE Len(x) = 1
  <2>1. TwinCol(x[1], y[1]) /\ (p => Length(x[1]) = Len(gs)) BY <1>8, <1>10, ColsOf
  <2>2. QED BY <1>4, <1>9, <1>10, <2>1, OneIndexTwin DEF gs
<1>11. CASE Len(x) # 1 BY <1>4, <1>8, <1>9, <1>11, MultiIndexTwin DEF gs
<1>12. QED BY <1>10, <1>11

(* A frame of aggregates over the groups, with the keys as its index. *)
LEMMA ByKeyTwin ==
  ASSUME NEW f, NEW g, NEW ok, Twin(f, g, ok),
         NEW names, IsList(names), \A k \in 1..Len(names) : HasColumn(f, names[k]),
         NEW ns, IsList(ns), NEW x, NEW y, TwinCols(x, y, ok, Len(GroupRows(f, names))), Len(ns) = Len(x)
  PROVE  Twin(ByKey(GroupBy(f, names), ns, x), ByKey(GroupBy(g, names), ns, y), ok)
<1> DEFINE gs == GroupRows(f, names)
           a == KeyIndex(GroupBy(f, names))
           b == KeyIndex(GroupBy(g, names))
<1>1. gs = GroupRows(g, names) BY GroupRowsSame
<1>2. Len(gs) \in Nat BY TwinParts, GroupRowsFacts
<1>3. TwinIndex(a, b, ok, Len(gs)) BY KeyIndexTwin
<1>4. /\ ByKey(GroupBy(f, names), ns, x) = Frame(ns, x, Len(gs), a)
      /\ ByKey(GroupBy(g, names), ns, y) = Frame(ns, y, Len(gs), b) BY <1>1 DEF ByKey, GroupBy
<1> HIDE DEF a, b, gs
<1>5. QED BY <1>2, <1>3, <1>4, FrameTwin DEF gs

(* Columns of one length, as twins of themselves. *)
LEMMA SelfCols ==
  ASSUME NEW m \in Nat, NEW cs, cs = [k \in 1..m |-> cs[k]], NEW ok, NEW n,
         \A k \in 1..m : ColumnShape(cs[k]) /\ (ok => Length(cs[k]) = n)
  PROVE  TwinCols(cs, cs, ok, n) /\ Len(cs) = m
BY ColsIntro, SelfTwin

(* size of the groups of twins. *)
LEMMA SizeTwin ==
  ASSUME NEW f, NEW g, NEW ok, Twin(f, g, ok),
         NEW names, IsList(names), \A k \in 1..Len(names) : HasColumn(f, names[k])
  PROVE  Twin(Size(GroupBy(f, names)), Size(GroupBy(g, names)), ok)
<1> DEFINE gs == GroupRows(f, names)
           sizes == [k \in DOMAIN gs |-> Len(gs[k])]
           c == Whole("I64", sizes)
<1>1. gs = GroupRows(g, names) BY GroupRowsSame
<1>2. IsList(gs) BY TwinParts, GroupRowsFacts
<1>3. sizes = [k \in DOMAIN gs |-> sizes[k]] OBVIOUS
<1>4. /\ Size(GroupBy(f, names)) = ByKey(GroupBy(f, names), <<"size">>, <<c>>)
      /\ Size(GroupBy(g, names)) = ByKey(GroupBy(g, names), <<"size">>, <<c>>) BY <1>1 DEF Size, GroupBy
<1> HIDE DEF gs, sizes
<1>5. IsList(sizes) /\ Len(sizes) = Len(gs) BY <1>2, <1>3, MapLen
<1>6. Times("I64", sizes) BY DEF Times
<1>7. ColumnShape(c) /\ Length(c) = Len(gs) BY <1>5, <1>6, WholeMade
<1> HIDE DEF c
<1>8. TwinCols(<<c>>, <<c>>, ok, Len(gs)) BY <1>7, SelfTwin, OneCol
<1>9. IsList(<<"size">>) /\ Len(<<"size">>) = 1 /\ Len(<<c>>) = 1 BY OneList
<1>10. QED BY <1>4, <1>8, <1>9, ByKeyTwin DEF gs

(* The keys of the groups of twins. *)
LEMMA KeysTwin ==
  ASSUME NEW f, NEW g, NEW ok, Twin(f, g, ok),
         NEW names, IsList(names), \A k \in 1..Len(names) : HasColumn(f, names[k])
  PROVE  Twin(Keys(GroupBy(f, names)), Keys(GroupBy(g, names)), ok)
BY NoCols, EmptyList, ByKeyTwin DEF Keys

------------------------------------------------------------------------------
(* Aggregates. *)

(* A list of integers that is not empty has a least and a greatest member. *)
LEMMA Extremes ==
  ASSUME NEW s, IsList(s), Len(s) # 0, \A i \in 1..Len(s) : s[i] \in Int
  PROVE  /\ \E m \in ToSet(s) : \A y \in ToSet(s) : m <= y
         /\ \E m \in ToSet(s) : \A y \in ToSet(s) : m >= y
         /\ ToSet(s) \subseteq Int
<1> DEFINE n == Len(s)
           Good(k) == k = 0 \/ (/\ \E i \in 1..k : \A j \in 1..k : s[i] <= s[j]
                                /\ \E i \in 1..k : \A j \in 1..k : s[i] >= s[j])
           T == {k \in 0..n : Good(k)}
<1>1. n \in Nat /\ DOMAIN s = 1..n BY ListElim
<1>2. \A i \in 1..n : s[i] \in Int OBVIOUS
<1> HIDE DEF n
<1>3. Good(0) OBVIOUS
<1>4. ASSUME NEW k \in 1..n, Good(k - 1) PROVE Good(k)
  <2>1. s[k] \in Int /\ k \in Nat BY <1>1, <1>2, <1>4
  <2>2. CASE k = 1 BY <2>1, <2>2
  <2>3. CASE k # 1
    <3>1. k - 1 # 0 /\ \A i \in 1..k : i \in 1..(k - 1) \/ i = k BY <2>1, <2>3
    <3>2. PICK a \in 1..(k - 1) : \A j \in 1..(k - 1) : s[a] <= s[j] BY <1>4, <3>1
    <3>3. PICK b \in 1..(k - 1) : \A j \in 1..(k - 1) : s[b] >= s[j] BY <1>4, <3>1
    <3>4. a \in 1..k /\ b \in 1..k /\ k \in 1..k /\ s[a] \in Int /\ s[b] \in Int
      BY <1>1, <1>2, <2>1
    <3>5. \A j \in 1..(k - 1) : s[j] \in Int BY <1>1, <1>2
    <3>6. \E i \in 1..k : \A j \in 1..k : s[i] <= s[j]
      <4>1. CASE s[a] <= s[k] BY <3>1, <3>2, <3>4, <4>1
      <4>2. CASE ~(s[a] <= s[k])
        <5>1. \A j \in 1..k : s[k] <= s[j] BY <2>1, <3>1, <3>2, <3>4, <3>5, <4>2
        <5>2. QED BY <3>4, <5>1
      <4>3. QED BY <4>1, <4>2
    <3>7. \E i \in 1..k : \A j \in 1..k : s[i] >= s[j]
      <4>1. CASE s[b] >= s[k] BY <3>1, <3>3, <3>4, <4>1
      <4>2. CASE ~(s[b] >= s[k])
        <5>1. \A j \in 1..k : s[k] >= s[j] BY <2>1, <3>1, <3>3, <3>4, <3>5, <4>2
        <5>2. QED BY <3>4, <5>1
      <4>3. QED BY <4>1, <4>2
    <3>8. QED BY <3>6, <3>7
  <2>4. QED BY <2>2, <2>3
<1> HIDE DEF Good
<1>5. 0 \in T BY <1>1, <1>3
<1>6. \A k \in 1..n : k - 1 \in T => k \in T BY <1>1, <1>4
<1> HIDE DEF T
<1>7. \A k \in 0..n : k \in T BY <1>1, <1>5, <1>6, UpTo
<1>8. Good(n) BY <1>1, <1>7 DEF T
<1>9. /\ \E i \in 1..n : \A j \in 1..n : s[i] <= s[j]
      /\ \E i \in 1..n : \A j \in 1..n : s[i] >= s[j] BY <1>8 DEF n, Good
<1>10. \A y : y \in ToSet(s) <=> \E i \in 1..n : s[i] = y BY MemberOfList DEF n
<1>11. ToSet(s) \subseteq Int BY <1>2, <1>10
<1>12. \E m \in ToSet(s) : \A y \in ToSet(s) : m <= y
  <2>1. PICK a \in 1..n : \A j \in 1..n : s[a] <= s[j] BY <1>9
  <2>2. s[a] \in ToSet(s) /\ \A y \in ToSet(s) : s[a] <= y BY <2>1, <1>10
  <2>3. QED BY <2>2
<1>13. \E m \in ToSet(s) : \A y \in ToSet(s) : m >= y
  <2>1. PICK a \in 1..n : \A j \in 1..n : s[a] >= s[j] BY <1>9
  <2>2. s[a] \in ToSet(s) /\ \A y \in ToSet(s) : s[a] >= y BY <2>1, <1>10
  <2>3. QED BY <2>2
<1>14. QED BY <1>11, <1>12, <1>13

(* The least and the greatest of times are times. *)
LEMMA ExtremeTimes ==
  ASSUME NEW s, IsList(s), s # <<>>, \A i \in 1..Len(s) : s[i] \in Int
  PROVE  /\ Least("DateTime", s) \in Int /\ Greatest("DateTime", s) \in Int
         /\ Min(ToSet(s)) \in Int /\ Max(ToSet(s)) \in Int
<1>1. Len(s) # 0 BY EmptyIff
<1>2. /\ \E m \in ToSet(s) : \A y \in ToSet(s) : m <= y
      /\ \E m \in ToSet(s) : \A y \in ToSet(s) : m >= y
      /\ ToSet(s) \subseteq Int BY <1>1, Extremes
<1>3. Min(ToSet(s)) \in ToSet(s) BY <1>2 DEF Min
<1>4. Max(ToSet(s)) \in ToSet(s) BY <1>2 DEF Max
<1>5. \A x, y : Less("DateTime", x, y) <=> x < y BY DEF Less
<1>6. \E m \in ToSet(s) : \A y \in ToSet(s) : ~Less("DateTime", y, m) BY <1>2, <1>5
<1>7. \E m \in ToSet(s) : \A y \in ToSet(s) : ~Less("DateTime", m, y) BY <1>2, <1>5
<1>8. Least("DateTime", s) \in ToSet(s) BY <1>6 DEF Least
<1>9. Greatest("DateTime", s) \in ToSet(s) BY <1>7 DEF Greatest
<1>10. QED BY <1>2, <1>3, <1>4, <1>8, <1>9

(* The aggregates that a column of times may have. *)
OfTimes(cls, agg) == AggClass(cls, agg) = "DateTime" => agg \in {"min", "max"}

(* An aggregate of times that is itself a time is a number or null. *)
LEMMA AggregateTimes ==
  ASSUME NEW c, NEW d, TwinCol(c, d), NEW rows, IsList(rows), NEW agg,
         OfTimes(c.cls, agg), AggClass(c.cls, agg) = "DateTime"
  PROVE  AggregateSubset(c, rows, agg) = None \/ AggregateSubset(c, rows, agg) \in Int
<1> DEFINE v == ValuesIn(c, rows)
<1>1. agg \in {"min", "max"} BY DEF OfTimes
<1>2. c.cls = "DateTime" BY <1>1 DEF AggClass
<1>3. IsList(v) /\ \A k \in 1..Len(v) : v[k] \in Int BY <1>2, ValuesInFacts
<1>4. AggregateSubset(c, rows, agg) = Aggregate("DateTime", v, agg) BY <1>2 DEF AggregateSubset
<1> HIDE DEF v
<1>5. CASE v = <<>> BY <1>1, <1>4, <1>5 DEF Aggregate
<1>6. CASE v # <<>>
  <2>1. Least("DateTime", v) \in Int /\ Greatest("DateTime", v) \in Int BY <1>3, <1>6, ExtremeTimes
  <2>2. Aggregate("DateTime", v, agg) \in {Least("DateTime", v), Greatest("DateTime", v)}
    BY <1>1, <1>6 DEF Aggregate
  <2>3. QED BY <1>4, <2>1, <2>2
<1>7. QED BY <1>5, <1>6

(* An aggregate over some rows skips nulls, so it is the same of twins. *)
LEMMA SubsetSame ==
  ASSUME NEW c, NEW d, TwinCol(c, d), NEW rows, IsList(rows), NEW agg
  PROVE  AggregateSubset(c, rows, agg) = AggregateSubset(d, rows, agg)
BY ValuesInFacts, TwinReads DEF AggregateSubset

(* A column of aggregates, one for each group, is the same of twins. *)
LEMMA AggColumnFacts ==
  ASSUME NEW c, NEW d, TwinCol(c, d), NEW gs, IsList(gs), \A k \in 1..Len(gs) : IsList(gs[k]), NEW agg,
         OfTimes(c.cls, agg)
  PROVE  /\ AggColumn(c, gs, agg) = AggColumn(d, gs, agg)
         /\ ColumnShape(AggColumn(c, gs, agg)) /\ Length(AggColumn(c, gs, agg)) = Len(gs)
<1> DEFINE x == [k \in DOMAIN gs |-> AggregateSubset(c, gs[k], agg)]
           y == [k \in DOMAIN gs |-> AggregateSubset(d, gs[k], agg)]
           cls == AggClass(c.cls, agg)
<1>1. DOMAIN gs = 1..Len(gs) BY ListElim
<1>2. x = y BY <1>1, SubsetSame
<1>3. c.cls = d.cls BY TwinReads
<1>4. AggColumn(c, gs, agg) = Filled(cls, x) /\ AggColumn(d, gs, agg) = Filled(cls, y) BY <1>3 DEF AggColumn
<1>5. x = [k \in DOMAIN gs |-> x[k]] OBVIOUS
<1>6. cls = "DateTime" => \A k \in 1..Len(gs) : x[k] = None \/ x[k] \in Int BY <1>1, AggregateTimes
<1> HIDE DEF x, y, cls
<1>7. IsList(x) /\ Len(x) = Len(gs) BY <1>5, MapLen
<1>8. ColumnShape(Filled(cls, x)) /\ Length(Filled(cls, x)) = Len(x) BY <1>6, <1>7, FilledMade
<1>9. QED BY <1>2, <1>4, <1>7, <1>8

(* Columns of aggregates, of chosen columns. *)
LEMMA AggColsTwin ==
  ASSUME NEW m \in Nat, NEW x, IsList(x), Len(x) = m, NEW y, IsList(y), Len(y) = m,
         NEW gs, IsList(gs), \A k \in 1..Len(gs) : IsList(gs[k]), NEW ok,
         \A k \in 1..m : \E c, d, op : /\ TwinCol(c, d) /\ OfTimes(c.cls, op)
                                        /\ x[k] = AggColumn(c, gs, op) /\ y[k] = AggColumn(d, gs, op)
  PROVE  TwinCols(x, y, ok, Len(gs))
<1>1. ASSUME NEW k \in 1..m PROVE TwinCol(x[k], y[k]) /\ Length(x[k]) = Len(gs)
  <2>1. PICK c, d, op : /\ TwinCol(c, d) /\ OfTimes(c.cls, op)
                         /\ x[k] = AggColumn(c, gs, op) /\ y[k] = AggColumn(d, gs, op) OBVIOUS
  <2>2. x[k] = y[k] /\ ColumnShape(x[k]) /\ Length(x[k]) = Len(gs) BY <2>1, AggColumnFacts
  <2>3. QED BY <2>2, SelfTwin
<1>2. x = [k \in 1..m |-> x[k]] /\ y = [k \in 1..m |-> y[k]] BY ListElim
<1>3. QED BY <1>1, <1>2, ColsIntro

(* The sum or the max of every numeric column of twins. *)
LEMMA AggShortcutTwin ==
  ASSUME NEW f, NEW g, NEW ok, Twin(f, g, ok),
         NEW names, IsList(names), \A k \in 1..Len(names) : HasColumn(f, names[k]),
         NEW agg \in {"sum", "max"}
  PROVE  Twin(AggShortcut(GroupBy(f, names), agg), AggShortcut(GroupBy(g, names), agg), ok)
<1> DEFINE gs == GroupRows(f, names)
           G == GroupBy(f, names)
           H == GroupBy(g, names)
           S(e) == {k \in DOMAIN e.names :
                     /\ e.names[k] \notin ToSet(names)
                     /\ \/ agg = "count"
                        \/ Numeric(e.cols[k])
                        \/ agg \in {"min", "max"} /\ e.cols[k].cls = "DateTime"}
           ks == RowsIn(Len(f.names), S(f))
           x == [k \in DOMAIN ks |-> AggColumn(f.cols[ks[k]], gs, agg)]
           y == [k \in DOMAIN ks |-> AggColumn(g.cols[ks[k]], gs, agg)]
           ns == [k \in DOMAIN ks |-> f.names[ks[k]]]
<1>1. /\ f.names = g.names /\ Len(f.names) = Len(f.cols) /\ Len(f.names) \in Nat
      /\ DOMAIN f.names = 1..Len(f.cols) /\ TwinCols(f.cols, g.cols, ok, f.nrows) /\ f.nrows \in Nat BY TwinParts
<1>2. gs = GroupRows(g, names) BY GroupRowsSame
<1>3. IsList(gs) /\ \A k \in 1..Len(gs) : IsList(gs[k]) BY <1>1, GroupRowsFacts
<1>4. \A k \in 1..Len(f.cols) : TwinCol(f.cols[k], g.cols[k]) BY <1>1, ColsOf
<1>5. S(f) = S(g)
  <2>1. \A k \in DOMAIN f.names : f.cols[k].cls = g.cols[k].cls BY <1>1, <1>4, TwinReads
  <2>2. QED BY <1>1, <2>1 DEF Numeric
<1>6. /\ G.parent = f /\ G.keys = names /\ G.groups = gs
      /\ H.parent = g /\ H.keys = names /\ H.groups = gs BY <1>2 DEF GroupBy
<1>7. Covered(G, agg) = ks /\ Covered(H, agg) = ks
  <2> HIDE DEF G, H
  <2>1. Covered(G, agg) = RowsIn(Len(f.names), S(f)) BY <1>6 DEF Covered
  <2>2. Covered(H, agg) = RowsIn(Len(g.names), S(g)) BY <1>6 DEF Covered
  <2> HIDE DEF S
  <2>3. QED BY <1>1, <1>5, <2>1, <2>2
<1>8. /\ AggShortcut(G, agg) = ByKey(G, ns, x)
      /\ AggShortcut(H, agg) = ByKey(H, ns, y)
  <2> HIDE DEF G, H, ks, gs
  <2>1. QED BY <1>1, <1>6, <1>7 DEF AggShortcut
<1>9. \A k \in S(f) : OfTimes(f.cols[k].cls, agg)
  BY DEF Numeric, OfTimes, AggClass
<1> HIDE DEF S
<1>10. IsList(ks) /\ DOMAIN ks = 1..Len(ks) /\ Len(ks) \in Nat /\ \A k \in 1..Len(ks) : ks[k] \in 1..Len(f.cols) /\ ks[k] \in S(f)
  BY <1>1, RowsInEntries
<1> HIDE DEF ks, gs
<1>11. ns = [k \in DOMAIN ks |-> ns[k]] /\ x = [k \in 1..Len(ks) |-> x[k]] /\ y = [k \in 1..Len(ks) |-> y[k]]
  BY <1>10
<1>12. ASSUME NEW k \in 1..Len(ks)
       PROVE \E c, d, a : /\ TwinCol(c, d) /\ OfTimes(c.cls, a)
                          /\ x[k] = AggColumn(c, gs, a) /\ y[k] = AggColumn(d, gs, a)
  <2>1. TwinCol(f.cols[ks[k]], g.cols[ks[k]]) /\ OfTimes(f.cols[ks[k]].cls, agg) BY <1>4, <1>9, <1>10
  <2>2. x[k] = AggColumn(f.cols[ks[k]], gs, agg) /\ y[k] = AggColumn(g.cols[ks[k]], gs, agg) BY <1>10
  <2>3. QED BY <2>1, <2>2
<1> HIDE DEF ns, x, y
<1>13. IsList(ns) /\ Len(ns) = Len(ks) BY <1>10, <1>11, MapLen
<1>14. TwinCols(x, y, ok, Len(gs)) /\ Len(x) = Len(ks)
  <2>1. /\ IsList(x) /\ Len(x) = Len(ks) /\ IsList(y) /\ Len(y) = Len(ks)
    <3>1. x = [k \in DOMAIN ks |-> x[k]] /\ y = [k \in DOMAIN ks |-> y[k]] BY <1>10, <1>11
    <3>2. QED BY <1>10, <3>1, MapLen
  <2>2. \A k \in 1..Len(ks) : \E c, d, a : /\ TwinCol(c, d) /\ OfTimes(c.cls, a)
                                     /\ x[k] = AggColumn(c, gs, a) /\ y[k] = AggColumn(d, gs, a) BY <1>12
  <2>3. IsList(gs) /\ \A k \in 1..Len(gs) : IsList(gs[k]) BY <1>3
  <2>4. TwinCols(x, y, ok, Len(gs)) BY <1>10, <2>1, <2>2, <2>3, AggColsTwin
  <2>5. QED BY <2>1, <2>4
<1>15. Twin(ByKey(GroupBy(f, names), ns, x), ByKey(GroupBy(g, names), ns, y), ok)
  BY <1>13, <1>14, ByKeyTwin DEF gs
<1>16. QED BY <1>8, <1>15

(* agg of two columns, none of them a time. *)
LEMMA AggTwin ==
  ASSUME NEW f, NEW g, NEW ok, Twin(f, g, ok),
         NEW names, IsList(names), \A k \in 1..Len(names) : HasColumn(f, names[k]),
         NEW specs, IsList(specs), AggOK(GroupBy(f, names), specs),
         \A k \in 1..Len(specs) : specs[k][2] \in {"mean", "count"}
  PROVE  Twin(Agg(GroupBy(f, names), specs), Agg(GroupBy(g, names), specs), ok)
<1> DEFINE gs == GroupRows(f, names)
           G == GroupBy(f, names)
           H == GroupBy(g, names)
           x == [k \in DOMAIN specs |-> AggColumn(ColumnOf(f, specs[k][1]), gs, specs[k][2])]
           y == [k \in DOMAIN specs |-> AggColumn(ColumnOf(g, specs[k][1]), gs, specs[k][2])]
           ns == [k \in DOMAIN specs |-> specs[k][1] \o "_" \o specs[k][2]]
<1>1. f.nrows \in Nat BY TwinParts
<1>2. gs = GroupRows(g, names) BY GroupRowsSame
<1>3. IsList(gs) /\ \A k \in 1..Len(gs) : IsList(gs[k]) BY <1>1, GroupRowsFacts
<1>4. DOMAIN specs = 1..Len(specs) /\ Len(specs) \in Nat BY ListElim
<1>5. /\ G.parent = f /\ G.keys = names /\ G.groups = gs
      /\ H.parent = g /\ H.keys = names /\ H.groups = gs BY <1>2 DEF GroupBy
<1>6. /\ Agg(G, specs) = ByKey(G, ns, x)
      /\ Agg(H, specs) = ByKey(H, ns, y)
  <2> HIDE DEF G, H, gs
  <2>1. QED BY <1>5 DEF Agg
<1>7. \A k \in 1..Len(specs) : HasColumn(f, specs[k][1])
  <2>1. AggOK(G, specs) OBVIOUS
  <2> HIDE DEF G
  <2>2. QED BY <1>4, <1>5, <2>1 DEF AggOK
<1>8. ns = [k \in DOMAIN specs |-> ns[k]] /\ x = [k \in 1..Len(specs) |-> x[k]] /\ y = [k \in 1..Len(specs) |-> y[k]]
  BY <1>4
<1> HIDE DEF gs
<1>9. ASSUME NEW k \in 1..Len(specs)
       PROVE \E c, d, a : /\ TwinCol(c, d) /\ OfTimes(c.cls, a)
                          /\ x[k] = AggColumn(c, gs, a) /\ y[k] = AggColumn(d, gs, a)
  <2>1. TwinCol(ColumnOf(f, specs[k][1]), ColumnOf(g, specs[k][1])) BY <1>7, ColumnOfTwin
  <2>2. OfTimes(ColumnOf(f, specs[k][1]).cls, specs[k][2]) BY DEF OfTimes, AggClass
  <2>3. /\ x[k] = AggColumn(ColumnOf(f, specs[k][1]), gs, specs[k][2])
        /\ y[k] = AggColumn(ColumnOf(g, specs[k][1]), gs, specs[k][2]) BY <1>4
  <2>4. QED BY <2>1, <2>2, <2>3
<1> HIDE DEF ns, x, y
<1>10. IsList(ns) /\ Len(ns) = Len(specs) BY <1>8, MapLen
<1>11. TwinCols(x, y, ok, Len(gs)) /\ Len(x) = Len(specs)
  <2>1. IsList(x) /\ Len(x) = Len(specs) /\ IsList(y) /\ Len(y) = Len(specs) BY <1>8, MapLen
  <2>2. Len(specs) \in Nat BY <1>4, ListElim
  <2>3. \A k \in 1..Len(specs) : \E c, d, a : /\ TwinCol(c, d) /\ OfTimes(c.cls, a)
                                        /\ x[k] = AggColumn(c, gs, a) /\ y[k] = AggColumn(d, gs, a) BY <1>9
  <2>4. IsList(gs) /\ \A k \in 1..Len(gs) : IsList(gs[k]) BY <1>3
  <2>5. TwinCols(x, y, ok, Len(gs)) BY <2>1, <2>2, <2>3, <2>4, AggColsTwin
  <2>6. QED BY <2>1, <2>5
<1>12. Twin(ByKey(GroupBy(f, names), ns, x), ByKey(GroupBy(g, names), ns, y), ok)
  BY <1>10, <1>11, ByKeyTwin DEF gs
<1>13. QED BY <1>6, <1>12

(* Two columns, as a list. *)
LEMMA TwoCols ==
  ASSUME NEW a, NEW b, NEW c, NEW d, TwinCol(a, c), TwinCol(b, d), NEW n, Length(a) = n, Length(b) = n, NEW ok
  PROVE  TwinCols(<<a, b>>, <<c, d>>, ok, n)
<1> DEFINE x == <<a, b>>  y == <<c, d>>
<1>1. /\ x = [k \in 1..2 |-> x[k]] /\ y = [k \in 1..2 |-> y[k]]
      /\ x[1] = a /\ x[2] = b /\ y[1] = c /\ y[2] = d OBVIOUS
<1> HIDE DEF x, y
<1>2. \A k \in 1..2 : TwinCol(x[k], y[k]) /\ (ok => Length(x[k]) = n) BY <1>1
<1>3. QED BY <1>1, <1>2, ColsIntro DEF x, y

(* The list of two members. *)
LEMMA TwoList == ASSUME NEW x, NEW y PROVE IsList(<<x, y>>) /\ Len(<<x, y>>) = 2
<1> DEFINE s == <<x, y>>
<1>1. s = [k \in 1..2 |-> s[k]] OBVIOUS
<1> HIDE DEF s
<1>2. IsList(s) /\ Len(s) = 2 BY <1>1, ListIntro
<1>3. QED BY <1>2 DEF s

(* A frame of two columns. *)
LEMMA TwoColumnsTwin ==   \* a frame of two columns
  ASSUME NEW a, NEW b, NEW c, NEW d, TwinCol(a, c), TwinCol(b, d), Length(a) = Length(b), NEW m, NEW n, NEW ok
  PROVE  Twin(FromColumns(<<m, n>>, <<a, b>>), FromColumns(<<m, n>>, <<c, d>>), ok)
<1>1. TwinCols(<<a, b>>, <<c, d>>, ok, Length(a)) BY TwoCols
<1>2. Length(a) \in Nat /\ Length(c) = Length(a) BY TwinReads
<1>3. IsList(<<m, n>>) /\ Len(<<m, n>>) = 2 /\ Len(<<a, b>>) = 2 BY TwoList
<1>4. /\ FromColumns(<<m, n>>, <<a, b>>) = Frame(<<m, n>>, <<a, b>>, Length(a), NoIndex)
      /\ FromColumns(<<m, n>>, <<c, d>>) = Frame(<<m, n>>, <<c, d>>, Length(a), NoIndex)
  BY <1>2 DEF FromColumns
<1>5. QED BY <1>1, <1>2, <1>3, <1>4, NoIndexTwin, FrameTwin

(* A frame of one column. *)
LEMMA OneColumnTwin ==   \* a frame of one column
  ASSUME NEW a, NEW c, TwinCol(a, c), NEW m, NEW ok
  PROVE  Twin(FromColumns(<<m>>, <<a>>), FromColumns(<<m>>, <<c>>), ok)
<1>1. TwinCols(<<a>>, <<c>>, ok, Length(a)) BY OneCol
<1>2. Length(a) \in Nat /\ Length(c) = Length(a) BY TwinReads
<1>3. IsList(<<m>>) /\ Len(<<m>>) = 1 /\ Len(<<a>>) = 1 BY OneList
<1>4. /\ FromColumns(<<m>>, <<a>>) = Frame(<<m>>, <<a>>, Length(a), NoIndex)
      /\ FromColumns(<<m>>, <<c>>) = Frame(<<m>>, <<c>>, Length(a), NoIndex)
  BY <1>2 DEF FromColumns
<1>5. QED BY <1>1, <1>2, <1>3, <1>4, NoIndexTwin, FrameTwin

(* value_counts of twins. *)
LEMMA ValueCountsTwin ==
  ASSUME NEW f, NEW g, NEW ok, Twin(f, g, ok), NEW name, HasColumn(f, name)
  PROVE  Twin(ValueCounts(f, name), ValueCounts(g, name), ok)
<1> DEFINE c == ColumnOf(f, name)
           d == ColumnOf(g, name)
           value(e) == [i \in ToSet(NonNull(e)) |-> IF e.cls = "Cat" THEN 0 ELSE ValueAt(e, i)]
           groups(e) == GroupsOf(NonNull(e), value(e))
           more(e) == {p \in (DOMAIN groups(e)) \X (DOMAIN groups(e)) : Len(groups(e)[p[1]]) > Len(groups(e)[p[2]])}
           order(e) == Sorted(Rows(Len(groups(e))), more(e))
           firsts(e) == [k \in DOMAIN order(e) |-> groups(e)[order(e)[k]][1]]
           counts(e) == [k \in DOMAIN order(e) |-> Len(groups(e)[order(e)[k]])]
<1>1. TwinCol(c, d) BY ColumnOfTwin
<1>2. /\ ValueCounts(f, name) = FromColumns(<<name, "count">>, <<Take(c, firsts(c)), Whole("I64", counts(c))>>)
      /\ ValueCounts(g, name) = FromColumns(<<name, "count">>, <<Take(d, firsts(d)), Whole("I64", counts(d))>>)
  BY Zenon DEF ValueCounts
<1> HIDE DEF c, d
<1>3. NonNull(c) = NonNull(d) /\ c.cls = d.cls BY <1>1, NonNullSame, TwinReads
<1>4. IsList(NonNull(c)) /\ ToSet(NonNull(c)) = {i \in 1..Length(c) : ~NullAt(c, i)}
  BY <1>1, ShapeOf, NonNullFacts
<1>5. value(c) = value(d)
  <2>1. \A i \in ToSet(NonNull(c)) : ValueAt(c, i) = ValueAt(d, i) BY <1>1, <1>4, TwinReads
  <2>2. QED BY <1>3, <2>1
<1> DEFINE v == value(c)  gs == GroupsOf(NonNull(c), v)
           mr == {p \in (DOMAIN gs) \X (DOMAIN gs) : Len(gs[p[1]]) > Len(gs[p[2]])}
           od == Sorted(Rows(Len(gs)), mr)
           fi == [k \in DOMAIN od |-> gs[od[k]][1]]
           co == [k \in DOMAIN od |-> Len(gs[od[k]])]
<1>6. groups(c) = gs /\ groups(d) = gs BY <1>3, <1>5, Zenon
<1> HIDE DEF value, v, groups, gs
<1>7. more(c) = mr /\ more(d) = mr BY <1>6
<1> HIDE DEF more, mr
<1>8. order(c) = od /\ order(d) = od BY <1>6, <1>7, Zenon
<1> HIDE DEF order, od
<1>9. firsts(c) = fi /\ firsts(d) = fi /\ counts(c) = co /\ counts(d) = co BY <1>6, <1>8
<1>10. fi = [k \in DOMAIN od |-> fi[k]] /\ co = [k \in DOMAIN od |-> co[k]] OBVIOUS
<1> HIDE DEF firsts, counts, fi, co
<1>11. IsList(od)
  <2>1. Len(gs) \in Nat BY <1>4, GroupsFacts DEF gs
  <2>2. QED BY <2>1, RowsList, SortedFacts DEF od
<1>12. IsList(fi) /\ Len(fi) = Len(od) /\ IsList(co) /\ Len(co) = Len(od) BY <1>10, <1>11, MapLen
<1> DEFINE w == Whole("I64", co)
<1>13. ColumnShape(w) /\ Length(w) = Len(od) BY <1>12, WholeMade DEF Times
<1> HIDE DEF w
<1>14. TwinCol(w, w) BY <1>13, SelfTwin
<1>15. TwinCol(Take(c, fi), Take(d, fi)) /\ Length(Take(c, fi)) = Len(od) BY <1>1, <1>12, TwinTake
<1>16. QED BY <1>2, <1>9, <1>13, <1>14, <1>15, TwoColumnsTwin DEF w

------------------------------------------------------------------------------
(* Cells, as pairs of a value and whether it is null. *)

(* Two cells, both null or of one value. *)
TwinCell(p, q, cls) ==
  /\ p[2] = q[2]
  /\ ~p[2] => p[1] = q[1]
  /\ cls = "DateTime" => p[1] \in Int /\ q[1] \in Int
(* Two lists of such cells. *)
TwinCells(x, y, cls) ==
  /\ IsList(x) /\ IsList(y) /\ Len(x) = Len(y)
  /\ \A k \in 1..Len(x) : TwinCell(x[k], y[k], cls)

(* The cell of a merge's row, null when there is no row to take it from. *)
LEMMA PluckRowTwin ==
  ASSUME NEW c, NEW d, TwinCol(c, d), NEW i
  PROVE  TwinCell(PluckRow(c, i), PluckRow(d, i), c.cls)
<1>1. c.cls = d.cls /\ NullAt(c, i) = NullAt(d, i) /\ (~NullAt(c, i) => ValueAt(c, i) = ValueAt(d, i))
  BY TwinReads
<1>2. c.cls = "DateTime" => ValueAt(c, i) \in Int /\ ValueAt(d, i) \in Int BY <1>1, ShapeOf, TimeAt
<1>3. c.cls = "DateTime" => Filler(c.cls) \in Int BY DEF Filler
<1>4. CASE i = 0
  <2>1. PluckRow(c, i) = <<Filler(c.cls), TRUE>> /\ PluckRow(d, i) = <<Filler(c.cls), TRUE>>
    BY <1>1, <1>4 DEF PluckRow
  <2>2. QED BY <1>3, <2>1 DEF TwinCell
<1>5. CASE i # 0
  <2>1. PluckRow(c, i) = <<ValueAt(c, i), NullAt(c, i)>> /\ PluckRow(d, i) = <<ValueAt(d, i), NullAt(d, i)>>
    BY <1>5 DEF PluckRow
  <2>2. QED BY <1>1, <1>2, <2>1 DEF TwinCell
<1>6. QED BY <1>4, <1>5

(* Lists of twin cells are introduced position by position. *)
LEMMA CellsIntro ==
  ASSUME NEW ks, IsList(ks), NEW x, NEW y, x = [k \in DOMAIN ks |-> x[k]], y = [k \in DOMAIN ks |-> y[k]],
         NEW cls, \A k \in DOMAIN ks : TwinCell(x[k], y[k], cls)
  PROVE  TwinCells(x, y, cls) /\ Len(x) = Len(ks)
<1>1. IsList(x) /\ Len(x) = Len(ks) /\ IsList(y) /\ Len(y) = Len(ks) BY MapLen
<1>2. DOMAIN ks = 1..Len(ks) BY ListElim
<1>3. QED BY <1>1, <1>2 DEF TwinCells

(* The values and the nulls of twin cells. *)
LEMMA CellLists ==
  ASSUME NEW x, NEW y, NEW cls, TwinCells(x, y, cls)
  PROVE  /\ [k \in DOMAIN x |-> x[k][2]] = [k \in DOMAIN y |-> y[k][2]]
         /\ IsList([k \in DOMAIN x |-> x[k][2]]) /\ Len([k \in DOMAIN x |-> x[k][2]]) = Len(x)
         /\ IsList([k \in DOMAIN x |-> x[k][1]]) /\ Len([k \in DOMAIN x |-> x[k][1]]) = Len(x)
         /\ IsList([k \in DOMAIN y |-> y[k][1]]) /\ Len([k \in DOMAIN y |-> y[k][1]]) = Len(x)
<1> DEFINE n == [k \in DOMAIN x |-> x[k][2]]
           v == [k \in DOMAIN x |-> x[k][1]]
           w == [k \in DOMAIN y |-> y[k][1]]
<1>1. /\ IsList(x) /\ IsList(y) /\ Len(x) = Len(y)
      /\ \A k \in 1..Len(x) : x[k][2] = y[k][2] BY DEF TwinCells, TwinCell
<1>2. DOMAIN x = 1..Len(x) /\ DOMAIN y = 1..Len(x) BY <1>1, ListElim
<1>3. n = [k \in DOMAIN y |-> y[k][2]] BY <1>1, <1>2
<1>4. n = [k \in DOMAIN x |-> n[k]] /\ v = [k \in DOMAIN x |-> v[k]] /\ w = [k \in DOMAIN y |-> w[k]] OBVIOUS
<1> HIDE DEF n, v, w
<1>5. /\ IsList(n) /\ Len(n) = Len(x) /\ IsList(v) /\ Len(v) = Len(x)
      /\ IsList(w) /\ Len(w) = Len(x) BY <1>1, <1>4, MapLen
<1>6. QED BY <1>3, <1>5 DEF n, v, w

(* A column made of twin cells. *)
LEMMA PluckTwin ==
  ASSUME NEW x, NEW y, NEW cls, TwinCells(x, y, cls)
  PROVE  TwinCol(Pluck(cls, x), Pluck(cls, y)) /\ Length(Pluck(cls, x)) = Len(x)
<1> DEFINE n == [k \in DOMAIN x |-> x[k][2]]
           v == [k \in DOMAIN x |-> x[k][1]]
           w == [k \in DOMAIN y |-> y[k][1]]
<1>1. /\ IsList(x) /\ IsList(y) /\ Len(x) = Len(y)
      /\ \A k \in 1..Len(x) : TwinCell(x[k], y[k], cls) BY DEF TwinCells
<1>2. DOMAIN x = 1..Len(x) /\ DOMAIN y = 1..Len(x) BY <1>1, ListElim
<1>3. n = [k \in DOMAIN y |-> y[k][2]] /\ IsList(n) /\ Len(n) = Len(x)
      /\ IsList(v) /\ Len(v) = Len(x) /\ IsList(w) /\ Len(w) = Len(x) BY CellLists
<1>4. Times(cls, v) /\ Times(cls, w) BY <1>1, <1>2 DEF TwinCell, Times
<1>5. \A k \in 1..Len(x) : ~n[k] => v[k] = w[k] BY <1>1, <1>2 DEF TwinCell
<1>6. /\ Pluck(cls, x) = Column(cls, IF cls = "Cat" THEN <<>> ELSE v, n)
      /\ Pluck(cls, y) = Column(cls, IF cls = "Cat" THEN <<>> ELSE w, n) BY <1>3, Zenon DEF Pluck
<1> HIDE DEF n, v, w
<1>7. CASE cls = "Cat"
  <2>1. /\ Pluck(cls, x) = Column(cls, <<>>, n) /\ Pluck(cls, y) = Column(cls, <<>>, n)
    BY <1>6, <1>7
  <2>2. ColumnShape(Column(cls, <<>>, n)) /\ Length(Column(cls, <<>>, n)) = Len(n)
    BY <1>3, <1>7, EmptyList DEF Column, ColumnShape, Length, Times
  <2>3. QED BY <1>3, <2>1, <2>2, SelfTwin
<1>8. CASE cls # "Cat"
  <2>1. Pluck(cls, x) = Column(cls, v, n) /\ Pluck(cls, y) = Column(cls, w, n) BY <1>6, <1>8
  <2>2. TwinCol(Column(cls, v, n), Column(cls, w, n)) /\ Length(Column(cls, v, n)) = Len(n)
    <3>1. /\ IsList(v) /\ IsList(w) /\ IsList(n) /\ Len(v) = Len(n) /\ Len(w) = Len(n)
          /\ \A i \in 1..Len(n) : ~n[i] => v[i] = w[i] BY <1>3, <1>5
    <3>2. QED BY <1>4, <3>1, ColumnTwin
  <2>3. QED BY <1>3, <2>1, <2>2
<1>9. QED BY <1>7, <1>8

(* A level made of twin cells: a missing label is a null cell. *)
LEMMA LevelTwin ==
  ASSUME NEW x, NEW y, NEW cls, TwinCells(x, y, cls)
  PROVE  TwinCol(LevelOf(cls, x), LevelOf(cls, y)) /\ Length(LevelOf(cls, x)) = Len(x)
<1>1. CASE cls # "Cat"
  <2>1. LevelOf(cls, x) = Pluck(cls, x) /\ LevelOf(cls, y) = Pluck(cls, y) BY <1>1 DEF LevelOf
  <2>2. QED BY <2>1, PluckTwin
<1>2. CASE cls = "Cat"
  <2> DEFINE z == [k \in DOMAIN x |-> 0]
             n == [k \in DOMAIN x |-> x[k][2]]
  <2>1. IsList(x) /\ DOMAIN x = DOMAIN y BY ListElim DEF TwinCells
  <2>2. n = [k \in DOMAIN y |-> y[k][2]] /\ IsList(n) /\ Len(n) = Len(x) BY CellLists
  <2>3. LevelOf(cls, x) = Categorical(z, n, <<>>) /\ LevelOf(cls, y) = Categorical(z, n, <<>>)
    BY <1>2, <2>1, <2>2, Zenon DEF LevelOf, Side
  <2>4. z = [k \in DOMAIN x |-> z[k]] OBVIOUS
  <2> HIDE DEF z, n
  <2>5. IsList(z) /\ Len(z) = Len(x) BY <2>1, <2>4, MapLen
  <2>6. ColumnShape(Categorical(z, n, <<>>)) /\ Length(Categorical(z, n, <<>>)) = Len(n)
    BY <2>2, <2>5, EmptyList, CategoricalMade
  <2>7. QED BY <2>2, <2>3, <2>6, SelfTwin
<1>3. QED BY <1>1, <1>2

(* The key cells of an outer merge, from the side that has the row. *)
LEMMA EitherTwin ==
  ASSUME NEW a, NEW b, TwinCol(a, b), NEW c, NEW d, TwinCol(c, d), a.cls = c.cls, NEW pairs, IsList(pairs)
  PROVE  /\ TwinCells(EitherCells(a, c, pairs), EitherCells(b, d, pairs), a.cls)
         /\ Len(EitherCells(a, c, pairs)) = Len(pairs)
<1> DEFINE x == EitherCells(a, c, pairs)  y == EitherCells(b, d, pairs)
<1>1. \A i : TwinCell(PluckRow(a, i), PluckRow(b, i), a.cls) BY PluckRowTwin
<1>2. \A i : TwinCell(PluckRow(c, i), PluckRow(d, i), a.cls) BY PluckRowTwin
<1>3. /\ x = [k \in DOMAIN pairs |-> IF pairs[k][1] # 0 THEN PluckRow(a, pairs[k][1]) ELSE PluckRow(c, pairs[k][2])]
      /\ y = [k \in DOMAIN pairs |-> IF pairs[k][1] # 0 THEN PluckRow(b, pairs[k][1]) ELSE PluckRow(d, pairs[k][2])]
  BY DEF EitherCells
<1> HIDE DEF x, y
<1>4. ASSUME NEW k \in DOMAIN pairs PROVE TwinCell(x[k], y[k], a.cls)
  <2>1. CASE pairs[k][1] # 0
    <3>1. x[k] = PluckRow(a, pairs[k][1]) /\ y[k] = PluckRow(b, pairs[k][1]) BY <1>3, <2>1
    <3>2. QED BY <1>1, <3>1
  <2>2. CASE pairs[k][1] = 0
    <3>1. x[k] = PluckRow(c, pairs[k][2]) /\ y[k] = PluckRow(d, pairs[k][2]) BY <1>3, <2>2
    <3>2. QED BY <1>2, <3>1
  <2>3. QED BY <2>1, <2>2
<1>5. x = [k \in DOMAIN pairs |-> x[k]] /\ y = [k \in DOMAIN pairs |-> y[k]] BY <1>3
<1>6. TwinCells(x, y, a.cls) /\ Len(x) = Len(pairs) BY <1>4, <1>5, CellsIntro
<1>7. QED BY <1>6 DEF x, y

(* The cells of a column in rows given by a function. *)
LEMMA RowCellsTwin ==   \* cells of a column, by the numbers of their rows
  ASSUME NEW c, NEW d, TwinCol(c, d), NEW ks, IsList(ks), NEW h
  PROVE  /\ TwinCells([k \in DOMAIN ks |-> PluckRow(c, h[k])], [k \in DOMAIN ks |-> PluckRow(d, h[k])], c.cls)
         /\ Len([k \in DOMAIN ks |-> PluckRow(c, h[k])]) = Len(ks)
<1> DEFINE x == [k \in DOMAIN ks |-> PluckRow(c, h[k])]  y == [k \in DOMAIN ks |-> PluckRow(d, h[k])]
<1>1. \A k \in DOMAIN ks : TwinCell(x[k], y[k], c.cls)
  <2>1. \A i : TwinCell(PluckRow(c, i), PluckRow(d, i), c.cls) BY PluckRowTwin
  <2>2. QED BY <2>1
<1>2. x = [k \in DOMAIN ks |-> x[k]] /\ y = [k \in DOMAIN ks |-> y[k]] OBVIOUS
<1> HIDE DEF x, y
<1>3. TwinCells(x, y, c.cls) /\ Len(x) = Len(ks) BY <1>1, <1>2, CellsIntro
<1>4. QED BY <1>3 DEF x, y

(* The cells of one side of a merge, as a column and as a level. *)
LEMMA SideTwin ==
  ASSUME NEW c, NEW d, TwinCol(c, d), NEW pairs, IsList(pairs), NEW s
  PROVE  /\ TwinCol(PluckSide(c, pairs, s), PluckSide(d, pairs, s)) /\ Length(PluckSide(c, pairs, s)) = Len(pairs)
         /\ TwinCol(PaddedLevel(c, pairs, s), PaddedLevel(d, pairs, s)) /\ Length(PaddedLevel(c, pairs, s)) = Len(pairs)
<1> DEFINE h == [k \in DOMAIN pairs |-> pairs[k][s]]
           x == [k \in DOMAIN pairs |-> PluckRow(c, h[k])]  y == [k \in DOMAIN pairs |-> PluckRow(d, h[k])]
<1>1. c.cls = d.cls BY TwinReads
<1>2. /\ x = [k \in DOMAIN pairs |-> PluckRow(c, pairs[k][s])] /\ y = [k \in DOMAIN pairs |-> PluckRow(d, pairs[k][s])]
  OBVIOUS
<1>3. /\ PluckSide(c, pairs, s) = Pluck(c.cls, x) /\ PluckSide(d, pairs, s) = Pluck(c.cls, y)
      /\ PaddedLevel(c, pairs, s) = LevelOf(c.cls, x) /\ PaddedLevel(d, pairs, s) = LevelOf(c.cls, y)
  <2> HIDE DEF x, y
  <2>1. QED BY <1>1, <1>2 DEF PluckSide, PaddedLevel
<1> HIDE DEF h
<1>4. TwinCells(x, y, c.cls) /\ Len(x) = Len(pairs) BY RowCellsTwin
<1> HIDE DEF x, y
<1>5. QED BY <1>3, <1>4, PluckTwin, LevelTwin

------------------------------------------------------------------------------
(* Merges. *)

(* Two rows match by the texts of their keys, the same for twins. *)
LEMMA MatchesSame ==
  ASSUME NEW a, NEW b, NEW p, NEW m, TwinCols(a, b, p, m), NEW c, NEW d, NEW q, NEW n, TwinCols(c, d, q, n),
         Len(a) = Len(c), NEW i, NEW j
  PROVE  Matches(a, c, i, j) <=> Matches(b, d, i, j)
<1>1. /\ CodesOf(a, i) = CodesOf(b, i) /\ RowKey(a, i) = RowKey(b, i)
      /\ NullKey(a, i) <=> NullKey(b, i) BY KeysSame
<1>2. /\ CodesOf(c, j) = CodesOf(d, j) /\ RowKey(c, j) = RowKey(d, j)
      /\ NullKey(c, j) <=> NullKey(d, j) BY KeysSame
<1>3. CanUseCodes(a, c) <=> CanUseCodes(b, d)
  <2>1. DOMAIN a = 1..Len(a) /\ DOMAIN b = 1..Len(a) BY ColsElim
  <2>2. \A k \in 1..Len(a) : /\ a[k].cls = b[k].cls /\ a[k].cats = b[k].cats
                             /\ c[k].cls = d[k].cls /\ c[k].cats = d[k].cats
    BY ColsOf, TwinReads
  <2>3. QED BY <2>1, <2>2 DEF CanUseCodes
<1>4. QED BY <1>1, <1>2, <1>3 DEF Matches

(* A merge emits the same pairs of rows for twins. *)
LEMMA EmitSame ==
  ASSUME NEW f, NEW g, NEW p, Twin(f, g, p), NEW u, NEW v, NEW q, Twin(u, v, q),
         NEW on, IsList(on), MergeOK(f, u, on), NEW how
  PROVE  Emit(f, u, on, how) = Emit(g, v, on, how) /\ IsList(Emit(f, u, on, how))
<1> DEFINE a == KeyColumns(f, on)  b == KeyColumns(g, on)
           c == KeyColumns(u, on)  d == KeyColumns(v, on)
           m == f.nrows  n == u.nrows
           S(x, y, i) == {j \in 1..n : Matches(x, y, i, j)}
           T(x, y) == {j \in 1..n : \A i \in 1..m : ~Matches(x, y, i, j)}
           F(x, y, i) == RowsIn(n, S(x, y, i))
           O(x, y, i) == IF F(x, y, i) # <<>> THEN [k \in DOMAIN F(x, y, i) |-> <<i, F(x, y, i)[k]>>]
                         ELSE IF how \in {"left", "outer"} THEN <<<<i, 0>>>> ELSE <<>>
           P(x, y) == [i \in 1..m |-> O(x, y, i)]
           M(x, y) == RowsIn(n, T(x, y))
           Q(x, y) == IF how \in {"right", "outer"} THEN [k \in DOMAIN M(x, y) |-> <<0, M(x, y)[k]>>] ELSE <<>>
<1>1. /\ g.nrows = m /\ v.nrows = n /\ m \in Nat /\ n \in Nat BY TwinParts
<1>2. /\ Emit(f, u, on, how) = FlattenSeq(P(a, c)) \o Q(a, c)
      /\ Emit(g, v, on, how) = FlattenSeq(P(b, d)) \o Q(b, d)
  BY <1>1, Zenon DEF Emit
<1>3. \A k \in 1..Len(on) : HasColumn(f, on[k]) /\ HasColumn(u, on[k])
  <2>1. DOMAIN on = 1..Len(on) BY ListElim
  <2>2. QED BY <2>1 DEF MergeOK
<1>4. /\ TwinCols(a, b, p, m) /\ TwinCols(c, d, q, n) /\ Len(a) = Len(c) BY <1>3, KeyColumnsTwin
<1> HIDE DEF a, b, c, d, m, n
<1>5. \A i, j : Matches(a, c, i, j) <=> Matches(b, d, i, j) BY <1>4, MatchesSame
<1>6. \A i : S(a, c, i) = S(b, d, i) BY <1>5
<1>7. T(a, c) = T(b, d) BY <1>5
<1> HIDE DEF S, T
<1>8. \A i : F(a, c, i) = F(b, d, i) /\ IsList(F(a, c, i)) BY <1>1, <1>6, RowsInFacts
<1>9. M(a, c) = M(b, d) /\ IsList(M(a, c)) BY <1>1, <1>7, RowsInFacts
<1> HIDE DEF F, M
<1>10. ASSUME NEW i PROVE O(a, c, i) = O(b, d, i) /\ IsList(O(a, c, i))
  <2>1. O(a, c, i) = O(b, d, i) BY <1>8
  <2> DEFINE z == [k \in DOMAIN F(a, c, i) |-> <<i, F(a, c, i)[k]>>]
  <2>2. z = [k \in DOMAIN F(a, c, i) |-> z[k]] OBVIOUS
  <2>3. O(a, c, i) \in {z, <<<<i, 0>>>>, <<>>} OBVIOUS
  <2> HIDE DEF z, O
  <2>4. IsList(z) BY <1>8, <2>2, MapLen
  <2>5. IsList(<<<<i, 0>>>>) /\ IsList(<<>>) BY OneList, EmptyList
  <2>6. QED BY <2>1, <2>3, <2>4, <2>5
<1>11. Q(a, c) = Q(b, d) /\ IsList(Q(a, c))
  <2>1. Q(a, c) = Q(b, d) BY <1>9
  <2> DEFINE z == [k \in DOMAIN M(a, c) |-> <<0, M(a, c)[k]>>]
  <2>2. z = [k \in DOMAIN M(a, c) |-> z[k]] OBVIOUS
  <2>3. Q(a, c) \in {z, <<>>} OBVIOUS
  <2> HIDE DEF z, Q
  <2>4. IsList(z) BY <1>9, <2>2, MapLen
  <2>5. QED BY <2>1, <2>3, <2>4, EmptyList
<1> HIDE DEF O, Q
<1>12. P(a, c) = P(b, d) BY <1>10
<1>13. P(a, c) = [i \in 1..m |-> P(a, c)[i]] /\ \A i \in 1..m : IsList(P(a, c)[i]) BY <1>10
<1> HIDE DEF P
<1>14. IsList(P(a, c)) /\ Len(P(a, c)) = m BY <1>1, <1>13, ListIntro
<1>15. IsList(FlattenSeq(P(a, c))) BY <1>13, <1>14, FlattenList
<1>16. IsList(FlattenSeq(P(a, c)) \o Q(a, c)) BY <1>11, <1>15, ConcatList
<1>17. QED BY <1>2, <1>11, <1>12, <1>16

(* The levels of one side of a merge, null where that side has no row. *)
LEMMA PaddedTwin ==
  ASSUME NEW a, NEW b, NEW p, NEW m, TwinIndex(a, b, p, m), NEW pairs, IsList(pairs), NEW s, NEW ok
  PROVE  /\ TwinCols(PaddedLevels(a, pairs, s), PaddedLevels(b, pairs, s), ok, Len(pairs))
         /\ Len(PaddedLevels(a, pairs, s)) = Len(a.levels)
<1> DEFINE x == PaddedLevels(a, pairs, s)  y == PaddedLevels(b, pairs, s)
           n == Len(a.levels)
<1>1. /\ DOMAIN a.levels = 1..n /\ DOMAIN b.levels = 1..n /\ n \in Nat
      /\ TwinCols(a.levels, b.levels, p, m) BY IndexParts
<1>2. /\ x = [k \in 1..n |-> PaddedLevel(a.levels[k], pairs, s)]
      /\ y = [k \in 1..n |-> PaddedLevel(b.levels[k], pairs, s)] BY <1>1 DEF PaddedLevels
<1>3. \A k \in 1..n : TwinCol(x[k], y[k]) /\ Length(x[k]) = Len(pairs)
  <2>1. \A k \in 1..n : TwinCol(a.levels[k], b.levels[k]) BY <1>1, ColsOf
  <2>2. QED BY <1>2, <2>1, SideTwin
<1>4. x = [k \in 1..n |-> x[k]] /\ y = [k \in 1..n |-> y[k]] BY <1>2
<1> HIDE DEF x, y, n
<1>5. TwinCols(x, y, ok, Len(pairs)) /\ Len(x) = n BY <1>1, <1>3, <1>4, ColsIntro
<1>6. QED BY <1>5 DEF x, y, n

(* The names that the levels of an index go by. *)
LEMMA NamedSame ==
  ASSUME NEW a, NEW b, NEW p, NEW m, TwinIndex(a, b, p, m), a.levels # <<>>, NEW default
  PROVE  Named(a, default) = Named(b, default) /\ IsList(Named(a, default)) /\ Len(Named(a, default)) = Len(a.levels)
<1>1. /\ a.names = b.names /\ a.multi = b.multi /\ IsList(a.names) /\ Len(a.names) = Len(a.levels)
      /\ a.multi \in BOOLEAN /\ (~a.multi => Len(a.levels) <= 1) /\ 1 \in 1..Len(a.levels) /\ Len(a.levels) \in Nat
  BY IndexParts
<1>2. Named(a, default) = Named(b, default) BY <1>1 DEF Named
<1>3. CASE a.multi
  <2>1. Named(a, default) = a.names BY <1>3 DEF Named
  <2>2. QED BY <1>1, <1>2, <2>1
<1>4. CASE ~a.multi
  <2> DEFINE x == IF a.names[1] = None THEN default ELSE a.names[1]
  <2>1. Named(a, default) = <<x>> BY <1>4 DEF Named
  <2> HIDE DEF x
  <2>2. Len(a.levels) = 1
    <3> DEFINE n == Len(a.levels)
    <3>1. n \in Nat /\ 1 \in 1..n /\ n <= 1 BY <1>1, <1>4
    <3> HIDE DEF n
    <3>2. n = 1 BY <3>1
    <3>3. QED BY <3>2 DEF n
  <2>3. QED BY <1>2, <2>1, <2>2, OneList
<1>5. QED BY <1>1, <1>3, <1>4, Zenon

(* A level of an outer merge. *)
LEMMA OuterColumnTwin ==
  ASSUME NEW a, NEW b, TwinCol(a, b), NEW c, NEW d, TwinCol(c, d), a.cls = c.cls, NEW pairs, IsList(pairs)
  PROVE  /\ TwinCol(OuterIndexColumn(a, c, pairs), OuterIndexColumn(b, d, pairs))
         /\ Length(OuterIndexColumn(a, c, pairs)) = Len(pairs)
<1> DEFINE x == EitherCells(a, c, pairs)  y == EitherCells(b, d, pairs)
           z(e) == [k \in DOMAIN e |-> 0]
           n(e) == [k \in DOMAIN e |-> e[k][2]]
<1>1. TwinCells(x, y, a.cls) /\ Len(x) = Len(pairs) BY EitherTwin
<1>2. a.cls = b.cls BY TwinReads
<1>3. /\ OuterIndexColumn(a, c, pairs) = IF a.cls = "Cat" THEN Column("I64", z(x), n(x)) ELSE Pluck(a.cls, x)
      /\ OuterIndexColumn(b, d, pairs) = IF a.cls = "Cat" THEN Column("I64", z(y), n(y)) ELSE Pluck(a.cls, y)
  BY <1>2 DEF OuterIndexColumn, Side
<1> HIDE DEF x, y
<1>4. CASE a.cls # "Cat" BY <1>1, <1>3, <1>4, PluckTwin
<1>5. CASE a.cls = "Cat"
  <2>1. n(x) = n(y) /\ IsList(n(x)) /\ Len(n(x)) = Len(x) BY <1>1, CellLists
  <2>2. IsList(x) /\ DOMAIN x = DOMAIN y BY <1>1, ListElim DEF TwinCells
  <2>3. z(x) = z(y) /\ z(x) = [k \in DOMAIN x |-> z(x)[k]] BY <2>2
  <2> HIDE DEF z, n
  <2>4. IsList(z(x)) /\ Len(z(x)) = Len(x) BY <2>2, <2>3, MapLen
  <2>5. ColumnShape(Column("I64", z(x), n(x))) /\ Length(Column("I64", z(x), n(x))) = Len(n(x))
    BY <2>1, <2>4, ColumnMade DEF Times
  <2>6. QED BY <1>1, <1>3, <1>5, <2>1, <2>3, <2>5, SelfTwin
<1>6. QED BY <1>4, <1>5

(* The index of an outer merge: of one level or several, or none where the *)
(* indexes do not fit.                                                     *)
LEMMA OuterIndexTwin ==
  ASSUME NEW f, NEW g, NEW p, Twin(f, g, p), NEW u, NEW v, NEW q, Twin(u, v, q), NEW pairs, IsList(pairs), NEW ok
  PROVE  TwinIndex(OuterIndex(f, u, pairs), OuterIndex(g, v, pairs), ok, Len(pairs))
<1> DEFINE a == f.ix  b == g.ix  c == u.ix  d == v.ix
           merged(x, y) == [k \in DOMAIN x.levels |-> LevelOf(x.levels[k].cls,
                              EitherCells(x.levels[k], y.levels[k], pairs))]
           names(x, y) == [k \in DOMAIN x.names |-> IF x.names[k] = "" THEN y.names[k] ELSE x.names[k]]
           beside(x, y) == MultiIndex(PaddedLevels(x, pairs, 1) \o PaddedLevels(y, pairs, 2),
                                      Named(x, "lhs") \o Named(y, "rhs"))
           outer(x, y) ==
             IF x.levels = <<>> \/ y.levels = <<>> THEN NoIndex
             ELSE IF x.multi # y.multi THEN beside(x, y)
             ELSE IF x.multi
             THEN IF Classes(x.levels) # Classes(y.levels) THEN NoIndex
                  ELSE MultiIndex(merged(x, y), names(x, y))
             ELSE IF x.levels[1].cls # y.levels[1].cls THEN beside(x, y)
             ELSE Index(OuterIndexColumn(x.levels[1], y.levels[1], pairs), x.names[1])
<1>1. OuterIndex(f, u, pairs) = outer(a, c) /\ OuterIndex(g, v, pairs) = outer(b, d) BY Zenon DEF OuterIndex
<1>2. TwinIndex(a, b, p, f.nrows) /\ TwinIndex(c, d, q, u.nrows) BY TwinParts
<1> DEFINE m == f.nrows  n == u.nrows
<1> HIDE DEF a, b, c, d, m, n
<1>3. /\ TwinIndex(a, b, p, m) /\ TwinIndex(c, d, q, n) BY <1>2 DEF m, n
<1>4. /\ TwinCols(a.levels, b.levels, p, m) /\ a.names = b.names /\ a.multi = b.multi /\ a.multi \in BOOLEAN
      /\ (a.levels = <<>>) <=> (b.levels = <<>>)
      /\ a.levels # <<>> => 1 \in 1..Len(a.levels)
      /\ DOMAIN a.names = 1..Len(a.levels) /\ IsList(a.names) /\ Len(a.names) = Len(a.levels)
      /\ DOMAIN a.levels = 1..Len(a.levels) /\ DOMAIN b.levels = 1..Len(a.levels) /\ Len(a.levels) \in Nat
  BY <1>3, IndexParts
<1>5. /\ TwinCols(c.levels, d.levels, q, n) /\ c.names = d.names /\ c.multi = d.multi /\ c.multi \in BOOLEAN
      /\ (c.levels = <<>>) <=> (d.levels = <<>>)
      /\ c.levels # <<>> => 1 \in 1..Len(c.levels)
      /\ DOMAIN c.levels = 1..Len(c.levels) /\ DOMAIN d.levels = 1..Len(c.levels) /\ Len(c.levels) \in Nat
  BY <1>3, IndexParts
<1>6. Classes(a.levels) = Classes(b.levels) /\ Classes(c.levels) = Classes(d.levels)
  BY <1>4, <1>5, ClassesSame
<1>7. CASE a.levels = <<>> \/ c.levels = <<>>
  <2>1. outer(a, c) = NoIndex /\ outer(b, d) = NoIndex BY <1>4, <1>5, <1>7
  <2>2. QED BY <1>1, <2>1, NoIndexTwin
<1>8. CASE ~(a.levels = <<>> \/ c.levels = <<>>)
  <2>1. TwinIndex(beside(a, c), beside(b, d), ok, Len(pairs))
    <3> DEFINE w == PaddedLevels(a, pairs, 1)  x == PaddedLevels(b, pairs, 1)
               y == PaddedLevels(c, pairs, 2)  z == PaddedLevels(d, pairs, 2)
               s == Named(a, "lhs")  t == Named(c, "rhs")
    <3>1. /\ TwinCols(w, x, ok, Len(pairs)) /\ Len(w) = Len(a.levels)
          /\ TwinCols(y, z, ok, Len(pairs)) /\ Len(y) = Len(c.levels) BY <1>3, PaddedTwin
    <3>2. /\ s = Named(b, "lhs") /\ IsList(s) /\ Len(s) = Len(a.levels)
          /\ t = Named(d, "rhs") /\ IsList(t) /\ Len(t) = Len(c.levels) BY <1>3, <1>8, NamedSame
    <3>3. beside(a, c) = MultiIndex(w \o y, s \o t) /\ beside(b, d) = MultiIndex(x \o z, s \o t)
      BY <3>2
    <3> HIDE DEF w, x, y, z, s, t, beside
    <3>4. TwinCols(w \o y, x \o z, ok, Len(pairs)) /\ Len(w \o y) = Len(w) + Len(y) BY <3>1, ColsConcat
    <3>5. IsList(s \o t) /\ Len(s \o t) = Len(s) + Len(t) BY <3>2, ConcatList
    <3>6. Len(s \o t) = Len(w \o y) BY <3>1, <3>2, <3>4, <3>5
    <3>7. QED BY <3>3, <3>4, <3>5, <3>6, MultiIndexTwin
  <2> HIDE DEF beside
  <2>2. CASE a.multi # c.multi
    <3>1. outer(a, c) = beside(a, c) /\ outer(b, d) = beside(b, d) BY <1>4, <1>5, <1>8, <2>2
    <3>2. QED BY <1>1, <2>1, <3>1
  <2>3. CASE a.multi = c.multi /\ a.multi
    <3>1. CASE Classes(a.levels) # Classes(c.levels)
      <4>1. outer(a, c) = NoIndex /\ outer(b, d) = NoIndex BY <1>4, <1>5, <1>6, <1>8, <2>3, <3>1
      <4>2. QED BY <1>1, <4>1, NoIndexTwin
    <3>2. CASE Classes(a.levels) = Classes(c.levels)
      <4> DEFINE x == merged(a, c)  y == merged(b, d)  s == names(a, c)
                 k == Len(a.levels)
      <4>1. outer(a, c) = MultiIndex(x, s) /\ outer(b, d) = MultiIndex(y, s)
        <5>1. outer(a, c) = MultiIndex(x, s) /\ outer(b, d) = MultiIndex(y, names(b, d))
          BY <1>4, <1>5, <1>6, <1>8, <2>3, <3>2
        <5>2. names(b, d) = s BY <1>4, <1>5
        <5>3. QED BY <5>1, <5>2
      <4>2. /\ DOMAIN c.levels = 1..k /\ Len(c.levels) = k
            /\ \A j \in 1..k : a.levels[j].cls = c.levels[j].cls
        <5>1. DOMAIN Classes(a.levels) = DOMAIN a.levels /\ DOMAIN Classes(c.levels) = DOMAIN c.levels
          BY DEF Classes
        <5>2. Len(c.levels) = k BY <1>4, <1>5, <3>2, <5>1, SameRange
        <5>3. \A j \in 1..k : Classes(a.levels)[j] = a.levels[j].cls /\ Classes(c.levels)[j] = c.levels[j].cls
          BY <1>4, <1>5, <5>2 DEF Classes
        <5>4. QED BY <1>5, <3>2, <5>2, <5>3
      <4>3. ASSUME NEW j \in 1..k PROVE TwinCol(x[j], y[j]) /\ Length(x[j]) = Len(pairs)
        <5> DEFINE e == EitherCells(a.levels[j], c.levels[j], pairs)
                   h == EitherCells(b.levels[j], d.levels[j], pairs)
        <5>1. TwinCol(a.levels[j], b.levels[j]) /\ TwinCol(c.levels[j], d.levels[j]) BY <1>4, <1>5, <4>2, ColsOf
        <5>2. a.levels[j].cls = b.levels[j].cls BY <5>1, TwinReads
        <5>3. TwinCells(e, h, a.levels[j].cls) /\ Len(e) = Len(pairs) BY <4>2, <5>1, EitherTwin
        <5>4. x[j] = LevelOf(a.levels[j].cls, e) /\ y[j] = LevelOf(a.levels[j].cls, h) BY <1>4, <5>2
        <5> HIDE DEF e, h, x, y
        <5>5. QED BY <5>3, <5>4, LevelTwin
      <4>4. x = [j \in 1..k |-> x[j]] /\ y = [j \in 1..k |-> y[j]] BY <1>4
      <4>5. s = [j \in DOMAIN a.names |-> s[j]] OBVIOUS
      <4> HIDE DEF x, y, s
      <4> DEFINE len == Len(pairs)
      <4>5a. /\ k \in Nat /\ x = [j \in 1..k |-> x[j]] /\ y = [j \in 1..k |-> y[j]]
             /\ \A j \in 1..k : TwinCol(x[j], y[j]) /\ (ok => Length(x[j]) = len) BY <1>4, <4>3, <4>4
      <4> HIDE DEF len
      <4>6. TwinCols(x, y, ok, len) /\ Len(x) = k BY <4>5a, ColsIntro
      <4>7. IsList(s) /\ Len(s) = k
        <5>1. IsList(s) /\ Len(s) = Len(a.names) BY <1>4, <4>5, MapLen
        <5>2. QED BY <1>4, <5>1
      <4>8. TwinIndex(MultiIndex(x, s), MultiIndex(y, s), ok, len) BY <4>6, <4>7, MultiIndexTwin
      <4>9. TwinIndex(MultiIndex(x, s), MultiIndex(y, s), ok, Len(pairs)) BY <4>8 DEF len
      <4>10. QED BY <1>1, <4>1, <4>9, Zenon
    <3>3. QED BY <3>1, <3>2
  <2>4. CASE a.multi = c.multi /\ ~a.multi
    <3>1. TwinCol(a.levels[1], b.levels[1]) /\ TwinCol(c.levels[1], d.levels[1]) BY <1>4, <1>5, <1>8, ColsOf
    <3>2. a.levels[1].cls = b.levels[1].cls /\ c.levels[1].cls = d.levels[1].cls BY <3>1, TwinReads
    <3>3. CASE a.levels[1].cls # c.levels[1].cls
      <4>1. outer(a, c) = beside(a, c) /\ outer(b, d) = beside(b, d) BY <1>4, <1>5, <1>8, <2>4, <3>2, <3>3
      <4>2. QED BY <1>1, <2>1, <4>1
    <3>4. CASE a.levels[1].cls = c.levels[1].cls
      <4> DEFINE x == OuterIndexColumn(a.levels[1], c.levels[1], pairs)
                 y == OuterIndexColumn(b.levels[1], d.levels[1], pairs)
                 s == a.names[1]
      <4>1. outer(a, c) = Index(x, s) /\ outer(b, d) = Index(y, s)
        BY <1>4, <1>5, <1>8, <2>4, <3>2, <3>4
      <4>2. TwinCol(x, y) /\ Length(x) = Len(pairs) BY <3>1, <3>4, OuterColumnTwin
      <4> HIDE DEF x, y, s
      <4>3. TwinIndex(Index(x, s), Index(y, s), ok, Len(pairs)) BY <4>2, OneIndexTwin
      <4>4. QED BY <1>1, <4>1, <4>3, Zenon
    <3>5. QED BY <3>3, <3>4
  <2>5. QED BY <1>4, <1>5, <2>2, <2>3, <2>4
<1>9. QED BY <1>7, <1>8

(* The rows of one side of a merge. *)
LEMMA SideList ==
  ASSUME NEW pairs, IsList(pairs), NEW s
  PROVE  IsList(Side(pairs, s)) /\ Len(Side(pairs, s)) = Len(pairs)
<1>1. Side(pairs, s) = [k \in DOMAIN pairs |-> Side(pairs, s)[k]] BY DEF Side
<1>2. QED BY <1>1, MapLen

(* The index of a merge, however it is made. *)
LEMMA MergeIndexTwin ==
  ASSUME NEW f, NEW g, NEW p, Twin(f, g, p), NEW u, NEW v, NEW q, Twin(u, v, q), NEW pairs, IsList(pairs),
         NEW how, NEW ok
  PROVE  TwinIndex(MergeIndex(f, u, how, pairs), MergeIndex(g, v, how, pairs), ok, Len(pairs))
<1>1. TwinIndex(f.ix, g.ix, p, f.nrows) /\ TwinIndex(u.ix, v.ix, q, u.nrows) BY TwinParts
<1>2. CASE how = "outer"
  <2>1. /\ MergeIndex(f, u, how, pairs) = OuterIndex(f, u, pairs)
        /\ MergeIndex(g, v, how, pairs) = OuterIndex(g, v, pairs) BY <1>2 DEF MergeIndex
  <2>2. QED BY <2>1, OuterIndexTwin
<1>3. CASE how = "right"
  <2>1. /\ MergeIndex(f, u, how, pairs) = TakeIndex(u.ix, Side(pairs, 2))
        /\ MergeIndex(g, v, how, pairs) = TakeIndex(v.ix, Side(pairs, 2)) BY <1>3 DEF MergeIndex
  <2>2. IsList(Side(pairs, 2)) /\ Len(Side(pairs, 2)) = Len(pairs) BY SideList
  <2>3. TwinIndex(TakeIndex(u.ix, Side(pairs, 2)), TakeIndex(v.ix, Side(pairs, 2)), ok, Len(Side(pairs, 2)))
    BY <1>1, <2>2, TakeIndexTwin
  <2>4. QED BY <2>1, <2>2, <2>3
<1>4. CASE how # "outer" /\ how # "right"
  <2>1. /\ MergeIndex(f, u, how, pairs) = TakeIndex(f.ix, Side(pairs, 1))
        /\ MergeIndex(g, v, how, pairs) = TakeIndex(g.ix, Side(pairs, 1)) BY <1>4 DEF MergeIndex
  <2>2. IsList(Side(pairs, 1)) /\ Len(Side(pairs, 1)) = Len(pairs) BY SideList
  <2>3. TwinIndex(TakeIndex(f.ix, Side(pairs, 1)), TakeIndex(g.ix, Side(pairs, 1)), ok, Len(Side(pairs, 1)))
    BY <1>1, <2>2, TakeIndexTwin
  <2>4. QED BY <2>1, <2>2, <2>3
<1>5. QED BY <1>2, <1>3, <1>4

(* merge of twins, of every kind, when the keys of both sides are of one *)
(* class.                                                                *)
LEMMA MergeTwin ==
  ASSUME NEW f, NEW g, NEW p, Twin(f, g, p), NEW u, NEW v, NEW q, Twin(u, v, q),
         NEW on, IsList(on), MergeOK(f, u, on), SameKeyClasses(f, u, on), NEW how, NEW ok
  PROVE  Twin(Merge(f, u, on, how), Merge(g, v, on, how), ok)
<1> DEFINE pairs == Emit(f, u, on, how)
           X == {k \in DOMAIN u.names : u.names[k] \notin ToSet(on)}
           extra == RowsIn(Len(u.names), X)
           rest == [k \in DOMAIN extra |-> u.names[extra[k]]]
           left(a, b, k) == IF a.names[k] \in ToSet(on)
                            THEN Pluck(a.cols[k].cls, EitherCells(a.cols[k], ColumnOf(b, a.names[k]), pairs))
                            ELSE PluckSide(a.cols[k], pairs, 1)
           w == [k \in DOMAIN f.cols |-> left(f, u, k)]
           x == [k \in DOMAIN g.cols |-> left(g, v, k)]
           y == [k \in DOMAIN extra |-> PluckSide(u.cols[extra[k]], pairs, 2)]
           z == [k \in DOMAIN extra |-> PluckSide(v.cols[extra[k]], pairs, 2)]
           names == f.names \o rest
           a == MergeIndex(f, u, how, pairs)  b == MergeIndex(g, v, how, pairs)
<1>1. Emit(g, v, on, how) = pairs /\ IsList(pairs) BY EmitSame
<1>2. /\ f.names = g.names /\ IsList(f.names) /\ Len(f.names) = Len(f.cols) /\ Len(f.cols) \in Nat
      /\ DOMAIN f.names = 1..Len(f.cols) /\ TwinCols(f.cols, g.cols, p, f.nrows)
      /\ DOMAIN f.cols = 1..Len(f.cols) /\ DOMAIN g.cols = 1..Len(f.cols) BY TwinParts
<1>3. /\ u.names = v.names /\ Len(u.names) = Len(u.cols) /\ Len(u.names) \in Nat
      /\ DOMAIN u.names = 1..Len(u.cols) BY TwinParts
<1>4. /\ Merge(f, u, on, how) = Frame(names, w \o y, Len(pairs), a)
      /\ Merge(g, v, on, how) = Frame(names, x \o z, Len(pairs), b)
  <2>1. Merge(f, u, on, how) = Frame(names, w \o y, Len(pairs), a) BY Zenon DEF Merge
  <2> DEFINE Y == {k \in DOMAIN v.names : v.names[k] \notin ToSet(on)}
             more == RowsIn(Len(v.names), Y)
             ps == Emit(g, v, on, how)
             lf(k) == IF g.names[k] \in ToSet(on)
                      THEN Pluck(g.cols[k].cls, EitherCells(g.cols[k], ColumnOf(v, g.names[k]), ps))
                      ELSE PluckSide(g.cols[k], ps, 1)
  <2>2. Merge(g, v, on, how) =
          Frame(g.names \o [k \in DOMAIN more |-> v.names[more[k]]],
                [k \in DOMAIN g.cols |-> lf(k)] \o [k \in DOMAIN more |-> PluckSide(v.cols[more[k]], ps, 2)],
                Len(ps), MergeIndex(g, v, how, ps))
    BY Zenon DEF Merge
  <2>3. more = extra BY <1>3
  <2>4. ps = pairs BY <1>1
  <2>5. g.names = f.names /\ v.names = u.names BY <1>2, <1>3
  <2> HIDE DEF more, extra, ps, pairs
  <2>6. QED BY <2>1, <2>2, <2>3, <2>4, <2>5
<1> HIDE DEF pairs
<1>5. /\ IsList(extra) /\ \A k \in 1..Len(extra) : extra[k] \in 1..Len(u.cols) BY <1>3, RowsInEntries
<1> HIDE DEF X, extra
<1>6. rest = [k \in DOMAIN extra |-> rest[k]] OBVIOUS
<1>7. TwinCols(y, z, ok, Len(pairs)) /\ Len(y) = Len(extra)
  <2>1. DOMAIN extra = 1..Len(extra) BY <1>5, ListElim
  <2>2. \A k \in 1..Len(extra) : /\ y[k] = PluckSide(u.cols[extra[k]], pairs, 2)
                                 /\ z[k] = PluckSide(v.cols[extra[k]], pairs, 2) BY <2>1
  <2>3. y = [k \in DOMAIN extra |-> y[k]] /\ z = [k \in DOMAIN extra |-> z[k]] OBVIOUS
  <2> HIDE DEF y, z
  <2>4. IsList(y) /\ Len(y) = Len(extra) /\ IsList(z) /\ Len(z) = Len(extra) BY <1>5, <2>3, MapLen
  <2> DEFINE cs == u.cols  ds == v.cols  h == u.nrows
  <2>5. /\ TwinCols(cs, ds, q, h) /\ \A k \in 1..Len(extra) : extra[k] \in 1..Len(cs)
        /\ \A k \in 1..Len(extra) : y[k] = PluckSide(cs[extra[k]], pairs, 2) /\ z[k] = PluckSide(ds[extra[k]], pairs, 2)
    BY <1>5, <2>2, TwinParts
  <2> HIDE DEF cs, ds, h
  <2> DEFINE m == Len(extra)
  <2>6. \A k \in 1..m : TwinCol(cs[extra[k]], ds[extra[k]]) BY <2>5, ColsOf
  <2>7. \A k \in 1..m : TwinCol(y[k], z[k]) /\ (ok => Length(y[k]) = Len(pairs)) BY <1>1, <2>5, <2>6, SideTwin
  <2>8. m \in Nat /\ y = [k \in 1..m |-> y[k]] /\ z = [k \in 1..m |-> z[k]] BY <2>4, ListElim
  <2> HIDE DEF m
  <2>9. TwinCols(y, z, ok, Len(pairs)) BY <2>7, <2>8, ColsIntro
  <2>10. QED BY <2>4, <2>9
<1> HIDE DEF rest, y, z
<1>8. IsList(rest) /\ Len(rest) = Len(extra) BY <1>5, <1>6, MapLen
<1>9. ASSUME NEW k \in 1..Len(f.cols) PROVE TwinCol(w[k], x[k]) /\ Length(w[k]) = Len(pairs)
  <2> DEFINE c == f.cols[k]  d == g.cols[k]  name == f.names[k]
  <2>1. TwinCol(c, d) BY <1>2, ColsOf
  <2>2. c.cls = d.cls BY <2>1, TwinReads
  <2>3. w[k] = left(f, u, k) /\ x[k] = left(g, v, k) BY <1>2
  <2>4. CASE name \notin ToSet(on)
    <3>1. w[k] = PluckSide(c, pairs, 1) /\ x[k] = PluckSide(d, pairs, 1) BY <1>2, <2>3, <2>4
    <3> HIDE DEF w, x, c, d
    <3>2. QED BY <1>1, <2>1, <3>1, SideTwin
  <2>5. CASE name \in ToSet(on)
    <3> DEFINE r == ColumnOf(u, name)  s == ColumnOf(v, name)
    <3>1. HasColumn(u, name)
      <4> DEFINE nm == name
      <4>1. nm \in ToSet(on) BY <2>5
      <4>2. PICK j \in DOMAIN on : on[j] = nm
        <5> HIDE DEF nm
        <5>1. QED BY <4>1 DEF ToSet
      <4>3. \A k0 \in DOMAIN on : HasColumn(u, on[k0]) BY DEF MergeOK
      <4>4. QED BY <4>2, <4>3
    <3>2. TwinCol(r, s) BY <3>1, ColumnOfTwin
    <3>3. c.cls = r.cls BY <1>2, <2>5 DEF SameKeyClasses
    <3>4. w[k] = Pluck(c.cls, EitherCells(c, r, pairs)) /\ x[k] = Pluck(c.cls, EitherCells(d, s, pairs))
      BY <1>2, <2>2, <2>3, <2>5
    <3> HIDE DEF w, x, c, d, r, s
    <3>5. /\ TwinCells(EitherCells(c, r, pairs), EitherCells(d, s, pairs), c.cls)
          /\ Len(EitherCells(c, r, pairs)) = Len(pairs) BY <1>1, <2>1, <3>2, <3>3, EitherTwin
    <3>6. QED BY <3>4, <3>5, PluckTwin
  <2>6. QED BY <2>4, <2>5
<1>10. w = [k \in 1..Len(f.cols) |-> w[k]] /\ x = [k \in 1..Len(f.cols) |-> x[k]] BY <1>2
<1> HIDE DEF w, x
<1>11. TwinCols(w, x, ok, Len(pairs)) /\ Len(w) = Len(f.cols) BY <1>2, <1>9, <1>10, ColsIntro
<1>12. TwinCols(w \o y, x \o z, ok, Len(pairs)) /\ Len(w \o y) = Len(w) + Len(y) BY <1>7, <1>11, ColsConcat
<1>13. IsList(names) /\ Len(names) = Len(f.names) + Len(rest) BY <1>2, <1>8, ConcatList
<1>14. TwinIndex(a, b, ok, Len(pairs)) BY <1>1, MergeIndexTwin
<1>15. Len(pairs) \in Nat BY <1>1, ListElim
<1> HIDE DEF names, a, b
<1>16. Len(names) = Len(w \o y) BY <1>2, <1>7, <1>8, <1>11, <1>12, <1>13
<1>17. Twin(Frame(names, w \o y, Len(pairs), a), Frame(names, x \o z, Len(pairs), b), ok)
  BY <1>12, <1>13, <1>14, <1>15, <1>16, FrameTwin
<1>18. QED BY <1>4, <1>17

------------------------------------------------------------------------------
(* The merges by the nearest time. *)

(* merge_asof takes the last time that is not later: the same row for *)
(* twins.                                                             *)
LEMMA AsofPairsSame ==
  ASSUME NEW a, NEW b, TwinCol(a, b), NEW c, NEW d, TwinCol(c, d),
         NEW n \in Nat, n <= Length(a)
  PROVE  AsofPairs(a, c, n) = AsofPairs(b, d, n) /\ IsList(AsofPairs(a, c, n)) /\ Len(AsofPairs(a, c, n)) = n
<1> DEFINE so == SortRows(c, TRUE)
           S(l, r, i) == {j \in ToSet(so) : ~r.nulls[j] /\ ~(ValueAt(l, i) < ValueAt(r, j))}
           U(l, r, i) == Among(so, S(l, r, i))
           P(l, r) == [i \in 1..n |-> <<i, IF l.nulls[i] \/ U(l, r, i) = <<>> THEN 0 ELSE Last(U(l, r, i))>>]
<1>1. Length(a) \in Nat /\ 1..n \subseteq 1..Length(a) /\ a.nulls = b.nulls /\ c.nulls = d.nulls BY TwinReads
<1>2. SortRows(d, TRUE) = so BY SortRowsSame
<1>3. AsofPairs(a, c, n) = P(a, c) /\ AsofPairs(b, d, n) = P(b, d) BY <1>1, <1>2, Zenon DEF AsofPairs
<1>4. ToSet(so) = 1..Length(c) BY ShapeOf, SortRowsFacts
<1>5. \A j \in ToSet(so) : ~c.nulls[j] => ValueAt(c, j) = ValueAt(d, j)
  <2>1. \A j \in 1..Length(c) : NullAt(c, j) <=> c.nulls[j] BY ShapeOf, NullsOf
  <2>2. QED BY <1>4, <2>1, TwinReads
<1> HIDE DEF so
<1>6. \A i \in 1..n : ~a.nulls[i] => ValueAt(a, i) = ValueAt(b, i)
  <2>1. \A i \in 1..Length(a) : NullAt(a, i) <=> a.nulls[i] BY ShapeOf, NullsOf
  <2>2. QED BY <1>1, <2>1, TwinReads
<1>7. \A i \in 1..n : ~a.nulls[i] => U(a, c, i) = U(b, d, i)
  <2>1. \A i \in 1..n : ~a.nulls[i] => S(a, c, i) = S(b, d, i) BY <1>1, <1>5, <1>6
  <2> HIDE DEF S
  <2>2. QED BY <2>1
<1> HIDE DEF U
<1>8. P(a, c) = P(b, d) BY <1>1, <1>7
<1>9. P(a, c) = [i \in 1..n |-> P(a, c)[i]] OBVIOUS
<1> HIDE DEF P
<1>10. IsList(P(a, c)) /\ Len(P(a, c)) = n BY <1>9, ListIntro
<1>11. QED BY <1>3, <1>8, <1>10

(* merge_asof on columns, of twins. *)
LEMMA AsofMergeTwin ==
  ASSUME NEW f, NEW g, NEW u, NEW v, NEW ok, Twin(f, g, ok), NEW q, Twin(u, v, q),
         NEW on, NEW onOther, AsofMergeOK(f, u, on, onOther)
  PROVE  Twin(AsofMerge(f, u, on, onOther), AsofMerge(g, v, on, onOther), ok)
<1> DEFINE pairs == AsofPairs(ColumnOf(f, on), ColumnOf(u, onOther), f.nrows)
           extra == RowsIn(Len(u.names), DOMAIN u.names \ {Position(u.names, onOther)})
           rest == [k \in DOMAIN extra |-> u.names[extra[k]]]
           y == [k \in DOMAIN extra |-> PluckSide(u.cols[extra[k]], pairs, 2)]
           z == [k \in DOMAIN extra |-> PluckSide(v.cols[extra[k]], pairs, 2)]
           ix(h) == IF IsMulti(h) THEN TakeIndex(h.ix, Rows(f.nrows)) ELSE NoIndex
<1>1. HasColumn(f, on) /\ HasColumn(u, onOther) BY DEF AsofMergeOK
<1>2. /\ TwinCol(ColumnOf(f, on), ColumnOf(g, on)) /\ TwinCol(ColumnOf(u, onOther), ColumnOf(v, onOther))
      /\ ok => Length(ColumnOf(f, on)) = f.nrows BY <1>1, ColumnOfTwin
<1>4. /\ f.names = g.names /\ IsList(f.names) /\ Len(f.names) = Len(f.cols) /\ Len(f.cols) \in Nat
      /\ TwinCols(f.cols, g.cols, ok, f.nrows) /\ g.nrows = f.nrows /\ f.nrows \in Nat
      /\ TwinIndex(f.ix, g.ix, ok, f.nrows) BY TwinParts
<1>3. /\ pairs = AsofPairs(ColumnOf(g, on), ColumnOf(v, onOther), f.nrows) /\ IsList(pairs)
      /\ Len(pairs) = f.nrows
  <2>1. f.nrows <= Length(ColumnOf(f, on)) BY DEF AsofMergeOK
  <2>2. QED BY <1>2, <1>4, <2>1, AsofPairsSame
<1>5. /\ u.names = v.names /\ Len(u.names) = Len(u.cols) /\ Len(u.names) \in Nat
      /\ DOMAIN u.names = 1..Len(u.cols) BY TwinParts
<1>6. /\ AsofMerge(f, u, on, onOther) = Frame(f.names \o rest, f.cols \o y, f.nrows, ix(f))
      /\ AsofMerge(g, v, on, onOther) = Frame(f.names \o rest, g.cols \o z, f.nrows, ix(g))
  <2>1. AsofMerge(f, u, on, onOther) = Frame(f.names \o rest, f.cols \o y, f.nrows, ix(f)) BY Zenon DEF AsofMerge
  <2>2. AsofMerge(g, v, on, onOther) = Frame(f.names \o rest, g.cols \o z, f.nrows, ix(g))
    <3> DEFINE more == RowsIn(Len(v.names), DOMAIN v.names \ {Position(v.names, onOther)})
               ps == AsofPairs(ColumnOf(g, on), ColumnOf(v, onOther), g.nrows)
    <3>1. AsofMerge(g, v, on, onOther) =
            Frame(g.names \o [k \in DOMAIN more |-> v.names[more[k]]],
                  g.cols \o [k \in DOMAIN more |-> PluckSide(v.cols[more[k]], ps, 2)], g.nrows,
                  IF IsMulti(g) THEN TakeIndex(g.ix, Rows(g.nrows)) ELSE NoIndex) BY Zenon DEF AsofMerge
    <3>2. more = extra BY <1>5
    <3>3. ps = pairs BY <1>3, <1>4
    <3> HIDE DEF more, extra, ps, pairs
    <3>4. QED BY <1>4, <1>5, <3>1, <3>2, <3>3
  <2>3. QED BY <2>1, <2>2
<1>7. /\ IsList(extra) /\ \A k \in 1..Len(extra) : extra[k] \in 1..Len(u.cols) BY <1>5, RowsInEntries
<1> HIDE DEF pairs, extra
<1>8. rest = [k \in DOMAIN extra |-> rest[k]] OBVIOUS
<1>9. TwinCols(y, z, ok, f.nrows) /\ Len(y) = Len(extra)
  <2> DEFINE m == f.nrows
  <2>1. DOMAIN extra = 1..Len(extra) BY <1>7, ListElim
  <2>2. \A k \in 1..Len(extra) : /\ y[k] = PluckSide(u.cols[extra[k]], pairs, 2)
                                 /\ z[k] = PluckSide(v.cols[extra[k]], pairs, 2) BY <2>1
  <2>3. y = [k \in DOMAIN extra |-> y[k]] /\ z = [k \in DOMAIN extra |-> z[k]] OBVIOUS
  <2>4. Len(pairs) = m /\ IsList(pairs) BY <1>3
  <2> DEFINE cs == u.cols  ds == v.cols  h == u.nrows
  <2> HIDE DEF y, z, m
  <2>5. IsList(y) /\ Len(y) = Len(extra) /\ IsList(z) /\ Len(z) = Len(extra) BY <1>7, <2>3, MapLen
  <2>8. /\ TwinCols(cs, ds, q, h) /\ \A k \in 1..Len(extra) : extra[k] \in 1..Len(cs)
        /\ \A k \in 1..Len(extra) : y[k] = PluckSide(cs[extra[k]], pairs, 2) /\ z[k] = PluckSide(ds[extra[k]], pairs, 2)
    BY <1>7, <2>2, TwinParts
  <2> HIDE DEF cs, ds, h
  <2> DEFINE l == Len(extra)
  <2>9. \A k \in 1..l : TwinCol(cs[extra[k]], ds[extra[k]]) BY <2>8, ColsOf
  <2>10. ASSUME NEW k \in 1..l PROVE TwinCol(y[k], z[k]) /\ (ok => Length(y[k]) = m)
    <3> DEFINE c == cs[extra[k]]  d == ds[extra[k]]
    <3>1. y[k] = PluckSide(c, pairs, 2) /\ z[k] = PluckSide(d, pairs, 2) BY <2>8 DEF l
    <3>2. TwinCol(c, d) BY <2>9
    <3> HIDE DEF c, d
    <3>3. TwinCol(y[k], z[k]) /\ Length(y[k]) = Len(pairs) BY <2>4, <3>1, <3>2, SideTwin
    <3>4. QED BY <2>4, <3>3
  <2>11. l \in Nat /\ y = [k \in 1..l |-> y[k]] /\ z = [k \in 1..l |-> z[k]] BY <2>5, ListElim
  <2> HIDE DEF l
  <2>6. TwinCols(y, z, ok, m) BY <2>10, <2>11, ColsIntro
  <2>7. QED BY <2>5, <2>6 DEF m
<1> HIDE DEF rest, y, z
<1>10. IsList(rest) /\ Len(rest) = Len(extra) BY <1>7, <1>8, MapLen
<1>11. TwinCols(f.cols \o y, g.cols \o z, ok, f.nrows) /\ Len(f.cols \o y) = Len(f.cols) + Len(y)
  <2> DEFINE s == f.cols  t == g.cols  m == f.nrows
  <2>1. TwinCols(s, t, ok, m) /\ TwinCols(y, z, ok, m) BY <1>4, <1>9
  <2> HIDE DEF s, t, m
  <2>2. TwinCols(s \o y, t \o z, ok, m) /\ Len(s \o y) = Len(s) + Len(y) BY <2>1, ColsConcat
  <2>3. QED BY <2>2 DEF s, t, m
<1>12. IsList(f.names \o rest) /\ Len(f.names \o rest) = Len(f.names) + Len(rest)
  <2> DEFINE s == f.names
  <2>1. IsList(s) BY <1>4
  <2> HIDE DEF s
  <2>2. IsList(s \o rest) /\ Len(s \o rest) = Len(s) + Len(rest) BY <1>10, <2>1, ConcatList
  <2>3. QED BY <2>2 DEF s
<1>13. TwinIndex(ix(f), ix(g), ok, f.nrows)
  <2>1. f.ix.multi = g.ix.multi BY <1>4, IndexParts
  <2>2. CASE IsMulti(f)
    <3>1. ix(f) = TakeIndex(f.ix, Rows(f.nrows)) /\ ix(g) = TakeIndex(g.ix, Rows(f.nrows))
      BY <2>1, <2>2 DEF IsMulti
    <3>2. IsList(Rows(f.nrows)) /\ Len(Rows(f.nrows)) = f.nrows BY <1>4, RowsList
    <3>3. TwinIndex(TakeIndex(f.ix, Rows(f.nrows)), TakeIndex(g.ix, Rows(f.nrows)), ok, Len(Rows(f.nrows)))
      BY <1>4, <3>2, TakeIndexTwin
    <3>4. QED BY <3>1, <3>2, <3>3
  <2>3. CASE ~IsMulti(f)
    <3>1. ix(f) = NoIndex /\ ix(g) = NoIndex BY <2>1, <2>3 DEF IsMulti
    <3>2. QED BY <3>1, NoIndexTwin
  <2>4. QED BY <2>2, <2>3
<1> HIDE DEF ix
<1>14. Len(f.names \o rest) = Len(f.cols \o y) BY <1>4, <1>9, <1>10, <1>11, <1>12
<1>15. Twin(Frame(f.names \o rest, f.cols \o y, f.nrows, ix(f)), Frame(f.names \o rest, g.cols \o z, f.nrows, ix(g)), ok)
  BY <1>4, <1>11, <1>12, <1>13, <1>14, FrameTwin
<1>16. QED BY <1>6, <1>15

(* merge_asof on the index, of twins. *)
LEMMA AsofMergeIndexTwin ==
  ASSUME NEW f, NEW g, NEW u, NEW v, NEW ok, Twin(f, g, ok), NEW q, Twin(u, v, q), AsofMergeIndexOK(f, u)
  PROVE  Twin(AsofMergeIndex(f, u), AsofMergeIndex(g, v), ok)
<1> DEFINE a == f.ix.levels[1]  b == g.ix.levels[1]  c == u.ix.levels[1]  d == v.ix.levels[1]
           pairs == AsofPairs(a, c, f.nrows)
           ks == Rows(Len(u.cols))
           y == [k \in DOMAIN u.cols |-> PluckSide(u.cols[k], pairs, 2)]
           z == [k \in DOMAIN v.cols |-> PluckSide(v.cols[k], pairs, 2)]
<1>1. f.ix.levels # <<>> /\ u.ix.levels # <<>> BY DEF AsofMergeIndexOK, IsSingle
<1>2. TwinIndex(f.ix, g.ix, ok, f.nrows) /\ TwinIndex(u.ix, v.ix, q, u.nrows) BY TwinParts
<1>3. /\ TwinCols(f.ix.levels, g.ix.levels, ok, f.nrows) /\ 1 \in 1..Len(f.ix.levels) BY <1>1, <1>2, IndexParts
<1>4. /\ TwinCols(u.ix.levels, v.ix.levels, q, u.nrows) /\ 1 \in 1..Len(u.ix.levels) BY <1>1, <1>2, IndexParts
<1>5. TwinCol(a, b) /\ TwinCol(c, d) /\ (ok => Length(a) = f.nrows) BY <1>3, <1>4, ColsOf
<1>6. /\ f.names = g.names /\ IsList(f.names) /\ Len(f.names) = Len(f.cols) /\ Len(f.cols) \in Nat
      /\ TwinCols(f.cols, g.cols, ok, f.nrows) /\ g.nrows = f.nrows /\ f.nrows \in Nat BY TwinParts
<1>7. /\ u.names = v.names /\ IsList(u.names) /\ Len(u.names) = Len(u.cols) /\ Len(u.cols) \in Nat
      /\ DOMAIN u.cols = 1..Len(u.cols) /\ DOMAIN v.cols = 1..Len(u.cols) BY TwinParts
<1>11. f.nrows <= Length(a) BY DEF AsofMergeIndexOK
<1> HIDE DEF a, b, c, d
<1>8. /\ pairs = AsofPairs(b, d, f.nrows) /\ IsList(pairs) /\ Len(pairs) = f.nrows
  BY <1>5, <1>6, <1>11, AsofPairsSame
<1> HIDE DEF pairs
<1>9. /\ AsofMergeIndex(f, u) = Frame(f.names \o u.names, f.cols \o y, f.nrows, CloneIndex(f.ix))
      /\ AsofMergeIndex(g, v) = Frame(f.names \o u.names, g.cols \o z, f.nrows, CloneIndex(g.ix))
  BY <1>6, <1>7, <1>8 DEF AsofMergeIndex, a, b, c, d, pairs
<1>10. IsList(ks) /\ Len(ks) = Len(u.cols) /\ DOMAIN ks = 1..Len(u.cols) /\ \A k \in 1..Len(u.cols) : ks[k] = k
  BY <1>7, RowsList DEF Rows
<1> HIDE DEF ks
<1>12. TwinCols(y, z, ok, f.nrows) /\ Len(y) = Len(u.cols)
  <2>1. \A k \in 1..Len(ks) : ks[k] \in 1..Len(u.cols) BY <1>10
  <2> DEFINE m == f.nrows
  <2>2. Len(pairs) = m /\ IsList(pairs) /\ IsList(ks) BY <1>8, <1>10
  <2>3. \A k \in 1..Len(ks) : /\ y[k] = PluckSide(u.cols[ks[k]], pairs, 2)
                              /\ z[k] = PluckSide(v.cols[ks[k]], pairs, 2) BY <1>7, <1>10
  <2>4. y = [k \in DOMAIN ks |-> y[k]] /\ z = [k \in DOMAIN ks |-> z[k]] BY <1>7, <1>10
  <2> DEFINE cs == u.cols  ds == v.cols  h == u.nrows
  <2> HIDE DEF y, z, m
  <2>5. IsList(y) /\ Len(y) = Len(ks) /\ IsList(z) /\ Len(z) = Len(ks) BY <2>2, <2>4, MapLen
  <2>8. /\ TwinCols(cs, ds, q, h) /\ \A k \in 1..Len(ks) : ks[k] \in 1..Len(cs)
        /\ \A k \in 1..Len(ks) : y[k] = PluckSide(cs[ks[k]], pairs, 2) /\ z[k] = PluckSide(ds[ks[k]], pairs, 2)
    BY <2>1, <2>3, TwinParts
  <2> HIDE DEF cs, ds, h
  <2> DEFINE l == Len(ks)
  <2>9. \A k \in 1..l : TwinCol(cs[ks[k]], ds[ks[k]]) BY <2>8, ColsOf
  <2>10. \A k \in 1..l : TwinCol(y[k], z[k]) /\ (ok => Length(y[k]) = m) BY <2>2, <2>8, <2>9, SideTwin
  <2>11. l \in Nat /\ y = [k \in 1..l |-> y[k]] /\ z = [k \in 1..l |-> z[k]] BY <2>5, ListElim
  <2> HIDE DEF l
  <2>6. TwinCols(y, z, ok, m) BY <2>10, <2>11, ColsIntro
  <2>7. QED BY <1>10, <2>5, <2>6 DEF m
<1> HIDE DEF y, z
<1>13. TwinCols(f.cols \o y, g.cols \o z, ok, f.nrows) /\ Len(f.cols \o y) = Len(f.cols) + Len(y)
  BY <1>6, <1>12, ColsConcat
<1>14. IsList(f.names \o u.names) /\ Len(f.names \o u.names) = Len(f.names) + Len(u.names)
  <2> DEFINE s == f.names  t == u.names
  <2>1. IsList(s) /\ IsList(t) BY <1>6, <1>7
  <2> HIDE DEF s, t
  <2>2. IsList(s \o t) /\ Len(s \o t) = Len(s) + Len(t) BY <2>1, ConcatList
  <2>3. QED BY <2>2 DEF s, t
<1>15. TwinIndex(CloneIndex(f.ix), CloneIndex(g.ix), ok, f.nrows) BY <1>2, CloneIndexTwin
<1>16. Len(f.names \o u.names) = Len(f.cols \o y) BY <1>6, <1>7, <1>12, <1>13, <1>14
<1>17. Twin(Frame(f.names \o u.names, f.cols \o y, f.nrows, CloneIndex(f.ix)),
            Frame(f.names \o u.names, g.cols \o z, f.nrows, CloneIndex(g.ix)), ok)
  BY <1>6, <1>13, <1>14, <1>15, <1>16, FrameTwin
<1>18. QED BY <1>9, <1>17

------------------------------------------------------------------------------
(* Pivots. *)

(* pivot of twins. *)
LEMMA PivotTwin ==
  ASSUME NEW f, NEW g, NEW p, Twin(f, g, p), NEW index, NEW columns, NEW values,
         HasColumn(f, index), HasColumn(f, columns), HasColumn(f, values), NEW ok
  PROVE  Twin(Pivot(f, index, columns, values), Pivot(g, index, columns, values), ok)
<1> DEFINE row(h) == [i \in 1..h.nrows |-> CellToStr(ColumnOf(h, index), i)]
           col(h) == [i \in 1..h.nrows |-> CellToStr(ColumnOf(h, columns), i)]
           val(h) == ColumnOf(h, values)
           rs(h) == Firsts(Rows(h.nrows), row(h))
           cs(h) == Firsts(Rows(h.nrows), col(h))
           at(h, r, c) == FirstOf({i \in 1..h.nrows : row(h)[i] = row(h)[r] /\ col(h)[i] = col(h)[c]})
           names(h) == [c \in DOMAIN cs(h) |-> col(h)[cs(h)[c]]]
           cols(h) == [c \in DOMAIN cs(h) |->
                         Pluck(val(h).cls, [r \in DOMAIN rs(h) |-> PluckRow(val(h), at(h, rs(h)[r], cs(h)[c]))])]
           keys(h) == Take(ColumnOf(h, index), rs(h))
<1>1. \A h : Pivot(h, index, columns, values) = Frame(names(h), cols(h), Len(rs(h)), Index(keys(h), index))
  BY Zenon DEF Pivot
<1>2. g.nrows = f.nrows /\ f.nrows \in Nat BY TwinParts
<1>3. /\ TwinCol(ColumnOf(f, index), ColumnOf(g, index)) /\ TwinCol(ColumnOf(f, columns), ColumnOf(g, columns))
      /\ TwinCol(val(f), val(g)) BY ColumnOfTwin
<1> HIDE DEF val
<1>4. row(f) = row(g) /\ col(f) = col(g)
  <2>1. \A i : /\ CellToStr(ColumnOf(f, index), i) = CellToStr(ColumnOf(g, index), i)
               /\ CellToStr(ColumnOf(f, columns), i) = CellToStr(ColumnOf(g, columns), i) BY <1>3, TextsSame
  <2>2. QED BY <1>2, <2>1
<1> HIDE DEF row, col
<1>5. rs(f) = rs(g) /\ cs(f) = cs(g) BY <1>2, <1>4
<1>6. \A r, c : at(f, r, c) = at(g, r, c) BY <1>2, <1>4
<1>7. /\ IsList(rs(f)) /\ Len(rs(f)) \in Nat
      /\ IsList(cs(f)) /\ DOMAIN cs(f) = 1..Len(cs(f)) /\ Len(cs(f)) \in Nat
  <2>1. IsList(Rows(f.nrows)) BY <1>2, RowsList
  <2>2. QED BY <2>1, FirstsFacts
<1> HIDE DEF rs, cs, at
<1>8. names(f) = names(g) /\ names(f) = [c \in DOMAIN cs(f) |-> names(f)[c]] BY <1>4, <1>5
<1>9. TwinCol(keys(f), keys(g)) /\ Length(keys(f)) = Len(rs(f)) BY <1>3, <1>5, <1>7, TwinTake
<1>10. ASSUME NEW c \in 1..Len(cs(f))
       PROVE  TwinCol(cols(f)[c], cols(g)[c]) /\ Length(cols(f)[c]) = Len(rs(f))
  <2> DEFINE h == [r \in DOMAIN rs(f) |-> at(f, rs(f)[r], cs(f)[c])]
             x == [r \in DOMAIN rs(f) |-> PluckRow(val(f), h[r])]
             y == [r \in DOMAIN rs(f) |-> PluckRow(val(g), h[r])]
  <2>1. val(f).cls = val(g).cls BY <1>3, TwinReads
  <2>2. cols(f)[c] = Pluck(val(f).cls, x) /\ cols(g)[c] = Pluck(val(f).cls, y)
    <3>1. x = [r \in DOMAIN rs(f) |-> PluckRow(val(f), at(f, rs(f)[r], cs(f)[c]))] OBVIOUS
    <3>2. y = [r \in DOMAIN rs(g) |-> PluckRow(val(g), at(g, rs(g)[r], cs(g)[c]))] BY <1>5, <1>6
    <3>3. c \in DOMAIN cs(f) /\ c \in DOMAIN cs(g) BY <1>5, <1>7
    <3> HIDE DEF x, y
    <3>4. QED BY <2>1, <3>1, <3>2, <3>3
  <2> HIDE DEF h, cols
  <2>3. TwinCells(x, y, val(f).cls) /\ Len(x) = Len(rs(f)) BY <1>3, <1>7, RowCellsTwin
  <2> HIDE DEF x, y
  <2>4. QED BY <2>2, <2>3, PluckTwin
<1>11. /\ cols(f) = [c \in 1..Len(cs(f)) |-> cols(f)[c]]
       /\ cols(g) = [c \in 1..Len(cs(f)) |-> cols(g)[c]] BY <1>5, <1>7
<1> HIDE DEF names, cols, keys
<1>12. TwinCols(cols(f), cols(g), ok, Len(rs(f))) /\ Len(cols(f)) = Len(cs(f)) BY <1>7, <1>10, <1>11, ColsIntro
<1>13. IsList(names(f)) /\ Len(names(f)) = Len(cs(f)) BY <1>7, <1>8, MapLen
<1>14. TwinIndex(Index(keys(f), index), Index(keys(g), index), ok, Len(rs(f))) BY <1>9, OneIndexTwin
<1>15. Twin(Frame(names(f), cols(f), Len(rs(f)), Index(keys(f), index)),
            Frame(names(f), cols(g), Len(rs(f)), Index(keys(g), index)), ok)
  BY <1>7, <1>12, <1>13, <1>14, FrameTwin
<1>16. QED BY <1>1, <1>5, <1>8, <1>15

(* The labels of a pivot table are the rows where a value is met first, the *)
(* same for twins; none of them is null.                                    *)
LEMMA LabelsSame ==
  ASSUME NEW f, NEW g, NEW p, Twin(f, g, p), NEW name, NEW other, HasColumn(f, name), HasColumn(f, other)
  PROVE  /\ PivotLabels(f, name, other) = PivotLabels(g, name, other)
         /\ IsList(PivotLabels(f, name, other))
         /\ \A k \in 1..Len(PivotLabels(f, name, other)) : ~NullAt(ColumnOf(f, name), PivotLabels(f, name, other)[k])
<1> DEFINE L(h) == {i \in 1..h.nrows : ~NullAt(ColumnOf(h, name), i) /\ ~NullAt(ColumnOf(h, other), i)}
           T(h) == [i \in L(h) |-> CellText(ColumnOf(h, name), i)]
           R(h) == RowsIn(h.nrows, L(h))
<1>1. \A h : PivotLabels(h, name, other) = Firsts(R(h), T(h)) BY Zenon DEF PivotLabels
<1>2. g.nrows = f.nrows /\ f.nrows \in Nat BY TwinParts
<1>3. TwinCol(ColumnOf(f, name), ColumnOf(g, name)) /\ TwinCol(ColumnOf(f, other), ColumnOf(g, other))
  BY ColumnOfTwin
<1>4. L(f) = L(g)
  <2>1. \A i : /\ NullAt(ColumnOf(f, name), i) = NullAt(ColumnOf(g, name), i)
               /\ NullAt(ColumnOf(f, other), i) = NullAt(ColumnOf(g, other), i) BY <1>3, TwinReads
  <2>2. QED BY <1>2, <2>1
<1>5. T(f) = T(g)
  <2>1. \A i : ~NullAt(ColumnOf(f, name), i) => CellText(ColumnOf(f, name), i) = CellText(ColumnOf(g, name), i)
    BY <1>3, TextsSame
  <2>2. QED BY <1>4, <2>1
<1>6. \A i \in L(f) : ~NullAt(ColumnOf(f, name), i) OBVIOUS
<1> HIDE DEF T, L
<1>7. IsList(R(f)) /\ ToSet(R(f)) \subseteq L(f) BY <1>2, RowsInFacts
<1>8. R(f) = R(g) BY <1>2, <1>4
<1> HIDE DEF R
<1> DEFINE F == Firsts(R(f), T(f))
<1>9. IsList(F) /\ \A k \in 1..Len(F) : F[k] \in ToSet(R(f)) BY <1>7, FirstsFacts
<1>10. PivotLabels(f, name, other) = F /\ PivotLabels(g, name, other) = F BY <1>1, <1>5, <1>8
<1> HIDE DEF F
<1>11. QED BY <1>6, <1>7, <1>9, <1>10

(* The rows of one cell of a pivot table are the same for twins. *)
LEMMA BucketSame ==
  ASSUME NEW a, NEW b, TwinCol(a, b), NEW c, NEW d, TwinCol(c, d), NEW i, NEW j, ~NullAt(a, i), ~NullAt(c, j)
  PROVE  PivotBucket(a, c, i, j) = PivotBucket(b, d, i, j) /\ IsList(PivotBucket(a, c, i, j))
<1> DEFINE S(x, y) == {k \in 1..Length(a) : /\ ~NullAt(x, k) /\ CellText(x, k) = CellText(x, i)
                                            /\ ~NullAt(y, k) /\ CellText(y, k) = CellText(y, j)}
<1>1. Length(a) = Length(b) /\ Length(a) \in Nat BY TwinReads
<1>2. \A k : NullAt(a, k) = NullAt(b, k) /\ NullAt(c, k) = NullAt(d, k) BY TwinReads
<1>3. \A k : ~NullAt(a, k) => CellText(a, k) = CellText(b, k) BY TextsSame
<1>4. \A k : ~NullAt(c, k) => CellText(c, k) = CellText(d, k) BY TextsSame
<1>5. S(a, c) = S(b, d) BY <1>2, <1>3, <1>4
<1>6. PivotBucket(a, c, i, j) = RowsIn(Length(a), S(a, c)) /\ PivotBucket(b, d, i, j) = RowsIn(Length(a), S(b, d))
  BY <1>1 DEF PivotBucket
<1> HIDE DEF S
<1>7. IsList(RowsIn(Length(a), S(a, c))) BY <1>1, RowsInFacts
<1>8. QED BY <1>5, <1>6, <1>7

(* A list with one more member. *)
LEMMA AppendList ==
  ASSUME NEW s, IsList(s), NEW x
  PROVE  /\ IsList(Append(s, x)) /\ Len(Append(s, x)) = Len(s) + 1
         /\ \A i \in 1..Len(s) : Append(s, x)[i] = s[i]
         /\ Append(s, x)[Len(s) + 1] = x
<1> DEFINE S == ToSet(s) \union {x}
           t == Append(s, x)
<1>1. s \in Seq(S)
  <2>1. s \in Seq(ToSet(s)) BY DEF IsList
  <2>2. QED BY <2>1
<1>2. x \in S OBVIOUS
<1> HIDE DEF S
<1>3. /\ t \in Seq(S) /\ Len(t) = Len(s) + 1
      /\ \A i \in 1..Len(s) : t[i] = s[i]
      /\ t[Len(s) + 1] = x BY <1>1, <1>2
<1> HIDE DEF t
<1>4. t = [i \in 1..Len(t) |-> t[i]] /\ Len(t) \in Nat BY <1>3
<1>5. IsList(t) BY <1>4, ListIntro
<1>6. QED BY <1>3, <1>5 DEF t

(* A frame whose columns and levels are all of one length. *)
LEMMA FrameMade ==
  ASSUME NEW names, IsList(names), NEW cs, IsList(cs), Len(names) = Len(cs), NEW n \in Nat,
         \A k \in 1..Len(cs) : ColumnShape(cs[k]) /\ Length(cs[k]) = n,
         NEW c, ColumnShape(c), Length(c) = n, NEW name, NEW ok
  PROVE  Twin(Frame(names, cs, n, Index(c, name)), Frame(names, cs, n, Index(c, name)), ok)
<1> DEFINE m == Len(cs)
<1>1. m \in Nat /\ cs = [k \in 1..m |-> cs[k]] BY ListElim
<1>2. \A k \in 1..m : ColumnShape(cs[k]) /\ (ok => Length(cs[k]) = n) OBVIOUS
<1> HIDE DEF m
<1>3. TwinCols(cs, cs, ok, n) BY <1>1, <1>2, SelfCols
<1>4. TwinIndex(Index(c, name), Index(c, name), ok, n) BY SelfTwin, OneIndexTwin
<1>5. QED BY <1>3, <1>4, FrameTwin

(* The table is the same for both, and all of its columns are of one        *)
(* length, that of the labels of its rows, whatever the aggregate.          *)
LEMMA PivotTableFacts ==
  ASSUME NEW f, NEW g, NEW p, Twin(f, g, p), NEW index, NEW columns, NEW values,
         HasColumn(f, index), HasColumn(f, columns), HasColumn(f, values),
         NEW agg, OfTimes(ColumnOf(f, values).cls, agg)
  PROVE  LET t == PivotTable(f, index, columns, values, agg)
             n == Len(PivotLabels(f, index, columns))
         IN  /\ PivotTable(g, index, columns, values, agg) = t
             /\ IsList(t.names) /\ IsList(t.cols) /\ Len(t.names) = Len(t.cols)
             /\ n \in Nat /\ t.nrows = n
             /\ \A k \in 1..Len(t.cols) : /\ ColumnShape(t.cols[k]) /\ Length(t.cols[k]) = n
                                          /\ t.cols[k].cls = AggClass(ColumnOf(f, values).cls, agg)
             /\ \E c : t.ix = Index(c, index) /\ ColumnShape(c) /\ Length(c) = n
<1> DEFINE ic(h) == ColumnOf(h, index)
           cc(h) == ColumnOf(h, columns)
           v(h) == ColumnOf(h, values)
           rs(h) == PivotLabels(h, index, columns)
           cs(h) == PivotLabels(h, columns, index)
           names(h) == [c \in DOMAIN cs(h) |-> CellText(cc(h), cs(h)[c])]
           cell(h, r, c) == PivotCell(v(h), PivotBucket(ic(h), cc(h), r, c), agg)
           cells(h, c) == [r \in DOMAIN rs(h) |-> cell(h, rs(h)[r], cs(h)[c])]
           cols(h) == [c \in DOMAIN cs(h) |-> Filled(AggClass(v(h).cls, agg), cells(h, c))]
           labels(h) == [r \in DOMAIN rs(h) |-> Get(ic(h), rs(h)[r])]
           keys(h) == Whole(LabelClass(ic(h)), labels(h))
<1>1. \A h : PivotTable(h, index, columns, values, agg)
               = Frame(names(h), cols(h), Len(rs(h)), Index(keys(h), index)) BY Zenon DEF PivotTable
<1>2. TwinCol(ic(f), ic(g)) /\ TwinCol(cc(f), cc(g)) /\ TwinCol(v(f), v(g)) BY ColumnOfTwin
<1>3. /\ rs(f) = rs(g) /\ IsList(rs(f)) /\ \A k \in 1..Len(rs(f)) : ~NullAt(ic(f), rs(f)[k])
      /\ cs(f) = cs(g) /\ IsList(cs(f)) /\ \A k \in 1..Len(cs(f)) : ~NullAt(cc(f), cs(f)[k]) BY LabelsSame
<1>4. OfTimes(v(f).cls, agg) OBVIOUS
<1> HIDE DEF ic, cc, v, rs, cs
<1> DEFINE m == Len(cs(f))  n == Len(rs(f))
<1>5. DOMAIN rs(f) = 1..n /\ n \in Nat /\ DOMAIN cs(f) = 1..m /\ m \in Nat BY <1>3, ListElim
<1>6. ic(f).cls = ic(g).cls /\ v(f).cls = v(g).cls BY <1>2, TwinReads
<1>7. names(f) = names(g) /\ names(f) = [c \in DOMAIN cs(f) |-> names(f)[c]]
  <2>1. \A c \in 1..m : CellText(cc(f), cs(f)[c]) = CellText(cc(g), cs(f)[c]) BY <1>2, <1>3, TextsSame
  <2>2. QED BY <1>3, <1>5, <2>1
<1>8. ASSUME NEW r \in 1..n, NEW c \in 1..m
      PROVE  /\ cell(f, rs(f)[r], cs(f)[c]) = cell(g, rs(f)[r], cs(f)[c])
             /\ AggClass(v(f).cls, agg) = "DateTime" =>
                  cell(f, rs(f)[r], cs(f)[c]) = None \/ cell(f, rs(f)[r], cs(f)[c]) \in Int
  <2> DEFINE b == PivotBucket(ic(f), cc(f), rs(f)[r], cs(f)[c])
  <2>1. b = PivotBucket(ic(g), cc(g), rs(f)[r], cs(f)[c]) /\ IsList(b) BY <1>2, <1>3, BucketSame
  <2>2. cell(f, rs(f)[r], cs(f)[c]) = PivotCell(v(f), b, agg) /\ cell(g, rs(f)[r], cs(f)[c]) = PivotCell(v(g), b, agg)
    BY <2>1
  <2> HIDE DEF b, cell
  <2>3. AggregateSubset(v(f), b, agg) = AggregateSubset(v(g), b, agg) BY <1>2, <2>1, SubsetSame
  <2>4. AggClass(v(f).cls, agg) = "DateTime" =>
          AggregateSubset(v(f), b, agg) = None \/ AggregateSubset(v(f), b, agg) \in Int
    BY <1>2, <1>4, <2>1, AggregateTimes
  <2>5. QED BY <2>2, <2>3, <2>4 DEF PivotCell
<1> HIDE DEF cell
<1>9. ASSUME NEW c \in 1..m
      PROVE  /\ cols(f)[c] = cols(g)[c] /\ ColumnShape(cols(f)[c]) /\ Length(cols(f)[c]) = n
             /\ cols(f)[c].cls = AggClass(v(f).cls, agg)
  <2>1. cells(f, c) = cells(g, c) /\ cells(f, c) = [r \in DOMAIN rs(f) |-> cells(f, c)[r]] BY <1>3, <1>5, <1>8
  <2>2. AggClass(v(f).cls, agg) = "DateTime" =>
          \A r \in 1..n : cells(f, c)[r] = None \/ cells(f, c)[r] \in Int BY <1>5, <1>8
  <2>3. cols(f)[c] = Filled(AggClass(v(f).cls, agg), cells(f, c)) /\ cols(g)[c] = Filled(AggClass(v(f).cls, agg), cells(g, c))
    BY <1>3, <1>5, <1>6
  <2> HIDE DEF cells, cols
  <2>4. IsList(cells(f, c)) /\ Len(cells(f, c)) = n BY <1>3, <2>1, MapLen
  <2>5. /\ ColumnShape(Filled(AggClass(v(f).cls, agg), cells(f, c)))
        /\ Length(Filled(AggClass(v(f).cls, agg), cells(f, c))) = n BY <2>2, <2>4, FilledMade
  <2>6. Filled(AggClass(v(f).cls, agg), cells(f, c)).cls = AggClass(v(f).cls, agg) BY DEF Filled, Column
  <2>7. QED BY <2>1, <2>3, <2>5, <2>6
<1>10. cols(f) = [c \in 1..m |-> cols(f)[c]] /\ cols(g) = [c \in 1..m |-> cols(g)[c]] BY <1>3, <1>5
<1>11. labels(f) = labels(g) /\ labels(f) = [r \in DOMAIN rs(f) |-> labels(f)[r]]
  <2>1. \A i : Get(ic(f), i) = Get(ic(g), i) BY <1>2, TwinGet
  <2>2. QED BY <1>3, <2>1
<1>12. keys(f) = keys(g)
  <2> HIDE DEF labels
  <2>1. LabelClass(ic(f)) = LabelClass(ic(g)) BY <1>6 DEF LabelClass
  <2>2. QED BY <1>11, <2>1
<1>13. Times(LabelClass(ic(f)), labels(f))
  <2>1. CASE LabelClass(ic(f)) # "DateTime" BY <2>1 DEF Times
  <2>2. CASE LabelClass(ic(f)) = "DateTime"
    <3>1. ic(f).cls = "DateTime" BY <2>2 DEF LabelClass
    <3>2. \A i : ValueAt(ic(f), i) \in Int BY <1>2, <3>1, ShapeOf, TimeAt
    <3>3. \A r \in 1..n : labels(f)[r] = ValueAt(ic(f), rs(f)[r]) BY <1>3, <1>5, <3>1 DEF Get
    <3>4. DOMAIN labels(f) = 1..n BY <1>5
    <3> HIDE DEF labels
    <3>5. \A r \in DOMAIN labels(f) : labels(f)[r] \in Int BY <3>2, <3>3, <3>4
    <3>6. QED BY <3>5 DEF Times
  <2>3. QED BY <2>1, <2>2
<1> HIDE DEF names, cells, cols, labels
<1>14. cols(f) = cols(g) BY <1>9, <1>10
<1>15. IsList(cols(f)) /\ Len(cols(f)) = m BY <1>5, <1>10, ListIntro
<1>16. IsList(names(f)) /\ Len(names(f)) = m BY <1>3, <1>7, MapLen
<1>17. IsList(labels(f)) /\ Len(labels(f)) = n BY <1>3, <1>11, MapLen
<1>18. ColumnShape(keys(f)) /\ Length(keys(f)) = n BY <1>13, <1>17, WholeMade
<1> HIDE DEF keys
<1> DEFINE t == Frame(names(f), cols(f), n, Index(keys(f), index))
<1>19. PivotTable(f, index, columns, values, agg) = t /\ PivotTable(g, index, columns, values, agg) = t
  BY <1>1, <1>3, <1>7, <1>12, <1>14
<1>20. t.names = names(f) /\ t.cols = cols(f) /\ t.nrows = n /\ t.ix = Index(keys(f), index) BY DEF Frame
<1>21. n = Len(PivotLabels(f, index, columns)) /\ v(f).cls = ColumnOf(f, values).cls BY DEF rs, v
<1> HIDE DEF t, m, n
<1>22. QED BY <1>5, <1>9, <1>15, <1>16, <1>18, <1>19, <1>20, <1>21

(* A column with a cell added for a margin. *)
LEMMA ExtendedMade ==
  ASSUME NEW c, ColumnShape(c), NEW cell, c.cls = "DateTime" => cell = None
  PROVE  ColumnShape(Extended(c, cell)) /\ Length(Extended(c, cell)) = Length(c) + 1
<1> DEFINE s == [i \in 1..Length(c) |-> Get(c, i)]
           t == Append(s, cell)
<1>1. Length(c) \in Nat BY LengthNat
<1>2. s = [i \in 1..Length(c) |-> s[i]] OBVIOUS
<1>3. c.cls = "DateTime" => \A i \in 1..Length(c) : s[i] = None \/ s[i] \in Int
  <2>1. CASE c.cls = "DateTime"
    <3>1. \A i : ValueAt(c, i) \in Int BY <2>1, TimeAt
    <3>2. QED BY <2>1, <3>1 DEF Get
  <2>2. QED BY <2>1
<1>4. Extended(c, cell) = Filled(c.cls, t) BY DEF Extended
<1> HIDE DEF s
<1>5. IsList(s) /\ Len(s) = Length(c) BY <1>1, <1>2, ListIntro
<1>6. IsList(t) /\ Len(t) = Length(c) + 1 /\ (\A i \in 1..Length(c) : t[i] = s[i]) /\ t[Length(c) + 1] = cell
  BY <1>5, AppendList
<1>7. c.cls = "DateTime" => \A i \in 1..Len(t) : t[i] = None \/ t[i] \in Int BY <1>1, <1>3, <1>6
<1> HIDE DEF t
<1>8. QED BY <1>4, <1>6, <1>7, FilledMade

(* A table with margins is again a frame of columns of one length. *)
LEMMA MarginsMade ==
  ASSUME NEW t, NEW n, n \in Nat, IsList(t.names), IsList(t.cols), Len(t.names) = Len(t.cols), t.nrows = n,
         NEW cls, cls # "DateTime",
         \A k \in 1..Len(t.cols) : ColumnShape(t.cols[k]) /\ Length(t.cols[k]) = n /\ t.cols[k].cls = cls,
         NEW c, NEW name, t.ix = Index(c, name), ColumnShape(c), Length(c) = n, NEW agg, NEW ok
  PROVE  t.cols # <<>> => Twin(Margins(t, agg), Margins(t, agg), ok)
<1> HAVE t.cols # <<>>
<1> DEFINE m == Len(t.cols)
           x == [k \in DOMAIN t.cols |-> Extended(t.cols[k], Margin(t, <<k>>, Rows(t.nrows), agg))]
           y == [r \in 1..t.nrows |-> Margin(t, Rows(Len(t.cols)), <<r>>, agg)]
           z == Append(y, Margin(t, Rows(Len(t.cols)), Rows(t.nrows), agg))
           w == Filled(t.cols[1].cls, z)
           e == Extended(t.ix.levels[1], IF t.ix.levels[1].cls = "Str" THEN "All" ELSE None)
           s == t.names
<1>1. Margins(t, agg) = Frame(Append(s, "All"), Append(x, w), n + 1, Index(e, t.ix.names[1])) BY DEF Margins
<1>2. DOMAIN t.cols = 1..m /\ m \in Nat /\ m # 0 BY ListElim, EmptyIff
<1>3. t.ix.levels[1] = c /\ t.ix.names[1] = name BY DEF Index
<1>4. ASSUME NEW k \in 1..m PROVE ColumnShape(x[k]) /\ Length(x[k]) = n + 1
  <2> DEFINE b == Margin(t, <<k>>, Rows(t.nrows), agg)
  <2>1. x[k] = Extended(t.cols[k], b) BY <1>2
  <2>2. ColumnShape(t.cols[k]) /\ Length(t.cols[k]) = n /\ t.cols[k].cls # "DateTime" OBVIOUS
  <2> HIDE DEF x, b
  <2>3. QED BY <2>1, <2>2, ExtendedMade
<1>5. x = [k \in 1..m |-> x[k]] BY <1>2
<1>6. y = [r \in 1..n |-> y[r]] OBVIOUS
<1>7. t.cols[1].cls # "DateTime" BY <1>2
<1>8. IsList(s) /\ Len(s) = m OBVIOUS
<1> HIDE DEF x, y, s, m
<1>9. IsList(x) /\ Len(x) = m /\ IsList(y) /\ Len(y) = n BY <1>2, <1>5, <1>6, ListIntro
<1>10. IsList(z) /\ Len(z) = n + 1 BY <1>9, AppendList
<1> HIDE DEF z
<1>11. ColumnShape(w) /\ Length(w) = n + 1 BY <1>7, <1>10, FilledMade
<1>12. ColumnShape(e) /\ Length(e) = n + 1 BY <1>3, ExtendedMade
<1> HIDE DEF w, e
<1>13. /\ IsList(Append(x, w)) /\ Len(Append(x, w)) = m + 1
       /\ \A k \in 1..m : Append(x, w)[k] = x[k]
       /\ Append(x, w)[m + 1] = w BY <1>9, AppendList
<1>14. IsList(Append(s, "All")) /\ Len(Append(s, "All")) = m + 1 BY <1>8, AppendList
<1> DEFINE a == Append(x, w)  b == Append(s, "All")
<1>15. \A k \in 1..Len(a) : ColumnShape(a[k]) /\ Length(a[k]) = n + 1 BY <1>2, <1>4, <1>11, <1>13
<1>16. IsList(a) /\ IsList(b) /\ Len(a) = Len(b) BY <1>13, <1>14
<1> HIDE DEF a, b
<1>17. n + 1 \in Nat OBVIOUS
<1>18. Twin(Frame(b, a, n + 1, Index(e, t.ix.names[1])), Frame(b, a, n + 1, Index(e, t.ix.names[1])), ok)
  BY <1>12, <1>15, <1>16, <1>17, FrameMade
<1>19. QED BY <1>1, <1>18 DEF a, b

(* pivot_table with margins, of twins. *)
LEMMA PivotMarginsTwin ==
  ASSUME NEW f, NEW g, NEW p, Twin(f, g, p), NEW index, NEW columns, NEW values,
         HasColumn(f, index), HasColumn(f, columns), HasColumn(f, values), Numeric(ColumnOf(f, values)),
         NEW agg \in {"sum", "count"}, NEW ok
  PROVE  Twin(PivotTableMargins(f, index, columns, values, agg), PivotTableMargins(g, index, columns, values, agg), ok)
<1> DEFINE t == PivotTable(f, index, columns, values, agg)
           n == Len(PivotLabels(f, index, columns))
           cls == AggClass(ColumnOf(f, values).cls, agg)
<1>1. cls # "DateTime" /\ OfTimes(ColumnOf(f, values).cls, agg) BY DEF Numeric, OfTimes, AggClass
<1>2. /\ PivotTable(g, index, columns, values, agg) = t
      /\ IsList(t.names) /\ IsList(t.cols) /\ Len(t.names) = Len(t.cols)
      /\ n \in Nat /\ t.nrows = n
      /\ \A k \in 1..Len(t.cols) : ColumnShape(t.cols[k]) /\ Length(t.cols[k]) = n /\ t.cols[k].cls = cls
      /\ \E c : t.ix = Index(c, index) /\ ColumnShape(c) /\ Length(c) = n
  BY <1>1, PivotTableFacts
<1>3. /\ PivotTableMargins(f, index, columns, values, agg) = Margins(t, agg)
      /\ PivotTableMargins(g, index, columns, values, agg) = Margins(t, agg) BY <1>2 DEF PivotTableMargins
<1>4. PICK c : t.ix = Index(c, index) /\ ColumnShape(c) /\ Length(c) = n BY <1>2
<1> HIDE DEF t, n, cls
<1>5. CASE t.cols = <<>>
  <2>1. Margins(t, agg) = t BY <1>5 DEF Margins
  <2>2. TwinCols(t.cols, t.cols, ok, n) BY <1>5, NoCols
  <2>3. TwinIndex(t.ix, t.ix, ok, n) BY <1>4, SelfTwin, OneIndexTwin
  <2>4. Twin(t, t, ok) BY <1>2, <2>2, <2>3 DEF Twin
  <2>5. QED BY <1>3, <2>1, <2>4
<1>6. CASE t.cols # <<>>
  <2>1. Twin(Margins(t, agg), Margins(t, agg), ok) BY <1>1, <1>2, <1>4, <1>6, MarginsMade
  <2>2. QED BY <1>3, <2>1
<1>7. QED BY <1>5, <1>6

(* pivot_table with a list of aggregates, of twins. *)
LEMMA PivotListTwin ==
  ASSUME NEW f, NEW g, NEW p, Twin(f, g, p), NEW index, NEW columns, NEW values,
         HasColumn(f, index), HasColumn(f, columns), HasColumn(f, values), Numeric(ColumnOf(f, values)),
         NEW aggs, IsList(aggs), aggs # <<>>, \A k \in 1..Len(aggs) : aggs[k] \in {"sum", "count"}, NEW ok
  PROVE  Twin(PivotTableList(f, index, columns, values, aggs), PivotTableList(g, index, columns, values, aggs), ok)
<1> DEFINE T(h) == [k \in DOMAIN aggs |-> PivotTable(h, index, columns, values, aggs[k])]
           ns(t) == [k \in DOMAIN aggs |-> [c \in DOMAIN t[k].names |-> t[k].names[c] \o "_" \o aggs[k]]]
           cs(t) == [k \in DOMAIN aggs |-> t[k].cols]
           made(t) == Frame(FlattenSeq(ns(t)), FlattenSeq(cs(t)), t[1].nrows, t[1].ix)
           n == Len(PivotLabels(f, index, columns))
           m == Len(aggs)
<1>1. \A h : PivotTableList(h, index, columns, values, aggs) = made(T(h)) BY Zenon DEF PivotTableList
<1>2. DOMAIN aggs = 1..m /\ m \in Nat /\ 1 \in 1..m
  <2>1. DOMAIN aggs = 1..m /\ m \in Nat /\ m # 0 BY ListElim, EmptyIff
  <2>2. QED BY <2>1
<1> DEFINE t == T(f)
<1>3. ASSUME NEW k \in 1..m
      PROVE  /\ PivotTable(g, index, columns, values, aggs[k]) = t[k]
             /\ IsList(t[k].names) /\ IsList(t[k].cols) /\ Len(t[k].names) = Len(t[k].cols)
             /\ n \in Nat /\ t[k].nrows = n
             /\ \A j \in 1..Len(t[k].cols) : ColumnShape(t[k].cols[j]) /\ Length(t[k].cols[j]) = n
             /\ \E c : t[k].ix = Index(c, index) /\ ColumnShape(c) /\ Length(c) = n
  <2> DEFINE agg == aggs[k]
  <2>1. agg \in {"sum", "count"} OBVIOUS
  <2>2. t[k] = PivotTable(f, index, columns, values, agg) BY <1>2
  <2> HIDE DEF t, agg, n
  <2>3. OfTimes(ColumnOf(f, values).cls, agg) BY <2>1 DEF Numeric, OfTimes, AggClass
  <2>4. LET x == PivotTable(f, index, columns, values, agg)
            y == Len(PivotLabels(f, index, columns))
        IN  /\ PivotTable(g, index, columns, values, agg) = x
            /\ IsList(x.names) /\ IsList(x.cols) /\ Len(x.names) = Len(x.cols)
            /\ y \in Nat /\ x.nrows = y
            /\ \A j \in 1..Len(x.cols) : /\ ColumnShape(x.cols[j]) /\ Length(x.cols[j]) = y
                                         /\ x.cols[j].cls = AggClass(ColumnOf(f, values).cls, agg)
            /\ \E c : x.ix = Index(c, index) /\ ColumnShape(c) /\ Length(c) = y
    BY <2>3, PivotTableFacts
  <2>5. QED BY <2>2, <2>4 DEF n, agg
<1>4. T(g) = t BY <1>2, <1>3
<1>5. PICK c : t[1].ix = Index(c, index) /\ ColumnShape(c) /\ Length(c) = n BY <1>2, <1>3
<1> HIDE DEF n
<1>6. n \in Nat /\ t[1].nrows = n BY <1>2, <1>3
<1>7. cs(t) = [k \in 1..m |-> t[k].cols] BY <1>2
<1>8. ns(t) = [k \in 1..m |-> ns(t)[k]] BY <1>2
<1>9. ASSUME NEW k \in 1..m PROVE IsList(ns(t)[k]) /\ Len(ns(t)[k]) = Len(cs(t)[k])
  <2> DEFINE s == t[k].names
             word(x) == s[x] \o "_" \o aggs[k]
             b == [x \in DOMAIN s |-> word(x)]
  <2>2. ns(t)[k] = b BY <1>2
  <2>3. IsList(s) /\ Len(s) = Len(cs(t)[k]) BY <1>3, <1>7
  <2> HIDE DEF s, word
  <2>1. b = [x \in DOMAIN s |-> b[x]] OBVIOUS
  <2> HIDE DEF b, s, ns, cs, t
  <2>4. QED BY <2>1, <2>2, <2>3, MapLen
<1> HIDE DEF T, t
<1> DEFINE x == ns(t)  y == cs(t)
<1>10. /\ \A k \in 1..m : IsList(y[k])
       /\ \A k \in 1..m : \A j \in 1..Len(y[k]) : ColumnShape(y[k][j]) /\ Length(y[k][j]) = n
  BY <1>3, <1>7
<1> HIDE DEF x, y, ns, cs, m
<1>11. /\ IsList(x) /\ Len(x) = m /\ IsList(y) /\ Len(y) = m
  BY <1>2, <1>7, <1>8, ListIntro DEF x, y
<1>12. \A k \in 1..m : IsList(x[k]) /\ Len(x[k]) = Len(y[k]) BY <1>9 DEF x, y
<1>13. IsList(FlattenSeq(x)) /\ IsList(FlattenSeq(y)) BY <1>10, <1>11, <1>12, FlattenList
<1>14. Len(FlattenSeq(x)) = Len(FlattenSeq(y))
  <2> DEFINE R == UNION {{<<x[k][i], y[k][i]>> : i \in 1..Len(x[k])} : k \in 1..m}
  <2>1. \A k \in 1..Len(x) : /\ Len(x[k]) = Len(y[k])
                             /\ \A i \in 1..Len(x[k]) : <<x[k][i], y[k][i]>> \in R BY <1>11, <1>12
  <2>2. /\ IsList(x) /\ \A k \in 1..Len(x) : IsList(x[k])
        /\ IsList(y) /\ \A k \in 1..Len(y) : IsList(y[k])
        /\ Len(x) = Len(y) BY <1>10, <1>11, <1>12
  <2> HIDE DEF R
  <2>3. QED BY <2>1, <2>2, FlattenPairs
<1> DEFINE a == FlattenSeq(y)  b == FlattenSeq(x)
<1>15. \A k \in 1..Len(a) : ColumnShape(a[k]) /\ Length(a[k]) = n
  <2>1. ToSet(a) = UNION {ToSet(y[k]) : k \in 1..Len(y)} BY <1>10, <1>11, FlattenList
  <2>2. IsList(a) BY <1>13
  <2> HIDE DEF a
  <2>3. ASSUME NEW k \in 1..Len(a) PROVE ColumnShape(a[k]) /\ Length(a[k]) = n
    <3>1. a[k] \in ToSet(a) BY <2>2, MemberOfList
    <3>2. PICK j \in 1..m : a[k] \in ToSet(y[j]) BY <1>11, <2>1, <3>1
    <3>3. PICK i \in 1..Len(y[j]) : y[j][i] = a[k] BY <1>10, <3>2, MemberOfList
    <3>4. QED BY <1>10, <3>3
  <2>4. QED BY <2>3
<1>16. IsList(a) /\ IsList(b) /\ Len(b) = Len(a) BY <1>13, <1>14
<1>17. made(t) = Frame(b, a, n, Index(c, index)) BY <1>5, <1>6 DEF x, y
<1> HIDE DEF a, b, made
<1>18. Twin(Frame(b, a, n, Index(c, index)), Frame(b, a, n, Index(c, index)), ok)
  BY <1>5, <1>6, <1>15, <1>16, FrameMade
<1>19. PivotTableList(f, index, columns, values, aggs) = made(t) /\ PivotTableList(g, index, columns, values, aggs) = made(t)
  BY <1>1, <1>4 DEF t
<1>20. QED BY <1>17, <1>18, <1>19

------------------------------------------------------------------------------
(* The long form. *)

(* Every row as many times as there are variables. *)
LEMMA RepeatedList ==
  ASSUME NEW n \in Nat, NEW m \in Nat
  PROVE  n * m \in Nat /\ IsList(Repeated(n, m)) /\ Len(Repeated(n, m)) = n * m
<1> DEFINE h == n * m  s == Repeated(n, m)
<1>1. h \in Nat OBVIOUS
<1>2. s = [k \in 1..h |-> 1 + ((k - 1) \div m)] BY DEF Repeated
<1> HIDE DEF h, s
<1>3. s = [k \in 1..h |-> s[k]] BY <1>2
<1>4. IsList(s) /\ Len(s) = h BY <1>1, <1>3, ListIntro
<1>5. QED BY <1>1, <1>4 DEF h, s

(* The variable of a row of the long form is one of the variables. *)
LEMMA Cycled ==
  ASSUME NEW m \in Nat, m # 0, NEW k \in Nat
  PROVE  1 + (k % m) \in 1..m
OBVIOUS

(* The column of the names of the variables. *)
LEMMA VariablesMade ==
  ASSUME NEW names, IsList(names), NEW n \in Nat
  PROVE  ColumnShape(Variables(names, n)) /\ Length(Variables(names, n)) = n * Len(names)
<1> DEFINE m == Len(names)  h == n * m
           vals == [k \in 1..h |-> names[1 + ((k - 1) % m)]]
<1>1. m \in Nat BY ListElim
<1>2. h \in Nat BY <1>1
<1>3. Variables(names, n) = Whole("Str", vals) BY DEF Variables
<1> HIDE DEF h, m
<1>4. IsList(vals) /\ Len(vals) = h BY <1>2, ListIntro
<1> HIDE DEF vals
<1>5. Times("Str", vals) BY DEF Times
<1>6. ColumnShape(Whole("Str", vals)) /\ Length(Whole("Str", vals)) = Len(vals) BY <1>4, <1>5, WholeMade
<1>7. QED BY <1>3, <1>4, <1>6 DEF h, m

(* The cells of the variables, row by row. *)
LEMMA InterleavedTwin ==
  ASSUME NEW cs, NEW ds, NEW ok, NEW j, TwinCols(cs, ds, ok, j), cs # <<>>, OneClass(cs), NEW n \in Nat
  PROVE  /\ TwinCells(Interleaved(cs, n), Interleaved(ds, n), cs[1].cls)
         /\ Len(Interleaved(cs, n)) = n * Len(cs)
<1> DEFINE m == Len(cs)  h == n * m  ks == Rows(h)
           col(k) == 1 + ((k - 1) % m)
           row(k) == 1 + ((k - 1) \div m)
           x == Interleaved(cs, n)
           y == Interleaved(ds, n)
<1>1. m \in Nat /\ m # 0 /\ Len(ds) = m /\ DOMAIN cs = 1..m BY ColsElim
<1>2. h \in Nat BY <1>1
<1>3. IsList(ks) /\ Len(ks) = h /\ DOMAIN ks = 1..h BY <1>2, RowsList
<1>4. x = [k \in 1..h |-> PluckRow(cs[col(k)], row(k))] BY DEF Interleaved
<1>5. y = [k \in 1..h |-> PluckRow(ds[col(k)], row(k))] BY <1>1 DEF Interleaved
<1>6. \A k \in 1..h : col(k) \in 1..m BY <1>1, <1>2, Cycled
<1> HIDE DEF m, h, ks, col, row, x, y
<1>7. x = [k \in DOMAIN ks |-> x[k]] /\ y = [k \in DOMAIN ks |-> y[k]] BY <1>3, <1>4, <1>5
<1>8. ASSUME NEW k \in DOMAIN ks PROVE TwinCell(x[k], y[k], cs[1].cls)
  <2>1. x[k] = PluckRow(cs[col(k)], row(k)) /\ y[k] = PluckRow(ds[col(k)], row(k)) BY <1>3, <1>4, <1>5
  <2>2. col(k) \in 1..m BY <1>3, <1>6
  <2>3. TwinCol(cs[col(k)], ds[col(k)]) BY <2>2, ColsOf DEF m
  <2>4. cs[col(k)].cls = cs[1].cls BY <1>1, <2>2 DEF OneClass
  <2> DEFINE c == cs[col(k)]  d == ds[col(k)]
  <2> HIDE DEF c, d
  <2>5. TwinCell(PluckRow(c, row(k)), PluckRow(d, row(k)), c.cls) BY <2>3, PluckRowTwin DEF c, d
  <2>6. QED BY <2>1, <2>4, <2>5 DEF c, d
<1>9. TwinCells(x, y, cs[1].cls) /\ Len(x) = Len(ks) BY <1>3, <1>7, <1>8, CellsIntro
<1>10. QED BY <1>3, <1>9 DEF x, y, h, m

(* The identifying columns, taken by rows. *)
LEMMA TakenKeysTwin ==   \* the key columns, taken by rows
  ASSUME NEW f, NEW g, NEW p, Twin(f, g, p),
         NEW names, IsList(names), \A k \in 1..Len(names) : HasColumn(f, names[k]),
         NEW rows, IsList(rows), NEW ok
  PROVE  /\ TwinCols([k \in DOMAIN names |-> Take(ColumnOf(f, names[k]), rows)],
                     [k \in DOMAIN names |-> Take(ColumnOf(g, names[k]), rows)], ok, Len(rows))
         /\ Len([k \in DOMAIN names |-> Take(ColumnOf(f, names[k]), rows)]) = Len(names)
<1> DEFINE cs == KeyColumns(f, names)  ds == KeyColumns(g, names)
<1>1. TwinCols(cs, ds, p, f.nrows) /\ Len(cs) = Len(names) BY KeyColumnsTwin
<1>2. DOMAIN cs = DOMAIN names /\ DOMAIN ds = DOMAIN names BY DEF KeyColumns
<1>3. [k \in DOMAIN cs |-> Take(cs[k], rows)] = [k \in DOMAIN names |-> Take(ColumnOf(f, names[k]), rows)]
  BY <1>2 DEF KeyColumns
<1>4. [k \in DOMAIN ds |-> Take(ds[k], rows)] = [k \in DOMAIN names |-> Take(ColumnOf(g, names[k]), rows)]
  BY <1>2 DEF KeyColumns
<1> HIDE DEF cs, ds
<1>5. /\ TwinCols([k \in DOMAIN cs |-> Take(cs[k], rows)], [k \in DOMAIN ds |-> Take(ds[k], rows)], ok, Len(rows))
      /\ Len([k \in DOMAIN cs |-> Take(cs[k], rows)]) = Len(cs) BY <1>1, ColsTake
<1>6. QED BY <1>1, <1>3, <1>4, <1>5

(* melt of twins. *)
LEMMA MeltTwin ==
  ASSUME NEW f, NEW g, NEW p, Twin(f, g, p),
         NEW ids, IsList(ids), NEW melted, IsList(melted), MeltOK(f, ids, melted), NEW ok
  PROVE  Twin(Melt(f, ids, melted), Melt(g, ids, melted), ok)
<1> DEFINE n == f.nrows  rows == Repeated(n, Len(melted))
           cs == KeyColumns(f, melted)  ds == KeyColumns(g, melted)
           a(h) == [k \in DOMAIN ids |-> Take(ColumnOf(h, ids[k]), rows)]
           names == ids \o <<"variable", "value">>
           v == Variables(melted, n)
<1>1. n \in Nat /\ g.nrows = n /\ TwinIndex(f.ix, g.ix, p, n) BY TwinParts
<1>2. Len(melted) \in Nat BY ListElim
<1>3. /\ \A k \in 1..Len(ids) : HasColumn(f, ids[k])
      /\ \A k \in 1..Len(melted) : HasColumn(f, melted[k])
  <2>1. \A name \in ToSet(ids) \union ToSet(melted) : HasColumn(f, name) BY ConcatList DEF MeltOK
  <2>2. QED BY <2>1, MemberOfList
<1>4. IsList(rows) /\ Len(rows) = n * Len(melted) BY <1>1, <1>2, RepeatedList
<1>5. TwinCols(cs, ds, p, n) /\ Len(cs) = Len(melted) BY <1>3, KeyColumnsTwin
<1>6. cs # <<>>
  <2>1. Len(melted) # 0 BY EmptyIff DEF MeltOK
  <2>2. QED BY <1>5, <2>1, ColsElim
<1>7. OneClass(cs) BY DEF MeltOK
<1>8. Melt(f, ids, melted) = Frame(names, a(f) \o <<v, Pluck(cs[1].cls, Interleaved(cs, n))>>, Len(rows),
                                 TakeIndex(f.ix, rows)) BY Zenon DEF Melt
<1>9. Melt(g, ids, melted) = Frame(names, a(g) \o <<v, Pluck(ds[1].cls, Interleaved(ds, n))>>, Len(rows),
                                 TakeIndex(g.ix, rows)) BY <1>1, Zenon DEF Melt
<1>10. /\ TwinCols(a(f), a(g), ok, Len(rows))
       /\ Len(a(f)) = Len(ids) BY <1>3, <1>4, TakenKeysTwin
<1>11. ds[1].cls = cs[1].cls
  <2>1. 1 \in 1..Len(cs) BY <1>5, <1>6, ColsElim
  <2>2. TwinCol(cs[1], ds[1]) BY <1>5, <2>1, ColsOf
  <2>3. QED BY <2>2, TwinReads
<1> HIDE DEF n, rows, cs, ds, a
<1> DEFINE x == Interleaved(cs, n)  y == Interleaved(ds, n)  cls == cs[1].cls
           b == <<v, Pluck(cls, x)>>  c == <<v, Pluck(cls, y)>>
<1>12. TwinCells(x, y, cls) /\ Len(x) = n * Len(cs) BY <1>1, <1>5, <1>6, <1>7, InterleavedTwin
<1>13. ColumnShape(v) /\ Length(v) = n * Len(melted) BY <1>1, VariablesMade
<1> HIDE DEF x, y, cls, v
<1>14. TwinCol(Pluck(cls, x), Pluck(cls, y)) /\ Length(Pluck(cls, x)) = Len(x) BY <1>12, PluckTwin
<1>15. TwinCols(b, c, ok, Len(rows)) BY <1>4, <1>5, <1>12, <1>13, <1>14, SelfTwin, TwoCols
<1>16. Len(b) = 2 BY TwoList
<1> HIDE DEF b, c
<1>17. TwinCols(a(f) \o b, a(g) \o c, ok, Len(rows)) /\ Len(a(f) \o b) = Len(ids) + 2
  <2> DEFINE u == a(f)  w == a(g)  h == Len(rows)
  <2>1. TwinCols(u, w, ok, h) /\ TwinCols(b, c, ok, h) /\ Len(u) = Len(ids) BY <1>10, <1>15
  <2> HIDE DEF u, w, h
  <2>2. TwinCols(u \o b, w \o c, ok, h) /\ Len(u \o b) = Len(u) + Len(b) BY <2>1, ColsConcat
  <2>3. QED BY <1>16, <2>1, <2>2 DEF u, w, h
<1>18. IsList(names) /\ Len(names) = Len(ids) + 2 BY TwoList, ConcatList
<1>19. TwinIndex(TakeIndex(f.ix, rows), TakeIndex(g.ix, rows), ok, Len(rows)) BY <1>1, <1>4, TakeIndexTwin
<1>20. Len(rows) \in Nat BY <1>4, ListElim
<1> HIDE DEF names
<1>21. Twin(Frame(names, a(f) \o b, Len(rows), TakeIndex(f.ix, rows)),
            Frame(names, a(g) \o c, Len(rows), TakeIndex(g.ix, rows)), ok)
  BY <1>17, <1>18, <1>19, <1>20, FrameTwin
<1>22. QED BY <1>8, <1>9, <1>11, <1>21 DEF b, c, cls, x, y

(* stack of twins. *)
LEMMA StackTwin ==
  ASSUME NEW f, NEW g, NEW p, Twin(f, g, p), StackOK(f), NEW ok
  PROVE  Twin(Stack(f), Stack(g), ok)
<1> DEFINE n == f.nrows  cs == f.cols  ds == g.cols  m == Len(cs)
           rows == Repeated(n, m)  v == Variables(f.names, n)
           names == Append(LevelNames(f.ix), "")
           index(h) == IF h.ix.levels = <<>> THEN Index(v, None)
                       ELSE MultiIndex(Append(TakeIndex(h.ix, rows).levels, v), names)
<1>1. /\ n \in Nat /\ g.nrows = n /\ TwinCols(cs, ds, p, n) /\ g.names = f.names
      /\ IsList(f.names) /\ Len(f.names) = m /\ Len(ds) = m /\ TwinIndex(f.ix, g.ix, p, n) BY TwinParts
<1>2. cs # <<>> /\ OneClass(cs) BY DEF StackOK
<1>3. m \in Nat /\ 1 \in 1..m BY <1>1, <1>2, ColsElim
<1>4. f.ix.names = g.ix.names BY <1>1 DEF TwinIndex
<1>5. LevelNames(g.ix) = LevelNames(f.ix) BY <1>4 DEF LevelNames
<1>6. Stack(f) = Frame(<<"value">>, <<LevelOf(cs[1].cls, Interleaved(cs, n))>>, Len(rows), index(f))
  BY Zenon DEF Stack
<1>7. Stack(g) = Frame(<<"value">>, <<LevelOf(ds[1].cls, Interleaved(ds, n))>>, Len(rows), index(g))
  BY <1>1, <1>5, Zenon DEF Stack
<1>8. IsList(rows) /\ Len(rows) = n * m BY <1>1, <1>3, RepeatedList
<1>9. ds[1].cls = cs[1].cls
  <2>1. TwinCol(cs[1], ds[1]) BY <1>1, <1>3, ColsOf
  <2>2. QED BY <2>1, TwinReads
<1>10. ColumnShape(v) /\ Length(v) = n * m BY <1>1, VariablesMade
<1> DEFINE x == Interleaved(cs, n)  y == Interleaved(ds, n)  cls == cs[1].cls
<1>11. TwinCells(x, y, cls) /\ Len(x) = n * m
  <2> HIDE DEF cs, ds, n
  <2>1. QED BY <1>1, <1>2, InterleavedTwin
<1> HIDE DEF x, y, cls
<1>12. TwinCol(LevelOf(cls, x), LevelOf(cls, y)) /\ Length(LevelOf(cls, x)) = Len(x) BY <1>11, LevelTwin
<1> HIDE DEF n, cs, ds, m, rows, v
<1>13. TwinCols(<<LevelOf(cls, x)>>, <<LevelOf(cls, y)>>, ok, Len(rows)) BY <1>8, <1>11, <1>12, OneCol
<1>14. TwinIndex(index(f), index(g), ok, Len(rows))
  <2>1. CASE f.ix.levels = <<>>
    <3>1. g.ix.levels = <<>> BY <1>1, <2>1, IndexParts
    <3>2. TwinIndex(Index(v, None), Index(v, None), ok, Len(rows)) BY <1>8, <1>10, SelfTwin, OneIndexTwin
    <3>3. QED BY <2>1, <3>1, <3>2
  <2>2. CASE f.ix.levels # <<>>
    <3> DEFINE a == TakeIndex(f.ix, rows)  b == TakeIndex(g.ix, rows)
    <3>1. g.ix.levels # <<>> BY <1>1, <2>2, IndexParts
    <3>2. TwinIndex(a, b, ok, Len(rows)) BY <1>1, <1>8, TakeIndexTwin
    <3>3. Len(a.levels) = Len(f.ix.levels) /\ IsList(a.levels) /\ IsList(b.levels)
      <4>1. a.names = f.ix.names BY DEF TakeIndex, WithLevels
      <4>2. Len(a.names) = Len(a.levels) /\ IsList(a.levels) /\ IsList(b.levels) BY <3>2 DEF TwinIndex, TwinCols
      <4>3. Len(f.ix.names) = Len(f.ix.levels) BY <1>1, IndexParts
      <4>4. QED BY <4>1, <4>2, <4>3
    <3> HIDE DEF a, b
    <3> DEFINE s == a.levels  t == b.levels
    <3>4. TwinCols(s, t, ok, Len(rows)) BY <3>2 DEF TwinIndex
    <3>5. Append(s, v) = s \o <<v>> /\ Append(t, v) = t \o <<v>>
      <4>1. s \in Seq(ToSet(s)) /\ t \in Seq(ToSet(t)) BY <3>3 DEF IsList
      <4> HIDE DEF s, t
      <4>2. QED BY <4>1
    <3> HIDE DEF s, t
    <3>6. TwinCols(<<v>>, <<v>>, ok, Len(rows)) BY <1>8, <1>10, SelfTwin, OneCol
    <3>7. TwinCols(Append(s, v), Append(t, v), ok, Len(rows)) BY <3>4, <3>5, <3>6, ColsConcat
    <3>8. IsList(names) /\ Len(names) = Len(f.ix.levels) + 1
      <4> DEFINE e == LevelNames(f.ix)  z == f.ix.names
      <4>1. IsList(z) /\ Len(z) = Len(f.ix.levels) BY <1>1, IndexParts
      <4>2. e = [k \in DOMAIN z |-> LevelName(z[k])] BY DEF LevelNames
      <4> HIDE DEF e, z
      <4>3. e = [k \in DOMAIN z |-> e[k]] BY <4>2
      <4>4. IsList(e) /\ Len(e) = Len(z) BY <4>1, <4>3, MapLen
      <4>5. IsList(Append(e, "")) /\ Len(Append(e, "")) = Len(e) + 1 BY <4>4, AppendList
      <4>6. QED BY <4>1, <4>4, <4>5 DEF e
    <3>9. Len(Append(s, v)) = Len(f.ix.levels) + 1 BY <3>3, AppendList DEF s
    <3> HIDE DEF names
    <3>10. TwinIndex(MultiIndex(Append(s, v), names), MultiIndex(Append(t, v), names), ok, Len(rows))
      BY <3>7, <3>8, <3>9, MultiIndexTwin
    <3>11. QED BY <2>2, <3>1, <3>10 DEF s, t, a, b
  <2>3. QED BY <2>1, <2>2
<1>15. Len(rows) \in Nat BY <1>8, ListElim
<1> HIDE DEF index
<1>16. IsList(<<"value">>) /\ Len(<<"value">>) = 1 BY OneList
<1>17. Len(<<LevelOf(cls, x)>>) = 1 BY OneList
<1> DEFINE u == <<LevelOf(cls, x)>>  w == <<LevelOf(cls, y)>>
<1> HIDE DEF u, w
<1>18. Twin(Frame(<<"value">>, u, Len(rows), index(f)), Frame(<<"value">>, w, Len(rows), index(g)), ok)
  BY <1>13, <1>14, <1>15, <1>16, <1>17, FrameTwin DEF u, w
<1>19. QED BY <1>6, <1>7, <1>9, <1>18 DEF u, w, cls, x, y

------------------------------------------------------------------------------
(* Unstacking. *)

(* The values p and q are at one place of the lists x and y. *)
Paired(x, y, p, q) ==   \* p and q are at one place of x and y
  \E k \in 1..Len(x) : \E j \in 1..Len(x[k]) : p = x[k][j] /\ q = y[k][j]

(* Two lists of lists of the same lengths are flattened side by side. *)
LEMMA FlattenAlong ==   \* two lists of lists of the same lengths
  ASSUME NEW x, NEW y, IsList(x), IsList(y), Len(x) = Len(y),
         \A k \in 1..Len(x) : IsList(x[k]) /\ IsList(y[k]) /\ Len(x[k]) = Len(y[k])
  PROVE  /\ IsList(FlattenSeq(x)) /\ IsList(FlattenSeq(y)) /\ Len(FlattenSeq(x)) = Len(FlattenSeq(y))
         /\ \A i \in 1..Len(FlattenSeq(x)) : Paired(x, y, FlattenSeq(x)[i], FlattenSeq(y)[i])
<1> DEFINE R == UNION {{<<x[k][i], y[k][i]>> : i \in 1..Len(x[k])} : k \in 1..Len(x)}
<1>1. \A k \in 1..Len(x) : /\ Len(x[k]) = Len(y[k])
                           /\ \A i \in 1..Len(x[k]) : <<x[k][i], y[k][i]>> \in R OBVIOUS
<1>2. \A a, b : <<a, b>> \in R => Paired(x, y, a, b) BY DEF Paired
<1>3. /\ \A k \in 1..Len(x) : IsList(x[k])
      /\ \A k \in 1..Len(y) : IsList(y[k]) OBVIOUS
<1> HIDE DEF R
<1>4. /\ Len(FlattenSeq(x)) = Len(FlattenSeq(y))
      /\ \A i \in 1..Len(FlattenSeq(x)) : <<FlattenSeq(x)[i], FlattenSeq(y)[i]>> \in R
  BY <1>1, <1>3, FlattenPairs
<1>5. IsList(FlattenSeq(x)) /\ IsList(FlattenSeq(y)) BY <1>3, FlattenList
<1> DEFINE a == FlattenSeq(x)  b == FlattenSeq(y)
<1>6. /\ IsList(a) /\ IsList(b) /\ Len(a) = Len(b)
      /\ \A i \in 1..Len(a) : <<a[i], b[i]>> \in R BY <1>4, <1>5
<1> HIDE DEF a, b
<1>7. \A i \in 1..Len(a) : Paired(x, y, a[i], b[i]) BY <1>2, <1>6
<1>8. QED BY <1>6, <1>7 DEF a, b

(* Lists of twin columns, flattened. *)
LEMMA FlattenTwin ==
  ASSUME NEW x, NEW y, IsList(x), IsList(y), Len(x) = Len(y), NEW ok, NEW n,
         \A k \in 1..Len(x) : TwinCols(x[k], y[k], ok, n)
  PROVE  TwinCols(FlattenSeq(x), FlattenSeq(y), ok, n)
<1> DEFINE a == FlattenSeq(x)  b == FlattenSeq(y)
<1>1. \A k \in 1..Len(x) : IsList(x[k]) /\ IsList(y[k]) /\ Len(x[k]) = Len(y[k]) BY DEF TwinCols
<1>2. /\ IsList(a) /\ IsList(b) /\ Len(a) = Len(b)
      /\ \A i \in 1..Len(a) : Paired(x, y, a[i], b[i])
  BY <1>1, FlattenAlong
<1> HIDE DEF a, b
<1>3. ASSUME NEW i \in 1..Len(a) PROVE TwinCol(a[i], b[i]) /\ (ok => Length(a[i]) = n)
  <2>1. PICK k \in 1..Len(x) : \E j \in 1..Len(x[k]) : a[i] = x[k][j] /\ b[i] = y[k][j] BY <1>2 DEF Paired
  <2>2. PICK j \in 1..Len(x[k]) : a[i] = x[k][j] /\ b[i] = y[k][j] BY <2>1
  <2>3. TwinCols(x[k], y[k], ok, n) OBVIOUS
  <2> DEFINE c == x[k]  d == y[k]
  <2> HIDE DEF c, d
  <2>4. TwinCol(c[j], d[j]) /\ (ok => Length(c[j]) = n) BY <2>2, <2>3, ColsOf DEF c, d
  <2>5. QED BY <2>2, <2>4 DEF c, d
<1>4. TwinCols(a, b, ok, n) BY <1>2, <1>3 DEF TwinCols
<1>5. QED BY <1>4 DEF a, b

(* A list but for its last member. *)
LEMMA FrontList ==
  ASSUME NEW s, IsList(s), s # <<>>
  PROVE  /\ IsList(Front(s)) /\ Len(Front(s)) = Len(s) - 1 /\ Len(s) \in Nat /\ Len(s) # 0
         /\ \A i \in 1..(Len(s) - 1) : Front(s)[i] = s[i]
         /\ Last(s) = s[Len(s)]
<1>1. Len(s) \in Nat /\ Len(s) # 0 BY ListElim, EmptyIff
<1>2. Front(s) = SubSeq(s, 1, Len(s) - 1) /\ Last(s) = s[Len(s)] BY DEF Front, Last
<1> DEFINE n == Len(s) - 1
<1>3. 1 \in 1..(Len(s) + 1) /\ n \in 0..Len(s) /\ 1 <= n + 1 BY <1>1
<1>4. IsList(SubSeq(s, 1, n)) /\ Len(SubSeq(s, 1, n)) = n - 1 + 1 /\ \A i \in 1..(n - 1 + 1) : SubSeq(s, 1, n)[i] = s[1 + i - 1]
  <2> HIDE DEF n
  <2>1. QED BY <1>3, SubSeqList
<1>5. \A i \in 1..n : SubSeq(s, 1, n)[i] = s[i] BY <1>1, <1>4
<1>6. QED BY <1>1, <1>2, <1>4, <1>5

(* The levels of an index but for the last, which goes to the columns. *)
LEMMA FrontTwin ==
  ASSUME NEW cs, NEW ds, NEW ok, NEW n, TwinCols(cs, ds, ok, n), cs # <<>>
  PROVE  /\ TwinCols(Front(cs), Front(ds), ok, n) /\ Len(Front(cs)) = Len(cs) - 1
         /\ TwinCol(Last(cs), Last(ds)) /\ Len(cs) \in Nat /\ Len(cs) # 0
<1>1. IsList(cs) /\ IsList(ds) /\ Len(ds) = Len(cs) BY DEF TwinCols
<1>2. ds # <<>> BY <1>1, EmptyIff
<1> DEFINE m == Len(cs) - 1
<1>3. /\ IsList(Front(cs)) /\ Len(Front(cs)) = m /\ Len(cs) \in Nat /\ Len(cs) # 0
      /\ \A i \in 1..m : Front(cs)[i] = cs[i]
      /\ Last(cs) = cs[Len(cs)] BY <1>1, FrontList
<1>4. /\ IsList(Front(ds)) /\ Len(Front(ds)) = m
      /\ \A i \in 1..m : Front(ds)[i] = ds[i]
      /\ Last(ds) = ds[Len(cs)] BY <1>1, <1>2, FrontList
<1>5. \A k \in 1..Len(cs) : TwinCol(cs[k], ds[k]) /\ (ok => Length(cs[k]) = n) BY DEF TwinCols
<1>6. TwinCols(Front(cs), Front(ds), ok, n) BY <1>3, <1>4, <1>5 DEF TwinCols
<1>7. QED BY <1>3, <1>4, <1>5, <1>6

(* The text of the levels of a row is the same of twins. *)
LEMMA LevelsSame ==
  ASSUME NEW cs, NEW ds, NEW ok, NEW n, TwinCols(cs, ds, ok, n), NEW i
  PROVE  LevelsText([k \in DOMAIN cs |-> LevelText(cs[k], i)]) = LevelsText([k \in DOMAIN ds |-> LevelText(ds[k], i)])
<1>1. DOMAIN cs = DOMAIN ds /\ DOMAIN cs = 1..Len(cs) BY ColsElim
<1>2. \A k \in DOMAIN cs : LevelText(cs[k], i) = LevelText(ds[k], i) BY <1>1, ColsOf, TextsSame
<1>3. [k \in DOMAIN cs |-> LevelText(cs[k], i)] = [k \in DOMAIN ds |-> LevelText(ds[k], i)] BY <1>1, <1>2
<1>4. QED BY <1>3

(* The label by which unstack finds the row of its result ... *)
UnstackRow(f, i) == LevelsText([k \in DOMAIN Front(f.ix.levels) |-> LevelText(Front(f.ix.levels)[k], i)])
(* ... and the one by which it finds the column. *)
UnstackCol(f, i) == LevelText(Last(f.ix.levels), i)

(* Both are the same for twins. *)
LEMMA UnstackLabelsSame ==
  ASSUME NEW f, NEW g, NEW p, Twin(f, g, p), IsMulti(f), NEW i
  PROVE  UnstackRow(f, i) = UnstackRow(g, i) /\ UnstackCol(f, i) = UnstackCol(g, i)
<1> DEFINE cs == f.ix.levels  ds == g.ix.levels  n == f.nrows
<1>1. TwinCols(cs, ds, p, n) /\ cs # <<>> BY TwinParts, IndexParts DEF IsMulti
<1> HIDE DEF cs, ds, n
<1>2. TwinCols(Front(cs), Front(ds), p, n) /\ TwinCol(Last(cs), Last(ds)) BY <1>1, FrontTwin
<1>3. LevelText(Last(cs), i) = LevelText(Last(ds), i) BY <1>2, TextsSame
<1> DEFINE a == Front(cs)  b == Front(ds)
<1> HIDE DEF a, b
<1>4. LevelsText([k \in DOMAIN a |-> LevelText(a[k], i)]) = LevelsText([k \in DOMAIN b |-> LevelText(b[k], i)])
  BY <1>2, LevelsSame DEF a, b
<1>5. QED BY <1>3, <1>4 DEF UnstackRow, UnstackCol, a, b, cs, ds

(* unstack of twins. *)
LEMMA UnstackTwin ==
  ASSUME NEW f, NEW g, NEW p, Twin(f, g, p), UnstackOK(f), NEW ok
  PROVE  Twin(Unstack(f), Unstack(g), ok)
<1> DEFINE row(h) == [i \in 1..h.nrows |-> UnstackRow(h, i)]
           col(h) == [i \in 1..h.nrows |-> UnstackCol(h, i)]
           rs(h) == Firsts(Rows(h.nrows), row(h))
           cs(h) == Firsts(Rows(h.nrows), col(h))
           at(h, r, c) == Max({0} \union {i \in 1..h.nrows : row(h)[i] = row(h)[r] /\ col(h)[i] = col(h)[c]})
           label(h, c, k) == IF Len(h.cols) = 1 THEN col(h)[c] ELSE col(h)[c] \o "_" \o h.names[k]
           column(h, c, k) == LevelOf(h.cols[k].cls, [r \in DOMAIN rs(h) |-> PluckRow(h.cols[k], at(h, rs(h)[r], c))])
           levels(h) == [k \in DOMAIN Front(h.ix.levels) |-> Take(Front(h.ix.levels)[k], rs(h))]
           labels(h) == [k \in DOMAIN h.cols |-> [c \in DOMAIN cs(h) |-> label(h, cs(h)[c], k)]]
           columns(h) == [k \in DOMAIN h.cols |-> [c \in DOMAIN cs(h) |-> column(h, cs(h)[c], k)]]
           index(h) == IF Len(levels(h)) = 1
                       THEN Index(levels(h)[1], IF h.ix.names[1] = "" THEN None ELSE h.ix.names[1])
                       ELSE MultiIndex(levels(h), Front(h.ix.names))
<1>1. \A h : Unstack(h) = Frame(FlattenSeq(labels(h)), FlattenSeq(columns(h)), Len(rs(h)), index(h))
  BY Zenon DEF Unstack, UnstackRow, UnstackCol
<1> DEFINE n == f.nrows  m == Len(f.cols)
<1>2. /\ f.names = g.names /\ g.nrows = n /\ n \in Nat /\ m \in Nat
      /\ DOMAIN f.cols = 1..m /\ DOMAIN g.cols = 1..m /\ Len(g.cols) = m
      /\ TwinCols(f.cols, g.cols, p, n) /\ TwinIndex(f.ix, g.ix, p, n) BY TwinParts
<1>3. IsMulti(f) /\ f.cols # <<>> BY DEF UnstackOK
<1>4. row(g) = row(f) /\ col(g) = col(f)
  <2>1. \A i : UnstackRow(f, i) = UnstackRow(g, i) /\ UnstackCol(f, i) = UnstackCol(g, i) BY <1>3, UnstackLabelsSame
  <2>2. QED BY <1>2, <2>1
<1>5. rs(g) = rs(f) /\ cs(g) = cs(f) BY <1>2, <1>4, Zenon
<1>6. \A r, c : at(g, r, c) = at(f, r, c) BY <1>2, <1>4, Zenon
<1>7. IsList(rs(f)) /\ Len(rs(f)) \in Nat /\ IsList(cs(f))
  <2>1. IsList(Rows(n)) BY <1>2, RowsList
  <2> HIDE DEF row, col
  <2>2. QED BY <2>1, FirstsFacts
<1> DEFINE R == rs(f)  C == cs(f)  A(r, c) == at(f, r, c)
<1> HIDE DEF at, row, rs, cs, col
<1>30. ASSUME NEW c, NEW k PROVE label(g, c, k) = label(f, c, k)
  <2> DEFINE s == f.names  w == col(f)[c]
  <2>1. g.names = s /\ col(g)[c] = w /\ Len(g.cols) = Len(f.cols) BY <1>2, <1>4
  <2> HIDE DEF s, w
  <2>2. label(g, c, k) = IF Len(f.cols) = 1 THEN w ELSE w \o "_" \o s[k] BY <2>1
  <2>3. label(f, c, k) = IF Len(f.cols) = 1 THEN w ELSE w \o "_" \o s[k] BY DEF s, w
  <2>4. QED BY <2>2, <2>3
<1> HIDE DEF label
<1>8. labels(g) = labels(f)
  <2> DEFINE new(c, k) == label(f, c, k)
  <2>1. \A c, k : label(g, c, k) = new(c, k) BY <1>30
  <2>2. labels(f) = [k \in 1..m |-> [c \in DOMAIN C |-> new(C[c], k)]] BY <1>2
  <2> HIDE DEF new
  <2>3. labels(g) = [k \in 1..m |-> [c \in DOMAIN C |-> new(C[c], k)]] BY <1>2, <1>5, <2>1
  <2>4. QED BY <2>2, <2>3
<1>31. \A c, k : column(g, c, k) = LevelOf(g.cols[k].cls, [r \in DOMAIN R |-> PluckRow(g.cols[k], A(R[r], c))])
  BY <1>5, <1>6
<1>9. columns(f) = [k \in 1..m |-> [c \in DOMAIN C |->
        LevelOf(f.cols[k].cls, [r \in DOMAIN R |-> PluckRow(f.cols[k], A(R[r], C[c]))])]] BY <1>2, Zenon
<1>10. columns(g) = [k \in 1..m |-> [c \in DOMAIN C |->
        LevelOf(g.cols[k].cls, [r \in DOMAIN R |-> PluckRow(g.cols[k], A(R[r], C[c]))])]]
  <2> DEFINE new(c, k) == LevelOf(g.cols[k].cls, [r \in DOMAIN R |-> PluckRow(g.cols[k], A(R[r], c))])
  <2>1. \A c, k : column(g, c, k) = new(c, k) BY <1>31
  <2> HIDE DEF column, new
  <2>2. columns(g) = [k \in 1..m |-> [c \in DOMAIN C |-> new(C[c], k)]] BY <1>2, <1>5, <2>1
  <2>3. QED BY <2>2 DEF new
<1>11. labels(f) = [k \in 1..m |-> [c \in DOMAIN C |-> label(f, C[c], k)]] BY <1>2, Zenon
<1>12. levels(f) = [k \in DOMAIN Front(f.ix.levels) |-> Take(Front(f.ix.levels)[k], R)] BY Zenon
<1>13. levels(g) = [k \in DOMAIN Front(g.ix.levels) |-> Take(Front(g.ix.levels)[k], R)] BY <1>5, Zenon
<1>14. IsList(R) /\ Len(R) \in Nat /\ IsList(C) BY <1>7
<1>15. Unstack(f) = Frame(FlattenSeq(labels(f)), FlattenSeq(columns(f)), Len(R), index(f)) BY <1>1, Zenon
<1>16. Unstack(g) = Frame(FlattenSeq(labels(f)), FlattenSeq(columns(g)), Len(R), index(g))
  <2>1. Unstack(g) = Frame(FlattenSeq(labels(g)), FlattenSeq(columns(g)), Len(rs(g)), index(g)) BY <1>1, Zenon
  <2> HIDE DEF labels, columns, index
  <2>2. QED BY <1>5, <1>8, <2>1, Zenon
<1> HIDE DEF R, C, A
<1> DEFINE x == columns(f)  y == columns(g)  u == labels(f)
<1>17. IsList(x) /\ Len(x) = m /\ IsList(y) /\ Len(y) = m /\ IsList(u) /\ Len(u) = m
  BY <1>2, <1>9, <1>10, <1>11, ListIntro
<1>18. ASSUME NEW k \in 1..m PROVE TwinCols(x[k], y[k], ok, Len(R)) /\ Len(x[k]) = Len(C)
  <2> DEFINE a == f.cols  b == g.cols
  <2>1. TwinCol(a[k], b[k]) BY <1>2, ColsOf
  <2> DEFINE c0 == a[k]  d0 == b[k]
             z(e) == [c \in DOMAIN C |-> LevelOf(e.cls, [r \in DOMAIN R |-> PluckRow(e, A(R[r], C[c]))])]
  <2>2. x[k] = z(c0) /\ y[k] = z(d0) BY <1>9, <1>10
  <2> HIDE DEF a, b, c0, d0, x, y
  <2>3. c0.cls = d0.cls BY <2>1, TwinReads DEF c0, d0
  <2>4. ASSUME NEW c \in DOMAIN C PROVE TwinCol(z(c0)[c], z(d0)[c]) /\ Length(z(c0)[c]) = Len(R)
    <3> DEFINE h == [r \in DOMAIN R |-> A(R[r], C[c])]
               p0 == [r \in DOMAIN R |-> PluckRow(c0, h[r])]
               q0 == [r \in DOMAIN R |-> PluckRow(d0, h[r])]
    <3>1. z(c0)[c] = LevelOf(c0.cls, p0) /\ z(d0)[c] = LevelOf(c0.cls, q0) BY <2>3
    <3> HIDE DEF h, z
    <3>4. TwinCol(c0, d0) BY <2>1 DEF c0, d0
    <3>2. TwinCells(p0, q0, c0.cls) /\ Len(p0) = Len(R) BY <1>14, <3>4, RowCellsTwin
    <3> HIDE DEF p0, q0
    <3>3. QED BY <3>1, <3>2, LevelTwin
  <2>5. DOMAIN C = 1..Len(C) /\ Len(C) \in Nat BY <1>14, ListElim
  <2>6. z(c0) = [c \in 1..Len(C) |-> z(c0)[c]] /\ z(d0) = [c \in 1..Len(C) |-> z(d0)[c]] BY <2>5
  <2> HIDE DEF z
  <2>7. TwinCols(z(c0), z(d0), ok, Len(R)) /\ Len(z(c0)) = Len(C) BY <2>4, <2>5, <2>6, ColsIntro
  <2>8. QED BY <2>2, <2>7
<1>19. ASSUME NEW k \in 1..m PROVE IsList(u[k]) /\ Len(u[k]) = Len(C)
  <2> DEFINE w == [c \in DOMAIN C |-> label(f, C[c], k)]
  <2>1. u[k] = w BY <1>11
  <2>2. DOMAIN C = 1..Len(C) /\ Len(C) \in Nat BY <1>14, ListElim
  <2>3. IsList(w) /\ Len(w) = Len(C) BY <2>2, ListIntro
  <2>4. QED BY <2>1, <2>3
<1> HIDE DEF x, y, u, m
<1> DEFINE a == FlattenSeq(x)  b == FlattenSeq(y)  s == FlattenSeq(u)
<1>20. TwinCols(a, b, ok, Len(R))
  <2>1. \A k \in 1..Len(x) : TwinCols(x[k], y[k], ok, Len(R)) BY <1>17, <1>18
  <2>2. QED BY <1>17, <2>1, FlattenTwin
<1>21. IsList(s) /\ Len(s) = Len(a)
  <2>1. \A k \in 1..Len(u) : IsList(u[k]) /\ IsList(x[k]) /\ Len(u[k]) = Len(x[k])
    BY <1>17, <1>18, <1>19 DEF TwinCols
  <2>2. IsList(u) /\ IsList(x) /\ Len(u) = Len(x) BY <1>17
  <2>3. IsList(FlattenSeq(u)) /\ Len(FlattenSeq(u)) = Len(FlattenSeq(x)) BY <2>1, <2>2, FlattenAlong
  <2>4. QED BY <2>3
<1>22. TwinIndex(index(f), index(g), ok, Len(R))
  <2> DEFINE cl == f.ix.levels  dl == g.ix.levels  ns == f.ix.names
             lx == [k \in DOMAIN Front(cl) |-> Take(Front(cl)[k], R)]
             ly == [k \in DOMAIN Front(dl) |-> Take(Front(dl)[k], R)]
  <2>1. /\ TwinCols(cl, dl, p, n) /\ cl # <<>> /\ g.ix.names = ns /\ IsList(ns) /\ Len(ns) = Len(cl)
    BY <1>2, <1>3, IndexParts DEF IsMulti
  <2>2. lx = levels(f) /\ ly = levels(g) BY <1>12, <1>13
  <2> HIDE DEF levels, lx, ly
  <2>3. /\ index(f) = IF Len(lx) = 1 THEN Index(lx[1], IF ns[1] = "" THEN None ELSE ns[1]) ELSE MultiIndex(lx, Front(ns))
        /\ index(g) = IF Len(ly) = 1 THEN Index(ly[1], IF ns[1] = "" THEN None ELSE ns[1]) ELSE MultiIndex(ly, Front(ns))
    BY <2>1, <2>2
  <2> HIDE DEF cl, dl, ns, index, n
  <2>4. TwinCols(Front(cl), Front(dl), p, n) /\ Len(Front(cl)) = Len(cl) - 1 /\ Len(cl) \in Nat /\ Len(cl) # 0
    BY <2>1, FrontTwin
  <2>5. TwinCols(lx, ly, ok, Len(R)) /\ Len(lx) = Len(Front(cl)) BY <1>14, <2>4, ColsTake DEF lx, ly
  <2>6. Len(ly) = Len(lx) BY <2>5, ColsElim
  <2>7. IsList(Front(ns)) /\ Len(Front(ns)) = Len(lx)
    <3>1. ns # <<>> BY <2>1, <2>4, EmptyIff
    <3>2. QED BY <2>1, <2>4, <2>5, <3>1, FrontList
  <2>8. CASE Len(lx) = 1
    <3>1. TwinCol(lx[1], ly[1]) /\ (ok => Length(lx[1]) = Len(R)) BY <2>5, <2>8, ColsOf
    <3> DEFINE c == lx[1]  d == ly[1]  name == IF ns[1] = "" THEN None ELSE ns[1]
    <3> HIDE DEF c, d, name
    <3>2. TwinIndex(Index(c, name), Index(d, name), ok, Len(R)) BY <3>1, OneIndexTwin DEF c, d
    <3>3. QED BY <2>3, <2>6, <2>8, <3>2 DEF c, d, name
  <2>9. CASE Len(lx) # 1
    <3>1. TwinIndex(MultiIndex(lx, Front(ns)), MultiIndex(ly, Front(ns)), ok, Len(R)) BY <2>5, <2>7, MultiIndexTwin
    <3>2. QED BY <2>3, <2>6, <2>9, <3>1
  <2>10. QED BY <2>8, <2>9
<1>23. Unstack(f) = Frame(s, a, Len(R), index(f)) /\ Unstack(g) = Frame(s, b, Len(R), index(g))
  BY <1>15, <1>16 DEF x, y, u
<1> HIDE DEF a, b, s, index
<1>24. Twin(Frame(s, a, Len(R), index(f)), Frame(s, b, Len(R), index(g)), ok)
  BY <1>14, <1>20, <1>21, <1>22, FrameTwin
<1>25. QED BY <1>23, <1>24

------------------------------------------------------------------------------
(* Buckets of time. *)

(* A resampling rule counts its units from 1. *)
RuleOK(rule) == rule.n \in Nat \ {0}

(* The civil date of a time is made of numbers. *)
LEMMA CivilInt ==
  ASSUME NEW t \in Int
  PROVE  Civil(t).y \in Int /\ Civil(t).m \in Int /\ Civil(t).d \in Int
BY DEF Civil

(* The day of a civil date is a number. *)
LEMMA DayOfInt ==
  ASSUME NEW y \in Int, NEW m \in Int, NEW d \in Int
  PROVE  DayOf(y, m, d) \in Int
BY DEF DayOf

(* The days of a month are a number. *)
LEMMA DaysInMonthInt ==
  ASSUME NEW y \in Int, NEW m \in Int
  PROVE  DaysInMonth(y, m) \in Int
<1>1. CASE m \in {4, 6, 9, 11} BY <1>1 DEF DaysInMonth
<1>2. CASE m = 2 BY <1>2 DEF DaysInMonth
<1>3. CASE ~(m \in {4, 6, 9, 11}) /\ m # 2 BY <1>3 DEF DaysInMonth
<1>4. QED BY <1>1, <1>2, <1>3

(* The bucket of a time is a number. *)
LEMMA BucketOfInt ==
  ASSUME NEW t \in Int, NEW anchor \in Int, NEW rule, RuleOK(rule)
  PROVE  BucketOf(t, anchor, rule) \in Int
<1> DEFINE a == Civil(anchor)  b == Civil(t)
<1>1. a.y \in Int /\ a.m \in Int /\ b.y \in Int /\ b.m \in Int BY CivilInt
<1> HIDE DEF a, b
<1>2. \A x \in Int : TruncDiv(x, rule.n) \in Int BY DEF TruncDiv, RuleOK
<1>3. Days(rule) \in Nat \ {0} BY DEF Days, RuleOK
<1>4. (t - anchor) \div Days(rule) \in Int BY <1>3
<1>5. BucketOf(t, anchor, rule) = CASE rule.unit = "Y" -> TruncDiv(b.y - a.y, rule.n)
        [] rule.unit = "M" -> TruncDiv((b.y - a.y) * 12 + (b.m - a.m), rule.n)
        [] OTHER           -> (t - anchor) \div Days(rule) BY DEF BucketOf, a, b
<1>6. b.y - a.y \in Int /\ (b.y - a.y) * 12 + (b.m - a.m) \in Int BY <1>1
<1>7. CASE rule.unit = "Y" BY <1>2, <1>5, <1>6, <1>7
<1>8. CASE rule.unit = "M" BY <1>2, <1>5, <1>6, <1>8
<1>9. CASE rule.unit # "Y" /\ rule.unit # "M" BY <1>4, <1>5, <1>9
<1>10. QED BY <1>7, <1>8, <1>9

(* The start of a bucket is a time. *)
LEMMA BucketStartInt ==
  ASSUME NEW k \in Int, NEW anchor \in Int, NEW rule, RuleOK(rule)
  PROVE  BucketStart(k, anchor, rule) \in Int
<1> DEFINE a == Civil(anchor)
           z == k * rule.n
           months == a.m - 1 + z
           y == IF rule.unit = "Y" THEN a.y + z ELSE a.y + months \div 12
           m == IF rule.unit = "Y" THEN a.m ELSE (months % 12) + 1
<1>1. a.y \in Int /\ a.m \in Int /\ a.d \in Int BY CivilInt
<1>2. rule.n \in Nat /\ Days(rule) \in Nat BY DEF RuleOK, Days
<1>3. z \in Int /\ anchor + k * Days(rule) \in Int BY <1>2
<1>6. BucketStart(k, anchor, rule) = IF Calendar(rule) THEN DayOf(y, m, Min({a.d, DaysInMonth(y, m)}))
                                     ELSE anchor + k * Days(rule) BY DEF BucketStart
<1> HIDE DEF a, z
<1>4. months \in Int BY <1>1, <1>3
<1>5. y \in Int /\ m \in Int
  <2> HIDE DEF months
  <2>1. QED BY <1>1, <1>3, <1>4
<1> HIDE DEF months, y, m
<1>7. Min({a.d, DaysInMonth(y, m)}) \in Int
  <2> DEFINE d == a.d  e == DaysInMonth(y, m)
  <2>1. d \in Int /\ e \in Int BY <1>1, <1>5, DaysInMonthInt
  <2> HIDE DEF d, e
  <2>2. Min({d, e}) = IF d <= e THEN d ELSE e BY <2>1, MaxOfTwo
  <2>3. Min({d, e}) \in Int BY <2>1, <2>2
  <2>4. QED BY <2>3 DEF d, e
<1>8. DayOf(y, m, Min({a.d, DaysInMonth(y, m)})) \in Int BY <1>5, <1>7, DayOfInt
<1>9. QED BY <1>3, <1>6, <1>8

(* The values of a column that are not null are the same of twins. *)
LEMMA NonNullValuesSame ==
  ASSUME NEW c, NEW d, TwinCol(c, d)
  PROVE  /\ NonNullValues(c) = NonNullValues(d)
         /\ IsList(NonNullValues(c))
         /\ c.cls = "DateTime" => \A k \in 1..Len(NonNullValues(c)) : NonNullValues(c)[k] \in Int
<1> DEFINE r == NonNull(c)  s == [k \in DOMAIN r |-> ValueAt(c, r[k])]
<1>1. ColumnShape(c) BY ShapeOf
<1>2. IsList(r) /\ ToSet(r) = {i \in 1..Length(c) : ~NullAt(c, i)} BY <1>1, NonNullFacts
<1>3. NonNull(d) = r BY NonNullSame
<1>4. NonNullValues(c) = s /\ NonNullValues(d) = [k \in DOMAIN r |-> ValueAt(d, r[k])]
  BY <1>3, Zenon DEF NonNullValues
<1> HIDE DEF r
<1>5. DOMAIN r = 1..Len(r) /\ Len(r) \in Nat BY <1>2, ListElim
<1>6. \A k \in DOMAIN r : ~NullAt(c, r[k]) BY <1>2, <1>5, MemberOfList
<1>7. \A k \in DOMAIN r : ValueAt(c, r[k]) = ValueAt(d, r[k]) BY <1>6, TwinReads
<1>8. NonNullValues(d) = s BY <1>4, <1>7
<1>9. IsList(s) /\ Len(s) = Len(r) BY <1>5, ListIntro
<1>10. ASSUME c.cls = "DateTime" PROVE \A k \in 1..Len(s) : s[k] \in Int BY <1>1, <1>5, <1>9, <1>10, TimeAt
<1>11. QED BY <1>4, <1>8, <1>9, <1>10

(* A function over the positions up to a bound, which may be negative, is a *)
(* list.                                                                    *)
LEMMA LongList ==   \* a list of as many members as a bound, if that is positive
  ASSUME NEW n \in Int, NEW s, s = [k \in 1..n |-> s[k]]
  PROVE  IsList(s) /\ DOMAIN s = 1..n
<1> DEFINE m == IF n >= 0 THEN n ELSE 0
<1>1. m \in Nat /\ 1..n = 1..m OBVIOUS
<1>2. s = [k \in 1..m |-> s[k]] BY <1>1
<1> HIDE DEF m
<1>3. IsList(s) /\ DOMAIN s = 1..m BY <1>1, <1>2, ListIntro
<1>4. QED BY <1>1, <1>3

(* The buckets of a column of times are the same of twins, and their starts *)
(* are a column of times.                                                   *)
LEMMA BucketFacts ==
  ASSUME NEW a, NEW b, TwinCol(a, b), a.cls = "DateTime", NEW rule, RuleOK(rule)
  PROVE  /\ BucketRows(a, rule) = BucketRows(b, rule) /\ IsList(BucketRows(a, rule))
         /\ \A k \in 1..Len(BucketRows(a, rule)) : IsList(BucketRows(a, rule)[k])
         /\ BucketStarts(a, rule) = BucketStarts(b, rule)
         /\ ColumnShape(BucketStarts(a, rule)) /\ Length(BucketStarts(a, rule)) = Len(BucketRows(a, rule))
<1> DEFINE s == NonNullValues(a)  ts == ToSet(s)  lo == Min(ts)  n == BucketOf(Max(ts), lo, rule) + 1
           bucket(c, k) == RowsIn(Length(c), {i \in ToSet(NonNull(c)) : BucketOf(ValueAt(c, i), lo, rule) = k - 1})
           rows(c) == IF ts = {} THEN <<>> ELSE [k \in 1..n |-> bucket(c, k)]
<1>1. NonNullValues(b) = s /\ IsList(s) /\ \A k \in 1..Len(s) : s[k] \in Int BY NonNullValuesSame
<1>2. BucketRows(a, rule) = rows(a) BY Zenon DEF BucketRows
<1>3. BucketRows(b, rule) = rows(b) BY <1>1, Zenon DEF BucketRows
<1>4. NonNull(b) = NonNull(a) /\ ToSet(NonNull(a)) = {i \in 1..Length(a) : ~NullAt(a, i)} /\ Length(a) \in Nat
      /\ Length(b) = Length(a) BY NonNullSame, NonNullFacts, ShapeOf, TwinReads
<1>5. \A i \in ToSet(NonNull(a)) : ValueAt(a, i) = ValueAt(b, i) BY <1>4, TwinReads
<1>6. \A k : bucket(b, k) = bucket(a, k) BY <1>4, <1>5
<1>7. \A k : IsList(bucket(a, k)) BY <1>4, RowsInFacts
<1> HIDE DEF bucket
<1>8. rows(b) = rows(a) BY <1>6
<1>9. ASSUME ts # {} PROVE lo \in Int /\ n \in Int
  <2>1. s # <<>> BY <1>9, EmptyList
  <2>2. Min(ToSet(s)) \in Int /\ Max(ToSet(s)) \in Int BY <1>1, <2>1, ExtremeTimes
  <2>3. BucketOf(Max(ts), lo, rule) \in Int BY <2>2, BucketOfInt
  <2>4. QED BY <2>2, <2>3
<1> HIDE DEF ts, n, lo
<1>10. IsList(rows(a)) /\ \A k \in 1..Len(rows(a)) : IsList(rows(a)[k])
  <2>1. CASE ts = {} BY <2>1, EmptyList
  <2>2. CASE ts # {}
    <3> DEFINE r == [k \in 1..n |-> bucket(a, k)]
    <3>1. r = [k \in 1..n |-> r[k]] OBVIOUS
    <3>2. rows(a) = r BY <2>2
    <3>3. \A k \in 1..n : IsList(r[k]) BY <1>7
    <3> HIDE DEF r
    <3>4. IsList(r) /\ DOMAIN r = 1..n BY <1>9, <2>2, <3>1, LongList
    <3>5. DOMAIN r = 1..Len(r) BY <3>4, ListElim
    <3>6. QED BY <3>2, <3>3, <3>4, <3>5
  <2>3. QED BY <2>1, <2>2
<1> DEFINE r == rows(a)
           starts == [k \in DOMAIN r |-> BucketStart(k - 1, lo, rule)]
<1>11. BucketStarts(a, rule) = Whole("DateTime", starts) BY <1>2, Zenon DEF BucketStarts, ts, lo
<1>12. BucketStarts(b, rule) = Whole("DateTime", starts) BY <1>1, <1>3, <1>8, Zenon DEF BucketStarts, ts, lo
<1>13. r # <<>> => ts # {} OBVIOUS
<1> HIDE DEF rows, r
<1>14. DOMAIN r = 1..Len(r) /\ Len(r) \in Nat BY <1>10, ListElim DEF r
<1>15. IsList(starts) /\ Len(starts) = Len(r) BY <1>14, ListIntro
<1>16. Times("DateTime", starts)
  <2>1. ASSUME NEW k \in DOMAIN r PROVE BucketStart(k - 1, lo, rule) \in Int
    <3>1. r # <<>> BY EmptyList
    <3>2. k - 1 \in Int BY <1>14
    <3>3. QED BY <1>9, <1>13, <3>1, <3>2, BucketStartInt
  <2>2. QED BY <2>1 DEF Times
<1> HIDE DEF starts
<1>17. ColumnShape(Whole("DateTime", starts)) /\ Length(Whole("DateTime", starts)) = Len(r)
  BY <1>15, <1>16, WholeMade
<1>18. QED BY <1>2, <1>3, <1>8, <1>10, <1>11, <1>12, <1>17 DEF r

(* The numeric columns, or all of them, are at the same positions of twins. *)
LEMMA ChosenSame ==   \* the numeric columns, or all of them, by their numbers
  ASSUME NEW f, NEW g, NEW ok, Twin(f, g, ok), NEW all \in BOOLEAN
  PROVE  LET ks == RowsIn(Len(f.names), {k \in DOMAIN f.names : all \/ Numeric(f.cols[k])})
         IN  /\ RowsIn(Len(g.names), {k \in DOMAIN g.names : all \/ Numeric(g.cols[k])}) = ks
             /\ IsList(ks) /\ DOMAIN ks = 1..Len(ks) /\ Len(ks) \in Nat
             /\ \A k \in 1..Len(ks) : ks[k] \in 1..Len(f.cols) /\ (all \/ Numeric(f.cols[ks[k]]))
<1> DEFINE n == Len(f.cols)  a == f.cols  b == g.cols
           S(h) == {k \in DOMAIN h.names : all \/ Numeric(h.cols[k])}
<1>1. /\ g.names = f.names /\ Len(f.names) = n /\ n \in Nat /\ DOMAIN f.names = 1..n
      /\ TwinCols(a, b, ok, f.nrows) BY TwinParts
<1>2. \A k \in 1..n : Numeric(a[k]) <=> Numeric(b[k])
  <2> HIDE DEF a, b, n
  <2>1. ASSUME NEW k \in 1..n PROVE TwinCol(a[k], b[k]) BY <1>1, ColsOf DEF n, a
  <2>2. QED BY <2>1 DEF TwinCol, Numeric
<1>3. S(g) = S(f) BY <1>1, <1>2
<1>4. \A k \in S(f) : k \in 1..n /\ (all \/ Numeric(a[k])) BY <1>1
<1> HIDE DEF S, a, b
<1> DEFINE ks == RowsIn(n, S(f))
<1>5. /\ IsList(ks) /\ Len(ks) \in Nat /\ DOMAIN ks = 1..Len(ks)
      /\ \A k \in 1..Len(ks) : ks[k] \in 1..n /\ ks[k] \in S(f)
  <2> HIDE DEF n
  <2>1. QED BY <1>1, RowsInEntries
<1>6. RowsIn(Len(g.names), S(g)) = ks /\ RowsIn(Len(f.names), S(f)) = ks BY <1>1, <1>3
<1> HIDE DEF ks, n
<1>7. \A k \in 1..Len(ks) : ks[k] \in 1..n /\ (all \/ Numeric(a[ks[k]])) BY <1>4, <1>5
<1>8. QED BY <1>5, <1>6, <1>7 DEF S, a, n

(* A column of aggregates over the buckets is the same of twins. *)
LEMMA BucketColumnMade ==
  ASSUME NEW c, NEW d, TwinCol(c, d), Numeric(c), NEW rows, IsList(rows), \A k \in 1..Len(rows) : IsList(rows[k]),
         NEW agg
  PROVE  /\ BucketColumn(c, rows, agg) = BucketColumn(d, rows, agg)
         /\ ColumnShape(BucketColumn(c, rows, agg)) /\ Length(BucketColumn(c, rows, agg)) = Len(rows)
<1> DEFINE cells(e) == [k \in DOMAIN rows |-> BucketCell(e, rows[k], agg)]
           cls == BucketClass(c, agg)
<1>1. DOMAIN rows = 1..Len(rows) /\ Len(rows) \in Nat BY ListElim
<1>2. c.cls = d.cls BY TwinReads
<1>3. ASSUME NEW k \in DOMAIN rows PROVE BucketCell(c, rows[k], agg) = BucketCell(d, rows[k], agg)
  <2> DEFINE r == rows[k]
  <2>1. IsList(r) BY <1>1
  <2> HIDE DEF r
  <2>2. ValuesIn(c, r) = ValuesIn(d, r) BY <2>1, ValuesInFacts
  <2>3. BucketCell(c, r, agg) = BucketCell(d, r, agg) BY <1>2, <2>2, Zenon DEF BucketCell
  <2>4. QED BY <2>3 DEF r
<1>4. cells(d) = cells(c) BY <1>3
<1>5. cls # "DateTime" BY DEF BucketClass, Numeric
<1>6. BucketClass(d, agg) = cls BY <1>2 DEF BucketClass
<1>7. IsList(cells(c)) /\ Len(cells(c)) = Len(rows) BY <1>1, ListIntro
<1>8. BucketColumn(c, rows, agg) = Filled(cls, cells(c)) BY DEF BucketColumn
<1>9. BucketColumn(d, rows, agg) = Filled(cls, cells(c))
  <2>1. BucketColumn(d, rows, agg) = Filled(BucketClass(d, agg), cells(d)) BY Zenon DEF BucketColumn
  <2> HIDE DEF cells
  <2>2. QED BY <1>4, <1>6, <2>1
<1> HIDE DEF cells, cls
<1>10. ColumnShape(Filled(cls, cells(c))) /\ Length(Filled(cls, cells(c))) = Len(cells(c))
  BY <1>5, <1>7, FilledMade
<1>11. QED BY <1>7, <1>8, <1>9, <1>10

(* The columns of a resampled frame. *)
LEMMA ResampledTwin ==
  ASSUME NEW f, NEW g, NEW p, Twin(f, g, p), NEW a, NEW b, TwinCol(a, b), a.cls = "DateTime",
         NEW rule, RuleOK(rule), NEW ks, IsList(ks),
         \A k \in 1..Len(ks) : ks[k] \in 1..Len(f.cols) /\ Numeric(f.cols[ks[k]]), NEW agg, NEW ok
  PROVE  /\ TwinCols(Resampled(f, a, ks, rule, agg), Resampled(g, b, ks, rule, agg), ok, Len(BucketRows(a, rule)))
         /\ Len(Resampled(f, a, ks, rule, agg)) = Len(ks)
<1> DEFINE rows == BucketRows(a, rule)  m == Len(ks)  cs == f.cols  ds == g.cols
           x == Resampled(f, a, ks, rule, agg)
           y == Resampled(g, b, ks, rule, agg)
<1>1. BucketRows(b, rule) = rows /\ IsList(rows) /\ \A k \in 1..Len(rows) : IsList(rows[k]) BY BucketFacts
<1>2. m \in Nat /\ DOMAIN ks = 1..m BY ListElim
<1>3. TwinCols(cs, ds, p, f.nrows) BY TwinParts
<1>4. x = [k \in 1..m |-> BucketColumn(cs[ks[k]], rows, agg)] BY <1>2 DEF Resampled
<1>5. y = [k \in 1..m |-> BucketColumn(ds[ks[k]], rows, agg)] BY <1>1, <1>2 DEF Resampled
<1> HIDE DEF rows, x, y
<1>6. ASSUME NEW k \in 1..m PROVE TwinCol(x[k], y[k]) /\ (ok => Length(x[k]) = Len(rows))
  <2> DEFINE c == cs[ks[k]]  d == ds[ks[k]]
  <2>1. ks[k] \in 1..Len(cs) /\ Numeric(c) OBVIOUS
  <2>2. x[k] = BucketColumn(c, rows, agg) /\ y[k] = BucketColumn(d, rows, agg) BY <1>4, <1>5
  <2> HIDE DEF cs, ds
  <2>3. TwinCol(c, d) BY <1>3, <2>1, ColsOf
  <2> HIDE DEF c, d
  <2>4. /\ BucketColumn(c, rows, agg) = BucketColumn(d, rows, agg)
        /\ ColumnShape(BucketColumn(c, rows, agg)) /\ Length(BucketColumn(c, rows, agg)) = Len(rows)
    BY <1>1, <2>1, <2>3, BucketColumnMade
  <2>5. QED BY <2>2, <2>4, SelfTwin
<1> HIDE DEF m, cs, ds
<1>7. x = [k \in 1..m |-> x[k]] /\ y = [k \in 1..m |-> y[k]] BY <1>4, <1>5
<1>8. TwinCols(x, y, ok, Len(rows)) /\ Len(x) = m BY <1>2, <1>6, <1>7, ColsIntro
<1>9. QED BY <1>8 DEF x, y, rows, m

(* resample on a column, of twins. *)
LEMMA ResampleTwin ==
  ASSUME NEW f, NEW g, NEW p, Twin(f, g, p), NEW name, HasColumn(f, name), ResampleOK(f, name),
         NEW rule, RuleOK(rule), NEW agg, NEW ok
  PROVE  Twin(Resample(f, name, rule, agg), Resample(g, name, rule, agg), ok)
<1> DEFINE a == ColumnOf(f, name)  b == ColumnOf(g, name)
           ks == RowsIn(Len(f.names), {k \in DOMAIN f.names : Numeric(f.cols[k])})
           n == Len(BucketRows(a, rule))
           st == BucketStarts(a, rule)
           x == Resampled(f, a, ks, rule, agg)
           y == Resampled(g, b, ks, rule, agg)
           s == f.names
           ns == [k \in DOMAIN ks |-> s[ks[k]]]
<1>1. TwinCol(a, b) BY ColumnOfTwin
<1>2. a.cls = "DateTime" BY DEF ResampleOK
<1>3. /\ RowsIn(Len(g.names), {k \in DOMAIN g.names : Numeric(g.cols[k])}) = ks
      /\ IsList(ks) /\ Len(ks) \in Nat /\ DOMAIN ks = 1..Len(ks)
      /\ \A k \in 1..Len(ks) : ks[k] \in 1..Len(f.cols) /\ Numeric(f.cols[ks[k]])
  <2>1. FALSE \in BOOLEAN OBVIOUS
  <2>2. LET r == RowsIn(Len(f.names), {k \in DOMAIN f.names : FALSE \/ Numeric(f.cols[k])})
        IN  /\ RowsIn(Len(g.names), {k \in DOMAIN g.names : FALSE \/ Numeric(g.cols[k])}) = r
            /\ IsList(r) /\ DOMAIN r = 1..Len(r) /\ Len(r) \in Nat
            /\ \A k \in 1..Len(r) : r[k] \in 1..Len(f.cols) /\ (FALSE \/ Numeric(f.cols[r[k]]))
    BY <2>1, ChosenSame
  <2>3. /\ {k \in DOMAIN f.names : FALSE \/ Numeric(f.cols[k])} = {k \in DOMAIN f.names : Numeric(f.cols[k])}
        /\ {k \in DOMAIN g.names : FALSE \/ Numeric(g.cols[k])} = {k \in DOMAIN g.names : Numeric(g.cols[k])}
    OBVIOUS
  <2>4. QED BY <2>2, <2>3
<1>4. g.names = s BY TwinParts
<1>5. /\ IsList(BucketRows(a, rule)) /\ BucketRows(b, rule) = BucketRows(a, rule)
      /\ BucketStarts(b, rule) = st /\ ColumnShape(st) /\ Length(st) = n BY <1>1, <1>2, BucketFacts
<1>6. Resample(f, name, rule, agg) = Frame(<<name>> \o ns, <<st>> \o x, n, NoIndex) BY Zenon DEF Resample
<1>7. Resample(g, name, rule, agg) = Frame(<<name>> \o ns, <<st>> \o y, n, NoIndex)
  BY <1>3, <1>4, <1>5, Zenon DEF Resample
<1> HIDE DEF ks
<1>8. TwinCols(x, y, ok, n) /\ Len(x) = Len(ks)
  <2> DEFINE r == BucketRows(a, rule)
  <2>1. IsList(ks) /\ \A k \in 1..Len(ks) : ks[k] \in 1..Len(f.cols) /\ Numeric(f.cols[ks[k]]) BY <1>3
  <2> HIDE DEF a, b
  <2>2. TwinCols(x, y, ok, Len(r)) /\ Len(x) = Len(ks) BY <1>1, <1>2, <2>1, ResampledTwin
  <2>3. QED BY <2>2
<1> HIDE DEF a, b, n, st, x, y, s
<1>9. n \in Nat BY <1>5, ListElim DEF n
<1>10. TwinCols(<<st>>, <<st>>, ok, n) BY <1>5, SelfTwin, OneCol
<1>11. Len(<<st>>) = 1 /\ Len(<<name>>) = 1 /\ IsList(<<name>>) BY OneList
<1>12. TwinCols(<<st>> \o x, <<st>> \o y, ok, n) /\ Len(<<st>> \o x) = 1 + Len(ks) BY <1>8, <1>10, <1>11, ColsConcat
<1>13. IsList(ns) /\ Len(ns) = Len(ks) BY <1>3, ListIntro
<1> HIDE DEF ns
<1>14. IsList(<<name>> \o ns) /\ Len(<<name>> \o ns) = 1 + Len(ks) BY <1>11, <1>13, ConcatList
<1> DEFINE u == <<st>> \o x  v == <<st>> \o y  w == <<name>> \o ns
<1>15. TwinIndex(NoIndex, NoIndex, ok, n) BY NoIndexTwin
<1> HIDE DEF u, v, w
<1>16. Twin(Frame(w, u, n, NoIndex), Frame(w, v, n, NoIndex), ok)
  BY <1>9, <1>12, <1>14, <1>15, FrameTwin DEF u, v, w
<1>17. QED BY <1>6, <1>7, <1>16 DEF u, v, w

(* resample on the index, of twins. *)
LEMMA ResampleIndexTwin ==
  ASSUME NEW f, NEW g, NEW p, Twin(f, g, p), NEW rule, RuleOK(rule), ~Calendar(rule), ResampleIndexOK(f), NEW agg, NEW ok
  PROVE  Twin(ResampleIndex(f, rule, agg), ResampleIndex(g, rule, agg), ok)
<1> DEFINE a == f.ix.levels[1]  b == g.ix.levels[1]
           ks == RowsIn(Len(f.names), {k \in DOMAIN f.names : Numeric(f.cols[k])})
           n == Len(BucketRows(a, rule))
           st == BucketStarts(a, rule)
           x == Resampled(f, a, ks, rule, agg)
           y == Resampled(g, b, ks, rule, agg)
           s == f.names
           ns == [k \in DOMAIN ks |-> s[ks[k]]]
<1>1. TwinCol(a, b)
  <2> DEFINE cs == f.ix.levels  ds == g.ix.levels
  <2>1. cs # <<>> BY DEF ResampleIndexOK, IsSingle
  <2>2. TwinCols(cs, ds, p, f.nrows) /\ 1 \in 1..Len(cs) BY <2>1, TwinParts, IndexParts
  <2> HIDE DEF cs, ds
  <2>3. TwinCol(cs[1], ds[1]) BY <2>2, ColsOf
  <2>4. QED BY <2>3 DEF cs, ds
<1>2. a.cls = "DateTime" BY DEF ResampleIndexOK
<1>3. /\ RowsIn(Len(g.names), {k \in DOMAIN g.names : Numeric(g.cols[k])}) = ks
      /\ IsList(ks) /\ Len(ks) \in Nat /\ DOMAIN ks = 1..Len(ks)
      /\ \A k \in 1..Len(ks) : ks[k] \in 1..Len(f.cols) /\ Numeric(f.cols[ks[k]])
  <2>1. FALSE \in BOOLEAN OBVIOUS
  <2>2. LET r == RowsIn(Len(f.names), {k \in DOMAIN f.names : FALSE \/ Numeric(f.cols[k])})
        IN  /\ RowsIn(Len(g.names), {k \in DOMAIN g.names : FALSE \/ Numeric(g.cols[k])}) = r
            /\ IsList(r) /\ DOMAIN r = 1..Len(r) /\ Len(r) \in Nat
            /\ \A k \in 1..Len(r) : r[k] \in 1..Len(f.cols) /\ (FALSE \/ Numeric(f.cols[r[k]]))
    BY <2>1, ChosenSame
  <2>3. /\ {k \in DOMAIN f.names : FALSE \/ Numeric(f.cols[k])} = {k \in DOMAIN f.names : Numeric(f.cols[k])}
        /\ {k \in DOMAIN g.names : FALSE \/ Numeric(g.cols[k])} = {k \in DOMAIN g.names : Numeric(g.cols[k])}
    OBVIOUS
  <2>4. QED BY <2>2, <2>3
<1>4. g.names = s BY TwinParts
<1>5. /\ IsList(BucketRows(a, rule)) /\ BucketRows(b, rule) = BucketRows(a, rule)
      /\ BucketStarts(b, rule) = st /\ ColumnShape(st) /\ Length(st) = n BY <1>1, <1>2, BucketFacts
<1>6. ResampleIndex(f, rule, agg) = Frame(ns, x, n, Index(st, None)) BY Zenon DEF ResampleIndex
<1>7. ResampleIndex(g, rule, agg) = Frame(ns, y, n, Index(st, None))
  BY <1>3, <1>4, <1>5, Zenon DEF ResampleIndex
<1> HIDE DEF ks
<1>8. TwinCols(x, y, ok, n) /\ Len(x) = Len(ks)
  <2> DEFINE r == BucketRows(a, rule)
  <2>1. IsList(ks) /\ \A k \in 1..Len(ks) : ks[k] \in 1..Len(f.cols) /\ Numeric(f.cols[ks[k]]) BY <1>3
  <2> HIDE DEF a, b
  <2>2. TwinCols(x, y, ok, Len(r)) /\ Len(x) = Len(ks) BY <1>1, <1>2, <2>1, ResampledTwin
  <2>3. QED BY <2>2
<1> HIDE DEF a, b, n, st, x, y, s
<1>9. n \in Nat BY <1>5, ListElim DEF n
<1>10. TwinIndex(Index(st, None), Index(st, None), ok, n) BY <1>5, SelfTwin, OneIndexTwin
<1>13. IsList(ns) /\ Len(ns) = Len(ks) BY <1>3, ListIntro
<1> HIDE DEF ns
<1>16. Twin(Frame(ns, x, n, Index(st, None)), Frame(ns, y, n, Index(st, None)), ok)
  BY <1>8, <1>9, <1>10, <1>13, FrameTwin
<1>17. QED BY <1>6, <1>7, <1>16

(* A column of a frame's rolling windows is the same of twins. *)
LEMMA WindowColumnMade ==
  ASSUME NEW c, NEW d, TwinCol(c, d), NEW w, NEW mp, NEW center, NEW op
  PROVE  /\ WindowColumn(c, w, mp, center, op) = WindowColumn(d, w, mp, center, op)
         /\ ColumnShape(WindowColumn(c, w, mp, center, op)) /\ Length(WindowColumn(c, w, mp, center, op)) = Length(c)
<1> DEFINE n == Length(c)
           vs(e, i) == ValuesIn(e, WindowRows(i, n, w, center))
           cells(e) == [i \in 1..n |-> IF Len(vs(e, i)) < mp THEN None ELSE Aggregate(c.cls, vs(e, i), op)]
           cls == WindowClass(c, op)
<1>1. c.cls = d.cls /\ Length(d) = n /\ n \in Nat BY TwinReads
<1>2. \A i : IsList(WindowRows(i, n, w, center))
  <2> HIDE DEF n
  <2>1. QED BY <1>1, RowsInFacts DEF WindowRows
<1>3. \A i : vs(d, i) = vs(c, i) BY <1>2, ValuesInFacts
<1>4. cls # "DateTime" BY DEF WindowClass
<1>5. WindowClass(d, op) = cls BY <1>1 DEF WindowClass
<1>6. WindowColumn(c, w, mp, center, op) = Filled(cls, cells(c)) BY Zenon DEF WindowColumn
<1>7. WindowColumn(d, w, mp, center, op) = Filled(cls, cells(d)) BY <1>1, <1>5, Zenon DEF WindowColumn
<1> HIDE DEF vs, cls, n
<1>8. cells(d) = cells(c) BY <1>3
<1>9. IsList(cells(c)) /\ Len(cells(c)) = n BY <1>1, ListIntro
<1> HIDE DEF cells
<1>10. ColumnShape(Filled(cls, cells(c))) /\ Length(Filled(cls, cells(c))) = Len(cells(c))
  BY <1>4, <1>9, FilledMade
<1>11. QED BY <1>6, <1>7, <1>8, <1>9, <1>10 DEF n

(* rolling over a frame, of twins. *)
LEMMA RollingFrameTwin ==
  ASSUME NEW f, NEW g, NEW ok, Twin(f, g, ok), NEW w, NEW mp, NEW center, NEW op
  PROVE  Twin(RollingFrame(f, w, mp, center, op), RollingFrame(g, w, mp, center, op), ok)
<1> DEFINE all == op = "count"
           ks == RowsIn(Len(f.names), {k \in DOMAIN f.names : all \/ Numeric(f.cols[k])})
           m == Len(ks)  n == f.nrows  cs == f.cols  ds == g.cols  s == f.names
           ns == [k \in DOMAIN ks |-> s[ks[k]]]
           x == [k \in DOMAIN ks |-> WindowColumn(cs[ks[k]], w, mp, center, op)]
           y == [k \in DOMAIN ks |-> WindowColumn(ds[ks[k]], w, mp, center, op)]
<1>1. all \in BOOLEAN OBVIOUS
<1>2. /\ RowsIn(Len(g.names), {k \in DOMAIN g.names : all \/ Numeric(g.cols[k])}) = ks
      /\ IsList(ks) /\ DOMAIN ks = 1..m /\ m \in Nat
      /\ \A k \in 1..m : ks[k] \in 1..Len(cs)
  <2> HIDE DEF all
  <2>1. LET r == RowsIn(Len(f.names), {k \in DOMAIN f.names : all \/ Numeric(f.cols[k])})
        IN  /\ RowsIn(Len(g.names), {k \in DOMAIN g.names : all \/ Numeric(g.cols[k])}) = r
            /\ IsList(r) /\ DOMAIN r = 1..Len(r) /\ Len(r) \in Nat
            /\ \A k \in 1..Len(r) : r[k] \in 1..Len(f.cols) /\ (all \/ Numeric(f.cols[r[k]]))
    BY <1>1, ChosenSame
  <2>2. QED BY <2>1
<1>3. g.names = s /\ g.nrows = n /\ n \in Nat /\ TwinCols(cs, ds, ok, n) /\ TwinIndex(f.ix, g.ix, ok, n) BY TwinParts
<1>4. RollingFrame(f, w, mp, center, op) = Frame(ns, x, n, f.ix) BY Zenon DEF RollingFrame
<1>5. RollingFrame(g, w, mp, center, op) = Frame(ns, y, n, g.ix) BY <1>2, <1>3, Zenon DEF RollingFrame
<1> HIDE DEF ks, n, cs, ds, s, m
<1>6. ASSUME NEW k \in 1..m PROVE TwinCol(x[k], y[k]) /\ (ok => Length(x[k]) = n)
  <2> DEFINE c == cs[ks[k]]  d == ds[ks[k]]
  <2>1. x[k] = WindowColumn(c, w, mp, center, op) /\ y[k] = WindowColumn(d, w, mp, center, op) BY <1>2
  <2>2. TwinCol(c, d) /\ (ok => Length(c) = n) BY <1>2, <1>3, ColsOf
  <2> HIDE DEF c, d, x, y
  <2>3. /\ WindowColumn(c, w, mp, center, op) = WindowColumn(d, w, mp, center, op)
        /\ ColumnShape(WindowColumn(c, w, mp, center, op)) /\ Length(WindowColumn(c, w, mp, center, op)) = Length(c)
    BY <2>2, WindowColumnMade
  <2>4. QED BY <2>1, <2>2, <2>3, SelfTwin
<1>7. x = [k \in 1..m |-> x[k]] /\ y = [k \in 1..m |-> y[k]] BY <1>2
<1> HIDE DEF x, y
<1>8. TwinCols(x, y, ok, n) /\ Len(x) = m BY <1>2, <1>6, <1>7, ColsIntro
<1>9. IsList(ns) /\ Len(ns) = m BY <1>2, ListIntro
<1> HIDE DEF ns
<1>10. Twin(Frame(ns, x, n, f.ix), Frame(ns, y, n, g.ix), ok) BY <1>3, <1>8, <1>9, FrameTwin
<1>11. QED BY <1>4, <1>5, <1>10

------------------------------------------------------------------------------
(* Running aggregates and categories. *)

(* The rolling aggregates of a column are the same of twins. *)
LEMMA RollingMade ==
  ASSUME NEW c, NEW d, TwinCol(c, d), NEW w \in Nat, NEW op, AggClass(c.cls, op) # "DateTime"
  PROVE  /\ Rolling(c, w, op) = Rolling(d, w, op)
         /\ ColumnShape(Rolling(c, w, op)) /\ Length(Rolling(c, w, op)) = Length(c)
<1> DEFINE n == Length(c)
           window(i) == [k \in 1..w |-> i - w + k]
           full(e, i) == i >= w /\ \A k \in 1..w : ~e.nulls[i - w + k]
           cells(e) == [i \in 1..n |-> IF full(e, i) THEN AggregateSubset(e, window(i), op) ELSE None]
           cls == AggClass(c.cls, op)
<1>1. c.cls = d.cls /\ Length(d) = n /\ n \in Nat /\ c.nulls = d.nulls BY TwinReads
<1>2. \A i : full(d, i) <=> full(c, i) BY <1>1
<1>3. ASSUME NEW i PROVE AggregateSubset(d, window(i), op) = AggregateSubset(c, window(i), op)
  <2> DEFINE r == window(i)
  <2>1. IsList(r) BY ListIntro
  <2> HIDE DEF r
  <2>2. AggregateSubset(d, r, op) = AggregateSubset(c, r, op) BY <2>1, SubsetSame
  <2>3. QED BY <2>2 DEF r
<1>4. Rolling(c, w, op) = Filled(cls, cells(c)) BY Zenon DEF Rolling
<1>5. Rolling(d, w, op) = Filled(cls, cells(d)) BY <1>1, Zenon DEF Rolling
<1> HIDE DEF window, full, n
<1>6. cells(d) = cells(c) BY <1>2, <1>3
<1>7. IsList(cells(c)) /\ Len(cells(c)) = n BY <1>1, ListIntro
<1> HIDE DEF cells
<1>8. cls # "DateTime" OBVIOUS
<1> HIDE DEF cls
<1>9. ColumnShape(Filled(cls, cells(c))) /\ Length(Filled(cls, cells(c))) = Len(cells(c)) BY <1>7, <1>8, FilledMade
<1>10. QED BY <1>4, <1>5, <1>6, <1>7, <1>9 DEF n

(* The running aggregates of a column are the same of twins. *)
LEMMA CumulativeMade ==
  ASSUME NEW c, NEW d, TwinCol(c, d), NEW op, c.cls # "DateTime"
  PROVE  /\ Cumulative(c, op) = Cumulative(d, op)
         /\ ColumnShape(Cumulative(c, op)) /\ Length(Cumulative(c, op)) = Length(c)
<1> DEFINE n == Length(c)  vs == NonNullValues(c)
           full(e, i) == \A j \in 1..i : ~e.nulls[j]
           cells(e) == [i \in 1..n |-> IF full(e, i) THEN Aggregate(c.cls, SubSeq(vs, 1, i), op) ELSE None]
<1>1. c.cls = d.cls /\ Length(d) = n /\ n \in Nat /\ c.nulls = d.nulls BY TwinReads
<1>2. \A i : full(d, i) <=> full(c, i) BY <1>1
<1>3. NonNullValues(d) = vs BY NonNullValuesSame
<1>4. Cumulative(c, op) = Filled(c.cls, cells(c)) BY Zenon DEF Cumulative
<1>5. Cumulative(d, op) = Filled(c.cls, cells(d)) BY <1>1, <1>3, Zenon DEF Cumulative
<1> HIDE DEF full, n, vs
<1>6. cells(d) = cells(c) BY <1>2
<1>7. IsList(cells(c)) /\ Len(cells(c)) = n BY <1>1, ListIntro
<1> HIDE DEF cells
<1> DEFINE cls == c.cls
<1>8. cls # "DateTime" OBVIOUS
<1> HIDE DEF cls
<1>9. ColumnShape(Filled(cls, cells(c))) /\ Length(Filled(cls, cells(c))) = Len(cells(c)) BY <1>7, <1>8, FilledMade
<1>10. QED BY <1>4, <1>5, <1>6, <1>7, <1>9 DEF n, cls

(* The session's frame of running and rolling aggregates. *)
LEMMA RunningTwin ==
  ASSUME NEW f, NEW g, NEW p, Twin(f, g, p), NEW name, HasColumn(f, name), ColumnOf(f, name).cls = "I64", NEW ok
  PROVE  Twin(FromColumns(<<"x", "r">>, <<Cumulative(ColumnOf(f, name), "sum"), Rolling(ColumnOf(f, name), 2, "mean")>>),
              FromColumns(<<"x", "r">>, <<Cumulative(ColumnOf(g, name), "sum"), Rolling(ColumnOf(g, name), 2, "mean")>>), ok)
<1> DEFINE c == ColumnOf(f, name)  d == ColumnOf(g, name)
<1>1. TwinCol(c, d) BY ColumnOfTwin
<1>2. c.cls # "DateTime" /\ AggClass(c.cls, "mean") # "DateTime" BY DEF AggClass
<1> HIDE DEF c, d
<1> DEFINE x == Cumulative(c, "sum")  y == Rolling(c, 2, "mean")
<1>3. Cumulative(d, "sum") = x /\ ColumnShape(x) /\ Length(x) = Length(c) BY <1>1, <1>2, CumulativeMade
<1>4. Rolling(d, 2, "mean") = y /\ ColumnShape(y) /\ Length(y) = Length(c) BY <1>1, <1>2, RollingMade
<1> HIDE DEF x, y
<1>5. TwinCol(x, x) /\ TwinCol(y, y) BY <1>3, <1>4, SelfTwin
<1>6. Twin(FromColumns(<<"x", "r">>, <<x, y>>), FromColumns(<<"x", "r">>, <<x, y>>), ok)
  BY <1>3, <1>4, <1>5, TwoColumnsTwin
<1>7. QED BY <1>3, <1>4, <1>6 DEF c, d, x, y

(* The session's frame of a column's categories as strings. *)
LEMMA UncategorisedTwin ==
  ASSUME NEW f, NEW g, NEW p, Twin(f, g, p), NEW name, HasColumn(f, name), NEW ok
  PROVE  Twin(FromColumns(<<"k">>, <<CatToStrings(ColumnOf(f, name))>>),
              FromColumns(<<"k">>, <<CatToStrings(ColumnOf(g, name))>>), ok)
<1> DEFINE c == ColumnOf(f, name)  d == ColumnOf(g, name)  n == Length(c)
           cells(e) == [i \in 1..n |-> Get(e, i)]
<1>1. TwinCol(c, d) BY ColumnOfTwin
<1> HIDE DEF c, d
<1>2. Length(d) = n /\ n \in Nat BY <1>1, TwinReads
<1>3. \A i : Get(c, i) = Get(d, i) BY <1>1, TwinGet
<1>4. CatToStrings(c) = Filled("Str", cells(c)) BY DEF CatToStrings
<1>5. CatToStrings(d) = Filled("Str", cells(c)) BY <1>2, <1>3 DEF CatToStrings
<1> HIDE DEF n
<1>6. IsList(cells(c)) BY <1>2, ListIntro
<1> HIDE DEF cells
<1> DEFINE x == Filled("Str", cells(c))
<1>7. ColumnShape(x) BY <1>6, FilledMade
<1> HIDE DEF x
<1>8. TwinCol(x, x) BY <1>7, SelfTwin
<1>9. Twin(FromColumns(<<"k">>, <<x>>), FromColumns(<<"k">>, <<x>>), ok) BY <1>8, OneColumnTwin
<1>10. QED BY <1>4, <1>5, <1>9 DEF c, d, x

(* The values of a column that are met first are the same of twins. *)
LEMMA UniqueFacts ==
  ASSUME NEW c, NEW d, TwinCol(c, d)
  PROVE  Unique(c) = Unique(d) /\ IsList(Unique(c).vals)
<1> DEFINE n == Length(c)
           new(e, i) == ~e.nulls[i] /\ \A j \in 1..(i - 1) : e.nulls[j] \/ ValueAt(e, j) # ValueAt(e, i)
           S(e) == {i \in 1..n : new(e, i)}
           r == RowsIn(n, S(c))
           vals(e) == [k \in DOMAIN r |-> ValueAt(e, r[k])]
<1>1. c.cls = d.cls /\ Length(d) = n /\ n \in Nat /\ c.nulls = d.nulls BY TwinReads
<1>2. \A i \in 1..n : ~c.nulls[i] => ValueAt(c, i) = ValueAt(d, i)
  <2>1. \A i \in 1..n : NullAt(c, i) <=> c.nulls[i] BY ShapeOf, NullsOf
  <2>2. QED BY <2>1, TwinReads
<1>3. ASSUME NEW i \in 1..n PROVE new(c, i) <=> new(d, i)
  <2>1. \A j \in 1..(i - 1) : j \in 1..n BY <1>1
  <2>2. CASE c.nulls[i] BY <1>1, <2>2
  <2>3. CASE ~c.nulls[i]
    <3>1. \A j \in 1..(i - 1) : (c.nulls[j] \/ ValueAt(c, j) # ValueAt(c, i)) <=> (d.nulls[j] \/ ValueAt(d, j) # ValueAt(d, i))
      BY <1>1, <1>2, <2>1, <2>3
    <3>2. QED BY <1>1, <3>1
  <2>4. QED BY <2>2, <2>3
<1>4. S(d) = S(c) BY <1>3
<1>5. IsList(r) /\ DOMAIN r = 1..Len(r) /\ Len(r) \in Nat /\ \A k \in 1..Len(r) : r[k] \in 1..n /\ r[k] \in S(c)
  <2> HIDE DEF n, S
  <2>1. QED BY <1>1, RowsInEntries
<1>6. \A i \in S(c) : ~c.nulls[i] OBVIOUS
<1>7. Unique(c) = Whole(c.cls, vals(c)) BY Zenon DEF Unique
<1>8. Unique(d) = Whole(c.cls, vals(d))
  <2>1. Unique(d) = Whole(c.cls, [k \in DOMAIN RowsIn(n, S(d)) |-> ValueAt(d, RowsIn(n, S(d))[k])]) BY <1>1, Zenon DEF Unique
  <2> HIDE DEF S
  <2>2. QED BY <1>4, <2>1
<1> HIDE DEF n, S, r, new
<1>9. vals(d) = vals(c) BY <1>2, <1>5, <1>6
<1>10. IsList(vals(c)) BY <1>5, ListIntro
<1>11. Whole(c.cls, vals(c)).vals = vals(c) BY DEF Whole, Column
<1>12. QED BY <1>7, <1>8, <1>9, <1>10, <1>11

(* The session's frame of strings made categorical: the categories are *)
(* taken of the cells that are not null.                               *)
LEMMA CategorisedTwin ==
  ASSUME NEW f, NEW g, NEW p, Twin(f, g, p), NEW name, HasColumn(f, name), ColumnOf(f, name).cls = "Str", NEW ok
  PROVE  LET made(h) == FromColumns(<<"c">>, <<CatOf([i \in 1..Length(ColumnOf(h, name)) |-> ValueAt(ColumnOf(h, name), i)],
                                                     ColumnOf(h, name).nulls)>>)
         IN  Twin(made(f), made(g), ok)
<1> DEFINE c == ColumnOf(f, name)  d == ColumnOf(g, name)  n == Length(c)
           v == [i \in 1..n |-> ValueAt(c, i)]
           w == [i \in 1..n |-> ValueAt(d, i)]
           nulls == c.nulls
<1>1. TwinCol(c, d) BY ColumnOfTwin
<1> HIDE DEF c, d
<1>2. Length(d) = n /\ n \in Nat /\ d.nulls = nulls BY <1>1, TwinReads
<1>3. ColumnShape(c) BY <1>1, ShapeOf
<1>4. IsList(nulls) /\ Len(nulls) = n BY <1>3 DEF ColumnShape, Length
<1>5. \A i \in 1..n : ~nulls[i] => v[i] = w[i]
  <2>1. \A i \in 1..n : NullAt(c, i) <=> nulls[i] BY <1>3, NullsOf
  <2>2. QED BY <1>1, <2>1, TwinReads
<1> HIDE DEF n
<1>6. IsList(v) /\ Len(v) = n /\ IsList(w) /\ Len(w) = n /\ DOMAIN v = 1..n /\ DOMAIN w = 1..n BY <1>2, ListIntro
<1> HIDE DEF v, w, nulls
<1>7. TwinCol(Column("Str", v, nulls), Column("Str", w, nulls))
  <2>1. Times("Str", v) /\ Times("Str", w) BY DEF Times
  <2>2. QED BY <1>4, <1>5, <1>6, <2>1, ColumnTwin
<1> DEFINE cats == Unique(Column("Str", v, nulls)).vals
           codes(s) == [i \in DOMAIN s |-> IF nulls[i] THEN 0 ELSE Position(cats, s[i]) - 1]
<1>8. Unique(Column("Str", w, nulls)) = Unique(Column("Str", v, nulls)) /\ IsList(cats) BY <1>7, UniqueFacts
<1>9. CatOf(v, nulls) = Categorical(codes(v), nulls, cats) BY Zenon DEF CatOf
<1>10. CatOf(w, nulls) = Categorical(codes(w), nulls, cats) BY <1>8, Zenon DEF CatOf
<1> HIDE DEF cats
<1>11. codes(w) = codes(v) BY <1>5, <1>6
<1>12. IsList(codes(v)) /\ Len(codes(v)) = n BY <1>2, <1>6, ListIntro
<1> HIDE DEF codes
<1> DEFINE x == Categorical(codes(v), nulls, cats)
<1>13. ColumnShape(x) BY <1>4, <1>8, <1>12, CategoricalMade
<1> HIDE DEF x
<1>14. TwinCol(x, x) BY <1>13, SelfTwin
<1>15. Twin(FromColumns(<<"c">>, <<x>>), FromColumns(<<"c">>, <<x>>), ok) BY <1>14, OneColumnTwin
<1>16. CatOf(v, nulls) = x /\ CatOf(w, nulls) = x BY <1>9, <1>10, <1>11 DEF x
<1> DEFINE made(h) == FromColumns(<<"c">>, <<CatOf([i \in 1..Length(ColumnOf(h, name)) |-> ValueAt(ColumnOf(h, name), i)],
                                                     ColumnOf(h, name).nulls)>>)
<1>17. made(f) = FromColumns(<<"c">>, <<CatOf(v, nulls)>>) BY DEF c, v, nulls, n
<1>18. made(g) = FromColumns(<<"c">>, <<CatOf(w, nulls)>>) BY <1>2 DEF d, w
<1> HIDE DEF made
<1>19. Twin(made(f), made(g), ok) BY <1>15, <1>16, <1>17, <1>18
<1>20. QED BY <1>19 DEF made

------------------------------------------------------------------------------
(* Files. *)

(* The file written of twins is the same, and so is the schema. *)
LEMMA WriteSame ==
  ASSUME NEW f, NEW g, NEW p, Twin(f, g, p)
  PROVE  WriteCsv(f) = WriteCsv(g) /\ Schema(f) = Schema(g)
<1> DEFINE n == f.nrows  m == Len(f.cols)  cs == f.cols  ds == g.cols
           row(h, i) == [k \in DOMAIN h.cols |-> CellOut(h.cols[k], i)]
<1>1. /\ f.names = g.names /\ DOMAIN f.names = 1..m /\ g.nrows = n /\ TwinCols(cs, ds, p, n)
      /\ DOMAIN cs = 1..m /\ DOMAIN ds = 1..m BY TwinParts
<1>2. \A k \in 1..m : TwinCol(cs[k], ds[k]) BY <1>1, ColsOf
<1>3. \A k \in 1..m : cs[k].cls = ds[k].cls BY <1>2, TwinReads
<1>4. Schema(f) = Schema(g) BY <1>1, <1>3 DEF Schema
<1>5. \A i : \A k \in 1..m : CellOut(cs[k], i) = CellOut(ds[k], i) BY <1>2, TextsSame
<1>6. \A i : row(f, i) = row(g, i)
  <2> HIDE DEF m
  <2>1. QED BY <1>1, <1>5
<1>7. Stringify(f) = [i \in 1..n |-> row(f, i)] BY DEF Stringify
<1>8. Stringify(g) = [i \in 1..n |-> row(g, i)] BY <1>1 DEF Stringify
<1> HIDE DEF row
<1>9. Stringify(f) = Stringify(g) BY <1>6, <1>7, <1>8
<1> DEFINE s == Stringify(f)
           out == [i \in 1..n |-> [k \in 1..m |-> IF s[i][k] = "null" THEN "" ELSE s[i][k]]]
<1>10. WriteCsv(f) = [header |-> f.names, rows |-> out] BY <1>1, Zenon DEF WriteCsv
<1>11. WriteCsv(g) = [header |-> f.names, rows |-> out] BY <1>1, <1>9, Zenon DEF WriteCsv
<1>12. QED BY <1>4, <1>10, <1>11

(* A time that is read of a text is a number. *)
LEMMA ReadInt ==   \* a time that is read is a number
  ASSUME NEW text, Readings("DateTime", text) # {}
  PROVE  (CHOOSE v \in Readings("DateTime", text) : TRUE) \in Int
<1>1. Values("DateTime") = Numbers BY DEF Values
<1>2. Readings("DateTime", text) \subseteq Int BY <1>1, NotebookAssumption DEF Readings
<1>3. (CHOOSE v \in Readings("DateTime", text) : TRUE) \in Readings("DateTime", text) OBVIOUS
<1>4. QED BY <1>2, <1>3

(* A frame read of rows by a schema has the shape of a frame, and is even. *)
LEMMA FromRowsMade ==
  ASSUME NEW rows, IsList(rows), NEW schema, IsList(schema), FromRowsOK(rows, schema), NEW ok
  PROVE  Twin(FromRows(rows, schema), FromRows(rows, schema), ok)
<1> DEFINE read(cls, text) == IF text = "" THEN None ELSE CHOOSE v \in Readings(cls, text) : TRUE
           n == Len(rows)  m == Len(schema)
           cells(k) == [r \in DOMAIN rows |-> read(schema[k][2], rows[r][k])]
           x == [k \in DOMAIN schema |-> Filled(schema[k][2], cells(k))]
           names == [k \in DOMAIN schema |-> schema[k][1]]
<1>1. FromRows(rows, schema) = Frame(names, x, n, NoIndex) BY Zenon DEF FromRows
<1>2. n \in Nat /\ m \in Nat /\ DOMAIN rows = 1..n /\ DOMAIN schema = 1..m BY ListElim
<1>3. IsList(names) /\ Len(names) = m BY <1>2, ListIntro
<1>4. ASSUME NEW k \in 1..m PROVE ColumnShape(x[k]) /\ (ok => Length(x[k]) = n)
  <2> DEFINE cls == schema[k][2]  s == cells(k)
  <2>1. x[k] = Filled(cls, s) BY <1>2
  <2>2. s = [r \in 1..n |-> s[r]] BY <1>2
  <2>3. ASSUME cls = "DateTime", NEW r \in 1..n PROVE s[r] = None \/ s[r] \in Int
    <3> DEFINE text == rows[r][k]
    <3>1. text # "" => Readings("DateTime", text) # {} BY <1>2, <2>3 DEF FromRowsOK
    <3>2. s[r] = IF text = "" THEN None ELSE CHOOSE v \in Readings("DateTime", text) : TRUE BY <1>2, <2>3
    <3> HIDE DEF text, s
    <3>3. QED BY <3>1, <3>2, ReadInt
  <2> HIDE DEF s, cls, x, n
  <2>4. IsList(s) /\ Len(s) = n BY <1>2, <2>2, ListIntro
  <2>5. ColumnShape(Filled(cls, s)) /\ Length(Filled(cls, s)) = Len(s) BY <2>3, <2>4, FilledMade
  <2>6. QED BY <2>1, <2>4, <2>5
<1>5. x = [k \in 1..m |-> x[k]] BY <1>2
<1> HIDE DEF x, names, n, m
<1>6. TwinCols(x, x, ok, n) /\ Len(x) = m BY <1>2, <1>4, <1>5, SelfCols
<1>7. TwinIndex(NoIndex, NoIndex, ok, n) BY NoIndexTwin
<1>8. Twin(Frame(names, x, n, NoIndex), Frame(names, x, n, NoIndex), ok) BY <1>2, <1>3, <1>6, <1>7, FrameTwin
<1>9. QED BY <1>1, <1>8

(* The frames read back of the files of twins. *)
LEMMA ReadBackTwin ==
  ASSUME NEW f, NEW g, NEW p, Twin(f, g, p), ReadCsvOK(WriteCsv(f), Schema(f)), NEW ok
  PROVE  Twin(ReadCsv(WriteCsv(f), Schema(f)), ReadCsv(WriteCsv(g), Schema(g)), ok)
<1> DEFINE file == WriteCsv(f)  schema == Schema(f)  rows == file.rows
           n == f.nrows
<1>1. WriteCsv(g) = file /\ Schema(g) = schema BY WriteSame
<1>2. ReadCsv(file, schema) = FromRows(rows, schema) BY DEF ReadCsv
<1>3. FromRowsOK(rows, schema) BY DEF ReadCsvOK
<1>4. n \in Nat /\ DOMAIN f.names = 1..Len(f.cols) /\ IsList(f.names) BY TwinParts
<1>5. IsList(rows)
  <2> DEFINE line(i) == [k \in DOMAIN f.cols |-> IF Stringify(f)[i][k] = "null" THEN "" ELSE Stringify(f)[i][k]]
  <2>1. rows = [i \in 1..n |-> line(i)] BY DEF WriteCsv
  <2> HIDE DEF line, rows, n
  <2>2. rows = [i \in 1..n |-> rows[i]] BY <2>1
  <2>3. QED BY <1>4, <2>2, ListIntro
<1>6. IsList(schema)
  <2> DEFINE s == f.names  entry(k) == <<s[k], f.cols[k].cls>>
  <2>1. schema = [k \in DOMAIN s |-> entry(k)] BY DEF Schema
  <2> HIDE DEF entry, schema, s
  <2>2. schema = [k \in DOMAIN s |-> schema[k]] BY <2>1
  <2>3. QED BY <1>4, <2>2, MapLen DEF s
<1> HIDE DEF file, schema, rows
<1>7. Twin(FromRows(rows, schema), FromRows(rows, schema), ok) BY <1>3, <1>5, <1>6, FromRowsMade
<1>8. QED BY <1>1, <1>2, <1>7 DEF file, schema
=============================================================================
