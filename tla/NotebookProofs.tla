--------------------------- MODULE NotebookProofs ---------------------------
(***************************************************************************)
(* Proofs about programs at work on data frames (module Notebook), for any *)
(* frames to start from, of any size, and any number of calls.             *)
(*                                                                         *)
(* That the two copies hold twins (module FrameProofs) is the inductive    *)
(* invariant TwinsInv: it gives that frames stay well formed, and that     *)
(* what lies under null cells is never seen.  RowsInv adds that, while     *)
(* calls only move cells, the rows are those of the first frame.  From the *)
(* shape that twins have follow the agreement of the implementations of a  *)
(* window, the partition of the rows by group_by, what each join returns,  *)
(* and, with the lengths of the months and years of the calendar, the      *)
(* partition of the rows by the buckets of resample.                       *)
(***************************************************************************)
EXTENDS FrameProofs, FiniteSetTheorems

------------------------------------------------------------------------------
(* The copies, step by step. *)

(* A column and the column with another value under each null cell are *)
(* twins.                                                              *)
LEMMA HideInTwin ==
  ASSUME NEW c, ColumnShape(c)
  PROVE  TwinCol(c, HideIn(c))
<1> DEFINE s == c.vals  hidden(i) == IF NullAt(c, i) THEN Other(c.cls) ELSE s[i]
           w == [i \in DOMAIN s |-> hidden(i)]
           d == HideIn(c)
<1>1. d = [cls |-> c.cls, nulls |-> c.nulls, cats |-> c.cats, vals |-> w] BY DEF HideIn
<1>2. d.cls = c.cls /\ d.nulls = c.nulls /\ d.cats = c.cats /\ d.vals = w BY <1>1
<1>3. IsList(s) BY DEF ColumnShape
<1>4. DOMAIN s = 1..Len(s) /\ Len(s) \in Nat BY <1>3, ListElim
<1>5. IsList(w) /\ Len(w) = Len(s) /\ DOMAIN w = 1..Len(s)
  <2> HIDE DEF hidden, s
  <2>1. QED BY <1>4, ListIntro
<1>6. Times(c.cls, w)
  <2>1. c.cls = "DateTime" => Other(c.cls) \in Int BY DEF Other
  <2>2. Times(c.cls, s) BY DEF ColumnShape
  <2>3. QED BY <2>1, <2>2 DEF Times
<1>7. s = <<>> => w = <<>>
  <2> HIDE DEF hidden, s, w
  <2>1. QED BY <1>3, <1>5, EmptyIff
<1>8. ColumnShape(d) BY <1>2, <1>5, <1>6, <1>7 DEF ColumnShape
<1>9. \A i \in 1..Len(s) : ~NullAt(c, i) => s[i] = w[i] BY <1>4
<1> HIDE DEF s, w, d
<1>10. QED BY <1>2, <1>5, <1>8, <1>9 DEF TwinCol, d, s

(* The columns of a frame, and the same columns hidden so. *)
LEMMA HideColsTwin ==
  ASSUME NEW cs, IsList(cs), \A k \in DOMAIN cs : ColumnShape(cs[k]), NEW n, AllLong(cs, n)
  PROVE  TwinCols(cs, [k \in DOMAIN cs |-> HideIn(cs[k])], TRUE, n)
<1> DEFINE m == Len(cs)  ds == [k \in DOMAIN cs |-> HideIn(cs[k])]
<1>1. m \in Nat /\ DOMAIN cs = 1..m /\ cs = [k \in 1..m |-> cs[k]] BY ListElim
<1>2. ds = [k \in 1..m |-> HideIn(cs[k])] BY <1>1
<1> HIDE DEF m, ds
<1>3. ds = [k \in 1..m |-> ds[k]] BY <1>2
<1>4. ASSUME NEW k \in 1..m PROVE TwinCol(cs[k], ds[k]) /\ Length(cs[k]) = n
  <2> DEFINE c == cs[k]
  <2>1. ColumnShape(c) /\ Length(c) = n BY <1>1 DEF AllLong
  <2>2. ds[k] = HideIn(c) BY <1>2
  <2> HIDE DEF c
  <2>3. QED BY <2>1, <2>2, HideInTwin DEF c
<1>1a. IsList(ds) /\ Len(ds) = m /\ Len(cs) = m BY <1>1, <1>3, ListIntro
<1>5. TwinCols(cs, ds, TRUE, n) BY <1>1a, <1>4 DEF TwinCols
<1>6. QED BY <1>5 DEF ds

(* The two frames that a session starts with are twins, and even. *)
LEMMA HideTwin ==
  ASSUME NEW f, FrameShape(f), Even(f)
  PROVE  Twin(f, Hide(f), TRUE)
<1> DEFINE n == f.nrows  cs == f.cols  ls == f.ix.levels  g == Hide(f)  ix == f.ix
           ds == [k \in DOMAIN cs |-> HideIn(cs[k])]
           ms == [k \in DOMAIN ls |-> HideIn(ls[k])]
<1>1. g.names = f.names /\ g.nrows = n /\ g.cols = ds /\ g.ix = WithLevels(ix, ms) BY DEF Hide, Frame
<1>2. g.ix.levels = ms /\ g.ix.names = ix.names /\ g.ix.multi = ix.multi BY <1>1 DEF WithLevels
<1>3. /\ IsList(f.names) /\ IsList(cs) /\ Len(f.names) = Len(cs) /\ n \in Nat
      /\ \A k \in DOMAIN cs : ColumnShape(cs[k]) BY DEF FrameShape
<1>4. /\ IsList(ls) /\ \A k \in DOMAIN ls : ColumnShape(ls[k])
      /\ IsList(ix.names) /\ Len(ix.names) = Len(ls)
      /\ ix.multi \in BOOLEAN
      /\ ix.multi => ls # <<>>
      /\ ~ix.multi => Len(ls) <= 1 BY DEF FrameShape, IndexShape
<1>5. AllLong(cs, n) /\ AllLong(ls, n) BY DEF Even
<1> HIDE DEF cs, ls, n
<1>6. TwinCols(cs, ds, TRUE, n) /\ TwinCols(ls, ms, TRUE, n) BY <1>3, <1>4, <1>5, HideColsTwin
<1> HIDE DEF ds, ms, g, ix
<1>7. TwinIndex(ix, g.ix, TRUE, n) BY <1>2, <1>4, <1>6 DEF TwinIndex, ls, ix
<1>8. Twin(f, g, TRUE) BY <1>1, <1>3, <1>6, <1>7 DEF Twin, cs, n, ix
<1>9. QED BY <1>8 DEF g

------------------------------------------------------------------------------

(* The inductive invariant: the frames of the two copies, the one at hand *)
(* and the one kept aside, are twins, and even unless a concatenation of  *)
(* frames with no columns was called.                                     *)
TwinsInv == Twin(df[1], df[2], counted) /\ Twin(named[1], named[2], counted)

(* The copies start with twins. *)
LEMMA InitTwins == Init => TwinsInv
<1> SUFFICES ASSUME Init PROVE TwinsInv OBVIOUS
<1>1. PICK f \in Starts : df = Pair(f) BY DEF Init
<1>2. PICK g \in Companions : named = Pair(g) BY DEF Init
<1>3. counted = TRUE BY DEF Init
<1>4. df[1] = f /\ df[2] = Hide(f) /\ named[1] = g /\ named[2] = Hide(g) BY <1>1, <1>2 DEF Pair, Copies
<1>5. FrameShape(f) /\ Even(f) /\ FrameShape(g) /\ Even(g) BY NotebookAssumption
<1>6. Twin(f, Hide(f), TRUE) /\ Twin(g, Hide(g), TRUE) BY <1>5, HideTwin
<1>7. QED BY <1>3, <1>4, <1>6 DEF TwinsInv

(* A call that answers twins of twins keeps the invariant. *)
LEMMA CallTwins ==
  ASSUME TwinsInv, NEW ok, Twin(df'[1], df'[2], ok), counted' => ok, counted' => counted, named' = named
  PROVE  TwinsInv'
<1> DEFINE x == df'[1]  y == df'[2]  u == named[1]  v == named[2]  c == counted'  b == counted
<1>1. Twin(u, v, b) BY DEF TwinsInv
<1>2. Twin(x, y, ok) /\ (c => ok) /\ (c => b) OBVIOUS
<1>3. named'[1] = u /\ named'[2] = v OBVIOUS
<1> HIDE DEF x, y, u, v, c, b
<1>4. Twin(x, y, c) BY <1>2, TwinWeaken
<1>5. Twin(u, v, c) BY <1>1, <1>2, TwinWeaken
<1>6. QED BY <1>3, <1>4, <1>5 DEF TwinsInv, x, y, c

(* The names of the session's columns of a class are names of columns. *)
LEMMA OfNames ==
  ASSUME NEW cls, NEW n \in Of(cls)
  PROVE  HasColumn(df[1], n) /\ ColumnOf(df[1], n).cls \in cls
BY DEF Of, Names, f1, HasColumn

(* A step of filter keeps the frames of the two copies twins. *)
LEMMA FilterTwins == ASSUME TwinsInv, FilterRows PROVE TwinsInv'
<1>1. PICK n \in Of(Ordered), how \in {"lt", "not", "or", "and"} :
        FilterOK(f1, MaskOf(f1, n, how)) /\ Move(LAMBDA f : Filter(f, MaskOf(f, n, how))) BY DEF FilterRows
<1>2. /\ df' = [r \in Copies |-> Filter(df[r], MaskOf(df[r], n, how))]
      /\ named' = named /\ counted' = (counted /\ TRUE) BY <1>1 DEF Move, Call
<1> DEFINE f == df[1]  g == df[2]  mask == MaskOf(f, n, how)
<1>3. HasColumn(f, n) BY OfNames
<1>4. Twin(f, g, counted) BY DEF TwinsInv
<1>5. df'[1] = Filter(f, mask) /\ df'[2] = Filter(g, MaskOf(g, n, how)) BY <1>2 DEF Copies
<1>6. Length(mask) = f.nrows BY <1>1 DEF FilterOK, f1
<1> HIDE DEF f, g
<1>7. MaskOf(g, n, how) = mask BY <1>3, <1>4, MaskOfSame
<1> HIDE DEF mask
<1>8. Twin(Filter(f, mask), Filter(g, mask), counted) BY <1>4, <1>6, FilterTwin
<1>9. QED BY <1>2, <1>5, <1>7, <1>8, CallTwins

(* A step of head, tail and iloc keeps the frames of the two copies twins. *)
LEMMA SliceTwins == ASSUME TwinsInv, SliceRows PROVE TwinsInv'
<1> DEFINE f == df[1]  g == df[2]
<1>1. Twin(f, g, counted) BY DEF TwinsInv
<1>2. CASE Move(LAMBDA h : HeadRows(h, 2))
  <2>1. df'[1] = HeadRows(f, 2) /\ df'[2] = HeadRows(g, 2) /\ named' = named /\ counted' = (counted /\ TRUE)
    BY <1>2 DEF Move, Call, Copies
  <2>2. Twin(HeadRows(f, 2), HeadRows(g, 2), counted) BY <1>1, HeadTwin
  <2>3. QED BY <2>1, <2>2, CallTwins
<1>3. CASE Move(LAMBDA h : TailRows(h, 2))
  <2>1. df'[1] = TailRows(f, 2) /\ df'[2] = TailRows(g, 2) /\ named' = named /\ counted' = (counted /\ TRUE)
    BY <1>3 DEF Move, Call, Copies
  <2>2. Twin(TailRows(f, 2), TailRows(g, 2), counted) BY <1>1, TailTwin
  <2>3. QED BY <2>1, <2>2, CallTwins
<1>4. CASE Move(LAMBDA h : ILoc(h, -2, 9))
  <2>1. df'[1] = ILoc(f, -2, 9) /\ df'[2] = ILoc(g, -2, 9) /\ named' = named /\ counted' = (counted /\ TRUE)
    BY <1>4 DEF Move, Call, Copies
  <2>2. Twin(ILoc(f, -2, 9), ILoc(g, -2, 9), counted) BY <1>1, ILocTwin
  <2>3. QED BY <2>1, <2>2, CallTwins
<1>5. CASE Move(LAMBDA h : ILoc2D(h, 1, 9, 0, -1))
  <2>1. /\ df'[1] = ILoc2D(f, 1, 9, 0, -1) /\ df'[2] = ILoc2D(g, 1, 9, 0, -1)
        /\ named' = named /\ counted' = (counted /\ TRUE) BY <1>5 DEF Move, Call, Copies
  <2>2. Twin(ILoc2D(f, 1, 9, 0, -1), ILoc2D(g, 1, 9, 0, -1), counted) BY <1>1, ILoc2DTwin
  <2>3. QED BY <2>1, <2>2, CallTwins
<1>6. QED BY <1>2, <1>3, <1>4, <1>5 DEF SliceRows

(* A step of dropna keeps the frames of the two copies twins. *)
LEMMA DropRowsTwins == ASSUME TwinsInv, DropRows PROVE TwinsInv'
<1> DEFINE f == df[1]  g == df[2]
<1>1. Twin(f, g, counted) BY DEF TwinsInv
<1>2. CASE Move(LAMBDA h : DropNa(h, ToSet(h.names)))
  <2>1. /\ df'[1] = DropNa(f, ToSet(f.names)) /\ df'[2] = DropNa(g, ToSet(g.names))
        /\ named' = named /\ counted' = (counted /\ TRUE) BY <1>2 DEF Move, Call, Copies
  <2> HIDE DEF f, g
  <2>2. g.names = f.names BY <1>1, TwinParts
  <2> DEFINE names == ToSet(f.names)
  <2> HIDE DEF names
  <2>3. Twin(DropNa(f, names), DropNa(g, names), counted) BY <1>1, DropNaTwin
  <2>4. df'[1] = DropNa(f, names) /\ df'[2] = DropNa(g, names) BY <2>1, <2>2 DEF names
  <2>5. QED BY <2>1, <2>3, <2>4, CallTwins
<1>3. CASE \E n \in Names : Move(LAMBDA h : DropNa(h, {n}))
  <2>1. PICK n \in Names : Move(LAMBDA h : DropNa(h, {n})) BY <1>3
  <2>2. df'[1] = DropNa(f, {n}) /\ df'[2] = DropNa(g, {n}) /\ named' = named /\ counted' = (counted /\ TRUE)
    BY <2>1 DEF Move, Call, Copies
  <2> DEFINE names == {n}
  <2> HIDE DEF f, g, names
  <2>3. Twin(DropNa(f, names), DropNa(g, names), counted) BY <1>1, DropNaTwin
  <2>4. QED BY <2>2, <2>3, CallTwins DEF names
<1>4. QED BY <1>2, <1>3 DEF DropRows

(* A step of sort_by keeps the frames of the two copies twins. *)
LEMMA SortTwins == ASSUME TwinsInv, SortRowsBy PROVE TwinsInv'
<1> DEFINE f == df[1]  g == df[2]
<1>1. Twin(f, g, counted) BY DEF TwinsInv
<1>2. PICK n \in Names, up \in BOOLEAN : Move(LAMBDA h : SortBy(h, n, up)) BY DEF SortRowsBy
<1>3. df'[1] = SortBy(f, n, up) /\ df'[2] = SortBy(g, n, up) /\ named' = named /\ counted' = (counted /\ TRUE)
  BY <1>2 DEF Move, Call, Copies
<1>4. HasColumn(f, n) BY DEF Names, f1, HasColumn
<1> HIDE DEF f, g
<1>5. Twin(SortBy(f, n, up), SortBy(g, n, up), counted) BY <1>1, <1>4, SortByTwin
<1>6. QED BY <1>3, <1>5, CallTwins

(* A step of sort_index keeps the frames of the two copies twins. *)
LEMMA SortIndexTwins == ASSUME TwinsInv, SortRowsByIndex PROVE TwinsInv'
<1> DEFINE f == df[1]  g == df[2]
<1>1. Twin(f, g, counted) BY DEF TwinsInv
<1>2. PICK up \in BOOLEAN : f1.ix.levels # <<>> /\ Move(LAMBDA h : SortIndex(h, up)) BY DEF SortRowsByIndex
<1>3. df'[1] = SortIndex(f, up) /\ df'[2] = SortIndex(g, up) /\ named' = named /\ counted' = (counted /\ TRUE)
  BY <1>2 DEF Move, Call, Copies
<1>4. f.ix.levels # <<>> BY <1>2 DEF f1
<1> HIDE DEF f, g
<1>5. Twin(SortIndex(f, up), SortIndex(g, up), counted) BY <1>1, <1>4, SortIndexTwin
<1>6. QED BY <1>3, <1>5, CallTwins

(* A step of loc by label and by range keeps the frames of the two copies *)
(* twins.                                                                 *)
LEMMA LocateTwins == ASSUME TwinsInv, Locate PROVE TwinsInv'
<1> DEFINE f == df[1]  g == df[2]
<1>1. Twin(f, g, counted) BY DEF TwinsInv
<1>2. ASSUME NEW x, IsMulti(f), df'[1] = LocRangeMulti(f, x, x), df'[2] = LocRangeMulti(g, x, x), named' = named,
             counted' = (counted /\ TRUE)
      PROVE  TwinsInv'
  <2>1. /\ df'[1] = LocRangeMulti(f, x, x) /\ df'[2] = LocRangeMulti(g, x, x)
        /\ named' = named /\ counted' = (counted /\ TRUE) BY <1>2
  <2> HIDE DEF f, g
  <2>2. TwinIndex(f.ix, g.ix, counted, f.nrows) /\ f.ix.multi BY <1>1, <1>2, TwinParts DEF IsMulti
  <2> DEFINE a == f.ix  b == g.ix  m == Len(a.levels)
  <2>3. Len(b.levels) = m /\ m \in 1..m
    <3>1. a.levels # <<>> /\ m \in Nat /\ Len(b.levels) = m /\ 1 \in 1..m
      <4> HIDE DEF a, b
      <4>1. QED BY <2>2, IndexParts DEF a, b
    <3>2. QED BY <3>1
  <2>4. LocRangeMulti(f, x, x) = LocRangeLevel(f, m, x, x) /\ LocRangeMulti(g, x, x) = LocRangeLevel(g, m, x, x)
    BY <2>3 DEF LocRangeMulti
  <2> DEFINE k == m
  <2>5. k \in 1..Len(f.ix.levels) BY <2>3
  <2> HIDE DEF m, k
  <2>6. Twin(LocRangeLevel(f, k, x, x), LocRangeLevel(g, k, x, x), counted) BY <1>1, <2>5, LocRangeLevelTwin
  <2>7. QED BY <2>1, <2>4, <2>6, CallTwins DEF k
<1>3. ASSUME NEW x, f.ix.levels # <<>>, df'[1] = LocRange(f, x, x), df'[2] = LocRange(g, x, x), named' = named,
             counted' = (counted /\ TRUE)
      PROVE  TwinsInv'
  <2>1. /\ df'[1] = LocRange(f, x, x) /\ df'[2] = LocRange(g, x, x)
        /\ named' = named /\ counted' = (counted /\ TRUE) BY <1>3
  <2> HIDE DEF f, g
  <2>2. TwinIndex(f.ix, g.ix, counted, f.nrows) BY <1>1, TwinParts
  <2>3. 1 \in 1..Len(f.ix.levels) BY <1>3, <2>2, IndexParts
  <2>4. Twin(LocRangeLevel(f, 1, x, x), LocRangeLevel(g, 1, x, x), counted) BY <1>1, <2>3, LocRangeLevelTwin
  <2>5. QED BY <2>1, <2>4, CallTwins DEF LocRange
<1>4. ASSUME NEW x, f.ix.levels # <<>>, df'[1] = SelectByLabel(f, x), df'[2] = SelectByLabel(g, x), named' = named,
             counted' = (counted /\ TRUE)
      PROVE  TwinsInv'
  <2>1. /\ df'[1] = SelectByLabel(f, x) /\ df'[2] = SelectByLabel(g, x)
        /\ named' = named /\ counted' = (counted /\ TRUE) BY <1>4
  <2> HIDE DEF f, g
  <2>2. Twin(SelectByLabel(f, x), SelectByLabel(g, x), counted) BY <1>1, <1>4, SelectByLabelTwin
  <2>3. QED BY <2>1, <2>2, CallTwins
<1>5. CASE /\ IsMulti(f1) /\ Last(f1.ix.levels).cls \in LabelClasses
           /\ LET x == Probe(Last(f1.ix.levels).cls) IN Move(LAMBDA h : LocRangeMulti(h, x, x))
  <2>1. PICK x : x = Probe(Last(f1.ix.levels).cls) OBVIOUS
  <2>2. /\ df'[1] = LocRangeMulti(f, x, x) /\ df'[2] = LocRangeMulti(g, x, x)
        /\ named' = named /\ counted' = (counted /\ TRUE) BY <1>5, <2>1 DEF Move, Call, Copies
  <2>3. IsMulti(f) BY <1>5 DEF f1
  <2> HIDE DEF f, g
  <2>4. QED BY <1>2, <2>2, <2>3
<1>6. CASE /\ IsSingle(f1) /\ f1.ix.levels[1].cls \in LabelClasses
           /\ LET x == Probe(f1.ix.levels[1].cls)
              IN  \/ Move(LAMBDA h : LocRange(h, x, x))
                  \/ LabelRow(f1, x) # 0 /\ Move(LAMBDA h : SelectByLabel(h, x))
  <2>1. f.ix.levels # <<>> BY <1>6 DEF f1, IsSingle
  <2>2. PICK x : x = Probe(f1.ix.levels[1].cls) OBVIOUS
  <2>3. /\ \/ df'[1] = LocRange(f, x, x) /\ df'[2] = LocRange(g, x, x)
           \/ df'[1] = SelectByLabel(f, x) /\ df'[2] = SelectByLabel(g, x)
        /\ named' = named /\ counted' = (counted /\ TRUE) BY <1>6, <2>2 DEF Move, Call, Copies
  <2> HIDE DEF f, g
  <2>4. QED BY <1>3, <1>4, <2>1, <2>3
<1>7. QED BY <1>5, <1>6 DEF Locate

(* A step of select, drop and rename keeps the frames of the two copies *)
(* twins.                                                               *)
LEMMA ChooseTwins == ASSUME TwinsInv, ChooseColumns PROVE TwinsInv'
<1> DEFINE f == df[1]  g == df[2]
<1>1. Twin(f, g, counted) BY DEF TwinsInv
<1>2. ASSUME NEW n \in Names, Move(LAMBDA h : Select(h, <<n>>)) PROVE TwinsInv'
  <2>1. df'[1] = Select(f, <<n>>) /\ df'[2] = Select(g, <<n>>) /\ named' = named /\ counted' = (counted /\ TRUE)
    BY <1>2 DEF Move, Call, Copies
  <2> DEFINE ns == <<n>>
  <2>2. HasColumn(f, n) BY DEF Names, f1, HasColumn
  <2>3. IsList(ns) /\ \A k \in 1..Len(ns) : HasColumn(f, ns[k]) BY <2>2, OneList
  <2> HIDE DEF f, g, ns
  <2>4. Twin(Select(f, ns), Select(g, ns), counted) BY <1>1, <2>3, SelectTwin
  <2>5. QED BY <2>1, <2>4, CallTwins DEF ns
<1>3. ASSUME NEW n \in Names, Move(LAMBDA h : Drop(h, {n})) PROVE TwinsInv'
  <2>1. df'[1] = Drop(f, {n}) /\ df'[2] = Drop(g, {n}) /\ named' = named /\ counted' = (counted /\ TRUE)
    BY <1>3 DEF Move, Call, Copies
  <2> DEFINE ns == {n}
  <2> HIDE DEF f, g, ns
  <2>2. Twin(Drop(f, ns), Drop(g, ns), counted) BY <1>1, DropTwin
  <2>3. QED BY <2>1, <2>2, CallTwins DEF ns
<1>4. ASSUME NEW n \in Names, Move(LAMBDA h : Rename(h, n, "z")) PROVE TwinsInv'
  <2>1. df'[1] = Rename(f, n, "z") /\ df'[2] = Rename(g, n, "z") /\ named' = named /\ counted' = (counted /\ TRUE)
    BY <1>4 DEF Move, Call, Copies
  <2> HIDE DEF f, g
  <2>2. Twin(Rename(f, n, "z"), Rename(g, n, "z"), counted) BY <1>1, RenameTwin
  <2>3. QED BY <2>1, <2>2, CallTwins
<1>5. QED BY <1>2, <1>3, <1>4 DEF ChooseColumns

(* A step of set_index and reset_index keeps the frames of the two copies *)
(* twins.                                                                 *)
LEMMA MoveIndexTwins == ASSUME TwinsInv, MoveIndex PROVE TwinsInv'
<1> DEFINE f == df[1]  g == df[2]
<1>1. Twin(f, g, counted) BY DEF TwinsInv
<1>2. ASSUME NEW n \in Names, Move(LAMBDA h : SetIndex(h, n)) PROVE TwinsInv'
  <2>1. df'[1] = SetIndex(f, n) /\ df'[2] = SetIndex(g, n) /\ named' = named /\ counted' = (counted /\ TRUE)
    BY <1>2 DEF Move, Call, Copies
  <2>2. HasColumn(f, n) BY DEF Names, f1, HasColumn
  <2> HIDE DEF f, g
  <2>3. Twin(SetIndex(f, n), SetIndex(g, n), counted) BY <1>1, <2>2, SetIndexTwin
  <2>4. QED BY <2>1, <2>3, CallTwins
<1>3. ASSUME NEW m \in Names, NEW n \in Names, Move(LAMBDA h : SetIndexMulti(h, <<m, n>>)) PROVE TwinsInv'
  <2>1. /\ df'[1] = SetIndexMulti(f, <<m, n>>) /\ df'[2] = SetIndexMulti(g, <<m, n>>)
        /\ named' = named /\ counted' = (counted /\ TRUE) BY <1>3 DEF Move, Call, Copies
  <2> DEFINE ns == <<m, n>>
  <2>2. HasColumn(f, m) /\ HasColumn(f, n) BY DEF Names, f1, HasColumn
  <2>3. IsList(ns) /\ \A k \in 1..Len(ns) : HasColumn(f, ns[k]) BY <2>2, TwoList
  <2> HIDE DEF f, g, ns
  <2>4. Twin(SetIndexMulti(f, ns), SetIndexMulti(g, ns), counted) BY <1>1, <2>3, SetIndexMultiTwin
  <2>5. QED BY <2>1, <2>4, CallTwins DEF ns
<1>4. CASE Move(ResetIndex)
  <2>1. df'[1] = ResetIndex(f) /\ df'[2] = ResetIndex(g) /\ named' = named /\ counted' = (counted /\ TRUE)
    BY <1>4 DEF Move, Call, Copies
  <2> HIDE DEF f, g
  <2>2. Twin(ResetIndex(f), ResetIndex(g), counted) BY <1>1, ResetIndexTwin
  <2>3. QED BY <2>1, <2>2, CallTwins
<1>5. CASE Move(ResetIndexMulti)
  <2>1. df'[1] = ResetIndexMulti(f) /\ df'[2] = ResetIndexMulti(g) /\ named' = named /\ counted' = (counted /\ TRUE)
    BY <1>5 DEF Move, Call, Copies
  <2> HIDE DEF f, g
  <2>2. Twin(ResetIndexMulti(f), ResetIndexMulti(g), counted) BY <1>1, ResetIndexMultiTwin
  <2>3. QED BY <2>1, <2>2, CallTwins
<1>6. QED BY <1>2, <1>3, <1>4, <1>5 DEF MoveIndex

(* A step of fillna keeps the frames of the two copies twins. *)
LEMMA FillTwins == ASSUME TwinsInv, FillNulls PROVE TwinsInv'
<1> DEFINE f == df[1]  g == df[2]
<1>1. Twin(f, g, counted) BY DEF TwinsInv
<1>2. CASE Make(LAMBDA h : FillNa(h, "I64", 2))
  <2>1. df'[1] = FillNa(f, "I64", 2) /\ df'[2] = FillNa(g, "I64", 2) /\ named' = named /\ counted' = (counted /\ TRUE)
    BY <1>2 DEF Make, Call, Copies
  <2> HIDE DEF f, g
  <2>2. Twin(FillNa(f, "I64", 2), FillNa(g, "I64", 2), counted) BY <1>1, FillNaTwin
  <2>3. QED BY <2>1, <2>2, CallTwins
<1>3. CASE Make(LAMBDA h : FillNa(h, "Str", "a"))
  <2>1. df'[1] = FillNa(f, "Str", "a") /\ df'[2] = FillNa(g, "Str", "a") /\ named' = named /\ counted' = (counted /\ TRUE)
    BY <1>3 DEF Make, Call, Copies
  <2> HIDE DEF f, g
  <2>2. Twin(FillNa(f, "Str", "a"), FillNa(g, "Str", "a"), counted) BY <1>1, FillNaTwin
  <2>3. QED BY <2>1, <2>2, CallTwins
<1>4. QED BY <1>2, <1>3 DEF FillNulls

(* A step of concat_rows, concat_cols and the merges keeps the frames of *)
(* the two copies twins.                                                 *)
LEMMA ConcatTwins == ASSUME TwinsInv, Concat PROVE TwinsInv'
<1> DEFINE f == df[1]  g == df[2]  u == named[1]  v == named[2]  on == <<"k">>
<1>1. Twin(f, g, counted) /\ Twin(u, v, counted) BY DEF TwinsInv
<1>2. IsList(on) BY OneList
<1>3. CASE ConcatRowsOK(f1, g1) /\ Call(ConcatRows, named = df /\ f1.cols # <<>>, f1.cols # <<>>)
  <2>1. /\ df'[1] = ConcatRows(f, u) /\ df'[2] = ConcatRows(g, v)
        /\ named' = named /\ counted' = (counted /\ f.cols # <<>>) BY <1>3 DEF Call, Copies, f1
  <2>2. ConcatRowsOK(f, u) BY <1>3 DEF f1, g1
  <2> HIDE DEF f, g, u, v
  <2>3. Twin(ConcatRows(f, u), ConcatRows(g, v), counted /\ f.cols # <<>>) BY <1>1, <2>2, ConcatRowsTwin
  <2>4. QED BY <2>1, <2>3, CallTwins
<1>4. CASE ConcatColsOK(f1, g1) /\ With(ConcatCols)
  <2>1. /\ df'[1] = ConcatCols(f, u) /\ df'[2] = ConcatCols(g, v)
        /\ named' = named /\ counted' = (counted /\ TRUE) BY <1>4 DEF With, Call, Copies
  <2>2. ConcatColsOK(f, u) BY <1>4 DEF f1, g1
  <2> HIDE DEF f, g, u, v
  <2>3. Twin(ConcatCols(f, u), ConcatCols(g, v), counted) BY <1>1, <2>2, ConcatColsTwin
  <2>4. QED BY <2>1, <2>3, CallTwins
<1>5. CASE /\ MergeOK(f1, g1, <<"k">>) /\ SameKeyClasses(f1, g1, <<"k">>)
           /\ \E how \in Hows : With(LAMBDA h, j : Merge(h, j, <<"k">>, how))
  <2>1. PICK how \in Hows : With(LAMBDA h, j : Merge(h, j, <<"k">>, how)) BY <1>5
  <2>2. /\ df'[1] = Merge(f, u, on, how) /\ df'[2] = Merge(g, v, on, how)
        /\ named' = named /\ counted' = (counted /\ TRUE) BY <2>1 DEF With, Call, Copies
  <2>3. MergeOK(f, u, on) /\ SameKeyClasses(f, u, on) BY <1>5 DEF f1, g1
  <2> HIDE DEF f, g, u, v, on
  <2>4. Twin(Merge(f, u, on, how), Merge(g, v, on, how), counted) BY <1>1, <1>2, <2>3, MergeTwin
  <2>5. QED BY <2>2, <2>4, CallTwins
<1>6. CASE AsofMergeOK(f1, g1, "t", "t") /\ With(LAMBDA h, j : AsofMerge(h, j, "t", "t"))
  <2>1. /\ df'[1] = AsofMerge(f, u, "t", "t") /\ df'[2] = AsofMerge(g, v, "t", "t")
        /\ named' = named /\ counted' = (counted /\ TRUE) BY <1>6 DEF With, Call, Copies
  <2>2. AsofMergeOK(f, u, "t", "t") BY <1>6 DEF f1, g1
  <2> HIDE DEF f, g, u, v
  <2>3. Twin(AsofMerge(f, u, "t", "t"), AsofMerge(g, v, "t", "t"), counted) BY <1>1, <2>2, AsofMergeTwin
  <2>4. QED BY <2>1, <2>3, CallTwins
<1>7. CASE AsofMergeIndexOK(f1, g1) /\ With(AsofMergeIndex)
  <2>1. /\ df'[1] = AsofMergeIndex(f, u) /\ df'[2] = AsofMergeIndex(g, v)
        /\ named' = named /\ counted' = (counted /\ TRUE) BY <1>7 DEF With, Call, Copies
  <2>2. AsofMergeIndexOK(f, u) BY <1>7 DEF f1, g1
  <2> HIDE DEF f, g, u, v
  <2>3. Twin(AsofMergeIndex(f, u), AsofMergeIndex(g, v), counted) BY <1>1, <2>2, AsofMergeIndexTwin
  <2>4. QED BY <2>1, <2>3, CallTwins
<1>8. QED BY <1>3, <1>4, <1>5, <1>6, <1>7 DEF Concat

(* The names that the session groups by are names of columns. *)
LEMMA GroupNamesColumns ==
  ASSUME NEW names \in GroupNames
  PROVE  IsList(names) /\ \A k \in 1..Len(names) : HasColumn(df[1], names[k])
<1>1. CASE \E n \in Names : names = <<n>>
  <2>1. PICK n \in Names : names = <<n>> BY <1>1
  <2>2. HasColumn(df[1], n) BY DEF Names, f1, HasColumn
  <2>3. QED BY <2>1, <2>2, OneList
<1>2. CASE names \in {<<"k", "c">>, <<"k", "t">>} \cap (Names \X Names)
  <2>1. PICK m \in Names, n \in Names : names = <<m, n>> BY <1>2
  <2>2. HasColumn(df[1], m) /\ HasColumn(df[1], n) BY DEF Names, f1, HasColumn
  <2>3. QED BY <2>1, <2>2, TwoList
<1>3. QED BY <1>1, <1>2 DEF GroupNames

(* A step of the aggregations over groups and value_counts keeps the frames *)
(* of the two copies twins.                                                 *)
LEMMA SummariseTwins == ASSUME TwinsInv, Summarise PROVE TwinsInv'
<1> DEFINE f == df[1]  g == df[2]
<1>1. Twin(f, g, counted) BY DEF TwinsInv
<1>2. PICK names \in GroupNames :
        \/ Make(LAMBDA h : Size(GroupBy(h, names)))
        \/ Make(LAMBDA h : Keys(GroupBy(h, names)))
        \/ \E agg \in {"sum", "max"} : Make(LAMBDA h : AggShortcut(GroupBy(h, names), agg))
        \/ \E specs \in {<<<<"x", "mean">>, <<"k", "count">>>>} :
             AggOK(GroupBy(f1, names), specs) /\ Make(LAMBDA h : Agg(GroupBy(h, names), specs))
        \/ Len(names) = 1 /\ Make(LAMBDA h : ValueCounts(h, names[1])) BY Zenon DEF Summarise
<1>3. IsList(names) /\ \A k \in 1..Len(names) : HasColumn(f, names[k]) BY GroupNamesColumns
<1>4. CASE Make(LAMBDA h : Size(GroupBy(h, names)))
  <2>1. /\ df'[1] = Size(GroupBy(f, names)) /\ df'[2] = Size(GroupBy(g, names))
        /\ named' = named /\ counted' = (counted /\ TRUE) BY <1>4 DEF Make, Call, Copies
  <2> HIDE DEF f, g
  <2>2. Twin(Size(GroupBy(f, names)), Size(GroupBy(g, names)), counted) BY <1>1, <1>3, SizeTwin
  <2>3. QED BY <2>1, <2>2, CallTwins
<1>5. CASE Make(LAMBDA h : Keys(GroupBy(h, names)))
  <2>1. /\ df'[1] = Keys(GroupBy(f, names)) /\ df'[2] = Keys(GroupBy(g, names))
        /\ named' = named /\ counted' = (counted /\ TRUE) BY <1>5 DEF Make, Call, Copies
  <2> HIDE DEF f, g
  <2>2. Twin(Keys(GroupBy(f, names)), Keys(GroupBy(g, names)), counted) BY <1>1, <1>3, KeysTwin
  <2>3. QED BY <2>1, <2>2, CallTwins
<1>6. CASE \E agg \in {"sum", "max"} : Make(LAMBDA h : AggShortcut(GroupBy(h, names), agg))
  <2>1. PICK agg \in {"sum", "max"} : Make(LAMBDA h : AggShortcut(GroupBy(h, names), agg)) BY <1>6
  <2>2. /\ df'[1] = AggShortcut(GroupBy(f, names), agg) /\ df'[2] = AggShortcut(GroupBy(g, names), agg)
        /\ named' = named /\ counted' = (counted /\ TRUE) BY <2>1 DEF Make, Call, Copies
  <2> HIDE DEF f, g
  <2>3. Twin(AggShortcut(GroupBy(f, names), agg), AggShortcut(GroupBy(g, names), agg), counted)
    BY <1>1, <1>3, AggShortcutTwin
  <2>4. QED BY <2>2, <2>3, CallTwins
<1>7. CASE \E specs \in {<<<<"x", "mean">>, <<"k", "count">>>>} :
             AggOK(GroupBy(f1, names), specs) /\ Make(LAMBDA h : Agg(GroupBy(h, names), specs))
  <2>1. PICK specs \in {<<<<"x", "mean">>, <<"k", "count">>>>} :
          AggOK(GroupBy(f1, names), specs) /\ Make(LAMBDA h : Agg(GroupBy(h, names), specs)) BY <1>7
  <2>2. /\ df'[1] = Agg(GroupBy(f, names), specs) /\ df'[2] = Agg(GroupBy(g, names), specs)
        /\ named' = named /\ counted' = (counted /\ TRUE) BY <2>1 DEF Make, Call, Copies
  <2>3. AggOK(GroupBy(f, names), specs) BY <2>1 DEF f1
  <2>4. IsList(specs) /\ \A k \in 1..Len(specs) : specs[k][2] \in {"mean", "count"} BY TwoList
  <2> HIDE DEF f, g
  <2>5. Twin(Agg(GroupBy(f, names), specs), Agg(GroupBy(g, names), specs), counted) BY <1>1, <1>3, <2>3, <2>4, AggTwin
  <2>6. QED BY <2>2, <2>5, CallTwins
<1>8. CASE Len(names) = 1 /\ Make(LAMBDA h : ValueCounts(h, names[1]))
  <2>1. /\ df'[1] = ValueCounts(f, names[1]) /\ df'[2] = ValueCounts(g, names[1])
        /\ named' = named /\ counted' = (counted /\ TRUE) BY <1>8 DEF Make, Call, Copies
  <2>2. HasColumn(f, names[1]) BY <1>3, <1>8
  <2> DEFINE n == names[1]
  <2> HIDE DEF f, g, n
  <2>3. Twin(ValueCounts(f, n), ValueCounts(g, n), counted) BY <1>1, <2>2, ValueCountsTwin DEF n
  <2>4. QED BY <2>1, <2>3, CallTwins DEF n
<1>9. QED BY <1>2, <1>4, <1>5, <1>6, <1>7, <1>8

(* A step of pivot, pivot_table and unstack keeps the frames of the two *)
(* copies twins.                                                        *)
LEMMA WidenTwins == ASSUME TwinsInv, Widen PROVE TwinsInv'
<1> DEFINE f == df[1]  g == df[2]  aggs == <<"sum", "count">>
<1>1. Twin(f, g, counted) BY DEF TwinsInv
<1>2. HasColumn(f, "k") /\ HasColumn(f, "t") /\ HasColumn(f, "x") BY DEF Widen, Names, f1, HasColumn
<1>3. CASE PivotOK(f1, "k", "t") /\ Make(LAMBDA h : Pivot(h, "k", "t", "x"))
  <2>1. /\ df'[1] = Pivot(f, "k", "t", "x") /\ df'[2] = Pivot(g, "k", "t", "x")
        /\ named' = named /\ counted' = (counted /\ TRUE) BY <1>3 DEF Make, Call, Copies
  <2> HIDE DEF f, g
  <2>2. Twin(Pivot(f, "k", "t", "x"), Pivot(g, "k", "t", "x"), counted) BY <1>1, <1>2, PivotTwin
  <2>3. QED BY <2>1, <2>2, CallTwins
<1>4. CASE PivotTableOK(f1, "x", "sum") /\ Make(LAMBDA h : PivotTableMargins(h, "k", "t", "x", "sum"))
  <2>1. /\ df'[1] = PivotTableMargins(f, "k", "t", "x", "sum") /\ df'[2] = PivotTableMargins(g, "k", "t", "x", "sum")
        /\ named' = named /\ counted' = (counted /\ TRUE) BY <1>4 DEF Make, Call, Copies
  <2>2. Numeric(ColumnOf(f, "x")) BY <1>4 DEF PivotTableOK, f1
  <2> HIDE DEF f, g
  <2>3. Twin(PivotTableMargins(f, "k", "t", "x", "sum"), PivotTableMargins(g, "k", "t", "x", "sum"), counted)
    BY <1>1, <1>2, <2>2, PivotMarginsTwin
  <2>4. QED BY <2>1, <2>3, CallTwins
<1>5. CASE /\ PivotTableOK(f1, "x", "sum")
           /\ Make(LAMBDA h : PivotTableList(h, "k", "t", "x", <<"sum", "count">>))
  <2>1. /\ df'[1] = PivotTableList(f, "k", "t", "x", aggs) /\ df'[2] = PivotTableList(g, "k", "t", "x", aggs)
        /\ named' = named /\ counted' = (counted /\ TRUE) BY <1>5 DEF Make, Call, Copies
  <2>2. Numeric(ColumnOf(f, "x")) BY <1>5 DEF PivotTableOK, f1
  <2>3. IsList(aggs) /\ aggs # <<>> /\ \A k \in 1..Len(aggs) : aggs[k] \in {"sum", "count"} BY TwoList
  <2> HIDE DEF f, g, aggs
  <2>4. Twin(PivotTableList(f, "k", "t", "x", aggs), PivotTableList(g, "k", "t", "x", aggs), counted)
    BY <1>1, <1>2, <2>2, <2>3, PivotListTwin
  <2>5. QED BY <2>1, <2>4, CallTwins
<1>6. QED BY <1>3, <1>4, <1>5 DEF Widen

(* A step of melt and stack keeps the frames of the two copies twins. *)
LEMMA LengthenTwins == ASSUME TwinsInv, Lengthen PROVE TwinsInv'
<1> DEFINE f == df[1]  g == df[2]  ids == <<"k">>  vs == <<"x">>
<1>1. Twin(f, g, counted) BY DEF TwinsInv
<1>2. CASE MeltOK(f1, <<"k">>, <<"x">>) /\ Make(LAMBDA h : Melt(h, <<"k">>, <<"x">>))
  <2>1. /\ df'[1] = Melt(f, ids, vs) /\ df'[2] = Melt(g, ids, vs)
        /\ named' = named /\ counted' = (counted /\ TRUE) BY <1>2 DEF Make, Call, Copies
  <2>2. MeltOK(f, ids, vs) BY <1>2 DEF f1
  <2>3. IsList(ids) /\ IsList(vs) BY OneList
  <2> HIDE DEF f, g, ids, vs
  <2>4. Twin(Melt(f, ids, vs), Melt(g, ids, vs), counted) BY <1>1, <2>2, <2>3, MeltTwin
  <2>5. QED BY <2>1, <2>4, CallTwins
<1>3. CASE StackOK(f1) /\ Make(Stack)
  <2>1. df'[1] = Stack(f) /\ df'[2] = Stack(g) /\ named' = named /\ counted' = (counted /\ TRUE)
    BY <1>3 DEF Make, Call, Copies
  <2>2. StackOK(f) BY <1>3 DEF f1
  <2> HIDE DEF f, g
  <2>3. Twin(Stack(f), Stack(g), counted) BY <1>1, <2>2, StackTwin
  <2>4. QED BY <2>1, <2>3, CallTwins
<1>4. CASE UnstackOK(f1) /\ Make(Unstack)
  <2>1. df'[1] = Unstack(f) /\ df'[2] = Unstack(g) /\ named' = named /\ counted' = (counted /\ TRUE)
    BY <1>4 DEF Make, Call, Copies
  <2>2. UnstackOK(f) BY <1>4 DEF f1
  <2> HIDE DEF f, g
  <2>3. Twin(Unstack(f), Unstack(g), counted) BY <1>1, <2>2, UnstackTwin
  <2>4. QED BY <2>1, <2>3, CallTwins
<1>5. QED BY <1>2, <1>3, <1>4 DEF Lengthen

(* A step of resample keeps the frames of the two copies twins. *)
LEMMA BucketsTwins == ASSUME TwinsInv, InBuckets PROVE TwinsInv'
<1> DEFINE f == df[1]  g == df[2]
<1>1. Twin(f, g, counted) BY DEF TwinsInv
<1>2. CASE \E rule \in {Weekly, Monthly} : "t" \in Of({"DateTime"}) /\
             Make(LAMBDA h : Resample(h, "t", rule, "mean"))
  <2>1. PICK rule \in {Weekly, Monthly} : "t" \in Of({"DateTime"}) /\
               Make(LAMBDA h : Resample(h, "t", rule, "mean")) BY <1>2
  <2>2. /\ df'[1] = Resample(f, "t", rule, "mean") /\ df'[2] = Resample(g, "t", rule, "mean")
        /\ named' = named /\ counted' = (counted /\ TRUE) BY <2>1 DEF Make, Call, Copies
  <2>3. HasColumn(f, "t") /\ ResampleOK(f, "t") BY <2>1, OfNames DEF ResampleOK
  <2>4. RuleOK(rule) BY DEF RuleOK, Weekly, Monthly
  <2> HIDE DEF f, g
  <2>5. Twin(Resample(f, "t", rule, "mean"), Resample(g, "t", rule, "mean"), counted)
    BY <1>1, <2>3, <2>4, ResampleTwin
  <2>6. QED BY <2>2, <2>5, CallTwins
<1>3. CASE ResampleIndexOK(f1) /\ Make(LAMBDA h : ResampleIndex(h, Weekly, "sum"))
  <2>1. /\ df'[1] = ResampleIndex(f, Weekly, "sum") /\ df'[2] = ResampleIndex(g, Weekly, "sum")
        /\ named' = named /\ counted' = (counted /\ TRUE) BY <1>3 DEF Make, Call, Copies
  <2>2. ResampleIndexOK(f) BY <1>3 DEF f1
  <2>3. RuleOK(Weekly) /\ ~Calendar(Weekly) BY DEF RuleOK, Calendar, Weekly
  <2> HIDE DEF f, g
  <2>4. Twin(ResampleIndex(f, Weekly, "sum"), ResampleIndex(g, Weekly, "sum"), counted)
    BY <1>1, <2>2, <2>3, ResampleIndexTwin
  <2>5. QED BY <2>1, <2>4, CallTwins
<1>4. QED BY <1>2, <1>3 DEF InBuckets

(* A step of rolling and the running aggregates keeps the frames of the two *)
(* copies twins.                                                            *)
LEMMA WindowsTwins == ASSUME TwinsInv, InWindows PROVE TwinsInv'
<1> DEFINE f == df[1]  g == df[2]
<1>1. Twin(f, g, counted) BY DEF TwinsInv
<1>2. CASE RollingWindowOK(f1, 2, 1) /\ Make(LAMBDA h : RollingFrame(h, 2, 1, TRUE, "count"))
  <2>1. /\ df'[1] = RollingFrame(f, 2, 1, TRUE, "count") /\ df'[2] = RollingFrame(g, 2, 1, TRUE, "count")
        /\ named' = named /\ counted' = (counted /\ TRUE) BY <1>2 DEF Make, Call, Copies
  <2> HIDE DEF f, g
  <2>2. Twin(RollingFrame(f, 2, 1, TRUE, "count"), RollingFrame(g, 2, 1, TRUE, "count"), counted)
    BY <1>1, RollingFrameTwin
  <2>3. QED BY <2>1, <2>2, CallTwins
<1>3. CASE \E n \in Of({"I64"}) : RollingOK(ColumnOf(f1, n), 2) /\
             Make(LAMBDA h : FromColumns(<<"x", "r">>,
                    <<Cumulative(ColumnOf(h, n), "sum"), Rolling(ColumnOf(h, n), 2, "mean")>>))
  <2> DEFINE r(h, n) == FromColumns(<<"x", "r">>, <<Cumulative(ColumnOf(h, n), "sum"), Rolling(ColumnOf(h, n), 2, "mean")>>)
  <2>1. PICK n \in Of({"I64"}) : Make(LAMBDA h : FromColumns(<<"x", "r">>,
                    <<Cumulative(ColumnOf(h, n), "sum"), Rolling(ColumnOf(h, n), 2, "mean")>>)) BY <1>3, Zenon
  <2>2. /\ df'[1] = r(f, n) /\ df'[2] = r(g, n)
        /\ named' = named /\ counted' = (counted /\ TRUE) BY <2>1 DEF Make, Call, Copies
  <2>3. HasColumn(f, n) /\ ColumnOf(f, n).cls = "I64" BY OfNames
  <2> HIDE DEF f, g
  <2>4. Twin(r(f, n), r(g, n), counted) BY <1>1, <2>3, RunningTwin
  <2> HIDE DEF r
  <2>5. QED BY <2>2, <2>4, CallTwins
<1>4. QED BY <1>2, <1>3 DEF InWindows

(* A step of categories keeps the frames of the two copies twins. *)
LEMMA CategoriesTwins == ASSUME TwinsInv, Categories PROVE TwinsInv'
<1> DEFINE f == df[1]  g == df[2]
<1>1. Twin(f, g, counted) BY DEF TwinsInv
<1>2. CASE \E n \in Of({"Cat"}) : Make(LAMBDA h : FromColumns(<<"k">>, <<CatToStrings(ColumnOf(h, n))>>))
  <2> DEFINE r(h, n) == FromColumns(<<"k">>, <<CatToStrings(ColumnOf(h, n))>>)
  <2>1. PICK n \in Of({"Cat"}) : Make(LAMBDA h : FromColumns(<<"k">>, <<CatToStrings(ColumnOf(h, n))>>))
    BY <1>2, Zenon
  <2>2. /\ df'[1] = r(f, n) /\ df'[2] = r(g, n)
        /\ named' = named /\ counted' = (counted /\ TRUE) BY <2>1 DEF Make, Call, Copies
  <2>3. HasColumn(f, n) BY OfNames
  <2> HIDE DEF f, g
  <2>4. Twin(r(f, n), r(g, n), counted) BY <1>1, <2>3, UncategorisedTwin
  <2> HIDE DEF r
  <2>5. QED BY <2>2, <2>4, CallTwins
<1>3. CASE \E n \in Of({"Str"}) : Make(LAMBDA h : FromColumns(<<"c">>,
             <<CatOf([i \in 1..Length(ColumnOf(h, n)) |-> ValueAt(ColumnOf(h, n), i)], ColumnOf(h, n).nulls)>>))
  <2> DEFINE r(h, n) == FromColumns(<<"c">>,
               <<CatOf([i \in 1..Length(ColumnOf(h, n)) |-> ValueAt(ColumnOf(h, n), i)], ColumnOf(h, n).nulls)>>)
  <2>1. PICK n \in Of({"Str"}) : Make(LAMBDA h : FromColumns(<<"c">>,
             <<CatOf([i \in 1..Length(ColumnOf(h, n)) |-> ValueAt(ColumnOf(h, n), i)], ColumnOf(h, n).nulls)>>))
    BY <1>3, Zenon
  <2>2. /\ df'[1] = r(f, n) /\ df'[2] = r(g, n)
        /\ named' = named /\ counted' = (counted /\ TRUE) BY <2>1, Zenon DEF Make, Call, Copies
  <2>3. HasColumn(f, n) /\ ColumnOf(f, n).cls = "Str" BY OfNames
  <2> HIDE DEF f, g
  <2>4. Twin(r(f, n), r(g, n), counted) BY <1>1, <2>3, CategorisedTwin
  <2> HIDE DEF r
  <2>5. QED BY <2>2, <2>4, CallTwins
<1>4. QED BY <1>2, <1>3 DEF Categories

(* A step of to_csv and read_csv keeps the frames of the two copies twins. *)
LEMMA ReadBackTwins == ASSUME TwinsInv, ReadBack PROVE TwinsInv'
<1> DEFINE f == df[1]  g == df[2]
<1>1. Twin(f, g, counted) BY DEF TwinsInv
<1>2. ReadCsvOK(WriteCsv(f), Schema(f)) BY DEF ReadBack, f1
<1>3. Make(LAMBDA h : ReadCsv(WriteCsv(h), Schema(h))) BY DEF ReadBack
<1>4. /\ df'[1] = ReadCsv(WriteCsv(f), Schema(f)) /\ df'[2] = ReadCsv(WriteCsv(g), Schema(g))
      /\ named' = named /\ counted' = (counted /\ TRUE) BY <1>3 DEF Make, Call, Copies
<1> HIDE DEF f, g
<1>5. Twin(ReadCsv(WriteCsv(f), Schema(f)), ReadCsv(WriteCsv(g), Schema(g)), counted) BY <1>1, <1>2, ReadBackTwin
<1>6. QED BY <1>4, <1>5, CallTwins

(* A step of keeping a frame aside keeps the frames of the two copies *)
(* twins.                                                             *)
LEMMA KeepTwins == ASSUME TwinsInv, Keep PROVE TwinsInv'
BY DEF TwinsInv, Keep

------------------------------------------------------------------------------
(* The theorems on the two copies. *)

(* Every step keeps the frames of the two copies twins. *)
LEMMA NextTwins == TwinsInv /\ [Next]_vars => TwinsInv'
<1> SUFFICES ASSUME TwinsInv, [Next]_vars PROVE TwinsInv' OBVIOUS
<1>1. CASE UNCHANGED vars BY <1>1 DEF vars, TwinsInv
<1>2. CASE Keep BY <1>2, KeepTwins
<1>3. CASE FilterRows BY <1>3, FilterTwins
<1>4. CASE SliceRows BY <1>4, SliceTwins
<1>5. CASE DropRows BY <1>5, DropRowsTwins
<1>6. CASE SortRowsBy BY <1>6, SortTwins
<1>7. CASE SortRowsByIndex BY <1>7, SortIndexTwins
<1>8. CASE Locate BY <1>8, LocateTwins
<1>9. CASE ChooseColumns BY <1>9, ChooseTwins
<1>10. CASE MoveIndex BY <1>10, MoveIndexTwins
<1>11. CASE FillNulls BY <1>11, FillTwins
<1>12. CASE Concat BY <1>12, ConcatTwins
<1>13. CASE Summarise BY <1>13, SummariseTwins
<1>14. CASE Widen BY <1>14, WidenTwins
<1>15. CASE Lengthen BY <1>15, LengthenTwins
<1>16. CASE InBuckets BY <1>16, BucketsTwins
<1>17. CASE InWindows BY <1>17, WindowsTwins
<1>18. CASE Categories BY <1>18, CategoriesTwins
<1>19. CASE ReadBack BY <1>19, ReadBackTwins
<1>20. QED
  BY <1>1, <1>2, <1>3, <1>4, <1>5, <1>6, <1>7, <1>8, <1>9, <1>10, <1>11, <1>12, <1>13, <1>14,
     <1>15, <1>16, <1>17, <1>18, <1>19 DEF Next

(* In every state the frames of the two copies differ at most under null    *)
(* cells: no call of the package lets what is under a null into a cell that *)
(* can be read.                                                             *)
THEOREM TwinsSafe == Spec => []TwinsInv
<1>1. Init => TwinsInv BY InitTwins
<1>2. TwinsInv /\ [Next]_vars => TwinsInv' BY NextTwins
<1>3. QED BY <1>1, <1>2, PTL DEF Spec

(* Every frame of a session is well formed: its names and columns are as   *)
(* many, its columns and levels have a values buffer and a nulls buffer of *)
(* one length, and all are as long as the frame, whatever calls made it    *)
(* (builtins.rs, every native that returns a frame).                       *)
THEOREM WellFormedSafe == Spec => []WellFormed
<1>1. TwinsInv => WellFormed BY TwinShapes DEF TwinsInv, WellFormed, f1
<1>2. QED BY <1>1, TwinsSafe, PTL

(* Of twins the program sees the same. *)
LEMMA TwinsLookAlike ==
  ASSUME NEW f, NEW g, NEW ok, Twin(f, g, ok)
  PROVE  Visible(f) = Visible(g)
<1> DEFINE cs == f.cols \o f.ix.levels  ds == g.cols \o g.ix.levels  n == f.nrows
<1>1. /\ f.names = g.names /\ f.nrows = g.nrows
      /\ TwinCols(f.cols, g.cols, ok, n) /\ TwinIndex(f.ix, g.ix, ok, n) BY TwinParts
<1>2. /\ TwinCols(f.ix.levels, g.ix.levels, ok, n)
      /\ f.ix.names = g.ix.names /\ f.ix.multi = g.ix.multi BY <1>1, IndexParts
<1>3. TwinCols(cs, ds, ok, n) BY <1>1, <1>2, ColsConcat
<1>4. Columns(f) = cs /\ Columns(g) = ds BY DEF Columns
<1> HIDE DEF cs, ds, n
<1>5. DOMAIN cs = 1..Len(cs) /\ DOMAIN ds = 1..Len(cs) BY <1>3, ColsElim
<1>6. \A k \in 1..Len(cs) : TwinCol(cs[k], ds[k]) BY <1>3, ColsOf
<1>7. \A k \in 1..Len(cs) :
        /\ cs[k].cls = ds[k].cls /\ Length(cs[k]) = Length(ds[k])
        /\ \A i \in 1..Length(cs[k]) : Get(cs[k], i) = Get(ds[k], i)
  BY <1>6, TwinGet DEF TwinCol, Length
<1>8. ASSUME NEW k \in 1..Len(cs)
      PROVE  [i \in 1..Length(cs[k]) |-> Cell(cs[k], i)] = [i \in 1..Length(ds[k]) |-> Cell(ds[k], i)]
  <2>1. \A i \in 1..Length(cs[k]) : Cell(cs[k], i) = Cell(ds[k], i) BY <1>7 DEF Cell
  <2>2. Length(cs[k]) = Length(ds[k]) BY <1>7
  <2>3. QED BY <2>1, <2>2, Zenon
<1>9. [k \in DOMAIN cs |-> [i \in 1..Length(cs[k]) |-> Cell(cs[k], i)]]
        = [k \in DOMAIN ds |-> [i \in 1..Length(ds[k]) |-> Cell(ds[k], i)]]
  BY <1>5, <1>8, Zenon
<1>10. QED BY <1>1, <1>2, <1>4, <1>9, Zenon DEF Visible

(* What the program sees of a frame never depends on what is in the buffers *)
(* under its null cells.                                                    *)
THEOREM NullsOpaqueSafe == Spec => []NullsOpaque
<1>1. TwinsInv => NullsOpaque BY TwinsLookAlike DEF TwinsInv, NullsOpaque
<1>2. QED BY <1>1, TwinsSafe, PTL

------------------------------------------------------------------------------
(* Rows that stay together. *)

(* The cells of row i of one frame are those of row j of another. *)
DrawnFrom(c, i, f, j) ==
  \/ \E m \in DOMAIN f.cols : Faces(c, i) \subseteq Faces(f.cols[m], j)
  \/ \E m \in DOMAIN f.ix.levels : Faces(c, i) \subseteq Faces(f.ix.levels[m], j)
(* Row i of g is made of cells of row j of f. *)
DrawnRow(g, i, f, j) ==
  /\ \A k \in DOMAIN g.cols : DrawnFrom(g.cols[k], i, f, j)
  /\ \A k \in DOMAIN g.ix.levels : DrawnFrom(g.ix.levels[k], i, f, j)
(* Every row of g is made of cells of one row of f. *)
Draws(g, f) == \A i \in 1..g.nrows : \E j \in 1..f.nrows : DrawnRow(g, i, f, j)

(* Row i of f holds nothing that is not in a row of the first frame. *)
InRow(f, i, row) ==
  /\ \A k \in DOMAIN f.cols : Faces(f.cols[k], i) \subseteq row
  /\ \A k \in DOMAIN f.ix.levels : Faces(f.ix.levels[k], i) \subseteq row
(* Every row of f is of one row of the first frame. *)
RowsFrom(f, S) == \A i \in 1..f.nrows : \E row \in S : InRow(f, i, row)

(* Rows drawn from rows of the first frame are of rows of the first frame. *)
LEMMA DrawnStay ==
  ASSUME NEW f, NEW g, NEW S, RowsFrom(f, S), Draws(g, f)
  PROVE  RowsFrom(g, S)
<1> SUFFICES ASSUME NEW i \in 1..g.nrows PROVE \E row \in S : InRow(g, i, row) BY DEF RowsFrom
<1>1. PICK j \in 1..f.nrows : DrawnRow(g, i, f, j) BY DEF Draws
<1>2. PICK row \in S : InRow(f, j, row) BY DEF RowsFrom
<1>3. ASSUME NEW c, DrawnFrom(c, i, f, j) PROVE Faces(c, i) \subseteq row
  BY <1>2, <1>3 DEF DrawnFrom, InRow
<1>4. InRow(g, i, row) BY <1>1, <1>3 DEF DrawnRow, InRow
<1>5. QED BY <1>4

(* A cell that is taken is the cell of the row it is taken from. *)
LEMMA TakeFaces ==
  ASSUME NEW c, NEW rows, NEW i \in DOMAIN rows
  PROVE  Faces(Take(c, rows), i) \subseteq Faces(c, rows[i])
<1> DEFINE t == Take(c, rows)
<1>1. CASE c.cls = "Cat"
  <2>1. /\ t.cls = "I64" /\ t.nulls = [k \in DOMAIN rows |-> NullAt(c, rows[k])]
        /\ t.vals = [k \in DOMAIN rows |-> 0] BY <1>1 DEF Take, Column
  <2> HIDE DEF t
  <2>2. NullAt(t, i) = NullAt(c, rows[i]) /\ ValueAt(t, i) = 0 BY <2>1 DEF NullAt, ValueAt
  <2>3. Cell(t, i) = <<"I64", IF NullAt(c, rows[i]) THEN None ELSE 0>> BY <2>1, <2>2 DEF Cell, Get
  <2>4. Faces(t, i) = {Cell(t, i)} BY <2>1 DEF Faces
  <2>5. QED BY <1>1, <2>3, <2>4 DEF Faces, t
<1>2. CASE c.cls # "Cat"
  <2>1. /\ t.cls = c.cls /\ t.nulls = [k \in DOMAIN rows |-> NullAt(c, rows[k])]
        /\ t.vals = [k \in DOMAIN rows |-> ValueAt(c, rows[k])] BY <1>2 DEF Take, Column
  <2> HIDE DEF t
  <2>2. NullAt(t, i) = NullAt(c, rows[i]) /\ ValueAt(t, i) = ValueAt(c, rows[i]) BY <2>1 DEF NullAt, ValueAt
  <2>3. Cell(t, i) = Cell(c, rows[i]) BY <1>2, <2>1, <2>2 DEF Cell, Get
  <2>4. Faces(t, i) = {Cell(t, i)} BY <1>2, <2>1 DEF Faces
  <2>5. QED BY <2>3, <2>4 DEF Faces, t
<1>3. QED BY <1>1, <1>2

(* A copy of a cell is that cell. *)
LEMMA CloneFaces ==
  ASSUME NEW c, NEW i
  PROVE  Faces(Clone(c), i) \subseteq Faces(c, i)
<1> DEFINE t == Clone(c)
<1>1. t.cls = c.cls /\ t.nulls = c.nulls /\ t.vals = c.vals /\ t.cats = <<>> BY DEF Clone, Column
<1> HIDE DEF t
<1>2. NullAt(t, i) = NullAt(c, i) /\ ValueAt(t, i) = ValueAt(c, i) BY <1>1 DEF NullAt, ValueAt
<1>3. CASE c.cls = "Cat"
  <2>1. Cell(t, i) = <<"Cat", IF NullAt(c, i) THEN None ELSE "">>
    BY <1>1, <1>2, <1>3, EmptyList DEF Cell, Get
  <2>2. QED BY <1>1, <1>2, <1>3, <2>1 DEF Faces, t
<1>4. CASE c.cls # "Cat"
  <2>1. Cell(t, i) = Cell(c, i) BY <1>1, <1>2, <1>4 DEF Cell, Get
  <2>2. QED BY <1>1, <1>4, <2>1 DEF Faces, t
<1>5. QED BY <1>3, <1>4

(* A column below itself: each cell is one of the column. *)
LEMMA JoinedFaces ==
  ASSUME NEW c, ColumnShape(c), NEW i \in 1..(Length(c) + Length(c)), NEW j,
         j = IF i <= Length(c) THEN i ELSE i - Length(c)
  PROVE  Faces(Joined(c, c), i) \subseteq Faces(c, j)
<1> DEFINE t == Joined(c, c)  n == Length(c)  v == Cells(c)
<1>1. n \in Nat /\ DOMAIN c.nulls = 1..n /\ IsList(c.nulls) /\ Len(c.nulls) = n
  BY LengthNat DEF ColumnShape, Length
<1>2. v = [k \in 1..n |-> v[k]] BY DEF Cells
<1>3. \A k \in 1..n : v[k] = ValueAt(c, k) BY DEF Cells
<1>4. /\ t.cls = c.cls /\ t.nulls = c.nulls \o c.nulls /\ t.cats = <<>>
      /\ t.vals = IF c.cls = "Cat" THEN <<>> ELSE v \o v BY DEF Joined, Column
<1> HIDE DEF t, n, v
<1>5. IsList(v) /\ Len(v) = n BY <1>1, <1>2, ListIntro
<1>6. j \in 1..n /\ i \in 1..(n + n) /\ (i = j \/ i = n + j) BY <1>1 DEF n
<1>7. DOMAIN t.nulls = 1..(n + n) /\ t.nulls[i] = c.nulls[j]
  <2>1. /\ IsList(c.nulls \o c.nulls) /\ Len(c.nulls \o c.nulls) = n + n
        /\ \A k \in 1..n : (c.nulls \o c.nulls)[k] = c.nulls[k]
        /\ \A k \in 1..n : (c.nulls \o c.nulls)[n + k] = c.nulls[k] BY <1>1, ConcatList
  <2>2. DOMAIN (c.nulls \o c.nulls) = 1..(n + n) BY <2>1, ListElim
  <2>3. QED BY <1>4, <1>6, <2>1, <2>2
<1>8. NullAt(t, i) = NullAt(c, j) BY <1>1, <1>6, <1>7 DEF NullAt
<1>9. CASE c.cls = "Cat"
  <2>1. Cell(t, i) = <<"Cat", IF NullAt(c, j) THEN None ELSE "">>
    BY <1>4, <1>8, <1>9, EmptyList DEF Cell, Get
  <2>2. QED BY <1>4, <1>8, <1>9, <2>1 DEF Faces, t
<1>10. CASE c.cls # "Cat"
  <2>1. /\ IsList(v \o v) /\ Len(v \o v) = n + n
        /\ \A k \in 1..n : (v \o v)[k] = v[k]
        /\ \A k \in 1..n : (v \o v)[n + k] = v[k] BY <1>5, ConcatList
  <2>2. DOMAIN (v \o v) = 1..(n + n) BY <2>1, ListElim
  <2>3. (v \o v)[i] = ValueAt(c, j) BY <1>3, <1>6, <2>1
  <2>4. ValueAt(t, i) = ValueAt(c, j) BY <1>4, <1>6, <1>10, <2>2, <2>3 DEF ValueAt
  <2>5. Cell(t, i) = Cell(c, j) BY <1>4, <1>8, <1>10, <2>4 DEF Cell, Get
  <2>6. QED BY <1>4, <1>10, <2>5 DEF Faces, t
<1>11. QED BY <1>9, <1>10

(* Rows that are taken by their numbers. *)
LEMMA TakenDraws ==
  ASSUME NEW f, NEW rows, NEW g, \A i \in 1..g.nrows : i \in DOMAIN rows /\ rows[i] \in 1..f.nrows,
         \A k \in DOMAIN g.cols : \E m \in DOMAIN f.cols : g.cols[k] = Take(f.cols[m], rows),
         \A k \in DOMAIN g.ix.levels : \E m \in DOMAIN f.ix.levels : g.ix.levels[k] = Take(f.ix.levels[m], rows)
  PROVE  Draws(g, f)
<1> SUFFICES ASSUME NEW i \in 1..g.nrows PROVE \E j \in 1..f.nrows : DrawnRow(g, i, f, j) BY DEF Draws
<1>1. i \in DOMAIN rows /\ rows[i] \in 1..f.nrows OBVIOUS
<1>2. \A k \in DOMAIN g.cols : DrawnFrom(g.cols[k], i, f, rows[i]) BY <1>1, TakeFaces DEF DrawnFrom
<1>3. \A k \in DOMAIN g.ix.levels : DrawnFrom(g.ix.levels[k], i, f, rows[i]) BY <1>1, TakeFaces DEF DrawnFrom
<1>4. DrawnRow(g, i, f, rows[i]) BY <1>2, <1>3 DEF DrawnRow
<1>5. QED BY <1>1, <1>4

(* Rows of a frame taken by their numbers, columns and levels alike. *)
LEMMA TakeRowsDraws ==
  ASSUME NEW f, NEW rows, IsList(rows), \A i \in 1..Len(rows) : rows[i] \in 1..f.nrows
  PROVE  Draws(TakeRows(f, rows), f)
<1> DEFINE g == TakeRows(f, rows)
<1>1. /\ g.nrows = Len(rows) /\ DOMAIN g.cols = DOMAIN f.cols /\ DOMAIN g.ix.levels = DOMAIN f.ix.levels
      /\ \A k \in DOMAIN f.cols : g.cols[k] = Take(f.cols[k], rows)
      /\ \A k \in DOMAIN f.ix.levels : g.ix.levels[k] = Take(f.ix.levels[k], rows)
  BY DEF TakeRows, Frame, TakeIndex, WithLevels
<1>2. DOMAIN rows = 1..Len(rows) BY ListElim
<1> HIDE DEF g
<1>3. Draws(g, f) BY <1>1, <1>2, TakenDraws
<1>4. QED BY <1>3 DEF g

(* Columns and levels that are moved, and copied or not. *)
MovedFrom(c, cs) == \E m \in DOMAIN cs : c = cs[m] \/ c = Clone(cs[m])
(* The column c is a column or a level of f. *)
Moved(c, f) == MovedFrom(c, f.cols) \/ MovedFrom(c, f.ix.levels)

(* A frame made of columns and levels moved about keeps its rows. *)
LEMMA MovedDraws ==
  ASSUME NEW f, NEW g, g.nrows = f.nrows,
         \A k \in DOMAIN g.cols : Moved(g.cols[k], f), \A k \in DOMAIN g.ix.levels : Moved(g.ix.levels[k], f)
  PROVE  Draws(g, f)
<1> SUFFICES ASSUME NEW i \in 1..f.nrows PROVE DrawnRow(g, i, f, i) BY DEF Draws
<1>1. ASSUME NEW c, Moved(c, f) PROVE DrawnFrom(c, i, f, i)
  <2>1. CASE MovedFrom(c, f.cols) BY <2>1, CloneFaces DEF MovedFrom, DrawnFrom
  <2>2. CASE MovedFrom(c, f.ix.levels) BY <2>2, CloneFaces DEF MovedFrom, DrawnFrom
  <2>3. QED BY <1>1, <2>1, <2>2 DEF Moved
<1>2. QED BY <1>1 DEF DrawnRow

(* Every row that filter returns is a row of the frame. *)
LEMMA FilterDraws ==
  ASSUME NEW f, NEW mask, Length(mask) = f.nrows, f.nrows \in Nat
  PROVE  Draws(Filter(f, mask), f)
<1>1. IsList(Kept(mask)) /\ ToSet(Kept(mask)) \subseteq 1..f.nrows BY KeptFacts
<1>2. \A i \in 1..Len(Kept(mask)) : Kept(mask)[i] \in ToSet(Kept(mask)) BY <1>1, MemberOfList
<1>3. QED BY <1>1, <1>2, TakeRowsDraws DEF Filter

(* Every row that head returns is a row of the frame. *)
LEMMA HeadDraws ==
  ASSUME NEW f, NEW g, NEW ok, Twin(f, g, ok), NEW n \in Nat
  PROVE  Draws(HeadRows(f, n), f)
<1> DEFINE m == Clamp(n, f)  rows == Rows(m)
<1>1. f.nrows \in Nat /\ m \in 0..f.nrows BY ClampFacts DEF Twin
<1> HIDE DEF m
<1>2. IsList(rows) /\ Len(rows) = m BY <1>1, RowsList
<1>3. \A i \in 1..m : rows[i] \in 1..f.nrows BY <1>1 DEF Rows
<1>4. QED BY <1>2, <1>3, TakeRowsDraws DEF HeadRows, m

(* Every row that tail returns is a row of the frame. *)
LEMMA TailDraws ==
  ASSUME NEW f, NEW g, NEW ok, Twin(f, g, ok), NEW n \in Nat
  PROVE  Draws(TailRows(f, n), f)
<1> DEFINE m == Clamp(n, f)  rows == [k \in 1..m |-> f.nrows - m + k]
<1>1. f.nrows \in Nat /\ m \in 0..f.nrows BY ClampFacts DEF Twin
<1>2. TailRows(f, n) = TakeRows(f, rows) BY DEF TailRows
<1> HIDE DEF m
<1>3. IsList(rows) /\ Len(rows) = m
  <2>1. rows = [k \in 1..m |-> rows[k]] /\ m \in Nat BY <1>1
  <2> HIDE DEF rows
  <2>2. QED BY <2>1, ListIntro
<1>4. \A i \in 1..m : rows[i] \in 1..f.nrows BY <1>1
<1> HIDE DEF rows
<1>5. QED BY <1>2, <1>3, <1>4, TakeRowsDraws

(* Every row that iloc returns is a row of the frame. *)
LEMMA ILocDraws ==
  ASSUME NEW f, f.nrows \in Nat, NEW lo \in Int, NEW hi \in Int
  PROVE  Draws(ILoc(f, lo, hi), f)
<1> DEFINE rows == Slice(Bound(lo, f.nrows), Bound(hi, f.nrows))
<1>1. IsList(rows) /\ \A i \in 1..Len(rows) : rows[i] \in 1..f.nrows BY BoundFacts, SliceFacts
<1> HIDE DEF rows
<1>2. QED BY <1>1, TakeRowsDraws DEF ILoc, rows

(* Every row that iloc of rows and columns returns is a row of the frame. *)
LEMMA ILoc2DDraws ==
  ASSUME NEW f, NEW g, NEW ok, Twin(f, g, ok), NEW r1 \in Int, NEW r2 \in Int, NEW c1 \in Int, NEW c2 \in Int
  PROVE  Draws(ILoc2D(f, r1, r2, c1, c2), f)
<1>1. f.nrows \in Nat /\ TwinCols(f.cols, g.cols, ok, f.nrows) BY DEF Twin
<1>2. Len(f.cols) \in Nat /\ DOMAIN f.cols = 1..Len(f.cols) BY <1>1, ColsElim
<1> DEFINE rows == Slice(Bound(r1, f.nrows), Bound(r2, f.nrows))
           cs == Slice(Bound(c1, Len(f.cols)), Bound(c2, Len(f.cols)))
           h == ILoc2D(f, r1, r2, c1, c2)
<1>3. IsList(rows) /\ \A i \in 1..Len(rows) : rows[i] \in 1..f.nrows BY <1>1, BoundFacts, SliceFacts
<1>4. IsList(cs) /\ \A k \in 1..Len(cs) : cs[k] \in DOMAIN f.cols BY <1>2, BoundFacts, SliceFacts
<1>5. /\ h.nrows = Len(rows) /\ DOMAIN h.cols = DOMAIN cs /\ DOMAIN h.ix.levels = DOMAIN f.ix.levels
      /\ \A k \in DOMAIN cs : h.cols[k] = Take(f.cols[cs[k]], rows)
      /\ \A k \in DOMAIN f.ix.levels : h.ix.levels[k] = Take(f.ix.levels[k], rows)
  BY DEF ILoc2D, Frame, TakeIndex, WithLevels
<1> HIDE DEF rows, cs, h
<1>6. DOMAIN rows = 1..Len(rows) /\ DOMAIN cs = 1..Len(cs) BY <1>3, <1>4, ListElim
<1>7. \A i \in 1..h.nrows : i \in DOMAIN rows /\ rows[i] \in 1..f.nrows BY <1>3, <1>5, <1>6
<1>8. \A k \in DOMAIN h.cols : \E m \in DOMAIN f.cols : h.cols[k] = Take(f.cols[m], rows)
  <2> SUFFICES ASSUME NEW k \in DOMAIN cs PROVE \E m \in DOMAIN f.cols : h.cols[k] = Take(f.cols[m], rows) BY <1>5
  <2>1. cs[k] \in DOMAIN f.cols BY <1>4, <1>6
  <2>2. QED BY <1>5, <2>1
<1>9. \A k \in DOMAIN h.ix.levels : \E m \in DOMAIN f.ix.levels : h.ix.levels[k] = Take(f.ix.levels[m], rows)
  BY <1>5
<1>10. Draws(h, f) BY <1>7, <1>8, <1>9, TakenDraws
<1>11. QED BY <1>10 DEF h

(* Every row that dropna returns is a row of the frame. *)
LEMMA DropNaDraws ==
  ASSUME NEW f, f.nrows \in Nat, NEW names
  PROVE  Draws(DropNa(f, names), f)
<1> DEFINE S == {i \in 1..f.nrows : \A k \in DOMAIN f.names : f.names[k] \in names => ~NullAt(f.cols[k], i)}
           rows == RowsIn(f.nrows, S)
<1>1. DropNa(f, names) = TakeRows(f, rows) BY DEF DropNa
<1> HIDE DEF S
<1>2. IsList(rows) /\ \A i \in 1..Len(rows) : rows[i] \in 1..f.nrows BY RowsInEntries
<1> HIDE DEF rows
<1>3. QED BY <1>1, <1>2, TakeRowsDraws

(* Every row that sort_by returns is a row of the frame. *)
LEMMA SortByDraws ==
  ASSUME NEW f, NEW g, Twin(f, g, TRUE), NEW name, HasColumn(f, name), NEW up
  PROVE  Draws(SortBy(f, name, up), f)
<1> DEFINE c == ColumnOf(f, name)
           rows == SortRows(c, up)
           h == SortBy(f, name, up)
<1>1. TwinCol(c, ColumnOf(g, name)) /\ Length(c) = f.nrows BY ColumnOfTwin
<1>2. IsList(rows) /\ Len(rows) = f.nrows /\ ToSet(rows) = 1..f.nrows BY <1>1, ShapeOf, SortRowsFacts
<1>3. /\ h.nrows = f.nrows /\ DOMAIN h.cols = DOMAIN f.cols /\ DOMAIN h.ix.levels = DOMAIN f.ix.levels
      /\ \A k \in DOMAIN f.cols : h.cols[k] = Take(f.cols[k], rows)
      /\ \A k \in DOMAIN f.ix.levels : h.ix.levels[k] = Take(f.ix.levels[k], rows)
  BY DEF SortBy, TakeRows, Frame, TakeIndex, WithLevels
<1> HIDE DEF rows, c, h
<1>4. DOMAIN rows = 1..f.nrows /\ \A i \in 1..f.nrows : rows[i] \in 1..f.nrows BY <1>2, ListElim, MemberOfList
<1>5. Draws(h, f) BY <1>3, <1>4, TakenDraws
<1>6. QED BY <1>5 DEF h

(* Every row that sort_index returns is a row of the frame. *)
LEMMA SortIndexDraws ==
  ASSUME NEW f, NEW g, Twin(f, g, TRUE), f.ix.levels # <<>>, NEW up
  PROVE  Draws(SortIndex(f, up), f)
<1>1. TwinCols(f.ix.levels, g.ix.levels, TRUE, f.nrows) /\ f.nrows \in Nat BY DEF Twin, TwinIndex
<1>2. 1 \in 1..Len(f.ix.levels) BY <1>1, ColsElim
<1> DEFINE n == Length(f.ix.levels[1])
           before == {p \in (1..n) \X (1..n) : IndexBefore(f.ix, p[1], p[2])}
           perm == Sorted(Rows(n), before)
           rows == IF up THEN perm ELSE Reverse(perm)
<1>2a. Length(f.ix.levels[1]) = f.nrows BY <1>1, <1>2 DEF TwinCols
<1>3. n = f.nrows BY <1>2a
<1>4. SortIndex(f, up) = TakeRows(f, rows) BY DEF SortIndex
<1> HIDE DEF n, before
<1>5. IsList(perm) /\ ToSet(perm) = 1..f.nrows BY <1>1, <1>3, RowsList, SortedFacts
<1> HIDE DEF perm
<1>6. IsList(rows) /\ ToSet(rows) = 1..f.nrows BY <1>5, ReverseList
<1> HIDE DEF rows
<1>7. \A i \in 1..Len(rows) : rows[i] \in 1..f.nrows BY <1>6, MemberOfList
<1>8. QED BY <1>4, <1>6, <1>7, TakeRowsDraws

(* Every row that loc by a range returns is a row of the frame. *)
LEMMA LocRangeLevelDraws ==
  ASSUME NEW f, NEW g, Twin(f, g, TRUE), NEW k \in 1..Len(f.ix.levels), NEW lo, NEW hi
  PROVE  Draws(LocRangeLevel(f, k, lo, hi), f)
<1>0. TwinCols(f.ix.levels, g.ix.levels, TRUE, f.nrows) /\ f.nrows \in Nat BY DEF Twin, TwinIndex
<1>1. Length(f.ix.levels[k]) = f.nrows BY <1>0, ColsOf
<1> DEFINE mask == Between(f.ix.levels[k], lo, hi)
<1>2. Length(mask) = f.nrows BY <1>1 DEF Between, Mask, Column, Length
<1>3. LocRangeLevel(f, k, lo, hi) = Filter(f, mask) BY DEF LocRangeLevel, Filter
<1> HIDE DEF mask
<1>4. QED BY <1>0, <1>2, <1>3, FilterDraws

(* Every row that loc by a label returns is a row of the frame. *)
LEMMA SelectByLabelDraws ==
  ASSUME NEW f, NEW g, Twin(f, g, TRUE), f.ix.levels # <<>>, NEW x, LabelRow(f, x) # 0
  PROVE  Draws(SelectByLabel(f, x), f)
<1>1. TwinCols(f.ix.levels, g.ix.levels, TRUE, f.nrows) /\ f.nrows \in Nat BY DEF Twin, TwinIndex
<1>2. 1 \in 1..Len(f.ix.levels) BY <1>1, ColsElim
<1> DEFINE c == f.ix.levels[1]
           S == {i \in 1..Length(c) : ~c.nulls[i] /\ ValueAt(c, i) = x}
           rows == <<LabelRow(f, x)>>
<1>2a. Length(f.ix.levels[1]) = f.nrows BY <1>1, <1>2 DEF TwinCols
<1>3. Length(c) = f.nrows BY <1>2a
<1>4. LabelRow(f, x) = FirstOf(S) BY DEF LabelRow
<1>5. S \subseteq 1..f.nrows BY <1>3
<1> HIDE DEF c, S
<1>6. LabelRow(f, x) \in 1..f.nrows
  <2>1. S \in SUBSET Nat BY <1>1, <1>5
  <2>2. FirstOf(S) \in S \union {0} BY <2>1, FirstOfFacts
  <2>3. QED BY <1>4, <1>5, <2>2
<1>7. IsList(rows) /\ Len(rows) = 1 /\ rows[1] = LabelRow(f, x) BY OneList
<1> HIDE DEF rows
<1>8. Draws(TakeRows(f, rows), f) BY <1>6, <1>7, TakeRowsDraws
<1>9. QED BY <1>8 DEF SelectByLabel, rows

(* The levels of a copied index are levels of the frame. *)
LEMMA CloneIndexMoved ==
  ASSUME NEW f, NEW k \in DOMAIN CloneIndex(f.ix).levels
  PROVE  Moved(CloneIndex(f.ix).levels[k], f)
BY DEF CloneIndex, WithLevels, Moved, MovedFrom

(* Columns that are picked are columns of the frame, and its index comes *)
(* along.                                                                *)
LEMMA PickMoved ==
  ASSUME NEW f, NEW ks, IsList(ks), \A k \in 1..Len(ks) : ks[k] \in DOMAIN f.cols
  PROVE  /\ Pick(f, ks).nrows = f.nrows
         /\ \A k \in DOMAIN Pick(f, ks).cols : Moved(Pick(f, ks).cols[k], f)
         /\ Pick(f, ks).ix = CloneIndex(f.ix)
<1>1. DOMAIN ks = 1..Len(ks) BY ListElim
<1>2. QED BY <1>1 DEF Pick, Frame, Moved, MovedFrom

(* So the rows stay together. *)
LEMMA PickDraws ==
  ASSUME NEW f, NEW ks, IsList(ks), \A k \in 1..Len(ks) : ks[k] \in DOMAIN f.cols
  PROVE  Draws(Pick(f, ks), f)
<1> DEFINE h == Pick(f, ks)
<1>1. h.nrows = f.nrows /\ (\A k \in DOMAIN h.cols : Moved(h.cols[k], f)) /\ h.ix = CloneIndex(f.ix) BY PickMoved
<1> HIDE DEF h
<1>2. \A k \in DOMAIN h.ix.levels : Moved(h.ix.levels[k], f) BY <1>1, CloneIndexMoved
<1>3. Draws(h, f) BY <1>1, <1>2, MovedDraws
<1>4. QED BY <1>3 DEF h

(* The positions that are left are positions of columns. *)
LEMMA PickRestMoved ==
  ASSUME NEW f, NEW g, NEW ok, Twin(f, g, ok), NEW S
  PROVE  /\ IsList(RowsIn(Len(f.names), S))
         /\ \A k \in 1..Len(RowsIn(Len(f.names), S)) : RowsIn(Len(f.names), S)[k] \in DOMAIN f.cols
BY TwinParts, RowsInEntries

(* Every row after select is made of cells of one row of the frame. *)
LEMMA SelectDraws ==
  ASSUME NEW f, NEW g, NEW ok, Twin(f, g, ok), NEW names, IsList(names),
         \A k \in 1..Len(names) : HasColumn(f, names[k])
  PROVE  Draws(Select(f, names), f)
<1> DEFINE ks == [k \in DOMAIN names |-> Position(f.names, names[k])]
<1>1. DOMAIN names = 1..Len(names) BY ListElim
<1>2. ks = [k \in DOMAIN names |-> ks[k]] OBVIOUS
<1>3. \A k \in 1..Len(names) : ks[k] \in DOMAIN f.cols BY <1>1, ColumnOfTwin, TwinParts
<1>4. Select(f, names) = Pick(f, ks) BY DEF Select
<1> HIDE DEF ks
<1>5. IsList(ks) /\ Len(ks) = Len(names) BY <1>2, MapLen
<1>6. QED BY <1>3, <1>4, <1>5, PickDraws

(* Every row after drop is made of cells of one row of the frame. *)
LEMMA DropDraws ==
  ASSUME NEW f, NEW g, NEW ok, Twin(f, g, ok), NEW names
  PROVE  Draws(Drop(f, names), f)
BY PickRestMoved, PickDraws DEF Drop

(* Every row after rename is made of cells of one row of the frame. *)
LEMMA RenameDraws ==
  ASSUME NEW f, NEW old, NEW new
  PROVE  Draws(Rename(f, old, new), f)
<1> DEFINE h == Rename(f, old, new)
<1>1. h.nrows = f.nrows /\ h.cols = f.cols /\ h.ix = CloneIndex(f.ix) BY DEF Rename, Frame
<1> HIDE DEF h
<1>2. \A k \in DOMAIN h.cols : Moved(h.cols[k], f) BY <1>1 DEF Moved, MovedFrom
<1>3. \A k \in DOMAIN h.ix.levels : Moved(h.ix.levels[k], f) BY <1>1, CloneIndexMoved
<1>4. Draws(h, f) BY <1>1, <1>2, <1>3, MovedDraws
<1>5. QED BY <1>4 DEF h

(* Every row after a change of index is made of cells of one row of the *)
(* frame.                                                               *)
LEMMA ReindexedDraws ==
  ASSUME NEW f, NEW x, x.nrows = f.nrows, \A k \in DOMAIN x.cols : Moved(x.cols[k], f),
         NEW ix, \A k \in DOMAIN ix.levels : Moved(ix.levels[k], f)
  PROVE  Draws(Reindexed(x, ix), f)
<1> DEFINE h == Reindexed(x, ix)
<1>1. h.nrows = f.nrows /\ h.cols = x.cols /\ h.ix = ix BY DEF Reindexed, Frame
<1> HIDE DEF h
<1>2. Draws(h, f) BY <1>1, MovedDraws
<1>3. QED BY <1>2 DEF h

(* Every row after set_index is made of cells of one row of the frame. *)
LEMMA SetIndexDraws ==
  ASSUME NEW f, NEW g, NEW ok, Twin(f, g, ok), NEW name, HasColumn(f, name)
  PROVE  Draws(SetIndex(f, name), f)
<1> DEFINE S == DOMAIN f.names \ {Position(f.names, name)}
           x == Pick(f, RowsIn(Len(f.names), S))
           c == Clone(ColumnOf(f, name))
           ix == Index(c, name)
<1>1. SetIndex(f, name) = Reindexed(x, ix) BY DEF SetIndex
<1>2. Position(f.names, name) \in DOMAIN f.cols BY ColumnOfTwin, TwinParts
<1>3. Moved(c, f) BY <1>2 DEF ColumnOf, Moved, MovedFrom
<1> HIDE DEF S, c
<1>4. x.nrows = f.nrows /\ \A k \in DOMAIN x.cols : Moved(x.cols[k], f) BY PickRestMoved, PickMoved
<1>5. \A k \in DOMAIN ix.levels : Moved(ix.levels[k], f)
  <2>1. ix.levels = <<c>> BY DEF Index
  <2>2. QED BY <1>3, <2>1
<1> HIDE DEF x, ix
<1>6. QED BY <1>1, <1>4, <1>5, ReindexedDraws

(* Every row after set_index of several names is made of cells of one row *)
(* of the frame.                                                          *)
LEMMA SetIndexMultiDraws ==
  ASSUME NEW f, NEW g, NEW ok, Twin(f, g, ok), NEW names, IsList(names),
         \A k \in 1..Len(names) : HasColumn(f, names[k])
  PROVE  Draws(SetIndexMulti(f, names), f)
<1> DEFINE at == [k \in DOMAIN names |-> Position(f.names, names[k])]
           S == DOMAIN f.names \ ToSet(at)
           x == Pick(f, RowsIn(Len(f.names), S))
           levels == [k \in DOMAIN at |-> Clone(f.cols[at[k]])]
           ix == MultiIndex(levels, names)
<1>1. SetIndexMulti(f, names) = Reindexed(x, ix) BY DEF SetIndexMulti
<1>2. DOMAIN names = 1..Len(names) BY ListElim
<1>3. \A k \in DOMAIN levels : Moved(levels[k], f)
  <2>1. DOMAIN levels = 1..Len(names) /\ \A k \in 1..Len(names) : levels[k] = Clone(f.cols[Position(f.names, names[k])])
    BY <1>2
  <2>2. \A k \in 1..Len(names) : Position(f.names, names[k]) \in DOMAIN f.cols BY ColumnOfTwin, TwinParts
  <2> HIDE DEF levels
  <2>3. QED BY <2>1, <2>2 DEF Moved, MovedFrom
<1> HIDE DEF S, levels
<1>4. x.nrows = f.nrows /\ \A k \in DOMAIN x.cols : Moved(x.cols[k], f) BY PickRestMoved, PickMoved
<1>5. \A k \in DOMAIN ix.levels : Moved(ix.levels[k], f)
  <2>1. ix.levels = <<>> \/ ix.levels = levels BY DEF MultiIndex, NoIndex
  <2>2. QED BY <1>3, <2>1
<1> HIDE DEF x, ix
<1>6. QED BY <1>1, <1>4, <1>5, ReindexedDraws

(* Every row after the levels put back before the columns is made of cells *)
(* of one row of the frame.                                                *)
LEMMA RestoreDraws ==
  ASSUME NEW f, NEW g, NEW ok, Twin(f, g, ok), NEW names
  PROVE  Draws(Restore(f, names), f)
<1> DEFINE h == Restore(f, names)  x == f.ix.levels \o f.cols  m == Len(f.ix.levels)  n == Len(f.cols)
<1>1. /\ h.nrows = f.nrows /\ h.cols = x /\ h.ix.levels = <<>> BY DEF Restore, Frame, NoIndex
<1>2. TwinCols(f.cols, g.cols, ok, f.nrows) /\ TwinCols(f.ix.levels, g.ix.levels, ok, f.nrows)
  BY DEF Twin, TwinIndex
<1>3. IsList(f.cols) /\ IsList(f.ix.levels) BY <1>2 DEF TwinCols
<1>4. m \in Nat /\ n \in Nat /\ DOMAIN f.cols = 1..n /\ DOMAIN f.ix.levels = 1..m BY <1>3, ListElim
<1>5. /\ IsList(x) /\ Len(x) = m + n
      /\ \A i \in 1..m : x[i] = f.ix.levels[i]
      /\ \A i \in 1..n : x[m + i] = f.cols[i]
  <2> DEFINE a == f.ix.levels  b == f.cols
  <2>1. IsList(a) /\ IsList(b) BY <1>3
  <2> HIDE DEF a, b
  <2>2. /\ IsList(a \o b) /\ Len(a \o b) = Len(a) + Len(b)
        /\ \A i \in 1..Len(a) : (a \o b)[i] = a[i]
        /\ \A i \in 1..Len(b) : (a \o b)[Len(a) + i] = b[i] BY <2>1, ConcatList
  <2>3. QED BY <2>2 DEF a, b
<1> HIDE DEF h, x, m, n
<1>6. DOMAIN x = 1..(m + n) BY <1>5, ListElim
<1>7. ASSUME NEW k \in 1..(m + n) PROVE Moved(x[k], f)
  <2>1. CASE k <= m
    <3>1. k \in 1..m BY <1>4, <2>1
    <3>2. x[k] = f.ix.levels[k] BY <1>5, <3>1
    <3>3. QED BY <1>4, <3>1, <3>2 DEF Moved, MovedFrom
  <2>2. CASE ~(k <= m)
    <3>1. k - m \in 1..n /\ k = m + (k - m) BY <1>4, <2>2
    <3>2. x[k] = f.cols[k - m] BY <1>5, <3>1
    <3>3. QED BY <1>4, <3>1, <3>2 DEF Moved, MovedFrom
  <2>3. QED BY <2>1, <2>2
<1>8. Draws(h, f)
  <2>1. \A k \in DOMAIN h.cols : Moved(h.cols[k], f) BY <1>1, <1>6, <1>7
  <2>2. \A k \in DOMAIN h.ix.levels : Moved(h.ix.levels[k], f) BY <1>1, EmptyList
  <2>3. QED BY <1>1, <2>1, <2>2, MovedDraws
<1>9. QED BY <1>8 DEF h

(* Every row after an index let go is made of cells of one row of the *)
(* frame.                                                             *)
LEMMA BareDraws == ASSUME NEW f PROVE Draws(Reindexed(f, NoIndex), f)
<1>1. \A k \in DOMAIN f.cols : Moved(f.cols[k], f) BY DEF Moved, MovedFrom
<1>2. NoIndex.levels = <<>> BY DEF NoIndex
<1>3. QED BY <1>1, <1>2, EmptyList, ReindexedDraws

(* Every row after reset_index is made of cells of one row of the frame. *)
LEMMA ResetDraws ==
  ASSUME NEW f, NEW g, NEW ok, Twin(f, g, ok)
  PROVE  Draws(ResetIndex(f), f) /\ Draws(ResetIndexMulti(f), f)
<1>1. \A names : Draws(Restore(f, names), f) BY RestoreDraws
<1>2. Draws(Reindexed(f, NoIndex), f) BY BareDraws
<1>3. QED BY <1>1, <1>2 DEF ResetIndex, ResetIndexMulti

(* A frame below itself. *)
LEMMA ConcatSelfDraws ==
  ASSUME NEW f, NEW g, Twin(f, g, TRUE), f.cols # <<>>
  PROVE  Draws(ConcatRows(f, f), f)
<1> DEFINE h == ConcatRows(f, f)  n == f.nrows
<1>1. /\ n \in Nat /\ TwinCols(f.cols, g.cols, TRUE, n) /\ TwinCols(f.ix.levels, g.ix.levels, TRUE, n)
  BY DEF Twin, TwinIndex
<1>2. DOMAIN f.cols = 1..Len(f.cols) /\ DOMAIN f.ix.levels = 1..Len(f.ix.levels) /\ 1 \in 1..Len(f.cols)
  BY <1>1, ColsElim
<1>3. /\ \A k \in DOMAIN f.cols : ColumnShape(f.cols[k]) /\ Length(f.cols[k]) = n
      /\ \A k \in DOMAIN f.ix.levels : ColumnShape(f.ix.levels[k]) /\ Length(f.ix.levels[k]) = n
  <2>1. \A k \in 1..Len(f.cols) : TwinCol(f.cols[k], g.cols[k]) /\ Length(f.cols[k]) = n BY <1>1, ColsOf
  <2>2. \A k \in 1..Len(f.ix.levels) : TwinCol(f.ix.levels[k], g.ix.levels[k]) /\ Length(f.ix.levels[k]) = n
    BY <1>1, ColsOf
  <2>3. QED BY <1>2, <2>1, <2>2, ShapeOf
<1>4. h.nrows = n + n BY <1>2, <1>3 DEF ConcatRows, Frame
<1>5. DOMAIN h.cols = DOMAIN f.cols /\ \A k \in DOMAIN f.cols : h.cols[k] = Joined(f.cols[k], f.cols[k])
  BY DEF ConcatRows, Frame
<1>6. h.ix = ConcatIndex(f, f) BY DEF ConcatRows, Frame
<1>7. \A k \in DOMAIN h.ix.levels : k \in DOMAIN f.ix.levels /\ h.ix.levels[k] = Joined(f.ix.levels[k], f.ix.levels[k])
  <2>1. \/ h.ix.levels = <<>>
        \/ h.ix.levels = [k \in DOMAIN f.ix.levels |-> Joined(f.ix.levels[k], f.ix.levels[k])]
    BY <1>6 DEF ConcatIndex, NoIndex, WithLevels
  <2> HIDE DEF h
  <2>2. CASE h.ix.levels = <<>> BY <2>2, EmptyList
  <2>3. CASE h.ix.levels = [k \in DOMAIN f.ix.levels |-> Joined(f.ix.levels[k], f.ix.levels[k])] BY <2>3
  <2>4. QED BY <2>1, <2>2, <2>3
<1> HIDE DEF h, n
<1>8. ASSUME NEW i \in 1..(n + n) PROVE \E j \in 1..n : DrawnRow(h, i, f, j)
  <2>1. PICK j : j = IF i <= n THEN i ELSE i - n OBVIOUS
  <2>2. j \in 1..n BY <1>1, <2>1 DEF n
  <2>3. \A k \in DOMAIN f.cols : Faces(Joined(f.cols[k], f.cols[k]), i) \subseteq Faces(f.cols[k], j)
    BY <1>3, <2>1, JoinedFaces
  <2>4. \A k \in DOMAIN f.ix.levels :
          Faces(Joined(f.ix.levels[k], f.ix.levels[k]), i) \subseteq Faces(f.ix.levels[k], j)
    BY <1>3, <2>1, JoinedFaces
  <2>5. DrawnRow(h, i, f, j) BY <1>5, <1>7, <2>3, <2>4 DEF DrawnRow, DrawnFrom
  <2>6. QED BY <2>2, <2>5
<1>9. Draws(h, f) BY <1>4, <1>8 DEF Draws, n
<1>10. QED BY <1>9 DEF h

(* The inductive invariant: the frames are twins, and as long as every call *)
(* has only moved cells the rows are those of the first frame.              *)
RowsInv == TwinsInv /\ (whole => counted /\ RowsFrom(df[1], origin))

(* What a call does to the rows: those it returns are drawn from the frame. *)
Keeping == origin' = origin /\ (whole' => whole /\ (counted => counted') /\ Draws(df'[1], df[1]))

(* A step of filter draws its rows from those of the frame. *)
LEMMA FilterKeeping == ASSUME Twin(df[1], df[2], TRUE), FilterRows PROVE Keeping
<1>1. PICK n \in Of(Ordered), how \in {"lt", "not", "or", "and"} :
        FilterOK(f1, MaskOf(f1, n, how)) /\ Move(LAMBDA f : Filter(f, MaskOf(f, n, how))) BY DEF FilterRows
<1> DEFINE f == df[1]  mask == MaskOf(f, n, how)
<1>2. /\ df'[1] = Filter(f, mask) /\ origin' = origin
      /\ whole' = (whole /\ TRUE) /\ counted' = (counted /\ TRUE) BY <1>1 DEF Move, Call, Copies
<1>3. Length(mask) = f.nrows BY <1>1 DEF FilterOK, f1
<1>4. f.nrows \in Nat BY DEF Twin
<1> HIDE DEF f, mask
<1>5. Draws(Filter(f, mask), f) BY <1>3, <1>4, FilterDraws
<1>6. QED BY <1>2, <1>5 DEF Keeping, f

(* A step of head, tail and iloc draws its rows from those of the frame. *)
LEMMA SliceKeeping == ASSUME Twin(df[1], df[2], TRUE), SliceRows PROVE Keeping
<1> DEFINE f == df[1]  g == df[2]
<1>1. Twin(f, g, TRUE) /\ f.nrows \in Nat BY DEF Twin
<1>2. /\ origin' = origin /\ whole' = (whole /\ TRUE) /\ counted' = (counted /\ TRUE)
      /\ df'[1] \in {HeadRows(f, 2), TailRows(f, 2), ILoc(f, -2, 9), ILoc2D(f, 1, 9, 0, -1)}
  BY DEF SliceRows, Move, Call, Copies
<1> HIDE DEF f, g
<1>3. /\ Draws(HeadRows(f, 2), f) /\ Draws(TailRows(f, 2), f)
      /\ Draws(ILoc(f, -2, 9), f) /\ Draws(ILoc2D(f, 1, 9, 0, -1), f)
  <2>1. Draws(HeadRows(f, 2), f) /\ Draws(TailRows(f, 2), f) BY <1>1, HeadDraws, TailDraws
  <2>2. Draws(ILoc(f, -2, 9), f) BY <1>1, ILocDraws
  <2>3. Draws(ILoc2D(f, 1, 9, 0, -1), f)
    <3>1. \A r1, r2, c1, c2 \in Int : Draws(ILoc2D(f, r1, r2, c1, c2), f) BY <1>1, ILoc2DDraws
    <3>2. QED BY <3>1
  <2>4. QED BY <2>1, <2>2, <2>3
<1>4. QED BY <1>2, <1>3 DEF Keeping, f

(* A step of dropna draws its rows from those of the frame. *)
LEMMA DropRowsKeeping == ASSUME Twin(df[1], df[2], TRUE), DropRows PROVE Keeping
<1> DEFINE f == df[1]
<1>1. f.nrows \in Nat BY DEF Twin
<1>2. /\ origin' = origin /\ whole' = (whole /\ TRUE) /\ counted' = (counted /\ TRUE)
      /\ \E names : df'[1] = DropNa(f, names)
  BY DEF DropRows, Move, Call, Copies
<1> HIDE DEF f
<1>3. \A names : Draws(DropNa(f, names), f) BY <1>1, DropNaDraws
<1>4. QED BY <1>2, <1>3 DEF Keeping, f

(* A step of sort_by draws its rows from those of the frame. *)
LEMMA SortKeeping == ASSUME Twin(df[1], df[2], TRUE), SortRowsBy PROVE Keeping
<1> DEFINE f == df[1]  g == df[2]
<1>1. Twin(f, g, TRUE) OBVIOUS
<1>2. PICK n \in Names, up \in BOOLEAN : Move(LAMBDA h : SortBy(h, n, up)) BY DEF SortRowsBy
<1>3. /\ df'[1] = SortBy(f, n, up) /\ origin' = origin
      /\ whole' = (whole /\ TRUE) /\ counted' = (counted /\ TRUE) BY <1>2 DEF Move, Call, Copies
<1>4. HasColumn(f, n) BY DEF Names, f1, HasColumn
<1> HIDE DEF f, g
<1>5. Draws(SortBy(f, n, up), f) BY <1>1, <1>4, SortByDraws
<1>6. QED BY <1>3, <1>5 DEF Keeping, f

(* A step of sort_index draws its rows from those of the frame. *)
LEMMA SortIndexKeeping == ASSUME Twin(df[1], df[2], TRUE), SortRowsByIndex PROVE Keeping
<1> DEFINE f == df[1]  g == df[2]
<1>1. Twin(f, g, TRUE) OBVIOUS
<1>2. PICK up \in BOOLEAN : f1.ix.levels # <<>> /\ Move(LAMBDA h : SortIndex(h, up)) BY DEF SortRowsByIndex
<1>3. /\ df'[1] = SortIndex(f, up) /\ origin' = origin
      /\ whole' = (whole /\ TRUE) /\ counted' = (counted /\ TRUE) BY <1>2 DEF Move, Call, Copies
<1>4. f.ix.levels # <<>> BY <1>2 DEF f1
<1> HIDE DEF f, g
<1>5. Draws(SortIndex(f, up), f) BY <1>1, <1>4, SortIndexDraws
<1>6. QED BY <1>3, <1>5 DEF Keeping, f

(* A step of loc draws its rows from those of the frame. *)
LEMMA LocateKeeping == ASSUME Twin(df[1], df[2], TRUE), Locate PROVE Keeping
<1> DEFINE f == df[1]  g == df[2]  m == Len(f.ix.levels)
<1>1. Twin(f, g, TRUE) OBVIOUS
<1>2. /\ origin' = origin /\ whole' = (whole /\ TRUE) /\ counted' = (counted /\ TRUE)
      /\ \E x : \/ IsMulti(f) /\ df'[1] = LocRangeMulti(f, x, x)
                \/ IsSingle(f) /\ df'[1] = LocRange(f, x, x)
                \/ IsSingle(f) /\ LabelRow(f, x) # 0 /\ df'[1] = SelectByLabel(f, x)
  <2>1. CASE /\ IsMulti(f1) /\ Last(f1.ix.levels).cls \in LabelClasses
             /\ LET x == Probe(Last(f1.ix.levels).cls) IN Move(LAMBDA h : LocRangeMulti(h, x, x))
    <3>1. PICK x : x = Probe(Last(f1.ix.levels).cls) OBVIOUS
    <3>2. QED BY <2>1, <3>1 DEF Move, Call, Copies, f1
  <2>2. CASE /\ IsSingle(f1) /\ f1.ix.levels[1].cls \in LabelClasses
             /\ LET x == Probe(f1.ix.levels[1].cls)
                IN  \/ Move(LAMBDA h : LocRange(h, x, x))
                    \/ LabelRow(f1, x) # 0 /\ Move(LAMBDA h : SelectByLabel(h, x))
    <3>1. PICK x : x = Probe(f1.ix.levels[1].cls) OBVIOUS
    <3>2. QED BY <2>2, <3>1 DEF Move, Call, Copies, f1
  <2>3. QED BY <2>1, <2>2 DEF Locate
<1> HIDE DEF f, g
<1>3. TwinIndex(f.ix, g.ix, TRUE, f.nrows) BY <1>1, TwinParts
<1>4. /\ m \in Nat /\ (f.ix.levels # <<>> => 1 \in 1..m) /\ (IsMulti(f) => f.ix.levels # <<>>)
  BY <1>3, IndexParts DEF IsMulti
<1>5. IsMulti(f) => m \in 1..m BY <1>4
<1>6. \A x : \A k \in 1..Len(f.ix.levels) : Draws(LocRangeLevel(f, k, x, x), f) BY <1>1, LocRangeLevelDraws
<1>7. \A x : IsMulti(f) => Draws(LocRangeMulti(f, x, x), f) BY <1>5, <1>6 DEF LocRangeMulti
<1>8. \A x : IsSingle(f) => Draws(LocRange(f, x, x), f) BY <1>4, <1>6 DEF LocRange, IsSingle
<1>9. \A x : IsSingle(f) /\ LabelRow(f, x) # 0 => Draws(SelectByLabel(f, x), f)
  BY <1>1, SelectByLabelDraws DEF IsSingle
<1>10. QED BY <1>2, <1>7, <1>8, <1>9 DEF Keeping, f

(* A step of select, drop and rename draws its rows from those of the *)
(* frame.                                                             *)
LEMMA ChooseKeeping == ASSUME Twin(df[1], df[2], TRUE), ChooseColumns PROVE Keeping
<1> DEFINE f == df[1]  g == df[2]
<1>1. Twin(f, g, TRUE) OBVIOUS
<1>2. /\ origin' = origin /\ whole' = (whole /\ TRUE) /\ counted' = (counted /\ TRUE)
      /\ \E n \in Names : df'[1] \in {Select(f, <<n>>), Drop(f, {n}), Rename(f, n, "z")}
  BY DEF ChooseColumns, Move, Call, Copies
<1>3. \A n \in Names : HasColumn(f, n) BY DEF Names, f1, HasColumn
<1> HIDE DEF f, g
<1>4. ASSUME NEW n \in Names PROVE Draws(Select(f, <<n>>), f)
  <2> DEFINE ns == <<n>>
  <2>1. IsList(ns) /\ \A k \in 1..Len(ns) : HasColumn(f, ns[k]) BY <1>3, OneList
  <2> HIDE DEF ns
  <2>2. Draws(Select(f, ns), f) BY <1>1, <2>1, SelectDraws
  <2>3. QED BY <2>2 DEF ns
<1>5. \A n : Draws(Drop(f, {n}), f)
  <2>1. \A names : Draws(Drop(f, names), f) BY <1>1, DropDraws
  <2>2. QED BY <2>1
<1>6. \A n : Draws(Rename(f, n, "z"), f) BY RenameDraws
<1>7. QED BY <1>2, <1>4, <1>5, <1>6 DEF Keeping, f

(* A step of set_index and reset_index draws its rows from those of the *)
(* frame.                                                               *)
LEMMA MoveIndexKeeping == ASSUME Twin(df[1], df[2], TRUE), MoveIndex PROVE Keeping
<1> DEFINE f == df[1]  g == df[2]
<1>1. Twin(f, g, TRUE) OBVIOUS
<1>2. /\ origin' = origin /\ whole' = (whole /\ TRUE) /\ counted' = (counted /\ TRUE)
      /\ \/ \E n \in Names : df'[1] = SetIndex(f, n)
         \/ \E m, n \in Names : df'[1] = SetIndexMulti(f, <<m, n>>)
         \/ df'[1] = ResetIndex(f)
         \/ df'[1] = ResetIndexMulti(f)
  BY DEF MoveIndex, Move, Call, Copies
<1>3. \A n \in Names : HasColumn(f, n) BY DEF Names, f1, HasColumn
<1> HIDE DEF f, g
<1>4. \A n \in Names : Draws(SetIndex(f, n), f) BY <1>1, <1>3, SetIndexDraws
<1>5. ASSUME NEW m \in Names, NEW n \in Names PROVE Draws(SetIndexMulti(f, <<m, n>>), f)
  <2> DEFINE ns == <<m, n>>
  <2>1. IsList(ns) /\ \A k \in 1..Len(ns) : HasColumn(f, ns[k]) BY <1>3, TwoList
  <2> HIDE DEF ns
  <2>2. Draws(SetIndexMulti(f, ns), f) BY <1>1, <2>1, SetIndexMultiDraws
  <2>3. QED BY <2>2 DEF ns
<1>6. Draws(ResetIndex(f), f) /\ Draws(ResetIndexMulti(f), f) BY <1>1, ResetDraws
<1>7. QED BY <1>2, <1>4, <1>5, <1>6 DEF Keeping, f

(* A step of a frame put below itself (a merge makes rows of two frames, *)
(* and is not claimed to) draws its rows from those of the frame.        *)
LEMMA ConcatKeeping == ASSUME Twin(df[1], df[2], TRUE), Concat PROVE Keeping
<1> DEFINE f == df[1]  g == df[2]
<1>1. Twin(f, g, TRUE) OBVIOUS
<1>2. CASE ConcatRowsOK(f1, g1) /\ Call(ConcatRows, named = df /\ f1.cols # <<>>, f1.cols # <<>>)
  <2>1. /\ df'[1] = ConcatRows(f, named[1]) /\ origin' = origin
        /\ whole' = (whole /\ (named = df /\ f.cols # <<>>)) /\ counted' = (counted /\ f.cols # <<>>)
    BY <1>2 DEF Call, Copies, f1
  <2>2. named = df => df'[1] = ConcatRows(f, f) BY <2>1
  <2> HIDE DEF f, g
  <2>3. f.cols # <<>> => Draws(ConcatRows(f, f), f) BY <1>1, ConcatSelfDraws
  <2>4. QED BY <2>1, <2>2, <2>3 DEF Keeping, f
<1>3. CASE ~(ConcatRowsOK(f1, g1) /\ Call(ConcatRows, named = df /\ f1.cols # <<>>, f1.cols # <<>>))
  <2>1. origin' = origin /\ whole' = (whole /\ FALSE) BY <1>3 DEF Concat, With, Call
  <2>2. QED BY <2>1 DEF Keeping
<1>4. QED BY <1>2, <1>3

(* The other calls make cells. *)
LEMMA OthersMake ==
  ASSUME FillNulls \/ Summarise \/ Widen \/ Lengthen \/ InBuckets \/ InWindows \/ Categories \/ ReadBack
  PROVE  Keeping
<1>1. CASE FillNulls BY <1>1 DEF FillNulls, Make, Call, Keeping
<1>2. CASE Summarise BY <1>2 DEF Summarise, Make, Call, Keeping
<1>3. CASE Widen BY <1>3 DEF Widen, Make, Call, Keeping
<1>4. CASE Lengthen BY <1>4 DEF Lengthen, Make, Call, Keeping
<1>5. CASE InBuckets BY <1>5 DEF InBuckets, Make, Call, Keeping
<1>6. CASE InWindows BY <1>6 DEF InWindows, Make, Call, Keeping
<1>7. CASE Categories BY <1>7 DEF Categories, Make, Call, Keeping
<1>8. CASE ReadBack BY <1>8 DEF ReadBack, Make, Call, Keeping
<1>9. QED BY <1>1, <1>2, <1>3, <1>4, <1>5, <1>6, <1>7, <1>8

(* The columns and the levels of a frame, as one list. *)
LEMMA ColumnsOf ==
  ASSUME NEW f, IsList(f.cols), IsList(f.ix.levels)
  PROVE  /\ IsList(Columns(f)) /\ Len(Columns(f)) = Len(f.cols) + Len(f.ix.levels)
         /\ \A k \in DOMAIN f.cols : k \in DOMAIN Columns(f) /\ Columns(f)[k] = f.cols[k]
         /\ \A k \in DOMAIN f.ix.levels : \E i \in DOMAIN Columns(f) : Columns(f)[i] = f.ix.levels[k]
         /\ \A i \in DOMAIN Columns(f) : \/ i \in DOMAIN f.cols /\ Columns(f)[i] = f.cols[i]
                                         \/ \E k \in DOMAIN f.ix.levels : Columns(f)[i] = f.ix.levels[k]
<1> DEFINE a == f.cols  b == f.ix.levels  x == Columns(f)  m == Len(a)  n == Len(b)
<1>1. IsList(a) /\ IsList(b) /\ x = a \o b BY DEF Columns
<1> HIDE DEF a, b, x
<1>2. m \in Nat /\ n \in Nat /\ DOMAIN a = 1..m /\ DOMAIN b = 1..n BY <1>1, ListElim
<1>3. /\ IsList(x) /\ Len(x) = m + n
      /\ \A i \in 1..m : x[i] = a[i]
      /\ \A i \in 1..n : x[m + i] = b[i] BY <1>1, ConcatList
<1> HIDE DEF m, n
<1>4. DOMAIN x = 1..(m + n) BY <1>3, ListElim
<1>5. \A k \in DOMAIN a : k \in DOMAIN x /\ x[k] = a[k] BY <1>2, <1>3, <1>4
<1>6. ASSUME NEW k \in DOMAIN b PROVE \E i \in DOMAIN x : x[i] = b[k]
  <2>1. k \in 1..n /\ m + k \in 1..(m + n) BY <1>2
  <2>2. QED BY <1>3, <1>4, <2>1
<1>7. ASSUME NEW i \in DOMAIN x
      PROVE  (i \in DOMAIN a /\ x[i] = a[i]) \/ \E k \in DOMAIN b : x[i] = b[k]
  <2>1. CASE i <= m
    <3>1. i \in 1..m BY <1>2, <1>4, <2>1
    <3>2. QED BY <1>2, <1>3, <3>1
  <2>2. CASE ~(i <= m)
    <3>1. i - m \in 1..n /\ i = m + (i - m) BY <1>2, <1>4, <2>2
    <3>2. x[i] = b[i - m] BY <1>3, <3>1
    <3>3. QED BY <1>2, <3>1, <3>2
  <2>3. QED BY <2>1, <2>2
<1>8. QED BY <1>3, <1>5, <1>6, <1>7 DEF a, b, x, m, n

(* The first frame is made of its own rows. *)
LEMMA InitRows == Init => RowsInv
<1> SUFFICES ASSUME Init PROVE RowsInv OBVIOUS
<1>1. PICK f \in Starts : df = Pair(f) /\ origin = RowFaces(f) BY DEF Init
<1>2. df[1] = f BY <1>1 DEF Pair, Copies
<1>3. TwinsInv /\ counted BY InitTwins DEF Init
<1>4. IsList(f.cols) /\ IsList(f.ix.levels) BY NotebookAssumption DEF FrameShape, IndexShape
<1>5. ASSUME NEW i \in 1..f.nrows PROVE \E row \in origin : InRow(f, i, row)
  <2> DEFINE row == UNION {Faces(Columns(f)[k], i) : k \in DOMAIN Columns(f)}
  <2>1. row \in origin BY <1>1 DEF RowFaces
  <2>2. \A k \in DOMAIN Columns(f) : Faces(Columns(f)[k], i) \subseteq row OBVIOUS
  <2> HIDE DEF row
  <2>3. \A k \in DOMAIN f.cols : Faces(f.cols[k], i) \subseteq row
    <3> TAKE k \in DOMAIN f.cols
    <3>1. k \in DOMAIN Columns(f) /\ Columns(f)[k] = f.cols[k] BY <1>4, ColumnsOf
    <3>2. QED BY <2>2, <3>1
  <2>3a. \A k \in DOMAIN f.ix.levels : Faces(f.ix.levels[k], i) \subseteq row
    <3> TAKE k \in DOMAIN f.ix.levels
    <3>1. PICK j \in DOMAIN Columns(f) : Columns(f)[j] = f.ix.levels[k] BY <1>4, ColumnsOf
    <3>2. QED BY <2>2, <3>1
  <2>4. QED BY <2>1, <2>3, <2>3a DEF InRow
<1>6. RowsFrom(f, origin) BY <1>5 DEF RowsFrom
<1>7. QED BY <1>2, <1>3, <1>6 DEF RowsInv

(* A call never makes a frame whole again. *)
LEMMA CallsWhole == ASSUME Next, ~Keep, ~whole PROVE ~whole'
BY DEF Next, FilterRows, SliceRows, DropRows, SortRowsBy, SortRowsByIndex, Locate, ChooseColumns, MoveIndex,
       FillNulls, Concat, Summarise, Widen, Lengthen, InBuckets, InWindows, Categories, ReadBack,
       Move, Make, With, Call

(* Every step keeps the rows of the first frame together. *)
LEMMA NextRows == RowsInv /\ [Next]_vars => RowsInv'
<1> SUFFICES ASSUME RowsInv, [Next]_vars PROVE RowsInv' OBVIOUS
<1>1. TwinsInv' BY NextTwins DEF RowsInv
<1>2. CASE UNCHANGED vars BY <1>1, <1>2 DEF RowsInv, vars
<1>3. CASE Keep BY <1>1, <1>3 DEF RowsInv, Keep
<1>4. CASE Next /\ ~Keep /\ whole
  <2>1. counted /\ RowsFrom(df[1], origin) /\ Twin(df[1], df[2], counted) BY <1>4 DEF RowsInv, TwinsInv
  <2>2. Twin(df[1], df[2], TRUE) BY <2>1, TwinWeaken
  <2>3. Keeping
    BY <1>4, <2>2, FilterKeeping, SliceKeeping, DropRowsKeeping, SortKeeping, SortIndexKeeping, LocateKeeping,
       ChooseKeeping, MoveIndexKeeping, ConcatKeeping, OthersMake DEF Next
  <2>4. whole' => RowsFrom(df'[1], origin) BY <2>1, <2>3, DrawnStay DEF Keeping
  <2>5. QED BY <1>1, <2>1, <2>3, <2>4 DEF RowsInv, Keeping
<1>5. CASE Next /\ ~Keep /\ ~whole
  <2>1. ~whole' BY <1>5, CallsWhole
  <2>2. QED BY <1>1, <2>1 DEF RowsInv
<1>6. QED BY <1>2, <1>3, <1>4, <1>5

(* While calls only move cells, every row of the frame is made of cells of *)
(* one row of the frame the session started with.                          *)
THEOREM RowsSafe == Spec => []RowsInv
<1>1. Init => RowsInv BY InitRows
<1>2. RowsInv /\ [Next]_vars => RowsInv' BY NextRows
<1>3. QED BY <1>1, <1>2, PTL DEF Spec

(* A filter, a sort, a slice, a choice of columns or a change of index *)
(* never mixes the cells of two rows, in any sequence of calls         *)
(* (builtins.rs, one permutation for every column and every level).    *)
THEOREM RowsKeepTogetherSafe == Spec => []RowsKeepTogether
<1>1. RowsInv => RowsKeepTogether
  <2> SUFFICES ASSUME RowsInv, whole, NEW i \in 1..f1.nrows
               PROVE  \E row \in origin : \A k \in DOMAIN Columns(f1) : Cell(Columns(f1)[k], i) \in row
    BY DEF RowsKeepTogether
  <2>1. PICK row \in origin : InRow(f1, i, row) BY DEF RowsInv, RowsFrom, f1
  <2>2. FrameShape(f1) BY TwinShapes DEF RowsInv, TwinsInv, f1
  <2>3. IsList(f1.cols) /\ IsList(f1.ix.levels) BY <2>2 DEF FrameShape, IndexShape
  <2>4. \A c : Cell(c, i) \in Faces(c, i) BY DEF Faces
  <2>5. \A k \in DOMAIN Columns(f1) : Cell(Columns(f1)[k], i) \in row
    <3> DEFINE f == f1
    <3>1. IsList(f.cols) /\ IsList(f.ix.levels) /\ InRow(f, i, row) BY <2>1, <2>3
    <3> HIDE DEF f
    <3>2. ASSUME NEW k \in DOMAIN Columns(f) PROVE Faces(Columns(f)[k], i) \subseteq row
      <4>1. \/ k \in DOMAIN f.cols /\ Columns(f)[k] = f.cols[k]
            \/ \E m \in DOMAIN f.ix.levels : Columns(f)[k] = f.ix.levels[m]
        BY <3>1, ColumnsOf
      <4>2. CASE k \in DOMAIN f.cols /\ Columns(f)[k] = f.cols[k] BY <3>1, <4>2 DEF InRow
      <4>3. CASE \E m \in DOMAIN f.ix.levels : Columns(f)[k] = f.ix.levels[m] BY <3>1, <4>3 DEF InRow
      <4>4. QED BY <4>1, <4>2, <4>3
    <3>3. QED BY <2>4, <3>2 DEF f
  <2>6. QED BY <2>5
<1>2. QED BY <1>1, RowsSafe, PTL

------------------------------------------------------------------------------
(* Windows. *)

(* Lists of numbers in ascending order. *)
Ascends(s) ==
  /\ IsList(s) /\ \A i \in 1..Len(s) : s[i] \in Int
  /\ \A i, j \in 1..Len(s) : i < j => s[i] < s[j]

(* The members of an ascending list that are in a set ascend. *)
LEMMA AmongAscends ==
  ASSUME NEW seq, Ascends(seq), NEW S
  PROVE  Ascends(Among(seq, S))
<1> DEFINE n == Len(seq)  A == AmongParts(seq, S)
<1>1. IsList(seq) /\ n \in Nat BY ListElim DEF Ascends
<1>2. /\ IsList(A) /\ Len(A) = n
      /\ \A k \in 1..n : IsList(A[k]) /\ A[k] = IF seq[k] \in S THEN <<seq[k]>> ELSE <<>>
  BY <1>1, AmongPartsLists
<1>3. Among(seq, S) = FlattenSeq(A) BY DEF Among, AmongParts
<1> HIDE DEF A, n
<1>4. PICK P : Gathers(A, P) BY <1>2, FlattenGathers
<1> DEFINE Good(k) == /\ Ascends(P[k])
                      /\ \A i \in 1..Len(P[k]) : \E j \in 1..k : P[k][i] = seq[j]
           T == {k \in 0..n : Good(k)}
<1>5. Good(0)
  <2>1. P[0] = <<>> BY <1>4 DEF Gathers
  <2>2. QED BY <2>1, EmptyList DEF Ascends
<1>6. ASSUME NEW k \in 1..n, Good(k - 1) PROVE Good(k)
  <2> DEFINE p == P[k - 1]  s == <<seq[k]>>
  <2>1. P[k] = p \o A[k] BY <1>2, <1>4 DEF Gathers
  <2>2. /\ IsList(p) /\ (\A i \in 1..Len(p) : p[i] \in Int)
        /\ (\A i, j \in 1..Len(p) : i < j => p[i] < p[j])
        /\ \A i \in 1..Len(p) : \E j \in 1..(k - 1) : p[i] = seq[j] BY <1>6 DEF Ascends
  <2>3. k \in Nat /\ k - 1 \in Nat /\ Len(p) \in Nat BY <1>1, <2>2, ListElim
  <2>4. seq[k] \in Int /\ \A j \in 1..(k - 1) : seq[j] < seq[k] BY <1>1 DEF Ascends, n
  <2>5. \A i \in 1..Len(p) : p[i] < seq[k] BY <2>2, <2>4
  <2>6. IsList(s) /\ Len(s) = 1 /\ s[1] = seq[k] BY OneList
  <2> HIDE DEF p, s
  <2>7. CASE seq[k] \notin S
    <3>1. P[k] = p \o <<>> BY <1>2, <2>1, <2>7
    <3>2. P[k] = p
      <4>1. p = [i \in 1..Len(p) |-> p[i]] BY <2>2, ListElim
      <4>2. p \in Seq(ToSet(p)) BY <2>2 DEF IsList
      <4>3. QED BY <3>1, <4>2
    <3>3. \A i \in 1..Len(p) : \E j \in 1..k : p[i] = seq[j]
      <4>1. 1..(k - 1) \subseteq 1..k BY <2>3
      <4>2. QED BY <2>2, <4>1
    <3>4. Ascends(p) BY <2>2 DEF Ascends
    <3>5. QED BY <3>2, <3>3, <3>4, Zenon
  <2>8. CASE seq[k] \in S
    <3>1. P[k] = p \o s BY <1>2, <2>1, <2>8 DEF s
    <3>2. /\ IsList(p \o s) /\ Len(p \o s) = Len(p) + 1
          /\ \A i \in 1..Len(p) : (p \o s)[i] = p[i]
          /\ \A i \in 1..1 : (p \o s)[Len(p) + i] = s[i]
      <4>0. IsList(p) /\ IsList(s) BY <2>2, <2>6
      <4>1. /\ IsList(p \o s) /\ Len(p \o s) = Len(p) + Len(s)
            /\ \A i \in 1..Len(p) : (p \o s)[i] = p[i]
            /\ \A i \in 1..Len(s) : (p \o s)[Len(p) + i] = s[i]
        BY <4>0, ConcatList
      <4>2. QED BY <2>6, <4>1
    <3> DEFINE q == p \o s  m == Len(p)
    <3>3. IsList(q) /\ Len(q) = m + 1 /\ (\A i \in 1..m : q[i] = p[i]) /\ q[m + 1] = seq[k] BY <2>6, <3>2
    <3>4. m \in Nat BY <2>3
    <3>5. P[k] = q BY <3>1
    <3> HIDE DEF q
    <3>6. /\ (\A i \in 1..m : p[i] \in Int /\ p[i] < seq[k])
          /\ \A i, j \in 1..m : i < j => p[i] < p[j] BY <2>2, <2>5
    <3> HIDE DEF m
    <3>7. \A i \in 1..(m + 1) : i \in 1..m \/ i = m + 1 BY <3>4
    <3>8. \A i \in 1..(m + 1) : q[i] \in Int BY <2>4, <3>3, <3>6, <3>7
    <3>9. \A i, j \in 1..(m + 1) : i < j => q[i] < q[j]
      <4> TAKE i, j \in 1..(m + 1)
      <4> HAVE i < j
      <4>1. i \in 1..m BY <3>4
      <4>2. CASE j \in 1..m BY <3>3, <3>6, <4>1, <4>2
      <4>3. CASE j = m + 1 BY <3>3, <3>6, <4>1, <4>3
      <4>4. QED BY <3>7, <4>2, <4>3
    <3>10. \A i \in 1..(m + 1) : \E j \in 1..k : q[i] = seq[j]
      <4>1. \A i \in 1..m : \E j \in 1..(k - 1) : q[i] = seq[j] BY <2>2, <3>3 DEF m
      <4>2. 1..(k - 1) \subseteq 1..k /\ k \in 1..k BY <2>3
      <4>3. QED BY <3>3, <3>7, <4>1, <4>2
    <3>11. QED BY <3>3, <3>5, <3>8, <3>9, <3>10 DEF Ascends
  <2>9. QED BY <2>7, <2>8
<1> HIDE DEF Good
<1>7. n \in T
  <2>1. 0 \in T BY <1>1, <1>5
  <2>2. \A k \in 1..n : k - 1 \in T => k \in T BY <1>1, <1>6
  <2> HIDE DEF T
  <2>3. \A k \in 0..n : k \in T BY <1>1, <2>1, <2>2, UpTo
  <2>4. QED BY <1>1, <2>3
<1>8. P[n] = FlattenSeq(A) BY <1>2, <1>4 DEF Gathers
<1>9. QED BY <1>3, <1>7, <1>8 DEF Good, T

(* There is one ascending list of a set. *)
LEMMA AscendingPrefix ==
  ASSUME NEW s, Ascends(s), NEW t, Ascends(t), ToSet(s) = ToSet(t)
  PROVE  Len(s) <= Len(t) /\ \A i \in 1..Len(s) : s[i] = t[i]
<1> DEFINE n == Len(s)  m == Len(t)
           Good(i) == i <= m /\ s[i] = t[i]
           Bad == {i \in 1..n : ~Good(i)}
<1>1. IsList(s) /\ IsList(t) /\ n \in Nat /\ m \in Nat BY ListElim DEF Ascends
<1>2. /\ \A i \in 1..n : s[i] \in Int /\ \A j \in 1..n : i < j => s[i] < s[j]
      /\ \A i \in 1..m : t[i] \in Int /\ \A j \in 1..m : i < j => t[i] < t[j] BY DEF Ascends
<1>3. /\ \A i \in 1..n : \E j \in 1..m : s[i] = t[j]
      /\ \A i \in 1..m : \E j \in 1..n : t[i] = s[j] BY <1>1, MemberOfList
<1> HIDE DEF n, m
<1>4. ASSUME Bad # {} PROVE FALSE
  <2>1. PICK i \in Bad : \A j \in Bad : i <= j
    <3>1. Bad \in SUBSET Nat BY <1>1
    <3>2. QED BY <1>4, <3>1, LeastNatural
  <2>2. i \in 1..n /\ ~Good(i) /\ \A j \in 1..n : j < i => Good(j) BY <1>1, <2>1
  <2>3. PICK j \in 1..m : s[i] = t[j] BY <1>3, <2>2
  <2>4. ~(j < i)
    <3>1. SUFFICES ASSUME j < i PROVE FALSE OBVIOUS
    <3>2. j \in 1..n BY <1>1, <2>2, <3>1
    <3>3. s[j] = t[j] BY <2>2, <3>1, <3>2
    <3>4. s[j] < s[i] BY <1>2, <2>2, <3>1, <3>2
    <3>5. QED BY <1>2, <2>2, <2>3, <3>2, <3>3, <3>4
  <2>5. j # i BY <1>1, <2>2, <2>3
  <2>6. i < j /\ i \in 1..m BY <1>1, <2>2, <2>4, <2>5
  <2>7. t[i] < s[i] BY <1>2, <2>3, <2>6
  <2>8. PICK k \in 1..n : t[i] = s[k] BY <1>3, <2>6
  <2>9. k < i
    <3>1. SUFFICES ASSUME ~(k < i) PROVE FALSE OBVIOUS
    <3>2. k = i \/ i < k BY <1>1, <2>2, <3>1
    <3>3. s[i] < s[k] \/ s[i] = s[k] BY <1>2, <2>2, <3>2
    <3>4. QED BY <1>2, <2>2, <2>7, <2>8, <3>3
  <2>10. k \in 1..m /\ s[k] = t[k] BY <1>1, <2>2, <2>6, <2>9
  <2>11. t[k] < t[i] BY <1>2, <2>6, <2>9, <2>10
  <2>12. QED BY <1>2, <2>6, <2>8, <2>10, <2>11
<1>5. \A i \in 1..n : Good(i) BY <1>4
<1>6. n <= m
  <2>1. CASE n = 0 BY <1>1, <2>1
  <2>2. CASE n # 0
    <3>1. n \in 1..n BY <1>1, <2>2
    <3>2. QED BY <1>5, <3>1
  <2>3. QED BY <2>1, <2>2
<1>7. QED BY <1>5, <1>6 DEF n, m

(* So two ascending lists of one set are equal. *)
LEMMA AscendingOne ==
  ASSUME NEW s, Ascends(s), NEW t, Ascends(t), ToSet(s) = ToSet(t)
  PROVE  s = t
<1>1. Len(s) <= Len(t) /\ \A i \in 1..Len(s) : s[i] = t[i] BY AscendingPrefix
<1>0. ToSet(t) = ToSet(s) OBVIOUS
<1>2. Len(t) <= Len(s) BY <1>0, AscendingPrefix
<1>3. Len(s) \in Nat /\ Len(t) \in Nat BY ListElim DEF Ascends
<1>4. s = [i \in 1..Len(s) |-> s[i]] /\ t = [i \in 1..Len(t) |-> t[i]] BY ListElim DEF Ascends
<1>5. Len(s) = Len(t) BY <1>1, <1>2, <1>3
<1>6. QED BY <1>1, <1>4, <1>5

(* The rows from a to b. *)
Run(a, b) == [k \in 1..(b - a + 1) |-> a + k - 1]

(* They ascend, and there is one for each number from a to b. *)
LEMMA RunFacts ==
  ASSUME NEW a \in Nat, NEW b \in Nat, a <= b
  PROVE  Ascends(Run(a, b)) /\ Len(Run(a, b)) = b - a + 1 /\ ToSet(Run(a, b)) = a..b
<1> DEFINE m == b - a + 1  r == Run(a, b)
<1>1. m \in Nat OBVIOUS
<1>2. r = [k \in 1..m |-> a + k - 1] BY DEF Run
<1>3. r = [k \in 1..m |-> r[k]] /\ \A k \in 1..m : r[k] = a + k - 1 BY <1>2
<1> HIDE DEF r, m
<1>4. IsList(r) /\ Len(r) = m BY <1>1, <1>3, ListIntro
<1>5. Ascends(r) BY <1>1, <1>3, <1>4 DEF Ascends
<1>6. ASSUME NEW x PROVE x \in ToSet(r) <=> x \in a..b
  <2>1. x \in ToSet(r) <=> \E k \in 1..m : a + k - 1 = x
    <3>1. x \in ToSet(r) <=> \E k \in 1..m : r[k] = x BY <1>4, MemberOfList, Zenon
    <3>2. QED BY <1>3, <3>1
  <2>2. x \in a..b => x - a + 1 \in 1..m /\ a + (x - a + 1) - 1 = x BY DEF m
  <2>3. \A k \in 1..m : a + k - 1 \in a..b BY DEF m
  <2>4. QED BY <2>1, <2>2, <2>3
<1>7. QED BY <1>4, <1>5, <1>6 DEF r, m

(* The rows in a set ascend. *)
LEMMA RowsInAscends ==
  ASSUME NEW n \in Nat, NEW S
  PROVE  Ascends(RowsIn(n, S)) /\ ToSet(RowsIn(n, S)) = (1..n) \intersect S
<1>1. IsList(Rows(n)) /\ Len(Rows(n)) = n BY RowsList
<1>2. Ascends(Rows(n)) BY <1>1 DEF Ascends, Rows
<1>3. QED BY <1>2, AmongAscends, RowsInFacts DEF RowsIn

(* The rows in a set that is a range are the run of that range: the search *)
(* through all rows finds those the loop counts.                           *)
LEMMA RowsInRun ==
  ASSUME NEW n \in Nat, NEW a \in 1..n, NEW b \in 1..n, a <= b, NEW S, (1..n) \intersect S = a..b
  PROVE  RowsIn(n, S) = Run(a, b)
<1>1. Ascends(Run(a, b)) /\ ToSet(Run(a, b)) = a..b BY RunFacts
<1>2. Ascends(RowsIn(n, S)) /\ ToSet(RowsIn(n, S)) = a..b BY RowsInAscends
<1>3. QED BY <1>1, <1>2, AscendingOne

(* The values in some rows: one for each, but for the null cells. *)
LEMMA ValuesInLength ==
  ASSUME NEW c, NEW rows, IsList(rows)
  PROVE  /\ Len(ValuesIn(c, rows)) \in Nat /\ Len(ValuesIn(c, rows)) <= Len(rows)
         /\ Len(ValuesIn(c, rows)) = Len(rows) <=> \A k \in 1..Len(rows) : ~NullAt(c, rows[k])
<1> DEFINE S == {i \in ToSet(rows) : ~NullAt(c, i)}
           U == {i \in ToSet(rows) : NullAt(c, i)}
           A == Among(rows, S)
           B == Among(rows, U)
           v == ValuesIn(c, rows)
           n == Len(rows)
<1>1. n \in Nat BY ListElim
<1>2. \A k \in 1..n : rows[k] \in ToSet(rows) BY MemberOfList
<1>3. \A k \in 1..n : (rows[k] \in S) # (rows[k] \in U) BY <1>2
<1>4. v = [k \in DOMAIN A |-> v[k]] /\ DOMAIN v = DOMAIN A BY DEF ValuesIn
<1>5. \A k \in 1..n : rows[k] \in U <=> NullAt(c, rows[k]) BY <1>2
<1>u. U \subseteq ToSet(rows) OBVIOUS
<1> HIDE DEF S, U, v
<1>6. Len(A) + Len(B) = n BY <1>3, AmongShares
<1>7. IsList(A) /\ IsList(B) /\ ToSet(B) = ToSet(rows) \intersect U BY AmongFacts
<1>8. Len(A) \in Nat /\ Len(B) \in Nat BY <1>7, ListElim
<1> HIDE DEF A, B
<1>9. Len(v) = Len(A) BY <1>4, <1>7, MapLen
<1>10. Len(B) = 0 <=> ToSet(B) = {}
  <2>1. CASE Len(B) = 0
    <3>1. B = <<>> BY <1>7, <2>1, EmptyIff
    <3>2. QED BY <2>1, <3>1, EmptyList
  <2>2. CASE Len(B) # 0
    <3>1. 1 \in 1..Len(B) BY <1>8, <2>2
    <3>2. B[1] \in ToSet(B) BY <1>7, <3>1, MemberOfList
    <3>3. QED BY <2>2, <3>2
  <2>3. QED BY <2>1, <2>2
<1>11. ToSet(B) = {} <=> \A k \in 1..n : ~NullAt(c, rows[k])
  <2>1. \A x : x \in ToSet(rows) <=> \E k \in 1..n : rows[k] = x BY MemberOfList
  <2>2. QED BY <1>5, <1>7, <1>u, <2>1
<1> HIDE DEF n
<1>12. Len(v) \in Nat /\ Len(v) <= n /\ (Len(v) = n <=> Len(B) = 0) BY <1>1, <1>6, <1>8, <1>9
<1>13. QED BY <1>10, <1>11, <1>12 DEF v, n

(* The rows of a window that ends at row i, and their values. *)
From(i, w) == IF i >= w THEN i - w + 1 ELSE 1
(* Their values, nulls skipped. *)
Window(c, i, w) == ValuesIn(c, Run(From(i, w), i))

(* A window ends at its row, has at most its width of values, and has all *)
(* of them if it is full and none is null.                                *)
LEMMA WindowFacts ==
  ASSUME NEW c, NEW w \in Nat \ {0}, NEW i \in Nat \ {0}
  PROVE  /\ From(i, w) \in 1..i
         /\ Len(Window(c, i, w)) \in Nat
         /\ Len(Window(c, i, w)) <= i /\ Len(Window(c, i, w)) <= w
         /\ Len(Window(c, i, w)) = w <=> i >= w /\ \A k \in 1..w : ~NullAt(c, i - w + k)
<1> DEFINE a == From(i, w)  r == Run(a, i)
<1>1. a \in 1..i /\ a \in Nat /\ a <= i /\ (i >= w => a = i - w + 1) /\ (~(i >= w) => a = 1) BY DEF From
<1> HIDE DEF a
<1>2. IsList(r) /\ Len(r) = i - a + 1 BY <1>1, RunFacts DEF Ascends
<1>3. \A k \in 1..(i - a + 1) : r[k] = a + k - 1 BY DEF Run
<1> HIDE DEF r
<1>4. /\ Len(ValuesIn(c, r)) \in Nat /\ Len(ValuesIn(c, r)) <= Len(r)
      /\ Len(ValuesIn(c, r)) = Len(r) <=> \A k \in 1..Len(r) : ~NullAt(c, r[k]) BY <1>2, ValuesInLength
<1>5. Window(c, i, w) = ValuesIn(c, r) BY DEF Window, a, r
<1> DEFINE l == Len(ValuesIn(c, r))
<1>6. l \in Nat /\ l <= i - a + 1 /\ (l = i - a + 1 <=> \A k \in 1..(i - a + 1) : ~NullAt(c, r[k])) BY <1>2, <1>4
<1> HIDE DEF l
<1>7. l <= i /\ l <= w BY <1>1, <1>6
<1>8. CASE i >= w
  <2>1. i - a + 1 = w BY <1>1, <1>8
  <2>2. \A k \in 1..w : r[k] = i - w + k
    <3>1. \A k \in 1..w : r[k] = a + k - 1 BY <1>3, <2>1
    <3>2. \A k \in 1..w : a + k - 1 = i - w + k BY <1>1, <1>8
    <3>3. QED BY <3>1, <3>2
  <2>3. l = w <=> \A k \in 1..w : ~NullAt(c, i - w + k) BY <1>6, <2>1, <2>2
  <2>4. QED BY <1>1, <1>5, <1>6, <1>7, <1>8, <2>3 DEF l, a
<1>9. CASE ~(i >= w)
  <2>1. l # w BY <1>1, <1>6, <1>9
  <2>2. QED BY <1>1, <1>5, <1>6, <1>7, <1>9, <2>1 DEF l, a
<1>10. QED BY <1>8, <1>9

(* The cells of a window, as each of the three implementations makes them. *)
WindowCell(c, i, w, mp, op) ==
  IF Len(Window(c, i, w)) < mp THEN None ELSE Aggregate(c.cls, Window(c, i, w), op)
(* The columns of these cells. *)
WindowCells(c, w, mp, op) ==
  Filled(AggClass(c.cls, op), [i \in 1..Length(c) |-> WindowCell(c, i, w, mp, op)])

(* The windows of a column with a minimum of periods make these cells. *)
LEMMA MinPeriodsCells ==
  ASSUME NEW c, NEW w, NEW mp, NEW op
  PROVE  RollingMinPeriods(c, w, mp, op) = WindowCells(c, w, mp, op)
<1> DEFINE start(i) == IF i >= w THEN i - w + 1 ELSE 1
           values(i) == ValuesIn(c, [k \in 1..(i - start(i) + 1) |-> start(i) + k - 1])
<1>1. \A i : values(i) = Window(c, i, w) BY DEF Window, Run, From
<1>2. RollingMinPeriods(c, w, mp, op)
        = Filled(AggClass(c.cls, op),
            [i \in 1..Length(c) |-> IF Len(values(i)) < mp THEN None ELSE Aggregate(c.cls, values(i), op)])
  BY DEF RollingMinPeriods
<1> HIDE DEF values
<1>3. \A i : (IF Len(values(i)) < mp THEN None ELSE Aggregate(c.cls, values(i), op)) = WindowCell(c, i, w, mp, op)
  BY <1>1 DEF WindowCell
<1>4. QED BY <1>2, <1>3, Zenon DEF WindowCells

(* The windows of a frame, which look for their rows among all rows, make *)
(* these cells.                                                           *)
LEMMA FrameWindowCells ==
  ASSUME NEW c, ColumnShape(c), c.cls \in {"I64", "F64"}, NEW w \in Nat \ {0}, NEW mp,
         NEW op \in {"sum", "mean", "max"}
  PROVE  WindowColumn(c, w, mp, FALSE, op) = WindowCells(c, w, mp, op)
<1> DEFINE n == Length(c)
           values(i) == ValuesIn(c, WindowRows(i, n, w, FALSE))
<1>1. n \in Nat BY LengthNat
<1>2. WindowClass(c, op) = AggClass(c.cls, op) BY DEF WindowClass, AggClass
<1>3. WindowColumn(c, w, mp, FALSE, op)
        = Filled(WindowClass(c, op),
            [i \in 1..n |-> IF Len(values(i)) < mp THEN None ELSE Aggregate(c.cls, values(i), op)])
  BY DEF WindowColumn
<1>4. ASSUME NEW i \in 1..n PROVE values(i) = Window(c, i, w)
  <2> HIDE DEF n
  <2>0. i \in 1..n /\ i \in Nat \ {0} BY <1>1
  <2>1. i \in 1..n /\ i \in Nat \ {0} /\ From(i, w) \in 1..i BY <2>0, WindowFacts
  <2>2. From(i, w) \in 1..n /\ From(i, w) <= i BY <1>1, <2>1
  <2>3. (1..n) \intersect ((i - w + 1)..i) = From(i, w)..i BY <1>1, <2>1 DEF From
  <2>4. RowsIn(n, (i - w + 1)..i) = Run(From(i, w), i) BY <1>1, <2>1, <2>2, <2>3, RowsInRun
  <2>5. WindowRows(i, n, w, FALSE) = RowsIn(n, (i - w + 1)..i) BY DEF WindowRows
  <2>6. QED BY <2>4, <2>5 DEF Window
<1> HIDE DEF values
<1>5. \A i \in 1..n : (IF Len(values(i)) < mp THEN None ELSE Aggregate(c.cls, values(i), op))
                        = WindowCell(c, i, w, mp, op)
  BY <1>4 DEF WindowCell
<1>6. [i \in 1..n |-> IF Len(values(i)) < mp THEN None ELSE Aggregate(c.cls, values(i), op)]
        = [i \in 1..n |-> WindowCell(c, i, w, mp, op)] BY <1>5
<1>7. QED BY <1>2, <1>3, <1>6, Zenon DEF WindowCells

(* The full windows of a column make the cells of windows whose minimum of *)
(* periods is their width.                                                 *)
LEMMA FullWindowCells ==
  ASSUME NEW c, ColumnShape(c), NEW w \in Nat \ {0}, NEW op
  PROVE  Rolling(c, w, op) = WindowCells(c, w, w, op)
<1> DEFINE n == Length(c)
           window(i) == [k \in 1..w |-> i - w + k]
           full(i) == i >= w /\ \A k \in 1..w : ~c.nulls[i - w + k]
           cell(i) == IF full(i) THEN AggregateSubset(c, window(i), op) ELSE None
<1>1. n \in Nat BY LengthNat
<1>2. Rolling(c, w, op) = Filled(AggClass(c.cls, op), [i \in 1..n |-> cell(i)]) BY DEF Rolling
<1>3. ASSUME NEW i \in 1..n PROVE cell(i) = WindowCell(c, i, w, w, op)
  <2>1. i \in Nat \ {0} /\ i <= n BY <1>1
  <2> DEFINE l == Len(Window(c, i, w))
  <2>2. l \in Nat /\ l <= w /\ (l = w <=> i >= w /\ \A k \in 1..w : ~NullAt(c, i - w + k)) BY <2>1, WindowFacts
  <2>3. i >= w => \A k \in 1..w : (~NullAt(c, i - w + k)) <=> ~c.nulls[i - w + k]
    <3>1. i >= w => \A k \in 1..w : i - w + k \in 1..n BY <1>1, <2>1
    <3>2. \A j \in 1..n : NullAt(c, j) <=> c.nulls[j] BY NullsOf
    <3>3. QED BY <3>1, <3>2
  <2>4. full(i) <=> l = w BY <2>2, <2>3
  <2>5. full(i) <=> ~(l < w)
    <3> HIDE DEF full, l
    <3>1. l = w <=> ~(l < w) BY <2>2
    <3>2. QED BY <2>4, <3>1
  <2>6. i >= w => window(i) = Run(From(i, w), i)
    <3> SUFFICES ASSUME i >= w PROVE window(i) = Run(From(i, w), i) OBVIOUS
    <3>1. From(i, w) = i - w + 1 /\ i - (i - w + 1) + 1 = w BY <1>1 DEF From
    <3>2. Run(From(i, w), i) = [k \in 1..w |-> (i - w + 1) + k - 1] BY <3>1 DEF Run
    <3>3. \A k \in 1..w : (i - w + 1) + k - 1 = i - w + k BY <1>1
    <3>4. QED BY <3>2, <3>3
  <2>7. full(i) => AggregateSubset(c, window(i), op) = Aggregate(c.cls, Window(c, i, w), op)
    BY <2>6 DEF AggregateSubset, Window
  <2> HIDE DEF full, window, l
  <2>8. QED BY <2>5, <2>7 DEF WindowCell, l
<1> HIDE DEF cell
<1>4. [i \in 1..n |-> cell(i)] = [i \in 1..n |-> WindowCell(c, i, w, w, op)] BY <1>3
<1>5. QED BY <1>2, <1>4, Zenon DEF WindowCells

(* The running aggregates of a column with no nulls make the cells of *)
(* windows of all rows, with a minimum of 1.                          *)
LEMMA RunningCells ==
  ASSUME NEW c, ColumnShape(c), Len(NonNull(c)) = Length(c), NEW op \in {"sum", "max"}
  PROVE  Cumulative(c, op) = WindowCells(c, Length(c), 1, op)
<1> DEFINE n == Length(c)
           running(i) == \A j \in 1..i : ~c.nulls[j]
           vs == NonNullValues(c)
           cell(i) == IF running(i) THEN Aggregate(c.cls, SubSeq(vs, 1, i), op) ELSE None
<1>1. n \in Nat BY LengthNat
<1>2. Cumulative(c, op) = Filled(c.cls, [i \in 1..n |-> cell(i)]) BY DEF Cumulative
<1>3. AggClass(c.cls, op) = c.cls BY DEF AggClass
<1>4. \A j \in 1..n : ~c.nulls[j] /\ ~NullAt(c, j)
  <2> DEFINE S == {i \in 1..n : ~c.nulls[i]}  U == (1..n) \ S  A == Among(Rows(n), S)  B == Among(Rows(n), U)
  <2>1. IsList(Rows(n)) /\ Len(Rows(n)) = n /\ ToSet(Rows(n)) = 1..n BY <1>1, RowsList
  <2>2. \A k \in 1..n : Rows(n)[k] = k BY DEF Rows
  <2>3. \A k \in 1..n : (Rows(n)[k] \in S) # (Rows(n)[k] \in U) BY <2>2
  <2>4. NonNull(c) = A BY DEF NonNull, RowsIn
  <2> HIDE DEF S, U
  <2>5. Len(A) + Len(B) = n BY <2>1, <2>3, AmongShares
  <2>6. IsList(A) /\ IsList(B) /\ ToSet(B) = (1..n) \intersect U BY <2>1, AmongFacts
  <2> HIDE DEF A, B
  <2>7. Len(A) \in Nat /\ Len(B) \in Nat BY <2>6, ListElim
  <2>8. Len(B) = 0 BY <1>1, <2>4, <2>5, <2>7
  <2>9. ToSet(B) = {} BY <2>6, <2>8, EmptyIff, EmptyList
  <2>10. \A j \in 1..n : ~c.nulls[j] BY <2>6, <2>9 DEF S, U
  <2>11. QED BY <2>10, NullsOf
<1>5. vs = [k \in 1..n |-> ValueAt(c, k)]
  <2>1. n = 0 \/ NonNull(c) = Run(1, n)
    <3>1. (1..n) \intersect {i \in 1..n : ~c.nulls[i]} = 1..n BY <1>4
    <3>2. CASE n # 0
      <4>1. 1 \in 1..n /\ n \in 1..n /\ 1 <= n BY <1>1, <3>2
      <4>2. QED BY <1>1, <3>1, <4>1, RowsInRun DEF NonNull
    <3>3. QED BY <3>2
  <2>2. Run(1, n) = [k \in 1..n |-> k]
    <3>1. n - 1 + 1 = n /\ \A k \in 1..n : 1 + k - 1 = k BY <1>1
    <3>2. QED BY <3>1 DEF Run
  <2>3. NonNull(c) = [k \in 1..n |-> k]
    <3>1. CASE n = 0
      <4>1. IsList(NonNull(c)) BY NonNullFacts
      <4>2. NonNull(c) = [k \in 1..Len(NonNull(c)) |-> NonNull(c)[k]] BY <4>1, ListElim
      <4>3. QED BY <3>1, <4>2
    <3>2. QED BY <2>1, <2>2, <3>1
  <2>4. QED BY <2>3 DEF NonNullValues
<1>6. ASSUME NEW i \in 1..n PROVE cell(i) = WindowCell(c, i, n, 1, op)
  <2>0. i \in Nat \ {0} /\ n \in Nat \ {0} /\ i <= n BY <1>1
  <2>1. i \in Nat \ {0} /\ n \in Nat \ {0} /\ From(i, n) = 1 /\ i <= n
    <3> HIDE DEF n
    <3>1. i >= n => i - n + 1 = 1 BY <2>0
    <3>2. QED BY <2>0, <3>1 DEF From
  <2> DEFINE r == Run(1, i)  kept == Among(r, {j \in ToSet(r) : ~NullAt(c, j)})
  <2>2. IsList(r) /\ Len(r) = i /\ ToSet(r) = 1..i
    <3>1. 1 \in Nat /\ i \in Nat /\ 1 <= i /\ i - 1 + 1 = i BY <2>1
    <3> HIDE DEF r
    <3>2. Ascends(r) /\ Len(r) = i - 1 + 1 /\ ToSet(r) = 1..i BY <3>1, RunFacts DEF r
    <3>3. QED BY <3>1, <3>2 DEF Ascends
  <2>3. \A k \in 1..i : r[k] = k BY <2>1 DEF Run
  <2>4. r = [k \in 1..i |-> r[k]] BY <2>2, ListElim
  <2>5. kept = r
    <3>1. \A k \in 1..Len(r) : r[k] \in {j \in ToSet(r) : ~NullAt(c, j)} BY <1>4, <2>1, <2>2, <2>3
    <3> HIDE DEF r
    <3>2. QED BY <2>2, <3>1, AmongAll
  <2>6. Window(c, i, n) = [k \in DOMAIN kept |-> ValueAt(c, kept[k])] BY <2>1 DEF Window, ValuesIn
  <2> HIDE DEF r, kept
  <2>7. Window(c, i, n) = [k \in 1..i |-> ValueAt(c, k)]
    <3>1. DOMAIN kept = 1..i /\ \A k \in 1..i : kept[k] = k BY <2>2, <2>3, <2>5, ListElim
    <3>2. QED BY <2>6, <3>1
  <2>8. SubSeq(vs, 1, i) = [k \in 1..i |-> ValueAt(c, k)]
    <3> HIDE DEF vs
    <3>1. IsList(vs) /\ Len(vs) = n
      <4>1. vs = [k \in 1..n |-> vs[k]] BY <1>5
      <4>2. QED BY <1>1, <4>1, ListIntro
    <3>2. \A k \in 1..n : vs[k] = ValueAt(c, k) BY <1>5
    <3>3. SubSeq(vs, 1, i) = [k \in 1..i |-> vs[k]] BY <2>1, <3>1 DEF IsList
    <3>4. QED BY <2>1, <3>2, <3>3
  <2>9. Len(Window(c, i, n)) = i
    <3> DEFINE x == Window(c, i, n)
    <3>1. x = [k \in 1..i |-> x[k]] /\ i \in Nat BY <2>1, <2>7
    <3> HIDE DEF x
    <3>2. QED BY <3>1, ListIntro DEF x
  <2>10. ~(Len(Window(c, i, n)) < 1) BY <2>1, <2>9
  <2>11. running(i) BY <1>4, <2>1
  <2> HIDE DEF running, vs
  <2>12. QED BY <2>7, <2>8, <2>10, <2>11 DEF WindowCell
<1> HIDE DEF cell
<1>7. [i \in 1..n |-> cell(i)] = [i \in 1..n |-> WindowCell(c, i, n, 1, op)] BY <1>6
<1>8. QED BY <1>2, <1>3, <1>7, Zenon DEF WindowCells

(* The three implementations of a rolling window and the running aggregates *)
(* agree on every numeric column of every frame a session can make, for     *)
(* every width and minimum of periods (builtins.rs, the rolling natives of  *)
(* a column and of a frame).                                                *)
THEOREM WindowsAgreeSafe == Spec => []WindowsAgree
<1>1. TwinsInv => WindowsAgree
  <2> SUFFICES ASSUME TwinsInv, NEW n \in Of({"I64", "F64"}), NEW w \in 1..Min({3, f1.nrows}),
                      NEW op \in {"sum", "mean", "max"}
               PROVE  LET c == ColumnOf(f1, n)
                      IN  /\ Rolling(c, w, op) = RollingMinPeriods(c, w, w, op)
                          /\ \A mp \in 1..w : RollingMinPeriods(c, w, mp, op) = WindowColumn(c, w, mp, FALSE, op)
                          /\ op # "mean" /\ Len(NonNull(c)) = Length(c) =>
                               Cumulative(c, op) = RollingMinPeriods(c, Length(c), 1, op)
    BY DEF WindowsAgree
  <2> DEFINE c == ColumnOf(f1, n)
  <2>1. Twin(f1, df[2], counted) /\ HasColumn(f1, n) /\ c.cls \in {"I64", "F64"}
    BY OfNames DEF TwinsInv, f1
  <2>2. ColumnShape(c) BY <2>1, ColumnOfTwin, ShapeOf
  <2>3. w \in Nat \ {0}
    <3> DEFINE k == f1.nrows  m == Min({3, k})
    <3>1. k \in Int BY <2>1 DEF Twin
    <3>3. w \in 1..m OBVIOUS
    <3> HIDE DEF k
    <3>2. m \in Int
      <4>1. 3 \in Int OBVIOUS
      <4>2. m = IF 3 <= k THEN 3 ELSE k BY <3>1, <4>1, MaxOfTwo
      <4> HIDE DEF m
      <4>3. QED BY <3>1, <4>2
    <3> HIDE DEF m
    <3>4. QED BY <3>2, <3>3
  <2> HIDE DEF c
  <2>4. Rolling(c, w, op) = RollingMinPeriods(c, w, w, op) BY <2>2, <2>3, FullWindowCells, MinPeriodsCells
  <2>5. \A mp \in 1..w : RollingMinPeriods(c, w, mp, op) = WindowColumn(c, w, mp, FALSE, op)
    BY <2>1, <2>2, <2>3, FrameWindowCells, MinPeriodsCells
  <2>6. ASSUME op # "mean", Len(NonNull(c)) = Length(c)
        PROVE  Cumulative(c, op) = RollingMinPeriods(c, Length(c), 1, op)
    BY <2>2, <2>6, RunningCells, MinPeriodsCells
  <2>7. QED BY <2>4, <2>5, <2>6 DEF c
<1>2. QED BY <1>1, TwinsSafe, PTL

------------------------------------------------------------------------------
(* Lists in an order: a member is related to every later one. *)
InOrder(s, L) == \A i, j \in 1..Len(s) : i < j => <<s[i], s[j]>> \in L

(* An ordered list after another all of whose members it precedes. *)
LEMMA ConcatInOrder ==
  ASSUME NEW a, NEW b, IsList(a), IsList(b), NEW L, InOrder(a, L), InOrder(b, L),
         \A x \in ToSet(a), y \in ToSet(b) : <<x, y>> \in L
  PROVE  InOrder(a \o b, L)
<1> DEFINE m == Len(a)  n == Len(b)  s == a \o b
<1>1. /\ m \in Nat /\ n \in Nat /\ Len(s) = m + n
      /\ \A i \in 1..m : s[i] = a[i]
      /\ \A i \in 1..n : s[m + i] = b[i] BY ConcatList, ListElim
<1>2. \A i, j \in 1..m : i < j => <<a[i], a[j]>> \in L BY DEF InOrder
<1>3. \A i, j \in 1..n : i < j => <<b[i], b[j]>> \in L BY DEF InOrder
<1>4. \A i \in 1..m : \A j \in 1..n : <<a[i], b[j]>> \in L BY MemberOfList
<1> HIDE DEF m, n, s
<1>5. ASSUME NEW i \in 1..(m + n), NEW j \in 1..(m + n), i < j PROVE <<s[i], s[j]>> \in L
  <2>1. CASE j <= m
    <3>1. i \in 1..m /\ j \in 1..m BY <1>1, <1>5, <2>1
    <3>2. QED BY <1>1, <1>2, <1>5, <3>1
  <2>2. CASE i > m
    <3>1. PICK k \in 1..n : i = m + k
      <4>1. i - m \in 1..n /\ i = m + (i - m) BY <1>1, <1>5, <2>2
      <4>2. QED BY <4>1
    <3>2. PICK l \in 1..n : j = m + l
      <4>1. j - m \in 1..n /\ j = m + (j - m) BY <1>1, <1>5, <2>2
      <4>2. QED BY <4>1
    <3>3. k < l BY <1>1, <1>5, <3>1, <3>2
    <3>4. QED BY <1>1, <1>3, <3>1, <3>2, <3>3
  <2>3. CASE i <= m /\ j > m
    <3>1. i \in 1..m BY <1>1, <2>3
    <3>2. PICK l \in 1..n : j = m + l
      <4>1. j - m \in 1..n /\ j = m + (j - m) BY <1>1, <1>5, <2>3
      <4>2. QED BY <4>1
    <3>3. s[i] = a[i] /\ s[j] = b[l] BY <1>1, <3>1, <3>2
    <3>4. QED BY <1>4, <3>1, <3>3
  <2>4. QED BY <1>1, <2>1, <2>2, <2>3
<1>6. QED BY <1>1, <1>5 DEF InOrder, s

(* Lists in order, each of which precedes the later ones, one after another. *)
LEMMA FlattenInOrder ==
  ASSUME NEW ss, IsList(ss), \A k \in 1..Len(ss) : IsList(ss[k]), NEW L,
         \A k \in 1..Len(ss) : InOrder(ss[k], L),
         \A j, k \in 1..Len(ss) : j < k => \A x \in ToSet(ss[j]), y \in ToSet(ss[k]) : <<x, y>> \in L
  PROVE  InOrder(FlattenSeq(ss), L)
<1> DEFINE n == Len(ss)
<1>1. n \in Nat BY ListElim
<1>2. PICK P : Gathers(ss, P) BY FlattenGathers
<1> DEFINE Upto(k) == UNION {ToSet(ss[j]) : j \in 1..k}
           Good(k) == IsList(P[k]) /\ ToSet(P[k]) = Upto(k) /\ InOrder(P[k], L)
           T == {k \in 0..n : Good(k)}
<1>3. Good(0)
  <2>1. P[0] = <<>> BY <1>2 DEF Gathers
  <2>2. InOrder(<<>>, L) BY DEF InOrder
  <2>3. QED BY <1>1, <2>1, <2>2, EmptyList
<1>4. ASSUME NEW k \in 1..n, Good(k - 1) PROVE Good(k)
  <2> DEFINE p == P[k - 1]  q == ss[k]
  <2>1. P[k] = p \o q /\ IsList(p) /\ IsList(q) /\ InOrder(p, L) /\ InOrder(q, L) BY <1>2, <1>4 DEF Gathers
  <2>2. 1..k = 1..(k - 1) \union {k} BY <1>1
  <2>3. ToSet(p) = Upto(k - 1) /\ Upto(k) = Upto(k - 1) \union ToSet(q) BY <1>4, <2>2
  <2>4. ASSUME NEW x \in ToSet(p), NEW y \in ToSet(q) PROVE <<x, y>> \in L
    <3>1. PICK j \in 1..(k - 1) : x \in ToSet(ss[j]) BY <2>3
    <3>2. j \in 1..n /\ j < k BY <1>1, <3>1
    <3>3. QED BY <3>1, <3>2
  <2> HIDE DEF p, q
  <2>5. IsList(p \o q) /\ ToSet(p \o q) = ToSet(p) \union ToSet(q) BY <2>1, ConcatList
  <2>6. InOrder(p \o q, L) BY <2>1, <2>4, ConcatInOrder
  <2>7. QED BY <2>1, <2>3, <2>5, <2>6
<1> HIDE DEF Good
<1>5. n \in T
  <2>1. 0 \in T BY <1>1, <1>3
  <2>2. \A k \in 1..n : k - 1 \in T => k \in T BY <1>1, <1>4
  <2> HIDE DEF T, n
  <2>3. \A k \in 0..n : k \in T BY <1>1, <2>1, <2>2, UpTo
  <2>4. QED BY <1>1, <2>3
<1>6. P[n] = FlattenSeq(ss) BY <1>2 DEF Gathers
<1>7. QED BY <1>5, <1>6 DEF Good, T

(* A filter keeps the order of the members that it keeps. *)
LEMMA AmongInOrder ==
  ASSUME NEW seq, IsList(seq), NEW S, NEW L, InOrder(seq, L)
  PROVE  InOrder(Among(seq, S), L)
<1> DEFINE A == AmongParts(seq, S)
<1>1. /\ IsList(A) /\ Len(A) = Len(seq)
      /\ \A k \in 1..Len(seq) : IsList(A[k]) /\ A[k] = IF seq[k] \in S THEN <<seq[k]>> ELSE <<>>
  BY AmongPartsLists
<1>2. Among(seq, S) = FlattenSeq(A) BY DEF Among, AmongParts
<1> HIDE DEF A
<1>3. ASSUME NEW k \in 1..Len(A) PROVE InOrder(A[k], L) /\ ToSet(A[k]) \subseteq {seq[k]}
  <2>1. A[k] = <<seq[k]>> \/ A[k] = <<>> BY <1>1
  <2>2. Len(<<seq[k]>>) = 1 /\ ToSet(<<seq[k]>>) = {seq[k]} BY OneList
  <2>3. Len(A[k]) \in {0, 1} /\ ToSet(A[k]) \subseteq {seq[k]} BY <2>1, <2>2, EmptyList
  <2>4. QED BY <2>3 DEF InOrder
<1>4. ASSUME NEW j \in 1..Len(A), NEW k \in 1..Len(A), j < k, NEW x \in ToSet(A[j]), NEW y \in ToSet(A[k])
      PROVE  <<x, y>> \in L
  <2>1. x = seq[j] /\ y = seq[k] BY <1>3
  <2>2. QED BY <1>1, <1>4, <2>1 DEF InOrder
<1>5. QED BY <1>1, <1>2, <1>3, <1>4, FlattenInOrder

(* A list in an order in which nothing precedes itself has as many members *)
(* as places.                                                              *)
LEMMA OrderDistinct ==
  ASSUME NEW s, IsList(s), NEW L, InOrder(s, L), \A x : <<x, x>> \notin L
  PROVE  Cardinality(ToSet(s)) = Len(s) /\ IsFiniteSet(ToSet(s))
<1>1. Len(s) \in Nat /\ DOMAIN s = 1..Len(s) /\ s = [i \in 1..Len(s) |-> s[i]] BY ListElim
<1>2. \A i, j \in 1..Len(s) : s[i] = s[j] => i = j
  <2>1. ASSUME NEW i \in 1..Len(s), NEW j \in 1..Len(s), i < j PROVE s[i] # s[j]
    <3>1. <<s[i], s[j]>> \in L BY <2>1 DEF InOrder
    <3> QED BY <3>1
  <2>2. QED BY <1>1, <2>1
<1>3. s \in Bijection(1..Len(s), ToSet(s))
  <2>1. s \in [1..Len(s) -> ToSet(s)] BY <1>1 DEF ToSet
  <2>2. \A y \in ToSet(s) : \E i \in 1..Len(s) : s[i] = y BY MemberOfList
  <2>3. QED BY <1>2, <2>1, <2>2 DEF Bijection, Injection, Surjection, IsInjective
<1>4. ExistsBijection(1..Len(s), ToSet(s)) BY <1>3 DEF ExistsBijection
<1>5. QED BY <1>1, <1>4, FS_CountingElements, FS_NatBijection

------------------------------------------------------------------------------
(* Groups. *)

(* The rows that are the first of their key: they ascend, no two have one   *)
(* key, and every row has the key of one of them that is not after it.      *)
LEMMA FirstsOrder ==
  ASSUME NEW n \in Nat, NEW key
  PROVE  /\ Ascends(Firsts(Rows(n), key))
         /\ \A a \in 1..Len(Firsts(Rows(n), key)) : Firsts(Rows(n), key)[a] \in 1..n
         /\ \A a, b \in 1..Len(Firsts(Rows(n), key)) :
              key[Firsts(Rows(n), key)[a]] = key[Firsts(Rows(n), key)[b]] => a = b
         /\ \A i \in 1..n : \E a \in 1..Len(Firsts(Rows(n), key)) :
              key[Firsts(Rows(n), key)[a]] = key[i] /\ Firsts(Rows(n), key)[a] <= i
<1> DEFINE S == {i \in 1..n : \A j \in 1..n : j < i => key[j] # key[i]}
           F == Firsts(Rows(n), key)
<1>1. ToSet(Rows(n)) = 1..n BY RowsList
<1>2. F = RowsIn(n, S) BY <1>1 DEF Firsts, RowsIn
<1>3. Ascends(F) /\ ToSet(F) = (1..n) \intersect S BY <1>2, RowsInAscends
<1> HIDE DEF F
<1>4. IsList(F) /\ Len(F) \in Nat BY <1>3, ListElim DEF Ascends
<1>5. \A a \in 1..Len(F) : F[a] \in S
  <2>1. \A a \in 1..Len(F) : F[a] \in ToSet(F) BY <1>4, MemberOfList
  <2>2. QED BY <1>3, <2>1
<1>6. ASSUME NEW a \in 1..Len(F), NEW b \in 1..Len(F), key[F[a]] = key[F[b]] PROVE a = b
  <2>1. \A c, d \in 1..Len(F) : c < d => F[c] < F[d] BY <1>3 DEF Ascends
  <2>2. \A c, d \in 1..Len(F) : c < d => key[F[c]] # key[F[d]] BY <1>5, <2>1
  <2>3. ~(a < b) /\ ~(b < a) BY <1>6, <2>2
  <2>4. QED BY <1>4, <2>3
<1>7. ASSUME NEW i \in 1..n PROVE \E a \in 1..Len(F) : key[F[a]] = key[i] /\ F[a] <= i
  <2> DEFINE T == {j \in 1..n : key[j] = key[i]}
  <2>1. T \in SUBSET Nat /\ T # {} /\ i \in T OBVIOUS
  <2>2. PICK j \in T : \A y \in T : j <= y BY <2>1, LeastNatural
  <2>3. j \in S BY <2>2
  <2>4. j \in ToSet(F) BY <1>3, <2>3
  <2>5. PICK a \in 1..Len(F) : F[a] = j BY <1>4, <2>4, MemberOfList
  <2>6. j <= i BY <2>1, <2>2
  <2>7. QED BY <2>2, <2>5, <2>6
<1>8. QED BY <1>3, <1>5, <1>6, <1>7 DEF F

(* The groups of the rows up to n by key: each ascends from the first row   *)
(* of its key, they come in the order of these, and two rows are in one     *)
(* group exactly when they have one key.                                    *)
Grouped(g, n, key) ==
  /\ IsList(g) /\ DOMAIN g = 1..Len(g) /\ Len(g) \in Nat
  /\ \A a \in 1..Len(g) : Ascends(g[a]) /\ Len(g[a]) >= 1
  /\ \A a, b \in 1..Len(g) : a < b => g[a][1] < g[b][1]
  /\ \A a, b \in 1..Len(g) : \A i \in ToSet(g[a]), j \in ToSet(g[b]) :
       i \in 1..n /\ j \in 1..n /\ (key[i] = key[j] <=> a = b)
  /\ \A i \in 1..n : \E a \in 1..Len(g) : i \in ToSet(g[a])
(* GroupsOf makes such groups. *)
LEMMA GroupsOrder ==
  ASSUME NEW n \in Nat, NEW key, NEW g, g = GroupsOf(Rows(n), key)
  PROVE  Grouped(g, n, key)
<1> DEFINE F == Firsts(Rows(n), key)
           K(a) == {i \in 1..n : key[i] = key[F[a]]}
<1>1. /\ Ascends(F) /\ \A a \in 1..Len(F) : F[a] \in 1..n
      /\ \A a, b \in 1..Len(F) : key[F[a]] = key[F[b]] => a = b
      /\ \A i \in 1..n : \E a \in 1..Len(F) : key[F[a]] = key[i] /\ F[a] <= i BY FirstsOrder
<1>2. g = [a \in DOMAIN F |-> RowsIn(n, K(a))] BY RowsList DEF GroupsOf, RowsIn
<1> HIDE DEF F
<1>3. Len(F) \in Nat /\ DOMAIN F = 1..Len(F) BY <1>1, ListElim DEF Ascends
<1>4. g = [a \in 1..Len(F) |-> RowsIn(n, K(a))] BY <1>2, <1>3
<1>5. IsList(g) /\ Len(g) = Len(F) /\ DOMAIN g = 1..Len(F)
  <2>1. g = [a \in 1..Len(F) |-> g[a]] BY <1>4
  <2>2. QED BY <1>3, <2>1, ListIntro
<1>6. \A a \in 1..Len(g) : Ascends(g[a]) /\ ToSet(g[a]) = K(a)
  <2>1. \A a \in 1..Len(g) : g[a] = RowsIn(n, K(a)) BY <1>4, <1>5
  <2>2. \A a : Ascends(RowsIn(n, K(a))) /\ ToSet(RowsIn(n, K(a))) = (1..n) \intersect K(a) BY RowsInAscends
  <2>3. \A a : (1..n) \intersect K(a) = K(a) OBVIOUS
  <2> HIDE DEF K
  <2>4. ASSUME NEW a \in 1..Len(g) PROVE Ascends(g[a]) /\ ToSet(g[a]) = K(a)
    <3>1. g[a] = RowsIn(n, K(a)) BY <2>1
    <3>2. QED BY <2>2, <2>3, <3>1
  <2>5. QED BY <2>4
<1>7. ASSUME NEW a \in 1..Len(g) PROVE Len(g[a]) >= 1 /\ g[a][1] = F[a]
  <2> DEFINE s == g[a]
  <2>1. IsList(s) /\ Len(s) \in Nat BY <1>6, ListElim DEF Ascends
  <2>2. F[a] \in ToSet(s) BY <1>1, <1>5, <1>6
  <2>3. PICK k \in 1..Len(s) : s[k] = F[a] BY <2>1, <2>2, MemberOfList
  <2>4. 1 \in 1..Len(s) BY <2>1
  <2>5. s[1] \in K(a) BY <1>6, <2>1, <2>4, MemberOfList
  <2>5a. F[a] \in Int /\ s[1] \in Int
    <3>1. F[a] \in 1..n BY <1>1, <1>5
    <3>2. s[1] \in 1..n BY <2>5
    <3>3. QED BY <3>1, <3>2
  <2>6. s[1] <= F[a]
    <3>1. \A i, j \in 1..Len(s) : i < j => s[i] < s[j] BY <1>6 DEF Ascends
    <3>2. k = 1 \/ 1 < k BY <2>1
    <3>3. CASE 1 < k
      <4>1. s[1] < s[k] BY <2>4, <3>1, <3>3
      <4>2. QED BY <2>3, <2>5a, <4>1
    <3>4. CASE k = 1
      <4>1. s[1] = F[a] BY <2>3, <3>4
      <4>2. QED BY <2>5a, <4>1
    <3>5. QED BY <3>2, <3>3, <3>4
  <2>7. PICK b \in 1..Len(F) : key[F[b]] = key[s[1]] /\ F[b] <= s[1] BY <1>1, <2>5
  <2>8. b = a BY <1>1, <1>5, <2>5, <2>7
  <2>10. F[a] <= s[1] BY <2>7, <2>8
  <2>11. s[1] = F[a] BY <2>6, <2>5a, <2>10
  <2>12. QED BY <2>1, <2>4, <2>11
<1>8. \A a, b \in 1..Len(g) : a < b => g[a][1] < g[b][1]
  <2>1. \A a, b \in 1..Len(F) : a < b => F[a] < F[b] BY <1>1 DEF Ascends
  <2>2. QED BY <1>5, <1>7, <2>1
<1>9. ASSUME NEW a \in 1..Len(g), NEW b \in 1..Len(g), NEW i \in ToSet(g[a]), NEW j \in ToSet(g[b])
      PROVE  i \in 1..n /\ j \in 1..n /\ (key[i] = key[j] <=> a = b)
  <2>1. i \in K(a) /\ j \in K(b) BY <1>6
  <2>2. QED BY <1>1, <1>5, <2>1
<1>10. ASSUME NEW i \in 1..n PROVE \E a \in 1..Len(g) : i \in ToSet(g[a])
  <2>1. PICK a \in 1..Len(F) : key[F[a]] = key[i] BY <1>1
  <2>2. i \in K(a) BY <2>1
  <2>3. QED BY <1>5, <1>6, <2>2
<1>11. QED BY <1>3, <1>5, <1>6, <1>7, <1>8, <1>9, <1>10 DEF Grouped

(* Lists no two members of which are equal. *)
Apart(s) == \A i, j \in 1..Len(s) : i < j => s[i] # s[j]

(* Lists without equal members that share none, one after another. *)
LEMMA FlattenApart ==
  ASSUME NEW g, IsList(g), \A a \in 1..Len(g) : IsList(g[a]) /\ Apart(g[a]),
         \A a, b \in 1..Len(g) : a < b => \A x \in ToSet(g[a]), y \in ToSet(g[b]) : x # y
  PROVE  /\ IsList(FlattenSeq(g)) /\ ToSet(FlattenSeq(g)) = UNION {ToSet(g[a]) : a \in 1..Len(g)}
         /\ Apart(FlattenSeq(g))
<1> DEFINE U == UNION {ToSet(g[a]) : a \in 1..Len(g)}
           L == {p \in U \X U : p[1] # p[2]}
           f == FlattenSeq(g)
<1>1. IsList(f) /\ ToSet(f) = U BY FlattenList
<1> HIDE DEF f
<1>2. ASSUME NEW a \in 1..Len(g) PROVE InOrder(g[a], L)
  <2>1. \A i, j \in 1..Len(g[a]) : i < j => g[a][i] # g[a][j] BY DEF Apart
  <2>2. \A i \in 1..Len(g[a]) : g[a][i] \in U BY MemberOfList
  <2>3. QED BY <2>1, <2>2 DEF InOrder
<1>3. \A a, b \in 1..Len(g) : a < b => \A x \in ToSet(g[a]), y \in ToSet(g[b]) : <<x, y>> \in L
  <2> SUFFICES ASSUME NEW a \in 1..Len(g), NEW b \in 1..Len(g), a < b, NEW x \in ToSet(g[a]), NEW y \in ToSet(g[b])
               PROVE  <<x, y>> \in L OBVIOUS
  <2>1. x # y OBVIOUS
  <2>2. x \in U /\ y \in U OBVIOUS
  <2>3. QED BY <2>1, <2>2
<1>4. \A x, y : <<x, y>> \in L => x # y OBVIOUS
<1> HIDE DEF L, U
<1>5. InOrder(f, L) BY <1>2, <1>3, FlattenInOrder DEF f
<1>6. Apart(f) BY <1>4, <1>5 DEF Apart, InOrder
<1>7. QED BY <1>1, <1>6 DEF f, U

(* A list without equal members has as many members as places. *)
LEMMA ApartCounts ==
  ASSUME NEW s, IsList(s), Apart(s)
  PROVE  Cardinality(ToSet(s)) = Len(s)
<1> DEFINE L == {p \in ToSet(s) \X ToSet(s) : p[1] # p[2]}
<1>1. \A i \in 1..Len(s) : s[i] \in ToSet(s) BY MemberOfList
<1>2. InOrder(s, L) BY <1>1 DEF InOrder, Apart
<1>3. \A x : <<x, x>> \notin L OBVIOUS
<1> HIDE DEF L
<1>4. QED BY <1>2, <1>3, OrderDistinct

(* Numbers that ascend are without equal members. *)
LEMMA AscendsApart == ASSUME NEW s, Ascends(s) PROVE IsList(s) /\ Apart(s)
<1>1. \A i, j \in 1..Len(s) : i < j => s[i] < s[j] /\ s[i] \in Int /\ s[j] \in Int BY DEF Ascends
<1>2. QED BY <1>1 DEF Ascends, Apart

(* A member's position is that of its first occurrence. *)
LEMMA PositionFirst ==
  ASSUME NEW seq, IsList(seq), NEW k \in 1..Len(seq)
  PROVE  /\ Position(seq, seq[k]) \in 1..k
         /\ seq[Position(seq, seq[k])] = seq[k]
<1> DEFINE I == {i \in 1..Len(seq) : seq[i] = seq[k]}
<1>1. Len(seq) \in Nat BY ListElim
<1>2. I \in SUBSET Nat /\ k \in I BY <1>1
<1>3. Position(seq, seq[k]) = Min(I)
  <2>1. I # {} BY <1>2
  <2>2. QED BY <2>1 DEF Position, SelectInSeq
<1> HIDE DEF I
<1>4. Min(I) \in I /\ Min(I) <= k BY <1>2, MinFacts
<1>5. QED BY <1>1, <1>3, <1>4 DEF I

(* A cell of a categorical that is there: its code and what it shows both   *)
(* come from the first place of its category.                               *)
LEMMA CodeShows ==
  ASSUME NEW c, ColumnShape(c), c.cls = "Cat", Intact(c), NEW i, ~NullAt(c, i)
  PROVE  \/ c.cats = <<>> /\ ValueAt(c, i) = 0 /\ Get(c, i) = ""
         \/ \E k \in DOMAIN c.cats : /\ ValueAt(c, i) = k - 1 /\ Position(c.cats, c.cats[k]) = k
                                     /\ Get(c, i) = c.cats[k] /\ k \in Nat \ {0}
<1>1. /\ DOMAIN c.cats = 1..Len(c.cats) /\ Len(c.cats) \in Nat /\ IsList(c.cats)
      /\ DOMAIN c.nulls = 1..Length(c) /\ DOMAIN c.vals = 1..Len(c.vals)
      /\ Len(c.vals) = Length(c) \/ c.vals = <<>>
  BY ListElim DEF ColumnShape, Length
<1>2. c.cats = <<>> <=> Len(c.cats) = 0 BY <1>1, EmptyIff
<1>3. Get(c, i) = IF ValueAt(c, i) + 1 \in DOMAIN c.cats THEN c.cats[ValueAt(c, i) + 1] ELSE "" BY DEF Get
<1>4. CASE i \in 1..Length(c)
  <2>1. ~c.nulls[i] BY <1>1, <1>4 DEF NullAt
  <2>2. PICK k \in DOMAIN c.cats : c.vals[i] = k - 1 /\ Position(c.cats, c.cats[k]) = k /\ i \in DOMAIN c.vals
    BY <1>4, <2>1 DEF Intact
  <2>3. ValueAt(c, i) = k - 1 BY <2>2 DEF ValueAt
  <2>4. k \in Nat \ {0} BY <1>1
  <2>5. (k - 1) + 1 = k BY <2>4
  <2>6. Get(c, i) = c.cats[k] BY <1>3, <2>3, <2>5
  <2>7. QED BY <2>2, <2>3, <2>4, <2>6
<1>5. CASE i \notin 1..Length(c)
  <2>1. i \notin DOMAIN c.vals BY <1>1, <1>5, EmptyList
  <2>2. ValueAt(c, i) = 0 BY <2>1 DEF ValueAt, Filler
  <2>3. CASE c.cats = <<>>
    <3>1. 1 \notin DOMAIN c.cats BY <1>1, <1>2, <2>3
    <3>2. 0 + 1 = 1 OBVIOUS
    <3>3. QED BY <1>3, <2>2, <2>3, <3>1, <3>2
  <2>4. CASE c.cats # <<>>
    <3>1. 1 \in DOMAIN c.cats BY <1>1, <1>2, <2>4
    <3>2. Position(c.cats, c.cats[1]) \in 1..1 BY <1>1, <3>1, PositionFirst
    <3>3. Position(c.cats, c.cats[1]) = 1 BY <3>2
    <3>4. 0 + 1 = 1 /\ 0 = 1 - 1 /\ 1 \in Nat \ {0} OBVIOUS
    <3>5. Get(c, i) = c.cats[1] BY <1>3, <2>2, <3>1, <3>4
    <3>6. QED BY <2>2, <3>1, <3>3, <3>4, <3>5
  <2>5. QED BY <2>3, <2>4
<1>6. QED BY <1>4, <1>5

(* So cells of columns of the same categories have one code, that of the   *)
(* nulls included, exactly when they show the same.                        *)
LEMMA CodesTell ==
  ASSUME NEW c, ColumnShape(c), c.cls = "Cat", Intact(c), NEW d, ColumnShape(d), d.cls = "Cat", Intact(d),
         c.cats = d.cats, NEW i, NEW j, Get(c, i) = None => NullAt(c, i), Get(d, j) = None => NullAt(d, j)
  PROVE  (IF NullAt(c, i) THEN NullCode ELSE ValueAt(c, i)) = (IF NullAt(d, j) THEN NullCode ELSE ValueAt(d, j))
           <=> Get(c, i) = Get(d, j)
<1>1. \A e, r : NullAt(e, r) => Get(e, r) = None BY DEF Get
<1>2. ASSUME NEW e, ColumnShape(e), e.cls = "Cat", Intact(e), NEW r, ~NullAt(e, r) PROVE ValueAt(e, r) # NullCode
  <2>1. ValueAt(e, r) = 0 \/ \E k \in Nat \ {0} : ValueAt(e, r) = k - 1
    <3>1. \/ ValueAt(e, r) = 0
          \/ \E k \in DOMAIN e.cats : ValueAt(e, r) = k - 1 /\ k \in Nat \ {0} BY <1>2, CodeShows
    <3>2. QED BY <3>1
  <2>2. QED BY <2>1 DEF NullCode
<1>3. CASE NullAt(c, i) \/ NullAt(d, j)
  <2>1. ~NullAt(c, i) => ValueAt(c, i) # NullCode BY <1>2
  <2>2. ~NullAt(d, j) => ValueAt(d, j) # NullCode BY <1>2
  <2>3. QED BY <1>1, <1>3, <2>1, <2>2
<1>4. CASE ~NullAt(c, i) /\ ~NullAt(d, j)
  <2>1. \/ c.cats = <<>> /\ ValueAt(c, i) = 0 /\ Get(c, i) = ""
        \/ \E k \in DOMAIN c.cats : /\ ValueAt(c, i) = k - 1 /\ Position(c.cats, c.cats[k]) = k
                                    /\ Get(c, i) = c.cats[k] /\ k \in Nat \ {0}
    BY <1>4, CodeShows
  <2>2. \/ c.cats = <<>> /\ ValueAt(d, j) = 0 /\ Get(d, j) = ""
        \/ \E k \in DOMAIN c.cats : /\ ValueAt(d, j) = k - 1 /\ Position(c.cats, c.cats[k]) = k
                                    /\ Get(d, j) = c.cats[k] /\ k \in Nat \ {0}
    BY <1>4, CodeShows
  <2>3. CASE c.cats = <<>>
    <3>1. DOMAIN c.cats = {} BY <2>3, EmptyList
    <3>2. QED BY <1>4, <2>1, <2>2, <3>1
  <2>4. CASE c.cats # <<>>
    <3>1. PICK k \in Nat \ {0} : ValueAt(c, i) = k - 1 /\ Position(c.cats, Get(c, i)) = k /\ c.cats[k] = Get(c, i)
      BY <2>1, <2>4
    <3>2. PICK l \in Nat \ {0} : ValueAt(d, j) = l - 1 /\ Position(c.cats, Get(d, j)) = l /\ c.cats[l] = Get(d, j)
      BY <2>2, <2>4
    <3>3. ValueAt(c, i) = ValueAt(d, j) <=> k = l BY <3>1, <3>2
    <3>4. k = l <=> Get(c, i) = Get(d, j) BY <3>1, <3>2
    <3>5. QED BY <1>4, <3>3, <3>4
  <2>5. QED BY <2>3, <2>4
<1>5. QED BY <1>3, <1>4

(* The groups of a frame by columns that are there, when their texts and    *)
(* codes tell keys apart.                                                   *)
LEMMA GroupsPartitionRows ==
  ASSUME NEW f, NEW h, NEW ok, Twin(f, h, ok), NEW names, IsList(names),
         \A k \in 1..Len(names) : HasColumn(f, names[k]) /\ Intact(ColumnOf(f, names[k])),
         TextsTell(f, f, names), NullsShow(f, names)
  PROVE  PartitionsRows(GroupRows(f, names), f, names)
<1> DEFINE cols == KeyColumns(f, names)
           n == f.nrows
           codes == [i \in 1..n |-> CodesOf(cols, i)]
           texts == [i \in 1..n |-> RowKey(cols, i)]
           key == IF AllCategorical(cols) THEN codes ELSE texts
           g == GroupRows(f, names)
<1>1. n \in Nat BY TwinParts
<1>2. DOMAIN names = 1..Len(names) BY ListElim
<1>3. g = GroupsOf(Rows(n), key) BY DEF GroupRows
<1>4. ASSUME NEW i \in 1..n, NEW j \in 1..n PROVE key[i] = key[j] <=> ShowsSame(f, f, names, i, j)
  <2>1. CASE ~AllCategorical(cols)
    <3>1. key[i] = RowKey(cols, i) /\ key[j] = RowKey(cols, j) BY <2>1
    <3>2. QED BY <3>1 DEF TextsTell
  <2>2. CASE AllCategorical(cols)
    <3>1. key[i] = CodesOf(cols, i) /\ key[j] = CodesOf(cols, j) BY <2>2
    <3> DEFINE code(k, r) == IF NullAt(ColumnOf(f, names[k]), r) THEN NullCode ELSE ValueAt(ColumnOf(f, names[k]), r)
    <3>2. \A k \in DOMAIN names : cols[k] = ColumnOf(f, names[k]) BY DEF KeyColumns
    <3>3. \A r : CodesOf(cols, r) = [k \in DOMAIN names |-> code(k, r)]
      <4> SUFFICES ASSUME NEW r PROVE CodesOf(cols, r) = [k \in DOMAIN names |-> code(k, r)] OBVIOUS
      <4>1. DOMAIN cols = DOMAIN names BY DEF KeyColumns
      <4>2. CodesOf(cols, r) = [k \in DOMAIN cols |-> IF NullAt(cols[k], r) THEN NullCode ELSE ValueAt(cols[k], r)]
        BY DEF CodesOf
      <4> HIDE DEF cols
      <4>3. \A k \in DOMAIN names : (IF NullAt(cols[k], r) THEN NullCode ELSE ValueAt(cols[k], r)) = code(k, r) BY <3>2
      <4> HIDE DEF code
      <4>4. QED BY <4>1, <4>2, <4>3
    <3>4. ASSUME NEW k \in DOMAIN names
          PROVE  code(k, i) = code(k, j) <=> Get(ColumnOf(f, names[k]), i) = Get(ColumnOf(f, names[k]), j)
      <4> DEFINE c == ColumnOf(f, names[k])
      <4>1. HasColumn(f, names[k]) /\ Intact(c) BY <1>2
      <4>2. ColumnShape(c) BY <4>1, ColumnOfTwin, ShapeOf
      <4>3. c.cls = "Cat" BY <2>2, <3>2 DEF AllCategorical, KeyColumns
      <4>4. (Get(c, i) = None => NullAt(c, i)) /\ (Get(c, j) = None => NullAt(c, j)) BY DEF NullsShow
      <4> HIDE DEF c
      <4>5. (IF NullAt(c, i) THEN NullCode ELSE ValueAt(c, i)) = (IF NullAt(c, j) THEN NullCode ELSE ValueAt(c, j))
              <=> Get(c, i) = Get(c, j)
        BY <4>1, <4>2, <4>3, <4>4, CodesTell
      <4>6. QED BY <4>5 DEF c
    <3> HIDE DEF code, cols, key
    <3>5. CodesOf(cols, i) = CodesOf(cols, j) <=> \A k \in DOMAIN names : code(k, i) = code(k, j)
      <4> DEFINE x == [k \in DOMAIN names |-> code(k, i)]  y == [k \in DOMAIN names |-> code(k, j)]
      <4>1. x = y <=> \A k \in DOMAIN names : code(k, i) = code(k, j)
        <5>1. \A k \in DOMAIN names : x[k] = code(k, i) /\ y[k] = code(k, j) OBVIOUS
        <5>2. (\A k \in DOMAIN names : x[k] = y[k]) => x = y OBVIOUS
        <5> HIDE DEF x, y
        <5>3. QED BY <5>1, <5>2
      <4>2. QED BY <3>3, <4>1
    <3>6. QED BY <3>1, <3>4, <3>5 DEF ShowsSame
  <2>3. QED BY <2>1, <2>2
<1> HIDE DEF key, g, cols, n
<1>5. /\ IsList(g) /\ DOMAIN g = 1..Len(g) /\ Len(g) \in Nat
      /\ \A a \in 1..Len(g) : Ascends(g[a]) /\ Len(g[a]) >= 1
      /\ \A a, b \in 1..Len(g) : a < b => g[a][1] < g[b][1]
      /\ \A a, b \in 1..Len(g) : \A i \in ToSet(g[a]), j \in ToSet(g[b]) :
           i \in 1..n /\ j \in 1..n /\ (key[i] = key[j] <=> a = b)
      /\ \A i \in 1..n : \E a \in 1..Len(g) : i \in ToSet(g[a])
  <2>1. Grouped(g, n, key) BY <1>1, <1>3, GroupsOrder
  <2>2. QED BY <2>1 DEF Grouped
<1>6. ToSet(FlattenSeq(g)) = 1..n /\ Len(FlattenSeq(g)) = n
  <2>1. \A a, b \in 1..Len(g) : \A i \in ToSet(g[a]), j \in ToSet(g[b]) : i = j => a = b BY <1>5
  <2>2. /\ ToSet(FlattenSeq(g)) = UNION {ToSet(g[a]) : a \in 1..Len(g)}
        /\ Len(FlattenSeq(g)) = Cardinality(ToSet(FlattenSeq(g)))
    <3>1. \A a \in 1..Len(g) : IsList(g[a]) /\ Apart(g[a]) BY <1>5, AscendsApart
    <3>2. \A a, b \in 1..Len(g) : a < b => \A x \in ToSet(g[a]), y \in ToSet(g[b]) : x # y
      <4>1. \A a, b \in 1..Len(g) : a < b => a # b BY <1>5
      <4>2. QED BY <2>1, <4>1
    <3>3. /\ IsList(FlattenSeq(g)) /\ ToSet(FlattenSeq(g)) = UNION {ToSet(g[a]) : a \in 1..Len(g)}
          /\ Apart(FlattenSeq(g)) BY <1>5, <3>1, <3>2, FlattenApart
    <3>4. QED BY <3>3, ApartCounts
  <2>3. UNION {ToSet(g[a]) : a \in 1..Len(g)} = 1..n
    <3>1. \A a \in 1..Len(g) : \A i \in ToSet(g[a]) : i \in 1..n BY <1>5
    <3>2. \A i \in 1..n : \E a \in 1..Len(g) : i \in ToSet(g[a]) BY <1>5
    <3>3. QED BY <3>1, <3>2
  <2>4. Cardinality(1..n) = n BY <1>1, FS_Interval
  <2>5. QED BY <2>2, <2>3, <2>4
<1>7. \A a, b \in DOMAIN g : \A i \in ToSet(g[a]), j \in ToSet(g[b]) : ShowsSame(f, f, names, i, j) <=> a = b
  <2> SUFFICES ASSUME NEW a \in DOMAIN g, NEW b \in DOMAIN g, NEW i \in ToSet(g[a]), NEW j \in ToSet(g[b])
               PROVE  ShowsSame(f, f, names, i, j) <=> a = b OBVIOUS
  <2>1. i \in 1..n /\ j \in 1..n /\ (key[i] = key[j] <=> a = b) BY <1>5
  <2>2. QED BY <1>4, <2>1
<1>8. \A a \in DOMAIN g : \A i, j \in DOMAIN g[a] : i < j => g[a][i] < g[a][j]
  <2> SUFFICES ASSUME NEW a \in DOMAIN g PROVE \A i, j \in DOMAIN g[a] : i < j => g[a][i] < g[a][j] OBVIOUS
  <2>1. Ascends(g[a]) BY <1>5
  <2>2. DOMAIN g[a] = 1..Len(g[a]) BY <2>1, ListElim DEF Ascends
  <2>3. QED BY <2>1, <2>2 DEF Ascends
<1>9. \A a, b \in DOMAIN g : a < b => g[a][1] < g[b][1] BY <1>5
<1>10. QED BY <1>6, <1>7, <1>8, <1>9 DEF PartitionsRows, g, n

(* group_by puts rows in one group exactly when their keys show the same,   *)
(* whether it compares texts or codes, keeps each row once, the rows of a   *)
(* group in their order and the groups in that of their first rows, in      *)
(* every frame a session can make whose texts tell its keys apart           *)
(* (builtins.rs, df_group_rows).                                            *)
THEOREM GroupsPartitionSafe == Spec => [](KeysTell => GroupsPartition)
<1>1. TwinsInv => (KeysTell => GroupsPartition)
  <2> SUFFICES ASSUME TwinsInv, KeysTell, NEW names \in GroupNames, IntactKeys(names)
               PROVE  PartitionsRows(GroupBy(f1, names).groups, f1, names)
    BY DEF GroupsPartition
  <2>1. Twin(f1, df[2], counted) BY DEF TwinsInv, f1
  <2>2. IsList(names) /\ \A k \in 1..Len(names) : HasColumn(f1, names[k]) BY GroupNamesColumns DEF f1
  <2>3. DOMAIN names = 1..Len(names) BY <2>2, ListElim
  <2>4. \A k \in 1..Len(names) : Intact(ColumnOf(f1, names[k])) BY <2>3 DEF IntactKeys
  <2>5. TextsTell(f1, f1, names) /\ NullsShow(f1, names) BY DEF KeysTell
  <2>6. PartitionsRows(GroupRows(f1, names), f1, names) BY <2>1, <2>2, <2>4, <2>5, GroupsPartitionRows
  <2>7. GroupBy(f1, names).groups = GroupRows(f1, names) BY DEF GroupBy
  <2>8. QED BY <2>6, <2>7
<1>2. QED BY <1>1, TwinsSafe, PTL

------------------------------------------------------------------------------
(* Joins. *)

(* Two rows have the same key, and no null in it. *)
SameKey(l, r, on, i, j) ==
  \A k \in DOMAIN on : /\ Get(ColumnOf(l, on[k]), i) = Get(ColumnOf(r, on[k]), j)
                       /\ Get(ColumnOf(l, on[k]), i) # None

(* What a merge needs of its keys to be a join: they are columns of both    *)
(* frames, their texts and codes tell them apart, and only a null shows     *)
(* None.                                                                    *)
KeysJoin(l, r, on) ==
  /\ IsList(on) /\ MergeOK(l, r, on)
  /\ \A k \in 1..Len(on) : /\ ColumnShape(ColumnOf(l, on[k])) /\ Intact(ColumnOf(l, on[k]))
                           /\ ColumnShape(ColumnOf(r, on[k])) /\ Intact(ColumnOf(r, on[k]))
  /\ TextsTell(l, r, on) /\ NullsShow(l, on) /\ NullsShow(r, on)

(* Then rows match exactly when they have the same key without a null. *)
LEMMA MatchesSay ==
  ASSUME NEW l, NEW r, NEW on, KeysJoin(l, r, on), NEW i \in 1..l.nrows, NEW j \in 1..r.nrows
  PROVE  Matches(KeyColumns(l, on), KeyColumns(r, on), i, j) <=> SameKey(l, r, on, i, j)
<1> DEFINE a == KeyColumns(l, on)  b == KeyColumns(r, on)
           x(k) == ColumnOf(l, on[k])  y(k) == ColumnOf(r, on[k])
<1>1. DOMAIN on = 1..Len(on) BY ListElim DEF KeysJoin
<1>2. /\ DOMAIN a = DOMAIN on /\ DOMAIN b = DOMAIN on
      /\ \A k \in DOMAIN on : a[k] = x(k) /\ b[k] = y(k) BY DEF KeyColumns
<1>3. \A k \in DOMAIN on : /\ NullAt(x(k), i) <=> Get(x(k), i) = None
                           /\ NullAt(y(k), j) <=> Get(y(k), j) = None
  <2>1. \A k \in DOMAIN on : /\ Get(x(k), i) = None => NullAt(x(k), i)
                             /\ Get(y(k), j) = None => NullAt(y(k), j) BY DEF KeysJoin, NullsShow
  <2>2. \A c, q : NullAt(c, q) => Get(c, q) = None BY DEF Get
  <2>3. QED BY <2>1, <2>2
<1>4. RowKey(a, i) = RowKey(b, j) <=> ShowsSame(l, r, on, i, j) BY DEF KeysJoin, TextsTell
<1>5. ASSUME CanUseCodes(a, b) PROVE CodesOf(a, i) = CodesOf(b, j) <=> ShowsSame(l, r, on, i, j)
  <2> DEFINE ca(k) == IF NullAt(a[k], i) THEN NullCode ELSE ValueAt(a[k], i)
             cb(k) == IF NullAt(b[k], j) THEN NullCode ELSE ValueAt(b[k], j)
  <2>1. CodesOf(a, i) = [k \in DOMAIN on |-> ca(k)] /\ CodesOf(b, j) = [k \in DOMAIN on |-> cb(k)]
    <3> HIDE DEF a, b
    <3>1. QED BY <1>2 DEF CodesOf
  <2>2. ASSUME NEW k \in DOMAIN on PROVE ca(k) = cb(k) <=> Get(x(k), i) = Get(y(k), j)
    <3> DEFINE c == x(k)  d == y(k)
    <3>1. a[k] = c /\ b[k] = d BY <1>2
    <3>2. ColumnShape(c) /\ Intact(c) /\ ColumnShape(d) /\ Intact(d) BY <1>1 DEF KeysJoin
    <3>3. c.cls = "Cat" /\ d.cls = "Cat" /\ c.cats = d.cats
      <4>1. \A m \in DOMAIN a : a[m].cls = "Cat" /\ b[m].cls = "Cat" /\ a[m].cats = b[m].cats BY <1>5 DEF CanUseCodes
      <4>2. QED BY <1>2, <3>1, <4>1
    <3>4. (Get(c, i) = None => NullAt(c, i)) /\ (Get(d, j) = None => NullAt(d, j)) BY <1>3
    <3> HIDE DEF c, d, a, b
    <3>5. (IF NullAt(c, i) THEN NullCode ELSE ValueAt(c, i)) = (IF NullAt(d, j) THEN NullCode ELSE ValueAt(d, j))
            <=> Get(c, i) = Get(d, j) BY <3>2, <3>3, <3>4, CodesTell
    <3>6. QED BY <3>1, <3>5 DEF c, d
  <2> HIDE DEF ca, cb
  <2>3. CodesOf(a, i) = CodesOf(b, j) <=> \A k \in DOMAIN on : ca(k) = cb(k)
    <3> DEFINE u == [k \in DOMAIN on |-> ca(k)]  v == [k \in DOMAIN on |-> cb(k)]
    <3>1. \A k \in DOMAIN on : u[k] = ca(k) /\ v[k] = cb(k) OBVIOUS
    <3>2. (\A k \in DOMAIN on : u[k] = v[k]) => u = v OBVIOUS
    <3>3. CodesOf(a, i) = u /\ CodesOf(b, j) = v BY <2>1
    <3> HIDE DEF u, v, a, b
    <3>4. QED BY <3>1, <3>2, <3>3
  <2> HIDE DEF a, b
  <2>4. QED BY <2>2, <2>3 DEF ShowsSame
<1>6. NullKey(a, i) <=> \E k \in DOMAIN on : Get(x(k), i) = None
  <2>1. NullKey(a, i) <=> \E k \in DOMAIN a : NullAt(a[k], i) BY DEF NullKey
  <2> HIDE DEF a
  <2>2. QED BY <1>2, <1>3, <2>1
<1>7. NullKey(b, j) <=> \E k \in DOMAIN on : Get(y(k), j) = None
  <2>1. NullKey(b, j) <=> \E k \in DOMAIN b : NullAt(b[k], j) BY DEF NullKey
  <2> HIDE DEF b
  <2>2. QED BY <1>2, <1>3, <2>1
<1> HIDE DEF a, b
<1>8. Matches(a, b, i, j) <=> ~NullKey(a, i) /\ ~NullKey(b, j) /\ ShowsSame(l, r, on, i, j)
  BY <1>4, <1>5 DEF Matches
<1>9. ShowsSame(l, r, on, i, j) <=> \A k \in DOMAIN on : Get(x(k), i) = Get(y(k), j) BY DEF ShowsSame
<1>10. SameKey(l, r, on, i, j) <=> \A k \in DOMAIN on : Get(x(k), i) = Get(y(k), j) /\ Get(x(k), i) # None
  BY DEF SameKey
<1> HIDE DEF x, y
<1>11. QED BY <1>6, <1>7, <1>8, <1>9, <1>10 DEF a, b

(* Rows that ascend, each paired with one row of the other side. *)
PairedWith(h, U) == [k \in DOMAIN U |-> <<h, U[k]>>]
(* The pairs of a row with those of a list, as one list. *)
LEMMA PairedRows ==
  ASSUME NEW U, Ascends(U), NEW h
  PROVE  /\ IsList(PairedWith(h, U)) /\ Apart(PairedWith(h, U))
         /\ ToSet(PairedWith(h, U)) = {<<h, j>> : j \in ToSet(U)}
<1> DEFINE z == [k \in DOMAIN U |-> <<h, U[k]>>]
<1>1. IsList(U) /\ Apart(U) BY AscendsApart
<1>2. DOMAIN U = 1..Len(U) BY <1>1, ListElim
<1>3. z = [k \in DOMAIN U |-> z[k]] OBVIOUS
<1>4. \A k \in 1..Len(U) : z[k] = <<h, U[k]>> BY <1>2
<1>5. \A k \in 1..Len(U) : z[k][2] = U[k] BY <1>4
<1> HIDE DEF z
<1>6. IsList(z) /\ Len(z) = Len(U) BY <1>1, <1>3, MapLen
<1>7. Apart(z)
  <2>1. \A i, j \in 1..Len(U) : i < j => U[i] # U[j] BY <1>1 DEF Apart
  <2>2. \A i, j \in 1..Len(U) : i < j => z[i][2] # z[j][2] BY <1>5, <2>1
  <2>3. QED BY <1>6, <2>2 DEF Apart
<1>8. ASSUME NEW p PROVE p \in ToSet(z) <=> p \in {<<h, j>> : j \in ToSet(U)}
  <2>1. p \in ToSet(z) <=> \E k \in 1..Len(U) : z[k] = p BY <1>6, MemberOfList
  <2>2. \A j : j \in ToSet(U) <=> \E k \in 1..Len(U) : U[k] = j BY <1>1, MemberOfList
  <2>3. ASSUME p \in ToSet(z) PROVE \E j \in ToSet(U) : p = <<h, j>>
    <3>1. PICK k \in 1..Len(U) : z[k] = p BY <2>1, <2>3
    <3>2. p = <<h, U[k]>> BY <1>4, <3>1
    <3>3. QED BY <2>2, <3>2
  <2>4. ASSUME NEW j \in ToSet(U), p = <<h, j>> PROVE p \in ToSet(z)
    <3>1. PICK k \in 1..Len(U) : U[k] = j BY <2>2
    <3>2. z[k] = p BY <1>4, <2>4, <3>1
    <3>3. QED BY <2>1, <3>2
  <2>5. QED BY <2>3, <2>4
<1>9. QED BY <1>6, <1>7, <1>8 DEF z, PairedWith

(* The pairs that a merge emits are those of the join, each of them once. *)
LEMMA EmitIsJoin ==
  ASSUME NEW l, NEW r, l.nrows \in Nat, r.nrows \in Nat, NEW on, KeysJoin(l, r, on), NEW how
  PROVE  /\ IsList(Emit(l, r, on, how))
         /\ ToSet(Emit(l, r, on, how)) = JoinPairs(l, r, on, how)
         /\ Len(Emit(l, r, on, how)) = Cardinality(ToSet(Emit(l, r, on, how)))
<1> DEFINE lk == KeyColumns(l, on)  rk == KeyColumns(r, on)
           m == l.nrows  n == r.nrows
           S(i) == {j \in 1..n : Matches(lk, rk, i, j)}
           F(i) == RowsIn(n, S(i))
           paired(i) == [k \in DOMAIN F(i) |-> <<i, F(i)[k]>>]
           alone == how \in {"left", "outer"}
           O(i) == IF F(i) # <<>> THEN paired(i) ELSE IF alone THEN <<<<i, 0>>>> ELSE <<>>
           P == [i \in 1..m |-> O(i)]
           T == {j \in 1..n : \A i \in 1..m : ~Matches(lk, rk, i, j)}
           M == RowsIn(n, T)
           late == how \in {"right", "outer"}
           missed == [k \in DOMAIN M |-> <<0, M[k]>>]
           Q == IF late THEN missed ELSE <<>>
           same(i, j) == SameKey(l, r, on, i, j)
           E == Emit(l, r, on, how)
<1>1. E = FlattenSeq(P) \o Q BY Zenon DEF Emit
<1>2. \A i \in 1..m : \A j \in 1..n : Matches(lk, rk, i, j) <=> same(i, j) BY MatchesSay
<1>3. /\ \A i \in 1..m : S(i) = {j \in 1..n : same(i, j)}
      /\ T = {j \in 1..n : \A i \in 1..m : ~same(i, j)} BY <1>2
<1>4. JoinPairs(l, r, on, how) =
        {p \in (1..m) \X (1..n) : same(p[1], p[2])}
          \union (IF alone THEN {<<i, 0>> : i \in {i \in 1..m : \A j \in 1..n : ~same(i, j)}} ELSE {})
          \union (IF late THEN {<<0, j>> : j \in {j \in 1..n : \A i \in 1..m : ~same(i, j)}} ELSE {})
  BY DEF JoinPairs, SameKey
<1> HIDE DEF lk, rk, E, alone, late, same
<1>5. \A U : Ascends(RowsIn(n, U)) /\ ToSet(RowsIn(n, U)) = (1..n) \intersect U BY RowsInAscends
<1>6. /\ \A i \in 1..m : Ascends(F(i)) /\ ToSet(F(i)) = {j \in 1..n : same(i, j)}
      /\ Ascends(M) /\ ToSet(M) = {j \in 1..n : \A i \in 1..m : ~same(i, j)}
  <2>1. \A i \in 1..m : (1..n) \intersect S(i) = {j \in 1..n : same(i, j)} BY <1>3
  <2>2. (1..n) \intersect T = {j \in 1..n : \A i \in 1..m : ~same(i, j)} BY <1>3
  <2> HIDE DEF S, T
  <2>3. QED BY <1>5, <2>1, <2>2
<1> HIDE DEF F, M, m, n
<1>8. ASSUME NEW i \in 1..m
      PROVE  /\ IsList(O(i)) /\ Apart(O(i))
             /\ ToSet(O(i)) = {<<i, j>> : j \in {j \in 1..n : same(i, j)}}
                                \union (IF alone /\ (\A j \in 1..n : ~same(i, j)) THEN {<<i, 0>>} ELSE {})
  <2>1. Ascends(F(i)) /\ ToSet(F(i)) = {j \in 1..n : same(i, j)} BY <1>6
  <2>2. IsList(F(i)) BY <2>1 DEF Ascends
  <2>3. CASE F(i) # <<>>
    <3>1. O(i) = PairedWith(i, F(i)) BY <2>3 DEF PairedWith
    <3>2. IsList(PairedWith(i, F(i))) /\ Apart(PairedWith(i, F(i))) /\ ToSet(PairedWith(i, F(i))) = {<<i, j>> : j \in ToSet(F(i))}
      BY <2>1, PairedRows
    <3>3. \E j \in 1..n : same(i, j)
      <4>1. Len(F(i)) # 0 /\ Len(F(i)) \in Nat BY <2>2, <2>3, EmptyIff, ListElim
      <4>2. F(i)[1] \in ToSet(F(i)) BY <2>2, <4>1, MemberOfList
      <4>3. QED BY <2>1, <4>2
    <3> HIDE DEF O
    <3>4. QED BY <2>1, <3>1, <3>2, <3>3
  <2>4. CASE F(i) = <<>>
    <3>1. {j \in 1..n : same(i, j)} = {} BY <2>1, <2>4, EmptyList
    <3>2. O(i) = IF alone THEN <<<<i, 0>>>> ELSE <<>> BY <2>4
    <3>3. /\ IsList(<<<<i, 0>>>>) /\ Len(<<<<i, 0>>>>) = 1 /\ ToSet(<<<<i, 0>>>>) = {<<i, 0>>}
          /\ IsList(<<>>) /\ Len(<<>>) = 0 /\ ToSet(<<>>) = {} BY OneList, EmptyList
    <3>4. Apart(<<<<i, 0>>>>) /\ Apart(<<>>) BY <3>3 DEF Apart
    <3> HIDE DEF O
    <3>5. QED BY <3>1, <3>2, <3>3, <3>4
  <2>5. QED BY <2>3, <2>4
<1>9. IsList(Q) /\ Apart(Q)
      /\ ToSet(Q) = IF late THEN {<<0, j>> : j \in {j \in 1..n : \A i \in 1..m : ~same(i, j)}} ELSE {}
  <2>1. IsList(PairedWith(0, M)) /\ Apart(PairedWith(0, M)) /\ ToSet(PairedWith(0, M)) = {<<0, j>> : j \in ToSet(M)}
    BY <1>6, PairedRows
  <2>2. IsList(<<>>) /\ Len(<<>>) = 0 /\ ToSet(<<>>) = {} BY EmptyList
  <2>3. Apart(<<>>) BY <2>2 DEF Apart
  <2>4. Q = IF late THEN PairedWith(0, M) ELSE <<>> BY DEF PairedWith
  <2> HIDE DEF Q
  <2>5. QED BY <1>6, <2>1, <2>2, <2>3, <2>4
<1> HIDE DEF O, Q
<1>10. /\ IsList(P) /\ Len(P) = m /\ \A i \in 1..m : P[i] = O(i)
  <2>1. P = [i \in 1..m |-> P[i]] /\ \A i \in 1..m : P[i] = O(i) OBVIOUS
  <2> HIDE DEF P
  <2>2. m \in Nat BY DEF m
  <2>3. QED BY <2>1, <2>2, ListIntro
<1> HIDE DEF P
<1>11. \A i \in 1..m : \A p \in ToSet(O(i)) : p[1] = i BY <1>8
<1>12. /\ IsList(FlattenSeq(P)) /\ ToSet(FlattenSeq(P)) = UNION {ToSet(O(i)) : i \in 1..m} /\ Apart(FlattenSeq(P))
  <2>1. \A i \in 1..Len(P) : IsList(P[i]) /\ Apart(P[i]) BY <1>8, <1>10
  <2>2. \A i, h \in 1..Len(P) : i < h => \A x \in ToSet(P[i]), y \in ToSet(P[h]) : x # y
    <3> SUFFICES ASSUME NEW i \in 1..m, NEW h \in 1..m, i < h, NEW x \in ToSet(P[i]), NEW y \in ToSet(P[h])
                 PROVE  x # y BY <1>10
    <3>1. x[1] = i /\ y[1] = h BY <1>10, <1>11
    <3>2. i # h BY DEF m
    <3>3. QED BY <3>1, <3>2
  <2>3. /\ IsList(FlattenSeq(P)) /\ ToSet(FlattenSeq(P)) = UNION {ToSet(P[i]) : i \in 1..Len(P)}
        /\ Apart(FlattenSeq(P)) BY <1>10, <2>1, <2>2, FlattenApart
  <2>4. UNION {ToSet(P[i]) : i \in 1..Len(P)} = UNION {ToSet(O(i)) : i \in 1..m} BY <1>10
  <2>5. QED BY <2>3, <2>4
<1> DEFINE A == FlattenSeq(P)
<1> HIDE DEF A
<1>13. IsList(A) /\ Apart(A) /\ ToSet(A) = UNION {ToSet(O(i)) : i \in 1..m} BY <1>12 DEF A
<1>14. IsList(E) /\ ToSet(E) = ToSet(A) \union ToSet(Q) /\ Apart(E)
  <2>1. E = A \o Q BY <1>1 DEF A
  <2>2. IsList(E) /\ ToSet(E) = ToSet(A) \union ToSet(Q) BY <1>9, <1>13, <2>1, ConcatList
  <2> DEFINE L == {p \in ToSet(E) \X ToSet(E) : p[1] # p[2]}
  <2>3. InOrder(A, L) /\ InOrder(Q, L)
    <3>1. \A i \in 1..Len(A) : A[i] \in ToSet(E) BY <1>13, <2>2, MemberOfList
    <3>2. \A i \in 1..Len(Q) : Q[i] \in ToSet(E) BY <1>9, <2>2, MemberOfList
    <3>3. QED BY <1>9, <1>13, <3>1, <3>2 DEF InOrder, Apart
  <2>4. \A x \in ToSet(A), y \in ToSet(Q) : <<x, y>> \in L
    <3> SUFFICES ASSUME NEW x \in ToSet(A), NEW y \in ToSet(Q) PROVE x # y BY <2>2
    <3>1. PICK i \in 1..m : x \in ToSet(O(i)) BY <1>13
    <3>2. x[1] = i BY <1>11, <3>1
    <3>3. y[1] = 0 BY <1>9
    <3>4. i # 0 BY DEF m
    <3>5. QED BY <3>2, <3>3, <3>4
  <2>5. \A x, y : <<x, y>> \in L => x # y OBVIOUS
  <2> HIDE DEF L
  <2>6. InOrder(E, L) BY <1>9, <1>13, <2>1, <2>3, <2>4, ConcatInOrder
  <2>7. Apart(E) BY <2>5, <2>6 DEF Apart, InOrder
  <2>8. QED BY <2>2, <2>7
<1>15. ToSet(E) = JoinPairs(l, r, on, how)
  <2> DEFINE J1 == {p \in (1..m) \X (1..n) : same(p[1], p[2])}
             J2 == IF alone THEN {<<i, 0>> : i \in {i \in 1..m : \A j \in 1..n : ~same(i, j)}} ELSE {}
             J3 == IF late THEN {<<0, j>> : j \in {j \in 1..n : \A i \in 1..m : ~same(i, j)}} ELSE {}
  <2>1. JoinPairs(l, r, on, how) = J1 \union J2 \union J3 BY <1>4 DEF m, n
  <2>2. ToSet(Q) = J3 BY <1>9
  <2>3. ToSet(A) = J1 \union J2
    <3>1. ASSUME NEW x \in ToSet(A) PROVE x \in J1 \union J2
      <4>1. PICK i \in 1..m : x \in ToSet(O(i)) BY <1>13
      <4>2. x \in {<<i, j>> : j \in {j \in 1..n : same(i, j)}}
              \union (IF alone /\ (\A j \in 1..n : ~same(i, j)) THEN {<<i, 0>>} ELSE {}) BY <1>8, <4>1
      <4>3. QED BY <4>2
    <3>2. ASSUME NEW x \in J1 PROVE x \in ToSet(A)
      <4>1. PICK i \in 1..m, j \in 1..n : x = <<i, j>> /\ same(i, j) BY <3>2
      <4>2. x \in ToSet(O(i)) BY <1>8, <4>1
      <4>3. QED BY <1>13, <4>2
    <3>3. ASSUME NEW x \in J2 PROVE x \in ToSet(A)
      <4>1. PICK i \in 1..m : x = <<i, 0>> /\ alone /\ \A j \in 1..n : ~same(i, j) BY <3>3
      <4>2. x \in ToSet(O(i)) BY <1>8, <4>1
      <4>3. QED BY <1>13, <4>2
    <3>4. QED BY <3>1, <3>2, <3>3
  <2> HIDE DEF J1, J2, J3
  <2>4. QED BY <1>14, <2>1, <2>2, <2>3
<1>16. Cardinality(ToSet(E)) = Len(E) BY <1>14, ApartCounts
<1>17. QED BY <1>14, <1>15, <1>16 DEF E

(* A place where a member is and before which it is not is its position. *)
LEMMA PositionIs ==
  ASSUME NEW seq, IsList(seq), NEW x, NEW k \in 1..Len(seq), seq[k] = x,
         \A i \in 1..Len(seq) : seq[i] = x => k <= i
  PROVE  Position(seq, x) = k
<1>1. Position(seq, x) \in 1..k /\ seq[Position(seq, x)] = x BY PositionFirst
<1>2. Len(seq) \in Nat BY ListElim
<1>3. k <= Position(seq, x) BY <1>1, <1>2
<1>4. QED BY <1>1, <1>3

(* The position of a member of two lists, one after another. *)
LEMMA PositionConcat ==
  ASSUME NEW a, IsList(a), NEW b, IsList(b), NEW x
  PROVE  /\ x \in ToSet(a) => Position(a \o b, x) = Position(a, x) /\ Position(a, x) \in 1..Len(a)
         /\ x \notin ToSet(a) /\ x \in ToSet(b) =>
              Position(a \o b, x) = Len(a) + Position(b, x) /\ Position(b, x) \in 1..Len(b)
<1> DEFINE m == Len(a)  n == Len(b)  s == a \o b
<1>0. m \in Nat /\ n \in Nat BY ListElim
<1>1. /\ m \in Nat /\ n \in Nat /\ IsList(s) /\ Len(s) = m + n
      /\ \A i \in 1..m : s[i] = a[i]
      /\ \A i \in 1..n : s[m + i] = b[i] BY <1>0, ConcatList
<1>2. \A i \in 1..(m + n) : i \in 1..m \/ (i - m \in 1..n /\ s[i] = b[i - m])
  <2> SUFFICES ASSUME NEW i \in 1..(m + n), i \notin 1..m PROVE i - m \in 1..n /\ s[i] = b[i - m] OBVIOUS
  <2> HIDE DEF m, n, s
  <2>1. i - m \in 1..n /\ i = m + (i - m) BY <1>1
  <2>2. PICK j \in 1..n : i - m = j /\ i = m + j BY <2>1
  <2>3. s[m + j] = b[j] BY <1>1
  <2>4. QED BY <2>2, <2>3
<1> HIDE DEF s
<1>3. ASSUME x \in ToSet(a) PROVE Position(s, x) = Position(a, x) /\ Position(a, x) \in 1..m
  <2> DEFINE k == Position(a, x)
  <2>1. k \in 1..m /\ a[k] = x BY <1>3, PositionFacts
  <2>2. \A i \in 1..m : a[i] = x => k <= i
    <3> SUFFICES ASSUME NEW i \in 1..m, a[i] = x PROVE k <= i OBVIOUS
    <3>1. Position(a, a[i]) \in 1..i BY PositionFirst
    <3>2. QED BY <3>1
  <2> HIDE DEF k
  <2>3. k \in 1..(m + n) /\ s[k] = x BY <1>1, <2>1
  <2>4. \A i \in 1..(m + n) : s[i] = x => k <= i
    <3> SUFFICES ASSUME NEW i \in 1..(m + n), s[i] = x PROVE k <= i OBVIOUS
    <3>1. CASE i \in 1..m BY <1>1, <2>2, <3>1
    <3>2. CASE i \notin 1..m BY <1>1, <2>1, <3>2
    <3>3. QED BY <3>1, <3>2
  <2>5. Position(s, x) = k BY <1>1, <2>3, <2>4, PositionIs
  <2>6. QED BY <2>1, <2>5 DEF k
<1>4. ASSUME x \notin ToSet(a), x \in ToSet(b)
      PROVE  Position(s, x) = m + Position(b, x) /\ Position(b, x) \in 1..n
  <2> DEFINE k == Position(b, x)
  <2>1. k \in 1..n /\ b[k] = x BY <1>4, PositionFacts
  <2>2. \A i \in 1..n : b[i] = x => k <= i
    <3> SUFFICES ASSUME NEW i \in 1..n, b[i] = x PROVE k <= i OBVIOUS
    <3>1. Position(b, b[i]) \in 1..i BY PositionFirst
    <3>2. QED BY <3>1
  <2> HIDE DEF k
  <2>3. m + k \in 1..(m + n) /\ s[m + k] = x BY <1>1, <2>1
  <2>4. \A i \in 1..(m + n) : s[i] = x => m + k <= i
    <3> SUFFICES ASSUME NEW i \in 1..(m + n), s[i] = x PROVE m + k <= i OBVIOUS
    <3>1. i \notin 1..m
      <4>1. ASSUME i \in 1..m PROVE FALSE
        <5>1. a[i] = x BY <1>1, <4>1
        <5>2. x \in ToSet(a) BY <4>1, <5>1, MemberOfList
        <5>3. QED BY <1>4, <5>2
      <4>2. QED BY <4>1
    <3>2. i - m \in 1..n /\ b[i - m] = x BY <1>2, <3>1
    <3>3. k <= i - m BY <2>2, <3>2
    <3>4. QED BY <1>1, <2>1, <3>2, <3>3
  <2>5. Position(s, x) = m + k BY <1>1, <2>3, <2>4, PositionIs
  <2>6. QED BY <2>1, <2>5 DEF k
<1>5. QED BY <1>3, <1>4 DEF m, n, s

(* Of the names in ascending places that hold all the places of a name, the *)
(* first of that name stands for the first of all.                          *)
LEMMA PositionChosen ==
  ASSUME NEW names, IsList(names), NEW ks, Ascends(ks), NEW x, x \in ToSet(names),
         \A k \in 1..Len(ks) : ks[k] \in 1..Len(names),
         \A i \in 1..Len(names) : names[i] = x => i \in ToSet(ks),
         NEW e, e = [k \in DOMAIN ks |-> names[ks[k]]]
  PROVE  x \in ToSet(e) /\ Position(e, x) \in 1..Len(ks) /\ ks[Position(e, x)] = Position(names, x)
<1> DEFINE p == Position(names, x)
<1>1. IsList(ks) /\ DOMAIN ks = 1..Len(ks) /\ Len(ks) \in Nat BY ListElim DEF Ascends
<1>2. e = [k \in DOMAIN ks |-> e[k]] /\ \A k \in 1..Len(ks) : e[k] = names[ks[k]] BY <1>1
<1>3. IsList(e) /\ Len(e) = Len(ks) BY <1>1, <1>2, MapLen
<1>4. p \in 1..Len(names) /\ names[p] = x BY PositionFacts
<1>5. PICK k \in 1..Len(ks) : ks[k] = p BY <1>1, <1>4, MemberOfList
<1>6. e[k] = x BY <1>2, <1>4, <1>5
<1>7. ASSUME NEW i \in 1..Len(ks), e[i] = x PROVE k <= i
  <2>1. names[ks[i]] = x /\ ks[i] \in 1..Len(names) BY <1>2, <1>7
  <2>2. p \in 1..ks[i] BY <2>1, PositionFirst
  <2>3. ~(ks[i] < ks[k])
    <3>1. ks[i] \in Int /\ p \in Int /\ p <= ks[i]
      <4>1. Len(names) \in Nat BY ListElim
      <4>2. QED BY <2>1, <2>2, <4>1
    <3>2. QED BY <1>5, <3>1
  <2>4. i < k => ks[i] < ks[k] BY DEF Ascends
  <2>5. QED BY <1>1, <2>3, <2>4
<1>8. Position(e, x) = k BY <1>3, <1>6, <1>7, PositionIs
<1>9. x \in ToSet(e) BY <1>3, <1>6, MemberOfList
<1>10. QED BY <1>5, <1>8, <1>9

(* A cell of a column that was made of cells. *)
LEMMA PluckGet ==
  ASSUME NEW cls, cls # "Cat", NEW cells, IsList(cells), NEW p \in 1..Len(cells)
  PROVE  Get(Pluck(cls, cells), p) = IF cells[p][2] THEN None ELSE cells[p][1]
<1> DEFINE v == [k \in DOMAIN cells |-> cells[k][1]]  n == [k \in DOMAIN cells |-> cells[k][2]]
           c == Pluck(cls, cells)
<1>1. DOMAIN cells = 1..Len(cells) BY ListElim
<1>2. c.cls = cls /\ c.vals = v /\ c.nulls = n BY DEF Pluck, Column
<1>3. v[p] = cells[p][1] /\ n[p] = cells[p][2] /\ p \in DOMAIN v /\ p \in DOMAIN n BY <1>1
<1> HIDE DEF v, n, c
<1>4. (NullAt(c, p) <=> cells[p][2]) /\ ValueAt(c, p) = cells[p][1] BY <1>2, <1>3 DEF NullAt, ValueAt
<1>5. QED BY <1>2, <1>4 DEF Get, c

(* A cell of a row, or a null where there is no row. *)
LEMMA RowGet ==
  ASSUME NEW c, c.cls # "Cat", NEW row
  PROVE  (IF PluckRow(c, row)[2] THEN None ELSE PluckRow(c, row)[1]) = IF row = 0 THEN None ELSE Get(c, row)
<1>1. CASE row = 0
  <2>1. PluckRow(c, row) = <<Filler(c.cls), TRUE>> BY <1>1 DEF PluckRow
  <2>2. PluckRow(c, row)[2] BY <2>1
  <2>3. QED BY <1>1, <2>2
<1>2. CASE row # 0
  <2>1. PluckRow(c, row) = <<ValueAt(c, row), NullAt(c, row)>> BY <1>2 DEF PluckRow
  <2>2. PluckRow(c, row)[1] = ValueAt(c, row) /\ (PluckRow(c, row)[2] <=> NullAt(c, row)) BY <2>1
  <2>3. QED BY <1>2, <2>2 DEF Get
<1>3. QED BY <1>1, <1>2

(* A cell of the column of one side of a merge. *)
LEMMA SideGet ==
  ASSUME NEW c, c.cls # "Cat", NEW pairs, IsList(pairs), NEW s, NEW p \in 1..Len(pairs)
  PROVE  /\ Get(PluckSide(c, pairs, s), p) = IF pairs[p][s] = 0 THEN None ELSE Get(c, pairs[p][s])
         /\ PluckSide(c, pairs, s).cls = c.cls
<1> DEFINE x == [k \in DOMAIN pairs |-> PluckRow(c, pairs[k][s])]
<1>1. DOMAIN pairs = 1..Len(pairs) BY ListElim
<1>2. x = [k \in DOMAIN pairs |-> x[k]] /\ x[p] = PluckRow(c, pairs[p][s]) BY <1>1
<1>3. PluckSide(c, pairs, s) = Pluck(c.cls, x) BY DEF PluckSide
<1> HIDE DEF x
<1>4. IsList(x) /\ Len(x) = Len(pairs) BY <1>2, MapLen
<1>5. Get(Pluck(c.cls, x), p) = IF x[p][2] THEN None ELSE x[p][1] BY <1>4, PluckGet
<1>6. Get(Pluck(c.cls, x), p) = IF pairs[p][s] = 0 THEN None ELSE Get(c, pairs[p][s]) BY <1>2, <1>5, RowGet
<1>7. Pluck(c.cls, x).cls = c.cls BY DEF Pluck, Column
<1>8. QED BY <1>3, <1>6, <1>7

(* A cell of the column of both sides. *)
LEMMA EitherGet ==
  ASSUME NEW a, a.cls # "Cat", NEW b, b.cls # "Cat", NEW pairs, IsList(pairs), NEW p \in 1..Len(pairs),
         pairs[p][1] # 0 \/ pairs[p][2] # 0
  PROVE  /\ Get(Pluck(a.cls, EitherCells(a, b, pairs)), p)
              = IF pairs[p][1] # 0 THEN Get(a, pairs[p][1]) ELSE Get(b, pairs[p][2])
         /\ Pluck(a.cls, EitherCells(a, b, pairs)).cls = a.cls
<1> DEFINE x == EitherCells(a, b, pairs)
<1>1. DOMAIN pairs = 1..Len(pairs) BY ListElim
<1>2. /\ x = [k \in DOMAIN pairs |-> x[k]]
      /\ x[p] = IF pairs[p][1] # 0 THEN PluckRow(a, pairs[p][1]) ELSE PluckRow(b, pairs[p][2])
  BY <1>1 DEF EitherCells
<1> HIDE DEF x
<1>3. IsList(x) /\ Len(x) = Len(pairs) BY <1>2, MapLen
<1>4. Get(Pluck(a.cls, x), p) = IF x[p][2] THEN None ELSE x[p][1] BY <1>3, PluckGet
<1>5. CASE pairs[p][1] # 0 BY <1>2, <1>4, <1>5, RowGet DEF x, Pluck, Column
<1>6. CASE pairs[p][1] = 0 BY <1>2, <1>4, <1>6, RowGet DEF x, Pluck, Column
<1>7. QED BY <1>5, <1>6

(* A cell of the rows that are taken of a column. *)
LEMMA TakeGet ==
  ASSUME NEW c, c.cls # "Cat", NEW rows, IsList(rows), NEW p \in 1..Len(rows)
  PROVE  Get(Take(c, rows), p) = Get(c, rows[p])
<1> DEFINE v == [k \in DOMAIN rows |-> ValueAt(c, rows[k])]  n == [k \in DOMAIN rows |-> NullAt(c, rows[k])]
           t == Take(c, rows)
<1>1. DOMAIN rows = 1..Len(rows) BY ListElim
<1>2. t.cls = c.cls /\ t.vals = v /\ t.nulls = n BY DEF Take, Column
<1>3. /\ v[p] = ValueAt(c, rows[p]) /\ n[p] = NullAt(c, rows[p]) /\ p \in DOMAIN v /\ p \in DOMAIN n BY <1>1
<1> HIDE DEF v, n, t
<1>4. (NullAt(t, p) <=> NullAt(c, rows[p])) /\ ValueAt(t, p) = ValueAt(c, rows[p]) BY <1>2, <1>3 DEF NullAt, ValueAt
<1>5. QED BY <1>2, <1>4 DEF Get, t

(* A pair of a join has a row of one side at least, and both in an inner    *)
(* join; the rows are those of the frames.                                  *)
LEMMA PairRows ==
  ASSUME NEW l, NEW r, l.nrows \in Nat, r.nrows \in Nat, NEW on, NEW how, NEW p \in JoinPairs(l, r, on, how)
  PROVE  /\ p[1] # 0 \/ p[2] # 0
         /\ how \in {"inner", "left"} => p[1] # 0
         /\ how = "right" => p[2] # 0
<1> DEFINE same(i, j) == \A k \in DOMAIN on :
             /\ Get(ColumnOf(l, on[k]), i) = Get(ColumnOf(r, on[k]), j)
             /\ Get(ColumnOf(l, on[k]), i) # None
           J1 == {x \in (1..l.nrows) \X (1..r.nrows) : same(x[1], x[2])}
           J2 == IF how \in {"left", "outer"}
                 THEN {<<i, 0>> : i \in {i \in 1..l.nrows : \A j \in 1..r.nrows : ~same(i, j)}} ELSE {}
           J3 == IF how \in {"right", "outer"}
                 THEN {<<0, j>> : j \in {j \in 1..r.nrows : \A i \in 1..l.nrows : ~same(i, j)}} ELSE {}
<1>1. p \in J1 \union J2 \union J3 BY DEF JoinPairs
<1> HIDE DEF same
<1>2. CASE p \in J1
  <2>1. p[1] \in 1..l.nrows /\ p[2] \in 1..r.nrows BY <1>2
  <2>2. p[1] # 0 /\ p[2] # 0 BY <2>1
  <2>3. QED BY <2>2
<1>3. CASE p \in J2
  <2>1. how \in {"left", "outer"} /\ \E i \in 1..l.nrows : p = <<i, 0>> BY <1>3
  <2>2. p[1] # 0 BY <2>1
  <2>3. QED BY <2>1, <2>2
<1>4. CASE p \in J3
  <2>1. how \in {"right", "outer"} /\ \E j \in 1..r.nrows : p = <<0, j>> BY <1>4
  <2>2. p[2] # 0 BY <2>1
  <2>3. QED BY <2>1, <2>2
<1> HIDE DEF J1, J2, J3
<1>5. QED BY <1>1, <1>2, <1>3, <1>4

(* The cells of a merge, but for categoricals, are those of the pairs: a    *)
(* column that both frames have comes from the left one, and a key of a row *)
(* without a left side from the right one.                                  *)
LEMMA MergeCells ==
  ASSUME NEW l, NEW x, NEW a, Twin(l, x, a), NEW r, NEW y, NEW b, Twin(r, y, b), NEW on, KeysJoin(l, r, on),
         NEW how, NEW p \in 1..Len(Emit(l, r, on, how)), NEW name \in ToSet(Merge(l, r, on, how).names),
         ColumnOf(Merge(l, r, on, how), name).cls # "Cat"
  PROVE  Get(ColumnOf(Merge(l, r, on, how), name), p) = JoinCell(l, r, on, name, Emit(l, r, on, how)[p])
<1> DEFINE pairs == Emit(l, r, on, how)
           X == {k \in DOMAIN r.names : r.names[k] \notin ToSet(on)}
           extra == RowsIn(Len(r.names), X)
           rest == [k \in DOMAIN extra |-> r.names[extra[k]]]
           left(k) == IF l.names[k] \in ToSet(on)
                      THEN Pluck(l.cols[k].cls, EitherCells(l.cols[k], ColumnOf(r, l.names[k]), pairs))
                      ELSE PluckSide(l.cols[k], pairs, 1)
           u == [k \in DOMAIN l.cols |-> left(k)]
           v == [k \in DOMAIN extra |-> PluckSide(r.cols[extra[k]], pairs, 2)]
           m == Merge(l, r, on, how)
           c == ColumnOf(l, name)  d == ColumnOf(r, name)
<1>1. m.names = l.names \o rest /\ m.cols = u \o v BY Zenon DEF Merge, Frame
<1>2. /\ IsList(l.names) /\ Len(l.names) = Len(l.cols) /\ Len(l.cols) \in Nat
      /\ DOMAIN l.cols = 1..Len(l.cols) /\ l.nrows \in Nat BY TwinParts
<1>3. /\ IsList(r.names) /\ Len(r.names) = Len(r.cols) /\ Len(r.names) \in Nat
      /\ DOMAIN r.names = 1..Len(r.names) /\ r.nrows \in Nat BY TwinParts
<1>4. IsList(pairs) /\ ToSet(pairs) = JoinPairs(l, r, on, how) BY <1>2, <1>3, EmitIsJoin
<1> HIDE DEF pairs
<1>5. pairs[p][1] # 0 \/ pairs[p][2] # 0
  <2>1. pairs[p] \in JoinPairs(l, r, on, how) BY <1>4, MemberOfList DEF pairs
  <2>2. QED BY <1>2, <1>3, <2>1, PairRows
<1>6. Ascends(extra) /\ ToSet(extra) = (1..Len(r.names)) \intersect X BY <1>3, RowsInAscends
<1>7. /\ IsList(extra) /\ DOMAIN extra = 1..Len(extra)
      /\ \A k \in 1..Len(extra) : extra[k] \in 1..Len(r.names) /\ extra[k] \in X
  <2>1. IsList(extra) BY <1>6 DEF Ascends
  <2>2. \A k \in 1..Len(extra) : extra[k] \in ToSet(extra) BY <2>1, MemberOfList
  <2>3. QED BY <1>6, <2>1, <2>2, ListElim
<1>8. \A i \in 1..Len(r.names) : r.names[i] \notin ToSet(on) => i \in ToSet(extra) BY <1>3, <1>6
<1> HIDE DEF extra
<1>9. /\ IsList(rest) /\ Len(rest) = Len(extra) /\ IsList(v) /\ Len(v) = Len(extra)
      /\ \A k \in 1..Len(extra) : rest[k] = r.names[extra[k]] /\ v[k] = PluckSide(r.cols[extra[k]], pairs, 2)
  <2>1. \A k \in 1..Len(extra) : rest[k] = r.names[extra[k]] /\ v[k] = PluckSide(r.cols[extra[k]], pairs, 2) BY <1>7
  <2>2. rest = [k \in DOMAIN extra |-> rest[k]] /\ v = [k \in DOMAIN extra |-> v[k]] OBVIOUS
  <2> HIDE DEF rest, v
  <2>3. QED BY <1>7, <2>1, <2>2, MapLen
<1>10. /\ IsList(u) /\ Len(u) = Len(l.names) /\ \A k \in 1..Len(l.names) : u[k] = left(k)
  <2>1. \A k \in 1..Len(l.names) : u[k] = left(k) BY <1>2
  <2>2. u = [k \in 1..Len(l.names) |-> u[k]] BY <1>2
  <2> HIDE DEF u, left
  <2>3. QED BY <1>2, <2>1, <2>2, ListIntro
<1> HIDE DEF u, v, m, rest
<1>11. Len(pairs) \in Nat /\ p \in 1..Len(pairs) BY <1>4, ListElim DEF pairs
<1>12. CASE name \in ToSet(l.names)
  <2> DEFINE q == Position(l.names, name)
  <2>1. q \in 1..Len(l.names) /\ l.names[q] = name /\ Position(m.names, name) = q
    BY <1>1, <1>2, <1>9, <1>12, PositionConcat, PositionFacts
  <2>2. ColumnOf(m, name) = left(q)
    <3>1. m.cols[q] = u[q] BY <1>1, <1>9, <1>10, <2>1, ConcatList
    <3>2. QED BY <1>10, <2>1, <3>1 DEF ColumnOf
  <2>3. l.cols[q] = c BY DEF ColumnOf
  <2>4. HasColumn(l, name) BY <1>12 DEF HasColumn
  <2> HIDE DEF q, c, d
  <2>5. CASE name \in ToSet(on)
    <3>1. ColumnOf(m, name) = Pluck(c.cls, EitherCells(c, d, pairs)) BY <2>1, <2>2, <2>3, <2>5 DEF d
    <3>2. Pluck(c.cls, EitherCells(c, d, pairs)).cls = c.cls BY DEF Pluck, Column
    <3>3. c.cls # "Cat" BY <3>1, <3>2 DEF m
    <3>4. d.cls = c.cls
      <4>1. PICK k \in DOMAIN on : on[k] = name
        <5>1. IsList(on) BY DEF KeysJoin
        <5>2. QED BY <2>5, <5>1, MemberOfList, ListElim
      <4>2. ColumnOf(l, on[k]).cls = ColumnOf(r, on[k]).cls BY DEF KeysJoin, MergeOK
      <4>3. QED BY <4>1, <4>2 DEF c, d
    <3>5. Get(ColumnOf(m, name), p) = IF pairs[p][1] # 0 THEN Get(c, pairs[p][1]) ELSE Get(d, pairs[p][2])
      BY <1>4, <1>5, <1>11, <3>1, <3>3, <3>4, EitherGet
    <3>6. JoinCell(l, r, on, name, pairs[p]) = IF pairs[p][1] = 0 THEN Get(d, pairs[p][2]) ELSE Get(c, pairs[p][1])
      BY <1>5, <2>4, <2>5 DEF JoinCell, c, d
    <3>7. QED BY <3>5, <3>6 DEF m, pairs
  <2>6. CASE name \notin ToSet(on)
    <3>1. ColumnOf(m, name) = PluckSide(c, pairs, 1) BY <2>1, <2>2, <2>3, <2>6
    <3>2. PluckSide(c, pairs, 1).cls = c.cls BY DEF PluckSide, Pluck, Column
    <3>3. c.cls # "Cat" BY <3>1, <3>2 DEF m
    <3>4. Get(ColumnOf(m, name), p) = IF pairs[p][1] = 0 THEN None ELSE Get(c, pairs[p][1])
      BY <1>4, <1>11, <3>1, <3>3, SideGet
    <3>5. JoinCell(l, r, on, name, pairs[p]) = IF pairs[p][1] = 0 THEN None ELSE Get(c, pairs[p][1])
      BY <2>4, <2>6 DEF JoinCell, c
    <3>6. QED BY <3>4, <3>5 DEF m, pairs
  <2>7. QED BY <2>5, <2>6
<1>13. CASE name \notin ToSet(l.names)
  <2>1. name \in ToSet(rest)
    <3>1. ToSet(m.names) = ToSet(l.names) \union ToSet(rest) BY <1>1, <1>2, <1>9, ConcatList
    <3>2. QED BY <1>13, <3>1 DEF m
  <2>2. PICK k \in 1..Len(extra) : r.names[extra[k]] = name BY <1>9, <2>1, MemberOfList
  <2>3. name \notin ToSet(on) /\ name \in ToSet(r.names) BY <1>3, <1>7, <2>2, MemberOfList
  <2> DEFINE q == Position(rest, name)
  <2>4. q \in 1..Len(extra) /\ extra[q] = Position(r.names, name)
    <3>1. \A i \in 1..Len(r.names) : r.names[i] = name => i \in ToSet(extra) BY <1>8, <2>3
    <3> DEFINE ns == r.names
    <3>2. rest = [h \in DOMAIN extra |-> ns[extra[h]]] BY DEF rest
    <3>3. \A h \in 1..Len(extra) : extra[h] \in 1..Len(ns) BY <1>7
    <3>4. IsList(ns) /\ name \in ToSet(ns) BY <1>3, <2>3
    <3>5. \A i \in 1..Len(ns) : ns[i] = name => i \in ToSet(extra) BY <3>1
    <3> HIDE DEF ns, q
    <3>6. /\ Position(rest, name) \in 1..Len(extra)
          /\ extra[Position(rest, name)] = Position(ns, name)
      BY <1>6, <3>2, <3>3, <3>4, <3>5, PositionChosen
    <3>7. QED BY <3>6 DEF ns, q
  <2>5. Position(m.names, name) = Len(l.names) + q BY <1>1, <1>2, <1>9, <1>13, <2>1, PositionConcat
  <2> HIDE DEF q
  <2>6. ColumnOf(m, name) = PluckSide(d, pairs, 2)
    <3>0. \A i \in 1..Len(v) : (u \o v)[Len(u) + i] = v[i] BY <1>9, <1>10, ConcatList
    <3>1. m.cols[Len(u) + q] = v[q] BY <1>1, <1>9, <2>4, <3>0
    <3>2. v[q] = PluckSide(r.cols[Position(r.names, name)], pairs, 2) BY <1>9, <2>4
    <3>3. QED BY <1>10, <2>5, <3>1, <3>2 DEF ColumnOf
  <2> HIDE DEF d
  <2>7. PluckSide(d, pairs, 2).cls = d.cls BY DEF PluckSide, Pluck, Column
  <2>8. d.cls # "Cat" BY <2>6, <2>7 DEF m
  <2>9. Get(ColumnOf(m, name), p) = IF pairs[p][2] = 0 THEN None ELSE Get(d, pairs[p][2])
    BY <1>4, <1>11, <2>6, <2>8, SideGet
  <2>10. JoinCell(l, r, on, name, pairs[p]) = IF pairs[p][2] = 0 THEN None ELSE Get(d, pairs[p][2])
    BY <1>13, <2>3 DEF JoinCell, HasColumn, d
  <2>11. QED BY <2>9, <2>10 DEF m, pairs
<1>14. QED BY <1>12, <1>13

(* The index of a merge, but for categoricals, is that of the kept rows: of *)
(* the left ones, or of the right ones, or of either in an outer merge of   *)
(* frames with indexes of one kind.                                         *)
LEMMA MergeIndexCells ==
  ASSUME NEW l, NEW x, NEW a, Twin(l, x, a), NEW r, NEW y, NEW b, Twin(r, y, b), NEW pairs, IsList(pairs),
         NEW how \in Hows, NEW p \in 1..Len(pairs),
         pairs[p][1] # 0 \/ pairs[p][2] # 0,
         how \in {"inner", "left"} => pairs[p][1] # 0,
         how = "right" => pairs[p][2] # 0,
         how = "outer" => AlikeIndexes(l, r),
         NEW ix, ix = IF how = "right" THEN r.ix ELSE l.ix, NEW k \in DOMAIN ix.levels, ix.levels[k].cls # "Cat"
  PROVE  Get(MergeIndex(l, r, how, pairs).levels[k], p) = JoinIndexCell(l, r, how, k, pairs[p])
<1>1. \A s : IsList(Side(pairs, s)) /\ Len(Side(pairs, s)) = Len(pairs) /\ Side(pairs, s)[p] = pairs[p][s]
  <2>1. DOMAIN pairs = 1..Len(pairs) BY ListElim
  <2>2. QED BY <2>1, SideList DEF Side
<1>2. ASSUME NEW e, k \in DOMAIN e.levels, e.levels[k].cls # "Cat", NEW s
      PROVE  Get(TakeIndex(e, Side(pairs, s)).levels[k], p) = Get(e.levels[k], pairs[p][s])
  <2>1. TakeIndex(e, Side(pairs, s)).levels[k] = Take(e.levels[k], Side(pairs, s)) BY <1>2 DEF TakeIndex, WithLevels
  <2>2. QED BY <1>1, <1>2, <2>1, TakeGet
<1>3. CASE how = "right"
  <2>1. MergeIndex(l, r, how, pairs) = TakeIndex(r.ix, Side(pairs, 2)) BY <1>3 DEF MergeIndex
  <2>2. ix = r.ix BY <1>3
  <2>3. QED BY <1>2, <1>3, <2>1, <2>2 DEF JoinIndexCell
<1>4. CASE how \in {"inner", "left"}
  <2>1. MergeIndex(l, r, how, pairs) = TakeIndex(l.ix, Side(pairs, 1)) BY <1>4 DEF MergeIndex
  <2>2. ix = l.ix BY <1>4
  <2>3. QED BY <1>2, <1>4, <2>1, <2>2 DEF JoinIndexCell
<1>5. CASE how = "outer"
  <2> DEFINE f == l.ix  g == r.ix
  <2>1. ix = f BY <1>5
  <2>2. MergeIndex(l, r, how, pairs) = OuterIndex(l, r, pairs) BY <1>5 DEF MergeIndex
  <2>3. f.multi = g.multi /\ f.levels # <<>> /\ Classes(f.levels) = Classes(g.levels) BY <1>5 DEF AlikeIndexes
  <2>4. TwinIndex(f, x.ix, a, l.nrows) /\ TwinIndex(g, y.ix, b, r.nrows) BY TwinParts
  <2>5. /\ DOMAIN f.levels = 1..Len(f.levels) /\ Len(f.levels) \in Nat /\ ~f.multi => Len(f.levels) <= 1
        /\ DOMAIN g.levels = 1..Len(g.levels) /\ Len(g.levels) \in Nat
        /\ (g.levels = <<>>) <=> (Len(g.levels) = 0)
    <3>1. /\ DOMAIN f.levels = 1..Len(f.levels) /\ Len(f.levels) \in Nat /\ ~f.multi => Len(f.levels) <= 1
      BY <2>4, IndexParts
    <3>2. DOMAIN g.levels = 1..Len(g.levels) /\ Len(g.levels) \in Nat BY <2>4, IndexParts
    <3>3. IsList(g.levels) BY <2>4 DEF TwinIndex, TwinCols
    <3>4. QED BY <3>1, <3>2, <3>3, EmptyIff
  <2>6. /\ DOMAIN g.levels = DOMAIN f.levels
        /\ \A h \in DOMAIN f.levels : f.levels[h].cls = g.levels[h].cls
    <3>1. /\ DOMAIN Classes(f.levels) = DOMAIN f.levels /\ DOMAIN Classes(g.levels) = DOMAIN g.levels
          /\ \A h \in DOMAIN f.levels : Classes(f.levels)[h] = f.levels[h].cls
          /\ \A h \in DOMAIN g.levels : Classes(g.levels)[h] = g.levels[h].cls BY DEF Classes
    <3>2. QED BY <2>3, <3>1
  <2>7. g.levels # <<>>
    <3>1. 1 \in DOMAIN f.levels BY <2>4, <2>3, IndexParts
    <3>2. QED BY <2>5, <2>6, <3>1
  <2> DEFINE c == f.levels[k]  d == g.levels[k]
  <2>8. k \in DOMAIN f.levels /\ c.cls = d.cls /\ c.cls # "Cat" BY <2>1, <2>6
  <2>9. OuterIndex(l, r, pairs).levels[k] = Pluck(c.cls, EitherCells(c, d, pairs))
    <3>1. CASE f.multi
      <4> DEFINE merged == [h \in DOMAIN f.levels |-> LevelOf(f.levels[h].cls, EitherCells(f.levels[h], g.levels[h], pairs))]
                 names == [h \in DOMAIN f.names |-> IF f.names[h] = "" THEN g.names[h] ELSE f.names[h]]
      <4>1. OuterIndex(l, r, pairs) = MultiIndex(merged, names)
        BY <2>3, <2>7, <3>1, Zenon DEF OuterIndex
      <4>2. merged[k] = Pluck(c.cls, EitherCells(c, d, pairs)) BY <2>8 DEF LevelOf
      <4>3. merged # <<>>
        <5>1. DOMAIN merged = DOMAIN f.levels OBVIOUS
        <5>2. k \in DOMAIN merged BY <2>8, <5>1
        <5> HIDE DEF merged
        <5>3. QED BY <5>2, EmptyList
      <4> HIDE DEF merged, names
      <4>4. MultiIndex(merged, names).levels = merged BY <4>3 DEF MultiIndex
      <4>5. QED BY <4>1, <4>2, <4>4
    <3>2. CASE ~f.multi
      <4>1. k = 1 BY <2>5, <2>8, <3>2
      <4>2. OuterIndex(l, r, pairs) = Index(OuterIndexColumn(f.levels[1], g.levels[1], pairs), f.names[1])
        <5>1. f.levels[1].cls = g.levels[1].cls BY <2>8, <4>1
        <5>2. QED BY <2>3, <2>7, <3>2, <5>1, Zenon DEF OuterIndex
      <4>3. OuterIndexColumn(f.levels[1], g.levels[1], pairs) = Pluck(c.cls, EitherCells(c, d, pairs))
        BY <2>8, <4>1 DEF OuterIndexColumn
      <4>4. \A e, name : Index(e, name).levels[1] = e BY DEF Index
      <4>5. QED BY <4>1, <4>2, <4>3, <4>4
    <3>3. QED BY <3>1, <3>2
  <2> HIDE DEF c, d
  <2>10. Get(Pluck(c.cls, EitherCells(c, d, pairs)), p)
           = IF pairs[p][1] # 0 THEN Get(c, pairs[p][1]) ELSE Get(d, pairs[p][2]) BY <2>8, EitherGet
  <2>11. JoinIndexCell(l, r, how, k, pairs[p]) = IF pairs[p][1] = 0 THEN Get(d, pairs[p][2]) ELSE Get(c, pairs[p][1])
    BY <1>5 DEF JoinIndexCell, c, d
  <2>12. QED BY <2>2, <2>9, <2>10, <2>11
<1>6. QED BY <1>3, <1>4, <1>5 DEF Hows

------------------------------------------------------------------------------
(* The order of times, and the joins that look for the nearest. *)

(* A member put in before the first one that it precedes leaves a list in   *)
(* order, when those that it does not precede precede it.                   *)
LEMMA InsertInOrder ==
  ASSUME NEW seq, IsList(seq), NEW x, NEW R, NEW L, InOrder(seq, L),
         \A y \in ToSet(seq) : IF <<x, y>> \in R THEN <<x, y>> \in L ELSE <<y, x>> \in L,
         \A y, z \in ToSet(seq) : <<x, y>> \in L /\ <<y, z>> \in L => <<x, z>> \in L
  PROVE  InOrder(Insert(seq, x, R), L)
<1> DEFINE S == {k \in DOMAIN seq : <<x, seq[k]>> \in R}
           at == FirstOf(S)
           o == <<x>>
<1>1. Len(seq) \in Nat /\ DOMAIN seq = 1..Len(seq) BY ListElim
<1>2. IsList(o) /\ Len(o) = 1 /\ ToSet(o) = {x} /\ InOrder(o, L)
  <2>1. IsList(o) /\ Len(o) = 1 /\ ToSet(o) = {x} BY OneList
  <2>2. QED BY <2>1 DEF InOrder
<1> HIDE DEF o
<1>3. /\ at = 0 => \A k \in 1..Len(seq) : <<x, seq[k]>> \notin R
      /\ at # 0 => /\ at \in 1..Len(seq) /\ <<x, seq[at]>> \in R
                   /\ \A k \in 1..(at - 1) : <<x, seq[k]>> \notin R
  <2>1. S \in SUBSET Nat BY <1>1
  <2>2. IF S = {} THEN at = 0 ELSE at \in S /\ \A k \in S : at <= k
    <3>1. S = {} => at = 0 BY DEF FirstOf
    <3>2. S # {} => at = Min(S) BY DEF FirstOf
    <3> HIDE DEF S, at
    <3>3. S # {} => Min(S) \in S /\ \A k \in S : Min(S) <= k BY <2>1, MinFacts
    <3>4. QED BY <3>1, <3>2, <3>3
  <2>3. S # {} => at \in 1..Len(seq) BY <1>1, <2>2
  <2> HIDE DEF at
  <2>4. ASSUME S = {} PROVE at = 0 /\ \A k \in 1..Len(seq) : <<x, seq[k]>> \notin R BY <1>1, <2>2, <2>4
  <2>5. ASSUME S # {}
        PROVE  /\ at # 0 /\ at \in 1..Len(seq) /\ <<x, seq[at]>> \in R
               /\ \A k \in 1..(at - 1) : <<x, seq[k]>> \notin R
    <3>1. at \in S /\ at \in 1..Len(seq) BY <2>2, <2>3, <2>5
    <3>2. ASSUME NEW k \in 1..(at - 1) PROVE <<x, seq[k]>> \notin R
      <4>1. k \in 1..Len(seq) /\ ~(at <= k) BY <1>1, <3>1
      <4>2. k \notin S BY <2>2, <2>5, <4>1
      <4>3. QED BY <1>1, <4>1, <4>2
    <3>3. QED BY <1>1, <3>1, <3>2
  <2>6. QED BY <2>4, <2>5
<1>4. Insert(seq, x, R) = IF at = 0 THEN Append(seq, x) ELSE InsertAt(seq, at, x) BY DEF Insert
<1> HIDE DEF at
<1>5. CASE at = 0
  <2>1. Insert(seq, x, R) = seq \o o BY <1>4, <1>5 DEF IsList, o
  <2>2. \A y \in ToSet(seq) : <<y, x>> \in L
    <3>1. \A y \in ToSet(seq) : <<x, y>> \notin R BY <1>3, <1>5, MemberOfList
    <3>2. QED BY <3>1
  <2>3. \A y \in ToSet(seq), z \in ToSet(o) : <<y, z>> \in L BY <1>2, <2>2
  <2>4. InOrder(seq \o o, L) BY <1>2, <2>3, ConcatInOrder
  <2>5. QED BY <2>1, <2>4
<1>6. CASE at # 0
  <2> DEFINE p == SubSeq(seq, 1, at - 1)  q == SubSeq(seq, at, Len(seq))
  <2>0. at \in 1..Len(seq) /\ <<x, seq[at]>> \in R /\ \A k \in 1..(at - 1) : <<x, seq[k]>> \notin R BY <1>3, <1>6
  <2>1. IsList(p) /\ Len(p) = at - 1 /\ \A i \in 1..(at - 1) : p[i] = seq[i]
    <3>1. 1 \in 1..(Len(seq) + 1) /\ at - 1 \in 0..Len(seq) /\ 1 <= (at - 1) + 1 BY <1>1, <2>0
    <3>2. /\ IsList(p) /\ Len(p) = (at - 1) - 1 + 1
          /\ \A i \in 1..((at - 1) - 1 + 1) : p[i] = seq[1 + i - 1] BY <3>1, SubSeqList
    <3>3. (at - 1) - 1 + 1 = at - 1 /\ \A i \in 1..(at - 1) : 1 + i - 1 = i BY <1>1, <2>0
    <3>4. QED BY <3>2, <3>3
  <2>2. /\ IsList(q) /\ Len(q) = Len(seq) - at + 1
        /\ \A i \in 1..(Len(seq) - at + 1) : q[i] = seq[at + i - 1]
    <3>1. at \in 1..(Len(seq) + 1) /\ Len(seq) \in 0..Len(seq) /\ at <= Len(seq) + 1 BY <1>1, <2>0
    <3>2. QED BY <3>1, SubSeqList
  <2>3. Insert(seq, x, R) = (p \o o) \o q BY <1>4, <1>6, <1>1, <2>0 DEF InsertAt, o
  <2> HIDE DEF p, q
  <2>4. InOrder(p, L)
    <3>1. \A i \in 1..(at - 1) : i \in 1..Len(seq) BY <1>1, <2>0
    <3>2. QED BY <2>1, <3>1 DEF InOrder
  <2>5. InOrder(q, L)
    <3>1. \A i \in 1..(Len(seq) - at + 1) : at + i - 1 \in 1..Len(seq) BY <1>1, <2>0
    <3>2. \A i, j \in 1..(Len(seq) - at + 1) : i < j => at + i - 1 < at + j - 1 BY <1>1, <2>0
    <3>3. QED BY <2>2, <3>1, <3>2 DEF InOrder
  <2>6. ASSUME NEW y \in ToSet(p) PROVE y \in ToSet(seq) /\ <<y, x>> \in L /\ \A z \in ToSet(q) : <<y, z>> \in L
    <3>1. PICK i \in 1..(at - 1) : p[i] = y BY <2>1, MemberOfList
    <3>2. i \in 1..Len(seq) /\ seq[i] = y BY <1>1, <2>0, <2>1, <3>1
    <3>3. y \in ToSet(seq) /\ <<x, y>> \notin R BY <2>0, <3>1, <3>2, MemberOfList
    <3>4. ASSUME NEW z \in ToSet(q) PROVE <<y, z>> \in L
      <4>1. PICK j \in 1..(Len(seq) - at + 1) : q[j] = z BY <2>2, MemberOfList
      <4>2. PICK h \in 1..Len(seq) : h = at + j - 1 BY <1>1, <2>0
      <4>3. z = seq[h] /\ i < h BY <1>1, <2>0, <2>2, <3>1, <4>1, <4>2
      <4>4. QED BY <3>2, <4>3 DEF InOrder
    <3>5. QED BY <3>3, <3>4
  <2>7. ASSUME NEW z \in ToSet(q) PROVE <<x, z>> \in L
    <3>1. PICK j \in 1..(Len(seq) - at + 1) : q[j] = z BY <2>2, MemberOfList
    <3>2. PICK h \in 1..Len(seq) : h = at + j - 1 BY <1>1, <2>0
    <3>3. z = seq[h] /\ at <= h BY <1>1, <2>0, <2>2, <3>1, <3>2
    <3>4. seq[at] \in ToSet(seq) /\ z \in ToSet(seq) BY <2>0, <3>3, MemberOfList
    <3>5. <<x, seq[at]>> \in L BY <2>0, <3>4
    <3>6. h = at \/ <<seq[at], z>> \in L BY <1>1, <2>0, <3>2, <3>3 DEF InOrder
    <3>7. QED BY <3>3, <3>4, <3>5, <3>6
  <2>8. InOrder(p \o o, L) /\ IsList(p \o o) /\ ToSet(p \o o) = ToSet(p) \union {x}
    <3>1. \A y \in ToSet(p), z \in ToSet(o) : <<y, z>> \in L BY <1>2, <2>6
    <3>2. InOrder(p \o o, L) BY <1>2, <2>1, <2>4, <3>1, ConcatInOrder
    <3>3. IsList(p \o o) /\ ToSet(p \o o) = ToSet(p) \union ToSet(o) BY <1>2, <2>1, ConcatList
    <3>4. QED BY <1>2, <3>2, <3>3
  <2>9. \A y \in ToSet(p \o o), z \in ToSet(q) : <<y, z>> \in L BY <2>6, <2>7, <2>8
  <2>10. InOrder((p \o o) \o q, L) BY <2>2, <2>5, <2>8, <2>9, ConcatInOrder
  <2>11. QED BY <2>3, <2>10
<1>7. QED BY <1>5, <1>6

(* A sort puts a list in order, members that it leaves unordered in the     *)
(* order they had.                                                          *)
LEMMA SortedInOrder ==
  ASSUME NEW seq, IsList(seq), NEW R, NEW L,
         \A i, j \in 1..Len(seq) : i < j =>
           IF <<seq[j], seq[i]>> \in R THEN <<seq[j], seq[i]>> \in L ELSE <<seq[i], seq[j]>> \in L,
         \A x, y, z \in ToSet(seq) : <<x, y>> \in L /\ <<y, z>> \in L => <<x, z>> \in L
  PROVE  InOrder(Sorted(seq, R), L)
<1> DEFINE n == Len(seq)
<1>1. n \in Nat BY ListElim
<1>2. PICK F : Inserts(seq, R, F) BY SortedInserts
<1>3. F[0] = <<>> /\ \A k \in 1..n : F[k] = Insert(F[k - 1], seq[k], R) BY <1>2 DEF Inserts
<1>4. Sorted(seq, R) = F[n] BY <1>2 DEF Inserts
<1> DEFINE Upto(k) == {seq[i] : i \in 1..k}
           Good(k) == IsList(F[k]) /\ ToSet(F[k]) = Upto(k) /\ InOrder(F[k], L)
           U == {k \in 0..n : Good(k)}
<1>5. Good(0)
  <2>1. InOrder(<<>>, L) BY DEF InOrder
  <2>2. QED BY <1>3, <2>1, EmptyList
<1>6. ASSUME NEW k \in 1..n, Good(k - 1) PROVE Good(k)
  <2> DEFINE s == F[k - 1]  x == seq[k]
  <2>1. F[k] = Insert(s, x, R) BY <1>3
  <2>2. IsList(s) /\ ToSet(s) = Upto(k - 1) /\ InOrder(s, L) BY <1>6
  <2>3. 1..k = 1..(k - 1) \union {k} BY <1>1
  <2>4. Upto(k) = Upto(k - 1) \union {x} BY <2>3
  <2>5. Upto(k) \subseteq ToSet(seq)
    <3>1. \A i \in 1..k : i \in 1..n BY <1>1
    <3>2. \A i \in 1..k : seq[i] \in ToSet(seq) BY <3>1, MemberOfList
    <3>3. QED BY <3>2
  <2>6. ASSUME NEW y \in ToSet(s) PROVE IF <<x, y>> \in R THEN <<x, y>> \in L ELSE <<y, x>> \in L
    <3>1. PICK i \in 1..(k - 1) : y = seq[i] BY <2>2
    <3>2. i \in 1..n /\ i < k BY <1>1
    <3>3. QED BY <3>1, <3>2
  <2>7. \A y, z \in ToSet(s) : <<x, y>> \in L /\ <<y, z>> \in L => <<x, z>> \in L
    <3>1. x \in ToSet(seq) /\ \A y \in ToSet(s) : y \in ToSet(seq) BY <2>2, <2>4, <2>5
    <3> HIDE DEF x, s
    <3>2. QED BY <3>1
  <2> HIDE DEF s, x, Upto
  <2>8. InOrder(Insert(s, x, R), L) BY <2>2, <2>6, <2>7, InsertInOrder
  <2>9. IsList(Insert(s, x, R)) /\ ToSet(Insert(s, x, R)) = ToSet(s) \union {x} BY <2>2, InsertFacts
  <2>10. QED BY <2>1, <2>2, <2>4, <2>8, <2>9
<1>7. Good(n)
  <2> HIDE DEF Good
  <2>1. 0 \in U BY <1>1, <1>5
  <2>2. \A k \in 1..n : k - 1 \in U => k \in U BY <1>1, <1>6
  <2> HIDE DEF U, n
  <2>3. \A k \in 0..n : k \in U BY <1>1, <2>1, <2>2, UpTo
  <2>4. n \in U BY <1>1, <2>3
  <2>5. QED BY <2>4 DEF U
<1>8. QED BY <1>4, <1>7

(* The rows of a column of times in their order: by their times, equal ones *)
(* by their numbers, and the null ones after all others.                    *)
TimeOrder(c) ==
  {p \in (1..Length(c)) \X (1..Length(c)) :
     \/ NullAt(c, p[2])
     \/ /\ ~NullAt(c, p[1])
        /\ \/ ValueAt(c, p[1]) < ValueAt(c, p[2])
           \/ ValueAt(c, p[1]) = ValueAt(c, p[2]) /\ p[1] < p[2]}

(* A column whose cells that are there are numbers. *)
Numbered(c) == ColumnShape(c) /\ AsofKey(c) /\ \A i \in 1..Length(c) : ~NullAt(c, i) => ValueAt(c, i) \in Int

(* sort_by puts the rows of such a column in that order. *)
LEMMA SortRowsInOrder ==
  ASSUME NEW c, Numbered(c)
  PROVE  InOrder(SortRows(c, TRUE), TimeOrder(c))
<1> DEFINE n == Length(c)
           present == {i \in 1..n : ~c.nulls[i]}
           before == {p \in present \X present :
                        Less(IF c.cls = "Cat" THEN "I64" ELSE c.cls, ValueAt(c, p[1]), ValueAt(c, p[2]))}
           A == NonNull(c)
           B == RowsIn(n, (1..n) \ present)
           L == TimeOrder(c)
           v(i) == ValueAt(c, i)
<1>1. n \in Nat /\ ColumnShape(c) /\ c.cls \in {"I64", "DateTime"} BY LengthNat DEF Numbered, AsofKey
<1>2. SortRows(c, TRUE) = Sorted(A, before) \o B BY Zenon DEF SortRows
<1>3. \A i \in 1..n : c.nulls[i] <=> NullAt(c, i) BY <1>1, NullsOf
<1>4. Ascends(A) /\ ToSet(A) = present
  <2>1. present \subseteq 1..n OBVIOUS
  <2>2. A = RowsIn(n, present) BY DEF NonNull
  <2> HIDE DEF present, n, A
  <2>3. QED BY <1>1, <2>1, <2>2, RowsInAscends
<1>5. IsList(B) /\ ToSet(B) = (1..n) \ present
  <2> HIDE DEF present, n
  <2>1. Ascends(B) /\ ToSet(B) = (1..n) \intersect ((1..n) \ present) BY <1>1, RowsInAscends
  <2>2. QED BY <2>1 DEF Ascends
<1>6. \A i \in present : i \in 1..n /\ ~NullAt(c, i) /\ v(i) \in Int BY <1>3 DEF Numbered
<1>7. \A i, j \in present : <<i, j>> \in before <=> v(i) < v(j) BY <1>1 DEF Less
<1>8. \A i, j \in present : <<i, j>> \in L <=> v(i) < v(j) \/ (v(i) = v(j) /\ i < j) BY <1>6 DEF TimeOrder
<1>9. \A i \in 1..n, j \in (1..n) \ present : <<i, j>> \in L BY <1>3 DEF TimeOrder
<1> HIDE DEF A, B, L, n, present, before, v
<1>10. IsList(A) /\ \A k \in 1..Len(A) : A[k] \in present
  <2>1. IsList(A) BY <1>4 DEF Ascends
  <2>2. QED BY <1>4, <2>1, MemberOfList
<1>11. InOrder(Sorted(A, before), L)
  <2>1. ASSUME NEW i \in 1..Len(A), NEW j \in 1..Len(A), i < j
        PROVE  IF <<A[j], A[i]>> \in before THEN <<A[j], A[i]>> \in L ELSE <<A[i], A[j]>> \in L
    <3>1. A[i] < A[j] BY <1>4, <2>1 DEF Ascends
    <3>2. A[i] \in present /\ A[j] \in present BY <1>10
    <3>3. v(A[i]) \in Int /\ v(A[j]) \in Int BY <1>6, <3>2
    <3>4. <<A[j], A[i]>> \in before <=> v(A[j]) < v(A[i]) BY <1>7, <3>2
    <3>5. v(A[j]) < v(A[i]) => <<A[j], A[i]>> \in L BY <1>8, <3>2
    <3>6. v(A[i]) < v(A[j]) \/ v(A[i]) = v(A[j]) => <<A[i], A[j]>> \in L BY <1>8, <3>1, <3>2
    <3>7. QED BY <3>3, <3>4, <3>5, <3>6
  <2>2. ASSUME NEW x \in present, NEW y \in present, NEW z \in present, <<x, y>> \in L, <<y, z>> \in L
        PROVE  <<x, z>> \in L
    <3>1. v(x) \in Int /\ v(y) \in Int /\ v(z) \in Int BY <1>6
    <3>2. x \in Int /\ y \in Int /\ z \in Int BY <1>1, <1>6
    <3>3. v(x) < v(y) \/ (v(x) = v(y) /\ x < y) BY <1>8, <2>2
    <3>4. v(y) < v(z) \/ (v(y) = v(z) /\ y < z) BY <1>8, <2>2
    <3>5. v(x) < v(z) \/ (v(x) = v(z) /\ x < z) BY <3>1, <3>2, <3>3, <3>4
    <3>6. QED BY <1>8, <3>5
  <2>3. QED BY <1>4, <1>10, <2>1, <2>2, SortedInOrder
<1>12. IsList(Sorted(A, before)) /\ ToSet(Sorted(A, before)) = present BY <1>4, <1>10, SortedFacts
<1>13. InOrder(B, L)
  <2>1. \A k \in 1..Len(B) : B[k] \in (1..n) \ present BY <1>5, MemberOfList
  <2>2. QED BY <1>9, <2>1 DEF InOrder
<1>14. \A x \in ToSet(Sorted(A, before)), y \in ToSet(B) : <<x, y>> \in L BY <1>5, <1>6, <1>9, <1>12
<1>15. InOrder(Sorted(A, before) \o B, L) BY <1>5, <1>11, <1>12, <1>13, <1>14, ConcatInOrder
<1>16. QED BY <1>2, <1>15 DEF L

(* The rows whose time is there and is not after that of a row. *)
Reached(a, c, i) ==
  {j \in 1..Length(c) : ~NullAt(c, j) /\ ~NullAt(a, i) /\ ValueAt(c, j) <= ValueAt(a, i)}

(* asof_merge pairs a row with the last of them in the order of the times,  *)
(* or with none when there is none.                                         *)
LEMMA AsofNearest ==
  ASSUME NEW a, Numbered(a), NEW c, Numbered(c), NEW i \in 1..Length(a),
         NEW rows, i \in 1..rows
  PROVE  /\ Reached(a, c, i) = {} => AsofPairs(a, c, rows)[i] = <<i, 0>>
         /\ Reached(a, c, i) # {} =>
              \E x \in Reached(a, c, i) :
                /\ AsofPairs(a, c, rows)[i] = <<i, x>>
                /\ \A y \in Reached(a, c, i) :
                     y = x \/ ValueAt(c, y) < ValueAt(c, x) \/ (ValueAt(c, y) = ValueAt(c, x) /\ y < x)
<1> DEFINE n == Length(c)
           so == SortRows(c, TRUE)
           S == {j \in ToSet(so) : ~c.nulls[j] /\ ~(ValueAt(a, i) < ValueAt(c, j))}
           U == Among(so, S)
           W == Reached(a, c, i)
           L == TimeOrder(c)
           v(j) == ValueAt(c, j)
<1>1. ColumnShape(a) /\ ColumnShape(c) BY DEF Numbered
<1>2. AsofPairs(a, c, rows)[i] = <<i, IF a.nulls[i] \/ U = <<>> THEN 0 ELSE Last(U)>> BY Zenon DEF AsofPairs
<1>3. IsList(so) /\ ToSet(so) = 1..n BY <1>1, SortRowsFacts
<1>4. InOrder(so, L) BY SortRowsInOrder
<1>5. a.nulls[i] <=> NullAt(a, i) BY <1>1, NullsOf
<1>6. \A j \in 1..n : /\ c.nulls[j] <=> NullAt(c, j)
                      /\ ~NullAt(c, j) => v(j) \in Int BY <1>1, NullsOf DEF Numbered
<1>7. ~NullAt(a, i) => ValueAt(a, i) \in Int BY DEF Numbered
<1>8. ~NullAt(a, i) => S = W
  <2> DEFINE t == ValueAt(a, i)
  <2>1. S = {j \in 1..n : ~c.nulls[j] /\ ~(t < v(j))} BY <1>3
  <2>2. W = {j \in 1..n : ~NullAt(c, j) /\ ~NullAt(a, i) /\ v(j) <= t} BY DEF Reached
  <2> HIDE DEF so, S, W, n, v, t
  <2>3. ASSUME ~NullAt(a, i), NEW j \in 1..n
        PROVE  ~c.nulls[j] /\ ~(t < v(j)) <=> ~NullAt(c, j) /\ ~NullAt(a, i) /\ v(j) <= t
    <3>1. ~NullAt(c, j) => (~(t < v(j)) <=> v(j) <= t) BY <1>6, <1>7, <2>3 DEF t
    <3>2. QED BY <1>6, <2>3, <3>1
  <2>4. QED BY <2>1, <2>2, <2>3
<1>9. NullAt(a, i) => W = {} BY DEF Reached
<1> HIDE DEF so, S, n, v
<1>10. IsList(U) /\ ToSet(U) = ToSet(so) \intersect S BY <1>3, AmongFacts
<1>11. InOrder(U, L) BY <1>3, <1>4, AmongInOrder
<1>12. ToSet(U) = S BY <1>10 DEF S
<1> HIDE DEF U, L
<1>13. CASE NullAt(a, i) BY <1>2, <1>5, <1>9, <1>13
<1>14. CASE ~NullAt(a, i) /\ W = {}
  <2>1. U = <<>>
    <3>1. ToSet(U) = {} BY <1>8, <1>12, <1>14
    <3>2. Len(U) \in Nat BY <1>10, ListElim
    <3>3. Len(U) = 0
      <4>1. SUFFICES ASSUME Len(U) # 0 PROVE FALSE OBVIOUS
      <4>2. 1 \in 1..Len(U) BY <3>2, <4>1
      <4>3. U[1] \in ToSet(U) BY <1>10, <4>2, MemberOfList
      <4>4. QED BY <3>1, <4>3
    <3>4. QED BY <1>10, <3>3, EmptyIff
  <2>2. QED BY <1>2, <1>14, <2>1
<1>15. CASE ~NullAt(a, i) /\ W # {}
  <2>1. ToSet(U) = W BY <1>8, <1>12, <1>15
  <2>2. U # <<>> BY <1>15, <2>1, EmptyList
  <2>3. Len(U) \in Nat /\ Len(U) # 0 BY <1>10, <2>2, EmptyIff, ListElim
  <2> DEFINE x == U[Len(U)]
  <2>4. Last(U) = x BY DEF Last
  <2>5. x \in W BY <1>10, <2>1, <2>3, MemberOfList
  <2>6. AsofPairs(a, c, rows)[i] = <<i, x>> BY <1>2, <1>5, <1>15, <2>2, <2>4
  <2> HIDE DEF W
  <2>7. ASSUME NEW y \in W PROVE y = x \/ v(y) < v(x) \/ (v(y) = v(x) /\ y < x)
    <3>1. PICK k \in 1..Len(U) : U[k] = y BY <1>10, <2>1, MemberOfList
    <3>2. k = Len(U) \/ <<y, x>> \in L BY <1>11, <2>3, <3>1 DEF InOrder
    <3>3. ~NullAt(c, x) BY <2>5 DEF W, Reached
    <3>4. <<y, x>> \in L => v(y) < v(x) \/ (v(y) = v(x) /\ y < x) BY <3>3 DEF L, TimeOrder, v
    <3>5. QED BY <3>1, <3>2, <3>4
  <2> HIDE DEF x
  <2>8. QED BY <1>15, <2>5, <2>6, <2>7 DEF W, v
<1>16. QED BY <1>13, <1>14, <1>15 DEF W

(* Two frames whose times tell: asof_merge takes the nearest row. *)
LEMMA AsofTakesNearest ==
  ASSUME NEW l, NEW x, Twin(l, x, TRUE), NEW r, NEW y, Twin(r, y, TRUE), AsofMergeOK(l, r, "t", "t"),
         WholeTimes(l), NullsShow(l, <<"t">>), WholeTimes(r), NullsShow(r, <<"t">>)
  PROVE  AsofIsNearest(l, r)
<1> DEFINE a == ColumnOf(l, "t")  c == ColumnOf(r, "t")
<1>1. /\ HasColumn(l, "t") /\ HasColumn(r, "t") /\ a.cls = c.cls /\ AsofKey(a) BY DEF AsofMergeOK
<1>2. /\ TwinCol(a, ColumnOf(x, "t")) /\ Length(a) = l.nrows
      /\ TwinCol(c, ColumnOf(y, "t")) /\ Length(c) = r.nrows BY <1>1, ColumnOfTwin
<1>3. ColumnShape(a) /\ ColumnShape(c) BY <1>2, ShapeOf
<1>4. AsofKey(c) /\ a.cls # "Cat" /\ c.cls # "Cat" BY <1>1 DEF AsofKey
<1>5. \A i \in 1..l.nrows : /\ Get(a, i) \in Int \union {None}
                            /\ Get(a, i) = None => NullAt(a, i)
  BY DEF WholeTimes, NullsShow
<1>6. \A j \in 1..r.nrows : /\ Get(c, j) \in Int \union {None}
                            /\ Get(c, j) = None => NullAt(c, j)
  BY DEF WholeTimes, NullsShow
<1>7. \A i : Get(a, i) = IF NullAt(a, i) THEN None ELSE ValueAt(a, i) BY <1>4 DEF Get
<1>8. \A j : Get(c, j) = IF NullAt(c, j) THEN None ELSE ValueAt(c, j) BY <1>4 DEF Get
<1> HIDE DEF a, c
<1>9. Numbered(a) /\ Numbered(c)
  <2>1. \A i \in 1..Length(a) : ~NullAt(a, i) => ValueAt(a, i) \in Int BY <1>2, <1>5, <1>7
  <2>2. \A j \in 1..Length(c) : ~NullAt(c, j) => ValueAt(c, j) \in Int BY <1>2, <1>6, <1>8
  <2>3. QED BY <1>1, <1>3, <1>4, <2>1, <2>2 DEF Numbered
<1> DEFINE upTo(i) == {j \in 1..r.nrows : Get(c, j) # None /\ Get(a, i) # None /\ Get(c, j) <= Get(a, i)}
           nearest(i) == {j \in upTo(i) : \A k \in upTo(i) : Get(c, k) < Get(c, j) \/ (Get(c, k) = Get(c, j) /\ k <= j)}
<1>10. ASSUME NEW i \in 1..l.nrows
       PROVE  AsofPairs(a, c, l.nrows)[i] = <<i, IF nearest(i) = {} THEN 0 ELSE CHOOSE j \in nearest(i) : TRUE>>
  <2> DEFINE W == Reached(a, c, i)
  <2>1. /\ \A j \in 1..r.nrows : NullAt(c, j) <=> Get(c, j) = None
        /\ NullAt(a, i) <=> Get(a, i) = None BY <1>5, <1>6, <1>7, <1>8
  <2>2. upTo(i) = W BY <1>2, <1>7, <1>8, <2>1 DEF Reached
  <2>3. \A j \in W : j \in 1..r.nrows /\ j \in Int /\ Get(c, j) = ValueAt(c, j) /\ ValueAt(c, j) \in Int
    <3>1. \A j \in W : j \in 1..r.nrows /\ ~NullAt(c, j) BY <1>2 DEF Reached
    <3> HIDE DEF W
    <3>2. \A j \in W : Get(c, j) = ValueAt(c, j) BY <1>8, <3>1
    <3>3. QED BY <1>2, <1>9, <3>1, <3>2 DEF Numbered
  <2>4. i \in 1..Length(a) BY <1>2
  <2> HIDE DEF W, upTo
  <2>5. nearest(i) = {j \in W : \A k \in W : ValueAt(c, k) < ValueAt(c, j) \/ (ValueAt(c, k) = ValueAt(c, j) /\ k <= j)}
    BY <2>2, <2>3
  <2> HIDE DEF nearest
  <2>6. CASE W = {}
    <3>1. nearest(i) = {} BY <2>5, <2>6
    <3>2. QED BY <1>9, <2>4, <2>6, <3>1, AsofNearest DEF W
  <2>7. CASE W # {}
    <3>1. PICK z \in W : /\ AsofPairs(a, c, l.nrows)[i] = <<i, z>>
                         /\ \A k \in W : k = z \/ ValueAt(c, k) < ValueAt(c, z)
                                               \/ (ValueAt(c, k) = ValueAt(c, z) /\ k < z)
      BY <1>9, <2>4, <2>7, AsofNearest DEF W
    <3>2. nearest(i) = {z}
      <4>1. z \in nearest(i) BY <2>3, <2>5, <3>1
      <4>2. ASSUME NEW j \in nearest(i) PROVE j = z
        <5>1. j \in W /\ (ValueAt(c, z) < ValueAt(c, j) \/ (ValueAt(c, z) = ValueAt(c, j) /\ z <= j)) BY <2>5
        <5>2. j = z \/ ValueAt(c, j) < ValueAt(c, z) \/ (ValueAt(c, j) = ValueAt(c, z) /\ j < z) BY <3>1, <5>1
        <5>3. QED BY <2>3, <5>1, <5>2
      <4>3. QED BY <4>1, <4>2
    <3>3. (CHOOSE j \in nearest(i) : TRUE) = z BY <3>2
    <3>4. QED BY <3>1, <3>2, <3>3
  <2>8. QED BY <2>6, <2>7
<1>11. QED BY <1>10 DEF AsofIsNearest, a, c

(* merge joins two frames on keys that tell, in every way of joining. *)
LEMMA MergeJoins ==
  ASSUME NEW l, NEW x, NEW a, Twin(l, x, a), NEW r, NEW y, NEW b, Twin(r, y, b), NEW on, KeysJoin(l, r, on),
         NEW how \in Hows
  PROVE  LET pairs == Emit(l, r, on, how)
             m == Merge(l, r, on, how)
             plain(c) == c.cls # "Cat"
             ixOf == IF how = "right" THEN r.ix ELSE l.ix
         IN  /\ ToSet(pairs) = JoinPairs(l, r, on, how)
             /\ Len(pairs) = Cardinality(ToSet(pairs))
             /\ \A p \in DOMAIN pairs :
                  /\ \A name \in ToSet(m.names) : plain(ColumnOf(m, name)) =>
                       Get(ColumnOf(m, name), p) = JoinCell(l, r, on, name, pairs[p])
                  /\ how # "outer" \/ AlikeIndexes(l, r) =>
                       \A k \in DOMAIN ixOf.levels : plain(ixOf.levels[k]) =>
                         Get(m.ix.levels[k], p) = JoinIndexCell(l, r, how, k, pairs[p])
<1> DEFINE pairs == Emit(l, r, on, how)
           m == Merge(l, r, on, how)
           ix == IF how = "right" THEN r.ix ELSE l.ix
<1>1. l.nrows \in Nat /\ r.nrows \in Nat BY TwinParts
<1>2. /\ IsList(pairs) /\ ToSet(pairs) = JoinPairs(l, r, on, how)
      /\ Len(pairs) = Cardinality(ToSet(pairs)) BY <1>1, EmitIsJoin
<1>3. DOMAIN pairs = 1..Len(pairs) BY <1>2, ListElim
<1>4. m.ix = MergeIndex(l, r, how, pairs) BY Zenon DEF Merge, Frame
<1>5. ASSUME NEW p \in 1..Len(pairs), NEW name \in ToSet(m.names), ColumnOf(m, name).cls # "Cat"
      PROVE  Get(ColumnOf(m, name), p) = JoinCell(l, r, on, name, pairs[p])
  BY <1>5, MergeCells
<1> HIDE DEF pairs, m
<1>6. ASSUME NEW p \in 1..Len(pairs)
      PROVE  /\ pairs[p][1] # 0 \/ pairs[p][2] # 0
             /\ how \in {"inner", "left"} => pairs[p][1] # 0
             /\ how = "right" => pairs[p][2] # 0
  <2>1. pairs[p] \in JoinPairs(l, r, on, how) BY <1>2, MemberOfList
  <2>2. QED BY <1>1, <2>1, PairRows
<1>7. ASSUME NEW p \in 1..Len(pairs), how # "outer" \/ AlikeIndexes(l, r),
             NEW k \in DOMAIN ix.levels, ix.levels[k].cls # "Cat"
      PROVE  Get(m.ix.levels[k], p) = JoinIndexCell(l, r, how, k, pairs[p])
  <2>1. how = "outer" => AlikeIndexes(l, r) BY <1>7
  <2> HIDE DEF ix
  <2>2. ix = IF how = "right" THEN r.ix ELSE l.ix BY DEF ix
  <2>3. Get(MergeIndex(l, r, how, pairs).levels[k], p) = JoinIndexCell(l, r, how, k, pairs[p])
    BY <1>2, <1>6, <1>7, <2>1, <2>2, MergeIndexCells
  <2>4. QED BY <1>4, <2>3
<1> HIDE DEF ix
<1>8. /\ ToSet(pairs) = JoinPairs(l, r, on, how)
      /\ Len(pairs) = Cardinality(ToSet(pairs))
      /\ \A p \in DOMAIN pairs :
           /\ \A name \in ToSet(m.names) : ColumnOf(m, name).cls # "Cat" =>
                Get(ColumnOf(m, name), p) = JoinCell(l, r, on, name, pairs[p])
           /\ how # "outer" \/ AlikeIndexes(l, r) =>
                \A k \in DOMAIN ix.levels : ix.levels[k].cls # "Cat" =>
                  Get(m.ix.levels[k], p) = JoinIndexCell(l, r, how, k, pairs[p])
  BY <1>2, <1>3, <1>5, <1>7
<1>9. QED BY <1>8, Zenon DEF pairs, m, ix

(* merge is the relational join and asof_merge takes the nearest row, in    *)
(* every pair of frames a session can make whose keys tell: the pairs, each *)
(* once, the cells and the index (builtins.rs, df_merge, df_merge_asof).    *)
THEOREM MergeIsJoinSafe == Spec => [](KeysTell => MergeIsJoin)
<1>1. TwinsInv => (KeysTell => MergeIsJoin)
  <2> SUFFICES ASSUME TwinsInv, KeysTell PROVE MergeIsJoin OBVIOUS
  <2> DEFINE l == f1  r == g1  on == <<"k">>
  <2>1. Twin(l, df[2], counted) /\ Twin(r, named[2], counted) BY DEF TwinsInv, f1, g1
  <2>2. ASSUME counted, AsofMergeOK(l, r, "t", "t") PROVE AsofIsNearest(l, r)
    <3>1. Twin(l, df[2], TRUE) /\ Twin(r, named[2], TRUE)
      <4>1. \A e, h : Twin(e, h, counted) => Twin(e, h, TRUE) BY <2>2 DEF Twin, TwinCols, TwinIndex
      <4>2. QED BY <2>1, <4>1
    <3>2. WholeTimes(l) /\ NullsShow(l, <<"t">>) /\ WholeTimes(r) /\ NullsShow(r, <<"t">>)
      BY <2>2 DEF KeysTell
    <3> HIDE DEF l, r
    <3>3. QED BY <2>2, <3>1, <3>2, AsofTakesNearest
  <2>3. ASSUME MergeOK(l, r, on), Intact(ColumnOf(l, "k")), Intact(ColumnOf(r, "k"))
        PROVE  KeysJoin(l, r, on)
    <3>1. IsList(on) /\ Len(on) = 1 /\ DOMAIN on = 1..1 /\ on[1] = "k" BY OneList, ListElim
    <3>2. HasColumn(l, "k") /\ HasColumn(r, "k") BY <2>3, <3>1 DEF MergeOK
    <3>3. on \in GroupNames
      <4>1. "k" \in Names BY <3>2 DEF HasColumn, Names
      <4>2. QED BY <4>1 DEF GroupNames
    <3>4. TextsTell(l, r, on) /\ NullsShow(l, on) /\ NullsShow(r, on) BY <2>3, <3>3 DEF KeysTell
    <3> HIDE DEF l, r
    <3>5. ColumnShape(ColumnOf(l, "k")) /\ ColumnShape(ColumnOf(r, "k")) BY <2>1, <3>2, ColumnOfTwin, ShapeOf
    <3>6. \A k \in 1..Len(on) : k = 1 BY <3>1
    <3> HIDE DEF on
    <3>7. QED BY <2>3, <3>1, <3>4, <3>5, <3>6 DEF KeysJoin
  <2> HIDE DEF l, r, on
  <2>4. ASSUME MergeOK(l, r, on), Intact(ColumnOf(l, "k")), Intact(ColumnOf(r, "k")), NEW how \in Hows
        PROVE  LET pairs == Emit(l, r, on, how)
                   m == Merge(l, r, on, how)
                   plain(c) == c.cls # "Cat"
                   ixOf == IF how = "right" THEN r.ix ELSE l.ix
               IN  /\ ToSet(pairs) = JoinPairs(l, r, on, how)
                   /\ Len(pairs) = Cardinality(ToSet(pairs))
                   /\ \A p \in DOMAIN pairs :
                        /\ \A name \in ToSet(m.names) : plain(ColumnOf(m, name)) =>
                             Get(ColumnOf(m, name), p) = JoinCell(l, r, on, name, pairs[p])
                        /\ how # "outer" \/ AlikeIndexes(l, r) =>
                             \A k \in DOMAIN ixOf.levels : plain(ixOf.levels[k]) =>
                               Get(m.ix.levels[k], p) = JoinIndexCell(l, r, how, k, pairs[p])
    BY <2>1, <2>3, <2>4, MergeJoins
  <2>5. QED BY <2>2, <2>4, Zenon DEF MergeIsJoin, l, r, on
<1>2. QED BY <1>1, TwinsSafe, PTL

------------------------------------------------------------------------------
(* The calendar. *)

(* The years of a century, counted from March: day x of it is in year y,    *)
(* which starts after z leap days.                                          *)
LEMMA CenturyYears ==
  ASSUME NEW b \in Int, 0 <= b, b <= 3, NEW x \in Int, 0 <= x, x <= 36523,
         NEW q \in Int, NEW y \in Int, NEW z \in Int,
         1460 * q <= x + 24 * b, x + 24 * b < 1460 * q + 1460,
         365 * y <= x - q, x - q < 365 * y + 365,
         4 * z <= y, y < 4 * z + 4
  PROVE  /\ 0 <= y /\ y <= 99
         /\ 365 * y + z <= x /\ x <= 365 * y + z + 365
         /\ x = 365 * y + z + 365 => y = 4 * z + 3 /\ y # 99
<1>1. 0 <= q /\ q <= 25 OBVIOUS
<1>2. 0 <= y /\ y <= 99 BY <1>1
<1>3. 0 <= z /\ z <= 24 BY <1>2
<1>4. z <= q
  <2>1. SUFFICES ASSUME q <= z - 1 PROVE FALSE BY <1>1, <1>3
  <2>2. 1460 * z <= x - q BY <1>3
  <2>3. QED BY <1>1, <2>1, <2>2
<1>5. y <= 4 * z + 2 => q <= z
  <2>1. SUFFICES ASSUME y <= 4 * z + 2, q >= z + 1 PROVE FALSE BY <1>1, <1>3
  <2>2. 1460 * z + 1460 <= x + 24 * b BY <1>1, <1>3, <2>1
  <2>3. x < 1460 * z + 730 + 365 + q BY <1>1, <1>2, <1>3, <2>1
  <2>4. QED BY <1>1, <1>3, <2>2, <2>3
<1>6. q <= z + 1
  <2>1. SUFFICES ASSUME q >= z + 2 PROVE FALSE BY <1>1, <1>3
  <2>2. 1460 * z + 2920 <= x + 24 * b BY <1>1, <1>3, <2>1
  <2>3. x < 1460 * z + 1095 + 365 + q BY <1>1, <1>2, <1>3, <2>1
  <2>4. QED BY <1>1, <1>3, <2>2, <2>3
<1>7. 365 * y + z <= x BY <1>1, <1>2, <1>3, <1>4
<1>8. x <= 365 * y + z + 365 BY <1>1, <1>2, <1>3, <1>6
<1>9. x = 365 * y + z + 365 => y = 4 * z + 3 /\ y # 99
  <2>1. y = 99 => z = 24 BY <1>3
  <2>2. QED BY <1>1, <1>2, <1>3, <1>5, <2>1
<1>10. QED BY <1>2, <1>7, <1>8, <1>9

(* The years of an era of 400, counted from March, as Civil finds that of   *)
(* day e: it starts after y4 leap days but those of y100 centuries, and has *)
(* a leap day at its end when the next year of the calendar is a leap year. *)
LEMMA EraYears ==
  ASSUME NEW e \in Int, 0 <= e, e <= 146096,
         NEW q \in Int, NEW c \in Int, NEW f \in Int, NEW y \in Int, NEW z \in Int, NEW h \in Int,
         1460 * q <= e, e < 1460 * q + 1460,
         36524 * c <= e, e < 36524 * c + 36524,
         146096 * f <= e, e < 146096 * f + 146096,
         365 * y <= e - q + c - f, e - q + c - f < 365 * y + 365,
         4 * z <= y, y < 4 * z + 4,
         100 * h <= y, y < 100 * h + 100
  PROVE  /\ 0 <= y /\ y <= 399
         /\ 365 * y + z - h <= e /\ e <= 365 * y + z - h + 365
         /\ e = 365 * y + z - h + 365 => y = 4 * z + 3 /\ (y = 100 * h + 99 => y = 399)
<1>1. CASE f = 1
  <2>1. e = 146096 BY <1>1
  <2>2. c = 4 /\ q = 100 BY <2>1
  <2>3. y = 399 BY <1>1, <2>1, <2>2
  <2>4. z = 99 /\ h = 3 BY <2>3
  <2>5. QED BY <2>1, <2>3, <2>4
<1>2. CASE f = 0
  <2>1. 0 <= c /\ c <= 3 BY <1>2
  <2> DEFINE x == e - 36524 * c  p == q - 25 * c  t == y - 100 * c  s == z - 25 * c
  <2>2. x \in Int /\ p \in Int /\ t \in Int /\ s \in Int OBVIOUS
  <2>3. 0 <= x /\ x <= 36523 OBVIOUS
  <2>4. 1460 * p <= x + 24 * c /\ x + 24 * c < 1460 * p + 1460 OBVIOUS
  <2>5. 365 * t <= x - p /\ x - p < 365 * t + 365 BY <1>2
  <2>6. 4 * s <= t /\ t < 4 * s + 4 OBVIOUS
  <2>7. e = x + 36524 * c /\ y = t + 100 * c /\ z = s + 25 * c OBVIOUS
  <2> HIDE DEF x, p, t, s
  <2>8. /\ 0 <= t /\ t <= 99
        /\ 365 * t + s <= x /\ x <= 365 * t + s + 365
        /\ x = 365 * t + s + 365 => t = 4 * s + 3 /\ t # 99
    BY <2>1, <2>2, <2>3, <2>4, <2>5, <2>6, CenturyYears
  <2>9. h = c BY <2>2, <2>7, <2>8
  <2>10. 0 <= y /\ y <= 399 BY <2>1, <2>2, <2>7, <2>8
  <2>11. 365 * y + z - h <= e /\ e <= 365 * y + z - h + 365 BY <2>2, <2>7, <2>8, <2>9
  <2>12. ASSUME e = 365 * y + z - h + 365 PROVE y = 4 * z + 3 /\ y # 100 * h + 99
    <3>1. x = 365 * t + s + 365 BY <2>2, <2>7, <2>9, <2>12
    <3>2. t = 4 * s + 3 /\ t # 99 BY <2>8, <3>1
    <3>3. QED BY <2>2, <2>7, <2>9, <3>2
  <2>13. QED BY <2>10, <2>11, <2>12
<1>3. f = 0 \/ f = 1 OBVIOUS
<1>4. QED BY <1>1, <1>2, <1>3

(* The days before the first of March of a year, in that year before the    *)
(* months counted from March, and before 1970.                              *)
YearDay(y)  == 365 * y + y \div 4 - y \div 100 + y \div 400
MonthDay(p) == (153 * p + 2) \div 5
Epoch == 719468

(* A date, with the years and months counted from March. *)
LEMMA DayOfParts ==
  ASSUME NEW y \in Int, NEW p \in 0..11, NEW d \in Int
  PROVE  /\ p < 10  => DayOf(y, p + 3, d) = YearDay(y) + MonthDay(p) + d - 1 - Epoch
         /\ p >= 10 => DayOf(y + 1, p - 9, d) = YearDay(y) + MonthDay(p) + d - 1 - Epoch
<1> DEFINE era == y \div 400  yoe == y - era * 400
           day == era * 146097 + yoe * 365 + yoe \div 4 - yoe \div 100 + (MonthDay(p) + d - 1) - Epoch
<1>1. ASSUME p < 10 PROVE DayOf(y, p + 3, d) = day
  <2>1. ~(p + 3 <= 2) /\ p + 3 > 2 /\ p + 3 - 3 = p BY <1>1
  <2>2. QED BY <2>1 DEF DayOf, MonthDay, Epoch
<1>2. ASSUME p >= 10 PROVE DayOf(y + 1, p - 9, d) = day
  <2>1. p - 9 <= 2 /\ ~(p - 9 > 2) /\ p - 9 + 9 = p /\ y + 1 - 1 = y BY <1>2
  <2>2. QED BY <2>1 DEF DayOf, MonthDay, Epoch
<1>3. era \in Int /\ yoe \in Int /\ y = yoe + 400 * era OBVIOUS
<1>4. y \div 4 = yoe \div 4 + 100 * era /\ y \div 100 = yoe \div 100 + 4 * era OBVIOUS
<1>5. MonthDay(p) \in Int /\ Epoch \in Int BY DEF MonthDay, Epoch
<1>6. era = y \div 400 OBVIOUS
<1>7. yoe \div 4 \in Int /\ yoe \div 100 \in Int BY <1>3
<1>8. YearDay(y) = 365 * y + (yoe \div 4 + 100 * era) - (yoe \div 100 + 4 * era) + era BY <1>4, <1>6 DEF YearDay
<1> HIDE DEF era, yoe
<1>9. day = YearDay(y) + MonthDay(p) + d - 1 - Epoch BY <1>3, <1>5, <1>7, <1>8
<1>10. QED BY <1>1, <1>2, <1>9

(* The months of a year counted from March, and a year and the next. *)
LEMMA MonthDays ==
  /\ \A p \in 0..11 : MonthDay(p) \in Int /\ 0 <= MonthDay(p) /\ MonthDay(p) <= 337
  /\ MonthDay(0) = 0 /\ MonthDay(11) = 337
  /\ \A p \in 0..10 : MonthDay(p + 1) = MonthDay(p) + (IF p \in {1, 3, 6, 8} THEN 30 ELSE 31)
  /\ \A p \in 0..10, q \in 0..11 : p < q => MonthDay(p) < MonthDay(q)
BY DEF MonthDay

(* A year is as many days after the one before it as that has.  *)
LEMMA YearDays ==
  ASSUME NEW y \in Int
  PROVE  /\ YearDay(y) \in Int
         /\ YearDay(y + 1) = YearDay(y) + (IF IsLeap(y + 1) THEN 366 ELSE 365)
         /\ \A x \in Int : y < x => YearDay(y) + 365 <= YearDay(x)
<1>1. YearDay(y) \in Int BY DEF YearDay
<1>2. (y + 1) \div 4 = y \div 4 + (IF (y + 1) % 4 = 0 THEN 1 ELSE 0) OBVIOUS
<1>3. (y + 1) \div 100 = y \div 100 + (IF (y + 1) % 100 = 0 THEN 1 ELSE 0) OBVIOUS
<1>4. (y + 1) \div 400 = y \div 400 + (IF (y + 1) % 400 = 0 THEN 1 ELSE 0) OBVIOUS
<1>5. (y + 1) % 400 = 0 => (y + 1) % 100 = 0 OBVIOUS
<1>6. (y + 1) % 100 = 0 => (y + 1) % 4 = 0 OBVIOUS
<1>7. YearDay(y + 1) = YearDay(y) + (IF IsLeap(y + 1) THEN 366 ELSE 365)
  BY <1>2, <1>3, <1>4, <1>5, <1>6 DEF YearDay, IsLeap
<1>8. ASSUME NEW x \in Int, y < x PROVE YearDay(y) + 365 <= YearDay(x)
  <2>1. y \div 4 <= x \div 4 BY <1>8
  <2>2. y \div 400 <= x \div 400 BY <1>8
  <2>3. x \div 100 - y \div 100 <= x - y BY <1>8
  <2>4. x = y + 1 \/ y + 2 <= x BY <1>8
  <2>5. CASE y + 2 <= x BY <2>1, <2>2, <2>3, <2>5 DEF YearDay
  <2>6. QED BY <1>1, <1>7, <2>4, <2>5
<1>9. QED BY <1>1, <1>7, <1>8

(* The months of all years, numbered. *)
MonthNumber(y, m) == 12 * y + m - 1
MonthStart(n)  == DayOf(n \div 12, (n % 12) + 1, 1)
MonthLength(n) == DaysInMonth(n \div 12, (n % 12) + 1)

(* A number, its year and its month. *)
LEMMA MonthNumbers ==
  ASSUME NEW y \in Int, NEW m \in 1..12
  PROVE  /\ MonthNumber(y, m) \in Int
         /\ MonthNumber(y, m) \div 12 = y /\ (MonthNumber(y, m) % 12) + 1 = m
BY DEF MonthNumber

(* Every number is that of a month of a year. *)
LEMMA NumberedMonth ==
  ASSUME NEW n \in Int
  PROVE  n \div 12 \in Int /\ (n % 12) + 1 \in 1..12 /\ n = MonthNumber(n \div 12, (n % 12) + 1)
BY DEF MonthNumber

(* The days before 1970 are a number. *)
LEMMA DaysInt == Epoch \in Int BY DEF Epoch

(* The days of a month are those from its first. *)
LEMMA DayOfMonth ==
  ASSUME NEW y \in Int, NEW m \in 1..12, NEW d \in Int
  PROVE  /\ DayOf(y, m, d) = MonthStart(MonthNumber(y, m)) + d - 1
         /\ MonthStart(MonthNumber(y, m)) \in Int
<1>1. MonthStart(MonthNumber(y, m)) = DayOf(y, m, 1) BY MonthNumbers DEF MonthStart
<1>2. DayOf(y, m, d) = DayOf(y, m, 1) + d - 1 /\ DayOf(y, m, 1) \in Int BY SMT DEF DayOf
<1>3. QED BY <1>1, <1>2

(* The first day of a month, with the years and months counted from March. *)
LEMMA MonthStartParts ==
  ASSUME NEW n \in Int
  PROVE  /\ MonthStart(n) = YearDay((n - 2) \div 12) + MonthDay((n - 2) % 12) - Epoch
         /\ MonthStart(n) \in Int
<1> DEFINE y == (n - 2) \div 12  p == (n - 2) % 12
<1>1. y \in Int /\ p \in 0..11 /\ n - 2 = 12 * y + p OBVIOUS
<1>2. p < 10 => n \div 12 = y /\ (n % 12) + 1 = p + 3 BY <1>1
<1>3. p >= 10 => n \div 12 = y + 1 /\ (n % 12) + 1 = p - 9 BY <1>1
<1> HIDE DEF y, p
<1>4. YearDay(y) \in Int /\ MonthDay(p) \in Int /\ Epoch \in Int
  BY <1>1, DaysInt DEF YearDay, MonthDay
<1>5. MonthStart(n) = YearDay(y) + MonthDay(p) - Epoch
  <2> DEFINE x == YearDay(y) + MonthDay(p) + 1 - 1 - Epoch
  <2>1. p < 10 => DayOf(y, p + 3, 1) = x BY <1>1, DayOfParts
  <2>2. p >= 10 => DayOf(y + 1, p - 9, 1) = x BY <1>1, DayOfParts
  <2>3. x = YearDay(y) + MonthDay(p) - Epoch BY <1>4
  <2> HIDE DEF x
  <2>4. p < 10 => MonthStart(n) = x BY <1>2, <2>1 DEF MonthStart
  <2>5. p >= 10 => MonthStart(n) = x BY <1>3, <2>2 DEF MonthStart
  <2>6. p < 10 \/ p >= 10 BY <1>1
  <2>7. QED BY <2>3, <2>4, <2>5, <2>6
<1>6. QED BY <1>4, <1>5 DEF y, p

(* A month starts where the one before it ends, and so in order. *)
LEMMA MonthOrder ==
  ASSUME NEW n \in Int
  PROVE  /\ MonthLength(n) \in Int /\ 28 <= MonthLength(n)
         /\ MonthStart(n + 1) = MonthStart(n) + MonthLength(n)
         /\ \A i \in Int : n < i => MonthStart(n) < MonthStart(i)
<1> DEFINE y == (n - 2) \div 12  p == (n - 2) % 12
<1>1. y \in Int /\ p \in 0..11 /\ n - 2 = 12 * y + p OBVIOUS
<1>2. MonthLength(n) \in Int /\ 28 <= MonthLength(n)
  <2>1. (n % 12) + 1 \in 1..12 OBVIOUS
  <2>2. QED BY <2>1 DEF MonthLength, DaysInMonth
<1>3. /\ MonthStart(n) = YearDay(y) + MonthDay(p) - Epoch
      /\ MonthStart(n + 1) = YearDay((n - 1) \div 12) + MonthDay((n - 1) % 12) - Epoch
  <2>1. n + 1 - 2 = n - 1 OBVIOUS
  <2>2. QED BY <2>1, MonthStartParts
<1>4. p < 10 => n \div 12 = y /\ (n % 12) + 1 = p + 3 BY <1>1
<1>5. p >= 10 => n \div 12 = y + 1 /\ (n % 12) + 1 = p - 9 BY <1>1
<1>6. p < 11 => (n - 1) \div 12 = y /\ (n - 1) % 12 = p + 1 BY <1>1
<1>7. p = 11 => (n - 1) \div 12 = y + 1 /\ (n - 1) % 12 = 0 BY <1>1
<1>8. YearDay(y) \in Int /\ YearDay(y + 1) \in Int /\ Epoch \in Int BY <1>1, DaysInt, YearDays
<1> HIDE DEF y, p
<1>9. MonthStart(n + 1) = MonthStart(n) + MonthLength(n)
  <2>1. CASE p < 11
    <3>1. MonthLength(n) = IF p \in {1, 3, 6, 8} THEN 30 ELSE 31
      <4>1. CASE p < 10
        <5>1. MonthLength(n) = DaysInMonth(y, p + 3) BY <1>4, <4>1 DEF MonthLength
        <5>2. QED BY <1>1, <4>1, <5>1 DEF DaysInMonth
      <4>2. CASE p = 10
        <5>1. MonthLength(n) = DaysInMonth(y + 1, 1) BY <1>5, <4>2 DEF MonthLength
        <5>2. QED BY <4>2, <5>1 DEF DaysInMonth
      <4>3. QED BY <1>1, <2>1, <4>1, <4>2
    <3>2. p \in 0..10 BY <1>1, <2>1
    <3>3. MonthDay(p + 1) = MonthDay(p) + MonthLength(n) /\ MonthDay(p) \in Int BY <1>1, <3>1, <3>2, MonthDays
    <3>4. QED BY <1>2, <1>3, <1>6, <1>8, <2>1, <3>3
  <2>2. CASE p = 11
    <3>1. MonthLength(n) = IF IsLeap(y + 1) THEN 29 ELSE 28
      <4>1. MonthLength(n) = DaysInMonth(y + 1, 2) BY <1>5, <2>2 DEF MonthLength
      <4>2. QED BY <4>1 DEF DaysInMonth
    <3>2. YearDay(y + 1) = YearDay(y) + (IF IsLeap(y + 1) THEN 366 ELSE 365) BY <1>1, YearDays
    <3>3. MonthDay(0) = 0 /\ MonthDay(11) = 337 BY MonthDays
    <3>4. QED BY <1>3, <1>7, <1>8, <2>2, <3>1, <3>2, <3>3
  <2>3. QED BY <1>1, <2>1, <2>2
<1>10. ASSUME NEW i \in Int, n < i PROVE MonthStart(n) < MonthStart(i)
  <2> DEFINE x == (i - 2) \div 12  r == (i - 2) % 12
  <2>1. x \in Int /\ r \in 0..11 /\ i - 2 = 12 * x + r OBVIOUS
  <2>2. MonthStart(i) = YearDay(x) + MonthDay(r) - Epoch BY MonthStartParts
  <2>3. YearDay(x) \in Int BY <2>1, YearDays
  <2> HIDE DEF x, r
  <2>4. y < x \/ (y = x /\ p < r) BY <1>1, <1>10, <2>1
  <2>5. /\ MonthDay(p) \in Int /\ 0 <= MonthDay(p) /\ MonthDay(p) <= 337
        /\ MonthDay(r) \in Int /\ 0 <= MonthDay(r) BY <1>1, <2>1, MonthDays
  <2>6. CASE y < x
    <3>1. YearDay(y) + 365 <= YearDay(x) BY <1>1, <2>1, <2>6, YearDays
    <3>2. QED BY <1>3, <1>8, <2>2, <2>3, <2>5, <3>1
  <2>7. CASE y = x /\ p < r
    <3>1. p \in 0..10 BY <1>1, <2>1, <2>7
    <3>2. MonthDay(p) < MonthDay(r) BY <2>1, <2>7, <3>1, MonthDays
    <3>3. QED BY <1>3, <1>8, <2>2, <2>5, <2>7, <3>2
  <2>8. QED BY <2>4, <2>6, <2>7
<1>11. QED BY <1>2, <1>9, <1>10

(* A day of a year counted from March, in its month. *)
LEMMA YearMonths ==
  ASSUME NEW x \in 0..365, NEW p \in Int, p = (5 * x + 2) \div 153
  PROVE  /\ p \in 0..11 /\ MonthDay(p) <= x
         /\ p < 11 => x < MonthDay(p + 1)
<1>1. p \in 0..11 OBVIOUS
<1>2. MonthDay(p) <= x BY <1>1 DEF MonthDay
<1>3. p < 11 => x < MonthDay(p + 1) BY <1>1 DEF MonthDay
<1>4. QED BY <1>1, <1>2, <1>3

(* A day is some day of the month of its date, as Civil finds it. *)
LEMMA CivilParts ==
  ASSUME NEW t \in Int
  PROVE  LET a == Civil(t) IN
         /\ a.y \in Int /\ a.m \in 1..12 /\ a.d \in Int
         /\ 1 <= a.d /\ a.d <= DaysInMonth(a.y, a.m)
         /\ DayOf(a.y, a.m, a.d) = t
<1> DEFINE z == t + Epoch
           era == z \div 146097
           e == z - era * 146097
           yoe == (e - e \div 1460 + e \div 36524 - e \div 146096) \div 365
           doy == e - (365 * yoe + yoe \div 4 - yoe \div 100)
           p == (5 * doy + 2) \div 153
           m == IF p < 10 THEN p + 3 ELSE p - 9
           y == yoe + era * 400 
           d == doy - (153 * p + 2) \div 5 + 1
<1>1. Civil(t) = [y |-> y + (IF m <= 2 THEN 1 ELSE 0), m |-> m, d |-> d] BY SMT DEF Civil, Epoch
<1>2. z \in Int /\ era \in Int /\ e \in Int /\ 0 <= e /\ e <= 146096 /\ z = e + era * 146097 BY DaysInt, SMT
<1> HIDE DEF z, era, e
<1>4. /\ yoe \in Int /\ 0 <= yoe /\ yoe <= 399
      /\ doy \in Int /\ 0 <= doy /\ doy <= 365
      /\ doy = 365 => yoe = 4 * (yoe \div 4) + 3 /\ (yoe = 100 * (yoe \div 100) + 99 => yoe = 399)
  <2> DEFINE q == e \div 1460  c == e \div 36524  f == e \div 146096
             n == e - q + c - f  r == yoe \div 4  h == yoe \div 100
  <2>1. q \in Int /\ 1460 * q <= e /\ e < 1460 * q + 1460 BY <1>2, SMT
  <2>2. c \in Int /\ 36524 * c <= e /\ e < 36524 * c + 36524 BY <1>2, SMT
  <2>3. f \in Int /\ 146096 * f <= e /\ e < 146096 * f + 146096 BY <1>2, SMT
  <2> HIDE DEF q, c, f
  <2>4. yoe \in Int /\ 365 * yoe <= n /\ n < 365 * yoe + 365 BY <1>2, <2>1, <2>2, <2>3, SMT DEF q, c, f
  <2> HIDE DEF yoe
  <2>5. r \in Int /\ 4 * r <= yoe /\ yoe < 4 * r + 4 BY <2>4
  <2>6. h \in Int /\ 100 * h <= yoe /\ yoe < 100 * h + 100 BY <2>4
  <2> HIDE DEF r, h
  <2>7. /\ 0 <= yoe /\ yoe <= 399
        /\ 365 * yoe + r - h <= e /\ e <= 365 * yoe + r - h + 365
        /\ e = 365 * yoe + r - h + 365 => yoe = 4 * r + 3 /\ (yoe = 100 * h + 99 => yoe = 399)
    BY <1>2, <2>1, <2>2, <2>3, <2>4, <2>5, <2>6, EraYears, SMT
  <2>8. doy = e - (365 * yoe + r - h) BY DEF r, h
  <2> HIDE DEF doy
  <2>9. QED BY <1>2, <2>4, <2>5, <2>6, <2>7, <2>8, SMT DEF r, h
<1> HIDE DEF yoe, doy
<1>5. p \in 0..11 /\ MonthDay(p) <= doy /\ (p < 11 => doy < MonthDay(p + 1))
  <2>1. doy \in 0..365 BY <1>4
  <2>2. p \in Int /\ p = (5 * doy + 2) \div 153 BY <1>4
  <2> HIDE DEF p
  <2>3. QED BY <2>1, <2>2, YearMonths
<1>6. d = doy - MonthDay(p) + 1 BY DEF MonthDay
<1> DEFINE v == y + (IF m <= 2 THEN 1 ELSE 0)
<1> HIDE DEF p, d
<1>7. m \in 1..12 /\ d \in Int /\ 1 <= d /\ y \in Int /\ v \in Int
  BY <1>2, <1>4, <1>5, <1>6, MonthDays
<1>8. /\ p < 10 => v = y /\ m = p + 3
      /\ p >= 10 => v = y + 1 /\ m = p - 9
  BY <1>5, <1>7
<1> DEFINE x == YearDay(y) + MonthDay(p) + d - 1 - Epoch
<1>9. DayOf(v, m, d) = x
  <2>1. p < 10 => DayOf(y, p + 3, d) = x BY <1>5, <1>7, DayOfParts
  <2>2. p >= 10 => DayOf(y + 1, p - 9, d) = x BY <1>5, <1>7, DayOfParts
  <2> HIDE DEF x, v, m
  <2>3. p < 10 \/ p >= 10 BY <1>5
  <2>4. QED BY <1>8, <2>1, <2>2, <2>3
<1>10. YearDay(y) = 146097 * era + (365 * yoe + yoe \div 4 - yoe \div 100)
  <2> DEFINE r == yoe \div 4  h == yoe \div 100
  <2>1. r \in Int /\ h \in Int BY <1>4
  <2>2. y \div 4 = r + 100 * era /\ y \div 100 = h + 4 * era /\ y \div 400 = era BY <1>2, <1>4
  <2>3. YearDay(y) = 365 * y + (r + 100 * era) - (h + 4 * era) + era BY <2>2 DEF YearDay
  <2> HIDE DEF r, h
  <2>4. YearDay(y) = 146097 * era + (365 * yoe + r - h) BY <1>2, <1>4, <2>1, <2>3, SMT
  <2>5. QED BY <2>4 DEF r, h
<1>11. x = t
  <2> DEFINE q == 365 * yoe + yoe \div 4 - yoe \div 100
  <2>1. q \in Int BY <1>4
  <2>2. doy = e - q BY DEF doy
  <2>3. YearDay(y) = 146097 * era + q BY <1>10
  <2>4. MonthDay(p) \in Int /\ Epoch \in Int BY <1>5, MonthDays, DaysInt
  <2>5. z = t + Epoch BY DEF z
  <2> HIDE DEF q, y
  <2>6. QED BY <1>2, <1>4, <1>6, <2>1, <2>2, <2>3, <2>4, <2>5, SMT
<1>12. d <= DaysInMonth(v, m)
  <2> HIDE DEF m, v, x
  <2>1. CASE p < 10
    <3>1. DaysInMonth(v, m) = IF p \in {1, 3, 6, 8} THEN 30 ELSE 31
      BY <1>5, <1>8, <2>1 DEF DaysInMonth
    <3>2. p \in 0..10 BY <1>5, <2>1
    <3>3. MonthDay(p + 1) = MonthDay(p) + DaysInMonth(v, m) /\ MonthDay(p) \in Int /\ MonthDay(p + 1) \in Int
      BY <1>5, <3>1, <3>2, MonthDays
    <3>4. doy < MonthDay(p + 1) BY <1>5, <2>1
    <3>5. DaysInMonth(v, m) \in Int BY <3>1
    <3>6. QED BY <1>4, <1>6, <3>3, <3>4, <3>5
  <2>2. CASE p = 10
    <3>1. DaysInMonth(v, m) = 31 BY <1>8, <2>2 DEF DaysInMonth
    <3>2. MonthDay(10) = 306 /\ MonthDay(11) = 337 BY DEF MonthDay
    <3>3. QED BY <1>4, <1>5, <1>6, <2>2, <3>1, <3>2
  <2>3. CASE p = 11
    <3>1. v = y + 1 /\ m = 2 BY <1>8, <2>3
    <3>2. DaysInMonth(v, m) = IF IsLeap(y + 1) THEN 29 ELSE 28 BY <3>1 DEF DaysInMonth
    <3>3. MonthDay(11) = 337 BY DEF MonthDay
    <3>4. d = doy - 336 BY <1>4, <1>6, <2>3, <3>3
    <3>5. doy = 365 => IsLeap(y + 1)
      <4> SUFFICES ASSUME doy = 365 PROVE IsLeap(y + 1) OBVIOUS
      <4> DEFINE r == yoe \div 4  h == yoe \div 100
      <4>1. r \in Int /\ h \in Int /\ 100 * h <= yoe /\ yoe < 100 * h + 100 BY <1>4
      <4>2. yoe = 4 * r + 3 /\ (yoe = 100 * h + 99 => yoe = 399) BY <1>4
      <4> HIDE DEF r, h
      <4>3. y + 1 = yoe + 1 + 400 * era BY <1>2, <1>4
      <4>4. (y + 1) % 4 = 0
        <5>1. y + 1 = 4 * (r + 1 + 100 * era) BY <1>2, <1>4, <4>1, <4>2, <4>3
        <5>2. QED BY <1>2, <4>1, <5>1
      <4>5. CASE yoe = 399
        <5>1. y + 1 = 400 * (1 + era) BY <1>2, <4>3, <4>5
        <5>2. (y + 1) % 400 = 0 BY <1>2, <5>1
        <5>3. QED BY <5>2 DEF IsLeap
      <4>6. CASE yoe # 399
        <5>1. yoe + 1 < 100 * h + 100 /\ 100 * h < yoe + 1 BY <1>4, <4>1, <4>2, <4>6
        <5> DEFINE b == h + 4 * era  o == yoe + 1 - 100 * h
        <5>2. b \in Int /\ o \in Int /\ 0 < o /\ o < 100 /\ y + 1 = 100 * b + o BY <1>2, <1>4, <4>1, <4>3, <5>1
        <5> HIDE DEF b, o
        <5>3. (y + 1) % 100 = o BY <5>2
        <5>4. (y + 1) % 100 # 0 BY <5>2, <5>3
        <5>5. QED BY <4>4, <5>4 DEF IsLeap
      <4>7. QED BY <4>5, <4>6
    <3>6. QED BY <1>4, <3>2, <3>4, <3>5
  <2>4. QED BY <1>5, <2>1, <2>2, <2>3
<1> DEFINE a == [y |-> v, m |-> m, d |-> d]
<1>13. Civil(t) = a BY <1>1
<1> HIDE DEF x, v, m
<1>14. a.y = v /\ a.m = m /\ a.d = d OBVIOUS
<1> HIDE DEF a
<1>15. QED BY <1>7, <1>9, <1>11, <1>12, <1>13, <1>14

------------------------------------------------------------------------------
(* Buckets of time. *)

(* The month of a date is numbered, and its days are those of the date. *)
LEMMA CivilMonth ==
  ASSUME NEW t \in Int, NEW n, n = MonthNumber(Civil(t).y, Civil(t).m)
  PROVE  /\ n \in Int /\ Civil(t).y = n \div 12 /\ Civil(t).m = (n % 12) + 1
         /\ Civil(t).d \in Int /\ 1 <= Civil(t).d /\ Civil(t).d <= MonthLength(n)
         /\ t = MonthStart(n) + Civil(t).d - 1
         /\ MonthStart(n) <= t /\ t < MonthStart(n + 1)
<1> DEFINE y == Civil(t).y  m == Civil(t).m  d == Civil(t).d
<1>1. /\ y \in Int /\ m \in 1..12 /\ d \in Int /\ 1 <= d /\ d <= DaysInMonth(y, m)
      /\ DayOf(y, m, d) = t BY CivilParts
<1> HIDE DEF y, m, d
<1>2. n \in Int /\ n \div 12 = y /\ (n % 12) + 1 = m BY <1>1, MonthNumbers DEF y, m
<1>3. MonthLength(n) = DaysInMonth(y, m) BY <1>2 DEF MonthLength
<1>4. DayOf(y, m, d) = MonthStart(n) + d - 1 /\ MonthStart(n) \in Int BY <1>1, DayOfMonth DEF y, m
<1>5. MonthStart(n + 1) = MonthStart(n) + MonthLength(n) /\ MonthLength(n) \in Int BY <1>2, MonthOrder
<1>6. t = MonthStart(n) + d - 1 /\ d <= MonthLength(n) BY <1>1, <1>3, <1>4
<1>7. MonthStart(n) <= t /\ t < MonthStart(n + 1)
  <2> DEFINE x == MonthStart(n)  z == MonthStart(n + 1)  w == MonthLength(n)
  <2>1. x \in Int /\ w \in Int /\ z = x + w /\ t = x + d - 1 /\ d <= w BY <1>4, <1>5, <1>6
  <2> HIDE DEF x, z, w
  <2>2. x <= t /\ t < z BY <1>1, <2>1
  <2>3. QED BY <2>2 DEF x, z
<1>8. QED BY <1>1, <1>2, <1>6, <1>7 DEF y, m, d

(* The buckets of a rule, which are in the order of the times and of their  *)
(* starts, the first of which is the anchor.                                *)
BucketsInOrder(anchor, rule) ==
  /\ \A t \in Int : BucketOf(t, anchor, rule) \in Int
  /\ \A t, u \in Int : t <= u => BucketOf(t, anchor, rule) <= BucketOf(u, anchor, rule)
  /\ BucketOf(anchor, anchor, rule) = 0 /\ BucketStart(0, anchor, rule) = anchor
  /\ \A k \in Int : BucketStart(k, anchor, rule) < BucketStart(k + 1, anchor, rule)
BucketHolds(t, anchor, rule) ==
  /\ t < BucketStart(BucketOf(t, anchor, rule) + 1, anchor, rule)
  /\ IF Calendar(rule) THEN SameMonth(t, BucketStart(BucketOf(t, anchor, rule), anchor, rule))
     ELSE BucketStart(BucketOf(t, anchor, rule), anchor, rule) <= t

(* The buckets of a week each. *)
LEMMA WeekBuckets ==
  ASSUME NEW anchor \in Int, NEW rule, rule.n = 1, rule.unit = "w"
  PROVE  /\ BucketsInOrder(anchor, rule)
         /\ \A t \in Int : BucketHolds(t, anchor, rule)
<1>1. Days(rule) = 7 /\ ~Calendar(rule) BY DEF Days, Calendar
<1>2. \A t \in Int : BucketOf(t, anchor, rule) = (t - anchor) \div 7
  <2>1. \A t : BucketOf(t, anchor, rule) = (t - anchor) \div Days(rule) BY DEF BucketOf
  <2>2. QED BY <1>1, <2>1
<1>3. \A k \in Int : BucketStart(k, anchor, rule) = anchor + k * 7
  <2>1. \A k : BucketStart(k, anchor, rule) = anchor + k * Days(rule) BY <1>1 DEF BucketStart
  <2>2. QED BY <1>1, <2>1
<1>4. \A t, u \in Int : t <= u => (t - anchor) \div 7 <= (u - anchor) \div 7 OBVIOUS
<1>5. BucketsInOrder(anchor, rule) BY <1>2, <1>3, <1>4 DEF BucketsInOrder
<1>6. ASSUME NEW t \in Int PROVE BucketHolds(t, anchor, rule)
  <2> DEFINE k == (t - anchor) \div 7
  <2>1. k \in Int /\ anchor + k * 7 <= t /\ t < anchor + (k + 1) * 7 OBVIOUS
  <2>2. BucketOf(t, anchor, rule) = k BY <1>2
  <2> HIDE DEF k
  <2>3. QED BY <1>1, <1>3, <2>1, <2>2 DEF BucketHolds
<1>7. QED BY <1>5, <1>6

(* The buckets of a month each. *)
LEMMA MonthBuckets ==
  ASSUME NEW anchor \in Int, NEW rule, rule.n = 1, rule.unit = "M"
  PROVE  /\ BucketsInOrder(anchor, rule)
         /\ \A t \in Int : BucketHolds(t, anchor, rule)
<1> DEFINE N(t) == MonthNumber(Civil(t).y, Civil(t).m)
           a == Civil(anchor)
<1>1. Calendar(rule) BY DEF Calendar
<1>2. ASSUME NEW t \in Int
      PROVE  /\ N(t) \in Int /\ Civil(t).y = N(t) \div 12 /\ Civil(t).m = (N(t) % 12) + 1
             /\ MonthStart(N(t)) <= t /\ t < MonthStart(N(t) + 1)
  <2> DEFINE n == N(t)
  <2>1. n = MonthNumber(Civil(t).y, Civil(t).m) OBVIOUS
  <2> HIDE DEF n
  <2>2. QED BY <2>1, CivilMonth DEF n
<1>3. ASSUME NEW t \in Int PROVE BucketOf(t, anchor, rule) = N(t) - N(anchor)
  <2> DEFINE b == Civil(t)  x == (b.y - a.y) * 12 + (b.m - a.m)
  <2>1. a.y \in Int /\ a.m \in Int /\ b.y \in Int /\ b.m \in Int BY CivilInt
  <2>2. BucketOf(t, anchor, rule) = TruncDiv(x, rule.n) BY DEF BucketOf
  <2>3. x = N(t) - N(anchor) /\ x \in Int
    <3> HIDE DEF a, b
    <3>1. N(t) = 12 * b.y + b.m - 1 /\ N(anchor) = 12 * a.y + a.m - 1 BY DEF MonthNumber, a, b
    <3> DEFINE p == N(t)  q == N(anchor)  i == a.y  j == a.m  u == b.y  v == b.m
    <3>2. p = 12 * u + v - 1 /\ q = 12 * i + j - 1 /\ i \in Int /\ j \in Int /\ u \in Int /\ v \in Int BY <2>1, <3>1
    <3> HIDE DEF p, q, i, j, u, v
    <3>3. (u - i) * 12 + (v - j) = p - q /\ (u - i) * 12 + (v - j) \in Int BY <3>2
    <3>4. QED BY <3>3 DEF p, q, i, j, u, v
  <2> HIDE DEF x
  <2>4. TruncDiv(x, 1) = x BY <2>3 DEF TruncDiv
  <2>5. QED BY <2>2, <2>3, <2>4
<1> HIDE DEF N
<1>4. ASSUME NEW t \in Int, NEW u \in Int, t <= u PROVE N(t) <= N(u)
  <2>1. ASSUME N(u) < N(t) PROVE FALSE
    <3>1. N(u) + 1 \in Int /\ N(t) \in Int /\ (N(u) + 1 < N(t) \/ N(u) + 1 = N(t)) BY <1>2, <2>1
    <3> DEFINE p == N(u) + 1  q == N(t)
    <3>2. p \in Int /\ q \in Int /\ (p < q \/ p = q) BY <3>1
    <3>3. MonthStart(q) <= t /\ u < MonthStart(p) BY <1>2
    <3> HIDE DEF p, q
    <3>4. MonthStart(p) \in Int /\ MonthStart(q) \in Int BY <3>2, MonthStartParts
    <3>5. p < q => MonthStart(p) < MonthStart(q) BY <3>2, MonthOrder
    <3>6. MonthStart(p) <= MonthStart(q) BY <3>2, <3>4, <3>5
    <3>7. QED BY <1>4, <3>3, <3>4, <3>6
  <2>2. QED BY <1>2, <2>1
<1>5. ASSUME NEW k \in Int, NEW n, n = N(anchor) + k
      PROVE  /\ n \in Int
             /\ BucketStart(k, anchor, rule)
                  = MonthStart(n) + (IF a.d <= MonthLength(n) THEN a.d ELSE MonthLength(n)) - 1
  <2> DEFINE months == a.m - 1 + k
             y == a.y + months \div 12
             m == (months % 12) + 1
             e == DaysInMonth(y, m)
  <2>1. BucketStart(k, anchor, rule) = DayOf(y, m, Min({a.d, e}))
    <3>1. BucketStart(k, anchor, rule)
            = DayOf(a.y + (a.m - 1 + k * rule.n) \div 12, ((a.m - 1 + k * rule.n) % 12) + 1,
                    Min({a.d, DaysInMonth(a.y + (a.m - 1 + k * rule.n) \div 12, ((a.m - 1 + k * rule.n) % 12) + 1)}))
      BY <1>1 DEF BucketStart
    <3>2. k * rule.n = k OBVIOUS
    <3>3. QED BY <3>1, <3>2
  <2>2. a.y \in Int /\ a.m \in Int /\ a.d \in Int BY CivilInt
  <2>3. n = 12 * a.y + months /\ months \in Int
    <3>1. N(anchor) = 12 * a.y + a.m - 1 BY DEF N, MonthNumber
    <3> HIDE DEF a
    <3>2. QED BY <1>5, <2>2, <3>1
  <2> HIDE DEF months, a
  <2>4. n \in Int /\ n \div 12 = y /\ (n % 12) + 1 = m BY <2>2, <2>3
  <2>5. y \in Int /\ m \in 1..12 BY <2>2, <2>3
  <2>6. n = MonthNumber(y, m) BY <2>4, NumberedMonth
  <2>7. e = MonthLength(n) BY <2>4 DEF MonthLength
  <2> HIDE DEF y, m, e
  <2>8. e \in Int BY <2>4, <2>7, MonthOrder
  <2> DEFINE d == a.d
  <2>9. d \in Int BY <2>2
  <2> HIDE DEF d
  <2>10. Min({d, e}) = (IF d <= e THEN d ELSE e) BY <2>8, <2>9, MaxOfTwo
  <2> DEFINE x == IF d <= e THEN d ELSE e
  <2>11. x \in Int BY <2>8, <2>9
  <2> HIDE DEF x
  <2>12. DayOf(y, m, x) = MonthStart(n) + x - 1 BY <2>5, <2>6, <2>11, DayOfMonth
  <2>13. QED BY <2>1, <2>4, <2>7, <2>10, <2>12 DEF d, x
<1>6. a.d \in Int /\ 1 <= a.d /\ a.d <= MonthLength(N(anchor)) /\ anchor = MonthStart(N(anchor)) + a.d - 1
  <2> DEFINE n == N(anchor)
  <2>1. n = MonthNumber(Civil(anchor).y, Civil(anchor).m) BY DEF N
  <2> HIDE DEF n
  <2>2. a.d \in Int /\ 1 <= a.d /\ a.d <= MonthLength(n) /\ anchor = MonthStart(n) + a.d - 1 BY <2>1, CivilMonth
  <2>3. QED BY <2>2 DEF n
<1> HIDE DEF a
<1>7. ASSUME NEW k \in Int PROVE BucketStart(k, anchor, rule) < BucketStart(k + 1, anchor, rule)
  <2> DEFINE n == N(anchor) + k
             x == IF a.d <= MonthLength(n) THEN a.d ELSE MonthLength(n)
             z == IF a.d <= MonthLength(n + 1) THEN a.d ELSE MonthLength(n + 1)
  <2>1. n \in Int /\ n + 1 \in Int /\ n + 1 = N(anchor) + (k + 1)
    <3> DEFINE q == N(anchor)
    <3>1. q \in Int BY <1>2
    <3> HIDE DEF q
    <3>2. q + k \in Int /\ q + k + 1 \in Int /\ q + k + 1 = q + (k + 1) BY <3>1
    <3>3. QED BY <3>2 DEF q
  <2>2. BucketStart(k, anchor, rule) = MonthStart(n) + x - 1 BY <1>5
  <2>3. BucketStart(k + 1, anchor, rule) = MonthStart(n + 1) + z - 1
    <3>1. k + 1 \in Int OBVIOUS
    <3> HIDE DEF n
    <3>2. QED BY <1>5, <2>1, <3>1
  <2> HIDE DEF n
  <2>4. /\ MonthLength(n) \in Int /\ MonthLength(n + 1) \in Int /\ 28 <= MonthLength(n + 1)
        /\ MonthStart(n + 1) = MonthStart(n) + MonthLength(n)
        /\ MonthStart(n) \in Int BY <2>1, MonthOrder, MonthStartParts
  <2>5. x \in Int /\ x <= MonthLength(n) BY <1>6, <2>4
  <2>6. z \in Int /\ 1 <= z BY <1>6, <2>4
  <2> HIDE DEF x, z
  <2>7. QED BY <2>2, <2>3, <2>4, <2>5, <2>6
<1>8. BucketStart(0, anchor, rule) = anchor
  <2>1. N(anchor) = N(anchor) + 0 BY <1>2
  <2>2. BucketStart(0, anchor, rule) = MonthStart(N(anchor))
          + (IF a.d <= MonthLength(N(anchor)) THEN a.d ELSE MonthLength(N(anchor))) - 1 BY <1>5, <2>1
  <2>3. QED BY <1>6, <2>2
<1>9. BucketsInOrder(anchor, rule)
  <2>1. \A t \in Int : BucketOf(t, anchor, rule) \in Int BY <1>2, <1>3
  <2>2. \A t, u \in Int : t <= u => BucketOf(t, anchor, rule) <= BucketOf(u, anchor, rule) BY <1>2, <1>3, <1>4
  <2>3. BucketOf(anchor, anchor, rule) = 0 BY <1>2, <1>3
  <2>4. QED BY <1>7, <1>8, <2>1, <2>2, <2>3 DEF BucketsInOrder
<1>10. ASSUME NEW k \in Int, NEW n, n = N(anchor) + k
       PROVE  /\ n \in Int /\ BucketStart(k, anchor, rule) \in Int
              /\ MonthStart(n) <= BucketStart(k, anchor, rule)
              /\ BucketStart(k, anchor, rule) < MonthStart(n + 1)
  <2> DEFINE x == IF a.d <= MonthLength(n) THEN a.d ELSE MonthLength(n)
  <2>1. n \in Int /\ BucketStart(k, anchor, rule) = MonthStart(n) + x - 1 BY <1>5, <1>10
  <2>2. /\ MonthLength(n) \in Int /\ 28 <= MonthLength(n) /\ MonthStart(n) \in Int
        /\ MonthStart(n + 1) = MonthStart(n) + MonthLength(n) BY <2>1, MonthOrder, MonthStartParts
  <2>3. x \in Int /\ 1 <= x /\ x <= MonthLength(n) BY <1>6, <2>2
  <2> HIDE DEF x
  <2>4. QED BY <2>1, <2>2, <2>3
<1>11. ASSUME NEW t \in Int, NEW n \in Int, MonthStart(n) <= t, t < MonthStart(n + 1)
       PROVE  N(t) = n
  <2> DEFINE p == N(t)
  <2>1. p \in Int /\ MonthStart(p) <= t /\ t < MonthStart(p + 1) BY <1>2
  <2> HIDE DEF p
  <2>2. p + 1 \in Int /\ n + 1 \in Int BY <2>1
  <2>3. /\ MonthStart(p) \in Int /\ MonthStart(p + 1) \in Int
        /\ MonthStart(n) \in Int /\ MonthStart(n + 1) \in Int BY <2>1, <2>2, MonthStartParts
  <2>4. p + 1 < n => MonthStart(p + 1) < MonthStart(n) BY <2>2, MonthOrder
  <2>5. n + 1 < p => MonthStart(n + 1) < MonthStart(p) BY <2>1, <2>2, MonthOrder
  <2>6. p + 1 = n => MonthStart(p + 1) = MonthStart(n) OBVIOUS
  <2>7. n + 1 = p => MonthStart(n + 1) = MonthStart(p) OBVIOUS
  <2>8. p = n \/ p + 1 = n \/ n + 1 = p \/ p + 1 < n \/ n + 1 < p BY <2>1
  <2>9. p = n BY <1>11, <2>1, <2>3, <2>4, <2>5, <2>6, <2>7, <2>8
  <2>10. QED BY <2>9 DEF p
<1>12. ASSUME NEW t \in Int PROVE BucketHolds(t, anchor, rule)
  <2> DEFINE k == BucketOf(t, anchor, rule)  s == BucketStart(k, anchor, rule)  z == BucketStart(k + 1, anchor, rule)
  <2>1. k \in Int /\ N(t) = N(anchor) + k /\ N(t) + 1 = N(anchor) + (k + 1)
    <3> DEFINE p == N(t)  q == N(anchor)
    <3>1. p \in Int /\ q \in Int /\ k = p - q BY <1>2, <1>3
    <3> HIDE DEF p, q, k
    <3>2. k \in Int /\ p = q + k /\ p + 1 = q + (k + 1) BY <3>1
    <3>3. QED BY <3>2 DEF p, q
  <2> HIDE DEF k
  <2>2. s \in Int /\ MonthStart(N(t)) <= s /\ s < MonthStart(N(t) + 1) BY <1>10, <2>1
  <2>3. z \in Int /\ MonthStart(N(t) + 1) <= z
    <3> DEFINE n == N(t) + 1
    <3>1. n = N(anchor) + (k + 1) /\ k + 1 \in Int BY <2>1
    <3> HIDE DEF n
    <3>2. z \in Int /\ MonthStart(n) <= z BY <1>10, <3>1
    <3>3. QED BY <3>2 DEF n
  <2> HIDE DEF s, z
  <2>4. N(t) \in Int /\ N(t) + 1 \in Int /\ t < MonthStart(N(t) + 1)
    <3>1. N(t) \in Int BY <1>2
    <3>2. QED BY <1>2, <3>1
  <2>5. t < z
    <3>1. MonthStart(N(t) + 1) \in Int BY <2>4, MonthStartParts
    <3>2. QED BY <2>3, <2>4, <3>1
  <2>6. N(s) = N(t) BY <1>11, <2>2, <2>4
  <2>7. SameMonth(t, s) BY <1>2, <2>2, <2>6 DEF SameMonth
  <2>8. QED BY <1>1, <2>5, <2>7 DEF BucketHolds, k, s, z
<1>13. QED BY <1>9, <1>12

(* Buckets that are in order and hold what belongs to them partition the    *)
(* rows of a column of times that are not null.                             *)
LEMMA TimesPartition ==
  ASSUME NEW t, ColumnShape(t), t.cls = "DateTime", NEW rule, RuleOK(rule),
         \A anchor \in Int : BucketsInOrder(anchor, rule),
         \A anchor, u \in Int : BucketHolds(u, anchor, rule)
  PROVE  PartitionsTimes(t, rule)
<1> DEFINE r == NonNull(t)  s == NonNullValues(t)  ts == ToSet(s)  lo == Min(ts)  hi == Max(ts)
           R == ToSet(r)  V(i) == ValueAt(t, i)
           K(i) == BucketOf(V(i), lo, rule)
           n == BucketOf(hi, lo, rule) + 1
           B == BucketRows(t, rule)
           F == FlattenSeq(B)
           S(k) == {i \in R : K(i) = k - 1}
           starts == [k \in DOMAIN B |-> BucketStart(k - 1, lo, rule)]
<1>1. /\ Length(t) \in Nat /\ IsList(r) /\ R = {i \in 1..Length(t) : ~NullAt(t, i)}
      /\ Len(r) \in Nat /\ DOMAIN r = 1..Len(r)
  BY LengthNat, NonNullFacts, ListElim
<1>2. s = [k \in DOMAIN r |-> V(r[k])] BY Zenon DEF NonNullValues
<1>3. IsList(s) /\ Len(s) = Len(r) /\ DOMAIN s = 1..Len(r) /\ \A k \in 1..Len(s) : s[k] \in Int
  <2>1. s = [k \in 1..Len(r) |-> s[k]] BY <1>1, <1>2
  <2>2. IsList(s) /\ Len(s) = Len(r) /\ DOMAIN s = 1..Len(r) BY <1>1, <2>1, ListIntro
  <2>3. \A i : V(i) \in Int BY TimeAt
  <2>4. QED BY <1>1, <1>2, <2>2, <2>3
<1>4. B = IF ts = {} THEN <<>> ELSE [k \in 1..n |-> RowsIn(Length(t), S(k))] BY Zenon DEF BucketRows
<1>5. BucketStarts(t, rule).vals = starts
  <2>1. BucketStarts(t, rule) = Whole("DateTime", starts) BY Zenon DEF BucketStarts
  <2> HIDE DEF starts
  <2>2. QED BY <2>1 DEF Whole, Column
<1>6. \A i \in R : V(i) \in ts
  <2> SUFFICES ASSUME NEW i \in R PROVE V(i) \in ts OBVIOUS
  <2>1. PICK k \in 1..Len(r) : r[k] = i BY <1>1, MemberOfList
  <2>2. k \in 1..Len(s) /\ s[k] = V(i) BY <1>1, <1>2, <1>3, <2>1
  <2> HIDE DEF s, V
  <2>3. QED BY <1>3, <2>2, MemberOfList
<1>7. ts = {} => r = <<>> /\ R = {}
  <2> SUFFICES ASSUME ts = {} PROVE r = <<>> /\ R = {} OBVIOUS
  <2>1. R = {} BY <1>6
  <2>2. ~\E k \in 1..Len(r) : TRUE BY <1>1, <2>1, MemberOfList
  <2>3. Len(r) = 0
    <3>1. Len(r) # 0 => 1 \in 1..Len(r) BY <1>1
    <3>2. QED BY <2>2, <3>1
  <2> HIDE DEF r
  <2>4. QED BY <1>1, <2>1, <2>3, EmptyIff
<1> HIDE DEF s, r
<1>8. ts # {} => /\ ts \subseteq Int /\ lo \in ts /\ hi \in ts
                 /\ \A y \in ts : lo <= y /\ y <= hi
  <2> SUFFICES ASSUME ts # {}
               PROVE  ts \subseteq Int /\ lo \in ts /\ hi \in ts /\ \A y \in ts : lo <= y /\ y <= hi OBVIOUS
  <2>1. Len(s) # 0
    <3>1. s # <<>> BY EmptyList
    <3>2. QED BY <1>3, <3>1, EmptyIff
  <2>2. /\ \E m \in ts : \A y \in ts : m <= y
        /\ \E m \in ts : \A y \in ts : m >= y
        /\ ts \subseteq Int BY <1>3, <2>1, Extremes
  <2> HIDE DEF ts
  <2>3. lo \in ts /\ \A y \in ts : lo <= y BY <2>2 DEF Min
  <2>4. hi \in ts /\ \A y \in ts : hi >= y BY <2>2 DEF Max
  <2>5. \A y \in ts : y <= hi BY <2>2, <2>4
  <2>6. QED BY <2>2, <2>3, <2>4, <2>5
<1> HIDE DEF ts, lo, hi, V
<1>9. ts # {} => /\ lo \in Int /\ BucketsInOrder(lo, rule)
                 /\ n \in Nat \ {0} /\ \A i \in R : V(i) \in Int /\ K(i) \in 0..(n - 1)
  <2> SUFFICES ASSUME ts # {}
               PROVE  /\ lo \in Int /\ BucketsInOrder(lo, rule)
                      /\ n \in Nat \ {0} /\ \A i \in R : V(i) \in Int /\ K(i) \in 0..(n - 1) OBVIOUS
  <2>1. lo \in Int /\ hi \in Int /\ lo <= hi BY <1>8
  <2>2. BucketsInOrder(lo, rule) BY <2>1
  <2>3. /\ \A u \in Int : BucketOf(u, lo, rule) \in Int
        /\ \A u, v \in Int : u <= v => BucketOf(u, lo, rule) <= BucketOf(v, lo, rule)
        /\ BucketOf(lo, lo, rule) = 0 BY <2>2 DEF BucketsInOrder
  <2>4. n \in Nat \ {0}
    <3>1. BucketOf(hi, lo, rule) \in Int /\ 0 <= BucketOf(hi, lo, rule) BY <2>1, <2>3
    <3>2. QED BY <3>1
  <2>5. ASSUME NEW i \in R PROVE V(i) \in Int /\ K(i) \in 0..(n - 1)
    <3>1. V(i) \in Int /\ lo <= V(i) /\ V(i) <= hi BY <1>6, <1>8
    <3>2. K(i) \in Int /\ 0 <= K(i) /\ K(i) <= BucketOf(hi, lo, rule) /\ BucketOf(hi, lo, rule) \in Int
      BY <2>1, <2>3, <3>1
    <3>3. QED BY <3>1, <3>2
  <2>6. QED BY <2>1, <2>2, <2>4, <2>5
<1>10. /\ IsList(B) /\ DOMAIN B = 1..Len(B) /\ Len(B) \in Nat
       /\ Len(B) = IF ts = {} THEN 0 ELSE n
       /\ \A k \in 1..Len(B) : Ascends(B[k]) /\ ToSet(B[k]) = S(k)
  <2>1. CASE ts = {}
    <3>1. B = <<>> BY <1>4, <2>1
    <3> HIDE DEF B
    <3>2. QED BY <2>1, <3>1, EmptyList, ListElim
  <2>2. CASE ts # {}
    <3>1. B = [k \in 1..n |-> RowsIn(Length(t), S(k))] BY <1>4, <2>2
    <3>2. \A k : Ascends(RowsIn(Length(t), S(k))) /\ ToSet(RowsIn(Length(t), S(k))) = (1..Length(t)) \intersect S(k)
      BY <1>1, RowsInAscends
    <3>3. \A k : (1..Length(t)) \intersect S(k) = S(k) BY <1>1
    <3>4. n \in Nat BY <1>9, <2>2
    <3> HIDE DEF B, S, n
    <3>5. B = [k \in 1..n |-> B[k]] BY <3>1
    <3>6. IsList(B) /\ Len(B) = n /\ DOMAIN B = 1..n BY <3>4, <3>5, ListIntro
    <3>7. QED BY <2>2, <3>1, <3>2, <3>3, <3>4, <3>6
  <2>3. QED BY <2>1, <2>2
<1> HIDE DEF B, n, K, R
<1>11. Len(starts) = Len(B) /\ \A k \in 1..Len(B) : starts[k] = BucketStart(k - 1, lo, rule)
  <2>1. starts = [k \in 1..Len(B) |-> starts[k]] BY <1>10
  <2>2. \A k \in 1..Len(B) : starts[k] = BucketStart(k - 1, lo, rule) BY <1>10
  <2> HIDE DEF starts
  <2>3. Len(starts) = Len(B) BY <1>10, <2>1, ListIntro
  <2>4. QED BY <2>2, <2>3
<1> HIDE DEF starts
<1>12. \A k \in 2..Len(starts) : starts[k - 1] < starts[k]
  <2> SUFFICES ASSUME NEW k \in 2..Len(B) PROVE starts[k - 1] < starts[k] BY <1>11
  <2>1. ts # {} BY <1>10
  <2>2. \A l \in Int : BucketStart(l, lo, rule) < BucketStart(l + 1, lo, rule)
    <3>1. BucketsInOrder(lo, rule) BY <1>9, <2>1
    <3>2. QED BY <3>1, Zenon DEF BucketsInOrder
  <2>3. k - 1 \in 1..Len(B) /\ k \in 1..Len(B) /\ k - 1 - 1 \in Int /\ (k - 1 - 1) + 1 = k - 1
    <3> DEFINE m == Len(B)
    <3>1. m \in Nat /\ k \in 2..m BY <1>10
    <3> HIDE DEF m
    <3>2. k \in Int /\ 2 <= k /\ k <= m BY <3>1
    <3>3. k - 1 \in 1..m /\ k \in 1..m /\ k - 1 - 1 \in Int /\ (k - 1 - 1) + 1 = k - 1 BY <3>1, <3>2
    <3>4. QED BY <3>3 DEF m
  <2>4. starts[k - 1] = BucketStart(k - 1 - 1, lo, rule) /\ starts[k] = BucketStart(k - 1, lo, rule) BY <1>11, <2>3
  <2>5. BucketStart(k - 1 - 1, lo, rule) < BucketStart((k - 1 - 1) + 1, lo, rule) BY <2>2, <2>3
  <2>6. QED BY <2>3, <2>4, <2>5
<1>13. r # <<>> => starts[1] = lo
  <2> SUFFICES ASSUME r # <<>> PROVE starts[1] = lo OBVIOUS
  <2>1. ts # {} BY <1>7
  <2>2. 1 \in 1..Len(B) BY <1>9, <1>10, <2>1
  <2>3. starts[1] = BucketStart(1 - 1, lo, rule) BY <1>11, <2>2
  <2>4. 1 - 1 = 0 OBVIOUS
  <2>5. BucketStart(0, lo, rule) = lo BY <1>9, <2>1 DEF BucketsInOrder
  <2>6. QED BY <2>3, <2>4, <2>5
<1>14. ToSet(F) = R /\ Len(F) = Len(r)
  <2>1. \A k \in 1..Len(B) : IsList(B[k]) /\ Apart(B[k]) BY <1>10, AscendsApart
  <2>2. \A a, b \in 1..Len(B) : a < b => \A x \in ToSet(B[a]), y \in ToSet(B[b]) : x # y
    <3> SUFFICES ASSUME NEW a \in 1..Len(B), NEW b \in 1..Len(B), a < b, NEW x \in ToSet(B[a]), x \in ToSet(B[b])
                 PROVE  FALSE OBVIOUS
    <3>1. K(x) = a - 1 /\ K(x) = b - 1 BY <1>10
    <3>2. QED BY <1>10, <3>1
  <2>3. IsList(F) /\ ToSet(F) = UNION {ToSet(B[k]) : k \in 1..Len(B)} /\ Apart(F) BY <1>10, <2>1, <2>2, FlattenApart
  <2> HIDE DEF F
  <2>4. \A i \in R : \E k \in 1..Len(B) : i \in ToSet(B[k])
    <3> SUFFICES ASSUME NEW i \in R PROVE \E k \in 1..Len(B) : i \in ToSet(B[k]) OBVIOUS
    <3>1. ts # {} BY <1>7
    <3> DEFINE j == K(i)
    <3>2. j \in 0..(n - 1) /\ n \in Nat BY <1>9, <3>1
    <3>3. Len(B) = n BY <1>10, <3>1
    <3>4. j + 1 \in 1..Len(B) /\ j = (j + 1) - 1
      <4> HIDE DEF j
      <4>1. QED BY <3>2, <3>3
    <3>5. i \in S(j + 1) BY <3>4
    <3> HIDE DEF j, S
    <3>6. QED BY <1>10, <3>4, <3>5
  <2>5. \A k \in 1..Len(B) : \A i \in ToSet(B[k]) : i \in R BY <1>10
  <2>6. ToSet(F) = R BY <2>3, <2>4, <2>5
  <2>7. Cardinality(R) = Len(F) BY <2>3, <2>6, ApartCounts
  <2>8. Ascends(r) BY <1>1, RowsInAscends DEF r, NonNull
  <2>9. Cardinality(R) = Len(r) BY <2>8, AscendsApart, ApartCounts DEF R
  <2>10. QED BY <2>6, <2>7, <2>9
<1>15. ASSUME NEW k \in DOMAIN B, NEW i \in ToSet(B[k])
       PROVE  /\ V(i) < BucketStart(k, lo, rule)
              /\ IF Calendar(rule) THEN SameMonth(V(i), starts[k]) ELSE starts[k] <= V(i)
  <2>1. k \in 1..Len(B) /\ ts # {} BY <1>10
  <2>2. i \in R /\ K(i) = k - 1 BY <1>10, <2>1
  <2>3. V(i) \in Int /\ lo \in Int BY <1>9, <2>1, <2>2
  <2>4. BucketHolds(V(i), lo, rule) BY <2>3
  <2>5. starts[k] = BucketStart(k - 1, lo, rule) /\ (k - 1) + 1 = k BY <1>11, <2>1
  <2>6. BucketOf(V(i), lo, rule) = k - 1 BY <2>2 DEF K
  <2>7. QED BY <2>4, <2>5, <2>6 DEF BucketHolds
<1>16. QED BY <1>5, <1>12, <1>13, <1>14, <1>15, Zenon DEF PartitionsTimes, r, s, ts, lo, V, B, R

(* The buckets that resample and resample_index gather rows into start at   *)
(* the earliest time, come in order, hold every row that has a time in one  *)
(* bucket and no time that is not before the next start; by weeks none that *)
(* is before their own, by months only times of the month they start in, in *)
(* every frame a session can make (builtins.rs, df_resample).               *)
THEOREM BucketsPartitionSafe == Spec => []BucketsPartition
<1>1. TwinsInv => BucketsPartition
  <2> SUFFICES ASSUME TwinsInv, "t" \in Of({"DateTime"}), NEW rule \in {Weekly, Monthly}
               PROVE  PartitionsTimes(ColumnOf(f1, "t"), rule)
    BY DEF BucketsPartition
  <2> DEFINE t == ColumnOf(f1, "t")
  <2>1. HasColumn(f1, "t") /\ t.cls = "DateTime" BY OfNames DEF f1
  <2>2. Twin(f1, df[2], counted) BY DEF TwinsInv, f1
  <2>3. ColumnShape(t) BY <2>1, <2>2, ColumnOfTwin, ShapeOf
  <2>4. RuleOK(rule) /\ rule.n = 1 /\ (rule.unit = "w" \/ rule.unit = "M") BY DEF RuleOK, Weekly, Monthly
  <2>5. \A anchor \in Int : BucketsInOrder(anchor, rule) BY <2>4, WeekBuckets, MonthBuckets
  <2>6. \A anchor, u \in Int : BucketHolds(u, anchor, rule) BY <2>4, WeekBuckets, MonthBuckets
  <2> HIDE DEF t
  <2>7. PartitionsTimes(t, rule) BY <2>1, <2>3, <2>4, <2>5, <2>6, TimesPartition
  <2>8. QED BY <2>7 DEF t
<1>2. QED BY <1>1, TwinsSafe, PTL

(* Both ways to gather rows keep each of them once and apart by what they   *)
(* show, in every frame a session can make whose texts tell its keys apart. *)
THEOREM RowsPartitionSafe == Spec => [](KeysTell => RowsPartition)
<1>1. GroupsPartition /\ BucketsPartition => RowsPartition BY DEF RowsPartition
<1>2. QED BY <1>1, GroupsPartitionSafe, BucketsPartitionSafe, PTL
=============================================================================
