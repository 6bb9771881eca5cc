------------------------------ MODULE Notebook ------------------------------
(***************************************************************************)
(* A program at work on data frames: each step is one call of the tabular  *)
(* package on the current frame, or on it and on a second one (named).     *)
(*                                                                         *)
(* Two copies of the program run side by side.  They start from frames     *)
(* that differ only in the values that lie under the null cells, and make  *)
(* the same calls: what one can see, the other must see.                   *)
(***************************************************************************)
EXTENDS Loading

CONSTANTS
  Starts,     \* the frames the program may start from
  Companions, \* the second frames it may start with
  MaxCalls,   \* bound on the calls
  MaxRows     \* bound on the rows of a frame

ASSUME NotebookAssumption ==
  /\ MaxCalls \in Nat
  /\ MaxRows \in Nat
  /\ Numbers \subseteq Int
  /\ \A f \in Starts \union Companions : FrameShape(f) /\ Even(f)

VARIABLES
  df,      \* the current frame of each copy
  named,   \* the second frame of each copy
  origin,  \* the rows the current frame may be made of, as sets of cells
  whole,   \* the calls so far move rows and columns and make no cell
  counted, \* the calls so far joined the rows of no frames without columns
  calls    \* how many calls there have been

vars == <<df, named, origin, whole, counted, calls>>

Copies == {1, 2}

------------------------------------------------------------------------------
(* What a program can see of a frame.                                       *)

Columns(f) == f.cols \o f.ix.levels
Cell(c, i) == <<c.cls, Get(c, i)>>
Visible(f) ==
  [names |-> f.names, nrows |-> f.nrows, index |-> f.ix.names, multi |-> f.ix.multi,
   cells |-> [k \in DOMAIN Columns(f) |->
                [i \in 1..Length(Columns(f)[k]) |-> Cell(Columns(f)[k], i)]]]

(* A categorical also shows as what taking rows and setting an index leave  *)
(* of it.                                                                   *)
Faces(c, i) ==
  {Cell(c, i)} \union
    IF c.cls # "Cat" THEN {}
    ELSE {<<"Cat", IF NullAt(c, i) THEN None ELSE "">>, <<"I64", IF NullAt(c, i) THEN None ELSE 0>>}
RowFaces(f) ==
  {UNION {Faces(Columns(f)[k], i) : k \in DOMAIN Columns(f)} : i \in 1..f.nrows}

(* The same frame with other values under its null cells. *)
Other(cls) ==
  CASE cls = "Str"  -> "b"
    [] cls = "Bool" -> TRUE
    [] cls = "F64"  -> <<7, 1>>
    [] cls = "Cat"  -> 1
    [] OTHER        -> 9
HideIn(c) ==
  [cls |-> c.cls, nulls |-> c.nulls, cats |-> c.cats,
   vals |-> [i \in DOMAIN c.vals |-> IF NullAt(c, i) THEN Other(c.cls) ELSE c.vals[i]]]
Hide(f) ==
  Frame(f.names, [k \in DOMAIN f.cols |-> HideIn(f.cols[k])], f.nrows,
        WithLevels(f.ix, [k \in DOMAIN f.ix.levels |-> HideIn(f.ix.levels[k])]))
Pair(f) == [r \in Copies |-> IF r = 1 THEN f ELSE Hide(f)]

Init ==
  /\ \E f \in Starts : df = Pair(f) /\ origin = RowFaces(f)
  /\ \E g \in Companions : named = Pair(g)
  /\ whole = TRUE
  /\ counted = TRUE
  /\ calls = 0

------------------------------------------------------------------------------
(* Calls.  The arguments that matter little are fixed.                      *)

f1 == df[1]
g1 == named[1]
Names == ToSet(f1.names)
Of(cls) == {n \in Names : ColumnOf(f1, n).cls \in cls}

Call(Op(_, _), keepsRows, countsRows) ==
  /\ calls < MaxCalls
  /\ df' = [r \in Copies |-> Op(df[r], named[r])]
  /\ df'[1].nrows <= MaxRows
  /\ calls' = calls + 1
  /\ whole' = (whole /\ keepsRows)
  /\ counted' = (counted /\ countsRows)
  /\ UNCHANGED <<named, origin>>
Move(Op(_)) == Call(LAMBDA f, g : Op(f), TRUE, TRUE)
Make(Op(_)) == Call(LAMBDA f, g : Op(f), FALSE, TRUE)
With(Op(_, _)) == Call(Op, FALSE, TRUE)

(* The current frame becomes the second one as well. *)
Keep ==
  /\ calls < MaxCalls
  /\ named # df
  /\ named' = df
  /\ calls' = calls + 1
  /\ UNCHANGED <<df, origin, whole, counted>>

Probe(cls) ==
  CASE cls = "Str" -> "a" [] cls = "F64" -> <<1, 1>> [] cls = "Bool" -> FALSE [] OTHER -> 2
MaskOf(f, name, how) ==
  LET c == ColumnOf(f, name)
      gt == Compare(c, "gt", Probe(c.cls))
      eq == Compare(c, "eq", Probe(c.cls))
  IN  CASE how = "lt"  -> Compare(c, "lt", Probe(c.cls))
        [] how = "not" -> MaskNot(gt)
        [] how = "or"  -> MaskOr(gt, eq)
        [] how = "and" -> MaskAnd(MaskNot(gt), MaskNot(eq))
Ordered == {"I64", "F64", "Str", "DateTime"}

FilterRows == \E n \in Of(Ordered), how \in {"lt", "not", "or", "and"} :
  FilterOK(f1, MaskOf(f1, n, how)) /\ Move(LAMBDA f : Filter(f, MaskOf(f, n, how)))
SliceRows ==
  \/ Move(LAMBDA f : HeadRows(f, 2))
  \/ Move(LAMBDA f : TailRows(f, 2))
  \/ Move(LAMBDA f : ILoc(f, -2, 9))
  \/ Move(LAMBDA f : ILoc2D(f, 1, 9, 0, -1))
DropRows ==
  \/ Move(LAMBDA f : DropNa(f, ToSet(f.names)))
  \/ \E n \in Names : Move(LAMBDA f : DropNa(f, {n}))
SortRowsBy == \E n \in Names, up \in BOOLEAN : Move(LAMBDA f : SortBy(f, n, up))
SortRowsByIndex == \E up \in BOOLEAN :
  f1.ix.levels # <<>> /\ Move(LAMBDA f : SortIndex(f, up))
LabelClasses == {"I64", "Str", "DateTime"}
Locate ==
  \/ /\ IsMulti(f1) /\ Last(f1.ix.levels).cls \in LabelClasses
     /\ LET x == Probe(Last(f1.ix.levels).cls) IN Move(LAMBDA f : LocRangeMulti(f, x, x))
  \/ /\ IsSingle(f1) /\ f1.ix.levels[1].cls \in LabelClasses
     /\ LET x == Probe(f1.ix.levels[1].cls)
        IN  \/ Move(LAMBDA f : LocRange(f, x, x))
            \/ LabelRow(f1, x) # 0 /\ Move(LAMBDA f : SelectByLabel(f, x))

ChooseColumns ==
  \/ \E n \in Names : Move(LAMBDA f : Select(f, <<n>>))
  \/ \E n \in Names : Move(LAMBDA f : Drop(f, {n}))
  \/ \E n \in Names : Move(LAMBDA f : Rename(f, n, "z"))
MoveIndex ==
  \/ \E n \in Names : SetIndexOK(f1) /\ Move(LAMBDA f : SetIndex(f, n))
  \/ \E m, n \in Names : m # n /\ SetIndexMultiOK(f1) /\ Move(LAMBDA f : SetIndexMulti(f, <<m, n>>))
  \/ Move(ResetIndex)
  \/ Move(ResetIndexMulti)
FillNulls ==
  \/ Make(LAMBDA f : FillNa(f, "I64", 2))
  \/ Make(LAMBDA f : FillNa(f, "Str", "a"))
Concat ==
  \/ ConcatRowsOK(f1, g1) /\ Call(ConcatRows, named = df /\ f1.cols # <<>>, f1.cols # <<>>)
  \/ ConcatColsOK(f1, g1) /\ With(ConcatCols)
  \/ MergeOK(f1, g1, <<"k">>) /\ SameKeyClasses(f1, g1, <<"k">>) /\ \E how \in Hows : With(LAMBDA f, g : Merge(f, g, <<"k">>, how))
  \/ AsofMergeOK(f1, g1, "t", "t") /\ With(LAMBDA f, g : AsofMerge(f, g, "t", "t"))
  \/ AsofMergeIndexOK(f1, g1) /\ With(AsofMergeIndex)

GroupNames == {<<n>> : n \in Names} \union ({<<"k", "c">>, <<"k", "t">>} \cap (Names \X Names))
Summarise == \E names \in GroupNames :
  \/ Make(LAMBDA f : Size(GroupBy(f, names)))
  \/ Make(LAMBDA f : Keys(GroupBy(f, names)))
  \/ \E agg \in {"sum", "max"} : Make(LAMBDA f : AggShortcut(GroupBy(f, names), agg))
  \/ \E specs \in {<<<<"x", "mean">>, <<"k", "count">>>>} :
       AggOK(GroupBy(f1, names), specs) /\ Make(LAMBDA f : Agg(GroupBy(f, names), specs))
  \/ Len(names) = 1 /\ Make(LAMBDA f : ValueCounts(f, names[1]))
Widen == {"k", "t", "x"} \subseteq Names /\
  \/ PivotOK(f1, "k", "t") /\ Make(LAMBDA f : Pivot(f, "k", "t", "x"))
  \/ PivotTableOK(f1, "x", "sum") /\ Make(LAMBDA f : PivotTableMargins(f, "k", "t", "x", "sum"))
  \/ PivotTableOK(f1, "x", "sum") /\ Make(LAMBDA f : PivotTableList(f, "k", "t", "x", <<"sum", "count">>))
Lengthen ==
  \/ MeltOK(f1, <<"k">>, <<"x">>) /\ Make(LAMBDA f : Melt(f, <<"k">>, <<"x">>))
  \/ StackOK(f1) /\ Make(Stack)
  \/ UnstackOK(f1) /\ Make(Unstack)

Weekly == [n |-> 1, unit |-> "w"]
Monthly == [n |-> 1, unit |-> "M"]
InBuckets ==
  \/ \E rule \in {Weekly, Monthly} : "t" \in Of({"DateTime"}) /\
       Make(LAMBDA f : Resample(f, "t", rule, "mean"))
  \/ ResampleIndexOK(f1) /\ Make(LAMBDA f : ResampleIndex(f, Weekly, "sum"))
InWindows ==
  \/ RollingWindowOK(f1, 2, 1) /\ Make(LAMBDA f : RollingFrame(f, 2, 1, TRUE, "count"))
  \/ \E n \in Of({"I64"}) : RollingOK(ColumnOf(f1, n), 2) /\
       Make(LAMBDA f : FromColumns(<<"x", "r">>,
              <<Cumulative(ColumnOf(f, n), "sum"), Rolling(ColumnOf(f, n), 2, "mean")>>))
Categories ==
  \/ \E n \in Of({"Cat"}) : Make(LAMBDA f : FromColumns(<<"k">>, <<CatToStrings(ColumnOf(f, n))>>))
  \/ \E n \in Of({"Str"}) : Make(LAMBDA f : FromColumns(<<"c">>,
       <<CatOf([i \in 1..Length(ColumnOf(f, n)) |-> ValueAt(ColumnOf(f, n), i)], ColumnOf(f, n).nulls)>>))

Schema(f) == [k \in DOMAIN f.names |-> <<f.names[k], f.cols[k].cls>>]
ReadBack ==
  /\ Of({"Cat"}) = {}
  /\ ReadCsvOK(WriteCsv(f1), Schema(f1))
  /\ Make(LAMBDA f : ReadCsv(WriteCsv(f), Schema(f)))

Next ==
  \/ Keep \/ FilterRows \/ SliceRows \/ DropRows \/ SortRowsBy \/ SortRowsByIndex \/ Locate
  \/ ChooseColumns \/ MoveIndex \/ FillNulls \/ Concat \/ Summarise \/ Widen \/ Lengthen
  \/ InBuckets \/ InWindows \/ Categories \/ ReadBack

Spec == Init /\ [][Next]_vars

------------------------------------------------------------------------------
(* Properties.                                                              *)

Categoricals(cols) == {k \in DOMAIN cols : cols[k].cls = "Cat"}
Intact(c) ==   \* not a categorical that lost its categories
  c.cls = "Cat" =>
    \A i \in 1..Length(c) : ~c.nulls[i] => i \in DOMAIN c.vals /\
      \E k \in DOMAIN c.cats : c.vals[i] = k - 1 /\ Position(c.cats, c.cats[k]) = k

(* Every operation that builds a frame gives a name to each column and each *)
(* level and makes them of one length, the row count (build_df_with_index,  *)
(* build_df_with_multiindex).  The one that does not is concat_rows of      *)
(* frames without columns: it counts the rows of the first column, joins    *)
(* the indexes all the same, and reset_index then makes a column longer     *)
(* than the frame.                                                          *)
WellFormed == FrameShape(f1) /\ (counted => Even(f1))

(* What lies under a null cell can never be seen: no sequence of calls on   *)
(* frames that differ only there returns frames that differ in a cell, a    *)
(* name, a row or their order.                                              *)
NullsOpaque == Visible(df[1]) = Visible(df[2])

(* Calls that choose and move rows and columns, the index included, keep    *)
(* the cells of a row together: every row is made of cells of one row that  *)
(* the program started with.                                                *)
RowsKeepTogether ==
  whole => \A i \in 1..f1.nrows : \E row \in origin :
    \A k \in DOMAIN Columns(f1) : Cell(Columns(f1)[k], i) \in row

(* The text by which rows are grouped and merged, the cells of their keys   *)
(* joined by a separator with a mark for a null, tells rows with different  *)
(* keys apart; a time is a number, and no cell that is there shows None.    *)
ShowsSame(l, r, names, i, j) ==
  \A k \in DOMAIN names : Get(ColumnOf(l, names[k]), i) = Get(ColumnOf(r, names[k]), j)
NullsShow(f, names) ==
  \A k \in DOMAIN names : \A i \in 1..f.nrows :
    Get(ColumnOf(f, names[k]), i) = None => NullAt(ColumnOf(f, names[k]), i)
TextsTell(l, r, names) ==
  \A i \in 1..l.nrows, j \in 1..r.nrows :
    RowKey(KeyColumns(l, names), i) = RowKey(KeyColumns(r, names), j) <=> ShowsSame(l, r, names, i, j)
WholeTimes(f) == \A i \in 1..f.nrows : Get(ColumnOf(f, "t"), i) \in Int \union {None}
KeysTell ==
  /\ \A names \in GroupNames : TextsTell(f1, f1, names) /\ NullsShow(f1, names)
  /\ MergeOK(f1, g1, <<"k">>) => TextsTell(f1, g1, <<"k">>) /\ NullsShow(g1, <<"k">>)
  /\ AsofMergeOK(f1, g1, "t", "t") => /\ WholeTimes(f1) /\ NullsShow(f1, <<"t">>)
                                     /\ WholeTimes(g1) /\ NullsShow(g1, <<"t">>)

(* merge is the relational join: hash lookups, codes or text keys, and the  *)
(* order in which rows are emitted come to the pairs of rows with the same  *)
(* non-null keys, each once, and the rows of the kept sides without a       *)
(* partner; the cells and the index of a row are those of its pair.  An     *)
(* asof_merge pairs a row with the last of the nearest rows before it, when *)
(* the frames have as many rows as they count.                              *)
JoinPairs(l, r, on, how) ==
  LET same(i, j) == \A k \in DOMAIN on :
        /\ Get(ColumnOf(l, on[k]), i) = Get(ColumnOf(r, on[k]), j)
        /\ Get(ColumnOf(l, on[k]), i) # None
      L == 1..l.nrows
      R == 1..r.nrows
  IN  {p \in L \X R : same(p[1], p[2])}
        \union (IF how \in {"left", "outer"}
                THEN {<<i, 0>> : i \in {i \in L : \A j \in R : ~same(i, j)}} ELSE {})
        \union (IF how \in {"right", "outer"}
                THEN {<<0, j>> : j \in {j \in R : \A i \in L : ~same(i, j)}} ELSE {})
JoinCell(l, r, on, name, p) ==
  LET got(f, i) == IF i = 0 THEN None ELSE Get(ColumnOf(f, name), i)
  IN  IF name \in ToSet(on) /\ p[1] = 0 THEN got(r, p[2])
      ELSE IF HasColumn(l, name) THEN got(l, p[1]) ELSE got(r, p[2])
JoinIndexCell(l, r, how, k, p) ==
  IF how = "right" \/ p[1] = 0 THEN Get(r.ix.levels[k], p[2]) ELSE Get(l.ix.levels[k], p[1])
AlikeIndexes(l, r) ==
  l.ix.multi = r.ix.multi /\ l.ix.levels # <<>> /\ Classes(l.ix.levels) = Classes(r.ix.levels)
AsofIsNearest(l, r) ==
  \A i \in 1..l.nrows :
    LET at(f, j) == Get(ColumnOf(f, "t"), j)
        upTo == {j \in 1..r.nrows : at(r, j) # None /\ at(l, i) # None /\ at(r, j) <= at(l, i)}
        nearest == {j \in upTo : \A k \in upTo : at(r, k) < at(r, j) \/ (at(r, k) = at(r, j) /\ k <= j)}
    IN  AsofPairs(ColumnOf(l, "t"), ColumnOf(r, "t"), l.nrows)[i]
          = <<i, IF nearest = {} THEN 0 ELSE CHOOSE j \in nearest : TRUE>>
MergeIsJoin ==
  LET l == f1
      r == g1
      on == <<"k">>
  IN  /\ counted /\ AsofMergeOK(l, r, "t", "t") => AsofIsNearest(l, r)
      /\ MergeOK(l, r, on) /\ Intact(ColumnOf(l, "k")) /\ Intact(ColumnOf(r, "k")) =>
           \A how \in Hows :
             LET pairs == Emit(l, r, on, how)
                 m == Merge(l, r, on, how)
                 plain(c) == c.cls # "Cat"
                 ixOf == IF how = "right" THEN r.ix ELSE l.ix
             IN  /\ ToSet(pairs) = JoinPairs(l, r, on, how)
                 /\ Len(pairs) = Cardinality(ToSet(pairs))
                 /\ \A p \in DOMAIN pairs :
                      /\ \A name \in ToSet(m.names) : plain(ColumnOf(m, name)) =>
                           Get(ColumnOf(m, name), p) = JoinCell(l, r, on, name, pairs[p])
                      /\ how # "outer" \/ AlikeIndexes(l, r) =>
                           \A k \in DOMAIN ixOf.levels : plain(ixOf.levels[k]) =>
                             Get(m.ix.levels[k], p) = JoinIndexCell(l, r, how, k, pairs[p])

(* Groups partition the rows by what their keys show, by codes and by text  *)
(* alike, a null key being a key; they come in the order of their first     *)
(* rows, and their rows in that of the frame.                               *)
IntactKeys(names) == \A k \in DOMAIN names : Intact(ColumnOf(f1, names[k]))
PartitionsRows(groups, f, names) ==
  /\ Len(FlattenSeq(groups)) = f.nrows
  /\ ToSet(FlattenSeq(groups)) = 1..f.nrows
  /\ \A a, b \in DOMAIN groups : \A i \in ToSet(groups[a]), j \in ToSet(groups[b]) :
       ShowsSame(f, f, names, i, j) <=> a = b
  /\ \A a, b \in DOMAIN groups : a < b => groups[a][1] < groups[b][1]
  /\ \A a \in DOMAIN groups : \A i, j \in DOMAIN groups[a] : i < j => groups[a][i] < groups[a][j]
GroupsPartition ==
  \A names \in GroupNames : IntactKeys(names) =>
    PartitionsRows(GroupBy(f1, names).groups, f1, names)

(* Counts, sums and the cells of a pivot table lose and repeat nothing, nor *)
(* do the margins of sums and extremes.                                     *)
ColumnTotal(c) == Total(c.cls, NonNullValues(c))
FrameTotal(cols) ==
  FoldLeft(LAMBDA x, y : Plus(cols[1].cls, x, y), Filler(cols[1].cls),
           [k \in DOMAIN cols |-> ColumnTotal(cols[k])])
Labelled(f, names) ==
  RowsIn(f.nrows, {i \in 1..f.nrows : \A n \in names : ~NullAt(ColumnOf(f, n), i)})
PivotConserves(x, kept, t, counts) ==
  t.cols # <<>> =>
    /\ FrameTotal(t.cols) = Total(x.cls, kept)
    /\ FrameTotal(counts.cols) = Len(kept)
CornerAggregates(cls, kept, m, agg) ==
  m.cols # <<>> => Get(Last(m.cols), m.nrows) = Aggregate(cls, kept, agg)
GroupingConserves(g, names) ==
  /\ ColumnTotal(Size(g).cols[1]) = g.parent.nrows
  /\ \A n \in Of({"I64", "F64"}) \ ToSet(names) :
       ColumnTotal(ColumnOf(AggShortcut(g, "sum"), n)) = ColumnTotal(ColumnOf(g.parent, n))
CanPivot == {"k", "t", "x"} \subseteq Names /\ "x" \in Of({"I64", "F64"}) /\ Intact(ColumnOf(f1, "k"))
LabelledValues == ValuesIn(ColumnOf(f1, "x"), Labelled(f1, {"k", "t"}))
GroupsConserve ==
  /\ \A names \in GroupNames : IntactKeys(names) => GroupingConserves(GroupBy(f1, names), names)
  /\ CanPivot =>
       /\ PivotConserves(ColumnOf(f1, "x"), LabelledValues, PivotTable(f1, "k", "t", "x", "sum"),
                         PivotTable(f1, "k", "t", "x", "count"))
       /\ \A agg \in {"sum", "min", "max"} :
            CornerAggregates(ColumnOf(f1, "x").cls, LabelledValues,
                             PivotTableMargins(f1, "k", "t", "x", agg), agg)

(* There and back: unstack undoes stack and pivot undoes melt when the      *)
(* labels of the rows are distinct, reset_index undoes set_index, read_csv  *)
(* recovers what write_csv wrote but for the strings that it writes as      *)
(* nulls, and the parser of csv texts what the writer quoted.  The text of  *)
(* a key tells the cells that it was made of.                               *)
DistinctRows(n, Label(_)) == \A i, j \in 1..n : Label(i) = Label(j) => i = j
Fields == SeqOf({Comma, Quote, LF, CR, "x"}, 2)
CsvRoundTrips ==
  \A a, b \in Fields :
    /\ CsvRows(CsvText(<<<<a, b>>>>)) = <<<<a, b>>>>
    /\ CsvRows(CsvText(<<<<a>>, <<b>>>>)) = <<<<a>>, <<b>>>>
    /\ CsvLine(CsvField(a) \o <<Comma>> \o CsvField(b)) = <<a, b>>
InInstance(c) == c.cls # "Str" => ToSet(NonNullValues(c)) \subseteq Values(c.cls)
Recovered(f) ==
  [f EXCEPT !.ix = NoIndex,
            !.cols = [k \in DOMAIN f.cols |->
              Filled(f.cols[k].cls, [i \in 1..f.nrows |->
                IF CellOut(f.cols[k], i) \in {"", "null"} THEN None ELSE Get(f.cols[k], i)])]]
RoundTrips ==
  /\ KeysTell
  /\ CsvRoundTrips
  /\ Of({"Cat"}) = {} /\ f1.cols # <<>> /\ (\A k \in DOMAIN f1.cols : InInstance(f1.cols[k])) =>
       /\ ReadCsvOK(WriteCsv(f1), Schema(f1))
       /\ Visible(ReadCsv(WriteCsv(f1), Schema(f1))) = Visible(Recovered(f1))
  /\ /\ StackOK(f1) /\ f1.ix.levels # <<>> /\ f1.nrows > 0
     /\ Categoricals(Columns(f1)) = {} /\ Len(f1.names) = Cardinality(Names)
     /\ IsMulti(f1) \/ f1.ix.names # <<"">>
     /\ DistinctRows(f1.nrows, LAMBDA i : [k \in DOMAIN f1.ix.levels |-> Get(f1.ix.levels[k], i)])
     => Unstack(Stack(f1)) = f1
  /\ \A id, v \in Names :
       /\ id # v /\ id \notin {"variable", "value"} /\ Categoricals(KeyColumns(f1, <<id, v>>)) = {} /\ f1.nrows > 0
       /\ DistinctRows(f1.nrows, LAMBDA i : Get(ColumnOf(f1, id), i))
       => LET f == [Select(f1, <<id, v>>) EXCEPT !.ix = NoIndex]
          IN  /\ Visible(Pivot(Melt(f, <<id>>, <<v>>), id, "variable", "value"))
                   = Visible(SetIndex(f, id))
              /\ Visible(ResetIndex(SetIndex(f, id))) = Visible(f)

(* The three implementations of rolling windows agree where they overlap,   *)
(* and a running aggregate is a window that reaches back to the first row.  *)
WindowsAgree ==
  \A n \in Of({"I64", "F64"}) : \A w \in 1..Min({3, f1.nrows}) : \A op \in {"sum", "mean", "max"} :
    LET c == ColumnOf(f1, n)
    IN  /\ Rolling(c, w, op) = RollingMinPeriods(c, w, w, op)
        /\ \A mp \in 1..w : RollingMinPeriods(c, w, mp, op) = WindowColumn(c, w, mp, FALSE, op)
        /\ op # "mean" /\ Len(NonNull(c)) = Length(c) =>
             Cumulative(c, op) = RollingMinPeriods(c, Length(c), 1, op)

SameMonth(t, u) == Civil(t).y = Civil(u).y /\ Civil(t).m = Civil(u).m

(* Buckets start at the earliest time and in order, hold every row that has *)
(* a time in one bucket, and none whose time is not before the next start.  *)
(* By weeks no row is before its bucket's start either.  By months a row is *)
(* in the bucket that starts in its own month, on whatever day: this is     *)
(* what the code does, where the guide would have an early row belong to    *)
(* the month before (builtins.rs:19749, LANGUAGE_GUIDE.md:3371).            *)
PartitionsTimes(t, rule) ==
  LET anchor == Min(ToSet(NonNullValues(t)))
      starts == BucketStarts(t, rule).vals
      buckets == BucketRows(t, rule)
  IN  /\ \A k \in 2..Len(starts) : starts[k - 1] < starts[k]
      /\ NonNull(t) # <<>> => starts[1] = anchor
      /\ ToSet(FlattenSeq(buckets)) = ToSet(NonNull(t))
      /\ Len(FlattenSeq(buckets)) = Len(NonNull(t))
      /\ \A k \in DOMAIN buckets : \A i \in ToSet(buckets[k]) :
           /\ ValueAt(t, i) < BucketStart(k, anchor, rule)
           /\ IF Calendar(rule) THEN SameMonth(ValueAt(t, i), starts[k]) ELSE starts[k] <= ValueAt(t, i)
BucketsPartition ==
  "t" \in Of({"DateTime"}) =>
    \A rule \in {Weekly, Monthly} : PartitionsTimes(ColumnOf(f1, "t"), rule)

(* Sums by buckets lose nothing, and the two resamplers agree.              *)
BucketsConserve ==
  "t" \in Of({"DateTime"}) =>
    LET t == ColumnOf(f1, "t")
    IN  /\ \A n \in Of({"I64", "F64"}) : \A rule \in {Weekly, Monthly} :
             LET c == ColumnOf(f1, n)
             IN  ColumnTotal(BucketColumn(c, BucketRows(t, rule), "sum"))
                   = Total(c.cls, ValuesIn(c, NonNull(t)))
        /\ LET byIndex == ResampleIndex([SetIndex([f1 EXCEPT !.ix = NoIndex], "t") EXCEPT !.ix.levels = <<t>>],
                                        Weekly, "mean")
               byColumn == Resample(f1, "t", Weekly, "mean")
           IN  <<byIndex.ix.levels[1]>> \o byIndex.cols = byColumn.cols

(* No row is lost or repeated by grouping, nor by resampling.               *)
RowsPartition == GroupsPartition /\ BucketsPartition

(* Nor is anything of what is counted, summed or spread.                    *)
SumsConserve == GroupsConserve /\ BucketsConserve
==============================================================================
