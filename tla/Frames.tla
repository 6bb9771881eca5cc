------------------------------- MODULE Frames -------------------------------
(***************************************************************************)
(* DataFrames of the tabular package, and the operations that choose, move *)
(* and rename whole rows or columns.  A frame is immutable: an operation   *)
(* returns another frame, so each is an operator, with the condition under *)
(* which it does not raise (...OK) where it has one.                       *)
(*                                                                         *)
(* A frame has one index column, or several levels (multi), or neither.    *)
(* The two kinds are two slots of the object, of which every constructor   *)
(* clears one; here they are one record.  The name of a single index may   *)
(* be None; a level without a name is named "".                            *)
(***************************************************************************)
EXTENDS Columns

Frame(names, cols, nrows, ix) ==
  [names |-> names, cols |-> cols, nrows |-> nrows, ix |-> ix]

NoIndex == [multi |-> FALSE, levels |-> <<>>, names |-> <<>>]
Index(col, name) == [multi |-> FALSE, levels |-> <<col>>, names |-> <<name>>]
MultiIndex(levels, names) ==
  IF levels = <<>> THEN NoIndex ELSE [multi |-> TRUE, levels |-> levels, names |-> names]

(* What building a frame guarantees: a name for each column and level, and  *)
(* in an even frame one length for all of them, the row count.              *)
IndexShape(ix) ==
  /\ IsList(ix.levels) /\ IsList(ix.names) /\ Len(ix.names) = Len(ix.levels)
  /\ ix.multi \in BOOLEAN
  /\ ix.multi => ix.levels # <<>>
  /\ ~ix.multi => Len(ix.levels) <= 1
  /\ \A k \in DOMAIN ix.levels : ColumnShape(ix.levels[k])
FrameShape(df) ==
  /\ IsList(df.names) /\ IsList(df.cols) /\ Len(df.names) = Len(df.cols)
  /\ \A k \in DOMAIN df.cols : ColumnShape(df.cols[k])
  /\ df.nrows \in Nat
  /\ IndexShape(df.ix)
AllLong(cols, n) == \A k \in DOMAIN cols : Length(cols[k]) = n
Even(df) == AllLong(df.cols, df.nrows) /\ AllLong(df.ix.levels, df.nrows)

IsMulti(df)  == df.ix.multi
IsSingle(df) == ~df.ix.multi /\ df.ix.levels # <<>>
HasColumn(df, name) == name \in ToSet(df.names)
ColumnOf(df, name)  == df.cols[Position(df.names, name)]

LevelName(name) == IF name = None THEN "" ELSE name
LevelNames(ix) == [k \in DOMAIN ix.names |-> LevelName(ix.names[k])]

(* from_columns: as many names as columns, all of one length. *)
FromColumns(names, cols) ==
  Frame(names, cols, IF cols = <<>> THEN 0 ELSE Length(cols[1]), NoIndex)

------------------------------------------------------------------------------
(* Rows.  The index, or every level, is taken through the same row numbers. *)

WithLevels(ix, levels) == [multi |-> ix.multi, levels |-> levels, names |-> ix.names]
TakeIndex(ix, rows) == WithLevels(ix, [k \in DOMAIN ix.levels |-> Take(ix.levels[k], rows)])
CloneIndex(ix) == WithLevels(ix, [k \in DOMAIN ix.levels |-> Clone(ix.levels[k])])

TakeColumns(df, rows) ==   \* mutant: the index keeps the rows it had
  [df EXCEPT !.cols = [k \in DOMAIN df.cols |-> Take(df.cols[k], rows)], !.nrows = Len(rows)]
TakeRows(df, rows) ==
  Frame(df.names, [k \in DOMAIN df.cols |-> Take(df.cols[k], rows)], Len(rows),
        TakeIndex(df.ix, rows))

FilterOK(df, mask) == Length(mask) = df.nrows
Filter(df, mask) == TakeRows(df, Kept(mask))

Clamp(n, df) == Max({0, Min({n, df.nrows})})
HeadRows(df, n) == TakeRows(df, Rows(Clamp(n, df)))
TailColumns(df, n) ==   \* mutant: the index is taken from the head
  [TakeRows(df, [k \in 1..Clamp(n, df) |-> df.nrows - Clamp(n, df) + k])
     EXCEPT !.ix = TakeIndex(df.ix, Rows(Clamp(n, df)))]
TailRows(df, n) == TakeRows(df, [k \in 1..Clamp(n, df) |-> df.nrows - Clamp(n, df) + k])

(* Bounds count from the end when negative, and are then clamped. *)
Bound(x, n) == Max({0, Min({IF x < 0 THEN x + n ELSE x, n})})
Slice(lo, hi) == [k \in 1..(IF lo < hi THEN hi - lo ELSE 0) |-> lo + k]
ILoc(df, start, stop) == TakeRows(df, Slice(Bound(start, df.nrows), Bound(stop, df.nrows)))
ILoc2D(df, r1, r2, c1, c2) ==
  LET rows == Slice(Bound(r1, df.nrows), Bound(r2, df.nrows))
      cs == Slice(Bound(c1, Len(df.cols)), Bound(c2, Len(df.cols)))
  IN  Frame([k \in DOMAIN cs |-> df.names[cs[k]]],
            [k \in DOMAIN cs |-> Take(df.cols[cs[k]], rows)], Len(rows), TakeIndex(df.ix, rows))

DropNa(df, names) ==   \* names: the columns looked at, every one for dropna()
  TakeRows(df, RowsIn(df.nrows, {i \in 1..df.nrows :
    \A k \in DOMAIN df.names : df.names[k] \in names => ~NullAt(df.cols[k], i)}))

(* sort_by orders the non-null cells, ties in their old order in both       *)
(* directions, and puts the null ones last; a categorical by its codes.     *)
SortRows(c, ascending) ==
  LET less(a, b) == Less(IF c.cls = "Cat" THEN "I64" ELSE c.cls, ValueAt(c, a), ValueAt(c, b))
      present == {i \in 1..Length(c) : ~c.nulls[i]}
      before == {p \in present \X present :
                   IF ascending THEN less(p[1], p[2]) ELSE less(p[2], p[1])}
  IN  Sorted(NonNull(c), before) \o RowsIn(Length(c), (1..Length(c)) \ present)
SortBy(df, name, ascending) ==
  LET rows == SortRows(ColumnOf(df, name), ascending)
  IN  Frame(df.names, TakeRows(df, rows).cols, df.nrows, TakeIndex(df.ix, rows))

(* sort_index sorts the levels in order with nulls last, ties in their old  *)
(* order; to descend it reverses the whole permutation.  Categoricals are   *)
(* equal in a single index and ordered by their codes in a level.           *)
LevelBefore(ix, k, a, b) ==
  LET c == ix.levels[k]
  IN  /\ ix.multi \/ c.cls # "Cat"
      /\ ~NullAt(c, a)
      /\ NullAt(c, b) \/ Less(IF c.cls = "Cat" THEN "I64" ELSE c.cls, ValueAt(c, a), ValueAt(c, b))
IndexBefore(ix, a, b) ==
  \E k \in DOMAIN ix.levels :
    /\ LevelBefore(ix, k, a, b)
    /\ \A j \in 1..(k - 1) : ~LevelBefore(ix, j, b, a)
SortIndex(df, ascending) ==
  LET n == Length(df.ix.levels[1])
      before == {p \in (1..n) \X (1..n) : IndexBefore(df.ix, p[1], p[2])}
      perm == Sorted(Rows(n), before)
  IN  TakeRows(df, IF ascending THEN perm ELSE Reverse(perm))

(* The rows of an inclusive range of labels, of a single index, of a level  *)
(* or of the innermost level.                                               *)
LocRangeLevel(df, level, lo, hi) == TakeRows(df, Kept(Between(df.ix.levels[level], lo, hi)))
LocRangeMulti(df, lo, hi) == LocRangeLevel(df, Len(df.ix.levels), lo, hi)
LocRange(df, lo, hi) == LocRangeLevel(df, 1, lo, hi)
LabelRow(df, x) ==   \* 0 when the label is not there
  LET c == df.ix.levels[1]
  IN  FirstOf({i \in 1..Length(c) : ~c.nulls[i] /\ ValueAt(c, i) = x})
SelectByLabel(df, x) == TakeRows(df, <<LabelRow(df, x)>>)

------------------------------------------------------------------------------
(* Columns.  The index is cloned.                                           *)

Pick(df, ks) ==
  Frame([k \in DOMAIN ks |-> df.names[ks[k]]], [k \in DOMAIN ks |-> df.cols[ks[k]]],
        df.nrows, CloneIndex(df.ix))
Select(df, names) == Pick(df, [k \in DOMAIN names |-> Position(df.names, names[k])])
Drop(df, names) ==
  Pick(df, RowsIn(Len(df.names), {k \in DOMAIN df.names : df.names[k] \notin names}))
Rename(df, old, new) ==   \* the first column of that name; no such name is no error
  LET at == Position(df.names, old)
  IN  Frame(IF at = 0 THEN df.names ELSE [df.names EXCEPT ![at] = new], df.cols, df.nrows,
            CloneIndex(df.ix))
FillNa(df, cls, x) ==
  Frame(df.names, [k \in DOMAIN df.cols |->
          IF df.cols[k].cls = cls THEN FillNull(df.cols[k], x) ELSE df.cols[k]],
        df.nrows, CloneIndex(df.ix))

(* set_index refuses a frame with a single index, but not one with levels,  *)
(* which it clears; set_index_multi refuses both.                           *)
SetIndexOK(df) == ~IsSingle(df)
Reindexed(df, ix) == Frame(df.names, df.cols, df.nrows, ix)
SetIndex(df, name) ==
  LET rest == RowsIn(Len(df.names), DOMAIN df.names \ {Position(df.names, name)})
  IN  Reindexed(Pick(df, rest), Index(Clone(ColumnOf(df, name)), name))
SetIndexMultiOK(df) == df.ix = NoIndex
SetIndexMulti(df, names) ==
  LET at == [k \in DOMAIN names |-> Position(df.names, names[k])]
      rest == RowsIn(Len(df.names), DOMAIN df.names \ ToSet(at))
  IN  Reindexed(Pick(df, rest), MultiIndex([k \in DOMAIN at |-> Clone(df.cols[at[k]])], names))

(* reset_index puts a single index back as the first column and drops       *)
(* levels; reset_index_multi puts the levels back and drops a single index. *)
Restore(df, names) ==
  Frame(names \o df.names, df.ix.levels \o df.cols, df.nrows, NoIndex)
ResetIndex(df) ==
  IF IsSingle(df) THEN Restore(df, IF df.ix.names[1] = None THEN <<"index">> ELSE df.ix.names)
  ELSE Reindexed(df, NoIndex)
ResetIndexMulti(df) ==
  IF IsMulti(df) THEN Restore(df, df.ix.names) ELSE Reindexed(df, NoIndex)

------------------------------------------------------------------------------
(* Several frames.                                                          *)

Classes(cols) == [k \in DOMAIN cols |-> cols[k].cls]

ConcatRowsOK(a, b) == a.names = b.names /\ Classes(a.cols) = Classes(b.cols)
(* An index survives if both frames have one of the same kind, names and    *)
(* classes.                                                                 *)
ConcatIndex(a, b) ==
  IF /\ a.ix.levels # <<>> /\ a.ix.multi = b.ix.multi /\ LevelNames(a.ix) = LevelNames(b.ix)
     /\ Classes(a.ix.levels) = Classes(b.ix.levels)
  THEN WithLevels(a.ix, [k \in DOMAIN a.ix.levels |-> Joined(a.ix.levels[k], b.ix.levels[k])])
  ELSE NoIndex
(* The rows are counted by the first column: none of them without columns,  *)
(* whatever the length of the index.                                        *)
ConcatRows(a, b) ==
  Frame(a.names, [k \in DOMAIN a.cols |-> Joined(a.cols[k], b.cols[k])],
        IF a.cols = <<>> THEN 0 ELSE Length(a.cols[1]) + Length(b.cols[1]), ConcatIndex(a, b))

ConcatColsOK(a, b) ==
  /\ a.nrows = b.nrows
  /\ Cardinality(ToSet(a.names \o b.names)) = Len(a.names) + Len(b.names)
ConcatCols(a, b) ==
  Frame(a.names \o b.names, a.cols \o b.cols, a.nrows, CloneIndex(a.ix))
==============================================================================
