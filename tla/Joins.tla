------------------------------- MODULE Joins -------------------------------
(***************************************************************************)
(* Merges of two frames.  A merge first decides which pairs of rows it     *)
(* emits, 0 for no row on that side, and then fills columns and index from *)
(* the pairs.                                                              *)
(***************************************************************************)
EXTENDS Grouping

Hows == {"inner", "left", "right", "outer"}

MergeOK(l, r, on) ==
  /\ on # <<>>
  /\ \A k \in DOMAIN on : /\ HasColumn(l, on[k])
                          /\ HasColumn(r, on[k])
                          /\ ColumnOf(l, on[k]).cls = ColumnOf(r, on[k]).cls

(* A row with a null key matches nothing.  Keys are compared by their text, *)
(* or by their codes when every pair of key columns is categorical with the *)
(* same categories in the same order.                                       *)
NullKey(cols, i) == \E k \in DOMAIN cols : NullAt(cols[k], i)
CanUseCodes(lk, rk) ==
  \A k \in DOMAIN lk : lk[k].cls = "Cat" /\ rk[k].cls = "Cat" /\ lk[k].cats = rk[k].cats
MatchesNulls(lk, rk, i, j) ==   \* mutant: null keys match each other
  IF CanUseCodes(lk, rk) THEN CodesOf(lk, i) = CodesOf(rk, j) ELSE RowKey(lk, i) = RowKey(rk, j)
Matches(lk, rk, i, j) ==
  /\ ~NullKey(lk, i)
  /\ ~NullKey(rk, j)
  /\ IF CanUseCodes(lk, rk) THEN CodesOf(lk, i) = CodesOf(rk, j)
     ELSE RowKey(lk, i) = RowKey(rk, j)

(* The left rows in order, each with its matches in order, then the right   *)
(* rows nothing matched.                                                    *)
Emit(l, r, on, how) ==
  LET lk == KeyColumns(l, on)
      rk == KeyColumns(r, on)
      found(i) == RowsIn(r.nrows, {j \in 1..r.nrows : Matches(lk, rk, i, j)})
      rowsOf(i) == IF found(i) # <<>> THEN [k \in DOMAIN found(i) |-> <<i, found(i)[k]>>]
                   ELSE IF how \in {"left", "outer"} THEN <<<<i, 0>>>> ELSE <<>>
      missed == RowsIn(r.nrows, {j \in 1..r.nrows : \A i \in 1..l.nrows : ~Matches(lk, rk, i, j)})
  IN  FlattenSeq([i \in 1..l.nrows |-> rowsOf(i)])
        \o (IF how \in {"right", "outer"} THEN [k \in DOMAIN missed |-> <<0, missed[k]>>] ELSE <<>>)

Side(pairs, s) == [k \in DOMAIN pairs |-> pairs[k][s]]
PluckSide(c, pairs, s) == Pluck(c.cls, [k \in DOMAIN pairs |-> PluckRow(c, pairs[k][s])])
(* A cell of the left column, or of the right one where there is no left row. *)
EitherCells(a, b, pairs) ==
  [k \in DOMAIN pairs |-> IF pairs[k][1] # 0 THEN PluckRow(a, pairs[k][1])
                          ELSE PluckRow(b, pairs[k][2])]

(* Levels are built from cells; the codes of a categorical become zeros. *)
LevelOf(cls, cells) ==
  IF cls = "Cat" THEN Categorical([k \in DOMAIN cells |-> 0], Side(cells, 2), <<>>)
  ELSE Pluck(cls, cells)
PaddedLevel(c, pairs, s) == LevelOf(c.cls, [k \in DOMAIN pairs |-> PluckRow(c, pairs[k][s])])
PaddedLevels(ix, pairs, s) ==
  [k \in DOMAIN ix.levels |-> PaddedLevel(ix.levels[k], pairs, s)]
Named(ix, default) ==
  IF ix.multi THEN ix.names ELSE <<IF ix.names[1] = None THEN default ELSE ix.names[1]>>

OuterIndexColumn(a, b, pairs) ==
  LET cells == EitherCells(a, b, pairs)
  IN  IF a.cls = "Cat" THEN Column("I64", [k \in DOMAIN cells |-> 0], Side(cells, 2))
      ELSE Pluck(a.cls, cells)

(* The index of an outer merge, from the two indexes: joined when they are  *)
(* alike, side by side when their classes or kinds differ, and dropped when *)
(* either frame has none or their levels differ.                            *)
OuterIndex(l, r, pairs) ==
  LET a == l.ix
      b == r.ix
      merged == [k \in DOMAIN a.levels |-> LevelOf(a.levels[k].cls,
                                             EitherCells(a.levels[k], b.levels[k], pairs))]
      sideBySide == MultiIndex(PaddedLevels(a, pairs, 1) \o PaddedLevels(b, pairs, 2),
                               Named(a, "lhs") \o Named(b, "rhs"))
  IN  IF a.levels = <<>> \/ b.levels = <<>> THEN NoIndex
      ELSE IF a.multi # b.multi THEN sideBySide
      ELSE IF a.multi
      THEN IF Classes(a.levels) # Classes(b.levels) THEN NoIndex
           ELSE MultiIndex(merged, [k \in DOMAIN a.names |->
                  IF a.names[k] = "" THEN b.names[k] ELSE a.names[k]])
      ELSE IF a.levels[1].cls # b.levels[1].cls THEN sideBySide
      ELSE Index(OuterIndexColumn(a.levels[1], b.levels[1], pairs), a.names[1])

MergeIndex(l, r, how, pairs) ==
  CASE how = "outer" -> OuterIndex(l, r, pairs)
    [] how = "right" -> TakeIndex(r.ix, Side(pairs, 2))
    [] OTHER         -> TakeIndex(l.ix, Side(pairs, 1))

(* A name may be there twice on the left; a key column is then filled from  *)
(* the right one of its name, in its own class, whatever the class of that. *)
SameKeyClasses(l, r, on) ==
  \A k \in DOMAIN l.names : l.names[k] \in ToSet(on) => l.cols[k].cls = ColumnOf(r, l.names[k]).cls

(* Every left column, the keys filled from the right where there is no left *)
(* row, then the right columns that are not keys, under their own names.    *)
Merge(l, r, on, how) ==
  LET pairs == Emit(l, r, on, how)
      extra == RowsIn(Len(r.names), {k \in DOMAIN r.names : r.names[k] \notin ToSet(on)})
      left(k) == IF l.names[k] \in ToSet(on)
                 THEN Pluck(l.cols[k].cls, EitherCells(l.cols[k], ColumnOf(r, l.names[k]), pairs))
                 ELSE PluckSide(l.cols[k], pairs, 1)
  IN  Frame(l.names \o [k \in DOMAIN extra |-> r.names[extra[k]]],
            [k \in DOMAIN l.cols |-> left(k)]
              \o [k \in DOMAIN extra |-> PluckSide(r.cols[extra[k]], pairs, 2)],
            Len(pairs), MergeIndex(l, r, how, pairs))

------------------------------------------------------------------------------
(* asof_merge pairs each left row with the last right row in the order of   *)
(* the keys whose key is not greater: of equal keys, the last row.          *)

AsofKey(c) == c.cls \in {"I64", "DateTime"}
AsofPairs(lk, rk, n) ==
  LET sorted == SortRows(rk, TRUE)
      upTo(i) == Among(sorted, {j \in ToSet(sorted) : ~rk.nulls[j] /\ ~(ValueAt(lk, i) < ValueAt(rk, j))})
  IN  [i \in 1..n |->
         <<i, IF lk.nulls[i] \/ upTo(i) = <<>> THEN 0 ELSE Last(upTo(i))>>]

AsofMergeOK(l, r, onSelf, onOther) ==
  /\ HasColumn(l, onSelf)
  /\ HasColumn(r, onOther)
  /\ ColumnOf(l, onSelf).cls = ColumnOf(r, onOther).cls
  /\ AsofKey(ColumnOf(l, onSelf))
  /\ l.nrows <= Length(ColumnOf(l, onSelf))
(* Levels of the left frame are kept, a single index is not. *)
AsofMerge(l, r, onSelf, onOther) ==
  LET pairs == AsofPairs(ColumnOf(l, onSelf), ColumnOf(r, onOther), l.nrows)
      extra == RowsIn(Len(r.names), DOMAIN r.names \ {Position(r.names, onOther)})
  IN  Frame(l.names \o [k \in DOMAIN extra |-> r.names[extra[k]]],
            l.cols \o [k \in DOMAIN extra |-> PluckSide(r.cols[extra[k]], pairs, 2)], l.nrows,
            IF IsMulti(l) THEN TakeIndex(l.ix, Rows(l.nrows)) ELSE NoIndex)

AsofMergeIndexOK(l, r) ==
  /\ IsSingle(l)
  /\ IsSingle(r)
  /\ l.ix.levels[1].cls = r.ix.levels[1].cls
  /\ AsofKey(l.ix.levels[1])
  /\ l.nrows <= Length(l.ix.levels[1])
AsofMergeIndex(l, r) ==
  LET pairs == AsofPairs(l.ix.levels[1], r.ix.levels[1], l.nrows)
  IN  Frame(l.names \o r.names,
            l.cols \o [k \in DOMAIN r.cols |-> PluckSide(r.cols[k], pairs, 2)], l.nrows,
            CloneIndex(l.ix))
==============================================================================
