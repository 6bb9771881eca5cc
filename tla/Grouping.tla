------------------------------ MODULE Grouping ------------------------------
(***************************************************************************)
(* Group-by, aggregation and pivots of the tabular package.  A group is    *)
(* the sequence of its row numbers; groups come in the order in which      *)
(* their first rows do.                                                    *)
(*                                                                         *)
(* Rows are grouped by the text of their key: the cells joined by a        *)
(* separator, with a mark for a null.  Sep and NullMark stand for the two  *)
(* control characters of the code; keys that are all categorical are       *)
(* compared by their codes instead.                                        *)
(***************************************************************************)
EXTENDS Frames

Sep == "|"
NullMark == "~null"
NullCode == -1

(* The first row of each key, and the rows of each key. *)
Firsts(rows, key) ==
  Among(rows, {i \in ToSet(rows) : \A j \in ToSet(rows) : j < i => key[j] # key[i]})
GroupsOf(rows, key) ==
  LET firsts == Firsts(rows, key)
  IN  [g \in DOMAIN firsts |-> Among(rows, {i \in ToSet(rows) : key[i] = key[firsts[g]]})]

(* A non-null cell as text: a categorical by its category. *)
CellText(c, i) == IF c.cls = "Cat" THEN Get(c, i) ELSE ToText(c.cls, ValueAt(c, i))
KeyText(c, i) == IF NullAt(c, i) THEN NullMark ELSE CellText(c, i)
KeyTextOf(texts) ==
  FoldLeft(LAMBDA text, k : (IF k = 1 THEN "" ELSE text \o Sep) \o texts[k], "", Rows(Len(texts)))
RowKey(cols, i) == KeyTextOf([k \in DOMAIN cols |-> KeyText(cols[k], i)])

AllCategorical(cols) == \A k \in DOMAIN cols : cols[k].cls = "Cat"
RawCodesOf(cols, i) == [k \in DOMAIN cols |-> ValueAt(cols[k], i)]   \* mutant: a null is its filler
CodesOf(cols, i) ==
  [k \in DOMAIN cols |-> IF NullAt(cols[k], i) THEN NullCode ELSE ValueAt(cols[k], i)]

KeyColumns(df, names) == [k \in DOMAIN names |-> ColumnOf(df, names[k])]
GroupRows(df, names) ==
  LET cols == KeyColumns(df, names)
  IN  IF AllCategorical(cols) THEN GroupsOf(Rows(df.nrows), [i \in 1..df.nrows |-> CodesOf(cols, i)])
      ELSE GroupsOf(Rows(df.nrows), [i \in 1..df.nrows |-> RowKey(cols, i)])

(* The grouped frame keeps its parent; the groups are in a table of the VM. *)
GroupByOK(df, names) == names # <<>> /\ \A k \in DOMAIN names : HasColumn(df, names[k])
GroupBy(df, names) == [parent |-> df, keys |-> names, groups |-> GroupRows(df, names)]

------------------------------------------------------------------------------
(* Aggregation.  The result is indexed by the keys of the groups' first     *)
(* rows: by one column for one key, by levels for several.                  *)

KeyIndex(g) ==
  LET firsts == [k \in DOMAIN g.groups |-> g.groups[k][1]]
      cols == [k \in DOMAIN g.keys |-> Take(ColumnOf(g.parent, g.keys[k]), firsts)]
  IN  IF Len(cols) = 1 THEN Index(cols[1], g.keys[1]) ELSE MultiIndex(cols, g.keys)
ByKey(g, names, cols) == Frame(names, cols, Len(g.groups), KeyIndex(g))

Size(g) == ByKey(g, <<"size">>, <<Whole("I64", [k \in DOMAIN g.groups |-> Len(g.groups[k])])>>)
Keys(g) == ByKey(g, <<>>, <<>>)

ValuesIn(c, rows) ==
  LET kept == Among(rows, {i \in ToSet(rows) : ~NullAt(c, i)})
  IN  [k \in DOMAIN kept |-> ValueAt(c, kept[k])]
AggregateRest(c, rows, agg) ==   \* mutant: from the second row on
  Aggregate(c.cls, ValuesIn(c, Tail(rows)), agg)
AggregateSubset(c, rows, agg) == Aggregate(c.cls, ValuesIn(c, rows), agg)
AggColumn(c, groups, agg) ==
  Filled(AggClass(c.cls, agg), [k \in DOMAIN groups |-> AggregateSubset(c, groups[k], agg)])

(* The columns an aggregate of the whole frame covers: none of the keys.    *)
Covered(g, agg) ==
  RowsIn(Len(g.parent.names), {k \in DOMAIN g.parent.names :
    /\ g.parent.names[k] \notin ToSet(g.keys)
    /\ \/ agg = "count"
       \/ Numeric(g.parent.cols[k])
       \/ agg \in {"min", "max"} /\ g.parent.cols[k].cls = "DateTime"})
AggShortcut(g, agg) ==
  LET ks == Covered(g, agg)
  IN  ByKey(g, [k \in DOMAIN ks |-> g.parent.names[ks[k]]],
            [k \in DOMAIN ks |-> AggColumn(g.parent.cols[ks[k]], g.groups, agg)])

(* agg takes pairs of a column and an aggregate. *)
AggOK(g, specs) ==
  \A k \in DOMAIN specs :
    /\ HasColumn(g.parent, specs[k][1])
    /\ specs[k][2] = "count" \/ ColumnOf(g.parent, specs[k][1]).cls \in {"I64", "F64", "DateTime"}
Agg(g, specs) ==
  ByKey(g, [k \in DOMAIN specs |-> specs[k][1] \o "_" \o specs[k][2]],
        [k \in DOMAIN specs |-> AggColumn(ColumnOf(g.parent, specs[k][1]), g.groups, specs[k][2])])

(* The distinct non-null values by falling count, then by first row.  The   *)
(* cells of a categorical are all one value here.                           *)
ValueCounts(df, name) ==
  LET c == ColumnOf(df, name)
      value == [i \in ToSet(NonNull(c)) |-> IF c.cls = "Cat" THEN 0 ELSE ValueAt(c, i)]
      groups == GroupsOf(NonNull(c), value)
      more == {p \in (DOMAIN groups) \X (DOMAIN groups) : Len(groups[p[1]]) > Len(groups[p[2]])}
      order == Sorted(Rows(Len(groups)), more)
  IN  FromColumns(<<name, "count">>,
        <<Take(c, [k \in DOMAIN order |-> groups[order[k]][1]]),
          Whole("I64", [k \in DOMAIN order |-> Len(groups[order[k]])])>>)

------------------------------------------------------------------------------
(* pivot: one row per label of the index column, one column per label of    *)
(* the columns column.  A null is the label "null", and a categorical has   *)
(* the empty label.                                                         *)

CellToStr(c, i) ==
  IF NullAt(c, i) THEN "null" ELSE IF c.cls = "Cat" THEN "" ELSE ToText(c.cls, ValueAt(c, i))

PivotOK(df, index, columns) ==
  \A i, j \in 1..df.nrows : i # j =>
    \/ CellToStr(ColumnOf(df, index), i) # CellToStr(ColumnOf(df, index), j)
    \/ CellToStr(ColumnOf(df, columns), i) # CellToStr(ColumnOf(df, columns), j)
Pivot(df, index, columns, values) ==
  LET row == [i \in 1..df.nrows |-> CellToStr(ColumnOf(df, index), i)]
      col == [i \in 1..df.nrows |-> CellToStr(ColumnOf(df, columns), i)]
      v == ColumnOf(df, values)
      rs == Firsts(Rows(df.nrows), row)
      cs == Firsts(Rows(df.nrows), col)
      at(r, c) == FirstOf({i \in 1..df.nrows : row[i] = row[r] /\ col[i] = col[c]})
  IN  Frame([c \in DOMAIN cs |-> col[cs[c]]],
            [c \in DOMAIN cs |-> Pluck(v.cls, [r \in DOMAIN rs |-> PluckRow(v, at(rs[r], cs[c]))])],
            Len(rs), Index(Take(ColumnOf(df, index), rs), index))

(* pivot_table: rows with a null label are left out, and the values of each *)
(* pair of labels are aggregated.  Its index is made from the labels, which *)
(* read back as the values they were written from.                          *)
PivotTableOK(df, values, agg) == agg = "count" \/ Numeric(ColumnOf(df, values))
PivotLabels(df, name, other) ==   \* the first rows of the labels of a column
  LET c == ColumnOf(df, name)
      labelled == {i \in 1..df.nrows : ~NullAt(c, i) /\ ~NullAt(ColumnOf(df, other), i)}
  IN  Firsts(RowsIn(df.nrows, labelled), [i \in labelled |-> CellText(c, i)])
PivotBucket(ic, cc, r, c) ==
  RowsIn(Length(ic), {i \in 1..Length(ic) : /\ ~NullAt(ic, i) /\ CellText(ic, i) = CellText(ic, r)
                                             /\ ~NullAt(cc, i) /\ CellText(cc, i) = CellText(cc, c)})
PivotCell(v, rows, agg) == IF rows = <<>> THEN None ELSE AggregateSubset(v, rows, agg)
LabelClass(c) == IF c.cls = "Cat" THEN "Str" ELSE c.cls
PivotTable(df, index, columns, values, agg) ==
  LET ic == ColumnOf(df, index)
      cc == ColumnOf(df, columns)
      v == ColumnOf(df, values)
      rs == PivotLabels(df, index, columns)
      cs == PivotLabels(df, columns, index)
  IN  Frame([c \in DOMAIN cs |-> CellText(cc, cs[c])],
            [c \in DOMAIN cs |-> Filled(AggClass(v.cls, agg), [r \in DOMAIN rs |->
               PivotCell(v, PivotBucket(ic, cc, rs[r], cs[c]), agg)])],
            Len(rs),
            Index(Whole(LabelClass(ic), [r \in DOMAIN rs |-> Get(ic, rs[r])]), index))

(* One table per aggregate, side by side under the index of the first. *)
PivotTableList(df, index, columns, values, aggs) ==
  LET t == [k \in DOMAIN aggs |-> PivotTable(df, index, columns, values, aggs[k])]
  IN  Frame(FlattenSeq([k \in DOMAIN aggs |->
              [c \in DOMAIN t[k].names |-> t[k].names[c] \o "_" \o aggs[k]]]),
            FlattenSeq([k \in DOMAIN aggs |-> t[k].cols]), t[1].nrows, t[1].ix)

(* Margins: a row and a column named All.  They aggregate the cells of the  *)
(* table, not the values the cells were aggregated from.  The label of the  *)
(* new row is null where it cannot be written.                              *)
Extended(c, cell) == Filled(c.cls, Append([i \in 1..Length(c) |-> Get(c, i)], cell))
Margin(t, ks, rows, agg) ==
  Aggregate(t.cols[1].cls, FlattenSeq([k \in DOMAIN ks |-> ValuesIn(t.cols[ks[k]], rows)]), agg)
Margins(t, agg) ==
  IF t.cols = <<>> THEN t
  ELSE Frame(Append(t.names, "All"),
         Append([k \in DOMAIN t.cols |-> Extended(t.cols[k], Margin(t, <<k>>, Rows(t.nrows), agg))],
                Filled(t.cols[1].cls,
                       Append([r \in 1..t.nrows |-> Margin(t, Rows(Len(t.cols)), <<r>>, agg)],
                              Margin(t, Rows(Len(t.cols)), Rows(t.nrows), agg)))),
         t.nrows + 1,
         Index(Extended(t.ix.levels[1], IF t.ix.levels[1].cls = "Str" THEN "All" ELSE None),
               t.ix.names[1]))
PivotTableMargins(df, index, columns, values, agg) ==
  Margins(PivotTable(df, index, columns, values, agg), agg)
==============================================================================
