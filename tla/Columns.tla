------------------------------ MODULE Columns ------------------------------
(***************************************************************************)
(* The typed columns of the tabular package: a list of values, a null mask *)
(* of the same length and, for a categorical, the list of its categories   *)
(* (its values are then positions in that list, counted from 0).           *)
(*                                                                         *)
(* Rows are numbered from 1.  A string is a TLA+ string, ordered by its    *)
(* position in Words.  A float is the quotient of two integers in lowest   *)
(* terms, so what is left out of F64 is rounding and NaN.                  *)
(***************************************************************************)
EXTENDS Integers, Sequences, FiniteSets, FiniteSetsExt, SequencesExt, TLC

CONSTANTS
  None,   \* what the program reads for a null cell or an empty aggregate
  Words   \* the strings of the instance, in ascending order

IsList(s) == s \in Seq(ToSet(s))
Rows(n) == [i \in 1..n |-> i]
Position(seq, x) == SelectInSeq(seq, LAMBDA y : y = x)   \* 0 when absent
FirstOf(rows) == IF rows = {} THEN 0 ELSE Min(rows)      \* 0 when there is none

(* The members of a sequence that are in a set, in their order. *)
Among(seq, S) == FlattenSeq([k \in DOMAIN seq |-> IF seq[k] \in S THEN <<seq[k]>> ELSE <<>>])
RowsIn(n, S)  == Among(Rows(n), S)

(* A sequence in the order of a strict weak order, a set of pairs, and its  *)
(* own order where that leaves two members unordered.                       *)
Insert(seq, x, Before) ==
  LET at == FirstOf({k \in DOMAIN seq : <<x, seq[k]>> \in Before})
  IN  IF at = 0 THEN Append(seq, x) ELSE InsertAt(seq, at, x)
Sorted(seq, Before) ==
  LET upTo[k \in 0..Len(seq)] == IF k = 0 THEN <<>> ELSE Insert(upTo[k - 1], seq[k], Before)
  IN  upTo[Len(seq)]

(* A float as a fraction in lowest terms. *)
Quotient(a, b) ==
  LET Common(d) == d \in 1..b /\ b % d = 0 /\ a % d = 0
      g == CHOOSE d \in 1..b : Common(d) /\ \A e \in 1..b : Common(e) => e <= d
  IN  <<a \div g, b \div g>>

(* The filler under a null cell, and what a read outside the list gives. *)
Filler(cls) ==
  CASE cls = "Str"  -> ""
    [] cls = "Bool" -> FALSE
    [] cls = "F64"  -> <<0, 1>>
    [] OTHER        -> 0

Less(cls, x, y) ==
  CASE cls = "Str"  -> Position(Words, x) < Position(Words, y)
    [] cls = "Bool" -> ~x /\ y
    [] cls = "F64"  -> x[1] * y[2] < y[1] * x[2]
    [] OTHER        -> x < y

Plus(cls, x, y) ==
  IF cls = "F64" THEN Quotient(x[1] * y[2] + y[1] * x[2], x[2] * y[2]) ELSE x + y

Divide(cls, x, n) == IF cls = "F64" THEN Quotient(x[1], x[2] * n) ELSE Quotient(x, n)

------------------------------------------------------------------------------
(* Columns.  The null mask has the column's length.                         *)

Column(cls, vals, nulls) == [cls |-> cls, vals |-> vals, nulls |-> nulls, cats |-> <<>>]
Categorical(codes, nulls, cats) ==
  [cls |-> "Cat", vals |-> codes, nulls |-> nulls, cats |-> cats]

Times(cls, vals) == cls = "DateTime" => \A i \in DOMAIN vals : vals[i] \in Int
ColumnShape(c) ==
  /\ IsList(c.nulls) /\ IsList(c.vals) /\ IsList(c.cats)
  /\ Len(c.vals) = Len(c.nulls) \/ (c.cls = "Cat" /\ c.vals = <<>>)
  /\ Times(c.cls, c.vals)

Length(c)  == Len(c.nulls)
NullAt(c, i)  == i \in DOMAIN c.nulls /\ c.nulls[i]
ValueAt(c, i) == IF i \in DOMAIN c.vals THEN c.vals[i] ELSE Filler(c.cls)
Filled(cls, cells) ==   \* cells in which None stands for null
  Column(cls, [i \in DOMAIN cells |-> IF cells[i] = None THEN Filler(cls) ELSE cells[i]],
              [i \in DOMAIN cells |-> cells[i] = None])
Whole(cls, vals) == Column(cls, vals, [i \in DOMAIN vals |-> FALSE])

(* What the program sees of a cell: the category of a categorical. *)
Get(c, i) ==
  IF NullAt(c, i) THEN None
  ELSE IF c.cls = "Cat"
       THEN IF ValueAt(c, i) + 1 \in DOMAIN c.cats THEN c.cats[ValueAt(c, i) + 1] ELSE ""
       ELSE ValueAt(c, i)

(* The rows of a column, by their numbers.  Every class is copied but the   *)
(* categorical, which falls through to a column of zeros.                   *)
Take(c, rows) ==
  LET nulls == [k \in DOMAIN rows |-> NullAt(c, rows[k])]
  IN  IF c.cls = "Cat" THEN Column("I64", [k \in DOMAIN rows |-> 0], nulls)
      ELSE Column(c.cls, [k \in DOMAIN rows |-> ValueAt(c, rows[k])], nulls)

(* The copy an index is given; a categorical loses its categories. *)
Clone(c) == Column(c.cls, c.vals, c.nulls)

(* Two columns of one class end to end; the values of a categorical are in  *)
(* none of the buffers the values are gathered in.                          *)
Cells(c) == [i \in 1..Length(c) |-> ValueAt(c, i)]
Joined(a, b) ==
  Column(a.cls, IF a.cls = "Cat" THEN <<>> ELSE Cells(a) \o Cells(b), a.nulls \o b.nulls)

(* A cell of a pair of columns, or a null where there is no row (row 0).    *)
PluckRow(c, row) ==
  IF row = 0 THEN <<Filler(c.cls), TRUE>> ELSE <<ValueAt(c, row), NullAt(c, row)>>
Pluck(cls, cells) ==
  Column(cls, IF cls = "Cat" THEN <<>> ELSE [k \in DOMAIN cells |-> cells[k][1]],
              [k \in DOMAIN cells |-> cells[k][2]])

------------------------------------------------------------------------------
(* Masks: a null cell makes a null, FALSE cell of the mask.                 *)

MaskValues(c, holds) == Whole("Bool", holds)   \* mutant: the null mask is not looked at
Mask(c, holds) ==
  Column("Bool", [i \in 1..Length(c) |-> ~c.nulls[i] /\ holds[i]], c.nulls)
Compare(c, op, x) ==
  Mask(c, [i \in 1..Length(c) |-> CASE op = "eq" -> ValueAt(c, i) = x
                                    [] op = "gt" -> Less(c.cls, x, ValueAt(c, i))
                                    [] op = "lt" -> Less(c.cls, ValueAt(c, i), x)])
Between(c, lo, hi) ==
  Mask(c, [i \in 1..Length(c) |-> /\ ~Less(c.cls, ValueAt(c, i), lo)
                                  /\ ~Less(c.cls, hi, ValueAt(c, i))])

MaskAnd(a, b) ==
  LET n == [i \in 1..Length(a) |-> a.nulls[i] \/ b.nulls[i]]
  IN  Column("Bool", [i \in 1..Length(a) |-> ~n[i] /\ a.vals[i] /\ b.vals[i]], n)
MaskOr(a, b) ==
  LET n == [i \in 1..Length(a) |-> a.nulls[i] \/ b.nulls[i]]
  IN  Column("Bool", [i \in 1..Length(a) |-> ~n[i] /\ (a.vals[i] \/ b.vals[i])], n)
MaskNot(a) == Column("Bool", [i \in 1..Length(a) |-> ~a.nulls[i] /\ ~a.vals[i]], a.nulls)

Kept(mask) == RowsIn(Length(mask), {i \in 1..Length(mask) : ~mask.nulls[i] /\ mask.vals[i]})

------------------------------------------------------------------------------
(* Aggregates.                                                              *)

NonNull(c) == RowsIn(Length(c), {i \in 1..Length(c) : ~c.nulls[i]})
NonNullValues(c) == LET r == NonNull(c) IN [k \in DOMAIN r |-> ValueAt(c, r[k])]

Least(cls, vs)    == CHOOSE v \in ToSet(vs) : \A w \in ToSet(vs) : ~Less(cls, w, v)
Greatest(cls, vs) == CHOOSE v \in ToSet(vs) : \A w \in ToSet(vs) : ~Less(cls, v, w)
Total(cls, vs)    == FoldLeft(LAMBDA x, y : Plus(cls, x, y), Filler(cls), vs)

(* An aggregate of the values that are not null; None when there are none,  *)
(* but for the count.                                                       *)
Aggregate(cls, vs, agg) ==
  IF agg = "count" THEN Len(vs)
  ELSE IF vs = <<>> THEN None
  ELSE CASE agg = "sum"  -> Total(cls, vs)
         [] agg = "mean" -> Divide(cls, Total(cls, vs), Len(vs))
         [] agg = "min"  -> Least(cls, vs)
         [] agg = "max"  -> Greatest(cls, vs)

AggClass(cls, agg) ==
  CASE agg = "count" -> "I64" [] agg = "mean" -> "F64" [] OTHER -> cls

Numeric(c) == c.cls \in {"I64", "F64"}

------------------------------------------------------------------------------
(* Row-by-row operations on one column.                                     *)

FillNull(c, x) ==
  Whole(c.cls, [i \in 1..Length(c) |-> IF c.nulls[i] THEN x ELSE ValueAt(c, i)])

(* A running aggregate is null from the first null cell on. *)
Cumulative(c, op) ==
  LET whole(i) == \A j \in 1..i : ~c.nulls[j]
  IN  Filled(c.cls, [i \in 1..Length(c) |->
        IF whole(i) THEN Aggregate(c.cls, SubSeq(NonNullValues(c), 1, i), op) ELSE None])

(* The first row of each distinct non-null value, in order of appearance. *)
Unique(c) ==
  LET new(i) == ~c.nulls[i] /\ \A j \in 1..(i - 1) : c.nulls[j] \/ ValueAt(c, j) # ValueAt(c, i)
      firsts == RowsIn(Length(c), {i \in 1..Length(c) : new(i)})
  IN  Whole(c.cls, [k \in DOMAIN firsts |-> ValueAt(c, firsts[k])])

ToText(cls, v) ==
  IF cls = "Str" THEN v
  ELSE IF cls = "Bool" THEN (IF v THEN "true" ELSE "false") ELSE ToString(v)

(* The values of a categorical as strings, in a column of their own. *)
CatToStrings(c) ==
  Filled("Str", [i \in 1..Length(c) |-> Get(c, i)])

(* Building a categorical: codes are positions in the categories, which are *)
(* given, or the distinct non-null values in order of appearance.           *)
CatOf(vals, nulls) ==
  LET cats == Unique(Column("Str", vals, nulls)).vals
  IN  Categorical([i \in DOMAIN vals |-> IF nulls[i] THEN 0 ELSE Position(cats, vals[i]) - 1],
                  nulls, cats)
CatOrdered(vals, cats) ==
  Categorical([i \in DOMAIN vals |-> Position(cats, vals[i]) - 1],
              [i \in DOMAIN vals |-> FALSE], cats)
==============================================================================
