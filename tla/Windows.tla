------------------------------ MODULE Windows ------------------------------
(***************************************************************************)
(* Rolling aggregates.  The package has three implementations: the rolling *)
(* methods of a column, those with a minimum of periods, and the rolling   *)
(* window of a frame.                                                      *)
(***************************************************************************)
EXTENDS Buckets

RollingOK(c, w) == w \in 1..Length(c)
MinPeriodsOK(c, w, mp) == RollingOK(c, w) /\ mp \in 1..w

(* A column's windows are full, and null if any of their cells is. *)
Rolling(c, w, op) ==
  LET window(i) == [k \in 1..w |-> i - w + k]
      full(i) == i >= w /\ \A k \in 1..w : ~c.nulls[i - w + k]
  IN  Filled(AggClass(c.cls, op),
        [i \in 1..Length(c) |-> IF full(i) THEN AggregateSubset(c, window(i), op) ELSE None])

(* With a minimum of periods the first windows are partial, and nulls are   *)
(* skipped.                                                                 *)
RollingMinPeriods(c, w, mp, op) ==
  LET start(i) == IF i >= w THEN i - w + 1 ELSE 1
      values(i) == ValuesIn(c, [k \in 1..(i - start(i) + 1) |-> start(i) + k - 1])
  IN  Filled(AggClass(c.cls, op),
        [i \in 1..Length(c) |-> IF Len(values(i)) < mp THEN None
                                ELSE Aggregate(c.cls, values(i), op)])

(* The window of a frame: mp is the window itself unless it is given, and a *)
(* centred one reaches further to the right when it is even.                *)
RollingWindowOK(df, w, mp) == w \in 1..df.nrows /\ mp \in 1..w
WindowRowsWide(i, n, w, center) ==   \* mutant: one row too many
  RowsIn(n, (i - w)..i)
WindowRows(i, n, w, center) ==
  LET lo == IF center THEN i - (w - 1) \div 2 ELSE i - w + 1
      hi == IF center THEN i + w \div 2 ELSE i
  IN  RowsIn(n, lo..hi)
WindowClass(c, op) ==
  CASE op = "count" -> "I64"
    [] op = "mean" \/ c.cls = "F64" -> "F64"
    [] OTHER -> "I64"
WindowColumn(c, w, mp, center, op) ==
  LET values(i) == ValuesIn(c, WindowRows(i, Length(c), w, center))
  IN  Filled(WindowClass(c, op),
        [i \in 1..Length(c) |-> IF Len(values(i)) < mp THEN None
                                ELSE Aggregate(c.cls, values(i), op)])

(* Every column is counted, the numeric ones are aggregated; the index of   *)
(* the parent is kept.                                                      *)
RollingFrame(df, w, mp, center, op) ==
  LET ks == RowsIn(Len(df.names), {k \in DOMAIN df.names : op = "count" \/ Numeric(df.cols[k])})
  IN  Frame([k \in DOMAIN ks |-> df.names[ks[k]]],
            [k \in DOMAIN ks |-> WindowColumn(df.cols[ks[k]], w, mp, center, op)],
            df.nrows, df.ix)
==============================================================================
