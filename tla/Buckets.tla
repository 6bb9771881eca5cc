------------------------------ MODULE Buckets ------------------------------
(***************************************************************************)
(* Resampling: rows gathered into buckets of time that start at the        *)
(* earliest time of the frame.  A time is a number of days since           *)
(* 1970-01-01: the time of day, which a bucket carries along unchanged, is *)
(* left out.  A rule is a positive number and a unit.                      *)
(***************************************************************************)
EXTENDS Reshape

(* Rust's division rounds towards zero. *)
TruncDiv(a, b) == IF a >= 0 THEN a \div b ELSE -((-a) \div b)   \* b > 0

Calendar(rule) == rule.unit \in {"M", "Y"}
Days(rule) == rule.n * (IF rule.unit = "w" THEN 7 ELSE 1)

IsLeap(y) == (y % 4 = 0 /\ y % 100 # 0) \/ y % 400 = 0
DaysInMonth(y, m) ==
  CASE m \in {4, 6, 9, 11} -> 30
    [] m = 2               -> IF IsLeap(y) THEN 29 ELSE 28
    [] OTHER               -> 31

(* A day number as a date, and back. *)
Civil(day) ==
  LET z == day + 719468
      era == z \div 146097
      doe == z - era * 146097
      yoe == (doe - doe \div 1460 + doe \div 36524 - doe \div 146096) \div 365
      doy == doe - (365 * yoe + yoe \div 4 - yoe \div 100)
      mp == (5 * doy + 2) \div 153
      m == IF mp < 10 THEN mp + 3 ELSE mp - 9
  IN  [y |-> yoe + era * 400 + (IF m <= 2 THEN 1 ELSE 0), m |-> m,
       d |-> doy - (153 * mp + 2) \div 5 + 1]
DayOf(y, m, d) ==
  LET ya == IF m <= 2 THEN y - 1 ELSE y
      era == ya \div 400
      yoe == ya - era * 400
      doy == (153 * (IF m > 2 THEN m - 3 ELSE m + 9) + 2) \div 5 + d - 1
  IN  era * 146097 + yoe * 365 + yoe \div 4 - yoe \div 100 + doy - 719468

(* The bucket of a time and the start of a bucket, counted from 0.  Those   *)
(* of a calendar rule look at the month and the year of a time, not its day. *)
BucketOf(t, anchor, rule) ==
  LET a == Civil(anchor)
      b == Civil(t)
  IN  CASE rule.unit = "Y" -> TruncDiv(b.y - a.y, rule.n)
        [] rule.unit = "M" -> TruncDiv((b.y - a.y) * 12 + (b.m - a.m), rule.n)
        [] OTHER           -> (t - anchor) \div Days(rule)
BucketStart(k, anchor, rule) ==
  LET a == Civil(anchor)
      months == a.m - 1 + k * rule.n
      y == IF rule.unit = "Y" THEN a.y + k * rule.n ELSE a.y + months \div 12
      m == IF rule.unit = "Y" THEN a.m ELSE (months % 12) + 1
  IN  IF Calendar(rule) THEN DayOf(y, m, Min({a.d, DaysInMonth(y, m)}))
      ELSE anchor + k * Days(rule)

(* The rows of each bucket, up to that of the latest time. *)
BucketRows(times, rule) ==
  LET ts == ToSet(NonNullValues(times))
      anchor == Min(ts)
  IN  IF ts = {} THEN <<>>
      ELSE [k \in 1..(BucketOf(Max(ts), anchor, rule) + 1) |->
              RowsIn(Length(times), {i \in ToSet(NonNull(times)) : BucketOf(ValueAt(times, i), anchor, rule) = k - 1})]
BucketStarts(times, rule) ==
  Whole("DateTime", [k \in DOMAIN BucketRows(times, rule) |->
                       BucketStart(k - 1, Min(ToSet(NonNullValues(times))), rule)])

(* The aggregates of a bucket: the mean of integers is an integer, rounded  *)
(* towards zero, and a bucket without rows has a null count.                *)
BucketClass(c, agg) == IF agg = "count" THEN "I64" ELSE c.cls
BucketCell(c, rows, agg) ==
  LET vs == ValuesIn(c, rows)
  IN  IF rows = <<>> THEN None
      ELSE IF agg = "mean" /\ c.cls = "I64" /\ vs # <<>>
      THEN TruncDiv(Total("I64", vs), Len(vs))
      ELSE Aggregate(c.cls, vs, agg)
BucketColumn(c, buckets, agg) ==
  Filled(BucketClass(c, agg), [k \in DOMAIN buckets |-> BucketCell(c, buckets[k], agg)])
Resampled(df, times, ks, rule, agg) ==
  [k \in DOMAIN ks |-> BucketColumn(df.cols[ks[k]], BucketRows(times, rule), agg)]

(* resample takes the times of a column and gives a frame without an index; *)
(* resample_index takes those of the index, keeps none of its name, and is  *)
(* modelled for rules of a fixed width: it takes a calendar rule too, whose *)
(* width is a negative number to it (builtins.rs:20928), and then panics    *)
(* over the number of buckets if the times differ.                          *)
ResampleOK(df, name) == ColumnOf(df, name).cls = "DateTime"
Resample(df, name, rule, agg) ==
  LET times == ColumnOf(df, name)
      ks == RowsIn(Len(df.names), {k \in DOMAIN df.names : Numeric(df.cols[k])})
  IN  Frame(<<name>> \o [k \in DOMAIN ks |-> df.names[ks[k]]],
            <<BucketStarts(times, rule)>> \o Resampled(df, times, ks, rule, agg),
            Len(BucketRows(times, rule)), NoIndex)

ResampleIndexOK(df) == IsSingle(df) /\ df.ix.levels[1].cls = "DateTime"
ResampleIndex(df, rule, agg) ==
  LET times == df.ix.levels[1]
      ks == RowsIn(Len(df.names), {k \in DOMAIN df.names : Numeric(df.cols[k])})
  IN  Frame([k \in DOMAIN ks |-> df.names[ks[k]]], Resampled(df, times, ks, rule, agg),
            Len(BucketRows(times, rule)), Index(BucketStarts(times, rule), None))
==============================================================================
