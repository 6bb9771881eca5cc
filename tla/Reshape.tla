------------------------------ MODULE Reshape ------------------------------
(***************************************************************************)
(* Long and wide shapes of a frame: melt, stack and unstack.               *)
(***************************************************************************)
EXTENDS Joins

(* The row numbers of a frame, each m times. *)
Repeated(n, m) == [k \in 1..(n * m) |-> 1 + ((k - 1) \div m)]

(* Columns of one class interleaved: the cells of the first row, then of    *)
(* the second one; the names of the columns alongside.                      *)
Interleaved(cols, n) ==
  [k \in 1..(n * Len(cols)) |->
     PluckRow(cols[1 + ((k - 1) % Len(cols))], 1 + ((k - 1) \div Len(cols)))]
VariablesByColumn(names, n) ==   \* mutant: column by column
  Whole("Str", [k \in 1..(n * Len(names)) |-> names[1 + ((k - 1) \div n)]])
Variables(names, n) == Whole("Str", [k \in 1..(n * Len(names)) |-> names[1 + ((k - 1) % Len(names))]])

OneClass(cols) == \A k \in DOMAIN cols : cols[k].cls = cols[1].cls

MeltOK(df, ids, vars) ==
  /\ vars # <<>>
  /\ \A name \in ToSet(ids \o vars) : HasColumn(df, name)
  /\ OneClass(KeyColumns(df, vars))
Melt(df, ids, vars) ==
  LET cols == KeyColumns(df, vars)
      rows == Repeated(df.nrows, Len(vars))
  IN  Frame(ids \o <<"variable", "value">>,
            [k \in DOMAIN ids |-> Take(ColumnOf(df, ids[k]), rows)]
              \o <<Variables(vars, df.nrows), Pluck(cols[1].cls, Interleaved(cols, df.nrows))>>,
            Len(rows), TakeIndex(df.ix, rows))

(* stack turns the names of the columns into the innermost level; the name  *)
(* of a single index is missing, that of a level is then "".                *)
StackOK(df) == df.cols # <<>> /\ OneClass(df.cols)
Stack(df) ==
  LET rows == Repeated(df.nrows, Len(df.cols))
      inner == Variables(df.names, df.nrows)
  IN  Frame(<<"value">>, <<LevelOf(df.cols[1].cls, Interleaved(df.cols, df.nrows))>>, Len(rows),
            IF df.ix.levels = <<>> THEN Index(inner, None)
            ELSE MultiIndex(Append(TakeIndex(df.ix, rows).levels, inner), Append(LevelNames(df.ix), "")))

(* unstack makes a column of each label of the innermost level, and a row   *)
(* of each combination of labels of the others.  Of several rows with the   *)
(* same labels the last one stays.                                          *)
LevelText(c, i) ==
  IF NullAt(c, i) THEN "<null>" ELSE IF c.cls = "Cat" THEN "?" ELSE ToText(c.cls, ValueAt(c, i))
LevelsText(texts) == FoldLeft(LAMBDA text, t : text \o t \o Sep, "", texts)
UnstackOK(df) == IsMulti(df) /\ df.cols # <<>>
Unstack(df) ==
  LET inner == Last(df.ix.levels)
      outer == Front(df.ix.levels)
      row == [i \in 1..df.nrows |-> LevelsText([k \in DOMAIN outer |-> LevelText(outer[k], i)])]
      col == [i \in 1..df.nrows |-> LevelText(inner, i)]
      rs == Firsts(Rows(df.nrows), row)
      cs == Firsts(Rows(df.nrows), col)
      at(r, c) == Max({0} \union {i \in 1..df.nrows : row[i] = row[r] /\ col[i] = col[c]})
      label(c, k) == IF Len(df.cols) = 1 THEN col[c] ELSE col[c] \o "_" \o df.names[k]
      column(c, k) == LevelOf(df.cols[k].cls,
                        [r \in DOMAIN rs |-> PluckRow(df.cols[k], at(rs[r], c))])
      levels == [k \in DOMAIN outer |-> Take(outer[k], rs)]
  IN  Frame(FlattenSeq([k \in DOMAIN df.cols |-> [c \in DOMAIN cs |-> label(cs[c], k)]]),
            FlattenSeq([k \in DOMAIN df.cols |-> [c \in DOMAIN cs |-> column(cs[c], k)]]),
            Len(rs),
            IF Len(levels) = 1 THEN Index(levels[1], IF df.ix.names[1] = "" THEN None ELSE df.ix.names[1])
            ELSE MultiIndex(levels, Front(df.ix.names)))
==============================================================================
