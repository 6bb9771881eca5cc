----------------------------- MODULE MCNotebook -----------------------------
(* Small frames for Notebook: three rows, with nulls in different places.  *)
EXTENDS Notebook

MCWords == <<"", "a", "b", "c", "k", "r", "t", "v", "x", "y", "z">>
MCNumbers == -99..99

Day(cells) == Filled("DateTime", cells)
Str(cells) == Filled("Str", cells)
Num(cells) == Filled("I64", cells)
Half(cells) == Filled("F64", [i \in DOMAIN cells |-> IF cells[i] = None THEN None ELSE Quotient(cells[i], 2)])

\* Without an index, with one, with two levels; the days are in January,
\* February and March 1970.
Plain == FromColumns(<<"k", "x", "t">>,
  <<Str(<<"a", "b", "a">>), Num(<<3, None, 1>>), Day(<<30, 39, None>>)>>)
Indexed == [FromColumns(<<"k", "x", "t">>,
  <<Str(<<"b", None, "a">>), Half(<<2, 1, None>>), Day(<<62, 30, 30>>)>>)
    EXCEPT !.ix = Index(Day(<<30, None, 2>>), None)]
Levels == [FromColumns(<<"k", "x">>, <<Str(<<None, "a", None>>), Num(<<1, 2, 3>>)>>)
    EXCEPT !.ix = MultiIndex(<<Str(<<"b", "a", "b">>), Num(<<2, 2, None>>)>>, <<"", "j">>)]
WithCategories == FromColumns(<<"k", "c">>,
  <<CatOrdered(<<"b", "a", "b">>, <<"a", "b">>), CatOf(<<"a", "b", "a">>, <<FALSE, FALSE, TRUE>>)>>)
MCStarts == {Plain, Indexed, Levels, WithCategories}

\* The second frames: text keys under an index of days, and categories.
ByDay == [FromColumns(<<"k", "v", "t">>,
  <<Str(<<"a", None, "a">>), Num(<<7, 8, None>>), Day(<<35, 30, 30>>)>>)
    EXCEPT !.ix = Index(Day(<<2, 30, None>>), "d")]
ByLevels == [FromColumns(<<"k">>, <<CatOf(<<"b", "a">>, <<FALSE, FALSE>>)>>)
    EXCEPT !.ix = MultiIndex(<<Str(<<"c", "a">>), Num(<<1, 2>>)>>, <<"i", "j">>)]
MCCompanions == {ByDay, ByLevels}
=============================================================================
