------------------------------ MODULE Loading ------------------------------
(***************************************************************************)
(* Frames to and from files of comma-separated values: the text of a file, *)
(* as a sequence of characters, and the cells of a frame as texts.         *)
(***************************************************************************)
EXTENDS Windows

CONSTANTS
  Comma, Quote, LF, CR,  \* the characters with a meaning
  Numbers                \* the integers of the instance, and twice its floats

(* A field is quoted if it has a character with a meaning, its quotes       *)
(* doubled; every row ends with a newline.                                  *)
CsvField(field) ==
  IF ToSet(field) \intersect {Comma, Quote, LF, CR} = {} THEN field
  ELSE <<Quote>> \o FlattenSeq([i \in DOMAIN field |->
                      IF field[i] = Quote THEN <<Quote, Quote>> ELSE <<field[i]>>]) \o <<Quote>>
CsvText(rows) ==
  FlattenSeq([r \in DOMAIN rows |->
    FlattenSeq([k \in DOMAIN rows[r] |->
      (IF k = 1 THEN <<>> ELSE <<Comma>>) \o CsvField(rows[r][k])]) \o <<LF>>])

(* The parser's state: its mode, the field and row it is in, the rows that  *)
(* are done, and whether a carriage return has just ended a row, so that a  *)
(* newline after it is skipped.                                             *)
CsvStart == [mode |-> "start", field |-> <<>>, row |-> <<>>, rows |-> <<>>, cr |-> FALSE]
EndField(s) == [s EXCEPT !.mode = "start", !.row = Append(s.row, s.field), !.field = <<>>]
EndRow(s) ==
  LET t == EndField(s) IN [t EXCEPT !.rows = Append(t.rows, t.row), !.row = <<>>]
Literal(s, c, mode) == [s EXCEPT !.field = Append(s.field, c), !.mode = mode]

CsvQuoted(s, c) == IF c = Quote THEN [s EXCEPT !.mode = "quote"] ELSE Literal(s, c, "quoted")
CsvSeparated(s, c) ==
  CASE c = Comma      -> EndField(s)
    [] c \in {LF, CR} -> [EndRow(s) EXCEPT !.cr = (c = CR)]
    [] OTHER          -> Literal(s, c, "unquoted")
CsvChar(s, c) ==
  LET t == [s EXCEPT !.cr = FALSE]
  IN  CASE s.cr /\ c = LF                    -> t
        [] s.mode = "quoted"                 -> CsvQuoted(t, c)
        [] s.mode = "start" /\ c = Quote     -> [t EXCEPT !.mode = "quoted"]
        [] s.mode = "quote" /\ c = Quote     -> Literal(t, c, "quoted")
        [] OTHER                             -> CsvSeparated(t, c)

(* What is left at the end is a row if it has anything in it. *)
CsvRows(text) ==
  LET s == FoldLeft(CsvChar, CsvStart, text)
  IN  IF s.field = <<>> /\ s.row = <<>> THEN s.rows ELSE Append(s.rows, EndField(s).row)

(* A single line: newlines have no meaning, and the last field is always a  *)
(* field.                                                                   *)
CsvLineChar(s, c) ==
  IF c \in {LF, CR} /\ s.mode # "quoted" THEN Literal(s, c, "unquoted") ELSE CsvChar(s, c)
CsvLine(text) == EndField(FoldLeft(CsvLineChar, CsvStart, text)).row

------------------------------------------------------------------------------
(* Cells as texts.  A null is written as an empty cell, and so is the text  *)
(* "null"; an empty cell is read as a null.                                 *)

CellOut(c, i) == IF NullAt(c, i) THEN "null" ELSE CellText(c, i)
Stringify(f) == [i \in 1..f.nrows |-> [k \in DOMAIN f.cols |-> CellOut(f.cols[k], i)]]
WriteCsv(f) ==
  [header |-> f.names,
   rows |-> [i \in 1..f.nrows |-> [k \in DOMAIN f.cols |->
               IF Stringify(f)[i][k] = "null" THEN "" ELSE Stringify(f)[i][k]]]]

(* The values a text of a class may stand for. *)
Values(cls) ==
  CASE cls = "Bool" -> BOOLEAN
    [] cls = "F64"  -> {Quotient(a, 2) : a \in Numbers}
    [] OTHER        -> Numbers
Readings(cls, text) ==
  IF cls = "Str" THEN {text} ELSE {v \in Values(cls) : ToText(cls, v) = text}

(* A schema pairs names and classes; one that names no class is of strings. *)
FromRowsOK(rows, schema) ==
  \A r \in DOMAIN rows :
    /\ Len(rows[r]) = Len(schema)
    /\ \A k \in DOMAIN schema : rows[r][k] # "" => Readings(schema[k][2], rows[r][k]) # {}
FromRows(rows, schema) ==
  LET read(cls, text) == IF text = "" THEN None ELSE CHOOSE v \in Readings(cls, text) : TRUE
  IN  Frame([k \in DOMAIN schema |-> schema[k][1]],
            [k \in DOMAIN schema |->
               Filled(schema[k][2], [r \in DOMAIN rows |-> read(schema[k][2], rows[r][k])])],
            Len(rows), NoIndex)

ReadCsvOK(file, schema) ==
  /\ file.header = [k \in DOMAIN schema |-> schema[k][1]]
  /\ FromRowsOK(file.rows, schema)
ReadCsv(file, schema) == FromRows(file.rows, schema)
==============================================================================
