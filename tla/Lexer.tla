------------------------------- MODULE Lexer -------------------------------
(***************************************************************************)
(* The lexer (compiler/src/lexer.rs): from the lines of a text to tokens.  *)
(* A lexeme is a word, an operator, a bracket, a run of digits, a string,  *)
(* a comment "#" or a line continuation "\\"; an f-string is opened and    *)
(* closed by lexemes of its own, with its literal pieces and the braces of *)
(* its interpolations between them.  The characters of a lexeme are left   *)
(* out, but for the dots that make floats of digits.                       *)
(***************************************************************************)
EXTENDS Syntax
LOCAL INSTANCE SequencesExt

FOpen == "f\""
FClose == "\""
Chunk(s) == "chunk" \o s      \* the token FStrChunk of the literal s
Floats == {a \o "." \o b : a, b \in Digits} \cup {"." \o b : b \in Digits}

Layout == {"NEWLINE", "INDENT", "DEDENT", "EOF"}

\* last_token_continues_line: what cannot end a logical line.
Continuing == {"+", "-", "*", "/", "//", "%", "**", "=", "==", "!=", "<", ">", "<=", ">=",
               "&", "|", "^", "<<", ">>", "and", "or", "in", "is", "as", "??"}
                \cup {AugOf(op) : op \in Arithmetic}

\* What may be followed by the index of a tuple.
EndsPostfix(tok) == tok \in Names \cup Digits \cup {")", "]"}

(* The lexer's state: the tokens so far and the last of them that is not   *)
(* layout, the indentation levels, the depth of brackets, the brace depth  *)
(* of each f-string that is open, and whether a logical line begins.       *)
LexStart == [toks |-> <<>>, last |-> "", stack |-> <<0>>, depth |-> 0, fstrings |-> <<>>,
             start |-> TRUE, err |-> FALSE]

Emit(st, tok) ==
  [st EXCEPT !.toks = Append(@, tok), !.last = IF tok \in Layout THEN @ ELSE tok]
LexError(st) == [st EXCEPT !.err = TRUE]

-----------------------------------------------------------------------------
\* A mutant of Indented: a dedent closes one block, however deep it goes.
IndentedByOne(st, ind) ==
  LET cur == Last(st.stack)
  IN  CASE ind = cur -> [st EXCEPT !.start = FALSE]
        [] ind > cur -> Emit([st EXCEPT !.stack = Append(@, ind), !.start = FALSE], "INDENT")
        [] ind < cur -> Emit([st EXCEPT !.stack = Front(@), !.start = FALSE], "DEDENT")

\* handle_line_start, on a line that is not blank.
Indented(st, ind) ==
  LET cur == Last(st.stack)
      kept == SelectSeq(st.stack, LAMBDA level : level <= ind)
      closed == [i \in 1..(Len(st.stack) - Len(kept)) |-> "DEDENT"]
      begun == [st EXCEPT !.start = FALSE]
  IN  CASE ind = cur -> begun
        [] ind = cur + 4 -> Emit([begun EXCEPT !.stack = Append(@, ind)], "INDENT")
        [] ind < cur /\ Last(kept) = ind -> [begun EXCEPT !.stack = kept, !.toks = @ \o closed]
        [] OTHER -> LexError(begun)

InChunk(st) == st.fstrings # <<>> /\ Last(st.fstrings) = 0
InFExpr(st) == st.fstrings # <<>> /\ Last(st.fstrings) > 0
Braces(st, n) == [st EXCEPT !.fstrings[Len(st.fstrings)] = @ + n]

\* start_fstring and next_fstring_chunk.
LexFString(st, piece) ==
  CASE piece = FOpen -> Emit([st EXCEPT !.fstrings = Append(@, 0)], "FSTART")
    [] piece = FClose -> Emit([st EXCEPT !.fstrings = Front(@)], "FEND")
    [] piece = "{" -> Emit(Braces(st, 1), "FEXPR")
    [] piece \in Strings -> Emit(st, Chunk(piece))
    [] OTHER -> LexError(st)

\* lex_op: the brackets are counted, and a brace may close an interpolation.
LexBracket(st, piece) ==
  CASE piece = "}" /\ InFExpr(st) /\ Last(st.fstrings) = 1 -> Emit(Braces(st, -1), "FEXPREND")
    [] piece \in Openers ->
         Emit([(IF piece = "{" /\ InFExpr(st) THEN Braces(st, 1) ELSE st) EXCEPT !.depth = @ + 1], piece)
    [] piece \in Closers /\ st.depth > 0 ->
         Emit([(IF piece = "}" /\ InFExpr(st) THEN Braces(st, -1) ELSE st) EXCEPT !.depth = @ - 1], piece)
    [] OTHER -> LexError(st)

\* The tokens of the lexemes from the i-th, up to a comment or a backslash.
RECURSIVE Scan(_, _, _)
Scan(st, pieces, i) ==
  LET piece == pieces[i]
      next(k) == IF i + k \in DOMAIN pieces THEN pieces[i + k] ELSE ""
      fraction == next(1) = "." /\ next(2) \in Digits
      lastTok == IF st.toks = <<>> THEN "" ELSE Last(st.toks)
  IN  CASE i > Len(pieces) \/ st.err -> st
        [] InChunk(st) \/ piece = FOpen -> Scan(LexFString(st, piece), pieces, i + 1)
        [] piece \in {"#", "\\"} -> st
        [] piece \in Digits /\ fraction -> Scan(Emit(st, piece \o "." \o next(2)), pieces, i + 3)
        [] piece = "." /\ next(1) \in Digits /\ ~EndsPostfix(lastTok) ->
             Scan(Emit(st, "." \o next(1)), pieces, i + 2)
        [] piece \in Openers \cup Closers -> Scan(LexBracket(st, piece), pieces, i + 1)
        [] OTHER -> Scan(Emit(st, piece), pieces, i + 1)

\* A newline ends the logical line, outside brackets and not after an
\* operator that needs a right-hand side.
EndLine(st, line) ==
  CASE st.err \/ st.depth > 0 \/ (line.toks # <<>> /\ Last(line.toks) = "\\") -> st
    [] InChunk(st) -> LexError(st)
    [] st.last \in Continuing -> st
    [] OTHER -> Emit([st EXCEPT !.start = TRUE], "NEWLINE")

Blank(line) == line.toks = <<>> \/ line.toks[1] = "#"

LexLine(st, line) ==
  IF st.start /\ st.depth = 0 /\ st.fstrings = <<>>
  THEN IF Blank(line) \/ st.err THEN st
       ELSE EndLine(Scan(Indented(st, line.ind), line.toks, 1), line)
  ELSE EndLine(Scan(st, line.toks, 1), line)

\* The end of the text ends the last line and every block.
LexEnd(st) ==
  LET ended == IF st.depth = 0 /\ ~st.start THEN Emit(st, "NEWLINE") ELSE st
  IN  IF st.err \/ InChunk(st) THEN <<"ERROR">>
      ELSE ended.toks \o [i \in 1..(Len(st.stack) - 1) |-> "DEDENT"] \o <<"EOF">>

Lex(text) == LexEnd(FoldLeft(LexLine, LexStart, text))
=============================================================================
