------------------------------ MODULE FrontEnd ------------------------------
(***************************************************************************)
(* The front end as a whole (pretty.rs, lexer.rs and parser.rs): a program *)
(* is printed, its text is laid out anew in the ways that are to make no   *)
(* difference, one step at a time, and it is lexed and parsed again.       *)
(***************************************************************************)
EXTENDS Printer, Parser
LOCAL INSTANCE SequencesExt

CONSTANTS
  Programs,    \* trees to begin from
  Inds,        \* indentations of the continuation lines
  MaxEdits     \* how often the text of each program is edited

VARIABLES tree, text, edits, shifted
vars == <<tree, text, edits, shifted>>

Init ==
  /\ tree \in Programs
  /\ text = <<>>
  /\ edits = 0
  /\ shifted = FALSE

\* The tree is printed, once.
PrintTree ==
  /\ text = <<>>
  /\ text' = PrintModule(tree)
  /\ UNCHANGED <<tree, edits, shifted>>

-----------------------------------------------------------------------------
Toks(i) == text[i].toks
\* What comes before the j-th lexeme of line i on its logical line, and the
\* brackets it leaves open.
Start(i) == CHOOSE k \in 1..i : ~text[k].cont /\ \A l \in (k + 1)..i : text[l].cont
Before(i, j) == FlattenSeq([k \in 1..(i - Start(i)) |-> Toks(Start(i) + k - 1)]) \o SubSeq(Toks(i), 1, j - 1)
CountIn(s, toks) == Cardinality({k \in DOMAIN s : s[k] \in toks})
Depth(s) == CountIn(s, Openers) - CountIn(s, Closers)
InFString(s) == CountIn(s, {FOpen}) > CountIn(s, {FClose})

EndsWith(i, toks) == Toks(i) # <<>> /\ Last(Toks(i)) \in toks
Continued(i) == i \in DOMAIN text /\ text[i].cont
\* A logical line begins.
Begins(i) == ~text[i].cont /\ ~Blank(text[i])

Edit(new) == edits < MaxEdits[tree] /\ ~shifted /\ edits' = edits + 1 /\ text' = new /\ UNCHANGED <<tree, shifted>>
Split(i, j, ind, tail) ==
  SubSeq(text, 1, i - 1)
    \o <<[text[i] EXCEPT !.toks = SubSeq(@, 1, j) \o tail],
         [ind |-> ind, toks |-> SubSeq(Toks(i), j + 1, Len(Toks(i))), cont |-> TRUE]>>
    \o SubSeq(text, i + 1, Len(text))

\* A blank line, or one with a comment only, of any indentation.
InsertLine(i, ind, toks) ==
  /\ text # <<>>
  /\ i > 1 => ~EndsWith(i - 1, {"\\"})
  /\ Edit(InsertAt(text, i, [ind |-> ind, toks |-> toks, cont |-> Continued(i)]))
AppendComment(i) ==
  /\ Toks(i) # <<>> /\ ~EndsWith(i, {"\\", "#"})
  /\ Edit([text EXCEPT ![i].toks = Append(@, "#")])
BreakInBrackets(i, j, ind) ==
  /\ Depth(Before(i, j + 1)) > 0 /\ ~InFString(SubSeq(Toks(i), 1, j)) /\ ~EndsWith(i, {"\\", "#"})
  /\ Edit(Split(i, j, ind, <<>>))
BreakAfterOperator(i, j, ind) ==
  /\ Toks(i)[j] \in Continuing /\ ~InFString(SubSeq(Toks(i), 1, j)) /\ Toks(i)[j + 1] \notin {"#", "\\"}
  /\ Edit(Split(i, j, ind, <<>>))
BreakWithBackslash(i, j, ind) ==
  /\ ~InFString(SubSeq(Toks(i), 1, j)) /\ Toks(i)[j + 1] \notin {"#", "\\"}
  /\ Edit(Split(i, j, ind, <<"\\">>))

\* A comma after the last of several items of brackets opened at o on line i
\* and closed at c; not in the parameters of a function or a type.
TrailingComma(i, o, c) ==
  LET inner == SubSeq(Toks(i), o + 1, c - 1)
      here(toks) == \E k \in DOMAIN inner : inner[k] \in toks /\ Depth(SubSeq(inner, 1, k)) = 0
  IN  /\ Toks(i)[o] \in Openers /\ Toks(i)[c] \in Closers /\ Depth(inner) = 0
      /\ \A k \in DOMAIN inner : Depth(SubSeq(inner, 1, k)) >= 0
      /\ here({","}) /\ ~here({":", "for"}) /\ Last(inner) # ","
      /\ Toks(i)[1] \notin {"fn", "final", "open", "sealed", "protocol", "type", "#"}
      /\ o > 1 => Toks(i)[o - 1] # "fn"
      /\ ~InFString(SubSeq(Toks(i), 1, o))
      /\ Edit([text EXCEPT ![i].toks = InsertAt(@, c, ",")])

\* The statement that is alone in its block goes to the line of the colon.
JoinBlock(i) ==
  /\ EndsWith(i, {":"}) /\ Begins(i) /\ Begins(i + 1) /\ ~Continued(i + 2)
  /\ Toks(i)[1] \notin {"match", "final", "open", "sealed", "protocol"}
  /\ text[i + 1].ind > text[i].ind /\ Last(Toks(i + 1)) # ":" /\ Toks(i + 1)[1] \notin {"@", "if", "while", "for", "match", "try", "with", "case"}
  /\ \A k \in (i + 2)..Len(text) :
       Begins(k) /\ text[k].ind >= text[i + 1].ind =>
         \E l \in (i + 2)..(k - 1) : Begins(l) /\ text[l].ind < text[i + 1].ind
  /\ Edit(SubSeq(text, 1, i - 1) \o <<[text[i] EXCEPT !.toks = @ \o Toks(i + 1)]>>
            \o SubSeq(text, i + 2, Len(text)))

\* A string and str of a name, added, are an f-string.
UseFString(i, j) ==
  LET ts == Toks(i)
  IN  /\ j + 5 <= Len(ts) /\ ts[j] \in Strings
      /\ SubSeq(ts, j + 1, j + 3) = <<"+", "str", "(">> /\ ts[j + 4] \in Names /\ ts[j + 5] = ")"
      /\ j > 1 /\ ts[j - 1] \in {"=", "(", ",", "return"}
      /\ j + 5 < Len(ts) => ts[j + 6] \in {")", ",", "]"}
      /\ Edit([text EXCEPT ![i].toks =
                 SubSeq(ts, 1, j - 1) \o <<FOpen, ts[j], "{", ts[j + 4], "}", FClose>>
                   \o SubSeq(ts, j + 6, Len(ts))])

\* The logical line before line i, if there is one.
Previous(i) == {k \in 1..(i - 1) : Begins(k) /\ \A l \in (k + 1)..(i - 1) : ~Begins(l)}
\* One line is indented further, and not so that it continues the block that
\* the line before is in.
ShiftLine(i, by) ==
  /\ ~shifted /\ Begins(i)
  /\ by # 2 => \A k \in Previous(i) : text[k].ind <= text[i].ind
  /\ text' = [text EXCEPT ![i].ind = @ + by]
  /\ shifted' = TRUE
  /\ UNCHANGED <<tree, edits>>

Next ==
  \/ PrintTree
  \/ \E i \in 1..(Len(text) + 1), ind \in Inds, toks \in {<<>>, <<"#">>} : InsertLine(i, ind, toks)
  \/ \E i \in DOMAIN text :
       \/ AppendComment(i)
       \/ \E j \in 1..(Len(Toks(i)) - 1), ind \in Inds :
            \/ BreakInBrackets(i, j, ind)
            \/ BreakAfterOperator(i, j, ind)
            \/ BreakWithBackslash(i, j, ind)
       \/ \E o, c \in DOMAIN Toks(i) : o < c /\ TrailingComma(i, o, c)
       \/ i < Len(text) /\ JoinBlock(i)
       \/ \E j \in DOMAIN Toks(i) : UseFString(i, j)
       \/ \E by \in {2, 4, 8} : ShiftLine(i, by)

Spec == Init /\ [][Next]_vars

-----------------------------------------------------------------------------
\* However the text of a program is laid out, it parses to the tree it was
\* printed from (the round trip of compiler/tests/roundtrip.rs, with the
\* layouts the language allows in between).
SameTree == text # <<>> /\ ~shifted => Parse(Lex(text)).v = tree

\* A line indented further than its block allows is an error, whichever line
\* it is and however the rest is laid out (lexer.rs, handle_line_start).
OverIndentRejected == shifted => Parse(Lex(text)).p = 0
=============================================================================
