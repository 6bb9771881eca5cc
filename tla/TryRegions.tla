----------------------------- MODULE TryRegions -----------------------------
(***************************************************************************)
(* Where a StrictPy function is with respect to its try statements: the    *)
(* blocks that lower_try (compiler/src/ir.rs) lays out for                 *)
(*     try: body  except ..: handler  else: orelse  finally: cleanup       *)
(* A code position is the sequence of the try statements around it, from   *)
(* the outermost to the innermost, each with the block that is running.    *)
(***************************************************************************)
EXTENDS Sequences, SequencesExt

CONSTANTS
  ExcType,   \* exception type names
  Try,       \* the try statements of the program, as the records of TryShape
  None       \* an empty Option

\* arms: the types its except clauses name, subclasses included.
TryShape == [arms : SUBSET (ExcType \cup {"Exception"}),
             orelse : BOOLEAN, finally : BOOLEAN]

ASSUME TryAssumption == Try \subseteq TryShape

\* An exception: its type, and whether a raise statement made it (the VM's
\* natives raise too, without an exception object).
Exc == [type : ExcType, thrown : BOOLEAN]

\* A VmError::Trap: ends the program, no handler sees it.
Trap == [type |-> "Trap", thrown |-> FALSE]

Phases == {"body", "handler", "orelse", "finally"}

\* why: the exception that a finally block will re-raise at its end.
Region(s, phase, why) == [try |-> s, phase |-> phase, why |-> why]

\* "Exception" is the catch-all.
Matches(s, e) == e.type \in s.arms \/ "Exception" \in s.arms

\* The position reached when the innermost block of pc completes: the else
\* block after a body, then the finally block, then what follows the try.
Following(pc) ==
  LET r == Last(pc)
  IN  IF r.phase = "body" /\ r.try.orelse
        THEN Append(Front(pc), Region(r.try, "orelse", None))
      ELSE IF r.phase # "finally" /\ r.try.finally
        THEN Append(Front(pc), Region(r.try, "finally", None))
      ELSE Front(pc)
=============================================================================
