----------------------------- MODULE MCHandlers -----------------------------
(* Small programs for Handlers: the try statements they are built from.    *)
EXTENDS Handlers

TryElse == [arms |-> {"A"}, orelse |-> TRUE, finally |-> FALSE]
TryAll == [arms |-> {"Exception"}, orelse |-> TRUE, finally |-> FALSE]
TryFinally == [arms |-> {}, orelse |-> FALSE, finally |-> TRUE]
TryBoth == [arms |-> {"A"}, orelse |-> FALSE, finally |-> TRUE]

\* Handlers and cleanup in try statements of their own.
Separate == {TryElse, TryFinally}

\* Among them a handler and a cleanup in one statement.
Mixed == {TryAll, TryBoth}
=============================================================================
