-------------------------- MODULE MCCompileCache --------------------------
(* CompileCache with a script and two modules that may import one another. *)
EXTENDS CompileCache

MCText == {"leaf", "a", "b", "ab", "main", "bad"}
MCParses == MCText \ {"bad"}
MCImports ==
  [x \in MCParses |-> CASE x = "leaf" -> {}
                         [] x = "ab" -> {"a", "b"}
                         [] OTHER -> {x}]

=============================================================================
