----------------------------- MODULE MCLspReads -----------------------------
(* An instance of LspReads for TLC: one project, a source file and a test   *)
(* module.                                                                  *)
EXTENDS LspReads

OneHome == [f \in {"a", "t"} |-> "A"]
=============================================================================
