---------------------------- MODULE MCLspBackend ----------------------------
(* Instances of LspBackend for TLC: which files are under which root.       *)
EXTENDS LspBackend_safety

(* One project: a source file and a test module. *)
OneHome == [f \in {"a", "t"} |-> "A"]

(* Two projects: a file of A and a file of B. *)
TwoHome == [f \in {"a", "b"} |-> IF f = "b" THEN "B" ELSE "A"]
=============================================================================
