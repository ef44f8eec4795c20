---------------------------- MODULE MCMcpServer ----------------------------
(* Instances of McpServer for TLC: which file is in which project, and      *)
(* every tool on the files that tell something of it.                       *)
EXTENDS McpServer

(* Project B inside project A; o in a project outside the allowed root, x in none. *)
NestedHome == [f \in {"a", "b", "o", "x"} |->
                 CASE f = "a" -> "A" [] f = "b" -> "B" [] f = "o" -> "O" [] OTHER -> None]
NestedUnder == [f \in {"a", "b", "o", "x"} |->
                  CASE f = "a" -> {"A"} [] f = "b" -> {"A", "B"} [] f = "o" -> {"O"} [] OTHER -> {}]

C(tool, file) == [tool |-> tool, file |-> file, arguments |-> "good"]
AllCalls ==
  {C("check", None), C("check", "x"), C("complete", "a"),
   C("surface_read", "a"), C("saved_roots", "b"), C("data_children", "a"), C("data_read", "o"),
   C("surface_write", "b"),
   [C("surface_write", "b") EXCEPT !.arguments = "bad_operation"],
   C("run", "a"), C("run", "o"), [C("run", "a") EXCEPT !.arguments = "bad"]}

(* Prints of narrow and wide characters, up to past the cap. *)
NarrowAndWide == {<<1>>, <<2>>, <<1, 2>>, <<2, 1>>}
TwoPrints == {<<>>} \cup {<<t>> : t \in NarrowAndWide} \cup {<<t, u>> : t, u \in NarrowAndWide}
=============================================================================
