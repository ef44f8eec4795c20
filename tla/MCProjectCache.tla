--------------------------- MODULE MCProjectCache ---------------------------
(* Instances of ProjectCache for TLC: which file is in which project, and   *)
(* every tool on the files that tell something of it.                       *)
EXTENDS ProjectCache

(* Project B inside project A, and a file outside both. *)
NestedHome == [f \in {"a", "b", "x"} |-> CASE f = "a" -> "A" [] f = "b" -> "B" [] OTHER -> None]
NestedUnder == [f \in {"a", "b", "x"} |->
                  CASE f = "a" -> {"A"} [] f = "b" -> {"A", "B"} [] OTHER -> {}]

C(tool, file) == [tool |-> tool, file |-> file, source |-> None]
NestedCalls ==
  {C("check", "a"), C("check", "b"), C("check", "x"), [C("check", "a") EXCEPT !.source = "t"],
   C("type_at_position", "a"), C("complete", "b"), C("namespace_complete", "a"),
   C("resource_schema", "b"), C("surface_routes", "a"), C("data", "b")}

(* One project. *)
OneHome == [f \in {"a"} |-> "A"]
OneUnder == [f \in {"a"} |-> {"A"}]
OneCalls == {C("check", "a"), [C("check", "a") EXCEPT !.source = "t"]}
=============================================================================
