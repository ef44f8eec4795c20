------------------------------ MODULE ToolCall ------------------------------
(***************************************************************************)
(* What a tool call of marrow-mcp that reads a project may count on: the   *)
(* call is for a file, its load finds a root above that file or ends the   *)
(* call, and the tool then has this one project, whatever else happens,    *)
(* until it has answered.                                                  *)
(*                                                                         *)
(* ProjectCache, where a load is several steps and reads a disk that       *)
(* changes, and McpServer, where it is one, both implement it.             *)
(***************************************************************************)
CONSTANTS
  Files,  \* paths a tool may be given
  Under,  \* every project root above a file
  None

VARIABLES stage, file, root
vars == <<stage, file, root>>

Init == stage = "none" /\ file = None /\ root = None

Ask ==
  /\ stage = "none" /\ stage' = "loading"
  /\ file' \in Files
  /\ UNCHANGED root

(* The load finds the project, be it the one that is cached. *)
Load ==
  /\ stage = "loading" /\ stage' = "tool"
  /\ root' \in Under[file]
  /\ UNCHANGED file

(* The load fails, the tool answers, or the process ends. *)
End ==
  /\ stage \in {"loading", "tool"} /\ stage' = "none"
  /\ file' = None /\ root' = None

Next == Ask \/ Load \/ End

Spec == Init /\ [][Next]_vars
=============================================================================
