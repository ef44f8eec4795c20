------------------------------ MODULE DebugView ------------------------------
(***************************************************************************)
(* What a debug session promises its client, told by the events it sends:  *)
(* a launch is configured, the run alternates between running and stopped, *)
(* and the session ends once, either with the run's exit status ("ended")  *)
(* or by abandoning a run that would not unwind ("abandoned").             *)
(***************************************************************************)

VARIABLE view

Init == view = "unlaunched"

(* `initialized` after an accepted launch. *)
Configure == view = "unlaunched" /\ view' = "configured"

(* configurationDone is refused: the client may launch again. *)
Refuse == view = "configured" /\ view' = "unlaunched"

Start == view = "configured" /\ view' = "running"

(* `stopped`. *)
Stop == view = "running" /\ view' = "stopped"

(* `continued`, or the response to a step. *)
Resume == view = "stopped" /\ view' = "running"

(* `exited` and `terminated`, or `terminated` alone. *)
End == view \in {"running", "stopped"} /\ view' \in {"ended", "abandoned"}

Next == Configure \/ Refuse \/ Start \/ Stop \/ Resume \/ End

Spec == Init /\ [][Next]_view
=============================================================================
