--------------------------- MODULE MCDebugSession ---------------------------
(* Instances of DebugSession for TLC: which requests the client may send.   *)
EXTENDS DebugSession_proofs

Simple(commands) == {[command |-> c] : c \in commands}

Launch(entry) == {[command |-> "launch", stop_on_entry |-> e] : e \in entry}

Edit(s, specs) == [command |-> "setBreakpoints", source |-> s, specs |-> specs]

Plain == [cond |-> FALSE, target |-> 0, log |-> FALSE, resolves |-> TRUE]
Conditional == [Plain EXCEPT !.cond = TRUE]
Logpoint == [Plain EXCEPT !.log = TRUE]
SecondHit == [Plain EXCEPT !.target = 2]
NoStopPoint == [Plain EXCEPT !.resolves = FALSE]

(* Every way to drive a session: stops, steps, pause, teardown; queries at  *)
(* a stop and references across stops; breakpoints of two sources, edited   *)
(* before the launch, before the start, while the program runs and while it *)
(* is stopped.                                                              *)
SessionRequests ==
  Launch({TRUE, FALSE}) \cup
  Simple({"configurationDone", "continue", "next", "stepIn", "stepOut", "pause", "evaluate",
          "terminate", "disconnect"}) \cup
  {[command |-> "variables", reference |-> n] : n \in 0..2} \cup
  {Edit("a", {Plain, Logpoint}), Edit("a", {}), Edit("b", {Conditional, NoStopPoint}),
   Edit("b", {SecondHit})}

(* Liveness: every way a session is driven and ended. *)
LivenessRequests ==
  Launch({TRUE}) \cup
  Simple({"configurationDone", "continue", "pause", "evaluate", "terminate", "disconnect"})
=============================================================================
