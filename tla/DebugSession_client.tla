------------------------ MODULE DebugSession_client ------------------------
(***************************************************************************)
(* What the client of a debug session may rely on, for every set of        *)
(* sources and requests and every bound: the events it is sent are those   *)
(* of a debugger (DebugSession implements DebugView), the breakpoints it   *)
(* edits govern the next statement, no logpoint output is lost, and a      *)
(* query returns.                                                          *)
(***************************************************************************)
EXTENDS DebugSession_proofs, FiniteSetTheorems

(* What the client has been told is what the session's own state says.     *)
ViewAgrees ==
  /\ ~running /\ pc \notin {"done", "exit"} =>
       view = IF pending THEN "configured" ELSE "unlaunched"
  /\ running /\ ~terminating => view = IF stopped_at # NoStop THEN "stopped" ELSE "running"
  /\ running /\ terminating => view \in {"running", "stopped"}

RInv == IInv /\ ViewAgrees
-----------------------------------------------------------------------------
USE DEF vars, clientVars, protocolVars, launchVars, stopVars, sharedVars, runVars, historyVars

(* The facts of the phases that the client's view depends on.              *)
LEMMA ViewFacts ==
  ASSUME IInv
  PROVE  /\ running => pc \notin {"done", "exit"} /\ ~pending
         /\ terminating => running /\ pc = "teardown" /\ stopped_at = NoStop
         /\ ~running => pc \notin {"query", "teardown"} /\ stopped_at = NoStop
                         /\ pending_resume = NoMode
         /\ pc = "teardown" => running /\ terminating
         /\ pending_resume # NoMode => stopped_at = NoStop /\ running /\ ~terminating
         /\ events # <<>> /\ Head(events).type = "stopped" /\ running /\ ~terminating =>
              stopped_at = NoStop /\ Head(events).stop # NoStop
  BY OutputQueues, AnnouncingQueues, OneMessage, MessageFacts
     DEF IInv, Phases, Idle, Live, Executing, Announced, AtStop, Shown, Asking, Answered, Panicked,
         Staged, Waking, Winding, Over, NothingStopped, TypeOK, QueuesTypeOK

(* A step that leaves what the client sees and what the view is read from. *)
LEMMA QuietStep ==
  ASSUME RInv, UNCHANGED <<view, running, pending, terminating, stopped_at>>,
         pc \in {"done", "exit"} => pc' \in {"done", "exit"}
  PROVE  ViewAgrees' /\ [View!Next]_view
  BY DEF RInv, ViewAgrees

(* Requests that are queued, refused or only looked at leave the view alone. *)
LEMMA QuietRequests ==
  ASSUME RInv, NEW r \in Requests,
         on_set_breakpoints(r) \/ on_variables(r) \/ on_evaluate(r)
  PROVE  ViewAgrees' /\ [View!Next]_view
<1>1. UNCHANGED <<view, running, pending, terminating, stopped_at>> /\ pc \in {"drain", "wait"}
  BY DEF on_set_breakpoints, on_variables, on_evaluate, Receive
<1>2. QED  BY <1>1, QuietStep

(* Loop steps of the protocol thread that send the client no event.         *)
LEMMA QuietProtocol ==
  ASSUME RInv, DrainDone \/ WaitTimeout \/ QueryReturns \/ Exit
  PROVE  ViewAgrees' /\ [View!Next]_view
<1>1. /\ UNCHANGED <<view, running, pending, terminating, stopped_at>>
      /\ pc \in {"done", "exit"} => pc' \in {"done", "exit"}
  BY DEF DrainDone, WaitTimeout, QueryReturns, Exit
<1>2. QED  BY <1>1, QuietStep

(* The run thread sends the client nothing itself.                          *)
LEMMA QuietRun ==
  ASSUME RInv, Hook \/ Program \/ Client
  PROVE  ViewAgrees' /\ [View!Next]_view
<1>1. UNCHANGED <<pc, view, running, pending, terminating, stopped_at>>
  <2>1. CASE EvaluateBreakpoints  BY <2>1 DEF EvaluateBreakpoints
  <2>2. CASE StopOrGo  BY <2>2 DEF StopOrGo
  <2>3. CASE Park  BY <2>3 DEF Park, ServeQuery, ServeResume, ServeTerminate
  <2>4. CASE Program  BY <2>4 DEF Program, ReachStatement, FinishProgram
  <2>5. CASE Client  BY <2>5 DEF Client, Send, CloseInput
  <2>6. QED  BY <2>1, <2>2, <2>3, <2>4, <2>5 DEF Hook
<1>2. QED  BY <1>1, QuietStep

(* An accepted launch configures, any other is a stutter.                   *)
LEMMA LaunchView ==
  ASSUME RInv, NEW r \in Requests, on_launch(r)
  PROVE  ViewAgrees' /\ [View!Next]_view
  BY ViewFacts DEF RInv, ViewAgrees, on_launch, Receive, AlreadyConfigured,
     clear_launch_configuration, View!Next, View!Configure

(* configurationDone starts the run or refuses it.                          *)
LEMMA ConfigurationDoneView ==
  ASSUME RInv, NEW r \in Requests, on_configuration_done(r)
  PROVE  ViewAgrees' /\ [View!Next]_view
<1>1. CASE ~pending
  <2>1. /\ UNCHANGED <<view, running, pending, terminating, stopped_at>> /\ pc \in {"drain", "wait"}
    BY <1>1 DEF on_configuration_done, Receive
  <2>2. QED  BY <2>1, QuietStep
<1>2. CASE pending
  <2>1. ~running /\ view = "configured" /\ stopped_at = NoStop /\ ~terminating
    BY <1>2, ViewFacts DEF RInv, ViewAgrees, on_configuration_done, Receive
  <2>2. CASE StartRun
    BY <2>1, <2>2 DEF StartRun, ViewAgrees, View!Next, View!Start
  <2>3. CASE LaunchRefused
    BY <2>1, <2>3 DEF LaunchRefused, clear_launch_configuration, ViewAgrees, View!Next, View!Refuse
  <2>4. CASE ThreadFailed
    BY <2>1, <2>4 DEF ThreadFailed, ViewAgrees
  <2>5. QED  BY <1>2, <2>2, <2>3, <2>4 DEF on_configuration_done
<1>3. QED  BY <1>1, <1>2

(* A resume is accepted only at a stop the client was told of.              *)
LEMMA ResumeView ==
  ASSUME RInv, NEW r \in Requests, on_resume(r) \/ on_pause(r)
  PROVE  ViewAgrees' /\ [View!Next]_view
<1>1. pc \in {"drain", "wait"} /\ UNCHANGED <<running, pending, terminating>>
  BY DEF on_resume, on_pause, Receive, resume_run
<1>2. CASE UNCHANGED <<stopped_at, view>>  BY <1>1, <1>2, QuietStep
<1>3. CASE IsStopped /\ stopped_at' = NoStop /\ view' = "running"
  <2>1. view = "stopped" /\ running /\ ~terminating
    BY <1>3, ViewFacts DEF RInv, ViewAgrees, IsStopped
  <2>2. QED  BY <1>1, <1>3, <2>1 DEF ViewAgrees, View!Next, View!Resume
<1>4. QED  BY <1>2, <1>3 DEF on_resume, on_pause, resume_run

(* The start of a teardown sends no event.                                  *)
LEMMA TerminateView ==
  ASSUME RInv, terminate_session, pc \in {"drain", "wait"}, pending' = pending
  PROVE  ViewAgrees' /\ [View!Next]_view
  BY ViewFacts DEF RInv, ViewAgrees, terminate_session

(* Collecting the run ends the session, once.                               *)
LEMMA FinishView ==
  ASSUME RInv, running, DropRunning, view' \in {"ended", "abandoned"}
  PROVE  ViewAgrees' /\ [View!Next]_view
<1>1. view \in {"running", "stopped"}  BY DEF RInv, ViewAgrees
<1>2. QED  BY <1>1 DEF DropRunning, ViewAgrees, View!Next, View!End

(* A forwarded stop finds the client running.                               *)
LEMMA EventView ==
  ASSUME RInv, running, events # <<>>, handle_run_event(Head(events)),
         UNCHANGED <<running, pending, terminating>>
  PROVE  ViewAgrees' /\ [View!Next]_view
<1>1. CASE UNCHANGED <<stopped_at, view>>
  BY <1>1, ViewFacts DEF RInv, ViewAgrees
<1>2. CASE /\ Head(events).type = "stopped" /\ ~terminating
           /\ stopped_at' = Head(events).stop /\ view' = "stopped"
  <2>1. view = "running" /\ stopped_at' # NoStop
    BY <1>2, ViewFacts DEF RInv, ViewAgrees
  <2>2. QED  BY <1>2, <2>1 DEF ViewAgrees, View!Next, View!Stop
<1>3. QED  BY <1>1, <1>2 DEF handle_run_event

(* Every loop step of the protocol thread is a step of the view or a stutter. *)
LEMMA ProtocolView ==
  ASSUME RInv, Protocol
  PROVE  ViewAgrees' /\ [View!Next]_view
<1>1. CASE HandleRequest
  <2>1. PICK r \in Requests : Handle(r)
    BY <1>1, QueueTypes DEF HandleRequest, RInv, IInv, TypeOK, QueuesTypeOK
  <2>2. CASE on_terminate(r)
    <3>1. CASE running  BY <2>2, <3>1, TerminateView DEF on_terminate, Receive, terminate_session
    <3>2. CASE ~running
      <4>1. UNCHANGED <<view, running, pending, terminating, stopped_at>> /\ pc \in {"drain", "wait"}
        BY <2>2, <3>2 DEF on_terminate, Receive
      <4>2. QED  BY <4>1, QuietStep
    <3>3. QED  BY <3>1, <3>2
  <2>3. CASE on_disconnect(r)
    BY <2>3, TerminateView DEF on_disconnect, Receive, terminate_session
  <2>4. QED
    BY <2>1, <2>2, <2>3, QuietRequests, LaunchView, ConfigurationDoneView, ResumeView DEF Handle
<1>2. CASE flush_resume
  <2>1. CASE ~ResumeStaged \/ rt # "ended"
    <3>1. UNCHANGED <<view, running, pending, terminating, stopped_at>> /\ pc = "flush"
      BY <1>2, <2>1 DEF flush_resume
    <3>2. QED  BY <3>1, QuietStep
  <2>2. CASE ResumeStaged /\ rt = "ended"
    BY <1>2, <2>2, FinishView, ViewFacts DEF flush_resume, finish_run, ResumeStaged, RInv
  <2>3. QED  BY <2>1, <2>2
<1>3. CASE pump_run_event
  <2>1. CASE running /\ events # <<>>
    BY <1>3, <2>1, EventView DEF pump_run_event, handle_run_event
  <2>2. CASE running /\ events = <<>> /\ rt = "ended"
    BY <1>3, <2>2, FinishView DEF pump_run_event, finish_run
  <2>3. CASE ~running \/ (events = <<>> /\ rt # "ended")
    <3>1. UNCHANGED <<view, running, pending, terminating, stopped_at>> /\ pc = "pump"
      BY <1>3, <2>3 DEF pump_run_event
    <3>2. QED  BY <3>1, QuietStep
  <2>4. QED  BY <2>1, <2>2, <2>3
<1>4. CASE finish_run_within
  <2>1. running  BY <1>4, ViewFacts DEF finish_run_within, RInv
  <2>2. CASE events # <<>>
    BY <1>4, <2>1, <2>2, EventView DEF finish_run_within, handle_run_event
  <2>3. CASE events = <<>>
    BY <1>4, <2>1, <2>3, FinishView DEF finish_run_within, finish_run
  <2>4. QED  BY <2>2, <2>3
<1>5. CASE detach_run
  <2>1. running  BY <1>5, ViewFacts DEF detach_run, RInv
  <2>2. QED  BY <1>5, <2>1, FinishView DEF detach_run
<1>6. CASE InputEnded
  BY <1>6, TerminateView DEF InputEnded, terminate_session
<1>7. QED
  BY <1>1, <1>2, <1>3, <1>4, <1>5, <1>6, QuietProtocol DEF Protocol

(* Every step of the session is a step of the client's view or a stutter.   *)
LEMMA NextView ==
  ASSUME RInv, [Next]_vars
  PROVE  ViewAgrees' /\ [View!Next]_view
<1>1. CASE UNCHANGED vars
  BY <1>1, QuietStep
<1>2. QED  BY <1>1, ProtocolView, QuietRun DEF Next, Exited

(* The debug session implements the abstract view: `initialized` once per  *)
(* accepted launch, then stops and resumes that alternate, then one end.   *)
THEOREM ClientViewCorrect == Spec => ClientView
<1>1. Init => View!Init /\ ViewAgrees  BY DEF Init, View!Init, ViewAgrees
<1>2. IInv /\ ViewAgrees /\ [Next]_vars => ViewAgrees' /\ [View!Next]_view
  BY NextView DEF RInv
<1>3. QED  BY <1>1, <1>2, PhasesCorrect, PTL DEF Spec, ClientView, View!Spec

-----------------------------------------------------------------------------
(* Breakpoint edits *)

(* The breakpoints the next statement will be held against: the newest set   *)
(* pushed and not yet drained, else the armed one.                           *)
Governing == IF swaps = <<>> THEN DOMAIN armed ELSE swaps[Len(swaps)]

(* While a run can still reach a statement, what governs it is what the      *)
(* adapter has acknowledged; no run is born to stale pushes.                *)
EditsInv ==
  /\ rt = "none" => swaps = <<>>
  /\ rt \notin {"none", "ended"} => Governing = armed_breakpoints(breakpoints)

(* Requests are read only while there is no run, a live one, or an ended one *)
(* that has yet to be collected.                                             *)
LEMMA ReceivingPhases ==
  ASSUME IInv, pc \in {"drain", "wait"}
  PROVE  /\ ~running => rt = "none"
         /\ pending => rt = "none" /\ ~running
         /\ rt = "none" => ~running
BY DEF IInv, Phases, Idle, Live, Executing, Announced, AtStop, Shown, Asking, Answered, Panicked,
     Staged, Waking, Winding, Over

(* Counting hits arms and disarms nothing.                                   *)
LEMMA DrainArms ==
  ASSUME EditsInv, rt = "hook", NEW holds
  PROVE  DOMAIN Hit(drain_breakpoint_swaps, holds) = armed_breakpoints(breakpoints)
BY DEF EditsInv, Governing, Hit, drain_breakpoint_swaps, Fresh

(* Only an acknowledged edit, the start of a run and the hook touch what     *)
(* governs the next statement, and each leaves it the acknowledged set.     *)
LEMMA EditsInvKept ==
  ASSUME IInv, EditsInv, [Next]_vars
  PROVE  EditsInv'
<1>1. ASSUME UNCHANGED <<swaps, armed, breakpoints>>,
             rt' = rt \/ (rt \notin {"none", "ended"} /\ rt' # "none")
      PROVE  EditsInv'
  <2>1. Governing' = Governing /\ armed_breakpoints(breakpoints)' = armed_breakpoints(breakpoints)
    BY <1>1 DEF Governing, armed_breakpoints
  <2>2. QED  BY <1>1, <2>1 DEF EditsInv
<1>2. ASSUME rt' \in {"none", "ended"}, UNCHANGED swaps, rt' = "none" => rt = "none"
      PROVE  EditsInv'
  BY <1>2 DEF EditsInv
<1>3. CASE HandleRequest
  <2>1. PICK r : Handle(r)  BY <1>3 DEF HandleRequest
  <2>2. CASE on_launch(r)
    <3>1. CASE AlreadyConfigured
      BY <1>1, <2>2, <3>1 DEF on_launch
    <3>2. CASE ~AlreadyConfigured
      <4>1. rt = "none"
        BY <2>2, <3>2, ReceivingPhases DEF on_launch, Receive, AlreadyConfigured
      <4>2. QED  BY <1>2, <2>2, <4>1 DEF on_launch
    <3>3. QED  BY <3>1, <3>2
  <2>3. CASE on_set_breakpoints(r)
    <3>1. UNCHANGED runVars /\ pc \in {"drain", "wait"}
      BY <2>3 DEF on_set_breakpoints, Receive
    <3>2. CASE ~stop_points
      BY <1>1, <2>3, <3>1, <3>2 DEF on_set_breakpoints
    <3>3. CASE stop_points /\ running /\ rt # "ended"
      <4>1. swaps' = Append(swaps, armed_breakpoints(breakpoints'))
        BY <2>3, <3>3 DEF on_set_breakpoints
      <4>2. swaps \in Seq(SUBSET (Sources \X BreakpointSpec))
        BY DEF IInv, TypeOK, QueuesTypeOK
      <4>3. swaps' # <<>> /\ swaps'[Len(swaps')] = armed_breakpoints(breakpoints')
        BY <4>1, <4>2
      <4>4. armed_breakpoints(breakpoints') = armed_breakpoints(breakpoints)'
        BY DEF armed_breakpoints
      <4>5. rt # "none"  BY <3>1, <3>3, ReceivingPhases
      <4>6. QED  BY <3>1, <4>3, <4>4, <4>5 DEF EditsInv, Governing
    <3>4. CASE stop_points /\ ~(running /\ rt # "ended")
      <4>1. UNCHANGED swaps  BY <2>3, <3>4 DEF on_set_breakpoints
      <4>2. rt \in {"none", "ended"}  BY <3>1, <3>4, ReceivingPhases
      <4>3. QED  BY <1>2, <3>1, <4>1, <4>2
    <3>5. QED  BY <3>2, <3>3, <3>4
  <2>4. CASE on_configuration_done(r)
    <3>1. UNCHANGED swaps /\ pc \in {"drain", "wait"}
      BY <2>4 DEF on_configuration_done, Receive, StartRun, LaunchRefused, ThreadFailed
    <3>2. CASE ~pending
      BY <1>1, <2>4, <3>2 DEF on_configuration_done
    <3>3. CASE pending /\ StartRun
      <4>1. swaps' = <<>> /\ rt' = "statement" /\ UNCHANGED breakpoints
        BY <3>1, <3>3, ReceivingPhases DEF StartRun, EditsInv
      <4>2. DOMAIN armed' = armed_breakpoints(breakpoints)
        BY <3>3 DEF StartRun, Fresh
      <4>3. armed_breakpoints(breakpoints)' = armed_breakpoints(breakpoints)
        BY <4>1 DEF armed_breakpoints
      <4>4. QED  BY <4>1, <4>2, <4>3 DEF EditsInv, Governing
    <3>4. CASE pending /\ (LaunchRefused \/ ThreadFailed)
      BY <1>2, <3>1, <3>4, ReceivingPhases DEF LaunchRefused, ThreadFailed
    <3>5. QED  BY <2>4, <3>2, <3>3, <3>4 DEF on_configuration_done
  <2>5. CASE on_variables(r) \/ on_evaluate(r)
    BY <1>1, <2>5 DEF on_variables, on_evaluate, query
  <2>6. CASE on_resume(r) \/ on_pause(r)
    BY <1>1, <2>6 DEF on_resume, on_pause
  <2>7. CASE on_terminate(r) \/ on_disconnect(r)
    BY <1>1, <2>7 DEF on_terminate, on_disconnect, terminate_session
  <2>8. QED  BY <2>1, <2>2, <2>3, <2>4, <2>5, <2>6, <2>7 DEF Handle
<1>4. CASE \/ DrainDone \/ WaitTimeout \/ Exit \/ QueryReturns \/ Client \/ UNCHANGED vars
  BY <1>1, <1>4 DEF DrainDone, WaitTimeout, Exit, QueryReturns, Client, Send, CloseInput
<1>5. CASE flush_resume \/ pump_run_event \/ finish_run_within \/ detach_run \/ InputEnded
  BY <1>1, <1>5 DEF flush_resume, pump_run_event, finish_run_within, detach_run, InputEnded,
     finish_run, DropRunning, terminate_session
<1>6. CASE EvaluateBreakpoints
  <2>1. rt = "hook" /\ rt' \in {"decide", "ended"} /\ swaps' = <<>> /\ UNCHANGED breakpoints
    BY <1>6 DEF EvaluateBreakpoints, RunThread, Unwind
  <2>2. PICK holds : armed' = Hit(drain_breakpoint_swaps, holds)
    BY <1>6 DEF EvaluateBreakpoints
  <2>3. DOMAIN armed' = armed_breakpoints(breakpoints)
    BY <2>1, <2>2, DrainArms
  <2>4. armed_breakpoints(breakpoints)' = armed_breakpoints(breakpoints)
    BY <2>1 DEF armed_breakpoints
  <2>5. QED  BY <2>1, <2>3, <2>4 DEF EditsInv, Governing
<1>7. CASE ReachStatement \/ FinishProgram \/ StopOrGo \/ Park
  <2>1. UNCHANGED <<swaps, armed, breakpoints>>
    BY <1>7 DEF ReachStatement, FinishProgram, StopOrGo, Park, ServeQuery, ServeResume, ServeTerminate
  <2>2. rt \notin {"none", "ended"} /\ rt' # "none"
    BY <1>7 DEF ReachStatement, FinishProgram, StopOrGo, Park, ServeQuery, ServeResume,
       ServeTerminate, RunThread, Unwind, BeginStatement
  <2>3. QED  BY <1>1, <2>1, <2>2
<1>8. QED  BY <1>3, <1>4, <1>5, <1>6, <1>7 DEF Next, Protocol, Hook, Program, Exited

(* A statement is held against the edited breakpoints: only the hook takes  *)
(* the run from reaching a statement to deciding about it.                  *)
LEMMA HookUsesEdits ==
  ASSUME IInv, EditsInv, [Next]_vars, rt = "hook", rt' = "decide"
  PROVE  DOMAIN armed' = armed_breakpoints(breakpoints)
<1>1. ~(Client \/ Protocol \/ UNCHANGED vars)
  BY ProtocolLeavesRun
<1>2. ~(Program \/ StopOrGo \/ Park)
  BY DEF Program, ReachStatement, FinishProgram, StopOrGo, Park, ServeQuery, ServeResume,
     ServeTerminate, RunThread, Unwind, BeginStatement
<1>3. EvaluateBreakpoints
  BY <1>1, <1>2 DEF Next, Hook, Exited
<1>4. PICK holds : armed' = Hit(drain_breakpoint_swaps, holds)
  BY <1>3 DEF EvaluateBreakpoints
<1>5. QED  BY <1>4, DrainArms

(* The hook drains every pushed set before it decides, so a statement is     *)
(* held against all edits acknowledged before it is reached.                *)
THEOREM EditsGovernCorrect == Spec => EditsGovernNextStatement
<1>1. Init => EditsInv
  BY DEF Init, EditsInv
<1>2. IInv /\ EditsInv /\ [Next]_vars =>
        [rt = "hook" /\ rt' = "decide" => DOMAIN armed' = armed_breakpoints(breakpoints)]_vars
  BY HookUsesEdits
<1>3. QED  BY <1>1, <1>2, EditsInvKept, PhasesCorrect, PTL DEF Spec, EditsGovernNextStatement

-----------------------------------------------------------------------------
(* Logpoint outputs *)

Outputs(q) == {i \in DOMAIN q : q[i].type = "output"}

(* Counting the outputs of a queue that grows at its end and is read at its *)
(* head.                                                                    *)
LEMMA OutputCounts ==
  ASSUME NEW q \in Seq(EventMsg)
  PROVE  /\ Cardinality(Outputs(q)) \in Nat
         /\ \A e \in EventMsg :
              Cardinality(Outputs(Append(q, e)))
                = IF e.type = "output" THEN Cardinality(Outputs(q)) + 1 ELSE Cardinality(Outputs(q))
         /\ q # <<>> => Cardinality(Outputs(Tail(q)))
                          = IF Head(q).type = "output" THEN Cardinality(Outputs(q)) - 1
                            ELSE Cardinality(Outputs(q))
<1>1. Len(q) \in Nat /\ DOMAIN q = 1..Len(q)  OBVIOUS
<1>2. Outputs(q) \in SUBSET (1..Len(q))  BY <1>1 DEF Outputs
<1>3. IsFiniteSet(Outputs(q))
  <2>1. IsFiniteSet(1..Len(q))  BY <1>1, FS_Interval
  <2>2. QED  BY <1>2, <2>1, FS_Subset
<1>4. Cardinality(Outputs(q)) \in Nat  BY <1>3, FS_CardinalityType
<1>5. ASSUME NEW e \in EventMsg
      PROVE  Cardinality(Outputs(Append(q, e)))
               = IF e.type = "output" THEN Cardinality(Outputs(q)) + 1 ELSE Cardinality(Outputs(q))
  <2>1. /\ DOMAIN Append(q, e) = 1..(Len(q) + 1)
        /\ Append(q, e)[Len(q) + 1] = e
        /\ \A i \in 1..Len(q) : Append(q, e)[i] = q[i]
    BY <1>1
  <2>2. Outputs(Append(q, e)) = IF e.type = "output" THEN Outputs(q) \cup {Len(q) + 1} ELSE Outputs(q)
    BY <1>1, <2>1 DEF Outputs
  <2>3. Len(q) + 1 \notin Outputs(q)  BY <1>1, <1>2
  <2>4. Cardinality(Outputs(q) \cup {Len(q) + 1}) = Cardinality(Outputs(q)) + 1
    BY <1>3, <2>3, FS_AddElement
  <2>5. QED  BY <2>2, <2>4
<1>6. ASSUME q # <<>>
      PROVE  Cardinality(Outputs(Tail(q)))
               = IF Head(q).type = "output" THEN Cardinality(Outputs(q)) - 1
                 ELSE Cardinality(Outputs(q))
  <2> DEFINE t == Tail(q)  rest == Outputs(q) \ {1}
             up == [i \in Outputs(t) |-> i + 1]
  <2>1. /\ Len(q) \in Nat \ {0} /\ Len(t) = Len(q) - 1 /\ DOMAIN t = 1..(Len(q) - 1)
        /\ \A i \in 1..(Len(q) - 1) : t[i] = q[i + 1]
        /\ Head(q) = q[1]
    BY <1>6, EmptySeq
  <2>2. \A i \in Outputs(t) : i \in Nat /\ i + 1 \in rest
    BY <1>1, <2>1 DEF Outputs
  <2>3. \A j \in rest : j - 1 \in Outputs(t) /\ (j - 1) + 1 = j
    BY <1>1, <2>1 DEF Outputs
  <2>4. up \in Bijection(Outputs(t), rest)
    <3>1. up \in [Outputs(t) -> rest]  BY <2>2
    <3>2. \A a, b \in Outputs(t) : up[a] = up[b] => a = b  BY <2>2
    <3>3. \A j \in rest : \E i \in Outputs(t) : up[i] = j  BY <2>3
    <3> HIDE DEF up, rest
    <3>4. up \in Injection(Outputs(t), rest)  BY <3>1, <3>2 DEF Injection, IsInjective
    <3>5. up \in Surjection(Outputs(t), rest)  BY <3>1, <3>3 DEF Surjection
    <3>6. QED  BY <3>4, <3>5 DEF Bijection
  <2>5. IsFiniteSet(Outputs(t))
    <3>1. Outputs(t) \in SUBSET (1..(Len(q) - 1))  BY <2>1 DEF Outputs
    <3>2. IsFiniteSet(1..(Len(q) - 1))  BY <2>1, FS_Interval
    <3>3. QED  BY <3>1, <3>2, FS_Subset
  <2>6. Cardinality(rest) = Cardinality(Outputs(t))
    BY <2>4, <2>5, FS_Bijection DEF ExistsBijection
  <2>7. Cardinality(rest) = IF 1 \in Outputs(q) THEN Cardinality(Outputs(q)) - 1 ELSE Cardinality(Outputs(q))
    BY <1>3, FS_RemoveElement
  <2>8. 1 \in Outputs(q) <=> Head(q).type = "output"  BY <1>1, <2>1 DEF Outputs
  <2>9. QED  BY <2>6, <2>7, <2>8
<1>7. QED  BY <1>4, <1>5, <1>6

(* An empty queue holds no output.                                           *)
LEMMA NoOutputs == Cardinality(Outputs(<<>>)) = 0
<1>1. Outputs(<<>>) = {}  BY DEF Outputs
<1>2. QED  BY <1>1, FS_EmptySet

(* The run thread may still send an output: it has announced no stop, or    *)
(* its stop has been answered.                                              *)
Resumed ==
  \/ rt \in {"statement", "hook", "decide"}
  \/ rt = "parked" /\ control # <<>> /\ Head(control).type = "resume"

OnlyOutputs(q) == \A i \in 1..Len(q) : q[i].type = "output"

(* While the run can still send outputs nothing but outputs waits, and the   *)
(* session was not abandoned while requests are read.                       *)
OutputInv ==
  /\ NoLostOutput
  /\ Resumed => OnlyOutputs(events)
  /\ view = "abandoned" => pc \in {"done", "exit"}

(* A step that neither sends nor forwards.                                  *)
LEMMA OutputFrame ==
  ASSUME OutputInv, UNCHANGED <<events, owed>>,
         Resumed' => Resumed \/ events = <<>>,
         view = "abandoned" => pc' \in {"done", "exit"},
         view' = "abandoned" <=> view = "abandoned"
  PROVE  OutputInv'
<1>1. events = <<>> => OnlyOutputs(events)  BY DEF OnlyOutputs
<1>2. QED  BY <1>1 DEF OutputInv, NoLostOutput, OnlyOutputs

(* A queue of outputs with anything at its end.                             *)
LEMMA OutputAppends ==
  ASSUME NEW q \in Seq(EventMsg), NEW e \in EventMsg, OnlyOutputs(q)
  PROVE  /\ \A i \in 1..Len(Append(q, e)) - 1 : Append(q, e)[i].type = "output"
         /\ e.type = "output" => OnlyOutputs(Append(q, e))
<1>1. /\ Len(q) \in Nat /\ Len(Append(q, e)) = Len(q) + 1
      /\ \A i \in 1..Len(q) : Append(q, e)[i] = q[i]
      /\ Append(q, e)[Len(q) + 1] = e
  OBVIOUS
<1>2. QED  BY <1>1 DEF OnlyOutputs

(* Forwarding keeps the shape of the queue.                                 *)
LEMMA OutputTails ==
  ASSUME NEW q \in Seq(EventMsg), q # <<>>,
         \A i \in 1..Len(q) - 1 : q[i].type = "output"
  PROVE  /\ Tail(q) \in Seq(EventMsg)
         /\ \A i \in 1..Len(Tail(q)) - 1 : Tail(q)[i].type = "output"
         /\ OnlyOutputs(q) => OnlyOutputs(Tail(q))
<1>1. /\ Len(q) \in Nat \ {0} /\ Len(Tail(q)) = Len(q) - 1 /\ Tail(q) \in Seq(EventMsg)
      /\ \A i \in 1..(Len(q) - 1) : Tail(q)[i] = q[i + 1]
  BY EmptySeq
<1>2. QED  BY <1>1 DEF OnlyOutputs

(* A message sent to the run thread is read after those already sent.       *)
LEMMA SentBehind ==
  ASSUME IInv, NEW m \in ControlMsg, m.type # "resume", SendControl(m), rt' = rt, Resumed'
  PROVE  Resumed
<1>1. control \in Seq(ControlMsg)  BY DEF IInv, TypeOK, QueuesTypeOK
<1>2. CASE control = <<>>
  BY <1>2, OneMessage DEF SendControl, Resumed
<1>3. CASE control # <<>>
  <2>1. Append(control, m) # <<>> /\ Head(Append(control, m)) = Head(control)
    BY <1>1, <1>3
  <2>2. QED  BY <1>3, <2>1 DEF SendControl, Resumed
<1>4. QED  BY <1>2, <1>3

(* The requests and the timed wait neither send nor forward an event.       *)
LEMMA HandleOutputs ==
  ASSUME IInv, OutputInv, NEW r \in Requests, Handle(r)
  PROVE  OutputInv'
<1> USE DEF Receive
<1>0. Query \in ControlMsg /\ Terminate \in ControlMsg /\ Query.type # "resume" /\ Terminate.type # "resume"
  BY DataTypes, MessageFacts
<1>1. ASSUME pc \in {"drain", "wait"}, UNCHANGED <<events, owed>>, Resumed' => Resumed \/ events = <<>>,
             view' = view \/ view' # "abandoned"
      PROVE  OutputInv'
  BY <1>1, OutputFrame DEF OutputInv
<1>2. ASSUME UNCHANGED <<rt, control>> PROVE Resumed' => Resumed
  BY <1>2 DEF Resumed
<1>3. CASE on_launch(r)
  BY <1>1, <1>2, <1>3 DEF on_launch
<1>4. CASE on_set_breakpoints(r)
  <2>1. UNCHANGED <<events, owed, rt, control, view>> /\ pc \in {"drain", "wait"}
    BY <1>4 DEF on_set_breakpoints
  <2>2. QED  BY <1>1, <1>2, <2>1
<1>5. CASE on_configuration_done(r)
  <2>1. pending => events = <<>>
    BY <1>5, ReceivingPhases DEF on_configuration_done, IInv, Phases, Idle, Live, Executing,
       Announced, AtStop, Shown, Asking, Answered, Panicked, Staged, Waking, Winding, Over
  <2>2. QED  BY <1>1, <1>2, <1>5, <2>1 DEF on_configuration_done, StartRun, LaunchRefused, ThreadFailed
<1>6. CASE on_variables(r) \/ on_evaluate(r)
  <2>1. UNCHANGED <<events, owed, rt, view>> /\ pc \in {"drain", "wait"}
    BY <1>6 DEF on_variables, on_evaluate, query
  <2>2. UNCHANGED control \/ SendControl(Query)
    BY <1>6 DEF on_variables, on_evaluate, query
  <2>3. Resumed' => Resumed
    BY <1>0, <1>2, <2>1, <2>2, SentBehind
  <2>4. QED  BY <1>1, <2>1, <2>3
<1>7. CASE on_resume(r) \/ on_pause(r)
  BY <1>1, <1>2, <1>7 DEF on_resume, on_pause, resume_run
<1>8. CASE on_terminate(r) \/ on_disconnect(r)
  <2>1. UNCHANGED <<events, owed, rt, view>> /\ pc \in {"drain", "wait"}
    BY <1>8 DEF on_terminate, on_disconnect, terminate_session
  <2>2. UNCHANGED control \/ SendControl(Terminate)
    BY <1>8 DEF on_terminate, on_disconnect, terminate_session
  <2>3. Resumed' => Resumed
    BY <1>0, <1>2, <2>1, <2>2, SentBehind
  <2>4. QED  BY <1>1, <2>1, <2>3
<1>9. QED  BY <1>3, <1>4, <1>5, <1>6, <1>7, <1>8 DEF Handle

(* An event that is forwarded leaves the queue and, if it is an output, the *)
(* count.                                                                   *)
LEMMA ForwardOutputs ==
  ASSUME IInv, OutputInv, events # <<>>, handle_run_event(Head(events)), events' = Tail(events),
         pc \in {"pump", "teardown"}, Resumed' => Resumed
  PROVE  OutputInv'
<1>1. events \in Seq(EventMsg) /\ owed \in Int
  BY DEF IInv, TypeOK, QueuesTypeOK, CountersTypeOK
<1>2. view # "abandoned" /\ view' # "abandoned"
  BY DEF OutputInv, handle_run_event
<1>3. Cardinality(Outputs(events)) \in Nat /\ owed = Cardinality(Outputs(events))
  BY <1>1, <1>2, OutputCounts DEF OutputInv, NoLostOutput, Outputs
<1>4. owed' = Cardinality(Outputs(Tail(events)))
  BY <1>1, <1>3, OutputCounts DEF handle_run_event
<1>5. /\ \A i \in 1..Len(events') - 1 : events'[i].type = "output"
      /\ OnlyOutputs(events) => OnlyOutputs(events')
  BY <1>1, OutputTails DEF OutputInv, NoLostOutput
<1>6. NoLostOutput'
  BY <1>4, <1>5 DEF NoLostOutput, Outputs
<1>7. OnlyOutputs(events)' <=> OnlyOutputs(events')
  BY DEF OnlyOutputs
<1>8. QED  BY <1>2, <1>5, <1>6, <1>7 DEF OutputInv

(* A run is collected or abandoned only when all it sent has been read.     *)
LEMMA DropOutputs ==
  ASSUME IInv, OutputInv, DropRunning, events = <<>>, owed' = owed,
         view' \in {"ended", "abandoned"}, view = "abandoned" => view' = "abandoned"
  PROVE  OutputInv'
<1>1. view' # "abandoned" => view # "abandoned"  OBVIOUS
<1>2. QED
  BY <1>1 DEF DropRunning, OutputInv, NoLostOutput, OnlyOutputs

(* An event the run thread sends is counted when it is an output; anything  *)
(* else it sends is the last it sends before it is resumed.                 *)
LEMMA SendOutputs ==
  ASSUME IInv, OutputInv, NEW e \in EventMsg, events' = Append(events, e), OnlyOutputs(events),
         UNCHANGED <<view, pc>>,
         owed' = IF e.type = "output" THEN owed + 1 ELSE owed,
         Resumed' => e.type = "output"
  PROVE  OutputInv'
<1>1. events \in Seq(EventMsg)  BY DEF IInv, TypeOK, QueuesTypeOK
<1>2. view # "abandoned" => owed' = Cardinality(Outputs(events'))
  <2>1. view # "abandoned" => owed = Cardinality(Outputs(events))
    BY DEF OutputInv, NoLostOutput, Outputs
  <2>2. QED  BY <1>1, <2>1, OutputCounts
<1>3. /\ \A i \in 1..Len(events') - 1 : events'[i].type = "output"
      /\ e.type = "output" => OnlyOutputs(events')
  BY <1>1, OutputAppends
<1>4. NoLostOutput'
  BY <1>2, <1>3 DEF NoLostOutput, Outputs
<1>5. OnlyOutputs(events)' <=> OnlyOutputs(events')
  BY DEF OnlyOutputs
<1>6. QED  BY <1>3, <1>4, <1>5 DEF OutputInv

(* Each action sends, forwards, drops or leaves the outputs alone.           *)
LEMMA OutputInvKept ==
  ASSUME IInv, OutputInv, [Next]_vars
  PROVE  OutputInv'
<1> USE DEF RunThread
<1>1. CASE HandleRequest
  <2>1. Head(requests) \in Requests /\ Handle(Head(requests))
    BY <1>1, QueueTypes DEF HandleRequest, IInv, TypeOK, QueuesTypeOK
  <2>2. QED  BY <2>1, HandleOutputs
<1>2. CASE DrainDone \/ WaitTimeout \/ Exit \/ Client \/ UNCHANGED vars
  <2>1. UNCHANGED <<events, owed, rt, control, view>>
    BY <1>2 DEF DrainDone, WaitTimeout, Exit, Client, Send, CloseInput
  <2>2. view = "abandoned" => pc' \in {"done", "exit"}
    BY <1>2 DEF DrainDone, WaitTimeout, Exit, Client, Send, CloseInput, OutputInv
  <2>3. QED  BY <2>1, <2>2, OutputFrame DEF Resumed
<1>3. CASE flush_resume
  <2>1. CASE ~ResumeStaged
    BY <1>3, <2>1, OutputFrame DEF flush_resume, Resumed, OutputInv
  <2>2. CASE ResumeStaged
    <3>1. events = <<>> /\ rt \in {"parked", "ended"}
      BY <2>2 DEF IInv, ResumeStaged, Phases, Idle, Live, Executing, Announced, AtStop, Shown,
         Asking, Answered, Panicked, Staged, Waking, Winding, Over, NothingStopped
    <3>2. CASE rt = "ended"
      BY <1>3, <2>2, <3>1, <3>2, DropOutputs DEF flush_resume, finish_run, OutputInv
    <3>3. CASE rt # "ended"
      BY <1>3, <2>2, <3>1, <3>3, OutputFrame DEF flush_resume, OutputInv
    <3>4. QED  BY <3>2, <3>3
  <2>3. QED  BY <2>1, <2>2
<1>4. CASE pump_run_event
  <2>1. CASE running /\ events # <<>>
    BY <1>4, <2>1, ForwardOutputs DEF pump_run_event, Resumed
  <2>2. CASE ~(running /\ events # <<>>) /\ running /\ rt = "ended"
    BY <1>4, <2>2, DropOutputs DEF pump_run_event, finish_run, OutputInv
  <2>3. CASE ~(running /\ events # <<>>) /\ ~(running /\ rt = "ended")
    BY <1>4, <2>3, OutputFrame DEF pump_run_event, Resumed, OutputInv
  <2>4. QED  BY <2>1, <2>2, <2>3
<1>5. CASE finish_run_within
  <2>1. CASE events # <<>>
    BY <1>5, <2>1, ForwardOutputs DEF finish_run_within, Resumed
  <2>2. CASE events = <<>>
    BY <1>5, <2>2, DropOutputs DEF finish_run_within, finish_run, OutputInv
  <2>3. QED  BY <2>1, <2>2
<1>6. CASE detach_run
  BY <1>6, DropOutputs DEF detach_run, OutputInv
<1>7. CASE InputEnded
  <2>1. UNCHANGED <<events, owed, rt, view>> /\ pc = "wait"
    BY <1>7 DEF InputEnded, terminate_session
  <2>2. UNCHANGED control \/ SendControl(Terminate)
    BY <1>7 DEF InputEnded, terminate_session
  <2>3. Resumed' => Resumed
    BY <2>1, <2>2, SentBehind, DataTypes, MessageFacts DEF Resumed
  <2>4. QED  BY <2>1, <2>3, OutputFrame DEF OutputInv
<1>8. CASE QueryReturns
  <2>1. pc = "query" /\ UNCHANGED <<rt, control, owed, view>>
    BY <1>8 DEF QueryReturns
  <2>2. events = <<>> \/ events = <<Answer(info)>>
    BY <2>1 DEF IInv, Phases, Idle, Live, Executing, Announced, AtStop, Shown,
       Asking, Answered, Panicked, Staged, Waking, Winding, Over
  <2>3. CASE events = <<>>
    BY <1>8, <2>1, <2>3, OutputFrame DEF QueryReturns, Resumed, OutputInv
  <2>4. CASE events = <<Answer(info)>>
    <3>1. events' = <<>>  BY <1>8, <2>4, OneMessage DEF QueryReturns
    <3>2. Head(events).type # "output" /\ Tail(events) = <<>> /\ events # <<>>
      BY <2>4, OneMessage, MessageFacts
    <3>3. Cardinality(Outputs(events)) = 0
      BY <3>2, NoOutputs, OutputCounts DEF IInv, TypeOK, QueuesTypeOK
    <3>4. QED  BY <2>1, <3>1, <3>3, NoOutputs DEF OutputInv, NoLostOutput, Outputs, OnlyOutputs
  <2>5. QED  BY <2>2, <2>3, <2>4
<1>9. CASE EvaluateBreakpoints
  <2>1. rt = "hook" /\ UNCHANGED <<view, pc, control>>
    BY <1>9 DEF EvaluateBreakpoints
  <2>2. \/ UNCHANGED <<events, owed>>
        \/ events' = Append(events, Output) /\ owed' = owed + 1
    BY <1>9 DEF EvaluateBreakpoints
  <2>3. Output \in EventMsg /\ Output.type = "output"
    BY DataTypes, MessageFacts
  <2>4. Resumed  BY <2>1 DEF Resumed
  <2>5. CASE UNCHANGED <<events, owed>>
    BY <2>1, <2>4, <2>5, OutputFrame DEF OutputInv
  <2>6. CASE events' = Append(events, Output) /\ owed' = owed + 1
    BY <2>1, <2>3, <2>4, <2>6, SendOutputs DEF OutputInv
  <2>7. QED  BY <2>2, <2>5, <2>6
<1>10. CASE StopOrGo
  <2>1. rt = "decide" /\ UNCHANGED <<view, pc, control, owed>>
    BY <1>10 DEF StopOrGo
  <2>2. Resumed  BY <2>1 DEF Resumed
  <2>3. CASE UNCHANGED events
    BY <2>1, <2>2, <2>3, OutputFrame DEF OutputInv
  <2>4. CASE ~UNCHANGED events
    <3>1. PICK stop : events' = Append(events, Stopped(stop)) /\ rt' = "parked" /\ running
                      /\ stop = [id |-> stops + 1, reason |-> StopReason, depth |-> depth]
      BY <1>10, <2>4 DEF StopOrGo, BeginStatement, Unwind
    <3>2. Stopped(stop) \in EventMsg /\ Stopped(stop).type # "output"
      <4>1. StopReason \in {"none", "entry", "pause", "step", "breakpoint"}
        BY DEF StopReason, decide
      <4>2. stops + 1 \in Nat /\ depth \in Nat
        BY BoundsAssumption DEF IInv, TypeOK, CountersTypeOK
      <4>3. stop \in StopInfo  BY <3>1, <4>1, <4>2 DEF StopInfo
      <4>4. QED  BY <4>3, DataTypes, MessageFacts
    <3>3. control = <<>> \/ control = <<Terminate>>
      BY <2>1, <3>1 DEF IInv, Phases, Idle, Live, Executing, Announced, AtStop, Shown,
         Asking, Answered, Panicked, Staged, Waking, Winding, Over
    <3>5. ~Resumed'
      BY <2>1, <3>1, <3>3, OneMessage, MessageFacts DEF Resumed
    <3>4. QED  BY <2>1, <2>2, <3>1, <3>2, <3>5, SendOutputs DEF OutputInv
  <2>5. QED  BY <2>3, <2>4
<1>11. CASE ServeQuery
  <2>1. rt = "parked" /\ control # <<>> /\ Head(control).type = "query" /\ control' = Tail(control)
        /\ UNCHANGED <<view, pc, owed>>
    BY <1>11 DEF ServeQuery
  <2>2. Asking
    <3>1. Query.type # "resume" /\ Terminate.type # "query"  BY MessageFacts
    <3>2. \A m : Head(<<ResumeMsg(m)>>).type # "query" /\ Head(<<ResumeMsg(m), Terminate>>).type # "query"
                 /\ Head(<<Terminate>>).type # "query"
      BY OneMessage, TwoMessages, MessageFacts
    <3>3. QED
      BY <2>1, <3>2 DEF IInv, Phases, Idle, Live, Executing, Announced, AtStop, Shown,
         Asking, Answered, Panicked, Staged, Waking, Winding, Over
  <2>3. events = <<>> /\ control' = <<>> /\ OnlyOutputs(events) /\ info \in StopInfo
    BY <2>1, <2>2, OneMessage DEF Asking, OnlyOutputs, IInv, TypeOK, StopsTypeOK
  <2>4. ~Resumed'
    BY <1>11, <2>1, <2>3 DEF ServeQuery, Resumed, Unwind
  <2>5. CASE UNCHANGED events
    BY <2>1, <2>4, <2>5, OutputFrame DEF OutputInv
  <2>6. CASE events' = Append(events, Answer(info))
    <3>1. Answer(info) \in EventMsg /\ Answer(info).type # "output"
      BY <2>3, DataTypes, MessageFacts
    <3>2. QED  BY <2>1, <2>3, <2>4, <2>6, <3>1, SendOutputs
  <2>7. QED  BY <1>11, <2>5, <2>6 DEF ServeQuery
<1>12. CASE ServeResume \/ ServeTerminate \/ Program
  <2>1. UNCHANGED <<events, owed, view, pc>> /\ (Resumed' => Resumed)
    BY <1>12 DEF ServeResume, ServeTerminate, Program, ReachStatement, FinishProgram, BeginStatement,
       Unwind, Resumed
  <2>2. QED  BY <2>1, OutputFrame DEF OutputInv
<1>13. QED
  BY <1>1, <1>2, <1>3, <1>4, <1>5, <1>6, <1>7, <1>8, <1>9, <1>10, <1>11, <1>12
  DEF Next, Protocol, Hook, Park, Exited

(* No logpoint output is lost: those not forwarded still wait, ahead of any  *)
(* stop, until the session ends or its wedged run is abandoned.             *)
THEOREM NoLostOutputCorrect == Spec => []NoLostOutput
<1>1. Init => OutputInv
  BY NoOutputs DEF Init, OutputInv, NoLostOutput, Outputs, OnlyOutputs, Resumed
<1>2. OutputInv => NoLostOutput
  BY DEF OutputInv
<1>3. QED  BY <1>1, <1>2, OutputInvKept, PhasesCorrect, PTL DEF Spec
-----------------------------------------------------------------------------
(* A query and its answer *)

Unanswered == pc = "query" /\ ~AnswerIsThere
Returning == pc = "query" /\ AnswerIsThere
Served == pc = "drain"

(* While a query waits, the protocol thread can only take its answer, and    *)
(* the run thread only give it.                                              *)
LEMMA QuerySteps ==
  ASSUME IInv, pc = "query", [Next]_vars
  PROVE  /\ Unanswered \/ Returning
         /\ Unanswered => Unanswered' \/ Returning'
         /\ Returning => Returning' \/ Served'
         /\ Unanswered /\ Hook => Returning'
         /\ Protocol => Served'
<1>1. Asking \/ Answered \/ Panicked
  BY DEF IInv, Phases, Idle, Live, Executing, Announced, AtStop, Shown, Asking, Answered, Panicked,
     Staged, Waking, Winding, Over
<1>. USE DEF Unanswered, Returning, Served, AnswerIsThere
<1>2. Protocol => Returning /\ Served'
  BY DEF Protocol, HandleRequest, Handle, Receive, on_launch, on_set_breakpoints,
     on_configuration_done, on_variables, on_evaluate, on_resume, on_pause, on_terminate,
     on_disconnect, DrainDone, flush_resume, pump_run_event, WaitTimeout, InputEnded,
     QueryReturns, finish_run_within, detach_run, Exit
<1>3. Hook => Asking /\ Returning'
  <2>1. \A m : Append(<<>>, m) # <<>>
    OBVIOUS
  <2>2. Hook => ServeQuery
    <3>1. ~EvaluateBreakpoints /\ ~StopOrGo
      BY <1>1 DEF EvaluateBreakpoints, StopOrGo, RunThread, Asking, Answered, Panicked
    <3>2. rt = "parked" => control = <<>> \/ control = <<Query>>
      BY <1>1 DEF Asking, Answered, Panicked
    <3>3. rt = "parked" /\ control # <<>> => Head(control).type = "query"
      BY <3>2, OneMessage, MessageFacts DEF Query
    <3>4. ~ServeResume /\ ~ServeTerminate
      BY <3>3 DEF ServeResume, ServeTerminate, RunThread
    <3>. QED
      BY <3>1, <3>4 DEF Hook, Park
  <2>3. ServeQuery => Asking
    BY <1>1 DEF ServeQuery, RunThread, Asking, Answered, Panicked
  <2>4. ServeQuery => Returning'
    BY <2>1, <2>3 DEF ServeQuery, Unwind, Asking
  <2>. QED
    BY <2>2, <2>3, <2>4
<1>4. Client \/ UNCHANGED vars => UNCHANGED <<pc, events, rt>>
  BY DEF Client, Send, CloseInput
<1>5. ~Program /\ ~Exited
  BY <1>1 DEF Program, Exited, ReachStatement, FinishProgram, RunThread, Asking, Answered, Panicked
<1>. QED
  BY <1>2, <1>3, <1>4, <1>5 DEF Next, Asking

(* The query and its answer are the only things either thread can do next,   *)
(* so the protocol thread is back at its loop after two steps (query,        *)
(* ServeQuery).  That evaluation returns is in the fairness, and that each   *)
(* of the two steps is enabled is the premise.                               *)
THEOREM QueriesReturnCorrect == FairSpec /\ []QueryIsServed => QueriesReturn
<1>1. IInv /\ Unanswered /\ [Next]_vars => Unanswered' \/ Returning'
  BY QuerySteps DEF Unanswered
<1>2. IInv /\ Returning /\ [Next]_vars => Returning' \/ Served'
  BY QuerySteps DEF Returning
<1>3. IInv /\ Unanswered /\ <<Next /\ Hook>>_vars => Returning'
  BY QuerySteps DEF Unanswered
<1>4. IInv /\ Returning /\ <<Next /\ Protocol>>_vars => Served'
  BY QuerySteps DEF Returning
<1>5. QueryIsServed => /\ Unanswered => ENABLED <<Hook>>_vars
                       /\ Returning => ENABLED <<Protocol>>_vars
  BY DEF QueryIsServed, Unanswered, Returning
<1>6. (pc = "query" <=> Unanswered \/ Returning) /\ (pc = "drain" <=> Served)
  BY DEF Unanswered, Returning, Served
<1>7. /\ <<Hook>>_vars /\ [Next]_vars => <<Next /\ Hook>>_vars
      /\ <<Protocol>>_vars /\ [Next]_vars => <<Next /\ Protocol>>_vars
  OBVIOUS
<1>. QED
  BY <1>1, <1>2, <1>3, <1>4, <1>5, <1>6, <1>7, PhasesCorrect, PTL
  DEF FairSpec, Spec, Fairness, QueriesReturn
=============================================================================
