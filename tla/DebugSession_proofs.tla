------------------------ MODULE DebugSession_proofs ------------------------
(***************************************************************************)
(* Types and safety of DebugSession, for every set of sources and requests *)
(* and every bound.                                                        *)
(*                                                                         *)
(* No safety property of the session is inductive alone: that the stop the *)
(* adapter believes in is the one the run is parked at depends on what the *)
(* two channels can hold at each point of the two threads.  The invariant  *)
(* Phases names the joint phases of the two threads with the contents of   *)
(* both channels in each; every action leads from a phase to a phase.      *)
(***************************************************************************)
EXTENDS DebugSession, SequenceTheorems, TLAPS

-----------------------------------------------------------------------------
(* Types: one lemma per action, one step per group of variables.           *)
USE DEF vars, clientVars, protocolVars, launchVars, stopVars, sharedVars, runVars, historyVars

(* Shapes of the records the two channels and the stop fields hold. *)
LEMMA DataTypes ==
  /\ NoStop \in StopInfo /\ NoMode \notin Resume /\ Continue \in Resume
  /\ Query \in ControlMsg /\ Terminate \in ControlMsg
  /\ \A m \in Resume : ResumeMsg(m) \in ControlMsg
  /\ Output \in EventMsg
  /\ \A i \in StopInfo : Stopped(i) \in EventMsg /\ Answer(i) \in EventMsg
  BY DEF NoStop, NoMode, Continue, StopInfo, Resume, ControlMsg, EventMsg, Query, Terminate,
         ResumeMsg, Output, Stopped, Answer

(* A request that can be handled is one of the known ones, with its fields. *)
LEMMA RequestTypes ==
  ASSUME NEW r \in Request
  PROVE  /\ r.command = "launch" => r.stop_on_entry \in BOOLEAN
         /\ r.command = "setBreakpoints" => r.source \in Sources /\ r.specs \in SUBSET BreakpointSpec
         /\ r.command = "variables" => r.reference \in Nat
  BY DEF Request

(* The armed set is drawn from the sources and the requested breakpoints.   *)
LEMMA ArmedType ==
  ASSUME NEW b \in [Sources -> SUBSET BreakpointSpec]
  PROVE  armed_breakpoints(b) \in SUBSET (Sources \X BreakpointSpec)
  BY DEF armed_breakpoints

(* Sending, receiving and reading the last message of a typed channel.      *)
LEMMA QueueTypes ==
  ASSUME NEW S, NEW s \in Seq(S)
  PROVE  /\ s # <<>> => Head(s) \in S /\ Tail(s) \in Seq(S)
         /\ \A e \in S : Append(s, e) \in Seq(S)
  OBVIOUS

(* A fresh channel holds no message, whatever it carries.                   *)
LEMMA EmptyTypes ==
  /\ \A S : <<>> \in Seq(S)
  /\ Fresh({}) \in [DOMAIN Fresh({}) -> Nat] /\ DOMAIN Fresh({}) = {}
  BY DEF Fresh

(* The next message of each channel has that channel's type.                *)
LEMMA HeadTypes ==
  ASSUME TypeOK
  PROVE  /\ events # <<>> => Head(events).stop \in StopInfo
         /\ control # <<>> /\ Head(control).type = "resume" => Head(control).mode \in Resume
<1>1. ASSUME events # <<>> PROVE Head(events).stop \in StopInfo
  <2>1. Head(events) \in EventMsg  BY <1>1, QueueTypes DEF TypeOK, QueuesTypeOK
  <2>2. QED  BY <2>1 DEF EventMsg
<1>2. ASSUME control # <<>>, Head(control).type = "resume" PROVE Head(control).mode \in Resume
  <2>1. Head(control) \in ControlMsg  BY <1>2, QueueTypes DEF TypeOK, QueuesTypeOK
  <2>2. QED  BY <1>2, <2>1 DEF ControlMsg
<1>3. QED  BY <1>1, <1>2

(* A session that was just created is well typed.                           *)
LEMMA InitTypeOK == Init => TypeOK
<1> SUFFICES ASSUME Init PROVE TypeOK  OBVIOUS
<1>1. FlagsTypeOK  BY DEF Init, FlagsTypeOK
<1>2. PhasesTypeOK  BY DEF Init, PhasesTypeOK
<1>3. CountersTypeOK
  <2>1. sent = 0 /\ depth = 0 /\ stops = 0 /\ late = 0 /\ owed = 0 /\ pause_asked = 0
    BY DEF Init
  <2>2. QED  BY <2>1, BoundsAssumption DEF CountersTypeOK
<1>4. QueuesTypeOK
  <2>1. requests = <<>> /\ control = <<>> /\ events = <<>> /\ swaps = <<>>  BY DEF Init
  <2>2. QED  BY <2>1, EmptyTypes DEF QueuesTypeOK
<1>5. StopsTypeOK  BY DataTypes DEF Init, StopsTypeOK
<1>6. BreakpointsTypeOK  BY EmptyTypes DEF Init, BreakpointsTypeOK
<1>7. QED  BY <1>1, <1>2, <1>3, <1>4, <1>5, <1>6 DEF TypeOK

(* Every resuming request maps to a resume mode.                            *)
LEMMA ResumeModeType ==
  ASSUME NEW c, TypeOK
  PROVE  ResumeMode(c) \in Resume
  BY DEF ResumeMode, TypeOK, StopsTypeOK, StopInfo, Resume, Continue

(* launch stores a flag and clears or keeps the breakpoints.                *)
LEMMA LaunchType ==
  ASSUME TypeOK, NEW r \in Requests, on_launch(r)
  PROVE  TypeOK'
<1> USE DEF on_launch, clear_launch_configuration, Receive
<1>1. FlagsTypeOK'  BY RequestsAssumption, RequestTypes DEF TypeOK, FlagsTypeOK
<1>2. PhasesTypeOK'  BY DEF TypeOK, PhasesTypeOK
<1>3. CountersTypeOK'  BY DEF TypeOK, CountersTypeOK
<1>4. QueuesTypeOK'  BY QueueTypes DEF TypeOK, QueuesTypeOK
<1>5. StopsTypeOK'  BY DEF TypeOK, StopsTypeOK
<1>6. BreakpointsTypeOK'  BY DEF TypeOK, BreakpointsTypeOK
<1>7. QED  BY <1>1, <1>2, <1>3, <1>4, <1>5, <1>6 DEF TypeOK

(* setBreakpoints stores the specs of one source and pushes an armed set.   *)
LEMMA SetBreakpointsType ==
  ASSUME TypeOK, NEW r \in Requests, on_set_breakpoints(r)
  PROVE  TypeOK'
<1> USE DEF on_set_breakpoints, Receive
<1>1. FlagsTypeOK'  BY DEF TypeOK, FlagsTypeOK
<1>2. PhasesTypeOK'  BY DEF TypeOK, PhasesTypeOK
<1>3. CountersTypeOK'  BY DEF TypeOK, CountersTypeOK
<1>4. BreakpointsTypeOK'  BY RequestsAssumption, RequestTypes DEF TypeOK, BreakpointsTypeOK
<1>5. StopsTypeOK'  BY DEF TypeOK, StopsTypeOK
<1>6. QueuesTypeOK'
  <2>1. breakpoints' \in [Sources -> SUBSET BreakpointSpec]  BY <1>4 DEF BreakpointsTypeOK
  <2>2. armed_breakpoints(breakpoints') \in SUBSET (Sources \X BreakpointSpec)  BY <2>1, ArmedType
  <2>3. swaps \in Seq(SUBSET (Sources \X BreakpointSpec))  BY DEF TypeOK, QueuesTypeOK
  <2>4. swaps' \in Seq(SUBSET (Sources \X BreakpointSpec))
    <3>1. swaps' = swaps \/ swaps' = Append(swaps, armed_breakpoints(breakpoints'))  OBVIOUS
    <3>2. Append(swaps, armed_breakpoints(breakpoints')) \in Seq(SUBSET (Sources \X BreakpointSpec))
      BY <2>2, <2>3, QueueTypes
    <3>3. QED  BY <2>3, <3>1, <3>2
  <2>5. requests \in Seq(Requests) /\ requests # <<>>  BY DEF TypeOK, QueuesTypeOK
  <2>6. requests' \in Seq(Requests)  BY <2>5, QueueTypes
  <2>7. QED  BY <2>4, <2>6 DEF TypeOK, QueuesTypeOK
<1>7. QED  BY <1>1, <1>2, <1>3, <1>4, <1>5, <1>6 DEF TypeOK

(* configurationDone starts the run thread with the armed set, or nothing.  *)
LEMMA ConfigurationDoneType ==
  ASSUME TypeOK, NEW r \in Requests, on_configuration_done(r)
  PROVE  TypeOK'
<1> USE DEF on_configuration_done, StartRun, LaunchRefused, ThreadFailed, clear_launch_configuration, Receive
<1>1. FlagsTypeOK'
  <2> USE DEF TypeOK, FlagsTypeOK
  <2>1. CASE ~pending  BY <2>1
  <2>2. CASE pending /\ StartRun  BY <2>2
  <2>3. CASE pending /\ LaunchRefused  BY <2>3
  <2>4. CASE pending /\ ThreadFailed  BY <2>4
  <2>5. QED  BY <2>1, <2>2, <2>3, <2>4
<1>2. PhasesTypeOK'  BY DEF TypeOK, PhasesTypeOK
<1>3. CountersTypeOK'  BY DEF TypeOK, CountersTypeOK
<1>4. QueuesTypeOK'  BY QueueTypes DEF TypeOK, QueuesTypeOK
<1>5. StopsTypeOK'  BY DEF TypeOK, StopsTypeOK
<1>6. BreakpointsTypeOK'  BY ArmedType DEF TypeOK, BreakpointsTypeOK, Fresh
<1>7. QED  BY <1>1, <1>2, <1>3, <1>4, <1>5, <1>6 DEF TypeOK

(* variables sends at most a query.                                         *)
LEMMA VariablesType ==
  ASSUME TypeOK, NEW r \in Requests, on_variables(r)
  PROVE  TypeOK'
<1> USE DEF on_variables, query, SendControl, Receive
<1>1. FlagsTypeOK'  BY DEF TypeOK, FlagsTypeOK
<1>2. PhasesTypeOK'  BY DEF TypeOK, PhasesTypeOK
<1>3. CountersTypeOK'  BY DEF TypeOK, CountersTypeOK
<1>4. QueuesTypeOK'  BY QueueTypes, DataTypes DEF TypeOK, QueuesTypeOK
<1>5. StopsTypeOK'  BY DataTypes, ResumeModeType DEF TypeOK, StopsTypeOK
<1>6. BreakpointsTypeOK'  BY DEF TypeOK, BreakpointsTypeOK
<1>7. QED  BY <1>1, <1>2, <1>3, <1>4, <1>5, <1>6 DEF TypeOK

(* evaluate sends at most a query.                                          *)
LEMMA EvaluateType ==
  ASSUME TypeOK, NEW r \in Requests, on_evaluate(r)
  PROVE  TypeOK'
<1> USE DEF on_evaluate, query, SendControl, Receive
<1>1. FlagsTypeOK'  BY DEF TypeOK, FlagsTypeOK
<1>2. PhasesTypeOK'  BY DEF TypeOK, PhasesTypeOK
<1>3. CountersTypeOK'  BY DEF TypeOK, CountersTypeOK
<1>4. QueuesTypeOK'  BY QueueTypes, DataTypes DEF TypeOK, QueuesTypeOK
<1>5. StopsTypeOK'  BY DataTypes, ResumeModeType DEF TypeOK, StopsTypeOK
<1>6. BreakpointsTypeOK'  BY DEF TypeOK, BreakpointsTypeOK
<1>7. QED  BY <1>1, <1>2, <1>3, <1>4, <1>5, <1>6 DEF TypeOK

(* continue and the steps stage a resume mode.                              *)
LEMMA ResumeType ==
  ASSUME TypeOK, NEW r \in Requests, on_resume(r)
  PROVE  TypeOK'
<1> USE DEF on_resume, resume_run, Receive
<1>1. FlagsTypeOK'  BY DEF TypeOK, FlagsTypeOK
<1>2. PhasesTypeOK'  BY DEF TypeOK, PhasesTypeOK
<1>3. CountersTypeOK'  BY DEF TypeOK, CountersTypeOK
<1>4. QueuesTypeOK'  BY QueueTypes, DataTypes DEF TypeOK, QueuesTypeOK
<1>5. StopsTypeOK'  BY DataTypes, ResumeModeType DEF TypeOK, StopsTypeOK
<1>6. BreakpointsTypeOK'  BY DEF TypeOK, BreakpointsTypeOK
<1>7. QED  BY <1>1, <1>2, <1>3, <1>4, <1>5, <1>6 DEF TypeOK

(* pause stages a resume mode or raises the flag.                           *)
LEMMA PauseType ==
  ASSUME TypeOK, NEW r \in Requests, on_pause(r)
  PROVE  TypeOK'
<1> USE DEF on_pause, resume_run, shown, Receive
<1>1. FlagsTypeOK'
  <2>1. eof' \in BOOLEAN /\ pending' \in BOOLEAN /\ running' \in BOOLEAN  BY DEF TypeOK, FlagsTypeOK
  <2>2. stop_on_entry' \in BOOLEAN /\ stop_points' \in BOOLEAN  BY DEF TypeOK, FlagsTypeOK
  <2>3. terminating' \in BOOLEAN  BY DEF TypeOK, FlagsTypeOK
  <2>4. terminate' \in BOOLEAN /\ pause' \in BOOLEAN  BY DEF TypeOK, FlagsTypeOK
  <2>5. entered' \in BOOLEAN /\ matched' \in BOOLEAN /\ halted' \in BOOLEAN  BY DEF TypeOK, FlagsTypeOK
  <2>6. QED  BY <2>1, <2>2, <2>3, <2>4, <2>5 DEF FlagsTypeOK
<1>2. PhasesTypeOK'  BY DEF TypeOK, PhasesTypeOK
<1>3. CountersTypeOK'  BY DEF TypeOK, CountersTypeOK
<1>4. QueuesTypeOK'  BY QueueTypes, DataTypes DEF TypeOK, QueuesTypeOK
<1>5. StopsTypeOK'  BY DataTypes, ResumeModeType DEF TypeOK, StopsTypeOK
<1>6. BreakpointsTypeOK'  BY DEF TypeOK, BreakpointsTypeOK
<1>7. QED  BY <1>1, <1>2, <1>3, <1>4, <1>5, <1>6 DEF TypeOK

(* terminate sends the terminate message to a live run.                     *)
LEMMA TerminateType ==
  ASSUME TypeOK, NEW r \in Requests, on_terminate(r)
  PROVE  TypeOK'
<1> USE DEF on_terminate, terminate_session, SendControl, Receive
<1>1. FlagsTypeOK'
  <2>1. eof' \in BOOLEAN /\ pending' \in BOOLEAN /\ running' \in BOOLEAN  BY DEF TypeOK, FlagsTypeOK
  <2>2. stop_on_entry' \in BOOLEAN /\ stop_points' \in BOOLEAN  BY DEF TypeOK, FlagsTypeOK
  <2>3. terminating' \in BOOLEAN  BY DEF TypeOK, FlagsTypeOK
  <2>4. terminate' \in BOOLEAN /\ pause' \in BOOLEAN  BY DEF TypeOK, FlagsTypeOK
  <2>5. entered' \in BOOLEAN /\ matched' \in BOOLEAN /\ halted' \in BOOLEAN  BY DEF TypeOK, FlagsTypeOK
  <2>6. QED  BY <2>1, <2>2, <2>3, <2>4, <2>5 DEF FlagsTypeOK
<1>2. PhasesTypeOK'  BY DEF TypeOK, PhasesTypeOK
<1>3. CountersTypeOK'  BY DEF TypeOK, CountersTypeOK
<1>4. QueuesTypeOK'  BY QueueTypes, DataTypes DEF TypeOK, QueuesTypeOK
<1>5. StopsTypeOK'  BY DataTypes, ResumeModeType DEF TypeOK, StopsTypeOK
<1>6. BreakpointsTypeOK'  BY DEF TypeOK, BreakpointsTypeOK
<1>7. QED  BY <1>1, <1>2, <1>3, <1>4, <1>5, <1>6 DEF TypeOK

(* disconnect sends the terminate message to a live run.                    *)
LEMMA DisconnectType ==
  ASSUME TypeOK, NEW r \in Requests, on_disconnect(r)
  PROVE  TypeOK'
<1> USE DEF on_disconnect, terminate_session, SendControl, Receive
<1>1. FlagsTypeOK'
  <2>1. eof' \in BOOLEAN /\ pending' \in BOOLEAN /\ running' \in BOOLEAN  BY DEF TypeOK, FlagsTypeOK
  <2>2. stop_on_entry' \in BOOLEAN /\ stop_points' \in BOOLEAN  BY DEF TypeOK, FlagsTypeOK
  <2>3. terminating' \in BOOLEAN  BY DEF TypeOK, FlagsTypeOK
  <2>4. terminate' \in BOOLEAN /\ pause' \in BOOLEAN  BY DEF TypeOK, FlagsTypeOK
  <2>5. entered' \in BOOLEAN /\ matched' \in BOOLEAN /\ halted' \in BOOLEAN  BY DEF TypeOK, FlagsTypeOK
  <2>6. QED  BY <2>1, <2>2, <2>3, <2>4, <2>5 DEF FlagsTypeOK
<1>2. PhasesTypeOK'  BY DEF TypeOK, PhasesTypeOK
<1>3. CountersTypeOK'  BY DEF TypeOK, CountersTypeOK
<1>4. QueuesTypeOK'  BY QueueTypes, DataTypes DEF TypeOK, QueuesTypeOK
<1>5. StopsTypeOK'  BY DataTypes, ResumeModeType DEF TypeOK, StopsTypeOK
<1>6. BreakpointsTypeOK'  BY DEF TypeOK, BreakpointsTypeOK
<1>7. QED  BY <1>1, <1>2, <1>3, <1>4, <1>5, <1>6 DEF TypeOK

(* The reader thread queues one of the enumerated requests.                 *)
LEMMA SendType ==
  ASSUME TypeOK, NEW r \in Requests, Send(r)
  PROVE  TypeOK'
<1> USE DEF Send
<1>1. FlagsTypeOK'  BY DEF TypeOK, FlagsTypeOK
<1>2. PhasesTypeOK'  BY DEF TypeOK, PhasesTypeOK
<1>3. CountersTypeOK'  BY BoundsAssumption DEF TypeOK, CountersTypeOK
<1>4. QueuesTypeOK'  BY QueueTypes DEF TypeOK, QueuesTypeOK
<1>5. StopsTypeOK'  BY DEF TypeOK, StopsTypeOK
<1>6. BreakpointsTypeOK'  BY DEF TypeOK, BreakpointsTypeOK
<1>7. QED  BY <1>1, <1>2, <1>3, <1>4, <1>5, <1>6 DEF TypeOK

(* The end of input sets a flag.                                            *)
LEMMA CloseInputType ==
  ASSUME TypeOK, CloseInput
  PROVE  TypeOK'
<1> USE DEF CloseInput
<1>1. FlagsTypeOK'  BY DEF TypeOK, FlagsTypeOK
<1>2. PhasesTypeOK'  BY DEF TypeOK, PhasesTypeOK
<1>3. CountersTypeOK'  BY DEF TypeOK, CountersTypeOK
<1>4. QueuesTypeOK'  BY DEF TypeOK, QueuesTypeOK
<1>5. StopsTypeOK'  BY DEF TypeOK, StopsTypeOK
<1>6. BreakpointsTypeOK'  BY DEF TypeOK, BreakpointsTypeOK
<1>7. QED  BY <1>1, <1>2, <1>3, <1>4, <1>5, <1>6 DEF TypeOK

(* The drain of requests ends.                                              *)
LEMMA DrainDoneType ==
  ASSUME TypeOK, DrainDone
  PROVE  TypeOK'
<1> USE DEF DrainDone
<1>1. FlagsTypeOK'  BY DEF TypeOK, FlagsTypeOK
<1>2. PhasesTypeOK'  BY DEF TypeOK, PhasesTypeOK
<1>3. CountersTypeOK'  BY DEF TypeOK, CountersTypeOK
<1>4. QueuesTypeOK'  BY DEF TypeOK, QueuesTypeOK
<1>5. StopsTypeOK'  BY DEF TypeOK, StopsTypeOK
<1>6. BreakpointsTypeOK'  BY DEF TypeOK, BreakpointsTypeOK
<1>7. QED  BY <1>1, <1>2, <1>3, <1>4, <1>5, <1>6 DEF TypeOK

(* The staged resume mode becomes a control message.                        *)
LEMMA FlushType ==
  ASSUME TypeOK, flush_resume
  PROVE  TypeOK'
<1> USE DEF flush_resume, finish_run, DropRunning, ResumeStaged
<1>1. FlagsTypeOK'
  <2>1. eof' \in BOOLEAN /\ pending' \in BOOLEAN /\ running' \in BOOLEAN  BY DEF TypeOK, FlagsTypeOK
  <2>2. stop_on_entry' \in BOOLEAN /\ stop_points' \in BOOLEAN  BY DEF TypeOK, FlagsTypeOK
  <2>3. terminating' \in BOOLEAN  BY DEF TypeOK, FlagsTypeOK
  <2>4. terminate' \in BOOLEAN /\ pause' \in BOOLEAN  BY DEF TypeOK, FlagsTypeOK
  <2>5. entered' \in BOOLEAN /\ matched' \in BOOLEAN /\ halted' \in BOOLEAN  BY DEF TypeOK, FlagsTypeOK
  <2>6. QED  BY <2>1, <2>2, <2>3, <2>4, <2>5 DEF FlagsTypeOK
<1>2. PhasesTypeOK'  BY DEF TypeOK, PhasesTypeOK
<1>3. CountersTypeOK'  BY DEF TypeOK, CountersTypeOK
<1>4. QueuesTypeOK'
  <2>1. ResumeStaged => ResumeMsg(pending_resume) \in ControlMsg
    BY DataTypes DEF TypeOK, StopsTypeOK, ResumeStaged
  <2>2. control \in Seq(ControlMsg) /\ events \in Seq(EventMsg)  BY DEF TypeOK, QueuesTypeOK
  <2>3. control' = control \/ (ResumeStaged /\ control' = Append(control, ResumeMsg(pending_resume)))
    BY DEF ResumeStaged
  <2>4. control' \in Seq(ControlMsg)  BY <2>1, <2>2, <2>3, QueueTypes
  <2>5. events' \in Seq(EventMsg)  BY <2>2, EmptyTypes DEF ResumeStaged
  <2>6. QED  BY <2>4, <2>5 DEF TypeOK, QueuesTypeOK, ResumeStaged
<1>5. StopsTypeOK'  BY DataTypes, ResumeModeType DEF TypeOK, StopsTypeOK
<1>6. BreakpointsTypeOK'  BY DEF TypeOK, BreakpointsTypeOK
<1>7. QED  BY <1>1, <1>2, <1>3, <1>4, <1>5, <1>6 DEF TypeOK

(* The pump forwards a stop or an output, or collects the run.              *)
LEMMA PumpType ==
  ASSUME TypeOK, pump_run_event
  PROVE  TypeOK'
<1> USE DEF pump_run_event, handle_run_event, finish_run, DropRunning
<1>1. FlagsTypeOK'
  <2>1. eof' \in BOOLEAN /\ pending' \in BOOLEAN /\ running' \in BOOLEAN  BY DEF TypeOK, FlagsTypeOK
  <2>2. stop_on_entry' \in BOOLEAN /\ stop_points' \in BOOLEAN  BY DEF TypeOK, FlagsTypeOK
  <2>3. terminating' \in BOOLEAN  BY DEF TypeOK, FlagsTypeOK
  <2>4. terminate' \in BOOLEAN /\ pause' \in BOOLEAN  BY DEF TypeOK, FlagsTypeOK
  <2>5. entered' \in BOOLEAN /\ matched' \in BOOLEAN /\ halted' \in BOOLEAN  BY DEF TypeOK, FlagsTypeOK
  <2>6. QED  BY <2>1, <2>2, <2>3, <2>4, <2>5 DEF FlagsTypeOK
<1>2. PhasesTypeOK'  BY DEF TypeOK, PhasesTypeOK
<1>3. CountersTypeOK'  BY DEF TypeOK, CountersTypeOK
<1>4. QueuesTypeOK'  BY QueueTypes, DataTypes DEF TypeOK, QueuesTypeOK
<1>5. StopsTypeOK'  BY HeadTypes, DataTypes DEF TypeOK, StopsTypeOK
<1>6. BreakpointsTypeOK'  BY DEF TypeOK, BreakpointsTypeOK
<1>7. QED  BY <1>1, <1>2, <1>3, <1>4, <1>5, <1>6 DEF TypeOK

(* The timed wait ends without a request.                                   *)
LEMMA WaitTimeoutType ==
  ASSUME TypeOK, WaitTimeout
  PROVE  TypeOK'
<1> USE DEF WaitTimeout
<1>1. FlagsTypeOK'  BY DEF TypeOK, FlagsTypeOK
<1>2. PhasesTypeOK'  BY DEF TypeOK, PhasesTypeOK
<1>3. CountersTypeOK'  BY DEF TypeOK, CountersTypeOK
<1>4. QueuesTypeOK'  BY DEF TypeOK, QueuesTypeOK
<1>5. StopsTypeOK'  BY DEF TypeOK, StopsTypeOK
<1>6. BreakpointsTypeOK'  BY DEF TypeOK, BreakpointsTypeOK
<1>7. QED  BY <1>1, <1>2, <1>3, <1>4, <1>5, <1>6 DEF TypeOK

(* The end of input tears the run down.                                     *)
LEMMA InputEndedType ==
  ASSUME TypeOK, InputEnded
  PROVE  TypeOK'
<1> USE DEF InputEnded, terminate_session, SendControl
<1>1. FlagsTypeOK'  BY DEF TypeOK, FlagsTypeOK
<1>2. PhasesTypeOK'  BY DEF TypeOK, PhasesTypeOK
<1>3. CountersTypeOK'  BY DEF TypeOK, CountersTypeOK
<1>4. QueuesTypeOK'  BY QueueTypes, DataTypes DEF TypeOK, QueuesTypeOK
<1>5. StopsTypeOK'  BY DataTypes, ResumeModeType DEF TypeOK, StopsTypeOK
<1>6. BreakpointsTypeOK'  BY DEF TypeOK, BreakpointsTypeOK
<1>7. QED  BY <1>1, <1>2, <1>3, <1>4, <1>5, <1>6 DEF TypeOK

(* A query consumes one event and may register references.                  *)
LEMMA QueryReturnsType ==
  ASSUME TypeOK, QueryReturns
  PROVE  TypeOK'
<1> USE DEF QueryReturns
<1>1. FlagsTypeOK'  BY DEF TypeOK, FlagsTypeOK
<1>2. PhasesTypeOK'  BY DEF TypeOK, PhasesTypeOK
<1>3. CountersTypeOK'  BY DEF TypeOK, CountersTypeOK
<1>4. QueuesTypeOK'  BY QueueTypes DEF TypeOK, QueuesTypeOK
<1>5. StopsTypeOK'  BY DEF TypeOK, StopsTypeOK, StopInfo
<1>6. BreakpointsTypeOK'  BY DEF TypeOK, BreakpointsTypeOK
<1>7. QED  BY <1>1, <1>2, <1>3, <1>4, <1>5, <1>6 DEF TypeOK

(* The teardown consumes an event or collects the run.                      *)
LEMMA TeardownType ==
  ASSUME TypeOK, finish_run_within
  PROVE  TypeOK'
<1> USE DEF finish_run_within, handle_run_event, finish_run, DropRunning
<1>1. FlagsTypeOK'
  <2>1. eof' \in BOOLEAN /\ pending' \in BOOLEAN /\ running' \in BOOLEAN  BY DEF TypeOK, FlagsTypeOK
  <2>2. stop_on_entry' \in BOOLEAN /\ stop_points' \in BOOLEAN  BY DEF TypeOK, FlagsTypeOK
  <2>3. terminating' \in BOOLEAN  BY DEF TypeOK, FlagsTypeOK
  <2>4. terminate' \in BOOLEAN /\ pause' \in BOOLEAN  BY DEF TypeOK, FlagsTypeOK
  <2>5. entered' \in BOOLEAN /\ matched' \in BOOLEAN /\ halted' \in BOOLEAN  BY DEF TypeOK, FlagsTypeOK
  <2>6. QED  BY <2>1, <2>2, <2>3, <2>4, <2>5 DEF FlagsTypeOK
<1>2. PhasesTypeOK'  BY DEF TypeOK, PhasesTypeOK
<1>3. CountersTypeOK'  BY DEF TypeOK, CountersTypeOK
<1>4. QueuesTypeOK'  BY QueueTypes, DataTypes DEF TypeOK, QueuesTypeOK
<1>5. StopsTypeOK'  BY HeadTypes, DataTypes DEF TypeOK, StopsTypeOK
<1>6. BreakpointsTypeOK'  BY DEF TypeOK, BreakpointsTypeOK
<1>7. QED  BY <1>1, <1>2, <1>3, <1>4, <1>5, <1>6 DEF TypeOK

(* A wedged run is abandoned.                                               *)
LEMMA DetachType ==
  ASSUME TypeOK, detach_run
  PROVE  TypeOK'
<1> USE DEF detach_run, DropRunning
<1>1. FlagsTypeOK'  BY DEF TypeOK, FlagsTypeOK
<1>2. PhasesTypeOK'  BY DEF TypeOK, PhasesTypeOK
<1>3. CountersTypeOK'  BY DEF TypeOK, CountersTypeOK
<1>4. QueuesTypeOK'  BY QueueTypes, DataTypes DEF TypeOK, QueuesTypeOK
<1>5. StopsTypeOK'  BY DataTypes, ResumeModeType DEF TypeOK, StopsTypeOK
<1>6. BreakpointsTypeOK'  BY DEF TypeOK, BreakpointsTypeOK
<1>7. QED  BY <1>1, <1>2, <1>3, <1>4, <1>5, <1>6 DEF TypeOK

(* The process exits.                                                       *)
LEMMA ExitType ==
  ASSUME TypeOK, Exit
  PROVE  TypeOK'
<1> USE DEF Exit
<1>1. FlagsTypeOK'  BY DEF TypeOK, FlagsTypeOK
<1>2. PhasesTypeOK'  BY DEF TypeOK, PhasesTypeOK
<1>3. CountersTypeOK'  BY DEF TypeOK, CountersTypeOK
<1>4. QueuesTypeOK'  BY DEF TypeOK, QueuesTypeOK
<1>5. StopsTypeOK'  BY DEF TypeOK, StopsTypeOK
<1>6. BreakpointsTypeOK'  BY DEF TypeOK, BreakpointsTypeOK
<1>7. QED  BY <1>1, <1>2, <1>3, <1>4, <1>5, <1>6 DEF TypeOK

(* The run thread reaches a statement within the depth bound.               *)
LEMMA ReachType ==
  ASSUME TypeOK, ReachStatement
  PROVE  TypeOK'
<1> USE DEF ReachStatement, RunThread, Unwind, TerminateObserved
<1>1. FlagsTypeOK'  BY DEF TypeOK, FlagsTypeOK
<1>2. PhasesTypeOK'  BY DEF TypeOK, PhasesTypeOK
<1>3. CountersTypeOK'  BY DEF TypeOK, CountersTypeOK
<1>4. QueuesTypeOK'  BY DEF TypeOK, QueuesTypeOK
<1>5. StopsTypeOK'  BY DEF TypeOK, StopsTypeOK
<1>6. BreakpointsTypeOK'  BY DEF TypeOK, BreakpointsTypeOK
<1>7. QED  BY <1>1, <1>2, <1>3, <1>4, <1>5, <1>6 DEF TypeOK

(* The program returns, faults or panics.                                   *)
LEMMA FinishType ==
  ASSUME TypeOK, FinishProgram
  PROVE  TypeOK'
<1> USE DEF FinishProgram, RunThread, Unwind
<1>1. FlagsTypeOK'  BY DEF TypeOK, FlagsTypeOK
<1>2. PhasesTypeOK'  BY DEF TypeOK, PhasesTypeOK
<1>3. CountersTypeOK'  BY DEF TypeOK, CountersTypeOK
<1>4. QueuesTypeOK'  BY DEF TypeOK, QueuesTypeOK
<1>5. StopsTypeOK'  BY DEF TypeOK, StopsTypeOK
<1>6. BreakpointsTypeOK'  BY DEF TypeOK, BreakpointsTypeOK
<1>7. QED  BY <1>1, <1>2, <1>3, <1>4, <1>5, <1>6 DEF TypeOK

(* Hit counts stay natural numbers of armed breakpoints.                    *)
LEMMA EvaluateBreakpointsType ==
  ASSUME TypeOK, EvaluateBreakpoints
  PROVE  TypeOK'
<1> USE DEF EvaluateBreakpoints, RunThread, Unwind
<1>8. matched' \in BOOLEAN \/ matched' = matched  OBVIOUS
<1>9. owed' = owed \/ owed' = owed + 1  OBVIOUS
<1>10. events' = events \/ events' = Append(events, Output)  OBVIOUS
<1>11. swaps' = <<>> /\ UNCHANGED <<clientVars, protocolVars, terminate, pause, control, mode,
                entered, depth, info, view, asked, stops, begun, late, halted, pause_asked>>
  OBVIOUS
<1>12. rt' \in {"ended", "decide"} /\ outcome' \in {outcome, "terminated"}  OBVIOUS
<1>1. FlagsTypeOK'  BY <1>8, <1>11 DEF TypeOK, FlagsTypeOK
<1>2. PhasesTypeOK'
  <2> HIDE DEF EvaluateBreakpoints
  <2> QED  BY <1>11, <1>12 DEF TypeOK, PhasesTypeOK
<1>3. CountersTypeOK'  BY <1>9, <1>11 DEF TypeOK, CountersTypeOK
<1>4. QueuesTypeOK'
  <2> HIDE DEF EvaluateBreakpoints
  <2>1. events' \in Seq(EventMsg)  BY <1>10, QueueTypes, DataTypes DEF TypeOK, QueuesTypeOK
  <2>2. swaps' \in Seq(SUBSET (Sources \X BreakpointSpec))  BY <1>11, EmptyTypes
  <2>3. QED  BY <2>1, <2>2, <1>11 DEF TypeOK, QueuesTypeOK
<1>5. StopsTypeOK'  BY DEF TypeOK, StopsTypeOK
<1>6. BreakpointsTypeOK'  BY DEF TypeOK, BreakpointsTypeOK, drain_breakpoint_swaps, Fresh, Hit, QueuesTypeOK
<1>7. QED  BY <1>1, <1>2, <1>3, <1>4, <1>5, <1>6 DEF TypeOK

(* A stop record carries a natural id, a known reason and a depth.          *)
LEMMA StopOrGoType ==
  ASSUME TypeOK, StopOrGo
  PROVE  TypeOK'
<1> USE DEF StopOrGo, RunThread, Unwind, BeginStatement
<1> DEFINE stop == [id |-> stops + 1, reason |-> StopReason, depth |-> depth]
<1>8. stop \in StopInfo
  <2>1. StopReason \in {"none", "entry", "pause", "step", "breakpoint"}  BY DEF StopReason, decide
  <2>2. stops + 1 \in Nat /\ depth \in Nat  BY BoundsAssumption DEF TypeOK, CountersTypeOK
  <2>3. QED  BY <2>1, <2>2 DEF StopInfo
<1>9. info' = info \/ info' = stop  OBVIOUS
<1>10. events' = events \/ events' = Append(events, Stopped(stop))  OBVIOUS
<1>1. FlagsTypeOK'  BY DEF TypeOK, FlagsTypeOK
<1>2. PhasesTypeOK'  BY DEF TypeOK, PhasesTypeOK
<1>3. CountersTypeOK'  BY DEF TypeOK, CountersTypeOK
<1>4. QueuesTypeOK'  BY <1>8, <1>10, QueueTypes, DataTypes DEF TypeOK, QueuesTypeOK
<1>5. StopsTypeOK'  BY <1>8, <1>9 DEF TypeOK, StopsTypeOK
<1>6. BreakpointsTypeOK'  BY DEF TypeOK, BreakpointsTypeOK
<1>7. QED  BY <1>1, <1>2, <1>3, <1>4, <1>5, <1>6 DEF TypeOK

(* A parked run answers with the stop it is parked at.                      *)
LEMMA ServeQueryType ==
  ASSUME TypeOK, ServeQuery
  PROVE  TypeOK'
<1> USE DEF ServeQuery, RunThread, Unwind
<1>1. FlagsTypeOK'  BY DEF TypeOK, FlagsTypeOK
<1>2. PhasesTypeOK'  BY DEF TypeOK, PhasesTypeOK
<1>3. CountersTypeOK'  BY DEF TypeOK, CountersTypeOK
<1>4. QueuesTypeOK'  BY QueueTypes, DataTypes DEF TypeOK, QueuesTypeOK, StopsTypeOK
<1>5. StopsTypeOK'  BY DEF TypeOK, StopsTypeOK
<1>6. BreakpointsTypeOK'  BY DEF TypeOK, BreakpointsTypeOK
<1>7. QED  BY <1>1, <1>2, <1>3, <1>4, <1>5, <1>6 DEF TypeOK

(* A parked run adopts the mode its resume message carries.                 *)
LEMMA ServeResumeType ==
  ASSUME TypeOK, ServeResume
  PROVE  TypeOK'
<1> USE DEF ServeResume, RunThread, BeginStatement
<1>1. FlagsTypeOK'  BY DEF TypeOK, FlagsTypeOK
<1>2. PhasesTypeOK'  BY DEF TypeOK, PhasesTypeOK
<1>3. CountersTypeOK'  BY DEF TypeOK, CountersTypeOK
<1>4. QueuesTypeOK'  BY QueueTypes, DataTypes DEF TypeOK, QueuesTypeOK
<1>5. StopsTypeOK'  BY HeadTypes DEF TypeOK, StopsTypeOK
<1>6. BreakpointsTypeOK'  BY DEF TypeOK, BreakpointsTypeOK
<1>7. QED  BY <1>1, <1>2, <1>3, <1>4, <1>5, <1>6 DEF TypeOK

(* A parked run unwinds.                                                    *)
LEMMA ServeTerminateType ==
  ASSUME TypeOK, ServeTerminate
  PROVE  TypeOK'
<1> USE DEF ServeTerminate, RunThread, Unwind
<1>1. FlagsTypeOK'  BY DEF TypeOK, FlagsTypeOK
<1>2. PhasesTypeOK'  BY DEF TypeOK, PhasesTypeOK
<1>3. CountersTypeOK'  BY DEF TypeOK, CountersTypeOK
<1>4. QueuesTypeOK'  BY QueueTypes, DataTypes DEF TypeOK, QueuesTypeOK
<1>5. StopsTypeOK'  BY DEF TypeOK, StopsTypeOK
<1>6. BreakpointsTypeOK'  BY DEF TypeOK, BreakpointsTypeOK
<1>7. QED  BY <1>1, <1>2, <1>3, <1>4, <1>5, <1>6 DEF TypeOK

(* Every request handler keeps the types.                                   *)
LEMMA HandleType ==
  ASSUME TypeOK, HandleRequest
  PROVE  TypeOK'
<1>1. PICK r \in Requests : Handle(r)
  BY QueueTypes DEF HandleRequest, TypeOK, QueuesTypeOK
<1>2. QED
  BY <1>1, LaunchType, SetBreakpointsType, ConfigurationDoneType, VariablesType, EvaluateType,
     ResumeType, PauseType, TerminateType, DisconnectType DEF Handle

(* Every step of either thread or of the client keeps the types.            *)
LEMMA NextType ==
  ASSUME TypeOK, [Next]_vars
  PROVE  TypeOK'
<1>1. CASE Client  BY <1>1, SendType, CloseInputType DEF Client
<1>2. CASE Protocol
  BY <1>2, HandleType, DrainDoneType, FlushType, PumpType, WaitTimeoutType, InputEndedType,
     QueryReturnsType, TeardownType, DetachType, ExitType DEF Protocol
<1>3. CASE Hook
  BY <1>3, EvaluateBreakpointsType, StopOrGoType, ServeQueryType, ServeResumeType,
     ServeTerminateType DEF Hook, Park
<1>4. CASE Program  BY <1>4, ReachType, FinishType DEF Program
<1>5. CASE UNCHANGED vars
  BY <1>5 DEF TypeOK, FlagsTypeOK, PhasesTypeOK, CountersTypeOK, QueuesTypeOK, StopsTypeOK,
     BreakpointsTypeOK
<1>6. QED  BY <1>1, <1>2, <1>3, <1>4, <1>5 DEF Next, Exited

(* Every field, flag, channel and counter of the session keeps its type,   *)
(* whatever the client sends and however the two threads interleave.       *)
THEOREM TypeCorrect == Spec => []TypeOK
  BY InitTypeOK, NextType, PTL DEF Spec

HIDE DEF vars, clientVars, protocolVars, launchVars, stopVars, sharedVars, runVars, historyVars

-----------------------------------------------------------------------------
(* Phases *)

(* A queue of logpoint outputs, then the announcement of stop `s`.         *)
Announces(q, s) ==
  q # <<>> /\ q[Len(q)] = Stopped(s) /\ \A i \in 1..Len(q) - 1 : q[i] = Output

(* Events the run thread sends of its own accord.                          *)
Unsolicited == [type : {"stopped", "output"}, stop : StopInfo]

NothingStopped == stopped_at = NoStop /\ pending_resume = NoMode

(* No run exists yet: the client has still to launch or to configure.      *)
Idle ==
  /\ ~running /\ ~terminate /\ ~terminating /\ pc \in {"drain", "flush", "pump", "wait"}
  /\ rt = "none" /\ control = <<>> /\ events = <<>> /\ NothingStopped
  /\ late = 0 /\ ~halted

(* A run exists and nobody has asked to terminate it.                      *)
Live ==
  /\ running /\ ~terminate /\ ~terminating /\ ~pending
  /\ pc \in {"drain", "flush", "pump", "wait", "query"}
  /\ late = 0 /\ ~halted

(* The program executes, or has ended by itself.                           *)
Executing ==
  /\ Live /\ pc # "query" /\ NothingStopped
  /\ rt \in {"statement", "hook", "decide", "ended"}
  /\ control = <<>> /\ events \in Seq({Output})

(* The run is parked; its stop has not been forwarded yet.                 *)
Announced ==
  /\ Live /\ pc # "query" /\ NothingStopped /\ info # NoStop
  /\ rt = "parked" /\ control = <<>> /\ Announces(events, info)

AtStop == Live /\ stopped_at = info /\ info # NoStop /\ pending_resume = NoMode

(* The client knows of the stop and the run waits for a request.           *)
Shown == AtStop /\ pc # "query" /\ rt = "parked" /\ control = <<>> /\ events = <<>>

(* A query waits for its answer.                                           *)
Asking == AtStop /\ pc = "query" /\ rt = "parked" /\ control = <<Query>> /\ events = <<>>

Answered == AtStop /\ pc = "query" /\ rt = "parked" /\ control = <<>> /\ events = <<Answer(info)>>

(* The run thread panicked evaluating a query.                             *)
Panicked == AtStop /\ rt = "ended" /\ outcome = "panic" /\ events = <<>>

(* A resume waits for the flush; the run has not been woken.               *)
Staged ==
  /\ Live /\ pc # "query" /\ stopped_at = NoStop /\ pending_resume # NoMode
  /\ rt \in {"parked", "ended"} /\ (rt = "parked" => control = <<>>) /\ events = <<>>

(* The run is about to take the resume.                                    *)
Waking ==
  /\ Live /\ pc # "query" /\ NothingStopped /\ rt = "parked" /\ events = <<>>
  /\ control # <<>> /\ control = <<ResumeMsg(Head(control).mode)>>

(* The run was asked to terminate; the teardown collects or abandons it.   *)
Winding ==
  /\ terminate /\ ~pending /\ NothingStopped
  /\ \/ running /\ terminating /\ pc = "teardown"
     \/ ~running /\ ~terminating /\ pc \in {"done", "exit"}
  /\ events \in Seq(Unsolicited)
  /\ \/ rt = "ended" /\ late \in {0, 1}
     \/ rt = "statement" /\ control = <<Terminate>> /\ ~halted /\ late \in {0, 1}
     \/ rt \in {"hook", "decide"} /\ control = <<Terminate>> /\ ~halted /\ late = 0
     \/ rt = "parked" /\ control = <<Terminate>> /\ late = 0
     \/ /\ rt = "parked" /\ ~halted /\ late = 0
        /\ control # <<>> /\ control = <<ResumeMsg(Head(control).mode), Terminate>>
  /\ halted => late = 0

(* The session is over without a terminate.                                *)
Over ==
  /\ ~running /\ ~terminate /\ ~terminating /\ pc \in {"done", "exit"}
  /\ rt = "ended" \/ (rt = "none" /\ control = <<>>)
  /\ events = <<>> /\ NothingStopped
  /\ late = 0 /\ ~halted

Phases ==
  \/ Idle \/ Executing \/ Announced \/ Shown \/ Asking \/ Answered \/ Panicked \/ Staged
  \/ Waking \/ Winding \/ Over

(* The inductive invariant: the session is well typed and in one of the    *)
(* phases above, which fix what both channels hold at each point of the    *)
(* protocol thread and the run thread.                                     *)
IInv == TypeOK /\ Phases

-----------------------------------------------------------------------------
USE DEF vars, clientVars, protocolVars, launchVars, stopVars, sharedVars, runVars, historyVars

(* A channel with a single message is empty once it is received.            *)
LEMMA OneMessage ==
  ASSUME NEW a
  PROVE  /\ <<a>> # <<>> /\ Head(<<a>>) = a /\ Tail(<<a>>) = <<>>
         /\ Append(<<>>, a) = <<a>>
  OBVIOUS

(* A message sent after a single one is the second and last.                *)
LEMMA TwoMessages ==
  ASSUME NEW a, NEW b
  PROVE  /\ <<a, b>> # <<>> /\ Head(<<a, b>>) = a /\ Tail(<<a, b>>) = <<b>>
         /\ Append(<<a>>, b) = <<a, b>>
<1>1. <<a, b>> # <<>> /\ Head(<<a, b>>) = a  OBVIOUS
<1>2. Tail(<<a, b>>) = <<b>>
  <2>1. Len(Tail(<<a, b>>)) = 1 /\ Tail(<<a, b>>)[1] = b  OBVIOUS
  <2>2. Tail(<<a, b>>) \in Seq({b})  OBVIOUS
  <2>3. QED  BY <2>1, <2>2
<1>3. Append(<<a>>, b) = <<a, b>>
  <2> DEFINE s == Append(<<a>>, b)  t == <<a, b>>
  <2>1. s \in Seq({a, b}) /\ t \in Seq({a, b})  OBVIOUS
  <2>2. Len(s) = 2 /\ Len(t) = 2 /\ s[1] = t[1] /\ s[2] = t[2]  OBVIOUS
  <2>3. \A i \in 1..Len(s) : s[i] = t[i]  BY <2>2
  <2> HIDE DEF s, t
  <2>4. s = t  BY <2>1, <2>2, <2>3, SeqEqual
  <2>5. QED  BY <2>4 DEF s, t
<1>4. QED  BY <1>1, <1>2, <1>3

(* The constructors of the messages tell them apart.                        *)
LEMMA MessageFacts ==
  /\ Query.type = "query" /\ Terminate.type = "terminate"
  /\ \A m : ResumeMsg(m).type = "resume" /\ ResumeMsg(m).mode = m
  /\ Output.type = "output"
  /\ \A i : /\ Stopped(i).type = "stopped" /\ Stopped(i).stop = i
            /\ Answer(i).type = "answer" /\ Answer(i).stop = i
  BY DEF Query, Terminate, ResumeMsg, Output, Stopped, Answer

(* Forwarding from a queue of outputs, with or without a stop at its end.  *)
LEMMA OutputQueues ==
  ASSUME NEW q \in Seq({Output})
  PROVE  /\ Append(q, Output) \in Seq({Output})
         /\ q # <<>> => Head(q) = Output /\ Tail(q) \in Seq({Output})
         /\ \A i : Announces(Append(q, Stopped(i)), i)
         /\ q \in Seq(Unsolicited)
<1>1. Append(q, Output) \in Seq({Output})  OBVIOUS
<1>2. q # <<>> => Head(q) = Output /\ Tail(q) \in Seq({Output})  OBVIOUS
<1>3. \A i : Announces(Append(q, Stopped(i)), i)  BY DEF Announces
<1>4. q \in Seq(Unsolicited)
  <2>1. Output \in Unsolicited  BY DataTypes DEF Output, Unsolicited
  <2>2. QED  BY <2>1
<1>5. QED  BY <1>1, <1>2, <1>3, <1>4

(* An output may precede a stop: appending the stop to outputs announces it. *)
LEMMA AnnouncingQueues ==
  ASSUME NEW q \in Seq(EventMsg), NEW i, Announces(q, i)
  PROVE  /\ q # <<>>
         /\ \/ Head(q) = Stopped(i) /\ Tail(q) = <<>>
            \/ Head(q) = Output /\ Announces(Tail(q), i)
<1>0. q # <<>>  BY DEF Announces
<1>5. Len(q) \in Nat \ {0}  BY <1>0, EmptySeq
<1>1. CASE Len(q) = 1
  <2>1. Head(q) = Stopped(i)  BY <1>1 DEF Announces
  <2>2. Tail(q) \in Seq(EventMsg) /\ Len(Tail(q)) = 0  BY <1>0, <1>1
  <2>3. Tail(q) = <<>>  BY <2>2, EmptySeq
  <2>4. QED  BY <1>0, <2>1, <2>3
<1>2. CASE Len(q) > 1
  <2>1. Head(q) = Output  BY <1>2 DEF Announces
  <2>2. Tail(q) # <<>> /\ Len(Tail(q)) = Len(q) - 1  BY <1>0, <1>2
  <2>3. Tail(q)[Len(Tail(q))] = Stopped(i)  BY <1>2, <2>2 DEF Announces
  <2>4. \A j \in 1..Len(Tail(q)) - 1 : Tail(q)[j] = Output  BY <1>2, <2>2 DEF Announces
  <2>5. QED  BY <2>1, <2>2, <2>3, <2>4 DEF Announces
<1>3. Len(q) = 1 \/ Len(q) > 1
  <2>1. \A n \in Nat \ {0} : n = 1 \/ n > 1  OBVIOUS
  <2>2. QED  BY <1>5, <2>1
<1>4. QED  BY <1>1, <1>2, <1>3

(* A run that announces a stop has not been asked anything.                 *)
LEMMA AnnouncingIsUnsolicited ==
  ASSUME NEW q \in Seq(EventMsg), NEW i \in StopInfo, Announces(q, i)
  PROVE  q \in Seq(Unsolicited)
<1>1. Output \in Unsolicited /\ Stopped(i) \in Unsolicited
  BY DataTypes DEF Output, Stopped, Unsolicited
<1>2. \A j \in 1..Len(q) : q[j] \in Unsolicited  BY <1>1 DEF Announces
<1>3. QED  BY <1>2

-----------------------------------------------------------------------------
(* Actions whose effect on the phase follows from the definitions at once. *)

USE DEF IInv, Phases, Idle, Live, Executing, Announced, AtStop, Shown, Asking, Answered, Panicked,
        Staged, Waking, Winding, Over, NothingStopped

(* A new session has no run: it is idle.                                    *)
LEMMA InitPhase == Init => Phases
  BY EmptyTypes DEF Init

(* A phase speaks of the run and its channels only.                         *)
LEMMA StutterPhase ==
  ASSUME IInv, UNCHANGED vars
  PROVE  Phases'
  OBVIOUS

(* A request that is only queued changes no phase.                          *)
LEMMA SendPhase ==
  ASSUME IInv, NEW r \in Requests, Send(r)
  PROVE  Phases'
  BY DEF Send

(* The end of input changes no phase by itself.                             *)
LEMMA ClosePhase ==
  ASSUME IInv, CloseInput
  PROVE  Phases'
  BY DEF CloseInput

(* launch happens while idle, or is refused.                                *)
LEMMA LaunchPhase ==
  ASSUME IInv, NEW r \in Requests, on_launch(r)
  PROVE  Phases'
  BY DEF on_launch, Receive, AlreadyConfigured, clear_launch_configuration

(* setBreakpoints pushes to the third channel, which no phase constrains.   *)
LEMMA SetBreakpointsPhase ==
  ASSUME IInv, NEW r \in Requests, on_set_breakpoints(r)
  PROVE  Phases'
  BY DEF on_set_breakpoints, Receive

(* configurationDone turns idle into executing.                             *)
LEMMA ConfigurationDonePhase ==
  ASSUME IInv, NEW r \in Requests, on_configuration_done(r)
  PROVE  Phases'
  BY EmptyTypes DEF on_configuration_done, Receive, StartRun, LaunchRefused, ThreadFailed,
       clear_launch_configuration

(* A handler that only answers changes no phase.                            *)
LEMMA SilentPhase ==
  ASSUME IInv, pc \in {"drain", "wait"}, pc' = "drain",
         UNCHANGED <<running, launchVars, stopVars, sharedVars, runVars, historyVars>>
  PROVE  Phases'
  OBVIOUS

(* A query at a shown stop turns shown into asking; one to a dead run finds *)
(* nobody.                                                                  *)
LEMMA QueryPhase ==
  ASSUME IInv, pc \in {"drain", "wait"}, IsStopped, query,
         UNCHANGED <<running, launchVars, stopVars, runVars, historyVars>>
  PROVE  Phases'
<1>1. Shown \/ Panicked  BY DEF IInv, IsStopped
<1>2. CASE Shown
  <2>1. control' = <<Query>> /\ pc' = "query"  BY <1>2, OneMessage DEF query, SendControl, Shown
  <2>2. Asking'  BY <1>2, <2>1 DEF query, Shown, Asking, AtStop, Live
  <2>3. QED  BY <2>2 DEF Phases
<1>3. CASE Panicked
  <2>1. Panicked'  BY <1>3 DEF query, SendControl, Panicked, AtStop, Live
  <2>2. QED  BY <2>1 DEF Phases
<1>4. QED  BY <1>1, <1>2, <1>3

(* variables at a shown stop turns shown into asking.                       *)
LEMMA VariablesPhase ==
  ASSUME IInv, NEW r \in Requests, on_variables(r)
  PROVE  Phases'
<1> HIDE DEF IInv, Phases
<1>1. CASE IsStopped /\ query  BY <1>1, QueryPhase DEF on_variables, Receive
<1>2. CASE pc' = "drain" /\ UNCHANGED sharedVars
  <2>1. pc \in {"drain", "wait"} /\ UNCHANGED <<running, launchVars, stopVars, runVars, historyVars>>
    BY DEF on_variables, Receive
  <2>2. QED  BY <1>2, <2>1, SilentPhase
<1>3. QED  BY <1>1, <1>2 DEF on_variables

(* evaluate at a shown stop turns shown into asking.                        *)
LEMMA EvaluatePhase ==
  ASSUME IInv, NEW r \in Requests, on_evaluate(r)
  PROVE  Phases'
<1> HIDE DEF IInv, Phases
<1>1. CASE IsStopped /\ query  BY <1>1, QueryPhase DEF on_evaluate, Receive
<1>2. CASE pc' = "drain" /\ UNCHANGED sharedVars
  <2>1. pc \in {"drain", "wait"} /\ UNCHANGED <<running, launchVars, stopVars, runVars, historyVars>>
    BY DEF on_evaluate, Receive
  <2>2. QED  BY <1>2, <2>1, SilentPhase
<1>3. QED  BY <1>1, <1>2 DEF on_evaluate

(* A resume at a shown stop turns shown into staged.                        *)
LEMMA ResumePhase ==
  ASSUME IInv, NEW r \in Requests, on_resume(r)
  PROVE  Phases'
  BY DataTypes, ResumeModeType DEF on_resume, Receive, resume_run, IsStopped

(* A pause at a shown stop turns shown into staged.                         *)
LEMMA PausePhase ==
  ASSUME IInv, NEW r \in Requests, on_pause(r)
  PROVE  Phases'
  BY DataTypes, ResumeModeType DEF on_pause, Receive, resume_run, IsStopped

(* The end of the drain changes no phase.                                   *)
LEMMA DrainPhase ==
  ASSUME IInv, DrainDone
  PROVE  Phases'
  BY DEF DrainDone

(* The end of the timed wait changes no phase.                              *)
LEMMA WaitTimeoutPhase ==
  ASSUME IInv, WaitTimeout
  PROVE  Phases'
  BY DEF WaitTimeout

(* The answer turns answered back into shown; a dead run leaves panicked.   *)
LEMMA QueryReturnsPhase ==
  ASSUME IInv, QueryReturns
  PROVE  Phases'
  BY OneMessage DEF QueryReturns

(* The process exits after the session is over.                             *)
LEMMA ExitPhase ==
  ASSUME IInv, Exit
  PROVE  Phases'
  BY DEF Exit

(* A program can end only while it executes, or winds down.                 *)
LEMMA FinishPhase ==
  ASSUME IInv, FinishProgram
  PROVE  Phases'
  BY DEF FinishProgram, RunThread, Unwind

(* A statement is reached only while executing or winding down.             *)
LEMMA ReachPhase ==
  ASSUME IInv, ReachStatement
  PROVE  Phases'
  BY DEF ReachStatement, RunThread, Unwind, TerminateObserved

(* Serving a query turns asking into answered, or into panicked.            *)
LEMMA ServeQueryPhase ==
  ASSUME IInv, ServeQuery
  PROVE  Phases'
  BY OneMessage, TwoMessages, MessageFacts DEF ServeQuery, RunThread, Unwind

(* Serving a terminate ends a winding run.                                  *)
LEMMA ServeTerminatePhase ==
  ASSUME IInv, ServeTerminate
  PROVE  Phases'
  BY OneMessage, TwoMessages, MessageFacts DEF ServeTerminate, RunThread, Unwind

(* Only a winding run can be abandoned.                                     *)
LEMMA DetachPhase ==
  ASSUME IInv, detach_run
  PROVE  Phases'
  BY EmptyTypes DEF detach_run, DropRunning

(* Which phases a thread can find itself in.                               *)
LEMMA ParkedPhases ==
  ASSUME IInv
  PROVE  /\ rt \in {"hook", "decide"} => Executing \/ Winding
         /\ rt = "parked" /\ control # <<>> /\ Head(control).type = "resume" => Waking \/ Winding
  BY OneMessage, MessageFacts

(* The phases in which the run thread is between two stops.                 *)
LEMMA RunningPhases ==
  ASSUME IInv
  PROVE  /\ pc = "teardown" => Winding /\ running /\ terminating
         /\ running /\ pc # "teardown" => Live
         /\ running /\ pc \notin {"query", "teardown"} =>
              Executing \/ Announced \/ Shown \/ Panicked \/ Staged \/ Waking
         /\ pc = "pump" => Executing \/ Announced \/ ~running \/ events = <<>>
  OBVIOUS

(* What the control channel of a live run thread can hold.                 *)
LEMMA PendingControl ==
  ASSUME IInv, rt # "ended", control # <<>>
  PROVE  \/ control = <<Query>> \/ control = <<Terminate>>
         \/ /\ rt = "parked" /\ stopped_at = NoStop
            /\ \/ control = <<ResumeMsg(Head(control).mode)>>
               \/ control = <<ResumeMsg(Head(control).mode), Terminate>>
  OBVIOUS

HIDE DEF IInv, Phases, Idle, Live, Executing, Announced, AtStop, Shown, Asking, Answered, Panicked,
         Staged, Waking, Winding, Over, NothingStopped
-----------------------------------------------------------------------------
(* Actions that move a message of a channel, or raise the terminate flag.  *)

(* Flushing turns staged into waking.                                       *)
LEMMA FlushPhase ==
  ASSUME IInv, flush_resume
  PROVE  Phases'
<1> DEFINE wake == <<ResumeMsg(pending_resume)>>
<1>1. /\ wake # <<>> /\ wake = <<ResumeMsg(Head(wake).mode)>>
      /\ Append(<<>>, ResumeMsg(pending_resume)) = wake
  BY OneMessage, MessageFacts
<1> HIDE DEF wake
<1>2. QED
  BY <1>1 DEF IInv, Phases, Idle, Live, Executing, Announced, AtStop, Shown, Asking, Answered,
       Panicked, Staged, Waking, Winding, Over, NothingStopped, flush_resume, ResumeStaged,
       finish_run, DropRunning

(* The step every teardown starts with, from wherever the run is.          *)
LEMMA TerminateSessionPhase ==
  ASSUME IInv, terminate_session, pc \in {"drain", "wait"}, UNCHANGED <<pending, runVars>>
  PROVE  Phases'
<1>1. CASE ~running
  BY <1>1 DEF IInv, Phases, Idle, Live, Executing, Announced, AtStop, Shown, Asking, Answered,
       Panicked, Staged, Waking, Winding, Over, NothingStopped, terminate_session
<1>2. CASE running
  <2>1. /\ Live /\ pc # "query"
        /\ Executing \/ Announced \/ Shown \/ Panicked \/ Staged \/ Waking
    BY <1>2, RunningPhases
  <2>2. /\ terminate' /\ ~pending' /\ NothingStopped' /\ running' /\ terminating' /\ pc' = "teardown"
        /\ rt' = rt /\ events' = events /\ late' = 0
        /\ halted' = (stopped_at # NoStop \/ pending_resume # NoMode)
        /\ control' = IF rt = "ended" THEN control ELSE Append(control, Terminate)
    BY <1>2, <2>1 DEF terminate_session, SendControl, NothingStopped, Live
  <2>3. events' \in Seq(Unsolicited)
    <3>1. info \in StopInfo /\ events \in Seq(EventMsg)  BY DEF IInv, TypeOK, StopsTypeOK,
         QueuesTypeOK
    <3>2. CASE Executing  BY <2>2, <3>2, OutputQueues DEF Executing
    <3>3. CASE Announced  BY <2>2, <3>1, <3>3, AnnouncingIsUnsolicited DEF Announced
    <3>4. CASE events = <<>>  BY <2>2, <3>4, EmptyTypes
    <3>5. QED  BY <2>1, <3>2, <3>3, <3>4 DEF Shown, Panicked, Staged, Waking
  <2>4. rt \in {"statement", "hook", "decide"} => control' = <<Terminate>> /\ ~halted'
    BY <2>1, <2>2, OneMessage DEF Executing, Announced, Shown, Panicked, Staged, Waking,
         NothingStopped
  <2>5. rt = "parked" =>
          \/ control' = <<Terminate>>
          \/ /\ ~halted' /\ control' # <<>>
             /\ control' = <<ResumeMsg(Head(control').mode), Terminate>>
    <3>1. CASE Waking
      <4>1. ~halted' /\ control' = <<ResumeMsg(Head(control).mode), Terminate>>
        BY <2>2, <3>1, TwoMessages DEF Waking, NothingStopped
      <4>2. control' # <<>> /\ Head(control') = ResumeMsg(Head(control).mode)
        BY <4>1, TwoMessages
      <4>3. QED  BY <4>1, <4>2, MessageFacts
    <3>2. CASE control = <<>>  BY <2>2, <3>2, OneMessage
    <3>3. QED  BY <2>1, <3>1, <3>2 DEF Executing, Announced, Shown, Panicked, Staged
  <2>6. rt \in {"statement", "hook", "decide", "parked", "ended"}
    BY <2>1 DEF Executing, Announced, Shown, Panicked, Staged, Waking
  <2>7. Winding'  BY <2>2, <2>3, <2>4, <2>5, <2>6 DEF Winding
  <2>8. QED  BY <2>7 DEF Phases
<1>3. QED  BY <1>1, <1>2

(* The pump turns announced into shown once the outputs before it are gone. *)
LEMMA PumpPhase ==
  ASSUME IInv, pump_run_event
  PROVE  Phases'
<1>1. CASE Executing /\ events # <<>>
  <2>1. Head(events) = Output /\ Tail(events) \in Seq({Output})
    BY <1>1, OutputQueues DEF Executing
  <2>2. events' = Tail(events) /\ pc' = "drain" /\ stopped_at' = stopped_at
    BY <1>1, <2>1, MessageFacts DEF pump_run_event, handle_run_event, Executing, Live
  <2>3. UNCHANGED <<running, launchVars, terminate, pause, control, swaps, pending_resume,
                    terminating, late, halted, runVars>>
    BY <1>1 DEF pump_run_event, handle_run_event, Executing, Live
  <2>4. Executing'  BY <1>1, <2>1, <2>2, <2>3 DEF Executing, Live, NothingStopped
  <2>5. QED  BY <2>4 DEF Phases
<1>2. CASE Announced
  <2>0. events \in Seq(EventMsg)  BY DEF IInv, TypeOK, QueuesTypeOK
  <2>1. \/ Head(events) = Stopped(info) /\ Tail(events) = <<>>
        \/ Head(events) = Output /\ Announces(Tail(events), info)
    BY <1>2, <2>0, AnnouncingQueues DEF Announced
  <2>2. events # <<>>  BY <1>2 DEF Announced, Announces
  <2>3. handle_run_event(Head(events)) /\ events' = Tail(events) /\ pc' = "drain"
    BY <1>2, <2>2 DEF pump_run_event, Announced, Live
  <2>4. UNCHANGED <<running, launchVars, terminate, pause, control, swaps, pending_resume,
                    terminating, late, halted, runVars>>
    BY <1>2, <2>2 DEF pump_run_event, handle_run_event, Announced, Live
  <2>5. CASE Head(events) = Stopped(info) /\ Tail(events) = <<>>
    <3>1. stopped_at' = info
      BY <1>2, <2>3, <2>5, MessageFacts DEF handle_run_event, Announced, Live
    <3>2. Shown'
      BY <1>2, <2>3, <2>4, <2>5, <3>1 DEF Shown, AtStop, Announced, Live, NothingStopped
    <3>3. QED  BY <3>2 DEF Phases
  <2>6. CASE Head(events) = Output /\ Announces(Tail(events), info)
    <3>1. stopped_at' = stopped_at
      BY <2>3, <2>6, MessageFacts DEF handle_run_event
    <3>2. Announced'
      BY <1>2, <2>3, <2>4, <2>6, <3>1 DEF Announced, Live, NothingStopped
    <3>3. QED  BY <3>2 DEF Phases
  <2>7. QED  BY <2>1, <2>5, <2>6
<1>3. CASE running /\ events = <<>>
  <2>1. CASE rt = "ended"
    BY <1>3, <2>1 DEF IInv, Phases, Idle, Live, Executing, Announced, AtStop, Shown, Asking,
         Answered, Panicked, Staged, Waking, Winding, Over, NothingStopped, pump_run_event,
         finish_run, DropRunning
  <2>2. CASE rt # "ended"
    BY <1>3, <2>2 DEF IInv, Phases, Idle, Live, Executing, Announced, AtStop, Shown, Asking,
         Answered, Panicked, Staged, Waking, Winding, Over, NothingStopped, pump_run_event
  <2>3. QED  BY <2>1, <2>2
<1>4. CASE ~running
  BY <1>4 DEF IInv, Phases, Idle, Live, Executing, Announced, AtStop, Shown, Asking, Answered,
       Panicked, Staged, Waking, Winding, Over, NothingStopped, pump_run_event
<1>5. pc = "pump"  BY DEF pump_run_event
<1>6. Executing \/ Announced \/ ~running \/ events = <<>>
  BY <1>5, RunningPhases
<1>7. QED  BY <1>1, <1>2, <1>3, <1>4, <1>6

(* The teardown keeps a run winding until it has ended.                     *)
LEMMA TeardownPhase ==
  ASSUME IInv, finish_run_within
  PROVE  Phases'
<1>1. Winding /\ running /\ terminating /\ pc = "teardown"
  BY RunningPhases DEF finish_run_within
<1>2. CASE events # <<>>
  <2>1. Tail(events) \in Seq(Unsolicited)  BY <1>1, <1>2, QueueTypes DEF Winding
  <2>2. events' = Tail(events) /\ stopped_at' = stopped_at
    BY <1>1, <1>2 DEF finish_run_within, handle_run_event
  <2>3. UNCHANGED <<pc, running, launchVars, terminate, control, pending_resume, terminating,
                    late, halted, runVars>>
    BY <1>1, <1>2 DEF finish_run_within, handle_run_event
  <2>4. Winding'  BY <1>1, <2>1, <2>2, <2>3 DEF Winding, NothingStopped
  <2>5. QED  BY <2>4 DEF Phases
<1>3. CASE events = <<>>
  <2>1. Winding'
    BY <1>1, <1>3, EmptyTypes DEF Winding, NothingStopped, finish_run_within, finish_run,
         DropRunning
  <2>2. QED  BY <2>1 DEF Phases
<1>4. QED  BY <1>2, <1>3

(* A logpoint output leaves the run executing, or winding.                  *)
LEMMA EvaluateBreakpointsPhase ==
  ASSUME IInv, EvaluateBreakpoints
  PROVE  Phases'
<1>1. rt = "hook" /\ (rt' = "decide" \/ (rt' = "ended" /\ ~running /\ events' = events))
  BY DEF EvaluateBreakpoints, RunThread, Unwind
<1>2. events' = events \/ (events' = Append(events, Output) /\ (rt' = "decide"))
  BY DEF EvaluateBreakpoints, Unwind
<1>3. UNCHANGED <<clientVars, protocolVars, terminate, pause, control, info, late, halted>>
  BY DEF EvaluateBreakpoints
<1>4. Executing \/ Winding  BY <1>1, ParkedPhases
<1>5. CASE Executing
  <2>1. events' \in Seq({Output})  BY <1>2, <1>5, OutputQueues DEF Executing
  <2>2. Executing'  BY <1>1, <1>3, <1>5, <2>1 DEF Executing, Live, NothingStopped
  <2>3. QED  BY <2>2 DEF Phases
<1>6. CASE Winding
  <2>1. Output \in Unsolicited  BY DataTypes DEF Output, Unsolicited
  <2>2. events' \in Seq(Unsolicited)  BY <1>2, <1>6, <2>1, QueueTypes DEF Winding
  <2>3. Winding'  BY <1>1, <1>3, <1>6, <2>2 DEF Winding, NothingStopped
  <2>4. QED  BY <2>3 DEF Phases
<1>7. QED  BY <1>4, <1>5, <1>6

(* Serving the resume turns waking into executing.                          *)
LEMMA ServeResumePhase ==
  ASSUME IInv, ServeResume
  PROVE  Phases'
<1>1. /\ rt = "parked" /\ rt' = "statement"
      /\ control # <<>> /\ Head(control).type = "resume" /\ control' = Tail(control)
      /\ late' = IF terminate THEN late + 1 ELSE late
  BY DEF ServeResume, RunThread, BeginStatement
<1>2. UNCHANGED <<clientVars, protocolVars, terminate, events, info, halted>>
  BY DEF ServeResume
<1>3. Waking \/ Winding
  BY <1>1, ParkedPhases
<1>4. CASE Waking
  <2>1. control' = <<>> /\ late' = late  BY <1>1, <1>4, OneMessage DEF Waking, Live
  <2>2. Executing'
    BY <1>1, <1>2, <1>4, <2>1, EmptyTypes DEF Waking, Executing, Live, NothingStopped
  <2>3. QED  BY <2>2 DEF Phases
<1>5. CASE Winding
  <2>1. /\ ~halted /\ late = 0
        /\ control = <<ResumeMsg(Head(control).mode), Terminate>>
    BY <1>1, <1>5, OneMessage, MessageFacts DEF Winding
  <2>2. control' = <<Terminate>>
    <3>1. control' = Tail(<<ResumeMsg(Head(control).mode), Terminate>>)  BY <1>1, <2>1
    <3>2. QED  BY <3>1, TwoMessages
  <2>3. late' = 1  BY <1>1, <1>5, <2>1 DEF Winding
  <2>4. Winding'  BY <1>1, <1>2, <1>5, <2>1, <2>2, <2>3 DEF Winding, NothingStopped
  <2>5. QED  BY <2>4 DEF Phases
<1>6. QED  BY <1>3, <1>4, <1>5

(* A stop turns executing into announced.                                   *)
LEMMA StopOrGoPhase ==
  ASSUME IInv, StopOrGo
  PROVE  Phases'
<1> DEFINE stop == [id |-> stops + 1, reason |-> StopReason, depth |-> depth]
<1>1. UNCHANGED <<clientVars, protocolVars, terminate, control, halted>>
  BY DEF StopOrGo
<1>2. rt = "decide"  BY DEF StopOrGo, RunThread
<1>3. \/ /\ rt' = "statement" /\ events' = events
         /\ late' = IF terminate THEN late + 1 ELSE late
      \/ /\ rt' = "parked" /\ running /\ info' = stop /\ events' = Append(events, Stopped(stop))
         /\ late' = late
      \/ rt' = "ended" /\ events' = events /\ ~running /\ late' = late
  BY DEF StopOrGo, BeginStatement, Unwind
<1>4. stop # NoStop /\ stop \in StopInfo
  <2>1. stops + 1 \in Nat /\ stops + 1 # 0 /\ depth \in Nat
    BY BoundsAssumption DEF IInv, TypeOK, CountersTypeOK
  <2>2. StopReason \in {"none", "entry", "pause", "step", "breakpoint"}  BY DEF StopReason, decide
  <2>3. stop.id # NoStop.id  BY <2>1 DEF NoStop
  <2>4. QED  BY <2>1, <2>2, <2>3 DEF StopInfo
<1>5. Stopped(stop) \in Unsolicited  BY <1>4 DEF Stopped, Unsolicited
<1> HIDE DEF stop
<1>6. Executing \/ Winding  BY <1>2, ParkedPhases
<1>7. CASE Executing
  <2>1. CASE rt' = "statement" /\ events' = events /\ late' = late
    <3>1. Executing'  BY <1>1, <1>7, <2>1 DEF Executing, Live, NothingStopped
    <3>2. QED  BY <3>1 DEF Phases
  <2>2. CASE /\ rt' = "parked" /\ info' = stop /\ events' = Append(events, Stopped(stop))
             /\ late' = late
    <3>1. Announces(events', info')  BY <1>7, <2>2, OutputQueues DEF Executing
    <3>2. Announced'
      BY <1>1, <1>4, <1>7, <2>2, <3>1 DEF Executing, Announced, Live, NothingStopped
    <3>3. QED  BY <3>2 DEF Phases
  <2>3. QED  BY <1>3, <1>7, <2>1, <2>2 DEF Executing, Live
<1>8. CASE Winding
  <2>1. events' \in Seq(Unsolicited)  BY <1>3, <1>5, <1>8, QueueTypes DEF Winding
  <2>2. /\ control = <<Terminate>> /\ ~halted /\ late = 0 /\ terminate  BY <1>2, <1>8 DEF Winding
  <2>3. \/ rt' = "statement" /\ late' = 1
        \/ rt' \in {"parked", "ended"} /\ late' = 0
    <3>1. CASE rt' = "statement" /\ late' = late + 1  BY <2>2, <3>1
    <3>2. QED  BY <1>3, <2>2, <3>1
  <2>4. Winding'  BY <1>1, <1>8, <2>1, <2>2, <2>3 DEF Winding, NothingStopped
  <2>5. QED  BY <2>4 DEF Phases
<1>9. QED  BY <1>6, <1>7, <1>8

-----------------------------------------------------------------------------
(* Every request handler leads from a phase to a phase.                     *)
LEMMA HandlePhase ==
  ASSUME IInv, HandleRequest
  PROVE  Phases'
<1>1. PICK r \in Requests : r = Head(requests) /\ Handle(r)
  BY QueueTypes DEF HandleRequest, IInv, TypeOK, QueuesTypeOK
<1>2. CASE on_terminate(r)
  <2>1. CASE ~running
    BY <1>2, <2>1, StutterPhase DEF on_terminate, Receive, IInv, Phases, Idle, Live, Executing,
       Announced, AtStop, Shown, Asking, Answered, Panicked, Staged, Waking, Winding, Over,
       NothingStopped
  <2>2. CASE running
    BY <1>2, <2>2, TerminateSessionPhase DEF on_terminate, Receive, terminate_session
  <2>3. QED  BY <2>1, <2>2
<1>3. CASE on_disconnect(r)
  BY <1>3, TerminateSessionPhase DEF on_disconnect, Receive, terminate_session
<1>4. QED
  BY <1>1, <1>2, <1>3, LaunchPhase, SetBreakpointsPhase, ConfigurationDonePhase, VariablesPhase,
     EvaluatePhase, ResumePhase, PausePhase DEF Handle

(* Every step leads from a phase to a phase.                                *)
LEMMA NextPhase ==
  ASSUME IInv, [Next]_vars
  PROVE  Phases'
<1>1. CASE Client  BY <1>1, SendPhase, ClosePhase DEF Client
<1>2. CASE Protocol
  <2>1. CASE InputEnded
    BY <2>1, TerminateSessionPhase DEF InputEnded, terminate_session
  <2>2. QED
    BY <1>2, <2>1, HandlePhase, DrainPhase, FlushPhase, PumpPhase, WaitTimeoutPhase,
       QueryReturnsPhase, TeardownPhase, DetachPhase, ExitPhase DEF Protocol
<1>3. CASE Hook
  BY <1>3, EvaluateBreakpointsPhase, StopOrGoPhase, ServeQueryPhase, ServeResumePhase,
     ServeTerminatePhase DEF Hook, Park
<1>4. CASE Program  BY <1>4, ReachPhase, FinishPhase DEF Program
<1>5. CASE UNCHANGED vars  BY <1>5, StutterPhase
<1>6. QED  BY <1>1, <1>2, <1>3, <1>4, <1>5 DEF Next, Exited

(* At every point of the two threads' interleaving the session is in one   *)
(* of the named phases, and its two channels hold what the phase says.     *)
THEOREM PhasesCorrect == Spec => []IInv
<1>1. Init => IInv  BY InitTypeOK, InitPhase DEF IInv
<1>2. IInv /\ [Next]_vars => IInv'  BY NextType, NextPhase DEF IInv
<1>3. QED  BY <1>1, <1>2, PTL DEF Spec

(* `stopped_at` is set only while the run is parked at that very stop with *)
(* nothing in flight, or died answering a query there.                     *)
THEOREM StoppedMeansParkedCorrect == Spec => []StoppedMeansParked
<1>1. IInv => StoppedMeansParked
  BY DEF IInv, Phases, Idle, Live, Executing, Announced, AtStop, Shown, Asking, Answered, Panicked,
     Staged, Waking, Winding, Over, NothingStopped, StoppedMeansParked
<1>2. QED  BY <1>1, PhasesCorrect, PTL

(* `query` receives the answer to its own question, and the event pump and *)
(* the teardown never receive one.                                         *)
THEOREM QueriesGetTheirAnswerCorrect == Spec => []QueriesGetTheirAnswer
<1>1. ASSUME IInv PROVE pc = "query" => stopped_at # NoStop
  BY <1>1 DEF IInv, Phases, Idle, Live, Executing, Announced, AtStop, Shown, Asking, Answered,
     Panicked, Staged, Waking, Winding, Over, NothingStopped
<1>2. ASSUME IInv, pc = "query" PROVE \A i \in DOMAIN events : events[i] = Answer(stopped_at)
  <2>1. events = <<>> \/ events = <<Answer(stopped_at)>>
    BY <1>2 DEF IInv, Phases, Idle, Live, Executing, Announced, AtStop, Shown, Asking, Answered,
       Panicked, Staged, Waking, Winding, Over, NothingStopped
  <2>2. QED  BY <2>1
<1>3. ASSUME IInv, pc # "query" PROVE \A i \in DOMAIN events : events[i].type # "answer"
  <2>1. events \in Seq(Unsolicited)
    <3>1. info \in StopInfo /\ events \in Seq(EventMsg)
      BY <1>3 DEF IInv, TypeOK, StopsTypeOK, QueuesTypeOK
    <3>2. CASE Executing  BY <3>2, OutputQueues DEF Executing
    <3>3. CASE Announced  BY <3>1, <3>3, AnnouncingIsUnsolicited DEF Announced
    <3>4. CASE Winding  BY <3>4 DEF Winding
    <3>5. CASE events = <<>>  BY <3>5, EmptyTypes
    <3>6. Executing \/ Announced \/ Winding \/ events = <<>>
      BY <1>3 DEF IInv, Phases, Idle, Shown, Asking, Answered, Panicked, Staged, Waking, Over
    <3>7. QED  BY <3>2, <3>3, <3>4, <3>5, <3>6
  <2>2. \A i \in DOMAIN events : events[i] \in Unsolicited  BY <2>1
  <2>3. QED  BY <2>2 DEF Unsolicited
<1>4. IInv => QueriesGetTheirAnswer  BY <1>1, <1>2, <1>3 DEF QueriesGetTheirAnswer
<1>5. QED  BY <1>4, PhasesCorrect, PTL

(* A terminate handled at a stop, or between a resume and its flush, lets  *)
(* no statement begin; handled while the program runs it lets at most one. *)
THEOREM TerminateIsPromptCorrect == Spec => []TerminateIsPrompt
<1>1. ASSUME IInv PROVE late \in {0, 1} /\ (halted => late = 0)
  BY <1>1 DEF IInv, Phases, Idle, Live, Executing, Announced, AtStop, Shown, Asking, Answered,
     Panicked, Staged, Waking, Winding, Over
<1>2. ASSUME IInv PROVE late <= IF halted THEN 0 ELSE 1
  <2>1. CASE halted  BY <1>1, <1>2, <2>1
  <2>2. CASE ~halted  BY <1>1, <1>2, <2>2
  <2>3. QED  BY <2>1, <2>2
<1>3. IInv => TerminateIsPrompt  BY <1>2 DEF TerminateIsPrompt
<1>4. QED  BY <1>3, PhasesCorrect, PTL

(* A resume that is staged finds the run parked and the channel empty; one *)
(* in the channel is the only one and finds the run parked.                *)
THEOREM WakesOnceCorrect == Spec => []WakesOnce
<1> DEFINE resumes == {i \in DOMAIN control : control[i].type = "resume"}
<1>1. ASSUME IInv, pending_resume # NoMode
      PROVE  rt \in {"parked", "ended"} /\ (rt = "parked" => resumes = {})
  <2>1. rt \in {"parked", "ended"} /\ (rt = "parked" => control = <<>>)
    BY <1>1 DEF IInv, Phases, Idle, Executing, Announced, AtStop, Shown, Asking, Answered, Panicked,
       Staged, Waking, Winding, Over, NothingStopped
  <2>2. control = <<>> => resumes = {}  OBVIOUS
  <2>3. QED  BY <2>1, <2>2
<1>2. ASSUME IInv, rt # "ended", resumes # {}
      PROVE  rt = "parked" /\ resumes = {1} /\ stopped_at = NoStop
  <2>1. control # <<>>  BY <1>2
  <2>2. \/ control = <<Query>> \/ control = <<Terminate>>
        \/ /\ rt = "parked" /\ stopped_at = NoStop
           /\ \/ control = <<ResumeMsg(Head(control).mode)>>
              \/ control = <<ResumeMsg(Head(control).mode), Terminate>>
    BY <1>2, <2>1, PendingControl
  <2>3. ASSUME NEW m, control = <<m>>, m.type # "resume" PROVE resumes = {}
    BY <2>3
  <2>4. control # <<Query>> /\ control # <<Terminate>>  BY <1>2, <2>3, MessageFacts
  <2>5. ASSUME NEW m, control = <<m>>, m.type = "resume" PROVE resumes = {1}
    BY <2>5
  <2>6. ASSUME NEW m, NEW n, control = <<m, n>>, m.type = "resume", n.type # "resume"
        PROVE  resumes = {1}
    BY <2>6
  <2>7. QED  BY <2>2, <2>4, <2>5, <2>6, MessageFacts
<1>3. IInv => WakesOnce  BY <1>1, <1>2 DEF WakesOnce
<1>4. QED  BY <1>3, PhasesCorrect, PTL

-----------------------------------------------------------------------------
(* What a stop tells: the entry stop, and the references handed out at it. *)

(* The protocol thread writes nothing of the run but its start; a launch    *)
(* is taken only before that.                                               *)
LEMMA ProtocolLeavesRun ==
  ASSUME IInv, Client \/ Protocol \/ UNCHANGED vars
  PROVE  /\ UNCHANGED <<mode, entered, depth, matched, info, outcome, stops, begun>>
         /\ rt' = rt \/ (rt = "none" /\ rt' = "statement")
         /\ stop_on_entry' = stop_on_entry \/ rt = "none"
<1>1. pc \in {"drain", "wait"} /\ ~running => rt = "none"
  BY DEF IInv, Phases, Idle, Live, Executing, Announced, AtStop, Shown, Asking, Answered, Panicked,
     Staged, Waking, Winding, Over
<1>2. pc \in {"drain", "wait"} /\ pending => rt = "none"
  BY DEF IInv, Phases, Idle, Live, Executing, Announced, AtStop, Shown, Asking, Answered, Panicked,
     Staged, Waking, Winding, Over
<1>3. ASSUME NEW r, on_launch(r)
      PROVE  /\ UNCHANGED <<runVars, stops, begun>>
             /\ stop_on_entry' = stop_on_entry \/ rt = "none"
  BY <1>1, <1>3 DEF on_launch, Receive, AlreadyConfigured, clear_launch_configuration
<1>4. ASSUME NEW r, on_configuration_done(r)
      PROVE  /\ UNCHANGED <<mode, entered, depth, matched, info, outcome, stops, begun, stop_on_entry>>
             /\ rt' = rt \/ (rt = "none" /\ rt' = "statement")
  BY <1>2, <1>4 DEF on_configuration_done, Receive, StartRun, LaunchRefused, ThreadFailed,
     clear_launch_configuration
<1>5. ASSUME NEW r, \/ on_set_breakpoints(r) \/ on_variables(r) \/ on_evaluate(r)
      PROVE  UNCHANGED <<runVars, stops, begun, stop_on_entry>>
  BY <1>5 DEF on_set_breakpoints, on_variables, on_evaluate
<1>6. ASSUME NEW r, \/ on_resume(r) \/ on_pause(r) \/ on_terminate(r) \/ on_disconnect(r)
      PROVE  UNCHANGED <<runVars, stops, begun, stop_on_entry>>
  BY <1>6 DEF on_resume, on_pause, on_terminate, on_disconnect, resume_run, terminate_session
<1>7. CASE Client \/ UNCHANGED vars
  BY <1>7 DEF Client, Send, CloseInput
<1>8. CASE HandleRequest
  BY <1>3, <1>4, <1>5, <1>6, <1>8 DEF HandleRequest, Handle
<1>9. CASE \/ DrainDone \/ flush_resume \/ pump_run_event \/ WaitTimeout \/ InputEnded
           \/ QueryReturns \/ finish_run_within \/ detach_run \/ Exit
  BY <1>9 DEF DrainDone, flush_resume, pump_run_event, WaitTimeout, InputEnded, QueryReturns,
     finish_run_within, detach_run, Exit, finish_run, DropRunning, handle_run_event, terminate_session
<1>10. QED  BY <1>7, <1>8, <1>9 DEF Protocol

(* A run that stops on entry has made that stop exactly when it has entered, *)
(* and before its first statement.                                           *)
EntryInv ==
  /\ rt = "none" => ~begun /\ ~entered /\ stops = 0 /\ info = NoStop
  /\ rt = "parked" => stops > 0
  /\ stop_on_entry /\ rt # "ended" => (entered <=> stops > 0)
  /\ stop_on_entry /\ begun => stops > 0
  /\ info.reason = "entry" <=> stop_on_entry /\ info.id = 1

LEMMA EntryInvKept ==
  ASSUME IInv, EntryInv, [Next]_vars
  PROVE  EntryInv'
<1>1. CASE Client \/ Protocol \/ UNCHANGED vars
  <2>1. /\ UNCHANGED <<entered, info, stops, begun>>
        /\ rt' = rt \/ (rt = "none" /\ rt' = "statement")
        /\ stop_on_entry' = stop_on_entry \/ rt = "none"
    BY <1>1, ProtocolLeavesRun
  <2>2. stops > 0 \/ stops = 0  BY DEF IInv, TypeOK, CountersTypeOK
  <2>3. CASE rt = "none"
    <3>1. ~begun' /\ ~entered' /\ stops' = 0 /\ info' = NoStop  BY <2>1, <2>3 DEF EntryInv
    <3>2. info'.id = 0 /\ info'.reason = "none"  BY <3>1 DEF NoStop
    <3>3. rt' \in {"none", "statement"}  BY <2>1, <2>3
    <3>4. QED  BY <3>1, <3>2, <3>3 DEF EntryInv
  <2>4. CASE rt # "none"
    <3>1. rt' = rt /\ stop_on_entry' = stop_on_entry  BY <2>1, <2>4
    <3>2. QED  BY <2>1, <3>1 DEF EntryInv
  <2>5. QED  BY <2>3, <2>4
<1>2. CASE ReachStatement \/ FinishProgram \/ EvaluateBreakpoints \/ ServeQuery \/ ServeTerminate
  <2>1. UNCHANGED <<entered, info, stops, begun, stop_on_entry>>
    BY <1>2 DEF ReachStatement, FinishProgram, EvaluateBreakpoints, ServeQuery, ServeTerminate
  <2>2. rt \notin {"none", "ended"} /\ (rt' = rt \/ rt' \in {"hook", "decide", "ended"})
    BY <1>2 DEF ReachStatement, FinishProgram, EvaluateBreakpoints, ServeQuery, ServeTerminate,
       RunThread, Unwind
  <2>3. QED  BY <2>1, <2>2 DEF EntryInv
<1>3. CASE ServeResume
  <2>1. /\ UNCHANGED <<entered, info, stops, stop_on_entry>>
        /\ rt = "parked" /\ rt' = "statement" /\ begun'
    BY <1>3 DEF ServeResume, RunThread, BeginStatement
  <2>2. QED  BY <2>1 DEF EntryInv
<1>4. CASE StopOrGo
  <2>1. rt = "decide" /\ entered' = (entered \/ is_entry_stop) /\ UNCHANGED stop_on_entry
    BY <1>4 DEF StopOrGo, RunThread
  <2>2. is_entry_stop <=> stop_on_entry /\ stops = 0
    <3>1. stops \in Nat  BY DEF IInv, TypeOK, CountersTypeOK
    <3>2. QED  BY <2>1, <3>1 DEF EntryInv, is_entry_stop
  <2>3. StopReason = "entry" <=> is_entry_stop  BY DEF StopReason, decide
  <2>4. CASE StopReason = "none"
    <3>1. rt' = "statement" /\ UNCHANGED <<info, stops>>
      BY <1>4, <2>4 DEF StopOrGo, BeginStatement
    <3>2. entered' = entered /\ (stop_on_entry => stops > 0)
      <4>1. stops \in Nat /\ entered \in BOOLEAN
        BY DEF IInv, TypeOK, CountersTypeOK, FlagsTypeOK
      <4>2. ~is_entry_stop  BY <2>3, <2>4
      <4>3. QED  BY <2>1, <2>2, <4>1, <4>2
    <3>3. QED  BY <2>1, <3>1, <3>2 DEF EntryInv
  <2>5. CASE StopReason # "none" /\ running
    <3>1. /\ rt' = "parked" /\ stops' = stops + 1 /\ begun' = begun
          /\ info' = [id |-> stops + 1, reason |-> StopReason, depth |-> depth]
      BY <1>4, <2>5 DEF StopOrGo
    <3>2. stops' > 0 /\ stops \in Nat  BY <3>1 DEF IInv, TypeOK, CountersTypeOK
    <3>3. info'.id = 1 <=> stops = 0  BY <3>1, <3>2
    <3>4. info'.reason = "entry" <=> stop_on_entry' /\ info'.id = 1
      BY <2>1, <2>2, <2>3, <3>1, <3>3
    <3>5. stop_on_entry => entered'  BY <2>1 DEF is_entry_stop
    <3>6. QED  BY <2>1, <3>1, <3>2, <3>4, <3>5 DEF EntryInv
  <2>6. CASE StopReason # "none" /\ ~running
    <3>1. rt' = "ended" /\ UNCHANGED <<info, stops, begun>>
      BY <1>4, <2>6 DEF StopOrGo, Unwind
    <3>2. QED  BY <2>1, <3>1 DEF EntryInv
  <2>7. QED  BY <2>4, <2>5, <2>6
<1>5. QED  BY <1>1, <1>2, <1>3, <1>4 DEF Next, Hook, Park, Program, Exited

(* References are handed out at the stop the run is parked at only, and     *)
(* taken back with the resume.                                              *)
RefsInv ==
  /\ rt = "none" => expandables = {}
  /\ ReferencesBelongToTheStop

LEMMA RefsInvKept ==
  ASSUME IInv, RefsInv, [Next]_vars
  PROVE  RefsInv'
<1>1. ASSUME UNCHANGED <<running, terminating, expandables, stopped_at>>,
             rt' = rt \/ (rt # "none" /\ rt' # "none")
      PROVE  RefsInv'
  BY <1>1 DEF RefsInv, ReferencesBelongToTheStop
<1>2. ASSUME expandables' = {} PROVE RefsInv'
  BY <1>2 DEF RefsInv, ReferencesBelongToTheStop
<1>3. ASSUME UNCHANGED expandables, rt' = rt, ~running' \/ terminating' PROVE RefsInv'
  BY <1>3 DEF RefsInv, ReferencesBelongToTheStop
<1>4. CASE Client \/ Hook \/ Program \/ UNCHANGED vars
  <2>1. UNCHANGED <<running, terminating, expandables, stopped_at>>
    BY <1>4 DEF Client, Send, CloseInput, Hook, Park, Program, EvaluateBreakpoints, StopOrGo,
       ServeQuery, ServeResume, ServeTerminate, ReachStatement, FinishProgram
  <2>2. rt' = rt \/ (rt # "none" /\ rt' # "none")
    BY <1>4 DEF Client, Send, CloseInput, Hook, Park, Program, EvaluateBreakpoints, StopOrGo,
       ServeQuery, ServeResume, ServeTerminate, ReachStatement, FinishProgram, RunThread, Unwind,
       BeginStatement
  <2>3. QED  BY <1>1, <2>1, <2>2
<1>5. ASSUME terminate_session, UNCHANGED runVars PROVE RefsInv'
  BY <1>1, <1>3, <1>5 DEF terminate_session
<1>6. ASSUME finish_run \/ DropRunning, UNCHANGED runVars PROVE RefsInv'
  BY <1>3, <1>6 DEF finish_run, DropRunning
<1>7. CASE HandleRequest
  <2>1. PICK r : Handle(r)  BY <1>7 DEF HandleRequest
  <2>2. CASE on_configuration_done(r)
    <3>1. pc \in {"drain", "wait"} /\ pending => rt = "none"
      BY DEF IInv, Phases, Idle, Live, Executing, Announced, AtStop, Shown, Asking, Answered,
         Panicked, Staged, Waking, Winding, Over
    <3>2. UNCHANGED <<terminating, expandables, stopped_at>>
      BY <2>2 DEF on_configuration_done, StartRun, LaunchRefused, ThreadFailed
    <3>3. CASE pending
      <4>1. rt = "none"  BY <2>2, <3>1, <3>3 DEF on_configuration_done, Receive
      <4>2. QED  BY <1>2, <3>2, <4>1 DEF RefsInv
    <3>4. CASE ~pending
      BY <1>1, <2>2, <3>4 DEF on_configuration_done
    <3>5. QED  BY <3>3, <3>4
  <2>3. CASE on_launch(r) \/ on_set_breakpoints(r) \/ on_variables(r) \/ on_evaluate(r)
    BY <1>1, <2>3 DEF on_launch, on_set_breakpoints, on_variables, on_evaluate
  <2>4. CASE on_resume(r) \/ on_pause(r)
    BY <1>1, <1>2, <2>4 DEF on_resume, on_pause, resume_run
  <2>5. CASE on_terminate(r) \/ on_disconnect(r)
    BY <1>1, <1>5, <2>5 DEF on_terminate, on_disconnect
  <2>6. QED  BY <2>1, <2>2, <2>3, <2>4, <2>5 DEF Handle
<1>8. CASE DrainDone \/ WaitTimeout \/ Exit
  BY <1>1, <1>8 DEF DrainDone, WaitTimeout, Exit
<1>9. CASE flush_resume
  BY <1>1, <1>6, <1>9 DEF flush_resume
<1>10. CASE pump_run_event
  <2>1. CASE running /\ events # <<>>
    <3>1. /\ handle_run_event(Head(events)) /\ UNCHANGED <<running, runVars>>
          /\ pc = "pump"
      BY <1>10, <2>1 DEF pump_run_event
    <3>2. Executing \/ Announced  BY <2>1, <3>1, RunningPhases
    <3>3. stopped_at = NoStop /\ ~terminating
      BY <3>2 DEF Executing, Announced, NothingStopped, Live
    <3>4. expandables = {}  BY <2>1, <3>3 DEF RefsInv, ReferencesBelongToTheStop
    <3>5. QED  BY <1>2, <3>1, <3>4 DEF handle_run_event
  <2>2. CASE ~(running /\ events # <<>>)
    BY <1>1, <1>6, <1>10, <2>2 DEF pump_run_event
  <2>3. QED  BY <2>1, <2>2
<1>11. CASE InputEnded
  BY <1>5, <1>11 DEF InputEnded
<1>12. CASE QueryReturns
  <2>1. UNCHANGED <<running, stopped_at, terminating, runVars>> /\ pc = "query"
    BY <1>12 DEF QueryReturns
  <2>2. expandables' \in {expandables, expandables \cup {stopped_at.id}}
    BY <1>12 DEF QueryReturns
  <2>3. AtStop
    BY <2>1 DEF IInv, Phases, Idle, Live, Executing, Announced, AtStop, Shown, Asking, Answered,
       Panicked, Staged, Waking, Winding, Over
  <2>4. running /\ ~terminating /\ stopped_at # NoStop /\ rt # "none"
    <3>1. rt # "none"
      BY <2>1 DEF IInv, Phases, Idle, Live, Executing, Announced, AtStop, Shown, Asking, Answered,
         Panicked, Staged, Waking, Winding, Over
    <3>2. QED  BY <2>3, <3>1 DEF AtStop, Live
  <2>5. expandables' = {} \/ expandables' = {stopped_at.id}
    BY <2>2, <2>4 DEF RefsInv, ReferencesBelongToTheStop
  <2>6. QED  BY <2>1, <2>4, <2>5 DEF RefsInv, ReferencesBelongToTheStop
<1>13. CASE finish_run_within
  <2>1. CASE events # <<>>
    <3>1. pc = "teardown" /\ UNCHANGED <<running, terminating, expandables, runVars>>
      BY <1>13, <2>1 DEF finish_run_within, handle_run_event
    <3>2. terminating  BY <3>1, RunningPhases
    <3>3. QED  BY <1>3, <3>1, <3>2
  <2>2. CASE events = <<>>
    BY <1>6, <1>13, <2>2 DEF finish_run_within
  <2>3. QED  BY <2>1, <2>2
<1>14. CASE detach_run
  BY <1>6, <1>14 DEF detach_run
<1>15. QED
  BY <1>4, <1>7, <1>8, <1>9, <1>10, <1>11, <1>12, <1>13, <1>14 DEF Next, Protocol, Exited

(* A stop for a step is in the range of the mode the run resumed with, which *)
(* is the last one the client asked for unless that is still on its way.     *)
InRange(i, m) ==
  i.reason = "step" =>
    CASE m.kind = "over" -> i.depth <= m.from
      [] m.kind = "out"  -> i.depth < m.from
      [] OTHER           -> m.kind = "into"

ModesFollow ==
  ~terminate /\ rt # "ended" =>
    /\ pending_resume # NoMode => pending_resume = asked
    /\ control # <<>> /\ Head(control).type = "resume" => Head(control).mode = asked
    /\ pending_resume = NoMode /\ (control # <<>> => Head(control).type # "resume") => mode = asked

StepInv == (rt = "parked" => InRange(info, mode)) /\ InRange(stopped_at, asked) /\ ModesFollow

LEMMA StepInvKept ==
  ASSUME IInv, StepInv, [Next]_vars
  PROVE  StepInv'
<1>1. ASSUME UNCHANGED <<stopped_at, asked, terminate, pending_resume, control, mode, info>>,
             rt' = rt \/ (rt' # "parked" /\ (rt # "ended" \/ rt' = "ended"))
      PROVE  StepInv'
  BY <1>1 DEF StepInv, ModesFollow, InRange
<1>2. ASSUME UNCHANGED <<mode, info>>, rt' = rt, stopped_at' = NoStop, terminate' \/ rt' = "ended"
      PROVE  StepInv'
  BY <1>2 DEF StepInv, ModesFollow, InRange, NoStop
<1>3. pc = "teardown" => terminate
  BY RunningPhases DEF Winding
<1>4. ASSUME terminate_session, UNCHANGED runVars PROVE StepInv'
  BY <1>1, <1>2, <1>4 DEF terminate_session
<1>5. ASSUME finish_run \/ DropRunning, UNCHANGED runVars, terminate \/ rt = "ended" PROVE StepInv'
  BY <1>2, <1>5 DEF finish_run, DropRunning
<1>6. ASSUME NEW r, on_resume(r) \/ on_pause(r) PROVE StepInv'
  <2>1. ASSUME NEW m, m # NoMode, resume_run(m), IsStopped, UNCHANGED <<control, terminate, runVars>>,
               pc \in {"drain", "wait"}
        PROVE  StepInv'
    <3>1. Shown \/ Panicked
      BY <2>1 DEF IInv, IsStopped, Phases, Idle, Live, Executing, Announced, AtStop, Shown, Asking,
         Answered, Panicked, Staged, Waking, Winding, Over, NothingStopped
    <3>2. rt = "ended" \/ control = <<>>  BY <3>1 DEF Shown, Panicked
    <3>3. stopped_at' = NoStop /\ asked' = m /\ pending_resume' = m  BY <2>1 DEF resume_run
    <3>4. QED  BY <2>1, <3>2, <3>3 DEF StepInv, ModesFollow, InRange, NoStop
  <2>2. ResumeMode(r.command) # NoMode
    BY DEF ResumeMode, Continue, NoMode
  <2>3. pc \in {"drain", "wait"}
    BY <1>6 DEF on_resume, on_pause, Receive
  <2>4. \/ resume_run(ResumeMode(r.command)) /\ IsStopped /\ UNCHANGED <<control, terminate, runVars>>
        \/ UNCHANGED <<stopped_at, asked, terminate, pending_resume, control, runVars>>
    BY <1>6 DEF on_resume, on_pause
  <2>5. QED  BY <1>1, <2>1, <2>2, <2>3, <2>4
<1>7. ASSUME NEW r, on_variables(r) \/ on_evaluate(r) PROVE StepInv'
  <2>1. \/ UNCHANGED <<stopVars, sharedVars, runVars, asked>>
        \/ query /\ IsStopped /\ UNCHANGED <<stopVars, runVars, asked>>
    BY <1>7 DEF on_variables, on_evaluate
  <2>2. CASE query /\ IsStopped /\ UNCHANGED <<stopVars, runVars, asked>>
    <3>1. pc \in {"drain", "wait"}  BY <1>7 DEF on_variables, on_evaluate, Receive
    <3>2. Shown \/ Panicked
      BY <2>2, <3>1 DEF IInv, IsStopped, Phases, Idle, Live, Executing, Announced, AtStop, Shown,
         Asking, Answered, Panicked, Staged, Waking, Winding, Over, NothingStopped
    <3>3. rt # "ended" => control = <<>> /\ control' = <<Query>>
      BY <2>2, <3>2, OneMessage DEF Shown, Panicked, query, SendControl
    <3>4. control' # <<>> /\ rt # "ended" => Head(control').type = "query"
      BY <3>3, OneMessage, MessageFacts
    <3>5. UNCHANGED terminate  BY <2>2 DEF query
    <3>6. QED  BY <2>2, <3>3, <3>4, <3>5 DEF StepInv, ModesFollow, InRange
  <2>3. QED  BY <1>1, <2>1, <2>2
<1>8. CASE HandleRequest
  <2>1. PICK r : Handle(r)  BY <1>8 DEF HandleRequest
  <2>2. CASE on_configuration_done(r)
    <3>1. UNCHANGED <<stopped_at, asked, terminate, pending_resume, control, mode, info>>
      BY <2>2 DEF on_configuration_done, StartRun, LaunchRefused, ThreadFailed
    <3>2. rt' = rt \/ (rt = "none" /\ rt' = "statement")
      BY <2>1, <1>8, ProtocolLeavesRun DEF Protocol
    <3>3. QED  BY <1>1, <3>1, <3>2
  <2>3. CASE on_launch(r) \/ on_set_breakpoints(r)
    BY <1>1, <2>3 DEF on_launch, on_set_breakpoints
  <2>4. CASE on_terminate(r) \/ on_disconnect(r)
    BY <1>1, <1>4, <2>4 DEF on_terminate, on_disconnect
  <2>5. QED  BY <1>6, <1>7, <2>1, <2>2, <2>3, <2>4 DEF Handle
<1>9. CASE Client \/ DrainDone \/ WaitTimeout \/ Exit \/ QueryReturns \/ UNCHANGED vars
  BY <1>1, <1>9 DEF Client, Send, CloseInput, DrainDone, WaitTimeout, Exit, QueryReturns
<1>10. CASE flush_resume
  <2>1. CASE ~ResumeStaged  BY <1>1, <1>10, <2>1 DEF flush_resume
  <2>2. CASE ResumeStaged /\ rt = "ended"  BY <1>5, <1>10, <2>2 DEF flush_resume
  <2>3. CASE ResumeStaged /\ rt # "ended"
    <3>1. Staged
      BY <2>3 DEF IInv, Phases, Idle, Live, Executing, Announced, AtStop, Shown, Asking, Answered,
         Panicked, Staged, Waking, Winding, Over, NothingStopped, ResumeStaged
    <3>2. control = <<>> /\ ~terminate  BY <2>3, <3>1 DEF Staged, Live
    <3>3. control' = <<ResumeMsg(pending_resume)>> /\ pending_resume = asked
      BY <1>10, <2>3, <3>2, OneMessage DEF flush_resume, StepInv, ModesFollow, ResumeStaged
    <3>4. control' # <<>> /\ Head(control').type = "resume" /\ Head(control').mode = asked
      BY <3>3, OneMessage, MessageFacts
    <3>5. UNCHANGED <<stopped_at, asked, terminate, runVars>> /\ pending_resume' = NoMode
      BY <1>10, <2>3 DEF flush_resume
    <3>6. QED  BY <3>4, <3>5 DEF StepInv, ModesFollow, InRange
  <2>4. QED  BY <2>1, <2>2, <2>3
<1>11. CASE pump_run_event
  <2>1. CASE running /\ events # <<>>
    <3>1. /\ handle_run_event(Head(events)) /\ pc = "pump"
          /\ UNCHANGED <<asked, terminate, pending_resume, control, runVars>>
      BY <1>11, <2>1 DEF pump_run_event, handle_run_event
    <3>2. Executing \/ Announced  BY <2>1, <3>1, RunningPhases
    <3>3. events \in Seq(EventMsg)  BY DEF IInv, TypeOK, QueuesTypeOK
    <3>4. CASE Head(events) = Output
      <4>1. UNCHANGED stopped_at  BY <3>1, <3>4, MessageFacts DEF handle_run_event
      <4>2. QED  BY <1>1, <3>1, <4>1
    <3>5. CASE Announced /\ Head(events) = Stopped(info)
      <4>1. stopped_at' = info
        BY <3>1, <3>5, MessageFacts DEF handle_run_event, Announced, Live
      <4>2. InRange(info, mode) /\ mode = asked
        BY <3>5 DEF StepInv, ModesFollow, Announced, Live, NothingStopped
      <4>3. InRange(stopped_at', asked')  BY <3>1, <4>1, <4>2
      <4>4. QED  BY <3>1, <4>3 DEF StepInv, ModesFollow, InRange
    <3>6. QED
      BY <2>1, <3>2, <3>3, <3>4, <3>5, OutputQueues, AnnouncingQueues DEF Executing, Announced
  <2>2. CASE ~(running /\ events # <<>>)
    BY <1>1, <1>5, <1>11, <2>2 DEF pump_run_event
  <2>3. QED  BY <2>1, <2>2
<1>12. CASE InputEnded
  BY <1>4, <1>12 DEF InputEnded
<1>13. CASE finish_run_within
  <2>1. CASE events # <<>>
    <3>1. /\ handle_run_event(Head(events)) /\ pc = "teardown"
          /\ UNCHANGED <<asked, terminate, pending_resume, control, runVars>>
      BY <1>13, <2>1 DEF finish_run_within, handle_run_event
    <3>2. UNCHANGED stopped_at  BY <3>1, RunningPhases DEF handle_run_event
    <3>3. QED  BY <1>1, <3>1, <3>2
  <2>2. CASE events = <<>>
    BY <1>5, <1>13, <2>2 DEF finish_run_within
  <2>3. QED  BY <2>1, <2>2
<1>14. CASE detach_run
  BY <1>3, <1>5, <1>14 DEF detach_run
<1>15. CASE ReachStatement \/ FinishProgram \/ EvaluateBreakpoints
  <2>1. UNCHANGED <<stopped_at, asked, terminate, pending_resume, control, mode, info>>
    BY <1>15 DEF ReachStatement, FinishProgram, EvaluateBreakpoints
  <2>2. rt # "ended" /\ rt' # "parked"
    BY <1>15 DEF ReachStatement, FinishProgram, EvaluateBreakpoints, RunThread, Unwind
  <2>3. QED  BY <1>1, <2>1, <2>2
<1>16. CASE StopOrGo
  <2>1. UNCHANGED <<stopped_at, asked, terminate, pending_resume, control, mode>> /\ rt = "decide"
    BY <1>16 DEF StopOrGo, RunThread
  <2>2. rt' = "parked" => info' = [id |-> stops + 1, reason |-> StopReason, depth |-> depth]
    BY <1>16 DEF StopOrGo, BeginStatement, Unwind
  <2>3. StopReason = "step" => decide(mode, depth) = "step"
    BY DEF StopReason, decide
  <2>4. rt' = "parked" => InRange(info', mode)
    <3>1. rt' = "parked" => info'.reason = StopReason /\ info'.depth = depth  BY <2>2
    <3>2. QED  BY <2>3, <3>1 DEF InRange, decide
  <2>5. QED  BY <2>1, <2>4 DEF StepInv, ModesFollow, InRange
<1>17. CASE ServeQuery
  <2>1. /\ UNCHANGED <<stopped_at, asked, terminate, pending_resume, mode, info>>
        /\ rt' = rt \/ rt' = "ended"
        /\ rt = "parked" /\ control # <<>> /\ Head(control).type = "query" /\ control' = Tail(control)
    BY <1>17 DEF ServeQuery, RunThread, Unwind
  <2>2. control = <<Query>>
    BY <2>1, PendingControl, OneMessage, MessageFacts
  <2>3. control' = <<>>  BY <2>1, <2>2, OneMessage
  <2>4. Head(control).type # "resume"  BY <2>1
  <2>5. QED  BY <2>1, <2>3, <2>4 DEF StepInv, ModesFollow, InRange
<1>18. CASE ServeResume
  <2>1. /\ UNCHANGED <<stopped_at, asked, terminate, pending_resume, info>>
        /\ rt = "parked" /\ rt' = "statement" /\ mode' = Head(control).mode
        /\ control # <<>> /\ Head(control).type = "resume" /\ control' = Tail(control)
    BY <1>18 DEF ServeResume, RunThread, BeginStatement
  <2>2. terminate \/ Waking  BY <2>1, ParkedPhases DEF Winding
  <2>3. ~terminate => control' = <<>> /\ mode' = asked
    <3>1. Waking => control' = <<>>  BY <2>1, OneMessage DEF Waking
    <3>2. QED  BY <2>1, <2>2, <3>1 DEF StepInv, ModesFollow
  <2>4. ~terminate => pending_resume = NoMode  BY <2>2 DEF Waking, NothingStopped
  <2>5. QED  BY <2>1, <2>3, <2>4 DEF StepInv, ModesFollow, InRange
<1>19. CASE ServeTerminate
  <2>1. UNCHANGED <<stopped_at, asked, terminate, pending_resume, mode, info>> /\ rt' = "ended"
    BY <1>19 DEF ServeTerminate, Unwind
  <2>2. QED  BY <2>1 DEF StepInv, ModesFollow, InRange
<1>20. QED
  BY <1>8, <1>9, <1>10, <1>11, <1>12, <1>13, <1>14, <1>15, <1>16, <1>17, <1>18, <1>19
     DEF Next, Protocol, Hook, Park, Program, Exited

(* stopOnEntry stops before the first statement, once, whatever breakpoints *)
(* and pauses arrive during startup (is_entry_stop).                        *)
THEOREM EntryStopIsFirstCorrect == Spec => []EntryStopIsFirst
<1>1. Init => EntryInv
  BY DEF Init, EntryInv, NoStop
<1>2. EntryInv => EntryStopIsFirst  BY DEF EntryInv, EntryStopIsFirst
<1>3. QED  BY <1>1, <1>2, EntryInvKept, PhasesCorrect, PTL DEF Spec

(* A variables reference is usable only at the stop it was handed out at.   *)
THEOREM ReferencesBelongToTheStopCorrect == Spec => []ReferencesBelongToTheStop
<1>1. Init => RefsInv
  BY DEF Init, RefsInv, ReferencesBelongToTheStop
<1>2. RefsInv => ReferencesBelongToTheStop  BY DEF RefsInv
<1>3. QED  BY <1>1, <1>2, RefsInvKept, PhasesCorrect, PTL DEF Spec

(* A step stop is at a depth the last step asked for allows (step.rs), with *)
(* the request, the wake and the stop in different threads.                 *)
THEOREM StepStopsInRangeCorrect == Spec => []StepStopsInRange
<1>1. Init => StepInv
  BY DEF Init, StepInv, ModesFollow, InRange, NoStop
<1>2. StepInv => StepStopsInRange  BY DEF StepInv, InRange, StepStopsInRange
<1>3. QED  BY <1>1, <1>2, StepInvKept, PhasesCorrect, PTL DEF Spec
=============================================================================
