---------------------------- MODULE DebugSession ----------------------------
(***************************************************************************)
(* One debug session of marrow-dap (crates/marrow-dap/src).                *)
(*                                                                         *)
(* Two threads share a session.  The PROTOCOL THREAD (main.rs `serve`,     *)
(* session.rs) drains the client's requests, wakes the run, and forwards   *)
(* the run's events.  The RUN THREAD (run.rs, debugger.rs) executes the    *)
(* program and calls the hook `before_statement` at every statement        *)
(* boundary, where it may park.  They share two flags (`terminate`,        *)
(* `pause`) and three channels: `control` and `swaps` towards the run      *)
(* thread, `events` back from it.                                          *)
(*                                                                         *)
(* Abstractions.  A source file stands for its one breakpoint line.  The   *)
(* logpoint texts of one statement travel as one Output message.  A        *)
(* variables reference is identified with the stop it was handed out at.   *)
(* Requests that change no state (initialize, threads, source, stackTrace, *)
(* scopes, unknown or malformed ones) are left out.  The thread's end and  *)
(* the closing of its channels are one step.                               *)
(***************************************************************************)
EXTENDS Integers, Sequences, FiniteSets

CONSTANTS
  Sources,        \* source files that can hold a breakpoint
  Requests,       \* requests the client may send
  MaxRequests,    \* bound: requests a client sends in all
  MaxQueue,       \* bound: requests waiting in the internal queue
  MaxEvents,      \* bound: the program goes on while fewer events wait
  MaxDepth        \* bound: activation depth of the program

(* A breakpoint as the client asks for it: `cond` when it has a condition, *)
(* `target` its hit count (0: none), `log` when it is a logpoint,          *)
(* `resolves` when its line has a stop point and its expressions check.    *)
BreakpointSpec ==
  [cond : BOOLEAN, target : Nat, log : BOOLEAN, resolves : BOOLEAN]

Request ==
  [command : {"configurationDone", "continue", "next", "stepIn", "stepOut",
              "pause", "evaluate", "terminate", "disconnect"}]
    \cup [command : {"launch"}, stop_on_entry : BOOLEAN]
    \cup [command : {"setBreakpoints"}, source : Sources, specs : SUBSET BreakpointSpec]
    \cup [command : {"variables"}, reference : Nat]

ASSUME RequestsAssumption == Requests \subseteq Request

ASSUME BoundsAssumption ==
  /\ MaxRequests \in Nat
  /\ MaxQueue \in Nat
  /\ MaxEvents \in Nat
  /\ MaxDepth \in Nat \ {0}

-----------------------------------------------------------------------------
(* Data *)

NoMode == [kind |-> "none", from |-> 0]

(* `from` is the activation depth a depth-relative step was issued at. *)
Resume == [kind : {"continue", "over", "into", "out", "pause"}, from : Nat]

Continue == [kind |-> "continue", from |-> 0]

NoStop == [id |-> 0, reason |-> "none", depth |-> 0]

(* `id` numbers the stops of a run; the code has no such number, it is how *)
(* the properties tell one stop from another.                              *)
StopInfo ==
  [id : Nat, reason : {"none", "entry", "pause", "step", "breakpoint"}, depth : Nat]

ControlMsg ==
  [type : {"query", "terminate"}, mode : {NoMode}] \cup [type : {"resume"}, mode : Resume]

EventMsg == [type : {"stopped", "output", "answer"}, stop : StopInfo]

Query == [type |-> "query", mode |-> NoMode]
Terminate == [type |-> "terminate", mode |-> NoMode]
ResumeMsg(m) == [type |-> "resume", mode |-> m]
Output == [type |-> "output", stop |-> NoStop]
Stopped(info) == [type |-> "stopped", stop |-> info]
Answer(info) == [type |-> "answer", stop |-> info]

-----------------------------------------------------------------------------
VARIABLES
  (* the client and the reader thread *)
  requests,        \* accepted requests, not yet handled
  sent,            \* how many the client has sent
  eof,             \* the input is closed or unreadable
  (* the protocol thread *)
  pc,              \* where `serve` is
  pending,         \* a launch waits for configurationDone
  running,         \* `self.running` is Some
  stop_on_entry,
  stop_points,     \* launch facts are available
  breakpoints,     \* requested breakpoints of each source
  stopped_at,
  pending_resume,
  terminating,
  expandables,     \* stops whose variable references still resolve
  (* shared by both threads *)
  terminate,
  pause,
  control,
  events,
  swaps,
  (* the run thread *)
  rt,              \* where the run thread is
  mode,
  entered,
  armed,           \* hits of each armed breakpoint
  depth,           \* activation depth of the current frame
  matched,         \* a breakpoint of this statement asks to stop
  info,            \* the stop the run is parked at
  outcome,
  (* what the client has been told, and history the properties refer to *)
  view,            \* the phase the events sent so far leave the client in
  asked,           \* the last resume the client asked for
  stops,           \* stops the run thread has announced
  begun,           \* a statement has begun
  late,            \* statements begun after the terminate flag was raised
  halted,          \* the terminate was handled while the run was not awake
  owed,            \* logpoint outputs sent and not yet forwarded
  pause_asked      \* the stop the client last saw when it last raised `pause`

clientVars == <<requests, sent, eof>>
launchVars == <<pending, stop_on_entry, stop_points, breakpoints>>
stopVars == <<stopped_at, pending_resume, terminating, expandables>>
protocolVars == <<pc, running, launchVars, stopVars>>
sharedVars == <<terminate, pause, control, events, swaps>>
runVars == <<rt, mode, entered, armed, depth, matched, info, outcome>>
historyVars == <<view, asked, stops, begun, late, halted, owed, pause_asked>>
vars == <<clientVars, protocolVars, sharedVars, runVars, historyVars>>

(* The breakpoints a set of requests arms: those that resolve. *)
armed_breakpoints(requested) ==
  {k \in Sources \X UNION {requested[s] : s \in Sources} :
     k[2] \in requested[k[1]] /\ k[2].resolves}

(* Every arming starts its hit counts at zero. *)
Fresh(keys) == [k \in keys |-> 0]

Init ==
  /\ requests = <<>> /\ sent = 0 /\ eof = FALSE
  /\ pc = "drain" /\ pending = FALSE /\ running = FALSE
  /\ stop_on_entry = FALSE /\ stop_points = FALSE
  /\ breakpoints = [s \in Sources |-> {}]
  /\ stopped_at = NoStop /\ pending_resume = NoMode
  /\ terminating = FALSE /\ expandables = {}
  /\ terminate = FALSE /\ pause = FALSE
  /\ control = <<>> /\ events = <<>> /\ swaps = <<>>
  /\ rt = "none" /\ mode = Continue /\ entered = FALSE /\ armed = Fresh({})
  /\ depth = 0 /\ matched = FALSE /\ info = NoStop /\ outcome = "none"
  /\ view = "unlaunched" /\ asked = Continue
  /\ stops = 0 /\ begun = FALSE /\ late = 0 /\ halted = FALSE /\ owed = 0 /\ pause_asked = 0

-----------------------------------------------------------------------------
(* The client and the reader thread *)

(* The client sends a request; the reader thread queues it. *)
Send(r) ==
  /\ ~eof /\ sent < MaxRequests /\ Len(requests) < MaxQueue
  /\ sent' = sent + 1
  /\ requests' = Append(requests, r)
  /\ UNCHANGED <<eof, protocolVars, sharedVars, runVars, historyVars>>

(* The input ends: the reader thread stops and drops its sender. *)
CloseInput ==
  /\ ~eof
  /\ eof' = TRUE
  /\ UNCHANGED <<requests, sent, protocolVars, sharedVars, runVars, historyVars>>

-----------------------------------------------------------------------------
(* The protocol thread: helpers of the request handlers *)

(* A request is taken by the drain at the loop's top or by the timed wait at *)
(* its bottom; either way the loop starts over after it.                     *)
Receive(r) ==
  /\ pc \in {"drain", "wait"}
  /\ requests # <<>> /\ r = Head(requests)
  /\ requests' = Tail(requests)
  /\ UNCHANGED <<sent, eof>>

(* Sending to a run thread that has ended fails, and the failure is dropped. *)
SendControl(m) == control' = IF rt = "ended" THEN control ELSE Append(control, m)

clear_launch_configuration ==
  /\ pending' = FALSE /\ stop_points' = FALSE
  /\ breakpoints' = [s \in Sources |-> {}]
  /\ UNCHANGED stop_on_entry

(* Send a query to the parked run; the caller has checked `stopped_at`. *)
query ==
  /\ IF rt = "ended" THEN pc' = "drain" ELSE pc' = "query"
  /\ SendControl(Query)
  /\ UNCHANGED <<terminate, pause, events, swaps>>

Mut_resume_run_keeps_stop(m) ==
  /\ expandables' = {} /\ pending_resume' = m /\ UNCHANGED <<stopped_at, terminating>>
  /\ asked' = m /\ view' = "running"
  /\ UNCHANGED <<stops, begun, late, halted, owed, pause_asked>>

Mut_resume_run_keeps_references(m) ==
  /\ stopped_at' = NoStop /\ pending_resume' = m /\ UNCHANGED <<expandables, terminating>>
  /\ asked' = m /\ view' = "running"
  /\ UNCHANGED <<stops, begun, late, halted, owed, pause_asked>>

(* Stage a resume: the run is woken only by the next flush. *)
resume_run(m) ==
  /\ expandables' = {} /\ stopped_at' = NoStop /\ pending_resume' = m
  /\ UNCHANGED terminating
  /\ asked' = m /\ view' = "running"
  /\ UNCHANGED <<stops, begun, late, halted, owed, pause_asked>>

(* Ask the run thread to unwind; the teardown loop then collects it. *)
terminate_session ==
  IF running
  THEN /\ pc' = "teardown"
       /\ terminate' = TRUE
       /\ SendControl(Terminate)
       /\ stopped_at' = NoStop /\ pending_resume' = NoMode /\ terminating' = TRUE
       /\ halted' = (stopped_at # NoStop \/ pending_resume # NoMode)
       /\ UNCHANGED <<running, launchVars, expandables, pause, events, swaps, view, asked,
                      stops, begun, late, owed, pause_asked>>
  ELSE /\ pc' = "done"
       /\ UNCHANGED <<running, launchVars, stopVars, sharedVars, historyVars>>

(* `self.running` becomes None: its fields and the ends of the channels go. *)
DropRunning ==
  /\ running' = FALSE /\ pc' = "done"
  /\ stopped_at' = NoStop /\ pending_resume' = NoMode /\ terminating' = FALSE
  /\ events' = <<>>
  /\ UNCHANGED <<launchVars, expandables, terminate, pause, control, swaps>>

(* Join the ended run thread; `exited` and `terminated` are sent. *)
finish_run ==
  /\ DropRunning
  /\ view' = "ended"
  /\ UNCHANGED <<asked, stops, begun, late, halted, owed, pause_asked>>

Mut_handle_run_event_returns_early(e) ==
  /\ IF e.type = "stopped" /\ ~terminating
     THEN stopped_at' = e.stop /\ view' = "stopped"
     ELSE UNCHANGED <<stopped_at, view>>
  /\ owed' = IF e.type = "output" /\ ~terminating THEN owed - 1 ELSE owed
  /\ UNCHANGED <<pending_resume, terminating, expandables>>
  /\ UNCHANGED <<asked, stops, begun, late, halted, pause_asked>>

(* A stop is announced to the client, unless the run is being terminated. *)
handle_run_event(e) ==
  /\ IF e.type = "stopped" /\ ~terminating
     THEN stopped_at' = e.stop /\ view' = "stopped"
     ELSE UNCHANGED <<stopped_at, view>>
  /\ owed' = IF e.type = "output" THEN owed - 1 ELSE owed
  /\ UNCHANGED <<pending_resume, terminating, expandables>>
  /\ UNCHANGED <<asked, stops, begun, late, halted, pause_asked>>

-----------------------------------------------------------------------------
(* The protocol thread: request handlers *)

Mut_AlreadyConfigured == pending

AlreadyConfigured == pending \/ running

(* A launch is refused while one is pending or running; otherwise earlier   *)
(* configuration is cleared first and the project may fail to prepare.      *)
on_launch(r) ==
  /\ r.command = "launch" /\ Receive(r) /\ pc' = "drain"
  /\ IF AlreadyConfigured
     THEN UNCHANGED <<launchVars, view>>
     ELSE \/ clear_launch_configuration /\ UNCHANGED view
          \/ /\ pending' = TRUE /\ stop_points' = TRUE
             /\ stop_on_entry' = r.stop_on_entry
             /\ breakpoints' = [s \in Sources |-> {}]
             /\ view' = "configured"
  /\ UNCHANGED <<running, stopVars, sharedVars, runVars>>
  /\ UNCHANGED <<asked, stops, begun, late, halted, owed, pause_asked>>

(* The requests of one source are replaced; a live run is sent the whole    *)
(* newly armed set.  Without launch facts nothing is stored.                *)
on_set_breakpoints(r) ==
  /\ r.command = "setBreakpoints" /\ Receive(r) /\ pc' = "drain"
  /\ IF stop_points
     THEN /\ breakpoints' = [breakpoints EXCEPT ![r.source] = r.specs]
          /\ swaps' = IF running /\ rt # "ended"
                      THEN Append(swaps, armed_breakpoints(breakpoints'))
                      ELSE swaps
     ELSE UNCHANGED <<breakpoints, swaps>>
  /\ UNCHANGED <<running, pending, stop_on_entry, stop_points, stopVars,
                 terminate, pause, control, events, runVars, historyVars>>

(* The run thread starts with the captured launch, or fails to be admitted. *)
StartRun ==
  /\ pending' = FALSE /\ running' = TRUE /\ pc' = "drain"
  /\ UNCHANGED <<stop_on_entry, stop_points, breakpoints>>
  /\ rt' = "statement"
  /\ armed' = Fresh(armed_breakpoints(breakpoints))
  /\ view' = "running"
  /\ UNCHANGED <<stopVars, sharedVars, mode, entered, depth, matched, info, outcome>>
  /\ UNCHANGED <<asked, stops, begun, late, halted, owed, pause_asked>>

LaunchRefused ==
  /\ clear_launch_configuration /\ view' = "unlaunched" /\ pc' = "drain"
  /\ UNCHANGED <<running, stopVars, sharedVars, runVars>>
  /\ UNCHANGED <<asked, stops, begun, late, halted, owed, pause_asked>>

ThreadFailed ==
  /\ pending' = FALSE /\ pc' = "done"
  /\ UNCHANGED <<running, stop_on_entry, stop_points, breakpoints, stopVars>>
  /\ UNCHANGED <<sharedVars, runVars, historyVars>>

on_configuration_done(r) ==
  /\ r.command = "configurationDone" /\ Receive(r)
  /\ IF pending
     THEN StartRun \/ LaunchRefused \/ ThreadFailed
     ELSE pc' = "drain" /\ UNCHANGED <<running, launchVars, stopVars, sharedVars, runVars, historyVars>>

(* The last stop announced to the client: one still in `events` is not yet. *)
shown == IF events # <<>> /\ events[Len(events)].type = "stopped" THEN stops - 1 ELSE stops

Mut_IsStopped == running

IsStopped == running /\ stopped_at # NoStop

(* The scopes (reference 0) and a durable path are asked of the parked run; *)
(* a compound value held by the adapter is expanded without it; a reference *)
(* that is not registered has no children.                                  *)
on_variables(r) ==
  /\ r.command = "variables" /\ Receive(r)
  /\ \/ IsStopped /\ r.reference \in {0} \cup expandables /\ query
     \/ /\ ~ (IsStopped /\ r.reference = 0)
        /\ pc' = "drain" /\ UNCHANGED sharedVars
  /\ UNCHANGED <<running, launchVars, stopVars, runVars, historyVars>>

(* An expression that does not check is answered without the run.           *)
on_evaluate(r) ==
  /\ r.command = "evaluate" /\ Receive(r)
  /\ \/ IsStopped /\ query
     \/ pc' = "drain" /\ UNCHANGED sharedVars
  /\ UNCHANGED <<running, launchVars, stopVars, runVars, historyVars>>

Mut_ResumeMode(command) ==
  CASE command = "continue" -> Continue
    [] command = "stepIn"   -> [kind |-> "into", from |-> 0]
    [] command = "pause"    -> [kind |-> "pause", from |-> 0]
    [] OTHER                -> NoMode

(* The resume mode of each request, depth-relative to the current stop.     *)
ResumeMode(command) ==
  CASE command = "continue" -> Continue
    [] command = "next"     -> [kind |-> "over", from |-> stopped_at.depth]
    [] command = "stepIn"   -> [kind |-> "into", from |-> 0]
    [] command = "stepOut"  -> [kind |-> "out", from |-> stopped_at.depth]
    [] OTHER                -> [kind |-> "pause", from |-> 0]

(* continue, next, stepIn and stepOut need a stopped run.                   *)
on_resume(r) ==
  /\ r.command \in {"continue", "next", "stepIn", "stepOut"} /\ Receive(r) /\ pc' = "drain"
  /\ IF IsStopped THEN resume_run(ResumeMode(r.command))
                  ELSE UNCHANGED <<stopVars, historyVars>>
  /\ UNCHANGED <<running, launchVars, sharedVars, runVars>>

(* A stopped run resumes with the pause mode; an executing one gets the flag. *)
on_pause(r) ==
  /\ r.command = "pause" /\ Receive(r) /\ pc' = "drain"
  /\ CASE ~running  -> UNCHANGED <<stopVars, pause, historyVars>>
       [] IsStopped -> resume_run(ResumeMode(r.command)) /\ UNCHANGED pause
       [] OTHER     -> /\ pause' = TRUE
                       /\ pause_asked' = shown
                       /\ UNCHANGED <<stopVars, view, asked, stops, begun, late, halted, owed>>
  /\ UNCHANGED <<running, launchVars, terminate, control, events, swaps, runVars>>

(* terminate is refused without a run; disconnect always ends the session.  *)
on_terminate(r) ==
  /\ r.command = "terminate" /\ Receive(r)
  /\ IF running THEN terminate_session
                ELSE pc' = "drain" /\ UNCHANGED <<running, launchVars, stopVars, sharedVars, historyVars>>
  /\ UNCHANGED runVars

on_disconnect(r) ==
  /\ r.command = "disconnect" /\ Receive(r) /\ terminate_session /\ UNCHANGED runVars

-----------------------------------------------------------------------------
(* The protocol thread: the serve loop *)

(* No request is queued: the drain is over. *)
DrainDone ==
  /\ pc = "drain" /\ requests = <<>> /\ pc' = "flush"
  /\ UNCHANGED <<clientVars, running, launchVars, stopVars, sharedVars, runVars, historyVars>>

Mut_ResumeStaged == pending_resume # NoMode /\ terminating

ResumeStaged == pending_resume # NoMode /\ ~terminating

(* Wake the run with the staged resume; a run that is gone is collected.    *)
flush_resume ==
  /\ pc = "flush"
  /\ IF ~ResumeStaged
     THEN /\ pc' = "pump"
          /\ UNCHANGED <<running, launchVars, stopVars, sharedVars, historyVars>>
     ELSE IF rt = "ended"
     THEN finish_run
     ELSE /\ control' = Append(control, ResumeMsg(pending_resume))
          /\ pending_resume' = NoMode /\ pc' = "drain"
          /\ UNCHANGED <<running, launchVars, stopped_at, terminating, expandables>>
          /\ UNCHANGED <<terminate, pause, events, swaps, historyVars>>
  /\ UNCHANGED <<clientVars, runVars>>

(* Forward one run event; the closed channel of an ended run collects it.   *)
pump_run_event ==
  /\ pc = "pump"
  /\ IF running /\ events # <<>>
     THEN /\ handle_run_event(Head(events)) /\ events' = Tail(events) /\ pc' = "drain"
          /\ UNCHANGED <<running, launchVars, terminate, pause, control, swaps>>
     ELSE IF running /\ rt = "ended"
     THEN finish_run
     ELSE /\ pc' = "wait"
          /\ UNCHANGED <<running, launchVars, stopVars, sharedVars, historyVars>>
  /\ UNCHANGED <<clientVars, runVars>>

(* The timed wait ends without a request. *)
WaitTimeout ==
  /\ pc = "wait" /\ requests = <<>> /\ ~eof /\ pc' = "drain"
  /\ UNCHANGED <<clientVars, running, launchVars, stopVars, sharedVars, runVars, historyVars>>

(* The request channel is closed: `serve` returns and the session's Drop    *)
(* ends the run.                                                            *)
InputEnded ==
  /\ pc = "wait" /\ requests = <<>> /\ eof
  /\ terminate_session
  /\ UNCHANGED <<clientVars, runVars>>

(* The blocking half of `query`: anything but an answer yields nothing; an  *)
(* answer may register references for the compound values it lists.         *)
QueryReturns ==
  /\ pc = "query"
  /\ IF events # <<>>
     THEN /\ events' = Tail(events)
          /\ expandables' \in IF Head(events).type = "answer"
                              THEN {expandables, expandables \cup {stopped_at.id}}
                              ELSE {expandables}
     ELSE rt = "ended" /\ UNCHANGED <<events, expandables>>
  /\ pc' = "drain"
  /\ UNCHANGED <<clientVars, running, launchVars, stopped_at, pending_resume, terminating,
                 terminate, pause, control, swaps, runVars, historyVars>>

(* `finish_run_within`: drain and join until the budget elapses.            *)
finish_run_within ==
  /\ pc = "teardown"
  /\ IF events # <<>>
     THEN /\ handle_run_event(Head(events)) /\ events' = Tail(events)
          /\ UNCHANGED <<pc, running, launchVars, terminate, pause, control, swaps>>
     ELSE rt = "ended" /\ finish_run
  /\ UNCHANGED <<clientVars, runVars>>

Mut_detach_run == FALSE

(* The budget elapsed with nothing to read: the run thread is abandoned.    *)
detach_run ==
  /\ pc = "teardown" /\ events = <<>> /\ rt # "ended"
  /\ DropRunning
  /\ view' = "abandoned"
  /\ UNCHANGED <<asked, stops, begun, late, halted, owed, pause_asked>>
  /\ UNCHANGED <<clientVars, runVars>>

(* `serve` returns and the process exits, with any detached thread.         *)
Exit ==
  /\ pc = "done" /\ pc' = "exit"
  /\ UNCHANGED <<clientVars, running, launchVars, stopVars, sharedVars, runVars, historyVars>>

Handle(r) ==
  \/ on_launch(r) \/ on_set_breakpoints(r) \/ on_configuration_done(r)
  \/ on_variables(r) \/ on_evaluate(r) \/ on_resume(r) \/ on_pause(r)
  \/ on_terminate(r) \/ on_disconnect(r)

HandleRequest == requests # <<>> /\ Handle(Head(requests))

-----------------------------------------------------------------------------
(* The run thread.  It steps until the process exits, detached or not.      *)

RunThread(at) == pc # "exit" /\ rt = at

(* The hook returns Err: the run unwinds and its ends of the channels close. *)
Unwind(why) == rt' = "ended" /\ outcome' = why

Mut_TerminateObserved == FALSE

TerminateObserved == terminate

(* Statement boundary: the terminate flag is read before anything else.     *)
(* A call deepens the activation by one; returns may unwind several.        *)
ReachStatement ==
  /\ RunThread("statement") /\ Len(events) < MaxEvents
  /\ depth' \in {d \in 1..MaxDepth : d <= depth + 1}
  /\ IF TerminateObserved THEN Unwind("terminated")
                          ELSE rt' = "hook" /\ UNCHANGED outcome
  /\ UNCHANGED <<clientVars, protocolVars, sharedVars, mode, entered, armed, matched, info,
                 historyVars>>

(* The program returns, faults, or panics.                                  *)
FinishProgram ==
  /\ RunThread("statement")
  /\ \E why \in {"ok", "fault", "panic"} : Unwind(why)
  /\ UNCHANGED <<clientVars, protocolVars, sharedVars, mode, entered, armed, depth, matched,
                 info, historyVars>>

Mut_drain_breakpoint_swaps ==
  IF swaps = <<>> THEN armed ELSE Fresh(Head(swaps))

(* The newest pushed breakpoint set replaces the armed one.                 *)
drain_breakpoint_swaps ==
  IF swaps = <<>> THEN armed ELSE Fresh(swaps[Len(swaps)])

(* `holds` are the breakpoints of this line whose condition is true: each   *)
(* counts a hit and acts when it has no target or has just reached it.      *)
(* Counts past the target are all alike, so the count stays there.         *)
Hit(hits, holds) ==
  [k \in DOMAIN hits |-> IF k \in holds /\ hits[k] <= k[2].target THEN hits[k] + 1 ELSE hits[k]]

Acting(hits, holds) == {k \in holds : k[2].target \in {0, hits[k]}}

(* Apply pushed breakpoints, then evaluate those of the current line; the   *)
(* logpoints' output is sent at once, a requested stop is remembered.       *)
EvaluateBreakpoints ==
  /\ RunThread("hook")
  /\ swaps' = <<>>
  /\ \E line \in Sources :
     LET before == drain_breakpoint_swaps
         here == {k \in DOMAIN before : k[1] = line}
     IN \E holds \in {h \in SUBSET here : \A k \in here : k[2].cond \/ k \in h} :
          LET after == Hit(before, holds)
              acts == Acting(after, holds)
              logs == \E k \in acts : k[2].log
          IN /\ armed' = after
             /\ IF logs /\ ~running
                THEN Unwind("terminated") /\ UNCHANGED <<events, matched, owed>>
                ELSE /\ rt' = "decide" /\ UNCHANGED outcome
                     /\ matched' = (\E k \in acts : ~k[2].log)
                     /\ events' = IF logs THEN Append(events, Output) ELSE events
                     /\ owed' = IF logs THEN owed + 1 ELSE owed
  /\ UNCHANGED <<clientVars, protocolVars, terminate, pause, control, mode, entered, depth, info>>
  /\ UNCHANGED <<view, asked, stops, begun, late, halted, pause_asked>>

Mut_decide(m, d) ==
  CASE m.kind \in {"over", "out"} -> IF d <= m.from THEN "step" ELSE "none"
    [] m.kind = "into"            -> "step"
    [] m.kind = "pause"           -> "pause"
    [] OTHER                      -> "none"

(* step.rs: whether the resume mode stops before a statement at depth `d`.  *)
decide(m, d) ==
  CASE m.kind = "over"  -> IF d <= m.from THEN "step" ELSE "none"
    [] m.kind = "out"   -> IF d < m.from THEN "step" ELSE "none"
    [] m.kind = "into"  -> "step"
    [] m.kind = "pause" -> "pause"
    [] OTHER            -> "none"

Mut_is_entry_stop == stop_on_entry

is_entry_stop == stop_on_entry /\ ~entered

Mut_StopReason ==
  CASE is_entry_stop -> "entry"
    [] OTHER -> IF decide(mode, depth) # "none" THEN decide(mode, depth)
                ELSE IF matched THEN "breakpoint" ELSE "none"

StopReason ==
  CASE is_entry_stop           -> "entry"
    [] ~is_entry_stop /\ pause -> "pause"
    [] OTHER -> IF decide(mode, depth) # "none" THEN decide(mode, depth)
                ELSE IF matched THEN "breakpoint" ELSE "none"

(* A statement begins: the hook has returned Ok.                            *)
BeginStatement ==
  /\ rt' = "statement"
  /\ begun' = TRUE
  /\ late' = IF terminate THEN late + 1 ELSE late

(* Stop or go on.  Either way a pending pause flag is consumed.             *)
StopOrGo ==
  /\ RunThread("decide")
  /\ pause' = FALSE
  /\ entered' = (entered \/ is_entry_stop)
  /\ LET stop == [id |-> stops + 1, reason |-> StopReason, depth |-> depth]
     IN IF StopReason = "none"
        THEN BeginStatement /\ UNCHANGED <<events, info, outcome, stops>>
        ELSE IF running
        THEN /\ rt' = "parked" /\ info' = stop /\ stops' = stops + 1
             /\ events' = Append(events, Stopped(stop))
             /\ UNCHANGED <<outcome, begun, late>>
        ELSE Unwind("terminated") /\ UNCHANGED <<events, info, stops, begun, late>>
  /\ UNCHANGED <<clientVars, protocolVars, terminate, control, swaps, mode, armed, depth, matched>>
  /\ UNCHANGED <<view, asked, halted, owed, pause_asked>>

(* Parked: answer a query from the live frame, or panic evaluating it.      *)
ServeQuery ==
  /\ RunThread("parked") /\ control # <<>> /\ Head(control).type = "query"
  /\ control' = Tail(control)
  /\ \/ /\ events' = Append(events, Answer(info)) /\ UNCHANGED <<rt, outcome>>
     \/ Unwind("panic") /\ UNCHANGED events
  /\ UNCHANGED <<clientVars, protocolVars, terminate, pause, swaps, mode, entered, armed, depth,
                 matched, info, historyVars>>

(* Parked: adopt the client's resume mode and run on.                       *)
ServeResume ==
  /\ RunThread("parked") /\ control # <<>> /\ Head(control).type = "resume"
  /\ control' = Tail(control)
  /\ mode' = Head(control).mode
  /\ BeginStatement
  /\ UNCHANGED <<clientVars, protocolVars, terminate, pause, events, swaps, entered, armed, depth,
                 matched, info, outcome, view, asked, stops, halted, owed, pause_asked>>

(* Parked: unwind on a terminate.  The senders are dropped only after one.  *)
ServeTerminate ==
  /\ RunThread("parked") /\ control # <<>> /\ Head(control).type = "terminate"
  /\ control' = Tail(control)
  /\ Unwind("terminated")
  /\ UNCHANGED <<clientVars, protocolVars, terminate, pause, events, swaps, mode, entered, armed,
                 depth, matched, info, historyVars>>

-----------------------------------------------------------------------------
(* The process is gone. *)
Exited == pc = "exit" /\ UNCHANGED vars

Protocol ==
  \/ HandleRequest \/ DrainDone \/ flush_resume \/ pump_run_event \/ WaitTimeout \/ InputEnded
  \/ QueryReturns \/ finish_run_within \/ detach_run \/ Exit

Park == ServeQuery \/ ServeResume \/ ServeTerminate

Hook == EvaluateBreakpoints \/ StopOrGo \/ Park

Program == ReachStatement \/ FinishProgram

Client == (\E r \in Requests : Send(r)) \/ CloseInput

Next == Client \/ Protocol \/ Hook \/ Program \/ Exited

Spec == Init /\ [][Next]_vars

(* Both threads are scheduled; a statement of the program and an expression *)
(* the client has evaluated at a stop may take any time, but the latter     *)
(* returns: nothing in the adapter interrupts it.                           *)
Fairness == WF_vars(Protocol) /\ WF_vars(Hook)

FairSpec == Spec /\ Fairness

-----------------------------------------------------------------------------
(* Properties *)

FlagsTypeOK ==
  /\ eof \in BOOLEAN /\ pending \in BOOLEAN /\ running \in BOOLEAN
  /\ stop_on_entry \in BOOLEAN /\ stop_points \in BOOLEAN /\ terminating \in BOOLEAN
  /\ terminate \in BOOLEAN /\ pause \in BOOLEAN
  /\ entered \in BOOLEAN /\ matched \in BOOLEAN /\ halted \in BOOLEAN

PhasesTypeOK ==
  /\ pc \in {"drain", "flush", "pump", "wait", "query", "teardown", "done", "exit"}
  /\ rt \in {"none", "statement", "hook", "decide", "parked", "ended"}
  /\ outcome \in {"none", "ok", "fault", "panic", "terminated"}
  /\ view \in {"unlaunched", "configured", "running", "stopped", "ended", "abandoned"}
  /\ begun \in BOOLEAN

CountersTypeOK ==
  /\ sent \in 0..MaxRequests /\ depth \in 0..MaxDepth
  /\ stops \in Nat /\ late \in Nat
  /\ owed \in Int /\ pause_asked \in Int

QueuesTypeOK ==
  /\ requests \in Seq(Requests)
  /\ control \in Seq(ControlMsg) /\ events \in Seq(EventMsg)
  /\ swaps \in Seq(SUBSET (Sources \X BreakpointSpec))

StopsTypeOK ==
  /\ stopped_at \in StopInfo /\ info \in StopInfo
  /\ pending_resume \in Resume \cup {NoMode} /\ mode \in Resume /\ asked \in Resume
  /\ expandables \subseteq Nat

BreakpointsTypeOK ==
  /\ breakpoints \in [Sources -> SUBSET BreakpointSpec]
  /\ DOMAIN armed \subseteq Sources \X BreakpointSpec /\ armed \in [DOMAIN armed -> Nat]

(* Type invariant of the session's state: each field and each channel holds *)
(* what the code's types say.                                               *)
TypeOK ==
  /\ FlagsTypeOK /\ PhasesTypeOK /\ CountersTypeOK
  /\ QueuesTypeOK /\ StopsTypeOK /\ BreakpointsTypeOK

(* A stop the adapter believes in is one the run thread is parked at: while *)
(* `stopped_at` is set no event and no control message is in flight, except *)
(* a query's own, so stackTrace, variables and evaluate speak of that stop. *)
(* The run thread may only have left by a panic while it evaluated.         *)
StoppedMeansParked ==
  stopped_at # NoStop =>
    /\ running /\ ~terminating /\ pending_resume = NoMode
    /\ rt \in {"parked", "ended"} /\ info = stopped_at
    /\ rt = "ended" => outcome = "panic"
    /\ pc # "query" => events = <<>> /\ (rt = "parked" => control = <<>>)

(* "A stop event cannot arrive mid-query": what a waiting query receives is *)
(* the answer for the stop it asked about, and an answer never reaches the  *)
(* event pump.                                                              *)
QueriesGetTheirAnswer ==
  /\ pc = "query" => stopped_at # NoStop /\ \A i \in DOMAIN events : events[i] = Answer(stopped_at)
  /\ pc # "query" => \A i \in DOMAIN events : events[i].type # "answer"

(* A stop is answered by at most one resume: one that is staged or on its   *)
(* way finds the run parked (or dead), and never a second one behind it.    *)
WakesOnce ==
  LET resumes == {i \in DOMAIN control : control[i].type = "resume"}
  IN /\ pending_resume # NoMode => rt \in {"parked", "ended"} /\ (rt = "parked" => resumes = {})
     /\ rt # "ended" /\ resumes # {} => rt = "parked" /\ resumes = {1} /\ stopped_at = NoStop

(* Every logpoint output is forwarded: before the stop that follows it, and *)
(* before the session ends, unless the run had to be abandoned.             *)
NoLostOutput ==
  /\ \A i \in 1..Len(events) - 1 : events[i].type = "output"
  /\ view # "abandoned" => owed = Cardinality({i \in DOMAIN events : events[i].type = "output"})

(* A terminate handled while the run is stopped, or resumed but not yet     *)
(* woken, lets no further statement begin; handled while the program runs   *)
(* it lets at most one begin, the one past its flag check.                  *)
TerminateIsPrompt == late <= IF halted THEN 0 ELSE 1

(* A variables reference is usable only at the stop it was handed out at.   *)
ReferencesBelongToTheStop ==
  running /\ ~terminating /\ expandables # {} =>
    stopped_at # NoStop /\ expandables = {stopped_at.id}

(* An edit the adapter has acknowledged, made before the launch was started *)
(* or at any time since, governs the next statement the run reaches.        *)
EditsGovernNextStatement ==
  [][rt = "hook" /\ rt' = "decide" => DOMAIN armed' = armed_breakpoints(breakpoints)]_vars

(* stopOnEntry stops before the first statement, once, whatever breakpoints *)
(* and pauses arrive during startup.                                        *)
EntryStopIsFirst ==
  running => /\ stop_on_entry /\ begun => stops > 0
             /\ info.reason = "entry" <=> stop_on_entry /\ info.id = 1

(* A `step` stop answers the last step the client asked for, at a depth it  *)
(* allows: step-over never stops in a callee, step-out only in a caller.    *)
StepStopsInRange ==
  stopped_at.reason = "step" =>
    CASE asked.kind = "over" -> stopped_at.depth <= asked.from
      [] asked.kind = "out"  -> stopped_at.depth < asked.from
      [] OTHER               -> asked.kind = "into"

(* The events the client receives are those of a debugger: stops and        *)
(* resumes alternate, and the session ends once and for all.                *)
View == INSTANCE DebugView WITH view <- view
ClientView == View!Spec

(* A handled terminate, a disconnect still queued (behind a query, too) and *)
(* the end of input end the adapter, even when the program is wedged in one *)
(* statement.                                                               *)
SessionEnds ==
  (terminating \/ eof \/ \E i \in DOMAIN requests : requests[i].command = "disconnect")
    ~> pc = "exit"

(* A staged resume reaches the run: the program goes on, unless the session *)
(* ends first.                                                              *)
ResumeWakes == pending_resume # NoMode ~> (rt # "parked" \/ pc = "exit")

(* A query does not hold the protocol thread: the run is parked in          *)
(* before_statement or gone, "so the answer comes promptly".                *)
QueriesReturn == pc = "query" ~> pc = "drain"

(* Of the two threads, the one a query waits for can take a step.           *)
AnswerIsThere == events # <<>> \/ rt = "ended"
QueryIsServed ==
  pc = "query" => IF AnswerIsThere THEN ENABLED <<Protocol>>_vars ELSE ENABLED <<Hook>>_vars

(* A pause of a running program whose statements return stops it, or the    *)
(* session ends first.                                                      *)
PauseStops == WF_vars(Program) => pause ~> (stopped_at # NoStop \/ pc = "exit")

(* debugger.rs: "a pause that arrived during startup is satisfied here and  *)
(* must not leak into a later continue": a pause flag consumed after the    *)
(* entry stop was raised after the client was told of that stop.            *)
EntryStopSatisfiesPause ==
  [][pause /\ ~pause' /\ stop_on_entry /\ stops = 1 => pause_asked >= 1]_vars

=============================================================================
