----------------------------- MODULE McpServer -----------------------------
(***************************************************************************)
(* marrow-mcp: the server loop (crates/marrow-mcp/src/main.rs), its        *)
(* dispatcher (server.rs) and the tools (marrow-lsp-core/src/mcp.rs).      *)
(*                                                                         *)
(* One thread reads a request, handles it to the end and writes its reply  *)
(* before it reads the next.  A mw_run is evaluated by a thread of its own *)
(* that the server waits for within a budget and then leaves behind.  A    *)
(* granted write commits to the project's store, then appends to the audit *)
(* file.  The client or the machine may end the process at any point, and  *)
(* start it again with another policy.                                     *)
(*                                                                         *)
(* Abstractions.  Loading a project is one step with the outcomes module   *)
(* ProjectCache has: it fails, or gives a project above the file, or ends  *)
(* the process.  Of the store there is how often it was committed to, of   *)
(* an evaluation whether it ends and what it printed.                      *)
(***************************************************************************)
EXTENDS CappedOutput, FiniteSets

CONSTANTS
  Calls,      \* the calls the client may make
  Projects,   \* project roots
  Files,      \* paths a tool may be given
  Home,       \* the nearest root above a file, None outside any project
  Under,      \* every project root above a file
  Allowed,    \* the files and roots inside the allowed root
  Runs,       \* bound: the threads of mw_run at one time
  MaxWrites,  \* bound: commits, and records, of one project
  Printed,    \* the sequences of texts a run may print
  None

AnalysisTools == {"check", "type_at_position", "complete", "namespace_complete",
                  "resource_schema", "surface_routes"}
ReadTools == {"surface_read", "saved_roots", "data_children", "data_read"}
Tools == AnalysisTools \cup ReadTools \cup {"surface_write", "run"}

(* A tools/call.  Only check goes without a file; an operation is the       *)
(* argument of a surface tool.                                              *)
Call == [tool : Tools, file : Files \cup {None}, arguments : {"good", "bad", "bad_operation"}]
NoCall == [tool |-> "check", file |-> None, arguments |-> "good"]

ASSUME ServerAssumption ==
  /\ Calls \subseteq Call
  /\ \A c \in Calls : /\ c.file = None => c.tool = "check"
                      /\ c.arguments = "bad_operation" => c.tool \in {"surface_read", "surface_write"}
  /\ Home \in [Files -> Projects \cup {None}] /\ Under \in [Files -> SUBSET Projects]
  /\ \A f \in Files : Home[f] # None => Home[f] \in Under[f]
  /\ Allowed \subseteq Files \cup Projects
  /\ MaxWrites \in Nat /\ Printed \subseteq Seq(Text)
  /\ None \notin Projects \cup Files \cup Runs

Stamp == 0..MaxWrites
WriteAuditRecord ==
  [before : Stamp \cup {None}, after : Stamp \cup {None}, outcome : {"ok", "error"},
   moved : BOOLEAN]  \* `moved` is history: whether the write committed
NoWrite == [before |-> None, after |-> None, outcome |-> "ok", moved |-> FALSE]

(* The thread of a mw_run.  `root` is its ALLOWED_ROOT: a thread starts with none. *)
Thread == [phase : {"free", "spawned", "ready", "running", "sent", "panicked"},
           file : Files \cup {None}, root : {"none", "set"}]
Free == [phase |-> "free", file |-> None, root |-> "none"]

(* Of a reply, its kind; for a run, the file the run was of. *)
Reply == [kind : {"none", "result", "disabled", "out_of_root", "unavailable", "fault", "invalid",
                  "unknown_method", "budget_exceeded", "run", "audit_error"},
          file : Files \cup {None}]
Plain(kind) == [kind |-> kind, file |-> None]

VARIABLES
  policy,  \* Policy: the grants, fixed at launch
  phase,   \* what the server thread is doing
  call,    \* the call being handled, or the last one
  project, \* the project it was found in
  reply,   \* what was replied to it
  store,   \* commits to each project's native store
  entry,   \* the write between its commit and its record
  audit,   \* the audit file of each project
  thread,  \* the threads of mw_run
  waiting, \* the thread the server waits for
  \* History.
  touched, \* the last thing opened, for which file and under which root
  noted,   \* commits whose record could not be appended, as the reply said
  lost,    \* commits a killed process had no time to record
  printed  \* what the run that was answered had printed

request == <<call, project, reply, printed>>
data == <<store, entry, audit, noted, lost>>
vars == <<policy, phase, request, data, thread, waiting, touched>>

Untouched == [what |-> "nothing", file |-> None, project |-> None]
Touch(what, file, root) == [what |-> what, file |-> file, project |-> root]

-----------------------------------------------------------------------------
(* Launching and serving *)

(* main: writes imply reads; the root is set before the first request. *)
launch(allow_data, allow_write) ==
  [read |-> allow_data \/ allow_write, write |-> allow_write]

(* A file or root outside the allowed tree is refused before it is read. *)
confinement_check(file, allowed) ==
  /\ file \in allowed
  /\ Home[file] # None => Home[file] \in allowed

(* The reply ends the call: the loop reads the next line. *)
Answer(r) ==
  /\ phase' = "idle" /\ reply' = r
  /\ UNCHANGED <<policy, call, project, printed>>

(* The result of a thread; what its run printed is cut to CappedOutput. *)
AnswerRun(r) ==
  /\ phase' = "idle" /\ reply' = [kind |-> "run", file |-> thread[r].file]
  /\ printed' \in Printed
  /\ UNCHANGED <<policy, call, project>>

serve(c) ==
  /\ phase = "idle"
  /\ c.tool = "run" => \E r \in Runs : thread[r].phase = "free"
  /\ c.tool = "surface_write" =>
       \A p \in Projects : store[p] < MaxWrites /\ Len(audit[p]) < MaxWrites
  /\ phase' = "call" /\ call' = c /\ project' = None /\ reply' = Plain("none")
  /\ touched' = Untouched /\ printed' = <<>>
  /\ UNCHANGED <<policy, waiting, data, thread>>

(* handle, with_params and the part of handle_tools_call that calls no tool: *)
(* initialize, ping, tools/list and shutdown answer, params that do not fit  *)
(* are invalid, other methods unknown.                                       *)
handle(kind) ==
  /\ phase = "idle"
  /\ reply' = Plain(kind) /\ call' = NoCall /\ project' = None /\ touched' = Untouched
  /\ printed' = <<>>
  /\ UNCHANGED <<policy, phase, waiting, data, thread>>

(* A plausible bug: a read grant opens the writable executor too. *)
Mut_Granted(c) == c.tool \in ReadTools \cup {"surface_write"} => policy.read

Granted(c) ==
  /\ c.tool \in ReadTools => policy.read
  /\ c.tool = "surface_write" => policy.write

(* What a call meets first: its arguments, the grant, the operation, then    *)
(* the allowed root, each before the next is looked at.                      *)
Admit(c) ==
  CASE c.arguments = "bad" -> "invalid"
    [] c.file = None -> "snippet"
    [] ~Granted(c) -> "disabled"
    [] c.arguments = "bad_operation" -> "invalid"
    [] c.tool = "run" -> "spawn"
    [] ~confinement_check(c.file, Allowed) -> "out_of_root"
    [] OTHER -> "load"

Refused ==
  /\ phase = "call"
  /\ Admit(call) \in {"invalid", "disabled", "out_of_root"}
  /\ Answer(Plain(Admit(call)))
  /\ UNCHANGED <<data, thread, waiting, touched>>

(* A source without a file is parsed by itself. *)
check_snippet ==
  /\ phase = "call" /\ Admit(call) = "snippet"
  /\ Answer(Plain("result"))
  /\ UNCHANGED <<data, thread, waiting, touched>>

with_loaded_project ==
  /\ phase = "call" /\ Admit(call) = "load"
  /\ \/ \E root \in Under[call.file] :
          /\ phase' = "tool" /\ project' = root
          /\ touched' = Touch("sources", call.file, root)
          /\ UNCHANGED <<policy, call, reply, printed>>
     \/ /\ Answer(Plain("fault"))
        /\ touched' = Touch("sources", call.file, Home[call.file])
  /\ UNCHANGED <<data, thread, waiting>>

-----------------------------------------------------------------------------
(* The tools that read *)

Facts ==
  /\ phase = "tool" /\ call.tool \in AnalysisTools
  /\ Answer(Plain("result"))
  /\ UNCHANGED <<data, thread, waiting, touched>>

(* The store may be absent, or not open to a reader right now. *)
Reads(tool) ==
  /\ phase = "tool" /\ call.tool = tool
  /\ touched' = Touch("read", call.file, project)
  /\ \E kind \in {"result", "unavailable"} : Answer(Plain(kind))
  /\ UNCHANGED <<data, thread, waiting>>
surface_read == Reads("surface_read")
saved_roots == Reads("saved_roots")
data_children == Reads("data_children")
data_read == Reads("data_read")

-----------------------------------------------------------------------------
(* surface_write: the store is opened, the operation executed, its record    *)
(* appended.  A stamp that cannot be read is None.                           *)

open_session ==
  /\ phase = "tool" /\ call.tool = "surface_write"
  /\ touched' = Touch("write", call.file, project)
  /\ \/ /\ Answer(Plain("unavailable"))
        /\ UNCHANGED entry
     \/ /\ phase' = "execute"
        /\ \E before \in {store[project], None} : entry' = [NoWrite EXCEPT !.before = before]
        /\ UNCHANGED <<policy, request>>
  /\ UNCHANGED <<store, audit, noted, lost, thread, waiting>>

(* A plausible bug: an operation that reported an error is tried again. *)
Mut_execute ==
  /\ phase = "execute"
  /\ \E moved \in BOOLEAN, outcome \in {"ok", "error"} :
       /\ outcome = "ok" => moved
       /\ store' = [store EXCEPT ![project] = IF ~moved THEN @ ELSE IF outcome = "ok" THEN @ + 1 ELSE @ + 2]
       /\ \E after \in {store'[project], None} :
            entry' = [entry EXCEPT !.after = after, !.outcome = outcome, !.moved = moved]
  /\ phase' = "record"
  /\ UNCHANGED <<policy, request, audit, noted, lost, thread, waiting, touched>>

(* The store may have moved even if the operation reports an error. *)
execute ==
  /\ phase = "execute"
  /\ \E moved \in BOOLEAN, outcome \in {"ok", "error"} :
       /\ outcome = "ok" => moved
       /\ store' = [store EXCEPT ![project] = IF moved THEN @ + 1 ELSE @]
       /\ \E after \in {store'[project], None} :
            entry' = [entry EXCEPT !.after = after, !.outcome = outcome, !.moved = moved]
  /\ phase' = "record"
  /\ UNCHANGED <<policy, request, audit, noted, lost, thread, waiting, touched>>

(* One more for the project when the write at hand moved its store. *)
Counted(count) ==
  [p \in Projects |-> IF entry.moved /\ p = project THEN count[p] + 1 ELSE count[p]]

(* A plausible bug: no record when the store could not be read again. *)
Mut_append_write_audit ==
  /\ phase = "record"
  /\ audit' = IF entry.after = None THEN audit ELSE [audit EXCEPT ![project] = Append(@, entry)]
  /\ Answer(Plain("result"))
  /\ entry' = NoWrite
  /\ UNCHANGED <<store, noted, lost, thread, waiting, touched>>

append_write_audit ==
  /\ phase = "record"
  /\ \/ /\ audit' = [audit EXCEPT ![project] = Append(@, entry)]
        /\ Answer(Plain("result"))
        /\ UNCHANGED noted
     \/ /\ Answer(Plain("audit_error"))
        /\ noted' = Counted(noted)
        /\ UNCHANGED audit
  /\ entry' = NoWrite
  /\ UNCHANGED <<store, lost, thread, waiting, touched>>

surface_write == open_session \/ execute \/ append_write_audit

-----------------------------------------------------------------------------
(* mw_run: the server's wait, and the threads *)

spawn ==
  /\ phase = "call" /\ Admit(call) = "spawn"
  /\ \E r \in Runs :
       /\ thread[r].phase = "free"
       /\ thread' = [thread EXCEPT ![r] = [Free EXCEPT !.phase = "spawned", !.file = call.file]]
       /\ waiting' = r
  /\ phase' = "wait"
  /\ UNCHANGED <<policy, request, data, touched>>

(* A plausible bug. *)
Mut_Received(r) == TRUE

(* The server takes the result of the thread it spawned for this call. *)
Received(r) == r = waiting

(* A plausible bug: the wait has no limit. *)
Mut_run_within_budget ==
  /\ phase = "wait" /\ waiting' = None
  /\ \/ \E r \in Runs : /\ Received(r) /\ thread[r].phase = "sent"
                        /\ AnswerRun(r)
     \/ thread[waiting].phase = "panicked" /\ Answer(Plain("fault"))
  /\ UNCHANGED <<data, thread, touched>>

(* run_within_budget: the result, a thread that ended without one, the time. *)
run_within_budget ==
  /\ phase = "wait" /\ waiting' = None
  /\ \/ \E r \in Runs : /\ Received(r) /\ thread[r].phase = "sent"
                        /\ AnswerRun(r)
     \/ thread[waiting].phase = "panicked" /\ Answer(Plain("fault"))
     \/ Answer(Plain("budget_exceeded"))
  /\ UNCHANGED <<data, thread, touched>>

Step(r, next) ==
  /\ thread' = [thread EXCEPT ![r] = next]
  /\ UNCHANGED <<policy, phase, request, data, waiting>>

(* A plausible bug: the thread forgets to. *)
Mut_set_allowed_root(r) ==
  /\ thread[r].phase = "spawned"
  /\ Step(r, [thread[r] EXCEPT !.phase = "ready"])
  /\ UNCHANGED touched

(* A thread starts unconfined; it takes on the root before anything else. *)
set_allowed_root(r) ==
  /\ thread[r].phase = "spawned"
  /\ Step(r, [thread[r] EXCEPT !.phase = "ready", !.root = "set"])
  /\ UNCHANGED touched

ThreadRoot(r) == IF thread[r].root = "set" THEN Allowed ELSE Files \cup Projects

(* run_result up to the evaluation.  What ends it there is its result: bad   *)
(* arguments, the allowed root, a project that does not load or open.        *)
load_project_for_run(r) ==
  LET file == thread[r].file
  IN /\ thread[r].phase = "ready"
     /\ \/ /\ confinement_check(file, ThreadRoot(r)) /\ Home[file] # None
           /\ touched' = Touch("sources", file, Home[file])
           /\ Step(r, [thread[r] EXCEPT !.phase = "running"])
        \/ /\ Step(r, [thread[r] EXCEPT !.phase = "sent"])
           /\ UNCHANGED touched

(* An evaluation, of an entry or of tests, ends, panics, or never ends.  Its *)
(* store is in memory and fresh.                                             *)
run_ends(r) ==
  /\ thread[r].phase = "running"
  /\ \E end \in {"sent", "panicked"} : Step(r, [thread[r] EXCEPT !.phase = end])
  /\ UNCHANGED touched

(* A thread no one waits for any more ends with its channel. *)
run_is_gone(r) ==
  /\ thread[r].phase \in {"sent", "panicked"} /\ waiting # r
  /\ Step(r, Free)
  /\ UNCHANGED touched

-----------------------------------------------------------------------------
(* The end of the process, and the next one.  A panic of the server thread,  *)
(* see ProjectCache, ends the process like a kill.                           *)

Killed ==
  /\ phase # "off"
  /\ phase' = "off" /\ waiting' = None
  /\ call' = NoCall /\ project' = None /\ reply' = Plain("none") /\ printed' = <<>>
  /\ thread' = [r \in Runs |-> Free]
  /\ lost' = Counted(lost)
  /\ entry' = NoWrite /\ touched' = Untouched
  /\ UNCHANGED <<policy, store, audit, noted>>

main(allow_data, allow_write) ==
  /\ phase = "off"
  /\ policy' = launch(allow_data, allow_write)
  /\ phase' = "idle"
  /\ UNCHANGED <<request, waiting, data, thread, touched>>

Init ==
  /\ policy = launch(FALSE, FALSE) /\ phase = "off"
  /\ call = NoCall /\ project = None /\ reply = Plain("none") /\ waiting = None
  /\ printed = <<>>
  /\ store = [p \in Projects |-> 0] /\ entry = NoWrite /\ audit = [p \in Projects |-> <<>>]
  /\ noted = [p \in Projects |-> 0] /\ lost = [p \in Projects |-> 0]
  /\ thread = [r \in Runs |-> Free]
  /\ touched = Untouched

(* What the server does by itself once it has read a request. *)
Serving ==
  \/ Refused \/ check_snippet \/ with_loaded_project \/ Facts
  \/ surface_read \/ saved_roots \/ data_children \/ data_read
  \/ surface_write \/ spawn \/ run_within_budget

Next ==
  \/ \E c \in Calls : serve(c)
  \/ \E kind \in {"result", "invalid", "unknown_method"} : handle(kind)
  \/ Serving
  \/ \E r \in Runs : set_allowed_root(r) \/ load_project_for_run(r) \/ run_ends(r) \/ run_is_gone(r)
  \/ Killed
  \/ \E allow_data, allow_write \in BOOLEAN : main(allow_data, allow_write)

Spec == Init /\ [][Next]_vars

(* The server thread is not starved and the time of a budget passes.  Of     *)
(* the threads nothing is assumed: an evaluation may never end.              *)
FairSpec == Spec /\ WF_vars(Serving)

-----------------------------------------------------------------------------
(* Properties *)

TypeOK ==
  /\ policy \in [read : BOOLEAN, write : BOOLEAN]
  /\ phase \in {"off", "idle", "call", "tool", "execute", "record", "wait"}
  /\ call \in Calls \cup {NoCall} /\ reply \in Reply
  /\ project \in Projects \cup {None}
  /\ store \in [Projects -> 0..MaxWrites] /\ entry \in WriteAuditRecord
  /\ audit \in [Projects -> Seq(WriteAuditRecord)]
  /\ thread \in [Runs -> Thread]
  /\ waiting \in Runs \cup {None}
  /\ touched \in [what : {"nothing", "sources", "read", "write"},
                  file : Files \cup {None}, project : Projects \cup {None}]
  /\ noted \in [Projects -> 0..MaxWrites] /\ lost \in [Projects -> 0..MaxWrites]
  /\ printed \in Printed \cup {<<>>}

(* Whoever opens sources or a store, the server or a thread it left behind,  *)
(* opens them for a file inside the allowed root whose project is inside it  *)
(* too; and stored data only under the grant for it, which the policy of     *)
(* this process gave (ReadAccess, WriteAccess, ALLOWED_ROOT).                *)
ReachIsBounded ==
  /\ touched.what # "nothing" => confinement_check(touched.file, Allowed)
  /\ touched.what = "read" => policy.read
  /\ touched.what = "write" => policy.write /\ policy.read

Recorded(p) == Cardinality({i \in DOMAIN audit[p] : audit[p][i].moved})
Pending(p) == IF entry.moved /\ p = project THEN 1 ELSE 0
Faithful(r) == r.before # None /\ r.after # None => (r.after # r.before <=> r.moved)

(* Every commit to a store has its record, or its reply said there is none,  *)
(* or the process was killed between the two; at most the write at hand is   *)
(* still to come.  A record with both stamps tells whether the store moved.  *)
WritesAreAccountedFor ==
  \A p \in Projects :
    /\ store[p] = Recorded(p) + noted[p] + lost[p] + Pending(p)
    /\ \A i \in DOMAIN audit[p] : Faithful(audit[p][i])

(* A run's reply is its own: never the late result of a run left behind.     *)
RunRepliesToItsCall == reply.kind = "run" => call.tool = "run" /\ reply.file = call.file

(* However a run cuts its output into prints, what is kept of it is its      *)
(* longest prefix of whole characters within the cap, and it is marked as    *)
(* truncated when, and only when, there was more (CappedOutput).             *)
CapturedIsAPrefix ==
  LET output == Captured(printed)
      all == Everything(printed)
  IN /\ output.text = Fitting(all, Cap)
     /\ output.truncated = (Bytes(all) > Cap)

(* A call that is let in is one of ToolCall, whose load is a step: its tool   *)
(* has a project above its file, and the same one to the end of a write.      *)
Loading == phase = "call" /\ Admit(call) = "load"
Using == phase \in {"tool", "execute", "record"}
Tool == INSTANCE ToolCall WITH
  stage <- IF Loading THEN "loading" ELSE IF Using THEN "tool" ELSE "none",
  file <- IF Loading \/ Using THEN call.file ELSE None,
  root <- IF Using THEN project ELSE None
ServesAsToolCall == Tool!Spec

(* Every request is answered, whatever its evaluation does.                  *)
RequestsAreAnswered == phase = "call" ~> phase \in {"idle", "off"}

(* What the server thread needs for a step: a thread to spawn, a tool to run. *)
CanServe ==
  \/ phase = "call" /\ (Admit(call) = "spawn" => \E r \in Runs : thread[r].phase = "free")
  \/ phase = "tool" /\ call.tool \in Tools \ {"run"}
  \/ phase \in {"execute", "record", "wait"}
CanServeIsEnabled == CanServe => ENABLED <<Serving>>_vars
=============================================================================
