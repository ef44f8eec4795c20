-------------------------- MODULE McpServer_proofs --------------------------
(***************************************************************************)
(* What is proved of McpServer, for every set of calls, files, projects    *)
(* and threads: no tool reaches past its grant or the allowed root, in the *)
(* server's thread or in one left behind; a run's reply is its own, and    *)
(* its captured output a prefix of what it printed; every commit is        *)
(* accounted for; every call is one of ToolCall; every request is answered *)
(* if its steps are enabled; and every state is well typed.                *)
(***************************************************************************)
EXTENDS McpServer, FiniteSetTheorems, SequenceTheorems, TLAPS

(* The inductive invariant.  Writes imply reads in every policy; an off      *)
(* process has no threads; a thread is confined before it reads; a tool runs *)
(* only for a call that was admitted; and the server waits for the thread it *)
(* spawned for the call at hand.                                             *)
Typed ==
  /\ policy \in [read : BOOLEAN, write : BOOLEAN]
  /\ call \in Call
  /\ thread \in [Runs -> Thread]

Threads ==
  /\ phase = "off" => touched.what = "nothing" /\ \A r \in Runs : thread[r] = Free
  /\ \A r \in Runs : thread[r].phase = "ready" => thread[r].root = "set"

Admitted ==
  /\ policy.write => policy.read
  /\ phase \in {"tool", "execute", "record"} => confinement_check(call.file, Allowed) /\ Granted(call)

Waits ==
  phase = "wait" =>
    /\ waiting \in Runs /\ thread[waiting].phase # "free"
    /\ call.tool = "run" /\ thread[waiting].file = call.file

ServerInv == Typed /\ Threads /\ Admitted /\ Waits /\ ReachIsBounded /\ RunRepliesToItsCall

RunStep(r) == set_allowed_root(r) \/ load_project_for_run(r) \/ run_ends(r) \/ run_is_gone(r)

-----------------------------------------------------------------------------
(* The answers of the server thread that are not a run's. *)
LEMMA PlainIsNoRun ==
  ASSUME NEW kind, kind # "run", reply' = Plain(kind)
  PROVE  RunRepliesToItsCall'
BY DEF RunRepliesToItsCall, Plain

(* What a call that is admitted is. *)
LEMMA AdmittedCalls ==
  /\ Admit(call) = "load" => confinement_check(call.file, Allowed) /\ Granted(call)
  /\ Admit(call) = "spawn" => call.tool = "run"
BY DEF Admit

LEMMA ServingKeeps ==
  ASSUME ServerInv, Serving
  PROVE  ServerInv'
<1> USE DEF ServerInv
<1>1. UNCHANGED <<policy, call>>
  BY DEF Serving, Refused, check_snippet, with_loaded_project, Facts, surface_read, saved_roots,
     data_children, data_read, Reads, surface_write, open_session, execute, append_write_audit,
     spawn, run_within_budget, Answer, AnswerRun, request
<1>2. phase # "off" /\ phase' # "off"
  BY DEF Serving, Refused, check_snippet, with_loaded_project, Facts, surface_read, saved_roots,
     data_children, data_read, Reads, surface_write, open_session, execute, append_write_audit,
     spawn, run_within_budget, Answer, AnswerRun
<1>3. ASSUME UNCHANGED <<thread, touched>>, phase' = "idle", RunRepliesToItsCall'
      PROVE  ServerInv'
  BY <1>1, <1>2, <1>3 DEF Typed, Threads, Admitted, Waits, ReachIsBounded
<1>4. ASSUME NEW kind, kind # "run", Answer(Plain(kind))
      PROVE  phase' = "idle" /\ RunRepliesToItsCall'
  BY <1>4, PlainIsNoRun DEF Answer
<1>5. CASE Refused
  BY <1>3, <1>4, <1>5 DEF Refused
<1>6. CASE check_snippet \/ Facts
  BY <1>3, <1>4, <1>6 DEF check_snippet, Facts
<1>7. CASE with_loaded_project
  <2>1. confinement_check(call.file, Allowed) /\ Granted(call) /\ UNCHANGED thread
    BY <1>7, AdmittedCalls DEF with_loaded_project
  <2>2. PICK root : touched' = Touch("sources", call.file, root)
    BY <1>7 DEF with_loaded_project
  <2>3. touched'.what = "sources" /\ touched'.file = call.file
    BY <2>2 DEF Touch
  <2>4. ReachIsBounded'
    BY <1>1, <2>1, <2>3 DEF ReachIsBounded, confinement_check
  <2>5. phase' \in {"tool", "idle"} /\ RunRepliesToItsCall'
    BY <1>4, <1>7 DEF with_loaded_project, RunRepliesToItsCall
  <2> QED  BY <1>1, <1>2, <2>1, <2>4, <2>5 DEF Typed, Threads, Admitted, Waits, Granted,
              confinement_check
<1>8. ASSUME NEW tool \in ReadTools, Reads(tool)
      PROVE  ServerInv'
  <2>1. confinement_check(call.file, Allowed) /\ policy.read /\ UNCHANGED thread
    BY <1>8 DEF Reads, Admitted, Granted
  <2>2. touched'.what = "read" /\ touched'.file = call.file
    BY <1>8 DEF Reads, Touch
  <2>3. ReachIsBounded'
    BY <1>1, <2>1, <2>2 DEF ReachIsBounded, confinement_check
  <2>4. phase' = "idle" /\ RunRepliesToItsCall'
    BY <1>4, <1>8 DEF Reads
  <2> QED  BY <1>1, <1>2, <2>1, <2>3, <2>4 DEF Typed, Threads, Admitted, Waits
<1>9. CASE open_session
  <2>1. confinement_check(call.file, Allowed) /\ Granted(call) /\ policy.write /\ policy.read
        /\ UNCHANGED thread
    BY <1>9 DEF open_session, Admitted, Granted
  <2>2. touched'.what = "write" /\ touched'.file = call.file
    BY <1>9 DEF open_session, Touch
  <2>3. ReachIsBounded'
    BY <1>1, <2>1, <2>2 DEF ReachIsBounded, confinement_check
  <2>4. phase' \in {"idle", "execute"} /\ RunRepliesToItsCall'
    BY <1>4, <1>9 DEF open_session, RunRepliesToItsCall, request
  <2> QED  BY <1>1, <1>2, <2>1, <2>3, <2>4 DEF Typed, Threads, Admitted, Waits, Granted,
              confinement_check
<1>10. CASE execute
  BY <1>1, <1>2, <1>10 DEF execute, request, Typed, Threads, Admitted, Waits, Granted,
     confinement_check, ReachIsBounded, RunRepliesToItsCall
<1>11. CASE append_write_audit
  BY <1>3, <1>4, <1>11 DEF append_write_audit
<1>12. CASE spawn
  <2>1. call.tool = "run"
    BY <1>12, AdmittedCalls DEF spawn
  <2>2. PICK r \in Runs : /\ thread' = [thread EXCEPT ![r] = [Free EXCEPT !.phase = "spawned", !.file = call.file]]
                          /\ waiting' = r
    BY <1>12 DEF spawn
  <2>3. [Free EXCEPT !.phase = "spawned", !.file = call.file]
          = [phase |-> "spawned", file |-> call.file, root |-> "none"]
    <3>1. [Free EXCEPT !.phase = "spawned"] = [phase |-> "spawned", file |-> None, root |-> "none"]
      BY DEF Free
    <3>2. [[phase |-> "spawned", file |-> None, root |-> "none"] EXCEPT !.file = call.file]
            = [phase |-> "spawned", file |-> call.file, root |-> "none"]
      OBVIOUS
    <3> QED  BY <3>1, <3>2, Zenon
  <2>4. Typed'
    BY <1>1, <2>2, <2>3 DEF Typed, Thread, Call
  <2>5. /\ thread'[r].phase = "spawned" /\ thread'[r].file = call.file
        /\ \A q \in Runs \ {r} : thread'[q] = thread[q]
    BY <2>2, <2>3 DEF Typed
  <2>6. phase' = "wait" /\ UNCHANGED <<reply, touched>>
    BY <1>12 DEF spawn, request
  <2> QED  BY <1>1, <1>2, <2>1, <2>2, <2>4, <2>5, <2>6 DEF Threads, Admitted, Waits, ReachIsBounded,
              confinement_check, RunRepliesToItsCall
<1>13. CASE run_within_budget
  <2>1. UNCHANGED <<thread, touched>>
    BY <1>13 DEF run_within_budget
  <2>2. ASSUME NEW r \in Runs, Received(r), AnswerRun(r)
        PROVE  phase' = "idle" /\ RunRepliesToItsCall'
    <3>1. phase' = "idle" /\ reply'.file = thread[r].file
      BY <2>2 DEF AnswerRun
    <3>2. call.tool = "run" /\ thread[r].file = call.file
      BY <1>13, <2>2 DEF run_within_budget, Received, Waits
    <3> QED  BY <1>1, <3>1, <3>2 DEF RunRepliesToItsCall
  <2> QED  BY <1>3, <1>4, <1>13, <2>1, <2>2 DEF run_within_budget
<1> QED  BY <1>5, <1>6, <1>7, <1>8, <1>9, <1>10, <1>11, <1>12, <1>13
            DEF Serving, surface_read, saved_roots, data_children, data_read, surface_write, ReadTools

LEMMA RunStepKeeps ==
  ASSUME ServerInv, NEW r \in Runs, RunStep(r)
  PROVE  ServerInv'
<1> USE DEF ServerInv
<1>1. UNCHANGED <<policy, phase, call, reply, waiting>>
  BY DEF RunStep, set_allowed_root, load_project_for_run, run_ends, run_is_gone, Step, request
<1>2. thread[r].phase # "free" /\ phase # "off"
  BY DEF RunStep, set_allowed_root, load_project_for_run, run_ends, run_is_gone, Threads, Free
<1>3. ASSUME NEW next \in Thread, Step(r, next),
             next.phase = "ready" => next.root = "set",
             waiting = r => next.phase # "free" /\ next.file = thread[r].file
      PROVE  Typed' /\ Threads' /\ Admitted' /\ Waits'
  <2>1. /\ thread' \in [Runs -> Thread] /\ thread'[r] = next
        /\ \A q \in Runs \ {r} : thread'[q] = thread[q]
    BY <1>3 DEF Step, Typed
  <2> QED  BY <1>1, <1>2, <1>3, <2>1 DEF Typed, Threads, Admitted, Waits, confinement_check, Granted
<1>4. RunRepliesToItsCall'
  BY <1>1 DEF RunRepliesToItsCall
<1>5. thread[r] \in Thread
  BY DEF Typed
<1>6. CASE set_allowed_root(r)
  <2>1. PICK next : next = [thread[r] EXCEPT !.phase = "ready", !.root = "set"] /\ Step(r, next)
    BY <1>6 DEF set_allowed_root
  <2>2. next \in Thread /\ next.phase = "ready" /\ next.root = "set" /\ next.file = thread[r].file
    BY <1>5, <2>1 DEF Thread
  <2>3. ReachIsBounded'
    BY <1>1, <1>6 DEF set_allowed_root, ReachIsBounded, confinement_check
  <2> QED  BY <1>3, <1>4, <2>1, <2>2, <2>3
<1>7. CASE load_project_for_run(r)
  <2>1. PICK to \in {"running", "sent"} : Step(r, [thread[r] EXCEPT !.phase = to])
    BY <1>7 DEF load_project_for_run
  <2>2. PICK next : next = [thread[r] EXCEPT !.phase = to] /\ Step(r, next)
    BY <2>1
  <2>3. next \in Thread /\ next.phase = to /\ next.file = thread[r].file
    BY <1>5, <2>1, <2>2 DEF Thread
  <2>4. thread[r].root = "set"
    BY <1>7 DEF load_project_for_run, Threads
  <2>5. ReachIsBounded'
    <3>1. CASE UNCHANGED touched
      BY <1>1, <3>1 DEF ReachIsBounded, confinement_check
    <3>2. CASE /\ confinement_check(thread[r].file, ThreadRoot(r))
               /\ touched' = Touch("sources", thread[r].file, Home[thread[r].file])
      <4>1. touched'.what = "sources" /\ touched'.file = thread[r].file
        BY <3>2 DEF Touch
      <4> QED  BY <2>4, <3>2, <4>1 DEF ThreadRoot, ReachIsBounded, confinement_check
    <3> QED  BY <1>7, <3>1, <3>2 DEF load_project_for_run
  <2> QED  BY <1>3, <1>4, <2>1, <2>2, <2>3, <2>5
<1>8. CASE run_ends(r)
  <2>1. PICK to \in {"sent", "panicked"} : Step(r, [thread[r] EXCEPT !.phase = to])
    BY <1>8 DEF run_ends
  <2>2. PICK next : next = [thread[r] EXCEPT !.phase = to] /\ Step(r, next)
    BY <2>1
  <2>3. next \in Thread /\ next.phase = to /\ next.file = thread[r].file
    BY <1>5, <2>1, <2>2 DEF Thread
  <2>4. ReachIsBounded'
    BY <1>1, <1>8 DEF run_ends, ReachIsBounded, confinement_check
  <2> QED  BY <1>3, <1>4, <2>1, <2>2, <2>3, <2>4
<1>9. CASE run_is_gone(r)
  <2>1. Free \in Thread /\ Free.phase = "free" /\ waiting # r /\ Step(r, Free)
    BY <1>9 DEF run_is_gone, Free, Thread
  <2>2. ReachIsBounded'
    BY <1>1, <1>9 DEF run_is_gone, ReachIsBounded, confinement_check
  <2> QED  BY <1>3, <1>4, <2>1, <2>2
<1> QED  BY <1>6, <1>7, <1>8, <1>9 DEF RunStep

-----------------------------------------------------------------------------
LEMMA ServerInvHolds == Spec => []ServerInv
<1>1. NoCall \in Call /\ Free \in Thread /\ Calls \subseteq Call
  BY ServerAssumption DEF NoCall, Call, Tools, AnalysisTools, Free, Thread
<1>2. \A a, b \in BOOLEAN : /\ launch(a, b) \in [read : BOOLEAN, write : BOOLEAN]
                            /\ launch(a, b).write => launch(a, b).read
  BY DEF launch
<1>3. Untouched.what = "nothing"
  BY DEF Untouched
<1>4. Init => ServerInv
  <2> SUFFICES ASSUME Init PROVE ServerInv
    OBVIOUS
  <2>1. Typed
    BY <1>1, <1>2 DEF Init, Typed
  <2>2. Threads /\ Admitted /\ Waits
    BY <1>2, <1>3 DEF Init, Threads, Admitted, Waits, Free
  <2>3. ReachIsBounded /\ RunRepliesToItsCall
    BY <1>3 DEF Init, ReachIsBounded, RunRepliesToItsCall, Plain
  <2> QED  BY <2>1, <2>2, <2>3 DEF ServerInv
<1>5. ServerInv /\ [Next]_vars => ServerInv'
  <2> SUFFICES ASSUME ServerInv, [Next]_vars PROVE ServerInv'
    OBVIOUS
  <2> USE DEF ServerInv
  <2>1. ASSUME NEW c \in Calls, serve(c)
        PROVE  ServerInv'
    <3>1. call' \in Call /\ phase' = "call" /\ touched'.what = "nothing" /\ UNCHANGED <<policy, thread>>
      BY <1>1, <1>3, <2>1 DEF serve
    <3>2. RunRepliesToItsCall'
      BY <2>1, PlainIsNoRun DEF serve
    <3> QED  BY <3>1, <3>2 DEF Typed, Threads, Admitted, Waits, ReachIsBounded
  <2>2. ASSUME NEW kind \in {"result", "invalid", "unknown_method"}, handle(kind)
        PROVE  ServerInv'
    <3>1. call' \in Call /\ phase' = "idle" /\ touched'.what = "nothing" /\ UNCHANGED <<policy, thread>>
      BY <1>1, <1>3, <2>2 DEF handle
    <3>2. RunRepliesToItsCall'
      BY <2>2, PlainIsNoRun DEF handle
    <3> QED  BY <3>1, <3>2 DEF Typed, Threads, Admitted, Waits, ReachIsBounded
  <2>3. CASE Killed
    <3>1. call' \in Call /\ phase' = "off" /\ touched'.what = "nothing" /\ UNCHANGED policy
          /\ thread' = [r \in Runs |-> Free]
      BY <1>1, <1>3, <2>3 DEF Killed
    <3>2. RunRepliesToItsCall'
      BY <2>3, PlainIsNoRun DEF Killed
    <3> QED  BY <1>1, <3>1, <3>2 DEF Typed, Threads, Admitted, Waits, ReachIsBounded, Free
  <2>4. ASSUME NEW allow_data \in BOOLEAN, NEW allow_write \in BOOLEAN, main(allow_data, allow_write)
        PROVE  ServerInv'
    <3>1. /\ policy' \in [read : BOOLEAN, write : BOOLEAN] /\ (policy'.write => policy'.read)
          /\ touched.what = "nothing" /\ phase' = "idle"
          /\ UNCHANGED <<call, reply, thread, touched>>
      BY <1>2, <2>4 DEF main, request, Threads
    <3> QED  BY <3>1 DEF Typed, Threads, Admitted, Waits, ReachIsBounded, RunRepliesToItsCall
  <2>5. CASE UNCHANGED vars
    BY <2>5 DEF vars, request, Typed, Threads, Admitted, Waits, ReachIsBounded,
       RunRepliesToItsCall, confinement_check, Granted
  <2> QED  BY <2>1, <2>2, <2>3, <2>4, <2>5, ServingKeeps, RunStepKeeps DEF Next, RunStep
<1> QED  BY <1>4, <1>5, PTL DEF Spec

-----------------------------------------------------------------------------
(* The writes *)

AuditRecord ==
  [before : Nat \cup {None}, after : Nat \cup {None}, outcome : {"ok", "error"}, moved : BOOLEAN]

(* The ledgers, and the write at hand: what it has read and whether it has   *)
(* moved the store.                                                          *)
Ledgers ==
  /\ store \in [Projects -> Nat] /\ noted \in [Projects -> Nat] /\ lost \in [Projects -> Nat]
  /\ audit \in [Projects -> Seq(AuditRecord)] /\ entry \in AuditRecord
  /\ call \in Call

WriteAtHand ==
  /\ phase \in {"tool", "execute", "record"} => project \in Projects
  /\ entry.moved => phase = "record"
  /\ phase \in {"execute", "record"} =>
       entry.before \in {None, IF entry.moved THEN store[project] - 1 ELSE store[project]}
  /\ phase = "record" => entry.after \in {None, store[project]}

LedgerInv == Ledgers /\ WriteAtHand /\ WritesAreAccountedFor

Moved(records) == {i \in DOMAIN records : records[i].moved}

(* A record appended counts if its write moved the store. *)
LEMMA AppendCounts ==
  ASSUME NEW records \in Seq(AuditRecord), NEW r \in AuditRecord
  PROVE  /\ Cardinality(Moved(records)) \in Nat
         /\ Cardinality(Moved(Append(records, r)))
              = Cardinality(Moved(records)) + (IF r.moved THEN 1 ELSE 0)
<1>1. Len(records) \in Nat /\ DOMAIN records = 1..Len(records)
  OBVIOUS
<1>2. IsFiniteSet(Moved(records))
  <2>1. IsFiniteSet(1..Len(records))
    BY <1>1, FS_Interval
  <2>2. Moved(records) \in SUBSET (1..Len(records))
    BY <1>1 DEF Moved
  <2> QED  BY <2>1, <2>2, FS_Subset
<1>3. /\ DOMAIN Append(records, r) = 1..(Len(records) + 1)
      /\ Append(records, r)[Len(records) + 1] = r
      /\ \A i \in 1..Len(records) : Append(records, r)[i] = records[i]
  BY <1>1
<1>4. Moved(Append(records, r))
        = IF r.moved THEN Moved(records) \cup {Len(records) + 1} ELSE Moved(records)
  BY <1>1, <1>3 DEF Moved
<1>5. Len(records) + 1 \notin Moved(records)
  BY <1>1 DEF Moved
<1>6. Cardinality(Moved(records)) \in Nat
  BY <1>2, FS_CardinalityType
<1>7. Cardinality(Moved(records) \cup {Len(records) + 1}) = Cardinality(Moved(records)) + 1
  BY <1>2, <1>5, FS_AddElement
<1>8. CASE r.moved
  BY <1>4, <1>6, <1>7, <1>8
<1>9. CASE ~r.moved
  BY <1>4, <1>6, <1>9
<1> QED  BY <1>8, <1>9

LEMMA CountsAreNumbers ==
  ASSUME Ledgers, NEW p \in Projects
  PROVE  /\ store[p] \in Nat /\ noted[p] \in Nat /\ lost[p] \in Nat
         /\ Recorded(p) \in Nat /\ audit[p] \in Seq(AuditRecord)
         /\ Recorded(p) = Cardinality(Moved(audit[p]))
<1>1. audit[p] \in Seq(AuditRecord)
  BY DEF Ledgers
<1>2. Recorded(p) = Cardinality(Moved(audit[p]))
  BY DEF Recorded, Moved
<1>3. NoWrite \in AuditRecord
  BY DEF NoWrite, AuditRecord
<1>4. Cardinality(Moved(audit[p])) \in Nat
  BY <1>1, <1>3, AppendCounts
<1> QED  BY <1>1, <1>2, <1>4 DEF Ledgers

(* A step that writes to no ledger: of the write at hand it may change what  *)
(* it read, not whether it moved the store.                                  *)
LEMMA LedgerStutters ==
  ASSUME LedgerInv, UNCHANGED <<store, noted, lost, audit>>, call' \in Call,
         entry' \in AuditRecord, ~entry.moved, ~entry'.moved, WriteAtHand'
  PROVE  LedgerInv'
<1>1. Ledgers'
  BY DEF LedgerInv, Ledgers
<1>2. \A p \in Projects : Recorded(p)' = Recorded(p) /\ Pending(p)' = Pending(p)
  BY DEF Recorded, Pending
<1>3. WritesAreAccountedFor'
  BY <1>2 DEF LedgerInv, WritesAreAccountedFor, Faithful
<1> QED  BY <1>1, <1>3 DEF LedgerInv

(* Nor does a step of a run left behind. *)
LEMMA LedgerFrame ==
  ASSUME LedgerInv, UNCHANGED <<phase, call, project, data>>
  PROVE  LedgerInv'
<1>1. Ledgers' /\ WriteAtHand'
  BY DEF LedgerInv, Ledgers, WriteAtHand, data
<1>2. \A p \in Projects : Recorded(p)' = Recorded(p) /\ Pending(p)' = Pending(p)
  BY DEF Recorded, Pending, data
<1>3. WritesAreAccountedFor'
  BY <1>2 DEF LedgerInv, WritesAreAccountedFor, Faithful, data
<1> QED  BY <1>1, <1>3 DEF LedgerInv

LEMMA ExecuteKeeps ==
  ASSUME LedgerInv, execute
  PROVE  LedgerInv'
<1> USE DEF LedgerInv
<1>1. /\ phase = "execute" /\ project \in Projects /\ ~entry.moved /\ phase' = "record"
      /\ UNCHANGED <<call, project, audit, noted, lost>>
  BY DEF execute, WriteAtHand, request
<1>2. PICK moved \in BOOLEAN, outcome \in {"ok", "error"} :
        /\ store' = [store EXCEPT ![project] = IF moved THEN @ + 1 ELSE @]
        /\ \E after \in {store'[project], None} :
             entry' = [entry EXCEPT !.after = after, !.outcome = outcome, !.moved = moved]
  BY DEF execute
<1>3. PICK after \in {store'[project], None} :
        entry' = [entry EXCEPT !.after = after, !.outcome = outcome, !.moved = moved]
  BY <1>2
<1>4. /\ store' \in [Projects -> Nat]
      /\ store'[project] = IF moved THEN store[project] + 1 ELSE store[project]
      /\ \A p \in Projects \ {project} : store'[p] = store[p]
  BY <1>1, <1>2 DEF Ledgers
<1>5. /\ entry' \in AuditRecord /\ entry'.before = entry.before
      /\ entry'.after = after /\ entry'.moved = moved
  <2>1. entry \in AuditRecord /\ after \in Nat \cup {None}
    BY <1>1, <1>4 DEF Ledgers
  <2>2. entry = [before |-> entry.before, after |-> entry.after, outcome |-> entry.outcome,
                 moved |-> entry.moved]
    BY <2>1 DEF AuditRecord
  <2>3. entry' = [before |-> entry.before, after |-> after, outcome |-> outcome, moved |-> moved]
    BY <1>3, <2>1 DEF AuditRecord
  <2> QED  BY <2>1, <2>3 DEF AuditRecord
<1>6. Ledgers'
  BY <1>1, <1>4, <1>5 DEF Ledgers
<1>7. WriteAtHand'
  <2>1. entry.before \in {None, store[project]}
    BY <1>1 DEF WriteAtHand
  <2>2. entry'.before \in {None, IF moved THEN store'[project] - 1 ELSE store'[project]}
    BY <1>1, <1>4, <1>5, <2>1 DEF Ledgers
  <2> QED  BY <1>1, <1>3, <1>5, <2>2 DEF WriteAtHand
<1>8. WritesAreAccountedFor'
  <2> SUFFICES ASSUME NEW p \in Projects
               PROVE  /\ store'[p] = Recorded(p)' + noted'[p] + lost'[p] + Pending(p)'
                      /\ \A i \in DOMAIN audit'[p] : Faithful(audit'[p][i])
    BY DEF WritesAreAccountedFor
  <2>1. /\ store[p] = Recorded(p) + noted[p] + lost[p] + 0
        /\ \A i \in DOMAIN audit[p] : Faithful(audit[p][i])
    BY <1>1 DEF WritesAreAccountedFor, Pending
  <2>2. Recorded(p)' = Recorded(p)
    BY <1>1 DEF Recorded
  <2>3. Pending(p)' = IF moved /\ p = project THEN 1 ELSE 0
    BY <1>1, <1>5 DEF Pending
  <2>4. store'[p] = store[p] + (IF moved /\ p = project THEN 1 ELSE 0)
    BY <1>4, CountsAreNumbers
  <2> QED  BY <1>1, <2>1, <2>2, <2>3, <2>4, CountsAreNumbers
<1> QED  BY <1>6, <1>7, <1>8

LEMMA AuditKeeps ==
  ASSUME LedgerInv, append_write_audit
  PROVE  LedgerInv'
<1> USE DEF LedgerInv
<1>1. /\ phase = "record" /\ project \in Projects /\ phase' = "idle" /\ entry' = NoWrite
      /\ UNCHANGED <<call, project, store, lost>>
  BY DEF append_write_audit, Answer, WriteAtHand
<1>2. NoWrite \in AuditRecord /\ ~NoWrite.moved
  BY DEF NoWrite, AuditRecord
<1>3. WriteAtHand'
  BY <1>1, <1>2 DEF WriteAtHand
<1>4. \A p \in Projects : Pending(p)' = 0
  BY <1>1, <1>2 DEF Pending
<1>5. CASE audit' = [audit EXCEPT ![project] = Append(@, entry)] /\ UNCHANGED noted
  <2>1. /\ audit'[project] = Append(audit[project], entry)
        /\ \A p \in Projects \ {project} : audit'[p] = audit[p]
    BY <1>1, <1>5 DEF Ledgers
  <2>2. Ledgers'
    BY <1>1, <1>2, <1>5 DEF Ledgers
  <2>3. Faithful(entry)
    BY <1>1, CountsAreNumbers DEF Faithful, WriteAtHand
  <2>4. ASSUME NEW p \in Projects
        PROVE  /\ Recorded(p)' = Recorded(p) + Pending(p)
               /\ \A i \in DOMAIN audit'[p] : Faithful(audit'[p][i])
    <3>1. \A i \in DOMAIN audit[p] : Faithful(audit[p][i])
      BY DEF WritesAreAccountedFor
    <3>2. CASE p = project
      <4>1. Recorded(p)' = Cardinality(Moved(Append(audit[p], entry)))
        BY <2>1, <3>2 DEF Recorded, Moved
      <4>2. Recorded(p)' = Recorded(p) + Pending(p)
        BY <3>2, <4>1, CountsAreNumbers, AppendCounts DEF Ledgers, Pending
      <4>3. \A i \in DOMAIN Append(audit[p], entry) :
              Append(audit[p], entry)[i] = entry \/ (i \in DOMAIN audit[p] /\ Append(audit[p], entry)[i] = audit[p][i])
        BY CountsAreNumbers DEF Ledgers
      <4> QED  BY <2>1, <2>3, <3>1, <3>2, <4>2, <4>3
    <3>3. CASE p # project
      <4>1. Recorded(p)' = Recorded(p) /\ Pending(p) = 0
        BY <2>1, <3>3 DEF Recorded, Pending
      <4> QED  BY <2>1, <3>1, <3>3, <4>1, CountsAreNumbers
    <3> QED  BY <3>2, <3>3
  <2>5. WritesAreAccountedFor'
    <3> SUFFICES ASSUME NEW p \in Projects
                 PROVE  store'[p] = Recorded(p)' + noted'[p] + lost'[p] + Pending(p)'
      BY <2>4 DEF WritesAreAccountedFor
    <3>1. store[p] = Recorded(p) + noted[p] + lost[p] + Pending(p) /\ Pending(p) \in Nat
      BY DEF WritesAreAccountedFor, Pending
    <3> QED  BY <1>1, <1>4, <1>5, <2>4, <3>1, CountsAreNumbers
  <2> QED  BY <1>3, <2>2, <2>5
<1>6. CASE noted' = Counted(noted) /\ UNCHANGED audit
  <2>1. noted' \in [Projects -> Nat] /\ \A p \in Projects : noted'[p] = noted[p] + Pending(p)
    BY <1>6 DEF Counted, Pending, Ledgers
  <2>2. Ledgers'
    BY <1>1, <1>2, <1>6, <2>1 DEF Ledgers
  <2>3. WritesAreAccountedFor'
    <3> SUFFICES ASSUME NEW p \in Projects
                 PROVE  /\ store'[p] = Recorded(p)' + noted'[p] + lost'[p] + Pending(p)'
                        /\ \A i \in DOMAIN audit'[p] : Faithful(audit'[p][i])
      BY DEF WritesAreAccountedFor
    <3>1. /\ store[p] = Recorded(p) + noted[p] + lost[p] + Pending(p)
          /\ \A i \in DOMAIN audit[p] : Faithful(audit[p][i])
      BY DEF WritesAreAccountedFor
    <3>2. Recorded(p)' = Recorded(p) /\ Pending(p) \in Nat
      BY <1>6 DEF Recorded, Pending
    <3>3. store'[p] = Recorded(p)' + noted'[p] + lost'[p] + Pending(p)'
      <4>1. store'[p] = store[p] /\ lost'[p] = lost[p] /\ noted'[p] = noted[p] + Pending(p)
        BY <1>1, <2>1
      <4>2. store[p] \in Nat /\ noted[p] \in Nat /\ lost[p] \in Nat /\ Recorded(p) \in Nat
        BY CountsAreNumbers
      <4> QED  BY <1>4, <3>1, <3>2, <4>1, <4>2
    <3>4. \A i \in DOMAIN audit'[p] : Faithful(audit'[p][i])
      <4>1. audit' = audit
        BY <1>6
      <4> QED  BY <3>1, <4>1
    <3> QED  BY <3>3, <3>4
  <2> QED  BY <1>3, <2>2, <2>3
<1> QED  BY <1>5, <1>6 DEF append_write_audit

LEMMA KilledKeeps ==
  ASSUME LedgerInv, Killed
  PROVE  LedgerInv'
<1> USE DEF LedgerInv
<1>1. /\ phase' = "off" /\ entry' = NoWrite /\ call' = NoCall /\ lost' = Counted(lost)
      /\ UNCHANGED <<store, audit, noted>>
  BY DEF Killed
<1>2. NoWrite \in AuditRecord /\ ~NoWrite.moved /\ NoCall \in Call
  BY ServerAssumption DEF NoWrite, AuditRecord, NoCall, Call, Tools, AnalysisTools
<1>3. WriteAtHand'
  BY <1>1, <1>2 DEF WriteAtHand
<1>4. lost' \in [Projects -> Nat] /\ \A p \in Projects : lost'[p] = lost[p] + Pending(p)
  BY <1>1 DEF Counted, Pending, Ledgers
<1>5. Ledgers'
  BY <1>1, <1>2, <1>4 DEF Ledgers
<1>6. WritesAreAccountedFor'
  <2> SUFFICES ASSUME NEW p \in Projects
               PROVE  /\ store'[p] = Recorded(p)' + noted'[p] + lost'[p] + Pending(p)'
                      /\ \A i \in DOMAIN audit'[p] : Faithful(audit'[p][i])
    BY DEF WritesAreAccountedFor
  <2>1. /\ store[p] = Recorded(p) + noted[p] + lost[p] + Pending(p)
        /\ \A i \in DOMAIN audit[p] : Faithful(audit[p][i])
    BY DEF WritesAreAccountedFor
  <2>2. Recorded(p)' = Recorded(p) /\ Pending(p) \in Nat /\ Pending(p)' = 0
    BY <1>1, <1>2 DEF Recorded, Pending
  <2> QED  BY <1>1, <1>4, <2>1, <2>2, CountsAreNumbers
<1> QED  BY <1>3, <1>5, <1>6

LEMMA LedgerInvHolds == Spec => []LedgerInv
<1>1. NoWrite \in AuditRecord /\ ~NoWrite.moved /\ NoCall \in Call /\ Calls \subseteq Call
  BY ServerAssumption DEF NoWrite, AuditRecord, NoCall, Call, Tools, AnalysisTools
<1>2. Init => LedgerInv
  <2> SUFFICES ASSUME Init PROVE LedgerInv
    OBVIOUS
  <2>1. Ledgers /\ WriteAtHand
    BY <1>1 DEF Init, Ledgers, WriteAtHand
  <2>2. ASSUME NEW p \in Projects
        PROVE  /\ store[p] = Recorded(p) + noted[p] + lost[p] + Pending(p)
               /\ \A i \in DOMAIN audit[p] : Faithful(audit[p][i])
    <3>1. audit[p] = <<>> /\ store[p] = 0 /\ noted[p] = 0 /\ lost[p] = 0 /\ Pending(p) = 0
      BY <1>1 DEF Init, Pending
    <3>2. Recorded(p) = 0
      BY <3>1, FS_EmptySet DEF Recorded
    <3> QED  BY <3>1, <3>2
  <2> QED  BY <2>1, <2>2 DEF LedgerInv, WritesAreAccountedFor
<1>3. LedgerInv /\ [Next]_vars => LedgerInv'
  <2> SUFFICES ASSUME LedgerInv, [Next]_vars PROVE LedgerInv'
    OBVIOUS
  <2> USE DEF LedgerInv
  <2>1. entry \in AuditRecord /\ call \in Call /\ (entry.moved => phase = "record")
    BY DEF Ledgers, WriteAtHand
  <2>2. ASSUME phase # "record", UNCHANGED data, call' \in Call, phase' \notin {"execute", "record"},
               phase' = "tool" => project' \in Projects
        PROVE  LedgerInv'
    <3>1. WriteAtHand'
      BY <2>1, <2>2 DEF data, WriteAtHand
    <3> QED  BY <2>1, <2>2, <3>1, LedgerStutters DEF data
  <2>3. ASSUME NEW c \in Calls, serve(c)
        PROVE  LedgerInv'
    BY <1>1, <2>2, <2>3 DEF serve
  <2>4. ASSUME NEW kind \in {"result", "invalid", "unknown_method"}, handle(kind)
        PROVE  LedgerInv'
    BY <1>1, <2>2, <2>4 DEF handle
  <2>5. CASE Refused \/ check_snippet \/ Facts \/ spawn \/ run_within_budget
    BY <2>1, <2>2, <2>5 DEF Refused, check_snippet, Facts, spawn, run_within_budget, Answer,
       AnswerRun, request
  <2>6. CASE with_loaded_project
    <3>1. phase = "call" /\ call' = call /\ UNCHANGED data
      BY <2>6 DEF with_loaded_project, Answer
    <3>2. call.file \in Files
      BY <2>1, <2>6 DEF with_loaded_project, Admit, Call
    <3>3. (phase' = "tool" /\ project' \in Projects) \/ phase' = "idle"
      BY ServerAssumption, <2>6, <3>2 DEF with_loaded_project, Answer
    <3> QED  BY <2>1, <2>2, <3>1, <3>3
  <2>7. ASSUME NEW tool \in ReadTools, Reads(tool)
        PROVE  LedgerInv'
    BY <2>1, <2>2, <2>7 DEF Reads, Answer
  <2>8. CASE open_session
    <3>1. phase = "tool" /\ project \in Projects /\ UNCHANGED <<call, project, store, audit, noted, lost>>
      BY <2>8 DEF open_session, Answer, request, WriteAtHand
    <3>2. CASE Answer(Plain("unavailable")) /\ UNCHANGED entry
      BY <2>1, <2>2, <3>1, <3>2 DEF Answer, data
    <3>3. CASE /\ phase' = "execute"
               /\ \E before \in {store[project], None} : entry' = [NoWrite EXCEPT !.before = before]
      <4>1. PICK before \in {store[project], None} : entry' = [NoWrite EXCEPT !.before = before]
        BY <3>3
      <4>2. before \in Nat \cup {None}
        BY <3>1, CountsAreNumbers
      <4>3. /\ entry' \in AuditRecord /\ entry'.before = before /\ ~entry'.moved
        BY <4>1, <4>2 DEF NoWrite, AuditRecord
      <4>4. WriteAtHand'
        BY <3>1, <3>3, <4>3 DEF WriteAtHand
      <4> QED  BY <2>1, <3>1, <4>3, <4>4, LedgerStutters
    <3> QED  BY <2>8, <3>2, <3>3 DEF open_session
  <2>9. ASSUME NEW r \in Runs, RunStep(r)
        PROVE  LedgerInv'
    <3>1. UNCHANGED <<phase, call, project, data>>
      BY <2>9 DEF RunStep, set_allowed_root, load_project_for_run, run_ends, run_is_gone, Step, request
    <3> QED  BY <3>1, LedgerFrame
  <2>10. ASSUME NEW allow_data \in BOOLEAN, NEW allow_write \in BOOLEAN, main(allow_data, allow_write)
         PROVE  LedgerInv'
    BY <2>1, <2>2, <2>10 DEF main, request
  <2>11. CASE UNCHANGED vars
    BY <2>11, LedgerFrame DEF vars, request
  <2> QED  BY <2>3, <2>4, <2>5, <2>6, <2>7, <2>8, <2>9, <2>10, <2>11, ExecuteKeeps, AuditKeeps,
              KilledKeeps
           DEF Next, Serving, RunStep, surface_read, saved_roots, data_children, data_read,
               surface_write, ReadTools
<1> QED  BY <1>2, <1>3, PTL DEF Spec

-----------------------------------------------------------------------------
(* Types *)

(* A write is let in only while each store and each audit file has room.     *)
Room ==
  /\ phase \in {"execute", "record"} => call.tool = "surface_write"
  /\ phase \in {"call", "tool", "execute"} /\ call.tool = "surface_write" =>
       \A p \in Projects : store[p] < MaxWrites

(* The control state, and the data.                                          *)
ControlOK ==
  /\ policy \in [read : BOOLEAN, write : BOOLEAN]
  /\ phase \in {"off", "idle", "call", "tool", "execute", "record", "wait"}
  /\ call \in Calls \cup {NoCall} /\ reply \in Reply
  /\ project \in Projects \cup {None}
  /\ thread \in [Runs -> Thread]
  /\ waiting \in Runs \cup {None}
  /\ touched \in [what : {"nothing", "sources", "read", "write"},
                  file : Files \cup {None}, project : Projects \cup {None}]
  /\ printed \in Printed \cup {<<>>}

DataOK ==
  /\ store \in [Projects -> 0..MaxWrites] /\ entry \in WriteAuditRecord
  /\ audit \in [Projects -> Seq(WriteAuditRecord)]

(* What is answered, and what is opened, is well typed.                      *)
LEMMA RepliesAreTyped ==
  /\ \A kind \in {"none", "result", "disabled", "out_of_root", "unavailable", "fault", "invalid",
                  "unknown_method", "budget_exceeded", "audit_error"} : Plain(kind) \in Reply
  /\ \A what \in {"nothing", "sources", "read", "write"}, f \in Files \cup {None}, p \in Projects \cup {None} :
       Touch(what, f, p) \in [what : {"nothing", "sources", "read", "write"},
                              file : Files \cup {None}, project : Projects \cup {None}]
  /\ Untouched \in [what : {"nothing", "sources", "read", "write"},
                    file : Files \cup {None}, project : Projects \cup {None}]
BY DEF Plain, Reply, Touch, Untouched

(* The loop, the dispatcher, the tools and the threads keep their types.     *)
LEMMA ControlStep ==
  ASSUME ControlOK, ServerInv, ServerInv', LedgerInv, [Next]_vars
  PROVE  ControlOK'
<1>. USE ServerAssumption
<1>1. /\ policy' \in [read : BOOLEAN, write : BOOLEAN] /\ thread \in [Runs -> Thread] /\ thread' \in [Runs -> Thread]
      /\ call \in Call /\ (phase = "tool" => project \in Projects)
  BY DEF ServerInv, Typed, LedgerInv, Ledgers, WriteAtHand
<1>2. ASSUME NEW kind \in {"none", "result", "disabled", "out_of_root", "unavailable", "fault", "invalid",
                           "unknown_method", "budget_exceeded", "audit_error"},
             Answer(Plain(kind)), touched' = touched \/ \E what \in {"sources", "read", "write"}, f \in Files, p \in Projects \cup {None} :
                                           touched' = Touch(what, f, p),
             waiting' \in {waiting, None}
      PROVE  ControlOK'
  BY <1>1, <1>2, RepliesAreTyped DEF Answer, ControlOK
<1>3. ASSUME NEW to \in {"off", "idle", "call", "tool", "execute", "record", "wait"}, phase' = to,
             UNCHANGED <<request, waiting>>,
             touched' = touched \/ \E what \in {"sources", "read", "write"}, f \in Files, p \in Projects \cup {None} :
                                           touched' = Touch(what, f, p)
      PROVE  ControlOK'
  BY <1>1, <1>3, RepliesAreTyped DEF request, ControlOK
<1>4. ASSUME NEW c \in Calls, serve(c)
      PROVE  ControlOK'
  BY <1>1, <1>4, RepliesAreTyped DEF serve, ControlOK
<1>5. ASSUME NEW kind \in {"result", "invalid", "unknown_method"}, handle(kind)
      PROVE  ControlOK'
  BY <1>1, <1>5, RepliesAreTyped DEF handle, ControlOK
<1>6. CASE Refused
  BY <1>2, <1>6 DEF Refused
<1>7. CASE check_snippet \/ Facts
  BY <1>2, <1>7 DEF check_snippet, Facts
<1>8. CASE with_loaded_project
  <2>1. call.file \in Files
    BY <1>1, <1>8 DEF with_loaded_project, Admit, Call
  <2>2. CASE Answer(Plain("fault")) /\ touched' = Touch("sources", call.file, Home[call.file])
    <3>1. Home[call.file] \in Projects \cup {None}
      BY <2>1
    <3>. QED
      BY <1>2, <1>8, <2>1, <2>2, <3>1 DEF with_loaded_project
  <2>3. ASSUME NEW root \in Under[call.file], phase' = "tool", project' = root,
               touched' = Touch("sources", call.file, root), UNCHANGED <<policy, call, reply, printed>>
        PROVE  ControlOK'
    <3>1. root \in Projects
      BY <2>1, <2>3
    <3>. QED
      BY <1>1, <1>8, <2>1, <2>3, <3>1, RepliesAreTyped DEF with_loaded_project, ControlOK
  <2>. QED
    BY <1>8, <2>2, <2>3 DEF with_loaded_project
<1>9. ASSUME NEW tool, Reads(tool)
      PROVE  ControlOK'
  <2>1. call.file \in Files /\ project \in Projects
    <3>1. confinement_check(call.file, Allowed)
      BY <1>9 DEF Reads, ServerInv, Admitted
    <3>. QED
      BY <1>1, <1>9, <3>1 DEF Reads, confinement_check, Call
  <2>2. PICK kind \in {"result", "unavailable"} : Answer(Plain(kind))
    BY <1>9 DEF Reads
  <2>. QED
    BY <1>2, <1>9, <2>1, <2>2 DEF Reads
<1>10. CASE open_session
  <2>1. call.file \in Files /\ project \in Projects
    <3>1. confinement_check(call.file, Allowed)
      BY <1>10 DEF open_session, ServerInv, Admitted
    <3>. QED
      BY <1>1, <1>10, <3>1 DEF open_session, confinement_check, Call
  <2>2. UNCHANGED waiting /\ touched' = Touch("write", call.file, project)
    BY <1>10 DEF open_session
  <2>3. CASE Answer(Plain("unavailable"))
    BY <1>2, <2>1, <2>2, <2>3
  <2>4. CASE phase' = "execute" /\ UNCHANGED request
    BY <1>3, <2>1, <2>2, <2>4
  <2>. QED
    BY <1>10, <2>3, <2>4 DEF open_session
<1>11. CASE execute
  BY <1>3, <1>11 DEF execute
<1>12. CASE append_write_audit
  BY <1>2, <1>12 DEF append_write_audit
<1>13. CASE spawn
  BY <1>1, <1>13 DEF spawn, request, ControlOK
<1>14. CASE run_within_budget
  <2>1. ASSUME NEW r \in Runs, AnswerRun(r)
        PROVE  ControlOK'
    <3>1. thread[r].file \in Files \cup {None}
      BY <1>1 DEF Thread
    <3>. QED
      BY <1>1, <1>14, <2>1, <3>1 DEF run_within_budget, AnswerRun, ControlOK, Reply
  <2>. QED
    BY <1>2, <1>14, <2>1 DEF run_within_budget
<1>15. ASSUME NEW r \in Runs, RunStep(r)
       PROVE  ControlOK'
  <2>1. UNCHANGED <<phase, request, waiting>>
    BY <1>15 DEF RunStep, set_allowed_root, load_project_for_run, run_ends, run_is_gone, Step
  <2>2. touched' = touched \/ \E f \in Files : touched' = Touch("sources", f, Home[f])
    <3>1. thread[r].file \in Files \cup {None}
      BY <1>1 DEF Thread
    <3>2. CASE UNCHANGED touched
      BY <3>2
    <3>3. CASE load_project_for_run(r) /\ touched' # touched
      <4>1. /\ confinement_check(thread[r].file, ThreadRoot(r))
            /\ touched' = Touch("sources", thread[r].file, Home[thread[r].file])
        BY <3>3 DEF load_project_for_run
      <4>2. thread[r].file # None
        BY <4>1 DEF confinement_check, ThreadRoot
      <4>. QED
        BY <3>1, <4>1, <4>2
    <3>. QED
      BY <1>15, <3>2, <3>3 DEF RunStep, set_allowed_root, run_ends, run_is_gone
  <2>3. \A f \in Files : Home[f] \in Projects \cup {None}
    OBVIOUS
  <2>4. phase \in {"off", "idle", "call", "tool", "execute", "record", "wait"}
    BY DEF ControlOK
  <2>. QED
    BY <1>3, <2>1, <2>2, <2>3, <2>4
<1>16. CASE Killed
  BY <1>1, <1>16, RepliesAreTyped DEF Killed, ControlOK
<1>17. ASSUME NEW allow_data, NEW allow_write, main(allow_data, allow_write)
       PROVE  ControlOK'
  BY <1>3, <1>17 DEF main
<1>18. CASE UNCHANGED vars
  BY <1>18 DEF vars, request, ControlOK
<1>. QED
  BY <1>4, <1>5, <1>6, <1>7, <1>8, <1>9, <1>10, <1>11, <1>12, <1>13, <1>14, <1>15, <1>16, <1>17, <1>18
  DEF Next, Serving, RunStep, surface_read, saved_roots, data_children, data_read, surface_write

(* A commit has its stamp within the bound, which serve has left room for.   *)
LEMMA DataStep ==
  ASSUME DataOK, ControlOK, Room, LedgerInv, [Next]_vars
  PROVE  DataOK' /\ Room'
<1>. USE ServerAssumption
<1>1. /\ store \in [Projects -> 0..MaxWrites] /\ entry \in WriteAuditRecord
      /\ NoWrite \in WriteAuditRecord /\ NoCall.tool # "surface_write"
      /\ phase \in {"tool", "execute", "record"} => project \in Projects
  BY DEF DataOK, WriteAuditRecord, NoWrite, NoCall, LedgerInv, WriteAtHand
<1>2. ASSUME UNCHANGED <<store, audit, call>>, entry' \in WriteAuditRecord,
             \/ phase' \in {"off", "idle", "wait"}
             \/ phase' = phase
             \/ phase = "call" /\ phase' = "tool"
             \/ phase = "tool" /\ phase' = "execute" /\ call.tool = "surface_write"
      PROVE  DataOK' /\ Room'
  BY <1>2 DEF DataOK, Room
<1>3. ASSUME NEW c \in Calls, serve(c)
      PROVE  DataOK' /\ Room'
  BY <1>1, <1>3 DEF serve, data, DataOK, Room, Call
<1>4. ASSUME NEW kind, handle(kind)
      PROVE  DataOK' /\ Room'
  BY <1>1, <1>4 DEF handle, data, DataOK, Room
<1>5. CASE Refused \/ check_snippet \/ Facts \/ with_loaded_project \/ spawn \/ run_within_budget
  BY <1>1, <1>2, <1>5 DEF Refused, check_snippet, Facts, with_loaded_project, spawn, run_within_budget,
     Answer, AnswerRun, request, data
<1>6. ASSUME NEW tool, Reads(tool)
      PROVE  DataOK' /\ Room'
  BY <1>1, <1>2, <1>6 DEF Reads, Answer, data
<1>7. CASE open_session
  <2>1. UNCHANGED <<store, audit, call>>
    BY <1>7 DEF open_session, Answer, request
  <2>2. CASE Answer(Plain("unavailable")) /\ UNCHANGED entry
    BY <1>1, <1>2, <2>1, <2>2 DEF Answer
  <2>3. ASSUME phase' = "execute", NEW before \in {store[project], None},
               entry' = [NoWrite EXCEPT !.before = before]
        PROVE  DataOK' /\ Room'
    <3>1. before \in Stamp \cup {None}
      BY <1>1, <1>7 DEF open_session, Stamp
    <3>2. entry' \in WriteAuditRecord
      BY <2>3, <3>1 DEF NoWrite, WriteAuditRecord
    <3>. QED
      BY <1>2, <1>7, <2>1, <2>3, <3>2 DEF open_session
  <2>. QED
    BY <1>7, <2>2, <2>3 DEF open_session
<1>8. CASE execute
  <2>1. project \in Projects /\ store[project] < MaxWrites /\ phase' = "record" /\ call.tool = "surface_write"
        /\ UNCHANGED <<call, audit>>
    BY <1>1, <1>8 DEF execute, Room, request
  <2>2. PICK moved \in BOOLEAN, outcome \in {"ok", "error"} :
          /\ store' = [store EXCEPT ![project] = IF moved THEN @ + 1 ELSE @]
          /\ \E after \in {store'[project], None} :
               entry' = [entry EXCEPT !.after = after, !.outcome = outcome, !.moved = moved]
    BY <1>8 DEF execute
  <2>3. store' \in [Projects -> 0..MaxWrites]
    BY <1>1, <2>1, <2>2
  <2>4. PICK after \in {store'[project], None} :
          entry' = [entry EXCEPT !.after = after, !.outcome = outcome, !.moved = moved]
    BY <2>2
  <2>5. after \in Stamp \cup {None}
    BY <2>1, <2>3, <2>4 DEF Stamp
  <2>6. entry' \in WriteAuditRecord
    <3>1. entry' = [before |-> entry.before, after |-> after, outcome |-> outcome, moved |-> moved]
      BY <1>1, <2>4 DEF WriteAuditRecord
    <3>. QED
      BY <1>1, <2>5, <3>1 DEF WriteAuditRecord
  <2>. QED
    BY <2>1, <2>3, <2>6 DEF DataOK, Room
<1>9. CASE append_write_audit
  <2>1. phase' = "idle" /\ entry' = NoWrite /\ UNCHANGED store /\ phase = "record"
    BY <1>9 DEF append_write_audit, Answer
  <2>2. audit' = audit \/ audit' = [audit EXCEPT ![project] = Append(@, entry)]
    BY <1>9 DEF append_write_audit
  <2>3. audit' \in [Projects -> Seq(WriteAuditRecord)]
    <3>1. audit \in [Projects -> Seq(WriteAuditRecord)] /\ project \in Projects
      BY <1>1, <2>1 DEF DataOK
    <3>2. Append(audit[project], entry) \in Seq(WriteAuditRecord)
      BY <1>1, <3>1
    <3>. QED
      BY <2>2, <3>1, <3>2
  <2>. QED
    BY <1>1, <2>1, <2>3 DEF DataOK, Room
<1>10. ASSUME NEW r \in Runs, RunStep(r)
       PROVE  DataOK' /\ Room'
  BY <1>1, <1>2, <1>10 DEF RunStep, set_allowed_root, load_project_for_run, run_ends, run_is_gone, Step,
     request, data
<1>11. CASE Killed
  BY <1>1, <1>11 DEF Killed, DataOK, Room
<1>12. ASSUME NEW allow_data, NEW allow_write, main(allow_data, allow_write)
       PROVE  DataOK' /\ Room'
  BY <1>1, <1>2, <1>12 DEF main, request, data
<1>13. CASE UNCHANGED vars
  BY <1>1, <1>2, <1>13 DEF vars, request, data
<1>. QED
  BY <1>3, <1>4, <1>5, <1>6, <1>7, <1>8, <1>9, <1>10, <1>11, <1>12, <1>13
  DEF Next, Serving, RunStep, surface_read, saved_roots, data_children, data_read, surface_write

(* Every reachable state of the server, its threads and its ledgers is well  *)
(* typed; in particular no stamp passes the bound on writes, of which each   *)
(* of noted and lost is a part (serve, execute, append_write_audit, Killed). *)
THEOREM ServerTypesHold == Spec => []TypeOK
<1>1. Init => ControlOK /\ DataOK /\ Room
  <2>. SUFFICES ASSUME Init
       PROVE  ControlOK /\ DataOK /\ Room
    OBVIOUS
  <2>1. ControlOK
    BY ServerAssumption, RepliesAreTyped DEF Init, ControlOK, launch, Free, Thread
  <2>2. DataOK /\ Room
    BY ServerAssumption DEF Init, DataOK, Room, NoWrite, WriteAuditRecord
  <2>. QED
    BY <2>1, <2>2
<1>2. /\ ControlOK /\ DataOK /\ Room /\ ServerInv /\ ServerInv' /\ LedgerInv /\ [Next]_vars
      => (ControlOK /\ DataOK /\ Room)'
  BY ControlStep, DataStep
<1>3. ControlOK /\ DataOK /\ LedgerInv => TypeOK
  <2>. SUFFICES ASSUME ControlOK, DataOK, LedgerInv
       PROVE  TypeOK
    OBVIOUS
  <2>1. ASSUME NEW p \in Projects
        PROVE  noted[p] \in 0..MaxWrites /\ lost[p] \in 0..MaxWrites
    <3>1. store[p] = Recorded(p) + noted[p] + lost[p] + Pending(p) /\ Pending(p) \in {0, 1}
      BY DEF LedgerInv, WritesAreAccountedFor, Pending
    <3>2. store[p] \in 0..MaxWrites /\ noted[p] \in Nat /\ lost[p] \in Nat /\ Recorded(p) \in Nat
      BY CountsAreNumbers DEF LedgerInv, DataOK
    <3>. QED
      BY ServerAssumption, <3>1, <3>2
  <2>2. noted \in [Projects -> 0..MaxWrites] /\ lost \in [Projects -> 0..MaxWrites]
    BY <2>1 DEF LedgerInv, Ledgers
  <2>. QED
    BY <2>2 DEF ControlOK, DataOK, TypeOK
<1>. QED
  BY <1>1, <1>2, <1>3, ServerInvHolds, LedgerInvHolds, PTL DEF Spec

-----------------------------------------------------------------------------
(* The captured output of a run (CappedOutput), for every sequence of       *)
(* prints.  What a recursion computes is proved by induction over a set:    *)
(* were some number of 0..N not in it, there would be a least one.          *)

(* Induction over data, with a set in the place of a predicate: a set of   *)
(* numbers that is not empty has a least one.                              *)
LEMMA LeastOf ==
  ASSUME NEW S \in SUBSET Nat, S # {}
  PROVE  \E m \in S : \A n \in S : m <= n
<1>1. PICK m \in S : \A n \in S : <<n, m>> \notin OpToRel(<, Nat)
  BY NatLessThanWellFounded, WFMin
<1>2. \A n \in Nat : n < m => <<n, m>> \in OpToRel(<, Nat)
  BY DEF OpToRel
<1>3. \A n \in S : ~(n < m)
  BY <1>1, <1>2
<1>4. \A n \in S : n \in Int
  OBVIOUS
<1>. QED
  BY <1>3, <1>4

LEMMA SetInduction ==
  ASSUME NEW N \in Nat, NEW S, 0 \in S, \A n \in 0..N : n \in S /\ n < N => n + 1 \in S
  PROVE  \A n \in 0..N : n \in S
<1>. DEFINE T == 0..N \ S
<1>1. SUFFICES ASSUME T # {} PROVE FALSE
  OBVIOUS
<1>2. PICK m \in T : \A n \in T : m <= n
  <2>1. T \in SUBSET Nat
    OBVIOUS
  <2>. HIDE DEF T
  <2>. QED
    BY <1>1, <2>1, LeastOf
<1>3. m # 0 /\ m - 1 \in 0..N /\ m - 1 \notin T
  BY <1>2
<1>. QED
  BY <1>2, <1>3

(* Of a set of numbers with a bound, the greatest. *)
LEMMA MaxIsGreatest ==
  ASSUME NEW N \in Nat, NEW S \in SUBSET (0..N), S # {}
  PROVE  Max(S) \in S /\ \A n \in S : Max(S) >= n
<1>. DEFINE B == {b \in Nat : \A n \in S : b >= n}
<1>1. N \in B
  OBVIOUS
<1>2. PICK m \in B : \A b \in B : m <= b
  BY <1>1, LeastOf
<1>3. m \in S
  <2>1. CASE m = 0
    <3>1. PICK n \in S : TRUE
      OBVIOUS
    <3>2. n \in 0..N /\ m >= n
      BY <1>2
    <3>. QED
      BY <2>1, <3>2
  <2>2. CASE m > 0
    <3>1. m - 1 \notin B
      BY <1>2, <2>2
    <3>. QED
      BY <1>2, <2>2, <3>1
  <2>. QED
    BY <2>1, <2>2
<1>. QED
  BY <1>2, <1>3 DEF Max

(* What the recursion computes. *)
LEMMA EndsOf ==
  ASSUME NEW text \in Text
  PROVE  Ends(text) = [n \in 0..Len(text) |-> IF n = 0 THEN 0 ELSE Ends(text)[n - 1] + text[n]]
<1>. DEFINE N == Len(text)
            Upto(m, g) == g = [n \in 0..m |-> IF n = 0 THEN 0 ELSE g[n - 1] + text[n]]
            S == {m \in 0..N : \E g : Upto(m, g)}
<1>0. N \in Nat
  BY DEF Text
<1>1. 0 \in S
  <2>1. Upto(0, [n \in 0..0 |-> 0])
    OBVIOUS
  <2>2. \E g : Upto(0, g)
    BY <2>1
  <2>. QED
    BY <1>0, <2>2
<1>2. ASSUME NEW m \in 0..N, m \in S, m < N PROVE m + 1 \in S
  <2>1. PICK g : Upto(m, g)
    BY <1>2
  <2>. DEFINE h == [n \in 0..m + 1 |-> IF n = m + 1 THEN g[m] + text[n] ELSE g[n]]
  <2>2. ASSUME NEW n \in 0..m + 1 PROVE h[n] = IF n = 0 THEN 0 ELSE h[n - 1] + text[n]
    BY <2>1, <1>2, <1>0
  <2>3. h = [n \in 0..m + 1 |-> h[n]]
    OBVIOUS
  <2>4. Upto(m + 1, h)
    BY <2>2, <2>3
  <2>5. \E f : Upto(m + 1, f)
    <3>. HIDE DEF Upto, h
    <3>. QED
      BY <2>4
  <2>6. m + 1 \in 0..N
    BY <1>0, <1>2
  <2>. HIDE DEF Upto
  <2>. QED
    BY <2>5, <2>6
<1>3. \E g : Upto(N, g)
  BY <1>0, <1>1, <1>2, SetInduction
<1>. QED
  BY <1>3 DEF Ends

LEMMA EndsStep ==
  ASSUME NEW text \in Text
  PROVE  /\ Len(text) \in Nat /\ \A n \in 1..Len(text) : text[n] \in 1..4
         /\ Ends(text)[0] = 0
         /\ \A n \in 1..Len(text) : Ends(text)[n] = Ends(text)[n - 1] + text[n]
         /\ \A n \in 0..Len(text) : Ends(text)[n] \in Nat
<1>1. Len(text) \in Nat /\ \A n \in 1..Len(text) : text[n] \in 1..4
  BY DEF Text
<1>2. /\ Ends(text)[0] = 0
      /\ \A n \in 1..Len(text) : Ends(text)[n] = Ends(text)[n - 1] + text[n]
  <2>1. \A n \in 0..Len(text) : Ends(text)[n] = IF n = 0 THEN 0 ELSE Ends(text)[n - 1] + text[n]
    BY EndsOf
  <2>2. 0 \in 0..Len(text) /\ \A n \in 1..Len(text) : n \in 0..Len(text) /\ n # 0
    BY <1>1
  <2>. QED
    BY <2>1, <2>2
<1>3. \A n \in 0..Len(text) : Ends(text)[n] \in Nat
  <2>. DEFINE S == {n \in 0..Len(text) : Ends(text)[n] \in Nat}
  <2>1. 0 \in S
    BY <1>1, <1>2
  <2>2. ASSUME NEW n \in 0..Len(text), n \in S, n < Len(text) PROVE n + 1 \in S
    <3>1. n + 1 \in 1..Len(text) /\ (n + 1) - 1 = n
      BY <1>1, <2>2
    <3>2. Ends(text)[n + 1] = Ends(text)[n] + text[n + 1]
      BY <1>2, <3>1
    <3>. QED
      BY <1>1, <2>2, <3>1, <3>2
  <2>3. \A n \in 0..Len(text) : n \in S
    <3>. HIDE DEF S
    <3>. QED
      BY <1>1, <2>1, <2>2, SetInduction
  <2>. QED
    BY <2>3
<1>. QED
  BY <1>1, <1>2, <1>3

LEMMA MaxOfTop ==
  ASSUME NEW m \in Nat, NEW s \in SUBSET (1..m)
  PROVE  /\ s # {} => Max(s) \in s
         /\ m \in s => Max(s) = m
<1>1. s # {} => Max(s) \in s /\ \A n \in s : Max(s) >= n
  <2>1. s \in SUBSET (0..m)
    OBVIOUS
  <2>. QED
    BY <2>1, MaxIsGreatest
<1>2. ASSUME m \in s PROVE Max(s) = m
  <2>1. Max(s) \in 1..m /\ Max(s) >= m
    BY <1>1, <1>2
  <2>. QED
    BY <2>1
<1>. QED
  BY <1>1, <1>2

(* The same of the fold of `write`. *)
LEMMA FoldOf ==
  ASSUME NEW prints \in Seq(Text)
  PROVE  \E after :
           /\ after[0] = Fresh
           /\ \A n \in 1..Len(prints) : after[n] = write(after[n - 1], prints[n])
           /\ Captured(prints) = after[Len(prints)]
<1>. DEFINE N == Len(prints)
            Folded(g, s) == IF s = {} THEN Fresh ELSE write(g[s \ {Max(s)}], prints[Max(s)])
            Iter(m, g) == g = [s \in SUBSET (1..m) |-> Folded(g, s)]
            S == {m \in 0..N : \E g : Iter(m, g)}
<1>0. N \in Nat /\ DOMAIN prints = 1..N
  OBVIOUS
<1>1. 0 \in S
  <2>. DEFINE g == [s \in SUBSET (1..0) |-> Fresh]
  <2>1. \A s \in SUBSET (1..0) : g[s] = Folded(g, s)
    BY SUBSET (1..0) = {{}}
  <2>2. Iter(0, g)
    <3>. HIDE DEF Folded
    <3>. QED
      BY <2>1
  <2>3. \E f : Iter(0, f)
    <3>. HIDE DEF Iter, g
    <3>. QED
      BY <2>2
  <2>. HIDE DEF Iter
  <2>. QED
    BY <1>0, <2>3
<1>2. ASSUME NEW m \in 0..N, m \in S, m < N PROVE m + 1 \in S
  <2>1. PICK g : Iter(m, g)
    BY <1>2
  <2>. DEFINE h == [s \in SUBSET (1..m + 1) |->
                      IF m + 1 \in s THEN write(g[s \ {m + 1}], prints[m + 1]) ELSE g[s]]
  <2>2. ASSUME NEW s \in SUBSET (1..m + 1) PROVE h[s] = Folded(h, s)
    <3>1. /\ s # {} => Max(s) \in s
          /\ m + 1 \in s => Max(s) = m + 1
      BY <1>0, MaxOfTop
    <3>2. CASE m + 1 \in s
      <4>1. s \ {m + 1} \in SUBSET (1..m) /\ s \ {m + 1} \in SUBSET (1..m + 1)
        BY <1>0
      <4>2. h[s \ {m + 1}] = g[s \ {m + 1}]
        BY <4>1
      <4>. QED
        BY <3>1, <3>2, <4>2
    <3>3. CASE m + 1 \notin s
      <4>1. s \in SUBSET (1..m) /\ s \ {Max(s)} \in SUBSET (1..m + 1) /\ m + 1 \notin s \ {Max(s)}
        <5>1. \A x \in s : x \in 1..m
          BY <1>0, <3>3
        <5>. QED
          BY <3>3, <5>1
      <4>2. h[s] = g[s] /\ h[s \ {Max(s)}] = g[s \ {Max(s)}]
        BY <3>3, <4>1
      <4>3. g[s] = Folded(g, s)
        <5>. HIDE DEF Folded
        <5>. QED
          BY <2>1, <4>1
      <4>. QED
        BY <4>2, <4>3
    <3>. QED
      BY <3>2, <3>3
  <2>3. h = [s \in SUBSET (1..m + 1) |-> h[s]]
    OBVIOUS
  <2>4. Iter(m + 1, h)
    <3>. HIDE DEF Folded, h
    <3>. QED
      BY <2>2, <2>3
  <2>5. \E f : Iter(m + 1, f)
    <3>. HIDE DEF Iter, h
    <3>. QED
      BY <2>4
  <2>6. m + 1 \in 0..N
    BY <1>0, <1>2
  <2>. HIDE DEF Iter
  <2>. QED
    BY <2>5, <2>6
<1>3. \E g : Iter(N, g)
  <2>1. \A n \in 0..N : n \in S
    <3>. HIDE DEF S
    <3>. QED
      BY <1>0, <1>1, <1>2, SetInduction
  <2>. HIDE DEF Iter
  <2>. QED
    BY <1>0, <2>1
<1>. DEFINE iter == CHOOSE g : Iter(N, g)
<1>4. Captured(prints) = iter[1..N]
  BY <1>0 DEF Captured, FoldLeft, MapThenFoldSet
<1>5. Iter(N, iter)
  <2>. HIDE DEF Iter
  <2>. QED
    BY <1>3
<1>6. ASSUME NEW n \in 0..N PROVE iter[1..n] = Folded(iter, 1..n)
  <2>. HIDE DEF iter, Folded
  <2>1. 1..n \in SUBSET (1..N)
    BY <1>0
  <2>. QED
    BY <1>5, <2>1
<1>. DEFINE after == [n \in 0..N |-> iter[1..n]]
<1>. HIDE DEF iter
<1>7. after[0] = Fresh
  <2>1. 1..0 = {} /\ 0 \in 0..N
    BY <1>0
  <2>. QED
    BY <1>6, <2>1
<1>8. ASSUME NEW n \in 1..N PROVE after[n] = write(after[n - 1], prints[n])
  <2>1. Max(1..n) = n /\ 1..n # {} /\ (1..n) \ {n} = 1..n - 1
    <3>1. n \in Nat /\ n \in 1..n
      BY <1>0
    <3>2. Max(1..n) = n
      BY <3>1, MaxOfTop
    <3>3. \A x : x \in (1..n) \ {n} <=> x \in 1..n - 1
      BY <3>1
    <3>. QED
      BY <3>1, <3>2, <3>3
  <2>2. n \in 0..N /\ n - 1 \in 0..N
    BY <1>0
  <2>3. iter[1..n] = write(iter[1..n - 1], prints[n])
    BY <1>6, <2>1, <2>2
  <2>. QED
    BY <2>2, <2>3
<1>9. Captured(prints) = after[N]
  BY <1>0, <1>4
<1>. QED
  <2>. HIDE DEF after
  <2>. QED
    BY <1>7, <1>8, <1>9

(* And of the concatenation of the prints. *)
LEMMA FlattenOf ==
  ASSUME NEW prints \in Seq(Text)
  PROVE  \E all :
           /\ all[0] = <<>>
           /\ \A n \in 1..Len(prints) : all[n] = all[n - 1] \o prints[n]
           /\ \A n \in 0..Len(prints) : all[n] \in Text
           /\ Everything(prints) = all[Len(prints)]
<1>. DEFINE N == Len(prints)
            Joined(g, i) == IF i = 1 THEN prints[i] ELSE g[i - 1] \o prints[i]
            Flat(m, g) == g = [i \in 1..m |-> Joined(g, i)]
            S == {m \in 0..N : \E g : Flat(m, g)}
<1>0. N \in Nat /\ \A n \in 1..N : prints[n] \in Text
  OBVIOUS
<1>1. 0 \in S
  <2>. DEFINE g == [i \in 1..0 |-> 0]
  <2>1. \A i \in 1..0 : g[i] = Joined(g, i)
    OBVIOUS
  <2>2. Flat(0, g)
    <3>. HIDE DEF Joined
    <3>. QED
      BY <2>1
  <2>3. \E f : Flat(0, f)
    <3>. HIDE DEF Flat, g
    <3>. QED
      BY <2>2
  <2>. HIDE DEF Flat
  <2>. QED
    BY <1>0, <2>3
<1>2. ASSUME NEW m \in 0..N, m \in S, m < N PROVE m + 1 \in S
  <2>1. PICK g : Flat(m, g)
    BY <1>2
  <2>. DEFINE h == [i \in 1..m + 1 |-> IF i = m + 1 THEN Joined(g, i) ELSE g[i]]
  <2>2. ASSUME NEW i \in 1..m + 1 PROVE h[i] = Joined(h, i)
    <3>1. i \in Nat /\ m \in Nat
      BY <1>0
    <3>2. h[i] = Joined(g, i)
      <4>1. CASE i = m + 1
        BY <4>1
      <4>2. CASE i # m + 1
        <5>1. i \in 1..m
          BY <3>1, <4>2
        <5>2. g[i] = Joined(g, i)
          <6>. HIDE DEF Joined
          <6>. QED
            BY <2>1, <5>1
        <5>. HIDE DEF Joined
        <5>. QED
          BY <4>2, <5>2
      <4>. QED
        BY <4>1, <4>2
    <3>3. i # 1 => h[i - 1] = g[i - 1]
      <4>. HIDE DEF Joined
      <4>. QED
        BY <3>1
    <3>. HIDE DEF h
    <3>. QED
      BY <3>2, <3>3
  <2>3. h = [i \in 1..m + 1 |-> h[i]]
    <3>. HIDE DEF Joined
    <3>. QED
      OBVIOUS
  <2>4. Flat(m + 1, h)
    <3>. HIDE DEF Joined, h
    <3>. QED
      BY <2>2, <2>3
  <2>5. \E f : Flat(m + 1, f)
    <3>. HIDE DEF Flat, h
    <3>. QED
      BY <2>4
  <2>6. m + 1 \in 0..N
    BY <1>0, <1>2
  <2>. HIDE DEF Flat
  <2>. QED
    BY <2>5, <2>6
<1>3. \E g : Flat(N, g)
  <2>1. \A n \in 0..N : n \in S
    <3>. HIDE DEF S
    <3>. QED
      BY <1>0, <1>1, <1>2, SetInduction
  <2>. HIDE DEF Flat
  <2>. QED
    BY <1>0, <2>1
<1>. DEFINE flatten == CHOOSE g : Flat(N, g)
<1>4. Everything(prints) = IF N = 0 THEN prints ELSE flatten[N]
  BY <1>0 DEF Everything, FlattenSeq
<1>5. Flat(N, flatten)
  <2>. HIDE DEF Flat
  <2>. QED
    BY <1>3
<1>6. ASSUME NEW i \in 1..N PROVE flatten[i] = Joined(flatten, i)
  <2>. HIDE DEF flatten, Joined
  <2>. QED
    BY <1>5
<1>. DEFINE all == [n \in 0..N |-> IF n = 0 THEN <<>> ELSE flatten[n]]
            T == {n \in 0..N : all[n] \in Text}
<1>. HIDE DEF flatten
<1>7. all[0] = <<>>
  BY <1>0
<1>8. ASSUME NEW n \in 1..N PROVE /\ all[n - 1] \in Text => all[n] = all[n - 1] \o prints[n]
                                  /\ all[n - 1] \in Text => all[n] \in Text
  <2>0. n \in 0..N /\ n - 1 \in 0..N /\ n # 0 /\ prints[n] \in Text
    BY <1>0
  <2>1. all[n] = Joined(flatten, n)
    BY <1>6, <2>0
  <2>2. CASE n = 1
    <3>1. all[n - 1] = <<>> /\ all[n] = prints[n]
      BY <1>7, <2>1, <2>2
    <3>2. <<>> \o prints[n] = prints[n]
      BY <2>0, ConcatEmptySeq DEF Text
    <3>. HIDE DEF all
    <3>. QED
      BY <2>0, <3>1, <3>2
  <2>3. CASE n # 1
    <3>1. all[n - 1] = flatten[n - 1]
      BY <2>0, <2>3
    <3>2. all[n] = all[n - 1] \o prints[n]
      BY <2>1, <2>3, <3>1
    <3>3. ASSUME all[n - 1] \in Text PROVE all[n - 1] \o prints[n] \in Text
      <4>. HIDE DEF all
      <4>. QED
        BY <2>0, <3>3, ConcatProperties DEF Text
    <3>. HIDE DEF all
    <3>. QED
      BY <3>2, <3>3
  <2>. QED
    BY <2>2, <2>3
<1>9. ASSUME NEW n \in 0..N PROVE all[n] \in Text
  <2>1. 0 \in T
    <3>1. <<>> \in Text /\ 0 \in 0..N
      BY <1>0 DEF Text
    <3>. QED
      BY <1>7, <3>1
  <2>2. ASSUME NEW m \in 0..N, m \in T, m < N PROVE m + 1 \in T
    <3>1. m + 1 \in 1..N /\ m + 1 \in 0..N /\ (m + 1) - 1 = m /\ all[m] \in Text
      BY <1>0, <2>2
    <3>2. all[m + 1] \in Text
      <4>. HIDE DEF all
      <4>. QED
        BY <1>8, <3>1
    <3>. HIDE DEF all
    <3>. QED
      BY <3>1, <3>2
  <2>3. \A m \in 0..N : m \in T
    <3>. HIDE DEF T
    <3>. QED
      BY <1>0, <2>1, <2>2, SetInduction
  <2>. QED
    BY <2>3
<1>10. Everything(prints) = all[N]
  <2>1. N = 0 => prints = <<>>
    OBVIOUS
  <2>. QED
    BY <1>0, <1>4, <2>1
<1>11. ASSUME NEW n \in 1..N PROVE all[n] = all[n - 1] \o prints[n]
  <2>1. n - 1 \in 0..N
    BY <1>0
  <2>. HIDE DEF all
  <2>. QED
    BY <1>8, <1>9, <2>1
<1>. QED
  <2>. HIDE DEF all
  <2>. QED
    BY <1>7, <1>9, <1>10, <1>11

(* The boundaries of a concatenation. *)
LEMMA EndsOfConcat ==
  ASSUME NEW s \in Text, NEW t \in Text
  PROVE  /\ s \o t \in Text /\ Len(s \o t) = Len(s) + Len(t)
         /\ \A n \in 0..Len(s) : Ends(s \o t)[n] = Ends(s)[n]
         /\ \A n \in 0..Len(t) : Ends(s \o t)[Len(s) + n] = Bytes(s) + Ends(t)[n]
<1>. DEFINE u == s \o t
<1>1. /\ u \in Text /\ Len(u) = Len(s) + Len(t)
      /\ \A i \in 1..Len(s) + Len(t) : u[i] = IF i <= Len(s) THEN s[i] ELSE t[i - Len(s)]
  BY ConcatProperties DEF Text
<1>. HIDE DEF u
<1>2. Len(s) \in Nat /\ Len(t) \in Nat
  BY EndsStep
<1>3. ASSUME NEW n \in 0..Len(s) PROVE Ends(u)[n] = Ends(s)[n]
  <2>. DEFINE S == {k \in 0..Len(s) : Ends(u)[k] = Ends(s)[k]}
  <2>1. 0 \in S
    BY <1>1, <1>2, EndsStep
  <2>2. ASSUME NEW k \in 0..Len(s), k \in S, k < Len(s) PROVE k + 1 \in S
    <3>1. k + 1 \in 1..Len(s) /\ k + 1 \in 1..Len(u) /\ (k + 1) - 1 = k /\ k + 1 \in 0..Len(s)
      BY <1>1, <1>2, <2>2
    <3>2. Ends(u)[k + 1] = Ends(u)[k] + u[k + 1] /\ Ends(s)[k + 1] = Ends(s)[k] + s[k + 1]
      BY <1>1, <3>1, EndsStep
    <3>3. u[k + 1] = s[k + 1]
      BY <1>1, <1>2, <3>1
    <3>. QED
      BY <2>2, <3>1, <3>2, <3>3
  <2>3. \A k \in 0..Len(s) : k \in S
    <3>. HIDE DEF S
    <3>. QED
      BY <1>2, <2>1, <2>2, SetInduction
  <2>. QED
    BY <2>3
<1>4. ASSUME NEW n \in 0..Len(t) PROVE Ends(u)[Len(s) + n] = Bytes(s) + Ends(t)[n]
  <2>. DEFINE S == {k \in 0..Len(t) : Ends(u)[Len(s) + k] = Bytes(s) + Ends(t)[k]}
  <2>0. Bytes(s) \in Nat /\ Bytes(s) = Ends(s)[Len(s)]
    BY <1>2, EndsStep DEF Bytes
  <2>1. 0 \in S
    <3>1. Ends(u)[Len(s)] = Ends(s)[Len(s)]
      BY <1>2, <1>3
    <3>2. Ends(t)[0] = 0 /\ Len(s) + 0 = Len(s) /\ Bytes(s) + 0 = Bytes(s) /\ 0 \in 0..Len(t)
      BY <1>2, <2>0, EndsStep
    <3>. QED
      BY <2>0, <3>1, <3>2
  <2>2. ASSUME NEW k \in 0..Len(t), k \in S, k < Len(t) PROVE k + 1 \in S
    <3>1. /\ k + 1 \in 1..Len(t) /\ (k + 1) - 1 = k /\ k + 1 \in 0..Len(t)
          /\ Len(s) + (k + 1) \in 1..Len(u) /\ (Len(s) + (k + 1)) - 1 = Len(s) + k
      BY <1>1, <1>2, <2>2
    <3>2. /\ Ends(u)[Len(s) + (k + 1)] = Ends(u)[Len(s) + k] + u[Len(s) + (k + 1)]
          /\ Ends(t)[k + 1] = Ends(t)[k] + t[k + 1]
      BY <1>1, <3>1, EndsStep
    <3>3. u[Len(s) + (k + 1)] = t[k + 1]
      BY <1>1, <1>2, <3>1
    <3>4. Ends(t)[k] \in Nat /\ t[k + 1] \in Nat
      BY <3>1, EndsStep
    <3>. QED
      BY <2>0, <2>2, <3>1, <3>2, <3>3, <3>4
  <2>3. \A k \in 0..Len(t) : k \in S
    <3>. HIDE DEF S
    <3>. QED
      BY <1>2, <2>1, <2>2, SetInduction
  <2>. QED
    BY <2>3
<1>. QED
  BY <1>1, <1>3, <1>4 DEF u

(* A longer prefix has more bytes. *)
LEMMA EndsGrow ==
  ASSUME NEW text \in Text, NEW m \in 0..Len(text), NEW n \in 0..Len(text), m <= n
  PROVE  Ends(text)[m] <= Ends(text)[n]
<1>. DEFINE S == {k \in 0..Len(text) : m <= k => Ends(text)[m] <= Ends(text)[k]}
<1>1. Len(text) \in Nat /\ \A k \in 0..Len(text) : Ends(text)[k] \in Nat
  BY EndsStep
<1>2. 0 \in S
  <2>1. m <= 0 => m = 0
    BY <1>1
  <2>2. 0 \in 0..Len(text)
    BY <1>1
  <2>. QED
    BY <1>1, <2>1, <2>2
<1>3. ASSUME NEW k \in 0..Len(text), k \in S, k < Len(text) PROVE k + 1 \in S
  <2>1. k + 1 \in 1..Len(text) /\ (k + 1) - 1 = k /\ k + 1 \in 0..Len(text)
    BY <1>1, <1>3
  <2>2. Ends(text)[k + 1] = Ends(text)[k] + text[k + 1] /\ text[k + 1] \in Nat
    <3>1. /\ \A i \in 1..Len(text) : Ends(text)[i] = Ends(text)[i - 1] + text[i]
          /\ \A i \in 1..Len(text) : text[i] \in 1..4
      BY EndsStep
    <3>2. Ends(text)[k + 1] = Ends(text)[(k + 1) - 1] + text[k + 1] /\ text[k + 1] \in 1..4
      BY <2>1, <3>1
    <3>. QED
      BY <2>1, <3>2
  <2>3. m <= k + 1 => m <= k \/ m = k + 1
    BY <1>1
  <2>4. Ends(text)[m] \in Nat /\ Ends(text)[k] \in Nat /\ Ends(text)[k + 1] \in Nat
    BY <1>1, <2>1
  <2>. QED
    BY <1>3, <2>1, <2>2, <2>3, <2>4
<1>4. \A k \in 0..Len(text) : k \in S
  <2>. HIDE DEF S
  <2>. QED
    BY <1>1, <1>2, <1>3, SetInduction
<1>. QED
  BY <1>4

(* Where a text is cut. *)
Cut(text, room) == Max({n \in 0..Len(text) : Ends(text)[n] <= room})

LEMMA CutIsLast ==
  ASSUME NEW text \in Text, NEW room \in Nat
  PROVE  /\ Cut(text, room) \in 0..Len(text)
         /\ Ends(text)[Cut(text, room)] <= room
         /\ \A n \in 0..Len(text) : Ends(text)[n] <= room <=> n <= Cut(text, room)
         /\ Fitting(text, room) = SubSeq(text, 1, Cut(text, room))
<1>. DEFINE S == {n \in 0..Len(text) : Ends(text)[n] <= room}
<1>1. Len(text) \in Nat /\ 0 \in S /\ S \in SUBSET (0..Len(text))
  BY EndsStep
<1>2. Max(S) \in S /\ \A n \in S : Max(S) >= n
  <2>. HIDE DEF S
  <2>. QED
    BY <1>1, MaxIsGreatest
<1>3. Cut(text, room) = Max(S)
  BY DEF Cut
<1>4. ASSUME NEW n \in 0..Len(text), n <= Cut(text, room) PROVE Ends(text)[n] <= room
  <2>1. Ends(text)[n] <= Ends(text)[Max(S)]
    BY <1>2, <1>3, <1>4, EndsGrow
  <2>2. Ends(text)[n] \in Nat /\ Ends(text)[Max(S)] \in Nat /\ Ends(text)[Max(S)] <= room
    BY <1>2, EndsStep
  <2>. QED
    BY <2>1, <2>2
<1>5. ASSUME NEW n \in 0..Len(text), Ends(text)[n] <= room PROVE n <= Cut(text, room)
  BY <1>1, <1>2, <1>3, <1>5
<1>. QED
  BY <1>2, <1>3, <1>4, <1>5 DEF Fitting, Cut

(* A cut is determined by what it divides. *)
LEMMA CutIs ==
  ASSUME NEW text \in Text, NEW room \in Nat, NEW k \in 0..Len(text),
         Ends(text)[k] <= room, k < Len(text) => Ends(text)[k + 1] > room
  PROVE  Cut(text, room) = k
<1>. DEFINE c == Cut(text, room)
<1>1. c \in 0..Len(text) /\ k <= c /\ Len(text) \in Nat
  BY CutIsLast, EndsStep
<1>2. ASSUME k < c PROVE FALSE
  <2>1. k + 1 \in 0..Len(text) /\ k + 1 <= c /\ k < Len(text)
    BY <1>1, <1>2
  <2>2. Ends(text)[k + 1] <= room
    BY <2>1, CutIsLast
  <2>3. Ends(text)[k + 1] \in Nat
    BY <2>1, EndsStep
  <2>. QED
    BY <2>1, <2>2, <2>3
<1>. QED
  BY <1>1, <1>2

(* What fits whole is kept whole. *)
LEMMA WholeFits ==
  ASSUME NEW text \in Text, NEW room \in Nat, Bytes(text) <= room
  PROVE  Fitting(text, room) = text
<1>1. Len(text) \in 0..Len(text)
  BY EndsStep
<1>2. Cut(text, room) = Len(text)
  BY <1>1, CutIs DEF Bytes
<1>. QED
  BY <1>2, CutIsLast, SubSeqFull DEF Text

(* Nothing behind a cut matters. *)
LEMMA CutBefore ==
  ASSUME NEW s \in Text, NEW t \in Text, NEW room \in Nat, Bytes(s) > room
  PROVE  Fitting(s \o t, room) = Fitting(s, room)
<1>. DEFINE c == Cut(s, room)
<1>1. c \in 0..Len(s) /\ c # Len(s) /\ Len(s) \in Nat /\ Len(t) \in Nat
  <2>1. Len(s) \in Nat /\ Len(s) \in 0..Len(s) /\ Len(t) \in Nat
    BY EndsStep
  <2>2. c \in 0..Len(s) /\ Ends(s)[c] <= room
    BY CutIsLast
  <2>3. Bytes(s) = Ends(s)[Len(s)] /\ Bytes(s) \in Nat
    BY <2>1, EndsStep DEF Bytes
  <2>4. c # Len(s)
    <3>. HIDE DEF c
    <3>. QED
      BY <2>2, <2>3
  <2>. QED
    BY <2>1, <2>2, <2>4
<1>2. c + 1 \in 0..Len(s) /\ ~(Ends(s)[c + 1] <= room) /\ Ends(s)[c + 1] \in Nat
  <2>1. c + 1 \in 0..Len(s) /\ ~(c + 1 <= c)
    BY <1>1
  <2>. QED
    BY <2>1, CutIsLast, EndsStep
<1>3. Cut(s \o t, room) = c
  <2>1. s \o t \in Text /\ Len(s \o t) = Len(s) + Len(t)
    BY EndsOfConcat
  <2>2. Ends(s \o t)[c] <= room /\ Ends(s \o t)[c + 1] > room
    <3>1. Ends(s \o t)[c] = Ends(s)[c] /\ Ends(s \o t)[c + 1] = Ends(s)[c + 1]
      BY <1>1, <1>2, EndsOfConcat
    <3>2. Ends(s)[c] <= room
      BY <1>1, CutIsLast
    <3>. QED
      BY <1>2, <3>1, <3>2
  <2>3. c \in 0..Len(s \o t)
    BY <1>1, <2>1
  <2>. HIDE DEF c
  <2>. QED
    BY <2>1, <2>2, <2>3, CutIs
<1>4. SubSeq(s \o t, 1, c) = SubSeq(s, 1, c)
  <2>1. CASE c = 0
    BY <2>1, SubSeqEmpty
  <2>2. CASE c # 0
    <3>1. c \in 1..Len(s) /\ 1 \in 1..Len(s)
      BY <1>1, <2>2
    <3>. HIDE DEF c
    <3>. QED
      BY <3>1, SubSeqOfConcat1 DEF Text
  <2>. QED
    BY <2>1, <2>2
<1>5. Fitting(s \o t, room) = SubSeq(s \o t, 1, Cut(s \o t, room)) /\ Fitting(s, room) = SubSeq(s, 1, c)
  <2>1. s \o t \in Text
    BY EndsOfConcat
  <2>. QED
    BY <2>1, CutIsLast
<1>. HIDE DEF c
<1>. QED
  BY <1>3, <1>4, <1>5

(* A cut behind what fits is a cut of the rest. *)
LEMMA CutBehind ==
  ASSUME NEW s \in Text, NEW t \in Text, NEW room \in Nat, Bytes(s) <= room
  PROVE  Fitting(s \o t, room) = s \o Fitting(t, room - Bytes(s))
<1>. DEFINE rest == room - Bytes(s)
            c == Cut(t, rest)
<1>1. /\ Len(s) \in Nat /\ Len(t) \in Nat /\ Bytes(s) \in Nat /\ rest \in Nat
      /\ c \in 0..Len(t)
  <2>1. Len(s) \in Nat /\ Len(t) \in Nat /\ Len(s) \in 0..Len(s)
    BY EndsStep
  <2>2. Bytes(s) \in Nat
    BY <2>1, EndsStep DEF Bytes
  <2>3. rest \in Nat
    BY <2>2
  <2>. HIDE DEF rest
  <2>. QED
    BY <2>1, <2>2, <2>3, CutIsLast
<1>2. s \o t \in Text /\ Len(s \o t) = Len(s) + Len(t)
  BY EndsOfConcat
<1>3. Cut(s \o t, room) = Len(s) + c
  <2>1. Ends(s \o t)[Len(s) + c] <= room
    <3>1. Ends(s \o t)[Len(s) + c] = Bytes(s) + Ends(t)[c] /\ Ends(t)[c] \in Nat
      BY <1>1, EndsOfConcat, EndsStep
    <3>2. Ends(t)[c] <= rest
      <4>. HIDE DEF rest
      <4>. QED
        BY <1>1, CutIsLast
    <3>. QED
      BY <1>1, <3>1, <3>2
  <2>2. ASSUME Len(s) + c < Len(s \o t) PROVE Ends(s \o t)[(Len(s) + c) + 1] > room
    <3>1. c + 1 \in 0..Len(t) /\ ~(c + 1 <= c) /\ (Len(s) + c) + 1 = Len(s) + (c + 1)
      BY <1>1, <1>2, <2>2
    <3>2. Ends(s \o t)[Len(s) + (c + 1)] = Bytes(s) + Ends(t)[c + 1] /\ Ends(t)[c + 1] \in Nat
      BY <3>1, EndsOfConcat, EndsStep
    <3>3. ~(Ends(t)[c + 1] <= rest)
      <4>. HIDE DEF rest
      <4>. QED
        BY <1>1, <3>1, CutIsLast
    <3>. HIDE DEF c
    <3>. QED
      BY <1>1, <3>1, <3>2, <3>3
  <2>3. Len(s) + c \in 0..Len(s \o t)
    BY <1>1, <1>2
  <2>. HIDE DEF c
  <2>. QED
    BY <1>2, <2>1, <2>2, <2>3, CutIs
<1>4. SubSeq(s \o t, 1, Len(s) + c) = s \o SubSeq(t, 1, c)
  <2>. DEFINE u == SubSeq(s \o t, 1, Len(s) + c)
              v == s \o SubSeq(t, 1, c)
  <2>. HIDE DEF c, rest
  <2>1. /\ u \in Text /\ Len(u) = Len(s) + c
        /\ \A i \in 1..Len(s) + c : u[i] = (s \o t)[i]
    <3>1. \A i \in 1..Len(s) + c : (s \o t)[i] \in 1..4
      BY <1>1, <1>2, EndsStep
    <3>2. /\ SubSeq(s \o t, 1, Len(s) + c) \in Text
          /\ Len(SubSeq(s \o t, 1, Len(s) + c)) = IF 1 <= Len(s) + c THEN (Len(s) + c) - 1 + 1 ELSE 0
          /\ \A i \in 1..(Len(s) + c) - 1 + 1 : SubSeq(s \o t, 1, Len(s) + c)[i] = (s \o t)[1 + i - 1]
      BY <1>1, <3>1, SubSeqProperties DEF Text
    <3>. QED
      BY <1>1, <3>2
  <2>2. /\ SubSeq(t, 1, c) \in Text /\ Len(SubSeq(t, 1, c)) = c
        /\ \A i \in 1..c : SubSeq(t, 1, c)[i] = t[i]
    <3>1. \A i \in 1..c : t[i] \in 1..4
      BY <1>1, EndsStep
    <3>2. /\ SubSeq(t, 1, c) \in Text
          /\ Len(SubSeq(t, 1, c)) = IF 1 <= c THEN c - 1 + 1 ELSE 0
          /\ \A i \in 1..c - 1 + 1 : SubSeq(t, 1, c)[i] = t[1 + i - 1]
      BY <1>1, <3>1, SubSeqProperties DEF Text
    <3>. QED
      BY <1>1, <3>2
  <2>3. /\ v \in Text /\ Len(v) = Len(s) + c
        /\ \A i \in 1..Len(s) + c : v[i] = IF i <= Len(s) THEN s[i] ELSE SubSeq(t, 1, c)[i - Len(s)]
    <3>. DEFINE w == SubSeq(t, 1, c)
    <3>. HIDE DEF w
    <3>. QED
      BY <2>2, ConcatProperties DEF Text, w
  <2>4. \A i \in 1..Len(s) + Len(t) : (s \o t)[i] = IF i <= Len(s) THEN s[i] ELSE t[i - Len(s)]
    BY ConcatProperties DEF Text
  <2>5. ASSUME NEW i \in 1..Len(s) + c PROVE u[i] = v[i]
    <3>1. i \in 1..Len(s) + Len(t)
      BY <1>1
    <3>2. CASE i <= Len(s)
      BY <2>1, <2>3, <2>4, <3>1, <3>2
    <3>3. CASE ~(i <= Len(s))
      <4>1. i - Len(s) \in 1..c
        BY <1>1, <3>3
      <4>. QED
        BY <2>1, <2>2, <2>3, <2>4, <3>1, <3>3, <4>1
    <3>. QED
      BY <3>2, <3>3
  <2>. HIDE DEF u, v
  <2>6. u = v
    BY <2>1, <2>3, <2>5, SeqEqual DEF Text
  <2>. QED
    BY <2>6 DEF u, v
<1>. HIDE DEF rest
<1>5. Fitting(s \o t, room) = SubSeq(s \o t, 1, Cut(s \o t, room)) /\ Fitting(t, rest) = SubSeq(t, 1, c)
  BY <1>1, <1>2, CutIsLast
<1>. QED
  BY <1>3, <1>4, <1>5 DEF rest

(* What is kept fits. *)
LEMMA FittingFits ==
  ASSUME NEW text \in Text, NEW room \in Nat
  PROVE  Fitting(text, room) \in Text /\ Bytes(Fitting(text, room)) <= room
<1>. DEFINE c == Cut(text, room)
            u == SubSeq(text, 1, c)
            v == SubSeq(text, c + 1, Len(text))
<1>1. Len(text) \in Nat /\ c \in 0..Len(text) /\ Ends(text)[c] <= room /\ Fitting(text, room) = u
  BY EndsStep, CutIsLast
<1>. HIDE DEF c
<1>2. u \in Text /\ Len(u) = c
  <2>1. \A i \in 1..c : text[i] \in 1..4
    BY <1>1, EndsStep
  <2>2. SubSeq(text, 1, c) \in Text /\ Len(SubSeq(text, 1, c)) = IF 1 <= c THEN c - 1 + 1 ELSE 0
    BY <1>1, <2>1, SubSeqProperties DEF Text
  <2>. QED
    BY <1>1, <2>2
<1>3. v \in Text
  <2>1. \A i \in c + 1..Len(text) : text[i] \in 1..4
    BY <1>1, EndsStep
  <2>2. c + 1 \in Int /\ Len(text) \in Int
    BY <1>1
  <2>. QED
    BY <2>1, <2>2, SubSeqProperties DEF Text
<1>4. u \o v = text
  <2>1. 1 \in 1..Len(text) + 1 /\ c \in (1 - 1)..Len(text) /\ Len(text) \in c..Len(text)
    BY <1>1
  <2>2. u \o v = SubSeq(text, 1, Len(text))
    BY <2>1, ConcatAdjacentSubSeq DEF Text
  <2>. QED
    BY <2>2, SubSeqFull DEF Text
<1>. HIDE DEF u, v
<1>5. Ends(text)[c] = Ends(u)[c]
  <2>1. c \in 0..Len(u)
    BY <1>1, <1>2
  <2>2. Ends(u \o v)[c] = Ends(u)[c]
    BY <1>2, <1>3, <2>1, EndsOfConcat
  <2>. QED
    BY <1>4, <2>2
<1>. QED
  BY <1>1, <1>2, <1>5 DEF Bytes

(* One print. *)
LEMMA WriteKeeps ==
  ASSUME NEW all \in Text, NEW text \in Text, NEW output,
         output.text = Fitting(all, Cap), output.truncated = (Bytes(all) > Cap)
  PROVE  /\ write(output, text).text = Fitting(all \o text, Cap)
         /\ write(output, text).truncated = (Bytes(all \o text) > Cap)
<1>. USE CapAssumption
<1>1. /\ Bytes(all) \in Nat /\ Bytes(text) \in Nat
      /\ Bytes(all \o text) = Bytes(all) + Bytes(text)
  <2>1. Len(all) \in 0..Len(all) /\ Len(text) \in 0..Len(text)
    BY EndsStep
  <2>2. Bytes(all) \in Nat /\ Bytes(text) \in Nat
    BY <2>1, EndsStep DEF Bytes
  <2>3. Ends(all \o text)[Len(all) + Len(text)] = Bytes(all) + Ends(text)[Len(text)]
    BY <2>1, EndsOfConcat
  <2>4. Len(all \o text) = Len(all) + Len(text)
    BY EndsOfConcat
  <2>5. Bytes(all \o text) = Bytes(all) + Bytes(text)
    BY <2>3, <2>4 DEF Bytes
  <2>. QED
    BY <2>2, <2>5
<1>2. CASE Bytes(all) > Cap
  <2>1. write(output, text) = output
    BY <1>2 DEF write
  <2>. QED
    BY <1>1, <1>2, <2>1, CutBefore
<1>3. CASE ~(Bytes(all) > Cap)
  <2>1. Bytes(all) <= Cap
    BY <1>1, <1>3
  <2>2. output.text = all /\ ~output.truncated
    <3>1. Fitting(all, Cap) = all
      BY <2>1, WholeFits
    <3>2. ~output.truncated
      BY <1>3, Zenon
    <3>. QED
      BY <3>1, <3>2
  <2>3. /\ write(output, text).text = all \o Fitting(text, Cap - Bytes(all))
        /\ write(output, text).truncated = (Bytes(text) > Cap - Bytes(all))
    BY <2>2 DEF write
  <2>4. Fitting(all \o text, Cap) = all \o Fitting(text, Cap - Bytes(all))
    BY <2>1, CutBehind
  <2>5. (Bytes(text) > Cap - Bytes(all)) = (Bytes(all \o text) > Cap)
    BY <1>1
  <2>. QED
    BY <2>3, <2>4, <2>5
<1>. QED
  BY <1>2, <1>3

(* Every print, however the output is cut into them. *)
LEMMA CapturedIsFitting ==
  ASSUME NEW prints \in Seq(Text)
  PROVE  /\ Captured(prints).text = Fitting(Everything(prints), Cap)
         /\ Captured(prints).truncated = (Bytes(Everything(prints)) > Cap)
<1>1. PICK after :
        /\ after[0] = Fresh
        /\ \A n \in 1..Len(prints) : after[n] = write(after[n - 1], prints[n])
        /\ Captured(prints) = after[Len(prints)]
  BY FoldOf
<1>2. PICK all :
        /\ all[0] = <<>>
        /\ \A n \in 1..Len(prints) : all[n] = all[n - 1] \o prints[n]
        /\ \A n \in 0..Len(prints) : all[n] \in Text
        /\ Everything(prints) = all[Len(prints)]
  BY FlattenOf
<1>. DEFINE Right(n) == /\ after[n].text = Fitting(all[n], Cap)
                        /\ after[n].truncated = (Bytes(all[n]) > Cap)
            S == {n \in 0..Len(prints) : Right(n)}
<1>0. Len(prints) \in Nat /\ \A n \in 1..Len(prints) : prints[n] \in Text
  OBVIOUS
<1>3. 0 \in S
  <2>1. <<>> \in Text /\ Len(<<>>) = 0
    BY DEF Text
  <2>2. Bytes(<<>>) = 0
    BY <2>1, EndsStep DEF Bytes
  <2>3. Fitting(<<>>, Cap) = <<>>
    BY <2>1, <2>2, WholeFits, CapAssumption
  <2>4. Right(0)
    <3>1. ~(0 > Cap)
      BY CapAssumption
    <3>2. (0 > Cap) = FALSE
      BY <3>1
    <3>3. Fresh.text = <<>> /\ Fresh.truncated = FALSE
      BY DEF Fresh
    <3>. QED
      BY <1>1, <1>2, <2>2, <2>3, <3>2, <3>3, Zenon
  <2>. HIDE DEF Right
  <2>. QED
    BY <1>0, <2>4
<1>4. ASSUME NEW n \in 0..Len(prints), n \in S, n < Len(prints) PROVE n + 1 \in S
  <2>1. n + 1 \in 1..Len(prints) /\ n + 1 \in 0..Len(prints) /\ (n + 1) - 1 = n
    BY <1>0, <1>4
  <2>2. after[n + 1] = write(after[n], prints[n + 1]) /\ all[n + 1] = all[n] \o prints[n + 1]
    BY <1>1, <1>2, <2>1
  <2>3. all[n] \in Text /\ prints[n + 1] \in Text /\ Right(n)
    BY <1>0, <1>2, <1>4, <2>1
  <2>4. Right(n + 1)
    BY <2>2, <2>3, WriteKeeps
  <2>. HIDE DEF Right
  <2>. QED
    BY <2>1, <2>4
<1>5. \A n \in 0..Len(prints) : n \in S
  <2>. HIDE DEF S
  <2>. QED
    BY <1>0, <1>3, <1>4, SetInduction
<1>6. Right(Len(prints))
  BY <1>0, <1>5
<1>. QED
  BY <1>1, <1>2, <1>6

(* A sink never holds more than OUTPUT_CAP, whatever was printed into it: the *)
(* room CappedOutput::write subtracts its length from is never negative.      *)
THEOREM SinkIsCapped ==
  ASSUME NEW prints \in Seq(Text)
  PROVE  Captured(prints).text \in Text /\ Cap - Bytes(Captured(prints).text) \in Nat
<1>1. Everything(prints) \in Text
  <2>1. PICK all :
          /\ \A n \in 0..Len(prints) : all[n] \in Text
          /\ Everything(prints) = all[Len(prints)]
    BY FlattenOf
  <2>2. Len(prints) \in 0..Len(prints)
    OBVIOUS
  <2>. QED
    BY <2>1, <2>2
<1>. DEFINE t == Captured(prints).text
<1>2. t \in Text /\ Bytes(t) <= Cap
  BY <1>1, CapturedIsFitting, FittingFits, CapAssumption
<1>. HIDE DEF t
<1>3. Bytes(t) \in Nat
  <2>1. Len(t) \in 0..Len(t)
    BY <1>2, EndsStep
  <2>. QED
    BY <1>2, <2>1, EndsStep DEF Bytes
<1>4. Cap - Bytes(t) \in Nat
  BY <1>2, <1>3, CapAssumption
<1>. QED
  BY <1>2, <1>4 DEF t

(* What is kept of any run's output is its longest prefix of whole characters *)
(* within OUTPUT_CAP, truncated if and only if there was more, wherever the   *)
(* run cuts it into prints (CappedOutput::write).                             *)
THEOREM CapturedIsAPrefixCorrect == Spec => []CapturedIsAPrefix
<1>1. TypeOK => CapturedIsAPrefix
  <2>. SUFFICES ASSUME TypeOK
       PROVE  CapturedIsAPrefix
    OBVIOUS
  <2>1. printed \in Seq(Text)
    <3>1. printed \in Printed \/ printed = <<>>
      BY DEF TypeOK
    <3>2. Printed \subseteq Seq(Text)
      BY ServerAssumption
    <3>3. <<>> \in Seq(Text)
      OBVIOUS
    <3>. HIDE DEF Text
    <3>. QED
      BY <3>1, <3>2, <3>3
  <2>. QED
    BY <2>1, CapturedIsFitting DEF CapturedIsAPrefix
<1> QED  BY <1>1, ServerTypesHold, PTL

-----------------------------------------------------------------------------
(* Sources and stores are opened only for files inside the allowed root whose *)
(* project is too, and data only under its grant, by the server's thread and  *)
(* by those of runs left behind (confinement_check, set_allowed_root).        *)
THEOREM ReachIsBoundedCorrect == Spec => []ReachIsBounded
<1>1. ServerInv => ReachIsBounded
  BY DEF ServerInv
<1> QED  BY <1>1, ServerInvHolds, PTL

(* The reply to a mw_run is the result of that run (run_within_budget),       *)
(* whatever earlier runs left behind send later.                              *)
THEOREM RunRepliesToItsCallCorrect == Spec => []RunRepliesToItsCall
<1>1. ServerInv => RunRepliesToItsCall
  BY DEF ServerInv
<1> QED  BY <1>1, ServerInvHolds, PTL

(* Every commit of a granted write has its record, or its reply said there is *)
(* none, or a kill came between the two, and a record with both stamps tells  *)
(* whether the store moved (execute, append_write_audit).                     *)
THEOREM WritesAreAccountedForCorrect == Spec => []WritesAreAccountedFor
<1>1. LedgerInv => WritesAreAccountedFor
  BY DEF LedgerInv
<1> QED  BY <1>1, LedgerInvHolds, PTL

-----------------------------------------------------------------------------
(* A call as ToolCall has it *)

(* A step that keeps a call where it is, or is of a call that has no project. *)
LEMMA SameTool ==
  ASSUME \/ Loading /\ Loading' /\ UNCHANGED call
         \/ Using /\ Using' /\ UNCHANGED <<call, project>>
         \/ ~Loading /\ ~Using /\ ~Loading' /\ ~Using'
  PROVE  UNCHANGED Tool!vars
BY DEF Tool!vars, Loading, Using

(* The steps that take one up, load its project, or end it.                   *)
LEMMA ToolMoves ==
  ASSUME \/ ~Loading /\ ~Using /\ Loading' /\ call'.file \in Files
         \/ Loading /\ Using' /\ UNCHANGED call /\ project' \in Under[call.file]
         \/ (Loading \/ Using) /\ ~Loading' /\ ~Using'
  PROVE  Tool!Next
BY DEF Tool!Next, Tool!Ask, Tool!Load, Tool!End, Loading, Using

LEMMA ServerToolStep ==
  ASSUME ServerInv, [Next]_vars
  PROVE  [Tool!Next]_(Tool!vars)
<1>. USE DEF Loading, Using
<1>1. ASSUME NEW c \in Calls, serve(c)
      PROVE  [Tool!Next]_(Tool!vars)
  <2>1. phase = "idle" /\ phase' = "call" /\ call' = c /\ UNCHANGED policy /\ c \in Call
    BY <1>1, ServerAssumption DEF serve
  <2>2. ASSUME Admit(call)' = "load"
        PROVE  call'.file \in Files
    BY <2>1, <2>2 DEF Admit, Call
  <2>. QED
    BY <2>1, <2>2, SameTool, ToolMoves
<1>2. CASE with_loaded_project
  <2>1. /\ Loading /\ UNCHANGED call
        /\ \/ phase' = "tool" /\ project' \in Under[call.file]
           \/ phase' = "idle"
    BY <1>2 DEF with_loaded_project, Answer
  <2>. QED
    BY <2>1, ToolMoves
<1>3. CASE Refused \/ check_snippet \/ spawn \/ run_within_budget
  <2>1. phase \in {"call", "wait"} /\ ~Loading /\ phase' \in {"idle", "wait"}
    BY <1>3 DEF Refused, check_snippet, spawn, run_within_budget, Answer, AnswerRun
  <2>. QED
    BY <2>1, SameTool
<1>4. CASE Facts \/ surface_read \/ saved_roots \/ data_children \/ data_read \/ append_write_audit
  <2>1. Using /\ phase' = "idle"
    BY <1>4 DEF Facts, surface_read, saved_roots, data_children, data_read, Reads,
       append_write_audit, Answer
  <2>. QED
    BY <2>1, ToolMoves
<1>5. CASE open_session \/ execute
  <2>1. Using /\ (phase' = "idle" \/ (Using' /\ UNCHANGED <<call, project>>))
    BY <1>5 DEF open_session, execute, Answer, request
  <2>. QED
    BY <2>1, SameTool, ToolMoves
<1>6. CASE Killed \/ \E allow_data, allow_write \in BOOLEAN : main(allow_data, allow_write)
  <2>1. phase' \in {"off", "idle"}
    BY <1>6 DEF Killed, main
  <2>. QED
    BY <2>1, SameTool, ToolMoves
<1>7. CASE UNCHANGED <<phase, policy, call, project>>
  <2>1. Loading' <=> Loading
    BY <1>7 DEF Admit, Granted, confinement_check
  <2>. QED
    BY <1>7, <2>1, SameTool
<1>8. ASSUME NEW r \in Runs, RunStep(r)
       PROVE  UNCHANGED <<phase, policy, call, project>>
  BY <1>8 DEF RunStep, set_allowed_root, load_project_for_run, run_ends, run_is_gone, Step, request
<1>9. CASE \E kind \in {"result", "invalid", "unknown_method"} : handle(kind)
  BY <1>9, SameTool DEF handle
<1>10. CASE UNCHANGED vars
  BY <1>7, <1>10 DEF vars, request
<1>. QED
  BY <1>1, <1>2, <1>3, <1>4, <1>5, <1>6, <1>7, <1>8, <1>9, <1>10
  DEF Next, RunStep, Serving, surface_write

(* The one step in which the server loads a project is one of ToolCall, as    *)
(* the steps of ProjectCache are, and the tool keeps the project it found to  *)
(* the end of a write (with_loaded_project, surface_write).                   *)
THEOREM ServesAsToolCallCorrect == Spec => ServesAsToolCall
<1>1. Init => Tool!Init
  BY DEF Init, Loading, Using, Tool!Init
<1>2. ServerInv /\ [Next]_vars => [Tool!Next]_(Tool!vars)
  BY ServerToolStep
<1>. QED
  BY <1>1, <1>2, ServerInvHolds, PTL DEF Spec, ServesAsToolCall, Tool!Spec

-----------------------------------------------------------------------------
(* Every request is answered.  A call goes through at most four phases, and  *)
(* each is left by the server thread itself.                                 *)

Asked == phase = "call"
InTool == phase = "tool"
InExecute == phase = "execute"
InRecord == phase = "record"
InWait == phase = "wait"
Answered == phase \in {"idle", "off"}

(* A call the server can do nothing with was not let in: a run has a thread  *)
(* to run in, and a tool of the server thread is no run.                     *)
Provided ==
  /\ phase = "call" /\ call.tool = "run" => \E r \in Runs : thread[r].phase = "free"
  /\ phase = "tool" => call.tool # "run"

LEMMA ProvidedStep ==
  ASSUME ServerInv, Provided, [Next]_vars
  PROVE  Provided'
<1>. USE DEF Provided
<1>1. CASE phase' \notin {"call", "tool"}
  BY <1>1
<1>2. ASSUME NEW c \in Calls, serve(c)
      PROVE  Provided'
  BY <1>2 DEF serve
<1>3. CASE with_loaded_project
  BY <1>3 DEF with_loaded_project, Admit, Answer
<1>4. ASSUME NEW r \in Runs, RunStep(r)
      PROVE  Provided'
  <2>1. UNCHANGED <<phase, call>>
    BY <1>4 DEF RunStep, set_allowed_root, load_project_for_run, run_ends, run_is_gone, Step, request
  <2>2. ASSUME NEW q \in Runs, thread[q].phase = "free"
        PROVE  thread'[q].phase = "free"
    <3>1. \/ thread[r].phase # "free" /\ \E next : thread' = [thread EXCEPT ![r] = next]
      BY <1>4 DEF RunStep, set_allowed_root, load_project_for_run, run_ends, run_is_gone, Step
    <3>. QED
      BY <2>2, <3>1 DEF ServerInv, Typed
  <2>. QED
    BY <2>1, <2>2
<1>5. CASE \E kind \in {"result", "invalid", "unknown_method"} : handle(kind)
  BY <1>5 DEF handle
<1>6. CASE UNCHANGED vars
  BY <1>6 DEF vars, request
<1>7. CASE Serving /\ ~with_loaded_project
  BY <1>1, <1>7 DEF Serving, Refused, check_snippet, Facts, surface_read, saved_roots,
     data_children, data_read, Reads, surface_write, open_session, execute, append_write_audit,
     spawn, run_within_budget, Answer, AnswerRun
<1>8. CASE Killed \/ \E allow_data, allow_write \in BOOLEAN : main(allow_data, allow_write)
  BY <1>1, <1>8 DEF Killed, main
<1>. QED
  BY <1>2, <1>3, <1>4, <1>5, <1>6, <1>7, <1>8 DEF Next, RunStep

(* So whenever a request is at hand the server thread has what it needs.     *)
LEMMA CanServeHolds == Spec => [](~Answered => CanServe)
<1>1. Init => Provided
  BY DEF Init, Provided
<1>2. ServerInv /\ Provided /\ [Next]_vars => Provided'
  BY ProvidedStep
<1>3. TypeOK /\ ServerInv /\ Provided => (~Answered => CanServe)
  <2>. SUFFICES ASSUME TypeOK, ServerInv, Provided, ~Answered
       PROVE  CanServe
    OBVIOUS
  <2>1. phase \in {"call", "tool", "execute", "record", "wait"}
    BY DEF TypeOK, Answered
  <2>2. call.tool \in Tools
    BY DEF ServerInv, Typed, Call
  <2>3. Admit(call) = "spawn" => call.tool = "run"
    BY AdmittedCalls
  <2>. QED
    BY <2>1, <2>2, <2>3 DEF Provided, CanServe
<1>. QED
  BY <1>1, <1>2, <1>3, ServerInvHolds, ServerTypesHold, PTL DEF Spec

(* What the threads of mw_run and the rest of the world do not change.       *)
LEMMA OnlyServing ==
  ASSUME [Next]_vars, ~Answered
  PROVE  phase' = phase \/ phase' = "off" \/ Serving
<1>1. \A r \in Runs : RunStep(r) => phase' = phase
  BY DEF RunStep, set_allowed_root, load_project_for_run, run_ends, run_is_gone, Step
<1>. QED
  BY <1>1 DEF Next, RunStep, serve, handle, main, Killed, vars, Answered

(* Where the server thread goes from each phase.                             *)
LEMMA ServingLeads ==
  ASSUME Serving
  PROVE  /\ Asked => InTool' \/ InWait' \/ Answered'
         /\ InTool => InExecute' \/ Answered'
         /\ InExecute => InRecord'
         /\ InRecord \/ InWait => Answered'
BY DEF Serving, Refused, check_snippet, with_loaded_project, Facts, surface_read, saved_roots,
   data_children, data_read, Reads, surface_write, open_session, execute, append_write_audit,
   spawn, run_within_budget, Answer, AnswerRun, Asked, InTool, InExecute, InRecord, InWait, Answered

(* Every request is answered or ended by the end of the process, whatever    *)
(* its evaluation does (run_within_budget, append_write_audit).  The server  *)
(* thread always has what it needs for a step; that it then is enabled to    *)
(* take one is the premise.                                                  *)
THEOREM RequestsAreAnsweredCorrect == FairSpec /\ []CanServeIsEnabled => RequestsAreAnswered
<1>1. Asked /\ [Next]_vars => Asked' \/ InTool' \/ InWait' \/ Answered'
  BY OnlyServing, ServingLeads DEF Asked, Answered
<1>2. InTool /\ [Next]_vars => InTool' \/ InExecute' \/ Answered'
  BY OnlyServing, ServingLeads DEF InTool, Answered
<1>3. InExecute /\ [Next]_vars => InExecute' \/ InRecord' \/ Answered'
  BY OnlyServing, ServingLeads DEF InExecute, Answered
<1>4. InRecord /\ [Next]_vars => InRecord' \/ Answered'
  BY OnlyServing, ServingLeads DEF InRecord, Answered
<1>5. InWait /\ [Next]_vars => InWait' \/ Answered'
  BY OnlyServing, ServingLeads DEF InWait, Answered
<1>6. <<Serving>>_vars =>
        /\ Asked => InTool' \/ InWait' \/ Answered'
        /\ InTool => InExecute' \/ Answered'
        /\ InExecute => InRecord'
        /\ InRecord \/ InWait => Answered'
  BY ServingLeads
<1>7. Asked \/ InTool \/ InExecute \/ InRecord \/ InWait => ~Answered
  BY DEF Asked, InTool, InExecute, InRecord, InWait, Answered
<1>8. FairSpec /\ []CanServeIsEnabled => [](~Answered => ENABLED <<Serving>>_vars)
  <2>1. CanServeIsEnabled /\ (~Answered => CanServe) => (~Answered => ENABLED <<Serving>>_vars)
    BY DEF CanServeIsEnabled
  <2>. QED
    BY <2>1, CanServeHolds, PTL DEF FairSpec
<1>9. Asked <=> phase = "call"
  BY DEF Asked
<1>10. Answered <=> phase \in {"idle", "off"}
  BY DEF Answered
<1>. QED
  BY <1>1, <1>2, <1>3, <1>4, <1>5, <1>6, <1>7, <1>8, <1>9, <1>10, PTL
  DEF FairSpec, Spec, RequestsAreAnswered
=============================================================================
