------------------------------ MODULE LspReads ------------------------------
(***************************************************************************)
(* What marrow-lsp answers the editor from while its analyses come and go: *)
(* the read requests of crates/marrow-lsp/src/backend.rs, composed with    *)
(* the notifications and recompute tasks of LspBackend, and the last-good  *)
(* fallback of marrow-lsp-core/src/workspace.rs.                           *)
(*                                                                         *)
(* A request captures its document and the generation of all of them in    *)
(* one step.  Those that then test whether a newer edit has superseded     *)
(* them may be overtaken by one in between; the test and the read are one  *)
(* step, for a handler cannot run there.  The others capture and read at   *)
(* once.  No read waits for the `analysis` lock or recomputes anything.    *)
(*                                                                         *)
(* Abstractions.  One request is in flight at a time: reads change nothing *)
(* that another handler looks at.  Which request it is shows only when it  *)
(* is answered.  A text with problems is one that does not parse.  An      *)
(* answer is the analysis it is drawn from and, for a read that may use an *)
(* older one, the text its position is of; answers drawn from no analysis  *)
(* (nothing, the content-modified error, the outline or format of the      *)
(* buffer) are not told apart.                                             *)
(***************************************************************************)
EXTENDS LspBackend

(* A request for no file is no request. *)
ASSUME NoneAssumption == None \notin Files

VARIABLES
  last_good, \* Workspace::last_good, its snapshot
  request,   \* the request in flight: what it captured
  answer     \* the answer, in the state in which it is sent

readVars == <<vars, last_good, request, answer>>

NoRequest == [file |-> None, text |-> Gone, generation |-> 0]

NoAnswer == [file |-> None, cursor |-> Gone, source |-> NoSnapshot]
AnswerFrom(source) == [NoAnswer EXCEPT !.source = source]
CursorAnswer(req, source) ==
  IF source = NoSnapshot THEN NoAnswer
  ELSE [file |-> req.file, cursor |-> req.text, source |-> source]

-----------------------------------------------------------------------------
(* The retained analyses *)

snapshot_contains_file(s, f) == Exists(s.texts[f])

snapshot_is_good(s) ==
  /\ \E f \in Files : snapshot_contains_file(s, f)
  /\ \A f \in Files : s.texts[f].kind # "bad"

demote_latest_to_last_good == IF snapshot_is_good(latest) THEN latest ELSE last_good

(* What a step of LspBackend leaves in last_good: a commit keeps none when  *)
(* its own snapshot is good, else the outgoing one if that was good; an     *)
(* invalidation of the project drops it, any other demotes the latest.      *)
retain_last_good ==
  last_good' =
    IF \E t \in tasks' \ tasks : t.phase = "publish"
    THEN IF snapshot_is_good(latest') THEN NoSnapshot ELSE demote_latest_to_last_good
    ELSE IF invalidation_epoch' = invalidation_epoch THEN last_good
    ELSE IF "project" \in pending \/ project' = None THEN NoSnapshot
    ELSE demote_latest_to_last_good

(* NoSnapshot when neither has the file. *)
choose_read_source(f) ==
  IF snapshot_is_good(latest) /\ snapshot_contains_file(latest, f) THEN latest
  ELSE IF snapshot_contains_file(last_good, f) THEN last_good
  ELSE NoSnapshot

latest_matches_snapshot(gen) == latest.root # None /\ latest_generation = gen

fresh_latest_from_snapshot(gen) == IF latest_matches_snapshot(gen) THEN latest ELSE NoSnapshot

-----------------------------------------------------------------------------
(* Requests *)

snapshot_document_and_analysis(f) == [file |-> f, text |-> buffer[f], generation |-> generation]

Receive(f) ==
  /\ request = NoRequest /\ Open(f)
  /\ request' = snapshot_document_and_analysis(f)
  /\ answer' = NoAnswer
  /\ UNCHANGED <<vars, last_good>>

(* A plausible bug: a request an edit has overtaken is answered all the same. *)
Mut_request_superseded(req) == FALSE

request_superseded(req) == generation # req.generation

(* try_lock, which fails only because of a task. *)
TryLock(free) == IF free THEN AnalysisFree ELSE AnalysisBusy
Readable(free) == free /\ pending = {}

Reply(a) == answer' = a /\ UNCHANGED <<vars, last_good>>

(* The end of a request that tests whether it is superseded. *)
Finish(a) ==
  /\ request # NoRequest /\ request' = NoRequest
  /\ Reply(IF request_superseded(request) THEN NoAnswer ELSE a)

(* What hover, the navigation requests and the renames have in common: the  *)
(* best source there is, be it of an older text.                            *)
read_facts(free) ==
  IF Readable(free) THEN CursorAnswer(request, choose_read_source(request.file)) ELSE NoAnswer

hover(free) == TryLock(free) /\ Finish(read_facts(free))

(* goto_definition and references. *)
navigation(free) == TryLock(free) /\ Finish(read_facts(free))

(* prepare_rename and rename. *)
rename(free) == TryLock(free) /\ Finish(read_facts(free))

(* The requests that have no use for older facts. *)
fresh_facts(gen, free) ==
  IF Readable(free) THEN AnswerFrom(fresh_latest_from_snapshot(gen)) ELSE NoAnswer

(* Without facts, the context-only modes are left: keywords and builtins. *)
completion(free) == TryLock(free) /\ Finish(fresh_facts(request.generation, free))

signature_help(free) == TryLock(free) /\ Finish(fresh_facts(request.generation, free))

(* The rest capture and read in one step. *)
AtOnce == request = NoRequest /\ UNCHANGED request

symbol(free) == AtOnce /\ TryLock(free) /\ Reply(fresh_facts(generation, free))

snapshot_has_document_text(f) == latest.texts[f] = buffer[f]

(* Binding facts when the analysis is of this very text, else the lexical   *)
(* classification.                                                          *)
compute_semantic_tokens(f, free) ==
  IF snapshot_has_document_text(f) THEN fresh_facts(generation, free) ELSE NoAnswer

(* And its delta; the streams kept for deltas are left out. *)
semantic_tokens_full(f, free) ==
  AtOnce /\ Open(f) /\ TryLock(free) /\ Reply(compute_semantic_tokens(f, free))

(* These read the buffer only. *)
document_symbol(f) == AtOnce /\ Open(f) /\ Reply(NoAnswer)

(* And on_type_formatting. *)
formatting(f) == AtOnce /\ Open(f) /\ Reply(NoAnswer)

-----------------------------------------------------------------------------
ReadInit == Init /\ last_good = NoSnapshot /\ request = NoRequest /\ answer = NoAnswer

Beside == retain_last_good /\ UNCHANGED request /\ answer' = NoAnswer

ReadNext ==
  \/ \E f \in Edited : Receive(f) \/ document_symbol(f) \/ formatting(f)
  \/ \E free \in BOOLEAN :
       \/ hover(free) \/ navigation(free) \/ rename(free)
       \/ completion(free) \/ signature_help(free) \/ symbol(free)
       \/ \E f \in Edited : semantic_tokens_full(f, free)

ServerStep == ServerNext /\ Beside

LspNext == (ClientNext /\ Beside) \/ ServerStep \/ ReadNext

(* The runtime polls every handler and task that can go on, and the client  *)
(* delivers the watcher's notices; a request need never be answered.        *)
LspFairSpec == ReadInit /\ [][LspNext]_readVars /\ WF_readVars(ServerStep)

-----------------------------------------------------------------------------
(* Properties *)

(* A task of the root is on its way, or the handler that is to schedule it. *)
RecomputeInFlight(r) ==
  \/ \E t \in tasks : t.root = r
  \/ handler.kind \in {"open", "change", "close"} /\ Home[handler.file] = r
  \/ handler.kind = "watch" /\ ChangesIn(handler.batch, r) # {}

(* The latest analysis is of the text on show, which does not parse. *)
FallsBack(f) == latest.texts[f] = buffer[f] /\ ~snapshot_is_good(latest)

(* The position of a request is always looked up on behalf of the text now  *)
(* in the editor, and what it is looked up in is of that text too, unless a *)
(* recompute is in flight for it or it does not parse (ReadSource); the     *)
(* requests that have no use for older facts never get them, of any open    *)
(* file.                                                                    *)
StaleFactsAreBeingReplaced ==
  answer.source # NoSnapshot =>
    IF answer.file # None
    THEN /\ answer.cursor = buffer[answer.file]
         /\ \/ answer.source.texts[answer.file] = answer.cursor
            \/ RecomputeInFlight(Home[answer.file]) \/ FallsBack(answer.file)
    ELSE \A f \in FilesOf(answer.source.root) :
           Open(f) => answer.source.texts[f] = buffer[f]
=============================================================================
