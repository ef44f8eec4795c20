----------------------------- MODULE LspBackend -----------------------------
(***************************************************************************)
(* How marrow-lsp keeps the editor's diagnostics and facts current         *)
(* (crates/marrow-lsp/src/backend.rs, marrow-lsp-core/src/workspace.rs).   *)
(*                                                                         *)
(* NOTIFICATION HANDLERS (did_open, did_change, did_close and              *)
(* did_change_watched_files) run one at a time: each holds the             *)
(* `diagnostics_publish` lock to its end.  Each one that matters schedules *)
(* a RECOMPUTE TASK, which sleeps, captures the buffers, prepares the      *)
(* analysis, analyses with no lock held, commits the snapshot and          *)
(* publishes its diagnostics.  Tasks run on other threads; `analysis_run`  *)
(* lets one at a time past its capture.  A handler never waits for the     *)
(* `analysis` lock: when a task holds it, a watcher notice leaves bits in  *)
(* `pending_workspace_invalidation` for the next task to apply.            *)
(*                                                                         *)
(* Abstractions.  A text is its revision and whether it has problems; the  *)
(* problems of a file are those of its own text.  Roots are disjoint and a *)
(* file is under one root for good.  Lock and store files are watched the  *)
(* way a source file is, and left out.  Read requests change nothing here. *)
(* Handlers and readers share one thread, so the `analysis` lock is busy   *)
(* for a handler only because of a task.                                   *)
(***************************************************************************)
EXTENDS Integers, Sequences

CONSTANTS
  Roots,        \* project directories
  Files,        \* .mw files, by path or URL
  Home,         \* the root each file is under
  TestFiles,    \* the files that are test modules
  Edited,       \* files the client opens, edits, saves and closes
  Watched,      \* files that change on disk behind the editor's back
  Configs,      \* roots whose marrow.json changes
  Failures,     \* whether preparing or analysing may fail
  MaxChanges,   \* bound: client and disk events in all
  None          \* no root

ASSUME ConstantsAssumption ==
  /\ Home \in [Files -> Roots]
  /\ TestFiles \subseteq Files /\ Edited \subseteq Files /\ Watched \subseteq Files
  /\ Configs \subseteq Roots
  /\ Failures \in BOOLEAN
  /\ MaxChanges \in Nat
  /\ None \notin Roots

-----------------------------------------------------------------------------
(* Data *)

(* A text of a file; "gone" when there is none. *)
Text == [rev : Nat, kind : {"good", "bad", "gone"}]
Gone == [rev |-> 0, kind |-> "gone"]
Exists(text) == text.kind # "gone"

Problems(text) == IF text.kind = "bad" THEN text.rev ELSE 0

Config == {"valid", "broken", "absent"}

(* A changed path, a source file or a marrow.json, as the watcher reports it. *)
Path == [file : Files] \cup [config : Roots]
Notice == [path : Path, deleted : BOOLEAN]
File(f) == [file |-> f]
ConfigOf(r) == [config |-> r]
IsConfig(n) == "config" \in DOMAIN n.path
RootOf(n) == IF IsConfig(n) THEN n.path.config ELSE Home[n.path.file]

Bits == SUBSET {"analysis", "project"}

(* An analysed project: the text of every file it covers. *)
Snapshot == [root : Roots \cup {None}, texts : [Files -> Text]]
NoSnapshot == [root |-> None, texts |-> [f \in Files |-> Gone]]

(* A recompute task.  `stamp` is the epoch of its root when the root was   *)
(* known as it was scheduled, else its place in the edit sequence.         *)
Task == [root : Roots, known : BOOLEAN, stamp : Nat, scope : {"Interactive", "Full"},
         phase : {"debounce", "capture", "queued", "analyze", "commit", "publish"},
         generation : Nat, buffers : [Files -> Text],
         invalidation_epoch : Nat, source_only : BOOLEAN, texts : [Files -> Text]]

NewTask(root, known, stamp, scope) ==
  [root |-> root, known |-> known, stamp |-> stamp, scope |-> scope, phase |-> "debounce",
   generation |-> 0, buffers |-> NoSnapshot.texts,
   invalidation_epoch |-> 0, source_only |-> FALSE, texts |-> NoSnapshot.texts]

(* The notification handler that holds the publish lock, if any. *)
Handler ==
  [kind : {"none"}] \cup [kind : {"open", "change", "close"}, file : Files]
    \cup [kind : {"watch"}, batch : SUBSET Notice]
Idle == [kind |-> "none"]

-----------------------------------------------------------------------------
VARIABLES
  disk,              \* the text of every file on disk
  config,            \* marrow.json of every root, on disk
  notices,           \* changed paths the watcher has yet to report, oldest first
  changes,           \* client and disk events so far, the source of revisions
  shown,             \* per file, the text whose problems the editor shows (0: none)
  buffer,            \* Documents: the text of every open buffer
  generation,        \* Documents::generation
  project,           \* Workspace::project
  latest,            \* Workspace::latest
  latest_generation, \* Workspace::latest_documents_generation (-1: None)
  invalidation_epoch,\* Workspace::invalidation_epoch
  pending,           \* pending_workspace_invalidation
  tracked,           \* DiagnosticsTracker: the roots it has an entry for
  epoch,             \* RootDiagnostics::epoch
  non_empty,         \* RootDiagnostics::non_empty_urls, of all roots
  edit_seq,          \* edits whose root was not known
  handler,           \* the notification being handled
  tasks              \* recompute tasks spawned and not finished

client == <<disk, config, notices, changes>>
documents == <<buffer, generation>>
workspace == <<project, latest, latest_generation, invalidation_epoch>>
tracker == <<tracked, epoch, non_empty>>
vars == <<client, shown, documents, workspace, pending, tracker, edit_seq, handler, tasks>>

Open(f) == Exists(buffer[f])

(* What an analysis reads for f: the buffer, else the disk. *)
overlay(buffers, f) == IF Exists(buffers[f]) THEN buffers[f] ELSE disk[f]

FilesOf(r) == {f \in Files : Home[f] = r}

InRun(t) == t.phase \in {"analyze", "commit", "publish"}

(* A committed task keeps the `analysis` lock until it has published. *)
AnalysisFree == \A t \in tasks : t.phase # "publish"
AnalysisBusy == \E t \in tasks : t.phase = "queued" \/ InRun(t)

Init ==
  /\ disk \in [Files -> {[rev |-> 1, kind |-> k] : k \in {"good", "bad"}}]
  /\ config = [r \in Roots |-> "valid"]
  /\ notices = <<>> /\ changes = 1
  /\ shown = [f \in Files |-> 0]
  /\ buffer = [f \in Files |-> Gone] /\ generation = 0
  /\ project = None /\ latest = NoSnapshot /\ latest_generation = -1
  /\ invalidation_epoch = 0 /\ pending = {}
  /\ tracked = {} /\ epoch = [r \in Roots |-> 0] /\ non_empty = {}
  /\ edit_seq = 0 /\ handler = Idle /\ tasks = {}

-----------------------------------------------------------------------------
(* The disk *)

Event == changes < MaxChanges /\ changes' = changes + 1

ChangeFile(f, kind) ==
  /\ Event /\ ~Open(f)
  /\ Exists(disk[f]) \/ kind # "gone"
  /\ disk' = [disk EXCEPT ![f] = [rev |-> changes', kind |-> kind]]
  /\ notices' = Append(notices, [path |-> File(f), deleted |-> kind = "gone"])
  /\ UNCHANGED <<config, shown, documents, workspace, pending, tracker, edit_seq, handler, tasks>>

SaveFile(f) ==
  /\ Event /\ Open(f) /\ disk[f] # buffer[f]
  /\ disk' = [disk EXCEPT ![f] = buffer[f]]
  /\ notices' = Append(notices, [path |-> File(f), deleted |-> FALSE])
  /\ UNCHANGED <<config, shown, documents, workspace, pending, tracker, edit_seq, handler, tasks>>

ChangeConfig(r, c) ==
  /\ Event
  /\ config[r] # "absent" \/ c # "absent"
  /\ config' = [config EXCEPT ![r] = c]
  /\ notices' = Append(notices, [path |-> ConfigOf(r), deleted |-> c = "absent"])
  /\ UNCHANGED <<disk, shown, documents, workspace, pending, tracker, edit_seq, handler, tasks>>

-----------------------------------------------------------------------------
(* did_open, did_change and did_close first update the documents ...       *)

(* Mutant: an edit keeps the generation. *)
Mut_Update(f, kind, text) ==
  /\ handler = Idle /\ handler' = [kind |-> kind, file |-> f]
  /\ buffer' = [buffer EXCEPT ![f] = text]
  /\ UNCHANGED <<disk, config, notices, shown, generation, workspace, pending, tracker, edit_seq, tasks>>

Update(f, kind, text) ==
  /\ handler = Idle /\ handler' = [kind |-> kind, file |-> f]
  /\ buffer' = [buffer EXCEPT ![f] = text]
  /\ generation' = generation + 1
  /\ UNCHANGED <<disk, config, notices, shown, workspace, pending, tracker, edit_seq, tasks>>

did_open(f) == Event /\ ~Open(f) /\ Exists(disk[f]) /\ Update(f, "open", disk[f])

did_change(f, kind) ==
  Event /\ Open(f) /\ kind # "gone" /\ Update(f, "change", [rev |-> changes', kind |-> kind])

did_close(f) == Event /\ Open(f) /\ Update(f, "close", Gone)

(* ... and then look for the root: the resolved project's when the         *)
(* `analysis` lock is free, else one the tracker knows.                    *)
known_root(r, free) == (free /\ project = r) \/ r \in tracked

Mut_bump_root_epochs(roots) ==
  /\ tracked' = tracked \cup roots
  /\ epoch' = [r \in Roots |-> IF r \in roots THEN epoch[r] - 1 ELSE epoch[r]]

bump_root_epochs(roots) ==
  /\ tracked' = tracked \cup roots
  /\ epoch' = [r \in Roots |-> IF r \in roots THEN epoch[r] + 1 ELSE epoch[r]]

(* Mutant: a run of the root under way is trusted to do the work. *)
Mut_schedule_recompute(r, known, scope) ==
  /\ edit_seq' = IF known THEN edit_seq ELSE edit_seq + 1
  /\ tasks' = IF \E u \in tasks : u.root = r /\ InRun(u) THEN tasks
              ELSE tasks \cup {NewTask(r, known, IF known THEN epoch'[r] ELSE edit_seq', scope)}

schedule_recompute(r, known, scope) ==
  /\ edit_seq' = IF known THEN edit_seq ELSE edit_seq + 1
  /\ tasks' = tasks \cup {NewTask(r, known, IF known THEN epoch'[r] ELSE edit_seq', scope)}

ScheduleEdit(free) ==
  /\ handler.kind \in {"open", "change", "close"}
  /\ IF free THEN AnalysisFree ELSE AnalysisBusy
  /\ LET f == handler.file
         r == Home[f]
         known == known_root(r, free)
         closing == handler.kind = "close"
     IN /\ bump_root_epochs(IF known THEN {r} ELSE {})
        /\ non_empty' = IF closing /\ known THEN non_empty \ {f} ELSE non_empty
        /\ shown' = IF closing THEN [shown EXCEPT ![f] = 0] ELSE shown
        /\ schedule_recompute(r, known, IF handler.kind = "change" THEN "Interactive" ELSE "Full")
  /\ handler' = Idle
  /\ UNCHANGED <<client, documents, workspace, pending>>

-----------------------------------------------------------------------------
(* did_change_watched_files *)

CountBits(bits) == IF bits = {} THEN 0 ELSE 1

(* Apply two sets of invalidation bits, one after the other. *)
invalidate(first, second) ==
  LET bits == first \cup second
  IN /\ project' = IF "project" \in bits THEN None ELSE project
     /\ latest' = IF bits = {} THEN latest ELSE NoSnapshot
     /\ latest_generation' = IF bits = {} THEN latest_generation ELSE -1
     /\ invalidation_epoch' = invalidation_epoch + CountBits(first) + CountBits(second)

(* The first n waiting notices, as one batch that names no path twice. *)
Batch(n) == {notices[i] : i \in 1..n}
TakeBatch(n) ==
  /\ handler = Idle
  /\ \A i, j \in 1..n : notices[i].path = notices[j].path => i = j
  /\ notices' = SubSeq(notices, n + 1, Len(notices))

ChangesIn(batch, r) == {n \in batch : RootOf(n) = r}
DeletesConfig(batch, r) == [path |-> ConfigOf(r), deleted |-> TRUE] \in batch

invalidation_bits(batch) ==
  {IF IsConfig(n) THEN "project" ELSE "analysis" : n \in batch}

(* A deleted marrow.json clears its root, a deleted file its own problems  *)
(* unless a buffer stands for it; every other change schedules a recompute *)
(* of its root, and after a deleted marrow.json only when `drain`.         *)
watched_root_effects(batch, roots, drain) ==
  LET cleared == {f \in non_empty : Home[f] \in roots /\
                    (\/ DeletesConfig(batch, Home[f])
                     \/ [path |-> File(f), deleted |-> TRUE] \in batch /\ ~Open(f))}
  IN /\ bump_root_epochs(roots)
     /\ non_empty' = non_empty \ cleared
     /\ shown' = [f \in Files |-> IF f \in cleared THEN 0 ELSE shown[f]]
     /\ tasks' = tasks \cup {NewTask(r, TRUE, epoch'[r], "Full") :
                               r \in {s \in roots : drain \/ ~DeletesConfig(batch, s)}}

(* With the `analysis` lock: the resolved project and the tracked roots    *)
(* take notice, and only the resolved project is invalidated.              *)
WatchFree(n) ==
  /\ AnalysisFree /\ TakeBatch(n)
  /\ LET batch == Batch(n)
         resolved == IF "project" \in pending THEN None ELSE project
         roots == {r \in Roots : (r = resolved \/ r \in tracked) /\ ChangesIn(batch, r) # {}}
         own == invalidation_bits({c \in batch : RootOf(c) = resolved})
     IN /\ invalidate(pending, IF resolved \in roots THEN own ELSE {})
        /\ watched_root_effects(batch, roots, FALSE)
  /\ pending' = {}
  /\ UNCHANGED <<disk, config, changes, documents, edit_seq, handler>>

(* Without it: first the bits that need no tracker ... *)
busy_watched_pre_invalidation_bits(batch) ==
  invalidation_bits({n \in batch : IsConfig(n) \/ config[RootOf(n)] # "absent"})

WatchBusy(n) ==
  /\ AnalysisBusy /\ TakeBatch(n)
  /\ pending' = pending \cup busy_watched_pre_invalidation_bits(Batch(n))
  /\ handler' = [kind |-> "watch", batch |-> Batch(n)]
  /\ UNCHANGED <<disk, config, changes, shown, documents, workspace, tracker, edit_seq, tasks>>

(* ... then the tracked roots and the roots found on disk take notice. *)
WatchEffects ==
  /\ handler.kind = "watch"
  /\ LET batch == handler.batch
         Noticed(n) == RootOf(n) \in tracked \/ IsConfig(n) \/ config[RootOf(n)] # "absent"
         noticed == {n \in batch : Noticed(n)}
     IN /\ pending' = pending \cup invalidation_bits(noticed)
        /\ watched_root_effects(noticed, {RootOf(n) : n \in noticed}, TRUE)
  /\ handler' = Idle
  /\ UNCHANGED <<client, documents, workspace, edit_seq>>

-----------------------------------------------------------------------------
(* Recompute tasks *)

Becomes(t, next) == tasks' = (tasks \ {t}) \cup {next}
Ends(t) == tasks' = tasks \ {t}

Mut_stale(t) == epoch[t.root] # t.stamp

stale(t) == IF t.known THEN epoch[t.root] # t.stamp ELSE edit_seq # t.stamp

(* The debounce is over: a task a newer one supersedes ends here. *)
Elapse(t) ==
  /\ t.phase = "debounce"
  /\ IF stale(t) THEN Ends(t) ELSE Becomes(t, [t EXCEPT !.phase = "capture"])
  /\ UNCHANGED <<client, shown, documents, workspace, pending, tracker, edit_seq, handler>>

Capture(t) ==
  /\ t.phase = "capture"
  /\ Becomes(t, [t EXCEPT !.phase = "queued", !.generation = generation, !.buffers = buffer])
  /\ UNCHANGED <<client, shown, documents, workspace, pending, tracker, edit_seq, handler>>

(* prepare_recompute: keep the project when the file is under it, else     *)
(* resolve the file's own; a file with no readable project ends the task.  *)
any_open_test_module(r, buffers) == \E f \in TestFiles : Home[f] = r /\ Exists(buffers[f])

Prepare(t) ==
  /\ t.phase = "queued" /\ \A u \in tasks : ~InRun(u)
  /\ LET kept == "project" \notin pending /\ project = t.root
         resolved == kept \/ config[t.root] = "valid"
         prepared == [t EXCEPT
           !.phase = "analyze", !.invalidation_epoch = invalidation_epoch',
           !.source_only = t.scope = "Interactive" /\ ~any_open_test_module(t.root, t.buffers)]
     IN /\ project' = IF resolved THEN t.root
                      ELSE IF "project" \in pending THEN None ELSE project
        /\ latest' = IF pending = {} THEN latest ELSE NoSnapshot
        /\ latest_generation' = IF pending = {} THEN latest_generation ELSE -1
        /\ invalidation_epoch' = invalidation_epoch + CountBits(pending)
        /\ \/ resolved /\ Becomes(t, prepared)
           \/ (resolved => Failures) /\ Ends(t)
  /\ pending' = {}
  /\ UNCHANGED <<client, shown, documents, tracker, edit_seq, handler>>

(* The check runs off the lock and reads the disk under the captured       *)
(* buffers; a source-only run leaves the test modules out.                 *)
analyze(t) ==
  [f \in Files |-> IF Home[f] # t.root \/ (t.source_only /\ f \in TestFiles)
                   THEN Gone
                   ELSE LET text == overlay(t.buffers, f)
                        IN IF Exists(text) THEN text ELSE Gone]

Analyze(t) ==
  /\ t.phase = "analyze"
  /\ \/ Becomes(t, [t EXCEPT !.phase = "commit", !.texts = analyze(t),
                             !.buffers = NoSnapshot.texts])
     \/ Failures /\ Ends(t)
  /\ UNCHANGED <<client, shown, documents, workspace, pending, tracker, edit_seq, handler>>

Mut_Committable(t) == project # None /\ latest_generation <= t.generation

(* commit_recompute, unless an invalidation came meanwhile. *)
Committable(t) ==
  /\ invalidation_epoch = t.invalidation_epoch
  /\ project # None
  /\ latest_generation <= t.generation

Commit(t) ==
  /\ t.phase = "commit"
  /\ IF pending = {} /\ Committable(t)
     THEN /\ latest' = [root |-> t.root, texts |-> t.texts]
          /\ latest_generation' = t.generation
          /\ UNCHANGED <<project, invalidation_epoch>>
          /\ Becomes(t, [t EXCEPT !.phase = "publish"])
     ELSE invalidate(pending, {}) /\ Ends(t)
  /\ pending' = {}
  /\ UNCHANGED <<client, shown, documents, tracker, edit_seq, handler>>

Mut_Publishable_buffers(t) == pending = {} /\ (t.known => ~stale(t))
Mut_Publishable_pending(t) == generation = t.generation /\ (t.known => ~stale(t))
Mut_Publishable_root(t) == pending = {} /\ generation = t.generation /\ t.known /\ ~stale(t)

(* Publish: nothing, when an invalidation is pending, the buffers have     *)
(* changed since the capture or a newer task of the root is scheduled.     *)
Publishable(t) ==
  /\ pending = {}
  /\ generation = t.generation
  /\ t.known => ~stale(t)

Mut_covers(t, f) == Home[f] = t.root /\ t.texts[f].kind = "bad"
covers(t, f) == Home[f] = t.root /\ (t.source_only => Exists(t.texts[f]))

reconcile_success(t) ==
  LET bad == {f \in Files : t.texts[f].kind = "bad"}
      checked == {f \in non_empty : covers(t, f)}
      reported == bad \cup checked \cup {f \in FilesOf(t.root) : Open(f)}
  IN /\ tracked' = tracked \cup {t.root}
     /\ non_empty' = (non_empty \ checked) \cup bad
     /\ shown' = [f \in Files |-> IF f \in reported THEN Problems(t.texts[f]) ELSE shown[f]]
     /\ UNCHANGED epoch

Publish(t) ==
  /\ t.phase = "publish" /\ handler = Idle
  /\ IF Publishable(t) THEN reconcile_success(t) ELSE UNCHANGED <<tracker, shown>>
  /\ invalidate(pending, {})
  /\ pending' = {}
  /\ Ends(t)
  /\ UNCHANGED <<client, documents, edit_seq, handler>>

-----------------------------------------------------------------------------
ClientNext ==
  \/ \E f \in Watched, k \in {"good", "bad", "gone"} : ChangeFile(f, k)
  \/ \E f \in Edited : SaveFile(f) \/ did_open(f) \/ did_close(f)
  \/ \E f \in Edited, k \in {"good", "bad"} : did_change(f, k)
  \/ \E r \in Configs, c \in Config : ChangeConfig(r, c)

HandlerNext ==
  \/ \E free \in BOOLEAN : ScheduleEdit(free)
  \/ \E n \in 1..Len(notices) : WatchFree(n) \/ WatchBusy(n)
  \/ WatchEffects

TaskNext(t) ==
  Elapse(t) \/ Capture(t) \/ Prepare(t) \/ Analyze(t) \/ Commit(t) \/ Publish(t)

ServerNext == HandlerNext \/ \E t \in tasks : TaskNext(t)

Next == ClientNext \/ ServerNext

Spec == Init /\ [][Next]_vars

-----------------------------------------------------------------------------
(* Properties *)

TypeOK ==
  /\ disk \in [Files -> Text] /\ config \in [Roots -> Config]
  /\ notices \in Seq(Notice) /\ changes \in Nat /\ shown \in [Files -> Nat]
  /\ buffer \in [Files -> Text] /\ generation \in Nat
  /\ project \in Roots \cup {None} /\ latest \in Snapshot
  /\ latest_generation \in Nat \cup {-1} /\ invalidation_epoch \in Nat
  /\ pending \in Bits
  /\ tracked \subseteq Roots /\ epoch \in [Roots -> Nat] /\ non_empty \subseteq Files
  /\ edit_seq \in Nat /\ handler \in Handler /\ tasks \subseteq Task

(* A notice of the path that no handler has finished with. *)
Unreported(path) ==
  \/ \E i \in DOMAIN notices : notices[i].path = path
  \/ handler.kind = "watch" /\ \E n \in handler.batch : n.path = path

(* The text an up-to-date analysis has for f. *)
Current(f) == overlay(buffer, f)

(* The problems put on show are those of the buffer, or of the text on disk *)
(* unless its change, or that of its root's marrow.json, has yet to be      *)
(* reported: no late run ever shows others.                                 *)
PublishedIsCurrent ==
  [][\A f \in Files : shown'[f] # shown[f] /\ shown'[f] # 0 =>
       \/ shown'[f] = Problems(Current(f))
       \/ ~Open(f) /\ (Unreported(File(f)) \/ Unreported(ConfigOf(Home[f])))]_vars

(* What an analysis found in a file is what one would find now, but for     *)
(* changes, of a closed file or of its root's marrow.json, still to be      *)
(* reported; a run may leave out a test module.                             *)
UpToDate(texts, f) ==
  \/ texts[f] = Current(f)
  \/ ~Exists(texts[f]) /\ (f \in TestFiles \/ ~Exists(Current(f)))
  \/ ~Open(f) /\ (Unreported(File(f)) \/ Unreported(ConfigOf(Home[f])))

(* Facts served as fresh are up to date.                                    *)
FreshFactsAreCurrent ==
  latest.root # None /\ latest_generation = generation /\ pending = {} =>
    \A f \in FilesOf(latest.root) : UpToDate(latest.texts, f)

(* The tracker knows every file with problems on show: those and no others *)
(* are cleared when they are resolved, deleted or lose their project.      *)
TrackedIsShown ==
  /\ non_empty = {f \in Files : shown[f] # 0}
  /\ \A f \in non_empty : Home[f] \in tracked

(* Once the deletion of a marrow.json is handled nothing of its root is on *)
(* show, whatever runs were under way.                                     *)
DeletedConfigStaysClear ==
  \A f \in Files : config[Home[f]] = "absent" /\ ~Unreported(ConfigOf(Home[f])) => shown[f] = 0

(* When all work is done, the problems of every source file of an open     *)
(* project are on show, edited or not, if its marrow.json never changed.   *)
Settled == tasks = {} /\ handler = Idle /\ notices = <<>>
OpenRoots == {r \in Roots : config[r] = "valid" /\ \E f \in FilesOf(r) : Open(f)}

SettledShowsProblems ==
  Settled => \A f \in Files \ TestFiles :
               Home[f] \in OpenRoots => shown[f] = Problems(Current(f))

(* A run whose result is thrown away leaves the work to another one of its *)
(* root, scheduled or about to be, or a newer one has overtaken it.        *)
DroppedRunIsRetried ==
  [][\A t \in tasks \ tasks' :
       t.phase = "commit" \/ (t.phase = "publish" /\ ~Publishable(t)) =>
         \/ \E u \in tasks' : u.root = t.root
         \/ latest_generation > t.generation \/ (t.known /\ stale(t))
         \/ handler.kind = "watch" /\ ChangesIn(handler.batch, t.root) # {}
         \/ handler.kind \in {"open", "change", "close"} /\ Home[handler.file] = t.root
         \/ config[t.root] # "valid"]_vars

(* The editor comes to show the problems of every edit of a source file,   *)
(* unless a later edit or a close comes first.                             *)
EditsArePublished ==
  \A f \in Edited \ TestFiles :
    Open(f) /\ shown[f] # Problems(buffer[f]) ~> ~Open(f) \/ shown[f] = Problems(buffer[f])

(* workspace.rs: "An open, close, config or watcher change, or an explicit *)
(* recompute: always a full check including test modules": when all work   *)
(* is done, the problems of a test module of an open project are on show.  *)
FullChecksCoverTests ==
  Settled => \A f \in TestFiles : Home[f] \in OpenRoots => shown[f] = Problems(Current(f))

=============================================================================
