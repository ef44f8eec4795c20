--------------------------- MODULE LspReads_proofs ---------------------------
(* That no work is lost, in a workspace of one readable project: at every  *)
(* moment either nothing has ever been opened, or a task or a handler is   *)
(* on its way that will bring the editor up to date, or the editor is up   *)
(* to date.  With two projects, or with analyses that fail, none of this   *)
(* holds (runs backend_dropped and backend_facts).                         *)
EXTENDS LspReads, LspBackend_safety

(* One project, whose marrow.json stays as it is, and checks that run.     *)
OneProject ==
  /\ \A r, s \in Roots : r = s
  /\ Configs = {} /\ ~Failures

(* The marrow.json of every project is valid, and was never touched.       *)
ConfigsAreKept ==
  /\ "project" \notin pending
  /\ \A r \in Roots : config[r] = "valid" /\ ~Unreported(ConfigOf(r))

(* A run that is about to publish has just been committed.                 *)
PublishesLatest ==
  \A t \in tasks : t.phase = "publish" =>
    latest.root = t.root /\ latest_generation = t.generation

(* A watcher's batch reports something.                                    *)
BatchesReport == handler.kind = "watch" => handler.batch # {}

(* Problems of a file that is gone are about to be cleared.                *)
GoneIsClear ==
  \A f \in Files : ~Exists(Current(f)) /\ ~Unreported(File(f)) =>
    shown[f] = 0 \/ handler = [kind |-> "close", file |-> f]

(* A task that nothing has overtaken.                                      *)
Live(t) ==
  /\ IF t.phase = "debounce" THEN ~stale(t) ELSE t.known => ~stale(t)
  /\ t.phase \notin {"debounce", "capture"} => t.generation = generation
  /\ InRun(t) => ~Doomed(t)

HandlerWorks(r) ==
  \/ handler.kind \in {"open", "change", "close"} /\ Home[handler.file] = r
  \/ handler.kind = "watch" /\ ChangesIn(handler.batch, r) # {}

Working(r) == HandlerWorks(r) \/ \E t \in tasks : t.root = r /\ Live(t)

(* Nothing has ever been opened.                                           *)
Asleep ==
  /\ generation = 0 /\ tasks = {} /\ handler = Idle
  /\ tracked = {} /\ project = None /\ pending = {}
  /\ \A f \in Files : ~Open(f)

(* The analysis is of the current buffers and what the editor shows is     *)
(* what it should; the runs still under way will not replace either.       *)
CaughtUp(r) ==
  /\ r \in tracked /\ pending = {}
  /\ latest.root = r /\ latest_generation = generation
  /\ \A f \in FilesOf(r) \ TestFiles :
       shown[f] = Problems(Current(f)) \/ Unreported(File(f))
  /\ \A t \in tasks : InRun(t) => (t.known /\ stale(t)) \/ t.generation # generation

Progress == \A r \in Roots : Asleep \/ Working(r) \/ CaughtUp(r)

(* The inductive invariant. *)
ProgressInv ==
  /\ BackendInv /\ FreshFactsHaveBuffers
  /\ ConfigsAreKept /\ BatchesReport /\ PublishesLatest /\ GoneIsClear /\ Progress

-----------------------------------------------------------------------------
(* Nobody touches a marrow.json *)

(* With no notice of a marrow.json waiting, none is ever handled.          *)
LEMMA NoConfigNotice ==
  ASSUME TypeOK, ConfigsAreKept
  PROVE  /\ \A n \in 1..Len(notices) : TakeBatch(n) => \A m \in Batch(n) : ~IsConfig(m)
         /\ handler.kind = "watch" => \A m \in handler.batch : m \in Notice /\ ~IsConfig(m)
<1>1. ASSUME NEW n \in 1..Len(notices), TakeBatch(n), NEW m \in Batch(n) PROVE ~IsConfig(m)
  <2>1. m \in Notice /\ Waiting(m.path)
    BY <1>1, Taken
  <2>2. Unreported(m.path)
    BY <2>1, UnreportedWaits
  <2>. QED
    BY <2>1, <2>2, NoticeRoots DEF ConfigsAreKept
<1>2. ASSUME handler.kind = "watch", NEW m \in handler.batch PROVE m \in Notice /\ ~IsConfig(m)
  <2>1. m \in Notice
    BY <1>2 DEF TypeOK, Handler
  <2>2. Unreported(m.path)
    BY <1>2 DEF Unreported
  <2>. QED
    BY <2>1, <2>2, NoticeRoots DEF ConfigsAreKept
<1>. QED
  BY <1>1, <1>2

(* No step touches one.                                                    *)
LEMMA ConfigsStep ==
  ASSUME TypeOK, OneProject, ConfigsAreKept, [Next]_vars
  PROVE  ConfigsAreKept'
<1>. USE ConstantsAssumption
<1>0. ASSUME UNCHANGED config, "project" \notin pending',
             \A r \in Roots : Unreported(ConfigOf(r))' => Unreported(ConfigOf(r))
      PROVE  ConfigsAreKept'
  BY <1>0 DEF ConfigsAreKept
<1>1. ASSUME UNCHANGED notices, UNCHANGED handler \/ handler'.kind # "watch", NEW p, Unreported(p)'
      PROVE  Unreported(p)
  BY <1>1 DEF Unreported
<1>2. ASSUME NEW f \in Files, ChangeFile(f, "good") \/ ChangeFile(f, "bad") \/ ChangeFile(f, "gone") \/ SaveFile(f)
      PROVE  ConfigsAreKept'
  <2>1. PICK b : notices' = Append(notices, [path |-> File(f), deleted |-> b])
    BY <1>2 DEF ChangeFile, SaveFile
  <2>2. UNCHANGED <<handler, config, pending>>
    BY <1>2 DEF ChangeFile, SaveFile
  <2>3. \A r \in Roots : Unreported(ConfigOf(r))' => Unreported(ConfigOf(r))
    BY <2>1, <2>2, Appended, Paths DEF Unreported, Waiting
  <2>. QED
    BY <1>0, <2>2, <2>3 DEF ConfigsAreKept
<1>3. ASSUME NEW f, NEW kind \in {"open", "change", "close"}, NEW text, Update(f, kind, text)
      PROVE  ConfigsAreKept'
  BY <1>0, <1>1, <1>3 DEF Update, ConfigsAreKept
<1>4. CASE ClientNext
  <2>1. ASSUME NEW f \in Edited, did_open(f) \/ did_close(f) \/ \E k : did_change(f, k)
        PROVE  ConfigsAreKept'
    BY <1>3, <2>1 DEF did_open, did_close, did_change
  <2>. QED
    BY <1>2, <1>4, <2>1 DEF ClientNext, OneProject
<1>5. ASSUME NEW free \in BOOLEAN, ScheduleEdit(free) PROVE ConfigsAreKept'
  BY <1>0, <1>1, <1>5 DEF ScheduleEdit, client, Idle, ConfigsAreKept
<1>6. ASSUME NEW n \in 1..Len(notices), WatchFree(n) PROVE ConfigsAreKept'
  BY <1>0, <1>6, UnreportedTaken DEF WatchFree
<1>7. ASSUME NEW n \in 1..Len(notices), WatchBusy(n) PROVE ConfigsAreKept'
  <2>1. "project" \notin pending'
    BY <1>7, NoConfigNotice DEF WatchBusy, busy_watched_pre_invalidation_bits, invalidation_bits,
       ConfigsAreKept
  <2>. QED
    BY <1>0, <1>7, <2>1, UnreportedTaken DEF WatchBusy
<1>8. CASE WatchEffects
  <2>1. "project" \notin pending'
    BY <1>8, NoConfigNotice DEF WatchEffects, invalidation_bits, ConfigsAreKept
  <2>. QED
    BY <1>0, <1>1, <1>8, <2>1 DEF WatchEffects, client, Idle
<1>9. ASSUME NEW t \in tasks, TaskNext(t) PROVE ConfigsAreKept'
  <2>1. UNCHANGED <<notices, handler, config>> /\ pending' \in {pending, {}}
    BY <1>9 DEF TaskNext, Elapse, Capture, Prepare, Analyze, Commit, Publish, client
  <2>. QED
    BY <1>0, <1>1, <2>1 DEF ConfigsAreKept
<1>10. CASE UNCHANGED vars
  BY <1>0, <1>1, <1>10 DEF vars, client, ConfigsAreKept
<1>. QED
  BY <1>4, <1>5, <1>6, <1>7, <1>8, <1>9, <1>10 DEF Next, ServerNext, HandlerNext

-----------------------------------------------------------------------------
(* Tasks *)

(* A task goes on as the same task.                                        *)
GoesOn(t, u) == Becomes(t, u) /\ u.root = t.root /\ u.known = t.known /\ u.stamp = t.stamp

(* What the steps of a task do to it, when no project is unreadable.       *)
LEMMA TaskMoves ==
  ASSUME TypeOK, OneProject, ConfigsAreKept, NEW t \in tasks
  PROVE  /\ Elapse(t) =>
              IF stale(t) THEN Ends(t) ELSE \E u : GoesOn(t, u) /\ u.phase = "capture"
         /\ Capture(t) =>
              \E u : GoesOn(t, u) /\ u.phase = "queued" /\ u.generation = generation
         /\ Prepare(t) =>
              \E u : /\ GoesOn(t, u) /\ u.phase = "analyze" /\ u.generation = t.generation
                     /\ u.invalidation_epoch = invalidation_epoch'
         /\ Analyze(t) =>
              \E u : /\ GoesOn(t, u) /\ u.phase = "commit" /\ u.generation = t.generation
                     /\ u.invalidation_epoch = t.invalidation_epoch
         /\ Commit(t) =>
              IF pending = {} /\ Committable(t)
              THEN \E u : GoesOn(t, u) /\ u.phase = "publish" /\ u.generation = t.generation
              ELSE Ends(t)
<1>0. t \in Task
  BY DEF TypeOK
<1>1. ASSUME Elapse(t), ~stale(t) PROVE \E u : GoesOn(t, u) /\ u.phase = "capture"
  <2>1. PICK u : u = [t EXCEPT !.phase = "capture"]
    OBVIOUS
  <2>2. u.root = t.root /\ u.known = t.known /\ u.stamp = t.stamp /\ u.phase = "capture"
    BY <1>0, <2>1 DEF Task
  <2>. QED
    BY <1>1, <2>1, <2>2 DEF Elapse, GoesOn
<1>2. ASSUME Capture(t)
      PROVE  \E u : GoesOn(t, u) /\ u.phase = "queued" /\ u.generation = generation
  <2>1. PICK u : u = [t EXCEPT !.phase = "queued", !.generation = generation, !.buffers = buffer]
    OBVIOUS
  <2>2. /\ u.root = t.root /\ u.known = t.known /\ u.stamp = t.stamp
        /\ u.phase = "queued" /\ u.generation = generation
    BY <1>0, <2>1 DEF Task
  <2>. QED
    BY <1>2, <2>1, <2>2 DEF Capture, GoesOn
<1>3. ASSUME Prepare(t)
      PROVE  \E u : /\ GoesOn(t, u) /\ u.phase = "analyze" /\ u.generation = t.generation
                    /\ u.invalidation_epoch = invalidation_epoch'
  <2>. DEFINE only == t.scope = "Interactive" /\ ~any_open_test_module(t.root, t.buffers)
  <2>1. PICK u : u = [t EXCEPT !.phase = "analyze", !.source_only = only,
                               !.invalidation_epoch = invalidation_epoch']
    OBVIOUS
  <2>2. /\ u.root = t.root /\ u.known = t.known /\ u.stamp = t.stamp /\ u.phase = "analyze"
        /\ u.generation = t.generation /\ u.invalidation_epoch = invalidation_epoch'
    BY <1>0, <2>1 DEF Task
  <2>3. config[t.root] = "valid"
    BY <1>0 DEF ConfigsAreKept, Task
  <2>4. Becomes(t, u)
    BY <1>3, <2>1, <2>3 DEF Prepare, OneProject
  <2>. QED
    BY <2>2, <2>4 DEF GoesOn
<1>4. ASSUME Analyze(t)
      PROVE  \E u : /\ GoesOn(t, u) /\ u.phase = "commit" /\ u.generation = t.generation
                    /\ u.invalidation_epoch = t.invalidation_epoch
  <2>1. PICK u : u = [t EXCEPT !.phase = "commit", !.texts = analyze(t), !.buffers = NoSnapshot.texts]
    OBVIOUS
  <2>2. /\ u.root = t.root /\ u.known = t.known /\ u.stamp = t.stamp /\ u.phase = "commit"
        /\ u.generation = t.generation /\ u.invalidation_epoch = t.invalidation_epoch
    BY <1>0, <2>1 DEF Task
  <2>. QED
    BY <1>4, <2>1, <2>2 DEF Analyze, GoesOn, OneProject
<1>5. ASSUME Commit(t), pending = {} /\ Committable(t)
      PROVE  \E u : GoesOn(t, u) /\ u.phase = "publish" /\ u.generation = t.generation
  <2>1. PICK u : u = [t EXCEPT !.phase = "publish"]
    OBVIOUS
  <2>2. /\ u.root = t.root /\ u.known = t.known /\ u.stamp = t.stamp
        /\ u.phase = "publish" /\ u.generation = t.generation
    BY <1>0, <2>1 DEF Task
  <2>. QED
    BY <1>5, <2>1, <2>2 DEF Commit, GoesOn
<1>. QED
  BY <1>1, <1>2, <1>3, <1>4, <1>5 DEF Elapse, Commit

(* Between a commit and its publish no other run and no handler replaces   *)
(* the latest analysis.                                                    *)
LEMMA PublishesLatestStep ==
  ASSUME BackendInv, PublishesLatest, [Next]_vars
  PROVE  PublishesLatest'
<1>0. TypeOK /\ OneRun
  BY DEF BackendInv, RunInv, IInv
<1>1. ASSUME UNCHANGED workspace, \A u \in tasks' : u.phase = "publish" => u \in tasks
      PROVE  PublishesLatest'
  BY <1>1 DEF workspace, PublishesLatest
<1>2. ASSUME HandlerNext PROVE \A u \in tasks' : u.phase = "publish" => u \in tasks
  BY <1>0, <1>2, HandlerTasks DEF Spawned
<1>3. CASE ClientNext
  BY <1>1, <1>3 DEF ClientNext, ChangeFile, SaveFile, did_open, did_close, did_change, Update, ChangeConfig
<1>4. CASE WatchEffects \/ (\E free \in BOOLEAN : ScheduleEdit(free)) \/ \E n \in 1..Len(notices) : WatchBusy(n)
  BY <1>1, <1>2, <1>4 DEF HandlerNext, WatchEffects, ScheduleEdit, WatchBusy
<1>5. ASSUME NEW n \in 1..Len(notices), WatchFree(n) PROVE PublishesLatest'
  <2>1. \A u \in tasks' : u.phase # "publish"
    BY <1>2, <1>5 DEF HandlerNext, WatchFree, AnalysisFree
  <2>. QED
    BY <2>1 DEF PublishesLatest
<1>6. ASSUME NEW t \in tasks, Elapse(t) \/ Capture(t) PROVE PublishesLatest'
  <2>1. t \in Task /\ UNCHANGED workspace
    BY <1>0, <1>6 DEF Elapse, Capture, TypeOK
  <2>2. PICK next : next.phase # "publish" /\ (Becomes(t, next) \/ Ends(t))
    <3>. DEFINE one == [t EXCEPT !.phase = "capture"]
                two == [t EXCEPT !.phase = "queued", !.generation = generation, !.buffers = buffer]
    <3>1. one.phase = "capture" /\ two.phase = "queued"
      BY <2>1 DEF Task
    <3>2. Becomes(t, one) \/ Becomes(t, two) \/ Ends(t)
      BY <1>6 DEF Elapse, Capture
    <3>. QED
      BY <3>1, <3>2
  <2>. QED
    BY <1>1, <2>1, <2>2 DEF Becomes, Ends
<1>7. ASSUME NEW t \in tasks, Prepare(t) \/ Analyze(t) \/ Commit(t) PROVE PublishesLatest'
  BY <1>0, <1>7, RunPrepares, RunAnalyzes, RunCommits DEF PublishesLatest, InRun
<1>8. ASSUME NEW t \in tasks, Publish(t) PROVE PublishesLatest'
  BY <1>0, <1>8, OnlyRun DEF Publish, PublishesLatest, InRun
<1>9. CASE UNCHANGED vars
  BY <1>1, <1>9 DEF vars
<1>. QED
  BY <1>3, <1>4, <1>5, <1>6, <1>7, <1>8, <1>9 DEF Next, ServerNext, HandlerNext, TaskNext

-----------------------------------------------------------------------------
(* A deleted file *)

(* The problems of a file whose deletion is reported are cleared.          *)
LEMMA FileDeletionClears ==
  ASSUME RunInv, NEW f \in Files, NEW batch, NEW roots, NEW drain, NEW m \in batch,
         watched_root_effects(batch, roots, drain), ~Open(f),
         m \in Notice, m.path = File(f), m.deleted, Home[f] \in tracked => Home[f] \in roots
  PROVE  shown'[f] = 0
<1>1. m = [path |-> File(f), deleted |-> TRUE]
  BY DEF Notice
<1>2. shown[f] # 0 => f \in non_empty /\ Home[f] \in roots
  BY DEF RunInv, IInv, TrackedIsShown
<1>. QED
  BY <1>1, <1>2 DEF watched_root_effects

(* No step brings problems of a file back that is gone.                    *)
LEMMA GoneStep ==
  ASSUME BackendInv, ConfigsAreKept, GoneIsClear, [Next]_vars
  PROVE  GoneIsClear'
<1>. USE ConstantsAssumption
<1>. SUFFICES ASSUME NEW f \in Files, ~Exists(Current(f))', ~Unreported(File(f))'
     PROVE  shown'[f] = 0 \/ handler' = [kind |-> "close", file |-> f]
  BY DEF GoneIsClear
<1>0. TypeOK /\ RunInv /\ IInv
  BY DEF BackendInv, RunInv, IInv
<1>1. ASSUME ~Exists(Current(f)), ~Unreported(File(f)), shown'[f] \in {0, shown[f]}, UNCHANGED handler \/ handler.kind # "close"
      PROVE  shown'[f] = 0 \/ handler' = [kind |-> "close", file |-> f]
  BY <1>1 DEF GoneIsClear
<1>2. ~Exists(buffer'[f]) /\ ~Exists(disk'[f])
  BY DEF Current, overlay
<1>3. UNCHANGED <<buffer, disk>> => ~Exists(Current(f))
  BY <1>2 DEF Current, overlay
<1>4. CASE ClientNext
  <2>0. ~Unreported(File(f))
    BY <1>0, <1>4, UnreportedKept
  <2>1. ASSUME NEW g \in Files, NEW text, NEW m, disk' = [disk EXCEPT ![g] = text], m.path = File(g),
               notices' = Append(notices, m), UNCHANGED <<buffer, shown, handler>>
        PROVE  shown'[f] = 0 \/ handler' = [kind |-> "close", file |-> f]
    <3>1. g # f
      BY <1>0, <2>1, Appended DEF Unreported, Waiting
    <3>2. disk'[f] = disk[f]
      BY <2>1, <3>1
    <3>. QED
      BY <1>1, <1>2, <2>0, <2>1, <3>2 DEF Current, overlay
  <2>2. ASSUME NEW g \in Files, NEW k, ChangeFile(g, k) \/ SaveFile(g)
        PROVE  shown'[f] = 0 \/ handler' = [kind |-> "close", file |-> f]
    <3>1. PICK text, b : /\ disk' = [disk EXCEPT ![g] = text]
                         /\ notices' = Append(notices, [path |-> File(g), deleted |-> b])
      BY <2>2 DEF ChangeFile, SaveFile
    <3>2. UNCHANGED <<buffer, shown, handler>>
      BY <2>2 DEF ChangeFile, SaveFile, documents
    <3>. QED
      BY <2>1, <3>1, <3>2, Paths
  <2>3. ASSUME NEW r, NEW c, ChangeConfig(r, c)
        PROVE  shown'[f] = 0 \/ handler' = [kind |-> "close", file |-> f]
    BY <1>1, <1>3, <2>0, <2>3 DEF ChangeConfig, documents
  <2>4. ASSUME NEW g \in Files, NEW kind, NEW text, Update(g, kind, text), kind = "close" \/ Exists(text)
        PROVE  shown'[f] = 0 \/ handler' = [kind |-> "close", file |-> f]
    <3>1. UNCHANGED <<shown, disk>> /\ buffer' = [buffer EXCEPT ![g] = text]
          /\ handler = Idle /\ handler' = [kind |-> kind, file |-> g]
      BY <2>4 DEF Update
    <3>2. CASE g = f
      BY <1>0, <1>2, <2>4, <3>1, <3>2 DEF TypeOK
    <3>3. CASE g # f
      <4>1. ~Exists(Current(f))
        BY <1>2, <3>1, <3>3 DEF Current, overlay
      <4>. QED
        BY <1>1, <2>0, <3>1, <4>1 DEF Idle
    <3>. QED
      BY <3>2, <3>3
  <2>5. ASSUME NEW g \in Edited, did_open(g) \/ did_close(g) \/ \E k \in {"good", "bad"} : did_change(g, k)
        PROVE  shown'[f] = 0 \/ handler' = [kind |-> "close", file |-> f]
    BY <2>4, <2>5 DEF did_open, did_close, did_change, Exists
  <2>. QED
    BY <1>4, <2>2, <2>3, <2>5 DEF ClientNext
<1>5. ASSUME NEW free \in BOOLEAN, ScheduleEdit(free) PROVE shown'[f] = 0
  <2>1. ~Unreported(File(f)) /\ shown'[f] \in {0, shown[f]} /\ UNCHANGED <<buffer, disk>>
    BY <1>0, <1>5, UnreportedKept, HandlersClear DEF HandlerNext, ScheduleEdit, documents, client
  <2>2. handler = [kind |-> "close", file |-> f] => shown'[f] = 0
    BY <1>0, <1>5 DEF ScheduleEdit, TypeOK
  <2>. QED
    BY <1>3, <2>1, <2>2 DEF GoneIsClear
<1>6. ASSUME NEW n \in 1..Len(notices), WatchBusy(n) PROVE shown'[f] = 0
  BY <1>0, <1>1, <1>3, <1>6, UnreportedTaken, Taken DEF WatchBusy, documents, Idle
<1>7. ASSUME NEW n \in 1..Len(notices), WatchFree(n) PROVE shown'[f] = 0
  <2>0. UNCHANGED <<buffer, disk, handler>> /\ handler = Idle
    BY <1>0, <1>7, Taken DEF WatchFree, documents
  <2>1. CASE ~Unreported(File(f))
    BY <1>0, <1>1, <1>3, <1>7, <2>0, <2>1, HandlersClear DEF HandlerNext, Idle
  <2>2. CASE Unreported(File(f))
    <3>1. PICK m \in Batch(n) : m.path = File(f)
      BY <1>0, <1>7, <2>2, UnreportedTaken
    <3>2. m \in Notice /\ RootOf(m) = Home[f] /\ File(f) \in Path /\ ~Waiting(File(f))'
      BY <1>0, <1>7, <3>1, Taken, NoticeRoots, Missings, UnreportedWaits DEF WatchFree, Unreported, Waiting
    <3>3. m.deleted
      BY <1>0, <1>2, <1>7, <2>0, <3>1, <3>2, TakenIsTrue, Missings DEF WatchFree, RunInv
    <3>4. PICK roots : /\ watched_root_effects(Batch(n), roots, FALSE)
                       /\ Home[f] \in tracked => Home[f] \in roots
      <4>. DEFINE resolved == IF "project" \in pending THEN None ELSE project
                  roots == {r \in Roots : (r = resolved \/ r \in tracked) /\ ChangesIn(Batch(n), r) # {}}
      <4>1. watched_root_effects(Batch(n), roots, FALSE)
        BY <1>7 DEF WatchFree
      <4>2. Home[f] \in tracked => Home[f] \in roots
        BY <3>1, <3>2 DEF ChangesIn
      <4>. QED
        BY <4>1, <4>2
    <3>. QED
      BY <1>0, <1>2, <2>0, <3>1, <3>2, <3>3, <3>4, FileDeletionClears DEF Open
  <2>. QED
    BY <2>1, <2>2
<1>8. CASE WatchEffects
  <2>0. UNCHANGED <<buffer, disk>> /\ handler.kind = "watch" /\ handler' = Idle
    BY <1>8 DEF WatchEffects, documents, client
  <2>1. CASE ~Unreported(File(f))
    BY <1>0, <1>1, <1>3, <1>8, <2>0, <2>1, HandlersClear DEF HandlerNext, Idle
  <2>2. CASE Unreported(File(f))
    <3>1. PICK m \in handler.batch : m.path = File(f)
      BY <1>8, <2>2, UnreportedEffects
    <3>2. m \in Notice /\ RootOf(m) = Home[f] /\ ~IsConfig(m) /\ File(f) \in Path /\ ~Waiting(File(f))
      BY <1>0, <1>8, <2>0, <3>1, NoConfigNotice, NoticeRoots, Missings, UnreportedEffects
    <3>3. m.deleted
      BY <1>0, <1>2, <2>0, <3>1, <3>2, Missings DEF RunInv, NewestNoticeIsTrue
    <3>4. PICK noticed, roots : /\ watched_root_effects(noticed, roots, TRUE)
                                /\ m \in noticed /\ Home[f] \in roots
      <4>. DEFINE noticed == {n \in handler.batch :
                               RootOf(n) \in tracked \/ IsConfig(n) \/ config[RootOf(n)] # "absent"}
      <4>1. watched_root_effects(noticed, {RootOf(n) : n \in noticed}, TRUE)
        BY <1>8 DEF WatchEffects
      <4>2. m \in noticed
        BY <3>1, <3>2 DEF ConfigsAreKept
      <4>3. Home[f] \in {RootOf(n) : n \in noticed}
        BY <3>2, <4>2
      <4>. QED
        BY <4>1, <4>2, <4>3
    <3>. QED
      BY <1>0, <1>2, <2>0, <3>1, <3>2, <3>3, <3>4, FileDeletionClears DEF Open
  <2>. QED
    BY <2>1, <2>2
<1>9. ASSUME NEW t \in tasks, TaskNext(t)
      PROVE  shown'[f] = 0 \/ handler' = [kind |-> "close", file |-> f]
  <2>0. UNCHANGED <<buffer, disk, handler, notices>>
    BY <1>9 DEF TaskNext, Elapse, Capture, Prepare, Analyze, Commit, Publish, documents, client
  <2>1. ~Exists(Current(f)) /\ ~Unreported(File(f))
    BY <1>3, <2>0 DEF Unreported
  <2>2. CASE shown'[f] = shown[f]
    BY <1>1, <2>0, <2>1, <2>2
  <2>3. CASE shown'[f] # shown[f] /\ shown'[f] # 0
    <3>1. shown'[f] = Problems(Current(f))
      BY <1>9, <2>1, <2>3, PublishedStep DEF BackendInv, ConfigsAreKept, Next, ServerNext
    <3>. QED
      BY <2>1, <3>1 DEF Problems, Exists
  <2>. QED
    BY <2>2, <2>3
<1>10. CASE UNCHANGED vars
  BY <1>1, <1>3, <1>10 DEF vars, client, documents, Unreported
<1>. QED
  BY <1>4, <1>5, <1>6, <1>7, <1>8, <1>9, <1>10 DEF Next, ServerNext, HandlerNext

-----------------------------------------------------------------------------
(* Progress *)

(* A task is not overtaken by what it does not look at.                    *)
LEMMA StaysLive ==
  ASSUME NEW t, Live(t), UNCHANGED <<generation, epoch, edit_seq>>,
         InRun(t) => UNCHANGED <<pending, invalidation_epoch>>
  PROVE  Live(t)'
BY DEF Live, stale, Doomed, InRun

(* The newest task of a root is not overtaken.                             *)
LEMMA NewTaskIsLive ==
  ASSUME NEW r, NEW known \in BOOLEAN, NEW scope,
         NEW u, u = NewTask(r, known, IF known THEN epoch'[r] ELSE edit_seq', scope)
  PROVE  u.root = r /\ Live(u)'
BY DEF NewTask, Live, stale, InRun

(* A change reported to a root schedules a task.                           *)
LEMMA EffectsWork ==
  ASSUME NEW batch, NEW roots, NEW drain, watched_root_effects(batch, roots, drain),
         NEW r \in roots, drain \/ ~DeletesConfig(batch, r)
  PROVE  Working(r)'
<1>1. PICK u : u = NewTask(r, TRUE, epoch'[r], "Full")
  OBVIOUS
<1>2. u \in tasks'
  BY <1>1 DEF watched_root_effects
<1>3. u.root = r /\ Live(u)'
  BY <1>1, NewTaskIsLive
<1>. QED
  BY <1>2, <1>3 DEF Working

(* What the client does is taken up by a handler, or by the watcher.       *)
LEMMA ClientProgress ==
  ASSUME TypeOK, OneProject, Progress, ClientNext
  PROVE  Progress'
<1>. USE ConstantsAssumption
<1>1. ASSUME NEW f \in Files, NEW kind \in {"open", "change", "close"}, NEW text, Update(f, kind, text)
      PROVE  Progress'
  BY <1>1 DEF Update, Progress, Working, HandlerWorks, OneProject
<1>2. ASSUME NEW f \in Files, NEW text, NEW b, disk' = [disk EXCEPT ![f] = text],
             notices' = Append(notices, [path |-> File(f), deleted |-> b]),
             UNCHANGED <<shown, documents, workspace, pending, tracker, edit_seq, handler, tasks>>
      PROVE  Progress'
  <2>. SUFFICES ASSUME NEW r \in Roots, Asleep \/ Working(r) \/ CaughtUp(r)
       PROVE  Asleep' \/ Working(r)' \/ CaughtUp(r)'
    BY DEF Progress
  <2>1. CASE Asleep
    BY <1>2, <2>1 DEF Asleep, Open, documents, workspace, tracker
  <2>2. CASE Working(r)
    BY <1>2, <2>2, StaysLive DEF Working, HandlerWorks, documents, workspace, tracker
  <2>3. CASE CaughtUp(r)
    <3>1. ASSUME NEW g \in FilesOf(r) \ TestFiles PROVE shown'[g] = Problems(Current(g))' \/ Unreported(File(g))'
      <4>1. CASE g = f
        BY <1>2, <4>1, Appended, Paths DEF Unreported, Waiting
      <4>2. CASE g # f
        <5>1. Current(g)' = Current(g)
          BY <1>2, <4>2 DEF Current, overlay, documents
        <5>2. Problems(Current(g))' = Problems(Current(g))
          BY <5>1 DEF Problems
        <5>3. Unreported(File(g)) => Unreported(File(g))'
          BY <1>2, Appended DEF Unreported, Waiting
        <5>. QED
          BY <1>2, <2>3, <5>2, <5>3 DEF CaughtUp
      <4>. QED
        BY <4>1, <4>2
    <3>2. \A t \in tasks : stale(t)' <=> stale(t)
      BY <1>2 DEF stale, tracker
    <3>. QED
      BY <1>2, <2>3, <3>1, <3>2 DEF CaughtUp, FilesOf, documents, workspace, tracker
  <2>. QED
    BY <2>1, <2>2, <2>3
<1>3. ASSUME NEW f \in Files, NEW k, ChangeFile(f, k) \/ SaveFile(f) PROVE Progress'
  <2>1. PICK text, b : /\ disk' = [disk EXCEPT ![f] = text]
                       /\ notices' = Append(notices, [path |-> File(f), deleted |-> b])
    BY <1>3 DEF ChangeFile, SaveFile
  <2>2. UNCHANGED <<shown, documents, workspace, pending, tracker, edit_seq, handler, tasks>>
    BY <1>3 DEF ChangeFile, SaveFile
  <2>. QED
    BY <1>2, <2>1, <2>2
<1>4. ASSUME NEW f \in Edited, did_open(f) \/ did_close(f) \/ \E k : did_change(f, k) PROVE Progress'
  BY <1>1, <1>4 DEF did_open, did_close, did_change
<1>. QED
  BY <1>3, <1>4 DEF ClientNext, OneProject

(* A handler of an edit ends in a task of its root.                        *)
LEMMA ScheduleProgress ==
  ASSUME TypeOK, OneProject, NEW free \in BOOLEAN, ScheduleEdit(free)
  PROVE  Progress'
<1>. USE ConstantsAssumption
<1>. SUFFICES ASSUME NEW r \in Roots PROVE Working(r)'
  BY DEF Progress
<1>. DEFINE known == known_root(r, free)
            scope == IF handler.kind = "change" THEN "Interactive" ELSE "Full"
<1>1. Home[handler.file] = r
  BY DEF ScheduleEdit, TypeOK, Handler, OneProject
<1>2. PICK u : u = NewTask(r, known, IF known THEN epoch'[r] ELSE edit_seq', scope)
  OBVIOUS
<1>3. u \in tasks'
  BY <1>1, <1>2 DEF ScheduleEdit, schedule_recompute
<1>4. u.root = r /\ Live(u)'
  BY <1>2, NewTaskIsLive DEF known_root
<1>. QED
  BY <1>3, <1>4 DEF Working

(* So does one of a watcher's notices, for a project anyone has heard of.  *)
LEMMA WatchFreeProgress ==
  ASSUME BackendInv, OneProject, ConfigsAreKept, Progress, NEW n \in 1..Len(notices), WatchFree(n)
  PROVE  Progress'
<1>. USE ConstantsAssumption
<1>0. TypeOK /\ RunInv
  BY DEF BackendInv, RunInv, IInv
<1>. SUFFICES ASSUME NEW r \in Roots, Asleep \/ Working(r) \/ CaughtUp(r)
     PROVE  Asleep' \/ Working(r)' \/ CaughtUp(r)'
  BY DEF Progress
<1>. DEFINE batch == Batch(n)
            roots == {s \in Roots : (s = project \/ s \in tracked) /\ ChangesIn(batch, s) # {}}
<1>1. /\ \A m \in batch : m \in Notice /\ ~IsConfig(m) /\ RootOf(m) = r
      /\ batch # {} /\ handler = Idle
  <2>1. \A m \in batch : m \in Notice /\ ~IsConfig(m)
    BY <1>0, Taken, NoConfigNotice DEF WatchFree
  <2>2. batch # {}
    <3>1. 1 \in 1..n
      BY <1>0, Taken DEF WatchFree
    <3>. QED
      BY <3>1 DEF Batch
  <2>. QED
    BY <1>0, <2>1, <2>2, Taken, NoticeRoots DEF WatchFree, OneProject
<1>2. ChangesIn(batch, r) # {} /\ ~DeletesConfig(batch, r)
  <2>1. [path |-> ConfigOf(r), deleted |-> TRUE] \notin batch
    BY <1>1, NoticeRoots, Paths
  <2>. QED
    BY <1>1, <2>1 DEF ChangesIn, DeletesConfig
<1>3. /\ watched_root_effects(batch, roots, FALSE) /\ UNCHANGED <<documents, edit_seq, handler>>
      /\ pending' = {}
  BY DEF WatchFree, ConfigsAreKept
<1>4. CASE project = r \/ r \in tracked
  <2>1. r \in roots
    BY <1>2, <1>4
  <2>. HIDE DEF roots
  <2>. QED
    BY <1>2, <1>3, <2>1, EffectsWork
<1>5. CASE project # r /\ r \notin tracked
  <2>1. roots = {}
    BY <1>5 DEF OneProject
  <2>2. tracked' = tracked /\ tasks' = tasks
    BY <1>3, <2>1 DEF watched_root_effects, bump_root_epochs
  <2>3. epoch' = epoch
    BY <1>0, <1>3, <2>1 DEF watched_root_effects, bump_root_epochs, TypeOK
  <2>4. CASE Asleep
    <3>1. project' = project
      BY <2>4 DEF WatchFree, invalidate, Asleep
    <3>. QED
      BY <1>3, <2>2, <2>4, <3>1 DEF Asleep, Open, documents
  <2>5. ASSUME NEW t \in tasks, t.root = r, Live(t) PROVE Live(t)'
    <3>1. ~InRun(t)
      BY <1>0, <1>5, <2>5, PublishesResolved DEF Live
    <3>. QED
      BY <1>3, <2>3, <2>5, <3>1, StaysLive DEF documents
  <2>. QED
    BY <1>1, <1>5, <2>2, <2>4, <2>5 DEF Working, HandlerWorks, CaughtUp, Idle
<1>. QED
  BY <1>4, <1>5

(* Without the lock, the handler leaves its bits and goes on.              *)
LEMMA WatchBusyProgress ==
  ASSUME TypeOK, OneProject, NEW n \in 1..Len(notices), WatchBusy(n)
  PROVE  Progress'
<1>. SUFFICES ASSUME NEW r \in Roots PROVE Working(r)'
  BY DEF Progress
<1>1. 1 \in 1..n /\ \A m \in Batch(n) : m \in Notice
  BY Taken DEF WatchBusy
<1>2. PICK m \in Batch(n) : m \in Notice
  <2>1. notices[1] \in Batch(n)
    BY <1>1 DEF Batch
  <2>. QED
    BY <1>1, <2>1
<1>3. m \in ChangesIn(Batch(n), r)
  BY <1>2, NoticeRoots DEF ChangesIn, OneProject
<1>. QED
  BY <1>3 DEF WatchBusy, Working, HandlerWorks

(* ... and its effects are a task.                                         *)
LEMMA WatchEffectsProgress ==
  ASSUME TypeOK, OneProject, ConfigsAreKept, BatchesReport, WatchEffects
  PROVE  Progress'
<1>. SUFFICES ASSUME NEW r \in Roots PROVE Working(r)'
  BY DEF Progress
<1>. DEFINE noticed == {n \in handler.batch :
                          RootOf(n) \in tracked \/ IsConfig(n) \/ config[RootOf(n)] # "absent"}
            roots == {RootOf(n) : n \in noticed}
<1>1. PICK m \in handler.batch : m \in Notice
  BY NoConfigNotice DEF BatchesReport, WatchEffects
<1>2. RootOf(m) = r
  BY <1>1, NoticeRoots DEF OneProject
<1>3. r \in roots
  BY <1>1, <1>2 DEF ConfigsAreKept
<1>4. watched_root_effects(noticed, roots, TRUE)
  BY DEF WatchEffects
<1>. HIDE DEF noticed, roots
<1>. QED
  BY <1>3, <1>4, EffectsWork

(* A watcher's handler has taken at least one notice.                      *)
LEMMA BatchesStep ==
  ASSUME TypeOK, BatchesReport, [Next]_vars
  PROVE  BatchesReport'
<1>1. ASSUME NEW n \in 1..Len(notices), WatchBusy(n) PROVE BatchesReport'
  <2>1. notices[1] \in Batch(n)
    BY <1>1, Taken DEF Batch, WatchBusy
  <2>. QED
    BY <1>1, <2>1 DEF WatchBusy, BatchesReport
<1>2. CASE ClientNext
  <2>1. ASSUME NEW f, NEW kind \in {"open", "change", "close"}, NEW text, Update(f, kind, text)
        PROVE  handler'.kind # "watch"
    BY <2>1 DEF Update
  <2>2. ASSUME NEW f, did_open(f) \/ did_close(f) \/ \E k : did_change(f, k)
        PROVE  handler'.kind # "watch"
    BY <2>1, <2>2 DEF did_open, did_close, did_change
  <2>3. ASSUME NEW f, NEW c, ChangeFile(f, c) \/ SaveFile(f) \/ ChangeConfig(f, c)
        PROVE  UNCHANGED handler
    BY <2>3 DEF ChangeFile, SaveFile, ChangeConfig
  <2>4. UNCHANGED handler \/ handler'.kind # "watch"
    BY <1>2, <2>2, <2>3 DEF ClientNext
  <2>. QED
    BY <2>4 DEF BatchesReport
<1>3. CASE WatchEffects \/ \E free \in BOOLEAN : ScheduleEdit(free)
  <2>1. handler' = Idle
    BY <1>3 DEF WatchEffects, ScheduleEdit
  <2>. QED
    BY <2>1 DEF Idle, BatchesReport
<1>4. ASSUME NEW n \in 1..Len(notices), WatchFree(n) PROVE BatchesReport'
  BY <1>4 DEF WatchFree, BatchesReport
<1>5. CASE \E t \in tasks : TaskNext(t)
  BY <1>5 DEF TaskNext, Elapse, Capture, Prepare, Analyze, Commit, Publish, BatchesReport
<1>6. CASE UNCHANGED vars
  BY <1>6 DEF vars, BatchesReport
<1>. QED
  BY <1>1, <1>2, <1>3, <1>4, <1>5, <1>6 DEF Next, ServerNext, HandlerNext

(* Work goes on when its task does, and the others are left alone.         *)
LEMMA WorkKept ==
  ASSUME NEW r, NEW t, Working(r), UNCHANGED handler, tasks \ {t} \subseteq tasks',
         \A v \in tasks \ {t} : Live(v) => Live(v)',
         Live(t) => \E u \in tasks' : u.root = t.root /\ Live(u)'
  PROVE  Working(r)'
BY DEF Working, HandlerWorks

(* The editor stays up to date when only overtaken runs go on.             *)
LEMMA CaughtKept ==
  ASSUME NEW r, CaughtUp(r),
         UNCHANGED <<disk, notices, shown, documents, pending, tracker, edit_seq, handler>>,
         latest'.root = latest.root, UNCHANGED latest_generation,
         \A u \in tasks' : InRun(u) =>
           u \in tasks \/ (u.known /\ stale(u)) \/ u.generation # generation
  PROVE  CaughtUp(r)'
<1>1. \A u : stale(u)' <=> stale(u)
  BY DEF stale, tracker
<1>2. \A f : /\ Problems(Current(f))' = Problems(Current(f))
             /\ Unreported(File(f))' <=> Unreported(File(f))
  BY DEF Problems, Current, overlay, Unreported, documents
<1>. QED
  BY <1>1, <1>2 DEF CaughtUp, FilesOf, tracker, documents

(* The same task is as overtaken as it was.                                *)
LEMMA SameTask ==
  ASSUME NEW t, NEW u, GoesOn(t, u)
  PROVE  /\ stale(u) <=> stale(t)
         /\ u \in tasks' /\ tasks \ {t} \subseteq tasks'
         /\ \A v \in tasks' : v \in tasks \/ v = u
BY DEF GoesOn, Becomes, stale

(* A task that nothing has overtaken gets past its debounce and captures.  *)
LEMMA EarlyProgress ==
  ASSUME TypeOK, OneProject, ConfigsAreKept, NEW t \in tasks, Elapse(t) \/ Capture(t),
         NEW r, Working(r) \/ CaughtUp(r)
  PROVE  Working(r)' \/ CaughtUp(r)'
<1>0. UNCHANGED <<client, shown, documents, workspace, pending, tracker, edit_seq, handler>>
  BY DEF Elapse, Capture
<1>1. \A v : Live(v) => Live(v)'
  BY <1>0, StaysLive DEF documents, workspace, tracker
<1>2. CASE Elapse(t) /\ stale(t)
  <2>1. ~Live(t) /\ Ends(t)
    BY <1>2, TaskMoves DEF Elapse, Live
  <2>2. Working(r) => Working(r)'
    BY <1>0, <1>1, <2>1, WorkKept DEF Ends
  <2>3. CaughtUp(r) => CaughtUp(r)'
    BY <1>0, <2>1, CaughtKept DEF Ends, client, workspace
  <2>. QED
    BY <2>2, <2>3
<1>3. CASE ~(Elapse(t) /\ stale(t))
  <2>1. PICK u : /\ GoesOn(t, u) /\ u.phase \in {"capture", "queued"}
                 /\ u.phase = "queued" => u.generation = generation
                 /\ t.phase = "debounce" => ~stale(t)
                 /\ t.phase \in {"debounce", "capture"}
    BY <1>3, TaskMoves DEF Elapse, Capture
  <2>2. ~InRun(u) /\ (Live(t) => Live(u))
    BY <2>1, SameTask DEF Live, InRun, GoesOn
  <2>3. Working(r) => Working(r)'
    BY <1>0, <1>1, <2>1, <2>2, WorkKept, SameTask DEF GoesOn
  <2>4. CaughtUp(r) => CaughtUp(r)'
    BY <1>0, <2>1, <2>2, CaughtKept, SameTask DEF client, workspace
  <2>. QED
    BY <2>3, <2>4
<1>. QED
  BY <1>2, <1>3

(* It is prepared whatever invalidation was left for it, and analyses.     *)
LEMMA RunProgress ==
  ASSUME BackendInv, OneProject, ConfigsAreKept, NEW t \in tasks, Prepare(t) \/ Analyze(t),
         NEW r \in Roots, Working(r) \/ CaughtUp(r)
  PROVE  Working(r)' \/ CaughtUp(r)'
<1>0. /\ TypeOK /\ OneRun /\ t.root = r
      /\ UNCHANGED <<client, shown, documents, tracker, edit_seq, handler>>
  BY DEF BackendInv, RunInv, IInv, Prepare, Analyze, OneProject, TypeOK, Task
<1>1. PICK u : /\ GoesOn(t, u) /\ u.phase \in {"analyze", "commit"} /\ u.generation = t.generation
               /\ t.phase \in {"queued", "analyze"}
               /\ Prepare(t) => u.invalidation_epoch = invalidation_epoch'
               /\ ~Prepare(t) => InRun(t) /\ u.invalidation_epoch = t.invalidation_epoch
  BY <1>0, TaskMoves DEF Prepare, Analyze, InRun
<1>2. \A v \in tasks \ {t} : ~InRun(v)
  BY <1>0, <1>1 DEF Prepare, OneRun
<1>3. \A v \in tasks \ {t} : Live(v) => Live(v)'
  BY <1>0, <1>2, StaysLive DEF documents, tracker
<1>4. ASSUME Live(t) PROVE Live(u)'
  <2>1. u.generation = generation /\ (u.known => ~stale(u))
    BY <1>1, <1>4, SameTask DEF Live, GoesOn
  <2>2. stale(u)' <=> stale(u)
    BY <1>0 DEF stale, tracker
  <2>3. ~Doomed(u)'
    BY <1>0, <1>1, <1>4 DEF Prepare, Analyze, Live, Doomed, InRun, workspace
  <2>. QED
    BY <1>0, <1>1, <2>1, <2>2, <2>3 DEF Live, documents
<1>5. Working(r) => Working(r)'
  BY <1>0, <1>1, <1>3, <1>4, WorkKept, SameTask DEF GoesOn
<1>6. CASE CaughtUp(r) /\ Live(t)
  BY <1>0, <1>1, <1>4, <1>6, SameTask DEF Working, GoesOn
<1>7. CASE CaughtUp(r) /\ ~Live(t)
  <2>1. (u.known /\ stale(u)) \/ u.generation # generation
    <3>1. CASE Prepare(t)
      BY <1>1, <1>7, <3>1, SameTask DEF Live, InRun, Prepare, GoesOn
    <3>2. CASE ~Prepare(t)
      BY <1>1, <1>7, <3>2, SameTask DEF CaughtUp, GoesOn
    <3>. QED
      BY <3>1, <3>2
  <2>2. pending' = pending /\ UNCHANGED <<latest, latest_generation>>
    BY <1>7 DEF CaughtUp, Prepare, Analyze, workspace
  <2>. QED
    BY <1>0, <1>1, <1>7, <2>1, <2>2, CaughtKept, SameTask DEF client
<1>. QED
  BY <1>5, <1>6, <1>7

(* A run that nothing has overtaken commits; another one puts nothing      *)
(* older in the place of an analysis of the current buffers.               *)
LEMMA CommitProgress ==
  ASSUME BackendInv, FreshFactsHaveBuffers, OneProject, ConfigsAreKept, NEW t \in tasks, Commit(t),
         NEW r \in Roots, Working(r) \/ CaughtUp(r)
  PROVE  Working(r)' \/ CaughtUp(r)'
<1>. USE ConstantsAssumption
<1>0. /\ TypeOK /\ OneRun /\ RunInv /\ InRun(t) /\ t.root = r /\ t.phase = "commit"
      /\ UNCHANGED <<client, shown, documents, tracker, edit_seq, handler>> /\ pending' = {}
  BY DEF BackendInv, RunInv, IInv, Commit, InRun, OneProject, TypeOK, Task
<1>1. \A v \in tasks \ {t} : Live(v) => Live(v)'
  <2>1. \A v \in tasks \ {t} : ~InRun(v)
    BY <1>0 DEF OneRun
  <2>. QED
    BY <1>0, <2>1, StaysLive DEF documents, tracker
<1>2. CASE pending = {} /\ Committable(t)
  <2>1. PICK u : GoesOn(t, u) /\ u.phase = "publish" /\ u.generation = t.generation
    BY <1>0, <1>2, TaskMoves
  <2>2. ASSUME Live(t) PROVE Live(u)'
    <3>1. u.generation = generation /\ (u.known => ~stale(u))
      BY <1>0, <2>1, <2>2, SameTask DEF Live, GoesOn
    <3>2. (stale(u)' <=> stale(u)) /\ ~Doomed(u)'
      BY <1>0, <2>1 DEF stale, tracker, Doomed
    <3>. QED
      BY <1>0, <2>1, <3>1, <3>2 DEF Live, documents
  <2>3. Working(r) => Working(r)'
    BY <1>0, <1>1, <2>1, <2>2, WorkKept, SameTask DEF GoesOn
  <2>4. CASE CaughtUp(r) /\ Live(t)
    BY <1>0, <2>1, <2>2, <2>4, SameTask DEF Working, GoesOn
  <2>5. CASE CaughtUp(r) /\ ~Live(t)
    <3>1. latest'.root = latest.root /\ latest_generation' = t.generation
      BY <1>0, <1>2, <2>5 DEF Commit, CaughtUp
    <3>2. t.generation = generation /\ latest_generation = generation
      <4>1. t.generation <= generation /\ latest_generation <= t.generation /\ latest_generation = generation
        BY <1>2, <2>5 DEF BackendInv, RunInv, IInv, CapturesAreCurrent, CaptureIsCurrent, Committable, CaughtUp
      <4>2. t.generation \in Nat /\ generation \in Nat
        BY <1>0 DEF TypeOK, Task
      <4>. QED
        BY <4>1, <4>2
    <3>3. u.known /\ stale(u)
      BY <1>0, <2>1, <2>5, <3>2, SameTask DEF CaughtUp, GoesOn
    <3>. QED
      BY <1>0, <1>2, <2>1, <2>5, <3>1, <3>2, <3>3, CaughtKept, SameTask DEF client
  <2>. QED
    BY <2>3, <2>4, <2>5
<1>3. CASE ~(pending = {} /\ Committable(t))
  <2>1. Ends(t) /\ invalidate(pending, {})
    BY <1>3 DEF Commit
  <2>2. ~Live(t)
    <3>1. SUFFICES ASSUME Live(t) PROVE FALSE
      OBVIOUS
    <3>2. pending = {} /\ project = t.root /\ t.root \in Roots /\ ~Doomed(t)
      BY <1>0, <3>1, PublishesResolved DEF Live
    <3>3. latest_generation <= t.generation
      BY <1>0, <3>1 DEF Live, FreshFactsHaveBuffers
    <3>. QED
      BY <1>0, <1>3, <3>2, <3>3 DEF Committable, Doomed
  <2>3. Working(r) => Working(r)'
    BY <1>0, <1>1, <2>1, <2>2, WorkKept DEF Ends
  <2>4. CaughtUp(r) => CaughtUp(r)'
    <3>1. CaughtUp(r) => UNCHANGED <<latest, latest_generation, pending>>
      BY <1>0, <2>1 DEF CaughtUp, invalidate
    <3>. QED
      BY <1>0, <2>1, <3>1, CaughtKept DEF Ends, client
  <2>. QED
    BY <2>3, <2>4
<1>. QED
  BY <1>2, <1>3

(* A publish that goes ahead brings the editor up to date.                 *)
LEMMA PublishCatchesUp ==
  ASSUME BackendInv, ConfigsAreKept, PublishesLatest, GoneIsClear, NEW t \in tasks, Publish(t), Publishable(t)
  PROVE  CaughtUp(t.root)'
<1>. USE ConstantsAssumption
<1>0. /\ TypeOK /\ TrackedIsShown /\ OneRun /\ t \in Task /\ InRun(t) /\ t.phase = "publish"
      /\ pending = {} /\ ~Doomed(t) /\ t.generation = generation /\ handler = Idle
      /\ UNCHANGED <<client, documents, handler, edit_seq>> /\ pending' = {} /\ Ends(t)
  BY DEF BackendInv, RunInv, IInv, TypeOK, Publish, Publishable, Doomed, InRun
<1>1. UNCHANGED <<latest, latest_generation>>
  BY <1>0 DEF Publish, invalidate
<1>2. ASSUME NEW f \in FilesOf(t.root) \ TestFiles
      PROVE  shown'[f] = Problems(Current(f)) \/ Unreported(File(f))
  <2>. DEFINE bad == {g \in Files : t.texts[g].kind = "bad"}
              checked == {g \in non_empty : covers(t, g)}
              reported == bad \cup checked \cup {g \in FilesOf(t.root) : Open(g)}
  <2>0. f \in Files /\ Home[f] = t.root /\ f \notin TestFiles /\ t.root \in Roots
    BY <1>0 DEF FilesOf, Task
  <2>1. shown'[f] = IF f \in reported THEN Problems(t.texts[f]) ELSE shown[f]
    BY <2>0 DEF Publish, reconcile_success
  <2>2. UpToDate(t.texts, f) /\ ~Unreported(ConfigOf(Home[f]))
    BY <1>0, <2>0 DEF BackendInv, ReadIsCurrent, ConfigsAreKept
  <2>3. ASSUME ~Exists(Current(f)) PROVE shown[f] = 0 \/ Unreported(File(f))
    BY <1>0, <2>0, <2>3 DEF GoneIsClear, Idle
  <2>4. CASE t.texts[f] = Current(f)
    <3>1. CASE f \in reported
      BY <2>1, <2>4, <3>1
    <3>2. CASE f \notin reported
      <4>1. Problems(Current(f)) = 0 /\ ~(f \in non_empty /\ covers(t, f))
        BY <2>0, <2>4, <3>2 DEF Problems
      <4>2. f \in non_empty <=> shown[f] # 0
        BY <1>0, <2>0 DEF TrackedIsShown
      <4>3. shown[f] = 0 \/ Unreported(File(f))
        BY <2>0, <2>3, <2>4, <4>1, <4>2 DEF covers
      <4>. QED
        BY <2>1, <3>2, <4>1, <4>3
    <3>. QED
      BY <3>1, <3>2
  <2>5. CASE ~Exists(t.texts[f]) /\ ~Exists(Current(f))
    <3>1. Problems(t.texts[f]) = 0 /\ Problems(Current(f)) = 0
      BY <2>5 DEF Exists, Problems
    <3>. QED
      BY <2>1, <2>3, <2>5, <3>1
  <2>. QED
    BY <2>0, <2>2, <2>4, <2>5 DEF UpToDate
<1>3. \A f : Current(f)' = Current(f) /\ (Unreported(File(f))' <=> Unreported(File(f)))
  BY <1>0 DEF Current, overlay, documents, client, Unreported
<1>4. \A f : Problems(Current(f))' = Problems(Current(f))
  BY <1>3 DEF Problems
<1>5. t.root \in tracked' /\ latest.root = t.root /\ latest_generation = generation
  BY <1>0 DEF Publish, reconcile_success, PublishesLatest
<1>6. \A u \in tasks' : ~InRun(u)
  BY <1>0, OnlyRun
<1>. QED
  BY <1>0, <1>1, <1>2, <1>3, <1>4, <1>5, <1>6 DEF CaughtUp, FilesOf, documents

(* One that does not leaves the work to others.                            *)
LEMMA PublishProgress ==
  ASSUME BackendInv, OneProject, ConfigsAreKept, PublishesLatest, GoneIsClear, NEW t \in tasks, Publish(t),
         NEW r \in Roots, Working(r) \/ CaughtUp(r)
  PROVE  Working(r)' \/ CaughtUp(r)'
<1>0. /\ TypeOK /\ OneRun /\ RunInv /\ InRun(t) /\ t.root = r /\ t.phase = "publish"
      /\ UNCHANGED <<client, documents, edit_seq, handler>> /\ pending' = {} /\ Ends(t)
      /\ invalidate(pending, {})
  BY DEF BackendInv, RunInv, IInv, Publish, InRun, OneProject, TypeOK, Task
<1>1. CASE Publishable(t)
  BY <1>0, <1>1, PublishCatchesUp
<1>2. CASE ~Publishable(t)
  <2>1. UNCHANGED <<tracker, shown>> /\ ~Live(t)
    BY <1>0, <1>2 DEF Publish, Live, Publishable, Doomed
  <2>2. \A v \in tasks \ {t} : ~InRun(v)
    BY <1>0 DEF OneRun
  <2>3. \A v \in tasks \ {t} : Live(v) => Live(v)'
    BY <1>0, <2>1, <2>2, StaysLive DEF documents, tracker
  <2>4. Working(r) => Working(r)'
    BY <1>0, <2>1, <2>3, WorkKept DEF Ends
  <2>5. CaughtUp(r) => CaughtUp(r)'
    <3>1. CaughtUp(r) => UNCHANGED <<latest, latest_generation, pending>>
      BY <1>0 DEF CaughtUp, invalidate
    <3>. QED
      BY <1>0, <2>1, <3>1, CaughtKept DEF Ends, client
  <2>. QED
    BY <2>4, <2>5
<1>. QED
  BY <1>1, <1>2

(* No step loses the work.                                                 *)
LEMMA ProgressStep ==
  ASSUME ProgressInv, OneProject, [Next]_vars
  PROVE  Progress'
<1>0. /\ BackendInv /\ FreshFactsHaveBuffers /\ ConfigsAreKept /\ BatchesReport
      /\ PublishesLatest /\ GoneIsClear /\ Progress /\ TypeOK
  BY DEF ProgressInv, BackendInv, RunInv, IInv
<1>1. CASE ClientNext
  BY <1>0, <1>1, ClientProgress
<1>2. CASE HandlerNext
  BY <1>0, <1>2, ScheduleProgress, WatchFreeProgress, WatchBusyProgress, WatchEffectsProgress
  DEF HandlerNext
<1>3. ASSUME NEW t \in tasks, TaskNext(t) PROVE Progress'
  <2>. SUFFICES ASSUME NEW r \in Roots PROVE Working(r)' \/ CaughtUp(r)'
    BY DEF Progress
  <2>1. Working(r) \/ CaughtUp(r)
    BY <1>0 DEF Progress, Asleep
  <2>. QED
    BY <1>0, <1>3, <2>1, EarlyProgress, RunProgress, CommitProgress, PublishProgress DEF TaskNext
<1>4. CASE UNCHANGED vars
  <2>1. ASSUME NEW r, CaughtUp(r) PROVE CaughtUp(r)'
    BY <1>4, <2>1, CaughtKept DEF vars, client, workspace, documents, tracker
  <2>2. ASSUME NEW r, Working(r) PROVE Working(r)'
    BY <1>4, <2>2, StaysLive DEF vars, workspace, documents, tracker, Working, HandlerWorks
  <2>3. Asleep => Asleep'
    BY <1>4 DEF vars, workspace, documents, tracker, Asleep, Open
  <2>. QED
    BY <1>0, <2>1, <2>2, <2>3 DEF Progress
<1>. QED
  BY <1>1, <1>2, <1>3, <1>4 DEF Next, ServerNext

(* recompute_and_publish: the work of one project is never lost.            *)
THEOREM ProgressHolds ==
  ASSUME OneProject
  PROVE  Spec => []ProgressInv
<1>1. Init => ConfigsAreKept /\ BatchesReport /\ PublishesLatest /\ GoneIsClear /\ Progress
  BY DEF Init, ConfigsAreKept, BatchesReport, PublishesLatest, GoneIsClear, Progress, Asleep, Idle,
     Unreported, Open, Exists, Gone
<1>2. TypeOK /\ ProgressInv /\ BackendInv' /\ FreshFactsHaveBuffers' /\ [Next]_vars => ProgressInv'
  BY ConfigsStep, BatchesStep, PublishesLatestStep, GoneStep, ProgressStep DEF ProgressInv
<1>3. BackendInv /\ FreshFactsHaveBuffers /\ ConfigsAreKept /\ BatchesReport /\ PublishesLatest /\ GoneIsClear /\ Progress => ProgressInv
  BY DEF ProgressInv
<1>. QED
  BY <1>1, <1>2, <1>3, BackendTypeCorrect, BackendInvHolds, FreshFactsHaveBuffersCorrect, PTL DEF Spec

(* When the tasks, the handlers and the watcher have nothing left to do,   *)
(* the editor of a one-project workspace shows the problems there are.     *)
THEOREM SettledShowsProblemsCorrect ==
  ASSUME OneProject
  PROVE  Spec => []SettledShowsProblems
<1>1. ProgressInv => SettledShowsProblems
  <2>. SUFFICES ASSUME ProgressInv, Settled, NEW f \in Files \ TestFiles, Home[f] \in OpenRoots
       PROVE  shown[f] = Problems(Current(f))
    BY DEF SettledShowsProblems
  <2>1. Home[f] \in Roots /\ ~Asleep
    BY DEF OpenRoots, Asleep, FilesOf
  <2>2. ~Working(Home[f])
    BY DEF Settled, Working, HandlerWorks, Idle
  <2>3. CaughtUp(Home[f])
    BY <2>1, <2>2 DEF ProgressInv, Progress
  <2>4. ~Unreported(File(f))
    BY DEF Settled, Unreported, Idle
  <2>. QED
    BY <2>3, <2>4 DEF CaughtUp, FilesOf
<1>. QED
  BY <1>1, ProgressHolds, PTL

(* A result that is thrown away is one that a newer task, or the handler   *)
(* that is to schedule it, will replace, or that already is replaced.      *)
LEMMA RetriedStep ==
  ASSUME ProgressInv, OneProject, [Next]_vars, NEW t \in tasks \ tasks',
         t.phase = "commit" \/ (t.phase = "publish" /\ ~Publishable(t))
  PROVE  \/ \E u \in tasks' : u.root = t.root
         \/ latest_generation > t.generation \/ (t.known /\ stale(t))
         \/ HandlerWorks(t.root)
<1>0. TypeOK /\ OneRun /\ FreshFactsHaveBuffers /\ RunInv /\ ConfigsAreKept /\ t \in tasks /\ t \in Task /\ InRun(t)
  BY DEF ProgressInv, BackendInv, RunInv, IInv, TypeOK, InRun
<1>1. CASE ~\E u \in tasks : TaskNext(u)
  <2>1. tasks \subseteq tasks'
    BY <1>1 DEF Next, ServerNext, HandlerNext, ClientNext, ChangeFile, SaveFile, did_open, did_close,
       did_change, Update, ChangeConfig, ScheduleEdit, schedule_recompute, WatchFree, WatchBusy, WatchEffects,
       watched_root_effects, vars
  <2>. QED
    BY <2>1
<1>2. ASSUME NEW u \in tasks, TaskNext(u) PROVE u = t /\ (Commit(t) \/ Publish(t))
  BY <1>2 DEF TaskNext, Elapse, Capture, Prepare, Analyze, Commit, Publish, Becomes, Ends
<1>3. CASE Commit(t) /\ pending = {} /\ Committable(t)
  BY <1>0, <1>3, TaskMoves, SameTask DEF ProgressInv, GoesOn
<1>4. ASSUME Ends(t), Working(t.root), ~Live(t) PROVE HandlerWorks(t.root) \/ \E u \in tasks' : u.root = t.root
  BY <1>4 DEF Working, Ends
<1>5. CASE (Commit(t) /\ ~(pending = {} /\ Committable(t))) \/ Publish(t)
  <2>1. Ends(t)
    BY <1>5 DEF Commit, Publish
  <2>2. ~Live(t)
    <3>1. SUFFICES ASSUME Live(t) PROVE FALSE
      OBVIOUS
    <3>2. pending = {} /\ project = t.root /\ t.root \in Roots /\ ~Doomed(t)
      BY <1>0, <3>1, PublishesResolved DEF Live
    <3>3. t.generation = generation /\ (t.known => ~stale(t)) /\ latest_generation <= t.generation
      BY <1>0, <3>1 DEF Live, FreshFactsHaveBuffers, InRun
    <3>4. CASE Publish(t)
      BY <3>2, <3>3, <3>4 DEF Publish, Publishable
    <3>5. CASE Commit(t)
      BY <1>5, <3>2, <3>3, <3>5, ConstantsAssumption DEF Commit, Committable, Doomed, Publish
    <3>. QED
      BY <1>5, <3>4, <3>5
  <2>3. Working(t.root) \/ CaughtUp(t.root)
    BY <1>0 DEF ProgressInv, Progress, Asleep, Task
  <2>4. CASE CaughtUp(t.root)
    <3>1. (t.known /\ stale(t)) \/ (t.generation # generation /\ latest_generation = generation)
      BY <1>0, <2>4 DEF CaughtUp
    <3>2. t.generation <= generation /\ t.generation \in Nat /\ generation \in Nat
      BY <1>0 DEF RunInv, IInv, CapturesAreCurrent, CaptureIsCurrent, TypeOK, Task
    <3>. QED
      BY <3>1, <3>2
  <2>. QED
    BY <1>4, <2>1, <2>2, <2>3, <2>4
<1>. QED
  BY <1>1, <1>2, <1>3, <1>5

(* recompute_and_publish, commit_recompute: no result is thrown away        *)
(* without another run to make up for it, in a workspace of one project.    *)
THEOREM DroppedRunIsRetriedCorrect ==
  ASSUME OneProject
  PROVE  Spec => DroppedRunIsRetried
<1>1. ProgressInv /\ [Next]_vars =>
        [\A t \in tasks \ tasks' :
       t.phase = "commit" \/ (t.phase = "publish" /\ ~Publishable(t)) =>
         \/ \E u \in tasks' : u.root = t.root
         \/ latest_generation > t.generation \/ (t.known /\ stale(t))
         \/ handler.kind = "watch" /\ ChangesIn(handler.batch, t.root) # {}
         \/ handler.kind \in {"open", "change", "close"} /\ Home[handler.file] = t.root
         \/ config[t.root] # "valid"]_vars
  BY RetriedStep DEF HandlerWorks
<1>. QED
  BY <1>1, ProgressHolds, PTL DEF Spec, DroppedRunIsRetried

-----------------------------------------------------------------------------
(* What requests are answered from *)

(* A request that no edit has overtaken is about the buffer as it is.      *)
RequestInv ==
  request # NoRequest =>
    /\ request.file \in Files
    /\ request.generation \in Nat /\ request.generation <= generation
    /\ request.generation = generation =>
         request.text = buffer[request.file] /\ Exists(request.text)

(* A step of the server or the client, or one of a request.                *)
LEMMA ReadsBeside ==
  ASSUME [LspNext]_readVars
  PROVE  /\ [Next]_vars
         /\ \/ Beside
            \/ ReadNext /\ UNCHANGED vars
            \/ UNCHANGED readVars
BY DEF LspNext, ServerStep, Next, ReadNext, readVars, Receive, document_symbol, formatting, Reply,
   Finish, hover, navigation, rename, completion, signature_help, symbol, semantic_tokens_full

(* Every edit has a generation of its own.                                 *)
LEMMA RequestStep ==
  ASSUME TypeOK, RequestInv, [LspNext]_readVars
  PROVE  RequestInv'
<1>. USE ConstantsAssumption
<1>0. generation \in Nat
  BY DEF TypeOK
<1>1. UNCHANGED documents \/ generation' = generation + 1
  BY GenerationStep, ReadsBeside
<1>2. CASE UNCHANGED request
  <2>. SUFFICES ASSUME request # NoRequest
       PROVE  /\ request.file \in Files
              /\ request.generation \in Nat /\ request.generation <= generation'
              /\ request.generation = generation' =>
                   request.text = buffer'[request.file] /\ Exists(request.text)
    BY <1>2 DEF RequestInv
  <2>1. /\ request.file \in Files
        /\ request.generation \in Nat /\ request.generation <= generation
    BY DEF RequestInv
  <2>2. CASE UNCHANGED documents
    BY <2>2 DEF documents, RequestInv
  <2>3. CASE generation' = generation + 1
    BY <1>0, <2>1, <2>3
  <2>. QED
    BY <1>1, <2>2, <2>3
<1>3. ASSUME NEW f \in Edited, Receive(f) PROVE RequestInv'
  BY <1>0, <1>3 DEF Receive, RequestInv, snapshot_document_and_analysis, vars, documents, Open
<1>4. CASE request' = NoRequest
  BY <1>4 DEF RequestInv
<1>5. UNCHANGED request \/ request' = NoRequest \/ \E f \in Edited : Receive(f)
  BY DEF LspNext, ServerStep, Beside, ReadNext, readVars, document_symbol, formatting, AtOnce,
     Finish, hover, navigation, rename, completion, signature_help, symbol, semantic_tokens_full
<1>. QED
  BY <1>2, <1>3, <1>4, <1>5

(* hover, goto_definition, references, rename: the best source there is    *)
(* is of the text in the editor, or soon replaced, or that does not parse. *)
LEMMA ReadSource ==
  ASSUME ProgressInv, RequestInv, request # NoRequest, ~request_superseded(request), pending = {},
         choose_read_source(request.file) # NoSnapshot
  PROVE  LET f == request.file
             s == choose_read_source(f)
         IN /\ f \in Files /\ request.text = buffer[f]
            /\ s.texts[f] = buffer[f] \/ RecomputeInFlight(Home[f]) \/ FallsBack(f)
<1>. USE ConstantsAssumption
<1>. DEFINE f == request.file
            s == choose_read_source(f)
<1>1. f \in Files /\ request.text = buffer[f] /\ Open(f) /\ Home[f] \in Roots
  BY DEF RequestInv, request_superseded, Open
<1>2. Working(Home[f]) \/ CaughtUp(Home[f])
  BY <1>1 DEF ProgressInv, Progress, Asleep
<1>3. Working(Home[f]) => RecomputeInFlight(Home[f])
  BY DEF Working, HandlerWorks, RecomputeInFlight
<1>4. ASSUME CaughtUp(Home[f]) PROVE s.texts[f] = buffer[f] \/ FallsBack(f)
  <2>1. latest.texts[f] = buffer[f]
    BY <1>1, <1>4 DEF CaughtUp, ProgressInv, FreshFactsHaveBuffers, FilesOf
  <2>2. snapshot_contains_file(latest, f)
    BY <1>1, <2>1 DEF snapshot_contains_file, Open
  <2>. QED
    BY <2>1, <2>2 DEF choose_read_source, FallsBack
<1>. QED
  BY <1>1, <1>2, <1>3, <1>4

(* completion, signature help, symbols, semantic tokens: the facts of the   *)
(* current generation, or none.                                            *)
LEMMA FreshSource ==
  ASSUME FreshFactsHaveBuffers, NEW s, s = fresh_latest_from_snapshot(generation), s # NoSnapshot
  PROVE  \A f \in FilesOf(s.root) : Open(f) => s.texts[f] = buffer[f]
BY DEF FreshFactsHaveBuffers, fresh_latest_from_snapshot, latest_matches_snapshot

(* Whatever request is answered, its answer is no staler than it may be.   *)
LEMMA AnswerStep ==
  ASSUME ProgressInv, RequestInv, StaleFactsAreBeingReplaced, [LspNext]_readVars
  PROVE  StaleFactsAreBeingReplaced'
<1>. USE ConstantsAssumption, NoneAssumption
<1>1. CASE answer' = NoAnswer
  BY <1>1 DEF NoAnswer, StaleFactsAreBeingReplaced
<1>2. CASE UNCHANGED readVars
  BY <1>2 DEF readVars, vars, documents, workspace, StaleFactsAreBeingReplaced, RecomputeInFlight,
     FallsBack, snapshot_is_good, snapshot_contains_file, Open, FilesOf
<1>3. ASSUME NEW a, answer' = a, UNCHANGED vars, a.source # NoSnapshot,
             IF a.file # None
             THEN /\ a.cursor = buffer[a.file]
                  /\ \/ a.source.texts[a.file] = a.cursor
                     \/ RecomputeInFlight(Home[a.file]) \/ FallsBack(a.file)
             ELSE \A f \in FilesOf(a.source.root) : Open(f) => a.source.texts[f] = buffer[f]
      PROVE  StaleFactsAreBeingReplaced'
  BY <1>3 DEF vars, documents, workspace, StaleFactsAreBeingReplaced, RecomputeInFlight,
     FallsBack, snapshot_is_good, snapshot_contains_file, Open, FilesOf
<1>4. ASSUME NEW free \in BOOLEAN, Finish(read_facts(free)) PROVE StaleFactsAreBeingReplaced'
  <2>0. UNCHANGED vars /\ request # NoRequest
        /\ answer' = IF request_superseded(request) THEN NoAnswer ELSE read_facts(free)
    BY <1>4 DEF Finish, Reply
  <2>1. CASE request_superseded(request) \/ ~Readable(free) \/ choose_read_source(request.file) = NoSnapshot
    BY <1>1, <2>0, <2>1 DEF read_facts, CursorAnswer
  <2>2. CASE ~request_superseded(request) /\ Readable(free) /\ choose_read_source(request.file) # NoSnapshot
    <3>1. PICK a : a = [file |-> request.file, cursor |-> request.text, source |-> choose_read_source(request.file)]
      OBVIOUS
    <3>2. answer' = a
      BY <2>0, <2>2, <3>1 DEF read_facts, CursorAnswer
    <3>3. a.file = request.file /\ a.cursor = request.text /\ a.source = choose_read_source(request.file)
      BY <3>1
    <3>. QED
      BY <1>3, <2>0, <2>2, <3>2, <3>3, ReadSource DEF Readable
  <2>. QED
    BY <2>1, <2>2
<1>5. ASSUME NEW free \in BOOLEAN, answer' = fresh_facts(generation, free), UNCHANGED vars
      PROVE  StaleFactsAreBeingReplaced'
  <2>1. CASE ~Readable(free)
    BY <1>1, <1>5, <2>1 DEF fresh_facts
  <2>2. CASE Readable(free)
    <3>1. PICK s : s = fresh_latest_from_snapshot(generation)
      OBVIOUS
    <3>2. answer'.file = None /\ answer'.source = s
      BY <1>5, <2>2, <3>1 DEF fresh_facts, AnswerFrom, NoAnswer
    <3>3. CASE s = NoSnapshot
      BY <3>2, <3>3 DEF StaleFactsAreBeingReplaced
    <3>4. CASE s # NoSnapshot
      <4>1. \A f \in FilesOf(s.root) : Open(f) => s.texts[f] = buffer[f]
        BY <3>1, <3>4, FreshSource DEF ProgressInv
      <4>2. PICK a : a = answer'
        OBVIOUS
      <4>3. a.file = None /\ a.source = s
        BY <3>2, <4>2
      <4>. QED
        BY <1>3, <1>5, <3>4, <4>1, <4>2, <4>3
    <3>. QED
      BY <3>3, <3>4
  <2>. QED
    BY <2>1, <2>2
<1>6. ASSUME NEW free \in BOOLEAN, Finish(fresh_facts(request.generation, free))
      PROVE  StaleFactsAreBeingReplaced'
  BY <1>1, <1>5, <1>6 DEF Finish, Reply, request_superseded
<1>7. ASSUME NEW f, NEW free \in BOOLEAN, semantic_tokens_full(f, free) \/ symbol(free)
      PROVE  StaleFactsAreBeingReplaced'
  BY <1>1, <1>5, <1>7 DEF semantic_tokens_full, symbol, compute_semantic_tokens, Reply
<1>8. ASSUME NEW f, Receive(f) \/ document_symbol(f) \/ formatting(f) PROVE answer' = NoAnswer
  BY <1>8 DEF Receive, document_symbol, formatting, Reply
<1>9. CASE ReadNext
  BY <1>1, <1>4, <1>6, <1>7, <1>8, <1>9
  DEF ReadNext, hover, navigation, rename, completion, signature_help
<1>10. Beside => answer' = NoAnswer
  BY DEF Beside
<1>. QED
  BY <1>1, <1>2, <1>9, <1>10, ReadsBeside

(* backend.rs, workspace.rs: an answer drawn from an older analysis is one  *)
(* that a recompute under way will replace, and a request that has no use   *)
(* for older facts never gets them.                                        *)
THEOREM StaleFactsAreBeingReplacedCorrect ==
  ASSUME OneProject
  PROVE  LspFairSpec => []StaleFactsAreBeingReplaced
<1>1. ReadInit => Init
  BY DEF ReadInit
<1>2. [LspNext]_readVars => [Next]_vars
  BY ReadsBeside
<1>3. LspFairSpec => []ProgressInv
  <2>1. LspFairSpec => Spec
    BY <1>1, <1>2, PTL DEF LspFairSpec, Spec
  <2>. QED
    BY <2>1, ProgressHolds, PTL
<1>4. ReadInit => RequestInv /\ StaleFactsAreBeingReplaced
  BY DEF ReadInit, RequestInv, StaleFactsAreBeingReplaced, NoAnswer
<1>5. ProgressInv /\ RequestInv /\ StaleFactsAreBeingReplaced /\ [LspNext]_readVars
        => (RequestInv /\ StaleFactsAreBeingReplaced)'
  <2>1. ProgressInv => TypeOK
    BY DEF ProgressInv, BackendInv, RunInv, IInv
  <2>. QED
    BY <2>1, RequestStep, AnswerStep
<1>. QED
  BY <1>3, <1>4, <1>5, PTL DEF LspFairSpec

=============================================================================
