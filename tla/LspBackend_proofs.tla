------------------------- MODULE LspBackend_proofs -------------------------
(* What TLAPS proves of LspBackend, for all projects, files and bounds.    *)
EXTENDS LspBackend, TLAPS

-----------------------------------------------------------------------------
(* Type correctness *)

(* The analysis of a task of the model gives a text, or none, per file. *)
LEMMA AnalyzeType ==
  ASSUME TypeOK, NEW t \in Task
  PROVE  analyze(t) \in [Files -> Text]
BY DEF TypeOK, Task, analyze, overlay, Text, Gone, Exists

(* A task is well typed when it is spawned and after each of its steps. *)
LEMMA NewTaskType ==
  ASSUME NEW r \in Roots, NEW known \in BOOLEAN, NEW stamp \in Nat,
         NEW scope \in {"Interactive", "Full"}
  PROVE  NewTask(r, known, stamp, scope) \in Task
BY DEF NewTask, Task, NoSnapshot, Text, Gone

(* Bumping the epochs of some roots, and of no others, is well typed. *)
LEMMA BumpType ==
  ASSUME TypeOK, NEW roots \in SUBSET Roots, bump_root_epochs(roots)
  PROVE  tracked' \subseteq Roots /\ epoch' \in [Roots -> Nat]
BY DEF TypeOK, bump_root_epochs

(* Applying invalidation bits leaves a workspace. *)
LEMMA InvalidateType ==
  ASSUME TypeOK, NEW first, NEW second, invalidate(first, second)
  PROVE  /\ project' \in Roots \cup {None} /\ latest' \in Snapshot
         /\ latest_generation' \in Nat \cup {-1} /\ invalidation_epoch' \in Nat
<1>1. NoSnapshot \in Snapshot
  BY DEF NoSnapshot, Snapshot, Gone, Text
<1>2. CountBits(first) \in Nat /\ CountBits(second) \in Nat
  BY DEF CountBits
<1>. QED
  BY <1>1, <1>2 DEF TypeOK, invalidate

(* Taking a batch leaves a queue of notices, and the batch is of notices. *)
LEMMA BatchType ==
  ASSUME TypeOK, NEW n \in 1..Len(notices), TakeBatch(n)
  PROVE  /\ notices' \in Seq(Notice)
         /\ Batch(n) \in SUBSET Notice
         /\ \A m \in Batch(n) : RootOf(m) \in Roots
<1>1. notices \in Seq(Notice)
  BY DEF TypeOK
<1>2. Batch(n) \in SUBSET Notice
  BY <1>1 DEF Batch
<1>3. \A m \in Notice : RootOf(m) \in Roots
  BY ConstantsAssumption DEF Notice, Path, RootOf, IsConfig
<1>4. notices' \in Seq(Notice)
  BY <1>1 DEF TakeBatch
<1>. QED
  BY <1>2, <1>3, <1>4

(* What a batch does to the tracker, the editor and the tasks. *)
LEMMA EffectsType ==
  ASSUME TypeOK, NEW batch, NEW roots \in SUBSET Roots, NEW drain \in BOOLEAN,
         watched_root_effects(batch, roots, drain)
  PROVE  /\ tracked' \subseteq Roots /\ epoch' \in [Roots -> Nat]
         /\ non_empty' \subseteq Files /\ shown' \in [Files -> Nat] /\ tasks' \subseteq Task
<1>1. tracked' \subseteq Roots /\ epoch' \in [Roots -> Nat]
  BY BumpType DEF watched_root_effects
<1>2. \A r \in roots : NewTask(r, TRUE, epoch'[r], "Full") \in Task
  BY <1>1, NewTaskType
<1>3. tasks' \subseteq Task
  BY <1>2 DEF watched_root_effects, TypeOK
<1>. QED
  BY <1>1, <1>3 DEF watched_root_effects, TypeOK

(* The watcher's queue grows by a notice. *)
LEMMA AppendType ==
  ASSUME TypeOK, NEW n \in Notice, notices' = Append(notices, n)
  PROVE  notices' \in Seq(Notice)
<1>1. notices \in Seq(Notice)
  BY DEF TypeOK
<1>. QED
  BY <1>1

(* Every step of the disk and of the client keeps the state well typed. *)
LEMMA ClientTypeStep == TypeOK /\ ClientNext => TypeOK'
<1>. SUFFICES ASSUME TypeOK, ClientNext PROVE TypeOK'
  OBVIOUS
<1>. USE ConstantsAssumption
<1>0. /\ \A f \in Files, d \in BOOLEAN : [path |-> File(f), deleted |-> d] \in Notice
      /\ \A r \in Roots, d \in BOOLEAN : [path |-> ConfigOf(r), deleted |-> d] \in Notice
  BY DEF Notice, Path, File, ConfigOf
<1>1. CASE \E f \in Watched, k \in {"good", "bad", "gone"} : ChangeFile(f, k)
  <2>1. PICK f \in Watched, k \in {"good", "bad", "gone"} : ChangeFile(f, k)
    BY <1>1
  <2>2. f \in Files /\ changes' \in Nat
    BY <2>1 DEF ChangeFile, Event, TypeOK
  <2>3. disk' \in [Files -> Text]
    BY <2>1, <2>2 DEF ChangeFile, TypeOK, Text
  <2>4. notices' \in Seq(Notice)
    <3>1. [path |-> File(f), deleted |-> k = "gone"] \in Notice
      BY <2>2, <1>0
    <3>2. notices' = Append(notices, [path |-> File(f), deleted |-> k = "gone"])
      BY <2>1 DEF ChangeFile
    <3>. QED
      BY <3>1, <3>2, AppendType
  <2>. QED
    BY <2>1, <2>2, <2>3, <2>4 DEF ChangeFile, TypeOK, documents, workspace, tracker
<1>2. CASE \E f \in Edited : SaveFile(f)
  <2>1. PICK f \in Edited : SaveFile(f)
    BY <1>2
  <2>2. f \in Files /\ changes' \in Nat
    BY <2>1 DEF SaveFile, Event, TypeOK
  <2>3. disk' \in [Files -> Text]
    BY <2>1, <2>2 DEF SaveFile, TypeOK
  <2>4. notices' \in Seq(Notice)
    <3>1. [path |-> File(f), deleted |-> FALSE] \in Notice
      BY <2>2, <1>0
    <3>2. notices' = Append(notices, [path |-> File(f), deleted |-> FALSE])
      BY <2>1 DEF SaveFile
    <3>. QED
      BY <3>1, <3>2, AppendType
  <2>. QED
    BY <2>1, <2>2, <2>3, <2>4 DEF SaveFile, TypeOK, documents, workspace, tracker
<1>3. ASSUME NEW f \in Files, NEW kind \in {"open", "change", "close"}, NEW text \in Text,
             Event, Update(f, kind, text)
      PROVE  TypeOK'
  <2>1. [kind |-> kind, file |-> f] \in Handler
    BY DEF Handler
  <2>. QED
    BY <1>3, <2>1 DEF Update, Event, TypeOK, workspace, tracker
<1>4. CASE \E f \in Edited : did_open(f)
  <2>1. PICK f \in Edited : did_open(f)
    BY <1>4
  <2>2. f \in Files /\ disk[f] \in Text
    BY DEF TypeOK
  <2>. QED
    BY <1>3, <2>1, <2>2 DEF did_open
<1>5. CASE \E f \in Edited : did_close(f)
  <2>1. PICK f \in Edited : did_close(f)
    BY <1>5
  <2>2. Gone \in Text
    BY DEF Gone, Text
  <2>. QED
    BY <1>3, <2>1, <2>2 DEF did_close
<1>6. CASE \E f \in Edited, k \in {"good", "bad"} : did_change(f, k)
  <2>1. PICK f \in Edited, k \in {"good", "bad"} : did_change(f, k)
    BY <1>6
  <2>2. Event /\ Update(f, "change", [rev |-> changes', kind |-> k])
    BY <2>1 DEF did_change
  <2>3. [rev |-> changes', kind |-> k] \in Text
    BY <2>2 DEF Event, TypeOK, Text
  <2>. QED
    BY <1>3, <2>2, <2>3
<1>7. CASE \E r \in Configs, c \in Config : ChangeConfig(r, c)
  <2>1. PICK r \in Configs, c \in Config : ChangeConfig(r, c)
    BY <1>7
  <2>2. r \in Roots /\ changes' \in Nat
    BY <2>1 DEF ChangeConfig, Event, TypeOK
  <2>3. config' \in [Roots -> Config]
    BY <2>1, <2>2 DEF ChangeConfig, TypeOK
  <2>4. notices' \in Seq(Notice)
    <3>1. [path |-> ConfigOf(r), deleted |-> c = "absent"] \in Notice
      BY <2>2, <1>0
    <3>2. notices' = Append(notices, [path |-> ConfigOf(r), deleted |-> c = "absent"])
      BY <2>1 DEF ChangeConfig
    <3>. QED
      BY <3>1, <3>2, AppendType
  <2>. QED
    BY <2>1, <2>2, <2>3, <2>4 DEF ChangeConfig, TypeOK, documents, workspace, tracker
<1>. QED
  BY <1>1, <1>2, <1>4, <1>5, <1>6, <1>7 DEF ClientNext

(* So does every step of a notification handler ... *)
LEMMA HandlerTypeStep == TypeOK /\ HandlerNext => TypeOK'
<1>. SUFFICES ASSUME TypeOK, HandlerNext PROVE TypeOK'
  OBVIOUS
<1>. USE ConstantsAssumption
<1>0. Idle \in Handler
  BY DEF Idle, Handler
<1>1. ASSUME NEW free \in BOOLEAN, ScheduleEdit(free) PROVE TypeOK'
  <2>. DEFINE f == handler.file
              r == Home[f]
              known == known_root(r, free)
              scope == IF handler.kind = "change" THEN "Interactive" ELSE "Full"
  <2>1. f \in Files /\ r \in Roots
    BY <1>1 DEF ScheduleEdit, TypeOK, Handler
  <2>2. tracked' \subseteq Roots /\ epoch' \in [Roots -> Nat]
    BY <1>1, <2>1, BumpType DEF ScheduleEdit
  <2>3. non_empty' \subseteq Files /\ shown' \in [Files -> Nat]
    BY <1>1, <2>1 DEF ScheduleEdit, TypeOK
  <2>4. edit_seq' \in Nat
    BY <1>1 DEF ScheduleEdit, schedule_recompute, TypeOK
  <2>5. tasks' \subseteq Task
    <3>1. tasks' = tasks \cup {NewTask(r, known, IF known THEN epoch'[r] ELSE edit_seq', scope)}
      BY <1>1 DEF ScheduleEdit, schedule_recompute
    <3>2. (IF known THEN epoch'[r] ELSE edit_seq') \in Nat /\ known \in BOOLEAN
      BY <2>1, <2>2, <2>4 DEF known_root
    <3>. QED
      BY <3>1, <3>2, <2>1, NewTaskType DEF TypeOK
  <2>. QED
    BY <1>1, <1>0, <2>2, <2>3, <2>4, <2>5
    DEF ScheduleEdit, TypeOK, client, documents, workspace
<1>2. ASSUME NEW n \in 1..Len(notices), WatchFree(n) PROVE TypeOK'
  <2>1. notices' \in Seq(Notice)
    BY <1>2, BatchType DEF WatchFree
  <2>2. /\ project' \in Roots \cup {None} /\ latest' \in Snapshot
        /\ latest_generation' \in Nat \cup {-1} /\ invalidation_epoch' \in Nat
    BY <1>2, InvalidateType DEF WatchFree
  <2>3. /\ tracked' \subseteq Roots /\ epoch' \in [Roots -> Nat]
        /\ non_empty' \subseteq Files /\ shown' \in [Files -> Nat] /\ tasks' \subseteq Task
    BY <1>2, EffectsType DEF WatchFree
  <2>. QED
    BY <1>2, <2>1, <2>2, <2>3 DEF WatchFree, TypeOK, Bits, documents
<1>3. ASSUME NEW n \in 1..Len(notices), WatchBusy(n) PROVE TypeOK'
  <2>1. notices' \in Seq(Notice) /\ Batch(n) \in SUBSET Notice
    BY <1>3, BatchType DEF WatchBusy
  <2>2. handler' \in Handler
    BY <1>3, <2>1 DEF WatchBusy, Handler
  <2>3. pending' \in Bits
    BY <1>3 DEF WatchBusy, TypeOK, Bits, busy_watched_pre_invalidation_bits, invalidation_bits
  <2>. QED
    BY <1>3, <2>1, <2>2, <2>3 DEF WatchBusy, TypeOK, documents, workspace, tracker
<1>4. CASE WatchEffects
  <2>. DEFINE noticed == {n \in handler.batch :
                            RootOf(n) \in tracked \/ IsConfig(n) \/ config[RootOf(n)] # "absent"}
  <2>1. handler.batch \in SUBSET Notice
    BY <1>4 DEF WatchEffects, TypeOK, Handler
  <2>2. {RootOf(n) : n \in noticed} \in SUBSET Roots
    BY <2>1 DEF Notice, Path, RootOf, IsConfig
  <2>3. watched_root_effects(noticed, {RootOf(n) : n \in noticed}, TRUE)
    BY <1>4 DEF WatchEffects
  <2>4. /\ tracked' \subseteq Roots /\ epoch' \in [Roots -> Nat]
        /\ non_empty' \subseteq Files /\ shown' \in [Files -> Nat] /\ tasks' \subseteq Task
    BY <2>2, <2>3, EffectsType
  <2>5. pending' \in Bits
    BY <1>4 DEF WatchEffects, TypeOK, Bits, invalidation_bits
  <2>. QED
    BY <1>4, <1>0, <2>4, <2>5 DEF WatchEffects, TypeOK, client, documents, workspace
<1>. QED
  BY <1>1, <1>2, <1>3, <1>4 DEF HandlerNext

(* ... and every step of a task. *)
LEMMA TaskTypeStep ==
  ASSUME TypeOK, NEW t \in tasks, TaskNext(t)
  PROVE  TypeOK'
<1>. USE ConstantsAssumption
<1>0. t \in Task
  BY DEF TypeOK
<1>1. CASE Elapse(t)
  <2>1. [t EXCEPT !.phase = "capture"] \in Task
    BY <1>0 DEF Task
  <2>2. tasks' \subseteq Task
    BY <1>1, <2>1 DEF Elapse, Becomes, Ends, TypeOK
  <2>. QED
    BY <1>1, <2>2 DEF Elapse, TypeOK, client, documents, workspace, tracker
<1>2. CASE Capture(t)
  <2>1. [t EXCEPT !.phase = "queued", !.generation = generation, !.buffers = buffer] \in Task
    BY <1>0 DEF Task, TypeOK
  <2>2. tasks' \subseteq Task
    BY <1>2, <2>1 DEF Capture, Becomes, TypeOK
  <2>. QED
    BY <1>2, <2>2 DEF Capture, TypeOK, client, documents, workspace, tracker
<1>3. CASE Prepare(t)
  <2>1. NoSnapshot \in Snapshot
    BY DEF NoSnapshot, Snapshot, Gone, Text
  <2>2. latest' \in Snapshot /\ latest_generation' \in Nat \cup {-1}
    BY <1>3, <2>1 DEF Prepare, TypeOK
  <2>3. invalidation_epoch' \in Nat
    BY <1>3 DEF Prepare, TypeOK, CountBits
  <2>4. project' \in Roots \cup {None}
    BY <1>3, <1>0 DEF Prepare, TypeOK, Task
  <2>5. \A b \in BOOLEAN : [t EXCEPT !.phase = "analyze", !.invalidation_epoch = invalidation_epoch',
                                    !.source_only = b] \in Task
    BY <1>0, <2>3 DEF Task
  <2>6. (t.scope = "Interactive" /\ ~any_open_test_module(t.root, t.buffers)) \in BOOLEAN
    OBVIOUS
  <2>7. tasks' \subseteq Task
    BY <1>3, <2>5, <2>6 DEF Prepare, Becomes, Ends, TypeOK
  <2>. QED
    BY <1>3, <2>2, <2>3, <2>4, <2>7 DEF Prepare, TypeOK, Bits, client, documents, tracker
<1>4. CASE Analyze(t)
  <2>1. analyze(t) \in [Files -> Text]
    BY <1>0, AnalyzeType
  <2>2. NoSnapshot.texts \in [Files -> Text]
    BY DEF NoSnapshot, Gone, Text
  <2>3. [t EXCEPT !.phase = "commit", !.texts = analyze(t), !.buffers = NoSnapshot.texts] \in Task
    BY <1>0, <2>1, <2>2 DEF Task
  <2>4. tasks' \subseteq Task
    BY <1>4, <2>3 DEF Analyze, Becomes, Ends, TypeOK
  <2>. QED
    BY <1>4, <2>4 DEF Analyze, TypeOK, client, documents, workspace, tracker
<1>5. CASE Commit(t)
  <2>1. [t EXCEPT !.phase = "publish"] \in Task
    BY <1>0 DEF Task
  <2>2. tasks' \subseteq Task
    BY <1>5, <2>1 DEF Commit, Becomes, Ends, TypeOK
  <2>3. [root |-> t.root, texts |-> t.texts] \in Snapshot /\ t.generation \in Nat
    BY <1>0 DEF Task, Snapshot
  <2>4. /\ project' \in Roots \cup {None} /\ latest' \in Snapshot
        /\ latest_generation' \in Nat \cup {-1} /\ invalidation_epoch' \in Nat
    BY <1>5, <2>3, InvalidateType DEF Commit, TypeOK
  <2>. QED
    BY <1>5, <2>2, <2>4 DEF Commit, TypeOK, Bits, client, documents, tracker
<1>6. CASE Publish(t)
  <2>1. tracked' \subseteq Roots /\ epoch' \in [Roots -> Nat] /\ non_empty' \subseteq Files
    BY <1>6, <1>0 DEF Publish, reconcile_success, TypeOK, Task, tracker
  <2>2. \A f \in Files : Problems(t.texts[f]) \in Nat
    BY <1>0 DEF Task, Text, Problems
  <2>3. shown' \in [Files -> Nat]
    <3>1. CASE Publishable(t)
      <4>1. reconcile_success(t)
        BY <1>6, <3>1 DEF Publish
      <4>. QED
        BY <2>2, <4>1 DEF reconcile_success, TypeOK
    <3>2. CASE ~Publishable(t)
      BY <1>6, <3>2 DEF Publish, TypeOK
    <3>. QED
      BY <3>1, <3>2
  <2>4. /\ project' \in Roots \cup {None} /\ latest' \in Snapshot
        /\ latest_generation' \in Nat \cup {-1} /\ invalidation_epoch' \in Nat
    BY <1>6, InvalidateType DEF Publish
  <2>5. tasks' \subseteq Task
    BY <1>6 DEF Publish, Ends, TypeOK
  <2>. QED
    BY <1>6, <2>1, <2>3, <2>4, <2>5 DEF Publish, TypeOK, Bits, client, documents
<1>. QED
  BY <1>1, <1>2, <1>3, <1>4, <1>5, <1>6 DEF TaskNext

(* At the start nothing is open, tracked or under way. *)
LEMMA InitType == Init => TypeOK
BY ConstantsAssumption
DEF Init, TypeOK, Text, Gone, Config, Snapshot, NoSnapshot, Bits, Handler, Idle, Notice

(* No step of anyone breaks the types. *)
LEMMA TypeStep == TypeOK /\ [Next]_vars => TypeOK'
<1>. SUFFICES ASSUME TypeOK, [Next]_vars PROVE TypeOK'
  OBVIOUS
<1>1. CASE ClientNext
  BY <1>1, ClientTypeStep
<1>2. CASE HandlerNext
  BY <1>2, HandlerTypeStep
<1>3. CASE \E t \in tasks : TaskNext(t)
  BY <1>3, TaskTypeStep
<1>4. CASE UNCHANGED vars
  BY <1>4 DEF vars, client, documents, workspace, tracker, TypeOK
<1>. QED
  BY <1>1, <1>2, <1>3, <1>4 DEF Next, ServerNext

(* Every reachable state of the backend is well typed. *)
THEOREM BackendTypeCorrect == Spec => []TypeOK
BY InitType, TypeStep, PTL DEF Spec

-----------------------------------------------------------------------------
(* The tracker and the editor agree on which files have problems on show.  *)
(* A publish is what could break it: a run that leaves out a file it       *)
(* empties in the editor would leave the tracker behind.  It cannot, as a  *)
(* run that may publish has analysed every open buffer of its root.        *)

Sound(text) == text.kind = "bad" => text.rev > 0

(* A text with problems has a revision of its own. *)
TextsAreSound ==
  /\ \A f \in Files : Sound(disk[f]) /\ Sound(buffer[f])
  /\ \A t \in tasks, f \in Files : Sound(t.buffers[f]) /\ Sound(t.texts[f])

(* A task whose generation is still the current one has captured, and then *)
(* analysed, the buffers as they are.                                      *)
CaptureIsCurrent(t) ==
  /\ t.generation <= generation
  /\ \A f \in Files : Home[f] # t.root => t.texts[f] = Gone
  /\ t.phase \in {"queued", "analyze"} /\ t.generation = generation => t.buffers = buffer
  /\ t.phase = "analyze" /\ t.source_only => ~any_open_test_module(t.root, t.buffers)
  /\ t.phase \in {"commit", "publish"} /\ t.generation = generation =>
       \A f \in FilesOf(t.root) : Open(f) => t.texts[f] = buffer[f]

CapturesAreCurrent == \A t \in tasks : CaptureIsCurrent(t)

IInv == TypeOK /\ TextsAreSound /\ CapturesAreCurrent /\ TrackedIsShown

-----------------------------------------------------------------------------
(* A task as it is spawned. *)
Spawned(u) ==
  /\ u.phase = "debounce" /\ u.generation = 0
  /\ u.buffers = NoSnapshot.texts /\ u.texts = NoSnapshot.texts

(* Every new task is as spawned. *)
LEMMA NewTaskSpawned ==
  ASSUME NEW root, NEW known, NEW stamp, NEW scope
  PROVE  Spawned(NewTask(root, known, stamp, scope))
BY DEF NewTask, Spawned

(* The steps of a handler leave the texts alone and only add new tasks. *)
LEMMA HandlerTasks ==
  ASSUME TypeOK, HandlerNext
  PROVE  /\ UNCHANGED <<disk, documents>>
         /\ \A u \in tasks' : u \in tasks \/ Spawned(u)
<1>. USE ConstantsAssumption
<1>1. ASSUME NEW free \in BOOLEAN, ScheduleEdit(free)
      PROVE  /\ UNCHANGED <<disk, documents>>
             /\ \A u \in tasks' : u \in tasks \/ Spawned(u)
  <2>. DEFINE r == Home[handler.file]
              known == known_root(r, free)
              scope == IF handler.kind = "change" THEN "Interactive" ELSE "Full"
              new == NewTask(r, known, IF known THEN epoch'[r] ELSE edit_seq', scope)
  <2>1. tasks' = tasks \cup {new}
    BY <1>1 DEF ScheduleEdit, schedule_recompute
  <2>2. Spawned(new)
    BY NewTaskSpawned
  <2>3. UNCHANGED <<disk, documents>>
    BY <1>1 DEF ScheduleEdit, client
  <2>4. ASSUME NEW u \in tasks' PROVE u \in tasks \/ Spawned(u)
    <3>1. u \in tasks \/ u = new
      BY <2>1
    <3>. QED
      BY <3>1, <2>2
  <2>. QED
    BY <2>3, <2>4
<1>2. ASSUME NEW batch, NEW roots, NEW drain, watched_root_effects(batch, roots, drain)
      PROVE  \A u \in tasks' : u \in tasks \/ Spawned(u)
  <2>1. ASSUME NEW u \in tasks', u \notin tasks
        PROVE  \E r : u = NewTask(r, TRUE, epoch'[r], "Full")
    BY <1>2, <2>1 DEF watched_root_effects
  <2>. QED
    BY <2>1 DEF NewTask, Spawned
<1>3. ASSUME NEW n \in 1..Len(notices), WatchFree(n)
      PROVE  /\ UNCHANGED <<disk, documents>>
             /\ \A u \in tasks' : u \in tasks \/ Spawned(u)
  BY <1>2, <1>3 DEF WatchFree
<1>4. ASSUME NEW n \in 1..Len(notices), WatchBusy(n)
      PROVE  UNCHANGED <<disk, documents, tasks>>
  BY <1>4 DEF WatchBusy
<1>5. CASE WatchEffects
  BY <1>2, <1>5 DEF WatchEffects, client
<1>. QED
  BY <1>1, <1>3, <1>4, <1>5 DEF HandlerNext

(* The client changes no task, and the documents only under a new          *)
(* generation.                                                             *)
LEMMA ClientDocuments ==
  ASSUME TypeOK, ClientNext
  PROVE  /\ UNCHANGED <<tasks, shown, tracker>>
         /\ UNCHANGED documents \/ generation' = generation + 1
<1>1. CASE \E f \in Watched, k \in {"good", "bad", "gone"} : ChangeFile(f, k)
  BY <1>1 DEF ChangeFile
<1>2. CASE \E f \in Edited : SaveFile(f)
  BY <1>2 DEF SaveFile
<1>3. ASSUME NEW f, NEW kind, NEW text, Update(f, kind, text)
      PROVE  UNCHANGED <<tasks, shown, tracker>> /\ generation' = generation + 1
  BY <1>3 DEF Update
<1>4. CASE \E f \in Edited : did_open(f) \/ did_close(f)
  BY <1>3, <1>4 DEF did_open, did_close
<1>5. CASE \E f \in Edited, k \in {"good", "bad"} : did_change(f, k)
  BY <1>3, <1>5 DEF did_change
<1>6. CASE \E r \in Configs, c \in Config : ChangeConfig(r, c)
  BY <1>6 DEF ChangeConfig
<1>. QED
  BY <1>1, <1>2, <1>4, <1>5, <1>6 DEF ClientNext

-----------------------------------------------------------------------------
(* Texts keep their revisions on their way from the client to a task. *)
LEMMA SoundStep == TypeOK /\ TextsAreSound /\ [Next]_vars => TextsAreSound'
<1>. SUFFICES ASSUME TypeOK, TextsAreSound, [Next]_vars PROVE TextsAreSound'
  OBVIOUS
<1>. USE ConstantsAssumption
<1>0. Sound(Gone) /\ \A f \in Files : NoSnapshot.texts[f] = Gone
  BY DEF Sound, Gone, NoSnapshot
<1>1. ASSUME ClientNext, \A f \in Files : Sound(disk'[f]) /\ Sound(buffer'[f])
      PROVE  TextsAreSound'
  BY <1>1, ClientDocuments DEF TextsAreSound
<1>2. CASE ClientNext
  <2>1. \A k \in {"good", "bad", "gone"} : Event => Sound([rev |-> changes', kind |-> k])
    BY DEF Event, Sound, TypeOK
  <2>2. ASSUME NEW f \in Watched, NEW k \in {"good", "bad", "gone"}, ChangeFile(f, k)
        PROVE  \A g \in Files : Sound(disk'[g]) /\ Sound(buffer'[g])
    BY <2>1, <2>2 DEF ChangeFile, TextsAreSound, TypeOK, documents
  <2>3. ASSUME NEW f \in Edited, SaveFile(f)
        PROVE  \A g \in Files : Sound(disk'[g]) /\ Sound(buffer'[g])
    BY <2>3 DEF SaveFile, TextsAreSound, TypeOK, documents
  <2>4. ASSUME NEW f \in Edited, NEW kind, NEW text, Sound(text), Update(f, kind, text)
        PROVE  \A g \in Files : Sound(disk'[g]) /\ Sound(buffer'[g])
    BY <2>4 DEF Update, TextsAreSound, TypeOK
  <2>5. ASSUME NEW f \in Edited, did_open(f) \/ did_close(f)
        PROVE  \A g \in Files : Sound(disk'[g]) /\ Sound(buffer'[g])
    BY <1>0, <2>4, <2>5 DEF did_open, did_close, TextsAreSound
  <2>6. ASSUME NEW f \in Edited, NEW k \in {"good", "bad"}, did_change(f, k)
        PROVE  \A g \in Files : Sound(disk'[g]) /\ Sound(buffer'[g])
    BY <2>1, <2>4, <2>6 DEF did_change
  <2>7. ASSUME NEW r \in Configs, NEW c \in Config, ChangeConfig(r, c)
        PROVE  \A g \in Files : Sound(disk'[g]) /\ Sound(buffer'[g])
    BY <2>7 DEF ChangeConfig, TextsAreSound, documents
  <2>. QED
    BY <1>1, <1>2, <2>2, <2>3, <2>5, <2>6, <2>7 DEF ClientNext
<1>3. CASE HandlerNext
  BY <1>0, <1>3, HandlerTasks DEF TextsAreSound, Spawned, documents
<1>4. ASSUME NEW t \in tasks, TaskNext(t) PROVE TextsAreSound'
  <2>0. t \in Task /\ UNCHANGED <<disk, buffer>>
    BY <1>4 DEF TypeOK, TaskNext, Elapse, Capture, Prepare, Analyze, Commit, Publish, client, documents
  <2>1. ASSUME NEW next, Becomes(t, next),
               \A f \in Files : Sound(next.buffers[f]) /\ Sound(next.texts[f])
        PROVE  TextsAreSound'
    BY <2>0, <2>1 DEF Becomes, TextsAreSound
  <2>2. ASSUME Ends(t) PROVE TextsAreSound'
    BY <2>0, <2>2 DEF Ends, TextsAreSound
  <2>3. \A f \in Files : Sound(t.buffers[f]) /\ Sound(t.texts[f])
    BY DEF TextsAreSound
  <2>4. CASE Elapse(t)
    <3>1. [t EXCEPT !.phase = "capture"].buffers = t.buffers
          /\ [t EXCEPT !.phase = "capture"].texts = t.texts
      BY <2>0 DEF Task
    <3>. QED
      BY <2>1, <2>2, <2>3, <2>4, <3>1 DEF Elapse
  <2>5. CASE Capture(t)
    <3>. DEFINE next == [t EXCEPT !.phase = "queued", !.generation = generation,
                                  !.buffers = buffer]
    <3>1. next.buffers = buffer /\ next.texts = t.texts
      BY <2>0 DEF Task
    <3>2. \A f \in Files : Sound(next.buffers[f]) /\ Sound(next.texts[f])
      BY <2>3, <3>1 DEF TextsAreSound
    <3>3. Becomes(t, next)
      BY <2>5 DEF Capture
    <3>. QED
      BY <2>1, <3>2, <3>3
  <2>6. CASE Prepare(t)
    <3>. DEFINE next(b) == [t EXCEPT !.phase = "analyze",
                                     !.invalidation_epoch = invalidation_epoch',
                                     !.source_only = b]
    <3>1. \A b : next(b).buffers = t.buffers /\ next(b).texts = t.texts
      BY <2>0 DEF Task
    <3>2. Ends(t) \/ \E b : Becomes(t, next(b))
      BY <2>6 DEF Prepare
    <3>. QED
      BY <2>1, <2>2, <2>3, <3>1, <3>2
  <2>7. CASE Analyze(t)
    <3>. DEFINE next == [t EXCEPT !.phase = "commit", !.texts = analyze(t),
                                  !.buffers = NoSnapshot.texts]
    <3>1. \A f \in Files : Sound(analyze(t)[f])
      BY <1>0, <2>3 DEF analyze, overlay, TextsAreSound
    <3>2. next.buffers = NoSnapshot.texts /\ next.texts = analyze(t)
      BY <2>0 DEF Task
    <3>3. \A f \in Files : Sound(next.buffers[f]) /\ Sound(next.texts[f])
      BY <1>0, <3>1, <3>2
    <3>4. Becomes(t, next) \/ Ends(t)
      BY <2>7 DEF Analyze
    <3>. QED
      BY <2>1, <2>2, <3>3, <3>4
  <2>8. CASE Commit(t)
    BY <2>0, <2>1, <2>2, <2>3, <2>8 DEF Commit, Task
  <2>9. CASE Publish(t)
    BY <2>2, <2>9 DEF Publish
  <2>. QED
    BY <1>4, <2>4, <2>5, <2>6, <2>7, <2>8, <2>9 DEF TaskNext
<1>5. CASE UNCHANGED vars
  BY <1>5 DEF vars, client, documents, TextsAreSound
<1>. QED
  BY <1>2, <1>3, <1>4, <1>5 DEF Next, ServerNext

-----------------------------------------------------------------------------
(* An open buffer is analysed: a source-only run has found no test module  *)
(* open, and no other run leaves a file out.                               *)
LEMMA AnalyzesOpenBuffers ==
  ASSUME TypeOK, NEW t \in Task, t.phase = "analyze", CaptureIsCurrent(t),
         t.generation = generation, NEW f \in FilesOf(t.root), Open(f)
  PROVE  analyze(t)[f] = buffer[f]
<1>1. f \in Files /\ Home[f] = t.root /\ t.buffers = buffer /\ Exists(buffer[f])
  BY DEF FilesOf, CaptureIsCurrent, Open
<1>2. ~(t.source_only /\ f \in TestFiles)
  BY <1>1 DEF CaptureIsCurrent, any_open_test_module
<1>. QED
  BY <1>1, <1>2 DEF analyze, overlay

(* A capture stays current or its generation is overtaken: every edit has   *)
(* a generation of its own, and the analysis leaves no open buffer out.     *)
LEMMA CapturesStep == TypeOK /\ CapturesAreCurrent /\ [Next]_vars => CapturesAreCurrent'
<1>. SUFFICES ASSUME TypeOK, CapturesAreCurrent, [Next]_vars PROVE CapturesAreCurrent'
  OBVIOUS
<1>. USE ConstantsAssumption
<1>0. generation \in Nat
  BY DEF TypeOK
<1>1. ASSUME NEW u \in Task, CaptureIsCurrent(u), UNCHANGED documents
      PROVE  CaptureIsCurrent(u)'
  BY <1>1 DEF CaptureIsCurrent, documents, Open
<1>2. CASE ClientNext
  <2>1. ASSUME NEW u \in tasks, generation' = generation + 1 PROVE CaptureIsCurrent(u)'
    <3>1. u.generation \in Nat /\ CaptureIsCurrent(u)
      BY DEF TypeOK, Task, CapturesAreCurrent
    <3>2. u.generation <= generation' /\ u.generation # generation'
      BY <1>0, <2>1, <3>1 DEF CaptureIsCurrent
    <3>. QED
      BY <3>1, <3>2 DEF CaptureIsCurrent
  <2>2. tasks' = tasks /\ (UNCHANGED documents \/ generation' = generation + 1)
    BY <1>2, ClientDocuments
  <2>. QED
    BY <1>1, <2>1, <2>2 DEF CapturesAreCurrent, TypeOK
<1>3. CASE HandlerNext
  <2>1. ASSUME NEW u, Spawned(u), UNCHANGED documents PROVE CaptureIsCurrent(u)'
    BY <1>0, <2>1 DEF Spawned, CaptureIsCurrent, documents, NoSnapshot
  <2>. QED
    BY <1>1, <1>3, <2>1, HandlerTasks DEF CapturesAreCurrent, TypeOK
<1>4. ASSUME NEW t \in tasks, TaskNext(t) PROVE CapturesAreCurrent'
  <2>0. t \in Task /\ CaptureIsCurrent(t) /\ UNCHANGED documents
    BY <1>4 DEF TypeOK, CapturesAreCurrent,
                TaskNext, Elapse, Capture, Prepare, Analyze, Commit, Publish
  <2>1. ASSUME NEW next, Becomes(t, next), CaptureIsCurrent(next)'
        PROVE  CapturesAreCurrent'
    BY <1>1, <2>0, <2>1 DEF Becomes, CapturesAreCurrent, TypeOK
  <2>2. ASSUME Ends(t) PROVE CapturesAreCurrent'
    BY <1>1, <2>0, <2>2 DEF Ends, CapturesAreCurrent, TypeOK
  <2>3. CASE Elapse(t)
    <3>. DEFINE next == [t EXCEPT !.phase = "capture"]
    <3>1. /\ next.phase = "capture" /\ next.generation = t.generation
          /\ next.root = t.root /\ next.texts = t.texts
      BY <2>0 DEF Task
    <3>2. Becomes(t, next) \/ Ends(t)
      BY <2>3 DEF Elapse
    <3>. HIDE DEF next
    <3>3. CaptureIsCurrent(next)'
      BY <2>0, <3>1 DEF CaptureIsCurrent, documents
    <3>. QED
      BY <2>1, <2>2, <3>2, <3>3
  <2>4. CASE Capture(t)
    <3>0. PICK next : next = [t EXCEPT !.phase = "queued", !.generation = generation,
                                       !.buffers = buffer]
      OBVIOUS
    <3>1. /\ next.phase = "queued" /\ next.generation = generation /\ next.buffers = buffer
          /\ next.root = t.root /\ next.texts = t.texts
      BY <2>0, <3>0 DEF Task
    <3>2. Becomes(t, next)
      BY <2>4, <3>0 DEF Capture
    <3>3. CaptureIsCurrent(next)'
      BY <1>0, <2>0, <3>1 DEF CaptureIsCurrent, documents
    <3>. QED
      BY <2>1, <3>2, <3>3
  <2>5. CASE Prepare(t)
    <3>. DEFINE only == t.scope = "Interactive" /\ ~any_open_test_module(t.root, t.buffers)
    <3>0. PICK next : next = [t EXCEPT !.phase = "analyze", !.source_only = only,
                                       !.invalidation_epoch = invalidation_epoch']
      OBVIOUS
    <3>1. /\ next.phase = "analyze" /\ next.generation = t.generation
          /\ next.buffers = t.buffers /\ next.root = t.root /\ next.texts = t.texts
      BY <2>0, <3>0 DEF Task
    <3>2. next.source_only => ~any_open_test_module(t.root, t.buffers)
      BY <2>0, <3>0 DEF Task
    <3>3. Becomes(t, next) \/ Ends(t)
      BY <2>5, <3>0 DEF Prepare
    <3>4. t.phase = "queued"
      BY <2>5 DEF Prepare
    <3>5. CaptureIsCurrent(next)'
      BY <2>0, <3>1, <3>2, <3>4 DEF CaptureIsCurrent, documents
    <3>. QED
      BY <2>1, <2>2, <3>3, <3>5
  <2>6. CASE Analyze(t)
    <3>0. PICK next : next = [t EXCEPT !.phase = "commit", !.texts = analyze(t),
                                       !.buffers = NoSnapshot.texts]
      OBVIOUS
    <3>1. /\ next.phase = "commit" /\ next.generation = t.generation
          /\ next.root = t.root /\ next.texts = analyze(t)
      BY <2>0, <3>0 DEF Task
    <3>2. Becomes(t, next) \/ Ends(t)
      BY <2>6, <3>0 DEF Analyze
    <3>3. ASSUME NEW f \in FilesOf(t.root), t.generation = generation, Open(f)
          PROVE  analyze(t)[f] = buffer[f]
      BY <2>0, <2>6, <3>3, AnalyzesOpenBuffers DEF Analyze
    <3>4. \A f \in Files : Home[f] # t.root => analyze(t)[f] = Gone
      BY DEF analyze
    <3>5. CaptureIsCurrent(next)'
      BY <2>0, <3>1, <3>3, <3>4 DEF CaptureIsCurrent, documents, Open
    <3>. QED
      BY <2>1, <2>2, <3>2, <3>5
  <2>7. CASE Commit(t)
    <3>. DEFINE next == [t EXCEPT !.phase = "publish"]
    <3>1. /\ next.phase = "publish" /\ next.generation = t.generation
          /\ next.root = t.root /\ next.texts = t.texts
      BY <2>0 DEF Task
    <3>2. t.phase = "commit" /\ (Becomes(t, next) \/ Ends(t))
      BY <2>7 DEF Commit
    <3>. HIDE DEF next
    <3>3. CaptureIsCurrent(next)'
      BY <2>0, <3>1, <3>2 DEF CaptureIsCurrent, documents, Open
    <3>. QED
      BY <2>1, <2>2, <3>2, <3>3
  <2>8. CASE Publish(t)
    BY <2>2, <2>8 DEF Publish
  <2>. QED
    BY <1>4, <2>3, <2>4, <2>5, <2>6, <2>7, <2>8 DEF TaskNext
<1>5. CASE UNCHANGED vars
  BY <1>1, <1>5 DEF vars, documents, CapturesAreCurrent, TypeOK
<1>. QED
  BY <1>2, <1>3, <1>4, <1>5 DEF Next, ServerNext

-----------------------------------------------------------------------------
(* What a handler clears in the editor it forgets, and the reverse: a      *)
(* closed file of an unknown root has nothing on show.                     *)
LEMMA HandlerShownStep == TypeOK /\ TrackedIsShown /\ HandlerNext => TrackedIsShown'
<1>. SUFFICES ASSUME TypeOK, TrackedIsShown, HandlerNext PROVE TrackedIsShown'
  OBVIOUS
<1>. USE ConstantsAssumption
<1>1. ASSUME NEW free \in BOOLEAN, ScheduleEdit(free) PROVE TrackedIsShown'
  <2>. DEFINE f == handler.file
  <2>1. f \in Files /\ shown \in [Files -> Nat] /\ tracked \subseteq tracked'
    BY <1>1 DEF ScheduleEdit, TypeOK, Handler, bump_root_epochs
  <2>2. CASE handler.kind # "close"
    <3>1. UNCHANGED <<shown, non_empty>>
      BY <1>1, <2>2 DEF ScheduleEdit
    <3>. QED
      BY <2>1, <3>1 DEF TrackedIsShown
  <2>3. CASE handler.kind = "close"
    <3>1. shown' = [shown EXCEPT ![f] = 0]
      BY <1>1, <2>3 DEF ScheduleEdit
    <3>2. non_empty' = non_empty \ {f}
      <4>1. CASE known_root(Home[f], free)
        BY <1>1, <2>3, <4>1 DEF ScheduleEdit
      <4>2. CASE ~known_root(Home[f], free)
        <5>1. non_empty' = non_empty
          BY <1>1, <2>3, <4>2 DEF ScheduleEdit
        <5>2. f \notin non_empty
          BY <4>2 DEF known_root, TrackedIsShown
        <5>. QED
          BY <5>1, <5>2
      <4>. QED
        BY <4>1, <4>2
    <3>. QED
      BY <2>1, <3>1, <3>2 DEF TrackedIsShown
  <2>. QED
    BY <2>2, <2>3
<1>2. ASSUME NEW batch, NEW roots, NEW drain, watched_root_effects(batch, roots, drain)
      PROVE  TrackedIsShown'
  <2>1. PICK cleared \in SUBSET non_empty :
          /\ non_empty' = non_empty \ cleared
          /\ shown' = [f \in Files |-> IF f \in cleared THEN 0 ELSE shown[f]]
    BY <1>2 DEF watched_root_effects
  <2>2. tracked \subseteq tracked'
    BY <1>2 DEF watched_root_effects, bump_root_epochs
  <2>. QED
    BY <2>1, <2>2 DEF TrackedIsShown, TypeOK
<1>3. ASSUME NEW n \in 1..Len(notices), WatchFree(n) \/ WatchBusy(n) PROVE TrackedIsShown'
  <2>1. CASE WatchFree(n)
    BY <1>2, <2>1 DEF WatchFree
  <2>2. CASE WatchBusy(n)
    BY <2>2 DEF WatchBusy, tracker, TrackedIsShown
  <2>. QED
    BY <1>3, <2>1, <2>2
<1>4. CASE WatchEffects
  BY <1>2, <1>4 DEF WatchEffects
<1>. QED
  BY <1>1, <1>3, <1>4 DEF HandlerNext

(* A publish that goes ahead has a current capture, so the open buffers it *)
(* reports as clean are buffers it has checked.                            *)
LEMMA PublishShownStep ==
  ASSUME IInv, NEW t \in tasks, Publish(t), Publishable(t)
  PROVE  TrackedIsShown'
<1>. DEFINE bad == {f \in Files : t.texts[f].kind = "bad"}
            checked == {f \in non_empty : covers(t, f)}
            open == {f \in FilesOf(t.root) : Open(f)}
<1>1. /\ tracked' = tracked \cup {t.root}
      /\ non_empty' = (non_empty \ checked) \cup bad
      /\ shown' = [f \in Files |-> IF f \in bad \cup checked \cup open
                                   THEN Problems(t.texts[f]) ELSE shown[f]]
  BY DEF Publish, reconcile_success
<1>2. ASSUME NEW f \in bad PROVE Problems(t.texts[f]) # 0 /\ Home[f] = t.root
  <2>1. t.texts[f].rev > 0 /\ t.texts[f].rev \in Nat
    BY DEF IInv, TextsAreSound, Sound, TypeOK, Task, Text
  <2>2. Home[f] = t.root
    BY DEF IInv, CapturesAreCurrent, CaptureIsCurrent, Gone
  <2>. QED
    BY <2>1, <2>2 DEF Problems
<1>3. ASSUME NEW f \in Files, f \notin bad PROVE Problems(t.texts[f]) = 0
  BY <1>3 DEF Problems
<1>4. ASSUME NEW f \in open, f \in non_empty PROVE f \in checked
  <2>1. t.phase = "publish" /\ t.generation = generation
    BY DEF Publish, Publishable
  <2>2. f \in FilesOf(t.root) /\ Open(f)
    OBVIOUS
  <2>3. CaptureIsCurrent(t)
    BY DEF IInv, CapturesAreCurrent
  <2>4. t.texts[f] = buffer[f]
    BY <2>1, <2>2, <2>3 DEF CaptureIsCurrent
  <2>. QED
    BY <1>4, <2>2, <2>4 DEF covers, Open, FilesOf
<1>5. ASSUME NEW f \in Files PROVE f \in non_empty' <=> shown'[f] # 0
  <2>1. f \in non_empty <=> shown[f] # 0
    BY DEF IInv, TrackedIsShown
  <2>2. CASE f \in bad
    BY <1>1, <1>2, <2>2
  <2>3. CASE f \notin bad /\ f \in checked \cup open
    BY <1>1, <1>3, <1>4, <2>3
  <2>4. CASE f \notin bad /\ f \notin checked \cup open
    BY <1>1, <2>1, <2>4
  <2>. QED
    BY <2>2, <2>3, <2>4
<1>6. non_empty' \subseteq Files
  BY <1>1 DEF IInv, TypeOK
<1>7. \A f \in non_empty' : Home[f] \in tracked'
  BY <1>1, <1>2 DEF IInv, TrackedIsShown
<1>. QED
  BY <1>5, <1>6, <1>7 DEF TrackedIsShown

(* Every other step leaves what is on show alone. *)
LEMMA ShownStep == IInv /\ [Next]_vars => TrackedIsShown'
<1>. SUFFICES ASSUME IInv, [Next]_vars PROVE TrackedIsShown'
  OBVIOUS
<1>0. TypeOK /\ TrackedIsShown
  BY DEF IInv
<1>1. ASSUME UNCHANGED <<shown, tracker>> PROVE TrackedIsShown'
  BY <1>0, <1>1 DEF TrackedIsShown, tracker
<1>2. CASE ClientNext
  BY <1>0, <1>1, <1>2, ClientDocuments
<1>3. CASE HandlerNext
  BY <1>0, <1>3, HandlerShownStep
<1>4. ASSUME NEW t \in tasks, TaskNext(t) PROVE TrackedIsShown'
  <2>1. CASE Publish(t) /\ Publishable(t)
    BY <2>1, PublishShownStep
  <2>2. CASE Publish(t) /\ ~Publishable(t)
    BY <1>1, <2>2 DEF Publish
  <2>3. CASE Elapse(t) \/ Capture(t) \/ Prepare(t) \/ Analyze(t) \/ Commit(t)
    BY <1>1, <2>3 DEF Elapse, Capture, Prepare, Analyze, Commit
  <2>. QED
    BY <1>4, <2>1, <2>2, <2>3 DEF TaskNext
<1>5. CASE UNCHANGED vars
  BY <1>1, <1>5 DEF vars
<1>. QED
  BY <1>2, <1>3, <1>4, <1>5 DEF Next, ServerNext

-----------------------------------------------------------------------------
(* The inductive invariant. *)
THEOREM BackendInvariant == Spec => []IInv
<1>1. Init => IInv
  <2>. SUFFICES ASSUME Init PROVE IInv
    OBVIOUS
  <2>1. TypeOK
    BY InitType
  <2>2. TextsAreSound
    <3>1. \A f \in Files : buffer[f] = Gone /\ disk[f].rev = 1
      BY DEF Init
    <3>. QED
      BY <3>1 DEF Init, TextsAreSound, Sound, Gone
  <2>3. CapturesAreCurrent /\ TrackedIsShown
    BY DEF Init, CapturesAreCurrent, TrackedIsShown
  <2>. QED
    BY <2>1, <2>2, <2>3 DEF IInv
<1>2. IInv /\ [Next]_vars => IInv'
  BY TypeStep, SoundStep, CapturesStep, ShownStep DEF IInv
<1>. QED
  BY <1>1, <1>2, PTL DEF Spec

(* The tracker knows exactly the files with problems on show, and a root   *)
(* for each: closing a file, deleting it or deleting a marrow.json clears  *)
(* all the problems it should.                                             *)
THEOREM TrackedIsShownCorrect == Spec => []TrackedIsShown
<1>1. IInv => TrackedIsShown
  BY DEF IInv
<1>. QED
  BY <1>1, BackendInvariant, PTL

=============================================================================
