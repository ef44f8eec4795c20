------------------------- MODULE LspBackend_safety -------------------------
(* What the server shows and serves is what there is.  A run analyses with *)
(* no lock held, and texts, buffers and projects change under it; what     *)
(* keeps a late result from the editor is the pending invalidation, the    *)
(* epoch of the last one and the generation of the buffers.  The invariant *)
(* says of a run that none of the three stops that it is of the resolved   *)
(* project and has read each file as it is, but for changes the watcher is *)
(* still to report; and, so that a deleted project stays clear, that the   *)
(* newest notice of a path is true and that a project whose                *)
(* deletion has been handled is not resolved.                              *)
EXTENDS LspBackend_proofs

(* A run that will not publish: an invalidation is waiting for it, or has   *)
(* been applied since it was prepared.                                      *)
Doomed(t) ==
  \/ pending # {}
  \/ t.phase \in {"analyze", "commit"} /\ invalidation_epoch # t.invalidation_epoch

(* One run at a time; its project is the resolved one, or it is doomed.     *)
OneRun ==
  /\ \A t, u \in tasks : InRun(t) /\ InRun(u) => t = u
  /\ \A t \in tasks : InRun(t) =>
       t.invalidation_epoch <= invalidation_epoch /\ (Doomed(t) \/ project = t.root)

(* A notice of the path is still to be taken.                               *)
Waiting(path) == \E i \in DOMAIN notices : notices[i].path = path

(* What the path names is not on disk.                                      *)
Missing(path) ==
  \/ \E r \in Roots : path = ConfigOf(r) /\ config[r] = "absent"
  \/ \E f \in Files : path = File(f) /\ ~Exists(disk[f])

(* The newest notice of a path tells whether it is there.                   *)
NewestNoticeIsTrue ==
  \A p \in Path :
    /\ \A i \in DOMAIN notices :
         notices[i].path = p =>
           \/ notices[i].deleted <=> Missing(p)
           \/ \E j \in DOMAIN notices : j > i /\ notices[j].path = p
    /\ handler.kind = "watch" =>
         \A n \in handler.batch : n.path = p => (n.deleted <=> Missing(p)) \/ Waiting(p)

(* A project whose marrow.json is known to be deleted is not resolved.      *)
DeletedIsDropped ==
  \A r \in Roots : config[r] = "absent" /\ ~Unreported(ConfigOf(r)) =>
     project # r \/ "project" \in pending

(* A run of the current buffers has read each file as it is.                *)
ReadIsCurrent ==
  \A t \in tasks : t.phase \in {"commit", "publish"} /\ t.generation = generation =>
    Doomed(t) \/ \A f \in FilesOf(t.root) : UpToDate(t.texts, f)

RunInv == IInv /\ OneRun /\ NewestNoticeIsTrue /\ DeletedIsDropped

(* The inductive invariant. *)
BackendInv == RunInv /\ ReadIsCurrent /\ DeletedConfigStaysClear

(* What is served as fresh (the document generation of the latest analysis *)
(* is the current one) has every open buffer as it is, in any number of     *)
(* projects.                                                                *)
FreshFactsHaveBuffers ==
  /\ latest_generation <= generation
  /\ latest.root # None /\ latest_generation = generation =>
       \A f \in FilesOf(latest.root) : Open(f) => latest.texts[f] = buffer[f]

-----------------------------------------------------------------------------
(* The watcher's notices *)

(* A source file is no marrow.json.                                         *)
LEMMA Paths ==
  /\ \A f, r : File(f) # ConfigOf(r)
  /\ \A r, s : ConfigOf(r) = ConfigOf(s) => r = s
  /\ \A f, g : File(f) = File(g) => f = g
  /\ \A r, b : LET n == [path |-> ConfigOf(r), deleted |-> b]
               IN n.path = ConfigOf(r) /\ n.deleted = b
  /\ \A f, b : LET n == [path |-> File(f), deleted |-> b]
               IN n.path = File(f) /\ n.deleted = b
<1>1. \A f, r : "file" \in DOMAIN File(f) /\ "file" \notin DOMAIN ConfigOf(r)
  BY DEF File, ConfigOf
<1>2. (\A r : ConfigOf(r).config = r) /\ \A f : File(f).file = f
  BY DEF ConfigOf, File
<1>. QED
  BY <1>1, <1>2

(* A path is there when its file or its project is.                         *)
LEMMA Missings ==
  /\ \A r \in Roots : /\ ConfigOf(r) \in Path
                      /\ Missing(ConfigOf(r)) <=> config[r] = "absent"
                      /\ Missing(ConfigOf(r))' <=> config'[r] = "absent"
  /\ \A f \in Files : /\ File(f) \in Path
                      /\ Missing(File(f)) <=> ~Exists(disk[f])
                      /\ Missing(File(f))' <=> ~Exists(disk'[f])
  /\ \A p \in Path : (\E r \in Roots : p = ConfigOf(r)) \/ \E f \in Files : p = File(f)
<1>1. \A p \in Path : (\E r \in Roots : p = ConfigOf(r)) \/ \E f \in Files : p = File(f)
  BY DEF Path, ConfigOf, File
<1>2. (\A r \in Roots : ConfigOf(r) \in Path) /\ \A f \in Files : File(f) \in Path
  BY DEF Path, ConfigOf, File
<1>3. ASSUME NEW r \in Roots
      PROVE  /\ Missing(ConfigOf(r)) <=> config[r] = "absent"
             /\ Missing(ConfigOf(r))' <=> config'[r] = "absent"
  BY Paths DEF Missing
<1>4. ASSUME NEW f \in Files
      PROVE  /\ Missing(File(f)) <=> ~Exists(disk[f])
             /\ Missing(File(f))' <=> ~Exists(disk'[f])
  BY Paths DEF Missing
<1>. QED
  BY <1>1, <1>2, <1>3, <1>4

(* A notice is of the root its path is under.                               *)
LEMMA NoticeRoots ==
  ASSUME NEW n \in Notice
  PROVE  /\ RootOf(n) \in Roots
         /\ \A r : n.path = ConfigOf(r) => IsConfig(n) /\ RootOf(n) = r
                                           /\ n = [path |-> ConfigOf(r), deleted |-> n.deleted]
         /\ \A f : n.path = File(f) => ~IsConfig(n) /\ RootOf(n) = Home[f]
         /\ IsConfig(n) => n.path = ConfigOf(RootOf(n))
BY ConstantsAssumption DEF Notice, Path, RootOf, IsConfig, File, ConfigOf

(* The watcher reports what happens after what happened.                    *)
LEMMA Appended ==
  ASSUME TypeOK, NEW m, notices' = Append(notices, m)
  PROVE  /\ Len(notices') = Len(notices) + 1 /\ notices'[Len(notices) + 1] = m
         /\ DOMAIN notices = 1..Len(notices) /\ DOMAIN notices' = 1..(Len(notices) + 1)
         /\ Len(notices) \in Nat
         /\ \A i \in 1..Len(notices) : notices'[i] = notices[i]
         /\ \A p : Waiting(p)' <=> Waiting(p) \/ m.path = p
<1>1. notices \in Seq(Notice)
  BY DEF TypeOK
<1>2. /\ Len(notices') = Len(notices) + 1 /\ notices'[Len(notices) + 1] = m
      /\ DOMAIN notices = 1..Len(notices) /\ DOMAIN notices' = 1..(Len(notices) + 1)
      /\ Len(notices) \in Nat
      /\ \A i \in 1..Len(notices) : notices'[i] = notices[i]
  BY <1>1
<1>3. ASSUME NEW p PROVE Waiting(p)' <=> Waiting(p) \/ m.path = p
  BY <1>2 DEF Waiting
<1>. QED
  BY <1>2, <1>3

(* A handler takes the oldest notices.                                      *)
LEMMA Taken ==
  ASSUME TypeOK, NEW n \in 1..Len(notices), TakeBatch(n)
  PROVE  /\ handler = Idle
         /\ DOMAIN notices = 1..Len(notices) /\ Len(notices) \in Nat
         /\ DOMAIN notices' = 1..(Len(notices) - n)
         /\ \A i \in 1..(Len(notices) - n) : notices'[i] = notices[i + n]
         /\ \A m \in Batch(n) : m \in Notice
         /\ \A p : Waiting(p) <=> Waiting(p)' \/ \E m \in Batch(n) : m.path = p
<1>1. notices \in Seq(Notice)
  BY DEF TypeOK
<1>2. DOMAIN notices = 1..Len(notices) /\ Len(notices) \in Nat
  BY <1>1
<1>3. DOMAIN notices' = 1..(Len(notices) - n)
      /\ \A i \in 1..(Len(notices) - n) : notices'[i] = notices[i + n]
  BY <1>1, <1>2 DEF TakeBatch
<1>4. \A m \in Batch(n) : m \in Notice
  BY <1>1, <1>2 DEF Batch
<1>5. ASSUME NEW p PROVE Waiting(p) <=> Waiting(p)' \/ \E m \in Batch(n) : m.path = p
  <2>1. ASSUME NEW i \in 1..Len(notices), notices[i].path = p
        PROVE  Waiting(p)' \/ \E m \in Batch(n) : m.path = p
    <3>1. CASE i <= n
      BY <2>1, <3>1 DEF Batch
    <3>2. CASE i > n
      <4>1. i - n \in 1..(Len(notices) - n) /\ (i - n) + n = i
        BY <1>2, <3>2
      <4>. QED
        BY <1>3, <2>1, <4>1 DEF Waiting
    <3>. QED
      BY <1>2, <3>1, <3>2
  <2>2. ASSUME NEW i \in 1..(Len(notices) - n), notices'[i].path = p PROVE Waiting(p)
    <3>1. i + n \in 1..Len(notices) /\ notices[i + n].path = p
      BY <1>2, <1>3, <2>2
    <3>. QED
      BY <1>2, <3>1 DEF Waiting
  <2>3. ASSUME NEW m \in Batch(n), m.path = p PROVE Waiting(p)
    BY <1>2, <2>3 DEF Batch, Waiting
  <2>. QED
    BY <1>2, <1>3, <2>1, <2>2, <2>3 DEF Waiting
<1>. QED
  BY <1>2, <1>3, <1>4, <1>5 DEF TakeBatch

(* The last notice of a path is the truth about it, also once it is taken.  *)
LEMMA TakenIsTrue ==
  ASSUME TypeOK, NewestNoticeIsTrue, NEW n \in 1..Len(notices), TakeBatch(n),
         NEW p \in Path, NEW m \in Batch(n), m.path = p, ~Waiting(p)'
  PROVE  m.deleted <=> Missing(p)
<1>1. PICK i \in 1..n : notices[i] = m
  BY DEF Batch
<1>2. i \in DOMAIN notices /\ i \in Nat /\ n \in Nat
  BY Taken
<1>3. ASSUME NEW j \in DOMAIN notices, j > i, notices[j].path = p PROVE FALSE
  <2>1. j \in 1..Len(notices)
    BY <1>3, Taken
  <2>2. j \notin 1..n
    BY <1>1, <1>2, <1>3, <2>1 DEF TakeBatch
  <2>3. j - n \in 1..(Len(notices) - n) /\ (j - n) + n = j
    BY <1>2, <2>1, <2>2, Taken
  <2>4. PICK k : k = j - n
    OBVIOUS
  <2>5. k \in DOMAIN notices' /\ notices'[k] = notices[j]
    BY <2>3, <2>4, Taken
  <2>. QED
    BY <1>3, <2>5 DEF Waiting
<1>. QED
  BY <1>1, <1>2, <1>3 DEF NewestNoticeIsTrue

(* Handlers other than a watcher's, and tasks, take no notice.              *)
LEMMA NoticesFrame ==
  ASSUME NewestNoticeIsTrue, UNCHANGED <<notices, config, disk>>,
         handler' = handler \/ handler'.kind # "watch"
  PROVE  NewestNoticeIsTrue'
BY DEF NewestNoticeIsTrue, Waiting, Missing

(* A path is reported as it has become.                                     *)
LEMMA NoticesAppend ==
  ASSUME TypeOK, NewestNoticeIsTrue, NEW m, notices' = Append(notices, m), UNCHANGED handler,
         \A p \in Path : IF m.path = p THEN m.deleted <=> Missing(p)' ELSE Missing(p)' <=> Missing(p)
  PROVE  NewestNoticeIsTrue'
<1>. SUFFICES ASSUME NEW p \in Path
     PROVE  /\ \A i \in DOMAIN notices' : notices'[i].path = p =>
                 \/ notices'[i].deleted <=> Missing(p)'
                 \/ \E j \in DOMAIN notices' : j > i /\ notices'[j].path = p
            /\ handler.kind = "watch" =>
                 \A n \in handler.batch : n.path = p =>
                   (n.deleted <=> Missing(p)') \/ Waiting(p)'
  BY DEF NewestNoticeIsTrue
<1>1. CASE m.path = p
  <2>1. Len(notices) + 1 \in DOMAIN notices' /\ notices'[Len(notices) + 1] = m
    BY Appended
  <2>2. \A i \in DOMAIN notices' : i = Len(notices) + 1 \/ Len(notices) + 1 > i
    BY Appended
  <2>. QED
    BY <1>1, <2>1, <2>2, Appended
<1>2. CASE m.path # p
  <2>1. Missing(p)' <=> Missing(p)
    BY <1>2
  <2>2. \A i \in DOMAIN notices' : notices'[i].path = p =>
          i \in DOMAIN notices /\ notices[i] = notices'[i]
    <3>1. \A i \in DOMAIN notices' : i \in 1..Len(notices) \/ i = Len(notices) + 1
      BY Appended
    <3>. QED
      BY <1>2, <3>1, Appended
  <2>3. \A j \in DOMAIN notices : j \in DOMAIN notices' /\ notices'[j] = notices[j]
    BY Appended
  <2>4. Waiting(p) => Waiting(p)'
    BY Appended
  <2>. QED
    BY <2>1, <2>2, <2>3, <2>4 DEF NewestNoticeIsTrue
<1>. QED
  BY <1>1, <1>2

(* Taking notices keeps the newest of each path.                            *)
LEMMA NoticesTaken ==
  ASSUME TypeOK, NewestNoticeIsTrue, NEW n \in 1..Len(notices), TakeBatch(n), UNCHANGED <<config, disk>>,
         handler' = handler \/ handler' = [kind |-> "watch", batch |-> Batch(n)]
  PROVE  NewestNoticeIsTrue'
<1>0. \A p \in Path : Missing(p)' <=> Missing(p)
  BY DEF Missing
<1>. SUFFICES ASSUME NEW p \in Path
     PROVE  /\ \A i \in DOMAIN notices' : notices'[i].path = p =>
                 \/ notices'[i].deleted <=> Missing(p)
                 \/ \E j \in DOMAIN notices' : j > i /\ notices'[j].path = p
            /\ handler'.kind = "watch" =>
                 \A m \in handler'.batch : m.path = p =>
                   (m.deleted <=> Missing(p)) \/ Waiting(p)'
  BY <1>0 DEF NewestNoticeIsTrue
<1>1. ASSUME NEW i \in DOMAIN notices', notices'[i].path = p
      PROVE  \/ notices'[i].deleted <=> Missing(p)
             \/ \E j \in DOMAIN notices' : j > i /\ notices'[j].path = p
  <2>1. i \in 1..(Len(notices) - n) /\ notices'[i] = notices[i + n] /\ i + n \in DOMAIN notices
    BY Taken
  <2>2. CASE notices[i + n].deleted <=> Missing(p)
    BY <2>1, <2>2
  <2>3. ASSUME NEW j \in DOMAIN notices, j > i + n, notices[j].path = p
        PROVE  \E k \in DOMAIN notices' : k > i /\ notices'[k].path = p
    <3>1. j - n \in 1..(Len(notices) - n) /\ (j - n) + n = j /\ j - n > i
      BY <2>1, <2>3, Taken
    <3>2. PICK k : k = j - n
      OBVIOUS
    <3>3. k \in DOMAIN notices' /\ notices'[k] = notices[j] /\ k > i
      BY <3>1, <3>2, Taken
    <3>. QED
      BY <2>3, <3>3
  <2>. QED
    BY <1>1, <2>1, <2>2, <2>3 DEF NewestNoticeIsTrue
<1>2. ASSUME handler'.kind = "watch", NEW m \in handler'.batch, m.path = p
      PROVE  (m.deleted <=> Missing(p)) \/ Waiting(p)'
  <2>1. handler' # handler
    BY <1>2, Taken DEF Idle
  <2>2. m \in Batch(n)
    BY <1>2, <2>1
  <2>. QED
    BY <1>2, <2>2, TakenIsTrue
<1>. QED
  BY <1>1, <1>2

(* No step makes the newest notice of a path false.                         *)
LEMMA NoticesStep ==
  ASSUME TypeOK, NewestNoticeIsTrue, [Next]_vars
  PROVE  NewestNoticeIsTrue'
<1>. USE ConstantsAssumption
<1>1. ASSUME NEW f \in Files, NEW text, disk' = [disk EXCEPT ![f] = text], UNCHANGED <<config, handler>>,
             notices' = Append(notices, [path |-> File(f), deleted |-> ~Exists(text)])
      PROVE  NewestNoticeIsTrue'
  <2>. DEFINE m == [path |-> File(f), deleted |-> ~Exists(text)]
  <2>1. ASSUME NEW p \in Path
        PROVE  IF m.path = p THEN m.deleted <=> Missing(p)' ELSE Missing(p)' <=> Missing(p)
    <3>1. disk \in [Files -> Text]
      BY DEF TypeOK
    <3>2. ASSUME NEW g \in Files, p = File(g)
          PROVE  IF m.path = p THEN m.deleted <=> Missing(p)' ELSE Missing(p)' <=> Missing(p)
      <4>1. File(f) = File(g) => f = g
        BY Paths
      <4>2. disk'[g] = IF f = g THEN text ELSE disk[g]
        BY <1>1, <3>1
      <4>. QED
        BY <3>2, <4>1, <4>2, Missings
    <3>3. ASSUME NEW r \in Roots, p = ConfigOf(r)
          PROVE  m.path # p /\ (Missing(p)' <=> Missing(p))
      BY <1>1, <3>3, Missings, Paths
    <3>. QED
      BY <3>2, <3>3, Missings
  <2>. QED
    BY <1>1, <2>1, NoticesAppend
<1>2. ASSUME NEW f \in Files, NEW k, ChangeFile(f, k) \/ SaveFile(f) PROVE NewestNoticeIsTrue'
  <2>1. CASE ChangeFile(f, k)
    BY <1>1, <2>1 DEF ChangeFile, Exists
  <2>2. CASE SaveFile(f)
    <3>1. Exists(buffer[f])
      BY <2>2 DEF SaveFile, Open
    <3>2. [path |-> File(f), deleted |-> FALSE] = [path |-> File(f), deleted |-> ~Exists(buffer[f])]
      BY <3>1
    <3>. QED
      BY <1>1, <2>2, <3>2 DEF SaveFile
  <2>. QED
    BY <1>2, <2>1, <2>2
<1>3. ASSUME NEW s \in Roots, NEW c, ChangeConfig(s, c) PROVE NewestNoticeIsTrue'
  <2>. DEFINE m == [path |-> ConfigOf(s), deleted |-> c = "absent"]
  <2>1. ASSUME NEW p \in Path
        PROVE  IF m.path = p THEN m.deleted <=> Missing(p)' ELSE Missing(p)' <=> Missing(p)
    <3>1. config' = [config EXCEPT ![s] = c] /\ config \in [Roots -> Config] /\ UNCHANGED disk
      BY <1>3 DEF ChangeConfig, TypeOK
    <3>2. ASSUME NEW r \in Roots, p = ConfigOf(r)
          PROVE  IF m.path = p THEN m.deleted <=> Missing(p)' ELSE Missing(p)' <=> Missing(p)
      BY <3>1, <3>2, Missings, Paths
    <3>3. ASSUME NEW g \in Files, p = File(g)
          PROVE  m.path # p /\ (Missing(p)' <=> Missing(p))
      BY <3>1, <3>3, Missings, Paths
    <3>. QED
      BY <3>2, <3>3, Missings
  <2>2. notices' = Append(notices, m) /\ UNCHANGED handler
    BY <1>3 DEF ChangeConfig
  <2>. QED
    BY <2>1, <2>2, NoticesAppend
<1>4. ASSUME NEW f, NEW kind \in {"open", "change", "close"}, NEW text, Update(f, kind, text)
      PROVE  NewestNoticeIsTrue'
  BY <1>4, NoticesFrame DEF Update
<1>5. CASE ClientNext
  <2>1. ASSUME NEW f \in Edited, did_open(f) \/ did_close(f) \/ \E k : did_change(f, k)
        PROVE  NewestNoticeIsTrue'
    BY <1>4, <2>1 DEF did_open, did_close, did_change
  <2>. QED
    BY <1>2, <1>3, <1>5, <2>1 DEF ClientNext
<1>6. CASE HandlerNext
  <2>1. CASE WatchEffects \/ \E free \in BOOLEAN : ScheduleEdit(free)
    <3>1. UNCHANGED <<notices, config, disk>> /\ handler' = Idle
      BY <2>1 DEF WatchEffects, ScheduleEdit, client
    <3>. QED
      BY <3>1, NoticesFrame DEF Idle
  <2>2. ASSUME NEW n \in 1..Len(notices), WatchFree(n) \/ WatchBusy(n) PROVE NewestNoticeIsTrue'
    BY <2>2, NoticesTaken DEF WatchFree, WatchBusy
  <2>. QED
    BY <1>6, <2>1, <2>2 DEF HandlerNext
<1>7. CASE \E t \in tasks : TaskNext(t)
  BY <1>7, NoticesFrame DEF TaskNext, Elapse, Capture, Prepare, Analyze, Commit, Publish, client
<1>8. CASE UNCHANGED vars
  BY <1>8, NoticesFrame DEF vars, client
<1>. QED
  BY <1>5, <1>6, <1>7, <1>8 DEF Next, ServerNext

-----------------------------------------------------------------------------
(* One run at a time *)

(* No run starts and no invalidation is forgotten.                          *)
LEMMA RunFrame ==
  ASSUME OneRun, \A u \in tasks' : InRun(u) => u \in tasks,
         pending \subseteq pending', UNCHANGED <<project, invalidation_epoch>>
  PROVE  OneRun'
BY DEF OneRun, Doomed

(* An invalidation moves the epoch past that of every run before it.        *)
LEMMA InvalidatedIsDoomed ==
  ASSUME TypeOK, OneRun, NEW bits, invalidate(pending, bits), ~(pending = {} /\ bits = {}),
         NEW u \in tasks, InRun(u), u.phase # "publish"
  PROVE  u.invalidation_epoch <= invalidation_epoch' /\ Doomed(u)'
<1>1. /\ invalidation_epoch \in Nat /\ invalidation_epoch' \in Nat
      /\ invalidation_epoch' > invalidation_epoch
  BY DEF invalidate, CountBits, TypeOK
<1>2. u.phase \in {"analyze", "commit"}
  BY DEF InRun
<1>3. u.invalidation_epoch \in Nat /\ u.invalidation_epoch <= invalidation_epoch
  BY DEF OneRun, TypeOK, Task
<1>. QED
  BY <1>1, <1>2, <1>3 DEF Doomed

(* An invalidation dooms the run under way.                                 *)
LEMMA RunInvalidated ==
  ASSUME TypeOK, OneRun, \A u \in tasks' : InRun(u) => u \in tasks /\ u.phase # "publish",
         NEW bits, invalidate(pending, bits)
  PROVE  OneRun'
<1>1. CASE pending = {} /\ bits = {}
  <2>1. UNCHANGED <<project, invalidation_epoch>>
    BY <1>1 DEF invalidate, CountBits, TypeOK
  <2>. QED
    BY <1>1, <2>1, RunFrame
<1>2. CASE ~(pending = {} /\ bits = {})
  BY <1>2, InvalidatedIsDoomed DEF OneRun
<1>. QED
  BY <1>1, <1>2

(* When the only run goes on or ends, there is no other.                    *)
LEMMA OnlyRun ==
  ASSUME OneRun, NEW t \in tasks, InRun(t)
  PROVE  /\ \A next : Becomes(t, next) => \A u \in tasks' : InRun(u) => u = next
         /\ Ends(t) => \A u \in tasks' : ~InRun(u)
BY DEF OneRun, Becomes, Ends

(* A run starts with the epoch and the project of that moment.              *)
LEMMA RunPrepares ==
  ASSUME TypeOK, NEW t \in tasks, Prepare(t)
  PROVE  /\ invalidation_epoch' \in Nat /\ pending' = {}
         /\ \A u \in tasks' : InRun(u) =>
              /\ u.phase = "analyze" /\ u.root = t.root
              /\ u.invalidation_epoch = invalidation_epoch' /\ project' = u.root
              /\ Becomes(t, u)
<1>. DEFINE only == t.scope = "Interactive" /\ ~any_open_test_module(t.root, t.buffers)
<1>0. t \in Task /\ \A u \in tasks : ~InRun(u)
  BY DEF Prepare, TypeOK
<1>1. PICK next : next = [t EXCEPT !.phase = "analyze", !.source_only = only,
                                   !.invalidation_epoch = invalidation_epoch']
  OBVIOUS
<1>2. next.phase = "analyze" /\ next.invalidation_epoch = invalidation_epoch' /\ next.root = t.root
  BY <1>0, <1>1 DEF Task
<1>3. Ends(t) \/ (Becomes(t, next) /\ project' = t.root)
  BY <1>1 DEF Prepare
<1>4. ASSUME NEW u \in tasks', InRun(u) PROVE u = next /\ Becomes(t, next) /\ project' = t.root
  BY <1>0, <1>3, <1>4 DEF Ends, Becomes
<1>5. invalidation_epoch' \in Nat /\ pending' = {}
  BY DEF Prepare, TypeOK, CountBits
<1>. QED
  BY <1>2, <1>4, <1>5

(* A run keeps what it was prepared with while it analyses.                 *)
LEMMA RunAnalyzes ==
  ASSUME TypeOK, OneRun, NEW t \in tasks, Analyze(t)
  PROVE  \A u \in tasks' : InRun(u) =>
           /\ u.phase = "commit" /\ u.root = t.root /\ u.generation = t.generation
           /\ u.invalidation_epoch = t.invalidation_epoch /\ u.texts = analyze(t)
<1>0. t \in Task /\ InRun(t)
  BY DEF Analyze, TypeOK, InRun
<1>1. PICK next : next = [t EXCEPT !.phase = "commit", !.texts = analyze(t),
                                   !.buffers = NoSnapshot.texts]
  OBVIOUS
<1>2. /\ next.phase = "commit" /\ next.root = t.root /\ next.generation = t.generation
      /\ next.invalidation_epoch = t.invalidation_epoch /\ next.texts = analyze(t)
  BY <1>0, <1>1 DEF Task
<1>3. Becomes(t, next) \/ Ends(t)
  BY <1>1 DEF Analyze
<1>. QED
  BY <1>0, <1>2, <1>3, OnlyRun

(* A run is committed only when no invalidation came since it started.      *)
LEMMA RunCommits ==
  ASSUME TypeOK, OneRun, NEW t \in tasks, Commit(t)
  PROVE  /\ pending' = {} /\ (pending # {} => \A u \in tasks' : ~InRun(u))
         /\ \A u \in tasks' : InRun(u) =>
              /\ u.phase = "publish" /\ u.root = t.root /\ u.generation = t.generation
              /\ u.invalidation_epoch = t.invalidation_epoch /\ u.texts = t.texts
              /\ pending = {} /\ Committable(t) /\ ~Doomed(t)
              /\ UNCHANGED <<project, invalidation_epoch>>
              /\ latest' = [root |-> t.root, texts |-> t.texts] /\ latest_generation' = t.generation
<1>0. t \in Task /\ InRun(t)
  BY DEF Commit, TypeOK, InRun
<1>1. PICK next : next = [t EXCEPT !.phase = "publish"]
  OBVIOUS
<1>2. /\ next.phase = "publish" /\ next.root = t.root /\ next.generation = t.generation
      /\ next.invalidation_epoch = t.invalidation_epoch /\ next.texts = t.texts
  BY <1>0, <1>1 DEF Task
<1>3. CASE pending = {} /\ Committable(t)
  <2>1. Becomes(t, next) /\ UNCHANGED <<project, invalidation_epoch>>
        /\ latest' = [root |-> t.root, texts |-> t.texts] /\ latest_generation' = t.generation
    BY <1>1, <1>3 DEF Commit
  <2>2. ~Doomed(t)
    BY <1>3 DEF Doomed, Committable
  <2>3. \A u \in tasks' : InRun(u) => u = next
    BY <1>0, <2>1, OnlyRun
  <2>. QED
    BY <1>2, <1>3, <2>1, <2>2, <2>3 DEF Commit
<1>4. CASE ~(pending = {} /\ Committable(t))
  BY <1>0, <1>4, OnlyRun DEF Commit
<1>. QED
  BY <1>3, <1>4

(* analysis_run lets one run at a time past its capture.                    *)
LEMMA RunStep ==
  ASSUME TypeOK, OneRun, [Next]_vars
  PROVE  OneRun'
<1>0. ASSUME TypeOK, HandlerNext PROVE \A u \in tasks' : InRun(u) => u \in tasks
  BY <1>0, HandlerTasks DEF Spawned, InRun
<1>1. CASE ClientNext
  <2>1. UNCHANGED <<tasks, workspace, pending>>
    BY <1>1 DEF ClientNext, ChangeFile, SaveFile, did_open, did_close, did_change, Update, ChangeConfig
  <2>. QED
    BY <2>1, RunFrame DEF workspace
<1>2. ASSUME NEW free \in BOOLEAN, ScheduleEdit(free) PROVE OneRun'
  BY <1>0, <1>2, RunFrame DEF HandlerNext, ScheduleEdit, workspace
<1>3. ASSUME NEW n \in 1..Len(notices), WatchBusy(n) PROVE OneRun'
  BY <1>3, RunFrame DEF WatchBusy, workspace
<1>4. CASE WatchEffects
  BY <1>0, <1>4, RunFrame DEF HandlerNext, WatchEffects, workspace
<1>5. ASSUME NEW n \in 1..Len(notices), WatchFree(n) PROVE OneRun'
  <2>1. PICK bits : invalidate(pending, bits)
    BY <1>5 DEF WatchFree
  <2>2. \A u \in tasks' : InRun(u) => u \in tasks /\ u.phase # "publish"
    BY <1>0, <1>5 DEF HandlerNext, WatchFree, AnalysisFree
  <2>. QED
    BY <2>1, <2>2, RunInvalidated
<1>6. ASSUME NEW t \in tasks, Elapse(t) \/ Capture(t) PROVE OneRun'
  <2>1. t \in Task /\ UNCHANGED <<workspace, pending>>
    BY <1>6 DEF Elapse, Capture, TypeOK
  <2>2. PICK next : ~InRun(next) /\ (Becomes(t, next) \/ Ends(t))
    <3>. DEFINE one == [t EXCEPT !.phase = "capture"]
                two == [t EXCEPT !.phase = "queued", !.generation = generation, !.buffers = buffer]
    <3>1. one.phase = "capture" /\ two.phase = "queued"
      BY <2>1 DEF Task
    <3>2. Becomes(t, one) \/ Becomes(t, two) \/ Ends(t)
      BY <1>6 DEF Elapse, Capture
    <3>. QED
      BY <3>1, <3>2 DEF InRun
  <2>3. \A u \in tasks' : InRun(u) => u \in tasks
    BY <2>2 DEF Becomes, Ends
  <2>. QED
    BY <2>1, <2>3, RunFrame DEF workspace
<1>7. ASSUME NEW t \in tasks, Prepare(t) PROVE OneRun'
  <2>1. \A u \in tasks : ~InRun(u)
    BY <1>7 DEF Prepare
  <2>2. \A u, v \in tasks' : InRun(u) /\ InRun(v) => u = v
    BY <1>7, <2>1, RunPrepares DEF Becomes
  <2>. QED
    BY <1>7, <2>2, RunPrepares DEF OneRun
<1>8. ASSUME NEW t \in tasks, Analyze(t) PROVE OneRun'
  <2>1. \A u, v \in tasks' : InRun(u) /\ InRun(v) => u = v
    BY <1>8 DEF Analyze, Becomes, Ends, OneRun, InRun
  <2>2. InRun(t) /\ t.phase = "analyze" /\ UNCHANGED <<workspace, pending>>
    BY <1>8 DEF Analyze, InRun
  <2>. QED
    BY <1>8, <2>1, <2>2, RunAnalyzes DEF OneRun, Doomed, workspace
<1>9. ASSUME NEW t \in tasks, Commit(t) PROVE OneRun'
  <2>1. \A u, v \in tasks' : InRun(u) /\ InRun(v) => u = v
    BY <1>9 DEF Commit, Becomes, Ends, OneRun, InRun
  <2>2. InRun(t)
    BY <1>9 DEF Commit, InRun
  <2>. QED
    BY <1>9, <2>1, <2>2, RunCommits DEF OneRun
<1>10. ASSUME NEW t \in tasks, Publish(t) PROVE OneRun'
  <2>1. \A u \in tasks' : ~InRun(u)
    BY <1>10, OnlyRun DEF Publish, InRun
  <2>. QED
    BY <2>1 DEF OneRun
<1>11. CASE UNCHANGED vars
  BY <1>11, RunFrame DEF vars, workspace
<1>. QED
  BY <1>1, <1>2, <1>3, <1>4, <1>5, <1>6, <1>7, <1>8, <1>9, <1>10, <1>11
  DEF Next, ServerNext, HandlerNext, TaskNext

-----------------------------------------------------------------------------
(* What has been reported *)

(* What is unreported waits, or a handler has it in hand.                   *)
LEMMA UnreportedWaits ==
  \A p : Unreported(p) <=> \/ Waiting(p)
                           \/ handler.kind = "watch" /\ \E m \in handler.batch : m.path = p
BY DEF Unreported, Waiting

(* An idle handler has reported all it took.                                *)
LEMMA UnreportedTaken ==
  ASSUME TypeOK, NEW n \in 1..Len(notices)
  PROVE  /\ WatchFree(n) => \A p : Unreported(p) <=> Unreported(p)' \/ \E m \in Batch(n) : m.path = p
         /\ WatchBusy(n) => \A p : Unreported(p)' <=> Unreported(p)
<1>1. ASSUME TakeBatch(n)
      PROVE  \A p : Unreported(p) <=> Waiting(p)' \/ \E m \in Batch(n) : m.path = p
  BY <1>1, UnreportedWaits, Taken DEF Idle
<1>2. ASSUME WatchFree(n), NEW p
      PROVE  Unreported(p) <=> Unreported(p)' \/ \E m \in Batch(n) : m.path = p
  <2>1. Unreported(p)' <=> Waiting(p)'
    BY <1>2, Taken DEF WatchFree, Unreported, Waiting, Idle
  <2>. QED
    BY <1>1, <1>2, <2>1 DEF WatchFree
<1>3. ASSUME WatchBusy(n), NEW p PROVE Unreported(p)' <=> Unreported(p)
  <2>1. Unreported(p)' <=> Waiting(p)' \/ \E m \in Batch(n) : m.path = p
    BY <1>3 DEF WatchBusy, Unreported, Waiting
  <2>. QED
    BY <1>1, <1>3, <2>1 DEF WatchBusy
<1>. QED
  BY <1>2, <1>3

(* The effects of a batch finish with its notices.                          *)
LEMMA UnreportedEffects ==
  ASSUME WatchEffects
  PROVE  \A p : /\ Unreported(p)' <=> Waiting(p)
                /\ Unreported(p) <=> Unreported(p)' \/ \E m \in handler.batch : m.path = p
BY DEF WatchEffects, Unreported, Waiting, client, Idle

(* Nothing is reported by the client, by an edit's handler or by a task.    *)
LEMMA UnreportedKept ==
  ASSUME TypeOK, ClientNext \/ (\E free \in BOOLEAN : ScheduleEdit(free)) \/ \E t \in tasks : TaskNext(t)
  PROVE  \A p : Unreported(p) => Unreported(p)'
<1>1. ASSUME UNCHANGED notices, UNCHANGED handler \/ handler.kind # "watch"
      PROVE  \A p : Unreported(p) => Unreported(p)'
  BY <1>1 DEF Unreported
<1>2. ASSUME NEW m, notices' = Append(notices, m), UNCHANGED handler
      PROVE  \A p : Unreported(p) => Unreported(p)'
  BY <1>2, Appended, UnreportedWaits DEF Unreported, Waiting
<1>3. CASE ClientNext
  <2>1. ASSUME NEW f, NEW kind, NEW text, Update(f, kind, text)
        PROVE  \A p : Unreported(p) => Unreported(p)'
    BY <1>1, <2>1 DEF Update, Idle
  <2>2. ASSUME NEW f, did_open(f) \/ did_close(f) \/ \E k : did_change(f, k)
        PROVE  \A p : Unreported(p) => Unreported(p)'
    BY <2>1, <2>2 DEF did_open, did_close, did_change
  <2>. QED
    BY <1>2, <1>3, <2>2 DEF ClientNext, ChangeFile, SaveFile, ChangeConfig
<1>4. CASE \E free \in BOOLEAN : ScheduleEdit(free)
  BY <1>1, <1>4 DEF ScheduleEdit, client
<1>5. CASE \E t \in tasks : TaskNext(t)
  BY <1>1, <1>5 DEF TaskNext, Elapse, Capture, Prepare, Analyze, Commit, Publish, client
<1>. QED
  BY <1>3, <1>4, <1>5

-----------------------------------------------------------------------------
(* A deleted marrow.json *)

(* A deletion not yet reported is not newly reported.                       *)
LEMMA DroppedFrame ==
  ASSUME DeletedIsDropped, project' \in {project, None}, "project" \in pending => "project" \in pending' \/ project' = None,
         \A r \in Roots : config'[r] = "absent" /\ ~Unreported(ConfigOf(r))' =>
           config[r] = "absent" /\ ~Unreported(ConfigOf(r))
  PROVE  DeletedIsDropped'
BY ConstantsAssumption DEF DeletedIsDropped

(* Applying the bits left for a task drops a project they name.             *)
LEMMA InvalidationDrops ==
  ASSUME NEW bits, invalidate(pending, bits)
  PROVE  /\ project' \in {project, None}
         /\ "project" \in pending \cup bits => project' = None
BY DEF invalidate

(* A marrow.json that is deleted is reported: the client never makes a      *)
(* deletion known.                                                          *)
LEMMA ClientDeletions ==
  ASSUME TypeOK, ClientNext, NEW r \in Roots, config'[r] = "absent", ~Unreported(ConfigOf(r))'
  PROVE  config[r] = "absent" /\ ~Unreported(ConfigOf(r))
<1>. USE ConstantsAssumption
<1>1. ~Unreported(ConfigOf(r))
  BY UnreportedKept
<1>2. ASSUME NEW s \in Configs, NEW c \in Config, ChangeConfig(s, c) PROVE config[r] = "absent"
  <2>1. config' = [config EXCEPT ![s] = c] /\ config \in [Roots -> Config]
        /\ notices' = Append(notices, [path |-> ConfigOf(s), deleted |-> c = "absent"])
    BY <1>2 DEF ChangeConfig, TypeOK
  <2>2. Waiting(ConfigOf(s))'
    BY <2>1, Appended, Paths
  <2>3. Unreported(ConfigOf(s))'
    BY <2>2 DEF Unreported, Waiting
  <2>4. r # s
    BY <2>3
  <2>. QED
    BY <2>1, <2>4
<1>3. CASE UNCHANGED config
  BY <1>1, <1>3
<1>4. ASSUME ~\E s \in Configs, c \in Config : ChangeConfig(s, c) PROVE UNCHANGED config
  BY <1>4 DEF ClientNext, ChangeFile, SaveFile, did_open, did_close, did_change, Update
<1>. QED
  BY <1>1, <1>2, <1>3, <1>4

(* A deletion that is handled drops the project, for good.                  *)
LEMMA DroppedStep ==
  ASSUME TypeOK, DeletedIsDropped, [Next]_vars
  PROVE  DeletedIsDropped'
<1>. USE ConstantsAssumption
<1>1. CASE ClientNext
  <2>1. UNCHANGED <<project, pending>>
    BY <1>1 DEF ClientNext, ChangeFile, SaveFile, did_open, did_close, did_change, Update,
       ChangeConfig, workspace
  <2>. QED
    BY <1>1, <2>1, ClientDeletions, DroppedFrame
<1>2. ASSUME NEW free \in BOOLEAN, ScheduleEdit(free) PROVE DeletedIsDropped'
  BY <1>2, UnreportedKept, DroppedFrame DEF ScheduleEdit, client, workspace
<1>3. ASSUME NEW n \in 1..Len(notices), WatchBusy(n) PROVE DeletedIsDropped'
  BY <1>3, UnreportedTaken, DroppedFrame DEF WatchBusy, workspace
<1>4. CASE WatchEffects
  <2>1. UNCHANGED <<project, config>> /\ pending \subseteq pending' /\ handler.batch \subseteq Notice
    BY <1>4 DEF WatchEffects, client, workspace, TypeOK, Handler
  <2>2. ASSUME NEW m \in handler.batch, IsConfig(m) PROVE "project" \in pending'
    BY <1>4, <2>2 DEF WatchEffects, invalidation_bits
  <2>3. ASSUME NEW r \in Roots, config[r] = "absent", ~Unreported(ConfigOf(r))'
        PROVE  project # r \/ "project" \in pending'
    <3>1. CASE \E m \in handler.batch : m.path = ConfigOf(r)
      BY <2>1, <2>2, <3>1, NoticeRoots
    <3>2. CASE ~\E m \in handler.batch : m.path = ConfigOf(r)
      <4>1. ~Unreported(ConfigOf(r))
        BY <1>4, <2>3, <3>2, UnreportedEffects
      <4>. QED
        BY <2>1, <2>3, <4>1 DEF DeletedIsDropped
    <3>. QED
      BY <3>1, <3>2
  <2>. QED
    BY <2>1, <2>3 DEF DeletedIsDropped
<1>5. ASSUME NEW n \in 1..Len(notices), WatchFree(n) PROVE DeletedIsDropped'
  <2>. DEFINE batch == Batch(n)
              resolved == IF "project" \in pending THEN None ELSE project
              own == invalidation_bits({c \in batch : RootOf(c) = resolved})
  <2>1. PICK bits : invalidate(pending, bits) /\
          (bits = own \/ ~\E r \in Roots : r = resolved /\ ChangesIn(batch, r) # {})
    BY <1>5 DEF WatchFree
  <2>2. UNCHANGED config
    BY <1>5 DEF WatchFree
  <2>3. ASSUME NEW r \in Roots, config[r] = "absent", ~Unreported(ConfigOf(r))'
        PROVE  project' # r
    <3>1. CASE "project" \in pending
      BY <2>1, <3>1, InvalidationDrops
    <3>2. CASE "project" \notin pending /\ project # r
      BY <2>1, <3>2, InvalidationDrops
    <3>3. CASE "project" \notin pending /\ project = r
      <4>1. Unreported(ConfigOf(r))
        BY <2>3, <3>3 DEF DeletedIsDropped
      <4>2. PICK m \in batch : m.path = ConfigOf(r)
        BY <1>5, <2>3, <4>1, UnreportedTaken
      <4>3. IsConfig(m) /\ RootOf(m) = r /\ resolved = r
        BY <1>5, <3>3, <4>2, NoticeRoots, Taken DEF WatchFree
      <4>4. "project" \in own
        BY <4>3 DEF invalidation_bits
      <4>5. m \in ChangesIn(batch, r)
        BY <4>3 DEF ChangesIn
      <4>. QED
        BY <2>1, <4>3, <4>4, <4>5, InvalidationDrops
    <3>. QED
      BY <3>1, <3>2, <3>3
  <2>. QED
    BY <2>2, <2>3 DEF DeletedIsDropped
<1>6. ASSUME NEW t \in tasks, Prepare(t) PROVE DeletedIsDropped'
  <2>1. UNCHANGED config /\ t.root \in Roots /\ pending' = {}
    BY <1>6 DEF Prepare, client, TypeOK, Task
  <2>2. ASSUME NEW r \in Roots, config[r] = "absent", ~Unreported(ConfigOf(r))' PROVE project' # r
    <3>1. ~Unreported(ConfigOf(r))
      BY <1>6, <2>2, UnreportedKept DEF TaskNext
    <3>2. project # r \/ "project" \in pending
      BY <2>2, <3>1 DEF DeletedIsDropped
    <3>3. CASE t.root = r
      BY <1>6, <2>2, <3>2, <3>3 DEF Prepare
    <3>4. CASE t.root # r
      BY <1>6, <2>2, <3>2, <3>4 DEF Prepare
    <3>. QED
      BY <3>3, <3>4
  <2>. QED
    BY <2>1, <2>2 DEF DeletedIsDropped
<1>7. ASSUME NEW t \in tasks, TaskNext(t), ~Prepare(t) PROVE DeletedIsDropped'
  <2>1. project' \in {project, None} /\ ("project" \in pending => "project" \in pending' \/ project' = None)
    BY <1>7, InvalidationDrops DEF TaskNext, Elapse, Capture, Analyze, Commit, Publish, workspace
  <2>2. UNCHANGED config
    BY <1>7 DEF TaskNext, Elapse, Capture, Analyze, Commit, Publish, client
  <2>. QED
    BY <1>7, <2>1, <2>2, UnreportedKept, DroppedFrame
<1>8. CASE UNCHANGED vars
  BY <1>8, DroppedFrame DEF vars, client, workspace, Unreported
<1>. QED
  BY <1>1, <1>2, <1>3, <1>4, <1>5, <1>6, <1>7, <1>8 DEF Next, ServerNext, HandlerNext

(* A run that goes on to publish is of the resolved project.                *)
LEMMA PublishesResolved ==
  ASSUME RunInv, NEW t \in tasks, InRun(t), ~Doomed(t)
  PROVE  pending = {} /\ project = t.root /\ t.root \in Roots
BY DEF RunInv, IInv, OneRun, Doomed, TypeOK, Task

(* What a publish shows of a file is what its run has found in it.          *)
LEMMA PublishShows ==
  ASSUME IInv, NEW t \in tasks, Publish(t), NEW f \in Files, shown'[f] # shown[f]
  PROVE  /\ Publishable(t) /\ ~Doomed(t) /\ t.phase = "publish" /\ t.generation = generation
         /\ Home[f] = t.root /\ shown'[f] = Problems(t.texts[f])
<1>1. shown \in [Files -> Nat] /\ Publishable(t)
  BY DEF Publish, IInv, TypeOK
<1>2. /\ t.phase = "publish" /\ t.generation = generation /\ pending = {}
      /\ shown'[f] = Problems(t.texts[f])
      /\ t.texts[f].kind = "bad" \/ Home[f] = t.root
  BY <1>1 DEF Publish, Publishable, reconcile_success, covers, FilesOf
<1>3. Home[f] = t.root
  BY <1>2 DEF IInv, CapturesAreCurrent, CaptureIsCurrent, Gone
<1>. QED
  BY <1>1, <1>2, <1>3 DEF Doomed

(* A handler clears what is on show, and never puts anything on show.       *)
LEMMA HandlersClear ==
  ASSUME TypeOK, HandlerNext, NEW f \in Files
  PROVE  shown'[f] \in {0, shown[f]}
BY DEF HandlerNext, ScheduleEdit, WatchFree, WatchBusy, WatchEffects, watched_root_effects, TypeOK

(* The problems of a root whose deleted marrow.json is reported are         *)
(* cleared.                                                                 *)
LEMMA DeletionClears ==
  ASSUME RunInv, NEW f \in Files, NEW batch, NEW roots, NEW drain, NEW m \in batch,
         watched_root_effects(batch, roots, drain),
         m \in Notice, m.path = ConfigOf(Home[f]), m.deleted, Home[f] \in tracked => Home[f] \in roots
  PROVE  shown'[f] = 0
<1>1. m = [path |-> ConfigOf(Home[f]), deleted |-> TRUE]
  BY NoticeRoots DEF Notice
<1>2. DeletesConfig(batch, Home[f])
  BY <1>1 DEF DeletesConfig
<1>3. shown[f] # 0 => f \in non_empty /\ Home[f] \in roots
  BY DEF RunInv, IInv, TrackedIsShown
<1>. QED
  BY <1>2, <1>3 DEF watched_root_effects

(* The root of a deleted marrow.json is cleared and stays clear.            *)
LEMMA ClearedStep ==
  ASSUME RunInv, DeletedConfigStaysClear, [Next]_vars
  PROVE  DeletedConfigStaysClear'
<1>. USE ConstantsAssumption
<1>. SUFFICES ASSUME NEW f \in Files, config'[Home[f]] = "absent", ~Unreported(ConfigOf(Home[f]))'
     PROVE  shown'[f] = 0
  BY DEF DeletedConfigStaysClear
<1>. DEFINE r == Home[f]
<1>0. TypeOK /\ IInv /\ r \in Roots
  BY DEF RunInv, IInv
<1>1. ASSUME config[r] = "absent", ~Unreported(ConfigOf(r)), shown'[f] \in {0, shown[f]}
      PROVE  shown'[f] = 0
  BY <1>1 DEF DeletedConfigStaysClear
<1>2. CASE ClientNext
  BY <1>0, <1>1, <1>2, ClientDeletions, ClientDocuments
<1>3. ASSUME NEW free \in BOOLEAN, ScheduleEdit(free) PROVE shown'[f] = 0
  BY <1>0, <1>1, <1>3, UnreportedKept, HandlersClear DEF HandlerNext, ScheduleEdit, client
<1>4. ASSUME NEW n \in 1..Len(notices), WatchBusy(n) PROVE shown'[f] = 0
  BY <1>0, <1>1, <1>4, UnreportedTaken DEF WatchBusy
<1>5. ASSUME NEW n \in 1..Len(notices), WatchFree(n) PROVE shown'[f] = 0
  <2>1. CASE ~Unreported(ConfigOf(r))
    BY <1>0, <1>1, <1>5, <2>1, HandlersClear DEF HandlerNext, WatchFree
  <2>2. CASE Unreported(ConfigOf(r))
    <3>1. PICK m \in Batch(n) : m.path = ConfigOf(r)
      BY <1>0, <1>5, <2>2, UnreportedTaken
    <3>2. m \in Notice /\ RootOf(m) = r /\ config[r] = "absent" /\ ~Waiting(ConfigOf(r))'
      BY <1>0, <1>5, <3>1, Taken, NoticeRoots DEF WatchFree, Unreported, Waiting
    <3>3. m.deleted
      BY <1>0, <1>5, <3>1, <3>2, TakenIsTrue, Missings DEF WatchFree, RunInv
    <3>4. r \in tracked => r \in {s \in Roots : (s = (IF "project" \in pending THEN None ELSE project) \/ s \in tracked)
                                                /\ ChangesIn(Batch(n), s) # {}}
      BY <1>0, <3>1, <3>2 DEF ChangesIn
    <3>. QED
      BY <1>5, <3>1, <3>2, <3>3, <3>4, DeletionClears DEF WatchFree
  <2>. QED
    BY <2>1, <2>2
<1>6. CASE WatchEffects
  <2>1. CASE ~Unreported(ConfigOf(r))
    BY <1>0, <1>1, <1>6, <2>1, HandlersClear DEF HandlerNext, WatchEffects, client
  <2>2. CASE Unreported(ConfigOf(r))
    <3>1. PICK m \in handler.batch : m.path = ConfigOf(r)
      BY <1>6, <2>2, UnreportedEffects
    <3>2. m \in Notice /\ IsConfig(m) /\ RootOf(m) = r
      BY <1>6, <3>1, NoticeRoots DEF WatchEffects, RunInv, IInv, TypeOK, Handler
    <3>3. config[r] = "absent" /\ ~Waiting(ConfigOf(r))
      BY <1>6, UnreportedEffects DEF WatchEffects, client
    <3>4. m.deleted
      BY <1>0, <1>6, <3>1, <3>3, Missings DEF RunInv, NewestNoticeIsTrue, WatchEffects
    <3>5. PICK batch, roots : m \in batch /\ r \in roots /\ watched_root_effects(batch, roots, TRUE)
      BY <1>6, <3>1, <3>2 DEF WatchEffects
    <3>. QED
      BY <3>1, <3>2, <3>4, <3>5, DeletionClears
  <2>. QED
    BY <2>1, <2>2
<1>7. ASSUME NEW t \in tasks, TaskNext(t) PROVE shown'[f] = 0
  <2>1. config[r] = "absent" /\ ~Unreported(ConfigOf(r))
    BY <1>0, <1>7, UnreportedKept DEF TaskNext, Elapse, Capture, Prepare, Analyze, Commit, Publish, client
  <2>2. CASE ~Publish(t)
    BY <1>1, <1>7, <2>1, <2>2 DEF TaskNext, Elapse, Capture, Prepare, Analyze, Commit
  <2>3. CASE Publish(t) /\ shown'[f] # shown[f]
    <3>1. ~Doomed(t) /\ InRun(t) /\ t.root = r
      BY <1>0, <2>3, PublishShows DEF InRun
    <3>2. pending = {} /\ project = r
      BY <3>1, PublishesResolved
    <3>. QED
      BY <1>0, <2>1, <3>2 DEF RunInv, DeletedIsDropped
  <2>. QED
    BY <1>1, <2>1, <2>2, <2>3
<1>8. CASE UNCHANGED vars
  BY <1>1, <1>8 DEF vars, client, Unreported
<1>. QED
  BY <1>2, <1>3, <1>4, <1>5, <1>6, <1>7, <1>8 DEF Next, ServerNext, HandlerNext

-----------------------------------------------------------------------------
(* What analyses have read *)

(* A change on disk of a file nobody has open is noticed.                   *)
LEMMA CurrentKept ==
  ASSUME TypeOK, [Next]_vars, UNCHANGED generation, NEW f \in Files
  PROVE  /\ UNCHANGED buffer
         /\ Current(f)' = Current(f) \/ (~Open(f) /\ Unreported(File(f))')
<1>. USE ConstantsAssumption
<1>0. generation + 1 # generation
  BY DEF TypeOK
<1>1. UNCHANGED buffer
  BY <1>0, ClientDocuments, HandlerTasks DEF Next, ServerNext, TaskNext, Elapse, Capture, Prepare, Analyze,
     Commit, Publish, documents, vars
<1>2. CASE UNCHANGED disk
  BY <1>1, <1>2 DEF Current, overlay
<1>3. ASSUME NEW g \in Watched, NEW k, ChangeFile(g, k)
      PROVE  Current(f)' = Current(f) \/ (~Open(f) /\ Unreported(File(f))')
  <2>1. notices' = Append(notices, [path |-> File(g), deleted |-> k = "gone"]) /\ ~Open(g)
    BY <1>3 DEF ChangeFile
  <2>2. CASE f = g
    <3>1. Waiting(File(f))'
      BY <2>1, <2>2, Appended
    <3>. QED
      BY <2>1, <2>2, <3>1 DEF Unreported, Waiting
  <2>3. CASE f # g
    BY <1>1, <1>3, <2>3 DEF ChangeFile, Current, overlay, TypeOK
  <2>. QED
    BY <2>2, <2>3
<1>4. ASSUME NEW g \in Edited, SaveFile(g) PROVE Current(f)' = Current(f)
  BY <1>1, <1>4 DEF SaveFile, Current, overlay, Open, TypeOK
<1>5. ASSUME ~(\E g \in Watched, k \in {"good", "bad", "gone"} : ChangeFile(g, k)),
             ~(\E g \in Edited : SaveFile(g))
      PROVE  UNCHANGED disk
  BY <1>5, HandlerTasks DEF Next, ServerNext, ClientNext, did_open, did_close, did_change, Update,
     ChangeConfig, TaskNext, Elapse, Capture, Prepare, Analyze, Commit, Publish, client, vars
<1>. QED
  BY <1>1, <1>2, <1>3, <1>4, <1>5

(* What is up to date stays so, or its change is waiting to be reported.    *)
LEMMA UpToDateStep ==
  ASSUME TypeOK, [Next]_vars, UNCHANGED generation, NEW texts, NEW f \in Files, UpToDate(texts, f)
  PROVE  \/ UpToDate(texts, f)'
         \/ ~Open(f) /\ \/ Unreported(File(f)) /\ ~Unreported(File(f))'
                        \/ Unreported(ConfigOf(Home[f])) /\ ~Unreported(ConfigOf(Home[f]))'
<1>1. /\ Open(f)' <=> Open(f)
      /\ Current(f)' = Current(f) \/ (~Open(f) /\ Unreported(File(f))')
  BY CurrentKept DEF Open
<1>. QED
  BY <1>1 DEF UpToDate

(* Steps that finish with no notice keep a reading up to date.              *)
LEMMA UpToDateKept ==
  ASSUME TypeOK, UNCHANGED generation, NEW texts, NEW f \in Files, UpToDate(texts, f),
         \/ ClientNext \/ \E free \in BOOLEAN : ScheduleEdit(free)
         \/ \E n \in 1..Len(notices) : WatchBusy(n)
         \/ \E t \in tasks : TaskNext(t)
         \/ UNCHANGED vars
  PROVE  UpToDate(texts, f)'
<1>1. [Next]_vars
  BY DEF Next, ServerNext, HandlerNext
<1>2. \A p : Unreported(p) => Unreported(p)'
  BY UnreportedKept, UnreportedTaken DEF vars, client, Unreported
<1>. QED
  BY <1>1, <1>2, UpToDateStep

(* A reading goes out of date only with a notice of its root ...            *)
LEMMA UpToDateFree ==
  ASSUME TypeOK, NEW n \in 1..Len(notices), WatchFree(n),
         NEW texts, NEW f \in Files, UpToDate(texts, f), ~UpToDate(texts, f)'
  PROVE  ChangesIn(Batch(n), Home[f]) # {}
<1>1. [Next]_vars /\ UNCHANGED generation
  BY DEF Next, ServerNext, HandlerNext, WatchFree, documents
<1>2. PICK p \in {File(f), ConfigOf(Home[f])} : Unreported(p) /\ ~Unreported(p)'
  BY <1>1, UpToDateStep
<1>3. PICK m \in Batch(n) : m.path = p
  BY <1>2, UnreportedTaken
<1>4. m \in Notice
  BY Taken DEF WatchFree
<1>. QED
  BY <1>2, <1>3, <1>4, NoticeRoots DEF ChangesIn

(* ... which invalidates, unless the project is known to be gone.           *)
LEMMA UpToDateEffects ==
  ASSUME TypeOK, WatchEffects, NEW texts, NEW f \in Files, UpToDate(texts, f), ~UpToDate(texts, f)',
         pending' = {}
  PROVE  ~Unreported(ConfigOf(Home[f])) /\ config[Home[f]] = "absent"
<1>1. [Next]_vars /\ UNCHANGED generation
  BY DEF Next, ServerNext, HandlerNext, WatchEffects, documents
<1>2. PICK p \in {File(f), ConfigOf(Home[f])} : Unreported(p) /\ ~Unreported(p)'
  BY <1>1, UpToDateStep
<1>3. PICK m \in handler.batch : m.path = p
  BY <1>2, UnreportedEffects
<1>4. m \in Notice /\ RootOf(m) = Home[f] /\ handler.batch \subseteq Notice
  BY <1>2, <1>3, NoticeRoots DEF WatchEffects, TypeOK, Handler
<1>5. \A x \in handler.batch : ~(RootOf(x) \in tracked \/ IsConfig(x) \/ config[RootOf(x)] # "absent")
  BY DEF WatchEffects, invalidation_bits
<1>6. config[Home[f]] = "absent" /\ ~\E x \in handler.batch : x.path = ConfigOf(Home[f])
  BY <1>3, <1>4, <1>5, NoticeRoots
<1>7. ~Open(f) /\ ~Unreported(ConfigOf(Home[f]))'
  <2>1. ~Open(f)
    BY <1>1, UpToDateStep
  <2>2. ~Open(f)'
    BY <1>1, <2>1, CurrentKept DEF Open
  <2>. QED
    BY <2>1, <2>2 DEF UpToDate
<1>. QED
  BY <1>6, <1>7, UnreportedEffects

(* A run reads each file as it is.                                          *)
LEMMA AnalysisIsCurrent ==
  ASSUME NEW t, t.buffers = buffer, NEW f \in FilesOf(t.root)
  PROVE  UpToDate(analyze(t), f)
<1>1. CASE t.source_only /\ f \in TestFiles
  BY <1>1 DEF analyze, UpToDate, FilesOf, Exists, Gone
<1>2. CASE ~(t.source_only /\ f \in TestFiles)
  <2>1. analyze(t)[f] = IF Exists(Current(f)) THEN Current(f) ELSE Gone
    BY <1>2 DEF analyze, FilesOf, Current, overlay
  <2>. QED
    BY <2>1 DEF UpToDate, Exists, Gone
<1>. QED
  BY <1>1, <1>2

(* A run that is not doomed has read each file as it is.                    *)
LEMMA ReadStep ==
  ASSUME RunInv, ReadIsCurrent, [Next]_vars
  PROVE  ReadIsCurrent'
<1>. USE ConstantsAssumption
<1>0. TypeOK /\ OneRun /\ CapturesAreCurrent /\ TypeOK'
  BY TypeStep DEF RunInv, IInv
<1>. SUFFICES ASSUME NEW t \in tasks', t.phase \in {"commit", "publish"}, t.generation = generation',
                     ~Doomed(t)', NEW f \in FilesOf(t.root)
     PROVE  UpToDate(t.texts, f)'
  BY DEF ReadIsCurrent, FilesOf
<1>. f \in Files /\ Home[f] = t.root /\ InRun(t)
  BY DEF FilesOf, InRun
<1>1. ASSUME t \in tasks, UNCHANGED generation, ~Doomed(t) PROVE UpToDate(t.texts, f)
  BY <1>1 DEF ReadIsCurrent
<1>2. CASE ClientNext
  <2>1. t \in tasks /\ (UNCHANGED documents \/ generation' = generation + 1)
    BY <1>0, <1>2, ClientDocuments
  <2>2. t.generation \in Nat /\ generation \in Nat /\ t.generation <= generation
    BY <1>0, <2>1 DEF CapturesAreCurrent, CaptureIsCurrent, TypeOK, Task
  <2>3. UNCHANGED generation
    BY <2>1, <2>2 DEF documents
  <2>4. UNCHANGED <<pending, invalidation_epoch>>
    BY <1>2 DEF ClientNext, ChangeFile, SaveFile, did_open, did_close, did_change, Update,
       ChangeConfig, workspace
  <2>5. ~Doomed(t)
    BY <2>4 DEF Doomed
  <2>. QED
    BY <1>0, <1>1, <1>2, <2>1, <2>3, <2>5, UpToDateKept
<1>3. ASSUME HandlerNext PROVE t \in tasks /\ UNCHANGED generation
  BY <1>0, <1>3, HandlerTasks DEF Spawned, documents
<1>4. ASSUME HandlerNext, \/ \E free \in BOOLEAN : ScheduleEdit(free)
                          \/ \E n \in 1..Len(notices) : WatchBusy(n)
      PROVE  UpToDate(t.texts, f)'
  <2>1. pending \subseteq pending' /\ UNCHANGED invalidation_epoch
    BY <1>4 DEF ScheduleEdit, WatchBusy, workspace
  <2>2. ~Doomed(t)
    BY <2>1 DEF Doomed
  <2>. QED
    BY <1>0, <1>1, <1>3, <1>4, <2>2, UpToDateKept
<1>5. ASSUME NEW n \in 1..Len(notices), WatchFree(n) PROVE UpToDate(t.texts, f)'
  <2>. DEFINE batch == Batch(n)
              resolved == IF "project" \in pending THEN None ELSE project
              own == invalidation_bits({c \in batch : RootOf(c) = resolved})
              roots == {r \in Roots : (r = resolved \/ r \in tracked) /\ ChangesIn(batch, r) # {}}
              bits == IF resolved \in roots THEN own ELSE {}
  <2>1. t \in tasks /\ UNCHANGED generation /\ t.phase # "publish" /\ invalidate(pending, bits)
    BY <1>3, <1>5 DEF HandlerNext, WatchFree, AnalysisFree
  <2>2. pending = {} /\ bits = {}
    <3>. HIDE DEF bits
    <3>. QED
      BY <1>0, <2>1, InvalidatedIsDoomed
  <2>3. UNCHANGED <<pending, invalidation_epoch>>
    <3>1. pending' = {}
      BY <1>5 DEF WatchFree
    <3>2. invalidation_epoch' = invalidation_epoch
      <4>. HIDE DEF bits
      <4>. QED
        BY <1>0, <2>1, <2>2 DEF invalidate, CountBits, TypeOK
    <3>. QED
      BY <2>2, <3>1, <3>2
  <2>4. ~Doomed(t)
    BY <2>3 DEF Doomed
  <2>5. project = t.root /\ t.root \in Roots
    BY <2>1, <2>4, PublishesResolved
  <2>6. CASE ChangesIn(batch, t.root) # {}
    <3>1. resolved = t.root /\ resolved \in roots
      BY <2>2, <2>5, <2>6
    <3>2. own # {}
      BY <2>6, <3>1 DEF invalidation_bits, ChangesIn
    <3>. QED
      BY <2>2, <3>1, <3>2
  <2>7. CASE ChangesIn(batch, t.root) = {}
    BY <1>0, <1>1, <1>5, <2>1, <2>4, <2>7, UpToDateFree
  <2>. QED
    BY <2>6, <2>7
<1>6. CASE WatchEffects
  <2>1. t \in tasks /\ UNCHANGED <<generation, invalidation_epoch>> /\ pending \subseteq pending'
    BY <1>3, <1>6 DEF HandlerNext, WatchEffects, workspace
  <2>2. ~Doomed(t) /\ pending' = {}
    BY <2>1 DEF Doomed
  <2>3. project = t.root /\ pending = {} /\ t.root \in Roots
    BY <2>1, <2>2, PublishesResolved
  <2>4. ~(config[t.root] = "absent" /\ ~Unreported(ConfigOf(t.root)))
    BY <2>3 DEF RunInv, DeletedIsDropped
  <2>. QED
    BY <1>0, <1>1, <1>6, <2>1, <2>2, <2>4, UpToDateEffects
<1>7. ASSUME NEW u \in tasks, TaskNext(u) PROVE UpToDate(t.texts, f)'
  <2>0. UNCHANGED <<generation, buffer, disk>>
    BY <1>7 DEF TaskNext, Elapse, Capture, Prepare, Analyze, Commit, Publish, client, documents
  <2>1. CASE Elapse(u) \/ Capture(u)
    <3>1. u \in Task /\ UNCHANGED <<pending, invalidation_epoch>>
      BY <1>0, <2>1 DEF Elapse, Capture, TypeOK, workspace
    <3>2. PICK next : ~InRun(next) /\ (Becomes(u, next) \/ Ends(u))
      <4>. DEFINE one == [u EXCEPT !.phase = "capture"]
                  two == [u EXCEPT !.phase = "queued", !.generation = generation, !.buffers = buffer]
      <4>1. one.phase = "capture" /\ two.phase = "queued"
        BY <3>1 DEF Task
      <4>2. Becomes(u, one) \/ Becomes(u, two) \/ Ends(u)
        BY <2>1 DEF Elapse, Capture
      <4>. QED
        BY <4>1, <4>2 DEF InRun
    <3>3. t \in tasks /\ ~Doomed(t)
      BY <3>1, <3>2 DEF Becomes, Ends, Doomed
    <3>. QED
      BY <1>0, <1>1, <1>7, <2>0, <3>3, UpToDateKept
  <2>2. CASE Prepare(u)
    BY <1>0, <2>2, RunPrepares
  <2>3. CASE Analyze(u)
    <3>1. t.texts = analyze(u) /\ t.root = u.root /\ t.generation = u.generation
      BY <1>0, <2>3, RunAnalyzes
    <3>2. u.buffers = buffer
      BY <1>0, <2>0, <2>3, <3>1 DEF Analyze, CapturesAreCurrent, CaptureIsCurrent
    <3>3. UpToDate(t.texts, f)
      BY <3>1, <3>2, AnalysisIsCurrent
    <3>. QED
      BY <1>0, <1>7, <2>0, <3>3, UpToDateKept
  <2>4. CASE Commit(u)
    <3>1. t.texts = u.texts /\ t.root = u.root /\ t.generation = u.generation /\ ~Doomed(u)
      BY <1>0, <2>4, RunCommits
    <3>2. UpToDate(t.texts, f)
      BY <2>0, <2>4, <3>1 DEF Commit, ReadIsCurrent
    <3>. QED
      BY <1>0, <1>7, <2>0, <3>2, UpToDateKept
  <2>5. CASE Publish(u)
    BY <1>0, <2>5, OnlyRun DEF Publish, InRun
  <2>. QED
    BY <1>7, <2>1, <2>2, <2>3, <2>4, <2>5 DEF TaskNext
<1>8. CASE UNCHANGED vars
  <2>1. t \in tasks /\ UNCHANGED generation /\ ~Doomed(t)
    BY <1>8 DEF vars, documents, workspace, Doomed
  <2>. QED
    BY <1>0, <1>1, <1>8, <2>1, UpToDateKept
<1>. QED
  BY <1>2, <1>4, <1>5, <1>6, <1>7, <1>8 DEF Next, ServerNext, HandlerNext

(* Only a publish puts problems on show, those its run has read.            *)
LEMMA PublishedStep ==
  ASSUME RunInv, ReadIsCurrent, [Next]_vars, NEW f \in Files, shown'[f] # shown[f], shown'[f] # 0
  PROVE  \/ shown'[f] = Problems(Current(f))
         \/ ~Open(f) /\ (Unreported(File(f)) \/ Unreported(ConfigOf(Home[f])))
<1>0. IInv /\ TypeOK
  BY DEF RunInv, IInv
<1>1. ~ClientNext /\ ~HandlerNext /\ ~UNCHANGED vars
  BY <1>0, ClientDocuments, HandlersClear DEF vars
<1>2. PICK t \in tasks : Publish(t)
  BY <1>1 DEF Next, ServerNext, TaskNext, Elapse, Capture, Prepare, Analyze, Commit
<1>3. /\ ~Doomed(t) /\ t.phase = "publish" /\ t.generation = generation
      /\ Home[f] = t.root /\ shown'[f] = Problems(t.texts[f])
  BY <1>0, <1>2, PublishShows
<1>4. UpToDate(t.texts, f)
  BY <1>3 DEF ReadIsCurrent, FilesOf
<1>5. Exists(t.texts[f])
  BY <1>3 DEF Problems, Exists
<1>. QED
  BY <1>3, <1>4, <1>5 DEF UpToDate

(* backend.rs, workspace.rs: whatever interleaving of handlers, tasks and   *)
(* disk, the run that may still commit or publish has read what there is.   *)
THEOREM BackendInvHolds == Spec => []BackendInv
<1>1. Init => OneRun /\ NewestNoticeIsTrue /\ DeletedIsDropped /\ ReadIsCurrent /\ DeletedConfigStaysClear
  BY ConstantsAssumption DEF Init, OneRun, NewestNoticeIsTrue, DeletedIsDropped, ReadIsCurrent, DeletedConfigStaysClear, Idle
<1>2. TypeOK /\ IInv /\ IInv' /\ BackendInv /\ [Next]_vars => BackendInv'
  BY RunStep, NoticesStep, DroppedStep, ReadStep, ClearedStep DEF BackendInv, RunInv
<1>3. IInv => TypeOK
  BY DEF IInv
<1>4. IInv /\ OneRun /\ NewestNoticeIsTrue /\ DeletedIsDropped /\ ReadIsCurrent /\ DeletedConfigStaysClear => BackendInv
  BY DEF BackendInv, RunInv
<1>. QED
  BY <1>1, <1>2, <1>3, <1>4, BackendInvariant, PTL DEF Spec

(* watched_root_effects: once the deletion of a marrow.json is handled no   *)
(* run that was under way puts problems of its root back on show.           *)
THEOREM DeletedConfigStaysClearCorrect == Spec => []DeletedConfigStaysClear
<1>1. BackendInv => DeletedConfigStaysClear
  BY DEF BackendInv
<1>. QED
  BY <1>1, BackendInvHolds, PTL

(* recompute_and_publish: no late run shows problems of a text that is not  *)
(* the one in the buffer or, unreported changes aside, on disk.             *)
THEOREM PublishedIsCurrentCorrect == Spec => PublishedIsCurrent
<1>1. BackendInv /\ [Next]_vars =>
        [\A f \in Files : shown'[f] # shown[f] /\ shown'[f] # 0 =>
       \/ shown'[f] = Problems(Current(f))
       \/ ~Open(f) /\ (Unreported(File(f)) \/ Unreported(ConfigOf(Home[f])))]_vars
  BY PublishedStep DEF BackendInv
<1>. QED
  BY <1>1, BackendInvHolds, PTL DEF Spec, PublishedIsCurrent

-----------------------------------------------------------------------------
(* Facts *)

(* The latest analysis is kept, dropped, or replaced by a commit.           *)
LEMMA LatestStep ==
  ASSUME BackendInv, [Next]_vars
  PROVE  \/ /\ UNCHANGED <<latest, latest_generation>>
            /\ pending # {} => pending' # {}
         \/ latest' = NoSnapshot /\ latest_generation' = -1
         \/ \E t \in tasks : /\ Commit(t) /\ pending = {} /\ ~Doomed(t) /\ InRun(t)
                             /\ latest' = [root |-> t.root, texts |-> t.texts]
                             /\ latest_generation' = t.generation
                             /\ UNCHANGED project
<1>1. ASSUME NEW first, NEW second, invalidate(first, second)
      PROVE  \/ UNCHANGED <<latest, latest_generation>> /\ first \cup second = {}
             \/ latest' = NoSnapshot /\ latest_generation' = -1
  BY <1>1 DEF invalidate
<1>2. CASE ClientNext \/ (\E free \in BOOLEAN : ScheduleEdit(free)) \/ UNCHANGED vars
  BY <1>2 DEF ClientNext, ChangeFile, SaveFile, did_open, did_close, did_change, Update,
     ChangeConfig, ScheduleEdit, vars, workspace
<1>3. CASE WatchEffects \/ \E n \in 1..Len(notices) : WatchBusy(n)
  BY <1>3 DEF WatchEffects, WatchBusy, workspace
<1>4. ASSUME NEW n \in 1..Len(notices), WatchFree(n)
      PROVE  \/ UNCHANGED <<latest, latest_generation>> /\ pending = {}
             \/ latest' = NoSnapshot /\ latest_generation' = -1
  BY <1>1, <1>4 DEF WatchFree
<1>5. ASSUME NEW t \in tasks, Elapse(t) \/ Capture(t) \/ Analyze(t)
      PROVE  UNCHANGED <<latest, latest_generation, pending>>
  BY <1>5 DEF Elapse, Capture, Analyze, workspace
<1>6. ASSUME NEW t \in tasks, Prepare(t)
      PROVE  \/ UNCHANGED <<latest, latest_generation>> /\ pending = {}
             \/ latest' = NoSnapshot /\ latest_generation' = -1
  BY <1>6 DEF Prepare
<1>7. ASSUME NEW t \in tasks, Publish(t)
      PROVE  \/ UNCHANGED <<latest, latest_generation>> /\ pending = {}
             \/ latest' = NoSnapshot /\ latest_generation' = -1
  BY <1>1, <1>7 DEF Publish
<1>8. ASSUME NEW t \in tasks, Commit(t)
      PROVE  \/ UNCHANGED <<latest, latest_generation>> /\ pending = {}
             \/ latest' = NoSnapshot /\ latest_generation' = -1
             \/ /\ pending = {} /\ ~Doomed(t) /\ InRun(t)
                /\ latest' = [root |-> t.root, texts |-> t.texts]
                /\ latest_generation' = t.generation
                /\ UNCHANGED project
  BY <1>1, <1>8 DEF Commit, Committable, Doomed, InRun
<1>. QED
  BY <1>2, <1>3, <1>4, <1>5, <1>6, <1>7, <1>8 DEF Next, ServerNext, HandlerNext, TaskNext

(* Every change of a buffer has a generation of its own.                    *)
LEMMA GenerationStep ==
  ASSUME TypeOK, [Next]_vars
  PROVE  UNCHANGED documents \/ (ClientNext /\ generation' = generation + 1)
BY ClientDocuments, HandlerTasks
DEF Next, ServerNext, TaskNext, Elapse, Capture, Prepare, Analyze, Commit, Publish, vars

(* Facts of the current generation are of the current buffers.              *)
LEMMA FreshBuffersStep ==
  ASSUME BackendInv, FreshFactsHaveBuffers, [Next]_vars
  PROVE  FreshFactsHaveBuffers'
<1>0. TypeOK /\ generation \in Nat /\ latest_generation \in Nat \cup {-1}
  BY DEF BackendInv, RunInv, IInv, TypeOK
<1>1. \/ UNCHANGED documents
      \/ generation' = generation + 1 /\ ClientNext
  BY <1>0, GenerationStep
<1>2. CASE UNCHANGED <<latest, latest_generation>>
  BY <1>0, <1>1, <1>2 DEF FreshFactsHaveBuffers, documents, Open
<1>3. CASE latest' = NoSnapshot /\ latest_generation' = -1
  BY <1>0, <1>1, <1>3 DEF FreshFactsHaveBuffers, documents, NoSnapshot
<1>4. ASSUME NEW t \in tasks, Commit(t), latest' = [root |-> t.root, texts |-> t.texts],
             latest_generation' = t.generation
      PROVE  FreshFactsHaveBuffers'
  <2>1. t.phase = "commit" /\ UNCHANGED documents
    BY <1>4 DEF Commit
  <2>2. CaptureIsCurrent(t)
    BY DEF BackendInv, RunInv, IInv, CapturesAreCurrent
  <2>. QED
    BY <1>4, <2>1, <2>2 DEF CaptureIsCurrent, FreshFactsHaveBuffers, documents, Open
<1>. QED
  BY <1>2, <1>3, <1>4, LatestStep

-----------------------------------------------------------------------------
(* One project *)

(* Facts are of the resolved project.                                       *)
FactsInv ==
  /\ FreshFactsHaveBuffers
  /\ latest.root # None => project = latest.root \/ pending # {}
  /\ FreshFactsAreCurrent

(* With one project, the facts are of the resolved one ...                  *)
LEMMA ResolvedFactsStep ==
  ASSUME \A r, s \in Roots : r = s, BackendInv, FactsInv, [Next]_vars
  PROVE  latest'.root # None => project' = latest'.root \/ pending' # {}
<1>. USE ConstantsAssumption
<1>0. TypeOK /\ latest.root \in Roots \cup {None} /\ NoSnapshot.root = None
  BY DEF BackendInv, RunInv, IInv, TypeOK, Snapshot, NoSnapshot
<1>1. CASE latest' = NoSnapshot
  BY <1>0, <1>1
<1>2. ASSUME NEW t \in tasks, InRun(t), ~Doomed(t), latest' = [root |-> t.root, texts |-> t.texts],
             UNCHANGED project
      PROVE  project' = latest'.root
  BY <1>2, PublishesResolved DEF BackendInv
<1>3. CASE UNCHANGED latest /\ (pending # {} => pending' # {})
  <2>1. \/ UNCHANGED project
        \/ \E t \in tasks : Prepare(t)
        \/ \E bits : invalidate(pending, bits)
    BY DEF Next, ServerNext, HandlerNext, ClientNext, ChangeFile, SaveFile, did_open, did_close,
       did_change, Update, ChangeConfig, ScheduleEdit, WatchFree, WatchBusy, WatchEffects, TaskNext,
       Elapse, Capture, Analyze, Commit, Publish, vars, workspace
  <2>2. CASE UNCHANGED project
    BY <1>3, <2>2 DEF FactsInv
  <2>3. ASSUME NEW t \in tasks, Prepare(t), latest.root # None, pending = {}
        PROVE  project' = latest.root
    <3>1. t.root \in Roots /\ project = latest.root
      BY <1>0, <2>3 DEF TypeOK, Task, FactsInv
    <3>2. project' = t.root \/ project' = project
      BY <2>3 DEF Prepare
    <3>. QED
      BY <1>0, <2>3, <3>1, <3>2
  <2>4. ASSUME NEW bits, invalidate(pending, bits), latest.root # None
        PROVE  UNCHANGED project
    BY <1>0, <1>3, <2>4 DEF invalidate
  <2>. QED
    BY <1>3, <2>1, <2>2, <2>3, <2>4
<1>. QED
  BY <1>1, <1>2, <1>3, LatestStep

(* ... so every notice that puts them out of date drops them.               *)
LEMMA FreshStep ==
  ASSUME BackendInv, FactsInv, [Next]_vars
  PROVE  FreshFactsAreCurrent'
<1>. USE ConstantsAssumption
<1>0. /\ TypeOK /\ latest.root \in Roots \cup {None} /\ NoSnapshot.root = None
      /\ generation \in Nat /\ latest_generation <= generation /\ latest_generation \in Nat \cup {-1}
  BY DEF BackendInv, RunInv, IInv, TypeOK, Snapshot, NoSnapshot, FactsInv, FreshFactsHaveBuffers
<1>. SUFFICES ASSUME latest'.root # None, latest_generation' = generation', pending' = {},
                     NEW f \in FilesOf(latest'.root)
     PROVE  UpToDate(latest.texts, f)'
  BY DEF FreshFactsAreCurrent, FilesOf
<1>1. CASE UNCHANGED <<latest, latest_generation>> /\ pending = {}
  <2>0. f \in Files /\ f \in FilesOf(latest.root) /\ Home[f] = latest.root /\ latest.root \in Roots
    BY <1>0, <1>1 DEF FilesOf
  <2>1. UNCHANGED generation
    BY <1>0, <1>1, GenerationStep DEF documents
  <2>. PICK texts : texts = latest.texts
    OBVIOUS
  <2>2. UpToDate(texts, f) /\ project = latest.root
    BY <1>1, <2>0, <2>1 DEF FactsInv, FreshFactsAreCurrent
  <2>3. ASSUME NEW n \in 1..Len(notices), WatchFree(n) PROVE UpToDate(texts, f)'
    <3>. DEFINE batch == Batch(n)
                resolved == IF "project" \in pending THEN None ELSE project
                own == invalidation_bits({c \in batch : RootOf(c) = resolved})
                roots == {r \in Roots : (r = resolved \/ r \in tracked) /\ ChangesIn(batch, r) # {}}
                bits == IF resolved \in roots THEN own ELSE {}
    <3>1. resolved = latest.root
      BY <1>1, <2>2
    <3>2. CASE ChangesIn(batch, latest.root) # {}
      <4>1. own # {} /\ resolved \in roots
        BY <2>0, <3>1, <3>2 DEF invalidation_bits, ChangesIn
      <4>2. invalidate(pending, bits) /\ bits # {}
        BY <2>3, <4>1 DEF WatchFree
      <4>3. latest' = NoSnapshot
        <5>. HIDE DEF bits
        <5>. QED
          BY <4>2 DEF invalidate
      <4>. QED
        BY <1>0, <4>3
    <3>3. CASE ChangesIn(batch, Home[f]) = {}
      BY <1>0, <2>0, <2>2, <2>3, <3>3, UpToDateFree
    <3>. QED
      BY <2>0, <3>2, <3>3
  <2>4. ASSUME WatchEffects PROVE UpToDate(texts, f)'
    <3>1. ~(config[Home[f]] = "absent" /\ ~Unreported(ConfigOf(Home[f])))
      BY <1>1, <2>0, <2>2 DEF BackendInv, RunInv, DeletedIsDropped
    <3>. QED
      BY <1>0, <2>0, <2>2, <2>4, <3>1, UpToDateEffects
  <2>5. ASSUME ~WatchEffects, ~\E n \in 1..Len(notices) : WatchFree(n) PROVE UpToDate(texts, f)'
    BY <1>0, <2>0, <2>1, <2>2, <2>5, UpToDateKept DEF Next, ServerNext, HandlerNext
  <2>6. UpToDate(texts, f)'
    BY <2>3, <2>4, <2>5
  <2>. QED
    BY <1>1, <2>6 DEF UpToDate
<1>2. ASSUME NEW t \in tasks, Commit(t), ~Doomed(t), latest' = [root |-> t.root, texts |-> t.texts],
             latest_generation' = t.generation
      PROVE  UpToDate(latest.texts, f)'
  <2>1. UNCHANGED <<generation, buffer, disk>> /\ t.phase = "commit" /\ TaskNext(t)
    BY <1>2 DEF Commit, documents, client, TaskNext
  <2>2. UpToDate(t.texts, f) /\ f \in Files
    BY <1>2, <2>1 DEF BackendInv, ReadIsCurrent, FilesOf
  <2>3. UpToDate(t.texts, f)'
    BY <1>0, <2>1, <2>2, UpToDateKept
  <2>. QED
    BY <1>2, <2>3 DEF UpToDate
<1>3. CASE pending # {} /\ pending' # {}
  BY <1>3
<1>. QED
  BY <1>0, <1>1, <1>2, LatestStep

(* latest_matches_snapshot (workspace.rs): "an unchanged generation         *)
(* guarantees every open buffer is identical to the one the snapshot was    *)
(* analyzed from", with any number of projects.                             *)
THEOREM FreshFactsHaveBuffersCorrect == Spec => []FreshFactsHaveBuffers
<1>1. Init => FreshFactsHaveBuffers
  BY DEF Init, FreshFactsHaveBuffers
<1>. QED
  BY <1>1, FreshBuffersStep, BackendInvHolds, PTL DEF Spec

(* With one project, facts served as fresh are up to date with the disk too. *)
(* With two they are not: run backend_facts.                                *)
THEOREM FreshFactsCorrect ==
  ASSUME \A r, s \in Roots : r = s
  PROVE  Spec => []FreshFactsAreCurrent
<1>1. Init => FactsInv
  BY DEF Init, FactsInv, FreshFactsHaveBuffers, FreshFactsAreCurrent, NoSnapshot
<1>2. BackendInv /\ FactsInv /\ [Next]_vars => FactsInv'
  BY FreshBuffersStep, ResolvedFactsStep, FreshStep DEF FactsInv
<1>3. FactsInv => FreshFactsAreCurrent
  BY DEF FactsInv
<1>. QED
  BY <1>1, <1>2, <1>3, BackendInvHolds, PTL DEF Spec
=============================================================================
