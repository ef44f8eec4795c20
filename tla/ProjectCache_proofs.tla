------------------------ MODULE ProjectCache_proofs ------------------------
(***************************************************************************)
(* What is proved of ProjectCache, for every set of calls, projects, files *)
(* and texts: what a reply is drawn from, when a call ends the process,    *)
(* that a load implements the one of ToolCall, and that every call ends if *)
(* its steps are enabled.                                                  *)
(***************************************************************************)
EXTENDS ProjectCache, TLAPS

-----------------------------------------------------------------------------
(* The inductive invariant *)

(* Nothing is kept before an analysis succeeds; a load analyses a project    *)
(* above its file.                                                           *)
Known ==
  /\ latest = None => source_fingerprint = None /\ last_program = None /\ installed = -1
  /\ load = "fingerprint" => latest # None
  /\ load \in {"analyze", "fingerprint"} => project \in Under[call.file]

(* What projects say is seen while a call is being handled. *)
Watched == load \notin {"idle", "panicked"} => \A p \in Projects : Current(p) \in seen

(* Until the project changes under it, a load has what the project says.     *)
Untorn ==
  ~torn =>
    /\ load \in {"analyze", "fingerprint"} => bound = catalog[project]
    /\ load = "fingerprint" =>
         /\ disk[project] \notin Unreadable
         /\ ~discarded =>
              latest = [project |-> project, catalog |-> bound,
                        text |-> overlay_snapshot(project, call.file, call.source)]

(* The fingerprints are those of the analysis that is kept with them.        *)
Fingerprinted ==
  load # "fingerprint" /\ ~kept /\ ~discarded /\ latest # None =>
    /\ source_fingerprint = [project |-> latest.project, text |-> latest.text]
    /\ catalog_fingerprint = latest.catalog

Loaded ==
  load = "loaded" =>
    IF latest = None
    THEN \E w \in seen : w.project = project /\ w.text \in Unreadable
    ELSE kept \/ discarded \/ Honest(latest)

(* A reply lasts until the next call; its positions are counted in its own   *)
(* text or one the project had during the call.                              *)
Replied ==
  /\ load # "idle" => reply = NoReply
  /\ AnswersAreCurrent
  /\ reply.index # None =>
       /\ reply.from # None /\ call.tool \notin {"resource_schema", "surface_routes"}
       /\ \/ call.source # None /\ reply.index = call.source
          \/ call.source = None /\ \E w \in seen : w.project = Home[call.file] /\ w.text = reply.index

CacheInv == Known /\ Watched /\ Untorn /\ Fingerprinted /\ Loaded /\ Replied
-----------------------------------------------------------------------------
(* Types *)

LEMMA Snapshots ==
  ASSUME TypeOK, NEW p \in Projects
  PROVE  /\ Current(p) \in Snapshot /\ Current(p).project = p
         /\ Current(p).text = disk[p] /\ Current(p).catalog = catalog[p]
BY DEF TypeOK, Current, Snapshot

LEMMA CallsAreTyped ==
  ASSUME call \in Calls
  PROVE  /\ call.file \in Files /\ call.source \in Overlays \cup {None}
         /\ Under[call.file] \subseteq Projects
         /\ Home[call.file] \in Projects \cup {None}
         /\ Home[call.file] # None => Home[call.file] \in Under[call.file]
         /\ call.source # None => call.tool = "check"
         /\ call.source # None => call.source \in Texts
<1>1. call \in Call /\ (call.source # None => call.tool = "check")
  BY CallsAssumption
<1>2. call.file \in Files /\ call.source \in Overlays \cup {None}
  BY <1>1 DEF Call
<1> QED  BY <1>1, <1>2, CacheAssumption

(* What an analysis of a project reads is a text, and its fingerprint is     *)
(* None exactly when its sources cannot be walked.                           *)
LEMMA Fingerprints ==
  ASSUME TypeOK, NEW p \in Projects
  PROVE  /\ overlay_snapshot(p, call.file, call.source) \in Texts
         /\ fingerprint(p, call.file, call.source) \in Fingerprint \cup {None}
         /\ (fingerprint(p, call.file, call.source) = None) <=> (disk[p] \in Unreadable)
         /\ disk[p] \notin Unreadable =>
              fingerprint(p, call.file, call.source)
                = [project |-> p, text |-> overlay_snapshot(p, call.file, call.source)]
<1>1. overlay_snapshot(p, call.file, call.source) \in Texts
  BY CallsAreTyped DEF TypeOK, overlay_snapshot
<1>2. [project |-> p, text |-> overlay_snapshot(p, call.file, call.source)] \in Fingerprint
  BY <1>1 DEF Fingerprint
<1> QED  BY <1>1, <1>2, NoneIsNoSnapshot DEF fingerprint

LEMMA TypesKeep ==
  ASSUME TypeOK, Known, [Next]_vars
  PROVE  TypeOK'
<1> USE DEF world, workspace, prints, asked, loading, history
<1>1. call \in Calls /\ None \in Catalogs
  BY CacheAssumption DEF TypeOK
<1>2. NoReply \in Reply /\ [NoReply EXCEPT !.kind = "error"] \in Reply
  BY DEF NoReply, Reply
<1>3. ASSUME NEW snapshot \in Snapshot \cup {None}, NEW index \in Texts \cup {None}
      PROVE  From(snapshot, index) \in Reply
  BY DEF From, Reply
<1>4. OnDisk \in Texts \cup {None}
  BY <1>1, CallsAreTyped DEF OnDisk, TypeOK
<1>5. ASSUME NEW r \in Reply, Answer(r)
      PROVE  TypeOK'
  BY <1>5 DEF Answer, TypeOK
<1>6. ASSUME NEW c \in Calls, Ask(c)
      PROVE  TypeOK'
  <2>1. seen' \subseteq Snapshot
    BY <1>6, Snapshots DEF Ask
  <2> QED  BY <1>2, <1>6, <2>1 DEF Ask, TypeOK
<1>7. CASE load = "start" /\ with_loaded_project(call.file, call.source)
  BY <1>7 DEF with_loaded_project, prepare_recompute, analyze, take_fingerprints, TypeOK
<1>8. CASE prepare_recompute(call.file)
  <2>1. PICK root \in Projects \cup {None} :
          \/ load' = "failed" /\ UNCHANGED <<project, bound>>
          \/ load' = "failed" /\ project' = root /\ UNCHANGED bound
          \/ root # None /\ load' = "analyze" /\ project' = root /\ bound' = catalog[root]
    BY <1>1, <1>8, CallsAreTyped DEF prepare_recompute
  <2>2. load' \in {"failed", "analyze"} /\ project' \in Projects \cup {None} /\ bound' \in Catalogs
    BY <2>1 DEF TypeOK
  <2> QED  BY <1>8, <2>2 DEF prepare_recompute, TypeOK
<1>9. CASE analyze(call.file, call.source)
  <2>1. project \in Projects
    BY <1>1, <1>9, CallsAreTyped DEF analyze, Known
  <2>2. [project |-> project, catalog |-> bound,
         text |-> overlay_snapshot(project, call.file, call.source)] \in Snapshot
    BY <2>1, Fingerprints DEF Snapshot, TypeOK
  <2>3. PICK snapshot \in Snapshot, generation \in {0, 1} :
          \/ UNCHANGED <<latest, installed, last_program, discarded>>
          \/ commit_recompute(generation, snapshot)
    BY <1>9, <2>2 DEF analyze
  <2>4. /\ latest' \in Snapshot \cup {None} /\ last_program' \in Snapshot \cup {None}
        /\ installed' \in {-1, 0, 1} /\ discarded' \in BOOLEAN
    BY <2>3 DEF commit_recompute, TypeOK
  <2>5. load' \in {"failed", "fingerprint"}
    BY <1>9 DEF analyze
  <2> QED  BY <1>9, <2>4, <2>5 DEF analyze, TypeOK
<1>10. CASE take_fingerprints(call.file, call.source)
  <2>1. project \in Projects
    BY <1>1, <1>10, CallsAreTyped DEF take_fingerprints, Known
  <2>2. source_fingerprint' \in Fingerprint \cup {None} /\ catalog_fingerprint' \in Catalogs
    BY <1>10, <2>1, Fingerprints DEF take_fingerprints, TypeOK
  <2> QED  BY <1>10, <2>2 DEF take_fingerprints, TypeOK
<1>11. CASE Loads
  BY <1>2, <1>5, <1>7, <1>8, <1>9, <1>10, <1>11 DEF Loads, with_loaded_project
<1>12. CASE check
  <2>1. From(latest, IF call.source # None THEN call.source ELSE OnDisk) \in Reply
    BY <1>1, <1>3, <1>4, CallsAreTyped DEF TypeOK
  <2> QED  BY <1>5, <1>12, <2>1 DEF check
<1>13. CASE type_at_position \/ complete \/ namespace_complete \/ data_session
  <2>1. /\ From(latest, OnDisk) \in Reply /\ From(latest, None) \in Reply /\ Nothing \in Reply
    BY <1>3, <1>4 DEF TypeOK, Nothing
  <2> QED  BY <1>5, <1>13, <2>1 DEF type_at_position, complete, namespace_complete, data_session
<1>14. CASE resource_schema \/ surface_routes
  <2>1. From(program, None) \in Reply
    BY <1>3 DEF program, TypeOK
  <2> QED  BY <1>5, <1>14, <2>1 DEF resource_schema, surface_routes
<1>15. CASE expect \/ Restart
  BY <1>1, <1>2, <1>15 DEF expect, Restart, Cold, TypeOK
<1>16. ASSUME NEW p \in Projects, Disturb(p), disk' \in [Projects -> Texts],
              catalog' \in [Projects -> Catalogs]
       PROVE  TypeOK'
  <2>1. Current(p)' \in Snapshot
    BY <1>16 DEF Current, Snapshot
  <2>2. seen' \subseteq Snapshot /\ torn' \in BOOLEAN
    BY <1>16, <2>1 DEF Disturb, TypeOK
  <2>3. changes' \in 0..MaxChanges
    BY <1>16, CacheAssumption DEF Disturb, TypeOK
  <2> QED  BY <1>16, <2>2, <2>3 DEF Disturb, TypeOK
<1>17. ASSUME NEW p \in Projects, NEW text \in Texts, Save(p, text)
       PROVE  TypeOK'
  BY <1>16, <1>17 DEF Save, TypeOK
<1>18. ASSUME NEW p \in Projects, NEW c \in Catalogs, CommitCatalog(p, c)
       PROVE  TypeOK'
  BY <1>16, <1>18 DEF CommitCatalog, TypeOK
<1>19. CASE UNCHANGED vars
  BY <1>19 DEF vars, TypeOK
<1> QED  BY <1>6, <1>11, <1>12, <1>13, <1>14, <1>15, <1>17, <1>18, <1>19 DEF Next, Answering

-----------------------------------------------------------------------------
(* The steps of a load *)

(* A project above the file, as it is at a moment of the call, is honest.    *)
LEMMA CurrentIsHonest ==
  ASSUME TypeOK, Watched, load \notin {"idle", "panicked"}, project \in Under[call.file],
         latest.project = project, latest.catalog = catalog[project],
         latest.text = overlay_snapshot(project, call.file, call.source)
  PROVE  Honest(latest)
<1>1. project \in Projects
  BY CallsAreTyped DEF TypeOK
<1>2. /\ Current(project) \in seen /\ Current(project).project = project
      /\ Current(project).text = disk[project] /\ Current(project).catalog = catalog[project]
  BY <1>1, Snapshots DEF Watched
<1>3. IF call.source # None /\ Home[call.file] = project
      THEN latest.text = call.source ELSE latest.text = disk[project]
  BY DEF overlay_snapshot
<1> QED  BY <1>2, <1>3 DEF Honest

(* A call is told nothing before its answer.                                 *)
LEMMA NoReplyYet ==
  ASSUME reply' = NoReply
  PROVE  Replied'
BY DEF Replied, NoReply, AnswersAreCurrent

LEMMA StartKeeps ==
  ASSUME TypeOK, CacheInv, load = "start", with_loaded_project(call.file, call.source)
  PROVE  CacheInv'
<1> USE DEF world, workspace, prints, asked, loading, history, CacheInv
<1>1. /\ load' = (IF is_fresh_for(call.file, call.source) THEN "loaded" ELSE "prepare")
      /\ UNCHANGED <<world, workspace, prints, asked, bound, history>>
  BY DEF with_loaded_project, prepare_recompute, analyze, take_fingerprints
<1>2. reply' = NoReply
  BY <1>1 DEF Replied
<1>3. Known' /\ Watched' /\ Untorn' /\ Fingerprinted'
  BY <1>1 DEF Known, Watched, Untorn, Fingerprinted, Current
<1>4. ASSUME is_fresh_for(call.file, call.source)
      PROVE  IF latest = None
             THEN \E w \in seen : w.project = project /\ w.text \in Unreadable
             ELSE kept \/ discarded \/ Honest(latest)
  <2>1. project \in Under[call.file] /\ project \in Projects
    BY <1>4, CallsAreTyped DEF is_fresh_for, TypeOK
  <2>2. CASE latest = None
    <3>1. disk[project] \in Unreadable
      BY <1>4, <2>1, <2>2, Fingerprints DEF is_fresh_for, Known
    <3>2. Current(project) \in seen /\ Current(project).project = project
          /\ Current(project).text = disk[project]
      BY <2>1, Snapshots DEF Watched
    <3> QED  BY <2>2, <3>1, <3>2
  <2>3. CASE latest # None /\ ~kept /\ ~discarded
    <3>1. /\ source_fingerprint = [project |-> latest.project, text |-> latest.text]
          /\ catalog_fingerprint = latest.catalog
      BY <2>3 DEF Fingerprinted
    <3>2. latest \in Snapshot
      BY <2>3 DEF TypeOK
    <3>3. source_fingerprint # None
      BY <3>1, <3>2, NoneIsNoSnapshot DEF Snapshot, Fingerprint
    <3>4. source_fingerprint
            = [project |-> project, text |-> overlay_snapshot(project, call.file, call.source)]
      BY <1>4, <2>1, <3>3, Fingerprints DEF is_fresh_for
    <3>5. /\ latest.project = project
          /\ latest.text = overlay_snapshot(project, call.file, call.source)
      BY <3>1, <3>4
    <3>6. latest.catalog = catalog[project]
      BY <1>4, <3>1 DEF is_fresh_for
    <3> QED  BY <2>1, <2>3, <3>5, <3>6, CurrentIsHonest
  <2> QED  BY <2>2, <2>3
<1>5. Loaded'
  BY <1>1, <1>4 DEF Loaded, Honest
<1> QED  BY <1>2, <1>3, <1>5, NoReplyYet

LEMMA PrepareKeeps ==
  ASSUME TypeOK, CacheInv, prepare_recompute(call.file)
  PROVE  CacheInv'
<1> USE DEF world, workspace, prints, asked, loading, history, CacheInv
<1>1. /\ load = "prepare" /\ torn' = FALSE
      /\ UNCHANGED <<world, latest, installed, last_program, prints, asked, seen, kept, discarded>>
  BY DEF prepare_recompute
<1>2. \/ load' = "failed"
      \/ load' = "analyze" /\ project' \in Under[call.file] /\ bound' = catalog[project']
  BY CallsAreTyped DEF prepare_recompute, TypeOK
<1>3. Known' /\ Watched' /\ Untorn' /\ Fingerprinted' /\ Loaded'
  BY <1>1, <1>2 DEF Known, Watched, Untorn, Fingerprinted, Loaded, Current
<1>4. reply' = NoReply
  BY <1>1 DEF Replied
<1> QED  BY <1>3, <1>4, NoReplyYet

LEMMA AnalyzeKeeps ==
  ASSUME TypeOK, CacheInv, analyze(call.file, call.source)
  PROVE  CacheInv'
<1> USE DEF world, workspace, prints, asked, loading, history, CacheInv
<1> DEFINE snapshot == [project |-> project, catalog |-> bound,
                        text |-> overlay_snapshot(project, call.file, call.source)]
<1>1. /\ load = "analyze" /\ UNCHANGED <<world, project, prints, asked, bound, seen, torn, kept>>
  BY DEF analyze
<1>2. project \in Projects
  BY <1>1, CallsAreTyped DEF Known, TypeOK
<1>3. Watched' /\ reply' = NoReply
  BY <1>1 DEF analyze, Watched, Current, Replied
<1>4. CASE disk[project] \in Unreadable
  <2>1. load' = "failed" /\ UNCHANGED <<latest, installed, last_program, discarded>>
    BY <1>4 DEF analyze
  <2>2. Known' /\ Untorn' /\ Fingerprinted' /\ Loaded'
    BY <1>1, <2>1 DEF Known, Untorn, Fingerprinted, Loaded
  <2> QED  BY <1>3, <2>2, NoReplyYet
<1>5. CASE disk[project] \notin Unreadable
  <2>1. load' = "fingerprint"
    BY <1>5 DEF analyze
  <2>2. PICK generation \in {0, 1} : commit_recompute(generation, snapshot)
    BY <1>5 DEF analyze
  <2>3. snapshot \in Snapshot
    BY <1>2, Fingerprints DEF Snapshot, TypeOK
  <2>4. snapshot # None
    BY <2>3, NoneIsNoSnapshot
  <2>5. latest' # None /\ (~discarded' => latest' = snapshot)
    <3>1. CASE generation < installed
      <4>1. latest # None
        BY <2>2, <3>1 DEF Known
      <4> QED  BY <2>2, <3>1, <4>1 DEF commit_recompute
    <3>2. CASE ~(generation < installed)
      BY <2>2, <2>4, <3>2 DEF commit_recompute
    <3> QED  BY <3>1, <3>2
  <2>6. Known'
    BY <1>1, <2>1, <2>5 DEF Known
  <2>7. Untorn'
    BY <1>1, <1>5, <2>1, <2>5 DEF Untorn, overlay_snapshot
  <2>8. Fingerprinted' /\ Loaded'
    BY <2>1 DEF Fingerprinted, Loaded
  <2> QED  BY <1>3, <2>6, <2>7, <2>8, NoReplyYet
<1> QED  BY <1>4, <1>5

LEMMA FingerprintKeeps ==
  ASSUME TypeOK, CacheInv, take_fingerprints(call.file, call.source)
  PROVE  CacheInv'
<1> USE DEF world, workspace, prints, asked, loading, history, CacheInv
<1>1. /\ load = "fingerprint" /\ load' = "loaded" /\ kept' = torn
      /\ source_fingerprint' = fingerprint(project, call.file, call.source)
      /\ catalog_fingerprint' = catalog[project]
      /\ UNCHANGED <<world, workspace, asked, bound, seen, torn, discarded>>
  BY DEF take_fingerprints
<1>2. project \in Under[call.file] /\ project \in Projects /\ latest # None
  BY <1>1, CallsAreTyped DEF Known, TypeOK
<1>3. Known' /\ Watched' /\ Untorn' /\ reply' = NoReply
  BY <1>1, <1>2 DEF Known, Watched, Untorn, Current, Replied
<1>4. ASSUME ~torn, ~discarded
      PROVE  /\ source_fingerprint' = [project |-> latest.project, text |-> latest.text]
             /\ catalog_fingerprint' = latest.catalog
             /\ Honest(latest)
  <2>1. disk[project] \notin Unreadable /\ bound = catalog[project]
        /\ latest = [project |-> project, catalog |-> bound,
                     text |-> overlay_snapshot(project, call.file, call.source)]
    BY <1>1, <1>4 DEF Untorn
  <2>2. /\ latest.project = project /\ latest.catalog = catalog[project]
        /\ latest.text = overlay_snapshot(project, call.file, call.source)
    BY <2>1
  <2>3. Honest(latest)
    BY <1>1, <1>2, <2>2, CurrentIsHonest
  <2> QED  BY <1>1, <1>2, <2>1, <2>2, <2>3, Fingerprints
<1>5. Fingerprinted' /\ Loaded'
  BY <1>1, <1>2, <1>4 DEF Fingerprinted, Loaded, Honest
<1> QED  BY <1>3, <1>5, NoReplyYet

-----------------------------------------------------------------------------
(* Answers, the end of the process, and other programs *)

(* What may be answered: nothing, the analysis that was loaded, or for the   *)
(* tools that fall back, an older program while the latest has no modules.   *)
LEMMA AnswerKeeps ==
  ASSUME TypeOK, CacheInv, NEW r \in Reply, Answer(r), load # "fingerprint",
         r.from # None /\ ~kept /\ ~discarded =>
           \/ Honest(r.from)
           \/ call.tool \in {"resource_schema", "surface_routes"} /\ latest.text \in Dropped,
         r.index # None =>
           /\ r.from # None /\ call.tool \notin {"resource_schema", "surface_routes"}
           /\ \/ call.source # None /\ r.index = call.source
              \/ call.source = None /\ \E w \in seen : w.project = Home[call.file] /\ w.text = r.index
  PROVE  CacheInv'
<1> USE DEF world, workspace, prints, asked, loading, history, CacheInv
<1>1. /\ reply' = r /\ load' = "idle"
      /\ UNCHANGED <<world, workspace, prints, call, bound, history>>
  BY DEF Answer
<1>2. Fingerprinted'
  BY <1>1 DEF Fingerprinted
<1>3. Known' /\ Watched' /\ Untorn' /\ Loaded'
  BY <1>1 DEF Known, Watched, Untorn, Loaded
<1>4. Replied'
  BY <1>1 DEF Replied, AnswersAreCurrent, Honest
<1> QED  BY <1>2, <1>3, <1>4

LEMMA ToolsKeep ==
  ASSUME TypeOK, CacheInv,
         \/ check \/ type_at_position \/ complete \/ namespace_complete
         \/ resource_schema \/ surface_routes \/ data_session
         \/ load = "failed" /\ Answer([NoReply EXCEPT !.kind = "error"])
  PROVE  CacheInv'
<1> USE DEF CacheInv
<1>1. ASSUME load = "loaded", latest # None, ~kept, ~discarded
      PROVE  Honest(latest)
  BY <1>1 DEF Loaded
<1>2. ASSUME load = "loaded", OnDisk # None
      PROVE  \E w \in seen : w.project = Home[call.file] /\ w.text = OnDisk
  <2>1. Home[call.file] \in Projects /\ OnDisk = disk[Home[call.file]]
    BY <1>2, CallsAreTyped DEF OnDisk, TypeOK
  <2> QED  BY <1>2, <2>1, Snapshots DEF Watched
<1>3. OnDisk \in Texts \cup {None}
  BY CallsAreTyped DEF OnDisk, TypeOK
<1>4. ASSUME NEW index \in Texts \cup {None}, load = "loaded", latest # None,
             Answer(From(latest, index)),
             index # None =>
               /\ call.tool \notin {"resource_schema", "surface_routes"}
               /\ \/ call.source # None /\ index = call.source
                  \/ call.source = None
                     /\ \E w \in seen : w.project = Home[call.file] /\ w.text = index
      PROVE  CacheInv'
  <2>1. /\ From(latest, index) \in Reply
        /\ From(latest, index).from = latest /\ From(latest, index).index = index
    BY <1>4 DEF From, Reply, TypeOK
  <2> QED  BY <1>1, <1>4, <2>1, AnswerKeeps
<1>5. ASSUME NEW r \in Reply, r.from = None, r.index = None, Answer(r), load # "fingerprint"
      PROVE  CacheInv'
  BY <1>5, AnswerKeeps
<1>6. Nothing \in Reply /\ Nothing.from = None /\ Nothing.index = None
  BY DEF Nothing, From, Reply
<1>7. CASE check
  <2>1. load = "loaded" /\ latest # None /\ call.tool = "check"
        /\ Answer(From(latest, IF call.source # None THEN call.source ELSE OnDisk))
    BY <1>7 DEF check, ReadsLatest, Ready
  <2>2. CASE call.source # None
    BY <1>4, <2>1, <2>2, CallsAreTyped DEF TypeOK
  <2>3. CASE call.source = None
    BY <1>2, <1>3, <1>4, <2>1, <2>3
  <2> QED  BY <2>2, <2>3
<1>8. CASE type_at_position \/ complete
  <2>1. /\ load = "loaded" /\ latest # None /\ call.tool \in {"type_at_position", "complete"}
        /\ Answer(From(latest, OnDisk)) \/ Answer(Nothing)
    BY <1>8 DEF type_at_position, complete, ReadsLatest, Ready
  <2>2. call.source = None
    BY <2>1, CallsAreTyped DEF TypeOK
  <2> QED  BY <1>2, <1>3, <1>4, <1>5, <1>6, <2>1, <2>2
<1>9. CASE namespace_complete
  <2>1. /\ load = "loaded" /\ latest # None
        /\ Answer(From(latest, None)) \/ Answer(Nothing)
    BY <1>9 DEF namespace_complete, ReadsLatest, Ready
  <2> QED  BY <1>4, <1>5, <1>6, <2>1
<1>10. CASE resource_schema \/ surface_routes
  <2>1. /\ load = "loaded" /\ call.tool \in {"resource_schema", "surface_routes"}
        /\ Answer(From(program, None))
    BY <1>10 DEF resource_schema, surface_routes, Ready
  <2>2. /\ From(program, None) \in Reply
        /\ From(program, None).from = program /\ From(program, None).index = None
    BY DEF From, Reply, program, TypeOK
  <2>3. ASSUME program # None, ~kept, ~discarded
        PROVE  Honest(program) \/ latest.text \in Dropped
    <3>1. latest # None
      BY <2>3 DEF program, Known
    <3> QED  BY <1>1, <2>1, <2>3, <3>1 DEF program
  <2> QED  BY <2>1, <2>2, <2>3, AnswerKeeps
<1>11. CASE data_session
  BY <1>5, <1>6, <1>11 DEF data_session, Ready
<1>12. CASE load = "failed" /\ Answer([NoReply EXCEPT !.kind = "error"])
  <2>1. /\ [NoReply EXCEPT !.kind = "error"] \in Reply
        /\ [NoReply EXCEPT !.kind = "error"].from = None
        /\ [NoReply EXCEPT !.kind = "error"].index = None
    BY DEF NoReply, Reply
  <2> QED  BY <1>5, <1>12, <2>1
<1> QED  BY <1>7, <1>8, <1>9, <1>10, <1>11, <1>12

LEMMA ColdKeeps ==
  ASSUME Cold, load' \in {"idle", "panicked"}
  PROVE  CacheInv'
<1>1. Known' /\ Watched' /\ Untorn' /\ Fingerprinted' /\ Loaded'
  BY DEF Cold, Known, Watched, Untorn, Fingerprinted, Loaded
<1>2. Replied'
  BY NoReplyYet DEF Cold
<1> QED  BY <1>1, <1>2 DEF CacheInv

(* What was seen stays seen, so what was honest stays so.                    *)
LEMMA DisturbKeeps ==
  ASSUME TypeOK, CacheInv, NEW p \in Projects, Disturb(p),
         \A q \in Projects \ {p} : disk'[q] = disk[q] /\ catalog'[q] = catalog[q]
  PROVE  CacheInv'
<1> USE DEF workspace, prints, asked, loading, CacheInv
<1>1. /\ seen' = seen \cup {Current(p)'}
      /\ torn' = (torn \/ (p = project /\ load \in {"analyze", "fingerprint"}))
      /\ UNCHANGED <<workspace, prints, asked, loading, kept, discarded>>
  BY DEF Disturb
<1>2. Known' /\ Fingerprinted'
  BY <1>1 DEF Known, Fingerprinted
<1>3. Watched'
  <2> SUFFICES ASSUME load' \notin {"idle", "panicked"}, NEW q \in Projects
               PROVE  Current(q)' \in seen'
    BY DEF Watched
  <2>1. CASE q = p
    BY <1>1, <2>1
  <2>2. CASE q # p
    <3>1. Current(q)' = Current(q)
      BY <2>2 DEF Current
    <3> QED  BY <1>1, <3>1 DEF Watched
  <2> QED  BY <2>1, <2>2
<1>4. Untorn'
  <2> SUFFICES ASSUME ~torn', load \in {"analyze", "fingerprint"}
               PROVE  Untorn'
    BY <1>1 DEF Untorn
  <2>1. ~torn /\ p # project /\ project \in Projects
    BY <1>1, CallsAreTyped DEF Known, TypeOK
  <2>2. disk'[project] = disk[project] /\ catalog'[project] = catalog[project]
    BY <2>1
  <2> QED  BY <1>1, <2>1, <2>2 DEF Untorn, overlay_snapshot
<1>5. Loaded'
  BY <1>1 DEF Loaded, Honest
<1>6. Replied'
  <2>1. (load' # "idle" => reply' = NoReply) /\ AnswersAreCurrent'
    BY <1>1 DEF Replied, AnswersAreCurrent, Honest
  <2> QED  BY <1>1, <2>1 DEF Replied
<1> QED  BY <1>2, <1>3, <1>4, <1>5, <1>6

-----------------------------------------------------------------------------
LEMMA CacheInvHolds == Spec => [](TypeOK /\ CacheInv)
<1>1. Init => TypeOK /\ CacheInv
  <2> SUFFICES ASSUME Init PROVE TypeOK /\ CacheInv
    OBVIOUS
  <2>1. TypeOK
    <3>1. NoReply \in Reply
      BY DEF NoReply, Reply
    <3>2. /\ disk \in [Projects -> Texts] /\ catalog \in [Projects -> Catalogs]
          /\ changes \in 0..MaxChanges /\ catalog_fingerprint \in Catalogs /\ bound \in Catalogs
      BY CacheAssumption DEF Init
    <3> QED  BY <3>1, <3>2 DEF Init, TypeOK
  <2>2. Known /\ Watched /\ Untorn /\ Fingerprinted /\ Loaded /\ Replied
    BY DEF Init, Known, Watched, Untorn, Fingerprinted, Loaded, Replied, AnswersAreCurrent, NoReply
  <2> QED  BY <2>1, <2>2 DEF CacheInv
<1>2. TypeOK /\ CacheInv /\ [Next]_vars => TypeOK' /\ CacheInv'
  <2> SUFFICES ASSUME TypeOK, CacheInv, [Next]_vars PROVE CacheInv'
    BY TypesKeep DEF CacheInv
  <2>1. ASSUME NEW c \in Calls, Ask(c)
        PROVE  CacheInv'
    <3>1. /\ load' = "start" /\ reply' = NoReply /\ seen' = {Current(p) : p \in Projects}
          /\ UNCHANGED <<world, workspace, prints, bound, torn, kept, discarded>> /\ load = "idle"
      BY <2>1 DEF Ask
    <3>2. Known' /\ Watched' /\ Untorn' /\ Fingerprinted' /\ Loaded'
      BY <3>1 DEF Known, Watched, Untorn, Fingerprinted, Loaded, Current, CacheInv, world,
         workspace, prints
    <3> QED  BY <3>1, <3>2, NoReplyYet DEF CacheInv
  <2>2. CASE load # "idle" /\ with_loaded_project(call.file, call.source)
    BY <2>2, StartKeeps, PrepareKeeps, AnalyzeKeeps, FingerprintKeeps DEF with_loaded_project
  <2>3. CASE expect \/ Restart
    BY <2>3, ColdKeeps DEF expect, Restart
  <2>4. ASSUME NEW p \in Projects, NEW text \in Texts, Save(p, text)
        PROVE  CacheInv'
    <3>1. \A q \in Projects \ {p} : disk'[q] = disk[q] /\ catalog'[q] = catalog[q]
      BY <2>4 DEF Save, TypeOK
    <3> QED  BY <2>4, <3>1, DisturbKeeps DEF Save
  <2>5. ASSUME NEW p \in Projects, NEW c \in Catalogs, CommitCatalog(p, c)
        PROVE  CacheInv'
    <3>1. \A q \in Projects \ {p} : disk'[q] = disk[q] /\ catalog'[q] = catalog[q]
      BY <2>5 DEF CommitCatalog, TypeOK
    <3> QED  BY <2>5, <3>1, DisturbKeeps DEF CommitCatalog
  <2>6. CASE UNCHANGED vars
    <3> USE <2>6 DEF vars, world, workspace, prints, asked, loading, history, CacheInv
    <3>1. Known' /\ Watched' /\ Fingerprinted'
      BY DEF Known, Watched, Fingerprinted, Current
    <3>2. Untorn' /\ Loaded'
      BY DEF Untorn, Loaded, overlay_snapshot, Honest
    <3>3. Replied'
      BY DEF Replied, AnswersAreCurrent, Honest
    <3> QED  BY <3>1, <3>2, <3>3
  <2> QED  BY <2>1, <2>2, <2>3, <2>4, <2>5, <2>6, ToolsKeep DEF Next, Answering, Loads
<1> QED  BY <1>1, <1>2, PTL DEF Spec

-----------------------------------------------------------------------------
(* Every state the cache, its load and its calls get into is well typed.     *)
THEOREM CacheTypesHold == Spec => []TypeOK
BY CacheInvHolds, PTL

(* A reply is drawn from what the projects above the file said at a moment   *)
(* of the call, even when the cache answers it (with_loaded_project,         *)
(* is_fresh_for).                                                            *)
THEOREM AnswersAreCurrentCorrect == Spec => []AnswersAreCurrent
<1>1. CacheInv => AnswersAreCurrent
  BY DEF CacheInv, Replied
<1> QED  BY <1>1, CacheInvHolds, PTL

(* The positions of a reply are counted in the text that was analysed, if    *)
(* the project did not change during the call (the line index the tools make *)
(* from the disk).                                                           *)
THEOREM IndexIsOfTheAnalysisCorrect == Spec => []IndexIsOfTheAnalysis
<1>1. CacheInv => IndexIsOfTheAnalysis
  <2> SUFFICES ASSUME CacheInv, reply.index # None, ~kept, ~discarded,
                      reply.from.project = Home[call.file],
                      \A v, w \in seen : v.project = Home[call.file] /\ w.project = Home[call.file]
                                           => v.text = w.text
               PROVE  reply.index = reply.from.text
    BY DEF IndexIsOfTheAnalysis
  <2>1. Honest(reply.from)
    BY DEF CacheInv, Replied, AnswersAreCurrent
  <2>2. CASE call.source # None /\ reply.index = call.source
    BY <2>1, <2>2 DEF Honest
  <2>3. CASE call.source = None /\ \E w \in seen : w.project = Home[call.file] /\ w.text = reply.index
    BY <2>1, <2>3 DEF Honest
  <2> QED  BY <2>2, <2>3 DEF CacheInv, Replied
<1> QED  BY <1>1, CacheInvHolds, PTL

(* A call ends the process only when its sources cannot be walked and no     *)
(* analysis has succeeded yet (the expect of the tools).                     *)
THEOREM PanicsOnlyUncheckedCorrect == Spec => PanicsOnlyUnchecked
<1>1. CacheInv /\ [Next]_vars =>
        [load = "loaded" /\ load' = "panicked" =>
           \E w \in seen : w.project = project /\ w.text \in Unreadable]_vars
  <2> SUFFICES ASSUME CacheInv, Next, load = "loaded", load' = "panicked"
               PROVE  latest = None
    BY DEF CacheInv, Loaded
  <2>1. CASE expect
    BY <2>1 DEF expect
  <2>2. ~Answering \/ expect
    BY DEF Answering, Loads, with_loaded_project, prepare_recompute, analyze, take_fingerprints,
       check, type_at_position, complete, namespace_complete, resource_schema, surface_routes,
       data_session, Answer
  <2>3. ~Restart /\ (\A c \in Calls : ~Ask(c))
    BY DEF Restart, Ask
  <2>4. /\ \A p \in Projects, text \in Texts : ~Save(p, text)
        /\ \A p \in Projects, c \in Catalogs : ~CommitCatalog(p, c)
    BY DEF Save, CommitCatalog, Disturb, loading
  <2> QED  BY <2>1, <2>2, <2>3, <2>4 DEF Next
<1> QED  BY <1>1, CacheInvHolds, PTL DEF Spec, PanicsOnlyUnchecked

-----------------------------------------------------------------------------
(* What McpServer makes of a load (ToolCall) *)

(* The project a tool is run on is above its file.                           *)
LoadedAbove == load = "loaded" => project \in Under[call.file]

(* The steps of a load, and its failure.                                     *)
LEMMA LoadSteps ==
  ASSUME CacheInv, LoadedAbove, Loads
  PROVE  LoadedAbove' /\ [Tool!Next]_(Tool!vars)
<1>. USE DEF LoadedAbove, Resting, Tool!Next, Tool!vars, world, workspace, prints, asked, loading, history
<1>1. UNCHANGED call
  BY DEF Loads, with_loaded_project, prepare_recompute, analyze, take_fingerprints, Answer
<1>2. CASE load = "start" /\ with_loaded_project(call.file, call.source)
  <2>1. /\ UNCHANGED project
        /\ load' = "prepare" \/ (load' = "loaded" /\ project \in Under[call.file])
    BY <1>2 DEF with_loaded_project, prepare_recompute, analyze, take_fingerprints, is_fresh_for
  <2>. QED
    BY <1>1, <1>2, <2>1 DEF Tool!Load
<1>3. CASE prepare_recompute(call.file) \/ analyze(call.file, call.source)
  <2>1. /\ load \in {"prepare", "analyze"}
        /\ load' \in {"analyze", "fingerprint", "failed"}
    BY <1>3 DEF prepare_recompute, analyze
  <2>. QED
    BY <1>1, <2>1
<1>4. CASE take_fingerprints(call.file, call.source)
  <2>1. load = "fingerprint" /\ load' = "loaded" /\ UNCHANGED project /\ project \in Under[call.file]
    BY <1>4 DEF take_fingerprints, CacheInv, Known
  <2>. QED
    BY <1>1, <2>1 DEF Tool!Load
<1>5. CASE load = "failed" /\ load' = "idle"
  BY <1>5 DEF Tool!End
<1>. QED
  BY <1>2, <1>3, <1>4, <1>5 DEF Loads, with_loaded_project, Answer

LEMMA ToolSteps ==
  ASSUME CacheInv, LoadedAbove, [Next]_vars, call.file \in Files, \A c \in Calls : c.file \in Files
  PROVE  LoadedAbove' /\ [Tool!Next]_(Tool!vars)
<1>. USE DEF LoadedAbove, Resting, Tool!Next, Tool!vars, world, workspace, prints, asked, loading, history
<1>1. ASSUME NEW c \in Calls, Ask(c)
      PROVE  LoadedAbove' /\ [Tool!Next]_(Tool!vars)
  <2>1. load = "idle" /\ load' = "start" /\ call' = c /\ c.file \in Files
    BY <1>1 DEF Ask
  <2>. QED
    BY <2>1 DEF Tool!Ask
<1>2. CASE check \/ type_at_position \/ complete \/ namespace_complete
           \/ resource_schema \/ surface_routes \/ data_session \/ expect
  <2>1. load = "loaded" /\ load' \in {"idle", "panicked"}
    BY <1>2 DEF check, type_at_position, complete, namespace_complete, resource_schema,
       surface_routes, data_session, expect, Ready, ReadsLatest, Answer
  <2>. QED
    BY <2>1 DEF Tool!End
<1>3. CASE Restart
  BY <1>3 DEF Restart
<1>4. CASE UNCHANGED <<load, call, project>>
  BY <1>4
<1>5. \A p \in Projects : Disturb(p) => UNCHANGED <<load, call, project>>
  BY DEF Disturb
<1>6. CASE \/ \E p \in Projects, text \in Texts : Save(p, text)
           \/ \E p \in Projects, c \in Catalogs : CommitCatalog(p, c)
  BY <1>4, <1>5, <1>6 DEF Save, CommitCatalog
<1>7. CASE UNCHANGED vars
  BY <1>4, <1>7 DEF vars
<1>. QED
  BY <1>1, <1>2, <1>3, <1>6, <1>7, LoadSteps DEF Next, Answering

(* Every call of the cache is one of ToolCall: be the project found anew or  *)
(* cached, the tool reads one at a root above its file, until it has         *)
(* answered; the steps of the load and the changes of other programs during  *)
(* them do not show (is_fresh_for, with_loaded_project).                     *)
THEOREM LoadsAsToolCallCorrect == Spec => LoadsAsToolCall
<1>1. Init => LoadedAbove /\ Tool!Init
  BY DEF Init, LoadedAbove, Resting, Tool!Init
<1>2. TypeOK /\ CacheInv /\ LoadedAbove /\ [Next]_vars => LoadedAbove' /\ [Tool!Next]_(Tool!vars)
  <2>1. \A c \in Calls : c.file \in Files
    BY CallsAssumption DEF Call
  <2>. QED
    BY <2>1, ToolSteps DEF TypeOK
<1>. QED
  BY <1>1, <1>2, CacheInvHolds, PTL DEF Spec, LoadsAsToolCall, Tool!Spec

-----------------------------------------------------------------------------
(* Every call ends: a load never goes back, whatever other programs write.   *)

Starting == load = "start"
Preparing == load = "prepare"
Analyzing == load = "analyze"
Printing == load = "fingerprint"
Ending == load \in {"loaded", "failed"}

LEMMA LoadsAhead ==
  ASSUME Answering
  PROVE  /\ Starting => Preparing' \/ Ending'
         /\ Preparing => Analyzing' \/ Ending'
         /\ Analyzing => Printing' \/ Ending'
         /\ Printing => Ending'
         /\ Ending => Resting'
BY DEF Answering, Loads, with_loaded_project, prepare_recompute, analyze, take_fingerprints,
   check, type_at_position, complete, namespace_complete, resource_schema, surface_routes,
   data_session, expect, Ready, ReadsLatest, Answer, Cold,
   Starting, Preparing, Analyzing, Printing, Ending, Resting

LEMMA OnlyAnswering ==
  ASSUME [Next]_vars, ~Resting
  PROVE  UNCHANGED load \/ Answering
<1>1. \A p \in Projects : Disturb(p) => UNCHANGED load
  BY DEF Disturb, loading
<1>. QED
  BY <1>1 DEF Next, Ask, Restart, Save, CommitCatalog, vars, loading, Resting

(* A call ends, in its answer or with the process, after at most five steps   *)
(* of the server thread, however other programs write in between              *)
(* (with_loaded_project).  That the thread is enabled to take them is the     *)
(* premise.                                                                   *)
THEOREM CallsEndCorrect == FairSpec /\ []CanAnswer => CallsEnd
<1>1. Starting /\ [Next]_vars => Starting' \/ Preparing' \/ Ending'
  BY OnlyAnswering, LoadsAhead DEF Starting, Resting
<1>2. Preparing /\ [Next]_vars => Preparing' \/ Analyzing' \/ Ending'
  BY OnlyAnswering, LoadsAhead DEF Preparing, Resting
<1>3. Analyzing /\ [Next]_vars => Analyzing' \/ Printing' \/ Ending'
  BY OnlyAnswering, LoadsAhead DEF Analyzing, Resting
<1>4. Printing /\ [Next]_vars => Printing' \/ Ending'
  BY OnlyAnswering, LoadsAhead DEF Printing, Resting
<1>5. Ending /\ [Next]_vars => Ending' \/ Resting'
  BY OnlyAnswering, LoadsAhead DEF Ending, Resting
<1>6. <<Answering>>_vars =>
        /\ Starting => Preparing' \/ Ending'
        /\ Preparing => Analyzing' \/ Ending'
        /\ Analyzing => Printing' \/ Ending'
        /\ Printing => Ending'
        /\ Ending => Resting'
  BY LoadsAhead
<1>7. Starting \/ Preparing \/ Analyzing \/ Printing \/ Ending => ~Resting
  BY DEF Starting, Preparing, Analyzing, Printing, Ending, Resting
<1>8. CanAnswer => (~Resting => ENABLED <<Answering>>_vars)
  BY DEF CanAnswer
<1>9. Starting <=> load = "start"
  BY DEF Starting
<1>. QED
  BY <1>1, <1>2, <1>3, <1>4, <1>5, <1>6, <1>7, <1>8, <1>9, PTL DEF FairSpec, Spec, CallsEnd
=============================================================================
