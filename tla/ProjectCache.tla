---------------------------- MODULE ProjectCache ----------------------------
(***************************************************************************)
(* The checked project marrow-mcp keeps between tool calls                 *)
(* (crates/marrow-lsp-core/src/mcp.rs, with workspace.rs under it).        *)
(*                                                                         *)
(* A call first makes sure the cached analysis answers for its file.  The  *)
(* cache keeps a fingerprint of the sources and of the committed catalog;  *)
(* when either differs, the project is prepared, analysed and committed,   *)
(* and the fingerprints are taken anew, each step reading the disk at its  *)
(* own time while other programs write there.                              *)
(*                                                                         *)
(* Abstractions.  A project is one text (what all its source files say)    *)
(* and one committed catalog.  A fingerprint is what it fingerprints:      *)
(* hashes do not collide.  The config of a project stays as it is.         *)
(***************************************************************************)
EXTENDS Integers

CONSTANTS
  Calls,       \* the calls the client may make
  Projects,    \* project roots
  Files,       \* paths a tool may be given
  Home,        \* the nearest root above a file, None outside any project
  Under,       \* every project root above a file
  Texts,       \* what the sources of a project may say
  Dropped,     \* texts whose check keeps no module: each has a parse error
  Unreadable,  \* texts that stand for source roots that cannot be walked
  Catalogs,    \* committed catalogs; None when there is no lock file
  Overlays,    \* texts an agent may send along, unsaved
  BindFails,   \* whether binding the committed catalog may fail
  MaxChanges,  \* bound: changes other programs make
  None

ASSUME CacheAssumption ==
  /\ Home \in [Files -> Projects \cup {None}]
  /\ Under \in [Files -> SUBSET Projects]
  /\ \A f \in Files : Home[f] # None => Home[f] \in Under[f]
  /\ Dropped \subseteq Texts /\ Unreadable \subseteq Texts /\ Overlays \subseteq Texts
  /\ BindFails \in BOOLEAN /\ MaxChanges \in Nat
  /\ None \notin Projects \cup Texts /\ None \in Catalogs

(* Only check takes a source. *)
Tools == {"check", "type_at_position", "complete", "namespace_complete",
          "resource_schema", "surface_routes", "data"}
Call == [tool : Tools, file : Files, source : Overlays \cup {None}]

ASSUME CallsAssumption == Calls \subseteq {c \in Call : c.source # None => c.tool = "check"}

(* An analysis of a project. *)
Snapshot == [project : Projects, text : Texts, catalog : Catalogs]
Fingerprint == [project : Projects, text : Texts]

ASSUME NoneIsNoSnapshot == None \notin Snapshot \cup Fingerprint

VARIABLES
  disk,       \* what the sources of each project say
  catalog,    \* the committed catalog of each project
  changes,    \* changes so far
  project,    \* Workspace::project
  latest,     \* Workspace::latest
  installed,  \* Workspace::latest_documents_generation (-1: None)
  last_program,       \* Workspace::last_program, with the analysis it is of
  source_fingerprint, \* CachedProject::source_fingerprint
  catalog_fingerprint,\* CachedProject::catalog_fingerprint
  call,       \* the call being handled, or the last one
  reply,      \* what was replied to it
  load,       \* how far its load has come
  bound,      \* the catalog the load bound
  \* What follows is history, for the properties.
  seen,       \* what projects said during this call
  torn,       \* the project changed while the load read it
  kept,       \* such a change went unnoticed by the analysis now cached
  discarded   \* the last load's analysis was not installed

world == <<disk, catalog, changes>>
workspace == <<project, latest, installed, last_program>>
prints == <<source_fingerprint, catalog_fingerprint>>
asked == <<call, reply>>
loading == <<load, bound>>
history == <<seen, torn, kept, discarded>>
vars == <<world, workspace, prints, asked, loading, history>>

Current(p) == [project |-> p, text |-> disk[p], catalog |-> catalog[p]]

-----------------------------------------------------------------------------
(* Reading the disk *)

(* A plausible bug: the overlay is taken whether there is one or not. *)
Mut_overlay_snapshot(p, file, source) == IF Home[file] = p THEN source ELSE disk[p]

(* What an analysis of p reads: the overlay for the file it is of, else the disk. *)
overlay_snapshot(p, file, source) ==
  IF source # None /\ Home[file] = p THEN source ELSE disk[p]

fingerprint(p, file, source) ==
  IF disk[p] \in Unreadable THEN None
  ELSE [project |-> p, text |-> overlay_snapshot(p, file, source)]

(* A plausible bug: the catalog is not looked at. *)
Mut_is_fresh_for(file, source) ==
  /\ project \in Under[file]
  /\ source_fingerprint = fingerprint(project, file, source)

(* A plausible bug: only the catalog is. *)
Mut_is_fresh_for_source(file, source) ==
  /\ project \in Under[file]
  /\ catalog_fingerprint = catalog[project]

is_fresh_for(file, source) ==
  /\ project \in Under[file]
  /\ source_fingerprint = fingerprint(project, file, source)
  /\ catalog_fingerprint = catalog[project]

-----------------------------------------------------------------------------
(* Loading, in steps; each ends the load, fails it, or sets the next *)

(* prepare_recompute.  A file that is not under the project at hand has its *)
(* own resolved; the catalog is bound from the project's store.            *)
prepare_recompute(file) ==
  LET reuse == project \in Under[file]
      root == IF reuse THEN project ELSE Home[file]
  IN /\ load = "prepare"
     /\ torn' = FALSE
     /\ \/ /\ root = None
           /\ load' = "failed"
           /\ UNCHANGED <<project, bound>>
        \/ /\ root # None /\ BindFails
           /\ load' = "failed" /\ project' = root
           /\ UNCHANGED bound
        \/ /\ root # None
           /\ load' = "analyze" /\ project' = root /\ bound' = catalog[root]
     /\ UNCHANGED <<world, latest, installed, last_program, prints, asked, seen, kept, discarded>>

(* A plausible bug: an analysis is installed once and for all. *)
Mut_commit_recompute(generation, snapshot) ==
  /\ latest' = IF latest = None THEN snapshot ELSE latest
  /\ installed' = generation
  /\ last_program' = IF snapshot.text \in Dropped THEN last_program ELSE snapshot
  /\ discarded' = FALSE

(* commit_recompute.  The document set of a call is new, so its generation *)
(* is 1 with an overlay and 0 without; an older generation than the one    *)
(* installed is not installed.                                             *)
commit_recompute(generation, snapshot) ==
  IF generation < installed
  THEN UNCHANGED <<latest, installed, last_program>> /\ discarded' = TRUE
  ELSE /\ latest' = snapshot
       /\ installed' = generation
       /\ last_program' = IF snapshot.text \in Dropped THEN last_program ELSE snapshot
       /\ discarded' = FALSE

analyze(file, source) ==
  /\ load = "analyze"
  /\ IF disk[project] \in Unreadable
     THEN load' = "failed" /\ UNCHANGED <<latest, installed, last_program, discarded>>
     ELSE /\ commit_recompute(IF source = None THEN 0 ELSE 1,
                              [project |-> project, catalog |-> bound,
                               text |-> overlay_snapshot(project, file, source)])
          /\ load' = "fingerprint"
  /\ UNCHANGED <<world, project, prints, asked, bound, seen, torn, kept>>

(* The end of with_loaded_project's load: the fingerprints are read again. *)
take_fingerprints(file, source) ==
  /\ load = "fingerprint"
  /\ source_fingerprint' = fingerprint(project, file, source)
  /\ catalog_fingerprint' = catalog[project]
  /\ kept' = torn
  /\ load' = "loaded"
  /\ UNCHANGED <<world, workspace, asked, bound, seen, torn, discarded>>

(* with_loaded_project, up to the tool's own reading of the workspace. *)
with_loaded_project(file, source) ==
  \/ /\ load = "start"
     /\ load' = IF is_fresh_for(file, source) THEN "loaded" ELSE "prepare"
     /\ UNCHANGED <<world, workspace, prints, asked, bound, history>>
  \/ prepare_recompute(file)
  \/ analyze(file, source)
  \/ take_fingerprints(file, source)

(* Workspace::program: the latest program, else the last that had modules. *)
program ==
  IF latest # None /\ latest.text \notin Dropped THEN latest ELSE last_program

-----------------------------------------------------------------------------
(* Other programs save a source file or commit a catalog, at any time. *)
Disturb(p) ==
  /\ changes < MaxChanges /\ changes' = changes + 1
  /\ seen' = seen \cup {Current(p)'}
  /\ torn' = (torn \/ (p = project /\ load \in {"analyze", "fingerprint"}))
  /\ UNCHANGED <<workspace, prints, asked, loading, kept, discarded>>

Save(p, text) ==
  /\ disk[p] # text
  /\ disk' = [disk EXCEPT ![p] = text]
  /\ UNCHANGED catalog
  /\ Disturb(p)

CommitCatalog(p, c) ==
  /\ catalog[p] # c
  /\ catalog' = [catalog EXCEPT ![p] = c]
  /\ UNCHANGED disk
  /\ Disturb(p)

-----------------------------------------------------------------------------
(* Calls.  A reply is what it is drawn from: an analysis, and the text its   *)
(* positions are counted in.                                                 *)

Reply == [kind : {"none", "result", "error"}, from : Snapshot \cup {None},
          index : Texts \cup {None}]
NoReply == [kind |-> "none", from |-> None, index |-> None]
From(snapshot, index) == [kind |-> "result", from |-> snapshot, index |-> index]
Nothing == From(None, None)

Ask(c) ==
  /\ load = "idle"
  /\ call' = c /\ reply' = NoReply /\ load' = "start"
  /\ seen' = {Current(p) : p \in Projects}
  /\ UNCHANGED <<world, workspace, prints, bound, torn, kept, discarded>>

Answer(r) ==
  /\ reply' = r /\ load' = "idle"
  /\ UNCHANGED <<world, workspace, prints, call, bound, history>>

Loads ==
  \/ load # "idle" /\ with_loaded_project(call.file, call.source)
  \/ load = "failed" /\ Answer([NoReply EXCEPT !.kind = "error"])

Covers(snapshot) == Home[call.file] = snapshot.project
OnDisk == IF Home[call.file] = None THEN None ELSE disk[Home[call.file]]

(* The tools that read the latest analysis expect that there is one. *)
Ready(tool) == load = "loaded" /\ call.tool = tool
ReadsLatest(tool) == Ready(tool) /\ latest # None

check ==
  /\ ReadsLatest("check")
  /\ Answer(From(latest, IF call.source # None THEN call.source ELSE OnDisk))

type_at_position ==
  /\ ReadsLatest("type_at_position")
  /\ Answer(IF Covers(latest) THEN From(latest, OnDisk) ELSE Nothing)

complete ==
  /\ ReadsLatest("complete")
  /\ Answer(IF Covers(latest) THEN From(latest, OnDisk) ELSE Nothing)

namespace_complete ==
  /\ ReadsLatest("namespace_complete")
  /\ Answer(IF Covers(latest) THEN From(latest, None) ELSE Nothing)

resource_schema == Ready("resource_schema") /\ Answer(From(program, None))
surface_routes == Ready("surface_routes") /\ Answer(From(program, None))

(* The data tools and mw_run take only the root of the project. *)
data_session == Ready("data") /\ Answer(Nothing)

Cold ==
  /\ project' = None /\ latest' = None /\ installed' = -1 /\ last_program' = None
  /\ source_fingerprint' = None /\ catalog_fingerprint' = None
  /\ bound' = None /\ reply' = NoReply
  /\ torn' = FALSE /\ kept' = FALSE /\ discarded' = FALSE /\ seen' = {}
  /\ UNCHANGED <<world, call>>

(* latest().expect(..) on a cache that holds no analysis ends the process. *)
expect ==
  /\ load = "loaded" /\ latest = None
  /\ call.tool \in {"check", "type_at_position", "complete", "namespace_complete"}
  /\ Cold /\ load' = "panicked"

(* A client starts the server anew after it was stopped or died. *)
Restart ==
  /\ load \in {"idle", "panicked"}
  /\ Cold /\ load' = "idle"

Init ==
  /\ disk \in [Projects -> Texts] /\ catalog = [p \in Projects |-> None] /\ changes = 0
  /\ project = None /\ latest = None /\ installed = -1 /\ last_program = None
  /\ source_fingerprint = None /\ catalog_fingerprint = None
  /\ call \in Calls /\ reply = NoReply /\ load = "idle" /\ bound = None
  /\ seen = {} /\ torn = FALSE /\ kept = FALSE /\ discarded = FALSE

Answering ==
  \/ Loads
  \/ check \/ type_at_position \/ complete \/ namespace_complete
  \/ resource_schema \/ surface_routes \/ data_session \/ expect

Next ==
  \/ \E c \in Calls : Ask(c)
  \/ Answering
  \/ Restart
  \/ \E p \in Projects, text \in Texts : Save(p, text)
  \/ \E p \in Projects, c \in Catalogs : CommitCatalog(p, c)

Spec == Init /\ [][Next]_vars

(* The server thread is not starved. *)
FairSpec == Spec /\ WF_vars(Answering)

-----------------------------------------------------------------------------
(* Properties *)

TypeOK ==
  /\ disk \in [Projects -> Texts] /\ catalog \in [Projects -> Catalogs]
  /\ changes \in 0..MaxChanges
  /\ project \in Projects \cup {None}
  /\ latest \in Snapshot \cup {None} /\ last_program \in Snapshot \cup {None}
  /\ installed \in {-1, 0, 1}
  /\ source_fingerprint \in Fingerprint \cup {None}
  /\ catalog_fingerprint \in Catalogs
  /\ call \in Calls /\ reply \in Reply
  /\ load \in {"idle", "start", "prepare", "analyze", "fingerprint", "loaded", "failed",
               "panicked"}
  /\ bound \in Catalogs
  /\ seen \subseteq Snapshot
  /\ torn \in BOOLEAN /\ kept \in BOOLEAN /\ discarded \in BOOLEAN

(* The snapshots a reply to this call may be drawn from: what a project above *)
(* the file said at a moment of the call, with the overlay for its own.       *)
Honest(s) ==
  /\ s.project \in Under[call.file]
  /\ IF call.source # None /\ Home[call.file] = s.project
     THEN s.text = call.source
     ELSE \E w \in seen : w.project = s.project /\ w.text = s.text
  /\ \E w \in seen : w.project = s.project /\ w.catalog = s.catalog

(* A reply is drawn from the sources and the catalog as they were at some     *)
(* moment of the call, even one answered from the cache, and its positions    *)
(* are counted in the text that was analysed, if that did not change during   *)
(* the call (with_loaded_project, is_fresh_for).  Not so after an analysis    *)
(* that was thrown away or one the sources changed under; and the tools that  *)
(* fall back to last_program may answer from any earlier program.             *)
AnswersAreCurrent ==
  reply.from # None /\ ~kept /\ ~discarded =>
    \/ Honest(reply.from)
    \/ call.tool \in {"resource_schema", "surface_routes"} /\ latest.text \in Dropped
IndexIsOfTheAnalysis ==
  /\ reply.index # None /\ ~kept /\ ~discarded
  /\ reply.from.project = Home[call.file]
  /\ \A v, w \in seen : v.project = Home[call.file] /\ w.project = Home[call.file] => v.text = w.text
  => reply.index = reply.from.text

(* A call ends the process only when no analysis has succeeded in it and the  *)
(* sources cannot be walked (the expect of the tools, mcp.rs).                *)
PanicsOnlyUnchecked ==
  [][load = "loaded" /\ load' = "panicked" =>
       \E w \in seen : w.project = project /\ w.text \in Unreadable]_vars

(* A call of the cache is one of ToolCall: the project a tool reads is at a   *)
(* root above its file, the cached one too, and stays the same until the      *)
(* answer (is_fresh_for, with_loaded_project).                                *)
Resting == load \in {"idle", "panicked"}
Tool == INSTANCE ToolCall WITH
  stage <- IF Resting THEN "none" ELSE IF load = "loaded" THEN "tool" ELSE "loading",
  file <- IF Resting THEN None ELSE call.file,
  root <- IF load = "loaded" THEN project ELSE None
LoadsAsToolCall == Tool!Spec

(* Every call ends, in its answer or with the process, however other programs *)
(* write meanwhile: a load reads the disk once for each of its steps.         *)
CallsEnd == load = "start" ~> Resting
CanAnswer == ~Resting => ENABLED <<Answering>>_vars

(* What the code says of the cache: a reply is drawn from what the project    *)
(* the file belongs to says during the call.                                  *)
AnswersFollowTheSources ==
  reply.from # None => Honest(reply.from) /\ reply.from.project = Home[call.file]
=============================================================================
