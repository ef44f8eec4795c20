----------------------------- MODULE SavedData -----------------------------
(***************************************************************************)
(* How marrow-lsp sees the data a project has saved, which other programs  *)
(* write: the accepted catalog a recompute binds                           *)
(* (crates/marrow-lsp-core/src/catalog_binding.rs), and the read sessions  *)
(* of the inspector (session_cache.rs, data_explorer.rs, store.rs), both   *)
(* behind what the store file's fingerprint lets them skip.                *)
(*                                                                         *)
(* A recompute probes the store, reads the committed lock, analyses with   *)
(* no lock held, and commits.  A data request tries the `analysis` lock,   *)
(* and gives up when a recompute holds it.  The other programs act between *)
(* any two steps, except while a handle is open: a reader and a writer     *)
(* exclude each other, so each opening here is one step with its reads.    *)
(*                                                                         *)
(* Abstractions.  One project with one source file, open in the editor.    *)
(* Contents are what identifies them: a source text, a catalog, a commit.  *)
(* A write to the store file always changes its fingerprint, as store_view *)
(* says of the file systems the editor runs on.                            *)
(***************************************************************************)
EXTENDS Integers, FiniteSets

CONSTANTS
  Texts,      \* what the source file may say
  Failures,   \* whether reading an open store, or loading a project, may fail
  MaxWrites,  \* bound: writes to the store file
  MaxEdits,   \* bound: other events, of the client and the disk
  None        \* no store, no fingerprint, no program

ASSUME SavedDataAssumption ==
  /\ Failures \in BOOLEAN /\ MaxWrites \in Nat /\ MaxEdits \in Nat
  /\ None \notin Nat

(* The store file: StoreCommitIdentity is uid, commit and epoch; `stat` is   *)
(* its StoreFileStat.  A new store has a uid and no commit.                  *)
Store == [uid : 1..MaxWrites, commit : 0..MaxWrites, epoch : 0..MaxWrites, stat : 1..MaxWrites]

ASSUME NoneIsNoStore == None \notin Store

(* A plausible bug: a store is known by its uid. *)
Mut_identity(s) == <<s.uid, 0, 0>>

identity(s) == <<s.uid, s.commit, s.epoch>>

(* A catalog a program is checked against: one a store accepted, the one of  *)
(* the committed lock, or none.                                              *)
NoCatalog == <<>>
Locked == <<0>>
accepted_catalog(s) == IF s = None \/ s.epoch = 0 THEN NoCatalog ELSE <<s.uid, s.epoch>>
Catalog == {NoCatalog, Locked} \cup ((1..MaxWrites) \X (1..MaxWrites))

(* A checked program, and the documents generation it is of. *)
Program == [text : Texts, catalog : Catalog, generation : 1..(MaxEdits + 1)]
Checked(text, catalog) == [text |-> text, catalog |-> catalog]

VARIABLES
  store,     \* the native store file, or None
  writer,    \* whether another program has the store open for writing
  writes,    \* writes to the store file so far
  lock,      \* marrow.lock: absent, valid or corrupt
  disk,      \* the source file on disk
  buffer,    \* the source file in the editor
  generation,\* Documents::generation
  notified,  \* a change of the store or the lock is still to be reported
  live_data, \* liveData, as the client initialized the server
  edits,     \* events so far, other than writes to the store
  cache,     \* CatalogBindingCache, with the identity it is keyed by
  pc,        \* the recompute
  job,       \* what the recompute has gathered
  latest,    \* Workspace::latest, its program
  pending,   \* pending_workspace_invalidation
  due,       \* a recompute is scheduled
  session,   \* SavedDataSessionCache::cached
  request,   \* the data request being handled
  reply,     \* the reply, in the state in which it is sent
  \* History.
  probed,    \* states of the store during the recompute
  seen,      \* states of the store during the request
  contended  \* this recompute met a store that would not open

world == <<store, writer, writes, lock, disk, notified>>
editor == <<buffer, generation, live_data, edits>>
analysis == <<cache, pc, job, latest, pending, due, contended>>
inspector == <<session, request, reply>>
vars == <<world, editor, analysis, inspector, probed, seen>>

NoCache == [key |-> <<>>, accepted |-> NoCatalog, stat |-> None, bound |-> FALSE]
NoJob == [text |-> None, generation |-> 0, stat |-> None,
          accepted |-> NoCatalog, lock |-> "absent", dropped |-> FALSE]
NoRequest == [kind |-> "none", phase |-> "idle", generation |-> 0, shown |-> None,
              admitted |-> FALSE, stat |-> None, snapshot |-> None]
NoReply == [kind |-> "none", shown |-> None, program |-> None, from |-> <<>>]

(* A step that is none of the inspector's; `seen` has the store after it.    *)
Elsewhere ==
  /\ UNCHANGED <<session, request>> /\ reply' = NoReply
  /\ seen' = IF request.phase = "idle" THEN {} ELSE seen \cup {store'}

Readable == store # None /\ ~writer
Stat == IF store = None THEN None ELSE store.stat

-----------------------------------------------------------------------------
(* The other programs *)

Written(s) ==
  /\ store' = s /\ writes' = writes + 1 /\ notified' = TRUE
  /\ probed' = IF pc = "idle" THEN {} ELSE probed \cup {s}
  /\ Elsewhere
  /\ UNCHANGED <<lock, disk, editor, analysis>>

(* A writer creates a store that is not there. *)
OpenForWriting ==
  /\ ~writer /\ writer' = TRUE
  /\ IF store = None
     THEN /\ writes < MaxWrites
          /\ Written([uid |-> writes + 1, commit |-> 0, epoch |-> 0, stat |-> writes + 1])
     ELSE UNCHANGED <<store, writes, lock, disk, notified, editor, analysis, probed>> /\ Elsewhere

(* A commit of data, or one that accepts a new catalog too. *)
Commit(accepts) ==
  /\ writer /\ writes < MaxWrites
  /\ Written([store EXCEPT !.commit = @ + 1, !.stat = writes + 1,
                           !.epoch = IF accepts THEN @ + 1 ELSE @])
  /\ UNCHANGED writer

CloseWriter ==
  /\ writer /\ writer' = FALSE
  /\ UNCHANGED <<store, writes, lock, disk, notified, editor, analysis, probed>> /\ Elsewhere

RemoveStore ==
  /\ Readable /\ writes < MaxWrites
  /\ Written(None)
  /\ UNCHANGED writer

Event == edits < MaxEdits /\ edits' = edits + 1

ChangeLock(content) ==
  /\ Event /\ lock # content /\ lock' = content /\ notified' = TRUE
  /\ UNCHANGED <<store, writer, writes, disk, buffer, generation, live_data, analysis, probed>>
  /\ Elsewhere

(* The editor saves its buffer, or another program writes the file. *)
Save(text) ==
  /\ Event /\ disk # text /\ disk' = text
  /\ UNCHANGED <<store, writer, writes, lock, notified, buffer, generation, live_data, analysis,
                 probed>>
  /\ Elsewhere

-----------------------------------------------------------------------------
(* The notifications *)

(* Who holds the `analysis` lock.  A data request holds the thread of the    *)
(* handlers too.                                                             *)
HoldsAnalysis == pc \in {"probe", "open", "lock"}
Reading == request.phase \in {"snapshot", "refresh", "read"}

did_change(text) ==
  /\ ~Reading /\ Event /\ buffer # text /\ buffer' = text
  /\ generation' = generation + 1 /\ due' = TRUE
  /\ UNCHANGED <<world, live_data, cache, pc, job, latest, pending, contended, probed>> /\ Elsewhere

(* The store or the lock changed: the analysis is invalid now, or the next   *)
(* recompute makes it so; one that is under way is dropped.                  *)
did_change_watched_files ==
  /\ ~Reading /\ notified /\ notified' = FALSE /\ due' = TRUE
  /\ IF HoldsAnalysis
     THEN pending' = TRUE /\ UNCHANGED <<latest, job>>
     ELSE latest' = None /\ job' = [job EXCEPT !.dropped = TRUE] /\ UNCHANGED pending
  /\ UNCHANGED <<store, writer, writes, lock, disk, editor, cache, pc, contended, probed>>
  /\ Elsewhere

-----------------------------------------------------------------------------
(* CatalogBindingCache::bind, in a recompute *)

Recompute == UNCHANGED <<world, editor>> /\ Elsewhere

(* The end of a recompute, with an analysis or without. *)
Ended == pc' = "idle" /\ job' = NoJob /\ contended' = FALSE /\ probed' = {}

prepare_recompute ==
  /\ pc = "idle" /\ due /\ ~Reading
  /\ pc' = "probe" /\ due' = FALSE /\ pending' = FALSE
  /\ latest' = IF pending THEN None ELSE latest
  /\ job' = [NoJob EXCEPT !.text = buffer, !.generation = generation]
  /\ contended' = FALSE /\ probed' = {store}
  /\ UNCHANGED cache /\ Recompute

adopt(key, accepted, stat) ==
  cache' = [key |-> key, accepted |-> accepted, stat |-> stat, bound |-> TRUE]

(* current_binding: the lock is read after the accepted catalog is known. *)
Bound(accepted) == pc' = "lock" /\ job' = [job EXCEPT !.accepted = accepted]

(* probe_store up to the opening.  An absent store is adopted as such; one   *)
(* whose fingerprint the cache has is not opened.                            *)
probe_store ==
  /\ pc = "probe"
  /\ \/ /\ store = None
        /\ IF cache.bound /\ cache.key = <<>> THEN UNCHANGED cache ELSE adopt(<<>>, NoCatalog, None)
        /\ Bound(NoCatalog)
     \/ /\ store # None /\ cache.key # <<>> /\ Stat = cache.stat
        /\ Bound(cache.accepted) /\ UNCHANGED cache
     \/ /\ store # None /\ ~(cache.key # <<>> /\ Stat = cache.stat)
        /\ pc' = "open" /\ job' = [job EXCEPT !.stat = Stat]
        /\ UNCHANGED cache
  /\ UNCHANGED <<latest, pending, due, contended, probed>> /\ Recompute

(* A plausible bug: a store that will not open is taken for one that is gone. *)
Mut_open_store ==
  /\ pc = "open"
  /\ \/ /\ ~Readable /\ contended' = TRUE /\ UNCHANGED probed
        /\ adopt(<<>>, NoCatalog, None) /\ Bound(NoCatalog)
     \/ /\ Readable
        /\ IF cache.key = identity(store)
           THEN cache' = [cache EXCEPT !.stat = job.stat] /\ Bound(cache.accepted)
           ELSE adopt(identity(store), accepted_catalog(store), job.stat)
                /\ Bound(accepted_catalog(store))
        /\ UNCHANGED <<contended, probed>>
     \/ Readable /\ Failures /\ Ended /\ UNCHANGED cache
  /\ UNCHANGED <<latest, pending, due>> /\ Recompute

(* The rest of probe_store, and what bind makes of it: the store will not    *)
(* open, it opens on the identity the cache has, or on another; or it opens  *)
(* and cannot be read.                                                       *)
open_store ==
  /\ pc = "open"
  /\ \/ /\ ~Readable /\ contended' = TRUE /\ UNCHANGED probed
        /\ Bound(IF cache.bound THEN cache.accepted ELSE NoCatalog) /\ UNCHANGED cache
     \/ /\ Readable
        /\ IF cache.key = identity(store)
           THEN cache' = [cache EXCEPT !.stat = job.stat] /\ Bound(cache.accepted)
           ELSE adopt(identity(store), accepted_catalog(store), job.stat)
                /\ Bound(accepted_catalog(store))
        /\ UNCHANGED <<contended, probed>>
     \/ Readable /\ Failures /\ Ended /\ UNCHANGED cache
  /\ UNCHANGED <<latest, pending, due>> /\ Recompute

(* A plausible bug: a corrupt lock is taken for none. *)
Mut_lock_for_adoption ==
  /\ pc = "lock" /\ pc' = "analyze"
  /\ job' = IF job.accepted # NoCatalog THEN job ELSE [job EXCEPT !.lock = lock]
  /\ UNCHANGED <<cache, latest, pending, due, contended, probed>> /\ Recompute

(* The lock seeds adoption when no catalog is accepted; a corrupt one fails. *)
lock_for_adoption ==
  /\ pc = "lock"
  /\ IF job.accepted # NoCatalog
     THEN pc' = "analyze" /\ UNCHANGED <<job, contended, probed>>
     ELSE \/ lock = "corrupt" /\ Ended
          \/ /\ lock # "corrupt" /\ pc' = "analyze" /\ job' = [job EXCEPT !.lock = lock]
             /\ UNCHANGED <<contended, probed>>
  /\ UNCHANGED <<cache, latest, pending, due>> /\ Recompute

(* The catalog a program is checked against. *)
Context(accepted, content) ==
  IF accepted # NoCatalog THEN accepted ELSE IF content = "valid" THEN Locked ELSE NoCatalog

(* analyze, and commit_recompute: an analysis that a notice has superseded,  *)
(* or is about to, is not installed.                                         *)
commit_recompute ==
  /\ pc = "analyze" /\ ~Reading
  /\ Ended /\ pending' = FALSE
  /\ latest' = CASE pending -> None
                 [] ~pending /\ job.dropped -> latest
                 [] OTHER -> [text |-> job.text, catalog |-> Context(job.accepted, job.lock),
                              generation |-> job.generation]
  /\ UNCHANGED <<cache, due>> /\ Recompute

-----------------------------------------------------------------------------
(* The data requests.  A reply is served from a checked program and a commit *)

Request == UNCHANGED <<world, editor, analysis, probed>>

(* saved_roots, or data_children and data_read: the buffers, the setting and *)
(* the pending bits are read before the lock is tried.                       *)
receive(kind) ==
  /\ request.phase = "idle"
  /\ request' = [NoRequest EXCEPT !.kind = kind, !.phase = "arrived", !.generation = generation,
                                  !.shown = buffer, !.admitted = live_data /\ ~pending]
  /\ reply' = NoReply /\ seen' = {store}
  /\ UNCHANGED session /\ Request

Answer(r) == reply' = r /\ request' = NoRequest
Unavailable == [NoReply EXCEPT !.kind = "unavailable"]
Served(program, from) ==
  [kind |-> request.kind, shown |-> request.shown, program |-> program, from |-> from]

Fresh == latest # None /\ latest.generation = request.generation

(* data_children and data_read answer an invalid request before all this. *)
refuse_invalid ==
  /\ request.phase = "arrived" /\ request.kind = "read"
  /\ Answer([NoReply EXCEPT !.kind = "invalid"])
  /\ UNCHANGED <<session, seen>> /\ Request

Generation == Checked(latest.text, latest.catalog)

(* A plausible bug: the store's fingerprint is not compared. *)
Mut_is_current(stat) ==
  session # None /\ session.generation = Generation

is_current(stat) ==
  session # None /\ session.generation = Generation /\ stat # None /\ session.stat = stat

(* The lock is tried; then a session that is current serves as it is, roots  *)
(* at once, a read from the snapshot it keeps.                               *)
begin_read ==
  /\ request.phase = "arrived"
  /\ \/ /\ HoldsAnalysis \/ ~request.admitted \/ ~Fresh
        /\ Answer(Unavailable)
     \/ /\ ~HoldsAnalysis /\ request.admitted /\ Fresh
        /\ \/ /\ is_current(Stat) /\ request.kind = "roots"
              /\ Answer(Served(session.generation, session.roots))
           \/ /\ is_current(Stat) /\ request.kind = "read"
              /\ request' = [request EXCEPT !.phase = "read"] /\ UNCHANGED reply
           \/ /\ ~is_current(Stat)
              /\ request' = [request EXCEPT !.phase = "snapshot", !.stat = Stat] /\ UNCHANGED reply
  /\ UNCHANGED <<session, seen>> /\ Request

(* refresh.  The project is checked again from the disk, which reads the     *)
(* store's catalog, then the store is opened anew; the session is kept only  *)
(* if it is of the program the editor shows.                                 *)
open_saved_data_snapshot ==
  /\ request.phase = "snapshot"
  /\ \/ /\ store # None => ~writer
        /\ accepted_catalog(store) # NoCatalog \/ lock # "corrupt"
        /\ request' = [request EXCEPT !.phase = "refresh",
                         !.snapshot = Checked(disk, Context(accepted_catalog(store), lock))]
        /\ UNCHANGED reply
     \/ Answer(Unavailable)
  /\ UNCHANGED <<session, seen>> /\ Request

(* A plausible bug. *)
Mut_session_matching(snapshot) == TRUE

session_matching(snapshot) == snapshot = Generation

refresh ==
  /\ request.phase = "refresh"
  /\ \/ /\ Readable /\ session_matching(request.snapshot)
        /\ session' = [generation |-> Generation, stat |-> request.stat,
                       snapshot |-> request.snapshot, roots |-> identity(store)]
        /\ IF request.kind = "roots" THEN Answer(Served(request.snapshot, identity(store)))
           ELSE request' = [request EXCEPT !.phase = "read"] /\ UNCHANGED reply
     \/ Answer(Unavailable) /\ UNCHANGED session
  /\ UNCHANGED seen /\ Request

(* read_session: a handle on the store as it is now. *)
read_session ==
  /\ request.phase = "read"
  /\ \/ /\ Readable /\ session_matching(session.snapshot)
        /\ Answer(Served(session.snapshot, identity(store)))
     \/ Answer(Unavailable)
  /\ UNCHANGED <<session, seen>> /\ Request

-----------------------------------------------------------------------------
Init ==
  /\ store = None /\ writer = FALSE /\ writes = 0
  /\ lock = "absent" /\ disk \in Texts /\ buffer = disk
  /\ generation = 1 /\ notified = FALSE /\ live_data \in BOOLEAN /\ edits = 0
  /\ cache = NoCache /\ pc = "idle" /\ job = NoJob /\ latest = None
  /\ pending = FALSE /\ due = TRUE
  /\ session = None /\ request = NoRequest /\ reply = NoReply
  /\ probed = {} /\ seen = {} /\ contended = FALSE

OtherPrograms ==
  \/ OpenForWriting \/ CloseWriter \/ RemoveStore
  \/ \E accepts \in BOOLEAN : Commit(accepts)
  \/ \E content \in {"absent", "valid", "corrupt"} : ChangeLock(content)
  \/ \E text \in Texts : Save(text)

Notification ==
  \/ \E text \in Texts : did_change(text)
  \/ did_change_watched_files

Recomputing ==
  \/ prepare_recompute \/ probe_store \/ open_store \/ lock_for_adoption \/ commit_recompute

DataRequest ==
  \/ \E kind \in {"roots", "read"} : receive(kind)
  \/ refuse_invalid \/ begin_read \/ open_saved_data_snapshot \/ refresh \/ read_session

Next == OtherPrograms \/ Notification \/ Recomputing \/ DataRequest

Spec == Init /\ [][Next]_vars

-----------------------------------------------------------------------------
(* Properties *)

Identity == {<<>>} \cup ((1..MaxWrites) \X (0..MaxWrites) \X (0..MaxWrites))
StatOrNone == (1..MaxWrites) \cup {None}
Lock == {"absent", "valid", "corrupt"}
Unversioned == [text : Texts, catalog : Catalog]

WorldTypeOK ==
  /\ store \in Store \cup {None} /\ writer \in BOOLEAN /\ writes \in 0..MaxWrites
  /\ lock \in Lock /\ disk \in Texts /\ notified \in BOOLEAN

EditorTypeOK ==
  /\ buffer \in Texts /\ generation \in 1..(MaxEdits + 1)
  /\ live_data \in BOOLEAN /\ edits \in 0..MaxEdits

AnalysisTypeOK ==
  /\ cache \in [key : Identity, accepted : Catalog, stat : StatOrNone, bound : BOOLEAN]
  /\ pc \in {"idle", "probe", "open", "lock", "analyze"}
  /\ job \in [text : Texts \cup {None}, generation : 0..(MaxEdits + 1), stat : StatOrNone,
              accepted : Catalog, lock : Lock \ {"corrupt"}, dropped : BOOLEAN]
  /\ latest \in Program \cup {None}
  /\ pending \in BOOLEAN /\ due \in BOOLEAN /\ contended \in BOOLEAN
  /\ probed \subseteq Store \cup {None}

InspectorTypeOK ==
  /\ session \in {None} \cup [generation : Unversioned, stat : StatOrNone,
                              snapshot : Unversioned, roots : Identity]
  /\ request \in [kind : {"none", "roots", "read"},
                  phase : {"idle", "arrived", "snapshot", "refresh", "read"},
                  generation : 0..(MaxEdits + 1), shown : Texts \cup {None},
                  admitted : BOOLEAN, stat : StatOrNone, snapshot : Unversioned \cup {None}]
  /\ reply \in [kind : {"none", "roots", "read", "unavailable", "invalid"},
                shown : Texts \cup {None}, program : Unversioned \cup {None}, from : Identity]
  /\ seen \subseteq Store \cup {None}

TypeOK == WorldTypeOK /\ EditorTypeOK /\ AnalysisTypeOK /\ InspectorTypeOK

(* The catalog a recompute binds is the one the store had accepted at some   *)
(* moment of the recompute, whether it was read, recognised by its identity, *)
(* or taken from the cache unopened because the fingerprint had not moved;   *)
(* only a store that would not open leaves it the earlier one.               *)
BindingIsOfTheStore ==
  pc \in {"lock", "analyze"} /\ ~contended =>
    \E s \in probed : job.accepted = accepted_catalog(s)

(* No writer's lock, however it falls, makes the editor forget an accepted   *)
(* catalog: the cache loses one only to a store that is gone or has none.    *)
LocksDoNotBlank ==
  [][cache.accepted # NoCatalog /\ cache'.accepted = NoCatalog =>
       accepted_catalog(store) = NoCatalog]_vars

(* What the inspector shows is what the store held at some moment of the     *)
(* request, also when it is served from the cache without opening the store. *)
ServedIsOfTheStore ==
  reply.kind \in {"roots", "read"} => \E s \in seen \ {None} : reply.from = identity(s)

(* And it is decoded by a program checked from the text the editor showed    *)
(* when the request came, whatever was edited or saved since the session was *)
(* opened.                                                                   *)
ServedIsVisible ==
  reply.kind \in {"roots", "read"} => reply.program.text = reply.shown
=============================================================================
