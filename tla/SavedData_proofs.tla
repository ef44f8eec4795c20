-------------------------- MODULE SavedData_proofs --------------------------
(***************************************************************************)
(* What is proved of SavedData, for every set of texts and every bound:    *)
(* what skips opening the store answers as if it had opened it.            *)
(*                                                                         *)
(* The reason is the order of the reads.  A fingerprint is kept with what  *)
(* was read after it was taken, so it may be older than what it stands     *)
(* for, but never newer; and no write restores an old fingerprint.         *)
(***************************************************************************)
EXTENDS SavedData, TLAPS

-----------------------------------------------------------------------------
(* The inductive invariant *)

(* The counters that keep the types bounded, and the fingerprint of the last *)
(* write.                                                                    *)
Counted ==
  /\ generation <= edits + 1
  /\ writer => store # None
  /\ store # None => store.stat = writes /\ store.commit <= writes /\ store.epoch <= writes

(* The catalog of an identity. *)
CatalogOf(key) == IF key = <<>> \/ key[3] = 0 THEN NoCatalog ELSE <<key[1], key[3]>>

(* The binding cache holds the catalog of its identity, and of any store     *)
(* that still has its fingerprint.                                           *)
CacheIsRead ==
  /\ cache.accepted = CatalogOf(cache.key)
  /\ cache.stat # None => cache.stat <= writes
  /\ cache.key # <<>> /\ store # None /\ cache.stat = store.stat =>
       cache.accepted = accepted_catalog(store)

(* What the recompute under way has probed. *)
JobIsRead ==
  /\ pc = "open" /\ job.stat # None => job.stat <= writes
  /\ pc # "idle" => store \in probed
  /\ BindingIsOfTheStore

(* The session of the inspector, likewise. *)
SessionIsRead ==
  /\ session # None =>
       /\ session.stat # None => session.stat <= writes
       /\ store # None /\ session.stat = store.stat => session.roots = identity(store)
  /\ request.stat # None => request.stat <= writes
  /\ request.phase # "idle" => store \in seen
  /\ ServedIsOfTheStore

(* Of one generation of the documents there is one text; and while a request *)
(* holds the analysis, the analysis is of the generation it captured.        *)
Versions ==
  /\ latest # None =>
       latest.generation <= generation /\ (latest.generation = generation => latest.text = buffer)
  /\ pc # "idle" =>
       /\ job.generation \in 1..generation /\ job.text \in Texts
       /\ job.generation = generation => job.text = buffer
  /\ request.phase # "idle" =>
       /\ request.generation <= generation
       /\ request.generation = generation => request.shown = buffer
       /\ latest # None /\ latest.generation = request.generation => latest.text = request.shown
       /\ pc # "idle" /\ job.generation = request.generation => job.text = request.shown
  /\ Reading => latest # None /\ latest.generation = request.generation
  /\ ServedIsVisible

IInv == TypeOK /\ Counted /\ CacheIsRead /\ JobIsRead /\ SessionIsRead /\ Versions

-----------------------------------------------------------------------------
(* What a step does to the store *)

StoreKept == UNCHANGED <<store, writes, probed>>

StoreWritten ==
  /\ writes < MaxWrites /\ writes' = writes + 1
  /\ \/ store' = None
     \/ /\ store' \in Store /\ store'.stat = writes + 1
        /\ store'.commit <= writes + 1 /\ store'.epoch <= writes + 1
  /\ probed' = IF pc = "idle" THEN {} ELSE probed \cup {store'}

(* A commit leaves a store there, with a new fingerprint. *)
LEMMA CommitsAreNew ==
  ASSUME TypeOK, Counted, NEW accepts \in BOOLEAN, Commit(accepts)
  PROVE  StoreWritten /\ store' # None
<1>a. writer => store # None
  BY DEF Counted
<1> USE DEF Store, TypeOK, WorldTypeOK, Counted
<1>0. writer
  BY DEF Commit
<1>1. store # None
  BY <1>a, <1>0, Zenon
<1>2. PICK epoch : /\ epoch = IF accepts THEN store.epoch + 1 ELSE store.epoch
                   /\ writes < MaxWrites
                   /\ Written([store EXCEPT !.commit = @ + 1, !.stat = writes + 1,
                                            !.epoch = epoch])
  BY DEF Commit
<1>3. /\ store \in Store /\ store.commit <= writes /\ store.epoch <= writes
      /\ writes \in Nat /\ MaxWrites \in Nat
  BY <1>1, SavedDataAssumption
<1>4. epoch \in Nat /\ epoch <= writes + 1
  BY <1>2, <1>3
<1>5. PICK next : next = [store EXCEPT !.commit = @ + 1, !.stat = writes + 1, !.epoch = epoch]
  OBVIOUS
<1>6. next = [uid |-> store.uid, commit |-> store.commit + 1, epoch |-> epoch,
              stat |-> writes + 1]
  BY <1>3, <1>5
<1>7. writes < MaxWrites
  BY <1>2
<1>8. store.uid \in 1..MaxWrites /\ store.commit \in Nat /\ store.commit <= writes
  BY <1>3
<1>9. store.commit + 1 \in 0..MaxWrites /\ epoch \in 0..MaxWrites /\ writes + 1 \in 1..MaxWrites
  BY <1>3, <1>4, <1>7, <1>8
<1>10. next \in Store
  BY <1>6, <1>8, <1>9
<1>11. next.stat = writes + 1 /\ next.commit <= writes + 1 /\ next.epoch <= writes + 1
  BY <1>3, <1>4, <1>6
<1> QED  BY <1>2, <1>5, <1>10, <1>11, NoneIsNoStore DEF Written, StoreWritten

(* Another program leaves the store alone or writes it with a new            *)
(* fingerprint.                                                              *)
LEMMA WritesAreNew ==
  ASSUME TypeOK, Counted, OtherPrograms
  PROVE  StoreKept \/ StoreWritten
<1> USE DEF Store, TypeOK, WorldTypeOK, Counted
<1>1. CASE OpenForWriting
  <2>1. CASE store = None
    <3>1. writes < MaxWrites /\ Written([uid |-> writes + 1, commit |-> 0, epoch |-> 0,
                                         stat |-> writes + 1])
      BY <1>1, <2>1 DEF OpenForWriting
    <3> QED  BY <3>1, SavedDataAssumption DEF Written, StoreWritten
  <2>2. CASE store # None
    BY <1>1, <2>2 DEF OpenForWriting, StoreKept
  <2> QED  BY <2>1, <2>2
<1>2. CASE CloseWriter
  BY <1>2 DEF CloseWriter, StoreKept
<1>3. CASE RemoveStore
  BY <1>3 DEF RemoveStore, Written, StoreWritten
<1>4. ASSUME NEW accepts \in BOOLEAN, Commit(accepts)
      PROVE  StoreWritten
  BY <1>4, CommitsAreNew
<1>5. ASSUME NEW content \in {"absent", "valid", "corrupt"}, ChangeLock(content)
      PROVE  StoreKept
  BY <1>5 DEF ChangeLock, StoreKept
<1>6. ASSUME NEW text \in Texts, Save(text)
      PROVE  StoreKept
  BY <1>6 DEF Save, StoreKept
<1> QED  BY <1>1, <1>2, <1>3, <1>4, <1>5, <1>6 DEF OtherPrograms

(* The steps that are none of the inspector's, and what the inspector keeps. *)
LEMMA OthersAreElsewhere ==
  ASSUME OtherPrograms \/ Notification \/ Recomputing
  PROVE  Elsewhere
<1>1. CASE OtherPrograms
  BY <1>1 DEF OtherPrograms, OpenForWriting, CloseWriter, RemoveStore, Commit, ChangeLock, Save,
              Written
<1>2. CASE Notification
  BY <1>2 DEF Notification, did_change, did_change_watched_files
<1>3. CASE Recomputing
  BY <1>3 DEF Recomputing, prepare_recompute, probe_store, open_store, lock_for_adoption,
              commit_recompute, Recompute
<1> QED  BY <1>1, <1>2, <1>3

(* The other programs touch neither the editor nor the analysis; a notice    *)
(* and a recompute, and the inspector, leave the store alone.                *)
LEMMA OtherProgramsKeep ==
  ASSUME OtherPrograms
  PROVE  UNCHANGED <<buffer, generation, live_data, analysis>>
BY DEF OtherPrograms, OpenForWriting, CloseWriter, RemoveStore, Commit, ChangeLock, Save, Written,
       editor

LEMMA NotificationKeeps ==
  ASSUME Notification
  PROVE  UNCHANGED <<store, writer, writes, lock, disk, live_data, cache, pc, contended, probed>>
BY DEF Notification, did_change, did_change_watched_files, world, editor

LEMMA RecomputingKeeps ==
  ASSUME Recomputing
  PROVE  UNCHANGED <<world, editor>>
BY DEF Recomputing, prepare_recompute, probe_store, open_store, lock_for_adoption,
       commit_recompute, Recompute

LEMMA DataRequestKeeps ==
  ASSUME DataRequest
  PROVE  Request
BY DEF DataRequest, receive, refuse_invalid, begin_read, open_saved_data_snapshot, refresh,
       read_session

-----------------------------------------------------------------------------
(* The counters *)

LEMMA CountedIsKept ==
  ASSUME TypeOK, Counted, Next
  PROVE  Counted'
<1>1. CASE OtherPrograms
  <2>1. UNCHANGED generation /\ (edits' = edits \/ edits' = edits + 1)
    BY <1>1 DEF OtherPrograms, OpenForWriting, CloseWriter, RemoveStore, Commit, ChangeLock, Save,
       Written, Event, editor
  <2>2. generation' <= edits' + 1
    BY <2>1 DEF Counted, TypeOK, EditorTypeOK
  <2>3. writer' => store' # None
    <3>1. CASE OpenForWriting /\ store = None
      <4>1. PICK new : /\ new = [uid |-> writes + 1, commit |-> 0, epoch |-> 0, stat |-> writes + 1]
                       /\ writes < MaxWrites /\ store' = new
        BY <3>1 DEF OpenForWriting, Written
      <4>2. new \in Store
        BY <4>1, SavedDataAssumption DEF TypeOK, WorldTypeOK, Store
      <4> QED  BY <4>1, <4>2, NoneIsNoStore
    <3>2. CASE OpenForWriting /\ store # None
      BY <3>2 DEF OpenForWriting
    <3>3. CASE CloseWriter
      BY <3>3 DEF CloseWriter
    <3>4. CASE RemoveStore
      BY <3>4 DEF RemoveStore, Readable
    <3>5. ASSUME NEW accepts \in BOOLEAN, Commit(accepts)
          PROVE  store' # None
      BY <3>5, CommitsAreNew
    <3>6. CASE UNCHANGED <<store, writer>>
      BY <3>6 DEF Counted
    <3> QED  BY <1>1, <3>1, <3>2, <3>3, <3>4, <3>5, <3>6 DEF OtherPrograms, ChangeLock, Save
  <2>4. store' # None => store'.stat = writes' /\ store'.commit <= writes' /\ store'.epoch <= writes'
    BY <1>1, WritesAreNew DEF StoreKept, StoreWritten, Counted
  <2> QED  BY <2>2, <2>3, <2>4 DEF Counted
<1>2. CASE Notification
  <2>1. generation' <= edits' + 1
    BY <1>2 DEF Notification, did_change, did_change_watched_files, Event, editor, Counted, TypeOK,
       EditorTypeOK
  <2> QED  BY <1>2, <2>1, NotificationKeeps DEF Counted
<1>3. CASE Recomputing
  BY <1>3, RecomputingKeeps DEF world, editor, Counted
<1>4. CASE DataRequest
  BY <1>4, DataRequestKeeps DEF Request, world, editor, Counted
<1> QED  BY <1>1, <1>2, <1>3, <1>4 DEF Next

-----------------------------------------------------------------------------
(* The binding cache *)

LEMMA CacheIsKept ==
  ASSUME TypeOK, Counted, CacheIsRead, JobIsRead, Next
  PROVE  CacheIsRead'
<1>1. CASE OtherPrograms
  <2>1. UNCHANGED cache
    BY <1>1, OtherProgramsKeep DEF analysis
  <2>2. CASE StoreKept
    BY <2>1, <2>2 DEF StoreKept, CacheIsRead, accepted_catalog
  <2>3. CASE StoreWritten
    <3>1. writes \in Nat /\ writes' = writes + 1 /\ (store' # None => store'.stat = writes + 1)
      BY <2>3 DEF StoreWritten, TypeOK, WorldTypeOK
    <3>2. cache.accepted = CatalogOf(cache.key) /\ (cache.stat # None => cache.stat <= writes)
      BY DEF CacheIsRead
    <3>3. cache.stat \in StatOrNone
      BY DEF TypeOK, AnalysisTypeOK
    <3>4. cache'.stat # None => cache'.stat <= writes'
      BY <2>1, <3>1, <3>2, <3>3 DEF StatOrNone
    <3>5. store' # None => cache'.stat # store'.stat
      BY <2>1, <3>1, <3>2, <3>3, SavedDataAssumption DEF StatOrNone
    <3> QED  BY <2>1, <3>2, <3>4, <3>5 DEF CacheIsRead, CatalogOf
  <2> QED  BY <1>1, <2>2, <2>3, WritesAreNew
<1>2. CASE Notification
  BY <1>2, NotificationKeeps DEF CacheIsRead, accepted_catalog
<1>3. CASE Recomputing
  <2>1. UNCHANGED <<store, writes>>
    BY <1>3, RecomputingKeeps DEF world
  <2>2. CASE UNCHANGED cache
    BY <2>1, <2>2 DEF CacheIsRead, accepted_catalog
  <2>3. CASE cache' = [key |-> <<>>, accepted |-> NoCatalog, stat |-> None, bound |-> TRUE]
    BY <2>1, <2>3 DEF CacheIsRead, CatalogOf
  <2>4. CASE open_store /\ Readable /\ cache.key = identity(store)
             /\ cache' = [cache EXCEPT !.stat = job.stat]
    <3>1. job.stat # None => job.stat <= writes
      BY <2>4 DEF open_store, JobIsRead
    <3>2. cache \in [key : Identity, accepted : Catalog, stat : StatOrNone, bound : BOOLEAN]
      BY DEF TypeOK, AnalysisTypeOK
    <3>3. cache'.key = cache.key /\ cache'.accepted = cache.accepted /\ cache'.stat = job.stat
      BY <2>4, <3>2
    <3>4. cache.accepted = CatalogOf(cache.key)
      BY DEF CacheIsRead
    <3>5. CatalogOf(identity(store)) = accepted_catalog(store)
      BY <2>4 DEF CatalogOf, identity, accepted_catalog, Readable
    <3> QED  BY <2>1, <2>4, <3>1, <3>3, <3>4, <3>5 DEF CacheIsRead, CatalogOf, accepted_catalog
  <2>5. CASE open_store /\ Readable /\ adopt(identity(store), accepted_catalog(store), job.stat)
    <3>1. job.stat # None => job.stat <= writes
      BY <2>5 DEF open_store, JobIsRead
    <3>2. /\ cache'.key = identity(store) /\ cache'.accepted = accepted_catalog(store)
          /\ cache'.stat = job.stat
      BY <2>5 DEF adopt
    <3>3. CatalogOf(identity(store)) = accepted_catalog(store)
      BY <2>5 DEF CatalogOf, identity, accepted_catalog, Readable
    <3> QED  BY <2>1, <3>1, <3>2, <3>3 DEF CacheIsRead, CatalogOf, accepted_catalog
  <2> QED  BY <1>3, <2>2, <2>3, <2>4, <2>5 DEF Recomputing, prepare_recompute, probe_store,
              open_store, adopt, lock_for_adoption, commit_recompute
<1>4. CASE DataRequest
  BY <1>4, DataRequestKeeps DEF Request, world, analysis, CacheIsRead, accepted_catalog
<1> QED  BY <1>1, <1>2, <1>3, <1>4 DEF Next

-----------------------------------------------------------------------------
(* The recompute *)

LEMMA JobIsKept ==
  ASSUME TypeOK, Counted, CacheIsRead, JobIsRead, Next
  PROVE  JobIsRead'
<1>1. CASE OtherPrograms
  <2>1. UNCHANGED <<pc, job, contended>>
    BY <1>1, OtherProgramsKeep DEF analysis
  <2>2. CASE StoreKept
    BY <2>1, <2>2 DEF StoreKept, JobIsRead, BindingIsOfTheStore
  <2>3. CASE StoreWritten
    <3>1. pc' = "open" /\ job'.stat # None => job'.stat <= writes'
      <4>1. writes \in Nat /\ writes' = writes + 1 /\ job.stat \in StatOrNone
        BY <2>3 DEF StoreWritten, TypeOK, WorldTypeOK, AnalysisTypeOK
      <4> QED  BY <2>1, <4>1 DEF JobIsRead, StatOrNone
    <3>2. pc' # "idle" => probed' = probed \cup {store'}
      BY <2>1, <2>3 DEF StoreWritten
    <3>3. BindingIsOfTheStore'
      BY <2>1, <3>2 DEF JobIsRead, BindingIsOfTheStore
    <3> QED  BY <3>1, <3>2, <3>3 DEF JobIsRead
  <2> QED  BY <1>1, <2>2, <2>3, WritesAreNew
<1>2. CASE Notification
  <2>1. job' = job \/ job' = [job EXCEPT !.dropped = TRUE]
    BY <1>2 DEF Notification, did_change, did_change_watched_files
  <2>2. job'.stat = job.stat /\ job'.accepted = job.accepted
    BY <2>1 DEF TypeOK, AnalysisTypeOK
  <2> QED  BY <1>2, <2>2, NotificationKeeps DEF JobIsRead, BindingIsOfTheStore
<1>3. CASE Recomputing
  <2>1. UNCHANGED <<store, writes>>
    BY <1>3, RecomputingKeeps DEF world
  <2>2. CASE prepare_recompute
    BY <2>1, <2>2 DEF prepare_recompute, JobIsRead, BindingIsOfTheStore
  <2>3. CASE probe_store
    <3>1. UNCHANGED <<probed, contended>> /\ pc = "probe"
      BY <2>3 DEF probe_store
    <3>2. CASE pc' = "open" /\ job' = [job EXCEPT !.stat = Stat] /\ store # None
      BY <2>1, <3>1, <3>2 DEF JobIsRead, BindingIsOfTheStore, Stat, Counted, TypeOK, WorldTypeOK,
         AnalysisTypeOK
    <3>3. CASE pc' = "lock" /\ job'.accepted = accepted_catalog(store)
      BY <2>1, <3>1, <3>3 DEF JobIsRead, BindingIsOfTheStore, accepted_catalog
    <3>4. CASE store = None /\ Bound(NoCatalog)
      <4>1. job'.accepted = NoCatalog /\ pc' = "lock"
        BY <3>4 DEF Bound, TypeOK, AnalysisTypeOK
      <4> QED  BY <3>3, <3>4, <4>1 DEF accepted_catalog
    <3>5. CASE store # None /\ cache.key # <<>> /\ Stat = cache.stat /\ Bound(cache.accepted)
      <4>1. job'.accepted = cache.accepted /\ pc' = "lock"
        BY <3>5 DEF Bound, TypeOK, AnalysisTypeOK
      <4>2. cache.accepted = accepted_catalog(store)
        BY <3>5 DEF CacheIsRead, Stat
      <4> QED  BY <3>3, <4>1, <4>2
    <3> QED  BY <2>3, <3>2, <3>4, <3>5 DEF probe_store
  <2>4. CASE open_store
    <3>1. CASE Ended
      BY <2>1, <3>1 DEF Ended, JobIsRead, BindingIsOfTheStore
    <3>2. CASE pc = "open" /\ pc' = "lock" /\ contended' /\ UNCHANGED probed
      BY <2>1, <3>2 DEF JobIsRead, BindingIsOfTheStore
    <3>3. CASE /\ pc = "open" /\ pc' = "lock" /\ UNCHANGED probed
               /\ job'.accepted = accepted_catalog(store)
      BY <2>1, <3>3 DEF JobIsRead, BindingIsOfTheStore, accepted_catalog
    <3>4. CASE Readable /\ cache.key = identity(store) /\ Bound(cache.accepted) /\ pc = "open"
               /\ UNCHANGED probed
      <4>1. job'.accepted = cache.accepted /\ pc' = "lock"
        BY <3>4 DEF Bound, TypeOK, AnalysisTypeOK
      <4>2. cache.accepted = accepted_catalog(store)
        BY <3>4 DEF CacheIsRead, CatalogOf, identity, accepted_catalog, Readable
      <4> QED  BY <3>3, <3>4, <4>1, <4>2
    <3>5. CASE Bound(accepted_catalog(store)) /\ pc = "open" /\ UNCHANGED probed
      <4>1. job'.accepted = accepted_catalog(store) /\ pc' = "lock"
        BY <3>5 DEF Bound, TypeOK, AnalysisTypeOK
      <4> QED  BY <3>3, <3>5, <4>1
    <3> QED  BY <2>4, <3>1, <3>2, <3>4, <3>5 DEF open_store, Bound
  <2>5. CASE lock_for_adoption
    <3>1. CASE Ended
      BY <2>1, <3>1 DEF Ended, JobIsRead, BindingIsOfTheStore
    <3>2. CASE pc' = "analyze" /\ UNCHANGED <<contended, probed>>
      <4>1. job'.accepted = job.accepted /\ pc = "lock"
        BY <2>5, <3>2 DEF lock_for_adoption, Ended, TypeOK, AnalysisTypeOK
      <4> QED  BY <2>1, <3>2, <4>1 DEF JobIsRead, BindingIsOfTheStore, accepted_catalog
    <3> QED  BY <2>5, <3>1, <3>2 DEF lock_for_adoption
  <2>6. CASE commit_recompute
    BY <2>1, <2>6 DEF commit_recompute, Ended, JobIsRead, BindingIsOfTheStore
  <2> QED  BY <1>3, <2>2, <2>3, <2>4, <2>5, <2>6 DEF Recomputing
<1>4. CASE DataRequest
  BY <1>4, DataRequestKeeps DEF Request, world, analysis, JobIsRead, BindingIsOfTheStore,
     accepted_catalog
<1> QED  BY <1>1, <1>2, <1>3, <1>4 DEF Next

-----------------------------------------------------------------------------
(* The inspector *)

LEMMA SessionIsKept ==
  ASSUME TypeOK, Counted, SessionIsRead, Next
  PROVE  SessionIsRead'
<1>1. CASE OtherPrograms \/ Notification \/ Recomputing
  <2>1. UNCHANGED <<session, request>> /\ reply' = NoReply
        /\ (request.phase # "idle" => seen' = seen \cup {store'})
    BY <1>1, OthersAreElsewhere DEF Elsewhere
  <2>2. reply'.kind = "none"
    BY <2>1 DEF NoReply
  <2>3. CASE UNCHANGED <<store, writes>>
    BY <2>1, <2>2, <2>3 DEF SessionIsRead, ServedIsOfTheStore, identity
  <2>4. CASE StoreWritten
    <3>1. writes \in Nat /\ writes' = writes + 1 /\ (store' # None => store'.stat = writes + 1)
      BY <2>4 DEF StoreWritten, TypeOK, WorldTypeOK
    <3>2. request.stat \in StatOrNone
      BY DEF TypeOK, InspectorTypeOK
    <3>3. session # None => session.stat \in StatOrNone
      BY DEF TypeOK, InspectorTypeOK
    <3>4. request'.stat # None => request'.stat <= writes'
      BY <2>1, <3>1, <3>2 DEF SessionIsRead, StatOrNone
    <3>5. session # None /\ session.stat # None => session.stat <= writes
      BY DEF SessionIsRead
    <3>6. session' # None => /\ session'.stat # None => session'.stat <= writes'
                             /\ store' # None => session'.stat # store'.stat
      BY <2>1, <3>1, <3>3, <3>5, SavedDataAssumption DEF StatOrNone
    <3> QED  BY <2>1, <2>2, <3>4, <3>6 DEF SessionIsRead, ServedIsOfTheStore
  <2> QED  BY <1>1, <2>3, <2>4, WritesAreNew, NotificationKeeps, RecomputingKeeps
              DEF StoreKept, world, Notification, did_change, did_change_watched_files
<1>2. CASE DataRequest
  <2>1. UNCHANGED <<store, writes>>
    BY <1>2, DataRequestKeeps DEF Request, world
  <2>2. CASE \E kind \in {"roots", "read"} : receive(kind)
    <3>1. /\ request'.stat = None /\ seen' = {store} /\ UNCHANGED session
          /\ reply'.kind = "none"
      BY <2>2 DEF receive, NoRequest, NoReply
    <3> QED  BY <2>1, <3>1 DEF SessionIsRead, ServedIsOfTheStore, identity
  <2>3. CASE UNCHANGED <<session, seen>> /\ Answer(Unavailable)
    <3>1. reply'.kind = "unavailable" /\ request'.stat = None /\ request'.phase = "idle"
      BY <2>3 DEF Answer, Unavailable, NoReply, NoRequest
    <3> QED  BY <2>1, <2>3, <3>1 DEF SessionIsRead, ServedIsOfTheStore, identity
  <2>4. CASE refuse_invalid
    <3>1. /\ reply'.kind = "invalid" /\ request'.stat = None /\ request'.phase = "idle"
          /\ UNCHANGED <<session, seen>>
      BY <2>4 DEF refuse_invalid, Answer, NoReply, NoRequest
    <3> QED  BY <2>1, <3>1 DEF SessionIsRead, ServedIsOfTheStore, identity
  <2>5. ASSUME NEW program, Answer(Served(program, identity(store))), store # None,
               UNCHANGED seen, request.phase # "idle"
        PROVE  ServedIsOfTheStore' /\ request'.stat = None /\ request'.phase = "idle"
    <3>1. reply'.from = identity(store) /\ request'.stat = None /\ request'.phase = "idle"
      BY <2>5 DEF Answer, Served, NoRequest
    <3>2. store \in seen'
      BY <2>5 DEF SessionIsRead
    <3> QED  BY <2>5, <3>1, <3>2 DEF ServedIsOfTheStore, identity
  <2>6. ASSUME UNCHANGED <<reply, seen>>, request.phase # "idle"
        PROVE  ServedIsOfTheStore'
    BY <2>6 DEF SessionIsRead, ServedIsOfTheStore, identity
  <2>7. CASE begin_read
    <3>1. UNCHANGED <<session, seen>> /\ request.phase # "idle"
      BY <2>7 DEF begin_read
    <3>2. CASE is_current(Stat) /\ Answer(Served(session.generation, session.roots))
      <4>1. store # None /\ session # None /\ session.stat = store.stat
        BY <3>2 DEF is_current, Stat
      <4>2. session.roots = identity(store)
        BY <4>1 DEF SessionIsRead
      <4>3. ServedIsOfTheStore' /\ request'.stat = None /\ request'.phase = "idle"
        BY <2>5, <3>1, <3>2, <4>1, <4>2
      <4> QED  BY <2>1, <3>1, <4>3 DEF SessionIsRead, identity
    <3>3. CASE request' = [request EXCEPT !.phase = "read"] /\ UNCHANGED reply
      <4>1. request'.stat = request.stat
        BY <3>3 DEF TypeOK, InspectorTypeOK
      <4> QED  BY <2>1, <2>6, <3>1, <3>3, <4>1 DEF SessionIsRead, identity
    <3>4. CASE request' = [request EXCEPT !.phase = "snapshot", !.stat = Stat] /\ UNCHANGED reply
      <4>1. request'.stat = Stat
        BY <3>4 DEF TypeOK, InspectorTypeOK
      <4>2. Stat # None => Stat <= writes
        BY DEF Stat, Counted, TypeOK, WorldTypeOK
      <4> QED  BY <2>1, <2>6, <3>1, <3>4, <4>1, <4>2 DEF SessionIsRead, identity
    <3> QED  BY <2>3, <2>7, <3>1, <3>2, <3>3, <3>4 DEF begin_read
  <2>8. CASE open_saved_data_snapshot
    <3>1. UNCHANGED <<session, seen>> /\ request.phase # "idle"
      BY <2>8 DEF open_saved_data_snapshot
    <3>2. ASSUME UNCHANGED reply, request'.stat = request.stat
          PROVE  SessionIsRead'
      BY <2>1, <2>6, <3>1, <3>2 DEF SessionIsRead, identity
    <3>3. ASSUME NEW next, request' = [request EXCEPT !.phase = "refresh", !.snapshot = next]
          PROVE  request'.stat = request.stat
      BY <3>3 DEF TypeOK, InspectorTypeOK
    <3> QED  BY <2>3, <2>8, <3>1, <3>2, <3>3 DEF open_saved_data_snapshot
  <2>9. CASE refresh
    <3>1. UNCHANGED seen /\ request.phase # "idle"
      BY <2>9 DEF refresh
    <3>2. CASE Answer(Unavailable) /\ UNCHANGED session
      BY <2>3, <3>1, <3>2
    <3>3. CASE /\ store # None
               /\ session' = [generation |-> Generation, stat |-> request.stat,
                              snapshot |-> request.snapshot, roots |-> identity(store)]
               /\ IF request.kind = "roots" THEN Answer(Served(request.snapshot, identity(store)))
                  ELSE request' = [request EXCEPT !.phase = "read"] /\ UNCHANGED reply
      <4>1. session'.stat = request.stat /\ session'.roots = identity(store)
        BY <3>3
      <4>2. /\ ServedIsOfTheStore'
            /\ (request'.stat = None \/ request'.stat = request.stat)
        <5>1. CASE request.kind = "roots"
          BY <2>5, <3>1, <3>3, <5>1
        <5>2. CASE request.kind # "roots"
          BY <2>6, <3>1, <3>3, <5>2 DEF TypeOK, InspectorTypeOK
        <5> QED  BY <5>1, <5>2
      <4> QED  BY <2>1, <3>1, <4>1, <4>2 DEF SessionIsRead, identity
    <3> QED  BY <2>9, <3>2, <3>3 DEF refresh, Readable
  <2>10. CASE read_session
    <3>1. UNCHANGED <<session, seen>> /\ request.phase # "idle"
      BY <2>10 DEF read_session
    <3>2. CASE Answer(Served(session.snapshot, identity(store))) /\ store # None
      <4>1. ServedIsOfTheStore' /\ request'.stat = None /\ request'.phase = "idle"
        BY <2>5, <3>1, <3>2
      <4> QED  BY <2>1, <3>1, <4>1 DEF SessionIsRead, identity
    <3> QED  BY <2>3, <2>10, <3>1, <3>2 DEF read_session, Readable
  <2> QED  BY <1>2, <2>2, <2>4, <2>7, <2>8, <2>9, <2>10 DEF DataRequest
<1> QED  BY <1>1, <1>2 DEF Next

-----------------------------------------------------------------------------
(* The documents *)

(* The parts of Versions: the analysis installed and the one under way, and  *)
(* what a request has captured of both.                                      *)
LEMMA VersionsAreKept ==
  ASSUME TypeOK, Counted, Versions, Next
  PROVE  Versions'
<1> USE DEF Versions
<1>1. CASE OtherPrograms \/ Recomputing
  <2>1. UNCHANGED <<buffer, generation>>
    BY <1>1, OtherProgramsKeep, RecomputingKeeps DEF editor
  <2>2. UNCHANGED request /\ reply'.kind = "none"
    BY <1>1, OthersAreElsewhere DEF Elsewhere, NoReply
  <2>3. CASE UNCHANGED <<latest, pc, job>>
    BY <2>1, <2>2, <2>3 DEF Reading, ServedIsVisible
  <2>4. CASE UNCHANGED <<latest, job>> /\ pc # "idle"
    BY <2>1, <2>2, <2>4 DEF Reading, ServedIsVisible
  <2>5. CASE prepare_recompute
    <3>1. /\ job'.text = buffer /\ job'.generation = generation
          /\ latest' # latest => latest' = None /\ ~Reading
      BY <2>5 DEF prepare_recompute, NoJob
    <3>2. generation \in Nat
      BY DEF TypeOK, EditorTypeOK
    <3>3. request.phase # "idle" /\ job'.generation = request.generation => job'.text = request.shown
      BY <3>1
    <3>4. job'.generation \in 1..generation' /\ job'.text \in Texts /\ job'.text = buffer'
      BY <2>1, <3>1 DEF TypeOK, EditorTypeOK
    <3>5. CASE latest' = latest
      BY <2>1, <2>2, <3>3, <3>4, <3>5 DEF Reading, ServedIsVisible
    <3>6. CASE latest' = None /\ ~Reading
      BY <2>1, <2>2, <3>2, <3>3, <3>4, <3>6 DEF Reading, ServedIsVisible
    <3> QED  BY <3>1, <3>5, <3>6
  <2>6. CASE Ended /\ latest' = latest
    BY <2>1, <2>2, <2>6 DEF Ended, Reading, ServedIsVisible
  <2>7. ASSUME UNCHANGED latest, pc # "idle", job'.text = job.text, job'.generation = job.generation
        PROVE  Versions'
    BY <2>1, <2>2, <2>7 DEF Reading, ServedIsVisible
  <2>8. CASE probe_store \/ open_store \/ lock_for_adoption
    <3>1. UNCHANGED latest /\ pc # "idle"
      BY <2>8 DEF probe_store, open_store, lock_for_adoption
    <3>2. ASSUME NEW a, job' = [job EXCEPT !.accepted = a] \/ job' = [job EXCEPT !.stat = a]
                        \/ job' = [job EXCEPT !.lock = a]
          PROVE  job'.text = job.text /\ job'.generation = job.generation
      BY <3>2 DEF TypeOK, AnalysisTypeOK
    <3> QED  BY <2>6, <2>7, <2>8, <3>1, <3>2 DEF probe_store, open_store, lock_for_adoption, Bound
  <2>9. CASE commit_recompute
    <3>1. ~Reading /\ pc # "idle" /\ pc' = "idle"
      BY <2>9 DEF commit_recompute, Ended
    <3>2. \/ latest' = None \/ latest' = latest
          \/ latest'.text = job.text /\ latest'.generation = job.generation
      BY <2>9 DEF commit_recompute
    <3> QED  BY <2>1, <2>2, <3>1, <3>2 DEF Reading, ServedIsVisible
  <2> QED  BY <1>1, <2>3, <2>5, <2>8, <2>9, OtherProgramsKeep DEF analysis, Recomputing
<1>2. CASE Notification
  <2>1. UNCHANGED <<request, pc>> /\ reply'.kind = "none" /\ ~Reading
    BY <1>2, OthersAreElsewhere, NotificationKeeps
       DEF Elsewhere, NoReply, Notification, did_change, did_change_watched_files
  <2>2. ASSUME NEW text \in Texts, did_change(text)
        PROVE  Versions'
    <3>1. UNCHANGED <<latest, job>> /\ generation' = generation + 1
      BY <2>2 DEF did_change
    <3>2. generation \in Nat /\ job.generation \in Nat /\ request.generation \in Nat
      BY DEF TypeOK, EditorTypeOK, AnalysisTypeOK, InspectorTypeOK
    <3>3. latest # None => latest.generation \in Nat
      BY DEF TypeOK, AnalysisTypeOK, Program
    <3>4. latest # None => latest.generation < generation'
      BY <3>1, <3>2, <3>3
    <3>5. pc # "idle" => job.generation < generation'
      BY <3>1, <3>2
    <3>6. request.phase # "idle" => request.generation < generation'
      BY <3>1, <3>2
    <3> QED  BY <2>1, <3>1, <3>2, <3>3, <3>4, <3>5, <3>6 DEF Reading, ServedIsVisible
  <2>3. CASE did_change_watched_files
    <3>1. UNCHANGED <<buffer, generation>>
      BY <2>3 DEF did_change_watched_files, editor
    <3>2. job' = job \/ job' = [job EXCEPT !.dropped = TRUE]
      BY <2>3 DEF did_change_watched_files
    <3>3. job'.text = job.text /\ job'.generation = job.generation
      BY <3>2 DEF TypeOK, AnalysisTypeOK
    <3>4. latest' = latest \/ latest' = None
      BY <2>3 DEF did_change_watched_files
    <3> QED  BY <2>1, <3>1, <3>3, <3>4 DEF Reading, ServedIsVisible
  <2> QED  BY <1>2, <2>2, <2>3 DEF Notification
<1>3. CASE DataRequest
  <2>1. UNCHANGED <<buffer, generation, latest, pc, job>>
    BY <1>3, DataRequestKeeps DEF Request, editor, analysis
  <2>2. CASE \E kind \in {"roots", "read"} : receive(kind)
    <3>1. /\ request'.generation = generation /\ request'.shown = buffer
          /\ request'.phase = "arrived" /\ reply'.kind = "none"
      BY <2>2 DEF receive, NoRequest, NoReply
    <3>2. generation \in Nat
      BY DEF TypeOK, EditorTypeOK
    <3> QED  BY <2>1, <3>1, <3>2 DEF Reading, ServedIsVisible
  <2>3. ASSUME NEW r, Answer(r), r.kind \in {"unavailable", "invalid"} \/ r.program.text = r.shown
        PROVE  Versions'
    <3>1. request'.phase = "idle" /\ ServedIsVisible'
      BY <2>3 DEF Answer, NoRequest, ServedIsVisible
    <3> QED  BY <2>1, <3>1 DEF Reading
  <2>4. ASSUME request'.generation = request.generation, request'.shown = request.shown,
               request.phase # "idle", UNCHANGED reply,
               latest # None /\ latest.generation = request.generation
        PROVE  Versions'
    BY <2>1, <2>4 DEF Reading, ServedIsVisible
  <2>5. Reading => latest # None /\ latest.generation = request.generation
                   /\ latest.text = request.shown
    BY DEF Reading
  <2>6. ASSUME NEW program, program.text = request.shown, NEW from, Answer(Served(program, from))
        PROVE  Versions'
    <3>1. Served(program, from).program.text = Served(program, from).shown
      BY <2>6 DEF Served
    <3> QED  BY <2>3, <2>6, <3>1
  <2>7. CASE Answer(Unavailable)
    BY <2>3, <2>7 DEF Unavailable, NoReply
  <2>8. CASE refuse_invalid
    BY <2>3, <2>8 DEF refuse_invalid, NoReply
  <2>9. ASSUME NEW a, NEW b,
               \/ request' = [request EXCEPT !.phase = a]
               \/ request' = [request EXCEPT !.phase = a, !.stat = b]
               \/ request' = [request EXCEPT !.phase = a, !.snapshot = b]
        PROVE  request'.generation = request.generation /\ request'.shown = request.shown
    BY <2>9 DEF TypeOK, InspectorTypeOK
  <2>10. CASE begin_read
    <3>1. request.phase = "arrived"
      BY <2>10 DEF begin_read
    <3>2. ASSUME Fresh, is_current(Stat), Answer(Served(session.generation, session.roots))
          PROVE  Versions'
      <4>1. session.generation.text = latest.text /\ latest.text = request.shown
        BY <3>1, <3>2 DEF Fresh, is_current, Generation, Checked
      <4> QED  BY <2>6, <3>2, <4>1
    <3>3. ASSUME Fresh, UNCHANGED reply,
                 \/ request' = [request EXCEPT !.phase = "read"]
                 \/ request' = [request EXCEPT !.phase = "snapshot", !.stat = Stat]
          PROVE  Versions'
      <4>1. request'.generation = request.generation /\ request'.shown = request.shown
        BY <2>9, <3>3
      <4> QED  BY <2>4, <3>1, <3>3, <4>1 DEF Fresh
    <3> QED  BY <2>7, <2>10, <3>2, <3>3 DEF begin_read
  <2>11. CASE open_saved_data_snapshot
    <3>1. Reading /\ request.phase # "idle"
      BY <2>11 DEF open_saved_data_snapshot, Reading
    <3>2. PICK b : \/ Answer(Unavailable)
                   \/ request' = [request EXCEPT !.phase = "refresh", !.snapshot = b] /\ UNCHANGED reply
      BY <2>11, Zenon DEF open_saved_data_snapshot
    <3>3. ASSUME request' = [request EXCEPT !.phase = "refresh", !.snapshot = b], UNCHANGED reply
          PROVE  Versions'
      <4>1. request'.generation = request.generation /\ request'.shown = request.shown
        BY <2>9, <3>3
      <4> QED  BY <2>4, <2>5, <3>1, <3>3, <4>1
    <3> QED  BY <2>7, <3>2, <3>3
  <2>12. CASE refresh
    <3>1. Reading /\ request.phase # "idle"
      BY <2>12 DEF refresh, Reading
    <3>2. CASE /\ session_matching(request.snapshot)
               /\ Answer(Served(request.snapshot, identity(store)))
      <4>1. request.snapshot.text = request.shown
        BY <2>5, <3>1, <3>2 DEF session_matching, Generation, Checked
      <4> QED  BY <2>6, <3>2, <4>1
    <3>3. CASE request' = [request EXCEPT !.phase = "read"] /\ UNCHANGED reply
      BY <2>4, <2>5, <2>9, <3>1, <3>3
    <3> QED  BY <2>7, <2>12, <3>2, <3>3 DEF refresh
  <2>13. CASE read_session
    <3>1. Reading
      BY <2>13 DEF read_session, Reading
    <3>2. CASE /\ session_matching(session.snapshot)
               /\ Answer(Served(session.snapshot, identity(store)))
      <4>1. session.snapshot.text = request.shown
        BY <2>5, <3>1, <3>2 DEF session_matching, Generation, Checked
      <4> QED  BY <2>6, <3>2, <4>1
    <3> QED  BY <2>7, <2>13, <3>2 DEF read_session
  <2> QED  BY <1>3, <2>2, <2>8, <2>10, <2>11, <2>12, <2>13 DEF DataRequest
<1> QED  BY <1>1, <1>2, <1>3 DEF Next

-----------------------------------------------------------------------------
(* The types *)

LEMMA CatalogsAreTyped ==
  ASSUME store \in Store \cup {None}
  PROVE  /\ accepted_catalog(store) \in Catalog
         /\ \A content : Context(accepted_catalog(store), content) \in Catalog
         /\ store # None => identity(store) \in Identity
<1>1. accepted_catalog(store) \in Catalog
  BY DEF accepted_catalog, Catalog, Store
<1>2. \A a \in Catalog : \A content : Context(a, content) \in Catalog
  BY DEF Context, Catalog
<1>3. store # None => identity(store) \in Identity
  BY DEF identity, Identity, Store
<1> QED  BY <1>1, <1>2, <1>3

LEMMA WorldIsTyped ==
  ASSUME TypeOK, Counted, Next
  PROVE  WorldTypeOK' /\ EditorTypeOK' /\ probed' \subseteq Store \cup {None}
                      /\ seen' \subseteq Store \cup {None}
<1> USE DEF WorldTypeOK, EditorTypeOK, TypeOK
<1>1. CASE OtherPrograms
  <2>1. /\ writer' \in BOOLEAN /\ lock' \in Lock /\ disk' \in Texts /\ notified' \in BOOLEAN
    BY <1>1 DEF OtherPrograms, OpenForWriting, CloseWriter, RemoveStore, Commit,
       ChangeLock, Save, Written, Lock
  <2>1a. edits' = edits \/ (edits < MaxEdits /\ edits' = edits + 1)
    BY <1>1 DEF OtherPrograms, OpenForWriting, CloseWriter, RemoveStore, Commit,
       ChangeLock, Save, Written, Event, editor
  <2>1b. edits' \in 0..MaxEdits
    BY <2>1a, SavedDataAssumption
  <2>2. store' \in Store \cup {None} /\ writes' \in 0..MaxWrites
    BY <1>1, WritesAreNew, SavedDataAssumption DEF StoreKept, StoreWritten
  <2>3. probed' \subseteq Store \cup {None}
    BY <1>1, <2>2, WritesAreNew DEF StoreKept, StoreWritten, AnalysisTypeOK
  <2>4. seen' \subseteq Store \cup {None}
    BY <1>1, <2>2, OthersAreElsewhere DEF Elsewhere, InspectorTypeOK
  <2> QED  BY <1>1, <2>1, <2>1b, <2>2, <2>3, <2>4, OtherProgramsKeep
<1>2. CASE Notification
  <2>0. /\ notified' \in BOOLEAN /\ UNCHANGED writes /\ buffer' \in Texts /\ live_data' \in BOOLEAN
    BY <1>2 DEF Notification, did_change, did_change_watched_files, editor, world
  <2>1. \/ generation' = generation /\ edits' = edits
        \/ generation' = generation + 1 /\ edits < MaxEdits /\ edits' = edits + 1
    <3>1. ASSUME NEW text \in Texts, did_change(text)
          PROVE  generation' = generation + 1 /\ edits < MaxEdits /\ edits' = edits + 1
      BY <3>1 DEF did_change, Event
    <3>2. CASE did_change_watched_files
      BY <3>2 DEF did_change_watched_files, editor
    <3> QED  BY <1>2, <3>1, <3>2 DEF Notification
  <2>1a. generation' \in 1..(MaxEdits + 1) /\ edits' \in 0..MaxEdits
    BY <2>1, SavedDataAssumption DEF Counted
  <2>2. seen' \subseteq Store \cup {None}
    BY <1>2, NotificationKeeps, OthersAreElsewhere DEF Elsewhere, InspectorTypeOK
  <2> QED  BY <1>2, <2>0, <2>1a, <2>2, NotificationKeeps DEF AnalysisTypeOK
<1>3. CASE Recomputing
  <2>1. UNCHANGED <<world, editor>>
    BY <1>3, RecomputingKeeps
  <2>2. probed' \subseteq Store \cup {None}
    BY <1>3 DEF Recomputing, prepare_recompute, probe_store, open_store, lock_for_adoption,
       commit_recompute, Ended, AnalysisTypeOK
  <2>3. seen' \subseteq Store \cup {None}
    BY <1>3, <2>1, OthersAreElsewhere DEF Elsewhere, InspectorTypeOK, world
  <2> QED  BY <2>1, <2>2, <2>3 DEF world, editor
<1>4. CASE DataRequest
  <2>1. UNCHANGED <<world, editor, probed>>
    BY <1>4, DataRequestKeeps DEF Request
  <2>2. seen' \subseteq Store \cup {None}
    BY <1>4 DEF DataRequest, receive, refuse_invalid, begin_read, open_saved_data_snapshot, refresh,
       read_session, InspectorTypeOK
  <2> QED  BY <2>1, <2>2 DEF world, editor, AnalysisTypeOK
<1> QED  BY <1>1, <1>2, <1>3, <1>4 DEF Next

LEMMA AnalysisIsTyped ==
  ASSUME TypeOK, Counted, Versions, Next
  PROVE  AnalysisTypeOK'
<1> DEFINE CacheTypeOK ==
             cache \in [key : Identity, accepted : Catalog, stat : StatOrNone, bound : BOOLEAN]
           JobTypeOK ==
             job \in [text : Texts \cup {None}, generation : 0..(MaxEdits + 1), stat : StatOrNone,
                     accepted : Catalog, lock : Lock \ {"corrupt"}, dropped : BOOLEAN]
<1>1. probed' \subseteq Store \cup {None}
  BY WorldIsTyped
<1>2. CASE OtherPrograms
  BY <1>1, <1>2, OtherProgramsKeep DEF analysis, TypeOK, AnalysisTypeOK
<1>3. CASE DataRequest
  BY <1>1, <1>3, DataRequestKeeps DEF Request, analysis, TypeOK, AnalysisTypeOK
<1>4. CASE Notification
  <2>1. UNCHANGED <<cache, pc, contended>>
    BY <1>4, NotificationKeeps
  <2>2. due' \in BOOLEAN /\ pending' \in BOOLEAN /\ latest' \in Program \cup {None}
    BY <1>4 DEF Notification, did_change, did_change_watched_files, TypeOK, AnalysisTypeOK
  <2>3. job' = job \/ job' = [job EXCEPT !.dropped = TRUE]
    BY <1>4 DEF Notification, did_change, did_change_watched_files
  <2>4. JobTypeOK'
    BY <2>3 DEF TypeOK, AnalysisTypeOK
  <2> QED  BY <1>1, <2>1, <2>2, <2>4 DEF TypeOK, AnalysisTypeOK
<1>5. CASE Recomputing
  <2>1. store \in Store \cup {None} /\ buffer \in Texts /\ generation \in 1..(MaxEdits + 1)
    BY DEF TypeOK, WorldTypeOK, EditorTypeOK
  <2>2. pc' \in {"idle", "probe", "open", "lock", "analyze"} /\ due' \in BOOLEAN
        /\ pending' \in BOOLEAN /\ contended' \in BOOLEAN
    BY <1>5 DEF Recomputing, prepare_recompute, probe_store, open_store, lock_for_adoption,
       commit_recompute, Ended, Bound, TypeOK, AnalysisTypeOK
  <2>3. Stat \in StatOrNone /\ None \in StatOrNone
    BY <2>1 DEF Stat, StatOrNone, Store
  <2>4. NoCatalog \in Catalog /\ <<>> \in Identity /\ NoJob \in [text : Texts \cup {None},
           generation : 0..(MaxEdits + 1), stat : StatOrNone, accepted : Catalog,
           lock : Lock \ {"corrupt"}, dropped : BOOLEAN]
    BY <2>3, SavedDataAssumption DEF Catalog, Identity, NoJob, Lock
  <2>5. CacheTypeOK /\ JobTypeOK
    BY DEF TypeOK, AnalysisTypeOK
  <2>6. CacheTypeOK'
    <3>1. ASSUME NEW key \in Identity, NEW accepted \in Catalog, NEW stat \in StatOrNone,
                 adopt(key, accepted, stat)
          PROVE  CacheTypeOK'
      BY <3>1 DEF adopt
    <3>2. CASE UNCHANGED cache
      BY <2>5, <3>2
    <3>3. CASE adopt(<<>>, NoCatalog, None)
      BY <2>3, <2>4, <3>1, <3>3
    <3>4. CASE store # None /\ adopt(identity(store), accepted_catalog(store), job.stat)
      BY <2>1, <2>5, <3>1, <3>4, CatalogsAreTyped
    <3>5. CASE cache' = [cache EXCEPT !.stat = job.stat]
      BY <2>5, <3>5
    <3> QED  BY <1>5, <3>2, <3>3, <3>4, <3>5 DEF Recomputing, prepare_recompute, probe_store,
                open_store, lock_for_adoption, commit_recompute, Readable
  <2>7. JobTypeOK'
    <3>1. ASSUME NEW accepted \in Catalog, Bound(accepted)
          PROVE  JobTypeOK'
      BY <2>5, <3>1 DEF Bound
    <3>2. CASE job' = job \/ job' = NoJob
      BY <2>4, <2>5, <3>2
    <3>3. CASE job' = [NoJob EXCEPT !.text = buffer, !.generation = generation]
      <4>1. job' = [text |-> buffer, generation |-> generation, stat |-> None,
                    accepted |-> NoCatalog, lock |-> "absent", dropped |-> FALSE]
        BY <3>3 DEF NoJob
      <4> QED  BY <2>1, <2>3, <2>4, <4>1, SavedDataAssumption DEF Lock
    <3>4. CASE job' = [job EXCEPT !.stat = Stat]
      BY <2>3, <2>5, <3>4
    <3>5. CASE lock # "corrupt" /\ job' = [job EXCEPT !.lock = lock]
      BY <2>5, <3>5 DEF TypeOK, WorldTypeOK
    <3>6. Bound(NoCatalog) \/ Bound(cache.accepted) \/ Bound(accepted_catalog(store))
            \/ Bound(IF cache.bound THEN cache.accepted ELSE NoCatalog) => JobTypeOK'
      BY <2>1, <2>4, <2>5, <3>1, CatalogsAreTyped
    <3> QED  BY <1>5, <3>2, <3>3, <3>4, <3>5, <3>6 DEF Recomputing, prepare_recompute, probe_store,
                open_store, lock_for_adoption, commit_recompute, Ended
  <2>8. latest' \in Program \cup {None}
    <3>1. CASE latest' = latest \/ latest' = None
      BY <3>1 DEF TypeOK, AnalysisTypeOK
    <3>2. CASE /\ commit_recompute
               /\ latest' = [text |-> job.text, catalog |-> Context(job.accepted, job.lock),
                             generation |-> job.generation]
      <4>1. pc # "idle"
        BY <3>2 DEF commit_recompute
      <4>2. generation \in 1..(MaxEdits + 1) /\ job.generation \in Nat
        BY <2>1, <2>5
      <4>3. job.text \in Texts /\ job.generation \in 1..generation
        BY <4>1 DEF Versions
      <4>4. job.generation \in 1..(MaxEdits + 1)
        BY <4>2, <4>3, SavedDataAssumption
      <4>5. Context(job.accepted, job.lock) \in Catalog
        BY <2>5 DEF Context, Catalog
      <4> QED  BY <3>2, <4>3, <4>4, <4>5 DEF Program
    <3> QED  BY <1>5, <3>1, <3>2 DEF Recomputing, prepare_recompute, probe_store,
                open_store, lock_for_adoption, commit_recompute
  <2> QED  BY <1>1, <2>2, <2>6, <2>7, <2>8 DEF AnalysisTypeOK
<1> QED  BY <1>2, <1>3, <1>4, <1>5 DEF Next

LEMMA InspectorIsTyped ==
  ASSUME TypeOK, Counted, Versions, Next
  PROVE  InspectorTypeOK'
<1> DEFINE SessionTypeOK ==
             session \in {None} \cup [generation : Unversioned, stat : StatOrNone,
                                     snapshot : Unversioned, roots : Identity]
           Requests ==
             [kind : {"none", "roots", "read"},
              phase : {"idle", "arrived", "snapshot", "refresh", "read"},
              generation : 0..(MaxEdits + 1), shown : Texts \cup {None},
              admitted : BOOLEAN, stat : StatOrNone, snapshot : Unversioned \cup {None}]
           Replies ==
             [kind : {"none", "roots", "read", "unavailable", "invalid"},
              shown : Texts \cup {None}, program : Unversioned \cup {None}, from : Identity]
<1>1. seen' \subseteq Store \cup {None}
  BY WorldIsTyped
<1>2. SessionTypeOK /\ request \in Requests /\ reply \in Replies
  BY DEF TypeOK, InspectorTypeOK
<1>3. None \in StatOrNone /\ <<>> \in Identity
  BY DEF StatOrNone, Identity
<1>4. NoReply \in Replies /\ NoRequest \in Requests
  BY <1>3, SavedDataAssumption DEF NoReply, NoRequest
<1>5. CASE OtherPrograms \/ Notification \/ Recomputing
  BY <1>1, <1>2, <1>4, <1>5, OthersAreElsewhere DEF Elsewhere, InspectorTypeOK
<1>6. CASE DataRequest
  <2>1. store \in Store \cup {None} /\ buffer \in Texts /\ generation \in 1..(MaxEdits + 1)
        /\ live_data \in BOOLEAN /\ pending \in BOOLEAN /\ disk \in Texts
        /\ latest \in Program \cup {None}
    BY DEF TypeOK, WorldTypeOK, EditorTypeOK, AnalysisTypeOK
  <2>2. Stat \in StatOrNone
    BY <2>1 DEF Stat, StatOrNone, Store
  <2>3. latest # None => Generation \in Unversioned
    BY <2>1 DEF Generation, Checked, Unversioned, Program
  <2>4. ASSUME NEW r \in Replies, Answer(r)
        PROVE  request' \in Requests /\ reply' \in Replies
    BY <1>4, <2>4 DEF Answer
  <2>5. Unavailable \in Replies /\ [NoReply EXCEPT !.kind = "invalid"] \in Replies
    BY <1>4 DEF Unavailable
  <2>6. ASSUME NEW program \in Unversioned, NEW from \in Identity
        PROVE  Served(program, from) \in Replies
    BY <1>2, <2>6 DEF Served
  <2>7. ASSUME NEW phase \in {"snapshot", "refresh", "read"}
        PROVE  /\ request' = [request EXCEPT !.phase = phase] => request' \in Requests
               /\ request' = [request EXCEPT !.phase = phase, !.stat = Stat] => request' \in Requests
               /\ \A t \in Unversioned :
                    request' = [request EXCEPT !.phase = phase, !.snapshot = t] =>
                      request' \in Requests
    <3>1. request' = [request EXCEPT !.phase = phase] => request' \in Requests
      BY <1>2
    <3>2. request' = [request EXCEPT !.phase = phase, !.stat = Stat] => request' \in Requests
      BY <1>2, <2>2
    <3>3. ASSUME NEW t \in Unversioned,
                 request' = [request EXCEPT !.phase = phase, !.snapshot = t]
          PROVE  request' \in Requests
      BY <1>2, <3>3
    <3> QED  BY <3>1, <3>2, <3>3
  <2>8. CASE \E kind \in {"roots", "read"} : receive(kind)
    <3>1. PICK kind \in {"roots", "read"} : receive(kind)
      BY <2>8
    <3>2. request' = [kind |-> kind, phase |-> "arrived", generation |-> generation,
                      shown |-> buffer, admitted |-> live_data /\ ~pending, stat |-> None,
                      snapshot |-> None]
      BY <3>1 DEF receive, NoRequest
    <3>3. (live_data /\ ~pending) \in BOOLEAN
      BY <2>1
    <3>4. request' \in Requests
      BY <1>3, <2>1, <3>2, <3>3, SavedDataAssumption
    <3> QED  BY <1>1, <1>2, <1>4, <3>1, <3>4 DEF receive, InspectorTypeOK
  <2>9. ASSUME SessionTypeOK', request' \in Requests, reply' \in Replies
        PROVE  InspectorTypeOK'
    BY <1>1, <2>9 DEF InspectorTypeOK
  <2>10. CASE UNCHANGED session /\ Answer(Unavailable)
    BY <1>2, <2>4, <2>5, <2>9, <2>10
  <2>11. CASE refuse_invalid
    BY <1>2, <2>4, <2>5, <2>9, <2>11 DEF refuse_invalid
  <2>12. CASE begin_read
    <3>1. UNCHANGED session
      BY <2>12 DEF begin_read
    <3>2. ASSUME Fresh, is_current(Stat), Answer(Served(session.generation, session.roots))
          PROVE  InspectorTypeOK'
      <4>1. session.generation \in Unversioned /\ session.roots \in Identity
        BY <1>2, <3>2 DEF is_current
      <4> QED  BY <1>2, <2>4, <2>6, <2>9, <3>1, <3>2, <4>1
    <3>3. ASSUME UNCHANGED reply,
                 \/ request' = [request EXCEPT !.phase = "read"]
                 \/ request' = [request EXCEPT !.phase = "snapshot", !.stat = Stat]
          PROVE  InspectorTypeOK'
      <4>1. request' \in Requests
        BY <2>7, <3>3
      <4> QED  BY <1>2, <2>9, <3>1, <3>3, <4>1
    <3> QED  BY <2>10, <2>12, <3>1, <3>2, <3>3 DEF begin_read
  <2>13. CASE open_saved_data_snapshot
    <3>1. UNCHANGED session
      BY <2>13 DEF open_saved_data_snapshot
    <3>2. Checked(disk, Context(accepted_catalog(store), lock)) \in Unversioned
      BY <2>1, CatalogsAreTyped DEF Checked, Unversioned
    <3>3. ASSUME UNCHANGED reply,
                 request' = [request EXCEPT !.phase = "refresh",
                              !.snapshot = Checked(disk, Context(accepted_catalog(store), lock))]
          PROVE  InspectorTypeOK'
      <4>1. request' \in Requests
        BY <2>7, <3>2, <3>3
      <4> QED  BY <1>2, <2>9, <3>1, <3>3, <4>1
    <3> QED  BY <2>10, <2>13, <3>1, <3>3 DEF open_saved_data_snapshot
  <2>14. CASE refresh
    <3>1. CASE Answer(Unavailable) /\ UNCHANGED session
      BY <2>10, <3>1
    <3>2. CASE /\ store # None /\ session_matching(request.snapshot)
               /\ session' = [generation |-> Generation, stat |-> request.stat,
                              snapshot |-> request.snapshot, roots |-> identity(store)]
               /\ IF request.kind = "roots" THEN Answer(Served(request.snapshot, identity(store)))
                  ELSE request' = [request EXCEPT !.phase = "read"] /\ UNCHANGED reply
      <4>1. request.snapshot \in Unversioned
        BY <2>3, <2>14, <3>2 DEF refresh, Reading, Versions, session_matching
      <4>2. identity(store) \in Identity
        BY <2>1, <3>2, CatalogsAreTyped
      <4>3. Generation = request.snapshot
        BY <3>2 DEF session_matching
      <4>4. SessionTypeOK'
        BY <1>2, <3>2, <4>1, <4>2, <4>3
      <4>5. request' \in Requests /\ reply' \in Replies
        <5>1. CASE request.kind = "roots"
          BY <2>4, <2>6, <3>2, <4>1, <4>2, <5>1
        <5>2. CASE request.kind # "roots"
          BY <1>2, <2>7, <3>2, <5>2
        <5> QED  BY <5>1, <5>2
      <4> QED  BY <2>9, <4>4, <4>5
    <3> QED  BY <2>14, <3>1, <3>2 DEF refresh, Readable
  <2>15. CASE read_session
    <3>1. UNCHANGED session
      BY <2>15 DEF read_session
    <3>2. CASE /\ session_matching(session.snapshot) /\ store # None
               /\ Answer(Served(session.snapshot, identity(store)))
      <4>1. session.snapshot \in Unversioned
        BY <2>3, <2>15, <3>2 DEF read_session, Reading, Versions, session_matching
      <4>2. identity(store) \in Identity
        BY <2>1, <3>2, CatalogsAreTyped
      <4> QED  BY <1>2, <2>4, <2>6, <2>9, <3>1, <3>2, <4>1, <4>2
    <3> QED  BY <2>10, <2>15, <3>1, <3>2 DEF read_session, Readable
  <2> QED  BY <1>6, <2>8, <2>11, <2>12, <2>13, <2>14, <2>15 DEF DataRequest
<1> QED  BY <1>5, <1>6 DEF Next

-----------------------------------------------------------------------------
(* The invariant *)

LEMMA IInvHolds == Spec => []IInv
<1>1. Init => IInv
  <2>1. ASSUME Init PROVE TypeOK
    <3>1. WorldTypeOK /\ EditorTypeOK
      <4>1. 0 \in 0..MaxWrites /\ 0 \in 0..MaxEdits /\ 1 \in 1..(MaxEdits + 1)
        BY SavedDataAssumption
      <4> QED  BY <2>1, <4>1 DEF Init, WorldTypeOK, EditorTypeOK, Lock
    <3>2. AnalysisTypeOK
      <4>1. 0 \in 0..(MaxEdits + 1) /\ None \in StatOrNone /\ NoCatalog \in Catalog
            /\ <<>> \in Identity
        BY SavedDataAssumption DEF StatOrNone, Catalog, Identity
      <4>2. cache \in [key : Identity, accepted : Catalog, stat : StatOrNone, bound : BOOLEAN]
        BY <2>1, <4>1 DEF Init, NoCache
      <4>3. job \in [text : Texts \cup {None}, generation : 0..(MaxEdits + 1), stat : StatOrNone,
                    accepted : Catalog, lock : Lock \ {"corrupt"}, dropped : BOOLEAN]
        BY <2>1, <4>1 DEF Init, NoJob, Lock
      <4> QED  BY <2>1, <4>2, <4>3 DEF Init, AnalysisTypeOK
    <3>3. InspectorTypeOK
      BY <2>1, SavedDataAssumption DEF Init, InspectorTypeOK, NoRequest, NoReply, Identity,
         StatOrNone
    <3> QED  BY <3>1, <3>2, <3>3 DEF TypeOK
  <2>2. ASSUME Init PROVE Counted /\ CacheIsRead /\ JobIsRead
    BY <2>2 DEF Init, Counted, CacheIsRead, JobIsRead, BindingIsOfTheStore, NoCache, CatalogOf
  <2>3. ASSUME Init PROVE SessionIsRead /\ Versions
    BY <2>3 DEF Init, SessionIsRead, Versions, ServedIsOfTheStore, ServedIsVisible, Reading,
       NoRequest, NoReply
  <2> QED  BY <2>1, <2>2, <2>3 DEF IInv
<1>2. IInv /\ [Next]_vars => IInv'
  <2>1. ASSUME IInv, Next PROVE IInv'
    <3>1. TypeOK'
      BY <2>1, WorldIsTyped, AnalysisIsTyped, InspectorIsTyped DEF IInv, TypeOK
    <3>2. Counted' /\ CacheIsRead' /\ JobIsRead' /\ SessionIsRead' /\ Versions'
      BY <2>1, CountedIsKept, CacheIsKept, JobIsKept, SessionIsKept, VersionsAreKept DEF IInv
    <3> QED  BY <3>1, <3>2 DEF IInv
  <2>2. ASSUME IInv, UNCHANGED vars PROVE IInv'
    <3>1. TypeOK'
      BY <2>2 DEF IInv, TypeOK, WorldTypeOK, EditorTypeOK, AnalysisTypeOK, InspectorTypeOK, vars,
         world, editor, analysis, inspector
    <3>2. Counted' /\ CacheIsRead' /\ JobIsRead'
      BY <2>2 DEF IInv, Counted, CacheIsRead, JobIsRead, BindingIsOfTheStore, accepted_catalog,
         CatalogOf, vars, world, editor, analysis, inspector
    <3>3. SessionIsRead' /\ Versions'
      BY <2>2 DEF IInv, SessionIsRead, Versions, ServedIsOfTheStore, ServedIsVisible, identity,
         Reading, vars, world, editor, analysis, inspector
    <3> QED  BY <3>1, <3>2, <3>3 DEF IInv
  <2> QED  BY <2>1, <2>2
<1> QED  BY <1>1, <1>2, PTL DEF Spec

(* Every variable has its type: the counters stay within their bounds, and   *)
(* what is installed, cached and served is a program or an identity.         *)
THEOREM SavedTypesHold == Spec => []TypeOK
<1>1. IInv => TypeOK
  BY DEF IInv
<1> QED  BY <1>1, IInvHolds, PTL

(* A recompute binds a catalog the store had accepted while it ran           *)
(* (CatalogBindingCache::bind), opened or recognised, unless the store would *)
(* not open.                                                                 *)
THEOREM BindingsAreOfTheStore == Spec => []BindingIsOfTheStore
<1>1. IInv => BindingIsOfTheStore
  BY DEF IInv, JobIsRead
<1> QED  BY <1>1, IInvHolds, PTL

(* The inspector serves what the store held during the request               *)
(* (SavedDataSessionCache), also when it did not open the store for it.      *)
THEOREM ServingIsOfTheStore == Spec => []ServedIsOfTheStore
<1>1. IInv => ServedIsOfTheStore
  BY DEF IInv, SessionIsRead
<1> QED  BY <1>1, IInvHolds, PTL

(* The inspector decodes with a program of the text the editor showed when   *)
(* the request was received (saved_roots, data_children, data_read).         *)
THEOREM ServingIsVisible == Spec => []ServedIsVisible
<1>1. IInv => ServedIsVisible
  BY DEF IInv, Versions
<1> QED  BY <1>1, IInvHolds, PTL

(* A store another program holds open never makes the binding cache forget   *)
(* an accepted catalog (StoreProbe::Locked, in bind).                        *)
THEOREM LocksNeverBlank == Spec => LocksDoNotBlank
<1>1. TypeOK /\ [Next]_vars =>
        [cache.accepted # NoCatalog /\ cache'.accepted = NoCatalog =>
           accepted_catalog(store) = NoCatalog]_vars
  <2>1. SUFFICES ASSUME TypeOK, Next, cache.accepted # NoCatalog, cache'.accepted = NoCatalog
                 PROVE  accepted_catalog(store) = NoCatalog
    BY DEF vars, analysis
  <2>2. cache' # cache
    BY <2>1
  <2>3. Recomputing
    BY <2>1, <2>2, OtherProgramsKeep, NotificationKeeps, DataRequestKeeps DEF Next, Request, analysis
  <2>4. CASE probe_store
    BY <2>2, <2>4 DEF probe_store, accepted_catalog
  <2>5. CASE open_store
    <3>1. CASE cache' = [cache EXCEPT !.stat = job.stat]
      BY <2>1, <3>1 DEF TypeOK, AnalysisTypeOK
    <3>2. CASE adopt(identity(store), accepted_catalog(store), job.stat)
      BY <2>1, <3>2 DEF adopt
    <3> QED  BY <2>2, <2>5, <3>1, <3>2 DEF open_store
  <2> QED  BY <2>2, <2>3, <2>4, <2>5 DEF Recomputing, prepare_recompute, lock_for_adoption,
              commit_recompute
<1> QED  BY <1>1, SavedTypesHold, PTL DEF Spec, LocksDoNotBlank
=============================================================================
