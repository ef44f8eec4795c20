# marrow-lsp in TLA+

A verification development for the editor tooling in this repository: TLA+
modules that model its concurrent components, TLC configurations that check
them on small instances, and proofs, checked by TLAPS, of what matters most for
every instance.

## 1. The system

Three servers and one editor extension, each a process of its own.

| Part | State it keeps | Operations | Interacts with |
| --- | --- | --- | --- |
| `crates/marrow-dap` session (`session.rs`) | pending launch, requested breakpoints, `running` with `stopped_at`, `pending_resume`, `terminating`, variable references | one handler per DAP request, `flush_resume`, `pump_run_event`, teardown | client by stdio; run thread by channels and two atomic flags |
| `crates/marrow-dap` run thread (`run.rs`, `debugger.rs`, `step.rs`) | resume mode, armed breakpoints with hit counts, entry flag | `before_statement` at every statement, `park` while stopped | the Marrow runtime calls the hook; protocol thread by channels |
| `crates/marrow-dap` loop (`main.rs`, `protocol.rs`) | internal request queue | `serve`, reader thread | |
| `crates/marrow-lsp` (`backend.rs`) | documents, edit sequence numbers, semantic-token cache, known and busy roots, published diagnostics | `did_open/change/close`, watched files, debounced recompute, requests | editor by stdio; core crate under locks |
| `crates/marrow-lsp` (`main.rs`) | shutdown seen, exit status | ExitWatcher | input stream |
| `crates/marrow-lsp-core` workspace, documents, diagnostics | overlays, per-root snapshots, invalidation epochs | `prepare_recompute`, `commit_recompute` | called by the backend |
| `crates/marrow-lsp-core` catalog binding, session caches, stores | per-root store stat and binding, read sessions | probe, bind, refresh | files written by other processes |
| `crates/marrow-lsp-core` data explorer | none of its own | pages of saved data | session cache |
| `crates/marrow-lsp-core` language features | none | completion, hover, navigation, tokens, formatting | one analysis snapshot |
| `crates/marrow-lsp-core` MCP, `crates/marrow-mcp` | cached project, grants, audit file | tools, granted writes, bounded runs | agent by stdio, a thread per run |
| `editors/vscode` | refresh timer, watch-target registry, client | activation with a start timeout, data-view refresh | LSP client, file watchers |
| `crates/marrow-terminal`, `xtask` | none | styling, surface snapshot | |

### What is hard in it

* **Two threads and three channels** (dap). The adapter's belief (`stopped_at`)
  and the run thread's place change at different times; a query blocks the
  protocol thread on the channel that also carries stops.
* **Deferred effects** (dap). A resume is acknowledged when handled and wakes the
  run only at the next flush; requests in between see a resumed run that is
  still parked.
* **Termination of something that need not end** (dap, mcp). A program may sit in
  one statement for ever; teardown waits a budget and detaches.
* **Work computed from a snapshot and published later** (lsp). A recompute is
  debounced, checked outside the locks, then committed; edits, closes and
  watcher events race it.
* **Files changed by other processes** (catalog binding, session caches, VS Code
  watchers): cached by stat, refreshed by events that may be missed or late.
* **Two-step effects** (mcp): a write and its audit record.

### What makes each component correct

* dap: the stop the adapter speaks of is the one the run is parked at; each stop
  is answered by at most one resume; a terminate is prompt and a session always
  ends; breakpoints acknowledged are the ones used; logpoint output is complete
  and in order; the client sees stops and resumes alternate and one end.
* lsp backend: what is published for a file was computed from its current text or
  is superseded later; after the last edit every open root is recomputed in the
  scope asked for; closed files keep no diagnostics and no cached tokens.
* catalog and session caches: what is bound or shown is what the store held while
  it was looked at, also when the store was not opened for it; a writer's lock
  makes the editor forget nothing.
* mcp: a cached answer is the one a fresh check would give; no tool reaches past its
  grant or the allowed root; every granted write leaves a record; a run past its
  budget does not disturb the next.
* VS Code: the latest refresh wins; the start either succeeds or fails, once.

## 2. Plan

Written in order of importance; all of it is done except where it says otherwise.

1. `DebugSession`: the two threads of a debug session.
2. `DebugView`: what a session promises its client; `DebugSession` refines it.
3. Proofs of 1 and of the refinement.
4. `LspBackend`: documents, workspace epochs, debounce, recompute phases, watched
   files, diagnostics; its proofs.
5. `LspReads`: the read requests and the last-good fallback, composed with 4. The
   semantic-token cache is left out (section 8).
6. `SavedData`: the catalog binding and the inspector's session cache against
   other programs that write the store; its proofs.
7. `ProjectCache`, `McpServer`, `CappedOutput`: the MCP tools; `ToolCall`: what a
   tool call may count on; both `ProjectCache` and `McpServer` refine it.
8. The extension and the exit watcher are not modelled (section 8).

## 3. Modules

| Module | Content |
| --- | --- |
| `DebugSession` | state, actions, fairness and properties of a debug session |
| `DebugView` | the client's view: `unlaunched`, `configured`, `running`, `stopped`, `ended`, `abandoned` |
| `MCDebugSession` | request sets for TLC; extends the proof modules so that TLC checks the very invariant that is proved |
| `DebugSession_proofs` | type correctness; the phases invariant, what follows from it, and what a stop tells |
| `DebugSession_client` | what the client may rely on: `Spec => ClientView`, breakpoint edits, logpoint outputs, queries that return |
| `LspBackend` | notification handlers, recompute tasks, disk and client of the language server, and what they promise about diagnostics and facts |
| `MCLspBackend` | one project with a test module, and two projects, for TLC; extends the proof modules |
| `LspBackend_proofs` | type correctness, `IInv` and `TrackedIsShown` |
| `LspBackend_safety` | `BackendInv`: deleted projects stay clear, late runs show nothing stale, fresh facts are fresh |
| `LspReads` | the read requests and the retained last-good analysis, composed with `LspBackend` |
| `LspReads_proofs` | `ProgressInv`: in a workspace of one project no work is lost, and what requests are answered from |
| `MCLspReads` | one project for TLC |
| `SavedData` | the accepted catalog a recompute binds, the inspector's session cache, the store and the programs that write it |
| `MCSavedData` | two texts for TLC |
| `SavedData_proofs` | all five properties of `SavedData` |
| `ProjectCache` | the checked project the MCP tools keep between calls |
| `ProjectCache_proofs` | all four properties of `ProjectCache`; that it implements `ToolCall`; that calls end |
| `MCProjectCache` | one project, and two nested ones, for TLC |
| `McpServer` | the MCP server: dispatch, grants, confinement, writes and audit, bounded runs, kills and relaunches |
| `McpServer_proofs` | all six properties of `McpServer`; that it implements `ToolCall` |
| `ToolCall` | a call that reads a project: asked, loaded, ended; refined by `ProjectCache` and `McpServer` |
| `CappedOutput` | what a run keeps of its output, a fold of `write` over its prints; used by `McpServer` |
| `MCMcpServer` | calls and files for TLC |

### How `DebugSession` corresponds to the code

One state variable per field that control depends on, under the source's name:
`pending`, `running`, `breakpoints`, `expandables`, `stopped_at`,
`pending_resume`, `terminating` (`session.rs`), `terminate`, `pause`, `control`,
`events`, `swaps` (the shared flags and channels), `mode`, `entered`, `armed`
(`debugger.rs`). `requests` is the internal queue of `main.rs`. `pc` is where
`serve` is; `rt` is where the run thread is. The variables under "history" have
no counterpart; they are only written, and the properties read them.

* The protocol thread: `HandleRequest` takes one request and runs its handler
  (`on_launch` ... `on_disconnect`); `DrainDone`, `flush_resume`,
  `pump_run_event`, `WaitTimeout`, `InputEnded` are the arms of the loop. A
  handler that queries the run is two steps: the send (`query`) and the blocking
  receive (`QueryReturns`), with run-thread steps in between.
  `terminate_session` is the flag and the message, then `finish_run_within`
  drains and joins, or `detach_run` gives up.
* The run thread: a statement boundary is `ReachStatement` (the terminate check),
  `EvaluateBreakpoints` (swaps, conditions, hit counts, output), `StopOrGo` (stop
  decision, `park`); parked, `ServeQuery`, `ServeResume`, `ServeTerminate`. The
  protocol thread may act between any two. `FinishProgram` is a return, a fault
  or a panic.
* The client and the reader thread: `Send`, `CloseInput`.

Abstractions:

* A source stands for its one breakpoint line; which of its conditions hold at a
  statement is chosen freely.
* The logpoint texts of one statement are one message.
* A variables reference is the stop it was handed out at. In the code it is a
  fresh number, never reused, held in a table that `resume_run` clears.
* Requests that change no state are left out, and malformed ones.
* A program is any sequence of statements at any depths (a call adds one level),
  that ends whenever it likes or never.
* The end of the run thread and the closing of its channels are one step; the
  budget of the teardown may elapse at any moment when there is nothing to read.
* The protocol thread's writes to the client do not fail.
* The thread a detached run lives in goes on until the process exits: its steps
  stay enabled up to `Exit`.

### How `LspBackend` corresponds to the code

Again one variable per field, under the source's name: `buffer` and `generation`
(`Documents`), `project`, `latest`, `latest_generation`, `invalidation_epoch`
(`Workspace`), `tracked`, `epoch`, `non_empty` (`DiagnosticsTracker`), `pending`
(`pending_workspace_invalidation`), `edit_seq`. `shown` is the editor's side: the
problems last published for each file. `disk`, `config` and `notices` are the
file system and the watcher's queue.

* Handlers run one at a time, under the `diagnostics_publish` lock. A handler of
  an edit is two steps: the documents (`did_open`, `did_change`, `did_close`), then
  the root, its epoch, the clear and the new task (`ScheduleEdit`), whose argument
  says whether `try_lock` on the analysis found it free. A watcher notice that
  gets the lock is one step (`WatchFree`); one that does not is two (`WatchBusy`,
  `WatchEffects`), since a task may apply the pending bits in between.
* A task goes through `Elapse` (debounce, the check for a newer edit), `Capture`,
  `Prepare`, `Analyze`, `Commit` and `Publish`; anything may happen between two of
  them but what the locks exclude: `analysis_run` lets one task at a time from
  `Prepare` on, and a committed task keeps the analysis lock until it publishes.
* `ChangeFile`, `SaveFile`, `ChangeConfig` are the disk, each with its notice.

Abstractions:

* A text is its revision and whether it has problems. A file's problems depend on
  its own text; diagnostics that one file causes in another are not told apart.
* Roots are disjoint, and a file stays under its root. Lock and store files are
  watched as a source file is, and left out.
* The watcher reports in order, in batches that name no path twice, and a save or
  change is reported once. Its delay is arbitrary.
* Handlers and readers are polled by one future (`Server::serve` in `main.rs`) and
  readers never await while they hold the analysis lock, so a handler finds it
  busy only because of a task; readers change nothing here.
* An analysis that fails, in discovery, binding or by a panic, ends its task
  (`Failures`).
* A debounce takes any time. The adaptive delay is left out.

### How `LspReads` corresponds to the code

`last_good` is `Workspace::last_good`; `request` is what a handler captured before
its `await`s; `answer` is what it is about to send. A request is two steps, the
capture (`snapshot_document_and_analysis`) and the answer, where it is one that
tests `request_superseded`: an edit may come between. The others are one step.
Every step of `LspBackend` takes `retain_last_good` with it, which is what
`commit_recompute` and the two invalidations do to the retained analysis.

Abstractions: one request in flight, since reads change nothing another handler
looks at; an answer is the analysis it is drawn from and the text its position
counts in; a text with problems does not parse.

### How `SavedData` corresponds to the code

`cache` is `CatalogBindingCache` (`catalog_binding.rs`) with the identity it is
keyed by, `session` is `SavedDataSessionCache::cached` (`session_cache.rs`), `latest`
the program the workspace shows. `store` is the native store file: the identity a
reader finds in it and the fingerprint the file system gives it.

* The recompute: `prepare_recompute`, `probe_store` (the fingerprint),
  `open_store` (the opening, `bind`), `lock_for_adoption`, `commit_recompute`.
* A data request: `receive` (what is captured before the lock is tried),
  `begin_read` (`try_lock`, freshness, `is_current`), `open_saved_data_snapshot`,
  `refresh`, `read_session`.
* Other programs: `OpenForWriting`, `Commit`, `CloseWriter`, `RemoveStore`,
  `ChangeLock`, `Save`, between any two steps. An open handle excludes them, so an
  opening is one step with what is read through it.

Abstractions: one project with one source file; a catalog is the uid and epoch of
the store that accepted it, or the committed lock's. A write always changes the
fingerprint: `store_view.rs:29` relies on a file system with fine time stamps. A
store file restored from a copy with its identity is not modelled.

### How `ProjectCache` corresponds to the code

`project`, `latest`, `installed`, `last_program` are the `Workspace` inside
`CachedProject` (`mcp.rs`, `workspace.rs`), the two fingerprints its other fields.
A call is `Ask`, then `with_loaded_project` in the steps that read the disk
(`prepare_recompute`, `analyze`, `take_fingerprints`), then the tool. Other
programs save sources and commit catalogs between any two. Things it keeps that a
reader may not expect, all in the code:

* the fingerprints are taken after the analysis, so a save in between is never
  noticed (`kept`; `AnswersAreCurrent` says so);
* a project at hand is used for every file below its root, in a nested project too;
* `resource_schema` and `surface_routes` fall back to the last program that had
  modules, of whatever project;
* an analysis of an older documents generation is thrown away (`discarded`;
  section 7);
* `latest().expect(..)` ends the process when nothing was ever analysed and the
  sources cannot be walked (`PanicsOnlyUnchecked`);
* a marrow.json is read once: the model's projects keep theirs.

### How `McpServer` corresponds to the code

One server thread: `serve` and `handle` take a request (`main.rs`, `server.rs`),
`Admit` is the order in which a call is refused, the tools follow, `Answer` is the
reply. `surface_write` is three steps: open, execute, append the record. A run is
`spawn`, then steps of its own thread (`set_allowed_root`,
`load_project_for_run`, `run_ends`), and `run_within_budget` on the server's side,
which may give up at any moment; the thread goes on. `Killed` and `main` are the end
of the process and the next launch, under any policy. A commit whose process is
killed before the record is counted in `lost`; one whose record could not be
appended, and whose reply says so, in `noted`. In test mode the output of a run is
not captured through the cap; `printed` is a run's.

`with_loaded_project` is one step here and several in `ProjectCache`. `ToolCall` is
what ties the two: a call is asked, its load ends with a project above its file or
with the call, and the tool has that project until it answers. Both implement it
(`LoadsAsToolCall`, `ServesAsToolCall`), so the one step gives the tools of
`McpServer` no more than a load gives them, and what the disk does during a load
shows only in what is analysed, which is `ProjectCache`'s subject.

## 4. Runs

| Run | Question | Bounds |
| --- | --- | --- |
| `session` | every order of launch, stops, steps, pauses, queries, breakpoint edits, teardown; `IInv`; the client's view | 5 requests, 2 queued, depth 2, 2 sources, 2 outputs ahead |
| `liveness` | the session ends and a resume wakes, even with a wedged program; a pause stops the run if statements return | 6 requests, 2 queued |
| `pause_leak` | a comment the code does not keep (section 7) | 4 requests, 2 queued |
| `backend_projects` | two projects, one whose marrow.json breaks, vanishes and returns, analyses that fail, and `BackendInv` | 3 events |
| `backend_live` | one project with a test module and read requests: fresh and older facts, dropped runs, every edit shown | 3 events |
| `backend_dropped`, `backend_facts`, `backend_tests` | comments the code does not keep (section 7) | 3 events |
| `saved_data` | the store is written, locked and removed while its catalog is bound and its data shown | 3 writes, 1 other event |
| `mcp_cache` | cached answers of two nested projects whose sources and catalogs change during a load | 2 changes |
| `mcp_overlay` | a comment the code does not keep (section 7) | no change at all |
| `mcp_server` | runs left behind, writes, kills and relaunches; the cap on output | 2 threads, 1 write a project, cap of 2 bytes |

Every passing run finishes. No run of `DebugSession` turns deadlock checking off:
`Exited` is the only final state, and a state of the adapter without a next step
is an error. The others do: a server really may rest, when its client and the
disk do.

Why the bounds are enough. `MaxRequests` includes launch and configurationDone,
so `session` has three requests left: a stop, a staged resume and a request behind
it. `MaxQueue` = 2 lets a request be waiting behind the one in hand, which is what
the drain order is about (a terminate behind a continue, a disconnect behind an
evaluate). The program itself is not bounded: it may execute for ever, and hit
counts past their target are not told apart. `MaxEvents` only holds it back while
that many outputs wait to be forwarded, so that a program full of logpoints does
not fill an endless queue. Depth 2 tells step-over, step-in and step-out apart.

An event of `LspBackend` is an edit, open, close, save or change on disk;
`MaxChanges` is one more than their number, as revision 1 is the initial text of
every file. Three events are the smallest number that lets an open start a run,
a second event race it, and a third race what the second scheduled; a task holds
all the rest of the history in its captured fields. The server's own steps are not
bounded. `ProgressInv` (section 6), from which the invariants of `backend_live`
follow, was also checked with four events, without the reads (19 million states).

Three writes of `saved_data` create a store and commit to it twice, or remove it
and create another; one event is the edit or save that makes the inspector's text
differ. `IInv` of `SavedData_proofs` was checked on this instance too (4.3 million
states). Two changes of `mcp_cache` let a source and a catalog change in one load,
or a source change and change back. One write a project lets `mcp_server` lose its
record in each way; two threads, one left behind and one waited for; a cap of two
bytes and two prints of characters one and two bytes wide meet the cap within a
character, at it and after it.

Properties, and the hazard each one is about:

* `StoppedMeansParked`, `QueriesGetTheirAnswer`: a stop, a panic or the end of the
  run racing a query.
* `WakesOnce`, `TerminateIsPrompt`: the resume that is acknowledged before the run
  is woken, and the terminate behind it
  (`queued_terminate_cancels_staged_resume_before_wake` tests one order).
* `EntryStopIsFirst`, `StepStopsInRange`: the stop decision against pauses, edits
  and mode changes that arrive in any order.
* `ReferencesBelongToTheStop`: no reference survives a resume.
* `NoLostOutput`, `EditsGovernNextStatement`: the events and swaps channels.
* `ClientView`: the order of the events the client sees, whatever it sends.
* `SessionEnds`, `ResumeWakes`, `PauseStops`: progress.

* `PublishedIsCurrent`, `FreshFactsAreCurrent`: a run that returns after the texts
  it has read have changed.
* `TrackedIsShown`: closes, deletions and source-only runs against the tracker.
* `DeletedConfigStaysClear`: a deleted marrow.json against the runs under way.
* `SettledShowsProblems`, `DroppedRunIsRetried`, `EditsArePublished`: superseded and
  dropped runs.
* `StaleFactsAreBeingReplaced`: requests overtaken by edits, and the fallback to an
  older analysis.

* `BindingIsOfTheStore`, `LocksDoNotBlank`: the store recognised by its fingerprint,
  and the writer's lock.
* `ServedIsOfTheStore`, `ServedIsVisible`: the inspector's cached session against
  commits and edits.

* `AnswersAreCurrent`, `IndexIsOfTheAnalysis`: the cached project against sources and
  catalogs that change during a load.
* `PanicsOnlyUnchecked`: the `expect` of the tools.
* `ReachIsBounded`: grants and confinement, of the threads left behind too.
* `WritesAreAccountedFor`: a write and its record, with a kill in between.
* `RunRepliesToItsCall`, `RequestsAreAnswered`: the late result of a run.
* `CapturedIsAPrefix`: the cap on output.

Each has a mutant: a small change to the code's model under which TLC finds it
violated (`Mut_...`, next to the definition it replaces).

## 5. Fairness

`Fairness` is weak fairness of the protocol thread's steps and of the hook's: the
operating system schedules both threads, and neither waits for anything but the
other's messages or its own timers. It includes `detach_run` (a timer) and
`ServeQuery`: an expression evaluated at a stop is assumed to return. The code
needs that assumption: `query` receives without a timeout (`session.rs:1540`), so
an evaluation that does not return holds up every later request, a disconnect
too. The client is never assumed to send anything, nor to close its input.

`FairSpec` assumes nothing of the program, which may stay in one statement for
ever: `SessionEnds` and `ResumeWakes` are checked under it. `PauseStops` has the
assumption it needs, weak fairness of the program (its statements return), in its
own statement. The program may still end between any two statements.

`LspFairSpec` of `LspReads` is weak fairness of the server's steps as a whole, the
delivery of notices among them: the runtime polls whatever can go on, and since
each task and each notice is used up, none waits for ever in an instance with
finitely many events. The client and the disk are never assumed to act, and a read
request need not be answered.

`FairSpec` of `McpServer` is weak fairness of the server thread once it has a
request; the timer of `run_within_budget` is part of it. Nothing is assumed of the
threads of runs: an evaluation may never end, and the request is answered all the
same. `FairSpec` of `ProjectCache` is weak fairness of that thread too; nothing is
assumed of the programs that write to the disk. `SavedData` states no fairness: what
it promises is safety.

## 6. Proofs

TLAPS proves, for every set of sources and requests and every value of the
bounds (assumptions: `RequestsAssumption`, `BoundsAssumption`, evaluated by
TLC on every run of their module):

| Theorem | Statement |
| --- | --- |
| `TypeCorrect` | `Spec => []TypeOK` |
| `PhasesCorrect` | `Spec => []IInv` |
| `StoppedMeansParkedCorrect` | `Spec => []StoppedMeansParked` |
| `QueriesGetTheirAnswerCorrect` | `Spec => []QueriesGetTheirAnswer` |
| `TerminateIsPromptCorrect` | `Spec => []TerminateIsPrompt` |
| `WakesOnceCorrect` | `Spec => []WakesOnce` |
| `EntryStopIsFirstCorrect` | `Spec => []EntryStopIsFirst` |
| `ReferencesBelongToTheStopCorrect` | `Spec => []ReferencesBelongToTheStop` |
| `StepStopsInRangeCorrect` | `Spec => []StepStopsInRange` |
| `ClientViewCorrect` | `Spec => ClientView` |
| `EditsGovernCorrect` | `Spec => EditsGovernNextStatement` |
| `NoLostOutputCorrect` | `Spec => []NoLostOutput` |
| `QueriesReturnCorrect` | `FairSpec /\ []QueryIsServed => QueriesReturn` |
| `BackendTypeCorrect` | `Spec => []TypeOK` of `LspBackend`, for every set of roots and files (assumption: `ConstantsAssumption`) |
| `BackendInvariant` | `Spec => []IInv` of `LspBackend` |
| `TrackedIsShownCorrect` | `Spec => []TrackedIsShown` |
| `BackendInvHolds` | `Spec => []BackendInv` |
| `DeletedConfigStaysClearCorrect` | `Spec => []DeletedConfigStaysClear` |
| `PublishedIsCurrentCorrect` | `Spec => PublishedIsCurrent` |
| `FreshFactsHaveBuffersCorrect` | `Spec => []FreshFactsHaveBuffers`: fresh facts have every open buffer as it is |
| `FreshFactsCorrect` | with one project: `Spec => []FreshFactsAreCurrent` |
| `ProgressHolds` | with `OneProject`: `Spec => []ProgressInv` |
| `SettledShowsProblemsCorrect` | with `OneProject`: `Spec => []SettledShowsProblems` |
| `DroppedRunIsRetriedCorrect` | with `OneProject`: `Spec => DroppedRunIsRetried` |
| `StaleFactsAreBeingReplacedCorrect` | with `OneProject`: `LspFairSpec => []StaleFactsAreBeingReplaced` (assumption: `NoneAssumption`) |
| `SavedTypesHold` | `Spec => []TypeOK` of `SavedData` (assumptions: `SavedDataAssumption`, `NoneIsNoStore`) |
| `BindingsAreOfTheStore` | `Spec => []BindingIsOfTheStore` |
| `LocksNeverBlank` | `Spec => LocksDoNotBlank` |
| `ServingIsOfTheStore` | `Spec => []ServedIsOfTheStore` |
| `ServingIsVisible` | `Spec => []ServedIsVisible` |
| `CacheTypesHold` | `Spec => []TypeOK` of `ProjectCache` (assumptions: `CacheAssumption`, `CallsAssumption`, `NoneIsNoSnapshot`) |
| `AnswersAreCurrentCorrect` | `Spec => []AnswersAreCurrent` |
| `IndexIsOfTheAnalysisCorrect` | `Spec => []IndexIsOfTheAnalysis` |
| `PanicsOnlyUncheckedCorrect` | `Spec => PanicsOnlyUnchecked` |
| `LoadsAsToolCallCorrect` | `Spec => LoadsAsToolCall`: `ProjectCache` implements `ToolCall` |
| `CallsEndCorrect` | `FairSpec /\ []CanAnswer => CallsEnd` |
| `ServerTypesHold` | `Spec => []TypeOK` of `McpServer` (assumption: `ServerAssumption`) |
| `ReachIsBoundedCorrect` | `Spec => []ReachIsBounded` |
| `RunRepliesToItsCallCorrect` | `Spec => []RunRepliesToItsCall` |
| `WritesAreAccountedForCorrect` | `Spec => []WritesAreAccountedFor` |
| `CapturedIsAPrefixCorrect` | `Spec => []CapturedIsAPrefix` (assumption: `CapAssumption`) |
| `SinkIsCapped` | `Cap - Bytes(Captured(prints).text) \in Nat` for every sequence of prints |
| `ServesAsToolCallCorrect` | `Spec => ServesAsToolCall`: `McpServer` implements `ToolCall` |
| `RequestsAreAnsweredCorrect` | `FairSpec /\ []CanServeIsEnabled => RequestsAreAnswered` |

The argument. None of the safety properties is inductive. That `stopped_at` is
where the run is parked, say, is preserved by `pump_run_event` only if the stop
it forwards is the last event and the run is still parked there, which depends on
the control channel being empty, which depends on no resume being staged. So the
invariant `Phases` names the joint phases of the two threads, each with the
exact contents of both channels:

    Idle -> Executing -> Announced -> Shown -> Staged -> Waking -> Executing ...
                                      Shown -> Asking -> Answered -> Shown
                                               Asking -> Panicked
    any phase with a run -> Winding          Executing, Panicked, Staged -> Over

There is one lemma per action, which says which phase it leads to. `Winding` is
the delicate one: it records what the run thread may have on its channel when the
terminate flag is raised (a terminate alone, or behind a resume that was flushed
before it) and how many statements it can still begin, hence `TerminateIsPrompt`.
The safety theorems then follow from the phases by cases, and `ClientViewCorrect`
from a second small invariant, `ViewAgrees`, which ties `view` to the phases.

Three properties of the stops have small invariants on top of the phases. The entry
stop: a run that stops on entry has entered exactly when it has announced a stop
(`EntryInv`), and a launch can change `stop_on_entry` only while there is no run. The
references: the phases say that a stop is forwarded only when none was shown before,
so no reference can be left from an earlier one (`RefsInv`). The steps: the mode the
run steps with is the last one the client asked for, unless that one is still staged
or in the channel (`ModesFollow`), and a stop decided with it waits in the channel
until the phase says it is the one shown.

Breakpoint edits: while the run can reach a statement, the newest set pushed and
not yet drained, or the armed one when there is none, is what the client was last
told (`EditsInv`); the hook drains before it decides, so that set is the one a
statement is held against. Outputs: the channel is a queue of outputs with at most
one other message, at its end, and while the run can still send outputs there is
none (`OutputInv`), so every count of an output sent and not forwarded is that of
one that waits. The counting is done by step lemmas about a queue that grows at
its end and is read at its head, so no induction over the queue is needed.

`TrackedIsShown` is not inductive either. A publish reports every open buffer of
its root as clean that its run found clean; were one of them tracked and outside
the run's reconcile scope, the editor would lose its problems and the tracker keep
it. So `CapturesAreCurrent` follows a task from its capture on: as long as its
generation is the current one, the buffers it holds are the buffers there are; a
run that leaves the test modules out has seen none of them open; hence the texts
it publishes cover every open buffer. An edit preserves this because it has a
generation of its own. `TextsAreSound` adds that a text with problems has a
revision to show. A close of a file whose root is not known clears the editor only,
and is right because nothing of such a root is tracked.

`BackendInv` is about runs, which analyse with no lock held while everything changes
under them. A run is `Doomed` when an invalidation is pending or came after its
preparation; it will show nothing. There is one run at a time, and unless it is
doomed its project is the resolved one (`OneRun`). That is not enough to know that a
doomed run is doomed for every reason it should be: the server knows of the disk
only what the watcher reports, and reports come late and in batches. So
`NewestNoticeIsTrue` follows the notices through the watcher's queue and the
handler's batch: the newest one of a path tells whether the path is there. With it
a deletion that has been handled has dropped its project (`DeletedIsDropped`), and
stays so because a later resolve reads the disk; a run of the current buffers has
read each file as it is, unless it is doomed or a notice is still to come
(`ReadIsCurrent`), because the handler of a notice either invalidates the project of
the run or leaves the bit that dooms it. The two properties follow. TLC checks
`BackendInv` itself in `backend_projects` (1.05 million states).

Facts are weaker than diagnostics: nothing ties `latest` to the resolved project
when there are two, and a notice of the other project leaves it alone. Hence the
hypothesis of `FreshFactsCorrect`, all roots equal; run `backend_facts` shows that
it cannot be dropped. What holds for any number is that fresh facts have the open
buffers as they are, which is what `latest_matches_snapshot` promises.

`OneProject` is the hypothesis under which no work is lost: one root, whose
marrow.json nobody changes, and no failing analysis. Each part is needed:
`backend_dropped` loses work with two projects, and a project that cannot be read
or analysed leaves nothing to show. `backend_live` satisfies it. Then `Progress`
holds at every moment: nothing was ever opened; or a handler is about to schedule a
task, or there is a task that is `Live`, one that neither its stamp, nor its
generation, nor an invalidation has overtaken; or the editor is `CaughtUp`: the
latest analysis is of the current buffers, every source file shows its own problems
or has a notice to come, and no run under way can replace either. Every step that
overtakes the last live task schedules another, and a live task gets through each
of its phases: preparing applies whatever invalidation waits for it, the commit
finds its own epoch and no newer analysis (`latest_generation <= generation`), and
the publish brings the editor up to date, because what its run has read is current
(`ReadIsCurrent`). It must also show nothing of files it leaves out, which are
gone: `GoneIsClear` says their problems are cleared when their notice is handled.
A dropped run leaves the work behind because it was not live, and so another one
is, or the editor is up to date without it. A request that no edit has overtaken
holds the buffer as it is (`RequestInv`); when the editor is caught up the latest
analysis has that very text, else a recompute is in flight. TLC found no violation
of `ProgressInv` in the instance of `backend_live` without the reads (`LspBackend` alone:
268,029 states with three events, 19 million with four).

The caches of `SavedData` are right because of the order of the reads: a fingerprint
is taken before what is kept with it is read, so it may be older than that but
never newer, and no write restores an old one. `CacheIsRead` and `SessionIsRead` say
it: whatever store still has the fingerprint is the store that was read.
`CacheIsRead` also needs that the accepted catalog is a function of the identity,
for a recompute that opens the store and finds the identity it knows. `Versions`
says why the inspector decodes with the text on show: one generation of the
documents has one text, and a request holds the analysis of the generation it
captured.

The cached project of the MCP tools answers for its file because its fingerprints
are those of the analysis kept with them (`Fingerprinted`), unless the project
changed between the analysis and the fingerprints or the analysis was thrown away.
`Untorn` carries that through a load: until the project changes under it, the load
has the catalog and the text the project has. A cache hit compares the fingerprints
with the disk of that moment, so `Loaded` holds after it as after a load, and what
was true at a moment of the call stays so (`Honest` only asks for some moment). A
call that finds no analysis has matched `None` against `None`: the sources could not
be walked, hence `PanicsOnlyUnchecked`. `CacheInv` was checked by TLC on the instance
of `mcp_cache` (346 thousand states).

For `McpServer` there are two invariants besides the types; these need that a write
is served only while the store may still grow (`Room`), for the bound of the model. `ServerInv` says what stands between a
call and what it opens: writes imply reads in every policy, a tool runs only for a
call that was admitted, a thread has taken on the allowed root before it looks at
its file, and the server waits for the very thread it spawned for the call at hand.
`LedgerInv` follows the one write at hand: it has moved the store only between its
commit and its record, and the stamps it has read are those of the store around
that commit. Then each step keeps the sum: a commit makes the write at hand pending,
and a record, a note in the reply or a kill takes it over, a record being counted
once because it is appended at a new index (`AppendCounts`). Both invariants were
checked by TLC on the instance of `mcp_server` (541 thousand states).

`CapturedIsAPrefix` is about a loop: `write` is folded over any number of prints, of
any length, and the boundaries of a text are a recursive function of it. The
library's induction theorems cannot be instantiated here (their parameter is an
operator), so `McpServer_proofs` has one whose parameter is a set, `SetInduction`,
from the fact that a nonempty set of naturals up to a bound has a least element
(`LeastOf`). With it the recursive functions are shown to exist and to satisfy
their equations (`EndsOf`, `FoldOf`, `FlattenOf`), and the boundaries of a text to
grow (`EndsGrow`). The longest prefix that fits is then characterised by its cut
(`CutIs`): nothing behind a cut matters (`CutBefore`), and a cut behind what fits
whole is a cut of the rest (`CutBehind`). Hence one print keeps the equation between
what is held and the prefix of all that was printed (`WriteKeeps`), and by induction
over the prints so do all (`CapturedIsFitting`). `SinkIsCapped` follows: the
subtraction in `write` never underflows.

Three theorems are about progress. ENABLED is opaque to the prover, so each has as
its premise that a step is enabled whenever it is needed, and proves the rest: which
steps lead from which phase to which, that nothing else leaves a phase, and that the
ladder of phases is finite.

* `QueriesReturnCorrect`: the phases say that a query that waits finds the run parked
  with the query alone in its channel, or its answer alone in the other, or the run
  dead. Two steps lead back to the loop.
* `RequestsAreAnsweredCorrect`: a call goes through at most four phases. What the
  server thread needs for its step (`CanServe`: a free thread for a run, a tool of its
  own otherwise) is proved to be there whenever a request is (`CanServeHolds`); only
  that `Serving` is then enabled (`CanServeIsEnabled`) is assumed.
* `CallsEndCorrect`: the steps of a load never go back, whatever other programs write.

TLC evaluates the premises: `QueryIsServed` and `QueriesReturn` hold in the instance of
`liveness` (159,100 states), `CanServeIsEnabled` in that of `mcp_server` (541,144), and
`CanAnswer` and `CallsEnd` in that of `mcp_cache` (346,158), as do the two refinements of
`ToolCall` in the last two.

Model-checked only: the liveness properties `PauseStops`, `SessionEnds`, `ResumeWakes`
and `EditsArePublished`. Besides ENABLED, each needs a measure that is not bounded by a
fixed number of phases (the requests and outputs still queued, the tasks and notices
still under way), hence an induction in temporal logic, for which the prover has no
rule. The safety half of `EditsArePublished` is
`SettledShowsProblemsCorrect` and `DroppedRunIsRetriedCorrect`. What the progress
theorems say is not proved of a workspace with several projects, where it is false.

## 7. Where the code and its comments differ

`debugger.rs:624`: "An entry stop already halts the program, so a pause that
arrived during startup is satisfied here and must not leak into a later
continue." The flag is cleared when the hook decides the entry stop. A pause that
is handled after that and before the protocol thread has forwarded the stop
(configurationDone and pause sent back to back) finds `stopped_at` unset and
raises the flag again (`session.rs:1402`); the client sees the entry stop,
continues, and stops at the next statement with reason `pause`. Run `pause_leak`
shows it.

`backend.rs:859`: "The buffers changed while analyzing. [...] its diagnostics are
stale, so the newer edit's recompute publishes the current set." The generation
counts the edits of every project, and the newer edit's recompute is of its own
project. With `b` of project B opened and then `a` of project A while B's run is
under way, B's run is dropped and nothing recomputes B: its problems are shown only
after another event in B. Run `backend_dropped`.

`workspace.rs:337`: "External changes to closed files on disk are picked up by the
file watcher's invalidation". The handler invalidates the resolved project, and
`prepare_recompute` of a file of B makes that B while `latest` is still A's. A
notice for a closed file of A in between leaves A's facts in place, served as
fresh until B's run commits, and for longer if it fails. Run `backend_facts`.

`workspace.rs:179`: "An open, close, config or watcher change, or an explicit
recompute: always a full check including test modules." A keystroke within the
debounce supersedes the full task with an interactive one, and the wider scope is
lost: closed test modules stay unchecked until the next full recompute. Run
`backend_tests`.

`mcp.rs:374`: the cache holds "fingerprints of the exact source set and committed
catalog it was checked against, so a change to either between calls re-checks". Each
call builds a new `Documents`, of generation 1 with an unsaved source and 0 without.
After a `mw_check` with a source, `commit_recompute` (`workspace.rs:486`) takes each
analysis of the files on disk for one of an older run and discards it, and
`with_loaded_project` stores the new fingerprints all the same: from then on the
tools answer from the unsaved source, whatever is saved. Run `mcp_overlay`.

## 8. Not modelled

* Framing (`protocol.rs`): byte I/O. A message is a value.
* Launch preparation (`project.rs`) beyond its success or failure, and the paging
  of variables (`variables.rs`).
* The Marrow language, checker, runtime and store: not in this repository. The
  model uses them as the code here does: the runtime calls the hook before every
  statement and unwinds when the hook fails.
* Of the language server: the semantic-token cache, whose handlers yield between
  computing and storing only when the runtime makes them; the adaptive debounce;
  nested roots; the binding index, a pure function of the snapshot it is keyed by;
  the line index that places a closed file's problems, read from the disk at the
  publish (`diagnostics.rs:87`); positions inside a text, hence the edits of a rename
  drawn from an older analysis. A marrow.json that is broken before its project was
  ever resolved and then repaired is not followed by a recompute (the root is
  neither resolved nor tracked); `SettledShowsProblems` speaks of projects whose
  marrow.json did not change. The pure language features are functions of an analysis
  snapshot whose types belong to the canonical crates.
* A recompute that meets a writer's lock keeps the earlier catalog, and nothing but
  the notice of the writer's change schedules another; delivery of that notice is the
  editor's. Sessions of several projects with equal digests (`session_cache.rs:29` keys
  them by digest alone) do not arise in the one project of `SavedData`.
* Pages of saved data (`data_explorer.rs`: cursors, truncation, rendering).
* `main.rs` of the language server: the exit watcher, byte framing and one flag.
* JSON-RPC framing and argument schemas of the MCP server.
* The extension: TypeScript over the VS Code API and its event loop.
* `marrow-terminal` and `xtask`: no state.
