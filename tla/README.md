# Klubok: a TLA+ verification project

Klubok answers questions about the applications installed on a computer. A Tauri
application (Rust, `src-tauri/`) shows two React windows (`src/`) and runs a Node
sidecar (`sidecar/`) that indexes help documents, searches them with a local
language model, and walks a user through a task on the screen. The parts talk by
calls with ids over one WebSocket, by files (a lock, a configuration, three kinds of
stores), and by events; hardly any two of them share a transaction. This project
models the parts where that matters.

Paths below are relative to the repository's root.

## 1. Inventory

| Component | State it keeps | Operations | Talks to |
|---|---|---|---|
| Write lock (`sidecar/src/services/db.service.js` 120-405) | the file `pipeline.lock`, its mtime; per process `heldLock`, `inheritedLock`, `heartbeatTimer` | `withWriteLock`, `acquireLock`, `releaseLock`, `forceUnlock`, heartbeat, exit hook | every process on one data directory, through the file system |
| RPC bridge (`src-tauri/src/sidecar.rs`) | `out`, `pending`, `refs`, `connected`, `next_id` | `rpc_call`, `handle_frame`, `connection_loop` | the windows (commands, events), the RPC server |
| RPC server (`sidecar/src/rpc/server.js`) | `jobs`, `clients` | `handleRequest`, `job.cancel`, progress, the final frame | bridge, every method |
| Sidecar lifecycle (`sidecar.rs` 200-285, 367-414, 463-529; `server.js` 388-408) | the child's slot, respawn counter, `stopping` | spawn, respawn with backoff, restart, shutdown | operating system, lock |
| Indexing pipeline (`sidecar/src/modules/indexer`, `rpc/methods.js`) | the operation in flight: its stage, its loop, its signal | scan, fetch, local documents, keywords, vectorize, intents, full sync, clear | stores, scraper, Ollama, spawned scripts |
| Stores (`db.service.js` 410-1296, `db.js`) | SQLite tables, `chunks_fts`, one LanceDB table per model, the open handle | `saveChunks`, `saveWebDocument`, `resetVectorizedFlags`, clears, `init`, `ensureLanceDbConnected` | pipeline, search, benchmark |
| Configuration (`sidecar/src/config/config.js`) | the file, the object everybody imports | `reloadConfig`, `updateModels` | everybody |
| Search (`modules/rag`, `services/ollama.service.js`) | none between calls | `processQuery`, fusion of rankings, answer | stores, Ollama |
| Benchmark (`sidecar/src/tests`) | the saved configuration, the queue, the streamed report | run, pause, resume, cancel | configuration, stores, search |
| Walkthrough backend (`modules/walkthrough`) | sessions: step, history, confirmed steps, mode, files | start, step, stuck, finish | screenshots on disk, Ollama, platform |
| Walkthrough window (`src/walkthrough`) | session id, phase, the call in flight | start, next, stuck, switch, finish | bridge, screen capture in `system.rs` |
| User window (`src/user`) | readiness phase, search run, refs | check, build, search, cancel | bridge |
| Developer panel (`src/dev`) | running operations, the plan of a full run | run, stop, configuration, reports | bridge |
| Logger (`services/logger.service.js`) | the diagnostic journal, buffers of the query log and of walkthrough journals | records of start, error and exit; flush at exit | files |
| Metrics (`src-tauri/src/metrics.rs`) | `IS_MEASURING`, one thread | start, stop | developer panel |
| Bootstrap, platform, CLI, interface texts, data scripts | none between calls | | |

### What is hard

* **Interleavings inside Node.** Each `await` is a place where other requests run.
  The lock judges a file and removes it after an await; the stores are written by a
  statement at a time; the handle of the vector table is read again after each await.
* **Interleavings between processes.** Two servers, a command line and spawned scripts
  open the same data directory. Only the lock file orders them.
* **Tasks in Rust.** Every call runs beside the connection loop, and they share three
  maps behind three mutexes: the timeout, the answer, a lost connection and a failed
  send all want to remove the same entry.
* **Failure.** The sidecar may die between any two statements; requests to Apple's
  help, to Ollama and to children fail; users cancel at any time; a killed process
  leaves its lock; a machine that sleeps looks like a dead one.
* **Two views of one fact.** The vector flag is in SQLite and the vectors in LanceDB;
  the model is in the file, in `config`, in the getters and in the open handle.

### What makes each component correct

* Lock: one writer at a time; a holder cannot be judged dead; nothing is left behind;
  a dead holder does not block the database.
* Bridge and server: every call ends exactly once, with its own answer; no entry
  outlives its call; progress carries its caller's label.
* Pipeline and stores: an application marked as vectorized can be found; a full sync
  repairs what interrupted ones left; a vector is in the table of its model.
* Configuration and benchmark: a run leaves the configuration as it was and measures
  the model it names.
* Walkthrough: a session's files go with it and with it only; a step is counted once;
  a confirmed step is never proposed again.
* Windows: an answer of a replaced request is never shown; a cancelled operation does
  not go on; the gate opens only for the configuration it has checked.

`PROJECT.json` lists, under `hazards`, each of these at its line of code with the
properties that watch it.

## 2. Modules

Each component has a module; those that interact are composed.

| Module | Models | State and actions |
|---|---|---|
| `WriteLock` | what the lock promises | `writers`; a section begins, its script begins, a section ends |
| `PipelineLock` | the lock protocol | `file` is the lock file (owner, text complete, mtime fresh); `heldLock`, `inherited`, `timer` are the fields of the `DbService` of a process; `pc` is the await an operation stands at. One action per file operation. `Abstract` maps it to `WriteLock` |
| `PipelineLockProofs` | theorems on the lock | |
| `RpcBridge` | the bridge, the connection and the server's job registry | `cpc` is where the task of a call stands; `pending`, `refs`, `slot` are the maps and the oneshot; `link` the connection loop; `toServer`, `toClient`, `conn` the socket; `jobs` the registry. One action per critical section or per turn of the event loop |
| `RpcBridgeProofs` | theorems on the bridge | |
| `SidecarLifecycle` | the Node process and the application that starts it, restarts it and takes it down | `child` is the slot behind its mutex, `doomed` the process `shutdown()` took out of it, `loop` the place of `connection_loop`, `peer` its connection; per process `ph` (from start to `process.exit`) and `last`, its last record in the diagnostic journal. Actions of the process, of the loop, of the user, and faults |
| `IndexPipeline` | pipeline, stores, configuration, the benchmark's use of them | `known` .. `docs` are the SQLite tables, `flag` the vectorized columns, `tables` and `vec` LanceDB, `fts` the full text index; `conn` the open path and handle; `job` the operation in flight as a plan of stages. One action per statement |
| `IndexPipelineProofs` | theorems on the pipeline, the stores and the configuration | |
| `SidecarLifecycleProofs`, `RagEngineProofs`, `DeskProofs` | theorems on the lifecycle, a question and the main window | |
| `RagEngine` | one question to `processQuery` | `query` is the call with the await it stands at and what it holds by then; `config`, `stored`, `tables` are what others change meanwhile. The fusion, the order of the documents and the reading of the answer are operators (`Fuse`, `Reordered`, `Readings`) |
| `BenchmarkRun` | `runRagTests`: the matrix of modes, the queue of cases, the report | `stage` is the await of the run, `queue`, `active`, `control` the queue and its control, `buf`, `chain`, `disk` the buffer of the report, its chain of promises and the files. The body of a case is two steps (engine, report) |
| `FullRun` | the full run of the developer panel over it; has the specification | `state`, `entries`, `stop`, `step` are those of `useFullRun`, `op` and `request` those of `useDevRuntime`; a step of the pipeline is a job with an outcome |
| `FullRunProofs` | theorems on the full run, its queue and its report | |
| `Readiness` | the gate in front of the search | `phase`, `known`, `skipped` are those of `useReadiness`, `check` is the call a check awaits and what it was answered |
| `SearchWindow` | the search hook and what the window shows of it | `search` has the refs of `useSearch`; `queries` the jobs in the sidecar; `shown` and `dismissed` are Spotlight's |
| `Desk` | the main window: `Readiness`, `SearchWindow`, the views of `App`, the configuration and the metrics sampler; has the specification | `view` decides which hooks are mounted; `change` is a change of the configuration from its request to its notification; `samplers` are threads |
| `WalkthroughSession` | the walkthrough methods of the sidecar | `sessions` are those `session.js` keeps (count of steps, list cursor, confirmed steps, files), `disk` the screenshots; `calls` has every request with the await it stands at (`at`). One action per stretch of a handler between two awaits |
| `WalkthroughWindow` | the hint panel over them; has the specification | `panels` are the refs of `useWalkthrough` (`current` is `runRef`, `session` is `sessionIdRef`, `track` the steps shown). User actions make calls, hook actions take their results |
| `WalkthroughProofs` | theorems on the walkthrough | |
| `MCPipelineLock`, `MCRpcBridge`, `MCLife`, `MCIndexPipeline`, `MCAsk`, `MCBench`, `MCDesk`, `MCWalkthrough` | instances for TLC | |

The map in `PROJECT.json` names the lines of `runRagTests` and its helpers in
`diploma-artifacts/test-set/test-rag.js`, a byte-for-byte copy of
`sidecar/src/tests/test-rag.js`, which is the one `rpc/methods.js` imports; line numbers are
the same in both.

Operators whose comment says "Mutant" are plausible bugs of the operator after them. No
specification uses them; `PROJECT.json` lists which property each of them breaks.

Abstractions that matter:

* *Lock.* A file operation is atomic but for the creation of the lock, which is an open and a write
  (`Env` has `torn`); either may fail (`disk`), and so may a removal of a file that is there (`rm`), at
  a takeover, a release and `db.unlock`. Time is two values: the mtime is fresh or older than
  `LOCK_STALE_MS`; a live heartbeat keeps it fresh unless the machine sleeps (`suspend`). A pid is the
  process, and a dead one's number may be given away (`reuse`).
* *Bridge.* A socket is two queues; a lost connection drops both, and requests the server
  had received may still be read (`stale`). The bound on breaks and restarts is
  `MaxBreaks`, `MaxRestarts`. A restart of the application counts ids from 1 again, as
  `next_id` does, and may find an external server with its old jobs.
* *Pipeline.* A text stands for itself and its chunks. `saveChunks` keys its rows by the
  name of the application, so `NameOf` is a constant. Raw HTML, refresh dates and titles
  are left out. The shipped configuration is assumed for
  `enableKeywordAugmentation` and `scanLocalDocs` (both true). A child process of
  `fullSync` uses its own model and handle; its handle is opened anew, that of the server
  persists.
* *Walkthrough.* An instruction is a value, and `instructionSimilarity` at its threshold is the relation
  `Alike`. Of the history only `lastMeaningfulInstruction` is kept (`said`). Every call has files of its
  own; in the code the smaller copy is named after the session and the step. The launch of the program
  and its delay come before the screenshot and call nobody else, so they are left out, as is looking
  back at earlier steps; `app_not_started` behaves as `wrong_window`. Shipped settings are assumed:
  `planVerify` off, screen analysis on. A call may be about a program that is not found (`gone`): it
  then fails before anything is purged. The files of a session are removed while it is still open
  (`drop`), so a step in flight may add another one meanwhile. The data of a session stays readable
  after it is closed (`open` is false), as it does for a handler that holds the object.
* *Lifecycle.* A process that ended may be started again as the next one. The port is
  "nobody else listens". The lengths of the backoff are left out; of the two timers of a stop
  (one second in `shutdown()` of `sidecar.rs`, two in that of `server.js`) only their order is
  kept: a process that was asked to stop by `shutdown()` is killed before it gives up waiting,
  unless it was stopping already. A stray is a process nobody is to take down: started in a
  terminal, let go of when the application crashed, or written over in the slot.
* *Question.* A chunk has a program, a document and the key the fusion knows it by (a program and the
  first twenty characters of the text). The ranking of each search is any ranking, and the number the
  model answers any number up to one past the list. Distances, thresholds and wording are left out. The
  connection has the model it is for and the model of the table that is open, which part when the new
  model has no table. Scores are integers (`Scale`) that keep the first four ranks exact.
* *Benchmark.* A result is its case and mode. The text of the report is a sequence of chunks
  (header, beginning of a mode, result, end of a mode), and the tail of a snapshot is named by
  what it closes. The settings of a mode are its number. A plan is any list of pipeline steps and
  benchmarks. The writes of the report may fail, and of its end also
  what comes after the rename (`report-stream.js:198-201`).
* *Window.* Calls of the gate are answered in one step and their answers read in another, so
  that a change of the configuration falls on either side. A change is a request, its handling and
  its notification, and a lost connection between them takes the notification away. `during` is
  the set of models configured since the check began. Only two models in the instance: one that is
  ready and one that is not.

## 3. Runs

| Run | Module | Bounds | Shows |
|---|---|---|---|
| `lock_calm` | `MCPipelineLock` | two servers, three operations, one script; creations that fail; `db.unlock` unforced | mutual exclusion, the holder's file is its own, `PipelineLock` implements `WriteLock` |
| `lock_faults` | same | torn and failing writes, crashes, exits, reused pids, sleeps; removals succeed | no live process leaves a lock in its name when it has nothing in flight |
| `lock_live` | two servers, no script | torn writes, crashes, exits, reused pids, removals that fail, unlock | a lock whose section is over goes, in a dead process or in one that could not remove it |
| `lock_takeover` | as `lock_calm` | one kind of fault: crash | **two writers** after a dead lock is judged twice |
| `rpc_faults` | `MCRpcBridge` | a query and a `job.cancel`; two breaks, two restarts, timeouts | one waiter per call and none after it, one final frame, own answers, labelled progress, every call ends |
| `life` | `MCLife` | three processes, two runs of the application, two faults | nobody is forgotten but the strays, and the backend comes back |
| `index_calm` | `MCIndexPipeline` | two applications, two models, one benchmark run | vectors are of their model and flags mean vectors; a clean full sync completes; configuration restored |
| `index_faults` | same | one application; crashes, kills, failing models, pages and tables of contents | what a fault leaves is repaired without being believed and without double rows |
| `ask` | `MCAsk` | five chunks, two guides, the first three ranks, two models, any open table, one change from outside | the best first, honest answers |
| `bench` | `MCBench` | a pipeline step and two benchmarks, each of three cases, two modes, two at a time; two pauses or resumptions; disk, cases and the process fail, the file is read again | the report is whole, cases under control, the panel's list is true, a cancelled run ends |
| `desk` | `MCDesk` | two questions, four switches of the view, one change, one lost connection; five of these in all | own answers, a verdict that is true of what its check read, everything settles |
| `walk` | `MCWalkthrough` | one panel; its user makes a call while fewer than four were made (the first step of a session and `finish` come by themselves); one call cancelled or left; two steps per session; one crash or more | silence after a cancellation, order of the list, no confirmed step again, clean closing, no look at the screen in manual mode, the limit of a session |

`lock_takeover` ends in a violation, and `findings` in `PROJECT.json` quotes the comment it
contradicts.

**Why the bounds are enough.** The lock's conflicts are between two processes, between two operations of
one process, and between a section and its script; the instance has each of them once, and a third
operation to come in between. The theorems of section 5 remove the bound. The bridge needs a call, a
second one whose frames interleave with it, and a cancellation; one loss of the connection separates
every pair of steps once, and an id meets its double with one restart. The proofs remove these bounds as
well. A lifecycle needs the process in the slot, the one that replaces it and a stranger on the port;
two runs are needed for what the first leaves to the second. The pipeline needs two applications to have
one done and one interrupted, two models to have one current and one not, and a page of either origin.
`Bound` (in `MCIndexPipeline`) lets the second application into the stores only while every model in use
is the first, or in a full sync in which nothing has failed: what two applications do to each other,
what two models do to one application, and every full sync that starts from there are explored. A
question needs two chunks that share a key, a document found twice, one that is gone, the description of
a program (docId -1) and metadata (docId 0); three ranks are the least with a middle, and every ranking
of them by either search is tried. A benchmark needs a case running while one waits and one has returned
(three), a mode after a mode, and a batch that is full before its mode ends (`BatchSize` 2), and a plan
with a step before it that may be stopped and a benchmark after it (one pipeline step, two benchmarks);
the theorems hold for any of these numbers. The window needs an answer to come after the next question
and a gate that is left and entered again during a check. The walkthrough needs a call the user gives up
and the next ones that overlap with what is left of it: with four calls the overlap happens before, in
and after a screenshot, the making of a list and an answer of the model, and a panel that starts anew
gives the sidecar a second session. Only one panel is on the screen; the instance has no second one, so
the wipe by the `finish` of a replaced panel is explored against calls of its own session and that of a
restart, not against those of its successor (a hazard at `index.js:1453`). The theorems on the
walkthrough hold for any number of panels, calls, sessions and steps, and for any guide.

The histories `calm` and `did` (walkthrough), `during` and `missed` (gate), `answered` (benchmark) and
`searched` (question: it also carries the first ranking to the fusion) remember what a property
needs. `SYMMETRY` is used in `ask` only, over the two models, which no safety property tells apart.
`CHECK_DEADLOCK FALSE` is said where
the system may stop: all calls of an instance answered, or every process of it dead.
The largest runs are `walk` (3.1 million distinct states, two minutes with two workers), `ask` (2.7
million, two minutes), `bench` (0.8 million, one minute) and `desk` (0.4 million, under a minute).

**`Targets`.** `index_calm` clears with `all`, `apps`, `local` and `intents`. After `web` or
`document_links` the flag `toc_fetched` stays set (`db.service.js` 943 and 968-997), so the
guides never come back, and `SyncCompletes` says so at once. After `lancedb` the flags of the
other model outlive the `chunks_fts` they went with. `web_documents` does no harm to a later full
sync, which fetches the pages again from links that are still there (the theorem `SyncIsComplete` has it; in
the run it would triple the states). `index_faults` has these two, with the property that survives them.

**`busy`.** A benchmark and the `config.*` methods take no lock. With `busy` in `Env` they
run while another operation is in flight, and most properties of `IndexPipeline` fail:
two benchmarks at once restore each other's model, and a vectorization started under one
model ends under the other. The developer panel does not prevent it
(`useDevRuntime.js` refuses only a second run of the same operation), so these are hazards
of the code; no passing run covers them, and `PROJECT.json` says so at their lines.

## 4. Fairness

* `PipelineLock!FairSpec`: every continuation of an operation is run (the event loop is
  fair), a script that is done exits, and time passes (`Expire`, the mtime of a file
  nobody touches gets older than `LOCK_STALE_MS`). Nothing obliges a user to start
  anything; `DeadLockGoes` states what it needs in its premise: users who retry
  (`Retrying`) or one who presses `db.unlock` (`Rescuing`).
* `RpcBridge!FairSpec`: tasks of calls run, the loop goes on (it is `loop {}`), sockets
  deliver, handlers end, and a process that ended is started again by `connection_loop`.
  `Timeout` is given none, because `EveryCallEnds` must not rest on it. `ConnectFails`
  and `Break` are fair only when the server is down or its socket closed.
* `SidecarLifecycle!FairSpec`: processes go on, the loop is `loop {}`, and `shutdown()` runs on the
  main thread. Faults, guests and users have none. `BackendReturns` is stated for an
  application that stays up: only faults, which are bounded, can take its backend again.
* `FullRun!FairSpec`: promises are resumed, requests are answered, and a case returns, because a
  request to the model has a timeout. A paused queue is not resumed by anybody;
  `CancelEnds` must not need it.
* `Desk!FairSpec`: calls of a check are answered, the timers of the grace period and of the
  retries fire, queries end, threads are scheduled. Neither the bridge nor the user owes anything.
* `IndexPipeline` has no liveness property: its loops run over finite sets. Neither have
  `WalkthroughWindow` and `RagEngine`: a handler waits for a model with a timeout, and
  what users do is theirs.

## 5. Proofs

TLAPS proves, for any number of processes, operations, calls and faults:

| Theorem | Says | From |
|---|---|---|
| `TypeCorrect` | `[]TypeOK` of `PipelineLock`, whatever the environment does | |
| `Exclusion` | no two sections write at once, when nothing in `Env` kills, sleeps or forces | `CalmInv` |
| `HolderVisible` | the holder's own complete, fresh file is at the path as long as it writes | `CalmInv` |
| `Implementation` | `PipelineLock` implements `WriteLock` | `CalmInv` |
| `LeavesNothing` | no live process leaves a lock in its name when nothing of it is in flight, where removals succeed and nobody calls `db.unlock` | `KeeperInv` |
| `BridgeTypeCorrect` | `[]TypeOK` of `RpcBridge` | |
| `OneWaiterPerCall` | `WaiterPerCall`: one waiter per waiting call, none after it, any faults | `BridgeInv` |
| `OwnAnswers` | no call is given the answer to a request of an earlier run of the application | `BridgeInv` |
| `OneFinal` | `OneFinalFrame`: no frame follows the final one of a call, and none is under way for a call that was answered | `Staged` |
| `ProgressLabelled` | a progress frame of a call in flight finds its label: an action property | `Staged` |
| `LifeTypeCorrect` | `[]TypeOK` of `SidecarLifecycle` | |
| `NobodyForgotten` | a process that lives is in the slot, in the hand of `shutdown()`, or a stray | `LifeInv` |
| `HonestAnswers` | an answer names only what it was shown, and an undisturbed automatic search that says `hybrid` searched vectors, those of its own model unless the open table is not of the model the connection is for | `AnswerInv`, `FusionPicksChunks` |
| `QuestionTypeCorrect` | `[]TypeOK` of `RagEngine`: no more is loaded than the limits allow, and all that is loaded is shown | `OrderInv`, `FusionPicksChunks` |
| `BestIsFirst` | `BestFirst`: the best documents that can be loaded, each once, and the better nearer to the ends of the prompt | `OrderInv`, `FusionPicksChunks`, `FusionIsBest` |
| `AnswersAreOwn` | an answer on the screen is that of the question above it | `SearchInv` |
| `VerdictsAreTrue` | `VerdictIsOfItsCheck`: an open gate was opened for a model configured while it checked, which is there with its vectors; it is the one configured now unless a change was not followed by a check | `GateInv` |
| `DeskTypeCorrect` | `[]TypeOK` of `Desk`, with a thread free whenever one is started | `TypeInv` |
| `IndexTypeCorrect` | `[]TypeOK` of `IndexPipeline`, whatever the environment does | `TypeInv` |
| `RestoredIsKept` | `ConfigRestored`: a benchmark leaves the model as it was, in the file, in memory and in the getters | `ConfigInv` |
| `RepairsKept` | `RepairsAreSound`: no flag without a table past the check, no row beside one that is there | `WorkInv` |
| `VectorsGoHome` | a vector is put only in the table of the model that computed it | `WorkInv` |
| `VectorsKept` | `VectorsOfTheModel`: that, and between operations a flag means that every document is in the table | `SettledInv` |
| `SyncIsComplete` | `SyncCompletes`: a full sync without a failure leaves nothing out, whatever was there before | `CleanInv` |
| `TypesAreKept` (walkthrough) | `[]TypeOK` of `WalkthroughWindow` | `IInv` |
| `SilentIsKept` | `CancelledIsSilent`: no step comes from a call that was given up, or of another session | `IInv` |
| `BlindIsKept` | `ManualIsBlind`: for a user who cancels nothing no handler looks at the screen in manual mode | `IInv` |
| `LimitIsKept` | `LimitKept`: the limit of a session, but for one step to each call that was given up | `IInv` |
| `ClearedIsKept` | `ClosedLeavesNothing`: a panel closed in calm leaves no session and no screenshot | `IInv` |
| `ListIsKept` | `ListInOrder`: the guide is read from its first item to its last | `IInv`, `OrderedOf` |
| `NewIsKept` | `NeverProposedAgain`: what was marked as done is not proposed again | `IInv`, `HeededOf` |
| `TypesAreKept` (benchmark) | `[]TypeOK` of `FullRun` | `TypeInv`, `QueueInv`, `ReportInv` |
| `WholeIsKept` | `ReportIsWhole`: the report on disk can be read at any moment and misses nothing it should have | `ReportInv` |
| `ControlIsKept` | `CasesUnderControl`: an action property of every start and of the settings under it | `QueueInv` |
| `TruthIsKept` | `EntriesTellTruth`: the panel's list says what became of each job | `PanelInv` |

`Exclusion`, `HolderVisible` and `Implementation` assume a calm environment because the code does
not give them more: `lock_takeover` is the counterexample.

**Lock.** Mutual exclusion is not inductive: it says nothing of an operation that has read a
lock and is about to remove it. `CalmInv` adds that the file belongs to the one section in
progress and is complete and fresh (`CalmFile`), so that nobody who read it may take it
(`CalmReaders`), that the operation holding it has its heartbeat (`CalmHolder`), and that
a script lives only inside its parent's section (`CalmScripts`). `Implementation` maps
`writers` to the operations at work and shows each action to be a `Begin`, `BeginChild`,
`End` or a stutter. `NoLeftover` needs no calm but removals that succeed: `KeeperInv` says that a file in a live
process's name always has an operation of that process whose remaining steps remove it.
The proofs use `LockAssumption` and `ChildAssumption`: the map of operations to processes is
total, a script is one operation, and scripts do not spawn scripts, all of which hold by
`runChildScript` and `cli/run-vectorize.js`.

**Bridge.** `WaiterPerCall` (no entry outlives its call, and no waiting call is forgotten) needs to know
what the connection carries: `BridgeInv` adds that only a connection in use carries anything (`Quiet`),
that what it carries belongs to a call of this run of the application that was sent (`Sent`), and that
the maps follow the task of each call (`Entries`). The order of frames rests on `Staged`: what the
connection holds of a call is its request, its job or frames of it, in this order and one stage at a
time, and as long as it holds anything nobody has answered the call or taken its label.

**Lifecycle.** That nobody is forgotten depends on who may hold a process: `LifeInv` adds what each
state of the application says of the slot and of `shutdown()`'s hand (`Hands`), that a connection leads
to a process that was listening (`Peers`), and that only a process that is there handles a signal
(`Signals`).

**Question.** `AnswerInv` says what a question holds at each of its awaits (`Shape`, `Holds`), and that
as long as nothing was changed from outside it agrees with the configuration and the open table it
began under (`Undisturbed`). That the fusion returns only chunks it was given is an induction over a fold, which
no installed prover can do: the theorems assume it as `FusionPicksChunks`, and `MCAsk`
asserts it for every pair of rankings of the instance. `BestFirst` has three parts. That the fused
ranking is the best (`FusedFirst`) is about the same fold: `BestIsFirst` assumes it as `FusionIsBest`,
and the run `ask`, in which every pair of rankings is fused, checks it. That the documents are the best
that can be loaded (`LoadedFirst`) and that the better stand nearer to the ends (`ShownFirst`) is proved
for any limits: `OrderInv` says that as long as nothing changed every document tried is seen and
loaded (`Loading`), and that what is shown is what was loaded, reordered or not (`Ordering`);
`EdgesFirst` inverts the reordering.

**Window.** `SearchInv` says that all the hook holds is about one question, the last one asked, or
nothing; `GateInv` says at each await of a check what it has already read, that this is about
models configured since the check began (`during`), and that this is only the one configured now
unless a change is unheard (`Stale`). The types of the window rest on a
count: every switch starts at most one thread, so the `CHOOSE` of `start_metrics` finds a free one, and
a build is awaited only by a gate that is on the screen and connected (`TypeInv`).

**Pipeline.** Five invariants, each inductive with those before it. `TypeInv` says where a job can stand
(`StagesWith`), that what it holds belongs to rows of `apps`, and that a plan names models only for
children. `ConfigInv`: a benchmark runs alone, so that what it puts back is what was there. `WorkInv`: the
connection has the table of its own model or none (`ConnInv`), the texts in hand are embedded by one
model, that of the process at work (`WorkSound`), and whatever is about to be saved finds its place empty
(`RoomInv`). `SettledInv`: each flag tells the truth (`Settled`), or the operation under way has still to
reset it (`Unsettled`): the pages of that application are being stored, or the table was dropped by a
`db.clear` that has `UPDATE apps` before it. For `db.clear` it has to be known of the plan that vectors
are deleted only after the flags of those who have them were reset (`SparedInv`, `DropsSafely`).
`CleanInv` carries the completeness of a full sync. Its plan is in order, for the current model here and
for others in children, and what vectorizes for the current model is still to come or done (`SyncOrder`:
`ChooseProcess` rewrites the plan under way, so the order is said of what is left of it, with `Rank` and
`Follows`). Each stage has done its part, has it in hand or is ahead (`SyncDone`, one conjunct per stage).
That is not enough, because a full sync skips what earlier operations did: it takes a stored table
of contents for complete (`LinksInv`: it is, as long as no request for one failed and no links were
cleared) and a flag for both indexes (`ListedInv`: what is flagged is in `chunks_fts`, beside
`SettledInv` for the vectors). `Harmless` says of a plan of `db.clear` that it takes neither away
unless the applications, and their marks with them, have gone first.
The proofs use `IndexAssumption`; among it, `Targets` are those of `CLEAR_TARGETS` in `methods.js:106`.

What the theorems assume of `Env` is what the code does not prevent. `RestoredIsKept` assumes no `busy`:
nobody switches the model while something else is in flight. `RepairsKept` and `VectorsGoHome` assume in
addition no `bare`, a benchmark of a model that has no vectors: its handle is that of the model before
(`db.service.js:484`). `VectorsKept` assumes further that no two applications share a name, that the
sidecar does not die (`crash`) and that every text can be embedded (`llm`: `pipeline.js:384` leaves a failed
chunk out and sets the flag all the same). TLC breaks `RepairsAreSound` with `busy` and `bare`, and
`VectorsOfTheModel` with each of the five. Killed children, cancellations, requests that fail, reloads and
switches between operations are all allowed.

`SyncIsComplete` assumes `Calm`: neither a failed table of contents (`toc`) nor a failed embedding
(`llm`), no `crash`, `kill`, `bare` or `busy`, no target `web`, `document_links` or `lancedb`, lists of
models that are empty or name every model, and applications with names of their own. Cancellations,
pages that cannot be fetched, reloads, switches and benchmarks between operations are allowed; the
constants of `index_calm` satisfy it. TLC breaks `SyncCompletes` with each part of it dropped (`crash`,
`kill` and a list without the current model show on an instance with one application already), so each
names something the code does not make good.

**Walkthrough.** The invariant is said of one panel at a time: `Sound(p)` links its calls to its
session, the requests of the sidecar to them (`LinksOf`), and counts what the session has spent and may
still spend (`CountsOf`, with `Spent` and `Allowed`); `OpenedOf` says where a session comes from, and as
long as the panel is calm (its user gave up nothing, nothing crashed) `CalmOf` says that at most one call
of it is under way and where. A step belongs to one panel and leaves every other one `Untouched`, a lemma
proved once for all actions. Silence after a cancellation rests on the links: a track grows only by a call
that is the current one of its panel. That a closed panel leaves nothing needs `LeftOf`, who will still
remove a file or a session that is there. `ListInOrder` and `NeverProposedAgain` are about what the
user has read, which the sidecar knows only through its own list of confirmed steps: `OrderedOf` and
`HeededOf` relate the two at every await of the call between them, and are proved as invariants of
their own beside `IInv`. The proofs use `SessionAssumption` (no instruction is `None`) and
`WindowAssumption`; nothing is assumed of `Alike`, of the guide or of the model.

**Benchmark.** `QueueInv` says that the first n cases have left the queue, for some n, and each of them
was answered or is running (`Taken`), and that every mode before the current one is complete.
`ReportInv` follows a chunk of text from the buffer over the chain of promises to the working file
(`PiecesInv`: they share no chunk, and each carries the tail that closes it), says that what is there is
exactly what happened (`ContentInv`), and what of it a snapshot and the finished file hold. `PanelInv`
says of each step of the plan that its entry is what became of its job, when a job runs and when nothing
does. Pauses, the limit and stops come at any step. The proofs use `BenchmarkAssumption` and
`PlanAssumption`: cases are a list without doubles, a plan is a list of pipeline steps and benchmarks in
any number and order. What a job came to is kept for every step of the plan (`jobs`, `reports`), so that
an entry is judged by its own job also when another of the same kind came after it; `bench` has such a
plan.

**Model-checked only.** Liveness (`DeadLockGoes`, `EveryCallEnds`, `BackendReturns`, `CancelEnds`,
`EverythingSettles`) is out of this prover's reach. What the fold of the fusion returns needs induction
over data: `FusionPicksChunks` and `FusionIsBest` are hypotheses of the theorems that use them. Every other
property of a passing run is stated by a theorem.

## 6. Where the code does something else than one would expect

Seen while modelling. Each is a step of a model; none is forbidden by a property, because what
the code does there is what it does.

* *Lock.* `process.exit` removes the lock while a spawned script goes on writing
  (`db.service.js:236`). A release that cannot remove the file only warns of it, and the comment there says
  that the lock goes stale by itself because its pid lives no more (`db.service.js:344-345`). The pid of a
  server does live: the file goes only by its mtime, after `LOCK_STALE_MS` (`lock_live` has it, with `rm`).
* *Lifecycle.* The comment on `shutdown()` says of SIGTERM that `server.js` has a handler for it that gives
  the lock back and closes the connections, and of SIGKILL that it is for a backend that hangs
  (`sidecar.rs:491-493`). A server that serves its own application never comes that far: `wss.close` waits
  for that application's connection or two seconds (`server.js:389-408`), and the kill comes after one,
  so the exit hook that removes the lock does not run. `SidecarLifecycle` has both timers in this
  order (`Closed`, `GivesUp`, `Kills`); no run states the comment, and what becomes of
  the lock is `DeadLockGoes`. The respawn does not look at the slot: a restart from the panel during the
  backoff leaves a process nobody holds (one of the `strays`, which `EveryServerIsHeld` allows).
* *Stores.* `db.init` keeps the handle of the old table when the new model has none
  (`db.service.js:484`). After `db.clear` of the guides `toc_fetched` stays set
  (`db.service.js:968`). `INSERT OR REPLACE` gives a document a new id, and chunks keep the old one:
  a question asked meanwhile loses the document (`StoresChange` of `RagEngine`).
* *Question.* After a switch to a model without a table, as a benchmark of such a model makes it
  (`test-rag.js:72`, 106), the old table is open: `hasVectorTable` finds it, `searchSimilar` searches it
  with a vector of the new model (`db.service.js:665-680`), and the statistics say `hybrid`, where
  `docs/contracts/rpc.md:95-102` promises that without an index of the current model the search is
  `fts`. `AnswerIsHonest` exempts a table that is not of the model the connection is for. `ERROR` is no
  marker of `engine.js`: an answer that could not be repaired recommends a program of that name, with
  every program of the context beside it. The descriptions of all programs share docId -1, so only the
  first of them is loaded. Two chunks of a program that begin alike have one score.
* *Benchmark.* `buildModes` multiplies neither `chatModel` nor `embedModel`, which the form
  offers. A cancellation between two modes lets as many cases start as run at a time, and one
  during the end of the last mode is acknowledged and the run ends with success. An `abort` of
  the report that fails skips the reset of the stage and the unsubscription. The saved settings
  are put back over those of a reload. A reload while a mode runs replaces its settings, and the rest of the
  mode is run and reported under others, against the intent at `test-rag.js:264-265`:
  `CasesUnderControl` exempts it.
* *Panel.* Leaving the developer panel forgets a full run that goes on in the sidecar; a stop before the
  first progress frame has no id to cancel, and neither has a search.
* *Gate.* By `ipc.js:49-52` the gate checks anew when the configuration changes. There are three ways it
  does not: a change that comes during a check is dropped (`useReadiness.js:131`), `config.reload` sends
  no notification, and a panel that loses the connection between the change and the answer of
  `config.get` does not come to its notification (`ConfigSection.jsx:60-66`). An open gate may then stay open
  for a model without vectors. `missed` remembers it, and the last conjunct of `VerdictIsOfItsCheck`
  leaves it out. A build and the choice to go on without
  vectors are forgotten with the view. Enter works behind the gate. A check that fails stays
  failed when the bridge came back while it read `bridgeConnected`.
* *Walkthrough.* `docs/contracts/walkthrough.md:256-260` and 336-340 say that manual mode asks neither the
  model nor the operating system. After a cancellation it may: a cancelled step, or the step after a
  cancelled switch, goes by the mode of the session as it finds it after its awaits, and the model
  checks the screen against the list (`walkthrough/index.js:1119`). `ManualIsBlind` is about users who cancel
  nothing; no run states the contract for all. A step the user gave up may pass the limit beside the next
  one (`LimitKept` counts it). `stuck` has no progress guard and may propose a confirmed step
  (`modules/walkthrough/index.js:1312`). A panel left during a call leaves its session and
  screenshots until the next start.
* *Logger.* The flush at exit calls `require` in an ES module and loses what is buffered
  (`logger.service.js:174`), while the CLI says that feedback is kept. Two appends of one walkthrough
  journal at once may write a batch twice.

## 7. Not modelled

Rendering, wording and prompts; platform calls (application lists, icons, screen capture);
statistics and migrations of the stores; raw HTML, the selectors of scraped pages and the cutting
of texts into chunks (text processing with no state between calls; TLA+ would repeat it
character by character); streaming inside the Ollama client; the token handshake and the
memory warning of the server; the query log and the walkthrough journals; the scoring and
statistics of a benchmark; geometry of highlights and of the window; data
scripts. `PROJECT.json` gives the reason for each under `components`.

What could come next: two windows of the walkthrough at once;
the composition of `SidecarLifecycle` with `PipelineLock`, for the lock a killed server leaves.
