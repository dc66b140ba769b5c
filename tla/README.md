# TLA+ models of Boki

This directory holds TLA+ specifications of the concurrent parts of Boki
(`src/`), the TLC configurations that check them, and `PROJECT.json`, which
maps every definition to the source lines it models. It also lists the runs,
the mutants, the findings and the hazards.

## The system and how its parts interact

| Part | Source | State | Operations |
|---|---|---|---|
| IO worker | `src/engine/io_worker.{h,cpp}` | `state_` (Created/Running/Stopping/Stopped), `eventfd_`, `pipe_to_server_fd_`, `connections_`, `connections_on_closing_`, `scheduled_functions_` | Start, ScheduleFunction, RunScheduledFunctions, OnNewConnection, OnConnectionClose (plus the write callback that returns the connection), StopInternal, EventLoopThreadMain, PickConnection |
| Gateway dispatcher / listening thread | `src/gateway/server.h` (the `.cpp` file is not in the repository) | accepted connections, the IO workers | hand a connection to a worker through its pipe, stop the workers, destroy returned connections, dispatch function calls |
| Storage node | `src/log/storage.cpp` | `current_view_`, `storage_collection_`, `future_requests_` | HandleReplicateRequest, HandleReadAtRequest, OnRecvNewMetaLogs, ProcessReadResults, ProcessReadFromDB, ProcessRequests, OnViewCreated, OnViewFinalized, SendShardProgressIfNeeded |
| LogStorage, FutureRequests | not under `src/`; described in spec.md 4.3 | records in memory, metalog position, shard progress, pending reads, parked requests | Store, ReadAt, ProvideMetaLog, PollReadResults, Finalize, GrabShardProgressForSending |
| KV backends | `src/log/db.cpp` | one column family (RocksDB) or DBM file (Tkrzw) per logspace, on disk, and the handles the process opened | the constructors, InstallLogSpace, Get, PutBatch, the Tkrzw destructor |
| Sequencer server | `src/sequencer/server.cpp` | `state_`, node connections | Start, ScheduleStop, the stop callback, message routing |
| Launcher gateway connection | `src/launcher/gateway_connection.cpp` | `state_` (Connecting/Handshake/Running/Closing/Closed), message buffer | Start, connect, handshake write and read, message read and write, ScheduleClose |
| Gateway main | `src/bin/gateway.cpp` | `server_ptr` | startup, the SIGINT handler |
| NodeJS binding | `worker/nodejs/worker_manager.cpp` | the four registered JavaScript callbacks, `inner_` (the worker library, not in the repository) | the setters, start, the forwards to the library, and the four callbacks the library calls |
| FIFO IPC, flags, function config | `src/ipc`, `src/common` | none that is shared | wrappers and parsing |

How the parts interact:

* The gateway's listening thread accepts a connection and writes its pointer
  into the chosen IO worker's pipe. The worker's pipe-read callback adopts the
  connection (OnNewConnection). When the connection closes, the worker writes
  the pointer back into the pipe, and the server destroys it.
* A foreign thread runs code on a worker through ScheduleFunction. The call
  pushes onto a mutex-guarded queue and writes the eventfd. The eventfd
  callback then runs the batch. ScheduleStop is itself such a closure, and it
  runs StopInternal.
* A storage node receives REPLICATE and READ_AT from engines and METALOGS from
  sequencers, on IO workers. View changes come from the ZooKeeper session
  thread.
  * A handler holds `core_mu_` to check the view and pick the logspace. It then
    releases `core_mu_` and locks the logspace.
  * Requests for a view the node has not seen yet are parked. OnViewCreated
    replays them through `SomeIOWorker()->ScheduleFunction`.
  * The node reports its shard progress to the sequencer, and the sequencer
    commits no further than what was reported.
  * A metalog confirms positions, and the newly confirmed records are written
    to the backend with PutBatch.
  * A read of a record that was evicted from memory goes to the backend.

The hard behaviours:

* Interleavings of the listening thread, foreign schedulers and the worker's
  event loop.
* The shutdown race with connections still in the pipe.
* The gap between the `core_mu_` section and the logspace-lock section of each
  storage handler.
* Replay of parked requests racing a further view change.
* Eviction racing a read, and finalization sealing a logspace that still
  holds pending reads.
* A storage node killed or aborted and restarted on the same data directory.

## Modules

### `IOWorker.tla`: the IO worker and the server side of the pipe

This module models `src/engine/io_worker.cpp`.

Variables:

* `state`, `eventfdOpen`, `pipeOpen`, `connections`, `onClosing`
  (`connections_on_closing_`) and `scheduled` are the worker's fields.
* `eventfdValid` is `eventfd_ >= 0`. StopInternal submits the Close, which
  makes `eventfdOpen` false. The Close's callback sets the fd to -1 later
  (`EventfdClosed`).
* `pickCached`, `forPick` and `rr` are `connections_for_pick_` and
  `connections_for_pick_rr_` for the one type `Typed`. `picked` is what
  PickConnection last returned, and `ByType` is `connections_by_type_`.
* `writing` holds the connections whose return write is in flight.
* `closeReq` holds the connections asked to close by StopInternal or
  OnNewConnection.
* The listening thread's side is `accepting`, `accepted`, `toWorker` (the
  pipe), `returned` and `destroyed`.
* Each foreign closure `f` in `Fns` goes through `fnState`:
  new → checked → queued → ran / ownerClosed, or new → dropped.

Actions:

* ScheduleFunction is split into `ScheduleCheck` (the state check at line 164)
  and `ScheduleEnqueue` (lines 172-178), because another thread may run
  between them. The inline path is `ScheduleInline`.
* `RunScheduledFunctions` is the eventfd completion (lines 202-212). It
  returns unless state_ is kRunning, and otherwise moves the whole queue into
  `batch` under the mutex. The mutex is released before any closure runs.
* `RunClosure` is one turn of the loop at lines 213-219. It runs the head of
  the batch if its owner is open, and skips it otherwise. The stop closure
  runs `StopInternal`. The loop does not look at state_, so the closures
  behind the stop closure still run. Foreign threads can push onto the
  emptied queue between two turns. While a batch is being run, no other
  loop callback runs (`LoopIdle` guards them).
* `OnConnectionClose` erases the connection and starts the write back (lines
  81-101).
* `WriteComplete` is the write callback (lines 102-117). It decrements the
  counter and closes the pipe when the worker is stopping and drained.
* `ExitLoop` is the end of EventLoopThreadMain.
* `PickConnection` is called by a handler on the loop. It builds the pick
  list in any order of the hash set (`SetToSeqs`), when there is none.
  OnNewConnection extends the list and OnConnectionClose drops it
  (`PickOnNew`, `PickOnClose`).

The listening thread's actions (`ServerAccept`, `ServerStop`, `ServerDestroy`)
come from spec.md, because the dispatcher's `.cpp` file is not in the
repository.

Properties:

* `SingleOwner`: every connection is in exactly one place: not yet accepted,
  in the pipe, owned by the worker, being returned, returned or destroyed.
* `ClosingCountExact`: `connections_on_closing_` equals the number of return
  writes in flight.
* `PipeClosedOnlyWhenDrained`: the pipe is closed only when the worker owns no
  connection and has none in flight.
* `StopCompletes` (liveness): a stop request ends with the worker Stopped.
* `QueuedBeforeStopIsHandled` (liveness): a closure queued before the batch
  holding the stop closure was taken is eventually run, or skipped because
  its owner closed. This holds even when it shares a batch with the stop
  closure and sits behind it. A closure pushed after that batch was taken is
  left out on purpose: the code loses it (see the hazards in PROJECT.json).
  The mutant stops the loop at the stop closure.
* `PickCacheExact`: the pick list, when it exists, holds exactly the open
  connections of the type. This is the DCHECK_EQ in PickConnection.
* `EnqueueSeesEventfd` (action property): a closure is pushed only while
  `eventfd_ >= 0`. This is the DCHECK in ScheduleFunction, and it is
  violated (finding 5).
* `NoLeakShutdown`: once the worker has stopped, every accepted connection has
  come back to the server.

Fairness is weak fairness on the event loop's callbacks (the batch take and
each turn of its loop included) and on the write
completions. io_uring delivers every completion, and the loop keeps running
while any fd is open. There is also weak fairness on the foreign enqueue,
because a thread past the state check does finish its push. There is none on
accepting or stopping: the environment may do neither.

### `Storage.tla`: storage node, LogStorage and KV backend

This module models `src/log/storage.cpp` and `src/log/db.cpp`, with LogStorage
modelled from spec.md 4.3. There is one sequencer per view, so a logspace is
named by its view id.

Variables:

* Storage: `currentView` (0 for `nullptr`), `logspaces`, `future` (parked
  requests per view) and `replay` (the ready requests handed to
  ProcessRequests).
* LogStorage: `live` (records in memory), `metalogPos`, `sealed`,
  `sentProgress` and `finalSeen`.
* Backend: `dbInstalled` and `db`.
* Peers: `msgs`, one record per message with its outcome; `zkView` and
  `zkFinalPos`; `reported` and `committed` on the sequencer; and `replicated`,
  the history of what engines sent.

Each handler is two steps:

1. The `core_mu_` section is `OnHold`, `IgnorePast`, `ReadFromDB` or
   `GrabLogSpace`.
2. The logspace-lock section is `Replicate`, `ReadAt` or `MetaLogs`. Each
   includes its PollReadResults and ProcessReadResults.

Other handlers, eviction and view changes interleave between the two steps.
`OnViewCreated`, `ProcessRequests`, `OnViewFinalized` and `SendShardProgress`
are the other callbacks.

ProcessRequests replays one parked request at a time. Each replayed request
goes through the handler from its start, as MessageHandler does.

The peers:

* Engines replicate each position once and may read any created view. Their
  shard mapping can be stale, so a READ_AT can reach a node without the
  logspace.
* The sequencer commits up to the reported progress.
* ZooKeeper finalizes a view at its last committed position before it creates
  the next one.

Properties:

* `ReadAnswerCorrect`: a READ_OK carries the payload replicated at that
  position of that view, and DATA_LOST is answered only for positions never
  committed in that view.
* `PendingReadsWait` (no lost wake-up): a READ_AT left pending in a logspace
  that is still open waits for a position the logspace has not confirmed.
  Pending reads are answered only when a METALOGS handler polls them. A
  pending read whose position is already confirmed would therefore never be
  answered. The mutant polls before applying the metalog.
  `OnViewFinalized` (storage.cpp:50-67) only calls `Finalize` and polls
  nothing. So a read that was pending when the logspace is sealed stays
  pending in the model (reached in 8 states). Whether it is ever answered
  depends on `LogStorage::Finalize`, which is not in the repository. The
  property therefore leaves sealed logspaces out, and PROJECT.json lists
  this as a hazard.
* `ParkedProcessedInItsView`: a parked request is never discarded as outdated.
  spec.md 8 and scenario 5 state this.
* `LogRefined`: `Storage` implements `AbstractLog` (see below).

Storage has no liveness property. Its `Spec` carries no fairness.

### `AbstractLog.tla`: what a storage node promises about its logspaces

This module is an abstract specification from spec.md 4.3 and 8. It has no
memory ring, backend, locks or messages. Its variables are:

* `recs`: the record at each position of each logspace.
* `conf`: the confirmed position.
* `closed`: the sealed logspaces.

Its actions are:

* `Store` fills an empty position of an unsealed logspace.
* `Confirm` advances the confirmed position over a stored prefix only.
* `Seal` confirms the final position and seals the logspace, in one step.

A record never changes or disappears once it is stored. This is spec.md's
"seqnum immutability".

`Storage` maps onto it as follows:

| AbstractLog | Storage |
|---|---|
| `recs[v][s]` | `live[v][s]` if it is in memory, otherwise `db[v][s]` |
| `conf` | `metalogPos` |
| `closed` | `sealed` |

The other Storage steps map as follows:

* `Replicate` is `Store`.
* `MetaLogs` is `Confirm`, with its PutBatch flush.
* `OnViewFinalized` is `Seal`.
* An eviction must be a stutter. It is one only if PutBatch flushed the record
  before the ring dropped it.

The mutant evicts a record that has not been flushed yet.
: the launcher's connection to the gateway

This module models `src/launcher/gateway_connection.cpp`. The launcher and the
gateway at the far end of the pipe are environment actions.

Variables:

* `state` is `state_`. `reading` says which read callback is installed, if
  any.
* `connectReq`, `hsWriteReq`, `writes` and `closeReq` are the libuv requests
  in flight. `writeBufs` counts buffers taken from `buffer_pool_` and not
  returned.
* `buf` is `message_buffer_`. `wire` is the pipe's bytes not yet read.
* The gateway's side is `gwHandshake`, `gwResponded` and `gwSent`. The
  launcher's side is `verdict`, `delivered` (what `OnRecvMessage` received)
  and `written`.

A message is two pieces, its header and its body. A read hands the callback
any non-empty prefix of the pipe (`Chunks`), so frames split across reads.

Actions:

* There is one action per callback: `Start`, `ConnectCallback`,
  `WriteHandshakeCallback`, `ReadHandshakeResponse`, `ReadMessage`,
  `WriteMessage`, `WriteMessageCallback` and `CloseCallback`.
* A failed request closes the connection through `ScheduleClose`, as the
  code's error branches do. A request cancelled by `uv_close` completes with
  an error.
* `ReadHandshakeResponse` includes `RecvHandshakeResponse`. It also includes
  the loop that hands the messages behind the response to the launcher.
* `ReadError` is the `nread < 0` branch of either read callback.

Properties:

* `DeliveredInOrder`: messages reach the launcher whole, once and in order.
* `BuffersReturnedOnClose`: a closed connection holds no pool buffer.
* `HandshakeResolves` (liveness): a started connection reaches kRunning or
  kClosed, unless the launcher rejected the response.
* `MessagesOnlyAfterAccept`: no message reaches the launcher unless it
  accepted the handshake. This is violated (finding 3).

Fairness: libuv completes every request and delivers the data in the pipe,
and the gateway answers a handshake it received. The launcher owes nothing,
and the gateway need not send messages.

### `SequencerServer.tla`: start and stop of the sequencer server

This module models `src/sequencer/server.cpp`.

Variables:

* `state` is `state_`. `flags` holds the fuzzer timers enabled on the command
  line.
* `open` and `closing` are the loop's handles: stop_event_, the node manager,
  Raft, the global-cut timer and the fuzzer timers.
* `asyncPending` is a pending `uv_async_send`. `mainPc` and `loopPc` are where
  the main thread and the event-loop thread are.

Actions:

* `Start` runs up to `event_loop_thread_.Start()`. `StartStoreRunning` is its
  last line, which runs after the loop thread is already live.
* `ScheduleStop` is the async send. The code sends unconditionally, so it
  can happen at any time, even after `stop_event_` is closed. `StopCallback`
  runs only while `stop_event_` is still open. It closes every handle, or
  does nothing if the state is already kStopping.
* `HandleClosed` is a close completion. `EventLoopExit` is the return of
  `uv_run` and the store of kStopped. `WaitForFinish` is the join.

The sequencer core and Raft are not modelled: their code is not under `src/`,
and here they only own a handle.

A second `ScheduleStop` after `stop_event_` is closed sends on a closed libuv
handle, which libuv does not allow. The model lets that call happen and checks
only that the stop still finishes. How often `ScheduleStop` is called is up to
the sequencer's `main`, which is not under `src/`. PROJECT.json lists this as a
hazard that no property covers.

Properties:

* `StopFinishes` (liveness): after a ScheduleStop, WaitForFinish returns. The
  stop callback must close every handle, the flag-enabled timers included.
* `JoinSeesStopped`: WaitForFinish's DCHECK holds. It is violated
  (finding 4).

Fairness: libuv runs pending callbacks and completes closes, and the main
thread finishes Start. Nobody owes a ScheduleStop.

### `GatewayMain.tla`: the gateway process and SIGINT

This module models `src/bin/gateway.cpp`. Its variables are:

* `mainPc`: where the main thread is.
* `serverPtr`: `server_ptr` is not null.
* `srv`: the server's state, reduced to running, stopping and stopped (spec.md 4.1).
* `signals`: the SIGINTs delivered.
* `killed`: the process was ended by SIGINT's default action.

The main thread's steps are `InstallHandler`, `StartServer`, `Publish` and
`WaitForFinish`. `Sigint` runs the default action before the handler is
installed, and `SignalHandlerToStopServer` after that.

Its property, `SigintEndsProcess`, says that every SIGINT ends the process.
It is violated (finding 6). The main thread and the server's stop are fair.
No SIGINT is owed, so the run delivers exactly one. The module has no passing
run: the program is a handful of sequential steps, and its one question is
the lost signal.

### `WorkerManager.tla`: the NodeJS binding of the worker library

This module models `worker/nodejs/worker_manager.cpp`. JavaScript and the
worker library are both environments. The library is not in the repository.
Once started, it may send data, turn forwarded gateway data into incoming
calls, and complete the outgoing calls it accepted, in any order. Its
variables are:

* `cbSet`: the callbacks whose Persistent is set.
* `started`: `inner_->Start()` was called. `start()` does not check for an
  earlier call, so `Start` may happen again. What the library does then is
  not in the repository.
* `libInput`: gateway data forwarded to the library and not yet acted on.
* `libIn` and `jsIn`: the incoming calls the library has outstanding, and
  the handles JavaScript holds for them.
* `libOut` and `jsOut`: the outgoing calls, on each side.
* `lost`: a library callback found no JavaScript function, threw and
  returned.

Handles are integers of `Width` bits. The code uses 32, and the runs use 8.
JavaScript gets an exact Number, and `onIncomingFuncCallComplete` reads it
back with `Int32Value` (ECMAScript ToInt32) and a cast to `uint32_t`. These
are `ToInt32`, `ToUint32` and `HandleFromJs`, modulo `2^Width`.

`CallsAgree` says that nothing is lost and that both sides agree on the
calls in flight. The constant `SetBeforeStart` says whether JavaScript
registers every callback before `start()`. The binding itself does not
require this. The handles 0, 127, 128 and 255 sit on both sides of the
int32 sign change. The mutants are a saturating int32 conversion of the
handle, and an outgoing handle returned as `int32_t`. The forwards of
watchdog data and IO errors change only the library's state, and the
getters change nothing, so they are not actions.

### `KVBackend.tla`: the KV backends across restarts

This module models `src/log/db.cpp` over the life of the storage process.
The state that survives is the disk: `disk` holds the rows and `onDisk` the
logspaces that have a column family or DBM file. The state of one process is
`proc` and `handles` (`column_families_` / `dbs_`). The backend is chosen in
`Init`, like `storage_backend` at startup.

Each operation has one definition per backend:

* `RocksDBOpen`: DB::Open lists no column families, so it fails once any
  exists.
* `RocksDBInstall`: CreateColumnFamily fails for an existing family.
* `RocksDBGet`: NotFound is nullopt, and any other error is fatal.
* `RocksDBPutBatch`: one atomic WriteBatch.
* `TkrzwOpen` and `TkrzwInstall`: OpenAdvanced creates a file or reopens it.
* `TkrzwGet`: every non-OK status, an I/O error included, is nullopt.
* `TkrzwPutBatch`: a failing SetMulti is fatal, after any part of the batch
  was written.

`Open`, `InstallLogSpace`, `Get` and `PutBatch` dispatch on the backend after
the shared check for a logspace not installed (`Installed`). `Fatal` is
`ROCKSDB_CHECK_OK` / `TKRZW_CHECK_OK`. `Shutdown` is the destructor. `Crash`
kills the process, and `Restart` is the supervisor of spec.md 6. The storage
node around the backend, which is not under `src/`, is an environment that
installs a logspace once per process and reads and writes any logspace.
`DiskFault` bounds the disk errors by `MaxFaults`.

`OpensItsOwnData` says that the backend aborts only when the disk fails,
never because it cannot open or re-create what it wrote itself. Only the
`kv_restart` run checks it, and the run finds it violated (finding 7).

## Runs

| Run | Config | Bounds | Result |
|---|---|---|---|
| ioworker_safety | MCIOWorker.cfg | 2 connections, both of the picked type, 2 foreign closures, 2 picks, 1 stop | pass, about 464k states, about 2.5 minutes |
| ioworker_enqueue | MCIOWorker_enqueue.cfg | same | violation of EnqueueSeesEventfd in 8 states: Start, a foreign thread passes the state test, ServerStop, the batch with the stop closure is taken, the stop closure runs StopInternal, the eventfd Close completes, and the push follows |
| ioworker_leak | MCIOWorker_leak.cfg | same | violation of NoLeakShutdown in 8 states: a connection is accepted, the stop closure is taken and run while the connection is still in the pipe, the pipe is closed and the worker stops |
| storage_views | MCStorage_views.cfg | 2 views (the node serves only the first), 3 messages | pass, about 204k states |
| storage_parked | MCStorage_parked.cfg | 3 views, all served, 3 messages | violation of ParkedProcessedInItsView in 11 states |
| gateway_safety | MCGatewayConnection.cfg | 3 gateway messages, 2 launcher writes | pass, 322 states |
| gateway_reject | MCGatewayConnection_reject.cfg | same | violation of MessagesOnlyAfterAccept in 8 states (7 steps): the first read takes part of the response, the gateway sends message 1, the second read takes the rest of the response and message 1 together, the launcher rejects, and message 1 is still delivered |
| gateway_sigint | MCGatewayMain_lost.cfg | 1 SIGINT | violation of SigintEndsProcess: the handler is installed, the SIGINT arrives before `server_ptr` is stored, and the process runs on |
| sequencer_lifecycle | MCSequencerServer.cfg | 2 ScheduleStop calls, every flag setting | pass, 1392 states |
| sequencer_race | MCSequencerServer_race.cfg | same | violation of JoinSeesStopped: ScheduleStop during Start, the loop stops and stores kStopped, then Start stores kRunning |
| worker_manager_calls | MCWorkerManager.cfg | 8-bit handles {0,127,128,255}, 2 gateway messages, 2 data sends, 2 outgoing calls, callbacks set before start | pass, 2040 states |
| kv_restart | MCKVBackend_restart.cfg | 2 logspaces, 2 keys, 2 values, 1 disk fault, 1 restart, either backend | violation of OpensItsOwnData in 6 states: RocksDB opens, a logspace is installed, the process crashes, the supervisor restarts it, and DB::Open aborts |

Why the bounds are enough:

* In the IO worker runs, two connections let one be in the pipe while the
  other is open or closing. Two closures let one be queued before the stop and
  one after it. Two picks reuse the list that the first pick built, after a
  connection may have opened or closed in between.
* In `storage_views`, three messages cover a replicate, a metalog and a read
  in one view, or the same across a view change, including parked and
  outdated requests. That covers a read answered from memory, from the
  backend after eviction, left pending until a metalog, and left pending
  when the logspace is sealed. Four messages over two views take about 15 minutes, so the
  run keeps three.

* In the gateway runs, three messages let one arrive with the response and
  one be split across reads after it. Two writes let one fail while another
  is in flight.
* In the sequencer runs, two stops cover a stop during Start and a second,
  coalesced or late, stop. The flags range over all four settings.

Message ids are symmetric: they are interchangeable model values with the same
initial state. `CHECK_DEADLOCK FALSE` is set in the storage runs because the
node really stops once the bounded peers have sent everything. It is also set
in the gateway runs: a closed connection, or one that waits on the launcher
after a rejection, really stops. In the sequencer runs, the loop idles while a
handle is open; a stuck state there is reported by the liveness property
instead.

Each property of a passing run has a mutant in `PROJECT.json`: a plausible bug
in the definition it names, which TLC finds. Examples:

* the closing counter not incremented;
* the pipe closed unconditionally;
* PutBatch dropping the batch's last key;
* shard progress reported one past the stored prefix;
* a read served from the current view's logspace.

## Findings

1. **Connection stranded at shutdown** (`io_worker.cpp:230`). StopInternal
   closes the pipe when `connections_` is empty and
   `connections_on_closing_` is 0. It ignores a connection pointer that is
   already in the pipe. That connection is never started and never returned.
2. **Replayed parked requests dropped** (`storage.cpp:42`, together with
   80-88). The replay is an IO-worker closure. If the view is finalized and the
   next one installed before the closure runs, IGNORE_IF_FROM_PAST_VIEW
   discards the replayed REPLICATE and METALOGS requests.

3. **Messages after a rejected handshake** (`gateway_connection.cpp:108`).
   The handshake read callback calls RecvHandshakeResponse. It then hands
   every whole message behind the response to `Launcher::OnRecvMessage`,
   even when the launcher rejected the response. RecvHandshakeResponse
   enters kRunning and reads messages only on acceptance.
4. **kStopped overwritten by kRunning** (`server.cpp:135`). Start stores
   kRunning after the loop thread is running. A ScheduleStop sent before
   that store lets the loop close everything, exit and store kStopped first.
   WaitForFinish's `DCHECK(state_ == kStopped)` then fails.

5. **Closure pushed after the eventfd closed** (`io_worker.cpp:177`).
   ScheduleFunction tests for kRunning before it takes the mutex. If the
   stop closure runs and the eventfd's Close completes in between, the
   closure is pushed anyway. `DCHECK(eventfd_ >= 0)` then fails, and the
   write goes to fd -1. The closure is never run, although its caller saw
   kRunning.

6. **SIGINT during startup is swallowed** (`gateway.cpp:35`). The handler
   is installed at line 24, but `server_ptr` is stored only after Start, at
   line 35. A SIGINT in between finds nullptr and does nothing, and the
   default action no longer applies. spec.md 6 says SIGINT triggers
   schedule_stop.

7. **A RocksDB node cannot restart** (`db.cpp:47`). The constructor
   opens the database with `DB::Open(options, path, &db)`, which lists no
   column families. InstallLogSpace creates one column family per
   logspace. Once one exists, RocksDB refuses to open the database without
   it and returns InvalidArgument, and `ROCKSDB_CHECK_OK` aborts. A node
   that was killed, shut down or aborted therefore aborts again on every
   start. If it got past Open, CreateColumnFamily for the same logspace
   would fail with "already exists" and abort too. spec.md 4.3 asks the
   backend to be crash-safe, and spec.md 6 relies on a supervisor
   restarting the node. The Tkrzw backend reopens its files and recovers.

## Plan

Modules, in the order they are written:

1. `IOWorker`: done.
2. `Storage` (with LogStorage and the KV backends): done.
3. `Gateway`: the dispatcher from spec.md, composed with `IOWorker` through
   the pipe handoff. Gateway main's signal handler is `GatewayMain`, done.
4. `GatewayConnection`: done.
5. `SequencerServer`: done.
6. `IOWorker` PickConnection: done.
7. Abstract specifications and refinement:
   * `AbstractLog`: done, implemented by `Storage`.

   Each is checked by `INSTANCE ... WITH` and stated as a PROPERTY.
8. `KVBackend`: `db.cpp` across crashes and restarts, done.

Not modelled, and why:

* FIFO IPC is plain I/O.
* Flags and function config are parsing.
* The worker library behind the NodeJS binding is not in the repository. The
  binding's forwards that only change the library's state are left out.
* The engine's log logic is not under `src/`.
* io_uring, the write-buffer pool and RocksDB/Tkrzw options are I/O detail.
* `engine_base.h` and `gateway/server.h` only declare classes. Their
  definitions, and the gateway dispatcher's `.cpp`, are not in the
  repository.
* Inside `Storage`, the Tkrzw backend of `db.cpp` behaves like the RocksDB
  one, and both share the `dbInstalled` state. Where the two differ (reopening
  after a restart, read errors, a failed batch), `KVBackend` models each on
  its own.
* In `worker_manager_calls`, JavaScript registers its callbacks before
  `start()` (`SetBeforeStart = TRUE`). With `SetBeforeStart = FALSE`, TLC
  finds CallsAgree violated: `start()` runs, then the library sends data
  before any callback is set, and the data is dropped. The binding accepts
  that order. The JavaScript that decides it is not in the repository, so no
  run keeps that check.
