# Verification of the RDC-Tool daemon and replay runtime

RDC-Tool answers one-shot command lines about RenderDoc captures. What must survive
between two commands (an open capture, a live replay, a remote connection) is held by a
background process per *context*. This directory models how that process comes and goes,
how it executes requests in a worker process that may die at any moment, when it ends, what is
recorded of the replays, shader replacements and remote connections its worker holds, and how the
files that outlive them are written: state files, stored artifacts, a capture on an Android device.
TLC model-checks the modules on small instances, and TLAPS proves for every instance all of their
safety properties: of daemon ownership, request execution, the daemon's lifecycle, the replays of a
context, the shader replacements, the remote connections, the state files, the artifact store and the
capture transfer.

## The system

    command line -> daemon/client.py --pipe--> daemon/server.py --stdin/stdout--> runtime_worker.py
                        |        |                |  (one per context)                |
                  start lock  owner lock     daemon/worker.py                    server_runtime.py
                  publication lock           (owner of the worker process)      context state file
                  daemon state file

Line numbers below are those of `src/rdc_tool/` unless a path says otherwise.

### Components

| Component | State it keeps | Operations | Correct means | Hard because |
|---|---|---|---|---|
| Daemon ownership: `daemon/ownership.py`, start, stop and cleanup in `daemon/client.py` | start lock, owner lock (held until the daemon process ends), publication lock, daemon state file | `ensure_daemon`, `stop_daemon`, `cleanup_stale_daemon_states`, `clear_daemon_state`, `save_daemon_state` | one owner per context; the state file names the daemon that serves; nobody waits for ever | independent processes, kills, a child that is only slow, a check and the action that relies on it |
| Request execution: `daemon/server.py`, `daemon/worker.py`, `runtime_worker.py` | exec lock, I/O lock, worker handle, response queue, worker process | `_run_exec`, `_request_worker`, `_ensure_worker`, `request`, `stop`, the worker loop and its parent watcher | a request is dispatched at most once and answered with its own result; an unknown outcome leaves a quarantine | lost and late answers, a worker that dies between two questions, a stop beside a request |
| Daemon lifecycle: `daemon/server.py`, `daemon/client.py` | attached clients and leases, request count, activity stamps, published copy of it | attach, heartbeat, detach, claim, exec, clear, the lifecycle watcher, the cleanup's decision | an unused daemon ends; one in use does not | publications out of order, dead clients, stale files, decisions acted on later |
| Replays of a context: `server_runtime.py`, `core/session_manager.py`, `runtime_state.py` | native sessions, registry, capture handles, context state file | open and close of captures and replays, recovery on use and by scan, quarantine, clear | memory and file agree, one replay per capture, the limit, a quarantine that stays | the worker can be lost at every await; a scan works on a copy |
| Remote handles: `server_runtime.py`, `remote_bootstrap.py`, `android_*.py` | live handles, leases of sessions, forwards, helper pids | connect, replay, disconnect, recover, clear | no connection is released while a session uses it; identity is kept until release succeeds | failures of release, restarts, other owners' helpers |
| Capture transfer to Android: `core/session_manager.py` | shell directory and cache file on the device, ownership of the file by the native server | `_copy_android_capture_with_adb`, open and close of the remote replay | a replay opens the whole capture; nothing is left that no error names | the writer on the device outlives the adb client and the worker |
| Atomic state files: `io_utils.py`, `runtime_worker_state.py`, `context_snapshot.py` | file, one temporary file per write | atomic replace, removal, read | a reader sees the old or the new content | crashes between write and replace, files that readers have open |
| Shader patches: `core/patch_engine.py`, handlers of `server_runtime.py` | the controller, the engine's records, the runtime's metadata, the session record | edit, revert, list, recovery, close, clear | what is in force can be reverted; what was reverted stays so; what was applied is recovered | four copies, native calls that raise between them, worker losses |
| Artifacts: `utils/artifact_store.py`, `core/artifact_publisher.py` | files by digest and a shared temporary file | store, clean up | what is stored under a digest is its content | workers of all contexts write, rename and remove one temporary file |
| Preview window: `preview_window.py` | binding of a context to a window | open, sync, close, mark stale | a preview shows the selected session or says it is stale | windows die on their own |
| Timeout policy and progress: `timeout_policy.py`, `progress.py` | none | derived timeouts | a caller waits longer than whom it calls | separate derivations |
| Scheduler: `utils/scheduler.py` | queued and running tasks | submit, cancel | not used by the program | |
| Command line, catalogue, analysis, discovery and packaging | none beyond the above | parsing, routing, reading native data, start-up checks | | sequential |

Interactions: a client reads the daemon state file, connects to the pipe it names and sends one
request; the daemon runs one thread per connection, one request at a time under its exec lock, and
publishes its own state after every change; the worker reports its progress to the daemon and
writes the context state file itself; the daemon writes that file too, when it quarantines the
sessions of a lost worker; cleanups and the lifecycle watcher read both files to decide whether a
daemon may end.

The hazards of these components, each at its line, are in `PROJECT.json`, with the properties that
cover them.

## The modules

| Module | Models |
|---|---|
| `OwnerLease` | The abstract promise of ownership: a lease with a receipt |
| `DaemonOwnership` | The locks, state file and processes of start, stop and cleanup, which implement `OwnerLease` |
| `DaemonOwnershipProofs` | Proofs about `DaemonOwnership` |
| `RemoteCall` | The abstract promise of a request: a call, at most once, with nothing after its error |
| `WorkerRequests` | A daemon's requests, its worker processes and a stop, which implement `RemoteCall` |
| `WorkerRequestsProofs` | Proofs about `WorkerRequests` |
| `DaemonLifecycle` | Clients, leases, the request count, publication, the watcher, cleanup and clear |
| `DaemonLifecycleProofs` | Proofs about `DaemonLifecycle` |
| `ReplayContext` | The replays of a context in memory and in the context state file, and the selected session |
| `ReplayContextProofs` | Proofs about `ReplayContext` |
| `ShaderReplacements` | The shader replacements of the sessions of a worker, in the four places that know them |
| `ShaderReplacementsProofs` | Proofs about `ShaderReplacements` |
| `RemoteHandles` | The remote connections of a context, their leases, forwards and recorded identity |
| `RemoteHandlesProofs` | Proofs about `RemoteHandles` |
| `CaptureTransfer` | The transfer of a capture to a device, with the writers that earlier attempts left there |
| `CaptureTransferProofs` | Proofs about `CaptureTransfer` |
| `FileRegister` | The abstract promise of a state file: a register |
| `AtomicFile` | Temporary files, `os.replace`, readers and killed writers, which implement `FileRegister` |
| `ArtifactStore` | The artifact store for one digest, with the temporary file all workers share |
| `FileProofs` | Proofs about `AtomicFile` and `ArtifactStore` |
| `MC*` | The instances for TLC (compositions and symmetry sets) and their `.cfg` files |

### DaemonOwnership

A client is a process that runs one of `ensure_daemon`, `stop_daemon` and
`cleanup_stale_daemon_states`, whose labels (`pc`) are the points between two accesses to shared
state. A probe of the owner lock (`owner_is_busy`) is two steps, because it takes the lock and gives
it back: it can make a starting daemon fail. The daemon acquires, publishes, serves, spawns a
worker, publishes it, stops and exits; every process can die at any moment, and a start that gives
up on a slow child may fail to kill it. `fileOwner` and `fileWorker` are the parts of the state file
that decide anything: identity (pid, pipe and token always differ together) and worker pid. A
publication that changes neither is a stutter.
Not modelled: files that cannot be read or parsed, and the removal of session and worker files.

### WorkerRequests

Threads of one daemon execute requests (`_run_exec`) and a stop (`_stop`, from a shutdown request, a
signal or the watcher). `Gens` are the worker processes one after another; each has a stdin, a
response queue read by the reader thread that filled it (`_pump_stdout`), and a reader that puts
its end-of-stream into whatever queue the object then holds. `session` is what is persisted of the
replay: which worker opened it and whether it is quarantined. A worker may crash in every state, be
slow past any timeout and, if `KillMayFail`, survive a kill until its parent watcher ends it.
Two things a worker does hold a thread of the daemon up: it does not read its stdin, so that a write to the
full pipe blocks with `_io_lock` held (`worker.py` 185-188; `WriteMayBlock`), and it survives its kill, so that
closing its stdout waits for the reader thread (247-248; `CloseBlocks`). A write is one step, which may
never come while the worker runs; a close that waits is a step that is not enabled.
Bound: `MaxGen` worker processes.
`Call` maps it to `RemoteCall`: the call in progress is the holder of `_exec_lock`, its fate what `_run_exec`
is about to answer, and it ran once a worker dispatched it. The abstract call may run after its
error in two cases only, and TLC finds both when either is left out: a worker outlives its kill, or a stop
that began before the worker was replaced forgot the replacement and the daemon is about to exit.

### DaemonLifecycle

`mem` is the daemon's state as far as decisions read it, `disk` the published file, and `copy[t]` the
payload thread `t` has copied under the state lock and not yet written. Every handler is one
change under the state lock followed by its publications, in the order of the code. A publication may raise
(`PublishFails`): the publication lock is busy, or the replace fails because somebody reads the file. Where
that leads depends on what the thread was doing (`Raised`): a progress report is dropped, a handler answers an
error, the watcher does not stop in this round, and a request that has counted itself but is not yet inside
its `try` (`server.py` 477 and 519) ends without giving the count back (`"failed"`; `Leaked`). The finally
clause of a clear can lose the count too, when its read of the context state raises (535-536). Time is a set of
overdue marks on the stamps (the heartbeat of each client, and the activity against the lease and
against the idle timeout); an action clears the marks of the stamps it renews, and `TimePasses`
sets them. Leases and idle timeout are 120 s and 900 s by default, a publication takes milliseconds
and the watcher attempts one every second, so the marks are set only when no thread has a publication to
write and the watcher is not about to stop; the file may by then show an older state than the memory. `held` is what the worker holds, `recorded` what the context files say of it.
What an operation does to the two is atomic here; its steps are the subject of `ReplayContext`.
The watcher's stop may fail to confirm the worker's exit, in which case the daemon goes on without a
watcher, as in the code (`_stop` returns, the loop breaks).
Not modelled: an exception inside the watcher (logged, tried again a second later), a cleanup
of a dead daemon (in `DaemonOwnership`).

### ReplayContext

One worker executes one operation at a time; each operation is split where it awaits a native call,
and the worker can be lost at every such point. `manager`, `replays` and `handles` are in memory
and lost with it; `caps` and `rec` are the context state file. A recovery scan works on `snap`, a
copy it stores at its end, while the recovery of each session stores the same table. `answer` is the
last result, kept until the next operation so that invariants can speak of it. `selected` is the
`current_session_id` of the file: every change of the records chooses again as
`_select_session_from_state` does, and a scan ends with the selection of its own copy.
Not modelled: remote replays, the frame and event of a session, the limits on captures and on memory;
`rd.session.resume` is a scan followed by an ordinary use.

### ShaderReplacements

A replacement is in force in the native controller (`inForce`), known to the patch engine
(`patches`, in the order of its dictionary), described in the runtime's metadata (`meta`) and listed
in the session record of the state file (`kept`), from which a recovery applies it again. An edit, a
revert, a recovery and a close are split where they pass from one of the four to the next, and the
worker may be lost there. Native calls may raise at each place where the engine calls them
(`ApplyLeft`, `RevertRaises`): with `NativeMayRaise` FALSE they only refuse. `untracked`, `promised`
and `reverted` are history: which replacements the engine itself gave up, which edits were answered
"applied", which reverts were answered with success.
The list comprehensions and the dictionary of the engine are `Filter`, a recursive function that keeps
the elements of a set and their order.
Not modelled: the rewriting of the source (data), the live state of a session (in `ReplayContext`; here
a session has a controller or not), the replacement of a full source (`patch_engine.py` 1021-1338), which has
the control of the patch beside it (669-993) and is not translated a second time, and `experiment_runner.py` and `verifiers.py`, which the program
does not call.

### RemoteHandles

A connection over adb is named by the forward it made on the device (`device` is the set of forwards
that exist). `link` are the `RemoteHandle` objects, `remotes` and `owner` the two registries that
point at them (`_runtime.remotes`, `_runtime.session_owned_remotes`), `uses` the connection of
each live replay; all of these are lost with the worker. `snap` and `rec` are on file: the one remote
the context snapshot names and what the record of every remote session says, both with the
endpoint (`at`) and the bootstrap description (`boot`), which recovery compares before it touches a
forward. Connecting, opening, closing, recovering and clearing are split where the code awaits
a native call or adb; a disconnection fails in either half (connection, forward) on its own.
A recovery or rehydration retires the recorded forward before it makes another. A record is `deferred` only
by the scan of a worker that started without quarantine, which is finding 2; every other worker start
quarantines the records. A session that gives its lease back writes its own handle's endpoint beside
the description of the handle registered by then (`LiveAgain`, `server_runtime.py` 2571-2600); the next read of
the snapshot describes the registered handle alone (`Synced`).
Not modelled: the helper process on the device (it follows its forward), the install state machine,
remotes by host and port, a handle that only sessions own (`session_owned`, reached when a
failed recovery removed a shared handle), local captures (in `ReplayContext`), and a new forward that
is given the port of one that some record still names.

### CaptureTransfer

`stage` is where `_copy_android_capture_with_adb` is, `nonce` the attempt in progress. The writer of an
attempt is a process of its own (`writer`): adb may be killed for its timeout, or the worker lost,
while the writer has yet to create the file, writes it, or has ended. Every adb command may
have been executed and its answer lost, so that each step of the clean-up has the outcomes "done",
"done and reported as failed" and "not done". Contents are "part" or "whole": only the whole file has
the digest in its name.
Not modelled: the copy through the native server, which is one native call, and the removal of files by
other programs on the device.

### FileRegister, AtomicFile

`disk` maps the file and one temporary path per writer to a text and how much of it is there;
`step[w]` is where `atomic_write_text` is. A replacement fails while a reader has the file open
(the file system is that of Windows, the program's platform) and is tried `Attempted` times. A writer
may be killed anywhere and leaves its temporary file. No lock is taken, because the daemon state and the
worker state are written and removed by processes without a common one. `ImplementsRegister` maps a
writer's steps from its first to the replace to one pending write; a killed writer that has not
replaced the file has not written.
Not modelled: the swap of a directory through a backup, and how payloads are normalised.

### ArtifactStore

`temp` is the temporary file named by the digest, `blob` the stored file; `offset[w]` is that of a
worker's open handle, which keeps its place when another worker truncates the file. What protects
the file is that Windows neither renames nor removes a file somebody has open: `MayRename` and
`RemoveTemp` have that condition. Not modelled: retrieval, which only reads, and the publisher, which
copies to a directory of the caller.

### Compositions

Machines that share no variable are checked in one run: in `MCReplayContext` the replays and the
shader replacements, in `MCRemoteHandles` the remote handles, the transfer, the state files and the
artifact store, in `MCDaemonLive` the ownership protocol and one request with a stop. There each part brings its
fairness; `WorkerRequests` is an INSTANCE, because the two modules share names. The variable `part` says whose steps a behaviour takes; the others stay at their
initial state. The state spaces add up instead of multiplying, which is sound because no action
of one reads or writes a variable of another, and every property speaks of one machine only. The sets of
the parts share their model values, so that one symmetry serves all of them; each part is symmetric
in its own sets.

## The runs

| Run | Instance | Result |
|---|---|---|
| `daemon_live` | ownership: 2 clients (one also stops, one also cleans), 2 daemons, 1 worker; beside it 1 request, a stop, 2 workers, kills may fail; with the fairness of each | `OneOwner`, `ServingIsPublished`, `ImplementsLease`, `StartLockReleased`; `RequestsEnd`, `StopEnds` |
| `stop_worker` | 1 starter, 1 stopper | `StopConfirmsRecordedWorker` is violated (finding 1) |
| `worker` | 2 requests, a stop, 2 workers | dispatch at most once, quarantine after an error, one worker; `ImplementsCall` |
| `worker_quarantine` | as `worker` | `QuarantineBeforeDispatch` is violated (finding 2) |
| `replay` | 3 captures, 3 sessions, limit 2; 2 sessions with 1 shader and 2 replacement ids, native calls may raise | memory and file agree, one replay per capture, the limit, true answers, lasting quarantine, a selection that is recorded; replacements in force are revertible, reverted ones do not come back, applied ones stay recorded |
| `replay_record` | 2 captures | `RecordIsTrue` is violated (finding 3) |
| `replay_close` | 2 captures | `RecordedCanBeClosed` is violated (finding 4) |
| `lifecycle` | 1 client, 1 exec or clear, watcher, a cleanup once the watcher is over, `FairSpec` | `CountIsInFlightOrLeaked`, `WatcherSparesRequests`, `AbandonedEnds`, `FileCatchesUp` |
| `lifecycle_clear` | no client, 2 requests | `IdleSparesResources` is violated (finding 5) |
| `remote` | 2 remotes, 2 sessions, 3 forwards; 3 attempts of a transfer; 2 writers and 2 readers of a file, 2 attempts of a replace; 3 storers of 2 chunks | leases agree, live replays keep their connection, handles are forgotten only when released; an opened capture is whole, no live file is removed, leftovers are named; the register; stored content is whole |
| `remote_clear` | 2 remotes, 1 session, 3 forwards | `ClearForgetsReleased` is violated (finding 7) |
| `remote_identity` | 1 remote, 2 sessions, 3 forwards | `RecordedIdentityIsTrue` is violated (finding 6) |

Why the bounds are enough to be interesting. Two daemons are an abandoned child or a dead owner and
its successor; two clients are a starter and whoever races it, in each pair of roles. Two workers are
a worker and its replacement; two requests give one that waits for the other's I/O lock and reads
its late answer. Three captures against a limit of two reach the limit in `open_replay` and in a
scan. One client and one request already give three publications in flight (client, request,
watcher), which overtake each other in every order; that the exec lock keeps the count right for
more requests is proved for every number of them. With publications that fail, a cleanup beside a live
watcher does not fit into the time of a run; the constraint `CleanupLast` lets the cleanup decide once the watcher
is over, where it is the only one left to end the daemon. The safety properties are proved for every interleaving,
and `lifecycle_clear` has the cleanup without the constraint. Two sessions on two remotes share a connection or
have one each, and three forwards are those of both and the fresh one of a reconnection. Two replacement ids and two
sessions give the same id in two sessions, a second edit stacked on a first one, and an edit that takes
over the id of another session; one shader is enough, because replacements of different shaders
meet only in the id. Three attempts of a transfer are two whose writers are still on the device and
one that reuses, waits or cleans up. Two writers and two readers make each refuse the other's
replace or removal, and two attempts reach the last retry. Three storers are one that renames,
one that truncates and one that removes; two chunks make a partial file. `replay` has about 2.25
million distinct states and `remote` about 200 thousand. Deadlock is not looked for where the program may
rightly stop: clients and requests are finite and processes may die for good; `replay` and the
`remote` runs look for it.

Fairness. `DaemonOwnership` assumes only that a client process that is not interrupted takes its
next step: every wait in `client.py` has a deadline. Daemons and workers owe nothing there.
`WorkerRequests` assumes that the daemon's threads run and that a worker's parent watcher polls. The daemon's
waits for answers, for a ready worker and for exits have deadlines; its writes to a running worker have none, and
no end is assumed of them. `RequestsEnd` and `StopEnds` are therefore stated under the premise
`[]<>~HeldUp`: no running worker holds a thread of the daemon up for good, by a pipe it does not
read or by an output it keeps open after its kill. Both are violated without the premise.
`DaemonLifecycle` assumes that a publication ends, well or badly, that the status of a client
follows, that the watcher wakes up, with strong fairness that the watcher, which attempts a publication every
second, now and then succeeds (what makes one fail, a process that holds the publication lock or
reads the file, does not last), and, with strong fairness, that the timeouts run out: the guard of
`TimePasses` is open again and again between two ticks of the watcher, never for good, and real time
does not wait for it. Nothing is assumed of clients, owners, operations or cleanups.

`AbandonedEnds` stops short where the code does: a daemon whose stop could not confirm its
worker's exit has no watcher any more, and ends only by an explicit stop or a cleanup; and a daemon in which a
request lost its count is never idle again, so that only the loss of its owner ends it by itself
(`Leaked = {}` in the half that speaks of idleness).

## What is proved

All statements are for arbitrary constants, under the assumptions the modules name:
`RolesAssumption` and `DistinctAssumption` (clients, daemons, workers and `None` are different, the
roles are sets of clients), `ThreadsAssumption` (the threads of a daemon and the cleaner are
different), `StopperAssumption` (the thread that stops the
daemon is no request), `LimitAssumption` (the limit on sessions is positive), `NoneAssumption` (`None` is no
capture, remote, session or forward), `NilAssumption` (`Nil` and the id of a replacement the engine lost
track of are no ids), `WriterAssumption` (a temporary file's name is not the final one) and
`SizeAssumption` (a blob is not empty).

`DaemonOwnershipProofs`:

- `TypeCorrect`: `Spec => []TypeOK`.
- `MutualExclusion`: `Spec => []OneOwner`. `LockInv` says that a daemon between its acquisition and
  its death, and no other, is what the owner lock names; two owners would be one lock with two values.
- `ServingDaemonIsPublished`: `Spec => []ServingIsPublished`. This is not inductive: the step that
  could break it is the unlink of a client that compared the file a while ago. `PubInv`, `CheckInv` and
  `UnlinkInv` say that such a client has held the publication lock ever since, that the file
  still names what it compared, and that it has seen that daemon's lock free, hence the daemon
  dead; `FileInv` says that a file names a serving daemon or a dead one, which is why a
  new owner never overwrites a live one.
- `OwnershipImplementsLease`: `Spec => ImplementsLease`, the refinement of `OwnerLease` in which the
  holder is the daemon that the owner lock names, the receipt is the state file, and the exited are the
  dead; every step is a step of the lease or a stutter.

`WorkerRequestsProofs`, all the safety properties of the run `worker`:

- `TypeCorrect`, `DispatchedAtMostOnce` and `OkOnlyIfDispatched` (`Spec => []OkMeansApplied`). Nothing remembers which request a line
  belongs to but the line; the invariant follows the lines. `StdinInv` says that a request has at
  most one line in all the pipes and, while it has one there, was not dispatched and is executed by no
  worker; `JobInv` says the same of the lines that workers execute, and `AppliedInv` that
  a request before its write was never dispatched. `WaitInv` says that a line with the id a request
  waits for is the line of that request, because ids are never given twice; hence `MessageInv`, that no
  message in any pipe or in the queue claims the success of a waiting request that was not dispatched,
  whichever worker wrote it and however late it is read.
- `OneWorkerAtATime` and `ErrorQuarantines`, for `~KillMayFail` (the wait after a kill ends with the
  process); the three theorems above need no such assumption. `KnownInv` says that the worker that
  runs is the one the daemon knows. It is kept when a stop drops its handle because `DropInv` says that
  the worker has ended then, and `PathInv` that nobody replaced the handle meanwhile: the request
  that stops its worker holds the exec lock. The stop of the daemon may interleave with it, hence the
  exception of a daemon about to exit. `ErrorInv` adds that between the failure and the answer no
  worker is there to change the session.
- `RequestsImplementCall` (`Spec => ImplementsCall`), the refinement of `RemoteCall`, with `KillMayFail` or
  without. `FateInv` ties what the client is told to the place of its thread; `SettledInv` says that a request
  whose client was told of an error has no line in any pipe or worker. It is kept because
  the error is answered before the request was written, or when no worker runs (`KnownInv`,
  `PathInv`) and hence no line is left (`EmptyInv`).

`DaemonLifecycleProofs`:

- `TypeCorrect`, `CountIsTrue` (`Spec => []CountIsInFlightOrLeaked`) and `WatcherSpares`
  (`Spec => WatcherSparesRequests`). The inductive invariant is the type, that at most one request is
  inside the exec lock (`LockInv`), and that the count is the number of requests between their begin and
  their finally clause, at most one, and of those that ended without giving it back (`CountInv`). A stop for
  idleness while the owner runs can then only follow a count of zero, hence no request in flight.

`ReplayContextProofs`, all the properties of `ReplayContext`:

- `TypeCorrect`, `NativeAlwaysRecorded`, `SelectedAlwaysRecorded`, `AnswersAreTrue` and
  `QuarantineLasts`, from one inductive invariant. `LabelInv` says what an operation relies on between
  two of its steps: its session has (or has not) a record and a native replay. `ScanInv` is the heart:
  a scan works on a copy of the records and stores the copy, and a recovery may have changed a record
  since; the copy names the same sessions and captures, and as to quarantine it is never older. It may
  be older as to everything else, which is finding 3. `ReadyInv` says that a live replay is recorded as
  ready or quarantined, unless the operation in progress has just made it.
- `OneReplayAlways`: no two records are of one capture (`UniqueInv`), and a native replay is of the
  capture its record names.
- `LimitAlways`: the limit is asked for when an open begins and the record is made steps later.
  `LimitInv` says that there is room for one more while an open is in progress; no other action makes
  a record.

`RemoteHandlesProofs`, all the properties of `RemoteHandles` that the run `remote` checks:

- `TypeCorrect` and `LeasesAlwaysAgree` (`Spec => []LeasesAgree`). The lease is made in the step that
  ends an open or a recovery, after awaits in which the operation remembers a connection and a
  session. `LabelInv` says what is still true of them then (the object has its name, the session no
  lease), `Names` that a registered handle is registered under its own name, `OwnersUse` that a lease
  belongs to a live replay, and `NoSessionLeft` that a context being cleared, or without a worker, has
  none.
- `SessionsAlwaysKeepConnection` and `HandlesAlwaysLeaveReleased`, the two action properties. The first
  rests on the agreement of leases: a live replay is among the lessees that disconnect asks for.
- `ClearReleasesSnapshot`, from `HandleInv`: when a clear discards the context, no handle is in memory and the
  forward the snapshot names is gone. It is what the code achieves, and less than the documentation says: the
  forwards in the records of deferred sessions may exist (finding 7).

`ShaderReplacementsProofs`, all the properties of `ShaderReplacements`:

- The four places are sequences, which the code filters and appends to. `FilterExists` and the lemmas
  after it show by induction what `Filter` computes: the elements of the sequence that are in the set, each
  id still once. From then on each place is the set of ids it holds (`Held`, `Listed`, `Recorded`,
  `ToApply`).
- `ShadersAreInOrder` (`ShaderSpec => []ShaderInv`): the inductive invariant. `JobInv` says what the
  operation in progress has established, `PromiseInv` that an edit answered "applied" is in the engine
  and in the metadata of a held session; of a session being recovered it is in the engine or still to be applied.
  That is why a listing, which overwrites the metadata from the engine, and a store,
  which overwrites the record from the metadata, lose none. `RecordInv` and `RevertInv` relate history to the
  places, and `ForceInv` what is in force to the engine.
- `ShaderTypes` (`[]ShaderTypeOK`), `ForceIsRevertible` (`[]InForceIsRevertible`), `RevertedAreGone`
  (`[]RevertedStaysReverted`) and `AppliedAreRecorded` (`[]AppliedStaysRecorded`) follow from it.

`FileProofs`, of `AtomicFile`:

- `FileIsWhole` (`FileSpec => []FileInv`), an invariant that is inductive as it stands: a writer's
  temporary file holds what its step says, because nobody else has its name; only a whole one
  replaces the file.
- `FileImplementsRegister` (`FileSpec => ImplementsRegister`): every step is a step of the register or a
  stutter. The last step of a failing write, and a kill, is the register's `Fail`.

`FileProofs`, of `ArtifactStore`:

- `StoredIsWhole` (`StoreSpec => []BlobIsWhole`). The temporary file is shared, so no worker can say
  that it holds what it wrote; `TempInv` says that it is whole or that the worker which truncated it
  last still has it open, with everything that worker wrote in it. A rename needs that nobody
  has it open, hence the file is whole.

`CaptureTransferProofs`, all the properties of the transfer:

- `TypeCorrect`, `OpenedStaysWhole`, `LeftoversAlwaysNamed` and `NeverRemovesLiveFile`. `StageInv` says
  what the attempt in progress may rely on: before its launch it has no writer, and with the receipt
  of its writer the file in the cache is its own until the attempt ends, whatever the writers of
  earlier attempts do. That rests on `CreatorInv` (a writer that is still to open the file has created
  none) and on `set -C`, by which a late writer cannot take a file over. `AnnouncedInv` says that
  a writer still to open was announced when its attempt was answered, so that the file it
  creates afterwards is one the error named.

Only model-checked: the liveness properties (`StartLockReleased`, `RequestsEnd`, `StopEnds`,
`AbandonedEnds`, `FileCatchesUp`), because the prover does not reason about fairness and ENABLED.
The library's induction theorems take an operator as a parameter, which the provers cannot
instantiate; the induction about `Filter` is over a set of numbers instead (`NatSetInduction`, from the
well-foundedness of `<`). No RECURSIVE operator is declared in any module.

## Findings

1. `stop_daemon` looks at the worker that was recorded before it asked the daemon to shut down
   (`daemon/client.py` 1099): a worker recorded in between is not confirmed, against
   `docs/session-model.md` 9.
2. `_ensure_worker` and `ensure_started` each ask whether the worker runs (`daemon/server.py` 351): a
   worker that dies between the two is replaced without the quarantine of `docs/session-model.md` 114.
3. A recovery scan stores its old copy over the degraded record of a failed recovery
   (`server_runtime.py` 6066), against `tests/test_runtime_recovery_and_discovery.py` 698.
4. A quarantined replay cannot be closed as its error demands: the replaced worker's session manager
   does not know it (`server_runtime.py` 7576).
5. `clear_context` of the client removes the context files after the daemon has answered
   (`daemon/client.py` 1068-1070): a capture opened in between is held and no longer recorded, and
   idleness then stops its daemon, against `docs/session-model.md` 114.
6. A recovery that uses a reconnected handle again overwrites its bootstrap description with the
   session's recorded one (`server_runtime.py` 5716). Snapshot and record then name the endpoint of one
   connection with the forward of another, against `docs/session-model.md` 98, and the next
   restart's recovery and clear refuse them as inconsistent.
7. `clear_context` lets deferred remote sessions pass and releases, besides the handles in memory, the one
   remote of the snapshot (`server_runtime.py` 7050): a session recorded on another remote loses its record, the
   only one of a forward that still exists, against `docs/session-model.md` 98 and the comment at
   `server_runtime.py` 7010. The restart that defers the session is that of finding 2.

Each is a run whose property TLC refutes; `PROJECT.json` quotes the lines.

The lifecycle model also contains a race no property forbids: the watcher decides under the state
lock and stops after it, so a request that begins between the two is cut off with the daemon.
`SessionsKeepConnection` names the two ways in which a live replay does lose its connection: a
recovery that fails disconnects the handle it was to share with other sessions, and a
reconnection retires the recorded forward for whoever still uses it. `HandlesLeaveReleased` speaks of handles
that are forgotten; a successful recovery that puts a new handle in the place of one no longer connected (5838)
forgets none, and leaves the old one's forward to whoever still leases it. `rd.core.shutdown` swallows what fails.
`AnswerIsTrue` speaks of sessions used and opened: an `open_replay` that finds its capture already open
answers `reused`, also for a quarantined session whose worker still lives (`server_runtime.py` 7362-7372).
A request whose first publication fails leaves the count of active requests one too high for the life of the
daemon (`server.py` 477, 519): it never stops for idleness again.

Other behaviours the models contain and no line of the repository rules out:

- `list_replacements` may list what is no longer in force: after a stacked edit was rolled back to the
  captured shader, and the engine's records of a session whose recovery failed.
- An edit whose artifact cannot be written leaves a patch in force that only the engine knows; a
  listing then enters it in the metadata without the specification a recovery needs, and when that
  reaches the session record, later recoveries of the session fail (`Reapply` needs `spec`).
- A worker killed while it has the shared temporary file of a digest open can leave a short file that
  another worker renames. `BlobIsWhole` names this exception (`hurt`); no later store replaces the file.

## Not modelled, and the plan

What remains, in this order:

1. `RemoteHandles`: handles that only sessions own, and remotes by host and port.
2. The composition of the daemon's stop with the resources its worker holds. Its states are those of
   `DaemonOwnership` times those of the resources; it needs an abstraction of one of the two first.
3. The preview: binding, staleness and the death of a window.

Left out on purpose:

- A retry of a `clear_context` that failed after it closed its sessions: `RemoteHandles` has the failing
  step, but that the retry ends depends on a user who calls again, which no fairness of the code
  justifies.
- The timeout policy: sums of constants, each deadline its inner one plus a positive constant. What
  happens when a deadline passes is in `WorkerRequests`, `DaemonOwnership` and `CaptureTransfer`.
- The scheduler: no module of the program imports it.
- The native RenderDoc library and ADB (their calls succeed, fail, or succeed and report a failure),
  argument parsing and printing, the operation catalogue (data), analysis of captures (reads without
  state of their own: most of `server_runtime.py`), discovery, configuration and packaging (sequential
  file checks at start-up).
- The bundled Python distribution under `src/binaries/`, which is most of the lines in the repository and
  not this program. The share of the whole tree that the modules cover is small for that reason.
