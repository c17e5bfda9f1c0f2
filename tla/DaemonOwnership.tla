-------------------------- MODULE DaemonOwnership --------------------------
(***************************************************************************)
(* How the command line clients of one context start, reap and stop its    *)
(* daemon (rdc_tool/daemon/client.py), and how a daemon acquires, publishes *)
(* and gives up ownership (rdc_tool/daemon/ownership.py, server.py).       *)
(*                                                                         *)
(* Three byte locks of the file system are shared by every process:        *)
(*   startLock  serialises ensure_daemon and stop_daemon of the clients;   *)
(*   ownerLock  is held by the owning daemon until its process exits, and  *)
(*              for a moment by any client that asks owner_is_busy;        *)
(*   pubLock    serialises writes and removals of the daemon state file.   *)
(* The operating system releases a lock when its holder dies.              *)
(*                                                                         *)
(* A daemon is identified by its incarnation: pid, pipe name and token are *)
(* fresh for every spawn, so two incarnations never compare equal.         *)
(***************************************************************************)
EXTENDS Naturals, FiniteSets

CONSTANTS
  Clients,   \* client processes
  Starters,  \* the clients that may run ensure_daemon
  Stoppers,  \* the clients that may run stop_daemon
  Cleaners,  \* the clients that may run cleanup_stale_daemon_states
  Daemons,   \* bound: daemon processes that can ever be spawned
  Workers,   \* bound: runtime worker processes that can ever be spawned
  None

ASSUME RolesAssumption ==
  /\ Starters \subseteq Clients
  /\ Stoppers \subseteq Clients
  /\ Cleaners \subseteq Clients

ASSUME DistinctAssumption ==
  /\ Clients \cap Daemons = {}
  /\ None \notin Clients \cup Daemons \cup Workers

VARIABLES
  startLock,   \* holder of the .start.lock byte
  ownerLock,   \* holder of the .owner.lock byte
  pubLock,     \* holder of the .publish.lock byte
  fileOwner,   \* the incarnation the daemon state file names, None if absent
  fileWorker,  \* the worker pid recorded in that file
  proc,        \* life of each daemon process
  workerOf,    \* the worker process each daemon knows (_worker._proc)
  wproc,       \* life of each worker process
  wparent,     \* the daemon that spawned a worker (RDC_TOOL_DAEMON_PID)
  pc,          \* where each client is
  ret,         \* where a client resumes after cleanup or clear_daemon_state
  seen,        \* the incarnation a client acts on
  seenWorker,  \* the worker pid it read with that incarnation
  oldWorker    \* ensure_daemon: worker pid of the dead state it found

locks   == <<startLock, ownerLock, pubLock>>
file    == <<fileOwner, fileWorker>>
procs   == <<proc, workerOf, wproc, wparent>>
locals  == <<ret, seen, seenWorker, oldWorker>>
vars    == <<locks, file, procs, pc, locals>>

---------------------------------------------------------------------------
(* Process states *)

ProcStates == {"unborn", "starting", "owned", "serving", "stopping",
               "exiting", "dead"}
WorkerStates == {"unborn", "running", "exited"}

\* The sites at which a client calls owner_is_busy.
ProbeSites == {"s_missing", "s_dead", "s_fork", "s_unready",
               "c_missing", "c_busy", "t_wait", "x_missing", "x_probe"}

PCs == ProbeSites \cup
       {"idle", "s_load", "s_status", "s_worker", "s_spawn", "s_wait", "s_kill",
        "c_load", "c_shutdown", "c_worker", "c_decide",
        "t_load", "t_reload", "t_prev", "t_shutdown", "t_worker",
        "x_lock", "x_check", "x_unlink"}

ReturnSites == {"end", "s_worker", "t_reload"}

\* A daemon past OwnerLease(): it holds the owner lock until it is dead.
Owning(d)  == proc[d] \in {"owned", "serving", "stopping", "exiting"}
\* A daemon that has published its state and answers requests.
Serving(d) == proc[d] \in {"serving", "stopping", "exiting"}
\* _is_process_running(pid)
Running(d) == proc[d] \notin {"unborn", "dead"}
WorkerRunning(w) == w # None /\ wproc[w] = "running"

Children(d) == {w \in Workers : wproc[w] = "running" /\ wparent[w] = d}

---------------------------------------------------------------------------
Init ==
  /\ startLock = None /\ ownerLock = None /\ pubLock = None
  /\ fileOwner = None /\ fileWorker = None
  /\ proc = [d \in Daemons |-> "unborn"]
  /\ workerOf = [d \in Daemons |-> None]
  /\ wproc = [w \in Workers |-> "unborn"]
  /\ wparent = [w \in Workers |-> None]
  /\ pc = [c \in Clients |-> "idle"]
  /\ ret = [c \in Clients |-> "end"]
  /\ seen = [c \in Clients |-> None]
  /\ seenWorker = [c \in Clients |-> None]
  /\ oldWorker = [c \in Clients |-> None]

---------------------------------------------------------------------------
(* Control flow of a client *)

Goto(c, label) == pc' = [pc EXCEPT ![c] = label]

Drop(lock, p) == IF lock = p THEN None ELSE lock

\* The operation returns or raises: its context managers release what it holds.
Finish(c) ==
  /\ startLock' = Drop(startLock, c)
  /\ ownerLock' = Drop(ownerLock, c)
  /\ pubLock' = Drop(pubLock, c)
  /\ pc' = [pc EXCEPT ![c] = "idle"]
  /\ ret' = [ret EXCEPT ![c] = "end"]
  /\ seen' = [seen EXCEPT ![c] = None]
  /\ seenWorker' = [seenWorker EXCEPT ![c] = None]
  /\ oldWorker' = [oldWorker EXCEPT ![c] = None]

\* cleanup_stale_daemon_states or clear_daemon_state returns to its caller.
Return(c) ==
  \/ ret[c] = "end" /\ Finish(c)
  \/ /\ ret[c] # "end"
     /\ Goto(c, ret[c])
     /\ pubLock' = Drop(pubLock, c)
     /\ ownerLock' = Drop(ownerLock, c)
     /\ UNCHANGED <<startLock, locals>>

\* load_daemon_state
Load(c) ==
  /\ seen' = [seen EXCEPT ![c] = fileOwner]
  /\ seenWorker' = [seenWorker EXCEPT ![c] = fileWorker]

---------------------------------------------------------------------------
(* owner_is_busy: the probe takes the owner lock and gives it back. *)

ProbeTake(c) ==
  /\ pc[c] \in ProbeSites
  /\ ownerLock = None
  /\ ownerLock' = c
  /\ UNCHANGED <<startLock, pubLock, file, procs, pc, locals>>

\* What the caller does when the probe found the lock free.
ProbeFree(c) ==
  /\ pc[c] \in ProbeSites
  /\ ownerLock = c
  /\ \/ /\ pc[c] \in {"s_missing", "s_dead", "s_fork", "s_unready", "c_busy",
                      "t_wait", "x_probe"}
        /\ ownerLock' = None
        /\ Goto(c, CASE pc[c] = "s_missing" -> "s_fork"
                     [] pc[c] = "s_dead"    -> "c_load"
                     [] pc[c] = "s_fork"    -> "s_spawn"
                     [] pc[c] = "x_probe"   -> "x_unlink"
                     [] OTHER               -> "x_lock")
        /\ UNCHANGED <<startLock, pubLock, locals>>
     \/ /\ pc[c] \in {"c_missing", "x_missing"}
        /\ Return(c)
  /\ UNCHANGED <<file, procs>>

\* The lock is held, by the owner or by another probe: the caller keeps the
\* state (cleanup) or raises DaemonOwnerUnavailable (everything else).
\* wait_for_owner_exit retries until its deadline, then gives up too.
ProbeBusy(c) ==
  /\ pc[c] \in ProbeSites
  /\ ownerLock \notin {None, c}
  /\ IF pc[c] \in {"c_missing", "c_busy"} THEN Return(c) ELSE Finish(c)
  /\ UNCHANGED <<file, procs>>

---------------------------------------------------------------------------
(* ensure_daemon, under the start lock *)

StartBegin(c) ==
  /\ c \in Starters
  /\ pc[c] = "idle"
  /\ startLock = None
  /\ startLock' = c
  /\ Goto(c, "s_load")
  /\ UNCHANGED <<ownerLock, pubLock, file, procs, locals>>

\* Mutant: the load is repeated after cleanup instead of the exit checks.
StartLoadLoops(c) ==
  /\ pc[c] = "s_load"
  /\ Load(c)
  /\ Goto(c, IF fileOwner = None THEN "s_missing"
             ELSE IF Running(fileOwner) THEN "s_status" ELSE "s_dead")
  /\ oldWorker' = [oldWorker EXCEPT ![c] = fileWorker]
  /\ ret' = [ret EXCEPT ![c] = "s_load"]
  /\ UNCHANGED <<locks, file, procs>>

StartLoad(c) ==
  /\ pc[c] = "s_load"
  /\ Load(c)
  /\ Goto(c, IF fileOwner = None THEN "s_missing"
             ELSE IF Running(fileOwner) THEN "s_status" ELSE "s_dead")
  /\ oldWorker' = [oldWorker EXCEPT ![c] = fileWorker]
  /\ ret' = [ret EXCEPT ![c] = "s_worker"]
  /\ UNCHANGED <<locks, file, procs>>

\* The state names a running process: reuse it, or raise
\* live_owner_status_failed; neither changes what is shared.
StartReuse(c) ==
  /\ pc[c] = "s_status"
  /\ Finish(c)
  /\ UNCHANGED <<file, procs>>

\* After cleanup: the worker of the dead state must be gone and so must the
\* state, otherwise owner_exit_unconfirmed.
StartCheckCleaned(c) ==
  /\ pc[c] = "s_worker"
  /\ IF WorkerRunning(oldWorker[c]) \/ fileOwner # None
       THEN Finish(c)
       ELSE /\ Goto(c, "s_fork")
            /\ UNCHANGED <<locks, locals>>
  /\ UNCHANGED <<file, procs>>

StartSpawn(c) ==
  /\ pc[c] = "s_spawn"
  /\ \E d \in Daemons :
       /\ proc[d] = "unborn"
       /\ proc' = [proc EXCEPT ![d] = "starting"]
       /\ seen' = [seen EXCEPT ![c] = d]
  /\ seenWorker' = [seenWorker EXCEPT ![c] = None]
  /\ ret' = [ret EXCEPT ![c] = "end"]
  /\ Goto(c, "s_wait")
  /\ UNCHANGED <<locks, file, workerOf, wproc, wparent, oldWorker>>

\* Popen raises.
StartSpawnFails(c) ==
  /\ pc[c] = "s_spawn"
  /\ Finish(c)
  /\ UNCHANGED <<file, procs>>

\* The child answers a ping: report it, or raise started_owner_status_failed.
StartReady(c) ==
  /\ pc[c] = "s_wait"
  /\ Serving(seen[c])
  /\ Finish(c)
  /\ UNCHANGED <<file, procs>>

StartNotReady(c) ==
  /\ pc[c] = "s_wait"
  /\ Goto(c, "s_kill")
  /\ UNCHANGED <<locks, file, procs, locals>>

---------------------------------------------------------------------------
(* cleanup_stale_daemon_states for this context; no start lock of its own *)

CleanBegin(c) ==
  /\ c \in Cleaners
  /\ pc[c] = "idle"
  /\ Goto(c, "c_load")
  /\ UNCHANGED <<locks, file, procs, locals>>

\* _state_should_reap: always for a dead pid; for a live one when it is idle
\* or its owner is lost, which is left open here.
CleanLoad(c) ==
  /\ pc[c] = "c_load"
  /\ \/ /\ fileOwner = None
        /\ Goto(c, "c_missing")
        /\ UNCHANGED <<locks, locals>>
     \/ /\ fileOwner # None
        /\ Load(c)
        /\ Goto(c, IF Running(fileOwner) THEN "c_shutdown" ELSE "c_worker")
        /\ UNCHANGED <<locks, ret, oldWorker>>
     \/ /\ fileOwner # None /\ Running(fileOwner)
        /\ Return(c)
  /\ UNCHANGED <<file, procs>>

\* Kill the recorded worker; the kill may not be confirmed.
CleanWorker(c) ==
  /\ pc[c] = "c_worker"
  /\ Goto(c, "c_decide")
  /\ \/ /\ WorkerRunning(seenWorker[c])
        /\ wproc' = [wproc EXCEPT ![seenWorker[c]] = "exited"]
     \/ UNCHANGED wproc
  /\ UNCHANGED <<locks, file, proc, workerOf, wparent, locals>>

CleanDecide(c) ==
  /\ pc[c] = "c_decide"
  /\ IF Running(seen[c]) \/ WorkerRunning(seenWorker[c])
       THEN Return(c)
       ELSE /\ Goto(c, "c_busy")
            /\ UNCHANGED <<locks, locals>>
  /\ UNCHANGED <<file, procs>>

---------------------------------------------------------------------------
(* stop_daemon, under the start lock *)

StopBegin(c) ==
  /\ c \in Stoppers
  /\ pc[c] = "idle"
  /\ startLock = None
  /\ startLock' = c
  /\ Goto(c, "t_load")
  /\ UNCHANGED <<ownerLock, pubLock, file, procs, locals>>

\* Refused while the context owns resources (left open here); without a state
\* it cleans up and looks again.
StopLoad(c) ==
  /\ pc[c] = "t_load"
  /\ \/ Finish(c)
     \/ /\ Load(c)
        /\ Goto(c, IF fileOwner = None THEN "c_load" ELSE "t_shutdown")
        /\ ret' = [ret EXCEPT ![c] = IF fileOwner = None THEN "t_reload" ELSE "end"]
        /\ UNCHANGED <<locks, oldWorker>>
  /\ UNCHANGED <<file, procs>>

StopReload(c) ==
  /\ pc[c] = "t_reload"
  /\ Load(c)
  /\ Goto(c, IF fileOwner = None THEN "t_prev" ELSE "t_shutdown")
  /\ ret' = [ret EXCEPT ![c] = "end"]
  /\ UNCHANGED <<locks, file, procs, oldWorker>>

\* clear_daemon_state without an expected identity reads the state once more.
StopPrevious(c) ==
  /\ pc[c] = "t_prev"
  /\ Load(c)
  /\ Goto(c, "x_lock")
  /\ UNCHANGED <<locks, file, procs, ret, oldWorker>>

StopWorker(c) ==
  /\ pc[c] = "t_worker"
  /\ \/ /\ WorkerRunning(seenWorker[c])
        /\ Finish(c)
        /\ UNCHANGED wproc
     \/ /\ WorkerRunning(seenWorker[c])
        /\ wproc' = [wproc EXCEPT ![seenWorker[c]] = "exited"]
        /\ Goto(c, "t_wait")
        /\ UNCHANGED <<locks, locals>>
     \/ /\ ~WorkerRunning(seenWorker[c])
        /\ Goto(c, "t_wait")
        /\ UNCHANGED <<locks, wproc, locals>>
  /\ UNCHANGED <<file, proc, workerOf, wparent>>

---------------------------------------------------------------------------
(* Ending a daemon: shutdown requests, then taskkill, then wait for the pid *)

ExitSites == {"s_kill", "c_shutdown", "t_shutdown"}

\* The request reaches a serving daemon, which begins to stop.
ShutdownRequest(c) ==
  /\ pc[c] \in {"c_shutdown", "t_shutdown"}
  /\ proc[seen[c]] = "serving"
  /\ proc' = [proc EXCEPT ![seen[c]] = "stopping"]
  /\ UNCHANGED <<locks, file, workerOf, wproc, wparent, pc, locals>>

\* taskkill /F /T ends the daemon and those of its workers it could end.
KillDaemon(c) ==
  /\ pc[c] \in ExitSites
  /\ Running(seen[c])
  /\ proc' = [proc EXCEPT ![seen[c]] = "dead"]
  /\ ownerLock' = Drop(ownerLock, seen[c])
  /\ \E killed \in SUBSET Children(seen[c]) :
       wproc' = [w \in Workers |-> IF w \in killed THEN "exited" ELSE wproc[w]]
  /\ UNCHANGED <<startLock, pubLock, file, workerOf, wparent, pc, locals>>

ExitConfirmed(c) ==
  /\ pc[c] \in ExitSites
  /\ ~Running(seen[c])
  /\ Goto(c, CASE pc[c] = "s_kill"     -> "s_unready"
               [] pc[c] = "c_shutdown" -> "c_worker"
               [] pc[c] = "t_shutdown" -> "t_worker")
  /\ UNCHANGED <<locks, file, procs, locals>>

\* Mutant: the starter waits for its child without a deadline.
ExitUnconfirmedForever(c) ==
  /\ pc[c] \in {"c_shutdown", "t_shutdown"}
  /\ Running(seen[c])
  /\ IF pc[c] = "c_shutdown"
       THEN /\ Goto(c, "c_worker")
            /\ UNCHANGED <<locks, locals>>
       ELSE Finish(c)
  /\ UNCHANGED <<file, procs>>

\* The pid is still running at the deadline.
ExitUnconfirmed(c) ==
  /\ pc[c] \in ExitSites
  /\ Running(seen[c])
  /\ IF pc[c] = "c_shutdown"
       THEN /\ Goto(c, "c_worker")
            /\ UNCHANGED <<locks, locals>>
       ELSE Finish(c)
  /\ UNCHANGED <<file, procs>>

---------------------------------------------------------------------------
(* clear_daemon_state(expected = seen), without a lease *)

ClearLock(c) ==
  /\ pc[c] = "x_lock"
  /\ pubLock = None
  /\ pubLock' = c
  /\ Goto(c, "x_check")
  /\ UNCHANGED <<startLock, ownerLock, file, procs, locals>>

\* state_publication_busy after five seconds
ClearLockTimeout(c) ==
  /\ pc[c] = "x_lock"
  /\ pubLock # None
  /\ Finish(c)
  /\ UNCHANGED <<file, procs>>

\* Mutant: the state is removed without asking whether its owner is busy.
ClearCheckNoProbe(c) ==
  /\ pc[c] = "x_check"
  /\ IF fileOwner \notin {None, seen[c]}
       THEN Finish(c)
       ELSE /\ Goto(c, IF fileOwner = None THEN "x_missing" ELSE "x_unlink")
            /\ UNCHANGED <<locks, locals>>
  /\ UNCHANGED <<file, procs>>

\* The identity is compared with the one captured before the wait.
ClearCheck(c) ==
  /\ pc[c] = "x_check"
  /\ IF fileOwner \notin {None, seen[c]}
       THEN Finish(c)
       ELSE /\ Goto(c, IF fileOwner = None THEN "x_missing" ELSE "x_probe")
            /\ UNCHANGED <<locks, locals>>
  /\ UNCHANGED <<file, procs>>

ClearUnlink(c) ==
  /\ pc[c] = "x_unlink"
  /\ fileOwner' = None
  /\ fileWorker' = None
  /\ Return(c)
  /\ UNCHANGED procs

---------------------------------------------------------------------------
(* A client process is interrupted or killed. *)

ClientDie(c) ==
  /\ pc[c] # "idle"
  /\ Finish(c)
  /\ UNCHANGED <<file, procs>>

ClientStep(c) ==
  \/ ProbeTake(c) \/ ProbeFree(c) \/ ProbeBusy(c)
  \/ StartLoad(c) \/ StartReuse(c) \/ StartCheckCleaned(c)
  \/ StartSpawn(c) \/ StartSpawnFails(c) \/ StartReady(c) \/ StartNotReady(c)
  \/ CleanLoad(c) \/ CleanWorker(c) \/ CleanDecide(c)
  \/ StopLoad(c) \/ StopReload(c) \/ StopPrevious(c) \/ StopWorker(c)
  \/ ExitConfirmed(c) \/ ExitUnconfirmed(c)
  \/ ClearLock(c) \/ ClearLockTimeout(c) \/ ClearCheck(c) \/ ClearUnlink(c)

---------------------------------------------------------------------------
(* The daemon process *)

\* serve_forever: OwnerLease raises when the byte is held, and the process ends.
DaemonAcquire(d) ==
  /\ proc[d] = "starting"
  /\ IF ownerLock = None
       THEN ownerLock' = d /\ proc' = [proc EXCEPT ![d] = "owned"]
       ELSE UNCHANGED ownerLock /\ proc' = [proc EXCEPT ![d] = "dead"]
  /\ UNCHANGED <<startLock, pubLock, file, workerOf, wproc, wparent, pc, locals>>

\* Mutant: publication does not compare the identity on disk.
MayWriteAny(d) == pubLock = None

\* save_daemon_state under the lease: refused while the file names another.
MayWrite(d) == pubLock = None /\ fileOwner \in {None, d}

DaemonPublish(d) ==
  /\ proc[d] = "owned"
  /\ MayWrite(d)
  /\ fileOwner' = d
  /\ fileWorker' = None
  /\ proc' = [proc EXCEPT ![d] = "serving"]
  /\ UNCHANGED <<locks, workerOf, wproc, wparent, pc, locals>>

\* state_owner_changed or state_publication_busy: the process ends.
DaemonPublishRefused(d) ==
  /\ proc[d] = "owned"
  /\ ~MayWrite(d)
  /\ proc' = [proc EXCEPT ![d] = "dead"]
  /\ ownerLock' = Drop(ownerLock, d)
  /\ UNCHANGED <<startLock, pubLock, file, workerOf, wproc, wparent, pc, locals>>

\* An exec needs a worker and finds none running.
DaemonSpawnWorker(d) ==
  /\ Serving(d)
  /\ ~WorkerRunning(workerOf[d])
  /\ \E w \in Workers :
       /\ wproc[w] = "unborn"
       /\ wproc' = [wproc EXCEPT ![w] = "running"]
       /\ wparent' = [wparent EXCEPT ![w] = d]
       /\ workerOf' = [workerOf EXCEPT ![d] = w]
  /\ UNCHANGED <<locks, file, proc, pc, locals>>

\* _persist_state of a running daemon: heartbeat, status, exec, watcher tick.
DaemonPersist(d) ==
  /\ Serving(d)
  /\ MayWrite(d)
  /\ fileOwner' = d
  /\ fileWorker' = IF WorkerRunning(workerOf[d]) THEN workerOf[d] ELSE None
  /\ UNCHANGED <<locks, procs, pc, locals>>

\* Mutant: the lease is closed when the daemon begins to stop.
DaemonStopCloses(d) ==
  /\ proc[d] = "serving"
  /\ proc' = [proc EXCEPT ![d] = "stopping"]
  /\ ownerLock' = Drop(ownerLock, d)
  /\ UNCHANGED <<startLock, pubLock, file, workerOf, wproc, wparent, pc, locals>>

\* A signal or the lifecycle watcher calls _stop.
DaemonStop(d) ==
  /\ proc[d] = "serving"
  /\ proc' = [proc EXCEPT ![d] = "stopping"]
  /\ UNCHANGED <<locks, file, workerOf, wproc, wparent, pc, locals>>

\* _worker.stop() confirms the exit, or raises and the daemon keeps running;
\* either way the worker handle is dropped.
DaemonStopWorker(d) ==
  /\ proc[d] = "stopping"
  /\ \/ /\ wproc' = [w \in Workers |-> IF w = workerOf[d] THEN "exited" ELSE wproc[w]]
        /\ proc' = [proc EXCEPT ![d] = "exiting"]
     \/ /\ WorkerRunning(workerOf[d])
        /\ proc' = [proc EXCEPT ![d] = "serving"]
        /\ UNCHANGED wproc
  /\ workerOf' = [workerOf EXCEPT ![d] = None]
  /\ UNCHANGED <<locks, file, wparent, pc, locals>>

\* os._exit(0), a crash or a kill from outside
DaemonExit(d) ==
  /\ Running(d)
  /\ proc' = [proc EXCEPT ![d] = "dead"]
  /\ ownerLock' = Drop(ownerLock, d)
  /\ UNCHANGED <<startLock, pubLock, file, workerOf, wproc, wparent, pc, locals>>

\* The worker crashes, or its watcher sees that the parent pid is gone.
WorkerExit(w) ==
  /\ wproc[w] = "running"
  /\ wproc' = [wproc EXCEPT ![w] = "exited"]
  /\ UNCHANGED <<locks, file, proc, workerOf, wparent, pc, locals>>

DaemonStep(d) ==
  \/ DaemonAcquire(d) \/ DaemonPublish(d) \/ DaemonPublishRefused(d)
  \/ DaemonSpawnWorker(d) \/ DaemonPersist(d)
  \/ DaemonStop(d) \/ DaemonStopWorker(d) \/ DaemonExit(d)

---------------------------------------------------------------------------
Next ==
  \/ \E c \in Clients :
       \/ StartBegin(c) \/ CleanBegin(c) \/ StopBegin(c)
       \/ ClientStep(c) \/ ShutdownRequest(c) \/ KillDaemon(c) \/ ClientDie(c)
  \/ \E d \in Daemons : DaemonStep(d)
  \/ \E w \in Workers : WorkerExit(w)

Spec == Init /\ [][Next]_vars

(***************************************************************************)
(* Every wait of a client has a deadline, so a client that is not          *)
(* interrupted keeps taking steps.  Nothing is assumed of daemons: they may *)
(* hang, refuse to stop or die.                                            *)
(***************************************************************************)
Fairness ==
  \A c \in Clients : WF_vars(ClientStep(c))

FairSpec == Spec /\ Fairness

---------------------------------------------------------------------------
(* Properties *)

TypeOK ==
  /\ startLock \in Clients \cup {None}
  /\ ownerLock \in Clients \cup Daemons \cup {None}
  /\ pubLock \in Clients \cup {None}
  /\ fileOwner \in Daemons \cup {None}
  /\ fileWorker \in Workers \cup {None}
  /\ proc \in [Daemons -> ProcStates]
  /\ workerOf \in [Daemons -> Workers \cup {None}]
  /\ wproc \in [Workers -> WorkerStates]
  /\ wparent \in [Workers -> Daemons \cup {None}]
  /\ pc \in [Clients -> PCs]
  /\ ret \in [Clients -> ReturnSites]
  /\ seen \in [Clients -> Daemons \cup {None}]
  /\ seenWorker \in [Clients -> Workers \cup {None}]
  /\ oldWorker \in [Clients -> Workers \cup {None}]

\* At most one daemon process is past its ownership acquisition, whatever
\* starters, cleaners, kills and abandoned children do (ownership.py, OwnerLease
\* kept until the process exits).
OneOwner == \A d, e \in Daemons : Owning(d) /\ Owning(e) => d = e

\* While a daemon answers requests, the state file names that daemon: no client
\* removes it and no successor overwrites it (clear_daemon_state,
\* save_daemon_state).
ServingIsPublished == \A d \in Daemons : Serving(d) => fileOwner = d

\* The locks and the file implement the lease that callers rely on.
Lease == INSTANCE OwnerLease WITH
  holder  <- IF ownerLock \in Daemons THEN ownerLock ELSE None,
  receipt <- fileOwner,
  exited  <- {d \in Daemons : proc[d] = "dead"}

ImplementsLease == Lease!Spec

\* docs/session-model.md: explicit shutdown confirms that the daemon and its
\* recorded worker have terminated before it removes their state.  Stated for
\* the clients that only run stop_daemon.
StopConfirmsRecordedWorker ==
  [][\A c \in Stoppers \ (Starters \cup Cleaners) :
       ClearUnlink(c) /\ fileOwner # None => ~WorkerRunning(fileWorker)]_vars

\* The start lock is never kept for ever: every starter and stopper ends,
\* whatever daemon it waits for (all waits of client.py have deadlines).
StartLockReleased ==
  \A c \in Clients : startLock = c ~> startLock # c
===========================================================================
