--------------------------- MODULE WorkerRequests ---------------------------
(***************************************************************************)
(* One daemon and its runtime worker: the connection threads that execute  *)
(* requests one at a time (rdc_tool/daemon/server.py), the object that     *)
(* owns the worker process (rdc_tool/daemon/worker.py), the worker's loop  *)
(* (rdc_tool/runtime_worker.py), and a shutdown that may arrive meanwhile. *)
(*                                                                         *)
(* Requests and answers travel as lines over the worker's stdin and        *)
(* stdout.  A reader thread per worker process moves answers into the      *)
(* queue the daemon object holds at that moment; a lost answer, a late     *)
(* answer and the end of a stream are told apart only by the request id.   *)
(***************************************************************************)
EXTENDS Naturals, Sequences

CONSTANTS
  Requests,    \* exec requests, one connection thread each
  Stopper,     \* the thread that runs _stop: shutdown request, signal, watcher
  MaxGen,      \* bound: worker processes ever spawned
  KillMayFail, \* whether a killed worker may outlive proc.wait(3)
  None

ASSUME StopperAssumption == Stopper \notin Requests /\ None \notin Requests \cup {Stopper}
ASSUME MaxGenAssumption == MaxGen \in Nat \ {0} /\ KillMayFail \in BOOLEAN

Threads == Requests \cup {Stopper}
Gens    == 1..MaxGen

VARIABLES
  execLock,  \* _exec_lock
  ioLock,    \* _io_lock
  pc,        \* where each thread is
  handle,    \* _worker._proc: the generation the daemon knows, 0 for None
  held,      \* the generation each stop() captured as proc
  seq,       \* _request_seq
  myId,      \* the request id each thread waits for
  outcome,   \* what the exec handler answers its client
  wst,       \* life of each worker process
  stdin,     \* lines the worker has not read
  job,       \* the line a worker is executing
  stdout,    \* lines its reader has not read
  reader,    \* whether its reader thread still runs
  queue,     \* _queue
  applied,   \* how often each request was dispatched by a worker
  session,   \* the persisted replay: the generation holding it (0: none), quarantined?
  exited     \* the daemon process has ended

daemonVars == <<execLock, ioLock, pc, handle, held, seq, myId, outcome>>
workerVars == <<wst, stdin, job, stdout, applied>>
vars == <<daemonVars, workerVars, reader, queue, session, exited>>

---------------------------------------------------------------------------
(* Lines *)

Ready         == [kind |-> "ready", id |-> 0, ok |-> TRUE]
Eof           == [kind |-> "eof", id |-> 0, ok |-> FALSE]
Answer(id, b) == [kind |-> "answer", id |-> id, ok |-> b]
\* method "exec" of a request, or "shutdown" sent by stop()
Line(t, id, exec) == [by |-> t, id |-> id, exec |-> exec]
NoJob         == Line(None, 0, FALSE)

\* proc.poll() is None
Alive(g)  == g # 0 /\ wst[g] \in {"boot", "idle", "work", "answer"}
IsRunning == Alive(handle)

\* The process ends; what it had not read or not finished goes with it.
Dies(g) ==
  /\ wst' = [wst EXCEPT ![g] = "dead"]
  /\ stdin' = [stdin EXCEPT ![g] = <<>>]
  /\ job' = [job EXCEPT ![g] = NoJob]

ExecSites == {"new", "check", "ensure", "spawn", "await", "lock", "write", "wait",
              "failed", "mark", "finish", "done"}
StopSites == {"stop", "stopLock", "stopWrite", "stopWait", "stopExit", "stopDrop"}
PCs       == ExecSites \cup StopSites \cup {"exit", "gaveup"}

---------------------------------------------------------------------------
Init ==
  /\ execLock = None /\ ioLock = None
  /\ pc = [t \in Threads |-> "new"]
  /\ handle = 0
  /\ held = [t \in Threads |-> 0]
  /\ seq = 0
  /\ myId = [t \in Threads |-> 0]
  /\ outcome = [r \in Requests |-> "none"]
  /\ wst = [g \in Gens |-> "none"]
  /\ stdin = [g \in Gens |-> <<>>]
  /\ job = [g \in Gens |-> NoJob]
  /\ stdout = [g \in Gens |-> <<>>]
  /\ reader = [g \in Gens |-> FALSE]
  /\ queue = <<>>
  /\ applied = [r \in Requests |-> 0]
  /\ session = [gen |-> 0, restart |-> FALSE]
  /\ exited = FALSE

Goto(t, label) == pc' = [pc EXCEPT ![t] = label]

\* _mark_replay_requires_restart
Quarantine == session' = [session EXCEPT !.restart = session.gen # 0]

---------------------------------------------------------------------------
(* _run_exec and _request_worker *)

ExecBegin(r) ==
  /\ pc[r] = "new"
  /\ execLock = None
  /\ execLock' = r
  /\ Goto(r, "check")
  /\ UNCHANGED <<ioLock, handle, held, seq, myId, outcome, workerVars, reader, queue, session>>

\* _ensure_worker: a worker that is not running invalidates what it held.
EnsureCheck(r) ==
  /\ pc[r] = "check"
  /\ IF IsRunning THEN UNCHANGED session ELSE Quarantine
  /\ Goto(r, "ensure")
  /\ UNCHANGED <<execLock, ioLock, handle, held, seq, myId, outcome, workerVars, reader, queue>>

\* ensure_started asks again whether the worker runs.
EnsureStarted(r) ==
  /\ pc[r] = "ensure"
  /\ IF IsRunning
       THEN Goto(r, "lock") /\ UNCHANGED handle
       ELSE Goto(r, "spawn") /\ handle' = 0
  /\ UNCHANGED <<execLock, ioLock, held, seq, myId, outcome, workerVars, reader, queue, session>>

\* _spawn: a new process, a new queue and a new reader thread.
Spawn(r) ==
  /\ pc[r] = "spawn"
  /\ \E g \in Gens :
       /\ wst[g] = "none"
       /\ \A h \in 1..(g - 1) : wst[h] # "none"
       /\ wst' = [wst EXCEPT ![g] = "boot"]
       /\ reader' = [reader EXCEPT ![g] = TRUE]
       /\ handle' = g
  /\ queue' = <<>>
  /\ Goto(r, "await")
  /\ UNCHANGED <<execLock, ioLock, held, seq, myId, outcome, stdin, job, stdout, applied, session>>

\* Popen raises; _run_exec answers worker_error.
SpawnFails(r) ==
  /\ pc[r] = "spawn"
  /\ outcome' = [outcome EXCEPT ![r] = "error"]
  /\ Goto(r, "finish")
  /\ UNCHANGED <<execLock, ioLock, handle, held, seq, myId, workerVars, reader, queue, session>>

\* _await_ready takes lines until it sees ready or the end of a stream.
AwaitReady(r) ==
  /\ pc[r] = "await"
  /\ queue # <<>>
  /\ queue' = Tail(queue)
  /\ CASE Head(queue).kind = "ready" -> Goto(r, "lock") /\ UNCHANGED outcome
       [] Head(queue).kind = "eof"   -> /\ Goto(r, "finish")
                                        /\ outcome' = [outcome EXCEPT ![r] = "error"]
       [] OTHER                      -> UNCHANGED <<pc, outcome>>
  /\ UNCHANGED <<execLock, ioLock, handle, held, seq, myId, workerVars, reader, session>>

\* "worker failed to report ready state" after READY_TIMEOUT_S; the process
\* stays and the next request finds it running.
AwaitTimeout(r) ==
  /\ pc[r] = "await"
  /\ outcome' = [outcome EXCEPT ![r] = "error"]
  /\ Goto(r, "finish")
  /\ UNCHANGED <<execLock, ioLock, handle, held, seq, myId, workerVars, reader, queue, session>>

---------------------------------------------------------------------------
(* RuntimeWorkerProcess.request: by an exec thread, or by stop() *)

LockIo(t) ==
  /\ pc[t] \in {"lock", "stopLock"}
  /\ ioLock = None
  /\ ioLock' = t
  /\ Goto(t, IF pc[t] = "lock" THEN "write" ELSE "stopWrite")
  /\ UNCHANGED <<execLock, handle, held, seq, myId, outcome, workerVars, reader, queue, session>>

\* What follows a request that raised: stop() ignores it.
AfterFailure(t) == IF pc[t] \in {"write", "wait"} THEN "failed" ELSE "stopExit"

\* Mutant: the request counter is not advanced.
WriteSameId(t) ==
  /\ pc[t] \in {"write", "stopWrite"}
  /\ IsRunning
  /\ myId' = [myId EXCEPT ![t] = seq + 1]
  /\ stdin' = [stdin EXCEPT ![handle] = Append(@, Line(t, seq + 1, pc[t] = "write"))]
  /\ Goto(t, IF pc[t] = "write" THEN "wait" ELSE "stopWait")
  /\ UNCHANGED <<execLock, ioLock, handle, held, seq, outcome, wst, job, stdout, applied, reader,
                 queue, session>>

\* The process is looked up again under the lock; a dead one, or a broken
\* pipe, raises before anything is written.  While a running worker leaves the
\* pipe full, write and flush block without a deadline: the thread stays here and
\* keeps _io_lock (WriteMayBlock).
Write(t) ==
  /\ pc[t] \in {"write", "stopWrite"}
  /\ IF IsRunning
       THEN /\ seq' = seq + 1
            /\ myId' = [myId EXCEPT ![t] = seq + 1]
            /\ stdin' = [stdin EXCEPT ![handle] = Append(@, Line(t, seq + 1, pc[t] = "write"))]
            /\ Goto(t, IF pc[t] = "write" THEN "wait" ELSE "stopWait")
            /\ UNCHANGED ioLock
       ELSE /\ ioLock' = None
            /\ Goto(t, AfterFailure(t))
            /\ UNCHANGED <<seq, myId, stdin>>
  /\ UNCHANGED <<execLock, handle, held, outcome, wst, job, stdout, applied, reader, queue, session>>

\* Mutant: ids are not compared.
OwnAnswerAny(t, line) == line.kind = "answer"

\* The line answers the request this thread wrote.
OwnAnswer(t, line) == line.kind = "answer" /\ line.id = myId[t]

\* Lines of other requests are dropped; the end of a stream fails this one.
Receive(t) ==
  LET line == Head(queue)
      mine == OwnAnswer(t, line)
  IN
  /\ pc[t] \in {"wait", "stopWait"}
  /\ queue # <<>>
  /\ queue' = Tail(queue)
  /\ \/ /\ mine /\ line.ok /\ pc[t] = "wait"
        /\ ioLock' = None
        /\ outcome' = [outcome EXCEPT ![t] = "ok"]
        /\ Goto(t, "finish")
     \/ /\ line.kind = "eof" \/ (mine /\ ~(line.ok /\ pc[t] = "wait"))
        /\ ioLock' = None
        /\ Goto(t, AfterFailure(t))
        /\ UNCHANGED outcome
     \/ /\ line.kind # "eof" /\ ~mine
        /\ UNCHANGED <<ioLock, pc, outcome>>
  /\ UNCHANGED <<execLock, handle, held, seq, myId, workerVars, reader, session>>

\* Mutant: the answer is waited for without a deadline.
ReceiveTimeoutNever(t) == FALSE

ReceiveTimeout(t) ==
  /\ pc[t] \in {"wait", "stopWait"}
  /\ ioLock' = None
  /\ Goto(t, AfterFailure(t))
  /\ UNCHANGED <<execLock, handle, held, seq, myId, outcome, workerVars, reader, queue, session>>

---------------------------------------------------------------------------
(* RuntimeWorkerProcess.stop: after a failed request, or to stop the daemon *)

\* The failing request stops the worker it used.
ExecFailed(r) ==
  /\ pc[r] = "failed"
  /\ Goto(r, "stop")
  /\ UNCHANGED <<execLock, ioLock, handle, held, seq, myId, outcome, workerVars, reader, queue, session>>

StopBegin ==
  /\ pc[Stopper] = "new"
  /\ Goto(Stopper, "stop")
  /\ UNCHANGED <<execLock, ioLock, handle, held, seq, myId, outcome, workerVars, reader, queue, session>>

\* Where stop() returns to.
AfterStop(t) == IF t = Stopper THEN "exit" ELSE "mark"

\* proc = self._proc; a process that already ended is not asked.
StopCapture(t) ==
  /\ pc[t] = "stop"
  /\ held' = [held EXCEPT ![t] = handle]
  /\ Goto(t, IF handle = 0 THEN AfterStop(t)
             ELSE IF Alive(handle) THEN "stopLock" ELSE "stopDrop")
  /\ UNCHANGED <<execLock, ioLock, handle, seq, myId, outcome, workerVars, reader, queue, session>>

\* proc.wait(5) returns.
StopExited(t) ==
  /\ pc[t] = "stopExit"
  /\ ~Alive(held[t])
  /\ Goto(t, "stopDrop")
  /\ UNCHANGED <<execLock, ioLock, handle, held, seq, myId, outcome, workerVars, reader, queue, session>>

\* Mutant: a worker that does not exit in time is left alone.
StopKillNot(t) ==
  /\ pc[t] = "stopExit"
  /\ Alive(held[t])
  /\ Goto(t, "stopDrop")
  /\ UNCHANGED <<execLock, ioLock, handle, held, seq, myId, outcome, workerVars, reader, queue, session>>

\* proc.wait(5) expires; proc.kill() and proc.wait(3) confirm the exit, or not.
StopKill(t) ==
  /\ pc[t] = "stopExit"
  /\ Alive(held[t])
  /\ Dies(held[t]) \/ (KillMayFail /\ UNCHANGED <<wst, stdin, job>>)
  /\ Goto(t, "stopDrop")
  /\ UNCHANGED <<execLock, ioLock, handle, held, seq, myId, outcome, stdout, applied,
                 reader, queue, session>>

\* Closing stdout waits for the reader thread, which reads a worker that survived
\* its kill until the worker writes or ends.
CloseBlocks(g) == Alive(g) /\ handle = g /\ stdout[g] = <<>>

\* finally: the handle is forgotten whatever happened, once the streams are closed.
\* An unconfirmed exit raises: _stop then leaves the daemon running, a failing
\* request goes on.
StopDrop(t) ==
  /\ pc[t] = "stopDrop"
  /\ ~CloseBlocks(held[t])
  /\ handle' = 0
  /\ held' = [held EXCEPT ![t] = 0]
  /\ Goto(t, IF t = Stopper /\ Alive(held[t]) THEN "gaveup" ELSE AfterStop(t))
  /\ UNCHANGED <<execLock, ioLock, seq, myId, outcome, workerVars, reader, queue, session>>

\* Mutant: the failure path forgets the quarantine.
MarkFailedNot(r) ==
  /\ pc[r] = "mark"
  /\ outcome' = [outcome EXCEPT ![r] = "error"]
  /\ Goto(r, "finish")
  /\ UNCHANGED <<execLock, ioLock, handle, held, seq, myId, workerVars, reader, queue, session>>

\* Mutant: the request is submitted again to a new worker.
MarkFailedRetries(r) ==
  /\ pc[r] = "mark"
  /\ Quarantine
  /\ Goto(r, "check")
  /\ UNCHANGED <<execLock, ioLock, handle, held, seq, myId, outcome, workerVars, reader, queue>>

\* The outcome of the request is unknown: quarantine, then answer an error.
MarkFailed(r) ==
  /\ pc[r] = "mark"
  /\ Quarantine
  /\ outcome' = [outcome EXCEPT ![r] = "error"]
  /\ Goto(r, "finish")
  /\ UNCHANGED <<execLock, ioLock, handle, held, seq, myId, workerVars, reader, queue>>

ExecFinish(r) ==
  /\ pc[r] = "finish"
  /\ execLock' = None
  /\ myId' = [myId EXCEPT ![r] = 0]
  /\ Goto(r, "done")
  /\ UNCHANGED <<ioLock, handle, held, seq, outcome, workerVars, reader, queue, session>>

ThreadStep(t) ==
  \/ LockIo(t) \/ Write(t) \/ Receive(t) \/ ReceiveTimeout(t)
  \/ StopCapture(t) \/ StopExited(t) \/ StopKill(t) \/ StopDrop(t)

ExecStep(r) ==
  \/ ExecBegin(r) \/ EnsureCheck(r) \/ EnsureStarted(r) \/ Spawn(r) \/ SpawnFails(r)
  \/ AwaitReady(r) \/ AwaitTimeout(r) \/ ExecFailed(r) \/ MarkFailed(r) \/ ExecFinish(r)
  \/ ThreadStep(r)

---------------------------------------------------------------------------
(* The worker process, its reader thread and the end of the daemon *)

WorkerReady(g) ==
  /\ wst[g] = "boot"
  /\ wst' = [wst EXCEPT ![g] = "idle"]
  /\ stdout' = [stdout EXCEPT ![g] = Append(@, Ready)]
  /\ UNCHANGED <<daemonVars, stdin, job, applied, reader, queue, session>>

WorkerTake(g) ==
  /\ wst[g] = "idle"
  /\ stdin[g] # <<>>
  /\ job' = [job EXCEPT ![g] = Head(stdin[g])]
  /\ stdin' = [stdin EXCEPT ![g] = Tail(@)]
  /\ wst' = [wst EXCEPT ![g] = "work"]
  /\ UNCHANGED <<daemonVars, stdout, applied, reader, queue, session>>

WorkerApply(g) ==
  /\ wst[g] = "work"
  /\ job[g].exec
  /\ applied' = [applied EXCEPT ![job[g].by] = @ + 1]
  /\ wst' = [wst EXCEPT ![g] = "answer"]
  /\ \/ UNCHANGED session
     \/ session.gen = 0 /\ session' = [gen |-> g, restart |-> FALSE]
     \/ session.gen # 0 /\ session' = [gen |-> 0, restart |-> FALSE]
  /\ UNCHANGED <<daemonVars, stdin, job, stdout, reader, queue>>

\* The result, or an error raised before or after the native call.
WorkerAnswer(g) ==
  /\ wst[g] \in {"work", "answer"}
  /\ job[g].exec
  /\ \E ok \in BOOLEAN :
       /\ ok => wst[g] = "answer"
       /\ stdout' = [stdout EXCEPT ![g] = Append(@, Answer(job[g].id, ok))]
  /\ wst' = [wst EXCEPT ![g] = "idle"]
  /\ job' = [job EXCEPT ![g] = NoJob]
  /\ UNCHANGED <<daemonVars, stdin, applied, reader, queue, session>>

\* shutdown: answered, then the loop returns and the process ends.
WorkerShutdown(g) ==
  /\ wst[g] = "work"
  /\ ~job[g].exec
  /\ stdout' = [stdout EXCEPT ![g] = Append(@, Answer(job[g].id, TRUE))]
  /\ Dies(g)
  /\ UNCHANGED <<daemonVars, applied, reader, queue, session>>

\* A crash, a kill from outside, or the end of its stdin.
WorkerCrash(g) ==
  /\ Alive(g)
  /\ Dies(g)
  /\ UNCHANGED <<daemonVars, stdout, applied, reader, queue, session>>

\* Mutant: nothing watches the parent.
WatchParentNever(g) == FALSE

\* _watch_parent_daemon: the worker ends after its daemon.
WatchParent(g) ==
  /\ exited
  /\ Alive(g)
  /\ Dies(g)
  /\ UNCHANGED <<daemonVars, stdout, applied, reader, queue, session>>

\* _pump_stdout: whichever queue the daemon object holds now gets the line.
Pump(g) ==
  /\ reader[g]
  /\ \/ /\ stdout[g] # <<>>
        /\ queue' = Append(queue, Head(stdout[g]))
        /\ stdout' = [stdout EXCEPT ![g] = Tail(@)]
        /\ UNCHANGED reader
     \/ /\ stdout[g] = <<>> /\ wst[g] = "dead"
        /\ queue' = Append(queue, Eof)
        /\ reader' = [reader EXCEPT ![g] = FALSE]
        /\ UNCHANGED stdout
     \/ /\ handle # g          \* stop() closed the stream under the reader
        /\ reader' = [reader EXCEPT ![g] = FALSE]
        /\ stdout' = [stdout EXCEPT ![g] = <<>>]
        /\ UNCHANGED queue
  /\ UNCHANGED <<daemonVars, wst, stdin, job, applied, session>>

\* os._exit(0): the threads of the daemon and its memory are gone.
DaemonExit ==
  /\ pc[Stopper] = "exit"
  /\ exited' = TRUE
  /\ queue' = <<>>
  /\ stdout' = [g \in Gens |-> <<>>]
  /\ reader' = [g \in Gens |-> FALSE]
  /\ UNCHANGED <<daemonVars, wst, stdin, job, applied, session>>

---------------------------------------------------------------------------
Next ==
  \/ /\ ~exited
     /\ \/ /\ \/ \E r \in Requests : ExecStep(r)
              \/ ThreadStep(Stopper) \/ StopBegin
              \/ \E g \in Gens : Pump(g)
           /\ UNCHANGED exited
        \/ DaemonExit
  \/ /\ \E g \in Gens :
          WorkerReady(g) \/ WorkerTake(g) \/ WorkerApply(g) \/ WorkerAnswer(g)
            \/ WorkerShutdown(g) \/ WorkerCrash(g) \/ WatchParent(g)
     /\ UNCHANGED exited

Spec == Init /\ [][Next]_vars

\* A write to a running worker may block for as long as the worker likes.
WriteMayBlock(t) == pc[t] \in {"write", "stopWrite"} /\ IsRunning

\* The daemon's threads run, and their waits for answers, for ready and for exits
\* have deadlines; writes to a running worker have none, and no end is assumed of
\* them.  The worker's watcher polls.  Nothing else a worker does is owed to anyone.
Fairness ==
  /\ \A r \in Requests : WF_vars(~exited /\ ~WriteMayBlock(r) /\ ExecStep(r) /\ UNCHANGED exited)
  /\ WF_vars(~exited /\ ~WriteMayBlock(Stopper) /\ ThreadStep(Stopper) /\ UNCHANGED exited)
  /\ WF_vars(~exited /\ DaemonExit)
  /\ \A g \in Gens : WF_vars(WatchParent(g) /\ UNCHANGED exited)

FairSpec == Spec /\ Fairness

---------------------------------------------------------------------------
TypeOK ==
  /\ execLock \in Requests \cup {None}
  /\ ioLock \in Threads \cup {None}
  /\ pc \in [Threads -> PCs]
  /\ handle \in Gens \cup {0}
  /\ held \in [Threads -> Gens \cup {0}]
  /\ seq \in Nat
  /\ myId \in [Threads -> 0..seq]
  /\ outcome \in [Requests -> {"none", "ok", "error"}]
  /\ wst \in [Gens -> {"none", "boot", "idle", "work", "answer", "dead"}]
  /\ \A g \in Gens : /\ \A i \in DOMAIN stdin[g] : stdin[g][i].by \in Threads
                    /\ job[g].by \in Threads \cup {None}
  /\ reader \in [Gens -> BOOLEAN]
  /\ applied \in [Requests -> Nat]
  /\ session.gen \in Gens \cup {0} /\ session.restart \in BOOLEAN
  /\ exited \in BOOLEAN

\* A request is dispatched at most once, whatever is lost on the way: a reply
\* that does not come may follow an applied mutation, and the daemon never
\* submits the request again (server.py 381-389).
AppliedAtMostOnce == \A r \in Requests : applied[r] <= 1

\* A client is told ok only for its own request, dispatched: late answers of a
\* timed-out request or of an earlier worker never pass for it.
OkMeansApplied == \A r \in Requests : outcome[r] = "ok" => applied[r] = 1

\* A stop() that began before a worker was replaced forgets the replacement
\* too (its finally clears _proc unconditionally); the daemon then exits.
Stopping == pc[Stopper] = "exit"

\* A request whose outcome is unknown leaves the persisted replay quarantined
\* before its error is answered, unless the daemon is about to exit.
ErrorMeansQuarantined ==
  \A r \in Requests :
    pc[r] = "finish" /\ outcome[r] = "error" /\ myId[r] # 0
      => session.gen = 0 \/ session.restart \/ Stopping

\* At most one worker process holds the context's native replay, and it is
\* the one the daemon knows or is stopping, until the daemon is about to exit.
OneWorker ==
  Stopping \/ \A g \in Gens :
    Alive(g) => (handle = g \/ \E t \in Threads : held[t] = g) /\ \A h \in Gens \ {g} : ~Alive(h)

\* A worker dispatches a request only when the replay persisted by an earlier
\* worker is quarantined: "A newly started or replaced worker marks persisted
\* replay sessions requires_restart before dispatch" (docs/session-model.md 114).
QuarantineBeforeDispatch ==
  \A g \in Gens : wst[g] = "work" /\ job[g].exec
                  => session.gen \in {0, g} \/ session.restart

\* A running worker holds a thread of the daemon up: it does not read its pipe, or
\* it survived its kill and neither writes nor ends.
HeldUp ==
  ~exited /\ \E t \in Threads :
    WriteMayBlock(t) \/ (pc[t] = "stopDrop" /\ CloseBlocks(held[t]))

\* Every accepted request is answered, and a stop that begins ends the daemon
\* and its workers, whatever is lost, late or killed; unless a worker holds the
\* daemon up for good, which no deadline of the code prevents.
RequestsEnd ==
  []<>~HeldUp => \A r \in Requests : pc[r] = "check" ~> (pc[r] = "done" \/ exited)
StopEnds ==
  []<>~HeldUp =>
    (pc[Stopper] = "stop"
       ~> (pc[Stopper] = "gaveup" \/ (exited /\ \A g \in Gens : ~Alive(g))))

\* What the client of a request knows of it.
Fate(r) == IF pc[r] = "new" THEN "new" ELSE IF outcome[r] = "none" THEN "open" ELSE outcome[r]

\* The abstract call: in progress while its thread holds _exec_lock, run once
\* a worker dispatched it.
Call == INSTANCE RemoteCall WITH
  Late   <- KillMayFail,
  open   <- execLock,
  fate   <- [r \in Requests |-> Fate(r)],
  ran    <- {r \in Requests : applied[r] # 0},
  ending <- Stopping

\* Whatever is lost, late or killed, a request is a call that takes effect at
\* most once, did so when its client is told ok, and no longer does so when its
\* client was told of an error: the worker was stopped before
\* (server.py 375-391).
ImplementsCall == Call!CallSpec
===========================================================================
