--------------------------- MODULE DaemonLifecycle ---------------------------
(***************************************************************************)
(* When a daemon ends (rdc_tool/daemon/server.py): its connection threads   *)
(* attach, renew and detach clients and execute requests; its lifecycle     *)
(* watcher stops it when its owner is lost or it has been idle; and a       *)
(* cleanup in some other process (rdc_tool/daemon/client.py) decides the    *)
(* same from the state file.                                               *)
(*                                                                         *)
(* Every change is made under _state_lock and published afterwards from a   *)
(* copy: _persist_state releases that lock before it takes the publication *)
(* lock, so two threads may publish in the other order.  A publication may  *)
(* fail (the publication lock is busy for five seconds, the file cannot be  *)
(* replaced): the change in memory stays and the thread leaves by its error *)
(* path, which for a request that has just begun keeps its count for good.  *)
(*                                                                         *)
(* Time is a set of overdue marks on the stamps; an action of the program   *)
(* clears the marks of the stamps it renews.  The leases and the idle       *)
(* timeout are far longer than one attempt to publish, so they do not run   *)
(* out while a thread is about to publish.                                 *)
(***************************************************************************)
EXTENDS FiniteSets, Naturals

CONSTANTS
  Clients,   \* processes that attach to the daemon
  Requests,  \* exec and clear_context requests, one connection thread each
  Watcher,   \* the thread of _watch_lifecycle
  Cleaner    \* a process that runs cleanup_stale_daemon_states

ASSUME ThreadsAssumption ==
  /\ Clients \cap Requests = {}
  /\ Watcher \notin Clients \cup Requests
  /\ Cleaner \notin Clients \cup Requests \cup {Watcher}

Threads == Clients \cup Requests \cup {Watcher}

VARIABLES
  mem,       \* self.state, as far as the decisions below read it
  disk,      \* the daemon state file
  copy,      \* the payload each thread is about to publish, a set of at most one
  pc,        \* where each thread and the cleaner is
  clears,    \* the requests that are clear_context
  cleared,   \* those of them that succeeded and whose client is not done yet
  alive,     \* the client processes that run
  ownerRuns, \* whether the owner process runs
  held,      \* whether the worker holds a capture, a replay or a remote
  recorded,  \* whether the context state or snapshot lists one
  life       \* "up" or "ended"

state     == <<mem, disk, copy>>
world     == <<alive, ownerRuns, clears>>
resources == <<held, recorded, cleared>>
vars      == <<state, pc, world, resources, life>>

---------------------------------------------------------------------------
Init ==
  /\ mem \in [attached : {{}}, overdue : {{}}, count : {0}, owned : BOOLEAN,
              leaseDue : {FALSE}, idleDue : {FALSE}]
  /\ disk = mem
  /\ copy = [t \in Threads |-> {}]
  /\ pc = [t \in Threads \cup {Cleaner} |-> IF t \in Requests THEN "new" ELSE "idle"]
  /\ alive = Clients /\ ownerRuns = TRUE
  /\ clears \in SUBSET Requests /\ cleared = {}
  /\ held = FALSE /\ recorded \in BOOLEAN
  /\ life = "up"

Goto(t, label) == pc' = [pc EXCEPT ![t] = label]

At(t, label) == life = "up" /\ copy[t] = {} /\ pc[t] = label

\* last_activity_at is now.
Touch(m) == [m EXCEPT !.leaseDue = FALSE, !.idleDue = FALSE]

Without(m, c) == [m EXCEPT !.attached = @ \ {c}, !.overdue = @ \ {c}]

\* _prune_clients_locked: dead processes and missed heartbeats.
Prune(m) == [m EXCEPT !.attached = (@ \ m.overdue) \cap alive, !.overdue = {}]

\* The change of t under _state_lock, and the copy it will publish.
Change(t, m) ==
  /\ mem' = m
  /\ copy' = [copy EXCEPT ![t] = {m}]

\* _persist_state, after the lock is released: the copy replaces the file.  A
\* request that has just begun enters its try after it.
Publish(t) ==
  /\ life = "up"
  /\ \E m \in copy[t] : disk' = m
  /\ copy' = [copy EXCEPT ![t] = {}]
  /\ Goto(t, IF pc[t] = "begin" THEN "run" ELSE pc[t])
  /\ UNCHANGED <<mem, world, resources, life>>

\* Where an exception leads: a request that has just begun is not yet inside its
\* try, one that has finished answers an error, a handler sends no status, and the
\* watcher does not stop in this round.  A failed progress report is dropped.
Raised(label) ==
  CASE label = "begin"  -> "failed"
    [] label = "answer" -> "done"
    [] label \in {"status", "stop"} -> "idle"
    [] OTHER            -> label

\* The publication raises, or what is read for it (the context state, under a
\* file lock that may be busy) does.
PublishFails(t) ==
  /\ life = "up"
  /\ copy[t] # {}
  /\ copy' = [copy EXCEPT ![t] = {}]
  /\ Goto(t, Raised(pc[t]))
  /\ cleared' = IF pc[t] = "answer" THEN cleared \ {t} ELSE cleared
  /\ UNCHANGED <<mem, disk, world, held, recorded, life>>

PublicationEnds(t) == Publish(t) \/ PublishFails(t)

---------------------------------------------------------------------------
(* Requests that change only the daemon's own state: one publication, and    *)
(* for most of them another with the status payload of the answer           *)

Asks(c) == c \in alive /\ At(c, "idle")

Status(c) ==
  /\ At(c, "status")
  /\ Change(c, Prune(mem))
  /\ Goto(c, "idle")
  /\ UNCHANGED <<disk, world, resources, life>>

\* ping and get_state; set_state and status answer with the status payload.
Ping(c) ==
  /\ Asks(c)
  /\ Change(c, Touch(mem))
  /\ \E label \in {"idle", "status"} : Goto(c, label)
  /\ UNCHANGED <<disk, world, resources, life>>

Attach(c) ==
  /\ Asks(c)
  /\ Change(c, [Touch(Prune(Without(mem, c))) EXCEPT !.attached = @ \cup {c}])
  /\ Goto(c, "status")
  /\ UNCHANGED <<disk, world, resources, life>>

\* A client that was pruned is answered not_found and nothing is published.
Heartbeat(c) ==
  /\ Asks(c)
  /\ IF c \in Prune(mem).attached
       THEN Change(c, Touch(Prune(mem))) /\ Goto(c, "status")
       ELSE mem' = Touch(Prune(mem)) /\ UNCHANGED <<copy, pc>>
  /\ UNCHANGED <<disk, world, resources, life>>

Detach(c) ==
  /\ Asks(c)
  /\ Change(c, Touch(Without(mem, c)))
  /\ Goto(c, "status")
  /\ UNCHANGED <<disk, world, resources, life>>

\* Sent by ensure_daemon for a daemon without an owner.
ClaimOwner(c) ==
  /\ Asks(c)
  /\ ~mem.owned
  /\ Change(c, Touch([mem EXCEPT !.owned = TRUE]))
  /\ Goto(c, "status")
  /\ UNCHANGED <<disk, world, resources, life>>

ClientStep(c) ==
  Status(c) \/ Ping(c) \/ Attach(c) \/ Heartbeat(c) \/ Detach(c) \/ ClaimOwner(c)

---------------------------------------------------------------------------
(* _run_exec and _run_clear_context, under _exec_lock                       *)

ExecLockFree == \A r \in Requests : pc[r] \in {"new", "done", "failed"}

\* The count is taken and published before the try whose finally gives it back.
RequestBegin(r) ==
  /\ At(r, "new")
  /\ ExecLockFree
  /\ Change(r, Touch([mem EXCEPT !.count = @ + 1]))
  /\ Goto(r, "begin")
  /\ UNCHANGED <<disk, world, resources, life>>

\* publish(event): progress of the operation renews the activity.
RequestProgress(r) ==
  /\ At(r, "run")
  /\ Change(r, Touch(mem))
  /\ UNCHANGED <<disk, pc, world, resources, life>>

\* An operation opens or releases, or changes nothing that is recorded.
Execute(r) ==
  /\ At(r, "run")
  /\ r \notin clears
  /\ \/ \E b \in BOOLEAN : held' = b /\ recorded' = b
     \/ UNCHANGED <<held, recorded>>
  /\ Goto(r, "finish")
  /\ UNCHANGED <<state, world, cleared, life>>

\* rd.core.shutdown in the worker, or the two files removed when none runs.
ExecuteClear(r) ==
  /\ At(r, "run")
  /\ r \in clears
  /\ held' = FALSE /\ recorded' = FALSE
  /\ cleared' = cleared \cup {r}
  /\ Goto(r, "finish")
  /\ UNCHANGED <<state, world, life>>

\* The worker fails or is lost: what it held goes with it, the record stays.
ExecuteFails(r) ==
  /\ At(r, "run")
  /\ held' = FALSE
  /\ Goto(r, "finish")
  /\ UNCHANGED <<state, world, recorded, cleared, life>>

\* Mutant: a request that ends does not give its count back.
FinishedKeepsCount(m) == Touch(m)

\* Mutant: both the failure and the finally clause give it back.
FinishedTwice(m) == Touch([m EXCEPT !.count = @ - 2])

Finished(m) == Touch([m EXCEPT !.count = IF @ > 0 THEN @ - 1 ELSE 0])

\* The finally clause, on success and on failure.
RequestFinish(r) ==
  /\ At(r, "finish")
  /\ Change(r, Finished(mem))
  /\ Goto(r, "answer")
  /\ UNCHANGED <<disk, world, resources, life>>

\* The finally clause of _run_clear_context reads the context state first; when
\* that raises, the count is kept and nothing is published.
ClearFinishFails(r) ==
  /\ At(r, "finish")
  /\ r \in clears
  /\ cleared' = cleared \ {r}
  /\ Goto(r, "failed")
  /\ UNCHANGED <<state, world, held, recorded, life>>

\* The exec lock is released once the change is published; the answer of a clear
\* is a snapshot, which prunes the clients and may raise.
RequestAnswer(r) ==
  /\ At(r, "answer")
  /\ mem' = IF r \in cleared THEN Prune(mem) ELSE mem
  /\ cleared' \in {cleared, cleared \ {r}}
  /\ Goto(r, "done")
  /\ UNCHANGED <<disk, copy, world, held, recorded, life>>

\* clear_context of the client removes the context state and snapshot itself,
\* after the answer and under no lock of the daemon.
ClearUnlink(r) ==
  /\ life = "up"
  /\ pc[r] = "done" /\ r \in cleared
  /\ recorded' = FALSE
  /\ cleared' = cleared \ {r}
  /\ UNCHANGED <<state, pc, world, held, life>>

RequestStep(r) ==
  \/ RequestBegin(r) \/ RequestProgress(r)
  \/ Execute(r) \/ ExecuteClear(r) \/ ExecuteFails(r)
  \/ RequestFinish(r) \/ ClearFinishFails(r) \/ RequestAnswer(r)
  \/ ClearUnlink(r)

---------------------------------------------------------------------------
(* _watch_lifecycle *)

\* Mutant: the owner's loss counts only once the daemon is idle.
OwnerLostIdle(m) == m.owned /\ ~ownerRuns /\ m.attached = {} /\ m.count = 0 /\ m.idleDue /\ ~recorded

\* owner_lost_should_stop
OwnerLost(m) == m.owned /\ ~ownerRuns /\ m.attached = {} /\ m.leaseDue

\* Mutant: active requests are not asked for.
IdleAnyCount(m) == m.attached = {} /\ m.idleDue /\ ~recorded

\* No client, no request, idle for the timeout, and nothing unreleased.
Idle(m) == m.attached = {} /\ m.count = 0 /\ m.idleDue /\ ~recorded

\* Mutant: the watcher publishes only the change that stops the daemon.
WatchChangeOnStop(m) ==
  IF OwnerLost(m) \/ Idle(m) THEN Change(Watcher, m) ELSE mem' = m /\ UNCHANGED copy

WatchChange(m) == Change(Watcher, m)

WatchDecide ==
  /\ At(Watcher, "idle")
  /\ WatchChange(Prune(mem))
  /\ Goto(Watcher, IF OwnerLost(Prune(mem)) \/ Idle(Prune(mem)) THEN "stop" ELSE "idle")
  /\ UNCHANGED <<disk, world, resources, life>>

\* The process exits, its worker too, and pending publications go with them.
DaemonEnds ==
  /\ life' = "ended"
  /\ copy' = [t \in Threads |-> {}]
  /\ held' = FALSE

DaemonStays == UNCHANGED <<life, copy, held>>

\* _stop, and the loop ends even when the worker's exit is not confirmed and
\* the daemon goes on.
WatchStop ==
  /\ At(Watcher, "stop")
  /\ DaemonEnds \/ DaemonStays
  /\ Goto(Watcher, "over")
  /\ UNCHANGED <<mem, disk, world, recorded, cleared>>

WatchStep == WatchDecide \/ WatchStop

---------------------------------------------------------------------------
(* cleanup_stale_daemon_states on a daemon whose process runs *)

\* _is_client_live
LiveClients(m) == (m.attached \ m.overdue) \cap alive

\* _state_should_reap, of the state file.
ShouldReap ==
  LET read == [disk EXCEPT !.attached = LiveClients(disk)]
  IN OwnerLost(read) \/ Idle(read)

CleanDecide ==
  /\ life = "up"
  /\ pc[Cleaner] = "idle"
  /\ ShouldReap
  /\ Goto(Cleaner, "reap")
  /\ UNCHANGED <<state, world, resources, life>>

\* A shutdown request, then taskkill; neither may succeed.
CleanReap ==
  /\ life = "up"
  /\ pc[Cleaner] = "reap"
  /\ DaemonEnds \/ DaemonStays
  /\ Goto(Cleaner, "idle")
  /\ UNCHANGED <<mem, disk, world, recorded, cleared>>

---------------------------------------------------------------------------
(* The world *)

\* The leases of the clients and of the owner run out, and perhaps the idle
\* timeout too, in memory and in the file, whatever older state it shows.
Late(m, idle) ==
  [m EXCEPT !.overdue = m.attached, !.leaseDue = TRUE, !.idleDue = @ \/ idle]

TimePasses(idle) ==
  /\ life = "up"
  /\ \A t \in Threads : copy[t] = {}
  /\ pc[Watcher] \in {"idle", "over"}
  /\ mem' = Late(mem, idle)
  /\ disk' = Late(disk, idle)
  /\ UNCHANGED <<copy, pc, world, resources, life>>

ClientDies(c) ==
  /\ life = "up"
  /\ c \in alive
  /\ alive' = alive \ {c}
  /\ UNCHANGED <<state, pc, ownerRuns, clears, resources, life>>

OwnerDies ==
  /\ life = "up"
  /\ ownerRuns
  /\ ownerRuns' = FALSE
  /\ UNCHANGED <<state, pc, alive, clears, resources, life>>

---------------------------------------------------------------------------
Next ==
  \/ \E t \in Threads : PublicationEnds(t)
  \/ \E c \in Clients : ClientStep(c) \/ ClientDies(c)
  \/ \E r \in Requests : RequestStep(r)
  \/ WatchStep
  \/ CleanDecide \/ CleanReap
  \/ (\E idle \in BOOLEAN : TimePasses(idle)) \/ OwnerDies

Spec == Init /\ [][Next]_vars

\* The daemon's threads run, the watcher wakes up every second, and time does
\* not stop.  The watcher attempts a publication every second, and now and then
\* one succeeds: what makes them fail, another process that holds the publication
\* lock or has the file open, does not last.  Nothing is assumed of a single
\* attempt, of the other threads' attempts, of clients, cleaners or operations.
FairSpec ==
  /\ Spec
  /\ \A c \in Clients : WF_vars(PublicationEnds(c) \/ Status(c))
  /\ \A r \in Requests : WF_vars(PublicationEnds(r))
  /\ WF_vars(PublicationEnds(Watcher) \/ WatchStep)
  /\ SF_vars(Publish(Watcher))
  /\ SF_vars(TimePasses(TRUE))

---------------------------------------------------------------------------
States == [attached : SUBSET Clients, overdue : SUBSET Clients, count : Nat,
           owned : BOOLEAN, leaseDue : BOOLEAN, idleDue : BOOLEAN]

Labels == {"idle", "status", "new", "begin", "run", "finish", "answer", "done",
           "failed", "stop", "over", "reap"}

InFlight == {r \in Requests : pc[r] \in {"begin", "run", "finish"}}

\* Requests that ended without giving their count back.
Leaked == {r \in Requests : pc[r] = "failed"}

TypeOK ==
  /\ mem \in States /\ disk \in States
  /\ copy \in [Threads -> SUBSET States]
  /\ pc \in [Threads \cup {Cleaner} -> Labels]
  /\ alive \subseteq Clients /\ ownerRuns \in BOOLEAN
  /\ cleared \subseteq clears /\ clears \subseteq Requests
  /\ held \in BOOLEAN /\ recorded \in BOOLEAN /\ life \in {"up", "ended"}

\* What the idle decision counts on: active_request_count is the number of
\* requests between their begin and their finally clause, which _exec_lock keeps
\* at one, and of those whose failed publication lost their count.  It is never
\* too low, and too high only by those.
CountIsInFlightOrLeaked ==
  /\ mem.count = Cardinality(InFlight) + Cardinality(Leaked)
  /\ Cardinality(InFlight) <= 1

\* "Idle time alone cannot stop a live daemon holding [...] an active request"
\* (docs/session-model.md 114), of the watcher when it decides while the owner
\* runs: no request is between its begin and its finally clause, whatever
\* stale publications and pruned clients there are.
WatcherSparesRequests ==
  [][WatchDecide /\ pc'[Watcher] = "stop" /\ ownerRuns => InFlight = {}]_vars

\* The same sentence of captures, replays and remotes, for the watcher and for a
\* cleanup: what is decided from the context files spares what the worker holds.
IdleSparesResources ==
  [][((WatchDecide /\ pc'[Watcher] = "stop") \/ CleanDecide) /\ ownerRuns => ~held]_vars

Abandoned ==
  alive = {} /\ \A r \in Requests : pc[r] \in {"new", "done", "failed"}

Over == life = "ended" \/ pc[Watcher] = "over"

\* A daemon whose owner and clients are gone ends, whatever it still holds and
\* whatever counts were lost.  One that is idle and holds nothing ends too, although
\* its owner runs, if no count was lost: a request whose first publication failed
\* keeps the daemon up for good.  Both unless a request arrives, or the exit of its
\* worker could not be confirmed, in which case nothing watches it any more.
AbandonedEnds ==
  []((Abandoned /\ ((mem.owned /\ ~ownerRuns) \/ (~recorded /\ Leaked = {})))
       => <>(Over \/ ~Abandoned \/ (recorded /\ ownerRuns)))

\* Publications that overtake each other or fail do no lasting harm: as long as
\* the watcher runs, the file that clients and cleanups read agrees with the daemon
\* again and again, unless requests never stop to publish.
FileCatchesUp ==
  []<>(disk = mem \/ Over \/ \E t \in Threads \ {Watcher} : copy[t] # {})
===========================================================================
