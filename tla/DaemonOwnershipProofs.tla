----------------------- MODULE DaemonOwnershipProofs -----------------------
(***************************************************************************)
(* Proofs about DaemonOwnership, for any number of clients, daemons and    *)
(* workers: at most one daemon owns the context, the state file names the  *)
(* daemon that serves, and the protocol implements OwnerLease.             *)
(***************************************************************************)
EXTENDS DaemonOwnership, TLAPS

USE RolesAssumption, DistinctAssumption

---------------------------------------------------------------------------
(* The inductive invariant *)

\* The owner lock is a daemon's exactly from its acquisition to its death.
LockInv == \A d \in Daemons : Owning(d) <=> ownerLock = d

\* A state file is the work of a daemon that serves, or that is dead.
FileInv == fileOwner \in Daemons => Serving(fileOwner) \/ proc[fileOwner] = "dead"

\* The publication lock is a client's exactly while it removes a state.
PubInv ==
  \A c \in Clients :
    pc[c] \in {"x_check", "x_missing", "x_probe", "x_unlink"} <=> pubLock = c

\* Under that lock the file still names what the client compared it with.
CheckInv ==
  \A c \in Clients :
    pc[c] \in {"x_probe", "x_unlink"} => fileOwner = seen[c] /\ seen[c] # None

\* A client that is about to remove a state has seen its owner's lock free.
UnlinkInv == \A c \in Clients : pc[c] = "x_unlink" => proc[seen[c]] = "dead"

IInv ==
  /\ TypeOK
  /\ LockInv
  /\ FileInv
  /\ ServingIsPublished
  /\ PubInv
  /\ CheckInv
  /\ UnlinkInv

---------------------------------------------------------------------------
(* Type correctness *)

\* Every variable keeps its type: locks are held by processes of the right
\* kind, and a client is always at a labelled point of its operation.
THEOREM TypeCorrect == Spec => []TypeOK
<1> USE DEF TypeOK, ProcStates, WorkerStates, PCs, ProbeSites, ReturnSites
<1>1. Init => TypeOK
  BY DEF Init
<1>2. TypeOK /\ [Next]_vars => TypeOK'
  <2> SUFFICES ASSUME TypeOK, [Next]_vars PROVE TypeOK'
    OBVIOUS
  <2>1. ASSUME NEW c \in Clients, StartBegin(c) \/ CleanBegin(c) \/ StopBegin(c)
        PROVE  TypeOK'
    BY <2>1 DEF StartBegin, CleanBegin, StopBegin, Goto, locks, file, procs, locals
  <2>2. ASSUME NEW c \in Clients, ClientStep(c)
        PROVE  TypeOK'
    <3>1. CASE ProbeTake(c) \/ ProbeFree(c) \/ ProbeBusy(c)
      BY <3>1 DEF ProbeTake, ProbeFree, ProbeBusy, Return, Finish, Drop, Goto, locks, file, procs, locals
    <3>2. CASE StartLoad(c) \/ StartReuse(c) \/ StartCheckCleaned(c)
      BY <3>2 DEF StartLoad, StartReuse, StartCheckCleaned, Load, Finish, Drop, Goto, locks, file, procs, locals
    <3>3. CASE StartSpawn(c) \/ StartSpawnFails(c) \/ StartReady(c) \/ StartNotReady(c)
      BY <3>3 DEF StartSpawn, StartSpawnFails, StartReady, StartNotReady, Finish, Drop, Goto, locks, file, procs, locals
    <3>4. CASE CleanLoad(c) \/ CleanWorker(c) \/ CleanDecide(c)
      BY <3>4 DEF CleanLoad, CleanWorker, CleanDecide, Load, Return, Finish, Drop, Goto, locks, file, procs, locals
    <3>5. CASE StopLoad(c) \/ StopReload(c) \/ StopPrevious(c) \/ StopWorker(c)
      BY <3>5 DEF StopLoad, StopReload, StopPrevious, StopWorker, Load, Finish, Drop, Goto, locks, file, procs, locals
    <3>6. CASE ExitConfirmed(c) \/ ExitUnconfirmed(c)
      BY <3>6 DEF ExitConfirmed, ExitUnconfirmed, ExitSites, Finish, Drop, Goto, locks, file, procs, locals
    <3>7. CASE ClearLock(c) \/ ClearLockTimeout(c) \/ ClearCheck(c) \/ ClearUnlink(c)
      BY <3>7 DEF ClearLock, ClearLockTimeout, ClearCheck, ClearUnlink, Return, Finish, Drop, Goto, locks, file, procs, locals
    <3>8. QED
      BY <2>2, <3>1, <3>2, <3>3, <3>4, <3>5, <3>6, <3>7 DEF ClientStep
  <2>3. ASSUME NEW c \in Clients, ShutdownRequest(c) \/ KillDaemon(c) \/ ClientDie(c)
        PROVE  TypeOK'
    BY <2>3 DEF ShutdownRequest, KillDaemon, ClientDie, Finish, Drop, locks, file, procs, locals
  <2>4. ASSUME NEW d \in Daemons, DaemonStep(d)
        PROVE  TypeOK'
    BY <2>4 DEF DaemonStep, DaemonAcquire, DaemonPublish, DaemonPublishRefused,
       DaemonSpawnWorker, DaemonPersist, DaemonStop, DaemonStopWorker, DaemonExit,
       Drop, WorkerRunning, locks, file, procs, locals
  <2>5. ASSUME NEW w \in Workers, WorkerExit(w)
        PROVE  TypeOK'
    BY <2>5 DEF WorkerExit, locks, file, locals
  <2>6. CASE UNCHANGED vars
    BY <2>6 DEF vars, locks, file, procs, locals
  <2>7. QED
    BY <2>1, <2>2, <2>3, <2>4, <2>5, <2>6 DEF Next
<1>3. QED
  BY <1>1, <1>2, PTL DEF Spec

---------------------------------------------------------------------------
(* The inductive invariant holds *)

\* A client step leaves the processes alone, except for a spawned child, and
\* takes or drops only its own locks: enough for the invariants on processes.
LEMMA ClientStepPreserves ==
  ASSUME IInv, TypeOK', NEW c \in Clients, ClientStep(c)
  PROVE  IInv'
<1> USE DEF IInv, TypeOK, LockInv, FileInv, ServingIsPublished, PubInv, CheckInv,
            UnlinkInv, Owning, Serving, ProbeSites
<1>1. CASE ProbeTake(c)
  BY <1>1 DEF ProbeTake, file, procs, locals
<1>2. CASE ProbeFree(c)
  BY <1>2 DEF ProbeFree, Return, Finish, Drop, Goto, file, procs, locals, ReturnSites
<1>3. CASE ProbeBusy(c)
  BY <1>3 DEF ProbeBusy, Return, Finish, Drop, Goto, file, procs, locals, ReturnSites
<1>4. CASE StartLoad(c) \/ StartReuse(c) \/ StartCheckCleaned(c)
  BY <1>4 DEF StartLoad, StartReuse, StartCheckCleaned, Load, Finish, Drop, Goto,
     locks, file, procs, locals
<1>5. CASE StartSpawn(c) \/ StartSpawnFails(c) \/ StartReady(c) \/ StartNotReady(c)
  BY <1>5 DEF StartSpawn, StartSpawnFails, StartReady, StartNotReady, Finish, Drop,
     Goto, locks, file, procs, locals
<1>6. CASE CleanLoad(c) \/ CleanWorker(c) \/ CleanDecide(c)
  BY <1>6 DEF CleanLoad, CleanWorker, CleanDecide, Load, Return, Finish, Drop, Goto,
     locks, file, procs, locals, ReturnSites
<1>7. CASE StopLoad(c) \/ StopReload(c) \/ StopPrevious(c) \/ StopWorker(c)
  BY <1>7 DEF StopLoad, StopReload, StopPrevious, StopWorker, Load, Finish, Drop, Goto,
     locks, file, procs, locals
<1>8. CASE ExitConfirmed(c) \/ ExitUnconfirmed(c)
  BY <1>8 DEF ExitConfirmed, ExitUnconfirmed, ExitSites, Finish, Drop, Goto,
     locks, file, procs, locals
<1>9. CASE ClearLock(c) \/ ClearLockTimeout(c) \/ ClearCheck(c)
  BY <1>9 DEF ClearLock, ClearLockTimeout, ClearCheck, Finish, Drop, Goto,
     locks, file, procs, locals
<1>10. CASE ClearUnlink(c)
  BY <1>10 DEF ClearUnlink, Return, Finish, Drop, Goto, procs, locals, ReturnSites
<1>11. QED
  BY <1>1, <1>2, <1>3, <1>4, <1>5, <1>6, <1>7, <1>8, <1>9, <1>10 DEF ClientStep

\* A daemon acquires a free lock, publishes over nothing but its own state, and
\* gives the lock up by dying.
LEMMA DaemonStepPreserves ==
  ASSUME IInv, TypeOK', NEW d \in Daemons, DaemonStep(d)
  PROVE  IInv'
<1> USE DEF IInv, TypeOK, LockInv, FileInv, ServingIsPublished, PubInv, CheckInv,
            UnlinkInv, Owning, Serving
<1>1. CASE DaemonAcquire(d)
  BY <1>1 DEF DaemonAcquire, file, locals
<1>2. CASE DaemonPublish(d)
  BY <1>2 DEF DaemonPublish, MayWrite, locks, locals
<1>3. CASE DaemonPublishRefused(d) \/ DaemonExit(d)
  BY <1>3 DEF DaemonPublishRefused, DaemonExit, Running, Drop, file, locals
<1>4. CASE DaemonSpawnWorker(d) \/ DaemonPersist(d)
  BY <1>4 DEF DaemonSpawnWorker, DaemonPersist, MayWrite, locks, file, procs, locals
<1>5. CASE DaemonStop(d) \/ DaemonStopWorker(d)
  BY <1>5 DEF DaemonStop, DaemonStopWorker, locks, file, locals
<1>6. QED
  BY <1>1, <1>2, <1>3, <1>4, <1>5 DEF DaemonStep

\* Every step keeps the inductive invariant.
LEMMA InvInductive == IInv /\ TypeOK' /\ [Next]_vars => IInv'
<1> SUFFICES ASSUME IInv, TypeOK', [Next]_vars PROVE IInv'
  OBVIOUS
<1> USE DEF IInv, TypeOK, LockInv, FileInv, ServingIsPublished, PubInv, CheckInv,
            UnlinkInv, Owning, Serving
<1>1. ASSUME NEW c \in Clients, StartBegin(c) \/ CleanBegin(c) \/ StopBegin(c)
      PROVE  IInv'
  BY <1>1 DEF StartBegin, CleanBegin, StopBegin, Goto, locks, file, procs, locals
<1>2. ASSUME NEW c \in Clients, ClientStep(c)
      PROVE  IInv'
  BY <1>2, ClientStepPreserves
<1>3. ASSUME NEW c \in Clients, ShutdownRequest(c)
      PROVE  IInv'
  BY <1>3 DEF ShutdownRequest, locks, file, locals
<1>4. ASSUME NEW c \in Clients, KillDaemon(c)
      PROVE  IInv'
  BY <1>4 DEF KillDaemon, Running, Drop, file, locals
<1>5. ASSUME NEW c \in Clients, ClientDie(c)
      PROVE  IInv'
  BY <1>5 DEF ClientDie, Finish, Drop, file, procs, locals
<1>6. ASSUME NEW d \in Daemons, DaemonStep(d)
      PROVE  IInv'
  BY <1>6, DaemonStepPreserves
<1>7. ASSUME NEW w \in Workers, WorkerExit(w)
      PROVE  IInv'
  BY <1>7 DEF WorkerExit, locks, file, locals
<1>8. CASE UNCHANGED vars
  BY <1>8 DEF vars, locks, file, procs, locals
<1>9. QED
  BY <1>1, <1>2, <1>3, <1>4, <1>5, <1>6, <1>7, <1>8 DEF Next

\* The inductive invariant holds at the start.
LEMMA InvInit == Init => IInv
BY DEF Init, IInv, TypeOK, LockInv, FileInv, ServingIsPublished, PubInv, CheckInv,
   UnlinkInv, Owning, Serving, ProcStates, WorkerStates, PCs, ReturnSites

\* The inductive invariant is an invariant.
LEMMA Invariance == Spec => []IInv
<1>1. IInv /\ TypeOK' /\ [Next]_vars => IInv'
  BY InvInductive
<1>2. QED
  BY InvInit, <1>1, TypeCorrect, PTL DEF Spec

---------------------------------------------------------------------------
(* What the invariant gives *)

\* No two daemon processes are past OwnerLease at the same time.
THEOREM MutualExclusion == Spec => []OneOwner
<1>1. IInv => OneOwner
  BY DEF IInv, LockInv, OneOwner
<1>2. QED
  BY <1>1, Invariance, PTL

\* The state file names every daemon that answers requests.
THEOREM ServingDaemonIsPublished == Spec => []ServingIsPublished
<1>1. IInv => ServingIsPublished
  BY DEF IInv
<1>2. QED
  BY <1>1, Invariance, PTL

---------------------------------------------------------------------------
(* Refinement of the abstract lease *)

\* The protocol starts as a free lease.
LEMMA LeaseInit == Init => Lease!Init
BY DEF Init, Lease!Init

\* Every step of the protocol is a step of the lease or leaves it alone.
LEMMA LeaseStep == IInv /\ IInv' /\ [Next]_vars => [Lease!Next]_Lease!vars
<1> SUFFICES ASSUME IInv, IInv', [Next]_vars PROVE [Lease!Next]_Lease!vars
  OBVIOUS
<1> DEFINE holder == IF ownerLock \in Daemons THEN ownerLock ELSE None
           exited == {d \in Daemons : proc[d] = "dead"}
           Stutter == holder' = holder /\ fileOwner' = fileOwner /\ exited' = exited
           Ends(d) == /\ d \in Daemons /\ proc[d] # "dead"
                      /\ proc' = [proc EXCEPT ![d] = "dead"]
                      /\ ownerLock' = Drop(ownerLock, d)
                      /\ fileOwner' = fileOwner
<1> USE DEF IInv, TypeOK
<1>a. Stutter => UNCHANGED Lease!vars
  BY DEF Lease!vars
<1>b. ASSUME NEW d \in Daemons, Ends(d) PROVE Lease!Exit(d)
  <2>1. exited' = exited \cup {d} /\ d \notin exited
    BY <1>b
  <2>2. holder' = IF holder = d THEN None ELSE holder
    BY <1>b DEF Drop
  <2>3. QED
    BY <1>b, <2>1, <2>2 DEF Lease!Exit
<1>1. ASSUME NEW c \in Clients, StartBegin(c) \/ CleanBegin(c) \/ StopBegin(c)
      PROVE  Stutter
  BY <1>1 DEF StartBegin, CleanBegin, StopBegin, locks, file, procs
<1>2. ASSUME NEW c \in Clients, ClientStep(c), ~ClearUnlink(c), ~StartSpawn(c)
      PROVE  Stutter
  <2>1. proc' = proc /\ fileOwner' = fileOwner
    BY <1>2 DEF ClientStep, ProbeTake, ProbeFree, ProbeBusy, StartLoad, StartReuse,
       StartCheckCleaned, StartSpawnFails, StartReady, StartNotReady, CleanLoad,
       CleanWorker, CleanDecide, StopLoad, StopReload, StopPrevious, StopWorker,
       ExitConfirmed, ExitUnconfirmed, ClearLock, ClearLockTimeout, ClearCheck,
       file, procs
  <2>2. ownerLock' \in {ownerLock, Drop(ownerLock, c)} \/ (ownerLock = None /\ ownerLock' = c)
    BY <1>2 DEF ClientStep, ProbeTake, ProbeFree, ProbeBusy, StartLoad, StartReuse,
       StartCheckCleaned, StartSpawnFails, StartReady, StartNotReady, CleanLoad,
       CleanWorker, CleanDecide, StopLoad, StopReload, StopPrevious, StopWorker,
       ExitConfirmed, ExitUnconfirmed, ClearLock, ClearLockTimeout, ClearCheck,
       Return, Finish, Drop, locks
  <2>3. QED
    BY <2>1, <2>2 DEF Drop
<1>3. ASSUME NEW c \in Clients, StartSpawn(c)
      PROVE  Stutter
  BY <1>3 DEF StartSpawn, locks, file
<1>4. ASSUME NEW c \in Clients, ClearUnlink(c)
      PROVE  Lease!Retire
  <2>1. fileOwner = seen[c] /\ fileOwner # None /\ proc[fileOwner] = "dead"
    BY <1>4 DEF ClearUnlink, CheckInv, UnlinkInv
  <2>2. ownerLock' \in {ownerLock, Drop(ownerLock, c)} /\ proc' = proc /\ fileOwner' = None
    BY <1>4 DEF ClearUnlink, Return, Finish, procs
  <2>3. QED
    BY <2>1, <2>2 DEF Lease!Retire, Drop
<1>5. ASSUME NEW c \in Clients, ShutdownRequest(c)
      PROVE  Stutter
  BY <1>5 DEF ShutdownRequest, locks, file
<1>6. ASSUME NEW c \in Clients, KillDaemon(c)
      PROVE  Stutter \/ \E d \in Daemons : Ends(d)
  BY <1>6 DEF KillDaemon, Running, Drop, file
<1>7. ASSUME NEW c \in Clients, ClientDie(c)
      PROVE  Stutter
  BY <1>7 DEF ClientDie, Finish, Drop, file, procs
<1>8. ASSUME NEW d \in Daemons, DaemonStep(d)
      PROVE  Stutter \/ Ends(d) \/ Lease!Acquire(d) \/ Lease!Publish
  <2>1. CASE DaemonAcquire(d)
    BY <2>1 DEF DaemonAcquire, LockInv, Owning, Drop, file, Lease!Acquire
  <2>2. CASE DaemonPublish(d)
    BY <2>2 DEF DaemonPublish, MayWrite, LockInv, FileInv, Owning, Serving, locks, Lease!Publish
  <2>3. CASE DaemonPublishRefused(d) \/ DaemonExit(d)
    BY <2>3 DEF DaemonPublishRefused, DaemonExit, Running, file
  <2>4. CASE DaemonSpawnWorker(d) \/ DaemonPersist(d)
    BY <2>4 DEF DaemonSpawnWorker, DaemonPersist, MayWrite, ServingIsPublished, locks, file, procs
  <2>5. CASE DaemonStop(d) \/ DaemonStopWorker(d)
    BY <2>5 DEF DaemonStop, DaemonStopWorker, locks, file
  <2>6. QED
    BY <1>8, <2>1, <2>2, <2>3, <2>4, <2>5 DEF DaemonStep
<1>9. ASSUME NEW w \in Workers, WorkerExit(w)
      PROVE  Stutter
  BY <1>9 DEF WorkerExit, locks, file
<1>10. CASE UNCHANGED vars
  BY <1>10, <1>a DEF vars, locks, file, procs
<1>11. QED
  BY <1>1, <1>2, <1>3, <1>4, <1>5, <1>6, <1>7, <1>8, <1>9, <1>10, <1>a, <1>b
     DEF Next, Lease!Next

\* The start, reap and stop protocol implements the lease callers rely on.
THEOREM OwnershipImplementsLease == Spec => ImplementsLease
<1>1. Init => Lease!Init
  BY LeaseInit
<1>2. IInv /\ IInv' /\ [Next]_vars => [Lease!Next]_Lease!vars
  BY LeaseStep
<1>3. QED
  BY <1>1, <1>2, Invariance, PTL DEF Spec, ImplementsLease, Lease!Spec
===========================================================================
