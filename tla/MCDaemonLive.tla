--------------------------- MODULE MCDaemonLive ---------------------------
\* The two machines with weak fairness of the daemon's side, for TLC: the ownership
\* protocol, and one request and a stop of a single daemon.  They share no
\* variable.  A behaviour takes the steps of one of the two, under the fairness of
\* that one, and leaves the other at its start.
EXTENDS DaemonOwnership

CONSTANTS Requests, Stopper, MaxGen, KillMayFail

VARIABLES execLock, ioLock, thread, handle, held, seq, myId, outcome, wst, stdin, job,
          stdout, reader, queue, applied, session, exited, part

requestVars == <<execLock, ioLock, thread, handle, held, seq, myId, outcome, wst, stdin, job,
                 stdout, reader, queue, applied, session, exited>>

Worker == INSTANCE WorkerRequests WITH pc <- thread

LiveInit ==
  /\ Init /\ Worker!Init
  /\ part \in {"ownership", "worker"}

LiveNext ==
  /\ UNCHANGED part
  /\ \/ part = "ownership" /\ Next /\ UNCHANGED requestVars
     \/ part = "worker" /\ Worker!Next /\ UNCHANGED vars

LiveSpec ==
  /\ LiveInit /\ [][LiveNext]_<<vars, requestVars, part>>
  /\ \/ part = "ownership" /\ Fairness
     \/ part = "worker" /\ Worker!Fairness

\* Every accepted request of the daemon ends (worker.py, server.py).
RequestsEnd == part = "worker" => Worker!RequestsEnd

\* A stop that begins ends the daemon and its workers.
StopEnds == part = "worker" => Worker!StopEnds
=============================================================================
