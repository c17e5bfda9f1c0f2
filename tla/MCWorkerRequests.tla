------------------------ MODULE MCWorkerRequests ------------------------
\* Instances of WorkerRequests for TLC.
EXTENDS WorkerRequests, TLC

RequestSymmetry == Permutations(Requests)
==========================================================================
