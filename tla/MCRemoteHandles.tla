--------------------------- MODULE MCRemoteHandles ---------------------------
\* The remote handles for TLC, and with them three smaller machines that share
\* no variable with them or with each other: the transfer of a capture to the
\* device, the state files and the artifact store.  A behaviour takes the steps
\* of one of the four and leaves the others at their start.
EXTENDS RemoteHandles, CaptureTransfer, AtomicFile, ArtifactStore, TLC

VARIABLE part

PartsInit ==
  /\ Init /\ TransferInit /\ FileInit /\ StoreInit
  /\ part \in {"handles", "transfer", "files", "artifacts"}

PartsNext ==
  /\ UNCHANGED part
  /\ \/ part = "handles" /\ Next /\ UNCHANGED <<transferVars, fileVars, storeVars>>
     \/ part = "transfer" /\ TransferNext /\ UNCHANGED <<vars, fileVars, storeVars>>
     \/ part = "files" /\ FileNext /\ UNCHANGED <<vars, transferVars, storeVars>>
     \/ part = "artifacts" /\ StoreNext /\ UNCHANGED <<vars, transferVars, fileVars>>

PartsSpec == PartsInit /\ [][PartsNext]_<<vars, transferVars, fileVars, storeVars, part>>

RemoteSymmetry == Permutations(Remotes) \cup Permutations(Sessions) \cup Permutations(Forwards)
==============================================================================
