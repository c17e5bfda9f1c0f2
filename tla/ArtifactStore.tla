----------------------------- MODULE ArtifactStore -----------------------------
(***************************************************************************)
(* The content-addressed store of artifacts (rdc_tool/utils/artifact_store. *)
(* py), for one digest.  The workers of all contexts share the directory,   *)
(* so that several may store the same content at a time; unlike the state   *)
(* files (AtomicFile) they share one temporary file, named by the digest,   *)
(* and what protects it is that Windows neither renames nor removes a file  *)
(* that somebody has open, and does not rename onto an existing one.        *)
(*                                                                         *)
(* The content has the chunks 1 .. Size.  A handle keeps its offset when    *)
(* another one truncates the file.                                          *)
(***************************************************************************)
EXTENDS FiniteSets, Naturals

CONSTANTS
  Storers, \* workers that store this content
  Size     \* chunks of the content

ASSUME SizeAssumption == Size \in Nat \ {0}

VARIABLES
  doing,  \* what every worker does
  offset, \* of its handle
  temp,   \* the temporary file
  blob,   \* dest
  hurt    \* history: a worker failed or was killed with the file open

storeVars == <<doing, offset, temp, blob, hurt>>

NoBlob == [exists |-> FALSE, chunks |-> {}]
Blob(c) == [exists |-> TRUE, chunks |-> c]
Full == Blob(1 .. Size)

StoreInit ==
  /\ doing = [w \in Storers |-> "idle"]
  /\ offset = [w \in Storers |-> 0]
  /\ temp = NoBlob /\ blob = NoBlob
  /\ hurt = FALSE

Does(w, d) == doing' = [doing EXCEPT ![w] = d]
OpenBy     == {w \in Storers : doing[w] = "writing"}

---------------------------------------------------------------------------
\* dest.exists: deduplicated
Look(w) ==
  /\ doing[w] = "idle"
  /\ Does(w, IF blob.exists THEN "stored" ELSE "missing")
  /\ UNCHANGED <<offset, temp, blob, hurt>>

\* open(tmp, "wb")
OpenTemp(w) ==
  /\ doing[w] = "missing"
  /\ temp' = Blob({})
  /\ offset' = [offset EXCEPT ![w] = 0]
  /\ Does(w, "writing")
  /\ UNCHANGED <<blob, hurt>>

WriteChunk(w) ==
  /\ doing[w] = "writing"
  /\ offset[w] < Size
  /\ temp' = Blob(temp.chunks \cup {offset[w] + 1})
  /\ offset' = [offset EXCEPT ![w] = @ + 1]
  /\ UNCHANGED <<doing, blob, hurt>>

\* Mutant: the file is closed before the last chunk is written.
AllWrittenEarly(w) == offset[w] + 1 >= Size

AllWritten(w) == offset[w] = Size

CloseTemp(w) ==
  /\ doing[w] = "writing"
  /\ AllWritten(w)
  /\ Does(w, "closed")
  /\ UNCHANGED <<offset, temp, blob, hurt>>

\* Mutant: a file that another worker has open is renamed (POSIX).
MayRenameOpen == temp.exists /\ ~blob.exists

\* os.rename
MayRename == temp.exists /\ OpenBy = {} /\ ~blob.exists

Rename(w) ==
  /\ doing[w] = "closed"
  /\ IF MayRename
       THEN blob' = temp /\ temp' = NoBlob /\ Does(w, "stored")
       ELSE Does(w, "raise") /\ UNCHANGED <<temp, blob>>
  /\ UNCHANGED <<offset, hurt>>

\* os.remove of the temporary file, whoever wrote it last.
RemoveTemp(w) ==
  /\ doing[w] = "raise"
  /\ temp' = IF OpenBy = {} THEN NoBlob ELSE temp
  /\ Does(w, "failed")
  /\ UNCHANGED <<offset, blob, hurt>>

\* The disk is full, the operation is cancelled, or the worker is killed.
WriteFails(w) ==
  /\ doing[w] = "writing"
  /\ hurt' = TRUE
  /\ Does(w, "raise") \/ Does(w, "killed")
  /\ UNCHANGED <<offset, temp, blob>>

KilledClosed(w) ==
  /\ doing[w] \in {"missing", "closed", "raise"}
  /\ Does(w, "killed")
  /\ UNCHANGED <<offset, temp, blob, hurt>>

NextStore(w) ==
  /\ doing[w] \in {"stored", "failed", "killed"}
  /\ Does(w, "idle")
  /\ UNCHANGED <<offset, temp, blob, hurt>>

\* cleanup_artifacts, in any worker; it leaves temporary files alone.
CleanupArtifacts ==
  /\ blob.exists
  /\ blob' = NoBlob
  /\ UNCHANGED <<doing, offset, temp, hurt>>

StorerStep(w) ==
  \/ Look(w) \/ OpenTemp(w) \/ WriteChunk(w) \/ CloseTemp(w) \/ Rename(w)
  \/ RemoveTemp(w) \/ WriteFails(w) \/ KilledClosed(w) \/ NextStore(w)

StoreNext == CleanupArtifacts \/ \E w \in Storers : StorerStep(w)

StoreSpec == StoreInit /\ [][StoreNext]_storeVars

---------------------------------------------------------------------------
Doings == {"idle", "missing", "writing", "closed", "raise", "stored", "failed", "killed"}

\* What is stored under a digest is the whole content of that digest, also when
\* workers store it at the same time and rename or remove each other's
\* temporary file, as long as no worker failed or was killed while it had that
\* file open: then a worker that had truncated it can leave a short file for
\* another one to rename, and no later store replaces it.
BlobIsWhole ==
  /\ doing \in [Storers -> Doings]
  /\ blob.exists /\ ~hurt => blob = Full
===============================================================================
