------------------------------ MODULE AtomicFile ------------------------------
(***************************************************************************)
(* The state files that client, daemon and worker share                    *)
(* (rdc_tool/io_utils.py atomic_write_text and atomic_swap_path): a write   *)
(* goes to a temporary file of its own, which then replaces the file.       *)
(* Nothing is locked here: the daemon state and the worker state are read   *)
(* and written by processes that hold no common lock.                       *)
(*                                                                         *)
(* The directory has the file and one temporary file per writer; a file is *)
(* written in two halves.  The file system is that of Windows: a file that  *)
(* a reader has open is neither replaced nor removed.  A writer may be      *)
(* killed at every step.                                                    *)
(***************************************************************************)
EXTENDS Naturals

CONSTANTS
  Writers,  \* processes that write the file; also the names of their texts
  Readers,
  Final,    \* the path of the file
  Missing,
  Attempted \* retries + 1

ASSUME WriterAssumption == Final \notin Writers /\ Missing \notin Writers
ASSUME AttemptedAssumption == Attempted \in Nat \ {0}

VARIABLES
  disk,    \* every path: the text, and how much of it is there
  step,    \* what every writer does
  failures, \* of os.replace in the write in progress
  reading, \* readers that have the file open
  got      \* what every reader read last

fileVars == <<disk, step, failures, reading, got>>

Torn == "torn"
NoText == [text |-> Missing, part |-> 0]
Half(w)  == [text |-> w, part |-> 1]
Whole(w) == [text |-> w, part |-> 2]

\* Mutant: all writers use one name.
SharedName(w) == CHOOSE x \in Writers : TRUE

\* Mutant: the text goes to the file itself.
InPlace(w) == Final

\* tempfile.mkstemp
TempOf(w) == w

Content(c) == IF c = NoText THEN Missing ELSE IF c.part = 2 THEN c.text ELSE Torn

FileInit ==
  /\ disk = [p \in Writers \cup {Final} |-> NoText]
  /\ step = [w \in Writers |-> "idle"]
  /\ failures = [w \in Writers |-> 0]
  /\ reading = {}
  /\ got = [r \in Readers |-> Missing]

To(w, s) == step' = [step EXCEPT ![w] = s]

---------------------------------------------------------------------------
Create(w) ==
  /\ step[w] \in {"idle", "written", "failed", "killed"}
  /\ disk' = [disk EXCEPT ![TempOf(w)] = NoText]
  /\ failures' = [failures EXCEPT ![w] = 0]
  /\ To(w, "empty")
  /\ UNCHANGED <<reading, got>>

FillHalf(w) ==
  /\ step[w] = "empty"
  /\ disk' = [disk EXCEPT ![TempOf(w)] = Half(w)]
  /\ To(w, "half")
  /\ UNCHANGED <<failures, reading, got>>

\* The rest of this writer's text, if it still is its file.
Fill(w) ==
  /\ step[w] = "half"
  /\ disk' = [disk EXCEPT ![TempOf(w)] = IF @ = Half(w) THEN Whole(w) ELSE @]
  /\ To(w, "full")
  /\ UNCHANGED <<failures, reading, got>>

\* The write raises: the disk is full.
FillFails(w) ==
  /\ step[w] \in {"empty", "half"}
  /\ To(w, "raise")
  /\ UNCHANGED <<disk, failures, reading, got>>

\* os.replace
Swap(w) ==
  /\ step[w] = "full"
  /\ reading = {} /\ disk[TempOf(w)] # NoText
  /\ disk' = [disk EXCEPT ![Final] = disk[TempOf(w)], ![TempOf(w)] = NoText]
  /\ To(w, "written")
  /\ UNCHANGED <<failures, reading, got>>

\* A reader has the file open, or somebody else has either of the two.
SwapFails(w) ==
  /\ step[w] = "full"
  /\ failures' = [failures EXCEPT ![w] = @ + 1]
  /\ To(w, IF failures[w] + 1 = Attempted THEN "raise" ELSE "full")
  /\ UNCHANGED <<disk, reading, got>>

\* _cleanup_path swallows its own failure.
CleanUp(w) ==
  /\ step[w] = "raise"
  /\ disk' \in {disk, [disk EXCEPT ![TempOf(w)] = NoText]}
  /\ To(w, "failed")
  /\ UNCHANGED <<failures, reading, got>>

Killed(w) ==
  /\ step[w] \in {"empty", "half", "full", "raise"}
  /\ To(w, "killed")
  /\ UNCHANGED <<disk, failures, reading, got>>

---------------------------------------------------------------------------
\* clear_daemon_state, clear_worker_state
Unlink ==
  /\ reading = {}
  /\ disk' = [disk EXCEPT ![Final] = NoText]
  /\ UNCHANGED <<step, failures, reading, got>>

ReadOpen(r) ==
  /\ r \notin reading
  /\ disk[Final] # NoText
  /\ reading' = reading \cup {r}
  /\ UNCHANGED <<disk, step, failures, got>>

ReadEnd(r) ==
  /\ r \in reading
  /\ got' = [got EXCEPT ![r] = Content(disk[Final])]
  /\ reading' = reading \ {r}
  /\ UNCHANGED <<disk, step, failures>>

WriterStep(w) ==
  \/ Create(w) \/ FillHalf(w) \/ Fill(w) \/ FillFails(w)
  \/ Swap(w) \/ SwapFails(w) \/ CleanUp(w) \/ Killed(w)

FileNext ==
  \/ \E w \in Writers : WriterStep(w)
  \/ Unlink
  \/ \E r \in Readers : ReadOpen(r) \/ ReadEnd(r)

FileSpec == FileInit /\ [][FileNext]_fileVars

---------------------------------------------------------------------------
Steps == {"idle", "empty", "half", "full", "raise", "written", "failed", "killed"}
Texts(W) == {NoText} \cup {Half(w) : w \in W} \cup {Whole(w) : w \in W}

\* A writer's temporary file holds what this writer has written to it, its
\* attempts are bounded, and the file itself is whole or missing.
FileInv ==
  /\ disk \in [Writers \cup {Final} -> Texts(Writers)]
  /\ step \in [Writers -> Steps]
  /\ failures \in [Writers -> 0 .. Attempted]
  /\ reading \subseteq Readers
  /\ got \in [Readers -> Writers \cup {Missing}]
  /\ \A w \in Writers : /\ step[w] \in {"empty", "half", "full"} => failures[w] < Attempted
                        /\ step[w] = "half" => disk[w] = Half(w)
                        /\ step[w] = "full" => disk[w] = Whole(w)
  /\ disk[Final].part # 1

---------------------------------------------------------------------------
\* A killed writer counts as failed: what it had not replaced is not written.
OutcomeOf(s) ==
  IF s = "idle" THEN "none"
  ELSE IF s = "written" THEN "written"
  ELSE IF s \in {"failed", "killed"} THEN "failed" ELSE "writing"

Register == INSTANCE FileRegister WITH
  value   <- Content(disk[Final]),
  outcome <- [w \in Writers |-> OutcomeOf(step[w])],
  seen    <- got

\* However writers and readers interleave, fail and are killed, the file is a
\* register: it changes only by a write that succeeds, at once, or by a
\* removal, a failed write leaves it alone, and a reader gets one whole text
\* (io_utils.py 71).
ImplementsRegister == Register!RegisterSpec
===============================================================================
