------------------------------- MODULE FileProofs -------------------------------
(***************************************************************************)
(* Proofs about the files that outlive a process.  AtomicFile, for every   *)
(* set of writers and readers: a state file is whole or missing, and a     *)
(* register to the processes that share it.  ArtifactStore, for every      *)
(* number of workers and chunks: what is stored under a digest is whole    *)
(* although the workers share one temporary file, as long as none of them  *)
(* fails while it has it open.                                             *)
(***************************************************************************)
EXTENDS AtomicFile, ArtifactStore, TLAPS

\* What the texts are: no half is the whole or nothing, and a file that is not
\* a half gives a writer's text or Missing to who reads it.
LEMMA Contents ==
  /\ \A w \in Writers : /\ Half(w) # NoText /\ Whole(w) # NoText
                        /\ Half(w) \in Texts(Writers) /\ Whole(w) \in Texts(Writers)
                        /\ Whole(w).part # 1
                        /\ Content(Whole(w)) = w
  /\ NoText \in Texts(Writers) /\ NoText.part # 1 /\ Content(NoText) = Missing
  /\ \A c \in Texts(Writers) : c.part # 1 => Content(c) \in Writers \cup {Missing}
<1>1. \A w \in Writers : /\ Half(w) # NoText /\ Whole(w) # NoText
                          /\ Whole(w).part # 1
                          /\ Content(Whole(w)) = w
  BY DEF Half, Whole, NoText, Content
<1>2. NoText \in Texts(Writers) /\ NoText.part # 1 /\ Content(NoText) = Missing
  BY DEF NoText, Texts, Content
<1>3. \A w \in Writers : Half(w) \in Texts(Writers) /\ Whole(w) \in Texts(Writers)
  BY DEF Texts
<1>4. \A w \in Writers : Half(w).part = 1
  BY DEF Half
<1>5. ASSUME NEW c \in Texts(Writers), c.part # 1
      PROVE  Content(c) \in Writers \cup {Missing}
  <2>1. c = NoText \/ \E w \in Writers : c = Whole(w)
    BY <1>4, <1>5 DEF Texts
  <2> QED
    BY <1>1, <1>2, <2>1
<1> QED
  BY <1>1, <1>2, <1>3, <1>5

---------------------------------------------------------------------------
\* Nothing is written at first.
LEMMA FileInitInv == FileInit => FileInv
BY Contents, AttemptedAssumption DEF FileInit, FileInv, Steps

\* A write goes to the writer's own temporary file, and only one that is whole
\* replaces the file.
LEMMA FileStepInv == FileInv /\ [FileNext]_fileVars => FileInv'
<1> SUFFICES ASSUME FileInv, [FileNext]_fileVars PROVE FileInv'
  OBVIOUS
<1> USE Contents, WriterAssumption, AttemptedAssumption
<1>1. ASSUME NEW w \in Writers, WriterStep(w) PROVE FileInv'
  <2> USE DEF FileInv, To, TempOf, Steps
  <2>1. CASE Create(w) BY <2>1 DEF Create
  <2>2. CASE FillHalf(w) BY <2>2 DEF FillHalf
  <2>3. CASE Fill(w) BY <2>3 DEF Fill
  <2>4. CASE FillFails(w) BY <2>4 DEF FillFails
  <2>5. CASE Swap(w) BY <2>5 DEF Swap
  <2>6. CASE SwapFails(w) BY <2>6 DEF SwapFails
  <2>7. CASE CleanUp(w) BY <2>7 DEF CleanUp
  <2>8. CASE Killed(w) BY <2>8 DEF Killed
  <2> QED
    BY <1>1, <2>1, <2>2, <2>3, <2>4, <2>5, <2>6, <2>7, <2>8 DEF WriterStep
<1>2. CASE Unlink
  BY <1>2 DEF Unlink, FileInv
<1>3. ASSUME NEW r \in Readers, ReadOpen(r) PROVE FileInv'
  BY <1>3 DEF ReadOpen, FileInv
<1>4. ASSUME NEW r \in Readers, ReadEnd(r) PROVE FileInv'
  <2>1. Content(disk[Final]) \in Writers \cup {Missing}
    BY DEF FileInv
  <2> QED
    BY <1>4, <2>1 DEF ReadEnd, FileInv
<1>5. CASE UNCHANGED fileVars
  BY <1>5 DEF fileVars, FileInv
<1> QED
  BY <1>1, <1>2, <1>3, <1>4, <1>5 DEF FileNext

\* The temporary file of a writer holds what this writer has written to it and
\* the state file is never a half, however writers fail and are killed
\* (io_utils.py 129-147).
THEOREM FileIsWhole == FileSpec => []FileInv
BY FileInitInv, FileStepInv, PTL DEF FileSpec

---------------------------------------------------------------------------
\* The register's outcomes of the writers.
Outcomes == [w \in Writers |-> OutcomeOf(step[w])]

\* A step of one writer changes its own outcome only.
LEMMA OutcomesAfter ==
  ASSUME step \in [Writers -> Steps], NEW w \in Writers, NEW s \in Steps, To(w, s)
  PROVE  Outcomes' = [Outcomes EXCEPT ![w] = OutcomeOf(s)]
BY DEF Outcomes, To, OutcomeOf

\* Every step of the code is a step of the register or leaves it as it is: a
\* write happens in its os.replace and nowhere else.
LEMMA FileStepRefines ==
  FileInv /\ [FileNext]_fileVars => [Register!RegisterNext]_(Register!registerVars)
<1> SUFFICES ASSUME FileInv, [FileNext]_fileVars
             PROVE  [Register!RegisterNext]_(Register!registerVars)
  OBVIOUS
<1> DEFINE value == Content(disk[Final])
<1>t. step \in [Writers -> Steps]
  BY DEF FileInv
<1> USE Contents, WriterAssumption
<1>1. ASSUME NEW w \in Writers, WriterStep(w)
      PROVE  [Register!RegisterNext]_(Register!registerVars)
  <2> USE DEF TempOf, FileInv
  <2>1. ASSUME Create(w) \/ FillHalf(w) \/ Fill(w) \/ FillFails(w) \/ SwapFails(w) \/ CleanUp(w) \/ Killed(w)
        PROVE  value' = value /\ UNCHANGED got
    BY <2>1 DEF Create, FillHalf, Fill, FillFails, SwapFails, CleanUp, Killed
  <2>2. CASE Create(w)
    <3>1. Outcomes[w] # "writing" /\ Outcomes' = [Outcomes EXCEPT ![w] = "writing"]
      BY <1>t, <2>2, OutcomesAfter DEF Create, Steps, OutcomeOf, Outcomes
    <3> QED
      BY <2>1, <2>2, <3>1 DEF Register!RegisterNext, Register!Begin, Register!Ends, Outcomes
  <2>3. CASE FillHalf(w) \/ Fill(w) \/ FillFails(w) \/ SwapFails(w)
    <3>1. \E s \in {"half", "full", "raise"} : To(w, s) /\ step[w] \in {"empty", "half", "full"}
      BY <2>3 DEF FillHalf, Fill, FillFails, SwapFails
    <3>2. Outcomes' = Outcomes
      <4>1. PICK s \in {"half", "full", "raise"} : To(w, s) /\ step[w] \in {"empty", "half", "full"}
        BY <3>1
      <4>2. Outcomes' = [Outcomes EXCEPT ![w] = "writing"]
        BY <1>t, <4>1, OutcomesAfter DEF Steps, OutcomeOf
      <4>3. Outcomes[w] = "writing"
        BY <1>t, <4>1 DEF Outcomes, Steps, OutcomeOf
      <4> QED
        BY <4>2, <4>3 DEF Outcomes
    <3> QED
      BY <2>1, <2>3, <3>2 DEF Register!registerVars, Outcomes
  <2>4. CASE Swap(w)
    <3>1. Outcomes[w] = "writing" /\ Outcomes' = [Outcomes EXCEPT ![w] = "written"]
      BY <1>t, <2>4, OutcomesAfter DEF Swap, Steps, OutcomeOf, Outcomes
    <3>2. value' = w /\ UNCHANGED got
      BY <2>4 DEF Swap
    <3> QED
      BY <3>1, <3>2 DEF Register!RegisterNext, Register!Write, Register!Ends, Outcomes
  <2>5. CASE CleanUp(w) \/ Killed(w)
    <3>1. Outcomes[w] = "writing" /\ Outcomes' = [Outcomes EXCEPT ![w] = "failed"]
      <4>1. CASE CleanUp(w)
        BY <1>t, <4>1, OutcomesAfter DEF CleanUp, Steps, OutcomeOf, Outcomes
      <4>2. CASE Killed(w)
        BY <1>t, <4>2, OutcomesAfter DEF Killed, Steps, OutcomeOf, Outcomes
      <4> QED
        BY <2>5, <4>1, <4>2
    <3> QED
      BY <2>1, <2>5, <3>1 DEF Register!RegisterNext, Register!Fail, Register!Ends, Outcomes
  <2> QED
    BY <1>1, <2>2, <2>3, <2>4, <2>5 DEF WriterStep
<1>2. CASE Unlink
  <2>1. value' = Missing /\ UNCHANGED <<step, got>>
    BY <1>2 DEF Unlink, FileInv
  <2> QED
    BY <2>1 DEF Register!RegisterNext, Register!Remove
<1>3. ASSUME NEW r \in Readers, ReadOpen(r)
      PROVE  [Register!RegisterNext]_(Register!registerVars)
  BY <1>3 DEF ReadOpen, Register!registerVars
<1>4. ASSUME NEW r \in Readers, ReadEnd(r)
      PROVE  [Register!RegisterNext]_(Register!registerVars)
  BY <1>4 DEF ReadEnd, Register!RegisterNext, Register!Read
<1>5. CASE UNCHANGED fileVars
  BY <1>5 DEF fileVars, Register!registerVars
<1> QED
  BY <1>1, <1>2, <1>3, <1>4, <1>5 DEF FileNext

\* The initial states are those of the register.
LEMMA FileInitRefines == FileInit => Register!RegisterInit
BY Contents, WriterAssumption DEF FileInit, Register!RegisterInit, OutcomeOf

\* The temporary file and its replacement implement the register: for every
\* number of writers and readers, a state file changes at once or not at all
\* and a reader gets one whole text (io_utils.py 79-147).
THEOREM FileImplementsRegister == FileSpec => ImplementsRegister
<1>1. FileInit /\ [][FileNext]_fileVars => ImplementsRegister
  BY FileIsWhole, FileInitRefines, FileStepRefines, PTL DEF ImplementsRegister, Register!RegisterSpec, FileSpec
<1> QED
  BY <1>1 DEF FileSpec

---------------------------------------------------------------------------
(* ArtifactStore                                                           *)

\* Files are sets of chunks, and an open handle is on a file that is there.
StoreTypeOK ==
  /\ doing \in [Storers -> Doings]
  /\ offset \in [Storers -> 0 .. Size]
  /\ temp \in [exists : BOOLEAN, chunks : SUBSET (1 .. Size)]
  /\ blob \in [exists : BOOLEAN, chunks : SUBSET (1 .. Size)]
  /\ \A w \in Storers : doing[w] = "writing" => temp.exists

\* The temporary file is whole, or a worker still has it open and everything it
\* wrote so far is there: the one that truncated the file last.
TempInv ==
  temp.exists /\ ~hurt =>
    \/ temp = Full
    \/ \E w \in Storers : doing[w] = "writing" /\ 1 .. offset[w] \subseteq temp.chunks

StoreInv == StoreTypeOK /\ TempInv /\ BlobIsWhole

\* What was written of a file is at most the whole of it.
LEMMA Chunks ==
  /\ NoBlob \in [exists : BOOLEAN, chunks : SUBSET (1 .. Size)] /\ ~NoBlob.exists
  /\ \A c \in SUBSET (1 .. Size) :
       /\ Blob(c) \in [exists : BOOLEAN, chunks : SUBSET (1 .. Size)]
       /\ Blob(c).exists /\ Blob(c).chunks = c
       /\ 1 .. Size \subseteq c => Blob(c) = Full
BY DEF NoBlob, Blob, Full

\* A file that is there and has all chunks is the whole content.
LEMMA AllChunks ==
  ASSUME NEW f \in [exists : BOOLEAN, chunks : SUBSET (1 .. Size)], f.exists, 1 .. Size \subseteq f.chunks
  PROVE  f = Full
BY DEF Full, Blob

\* There are no files at first.
LEMMA StoreInitInv == StoreInit => StoreInv
BY Chunks, SizeAssumption DEF StoreInit, StoreInv, StoreTypeOK, TempInv, BlobIsWhole, Doings, NoBlob

\* The last worker that opened the file writes all of it before it closes it,
\* and a file that somebody has open is neither renamed nor removed.
LEMMA StoreStepInv == StoreInv /\ [StoreNext]_storeVars => StoreInv'
<1> SUFFICES ASSUME StoreInv, [StoreNext]_storeVars PROVE StoreInv'
  OBVIOUS
<1> USE Chunks, SizeAssumption DEF StoreInv
<1>1. ASSUME NEW w \in Storers, StorerStep(w) PROVE StoreInv'
  <2> USE DEF StoreTypeOK, Does, Doings
  <2>1. CASE Look(w)
    BY <2>1 DEF Look, TempInv, BlobIsWhole
  <2>2. CASE OpenTemp(w)
    <3>1. StoreTypeOK' /\ BlobIsWhole'
      BY <2>2 DEF OpenTemp, BlobIsWhole
    <3>2. doing'[w] = "writing" /\ offset'[w] = 0
      BY <2>2 DEF OpenTemp
    <3> QED
      BY <3>1, <3>2 DEF TempInv
  <2>3. CASE WriteChunk(w)
    <3>1. StoreTypeOK' /\ BlobIsWhole'
      BY <2>3 DEF WriteChunk, BlobIsWhole
    <3>2. /\ temp'.chunks = temp.chunks \cup {offset[w] + 1} /\ temp'.exists
          /\ doing' = doing /\ hurt' = hurt /\ temp.exists
          /\ offset[w] + 1 \in 1 .. Size
          /\ offset' = [offset EXCEPT ![w] = offset[w] + 1]
      BY <2>3 DEF WriteChunk
    <3>3. CASE temp = Full
      <4>1. 1 .. Size \subseteq temp'.chunks
        BY <3>2, <3>3 DEF Full
      <4> QED
        BY <3>1, <4>1, <3>2, AllChunks DEF TempInv
    <3>4. ASSUME NEW v \in Storers, doing[v] = "writing", 1 .. offset[v] \subseteq temp.chunks
          PROVE  doing'[v] = "writing" /\ 1 .. offset'[v] \subseteq temp'.chunks
      BY <3>2, <3>4
    <3> QED
      BY <3>1, <3>2, <3>3, <3>4 DEF TempInv
  <2>4. CASE CloseTemp(w)
    <3>1. StoreTypeOK' /\ BlobIsWhole'
      BY <2>4 DEF CloseTemp, BlobIsWhole
    <3>2. /\ doing' = [doing EXCEPT ![w] = "closed"] /\ UNCHANGED <<offset, temp, hurt>>
          /\ offset[w] = Size /\ temp.exists
      BY <2>4 DEF CloseTemp, AllWritten
    <3>3. 1 .. offset[w] \subseteq temp.chunks => temp = Full
      BY <3>2, AllChunks
    <3> QED
      BY <3>1, <3>2, <3>3 DEF TempInv
  <2>5. CASE Rename(w)
    <3>1. StoreTypeOK'
      BY <2>5 DEF Rename, MayRename, OpenBy
    <3>2. TempInv'
      BY <2>5 DEF Rename, MayRename, OpenBy, TempInv
    <3>3. BlobIsWhole'
      BY <2>5 DEF Rename, MayRename, OpenBy, TempInv, BlobIsWhole
    <3> QED
      BY <3>1, <3>2, <3>3
  <2>6. CASE RemoveTemp(w)
    BY <2>6 DEF RemoveTemp, OpenBy, TempInv, BlobIsWhole
  <2>7. CASE WriteFails(w)
    BY <2>7 DEF WriteFails, TempInv, BlobIsWhole
  <2>8. CASE KilledClosed(w)
    BY <2>8 DEF KilledClosed, TempInv, BlobIsWhole
  <2>9. CASE NextStore(w)
    BY <2>9 DEF NextStore, TempInv, BlobIsWhole
  <2> QED
    BY <1>1, <2>1, <2>2, <2>3, <2>4, <2>5, <2>6, <2>7, <2>8, <2>9 DEF StorerStep
<1>2. CASE CleanupArtifacts
  BY <1>2 DEF CleanupArtifacts, StoreTypeOK, TempInv, BlobIsWhole
<1>3. CASE UNCHANGED storeVars
  BY <1>3 DEF storeVars, StoreTypeOK, TempInv, BlobIsWhole, Doings
<1> QED
  BY <1>1, <1>2, <1>3 DEF StoreNext

\* What is stored under a digest is the whole content of that digest, for every
\* number of workers that store it at the same time (artifact_store.py 129-143
\* and 198-215).
THEOREM StoredIsWhole == StoreSpec => []BlobIsWhole
<1>1. StoreInv => BlobIsWhole
  BY DEF StoreInv
<1> QED
  BY StoreInitInv, StoreStepInv, <1>1, PTL DEF StoreSpec
===============================================================================
