------------------------- MODULE CaptureTransferProofs -------------------------
(***************************************************************************)
(* Proofs about CaptureTransfer, for every number of attempts and writers  *)
(* left on the device: the safety properties of the model.                 *)
(***************************************************************************)
EXTENDS CaptureTransfer, TLAPS

---------------------------------------------------------------------------
(* The inductive invariant *)

\* The attempt in progress, and what attempts that have not begun have done.
NonceInv ==
  /\ stage = "start" <=> nonce = Nobody
  /\ \A a \in Attempts : outcome[a] = "none" => writer[a] = "none" /\ shell[a] = "none"

\* A file in the cache was created by a writer that opened it.
CreatorInv == \A a \in Attempts : cache.by = a => writer[a] \notin {"none", "starting"}

\* What the attempt in progress may rely on: until its receipt there is no
\* writer of its own, and with the receipt the file is its own until it ends,
\* whatever the writers of earlier attempts do.
StageInv ==
  /\ stage \in {"look", "mkdir"} => shell[nonce] = "none"
  /\ stage \in {"look", "mkdir", "push", "source", "pipe"} => writer[nonce] = "none"
  /\ stage = "receipt" /\ writer[nonce] \in {"writing", "done", "failed"} => cache.by = nonce
  /\ stage \in {"verify", "claim", "remove"} =>
       cache.by = nonce /\ writer[nonce] \in {"done", "failed"}
  /\ stage \in {"clean", "fail", "open"} => writer[nonce] # "starting"
  /\ stage = "clean" => owned
  /\ stage = "fail" /\ cache.by = nonce /\ ~owned => "cache" \in told[nonce]
  /\ stage = "open" => shell[nonce] = "none" /\ (cache.by = nonce => owned)

\* Nobody opens what is not whole, and while a replay has the file open no
\* attempt comes to create or remove it.
WholeInv ==
  /\ stage \in {"claim", "clean", "open"} \/ opened => cache.content = "whole"
  /\ opened => stage \in {"start", "look", "open"}

\* A writer that has yet to create the file was announced by its attempt.
AnnouncedInv ==
  \A a \in Attempts :
    outcome[a] \in {"failed", "returned"} /\ writer[a] = "starting" => "cache" \in told[a]

TransferInv ==
  /\ TransferTypeOK /\ NonceInv /\ CreatorInv /\ StageInv /\ WholeInv /\ AnnouncedInv
  /\ LeftoversAreNamed

\* Every action keeps the invariant; conjuncts that speak of no variable an
\* action changes are taken together.
LEMMA StepInv == TransferInv /\ [TransferNext]_transferVars => TransferInv'
<1> SUFFICES ASSUME TransferInv, [TransferNext]_transferVars PROVE TransferInv'
  OBVIOUS
<1> USE NobodyAssumption DEF TransferInv
<1>1. ASSUME NEW a \in Attempts, Begin(a) PROVE TransferInv'
  <2>1. TransferTypeOK'
    BY <1>1 DEF Begin, TransferTypeOK, Contents, NoFile, NonceInv
  <2>2. NonceInv'
    BY <1>1 DEF Begin, TransferTypeOK, Contents, NoFile, NonceInv
  <2>3. StageInv'
    BY <1>1 DEF Begin, TransferTypeOK, Contents, NoFile, NonceInv, StageInv
  <2>4. WholeInv'
    BY <1>1 DEF Begin, TransferTypeOK, Contents, NoFile, WholeInv
  <2>5. AnnouncedInv'
    BY <1>1 DEF Begin, TransferTypeOK, Contents, NoFile, AnnouncedInv
  <2>6. LeftoversAreNamed'
    BY <1>1 DEF Begin, TransferTypeOK, Contents, NoFile, LeftoversAreNamed
  <2>7. CreatorInv'
    BY <1>1 DEF Begin, CreatorInv
  <2> QED
    BY <2>1, <2>2, <2>3, <2>4, <2>5, <2>6, <2>7
<1>2. CASE LookUp
  <2>1. TransferTypeOK'
    BY <1>2 DEF LookUp, Reusable, Proceed, Fail, TransferTypeOK, Contents, NoFile
  <2>2. NonceInv'
    BY <1>2 DEF LookUp, Reusable, Proceed, Fail, TransferTypeOK, Contents, NoFile, NonceInv
  <2>3. StageInv'
    BY <1>2
       DEF LookUp, Reusable, Proceed, Fail, TransferTypeOK, Contents, NoFile, NonceInv,
           CreatorInv, StageInv
  <2>4. WholeInv'
    BY <1>2 DEF LookUp, Reusable, Proceed, Fail, TransferTypeOK, Contents, NoFile, WholeInv
  <2>5. AnnouncedInv'
    BY <1>2
       DEF LookUp, Reusable, Proceed, Fail, TransferTypeOK, Contents, NoFile, StageInv,
           AnnouncedInv
  <2>6. LeftoversAreNamed'
    BY <1>2
       DEF LookUp, Reusable, Proceed, Fail, TransferTypeOK, Contents, NoFile, CreatorInv,
           StageInv, LeftoversAreNamed
  <2>7. CreatorInv'
    BY <1>2 DEF LookUp, Reusable, Proceed, Fail, CreatorInv
  <2> QED
    BY <2>1, <2>2, <2>3, <2>4, <2>5, <2>6, <2>7
<1>3. CASE MakeShell
  <2>1. TransferTypeOK'
    BY <1>3 DEF MakeShell, Proceed, Fail, TransferTypeOK, Contents, NoFile
  <2>2. NonceInv'
    BY <1>3 DEF MakeShell, Proceed, Fail, TransferTypeOK, Contents, NoFile, NonceInv
  <2>3. StageInv'
    BY <1>3 DEF MakeShell, Proceed, Fail, TransferTypeOK, Contents, NoFile, StageInv
  <2>4. WholeInv'
    BY <1>3 DEF MakeShell, Proceed, Fail, TransferTypeOK, Contents, NoFile, WholeInv
  <2>5. AnnouncedInv'
    BY <1>3 DEF MakeShell, Proceed, Fail, TransferTypeOK, Contents, NoFile, StageInv, AnnouncedInv
  <2>6. LeftoversAreNamed'
    BY <1>3
       DEF MakeShell, Proceed, Fail, TransferTypeOK, Contents, NoFile, CreatorInv,
           StageInv, LeftoversAreNamed
  <2>7. CreatorInv'
    BY <1>3 DEF MakeShell, Proceed, Fail, CreatorInv
  <2> QED
    BY <2>1, <2>2, <2>3, <2>4, <2>5, <2>6, <2>7
<1>4. CASE Push
  <2>1. TransferTypeOK'
    BY <1>4 DEF Push, Proceed, Fail, TransferTypeOK, Contents, NoFile, NonceInv
  <2>2. NonceInv'
    BY <1>4 DEF Push, Proceed, Fail, TransferTypeOK, Contents, NoFile, NonceInv
  <2>3. StageInv'
    BY <1>4 DEF Push, Proceed, Fail, TransferTypeOK, Contents, NoFile, StageInv
  <2>4. WholeInv'
    BY <1>4 DEF Push, Proceed, Fail, TransferTypeOK, Contents, NoFile, WholeInv
  <2>5. AnnouncedInv'
    BY <1>4 DEF Push, Proceed, Fail, TransferTypeOK, Contents, NoFile, StageInv, AnnouncedInv
  <2>6. LeftoversAreNamed'
    BY <1>4
       DEF Push, Proceed, Fail, TransferTypeOK, Contents, NoFile, CreatorInv, StageInv,
           LeftoversAreNamed
  <2>7. CreatorInv'
    BY <1>4 DEF Push, Proceed, Fail, CreatorInv
  <2> QED
    BY <2>1, <2>2, <2>3, <2>4, <2>5, <2>6, <2>7
<1>5. CASE CheckSource
  <2>1. TransferTypeOK'
    BY <1>5 DEF CheckSource, Proceed, Fail, TransferTypeOK, Contents, NoFile
  <2>2. NonceInv'
    BY <1>5 DEF CheckSource, Proceed, Fail, TransferTypeOK, Contents, NoFile, NonceInv
  <2>3. StageInv'
    BY <1>5 DEF CheckSource, Proceed, Fail, TransferTypeOK, Contents, NoFile, StageInv
  <2>4. WholeInv'
    BY <1>5 DEF CheckSource, Proceed, Fail, TransferTypeOK, Contents, NoFile, WholeInv
  <2>5. AnnouncedInv'
    BY <1>5 DEF CheckSource, Proceed, Fail, TransferTypeOK, Contents, NoFile, StageInv, AnnouncedInv
  <2>6. LeftoversAreNamed'
    BY <1>5
       DEF CheckSource, Proceed, Fail, TransferTypeOK, Contents, NoFile, CreatorInv,
           StageInv, LeftoversAreNamed
  <2>7. CreatorInv'
    BY <1>5 DEF CheckSource, Proceed, Fail, CreatorInv
  <2> QED
    BY <2>1, <2>2, <2>3, <2>4, <2>5, <2>6, <2>7
<1>6. CASE Launch
  <2>1. TransferTypeOK'
    BY <1>6 DEF Launch, Proceed, TransferTypeOK, Contents, NoFile
  <2>2. NonceInv'
    BY <1>6 DEF Launch, Proceed, TransferTypeOK, Contents, NoFile, NonceInv
  <2>3. CreatorInv'
    BY <1>6 DEF Launch, Proceed, TransferTypeOK, Contents, NoFile, StageInv, CreatorInv
  <2>4. StageInv'
    BY <1>6 DEF Launch, Proceed, TransferTypeOK, Contents, NoFile, StageInv
  <2>5. WholeInv'
    BY <1>6 DEF Launch, Proceed, TransferTypeOK, Contents, NoFile, WholeInv
  <2>6. AnnouncedInv'
    BY <1>6 DEF Launch, Proceed, TransferTypeOK, Contents, NoFile, AnnouncedInv
  <2>7. LeftoversAreNamed'
    BY <1>6 DEF Launch, Proceed, LeftoversAreNamed
  <2> QED
    BY <2>1, <2>2, <2>3, <2>4, <2>5, <2>6, <2>7
<1>7. ASSUME NEW a \in Attempts, WriterOpens(a) PROVE TransferInv'
  <2>1. TransferTypeOK'
    BY <1>7 DEF WriterOpens, Creates, Partial, NoFile, TransferTypeOK, Contents
  <2>2. NonceInv'
    BY <1>7 DEF WriterOpens, Creates, Partial, NoFile, TransferTypeOK, Contents, NonceInv
  <2>3. CreatorInv'
    BY <1>7 DEF WriterOpens, Creates, Partial, NoFile, TransferTypeOK, Contents, CreatorInv
  <2>4. StageInv'
    BY <1>7 DEF WriterOpens, Creates, Partial, NoFile, TransferTypeOK, Contents, NonceInv, StageInv
  <2>5. WholeInv'
    BY <1>7 DEF WriterOpens, Creates, Partial, NoFile, TransferTypeOK, Contents, WholeInv
  <2>6. AnnouncedInv'
    BY <1>7 DEF WriterOpens, Creates, Partial, NoFile, TransferTypeOK, Contents, AnnouncedInv
  <2>7. LeftoversAreNamed'
    BY <1>7
       DEF WriterOpens, Creates, Partial, NoFile, TransferTypeOK, Contents, AnnouncedInv,
           LeftoversAreNamed
  <2> QED
    BY <2>1, <2>2, <2>3, <2>4, <2>5, <2>6, <2>7
<1>8. ASSUME NEW a \in Attempts, WriterWrites(a) PROVE TransferInv'
  <2>1. TransferTypeOK'
    BY <1>8 DEF WriterWrites, Partial, TransferTypeOK, Contents, NoFile
  <2>2. CreatorInv'
    BY <1>8 DEF WriterWrites, Partial, TransferTypeOK, Contents, NoFile, CreatorInv
  <2>3. StageInv'
    BY <1>8 DEF WriterWrites, Partial, TransferTypeOK, Contents, NoFile, StageInv
  <2>4. WholeInv'
    BY <1>8 DEF WriterWrites, Partial, TransferTypeOK, Contents, NoFile, WholeInv
  <2>5. LeftoversAreNamed'
    BY <1>8 DEF WriterWrites, Partial, TransferTypeOK, Contents, NoFile, LeftoversAreNamed
  <2>6. NonceInv' /\ AnnouncedInv'
    BY <1>8 DEF WriterWrites, Partial, NonceInv, AnnouncedInv
  <2> QED
    BY <2>1, <2>2, <2>3, <2>4, <2>5, <2>6
<1>9. ASSUME NEW a \in Attempts, WriterEnds(a) PROVE TransferInv'
  <2>1. TransferTypeOK'
    BY <1>9 DEF WriterEnds, TransferTypeOK, Contents, NoFile
  <2>2. NonceInv'
    BY <1>9 DEF WriterEnds, TransferTypeOK, Contents, NoFile, NonceInv
  <2>3. CreatorInv'
    BY <1>9 DEF WriterEnds, TransferTypeOK, Contents, NoFile, CreatorInv
  <2>4. StageInv'
    BY <1>9 DEF WriterEnds, TransferTypeOK, Contents, NoFile, StageInv
  <2>5. AnnouncedInv'
    BY <1>9 DEF WriterEnds, TransferTypeOK, Contents, NoFile, AnnouncedInv
  <2>6. WholeInv' /\ LeftoversAreNamed'
    BY <1>9 DEF WriterEnds, WholeInv, LeftoversAreNamed
  <2> QED
    BY <2>1, <2>2, <2>3, <2>4, <2>5, <2>6
<1>10. ASSUME NEW a \in Attempts, WriterKilled(a) PROVE TransferInv'
  <2>1. TransferTypeOK'
    BY <1>10 DEF WriterKilled, TransferTypeOK, Contents, NoFile
  <2>2. NonceInv'
    BY <1>10 DEF WriterKilled, TransferTypeOK, Contents, NoFile, NonceInv
  <2>3. CreatorInv'
    BY <1>10 DEF WriterKilled, TransferTypeOK, Contents, NoFile, CreatorInv
  <2>4. StageInv'
    BY <1>10 DEF WriterKilled, TransferTypeOK, Contents, NoFile, StageInv
  <2>5. AnnouncedInv'
    BY <1>10 DEF WriterKilled, TransferTypeOK, Contents, NoFile, AnnouncedInv
  <2>6. WholeInv' /\ LeftoversAreNamed'
    BY <1>10 DEF WriterKilled, WholeInv, LeftoversAreNamed
  <2> QED
    BY <2>1, <2>2, <2>3, <2>4, <2>5, <2>6
<1>11. CASE Receipt
  <2>1. TransferTypeOK'
    BY <1>11 DEF Receipt, Unconfirmed, Proceed, Fail, TransferTypeOK, Contents, NoFile
  <2>2. NonceInv'
    BY <1>11 DEF Receipt, Unconfirmed, Proceed, Fail, TransferTypeOK, Contents, NoFile, NonceInv
  <2>3. StageInv'
    BY <1>11 DEF Receipt, Unconfirmed, Proceed, Fail, TransferTypeOK, Contents, NoFile, StageInv
  <2>4. WholeInv'
    BY <1>11 DEF Receipt, Unconfirmed, Proceed, Fail, TransferTypeOK, Contents, NoFile, WholeInv
  <2>5. AnnouncedInv'
    BY <1>11 DEF Receipt, Unconfirmed, Proceed, Fail, TransferTypeOK, Contents, NoFile, AnnouncedInv
  <2>6. LeftoversAreNamed'
    BY <1>11
       DEF Receipt, Unconfirmed, Proceed, Fail, TransferTypeOK, Contents, NoFile,
           LeftoversAreNamed
  <2>7. CreatorInv'
    BY <1>11 DEF Receipt, Unconfirmed, Proceed, Fail, CreatorInv
  <2> QED
    BY <2>1, <2>2, <2>3, <2>4, <2>5, <2>6, <2>7
<1>12. CASE Verify
  <2>1. TransferTypeOK'
    BY <1>12 DEF Verify, Proceed, TransferTypeOK, Contents, NoFile
  <2>2. NonceInv'
    BY <1>12 DEF Verify, Proceed, TransferTypeOK, Contents, NoFile, NonceInv
  <2>3. StageInv'
    BY <1>12 DEF Verify, Proceed, TransferTypeOK, Contents, NoFile, StageInv
  <2>4. WholeInv'
    BY <1>12 DEF Verify, Proceed, TransferTypeOK, Contents, NoFile, WholeInv
  <2>5. CreatorInv' /\ AnnouncedInv' /\ LeftoversAreNamed'
    BY <1>12 DEF Verify, Proceed, CreatorInv, AnnouncedInv, LeftoversAreNamed
  <2> QED
    BY <2>1, <2>2, <2>3, <2>4, <2>5
<1>13. CASE Claim
  <2>1. TransferTypeOK'
    BY <1>13 DEF Claim, ClaimFails, Proceed, TransferTypeOK, Contents, NoFile
  <2>2. NonceInv'
    BY <1>13 DEF Claim, ClaimFails, Proceed, TransferTypeOK, Contents, NoFile, NonceInv
  <2>3. StageInv'
    BY <1>13 DEF Claim, ClaimFails, Proceed, TransferTypeOK, Contents, NoFile, StageInv
  <2>4. WholeInv'
    BY <1>13 DEF Claim, ClaimFails, Proceed, TransferTypeOK, Contents, NoFile, WholeInv
  <2>5. LeftoversAreNamed'
    BY <1>13 DEF Claim, ClaimFails, Proceed, TransferTypeOK, Contents, NoFile, LeftoversAreNamed
  <2>6. CreatorInv' /\ AnnouncedInv'
    BY <1>13 DEF Claim, ClaimFails, Proceed, CreatorInv, AnnouncedInv
  <2> QED
    BY <2>1, <2>2, <2>3, <2>4, <2>5, <2>6
<1>14. CASE Remove
  <2>1. TransferTypeOK'
    BY <1>14 DEF Remove, Proceed, NoFile, TransferTypeOK, Contents
  <2>2. NonceInv'
    BY <1>14 DEF Remove, Proceed, NoFile, TransferTypeOK, Contents, NonceInv
  <2>3. CreatorInv'
    BY <1>14 DEF Remove, Proceed, NoFile, TransferTypeOK, Contents, CreatorInv
  <2>4. StageInv'
    BY <1>14 DEF Remove, Proceed, NoFile, TransferTypeOK, Contents, NonceInv, StageInv
  <2>5. WholeInv'
    BY <1>14 DEF Remove, Proceed, NoFile, TransferTypeOK, Contents, WholeInv
  <2>6. AnnouncedInv'
    BY <1>14 DEF Remove, Proceed, NoFile, TransferTypeOK, Contents, AnnouncedInv
  <2>7. LeftoversAreNamed'
    BY <1>14 DEF Remove, Proceed, NoFile, TransferTypeOK, Contents, LeftoversAreNamed
  <2> QED
    BY <2>1, <2>2, <2>3, <2>4, <2>5, <2>6, <2>7
<1>15. CASE Clean
  <2>1. TransferTypeOK'
    BY <1>15 DEF Clean, Proceed, Fail, TransferTypeOK, Contents, NoFile
  <2>2. NonceInv'
    BY <1>15 DEF Clean, Proceed, Fail, TransferTypeOK, Contents, NoFile, NonceInv
  <2>3. StageInv'
    BY <1>15 DEF Clean, Proceed, Fail, TransferTypeOK, Contents, NoFile, NonceInv, StageInv
  <2>4. WholeInv'
    BY <1>15 DEF Clean, Proceed, Fail, TransferTypeOK, Contents, NoFile, WholeInv
  <2>5. AnnouncedInv'
    BY <1>15 DEF Clean, Proceed, Fail, TransferTypeOK, Contents, NoFile, StageInv, AnnouncedInv
  <2>6. LeftoversAreNamed'
    BY <1>15 DEF Clean, Proceed, Fail, TransferTypeOK, Contents, NoFile, StageInv, LeftoversAreNamed
  <2>7. CreatorInv'
    BY <1>15 DEF Clean, Proceed, Fail, CreatorInv
  <2> QED
    BY <2>1, <2>2, <2>3, <2>4, <2>5, <2>6, <2>7
<1>16. CASE OpenCapture
  <2>1. TransferTypeOK'
    BY <1>16 DEF OpenCapture, TransferTypeOK, Contents, NoFile
  <2>2. NonceInv'
    BY <1>16 DEF OpenCapture, TransferTypeOK, Contents, NoFile, NonceInv
  <2>3. StageInv'
    BY <1>16 DEF OpenCapture, TransferTypeOK, Contents, NoFile, StageInv
  <2>4. WholeInv'
    BY <1>16 DEF OpenCapture, TransferTypeOK, Contents, NoFile, WholeInv
  <2>5. AnnouncedInv'
    BY <1>16 DEF OpenCapture, TransferTypeOK, Contents, NoFile, StageInv, AnnouncedInv
  <2>6. LeftoversAreNamed'
    BY <1>16 DEF OpenCapture, TransferTypeOK, Contents, NoFile, StageInv, LeftoversAreNamed
  <2>7. CreatorInv'
    BY <1>16 DEF OpenCapture, CreatorInv
  <2> QED
    BY <2>1, <2>2, <2>3, <2>4, <2>5, <2>6, <2>7
<1>17. CASE CloseCaptures
  <2>1. TransferTypeOK'
    BY <1>17 DEF CloseCaptures, TransferTypeOK, Contents, NoFile
  <2>2. WholeInv'
    BY <1>17 DEF CloseCaptures, TransferTypeOK, Contents, NoFile, WholeInv
  <2>3. NonceInv' /\ CreatorInv' /\ StageInv' /\ AnnouncedInv' /\ LeftoversAreNamed'
    BY <1>17 DEF CloseCaptures, NonceInv, CreatorInv, StageInv, AnnouncedInv, LeftoversAreNamed
  <2> QED
    BY <2>1, <2>2, <2>3
<1>18. CASE ConnectionEnds
  <2>1. TransferTypeOK'
    BY <1>18 DEF ConnectionEnds, NoFile, TransferTypeOK, Contents
  <2>2. NonceInv'
    BY <1>18 DEF ConnectionEnds, NoFile, TransferTypeOK, Contents, NonceInv
  <2>3. CreatorInv'
    BY <1>18 DEF ConnectionEnds, NoFile, TransferTypeOK, Contents, CreatorInv
  <2>4. StageInv'
    BY <1>18 DEF ConnectionEnds, NoFile, TransferTypeOK, Contents, StageInv
  <2>5. WholeInv'
    BY <1>18 DEF ConnectionEnds, NoFile, TransferTypeOK, Contents, WholeInv
  <2>6. AnnouncedInv'
    BY <1>18 DEF ConnectionEnds, NoFile, TransferTypeOK, Contents, AnnouncedInv
  <2>7. LeftoversAreNamed'
    BY <1>18 DEF ConnectionEnds, NoFile, TransferTypeOK, Contents, LeftoversAreNamed
  <2> QED
    BY <2>1, <2>2, <2>3, <2>4, <2>5, <2>6, <2>7
<1>19. CASE UNCHANGED transferVars
  BY <1>19
       DEF transferVars, TransferTypeOK, NonceInv, CreatorInv, StageInv, WholeInv,
           AnnouncedInv, LeftoversAreNamed
<1> QED
  BY <1>1, <1>2, <1>3, <1>4, <1>5, <1>6, <1>7, <1>8, <1>9, <1>10, <1>11, <1>12, <1>13,
     <1>14, <1>15, <1>16, <1>17, <1>18, <1>19
     DEF TransferNext, DeviceStep

---------------------------------------------------------------------------
\* At first there is no attempt and no file.
LEMMA InitInv == TransferInit => TransferInv
<1> SUFFICES ASSUME TransferInit PROVE TransferInv
  OBVIOUS
<1> USE NobodyAssumption DEF TransferInit
<1>1. TransferTypeOK
  BY DEF TransferTypeOK, Contents, NoFile
<1>2. NonceInv /\ CreatorInv
  BY DEF NonceInv, CreatorInv, NoFile
<1>3. StageInv /\ WholeInv
  BY DEF StageInv, WholeInv
<1>4. AnnouncedInv /\ LeftoversAreNamed
  BY DEF AnnouncedInv, LeftoversAreNamed
<1> QED
  BY <1>1, <1>2, <1>3, <1>4 DEF TransferInv

\* The invariant holds in every reachable state.
LEMMA Invariant == TransferSpec => []TransferInv
BY InitInv, StepInv, PTL DEF TransferSpec

\* Type correctness, and that the attempt in progress is the one that runs.
THEOREM TypeCorrect == TransferSpec => []TransferTypeOK
<1>1. TransferInv => TransferTypeOK
  BY DEF TransferInv
<1> QED
  BY Invariant, <1>1, PTL

\* A replay has the whole capture open for as long as it lives, however many
\* writers earlier attempts left on the device (session_manager.py 547-549).
THEOREM OpenedStaysWhole == TransferSpec => []OpenedIsWhole
<1>1. TransferInv => OpenedIsWhole
  BY DEF TransferInv, WholeInv, OpenedIsWhole
<1> QED
  BY Invariant, <1>1, PTL

\* What an attempt leaves on the device is the server's or named in its error.
THEOREM LeftoversAlwaysNamed == TransferSpec => []LeftoversAreNamed
<1>1. TransferInv => LeftoversAreNamed
  BY DEF TransferInv
<1> QED
  BY Invariant, <1>1, PTL

\* The tool unlinks the capture only with the receipt of the writer that made
\* it (session_manager.py 559-569, 604).
THEOREM NeverRemovesLiveFile == TransferSpec => RemovesNoLiveFile
<1>1. TransferInv /\ [TransferNext]_transferVars
        => [stage = "remove" /\ cache' # cache
              => cache.by # Nobody /\ writer[cache.by] # "writing"]_transferVars
  BY NobodyAssumption DEF TransferInv, TransferTypeOK, NonceInv, StageInv
<1> QED
  BY Invariant, <1>1, PTL DEF TransferSpec, RemovesNoLiveFile
===============================================================================
