-------------------------- MODULE ReplayContextProofs --------------------------
(***************************************************************************)
(* Proofs about ReplayContext, for every set of captures and sessions and   *)
(* every limit: memory and state file agree wherever the worker is lost.    *)
(***************************************************************************)
EXTENDS ReplayContext, FiniteSetTheorems, TLAPS

---------------------------------------------------------------------------
(* The inductive invariant *)

\* What an operation may rely on between two of its steps: its session, the
\* record and the native replay of that session, and that no worker holds
\* nothing.
LabelInv ==
  /\ pc \in {"scanRecover", "scanStore", "recover", "store", "open", "close"} <=> arg # None
  /\ pc \in {"lost", "gone", "fresh", "clear"} => \A s \in Sessions : replays[s] = None
  /\ pc \in {"scanRecover", "recover", "close"} => replays[arg] = None
  /\ pc \in {"scanRecover", "recover", "scanStore", "store"} =>
       rec[arg] # NoRecord /\ rec[arg].status # "requires_restart"
  /\ pc \in {"scanStore", "store"} => replays[arg] = rec[arg].cap
  /\ pc = "open" =>
       /\ replays[arg] # None /\ rec[arg] = NoRecord
       /\ \A s \in Sessions : rec[s].cap # replays[arg]

\* The copy of a recovery scan is about the records there are, and as to
\* quarantine it is never older.
ScanInv ==
  pc \in {"scan", "scanRecover", "scanStore"} =>
    \A s \in Sessions :
      /\ snap[s] = NoRecord <=> rec[s] = NoRecord
      /\ snap[s].cap = rec[s].cap
      /\ snap[s].status = "requires_restart" <=> rec[s].status = "requires_restart"
      /\ s \in todo => rec[s] # NoRecord
      /\ replays[s] # None /\ s # arg =>
           snap[s] = Ready(replays[s]) \/ snap[s].status = "requires_restart"

\* A live replay is recorded as ready or is quarantined, unless the operation
\* in progress has just made it.
ReadyInv ==
  \A s \in Sessions :
    replays[s] # None /\ ~(pc \in {"open", "store", "scanStore"} /\ s = arg)
      => rec[s] = Ready(replays[s]) \/ Quarantined(s)

\* No two records are of one capture.
UniqueInv ==
  \A s, t \in Sessions : rec[s].cap = rec[t].cap /\ rec[s] # NoRecord => s = t

\* Nothing is answered before an operation ends.
AnswerInv == AnswerIsTrue /\ (pc # "idle" => answer = Silent)

Inv ==
  /\ TypeOK /\ LabelInv /\ NativeIsRecorded /\ ScanInv /\ ReadyInv /\ UniqueInv
  /\ AnswerInv /\ SelectedIsRecorded

---------------------------------------------------------------------------
\* What becomes of a record when it is marked, and that it stays one.
LEMMA RecordFacts ==
  /\ NoRecord \in RecordType /\ NoRecord.cap = None /\ NoRecord.status = "none"
  /\ \A c \in Captures : /\ Ready(c) \in RecordType /\ Ready(c) # NoRecord
                          /\ Ready(c).cap = c /\ Ready(c).status = "ready"
  /\ \A r \in RecordType : r # NoRecord =>
       /\ r.cap \in Captures
       /\ NotLive(r) \in RecordType /\ NotLive(r) # NoRecord
       /\ NotLive(r).cap = r.cap /\ NotLive(r).status = r.status
       /\ Degraded(r) \in RecordType /\ Degraded(r) # NoRecord
       /\ Degraded(r).cap = r.cap /\ Degraded(r).status = "degraded"
       /\ Fatal(r) \in RecordType /\ Fatal(r) # NoRecord
       /\ Fatal(r).cap = r.cap /\ Fatal(r).status = "requires_restart"
BY NoneAssumption
   DEF RecordType, Record, NoRecord, Statuses, Ready, NotLive, Degraded, Fatal

\* What StoreRecords selects is recorded.
LEMMA Selection ==
  ASSUME NEW r, NEW s, StoreRecords(r, s)
  PROVE  rec' = r /\ SelectedIsRecorded' /\ (selected' \in Sessions \/ selected' = None)
BY DEF StoreRecords, Selections, SelectedIsRecorded, Recorded, RecordedIn

\* Every action keeps the invariant; conjuncts that speak of no variable an
\* action changes are taken together.
LEMMA StepInv == Inv /\ [Next]_vars => Inv'
<1> SUFFICES ASSUME Inv, [Next]_vars PROVE Inv'
  OBVIOUS
<1> USE NoneAssumption, RecordFacts, Selection DEF Inv
<1>1. CASE WorkerLost
  <2>1. TypeOK'
    BY <1>1
       DEF WorkerLost, Forget, NoReplays, NoRecords, Silent, file, TypeOK, Answers,
           Recorded, RecordedIn
  <2>2. LabelInv'
    BY <1>1 DEF WorkerLost, Forget, NoReplays, NoRecords, Silent, file, TypeOK, LabelInv
  <2>3. NativeIsRecorded'
    BY <1>1
       DEF WorkerLost, Forget, NoReplays, NoRecords, Silent, file, TypeOK, Live,
           NativeIsRecorded
  <2>4. ScanInv'
    BY <1>1 DEF WorkerLost, Forget, NoReplays, NoRecords, Silent, file, TypeOK, ScanInv
  <2>5. ReadyInv'
    BY <1>1
       DEF WorkerLost, Forget, NoReplays, NoRecords, Silent, file, TypeOK, Quarantined,
           ReadyInv
  <2>6. AnswerInv'
    BY <1>1
       DEF WorkerLost, Forget, NoReplays, NoRecords, Silent, file, TypeOK, AnswerIsTrue,
           AnswerInv
  <2>7. UniqueInv' /\ SelectedIsRecorded'
    BY <1>1
       DEF WorkerLost, Forget, NoReplays, NoRecords, Silent, file, UniqueInv, Recorded,
           RecordedIn, SelectedIsRecorded
  <2> QED
    BY <2>1, <2>2, <2>3, <2>4, <2>5, <2>6, <2>7
<1>2. CASE WorkerStart
  <2>1. TypeOK'
    BY <1>2 DEF WorkerStart, MarkAll, memory, scan, TypeOK, Answers, Recorded, RecordedIn
  <2>2. LabelInv'
    BY <1>2 DEF WorkerStart, MarkAll, memory, scan, TypeOK, Recorded, RecordedIn, LabelInv
  <2>3. NativeIsRecorded'
    BY <1>2
       DEF WorkerStart, MarkAll, memory, scan, TypeOK, Live, Recorded, RecordedIn,
           NativeIsRecorded
  <2>4. ScanInv'
    BY <1>2 DEF WorkerStart, MarkAll, memory, scan, TypeOK, Recorded, RecordedIn, ScanInv
  <2>5. ReadyInv'
    BY <1>2
       DEF WorkerStart, MarkAll, memory, scan, TypeOK, Quarantined, Recorded, RecordedIn,
           ReadyInv
  <2>6. UniqueInv'
    BY <1>2 DEF WorkerStart, MarkAll, memory, scan, TypeOK, Recorded, RecordedIn, UniqueInv
  <2>7. AnswerInv'
    BY <1>2
       DEF WorkerStart, MarkAll, memory, scan, TypeOK, AnswerIsTrue, Silent, Recorded,
           RecordedIn, AnswerInv
  <2>8. SelectedIsRecorded'
    BY <1>2 DEF WorkerStart, MarkAll, memory, scan, TypeOK, Recorded, RecordedIn, SelectedIsRecorded
  <2> QED
    BY <2>1, <2>2, <2>3, <2>4, <2>5, <2>6, <2>7, <2>8
<1>3. CASE FileVanishes
  <2>1. TypeOK'
    BY <1>3 DEF FileVanishes, memory, file, scan, TypeOK, Answers, Recorded, RecordedIn
  <2>2. LabelInv' /\ NativeIsRecorded' /\ ScanInv' /\ ReadyInv' /\ UniqueInv' /\ AnswerInv' /\ SelectedIsRecorded'
    BY <1>3
       DEF FileVanishes, memory, file, scan, LabelInv, Live, NativeIsRecorded, ScanInv,
           Quarantined, ReadyInv, UniqueInv, AnswerIsTrue, Silent, AnswerInv, Recorded,
           RecordedIn, SelectedIsRecorded
  <2> QED
    BY <2>1, <2>2
<1>4. CASE ScanBegin
  <2>1. TypeOK'
    BY <1>4 DEF ScanBegin, Enter, Silent, file, TypeOK, Answers, Recorded, RecordedIn
  <2>2. LabelInv'
    BY <1>4 DEF ScanBegin, Enter, Silent, file, TypeOK, Recorded, RecordedIn, LabelInv
  <2>3. NativeIsRecorded'
    BY <1>4 DEF ScanBegin, Enter, Silent, file, TypeOK, Live, Recorded, RecordedIn, NativeIsRecorded
  <2>4. ScanInv'
    BY <1>4
       DEF ScanBegin, Enter, Silent, file, TypeOK, Recorded, RecordedIn, Quarantined,
           ReadyInv, ScanInv
  <2>5. ReadyInv'
    BY <1>4 DEF ScanBegin, Enter, Silent, file, TypeOK, Quarantined, Recorded, RecordedIn, ReadyInv
  <2>6. AnswerInv'
    BY <1>4
       DEF ScanBegin, Enter, Silent, file, TypeOK, AnswerIsTrue, Recorded, RecordedIn,
           AnswerInv
  <2>7. UniqueInv' /\ SelectedIsRecorded'
    BY <1>4 DEF ScanBegin, Enter, Silent, file, UniqueInv, Recorded, RecordedIn, SelectedIsRecorded
  <2> QED
    BY <2>1, <2>2, <2>3, <2>4, <2>5, <2>6, <2>7
<1>5. CASE ScanEnd
  <2>1. TypeOK'
    BY <1>5
       DEF ScanEnd, Return, Says, NoRecords, memory, TypeOK, Answers, Recorded,
           RecordedIn, ScanInv
  <2>2. LabelInv'
    BY <1>5 DEF ScanEnd, Return, Says, NoRecords, memory, TypeOK, Recorded, RecordedIn, LabelInv
  <2>3. NativeIsRecorded'
    BY <1>5
       DEF ScanEnd, Return, Says, NoRecords, memory, TypeOK, Live, Recorded, RecordedIn,
           ScanInv, NativeIsRecorded
  <2>4. ScanInv'
    BY <1>5 DEF ScanEnd, Return, Says, NoRecords, memory, TypeOK, Recorded, RecordedIn, ScanInv
  <2>5. ReadyInv'
    BY <1>5
       DEF ScanEnd, Return, Says, NoRecords, memory, TypeOK, Quarantined, Recorded,
           RecordedIn, LabelInv, ScanInv, ReadyInv
  <2>6. UniqueInv'
    BY <1>5
       DEF ScanEnd, Return, Says, NoRecords, memory, TypeOK, Recorded, RecordedIn,
           ScanInv, UniqueInv
  <2>7. AnswerInv'
    BY <1>5
       DEF ScanEnd, Return, Says, NoRecords, memory, TypeOK, AnswerIsTrue, Silent,
           Recorded, RecordedIn, AnswerInv
  <2>8. SelectedIsRecorded'
    BY <1>5
       DEF ScanEnd, Return, Says, NoRecords, memory, TypeOK, Recorded, RecordedIn,
           SelectedIsRecorded
  <2> QED
    BY <2>1, <2>2, <2>3, <2>4, <2>5, <2>6, <2>7, <2>8
<1>6. ASSUME NEW s \in Sessions, ScanKeeps(s) PROVE Inv'
  <2>1. TypeOK'
    BY <1>6
       DEF ScanKeeps, ScanSkipsQuarantine, BeyondLimit, memory, file, TypeOK, Answers,
           Recorded, RecordedIn, ScanInv
  <2>2. ScanInv'
    BY <1>6 DEF ScanKeeps, ScanSkipsQuarantine, BeyondLimit, memory, file, TypeOK, ScanInv
  <2>3. LabelInv' /\ NativeIsRecorded' /\ ReadyInv' /\ UniqueInv' /\ AnswerInv' /\ SelectedIsRecorded'
    BY <1>6
       DEF ScanKeeps, ScanSkipsQuarantine, BeyondLimit, memory, file, LabelInv, Live,
           NativeIsRecorded, Quarantined, ReadyInv, UniqueInv, AnswerIsTrue, Silent,
           AnswerInv, Recorded, RecordedIn, SelectedIsRecorded
  <2> QED
    BY <2>1, <2>2, <2>3
<1>7. ASSUME NEW s \in Sessions, ScanRecovers(s) PROVE Inv'
  <2>1. TypeOK'
    BY <1>7
       DEF ScanRecovers, ScanSkipsQuarantine, BeyondLimit, memory, file, TypeOK, Answers,
           Recorded, RecordedIn
  <2>2. LabelInv'
    BY <1>7
       DEF ScanRecovers, ScanSkipsQuarantine, BeyondLimit, memory, file, TypeOK, ScanInv,
           LabelInv
  <2>3. NativeIsRecorded'
    BY <1>7
       DEF ScanRecovers, ScanSkipsQuarantine, BeyondLimit, memory, file, TypeOK, Live,
           NativeIsRecorded
  <2>4. ScanInv'
    BY <1>7
       DEF ScanRecovers, ScanSkipsQuarantine, BeyondLimit, memory, file, TypeOK, LabelInv,
           ScanInv
  <2>5. ReadyInv'
    BY <1>7
       DEF ScanRecovers, ScanSkipsQuarantine, BeyondLimit, memory, file, TypeOK,
           Quarantined, ReadyInv
  <2>6. AnswerInv'
    BY <1>7
       DEF ScanRecovers, ScanSkipsQuarantine, BeyondLimit, memory, file, TypeOK,
           AnswerIsTrue, Silent, AnswerInv
  <2>7. UniqueInv' /\ SelectedIsRecorded'
    BY <1>7
       DEF ScanRecovers, ScanSkipsQuarantine, BeyondLimit, memory, file, UniqueInv,
           Recorded, RecordedIn, SelectedIsRecorded
  <2> QED
    BY <2>1, <2>2, <2>3, <2>4, <2>5, <2>6, <2>7
<1>8. ASSUME NEW s \in Sessions, CloseReplay(s) PROVE Inv'
  <2>1. TypeOK'
    BY <1>8
       DEF CloseReplay, Enter, Return, Says, Silent, file, scan, TypeOK, Answers,
           Recorded, RecordedIn
  <2>2. LabelInv'
    BY <1>8 DEF CloseReplay, Enter, Return, Says, Silent, file, scan, TypeOK, LabelInv
  <2>3. NativeIsRecorded'
    BY <1>8 DEF CloseReplay, Enter, Return, Says, Silent, file, scan, TypeOK, Live, NativeIsRecorded
  <2>4. ScanInv'
    BY <1>8 DEF CloseReplay, Enter, Return, Says, Silent, file, scan, TypeOK, ScanInv
  <2>5. ReadyInv'
    BY <1>8 DEF CloseReplay, Enter, Return, Says, Silent, file, scan, TypeOK, Quarantined, ReadyInv
  <2>6. AnswerInv'
    BY <1>8
       DEF CloseReplay, Enter, Return, Says, Silent, file, scan, TypeOK, AnswerIsTrue,
           AnswerInv
  <2>7. UniqueInv' /\ SelectedIsRecorded'
    BY <1>8
       DEF CloseReplay, Enter, Return, Says, Silent, file, scan, UniqueInv, Recorded,
           RecordedIn, SelectedIsRecorded
  <2> QED
    BY <2>1, <2>2, <2>3, <2>4, <2>5, <2>6, <2>7
<1>9. ASSUME NEW s \in Sessions, UseUnknown(s) PROVE Inv'
  <2>1. TypeOK'
    BY <1>9 DEF UseUnknown, Return, Says, memory, file, scan, TypeOK, Answers, Recorded, RecordedIn
  <2>2. LabelInv'
    BY <1>9 DEF UseUnknown, Return, Says, memory, file, scan, TypeOK, LabelInv
  <2>3. NativeIsRecorded'
    BY <1>9 DEF UseUnknown, Return, Says, memory, file, scan, TypeOK, Live, NativeIsRecorded
  <2>4. ScanInv'
    BY <1>9 DEF UseUnknown, Return, Says, memory, file, scan, TypeOK, ScanInv
  <2>5. ReadyInv'
    BY <1>9 DEF UseUnknown, Return, Says, memory, file, scan, TypeOK, Quarantined, ReadyInv
  <2>6. AnswerInv'
    BY <1>9
       DEF UseUnknown, Return, Says, memory, file, scan, TypeOK, AnswerIsTrue, Silent,
           AnswerInv
  <2>7. UniqueInv' /\ SelectedIsRecorded'
    BY <1>9
       DEF UseUnknown, Return, Says, memory, file, scan, UniqueInv, Recorded, RecordedIn,
           SelectedIsRecorded
  <2> QED
    BY <2>1, <2>2, <2>3, <2>4, <2>5, <2>6, <2>7
<1>10. ASSUME NEW s \in Sessions, UseQuarantined(s) PROVE Inv'
  <2>1. TypeOK'
    BY <1>10
       DEF UseQuarantined, Return, Says, Quarantined, memory, file, scan, TypeOK, Answers,
           Recorded, RecordedIn
  <2>2. LabelInv'
    BY <1>10 DEF UseQuarantined, Return, Says, Quarantined, memory, file, scan, TypeOK, LabelInv
  <2>3. NativeIsRecorded'
    BY <1>10
       DEF UseQuarantined, Return, Says, Quarantined, memory, file, scan, TypeOK, Live,
           NativeIsRecorded
  <2>4. ScanInv'
    BY <1>10 DEF UseQuarantined, Return, Says, Quarantined, memory, file, scan, TypeOK, ScanInv
  <2>5. ReadyInv'
    BY <1>10 DEF UseQuarantined, Return, Says, Quarantined, memory, file, scan, TypeOK, ReadyInv
  <2>6. AnswerInv'
    BY <1>10
       DEF UseQuarantined, Return, Says, Quarantined, memory, file, scan, TypeOK,
           AnswerIsTrue, Silent, AnswerInv
  <2>7. UniqueInv' /\ SelectedIsRecorded'
    BY <1>10
       DEF UseQuarantined, Return, Says, Quarantined, memory, file, scan, UniqueInv,
           Recorded, RecordedIn, SelectedIsRecorded
  <2> QED
    BY <2>1, <2>2, <2>3, <2>4, <2>5, <2>6, <2>7
<1>11. ASSUME NEW s \in Sessions, UseLive(s) PROVE Inv'
  <2>1. TypeOK'
    BY <1>11
       DEF UseLive, MayUse, Quarantined, Return, Says, memory, scan, TypeOK, Answers,
           Recorded, RecordedIn
  <2>2. LabelInv'
    BY <1>11 DEF UseLive, MayUse, Quarantined, Return, Says, memory, scan, TypeOK, LabelInv
  <2>3. NativeIsRecorded'
    BY <1>11
       DEF UseLive, MayUse, Quarantined, Return, Says, memory, scan, TypeOK, Live,
           NativeIsRecorded
  <2>4. ScanInv'
    BY <1>11 DEF UseLive, MayUse, Quarantined, Return, Says, memory, scan, TypeOK, ScanInv
  <2>5. ReadyInv'
    BY <1>11 DEF UseLive, MayUse, Quarantined, Return, Says, memory, scan, TypeOK, ReadyInv
  <2>6. UniqueInv'
    BY <1>11 DEF UseLive, MayUse, Quarantined, Return, Says, memory, scan, TypeOK, UniqueInv
  <2>7. AnswerInv'
    BY <1>11
       DEF UseLive, MayUse, Quarantined, Return, Says, memory, scan, TypeOK, AnswerIsTrue,
           Silent, Live, NativeIsRecorded, ReadyInv, AnswerInv
  <2>8. SelectedIsRecorded'
    BY <1>11
       DEF UseLive, MayUse, Quarantined, Return, Says, memory, scan, TypeOK, Recorded,
           RecordedIn, SelectedIsRecorded
  <2> QED
    BY <2>1, <2>2, <2>3, <2>4, <2>5, <2>6, <2>7, <2>8
<1>12. ASSUME NEW s \in Sessions, UseRecovers(s) PROVE Inv'
  <2>1. TypeOK'
    BY <1>12
       DEF UseRecovers, MayUse, Quarantined, Enter, Silent, memory, file, scan, TypeOK,
           Answers, Recorded, RecordedIn
  <2>2. LabelInv'
    BY <1>12
       DEF UseRecovers, MayUse, Quarantined, Enter, Silent, memory, file, scan, TypeOK,
           LabelInv
  <2>3. NativeIsRecorded'
    BY <1>12
       DEF UseRecovers, MayUse, Quarantined, Enter, Silent, memory, file, scan, TypeOK,
           Live, NativeIsRecorded
  <2>4. ScanInv'
    BY <1>12
       DEF UseRecovers, MayUse, Quarantined, Enter, Silent, memory, file, scan, TypeOK,
           ScanInv
  <2>5. ReadyInv'
    BY <1>12
       DEF UseRecovers, MayUse, Quarantined, Enter, Silent, memory, file, scan, TypeOK,
           ReadyInv
  <2>6. AnswerInv'
    BY <1>12
       DEF UseRecovers, MayUse, Quarantined, Enter, Silent, memory, file, scan, TypeOK,
           AnswerIsTrue, AnswerInv
  <2>7. UniqueInv' /\ SelectedIsRecorded'
    BY <1>12
       DEF UseRecovers, MayUse, Quarantined, Enter, Silent, memory, file, scan, UniqueInv,
           Recorded, RecordedIn, SelectedIsRecorded
  <2> QED
    BY <2>1, <2>2, <2>3, <2>4, <2>5, <2>6, <2>7
<1>13. ASSUME NEW s \in Sessions, SelectSession(s) PROVE Inv'
  <2>1. TypeOK'
    BY <1>13
       DEF SelectSession, Return, Says, Quarantined, memory, scan, TypeOK, Answers,
           Recorded, RecordedIn
  <2>2. LabelInv'
    BY <1>13
       DEF SelectSession, Return, Says, Quarantined, memory, scan, TypeOK, Recorded,
           RecordedIn, LabelInv
  <2>3. NativeIsRecorded'
    BY <1>13
       DEF SelectSession, Return, Says, Quarantined, memory, scan, TypeOK, Live, Recorded,
           RecordedIn, NativeIsRecorded
  <2>4. ScanInv'
    BY <1>13
       DEF SelectSession, Return, Says, Quarantined, memory, scan, TypeOK, Recorded,
           RecordedIn, ScanInv
  <2>5. ReadyInv'
    BY <1>13
       DEF SelectSession, Return, Says, Quarantined, memory, scan, TypeOK, Recorded,
           RecordedIn, ReadyInv
  <2>6. UniqueInv'
    BY <1>13
       DEF SelectSession, Return, Says, Quarantined, memory, scan, TypeOK, Recorded,
           RecordedIn, UniqueInv
  <2>7. AnswerInv'
    BY <1>13
       DEF SelectSession, Return, Says, Quarantined, memory, scan, TypeOK, AnswerIsTrue,
           Silent, Recorded, RecordedIn, AnswerInv
  <2>8. SelectedIsRecorded'
    BY <1>13
       DEF SelectSession, Return, Says, Quarantined, memory, scan, TypeOK, Recorded,
           RecordedIn, SelectedIsRecorded
  <2> QED
    BY <2>1, <2>2, <2>3, <2>4, <2>5, <2>6, <2>7, <2>8
<1>14. CASE RecoverWithoutFile
  <2>1. TypeOK'
    BY <1>14
       DEF RecoverWithoutFile, NotRecovered, FromScan, Return, Says, memory, TypeOK,
           Answers, Recorded, RecordedIn
  <2>2. LabelInv'
    BY <1>14 DEF RecoverWithoutFile, NotRecovered, FromScan, Return, Says, memory, TypeOK, LabelInv
  <2>3. NativeIsRecorded'
    BY <1>14
       DEF RecoverWithoutFile, NotRecovered, FromScan, Return, Says, memory, TypeOK, Live,
           NativeIsRecorded
  <2>4. ScanInv'
    BY <1>14
       DEF RecoverWithoutFile, NotRecovered, FromScan, Return, Says, memory, TypeOK,
           LabelInv, ScanInv
  <2>5. ReadyInv'
    BY <1>14
       DEF RecoverWithoutFile, NotRecovered, FromScan, Return, Says, memory, TypeOK,
           Quarantined, ReadyInv
  <2>6. AnswerInv'
    BY <1>14
       DEF RecoverWithoutFile, NotRecovered, FromScan, Return, Says, memory, TypeOK,
           AnswerIsTrue, Silent, AnswerInv
  <2>7. SelectedIsRecorded'
    BY <1>14
       DEF RecoverWithoutFile, NotRecovered, FromScan, Return, Says, memory, TypeOK,
           Recorded, RecordedIn, LabelInv, SelectedIsRecorded
  <2>8. UniqueInv'
    BY <1>14 DEF RecoverWithoutFile, NotRecovered, FromScan, Return, Says, memory, UniqueInv
  <2> QED
    BY <2>1, <2>2, <2>3, <2>4, <2>5, <2>6, <2>7, <2>8
<1>15. CASE RecoverOpen
  <2>1. TypeOK'
    BY <1>15 DEF RecoverOpen, FromScan, file, scan, TypeOK, Answers, Recorded, RecordedIn, LabelInv
  <2>2. LabelInv'
    BY <1>15 DEF RecoverOpen, FromScan, file, scan, TypeOK, LabelInv
  <2>3. NativeIsRecorded'
    BY <1>15 DEF RecoverOpen, FromScan, file, scan, TypeOK, Live, LabelInv, NativeIsRecorded
  <2>4. ScanInv'
    BY <1>15 DEF RecoverOpen, FromScan, file, scan, TypeOK, ScanInv
  <2>5. ReadyInv'
    BY <1>15 DEF RecoverOpen, FromScan, file, scan, TypeOK, Quarantined, ReadyInv
  <2>6. AnswerInv'
    BY <1>15 DEF RecoverOpen, FromScan, file, scan, TypeOK, AnswerIsTrue, Silent, AnswerInv
  <2>7. UniqueInv' /\ SelectedIsRecorded'
    BY <1>15
       DEF RecoverOpen, FromScan, file, scan, UniqueInv, Recorded, RecordedIn,
           SelectedIsRecorded
  <2> QED
    BY <2>1, <2>2, <2>3, <2>4, <2>5, <2>6, <2>7
<1>16. CASE RecoverStore
  <2>1. TypeOK'
    BY <1>16
       DEF RecoverStore, StoreRecords, Selections, Recovered, FromScan, Return, Says,
           memory, TypeOK, Answers, Recorded, RecordedIn, LabelInv
  <2>2. LabelInv'
    BY <1>16
       DEF RecoverStore, StoreRecords, Selections, Recovered, FromScan, Return, Says,
           memory, TypeOK, Recorded, RecordedIn, LabelInv
  <2>3. NativeIsRecorded'
    BY <1>16
       DEF RecoverStore, StoreRecords, Selections, Recovered, FromScan, Return, Says,
           memory, TypeOK, Live, Recorded, RecordedIn, NativeIsRecorded
  <2>4. ScanInv'
    BY <1>16
       DEF RecoverStore, StoreRecords, Selections, Recovered, FromScan, Return, Says,
           memory, TypeOK, Recorded, RecordedIn, LabelInv, ScanInv
  <2>5. ReadyInv'
    BY <1>16
       DEF RecoverStore, StoreRecords, Selections, Recovered, FromScan, Return, Says,
           memory, TypeOK, Quarantined, Recorded, RecordedIn, LabelInv, ReadyInv
  <2>6. UniqueInv'
    BY <1>16
       DEF RecoverStore, StoreRecords, Selections, Recovered, FromScan, Return, Says,
           memory, TypeOK, Recorded, RecordedIn, LabelInv, UniqueInv
  <2>7. AnswerInv'
    BY <1>16
       DEF RecoverStore, StoreRecords, Selections, Recovered, FromScan, Return, Says,
           memory, TypeOK, AnswerIsTrue, Silent, Recorded, RecordedIn, LabelInv, Live,
           NativeIsRecorded, AnswerInv
  <2>8. SelectedIsRecorded'
    BY <1>16
       DEF RecoverStore, StoreRecords, Selections, Recovered, FromScan, Return, Says,
           memory, TypeOK, Recorded, RecordedIn, SelectedIsRecorded
  <2> QED
    BY <2>1, <2>2, <2>3, <2>4, <2>5, <2>6, <2>7, <2>8
<1>17. CASE RecoverFails
  <2>1. TypeOK'
    BY <1>17
       DEF RecoverFails, NotRecovered, FromScan, Return, Says, TypeOK, Answers, Recorded,
           RecordedIn, LabelInv
  <2>2. LabelInv'
    BY <1>17 DEF RecoverFails, NotRecovered, FromScan, Return, Says, TypeOK, LabelInv
  <2>3. NativeIsRecorded'
    BY <1>17 DEF RecoverFails, NotRecovered, FromScan, Return, Says, TypeOK, Live, NativeIsRecorded
  <2>4. ScanInv'
    BY <1>17 DEF RecoverFails, NotRecovered, FromScan, Return, Says, TypeOK, LabelInv, ScanInv
  <2>5. ReadyInv'
    BY <1>17 DEF RecoverFails, NotRecovered, FromScan, Return, Says, TypeOK, Quarantined, ReadyInv
  <2>6. UniqueInv'
    BY <1>17 DEF RecoverFails, NotRecovered, FromScan, Return, Says, TypeOK, LabelInv, UniqueInv
  <2>7. AnswerInv'
    BY <1>17
       DEF RecoverFails, NotRecovered, FromScan, Return, Says, TypeOK, AnswerIsTrue,
           Silent, AnswerInv
  <2>8. SelectedIsRecorded'
    BY <1>17
       DEF RecoverFails, NotRecovered, FromScan, Return, Says, TypeOK, Recorded,
           RecordedIn, LabelInv, SelectedIsRecorded
  <2> QED
    BY <2>1, <2>2, <2>3, <2>4, <2>5, <2>6, <2>7, <2>8
<1>18. ASSUME NEW c \in Captures, OpenFile(c) PROVE Inv'
  <2>1. TypeOK'
    BY <1>18 DEF OpenFile, Return, Says, scan, TypeOK, Answers, Recorded, RecordedIn
  <2>2. LabelInv'
    BY <1>18 DEF OpenFile, Return, Says, scan, TypeOK, Recorded, RecordedIn, LabelInv
  <2>3. NativeIsRecorded'
    BY <1>18 DEF OpenFile, Return, Says, scan, TypeOK, Live, Recorded, RecordedIn, NativeIsRecorded
  <2>4. ScanInv'
    BY <1>18 DEF OpenFile, Return, Says, scan, TypeOK, Recorded, RecordedIn, ScanInv
  <2>5. ReadyInv'
    BY <1>18 DEF OpenFile, Return, Says, scan, TypeOK, Quarantined, Recorded, RecordedIn, ReadyInv
  <2>6. UniqueInv'
    BY <1>18 DEF OpenFile, Return, Says, scan, TypeOK, Recorded, RecordedIn, UniqueInv
  <2>7. AnswerInv'
    BY <1>18
       DEF OpenFile, Return, Says, scan, TypeOK, AnswerIsTrue, Silent, Recorded,
           RecordedIn, AnswerInv
  <2>8. SelectedIsRecorded'
    BY <1>18 DEF OpenFile, Return, Says, scan, TypeOK, Recorded, RecordedIn, SelectedIsRecorded
  <2> QED
    BY <2>1, <2>2, <2>3, <2>4, <2>5, <2>6, <2>7, <2>8
<1>19. ASSUME NEW c \in Captures, CloseFile(c) PROVE Inv'
  <2>1. TypeOK'
    BY <1>19
       DEF CloseFile, InUse, Dependents, RemoveCapture, Return, Says, file, scan, TypeOK,
           Answers, Recorded, RecordedIn
  <2>2. LabelInv'
    BY <1>19
       DEF CloseFile, InUse, Dependents, RemoveCapture, Return, Says, file, scan, TypeOK,
           Recorded, RecordedIn, LabelInv
  <2>3. NativeIsRecorded'
    BY <1>19
       DEF CloseFile, InUse, Dependents, RemoveCapture, Return, Says, file, scan, TypeOK,
           Live, Recorded, RecordedIn, NativeIsRecorded
  <2>4. ScanInv'
    BY <1>19
       DEF CloseFile, InUse, Dependents, RemoveCapture, Return, Says, file, scan, TypeOK,
           Recorded, RecordedIn, ScanInv
  <2>5. ReadyInv'
    BY <1>19
       DEF CloseFile, InUse, Dependents, RemoveCapture, Return, Says, file, scan, TypeOK,
           Quarantined, Recorded, RecordedIn, Live, NativeIsRecorded, ReadyInv
  <2>6. UniqueInv'
    BY <1>19
       DEF CloseFile, InUse, Dependents, RemoveCapture, Return, Says, file, scan, TypeOK,
           Recorded, RecordedIn, UniqueInv
  <2>7. AnswerInv'
    BY <1>19
       DEF CloseFile, InUse, Dependents, RemoveCapture, Return, Says, file, scan, TypeOK,
           AnswerIsTrue, Silent, Recorded, RecordedIn, AnswerInv
  <2>8. SelectedIsRecorded'
    BY <1>19
       DEF CloseFile, InUse, Dependents, RemoveCapture, Return, Says, file, scan, TypeOK,
           Recorded, RecordedIn, SelectedIsRecorded
  <2> QED
    BY <2>1, <2>2, <2>3, <2>4, <2>5, <2>6, <2>7, <2>8
<1>20. ASSUME NEW c \in Captures, OpenReplayReuses(c) PROVE Inv'
  <2>1. TypeOK'
    BY <1>20
       DEF OpenReplayReuses, Dependents, Return, Says, memory, file, scan, TypeOK,
           Answers, Recorded, RecordedIn
  <2>2. LabelInv'
    BY <1>20 DEF OpenReplayReuses, Dependents, Return, Says, memory, file, scan, TypeOK, LabelInv
  <2>3. NativeIsRecorded'
    BY <1>20
       DEF OpenReplayReuses, Dependents, Return, Says, memory, file, scan, TypeOK, Live,
           NativeIsRecorded
  <2>4. ScanInv'
    BY <1>20 DEF OpenReplayReuses, Dependents, Return, Says, memory, file, scan, TypeOK, ScanInv
  <2>5. ReadyInv'
    BY <1>20
       DEF OpenReplayReuses, Dependents, Return, Says, memory, file, scan, TypeOK,
           Quarantined, ReadyInv
  <2>6. AnswerInv'
    BY <1>20
       DEF OpenReplayReuses, Dependents, Return, Says, memory, file, scan, TypeOK,
           AnswerIsTrue, Silent, AnswerInv
  <2>7. UniqueInv' /\ SelectedIsRecorded'
    BY <1>20
       DEF OpenReplayReuses, Dependents, Return, Says, memory, file, scan, UniqueInv,
           Recorded, RecordedIn, SelectedIsRecorded
  <2> QED
    BY <2>1, <2>2, <2>3, <2>4, <2>5, <2>6, <2>7
<1>21. ASSUME NEW c \in Captures, OpenReplayStale(c) PROVE Inv'
  <2>1. TypeOK'
    BY <1>21
       DEF OpenReplayStale, Return, Says, memory, file, scan, TypeOK, Answers, Recorded,
           RecordedIn
  <2>2. LabelInv'
    BY <1>21 DEF OpenReplayStale, Return, Says, memory, file, scan, TypeOK, LabelInv
  <2>3. NativeIsRecorded'
    BY <1>21 DEF OpenReplayStale, Return, Says, memory, file, scan, TypeOK, Live, NativeIsRecorded
  <2>4. ScanInv'
    BY <1>21 DEF OpenReplayStale, Return, Says, memory, file, scan, TypeOK, ScanInv
  <2>5. ReadyInv'
    BY <1>21 DEF OpenReplayStale, Return, Says, memory, file, scan, TypeOK, Quarantined, ReadyInv
  <2>6. AnswerInv'
    BY <1>21
       DEF OpenReplayStale, Return, Says, memory, file, scan, TypeOK, AnswerIsTrue,
           Silent, AnswerInv
  <2>7. UniqueInv' /\ SelectedIsRecorded'
    BY <1>21
       DEF OpenReplayStale, Return, Says, memory, file, scan, UniqueInv, Recorded,
           RecordedIn, SelectedIsRecorded
  <2> QED
    BY <2>1, <2>2, <2>3, <2>4, <2>5, <2>6, <2>7
<1>22. ASSUME NEW c \in Captures, OpenReplayLimit(c) PROVE Inv'
  <2>1. TypeOK'
    BY <1>22
       DEF OpenReplayLimit, Return, Says, memory, file, scan, TypeOK, Answers, Recorded,
           RecordedIn
  <2>2. LabelInv'
    BY <1>22 DEF OpenReplayLimit, Return, Says, memory, file, scan, TypeOK, LabelInv
  <2>3. NativeIsRecorded'
    BY <1>22 DEF OpenReplayLimit, Return, Says, memory, file, scan, TypeOK, Live, NativeIsRecorded
  <2>4. ScanInv'
    BY <1>22 DEF OpenReplayLimit, Return, Says, memory, file, scan, TypeOK, ScanInv
  <2>5. ReadyInv'
    BY <1>22 DEF OpenReplayLimit, Return, Says, memory, file, scan, TypeOK, Quarantined, ReadyInv
  <2>6. AnswerInv'
    BY <1>22
       DEF OpenReplayLimit, Return, Says, memory, file, scan, TypeOK, AnswerIsTrue,
           Silent, AnswerInv
  <2>7. UniqueInv' /\ SelectedIsRecorded'
    BY <1>22
       DEF OpenReplayLimit, Return, Says, memory, file, scan, UniqueInv, Recorded,
           RecordedIn, SelectedIsRecorded
  <2> QED
    BY <2>1, <2>2, <2>3, <2>4, <2>5, <2>6, <2>7
<1>23. ASSUME NEW c \in Captures, OpenReplay(c) PROVE Inv'
  <2>1. TypeOK'
    <3>1. PICK s \in Sessions \ (Recorded \cup manager) :
            /\ manager' = (manager \ StaleOf(c)) \cup {s}
            /\ replays' = [replays EXCEPT ![s] = c]
            /\ Enter("open", s)
      BY <1>23 DEF OpenReplay
    <3>2. rec' = [t \in Sessions |-> IF t \in StaleOf(c) THEN NoRecord ELSE rec[t]]
          /\ (selected' \in Sessions \/ selected' = None)
      BY <1>23 DEF OpenReplay
    <3> QED
      BY <1>23, <3>1, <3>2 DEF OpenReplay, scan, Enter, Silent, TypeOK, Answers, Recorded, RecordedIn
  <2>2. LabelInv'
    BY <1>23
       DEF OpenReplay, NoReplay, LimitReached, StaleOf, Dependents, Enter, Silent, scan,
           TypeOK, Recorded, RecordedIn, Live, NativeIsRecorded, LabelInv
  <2>3. NativeIsRecorded'
    BY <1>23
       DEF OpenReplay, NoReplay, LimitReached, StaleOf, Dependents, Enter, Silent, scan,
           TypeOK, Live, Recorded, RecordedIn, NativeIsRecorded
  <2>4. ScanInv'
    BY <1>23
       DEF OpenReplay, NoReplay, LimitReached, StaleOf, Dependents, Enter, Silent, scan,
           TypeOK, Recorded, RecordedIn, ScanInv
  <2>5. ReadyInv'
    BY <1>23
       DEF OpenReplay, NoReplay, LimitReached, StaleOf, Dependents, Enter, Silent, scan,
           TypeOK, Quarantined, Recorded, RecordedIn, ReadyInv
  <2>6. UniqueInv'
    BY <1>23
       DEF OpenReplay, NoReplay, LimitReached, StaleOf, Dependents, Enter, Silent, scan,
           TypeOK, Recorded, RecordedIn, UniqueInv
  <2>7. AnswerInv'
    BY <1>23
       DEF OpenReplay, NoReplay, LimitReached, StaleOf, Dependents, Enter, Silent, scan,
           TypeOK, AnswerIsTrue, Recorded, RecordedIn, AnswerInv
  <2>8. SelectedIsRecorded'
    BY <1>23
       DEF OpenReplay, NoReplay, LimitReached, StaleOf, Dependents, Enter, Silent, scan,
           TypeOK, Recorded, RecordedIn, SelectedIsRecorded
  <2> QED
    BY <2>1, <2>2, <2>3, <2>4, <2>5, <2>6, <2>7, <2>8
<1>24. CASE OpenStore
  <2>1. TypeOK'
    BY <1>24
       DEF OpenStore, StoreRecords, Selections, Return, Says, memory, scan, TypeOK,
           Answers, Recorded, RecordedIn, LabelInv
  <2>2. LabelInv'
    BY <1>24
       DEF OpenStore, StoreRecords, Selections, Return, Says, memory, scan, TypeOK,
           Recorded, RecordedIn, LabelInv
  <2>3. NativeIsRecorded'
    BY <1>24
       DEF OpenStore, StoreRecords, Selections, Return, Says, memory, scan, TypeOK, Live,
           Recorded, RecordedIn, NativeIsRecorded
  <2>4. ScanInv'
    BY <1>24
       DEF OpenStore, StoreRecords, Selections, Return, Says, memory, scan, TypeOK,
           Recorded, RecordedIn, ScanInv
  <2>5. ReadyInv'
    BY <1>24
       DEF OpenStore, StoreRecords, Selections, Return, Says, memory, scan, TypeOK,
           Quarantined, Recorded, RecordedIn, ReadyInv
  <2>6. UniqueInv'
    BY <1>24
       DEF OpenStore, StoreRecords, Selections, Return, Says, memory, scan, TypeOK,
           Recorded, RecordedIn, LabelInv, UniqueInv
  <2>7. AnswerInv'
    BY <1>24
       DEF OpenStore, StoreRecords, Selections, Return, Says, memory, scan, TypeOK,
           AnswerIsTrue, Silent, Recorded, RecordedIn, LabelInv, Live, NativeIsRecorded,
           AnswerInv
  <2>8. SelectedIsRecorded'
    BY <1>24
       DEF OpenStore, StoreRecords, Selections, Return, Says, memory, scan, TypeOK,
           Recorded, RecordedIn, SelectedIsRecorded
  <2> QED
    BY <2>1, <2>2, <2>3, <2>4, <2>5, <2>6, <2>7, <2>8
<1>25. CASE OpenFails
  <2>1. TypeOK'
    BY <1>25 DEF OpenFails, Return, Says, file, scan, TypeOK, Answers, Recorded, RecordedIn
  <2>2. LabelInv'
    BY <1>25 DEF OpenFails, Return, Says, file, scan, TypeOK, LabelInv
  <2>3. NativeIsRecorded'
    BY <1>25 DEF OpenFails, Return, Says, file, scan, TypeOK, Live, NativeIsRecorded
  <2>4. ScanInv'
    BY <1>25 DEF OpenFails, Return, Says, file, scan, TypeOK, ScanInv
  <2>5. ReadyInv'
    BY <1>25 DEF OpenFails, Return, Says, file, scan, TypeOK, Quarantined, ReadyInv
  <2>6. AnswerInv'
    BY <1>25 DEF OpenFails, Return, Says, file, scan, TypeOK, AnswerIsTrue, Silent, AnswerInv
  <2>7. UniqueInv' /\ SelectedIsRecorded'
    BY <1>25
       DEF OpenFails, Return, Says, file, scan, UniqueInv, Recorded, RecordedIn,
           SelectedIsRecorded
  <2> QED
    BY <2>1, <2>2, <2>3, <2>4, <2>5, <2>6, <2>7
<1>26. CASE CloseStore
  <2>1. TypeOK'
    BY <1>26
       DEF CloseStore, StoreRecords, Selections, Return, Says, memory, scan, TypeOK,
           Answers, Recorded, RecordedIn, LabelInv
  <2>2. LabelInv'
    BY <1>26
       DEF CloseStore, StoreRecords, Selections, Return, Says, memory, scan, TypeOK,
           Recorded, RecordedIn, LabelInv
  <2>3. NativeIsRecorded'
    BY <1>26
       DEF CloseStore, StoreRecords, Selections, Return, Says, memory, scan, TypeOK, Live,
           Recorded, RecordedIn, LabelInv, NativeIsRecorded
  <2>4. ScanInv'
    BY <1>26
       DEF CloseStore, StoreRecords, Selections, Return, Says, memory, scan, TypeOK,
           Recorded, RecordedIn, ScanInv
  <2>5. ReadyInv'
    BY <1>26
       DEF CloseStore, StoreRecords, Selections, Return, Says, memory, scan, TypeOK,
           Quarantined, Recorded, RecordedIn, LabelInv, ReadyInv
  <2>6. UniqueInv'
    BY <1>26
       DEF CloseStore, StoreRecords, Selections, Return, Says, memory, scan, TypeOK,
           Recorded, RecordedIn, UniqueInv
  <2>7. AnswerInv'
    BY <1>26
       DEF CloseStore, StoreRecords, Selections, Return, Says, memory, scan, TypeOK,
           AnswerIsTrue, Silent, Recorded, RecordedIn, AnswerInv
  <2>8. SelectedIsRecorded'
    BY <1>26
       DEF CloseStore, StoreRecords, Selections, Return, Says, memory, scan, TypeOK,
           Recorded, RecordedIn, SelectedIsRecorded
  <2> QED
    BY <2>1, <2>2, <2>3, <2>4, <2>5, <2>6, <2>7, <2>8
<1>27. CASE ClearRelease
  <2>1. TypeOK'
    BY <1>27
       DEF ClearRelease, Forget, NoReplays, Enter, Silent, file, scan, TypeOK, Answers,
           Recorded, RecordedIn
  <2>2. LabelInv'
    BY <1>27 DEF ClearRelease, Forget, NoReplays, Enter, Silent, file, scan, TypeOK, LabelInv
  <2>3. NativeIsRecorded'
    BY <1>27
       DEF ClearRelease, Forget, NoReplays, Enter, Silent, file, scan, TypeOK, Live,
           NativeIsRecorded
  <2>4. ScanInv'
    BY <1>27 DEF ClearRelease, Forget, NoReplays, Enter, Silent, file, scan, TypeOK, ScanInv
  <2>5. ReadyInv'
    BY <1>27
       DEF ClearRelease, Forget, NoReplays, Enter, Silent, file, scan, TypeOK,
           Quarantined, ReadyInv
  <2>6. AnswerInv'
    BY <1>27
       DEF ClearRelease, Forget, NoReplays, Enter, Silent, file, scan, TypeOK,
           AnswerIsTrue, AnswerInv
  <2>7. UniqueInv' /\ SelectedIsRecorded'
    BY <1>27
       DEF ClearRelease, Forget, NoReplays, Enter, Silent, file, scan, UniqueInv,
           Recorded, RecordedIn, SelectedIsRecorded
  <2> QED
    BY <2>1, <2>2, <2>3, <2>4, <2>5, <2>6, <2>7
<1>28. CASE ClearStore
  <2>1. TypeOK'
    BY <1>28 DEF ClearStore, NoRecords, memory, scan, TypeOK, Answers, Recorded, RecordedIn
  <2>2. LabelInv'
    BY <1>28 DEF ClearStore, NoRecords, memory, scan, TypeOK, LabelInv
  <2>3. NativeIsRecorded'
    BY <1>28 DEF ClearStore, NoRecords, memory, scan, TypeOK, Live, LabelInv, NativeIsRecorded
  <2>4. ScanInv'
    BY <1>28 DEF ClearStore, NoRecords, memory, scan, TypeOK, ScanInv
  <2>5. ReadyInv'
    BY <1>28 DEF ClearStore, NoRecords, memory, scan, TypeOK, Quarantined, LabelInv, ReadyInv
  <2>6. UniqueInv'
    BY <1>28 DEF ClearStore, NoRecords, memory, scan, TypeOK, UniqueInv
  <2>7. AnswerInv'
    BY <1>28 DEF ClearStore, NoRecords, memory, scan, TypeOK, AnswerIsTrue, Silent, AnswerInv
  <2>8. SelectedIsRecorded'
    BY <1>28
       DEF ClearStore, NoRecords, memory, scan, TypeOK, Recorded, RecordedIn,
           SelectedIsRecorded
  <2> QED
    BY <2>1, <2>2, <2>3, <2>4, <2>5, <2>6, <2>7, <2>8
<1>29. CASE UNCHANGED vars
  BY <1>29
       DEF vars, memory, file, scan, TypeOK, LabelInv, NativeIsRecorded, ScanInv,
           ReadyInv, UniqueInv, AnswerInv, SelectedIsRecorded, Recorded, RecordedIn, Live,
           Quarantined, AnswerIsTrue
<1> QED
  BY <1>1, <1>2, <1>3, <1>4, <1>5, <1>6, <1>7, <1>8, <1>9, <1>10, <1>11, <1>12, <1>13,
     <1>14, <1>15, <1>16, <1>17, <1>18, <1>19, <1>20, <1>21, <1>22, <1>23, <1>24, <1>25,
     <1>26, <1>27, <1>28, <1>29
     DEF Next, SessionOperation, CaptureOperation

\* At first there is nothing.
LEMMA InitInv == Init => Inv
<1> SUFFICES ASSUME Init PROVE Inv
  OBVIOUS
<1> USE NoneAssumption, RecordFacts DEF Init, NoReplays, NoRecords
<1>1. Recorded = {}
  BY DEF Recorded, RecordedIn
<1>2. TypeOK
  BY <1>1 DEF TypeOK, Silent, Answers
<1>3. LabelInv /\ ScanInv /\ ReadyInv /\ UniqueInv
  BY DEF LabelInv, ScanInv, ReadyInv, UniqueInv
<1>4. NativeIsRecorded /\ SelectedIsRecorded
  BY <1>1 DEF NativeIsRecorded, Live, SelectedIsRecorded
<1>5. AnswerInv
  BY DEF AnswerInv, AnswerIsTrue, Silent
<1> QED
  BY <1>2, <1>3, <1>4, <1>5 DEF Inv

\* The invariant holds in every reachable state.
LEMMA Invariant == Spec => []Inv
BY InitInv, StepInv, PTL DEF Spec

---------------------------------------------------------------------------
(* The steps of the records *)

\* A record is new only when open_replay stores its own.
NewRecord ==
  \A s \in Sessions : rec'[s] # NoRecord /\ rec[s] = NoRecord => pc = "open" /\ s = arg /\ pc' = "idle"

KeepsQuarantine ==
  \A s \in Sessions : Quarantined(s) /\ rec'[s] # NoRecord => rec'[s].status = "requires_restart"

\* An open begins below the limit.
OpensBelowLimit ==
  pc' = "open" /\ pc # "open" => \E c \in Captures : StaleOf(c) = {} /\ ~LimitReached(c)

\* No action adds another record, ends a quarantine, or begins an open at the
\* limit.
LEMMA RecordSteps == Inv /\ [Next]_vars => NewRecord /\ KeepsQuarantine /\ OpensBelowLimit
<1> SUFFICES ASSUME Inv, [Next]_vars PROVE NewRecord /\ KeepsQuarantine /\ OpensBelowLimit
  OBVIOUS
<1> USE NoneAssumption, RecordFacts, Selection
    DEF Inv, NewRecord, KeepsQuarantine, OpensBelowLimit, Quarantined, TypeOK, Recorded, RecordedIn
<1>1. CASE WorkerLost
  BY <1>1 DEF WorkerLost, Forget, NoReplays, NoRecords, file
<1>2. CASE WorkerStart
  BY <1>2 DEF WorkerStart, MarkAll, memory, scan
<1>3. CASE FileVanishes
  BY <1>3 DEF FileVanishes, memory, file, scan
<1>4. CASE ScanBegin
  BY <1>4 DEF ScanBegin, Enter, file
<1>5. CASE ScanEnd
  BY <1>5 DEF ScanEnd, Return, NoRecords, memory, ScanInv
<1>6. ASSUME NEW s \in Sessions, ScanKeeps(s) PROVE NewRecord /\ KeepsQuarantine /\ OpensBelowLimit
  BY <1>6 DEF ScanKeeps, ScanSkipsQuarantine, BeyondLimit, memory, file
<1>7. ASSUME NEW s \in Sessions, ScanRecovers(s) PROVE NewRecord /\ KeepsQuarantine /\ OpensBelowLimit
  BY <1>7 DEF ScanRecovers, ScanSkipsQuarantine, BeyondLimit, memory, file
<1>8. ASSUME NEW s \in Sessions, CloseReplay(s) PROVE NewRecord /\ KeepsQuarantine /\ OpensBelowLimit
  BY <1>8 DEF CloseReplay, Enter, Return, file, scan
<1>9. ASSUME NEW s \in Sessions, UseUnknown(s) PROVE NewRecord /\ KeepsQuarantine /\ OpensBelowLimit
  BY <1>9 DEF UseUnknown, Return, memory, file, scan
<1>10. ASSUME NEW s \in Sessions, UseQuarantined(s) PROVE NewRecord /\ KeepsQuarantine /\ OpensBelowLimit
  BY <1>10 DEF UseQuarantined, Return, memory, file, scan
<1>11. ASSUME NEW s \in Sessions, UseLive(s) PROVE NewRecord /\ KeepsQuarantine /\ OpensBelowLimit
  BY <1>11 DEF UseLive, MayUse, Return, memory, scan
<1>12. ASSUME NEW s \in Sessions, UseRecovers(s) PROVE NewRecord /\ KeepsQuarantine /\ OpensBelowLimit
  BY <1>12 DEF UseRecovers, MayUse, Enter, memory, file, scan
<1>13. ASSUME NEW s \in Sessions, SelectSession(s) PROVE NewRecord /\ KeepsQuarantine /\ OpensBelowLimit
  BY <1>13 DEF SelectSession, Return, memory, scan
<1>14. CASE RecoverWithoutFile
  BY <1>14 DEF RecoverWithoutFile, NotRecovered, FromScan, Return, memory
<1>15. CASE RecoverOpen
  BY <1>15 DEF RecoverOpen, FromScan, file, scan
<1>16. CASE RecoverStore
  BY <1>16 DEF RecoverStore, StoreRecords, Selections, Recovered, FromScan, Return, memory, LabelInv
<1>17. CASE RecoverFails
  BY <1>17 DEF RecoverFails, NotRecovered, FromScan, Return, LabelInv
<1>18. ASSUME NEW c \in Captures, OpenFile(c) PROVE NewRecord /\ KeepsQuarantine /\ OpensBelowLimit
  BY <1>18 DEF OpenFile, Return, scan
<1>19. ASSUME NEW c \in Captures, CloseFile(c) PROVE NewRecord /\ KeepsQuarantine /\ OpensBelowLimit
  BY <1>19 DEF CloseFile, InUse, Dependents, RemoveCapture, Return, file, scan
<1>20. ASSUME NEW c \in Captures, OpenReplayReuses(c) PROVE NewRecord /\ KeepsQuarantine /\ OpensBelowLimit
  BY <1>20 DEF OpenReplayReuses, Dependents, Return, memory, file, scan
<1>21. ASSUME NEW c \in Captures, OpenReplayStale(c) PROVE NewRecord /\ KeepsQuarantine /\ OpensBelowLimit
  BY <1>21 DEF OpenReplayStale, Return, memory, file, scan
<1>22. ASSUME NEW c \in Captures, OpenReplayLimit(c) PROVE NewRecord /\ KeepsQuarantine /\ OpensBelowLimit
  BY <1>22 DEF OpenReplayLimit, Return, memory, file, scan
<1>23. ASSUME NEW c \in Captures, OpenReplay(c) PROVE NewRecord /\ KeepsQuarantine /\ OpensBelowLimit
  BY <1>23 DEF OpenReplay, NoReplay, StaleOf, Dependents, Enter, scan, NativeIsRecorded, Live
<1>24. CASE OpenStore
  BY <1>24 DEF OpenStore, StoreRecords, Selections, Return, memory, scan, LabelInv
<1>25. CASE OpenFails
  BY <1>25 DEF OpenFails, Return, file, scan
<1>26. CASE CloseStore
  BY <1>26 DEF CloseStore, StoreRecords, Selections, Return, memory, scan
<1>27. CASE ClearRelease
  BY <1>27 DEF ClearRelease, Forget, NoReplays, Enter, file, scan
<1>28. CASE ClearStore
  BY <1>28 DEF ClearStore, NoRecords, memory, scan
<1>29. CASE UNCHANGED vars
  BY <1>29 DEF vars, file
<1> QED
  BY <1>1, <1>2, <1>3, <1>4, <1>5, <1>6, <1>7, <1>8, <1>9, <1>10, <1>11, <1>12, <1>13,
     <1>14, <1>15, <1>16, <1>17, <1>18, <1>19, <1>20, <1>21, <1>22, <1>23, <1>24, <1>25,
     <1>26, <1>27, <1>28, <1>29
     DEF Next, SessionOperation, CaptureOperation

\* The records are within the limit, and below it while a replay is opened.
LimitInv ==
  /\ IsFiniteSet(Recorded) /\ Cardinality(Recorded) <= MaxSessions
  /\ pc = "open" => Cardinality(Recorded) < MaxSessions

\* At first there are no records.
LEMMA LimitInit == Init => LimitInv
<1>1. Init => Recorded = {} /\ pc # "open"
  BY DEF Init, NoRecords, Recorded, RecordedIn
<1> QED
  BY <1>1, FS_EmptySet, LimitAssumption DEF LimitInv

\* Only open_replay adds a record, and it began below the limit.
LEMMA LimitStep == Inv /\ LimitInv /\ [Next]_vars => LimitInv'
<1> SUFFICES ASSUME Inv, LimitInv, [Next]_vars PROVE LimitInv'
  OBVIOUS
<1>1. Cardinality(Recorded) \in Nat
  BY FS_CardinalityType DEF LimitInv
<1>2. NewRecord /\ OpensBelowLimit
  BY RecordSteps
<1>3. pc' = "open" => Cardinality(Recorded) < MaxSessions
  <2>1. CASE pc = "open"
    BY <2>1 DEF LimitInv
  <2>2. CASE pc' = "open" /\ pc # "open"
    <3>1. PICK c \in Captures : StaleOf(c) = {} /\ ~LimitReached(c)
      BY <1>2, <2>2 DEF OpensBelowLimit
    <3>2. Recorded \ StaleOf(c) = Recorded
      BY <3>1
    <3> QED
      BY <3>1, <3>2, <1>1, LimitAssumption DEF LimitReached
  <2> QED
    BY <2>1, <2>2
<1>4. CASE Recorded' \subseteq Recorded
  <2>1. /\ IsFiniteSet(Recorded') /\ Cardinality(Recorded') \in Nat
        /\ Cardinality(Recorded') <= Cardinality(Recorded)
    BY <1>4, FS_Subset, FS_CardinalityType DEF LimitInv
  <2> QED
    BY <2>1, <1>1, <1>3, LimitAssumption DEF LimitInv
<1>5. CASE ~(Recorded' \subseteq Recorded)
  <2>1. pc = "open" /\ pc' = "idle" /\ Recorded' \subseteq Recorded \cup {arg}
    BY <1>2, <1>5 DEF NewRecord, Recorded, RecordedIn
  <2>2. /\ IsFiniteSet(Recorded \cup {arg})
        /\ Cardinality(Recorded \cup {arg}) \in {Cardinality(Recorded), Cardinality(Recorded) + 1}
    BY FS_AddElement DEF LimitInv
  <2>3. /\ IsFiniteSet(Recorded') /\ Cardinality(Recorded') \in Nat
        /\ Cardinality(Recorded') <= Cardinality(Recorded \cup {arg})
    BY <2>1, <2>2, FS_Subset, FS_CardinalityType
  <2> QED
    BY <1>1, <2>1, <2>2, <2>3, LimitAssumption DEF LimitInv
<1> QED
  BY <1>4, <1>5

\* The limit holds in every reachable state.
LEMMA LimitInvariant == Spec => []LimitInv
BY Invariant, LimitInit, LimitStep, PTL DEF Spec

---------------------------------------------------------------------------
\* Type correctness, and that records are of recorded captures.
THEOREM TypeCorrect == Spec => []TypeOK
<1>1. Inv => TypeOK
  BY DEF Inv
<1> QED
  BY Invariant, <1>1, PTL

\* Wherever the worker is lost, everything it held is in the state file: the
\* idle watcher and cleanup, which read only the file, see every native replay.
THEOREM NativeAlwaysRecorded == Spec => []NativeIsRecorded
<1>1. Inv => NativeIsRecorded
  BY DEF Inv
<1> QED
  BY Invariant, <1>1, PTL

\* What an operation answers of a replay is true when it answers.
THEOREM AnswersAreTrue == Spec => []AnswerIsTrue
<1>1. Inv => AnswerIsTrue
  BY DEF Inv, AnswerInv
<1> QED
  BY Invariant, <1>1, PTL

\* The current session of the context is one it has.
THEOREM SelectedAlwaysRecorded == Spec => []SelectedIsRecorded
<1>1. Inv => SelectedIsRecorded
  BY DEF Inv
<1> QED
  BY Invariant, <1>1, PTL

\* A quarantine ends only with its record.
THEOREM QuarantineLasts == Spec => QuarantineStays
<1>1. Inv /\ [Next]_vars
        => [\A s \in Sessions : Quarantined(s) /\ rec'[s] # NoRecord
              => rec'[s].status = "requires_restart"]_vars
  BY RecordSteps DEF KeepsQuarantine
<1> QED
  BY Invariant, <1>1, PTL DEF Spec, QuarantineStays

\* A set in which any two elements are the same has at most one.
LEMMA AtMostOne ==
  ASSUME NEW S, \A x, y \in S : x = y
  PROVE  Cardinality(S) <= 1
<1>1. CASE S = {}
  BY <1>1, FS_EmptySet
<1>2. CASE S # {}
  <2>1. PICK x \in S : S = {x}
    BY <1>2
  <2> QED
    BY <2>1, FS_Singleton
<1> QED
  BY <1>1, <1>2

\* A capture has at most one native replay and one record.
THEOREM OneReplayAlways == Spec => []OneReplayPerCapture
<1>1. Inv => OneReplayPerCapture
  <2> SUFFICES ASSUME Inv, NEW c \in Captures
               PROVE  /\ Cardinality(Dependents(c)) <= 1
                      /\ Cardinality({s \in Recorded : rec[s].cap = c}) <= 1
    BY DEF OneReplayPerCapture
  <2> USE NoneAssumption, RecordFacts DEF Inv
  <2>1. \A s, t \in Dependents(c) : s = t
    BY DEF Dependents, NativeIsRecorded, Live, UniqueInv, LabelInv
  <2>2. \A s, t \in {x \in Recorded : rec[x].cap = c} : s = t
    BY DEF Recorded, RecordedIn, UniqueInv
  <2> QED
    BY <2>1, <2>2, AtMostOne
<1> QED
  BY Invariant, <1>1, PTL

\* Neither the records nor the native replays exceed the limit.
THEOREM LimitAlways == Spec => []WithinLimit
<1>1. Inv /\ LimitInv => WithinLimit
  <2> SUFFICES ASSUME Inv, LimitInv PROVE WithinLimit
    OBVIOUS
  <2>1. Cardinality(Recorded) \in Nat
    BY FS_CardinalityType DEF LimitInv
  <2>2. CASE pc # "open"
    <3>1. manager \subseteq Recorded
      BY <2>2, NoneAssumption, RecordFacts
         DEF Inv, TypeOK, NativeIsRecorded, Live, Recorded, RecordedIn
    <3> QED
      BY <2>1, <3>1, FS_Subset, FS_CardinalityType, LimitAssumption DEF LimitInv, WithinLimit
  <2>3. CASE pc = "open"
    <3>1. manager \subseteq Recorded \cup {arg}
      BY <2>3, NoneAssumption, RecordFacts
         DEF Inv, TypeOK, NativeIsRecorded, Live, Recorded, RecordedIn
    <3>2. /\ IsFiniteSet(Recorded \cup {arg})
          /\ Cardinality(Recorded \cup {arg}) \in {Cardinality(Recorded), Cardinality(Recorded) + 1}
      BY FS_AddElement DEF LimitInv
    <3>3. /\ Cardinality(manager) \in Nat
          /\ Cardinality(manager) <= Cardinality(Recorded \cup {arg})
      BY <3>1, <3>2, FS_Subset, FS_CardinalityType
    <3> QED
      BY <2>1, <2>3, <3>2, <3>3, LimitAssumption DEF LimitInv, WithinLimit
  <2> QED
    BY <2>2, <2>3
<1> QED
  BY Invariant, LimitInvariant, <1>1, PTL
===============================================================================
