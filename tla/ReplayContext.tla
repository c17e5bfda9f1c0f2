---------------------------- MODULE ReplayContext ----------------------------
(***************************************************************************)
(* The replays of one daemon context (rdc_tool/server_runtime.py,          *)
(* rdc_tool/core/session_manager.py): what the worker holds in memory, what *)
(* it has written to the context state file, and what is left when it dies *)
(* between the two.  A worker executes one operation at a time, but an     *)
(* operation awaits native calls between its writes, and the worker may be *)
(* lost at every one of them.                                              *)
(*                                                                         *)
(* Local replays only; a native call may fail, a capture file may vanish.  *)
(* The in-memory copy of the state file equals the file whenever the       *)
(* worker is up (every change is stored at once), except for the copy a    *)
(* recovery scan works on: that is "snap".                                 *)
(***************************************************************************)
EXTENDS FiniteSets, Naturals

CONSTANTS
  Captures,    \* capture_file_ids
  Sessions,    \* session_ids
  MaxSessions, \* limits.max_sessions_per_context
  None

ASSUME LimitAssumption == MaxSessions \in Nat \ {0}
ASSUME NoneAssumption == None \notin Captures \cup Sessions

VARIABLES
  pc,       \* what the worker is doing, "lost" or "gone" when there is none
  arg,      \* the session of the operation in progress, None otherwise
  manager,  \* _session_manager._sessions: sessions holding native objects
  replays,  \* _runtime.replays: the capture each live replay shows
  handles,  \* _runtime.captures
  caps,     \* state file: captures
  rec,      \* state file: sessions
  selected, \* state file: current_session_id
  snap,     \* the session records a recovery scan works on
  snapSelected, \* and the current_session_id
  todo,     \* the sessions it has not looked at
  present,  \* the capture files that exist
  answer    \* the last result, until the next operation

memory == <<manager, replays, handles>>
file   == <<caps, rec, selected>>
scan   == <<snap, snapSelected, todo>>
vars   == <<pc, arg, memory, file, scan, present, answer>>

---------------------------------------------------------------------------
\* recovery.status of a record, with is_live and capture_file_id
Record(c, live, status) == [cap |-> c, live |-> live, status |-> status]
NoRecord   == Record(None, FALSE, "none")
Ready(c)   == Record(c, TRUE, "ready")
NotLive(r)  == [r EXCEPT !.live = FALSE]
Degraded(r) == [r EXCEPT !.live = FALSE, !.status = "degraded"]
Fatal(r)    == [r EXCEPT !.status = "requires_restart"]

RecordedIn(r)  == {s \in Sessions : r[s] # NoRecord}
Recorded       == RecordedIn(rec)
Live           == {s \in Sessions : replays[s] # None}
Quarantined(s) == rec[s].status = "requires_restart"
Dependents(c)  == {s \in Sessions : replays[s] = c}
StaleOf(c)     == {s \in Recorded : rec[s].cap = c /\ replays[s] = None}

Silent         == [kind |-> "none", session |-> None]
Says(kind, s)  == answer' = [kind |-> kind, session |-> s]
Return(kind, s) == pc' = "idle" /\ arg' = None /\ Says(kind, s)
Enter(label, s) == pc' = label /\ arg' = s /\ answer' = Silent

NoReplays  == [s \in Sessions |-> None]
NoRecords  == [s \in Sessions |-> NoRecord]

\* _mark_replay_requires_restart: every record, whatever its status.
MarkAll == [s \in Sessions |-> IF s \in Recorded THEN Fatal(NotLive(rec[s])) ELSE NoRecord]

\* Mutant: a selection that is recorded no more stays.
SelectionsKept(r, s) == IF s # None \/ RecordedIn(r) = {} THEN {s} ELSE RecordedIn(r)

\* _select_session_from_state: the session given while it is recorded, any
\* recorded one otherwise.
Selections(r, s) ==
  IF s \in RecordedIn(r) THEN {s}
  ELSE IF RecordedIn(r) = {} THEN {None} ELSE RecordedIn(r)

\* The records change, and the selection with them.
StoreRecords(r, s) == rec' = r /\ selected' \in Selections(r, s)

Init ==
  /\ pc = "gone" /\ arg = None
  /\ manager = {} /\ replays = NoReplays /\ handles = {}
  /\ caps = {} /\ rec = NoRecords /\ selected = None
  /\ snap = NoRecords /\ snapSelected = None /\ todo = {}
  /\ present = Captures
  /\ answer = Silent

---------------------------------------------------------------------------
(* The worker process, seen from the daemon *)

Forget == manager' = {} /\ replays' = NoReplays /\ handles' = {}

\* The worker ends: while it is idle, or in the middle of a request.
WorkerLost ==
  /\ pc \notin {"lost", "gone"}
  /\ Forget
  /\ pc' = IF pc \in {"idle", "fresh"} THEN "gone" ELSE "lost"
  /\ arg' = None /\ answer' = Silent
  /\ snap' = NoRecords /\ snapSelected' = None /\ todo' = {}
  /\ UNCHANGED <<file, present>>

\* The failed request, or _ensure_worker before the next one, quarantines what
\* the worker held; a worker that dies after _ensure_worker looked is replaced
\* without it (the run on WorkerRequests.QuarantineBeforeDispatch).
WorkerStart ==
  /\ \/ pc \in {"lost", "gone"} /\ rec' = MarkAll
     \/ pc = "gone" /\ UNCHANGED rec
  /\ pc' = "fresh"
  /\ UNCHANGED <<arg, memory, caps, selected, scan, present, answer>>

FileVanishes ==
  /\ \E c \in present : present' = present \ {c}
  /\ UNCHANGED <<pc, arg, memory, file, scan, answer>>

---------------------------------------------------------------------------
(* _recover_context_sessions: before the first operation of a worker        *)
(* (ensure_context_ready) and on rd.session.resume                          *)

ScanBegin ==
  /\ pc \in {"fresh", "idle"}
  /\ Enter("scan", None)
  /\ snap' = rec /\ snapSelected' = selected
  /\ todo' = Recorded
  /\ handles' = handles \cup (caps \cap present)
  /\ UNCHANGED <<manager, replays, file, present>>

\* Mutant: the scan does not look for the quarantine.
ScanSkipsQuarantineNot(s) == FALSE

ScanSkipsQuarantine(s) == snap[s].status = "requires_restart"

\* The limit degrades a record that is not live.
BeyondLimit(s) == replays[s] = None /\ Cardinality(Live) >= MaxSessions

\* Records that are not recovered: quarantined, beyond the limit, or live.
ScanKeeps(s) ==
  /\ pc = "scan"
  /\ s \in todo
  /\ ScanSkipsQuarantine(s) \/ BeyondLimit(s) \/ replays[s] # None
  /\ snap' = [snap EXCEPT ![s] = IF ScanSkipsQuarantine(s) THEN NotLive(@)
                                ELSE IF BeyondLimit(s) THEN Degraded(@) ELSE @]
  /\ todo' = todo \ {s}
  /\ UNCHANGED <<pc, arg, memory, file, snapSelected, present, answer>>

ScanRecovers(s) ==
  /\ pc = "scan"
  /\ s \in todo
  /\ ~ScanSkipsQuarantine(s)
  /\ replays[s] = None /\ ~BeyondLimit(s)
  /\ todo' = todo \ {s}
  /\ pc' = "scanRecover" /\ arg' = s
  /\ UNCHANGED <<memory, file, snap, snapSelected, present, answer>>

\* The scan stores its own copy of every record and of the selection.
ScanEnd ==
  /\ pc = "scan"
  /\ todo = {}
  /\ StoreRecords(snap, snapSelected)
  /\ snap' = NoRecords /\ snapSelected' = None
  /\ Return("scanned", None)
  /\ UNCHANGED <<memory, caps, todo, present>>

---------------------------------------------------------------------------
(* _recover_single_session_from_state, from a scan or from the first        *)
(* operation on a session that is not live                                  *)

FromScan == pc \in {"scanRecover", "scanStore"}

\* Back to the scan with its copy of the record, or to the caller.
Recovered(r) ==
  IF FromScan
    THEN /\ pc' = "scan" /\ arg' = None
         /\ snap' = [snap EXCEPT ![arg] = r]
         /\ UNCHANGED <<snapSelected, answer>>
    ELSE /\ Return("used", arg)
         /\ UNCHANGED <<snap, snapSelected>>

\* select_session selects the session whatever CoreError its recovery raised,
\* but for session_resume_failed.
NotRecovered ==
  /\ IF FromScan
       THEN pc' = "scan" /\ arg' = None /\ UNCHANGED <<selected, answer>>
       ELSE Return("failed", arg) /\ selected' \in {selected, arg}
  /\ UNCHANGED <<snap, snapSelected>>

\* Without its capture file nothing is tried and nothing is stored.
RecoverWithoutFile ==
  /\ pc \in {"scanRecover", "recover"}
  /\ rec[arg].cap \notin present
  /\ NotRecovered
  /\ UNCHANGED <<memory, caps, rec, todo, present>>

\* create_session, open_capture
RecoverOpen ==
  /\ pc \in {"scanRecover", "recover"}
  /\ rec[arg].cap \in present
  /\ manager' = manager \cup {arg}
  /\ replays' = [replays EXCEPT ![arg] = rec[arg].cap]
  /\ handles' = handles \cup {rec[arg].cap}
  /\ pc' = IF FromScan THEN "scanStore" ELSE "store"
  /\ UNCHANGED <<arg, file, scan, present, answer>>

RecoverStore ==
  /\ pc \in {"scanStore", "store"}
  /\ StoreRecords([rec EXCEPT ![arg] = Ready(@.cap)], arg)
  /\ Recovered(Ready(rec[arg].cap))
  /\ UNCHANGED <<memory, caps, todo, present>>

\* A native call raises before or after the controller exists.
RecoverFails ==
  /\ pc \in {"scanRecover", "recover", "scanStore", "store"}
  /\ pc \in {"scanRecover", "recover"} => rec[arg].cap \in present
  /\ manager' = manager \ {arg}
  /\ replays' = [replays EXCEPT ![arg] = None]
  /\ handles' = handles \cup {rec[arg].cap}
  /\ rec' = [rec EXCEPT ![arg] = Degraded(@)]
  /\ NotRecovered
  /\ UNCHANGED <<caps, todo, present>>

---------------------------------------------------------------------------
(* rd.capture.* *)

OpenFile(c) ==
  /\ pc = "idle"
  /\ c \in present /\ c \notin caps
  /\ handles' = handles \cup {c}
  /\ caps' = caps \cup {c}
  /\ StoreRecords(rec, selected)
  /\ Return("file", None)
  /\ UNCHANGED <<manager, replays, scan, present>>

\* Mutant: the session records of the capture stay behind.
RemoveCaptureOnly(c) == rec

\* _remove_context_capture
RemoveCapture(c) == [s \in Sessions |-> IF rec[s].cap = c THEN NoRecord ELSE rec[s]]

InUse(c) == Dependents(c) # {}

CloseFile(c) ==
  /\ pc = "idle"
  /\ c \in handles
  /\ IF InUse(c)
       THEN Return("in_use", None) /\ UNCHANGED <<handles, file>>
       ELSE /\ handles' = handles \ {c}
            /\ caps' = caps \ {c}
            /\ StoreRecords(RemoveCapture(c), selected)
            /\ Return("file", None)
  /\ UNCHANGED <<manager, replays, scan, present>>

\* A live replay of the capture is answered again.
OpenReplayReuses(c) ==
  /\ pc = "idle"
  /\ c \in handles
  /\ \E s \in Dependents(c) : Return("reused", s)
  /\ UNCHANGED <<memory, file, scan, present>>

\* Records of the capture that are not live are closed first; close_session
\* knows only the sessions this worker opened.
OpenReplayStale(c) ==
  /\ pc = "idle"
  /\ c \in handles /\ Dependents(c) = {}
  /\ ~(StaleOf(c) \subseteq manager)
  /\ Return("stale_session_requires_restart", None)
  /\ UNCHANGED <<memory, file, scan, present>>

\* Mutant: the limit is one session late.
LimitReachedLate(c) == Cardinality(Recorded \ StaleOf(c)) > MaxSessions

LimitReached(c) == Cardinality(Recorded \ StaleOf(c)) >= MaxSessions

\* Mutant: open_replay does not look for a live replay of the capture.
NoReplayUnchecked(c) == c \in handles /\ StaleOf(c) \subseteq manager

\* No live replay of the capture, and every record of it can be closed first.
NoReplay(c) == c \in handles /\ Dependents(c) = {} /\ StaleOf(c) \subseteq manager

OpenReplayLimit(c) ==
  /\ pc = "idle"
  /\ NoReplay(c) /\ LimitReached(c)
  /\ Return("session_limit_exceeded", None)
  /\ UNCHANGED <<memory, file, scan, present>>

\* create_session and open_capture: the native replay exists and is not yet
\* recorded.
OpenReplay(c) ==
  /\ pc = "idle"
  /\ NoReplay(c) /\ ~LimitReached(c)
  /\ \E s \in Sessions \ (Recorded \cup manager) :
       /\ manager' = (manager \ StaleOf(c)) \cup {s}
       /\ replays' = [replays EXCEPT ![s] = c]
       /\ Enter("open", s)
  /\ StoreRecords([s \in Sessions |-> IF s \in StaleOf(c) THEN NoRecord ELSE rec[s]], selected)
  /\ UNCHANGED <<handles, caps, scan, present>>

\* _set_context_runtime_session
OpenStore ==
  /\ pc = "open"
  /\ StoreRecords([rec EXCEPT ![arg] = Ready(replays[arg])], arg)
  /\ caps' = caps \cup {replays[arg]}
  /\ Return("opened", arg)
  /\ UNCHANGED <<memory, scan, present>>

\* Mutant: the failed open forgets its native session without closing it.
OpenFailsOpen ==
  /\ pc = "open"
  /\ replays' = [replays EXCEPT ![arg] = None]
  /\ Return("failed", None)
  /\ UNCHANGED <<manager, handles, file, scan, present>>

OpenFails ==
  /\ pc = "open"
  /\ manager' = manager \ {arg}
  /\ replays' = [replays EXCEPT ![arg] = None]
  /\ Return("failed", None)
  /\ UNCHANGED <<handles, file, scan, present>>

\* close_replay: the registry forgets the replay, then close_session; a
\* session this worker did not open is unknown to it.
CloseReplay(s) ==
  /\ pc = "idle"
  /\ replays' = [replays EXCEPT ![s] = None]
  /\ manager' = manager \ {s}
  /\ IF s \in manager THEN Enter("close", s) ELSE Return("session_not_found", s)
  /\ UNCHANGED <<handles, file, scan, present>>

\* _clear_context_runtime
CloseStore ==
  /\ pc = "close"
  /\ StoreRecords([rec EXCEPT ![arg] = NoRecord], selected)
  /\ Return("closed", None)
  /\ UNCHANGED <<memory, caps, scan, present>>

---------------------------------------------------------------------------
(* Operations on a session: _ensure_live_session, the native access, and    *)
(* the health of the replay afterwards                                      *)

UseUnknown(s) ==
  /\ pc = "idle"
  /\ rec[s] = NoRecord
  /\ Return("session_not_found", None)
  /\ UNCHANGED <<memory, file, scan, present>>

UseQuarantined(s) ==
  /\ pc = "idle"
  /\ Quarantined(s)
  /\ Return("session_requires_restart", s)
  /\ UNCHANGED <<memory, file, scan, present>>

\* Mutant: a quarantined replay that is still live is used.
MayUseLive(s) == rec[s] # NoRecord

MayUse(s) == rec[s] # NoRecord /\ ~Quarantined(s)

\* A fatal or unobservable replay quarantines its record and fails the call.
UseLive(s) ==
  /\ pc = "idle"
  /\ MayUse(s) /\ replays[s] # None
  /\ \/ Return("used", s) /\ UNCHANGED rec
     \/ /\ rec' = [rec EXCEPT ![s] = Fatal(@)]
        /\ Return("replay_fatal_error", s)
  /\ UNCHANGED <<memory, caps, selected, scan, present>>

UseRecovers(s) ==
  /\ pc = "idle"
  /\ MayUse(s) /\ replays[s] = None
  /\ Enter("recover", s)
  /\ UNCHANGED <<memory, file, scan, present>>

\* select_session; a session that is not live is recovered first (UseRecovers),
\* but a quarantined one is selected as it is.
SelectSession(s) ==
  /\ pc = "idle"
  /\ s \in Recorded
  /\ replays[s] # None \/ Quarantined(s)
  /\ StoreRecords(rec, s)
  /\ Return("selected", s)
  /\ UNCHANGED <<memory, caps, scan, present>>

---------------------------------------------------------------------------
(* Context clear: rd.core.shutdown in the worker, or the daemon alone when  *)
(* no worker runs                                                           *)

ClearRelease ==
  /\ pc = "idle"
  /\ Forget
  /\ Enter("clear", None)
  /\ UNCHANGED <<file, scan, present>>

ClearStore ==
  /\ pc = "clear" \/ pc = "gone" \/ pc = "lost"
  /\ caps' = {} /\ rec' = NoRecords /\ selected' = None
  /\ pc' = IF pc = "clear" THEN "fresh" ELSE pc
  /\ UNCHANGED <<arg, memory, scan, present, answer>>

---------------------------------------------------------------------------
CaptureOperation(c) ==
  \/ OpenFile(c) \/ CloseFile(c)
  \/ OpenReplayReuses(c) \/ OpenReplayStale(c) \/ OpenReplayLimit(c) \/ OpenReplay(c)

SessionOperation(s) ==
  \/ CloseReplay(s) \/ UseUnknown(s) \/ UseQuarantined(s) \/ UseLive(s) \/ UseRecovers(s)
  \/ SelectSession(s)

Next ==
  \/ WorkerLost \/ WorkerStart \/ FileVanishes
  \/ ScanBegin \/ ScanEnd
  \/ \E s \in Sessions : ScanKeeps(s) \/ ScanRecovers(s) \/ SessionOperation(s)
  \/ RecoverWithoutFile \/ RecoverOpen \/ RecoverStore \/ RecoverFails
  \/ \E c \in Captures : CaptureOperation(c)
  \/ OpenStore \/ OpenFails \/ CloseStore
  \/ ClearRelease \/ ClearStore

Spec == Init /\ [][Next]_vars

---------------------------------------------------------------------------
Statuses == {"ready", "degraded", "requires_restart"}
Answers == {"none", "scanned", "used", "failed", "file", "in_use", "reused", "opened", "closed",
            "selected", "stale_session_requires_restart", "session_limit_exceeded",
            "session_not_found", "session_requires_restart", "replay_fatal_error"}
RecordType == [cap : Captures, live : BOOLEAN, status : Statuses] \cup {NoRecord}

\* Records refer to recorded captures.
TypeOK ==
  /\ pc \in {"lost", "gone", "fresh", "idle", "scan", "scanRecover", "scanStore", "recover",
             "store", "open", "close", "clear"}
  /\ arg \in Sessions \cup {None}
  /\ manager \subseteq Sessions /\ handles \subseteq Captures
  /\ replays \in [Sessions -> Captures \cup {None}]
  /\ caps \subseteq Captures /\ present \subseteq Captures
  /\ rec \in [Sessions -> RecordType] /\ snap \in [Sessions -> RecordType]
  /\ todo \subseteq Sessions /\ {selected, snapSelected} \subseteq Sessions \cup {None}
  /\ answer \in [kind : Answers, session : Sessions \cup {None}]
  /\ \A s \in Recorded : rec[s].cap \in caps

\* Every native replay is in the registry and, once its operation is over, in
\* the state file: the idle watcher and cleanup, which read only the file, see
\* everything the worker holds (client.py 472-495).
NativeIsRecorded ==
  /\ manager = Live
  /\ \A s \in manager : rec[s].cap = replays[s] \/ (s = arg /\ pc = "open")

\* open_replay is idempotent: a capture has at most one native replay and one
\* record, recovered ones included.
OneReplayPerCapture ==
  \A c \in Captures : /\ Cardinality(Dependents(c)) <= 1
                       /\ Cardinality({s \in Recorded : rec[s].cap = c}) <= 1

\* No sequence of opens, losses and recoveries exceeds the session limit.
WithinLimit == Cardinality(Recorded) <= MaxSessions /\ Cardinality(manager) <= MaxSessions

\* A quarantine ends only with the record: no scan, recovery or use turns it
\* into another status (docs/public-contract.md 104).
QuarantineStays ==
  [][\A s \in Sessions : Quarantined(s) /\ rec'[s] # NoRecord
       => rec'[s].status = "requires_restart"]_vars

\* What an operation answers about a session is true when it answers: the
\* replay is native, recorded and not quarantined.
AnswerIsTrue ==
  answer.kind \in {"used", "opened"}
    => /\ answer.session \in manager
       /\ rec[answer.session] = Ready(replays[answer.session])

\* The context names a session it has as the current one, or none when it has
\* none: operations without a session_id, the preview and the summaries go to
\* the selected session (docs/tool-reference.md 194), through closes, scans
\* that end with their own older copy, quarantines and losses of the worker.
SelectedIsRecorded ==
  IF Recorded = {} THEN selected = None ELSE selected \in Recorded

\* A record says is_live only of a replay some worker holds; after a failed
\* recovery it says degraded and not live
\* (tests/test_runtime_recovery_and_discovery.py 698).
RecordIsTrue ==
  pc = "idle" => \A s \in Recorded : rec[s].live => s \in manager

\* "close and reopen the capture" (server_runtime.py 5034, server.py 352): a
\* recorded replay can be closed.
RecordedCanBeClosed ==
  answer.kind = "session_not_found" /\ answer.session # None => rec[answer.session] = NoRecord
=============================================================================
