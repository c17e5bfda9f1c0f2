---------------------------- MODULE RemoteHandles ----------------------------
(***************************************************************************)
(* The remote connections of one daemon context (rdc_tool/server_runtime.py) *)
(* over adb: every connection owns a forward on the device, several         *)
(* sessions may lease one connection, and what is needed to release the     *)
(* forward after a restart is recorded in the context snapshot (one remote) *)
(* and in the record of every session opened through it.                    *)
(*                                                                         *)
(* A connection is named by its forward: "link" below is the RemoteHandle   *)
(* object that made the forward.  A worker executes one operation at a      *)
(* time and may be lost at every await.  An operation that fails before it  *)
(* changed anything is a stuttering step.  Local captures and the session   *)
(* limit are in ReplayContext, the helper process follows its forward, and  *)
(* a new forward gets a port that no record names.  The snapshot of a       *)
(* handle that a failed recovery removed under two sessions ("session_owned")*)
(* is not modelled.                                                         *)
(***************************************************************************)
EXTENDS FiniteSets

CONSTANTS
  Remotes,   \* remote_ids
  Sessions,  \* session_ids of remote replays
  Forwards,  \* adb forwards: device, local port, remote port
  None

ASSUME NoneAssumption == None \notin Remotes \cup Sessions \cup Forwards

VARIABLES
  pc,      \* the operation between two awaits; "gone" when there is no worker
  arg,     \* its session
  rid,     \* its remote
  con,     \* its connection
  device,  \* the forwards that exist
  link,    \* RemoteHandle objects
  remotes, \* _runtime.remotes
  owner,   \* _runtime.session_owned_remotes
  uses,    \* the connection of each live replay
  snap,    \* snapshot: remote
  rec      \* state file: sessions with backend_type remote

op     == <<pc, arg, rid, con>>
memory == <<link, remotes, owner, uses>>
file   == <<snap, rec>>
vars   == <<op, device, memory, file>>

---------------------------------------------------------------------------
\* status: "up" is connected with a remote_server, "suspect" only the latter.
\* boot is the bootstrap description, which is what gets recorded.
Link(r, status, boot, leased) == [remote |-> r, status |-> status, boot |-> boot, leased |-> leased]
NoLink == Link(None, "none", None, {})

\* A recorded identity: the endpoint and the bootstrap description.
NoSnap   == [state |-> "none", remote |-> None, at |-> None, boot |-> None]
NoRecord == [status |-> "none", remote |-> None, at |-> None, boot |-> None]

Recorded        == {s \in Sessions : rec[s] # NoRecord}
LeasedBy(f)     == {s \in Sessions : owner[s] = f}
Connections     == {remotes[r] : r \in Remotes} \ {None}
Consistent(x)   == x.at = x.boot

\* Forwards and remote_ids nothing refers to.
Fresh(f) ==
  /\ f \notin device /\ link[f] = NoLink
  /\ \A g \in Forwards : link[g].boot # f
  /\ f \notin {snap.at, snap.boot, con}
  /\ \A s \in Sessions : f \notin {rec[s].at, rec[s].boot}
New(r) ==
  /\ remotes[r] = None /\ snap.remote # r
  /\ \A f \in Forwards : link[f].remote # r
  /\ \A s \in Sessions : rec[s].remote # r

\* An object nobody refers to is gone.
Collect(ln, rm, ow) ==
  [f \in Forwards |-> IF \/ \E r \in Remotes : rm[r] = f
                         \/ \E s \in Sessions : ow[s] = f
                      THEN ln[f] ELSE NoLink]

\* _remote_snapshot_payload_from_handle
Live(r, f, ln) == [state |-> "live", remote |-> r, at |-> f, boot |-> ln[f].boot]

\* _context_snapshot: a live handle that is not in memory has expired.
Synced(sn, rm, ln) ==
  IF sn.state # "live" THEN sn
  ELSE IF rm[sn.remote] = None THEN [sn EXCEPT !.state = "expired"]
  ELSE Live(sn.remote, rm[sn.remote], ln)

\* _set_context_remote_live for a session that gives back f, a handle of r: the
\* endpoint of f with the description of the handle that is registered by now.
LiveAgain(sn, r, f, rm, ln) ==
  IF r # None /\ rm[r] # None THEN [Live(r, rm[r], ln) EXCEPT !.at = f] ELSE Synced(sn, rm, ln)

NoLinks    == [f \in Forwards |-> NoLink]
NoRemotes  == [r \in Remotes |-> None]
NoSessions == [s \in Sessions |-> None]
NoRecords  == [s \in Sessions |-> NoRecord]

At(label, s, r, f) == pc' = label /\ arg' = s /\ rid' = r /\ con' = f
Idle               == At("idle", None, None, None)

Init ==
  /\ pc = "gone" /\ arg = None /\ rid = None /\ con = None
  /\ device = {} /\ link = NoLinks /\ remotes = NoRemotes
  /\ owner = NoSessions /\ uses = NoSessions
  /\ snap = NoSnap /\ rec = NoRecords

---------------------------------------------------------------------------
(* _disconnect_remote_handle_sync: the connection is shut down unless it     *)
(* already was, then the forward is removed; each may fail on its own        *)

\* Mutant: the object keeps no status at all.
ShutDownEmpties(f, ok) == IF ok THEN "none" ELSE link[f].status

\* What is left of the object's status, and whether there were no errors.
ShutDown(f, ok) == IF ok \/ link[f].status = "down" THEN "down" ELSE link[f].status
Released(f, shut, clean) == clean /\ (shut \/ link[f].status = "down")

---------------------------------------------------------------------------
(* The worker process *)

Forget ==
  /\ link' = NoLinks /\ remotes' = NoRemotes
  /\ owner' = NoSessions /\ uses' = NoSessions

WorkerLost ==
  /\ pc # "gone"
  /\ Forget
  /\ At("gone", None, None, None)
  /\ UNCHANGED <<device, file>>

\* runtime_shutdown(clear_context_state=False): whatever cannot be released is
\* still recorded.
WorkerStops ==
  /\ pc = "idle"
  /\ \E gone \in SUBSET Connections : device' = device \ gone
  /\ Forget
  /\ At("gone", None, None, None)
  /\ UNCHANGED file

\* _mark_replay_requires_restart
Restart == [s \in Sessions |-> IF s \in Recorded THEN [rec[s] EXCEPT !.status = "restart"] ELSE NoRecord]

\* The scan before the first operation defers what is not quarantined.
Deferred ==
  [s \in Sessions |-> IF s \in Recorded /\ rec[s].status # "restart"
                      THEN [rec[s] EXCEPT !.status = "deferred"] ELSE rec[s]]

\* Every worker starts in quarantine but one that replaces a worker which died
\* between the two checks of _ensure_worker (QuarantineBeforeDispatch in
\* WorkerRequests).
WorkerStart ==
  /\ pc = "gone"
  /\ rec' = Restart \/ rec' = Deferred
  /\ snap' = Synced(snap, remotes, link)
  /\ Idle
  /\ UNCHANGED <<device, memory>>

---------------------------------------------------------------------------
(* rd.remote.connect, and rehydration of a handle that only the snapshot     *)
(* knows: rd.remote.ping, disconnect and open_replay begin with it           *)

Connect(r) ==
  /\ pc = "idle" /\ New(r)
  /\ At("connect", None, r, None)
  /\ UNCHANGED <<device, memory, file>>

\* _retire_recovery_android_forward refuses an inconsistent identity.
Rehydrate(r) ==
  /\ pc = "idle"
  /\ remotes[r] = None /\ snap.remote = r /\ Consistent(snap)
  /\ device' = device \ {snap.at}
  /\ At("rehydrate", None, r, None)
  /\ UNCHANGED <<memory, file>>

\* _connect_remote_endpoint
Dial ==
  /\ pc \in {"connect", "rehydrate"}
  /\ \E f \in Forwards :
       /\ Fresh(f)
       /\ device' = device \cup {f}
       /\ At("dialled", None, rid, f)
  /\ UNCHANGED <<memory, file>>

\* The roll-back of a failed connection may itself fail.
DialFails ==
  /\ pc \in {"connect", "rehydrate", "recover"}
  /\ \/ UNCHANGED device
     \/ \E f \in Forwards : Fresh(f) /\ device' = device \cup {f}
  /\ Idle
  /\ UNCHANGED <<memory, file>>

Publish ==
  /\ pc = "dialled"
  /\ link' = [link EXCEPT ![con] = Link(rid, "up", con, {})]
  /\ remotes' = [remotes EXCEPT ![rid] = con]
  /\ snap' = Live(rid, con, link')
  /\ Idle
  /\ UNCHANGED <<device, owner, uses, rec>>

PingFails(r) ==
  /\ pc = "idle"
  /\ remotes[r] # None /\ link[remotes[r]].status = "up"
  /\ link' = [link EXCEPT ![remotes[r]].status = "suspect"]
  /\ UNCHANGED <<op, device, remotes, owner, uses, file>>

\* Mutant: disconnect does not ask for leases.
NotInUseUnasked(f) == TRUE

\* remote_handle_in_use
NotInUse(f) == link[f].leased = {}

\* Mutant: the handle is forgotten although its clean-up failed.
MayForgetAlways(f, shut, clean) == TRUE

MayForget(f, shut, clean) == Released(f, shut, clean)

\* rd.remote.disconnect.  _clear_context_remote_live finds the handle gone
\* already, and the snapshot expired (2701).
Disconnect(r) ==
  /\ pc = "idle"
  /\ remotes[r] # None /\ NotInUse(remotes[r])
  /\ LET f == remotes[r] IN \E shut, clean \in BOOLEAN :
       /\ device' = IF clean THEN device \ {f} ELSE device
       /\ remotes' = IF MayForget(f, shut, clean) THEN [remotes EXCEPT ![r] = None] ELSE remotes
       /\ link' = Collect([link EXCEPT ![f].status = ShutDown(f, shut)], remotes', owner)
       /\ snap' = Synced(snap, remotes', link')
  /\ UNCHANGED <<op, owner, uses, rec>>

---------------------------------------------------------------------------
(* rd.capture.open_replay with a remote_id, and close_replay *)

Open(s, r) ==
  /\ pc = "idle"
  /\ rec[s] = NoRecord
  /\ remotes[r] # None /\ link[remotes[r]].status = "up"
  /\ uses' = [uses EXCEPT ![s] = remotes[r]]
  /\ At("open", s, r, remotes[r])
  /\ UNCHANGED <<device, link, remotes, owner, file>>

\* _register_remote_session_lease
Lease(s, r, f, ln) ==
  /\ link' = [ln EXCEPT ![f].leased = @ \cup {s}]
  /\ owner' = [owner EXCEPT ![s] = f]
  /\ snap' = Live(r, f, link')

\* _remote_session_metadata
Metadata(r, f, ln) == [status |-> "ready", remote |-> r, at |-> f, boot |-> ln[f].boot]

OpenStore ==
  /\ pc = "open"
  /\ Lease(arg, rid, con, link)
  /\ rec' = [rec EXCEPT ![arg] = Metadata(rid, con, link)]
  /\ Idle
  /\ UNCHANGED <<device, remotes, uses>>

OpenFails ==
  /\ pc = "open"
  /\ uses' = [uses EXCEPT ![arg] = None]
  /\ snap' = Live(rid, con, link)
  /\ Idle
  /\ UNCHANGED <<device, link, remotes, owner, rec>>

\* Mutant: the connection keeps the lease.
GiveUpOwnerOnly(ln, ss) == ln

\* _release_remote_session_lease
GiveUp(ln, ss) == [f \in Forwards |-> [ln[f] EXCEPT !.leased = @ \ ss]]

Release(ss) ==
  /\ owner' = [s \in Sessions |-> IF s \in ss THEN None ELSE owner[s]]
  /\ uses' = [s \in Sessions |-> IF s \in ss THEN None ELSE uses[s]]
  /\ link' = Collect(GiveUp(link, ss), remotes, owner')

\* A session this worker did not open is unknown to close_session.
Close(s) ==
  /\ pc = "idle" /\ uses[s] # None
  /\ Release({s})
  /\ snap' = LiveAgain(snap, link[owner[s]].remote, owner[s], remotes, link')
  /\ At("close", s, None, None)
  /\ UNCHANGED <<device, remotes, rec>>

\* _clear_context_runtime
CloseStore ==
  /\ pc = "close"
  /\ snap' = Synced(snap, remotes, link)
  /\ rec' = [rec EXCEPT ![arg] = NoRecord]
  /\ Idle
  /\ UNCHANGED <<device, memory>>

---------------------------------------------------------------------------
(* _recover_single_session_from_state of a remote session: on its first use, *)
(* or for every session in turn on rd.session.resume                        *)

MayRecover(s) ==
  /\ pc = "idle"
  /\ rec[s] # NoRecord /\ rec[s].status # "restart"
  /\ uses[s] = None

Connected(r) == remotes[r] # None /\ link[remotes[r]].status = "up"

\* A connected handle is used again, and described as the session's record
\* describes it (5709-5717).
RecoverReuses(s) ==
  /\ MayRecover(s) /\ Connected(rec[s].remote)
  /\ LET f == remotes[rec[s].remote] IN
       /\ link' = [link EXCEPT ![f].boot = rec[s].boot]
       /\ At("reopen", s, rec[s].remote, f)
  /\ UNCHANGED <<device, remotes, owner, uses, file>>

RecoverRetires(s) ==
  /\ MayRecover(s) /\ ~Connected(rec[s].remote) /\ Consistent(rec[s])
  /\ device' = device \ {rec[s].at}
  /\ At("recover", s, rec[s].remote, None)
  /\ UNCHANGED <<memory, file>>

RecoverDial ==
  /\ pc = "recover"
  /\ \E f \in Forwards :
       /\ Fresh(f)
       /\ device' = device \cup {f}
       /\ remotes' = [remotes EXCEPT ![rid] = f]
       /\ link' = Collect([link EXCEPT ![f] = Link(rid, "up", f, {})], remotes', owner)
       /\ At("reopen", arg, rid, f)
  /\ UNCHANGED <<owner, uses, file>>

RecoverStore ==
  /\ pc = "reopen"
  /\ Lease(arg, rid, con, link)
  /\ uses' = [uses EXCEPT ![arg] = con]
  /\ rec' = [rec EXCEPT ![arg] = Metadata(rid, con, link)]
  /\ Idle
  /\ UNCHANGED <<device, remotes>>

\* Whatever raises, the handle is disconnected, leased or not.
RecoverFails ==
  /\ pc = "reopen"
  /\ \E shut, clean, registered \in BOOLEAN :
       /\ device' = IF clean THEN device \ {con} ELSE device
       /\ remotes' = IF MayForget(con, shut, clean) THEN [remotes EXCEPT ![rid] = None] ELSE remotes
       /\ link' = Collect([link EXCEPT ![con].status = ShutDown(con, shut)], remotes', owner)
       /\ snap' = Synced(IF registered THEN Live(rid, con, link) ELSE snap, remotes', link')
  /\ rec' = [rec EXCEPT ![arg].status = "degraded"]
  /\ Idle
  /\ UNCHANGED <<owner, uses>>

---------------------------------------------------------------------------
(* rd.session.clear_context: sessions, handles, then the expired identity;   *)
(* the first group with a failure ends it, and nothing is forgotten          *)

\* patched: its record holds shader_replacements
Closable(s, patched) ==
  \/ uses[s] # None
  \/ rec[s].status \in {"deferred", "degraded"} /\ ~patched /\ owner[s] = None

ClearSessions ==
  /\ pc = "idle"
  /\ \E patched \in SUBSET Recorded :
       LET ss == {s \in Recorded : Closable(s, s \in patched)}
           leased == {s \in ss : owner[s] # None} IN
       /\ Release(ss)
       /\ IF leased = {} THEN snap' = Synced(snap, remotes, link')
          ELSE \E s \in leased :
                 snap' = LiveAgain(snap, link[owner[s]].remote, owner[s], remotes, link')
       /\ IF ss = Recorded THEN At("clear", None, None, None) ELSE Idle
  /\ UNCHANGED <<device, remotes, rec>>

ClearRemotes ==
  /\ pc = "clear"
  /\ \E shut, clean \in SUBSET Connections :
       LET stays(r) == remotes[r] # None /\ ~MayForget(remotes[r], remotes[r] \in shut, remotes[r] \in clean) IN
       /\ device' = device \ clean
       /\ remotes' = [r \in Remotes |-> IF stays(r) THEN remotes[r] ELSE None]
       /\ link' = Collect([f \in Forwards |-> IF f \in Connections
                             THEN [link[f] EXCEPT !.status = ShutDown(f, f \in shut)]
                             ELSE link[f]], remotes', owner)
       /\ IF \E r \in Remotes : stays(r) THEN Idle ELSE At("clearSnapshot", None, None, None)
  /\ snap' = Synced(snap, remotes', link')
  /\ UNCHANGED <<owner, uses, rec>>

Expired == snap.state = "expired"

ClearSnapshot ==
  /\ pc = "clearSnapshot"
  /\ \/ /\ ~Expired
        /\ At("clearStore", None, None, None)
        /\ UNCHANGED device
     \/ /\ Expired /\ Consistent(snap)
        /\ device' = device \ {snap.at}
        /\ At("clearStore", None, None, None)
     \/ /\ Expired
        /\ Idle
        /\ UNCHANGED device
  /\ UNCHANGED <<memory, file>>

\* rd.core.shutdown, which is also the daemon's clear_context: errors are
\* swallowed.
Shutdown ==
  /\ pc = "idle"
  /\ \E gone \in SUBSET Connections : device' = device \ gone
  /\ Forget
  /\ At("shutdown", None, None, None)
  /\ UNCHANGED file

\* _reset_context_snapshot
Reset ==
  /\ pc \in {"clearStore", "shutdown"}
  /\ snap' = NoSnap /\ rec' = NoRecords
  /\ Idle
  /\ UNCHANGED <<device, memory>>

---------------------------------------------------------------------------
Next ==
  \/ WorkerLost \/ WorkerStops \/ WorkerStart
  \/ Dial \/ DialFails \/ Publish
  \/ \E r \in Remotes : Connect(r) \/ Rehydrate(r) \/ PingFails(r) \/ Disconnect(r)
  \/ \E s \in Sessions :
       \/ \E r \in Remotes : Open(s, r)
       \/ Close(s) \/ RecoverReuses(s) \/ RecoverRetires(s)
  \/ OpenStore \/ OpenFails \/ CloseStore
  \/ RecoverDial \/ RecoverStore \/ RecoverFails
  \/ ClearSessions \/ ClearRemotes \/ ClearSnapshot
  \/ Shutdown \/ Reset

Spec == Init /\ [][Next]_vars

---------------------------------------------------------------------------
Maybe(S) == S \cup {None}

LinkType == {NoLink} \cup
  [remote : Remotes, status : {"up", "suspect", "down"}, boot : Forwards, leased : SUBSET Sessions]
SnapType == {NoSnap} \cup
  [state : {"live", "expired"}, remote : Remotes, at : Forwards, boot : Forwards]
RecordType == {NoRecord} \cup
  [status : {"ready", "deferred", "degraded", "restart"}, remote : Remotes, at : Forwards, boot : Forwards]

Labels == {"gone", "idle", "connect", "rehydrate", "dialled", "open", "close", "recover", "reopen",
           "clear", "clearSnapshot", "clearStore", "shutdown"}

TypeOK ==
  /\ pc \in Labels
  /\ arg \in Maybe(Sessions) /\ rid \in Maybe(Remotes) /\ con \in Maybe(Forwards)
  /\ device \subseteq Forwards
  /\ link \in [Forwards -> LinkType]
  /\ remotes \in [Remotes -> Maybe(Forwards)]
  /\ owner \in [Sessions -> Maybe(Forwards)] /\ uses \in [Sessions -> Maybe(Forwards)]
  /\ snap \in SnapType
  /\ rec \in [Sessions -> RecordType]

\* The three views of a lease agree, and a live replay leases the connection
\* it uses: remote_handle_in_use, which reads only the handle, knows every
\* replay (2655-2694).  The record of a leased session names that connection.
LeasesAgree ==
  /\ \A f \in Forwards : link[f].leased = LeasedBy(f)
  /\ \A s \in Sessions : uses[s] # None => owner[s] = uses[s] \/ (pc = "open" /\ arg = s)
  /\ \A s \in Sessions : owner[s] # None => /\ rec[s].at = owner[s]
                                           /\ rec[s].remote = link[owner[s]].remote

Usable(f) == f \in device /\ link[f].status # "down"

\* No operation takes the connection from under a live replay, but a reconnection
\* does: a recovery that fails disconnects the handle it was to share
\* (5946-5958), and a forward is retired for whoever still uses it (5724, 2856).
SessionsKeepConnection ==
  [][\A s \in Sessions :
       uses[s] # None /\ uses'[s] = uses[s] /\ Usable(uses[s]) /\ ~Usable(uses[s])'
         => pc = "reopen" \/ pc' \in {"recover", "rehydrate"}]_vars

\* Disconnect, clear_context and a failed recovery forget a handle only when
\* its forward is gone (docs/session-model.md 100): what failed can be retried.
\* It does not speak of rd.core.shutdown, nor of a recovery that puts a new handle
\* in the place of one no longer connected (5838).
HandlesLeaveReleased ==
  [][\A r \in Remotes :
       remotes[r] # None /\ remotes'[r] = None /\ pc' \notin {"gone", "shutdown"}
         => remotes[r] \notin device']_vars

\* clear_context discards the record of a session only when the forward it names is
\* gone: "`clear_context` applies the same identity checks to a deferred remote;
\* cleanup failure retains the context for recovery" (docs/session-model.md 98), and
\* the comment at 7010-7012.  The code checks the identity in the snapshot alone.
ClearForgetsReleased ==
  pc = "clearStore" => \A s \in Recorded : rec[s].at \notin device

\* The identity on file is the one of the connection that was made, which is
\* what recovery and clear_context verify before they touch a forward
\* (docs/session-model.md 98).
RecordedIdentityIsTrue == Consistent(snap) /\ \A s \in Sessions : Consistent(rec[s])
=============================================================================
