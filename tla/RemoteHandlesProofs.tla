------------------------- MODULE RemoteHandlesProofs -------------------------
(***************************************************************************)
(* The views of a lease agree for every set of remotes, sessions and        *)
(* forwards.  The lease is made in the step that ends an open or a          *)
(* recovery, so the inductive invariant says what those operations know     *)
(* while they await: the connection they took, and that their session holds *)
(* no lease yet.                                                            *)
(***************************************************************************)
EXTENDS RemoteHandles, TLAPS

\* A registered handle is registered under its own name.
Names == \A r \in Remotes : remotes[r] # None => link[remotes[r]].remote = r

\* The connection of a leasing session is the one its replay uses.
OwnersUse == \A s \in Sessions : owner[s] # None => uses[s] = owner[s]

\* What an operation relies on between two awaits.
LabelInv ==
  /\ pc \in {"connect", "rehydrate", "dialled", "open", "recover", "reopen"} => rid \in Remotes
  /\ pc \in {"open", "close", "recover", "reopen"} => arg \in Sessions /\ owner[arg] = None
  /\ pc \in {"dialled", "open", "reopen"} => con \in Forwards
  /\ pc = "dialled" => link[con] = NoLink
  /\ pc \in {"open", "reopen"} => link[con].remote = rid
  /\ pc = "open" => uses[arg] = con
  /\ pc \in {"recover", "reopen"} => rec[arg] # NoRecord

\* No session is left when the handles are cleared or the worker is gone.
NoSessionLeft ==
  pc \in {"gone", "clear", "clearSnapshot", "clearStore", "shutdown"} =>
    \A s \in Sessions : owner[s] = None /\ uses[s] = None

IInv == TypeOK /\ LeasesAgree /\ Names /\ OwnersUse /\ LabelInv /\ NoSessionLeft

---------------------------------------------------------------------------
\* The leases of the objects are those of the registry.
Leases(ln, ow) == \A f \in Forwards : ln[f].leased = {s \in Sessions : ow[s] = f}

\* Handles are registered under their own names.
Named(ln, rm) == \A r \in Remotes : rm[r] # None => ln[rm[r]].remote = r

\* Collecting the objects nobody refers to keeps the others.
LEMMA CollectKeeps ==
  ASSUME NEW ln \in [Forwards -> LinkType],
         NEW rm \in [Remotes -> Maybe(Forwards)], NEW ow \in [Sessions -> Maybe(Forwards)],
         Leases(ln, ow), Named(ln, rm)
  PROVE  /\ Collect(ln, rm, ow) \in [Forwards -> LinkType]
         /\ Leases(Collect(ln, rm, ow), ow)
         /\ Named(Collect(ln, rm, ow), rm)
         /\ \A s \in Sessions : ow[s] # None => Collect(ln, rm, ow)[ow[s]] = ln[ow[s]]
         /\ \A r \in Remotes : rm[r] # None => Collect(ln, rm, ow)[rm[r]] = ln[rm[r]]
<1> DEFINE c == Collect(ln, rm, ow)
<1>1. NoLink \in LinkType /\ NoLink.leased = {}
  BY DEF NoLink, Link, LinkType
<1>2. c \in [Forwards -> LinkType]
  BY <1>1 DEF Collect
<1>3. ASSUME NEW s \in Sessions, ow[s] # None
      PROVE  c[ow[s]] = ln[ow[s]]
  BY <1>3 DEF Collect, Maybe
<1>4. ASSUME NEW r \in Remotes, rm[r] # None
      PROVE  c[rm[r]] = ln[rm[r]]
  BY <1>4 DEF Collect, Maybe
<1>5. ASSUME NEW f \in Forwards
      PROVE  c[f].leased = {s \in Sessions : ow[s] = f}
  <2>1. CASE \E s \in Sessions : ow[s] = f
    BY <2>1 DEF Collect, Leases
  <2>2. CASE ~ \E s \in Sessions : ow[s] = f
    <3>1. {s \in Sessions : ow[s] = f} = {}
      BY <2>2
    <3>2. ln[f].leased = {}
      BY <3>1 DEF Leases
    <3>3. c[f] = ln[f] \/ c[f] = NoLink
      BY DEF Collect
    <3>4. QED
      BY <3>1, <3>2, <3>3, <1>1
  <2>3. QED
    BY <2>1, <2>2
<1>6. QED
  BY <1>2, <1>3, <1>4, <1>5 DEF Leases, Named

\* What the values on file and in memory are made of.
LEMMA Values ==
  /\ NoLink \in LinkType /\ NoSnap \in SnapType /\ NoRecord \in RecordType
  /\ \A l \in LinkType : l.remote # None =>
       /\ l \in [remote : Remotes, status : {"up", "suspect", "down"},
                 boot : Forwards, leased : SUBSET Sessions]
  /\ \A l \in LinkType : l.leased \subseteq Sessions
  /\ \A x \in SnapType : x.state # "none" =>
       x \in [state : {"live", "expired"}, remote : Remotes, at : Forwards, boot : Forwards]
  /\ \A x \in RecordType : x.remote \in Maybe(Remotes) /\ x.at \in Maybe(Forwards)
  /\ \A x \in RecordType : x # NoRecord =>
       x \in [status : {"ready", "deferred", "degraded", "restart"},
              remote : Remotes, at : Forwards, boot : Forwards]
BY NoneAssumption DEF LinkType, SnapType, RecordType, Maybe, NoLink, Link, NoSnap, NoRecord

\* A snapshot made of a registered handle, or of the previous one, is a snapshot.
LEMMA SnapOperators ==
  ASSUME NEW ln \in [Forwards -> LinkType], NEW rm \in [Remotes -> Maybe(Forwards)],
         Named(ln, rm), NEW sn \in SnapType
  PROVE  /\ \A r \in Remotes : \A f \in Forwards : ln[f].remote # None => Live(r, f, ln) \in SnapType
         /\ Synced(sn, rm, ln) \in SnapType
         /\ \A r \in Maybe(Remotes), f \in Forwards : LiveAgain(sn, r, f, rm, ln) \in SnapType
<1>1. ASSUME NEW r \in Remotes, NEW f \in Forwards, ln[f].remote # None
      PROVE  Live(r, f, ln) \in SnapType
  BY <1>1, Values DEF Live, SnapType
<1>2. ASSUME NEW r \in Remotes, rm[r] # None
      PROVE  Live(r, rm[r], ln) \in SnapType
  BY <1>1, <1>2, NoneAssumption DEF Named, Maybe
<1>3. Synced(sn, rm, ln) \in SnapType
  <2>1. CASE sn.state # "live"
    BY <2>1 DEF Synced
  <2>2. CASE sn.state = "live"
    <3>1. sn \in [state : {"live", "expired"}, remote : Remotes, at : Forwards, boot : Forwards]
      BY <2>2, Values
    <3>2. CASE rm[sn.remote] = None
      BY <2>2, <3>1, <3>2 DEF Synced, SnapType
    <3>3. CASE rm[sn.remote] # None
      BY <2>2, <3>1, <3>3, <1>2 DEF Synced
    <3>4. QED
      BY <3>2, <3>3
  <2>3. QED
    BY <2>1, <2>2
<1>4. ASSUME NEW r \in Maybe(Remotes), NEW f \in Forwards
      PROVE  LiveAgain(sn, r, f, rm, ln) \in SnapType
  <2>1. CASE r # None /\ rm[r] # None
    <3>1. /\ Live(r, rm[r], ln) \in SnapType
          /\ Live(r, rm[r], ln).state = "live"
      BY <1>2, <2>1 DEF Live, Maybe
    <3>2. [Live(r, rm[r], ln) EXCEPT !.at = f] \in SnapType
      BY <3>1, Values DEF SnapType
    <3>3. QED
      BY <2>1, <3>2 DEF LiveAgain
  <2>2. CASE ~(r # None /\ rm[r] # None)
    BY <1>3, <2>2 DEF LiveAgain
  <2>3. QED
    BY <2>1, <2>2
<1>5. QED
  BY <1>1, <1>3, <1>4

---------------------------------------------------------------------------
\* Between two awaits an operation leaves the handles and leases alone.
LEMMA AwaitKeeps ==
  ASSUME IInv,
         \/ \E r \in Remotes : Connect(r) \/ Rehydrate(r)
         \/ Dial \/ DialFails \/ ClearSnapshot
         \/ \E s \in Sessions : RecoverRetires(s)
  PROVE  IInv'
<1> USE DEF IInv, memory, file
<1>1. UNCHANGED <<link, remotes, owner, uses, snap, rec>>
  BY DEF Connect, Rehydrate, Dial, DialFails, ClearSnapshot, RecoverRetires
<1>2. LeasesAgree' /\ Names' /\ OwnersUse'
  <2>1. pc # "open" /\ pc' # "open"
    BY DEF Connect, Rehydrate, Dial, DialFails, ClearSnapshot, RecoverRetires, MayRecover, At, Idle
  <2>2. QED
    BY <1>1, <2>1 DEF LeasesAgree, Names, OwnersUse, LeasedBy
<1>3. SUFFICES ASSUME pc' \in Labels, arg' \in Maybe(Sessions), rid' \in Maybe(Remotes),
                      con' \in Maybe(Forwards), device' \subseteq Forwards
               PROVE  LabelInv' /\ NoSessionLeft'
  <2>1. pc' \in Labels /\ arg' \in Maybe(Sessions) /\ rid' \in Maybe(Remotes) /\ con' \in Maybe(Forwards)
    <3>1. \A s \in Sessions : rec[s].remote \in Maybe(Remotes)
      BY Values DEF TypeOK
    <3>2. QED
      BY <3>1 DEF TypeOK, LabelInv, Labels, Maybe, Connect, Rehydrate, Dial, DialFails, ClearSnapshot,
             RecoverRetires, At, Idle
  <2>2. device' \subseteq Forwards
    BY DEF TypeOK, Connect, Rehydrate, Dial, DialFails, ClearSnapshot, RecoverRetires
  <2>3. QED
    BY <1>1, <1>2, <2>1, <2>2 DEF TypeOK
<1>4. ASSUME NEW r \in Remotes, Connect(r) \/ Rehydrate(r)
      PROVE  LabelInv' /\ NoSessionLeft'
  BY <1>4 DEF Connect, Rehydrate, At, LabelInv, NoSessionLeft
<1>5. CASE Dial
  BY <1>1, <1>5 DEF Dial, Fresh, At, LabelInv, NoSessionLeft
<1>6. CASE DialFails
  BY <1>6 DEF DialFails, Idle, At, LabelInv, NoSessionLeft
<1>7. CASE ClearSnapshot
  BY <1>1, <1>7 DEF ClearSnapshot, Idle, At, LabelInv, NoSessionLeft
<1>8. ASSUME NEW s \in Sessions, RecoverRetires(s)
      PROVE  LabelInv' /\ NoSessionLeft'
  <2>1. owner[s] = None
    BY <1>8 DEF RecoverRetires, MayRecover, OwnersUse
  <2>2. rec[s] # NoRecord /\ rec[s].remote \in Remotes
    BY <1>8, Values DEF RecoverRetires, MayRecover, TypeOK
  <2>3. QED
    BY <1>1, <1>8, <2>1, <2>2 DEF RecoverRetires, At, LabelInv, NoSessionLeft
<1>9. QED
  BY <1>4, <1>5, <1>6, <1>7, <1>8

\* A worker that ends takes the handles with it.
LEMMA ForgetKeeps ==
  ASSUME IInv, WorkerLost \/ WorkerStops \/ Shutdown
  PROVE  IInv'
<1> USE DEF IInv, file
<1>1. Forget /\ UNCHANGED <<snap, rec>>
  BY DEF WorkerLost, WorkerStops, Shutdown
<1>2. TypeOK'
  BY <1>1, Values DEF TypeOK, Labels, Maybe, WorkerLost, WorkerStops, Shutdown, Forget, At,
         NoLinks, NoRemotes, NoSessions
<1>3. LeasesAgree' /\ Names' /\ OwnersUse' /\ NoSessionLeft'
  BY <1>1, NoneAssumption DEF LeasesAgree, LeasedBy, Names, OwnersUse, NoSessionLeft, Forget,
         NoLinks, NoLink, Link, NoRemotes, NoSessions
<1>4. LabelInv'
  BY DEF LabelInv, WorkerLost, WorkerStops, Shutdown, At
<1>5. QED
  BY <1>2, <1>3, <1>4

\* The steps that only write the context state file.
LEMMA FileKeeps ==
  ASSUME IInv, WorkerStart \/ CloseStore \/ Reset
  PROVE  IInv'
<1> USE DEF IInv, memory
<1>1. UNCHANGED <<device, link, remotes, owner, uses>>
  BY DEF WorkerStart, CloseStore, Reset
<1>2. CASE WorkerStart
  <2>1. rec' \in [Sessions -> RecordType]
    <3>1. Restart \in [Sessions -> RecordType] /\ Deferred \in [Sessions -> RecordType]
      BY Values DEF Restart, Deferred, Recorded, TypeOK, RecordType
    <3>2. QED
      BY <1>2, <3>1 DEF WorkerStart
  <2>2. snap' \in SnapType
    <3>1. Named(link, remotes)
      BY DEF Names, Named
    <3>2. QED
      BY <1>2, <3>1, SnapOperators DEF WorkerStart, TypeOK
  <2>3. TypeOK'
    BY <1>1, <1>2, <2>1, <2>2 DEF TypeOK, WorkerStart, Idle, At, Labels, Maybe
  <2>4. \A s \in Sessions : owner[s] = None /\ uses[s] = None
    BY <1>2 DEF WorkerStart, NoSessionLeft
  <2>5. LeasesAgree' /\ Names' /\ OwnersUse'
    BY <1>1, <2>4 DEF LeasesAgree, LeasedBy, Names, OwnersUse
  <2>6. LabelInv' /\ NoSessionLeft'
    BY <1>2 DEF WorkerStart, Idle, At, LabelInv, NoSessionLeft
  <2>7. QED
    BY <2>3, <2>5, <2>6
<1>3. CASE CloseStore
  <2>1. arg \in Sessions /\ owner[arg] = None
    BY <1>3 DEF CloseStore, LabelInv
  <2>2. TypeOK'
    <3>1. snap' \in SnapType
      <4>1. Named(link, remotes)
        BY DEF Names, Named
      <4>2. QED
        BY <1>3, <4>1, SnapOperators DEF CloseStore, TypeOK
    <3>2. QED
      BY <1>1, <1>3, <3>1, Values DEF TypeOK, CloseStore, Idle, At, Labels, Maybe
  <2>3. LeasesAgree' /\ Names' /\ OwnersUse'
    BY <1>1, <1>3, <2>1 DEF TypeOK, LeasesAgree, LeasedBy, Names, OwnersUse, CloseStore, Idle, At
  <2>4. LabelInv' /\ NoSessionLeft'
    BY <1>3 DEF CloseStore, Idle, At, LabelInv, NoSessionLeft
  <2>5. QED
    BY <2>2, <2>3, <2>4
<1>4. CASE Reset
  <2>1. \A s \in Sessions : owner[s] = None /\ uses[s] = None
    BY <1>4 DEF Reset, NoSessionLeft
  <2>2. TypeOK'
    BY <1>1, <1>4, Values DEF TypeOK, Reset, NoRecords, Idle, At, Labels, Maybe
  <2>3. LeasesAgree' /\ Names' /\ OwnersUse'
    BY <1>1, <2>1 DEF LeasesAgree, LeasedBy, Names, OwnersUse
  <2>4. LabelInv' /\ NoSessionLeft'
    BY <1>4 DEF Reset, Idle, At, LabelInv, NoSessionLeft
  <2>5. QED
    BY <2>2, <2>3, <2>4
<1>5. QED
  BY <1>2, <1>3, <1>4

---------------------------------------------------------------------------
\* Changing one field of a handle.
LEMMA Handle ==
  ASSUME NEW l \in LinkType, l.remote # None
  PROVE  /\ \A x \in {"up", "suspect", "down"} :
              LET k == [l EXCEPT !.status = x] IN
              k \in LinkType /\ k.remote = l.remote /\ k.leased = l.leased
         /\ \A b \in Forwards :
              LET k == [l EXCEPT !.boot = b] IN
              k \in LinkType /\ k.remote = l.remote /\ k.leased = l.leased
         /\ \A s \in Sessions :
              LET k == [l EXCEPT !.leased = @ \cup {s}] IN
              k \in LinkType /\ k.remote = l.remote /\ k.leased = l.leased \cup {s}
BY Values DEF LinkType

\* A disconnection leaves the handle in one of its states.
LEMMA ShutDownType ==
  ASSUME TypeOK, NEW f \in Forwards, link[f].remote # None, NEW ok \in BOOLEAN
  PROVE  ShutDown(f, ok) \in {"up", "suspect", "down"}
BY Values DEF ShutDown, TypeOK

\* A step of the registered handles that touches no lease and at most the status
\* of a record.
LEMMA HandleStep ==
  ASSUME IInv, NEW ln \in [Forwards -> LinkType], NEW rm \in [Remotes -> Maybe(Forwards)],
         \A f \in Forwards : ln[f].leased = link[f].leased,
         \A f \in Forwards : LeasedBy(f) # {} => ln[f].remote = link[f].remote,
         Named(ln, rm),
         link' = Collect(ln, rm, owner), remotes' = rm, owner' = owner, uses' = uses,
         \A s \in Sessions : rec'[s].at = rec[s].at /\ rec'[s].remote = rec[s].remote,
         pc # "open"
  PROVE  /\ link' \in [Forwards -> LinkType]
         /\ Named(link', remotes')
         /\ \A r \in Remotes : rm[r] # None => link'[rm[r]] = ln[rm[r]]
         /\ LeasesAgree' /\ Names' /\ OwnersUse'
<1> USE DEF IInv
<1>1. Leases(ln, owner)
  BY DEF Leases, LeasesAgree, LeasedBy
<1>2. owner \in [Sessions -> Maybe(Forwards)]
  BY DEF TypeOK
<1>3. /\ link' \in [Forwards -> LinkType]
      /\ Leases(link', owner) /\ Named(link', rm)
      /\ \A s \in Sessions : owner[s] # None => link'[owner[s]] = ln[owner[s]]
      /\ \A r \in Remotes : rm[r] # None => link'[rm[r]] = ln[rm[r]]
  BY <1>1, <1>2, CollectKeeps
<1>4. ASSUME NEW s \in Sessions, owner[s] # None
      PROVE  ln[owner[s]].remote = link[owner[s]].remote
  <2>1. owner[s] \in Forwards /\ s \in LeasedBy(owner[s])
    BY <1>2, <1>4 DEF Maybe, LeasedBy
  <2>2. QED
    BY <2>1
<1>5. LeasesAgree'
  <2>1. \A f \in Forwards : link'[f].leased = LeasedBy(f)'
    BY <1>3 DEF Leases, LeasedBy
  <2>2. QED
    BY <1>3, <1>4, <2>1 DEF LeasesAgree
<1>6. QED
  BY <1>3, <1>5 DEF Named, Names, OwnersUse

\* Making, losing and describing a connection.
LEMMA PublishKeeps ==
  ASSUME IInv, Publish
  PROVE  IInv'
<1> USE DEF IInv
<1>1. pc = "dialled" /\ rid \in Remotes /\ con \in Forwards /\ link[con] = NoLink
  BY DEF Publish, LabelInv
<1>2. UNCHANGED <<device, owner, uses, rec>> /\ pc' = "idle" /\ arg' = None /\ rid' = None /\ con' = None
  BY DEF Publish, Idle, At
<1>3. LeasedBy(con) = {} /\ link[con].remote = None
  BY <1>1 DEF LeasesAgree, NoLink, Link
<1>4. Link(rid, "up", con, {}) \in LinkType
  BY <1>1 DEF Link, LinkType
<1>5. link' = [link EXCEPT ![con] = Link(rid, "up", con, {})] /\ remotes' = [remotes EXCEPT ![rid] = con]
  BY DEF Publish
<1>6. link' \in [Forwards -> LinkType] /\ remotes' \in [Remotes -> Maybe(Forwards)]
  BY <1>1, <1>4, <1>5 DEF TypeOK, Maybe
<1>7. link'[con].remote = rid /\ link'[con].leased = {} /\ \A f \in Forwards : f # con => link'[f] = link[f]
  BY <1>1, <1>5 DEF TypeOK, Link
<1>8. Names'
  BY <1>1, <1>3, <1>5, <1>7, NoneAssumption DEF Names, TypeOK, Maybe
<1>9. snap' \in SnapType
  <2>1. Named(link', remotes')
    BY <1>8 DEF Names, Named
  <2>2. rid # None
    BY <1>1, NoneAssumption
  <2>3. QED
    BY <1>1, <1>6, <1>7, <2>1, <2>2, SnapOperators DEF Publish, TypeOK
<1>10. TypeOK'
  BY <1>2, <1>6, <1>9 DEF TypeOK, Labels, Maybe
<1>11. LeasesAgree'
  <2>1. \A f \in Forwards : link'[f].leased = LeasedBy(f)'
    BY <1>2, <1>3, <1>7 DEF LeasesAgree, LeasedBy
  <2>2. \A s \in Sessions : owner[s] # None => owner[s] \in Forwards /\ owner[s] # con
    BY <1>3 DEF LeasedBy, TypeOK, Maybe
  <2>3. QED
    BY <1>1, <1>2, <1>7, <2>1, <2>2 DEF LeasesAgree
<1>12. OwnersUse' /\ LabelInv' /\ NoSessionLeft'
  BY <1>2 DEF OwnersUse, LabelInv, NoSessionLeft
<1>13. QED
  BY <1>8, <1>10, <1>11, <1>12

\* A ping that fails makes its handle suspect and leaves its leases.
LEMMA PingKeeps ==
  ASSUME IInv, NEW r \in Remotes, PingFails(r)
  PROVE  IInv'
<1> USE DEF IInv, op, file
<1> DEFINE f == remotes[r]
<1>1. f \in Forwards /\ link[f].remote # None /\ pc = "idle"
  BY NoneAssumption DEF PingFails, TypeOK, Maybe, Names
<1>2. UNCHANGED <<pc, arg, rid, con, device, remotes, owner, uses, snap, rec>>
  BY DEF PingFails
<1>3. link' = [link EXCEPT ![f] = [link[f] EXCEPT !.status = "suspect"]]
  BY DEF PingFails
<1>4. link' \in [Forwards -> LinkType]
  BY <1>1, <1>3, Handle DEF TypeOK
<1>5. \A g \in Forwards : link'[g].remote = link[g].remote /\ link'[g].leased = link[g].leased
  BY <1>1, <1>3, Handle DEF TypeOK
<1>6. TypeOK'
  BY <1>2, <1>4 DEF TypeOK
<1>7. LeasesAgree' /\ Names' /\ OwnersUse'
  BY <1>1, <1>2, <1>5 DEF TypeOK, LeasesAgree, LeasedBy, Names, OwnersUse, Maybe
<1>8. LabelInv' /\ NoSessionLeft'
  BY <1>1, <1>2 DEF LabelInv, NoSessionLeft
<1>9. QED
  BY <1>6, <1>7, <1>8

\* A disconnection, also one that half failed.
LEMMA DisconnectKeeps ==
  ASSUME IInv, NEW r \in Remotes, Disconnect(r)
  PROVE  IInv'
<1> USE DEF IInv, op
<1> DEFINE f == remotes[r]
<1>1. f \in Forwards /\ link[f].remote # None /\ pc = "idle"
  BY NoneAssumption DEF Disconnect, TypeOK, Maybe, Names
<1>2. UNCHANGED <<pc, arg, rid, con, owner, uses, rec>>
  BY DEF Disconnect
<1>3. PICK shut, clean \in BOOLEAN :
        /\ device' = IF clean THEN device \ {f} ELSE device
        /\ remotes' = IF MayForget(f, shut, clean) THEN [remotes EXCEPT ![r] = None] ELSE remotes
        /\ link' = Collect([link EXCEPT ![f].status = ShutDown(f, shut)], remotes', owner)
        /\ snap' = Synced(snap, remotes', link')
  BY DEF Disconnect
<1> DEFINE ln == [link EXCEPT ![f].status = ShutDown(f, shut)]
<1>4. /\ ln \in [Forwards -> LinkType]
      /\ \A g \in Forwards : ln[g].leased = link[g].leased /\ ln[g].remote = link[g].remote
  <2>1. ShutDown(f, shut) \in {"up", "suspect", "down"}
    BY <1>1, ShutDownType
  <2>2. QED
    BY <1>1, <2>1, Handle DEF TypeOK
<1>5. remotes' \in [Remotes -> Maybe(Forwards)] /\ \A q \in Remotes : remotes'[q] \in {remotes[q], None}
  BY <1>3 DEF TypeOK, Maybe
<1>6. Named(ln, remotes')
  BY <1>4, <1>5 DEF Named, Names, TypeOK, Maybe
<1>7. /\ link' \in [Forwards -> LinkType] /\ Named(link', remotes')
      /\ LeasesAgree' /\ Names' /\ OwnersUse'
  <2> HIDE DEF ln, f
  <2>1. link' = Collect(ln, remotes', owner)
    BY <1>3 DEF ln
  <2>2. QED
    BY <1>1, <1>2, <1>4, <1>5, <1>6, <2>1, HandleStep
<1>8. TypeOK'
  <2>1. snap' \in SnapType
    BY <1>3, <1>5, <1>7, SnapOperators DEF TypeOK
  <2>2. device' \subseteq Forwards
    BY <1>3 DEF TypeOK
  <2>3. QED
    BY <1>2, <1>5, <1>7, <2>1, <2>2 DEF TypeOK
<1>9. LabelInv' /\ NoSessionLeft'
  BY <1>1, <1>2 DEF LabelInv, NoSessionLeft
<1>10. QED
  BY <1>7, <1>8, <1>9

\* A recovery that uses a connected handle changes only its description.
LEMMA ReuseKeeps ==
  ASSUME IInv, NEW s \in Sessions, RecoverReuses(s)
  PROVE  IInv'
<1> USE DEF IInv, file
<1> DEFINE r == rec[s].remote
           f == remotes[r]
<1>1. pc = "idle" /\ owner[s] = None /\ rec[s] # NoRecord
  BY DEF RecoverReuses, MayRecover, OwnersUse
<1>2. r \in Remotes /\ rec[s].boot \in Forwards
  BY <1>1, Values DEF TypeOK
<1>3. f \in Forwards /\ link[f].remote = r /\ r # None
  BY <1>2, NoneAssumption DEF RecoverReuses, Connected, TypeOK, Maybe, Names
<1>4. UNCHANGED <<device, remotes, owner, uses, snap, rec>>
  BY DEF RecoverReuses
<1>5. link' = [link EXCEPT ![f] = [link[f] EXCEPT !.boot = rec[s].boot]]
  BY DEF RecoverReuses
<1>6. pc' = "reopen" /\ arg' = s /\ rid' = r /\ con' = f
  BY DEF RecoverReuses, At
<1>7. /\ link' \in [Forwards -> LinkType]
      /\ \A g \in Forwards : link'[g].remote = link[g].remote /\ link'[g].leased = link[g].leased
  <2> DEFINE k == [link[f] EXCEPT !.boot = rec[s].boot]
  <2>1. k \in LinkType /\ k.remote = link[f].remote /\ k.leased = link[f].leased
    <3>1. link[f] \in LinkType /\ link[f].remote # None
      BY <1>3 DEF TypeOK
    <3>2. QED
      BY <1>2, <3>1, Handle
  <2>2. QED
    BY <1>3, <1>5, <2>1 DEF TypeOK
<1>8. TypeOK'
  BY <1>2, <1>3, <1>4, <1>6, <1>7 DEF TypeOK, Labels, Maybe
<1>9. LeasesAgree' /\ Names' /\ OwnersUse'
  BY <1>1, <1>4, <1>7 DEF TypeOK, LeasesAgree, LeasedBy, Names, OwnersUse, Maybe
<1>10. LabelInv' /\ NoSessionLeft'
  BY <1>1, <1>2, <1>3, <1>4, <1>6, <1>7 DEF LabelInv, NoSessionLeft
<1>11. QED
  BY <1>8, <1>9, <1>10

\* A recovery that makes a connection: nobody leases a fresh forward.
LEMMA RedialKeeps ==
  ASSUME IInv, RecoverDial
  PROVE  IInv'
<1> USE DEF IInv
<1>1. pc = "recover" /\ rid \in Remotes /\ arg \in Sessions /\ owner[arg] = None /\ rec[arg] # NoRecord
  BY DEF RecoverDial, LabelInv
<1>2. PICK f \in Forwards :
        /\ Fresh(f)
        /\ device' = device \cup {f}
        /\ remotes' = [remotes EXCEPT ![rid] = f]
        /\ link' = Collect([link EXCEPT ![f] = Link(rid, "up", f, {})], remotes', owner)
        /\ At("reopen", arg, rid, f)
  BY DEF RecoverDial
<1>3. UNCHANGED <<owner, uses, snap, rec>>
  BY DEF RecoverDial, file
<1> DEFINE ln == [link EXCEPT ![f] = Link(rid, "up", f, {})]
<1>4. link[f] = NoLink /\ NoLink.remote = None /\ NoLink.leased = {}
  BY <1>2 DEF Fresh, NoLink, Link
<1>5. LeasedBy(f) = {}
  BY <1>4 DEF LeasesAgree
<1>6. Link(rid, "up", f, {}) \in LinkType
  BY <1>1 DEF Link, LinkType
<1>7. /\ ln \in [Forwards -> LinkType] /\ ln[f].remote = rid /\ ln[f].leased = {}
      /\ \A g \in Forwards : g # f => ln[g] = link[g]
  BY <1>6 DEF TypeOK, Link
<1>8. remotes' \in [Remotes -> Maybe(Forwards)]
  BY <1>1, <1>2 DEF TypeOK, Maybe
<1>9. Named(ln, remotes')
  BY <1>1, <1>2, <1>4, <1>7, NoneAssumption DEF Named, Names, TypeOK, Maybe
<1>10. /\ link' \in [Forwards -> LinkType] /\ link'[remotes'[rid]] = ln[remotes'[rid]]
       /\ LeasesAgree' /\ Names' /\ OwnersUse'
  <2>1. link' = Collect(ln, remotes', owner)
    BY <1>2
  <2>2. /\ \A g \in Forwards : ln[g].leased = link[g].leased
        /\ \A g \in Forwards : LeasedBy(g) # {} => ln[g].remote = link[g].remote
    BY <1>4, <1>5, <1>7
  <2>3. remotes'[rid] # None
    BY <1>1, <1>2, NoneAssumption DEF TypeOK
  <2> HIDE DEF ln
  <2>4. QED
    BY <1>1, <1>3, <1>7, <1>8, <1>9, <2>1, <2>2, <2>3, HandleStep
<1>11. TypeOK'
  BY <1>1, <1>2, <1>3, <1>8, <1>10 DEF TypeOK, At, Labels, Maybe
<1>12. LabelInv' /\ NoSessionLeft'
  <2>1. remotes'[rid] = f
    BY <1>1, <1>2 DEF TypeOK
  <2>2. QED
    BY <1>1, <1>2, <1>3, <1>7, <1>10, <2>1 DEF At, LabelInv, NoSessionLeft
<1>13. QED
  BY <1>10, <1>11, <1>12

\* A failed recovery may forget the handle: its leases stay with the object.
LEMMA RecoverFailsKeeps ==
  ASSUME IInv, RecoverFails
  PROVE  IInv'
<1> USE DEF IInv
<1>1. /\ pc = "reopen" /\ rid \in Remotes /\ con \in Forwards /\ arg \in Sessions
      /\ link[con].remote = rid /\ rid # None /\ rec[arg] # NoRecord
  BY NoneAssumption DEF RecoverFails, LabelInv
<1>2. PICK shut, clean, registered \in BOOLEAN :
        /\ device' = IF clean THEN device \ {con} ELSE device
        /\ remotes' = IF MayForget(con, shut, clean) THEN [remotes EXCEPT ![rid] = None] ELSE remotes
        /\ link' = Collect([link EXCEPT ![con].status = ShutDown(con, shut)], remotes', owner)
        /\ snap' = Synced(IF registered THEN Live(rid, con, link) ELSE snap, remotes', link')
  BY DEF RecoverFails
<1>3. /\ rec' = [rec EXCEPT ![arg].status = "degraded"] /\ UNCHANGED <<owner, uses>>
      /\ pc' = "idle" /\ arg' = None /\ rid' = None /\ con' = None
  BY DEF RecoverFails, Idle, At
<1> DEFINE ln == [link EXCEPT ![con].status = ShutDown(con, shut)]
<1>4. /\ ln \in [Forwards -> LinkType]
      /\ \A g \in Forwards : ln[g].leased = link[g].leased /\ ln[g].remote = link[g].remote
  <2>1. ShutDown(con, shut) \in {"up", "suspect", "down"}
    BY <1>1, ShutDownType
  <2>2. QED
    BY <1>1, <2>1, Handle DEF TypeOK
<1>5. remotes' \in [Remotes -> Maybe(Forwards)] /\ \A q \in Remotes : remotes'[q] \in {remotes[q], None}
  BY <1>2 DEF TypeOK, Maybe
<1>6. Named(ln, remotes')
  BY <1>4, <1>5 DEF Named, Names, TypeOK, Maybe
<1>7. /\ rec' \in [Sessions -> RecordType]
      /\ \A s \in Sessions : rec'[s].at = rec[s].at /\ rec'[s].remote = rec[s].remote
  <2>1. rec[arg] \in [status : {"ready", "deferred", "degraded", "restart"},
                       remote : Remotes, at : Forwards, boot : Forwards]
    BY <1>1, Values DEF TypeOK
  <2>2. [rec[arg] EXCEPT !.status = "degraded"] \in RecordType
    BY <2>1 DEF RecordType
  <2>3. QED
    BY <1>1, <1>3, <2>1, <2>2 DEF TypeOK
<1>8. /\ link' \in [Forwards -> LinkType] /\ Named(link', remotes')
      /\ LeasesAgree' /\ Names' /\ OwnersUse'
  <2>1. link' = Collect(ln, remotes', owner)
    BY <1>2
  <2> HIDE DEF ln
  <2>2. QED
    BY <1>1, <1>3, <1>4, <1>5, <1>6, <1>7, <2>1, HandleStep
<1>9. TypeOK'
  <2>1. Live(rid, con, link) \in SnapType
    BY <1>1, SnapOperators DEF TypeOK, Named, Names
  <2>2. snap' \in SnapType
    BY <1>2, <1>5, <1>8, <2>1, SnapOperators DEF TypeOK
  <2>3. device' \subseteq Forwards
    BY <1>2 DEF TypeOK
  <2>4. QED
    BY <1>3, <1>5, <1>7, <1>8, <2>2, <2>3 DEF TypeOK, Labels, Maybe
<1>10. LabelInv' /\ NoSessionLeft'
  BY <1>3 DEF LabelInv, NoSessionLeft
<1>11. QED
  BY <1>8, <1>9, <1>10

\* The handles a context clear releases, each half failing on its own.
LEMMA ClearRemotesKeeps ==
  ASSUME IInv, ClearRemotes
  PROVE  IInv'
<1> USE DEF IInv
<1> DEFINE stays(r, shut, clean) ==
             remotes[r] # None /\ ~MayForget(remotes[r], remotes[r] \in shut, remotes[r] \in clean)
<1>1. PICK shut, clean \in SUBSET Connections :
        /\ device' = device \ clean
        /\ remotes' = [r \in Remotes |-> IF stays(r, shut, clean) THEN remotes[r] ELSE None]
        /\ link' = Collect([f \in Forwards |-> IF f \in Connections
                              THEN [link[f] EXCEPT !.status = ShutDown(f, f \in shut)]
                              ELSE link[f]], remotes', owner)
        /\ IF \E r \in Remotes : stays(r, shut, clean) THEN Idle ELSE At("clearSnapshot", None, None, None)
  BY DEF ClearRemotes
<1>2. /\ pc = "clear" /\ snap' = Synced(snap, remotes', link') /\ UNCHANGED <<owner, uses, rec>>
      /\ pc' \in {"idle", "clearSnapshot"} /\ arg' = None /\ rid' = None /\ con' = None
  BY <1>1 DEF ClearRemotes, Idle, At
<1> DEFINE ln == [f \in Forwards |-> IF f \in Connections
                    THEN [link[f] EXCEPT !.status = ShutDown(f, f \in shut)]
                    ELSE link[f]]
<1>3. /\ Connections \in SUBSET Forwards
      /\ \A f \in Connections : link[f].remote # None
  BY NoneAssumption DEF Connections, TypeOK, Maybe, Names
<1>4. /\ ln \in [Forwards -> LinkType]
      /\ \A f \in Forwards : ln[f].leased = link[f].leased /\ ln[f].remote = link[f].remote
  <2>1. ASSUME NEW f \in Connections
        PROVE  /\ ln[f] \in LinkType
               /\ ln[f].leased = link[f].leased /\ ln[f].remote = link[f].remote
    <3> DEFINE x == ShutDown(f, f \in shut)
    <3>1. x \in {"up", "suspect", "down"}
      BY <1>3, Values DEF ShutDown, TypeOK
    <3>2. link[f] \in LinkType /\ ln[f] = [link[f] EXCEPT !.status = x]
      BY <1>3 DEF TypeOK
    <3>3. link[f].remote # None
      BY <1>3
    <3> HIDE DEF ln, x
    <3>4. LET k == [link[f] EXCEPT !.status = x] IN
          k \in LinkType /\ k.remote = link[f].remote /\ k.leased = link[f].leased
      BY <3>1, <3>2, <3>3, Handle
    <3>5. QED
      BY <3>2, <3>4
  <2>2. \A f \in Forwards \ Connections : ln[f] = link[f] /\ ln[f] \in LinkType
    BY DEF TypeOK
  <2>3. ln = [f \in Forwards |-> ln[f]]
    OBVIOUS
  <2> HIDE DEF ln
  <2>4. QED
    BY <2>1, <2>2, <2>3
<1>5. remotes' \in [Remotes -> Maybe(Forwards)] /\ \A q \in Remotes : remotes'[q] \in {remotes[q], None}
  BY <1>1 DEF TypeOK, Maybe
<1>6. Named(ln, remotes')
  <2> HIDE DEF ln
  <2>1. QED
    BY <1>4, <1>5 DEF Named, Names, TypeOK, Maybe
<1>7. /\ link' \in [Forwards -> LinkType] /\ Named(link', remotes')
      /\ LeasesAgree' /\ Names' /\ OwnersUse'
  <2>1. link' = Collect(ln, remotes', owner)
    BY <1>1
  <2> HIDE DEF ln
  <2>2. QED
    BY <1>2, <1>4, <1>5, <1>6, <2>1, HandleStep
<1>8. TypeOK'
  <2>1. snap' \in SnapType
    BY <1>2, <1>5, <1>7, SnapOperators DEF TypeOK
  <2>2. device' \subseteq Forwards
    BY <1>1 DEF TypeOK
  <2>3. QED
    BY <1>2, <1>5, <1>7, <2>1, <2>2 DEF TypeOK, Labels, Maybe
<1>9. LabelInv' /\ NoSessionLeft'
  BY <1>2 DEF LabelInv, NoSessionLeft
<1>10. QED
  BY <1>7, <1>8, <1>9

---------------------------------------------------------------------------
\* An open takes a connection: an unrecorded session has no lease.
LEMMA OpenKeeps ==
  ASSUME IInv, NEW s \in Sessions, NEW r \in Remotes, Open(s, r)
  PROVE  IInv'
<1> USE DEF IInv, file
<1>1. /\ pc = "idle" /\ rec[s] = NoRecord /\ r # None
      /\ remotes[r] \in Forwards /\ link[remotes[r]].remote = r
  BY NoneAssumption DEF Open, TypeOK, Maybe, Names
<1>2. owner[s] = None
  BY <1>1, NoneAssumption DEF TypeOK, LeasesAgree, NoRecord, Maybe
<1>3. /\ UNCHANGED <<device, link, remotes, owner, snap, rec>>
      /\ uses' = [uses EXCEPT ![s] = remotes[r]]
      /\ pc' = "open" /\ arg' = s /\ rid' = r /\ con' = remotes[r]
  BY DEF Open, At
<1>4. TypeOK'
  BY <1>1, <1>3 DEF TypeOK, Labels, Maybe
<1>5. LeasesAgree' /\ Names' /\ OwnersUse'
  BY <1>1, <1>2, <1>3 DEF TypeOK, LeasesAgree, LeasedBy, Names, OwnersUse
<1>6. LabelInv' /\ NoSessionLeft'
  BY <1>1, <1>2, <1>3 DEF TypeOK, LabelInv, NoSessionLeft
<1>7. QED
  BY <1>4, <1>5, <1>6

\* An open that fails never had a lease.
LEMMA OpenFailsKeeps ==
  ASSUME IInv, OpenFails
  PROVE  IInv'
<1> USE DEF IInv
<1>1. /\ pc = "open" /\ arg \in Sessions /\ owner[arg] = None /\ rid \in Remotes /\ con \in Forwards
      /\ link[con].remote = rid /\ rid # None
  BY NoneAssumption DEF OpenFails, LabelInv
<1>2. /\ UNCHANGED <<device, link, remotes, owner, rec>>
      /\ uses' = [uses EXCEPT ![arg] = None] /\ snap' = Live(rid, con, link)
      /\ pc' = "idle" /\ arg' = None /\ rid' = None /\ con' = None
  BY DEF OpenFails, Idle, At
<1>3. snap' \in SnapType
  BY <1>1, <1>2, SnapOperators DEF TypeOK, Named, Names
<1>4. TypeOK'
  BY <1>1, <1>2, <1>3 DEF TypeOK, Labels, Maybe
<1>5. LeasesAgree' /\ Names' /\ OwnersUse'
  BY <1>1, <1>2 DEF TypeOK, LeasesAgree, LeasedBy, Names, OwnersUse
<1>6. LabelInv' /\ NoSessionLeft'
  BY <1>2 DEF LabelInv, NoSessionLeft
<1>7. QED
  BY <1>4, <1>5, <1>6

\* The end of an open and of a recovery: handle, registry, record and replay
\* name the same connection.
LEMMA StoreKeeps ==
  ASSUME IInv, OpenStore \/ RecoverStore
  PROVE  IInv'
<1> USE DEF IInv
<1>1. /\ pc \in {"open", "reopen"} /\ arg \in Sessions /\ owner[arg] = None
      /\ rid \in Remotes /\ con \in Forwards
      /\ link[con].remote = rid /\ rid # None /\ con # None
  BY NoneAssumption DEF OpenStore, RecoverStore, LabelInv
<1>2. /\ UNCHANGED <<device, remotes>>
      /\ link' = [link EXCEPT ![con] = [link[con] EXCEPT !.leased = @ \cup {arg}]]
      /\ owner' = [owner EXCEPT ![arg] = con]
      /\ snap' = Live(rid, con, link')
      /\ rec' = [rec EXCEPT ![arg] = Metadata(rid, con, link)]
      /\ pc' = "idle" /\ arg' = None /\ rid' = None /\ con' = None
  BY DEF OpenStore, RecoverStore, Lease, Idle, At
<1>3. uses' = [uses EXCEPT ![arg] = con]
  <2>1. CASE OpenStore
    BY <1>1, <2>1 DEF OpenStore, LabelInv, TypeOK
  <2>2. CASE RecoverStore
    BY <2>2 DEF RecoverStore
  <2>3. QED
    BY <2>1, <2>2
<1>4. /\ link' \in [Forwards -> LinkType]
      /\ link'[con].leased = link[con].leased \cup {arg}
      /\ \A f \in Forwards : f # con => link'[f] = link[f]
      /\ \A f \in Forwards : link'[f].remote = link[f].remote
  <2> DEFINE k == [link[con] EXCEPT !.leased = @ \cup {arg}]
  <2>1. k \in LinkType /\ k.remote = link[con].remote /\ k.leased = link[con].leased \cup {arg}
    <3>1. link[con] \in LinkType /\ link[con].remote # None
      BY <1>1 DEF TypeOK
    <3>2. QED
      BY <1>1, <3>1, Handle
  <2>2. QED
    BY <1>1, <1>2, <2>1 DEF TypeOK
<1>5. /\ rec' \in [Sessions -> RecordType]
      /\ rec'[arg].at = con /\ rec'[arg].remote = rid
      /\ \A s \in Sessions : s # arg => rec'[s] = rec[s]
  <2>1. Metadata(rid, con, link) \in RecordType
    BY <1>1, Values DEF TypeOK, Metadata, RecordType
  <2>2. QED
    BY <1>1, <1>2, <2>1 DEF TypeOK, Metadata
<1>6. Names'
  BY <1>2, <1>4 DEF TypeOK, Maybe, Names
<1>7. TypeOK'
  <2>1. snap' \in SnapType
    <3>1. remotes' \in [Remotes -> Maybe(Forwards)] /\ Named(link', remotes') /\ snap \in SnapType
      BY <1>2, <1>6 DEF TypeOK, Named, Names
    <3>2. link'[con].remote # None
      BY <1>1, <1>4
    <3>3. QED
      BY <1>1, <1>2, <1>4, <3>1, <3>2, SnapOperators
  <2>2. QED
    BY <1>1, <1>2, <1>3, <1>4, <1>5, <2>1 DEF TypeOK, Labels, Maybe
<1>8. LeasesAgree'
  <2>1. \A f \in Forwards : link'[f].leased = LeasedBy(f)'
    <3> owner'[arg] = con /\ \A s \in Sessions : s # arg => owner'[s] = owner[s]
      BY <1>1, <1>2 DEF TypeOK
    <3>1. ASSUME NEW f \in Forwards, f # con
          PROVE  LeasedBy(f)' = LeasedBy(f)
      <4>1. f # None
        BY NoneAssumption
      <4>2. \A s \in Sessions : owner'[s] = f <=> owner[s] = f
        BY <1>1, <3>1, <4>1
      <4>3. QED
        BY <4>2 DEF LeasedBy
    <3>2. {s \in Sessions : owner'[s] = con} = LeasedBy(con) \cup {arg}
      BY <1>1 DEF LeasedBy
    <3>3. ASSUME NEW f \in Forwards
          PROVE  link'[f].leased = LeasedBy(f)'
      <4>1. link[f].leased = LeasedBy(f) /\ LeasedBy(f)' = {s \in Sessions : owner'[s] = f}
        BY DEF LeasesAgree, LeasedBy
      <4>2. CASE f = con
        BY <1>4, <3>2, <4>1, <4>2
      <4>3. CASE f # con
        BY <1>4, <3>1, <4>1, <4>3
      <4>4. QED
        BY <4>2, <4>3
    <3>4. QED
      BY <3>3
  <2>2. \A s \in Sessions : uses'[s] # None => owner'[s] = uses'[s]
    BY <1>1, <1>2, <1>3 DEF LeasesAgree, TypeOK
  <2>3. ASSUME NEW s \in Sessions, owner'[s] # None
        PROVE  rec'[s].at = owner'[s] /\ rec'[s].remote = link'[owner'[s]].remote
    <3>1. CASE s = arg
      BY <1>1, <1>2, <1>4, <1>5, <3>1 DEF TypeOK
    <3>2. CASE s # arg
      BY <1>1, <1>2, <1>4, <1>5, <2>3, <3>2 DEF LeasesAgree, TypeOK, Maybe
    <3>3. QED
      BY <3>1, <3>2
  <2>4. QED
    BY <2>1, <2>2, <2>3 DEF LeasesAgree
<1>9. OwnersUse' /\ LabelInv' /\ NoSessionLeft'
  BY <1>1, <1>2, <1>3 DEF TypeOK, OwnersUse, LabelInv, NoSessionLeft
<1>10. QED
  BY <1>6, <1>7, <1>8, <1>9

\* Sessions that close give their leases back, and the others keep theirs.
LEMMA ReleaseStep ==
  ASSUME IInv, pc = "idle", NEW ss \in SUBSET Sessions, Release(ss), UNCHANGED <<remotes, rec>>
  PROVE  /\ link' \in [Forwards -> LinkType]
         /\ owner' \in [Sessions -> Maybe(Forwards)] /\ uses' \in [Sessions -> Maybe(Forwards)]
         /\ \A s \in Sessions : owner'[s] = (IF s \in ss THEN None ELSE owner[s])
         /\ \A s \in Sessions : uses'[s] = (IF s \in ss THEN None ELSE uses[s])
         /\ Named(link', remotes')
         /\ LeasesAgree' /\ Names' /\ OwnersUse'
<1> USE DEF IInv
<1> DEFINE ln == GiveUp(link, ss)
<1>1. /\ link' = Collect(ln, remotes, owner')
      /\ owner' = [s \in Sessions |-> IF s \in ss THEN None ELSE owner[s]]
      /\ uses' = [s \in Sessions |-> IF s \in ss THEN None ELSE uses[s]]
  BY DEF Release
<1>2. owner' \in [Sessions -> Maybe(Forwards)] /\ uses' \in [Sessions -> Maybe(Forwards)]
  BY <1>1 DEF TypeOK, Maybe
<1>3. ASSUME NEW f \in Forwards
      PROVE  /\ ln[f] \in LinkType
             /\ ln[f].leased = link[f].leased \ ss /\ ln[f].remote = link[f].remote
  <2>1. link[f] \in LinkType /\ ln[f] = [link[f] EXCEPT !.leased = @ \ ss]
    BY DEF TypeOK, GiveUp
  <2>2. QED
    BY <2>1 DEF LinkType, NoLink, Link
<1>4. ln \in [Forwards -> LinkType]
  BY <1>3 DEF GiveUp
<1>5. Leases(ln, owner')
  <2>1. ASSUME NEW f \in Forwards
        PROVE  ln[f].leased = {s \in Sessions : owner'[s] = f}
    <3>1. link[f].leased = {s \in Sessions : owner[s] = f}
      BY DEF LeasesAgree, LeasedBy
    <3>2. f # None
      BY NoneAssumption
    <3>3. QED
      BY <1>1, <1>3, <3>1, <3>2
  <2> HIDE DEF ln
  <2>2. QED
    BY <2>1 DEF Leases
<1>6. Named(ln, remotes)
  <2> HIDE DEF ln
  <2>1. QED
    BY <1>3 DEF Named, Names, TypeOK, Maybe
<1>7. /\ link' \in [Forwards -> LinkType] /\ Leases(link', owner') /\ Named(link', remotes)
      /\ \A s \in Sessions : owner'[s] # None => link'[owner'[s]] = ln[owner'[s]]
  <2> HIDE DEF ln
  <2>1. remotes \in [Remotes -> Maybe(Forwards)]
    BY DEF TypeOK
  <2>2. QED
    BY <1>1, <1>2, <1>4, <1>5, <1>6, <2>1, CollectKeeps
<1>8. \A s \in Sessions : /\ owner'[s] = (IF s \in ss THEN None ELSE owner[s])
                          /\ uses'[s] = (IF s \in ss THEN None ELSE uses[s])
  BY <1>1
<1>9. LeasesAgree'
  <2>1. \A f \in Forwards : link'[f].leased = LeasedBy(f)'
    BY <1>7 DEF Leases, LeasedBy
  <2>2. \A s \in Sessions : uses'[s] # None => owner'[s] = uses'[s]
    BY <1>8 DEF LeasesAgree
  <2>3. ASSUME NEW s \in Sessions, owner'[s] # None
        PROVE  rec'[s].at = owner'[s] /\ rec'[s].remote = link'[owner'[s]].remote
    <3>1. owner'[s] = owner[s] /\ owner[s] \in Forwards
      BY <1>8, <2>3 DEF TypeOK, Maybe
    <3>2. link'[owner'[s]].remote = link[owner[s]].remote
      <4> HIDE DEF ln
      <4>1. QED
        BY <1>3, <1>7, <2>3, <3>1
    <3>3. QED
      BY <2>3, <3>1, <3>2 DEF LeasesAgree
  <2>4. QED
    BY <2>1, <2>2, <2>3 DEF LeasesAgree
<1>10. Names' /\ OwnersUse'
  BY <1>7, <1>8 DEF Named, Names, OwnersUse
<1>11. QED
  BY <1>2, <1>7, <1>8, <1>9, <1>10

\* A close gives the lease of its session back.
LEMMA CloseKeeps ==
  ASSUME IInv, NEW s \in Sessions, Close(s)
  PROVE  IInv'
<1> USE DEF IInv
<1>1. /\ pc = "idle" /\ Release({s}) /\ UNCHANGED <<device, remotes, rec>>
      /\ snap' = LiveAgain(snap, link[owner[s]].remote, owner[s], remotes, link')
      /\ pc' = "close" /\ arg' = s /\ rid' = None /\ con' = None
  BY DEF Close, At
<1>2. /\ link' \in [Forwards -> LinkType]
      /\ owner' \in [Sessions -> Maybe(Forwards)] /\ uses' \in [Sessions -> Maybe(Forwards)]
      /\ owner'[s] = None /\ Named(link', remotes')
      /\ LeasesAgree' /\ Names' /\ OwnersUse'
  <2>1. {s} \in SUBSET Sessions /\ s \in {s}
    OBVIOUS
  <2>2. QED
    BY <1>1, <2>1, ReleaseStep
<1>3. owner[s] \in Forwards /\ link[owner[s]].remote \in Maybe(Remotes)
  <2>1. owner[s] = uses[s] /\ owner[s] # None
    BY <1>1 DEF Close, LeasesAgree
  <2>2. rec[s].remote \in Maybe(Remotes)
    BY Values DEF TypeOK
  <2>3. QED
    BY <2>1, <2>2 DEF LeasesAgree, TypeOK, Maybe
<1>4. snap' \in SnapType
  BY <1>1, <1>2, <1>3, SnapOperators DEF TypeOK
<1>5. TypeOK'
  BY <1>1, <1>2, <1>4 DEF TypeOK, Labels, Maybe
<1>6. LabelInv' /\ NoSessionLeft'
  BY <1>1, <1>2 DEF LabelInv, NoSessionLeft
<1>7. QED
  BY <1>2, <1>5, <1>6

\* A clear that goes on has closed every recorded session, hence every lease.
LEMMA ClearSessionsKeeps ==
  ASSUME IInv, ClearSessions
  PROVE  IInv'
<1> USE DEF IInv
<1> PICK patched \in SUBSET Recorded :
      LET ss == {s \in Recorded : Closable(s, s \in patched)}
          leased == {s \in ss : owner[s] # None} IN
      /\ Release(ss)
      /\ IF leased = {} THEN snap' = Synced(snap, remotes, link')
         ELSE \E s \in leased :
                snap' = LiveAgain(snap, link[owner[s]].remote, owner[s], remotes, link')
      /\ IF ss = Recorded THEN At("clear", None, None, None) ELSE Idle
  BY DEF ClearSessions
<1> DEFINE ss     == {s \in Recorded : Closable(s, s \in patched)}
           leased == {s \in ss : owner[s] # None}
<1>1. /\ pc = "idle" /\ Release(ss) /\ UNCHANGED <<device, remotes, rec>>
      /\ IF leased = {} THEN snap' = Synced(snap, remotes, link')
         ELSE \E s \in leased :
                snap' = LiveAgain(snap, link[owner[s]].remote, owner[s], remotes, link')
      /\ IF ss = Recorded THEN At("clear", None, None, None) ELSE Idle
  BY DEF ClearSessions
<1>2. ss \in SUBSET Sessions
  BY DEF Recorded
<1>3. /\ link' \in [Forwards -> LinkType]
      /\ owner' \in [Sessions -> Maybe(Forwards)] /\ uses' \in [Sessions -> Maybe(Forwards)]
      /\ \A s \in Sessions : owner'[s] = (IF s \in ss THEN None ELSE owner[s])
      /\ \A s \in Sessions : uses'[s] = (IF s \in ss THEN None ELSE uses[s])
      /\ Named(link', remotes')
      /\ LeasesAgree' /\ Names' /\ OwnersUse'
  <2> HIDE DEF ss
  <2>1. QED
    BY <1>1, <1>2, ReleaseStep
<1>4. \A s \in leased : owner[s] \in Forwards /\ link[owner[s]].remote \in Maybe(Remotes)
  <2>1. \A s \in Sessions : rec[s].remote \in Maybe(Remotes)
    BY Values DEF TypeOK
  <2>2. QED
    BY <1>2, <2>1 DEF LeasesAgree, TypeOK, Maybe
<1>5. snap' \in SnapType
  <2> HIDE DEF leased, ss
  <2>1. CASE leased = {}
    BY <1>1, <1>3, <2>1, SnapOperators DEF TypeOK
  <2>2. CASE leased # {}
    BY <1>1, <1>3, <1>4, <2>2, SnapOperators DEF TypeOK
  <2>3. QED
    BY <2>1, <2>2
<1>6. pc' \in {"clear", "idle"} /\ arg' = None /\ rid' = None /\ con' = None
  BY <1>1 DEF Idle, At
<1>7. TypeOK'
  BY <1>1, <1>3, <1>5, <1>6 DEF TypeOK, Labels, Maybe
<1>8. NoSessionLeft'
  <2>1. ASSUME pc' = "clear", NEW s \in Sessions
        PROVE  owner'[s] = None /\ uses'[s] = None
    <3>1. ss = Recorded
      BY <1>1, <2>1 DEF Idle, At
    <3>2. CASE s \in Recorded
      BY <1>3, <3>1, <3>2
    <3>3. CASE s \notin Recorded
      <4>1. rec[s].at = None
        BY <3>3 DEF Recorded, NoRecord
      <4>2. owner[s] = None
        BY <4>1 DEF LeasesAgree
      <4>3. uses[s] = None
        BY <1>1, <4>2 DEF LeasesAgree
      <4>4. QED
        BY <1>3, <4>2, <4>3
    <3>4. QED
      BY <3>2, <3>3
  <2>2. QED
    BY <1>6, <2>1 DEF NoSessionLeft
<1>9. LabelInv'
  BY <1>6 DEF LabelInv
<1>10. QED
  BY <1>3, <1>7, <1>8, <1>9

---------------------------------------------------------------------------
\* The invariant holds at the start.
LEMMA InitHolds == Init => IInv
<1> SUFFICES ASSUME Init PROVE IInv
  OBVIOUS
<1>1. TypeOK
  BY Values DEF Init, TypeOK, Labels, Maybe, NoLinks, NoRemotes, NoSessions, NoRecords
<1>2. LeasesAgree /\ Names /\ OwnersUse
  BY NoneAssumption DEF Init, LeasesAgree, LeasedBy, Names, OwnersUse, NoLinks, NoLink, Link, NoRemotes, NoSessions
<1>3. LabelInv /\ NoSessionLeft
  BY DEF Init, LabelInv, NoSessionLeft, NoSessions
<1>4. QED
  BY <1>1, <1>2, <1>3 DEF IInv

\* Every step keeps the invariant.
LEMMA StepHolds == IInv /\ [Next]_vars => IInv'
<1> SUFFICES ASSUME IInv, [Next]_vars PROVE IInv'
  OBVIOUS
<1>1. CASE UNCHANGED vars
  BY <1>1 DEF vars, op, memory, file, IInv, TypeOK, LeasesAgree, LeasedBy, Names, OwnersUse, LabelInv, NoSessionLeft
<1>2. CASE WorkerLost \/ WorkerStops \/ Shutdown
  BY <1>2, ForgetKeeps
<1>3. CASE WorkerStart \/ CloseStore \/ Reset
  BY <1>3, FileKeeps
<1>4. CASE Dial \/ DialFails \/ ClearSnapshot
  BY <1>4, AwaitKeeps
<1>5. CASE Publish
  BY <1>5, PublishKeeps
<1>6. ASSUME NEW r \in Remotes, Connect(r) \/ Rehydrate(r)
      PROVE  IInv'
  BY <1>6, AwaitKeeps
<1>7. ASSUME NEW r \in Remotes, PingFails(r)
      PROVE  IInv'
  BY <1>7, PingKeeps
<1>8. ASSUME NEW r \in Remotes, Disconnect(r)
      PROVE  IInv'
  BY <1>8, DisconnectKeeps
<1>9. ASSUME NEW s \in Sessions, NEW r \in Remotes, Open(s, r)
      PROVE  IInv'
  BY <1>9, OpenKeeps
<1>10. ASSUME NEW s \in Sessions, Close(s)
       PROVE  IInv'
  BY <1>10, CloseKeeps
<1>11. ASSUME NEW s \in Sessions, RecoverReuses(s)
       PROVE  IInv'
  BY <1>11, ReuseKeeps
<1>12. ASSUME NEW s \in Sessions, RecoverRetires(s)
       PROVE  IInv'
  BY <1>12, AwaitKeeps
<1>13. CASE OpenStore \/ RecoverStore
  BY <1>13, StoreKeeps
<1>14. CASE OpenFails
  BY <1>14, OpenFailsKeeps
<1>15. CASE RecoverDial
  BY <1>15, RedialKeeps
<1>16. CASE RecoverFails
  BY <1>16, RecoverFailsKeeps
<1>17. CASE ClearSessions
  BY <1>17, ClearSessionsKeeps
<1>18. CASE ClearRemotes
  BY <1>18, ClearRemotesKeeps
<1>19. QED
  BY <1>1, <1>2, <1>3, <1>4, <1>5, <1>6, <1>7, <1>8, <1>9, <1>10, <1>11, <1>12, <1>13, <1>14, <1>15,
     <1>16, <1>17, <1>18 DEF Next

\* The inductive invariant is an invariant.
LEMMA Invariance == Spec => []IInv
BY InitHolds, StepHolds, PTL DEF Spec

\* Objects, registries, files and the running operation have their types.
THEOREM TypeCorrect == Spec => []TypeOK
<1>1. IInv => TypeOK
  BY DEF IInv
<1>2. QED
  BY <1>1, Invariance, PTL

\* However connections are made, lost, recovered and cleared, the handle knows
\* exactly the sessions that lease it, every live replay is one of them, and
\* its record names the connection (server_runtime.py 2655-2694).
THEOREM LeasesAlwaysAgree == Spec => []LeasesAgree
<1>1. IInv => LeasesAgree
  BY DEF IInv
<1>2. QED
  BY <1>1, Invariance, PTL

---------------------------------------------------------------------------
\* Which connection a recovery holds, and what is left when the snapshot is cleared.
HandleInv ==
  /\ pc = "reopen" => remotes[rid] = con
  /\ pc \in {"clearSnapshot", "clearStore"} => \A r \in Remotes : remotes[r] = None
  /\ pc = "clearSnapshot" => snap.state # "live"
  /\ pc = "clearStore" => snap.at \notin device

\* The steps that lead to the labels it speaks of.
LEMMA HandleSteps ==
  ASSUME IInv, [Next]_vars, pc' \in {"reopen", "clearSnapshot", "clearStore"}
  PROVE  \/ UNCHANGED vars
         \/ RecoverDial \/ ClearRemotes \/ ClearSnapshot
         \/ \E s \in Sessions : RecoverReuses(s)
<1>1. ~WorkerLost /\ ~WorkerStops /\ ~WorkerStart /\ ~Dial /\ ~DialFails /\ ~Publish
  BY DEF WorkerLost, WorkerStops, WorkerStart, Dial, DialFails, Publish, Idle, At
<1>2. \A r \in Remotes : ~Connect(r) /\ ~Rehydrate(r) /\ ~PingFails(r) /\ ~Disconnect(r)
  BY DEF Connect, Rehydrate, PingFails, Disconnect, op, At
<1>3. \A s \in Sessions : ~Close(s) /\ ~RecoverRetires(s) /\ \A r \in Remotes : ~Open(s, r)
  BY DEF Close, RecoverRetires, Open, At
<1>4. ~OpenStore /\ ~OpenFails /\ ~CloseStore /\ ~RecoverStore /\ ~RecoverFails
  BY DEF OpenStore, OpenFails, CloseStore, RecoverStore, RecoverFails, Idle, At
<1>5. ~ClearSessions /\ ~Shutdown /\ ~Reset
  BY DEF ClearSessions, Shutdown, Reset, Idle, At
<1>6. QED
  BY <1>1, <1>2, <1>3, <1>4, <1>5 DEF Next

\* Every step keeps what those labels rely on.
LEMMA HandleStepHolds ==
  ASSUME IInv, HandleInv, [Next]_vars
  PROVE  HandleInv'
<1> USE DEF IInv
<1>1. CASE pc' \notin {"reopen", "clearSnapshot", "clearStore"}
  BY <1>1 DEF HandleInv
<1>2. CASE UNCHANGED vars
  BY <1>2 DEF vars, op, memory, file, HandleInv
<1>3. CASE RecoverDial
  <2>1. pc' = "reopen" /\ rid \in Remotes /\ remotes'[rid] = con' /\ rid' = rid
    BY <1>3 DEF RecoverDial, LabelInv, At, TypeOK
  <2>2. QED
    BY <2>1 DEF HandleInv
<1>4. ASSUME NEW s \in Sessions, RecoverReuses(s)
      PROVE  HandleInv'
  BY <1>4 DEF RecoverReuses, At, HandleInv
<1>5. CASE ClearRemotes /\ pc' = "clearSnapshot"
  <2>1. \A r \in Remotes : remotes'[r] = None
    BY <1>5 DEF ClearRemotes, Idle, At
  <2>2. snap' = Synced(snap, remotes', link')
    BY <1>5 DEF ClearRemotes
  <2>3. snap'.state # "live"
    <3>1. CASE snap.state # "live"
      BY <2>2, <3>1 DEF Synced
    <3>2. CASE snap.state = "live"
      <4>1. snap \in [state : {"live", "expired"}, remote : Remotes, at : Forwards, boot : Forwards]
        BY <3>2, Values DEF TypeOK
      <4>2. snap' = [snap EXCEPT !.state = "expired"]
        BY <2>1, <2>2, <3>2, <4>1 DEF Synced
      <4>3. QED
        BY <4>1, <4>2
    <3>3. QED
      BY <3>1, <3>2
  <2>4. QED
    BY <1>5, <2>1, <2>3 DEF HandleInv
<1>6. CASE ClearSnapshot /\ pc' = "clearStore"
  <2>1. pc = "clearSnapshot" /\ UNCHANGED <<remotes, snap>> /\ snap.state # "live"
    BY <1>6 DEF ClearSnapshot, memory, file, HandleInv
  <2>2. CASE snap.state = "expired"
    BY <1>6, <2>1, <2>2 DEF ClearSnapshot, Expired, Idle, At, HandleInv
  <2>3. CASE snap.state # "expired"
    <3>1. snap = NoSnap
      BY <2>1, <2>3 DEF TypeOK, SnapType
    <3>2. snap.at \notin device'
      BY <1>6, <3>1, NoneAssumption DEF NoSnap, TypeOK, ClearSnapshot, Expired
    <3>3. QED
      BY <1>6, <2>1, <3>2 DEF HandleInv
  <2>4. QED
    BY <2>2, <2>3
<1>7. CASE ClearRemotes \/ ClearSnapshot
  BY <1>1, <1>5, <1>6, <1>7 DEF ClearRemotes, ClearSnapshot, Idle, At
<1>8. QED
  BY <1>1, <1>2, <1>3, <1>4, <1>7, HandleSteps

\* What those labels rely on holds always.
LEMMA HandleInvariance == Spec => []HandleInv
<1>1. Init => HandleInv
  BY DEF Init, HandleInv
<1>2. QED
  BY <1>1, Invariance, HandleStepHolds, PTL DEF Spec

\* When clear_context discards the snapshot, no handle is left and the forward that
\* the snapshot itself names is gone (server_runtime.py 7036-7095).  The forwards
\* that records name may exist (ClearForgetsReleased is violated).
THEOREM ClearReleasesSnapshot ==
  Spec => [](pc = "clearStore" => Connections = {} /\ snap.at \notin device)
<1>1. HandleInv => (pc = "clearStore" => Connections = {} /\ snap.at \notin device)
  BY DEF HandleInv, Connections
<1>2. QED
  BY <1>1, HandleInvariance, PTL

\* Disconnect, clear_context and a failed recovery forget a handle only when
\* its forward is gone.
THEOREM HandlesAlwaysLeaveReleased == Spec => HandlesLeaveReleased
<1>1. ASSUME IInv, HandleInv, [Next]_vars, NEW r \in Remotes,
             remotes[r] # None, remotes'[r] = None, pc' \notin {"gone", "shutdown"}
      PROVE  remotes[r] \notin device'
  <2> USE DEF IInv
  <2>1. \/ \E q \in Remotes : Disconnect(q)
        \/ RecoverFails \/ ClearRemotes
    <3>1. remotes' # remotes
      BY <1>1
    <3>2. ~WorkerLost /\ ~WorkerStops /\ ~WorkerStart /\ ~Dial /\ ~DialFails /\ ~Shutdown /\ ~Reset
      BY <1>1, <3>1 DEF WorkerLost, WorkerStops, WorkerStart, Dial, DialFails, Shutdown, Reset, At, memory
    <3>3. ~Publish /\ ~RecoverDial
      BY <1>1, NoneAssumption DEF Publish, RecoverDial, LabelInv, TypeOK
    <3>4. \A q \in Remotes : ~Connect(q) /\ ~Rehydrate(q) /\ ~PingFails(q)
      BY <3>1 DEF Connect, Rehydrate, PingFails, memory
    <3>5. \A s \in Sessions : /\ ~Close(s) /\ ~RecoverRetires(s) /\ ~RecoverReuses(s)
                              /\ \A q \in Remotes : ~Open(s, q)
      BY <3>1 DEF Close, RecoverRetires, RecoverReuses, Open, memory
    <3>6. ~OpenStore /\ ~OpenFails /\ ~CloseStore /\ ~RecoverStore /\ ~ClearSessions /\ ~ClearSnapshot
      BY <3>1 DEF OpenStore, OpenFails, CloseStore, RecoverStore, ClearSessions, ClearSnapshot, memory
    <3>7. ~UNCHANGED vars
      BY <3>1 DEF vars, memory
    <3>8. QED
      BY <1>1, <3>2, <3>3, <3>4, <3>5, <3>6, <3>7 DEF Next
  <2>2. ASSUME NEW q \in Remotes, Disconnect(q)
        PROVE  remotes[r] \notin device'
    BY <1>1, <2>2 DEF Disconnect, MayForget, Released, TypeOK
  <2>3. CASE RecoverFails
    BY <1>1, <2>3 DEF RecoverFails, MayForget, Released, TypeOK, LabelInv, HandleInv
  <2>4. CASE ClearRemotes
    BY <1>1, <2>4 DEF ClearRemotes, MayForget, Released, TypeOK
  <2>5. QED
    BY <2>1, <2>2, <2>3, <2>4
<1>2. IInv /\ HandleInv /\ [Next]_vars
        => [\A r \in Remotes :
              remotes[r] # None /\ remotes'[r] = None /\ pc' \notin {"gone", "shutdown"}
                => remotes[r] \notin device']_vars
  BY <1>1
<1>3. QED
  BY <1>2, Invariance, HandleInvariance, PTL DEF Spec, HandlesLeaveReleased

\* No operation but a failing recovery and a reconnection takes the connection
\* from under a live replay: the lease that disconnect asks for is the one the
\* replay holds.
THEOREM SessionsAlwaysKeepConnection == Spec => SessionsKeepConnection
<1>1. ASSUME IInv, [Next]_vars, NEW s \in Sessions,
             uses[s] # None, uses'[s] = uses[s], uses[s] \in device, link[uses[s]].status # "down",
             pc # "reopen", pc' \notin {"recover", "rehydrate"}
      PROVE  uses[s] \in device' /\ link'[uses[s]].status # "down"
  <2> DEFINE u == uses[s]
  <2> USE DEF IInv, memory, file, op
  <2>1. u \in Forwards /\ u # None
    BY <1>1 DEF TypeOK, Maybe
  <2>2. pc # "open" => owner[s] = u
    BY <1>1 DEF LeasesAgree
  <2>3. pc \notin {"gone", "clear", "clearSnapshot", "clearStore", "shutdown"}
    BY <1>1 DEF NoSessionLeft
  <2>4. CASE UNCHANGED <<device, link>>
    BY <1>1, <2>4
  <2>5. CASE WorkerLost \/ WorkerStops \/ Shutdown
    BY <1>1, <2>5 DEF WorkerLost, WorkerStops, Shutdown, Forget, NoSessions
  <2>6. CASE WorkerStart \/ CloseStore \/ Reset \/ OpenFails
    BY <2>4, <2>6 DEF WorkerStart, CloseStore, Reset, OpenFails
  <2>7. CASE Dial \/ DialFails
    BY <1>1, <2>7 DEF Dial, DialFails
  <2>8. CASE Publish
    BY <1>1, <2>1, <2>8 DEF Publish, TypeOK, Link
  <2>9. ASSUME NEW r \in Remotes, Connect(r) \/ Rehydrate(r)
        PROVE  u \in device' /\ link'[u].status # "down"
    BY <1>1, <2>4, <2>9 DEF Connect, Rehydrate, At
  <2>10. ASSUME NEW r \in Remotes, PingFails(r)
         PROVE  u \in device' /\ link'[u].status # "down"
    BY <1>1, <2>1, <2>10, Values DEF PingFails, TypeOK, LinkType, NoLink, Link
  <2>11. ASSUME NEW r \in Remotes, Disconnect(r)
         PROVE  u \in device' /\ link'[u].status # "down"
    <3>1. PICK shut, clean \in BOOLEAN :
            /\ device' = IF clean THEN device \ {remotes[r]} ELSE device
            /\ link' = Collect([link EXCEPT ![remotes[r]].status = ShutDown(remotes[r], shut)], remotes', owner)
      BY <2>11 DEF Disconnect
    <3>2. pc = "idle" /\ link[remotes[r]].leased = {}
      BY <2>11 DEF Disconnect, NotInUse
    <3>3. owner[s] = u
      BY <2>2, <3>2
    <3>4. s \in link[u].leased
      <4>1. link[u].leased = LeasedBy(u)
        BY <1>1, <2>1 DEF LeasesAgree
      <4>2. s \in LeasedBy(u)
        BY <3>3 DEF LeasedBy
      <4>3. QED
        BY <4>1, <4>2
    <3>5. u # remotes[r]
      BY <3>2, <3>4
    <3>6. link'[u] = link[u]
      BY <2>1, <3>1, <3>3, <3>5 DEF Collect, TypeOK
    <3>7. QED
      BY <1>1, <3>1, <3>5, <3>6
  <2>12. ASSUME NEW r \in Remotes, NEW q \in Sessions, Open(q, r)
         PROVE  u \in device' /\ link'[u].status # "down"
    BY <2>4, <2>12 DEF Open
  <2>13. CASE OpenStore
    BY <1>1, <2>1, <2>13, Values DEF OpenStore, Lease, LabelInv, TypeOK, LinkType, NoLink, Link
  <2>14. ASSUME NEW ss, Release(ss), UNCHANGED device, pc = "idle"
         PROVE  u \in device' /\ link'[u].status # "down"
    <3>1. owner'[s] = u
      BY <1>1, <2>1, <2>2, <2>14 DEF Release
    <3>2. link'[u] = GiveUp(link, ss)[u]
      BY <2>1, <2>14, <3>1 DEF Release, Collect
    <3>3. GiveUp(link, ss)[u] = [link[u] EXCEPT !.leased = @ \ ss]
      BY <2>1 DEF GiveUp
    <3>4. [link[u] EXCEPT !.leased = @ \ ss].status = link[u].status
      BY <2>1 DEF TypeOK, LinkType, NoLink, Link
    <3>5. QED
      BY <1>1, <2>14, <3>2, <3>3, <3>4
  <2>15. CASE ClearSessions \/ \E q \in Sessions : Close(q)
    BY <2>14, <2>15 DEF ClearSessions, Close
  <2>16. ASSUME NEW q \in Sessions, RecoverReuses(q) \/ RecoverRetires(q)
         PROVE  u \in device' /\ link'[u].status # "down"
    <3>1. CASE RecoverReuses(q)
      BY <1>1, <2>1, <3>1 DEF RecoverReuses, TypeOK, LinkType, NoLink, Link
    <3>2. CASE RecoverRetires(q)
      BY <1>1, <3>2 DEF RecoverRetires, At
    <3>3. QED
      BY <2>16, <3>1, <3>2
  <2>17. CASE RecoverDial
    <3>1. PICK f \in Forwards :
            /\ Fresh(f)
            /\ device' = device \cup {f}
            /\ link' = Collect([link EXCEPT ![f] = Link(rid, "up", f, {})], remotes', owner)
      BY <2>17 DEF RecoverDial
    <3>2. f # u /\ owner[s] = u
      BY <1>1, <2>2, <2>17, <3>1 DEF RecoverDial, Fresh
    <3>3. link'[u] = link[u]
      BY <2>1, <3>1, <3>2 DEF Collect, TypeOK
    <3>4. QED
      BY <1>1, <3>1, <3>3
  <2>18. CASE RecoverStore \/ RecoverFails
    BY <1>1, <2>18 DEF RecoverStore, RecoverFails
  <2>19. CASE ClearRemotes \/ ClearSnapshot
    BY <2>3, <2>19 DEF ClearRemotes, ClearSnapshot
  <2>20. CASE UNCHANGED vars
    BY <2>4, <2>20 DEF vars
  <2>21. QED
    BY <1>1, <2>5, <2>6, <2>7, <2>8, <2>9, <2>10, <2>11, <2>12, <2>13, <2>15, <2>16, <2>17, <2>18,
       <2>19, <2>20 DEF Next
<1>2. IInv /\ [Next]_vars
        => [\A s \in Sessions :
              uses[s] # None /\ uses'[s] = uses[s] /\ Usable(uses[s]) /\ ~Usable(uses[s])'
                => pc = "reopen" \/ pc' \in {"recover", "rehydrate"}]_vars
  BY <1>1 DEF Usable
<1>3. QED
  BY <1>2, Invariance, PTL DEF Spec, SessionsKeepConnection
=============================================================================
