------------------------ MODULE DaemonLifecycleProofs ------------------------
(***************************************************************************)
(* The watcher's idle decision is safe for every set of clients and         *)
(* requests: it reads a count, and the count is exactly the requests in     *)
(* flight and those that lost it, because every change of it is made under  *)
(* _exec_lock.  The inductive invariant says who holds that lock and what   *)
(* the count is then.                                                      *)
(***************************************************************************)
EXTENDS DaemonLifecycle, FiniteSetTheorems, TLAPS

Holds(r) == pc[r] \in {"begin", "run", "finish", "answer"}

\* At most one request is inside _exec_lock.
LockInv == \A r, s \in Requests : Holds(r) /\ Holds(s) => r = s

\* The count is that of the lost ones, and one more between the begin and the
\* finally clause.
CountInv ==
  /\ IsFiniteSet(Leaked)
  /\ (\E r \in Requests : r \in InFlight) => mem.count = Cardinality(Leaked) + 1
  /\ (\A r \in Requests : r \notin InFlight) => mem.count = Cardinality(Leaked)

IInv == TypeOK /\ LockInv /\ CountInv

---------------------------------------------------------------------------
\* The operators on the daemon's state return states.
LEMMA StateOperators ==
  ASSUME NEW m \in States
  PROVE  /\ Touch(m) \in States
         /\ Prune(m) \in States
         /\ \A c \in Clients : Without(m, c) \in States
         /\ \A c \in Clients : [m EXCEPT !.attached = @ \cup {c}] \in States
         /\ \A b \in BOOLEAN : Late(m, b) \in States
         /\ [m EXCEPT !.owned = TRUE] \in States
         /\ [m EXCEPT !.count = @ + 1] \in States
         /\ Finished(m) \in States
<1>1. Touch(m) \in States
  BY DEF Touch, States
<1>2. Prune(m) \in States
  BY DEF Prune, States
<1>3. \A c \in Clients : Without(m, c) \in States
  BY DEF Without, States
<1>4. \A c \in Clients : [m EXCEPT !.attached = @ \cup {c}] \in States
  BY DEF States
<1>5. ASSUME NEW b \in BOOLEAN
      PROVE  Late(m, b) \in States
  <2>1. (m.idleDue \/ b) \in BOOLEAN
    BY DEF States
  <2>2. QED
    BY <2>1 DEF Late, States
<1>6. [m EXCEPT !.owned = TRUE] \in States
  BY DEF States
<1>7. [m EXCEPT !.count = @ + 1] \in States
  BY DEF States
<1>8. Finished(m) \in States
  <2>1. (IF m.count > 0 THEN m.count - 1 ELSE 0) \in Nat
    BY DEF States
  <2>2. QED
    BY <2>1 DEF Finished, Touch, States
<1>9. QED
  BY <1>1, <1>2, <1>3, <1>4, <1>5, <1>6, <1>7, <1>8

\* A change leaves a state in memory and one to publish.
LEMMA ChangeType ==
  ASSUME TypeOK, NEW t \in Threads, NEW m \in States, Change(t, m)
  PROVE  mem' \in States /\ copy' \in [Threads -> SUBSET States]
<1>1. {m} \in SUBSET States
  OBVIOUS
<1>2. QED
  BY <1>1 DEF TypeOK, Change

\* The labels a step moves to.
LEMMA GotoType ==
  ASSUME TypeOK, NEW t \in Threads \cup {Cleaner}, NEW label \in Labels, Goto(t, label)
  PROVE  pc' \in [Threads \cup {Cleaner} -> Labels]
BY DEF TypeOK, Goto

\* Where an exception leads is a label, and begin is the only one that loses a count.
LEMMA RaisedType ==
  ASSUME NEW label \in Labels
  PROVE  /\ Raised(label) \in Labels
         /\ label = "begin" => Raised(label) = "failed"
         /\ label = "answer" => Raised(label) = "done"
         /\ label \notin {"begin", "answer", "status", "stop"} => Raised(label) = label
         /\ label \in {"status", "stop"} => Raised(label) = "idle"
<1>1. CASE label = "begin"
  BY <1>1, Zenon DEF Raised, Labels
<1>2. CASE label = "answer"
  BY <1>2, Zenon DEF Raised, Labels
<1>3. CASE label \in {"status", "stop"}
  BY <1>3, Zenon DEF Raised, Labels
<1>4. CASE label \notin {"begin", "answer", "status", "stop"}
  BY <1>4, Zenon DEF Raised, Labels
<1>5. QED
  BY <1>1, <1>2, <1>3, <1>4

\* The count stays a natural number by the clamp of Finished.
LEMMA StepType ==
  ASSUME IInv, [Next]_vars
  PROVE  TypeOK'
<1> USE DEF IInv, world, resources
<1>1. ASSUME NEW t \in Threads, PublicationEnds(t)
      PROVE  TypeOK'
  <2>1. t \in Threads \cup {Cleaner} /\ pc[t] \in Labels /\ "run" \in Labels
    BY DEF TypeOK, Labels
  <2>2. copy' \in [Threads -> SUBSET States]
    BY <1>1 DEF PublicationEnds, Publish, PublishFails, TypeOK
  <2>3. CASE Publish(t)
    <3>1. disk' \in States
      BY <2>3 DEF Publish, TypeOK
    <3>2. (IF pc[t] = "begin" THEN "run" ELSE pc[t]) \in Labels
      BY <2>1
    <3>3. QED
      BY <2>1, <2>2, <2>3, <3>1, <3>2, GotoType DEF Publish, TypeOK
  <2>4. CASE PublishFails(t)
    <3>1. Raised(pc[t]) \in Labels
      BY <2>1, RaisedType
    <3>2. cleared' \subseteq clears
      BY <2>4 DEF PublishFails, TypeOK
    <3>3. QED
      BY <2>1, <2>2, <2>4, <3>1, <3>2, GotoType DEF PublishFails, TypeOK
  <2>5. QED
    BY <1>1, <2>3, <2>4 DEF PublicationEnds
<1>2. ASSUME NEW c \in Clients, ClientStep(c)
      PROVE  TypeOK'
  <2>1. c \in Threads /\ {"idle", "status"} \subseteq Labels
    BY DEF Threads, Labels
  <2>2. mem \in States
    BY DEF TypeOK
  <2>3. CASE Status(c)
    <3>1. Prune(mem) \in States
      BY <2>2, StateOperators
    <3>2. QED
      BY <2>1, <2>3, <3>1, ChangeType, GotoType DEF Status, TypeOK
  <2>4. CASE Ping(c)
    <3>1. Touch(mem) \in States
      BY <2>2, StateOperators
    <3>2. QED
      BY <2>1, <2>4, <3>1, ChangeType, GotoType DEF Ping, TypeOK
  <2>5. CASE Attach(c)
    <3>1. Touch(Prune(Without(mem, c))) \in States
      BY <2>2, StateOperators
    <3>2. [Touch(Prune(Without(mem, c))) EXCEPT !.attached = @ \cup {c}] \in States
      BY <3>1, StateOperators
    <3>3. QED
      BY <2>1, <2>5, <3>2, ChangeType, GotoType DEF Attach, TypeOK
  <2>6. CASE Heartbeat(c)
    <3>1. Touch(Prune(mem)) \in States
      BY <2>2, StateOperators
    <3>2. CASE c \in Prune(mem).attached
      BY <2>1, <2>6, <3>1, <3>2, ChangeType, GotoType DEF Heartbeat, TypeOK
    <3>3. CASE c \notin Prune(mem).attached
      BY <2>6, <3>1, <3>3 DEF Heartbeat, TypeOK
    <3>4. QED
      BY <3>2, <3>3
  <2>7. CASE Detach(c)
    <3>1. Touch(Without(mem, c)) \in States
      BY <2>2, StateOperators
    <3>2. QED
      BY <2>1, <2>7, <3>1, ChangeType, GotoType DEF Detach, TypeOK
  <2>8. CASE ClaimOwner(c)
    <3>1. Touch([mem EXCEPT !.owned = TRUE]) \in States
      BY <2>2, StateOperators
    <3>2. QED
      BY <2>1, <2>8, <3>1, ChangeType, GotoType DEF ClaimOwner, TypeOK
  <2>9. QED
    BY <1>2, <2>3, <2>4, <2>5, <2>6, <2>7, <2>8 DEF ClientStep
<1>3. ASSUME NEW r \in Requests, RequestStep(r)
      PROVE  TypeOK'
  <2>1. r \in Threads /\ {"begin", "finish", "answer", "done", "failed"} \subseteq Labels
    BY DEF Threads, Labels
  <2>2. mem \in States
    BY DEF TypeOK
  <2>3. CASE RequestBegin(r)
    <3>1. Touch([mem EXCEPT !.count = @ + 1]) \in States
      BY <2>2, StateOperators
    <3>2. QED
      BY <2>1, <2>3, <3>1, ChangeType, GotoType DEF RequestBegin, TypeOK
  <2>4. CASE RequestProgress(r)
    <3>1. Touch(mem) \in States
      BY <2>2, StateOperators
    <3>2. QED
      BY <2>1, <2>4, <3>1, ChangeType DEF RequestProgress, TypeOK
  <2>5. CASE Execute(r) \/ ExecuteClear(r) \/ ExecuteFails(r)
    BY <2>1, <2>5, GotoType DEF Execute, ExecuteClear, ExecuteFails, state, TypeOK
  <2>6. CASE RequestFinish(r)
    <3>1. Finished(mem) \in States
      BY <2>2, StateOperators
    <3>2. QED
      BY <2>1, <2>6, <3>1, ChangeType, GotoType DEF RequestFinish, TypeOK
  <2>7. CASE ClearFinishFails(r) \/ ClearUnlink(r)
    BY <2>1, <2>7, GotoType DEF ClearFinishFails, ClearUnlink, state, TypeOK
  <2>8. CASE RequestAnswer(r)
    <3>1. mem' \in States
      BY <2>2, <2>8, StateOperators DEF RequestAnswer
    <3>2. cleared' \subseteq clears
      BY <2>8 DEF RequestAnswer, TypeOK
    <3>3. QED
      BY <2>1, <2>8, <3>1, <3>2, GotoType DEF RequestAnswer, TypeOK
  <2>9. QED
    BY <1>3, <2>3, <2>4, <2>5, <2>6, <2>7, <2>8 DEF RequestStep
<1>4. CASE WatchDecide
  <2>1. Prune(mem) \in States
    BY StateOperators DEF TypeOK
  <2>2. Watcher \in Threads /\ {"idle", "stop"} \subseteq Labels
    BY DEF Threads, Labels
  <2>3. QED
    BY <1>4, <2>1, <2>2, ChangeType, GotoType DEF WatchDecide, WatchChange, TypeOK
<1>5. CASE WatchStop \/ CleanDecide \/ CleanReap
  <2>1. Watcher \in Threads /\ {"idle", "over", "reap"} \subseteq Labels
    BY DEF Threads, Labels
  <2>2. /\ copy' \in [Threads -> SUBSET States]
        /\ held' \in BOOLEAN
        /\ life' \in {"ended", "up"}
    <3>1. CASE CleanDecide
      BY <3>1 DEF CleanDecide, state, TypeOK
    <3>2. CASE WatchStop \/ CleanReap
      BY <3>2 DEF WatchStop, CleanReap, DaemonEnds, DaemonStays, TypeOK
    <3>3. QED
      BY <1>5, <3>1, <3>2
  <2>3. pc' \in [Threads \cup {Cleaner} -> Labels]
    BY <1>5, <2>1, GotoType DEF WatchStop, CleanDecide, CleanReap
  <2>4. mem' = mem /\ disk' = disk /\ UNCHANGED world /\ UNCHANGED <<recorded, cleared>>
    BY <1>5 DEF WatchStop, CleanDecide, CleanReap, state
  <2>5. QED
    BY <2>2, <2>3, <2>4 DEF TypeOK
<1>6. ASSUME NEW idle \in BOOLEAN, TimePasses(idle)
      PROVE  TypeOK'
  <2>1. Late(mem, idle) \in States /\ Late(disk, idle) \in States
    BY StateOperators DEF TypeOK
  <2>2. QED
    BY <1>6, <2>1 DEF TimePasses, TypeOK
<1>7. CASE OwnerDies \/ \E c \in Clients : ClientDies(c)
  BY <1>7 DEF OwnerDies, ClientDies, state, TypeOK
<1>8. CASE UNCHANGED vars
  BY <1>8 DEF vars, state, TypeOK
<1>9. QED
  BY <1>1, <1>2, <1>3, <1>4, <1>5, <1>6, <1>7, <1>8 DEF Next, WatchStep

\* What is not a step of a request or of its publications moves no request and
\* changes no count.
LEMMA OthersKeepCount ==
  ASSUME IInv, [Next]_vars, \A r \in Requests : ~RequestStep(r) /\ ~PublicationEnds(r)
  PROVE  /\ mem'.count = mem.count
         /\ \A r \in Requests : pc'[r] = pc[r]
<1> USE ThreadsAssumption DEF IInv, TypeOK, States, Threads
<1>1. ASSUME NEW t \in Threads, PublicationEnds(t)
      PROVE  mem' = mem /\ \A r \in Requests : pc'[r] = pc[r]
  <2>1. t \notin Requests
    BY <1>1
  <2>2. QED
    BY <1>1, <2>1 DEF PublicationEnds, Publish, PublishFails, Goto
<1>2. ASSUME NEW c \in Clients, ClientStep(c)
      PROVE  /\ mem'.count = mem.count
             /\ \A r \in Requests : pc'[r] = pc[r]
  BY <1>2 DEF ClientStep, Status, Ping, Attach, Heartbeat, Detach, ClaimOwner, Change, Goto,
     Touch, Prune, Without
<1>3. CASE WatchDecide
  BY <1>3 DEF WatchDecide, WatchChange, Change, Goto, Prune
<1>4. CASE WatchStop \/ CleanDecide \/ CleanReap
  BY <1>4 DEF WatchStop, CleanDecide, CleanReap, Goto, state
<1>5. ASSUME NEW idle \in BOOLEAN, TimePasses(idle)
      PROVE  mem'.count = mem.count /\ pc' = pc
  BY <1>5 DEF TimePasses, Late
<1>6. CASE OwnerDies \/ \E c \in Clients : ClientDies(c)
  BY <1>6 DEF OwnerDies, ClientDies, state
<1>7. CASE UNCHANGED vars
  BY <1>7 DEF vars, state
<1>8. QED
  BY <1>1, <1>2, <1>3, <1>4, <1>5, <1>6, <1>7 DEF Next, WatchStep

\* A request that loses its count is one more that did, and nothing is in flight.
LEMMA LosesCount ==
  ASSUME IInv, NEW r \in Requests, r \in InFlight, mem' = mem, Goto(r, "failed")
  PROVE  LockInv' /\ CountInv'
<1> USE ThreadsAssumption DEF IInv, TypeOK, Threads, Goto
<1>1. \A s \in Requests : pc'[s] = IF s = r THEN "failed" ELSE pc[s]
  OBVIOUS
<1>2. LockInv'
  BY <1>1 DEF LockInv, Holds
<1>3. Leaked' = Leaked \cup {r} /\ r \notin Leaked
  BY <1>1 DEF Leaked, InFlight
<1>4. IsFiniteSet(Leaked') /\ Cardinality(Leaked') = Cardinality(Leaked) + 1
  BY <1>3, FS_AddElement DEF CountInv
<1>5. \A s \in Requests : s \notin InFlight'
  BY <1>1 DEF LockInv, Holds, InFlight
<1>6. QED
  BY <1>2, <1>4, <1>5 DEF CountInv

\* A step that moves one request inside _exec_lock and leaves the count, moves it
\* out of the lock uncounted, or does not touch it.
LEMMA MovesRequest ==
  ASSUME IInv, NEW r \in Requests, NEW label, mem'.count = mem.count,
         pc' = [pc EXCEPT ![r] = label],
         \/ label = pc[r]
         \/ pc[r] \in {"begin", "run", "finish"} /\ label \in {"run", "finish"}
         \/ pc[r] = "answer" /\ label = "done"
  PROVE  LockInv' /\ CountInv'
<1> USE ThreadsAssumption DEF IInv, TypeOK, Threads
<1>1. \A s \in Requests : pc'[s] = IF s = r THEN label ELSE pc[s]
  OBVIOUS
<1>2. LockInv'
  BY <1>1 DEF LockInv, Holds
<1>3. Leaked' = Leaked
  BY <1>1 DEF Leaked
<1>4. \A s \in Requests : s \in InFlight' <=> s \in InFlight
  BY <1>1 DEF InFlight
<1>5. QED
  BY <1>2, <1>3, <1>4 DEF CountInv

\* Publications change no count; the one that fails before the try loses one.
LEMMA PublicationKeepsCount ==
  ASSUME IInv, NEW r \in Requests, PublicationEnds(r)
  PROVE  LockInv' /\ CountInv'
<1>1. mem' = mem /\ mem'.count = mem.count
  BY DEF PublicationEnds, Publish, PublishFails
<1>2. pc[r] \in Labels
  BY DEF IInv, TypeOK, Threads
<1>3. CASE Publish(r)
  BY <1>1, <1>3, MovesRequest DEF Publish, Goto
<1>4. CASE PublishFails(r) /\ pc[r] = "begin"
  <2>1. r \in InFlight /\ Goto(r, "failed")
    BY <1>2, <1>4, RaisedType DEF PublishFails, InFlight
  <2>2. QED
    BY <1>1, <2>1, LosesCount
<1>5. CASE PublishFails(r) /\ pc[r] \in {"status", "stop"}
  <2>1. \A s \in Requests : pc'[s] = IF s = r THEN "idle" ELSE pc[s]
    BY <1>2, <1>5, RaisedType, ThreadsAssumption DEF PublishFails, Goto, IInv, TypeOK, Threads
  <2>2. LockInv' /\ Leaked' = Leaked /\ InFlight' = InFlight
    BY <1>5, <2>1 DEF IInv, LockInv, Holds, Leaked, InFlight
  <2>3. QED
    BY <1>1, <2>2 DEF IInv, CountInv
<1>6. CASE PublishFails(r) /\ pc[r] \notin {"begin", "status", "stop"}
  <2>1. \/ pc[r] = "answer" /\ Raised(pc[r]) = "done"
        \/ Raised(pc[r]) = pc[r]
    BY <1>2, <1>6, RaisedType
  <2>2. pc' = [pc EXCEPT ![r] = Raised(pc[r])]
    BY <1>6 DEF PublishFails, Goto
  <2>3. QED
    BY <1>1, <2>1, <2>2, MovesRequest
<1>7. QED
  BY <1>3, <1>4, <1>5, <1>6 DEF PublicationEnds

\* A request's step moves only that request, takes the lock when it is free,
\* and counts itself in and out.
LEMMA RequestKeepsCount ==
  ASSUME IInv, NEW r \in Requests, RequestStep(r)
  PROVE  LockInv' /\ CountInv'
<1> USE ThreadsAssumption DEF IInv, TypeOK, States, Threads
<1>1. CASE RequestBegin(r)
  <2>1. /\ \A s \in Requests : pc'[s] = IF s = r THEN "begin" ELSE pc[s]
        /\ \A s \in Requests : pc[s] \in {"new", "done", "failed"}
        /\ pc[r] = "new"
        /\ mem'.count = mem.count + 1
    BY <1>1 DEF RequestBegin, ExecLockFree, At, Change, Goto, Touch
  <2>2. LockInv' /\ Leaked' = Leaked /\ r \in InFlight'
    BY <2>1 DEF LockInv, Holds, Leaked, InFlight
  <2>3. \A s \in Requests : s \notin InFlight
    BY <2>1 DEF InFlight
  <2>4. QED
    BY <2>1, <2>2, <2>3 DEF CountInv
<1>2. CASE RequestProgress(r)
  <2>1. mem'.count = mem.count /\ pc' = pc
    BY <1>2 DEF RequestProgress, Change, Touch
  <2>2. QED
    BY <2>1 DEF LockInv, Holds, CountInv, Leaked, InFlight
<1>3. CASE Execute(r) \/ ExecuteClear(r) \/ ExecuteFails(r)
  <2>1. mem' = mem /\ pc[r] = "run" /\ pc' = [pc EXCEPT ![r] = "finish"]
    BY <1>3 DEF Execute, ExecuteClear, ExecuteFails, At, Goto, state
  <2>2. QED
    BY <2>1, MovesRequest
<1>4. CASE RequestFinish(r)
  <2>1. /\ \A s \in Requests : pc'[s] = IF s = r THEN "answer" ELSE pc[s]
        /\ pc[r] = "finish"
        /\ mem'.count = IF mem.count > 0 THEN mem.count - 1 ELSE 0
    BY <1>4 DEF RequestFinish, At, Change, Goto, Finished, Touch
  <2>2. LockInv' /\ Leaked' = Leaked
    BY <2>1 DEF LockInv, Holds, Leaked
  <2>3. r \in InFlight /\ \A s \in Requests : s \notin InFlight'
    BY <2>1 DEF LockInv, Holds, InFlight
  <2>4. mem.count = Cardinality(Leaked) + 1 /\ Cardinality(Leaked) \in Nat
    BY <2>3, FS_CardinalityType DEF CountInv
  <2>5. QED
    BY <2>1, <2>2, <2>3, <2>4 DEF CountInv
<1>5. CASE ClearFinishFails(r)
  <2>1. r \in InFlight /\ mem' = mem /\ Goto(r, "failed")
    BY <1>5 DEF ClearFinishFails, At, InFlight, state
  <2>2. QED
    BY <2>1, LosesCount
<1>6. CASE RequestAnswer(r)
  <2>1. mem'.count = mem.count
    BY <1>6 DEF RequestAnswer, Prune
  <2>2. pc[r] = "answer" /\ pc' = [pc EXCEPT ![r] = "done"]
    BY <1>6 DEF RequestAnswer, At, Goto
  <2>3. QED
    BY <2>1, <2>2, MovesRequest
<1>7. CASE ClearUnlink(r)
  <2>1. mem' = mem /\ pc' = pc
    BY <1>7 DEF ClearUnlink, state
  <2>2. QED
    BY <2>1 DEF LockInv, Holds, CountInv, Leaked, InFlight
<1>8. QED
  BY <1>1, <1>2, <1>3, <1>4, <1>5, <1>6, <1>7 DEF RequestStep

\* The conjuncts of the inductive invariant, of the specification.
LEMMA Inductive == Spec => []IInv
<1>1. Init => IInv
  <2> SUFFICES ASSUME Init
               PROVE  IInv
    OBVIOUS
  <2>1. mem \in States /\ mem.count = 0
    <3>1. {{}} \subseteq SUBSET Clients /\ {0} \subseteq Nat /\ {FALSE} \subseteq BOOLEAN
      OBVIOUS
    <3>2. QED
      BY <3>1, Zenon DEF Init, States
  <2>2. pc \in [Threads \cup {Cleaner} -> Labels]
    BY DEF Init, Labels
  <2>3. \A r \in Requests : pc[r] = "new"
    BY DEF Init, Threads
  <2>4. TypeOK
    BY <2>1, <2>2 DEF Init, TypeOK
  <2>5. Leaked = {}
    BY <2>3 DEF Leaked
  <2>6. QED
    BY <2>1, <2>3, <2>4, <2>5, FS_EmptySet DEF IInv, LockInv, CountInv, InFlight, Holds
<1>2. IInv /\ [Next]_vars => IInv'
  <2> SUFFICES ASSUME IInv, [Next]_vars
               PROVE  IInv'
    OBVIOUS
  <2>1. TypeOK'
    BY StepType
  <2>2. CASE \A r \in Requests : ~RequestStep(r) /\ ~PublicationEnds(r)
    <3>1. /\ mem'.count = mem.count
          /\ \A r \in Requests : pc'[r] = pc[r]
      BY <2>2, OthersKeepCount
    <3>2. QED
      BY <2>1, <3>1 DEF IInv, LockInv, CountInv, Leaked, InFlight, Holds
  <2>3. CASE \E r \in Requests : RequestStep(r) \/ PublicationEnds(r)
    BY <2>1, <2>3, RequestKeepsCount, PublicationKeepsCount DEF IInv
  <2>4. QED
    BY <2>2, <2>3
<1>3. QED
  BY <1>1, <1>2, PTL DEF Spec

---------------------------------------------------------------------------
\* Type correctness of the daemon, for every set of clients and requests.
THEOREM TypeCorrect == Spec => []TypeOK
<1>1. IInv => TypeOK
  BY DEF IInv
<1>2. QED
  BY <1>1, Inductive, PTL

\* active_request_count is the number of requests between their begin and their
\* finally clause, at most one, and of those that lost their count on the way.
THEOREM CountIsTrue == Spec => []CountIsInFlightOrLeaked
<1>1. IInv => CountIsInFlightOrLeaked
  <2> SUFFICES ASSUME IInv
               PROVE  CountIsInFlightOrLeaked
    OBVIOUS
  <2>1. Cardinality(Leaked) \in Nat
    BY FS_CardinalityType DEF IInv, CountInv
  <2>2. CASE InFlight = {}
    <3>1. mem.count = Cardinality(Leaked)
      BY <2>2 DEF IInv, CountInv
    <3>2. QED
      BY <2>1, <2>2, <3>1, FS_EmptySet DEF CountIsInFlightOrLeaked
  <2>3. CASE InFlight # {}
    <3>1. PICK r \in Requests : r \in InFlight
      BY <2>3 DEF InFlight
    <3>2. InFlight = {r}
      BY <3>1 DEF IInv, LockInv, Holds, InFlight
    <3>3. mem.count = Cardinality(Leaked) + 1
      BY <3>1 DEF IInv, CountInv
    <3>4. Cardinality(InFlight) = 1
      BY <3>2, FS_Singleton
    <3>5. QED
      BY <2>1, <3>3, <3>4 DEF CountIsInFlightOrLeaked
  <2>4. QED
    BY <2>2, <2>3
<1>2. QED
  BY <1>1, Inductive, PTL

\* The watcher never decides to stop a daemon for idleness while a request is
\* between its begin and its finally clause.
THEOREM WatcherSpares == Spec => WatcherSparesRequests
<1>1. IInv /\ [Next]_vars
        => [WatchDecide /\ pc'[Watcher] = "stop" /\ ownerRuns => InFlight = {}]_vars
  <2> SUFFICES ASSUME IInv, WatchDecide, pc'[Watcher] = "stop", ownerRuns
               PROVE  InFlight = {}
    OBVIOUS
  <2>1. OwnerLost(Prune(mem)) \/ Idle(Prune(mem))
    BY ThreadsAssumption DEF WatchDecide, Goto, IInv, TypeOK, Threads
  <2>2. Idle(Prune(mem))
    BY <2>1 DEF OwnerLost
  <2>3. mem.count = 0
    BY <2>2 DEF Idle, Prune, IInv, TypeOK, States
  <2>4. Cardinality(Leaked) \in Nat
    BY FS_CardinalityType DEF IInv, CountInv
  <2>5. QED
    BY <2>3, <2>4 DEF IInv, CountInv, InFlight
<1>2. QED
  BY <1>1, Inductive, PTL DEF Spec, WatcherSparesRequests
=============================================================================
