------------------------- MODULE WorkerRequestsProofs -------------------------
(***************************************************************************)
(* Proofs about WorkerRequests, for every set of requests and every number  *)
(* of worker processes: a request is dispatched at most once and answered   *)
(* with its own result.  When a killed worker dies, one worker at a time    *)
(* holds the replay, and an unknown outcome leaves it quarantined.  The     *)
(* daemon and its workers implement RemoteCall.                             *)
(***************************************************************************)
EXTENDS WorkerRequests, TLAPS

---------------------------------------------------------------------------
(* The inductive invariant *)

Lines    == [by : Threads \cup {None}, id : Nat, exec : BOOLEAN]
Messages == [kind : {"ready", "eof", "answer"}, id : Nat, ok : BOOLEAN]

PlainType ==
  /\ execLock \in Requests \cup {None} /\ ioLock \in Threads \cup {None}
  /\ pc \in [Threads -> PCs] /\ outcome \in [Requests -> {"none", "ok", "error"}]
  /\ handle \in Gens \cup {0} /\ held \in [Threads -> Gens \cup {0}]
  /\ seq \in Nat /\ myId \in [Threads -> 0..seq]
  /\ wst \in [Gens -> {"none", "boot", "idle", "work", "answer", "dead"}]
  /\ reader \in [Gens -> BOOLEAN] /\ applied \in [Requests -> Nat]
  /\ session \in [gen : Gens \cup {0}, restart : BOOLEAN] /\ exited \in BOOLEAN

ChannelInv ==
  /\ stdin \in [Gens -> Seq(Lines)] /\ job \in [Gens -> Lines]
  /\ stdout \in [Gens -> Seq(Messages)] /\ queue \in Seq(Messages)

\* A request that was not yet written.
Before == {"new", "check", "ensure", "spawn", "await", "lock", "write"}

\* The exec lock is held by the one request that has begun and not ended.
LockInv ==
  /\ \A r \in Requests : /\ pc[r] \notin {"exit", "gaveup"}
                         /\ pc[r] \notin {"new", "done"} <=> execLock = r
  /\ pc[Stopper] \in {"new", "exit", "gaveup"} \cup StopSites

\* A line of a request that no worker has taken: it was written, it was not
\* dispatched, and no worker executes another line of that request.
Pending(line) ==
  /\ line.by \in Threads /\ line.id \in 1..seq
  /\ line.exec => /\ line.by \in Requests /\ pc[line.by] \notin Before
                  /\ applied[line.by] = 0
                  /\ \A h \in Gens : job[h].exec => job[h].by # line.by

\* What waits in some stdin is pending, and a request is written once.
StdinInv ==
  /\ \A g \in Gens : \A i \in 1..Len(stdin[g]) : Pending(stdin[g][i])
  /\ \A g, h \in Gens : \A i \in 1..Len(stdin[g]), j \in 1..Len(stdin[h]) :
       stdin[g][i].exec /\ stdin[h][j].exec /\ stdin[g][i].by = stdin[h][j].by
         => g = h /\ i = j

\* Lines that workers execute.
JobInv ==
  /\ \A g \in Gens :
       /\ job[g].id \in 0..seq
       /\ wst[g] \in {"work", "answer"} => job[g].by \in Threads /\ job[g].id # 0
       /\ wst[g] = "answer" => job[g].exec
       /\ job[g].exec => /\ job[g].by \in Requests /\ pc[job[g].by] \notin Before
                         /\ wst[g] \in {"work", "answer"}
                         /\ wst[g] = "work" => applied[job[g].by] = 0
                         /\ wst[g] = "answer" => applied[job[g].by] = 1
  /\ \A g, h \in Gens : job[g].exec /\ job[h].exec /\ job[g].by = job[h].by => g = h

\* A request counts as dispatched once, after it was written.
AppliedInv ==
  /\ AppliedAtMostOnce
  /\ \A r \in Requests : pc[r] \in Before => applied[r] = 0 /\ myId[r] = 0

\* A line with the id some request waits for is the line of that request.
Own(line, r) == line.id = myId[r] => line.by = r /\ line.exec

WaitInv ==
  \A r \in Requests : pc[r] = "wait" =>
    /\ myId[r] # 0
    /\ \A g \in Gens : /\ \A i \in 1..Len(stdin[g]) : Own(stdin[g][i], r)
                       /\ Own(job[g], r)

\* A message of no later request, that claims no success of a waiting request
\* that was not dispatched.
Sound(m) ==
  /\ m.id \in 0..seq
  /\ \A r \in Requests : pc[r] = "wait" /\ m.kind = "answer" /\ m.ok /\ m.id = myId[r]
                           => applied[r] = 1

MessageInv ==
  /\ \A g \in Gens : \A i \in 1..Len(stdout[g]) : Sound(stdout[g][i])
  /\ \A i \in 1..Len(queue) : Sound(queue[i])

Inv ==
  /\ PlainType /\ ChannelInv /\ LockInv /\ StdinInv /\ JobInv /\ AppliedInv /\ WaitInv
  /\ MessageInv /\ OkMeansApplied

---------------------------------------------------------------------------
(* Lines, messages and the sequences of them *)

\* What the lines of the daemon are.
LEMMA LineFacts ==
  /\ \A t \in Threads \cup {None}, id \in Nat, b \in BOOLEAN :
       /\ Line(t, id, b) \in Lines
       /\ Line(t, id, b).by = t /\ Line(t, id, b).id = id /\ Line(t, id, b).exec = b
  /\ NoJob \in Lines /\ NoJob.by = None /\ NoJob.id = 0 /\ ~NoJob.exec
BY DEF Line, Lines, NoJob

\* What the messages of a worker are.
LEMMA MessageFacts ==
  /\ \A id \in Nat, b \in BOOLEAN :
       /\ Answer(id, b) \in Messages
       /\ Answer(id, b).kind = "answer" /\ Answer(id, b).id = id /\ Answer(id, b).ok = b
  /\ Ready \in Messages /\ Ready.kind = "ready" /\ Ready.id = 0
  /\ Eof \in Messages /\ Eof.kind = "eof" /\ Eof.id = 0
BY DEF Answer, Messages, Ready, Eof

\* An element appended to a sequence is its last, the others stay.
LEMMA AppendFacts ==
  ASSUME NEW S, NEW s \in Seq(S), NEW e \in S
  PROVE  /\ Append(s, e) \in Seq(S) /\ Len(s) \in Nat
         /\ Len(Append(s, e)) = Len(s) + 1
         /\ \A i \in 1..Len(s) : Append(s, e)[i] = s[i]
         /\ Append(s, e)[Len(s) + 1] = e
OBVIOUS

\* The head is the first element, the tail has the others one place earlier.
LEMMA TailFacts ==
  ASSUME NEW S, NEW s \in Seq(S), s # <<>>
  PROVE  /\ Tail(s) \in Seq(S) /\ Len(s) \in Nat
         /\ 1 \in 1..Len(s) /\ Head(s) = s[1] /\ Head(s) \in S
         /\ \A i \in 1..Len(Tail(s)) : Tail(s)[i] = s[i + 1] /\ i + 1 \in 2..Len(s)
OBVIOUS

\* A quarantine marks the replay there is.
LEMMA QuarantineFacts ==
  ASSUME session \in [gen : Gens \cup {0}, restart : BOOLEAN], Quarantine
  PROVE  /\ session' \in [gen : Gens \cup {0}, restart : BOOLEAN]
         /\ session'.gen = session.gen
         /\ session.gen # 0 => session'.restart
<1> DEFINE b == session.gen # 0
<1>1. b \in BOOLEAN
  OBVIOUS
<1>2. session' = [session EXCEPT !.restart = b]
  BY DEF Quarantine
<1>3. session.gen # 0 => b
  OBVIOUS
<1> HIDE DEF b
<1>4. session' \in [gen : Gens \cup {0}, restart : BOOLEAN] /\ session'.gen = session.gen
      /\ session'.restart = b
  BY <1>1, <1>2
<1> QED
  BY <1>3, <1>4

---------------------------------------------------------------------------
(* What keeps the parts of the invariant *)

\* No request returns to before its write, or to its wait; until its write
\* and in its wait it keeps its id.
Onward ==
  \A r \in Requests :
    /\ pc'[r] \in Before => pc[r] \in Before /\ myId'[r] = myId[r]
    /\ pc'[r] = "wait" => pc[r] = "wait" /\ myId'[r] = myId[r]

\* The lines that wait speak of the place of a request only so far.
LEMMA StdinFrame == StdinInv /\ Onward /\ UNCHANGED <<stdin, seq, applied, job>> => StdinInv'
BY DEF StdinInv, Onward, Pending

\* So do the lines that workers execute.
LEMMA JobFrame == JobInv /\ Onward /\ UNCHANGED <<job, seq, applied, wst>> => JobInv'
BY DEF JobInv, Onward

\* So does the count of dispatches.
LEMMA AppliedFrame == AppliedInv /\ Onward /\ UNCHANGED applied => AppliedInv'
BY DEF AppliedInv, AppliedAtMostOnce, Onward

\* So do the ids.
LEMMA WaitFrame == WaitInv /\ Onward /\ UNCHANGED <<stdin, job>> => WaitInv'
BY DEF WaitInv, Own, Onward

\* A sound message stays sound.
LEMMA SoundFrame ==
  ASSUME Onward, UNCHANGED seq, \A r \in Requests : applied[r] = 1 => applied'[r] = 1
  PROVE  \A m \in Messages : Sound(m) => (Sound(m))'
BY DEF Sound, Onward

---------------------------------------------------------------------------
(* The steps on lines and messages *)

\* A request, or a shutdown, is written to the worker, or the worker has ended.
LEMMA WriteStep == ASSUME Inv, NEW t \in Threads, Write(t), UNCHANGED exited PROVE Inv'
<1> USE StopperAssumption DEF Inv, Threads
<1>1. CASE ~IsRunning
  <2>1. /\ pc[t] \in {"write", "stopWrite"} /\ ioLock' = None
        /\ pc' = [pc EXCEPT ![t] = AfterFailure(t)]
        /\ UNCHANGED <<seq, myId, stdin, execLock, handle, held, outcome, wst, job, stdout, applied,
                       reader, queue, session, exited>>
    BY <1>1 DEF Write, Goto
  <2> HIDE DEF Inv
  <2>2. Onward
    BY <2>1 DEF Inv, Onward, AfterFailure, PlainType, Before
  <2>3. PlainType'
    BY <2>1 DEF Inv, PlainType, AfterFailure, PCs, ExecSites, StopSites
  <2>4. LockInv'
    BY <2>1 DEF Inv, PlainType, LockInv, AfterFailure, StopSites
  <2>5. ChannelInv' /\ OkMeansApplied'
    BY <2>1 DEF Inv, ChannelInv, OkMeansApplied
  <2>6. StdinInv' /\ JobInv' /\ AppliedInv' /\ WaitInv'
    BY <2>1, <2>2, StdinFrame, JobFrame, AppliedFrame, WaitFrame DEF Inv
  <2>7. MessageInv'
    <3>1. \A m \in Messages : Sound(m) => (Sound(m))'
      BY <2>1, <2>2, SoundFrame
    <3> QED
      BY <2>1, <3>1 DEF Inv, ChannelInv, MessageInv
  <2> QED
    BY <2>3, <2>4, <2>5, <2>6, <2>7 DEF Inv
<1>2. CASE IsRunning
  <2> DEFINE b == pc[t] = "write"
             end == Len(stdin[handle]) + 1
  <2>1. /\ pc[t] \in {"write", "stopWrite"} /\ handle \in Gens
        /\ seq' = seq + 1 /\ myId' = [myId EXCEPT ![t] = seq + 1]
        /\ stdin' = [stdin EXCEPT ![handle] = Append(@, Line(t, seq + 1, b))]
        /\ pc' = [pc EXCEPT ![t] = IF b THEN "wait" ELSE "stopWait"]
        /\ UNCHANGED <<ioLock, execLock, handle, held, outcome, wst, job, stdout, applied, reader,
                       queue, session, exited>>
    BY <1>2 DEF Write, Goto, IsRunning, Alive, PlainType
  <2>2. /\ b \in BOOLEAN /\ seq \in Nat
        /\ b => t \in Requests /\ pc[t] = "write"
        /\ ~b => pc[t] = "stopWrite"
    BY <2>1 DEF LockInv, PlainType, StopSites
  <2> HIDE DEF b, end, Inv
  <2>3. PICK line \in Lines : /\ line.by = t /\ line.id = seq + 1 /\ line.exec = b
                              /\ stdin' = [stdin EXCEPT ![handle] = Append(@, line)]
    <3>1. /\ Line(t, seq + 1, b) \in Lines /\ Line(t, seq + 1, b).by = t
          /\ Line(t, seq + 1, b).id = seq + 1 /\ Line(t, seq + 1, b).exec = b
      BY <2>2, LineFacts
    <3> QED
      BY <2>1, <3>1
  <2>4. /\ stdin' \in [Gens -> Seq(Lines)] /\ end \in Nat
        /\ \A g \in Gens : \A i \in 1..Len(stdin'[g]) :
             \/ i \in 1..Len(stdin[g]) /\ stdin'[g][i] = stdin[g][i] /\ stdin[g][i] \in Lines
             \/ g = handle /\ i = end /\ stdin'[g][i] = line
    BY <2>1, <2>3, AppendFacts DEF end, Inv, ChannelInv
  <2>5. \A x \in Threads : /\ x # t => pc'[x] = pc[x] /\ myId'[x] = myId[x]
                           /\ x = t => /\ pc'[x] = IF b THEN "wait" ELSE "stopWait"
                                       /\ myId'[x] = seq + 1
    BY <2>1 DEF Inv, PlainType
  <2>6. \A r \in Requests : pc'[r] \in Before => pc[r] \in Before /\ myId'[r] = myId[r]
    BY <2>1, <2>2, <2>5 DEF Before
  <2>7. b => /\ applied[t] = 0
             /\ \A h \in Gens : job[h].exec => job[h].by # t
             /\ \A g \in Gens : \A i \in 1..Len(stdin[g]) : stdin[g][i].exec => stdin[g][i].by # t
    BY <2>2 DEF Inv, AppliedInv, JobInv, StdinInv, Pending, Before
  <2>8. PlainType'
    <3>1. myId' \in [Threads -> 0..seq']
      BY <2>1, <2>2 DEF Inv, PlainType
    <3> QED
      BY <2>1, <2>2, <3>1 DEF Inv, PlainType, PCs, ExecSites, StopSites
  <2>9. ChannelInv'
    BY <2>1, <2>4 DEF Inv, ChannelInv
  <2>10. LockInv'
    BY <2>1, <2>2, <2>5 DEF Inv, LockInv, PlainType, StopSites
  <2>11. StdinInv'
    <3>1. \A l \in Lines : Pending(l) => (Pending(l))'
      BY <2>1, <2>2, <2>6 DEF Pending
    <3>2. (Pending(line))'
      BY <2>1, <2>2, <2>3, <2>5, <2>7 DEF Pending, Before
    <3> QED
      BY <2>1, <2>3, <2>4, <2>7, <3>1, <3>2 DEF Inv, StdinInv
  <2>12. JobInv'
    <3>1. \A g \in Gens : job[g].id \in 0..seq'
      BY <2>1, <2>2 DEF Inv, JobInv
    <3> QED
      BY <2>1, <2>6, <3>1 DEF Inv, JobInv
  <2>13. AppliedInv'
    BY <2>1, <2>6 DEF Inv, AppliedInv, AppliedAtMostOnce
  <2>14. WaitInv'
    <3> SUFFICES ASSUME NEW r \in Requests, pc'[r] = "wait"
                 PROVE  /\ myId'[r] # 0
                        /\ \A g \in Gens : /\ \A i \in 1..Len(stdin'[g]) : (Own(stdin[g][i], r))'
                                           /\ (Own(job[g], r))'
      BY DEF WaitInv
    <3>1. CASE r = t
      <4>1. b /\ myId'[r] = seq + 1
        BY <3>1, <2>5
      <4>2. \A g \in Gens : /\ \A i \in 1..Len(stdin[g]) : stdin[g][i].id # seq + 1
                            /\ job[g].id # seq + 1
        BY <2>2 DEF Inv, StdinInv, Pending, JobInv
      <4>3. line.by = r /\ line.exec
        BY <4>1, <3>1, <2>3
      <4>4. \A g \in Gens : \A i \in 1..Len(stdin'[g]) : (Own(stdin[g][i], r))'
        BY <4>1, <4>2, <4>3, <2>4 DEF Own
      <4>5. \A g \in Gens : (Own(job[g], r))'
        BY <4>1, <4>2, <2>1 DEF Own
      <4> QED
        BY <4>1, <4>4, <4>5, <2>2
    <3>2. CASE r # t
      <4>1. pc[r] = "wait" /\ myId'[r] = myId[r] /\ myId[r] # seq + 1
        BY <3>2, <2>2, <2>5 DEF Inv, PlainType
      <4>2. /\ myId[r] # 0
            /\ \A g \in Gens : \A i \in 1..Len(stdin[g]) : Own(stdin[g][i], r)
            /\ \A g \in Gens : Own(job[g], r)
        BY <4>1 DEF Inv, WaitInv
      <4> QED
        BY <4>1, <4>2, <2>1, <2>3, <2>4 DEF Own
    <3> QED
      BY <3>1, <3>2
  <2>15. MessageInv'
    <3>1. \A m \in Messages : Sound(m) => (Sound(m))'
      BY <2>1, <2>2, <2>5 DEF Sound
    <3> QED
      BY <2>1, <3>1 DEF Inv, ChannelInv, MessageInv
  <2>16. OkMeansApplied'
    BY <2>1 DEF Inv, OkMeansApplied
  <2> QED
    BY <2>8, <2>9, <2>10, <2>11, <2>12, <2>13, <2>14, <2>15, <2>16 DEF Inv
<1> QED
  BY <1>1, <1>2

\* A worker writes a message that is sound.
LEMMA StdoutAppend ==
  ASSUME ChannelInv, MessageInv, NEW g \in Gens, NEW m \in Messages,
         stdout' = [stdout EXCEPT ![g] = Append(@, m)], UNCHANGED queue,
         (Sound(m))', \A n \in Messages : Sound(n) => (Sound(n))'
  PROVE  stdout' \in [Gens -> Seq(Messages)] /\ MessageInv'
<1>1. /\ stdout' \in [Gens -> Seq(Messages)]
      /\ \A h \in Gens : \A i \in 1..Len(stdout'[h]) :
           \/ i \in 1..Len(stdout[h]) /\ stdout'[h][i] = stdout[h][i] /\ stdout[h][i] \in Messages
           \/ stdout'[h][i] = m
  BY AppendFacts DEF ChannelInv
<1>2. \A i \in 1..Len(queue) : queue[i] \in Messages
  BY DEF ChannelInv
<1> QED
  BY <1>1, <1>2 DEF MessageInv

\* The reader thread moves a message, reports the end of the stream, or ends.
LEMMA PumpStep == ASSUME Inv, NEW g \in Gens, Pump(g), UNCHANGED exited PROVE Inv'
<1> USE StopperAssumption DEF Inv, Threads
<1>1. /\ UNCHANGED <<execLock, ioLock, pc, handle, held, seq, myId, outcome, wst, stdin, job,
                     applied, session, exited>>
      /\ reader' = reader \/ reader' = [reader EXCEPT ![g] = FALSE]
  BY DEF Pump, daemonVars
<1>2. Onward
  BY <1>1 DEF Onward
<1>3. \A m \in Messages : Sound(m) => (Sound(m))'
  BY <1>1, <1>2, SoundFrame
<1>4. StdinInv' /\ JobInv' /\ AppliedInv' /\ WaitInv'
  BY <1>1, <1>2, StdinFrame, JobFrame, AppliedFrame, WaitFrame
<1>5. LockInv' /\ OkMeansApplied'
  BY <1>1 DEF LockInv, OkMeansApplied
<1>6. PlainType'
  BY <1>1 DEF PlainType
<1>7. /\ stdout' \in [Gens -> Seq(Messages)] /\ queue' \in Seq(Messages)
      /\ \A h \in Gens : \A i \in 1..Len(stdout'[h]) :
           \E j \in 1..Len(stdout[h]) : stdout'[h][i] = stdout[h][j]
      /\ \A i \in 1..Len(queue') :
           \/ i \in 1..Len(queue) /\ queue'[i] = queue[i]
           \/ queue'[i] = Eof
           \/ \E j \in 1..Len(stdout[g]) : queue'[i] = stdout[g][j]
  <2>1. CASE /\ stdout[g] # <<>> /\ queue' = Append(queue, Head(stdout[g]))
             /\ stdout' = [stdout EXCEPT ![g] = Tail(@)]
    <3>1. /\ stdout \in [Gens -> Seq(Messages)] /\ stdout[g] \in Seq(Messages)
          /\ queue \in Seq(Messages)
      BY DEF ChannelInv
    <3>2. /\ Tail(stdout[g]) \in Seq(Messages) /\ Head(stdout[g]) \in Messages
          /\ Head(stdout[g]) = stdout[g][1] /\ 1 \in 1..Len(stdout[g])
          /\ \A i \in 1..Len(Tail(stdout[g])) :
               Tail(stdout[g])[i] = stdout[g][i + 1] /\ i + 1 \in 1..Len(stdout[g])
      BY <2>1, <3>1, TailFacts
    <3>3. /\ queue' \in Seq(Messages) /\ Len(queue) \in Nat
          /\ Len(queue') = Len(queue) + 1
          /\ \A i \in 1..Len(queue) : queue'[i] = queue[i]
          /\ queue'[Len(queue) + 1] = stdout[g][1]
      BY <2>1, <3>1, <3>2, AppendFacts
    <3>4. \A h \in Gens : stdout'[h] = IF h = g THEN Tail(stdout[g]) ELSE stdout[h]
      BY <2>1, <3>1
    <3>5. stdout' \in [Gens -> Seq(Messages)]
      BY <2>1, <3>1, <3>2
    <3>6. \A i \in 1..Len(queue') : i \in 1..Len(queue) \/ i = Len(queue) + 1
      BY <3>3
    <3>7. \A h \in Gens : \A i \in 1..Len(stdout'[h]) :
            \E j \in 1..Len(stdout[h]) : stdout'[h][i] = stdout[h][j]
      BY <3>2, <3>4
    <3>8. \A i \in 1..Len(queue') : \/ i \in 1..Len(queue) /\ queue'[i] = queue[i]
                                   \/ queue'[i] = stdout[g][1]
      BY <3>3, <3>6
    <3> QED
      BY <3>2, <3>3, <3>5, <3>7, <3>8
  <2>2. CASE queue' = Append(queue, Eof) /\ UNCHANGED stdout
    <3>1. /\ queue' \in Seq(Messages) /\ Len(queue) \in Nat
          /\ Len(queue') = Len(queue) + 1
          /\ \A i \in 1..Len(queue) : queue'[i] = queue[i]
          /\ queue'[Len(queue) + 1] = Eof
      BY <2>2, AppendFacts, MessageFacts DEF ChannelInv
    <3>2. /\ stdout' \in [Gens -> Seq(Messages)]
          /\ \A h \in Gens : stdout'[h] = stdout[h]
      BY <2>2 DEF ChannelInv
    <3>3. \A i \in 1..Len(queue') : \/ i \in 1..Len(queue) /\ queue'[i] = queue[i]
                                   \/ queue'[i] = Eof
      BY <3>1
    <3> QED
      BY <3>1, <3>2, <3>3
  <2>3. CASE UNCHANGED queue /\ stdout' = [stdout EXCEPT ![g] = <<>>]
    <3>1. \A h \in Gens : stdout'[h] = IF h = g THEN <<>> ELSE stdout[h]
      BY <2>3 DEF ChannelInv
    <3> QED
      BY <2>3, <3>1 DEF ChannelInv
  <2> QED
    BY <2>1, <2>2, <2>3 DEF Pump
<1>8. ChannelInv'
  BY <1>1, <1>7 DEF ChannelInv
<1>9. MessageInv'
  <2>1. (Sound(Eof))'
    BY <1>6, MessageFacts DEF Sound, PlainType
  <2>2. \A h \in Gens : \A j \in 1..Len(stdout[h]) :
          stdout[h][j] \in Messages /\ Sound(stdout[h][j])
    BY DEF ChannelInv, MessageInv
  <2>3. \A j \in 1..Len(queue) : queue[j] \in Messages /\ Sound(queue[j])
    BY DEF ChannelInv, MessageInv
  <2>4. \A h \in Gens : \A i \in 1..Len(stdout'[h]) : (Sound(stdout[h][i]))'
    <3> SUFFICES ASSUME NEW h \in Gens, NEW i \in 1..Len(stdout'[h]) PROVE (Sound(stdout[h][i]))'
      OBVIOUS
    <3>1. PICK j \in 1..Len(stdout[h]) : stdout'[h][i] = stdout[h][j]
      BY <1>7
    <3>2. PICK m \in Messages : m = stdout[h][j] /\ Sound(m)
      BY <2>2
    <3> QED
      BY <1>3, <3>1, <3>2
  <2>5. \A i \in 1..Len(queue') : (Sound(queue[i]))'
    <3> SUFFICES ASSUME NEW i \in 1..Len(queue') PROVE (Sound(queue[i]))'
      OBVIOUS
    <3>1. CASE queue'[i] = Eof
      <4>1. PICK m \in Messages : m = Eof
        BY MessageFacts
      <4> QED
        BY <3>1, <4>1, <2>1
    <3>2. CASE \E m \in Messages : queue'[i] = m /\ Sound(m)
      BY <3>2, <1>3
    <3> QED
      BY <1>7, <2>2, <2>3, <3>1, <3>2
  <2> QED
    BY <2>4, <2>5 DEF MessageInv
<1> QED
  BY <1>4, <1>5, <1>6, <1>8, <1>9

\* A worker is ready.
LEMMA ReadyStep == ASSUME Inv, NEW g \in Gens, WorkerReady(g), UNCHANGED exited PROVE Inv'
<1> USE StopperAssumption DEF Inv, Threads
<1>1. /\ UNCHANGED <<execLock, ioLock, pc, handle, held, seq, myId, outcome, stdin, job, applied,
                     reader, queue, session, exited>>
      /\ wst[g] = "boot" /\ wst' = [wst EXCEPT ![g] = "idle"]
      /\ stdout' = [stdout EXCEPT ![g] = Append(@, Ready)]
  BY DEF WorkerReady, daemonVars
<1>2. Onward
  BY <1>1 DEF Onward
<1>3. StdinInv' /\ AppliedInv' /\ WaitInv'
  BY <1>1, <1>2, StdinFrame, AppliedFrame, WaitFrame
<1>4. LockInv' /\ OkMeansApplied'
  BY <1>1 DEF LockInv, OkMeansApplied
<1>5. PlainType'
  BY <1>1 DEF PlainType
<1>6. JobInv'
  BY <1>1 DEF JobInv, PlainType
<1>7. stdout' \in [Gens -> Seq(Messages)] /\ MessageInv'
  <2>1. PICK m \in Messages : m = Ready
    BY MessageFacts
  <2>2. (Sound(m))'
    BY <1>5, <2>1, MessageFacts DEF Sound, PlainType
  <2>3. \A n \in Messages : Sound(n) => (Sound(n))'
    BY <1>1, <1>2, SoundFrame
  <2> QED
    BY <1>1, <2>1, <2>2, <2>3, StdoutAppend
<1> QED
  BY <1>1, <1>3, <1>4, <1>5, <1>6, <1>7 DEF ChannelInv

\* A worker takes the first line that waits.
LEMMA TakeStep == ASSUME Inv, NEW g \in Gens, WorkerTake(g), UNCHANGED exited PROVE Inv'
<1> USE StopperAssumption DEF Inv, Threads
<1>1. /\ UNCHANGED <<execLock, ioLock, pc, handle, held, seq, myId, outcome, stdout, applied,
                     reader, queue, session, exited>>
      /\ wst[g] = "idle" /\ wst' = [wst EXCEPT ![g] = "work"] /\ stdin[g] # <<>>
      /\ stdin' = [stdin EXCEPT ![g] = Tail(@)] /\ job' = [job EXCEPT ![g] = Head(stdin[g])]
  BY DEF WorkerTake, daemonVars
<1>2. Onward
  BY <1>1 DEF Onward
<1>3. /\ stdin' \in [Gens -> Seq(Lines)] /\ job' \in [Gens -> Lines]
      /\ 1 \in 1..Len(stdin[g]) /\ job'[g] = stdin[g][1]
      /\ \A h \in Gens : h # g => job'[h] = job[h] /\ stdin'[h] = stdin[h]
      /\ \A i \in 1..Len(stdin'[g]) : stdin'[g][i] = stdin[g][i + 1] /\ i + 1 \in 2..Len(stdin[g])
  BY <1>1, TailFacts DEF ChannelInv
<1>4. \A h \in Gens : wst'[h] = IF h = g THEN "work" ELSE wst[h]
  BY <1>1 DEF PlainType
<1>5. Pending(stdin[g][1])
  BY <1>3 DEF StdinInv
<1>6. PlainType'
  BY <1>1 DEF PlainType
<1>7. ChannelInv'
  BY <1>1, <1>3 DEF ChannelInv
<1>8. LockInv' /\ OkMeansApplied'
  BY <1>1 DEF LockInv, OkMeansApplied
<1>9. AppliedInv'
  BY <1>1, <1>2, AppliedFrame
<1>10. \A h \in Gens : \A i \in 1..Len(stdin'[h]) :
         \E j \in 1..Len(stdin[h]) : /\ j = (IF h = g THEN i + 1 ELSE i)
                                     /\ stdin'[h][i] = stdin[h][j] /\ Pending(stdin[h][j])
  BY <1>3 DEF StdinInv
<1>11. StdinInv'
  <2>1. ASSUME NEW h \in Gens, NEW i \in 1..Len(stdin'[h]) PROVE (Pending(stdin[h][i]))'
    <3>1. PICK j \in 1..Len(stdin[h]) : /\ stdin'[h][i] = stdin[h][j] /\ Pending(stdin[h][j])
                                        /\ j = (IF h = g THEN i + 1 ELSE i)
      BY <1>10, <2>1
    <3>2. stdin[h][j].exec /\ stdin[g][1].exec => stdin[g][1].by # stdin[h][j].by
      <4>1. h = g => j # 1
        BY <3>1
      <4> QED
        BY <1>3, <4>1 DEF StdinInv
    <3> QED
      BY <1>1, <1>3, <3>1, <3>2 DEF Pending
  <2>2. ASSUME NEW h \in Gens, NEW k \in Gens,
               NEW i \in 1..Len(stdin'[h]), NEW j \in 1..Len(stdin'[k]),
               stdin'[h][i].exec, stdin'[k][j].exec, stdin'[h][i].by = stdin'[k][j].by
        PROVE  h = k /\ i = j
    <3>1. PICK x \in 1..Len(stdin[h]) : /\ stdin'[h][i] = stdin[h][x]
                                        /\ x = (IF h = g THEN i + 1 ELSE i)
      BY <1>10, <2>2
    <3>2. PICK y \in 1..Len(stdin[k]) : /\ stdin'[k][j] = stdin[k][y]
                                        /\ y = (IF k = g THEN j + 1 ELSE j)
      BY <1>10, <2>2
    <3>3. h = k /\ x = y
      BY <2>2, <3>1, <3>2 DEF StdinInv
    <3> QED
      BY <3>1, <3>2, <3>3
  <2> QED
    BY <2>1, <2>2 DEF StdinInv
<1>12. JobInv'
  <2>1. \A h \in Gens : h # g /\ job[h].exec /\ stdin[g][1].exec => job[h].by # stdin[g][1].by
    BY <1>5 DEF Pending
  <2> QED
    BY <1>1, <1>3, <1>4, <1>5, <2>1 DEF JobInv, Pending, PlainType
<1>13. WaitInv'
  BY <1>1, <1>3, <1>10 DEF WaitInv, Own
<1>14. MessageInv'
  <2>1. \A m \in Messages : Sound(m) => (Sound(m))'
    BY <1>1, <1>2, SoundFrame
  <2> QED
    BY <1>1, <2>1 DEF ChannelInv, MessageInv
<1> QED
  BY <1>6, <1>7, <1>8, <1>9, <1>11, <1>12, <1>13, <1>14

\* A worker dispatches the request it has taken.
LEMMA ApplyStep == ASSUME Inv, NEW g \in Gens, WorkerApply(g), UNCHANGED exited PROVE Inv'
<1> USE StopperAssumption DEF Inv, Threads
<1> DEFINE r == job[g].by
<1>1. /\ UNCHANGED <<execLock, ioLock, pc, handle, held, seq, myId, outcome, stdin, job, stdout,
                     reader, queue, exited>>
      /\ wst[g] = "work" /\ wst' = [wst EXCEPT ![g] = "answer"] /\ job[g].exec
      /\ applied' = [applied EXCEPT ![r] = @ + 1]
      /\ \/ session' = session \/ session' = [gen |-> g, restart |-> FALSE]
         \/ session' = [gen |-> 0, restart |-> FALSE]
  BY DEF WorkerApply, daemonVars
<1>2. r \in Requests /\ applied[r] = 0 /\ pc[r] \notin Before
  BY <1>1 DEF JobInv
<1>3. Onward
  BY <1>1 DEF Onward
<1>4. \A x \in Requests : applied'[x] = IF x = r THEN 1 ELSE applied[x]
  BY <1>1, <1>2 DEF PlainType
<1>5. PlainType'
  <2>1. session' \in [gen : Gens \cup {0}, restart : BOOLEAN]
    <3>1. /\ [gen |-> g, restart |-> FALSE] \in [gen : Gens \cup {0}, restart : BOOLEAN]
          /\ [gen |-> 0, restart |-> FALSE] \in [gen : Gens \cup {0}, restart : BOOLEAN]
      OBVIOUS
    <3>2. session \in [gen : Gens \cup {0}, restart : BOOLEAN]
      BY DEF PlainType
    <3> QED
      BY <1>1, <3>1, <3>2
  <2>2. applied' \in [Requests -> Nat]
    BY <1>1, <1>2 DEF PlainType
  <2> QED
    BY <1>1, <2>1, <2>2 DEF PlainType
<1>6. ChannelInv' /\ LockInv'
  BY <1>1 DEF ChannelInv, LockInv
<1>7. StdinInv'
  <2>1. \A h \in Gens : \A i \in 1..Len(stdin[h]) : (Pending(stdin[h][i]))'
    BY <1>1, <1>4 DEF StdinInv, Pending
  <2> QED
    BY <1>1, <2>1 DEF StdinInv
<1>8. JobInv'
  <2>1. \A h \in Gens : wst'[h] = IF h = g THEN "answer" ELSE wst[h]
    BY <1>1 DEF PlainType
  <2> QED
    BY <1>1, <1>2, <1>4, <2>1 DEF JobInv
<1>9. AppliedInv'
  BY <1>1, <1>2, <1>4 DEF AppliedInv, AppliedAtMostOnce
<1>10. WaitInv'
  BY <1>1, <1>3, WaitFrame
<1>11. MessageInv'
  <2>1. \A m \in Messages : Sound(m) => (Sound(m))'
    BY <1>1, <1>3, <1>4, SoundFrame
  <2> QED
    BY <1>1, <2>1 DEF ChannelInv, MessageInv
<1>12. OkMeansApplied'
  BY <1>1, <1>2, <1>4 DEF OkMeansApplied
<1> QED
  BY <1>5, <1>6, <1>7, <1>8, <1>9, <1>10, <1>11, <1>12

\* A worker answers the request it has taken, with success only after its
\* dispatch.
LEMMA AnswerStep == ASSUME Inv, NEW g \in Gens, WorkerAnswer(g), UNCHANGED exited PROVE Inv'
<1> USE StopperAssumption DEF Inv, Threads
<1>1. PICK ok \in BOOLEAN : /\ ok => wst[g] = "answer"
                            /\ stdout' = [stdout EXCEPT ![g] = Append(@, Answer(job[g].id, ok))]
  BY DEF WorkerAnswer
<1>2. /\ UNCHANGED <<execLock, ioLock, pc, handle, held, seq, myId, outcome, stdin, applied,
                     reader, queue, session, exited>>
      /\ job[g].exec /\ wst' = [wst EXCEPT ![g] = "idle"] /\ job' = [job EXCEPT ![g] = NoJob]
  BY DEF WorkerAnswer, daemonVars
<1>3. Onward
  BY <1>2 DEF Onward
<1>4. /\ job' \in [Gens -> Lines]
      /\ \A h \in Gens : job'[h] = IF h = g THEN NoJob ELSE job[h]
      /\ \A h \in Gens : wst'[h] = IF h = g THEN "idle" ELSE wst[h]
  BY <1>2, LineFacts DEF ChannelInv, PlainType
<1>5. PlainType'
  BY <1>2 DEF PlainType
<1>6. LockInv' /\ OkMeansApplied'
  BY <1>2 DEF LockInv, OkMeansApplied
<1>7. StdinInv'
  <2>1. \A h \in Gens : \A i \in 1..Len(stdin[h]) : (Pending(stdin[h][i]))'
    BY <1>2, <1>4, LineFacts DEF StdinInv, Pending
  <2> QED
    BY <1>2, <2>1 DEF StdinInv
<1>8. JobInv'
  BY <1>2, <1>4, LineFacts DEF JobInv, PlainType
<1>9. AppliedInv'
  BY <1>2, <1>3, AppliedFrame
<1>10. WaitInv'
  BY <1>2, <1>4, LineFacts DEF WaitInv, Own
<1>11. stdout' \in [Gens -> Seq(Messages)] /\ MessageInv'
  <2>1. PICK m \in Messages : /\ m.kind = "answer" /\ m.id = job[g].id /\ m.ok = ok
                              /\ stdout' = [stdout EXCEPT ![g] = Append(@, m)]
    <3>1. job[g].id \in Nat
      BY DEF ChannelInv, Lines
    <3> QED
      BY <1>1, <3>1, MessageFacts
  <2>2. job[g].id \in 0..seq /\ (ok => applied[job[g].by] = 1)
    BY <1>1, <1>2 DEF JobInv
  <2>3. \A r \in Requests : pc[r] = "wait" => Own(job[g], r)
    BY DEF WaitInv
  <2>4. Sound(m)
    BY <2>1, <2>2, <2>3 DEF Sound, Own
  <2>5. \A n \in Messages : Sound(n) => (Sound(n))'
    BY <1>2, <1>3, SoundFrame
  <2> QED
    BY <1>2, <2>1, <2>4, <2>5, StdoutAppend
<1> QED
  BY <1>2, <1>4, <1>5, <1>6, <1>7, <1>8, <1>9, <1>10, <1>11 DEF ChannelInv

\* A worker that ends takes its lines with it.
LEMMA EndStep ==
  ASSUME Inv, NEW g \in Gens, Dies(g), Onward, UNCHANGED <<seq, applied>>
  PROVE  /\ wst' \in [Gens -> {"none", "boot", "idle", "work", "answer", "dead"}]
         /\ stdin' \in [Gens -> Seq(Lines)] /\ job' \in [Gens -> Lines]
         /\ StdinInv' /\ JobInv' /\ WaitInv'
<1> USE DEF Inv
<1>1. /\ stdin' \in [Gens -> Seq(Lines)] /\ job' \in [Gens -> Lines]
      /\ wst' \in [Gens -> {"none", "boot", "idle", "work", "answer", "dead"}]
      /\ \A h \in Gens : /\ wst'[h] = IF h = g THEN "dead" ELSE wst[h]
                         /\ job'[h] = IF h = g THEN NoJob ELSE job[h]
                         /\ h # g => stdin'[h] = stdin[h]
                         /\ h = g => Len(stdin'[h]) = 0
  BY LineFacts DEF PlainType, ChannelInv, Dies
<1>2. \A h \in Gens : \A i \in 1..Len(stdin'[h]) :
        i \in 1..Len(stdin[h]) /\ stdin'[h][i] = stdin[h][i] /\ h # g
  BY <1>1
<1>3. /\ seq' = seq /\ applied' = applied
      /\ \A r \in Requests : pc[r] \notin Before => pc'[r] \notin Before
  BY DEF Onward
<1>4. \A h \in Gens : job'[h].exec => job'[h] = job[h] /\ h # g
  BY <1>1, LineFacts
<1>5. StdinInv'
  <2>1. ASSUME NEW h \in Gens, NEW i \in 1..Len(stdin'[h]) PROVE (Pending(stdin[h][i]))'
    <3>1. Pending(stdin[h][i]) /\ stdin'[h][i] = stdin[h][i]
      BY <1>2, <2>1 DEF StdinInv
    <3> QED
      BY <1>3, <1>4, <3>1 DEF Pending
  <2>2. ASSUME NEW h \in Gens, NEW k \in Gens,
               NEW i \in 1..Len(stdin'[h]), NEW j \in 1..Len(stdin'[k]),
               stdin'[h][i].exec, stdin'[k][j].exec, stdin'[h][i].by = stdin'[k][j].by
        PROVE  h = k /\ i = j
    <3>1. /\ i \in 1..Len(stdin[h]) /\ stdin[h][i].exec
          /\ j \in 1..Len(stdin[k]) /\ stdin[k][j].exec
          /\ stdin[h][i].by = stdin[k][j].by
      BY <1>2, <2>2
    <3> QED
      BY <3>1 DEF StdinInv
  <2> QED
    BY <2>1, <2>2 DEF StdinInv
<1>6. JobInv'
  <2>1. \A h \in Gens : wst'[h] \in {"work", "answer"} => job'[h] = job[h] /\ wst'[h] = wst[h]
    BY <1>1
  <2>2. \A h \in Gens : job'[h].id \in 0..seq
    <3>1. seq \in Nat /\ NoJob.id = 0 /\ \A h \in Gens : job[h].id \in 0..seq
      BY LineFacts DEF JobInv, PlainType
    <3> QED
      BY <1>1, <3>1
  <2>3. \A h \in Gens : job'[h].exec => wst'[h] = wst[h]
    BY <1>1, <1>4
  <2> QED
    BY <1>3, <1>4, <2>1, <2>2, <2>3 DEF JobInv
<1>7. WaitInv'
  <2> SUFFICES ASSUME NEW r \in Requests, pc'[r] = "wait"
               PROVE  /\ myId'[r] # 0
                      /\ \A h \in Gens : /\ \A i \in 1..Len(stdin'[h]) : (Own(stdin[h][i], r))'
                                         /\ (Own(job[h], r))'
    BY DEF WaitInv
  <2>1. pc[r] = "wait" /\ myId'[r] = myId[r] /\ myId[r] # 0
    BY DEF Onward, WaitInv
  <2>2. \A h \in Gens : (Own(job[h], r))'
    BY <1>1, <2>1, LineFacts DEF WaitInv, Own
  <2> QED
    BY <1>2, <2>1, <2>2 DEF WaitInv, Own
<1> QED
  BY <1>1, <1>5, <1>6, <1>7

\* A worker is killed, or is not, by a stop.
LEMMA KillStep == ASSUME Inv, NEW t \in Threads, StopKill(t), UNCHANGED exited PROVE Inv'
<1> USE StopperAssumption DEF Inv, Threads
<1>1. /\ pc[t] = "stopExit" /\ pc' = [pc EXCEPT ![t] = "stopDrop"]
      /\ UNCHANGED <<execLock, ioLock, handle, held, seq, myId, outcome, stdout, applied,
                     reader, queue, session, exited>>
  BY DEF StopKill, Goto
<1>2. Onward
  BY <1>1 DEF Onward, PlainType, Before
<1>3. /\ wst' \in [Gens -> {"none", "boot", "idle", "work", "answer", "dead"}]
      /\ stdin' \in [Gens -> Seq(Lines)] /\ job' \in [Gens -> Lines]
      /\ StdinInv' /\ JobInv' /\ WaitInv'
  <2>1. held[t] \in Gens
    BY DEF StopKill, Alive, PlainType
  <2>2. CASE Dies(held[t])
    BY <1>1, <1>2, <2>1, <2>2, EndStep
  <2>3. CASE UNCHANGED <<wst, stdin, job>>
    BY <1>1, <1>2, <2>3, StdinFrame, JobFrame, WaitFrame DEF PlainType, ChannelInv
  <2> QED
    BY <2>2, <2>3 DEF StopKill
<1>4. PlainType'
  BY <1>1, <1>3 DEF PlainType, PCs, ExecSites, StopSites
<1>5. LockInv'
  BY <1>1 DEF LockInv, PlainType, StopSites
<1>6. AppliedInv'
  BY <1>1, <1>2, AppliedFrame
<1>7. MessageInv'
  <2>1. \A m \in Messages : Sound(m) => (Sound(m))'
    BY <1>1, <1>2, SoundFrame
  <2> QED
    BY <1>1, <2>1 DEF ChannelInv, MessageInv
<1>8. ChannelInv' /\ OkMeansApplied'
  BY <1>1, <1>3 DEF ChannelInv, OkMeansApplied
<1> QED
  BY <1>3, <1>4, <1>5, <1>6, <1>7, <1>8

\* A worker ends by itself.
LEMMA CrashStep ==
  ASSUME Inv, NEW g \in Gens, Dies(g),
         UNCHANGED <<daemonVars, applied, reader, queue, session, exited>>,
         stdout' \in [Gens -> Seq(Messages)], MessageInv'
  PROVE  Inv'
<1> USE StopperAssumption DEF Inv, Threads
<1>1. UNCHANGED <<execLock, ioLock, pc, handle, held, seq, myId, outcome, applied, reader, queue,
                  session, exited>>
  BY DEF daemonVars
<1>2. Onward
  BY <1>1 DEF Onward
<1>3. /\ wst' \in [Gens -> {"none", "boot", "idle", "work", "answer", "dead"}]
      /\ stdin' \in [Gens -> Seq(Lines)] /\ job' \in [Gens -> Lines]
      /\ StdinInv' /\ JobInv' /\ WaitInv'
  BY <1>1, <1>2, EndStep
<1>4. PlainType'
  BY <1>1, <1>3 DEF PlainType
<1>5. LockInv' /\ OkMeansApplied'
  BY <1>1 DEF LockInv, OkMeansApplied
<1>6. AppliedInv'
  BY <1>1, <1>2, AppliedFrame
<1> QED
  BY <1>1, <1>3, <1>4, <1>5, <1>6 DEF ChannelInv

\* A worker whose output is what it was.
LEMMA SilentStep ==
  ASSUME Inv, NEW g \in Gens, Dies(g),
         UNCHANGED <<daemonVars, stdout, applied, reader, queue, session, exited>>
  PROVE  Inv'
<1>1. UNCHANGED <<seq, applied, pc, myId, stdout, queue>>
  BY DEF daemonVars
<1>2. \A m \in Messages : Sound(m) => (Sound(m))'
  BY <1>1, SoundFrame DEF Onward
<1>3. stdout' \in [Gens -> Seq(Messages)] /\ MessageInv'
  BY <1>1, <1>2 DEF Inv, ChannelInv, MessageInv
<1>4. UNCHANGED <<daemonVars, applied, reader, queue, session, exited>>
  OBVIOUS
<1> QED
  BY <1>3, <1>4, CrashStep

\* A worker answers a shutdown, which no exec request waits for, and ends.
LEMMA ShutdownStep == ASSUME Inv, NEW g \in Gens, WorkerShutdown(g), UNCHANGED exited PROVE Inv'
<1> USE StopperAssumption DEF Inv, Threads
<1>1. /\ wst[g] = "work" /\ ~job[g].exec /\ Dies(g)
      /\ UNCHANGED <<daemonVars, applied, reader, queue, session, exited>>
      /\ stdout' = [stdout EXCEPT ![g] = Append(@, Answer(job[g].id, TRUE))]
  BY DEF WorkerShutdown
<1>2. Onward
  BY <1>1 DEF Onward, daemonVars
<1>3. PICK m \in Messages : /\ m.kind = "answer" /\ m.id = job[g].id
                            /\ stdout' = [stdout EXCEPT ![g] = Append(@, m)]
  <2>1. job[g].id \in Nat
    BY DEF ChannelInv, Lines
  <2> QED
    BY <1>1, <2>1, MessageFacts
<1>4. job[g].id \in 0..seq
  BY DEF JobInv
<1>5. \A r \in Requests : pc[r] = "wait" => Own(job[g], r)
  BY DEF WaitInv
<1>6. Sound(m)
  BY <1>1, <1>3, <1>4, <1>5 DEF Sound, Own
<1>7. \A n \in Messages : Sound(n) => (Sound(n))'
  BY <1>1, <1>2, SoundFrame DEF daemonVars
<1>8. stdout' \in [Gens -> Seq(Messages)] /\ MessageInv'
  BY <1>1, <1>3, <1>6, <1>7, StdoutAppend
<1> QED
  BY <1>1, <1>8, CrashStep

---------------------------------------------------------------------------
\* Every action keeps the invariant; conjuncts that speak of no variable an
\* action changes are taken together.
LEMMA StepInv == Inv /\ [Next]_vars => Inv'
<1> SUFFICES ASSUME Inv, [Next]_vars PROVE Inv'
  OBVIOUS
<1> USE StopperAssumption, MaxGenAssumption DEF Inv, Threads
<1>1. ASSUME NEW r \in Requests, ExecBegin(r), UNCHANGED exited PROVE Inv'
  <2>1. Onward
    BY <1>1 DEF ExecBegin, Goto, PlainType, LockInv, Onward, Before
  <2>2. PlainType'
    BY <1>1 DEF ExecBegin, Goto, workerVars, PCs, ExecSites, StopSites, PlainType
  <2>3. LockInv'
    BY <1>1 DEF ExecBegin, Goto, workerVars, PlainType, StopSites, LockInv
  <2>4. StdinInv'
    BY <1>1, <2>1, StdinFrame DEF ExecBegin, workerVars
  <2>5. JobInv'
    BY <1>1, <2>1, JobFrame DEF ExecBegin, workerVars
  <2>6. AppliedInv'
    BY <1>1, <2>1, AppliedFrame DEF ExecBegin, workerVars
  <2>7. WaitInv'
    BY <1>1, <2>1, WaitFrame DEF ExecBegin, workerVars
  <2>8. MessageInv'
    <3>1. \A m \in Messages : Sound(m) => (Sound(m))'
      BY <1>1, <2>1, SoundFrame DEF ExecBegin, workerVars
    <3> QED
      BY <1>1, <3>1 DEF ExecBegin, workerVars, ChannelInv, MessageInv
  <2>9. ChannelInv' /\ OkMeansApplied'
    BY <1>1 DEF ExecBegin, Goto, workerVars, ChannelInv, OkMeansApplied
  <2> QED
    BY <2>1, <2>2, <2>3, <2>4, <2>5, <2>6, <2>7, <2>8, <2>9
<1>2. ASSUME NEW r \in Requests, EnsureCheck(r), UNCHANGED exited PROVE Inv'
  <2>1. Onward
    BY <1>2 DEF EnsureCheck, Goto, IsRunning, Quarantine, PlainType, LockInv, Onward, Before
  <2>2. PlainType'
    BY <1>2
       DEF EnsureCheck, Goto, IsRunning, Quarantine, workerVars, PCs, ExecSites,
           StopSites, PlainType
  <2>3. LockInv'
    BY <1>2 DEF EnsureCheck, Goto, IsRunning, Quarantine, workerVars, PlainType, StopSites, LockInv
  <2>4. StdinInv'
    BY <1>2, <2>1, StdinFrame DEF EnsureCheck, workerVars
  <2>5. JobInv'
    BY <1>2, <2>1, JobFrame DEF EnsureCheck, workerVars
  <2>6. AppliedInv'
    BY <1>2, <2>1, AppliedFrame DEF EnsureCheck, workerVars
  <2>7. WaitInv'
    BY <1>2, <2>1, WaitFrame DEF EnsureCheck, workerVars
  <2>8. MessageInv'
    <3>1. \A m \in Messages : Sound(m) => (Sound(m))'
      BY <1>2, <2>1, SoundFrame DEF EnsureCheck, workerVars
    <3> QED
      BY <1>2, <3>1 DEF EnsureCheck, workerVars, ChannelInv, MessageInv
  <2>9. ChannelInv' /\ OkMeansApplied'
    BY <1>2 DEF EnsureCheck, Goto, IsRunning, Quarantine, workerVars, ChannelInv, OkMeansApplied
  <2> QED
    BY <2>1, <2>2, <2>3, <2>4, <2>5, <2>6, <2>7, <2>8, <2>9
<1>3. ASSUME NEW r \in Requests, EnsureStarted(r), UNCHANGED exited PROVE Inv'
  <2>1. Onward
    BY <1>3 DEF EnsureStarted, Goto, IsRunning, PlainType, LockInv, Onward, Before
  <2>2. PlainType'
    BY <1>3 DEF EnsureStarted, Goto, IsRunning, workerVars, PCs, ExecSites, StopSites, PlainType
  <2>3. LockInv'
    BY <1>3 DEF EnsureStarted, Goto, IsRunning, workerVars, PlainType, StopSites, LockInv
  <2>4. StdinInv'
    BY <1>3, <2>1, StdinFrame DEF EnsureStarted, workerVars
  <2>5. JobInv'
    BY <1>3, <2>1, JobFrame DEF EnsureStarted, workerVars
  <2>6. AppliedInv'
    BY <1>3, <2>1, AppliedFrame DEF EnsureStarted, workerVars
  <2>7. WaitInv'
    BY <1>3, <2>1, WaitFrame DEF EnsureStarted, workerVars
  <2>8. MessageInv'
    <3>1. \A m \in Messages : Sound(m) => (Sound(m))'
      BY <1>3, <2>1, SoundFrame DEF EnsureStarted, workerVars
    <3> QED
      BY <1>3, <3>1 DEF EnsureStarted, workerVars, ChannelInv, MessageInv
  <2>9. ChannelInv' /\ OkMeansApplied'
    BY <1>3 DEF EnsureStarted, Goto, IsRunning, workerVars, ChannelInv, OkMeansApplied
  <2> QED
    BY <2>1, <2>2, <2>3, <2>4, <2>5, <2>6, <2>7, <2>8, <2>9
<1>4. ASSUME NEW r \in Requests, Spawn(r), UNCHANGED exited PROVE Inv'
  <2>1. Onward
    BY <1>4 DEF Spawn, Goto, PlainType, LockInv, Onward, Before
  <2>2. PlainType'
    BY <1>4 DEF Spawn, Goto, PCs, ExecSites, StopSites, PlainType
  <2>3. ChannelInv'
    BY <1>4 DEF Spawn, Goto, PlainType, ChannelInv
  <2>4. LockInv'
    BY <1>4 DEF Spawn, Goto, PlainType, StopSites, LockInv
  <2>5. StdinInv'
    BY <1>4, <2>1, StdinFrame DEF Spawn
  <2>6. JobInv'
    BY <1>4 DEF Spawn, Goto, PlainType, Before, JobInv
  <2>7. AppliedInv'
    BY <1>4, <2>1, AppliedFrame DEF Spawn
  <2>8. WaitInv'
    BY <1>4, <2>1, WaitFrame DEF Spawn
  <2>9. MessageInv'
    <3>1. \A m \in Messages : Sound(m) => (Sound(m))'
      BY <1>4, <2>1, SoundFrame DEF Spawn
    <3> QED
      BY <1>4, <3>1 DEF Spawn, ChannelInv, MessageInv
  <2>10. OkMeansApplied'
    BY <1>4 DEF Spawn, Goto, OkMeansApplied
  <2> QED
    BY <2>1, <2>2, <2>3, <2>4, <2>5, <2>6, <2>7, <2>8, <2>9, <2>10
<1>5. ASSUME NEW r \in Requests, SpawnFails(r), UNCHANGED exited PROVE Inv'
  <2>1. Onward
    BY <1>5 DEF SpawnFails, Goto, PlainType, LockInv, Onward, Before
  <2>2. PlainType'
    BY <1>5 DEF SpawnFails, Goto, workerVars, PCs, ExecSites, StopSites, PlainType
  <2>3. LockInv'
    BY <1>5 DEF SpawnFails, Goto, workerVars, PlainType, StopSites, LockInv
  <2>4. StdinInv'
    BY <1>5, <2>1, StdinFrame DEF SpawnFails, workerVars
  <2>5. JobInv'
    BY <1>5, <2>1, JobFrame DEF SpawnFails, workerVars
  <2>6. AppliedInv'
    BY <1>5, <2>1, AppliedFrame DEF SpawnFails, workerVars
  <2>7. WaitInv'
    BY <1>5, <2>1, WaitFrame DEF SpawnFails, workerVars
  <2>8. MessageInv'
    <3>1. \A m \in Messages : Sound(m) => (Sound(m))'
      BY <1>5, <2>1, SoundFrame DEF SpawnFails, workerVars
    <3> QED
      BY <1>5, <3>1 DEF SpawnFails, workerVars, ChannelInv, MessageInv
  <2>9. OkMeansApplied'
    BY <1>5
       DEF SpawnFails, Goto, workerVars, PlainType, ChannelInv, StopSites, LockInv,
           Before, JobInv, Sound, MessageInv, OkMeansApplied
  <2>10. ChannelInv'
    BY <1>5 DEF SpawnFails, Goto, workerVars, ChannelInv
  <2> QED
    BY <2>1, <2>2, <2>3, <2>4, <2>5, <2>6, <2>7, <2>8, <2>9, <2>10
<1>6. ASSUME NEW r \in Requests, AwaitReady(r), UNCHANGED exited PROVE Inv'
  <2>1. Onward
    BY <1>6 DEF AwaitReady, Goto, PlainType, LockInv, Onward, Before
  <2>2. PlainType'
    BY <1>6 DEF AwaitReady, Goto, workerVars, PCs, ExecSites, StopSites, PlainType
  <2>3. ChannelInv'
    BY <1>6 DEF AwaitReady, Goto, workerVars, PlainType, ChannelInv
  <2>4. LockInv'
    BY <1>6 DEF AwaitReady, Goto, workerVars, PlainType, StopSites, LockInv
  <2>5. StdinInv'
    BY <1>6, <2>1, StdinFrame DEF AwaitReady, workerVars
  <2>6. JobInv'
    BY <1>6, <2>1, JobFrame DEF AwaitReady, workerVars
  <2>7. AppliedInv'
    BY <1>6, <2>1, AppliedFrame DEF AwaitReady, workerVars
  <2>8. WaitInv'
    BY <1>6, <2>1, WaitFrame DEF AwaitReady, workerVars
  <2>9. MessageInv'
    <3>1. \A m \in Messages : Sound(m) => (Sound(m))'
      BY <1>6, <2>1, SoundFrame DEF AwaitReady, workerVars
    <3> QED
      BY <1>6, <3>1, TailFacts DEF AwaitReady, workerVars, ChannelInv, MessageInv
  <2>10. OkMeansApplied'
    BY <1>6
       DEF AwaitReady, Goto, workerVars, PlainType, ChannelInv, StopSites, LockInv,
           Before, JobInv, Sound, MessageInv, OkMeansApplied
  <2> QED
    BY <2>1, <2>2, <2>3, <2>4, <2>5, <2>6, <2>7, <2>8, <2>9, <2>10
<1>7. ASSUME NEW r \in Requests, AwaitTimeout(r), UNCHANGED exited PROVE Inv'
  <2>1. Onward
    BY <1>7 DEF AwaitTimeout, Goto, PlainType, LockInv, Onward, Before
  <2>2. PlainType'
    BY <1>7 DEF AwaitTimeout, Goto, workerVars, PCs, ExecSites, StopSites, PlainType
  <2>3. LockInv'
    BY <1>7 DEF AwaitTimeout, Goto, workerVars, PlainType, StopSites, LockInv
  <2>4. StdinInv'
    BY <1>7, <2>1, StdinFrame DEF AwaitTimeout, workerVars
  <2>5. JobInv'
    BY <1>7, <2>1, JobFrame DEF AwaitTimeout, workerVars
  <2>6. AppliedInv'
    BY <1>7, <2>1, AppliedFrame DEF AwaitTimeout, workerVars
  <2>7. WaitInv'
    BY <1>7, <2>1, WaitFrame DEF AwaitTimeout, workerVars
  <2>8. MessageInv'
    <3>1. \A m \in Messages : Sound(m) => (Sound(m))'
      BY <1>7, <2>1, SoundFrame DEF AwaitTimeout, workerVars
    <3> QED
      BY <1>7, <3>1 DEF AwaitTimeout, workerVars, ChannelInv, MessageInv
  <2>9. OkMeansApplied'
    BY <1>7
       DEF AwaitTimeout, Goto, workerVars, PlainType, ChannelInv, StopSites, LockInv,
           Before, JobInv, Sound, MessageInv, OkMeansApplied
  <2>10. ChannelInv'
    BY <1>7 DEF AwaitTimeout, Goto, workerVars, ChannelInv
  <2> QED
    BY <2>1, <2>2, <2>3, <2>4, <2>5, <2>6, <2>7, <2>8, <2>9, <2>10
<1>8. ASSUME NEW r \in Requests, ExecFailed(r), UNCHANGED exited PROVE Inv'
  <2>1. Onward
    BY <1>8 DEF ExecFailed, Goto, PlainType, LockInv, Onward, Before
  <2>2. PlainType'
    BY <1>8 DEF ExecFailed, Goto, workerVars, PCs, ExecSites, StopSites, PlainType
  <2>3. LockInv'
    BY <1>8 DEF ExecFailed, Goto, workerVars, PlainType, StopSites, LockInv
  <2>4. StdinInv'
    BY <1>8, <2>1, StdinFrame DEF ExecFailed, workerVars
  <2>5. JobInv'
    BY <1>8, <2>1, JobFrame DEF ExecFailed, workerVars
  <2>6. AppliedInv'
    BY <1>8, <2>1, AppliedFrame DEF ExecFailed, workerVars
  <2>7. WaitInv'
    BY <1>8, <2>1, WaitFrame DEF ExecFailed, workerVars
  <2>8. MessageInv'
    <3>1. \A m \in Messages : Sound(m) => (Sound(m))'
      BY <1>8, <2>1, SoundFrame DEF ExecFailed, workerVars
    <3> QED
      BY <1>8, <3>1 DEF ExecFailed, workerVars, ChannelInv, MessageInv
  <2>9. ChannelInv' /\ OkMeansApplied'
    BY <1>8 DEF ExecFailed, Goto, workerVars, ChannelInv, OkMeansApplied
  <2> QED
    BY <2>1, <2>2, <2>3, <2>4, <2>5, <2>6, <2>7, <2>8, <2>9
<1>9. ASSUME NEW r \in Requests, MarkFailed(r), UNCHANGED exited PROVE Inv'
  <2>1. Onward
    BY <1>9 DEF MarkFailed, Goto, Quarantine, PlainType, LockInv, Onward, Before
  <2>2. PlainType'
    BY <1>9 DEF MarkFailed, Goto, Quarantine, workerVars, PCs, ExecSites, StopSites, PlainType
  <2>3. LockInv'
    BY <1>9 DEF MarkFailed, Goto, Quarantine, workerVars, PlainType, StopSites, LockInv
  <2>4. StdinInv'
    BY <1>9, <2>1, StdinFrame DEF MarkFailed, workerVars
  <2>5. JobInv'
    BY <1>9, <2>1, JobFrame DEF MarkFailed, workerVars
  <2>6. AppliedInv'
    BY <1>9, <2>1, AppliedFrame DEF MarkFailed, workerVars
  <2>7. WaitInv'
    BY <1>9, <2>1, WaitFrame DEF MarkFailed, workerVars
  <2>8. MessageInv'
    <3>1. \A m \in Messages : Sound(m) => (Sound(m))'
      BY <1>9, <2>1, SoundFrame DEF MarkFailed, workerVars
    <3> QED
      BY <1>9, <3>1 DEF MarkFailed, workerVars, ChannelInv, MessageInv
  <2>9. OkMeansApplied'
    BY <1>9
       DEF MarkFailed, Goto, Quarantine, workerVars, PlainType, ChannelInv, StopSites,
           LockInv, Before, JobInv, Sound, MessageInv, OkMeansApplied
  <2>10. ChannelInv'
    BY <1>9 DEF MarkFailed, Goto, Quarantine, workerVars, ChannelInv
  <2> QED
    BY <2>1, <2>2, <2>3, <2>4, <2>5, <2>6, <2>7, <2>8, <2>9, <2>10
<1>10. ASSUME NEW r \in Requests, ExecFinish(r), UNCHANGED exited PROVE Inv'
  <2>1. Onward
    BY <1>10 DEF ExecFinish, Goto, PlainType, LockInv, Onward, Before
  <2>2. PlainType'
    BY <1>10 DEF ExecFinish, Goto, workerVars, PCs, ExecSites, StopSites, PlainType
  <2>3. LockInv'
    BY <1>10 DEF ExecFinish, Goto, workerVars, PlainType, StopSites, LockInv
  <2>4. StdinInv'
    BY <1>10, <2>1, StdinFrame DEF ExecFinish, workerVars
  <2>5. JobInv'
    BY <1>10, <2>1, JobFrame DEF ExecFinish, workerVars
  <2>6. AppliedInv'
    BY <1>10, <2>1, AppliedFrame DEF ExecFinish, workerVars
  <2>7. WaitInv'
    BY <1>10, <2>1, WaitFrame DEF ExecFinish, workerVars
  <2>8. MessageInv'
    <3>1. \A m \in Messages : Sound(m) => (Sound(m))'
      BY <1>10, <2>1, SoundFrame DEF ExecFinish, workerVars
    <3> QED
      BY <1>10, <3>1 DEF ExecFinish, workerVars, ChannelInv, MessageInv
  <2>9. ChannelInv' /\ OkMeansApplied'
    BY <1>10 DEF ExecFinish, Goto, workerVars, ChannelInv, OkMeansApplied
  <2> QED
    BY <2>1, <2>2, <2>3, <2>4, <2>5, <2>6, <2>7, <2>8, <2>9
<1>11. ASSUME NEW t \in Threads, LockIo(t), UNCHANGED exited PROVE Inv'
  <2>1. Onward
    BY <1>11 DEF LockIo, Goto, PlainType, LockInv, Onward, Before
  <2>2. PlainType'
    BY <1>11 DEF LockIo, Goto, workerVars, PCs, ExecSites, StopSites, PlainType
  <2>3. LockInv'
    BY <1>11 DEF LockIo, Goto, workerVars, PlainType, StopSites, LockInv
  <2>4. StdinInv'
    BY <1>11, <2>1, StdinFrame DEF LockIo, workerVars
  <2>5. JobInv'
    BY <1>11, <2>1, JobFrame DEF LockIo, workerVars
  <2>6. AppliedInv'
    BY <1>11, <2>1, AppliedFrame DEF LockIo, workerVars
  <2>7. WaitInv'
    BY <1>11, <2>1, WaitFrame DEF LockIo, workerVars
  <2>8. MessageInv'
    <3>1. \A m \in Messages : Sound(m) => (Sound(m))'
      BY <1>11, <2>1, SoundFrame DEF LockIo, workerVars
    <3> QED
      BY <1>11, <3>1 DEF LockIo, workerVars, ChannelInv, MessageInv
  <2>9. ChannelInv' /\ OkMeansApplied'
    BY <1>11 DEF LockIo, Goto, workerVars, ChannelInv, OkMeansApplied
  <2> QED
    BY <2>1, <2>2, <2>3, <2>4, <2>5, <2>6, <2>7, <2>8, <2>9
<1>12. ASSUME NEW t \in Threads, Write(t), UNCHANGED exited PROVE Inv'
  BY <1>12, WriteStep
<1>13. ASSUME NEW t \in Threads, Receive(t), UNCHANGED exited PROVE Inv'
  <2>1. Onward
    BY <1>13 DEF Receive, Goto, OwnAnswer, AfterFailure, PlainType, LockInv, Onward, Before
  <2>2. PlainType'
    <3>1. /\ ioLock' \in {ioLock, None}
          /\ outcome' = outcome \/ outcome' = [outcome EXCEPT ![t] = "ok"]
          /\ \/ pc' = pc
             \/ \E l \in {"finish", "failed", "stopExit"} : pc' = [pc EXCEPT ![t] = l]
          /\ UNCHANGED <<execLock, handle, held, seq, myId, wst, applied, reader, session, exited>>
      BY <1>13 DEF Receive, Goto, AfterFailure, workerVars
    <3> QED
      BY <3>1 DEF PlainType, PCs, ExecSites, StopSites
  <2>3. ChannelInv'
    BY <1>13, MessageFacts
       DEF Receive, Goto, OwnAnswer, AfterFailure, workerVars, PlainType, ChannelInv
  <2>4. LockInv'
    BY <1>13, MessageFacts
       DEF Receive, Goto, OwnAnswer, AfterFailure, workerVars, PlainType, StopSites,
           LockInv
  <2>5. StdinInv'
    BY <1>13, <2>1, StdinFrame DEF Receive, workerVars
  <2>6. JobInv'
    BY <1>13, <2>1, JobFrame DEF Receive, workerVars
  <2>7. AppliedInv'
    BY <1>13, <2>1, AppliedFrame DEF Receive, workerVars
  <2>8. WaitInv'
    BY <1>13, <2>1, WaitFrame DEF Receive, workerVars
  <2>9. MessageInv'
    <3>1. \A m \in Messages : Sound(m) => (Sound(m))'
      BY <1>13, <2>1, SoundFrame DEF Receive, workerVars
    <3> QED
      BY <1>13, <3>1, TailFacts DEF Receive, workerVars, ChannelInv, MessageInv
  <2>10. OkMeansApplied'
    <3>1. CASE UNCHANGED outcome
      BY <1>13, <3>1 DEF Receive, workerVars, OkMeansApplied
    <3>2. CASE /\ OwnAnswer(t, Head(queue)) /\ Head(queue).ok /\ pc[t] = "wait"
               /\ outcome' = [outcome EXCEPT ![t] = "ok"]
      <4>1. t \in Requests
        BY <3>2 DEF LockInv, StopSites
      <4>2. queue # <<>> /\ UNCHANGED applied
        BY <1>13 DEF Receive, workerVars
      <4>3. Sound(Head(queue))
        BY <4>2, TailFacts DEF ChannelInv, MessageInv
      <4>4. applied[t] = 1
        BY <3>2, <4>1, <4>3 DEF Sound, OwnAnswer
      <4> QED
        BY <3>2, <4>2, <4>4 DEF OkMeansApplied, PlainType
    <3> QED
      BY <1>13, <3>1, <3>2 DEF Receive
  <2> QED
    BY <2>1, <2>2, <2>3, <2>4, <2>5, <2>6, <2>7, <2>8, <2>9, <2>10
<1>14. ASSUME NEW t \in Threads, ReceiveTimeout(t), UNCHANGED exited PROVE Inv'
  <2>1. Onward
    BY <1>14 DEF ReceiveTimeout, Goto, AfterFailure, PlainType, LockInv, Onward, Before
  <2>2. PlainType'
    BY <1>14
       DEF ReceiveTimeout, Goto, AfterFailure, workerVars, PCs, ExecSites, StopSites,
           PlainType
  <2>3. LockInv'
    BY <1>14 DEF ReceiveTimeout, Goto, AfterFailure, workerVars, PlainType, StopSites, LockInv
  <2>4. StdinInv'
    BY <1>14, <2>1, StdinFrame DEF ReceiveTimeout, workerVars
  <2>5. JobInv'
    BY <1>14, <2>1, JobFrame DEF ReceiveTimeout, workerVars
  <2>6. AppliedInv'
    BY <1>14, <2>1, AppliedFrame DEF ReceiveTimeout, workerVars
  <2>7. WaitInv'
    BY <1>14, <2>1, WaitFrame DEF ReceiveTimeout, workerVars
  <2>8. MessageInv'
    <3>1. \A m \in Messages : Sound(m) => (Sound(m))'
      BY <1>14, <2>1, SoundFrame DEF ReceiveTimeout, workerVars
    <3> QED
      BY <1>14, <3>1 DEF ReceiveTimeout, workerVars, ChannelInv, MessageInv
  <2>9. ChannelInv' /\ OkMeansApplied'
    BY <1>14 DEF ReceiveTimeout, Goto, AfterFailure, workerVars, ChannelInv, OkMeansApplied
  <2> QED
    BY <2>1, <2>2, <2>3, <2>4, <2>5, <2>6, <2>7, <2>8, <2>9
<1>15. ASSUME NEW t \in Threads, StopCapture(t), UNCHANGED exited PROVE Inv'
  <2>1. Onward
    BY <1>15 DEF StopCapture, Goto, AfterStop, PlainType, LockInv, Onward, Before
  <2>2. PlainType'
    BY <1>15 DEF StopCapture, Goto, AfterStop, workerVars, PCs, ExecSites, StopSites, PlainType
  <2>3. LockInv'
    BY <1>15 DEF StopCapture, Goto, AfterStop, workerVars, PlainType, StopSites, LockInv
  <2>4. StdinInv'
    BY <1>15, <2>1, StdinFrame DEF StopCapture, workerVars
  <2>5. JobInv'
    BY <1>15, <2>1, JobFrame DEF StopCapture, workerVars
  <2>6. AppliedInv'
    BY <1>15, <2>1, AppliedFrame DEF StopCapture, workerVars
  <2>7. WaitInv'
    BY <1>15, <2>1, WaitFrame DEF StopCapture, workerVars
  <2>8. MessageInv'
    <3>1. \A m \in Messages : Sound(m) => (Sound(m))'
      BY <1>15, <2>1, SoundFrame DEF StopCapture, workerVars
    <3> QED
      BY <1>15, <3>1 DEF StopCapture, workerVars, ChannelInv, MessageInv
  <2>9. ChannelInv' /\ OkMeansApplied'
    BY <1>15 DEF StopCapture, Goto, AfterStop, workerVars, ChannelInv, OkMeansApplied
  <2> QED
    BY <2>1, <2>2, <2>3, <2>4, <2>5, <2>6, <2>7, <2>8, <2>9
<1>16. ASSUME NEW t \in Threads, StopExited(t), UNCHANGED exited PROVE Inv'
  <2>1. Onward
    BY <1>16 DEF StopExited, Goto, PlainType, LockInv, Onward, Before
  <2>2. PlainType'
    BY <1>16 DEF StopExited, Goto, workerVars, PCs, ExecSites, StopSites, PlainType
  <2>3. LockInv'
    BY <1>16 DEF StopExited, Goto, workerVars, PlainType, StopSites, LockInv
  <2>4. StdinInv'
    BY <1>16, <2>1, StdinFrame DEF StopExited, workerVars
  <2>5. JobInv'
    BY <1>16, <2>1, JobFrame DEF StopExited, workerVars
  <2>6. AppliedInv'
    BY <1>16, <2>1, AppliedFrame DEF StopExited, workerVars
  <2>7. WaitInv'
    BY <1>16, <2>1, WaitFrame DEF StopExited, workerVars
  <2>8. MessageInv'
    <3>1. \A m \in Messages : Sound(m) => (Sound(m))'
      BY <1>16, <2>1, SoundFrame DEF StopExited, workerVars
    <3> QED
      BY <1>16, <3>1 DEF StopExited, workerVars, ChannelInv, MessageInv
  <2>9. ChannelInv' /\ OkMeansApplied'
    BY <1>16 DEF StopExited, Goto, workerVars, ChannelInv, OkMeansApplied
  <2> QED
    BY <2>1, <2>2, <2>3, <2>4, <2>5, <2>6, <2>7, <2>8, <2>9
<1>17. ASSUME NEW t \in Threads, StopKill(t), UNCHANGED exited PROVE Inv'
  BY <1>17, KillStep
<1>18. ASSUME NEW t \in Threads, StopDrop(t), UNCHANGED exited PROVE Inv'
  <2>1. Onward
    BY <1>18 DEF StopDrop, Goto, AfterStop, PlainType, LockInv, Onward, Before
  <2>2. PlainType'
    BY <1>18 DEF StopDrop, Goto, AfterStop, workerVars, PCs, ExecSites, StopSites, PlainType
  <2>3. LockInv'
    BY <1>18 DEF StopDrop, Goto, AfterStop, workerVars, PlainType, StopSites, LockInv
  <2>4. StdinInv'
    BY <1>18, <2>1, StdinFrame DEF StopDrop, workerVars
  <2>5. JobInv'
    BY <1>18, <2>1, JobFrame DEF StopDrop, workerVars
  <2>6. AppliedInv'
    BY <1>18, <2>1, AppliedFrame DEF StopDrop, workerVars
  <2>7. WaitInv'
    BY <1>18, <2>1, WaitFrame DEF StopDrop, workerVars
  <2>8. MessageInv'
    <3>1. \A m \in Messages : Sound(m) => (Sound(m))'
      BY <1>18, <2>1, SoundFrame DEF StopDrop, workerVars
    <3> QED
      BY <1>18, <3>1 DEF StopDrop, workerVars, ChannelInv, MessageInv
  <2>9. ChannelInv' /\ OkMeansApplied'
    BY <1>18 DEF StopDrop, Goto, AfterStop, workerVars, ChannelInv, OkMeansApplied
  <2> QED
    BY <2>1, <2>2, <2>3, <2>4, <2>5, <2>6, <2>7, <2>8, <2>9
<1>19. ASSUME StopBegin, UNCHANGED exited PROVE Inv'
  <2>1. Onward
    BY <1>19 DEF StopBegin, Goto, PlainType, LockInv, Onward, Before
  <2>2. PlainType'
    BY <1>19 DEF StopBegin, Goto, workerVars, PCs, ExecSites, StopSites, PlainType
  <2>3. LockInv'
    BY <1>19 DEF StopBegin, Goto, workerVars, PlainType, StopSites, LockInv
  <2>4. StdinInv'
    BY <1>19, <2>1, StdinFrame DEF StopBegin, workerVars
  <2>5. JobInv'
    BY <1>19, <2>1, JobFrame DEF StopBegin, workerVars
  <2>6. AppliedInv'
    BY <1>19, <2>1, AppliedFrame DEF StopBegin, workerVars
  <2>7. WaitInv'
    BY <1>19, <2>1, WaitFrame DEF StopBegin, workerVars
  <2>8. MessageInv'
    <3>1. \A m \in Messages : Sound(m) => (Sound(m))'
      BY <1>19, <2>1, SoundFrame DEF StopBegin, workerVars
    <3> QED
      BY <1>19, <3>1 DEF StopBegin, workerVars, ChannelInv, MessageInv
  <2>9. ChannelInv' /\ OkMeansApplied'
    BY <1>19 DEF StopBegin, Goto, workerVars, ChannelInv, OkMeansApplied
  <2> QED
    BY <2>1, <2>2, <2>3, <2>4, <2>5, <2>6, <2>7, <2>8, <2>9
<1>20. ASSUME NEW g \in Gens, Pump(g), UNCHANGED exited PROVE Inv'
  BY <1>20, PumpStep
<1>21. ASSUME DaemonExit PROVE Inv'
  <2>1. PlainType'
    BY <1>21 DEF DaemonExit, daemonVars, PCs, ExecSites, StopSites, PlainType
  <2>2. ChannelInv'
    BY <1>21 DEF DaemonExit, daemonVars, PlainType, ChannelInv
  <2>3. MessageInv'
    BY <1>21 DEF DaemonExit, daemonVars, PlainType, Sound, MessageInv
  <2>4. LockInv' /\ StdinInv' /\ JobInv' /\ AppliedInv' /\ WaitInv' /\ OkMeansApplied'
    BY <1>21
       DEF DaemonExit, daemonVars, StopSites, LockInv, Before, Pending, StdinInv, JobInv,
           AppliedAtMostOnce, AppliedInv, Own, WaitInv, OkMeansApplied
  <2> QED
    BY <2>1, <2>2, <2>3, <2>4
<1>22. ASSUME NEW g \in Gens, WorkerReady(g), UNCHANGED exited PROVE Inv'
  BY <1>22, ReadyStep
<1>23. ASSUME NEW g \in Gens, WorkerTake(g), UNCHANGED exited PROVE Inv'
  BY <1>23, TakeStep
<1>24. ASSUME NEW g \in Gens, WorkerApply(g), UNCHANGED exited PROVE Inv'
  BY <1>24, ApplyStep
<1>25. ASSUME NEW g \in Gens, WorkerAnswer(g), UNCHANGED exited PROVE Inv'
  BY <1>25, AnswerStep
<1>26. ASSUME NEW g \in Gens, WorkerShutdown(g), UNCHANGED exited PROVE Inv'
  BY <1>26, ShutdownStep
<1>27. ASSUME NEW g \in Gens, WorkerCrash(g), UNCHANGED exited PROVE Inv'
  BY <1>27, SilentStep DEF WorkerCrash
<1>28. ASSUME NEW g \in Gens, WatchParent(g), UNCHANGED exited PROVE Inv'
  BY <1>28, SilentStep DEF WatchParent
<1>29. CASE UNCHANGED vars
  <2>1. UNCHANGED <<execLock, ioLock, pc, handle, held, seq, myId, outcome, wst, stdin, job,
                    stdout, applied, reader, queue, session, exited>>
    BY <1>29 DEF vars, daemonVars, workerVars
  <2>2. Onward
    BY <2>1 DEF Onward
  <2>3. StdinInv' /\ JobInv' /\ AppliedInv' /\ WaitInv'
    BY <2>1, <2>2, StdinFrame, JobFrame, AppliedFrame, WaitFrame
  <2>4. MessageInv'
    BY <2>1 DEF MessageInv, Sound
  <2>5. PlainType' /\ ChannelInv' /\ LockInv' /\ OkMeansApplied'
    BY <2>1 DEF PlainType, ChannelInv, LockInv, OkMeansApplied
  <2> QED
    BY <2>3, <2>4, <2>5
<1> QED
  BY <1>1, <1>2, <1>3, <1>4, <1>5, <1>6, <1>7, <1>8, <1>9, <1>10, <1>11, <1>12, <1>13,
     <1>14, <1>15, <1>16, <1>17, <1>18, <1>19, <1>20, <1>21, <1>22, <1>23, <1>24, <1>25,
     <1>26, <1>27, <1>28, <1>29
     DEF Next, ExecStep, ThreadStep

\* The invariant holds at first.
LEMMA InitInv == Init => Inv
<1> SUFFICES ASSUME Init PROVE Inv
  OBVIOUS
<1> USE StopperAssumption, MaxGenAssumption DEF Init, Threads
<1>1. ChannelInv
  BY LineFacts DEF ChannelInv
<1>2. PlainType
  <2>1. session \in [gen : Gens \cup {0}, restart : BOOLEAN]
    OBVIOUS
  <2>2. myId \in [Threads -> 0..seq] /\ seq \in Nat
    OBVIOUS
  <2>3. pc \in [Threads -> PCs]
    BY DEF PCs, ExecSites
  <2> QED
    BY <2>1, <2>2, <2>3 DEF PlainType
<1>3. LockInv
  BY DEF LockInv
<1>4. StdinInv
  BY DEF StdinInv
<1>5. JobInv
  BY LineFacts DEF JobInv
<1>6. AppliedInv
  BY DEF AppliedInv, AppliedAtMostOnce
<1>7. WaitInv /\ MessageInv /\ OkMeansApplied
  BY DEF WaitInv, MessageInv, OkMeansApplied
<1> QED
  BY <1>1, <1>2, <1>3, <1>4, <1>5, <1>6, <1>7 DEF Inv

\* The invariant holds in every reachable state.
LEMMA Invariant == Spec => []Inv
BY InitInv, StepInv, PTL DEF Spec

---------------------------------------------------------------------------
\* Type correctness, and that lines are of threads of the daemon.
THEOREM TypeCorrect == Spec => []TypeOK
<1>1. Inv => TypeOK
  <2> SUFFICES ASSUME Inv PROVE TypeOK
    OBVIOUS
  <2>1. \A g \in Gens : /\ \A i \in DOMAIN stdin[g] : stdin[g][i].by \in Threads
                        /\ job[g].by \in Threads \cup {None}
    <3>1. \A g \in Gens : stdin[g] \in Seq(Lines) /\ job[g] \in Lines
      BY DEF Inv, ChannelInv
    <3>2. \A g \in Gens : DOMAIN stdin[g] = 1..Len(stdin[g])
      BY <3>1
    <3>3. \A l \in Lines : l.by \in Threads \cup {None}
      BY DEF Lines
    <3> QED
      BY <3>1, <3>2, <3>3 DEF Inv, StdinInv, Pending
  <2>2. session.gen \in Gens \cup {0} /\ session.restart \in BOOLEAN
    BY DEF Inv, PlainType
  <2> QED
    BY <2>1, <2>2 DEF Inv, PlainType, TypeOK
<1> QED
  BY Invariant, <1>1, PTL

\* No request is dispatched twice, whatever is lost or late.
THEOREM DispatchedAtMostOnce == Spec => []AppliedAtMostOnce
<1>1. Inv => AppliedAtMostOnce
  BY DEF Inv, AppliedInv
<1> QED
  BY Invariant, <1>1, PTL

\* A client is told ok only for its own request, dispatched.
THEOREM OkOnlyIfDispatched == Spec => []OkMeansApplied
<1>1. Inv => OkMeansApplied
  BY DEF Inv
<1> QED
  BY Invariant, <1>1, PTL

---------------------------------------------------------------------------
(* When killed workers die *)

StopPath == {"stopLock", "stopWrite", "stopWait", "stopExit", "stopDrop"}

\* Until the daemon is about to exit it knows the worker that runs.
KnownInv == ~Stopping => \A g \in Gens : Alive(g) => handle = g

\* What a request that spawns or stops a worker knows of the handle.
PathInv ==
  \A r \in Requests : /\ pc[r] \in {"spawn", "mark"} => handle = 0
                      /\ pc[r] \in StopPath => handle \in {0, held[r]}

\* A handle is dropped when its worker has ended.
DropInv == \A t \in Threads : pc[t] = "stopDrop" => ~Alive(held[t])

\* Handles are of workers that were spawned.
SpawnedInv ==
  /\ handle # 0 => wst[handle] # "none"
  /\ \A t \in Threads : held[t] # 0 => wst[held[t]] # "none"

\* A request whose outcome is unknown leaves no worker and no replay that is
\* not quarantined.
ErrorInv ==
  \A r \in Requests : pc[r] = "finish" /\ outcome[r] = "error" /\ myId[r] # 0
    => handle = 0 /\ (session.gen = 0 \/ session.restart \/ Stopping)

HandleInv == KnownInv /\ PathInv /\ DropInv /\ SpawnedInv /\ ErrorInv

\* A worker that only goes on or ends keeps what is known of it.
LEMMA WorkerFrame ==
  ASSUME HandleInv, \A g \in Gens : wst'[g] = wst[g] \/ (Alive(g) /\ wst'[g] # "none"),
         PlainType, UNCHANGED <<pc, handle, held, outcome, myId>>
  PROVE  /\ KnownInv' /\ PathInv' /\ DropInv' /\ SpawnedInv'
         /\ UNCHANGED session => ErrorInv'
<1> USE DEF HandleInv
<1>1. KnownInv' /\ DropInv'
  BY DEF KnownInv, DropInv, Alive, Stopping, PlainType
<1>2. PathInv'
  BY DEF PathInv
<1>3. SpawnedInv'
  BY DEF SpawnedInv, PlainType, Alive
<1>4. UNCHANGED session => ErrorInv'
  BY DEF ErrorInv, Stopping
<1> QED
  BY <1>1, <1>2, <1>3, <1>4

\* Every action keeps what is known of the worker, when the wait for a killed
\* worker does not end before it.
LEMMA HandleStep ==
  ASSUME ~KillMayFail PROVE Inv /\ HandleInv /\ [Next]_vars => HandleInv'
<1> SUFFICES ASSUME Inv, HandleInv, [Next]_vars PROVE HandleInv'
  OBVIOUS
<1> USE StopperAssumption, MaxGenAssumption DEF Inv, HandleInv, Threads
<1>1. ASSUME NEW r \in Requests, ExecBegin(r), UNCHANGED exited PROVE HandleInv'
  <2>1. KnownInv'
    BY <1>1
       DEF ExecBegin, Goto, workerVars, Alive, Stopping, PlainType, LockInv, AppliedInv,
           Before, KnownInv
  <2>2. PathInv'
    BY <1>1
       DEF ExecBegin, Goto, workerVars, StopPath, PlainType, LockInv, AppliedInv, Before,
           PathInv
  <2>3. DropInv'
    BY <1>1 DEF ExecBegin, Goto, workerVars, Alive, PlainType, LockInv, AppliedInv, Before, DropInv
  <2>4. ErrorInv'
    BY <1>1
       DEF ExecBegin, Goto, workerVars, Stopping, PlainType, LockInv, AppliedInv, Before,
           ErrorInv
  <2>5. SpawnedInv'
    BY <1>1 DEF ExecBegin, Goto, workerVars, SpawnedInv
  <2> QED
    BY <2>1, <2>2, <2>3, <2>4, <2>5
<1>2. ASSUME NEW r \in Requests, EnsureCheck(r), UNCHANGED exited PROVE HandleInv'
  <2>1. KnownInv'
    BY <1>2
       DEF EnsureCheck, Goto, IsRunning, Quarantine, workerVars, Alive, Stopping,
           PlainType, LockInv, AppliedInv, Before, KnownInv
  <2>2. PathInv'
    BY <1>2
       DEF EnsureCheck, Goto, IsRunning, Quarantine, workerVars, StopPath, PlainType,
           LockInv, AppliedInv, Before, PathInv
  <2>3. DropInv'
    BY <1>2
       DEF EnsureCheck, Goto, IsRunning, Quarantine, workerVars, Alive, PlainType,
           LockInv, AppliedInv, Before, DropInv
  <2>4. ErrorInv'
    BY <1>2
       DEF EnsureCheck, Goto, IsRunning, Quarantine, workerVars, Stopping, PlainType,
           LockInv, AppliedInv, Before, ErrorInv
  <2>5. SpawnedInv'
    BY <1>2 DEF EnsureCheck, Goto, IsRunning, Quarantine, workerVars, SpawnedInv
  <2> QED
    BY <2>1, <2>2, <2>3, <2>4, <2>5
<1>3. ASSUME NEW r \in Requests, EnsureStarted(r), UNCHANGED exited PROVE HandleInv'
  <2>1. KnownInv'
    BY <1>3
       DEF EnsureStarted, Goto, IsRunning, workerVars, Alive, Stopping, PlainType,
           LockInv, AppliedInv, Before, KnownInv
  <2>2. PathInv'
    BY <1>3
       DEF EnsureStarted, Goto, IsRunning, workerVars, StopPath, PlainType, LockInv,
           AppliedInv, Before, PathInv
  <2>3. DropInv'
    BY <1>3
       DEF EnsureStarted, Goto, IsRunning, workerVars, Alive, PlainType, LockInv,
           AppliedInv, Before, DropInv
  <2>4. SpawnedInv'
    BY <1>3
       DEF EnsureStarted, Goto, IsRunning, workerVars, PlainType, LockInv, AppliedInv,
           Before, SpawnedInv
  <2>5. ErrorInv'
    BY <1>3
       DEF EnsureStarted, Goto, IsRunning, workerVars, Stopping, PlainType, LockInv,
           AppliedInv, Before, ErrorInv
  <2> QED
    BY <2>1, <2>2, <2>3, <2>4, <2>5
<1>4. ASSUME NEW r \in Requests, Spawn(r), UNCHANGED exited PROVE HandleInv'
  <2>1. PICK g \in Gens : /\ wst[g] = "none" /\ wst' = [wst EXCEPT ![g] = "boot"] /\ handle' = g
                          /\ pc[r] = "spawn" /\ pc' = [pc EXCEPT ![r] = "await"]
                          /\ UNCHANGED <<held, outcome, myId, session>>
    BY <1>4 DEF Spawn, Goto
  <2>2. handle = 0
    BY <2>1 DEF PathInv
  <2>3. KnownInv'
    <3>1. ~Stopping => \A h \in Gens : ~Alive(h)
      BY <2>2 DEF KnownInv, Alive
    <3> QED
      BY <2>1, <3>1 DEF KnownInv, Alive, Stopping, PlainType
  <2>4. DropInv'
    <3> SUFFICES ASSUME NEW t \in Threads, pc'[t] = "stopDrop" PROVE ~Alive(held[t])'
      BY DEF DropInv
    <3>1. pc[t] = "stopDrop" /\ ~Alive(held[t]) /\ held[t] # g
      <4>1. pc[t] = "stopDrop"
        BY <2>1 DEF PlainType
      <4>2. g # 0
        BY DEF Gens
      <4>3. held[t] # g
        BY <2>1, <4>2 DEF SpawnedInv
      <4> QED
        BY <4>1, <4>3 DEF DropInv
    <3>2. held'[t] = held[t] /\ (held[t] # 0 => wst'[held[t]] = wst[held[t]])
      BY <2>1, <3>1 DEF PlainType
    <3> QED
      BY <3>1, <3>2 DEF Alive
  <2>5. PathInv' /\ ErrorInv'
    BY <2>1 DEF PathInv, ErrorInv, StopPath, LockInv, PlainType
  <2>6. SpawnedInv'
    BY <2>1 DEF SpawnedInv, PlainType
  <2> QED
    BY <2>3, <2>4, <2>5, <2>6
<1>5. ASSUME NEW r \in Requests, SpawnFails(r), UNCHANGED exited PROVE HandleInv'
  <2>1. KnownInv'
    BY <1>5
       DEF SpawnFails, Goto, workerVars, Alive, Stopping, PlainType, LockInv, AppliedInv,
           Before, KnownInv
  <2>2. PathInv'
    BY <1>5
       DEF SpawnFails, Goto, workerVars, StopPath, PlainType, LockInv, AppliedInv, Before,
           PathInv
  <2>3. DropInv'
    BY <1>5 DEF SpawnFails, Goto, workerVars, Alive, PlainType, LockInv, AppliedInv, Before, DropInv
  <2>4. ErrorInv'
    BY <1>5
       DEF SpawnFails, Goto, workerVars, Stopping, PlainType, LockInv, AppliedInv, Before,
           ErrorInv
  <2>5. SpawnedInv'
    BY <1>5 DEF SpawnFails, Goto, workerVars, SpawnedInv
  <2> QED
    BY <2>1, <2>2, <2>3, <2>4, <2>5
<1>6. ASSUME NEW r \in Requests, AwaitReady(r), UNCHANGED exited PROVE HandleInv'
  <2>1. KnownInv'
    BY <1>6
       DEF AwaitReady, Goto, workerVars, Alive, Stopping, PlainType, LockInv, AppliedInv,
           Before, KnownInv
  <2>2. PathInv'
    BY <1>6
       DEF AwaitReady, Goto, workerVars, StopPath, PlainType, LockInv, AppliedInv, Before,
           PathInv
  <2>3. DropInv'
    BY <1>6 DEF AwaitReady, Goto, workerVars, Alive, PlainType, LockInv, AppliedInv, Before, DropInv
  <2>4. ErrorInv'
    BY <1>6
       DEF AwaitReady, Goto, workerVars, Stopping, PlainType, LockInv, AppliedInv, Before,
           ErrorInv
  <2>5. SpawnedInv'
    BY <1>6 DEF AwaitReady, Goto, workerVars, SpawnedInv
  <2> QED
    BY <2>1, <2>2, <2>3, <2>4, <2>5
<1>7. ASSUME NEW r \in Requests, AwaitTimeout(r), UNCHANGED exited PROVE HandleInv'
  <2>1. KnownInv'
    BY <1>7
       DEF AwaitTimeout, Goto, workerVars, Alive, Stopping, PlainType, LockInv,
           AppliedInv, Before, KnownInv
  <2>2. PathInv'
    BY <1>7
       DEF AwaitTimeout, Goto, workerVars, StopPath, PlainType, LockInv, AppliedInv,
           Before, PathInv
  <2>3. DropInv'
    BY <1>7
       DEF AwaitTimeout, Goto, workerVars, Alive, PlainType, LockInv, AppliedInv, Before,
           DropInv
  <2>4. ErrorInv'
    BY <1>7
       DEF AwaitTimeout, Goto, workerVars, Stopping, PlainType, LockInv, AppliedInv,
           Before, ErrorInv
  <2>5. SpawnedInv'
    BY <1>7 DEF AwaitTimeout, Goto, workerVars, SpawnedInv
  <2> QED
    BY <2>1, <2>2, <2>3, <2>4, <2>5
<1>8. ASSUME NEW r \in Requests, ExecFailed(r), UNCHANGED exited PROVE HandleInv'
  <2>1. KnownInv'
    BY <1>8
       DEF ExecFailed, Goto, workerVars, Alive, Stopping, PlainType, LockInv, AppliedInv,
           Before, KnownInv
  <2>2. PathInv'
    BY <1>8
       DEF ExecFailed, Goto, workerVars, StopPath, PlainType, LockInv, AppliedInv, Before,
           PathInv
  <2>3. DropInv'
    BY <1>8 DEF ExecFailed, Goto, workerVars, Alive, PlainType, LockInv, AppliedInv, Before, DropInv
  <2>4. ErrorInv'
    BY <1>8
       DEF ExecFailed, Goto, workerVars, Stopping, PlainType, LockInv, AppliedInv, Before,
           ErrorInv
  <2>5. SpawnedInv'
    BY <1>8 DEF ExecFailed, Goto, workerVars, SpawnedInv
  <2> QED
    BY <2>1, <2>2, <2>3, <2>4, <2>5
<1>9. ASSUME NEW r \in Requests, MarkFailed(r), UNCHANGED exited PROVE HandleInv'
  <2>1. KnownInv'
    BY <1>9
       DEF MarkFailed, Goto, Quarantine, workerVars, Alive, Stopping, PlainType, LockInv,
           AppliedInv, Before, KnownInv
  <2>2. PathInv'
    BY <1>9
       DEF MarkFailed, Goto, Quarantine, workerVars, StopPath, PlainType, LockInv,
           AppliedInv, Before, PathInv
  <2>3. DropInv'
    BY <1>9
       DEF MarkFailed, Goto, Quarantine, workerVars, Alive, PlainType, LockInv,
           AppliedInv, Before, DropInv
  <2>4. ErrorInv'
    <3>1. session'.gen = session.gen /\ (session.gen # 0 => session'.restart)
      BY <1>9, QuarantineFacts DEF MarkFailed, PlainType
    <3>2. \A x \in Requests : pc'[x] = "finish" => x = r
      BY <1>9 DEF MarkFailed, Goto, LockInv, PlainType
    <3>3. handle' = 0
      BY <1>9 DEF MarkFailed, PathInv
    <3> QED
      BY <3>1, <3>2, <3>3 DEF ErrorInv
  <2>5. SpawnedInv'
    BY <1>9 DEF MarkFailed, Goto, Quarantine, workerVars, SpawnedInv
  <2> QED
    BY <2>1, <2>2, <2>3, <2>4, <2>5
<1>10. ASSUME NEW r \in Requests, ExecFinish(r), UNCHANGED exited PROVE HandleInv'
  <2>1. KnownInv'
    BY <1>10
       DEF ExecFinish, Goto, workerVars, Alive, Stopping, PlainType, LockInv, AppliedInv,
           Before, KnownInv
  <2>2. PathInv'
    BY <1>10
       DEF ExecFinish, Goto, workerVars, StopPath, PlainType, LockInv, AppliedInv, Before,
           PathInv
  <2>3. DropInv'
    BY <1>10
       DEF ExecFinish, Goto, workerVars, Alive, PlainType, LockInv, AppliedInv, Before,
           DropInv
  <2>4. ErrorInv'
    BY <1>10
       DEF ExecFinish, Goto, workerVars, Stopping, PlainType, LockInv, AppliedInv, Before,
           ErrorInv
  <2>5. SpawnedInv'
    BY <1>10 DEF ExecFinish, Goto, workerVars, SpawnedInv
  <2> QED
    BY <2>1, <2>2, <2>3, <2>4, <2>5
<1>11. ASSUME NEW t \in Threads, LockIo(t), UNCHANGED exited PROVE HandleInv'
  <2>1. KnownInv'
    BY <1>11
       DEF LockIo, Goto, workerVars, Alive, Stopping, PlainType, LockInv, AppliedInv,
           Before, KnownInv
  <2>2. PathInv'
    BY <1>11 DEF LockIo, Goto, workerVars, StopPath, PlainType, LockInv, AppliedInv, Before, PathInv
  <2>3. DropInv'
    BY <1>11 DEF LockIo, Goto, workerVars, Alive, PlainType, LockInv, AppliedInv, Before, DropInv
  <2>4. ErrorInv'
    BY <1>11
       DEF LockIo, Goto, workerVars, Stopping, PlainType, LockInv, AppliedInv, Before,
           ErrorInv
  <2>5. SpawnedInv'
    BY <1>11 DEF LockIo, Goto, workerVars, SpawnedInv
  <2> QED
    BY <2>1, <2>2, <2>3, <2>4, <2>5
<1>12. ASSUME NEW t \in Threads, Write(t), UNCHANGED exited PROVE HandleInv'
  <2>1. KnownInv'
    BY <1>12
       DEF Write, Goto, IsRunning, Alive, AfterFailure, Stopping, PlainType, LockInv,
           AppliedInv, Before, KnownInv
  <2>2. PathInv'
    BY <1>12
       DEF Write, Goto, IsRunning, Alive, AfterFailure, StopPath, PlainType, LockInv,
           AppliedInv, Before, PathInv
  <2>3. DropInv'
    BY <1>12
       DEF Write, Goto, IsRunning, Alive, AfterFailure, PlainType, LockInv, AppliedInv,
           Before, DropInv
  <2>4. ErrorInv'
    BY <1>12
       DEF Write, Goto, IsRunning, Alive, AfterFailure, Stopping, PlainType, LockInv,
           AppliedInv, Before, ErrorInv
  <2>5. SpawnedInv'
    BY <1>12 DEF Write, Goto, IsRunning, Alive, AfterFailure, SpawnedInv
  <2> QED
    BY <2>1, <2>2, <2>3, <2>4, <2>5
<1>13. ASSUME NEW t \in Threads, Receive(t), UNCHANGED exited PROVE HandleInv'
  <2>1. KnownInv'
    BY <1>13
       DEF Receive, Goto, OwnAnswer, AfterFailure, workerVars, Alive, Stopping, PlainType,
           LockInv, AppliedInv, Before, KnownInv
  <2>2. PathInv'
    BY <1>13
       DEF Receive, Goto, OwnAnswer, AfterFailure, workerVars, StopPath, PlainType,
           LockInv, AppliedInv, Before, PathInv
  <2>3. DropInv'
    BY <1>13
       DEF Receive, Goto, OwnAnswer, AfterFailure, workerVars, Alive, PlainType, LockInv,
           AppliedInv, Before, DropInv
  <2>4. ErrorInv'
    BY <1>13
       DEF Receive, Goto, OwnAnswer, AfterFailure, workerVars, Stopping, PlainType,
           LockInv, AppliedInv, Before, ErrorInv
  <2>5. SpawnedInv'
    BY <1>13 DEF Receive, Goto, OwnAnswer, AfterFailure, workerVars, SpawnedInv
  <2> QED
    BY <2>1, <2>2, <2>3, <2>4, <2>5
<1>14. ASSUME NEW t \in Threads, ReceiveTimeout(t), UNCHANGED exited PROVE HandleInv'
  <2>1. KnownInv'
    BY <1>14
       DEF ReceiveTimeout, Goto, AfterFailure, workerVars, Alive, Stopping, PlainType,
           LockInv, AppliedInv, Before, KnownInv
  <2>2. PathInv'
    BY <1>14
       DEF ReceiveTimeout, Goto, AfterFailure, workerVars, StopPath, PlainType, LockInv,
           AppliedInv, Before, PathInv
  <2>3. DropInv'
    BY <1>14
       DEF ReceiveTimeout, Goto, AfterFailure, workerVars, Alive, PlainType, LockInv,
           AppliedInv, Before, DropInv
  <2>4. ErrorInv'
    BY <1>14
       DEF ReceiveTimeout, Goto, AfterFailure, workerVars, Stopping, PlainType, LockInv,
           AppliedInv, Before, ErrorInv
  <2>5. SpawnedInv'
    BY <1>14 DEF ReceiveTimeout, Goto, AfterFailure, workerVars, SpawnedInv
  <2> QED
    BY <2>1, <2>2, <2>3, <2>4, <2>5
<1>15. ASSUME NEW t \in Threads, StopCapture(t), UNCHANGED exited PROVE HandleInv'
  <2>1. KnownInv'
    BY <1>15
       DEF StopCapture, Goto, AfterStop, workerVars, Alive, Stopping, PlainType, LockInv,
           AppliedInv, Before, KnownInv
  <2>2. PathInv'
    BY <1>15
       DEF StopCapture, Goto, AfterStop, workerVars, StopPath, PlainType, LockInv,
           AppliedInv, Before, PathInv
  <2>3. DropInv'
    BY <1>15
       DEF StopCapture, Goto, AfterStop, workerVars, Alive, PlainType, LockInv,
           AppliedInv, Before, DropInv
  <2>4. SpawnedInv'
    BY <1>15
       DEF StopCapture, Goto, AfterStop, workerVars, PlainType, LockInv, AppliedInv,
           Before, SpawnedInv
  <2>5. ErrorInv'
    BY <1>15
       DEF StopCapture, Goto, AfterStop, workerVars, Stopping, PlainType, LockInv,
           AppliedInv, Before, ErrorInv
  <2> QED
    BY <2>1, <2>2, <2>3, <2>4, <2>5
<1>16. ASSUME NEW t \in Threads, StopExited(t), UNCHANGED exited PROVE HandleInv'
  <2>1. KnownInv'
    BY <1>16
       DEF StopExited, Goto, workerVars, Alive, Stopping, PlainType, LockInv, AppliedInv,
           Before, KnownInv
  <2>2. PathInv'
    BY <1>16
       DEF StopExited, Goto, workerVars, StopPath, PlainType, LockInv, AppliedInv, Before,
           PathInv
  <2>3. DropInv'
    BY <1>16
       DEF StopExited, Goto, workerVars, Alive, PlainType, LockInv, AppliedInv, Before,
           DropInv
  <2>4. ErrorInv'
    BY <1>16
       DEF StopExited, Goto, workerVars, Stopping, PlainType, LockInv, AppliedInv, Before,
           ErrorInv
  <2>5. SpawnedInv'
    BY <1>16 DEF StopExited, Goto, workerVars, SpawnedInv
  <2> QED
    BY <2>1, <2>2, <2>3, <2>4, <2>5
<1>17. ASSUME NEW t \in Threads, StopKill(t), UNCHANGED exited PROVE HandleInv'
  <2>1. KnownInv'
    BY <1>17
       DEF StopKill, Goto, Dies, Alive, Stopping, PlainType, LockInv, AppliedInv, Before,
           KnownInv
  <2>2. PathInv'
    BY <1>17 DEF StopKill, Goto, Dies, StopPath, PlainType, LockInv, AppliedInv, Before, PathInv
  <2>3. DropInv'
    BY <1>17 DEF StopKill, Goto, Dies, Alive, PlainType, LockInv, AppliedInv, Before, DropInv
  <2>4. SpawnedInv'
    BY <1>17 DEF StopKill, Goto, Dies, PlainType, LockInv, AppliedInv, Before, SpawnedInv
  <2>5. ErrorInv'
    BY <1>17 DEF StopKill, Goto, Dies, Stopping, PlainType, LockInv, AppliedInv, Before, ErrorInv
  <2> QED
    BY <2>1, <2>2, <2>3, <2>4, <2>5
<1>18. ASSUME NEW t \in Threads, StopDrop(t), UNCHANGED exited PROVE HandleInv'
  <2>1. KnownInv'
    <3>1. ~Alive(held[t])
      BY <1>18 DEF StopDrop, DropInv
    <3>2. CASE t = Stopper
      <4>1. pc' = [pc EXCEPT ![Stopper] = "exit"]
        BY <1>18, <3>1, <3>2 DEF StopDrop, Goto, AfterStop
      <4> QED
        BY <4>1 DEF KnownInv, Stopping, PlainType
    <3>3. CASE t # Stopper
      <4>1. handle \in {0, held[t]} /\ pc'[Stopper] = pc[Stopper] /\ wst' = wst
        BY <1>18, <3>3 DEF StopDrop, Goto, PathInv, StopPath, PlainType, workerVars
      <4>2. ~Stopping => \A g \in Gens : ~Alive(g)
        BY <3>1, <4>1 DEF KnownInv, Alive
      <4> QED
        BY <4>1, <4>2 DEF KnownInv, Alive, Stopping
    <3> QED
      BY <3>2, <3>3
  <2>2. PathInv'
    BY <1>18
       DEF StopDrop, Goto, AfterStop, workerVars, StopPath, PlainType, LockInv,
           AppliedInv, Before, PathInv
  <2>3. DropInv'
    BY <1>18
       DEF StopDrop, Goto, AfterStop, workerVars, Alive, PlainType, LockInv, AppliedInv,
           Before, DropInv
  <2>4. SpawnedInv'
    BY <1>18
       DEF StopDrop, Goto, AfterStop, workerVars, PlainType, LockInv, AppliedInv, Before,
           SpawnedInv
  <2>5. ErrorInv'
    BY <1>18
       DEF StopDrop, Goto, AfterStop, workerVars, Stopping, PlainType, LockInv,
           AppliedInv, Before, ErrorInv
  <2> QED
    BY <2>1, <2>2, <2>3, <2>4, <2>5
<1>19. ASSUME StopBegin, UNCHANGED exited PROVE HandleInv'
  <2>1. KnownInv'
    BY <1>19
       DEF StopBegin, Goto, workerVars, Alive, Stopping, PlainType, LockInv, AppliedInv,
           Before, KnownInv
  <2>2. PathInv'
    BY <1>19
       DEF StopBegin, Goto, workerVars, StopPath, PlainType, LockInv, AppliedInv, Before,
           PathInv
  <2>3. DropInv'
    BY <1>19 DEF StopBegin, Goto, workerVars, Alive, PlainType, LockInv, AppliedInv, Before, DropInv
  <2>4. ErrorInv'
    BY <1>19
       DEF StopBegin, Goto, workerVars, Stopping, PlainType, LockInv, AppliedInv, Before,
           ErrorInv
  <2>5. SpawnedInv'
    BY <1>19 DEF StopBegin, Goto, workerVars, SpawnedInv
  <2> QED
    BY <2>1, <2>2, <2>3, <2>4, <2>5
<1>20. ASSUME NEW g \in Gens, Pump(g), UNCHANGED exited PROVE HandleInv'
  <2>1. KnownInv' /\ PathInv' /\ DropInv' /\ SpawnedInv' /\ ErrorInv'
    BY <1>20
       DEF Pump, daemonVars, Alive, Stopping, KnownInv, StopPath, PathInv, DropInv,
           SpawnedInv, ErrorInv
  <2> QED
    BY <2>1
<1>21. ASSUME DaemonExit PROVE HandleInv'
  <2>1. KnownInv' /\ PathInv' /\ DropInv' /\ SpawnedInv' /\ ErrorInv'
    BY <1>21
       DEF DaemonExit, daemonVars, Alive, Stopping, KnownInv, StopPath, PathInv, DropInv,
           SpawnedInv, ErrorInv
  <2> QED
    BY <2>1
<1>22. ASSUME NEW g \in Gens, WorkerReady(g), UNCHANGED exited PROVE HandleInv'
  <2>1. /\ \A h \in Gens : wst'[h] = wst[h] \/ (Alive(h) /\ wst'[h] # "none")
        /\ UNCHANGED <<pc, handle, held, outcome, myId, session>>
    BY <1>22 DEF WorkerReady, daemonVars, PlainType, Alive, Gens
  <2> QED
    BY <2>1, WorkerFrame
<1>23. ASSUME NEW g \in Gens, WorkerTake(g), UNCHANGED exited PROVE HandleInv'
  <2>1. /\ \A h \in Gens : wst'[h] = wst[h] \/ (Alive(h) /\ wst'[h] # "none")
        /\ UNCHANGED <<pc, handle, held, outcome, myId, session>>
    BY <1>23 DEF WorkerTake, daemonVars, PlainType, Alive, Gens
  <2> QED
    BY <2>1, WorkerFrame
<1>24. ASSUME NEW g \in Gens, WorkerApply(g), UNCHANGED exited PROVE HandleInv'
  <2>1. /\ Alive(g) /\ \A h \in Gens : wst'[h] = wst[h] \/ (Alive(h) /\ wst'[h] # "none")
        /\ UNCHANGED <<pc, handle, held, outcome, myId>>
    BY <1>24 DEF WorkerApply, daemonVars, PlainType, Alive, Gens
  <2>2. ErrorInv'
    <3>1. Stopping \/ handle # 0
      BY <2>1 DEF KnownInv, Gens
    <3> QED
      BY <2>1, <3>1 DEF ErrorInv, Stopping
  <2> QED
    BY <2>1, <2>2, WorkerFrame
<1>25. ASSUME NEW g \in Gens, WorkerAnswer(g), UNCHANGED exited PROVE HandleInv'
  <2>1. /\ \A h \in Gens : wst'[h] = wst[h] \/ (Alive(h) /\ wst'[h] # "none")
        /\ UNCHANGED <<pc, handle, held, outcome, myId, session>>
    BY <1>25 DEF WorkerAnswer, daemonVars, PlainType, Alive, Gens
  <2> QED
    BY <2>1, WorkerFrame
<1>26. ASSUME NEW g \in Gens, WorkerShutdown(g), UNCHANGED exited PROVE HandleInv'
  <2>1. /\ \A h \in Gens : wst'[h] = wst[h] \/ (Alive(h) /\ wst'[h] # "none")
        /\ UNCHANGED <<pc, handle, held, outcome, myId, session>>
    BY <1>26 DEF WorkerShutdown, Dies, daemonVars, PlainType, Alive, Gens
  <2> QED
    BY <2>1, WorkerFrame
<1>27. ASSUME NEW g \in Gens, WorkerCrash(g), UNCHANGED exited PROVE HandleInv'
  BY <1>27, WorkerFrame DEF WorkerCrash, Dies, Alive, daemonVars, PlainType, Alive
<1>28. ASSUME NEW g \in Gens, WatchParent(g), UNCHANGED exited PROVE HandleInv'
  BY <1>28, WorkerFrame DEF WatchParent, Dies, Alive, daemonVars, PlainType, Alive
<1>29. CASE UNCHANGED vars
  BY <1>29
     DEF vars, daemonVars, workerVars, KnownInv, PathInv, DropInv, SpawnedInv, ErrorInv, Alive,
         Stopping
<1> QED
  BY <1>1, <1>2, <1>3, <1>4, <1>5, <1>6, <1>7, <1>8, <1>9, <1>10, <1>11, <1>12, <1>13,
     <1>14, <1>15, <1>16, <1>17, <1>18, <1>19, <1>20, <1>21, <1>22, <1>23, <1>24, <1>25,
     <1>26, <1>27, <1>28, <1>29
     DEF Next, ExecStep, ThreadStep

\* What is known of the worker holds at first.
LEMMA HandleInit == Init => HandleInv
BY StopperAssumption
   DEF Init, HandleInv, KnownInv, PathInv, DropInv, SpawnedInv, ErrorInv, Alive, Threads, StopPath

\* One worker process at a time holds the replay of the context, until the
\* daemon is about to exit, when the wait for a killed worker ends with it.
THEOREM OneWorkerAtATime == ASSUME ~KillMayFail PROVE Spec => []OneWorker
<1>1. HandleInv => OneWorker
  BY DEF HandleInv, KnownInv, OneWorker
<1> QED
  BY Invariant, HandleInit, HandleStep, <1>1, PTL DEF Spec

\* A request whose outcome is unknown leaves the replay quarantined.
THEOREM ErrorQuarantines == ASSUME ~KillMayFail PROVE Spec => []ErrorMeansQuarantined
<1>1. HandleInv => ErrorMeansQuarantined
  BY DEF HandleInv, ErrorInv, ErrorMeansQuarantined
<1> QED
  BY Invariant, HandleInit, HandleStep, <1>1, PTL DEF Spec

---------------------------------------------------------------------------
(* A request is a call                                                     *)

\* A request is settled exactly when its thread has nothing left to do for it.
FateInv == \A r \in Requests : outcome[r] # "none" <=> pc[r] \in {"finish", "done"}

\* Lines die with the worker that would have read them.
EmptyInv == \A g \in Gens : ~Alive(g) => Len(stdin[g]) = 0

\* No worker has, or will get, a line of the request.
NoLine(r) ==
  \A g \in Gens : /\ \A i \in 1..Len(stdin[g]) : stdin[g][i].exec => stdin[g][i].by # r
                  /\ job[g].exec => job[g].by # r

\* Nothing is left of a request whose client was told of an error.
SettledInv ==
  ~KillMayFail /\ ~Stopping => \A r \in Requests : outcome[r] = "error" => NoLine(r)

CallInv == FateInv /\ EmptyInv /\ SettledInv

\* A request that was not written has no line.
LEMMA BeforeNoLine == ASSUME Inv, NEW r \in Requests, pc[r] \in Before PROVE NoLine(r)
BY DEF Inv, StdinInv, Pending, JobInv, NoLine

\* When no worker runs there are no lines.
LEMMA NobodyNoLine ==
  ASSUME Inv, EmptyInv, NEW r \in Requests, \A g \in Gens : ~Alive(g) PROVE NoLine(r)
<1>1. \A g \in Gens : ~job[g].exec
  BY DEF Inv, JobInv, Alive, Gens
<1> QED
  BY <1>1 DEF EmptyInv, NoLine

\* Lines are only taken from stdin or lost.
Loses ==
  \A g \in Gens : /\ stdin'[g] = stdin[g] \/ Len(stdin'[g]) = 0
                  /\ job'[g] = job[g] \/ ~job'[g].exec

\* A request without a line gets none by a loss.
LEMMA LosesFrame == ASSUME Loses, NEW r \in Requests, NoLine(r) PROVE (NoLine(r))'
BY DEF Loses, NoLine

\* Without a new error, a loss leaves the settled requests without lines.
LEMMA SettledFrame ==
  ASSUME SettledInv, Loses, Stopping => Stopping',
         \A r \in Requests : outcome'[r] = "error" => outcome[r] = "error" \/ NoLine(r)
  PROVE  SettledInv'
<1> SUFFICES ASSUME ~KillMayFail, ~Stopping', NEW r \in Requests, outcome'[r] = "error"
             PROVE  (NoLine(r))'
  BY DEF SettledInv
<1>1. NoLine(r)
  BY DEF SettledInv
<1> QED
  BY <1>1, LosesFrame

\* A process that ends loses its lines.
LEMMA DiesLoses == ASSUME Inv, NEW g \in Gens, Dies(g) PROVE Loses
<1>1. \A h \in Gens : /\ stdin'[h] = stdin[h] \/ Len(stdin'[h]) = 0
                      /\ job'[h] = job[h] \/ job'[h] = NoJob
  BY DEF Inv, ChannelInv, Dies
<1> QED
  BY <1>1, LineFacts DEF Loses

\* Every action keeps what a client was told in step with its thread.
LEMMA FateStep == Inv /\ FateInv /\ [Next]_vars => FateInv'
<1> SUFFICES ASSUME Inv, FateInv, [Next]_vars PROVE FateInv'
  OBVIOUS
<1> USE StopperAssumption DEF Threads
<1> DEFINE Kept ==
      /\ UNCHANGED outcome
      /\ \A r \in Requests : pc'[r] \in {"finish", "done"} <=> pc[r] \in {"finish", "done"}
    Told(r) ==
      /\ pc[r] \notin {"finish", "done"}
      /\ outcome' = [outcome EXCEPT ![r] = "error"] \/ outcome' = [outcome EXCEPT ![r] = "ok"]
      /\ pc' = [pc EXCEPT ![r] = "finish"]
<1>a. Kept => FateInv'
  BY DEF FateInv
<1>b. ASSUME NEW r \in Requests, Told(r) PROVE FateInv'
  BY <1>b DEF FateInv, Inv, PlainType
<1>1. ASSUME NEW r \in Requests,
             ExecBegin(r) \/ EnsureCheck(r) \/ EnsureStarted(r) \/ Spawn(r) \/ ExecFailed(r)
               \/ ExecFinish(r)
      PROVE  Kept
  BY <1>1 DEF ExecBegin, EnsureCheck, EnsureStarted, Spawn, ExecFailed, ExecFinish, Goto, Inv,
              PlainType
<1>2. ASSUME NEW r \in Requests, SpawnFails(r) \/ AwaitTimeout(r) \/ MarkFailed(r) PROVE Told(r)
  BY <1>2 DEF SpawnFails, AwaitTimeout, MarkFailed, Goto
<1>3. ASSUME NEW r \in Requests, AwaitReady(r) PROVE Kept \/ Told(r)
  BY <1>3 DEF AwaitReady, Goto, Inv, PlainType
<1>4. ASSUME NEW t \in Threads, LockIo(t) \/ Write(t) \/ ReceiveTimeout(t) PROVE Kept
  BY <1>4 DEF LockIo, Write, ReceiveTimeout, AfterFailure, Goto, Inv, PlainType
<1>5. ASSUME NEW t \in Threads, Receive(t) PROVE Kept \/ (t \in Requests /\ Told(t))
  BY <1>5 DEF Receive, AfterFailure, Goto, Inv, PlainType, LockInv, StopSites
<1>6. ASSUME NEW t \in Threads, StopCapture(t) \/ StopExited(t) \/ StopKill(t) \/ StopDrop(t)
      PROVE  Kept
  BY <1>6 DEF StopCapture, StopExited, StopKill, StopDrop, AfterStop, Goto, Inv, PlainType
<1>7. CASE StopBegin \/ DaemonExit \/ \E g \in Gens : Pump(g)
  <2>1. Kept
    BY <1>7 DEF StopBegin, DaemonExit, Pump, Goto, daemonVars, Inv, PlainType
  <2> QED
    BY <2>1, <1>a
<1>8. ASSUME NEW g \in Gens,
             WorkerReady(g) \/ WorkerTake(g) \/ WorkerApply(g) \/ WorkerAnswer(g)
               \/ WorkerShutdown(g) \/ WorkerCrash(g) \/ WatchParent(g)
      PROVE  Kept
  BY <1>8 DEF WorkerReady, WorkerTake, WorkerApply, WorkerAnswer, WorkerShutdown, WorkerCrash,
              WatchParent, daemonVars
<1>9. CASE UNCHANGED vars
  <2>1. Kept
    BY <1>9 DEF vars, daemonVars
  <2> QED
    BY <2>1, <1>a
<1> HIDE DEF Kept, Told
<1> QED
  BY <1>a, <1>b, <1>1, <1>2, <1>3, <1>4, <1>5, <1>6, <1>7, <1>8, <1>9
     DEF Next, ExecStep, ThreadStep, Threads

\* Every action leaves the stdin of a worker that does not run empty.
LEMMA EmptyStep == Inv /\ EmptyInv /\ [Next]_vars => EmptyInv'
<1> SUFFICES ASSUME Inv, EmptyInv, [Next]_vars PROVE EmptyInv'
  OBVIOUS
<1> USE StopperAssumption DEF Threads
<1> DEFINE Kept == UNCHANGED stdin /\ \A g \in Gens : Alive(g) => (Alive(g))'
<1>a. Kept => EmptyInv'
  BY DEF EmptyInv
<1>b. ASSUME NEW g \in Gens, Dies(g) PROVE EmptyInv'
  BY <1>b DEF EmptyInv, Dies, Alive, Inv, ChannelInv, PlainType
<1>1. ASSUME NEW r \in Requests,
             ExecBegin(r) \/ EnsureCheck(r) \/ EnsureStarted(r) \/ ExecFailed(r) \/ ExecFinish(r)
               \/ SpawnFails(r) \/ AwaitTimeout(r) \/ MarkFailed(r) \/ AwaitReady(r)
      PROVE  Kept
  BY <1>1 DEF ExecBegin, EnsureCheck, EnsureStarted, ExecFailed, ExecFinish, SpawnFails,
              AwaitTimeout, MarkFailed, AwaitReady, workerVars, Alive
<1>2. ASSUME NEW r \in Requests, Spawn(r) PROVE Kept
  BY <1>2 DEF Spawn, Alive, Inv, PlainType
<1>3. ASSUME NEW t \in Threads,
             LockIo(t) \/ Receive(t) \/ ReceiveTimeout(t) \/ StopCapture(t) \/ StopExited(t)
               \/ StopDrop(t) \/ StopBegin
      PROVE  Kept
  BY <1>3 DEF LockIo, Receive, ReceiveTimeout, StopCapture, StopExited, StopDrop, StopBegin,
              workerVars, Alive
<1>4. ASSUME NEW t \in Threads, Write(t) PROVE EmptyInv'
  <2>1. \A g \in Gens : ~Alive(g) => stdin'[g] = stdin[g]
    BY <1>4 DEF Write, IsRunning, Inv, ChannelInv
  <2> QED
    BY <1>4, <2>1 DEF Write, EmptyInv, Alive
<1>5. ASSUME NEW t \in Threads, StopKill(t) PROVE EmptyInv'
  <2>1. held[t] \in Gens
    BY <1>5 DEF StopKill, Alive, Inv, PlainType
  <2> QED
    BY <1>5, <2>1, <1>a, <1>b DEF StopKill, Alive
<1>6. CASE DaemonExit \/ \E g \in Gens : Pump(g)
  BY <1>6, <1>a DEF DaemonExit, Pump, Alive
<1>7. ASSUME NEW g \in Gens, WorkerReady(g) \/ WorkerApply(g) \/ WorkerAnswer(g) PROVE Kept
  BY <1>7 DEF WorkerReady, WorkerApply, WorkerAnswer, Alive, Inv, PlainType
<1>8. ASSUME NEW g \in Gens, WorkerTake(g) PROVE EmptyInv'
  BY <1>8 DEF WorkerTake, Alive, EmptyInv, Inv, PlainType, ChannelInv
<1>9. ASSUME NEW g \in Gens, WorkerShutdown(g) \/ WorkerCrash(g) \/ WatchParent(g) PROVE EmptyInv'
  BY <1>9, <1>b DEF WorkerShutdown, WorkerCrash, WatchParent
<1>10. CASE UNCHANGED vars
  BY <1>10, <1>a DEF vars, workerVars, Alive
<1> HIDE DEF Kept
<1> QED
  BY <1>a, <1>1, <1>2, <1>3, <1>4, <1>5, <1>6, <1>7, <1>8, <1>9, <1>10
     DEF Next, ExecStep, ThreadStep, Threads

\* Every action leaves a settled request without lines, when the wait for a
\* killed worker does not end before it: an error is answered before the
\* request is written, or when its worker has ended.
LEMMA SettledStep ==
  ASSUME ~KillMayFail, Inv, HandleInv, CallInv, [Next]_vars PROVE SettledInv'
<1> USE StopperAssumption DEF CallInv, Threads
<1> DEFINE Ends == Stopping => Stopping'
           Quiet == Loses /\ Ends /\ UNCHANGED outcome
           Told(r) ==
             /\ ~Stopping => NoLine(r)
             /\ Loses /\ UNCHANGED <<pc[Stopper]>> /\ outcome' = [outcome EXCEPT ![r] = "error"]
<1>a. Quiet => SettledInv'
  BY SettledFrame
<1>b. ASSUME NEW r \in Requests, Told(r) PROVE SettledInv'
  <2>1. CASE Stopping
    BY <1>b, <2>1 DEF SettledInv, Stopping
  <2>2. CASE ~Stopping
    <3>1. \A q \in Requests : outcome'[q] = "error" => outcome[q] = "error" \/ NoLine(q)
      BY <1>b, <2>2 DEF Inv, PlainType
    <3> QED
      BY <1>b, <2>2, <3>1, SettledFrame
  <2> QED
    BY <2>1, <2>2
<1>1. ASSUME NEW r \in Requests,
             ExecBegin(r) \/ EnsureCheck(r) \/ EnsureStarted(r) \/ Spawn(r) \/ ExecFailed(r)
               \/ ExecFinish(r)
      PROVE  Quiet
  BY <1>1 DEF ExecBegin, EnsureCheck, EnsureStarted, Spawn, ExecFailed, ExecFinish, Goto, Loses,
              workerVars, Stopping, Inv, PlainType
<1>2. ASSUME NEW r \in Requests, SpawnFails(r) \/ AwaitTimeout(r) PROVE Told(r)
  <2>1. NoLine(r)
    BY <1>2, BeforeNoLine DEF SpawnFails, AwaitTimeout, Before
  <2> QED
    BY <1>2, <2>1 DEF SpawnFails, AwaitTimeout, Goto, Loses, workerVars, Inv, PlainType
<1>3. ASSUME NEW r \in Requests, AwaitReady(r) PROVE Quiet \/ Told(r)
  <2>1. NoLine(r)
    BY <1>3, BeforeNoLine DEF AwaitReady, Before
  <2>2. UNCHANGED pc[Stopper] /\ UNCHANGED <<stdin, job>>
    BY <1>3 DEF AwaitReady, Goto, workerVars, Inv, PlainType
  <2>3. UNCHANGED outcome \/ outcome' = [outcome EXCEPT ![r] = "error"]
    BY <1>3 DEF AwaitReady
  <2> QED
    BY <2>1, <2>2, <2>3 DEF Loses, Stopping
<1>4. ASSUME NEW r \in Requests, MarkFailed(r) PROVE Told(r)
  <2>1. handle = 0
    BY <1>4 DEF MarkFailed, HandleInv, PathInv
  <2>2. ~Stopping => \A g \in Gens : ~Alive(g)
    BY <2>1 DEF HandleInv, KnownInv, Gens
  <2>3. ~Stopping => NoLine(r)
    BY <2>2, NobodyNoLine
  <2> QED
    BY <1>4, <2>3 DEF MarkFailed, Goto, Loses, workerVars, Inv, PlainType
<1>5. ASSUME NEW t \in Threads,
             LockIo(t) \/ ReceiveTimeout(t) \/ StopCapture(t) \/ StopExited(t) \/ StopDrop(t)
      PROVE  Quiet
  BY <1>5 DEF LockIo, ReceiveTimeout, StopCapture, StopExited, StopDrop, AfterFailure, AfterStop,
              Goto, Loses, workerVars, Stopping, Inv, PlainType
<1>6. ASSUME NEW t \in Threads, Write(t) PROVE SettledInv'
  <2> SUFFICES ASSUME ~Stopping', NEW r \in Requests, outcome'[r] = "error" PROVE (NoLine(r))'
    BY DEF SettledInv
  <2>1. NoLine(r) /\ outcome[r] = "error" /\ pc[t] \in {"write", "stopWrite"} /\ UNCHANGED job
    BY <1>6 DEF Write, Goto, SettledInv, Stopping, Inv, PlainType
  <2>2. pc[t] = "write" => t # r
    BY <2>1 DEF FateInv
  <2>3. CASE ~IsRunning
    BY <1>6, <2>1, <2>3 DEF Write, NoLine
  <2>4. CASE IsRunning
    <3> DEFINE line == Line(t, seq + 1, pc[t] = "write")
    <3>1. handle \in Gens /\ stdin' = [stdin EXCEPT ![handle] = Append(@, line)]
      BY <1>6, <2>4 DEF Write, IsRunning, Alive, Inv, PlainType
    <3>2. line \in Lines /\ (line.exec => line.by # r)
      <4>1. CASE pc[t] = "write"
        <5>1. line = Line(t, seq + 1, TRUE)
          BY <4>1, Zenon
        <5>2. seq + 1 \in Nat
          BY DEF Inv, PlainType
        <5>3. line \in Lines /\ line.by = t
          BY <5>1, <5>2, LineFacts
        <5> QED
          BY <4>1, <5>3, <2>2
      <4>2. CASE pc[t] # "write"
        <5>1. line = Line(t, seq + 1, FALSE)
          BY <4>2, Zenon
        <5>2. seq + 1 \in Nat
          BY DEF Inv, PlainType
        <5>3. line \in Lines /\ ~line.exec
          BY <5>1, <5>2, LineFacts
        <5> QED
          BY <5>3
      <4> QED
        BY <4>1, <4>2
    <3> HIDE DEF line
    <3>3. \A g \in Gens : \A i \in 1..Len(stdin'[g]) :
            (i \in 1..Len(stdin[g]) /\ stdin'[g][i] = stdin[g][i]) \/ stdin'[g][i] = line
      BY <3>1, <3>2, AppendFacts DEF Inv, ChannelInv
    <3> QED
      BY <2>1, <3>2, <3>3 DEF NoLine
  <2> QED
    BY <2>3, <2>4
<1>7. ASSUME NEW t \in Threads, Receive(t) PROVE SettledInv'
  <2>1. Loses /\ (Stopping => Stopping')
    BY <1>7 DEF Receive, AfterFailure, Goto, Loses, workerVars, Stopping, Inv, PlainType
  <2>2. \A r \in Requests : outcome'[r] = "error" => outcome[r] = "error"
    BY <1>7 DEF Receive, Inv, PlainType
  <2> QED
    BY <2>1, <2>2, SettledFrame
<1>8. ASSUME NEW t \in Threads, StopKill(t) PROVE Quiet
  <2>1. held[t] \in Gens
    BY <1>8 DEF StopKill, Alive, Inv, PlainType
  <2>2. Loses
    BY <1>8, <2>1, DiesLoses DEF StopKill
  <2> QED
    BY <1>8, <2>2 DEF StopKill, Goto, Stopping, Inv, PlainType
<1>9. CASE StopBegin \/ DaemonExit \/ \E g \in Gens : Pump(g)
  <2>1. Quiet
    BY <1>9 DEF StopBegin, DaemonExit, Pump, Goto, Loses, daemonVars, workerVars, Stopping, Inv,
                PlainType
  <2> QED
    BY <2>1, <1>a
<1>10. ASSUME NEW g \in Gens, WorkerReady(g) \/ WorkerApply(g) PROVE Quiet
  BY <1>10 DEF WorkerReady, WorkerApply, Loses, daemonVars, Stopping
<1>11. ASSUME NEW g \in Gens, WorkerAnswer(g) PROVE Quiet
  <2>1. \A h \in Gens : job'[h] = job[h] \/ job'[h] = NoJob
    BY <1>11 DEF WorkerAnswer, Inv, ChannelInv
  <2>2. Loses
    BY <1>11, <2>1, LineFacts DEF WorkerAnswer, Loses
  <2> QED
    BY <1>11, <2>2 DEF WorkerAnswer, daemonVars, Stopping
<1>12. ASSUME NEW g \in Gens, WorkerTake(g) PROVE SettledInv'
  <2> SUFFICES ASSUME ~Stopping', NEW r \in Requests, outcome'[r] = "error" PROVE (NoLine(r))'
    BY DEF SettledInv
  <2>1. NoLine(r)
    BY <1>12 DEF WorkerTake, daemonVars, SettledInv, Stopping
  <2>2. /\ stdin[g] \in Seq(Lines) /\ stdin[g] # <<>>
        /\ \A h \in Gens : /\ stdin'[h] = IF h = g THEN Tail(stdin[g]) ELSE stdin[h]
                           /\ job'[h] = IF h = g THEN Head(stdin[g]) ELSE job[h]
    BY <1>12 DEF WorkerTake, Inv, ChannelInv
  <2>3. Head(stdin[g]).exec => Head(stdin[g]).by # r
    BY <2>1, <2>2, TailFacts DEF NoLine
  <2>4. \A i \in 1..Len(Tail(stdin[g])) : Tail(stdin[g])[i].exec => Tail(stdin[g])[i].by # r
    BY <2>1, <2>2, TailFacts DEF NoLine
  <2> SUFFICES ASSUME NEW h \in Gens
               PROVE  /\ \A i \in 1..Len(stdin'[h]) : stdin'[h][i].exec => stdin'[h][i].by # r
                      /\ job'[h].exec => job'[h].by # r
    BY DEF NoLine
  <2>5. CASE h = g
    BY <2>2, <2>3, <2>4, <2>5
  <2>6. CASE h # g
    BY <2>1, <2>2, <2>6 DEF NoLine
  <2> QED
    BY <2>5, <2>6
<1>13. ASSUME NEW g \in Gens, WorkerShutdown(g) \/ WorkerCrash(g) \/ WatchParent(g) PROVE Quiet
  <2>1. Loses
    BY <1>13, DiesLoses DEF WorkerShutdown, WorkerCrash, WatchParent
  <2> QED
    BY <1>13, <2>1 DEF WorkerShutdown, WorkerCrash, WatchParent, daemonVars, Stopping
<1>14. CASE UNCHANGED vars
  <2>1. Quiet
    BY <1>14 DEF vars, daemonVars, workerVars, Loses, Stopping
  <2> QED
    BY <2>1, <1>a
<1> HIDE DEF Quiet, Told
<1> QED
  BY <1>a, <1>b, <1>1, <1>2, <1>3, <1>4, <1>5, <1>6, <1>7, <1>8, <1>9, <1>10, <1>11, <1>12,
     <1>13, <1>14
     DEF Next, ExecStep, ThreadStep, Threads

\* Every step of the daemon and its workers is a step of the call, or none.
LEMMA CallStep ==
  ASSUME Inv, Inv', FateInv, KillMayFail \/ SettledInv, [Next]_vars
  PROVE  [Call!CallNext]_Call!callVars
<1> USE StopperAssumption, MaxGenAssumption DEF Threads
<1> DEFINE Same == /\ UNCHANGED <<execLock, outcome, applied>>
                   /\ \A r \in Requests : pc'[r] = "new" <=> pc[r] = "new"
           Stutter == Same /\ (Stopping' <=> Stopping)
           Settles(r, f) ==
             /\ execLock = r /\ pc[r] # "new" /\ outcome[r] = "none"
             /\ outcome' = [outcome EXCEPT ![r] = f]
             /\ \A q \in Requests : pc'[q] = "new" <=> pc[q] = "new"
             /\ UNCHANGED <<execLock, applied>> /\ (Stopping' <=> Stopping)
<1>a. Stutter => UNCHANGED Call!callVars
  <2>1. Stutter => \A r \in Requests : (Fate(r))' = Fate(r)
    BY DEF Fate
  <2>2. Stutter => Stopping' = Stopping
    BY DEF Stopping
  <2> QED
    BY <2>1, <2>2 DEF Call!callVars
<1>b. Same /\ Stopping' => Call!End
  <2>1. Same => \A r \in Requests : (Fate(r))' = Fate(r)
    BY DEF Fate
  <2>2. Stopping' => Stopping' = TRUE
    BY DEF Stopping
  <2> QED
    BY <2>1, <2>2 DEF Call!End
<1>c. ASSUME NEW r \in Requests, NEW f \in {"ok", "error"}, Settles(r, f),
             f = "ok" => applied[r] # 0
      PROVE  Call!AnswerOk(r) \/ Call!AnswerError(r)
  <2>1. Stopping' = Stopping
    BY <1>c DEF Stopping
  <2>2. Fate(r) = "open"
    BY <1>c DEF Fate
  <2>3. \A q \in Requests : (Fate(q))' = IF q = r THEN f ELSE Fate(q)
    BY <1>c DEF Fate, Inv, PlainType
  <2>4. [q \in Requests |-> Fate(q)]' = [[q \in Requests |-> Fate(q)] EXCEPT ![r] = f]
    BY <2>3
  <2>5. {q \in Requests : applied[q] # 0}' = {q \in Requests : applied[q] # 0}
    BY <1>c
  <2> QED
    BY <1>c, <2>1, <2>2, <2>4, <2>5 DEF Call!AnswerOk, Call!AnswerError, Call!Becomes
<1>1. ASSUME NEW r \in Requests, ExecBegin(r) PROVE Call!Begin(r)
  <2>1. /\ pc[r] = "new" /\ outcome[r] = "none" /\ execLock = None /\ execLock' = r
        /\ pc' = [pc EXCEPT ![r] = "check"] /\ UNCHANGED <<outcome, applied>>
    BY <1>1 DEF ExecBegin, Goto, workerVars, FateInv
  <2>2. Fate(r) = "new"
    BY <2>1 DEF Fate
  <2>3. \A q \in Requests : (Fate(q))' = IF q = r THEN "open" ELSE Fate(q)
    BY <2>1 DEF Fate, Inv, PlainType
  <2>4. Stopping' = Stopping
    BY <2>1 DEF Stopping, Inv, PlainType
  <2>5. [q \in Requests |-> Fate(q)]' = [[q \in Requests |-> Fate(q)] EXCEPT ![r] = "open"]
    BY <2>3
  <2> QED
    BY <2>1, <2>2, <2>4, <2>5 DEF Call!Begin, Call!Becomes
<1>2. ASSUME NEW r \in Requests,
             EnsureCheck(r) \/ EnsureStarted(r) \/ Spawn(r) \/ ExecFailed(r)
      PROVE  Stutter
  BY <1>2 DEF EnsureCheck, EnsureStarted, Spawn, ExecFailed, Goto, workerVars, Stopping, Inv,
              PlainType
<1>3. ASSUME NEW r \in Requests, SpawnFails(r) \/ AwaitTimeout(r) \/ MarkFailed(r)
      PROVE  Settles(r, "error")
  <2>1. execLock = r /\ outcome[r] = "none"
    BY <1>3 DEF SpawnFails, AwaitTimeout, MarkFailed, FateInv, Inv, LockInv
  <2> QED
    BY <1>3, <2>1 DEF SpawnFails, AwaitTimeout, MarkFailed, Goto, workerVars, Stopping, Inv,
                      PlainType
<1>4. ASSUME NEW r \in Requests, AwaitReady(r) PROVE Stutter \/ Settles(r, "error")
  <2>1. execLock = r /\ outcome[r] = "none" /\ pc[r] = "await"
    BY <1>4 DEF AwaitReady, FateInv, Inv, LockInv
  <2>2. UNCHANGED <<execLock, applied>>
    BY <1>4 DEF AwaitReady, workerVars
  <2>3. \/ UNCHANGED outcome /\ (UNCHANGED pc \/ pc' = [pc EXCEPT ![r] = "lock"])
        \/ outcome' = [outcome EXCEPT ![r] = "error"] /\ pc' = [pc EXCEPT ![r] = "finish"]
    BY <1>4 DEF AwaitReady, Goto
  <2> QED
    BY <2>1, <2>2, <2>3 DEF Stopping, Inv, PlainType
<1>5. ASSUME NEW r \in Requests, ExecFinish(r) PROVE Call!Close(r)
  <2>1. /\ execLock = r /\ outcome[r] \in {"ok", "error"} /\ pc[r] = "finish"
        /\ execLock' = None /\ pc' = [pc EXCEPT ![r] = "done"] /\ UNCHANGED <<outcome, applied>>
    BY <1>5 DEF ExecFinish, Goto, workerVars, FateInv, Inv, LockInv, PlainType
  <2>2. Fate(r) \in {"ok", "error"} /\ \A q \in Requests : (Fate(q))' = Fate(q)
    BY <2>1 DEF Fate, Inv, PlainType
  <2>3. Stopping' = Stopping
    BY <2>1 DEF Stopping, Inv, PlainType
  <2> QED
    BY <2>1, <2>2, <2>3 DEF Call!Close
<1>6. ASSUME NEW t \in Threads,
             LockIo(t) \/ Write(t) \/ ReceiveTimeout(t) \/ StopExited(t) \/ StopKill(t)
      PROVE  Stutter
  BY <1>6 DEF LockIo, Write, ReceiveTimeout, StopExited, StopKill, AfterFailure, Goto, workerVars,
              Stopping, Inv, PlainType
<1>7. ASSUME NEW t \in Threads, Receive(t)
      PROVE  \/ Stutter
             \/ t \in Requests /\ \E f \in {"ok", "error"} :
                  Settles(t, f) /\ (f = "ok" => applied[t] # 0)
  <2>1. pc[t] \in {"wait", "stopWait"} /\ UNCHANGED <<execLock, applied>>
    BY <1>7 DEF Receive, workerVars
  <2>2. \/ /\ pc[t] = "wait" /\ outcome' = [outcome EXCEPT ![t] = "ok"]
           /\ pc' = [pc EXCEPT ![t] = "finish"]
        \/ UNCHANGED outcome /\ (UNCHANGED pc \/ pc' = [pc EXCEPT ![t] = AfterFailure(t)])
    BY <1>7 DEF Receive, Goto
  <2>3. CASE UNCHANGED outcome
    BY <2>1, <2>2, <2>3 DEF AfterFailure, Stopping, Inv, PlainType
  <2>4. CASE /\ pc[t] = "wait" /\ outcome' = [outcome EXCEPT ![t] = "ok"]
             /\ pc' = [pc EXCEPT ![t] = "finish"]
    <3>1. t \in Requests /\ execLock = t /\ outcome[t] = "none"
      BY <2>4 DEF FateInv, Inv, LockInv, StopSites
    <3>2. applied[t] # 0
      BY <2>1, <2>4, <3>1 DEF Inv, OkMeansApplied, PlainType
    <3>3. Settles(t, "ok")
      BY <2>1, <2>4, <3>1 DEF Stopping, Inv, PlainType
    <3> QED
      BY <3>1, <3>2, <3>3
  <2> QED
    BY <2>2, <2>3, <2>4
<1>8. ASSUME NEW t \in Threads, StopCapture(t) \/ StopDrop(t) PROVE Stutter \/ (Same /\ Stopping')
  BY <1>8 DEF StopCapture, StopDrop, AfterStop, Goto, workerVars, Stopping, Inv, PlainType
<1>9. StopBegin \/ DaemonExit \/ (\E g \in Gens : Pump(g)) => Stutter
  BY DEF StopBegin, DaemonExit, Pump, Goto, daemonVars, workerVars, Stopping, Inv, PlainType
<1>10. ASSUME NEW g \in Gens,
              WorkerReady(g) \/ WorkerTake(g) \/ WorkerAnswer(g) \/ WorkerShutdown(g)
                \/ WorkerCrash(g) \/ WatchParent(g)
       PROVE  Stutter
  BY <1>10 DEF WorkerReady, WorkerTake, WorkerAnswer, WorkerShutdown, WorkerCrash, WatchParent,
               daemonVars, Stopping
<1>11. ASSUME NEW g \in Gens, WorkerApply(g) PROVE \E r \in Requests : Call!Run(r)
  <2>0. /\ wst[g] = "work" /\ job[g].exec
        /\ applied' = [applied EXCEPT ![job[g].by] = @ + 1]
        /\ UNCHANGED <<execLock, outcome, pc>>
    BY <1>11 DEF WorkerApply, daemonVars
  <2>1. PICK r \in Requests :
          /\ r = job[g].by /\ pc[r] \notin Before /\ applied[r] = 0
          /\ applied' = [applied EXCEPT ![r] = 1]
    <3>1. job[g].by \in Requests /\ pc[job[g].by] \notin Before /\ applied[job[g].by] = 0
      BY <2>0 DEF Inv, JobInv
    <3>2. PICK r \in Requests : r = job[g].by
      BY <3>1
    <3>3. /\ pc[r] \notin Before /\ applied[r] = 0
          /\ applied' = [applied EXCEPT ![r] = @ + 1]
      BY <2>0, <3>1, <3>2
    <3>4. applied' = [applied EXCEPT ![r] = 1]
      BY <3>3 DEF Inv, PlainType
    <3> QED
      BY <3>2, <3>3, <3>4
  <2>2. outcome[r] # "ok"
    BY <2>1 DEF Inv, OkMeansApplied
  <2>3. outcome[r] = "error" => KillMayFail \/ Stopping
    BY <2>0, <2>1 DEF SettledInv, NoLine
  <2>4. Fate(r) = "open" \/ (Fate(r) = "error" /\ (KillMayFail \/ Stopping))
    BY <2>1, <2>2, <2>3 DEF Fate, Inv, PlainType, Before
  <2>5. {q \in Requests : applied'[q] # 0} = {q \in Requests : applied[q] # 0} \cup {r}
    BY <2>1 DEF Inv, PlainType
  <2>6. UNCHANGED <<execLock, [q \in Requests |-> Fate(q)], Stopping>>
    BY <2>0, <2>1 DEF Fate, Stopping
  <2>7. r \notin {q \in Requests : applied[q] # 0}
    BY <2>1
  <2>8. Call!Run(r)
    BY <2>1, <2>4, <2>5, <2>6, <2>7 DEF Call!Run
  <2> QED
    BY <2>8
<1>12. UNCHANGED vars => Stutter
  BY DEF vars, daemonVars, workerVars, Stopping
<1> DEFINE Allowed == Call!CallNext \/ UNCHANGED Call!callVars
<1> HIDE DEF Stutter, Same, Settles
<1>13. /\ Same /\ Stopping' => Allowed
       /\ Stutter => Allowed
       /\ \A r \in Requests, f \in {"ok", "error"} :
            Settles(r, f) /\ (f = "ok" => applied[r] # 0) => Allowed
  BY <1>a, <1>b, <1>c DEF Call!CallNext
<1>14. ASSUME NEW r \in Requests, ExecBegin(r) \/ ExecFinish(r) PROVE Allowed
  BY <1>14, <1>1, <1>5 DEF Call!CallNext
<1>15. ASSUME NEW g \in Gens, WorkerApply(g) PROVE Allowed
  <2>1. PICK r \in Requests : Call!Run(r)
    BY <1>15, <1>11, Zenon
  <2> QED
    BY <2>1 DEF Call!CallNext
<1> HIDE DEF Allowed
<1>16. ASSUME NEW t \in Threads, ThreadStep(t) PROVE Allowed
  BY <1>16, <1>6, <1>7, <1>8, <1>13 DEF ThreadStep
<1>17. ASSUME NEW r \in Requests, ExecStep(r) PROVE Allowed
  <2>1. r \in Threads
    OBVIOUS
  <2> QED
    BY <1>17, <2>1, <1>2, <1>3, <1>4, <1>13, <1>14, <1>16 DEF ExecStep
<1>18. Allowed
  BY <1>9, <1>10, <1>12, <1>13, <1>15, <1>16, <1>17 DEF Next
<1> QED
  BY <1>18 DEF Allowed

\* Initially no call has begun.
LEMMA CallStart == Init => CallInv /\ Call!CallInit
<1> SUFFICES ASSUME Init PROVE CallInv /\ Call!CallInit
  OBVIOUS
<1>1. CallInv
  BY DEF Init, CallInv, FateInv, EmptyInv, SettledInv, Threads
<1>2. \A r \in Requests : Fate(r) = "new" /\ applied[r] = 0
  BY DEF Init, Fate, Threads
<1>3. Stopping = FALSE /\ execLock = None
  BY DEF Init, Stopping, Threads
<1> QED
  BY <1>1, <1>2, <1>3 DEF Call!CallInit

\* However answers are lost, late or crossed and workers end or are replaced, a
\* request is a call: it takes effect at most once and not after its error.
THEOREM RequestsImplementCall == Spec => ImplementsCall
<1>1. CASE ~KillMayFail
  <2>1. Inv /\ HandleInv /\ CallInv /\ [Next]_vars => CallInv'
    BY <1>1, FateStep, EmptyStep, SettledStep DEF CallInv
  <2>2. Inv /\ Inv' /\ CallInv /\ [Next]_vars => [Call!CallNext]_Call!callVars
    BY CallStep DEF CallInv
  <2> QED
    BY <1>1, <2>1, <2>2, CallStart, Invariant, HandleInit, HandleStep, PTL
       DEF Spec, ImplementsCall, Call!CallSpec
<1>2. CASE KillMayFail
  <2>1. Init => FateInv /\ Call!CallInit
    BY CallStart DEF CallInv
  <2>2. Inv /\ Inv' /\ FateInv /\ [Next]_vars => [Call!CallNext]_Call!callVars
    BY <1>2, CallStep
  <2> QED
    BY <2>1, <2>2, FateStep, Invariant, PTL DEF Spec, ImplementsCall, Call!CallSpec
<1> QED
  BY <1>1, <1>2
===============================================================================
