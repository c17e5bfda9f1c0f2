-------------------------- MODULE ShaderReplacements --------------------------
(***************************************************************************)
(* The shader replacements of the sessions of one worker                   *)
(* (rdc_tool/core/patch_engine.py and the shader, capture and session      *)
(* handlers of rdc_tool/server_runtime.py).  The same replacement is known *)
(* in four places: in force in the native controller, in the records of    *)
(* the patch engine, in the metadata of the runtime and in the session     *)
(* record of the state file, from which a recovery applies it again.       *)
(*                                                                         *)
(* A worker executes one operation at a time and may be lost at any step.  *)
(* Every native call may raise.  A target is named by the record of the    *)
(* engine that holds it.                                                   *)
(***************************************************************************)
EXTENDS FiniteSets, Naturals, SequencesExt

CONSTANTS
  ShaderSessions,  \* session_ids
  Shaders,         \* original shader ids of a capture
  Ids,             \* replacement_ids, also called patch_ids
  NativeMayRaise,  \* a native call of a replacement may raise
  Nil,
  Stray            \* a target no record of the engine holds

ASSUME RaiseAssumption == NativeMayRaise \in BOOLEAN
ASSUME NilAssumption == Nil \notin Ids \cup ShaderSessions /\ Stray \notin Ids \cup {Nil}

VARIABLES
  at,        \* what the worker is doing, "down" when there is none
  job,       \* the operation in progress
  up,        \* sessions with a controller
  inForce,   \* the controller: the record whose target replaces a shader
  patches,   \* PatchEngine._patches, in the order of the dictionary
  meta,      \* _runtime.shader_replacements
  kept,      \* state file: the session records and their shader_replacements
  \* history
  untracked, \* shaders whose replacement in force the engine gave up
  promised,  \* edits answered "applied" and not reverted, edited or removed
  reverted   \* reverts answered with success and not edited again

native  == <<up, inForce>>
history == <<untracked, promised, reverted>>
shaderVars == <<at, job, native, patches, meta, kept, history>>

---------------------------------------------------------------------------
Absent == [status |-> "absent", list |-> <<>>]
NoJob  == [session |-> Nil, entry |-> Nil, todo |-> <<>>]
Captured == [k \in Shaders |-> Nil]

\* An entry of the metadata; list_replacements makes one without patch_spec.
Entry(i, k, spec) == [id |-> i, shader |-> k, spec |-> spec]

\* The entries of q that are in T, in their order: SelectSeq with a set for the
\* condition, as a recursive function.
Filter(q, T) ==
  LET upTo[n \in 0 .. Len(q)] == IF n = 0 THEN <<>>
                                 ELSE IF q[n] \in T THEN Append(upTo[n - 1], q[n])
                                 ELSE upTo[n - 1]
  IN  upTo[Len(q)]

IdsOf(q)      == {q[n].id : n \in DOMAIN q}
Without(q, i) == Filter(q, {e \in ToSet(q) : e.id # i})
PatchesOf(s)  == Filter(patches, {e \in ToSet(patches) : e.session = s})
Usable(s)     == kept[s].status = "ready"
KeptSessions  == {s \in ShaderSessions : kept[s] # Absent}

\* Mutant: an old key is entered a second time.
PutAppends(q, e) == Append(q, e)

\* Assignment to a Python dictionary: an old key keeps its place.
Put(q, e) == IF e.id \in IdsOf(q)
               THEN [n \in DOMAIN q |-> IF q[n].id = e.id THEN e ELSE q[n]]
               ELSE Append(q, e)

ShaderInit ==
  /\ at = "idle" /\ job = NoJob
  /\ up = {} /\ inForce = [s \in ShaderSessions |-> Captured]
  /\ patches = <<>>
  /\ meta = [s \in ShaderSessions |-> <<>>]
  /\ kept = [s \in ShaderSessions |-> Absent]
  /\ untracked = {} /\ promised = {} /\ reverted = {}

Rest     == at' = "idle" /\ job' = NoJob
Go(l, j) == at' = l /\ job' = j

---------------------------------------------------------------------------
(* The native replacement: apply_patch and revert_patch                     *)

\* Rejected before ReplaceResource, by the build, or by ReplaceResource.
ApplyRefused == UNCHANGED <<inForce, patches, untracked>>

\* Mutant: the roll-back only frees the target.
RemovedNot(s, k) == [inForce EXCEPT ![s][k] = Stray]

\* RemoveReplacement: the captured shader, also under an older replacement.
Removed(s, k) == [inForce EXCEPT ![s][k] = Nil]

\* The event cannot be bound again, or has lost its outputs.
ApplyRolledBack(s, k) ==
  /\ inForce' = Removed(s, k)
  /\ untracked' = untracked \ {<<s, k>>}
  /\ UNCHANGED patches

\* RemoveReplacement raises in the roll-back, or the first GetPipelineState
\* after the replacement does.
ApplyLeft(s, k) ==
  /\ NativeMayRaise
  /\ inForce' = [inForce EXCEPT ![s][k] = Stray]
  /\ untracked' = untracked \cup {<<s, k>>}
  /\ UNCHANGED patches

\* A record under the same id is overwritten, whatever it was about.
ApplyDone(s, i, k) ==
  LET robbed == {p \in ShaderSessions \X Shaders : inForce[p[1]][p[2]] = i} \ {<<s, k>>}
  IN  /\ inForce' = [z \in ShaderSessions |-> [x \in Shaders |->
                       IF z = s /\ x = k THEN i
                       ELSE IF <<z, x>> \in robbed THEN Stray ELSE inForce[z][x]]]
      /\ untracked' = (untracked \ {<<s, k>>}) \cup robbed
      /\ patches' = Put(patches, [id |-> i, session |-> s, shader |-> k])

Known(s, i) == \E n \in DOMAIN patches : patches[n].id = i /\ patches[n].session = s
ShaderOf(i) == (CHOOSE e \in ToSet(patches) : e.id = i).shader

RevertDone(s, i) ==
  /\ inForce' = Removed(s, ShaderOf(i))
  /\ untracked' = untracked \ {<<s, ShaderOf(i)>>}
  /\ patches' = Without(patches, i)

\* RemoveReplacement, SetFrameEvent or FreeTargetResource raises: the record
\* stays, and the replacement too when it was the first of them.
RevertRaises(s, i) ==
  /\ NativeMayRaise
  /\ \/ UNCHANGED <<inForce, untracked>>
     \/ /\ inForce' = Removed(s, ShaderOf(i))
        /\ untracked' = untracked \ {<<s, ShaderOf(i)>>}
  /\ UNCHANGED patches

---------------------------------------------------------------------------
(* The worker                                                               *)

ShaderWorkerLost ==
  /\ at # "down"
  /\ Go("down", NoJob)
  /\ up' = {} /\ inForce' = [s \in ShaderSessions |-> Captured]
  /\ patches' = <<>> /\ meta' = [s \in ShaderSessions |-> <<>>]
  /\ untracked' = {}
  /\ UNCHANGED <<kept, promised, reverted>>

\* The next worker, with the quarantine of the records or without it.
ShaderWorkerStart ==
  /\ at = "down"
  /\ Rest
  /\ \/ kept' = [s \in ShaderSessions |-> IF s \in KeptSessions
                                            THEN [kept[s] EXCEPT !.status = "requires_restart"]
                                            ELSE Absent]
     \/ UNCHANGED kept
  /\ UNCHANGED <<native, patches, meta, history>>

---------------------------------------------------------------------------
(* Sessions: open, health, recovery, close, clear, shutdown                 *)

\* A session id is never given twice.
OpenSession(s) ==
  /\ at = "idle"
  /\ kept[s] = Absent /\ meta[s] = <<>> /\ PatchesOf(s) = <<>>
  /\ up' = up \cup {s}
  /\ kept' = [kept EXCEPT ![s] = [status |-> "ready", list |-> <<>>]]
  /\ UNCHANGED <<at, job, inForce, patches, meta, history>>

\* The health of the replay after an operation.
FatalReplay(s) ==
  /\ at = "idle"
  /\ s \in up
  /\ kept' = [kept EXCEPT ![s].status = "requires_restart"]
  /\ UNCHANGED <<at, job, native, patches, meta, history>>

\* An operation on a session that is not live opens it and then applies the
\* replacements of its record again, one after the other.
RecoverSession(s) ==
  /\ at = "idle"
  /\ s \notin up /\ Usable(s)
  /\ up' = up \cup {s}
  /\ Go("reapply", [session |-> s, entry |-> Nil, todo |-> kept[s].list])
  /\ UNCHANGED <<inForce, patches, meta, kept, history>>

Reapply ==
  /\ at = "reapply"
  /\ job.todo # <<>>
  /\ Head(job.todo).spec
  /\ ApplyDone(job.session, Head(job.todo).id, Head(job.todo).shader)
  /\ Go("reapply", [job EXCEPT !.todo = Tail(@)])
  /\ promised' = {p \in promised : p[1] = job.session \/ p[2] # Head(job.todo).id}
  /\ UNCHANGED <<up, meta, kept, reverted>>

\* Mutant: the runtime is not told what was applied again.
ReapplyKnownNot(s) == meta

ReapplyKnown(s) ==
  IF kept[s].list = <<>> THEN meta ELSE [meta EXCEPT ![s] = kept[s].list]

\* A record without replacements takes what the runtime still lists.
ReapplyEnd ==
  /\ at = "reapply"
  /\ job.todo = <<>>
  /\ LET s == job.session
     IN  /\ meta' = ReapplyKnown(s)
         /\ kept' = [kept EXCEPT ![s] = [status |-> "ready",
                                         list |-> IF @.list = <<>> THEN meta[s] ELSE @.list]]
  /\ Rest
  /\ UNCHANGED <<native, patches, history>>

\* Opening the replay, a missing patch_spec or a refused patch: the session is
\* closed again, its record says degraded, which is as good as ready for the
\* next attempt, and the engine keeps what it applied.
ReapplyFails ==
  /\ at = "reapply"
  /\ LET s == job.session
     IN  /\ up' = up \ {s}
         /\ inForce' = [inForce EXCEPT ![s] = Captured]
         /\ untracked' = {p \in untracked : p[1] # s}
  /\ Rest
  /\ UNCHANGED <<patches, meta, kept, promised, reverted>>

\* revert_all keeps the records of the patches it could not revert.
RevertAll(S) ==
  \E stuck \in SUBSET {patches[n].id : n \in {m \in DOMAIN patches : patches[m].session \in S}} :
    /\ stuck # {} => NativeMayRaise
    /\ patches' = Filter(patches, {e \in ToSet(patches) : e.session \notin S \/ e.id \in stuck})

CloseDown(S) ==
  /\ up' = up \ S
  /\ inForce' = [s \in ShaderSessions |-> IF s \in S THEN Captured ELSE inForce[s]]
  /\ untracked' = {p \in untracked : p[1] \notin S}

\* What is said of a session ends with its record.
Settled(S, pairs) == {p \in pairs : p[1] \notin S}

CloseSession(s) ==
  /\ at = "idle"
  /\ s \in up
  /\ RevertAll({s})
  /\ CloseDown({s})
  /\ meta' = [meta EXCEPT ![s] = <<>>]
  /\ Go("close", [NoJob EXCEPT !.session = s])
  /\ UNCHANGED <<kept, promised, reverted>>

CloseKept ==
  /\ at = "close"
  /\ kept' = [kept EXCEPT ![job.session] = Absent]
  /\ promised' = Settled({job.session}, promised)
  /\ reverted' = Settled({job.session}, reverted)
  /\ Rest
  /\ UNCHANGED <<native, patches, meta, untracked>>

\* A session this worker does not hold: session_not_found, after the metadata
\* is gone; without a controller nothing is reverted.
CloseUnheld(s) ==
  /\ at = "idle"
  /\ s \in KeptSessions \ up
  /\ meta' = [meta EXCEPT ![s] = <<>>]
  /\ UNCHANGED <<at, job, native, patches, kept, history>>

\* close_file removes the records of its capture, when no replay is live.
CloseCapture(s) ==
  /\ at = "idle"
  /\ s \in KeptSessions \ up
  /\ kept' = [kept EXCEPT ![s] = Absent]
  /\ promised' = Settled({s}, promised) /\ reverted' = Settled({s}, reverted)
  /\ UNCHANGED <<at, job, native, patches, meta, untracked>>

\* clear_context closes the sessions, leaves engine and metadata alone, and
\* gives up before the records when one of them has no native session.
ClearContext ==
  /\ at = "idle"
  /\ CloseDown(up)
  /\ IF KeptSessions \subseteq up
       THEN /\ kept' = [s \in ShaderSessions |-> Absent]
            /\ promised' = {} /\ reverted' = {}
       ELSE UNCHANGED <<kept, promised, reverted>>
  /\ UNCHANGED <<at, job, patches, meta>>

\* rd.core.shutdown
CoreShutdown ==
  /\ at = "idle"
  /\ RevertAll(up)
  /\ CloseDown(up)
  /\ meta' = [s \in ShaderSessions |-> <<>>]
  /\ kept' = [s \in ShaderSessions |-> Absent]
  /\ promised' = {} /\ reverted' = {}
  /\ UNCHANGED <<at, job>>

---------------------------------------------------------------------------
(* rd.shader.edit_and_replace                                               *)

Editable(s) == at = "idle" /\ s \in up /\ Usable(s)

\* An edit or a revert of an id ends what was said of it.
Reopened(i, pairs) == {p \in pairs : p[2] # i}

\* The operations change nothing (status "noop"), or nothing is left of them.
EditFails(s, k) ==
  /\ Editable(s)
  /\ ApplyRefused \/ ApplyRolledBack(s, k) \/ ApplyLeft(s, k)
  /\ UNCHANGED <<at, job, up, meta, kept, promised, reverted>>

Edit(s, i, k) ==
  /\ Editable(s)
  /\ ApplyDone(s, i, k)
  /\ Go("applied", [session |-> s, entry |-> Entry(i, k, TRUE), todo |-> <<>>])
  /\ promised' = Reopened(i, promised)
  /\ reverted' = reverted \ {<<s, i>>}
  /\ UNCHANGED <<up, meta, kept>>

\* An artifact cannot be written: the patch stays, only the engine knows it.
EditArtifactFails ==
  /\ at = "applied"
  /\ Rest
  /\ UNCHANGED <<native, patches, meta, kept, history>>

\* _store_replacement_payload
EditStore ==
  /\ at = "applied"
  /\ LET s == job.session
         q == Append(Without(meta[s], job.entry.id), job.entry)
     IN  /\ meta' = [meta EXCEPT ![s] = q]
         /\ kept' = [kept EXCEPT ![s].list = q]
  /\ Go("validate", job)
  /\ UNCHANGED <<native, patches, history>>

EditValid ==
  /\ at = "validate"
  /\ promised' = promised \cup {<<job.session, job.entry.id>>}
  /\ Rest
  /\ UNCHANGED <<native, patches, meta, kept, untracked, reverted>>

\* A remote replay that lost its outputs: the payload is taken back, and the
\* patch as far as the controller lets it.
EditInvalid ==
  /\ at = "validate"
  /\ LET s == job.session
         i == job.entry.id
     IN  /\ meta' = [meta EXCEPT ![s] = Without(@, i)]
         /\ kept' = [kept EXCEPT ![s].list = Without(meta[s], i)]
         /\ RevertDone(s, i) \/ RevertRaises(s, i)
  /\ Rest
  /\ UNCHANGED <<up, promised, reverted>>

---------------------------------------------------------------------------
(* rd.shader.list_replacements and rd.shader.revert_replacement             *)

\* What the engine has, described by the metadata where it knows it.
Listing(s) ==
  LET own == PatchesOf(s)
      Described(e) == IF e.id \in IdsOf(meta[s])
                        THEN CHOOSE x \in ToSet(meta[s]) : x.id = e.id
                        ELSE Entry(e.id, e.shader, FALSE)
  IN  [n \in DOMAIN own |-> Described(own[n])]

List(s) ==
  /\ Editable(s)
  /\ meta' = [meta EXCEPT ![s] = Listing(s)]
  /\ UNCHANGED <<at, job, native, patches, kept, history>>

RevertFails(s, i) ==
  /\ Editable(s)
  /\ meta' = [meta EXCEPT ![s] = Listing(s)]
  /\ IF Known(s, i)
       THEN RevertRaises(s, i)
       ELSE UNCHANGED <<inForce, patches, untracked>>
  /\ promised' = promised \ {<<s, i>>}
  /\ UNCHANGED <<at, job, up, kept, reverted>>

Revert(s, i) ==
  /\ Editable(s)
  /\ Known(s, i)
  /\ RevertDone(s, i)
  /\ meta' = [meta EXCEPT ![s] = Listing(s)]
  /\ promised' = promised \ {<<s, i>>}
  /\ Go("revert", [session |-> s, entry |-> Entry(i, ShaderOf(i), TRUE), todo |-> <<>>])
  /\ UNCHANGED <<up, kept, reverted>>

\* Mutant: the session record is left as it is.
RevertedRecordOld(s, q) == kept

\* _sync_context_session_replacements
RevertedRecord(s, q) == [kept EXCEPT ![s].list = q]

RevertStore ==
  /\ at = "revert"
  /\ LET s == job.session
         q == Without(meta[s], job.entry.id)
     IN  /\ meta' = [meta EXCEPT ![s] = q]
         /\ kept' = RevertedRecord(s, q)
         /\ reverted' = reverted \cup {<<s, job.entry.id>>}
  /\ Rest
  /\ UNCHANGED <<native, patches, untracked, promised>>

---------------------------------------------------------------------------
SessionStep(s) ==
  \/ OpenSession(s) \/ FatalReplay(s) \/ RecoverSession(s)
  \/ CloseSession(s) \/ CloseUnheld(s) \/ CloseCapture(s) \/ List(s)
  \/ \E k \in Shaders : EditFails(s, k)

ShaderStep(s, i) ==
  \/ \E k \in Shaders : Edit(s, i, k)
  \/ RevertFails(s, i) \/ Revert(s, i)

ShaderNext ==
  \/ ShaderWorkerLost \/ ShaderWorkerStart
  \/ \E s \in ShaderSessions : SessionStep(s) \/ \E i \in Ids : ShaderStep(s, i)
  \/ Reapply \/ ReapplyEnd \/ ReapplyFails
  \/ CloseKept \/ ClearContext \/ CoreShutdown
  \/ EditArtifactFails \/ EditStore \/ EditValid \/ EditInvalid \/ RevertStore

ShaderSpec == ShaderInit /\ [][ShaderNext]_shaderVars

---------------------------------------------------------------------------
Entries == [id : Ids, shader : Shaders, spec : BOOLEAN]
Unique(q) == Cardinality(IdsOf(q)) = Len(q)

\* A controller that is not up has nothing in force, and an id appears once in
\* the engine, in the metadata of a session and in its record.
ShaderTypeOK ==
  /\ at \in {"down", "idle", "reapply", "close", "applied", "validate", "revert"}
  /\ job.session \in ShaderSessions \cup {Nil} /\ job.entry \in Entries \cup {Nil}
  /\ ToSet(job.todo) \subseteq Entries
  /\ up \subseteq ShaderSessions
  /\ inForce \in [ShaderSessions -> [Shaders -> Ids \cup {Nil, Stray}]]
  /\ ToSet(patches) \subseteq [id : Ids, session : ShaderSessions, shader : Shaders]
  /\ \A s \in ShaderSessions :
       /\ s \notin up => inForce[s] = Captured
       /\ ToSet(meta[s]) \cup ToSet(kept[s].list) \subseteq Entries
       /\ Unique(meta[s]) /\ Unique(kept[s].list)
       /\ kept[s].status \in {"absent", "ready", "requires_restart"}
  /\ Unique(patches)
  /\ untracked \subseteq ShaderSessions \X Shaders
  /\ promised \cup reverted \subseteq ShaderSessions \X Ids

\* Every replacement in force can still be reverted: the engine has a record
\* of it for this session and shader, whatever failed on the way
\* (docs/session-model.md 112).  The engine itself gives up two kinds: one left
\* by a native call that raised after the replacement, and one whose id an
\* edit of another shader took over.
InForceIsRevertible ==
  \A s \in up, k \in Shaders :
    inForce[s][k] # Nil /\ <<s, k>> \notin untracked
      => \E e \in ToSet(patches) : e = [id |-> inForce[s][k], session |-> s, shader |-> k]

\* A replacement that was reverted is in no list a recovery, a listing or a
\* later edit could take it from, over any losses of the worker, until its id
\* is edited again.
RevertedStaysReverted ==
  \A p \in reverted :
    /\ ~Known(p[1], p[2])
    /\ p[2] \notin IdsOf(meta[p[1]]) \cup IdsOf(kept[p[1]].list)

\* An edit that was answered "applied" is in the record of its session until
\* it is reverted, its id is applied again or the session ends: failed edits,
\* listings, losses and recoveries of other replacements do not lose it.
AppliedStaysRecorded ==
  \A p \in promised : p[2] \in IdsOf(kept[p[1]].list)
===============================================================================
