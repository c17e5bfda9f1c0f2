---------------------------- MODULE OwnerLease ----------------------------
(***************************************************************************)
(* What daemon ownership promises a caller, without the locks and files    *)
(* that realise it.  One context has at most one owner; the owner leaves a *)
(* receipt (its pid, pipe name and token) that nobody removes before that  *)
(* owner has exited and that no other daemon overwrites; a daemon that has *)
(* exited never owns the context again.                                    *)
(* DaemonOwnership implements this specification.                          *)
(***************************************************************************)
CONSTANTS
  Daemons,  \* daemon process incarnations
  None

VARIABLES
  holder,   \* the daemon that owns the context, or None
  receipt,  \* the daemon the published state names, or None
  exited    \* the daemons whose process has ended

vars == <<holder, receipt, exited>>

Init ==
  /\ holder = None
  /\ receipt = None
  /\ exited = {}

Acquire(d) ==
  /\ holder = None
  /\ d \notin exited
  /\ holder' = d
  /\ UNCHANGED <<receipt, exited>>

Publish ==
  /\ holder # None
  /\ receipt = None
  /\ receipt' = holder
  /\ UNCHANGED <<holder, exited>>

\* The process ends, holding the lease or not; its receipt outlives it.
Exit(d) ==
  /\ d \notin exited
  /\ exited' = exited \cup {d}
  /\ holder' = IF holder = d THEN None ELSE holder
  /\ UNCHANGED receipt

Retire ==
  /\ receipt \in exited
  /\ receipt' = None
  /\ UNCHANGED <<holder, exited>>

Next ==
  \/ \E d \in Daemons : Acquire(d) \/ Exit(d)
  \/ Publish
  \/ Retire

Spec == Init /\ [][Next]_vars
===========================================================================
