----------------------------- MODULE RemoteCall -----------------------------
(***************************************************************************)
(* What the daemon promises a client that sends it a request, without the  *)
(* worker, the pipes and the deadlines that realise it.  One call is open  *)
(* at a time.  It takes effect at most once, and at latest before it is    *)
(* answered: ok says that it did, an error leaves open whether it did, but *)
(* it will not do so later.  Only a worker that outlives a kill, or a      *)
(* daemon that ends, lets go of a call that is still under way.            *)
(* WorkerRequests implements this specification.                           *)
(***************************************************************************)
CONSTANTS
  Requests,
  Late,   \* whether a worker may outlive a kill
  None

VARIABLES
  open,   \* the call in progress, or None
  fate,   \* what each client knows of its call
  ran,    \* the calls that took effect
  ending  \* the daemon is about to exit

callVars == <<open, fate, ran, ending>>

CallInit ==
  /\ open = None
  /\ fate = [r \in Requests |-> "new"]
  /\ ran = {}
  /\ ending = FALSE

Becomes(r, f) == fate' = [fate EXCEPT ![r] = f]

Begin(r) ==
  /\ open = None /\ fate[r] = "new"
  /\ open' = r
  /\ Becomes(r, "open")
  /\ UNCHANGED <<ran, ending>>

Run(r) ==
  /\ r \notin ran
  /\ fate[r] = "open" \/ (fate[r] = "error" /\ (Late \/ ending))
  /\ ran' = ran \cup {r}
  /\ UNCHANGED <<open, fate, ending>>

AnswerOk(r) ==
  /\ open = r /\ fate[r] = "open" /\ r \in ran
  /\ Becomes(r, "ok")
  /\ UNCHANGED <<open, ran, ending>>

AnswerError(r) ==
  /\ open = r /\ fate[r] = "open"
  /\ Becomes(r, "error")
  /\ UNCHANGED <<open, ran, ending>>

Close(r) ==
  /\ open = r /\ fate[r] \in {"ok", "error"}
  /\ open' = None
  /\ UNCHANGED <<fate, ran, ending>>

End ==
  /\ ending' = TRUE
  /\ UNCHANGED <<open, fate, ran>>

CallNext ==
  \/ \E r \in Requests : Begin(r) \/ Run(r) \/ AnswerOk(r) \/ AnswerError(r) \/ Close(r)
  \/ End

CallSpec == CallInit /\ [][CallNext]_callVars
=============================================================================
