----------------------------- MODULE FileRegister -----------------------------
(***************************************************************************)
(* What a state file promises to the processes that share it: it holds the *)
(* text of one write or none, changes at once or not at all, and a reader   *)
(* gets what it holds.  A writer that is killed may or may not have written.*)
(***************************************************************************)
CONSTANTS Writers, Readers, Missing

VARIABLES
  value,   \* the writer whose text the file holds, Missing when there is none
  outcome, \* of the last write of every writer
  seen     \* what every reader read last

registerVars == <<value, outcome, seen>>

RegisterInit ==
  /\ value = Missing
  /\ outcome = [w \in Writers |-> "none"]
  /\ seen = [r \in Readers |-> Missing]

Ends(w, o) == outcome' = [outcome EXCEPT ![w] = o]

Begin(w) == outcome[w] # "writing" /\ Ends(w, "writing") /\ UNCHANGED <<value, seen>>
Write(w) == outcome[w] = "writing" /\ Ends(w, "written") /\ value' = w /\ UNCHANGED seen
Fail(w)  == outcome[w] = "writing" /\ Ends(w, "failed") /\ UNCHANGED <<value, seen>>
Remove   == value' = Missing /\ UNCHANGED <<outcome, seen>>
Read(r)  == seen' = [seen EXCEPT ![r] = value] /\ UNCHANGED <<value, outcome>>

RegisterNext ==
  \/ \E w \in Writers : Begin(w) \/ Write(w) \/ Fail(w)
  \/ Remove
  \/ \E r \in Readers : Read(r)

RegisterSpec == RegisterInit /\ [][RegisterNext]_registerVars
===============================================================================
