--------------------------- MODULE MCReplayContext ---------------------------
\* The session state of one worker for TLC: the replays with their records, and
\* the shader replacements of the sessions.  The two share no variable; a
\* behaviour takes the steps of one of them and leaves the other at its start.
EXTENDS ReplayContext, ShaderReplacements, TLC

VARIABLE part

SessionInit == Init /\ ShaderInit /\ part \in {"replays", "shaders"}

SessionNext ==
  /\ UNCHANGED part
  /\ \/ part = "replays" /\ Next /\ UNCHANGED shaderVars
     \/ part = "shaders" /\ ShaderNext /\ UNCHANGED vars

SessionSpec == SessionInit /\ [][SessionNext]_<<vars, shaderVars, part>>

ShaderSymmetry == Permutations(ShaderSessions) \cup Permutations(Ids)
==============================================================================
