SPECIFICATION Spec
CONSTANTS
  None = None
  Remotes = {r1, r2}
  Sessions = {s1}
  Forwards = {f1, f2, f3}
INVARIANT ClearForgetsReleased
