SPECIFICATION Spec
CONSTANTS
  None = None
  Remotes = {r1}
  Sessions = {s1, s2}
  Forwards = {f1, f2, f3}
INVARIANT RecordedIdentityIsTrue
