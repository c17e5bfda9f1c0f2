SPECIFICATION Spec
CONSTANTS
  None = None
  Captures = {c1, c2}
  Sessions = {s1, s2, s3}
  MaxSessions = 2
INVARIANT RecordedCanBeClosed
