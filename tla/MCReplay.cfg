SPECIFICATION SessionSpec
CONSTANTS
  None = None
  Captures = {c1, c2, c3}
  Sessions = {s1, s2, s3}
  MaxSessions = 2
  Nil = Nil
  ShaderSessions = {s1, s2}
  Shaders = {k1}
  Ids = {i1, i2}
  NativeMayRaise = TRUE
  Stray = Stray
SYMMETRY ShaderSymmetry
INVARIANTS TypeOK NativeIsRecorded OneReplayPerCapture WithinLimit AnswerIsTrue SelectedIsRecorded
INVARIANTS ShaderTypeOK InForceIsRevertible RevertedStaysReverted AppliedStaysRecorded
PROPERTY QuarantineStays
