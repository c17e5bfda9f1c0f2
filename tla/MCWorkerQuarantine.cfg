SPECIFICATION Spec
CONSTANTS
  None = None
  Requests = {r1, r2}
  Stopper = stopper
  MaxGen = 2
  KillMayFail = FALSE
SYMMETRY RequestSymmetry
INVARIANT QuarantineBeforeDispatch
CHECK_DEADLOCK FALSE
