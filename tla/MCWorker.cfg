SPECIFICATION Spec
CONSTANTS
  None = None
  Requests = {r1, r2}
  Stopper = stopper
  MaxGen = 2
  KillMayFail = FALSE
SYMMETRY RequestSymmetry
INVARIANTS TypeOK AppliedAtMostOnce ErrorMeansQuarantined OneWorker
PROPERTY ImplementsCall
CHECK_DEADLOCK FALSE
