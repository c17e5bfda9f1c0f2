SPECIFICATION LiveSpec
CONSTANTS
  None = None
  Clients = {c1, c2}
  Starters = {c1, c2}
  Stoppers = {c1}
  Cleaners = {c2}
  Daemons = {d1, d2}
  Workers = {w1}
  Requests = {r1}
  Stopper = stopper
  MaxGen = 2
  KillMayFail = TRUE
CHECK_DEADLOCK FALSE
INVARIANTS
  TypeOK
  OneOwner
  ServingIsPublished
PROPERTIES
  ImplementsLease
  StartLockReleased
  RequestsEnd
  StopEnds
