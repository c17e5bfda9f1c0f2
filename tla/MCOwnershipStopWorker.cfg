SPECIFICATION Spec
CONSTANTS
  None = None
  Clients = {c1, c2}
  Starters = {c1}
  Stoppers = {c2}
  Cleaners = {}
  Daemons = {d1}
  Workers = {w1}
CHECK_DEADLOCK FALSE
PROPERTIES
  StopConfirmsRecordedWorker
