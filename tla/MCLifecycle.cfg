SPECIFICATION FairSpec
CONSTANTS
  Clients = {c1}
  Requests = {r1}
  Watcher = watcher
  Cleaner = cleaner
ACTION_CONSTRAINT CleanupLast
CHECK_DEADLOCK FALSE
INVARIANTS TypeOK CountIsInFlightOrLeaked
PROPERTIES WatcherSparesRequests AbandonedEnds FileCatchesUp
