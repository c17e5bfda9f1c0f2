\* A clear_context and another request, and the files the client removes.
SPECIFICATION Spec
CONSTANTS
  Clients = {}
  Requests = {r1, r2}
  Watcher = watcher
  Cleaner = cleaner
CHECK_DEADLOCK FALSE
PROPERTIES IdleSparesResources
