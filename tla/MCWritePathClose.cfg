\* One client, no I/O errors: only the order of the tasks' steps is free.
CONSTANTS
  Keys = {1}
  Clients = {c1}
  Ops = {"set"}
  Conditional = {}
  SyncWrites = FALSE
  MemSize = 1
  NumMemTables = 2
  BatchLimit = 2
  MaxOps = 3
  MaxFailures = 0
SPECIFICATION Spec
INVARIANT ClosedIsDurable
CHECK_DEADLOCK FALSE
