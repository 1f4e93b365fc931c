\* Two clients, memtables of one record, one place in flush_chan: the memtables fill up while
\* requests wait, and conditional requests race each other.
CONSTANTS
  Keys = {1}
  Clients = {c1, c2}
  Ops = {"set", "big", "absent", "delete", "empty"}
  Conditional = {"set", "empty"}
  SyncWrites = FALSE
  MemSize = 1
  NumMemTables = 1
  BatchLimit = 2
  MaxOps = 3
  MaxFailures = 1
SPECIFICATION FairSpec
INVARIANTS TypeOK LookupIsLatest GetNotStale HeadSafe
PROPERTIES ConditionalWrites RequestsAnswered CloseCompletes
\* A store that is closed, or that nobody writes to, comes to rest.
CHECK_DEADLOCK FALSE
