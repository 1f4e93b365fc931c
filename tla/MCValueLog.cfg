\* Sessions of a store, with and without sync_writes: batches up to and past the size of a log
\* file, flushes, clean shutdowns, crashes and replays.
CONSTANTS
  FileSize = 4
  MaxWrites = 4
  MaxOpens = 3
  Garbage = 1
  Batches <- MCBatches
SPECIFICATION Spec
INVARIANTS PointersResolve CleanReopen CasAhead WritesContinue
\* A store may stay closed.
CHECK_DEADLOCK FALSE
