\* Every kind of iterator over every small store, in both directions; scans under a writer.
CONSTANTS
  RestartInterval = 2
  HeadKey = 2
  MaxKey = 5
  MergeKey = 4
  PreFetchSize = 3
  MaxPuts = 2
  Targets = {1, 2, 3, 4, 5}
  Stores <- MCStores
SPECIFICATION Spec
INVARIANTS ReplaceAsserts ScanSorted ScanComplete
PROPERTY CursorRefined
\* A panic ends an iterator.
CHECK_DEADLOCK FALSE
