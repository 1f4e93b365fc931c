\* Two workers on three levels, tables of one key, a head key that does not sort first: every
\* race and every panic of the workers can happen.
CONSTANTS
  Workers = {w1, w2}
  NoWorker = NoWorker
  MaxLevels = 3
  KeyBound = 3
  HeadKey = 2
  Capacity = 1
  L1Size = 1
  L2Size = 2
  Word = 8
  NumL0Tables = 1
  NumL0Stall = 2
  MaxFlushes = 3
  MaxFailures = 0
  MaxRestarts = 0
  MaxFileId = 7
  Keys <- MCKeys
  ReadKeys = {}
  OpenedWith = {}
  MaxTotalSize <- MCMaxTotalSize
  FlushKeySets <- LooseSets
SPECIFICATION Spec
INVARIANT TablesNotShared
PROPERTY StatusRefined
CHECK_DEADLOCK FALSE
