\* Tables of a single key.
CONSTANTS
  Workers = {w1}
  NoWorker = NoWorker
  MaxLevels = 3
  KeyBound = 3
  HeadKey = 1
  Capacity = 1
  L1Size = 9
  L2Size = 9
  Word = 32
  NumL0Tables = 1
  NumL0Stall = 2
  MaxFlushes = 2
  MaxFailures = 0
  MaxRestarts = 0
  MaxFileId = 9
  Keys <- MCKeys
  ReadKeys = {}
  OpenedWith = {}
  MaxTotalSize <- MCMaxTotalSize
  FlushKeySets <- SingleSets
SPECIFICATION Spec
INVARIANT LevelsSorted
CHECK_DEADLOCK FALSE
