\* Two workers: one chooses tables on a level that the other is changing.
CONSTANTS
  Workers = {w1, w2}
  NoWorker = NoWorker
  MaxLevels = 3
  KeyBound = 5
  HeadKey = 1
  Capacity = 2
  L1Size = 3
  L2Size = 9
  Word = 32
  NumL0Tables = 1
  NumL0Stall = 2
  MaxFlushes = 2
  MaxFailures = 0
  MaxRestarts = 0
  MaxFileId = 9
  Keys <- MCKeys
  ReadKeys = {}
  OpenedWith = {}
  MaxTotalSize <- MCMaxTotalSize
  FlushKeySets <- PairSets3
SPECIFICATION Spec
INVARIANT ReplacesMerged
CHECK_DEADLOCK FALSE
