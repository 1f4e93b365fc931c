\* A store with one table in level 0: flushes that stall, one worker with a failing build, a
\* crash at every point of a flush or a compaction, and a get that walks down the levels.
\* Level 1 overflows into level 2; level 2 never fills.
CONSTANTS
  Workers = {w1}
  NoWorker = NoWorker
  MaxLevels = 3
  KeyBound = 5
  HeadKey = 1
  Capacity = 2
  L1Size = 3
  L2Size = 5
  Word = 32
  NumL0Tables = 1
  NumL0Stall = 2
  MaxFlushes = 3
  MaxFailures = 1
  MaxRestarts = 1
  MaxFileId = 30
  Keys <- MCKeys
  ReadKeys = {2}
  OpenedWith = {4, 5}
  MaxTotalSize <- MCMaxTotalSize
  FlushKeySets <- PairSets
SPECIFICATION FairSpec
INVARIANTS TypeOK LevelsSorted LookupIsLatest CrashSafe SizesExact ManifestAccepts ReplacesMerged ReadsNotStale
PROPERTY FlushCompletes
\* A store that nobody writes to comes to rest.
CHECK_DEADLOCK FALSE
