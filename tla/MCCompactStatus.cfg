\* Three workers (num_compactors), three levels: two compactions can share a level as source,
\* as target, or as target of one and source of the other.
CONSTANTS
  Workers = {w1, w2, w3}
  NoWorker = NoWorker
  MaxLevels = 3
  KeyBound = 3
  SizeBound = 1
  Word = 3
  Keys <- MCKeys
  MaxTotalSize <- MCMaxTotalSize
SPECIFICATION FairSpec
INVARIANTS TypeOK ClaimsDisjoint StatusIsClaims DelSizeIsClaimed
PROPERTY LocksReleased
\* Once a worker panicked with both locks, the others may have no lock left to take.
CHECK_DEADLOCK FALSE
