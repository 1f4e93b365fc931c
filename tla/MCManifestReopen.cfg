\* No torn appends and no rewrites: the store is closed, opened again and written to.
CONSTANTS
  ChangeSets <- MCChangeSets
  DeletionsRatio = 10
  RewriteThreshold = 10
  TornWords = {}
  MaxAdds = 4
  MaxOpens = 3
SPECIFICATION Spec
INVARIANT AlwaysReplayable
CHECK_DEADLOCK FALSE
