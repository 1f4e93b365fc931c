\* Refused and accepted change sets, rewrites, torn appends and three sessions.
CONSTANTS
  ChangeSets <- MCChangeSets
  DeletionsRatio = 1
  RewriteThreshold = 2
  TornWords = {0, 1, 2}
  MaxAdds = 7
  MaxOpens = 3
SPECIFICATION Spec
INVARIANTS TypeOK NeverMisread CountersExact
\* A store that cannot be opened, or is not opened any more, stays as it is.
CHECK_DEADLOCK FALSE
