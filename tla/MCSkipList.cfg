\* Two threads that put three records, up to the same key, with a reader for the first two;
\* towers up to three levels, so that a node can be higher than the list a thread has seen.
CONSTANTS
  Keys = {1, 2}
  Targets = {1, 2}
  Writers = {w1, w2}
  MaxHeight = 3
  MaxPuts = 3
  MaxPutsRead = 2
SYMMETRY WriterSymmetry
SPECIFICATION Spec
INVARIANTS TypeOK ListsSorted AssertionsHold FindsNear ScanComplete
PROPERTIES MapRefined
CHECK_DEADLOCK FALSE
