\* Two goroutines, three commands (one to open the rule list, one to open a
\* rule, one to save it), and up to two overlapping reloads.
SPECIFICATION Spec
CONSTANTS
  g1 = g1
  g2 = g2
  Job <- TwoGoroutines
  MaxKeys = 3
  MaxLoads = 2
INVARIANTS
  LoadingIsPending
  ReadOnlyStartsNoWrite
\* The program quits.
CHECK_DEADLOCK FALSE
