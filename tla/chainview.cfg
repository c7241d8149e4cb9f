\* Two commands in flight over a list of two rules, another writer, and a
\* filter.
SPECIFICATION Spec
CONSTANTS
  j1 = j1
  j2 = j2
  Job <- TwoJobs
  Body = {"accept", "drop"}
  FirstBody = "accept"
  Height = {24}
  FirstHeight = 24
  InitChain <- TwoRules
  MaxHandle = 3
  MaxKeys = 2
  MaxOutside = 1
SYMMETRY EitherJob
INVARIANTS
  CursorInRules
  FilterIsExact
PROPERTIES
  ConfirmedIsDeleted
  CursorFollowsMove
\* Nothing is in flight, or no bound is left: the user may stop.
CHECK_DEADLOCK FALSE
