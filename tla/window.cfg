\* One command and another writer over a list of three rules, and a terminal
\* that is resized between room for two rules and room for one.
SPECIFICATION Spec
CONSTANTS
  j1 = j1
  j2 = j2
  Job <- TwoJobs
  Body = {"accept", "drop"}
  FirstBody = "accept"
  Height = {16, 20}
  FirstHeight = 20
  InitChain <- ThreeRules
  MaxHandle = 4
  MaxKeys = 1
  MaxOutside = 1
SYMMETRY EitherJob
INVARIANT
  NeverBlank
PROPERTY
  OpenedIsSelected
\* Nothing is in flight, or no bound is left: the user may stop.
CHECK_DEADLOCK FALSE
