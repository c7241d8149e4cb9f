\* Two commands in flight, another writer, a chain of two rules.
SPECIFICATION Spec
CONSTANTS
  c1 = c1
  c2 = c2
  Cmd <- TwoCmds
  Body = {"accept", "drop"}
  AcceptBody = "accept"
  InitLen = 2
  MaxHandle = 5
  MaxKeys = 2
  MaxOutside = 1
SYMMETRY Either
INVARIANTS
  NoRuleTwice
  AuditTellsTheTruth
  ErrorMeansNoEffect
  QuietReturnIsCreated
PROPERTIES
  MoveLandsBesideNeighbour
  InsertLandsBehindListed
  Implements
\* The user may stop pressing keys (and MaxKeys makes sure of it).
CHECK_DEADLOCK FALSE
