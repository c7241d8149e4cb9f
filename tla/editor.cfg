SPECIFICATION Spec
CONSTANTS
  Family = "inet"
  Scenes <- MCScenes
  Numbers <- MCNumbers
INVARIANTS
  QuietSave
  RoundTrip
  OthersKeep
  VerdictStaysLast
  SavedIsComplete
  CalmAgrees
CHECK_DEADLOCK FALSE
