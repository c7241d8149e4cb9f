\* One entry in the prompt, with a form that was left behind.
SPECIFICATION Spec
CONSTANTS
  KeySpace = 4
  StartKinds <- Intervals
  Inputs <- Upright
  ReadOnly = FALSE
  MaxOps = 1
  MaxInFlight = 1
  MaxOutside = 0
INVARIANT
  HintIsTheTruth
