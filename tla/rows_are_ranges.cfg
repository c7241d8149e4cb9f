\* A set of intervals: a range that ends at the last key, or two that touch.
SPECIFICATION Spec
CONSTANTS
  KeySpace = 4
  StartKinds <- Intervals
  Inputs <- Upright
  ReadOnly = FALSE
  MaxOps = 2
  MaxInFlight = 2
  MaxOutside = 0
INVARIANT
  RowsAreRanges
