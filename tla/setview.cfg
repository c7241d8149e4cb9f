\* Three commands over keys of two bits, another program's change, and a form
\* that is opened, left and left behind.
SPECIFICATION Spec
CONSTANTS
  KeySpace = 4
  StartKinds <- MCKinds
  Inputs <- MCInputs
  ReadOnly = FALSE
  MaxOps = 3
  MaxInFlight = 2
  MaxOutside = 1
INVARIANTS
  CursorOnRows
  HintIsTrue
  NoOrphans
  ApartRowsAreRanges
PROPERTY
  AddsWhatWasTyped
