\* Two tables with two leaves each, in a window that changes between all rows,
\* one and two, and reloads after a change of the kernel.
SPECIFICATION Spec
CONSTANTS
  TableSeq <- MCTables
  LeafSeq <- MCLeaves
  Objects <- MCObjects
  Resettable <- MCResettable
  Queries <- MCQueries
  Heights <- MCHeights
  ReadOnly = FALSE
  MaxChanges = 1
  MaxHints = 2
  MaxCommands = 1
INVARIANTS
  DialogKeepsItsRow
  SearchParksOnMatch
  HintHasItsTimer
PROPERTY
  KeysStayOnRows
