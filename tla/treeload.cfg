\* Two chains, one of them there from the start, and two changes.
SPECIFICATION FairSpec
CONSTANTS
  input = input
  output = output
  loadingRow = loadingRow
  Chain <- TwoChains
  InitChains <- OneChain
  Loading = loadingRow
  MaxVersion = 3
INVARIANTS
  LoadingIsOnItsWay
  CalmTreeAgrees
PROPERTY
  RowsFill
\* The loads end and nobody need change anything.
CHECK_DEADLOCK FALSE
