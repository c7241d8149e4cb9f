\* Two commands in flight and another program, over two table names, two chain
\* names and a chain with one rule to begin with.
SPECIFICATION Spec
CONSTANTS
  c1 = c1
  c2 = c2
  t = t
  u = u
  a = a
  b = b
  d1 = d1
  d2 = d2
  p1 = p1
  p2 = p2
  Cmd <- TwoCmds
  TableNames <- TwoNames
  ChainNames <- TwoChain
  Decls <- TwoDecls
  Policies <- TwoPols
  MaxKeys = 2
  MaxOutside = 1
SYMMETRY Alike
INVARIANTS
  RulesSurvive
  CalmIsAtomic
PROPERTY
  EveryChangeAudited
\* The user may stop pressing keys (and MaxKeys makes sure of it).
CHECK_DEADLOCK FALSE
