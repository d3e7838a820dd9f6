SPECIFICATION Spec
CONSTANTS
  Main = main
  Thread = {main, w1, w2}
  NoThread = NoThread
  MaxDepth = 2
  MaxCalls = 2
SYMMETRY Symmetry
INVARIANTS
  TypeOK
  SuspensionsMatch
  SectionIsExclusive
  AbortsAreExplained
CHECK_DEADLOCK FALSE
