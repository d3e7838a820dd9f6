\* Refuted: another thread executes within a critical section.
SPECIFICATION Spec
CONSTANTS
  Main = main
  Thread = {main, w1, w2}
  NoThread = NoThread
  MaxDepth = 2
  MaxCalls = 2
INVARIANT
  SectionIsStrict
CHECK_DEADLOCK FALSE
