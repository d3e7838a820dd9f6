SPECIFICATION Spec
CONSTANTS
  Size = 2
  Word = {plain, call}
  Call = {call}
  Trap = Trap
  Thread = {t1, t2}
  MaxCount = 1
  MaxWrites = 1
SYMMETRY Symmetry
INVARIANTS
  TypeOK
  CountsMatchUsers
  TrapsMatchBreakpoints
  ProgramIsRecoverable
  DebuggerReadsProgram
