\* Refuted: a step over executes something else than the instruction at its pc.
SPECIFICATION Spec
CONSTANTS
  Size = 2
  Word = {plain, call}
  Call = {call}
  Trap = Trap
  Thread = {t1}
  MaxCount = 1
  MaxWrites = 0
INVARIANTS
  StepOverExecutesInstruction
