SPECIFICATION Spec
CONSTANTS
  CodeSize = 2
  Instruction <- MCInstruction
  W = 8
  M = 256
  GPR = {0, 1, 2, 3, 4, 5, 6, 7}
  CR = {0, 1}
  B = 4
  N = 8
  Allocated <- MCAllocated
  Program <- MCProgram
  Sample = {0, 1, 3, 100, 127, 128, 255}
  Data = {0, 27, 141, 255}
  Amount = {0, 1, 5, 7, 8, 9, 15}
  Field <- MCField
  Source = 65
  Destination = 130
  Edge = {81, 82, 83, 89, 90, 91, 110, 170, 171, 254}
INVARIANTS
  TypeOK
  AcceptedInterruptIsKept
  InterruptIsPrompt
  MultiwordArithmeticIsExact
  ProductsAndQuotientsAgree
  BitsMoveIntact
  ComparisonsAgree
  MemoryKeepsWhatIsStored
PROPERTIES
  InterruptStops
  StraysAreNear
CHECK_DEADLOCK FALSE
