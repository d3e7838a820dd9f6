\* Refuted: Kill's assertion that no thread is left, when a stop was in flight.
SPECIFICATION Spec
CONSTANTS
  Main = main
  Thread = {main, init}
  NoThread = NoThread
  MaxCommands = 2
  Resumes = {"SingleStep", "Continue"}
INVARIANT
  KillAssertionHolds
CHECK_DEADLOCK FALSE
