SPECIFICATION Spec
CONSTANTS
  Main = main
  Thread = {main, init}
  NoThread = NoThread
  MaxCommands = 1
  Resumes = {"SingleStep", "Continue"}
PROPERTIES
  StartReturns
  UpdatesAreDelivered
  SessionEnds
CHECK_DEADLOCK FALSE
