SPECIFICATION Spec
CONSTANTS
  Main = main
  Thread = {main, init}
  NoThread = NoThread
  MaxCommands = 2
  Resumes = {"SingleStep", "Continue"}
INVARIANTS
  TypeOK
  UpdatesReferToLiveContexts
  LoopsRunOnLiveContexts
  StartupIsComplete
  EventLoopOutlivesThreads
  ExitReportedAfterAllExited
  TeardownIsQuiet
PROPERTIES
  KillIsNotOverwritten
CHECK_DEADLOCK FALSE
