\* Refuted: the pc of a running thread is read, because it still counts as Stopped.
SPECIFICATION Spec
CONSTANTS
  Main = main
  Thread = {main, init}
  NoThread = NoThread
  MaxCommands = 2
  Resumes = {"SingleStep", "Continue"}
PROPERTY
  PCNotReadWhileRunning
CHECK_DEADLOCK FALSE
