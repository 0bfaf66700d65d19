\* every ability of the program, every failing call
SPECIFICATION FairSpec
CONSTANTS
  Leader = leader
  Descendants = {child}
  HasTimeout = TRUE
  PipeSize = 2
  ExitCodes = {0, 1}
  CrashSignals = {6}
  ProgramMay = {"write", "close", "fork", "leave"}
  MayFail = {"pipe", "fork", "exec", "select", "read", "waitpid"}
  SlowStart = FALSE
  child = child
  leader = leader
INVARIANT TypeOK
INVARIANT CompleteCapture
INVARIANT OutputSoFarKept
INVARIANT GroupKilled
PROPERTY FinishedIsNotTimedOut
PROPERTY ImplementsContract
PROPERTY BoundedWhenQuiet
PROPERTY ReturnsOnceGone
PROPERTY WriterReleased
