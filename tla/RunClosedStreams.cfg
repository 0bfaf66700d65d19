\* a program that may close stdout and stderr
SPECIFICATION FairSpec
CONSTANTS
  Leader = leader
  Descendants = {}
  HasTimeout = TRUE
  PipeSize = 2
  ExitCodes = {0, 1}
  CrashSignals = {6}
  ProgramMay = {"close"}
  MayFail = {}
  SlowStart = FALSE
  leader = leader
PROPERTY BoundedByTimeout
