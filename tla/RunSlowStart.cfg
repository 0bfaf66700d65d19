\* the deadline may pass before the child calls setpgid
SPECIFICATION Spec
CONSTANTS
  Leader = leader
  Descendants = {child}
  HasTimeout = TRUE
  PipeSize = 2
  ExitCodes = {0, 1}
  CrashSignals = {6}
  ProgramMay = {"write", "close", "fork", "leave"}
  MayFail = {}
  SlowStart = TRUE
  child = child
  leader = leader
INVARIANT GroupKilled
