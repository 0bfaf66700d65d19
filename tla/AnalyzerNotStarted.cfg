\* execv may fail
SPECIFICATION Spec
CONSTANTS
  HasTimeout = TRUE
  ExitCodes = {0, 1}
  CrashSignals = {6}
  MayFail = {"exec"}
  MaxSources = 1
INVARIANT ZeroMeansRanClean
