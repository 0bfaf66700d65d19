\* every option, calls that fail before the fork or in waitpid
SPECIFICATION Spec
CONSTANTS
  HasTimeout = TRUE
  ExitCodes = {0, 1}
  CrashSignals = {6}
  MayFail = {"pipe", "waitpid"}
  MaxSources = 2
INVARIANT TypeOK
INVARIANT ZeroMeansRanClean
INVARIANT OneMeansReported
INVARIANT NothingIsMasked
INVARIANT CountsMatchMarks
