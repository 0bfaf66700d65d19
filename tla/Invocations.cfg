\* every line of up to four words, batches of up to three sources
SPECIFICATION InvocationSpec
CONSTANTS
  HasTimeout = FALSE
  ExitCodes = {0}
  CrashSignals = {}
  MayFail = {"exec"}
  MaxSources = 3
  Joined <- MCJoined
  Assignments = {"K=1", "--output=b"}
  Seconds = {"7"}
  JoinedOutput <- MCJoinedOutput
  Tree <- MCTree
  Unreadable = {"u"}
  SourceFiles <- MCSourceFiles
  Sorted <- MCSorted
  Relative <- MCRelative
  Sanitized <- MCSanitized
  Hash <- MCHash
  LanguageWords = {"-x", "-xc", "-xc++"}
  LooksCxx = {"t/s/a.c", "./t/s/a.c"}
  NeedsDebug = {"t/s_a.c"}
  LinkWords <- MCLinkWords
  Lines <- MCLines
INVARIANT LineIsRefusedForAReason
INVARIANT LineIsReadAsMeant
INVARIANT ProgramIsOwnBuild
INVARIANT ProgramsAreSeparate
INVARIANT EverySourceOnce
INVARIANT RunsWhatIsWritten
INVARIANT ZeroSpeaksForEverySource
