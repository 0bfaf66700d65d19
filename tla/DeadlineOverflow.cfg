\* any non-negative number of seconds
SPECIFICATION Spec
CONSTANTS
  MaxInt = 63
  MsPerSecond = 2
  MicrosPerMs = 2
  NsPerMicro = 2
  Timeouts <- MCAnyTimeout
  MaxStart = 1
  MaxNow = 22
CHECK_DEADLOCK FALSE
INVARIANT NotKilledEarly
