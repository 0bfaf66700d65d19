\* the largest number of seconds, whose milliseconds do not fit
SPECIFICATION FairSpec
CONSTANTS
  MaxInt = 63
  MsPerSecond = 2
  MicrosPerMs = 2
  NsPerMicro = 2
  Timeouts <- MCLargest
  MaxStart = 1
  MaxNow = 22
CHECK_DEADLOCK FALSE
PROPERTY EndsWhenDue
