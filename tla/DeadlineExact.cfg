\* timeouts of up to two seconds, whose deadlines fit
SPECIFICATION FairSpec
CONSTANTS
  MaxInt = 63
  MsPerSecond = 2
  MicrosPerMs = 2
  NsPerMicro = 2
  Timeouts = {0, 1, 2}
  MaxStart = 1
  MaxNow = 22
CHECK_DEADLOCK FALSE
INVARIANT TypeOK
INVARIANT NotKilledEarly
INVARIANT WaitsForWhatIsLeft
PROPERTY EndsWhenDue
