SPECIFICATION FairSpec
CONSTANTS
  Dwell = 3
  ResetHigh = 3
  ResetDone = 8
  PassMax = 2
  Requests <- AllRequests
  Flags = {TRUE, FALSE}
INVARIANTS
  TypeOK
  TimerLast
  ResetServed
  EarlyBootHarmless
PROPERTIES
  FaultIsFinal
  BootEnds
