SPECIFICATION Spec
CONSTANTS
  Dwell = 3
  ResetHigh = 3
  ResetDone = 6
  PassMax = 2
  Requests <- SafeRequest
  Flags = {TRUE, FALSE}
INVARIANTS
  BootComplete
