SPECIFICATION MonitorSpec
CONSTANTS
  CommTimeout = 2
  Dwell = 3
  Wrap = 5
  LoopMax = 1
  Links = {"radio"}
  Requests <- FlightRequests
  Commands <- OneCommand
  Gimbal <- MCGimbal
  TopAngle <- MCAngle
  BottomAngle <- MCAngle
  NoGimbal = 0
  MotorTrim <- WideTrim
INVARIANTS
  MotorsFailClosed
  NoStaleThrottle
  UnchangedRequestStaysSafe
  DwellServed
PROPERTIES
  ImplementsFailsafe
