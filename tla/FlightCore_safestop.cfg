SPECIFICATION Spec
CONSTANTS
  CommTimeout = 2
  Dwell = 3
  Wrap = 8
  LoopMax = 2
  Links = {"radio"}
  Requests <- FlightRequests
  Commands <- OneCommand
  Gimbal <- MCGimbal
  TopAngle <- MCTopAngle
  BottomAngle <- MCBottomAngle
  NoGimbal = 0
  MotorTrim <- NoTrim
INVARIANTS
  SafeMeansStopped
