SPECIFICATION FairSpec
CONSTANTS
  CommTimeout = 1
  Dwell = 1
  Wrap = 4
  LoopMax = 1
  Links = {"radio"}
  Requests <- FlightRequests
  Commands <- OneCommand
  Gimbal <- MCGimbal
  TopAngle <- MCTopAngle
  BottomAngle <- MCBottomAngle
  NoGimbal = 0
  MotorTrim <- WideTrim
INVARIANTS
  TypeOK
  NoTornSetpoint
  TripDeadline
  FrameCoherent
PROPERTIES
  LinkLossDisarms
