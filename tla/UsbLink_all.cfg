SPECIFICATION Spec
CONSTANTS
  Sent <- MCSent
  Damage <- MCDamage
  MaxGarbage = 0
  CRC <- MCCRC
  TX_DEPTH = 2
  RX_DEPTH = 2
  PacketWrap = 3
  MaxEntries = 2
  MaxReadEntries = 1
  TextLengths = {65}
  PortRoom = 73
  Rooms = {20, 73}
INVARIANTS
  TypeOK
  OnlySentAccepted
  Resyncs
  PayloadInBounds
  NewestKept
  SkipsAreDisplaced
  ConfigWithinFrame
  HeadFits
  WholeFramesOnly
PROPERTY
  InStepDelivers
