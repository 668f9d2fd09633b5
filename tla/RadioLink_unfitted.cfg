SPECIFICATION Spec
CONSTANTS
  TX_SIZE = 3
  RX_WINDOW_MIN = 4
  LINK_RETRY_MS = 10
  Interval = 10
  Statuses = 1
  Configurations <- MCConfigurations
  PassMax = 1
  AirMax = 0
INVARIANTS
  OnlyFitted
