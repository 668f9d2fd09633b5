SPECIFICATION SweepSpec
CONSTANTS
  Offsets = {60, 89, 90, 120}
INVARIANTS
  TypeOK
  WithinTableCell
PROPERTIES
  PulseMonotone
