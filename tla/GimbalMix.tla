------------------------------ MODULE GimbalMix ------------------------------
(***************************************************************************)
(* The arithmetic of Gimbal::set (src/gimbal.cpp): from the setpoint of a  *)
(* COMMAND to the angles of the two servos, by bilinear interpolation in   *)
(* two tables.  Rational arithmetic is kept exact by counting degrees in   *)
(* fifths of a cell: a cell of the tables is five degrees wide, and the    *)
(* setpoints are those of whole degrees and the two ends of the int16.     *)
(***************************************************************************)
EXTENDS Integers

INT16_PER_DEGREE == 1638    \* GIMBAL_INT16_TO_FLOAT
CELL             == 5       \* degrees between two entries of pitchValues, yawValues
LAST             == 20      \* their last entry; the first is -LAST
MILLI            == 1000    \* the tables are kept in thousandths of a degree

Command == {INT16_PER_DEGREE * d : d \in -LAST..LAST} \union {-32768, 32767}
Offset  == 60..120          \* Configs: gimbalPitchOffset, gimbalYawOffset
Indices == 1..9             \* YAW_ROWS and PITCH_COLS

\* One row per yaw setpoint, one column per pitch setpoint.
topServoMap ==
    << << -1306,   5164,  11299,  17210,  23018,  16952,  11171,   5554,      0>>,
       << -6744,   -423,   5580,  11364,  16952,  11364,   5711,   -155,  -5273>>,
       <<-12118,  -5910,      0,   5711,  11171,   5512,      0,  -5711, -10929>>,
       <<-17493, -11368,  -5512,    155,   5542,   -155,  -5711, -11364, -16753>>,
       <<-23018, -16753, -10929,  -5273,      0,   5273,  10929,  16753,  23018>>,
       <<-16753, -11364,  -5711,   -155,  -5554,   -155,   5512,  11368,  17493>>,
       <<-11171,  -5711,      0,   5512, -11171,  -5711,      0,   5910,  12118>>,
       << -5554,    155,   5711,  11364, -16952, -11364,  -5580,    423,   6744>>,
       <<     0,   5554,  11171,  16952, -23018, -17210, -11299,  -5164,   1306>> >>

bottomServoMap ==
    << <<-42129, -36747, -31199, -25577, -20468, -15836, -10753,  -5421,      0>>,
       <<-37335, -32062, -26586, -21008, -15836, -21008, -15937, -10598,  -5498>>,
       <<-31979, -26825, -21443, -15937, -10753, -21443, -21443, -15937, -10950>>,
       <<-26391, -21336, -16039, -10598,  -5421, -10598, -15937, -21008, -16268>>,
       <<-21364, -16268, -10950,  -5498,      0,   5498,  10950,  16268,  21364>>,
       <<-16268, -21008, -15937, -10598,   5421,  10598,  16039,  21336,  26391>>,
       <<-10950, -15937, -21443, -21443,  10753,  15937,  21443,  26825,  31979>>,
       << -5498, -10598, -15937, -21008,  15836,  21008,  26586,  32062,  37335>>,
       <<     0,  -5421, -10753, -15836,  20468,  25577,  31199,  36747,  42129>> >>

-----------------------------------------------------------------------------
Limit(x, low, high) == IF x > high THEN high ELSE IF x < low THEN low ELSE x

\* The setpoint in degrees, clamped to the extent of the tables.
Degrees(x) == Limit(x, -LAST * INT16_PER_DEGREE, LAST * INT16_PER_DEGREE)
                \div INT16_PER_DEGREE

Knot(i) == CELL * (i - 1) - LAST

\* Mutant: the nearest entry, where the code takes the one below.
CellNearest(d) == Limit(1 + (d + LAST + CELL \div 2) \div CELL, 1, 8)

\* The index of the cell a setpoint is in; the last cell is closed above.
Cell(d) == Limit(1 + (d + LAST) \div CELL, 1, 8)

\* The interpolated entry, in thousandths of a degree and 25ths of a cell.
Interpolated(map, pitch, yaw) ==
    LET row == Cell(yaw)
        column == Cell(pitch)
        AlongRow(r) == CELL * map[r][column]
                         + (pitch - Knot(column)) * (map[r][column + 1] - map[r][column])
    IN  CELL * AlongRow(row) + (yaw - Knot(row)) * (AlongRow(row + 1) - AlongRow(row))

SCALE == CELL * CELL * MILLI

\* Mutant: the trim moves the end of the range with it.
CommandedTrimmed(angle, offset) ==
    Limit(angle \div SCALE, -30, 30) + offset

\* limitRange(angle + offset): the sum is cut to an int before it is limited.
\* It is positive, so cutting rounds it down.
Commanded(angle, offset) == Limit((angle + SCALE * offset) \div SCALE, 60, 120)

topServo(pitch, yaw, offset) ==
    Commanded(Interpolated(topServoMap, Degrees(pitch), Degrees(yaw)), offset)

bottomServo(pitch, yaw, offset) ==
    Commanded(-Interpolated(bottomServoMap, Degrees(pitch), Degrees(yaw)), offset)
=============================================================================
