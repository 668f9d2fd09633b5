----------------------------- MODULE OutputSweep -----------------------------
(***************************************************************************)
(* What the control tick computes from a setpoint and the trims, swept     *)
(* through their values: first one motor, as in MotorSweep, and from its   *)
(* rest the gimbal.                                                        *)
(***************************************************************************)
EXTENDS MotorSweep, GimbalMix, FiniteSetsExt

CONSTANT Offsets    \* the servo trims to sweep

ASSUME OffsetsAssumption == Offsets \subseteq Offset

VARIABLES pitch, yaw, offset

gimbal == <<pitch, yaw, offset>>
sweep == <<throttle, trim, gimbal>>

SweepInit ==
    /\ Init
    /\ pitch = 0 /\ yaw = 0
    /\ offset \in [pitch : Offsets, yaw : Offsets]

Beside(x) == {y \in Command : y # x /\ y - x \in -INT16_PER_DEGREE..INT16_PER_DEGREE}

\* Configs::defaults().
DefaultOffset == [pitch |-> 90, yaw |-> 89]

\* The motor moves while the gimbal is centred, under the default trims.
SweepMotor ==
    /\ pitch = 0 /\ yaw = 0
    /\ offset = DefaultOffset
    /\ Next
    /\ UNCHANGED gimbal

\* The next COMMAND asks for a neighbouring setpoint of the gimbal.
MovePitch ==
    /\ throttle = 0 /\ trim = 0
    /\ pitch' \in Beside(pitch)
    /\ UNCHANGED <<yaw, offset, vars>>

MoveYaw ==
    /\ throttle = 0 /\ trim = 0
    /\ yaw' \in Beside(yaw)
    /\ UNCHANGED <<pitch, offset, vars>>

SweepNext == SweepMotor \/ MovePitch \/ MoveYaw

SweepSpec == SweepInit /\ [][SweepNext]_sweep

-----------------------------------------------------------------------------
TopAngle == topServo(pitch, yaw, offset.pitch)
BottomAngle == bottomServo(pitch, yaw, offset.yaw)

\* Neither servo is ever sent beyond its mechanical range, with any trim a
\* CONFIG packet can set (gimbal.cpp:87, 106); FlightCore assumes it of the
\* angles it is given.
TypeOK ==
    /\ pitch \in Command /\ yaw \in Command
    /\ TopAngle \in 60..120
    /\ BottomAngle \in 60..120

\* The entries of the tables that enclose a setpoint: two, or the one it is on.
\* Found by distance, not by the code's index.
Enclosing(x) ==
    {i \in Indices : LET d == x - INT16_PER_DEGREE * Knot(i)
                     IN  -CELL * INT16_PER_DEGREE < d /\ d < CELL * INT16_PER_DEGREE}

Enclosed(angle, sign, map, trimmed) ==
    LET corners == {sign * CELL * CELL * map[r][c] :
                        r \in Enclosing(yaw), c \in Enclosing(pitch)}
    IN  /\ Commanded(Min(corners), trimmed) <= angle
        /\ angle <= Commanded(Max(corners), trimmed)

\* A servo is sent to an angle between those the tables give for the setpoints
\* that enclose this one, and on an entry to exactly that entry: the index, the
\* fraction and the closed end of the last cell fit together, on all four
\* edges of the tables (set(), gimbal.cpp:124-170).
WithinTableCell ==
    /\ Enclosed(TopAngle, 1, topServoMap, offset.pitch)
    /\ Enclosed(BottomAngle, -1, bottomServoMap, offset.yaw)
=============================================================================
