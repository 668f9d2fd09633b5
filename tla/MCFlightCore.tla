---------------------------- MODULE MCFlightCore ----------------------------
(***************************************************************************)
(* FlightCore on small instances: values for the constants that a .cfg     *)
(* cannot write down.                                                      *)
(***************************************************************************)
EXTENDS FlightCore

MCGimbal == {0, 1}
MCTopAngle == [g \in MCGimbal |-> 90 + 10 * g]
MCBottomAngle == [g \in MCGimbal |-> 89 - 10 * g]

\* A command that differs from the initial setpoint in every field.
OneCommand == {[gimbal |-> 1, bottom |-> 200, top |-> 90]}

NoTrim == [bottom |-> 0, top |-> 0]

\* Trims that drive both clamps with the throttles above.
WideTrim == [bottom |-> 100, top |-> -100]

FlightRequests == {SAFE, READY_ARMED, MAN_FLIGHT}
=============================================================================
