--------------------------- MODULE MCFlightMonitor ---------------------------
(* FlightMonitor and FlightRefinement on small instances. *)
EXTENDS FlightMonitor, FlightRefinement

MCGimbal == {0}
MCAngle == [g \in MCGimbal |-> 90]
WideTrim == [bottom |-> 100, top |-> -100]
OneCommand == {[gimbal |-> 0, bottom |-> 200, top |-> 90]}

\* The states a vehicle can be asked for, one that cannot be entered among them.
FlightRequests == {SAFE, READY_ARMED, MAN_FLIGHT, AUTO_FLIGHT}
=============================================================================
