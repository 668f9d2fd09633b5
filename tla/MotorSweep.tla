----------------------------- MODULE MotorSweep -----------------------------
(***************************************************************************)
(* One motor, its commanded throttle and its configured trim moved one     *)
(* step at a time through all their values: a COMMAND changes the first, a *)
(* CONFIG packet the second, and Motor::setMotor computes from both.       *)
(***************************************************************************)
EXTENDS MotorMix

VARIABLES throttle, trim

vars == <<throttle, trim>>

Init == throttle = 0 /\ trim = 0

\* The next COMMAND asks for a little more or less.
MoveThrottle ==
    /\ throttle' \in {throttle - 1, throttle + 1} \intersect Throttle
    /\ UNCHANGED trim

\* The next CONFIG packet moves the trim.
MoveTrim ==
    /\ trim' \in {trim - 1, trim + 1} \intersect Trim
    /\ UNCHANGED throttle

Next == MoveThrottle \/ MoveTrim

Spec == Init /\ [][Next]_vars

-----------------------------------------------------------------------------
\* More throttle or more trim never slows a motor, and a negative trim never
\* speeds one up: the sum of a byte and a signed byte is never narrowed before
\* it is in range (setMotor(), motor.cpp:41-48).
PulseMonotone ==
    [][throttle' >= throttle /\ trim' >= trim =>
           Pulse(throttle', trim') >= Pulse(throttle, trim)]_vars
=============================================================================
