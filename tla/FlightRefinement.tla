-------------------------- MODULE FlightRefinement --------------------------
(***************************************************************************)
(* FlightCore implements LinkFailsafe.  The abstract state changes where   *)
(* the code has committed to the change: in the middle of requestState()   *)
(* the vehicle counts as being in the state that is being entered, and its *)
(* dwell is not over while SAFE is being entered.                          *)
(***************************************************************************)
EXTENDS FlightCore

EnteringSafe == op \in {"idleBottom", "idleTop", "idleSpeeds", "dateSafe", "enterSafe"}
EnteringMan == op \in {"zeroBottom", "zeroTop", "enterMan"}

PromisedState == IF EnteringSafe THEN SAFE
                 ELSE IF EnteringMan THEN MAN_FLIGHT
                 ELSE currentState

Failsafe == INSTANCE LinkFailsafe
    WITH mode <- PromisedState,
         held <- lastRequested,
         alarm <- tripped,
         settled <- ~EnteringSafe /\ sinceSafe >= Dwell

\* Every step of the firmware is an acceptance of a changed request, a trip, a
\* passage of time, or nothing at all as far as the failsafe goes: heartbeats
\* repeated, late or refused, control ticks and commands do not move the
\* vehicle's state (heartbeat(), serviceWatchdog() and requestState(),
\* drone.cpp:565-683).
ImplementsFailsafe == Failsafe!Spec
=============================================================================
