---------------------------- MODULE LinkFailsafe ----------------------------
(***************************************************************************)
(* What the link failsafe promises, without the machinery that keeps the   *)
(* promise: no watchdog timer, no control tick, no stores and no packets.  *)
(*                                                                         *)
(* The vehicle's state changes in two ways only.  A heartbeat whose        *)
(* request differs from the one accepted last is accepted, unless it would *)
(* take the vehicle up out of SAFE before the dwell has passed; or the     *)
(* failsafe trips and puts an armed vehicle in SAFE, raising the alarm and *)
(* leaving the accepted request as it was, so that the same request cannot *)
(* undo the trip.                                                          *)
(***************************************************************************)
EXTENDS DroneStates

CONSTANT Requests    \* the states a heartbeat may request

VARIABLES
    mode,      \* the vehicle's state
    held,      \* the request accepted last
    alarm,     \* the latched trip indication
    settled    \* the dwell in SAFE has passed

vars == <<mode, held, alarm, settled>>

\* Requests were heard during startup; which of them was accepted is left open.
Init ==
    /\ mode = SAFE
    /\ held \in Requests \cup {BOOT}
    /\ alarm = FALSE
    /\ settled \in BOOLEAN

\* A changed request is accepted; some are for states that cannot be entered.
Accept(requested) ==
    /\ requested # held
    /\ ~(Escalates(requested, mode) /\ ~settled)
    /\ held' = requested
    /\ alarm' = (alarm /\ requested > SAFE)
    /\ mode' = IF Changes(mode, requested) THEN requested ELSE mode
    /\ settled' = (settled /\ ~(mode # SAFE /\ mode' = SAFE))

Trip ==
    /\ Armed(mode)
    /\ mode' = SAFE
    /\ alarm' = TRUE
    /\ settled' = FALSE
    /\ UNCHANGED held

\* Time passes.  The counter behind the dwell runs through all its values, so
\* it may also wrap.
Clock ==
    /\ settled' \in BOOLEAN
    /\ UNCHANGED <<mode, held, alarm>>

Next == Clock \/ Trip \/ \E requested \in Requests : Accept(requested)

Spec == Init /\ [][Next]_vars

=============================================================================
