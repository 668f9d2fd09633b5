---------------------------- MODULE ConfigRegister ----------------------------
(***************************************************************************)
(* What the persistent configuration promises, without the image, its      *)
(* layouts and its checksum: a register that keeps what was written while  *)
(* the vehicle is off, and that a flight cannot change.                    *)
(*                                                                         *)
(* A write that the power interrupts is not atomic: it leaves any one      *)
(* configuration, neither the old nor the new in general, but always one   *)
(* whose values are accepted, and every boot finds that same one until the *)
(* next write.                                                             *)
(***************************************************************************)

CONSTANT Configurations    \* those whose values are accepted

VARIABLES
    value,     \* the configuration in use, or that a boot would take into use
    on,        \* the vehicle is on and its configuration loaded
    flying     \* it is in a state in which changes are refused

vars == <<value, on, flying>>

Init ==
    /\ value \in Configurations
    /\ on = FALSE
    /\ flying = FALSE

Boot ==
    /\ ~on
    /\ on' = TRUE
    /\ UNCHANGED <<value, flying>>

Write ==
    /\ on /\ ~flying
    /\ value' \in Configurations
    /\ UNCHANGED <<on, flying>>

\* The power fails during a write, which a boot may also make.
Tear ==
    /\ ~flying
    /\ value' \in Configurations
    /\ on' = FALSE
    /\ UNCHANGED flying

\* The vehicle takes off or comes to rest.
Fly ==
    /\ on
    /\ flying' \in BOOLEAN
    /\ UNCHANGED <<value, on>>

PowerOff ==
    /\ on
    /\ on' = FALSE
    /\ flying' = FALSE
    /\ UNCHANGED value

Next == Boot \/ Write \/ Tear \/ Fly \/ PowerOff

Spec == Init /\ [][Next]_vars
=============================================================================
