---------------------------- MODULE DroneStates ----------------------------
(***************************************************************************)
(* The vehicle states of include/drone.h and the predicates the firmware   *)
(* evaluates on them.  The numeric values matter: the code orders states   *)
(* with < and <=, and a heartbeat carries the state it requests as a byte. *)
(***************************************************************************)
EXTENDS Integers

BOOT          == 0
RADIO_SETUP   == 1
SENSOR_SETUP  == 2
CONTROL_SETUP == 3
SAFE          == 4
READY_ARMED   == 10
MAN_FLIGHT    == 11
AUTO_FLIGHT   == 12
FAULT_ERROR   == 255

States == {BOOT, RADIO_SETUP, SENSOR_SETUP, CONTROL_SETUP, SAFE,
           READY_ARMED, MAN_FLIGHT, AUTO_FLIGHT, FAULT_ERROR}

\* What the state byte of a heartbeat may hold: the firmware does not check it.
Byte == 0..255

\* Movement is allowed: the gimbal's output guard and the watchdog's own guard.
Armed(s) == s >= READY_ARMED /\ s # FAULT_ERROR

\* Mutant: only SAFE itself counts as below the flight states.
EscalatesFromSafe(requested, state) == requested > SAFE /\ state = SAFE

\* heartbeat(): asking for a state above SAFE while at or below it.
Escalates(requested, state) == requested > SAFE /\ state <= SAFE

\* Mutant: the check for FAULT_ERROR is left out.
ChangesFromFault(state, requested) ==
    requested # state /\ requested \in {SAFE, READY_ARMED, MAN_FLIGHT}

\* Mutant: AUTO_FLIGHT is entered although it is not implemented.
ChangesToAuto(state, requested) ==
    /\ requested # state
    /\ state # FAULT_ERROR
    /\ requested \in {SAFE, READY_ARMED, MAN_FLIGHT, AUTO_FLIGHT}

\* requestState() goes through with the change (it refuses, or does nothing,
\* when the state is the current one, in FAULT_ERROR, and for any other target).
Changes(state, requested) ==
    /\ requested # state
    /\ state # FAULT_ERROR
    /\ requested \in {SAFE, READY_ARMED, MAN_FLIGHT}
=============================================================================
