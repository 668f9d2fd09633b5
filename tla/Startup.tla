------------------------------- MODULE Startup -------------------------------
(***************************************************************************)
(* Drone::startup(), which setup() calls until it returns true, and the    *)
(* stages of Radio::setup, Gyro::setup and CONTROL_SETUP that it runs.     *)
(*                                                                         *)
(* A pass first lets USB::update dispatch one packet, then runs the stage  *)
(* of the current state.  No control interrupt is on until the last stage, *)
(* so a pass is these two steps; milliseconds pass between them, and       *)
(* between the two readings of the clock in the radio's reset.  Packets    *)
(* are dispatched here exactly as in loop(): a heartbeat goes through      *)
(* heartbeat() and requestState(), and a CONFIG packet may switch the      *)
(* radio or the gyro on or off while they are being set up.                *)
(***************************************************************************)
EXTENDS DroneStates

CONSTANTS
    Dwell,        \* ESCALATE_DWELL_MS
    ResetHigh,    \* radio reset line goes low after this many ms (10)
    ResetDone,    \* radio reset is over after this many ms (20)
    PassMax,      \* bound: milliseconds in one pass of startup()
    Requests,     \* the states a heartbeat over USB may request
    Flags         \* values of radioEnabled and gyroEnabled

ASSUME StartupAssumptions ==
    /\ Dwell \in Nat /\ PassMax \in Nat
    /\ ResetHigh \in Nat /\ ResetDone \in Nat /\ ResetHigh <= ResetDone
    /\ Requests \subseteq Byte
    /\ Flags \subseteq BOOLEAN

VARIABLES
    currentState,   \* Drone::currentState
    lastRequested,  \* heartbeat()'s static
    sinceSafe,      \* millis() - safeEntryMs, up to Dwell
    radioEnabled,   \* Configs::get()
    gyroEnabled,
    radioSetup,     \* Radio::setupState
    resetLine,      \* what drives the RFM69 reset pin: high resets the module
    setupTimer,     \* millis() - setupTimer in Radio::setup, up to ResetDone
    highMs,         \* how long the line was held high, up to ResetHigh
    lowMs,          \* how long it has been low since, up to ResetDone
    gyroSetup,      \* Gyro's setup state
    actuators,      \* Gimbal::setup and Motor::setup have run
    timerOn,        \* the control timer has been started
    finished,       \* startup() has returned true: loop() takes over
    step,           \* what this pass does next
    passMs          \* milliseconds since the pass began

droneVars == <<currentState, lastRequested, sinceSafe>>
configVars == <<radioEnabled, gyroEnabled>>
radioVars == <<radioSetup, resetLine, setupTimer, highMs, lowMs>>
outputVars == <<actuators, timerOn>>
passVars == <<finished, step, passMs>>
vars == <<droneVars, configVars, radioVars, gyroSetup, outputVars, passVars>>

RadioSetups == {"RESET1", "RESET2", "RADIO_INIT", "SET_CONFIG", "COMPLETE", "DISABLED"}
GyroSetups == {"I2C", "EnableReport", "Complete", "Disabled"}

TypeOK ==
    /\ currentState \in States \ {AUTO_FLIGHT}
    /\ lastRequested \in Byte
    /\ sinceSafe \in 0..Dwell
    /\ radioEnabled \in BOOLEAN /\ gyroEnabled \in BOOLEAN
    /\ radioSetup \in RadioSetups
    /\ resetLine \in {"undriven", "high", "low"}
    /\ setupTimer \in 0..ResetDone
    /\ highMs \in 0..ResetHigh
    /\ lowMs \in 0..ResetDone
    /\ gyroSetup \in GyroSetups
    /\ actuators \in BOOLEAN /\ timerOn \in BOOLEAN
    /\ finished \in BOOLEAN
    /\ step \in {"packet", "stage", "recheck"}
    /\ passMs \in 0..PassMax

\* Power-on, the configuration loaded.
Init ==
    /\ currentState = BOOT
    /\ lastRequested = BOOT
    /\ sinceSafe = 0
    /\ radioEnabled \in Flags /\ gyroEnabled \in Flags
    /\ radioSetup = "RESET1"
    /\ resetLine = "undriven"
    /\ setupTimer = 0
    /\ highMs = 0
    /\ lowMs = 0
    /\ gyroSetup = "I2C"
    /\ actuators = FALSE /\ timerOn = FALSE
    /\ finished = FALSE
    /\ step = "packet"
    /\ passMs = 0

\* Radio::setupComplete and Gyro::setupComplete
RadioComplete == radioSetup \in {"COMPLETE", "DISABLED"}
GyroComplete == gyroSetup \in {"Complete", "Disabled"}

UpTo(bound, n) == IF n > bound THEN bound ELSE n

-----------------------------------------------------------------------------
(* A millisecond passes. *)
Tick ==
    /\ passMs < PassMax
    /\ ~finished
    /\ passMs' = passMs + 1
    /\ sinceSafe' = UpTo(Dwell, sinceSafe + 1)
    /\ setupTimer' = UpTo(ResetDone, setupTimer + 1)
    /\ highMs' = IF resetLine = "high" THEN UpTo(ResetHigh, highMs + 1) ELSE highMs
    /\ lowMs' = IF resetLine = "low" THEN UpTo(ResetDone, lowMs + 1) ELSE lowMs
    /\ UNCHANGED <<currentState, lastRequested, configVars, radioSetup,
                   resetLine, gyroSetup, outputVars, finished, step>>

-----------------------------------------------------------------------------
(* USB::update at the head of the pass. *)

AtPacket == ~finished /\ step = "packet"

NoPacket ==
    /\ AtPacket
    /\ step' = "stage"
    /\ UNCHANGED <<droneVars, configVars, radioVars, gyroSetup, outputVars,
                   finished, passMs>>

\* heartbeat() and requestState().  The motors are not attached, the setpoint
\* is zero and nothing has tripped, so besides the accepted request only the
\* state and the time of entering SAFE are left of their effects.
TooEarly(requested) == Escalates(requested, currentState) /\ sinceSafe < Dwell

Accepted(requested) == requested # lastRequested /\ ~TooEarly(requested)

HandleHeartbeat(requested) ==
    /\ lastRequested' = IF Accepted(requested) THEN requested ELSE lastRequested
    /\ IF Accepted(requested) /\ Changes(currentState, requested)
       THEN /\ currentState' = requested
            /\ sinceSafe' = IF requested = SAFE THEN 0 ELSE sinceSafe
       ELSE UNCHANGED <<currentState, sinceSafe>>

Heartbeat(requested) ==
    /\ AtPacket
    /\ HandleHeartbeat(requested)
    /\ step' = "stage"
    /\ UNCHANGED <<configVars, radioVars, gyroSetup, outputVars, finished, passMs>>

\* A CONFIG packet sets RadioEnabled, GyroEnabled or both.
SetConfig(radio, gyro) ==
    /\ AtPacket
    /\ radioEnabled' = radio
    /\ gyroEnabled' = gyro
    /\ step' = "stage"
    /\ UNCHANGED <<droneVars, radioVars, gyroSetup, outputVars, finished, passMs>>

-----------------------------------------------------------------------------
(* The stage of the current state, and the end of the pass: startup()      *)
(* returns whether the state is now SAFE.                                  *)

AtStage(state) == ~finished /\ step = "stage" /\ currentState = state

EndPass ==
    /\ finished' = (currentState' = SAFE)
    /\ step' = "packet"
    /\ passMs' = 0

Enter(state) == currentState' = state

\* Battery::setup always succeeds: no pin is configured (BATTERY_PIN is -1).
BootStage ==
    /\ AtStage(BOOT)
    /\ Enter(RADIO_SETUP)
    /\ EndPass
    /\ UNCHANGED <<lastRequested, sinceSafe, configVars, radioVars, gyroSetup,
                   outputVars>>

\* Radio::setup, one action per outcome.
RadioDisabled ==
    /\ ~radioEnabled
    /\ radioSetup' = "DISABLED"
    /\ UNCHANGED <<resetLine, setupTimer, highMs, lowMs>>

BeginReset ==
    /\ radioEnabled /\ radioSetup = "RESET1"
    /\ radioSetup' = "RESET2"
    /\ resetLine' = "high" /\ highMs' = 0 /\ lowMs' = 0
    /\ setupTimer' = 0

\* radio.init(), then setFrequency() and the key and power, have succeeded.
RadioAnswers ==
    /\ radioEnabled /\ radioSetup \in {"RADIO_INIT", "SET_CONFIG"}
    /\ radioSetup' = IF radioSetup = "RADIO_INIT" THEN "SET_CONFIG" ELSE "COMPLETE"
    /\ UNCHANGED <<resetLine, setupTimer, highMs, lowMs>>

\* Mutant: the boot moves on without asking whether the radio is set up.
RadioStageHasty ==
    /\ AtStage(RADIO_SETUP)
    /\ RadioDisabled \/ BeginReset \/ RadioAnswers
    /\ Enter(SENSOR_SETUP)
    /\ EndPass
    /\ UNCHANGED <<lastRequested, sinceSafe, configVars, gyroSetup, outputVars>>

\* Radio::setup has returned true; the boot moves on once it is complete.
RadioStage ==
    /\ AtStage(RADIO_SETUP)
    /\ RadioDisabled \/ BeginReset \/ RadioAnswers
    /\ Enter(IF RadioComplete' THEN SENSOR_SETUP ELSE RADIO_SETUP)
    /\ EndPass
    /\ UNCHANGED <<lastRequested, sinceSafe, configVars, gyroSetup, outputVars>>

\* Mutant: the timer is restarted on every pass.
ReleaseResetRestarted ==
    /\ AtStage(RADIO_SETUP)
    /\ radioEnabled /\ radioSetup = "RESET2"
    /\ resetLine' = IF setupTimer >= ResetHigh THEN "low" ELSE resetLine
    /\ setupTimer' = 0
    /\ step' = "recheck"
    /\ UNCHANGED <<droneVars, configVars, radioSetup, highMs, lowMs, gyroSetup,
                   outputVars, finished, passMs>>

\* RESET2, first reading of the clock: the reset is over and the line goes low.
ReleaseReset ==
    /\ AtStage(RADIO_SETUP)
    /\ radioEnabled /\ radioSetup = "RESET2"
    /\ resetLine' = IF setupTimer >= ResetHigh THEN "low" ELSE resetLine
    /\ step' = "recheck"
    /\ UNCHANGED <<droneVars, configVars, radioSetup, setupTimer, highMs, lowMs,
                   gyroSetup, outputVars, finished, passMs>>

\* Mutant: the module is not left the time to recover.
FinishResetShort ==
    /\ ~finished /\ step = "recheck"
    /\ radioSetup' = IF setupTimer >= ResetHigh THEN "RADIO_INIT" ELSE "RESET2"
    /\ Enter(RADIO_SETUP)
    /\ EndPass
    /\ UNCHANGED <<lastRequested, sinceSafe, configVars, resetLine, setupTimer,
                   highMs, lowMs, gyroSetup, outputVars>>

\* RESET2, second reading: the module has had its time to recover.
FinishReset ==
    /\ ~finished /\ step = "recheck"
    /\ radioSetup' = IF setupTimer >= ResetDone THEN "RADIO_INIT" ELSE "RESET2"
    /\ Enter(RADIO_SETUP)
    /\ EndPass
    /\ UNCHANGED <<lastRequested, sinceSafe, configVars, resetLine, setupTimer,
                   highMs, lowMs, gyroSetup, outputVars>>

\* The radio does not answer, or is already set up: Radio::setup returns false.
RadioFails ==
    /\ AtStage(RADIO_SETUP)
    /\ radioEnabled /\ radioSetup \notin {"RESET1", "RESET2"}
    /\ Enter(FAULT_ERROR)
    /\ EndPass
    /\ UNCHANGED <<lastRequested, sinceSafe, configVars, radioVars, gyroSetup,
                   outputVars>>

\* Gyro::setup has returned true.
SensorStage ==
    /\ AtStage(SENSOR_SETUP)
    /\ \/ ~gyroEnabled /\ gyroSetup' = "Disabled"
       \/ gyroEnabled /\ gyroSetup = "I2C" /\ gyroSetup' = "EnableReport"
       \/ gyroEnabled /\ gyroSetup = "EnableReport" /\ gyroSetup' = "Complete"
    /\ Enter(IF GyroComplete' THEN CONTROL_SETUP ELSE SENSOR_SETUP)
    /\ EndPass
    /\ UNCHANGED <<lastRequested, sinceSafe, configVars, radioVars, outputVars>>

\* begin_I2C() or enableReport() fails, or there is nothing left to set up.
GyroFails ==
    /\ AtStage(SENSOR_SETUP)
    /\ gyroEnabled
    /\ Enter(FAULT_ERROR)
    /\ EndPass
    /\ UNCHANGED <<lastRequested, sinceSafe, configVars, radioVars, gyroSetup,
                   outputVars>>

\* Gimbal::setup, Motor::setup, startControlTimer.  safeEntryMs is not set.
ControlStage ==
    /\ AtStage(CONTROL_SETUP)
    /\ actuators' = TRUE
    /\ timerOn' = TRUE
    /\ Enter(SAFE)
    /\ EndPass
    /\ UNCHANGED <<lastRequested, sinceSafe, configVars, radioVars, gyroSetup>>

\* FAULT_ERROR: the text once a second is left out; the radio is serviced when
\* it was set up, and may deliver a heartbeat or a CONFIG packet.
FaultStage ==
    /\ AtStage(FAULT_ERROR)
    /\ \/ UNCHANGED <<droneVars, configVars>>
       \/ /\ RadioComplete /\ radioEnabled
          /\ \E requested \in Requests : HandleHeartbeat(requested)
          /\ UNCHANGED configVars
       \/ /\ RadioComplete /\ radioEnabled
          /\ radioEnabled' \in Flags /\ gyroEnabled' \in Flags
          /\ UNCHANGED droneVars
    /\ EndPass
    /\ UNCHANGED <<radioVars, gyroSetup, outputVars>>

\* A heartbeat has put the vehicle in a state startup() has no stage for.
NoStage ==
    /\ ~finished /\ step = "stage"
    /\ currentState \in {SAFE, READY_ARMED, MAN_FLIGHT, AUTO_FLIGHT}
    /\ UNCHANGED droneVars
    /\ EndPass
    /\ UNCHANGED <<configVars, radioVars, gyroSetup, outputVars>>

Stage ==
    \/ BootStage
    \/ RadioStage \/ FinishReset \/ RadioFails
    \/ SensorStage \/ GyroFails
    \/ ControlStage
    \/ FaultStage
    \/ NoStage

\* setup() has returned; loop() is FlightCore's.
Finished == finished /\ UNCHANGED vars

Next ==
    \/ Tick
    \/ NoPacket
    \/ \E requested \in Requests : Heartbeat(requested)
    \/ \E radio, gyro \in Flags : SetConfig(radio, gyro)
    \/ ReleaseReset
    \/ Stage
    \/ Finished

Spec == Init /\ [][Next]_vars

\* Time passes and startup() is called again for as long as it returns false.
Pass == Stage \/ ReleaseReset \/ NoPacket
FairSpec == Spec /\ WF_vars(Tick) /\ WF_vars(Pass)

-----------------------------------------------------------------------------
\* The vehicle reports SAFE only when "startup is complete and all systems are
\* up" (dashboard-protocol.md:443, README.md:91): loop() starts with the radio
\* and gyro set up or disabled, the actuators attached and the timer running.
BootComplete ==
    finished => RadioComplete /\ GyroComplete /\ actuators /\ timerOn

\* The control interrupt is started last, whatever a heartbeat or a CONFIG
\* packet did on the way: once it runs, the radio and the gyro are set up or
\* disabled and what it drives is attached (startControlTimer(),
\* drone.cpp:108-111).
TimerLast == timerOn => RadioComplete /\ GyroComplete /\ actuators

\* By the time the RFM69 is talked to, its reset line was high, which resets it,
\* for the whole of the first threshold, and the module has recovered for what
\* the two thresholds leave, less the two passes that may lie between two looks
\* at the clock; and unless a pass takes longer than the second phase the line
\* is low (Radio::setup, radio.cpp:96-130).
ResetServed ==
    radioSetup \in {"RADIO_INIT", "SET_CONFIG", "COMPLETE"} =>
        /\ highMs >= ResetHigh
        /\ lowMs >= ResetDone - ResetHigh - 2 * PassMax
        /\ PassMax <= ResetDone - ResetHigh => resetLine = "low"

\* Nothing that can move is reachable before the dwell has passed since
\* power-on, so a watchdog that reads fed without any heartbeat is harmless
\* (dashboard-protocol.md:355).
EarlyBootHarmless == Armed(currentState) => sinceSafe >= Dwell

\* README.md:101: "FAULT_ERROR refuses every transition", those a heartbeat
\* asks for over USB or over the radio included.
FaultIsFinal ==
    [][currentState = FAULT_ERROR => currentState' = FAULT_ERROR /\ ~finished']_vars

\* Startup does not hang: whatever is switched on or off and whoever fails, it
\* ends in loop() or in a reported fault, unless a heartbeat takes the vehicle
\* to a state startup() has no stage for (startup(), drone.cpp:329).
BootEnds == <>(finished \/ currentState \in {FAULT_ERROR, READY_ARMED, MAN_FLIGHT})
=============================================================================
