----------------------------- MODULE FlightCore -----------------------------
(***************************************************************************)
(* The vehicle once startup() has returned: the state machine, the link    *)
(* watchdog, the setpoint and the actuator guards, as loop() and the       *)
(* 1 kHz control interrupt share them.                                     *)
(*                                                                         *)
(* Two contexts run.  loop() goes round four stages (src/main.cpp): it     *)
(* polls the radio, polls USB, services the watchdog, and reports          *)
(* telemetry.  A stage is cut into the steps between which an interrupt    *)
(* can land; `op` says which one is next.  The control interrupt           *)
(* (onControlTick) preempts loop() wherever interrupts are not masked and  *)
(* runs to its end before loop() goes on; `isr` says where it is.  SysTick *)
(* outranks the control interrupt, so milliseconds pass inside a tick too. *)
(*                                                                         *)
(* Time is counted, not stamped: `watchdog` is the value an elapsedMillis  *)
(* reads and `sinceSafe` is millis() - safeEntryMs, each modulo Wrap       *)
(* (2^32 in the firmware), so that wrap-around is exact.                   *)
(***************************************************************************)
EXTENDS DroneStates, MotorMix

CONSTANTS
    CommTimeout,  \* COMM_WATCHDOG_SAFETY_MS, in milliseconds
    Dwell,        \* ESCALATE_DWELL_MS
    Wrap,         \* modulus of millis()
    LoopMax,      \* bound: milliseconds that may pass during one pass of loop()
    Links,        \* the links with something at the other end
    Requests,     \* the states a heartbeat may request
    Commands,     \* the setpoints a COMMAND may carry
    Gimbal,       \* gimbal setpoints; the pair gimbalX, gimbalY is one value
    TopAngle,     \* Gimbal::set: the top servo's degrees for a setpoint
    BottomAngle,  \* Gimbal::set: the bottom servo's degrees
    NoGimbal,     \* activeTarget before any COMMAND: both fields zero
    MotorTrim     \* the configured motor trims

Setpoint == [gimbal : Gimbal, bottom : Throttle, top : Throttle]

ASSUME CoreAssumptions ==
    /\ CommTimeout \in Nat \ {0}
    /\ Dwell \in Nat
    /\ LoopMax \in Nat
    /\ Wrap \in Nat
    /\ CommTimeout + 2 * LoopMax < Wrap
    /\ Links \subseteq {"radio", "usb"}
    /\ Requests \subseteq Byte
    /\ Commands \subseteq Setpoint
    /\ NoGimbal \in Gimbal
    /\ TopAngle \in [Gimbal -> 60..120]
    /\ BottomAngle \in [Gimbal -> 60..120]
    /\ MotorTrim \in [bottom : Trim, top : Trim]

VARIABLES
    currentState,   \* Drone::currentState
    watchdog,       \* mechanismWatchdog.watchdog
    tripped,        \* mechanismWatchdog.tripped
    sinceSafe,      \* millis() - safeEntryMs
    lastRequested,  \* heartbeat()'s static of that name
    activeTarget,   \* the setpoint the control tick flies
    esc,            \* the pulse last written to each ESC
    setSpeed,       \* Motor::bottomSetSpeed, topSetSpeed
    servo,          \* Gimbal's commanded angles and what the servos were sent
    telemetry,      \* the control tick's snapshot: state and motor fields
    masked,         \* noInterrupts() is in force
    stage,          \* loop(): which service is running
    op,             \* loop(): the next step of that service
    request,        \* heartbeat()'s argument
    command,        \* setTarget()'s argument
    permit,         \* setMotor() in loop(): the guard as it was evaluated
    snapshot,       \* loop()'s copy of telemetry
    isr,            \* the next step of the control tick
    isrPermit,      \* setMotor() in the tick: the guard as it was evaluated
    due,            \* the timer has fired and the tick has not started
    passMs          \* milliseconds since this pass of loop() began

stateVars == <<currentState, watchdog, tripped, sinceSafe, lastRequested>>
outputVars == <<activeTarget, esc, setSpeed, servo, telemetry>>
loopVars == <<stage, op, passMs>>
localVars == <<request, command, permit, snapshot>>
tickVars == <<isr, isrPermit, due>>
vars == <<stateVars, outputVars, masked, loopVars, localVars, tickVars>>

Pair(S) == [bottom : S, top : S]
Both(x) == [bottom |-> x, top |-> x]

Frame == [state : States, bottom : Throttle, top : Throttle]
EmptyFrame == [state |-> BOOT, bottom |-> 0, top |-> 0]

\* Mutant: the comparison lets the timeout itself through.
FedAtTimeout == watchdog <= CommTimeout

\* Drone::getFlightWatchdogStatus
Fed == watchdog < CommTimeout

\* The output guard of Motor::setMotor
MotorsPermitted == Fed /\ currentState = MAN_FLIGHT

Stages == {"radio", "usb", "watchdog", "report"}

\* The order of loop()
NextStage == [radio |-> "usb", usb |-> "watchdog", watchdog |-> "report",
              report |-> "radio"]

LoopOps == {"poll", "decide",
            "storeGimbal", "storeBottom", "storeTop",
            "idleBottom", "idleTop", "idleSpeeds", "dateSafe", "enterSafe",
            "zeroBottom", "zeroTop", "enterMan",
            "copyState", "copyMotors", "send"}

TickOps == {"idle", "pitch", "yaw", "guard", "drive", "record"}

TypeOK ==
    /\ currentState \in {SAFE, READY_ARMED, MAN_FLIGHT}
    /\ watchdog \in 0..Wrap - 1
    /\ tripped \in BOOLEAN
    /\ sinceSafe \in 0..Wrap - 1
    /\ lastRequested \in Byte
    /\ activeTarget \in Setpoint
    /\ esc \in Pair(EscPulse)
    /\ setSpeed \in Pair(Throttle)
    /\ servo \in [topServo : 0..120, bottomServo : 0..120, pitch : 0..120, yaw : 0..120]
    /\ telemetry \in Frame
    /\ masked \in BOOLEAN
    /\ stage \in Stages
    /\ op \in LoopOps
    /\ request \in Byte
    /\ command \in Setpoint
    /\ permit \in BOOLEAN
    /\ snapshot \in Frame
    /\ isr \in TickOps
    /\ isrPermit \in BOOLEAN
    /\ due \in BOOLEAN
    /\ passMs \in 0..LoopMax

-----------------------------------------------------------------------------
\* setup() has just returned: CONTROL_SETUP put the vehicle in SAFE, idled the
\* ESCs and started the timer.  safeEntryMs has not been set since power-on; but
\* startup() dispatched heartbeats and COMMANDs, which fed the watchdog, were
\* remembered where they did not change the state, and stored a setpoint.
Init ==
    /\ currentState = SAFE
    /\ sinceSafe \in 0..Wrap - 1
    /\ watchdog \in 0..sinceSafe
    /\ tripped = FALSE
    /\ lastRequested \in {BOOT} \cup {r \in Requests : ~Changes(CONTROL_SETUP, r)}
    /\ activeTarget \in Commands \cup {[gimbal |-> NoGimbal, bottom |-> 0, top |-> 0]}
    /\ esc = Both(ESC_MIN_US)
    /\ setSpeed = Both(0)
    /\ servo = [topServo |-> 0, bottomServo |-> 0, pitch |-> 0, yaw |-> 0]
    /\ telemetry = EmptyFrame
    /\ masked = FALSE
    /\ stage = "radio"
    /\ op = "poll"
    /\ request = BOOT
    /\ command = activeTarget
    /\ permit = FALSE
    /\ snapshot = EmptyFrame
    /\ isr = "idle"
    /\ isrPermit = FALSE
    /\ due = FALSE
    /\ passMs = 0

-----------------------------------------------------------------------------
(* The clock. *)

\* SysTick: a millisecond passes and the control timer fires.  SysTick is
\* masked with everything else; the bounds on the environment are that the
\* previous tick has started by now and that loop() keeps its bound.
Tick ==
    /\ ~masked
    /\ ~due
    /\ passMs < LoopMax
    /\ watchdog' = (watchdog + 1) % Wrap
    /\ sinceSafe' = (sinceSafe + 1) % Wrap
    /\ due' = TRUE
    /\ passMs' = passMs + 1
    /\ UNCHANGED <<currentState, tripped, lastRequested, outputVars, masked,
                   stage, op, localVars, isr, isrPermit>>

-----------------------------------------------------------------------------
(* loop(). It runs only while the control interrupt does not. *)

At(where) == isr = "idle" /\ op = where

\* The service is done; the next one of loop() starts, after "report" in a
\* new pass.
Return ==
    /\ op' = "poll"
    /\ stage' = NextStage[stage]
    /\ passMs' = IF stage = "report" THEN 0 ELSE passMs

Goto(where) == op' = where /\ UNCHANGED <<stage, passMs>>

\* Radio::update or USB::update has no packet for the vehicle.
NoPacket ==
    /\ At("poll")
    /\ stage \in {"radio", "usb"}
    /\ Return
    /\ UNCHANGED <<stateVars, outputVars, masked, localVars, tickVars>>

\* heartbeat(requested), first step: the watchdog is fed whatever is requested.
Heartbeat(requested) ==
    /\ At("poll")
    /\ stage \in Links
    /\ watchdog' = 0
    /\ request' = requested
    /\ Goto("decide")
    /\ UNCHANGED <<currentState, tripped, sinceSafe, lastRequested, outputVars,
                   masked, command, permit, snapshot, tickVars>>

\* requestState(s).  READY_ARMED is one store; SAFE goes on with
\* Motor::setMotor(0, 0), whose guard is evaluated here, and MAN_FLIGHT masks
\* interrupts to zero the throttles.
RequestState(s) ==
    \/ /\ ~Changes(currentState, s)
       /\ Return
       /\ UNCHANGED <<currentState, masked, permit>>
    \/ /\ Changes(currentState, s)
       /\ s = SAFE
       /\ permit' = MotorsPermitted
       /\ Goto("idleBottom")
       /\ UNCHANGED <<currentState, masked>>
    \/ /\ Changes(currentState, s)
       /\ s = READY_ARMED
       /\ currentState' = READY_ARMED
       /\ Return
       /\ UNCHANGED <<masked, permit>>
    \/ /\ Changes(currentState, s)
       /\ s = MAN_FLIGHT
       /\ masked' = TRUE
       /\ Goto("zeroBottom")
       /\ UNCHANGED <<currentState, permit>>

\* Mutant: the dwell ends a millisecond early.
TooEarlyLessOne == Escalates(request, currentState) /\ sinceSafe + 1 < Dwell

\* heartbeat(): a change is refused while the dwell has not passed.
TooEarly == Escalates(request, currentState) /\ sinceSafe < Dwell

\* Mutant: the request is compared with the state, not with the last request.
RefusedByLevel == request = currentState \/ TooEarly

\* heartbeat() returns early: the edge rule and the dwell.
Refused == request = lastRequested \/ TooEarly

\* heartbeat(), second step: the request is refused or accepted.
Decide ==
    /\ At("decide")
    /\ \/ /\ Refused
          /\ Return
          /\ UNCHANGED <<currentState, masked, permit, tripped, lastRequested>>
       \/ /\ ~Refused
          /\ lastRequested' = request
          /\ tripped' = (tripped /\ request > SAFE)
          /\ RequestState(request)
    /\ request' = BOOT
    /\ UNCHANGED <<watchdog, sinceSafe, outputVars, command, snapshot, tickVars>>

\* serviceWatchdog() and onWatchdogExpired().
ServiceWatchdog ==
    /\ At("poll")
    /\ stage = "watchdog"
    /\ \/ /\ ~Armed(currentState) \/ Fed
          /\ Return
          /\ UNCHANGED <<currentState, masked, permit, tripped>>
       \/ /\ Armed(currentState) /\ ~Fed
          /\ tripped' = TRUE
          /\ RequestState(SAFE)
    /\ UNCHANGED <<watchdog, sinceSafe, lastRequested, outputVars, request,
                   command, snapshot, tickVars>>

\* Motor::setMotor(0, 0) called from requestState(SAFE): two pulses and the
\* set speeds, each of which the control tick may come between.
IdleBottom ==
    /\ At("idleBottom")
    /\ esc' = [esc EXCEPT !.bottom = ESC_MIN_US]
    /\ Goto("idleTop")
    /\ UNCHANGED <<stateVars, activeTarget, setSpeed, servo, telemetry, masked,
                   localVars, tickVars>>

IdleTop ==
    /\ At("idleTop")
    /\ esc' = [esc EXCEPT !.top = ESC_MIN_US]
    /\ Goto("idleSpeeds")
    /\ UNCHANGED <<stateVars, activeTarget, setSpeed, servo, telemetry, masked,
                   localVars, tickVars>>

IdleSpeeds ==
    /\ At("idleSpeeds")
    /\ setSpeed' = IF permit
                   THEN [bottom |-> SetSpeed(0, MotorTrim.bottom),
                         top    |-> SetSpeed(0, MotorTrim.top)]
                   ELSE Both(0)
    /\ permit' = FALSE
    /\ Goto("dateSafe")
    /\ UNCHANGED <<stateVars, activeTarget, esc, servo, telemetry, masked,
                   request, command, snapshot, tickVars>>

\* Mutant: safeEntryMs is not set.
DateSafeUndated ==
    /\ At("dateSafe")
    /\ Goto("enterSafe")
    /\ UNCHANGED <<stateVars, outputVars, masked, localVars, tickVars>>

\* safeEntryMs = millis(), and then currentState = SAFE, which nothing masks.
DateSafe ==
    /\ At("dateSafe")
    /\ sinceSafe' = 0
    /\ Goto("enterSafe")
    /\ UNCHANGED <<currentState, watchdog, tripped, lastRequested, outputVars,
                   masked, localVars, tickVars>>

EnterSafe ==
    /\ At("enterSafe")
    /\ currentState' = SAFE
    /\ Return
    /\ UNCHANGED <<watchdog, tripped, sinceSafe, lastRequested, outputVars,
                   masked, localVars, tickVars>>

\* requestState(MAN_FLIGHT): the throttles are zeroed with interrupts masked.
ZeroBottom ==
    /\ At("zeroBottom")
    /\ activeTarget' = [activeTarget EXCEPT !.bottom = 0]
    /\ Goto("zeroTop")
    /\ UNCHANGED <<stateVars, esc, setSpeed, servo, telemetry, masked,
                   localVars, tickVars>>

\* Mutant: the second store is left out.
ZeroTopForgotten ==
    /\ At("zeroTop")
    /\ masked' = FALSE
    /\ Goto("enterMan")
    /\ UNCHANGED <<stateVars, outputVars, localVars, tickVars>>

ZeroTop ==
    /\ At("zeroTop")
    /\ activeTarget' = [activeTarget EXCEPT !.top = 0]
    /\ masked' = FALSE
    /\ Goto("enterMan")
    /\ UNCHANGED <<stateVars, esc, setSpeed, servo, telemetry, localVars,
                   tickVars>>

EnterMan ==
    /\ At("enterMan")
    /\ currentState' = MAN_FLIGHT
    /\ Return
    /\ UNCHANGED <<watchdog, tripped, sinceSafe, lastRequested, outputVars,
                   masked, localVars, tickVars>>

\* Mutant: setTarget() without noInterrupts().
CommandUnmasked(target) ==
    /\ At("poll")
    /\ stage \in Links
    /\ command' = target
    /\ Goto("storeGimbal")
    /\ UNCHANGED <<stateVars, outputVars, masked, request, permit, snapshot, tickVars>>

\* A COMMAND packet: setTarget() masks interrupts around its stores.
Command(target) ==
    /\ At("poll")
    /\ stage \in Links
    /\ command' = target
    /\ masked' = TRUE
    /\ Goto("storeGimbal")
    /\ UNCHANGED <<stateVars, outputVars, request, permit, snapshot, tickVars>>

StoreGimbal ==
    /\ At("storeGimbal")
    /\ activeTarget' = [activeTarget EXCEPT !.gimbal = command.gimbal]
    /\ Goto("storeBottom")
    /\ UNCHANGED <<stateVars, esc, setSpeed, servo, telemetry, masked,
                   localVars, tickVars>>

StoreBottom ==
    /\ At("storeBottom")
    /\ activeTarget' = [activeTarget EXCEPT !.bottom = command.bottom]
    /\ Goto("storeTop")
    /\ UNCHANGED <<stateVars, esc, setSpeed, servo, telemetry, masked,
                   localVars, tickVars>>

\* Mutant: the interrupts are not enabled again.
StoreTopMasked ==
    /\ At("storeTop")
    /\ activeTarget' = [activeTarget EXCEPT !.top = command.top]
    /\ Return
    /\ UNCHANGED <<stateVars, esc, setSpeed, servo, telemetry, masked,
                   localVars, tickVars>>

StoreTop ==
    /\ At("storeTop")
    /\ activeTarget' = [activeTarget EXCEPT !.top = command.top]
    /\ masked' = FALSE
    /\ Return
    /\ UNCHANGED <<stateVars, esc, setSpeed, servo, telemetry, localVars,
                   tickVars>>

\* The end of loop(): less than 100 ms since the last telemetry, or a masked
\* copy of the tick's snapshot (getTelemetry), which the senders then read.
\* When the 100 ms are over is left open.
SkipReport ==
    /\ At("poll")
    /\ stage = "report"
    /\ Return
    /\ UNCHANGED <<stateVars, outputVars, masked, localVars, tickVars>>

\* Mutant: getTelemetry() without noInterrupts().
BeginReportUnmasked ==
    /\ At("poll")
    /\ stage = "report"
    /\ Goto("copyState")
    /\ UNCHANGED <<stateVars, outputVars, masked, localVars, tickVars>>

BeginReport ==
    /\ At("poll")
    /\ stage = "report"
    /\ masked' = TRUE
    /\ Goto("copyState")
    /\ UNCHANGED <<stateVars, outputVars, localVars, tickVars>>

CopyState ==
    /\ At("copyState")
    /\ snapshot' = [snapshot EXCEPT !.state = telemetry.state]
    /\ Goto("copyMotors")
    /\ UNCHANGED <<stateVars, outputVars, masked, request, command, permit,
                   tickVars>>

CopyMotors ==
    /\ At("copyMotors")
    /\ snapshot' = [snapshot EXCEPT !.bottom = telemetry.bottom,
                                    !.top = telemetry.top]
    /\ masked' = FALSE
    /\ Goto("send")
    /\ UNCHANGED <<stateVars, outputVars, request, command, permit, tickVars>>

\* The frame is queued on both links and the copy goes out of scope.
SendReport ==
    /\ At("send")
    /\ snapshot' = EmptyFrame
    /\ Return
    /\ UNCHANGED <<stateVars, outputVars, masked, request, command, permit,
                   tickVars>>

LoopStep ==
    \/ NoPacket
    \/ \E requested \in Requests : Heartbeat(requested)
    \/ \E target \in Commands : Command(target)
    \/ Decide
    \/ ServiceWatchdog
    \/ IdleBottom \/ IdleTop \/ IdleSpeeds \/ DateSafe \/ EnterSafe
    \/ ZeroBottom \/ ZeroTop \/ EnterMan
    \/ StoreGimbal \/ StoreBottom \/ StoreTop
    \/ SkipReport \/ BeginReport \/ CopyState \/ CopyMotors \/ SendReport

-----------------------------------------------------------------------------
(* The control tick: onControlTick() and Drone::update().  loop() cannot run *)
(* until it ends, so the setpoint it reads at its start does not change.     *)

InTick(where, next) == isr = where /\ isr' = next

\* The timer interrupt is taken.
BeginTick ==
    /\ InTick("idle", "pitch")
    /\ due
    /\ ~masked
    /\ due' = FALSE
    /\ UNCHANGED <<stateVars, outputVars, masked, loopVars, localVars, isrPermit>>

\* Gimbal::setTopServo: the commanded angle is always updated, the servo is
\* written only while movement is allowed.
SetTopServo ==
    /\ InTick("pitch", "yaw")
    /\ LET angle == TopAngle[activeTarget.gimbal]
       IN  servo' = [servo EXCEPT !.topServo = angle,
                                  !.pitch = IF Fed /\ Armed(currentState)
                                            THEN angle ELSE @]
    /\ UNCHANGED <<stateVars, activeTarget, esc, setSpeed, telemetry, masked,
                   loopVars, localVars, isrPermit, due>>

\* Gimbal::setBotServo: returns at once when the watchdog has expired.
SetBotServo ==
    /\ InTick("yaw", "guard")
    /\ LET angle == BottomAngle[activeTarget.gimbal]
       IN  servo' = IF ~Fed THEN servo
                    ELSE [servo EXCEPT !.bottomServo = angle,
                                       !.yaw = IF Armed(currentState)
                                               THEN angle ELSE @]
    /\ UNCHANGED <<stateVars, activeTarget, esc, setSpeed, telemetry, masked,
                   loopVars, localVars, isrPermit, due>>

\* Mutant: the guard looks at the state only.
GuardMotorsByState ==
    /\ InTick("guard", "drive")
    /\ isrPermit' = (currentState = MAN_FLIGHT)
    /\ UNCHANGED <<stateVars, outputVars, masked, loopVars, localVars, due>>

\* Motor::setMotor(setpoint): the guard, and then the writes it allowed.  A
\* millisecond may pass between the two.
GuardMotors ==
    /\ InTick("guard", "drive")
    /\ isrPermit' = MotorsPermitted
    /\ UNCHANGED <<stateVars, outputVars, masked, loopVars, localVars, due>>

DriveMotors ==
    /\ InTick("drive", "record")
    /\ esc' = IF isrPermit
              THEN [bottom |-> Pulse(activeTarget.bottom, MotorTrim.bottom),
                    top    |-> Pulse(activeTarget.top, MotorTrim.top)]
              ELSE Both(ESC_MIN_US)
    /\ setSpeed' = IF isrPermit
                   THEN [bottom |-> SetSpeed(activeTarget.bottom, MotorTrim.bottom),
                         top    |-> SetSpeed(activeTarget.top, MotorTrim.top)]
                   ELSE Both(0)
    /\ isrPermit' = FALSE
    /\ UNCHANGED <<stateVars, activeTarget, servo, telemetry, masked, loopVars,
                   localVars, due>>

\* recordTelemetry(), as far as the state and the motors go.
RecordTelemetry ==
    /\ InTick("record", "idle")
    /\ telemetry' = [state |-> currentState, bottom |-> setSpeed.bottom,
                     top |-> setSpeed.top]
    /\ UNCHANGED <<stateVars, activeTarget, esc, setSpeed, servo, masked,
                   loopVars, localVars, isrPermit, due>>

TickStep ==
    \/ BeginTick
    \/ SetTopServo \/ SetBotServo
    \/ GuardMotors \/ DriveMotors
    \/ RecordTelemetry

-----------------------------------------------------------------------------
Next == Tick \/ LoopStep \/ TickStep

Spec == Init /\ [][Next]_vars

\* The processor never stops: loop() goes round, and SysTick and a pending
\* control interrupt are taken although masking disables them now and again
\* (hence strong fairness).  Nothing is assumed of the links.
Fairness == SF_vars(Tick) /\ WF_vars(LoopStep) /\ SF_vars(TickStep)

FairSpec == Spec /\ Fairness

-----------------------------------------------------------------------------
(* Safety. *)

\* The control tick never flies a mix of two commands (setTarget(),
\* drone.cpp:311): while it runs, the setpoint is that of the last COMMAND,
\* with its throttles as sent or both zeroed by the entry into MAN_FLIGHT.
NoTornSetpoint ==
    isr # "idle" =>
        /\ activeTarget.gimbal = command.gimbal
        /\ <<activeTarget.bottom, activeTarget.top>>
              \in {<<command.bottom, command.top>>, <<0, 0>>}

\* A dead link is dealt with in bounded time: a state that allows movement is
\* never held for two passes of loop() beyond the watchdog's timeout, so the
\* wrap of millis() cannot make a stale watchdog look fed in flight
\* (serviceWatchdog(), drone.cpp:565).
TripDeadline == Armed(currentState) => watchdog < CommTimeout + 2 * LoopMax

\* A telemetry frame is one instant: a frame that reports a state other than
\* MAN_FLIGHT reports stopped motors (getTelemetry(), drone.cpp:123;
\* dashboard-protocol.md:416).
FrameCoherent ==
    op = "send" /\ snapshot.state # MAN_FLIGHT =>
        snapshot.bottom = 0 /\ snapshot.top = 0

\* README.md:102, "Entering SAFE zeroes the motors": in SAFE both ESCs have
\* been sent the stop pulse.
SafeMeansStopped == currentState = SAFE => esc = Both(ESC_MIN_US)

(* Liveness. *)

\* When heartbeats stop for good the vehicle comes to rest in SAFE with both
\* ESCs stopped, and stays there (README.md:162).
HeartbeatArrives == \E requested \in Requests : Heartbeat(requested)
AtRest == currentState = SAFE /\ esc = Both(ESC_MIN_US)
LinkLossDisarms == <>[][~HeartbeatArrives]_vars => <>[]AtRest
=============================================================================
