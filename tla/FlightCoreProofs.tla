-------------------------- MODULE FlightCoreProofs --------------------------
(***************************************************************************)
(* Proofs about FlightCore for every value of its constants: its typing,   *)
(* the untorn setpoint and the deadline of the link watchdog.              *)
(***************************************************************************)
EXTENDS FlightCore, TLAPS

\* A counter of milliseconds stays in range, and counts where it cannot wrap.
LEMMA Advance ==
    ASSUME NEW n \in 0..Wrap - 1
    PROVE  /\ (n + 1) % Wrap \in 0..Wrap - 1
           /\ (n + 1) % Wrap <= n + 1
  <1>1. Wrap \in Nat /\ Wrap > 0
    BY CoreAssumptions
  <1>2. CASE n + 1 < Wrap
    <2>1. (n + 1) % Wrap = n + 1
      BY <1>1, <1>2
    <2>2. QED BY <1>1, <1>2, <2>1
  <1>3. CASE n + 1 = Wrap
    <2>1. (n + 1) % Wrap = 0
      BY <1>1, <1>3
    <2>2. QED BY <1>1, <2>1
  <1>4. QED BY <1>1, <1>2, <1>3

\* Clamping brings any sum of a throttle and a trim back to a throttle.
LEMMA TrimmedType ==
    ASSUME NEW throttle \in Throttle, NEW trim \in Trim
    PROVE  Trimmed(throttle, trim) \in Throttle
  BY DEF Throttle, Trim, Trimmed, Clamp

\* Every pulse is the stop pulse or one between the slowest and the fastest.
LEMMA PulseType ==
    ASSUME NEW throttle \in Throttle, NEW trim \in Trim
    PROVE  Pulse(throttle, trim) \in EscPulse
  <1> DEFINE t == Trimmed(throttle, trim)
  <1>1. t \in 0..255
    BY TrimmedType DEF Throttle
  <1>2. (t * 667) \div 255 \in 0..667
    <2> HIDE DEF t
    <2>1. QED BY <1>1
  <1>3. QED
    BY <1>2 DEF Pulse, EscPulse, ESC_MIN_US, ESC_MIN_RUNNING, ESC_MAX_US

\* What setMotor() sends and reports for a setpoint has the right types.
LEMMA OutputType ==
    ASSUME NEW target \in Setpoint
    PROVE  /\ [bottom |-> Pulse(target.bottom, MotorTrim.bottom),
               top    |-> Pulse(target.top, MotorTrim.top)] \in Pair(EscPulse)
           /\ [bottom |-> SetSpeed(target.bottom, MotorTrim.bottom),
               top    |-> SetSpeed(target.top, MotorTrim.top)] \in Pair(Throttle)
  <1>1. /\ target.bottom \in Throttle /\ target.top \in Throttle
        /\ MotorTrim.bottom \in Trim /\ MotorTrim.top \in Trim
    BY CoreAssumptions DEF Setpoint
  <1>2. QED
    BY <1>1, PulseType, TrimmedType DEF Pair, SetSpeed

\* The same for the zero throttle of requestState(SAFE).
LEMMA IdleType ==
    /\ [bottom |-> SetSpeed(0, MotorTrim.bottom),
        top    |-> SetSpeed(0, MotorTrim.top)] \in Pair(Throttle)
    /\ Both(0) \in Pair(Throttle)
    /\ Both(ESC_MIN_US) \in Pair(EscPulse)
  <1>1. MotorTrim.bottom \in Trim /\ MotorTrim.top \in Trim /\ 0 \in Throttle
    BY CoreAssumptions DEF Throttle
  <1>2. QED
    BY <1>1, TrimmedType DEF Pair, SetSpeed, Both, EscPulse

LEMMA StatesAreBytes == States \subseteq Byte
  BY DEF States, Byte, BOOT, RADIO_SETUP, SENSOR_SETUP, CONTROL_SETUP, SAFE,
         READY_ARMED, MAN_FLIGHT, AUTO_FLIGHT, FAULT_ERROR

LEMMA InitTypeOK == Init => TypeOK
  <1> SUFFICES ASSUME Init PROVE TypeOK
    OBVIOUS
  <1>1. activeTarget \in Setpoint /\ command \in Setpoint
    BY CoreAssumptions DEF Init, Setpoint, Throttle
  <1>2. esc \in Pair(EscPulse) /\ setSpeed \in Pair(Throttle)
    BY IdleType DEF Init
  <1>3. EmptyFrame \in Frame
    BY DEF EmptyFrame, Frame, States, Throttle
  <1>4. BOOT \in Byte
    BY StatesAreBytes DEF States
  <1>5. watchdog \in 0..Wrap - 1 /\ sinceSafe \in 0..Wrap - 1 /\ passMs \in 0..LoopMax
    BY CoreAssumptions DEF Init
  <1>6. lastRequested \in Byte
    BY <1>4, CoreAssumptions DEF Init
  <1>7. servo \in [topServo : 0..120, bottomServo : 0..120, pitch : 0..120, yaw : 0..120]
    BY DEF Init
  <1>8. QED
    BY <1>1, <1>2, <1>3, <1>4, <1>5, <1>6, <1>7
    DEF Init, TypeOK, Stages, LoopOps, TickOps

\* The end of a service and the next step of one keep loop()'s position typed.
LEMMA ReturnType ==
    ASSUME TypeOK, Return
    PROVE  op' \in LoopOps /\ stage' \in Stages /\ passMs' \in 0..LoopMax
  BY CoreAssumptions DEF TypeOK, Return, Stages, NextStage, LoopOps

LEMMA GotoType ==
    ASSUME TypeOK, NEW where \in LoopOps, Goto(where)
    PROVE  op' \in LoopOps /\ stage' \in Stages /\ passMs' \in 0..LoopMax
  BY DEF TypeOK, Goto

LEMMA PermittedType == MotorsPermitted \in BOOLEAN
  BY DEF MotorsPermitted

\* requestState() keeps the types of everything it touches.
LEMMA RequestStateType ==
    ASSUME TypeOK, NEW s, RequestState(s)
    PROVE  /\ currentState' \in {SAFE, READY_ARMED, MAN_FLIGHT}
           /\ masked' \in BOOLEAN /\ permit' \in BOOLEAN
           /\ op' \in LoopOps /\ stage' \in Stages /\ passMs' \in 0..LoopMax
  <1>1. "idleBottom" \in LoopOps /\ "zeroBottom" \in LoopOps
    BY DEF LoopOps
  <1>2. op' \in LoopOps /\ stage' \in Stages /\ passMs' \in 0..LoopMax
    BY <1>1, ReturnType, GotoType DEF RequestState
  <1>3. currentState' \in {SAFE, READY_ARMED, MAN_FLIGHT} /\ masked' \in BOOLEAN
    BY DEF RequestState, TypeOK
  <1>4. permit' \in BOOLEAN
    BY PermittedType DEF RequestState, TypeOK
  <1>5. QED
    BY <1>2, <1>3, <1>4

LEMMA TickTypeOK ==
    ASSUME TypeOK, Tick
    PROVE  TypeOK'
  <1>1. watchdog' \in 0..Wrap - 1 /\ sinceSafe' \in 0..Wrap - 1
    BY Advance DEF TypeOK, Tick
  <1>2. passMs' \in 0..LoopMax
    BY CoreAssumptions DEF TypeOK, Tick
  <1>3. QED
    BY <1>1, <1>2 DEF TypeOK, Tick, outputVars, localVars

LEMMA LoopTypeOK ==
    ASSUME TypeOK, LoopStep
    PROVE  TypeOK'
  <1> USE DEF stateVars, outputVars, loopVars, localVars, tickVars
  <1>0. /\ 0 \in Throttle /\ EmptyFrame \in Frame /\ BOOT \in Byte
        /\ Requests \subseteq Byte /\ Commands \subseteq Setpoint
    BY CoreAssumptions
    DEF Throttle, EmptyFrame, Frame, States, Byte, BOOT
  <1>1. CASE NoPacket
    BY <1>1, ReturnType DEF TypeOK, NoPacket
  <1>2. ASSUME NEW r \in Requests, Heartbeat(r) PROVE TypeOK'
    <2>1. r \in Byte /\ 0 \in 0..Wrap - 1
      BY <1>0, CoreAssumptions
    <2>2. op' \in LoopOps /\ stage' \in Stages /\ passMs' \in 0..LoopMax
      BY <1>2, GotoType DEF Heartbeat, LoopOps
    <2>3. QED
      BY <1>2, <2>1, <2>2 DEF TypeOK, Heartbeat
  <1>3. ASSUME NEW c \in Commands, Command(c) PROVE TypeOK'
    <2>1. op' \in LoopOps /\ stage' \in Stages /\ passMs' \in 0..LoopMax
      BY <1>3, GotoType DEF Command, LoopOps
    <2>2. QED
      BY <1>0, <1>3, <2>1 DEF TypeOK, Command
  <1>4. CASE Decide
    <2>1. /\ currentState' \in {SAFE, READY_ARMED, MAN_FLIGHT}
          /\ masked' \in BOOLEAN /\ permit' \in BOOLEAN
          /\ op' \in LoopOps /\ stage' \in Stages /\ passMs' \in 0..LoopMax
      BY <1>4, ReturnType, RequestStateType DEF Decide, TypeOK
    <2>2. lastRequested' \in Byte /\ request' \in Byte
      BY <1>0, <1>4 DEF Decide, TypeOK
    <2>3. tripped' \in BOOLEAN
      BY <1>4 DEF Decide, TypeOK
    <2>4. QED
      BY <1>4, <2>1, <2>2, <2>3 DEF Decide, TypeOK
  <1>5. CASE ServiceWatchdog
    <2>1. /\ currentState' \in {SAFE, READY_ARMED, MAN_FLIGHT}
          /\ masked' \in BOOLEAN /\ permit' \in BOOLEAN
          /\ op' \in LoopOps /\ stage' \in Stages /\ passMs' \in 0..LoopMax
      BY <1>5, ReturnType, RequestStateType DEF ServiceWatchdog, TypeOK
    <2>2. tripped' \in BOOLEAN
      BY <1>5 DEF ServiceWatchdog, TypeOK
    <2>3. QED
      BY <1>5, <2>1, <2>2 DEF ServiceWatchdog, TypeOK
  <1>6. CASE IdleBottom \/ IdleTop
    <2>1. esc' \in Pair(EscPulse)
      BY <1>6 DEF IdleBottom, IdleTop, TypeOK, Pair, EscPulse
    <2>2. op' \in LoopOps /\ stage' \in Stages /\ passMs' \in 0..LoopMax
      BY <1>6, GotoType DEF IdleBottom, IdleTop, LoopOps
    <2>3. QED
      BY <1>6, <2>1, <2>2 DEF TypeOK, IdleBottom, IdleTop
  <1>7. CASE IdleSpeeds
    <2>1. setSpeed' \in Pair(Throttle)
      BY <1>7, IdleType DEF IdleSpeeds
    <2>2. op' \in LoopOps /\ stage' \in Stages /\ passMs' \in 0..LoopMax
      BY <1>7, GotoType DEF IdleSpeeds, LoopOps
    <2>3. QED
      BY <1>7, <2>1, <2>2 DEF TypeOK, IdleSpeeds
  <1>8. CASE DateSafe
    <2>1. 0 \in 0..Wrap - 1
      BY CoreAssumptions
    <2>2. op' \in LoopOps /\ stage' \in Stages /\ passMs' \in 0..LoopMax
      BY <1>8, GotoType DEF DateSafe, LoopOps
    <2>3. QED
      BY <1>8, <2>1, <2>2 DEF TypeOK, DateSafe
  <1>9. CASE EnterSafe
    BY <1>9, ReturnType DEF TypeOK, EnterSafe
  <1>10. CASE EnterMan
    BY <1>10, ReturnType DEF TypeOK, EnterMan
  <1>11. CASE ZeroBottom \/ ZeroTop
    <2>1. activeTarget' \in Setpoint
      BY <1>0, <1>11 DEF ZeroBottom, ZeroTop, TypeOK, Setpoint
    <2>2. op' \in LoopOps /\ stage' \in Stages /\ passMs' \in 0..LoopMax
      BY <1>11, GotoType DEF ZeroBottom, ZeroTop, LoopOps
    <2>3. CASE ZeroBottom
      BY <2>3, <2>1, <2>2 DEF TypeOK, ZeroBottom
    <2>4. CASE ZeroTop
      BY <2>4, <2>1, <2>2 DEF TypeOK, ZeroTop
    <2>5. QED
      BY <1>11, <2>3, <2>4
  <1>12. CASE StoreGimbal \/ StoreBottom \/ StoreTop
    <2>1. activeTarget' \in Setpoint
      BY <1>12 DEF StoreGimbal, StoreBottom, StoreTop, TypeOK, Setpoint
    <2>2. op' \in LoopOps /\ stage' \in Stages /\ passMs' \in 0..LoopMax
      BY <1>12, GotoType, ReturnType DEF StoreGimbal, StoreBottom, StoreTop, LoopOps
    <2>3. CASE StoreGimbal
      BY <2>3, <2>1, <2>2 DEF TypeOK, StoreGimbal
    <2>4. CASE StoreBottom
      BY <2>4, <2>1, <2>2 DEF TypeOK, StoreBottom
    <2>5. CASE StoreTop
      BY <2>5, <2>1, <2>2 DEF TypeOK, StoreTop
    <2>6. QED
      BY <1>12, <2>3, <2>4, <2>5
  <1>13. CASE SkipReport \/ BeginReport
    <2>1. op' \in LoopOps /\ stage' \in Stages /\ passMs' \in 0..LoopMax
      BY <1>13, GotoType, ReturnType DEF SkipReport, BeginReport, LoopOps
    <2>2. CASE SkipReport
      BY <2>1, <2>2 DEF TypeOK, SkipReport
    <2>3. CASE BeginReport
      BY <2>1, <2>3 DEF TypeOK, BeginReport
    <2>4. QED
      BY <1>13, <2>2, <2>3
  <1>14. CASE CopyState \/ CopyMotors \/ SendReport
    <2>1. snapshot' \in Frame
      BY <1>0, <1>14 DEF CopyState, CopyMotors, SendReport, TypeOK, Frame
    <2>2. op' \in LoopOps /\ stage' \in Stages /\ passMs' \in 0..LoopMax
      BY <1>14, GotoType, ReturnType DEF CopyState, CopyMotors, SendReport, LoopOps
    <2>3. CASE CopyState
      BY <2>3, <2>1, <2>2 DEF TypeOK, CopyState
    <2>4. CASE CopyMotors
      BY <2>4, <2>1, <2>2 DEF TypeOK, CopyMotors
    <2>5. CASE SendReport
      BY <2>5, <2>1, <2>2 DEF TypeOK, SendReport
    <2>6. QED
      BY <1>14, <2>3, <2>4, <2>5
  <1>15. QED
    BY <1>1, <1>2, <1>3, <1>4, <1>5, <1>6, <1>7, <1>8, <1>9, <1>10, <1>11,
       <1>12, <1>13, <1>14 DEF LoopStep

LEMMA ControlTickTypeOK ==
    ASSUME TypeOK, TickStep
    PROVE  TypeOK'
  <1> USE DEF stateVars, outputVars, loopVars, localVars, tickVars
  <1>1. CASE BeginTick
    BY <1>1 DEF TypeOK, BeginTick, InTick, TickOps
  <1>2. CASE SetTopServo
    <2>1. TopAngle[activeTarget.gimbal] \in 0..120
      BY CoreAssumptions DEF TypeOK, Setpoint
    <2>2. QED
      BY <1>2, <2>1 DEF TypeOK, SetTopServo, InTick, TickOps
  <1>3. CASE SetBotServo
    <2>1. BottomAngle[activeTarget.gimbal] \in 0..120
      BY CoreAssumptions DEF TypeOK, Setpoint
    <2>2. QED
      BY <1>3, <2>1 DEF TypeOK, SetBotServo, InTick, TickOps
  <1>4. CASE GuardMotors
    <2>1. isrPermit' \in BOOLEAN
      BY <1>4, PermittedType DEF GuardMotors
    <2>2. QED
      BY <1>4, <2>1 DEF TypeOK, GuardMotors, InTick, TickOps
  <1>5. CASE DriveMotors
    <2>1. esc' \in Pair(EscPulse) /\ setSpeed' \in Pair(Throttle)
      BY <1>5, OutputType, IdleType DEF DriveMotors, TypeOK
    <2>2. QED
      BY <1>5, <2>1 DEF TypeOK, DriveMotors, InTick, TickOps
  <1>6. CASE RecordTelemetry
    <2>1. telemetry' \in Frame
      BY <1>6 DEF TypeOK, RecordTelemetry, Frame, Pair, States
    <2>2. QED
      BY <1>6, <2>1 DEF TypeOK, RecordTelemetry, InTick, TickOps
  <1>7. QED
    BY <1>1, <1>2, <1>3, <1>4, <1>5, <1>6 DEF TickStep

\* Every variable keeps its type for every timeout, dwell, loop bound, set of
\* requests, commands and trims: in particular no ESC is ever sent a pulse
\* outside the stop pulse and the running range, and no state other than SAFE,
\* READY_ARMED and MAN_FLIGHT is entered once startup is over.
THEOREM TypeCorrect == Spec => []TypeOK
  <1>1. TypeOK /\ [Next]_vars => TypeOK'
    <2> SUFFICES ASSUME TypeOK, [Next]_vars PROVE TypeOK'
      OBVIOUS
    <2>1. CASE Next
      BY <2>1, TickTypeOK, LoopTypeOK, ControlTickTypeOK DEF Next
    <2>2. CASE UNCHANGED vars
      BY <2>2 DEF TypeOK, vars, stateVars, outputVars, loopVars, localVars, tickVars
    <2>3. QED
      BY <2>1, <2>2
  <1>2. QED
    BY InitTypeOK, <1>1, PTL DEF Spec

-----------------------------------------------------------------------------
(* Where loop() is, and when it may be interrupted. *)

MaskedOps == {"storeGimbal", "storeBottom", "storeTop", "zeroBottom", "zeroTop",
              "copyState", "copyMotors"}
PacketOps == {"decide", "storeGimbal", "storeBottom", "storeTop",
              "zeroBottom", "zeroTop", "enterMan"}
DropOps   == {"idleBottom", "idleTop", "idleSpeeds", "dateSafe", "enterSafe"}
ReportOps == {"copyState", "copyMotors", "send"}

\* Every multi-store section is masked, no tick runs while interrupts are
\* masked, and each step belongs to the stages that reach it.
PlaceInv ==
    /\ op \in MaskedOps => masked
    /\ isr # "idle" => ~masked
    /\ op \in PacketOps => stage \in {"radio", "usb"}
    /\ op \in DropOps => stage # "report"
    /\ op \in ReportOps => stage = "report"

(* The setpoint. *)

Agrees ==
    /\ activeTarget.gimbal = command.gimbal
    /\ <<activeTarget.bottom, activeTarget.top>>
          \in {<<command.bottom, command.top>>, <<0, 0>>}

\* The setpoint is whole except between the stores that change it, and how far
\* those have come is known.
SetpointInv ==
    /\ op \notin {"storeGimbal", "storeBottom", "storeTop", "zeroTop"} => Agrees
    /\ op \in {"storeBottom", "storeTop", "zeroTop"} =>
           activeTarget.gimbal = command.gimbal
    /\ op = "storeTop" => activeTarget.bottom = command.bottom
    /\ op = "zeroTop" => activeTarget.bottom = 0

(* The telemetry frame. *)

Coherent(frame) == frame.state # MAN_FLIGHT => frame.bottom = 0 /\ frame.top = 0

\* Speeds are non-zero only where the guard saw MAN_FLIGHT, and the state
\* cannot change before the tick has recorded them; the masked copy sees one
\* recording.
FrameInv ==
    /\ Coherent(telemetry)
    /\ isr = "drive" => ~isrPermit \/ currentState = MAN_FLIGHT
    /\ isr = "record" /\ currentState # MAN_FLIGHT =>
           setSpeed.bottom = 0 /\ setSpeed.top = 0
    /\ op = "copyMotors" => snapshot.state = telemetry.state
    /\ op = "send" => Coherent(snapshot)

(* The deadline. *)

\* How old the last heartbeat can be while movement is allowed: the watchdog
\* was found fed at the last poll, at most one pass and the time spent in the
\* present one ago; a request being handled was fed in this very pass.
DeadlineInv ==
    /\ Armed(currentState) /\ stage = "report" =>
           watchdog < CommTimeout + passMs
    /\ Armed(currentState) /\ stage # "report" =>
           watchdog < CommTimeout + LoopMax + passMs
    /\ op \in {"decide", "zeroBottom", "zeroTop", "enterMan"} => watchdog <= passMs

LEMMA PlaceStep ==
    ASSUME TypeOK, PlaceInv, [Next]_vars
    PROVE  PlaceInv'
  <1> USE DEF stateVars, outputVars, loopVars, localVars, tickVars
  <1> USE DEF MaskedOps, PacketOps, DropOps, ReportOps
  <1>0. Links \subseteq {"radio", "usb"}
    BY CoreAssumptions
  <1>1. CASE Tick
    BY <1>1 DEF PlaceInv, Tick
  <1>2. ASSUME NEW r \in Requests, Heartbeat(r) PROVE PlaceInv'
    BY <1>2, <1>0 DEF PlaceInv, Heartbeat, At, Goto
  <1>3. ASSUME NEW c \in Commands, Command(c) PROVE PlaceInv'
    BY <1>3, <1>0 DEF PlaceInv, Command, At, Goto
  <1>4. CASE NoPacket
    BY <1>4 DEF PlaceInv, NoPacket, At, Return, NextStage
  <1>5. CASE Decide
    BY <1>5 DEF PlaceInv, Decide, At, Goto, Return, NextStage, RequestState
  <1>6. CASE ServiceWatchdog
    BY <1>6
    DEF PlaceInv, ServiceWatchdog, At, Goto, Return, NextStage, RequestState,
        SAFE, READY_ARMED, MAN_FLIGHT
  <1>7. CASE IdleBottom
    BY <1>7 DEF PlaceInv, IdleBottom, At, Goto
  <1>8. CASE IdleTop
    BY <1>8 DEF PlaceInv, IdleTop, At, Goto
  <1>9. CASE IdleSpeeds
    BY <1>9 DEF PlaceInv, IdleSpeeds, At, Goto
  <1>10. CASE DateSafe
    BY <1>10 DEF PlaceInv, DateSafe, At, Goto
  <1>11. CASE EnterSafe
    BY <1>11 DEF PlaceInv, EnterSafe, At, Return, NextStage
  <1>12. CASE ZeroBottom
    BY <1>12 DEF PlaceInv, ZeroBottom, At, Goto
  <1>13. CASE ZeroTop
    BY <1>13 DEF PlaceInv, ZeroTop, At, Goto
  <1>14. CASE EnterMan
    BY <1>14 DEF PlaceInv, EnterMan, At, Return, NextStage
  <1>15. CASE StoreGimbal
    BY <1>15 DEF PlaceInv, StoreGimbal, At, Goto
  <1>16. CASE StoreBottom
    BY <1>16 DEF PlaceInv, StoreBottom, At, Goto
  <1>17. CASE StoreTop
    BY <1>17 DEF PlaceInv, StoreTop, At, Return, NextStage
  <1>18. CASE SkipReport
    BY <1>18 DEF PlaceInv, SkipReport, At, Return, NextStage
  <1>19. CASE BeginReport
    BY <1>19 DEF PlaceInv, BeginReport, At, Goto
  <1>20. CASE CopyState
    BY <1>20 DEF PlaceInv, CopyState, At, Goto
  <1>21. CASE CopyMotors
    BY <1>21 DEF PlaceInv, CopyMotors, At, Goto
  <1>22. CASE SendReport
    BY <1>22 DEF PlaceInv, SendReport, At, Return, NextStage
  <1>23. CASE BeginTick
    BY <1>23 DEF PlaceInv, BeginTick, InTick
  <1>24. CASE SetTopServo
    BY <1>24 DEF PlaceInv, SetTopServo, InTick
  <1>25. CASE SetBotServo
    BY <1>25 DEF PlaceInv, SetBotServo, InTick
  <1>26. CASE GuardMotors
    BY <1>26 DEF PlaceInv, GuardMotors, InTick
  <1>27. CASE DriveMotors
    BY <1>27 DEF PlaceInv, DriveMotors, InTick
  <1>28. CASE RecordTelemetry
    BY <1>28 DEF PlaceInv, RecordTelemetry, InTick
  <1>29. CASE UNCHANGED vars
    BY <1>29 DEF PlaceInv, vars
  <1>30. QED
    BY <1>1, <1>2, <1>3, <1>4, <1>5, <1>6, <1>7, <1>8, <1>9, <1>10, <1>11,
       <1>12, <1>13, <1>14, <1>15, <1>16, <1>17, <1>18, <1>19, <1>20, <1>21, <1>22,
       <1>23, <1>24, <1>25, <1>26, <1>27, <1>28, <1>29
    DEF Next, LoopStep, TickStep

LEMMA SetpointStep ==
    ASSUME PlaceInv, SetpointInv, [Next]_vars
    PROVE  SetpointInv'
  <1> USE DEF stateVars, outputVars, loopVars, localVars, tickVars
  <1>1. CASE Tick
    BY <1>1 DEF SetpointInv, Agrees, Tick
  <1>2. ASSUME NEW r \in Requests, Heartbeat(r) PROVE SetpointInv'
    BY <1>2 DEF SetpointInv, Agrees, Heartbeat, At, Goto
  <1>3. ASSUME NEW c \in Commands, Command(c) PROVE SetpointInv'
    BY <1>3 DEF SetpointInv, Agrees, Command, At, Goto
  <1>4. CASE NoPacket
    BY <1>4 DEF SetpointInv, Agrees, NoPacket, At, Return
  <1>5. CASE Decide
    BY <1>5 DEF SetpointInv, Agrees, Decide, At, Goto, Return, RequestState
  <1>6. CASE ServiceWatchdog
    BY <1>6
    DEF SetpointInv, Agrees, ServiceWatchdog, At, Goto, Return, RequestState
  <1>7. CASE IdleBottom
    BY <1>7 DEF SetpointInv, Agrees, IdleBottom, At, Goto
  <1>8. CASE IdleTop
    BY <1>8 DEF SetpointInv, Agrees, IdleTop, At, Goto
  <1>9. CASE IdleSpeeds
    BY <1>9 DEF SetpointInv, Agrees, IdleSpeeds, At, Goto
  <1>10. CASE DateSafe
    BY <1>10 DEF SetpointInv, Agrees, DateSafe, At, Goto
  <1>11. CASE EnterSafe
    BY <1>11 DEF SetpointInv, Agrees, EnterSafe, At, Return
  <1>12. CASE ZeroBottom
    BY <1>12 DEF SetpointInv, Agrees, ZeroBottom, At, Goto
  <1>13. CASE ZeroTop
    BY <1>13 DEF SetpointInv, Agrees, ZeroTop, At, Goto
  <1>14. CASE EnterMan
    BY <1>14 DEF SetpointInv, Agrees, EnterMan, At, Return
  <1>15. CASE StoreGimbal
    BY <1>15 DEF SetpointInv, Agrees, StoreGimbal, At, Goto
  <1>16. CASE StoreBottom
    BY <1>16 DEF SetpointInv, Agrees, StoreBottom, At, Goto
  <1>17. CASE StoreTop
    BY <1>17 DEF SetpointInv, Agrees, StoreTop, At, Return
  <1>18. CASE SkipReport
    BY <1>18 DEF SetpointInv, Agrees, SkipReport, At, Return
  <1>19. CASE BeginReport
    BY <1>19 DEF SetpointInv, Agrees, BeginReport, At, Goto
  <1>20. CASE CopyState
    BY <1>20 DEF SetpointInv, Agrees, CopyState, At, Goto
  <1>21. CASE CopyMotors
    BY <1>21 DEF SetpointInv, Agrees, CopyMotors, At, Goto
  <1>22. CASE SendReport
    BY <1>22 DEF SetpointInv, Agrees, SendReport, At, Return
  <1>23. CASE BeginTick
    BY <1>23 DEF SetpointInv, Agrees, BeginTick, InTick
  <1>24. CASE SetTopServo
    BY <1>24 DEF SetpointInv, Agrees, SetTopServo, InTick
  <1>25. CASE SetBotServo
    BY <1>25 DEF SetpointInv, Agrees, SetBotServo, InTick
  <1>26. CASE GuardMotors
    BY <1>26 DEF SetpointInv, Agrees, GuardMotors, InTick
  <1>27. CASE DriveMotors
    BY <1>27 DEF SetpointInv, Agrees, DriveMotors, InTick
  <1>28. CASE RecordTelemetry
    BY <1>28 DEF SetpointInv, Agrees, RecordTelemetry, InTick
  <1>29. CASE UNCHANGED vars
    BY <1>29 DEF SetpointInv, Agrees, vars
  <1>30. QED
    BY <1>1, <1>2, <1>3, <1>4, <1>5, <1>6, <1>7, <1>8, <1>9, <1>10, <1>11,
       <1>12, <1>13, <1>14, <1>15, <1>16, <1>17, <1>18, <1>19, <1>20, <1>21, <1>22,
       <1>23, <1>24, <1>25, <1>26, <1>27, <1>28, <1>29
    DEF Next, LoopStep, TickStep

LEMMA FrameStep ==
    ASSUME TypeOK, PlaceInv, FrameInv, [Next]_vars
    PROVE  FrameInv'
  <1> USE DEF stateVars, outputVars, loopVars, localVars, tickVars
  <1>1. CASE Tick
    BY <1>1 DEF FrameInv, Coherent, Tick
  <1>2. ASSUME NEW r \in Requests, Heartbeat(r) PROVE FrameInv'
    BY <1>2 DEF FrameInv, Coherent, Heartbeat, At, Goto
  <1>3. ASSUME NEW c \in Commands, Command(c) PROVE FrameInv'
    BY <1>3 DEF FrameInv, Coherent, Command, At, Goto
  <1>4. CASE NoPacket
    BY <1>4 DEF FrameInv, Coherent, NoPacket, At, Return
  <1>5. CASE Decide
    BY <1>5 DEF FrameInv, Coherent, Decide, At, Goto, Return, RequestState
  <1>6. CASE ServiceWatchdog
    BY <1>6
    DEF FrameInv, Coherent, ServiceWatchdog, At, Goto, Return, RequestState
  <1>7. CASE IdleBottom
    BY <1>7 DEF FrameInv, Coherent, IdleBottom, At, Goto
  <1>8. CASE IdleTop
    BY <1>8 DEF FrameInv, Coherent, IdleTop, At, Goto
  <1>9. CASE IdleSpeeds
    BY <1>9 DEF FrameInv, Coherent, IdleSpeeds, At, Goto
  <1>10. CASE DateSafe
    BY <1>10 DEF FrameInv, Coherent, DateSafe, At, Goto
  <1>11. CASE EnterSafe
    BY <1>11 DEF FrameInv, Coherent, EnterSafe, At, Return
  <1>12. CASE ZeroBottom
    BY <1>12 DEF FrameInv, Coherent, ZeroBottom, At, Goto
  <1>13. CASE ZeroTop
    BY <1>13 DEF FrameInv, Coherent, ZeroTop, At, Goto
  <1>14. CASE EnterMan
    BY <1>14 DEF FrameInv, Coherent, EnterMan, At, Return
  <1>15. CASE StoreGimbal
    BY <1>15 DEF FrameInv, Coherent, StoreGimbal, At, Goto
  <1>16. CASE StoreBottom
    BY <1>16 DEF FrameInv, Coherent, StoreBottom, At, Goto
  <1>17. CASE StoreTop
    BY <1>17 DEF FrameInv, Coherent, StoreTop, At, Return
  <1>18. CASE SkipReport
    BY <1>18 DEF FrameInv, Coherent, SkipReport, At, Return
  <1>19. CASE BeginReport
    BY <1>19 DEF FrameInv, Coherent, BeginReport, At, Goto
  <1>20. CASE CopyState
    BY <1>20 DEF FrameInv, Coherent, CopyState, At, Goto, TypeOK, Frame
  <1>21. CASE CopyMotors
    BY <1>21 DEF FrameInv, Coherent, CopyMotors, At, Goto, TypeOK, Frame
  <1>22. CASE SendReport
    BY <1>22 DEF FrameInv, Coherent, SendReport, At, Return, EmptyFrame
  <1>23. CASE BeginTick
    BY <1>23 DEF FrameInv, Coherent, BeginTick, InTick
  <1>24. CASE SetTopServo
    BY <1>24 DEF FrameInv, Coherent, SetTopServo, InTick
  <1>25. CASE SetBotServo
    BY <1>25 DEF FrameInv, Coherent, SetBotServo, InTick
  <1>26. CASE GuardMotors
    BY <1>26 DEF FrameInv, Coherent, GuardMotors, InTick, MotorsPermitted
  <1>27. CASE DriveMotors
    BY <1>27 DEF FrameInv, Coherent, DriveMotors, InTick, Both
  <1>28. CASE RecordTelemetry
    BY <1>28
    DEF FrameInv, Coherent, RecordTelemetry, InTick, PlaceInv, MaskedOps
  <1>29. CASE UNCHANGED vars
    BY <1>29 DEF FrameInv, Coherent, vars
  <1>30. QED
    BY <1>1, <1>2, <1>3, <1>4, <1>5, <1>6, <1>7, <1>8, <1>9, <1>10, <1>11,
       <1>12, <1>13, <1>14, <1>15, <1>16, <1>17, <1>18, <1>19, <1>20, <1>21, <1>22,
       <1>23, <1>24, <1>25, <1>26, <1>27, <1>28, <1>29
    DEF Next, LoopStep, TickStep

LEMMA DeadlineStep ==
    ASSUME TypeOK, PlaceInv, DeadlineInv, [Next]_vars
    PROVE  DeadlineInv'
  <1> USE DEF stateVars, outputVars, loopVars, localVars, tickVars
  <1> USE CoreAssumptions DEF TypeOK
  <1>1. CASE Tick
    BY <1>1, Advance DEF DeadlineInv, Tick
  <1>2. ASSUME NEW r \in Requests, Heartbeat(r) PROVE DeadlineInv'
    BY <1>2 DEF DeadlineInv, Heartbeat, At, Goto
  <1>3. ASSUME NEW c \in Commands, Command(c) PROVE DeadlineInv'
    BY <1>3 DEF DeadlineInv, Command, At, Goto
  <1>4. CASE NoPacket
    BY <1>4 DEF DeadlineInv, NoPacket, At, Return, NextStage
  <1>5. CASE Decide
    <2>1. stage \in {"radio", "usb"} /\ watchdog <= passMs /\ watchdog' = watchdog
      BY <1>5 DEF Decide, At, PlaceInv, PacketOps, DeadlineInv
    <2>2. stage' # "report" /\ passMs' = passMs
      BY <1>5, <2>1 DEF Decide, RequestState, Return, Goto, NextStage
    <2>3. QED
      BY <2>1, <2>2 DEF DeadlineInv
  <1>6. CASE ServiceWatchdog
    <2>1. CASE ~Armed(currentState) \/ Fed
      BY <1>6, <2>1
      DEF ServiceWatchdog, At, Return, NextStage, Fed, DeadlineInv
    <2>2. CASE Armed(currentState) /\ ~Fed
      <3>1. Changes(currentState, SAFE)
        BY <2>2 DEF Changes, Armed, SAFE, READY_ARMED
      <3>2. currentState' = currentState /\ stage' = stage /\ passMs' = passMs
            /\ watchdog' = watchdog /\ op' = "idleBottom"
        BY <1>6, <2>2, <3>1
        DEF ServiceWatchdog, RequestState, Goto, SAFE, READY_ARMED, MAN_FLIGHT
      <3>3. QED
        BY <3>2 DEF DeadlineInv
    <2>3. QED
      BY <2>1, <2>2
  <1>7. CASE IdleBottom
    BY <1>7 DEF DeadlineInv, IdleBottom, At, Goto
  <1>8. CASE IdleTop
    BY <1>8 DEF DeadlineInv, IdleTop, At, Goto
  <1>9. CASE IdleSpeeds
    BY <1>9 DEF DeadlineInv, IdleSpeeds, At, Goto
  <1>10. CASE DateSafe
    BY <1>10 DEF DeadlineInv, DateSafe, At, Goto
  <1>11. CASE EnterSafe
    BY <1>11
    DEF DeadlineInv, EnterSafe, At, Return, NextStage, Armed, SAFE, READY_ARMED
  <1>12. CASE ZeroBottom
    BY <1>12 DEF DeadlineInv, ZeroBottom, At, Goto
  <1>13. CASE ZeroTop
    BY <1>13 DEF DeadlineInv, ZeroTop, At, Goto
  <1>14. CASE EnterMan
    BY <1>14
    DEF DeadlineInv, EnterMan, At, Return, NextStage, PlaceInv, PacketOps,
        Stages
  <1>15. CASE StoreGimbal
    BY <1>15 DEF DeadlineInv, StoreGimbal, At, Goto
  <1>16. CASE StoreBottom
    BY <1>16 DEF DeadlineInv, StoreBottom, At, Goto
  <1>17. CASE StoreTop
    BY <1>17
    DEF DeadlineInv, StoreTop, At, Return, NextStage, PlaceInv, PacketOps,
        Stages
  <1>18. CASE SkipReport
    BY <1>18 DEF DeadlineInv, SkipReport, At, Return, NextStage
  <1>19. CASE BeginReport
    BY <1>19 DEF DeadlineInv, BeginReport, At, Goto
  <1>20. CASE CopyState
    BY <1>20 DEF DeadlineInv, CopyState, At, Goto
  <1>21. CASE CopyMotors
    BY <1>21 DEF DeadlineInv, CopyMotors, At, Goto
  <1>22. CASE SendReport
    BY <1>22
    DEF DeadlineInv, SendReport, At, Return, NextStage, PlaceInv, ReportOps
  <1>23. CASE BeginTick
    BY <1>23 DEF DeadlineInv, BeginTick, InTick
  <1>24. CASE SetTopServo
    BY <1>24 DEF DeadlineInv, SetTopServo, InTick
  <1>25. CASE SetBotServo
    BY <1>25 DEF DeadlineInv, SetBotServo, InTick
  <1>26. CASE GuardMotors
    BY <1>26 DEF DeadlineInv, GuardMotors, InTick
  <1>27. CASE DriveMotors
    BY <1>27 DEF DeadlineInv, DriveMotors, InTick
  <1>28. CASE RecordTelemetry
    BY <1>28 DEF DeadlineInv, RecordTelemetry, InTick
  <1>29. CASE UNCHANGED vars
    BY <1>29 DEF DeadlineInv, vars
  <1>30. QED
    BY <1>1, <1>2, <1>3, <1>4, <1>5, <1>6, <1>7, <1>8, <1>9, <1>10, <1>11,
       <1>12, <1>13, <1>14, <1>15, <1>16, <1>17, <1>18, <1>19, <1>20, <1>21, <1>22,
       <1>23, <1>24, <1>25, <1>26, <1>27, <1>28, <1>29
    DEF Next, LoopStep, TickStep

-----------------------------------------------------------------------------
(* The theorems. *)

LEMMA PlaceInvariant == Spec => []PlaceInv
  <1>1. Init => PlaceInv
    BY DEF Init, PlaceInv, MaskedOps, PacketOps, DropOps, ReportOps
  <1>2. QED
    BY <1>1, PlaceStep, TypeCorrect, PTL DEF Spec

\* For any set of commands, a control tick flies the last command whole, or
\* with both throttles zeroed by the entry into MAN_FLIGHT (drone.cpp:310, 668).
THEOREM SetpointWhole == Spec => []NoTornSetpoint
  <1>1. Init => SetpointInv
    BY DEF Init, SetpointInv, Agrees
  <1>2. PlaceInv /\ SetpointInv => NoTornSetpoint
    BY DEF PlaceInv, MaskedOps, SetpointInv, Agrees, NoTornSetpoint
  <1>3. QED
    BY <1>1, <1>2, SetpointStep, PlaceInvariant, PTL DEF Spec

\* For any trims and commands, a telemetry frame that does not report
\* MAN_FLIGHT reports stopped motors (getTelemetry(), drone.cpp:123).
THEOREM FramesCoherent == Spec => []FrameCoherent
  <1>1. Init => FrameInv
    BY DEF Init, FrameInv, Coherent, EmptyFrame
  <1>2. FrameInv => FrameCoherent
    BY DEF FrameInv, Coherent, FrameCoherent
  <1>3. QED
    BY <1>1, <1>2, FrameStep, PlaceInvariant, TypeCorrect, PTL DEF Spec

\* For any timeout, loop bound and modulus that leave room for it, a state
\* that allows movement is left before the last heartbeat is a timeout and two
\* passes of loop() old (serviceWatchdog(), drone.cpp:565).
THEOREM TripInTime == Spec => []TripDeadline
  <1>1. Init => DeadlineInv
    BY DEF Init, DeadlineInv, Armed, SAFE, READY_ARMED
  <1>2. TypeOK /\ DeadlineInv => TripDeadline
    BY CoreAssumptions DEF TypeOK, DeadlineInv, TripDeadline
  <1>3. QED
    BY <1>1, <1>2, DeadlineStep, PlaceInvariant, TypeCorrect, PTL DEF Spec
=============================================================================
