------------------------- MODULE FlightMonitorProofs -------------------------
(***************************************************************************)
(* Proofs about FlightMonitor and FlightRefinement for every value of the  *)
(* constants: what the observer sees of the guards, the throttles, the     *)
(* dwell and the edge rule, and that the vehicle implements LinkFailsafe.  *)
(***************************************************************************)
EXTENDS FlightMonitor, FlightRefinement, FlightCoreProofs

\* The steps of loop() by what the properties below can tell of them: none of
\* these moves the vehicle's state or the requests.
QuietStep ==
    \/ NoPacket \/ IdleBottom \/ IdleTop \/ IdleSpeeds
    \/ \E target \in Commands : Command(target)
    \/ ZeroBottom \/ ZeroTop \/ StoreGimbal \/ StoreBottom \/ StoreTop
    \/ SkipReport \/ BeginReport \/ CopyState \/ CopyMotors \/ SendReport

\* The observer constrains nothing: what holds of FlightCore holds under it.
LEMMA MonitorImplementsCore == MonitorSpec => Spec
  <1>1. MonitorInit => Init
    BY DEF MonitorInit
  <1>2. [MonitorNext]_monitorVars => [Next]_vars
    BY DEF MonitorNext, monitorVars
  <1>3. QED
    BY <1>1, <1>2, PTL DEF MonitorSpec, Spec

\* What the history variables may hold, beside FlightCore's types.
MonitorTypeOK ==
    /\ TypeOK
    /\ stoppedMs \in 0..3
    /\ ownThrottle \in BOOLEAN
    /\ level \in [Links -> Byte]
    /\ steady \in BOOLEAN
    /\ safeMs \in 0..Dwell
    /\ bootSafe \in BOOLEAN

-----------------------------------------------------------------------------
(* The actuator guards. *)

\* Milliseconds begun since the control tick could last have taken its guard.
OneIf(condition) == IF condition THEN 1 ELSE 0

\* While output is permitted the count is zero.  A tick that saw it permitted
\* drives in the same millisecond or, once the next is due, in the one after;
\* what it drove lasts until the next tick has taken its guard.  No third
\* boundary can pass in between, since the timer fires again only after the
\* tick of its last firing has begun.
GuardInv ==
    /\ MotorsPermitted => stoppedMs = 0
    /\ isr = "drive" /\ isrPermit => stoppedMs <= OneIf(due)
    /\ esc # Both(ESC_MIN_US) =>
           stoppedMs <= OneIf(due) + OneIf(isr \in {"pitch", "yaw", "guard", "drive"})

(* The throttles. *)

\* Both are zero when MAN_FLIGHT is about to be entered, and stay so until the
\* first COMMAND; while that one is being stored, the first store may be done.
ThrottleInv ==
    /\ op \in {"zeroTop", "enterMan"} => activeTarget.bottom = 0
    /\ op = "enterMan" => activeTarget.top = 0
    /\ currentState = MAN_FLIGHT /\ ~ownThrottle =>
           /\ activeTarget.top = 0
           /\ op # "storeTop" => activeTarget.bottom = 0

(* The dwell. *)

\* The counter behind the dwell is never ahead of the time spent in SAFE; once
\* the vehicle is on its way out, the time is served.
DwellInv ==
    /\ Settled /\ ~bootSafe => sinceSafe <= safeMs \/ safeMs >= Dwell
    /\ (~Settled \/ EnteringMan) /\ ~bootSafe => safeMs >= Dwell

(* The edge rule. *)

\* With one link, a vehicle out of SAFE has accepted what that link requested
\* last; from a trip on, while the link goes on requesting the same, it stays
\* accepted, so that it is never an edge.
EdgeInv(link) ==
    /\ op = "decide" => request = level[link]
    /\ op # "decide" /\ (currentState # SAFE \/ EnteringMan) =>
           level[link] = lastRequested
    /\ steady => level[link] = lastRequested
    /\ steady => currentState = SAFE \/ DroppingToSafe
    /\ steady => ~EnteringMan

-----------------------------------------------------------------------------
(* What kinds of steps leave alone. *)

\* A step of loop() is taken between control ticks, passes no millisecond and
\* never drives a stopped ESC.
LEMMA LoopFrame ==
    ASSUME TypeOK, LoopStep
    PROVE  /\ isr = "idle"
           /\ UNCHANGED tickVars
           /\ passMs' \in {passMs, 0}
           /\ esc = Both(ESC_MIN_US) => esc' = Both(ESC_MIN_US)
  <1> USE DEF stateVars, outputVars, loopVars, localVars, At, Goto, Return
  <1>1. CASE QuietStep
    <2>1. esc = Both(ESC_MIN_US) => esc' = Both(ESC_MIN_US)
      BY <1>1
      DEF QuietStep, Both, NoPacket, IdleBottom, IdleTop, IdleSpeeds, Command,
          ZeroBottom, ZeroTop, StoreGimbal, StoreBottom, StoreTop, SkipReport,
          BeginReport, CopyState, CopyMotors, SendReport
    <2>2. isr = "idle" /\ UNCHANGED tickVars /\ passMs' \in {passMs, 0}
      BY <1>1
      DEF QuietStep, NoPacket, IdleBottom, IdleTop, IdleSpeeds, Command,
          ZeroBottom, ZeroTop, StoreGimbal, StoreBottom, StoreTop, SkipReport,
          BeginReport, CopyState, CopyMotors, SendReport
    <2>3. QED
      BY <2>1, <2>2
  <1>2. ASSUME NEW r \in Requests, Heartbeat(r)
        PROVE  isr = "idle" /\ UNCHANGED <<tickVars, passMs, esc>>
    BY <1>2 DEF Heartbeat
  <1>3. CASE Decide
    BY <1>3 DEF Decide, RequestState
  <1>4. CASE ServiceWatchdog
    BY <1>4 DEF ServiceWatchdog, RequestState
  <1>5. CASE DateSafe \/ EnterSafe \/ EnterMan
    BY <1>5 DEF DateSafe, EnterSafe, EnterMan
  <1>6. QED
    BY <1>1, <1>2, <1>3, <1>4, <1>5 DEF LoopStep, QuietStep

\* A step of the control tick touches no more than its own outputs.
LEMMA TickFrame ==
    ASSUME TickStep
    PROVE  UNCHANGED <<stateVars, loopVars, localVars, activeTarget, masked>>
  BY DEF TickStep, BeginTick, SetTopServo, SetBotServo, GuardMotors, DriveMotors,
         RecordTelemetry, outputVars

\* A quiet step changes neither the vehicle's state nor what has been asked of
\* it, and does not begin or end a change of it.
LEMMA QuietFrame ==
    ASSUME QuietStep
    PROVE  /\ UNCHANGED <<currentState, sinceSafe, lastRequested, request>>
           /\ op # "decide" /\ op' # "decide"
           /\ op # "enterSafe" /\ op' # "enterSafe"
           /\ DroppingToSafe' <=> DroppingToSafe
           /\ EnteringMan' <=> EnteringMan
  BY DEF QuietStep, NoPacket, IdleBottom, IdleTop, IdleSpeeds, Command,
         ZeroBottom, ZeroTop, StoreGimbal, StoreBottom, StoreTop, SkipReport,
         BeginReport, CopyState, CopyMotors, SendReport, stateVars, localVars,
         At, Goto, Return, DroppingToSafe, EnteringMan

-----------------------------------------------------------------------------
(* The invariants are kept. *)

LEMMA MonitorTypeStep ==
    ASSUME TypeOK, MonitorTypeOK, Next, Observe
    PROVE  /\ stoppedMs' \in 0..3 /\ ownThrottle' \in BOOLEAN
           /\ level' \in [Links -> Byte] /\ steady' \in BOOLEAN
           /\ safeMs' \in 0..Dwell /\ bootSafe' \in BOOLEAN
  <1>0. request' \in Byte
    <2>1. TypeOK'
      BY TickTypeOK, LoopTypeOK, ControlTickTypeOK DEF Next
    <2>2. QED
      BY <2>1 DEF TypeOK
  <1>1. stoppedMs' \in 0..3
    BY DEF MonitorTypeOK, Observe, UpTo
  <1>2. level' \in [Links -> Byte]
    BY <1>0 DEF MonitorTypeOK, Observe
  <1>3. safeMs' \in 0..Dwell
    BY CoreAssumptions DEF MonitorTypeOK, Observe, UpTo
  <1>4. ownThrottle' \in BOOLEAN /\ steady' \in BOOLEAN /\ bootSafe' \in BOOLEAN
    BY DEF MonitorTypeOK, Observe
  <1>5. QED
    BY <1>1, <1>2, <1>3, <1>4

LEMMA GuardStep ==
    ASSUME TypeOK, MonitorTypeOK, GuardInv, [MonitorNext]_monitorVars
    PROVE  GuardInv'
  <1> USE DEF OneIf, UpTo
  <1>0. MonitorNext => stoppedMs' \in 0..3 /\ (MotorsPermitted' => stoppedMs' = 0)
    BY MonitorTypeStep DEF MonitorNext, Observe
  <1>1. CASE Tick /\ Observe
    <2>1. /\ ~due /\ due' /\ UNCHANGED <<isr, isrPermit, esc>>
          /\ stoppedMs' <= stoppedMs + 1
      BY <1>1 DEF Tick, outputVars, Observe, MonitorTypeOK
    <2>2. QED
      BY <1>0, <1>1, <2>1 DEF GuardInv, MonitorTypeOK, MonitorNext, Next
  <1>2. CASE LoopStep /\ Observe
    <2>1. /\ isr = "idle" /\ UNCHANGED <<isr, isrPermit, due>>
          /\ esc' # Both(ESC_MIN_US) => esc # Both(ESC_MIN_US)
          /\ passMs' # passMs + 1
      BY <1>2, LoopFrame DEF tickVars, TypeOK
    <2>2. stoppedMs' <= stoppedMs
      BY <1>2, <2>1 DEF Observe, MsPasses, MonitorTypeOK
    <2>3. QED
      BY <1>0, <1>2, <2>1, <2>2 DEF GuardInv, MonitorTypeOK, MonitorNext, Next
  <1>3. CASE TickStep /\ Observe
    <2>1. passMs' # passMs + 1 /\ (MotorsPermitted' <=> MotorsPermitted)
      BY <1>3, TickFrame DEF loopVars, stateVars, TypeOK, MotorsPermitted, Fed
    <2>2. stoppedMs' <= stoppedMs
      BY <1>3, <2>1 DEF Observe, MsPasses, MonitorTypeOK
    <2>3. CASE BeginTick
      BY <1>0, <1>3, <2>2, <2>3
      DEF GuardInv, BeginTick, InTick, outputVars, MonitorTypeOK, MonitorNext, Next
    <2>4. CASE SetTopServo \/ SetBotServo
      BY <1>0, <1>3, <2>2, <2>4
      DEF GuardInv, SetTopServo, SetBotServo, InTick, MonitorTypeOK, MonitorNext, Next
    <2>5. CASE GuardMotors
      BY <1>0, <1>3, <2>1, <2>2, <2>5
      DEF GuardInv, GuardMotors, InTick, outputVars, MonitorTypeOK, MonitorNext, Next
    <2>6. CASE DriveMotors
      BY <1>0, <1>3, <2>2, <2>6
      DEF GuardInv, DriveMotors, InTick, MonitorTypeOK, MonitorNext, Next
    <2>7. CASE RecordTelemetry
      BY <1>0, <1>3, <2>2, <2>7
      DEF GuardInv, RecordTelemetry, InTick, MonitorTypeOK, MonitorNext, Next
    <2>8. QED
      BY <1>3, <2>3, <2>4, <2>5, <2>6, <2>7 DEF TickStep
  <1>4. CASE UNCHANGED monitorVars
    BY <1>4
    DEF GuardInv, monitorVars, vars, stateVars, outputVars, tickVars, historyVars,
        MotorsPermitted, Fed
  <1>5. QED
    BY <1>1, <1>2, <1>3, <1>4 DEF MonitorNext, Next

LEMMA ThrottleStep ==
    ASSUME TypeOK, MonitorTypeOK, PlaceInv, SetpointInv, ThrottleInv,
           [MonitorNext]_monitorVars
    PROVE  ThrottleInv'
  <1> USE DEF ThrottleInv
  <1>1. CASE Observe /\ (Tick \/ TickStep)
    <2>1. UNCHANGED <<op, activeTarget, currentState>>
      BY <1>1, TickFrame DEF Tick, outputVars, loopVars, stateVars
    <2>2. QED
      BY <1>1, <2>1 DEF Observe, EntersMan
  <1>2. CASE Observe /\ QuietStep
    <2>1. UNCHANGED currentState
      BY <1>2, QuietFrame
    <2>2. ownThrottle' <=> ownThrottle \/ op = "storeTop"
      BY <1>2, <2>1 DEF Observe, EntersMan
    <2>3. CASE ZeroBottom \/ ZeroTop \/ StoreGimbal \/ StoreBottom \/ StoreTop
      BY <2>1, <2>2, <2>3
      DEF ZeroBottom, ZeroTop, StoreGimbal, StoreBottom, StoreTop, At, Goto, Return,
          TypeOK, Setpoint
    <2>4. CASE ~(ZeroBottom \/ ZeroTop \/ StoreGimbal \/ StoreBottom \/ StoreTop)
      <3>1. UNCHANGED activeTarget /\ op # "storeTop"
            /\ op' \notin {"zeroTop", "enterMan", "storeTop"}
        BY <1>2, <2>4
        DEF QuietStep, NoPacket, IdleBottom, IdleTop, IdleSpeeds, Command,
            SkipReport, BeginReport, CopyState, CopyMotors, SendReport,
            outputVars, At, Goto, Return
      <3>2. QED
        BY <2>1, <2>2, <3>1
    <2>5. QED
      BY <2>3, <2>4
  <1>3. CASE Observe /\ EnterMan
    BY <1>3
    DEF Observe, EntersMan, EnterMan, At, Return, outputVars
  <1>4. ASSUME Observe, NEW r \in Requests, Heartbeat(r) PROVE ThrottleInv'
    BY <1>4 DEF Heartbeat, At, Goto, outputVars, Observe, EntersMan
  <1>5. CASE Observe /\ (Decide \/ ServiceWatchdog \/ DateSafe \/ EnterSafe)
    <2>1. /\ UNCHANGED activeTarget
          /\ op \notin {"storeTop", "zeroTop", "enterMan"}
          /\ op' \notin {"storeTop", "zeroTop", "enterMan"}
          /\ currentState' = MAN_FLIGHT => currentState = MAN_FLIGHT
      BY <1>5
      DEF Decide, ServiceWatchdog, DateSafe, EnterSafe, RequestState, outputVars, At, Goto,
          Return, SAFE, READY_ARMED, MAN_FLIGHT
    <2>2. QED
      BY <1>5, <2>1 DEF Observe, EntersMan
  <1>6. CASE UNCHANGED monitorVars
    BY <1>6 DEF monitorVars, vars, stateVars, outputVars, loopVars, historyVars
  <1>7. QED
    BY <1>1, <1>2, <1>3, <1>4, <1>5, <1>6 DEF MonitorNext, Next, LoopStep, QuietStep

LEMMA DwellStep ==
    ASSUME TypeOK, MonitorTypeOK, DwellInv, [MonitorNext]_monitorVars
    PROVE  DwellInv'
  <1> USE CoreAssumptions DEF DwellInv, UpTo
  <1>0. MonitorNext => safeMs' \in 0..Dwell
    BY MonitorTypeStep DEF MonitorNext
  <1>1. CASE Observe /\ Tick
    <2>1. UNCHANGED <<currentState, op>> /\ sinceSafe' <= sinceSafe + 1
          /\ sinceSafe' \in 0..Wrap - 1 /\ passMs' = passMs + 1
      BY <1>1, Advance DEF Tick, TypeOK
    <2>2. QED
      BY <1>0, <1>1, <2>1
      DEF Observe, MonitorTypeOK, TypeOK, Settles, Settled, MsPasses, EnteringMan,
          MonitorNext, Next
  <1>2. CASE Observe /\ (TickStep \/ QuietStep)
    <2>1. UNCHANGED <<Settled, sinceSafe>> /\ (EnteringMan' <=> EnteringMan)
      BY <1>2, TickFrame, QuietFrame DEF stateVars, loopVars, EnteringMan, Settled
    <2>2. passMs' # passMs + 1
      BY <1>2, TickFrame, LoopFrame DEF loopVars, TypeOK, LoopStep, QuietStep
    <2>3. QED
      BY <1>2, <2>1, <2>2 DEF Observe, Settles, MsPasses
  <1>3. CASE Observe /\ LoopStep /\ ~QuietStep
    <2>0. passMs' # passMs + 1
      BY <1>3, LoopFrame DEF TypeOK
    <2>1. CASE DateSafe
      <3>1. sinceSafe' = 0 /\ Settled' /\ ~EnteringMan' /\ safeMs' \in Nat
        BY <1>0, <1>3, <2>1
        DEF DateSafe, At, Goto, Settled, EnteringMan, MonitorNext, Next
      <3>2. QED
        BY <3>1
    <2>2. CASE EnterSafe
      <3>1. Settled /\ Settled' /\ UNCHANGED sinceSafe /\ ~EnteringMan'
        BY <2>2 DEF EnterSafe, At, Return, Settled, EnteringMan
      <3>2. QED
        BY <1>3, <2>0, <3>1 DEF Observe, Settles, MsPasses
    <2>3. CASE EnterMan
      <3>1. EnteringMan /\ ~Settled' /\ ~EnteringMan'
        BY <2>3
        DEF EnterMan, At, Return, Settled, EnteringMan, SAFE, MAN_FLIGHT
      <3>2. QED
        BY <1>3, <2>0, <3>1 DEF Observe, Settles, MsPasses
    <2>4. ASSUME NEW r \in Requests, Heartbeat(r) PROVE DwellInv'
      <3>1. UNCHANGED <<Settled, sinceSafe>> /\ ~EnteringMan /\ ~EnteringMan'
        BY <2>4 DEF Heartbeat, At, Goto, Settled, EnteringMan
      <3>2. QED
        BY <1>3, <2>0, <3>1 DEF Observe, Settles, MsPasses
    <2>5. CASE ServiceWatchdog
      <3>1. UNCHANGED <<Settled, sinceSafe>> /\ ~EnteringMan /\ ~EnteringMan'
        BY <2>5
        DEF ServiceWatchdog, RequestState, At, Goto, Return, EnteringMan, Settled,
            SAFE, READY_ARMED, MAN_FLIGHT
      <3>2. QED
        BY <1>3, <2>0, <3>1 DEF Observe, Settles, MsPasses
    <2>6. CASE Decide
      <3>1. /\ UNCHANGED sinceSafe /\ ~EnteringMan
            /\ currentState' \in {currentState, READY_ARMED}
            /\ op = "decide" /\ op' # "enterSafe"
        BY <2>6
        DEF Decide, RequestState, At, Goto, Return, EnteringMan
      <3>2. UNCHANGED safeMs /\ UNCHANGED bootSafe
        BY <1>3, <2>0, <3>1
        DEF Observe, Settles, Settled, MsPasses, SAFE, READY_ARMED, MonitorTypeOK
      <3>3. CASE currentState' = currentState /\ ~EnteringMan'
        BY <3>1, <3>2, <3>3 DEF Settled
      <3>4. CASE currentState' # currentState \/ EnteringMan'
        <4>1. /\ ~Refused /\ Changes(currentState, request)
              /\ request \in {READY_ARMED, MAN_FLIGHT}
          BY <2>6, <3>4
          DEF Decide, RequestState, Return, Goto, EnteringMan, SAFE, READY_ARMED,
              MAN_FLIGHT
        <4>2. currentState = SAFE => sinceSafe >= Dwell
          BY <4>1
          DEF Refused, TooEarly, Escalates, SAFE, READY_ARMED, MAN_FLIGHT, TypeOK
        <4>3. ~bootSafe => safeMs >= Dwell
          BY <3>1, <4>2 DEF TypeOK, MonitorTypeOK, Settled
        <4>4. Settled' => Settled
          BY <3>1 DEF Settled, SAFE, READY_ARMED
        <4>5. QED
          BY <3>1, <3>2, <4>3, <4>4
      <3>5. QED
        BY <3>3, <3>4
    <2>7. QED
      BY <1>3, <2>1, <2>2, <2>3, <2>4, <2>5, <2>6 DEF LoopStep, QuietStep
  <1>4. CASE UNCHANGED monitorVars
    BY <1>4
    DEF monitorVars, vars, stateVars, loopVars, historyVars, EnteringMan, Settled
  <1>5. QED
    BY <1>1, <1>2, <1>3, <1>4 DEF MonitorNext, Next

LEMMA EdgeStep ==
    ASSUME NEW link, Links = {link},
           TypeOK, MonitorTypeOK, EdgeInv(link), [MonitorNext]_monitorVars
    PROVE  EdgeInv(link)'
  <1> USE DEF EdgeInv
  <1>1. CASE Observe /\ (Tick \/ TickStep)
    <2>1. UNCHANGED <<currentState, lastRequested, request, op>>
      BY <1>1, TickFrame DEF Tick, stateVars, loopVars, localVars
    <2>2. QED
      BY <1>1, <2>1
      DEF Observe, Arrives, Trips, EnteringMan, DroppingToSafe, MonitorTypeOK
  <1>2. CASE Observe /\ QuietStep
    <2>1. ~Trips /\ ~Arrives
      BY <1>2, QuietFrame
      DEF Trips, Arrives, QuietStep, NoPacket, IdleBottom, IdleTop, IdleSpeeds,
          Command, ZeroBottom, ZeroTop, StoreGimbal, StoreBottom, StoreTop,
          SkipReport, BeginReport, CopyState, CopyMotors, SendReport, At, Goto,
          Return
    <2>2. QED
      BY <1>2, <2>1, QuietFrame DEF Observe, MonitorTypeOK
  <1>3. CASE Observe /\ (DateSafe \/ EnterSafe \/ EnterMan)
    BY <1>3
    DEF DateSafe, EnterSafe, EnterMan, Goto, At, Return, Observe, Trips, Arrives,
        EnteringMan,
        DroppingToSafe, SAFE, MAN_FLIGHT, MonitorTypeOK
  <1>4. ASSUME Observe, NEW r \in Requests, Heartbeat(r) PROVE EdgeInv(link)'
    <2>1. stage = link /\ op = "poll" /\ op' = "decide" /\ request' = r
          /\ UNCHANGED <<currentState, lastRequested>>
      BY <1>4 DEF Heartbeat, At, Goto
    <2>2. ~EnteringMan /\ ~EnteringMan' /\ ~DroppingToSafe
      BY <2>1 DEF EnteringMan, DroppingToSafe
    <2>3. level' = [level EXCEPT ![link] = r] /\ level'[link] = r
          /\ (steady' <=> steady /\ level[link] = r)
      BY <1>4, <2>1 DEF Observe, Arrives, Trips, MonitorTypeOK
    <2>4. QED
      BY <2>1, <2>2, <2>3
  <1>5. CASE Observe /\ ServiceWatchdog
    <2>1. /\ UNCHANGED <<currentState, lastRequested>> /\ op = "poll"
          /\ op' \in {"poll", "idleBottom"}
          /\ op' = "idleBottom" => stage = "watchdog" /\ currentState # SAFE
      BY <1>5
      DEF ServiceWatchdog, RequestState, At, Goto, Return, Changes, SAFE,
          READY_ARMED, MAN_FLIGHT
    <2>2. UNCHANGED level
      BY <1>5, <2>1 DEF Observe, Arrives
    <2>3. CASE op' = "idleBottom"
      BY <2>1, <2>2, <2>3 DEF EnteringMan, DroppingToSafe
    <2>4. CASE op' = "poll"
      BY <1>5, <2>1, <2>2, <2>4
      DEF Observe, Trips, Arrives, EnteringMan, DroppingToSafe, MonitorTypeOK
    <2>5. QED
      BY <2>1, <2>3, <2>4
  <1>6. CASE Observe /\ Decide
    <2>1. UNCHANGED <<level, steady>> /\ op = "decide" /\ op' # "decide"
      BY <1>6
      DEF Decide, RequestState, At, Goto, Return, Observe, Trips, Arrives,
          MonitorTypeOK
    <2>2. CASE Refused
      <3>1. UNCHANGED <<currentState, lastRequested>> /\ op' = "poll"
        BY <1>6, <2>2 DEF Decide, Return
      <3>2. currentState # SAFE => request = lastRequested
        BY <2>2
        DEF Refused, TooEarly, Escalates, TypeOK, SAFE, READY_ARMED, MAN_FLIGHT
      <3>3. QED
        BY <2>1, <3>1, <3>2 DEF EnteringMan, DroppingToSafe
    <2>3. CASE ~Refused
      <3>1. lastRequested' = request /\ ~steady
        BY <1>6, <2>1, <2>3 DEF Decide, Refused
      <3>2. QED
        BY <2>1, <3>1
    <2>4. QED
      BY <2>2, <2>3
  <1>7. CASE UNCHANGED monitorVars
    BY <1>7
    DEF monitorVars, vars, stateVars, loopVars, localVars, historyVars, EnteringMan,
        DroppingToSafe
  <1>8. QED
    BY <1>1, <1>2, <1>3, <1>4, <1>5, <1>6, <1>7
    DEF MonitorNext, Next, LoopStep, QuietStep

-----------------------------------------------------------------------------
(* The theorems about the observer. *)

LEMMA MonitorTypeCorrect == MonitorSpec => []MonitorTypeOK
  <1>1. MonitorInit => MonitorTypeOK
    <2> SUFFICES ASSUME MonitorInit PROVE MonitorTypeOK
      OBVIOUS
    <2>1. level \in [Links -> Byte] /\ safeMs \in 0..Dwell /\ stoppedMs \in 0..3
      BY CoreAssumptions DEF MonitorInit, Byte, BOOT
    <2>2. QED
      BY <2>1, InitTypeOK DEF MonitorInit, MonitorTypeOK
  <1>2. MonitorTypeOK /\ TypeOK' /\ [MonitorNext]_monitorVars => MonitorTypeOK'
    <2> SUFFICES ASSUME MonitorTypeOK, TypeOK', [MonitorNext]_monitorVars
                 PROVE  MonitorTypeOK'
      OBVIOUS
    <2>1. CASE MonitorNext
      BY <2>1, MonitorTypeStep DEF MonitorNext, MonitorTypeOK
    <2>2. CASE UNCHANGED monitorVars
      BY <2>2 DEF MonitorTypeOK, monitorVars, historyVars
    <2>3. QED
      BY <2>1, <2>2
  <1>3. QED
    BY <1>1, <1>2, MonitorImplementsCore, TypeCorrect, PTL DEF MonitorSpec

LEMMA CoreInvariants == MonitorSpec => [](TypeOK /\ PlaceInv /\ SetpointInv)
  <1>1. Init => SetpointInv
    BY DEF Init, SetpointInv, Agrees
  <1>2. QED
    BY <1>1, SetpointStep, PlaceInvariant, TypeCorrect, MonitorImplementsCore, PTL
    DEF Spec

\* For every timeout, loop bound, command and trim, an ESC that is not sent the
\* stop pulse was permitted to run at most two millisecond boundaries ago
\* (Motor::setMotor(), motor.cpp:31-39; onControlTick(), drone.cpp:36).
THEOREM GuardsFailClosed == MonitorSpec => []MotorsFailClosed
  <1>1. MonitorInit => GuardInv
    BY DEF MonitorInit, Init, GuardInv, MotorsPermitted, SAFE, MAN_FLIGHT
  <1>2. MonitorTypeOK /\ GuardInv => MotorsFailClosed
    BY DEF MonitorTypeOK, GuardInv, MotorsFailClosed, OneIf
  <1>3. QED
    BY <1>1, <1>2, GuardStep, CoreInvariants, MonitorTypeCorrect, PTL
    DEF MonitorSpec

\* For any set of commands and however heartbeats and COMMANDs interleave with
\* control ticks, a tick in MAN_FLIGHT flies zero throttle until a COMMAND has
\* been stored in this flight (requestState(), drone.cpp:664).
THEOREM ThrottleIsFresh == MonitorSpec => []NoStaleThrottle
  <1>1. MonitorInit => ThrottleInv
    BY DEF MonitorInit, Init, ThrottleInv, SAFE, MAN_FLIGHT
  <1>2. PlaceInv /\ ThrottleInv => NoStaleThrottle
    BY DEF PlaceInv, MaskedOps, ThrottleInv, NoStaleThrottle
  <1>3. QED
    BY <1>1, <1>2, ThrottleStep, CoreInvariants, MonitorTypeCorrect, PTL
    DEF MonitorSpec

\* For every dwell, and although the counter behind it wraps and an interrupt may
\* come between the two stores of an entry into SAFE, the dwell has passed since
\* the first of them when the vehicle is out of SAFE again (heartbeat() and
\* requestState(), drone.cpp:602, 656-657).
THEOREM DwellIsServed == MonitorSpec => []DwellServed
  <1>1. MonitorInit => DwellInv
    BY DEF MonitorInit, Init, DwellInv
  <1>2. DwellInv => DwellServed
    BY DEF DwellInv, DwellServed
  <1>3. QED
    BY <1>1, <1>2, DwellStep, CoreInvariants, MonitorTypeCorrect, PTL
    DEF MonitorSpec

\* With one link, whichever it is and whatever it requests, a vehicle that has
\* tripped stays in SAFE until that link requests something else
\* (drone.cpp:586-592).  With two the property is false: they share one
\* lastRequested.
THEOREM OneLinkStaysSafe ==
    ASSUME NEW link, Links = {link}
    PROVE  MonitorSpec => []UnchangedRequestStaysSafe
  <1>1. MonitorInit => EdgeInv(link)
    BY DEF MonitorInit, Init, EdgeInv, EnteringMan
  <1>2. TypeOK /\ MonitorTypeOK /\ EdgeInv(link) /\ [MonitorNext]_monitorVars
            => EdgeInv(link)'
    BY EdgeStep
  <1>3. EdgeInv(link) => UnchangedRequestStaysSafe
    BY DEF EdgeInv, UnchangedRequestStaysSafe
  <1>4. QED
    BY <1>1, <1>2, <1>3, CoreInvariants, MonitorTypeCorrect, PTL DEF MonitorSpec

-----------------------------------------------------------------------------
(* The refinement. *)

\* Only a request that a heartbeat may carry is decided upon.
RequestInv == op = "decide" => request \in Requests

LEMMA RequestInvariant == Spec => []RequestInv
  <1>1. Init => RequestInv
    BY DEF Init, RequestInv
  <1>2. RequestInv /\ [Next]_vars => RequestInv'
    <2> SUFFICES ASSUME RequestInv, [Next]_vars PROVE RequestInv'
      OBVIOUS
    <2>1. CASE Tick \/ TickStep \/ UNCHANGED vars
      BY <2>1, TickFrame DEF RequestInv, Tick, vars, loopVars, localVars
    <2>2. CASE QuietStep
      BY <2>2, QuietFrame DEF RequestInv
    <2>3. CASE Decide \/ ServiceWatchdog \/ DateSafe \/ EnterSafe \/ EnterMan
      BY <2>3
      DEF RequestInv, Decide, ServiceWatchdog, DateSafe, EnterSafe, EnterMan, RequestState,
          Goto, Return
    <2>4. ASSUME NEW r \in Requests, Heartbeat(r) PROVE RequestInv'
      BY <2>4 DEF RequestInv, Heartbeat
    <2>5. QED
      BY <2>1, <2>2, <2>3, <2>4 DEF Next, LoopStep, QuietStep
  <1>3. QED
    BY <1>1, <1>2, PTL DEF Spec

\* A changed request is accepted, at the moment Decide commits to it.
LEMMA DecideRefines ==
    ASSUME TypeOK, RequestInv, Decide
    PROVE  Failsafe!Accept(request) \/ UNCHANGED Failsafe!vars
  <1> USE DEF PromisedState, EnteringSafe, EnteringMan
  <1>1. PromisedState = currentState /\ ~EnteringSafe /\ UNCHANGED sinceSafe
    BY DEF Decide, At
  <1>2. CASE Refused
    BY <1>1, <1>2 DEF Decide, Return, Failsafe!vars
  <1>3. CASE ~Refused
    <2>1. lastRequested' = request /\ tripped' = (tripped /\ request > SAFE)
          /\ RequestState(request) /\ request # lastRequested
      BY <1>3 DEF Decide, Refused
    <2>2. PromisedState' = IF Changes(currentState, request) THEN request
                           ELSE currentState
      BY <2>1
      DEF RequestState, Return, Goto, Changes, SAFE, READY_ARMED, MAN_FLIGHT
    <2>3. EnteringSafe' <=> Changes(currentState, request) /\ request = SAFE
      BY <2>1 DEF RequestState, Return, Goto, SAFE, READY_ARMED, MAN_FLIGHT
    <2>4. Escalates(request, currentState) => sinceSafe >= Dwell
      BY <1>3, CoreAssumptions DEF Refused, TooEarly, TypeOK
    <2>5. (currentState # SAFE /\ PromisedState' = SAFE) <=> EnteringSafe'
      BY <2>2, <2>3 DEF Changes
    <2>6. (~EnteringSafe /\ sinceSafe >= Dwell)'
              <=> (~EnteringSafe /\ sinceSafe >= Dwell)
                     /\ ~(PromisedState # SAFE /\ PromisedState' = SAFE)
      BY <1>1, <2>5
    <2>7. QED
      <3> HIDE DEF PromisedState, EnteringSafe
      <3>1. QED
        BY <1>1, <2>1, <2>2, <2>4, <2>6
        DEF Failsafe!Accept, Escalates, Failsafe!Escalates, Changes,
            Failsafe!Changes, SAFE, Failsafe!SAFE, READY_ARMED,
            Failsafe!READY_ARMED, MAN_FLIGHT, Failsafe!MAN_FLIGHT, FAULT_ERROR,
            Failsafe!FAULT_ERROR
  <1>4. QED
    BY <1>2, <1>3

\* An expired link trips, at the moment onWatchdogExpired() is called.
LEMMA ServiceRefines ==
    ASSUME ServiceWatchdog
    PROVE  Failsafe!Trip \/ UNCHANGED Failsafe!vars
  <1> USE DEF PromisedState, EnteringSafe, EnteringMan
  <1>1. UNCHANGED <<sinceSafe, lastRequested>> /\ op = "poll"
    BY DEF ServiceWatchdog, At
  <1>2. CASE ~Armed(currentState) \/ Fed
    BY <1>1, <1>2 DEF ServiceWatchdog, Return, Failsafe!vars
  <1>3. CASE Armed(currentState) /\ ~Fed
    <2>1. Changes(currentState, SAFE)
      BY <1>3 DEF Changes, Armed, SAFE, READY_ARMED
    <2>2. tripped' = TRUE /\ op' = "idleBottom"
      BY <1>3, <2>1
      DEF ServiceWatchdog, RequestState, Goto, SAFE, READY_ARMED, MAN_FLIGHT
    <2>3. QED
      BY <1>1, <1>3, <2>2
      DEF Failsafe!Trip, Armed, Failsafe!Armed, SAFE, Failsafe!SAFE, READY_ARMED,
          Failsafe!READY_ARMED, FAULT_ERROR, Failsafe!FAULT_ERROR
  <1>4. QED
    BY <1>2, <1>3

\* Every other step lets time pass, as far as the failsafe goes.
LEMMA OtherRefines ==
    ASSUME Tick \/ TickStep \/ QuietStep \/ DateSafe \/ EnterSafe \/ EnterMan
           \/ (\E r \in Requests : Heartbeat(r)) \/ UNCHANGED vars
    PROVE  Failsafe!Clock
  <1>1. UNCHANGED <<lastRequested, tripped>>
    BY TickFrame
    DEF Tick, QuietStep, NoPacket, IdleBottom, IdleTop, IdleSpeeds, Command,
        ZeroBottom, ZeroTop, StoreGimbal, StoreBottom, StoreTop, SkipReport,
        BeginReport, CopyState, CopyMotors, SendReport, DateSafe, EnterSafe,
        EnterMan, Heartbeat, stateVars, vars
  <1>2. PromisedState' = PromisedState
    <2>1. CASE Tick \/ TickStep \/ UNCHANGED vars
      BY <2>1, TickFrame
      DEF Tick, PromisedState, EnteringSafe, EnteringMan, vars, stateVars, loopVars
    <2>2. CASE QuietStep
      BY <2>2, QuietFrame DEF PromisedState, EnteringSafe, DroppingToSafe
    <2>3. CASE DateSafe \/ EnterSafe \/ EnterMan
      BY <2>3
      DEF DateSafe, EnterSafe, EnterMan, At, Goto, Return, PromisedState,
          EnteringSafe, EnteringMan
    <2>4. ASSUME NEW r \in Requests, Heartbeat(r)
          PROVE  PromisedState' = PromisedState
      BY <2>4 DEF Heartbeat, At, Goto, PromisedState, EnteringSafe, EnteringMan
    <2>5. QED
      BY <2>1, <2>2, <2>3, <2>4
  <1>3. QED
    BY <1>1, <1>2 DEF Failsafe!Clock

\* FlightCore implements LinkFailsafe for every timeout, dwell, wrap, loop
\* bound, set of links, requests and commands: whatever the machinery does, the
\* vehicle's state moves only by an accepted change of request or by a trip
\* (heartbeat(), serviceWatchdog() and requestState(), drone.cpp:565-683).
THEOREM FailsafeImplemented == Spec => ImplementsFailsafe
  <1>1. Init => Failsafe!Init
    BY DEF Init, Failsafe!Init, PromisedState, EnteringSafe, EnteringMan,
           SAFE, Failsafe!SAFE, BOOT, Failsafe!BOOT
  <1>2. TypeOK /\ RequestInv /\ [Next]_vars => [Failsafe!Next]_Failsafe!vars
    <2> SUFFICES ASSUME TypeOK, RequestInv, [Next]_vars
                 PROVE  Failsafe!Next \/ UNCHANGED Failsafe!vars
      OBVIOUS
    <2>1. CASE Decide
      <3>1. request \in Requests
        BY <2>1 DEF Decide, At, RequestInv
      <3>2. QED
        BY <2>1, <3>1, DecideRefines DEF Failsafe!Next
    <2>2. CASE ServiceWatchdog
      BY <2>2, ServiceRefines DEF Failsafe!Next
    <2>3. CASE ~Decide /\ ~ServiceWatchdog
      BY <2>3, OtherRefines DEF Failsafe!Next, Next, LoopStep, QuietStep
    <2>4. QED
      BY <2>1, <2>2, <2>3
  <1>3. QED
    BY <1>1, <1>2, TypeCorrect, RequestInvariant, PTL
    DEF Spec, ImplementsFailsafe, Failsafe!Spec
=============================================================================
