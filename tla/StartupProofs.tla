---------------------------- MODULE StartupProofs ----------------------------
(***************************************************************************)
(* Proofs about Startup for every dwell, reset threshold, pass bound, set  *)
(* of requests and set of switch positions.                                *)
(***************************************************************************)
EXTENDS Startup, TLAPS

\* A counter that stops at its bound stays within it and never runs back.
LEMMA UpToType ==
    ASSUME NEW bound \in Nat, NEW n \in 0..bound
    PROVE  /\ UpTo(bound, n + 1) \in 0..bound
           /\ n <= UpTo(bound, n + 1) /\ UpTo(bound, n + 1) <= n + 1
           /\ n < bound => UpTo(bound, n + 1) = n + 1
  BY DEF UpTo

\* What a heartbeat makes of the vehicle's state: it may enter SAFE and, once
\* the dwell has passed, a flight state, but never leaves FAULT_ERROR.
LEMMA HeartbeatEffect ==
    ASSUME TypeOK, NEW requested \in Byte, HandleHeartbeat(requested)
    PROVE  /\ lastRequested' \in Byte
           /\ sinceSafe' \in 0..Dwell
           /\ currentState' \in {currentState, SAFE, READY_ARMED, MAN_FLIGHT}
           /\ currentState = FAULT_ERROR => currentState' = FAULT_ERROR
           /\ currentState' \notin {currentState, SAFE} =>
                  /\ sinceSafe' = sinceSafe
                  /\ currentState <= SAFE => sinceSafe >= Dwell
           /\ currentState' = currentState => sinceSafe' = sinceSafe
  <1>1. lastRequested' \in Byte /\ sinceSafe' \in 0..Dwell
    BY StartupAssumptions DEF TypeOK, HandleHeartbeat
  <1>2. CASE Accepted(requested) /\ Changes(currentState, requested)
    <2>1. currentState' = requested /\ requested # currentState
          /\ requested \in {SAFE, READY_ARMED, MAN_FLIGHT}
          /\ currentState # FAULT_ERROR
      BY <1>2 DEF HandleHeartbeat, Changes
    <2>2. requested # SAFE => sinceSafe' = sinceSafe
      BY <1>2 DEF HandleHeartbeat
    <2>3. requested # SAFE /\ currentState <= SAFE => sinceSafe >= Dwell
      BY <1>2, <2>1, StartupAssumptions
      DEF Accepted, TooEarly, Escalates, TypeOK, SAFE, READY_ARMED, MAN_FLIGHT
    <2>4. QED
      BY <1>1, <2>1, <2>2, <2>3
  <1>3. CASE ~(Accepted(requested) /\ Changes(currentState, requested))
    <2>1. UNCHANGED <<currentState, sinceSafe>>
      BY <1>3 DEF HandleHeartbeat
    <2>2. QED
      BY <1>1, <2>1
  <1>4. QED
    BY <1>2, <1>3

\* Whatever a stage does, the pass ends with it.
LEMMA StageEnds ==
    ASSUME Stage
    PROVE  /\ ~finished /\ EndPass
           /\ FaultStage \/ UNCHANGED configVars
  BY DEF Stage, BootStage, RadioStage, FinishReset, RadioFails, SensorStage, GyroFails,
         ControlStage, FaultStage, NoStage, AtStage

\* Only ControlStage starts the timer, and only the radio's own touch it.
LEMMA StageFrame ==
    ASSUME Stage
    PROVE  /\ ControlStage \/ UNCHANGED outputVars
           /\ RadioStage \/ FinishReset \/ UNCHANGED radioVars
           /\ SensorStage \/ UNCHANGED gyroSetup
           /\ FaultStage \/ UNCHANGED <<lastRequested, sinceSafe>>
  BY DEF Stage, BootStage, RadioStage, FinishReset, RadioFails, SensorStage, GyroFails,
         ControlStage, FaultStage, NoStage, droneVars

-----------------------------------------------------------------------------
(* Types. *)

LEMMA RadioType ==
    ASSUME TypeOK, RadioStage \/ FinishReset
    PROVE  /\ radioSetup' \in RadioSetups
           /\ resetLine' \in {"undriven", "high", "low"}
           /\ setupTimer' \in 0..ResetDone
           /\ highMs' \in 0..ResetHigh /\ lowMs' \in 0..ResetDone
  BY StartupAssumptions
  DEF TypeOK, RadioStage, RadioDisabled, BeginReset, FinishReset, RadioAnswers,
      RadioSetups

LEMMA StageType ==
    ASSUME TypeOK, Stage
    PROVE  TypeOK'
  <1> USE StartupAssumptions
  <1>1. /\ finished' \in BOOLEAN /\ step' = "packet" /\ passMs' = 0
        /\ radioEnabled' \in BOOLEAN /\ gyroEnabled' \in BOOLEAN
    BY StageEnds DEF EndPass, FaultStage, configVars, TypeOK
  <1>2. actuators' \in BOOLEAN /\ timerOn' \in BOOLEAN
    BY StageFrame DEF ControlStage, outputVars, TypeOK
  <1>3. /\ radioSetup' \in RadioSetups
        /\ resetLine' \in {"undriven", "high", "low"}
        /\ setupTimer' \in 0..ResetDone
        /\ highMs' \in 0..ResetHigh /\ lowMs' \in 0..ResetDone
    BY StageFrame, RadioType DEF radioVars, TypeOK
  <1>4. gyroSetup' \in GyroSetups
    BY StageFrame DEF SensorStage, GyroSetups, TypeOK
  <1>5. /\ currentState' \in States \ {AUTO_FLIGHT}
        /\ lastRequested' \in Byte /\ sinceSafe' \in 0..Dwell
    <2>1. CASE FaultStage
      <3>1. CASE UNCHANGED droneVars
        BY <3>1 DEF TypeOK, droneVars
      <3>2. ASSUME NEW r \in Requests, HandleHeartbeat(r)
            PROVE  /\ currentState' \in States \ {AUTO_FLIGHT}
                   /\ lastRequested' \in Byte /\ sinceSafe' \in 0..Dwell
        BY <3>2, HeartbeatEffect
        DEF TypeOK, States, SAFE, READY_ARMED, MAN_FLIGHT, AUTO_FLIGHT
      <3>3. QED
        BY <2>1, <3>1, <3>2 DEF FaultStage
    <2>2. CASE ~FaultStage
      <3>1. lastRequested' \in Byte /\ sinceSafe' \in 0..Dwell
        BY <2>2, StageFrame DEF TypeOK
      <3>2. currentState' \in States \ {AUTO_FLIGHT}
        BY <2>2
        DEF Stage, BootStage, RadioStage, FinishReset, RadioFails, SensorStage,
            GyroFails, ControlStage, NoStage, Enter, TypeOK, droneVars, States, BOOT,
            RADIO_SETUP, SENSOR_SETUP, CONTROL_SETUP, SAFE, READY_ARMED,
            MAN_FLIGHT, AUTO_FLIGHT, FAULT_ERROR
      <3>3. QED
        BY <3>1, <3>2
    <2>3. QED
      BY <2>1, <2>2
  <1>6. QED
    BY <1>1, <1>2, <1>3, <1>4, <1>5 DEF TypeOK

LEMMA TypeStep ==
    ASSUME TypeOK, [Next]_vars
    PROVE  TypeOK'
  <1> USE StartupAssumptions
  <1>1. CASE Tick
    <2>1. /\ sinceSafe' \in 0..Dwell /\ setupTimer' \in 0..ResetDone
          /\ highMs' \in 0..ResetHigh /\ lowMs' \in 0..ResetDone
      BY <1>1, UpToType DEF Tick, TypeOK
    <2>2. QED
      BY <1>1, <2>1 DEF Tick, TypeOK, configVars, outputVars
  <1>2. CASE NoPacket
    BY <1>2
    DEF NoPacket, TypeOK, droneVars, configVars, radioVars, outputVars
  <1>3. ASSUME NEW r \in Requests, Heartbeat(r) PROVE TypeOK'
    <2>1. /\ currentState' \in States \ {AUTO_FLIGHT}
          /\ lastRequested' \in Byte /\ sinceSafe' \in 0..Dwell
      BY <1>3, HeartbeatEffect
      DEF Heartbeat, TypeOK, States, SAFE, READY_ARMED, MAN_FLIGHT, AUTO_FLIGHT
    <2>2. QED
      BY <1>3, <2>1 DEF Heartbeat, TypeOK, configVars, radioVars, outputVars
  <1>4. ASSUME NEW radio \in Flags, NEW gyro \in Flags, SetConfig(radio, gyro)
        PROVE  TypeOK'
    BY <1>4 DEF SetConfig, TypeOK, droneVars, radioVars, outputVars
  <1>5. CASE Stage
    BY <1>5, StageType
  <1>6. CASE ReleaseReset
    BY <1>6 DEF ReleaseReset, TypeOK, droneVars, configVars, outputVars
  <1>7. CASE UNCHANGED vars
    BY <1>7
    DEF vars, TypeOK, droneVars, configVars, radioVars, outputVars, passVars
  <1>8. QED
    BY <1>1, <1>2, <1>3, <1>4, <1>5, <1>6, <1>7 DEF Next, Finished

\* Every variable keeps its type: in particular startup never leaves the
\* vehicle in AUTO_FLIGHT, whatever a heartbeat requests meanwhile.
THEOREM StartupTyped == Spec => []TypeOK
  <1>1. Init => TypeOK
    <2> SUFFICES ASSUME Init PROVE TypeOK
      OBVIOUS
    <2>1. currentState \in States \ {AUTO_FLIGHT} /\ lastRequested \in Byte
      BY DEF Init, States, Byte, BOOT, RADIO_SETUP, SENSOR_SETUP, CONTROL_SETUP,
             SAFE, READY_ARMED, MAN_FLIGHT, AUTO_FLIGHT, FAULT_ERROR
    <2>2. sinceSafe \in 0..Dwell /\ setupTimer \in 0..ResetDone
          /\ highMs \in 0..ResetHigh /\ lowMs \in 0..ResetDone
          /\ passMs \in 0..PassMax
      BY StartupAssumptions DEF Init
    <2>3. radioEnabled \in BOOLEAN /\ gyroEnabled \in BOOLEAN
      BY StartupAssumptions DEF Init
    <2>4. QED
      BY <2>1, <2>2, <2>3 DEF Init, TypeOK, RadioSetups, GyroSetups
  <1>2. QED
    BY <1>1, TypeStep, PTL DEF Spec

-----------------------------------------------------------------------------
(* Property: TimerLast.  Each stage is entered only with the earlier ones  *)
(* complete, and starting the timer ends startup(), so that no later stage *)
(* can undo what it was started on.                                        *)

TimerInv ==
    /\ step = "recheck" => radioSetup = "RESET2"
    /\ currentState = SENSOR_SETUP => RadioComplete
    /\ currentState = CONTROL_SETUP => RadioComplete /\ GyroComplete
    /\ timerOn => RadioComplete /\ GyroComplete /\ actuators
    /\ timerOn => finished

\* A heartbeat enters no setup stage.
LEMMA NoSetupByHeartbeat ==
    ASSUME TypeOK, NEW requested \in Byte, HandleHeartbeat(requested),
           NEW stage \in {BOOT, RADIO_SETUP, SENSOR_SETUP, CONTROL_SETUP},
           currentState' = stage
    PROVE  currentState = stage
  BY HeartbeatEffect
  DEF BOOT, RADIO_SETUP, SENSOR_SETUP, CONTROL_SETUP, SAFE, READY_ARMED, MAN_FLIGHT

\* What a step that leaves the hardware alone, and enters no setup stage, does
\* not disturb.
LEMMA TimerFrame ==
    ASSUME TimerInv, UNCHANGED <<radioSetup, gyroSetup, outputVars, finished>>,
           step' = "recheck" => radioSetup = "RESET2",
           \A stage \in {SENSOR_SETUP, CONTROL_SETUP} :
               currentState' = stage => currentState = stage
    PROVE  TimerInv'
  BY DEF TimerInv, RadioComplete, GyroComplete, outputVars

LEMMA TimerStage ==
    ASSUME TypeOK, TimerInv, Stage
    PROVE  TimerInv'
  <1> USE DEF BOOT, RADIO_SETUP, SENSOR_SETUP, CONTROL_SETUP, SAFE, READY_ARMED,
              MAN_FLIGHT, AUTO_FLIGHT, FAULT_ERROR
  <1>1. ~timerOn /\ step' # "recheck"
    BY StageEnds DEF TimerInv, EndPass
  <1>2. CASE ControlStage
    BY <1>1, <1>2 DEF ControlStage, AtStage, Enter, EndPass, TimerInv, RadioComplete,
                GyroComplete, radioVars
  <1>3. ~ControlStage => ~timerOn'
    BY <1>1, StageFrame DEF outputVars
  <1>4. CASE RadioStage \/ FinishReset
    BY <1>1, <1>3, <1>4
    DEF RadioStage, FinishReset, ControlStage, AtStage, Enter, TimerInv
  <1>5. CASE SensorStage
    BY <1>1, <1>3, <1>5 DEF SensorStage, ControlStage, AtStage, Enter, TimerInv,
                      RadioComplete, radioVars
  <1>6. CASE BootStage \/ RadioFails \/ GyroFails
    BY <1>1, <1>3, <1>6 DEF BootStage, RadioFails, GyroFails, ControlStage, AtStage,
                      Enter, TimerInv
  <1>7. CASE FaultStage
    <2>1. currentState' = FAULT_ERROR
      <3>1. CASE UNCHANGED droneVars
        BY <1>7, <3>1 DEF FaultStage, AtStage, droneVars
      <3>2. ASSUME NEW r \in Requests, HandleHeartbeat(r)
            PROVE  currentState' = FAULT_ERROR
        BY <1>7, <3>2, HeartbeatEffect, StartupAssumptions
        DEF FaultStage, AtStage
      <3>3. QED
        BY <1>7, <3>1, <3>2 DEF FaultStage
    <2>2. QED
      BY <1>1, <1>3, <1>7, <2>1 DEF FaultStage, ControlStage, AtStage, TimerInv
  <1>8. CASE NoStage
    BY <1>1, <1>3, <1>8 DEF NoStage, ControlStage, AtStage, droneVars, TimerInv
  <1>9. QED
    BY <1>2, <1>4, <1>5, <1>6, <1>7, <1>8 DEF Stage

LEMMA TimerStep ==
    ASSUME TypeOK, TimerInv, [Next]_vars
    PROVE  TimerInv'
  <1>1. CASE Tick
    BY <1>1, TimerFrame DEF Tick, TimerInv
  <1>2. CASE NoPacket
    BY <1>2, TimerFrame DEF NoPacket, droneVars, radioVars
  <1>3. ASSUME NEW r \in Requests, Heartbeat(r) PROVE TimerInv'
    BY <1>3, NoSetupByHeartbeat, TimerFrame, StartupAssumptions
    DEF Heartbeat, radioVars
  <1>4. ASSUME NEW radio \in Flags, NEW gyro \in Flags, SetConfig(radio, gyro)
        PROVE  TimerInv'
    BY <1>4, TimerFrame DEF SetConfig, droneVars, radioVars
  <1>5. CASE Stage
    BY <1>5, TimerStage
  <1>6. CASE ReleaseReset
    BY <1>6, TimerFrame DEF ReleaseReset, droneVars, radioVars
  <1>7. CASE UNCHANGED vars
    BY <1>7, TimerFrame DEF vars, droneVars, radioVars, passVars, TimerInv
  <1>8. QED
    BY <1>1, <1>2, <1>3, <1>4, <1>5, <1>6, <1>7 DEF Next, Finished

\* The control interrupt is started last: once it runs, the radio and the gyro
\* are set up or disabled and what it drives is attached, whatever a heartbeat
\* or a CONFIG packet did on the way (startControlTimer(), drone.cpp:108-111).
THEOREM ControlInterruptLast == Spec => []TimerLast
  <1>1. Init => TimerInv
    BY DEF Init, TimerInv, BOOT, SENSOR_SETUP, CONTROL_SETUP
  <1>2. TimerInv => TimerLast
    BY DEF TimerInv, TimerLast
  <1>3. QED
    BY <1>1, <1>2, StartupTyped, TimerStep, PTL DEF Spec

-----------------------------------------------------------------------------
(* Property: EarlyBootHarmless.                                            *)

LEMMA HarmlessHeartbeat ==
    ASSUME TypeOK, EarlyBootHarmless, NEW requested \in Byte,
           HandleHeartbeat(requested)
    PROVE  EarlyBootHarmless'
  <1> USE DEF Armed, EarlyBootHarmless, SAFE, READY_ARMED, MAN_FLIGHT, AUTO_FLIGHT
  <1>1. CASE currentState' = currentState
    BY <1>1, HeartbeatEffect
  <1>2. CASE currentState' = SAFE
    BY <1>2
  <1>3. CASE currentState' \notin {currentState, SAFE}
    <2>1. currentState <= SAFE \/ Armed(currentState)
      BY <1>3, HeartbeatEffect
      DEF TypeOK, States, BOOT, RADIO_SETUP, SENSOR_SETUP, CONTROL_SETUP, FAULT_ERROR
    <2>2. QED
      BY <1>3, <2>1, HeartbeatEffect
  <1>4. QED
    BY <1>1, <1>2, <1>3

LEMMA HarmlessStep ==
    ASSUME TypeOK, EarlyBootHarmless, [Next]_vars
    PROVE  EarlyBootHarmless'
  <1>1. CASE Tick
    <2>1. sinceSafe \in 0..Dwell /\ Dwell \in Nat
      BY StartupAssumptions DEF TypeOK
    <2>2. sinceSafe' >= sinceSafe /\ currentState' = currentState
      BY <1>1, <2>1 DEF Tick, UpTo
    <2>3. sinceSafe' \in Int
      BY <1>1, <2>1 DEF Tick, UpTo
    <2>4. QED
      BY <2>1, <2>2, <2>3 DEF EarlyBootHarmless, Armed
  <1>2. CASE NoPacket \/ ReleaseReset \/ UNCHANGED vars
    BY <1>2 DEF NoPacket, ReleaseReset, vars, droneVars, EarlyBootHarmless, Armed
  <1>3. ASSUME NEW r \in Requests, Heartbeat(r) PROVE EarlyBootHarmless'
    BY <1>3, HarmlessHeartbeat, StartupAssumptions DEF Heartbeat
  <1>4. ASSUME NEW radio \in Flags, NEW gyro \in Flags, SetConfig(radio, gyro)
        PROVE  EarlyBootHarmless'
    BY <1>4 DEF SetConfig, droneVars, EarlyBootHarmless, Armed
  <1>5. CASE Stage
    <2>1. CASE FaultStage
      <3>1. CASE UNCHANGED droneVars
        BY <3>1 DEF droneVars, EarlyBootHarmless, Armed
      <3>2. ASSUME NEW r \in Requests, HandleHeartbeat(r) PROVE EarlyBootHarmless'
        BY <3>2, HarmlessHeartbeat, StartupAssumptions
      <3>3. QED
        BY <2>1, <3>1, <3>2 DEF FaultStage
    <2>2. CASE NoStage
      BY <2>2 DEF NoStage, droneVars, EarlyBootHarmless, Armed
    <2>3. CASE ~FaultStage /\ ~NoStage
      BY <1>5, <2>3
      DEF Stage, BootStage, RadioStage, FinishReset, RadioFails, SensorStage,
          GyroFails, ControlStage, Enter, EarlyBootHarmless, Armed, RADIO_SETUP,
          SENSOR_SETUP, CONTROL_SETUP, SAFE, READY_ARMED, MAN_FLIGHT,
          AUTO_FLIGHT, FAULT_ERROR
    <2>4. QED
      BY <2>1, <2>2, <2>3
  <1>6. QED
    BY <1>1, <1>2, <1>3, <1>4, <1>5 DEF Next, Finished

\* Nothing that can move is reachable before the dwell has passed since
\* power-on, so a watchdog that reads fed without any heartbeat is harmless
\* during startup (requestState(), safeEntryMs).
THEOREM DwellCoversBoot == Spec => []EarlyBootHarmless
  <1>1. Init => EarlyBootHarmless
    BY DEF Init, EarlyBootHarmless, Armed, BOOT, READY_ARMED, MAN_FLIGHT, AUTO_FLIGHT
  <1>2. QED
    BY <1>1, StartupTyped, HarmlessStep, PTL DEF Spec

-----------------------------------------------------------------------------
(* Property: ResetServed.  setupTimer runs from the moment the line goes   *)
(* high, and no longer than the line has been high.  The pass that finds   *)
(* it at ResetHigh drives the line low; two looks are at most two passes   *)
(* apart, so from then on lowMs trails setupTimer by no more than          *)
(* ResetHigh and two passes.                                               *)

ResetSlack == ResetHigh + 2 * PassMax

ResetInv ==
    /\ currentState = BOOT => radioSetup = "RESET1"
    /\ step = "recheck" => currentState = RADIO_SETUP /\ radioSetup = "RESET2"
    /\ radioSetup = "RESET2" =>
           \/ resetLine = "high" /\ (setupTimer <= highMs \/ highMs >= ResetHigh)
           \/ resetLine = "low" /\ highMs >= ResetHigh
    /\ radioSetup = "RESET2" /\ resetLine = "high" /\ currentState = RADIO_SETUP =>
           /\ setupTimer <= ResetHigh + passMs + PassMax
           /\ step = "recheck" => setupTimer < ResetHigh + passMs
    /\ radioSetup = "RESET2" /\ resetLine = "low" =>
           lowMs >= setupTimer - ResetSlack
    /\ radioSetup \in {"RADIO_INIT", "SET_CONFIG", "COMPLETE"} =>
           /\ highMs >= ResetHigh
           /\ lowMs >= ResetDone - ResetSlack
           /\ PassMax <= ResetDone - ResetHigh => resetLine = "low"

\* What a step that leaves the radio alone, and does not enter its stage, does
\* not disturb.
LEMMA ResetFrame ==
    ASSUME ResetInv, UNCHANGED radioVars, step' # "recheck",
           \A stage \in {BOOT, RADIO_SETUP} :
               currentState' = stage =>
                   \/ currentState = stage /\ passMs' = passMs
                   \/ radioSetup # "RESET2" /\ currentState' # BOOT
    PROVE  ResetInv'
  BY DEF ResetInv, radioVars, BOOT, RADIO_SETUP, ResetSlack

\* What the counters of the reset are.
LEMMA ResetNumbers ==
    ASSUME TypeOK
    PROVE  /\ setupTimer \in 0..ResetDone /\ highMs \in 0..ResetHigh
           /\ lowMs \in 0..ResetDone /\ passMs \in 0..PassMax
           /\ ResetHigh \in Nat /\ PassMax \in Nat /\ ResetDone \in Nat
           /\ ResetSlack \in Nat /\ ResetSlack = ResetHigh + 2 * PassMax
  BY StartupAssumptions DEF TypeOK, ResetSlack

LEMMA ResetTick ==
    ASSUME TypeOK, ResetInv, Tick
    PROVE  ResetInv'
  <1>1. setupTimer' \in 0..ResetDone /\ setupTimer' <= setupTimer + 1
    BY ResetNumbers, UpToType DEF Tick
  <1>2. /\ highMs' \in 0..ResetHigh /\ highMs <= highMs'
        /\ resetLine = "high" => highMs' = highMs + 1 \/ highMs' = ResetHigh
        /\ lowMs' \in 0..ResetDone /\ lowMs <= lowMs'
        /\ resetLine = "low" => lowMs' = lowMs + 1 \/ lowMs' = ResetDone
    BY ResetNumbers DEF Tick, UpTo
  <1>3. /\ passMs' = passMs + 1
        /\ UNCHANGED <<currentState, radioSetup, resetLine, step>>
    BY DEF Tick
  <1>4. radioSetup = "RESET2" /\ resetLine = "low" => lowMs' >= setupTimer' - ResetSlack
    BY <1>1, <1>2, ResetNumbers DEF ResetInv
  <1>5. radioSetup = "RESET2" =>
            \/ resetLine = "high" /\ (setupTimer' <= highMs' \/ highMs' >= ResetHigh)
            \/ resetLine = "low" /\ highMs' >= ResetHigh
    BY <1>1, <1>2, ResetNumbers DEF ResetInv
  <1>6. radioSetup = "RESET2" /\ resetLine = "high" /\ currentState = RADIO_SETUP =>
            /\ setupTimer' <= ResetHigh + passMs' + PassMax
            /\ step = "recheck" => setupTimer' < ResetHigh + passMs'
    BY <1>1, <1>3, ResetNumbers DEF ResetInv
  <1>7. radioSetup \in {"RADIO_INIT", "SET_CONFIG", "COMPLETE"} =>
            highMs' >= ResetHigh /\ lowMs' >= ResetDone - ResetSlack
    BY <1>2, ResetNumbers DEF ResetInv
  <1>8. QED
    BY <1>3, <1>4, <1>5, <1>6, <1>7 DEF ResetInv

LEMMA ResetRadioStage ==
    ASSUME TypeOK, ResetInv, RadioStage
    PROVE  ResetInv'
  <1>1. /\ currentState = RADIO_SETUP /\ currentState' # BOOT /\ passMs' = 0
        /\ step' # "recheck"
    BY DEF RadioStage, AtStage, Enter, EndPass, BOOT, RADIO_SETUP, SENSOR_SETUP
  <1>2. CASE RadioDisabled
    BY <1>1, <1>2 DEF RadioDisabled, ResetInv
  <1>3. CASE BeginReset
    BY <1>1, <1>3, ResetNumbers DEF BeginReset, ResetInv
  <1>4. CASE RadioAnswers
    BY <1>1, <1>4 DEF RadioAnswers, ResetInv, ResetSlack
  <1>5. QED
    BY <1>2, <1>3, <1>4 DEF RadioStage

\* The first look at the clock: the line may go low.
LEMMA ResetRelease ==
    ASSUME TypeOK, ResetInv, ReleaseReset
    PROVE  ResetInv'
  <1>1. /\ radioSetup = "RESET2" /\ currentState = RADIO_SETUP /\ step' = "recheck"
        /\ UNCHANGED <<radioSetup, currentState, setupTimer, highMs, lowMs, passMs>>
    BY DEF ReleaseReset, AtStage, droneVars
  <1>2. BOOT # RADIO_SETUP
    BY DEF BOOT, RADIO_SETUP
  <1>3. CASE setupTimer >= ResetHigh
    <2>1. resetLine' = "low"
      BY <1>3 DEF ReleaseReset
    <2>2. highMs >= ResetHigh
      BY <1>1, <1>3, ResetNumbers DEF ResetInv
    <2>3. lowMs >= setupTimer - ResetSlack
      BY <1>1, ResetNumbers DEF ResetInv
    <2>4. QED
      BY <1>1, <1>2, <2>1, <2>2, <2>3 DEF ResetInv, ResetSlack
  <1>4. CASE ~(setupTimer >= ResetHigh)
    <2>1. resetLine' = resetLine
      BY <1>4 DEF ReleaseReset
    <2>2. setupTimer < ResetHigh + passMs
      BY <1>4, ResetNumbers
    <2>3. QED
      BY <1>1, <1>2, <2>1, <2>2 DEF ResetInv, ResetSlack
  <1>5. QED
    BY <1>3, <1>4

\* The second look: the reset may be over.
LEMMA ResetFinish ==
    ASSUME TypeOK, ResetInv, FinishReset
    PROVE  ResetInv'
  <1>1. /\ radioSetup = "RESET2" /\ currentState = RADIO_SETUP /\ step = "recheck"
        /\ currentState' = RADIO_SETUP /\ step' = "packet" /\ passMs' = 0
        /\ UNCHANGED <<resetLine, setupTimer, highMs, lowMs>>
    BY DEF FinishReset, EndPass, Enter, ResetInv
  <1>2. BOOT # RADIO_SETUP
    BY DEF BOOT, RADIO_SETUP
  <1>3. CASE setupTimer >= ResetDone
    <2>1. radioSetup' = "RADIO_INIT"
      BY <1>3 DEF FinishReset
    <2>2. setupTimer = ResetDone
      <3>1. setupTimer \in 0..ResetDone /\ ResetDone \in Nat
        BY ResetNumbers
      <3>2. QED
        BY <1>3, <3>1
    <2>3. highMs >= ResetHigh
      BY <1>1, <2>2, ResetNumbers, StartupAssumptions DEF ResetInv
    <2>4. resetLine = "high" => ResetDone < ResetHigh + PassMax
      BY <1>1, <2>2, ResetNumbers DEF ResetInv
    <2>5. lowMs >= ResetDone - ResetSlack
      BY <1>1, <2>2, <2>4, ResetNumbers DEF ResetInv
    <2>6. PassMax <= ResetDone - ResetHigh => resetLine = "low"
      BY <1>1, <2>4, ResetNumbers DEF ResetInv
    <2>7. QED
      BY <1>1, <1>2, <2>1, <2>3, <2>5, <2>6 DEF ResetInv, ResetSlack
  <1>4. CASE ~(setupTimer >= ResetDone)
    <2>1. radioSetup' = "RESET2"
      BY <1>4 DEF FinishReset
    <2>2. resetLine = "high" => setupTimer <= ResetHigh + PassMax
      BY <1>1, ResetNumbers DEF ResetInv
    <2>3. QED
      BY <1>1, <1>2, <2>1, <2>2, ResetNumbers DEF ResetInv
  <1>5. QED
    BY <1>3, <1>4

LEMMA ResetStep ==
    ASSUME TypeOK, ResetInv, [Next]_vars
    PROVE  ResetInv'
  <1> USE DEF BOOT, RADIO_SETUP, SENSOR_SETUP, CONTROL_SETUP, SAFE, READY_ARMED,
              MAN_FLIGHT, AUTO_FLIGHT, FAULT_ERROR
  <1>1. CASE Tick
    BY <1>1, ResetTick
  <1>2. CASE NoPacket
    BY <1>2, ResetFrame DEF NoPacket, droneVars
  <1>3. ASSUME NEW r \in Requests, Heartbeat(r) PROVE ResetInv'
    BY <1>3, NoSetupByHeartbeat, ResetFrame, StartupAssumptions DEF Heartbeat
  <1>4. ASSUME NEW radio \in Flags, NEW gyro \in Flags, SetConfig(radio, gyro)
        PROVE  ResetInv'
    BY <1>4, ResetFrame DEF SetConfig, droneVars
  <1>5. CASE RadioStage \/ ReleaseReset \/ FinishReset
    BY <1>5, ResetRadioStage, ResetRelease, ResetFinish
  <1>6. CASE BootStage
    <2>1. radioSetup = "RESET1" /\ UNCHANGED radioVars /\ currentState' # BOOT
          /\ step' # "recheck"
      BY <1>6 DEF BootStage, AtStage, Enter, EndPass, ResetInv
    <2>2. QED
      BY <2>1, ResetFrame
  <1>7. CASE RadioFails \/ SensorStage \/ GyroFails \/ ControlStage
    BY <1>7, ResetFrame
    DEF RadioFails, SensorStage, GyroFails, ControlStage, Enter, EndPass
  <1>8. CASE FaultStage
    <2>1. UNCHANGED radioVars /\ currentState = FAULT_ERROR /\ step' # "recheck"
      BY <1>8 DEF FaultStage, AtStage, EndPass
    <2>2. currentState' = FAULT_ERROR
      <3>1. CASE UNCHANGED droneVars
        BY <2>1, <3>1 DEF droneVars
      <3>2. ASSUME NEW r \in Requests, HandleHeartbeat(r)
            PROVE  currentState' = FAULT_ERROR
        BY <2>1, <3>2, HeartbeatEffect, StartupAssumptions
      <3>3. QED
        BY <1>8, <3>1, <3>2 DEF FaultStage
    <2>3. QED
      BY <2>1, <2>2, ResetFrame
  <1>9. CASE NoStage
    BY <1>9, ResetFrame DEF NoStage, EndPass, droneVars
  <1>10. CASE UNCHANGED vars
    BY <1>10 DEF vars, droneVars, radioVars, passVars, ResetInv, ResetSlack
  <1>11. QED
    BY <1>1, <1>2, <1>3, <1>4, <1>5, <1>6, <1>7, <1>8, <1>9, <1>10
    DEF Next, Stage, Finished

\* For all thresholds and passes, and whatever is switched or requested while
\* the stage runs: when the RFM69 is first talked to, its reset line has been
\* high for the first threshold and low for the rest of the second, less the two
\* passes between two looks at the clock; and it is low, unless a single pass
\* can outlast the second phase (Radio::setup, radio.cpp:96-130).
THEOREM ResetLongEnough == Spec => []ResetServed
  <1>1. Init => ResetInv
    BY DEF Init, ResetInv
  <1>2. TypeOK /\ ResetInv => ResetServed
    BY ResetNumbers DEF ResetInv, ResetServed
  <1>3. QED
    BY <1>1, <1>2, StartupTyped, ResetStep, PTL DEF Spec

-----------------------------------------------------------------------------
(* Property: FaultIsFinal.                                                 *)

LEMMA FaultStep ==
    ASSUME TypeOK, ResetInv, [Next]_vars, currentState = FAULT_ERROR, ~finished
    PROVE  currentState' = FAULT_ERROR /\ ~finished'
  <1> USE DEF BOOT, RADIO_SETUP, SENSOR_SETUP, CONTROL_SETUP, SAFE, READY_ARMED,
              MAN_FLIGHT, AUTO_FLIGHT, FAULT_ERROR
  <1>1. CASE FaultStage
    <2>1. currentState' = FAULT_ERROR
      <3>1. CASE UNCHANGED droneVars
        BY <3>1 DEF droneVars
      <3>2. ASSUME NEW r \in Requests, HandleHeartbeat(r)
            PROVE  currentState' = FAULT_ERROR
        BY <3>2, HeartbeatEffect, StartupAssumptions
      <3>3. QED
        BY <1>1, <3>1, <3>2 DEF FaultStage
    <2>2. finished' = (currentState' = SAFE)
      BY <1>1 DEF FaultStage, EndPass
    <2>3. currentState' # SAFE
      BY <2>1
    <2>4. QED
      BY <2>1, <2>2, <2>3
  <1>2. ASSUME NEW r \in Requests, Heartbeat(r)
        PROVE  currentState' = FAULT_ERROR /\ ~finished'
    BY <1>2, HeartbeatEffect, StartupAssumptions DEF Heartbeat
  <1>3. CASE Stage /\ ~FaultStage
    BY <1>3 DEF Stage, BootStage, RadioStage, FinishReset, RadioFails, SensorStage,
                GyroFails, ControlStage, NoStage, AtStage, ResetInv
  <1>4. CASE Tick \/ NoPacket \/ ReleaseReset \/ UNCHANGED vars
    BY <1>4 DEF Tick, NoPacket, ReleaseReset, vars, droneVars, passVars
  <1>5. ASSUME NEW radio \in Flags, NEW gyro \in Flags, SetConfig(radio, gyro)
        PROVE  currentState' = FAULT_ERROR /\ ~finished'
    BY <1>5 DEF SetConfig, droneVars
  <1>6. QED
    BY <1>1, <1>2, <1>3, <1>4, <1>5 DEF Next, Finished

\* When startup() is over the vehicle is in SAFE, and stays so.
FinishedSafe == finished => currentState = SAFE

LEMMA FinishedStep ==
    ASSUME FinishedSafe, [Next]_vars
    PROVE  FinishedSafe'
  <1>1. CASE Stage
    BY <1>1, StageEnds DEF EndPass, FinishedSafe
  <1>2. CASE UNCHANGED vars
    BY <1>2 DEF vars, droneVars, passVars, FinishedSafe
  <1>3. CASE ~Stage /\ Next /\ ~finished
    BY <1>3 DEF Next, Tick, NoPacket, AtPacket, Heartbeat, SetConfig, Finished,
                ReleaseReset, FinishedSafe
  <1>4. QED
    BY <1>1, <1>2, <1>3
    DEF Next, Tick, NoPacket, AtPacket, AtStage, Heartbeat, SetConfig,
        ReleaseReset, Finished

\* FAULT_ERROR refuses every transition, those a heartbeat asks for over USB or
\* over the radio included, and startup() never returns from it (requestState(),
\* startup()).
THEOREM FaultStays == Spec => FaultIsFinal
  <1>1. Init => FinishedSafe
    BY DEF Init, FinishedSafe
  <1>2. Init => ResetInv
    BY DEF Init, ResetInv
  <1>3. TypeOK /\ ResetInv /\ FinishedSafe /\ [Next]_vars =>
            [currentState = FAULT_ERROR => currentState' = FAULT_ERROR /\ ~finished']_vars
    BY FaultStep DEF FinishedSafe, SAFE, FAULT_ERROR
  <1>4. QED
    BY <1>1, <1>2, <1>3, StartupTyped, ResetStep, FinishedStep, PTL
    DEF Spec, FaultIsFinal
=============================================================================
