# AFC-Drone: formal models, checks and proofs

TLA+ modules that model the AFC-Drone firmware (`src/`, a Teensy/Nucleo C++
program), TLC configurations that check them on small instances, and TLAPS proofs
of the properties that matter most, for every value of the constants.
`PROJECT.json` is the machine-readable index: components, runs, mutants, the map
from definitions to source lines, findings, hazards and theorems.

    tlc -workers 2 -config FlightCore_all.cfg MCFlightCore
    tlapm FlightCoreProofs.tla

## 1. The system

Two contexts run on one core. `loop()` (`src/src/main.cpp`) goes round its services
and never blocks for long; a hardware timer runs `Drone::update()` every
millisecond in interrupt context. They share plain globals, protected by
`noInterrupts()` in a few places only. The ground talks to `loop()` over two links,
radio and USB, with the same commands.

| Component | State it keeps | Operations | Talks to |
|---|---|---|---|
| State machine, `drone.cpp` | `currentState`, `safeEntryMs`, `lastRequested` | `requestState`, `heartbeat` | links call it; motors and gimbal read its state |
| Link watchdog, `drone.cpp` | `watchdog` (an `elapsedMillis`), `tripped` | `heartbeat`, `serviceWatchdog`, `onWatchdogExpired` | requests SAFE; read by every actuator guard |
| Setpoint, `drone.cpp` | `activeTarget` | `setTarget`, entry into MAN_FLIGHT | written by `loop()`, read by the control tick |
| Control tick, `drone.cpp` | `telemetry`, loop timing | `update`, `recordTelemetry`, `onControlTick` | gimbal, motors, gyro, battery, watchdog |
| Motors, `motor.cpp` | set speeds, ESC pulses | `setup`, `setMotor` | guard: watchdog fed and MAN_FLIGHT; trims from the configuration |
| Gimbal, `gimbal.cpp` | commanded angles, servo positions | `setup`, `set`, `setTopServo`, `setBotServo` | guard: watchdog fed and READY_ARMED or above |
| Startup, `drone.cpp` | `currentState`, setup stages | `startup` and the `setup` functions | dispatches USB packets while it runs |
| Radio, `radio.cpp` | setup stage, link state, send queue, receive window, error counters | `setup`, `update`, handlers, relay | drone, configuration, USB relay |
| USB, `usb.cpp` | parser state, receive and two send queues | `update`, frame parser, handlers, senders | drone, configuration |
| Configuration, `configs.cpp` | RAM copy, EEPROM image | `load`, `migrate`, `set`, `setBatch`, `save` | motors, gimbal, radio, gyro |
| Inertial sensor, `gyro.cpp` | setup stage, quaternion, integrated motion | `setup`, `update` | telemetry |
| Battery, `battery.cpp` | smoothed voltage, status | `setup`, `update` | telemetry |
| Status LED, `drone.cpp` | pattern | `updateLEDS` | state, `tripped` |
| Platform shim, `platform.cpp`; error list, `error.cpp` | timer emulation; none | | |

What is hard about it, and hardly reached by a test:

* **The interrupt lands between any two statements of `loop()`**: between the stores
  of a setpoint, between idling the motors and storing SAFE, inside a copy of the
  telemetry. Only some of these are masked.
* **Time**: a watchdog polled once per pass races the heartbeat that would have fed
  it; counters of milliseconds wrap; a guard is evaluated and acted upon later.
* **Protocol**: the edge rule, the dwell and the trip each depend on the sequence of
  heartbeats, on two links that share one remembered request.
* **Startup takes commands**: USB packets are dispatched before each stage.
* **Power fails between two bytes of the EEPROM**, under three overlapping layouts.
* **Queues fill**: three queues overwrite their oldest entry, and senders that know nothing
  of each other share two of them.
* **Links damage what they carry**: USB frames are cut short or garbled, radio pings and
  answers are lost.
* **Two clocks**: the receive window of the radio is measured from a reading of the clock
  that is older than what it decides.

What makes each component correct:

* state machine: a state is entered only after its preparation; SAFE is left only
  after the dwell; FAULT_ERROR is final;
* watchdog: an expired link stops outputs within a tick and the vehicle within two
  passes; a repeated request never re-arms;
* setpoint and control tick: one command at a time, nothing from before the entry into
  MAN_FLIGHT; a telemetry frame is one instant;
* motors: monotone in throttle and trim, stopped whenever the guard says so;
* startup: what the tick drives is set up before the tick starts; startup ends;
* gimbal: each servo between the table entries around the setpoint, and in its range;
* USB: only what was sent is acted on, the parser finds the next frame, the newest
  packet is never the one lost, gaps in the numbers mean what the protocol says;
* radio: telemetry in the queue stays fresh and keeps up, the module listens between
  transmissions, a base station that answers is found;
* configuration: RAM and EEPROM agree, upgrades keep the trims, a torn image is
  not believed.

## 2. The modules

    DroneStates ──┬── FlightCore ──┬── FlightMonitor ────┬── MCFlightMonitor
    MotorMix ─────┘       │        └── FlightRefinement ─┴── FlightMonitorProofs
       │                  │                 └── (INSTANCE) LinkFailsafe
       │                  ├── MCFlightCore
       │                  └── FlightCoreProofs (used by FlightMonitorProofs)
       └── MotorSweep ────┬── OutputSweep ── OutputProofs
    GimbalMix ────────────┘
    DroneStates ── Startup ──┬── MCStartup
                             └── StartupProofs
    DroneStates ── ConfigStore ── ConfigRefinement ──┬── MCConfigStore
                                       │             └── ConfigStoreProofs
                                       └── (INSTANCE) ConfigRegister │
                                                         ┌───────────┘
    UsbLink ────┬── MCUsbLink (with Crc16)               │
                └── UsbLinkProofs ───────────────────────┼── SharedFacts
    RadioLink ──┬── RadioLinkProofs ─────────────────────┘
                └── MCRadioLink

**DroneStates**: the states by their wire values (0–4, 10–12, 255: their order
matters), `Armed` (any state at or above READY_ARMED up to AUTO_FLIGHT), `Escalates`
(the moves that need the dwell), `Changes` (the transitions `requestState` makes).

**FlightCore**: the vehicle in `loop()`. `stage` is the service of `loop()` that is
running and `op` its next step; `isr` is the next step of the control tick. A service
is cut wherever an interrupt can land and make a difference:

| Code | Steps |
|---|---|
| `heartbeat()` | `Heartbeat` feeds the watchdog; `Decide` applies the edge rule, the dwell, and begins `requestState` |
| `requestState(SAFE)` | guard evaluated, then `IdleBottom`, `IdleTop`, `IdleSpeeds`, `DateSafe`, `EnterSafe` |
| `requestState(MAN_FLIGHT)` | masked `ZeroBottom`, `ZeroTop`, then unmasked `EnterMan` |
| `requestState(READY_ARMED)` | one store, in `Decide` |
| `serviceWatchdog()` | `ServiceWatchdog`, which goes on with `requestState(SAFE)` |
| `setTarget()` | masked `Command`, `StoreGimbal`, `StoreBottom`, `StoreTop` |
| `getTelemetry()` and the senders | masked `BeginReport`, `CopyState`, `CopyMotors`; `SendReport` |
| `update()` in the tick | `BeginTick`, `SetTopServo`, `SetBotServo`, `GuardMotors`, `DriveMotors`, `RecordTelemetry` |

`loop()` does not move while a tick runs (`At` requires `isr = "idle"`), a tick does not
begin while `masked`, and milliseconds (`Tick`) pass in either. `gimbalX`/`gimbalY` are
one value and the interpolation that maps it to angles is a constant function into
60..120: no property of this module tells them apart, and GimbalMix has them. A local variable of the code (`request`, `permit`,
`isrPermit`, `snapshot`) is reset when it goes out of scope.

**MotorMix**: the arithmetic of `setMotor()`, exact: trim, clamp, idle test, scale.
**MotorSweep** walks it through all throttles and trims.

**GimbalMix**: the arithmetic of `Gimbal::set()` and the two servo setters: clamp, cell,
interpolation along the row and between rows, trim, cut to an int, range. The tables are
those of the code, rounded to thousandths of a degree; fractions are kept exact by
counting in 25ths of a cell. **OutputSweep** moves one motor through all throttles and trims,
and from its rest the gimbal through its setpoints.

**FlightMonitor**: FlightCore with history variables that only observe: since when
output has not been permitted, whether a throttle was commanded in this flight,
what each link requested last, and how long ago the vehicle's stay in SAFE was dated (`safeEntryMs`).

**LinkFailsafe**: the abstract promise. Four variables (the state, the accepted
request, the alarm, whether the dwell is over) and three actions: a changed request is
accepted unless it escalates too early; the failsafe trips; time passes.
**FlightRefinement** maps FlightCore to it: in the middle of `requestState()` the
vehicle counts as being in the state it is entering.

**Startup**: `startup()` pass by pass: a packet, then the stage of the current state.
Radio and gyro setup have one action per outcome. Heartbeats and RadioEnabled/GyroEnabled
changes arrive between stages, and from the radio in FAULT_ERROR. Stage RESET2 looks at the clock twice: `ReleaseReset`
drives the reset line low (it is active high) and, at step `recheck`, `FinishReset` goes on if the time to recover is over
too; milliseconds may pass between the two.

**ConfigStore**: RAM copy and EEPROM image, byte by byte, as version 1, 2 and 3 lay
them out, with the byte sum of `checksum()`. `LoadCurrent` and `LoadOther` are `load()`;
`Change` is `setBatch()` (of one update: `set()`); each `EEPROM.put` is whole or cut short
after any byte. The history variable `genuine` holds the configurations a boot may
rightly find.

**ConfigRegister**: the abstract promise. A register that is written out of flight only, keeps its value
while the vehicle is off and gives it back at every boot; a write that the power interrupts
leaves some one configuration of accepted values. **ConfigRefinement** maps ConfigStore to it:
while the vehicle is off, the value is what `load()` would find in the image (`Found`).

**UsbLink**: `USB::update()` and what the rest of `loop()` sends. `ParseByte` is one turn of the
receive loop, byte by byte, with real header checks and CRC (**Crc16**); `ReadFrame` and
`ReadDamage` feed it whole frames and what is left of damaged ones. `Serve` is the rest of `update()`:
one frame written if the port has room for all of it, one packet acted on and answered.
`SendTelemetry`, `RadioRelay` and `SendText` are the other senders. Received packets are bytes;
of a message to be sent only the length and the number are kept. History variables hold the
last packet accepted, the number last written, and how many whole frames in a row were missed. `Begun` is what the
parser has taken of a frame, as bytes: the only part of the past that what it accepts next depends on.
What a packet does to the vehicle is FlightCore's, Startup's and ConfigStore's.

**RadioLink**: a pass of `loop()` as far as the radio is concerned. `LinkAndReply` is `updateLink()` and what
`sendMessage()` queues in the same call; `Receive...` are the outcomes of the receive step; `Wait`,
`NothingToSend` and `Transmit` the transmit step; `Report` the seven status packets. Milliseconds pass between any of
them, and `late` is how old the reading of the clock that `update()` works with has become. The radio's driver is
the environment, modelled from how `update()` uses it: `available()` and `recv()` set the module to receive and take the packet
the driver holds (`Poll`, `Holds`); a packet that arrives leaves the module idle until the next poll (`RxDone`), and one that was
not taken gives way to the next; the end of a transmission leaves it idle too (`TxDone`). So is
the base station (`heard`: it has a ping to answer). `age` counts the reports queued after a packet, `excused` how long the
packets received since the last transmission may have kept the module from listening.

| Code | Steps of RadioLink |
|---|---|
| `update()`, radio off or not set up | `Unserviced` |
| `updateLink()`, receive step | `ReceiveNothing`, `ReceiveBad`, `ReceiveAck`, `ReceiveConfig` |
| transmit step | `Wait`, `NothingToSend`, `Transmit` |
| `USB::update()`, telemetry branch of `loop()` | `NoReport`, `Report` |

`*Proofs` hold the theorems, SharedFacts the lemmas that several of them cite: on `Circular_Buffer`, on the bytes
of a word, and induction over a set of numbers. The `MC*` modules give the constants their values.

Definitions named after a definition with a suffix and marked "Mutant" are what a
plausible bug in that code would be; each property of a passing run is violated when
its mutant takes the place of the original (`mutants` in `PROJECT.json`).

## 3. The runs

| Run | Properties | What it shows |
|---|---|---|
| `FlightCore_all` | `TypeOK`, `NoTornSetpoint`, `TripDeadline`, `FrameCoherent`, `LinkLossDisarms` (liveness) | a command that differs from the initial setpoint in every field, clamping trims, a wrapping counter; when heartbeats stop the vehicle comes to rest in SAFE, motors stopped |
| `FlightMonitor_onelink` | `MotorsFailClosed`, `NoStaleThrottle`, `UnchangedRequestStaysSafe`, `DwellServed`, `ImplementsFailsafe` | with one dashboard, the failsafe keeps its promise in each of its parts and as a refinement |
| `OutputSweep_all` | `TypeOK`, `WithinTableCell`, `PulseMonotone` | all 65536 pairs of throttle and trim; all setpoints of whole degrees and both ends of the int16, under sixteen pairs of servo trims |
| `Startup_all` | `TypeOK`, `TimerLast`, `ResetServed`, `EarlyBootHarmless`, `FaultIsFinal`, `BootEnds` (liveness) | any request, any switching of peripherals, at any moment of startup |
| `ConfigStore_all` | `TypeOK`, `StoreMatchesRam`, `SurvivesRestart`, `LoadedIsGenuine`, `ImplementsRegister` | three layouts, upgrades, changes of one value, power lost at any byte, repeatedly |
| `UsbLink_all` | `TypeOK`, `OnlySentAccepted`, `WholeFramesOnly`, `Resyncs`, `PayloadInBounds`, `NewestKept`, `SkipsAreDisplaced`, `ConfigWithinFrame`, `HeadFits`, `InStepDelivers` | five frames and eleven damaged ones in any order, full queues, a busy port |
| `RadioLink_all` | `TypeOK`, `QueueFresh`, `KeepsUp`, `ListensBetween`, `Connects` (liveness) | pings and answers lost, any number of packets arriving while the module listens, CONFIG requests, packets of a wrong length, the radio switched on and off in any pass |
| `Startup_safe` | `BootComplete` **violated** | finding 1 |
| `FlightMonitor_release` | `TripHoldsUntilRelease` **violated** | finding 2 |
| `FlightCore_safestop` | `SafeMeansStopped` **violated** | finding 3 |
| `ConfigStore_torn` | `LoadedIsGenuine` **violated** | finding 4 |
| `RadioLink_unfitted` | `OnlyFitted` **violated** | finding 5 |

### Bounds

* `CommTimeout` (100 ms in the code), `Dwell` (500 ms), `Wrap` (2^32): 1–3 ms and 4–8.
  Nothing in the code depends on their size, only on their order, which
  `CoreAssumptions` states: `CommTimeout + 2 * LoopMax < Wrap`. In the runs the
  counters wrap all the time, which in flight hours they do not.
* `LoopMax`: how many milliseconds one pass of `loop()` may take. Nothing in the code
  enforces it; the runs use 1 (2 in `FlightCore_safestop`), which lets a millisecond
  fall between any two steps. `TripDeadline` is proved for every value.
* `Tick` also waits for the previous tick to have started (`~due`): two control
  interrupts are never pending at once. The hardware would drop the second.
* `PassMax` in Startup: 2 ms per pass, against thresholds of 3 and 8 (10 and 20 in the
  code), so that a pass can overshoot either threshold and the time to recover is still more than two passes.
* `Requests`: the states that can be entered, AUTO_FLIGHT (refused) in the
  monitor runs, every state in `Startup_all`. `Commands`: one, which differs in every field from the
  setpoint at power-on, one of those the vehicle may start with (the other is the command itself, as a COMMAND is taken
  during startup too), so that a mix of the two can be told from
  both; the proofs cover every set of commands. `MotorTrim`: the ends of what a
  CONFIG packet can set, which drive both clamps.
* One link in the runs (`Links = {"radio"}`): the two are treated alike, except in the rule
  that section 5 discusses.
* ConfigStore: two vehicles (every field off its default; one with skewed trims),
  under each of the three layouts and erased; six updates. Power losses are unbounded
  in number.
* OutputSweep: setpoints in steps of a degree, a fifth of a cell, and -32768 and 32767, which
  the clamp has to bring back; servo trims 60, 89, 90 and 120, the ends of their range and the defaults.
* UsbLink: queues of 2 (16 in the code) and numbers modulo 3 (2^16), so that both overflow and
  wrap at once; up to 2 entries in a CONFIG packet (9). The frames are one of each type, a COMMAND whose
  payload holds both sync bytes and a version, and a SET whose count is 128 too large. The damage:
  a frame cut in its sync bytes, header, payload and CRC, a header that promises the longest payload, and
  a flipped bit in type, length and payload. `MaxGarbage = 0`: damage starts while the parser
  holds no unfinished frame, so it does not pile up; frames behind it may be swallowed.
* RadioLink: a queue of 3 with 1 status packet per report (16 and 7), a window of 4 ms and a
  report every 10 (10 and 100). `RoomAssumption` states what the real numbers have in common with these:
  a report, a ping and a reply fit the queue, and a report and a ping are sent between two reports, with
  `Spacing` between two transmissions. `PassMax = 1`: a pass takes up to one millisecond. `AirMax = 0`: a packet of
  eight bytes is on the air for less than one. That leaves
  one millisecond of listening in each window that receives nothing, which `ListensBetween` asks for; a packet received may
  take all of it. `ListensBetween` is proved for longer windows, packets that each take their two passes of them, and transmissions that take time.
* The motor trims are a constant of FlightCore: a change is refused in MAN_FLIGHT and
  the trims matter nowhere else.

### Fairness

`FlightCore!Fairness` is that of the processor alone. `loop()` always goes on
(`WF LoopStep`: no service blocks). SysTick and a pending control interrupt are
taken although masked sections disable them again and again (`SF`: each such section is
a few stores long and ends). Nothing is assumed of the links: no packet need ever
arrive. `LinkLossDisarms` assumes that heartbeats stop, not that anything else does;
COMMAND packets may go on. In Startup, time passes (`WF Tick`) and
`setup()` calls `startup()` again for as long as it returns false (`WF Pass`); radio and gyro may answer or
fail, and packets need not come.

In RadioLink the loop and the clock go on and a transmission ends (`WF`). A base
station that hears pings over and over cannot have every answer lost (`SF AnswerArrives`: an answer comes while the module listens, and no other packet takes its
place before it is polled); single answers,
and any number of pings, may be. `Connects` further supposes what nothing in
the code ensures: that from some time on the radio stays switched on and no CONFIG requests or packets of a wrong length
arrive (the first may displace every ping, the second keep `update()` from transmitting).

## 4. The proofs

Every theorem is checked by TLAPS from the named assumptions on the constants of its module
(`CoreAssumptions`, `RadioAssumptions`, ...), for every value of them. Every inductive invariant was
first checked by TLC on the run of its module.

| Theorem | States | Invariant it needs |
|---|---|---|
| **FlightCoreProofs** | | |
| `TypeCorrect` | `Spec => []TypeOK` | inductive |
| `SetpointWhole` | `Spec => []NoTornSetpoint` | `PlaceInv`, `SetpointInv` |
| `FramesCoherent` | `Spec => []FrameCoherent` | `PlaceInv`, `FrameInv` |
| `TripInTime` | `Spec => []TripDeadline` | `DeadlineInv` |
| **FlightMonitorProofs** | | |
| `GuardsFailClosed` | `MonitorSpec => []MotorsFailClosed` | `GuardInv` |
| `ThrottleIsFresh` | `MonitorSpec => []NoStaleThrottle` | `PlaceInv`, `ThrottleInv` |
| `DwellIsServed` | `MonitorSpec => []DwellServed` | `DwellInv` |
| `OneLinkStaysSafe` | `MonitorSpec => []UnchangedRequestStaysSafe`, for one link | `EdgeInv` |
| `FailsafeImplemented` | `Spec => ImplementsFailsafe` | `RequestInv`, `PlaceInv` |
| **OutputProofs** | | |
| `ThrottleMonotone` | `Spec => PulseMonotone` | ranges |
| `SweepMonotone` | `SweepSpec => PulseMonotone` | `SweepSpec => Spec` |
| `ServosInRange` | `SweepSpec => []TypeOK` | `SweepInv` |
| `ServosFollowTables` | `SweepSpec => []WithinTableCell` | `SweepInv` |
| **StartupProofs** | | |
| `StartupTyped` | `Spec => []TypeOK` | inductive |
| `ControlInterruptLast` | `Spec => []TimerLast` | `TimerInv` |
| `DwellCoversBoot` | `Spec => []EarlyBootHarmless` | inductive with `TypeOK` |
| `ResetLongEnough` | `Spec => []ResetServed` | `ResetInv` |
| `FaultStays` | `Spec => FaultIsFinal` | `FinishedSafe` |
| **RadioLinkProofs** | | |
| `RadioTyped` | `Spec => []TypeOK` | `ClockInv` |
| `QueueStaysFresh` | `Spec => []QueueFresh` | `AgeInv` |
| `ListensInEachWindow` | `Spec => ListensBetween` | `ListenInv` |
| `QueueKeepsUp` | `Spec => []KeepsUp` | `WindowInv`, `WorkInv` |
| **UsbLinkProofs** | | |
| `UsbTyped` | `Spec => []TypeOK` | `UsbInv` |
| `ParserStaysInPacket` | `Spec => []PayloadInBounds` | `ParserInv` |
| `FreshestCommandKept` | `Spec => []NewestKept` | inductive with `UsbInv` |
| `NumbersTellLoss` | `Spec => []SkipsAreDisplaced` | inductive with `UsbInv` |
| `ConfigReadsItsPayload` | `Spec => []ConfigWithinFrame` | `ReceivedInv` |
| `HeadNeverBlocks` | `Spec => []HeadFits` | `UsbInv` |
| `FramesRoundTrip` | `Spec => InStepDelivers` | inductive `UsbFacts` (`UsbInv` and the invariants above) |
| `AcceptsWholeFrames` | `Spec => []WholeFramesOnly` | `ParserInv`, with `Tracked` over the bytes |
| **ConfigStoreProofs** | | |
| `StoreFollowsRam` | `Spec => []StoreMatchesRam` | `StoreInv` |
| `RestartFindsConfig` | `Spec => SurvivesRestart` | `StoreInv` |
| `StoreTyped` | `Spec => []TypeOK` | `AcceptedInv` |
| `RegisterImplemented` | `Spec => ImplementsRegister` | `AcceptedInv`, `OffInBoot` |

### The vehicle

* `TypeOK` is inductive. Its arithmetic rests on `Advance` (a wrapping counter stays in range)
  and on `PulseType`/`OutputType` (the clamp keeps pulses within what an ESC takes).
* `PlaceInv` says where control can be: a multi-store section is masked, no tick runs while masked,
  each step belongs to the services that reach it. Most of the others need it.
* `NoTornSetpoint` speaks of the tick only; between two stores of `setTarget()` the
  setpoint *is* torn. `SetpointInv` adds how far the stores have come at each of them,
  and that elsewhere the setpoint is whole; with `PlaceInv` no tick runs in between.
* `FrameCoherent` speaks of the copy. `FrameInv` follows it back: the copy's two halves are of one
  recording, the recording of one tick, and a tick whose guard saw MAN_FLIGHT records before
  `loop()` can change the state.
* `TripDeadline` is not inductive: nothing in it says when the watchdog was last
  found fed. `DeadlineInv` does: after the poll of this pass the counter is below the timeout plus
  the time since the pass began, before it below that plus one more pass, and while a
  request is being handled it was fed in this very pass. No value wraps by `CoreAssumptions`.
* `MotorsFailClosed` bounds how old a pulse may be but not which tick sent it. `GuardInv` counts the
  millisecond boundaries: none while output is permitted, one between a guard and its pulses
  if the next tick is already due, and one more until the next tick takes its guard.
* `NoStaleThrottle` speaks of ticks in MAN_FLIGHT; `ThrottleInv` of the two zeroing stores before
  the entry, and of the one COMMAND store after which only half of the setpoint is zero.
* `DwellServed` compares real time with a state; the code compares a counter that wraps. `DwellInv`: the counter
  is never ahead of the time since the entry into SAFE was dated, unless that is served already, from the date on
  (`Settled`), which comes a step before SAFE is stored.
* `UnchangedRequestStaysSafe` needs that with one link `lastRequested` is that link's last request whenever the vehicle
  is out of SAFE (`EdgeInv`); this is where the hypothesis `Links = {link}` enters, and where two
  dashboards break the property (section 5).
* `FailsafeImplemented` is the refinement: `Init` maps to the abstract `Init`, `Decide` to an accepted request or a
  stutter, `ServiceWatchdog` to a trip or a stutter, `Tick` to the clock, and every other step, of
  `loop()` or of the tick, to a stutter, because `PromisedState` is the state already decided on.

### Motors and gimbal

The sweep itself only keeps setpoints and trims in their ranges (`SweepInv`); the rest is arithmetic. The gain over the run
is in the trims: every set of them a CONFIG packet can set, where the run takes sixteen pairs. The
setpoints are those of GimbalMix, in whole degrees and the ends of the int16; no proof speaks of the fractions between
(TLC's integers are too small for a model that has them).

* `SweepMonotone`: a step of the sweep that moves the gimbal leaves the motor alone, so a behaviour of the sweep is one of
  MotorSweep.
* `ThrottleMonotone`: multiplying by 667 and dividing by 255 keeps the order (`ScaleMonotone`), and so do trim and clamp.
* `WithinTableCell` finds the entries around a setpoint by distance, the code by dividing.
  `EnclosingLower` and `EnclosingUpper` join the two: an entry that has weight in the
  interpolation is one that encloses the setpoint, at the closed end of the last cell too.
* `Between`: what is interpolated between two values lies between them; `InterpolatedBetween` applies it along
  both rows and then across them. `CommandedMonotone`: trim, cut and limit keep the order, and end in 60..120.
* `Extremes`: a set of at most four numbers has the least and the greatest that `Min` and `Max` name.

### Startup

`TimerInv` says what each stage may take for granted of the earlier ones, and that the timer runs only once `startup()` is
through: READY_ARMED out of a heartbeat cannot lead back to a stage. `ResetInv` relates the
clocks of the reset: `setupTimer` starts as the line goes high, so that a line driven low was high for the whole first threshold;
a line that is still high when a pass looks for the second time was found so at most one pass ago, and the line has been low as long as
`setupTimer` has run, less the first threshold and two passes: the one before the look that released it and the one of that look
(`ResetSlack`). `FinishedSafe` says
`startup()` returns in SAFE only, so that FAULT_ERROR is never behind it.

### Radio

* `ClockInv`: the reading of the clock that `update()` works with is no older than the pass; a transmission is over soon.
* `QueueFresh` limits an age by the size of the queue. `AgeInv` is the reason: behind a packet that has seen *n* reports
  wait at least *n* reports, since whatever displaces one of theirs has displaced the packet itself before.
* `ListensBetween` speaks of the moment of a transmission. `ListenInv` follows the time since the last one through the passes:
  its end is noticed by the pass after, and from there on the module listens, except between a packet's arrival and the next
  poll. `Listened` is the time it did, and two passes for each packet; `sinceTx` is never ahead of it by more than the air time
  and the passes between.
* `KeepsUp` is a backlog argument. `UntilSent` is how long it may be until the next transmission and `Work` how long until the queue
  is empty, `Spacing` for each further packet. `WindowInv` says that a pass that finds a packet waiting sends
  it or finds the window open by a millisecond at least, so that `Work` falls with time. `WorkInv` bounds it by what one
  report and one ping bring, less the time since the later of them; by `RoomAssumption` it has come to nothing for either
  before the same comes again. Where the base station has answered there are no more pings, and the last
  one is told apart. Only this theorem uses `RoomAssumption`.

### USB

* `ParserInv` says what the bytes kept in each state of the parser are: a header in the making, a header that passed
  `isValidRxHeader` and less payload than it announces, or all of it. The rest of `TypeOK` (what is accepted is a packet)
  and `PayloadInBounds` (`temp_rx_pkt` is never overrun) follow. It takes nothing for granted of
  what arrives: `Damage` is any set of sequences of bytes.
* `Parse` goes over the bytes of an item with a recursive function. That such a function exists, and that each of its values
  is `ParserInv`-true, is an induction over the number of bytes (`SetInduction`, from the induction theorem for
  well-founded relations on sets, `RunExists`, `ParseRuns`).
* `SkipsAreDisplaced` is inductive as it stands; the proof is arithmetic modulo `PacketWrap` of three numbers
  (next, head of the queue, last on the wire), for a depth below the modulus.
* `ConfigWithinFrame` needs that a packet waiting has passed the header check: with a payload of less than
  three bytes there would be no count to read.
* `InStepDelivers` follows one frame through the parser. `FrameParts` says which byte is where, `WithinStep` that after k bytes
  of header and payload the parser holds just these and is in the state their number asks for (`Within`); by induction
  over k it reaches the CRC with the whole of them, compares it with the CRC of the same bytes, and takes out the packet
  that was put in (`FrameParsed`). `EnqueueFacts` makes it the last one waiting.
* `WholeFramesOnly` is about whatever comes between frames, truncated and garbled ones included: it says what the parser can be made
  to accept. `Tracked` says the stream, up to some byte, ends with `Begun`; a byte extends `Begun`, or begins it anew, or ends it
  (`BegunStep`), so that by induction over the bytes of an item it stays so (`TrackedStep`, `ParseStands`), and the byte that completes a frame
  finds all of it there (`CompletesStands`). What is accepted and was not sent is therefore what damage made a frame with the right CRC of.
* `CrcIsWord` is all that is assumed of the CRC: it fits two bytes.

### Configuration

* `StoreInv` adds to `StoreMatchesRam` what holds while the vehicle is off: unless a put was cut short, a boot takes from the
  image the one genuine configuration (`Loads`). Whatever happened, the EEPROM is twenty bytes and the RAM
  copy is one that the fields of an image can hold (`Holdable`), which is more than `Configs::apply` accepts.
* `AcceptedInv` closes that gap, and `TypeOK` follows: whatever images the power failures mixed, what a boot takes from the result
  `apply()` would accept. Being accepted is a matter of each byte by itself: the trims of the
  motors are one byte each, and those of the gimbal, stored in two, never exceed 120, so that their upper byte is
  always zero (`FieldValues`). Mixing images of version 3 is therefore harmless to the ranges
  even where the byte sum happens to be right, as in finding 4 (`Fit`, `MixedIsFit`, `FitIsAccepted`).
  Over an erased EEPROM or an older layout the byte that version 3 added is still erased when the put is cut short, and what
  the other bytes can add up to is never the checksum that stands there (`Lost`, `TornIsLost`, `LostStaysLost`, `NothingInLost`);
  until the first put such an image is as its version wrote it (`Untouched`). So the mixture of two layouts is never believed, with no assumption on
  which owners or updates there are.
* `RegisterImplemented` is the refinement. Off, the register holds what a boot would find (`Kept`), which
  `FoundAccepted` says is accepted. A put, whole or cut short, is a write or a tear; `LoadCurrent` and a migration that comes through
  are boots that leave the value alone; switching off leaves it alone because the image of the configuration in use
  reads back as it (`StoredLoads`); a batch without effect is a stutter (`UnchangedIsSame`).
* Two round trips carry it. `StoredFacts`, `StoredV2Facts`, `StoredV1Facts`: what a version wrote, `load()` reads back, field
  by field, trims in two's complement included. `LoadedFacts`: a sound image of the present version is, byte for
  byte, the one `save()` would write for what it says, its checksum included (`ChecksumOfLayout`), so that
  `load()` need not save it.
* `ByteSum` and `Applied` are recursive functions over a sequence. That they exist, and stay in the set their
  steps stay in, is `Recursion`, an induction over a set of numbers; `Agreement` makes two with the same
  steps equal. `AppliedFacts`: a batch of which no update changed anything, however many were refused, leaves the
  configuration, and with it the image, as it was.

### Model-checked only

* Liveness: `LinkLossDisarms`, `BootEnds`, `Connects`. The prover does not reason about fairness.
* `OnlySentAccepted` and `Resyncs`: they depend on the values of the CRC and on which damage occurs. They are false for
  some damage (a forged frame; sixty bytes that look like a header), and no assumption in the
  style of `CrcIsWord` says what the damage in the run has. `WholeFramesOnly` is the part of the first that holds for all damage.
* `LoadedIsGenuine` of ConfigStore: it depends on which torn images of version 3 the byte sum tells apart, and so on the
  updates of the run; finding 4 shows others.


## 5. Findings and observations

Each finding is a run with a counterexample.

1. **SAFE during startup** (`Startup_safe`). `startup()` returns true whenever the state is SAFE
   at the end of a pass (`drone.cpp:422`), and a heartbeat requesting SAFE sets it in the first
   pass. `loop()` then runs with nothing set up and no control timer.
2. **A trip is not released by SAFE only** (`FlightMonitor_release`). After a trip in
   MAN_FLIGHT a request for READY_ARMED is an edge too, and is accepted once the dwell is
   over, with `tripped` still latched; `README.md:163` says SAFE has to be requested first.
3. **SAFE begins with motors running** (`FlightCore_safestop`). `requestState(SAFE)` idles the ESCs and
   stores the state afterwards, unmasked; a tick between the two drives them again, until the
   next tick.
4. **A torn image with the right sum** (`ConfigStore_torn`). A batch whose last changes cancel in the
   byte sum, cut short between them, leaves a configuration that nobody set and `load()` believes.
5. **A module that was never set up** (`RadioLink_unfitted`). With RadioEnabled 0 at boot `setup()` ends in DISABLED
   before it touches the SPI bus, but `setupComplete()` is true of DISABLED (`radio.cpp:219`): once a
   CONFIG packet sets RadioEnabled to 1, `update()` polls the module, which `radio.h:27-31` says it must stay away from.

The models also show the following; they have no run of their own because they follow from
changing a constant, or from a definition as it stands.

* With two dashboards (`Links = {"radio", "usb"}`) `UnchangedRequestStaysSafe` fails: the
  links share one `lastRequested` (`drone.cpp:593`), so two links that each repeat their own
  request make an edge of every heartbeat. `dashboard-protocol.md:313-318` warns of it.
* A heartbeat that arrives after the timeout but before `serviceWatchdog()` polls it
  cancels the expiry: outputs stopped meanwhile, but there is no trip
  (`drone.cpp:584`, `LinkFailsafe!Trip` need not happen).
* The dwell is measured from `safeEntryMs`, which `requestState(SAFE)` sets before it stores SAFE, unmasked
  (`drone.cpp:656-657`): the time with SAFE stored may be shorter than the dwell by the milliseconds that begin between the two
  (`DateSafe`, `EnterSafe`).
* Out of the SAFE that startup ends in the dwell is measured from power-on, because
  `CONTROL_SETUP` does not set `safeEntryMs` (`drone.cpp:391`); hence `bootSafe` in `DwellServed`.
* READY_ARMED requested during startup leaves `startup()` in a state it has no stage for
  (`NoStage`): it never returns true and `serviceWatchdog()` never runs; hence the third
  alternative of `BootEnds`.
* The idle test of `setMotor()` is on the throttle before the trim and telemetry reports
  it after (`motor.cpp:63-81`): at throttle zero with a positive trim a stopped motor is
  reported running, and a negative trim reports 0 of one that runs at its slowest.
* A migration interrupted by a power loss leaves an image of neither layout; the boot
  falls back to the defaults and the trims are gone (`LoadedIsGenuine` admits the defaults).
* Nothing leaves CONNECTED (`radio.cpp:192`): after a dropout no ping is sent, although
  `radio.cpp:181-182` and `README.md:183` say such a link is retried. Traffic goes on as before, as nothing is
  gated by the link state. By default the handshake is skipped (`configs.cpp:93`) and no ping is ever sent.
* RadioEnabled set to 0 on a vehicle that booted with the radio stops `update()` but not
  `sendMessage()`, which looks at `setupState` only: the queue fills and counts a drop per packet, what
  `radio.cpp:339-341` sets out to avoid. `QueueFresh` still holds: what is sent on switching on again is recent.
* CONFIG requests, one per pass, displace pings and status packets from the queue; packets of a wrong length, one per pass,
  keep `update()` from transmitting at all (`radio.cpp:256`). `KeepsUp` and `Connects` exclude both.
* A pass of `loop()` longer than a window leaves less or no listening between two transmissions: the window runs
  from a reading of the clock that is older than the transmission by as much. `MinListen` is what remains; less
  than three passes of slack is refuted by the run. Each packet received costs up to two passes more, as the driver leaves the module
  idle until it is polled (`radio.cpp:226`); a window in which packets keep coming may end with the module idle.
* Two transmissions are up to a window less a millisecond and two passes of `loop()` apart (`Spacing`): the window may be
  open by one more millisecond when a pass looks. With the numbers of the code `RoomAssumption`, which is
  `(7 + 1) * (10 - 1 + 2 * PassMax) <= 100`, allows a pass one millisecond. With slower passes a report may still be queued
  when the next comes; the queue of 16 has room for that, `KeepsUp` is then not guaranteed. Taking a window and one pass for
  the distance, as one would at first, is refuted by TLC (windows of 7, passes of 2, one status packet, a report every 18).
* The newest *frame* is never lost, but the newest heartbeat is, if 16 frames of other types come behind it
  before `loop()` gets to it.
* A damaged header that passes its length check makes the parser swallow up to 59 bytes of the frames
  behind it; `ResyncBound` is how many frames that can be. A sync byte in the place of the version is not
  looked at again as the first byte of a frame (`usb.cpp:325`), so a frame right behind two sync bytes is lost.
* The counts n and n + 128 of a CONFIG packet have the same expected length in a byte
  (`usb.cpp:563`); the limit on the count refuses the larger (`ConfigWithinFrame`).
* Neighbouring entries of the gimbal's tables are up to 40 degrees apart: at yaw 20 the
  top servo goes from 16.95 at pitch -5 to -23.02 at pitch 0, and at pitch 20 the bottom servo from 21.36 at yaw 0 to
  -16.27 at yaw -5. In the quadrants where pitch and yaw have opposite signs the entries do not continue
  those beside them; the code transcribes `docs/ServoLookupTable.csv` exactly.
* Several statements of `dashboard-protocol.md` describe earlier code: a COMMAND that falls through to the CONFIG handler
  (87-90), RAW frames dropped by the dispatcher (64-65), inbound SETUP ignored (231), the radio's
  CONFIG replies (281-289).

## 6. What is not modelled

* Loop timing statistics and the sensor fields of the telemetry. The control tick may read a quaternion of which
  `Gyro::update()` has stored two of four components (`gyro.cpp:177`; `drone.cpp:465-469` says so); nothing
  but the display depends on it. The times of the ticks (`drone.cpp:89`) are only reported.
* `Gyro::update` and `Battery::update`: floating-point integration and smoothing, out of TLC's reach;
  the battery has no pin (`BATTERY_PIN` is -1).
* Status LED: a function of state, `tripped` and time that nothing reads.
* `platform.cpp` (bench-target timers) and `error.cpp` (commented out).
* Called from nowhere: `restoreDefaults()` and `mutableGet()`; `Gimbal::selfTest()` and `zero()`;
  `Radio::handleSetup()`, `getMessage()` and the radio's `rxBuffer`.
* RSSI smoothing, fixed-point conversion of reported values, wording of debug text and layout of packets.
* `txDropped` and `rxDropped` as numbers: nothing reads them (`lost` and `displaced` note what they count).
* The radio's own CRC and retransmission, the RFM69 and the USB hardware: external; a radio packet arrives
  whole, with a wrong length, or not at all.

## 7. The plan

Done, in this order because the first carries the safety of the vehicle: FlightCore with
its proofs, MotorMix, FlightMonitor, LinkFailsafe and the refinement, Startup, ConfigStore;
then the links and the gimbal: UsbLink with Crc16, RadioLink, GimbalMix and OutputSweep; then the proofs
about the observer, the refinement, Startup, both links, the configuration store and the outputs; last ConfigRegister with its
refinement, that torn images are harmless (`StoreTyped`), the round trip of a USB frame, and that the parser accepts whole frames only.

Left: `OnlySentAccepted` of UsbLink from `WholeFramesOnly` and an assumption that says which of it the CRC detects.

Abstract specifications: LinkFailsafe and ConfigRegister. A register that a power loss leaves old, new or
reset would be a stronger promise than ConfigRegister; it is what `genuine` and `LoadedIsGenuine` stand for, and finding 4
shows that the code does not keep it for every batch.
