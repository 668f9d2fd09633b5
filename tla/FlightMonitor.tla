---------------------------- MODULE FlightMonitor ----------------------------
(***************************************************************************)
(* FlightCore beside an observer: history variables that remember what the *)
(* code forgets, so that what a step may do can be related to what         *)
(* happened earlier.  The observer constrains nothing: every behaviour of  *)
(* FlightCore is a behaviour of this module and the other way round.       *)
(***************************************************************************)
EXTENDS FlightCore

VARIABLES
    stoppedMs,  \* millisecond boundaries since motor output was permitted, to 3
    ownThrottle,\* a COMMAND has arrived since MAN_FLIGHT was entered
    level,      \* the last state each link requested
    steady,     \* since the last trip no link has changed what it requests
    safeMs,     \* milliseconds of the last stay in SAFE, as it is dated, up to Dwell
    bootSafe    \* SAFE has not been entered since startup ended in it

historyVars == <<stoppedMs, ownThrottle, level, steady, safeMs, bootSafe>>
monitorVars == <<vars, historyVars>>

MonitorInit ==
    /\ Init
    /\ stoppedMs = 3
    /\ ownThrottle = FALSE
    /\ level = [l \in Links |-> BOOT]
    /\ steady = FALSE
    /\ safeMs = 0
    /\ bootSafe = TRUE

UpTo(bound, n) == IF n > bound THEN bound ELSE n

\* What the step that is being taken is.
MsPasses == passMs' = passMs + 1
Arrives == op = "poll" /\ op' = "decide"
Trips == op = "poll" /\ stage = "watchdog" /\ op' = "idleBottom"
EntersMan == currentState # MAN_FLIGHT /\ currentState' = MAN_FLIGHT

\* The vehicle is in SAFE, or its entry is dated and only the store of the state
\* is still to come.
Settled == currentState = SAFE \/ op = "enterSafe"
Settles == ~Settled /\ Settled'

Observe ==
    /\ stoppedMs' = IF MotorsPermitted' THEN 0
                    ELSE IF MsPasses THEN UpTo(3, stoppedMs + 1) ELSE stoppedMs
    /\ ownThrottle' = ((ownThrottle /\ ~EntersMan) \/ op = "storeTop")
    /\ level' = IF Arrives THEN [level EXCEPT ![stage] = request'] ELSE level
    /\ steady' = IF Trips THEN TRUE
                 ELSE steady /\ (Arrives => level[stage] = request')
    /\ safeMs' = IF Settles THEN 0
                 ELSE IF MsPasses /\ Settled THEN UpTo(Dwell, safeMs + 1)
                 ELSE safeMs
    /\ bootSafe' = (bootSafe /\ ~Settles)

MonitorNext == Next /\ Observe

MonitorSpec == MonitorInit /\ [][MonitorNext]_monitorVars

-----------------------------------------------------------------------------
\* The steps of requestState(SAFE) that are still to come.
DroppingToSafe == op \in {"idleBottom", "idleTop", "idleSpeeds", "dateSafe", "enterSafe"}

\* Actuator guards fail closed (dashboard-protocol.md:341): an ESC is sent
\* anything but the stop pulse only while output is permitted, or until the
\* control tick of the following millisecond has run.  The second boundary is
\* that of a tick during which the millisecond turned.
MotorsFailClosed == esc # Both(ESC_MIN_US) => stoppedMs <= 2

\* A throttle flown in MAN_FLIGHT was commanded in MAN_FLIGHT: whatever was
\* sent before the entry is gone (requestState(), drone.cpp:664).
NoStaleThrottle ==
    isr # "idle" /\ currentState = MAN_FLIGHT /\ ~ownThrottle =>
        activeTarget.bottom = 0 /\ activeTarget.top = 0

\* The edge rule (drone.cpp:586-592): after a trip the vehicle stays in SAFE
\* for as long as the dashboards go on requesting what they did before it.
UnchangedRequestStaysSafe ==
    steady => currentState = SAFE \/ DroppingToSafe

\* The dwell (drone.cpp:536): out of a SAFE that a request or a trip put it in,
\* the vehicle moves up only after ESCALATE_DWELL_MS of real time, in which it
\* was in SAFE or, at first, had all but the store of the state behind it.  The
\* time with SAFE stored may be shorter by the milliseconds that begin between
\* the two stores (drone.cpp:656-657).
DwellServed == ~Settled /\ ~bootSafe => safeMs >= Dwell

\* README.md:163: "After a trip, the dashboard must request SAFE and then
\* request the flight state again": while the trip is unacknowledged the
\* vehicle is in SAFE.
TripHoldsUntilRelease == tripped => currentState = SAFE \/ DroppingToSafe
=============================================================================
