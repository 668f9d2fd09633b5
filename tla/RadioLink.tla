------------------------------ MODULE RadioLink ------------------------------
(***************************************************************************)
(* The radio link (src/radio.cpp) in loop(): the handshake with the base   *)
(* station, the transmit queue that reports and replies share, and the     *)
(* receive window between transmissions.                                   *)
(*                                                                         *)
(* A pass of loop() runs Radio::update() in two steps (updateLink and one  *)
(* packet received; one packet sent), then lets USB::update() act on a     *)
(* CONFIG packet and queues a report when it is time.  Milliseconds pass   *)
(* between any two steps: update() reads the clock once, at its beginning, *)
(* and `late` is how old that reading is.  The radio module finishes a     *)
(* transmission on its own (TxDone); a packet that arrives takes it out of *)
(* reception (RxDone) until the driver is polled again.                    *)
(*                                                                         *)
(* A packet is a ping or something else; its contents, its header and its  *)
(* copy to USB are left out, as is what a COMMAND or HEARTBEAT does        *)
(* (FlightCore).  Times are compared with one threshold each and counted   *)
(* up to it.                                                               *)
(***************************************************************************)
EXTENDS Integers, Sequences

CONSTANTS
    TX_SIZE,
    RX_WINDOW_MIN,
    LINK_RETRY_MS,
    Interval,       \* telemetryIntervalMs of loop()
    Statuses,       \* status packets in a report (7)
    Configurations, \* the configurations that CONFIG packets set
    PassMax,        \* bound: milliseconds in one pass of loop()
    AirMax          \* bound: milliseconds a transmission takes

Configuration == [radioEnabled : BOOLEAN, skipRadioHandshake : BOOLEAN]

\* The longest that two transmissions are apart while packets wait: the window,
\* still open by a millisecond when a pass looks, the rest of that pass, and all
\* of the next one.
Spacing == RX_WINDOW_MIN - 1 + 2 * PassMax

ASSUME RadioAssumptions ==
    /\ {TX_SIZE, RX_WINDOW_MIN, LINK_RETRY_MS, Interval, Statuses} \subseteq Nat \ {0}
    /\ PassMax \in Nat \ {0} /\ AirMax \in Nat
    /\ Configurations \subseteq Configuration
    /\ AirMax + 3 * PassMax < RX_WINDOW_MIN
    /\ RX_WINDOW_MIN <= Interval

\* What KeepsUp rests on: a report, a ping and a reply fit the queue; a report
\* and a ping are sent between two reports, however the passes lie.
ASSUME RoomAssumption ==
    /\ Interval <= LINK_RETRY_MS
    /\ Statuses + 2 <= TX_SIZE
    /\ (Statuses + 1) * Spacing <= Interval

VARIABLES
    config,       \* radioEnabled and skipRadioHandshake of Configs::get()
    setupState,   \* what Radio::setup() came to
    linkState,
    txBuffer,     \* packets waiting, with the number of reports since each
    sincePing,    \* millis() - lastLinkPingTime while an answer is awaited,
                  \* up to LINK_RETRY_MS
    sinceTx,      \* millis() - lastTxTime, up to Spacing
    sinceReport,  \* millis() - lastTelemetryMs, up to Interval
    mode,         \* the module: radio.mode()
    modeMs,       \* how long it has been transmitting, or listening since the
                  \* last transmission, up to ModeMax
    received,     \* what the driver holds for recv(): "nothing", "ack" or "packet"
    heard,        \* the base station has heard a ping; the vehicle has not taken
                  \* its answer, which may come more than once
    step,         \* loop(): what comes next
    late,         \* update(): millis() - now
    passMs,       \* milliseconds since the pass began
    steady,       \* history: since a transmission that emptied the queue,
                  \* update() has been able to transmit in every pass and
                  \* had no CONFIG request to answer
    lost,         \* history: the queue has displaced packets while steady
    excused       \* history: how long the packets received since the last
                  \* transmission may have kept it from listening, up to MinListen

clockVars == <<sincePing, sinceTx, sinceReport, passMs>>
moduleVars == <<mode, modeMs, received, heard, excused>>
vars == <<config, setupState, linkState, txBuffer, lost, clockVars,
          moduleVars, step, late, steady>>

\* RESET1 stands for every stage of a setup that is not complete.
SetupStates == {"RESET1", "COMPLETE", "DISABLED"}
LinkStates == {"DISCONNECTED", "AWAITING_ACK", "CONNECTED"}

\* What a window leaves of listening after a transmission begun late by one
\* pass and the passes in which its end and the window's end are noticed.
MinListen == RX_WINDOW_MIN - AirMax - 3 * PassMax
ModeMax == IF MinListen > AirMax THEN MinListen ELSE AirMax

OldestAge == (TX_SIZE - 1) \div Statuses

TypeOK ==
    /\ config \in Configuration
    /\ setupState \in SetupStates
    /\ linkState \in LinkStates
    /\ txBuffer \in Seq([ping : BOOLEAN, age : Nat]) /\ Len(txBuffer) <= TX_SIZE
    /\ sincePing \in 0..LINK_RETRY_MS
    /\ sinceTx \in 0..Spacing
    /\ sinceReport \in 0..Interval
    /\ mode \in {"Idle", "Rx", "Tx"}
    /\ modeMs \in 0..ModeMax
    /\ received \in {"nothing", "ack", "packet"}
    /\ heard \in BOOLEAN
    /\ step \in {"link", "transmit", "rest"}
    /\ late \in 0..PassMax /\ passMs \in 0..PassMax
    /\ {steady, lost} \subseteq BOOLEAN
    /\ excused \in 0..MinListen

UpTo(bound, n) == IF n > bound THEN bound ELSE n

-----------------------------------------------------------------------------
\* startup() has returned.  CONFIG packets may have changed the configuration
\* since Radio::setup() looked at it.
Init ==
    /\ config \in Configuration
    /\ setupState \in SetupStates
    /\ linkState = "DISCONNECTED"
    /\ txBuffer = <<>>
    /\ sincePing = LINK_RETRY_MS
    /\ sinceTx = Spacing
    /\ sinceReport \in 0..Interval
    /\ mode = "Idle" /\ modeMs = 0
    /\ received = "nothing" /\ heard = FALSE
    /\ step = "link" /\ late = 0 /\ passMs = 0
    /\ steady = FALSE /\ lost = FALSE /\ excused = 0

-----------------------------------------------------------------------------
(* Time, and the module. *)

Tick ==
    /\ passMs < PassMax
    /\ mode = "Tx" => modeMs < AirMax
    /\ passMs' = passMs + 1
    /\ late' = IF step = "transmit" THEN late + 1 ELSE late
    /\ sincePing' = UpTo(LINK_RETRY_MS, sincePing + 1)
    /\ sinceTx' = UpTo(Spacing, sinceTx + 1)
    /\ sinceReport' = UpTo(Interval, sinceReport + 1)
    /\ modeMs' = IF mode = "Idle" THEN modeMs ELSE UpTo(ModeMax, modeMs + 1)
    /\ UNCHANGED <<config, setupState, linkState, txBuffer, lost, mode, received,
                   heard, step, steady, excused>>

\* A transmission ends.
TxDone ==
    /\ mode = "Tx"
    /\ mode' = "Idle" /\ modeMs' = 0
    /\ UNCHANGED <<config, setupState, linkState, txBuffer, lost, clockVars,
                   received, heard, step, late, steady, excused>>

\* A packet arrives, in place of any that recv() has not taken, and the module
\* is idle until the driver is polled: from one poll to the next is at most two
\* passes.
RxDone(packet) ==
    /\ mode = "Rx" /\ setupState = "COMPLETE"
    /\ mode' = "Idle"
    /\ received' = packet
    /\ packet = "ack" => heard
    /\ excused' = UpTo(MinListen, excused + 2 * PassMax)
    /\ UNCHANGED <<config, setupState, linkState, txBuffer, lost, clockVars,
                   modeMs, heard, step, late, steady>>

-----------------------------------------------------------------------------
(* sendMessage() *)

Ping == [ping |-> TRUE, age |-> 0]
Other == [ping |-> FALSE, age |-> 0]   \* a status packet or a CONFIG reply

\* Mutant: a full queue refuses what comes.
QueuedRefusing(queue, packets) ==
    LET all == queue \o packets
    IN  IF Len(all) <= TX_SIZE THEN all ELSE SubSeq(all, 1, TX_SIZE)

\* Mutant: a full queue grows.
QueuedUnlimited(queue, packets) == queue \o packets

\* Circular_Buffer::push_back, of each packet in turn: a full buffer
\* overwrites its oldest entry.
Queued(queue, packets) ==
    LET all == queue \o packets
    IN  IF Len(all) <= TX_SIZE THEN all
        ELSE SubSeq(all, Len(all) - TX_SIZE + 1, Len(all))

\* What counts in txDropped, which nothing reads, is noted in `lost`.
sendMessages(queue, packets) ==
    IF setupState = "DISABLED"
    THEN UNCHANGED <<txBuffer, lost>>
    ELSE /\ txBuffer' = Queued(queue, packets)
         /\ lost' = (lost \/ (steady /\ Len(queue) + Len(packets) > TX_SIZE))

-----------------------------------------------------------------------------
(* Radio::update() *)

\* The next step; `now` lives until update() returns.
Goto(where) ==
    /\ step' = where
    /\ late' = IF where = "transmit" THEN late ELSE 0

setupComplete == setupState \in {"COMPLETE", "DISABLED"}

\* The radio is switched off, or has not been set up.
Unserviced ==
    /\ step = "link"
    /\ ~config.radioEnabled \/ ~setupComplete
    /\ Goto("rest")
    /\ steady' = FALSE
    /\ UNCHANGED <<config, setupState, linkState, txBuffer, lost, clockVars,
                   moduleVars>>

\* Mutant: a ping is sent once.
PingDueOnce == linkState = "DISCONNECTED"

\* Mutant: a ping is sent in every pass until it is answered.
PingDueAlways == linkState # "CONNECTED"

PingDue ==
    \/ linkState = "DISCONNECTED"
    \/ linkState = "AWAITING_ACK" /\ sincePing >= LINK_RETRY_MS

\* available() and recv(): while it transmits nothing is received, else it
\* listens from here on, and the packet the driver holds is taken.
Poll ==
    /\ IF mode = "Tx" THEN UNCHANGED <<mode, received>>
       ELSE mode' = "Rx" /\ received' = "nothing"
    /\ UNCHANGED <<modeMs, excused>>

Holds(packet) == mode # "Tx" /\ received = packet

\* updateLink() and what the same call of update() then receives: `ack` says
\* whether it is the acknowledgement, `reply` is what update() queues for it.
LinkAndReply(ack, reply) ==
    LET skip == config.skipRadioHandshake
        ping == ~skip /\ PingDue
    IN  /\ step = "link"
        /\ config.radioEnabled /\ setupComplete
        /\ linkState' = IF ack \/ skip THEN "CONNECTED"
                        ELSE IF ping THEN "AWAITING_ACK" ELSE linkState
        /\ sincePing' = IF linkState' = "CONNECTED" THEN LINK_RETRY_MS
                        ELSE IF ping THEN 0 ELSE sincePing
        /\ sendMessages(txBuffer, (IF ping THEN <<Ping>> ELSE <<>>) \o reply)
        /\ Poll

\* Nothing was received, or nothing that matters here.  A ping, or its answer
\* while the module listened, may have been lost.
ReceiveNothing ==
    /\ ~Holds("ack")
    /\ LinkAndReply(FALSE, <<>>)
    /\ heard' \in {heard /\ linkState' # "CONNECTED", heard /\ mode # "Rx"}
    /\ Goto("transmit")
    /\ UNCHANGED <<config, setupState, sinceTx, sinceReport, passMs, steady>>

\* A packet of the wrong length: update() returns.
ReceiveBad ==
    /\ Holds("packet")
    /\ LinkAndReply(FALSE, <<>>)
    /\ Goto("rest")
    /\ steady' = FALSE
    /\ UNCHANGED <<config, setupState, sinceTx, sinceReport, passMs, heard>>

\* The base station answers.
ReceiveAck ==
    /\ Holds("ack")
    /\ LinkAndReply(TRUE, <<>>)
    /\ heard' = FALSE
    /\ Goto("transmit")
    /\ UNCHANGED <<config, setupState, sinceTx, sinceReport, passMs, steady>>

\* handleConfig(): whatever it asks for, and whether or not it changes the
\* configuration, a request is answered.
ReceiveConfig ==
    /\ Holds("packet")
    /\ LinkAndReply(FALSE, <<Other>>)
    /\ config' \in Configurations \union {config}
    /\ Goto("transmit")
    /\ steady' = FALSE
    /\ UNCHANGED <<setupState, sinceTx, sinceReport, passMs, heard>>

\* now - lastTxTime
Elapsed == sinceTx - late

\* Mutant: the window ends a millisecond early.
WindowOpenShort == Elapsed + 1 < RX_WINDOW_MIN

WindowOpen == Elapsed < RX_WINDOW_MIN

\* A transmission is under way, or the window is still open: listen.
Wait ==
    /\ step = "transmit"
    /\ \/ mode = "Tx" /\ UNCHANGED mode
       \/ mode # "Tx" /\ WindowOpen /\ mode' = "Rx"
    /\ Goto("rest")
    /\ UNCHANGED <<config, setupState, linkState, txBuffer, lost, clockVars, modeMs,
                   received, heard, steady, excused>>

NothingToSend ==
    /\ step = "transmit"
    /\ mode # "Tx" /\ ~WindowOpen
    /\ txBuffer = <<>>
    /\ Goto("rest")
    /\ UNCHANGED <<config, setupState, linkState, txBuffer, lost, clockVars,
                   moduleVars, steady>>

Transmit ==
    /\ step = "transmit"
    /\ mode # "Tx" /\ ~WindowOpen
    /\ txBuffer # <<>>
    /\ txBuffer' = Tail(txBuffer)
    /\ mode' = "Tx" /\ modeMs' = 0 /\ excused' = 0
    /\ heard' = (heard \/ (txBuffer[1].ping /\ linkState = "AWAITING_ACK"))
    /\ sinceTx' = late
    /\ Goto("rest")
    /\ steady' = (steady \/ Len(txBuffer) = 1)
    /\ UNCHANGED <<config, setupState, linkState, lost, sincePing,
                   sinceReport, passMs, received>>

-----------------------------------------------------------------------------
(* The rest of loop() *)

\* USB::update() has no CONFIG packet, or one that switches the radio or the
\* handshake on or off.
UsbUpdate == config' \in Configurations \union {config}

EndPass == step' = "link" /\ passMs' = 0

NoReport ==
    /\ step = "rest"
    /\ UsbUpdate
    /\ sinceReport < Interval
    /\ EndPass
    /\ UNCHANGED <<setupState, linkState, txBuffer, lost, sincePing, sinceTx,
                   sinceReport, late, moduleVars, steady>>

\* sendStatus0() to sendStatus6(); all that waits is a report older now.
Report ==
    /\ step = "rest"
    /\ UsbUpdate
    /\ sinceReport >= Interval
    /\ sinceReport' = 0
    /\ sendMessages([i \in DOMAIN txBuffer |-> [txBuffer[i] EXCEPT !.age = @ + 1]],
                    [i \in 1..Statuses |-> Other])
    /\ EndPass
    /\ UNCHANGED <<setupState, linkState, sincePing, sinceTx, late,
                   moduleVars, steady>>

update ==
    \/ Unserviced
    \/ ReceiveNothing \/ ReceiveBad \/ ReceiveAck \/ ReceiveConfig
    \/ Wait \/ NothingToSend \/ Transmit

loop == update \/ NoReport \/ Report

Next ==
    \/ Tick
    \/ TxDone
    \/ \E packet \in {"ack", "packet"} : RxDone(packet)
    \/ loop

Spec == Init /\ [][Next]_vars

\* The answer arrives where no other packet can take its place before recv().
AnswerArrives == RxDone("ack") /\ step # "transmit"

\* loop() and the clock go on, a transmission ends, and a base station whose
\* answers find the module listening again and again cannot always lose them.
FairSpec ==
    /\ Spec
    /\ WF_vars(loop) /\ WF_vars(Tick) /\ WF_vars(TxDone)
    /\ SF_vars(AnswerArrives)

-----------------------------------------------------------------------------
\* Telemetry stays fresh: whatever the queue has displaced, and however long
\* it was not drained, no packet in it is older than the reports that fit in
\* (radio.cpp:345-349: refusing new packets "would leave the dashboard reading
\* a queue that only gets older").
QueueFresh == \A i \in 1..Len(txBuffer) : txBuffer[i].age <= OldestAge

\* While update() can transmit in every pass, the queue keeps up with reports,
\* pings and replies and nothing is displaced: one packet leaves in each window
\* (dashboard-protocol.md:244-246, radio.cpp:304-331).
KeepsUp == ~lost

\* Between two transmissions the module listens for what the window leaves, less
\* two passes for each packet it received and then waited for a poll; and if it
\* received none, it listens up to the transmission.  The window is measured
\* from a clock read before the transmission (radio.cpp:216, 226-230, 305, 330).
ListensBetween ==
    [][mode' = "Tx" /\ mode # "Tx" /\ steady =>
           modeMs + excused >= MinListen /\ (mode = "Rx" \/ excused > 0)]_vars

\* A base station that answers is found in the end, unless the radio is off or
\* packets of a wrong length keep coming: pings that are lost or displaced, or
\* whose answer is lost, are sent again (updateLink(), radio.cpp:196-207).
On == config.radioEnabled /\ setupState = "COMPLETE"
Connects ==
    <>[]On /\ <>[][~ReceiveBad /\ ~ReceiveConfig]_vars => <>(linkState = "CONNECTED")

\* radio.h:27-29: "update() and sendMessage() must stay away from hardware that
\* may not be fitted": update() goes on to the module only if it was set up.
OnlyFitted == step = "transmit" => setupState = "COMPLETE"
=============================================================================
