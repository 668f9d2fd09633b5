--------------------------- MODULE RadioLinkProofs ---------------------------
(***************************************************************************)
(* Proofs about RadioLink for every queue size, window, retry time, report *)
(* interval, pass bound and set of configurations.                         *)
(***************************************************************************)
EXTENDS RadioLink, SharedFacts

QueuedPacket == [ping : BOOLEAN, age : Nat]

\* Multiplication is monotonic, and division its inverse from below.
LEMMA Product ==
    ASSUME NEW a \in Int, NEW b \in Int, NEW c \in Nat
    PROVE  /\ a * c \in Int /\ (a + b) * c = a * c + b * c
           /\ a <= b => a * c <= b * c
           /\ a * c < b * c => a < b
  OBVIOUS

LEMMA Quotient ==
    ASSUME NEW a \in Nat, NEW n \in Nat, NEW d \in Nat \ {0}, a * d <= n
    PROVE  a <= n \div d
  OBVIOUS

\* What the assumptions say of the constants, one bound at a time.
LEMMA Bounds ==
    /\ TX_SIZE \in Nat \ {0} /\ RX_WINDOW_MIN \in Nat \ {0}
    /\ LINK_RETRY_MS \in Nat \ {0} /\ Interval \in Nat \ {0}
    /\ Statuses \in Nat \ {0} /\ PassMax \in Nat \ {0} /\ AirMax \in Nat
    /\ Spacing \in Nat \ {0} /\ RX_WINDOW_MIN + PassMax <= Spacing
    /\ AirMax + 3 * PassMax < RX_WINDOW_MIN
    /\ MinListen \in Nat \ {0} /\ ModeMax \in Nat
    /\ MinListen <= ModeMax /\ AirMax <= ModeMax
    /\ PassMax <= Spacing /\ PassMax < Interval
  BY RadioAssumptions DEF Spacing, MinListen, ModeMax

\* The work a report brings, and the room for it.  Only KeepsUp needs it.
LEMMA WorkBounds ==
    /\ Statuses * Spacing \in Nat /\ Spacing <= Statuses * Spacing
    /\ (Statuses + 1) * Spacing = Statuses * Spacing + Spacing
    /\ Statuses * Spacing + Spacing <= Interval
    /\ Interval <= LINK_RETRY_MS /\ Statuses + 2 <= TX_SIZE
  <1>1. (Statuses + 1) * Spacing = Statuses * Spacing + Spacing
    BY Bounds, Product
  <1>2. Statuses * Spacing \in Nat /\ Spacing <= Statuses * Spacing
    BY Bounds
  <1>3. /\ (Statuses + 1) * Spacing <= Interval
        /\ Interval <= LINK_RETRY_MS /\ Statuses + 2 <= TX_SIZE
    BY RoomAssumption
  <1>4. QED
    BY <1>1, <1>2, <1>3, Bounds

\* A counter that stops at its bound stays within it and never runs back.
LEMMA UpToType ==
    ASSUME NEW bound \in Nat, NEW n \in 0..bound
    PROVE  /\ UpTo(bound, n + 1) \in 0..bound
           /\ n <= UpTo(bound, n + 1) /\ UpTo(bound, n + 1) <= n + 1
           /\ n < bound => UpTo(bound, n + 1) = n + 1
  BY DEF UpTo

-----------------------------------------------------------------------------
(* The transmit queue. *)

\* push_back of several packets keeps the newest, and as many as fit.
LEMMA QueuedFacts ==
    ASSUME NEW T, NEW queue \in Seq(T), NEW packets \in Seq(T)
    PROVE  /\ Queued(queue, packets) \in Seq(T)
           /\ Len(Queued(queue, packets)) <= TX_SIZE
           /\ Len(Queued(queue, packets)) <= Len(queue) + Len(packets)
           /\ Len(queue) + Len(packets) <= TX_SIZE =>
                  Len(Queued(queue, packets)) = Len(queue) + Len(packets)
           /\ Newest(Queued(queue, packets), queue, packets)
  <1>1. Queued(queue, packets) = PushBack(queue, packets, TX_SIZE)
    BY DEF Queued, PushBack
  <1>2. TX_SIZE \in Nat
    BY Bounds
  <1>3. Len(PushBack(queue, packets, TX_SIZE)) =
            IF Len(queue) + Len(packets) <= TX_SIZE THEN Len(queue) + Len(packets)
            ELSE TX_SIZE
    BY <1>2, PushBackFacts
  <1>4. Len(Queued(queue, packets)) =
            IF Len(queue) + Len(packets) <= TX_SIZE THEN Len(queue) + Len(packets)
            ELSE TX_SIZE
    BY <1>1, <1>3
  <1>5. PushBack(queue, packets, TX_SIZE) \in Seq(T)
    BY <1>2, PushBackFacts
  <1>6. Newest(PushBack(queue, packets, TX_SIZE), queue, packets)
    BY <1>2, <1>5, PushBackFacts
  <1>7. QED
    BY <1>1, <1>2, <1>4, <1>5, <1>6, LenProperties

\* What updateLink() and the answer to a packet received send in one pass.
LinkSends(reply) ==
    (IF ~config.skipRadioHandshake /\ PingDue THEN <<Ping>> ELSE <<>>) \o reply

LEMMA OnePacket ==
    ASSUME NEW ping \in BOOLEAN
    PROVE  /\ <<[ping |-> ping, age |-> 0]>> \in Seq(QueuedPacket)
           /\ Len(<<[ping |-> ping, age |-> 0]>>) = 1
           /\ \A i \in 1..1 : <<[ping |-> ping, age |-> 0]>>[i].age = 0
  BY DEF QueuedPacket

LEMMA LinkSendsFacts ==
    ASSUME NEW reply \in {<<>>, <<Other>>}
    PROVE  /\ LinkSends(reply) \in Seq(QueuedPacket)
           /\ Len(LinkSends(reply)) =
                  (IF ~config.skipRadioHandshake /\ PingDue THEN 1 ELSE 0) + Len(reply)
           /\ \A i \in 1..Len(LinkSends(reply)) : LinkSends(reply)[i].age = 0
  <1> DEFINE pings == IF ~config.skipRadioHandshake /\ PingDue THEN <<Ping>> ELSE <<>>
  <1> DEFINE none == <<>>
  <1>0. none \in Seq(QueuedPacket) /\ Len(none) = 0 /\ \A i \in 1..0 : none[i].age = 0
    OBVIOUS
  <1>1. /\ pings \in Seq(QueuedPacket) /\ Len(pings) \in {0, 1}
        /\ Len(pings) = IF ~config.skipRadioHandshake /\ PingDue THEN 1 ELSE 0
        /\ \A i \in 1..Len(pings) : pings[i].age = 0
    <2>1. CASE ~config.skipRadioHandshake /\ PingDue
      <3>1. pings = <<[ping |-> TRUE, age |-> 0]>>
        BY <2>1 DEF Ping
      <3> HIDE DEF pings
      <3>2. QED
        BY <2>1, <3>1, OnePacket
    <2>2. CASE ~(~config.skipRadioHandshake /\ PingDue)
      <3>1. pings = none
        BY <2>2
      <3> HIDE DEF pings, none
      <3>2. QED
        BY <1>0, <2>2, <3>1
    <2>3. QED
      BY <2>1, <2>2
  <1>2. /\ reply \in Seq(QueuedPacket) /\ Len(reply) \in {0, 1}
        /\ \A i \in 1..Len(reply) : reply[i].age = 0
    <2>1. CASE reply = <<Other>>
      <3>1. reply = <<[ping |-> FALSE, age |-> 0]>>
        BY <2>1 DEF Other
      <3>2. QED
        BY <3>1, OnePacket
    <2>2. CASE reply = none
      <3> HIDE DEF none
      <3>1. QED
        BY <1>0, <2>2
    <2>3. QED
      BY <2>1, <2>2
  <1>3. LinkSends(reply) = pings \o reply
    BY DEF LinkSends
  <1> HIDE DEF pings
  <1>4. /\ pings \o reply \in Seq(QueuedPacket)
        /\ Len(pings \o reply) = Len(pings) + Len(reply)
        /\ \A i \in 1..Len(pings) + Len(reply) :
               (pings \o reply)[i] = IF i <= Len(pings) THEN pings[i]
                                     ELSE reply[i - Len(pings)]
    BY <1>1, <1>2, ConcatProperties
  <1>5. \A i \in 1..Len(pings) + Len(reply) : (pings \o reply)[i].age = 0
    BY <1>1, <1>2, <1>4
  <1>6. QED
    BY <1>1, <1>3, <1>4, <1>5

\* The queue when a report is queued, each packet a report older, and the report.
Aged == [i \in DOMAIN txBuffer |-> [txBuffer[i] EXCEPT !.age = @ + 1]]
StatusPackets == [i \in 1..Statuses |-> Other]

LEMMA ReportFacts ==
    ASSUME txBuffer \in Seq(QueuedPacket)
    PROVE  /\ Aged \in Seq(QueuedPacket) /\ Len(Aged) = Len(txBuffer)
           /\ \A i \in 1..Len(txBuffer) : Aged[i].age = txBuffer[i].age + 1
           /\ StatusPackets \in Seq(QueuedPacket) /\ Len(StatusPackets) = Statuses
           /\ \A i \in 1..Statuses : StatusPackets[i].age = 0
  <1>1. /\ Len(txBuffer) \in Nat /\ DOMAIN txBuffer = 1..Len(txBuffer)
        /\ \A i \in 1..Len(txBuffer) : txBuffer[i] \in QueuedPacket
    BY LenProperties, ElementOfSeq
  <1>2. \A i \in 1..Len(txBuffer) :
            /\ Aged[i] \in QueuedPacket
            /\ Aged[i].age = txBuffer[i].age + 1
    BY <1>1 DEF Aged, QueuedPacket
  <1>3. Aged \in [1..Len(txBuffer) -> QueuedPacket]
    BY <1>1, <1>2 DEF Aged
  <1>4. StatusPackets \in [1..Statuses -> QueuedPacket] /\ Statuses \in Nat
    BY Bounds DEF StatusPackets, Other, QueuedPacket
  <1>5. \A i \in 1..Statuses : StatusPackets[i].age = 0
    BY DEF StatusPackets, Other
  <1>6. QED
    BY <1>1, <1>2, <1>3, <1>4, <1>5

LEMMA SendType ==
    ASSUME TypeOK, NEW queue \in Seq(QueuedPacket), NEW packets \in Seq(QueuedPacket),
           sendMessages(queue, packets)
    PROVE  /\ txBuffer' \in Seq(QueuedPacket) /\ Len(txBuffer') <= TX_SIZE
           /\ lost' \in BOOLEAN
  BY QueuedFacts DEF sendMessages, TypeOK, QueuedPacket

\* The four outcomes of what update() receives, and what they have in common.
Receive == ReceiveNothing \/ ReceiveBad \/ ReceiveAck \/ ReceiveConfig

Pinged == ~config.skipRadioHandshake /\ PingDue

LEMMA ReceiveEffect ==
    ASSUME Receive
    PROVE  /\ step = "link" /\ step' \in {"transmit", "rest"}
           /\ step' = "transmit" => late' = late
           /\ step' = "rest" => ~steady' /\ late' = 0
           /\ \E reply \in {<<>>, <<Other>>} :
                  /\ sendMessages(txBuffer, LinkSends(reply))
                  /\ reply # <<>> => ~steady'
           /\ steady' => steady' = steady
           /\ linkState' \in {linkState, "CONNECTED", "AWAITING_ACK"}
           /\ Pinged => linkState' # "DISCONNECTED"
           /\ linkState = "CONNECTED" => linkState' = "CONNECTED"
           /\ linkState' # "CONNECTED" =>
                  linkState' = IF Pinged THEN "AWAITING_ACK" ELSE linkState
           /\ sincePing' = IF linkState' = "CONNECTED" THEN LINK_RETRY_MS
                           ELSE IF Pinged THEN 0 ELSE sincePing
           /\ mode' = (IF mode = "Tx" THEN mode ELSE "Rx")
           /\ received' \in {"nothing", received} /\ heard' \in {heard, FALSE}
           /\ UNCHANGED <<setupState, sinceTx, sinceReport, passMs, modeMs, excused>>
  <1> USE DEF LinkAndReply, Goto, Poll, LinkSends, Pinged
  <1>1. CASE ReceiveNothing
    BY <1>1 DEF ReceiveNothing, PingDue
  <1>2. CASE ReceiveBad
    BY <1>2 DEF ReceiveBad, PingDue
  <1>3. CASE ReceiveAck
    BY <1>3 DEF ReceiveAck, PingDue
  <1>4. CASE ReceiveConfig
    BY <1>4 DEF ReceiveConfig, PingDue
  <1>5. QED
    BY <1>1, <1>2, <1>3, <1>4 DEF Receive

\* A packet arrives, and the module is idle.
Arrival == \E packet \in {"ack", "packet"} : RxDone(packet)

LEMMA ArrivalEffect ==
    ASSUME Arrival
    PROVE  /\ mode = "Rx" /\ mode' = "Idle"
           /\ received' \in {"ack", "packet"}
           /\ excused' = UpTo(MinListen, excused + 2 * PassMax)
           /\ UNCHANGED <<config, setupState, linkState, txBuffer, lost, clockVars,
                          modeMs, heard, step, late, steady>>
  BY DEF Arrival, RxDone

-----------------------------------------------------------------------------
(* Types, and how the passes lie against the clock: the clock was read no  *)
(* earlier than the pass began, and a transmission is over soon enough.    *)

ClockInv ==
    /\ late <= passMs
    /\ step # "transmit" => late = 0
    /\ sinceReport >= passMs
    /\ linkState = "DISCONNECTED" => sincePing = LINK_RETRY_MS
    /\ mode = "Tx" => modeMs <= AirMax /\ sinceTx <= modeMs + PassMax

LEMMA ReceiveType ==
    ASSUME TypeOK, Receive
    PROVE  TypeOK'
  <1>1. /\ txBuffer' \in Seq(QueuedPacket) /\ Len(txBuffer') <= TX_SIZE
        /\ lost' \in BOOLEAN
    <2>1. PICK reply \in {<<>>, <<Other>>} : sendMessages(txBuffer, LinkSends(reply))
      BY ReceiveEffect
    <2>2. QED
      BY <2>1, LinkSendsFacts, SendType DEF TypeOK, QueuedPacket
  <1>2. /\ linkState' \in LinkStates /\ sincePing' \in 0..LINK_RETRY_MS
        /\ step' \in {"link", "transmit", "rest"} /\ late' \in 0..PassMax
        /\ UNCHANGED <<setupState, sinceTx, sinceReport, passMs, modeMs, excused>>
    BY ReceiveEffect, Bounds DEF TypeOK, LinkStates
  <1>3. config' \in Configuration /\ heard' \in BOOLEAN /\ steady' \in BOOLEAN
    <2>1. config' \in Configuration
      BY RadioAssumptions
      DEF TypeOK, Receive, ReceiveNothing, ReceiveBad, ReceiveAck, ReceiveConfig
    <2>2. heard' \in BOOLEAN
      BY ReceiveEffect DEF TypeOK
    <2>3. steady' \in BOOLEAN
      BY DEF TypeOK, Receive, ReceiveNothing, ReceiveBad, ReceiveAck, ReceiveConfig
    <2>4. QED
      BY <2>1, <2>2, <2>3
  <1>4. mode' \in {"Idle", "Rx", "Tx"} /\ received' \in {"nothing", "ack", "packet"}
    BY ReceiveEffect DEF TypeOK
  <1>5. QED
    BY <1>1, <1>2, <1>3, <1>4 DEF TypeOK, QueuedPacket

LEMMA ArrivalType ==
    ASSUME TypeOK, Arrival
    PROVE  TypeOK'
  <1>1. excused' \in 0..MinListen
    <2>1. /\ excused \in 0..MinListen /\ MinListen \in Nat /\ PassMax \in Nat
          /\ excused' = UpTo(MinListen, excused + 2 * PassMax)
      BY ArrivalEffect, Bounds DEF TypeOK
    <2>2. QED
      BY <2>1 DEF UpTo
  <1>2. QED
    BY <1>1, ArrivalEffect DEF TypeOK, clockVars

LEMMA TickType ==
    ASSUME TypeOK, ClockInv, Tick
    PROVE  TypeOK'
  <1>1. passMs' \in 0..PassMax /\ late' \in 0..PassMax
    BY Bounds DEF Tick, TypeOK, ClockInv
  <1>2. sincePing' \in 0..LINK_RETRY_MS /\ sinceTx' \in 0..Spacing
        /\ sinceReport' \in 0..Interval
    BY Bounds, UpToType DEF Tick, TypeOK
  <1>3. modeMs' \in 0..ModeMax
    <2>1. ModeMax \in Nat /\ modeMs \in 0..ModeMax
      BY Bounds DEF TypeOK
    <2>2. UpTo(ModeMax, modeMs + 1) \in 0..ModeMax
      BY <2>1 DEF UpTo
    <2>3. QED
      BY <2>1, <2>2 DEF Tick
  <1>4. QED
    BY <1>1, <1>2, <1>3 DEF Tick, TypeOK

LEMMA TransmitType ==
    ASSUME TypeOK, ClockInv, Transmit
    PROVE  TypeOK'
  <1>1. Tail(txBuffer) \in Seq(QueuedPacket) /\ Len(Tail(txBuffer)) = Len(txBuffer) - 1
        /\ txBuffer[1].ping \in BOOLEAN /\ Len(txBuffer) \in Nat
    <2>1. txBuffer \in Seq(QueuedPacket) /\ txBuffer # <<>>
      BY DEF TypeOK, Transmit, QueuedPacket
    <2>2. Len(txBuffer) \in Nat \ {0} /\ txBuffer[1] \in QueuedPacket
      BY <2>1, EmptySeq, ElementOfSeq
    <2>3. QED
      BY <2>1, <2>2, HeadTailProperties DEF QueuedPacket
  <1>2. Len(txBuffer') <= TX_SIZE
    BY <1>1, Bounds DEF TypeOK, Transmit
  <1>3. late \in 0..Spacing /\ 0 \in 0..PassMax /\ 0 \in 0..ModeMax
        /\ 0 \in 0..MinListen
    BY Bounds DEF TypeOK
  <1>4. heard' \in BOOLEAN /\ steady' \in BOOLEAN
    BY <1>1 DEF Transmit, TypeOK
  <1>5. QED
    BY <1>1, <1>2, <1>3, <1>4 DEF Transmit, TypeOK, Goto, QueuedPacket

LEMMA UsbType ==
    ASSUME TypeOK, UsbUpdate
    PROVE  config' \in Configuration
  BY RadioAssumptions DEF TypeOK, UsbUpdate

LEMMA TypeStep ==
    ASSUME TypeOK, ClockInv, [Next]_vars
    PROVE  TypeOK'
  <1>1. CASE Tick
    BY <1>1, TickType
  <1>2. CASE TxDone
    BY <1>2, Bounds DEF TxDone, TypeOK, clockVars
  <1>3. CASE Unserviced
    <2>1. {steady', lost'} \subseteq BOOLEAN
      BY <1>3 DEF Unserviced, TypeOK
    <2>2. QED
      BY <1>3, <2>1, Bounds DEF Unserviced, Goto, TypeOK, clockVars, moduleVars
  <1>4. CASE Receive
    BY <1>4, ReceiveType
  <1>5. CASE Wait
    BY <1>5, Bounds DEF Wait, Goto, TypeOK, clockVars
  <1>6. CASE NothingToSend
    BY <1>6, Bounds DEF NothingToSend, Goto, TypeOK, clockVars, moduleVars
  <1>7. CASE Transmit
    BY <1>7, TransmitType
  <1>8. CASE NoReport
    <2>1. config' \in Configuration
      BY <1>8, UsbType DEF NoReport
    <2>2. QED
      BY <1>8, <2>1, Bounds DEF NoReport, EndPass, TypeOK, moduleVars
  <1>9. CASE Report
    <2>1. config' \in Configuration
      BY <1>9, UsbType DEF Report
    <2>2. txBuffer' \in Seq(QueuedPacket) /\ Len(txBuffer') <= TX_SIZE /\ lost' \in BOOLEAN
      <3>1. txBuffer \in Seq(QueuedPacket) /\ sendMessages(Aged, StatusPackets)
        BY <1>9 DEF Report, TypeOK, Aged, StatusPackets, QueuedPacket
      <3>2. QED
        BY <3>1, ReportFacts, SendType
    <2>3. QED
      BY <1>9, <2>1, <2>2, Bounds DEF Report, EndPass, TypeOK, moduleVars, QueuedPacket
  <1>10. CASE UNCHANGED vars
    BY <1>10 DEF vars, clockVars, moduleVars, TypeOK
  <1>11. CASE Arrival
    BY <1>11, ArrivalType
  <1>12. QED
    BY <1>1, <1>2, <1>3, <1>4, <1>5, <1>6, <1>7, <1>8, <1>9, <1>10, <1>11
    DEF Next, loop, update, Receive, Arrival

LEMMA ClockStep ==
    ASSUME TypeOK, ClockInv, [Next]_vars
    PROVE  ClockInv'
  <1> USE DEF ClockInv
  <1>1. CASE Tick
    <2>1. /\ passMs' = passMs + 1 /\ late' \in {late, late + 1}
          /\ step # "transmit" => late' = late
      BY <1>1 DEF Tick
    <2>2. sinceReport' >= passMs'
      BY <1>1, Bounds DEF Tick, TypeOK, UpTo
    <2>3. sincePing = LINK_RETRY_MS => sincePing' = LINK_RETRY_MS
      BY <1>1, Bounds DEF Tick, UpTo
    <2>4. mode = "Tx" => modeMs' <= AirMax /\ sinceTx' <= modeMs' + PassMax
      <3> SUFFICES ASSUME mode = "Tx"
                   PROVE  modeMs' <= AirMax /\ sinceTx' <= modeMs' + PassMax
        OBVIOUS
      <3>1. modeMs \in Nat /\ modeMs < AirMax /\ ModeMax \in Nat /\ AirMax <= ModeMax
        BY <1>1, Bounds DEF TypeOK, Tick
      <3>2. modeMs' = modeMs + 1
        BY <1>1, <3>1, Bounds DEF Tick, UpTo
      <3>3. sinceTx' <= sinceTx + 1 /\ sinceTx' \in Int /\ sinceTx \in Int
        BY <1>1, Bounds DEF Tick, TypeOK, UpTo
      <3>4. QED
        BY <3>1, <3>2, <3>3, Bounds
    <2>5. late \in Int /\ passMs \in Int
      BY DEF TypeOK
    <2>6. QED
      BY <1>1, <2>1, <2>2, <2>3, <2>4, <2>5 DEF Tick
  <1>2. CASE TxDone
    BY <1>2 DEF TxDone, clockVars
  <1>3. CASE Unserviced
    BY <1>3 DEF Unserviced, Goto, clockVars, moduleVars, TypeOK
  <1>4. CASE Receive
    <2>1. late' <= passMs' /\ (step' # "transmit" => late' = 0)
      BY <1>4, ReceiveEffect DEF TypeOK
    <2>2. linkState' = "DISCONNECTED" => sincePing' = LINK_RETRY_MS
      BY <1>4, ReceiveEffect
    <2>3. QED
      BY <1>4, <2>1, <2>2, ReceiveEffect
  <1>5. CASE Wait \/ NothingToSend
    BY <1>5 DEF Wait, NothingToSend, Goto, clockVars, moduleVars, TypeOK
  <1>6. CASE Transmit
    BY <1>6, Bounds DEF Transmit, Goto, TypeOK
  <1>7. CASE NoReport \/ Report
    BY <1>7 DEF NoReport, Report, EndPass, moduleVars, TypeOK
  <1>8. CASE UNCHANGED vars
    BY <1>8 DEF vars, clockVars, moduleVars
  <1>9. CASE Arrival
    BY <1>9, ArrivalEffect DEF clockVars
  <1>10. QED
    BY <1>1, <1>2, <1>3, <1>4, <1>5, <1>6, <1>7, <1>8, <1>9
    DEF Next, loop, update, Receive, Arrival

LEMMA InitTyped ==
    ASSUME Init
    PROVE  TypeOK /\ ClockInv
  <1>1. TypeOK
    <2>1. txBuffer \in Seq(QueuedPacket) /\ Len(txBuffer) <= TX_SIZE
      BY Bounds, EmptySeq DEF Init
    <2>2. /\ sincePing \in 0..LINK_RETRY_MS /\ sinceTx \in 0..Spacing
          /\ modeMs \in 0..ModeMax /\ late \in 0..PassMax /\ passMs \in 0..PassMax
          /\ excused \in 0..MinListen
      BY Bounds DEF Init
    <2>3. QED
      BY <2>1, <2>2 DEF Init, TypeOK, LinkStates, QueuedPacket
  <1>2. ClockInv
    BY DEF Init, ClockInv
  <1>3. QED
    BY <1>1, <1>2

\* Every variable keeps its type, and the queue its size.
THEOREM RadioTyped == Spec => []TypeOK
  <1>1. Init => TypeOK /\ ClockInv
    BY InitTyped
  <1>2. TypeOK /\ ClockInv /\ [Next]_vars => TypeOK' /\ ClockInv'
    BY TypeStep, ClockStep
  <1>3. QED
    BY <1>1, <1>2, PTL DEF Spec

LEMMA Clocked == Spec => [](TypeOK /\ ClockInv)
  <1>1. Init => TypeOK /\ ClockInv
    BY InitTyped
  <1>2. TypeOK /\ ClockInv /\ [Next]_vars => TypeOK' /\ ClockInv'
    BY TypeStep, ClockStep
  <1>3. QED
    BY <1>1, <1>2, PTL DEF Spec

-----------------------------------------------------------------------------
(* Property: QueueFresh. *)

\* Behind a packet that has seen a number of reports wait at least the packets
\* of those reports: what displaces them has displaced the packet before.
AgeInv ==
    \A i \in 1..Len(txBuffer) :
        txBuffer[i].age * Statuses <= Len(txBuffer) - i

LEMMA QueueType ==
    ASSUME TypeOK
    PROVE  /\ txBuffer \in Seq(QueuedPacket)
           /\ Len(txBuffer) \in Nat /\ Len(txBuffer) <= TX_SIZE
           /\ \A i \in 1..Len(txBuffer) : txBuffer[i].age \in Nat
  <1>1. txBuffer \in Seq(QueuedPacket) /\ Len(txBuffer) <= TX_SIZE
    BY DEF TypeOK, QueuedPacket
  <1>2. /\ Len(txBuffer) \in Nat
        /\ \A i \in 1..Len(txBuffer) : txBuffer[i] \in QueuedPacket
    BY <1>1, LenProperties, ElementOfSeq
  <1>3. \A i \in 1..Len(txBuffer) : txBuffer[i].age \in Nat
    BY <1>2 DEF QueuedPacket
  <1>4. QED
    BY <1>1, <1>2, <1>3

LEMMA AgeSend ==
    ASSUME NEW queue \in Seq(QueuedPacket), NEW packets \in Seq(QueuedPacket),
           sendMessages(queue, packets), setupState # "DISABLED",
           \A j \in 1..Len(queue) :
               queue[j].age * Statuses <= Len(queue) + Len(packets) - j,
           \A j \in 1..Len(packets) : packets[j].age = 0
    PROVE  AgeInv'
  <1> DEFINE kept == Queued(queue, packets)
  <1>1. txBuffer' = kept
    BY DEF sendMessages
  <1>2. ASSUME NEW i \in 1..Len(kept)
        PROVE  kept[i].age * Statuses <= Len(kept) - i
    <2>1. PICK j \in 1..Len(queue) + Len(packets) :
              /\ Len(queue) + Len(packets) - j = Len(kept) - i
              /\ kept[i] = IF j <= Len(queue) THEN queue[j] ELSE packets[j - Len(queue)]
      <3>1. Newest(kept, queue, packets)
        BY QueuedFacts
      <3>2. QED
        BY <3>1 DEF Newest
    <2>2. Len(queue) \in Nat /\ Len(packets) \in Nat /\ Len(kept) \in Nat
      BY LenProperties, QueuedFacts
    <2> HIDE DEF kept
    <2>3. CASE j <= Len(queue)
      BY <2>1, <2>2, <2>3
    <2>4. CASE j > Len(queue)
      <3>1. j - Len(queue) \in 1..Len(packets)
        BY <2>2, <2>4
      <3>2. kept[i].age = 0
        BY <2>1, <2>2, <2>4, <3>1
      <3>3. 0 * Statuses = 0 /\ Len(kept) - i >= 0
        BY <2>2, Bounds
      <3>4. QED
        BY <3>2, <3>3
    <2>5. QED
      BY <2>2, <2>3, <2>4
  <1> HIDE DEF kept
  <1>3. QED
    BY <1>1, <1>2 DEF AgeInv

LEMMA AgeStep ==
    ASSUME TypeOK, AgeInv, [Next]_vars
    PROVE  AgeInv'
  <1>1. txBuffer \in Seq(QueuedPacket) /\ Len(txBuffer) \in Nat
        /\ \A i \in 1..Len(txBuffer) : txBuffer[i].age \in Nat
    BY QueueType
  <1>2. CASE UNCHANGED txBuffer
    BY <1>2 DEF AgeInv
  <1>3. CASE Receive /\ setupState # "DISABLED"
    <2>1. PICK reply \in {<<>>, <<Other>>} : sendMessages(txBuffer, LinkSends(reply))
      BY <1>3, ReceiveEffect
    <2>2. /\ LinkSends(reply) \in Seq(QueuedPacket) /\ Len(LinkSends(reply)) \in Nat
          /\ \A i \in 1..Len(LinkSends(reply)) : LinkSends(reply)[i].age = 0
      BY LinkSendsFacts, LenProperties
    <2>3. ASSUME NEW j \in 1..Len(txBuffer)
          PROVE  txBuffer[j].age * Statuses <= Len(txBuffer) + Len(LinkSends(reply)) - j
      <3>1. txBuffer[j].age * Statuses \in Int
        BY <1>1, Bounds
      <3>2. QED
        BY <1>1, <2>2, <3>1 DEF AgeInv
    <2>4. QED
      BY <1>1, <1>3, <2>1, <2>2, <2>3, AgeSend
  <1>4. CASE Report /\ setupState # "DISABLED"
    <2>1. sendMessages(Aged, StatusPackets)
      BY <1>4 DEF Report, Aged, StatusPackets
    <2>2. ASSUME NEW j \in 1..Len(Aged)
          PROVE  Aged[j].age * Statuses <= Len(Aged) + Len(StatusPackets) - j
      <3>1. txBuffer[j].age \in Nat /\ Aged[j].age = txBuffer[j].age + 1
            /\ j \in 1..Len(txBuffer) /\ Len(Aged) = Len(txBuffer)
            /\ Len(StatusPackets) = Statuses
        BY <1>1, ReportFacts
      <3>2. (txBuffer[j].age + 1) * Statuses = txBuffer[j].age * Statuses + Statuses
            /\ txBuffer[j].age * Statuses \in Int /\ 1 * Statuses = Statuses
            /\ Statuses \in Nat
        <4> DEFINE a == txBuffer[j].age
        <4>1. a \in Nat /\ Statuses \in Nat
          BY <3>1, Bounds
        <4> HIDE DEF a
        <4>2. (a + 1) * Statuses = a * Statuses + Statuses /\ a * Statuses \in Int
          BY <4>1
        <4>3. QED
          BY <4>1, <4>2 DEF a
      <3>3. txBuffer[j].age * Statuses <= Len(txBuffer) - j
        BY <3>1 DEF AgeInv
      <3>4. QED
        BY <1>1, <3>1, <3>2, <3>3
    <2>3. QED
      BY <1>1, <1>4, <2>1, <2>2, ReportFacts, AgeSend
  <1>5. CASE (Receive \/ Report) /\ setupState = "DISABLED"
    <2>1. UNCHANGED txBuffer
      BY <1>5, ReceiveEffect DEF Report, sendMessages
    <2>2. QED
      BY <1>2, <2>1
  <1>6. CASE Transmit
    <2>1. txBuffer # <<>> /\ txBuffer' = Tail(txBuffer)
      BY <1>6 DEF Transmit
    <2>2. /\ Len(Tail(txBuffer)) = Len(txBuffer) - 1
          /\ \A i \in 1..Len(Tail(txBuffer)) : Tail(txBuffer)[i] = txBuffer[i + 1]
      BY <1>1, <2>1, HeadTailProperties
    <2>3. ASSUME NEW i \in 1..Len(Tail(txBuffer))
          PROVE  Tail(txBuffer)[i].age * Statuses <= Len(Tail(txBuffer)) - i
      <3>1. i + 1 \in 1..Len(txBuffer)
        BY <1>1, <2>2
      <3>2. txBuffer[i + 1].age * Statuses <= Len(txBuffer) - (i + 1)
        BY <3>1 DEF AgeInv
      <3>3. QED
        BY <1>1, <2>2, <3>2
    <2>4. QED
      BY <2>1, <2>3 DEF AgeInv
  <1>7. QED
    BY <1>2, <1>3, <1>4, <1>5, <1>6
    DEF Next, loop, update, Receive, Tick, TxDone, RxDone, Unserviced, Wait,
        NothingToSend, NoReport, vars

\* No packet in the queue is older than the reports that fit in it, whatever it
\* has displaced and however long it was not drained (sendMessage(),
\* Circular_Buffer::push_back).
THEOREM QueueStaysFresh == Spec => []QueueFresh
  <1>1. Init => AgeInv
    BY DEF Init, AgeInv
  <1>2. TypeOK /\ AgeInv => QueueFresh
    <2> SUFFICES ASSUME TypeOK, AgeInv, NEW i \in 1..Len(txBuffer)
                 PROVE  txBuffer[i].age <= OldestAge
      BY DEF QueueFresh
    <2>1. Len(txBuffer) \in Nat /\ Len(txBuffer) <= TX_SIZE /\ txBuffer[i].age \in Nat
      BY QueueType
    <2>2. txBuffer[i].age * Statuses <= TX_SIZE - 1
      <3>1. txBuffer[i].age * Statuses <= Len(txBuffer) - i
        BY DEF AgeInv
      <3>2. txBuffer[i].age * Statuses \in Int
        BY <2>1, Bounds
      <3>3. QED
        BY <2>1, <3>1, <3>2, Bounds
    <2>3. TX_SIZE - 1 \in Nat /\ Statuses \in Nat \ {0}
      BY Bounds
    <2>4. txBuffer[i].age <= (TX_SIZE - 1) \div Statuses
      BY <2>1, <2>2, <2>3, Quotient
    <2>5. QED
      BY <2>4 DEF OldestAge
  <1>3. QED
    BY <1>1, <1>2, RadioTyped, AgeStep, PTL DEF Spec

-----------------------------------------------------------------------------
(* Property: ListensBetween. *)

\* Since a transmission that emptied the queue, the end of a transmission is
\* noticed by the pass after, and from then on the module listens; a packet that
\* arrives after the poll of one pass is taken by that of the next.
Listened == modeMs + excused

ListenInv ==
    /\ mode = "Tx" => excused = 0
    /\ steady =>
        /\ mode = "Idle" /\ excused = 0 =>
            /\ step # "rest" => sinceTx <= AirMax + 2 * PassMax + passMs
            /\ step = "rest" => sinceTx <= AirMax + PassMax + passMs
        /\ mode = "Idle" /\ excused > 0 /\ Listened < MinListen =>
            /\ step = "link" => sinceTx <= Listened + AirMax + 2 * PassMax + passMs
            /\ step # "link" => sinceTx <= Listened + AirMax + PassMax + passMs
        /\ mode = "Rx" /\ Listened < MinListen =>
            sinceTx <= Listened + AirMax + 3 * PassMax

LEMMA Times ==
    ASSUME TypeOK
    PROVE  /\ sinceTx \in Nat /\ modeMs \in Nat /\ passMs \in Nat /\ late \in Nat
           /\ sincePing \in Nat /\ sinceReport \in Nat
           /\ passMs <= PassMax /\ late <= PassMax /\ sinceTx <= Spacing
           /\ modeMs <= ModeMax
  BY Bounds DEF TypeOK

LEMMA TickTimes ==
    ASSUME TypeOK, Tick
    PROVE  /\ passMs' = passMs + 1 /\ passMs < PassMax
           /\ sinceTx' \in Nat /\ sinceTx' <= sinceTx + 1
           /\ sinceTx < Spacing => sinceTx' = sinceTx + 1
           /\ sinceTx <= sinceTx'
           /\ sincePing' \in Nat /\ sincePing' <= sincePing + 1
           /\ sinceReport' \in Nat /\ sinceReport' <= sinceReport + 1
           /\ UNCHANGED <<config, setupState, linkState, txBuffer, lost, mode,
                          step, steady>>
  BY Bounds DEF TypeOK, Tick, UpTo

LEMMA ListenTimes ==
    ASSUME TypeOK
    PROVE  excused \in Nat /\ Listened \in Nat /\ Listened = modeMs + excused
  BY Times, Bounds DEF TypeOK, Listened

LEMMA ListenTick ==
    ASSUME TypeOK, ListenInv, Tick
    PROVE  ListenInv'
  <1>1. /\ sinceTx' \in Nat /\ sinceTx' <= sinceTx + 1 /\ passMs' = passMs + 1
        /\ UNCHANGED <<mode, step, steady, excused>>
    BY TickTimes DEF Tick
  <1>2. mode = "Idle" => Listened' = Listened
    BY <1>1 DEF Tick, Listened
  <1>3. mode = "Rx" /\ Listened' < MinListen => Listened' = Listened + 1
    <2>1. /\ ModeMax \in Nat /\ MinListen \in Nat /\ MinListen <= ModeMax
          /\ modeMs \in Nat /\ excused \in Nat
      BY Times, ListenTimes, Bounds
    <2>2. mode = "Rx" => modeMs' = UpTo(ModeMax, modeMs + 1)
      BY DEF Tick
    <2>3. Listened' = modeMs' + excused /\ Listened = modeMs + excused
      BY <1>1 DEF Listened
    <2>4. mode = "Rx" /\ modeMs + 1 > ModeMax => Listened' >= MinListen
      BY <2>1, <2>2, <2>3 DEF UpTo
    <2>5. mode = "Rx" /\ ~(modeMs + 1 > ModeMax) => Listened' = Listened + 1
      BY <2>1, <2>2, <2>3 DEF UpTo
    <2>6. Listened' >= MinListen => ~(Listened' < MinListen)
      <3>1. mode = "Rx" => Listened' \in Int
        BY <2>1, <2>2, <2>3 DEF UpTo
      <3>2. mode # "Rx" => Listened' \in Int
        BY <2>1, <2>2, <2>3, Times DEF Tick, UpTo
      <3>3. QED
        BY <2>1, <3>1, <3>2
    <2>7. QED
      BY <2>4, <2>5, <2>6
  <1>4. Listened \in Nat /\ MinListen \in Nat
    BY ListenTimes, Bounds
  <1>5. ASSUME steady, mode = "Rx", Listened' < MinListen
        PROVE  sinceTx' <= Listened' + AirMax + 3 * PassMax
    <2>1. Listened' = Listened + 1 /\ Listened < MinListen
      BY <1>3, <1>4, <1>5
    <2>2. sinceTx <= Listened + AirMax + 3 * PassMax
      BY <1>5, <2>1 DEF ListenInv
    <2>3. QED
      BY <1>1, <1>4, <2>1, <2>2, Times, Bounds
  <1>6. ASSUME steady, mode = "Idle", excused = 0
        PROVE  /\ step # "rest" => sinceTx' <= AirMax + 2 * PassMax + passMs'
               /\ step = "rest" => sinceTx' <= AirMax + PassMax + passMs'
    BY <1>1, <1>6, Times, Bounds DEF ListenInv
  <1>7. ASSUME steady, mode = "Idle", excused > 0, Listened < MinListen
        PROVE  /\ step = "link" => sinceTx' <= Listened + AirMax + 2 * PassMax + passMs'
               /\ step # "link" => sinceTx' <= Listened + AirMax + PassMax + passMs'
    BY <1>1, <1>4, <1>7, Times, Bounds DEF ListenInv
  <1>8. QED
    BY <1>1, <1>2, <1>5, <1>6, <1>7 DEF ListenInv

LEMMA ListenArrival ==
    ASSUME TypeOK, ListenInv, Arrival
    PROVE  ListenInv'
  <1>1. /\ mode = "Rx" /\ mode' = "Idle"
        /\ excused' = UpTo(MinListen, excused + 2 * PassMax)
        /\ UNCHANGED <<sinceTx, passMs, modeMs, step, steady>>
    BY ArrivalEffect DEF clockVars
  <1>2. /\ excused \in Nat /\ modeMs \in Nat /\ MinListen \in Nat \ {0}
        /\ PassMax \in Nat \ {0} /\ Listened = modeMs + excused
        /\ Listened' = modeMs + excused'
    BY <1>1, Times, ListenTimes, Bounds DEF Listened
  <1>3. excused' > 0
    BY <1>1, <1>2 DEF UpTo
  <1>4. Listened' < MinListen => Listened' = Listened + 2 * PassMax
    BY <1>1, <1>2 DEF UpTo
  <1>5. ASSUME steady, Listened' < MinListen
        PROVE  /\ sinceTx <= Listened' + AirMax + PassMax + passMs
               /\ sinceTx <= Listened' + AirMax + 2 * PassMax + passMs
    <2>1. Listened < MinListen /\ Listened' = Listened + 2 * PassMax
      BY <1>2, <1>4, <1>5
    <2>2. sinceTx <= Listened + AirMax + 3 * PassMax
      BY <1>1, <1>5, <2>1 DEF ListenInv
    <2>3. QED
      BY <1>2, <2>1, <2>2, Times, Bounds
  <1>6. QED
    BY <1>1, <1>3, <1>5, <1>2 DEF ListenInv

\* A poll, and the end of a window still open, find the module idle for two
\* passes at most.
LEMMA ListenPoll ==
    ASSUME TypeOK, ListenInv, steady, mode # "Tx", step \in {"link", "transmit"},
           Listened < MinListen
    PROVE  sinceTx <= Listened + AirMax + 3 * PassMax
  <1>1. mode \in {"Idle", "Rx"} /\ excused \in Nat /\ Listened \in Nat
    BY ListenTimes DEF TypeOK
  <1>2. CASE mode = "Rx"
    BY <1>2 DEF ListenInv
  <1>3. CASE mode = "Idle" /\ excused = 0
    <2>1. sinceTx <= AirMax + 2 * PassMax + passMs
      BY <1>3 DEF ListenInv
    <2>2. QED
      BY <1>1, <2>1, Times, Bounds
  <1>4. CASE mode = "Idle" /\ excused > 0
    <2>1. \/ sinceTx <= Listened + AirMax + 2 * PassMax + passMs
          \/ sinceTx <= Listened + AirMax + PassMax + passMs
      BY <1>4 DEF ListenInv
    <2>2. QED
      BY <1>1, <2>1, Times, Bounds
  <1>5. QED
    BY <1>1, <1>2, <1>3, <1>4

LEMMA ListenStep ==
    ASSUME TypeOK, ClockInv, ListenInv, [Next]_vars
    PROVE  ListenInv'
  <1>1. CASE Tick
    BY <1>1, ListenTick
  <1>2. CASE TxDone
    <2>1. /\ mode = "Tx" /\ mode' = "Idle" /\ excused = 0
          /\ UNCHANGED <<sinceTx, passMs, step, steady, excused>>
      BY <1>2 DEF TxDone, clockVars, ListenInv
    <2>2. sinceTx <= AirMax + PassMax
      BY <2>1, Times, Bounds DEF ClockInv
    <2>3. /\ sinceTx <= AirMax + 2 * PassMax + passMs
          /\ sinceTx <= AirMax + PassMax + passMs
      BY <2>2, Times, Bounds
    <2>4. QED
      BY <2>1, <2>3 DEF ListenInv
  <1>3. CASE Arrival
    BY <1>3, ListenArrival
  <1>4. CASE Unserviced
    BY <1>4 DEF Unserviced, moduleVars, ListenInv
  <1>5. CASE Receive
    <2>1. /\ step = "link" /\ mode' = (IF mode = "Tx" THEN mode ELSE "Rx")
          /\ UNCHANGED <<sinceTx, modeMs, excused>>
          /\ steady' => steady
      BY <1>5, ReceiveEffect
    <2>2. Listened' = Listened
      BY <2>1 DEF Listened
    <2>3. CASE mode = "Tx"
      BY <2>1, <2>3 DEF ListenInv
    <2>4. CASE mode # "Tx"
      <3>1. steady' /\ Listened < MinListen => sinceTx <= Listened + AirMax + 3 * PassMax
        BY <2>1, <2>4, ListenPoll
      <3>2. QED
        BY <2>1, <2>2, <2>4, <3>1 DEF ListenInv
    <2>5. QED
      BY <2>3, <2>4
  <1>6. CASE Wait
    <2>1. /\ step = "transmit" /\ UNCHANGED <<sinceTx, modeMs, excused, steady>>
          /\ mode' = (IF mode = "Tx" THEN mode ELSE "Rx")
      BY <1>6 DEF Wait, clockVars
    <2>2. Listened' = Listened
      BY <2>1 DEF Listened
    <2>3. CASE mode = "Tx"
      BY <2>1, <2>3 DEF ListenInv
    <2>4. CASE mode # "Tx"
      <3>1. steady /\ Listened < MinListen => sinceTx <= Listened + AirMax + 3 * PassMax
        BY <2>1, <2>4, ListenPoll
      <3>2. QED
        BY <2>1, <2>2, <2>4, <3>1 DEF ListenInv
    <2>5. QED
      BY <2>3, <2>4
  <1>7. CASE NothingToSend
    <2>1. /\ ~(sinceTx - late < RX_WINDOW_MIN) /\ step = "transmit" /\ mode # "Tx"
          /\ step' = "rest"
          /\ UNCHANGED <<sinceTx, steady, mode, modeMs, excused, passMs>>
      BY <1>7 DEF NothingToSend, WindowOpen, Elapsed, clockVars, moduleVars, Goto
    <2>2. steady /\ mode = "Idle" => excused # 0
      <3>1. sinceTx >= RX_WINDOW_MIN
        BY <2>1, Times, Bounds
      <3>2. ~(sinceTx <= AirMax + 2 * PassMax + passMs)
        BY <3>1, Times, Bounds
      <3>3. QED
        BY <2>1, <3>2 DEF ListenInv
    <2>3. Listened' = Listened
      BY <2>1 DEF Listened
    <2>4. QED
      BY <2>1, <2>2, <2>3 DEF ListenInv
  <1>8. CASE Transmit
    BY <1>8 DEF Transmit, ListenInv
  <1>9. CASE NoReport \/ Report
    <2>1. /\ step = "rest" /\ step' = "link" /\ passMs' = 0
          /\ UNCHANGED <<mode, modeMs, excused, sinceTx, steady>>
      BY <1>9 DEF NoReport, Report, EndPass, moduleVars
    <2>2. Listened' = Listened /\ Listened \in Nat
      BY <2>1, ListenTimes DEF Listened
    <2>3. steady /\ mode = "Idle" /\ excused = 0 => sinceTx <= AirMax + 2 * PassMax + 0
      <3>1. steady /\ mode = "Idle" /\ excused = 0 => sinceTx <= AirMax + PassMax + passMs
        BY <2>1 DEF ListenInv
      <3>2. QED
        BY <3>1, Times, Bounds
    <2>4. steady /\ mode = "Idle" /\ excused > 0 /\ Listened < MinListen =>
              sinceTx <= Listened + AirMax + 2 * PassMax + 0
      <3>1. steady /\ mode = "Idle" /\ excused > 0 /\ Listened < MinListen =>
                sinceTx <= Listened + AirMax + PassMax + passMs
        BY <2>1 DEF ListenInv
      <3>2. QED
        BY <2>2, <3>1, Times, Bounds
    <2>5. QED
      BY <2>1, <2>2, <2>3, <2>4 DEF ListenInv
  <1>10. CASE UNCHANGED vars
    BY <1>10 DEF vars, clockVars, moduleVars, ListenInv, Listened
  <1>11. QED
    BY <1>1, <1>2, <1>3, <1>4, <1>5, <1>6, <1>7, <1>8, <1>9, <1>10
    DEF Next, loop, update, Receive, Arrival

\* Only Transmit begins a transmission.
LEMMA TransmitOnly ==
    ASSUME [Next]_vars, mode' = "Tx", mode # "Tx"
    PROVE  Transmit
  BY ReceiveEffect
  DEF Next, loop, update, Receive, Tick, TxDone, RxDone, Unserviced, Wait,
      NothingToSend, NoReport, Report, vars, moduleVars

\* Between two transmissions the module listens for what the window leaves, less
\* two passes for each packet it received and then waited for a poll; and if it
\* received none, it listens up to the transmission: whatever arrives, and
\* although the window is measured from a clock read before the transmission
\* (Radio::update()).
THEOREM ListensInEachWindow == Spec => ListensBetween
  <1>1. Init => ListenInv
    BY DEF Init, ListenInv
  <1>2. TypeOK /\ ClockInv /\ ListenInv /\ [Next]_vars =>
            [mode' = "Tx" /\ mode # "Tx" /\ steady =>
                 modeMs + excused >= MinListen /\ (mode = "Rx" \/ excused > 0)]_vars
    <2> SUFFICES ASSUME TypeOK, ListenInv, [Next]_vars, mode' = "Tx", mode # "Tx",
                        steady
                 PROVE  Listened >= MinListen /\ (mode = "Rx" \/ excused > 0)
      BY DEF Listened
    <2>1. sinceTx >= RX_WINDOW_MIN /\ step = "transmit"
      BY TransmitOnly, Times, Bounds DEF Transmit, WindowOpen, Elapsed
    <2>2. mode \in {"Idle", "Rx"} /\ excused \in Nat /\ Listened \in Nat
      BY ListenTimes DEF TypeOK
    <2>3. mode = "Rx" \/ excused > 0
      <3>1. ~(sinceTx <= AirMax + 2 * PassMax + passMs)
        BY <2>1, Times, Bounds
      <3>2. QED
        BY <2>1, <2>2, <3>1 DEF ListenInv
    <2>4. Listened >= MinListen
      <3>1. Listened < MinListen => sinceTx <= Listened + AirMax + 3 * PassMax
        BY <2>1, ListenPoll
      <3>2. RX_WINDOW_MIN - AirMax - 3 * PassMax = MinListen
        BY DEF MinListen
      <3>3. QED
        BY <2>1, <2>2, <3>1, <3>2, Times, Bounds
    <2>5. QED
      BY <2>3, <2>4
  <1>3. TypeOK /\ ClockInv /\ ListenInv /\ [Next]_vars => ListenInv'
    BY ListenStep
  <1>4. QED
    BY <1>1, <1>2, <1>3, Clocked, PTL DEF Spec, ListensBetween

-----------------------------------------------------------------------------
(* Property: KeepsUp. *)

\* With a packet waiting, the window is still found open in a pass, if only by
\* a millisecond, or the packet is sent.
WindowInv ==
    steady /\ step = "rest" /\ txBuffer # <<>> => sinceTx < RX_WINDOW_MIN + passMs

LEMMA WindowStep ==
    ASSUME TypeOK, ClockInv, WindowInv, [Next]_vars
    PROVE  WindowInv'
  <1> USE Times, Bounds
  <1>1. CASE Tick
    <2>1. /\ sinceTx' \in Nat /\ sinceTx' <= sinceTx + 1 /\ passMs' = passMs + 1
          /\ UNCHANGED <<txBuffer, step, steady>>
      BY <1>1, TickTimes
    <2>2. sinceTx < RX_WINDOW_MIN + passMs => sinceTx' < RX_WINDOW_MIN + passMs'
      BY <2>1
    <2>3. QED
      BY <2>1, <2>2 DEF WindowInv
  <1>2. CASE TxDone
    BY <1>2 DEF TxDone, clockVars, WindowInv
  <1>3. CASE Unserviced
    BY <1>3 DEF Unserviced, WindowInv
  <1>4. CASE Receive
    BY <1>4, ReceiveEffect DEF WindowInv
  <1>5. CASE Wait
    <2>1. step = "transmit" /\ UNCHANGED <<txBuffer, sinceTx, passMs, steady>>
      BY <1>5 DEF Wait, clockVars
    <2>2. mode = "Tx" \/ sinceTx - late < RX_WINDOW_MIN
      BY <1>5 DEF Wait, WindowOpen, Elapsed
    <2>3. sinceTx < RX_WINDOW_MIN + passMs
      BY <2>2 DEF ClockInv
    <2>4. QED
      BY <2>1, <2>3 DEF WindowInv
  <1>6. CASE NothingToSend
    BY <1>6 DEF NothingToSend, WindowInv
  <1>7. CASE Transmit
    BY <1>7 DEF Transmit, ClockInv, WindowInv
  <1>8. CASE NoReport \/ Report
    BY <1>8 DEF NoReport, Report, EndPass, WindowInv
  <1>9. CASE UNCHANGED vars
    BY <1>9 DEF vars, clockVars, WindowInv
  <1>10. CASE Arrival
    BY <1>10, ArrivalEffect DEF clockVars, WindowInv
  <1>11. QED
    BY <1>1, <1>2, <1>3, <1>4, <1>5, <1>6, <1>7, <1>8, <1>9, <1>10
    DEF Next, loop, update, Receive, Arrival

\* The time until the head of the queue is sent, at most.
UntilSent ==
    IF step # "rest" /\ PassMax - passMs > Spacing - sinceTx
    THEN PassMax - passMs ELSE Spacing - sinceTx

\* The time until the last of n packets is sent, if the first is after `wait`.
WorkOf(n, wait) == IF n = 0 THEN 0 ELSE (n - 1) * Spacing + wait

Work == WorkOf(Len(txBuffer), UntilSent)

LEMMA WorkFacts ==
    ASSUME NEW n \in Nat, NEW wait \in 0..Spacing
    PROVE  /\ WorkOf(n, wait) \in Nat
           /\ \A w \in 0..wait : WorkOf(n, w) <= WorkOf(n, wait)
           /\ n > 0 => \A w \in 0..Spacing : WorkOf(n - 1, w) <= WorkOf(n, wait)
           /\ WorkOf(n + 1, wait) <= WorkOf(n, wait) + Spacing
           /\ WorkOf(n + Statuses, wait) <= WorkOf(n, wait) + Statuses * Spacing
  <1>1. /\ Spacing \in Nat /\ Statuses \in Nat \ {0} /\ n * Spacing \in Nat
        /\ Statuses * Spacing \in Nat
        /\ (n + Statuses) * Spacing = n * Spacing + Statuses * Spacing
    BY Bounds, Product
  <1>2. (n - 1) * Spacing = n * Spacing - Spacing
        /\ (n - 2) * Spacing = n * Spacing - 2 * Spacing
    BY <1>1
  <1>3. n > 0 => (n - 1) * Spacing \in Nat
    BY <1>1
  <1>4. (n + Statuses - 1) * Spacing = n * Spacing + Statuses * Spacing - Spacing
    BY <1>1
  <1>5. QED
    BY <1>1, <1>2, <1>3, <1>4 DEF WorkOf

LEMMA WorkMonotonic ==
    ASSUME NEW n \in Nat, NEW m \in 0..n, NEW wait \in 0..Spacing
    PROVE  WorkOf(m, wait) <= WorkOf(n, wait)
  <1>1. CASE m = 0
    <2>1. WorkOf(n, wait) \in Nat
      BY WorkFacts
    <2>2. WorkOf(m, wait) = 0
      BY <1>1 DEF WorkOf
    <2>3. QED
      BY <2>1, <2>2
  <1>2. CASE m > 0
    <2>1. (m - 1) * Spacing <= (n - 1) * Spacing
      BY Bounds, Product
    <2>2. (m - 1) * Spacing \in Int /\ (n - 1) * Spacing \in Int
      BY Bounds, Product
    <2>3. QED
      BY <1>2, <2>1, <2>2, Bounds DEF WorkOf
  <1>3. QED
    BY <1>1, <1>2

\* Little work is few packets.
LEMMA FewPackets ==
    ASSUME NEW n \in Nat, NEW k \in Nat, NEW wait \in 0..Spacing,
           WorkOf(n, wait) <= k * Spacing
    PROVE  /\ n <= k + 1
           /\ wait > 0 => n <= k
           /\ WorkOf(n, wait) < k * Spacing => n <= k
  <1>1. n * Spacing \in Nat /\ k * Spacing \in Nat /\ Spacing \in Nat \ {0}
        /\ (n - 1) * Spacing = n * Spacing - Spacing
    BY Bounds, Product
  <1>2. CASE n = 0
    BY <1>2
  <1>3. CASE n > 0
    <2>1. WorkOf(n, wait) = (n - 1) * Spacing + wait
      BY <1>3 DEF WorkOf
    <2>2. (n - 1) * Spacing <= k * Spacing
      BY <1>1, <2>1
    <2>3. n - 1 <= k
      <3>1. k < n - 1 => (k + 1) * Spacing <= (n - 1) * Spacing
        BY <1>1, Product
      <3>2. (k + 1) * Spacing = k * Spacing + Spacing
        BY <1>1
      <3>3. QED
        BY <1>1, <2>2, <3>1, <3>2
    <2>4. (n - 1) * Spacing < k * Spacing => n - 1 < k
      BY <1>1, Product
    <2>5. QED
      BY <1>1, <2>1, <2>3, <2>4
  <1>4. QED
    BY <1>2, <1>3

\* What the work may come to: what one report and one ping bring, less the time
\* since the later of them.  Where the base station has answered, no ping
\* follows, and sincePing no longer tells how long ago the last one was.
Later == IF sinceReport > sincePing THEN sinceReport ELSE sincePing

WorkInv ==
    steady =>
        \/ Work <= 0
        \/ Work + sinceReport <= Statuses * Spacing
        \/ Work + sincePing <= Spacing
        \/ Work + Later <= Statuses * Spacing + Spacing
        \/ /\ linkState = "CONNECTED"
           /\ \/ Work <= Spacing
              \/ Work + sinceReport <= Statuses * Spacing + Spacing

KeepInv == TypeOK /\ ClockInv /\ WindowInv /\ WorkInv

LEMMA UntilSentType ==
    ASSUME TypeOK
    PROVE  UntilSent \in 0..Spacing /\ Work \in Nat
  <1>1. UntilSent \in 0..Spacing
    BY Times, Bounds DEF UntilSent
  <1>2. QED
    BY <1>1, QueueType, WorkFacts DEF Work

\* The same of the next state.
LEMMA UntilSentTypeNext ==
    ASSUME TypeOK'
    PROVE  UntilSent' \in 0..Spacing /\ Work' \in Nat /\ Len(txBuffer') \in Nat
  <1>1. /\ sinceTx' \in 0..Spacing /\ passMs' \in 0..PassMax
        /\ txBuffer' \in Seq(QueuedPacket)
    BY DEF TypeOK, QueuedPacket
  <1>2. UntilSent' \in 0..Spacing
    <2>1. PICK max \in Nat, all \in Nat, sent \in Nat, pass \in Nat :
              /\ max = PassMax /\ all = Spacing /\ max <= all
              /\ sent <= all /\ pass <= max
              /\ sent = sinceTx' /\ pass = passMs'
      BY <1>1, Bounds, WorkBounds
    <2>2. max <= all /\ sent <= all /\ pass <= max
      BY <2>1
    <2>3. max - pass \in 0..all
      BY <2>2
    <2>4. all - sent \in 0..all
      BY <2>2
    <2>5. UntilSent' \in {max - pass, all - sent}
      BY <2>1 DEF UntilSent
    <2>6. QED
      BY <2>1, <2>3, <2>4, <2>5
  <1>3. Len(txBuffer') \in Nat
    BY <1>1, LenProperties
  <1>4. QED
    BY <1>2, <1>3, WorkFacts DEF Work

\* The head of the queue is not overdue as a pass ends.
LEMMA RestWait ==
    ASSUME KeepInv, steady, step = "rest", txBuffer # <<>>
    PROVE  /\ UntilSent = Spacing - sinceTx /\ UntilSent >= PassMax
           /\ passMs < PassMax => sinceTx < Spacing
  <1>1. sinceTx < RX_WINDOW_MIN + passMs
    BY DEF KeepInv, WindowInv
  <1>2. UntilSent = Spacing - sinceTx
    BY DEF UntilSent
  <1>3. RX_WINDOW_MIN + passMs <= RX_WINDOW_MIN + PassMax
        /\ Spacing = RX_WINDOW_MIN - 1 + 2 * PassMax
    BY Times, Bounds DEF KeepInv, Spacing
  <1>4. QED
    BY <1>1, <1>2, <1>3, Times, Bounds DEF KeepInv

LEMMA WorkTick ==
    ASSUME KeepInv, Tick
    PROVE  WorkInv'
  <1> SUFFICES ASSUME steady PROVE WorkInv'
    BY TickTimes DEF KeepInv, WorkInv
  <1>1. CASE txBuffer = <<>>
    <2>1. Work' = 0
      BY <1>1, TickTimes DEF Work, WorkOf, KeepInv
    <2>2. QED
      BY <2>1 DEF WorkInv
  <1>2. CASE txBuffer # <<>>
    <2>1. UntilSent' = UntilSent - 1
      <3>1. /\ passMs' = passMs + 1 /\ passMs < PassMax /\ step' = step
            /\ sinceTx' \in Nat /\ sinceTx <= sinceTx' /\ sinceTx' <= sinceTx + 1
            /\ sinceTx' <= Spacing
            /\ sinceTx < Spacing => sinceTx' = sinceTx + 1
        BY TickTimes, Bounds DEF KeepInv, Tick, UpTo, TypeOK
      <3>2. CASE step = "rest"
        <4>1. UntilSent = Spacing - sinceTx /\ UntilSent' = Spacing - sinceTx'
          BY <3>1, <3>2 DEF UntilSent
        <4>2. sinceTx' = sinceTx + 1
          BY <1>2, <3>1, <3>2, RestWait
        <4>3. sinceTx \in Nat /\ Spacing \in Nat
          BY Times, Bounds DEF KeepInv
        <4>4. QED
          BY <4>1, <4>2, <4>3
      <3>3. CASE step # "rest"
        <4>1. UntilSent = IF PassMax - passMs > Spacing - sinceTx
                          THEN PassMax - passMs ELSE Spacing - sinceTx
          BY <3>3 DEF UntilSent
        <4>2. UntilSent' = IF PassMax - passMs' > Spacing - sinceTx'
                           THEN PassMax - passMs' ELSE Spacing - sinceTx'
          BY <3>1, <3>3 DEF UntilSent
        <4>3. /\ sinceTx \in Nat /\ Spacing \in Nat /\ passMs \in Nat
              /\ PassMax \in Nat /\ sinceTx <= Spacing
          BY Times, Bounds DEF KeepInv
        <4>4. CASE sinceTx < Spacing
          BY <3>1, <4>1, <4>2, <4>3, <4>4
        <4>5. CASE sinceTx = Spacing
          <5>1. sinceTx' = Spacing
            BY <3>1, <4>3, <4>5
          <5>2. UntilSent = PassMax - passMs
            BY <3>1, <4>1, <4>3, <4>5
          <5>3. UntilSent' = PassMax - passMs'
            BY <3>1, <4>2, <4>3, <5>1
          <5>4. QED
            BY <3>1, <4>3, <5>2, <5>3
        <4>6. QED
          BY <4>3, <4>4, <4>5
      <3>4. QED
        BY <3>2, <3>3
    <2>2. Work' = Work - 1
      <3>1. Len(txBuffer) \in Nat \ {0} /\ UntilSent \in 0..Spacing /\ txBuffer' = txBuffer
        BY <1>2, QueueType, EmptySeq, UntilSentType, TickTimes DEF KeepInv
      <3>2. Work = (Len(txBuffer) - 1) * Spacing + UntilSent
            /\ Work' = (Len(txBuffer) - 1) * Spacing + UntilSent'
        BY <3>1 DEF Work, WorkOf
      <3>3. (Len(txBuffer) - 1) * Spacing \in Int
        BY <3>1, Bounds
      <3>4. QED
        BY <2>1, <3>1, <3>2, <3>3
    <2>3. /\ sinceReport' \in Nat /\ sinceReport' <= sinceReport + 1
          /\ sincePing' \in Nat /\ sincePing' <= sincePing + 1
          /\ UNCHANGED <<linkState, steady>>
      BY TickTimes DEF KeepInv
    <2>4. /\ Work \in Nat /\ sinceReport \in Nat /\ sincePing \in Nat
          /\ Statuses * Spacing \in Nat /\ Spacing \in Nat
      BY UntilSentType, Times, WorkBounds, Bounds DEF KeepInv
    <2>5. CASE Work <= 0
      BY <2>2, <2>4, <2>5 DEF WorkInv
    <2>6. CASE Work + sinceReport <= Statuses * Spacing
      <3>1. Work' + sinceReport' <= Statuses * Spacing
        BY <2>2, <2>3, <2>4, <2>6
      <3>2. QED
        BY <3>1 DEF WorkInv
    <2>7. CASE Work + sincePing <= Spacing
      <3>1. Work' + sincePing' <= Spacing
        <4>1. PICK used \in Nat, now \in Nat, work \in Nat, bound \in Nat :
                  /\ used = sincePing /\ now = sincePing'
                  /\ work = Work /\ bound = Spacing
          BY <2>3, <2>4
        <4>2. now <= used + 1 /\ work + used <= bound
          BY <2>3, <2>7, <4>1
        <4>3. work - 1 + now <= bound
          BY <4>2
        <4>4. QED
          BY <2>2, <4>1, <4>3
      <3>2. QED
        BY <3>1 DEF WorkInv
    <2>8. CASE Work + Later <= Statuses * Spacing + Spacing
      <3>1. Later \in Int /\ Later' \in Int /\ Later' <= Later + 1
        BY <2>3, <2>4 DEF Later
      <3>2. Work' + Later' <= Statuses * Spacing + Spacing
        BY <2>2, <2>4, <2>8, <3>1
      <3>3. QED
        BY <3>2 DEF WorkInv
    <2>9. CASE linkState = "CONNECTED" /\ Work <= Spacing
      <3>1. Work' <= Spacing
        BY <2>2, <2>4, <2>9
      <3>2. QED
        BY <2>3, <2>9, <3>1 DEF WorkInv
    <2>10. CASE /\ linkState = "CONNECTED"
                /\ Work + sinceReport <= Statuses * Spacing + Spacing
      <3>1. Work' + sinceReport' <= Statuses * Spacing + Spacing
        BY <2>2, <2>3, <2>4, <2>10
      <3>2. QED
        BY <2>3, <2>10, <3>1 DEF WorkInv
    <2>11. QED
      BY <2>5, <2>6, <2>7, <2>8, <2>9, <2>10 DEF KeepInv, WorkInv
  <1>3. QED
    BY <1>1, <1>2

\* A step that brings no work and takes no time.
LEMMA WorkFrame ==
    ASSUME KeepInv, Work' \in Nat, steady' => steady /\ Work' <= Work,
           UNCHANGED <<linkState, sincePing, sinceReport>>
    PROVE  WorkInv'
  <1> SUFFICES ASSUME steady' PROVE WorkInv'
    BY DEF WorkInv
  <1>1. Work \in Nat /\ Later \in Nat /\ sinceReport \in Nat /\ sincePing \in Nat
        /\ Statuses * Spacing \in Nat /\ Spacing \in Nat /\ Later' = Later
    BY UntilSentType, Times, WorkBounds, Bounds DEF KeepInv, Later
  <1>2. ASSUME NEW time \in Nat, NEW bound \in Nat, Work + time <= bound
        PROVE  Work' + time <= bound
    <2>1. PICK before \in Nat, after \in Nat :
              before = Work /\ after = Work' /\ after <= before
      BY <1>1
    <2>2. before + time <= bound /\ after <= before
      BY <1>2, <2>1
    <2>3. after + time <= bound
      BY <2>2
    <2>4. QED
      BY <2>1, <2>3
  <1>3. ASSUME NEW bound \in Nat, Work <= bound PROVE Work' <= bound
    BY <1>1, <1>3
  <1>4. \/ Work <= 0
        \/ Work + sinceReport <= Statuses * Spacing
        \/ Work + sincePing <= Spacing
        \/ Work + Later <= Statuses * Spacing + Spacing
        \/ /\ linkState = "CONNECTED"
           /\ \/ Work <= Spacing
              \/ Work + sinceReport <= Statuses * Spacing + Spacing
    BY DEF KeepInv, WorkInv
  <1>5. Statuses * Spacing + Spacing \in Nat
    BY <1>1
  <1>6. QED
    BY <1>1, <1>2, <1>3, <1>4, <1>5 DEF WorkInv

\* What a pass's pings and a report add to the work.
LEMMA ReceiveWork ==
    ASSUME KeepInv, TypeOK', Receive, steady'
    PROVE  Work' \in Nat /\ Work' <= Work + (IF Pinged THEN Spacing ELSE 0)
  <1>1. step = "link" /\ step' = "transmit" /\ UNCHANGED <<passMs, sinceTx>>
    BY ReceiveEffect
  <1>2. UntilSent' = UntilSent /\ UntilSent \in 0..Spacing
    BY <1>1, UntilSentType DEF UntilSent, KeepInv
  <1>3. sendMessages(txBuffer, LinkSends(<<>>))
    BY ReceiveEffect
  <1>4. Len(txBuffer) \in Nat /\ Len(txBuffer') \in Nat
        /\ Len(txBuffer') <= Len(txBuffer) + (IF Pinged THEN 1 ELSE 0)
    <2>1. LinkSends(<<>>) \in Seq(QueuedPacket)
          /\ Len(LinkSends(<<>>)) = IF Pinged THEN 1 ELSE 0
      BY LinkSendsFacts, EmptySeq DEF Pinged
    <2>2. txBuffer \in Seq(QueuedPacket) /\ Len(txBuffer) \in Nat
      BY QueueType DEF KeepInv
    <2>3. txBuffer' = txBuffer \/ txBuffer' = Queued(txBuffer, LinkSends(<<>>))
      BY <1>3 DEF sendMessages
    <2>4. Len(Queued(txBuffer, LinkSends(<<>>))) <= Len(txBuffer) + Len(LinkSends(<<>>))
          /\ Len(Queued(txBuffer, LinkSends(<<>>))) \in Nat
      BY <2>1, <2>2, QueuedFacts, LenProperties
    <2>5. CASE txBuffer' = txBuffer
      BY <2>2, <2>5
    <2>6. CASE txBuffer' = Queued(txBuffer, LinkSends(<<>>))
      BY <2>1, <2>2, <2>4, <2>6
    <2>7. QED
      BY <2>3, <2>5, <2>6
  <1>5. Work' = WorkOf(Len(txBuffer'), UntilSent)
    BY <1>2 DEF Work
  <1>6. /\ Len(txBuffer') = Len(txBuffer) + 1 => Work' <= Work + Spacing
        /\ Len(txBuffer') <= Len(txBuffer) => Work' <= Work
    <2>1. Work = WorkOf(Len(txBuffer), UntilSent)
      BY DEF Work
    <2>2. WorkOf(Len(txBuffer) + 1, UntilSent)
              <= WorkOf(Len(txBuffer), UntilSent) + Spacing
      BY <1>2, <1>4, WorkFacts
    <2>3. Len(txBuffer') <= Len(txBuffer) =>
              WorkOf(Len(txBuffer'), UntilSent) <= WorkOf(Len(txBuffer), UntilSent)
      BY <1>2, <1>4, WorkMonotonic
    <2>4. QED
      BY <1>5, <2>1, <2>2, <2>3
  <1>7. Work \in Nat /\ Work' \in Nat /\ Spacing \in Nat
    BY <1>2, <1>4, <1>5, UntilSentType, WorkFacts, Bounds DEF KeepInv
  <1>8. QED
    BY <1>4, <1>6, <1>7

\* A ping is due only long after the last one and never once answered.
LEMMA PingApart ==
    ASSUME KeepInv, Pinged
    PROVE  /\ linkState # "CONNECTED"
           /\ sincePing >= Statuses * Spacing + Spacing
  <1>1. linkState # "CONNECTED" /\ sincePing >= LINK_RETRY_MS
    BY Times, Bounds DEF Pinged, PingDue, KeepInv, ClockInv
  <1>2. LINK_RETRY_MS >= Statuses * Spacing + Spacing
    <2>1. Statuses * Spacing \in Nat /\ Spacing \in Nat
      BY WorkBounds, Bounds
    <2>2. QED
      BY <2>1, WorkBounds, Bounds
  <1>3. sincePing \in Nat /\ LINK_RETRY_MS \in Nat
        /\ Statuses * Spacing + Spacing \in Nat
    BY Times, WorkBounds, Bounds DEF KeepInv
  <1>4. QED
    BY <1>1, <1>2, <1>3

\* So that it finds no more than what is left of a report.
LEMMA PingFinds ==
    ASSUME KeepInv, Pinged, steady
    PROVE  Work <= 0 \/ Work + sinceReport <= Statuses * Spacing
  <1>1. PICK work \in Nat, report \in Nat, ping \in Nat, one \in Nat, all \in Nat :
            /\ work = Work /\ report = sinceReport /\ ping = sincePing
            /\ one = Spacing /\ all = Statuses * Spacing
    BY UntilSentType, Times, WorkBounds, Bounds DEF KeepInv
  <1>2. linkState # "CONNECTED" /\ ping >= all + one
    BY <1>1, PingApart
  <1>3. Later = IF report > ping THEN report ELSE ping
    BY <1>1 DEF Later
  <1>4. \/ work <= 0 \/ work + report <= all \/ work + ping <= one
        \/ work + Later <= all + one
    BY <1>1, <1>2 DEF KeepInv, WorkInv
  <1>5. work + ping <= one => work <= 0
    BY <1>2
  <1>6. work + Later <= all + one => work <= 0
    <2>1. PICK later \in Nat : later = Later /\ later >= ping
      BY <1>3
    <2>2. work + later <= all + one => work <= 0
      BY <1>2, <2>1
    <2>3. QED
      BY <2>1, <2>2
  <1>7. QED
    BY <1>1, <1>4, <1>5, <1>6

LEMMA WorkReceive ==
    ASSUME KeepInv, TypeOK', Receive
    PROVE  WorkInv'
  <1> SUFFICES ASSUME steady' PROVE WorkInv'
    BY DEF WorkInv
  <1>0. steady
    BY ReceiveEffect
  <1>1. /\ Work' \in Nat /\ Work \in Nat /\ sinceReport \in Nat /\ sincePing \in Nat
        /\ Statuses * Spacing \in Nat /\ Spacing \in Nat /\ sinceReport' = sinceReport
    BY ReceiveWork, ReceiveEffect, UntilSentType, Times, WorkBounds, Bounds DEF KeepInv
  <1>2. CASE Pinged
    <2>1. PICK work \in Nat, next \in Nat, report \in Nat, one \in Nat, all \in Nat :
              /\ work = Work /\ next = Work' /\ report = sinceReport
              /\ one = Spacing /\ all = Statuses * Spacing
      BY <1>1
    <2>2. next <= work + one
      BY <1>2, <2>1, ReceiveWork
    <2>3. work <= 0 \/ work + report <= all
      BY <1>0, <1>2, <2>1, PingFinds
    <2>4. next <= one \/ next + report <= all + one
      BY <2>2, <2>3
    <2>5. CASE linkState' = "CONNECTED"
      BY <1>1, <2>1, <2>4, <2>5 DEF WorkInv
    <2>6. CASE linkState' # "CONNECTED"
      <3>1. sincePing' = 0 /\ Later' = report
        BY <1>1, <1>2, <2>1, <2>6, ReceiveEffect DEF Later
      <3>2. next + 0 <= one \/ next + report <= all + one
        BY <2>4
      <3>3. QED
        BY <1>1, <2>1, <3>1, <3>2 DEF WorkInv
    <2>7. QED
      BY <2>5, <2>6
  <1>3. CASE ~Pinged
    <2>1. Work' <= Work
      BY <1>1, <1>3, ReceiveWork
    <2>2. CASE linkState' # "CONNECTED"
      <3>1. UNCHANGED <<linkState, sincePing>>
        BY <1>3, <2>2, ReceiveEffect
      <3>2. QED
        BY <1>0, <1>1, <2>1, <3>1, WorkFrame
    <2>3. CASE linkState' = "CONNECTED"
      <3>1. PICK work \in Nat, next \in Nat, report \in Nat, one \in Nat, all \in Nat,
                 ping \in Nat :
                /\ work = Work /\ next = Work' /\ report = sinceReport
                /\ ping = sincePing /\ one = Spacing /\ all = Statuses * Spacing
        BY <1>1
      <3>2. next <= work
        BY <2>1, <3>1
      <3>3. PICK later \in Nat : later = Later /\ later >= report
        BY <3>1 DEF Later
      <3>4. \/ work <= 0 \/ work + report <= all \/ work + ping <= one
            \/ work + later <= all + one \/ work <= one \/ work + report <= all + one
        BY <1>0, <3>1, <3>3 DEF KeepInv, WorkInv
      <3>5. next <= one \/ next + report <= all + one
        BY <3>2, <3>3, <3>4
      <3>6. QED
        BY <1>1, <2>3, <3>1, <3>5 DEF WorkInv
    <2>4. QED
      BY <2>2, <2>3
  <1>4. QED
    BY <1>2, <1>3

\* A report finds no more than a ping's window.
LEMMA ReportFinds ==
    ASSUME KeepInv, steady, sinceReport >= Interval
    PROVE  \/ Work <= 0 \/ Work + sincePing <= Spacing
           \/ linkState = "CONNECTED" /\ Work <= Spacing
  <1>1. PICK work \in Nat, report \in Nat, ping \in Nat, one \in Nat, all \in Nat :
            /\ work = Work /\ report = sinceReport /\ ping = sincePing
            /\ one = Spacing /\ all = Statuses * Spacing
    BY UntilSentType, Times, WorkBounds, Bounds DEF KeepInv
  <1>2. report >= all + one
    <2>1. PICK time \in Nat : time = Interval
      BY Bounds
    <2>2. report >= time /\ all + one <= time
      BY <1>1, <2>1, WorkBounds
    <2>3. QED
      BY <2>2
  <1>3. PICK later \in Nat : later = Later /\ later >= report
    BY <1>1 DEF Later
  <1>4. \/ work <= 0 \/ work + report <= all \/ work + ping <= one
        \/ work + later <= all + one
        \/ linkState = "CONNECTED" /\ (work <= one \/ work + report <= all + one)
    BY <1>1, <1>3 DEF KeepInv, WorkInv
  <1>5. work + report <= all => work <= 0
    BY <1>2
  <1>6. work + later <= all + one => work <= 0
    BY <1>2, <1>3
  <1>7. work + report <= all + one => work <= 0
    BY <1>2
  <1>8. QED
    BY <1>1, <1>4, <1>5, <1>6, <1>7

LEMMA EndPassWait ==
    ASSUME KeepInv, NoReport \/ Report, steady, txBuffer # <<>>
    PROVE  UntilSent' = UntilSent
  <1>1. /\ step = "rest" /\ step' = "link" /\ passMs' = 0 /\ sinceTx' = sinceTx
    BY DEF NoReport, Report, EndPass
  <1>2. UntilSent = Spacing - sinceTx /\ UntilSent >= PassMax
    BY <1>1, RestWait
  <1>3. UntilSent' = IF PassMax - 0 > Spacing - sinceTx
                     THEN PassMax - 0 ELSE Spacing - sinceTx
    BY <1>1 DEF UntilSent
  <1>4. PICK wait \in Int, max \in Nat :
            wait = UntilSent /\ wait = Spacing - sinceTx /\ max = PassMax /\ wait >= max
    BY <1>2, Bounds, UntilSentType DEF KeepInv
  <1>5. UntilSent' = IF max - 0 > wait THEN max - 0 ELSE wait
    BY <1>3, <1>4
  <1>6. ~(max - 0 > wait)
    BY <1>4
  <1>7. QED
    BY <1>4, <1>5, <1>6

LEMMA WorkNoReport ==
    ASSUME KeepInv, TypeOK', NoReport
    PROVE  WorkInv'
  <1>1. /\ UNCHANGED <<txBuffer, linkState, sincePing, sinceReport, steady>>
    BY DEF NoReport
  <1>2. Work' \in Nat
    BY UntilSentTypeNext
  <1>3. steady => Work' <= Work
    <2>1. CASE txBuffer = <<>>
      <3>1. Work' = 0 /\ Work = 0
        BY <1>1, <2>1 DEF Work, WorkOf
      <3>2. QED
        BY <3>1
    <2>2. CASE txBuffer # <<>> /\ steady
      <3>1. Work' = Work
        BY <1>1, <2>2, EndPassWait DEF Work
      <3>2. QED
        BY <1>2, <3>1
    <2>3. QED
      BY <2>1, <2>2
  <1>4. QED
    BY <1>1, <1>2, <1>3, WorkFrame

LEMMA ReportWork ==
    ASSUME KeepInv, TypeOK', Report, steady
    PROVE  Work' <= Work + Statuses * Spacing
  <1>1. /\ Len(txBuffer) \in Nat /\ Len(txBuffer') \in Nat
        /\ Len(txBuffer') <= Len(txBuffer) + Statuses /\ Statuses \in Nat
    <2>1. sendMessages(Aged, StatusPackets)
      BY DEF Report, Aged, StatusPackets
    <2>2. /\ Aged \in Seq(QueuedPacket) /\ Len(Aged) = Len(txBuffer)
          /\ StatusPackets \in Seq(QueuedPacket) /\ Len(StatusPackets) = Statuses
      BY QueueType, ReportFacts DEF KeepInv
    <2>3. txBuffer' = txBuffer \/ txBuffer' = Queued(Aged, StatusPackets)
      BY <2>1 DEF sendMessages
    <2>4. /\ Len(Queued(Aged, StatusPackets)) <= Len(txBuffer) + Statuses
          /\ Len(Queued(Aged, StatusPackets)) \in Nat /\ Len(txBuffer) \in Nat
          /\ Statuses \in Nat
      BY <2>2, QueuedFacts, LenProperties, QueueType, Bounds DEF KeepInv
    <2>5. CASE txBuffer' = txBuffer
      BY <2>4, <2>5
    <2>6. CASE txBuffer' = Queued(Aged, StatusPackets)
      BY <2>4, <2>6
    <2>7. QED
      BY <2>3, <2>5, <2>6
  <1>2. UntilSent' \in 0..Spacing /\ UntilSent \in 0..Spacing /\ Work \in Nat
        /\ Work' \in Nat
    BY UntilSentType, UntilSentTypeNext DEF KeepInv
  <1>3. Work' <= WorkOf(Len(txBuffer) + Statuses, UntilSent')
    BY <1>1, <1>2, WorkMonotonic DEF Work
  <1>4. WorkOf(Len(txBuffer) + Statuses, UntilSent')
            <= WorkOf(Len(txBuffer), UntilSent') + Statuses * Spacing
    BY <1>1, <1>2, WorkFacts
  <1>5. WorkOf(Len(txBuffer), UntilSent') = Work
    <2>1. CASE txBuffer = <<>>
      BY <2>1 DEF Work, WorkOf
    <2>2. CASE txBuffer # <<>>
      BY <2>2, EndPassWait DEF Work
    <2>3. QED
      BY <2>1, <2>2
  <1>6. PICK whole \in Nat : whole = WorkOf(Len(txBuffer) + Statuses, UntilSent')
    <2>1. Len(txBuffer) + Statuses \in Nat
      BY <1>1
    <2>2. QED
      BY <1>2, <2>1, WorkFacts
  <1>7. QED
    BY <1>2, <1>3, <1>4, <1>5, <1>6, WorkBounds

LEMMA WorkReport ==
    ASSUME KeepInv, TypeOK', Report
    PROVE  WorkInv'
  <1> SUFFICES ASSUME steady PROVE WorkInv'
    BY DEF Report, WorkInv
  <1>1. /\ sinceReport >= Interval /\ sinceReport' = 0
        /\ UNCHANGED <<linkState, sincePing>>
    BY DEF Report
  <1>2. PICK work \in Nat, next \in Nat, ping \in Nat, one \in Nat, all \in Nat :
            /\ work = Work /\ next = Work' /\ ping = sincePing
            /\ one = Spacing /\ all = Statuses * Spacing
    BY UntilSentType, UntilSentTypeNext, Times, WorkBounds, Bounds DEF KeepInv
  <1>3. next <= work + all
    BY <1>2, ReportWork
  <1>4. \/ work <= 0 \/ work + ping <= one
        \/ linkState = "CONNECTED" /\ work <= one
    BY <1>1, <1>2, ReportFinds
  <1>5. \/ next + 0 <= all \/ next + ping <= all + one
        \/ linkState = "CONNECTED" /\ next + 0 <= all + one
    BY <1>3, <1>4
  <1>6. Later' = ping
    BY <1>1, <1>2 DEF Later
  <1>7. QED
    BY <1>1, <1>2, <1>5, <1>6 DEF WorkInv

LEMMA WorkTransmit ==
    ASSUME KeepInv, TypeOK', Transmit
    PROVE  WorkInv'
  <1>1. /\ txBuffer # <<>> /\ txBuffer' = Tail(txBuffer)
        /\ steady' = (steady \/ Len(txBuffer) = 1)
        /\ UNCHANGED <<linkState, sincePing, sinceReport>>
    BY DEF Transmit
  <1>2. Len(txBuffer) \in Nat \ {0} /\ Len(txBuffer') = Len(txBuffer) - 1
    BY <1>1, QueueType, EmptySeq, HeadTailProperties DEF KeepInv
  <1>3. Work' \in Nat /\ UntilSent' \in 0..Spacing /\ UntilSent \in 0..Spacing
    BY UntilSentType, UntilSentTypeNext DEF KeepInv
  <1>4. CASE Len(txBuffer) = 1
    <2>1. Len(txBuffer') = 0
      BY <1>2, <1>4
    <2>2. Work' = 0
      BY <2>1 DEF Work, WorkOf
    <2>3. QED
      BY <2>2 DEF WorkInv
  <1>5. CASE Len(txBuffer) # 1
    <2>1. Work' = WorkOf(Len(txBuffer) - 1, UntilSent')
      BY <1>2 DEF Work
    <2>2. Work' <= Work
      BY <1>2, <1>3, <2>1, WorkFacts DEF Work
    <2>3. steady' => steady
      BY <1>1, <1>5
    <2>4. QED
      BY <1>1, <1>3, <2>2, <2>3, WorkFrame
  <1>6. QED
    BY <1>4, <1>5

\* The window is still open, or the module transmits, or nothing waits.
LEMMA WorkWait ==
    ASSUME KeepInv, TypeOK', Wait \/ NothingToSend
    PROVE  WorkInv'
  <1>1. /\ step = "transmit" /\ step' = "rest"
        /\ UNCHANGED <<txBuffer, linkState, sincePing, sinceReport, sinceTx, passMs,
                       steady>>
    BY DEF Wait, NothingToSend, Goto, clockVars
  <1>2. Work' \in Nat /\ UntilSent' \in 0..Spacing /\ UntilSent \in 0..Spacing
    BY UntilSentType, UntilSentTypeNext DEF KeepInv
  <1>3. UntilSent' <= UntilSent
    <2>1. UntilSent' = Spacing - sinceTx
      BY <1>1 DEF UntilSent
    <2>2. UntilSent = IF PassMax - passMs > Spacing - sinceTx
                      THEN PassMax - passMs ELSE Spacing - sinceTx
      BY <1>1 DEF UntilSent
    <2>3. PICK wait \in Int, rest \in Int :
              wait = Spacing - sinceTx /\ rest = PassMax - passMs
      BY Times, Bounds DEF KeepInv
    <2>4. UntilSent = IF rest > wait THEN rest ELSE wait
      BY <2>2, <2>3
    <2>5. QED
      BY <2>1, <2>3, <2>4
  <1>4. Work' <= Work
    <2>1. PICK next \in 0..UntilSent : next = UntilSent'
      BY <1>2, <1>3
    <2>2. WorkOf(Len(txBuffer), next) <= WorkOf(Len(txBuffer), UntilSent)
      BY <1>2, <2>1, WorkFacts, QueueType DEF KeepInv
    <2>3. QED
      BY <1>1, <2>1, <2>2 DEF Work
  <1>5. QED
    BY <1>1, <1>2, <1>4, WorkFrame

LEMMA WorkStep ==
    ASSUME KeepInv, TypeOK', [Next]_vars
    PROVE  WorkInv'
  <1>1. CASE Tick
    BY <1>1, WorkTick
  <1>2. CASE TxDone \/ Arrival \/ UNCHANGED vars
    <2>1. UNCHANGED <<txBuffer, linkState, sincePing, sinceReport, sinceTx, passMs,
                      step, steady>>
      BY <1>2, ArrivalEffect DEF TxDone, vars, clockVars
    <2>2. Work' = Work /\ Work \in Nat
      BY <2>1, UntilSentType DEF Work, UntilSent, KeepInv
    <2>3. QED
      BY <2>1, <2>2, WorkFrame
  <1>3. CASE Unserviced
    BY <1>3 DEF Unserviced, WorkInv
  <1>4. CASE Receive
    BY <1>4, WorkReceive
  <1>5. CASE Wait \/ NothingToSend
    BY <1>5, WorkWait
  <1>6. CASE Transmit
    BY <1>6, WorkTransmit
  <1>7. CASE NoReport
    BY <1>7, WorkNoReport
  <1>8. CASE Report
    BY <1>8, WorkReport
  <1>9. QED
    BY <1>1, <1>2, <1>3, <1>4, <1>5, <1>6, <1>7, <1>8
    DEF Next, loop, update, Receive, Arrival

\* The queue then holds at most a report and a ping.
LEMMA QueueShort ==
    ASSUME KeepInv, steady
    PROVE  /\ Len(txBuffer) <= Statuses + 1
           /\ Pinged => Len(txBuffer) <= Statuses
           /\ sinceReport >= Interval /\ step = "rest" => Len(txBuffer) <= 1
  <1>1. PICK n \in Nat, wait \in 0..Spacing, report \in Nat, ping \in Nat :
            /\ n = Len(txBuffer) /\ wait = UntilSent
            /\ report = sinceReport /\ ping = sincePing
    BY QueueType, UntilSentType, Times DEF KeepInv
  <1>2. Work = WorkOf(n, wait) /\ WorkOf(n, wait) \in Nat
    BY <1>1, WorkFacts DEF Work
  <1>3. /\ Statuses \in Nat \ {0} /\ Spacing \in Nat \ {0}
        /\ Statuses * Spacing \in Nat
        /\ (Statuses + 1) * Spacing = Statuses * Spacing + Spacing
        /\ 0 * Spacing = 0 /\ 1 * Spacing = Spacing
    BY Bounds, WorkBounds
  <1>4. \/ n = 0 \/ wait > 0 \/ report > 0
    <2> SUFFICES ASSUME n # 0, wait = 0 PROVE report > 0
      BY <1>1
    <2>1. step # "rest"
      <3>1. step = "rest" => wait >= PassMax
        BY <1>1, RestWait, EmptySeq
      <3>2. QED
        BY <3>1, Bounds
    <2>2. passMs = PassMax
      <3>1. ~(PassMax - passMs > 0)
        BY <1>1, <2>1, Times, Bounds DEF UntilSent, KeepInv
      <3>2. QED
        BY <3>1, Times, Bounds DEF KeepInv
    <2>3. QED
      BY <1>1, <2>2, Times, Bounds DEF KeepInv, ClockInv
  <1>5. n <= Statuses + 1
    <2>1. WorkOf(n, wait) <= (Statuses + 1) * Spacing
          /\ (report > 0 => WorkOf(n, wait) < (Statuses + 1) * Spacing \/ WorkOf(n, wait) <= Spacing)
      <3>1. PICK work \in Nat, one \in Nat \ {0}, all \in Nat, later \in Nat :
                /\ work = WorkOf(n, wait) /\ one = Spacing /\ all = Statuses * Spacing
                /\ later = Later /\ later >= report
        BY <1>1, <1>2, <1>3 DEF Later
      <3>2. \/ work <= 0 \/ work + report <= all \/ work + ping <= one
            \/ work + later <= all + one \/ work <= one \/ work + report <= all + one
        BY <1>1, <1>2, <3>1 DEF KeepInv, WorkInv
      <3>3. work <= all + one /\ (report > 0 => work < all + one \/ work <= one)
        BY <3>1, <3>2
      <3>4. QED
        BY <1>3, <3>1, <3>3
    <2>2. WorkOf(n, wait) <= Spacing => n <= 2
      BY <1>3, FewPackets
    <2>0. Statuses + 1 \in Nat
      BY <1>3
    <2>3. n <= Statuses + 1 \/ wait = 0
      <3>1. wait > 0 => n <= Statuses + 1
        BY <2>0, <2>1, FewPackets
      <3>2. QED
        BY <3>1
    <2>4. WorkOf(n, wait) < (Statuses + 1) * Spacing => n <= Statuses + 1
      BY <2>0, <2>1, FewPackets
    <2>5. QED
      BY <1>3, <1>4, <2>1, <2>2, <2>3, <2>4
  <1>6. Pinged => n <= Statuses
    <2> SUFFICES ASSUME Pinged PROVE n <= Statuses
      OBVIOUS
    <2>1. WorkOf(n, wait) <= 0 \/ WorkOf(n, wait) + report <= Statuses * Spacing
      BY <1>1, <1>2, PingFinds
    <2>2. CASE WorkOf(n, wait) <= 0
      <3>1. n <= 0 + 1
        BY <1>3, <2>2, FewPackets
      <3>2. QED
        BY <1>3, <3>1
    <2>3. CASE WorkOf(n, wait) + report <= Statuses * Spacing
      <3>1. WorkOf(n, wait) <= Statuses * Spacing
            /\ (report > 0 => WorkOf(n, wait) < Statuses * Spacing)
        BY <1>2, <1>3, <2>3
      <3>2. wait > 0 => n <= Statuses
        BY <1>3, <3>1, FewPackets
      <3>3. report > 0 => n <= Statuses
        BY <1>3, <3>1, FewPackets
      <3>4. QED
        BY <1>3, <1>4, <3>2, <3>3
    <2>4. QED
      BY <2>1, <2>2, <2>3
  <1>7. sinceReport >= Interval /\ step = "rest" => n <= 1
    <2> SUFFICES ASSUME sinceReport >= Interval, step = "rest", n # 0 PROVE n <= 1
      OBVIOUS
    <2>1. WorkOf(n, wait) <= 1 * Spacing
      <3>1. PICK work \in Nat, one \in Nat : work = WorkOf(n, wait) /\ one = Spacing
        BY <1>2, <1>3
      <3>2. work <= 0 \/ work + ping <= one \/ work <= one
        BY <1>1, <1>2, <3>1, ReportFinds
      <3>3. work <= one
        BY <3>2
      <3>4. QED
        BY <1>3, <3>1, <3>3
    <2>2. wait > 0
      <3>1. wait >= PassMax
        BY <1>1, RestWait, EmptySeq
      <3>2. QED
        BY <3>1, Bounds
    <2>3. QED
      BY <2>1, <2>2, FewPackets
  <1>8. QED
    BY <1>1, <1>5, <1>6, <1>7

LEMMA LostStep ==
    ASSUME KeepInv, KeepsUp, [Next]_vars
    PROVE  KeepsUp'
  <1>1. CASE UNCHANGED lost
    BY <1>1 DEF KeepsUp
  <1>2. CASE Receive /\ steady
    <2>1. PICK reply \in {<<>>, <<Other>>} : sendMessages(txBuffer, LinkSends(reply))
      BY <1>2, ReceiveEffect
    <2>2. Len(LinkSends(reply)) = (IF Pinged THEN 1 ELSE 0) + Len(reply)
          /\ Len(reply) \in {0, 1}
      BY LinkSendsFacts DEF Pinged
    <2>3. Len(txBuffer) \in Nat /\ Len(txBuffer) <= Statuses + 1
          /\ (Pinged => Len(txBuffer) <= Statuses)
      BY <1>2, QueueShort, QueueType DEF KeepInv
    <2>4. ~(Len(txBuffer) + Len(LinkSends(reply)) > TX_SIZE)
      <3>1. PICK n \in Nat, sent \in Nat, more \in Nat :
                n = Len(txBuffer) /\ sent = Len(LinkSends(reply)) /\ more = Len(reply)
        BY <2>2, <2>3
      <3>2. n + sent <= Statuses + 2
        <4>1. CASE Pinged
          <5>1. sent <= 2 /\ n <= Statuses
            BY <2>2, <2>3, <3>1, <4>1
          <5>2. QED
            BY <3>1, <5>1, Bounds
        <4>2. CASE ~Pinged
          BY <2>2, <2>3, <3>1, <4>2, Bounds
        <4>3. QED
          BY <4>1, <4>2
      <3>3. QED
        BY <3>1, <3>2, WorkBounds, Bounds
    <2>5. QED
      BY <2>1, <2>4 DEF sendMessages, KeepsUp
  <1>3. CASE Report /\ steady
    <2>1. sendMessages(Aged, StatusPackets) /\ sinceReport >= Interval /\ step = "rest"
      BY <1>3 DEF Report, Aged, StatusPackets
    <2>2. Len(Aged) = Len(txBuffer) /\ Len(StatusPackets) = Statuses
          /\ Len(txBuffer) \in Nat
      BY QueueType, ReportFacts DEF KeepInv
    <2>3. Len(txBuffer) <= 1
      BY <1>3, <2>1, QueueShort
    <2>4. ~(Len(Aged) + Len(StatusPackets) > TX_SIZE)
      BY <2>2, <2>3, WorkBounds, Bounds
    <2>5. QED
      BY <2>1, <2>4 DEF sendMessages, KeepsUp
  <1>4. CASE (Receive \/ Report) /\ ~steady
    <2>1. \E queue, packets : sendMessages(queue, packets)
      BY <1>4, ReceiveEffect DEF Report
    <2>2. QED
      BY <1>4, <2>1 DEF sendMessages, KeepsUp
  <1>5. QED
    BY <1>1, <1>2, <1>3, <1>4
    DEF Next, loop, update, Receive, Tick, TxDone, RxDone, Unserviced, Wait,
        NothingToSend, Transmit, NoReport, vars

\* While update() can transmit in every pass, the queue keeps up with reports,
\* pings and replies and displaces nothing, for every window, pass bound and
\* report interval that leave a window for each status packet and a ping
\* (Radio::update(), updateLink(), loop()).
THEOREM QueueKeepsUp == Spec => []KeepsUp
  <1>1. Init => WindowInv /\ WorkInv /\ KeepsUp
    BY DEF Init, WindowInv, WorkInv, KeepsUp
  <1>2. TypeOK /\ ClockInv /\ TypeOK' /\ WindowInv /\ WorkInv /\ KeepsUp /\ [Next]_vars
            => WindowInv' /\ WorkInv' /\ KeepsUp'
    BY WindowStep, WorkStep, LostStep DEF KeepInv
  <1>3. QED
    BY <1>1, <1>2, Clocked, PTL DEF Spec
=============================================================================
