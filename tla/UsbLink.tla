------------------------------ MODULE UsbLink ------------------------------
(***************************************************************************)
(* The USB link (src/usb.cpp): the frame parser, the receive and transmit  *)
(* queues, and what USB::update() does with them in one pass of loop().    *)
(*                                                                         *)
(* USB is a stream of bytes.  What arrives is a sequence of items: whole   *)
(* frames (Sent, framed) and what a disconnect, a reset of the host or a   *)
(* bad line makes of frames (Damage).  update() reads what has arrived,    *)
(* writes at most one frame and acts on at most one packet: Read is one    *)
(* item of its loop, Serve the rest.  The other services of loop() append  *)
(* to the transmit queue, which reading does not touch, so it makes no     *)
(* difference that they may come between a Read and the Serve of the same  *)
(* pass.  A pass that finds the port closed does nothing.                  *)
(***************************************************************************)
EXTENDS Integers, Sequences

CONSTANTS
    Sent,           \* the packets a dashboard sends, [type, payload]
    Damage,         \* byte sequences that are not whole frames
    MaxGarbage,     \* bound: damage arrives only while the parser holds at
                    \* most this many bytes of an unfinished frame
    CRC(_),         \* packetCrc, of the bytes of header and payload
    TX_DEPTH,
    RX_DEPTH,
    PacketWrap,     \* modulus of globalPacketNumber and of txDropped
    MaxEntries,     \* MAX_CONFIG_ENTRIES
    MaxReadEntries, \* MAX_READ_CONFIG_ENTRIES
    TextLengths,    \* lengths of debug messages
    PortRoom,       \* what Serial.availableForWrite() returns of an idle port
    Rooms           \* what it may return

Byte == 0..255

MAX_DATA_LEN         == 64
USB_FRAME_OVERHEAD   == 9
USB_SYNC_0           == 165
USB_SYNC_1           == 90
USB_PROTOCOL_VERSION == 1
IDENTIFY_QUERY_BYTE  == 63
CONFIG_VERSION       == 3
READ                 == 1
SET                  == 2

\* The types a dashboard may send.
RAW       == 0
COMMAND   == 4
CONFIG    == 5
HEARTBEAT == 10

CONFIG_HEADER_SIZE == 3
CONFIG_ENTRY_SIZE  == 6
MaxConfig == CONFIG_HEADER_SIZE + MaxEntries * CONFIG_ENTRY_SIZE

\* isValidRxHeader
ValidLengths(type) ==
    CASE type \in {COMMAND, HEARTBEAT} -> {8}
      [] type = RAW                    -> {1}
      [] type = CONFIG                 -> CONFIG_HEADER_SIZE..MaxConfig
      [] OTHER                         -> {}

Packet == [type : {RAW, COMMAND, CONFIG, HEARTBEAT}, payload : Seq(Byte)]

ASSUME UsbAssumptions ==
    /\ \A p \in Sent : p \in Packet /\ Len(p.payload) \in ValidLengths(p.type)
    /\ Damage \subseteq Seq(Byte)
    /\ MaxGarbage \in Nat
    /\ {TX_DEPTH, RX_DEPTH, MaxEntries, MaxReadEntries} \subseteq Nat \ {0}
    /\ MaxConfig <= MAX_DATA_LEN
    /\ 4 + 3 * MaxEntries <= MAX_DATA_LEN       \* ConfigResponse
    /\ 4 + 7 * MaxReadEntries <= MAX_DATA_LEN   \* ConfigReadResponse
    /\ TextLengths \subseteq Nat \ {0}
    /\ PacketWrap \in Nat \ {0}
    /\ TX_DEPTH < PacketWrap
    /\ USB_FRAME_OVERHEAD + MAX_DATA_LEN <= PortRoom   \* the static_assert
    /\ Rooms \subseteq 0..PortRoom /\ PortRoom \in Rooms

VARIABLES
    parser,     \* rx_state, with the bytes of temp_rx_pkt and crc_bytes that count
    rxBuffer,   \* packets waiting to be acted on
    txBuffer,   \* packets waiting to be written
    packetNum,  \* globalPacketNumber
    displaced,  \* txDropped, counted from the last packet written
    wire,       \* history: the number of the last packet written
    newest,     \* history: the last packet accepted, while any is waiting
    missed      \* history: whole frames in a row that were read and not
                \* accepted, since the last damage

vars == <<parser, rxBuffer, txBuffer, packetNum, displaced, wire, newest, missed>>

RxState == {"FIND_SYNC_0", "FIND_SYNC_1", "READ_VERSION", "READ_HEADER",
            "READ_PAYLOAD", "READ_CRC_0", "READ_CRC_1"}

NoPacket == [type |-> RAW, payload |-> <<>>]
Outgoing == [length : 0..MAX_DATA_LEN, num : 0..PacketWrap - 1]

TypeOK ==
    /\ parser \in [state : RxState, got : Seq(Byte)]
    /\ rxBuffer \in Seq(Packet) /\ Len(rxBuffer) <= RX_DEPTH
    /\ txBuffer \in Seq(Outgoing) /\ Len(txBuffer) <= TX_DEPTH
    /\ packetNum \in 0..PacketWrap - 1
    /\ displaced \in 0..PacketWrap - 1
    /\ wire \in 0..PacketWrap - 1
    /\ newest \in Packet
    /\ missed \in Nat

-----------------------------------------------------------------------------
\* The wire format

Header(p) == <<0, 0, p.type, Len(p.payload)>>

Body(p) == Header(p) \o p.payload

\* The bytes of a frame, as update() writes them and a dashboard does.
Framed(body, crc) ==
    <<USB_SYNC_0, USB_SYNC_1, USB_PROTOCOL_VERSION>> \o body \o <<crc % 256, crc \div 256>>

Frame(p) == Framed(Body(p), CRC(Body(p)))

SentFrames == {Frame(p) : p \in Sent}

\* A CRC has two bytes.
ASSUME CrcIsWord == \A p \in Sent : CRC(Body(p)) \in 0..256 * 256 - 1

Searching == [state |-> "FIND_SYNC_0", got |-> <<>>]

\* Mutant: the lengths of CONFIG frames are not checked.
HeaderValidByType(header) == ValidLengths(header[3]) # {}

HeaderValid(header) == header[4] \in ValidLengths(header[3])

AfterHeader(got) ==
    IF Len(got) < 4 THEN [state |-> "READ_HEADER", got |-> got]
    ELSE IF HeaderValid(got) THEN [state |-> "READ_PAYLOAD", got |-> got]
    ELSE Searching

\* Mutant: the payload ends one byte late.
AfterPayloadLate(got) ==
    [state |-> IF Len(got) > 4 + got[4] THEN "READ_CRC_0" ELSE "READ_PAYLOAD", got |-> got]

AfterPayload(got) ==
    [state |-> IF Len(got) = 4 + got[4] THEN "READ_CRC_0" ELSE "READ_PAYLOAD", got |-> got]

\* The parser on one byte.  `got` is header, payload and first CRC byte.
ParseByte(p, byte) ==
    CASE p.state = "FIND_SYNC_0" ->
            [p EXCEPT !.state = IF byte = USB_SYNC_0 THEN "FIND_SYNC_1" ELSE @]
      [] p.state = "FIND_SYNC_1" ->
            [p EXCEPT !.state = IF byte = USB_SYNC_1 THEN "READ_VERSION"
                                ELSE IF byte = USB_SYNC_0 THEN @ ELSE "FIND_SYNC_0"]
      [] p.state = "READ_VERSION" ->
            [p EXCEPT !.state = IF byte = USB_PROTOCOL_VERSION THEN "READ_HEADER"
                                ELSE "FIND_SYNC_0"]
      [] p.state = "READ_HEADER"  -> AfterHeader(Append(p.got, byte))
      [] p.state = "READ_PAYLOAD" -> AfterPayload(Append(p.got, byte))
      [] p.state = "READ_CRC_0"   -> [state |-> "READ_CRC_1", got |-> Append(p.got, byte)]
      [] p.state = "READ_CRC_1"   -> Searching

\* Mutant: the CRC is not compared.
CompletesUnchecked(p, byte) == p.state = "READ_CRC_1"

\* The byte completes a frame whose CRC is right.
Completes(p, byte) ==
    /\ p.state = "READ_CRC_1"
    /\ p.got[5 + p.got[4]] + 256 * byte = CRC(SubSeq(p.got, 1, 4 + p.got[4]))

Received(p) == [type |-> p.got[3], payload |-> SubSeq(p.got, 5, 4 + p.got[4])]

\* One turn of the while loop of update(): the parser, and the packets
\* accepted so far.
Turn(before, byte) ==
    [parser   |-> ParseByte(before.parser, byte),
     accepted |-> IF Completes(before.parser, byte)
                  THEN Append(before.accepted, Received(before.parser))
                  ELSE before.accepted]

\* The loop over the bytes of one item.
Parse(item) ==
    LET run[i \in 0..Len(item)] ==
            IF i = 0 THEN [parser |-> parser, accepted |-> <<>>]
            ELSE Turn(run[i - 1], item[i])
    IN  run[Len(item)]

-----------------------------------------------------------------------------
\* The queues

\* Mutant: a full queue refuses what comes.
EnqueueRefusing(queue, packets, depth) ==
    LET all == queue \o packets
    IN  IF Len(all) <= depth THEN all ELSE SubSeq(all, 1, depth)

\* Mutant: a queue without a limit.
EnqueueUnlimited(queue, packets, depth) == queue \o packets

\* Circular_Buffer::push_back, of several packets in a row: a full buffer
\* overwrites its oldest entry.
Enqueue(queue, packets, depth) ==
    LET all == queue \o packets
    IN  IF Len(all) <= depth THEN all
        ELSE SubSeq(all, Len(all) - depth + 1, Len(all))

\* Mutant: a queue counts as full one entry too late.
OverflowLate(queue, packets, depth) ==
    IF Len(queue) <= depth THEN 0 ELSE Len(packets)

\* How many entries that overwrites.
Overflow(queue, packets, depth) ==
    IF Len(queue) + Len(packets) <= depth THEN 0
    ELSE Len(queue) + Len(packets) - depth

\* The messages, given by their lengths, with the numbers send() gives them.
Numbered(lengths) ==
    [i \in 1..Len(lengths) |->
        [length |-> lengths[i], num |-> (packetNum + i - 1) % PacketWrap]]

\* send(), of each message in turn, to a transmit queue of which `lost`
\* packets have been displaced since the last one was written.
Send(queue, lost, messages) ==
    /\ txBuffer' = Enqueue(queue, Numbered(messages), TX_DEPTH)
    /\ packetNum' = (packetNum + Len(messages)) % PacketWrap
    /\ displaced' = (lost + Overflow(queue, messages, TX_DEPTH)) % PacketWrap

-----------------------------------------------------------------------------
\* Replies

\* Payload lengths of outgoing messages.
Telemetry      == 64
RadioPacket    == 11
Identity       == 1
Refusal        == 4
SetResponse(n)  == 4 + 3 * n
ReadResponse(n) == 4 + 7 * n

\* Mutant: the number of entries is limited by the length check alone.
EntriesUnlimited(p) ==
    IF Len(p.payload) = (CONFIG_HEADER_SIZE + p.payload[3] * CONFIG_ENTRY_SIZE) % 256
    THEN p.payload[3]
    ELSE 0

\* The entries of a CONFIG packet that handleConfig() goes through; none when
\* it refuses.  The expected length is computed in a byte.
Entries(p) ==
    LET count == p.payload[3]
        limit == CASE p.payload[2] = READ -> MaxReadEntries
                   [] p.payload[2] = SET  -> MaxEntries
                   [] OTHER               -> 0
    IN  IF /\ p.payload[1] = CONFIG_VERSION
           /\ Len(p.payload) = (CONFIG_HEADER_SIZE + count * CONFIG_ENTRY_SIZE) % 256
           /\ count <= limit
        THEN count
        ELSE 0

ConfigReply(p) ==
    IF Entries(p) = 0 THEN Refusal
    ELSE IF p.payload[2] = READ THEN ReadResponse(Entries(p)) ELSE SetResponse(Entries(p))

\* What update() sends in answer to a packet.  What the packet does to the
\* vehicle or to the configuration is FlightCore's and ConfigStore's.
Reply(p) ==
    CASE p.type = RAW /\ p.payload = <<IDENTIFY_QUERY_BYTE>> -> <<Identity>>
      [] p.type = CONFIG -> <<ConfigReply(p)>>
      [] OTHER -> <<>>

-----------------------------------------------------------------------------
Init ==
    /\ parser = Searching
    /\ rxBuffer = <<>>
    /\ txBuffer = <<>>
    /\ packetNum = 0
    /\ displaced = 0
    /\ wire = PacketWrap - 1
    /\ newest = NoPacket
    /\ missed = 0

\* The parser reads `item` and queues what it accepts.
Accept(item, whole) ==
    LET result   == Parse(item)
        accepted == result.accepted
    IN  /\ parser' = result.parser
        /\ rxBuffer' = Enqueue(rxBuffer, accepted, RX_DEPTH)
        /\ newest' = IF accepted = <<>> THEN newest ELSE accepted[Len(accepted)]
        /\ missed' = IF whole /\ accepted = <<>> THEN missed + 1 ELSE 0
        /\ UNCHANGED <<txBuffer, packetNum, displaced, wire>>

\* A whole frame arrives.
ReadFrame == \E frame \in SentFrames : Accept(frame, TRUE)

\* Anything else arrives.
ReadDamage ==
    /\ Len(parser.got) <= MaxGarbage
    /\ \E item \in Damage : Accept(item, FALSE)

\* Mutant: the head is written only if the port has room to spare.
FitsWithMargin(room) ==
    txBuffer # <<>> /\ USB_FRAME_OVERHEAD + txBuffer[1].length < room

\* The head of the transmit queue fits what the port takes now.
Fits(room) ==
    txBuffer # <<>> /\ USB_FRAME_OVERHEAD + txBuffer[1].length <= room

\* The rest of update(): one frame is written, then one packet acted on.
Serve(room) ==
    /\ wire' = IF Fits(room) THEN txBuffer[1].num ELSE wire
    /\ Send(IF Fits(room) THEN Tail(txBuffer) ELSE txBuffer,
            IF Fits(room) THEN 0 ELSE displaced,
            IF rxBuffer = <<>> THEN <<>> ELSE Reply(rxBuffer[1]))
    /\ rxBuffer' = IF rxBuffer = <<>> THEN <<>> ELSE Tail(rxBuffer)
    /\ newest' = IF Len(rxBuffer) <= 1 THEN NoPacket ELSE newest
    /\ UNCHANGED <<parser, missed>>

\* The other services of loop() send.
SendOnly(messages) ==
    /\ Send(txBuffer, displaced, messages)
    /\ UNCHANGED <<parser, rxBuffer, wire, newest, missed>>

SendTelemetry == SendOnly(<<Telemetry>>)

RadioRelay == SendOnly(<<RadioPacket>>)

\* sendText(): a message longer than a frame is cut up.
Chunks(length) ==
    [i \in 1..(length + MAX_DATA_LEN - 1) \div MAX_DATA_LEN |->
        IF length >= i * MAX_DATA_LEN THEN MAX_DATA_LEN ELSE length % MAX_DATA_LEN]

SendText == \E length \in TextLengths : SendOnly(Chunks(length))

Next ==
    \/ ReadFrame
    \/ ReadDamage
    \/ \E room \in Rooms : Serve(room)
    \/ SendTelemetry
    \/ RadioRelay
    \/ SendText

Spec == Init /\ [][Next]_vars

-----------------------------------------------------------------------------
\* Only packets that a dashboard sent are acted on: the parser never takes
\* the end of one frame with the beginning of another, or a frame with a
\* flipped bit, for a frame (update(), usb.cpp:311-370).
OnlySentAccepted == \A i \in 1..Len(rxBuffer) : rxBuffer[i] \in Sent

\* What the parser has taken of a frame.
Begun(p) ==
    CASE p.state = "FIND_SYNC_0"  -> <<>>
      [] p.state = "FIND_SYNC_1"  -> <<USB_SYNC_0>>
      [] p.state = "READ_VERSION" -> <<USB_SYNC_0, USB_SYNC_1>>
      [] OTHER -> <<USB_SYNC_0, USB_SYNC_1, USB_PROTOCOL_VERSION>> \o p.got

\* A frame of packet p, with its CRC, stands among the bytes.
Stands(p, bytes) ==
    LET n == Len(p.payload)
    IN  \E start \in 0..Len(bytes) - USB_FRAME_OVERHEAD - n :
            LET body == SubSeq(bytes, start + 4, start + 7 + n)
            IN  /\ bytes[start + 1] = USB_SYNC_0
                /\ bytes[start + 2] = USB_SYNC_1
                /\ bytes[start + 3] = USB_PROTOCOL_VERSION
                /\ body[3] = p.type /\ body[4] = n /\ SubSeq(body, 5, 4 + n) = p.payload
                /\ bytes[start + 8 + n] + 256 * bytes[start + 9 + n] = CRC(body)

EndsWith(bytes, part) ==
    /\ Len(part) <= Len(bytes)
    /\ \A i \in 1..Len(part) : bytes[Len(bytes) - Len(part) + i] = part[i]

\* Whatever damage does to the stream, each packet that the parser accepts
\* next stands in it whole, without a gap and with its CRC: among the bytes it
\* reads and those before them that it had taken as the beginning of a frame;
\* and what it has then taken are the last bytes of the stream.  No byte is
\* taken twice, left out, or kept from a frame that was given up (update(),
\* usb.cpp:311-370).
WholeFramesOnly ==
    \A item \in SentFrames \union Damage :
        LET bytes  == Begun(parser) \o item
            result == Parse(item)
        IN  /\ \A k \in 1..Len(result.accepted) : Stands(result.accepted[k], bytes)
            /\ EndsWith(bytes, Begun(result.parser))

\* A parser between frames takes a whole frame for exactly the packet that was
\* framed, whatever a full queue displaces for it, and is between frames again:
\* sync bytes, version, header or payload inside the frame never end it early
\* or late (update(), usb.cpp:311-370, against the frame it writes itself,
\* usb.cpp:387-402).
InStepDelivers ==
    [][parser = Searching =>
           \A p \in Sent : Accept(Frame(p), TRUE) =>
               /\ parser' = Searching
               /\ rxBuffer' # <<>> /\ rxBuffer'[Len(rxBuffer')] = p]_vars

\* After damage the parser is back in step within the frames that the longest
\* payload it may be waiting for, and its CRC, can swallow: a truncated frame
\* or a sync byte inside one never locks it out (usb.cpp:309-310).
ResyncBound == 1 + (MaxConfig + 2) \div (USB_FRAME_OVERHEAD + 1)
Resyncs == missed <= ResyncBound

\* The parser counts payload bytes until their number equals the length in the
\* header: whatever header damage produces, it stops before the end of
\* data.raw, which the next byte is stored into (usb.cpp:333, 340-347).
PayloadInBounds ==
    parser.state = "READ_PAYLOAD" => Len(parser.got) < 4 + MAX_DATA_LEN

\* Whatever a full receive queue displaces, the newest frame is kept
\* (usb.cpp:355-365: refusing it "meant the freshest command was the one
\* thrown away").
NewestKept == rxBuffer # <<>> => rxBuffer[Len(rxBuffer)] = newest

\* A dashboard that sees the numbers skip may conclude that exactly that many
\* newer frames displaced older ones: what is queued is numbered without a
\* gap up to the last number given, whatever was displaced or written
\* (send(), usb.cpp:443-465).
SkipsAreDisplaced ==
    /\ \A i \in 1..Len(txBuffer) :
          txBuffer[i].num = (wire + displaced + i) % PacketWrap
    /\ packetNum = (wire + displaced + Len(txBuffer) + 1) % PacketWrap

\* handleConfig() never goes through entries beyond the payload it was given,
\* although it works out the expected length in a byte (usb.cpp:562-642).
ConfigWithinFrame ==
    \A i \in 1..Len(rxBuffer) :
        rxBuffer[i].type = CONFIG /\ Entries(rxBuffer[i]) > 0 =>
            CONFIG_HEADER_SIZE + Entries(rxBuffer[i]) * CONFIG_ENTRY_SIZE
                <= Len(rxBuffer[i].payload)

\* Whatever reply, report or text comes to the head of the transmit queue, an
\* idle port takes it: a head that does not fit would block all that is
\* behind it for good (usb.cpp:31-43).
HeadFits == txBuffer # <<>> => Fits(PortRoom)
=============================================================================
