----------------------------- MODULE MCUsbLink -----------------------------
(***************************************************************************)
(* UsbLink with the real CRC and bytes, on short queues.                   *)
(***************************************************************************)
EXTENDS UsbLink, Crc16

Zeros(n) == [i \in 1..n |-> 0]

\* Requests MAN_FLIGHT.
Heartbeat == [type |-> HEARTBEAT, payload |-> <<11>> \o Zeros(7)]

\* gimbalX is 0x5AA5 and gimbalY begins with 1: sync and version inside a
\* frame, followed by a header that is none.
Command == [type |-> COMMAND, payload |-> <<0, 165, 90, 1, 0, 120, 4, 0>>]

Identify == [type |-> RAW, payload |-> <<63>>]

\* READ of one key.
ReadOne == [type |-> CONFIG, payload |-> <<3, 1, 1, 3, 0, 0, 0, 0, 0>>]

\* SET whose count is 128 too large: its length agrees in a byte.
SetTooMany == [type |-> CONFIG, payload |-> <<3, 2, 129, 3, 0, 0, 0, 0, 0>>]

MCSent == {Heartbeat, Command, Identify, ReadOne, SetTooMany}

\* The frame of a packet, with the CRC worked out.
MCFrame(p) == Framed(Body(p), packetCrc(Body(p)))

\* Byte i of the frame with bit k flipped.
Garbled(p, i, k) == [MCFrame(p) EXCEPT ![i] = Flip(@, k)]
Cut(p, n) == SubSeq(MCFrame(p), 1, n)

\* The beginning of a CONFIG frame of the longest payload.
LongHeader == <<165, 90, 1, 0, 0, CONFIG, MaxConfig>>

\* A frame cut short within its sync bytes, header, payload and CRC; a bit
\* flipped in its type, its length (72 then, more than a packet holds) and its
\* payload.
Breakage ==
    {Cut(Command, n) : n \in {1, 2, 3, 5, 7, 16}} \union {LongHeader}
      \union {Garbled(Heartbeat, 6, 1), Garbled(Heartbeat, 7, 6),
               Garbled(Heartbeat, 8, 1), Garbled(ReadOne, 7, 2)}

\* TLC evaluates a definition once, but not one that stands for a constant.
MCDamage == Breakage

\* The CRCs the run needs again and again, worked out once: of what is sent,
\* and of what a damaged frame and the two behind it may be taken for.
Mistaken ==
    {SubSeq(item \o MCFrame(p) \o MCFrame(q), 4, 7 + item[7]) :
        item \in {d \in Breakage : Len(d) >= 7 /\ d[7] <= MaxConfig},
        p, q \in MCSent}

Known == [body \in {Body(p) : p \in MCSent} \union Mistaken
            |-> packetCrc(body)]

MCCRC(body) == IF body \in DOMAIN Known THEN Known[body] ELSE packetCrc(body)
=============================================================================
