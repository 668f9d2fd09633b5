---------------------------- MODULE UsbLinkProofs ----------------------------
(***************************************************************************)
(* Proofs about UsbLink for every set of frames and of damage, every CRC,  *)
(* every queue depth and every set of lengths that the ASSUMEs admit.      *)
(***************************************************************************)
EXTENDS UsbLink, SharedFacts

-----------------------------------------------------------------------------
(* The inductive invariant. *)

\* A packet whose length goes with its type.
SoundPacket == {p \in Packet : Len(p.payload) \in ValidLengths(p.type)}

\* The parser holds what its state has had it read and nothing else; once the
\* header is complete it is valid, and bytes are counted up to its length.
WellFormed(p) ==
    /\ p \in [state : RxState, got : Seq(Byte)]
    /\ p.state \in {"FIND_SYNC_0", "FIND_SYNC_1", "READ_VERSION"} => p.got = <<>>
    /\ p.state = "READ_HEADER" => Len(p.got) < 4
    /\ p.state \in {"READ_PAYLOAD", "READ_CRC_0", "READ_CRC_1"} =>
           Len(p.got) >= 4 /\ HeaderValid(p.got)
    /\ p.state = "READ_PAYLOAD" => Len(p.got) < 4 + p.got[4]
    /\ p.state = "READ_CRC_0" => Len(p.got) = 4 + p.got[4]
    /\ p.state = "READ_CRC_1" => Len(p.got) = 5 + p.got[4]

ParserInv == WellFormed(parser)

\* Every packet waiting passed isValidRxHeader.
ReceivedInv == \A i \in 1..Len(rxBuffer) : rxBuffer[i] \in SoundPacket

UsbInv == TypeOK /\ ParserInv /\ ReceivedInv

-----------------------------------------------------------------------------
(* The parser. *)

\* The length of a valid header is not zero and is that of some payload.
LEMMA ValidLengthsFacts ==
    ASSUME NEW type, NEW n \in ValidLengths(type)
    PROVE  /\ type \in {RAW, COMMAND, CONFIG, HEARTBEAT}
           /\ n \in 1..MAX_DATA_LEN
           /\ type = CONFIG => n >= CONFIG_HEADER_SIZE
  <1>1. MaxConfig \in Nat /\ MaxConfig <= 64
    BY UsbAssumptions, SMTT(30)
    DEF MaxConfig, MAX_DATA_LEN, CONFIG_HEADER_SIZE, CONFIG_ENTRY_SIZE
  <1>2. CASE type \in {COMMAND, HEARTBEAT}
    BY <1>2 DEF ValidLengths, MAX_DATA_LEN, RAW, COMMAND, CONFIG, HEARTBEAT
  <1>3. CASE type = RAW
    BY <1>3 DEF ValidLengths, MAX_DATA_LEN, RAW, COMMAND, CONFIG, HEARTBEAT
  <1>4. CASE type = CONFIG
    <2>1. n \in 3..MaxConfig
      BY <1>4 DEF ValidLengths, RAW, COMMAND, CONFIG, HEARTBEAT, CONFIG_HEADER_SIZE
    <2>2. QED
      BY <1>1, <1>4, <2>1 DEF MAX_DATA_LEN, CONFIG_HEADER_SIZE
  <1>5. CASE type \notin {RAW, COMMAND, CONFIG, HEARTBEAT}
    BY <1>5 DEF ValidLengths
  <1>6. QED
    BY <1>2, <1>3, <1>4, <1>5

LEMMA SearchingWellFormed == WellFormed(Searching)
  BY EmptySeq DEF WellFormed, Searching, RxState

\* A header once read stays what it is.
LEMMA AppendKeeps ==
    ASSUME NEW got \in Seq(Byte), NEW byte \in Byte
    PROVE  /\ Append(got, byte) \in Seq(Byte)
           /\ Len(Append(got, byte)) = Len(got) + 1 /\ Len(got) \in Nat
           /\ Len(got) >= 4 => /\ Append(got, byte)[4] = got[4]
                               /\ HeaderValid(Append(got, byte)) = HeaderValid(got)
  <1>1. /\ Append(got, byte) \in Seq(Byte)
        /\ Len(Append(got, byte)) = Len(got) + 1 /\ Len(got) \in Nat
        /\ \A i \in 1..Len(got) : Append(got, byte)[i] = got[i]
    BY AppendProperties, LenProperties
  <1>2. Len(got) >= 4 => Append(got, byte)[4] = got[4] /\ Append(got, byte)[3] = got[3]
    BY <1>1
  <1>3. QED
    BY <1>1, <1>2 DEF HeaderValid

LEMMA HeaderComplete ==
    ASSUME NEW got \in Seq(Byte), Len(got) >= 4, HeaderValid(got)
    PROVE  got[3] \in {RAW, COMMAND, CONFIG, HEARTBEAT} /\ got[4] \in 1..MAX_DATA_LEN
  BY ValidLengthsFacts DEF HeaderValid

\* Each byte leaves the parser well formed, and a frame is taken for a packet
\* only with a type and a length that isValidRxHeader admits.
LEMMA ByteStep ==
    ASSUME NEW p, WellFormed(p), NEW byte \in Byte
    PROVE  WellFormed(ParseByte(p, byte))
  <1>1. p = [state |-> p.state, got |-> p.got] /\ p.state \in RxState
        /\ p.got \in Seq(Byte)
    BY DEF WellFormed
  <1>2. CASE p.state \in {"FIND_SYNC_0", "FIND_SYNC_1", "READ_VERSION"}
    <2>1. p.got = <<>> /\ Len(p.got) < 4
      BY <1>1, <1>2, EmptySeq DEF WellFormed
    <2>2. \E state \in {"FIND_SYNC_0", "FIND_SYNC_1", "READ_VERSION", "READ_HEADER"} :
              ParseByte(p, byte) = [state |-> state, got |-> p.got]
      BY <1>1, <1>2 DEF ParseByte
    <2>3. QED
      BY <1>1, <2>1, <2>2 DEF WellFormed, RxState
  <1>3. CASE p.state = "READ_HEADER"
    <2> DEFINE got == Append(p.got, byte)
    <2>1. got \in Seq(Byte) /\ Len(got) \in Nat /\ Len(got) <= 4
      BY <1>1, <1>3, AppendKeeps DEF WellFormed
    <2>2. ParseByte(p, byte) = AfterHeader(got)
      BY <1>3 DEF ParseByte
    <2> HIDE DEF got
    <2>3. CASE Len(got) < 4
      BY <2>1, <2>2, <2>3 DEF AfterHeader, WellFormed, RxState
    <2>4. CASE Len(got) >= 4 /\ HeaderValid(got)
      <3>1. ParseByte(p, byte) = [state |-> "READ_PAYLOAD", got |-> got]
        BY <2>1, <2>2, <2>4 DEF AfterHeader
      <3>2. got[4] \in 1..MAX_DATA_LEN
        BY <2>1, <2>4, HeaderComplete
      <3>3. Len(got) < 4 + got[4]
        <4>1. PICK n \in Nat, k \in Nat :
                  n = got[4] /\ n >= 1 /\ k = Len(got) /\ k <= 4
          <5>1. got[4] \in Nat /\ got[4] >= 1
            BY <3>2 DEF MAX_DATA_LEN
          <5>2. QED
            BY <2>1, <5>1
        <4>2. n >= 1 /\ k <= 4 => k < 4 + n
          OBVIOUS
        <4>3. QED
          BY <4>1, <4>2
      <3>4. QED
        BY <2>1, <2>4, <3>1, <3>3 DEF WellFormed, RxState
    <2>5. CASE Len(got) >= 4 /\ ~HeaderValid(got)
      BY <2>1, <2>2, <2>5, SearchingWellFormed DEF AfterHeader
    <2>6. QED
      BY <2>1, <2>3, <2>4, <2>5
  <1>4. CASE p.state \in {"READ_PAYLOAD", "READ_CRC_0"}
    <2> DEFINE got == Append(p.got, byte)
    <2>1. /\ got \in Seq(Byte) /\ Len(got) = Len(p.got) + 1 /\ Len(p.got) \in Nat
          /\ Len(p.got) >= 4 /\ HeaderValid(got) /\ got[4] = p.got[4]
      BY <1>1, <1>4, AppendKeeps DEF WellFormed
    <2>2. p.got[4] \in 1..MAX_DATA_LEN
      BY <1>1, <1>4, HeaderComplete DEF WellFormed
    <2>3. ParseByte(p, byte) = IF p.state = "READ_PAYLOAD" THEN AfterPayload(got)
                               ELSE [state |-> "READ_CRC_1", got |-> got]
      BY <1>4 DEF ParseByte
    <2> HIDE DEF got
    <2>7. PICK n \in 1..64, k \in Nat :
              n = p.got[4] /\ n = got[4] /\ k = Len(p.got) /\ k + 1 = Len(got) /\ k >= 4
      BY <2>1, <2>2 DEF MAX_DATA_LEN
    <2>4. CASE p.state = "READ_CRC_0"
      <3>1. Len(got) = 5 + got[4]
        <4>1. k = 4 + n
          BY <2>4, <2>7 DEF WellFormed
        <4>2. k + 1 = 5 + n
          BY <2>7, <4>1
        <4>3. QED
          BY <2>7, <4>2
      <3>2. QED
        BY <2>1, <2>3, <2>4, <3>1 DEF WellFormed, RxState
    <2>5. CASE p.state = "READ_PAYLOAD"
      <3>1. Len(got) <= 4 + got[4] /\ Len(got) >= 4
        <4>1. k < 4 + n
          BY <2>5, <2>7 DEF WellFormed
        <4>2. k + 1 <= 4 + n /\ k + 1 >= 4
          BY <2>7, <4>1
        <4>3. QED
          BY <2>7, <4>2
      <3>2. CASE Len(got) = 4 + got[4]
        BY <2>1, <2>3, <2>5, <3>1, <3>2 DEF WellFormed, RxState, AfterPayload
      <3>3. CASE Len(got) # 4 + got[4]
        <4>1. Len(got) < 4 + got[4]
          <5>1. k + 1 <= 4 + n /\ k + 1 # 4 + n
            BY <2>7, <3>1, <3>3
          <5>2. k + 1 < 4 + n
            BY <2>7, <5>1
          <5>3. QED
            BY <2>7, <5>2
        <4>2. QED
          BY <2>1, <2>3, <2>5, <3>1, <3>3, <4>1 DEF WellFormed, RxState, AfterPayload
      <3>4. QED
        BY <3>2, <3>3
    <2>6. QED
      BY <1>4, <2>4, <2>5
  <1>5. CASE p.state = "READ_CRC_1"
    BY <1>5, SearchingWellFormed DEF ParseByte
  <1>6. QED
    BY <1>1, <1>2, <1>3, <1>4, <1>5 DEF RxState

LEMMA ReceivedSound ==
    ASSUME NEW p, WellFormed(p), p.state = "READ_CRC_1"
    PROVE  Received(p) \in SoundPacket
  <1> DEFINE got     == p.got
             payload == SubSeq(got, 5, 4 + got[4])
  <1>1. got \in Seq(Byte) /\ Len(got) >= 4 /\ HeaderValid(got) /\ Len(got) = 5 + got[4]
    BY DEF WellFormed
  <1>2. got[3] \in {RAW, COMMAND, CONFIG, HEARTBEAT} /\ got[4] \in 1..MAX_DATA_LEN
    BY <1>1, HeaderComplete
  <1>3. payload \in Seq(Byte) /\ Len(payload) = got[4]
    <2>1. PICK n \in 1..64 : n = got[4] /\ Len(got) = 5 + n
      BY <1>1, <1>2 DEF MAX_DATA_LEN
    <2> HIDE DEF got
    <2>2. \A i \in 5..4 + n : i \in 1..Len(got)
      BY <2>1
    <2>3. \A i \in 5..4 + n : got[i] \in Byte
      BY <1>1, <2>2, ElementOfSeq
    <2>4. 4 + n \in Int /\ 5 <= 4 + n /\ 4 + n - 5 + 1 = n
      OBVIOUS
    <2>5. SubSeq(got, 5, 4 + n) \in Seq(Byte)
          /\ Len(SubSeq(got, 5, 4 + n)) = IF 5 <= 4 + n THEN 4 + n - 5 + 1 ELSE 0
      BY <1>1, <2>3, <2>4, SubSeqProperties
    <2>6. QED
      BY <2>1, <2>4, <2>5
  <1>4. Received(p) = [type |-> got[3], payload |-> payload]
    BY DEF Received
  <1>5. Received(p) \in Packet
    BY <1>2, <1>3, <1>4 DEF Packet
  <1>6. QED
    BY <1>1, <1>3, <1>4, <1>5 DEF SoundPacket, HeaderValid

\* What the loop over an item has come to after some of its bytes.
SoundRun(r) == WellFormed(r.parser) /\ r.accepted \in Seq(SoundPacket)

LEMMA TurnSound ==
    ASSUME NEW r, SoundRun(r), NEW byte \in Byte
    PROVE  SoundRun(Turn(r, byte))
  <1>1. WellFormed(Turn(r, byte).parser)
    BY ByteStep DEF SoundRun, Turn
  <1>2. Turn(r, byte).accepted \in Seq(SoundPacket)
    <2>1. CASE Completes(r.parser, byte)
      <3>1. Received(r.parser) \in SoundPacket
        BY <2>1, ReceivedSound DEF SoundRun, Completes
      <3>2. Turn(r, byte).accepted = Append(r.accepted, Received(r.parser))
        BY <2>1 DEF Turn
      <3>3. QED
        BY <3>1, <3>2, AppendProperties DEF SoundRun
    <2>2. CASE ~Completes(r.parser, byte)
      BY <2>2 DEF Turn, SoundRun
    <2>3. QED
      BY <2>1, <2>2
  <1>3. QED
    BY <1>1, <1>2 DEF SoundRun

\* The recursive function of Parse, on the first n bytes.
Runs(f, item, n) ==
    f = [i \in 0..n |-> IF i = 0 THEN [parser |-> parser, accepted |-> <<>>]
                        ELSE Turn(f[i - 1], item[i])]

LEMMA RunExists ==
    ASSUME NEW item
    PROVE  \A n \in Nat : \E f : Runs(f, item, n)
  <1> DEFINE S == {n \in Nat : \E f : Runs(f, item, n)}
             start == [parser |-> parser, accepted |-> <<>>]
  <1>1. 0 \in S
    <2> DEFINE f == [i \in 0..0 |-> start]
    <2>1. \A i \in 0..0 : i = 0
      OBVIOUS
    <2>2. Runs(f, item, 0)
      BY <2>1 DEF Runs
    <2>3. QED
      BY <2>2
  <1>2. ASSUME NEW n \in Nat, n \in S PROVE n + 1 \in S
    <2>1. PICK f : Runs(f, item, n)
      BY <1>2
    <2> DEFINE g == [i \in 0..n + 1 |-> IF i <= n THEN f[i] ELSE Turn(f[n], item[n + 1])]
    <2>2. \A i \in 0..n : f[i] = IF i = 0 THEN start ELSE Turn(f[i - 1], item[i])
      BY <2>1 DEF Runs
    <2>3. \A i \in 0..n + 1 : g[i] = IF i = 0 THEN start ELSE Turn(g[i - 1], item[i])
      <3> SUFFICES ASSUME NEW i \in 0..n + 1
                   PROVE  g[i] = IF i = 0 THEN start ELSE Turn(g[i - 1], item[i])
        OBVIOUS
      <3> HIDE DEF start
      <3>1. CASE i = n + 1
        <4>1. i # 0 /\ i - 1 = n /\ ~(i <= n) /\ i - 1 \in 0..n + 1 /\ i - 1 <= n
          BY <3>1
        <4>2. g[i] = Turn(f[n], item[n + 1]) /\ g[i - 1] = f[i - 1]
          BY <4>1
        <4>3. QED
          BY <3>1, <4>1, <4>2
      <3>2. CASE i = 0
        <4>1. i <= n /\ i \in 0..n
          BY <3>2
        <4>2. QED
          BY <2>2, <3>2, <4>1
      <3>3. CASE i \in 1..n
        <4>1. i \in 0..n /\ i <= n /\ i # 0 /\ i - 1 \in 0..n + 1 /\ i - 1 <= n
          BY <3>3
        <4>2. g[i] = f[i] /\ g[i - 1] = f[i - 1]
          BY <4>1
        <4>3. QED
          BY <2>2, <4>1, <4>2
      <3>4. QED
        BY <3>1, <3>2, <3>3
    <2>4. g = [i \in 0..n + 1 |-> g[i]]
      OBVIOUS
    <2> HIDE DEF g, start
    <2>5. g = [i \in 0..n + 1 |-> IF i = 0 THEN start ELSE Turn(g[i - 1], item[i])]
      BY <2>3, <2>4
    <2>6. Runs(g, item, n + 1)
      BY <2>5 DEF Runs, start
    <2>7. QED
      BY <2>6
  <1>3. Nat \subseteq S
    <2> HIDE DEF S
    <2>1. QED
      BY <1>1, <1>2, SetInduction
  <1>4. QED
    BY <1>3

LEMMA ParseRuns ==
    ASSUME NEW item, Len(item) \in Nat
    PROVE  \E f : Runs(f, item, Len(item)) /\ Parse(item) = f[Len(item)]
  <1>1. PICK f : f = CHOOSE g : Runs(g, item, Len(item))
    OBVIOUS
  <1>2. Runs(f, item, Len(item))
    BY <1>1, RunExists
  <1>3. Parse(item) = f[Len(item)]
    BY <1>1, Zenon DEF Parse, Runs
  <1>4. QED
    BY <1>2, <1>3

\* Whatever bytes arrive, in items of whatever length.
LEMMA ParseSound ==
    ASSUME ParserInv, NEW item \in Seq(Byte)
    PROVE  SoundRun(Parse(item))
  <1>1. Len(item) \in Nat /\ \A i \in 1..Len(item) : item[i] \in Byte
    BY LenProperties, ElementOfSeq
  <1>2. PICK f : Runs(f, item, Len(item)) /\ Parse(item) = f[Len(item)]
    BY <1>1, ParseRuns
  <1>3. \A i \in 0..Len(item) :
            f[i] = IF i = 0 THEN [parser |-> parser, accepted |-> <<>>]
                   ELSE Turn(f[i - 1], item[i])
    BY <1>2 DEF Runs
  <1> DEFINE S == {n \in Nat : n <= Len(item) => SoundRun(f[n])}
  <1>4. 0 \in S
    <2>1. f[0] = [parser |-> parser, accepted |-> <<>>]
      BY <1>1, <1>3
    <2>2. f[0].parser = parser /\ f[0].accepted = <<>>
      BY <2>1
    <2>3. SoundRun(f[0])
      BY <2>2, EmptySeq DEF SoundRun, ParserInv
    <2>4. QED
      BY <2>3
  <1>5. ASSUME NEW n \in Nat, n \in S PROVE n + 1 \in S
    <2> SUFFICES ASSUME n + 1 <= Len(item) PROVE SoundRun(f[n + 1])
      OBVIOUS
    <2>1. n <= Len(item) /\ n + 1 \in 0..Len(item) /\ n + 1 \in 1..Len(item)
          /\ n + 1 # 0 /\ n + 1 - 1 = n
      BY <1>1
    <2>2. f[n + 1] = Turn(f[n], item[n + 1])
      BY <1>3, <2>1
    <2>3. SoundRun(f[n]) /\ item[n + 1] \in Byte
      BY <1>1, <1>5, <2>1
    <2>4. QED
      BY <2>2, <2>3, TurnSound
  <1>6. Nat \subseteq S
    <2> HIDE DEF S
    <2>1. QED
      BY <1>4, <1>5, SetInduction
  <1>7. QED
    BY <1>1, <1>2, <1>6

LEMMA LowByte ==
    ASSUME NEW word \in Nat
    PROVE  word % 256 \in Byte
  BY DEF Byte

LEMMA Product ==
    ASSUME NEW a \in Nat, NEW b \in Nat
    PROVE  a * b \in Nat
  OBVIOUS

LEMMA WordSize == 256 * 256 \in Nat
  <1>1. 256 \in Nat
    OBVIOUS
  <1>2. QED
    BY <1>1, Product, Zenon

LEMMA BelowTop ==
    ASSUME NEW top \in Nat, NEW word \in 0..top - 1
    PROVE  word \in Nat /\ word < top
  OBVIOUS

LEMMA WordFacts ==
    ASSUME NEW word \in 0..256 * 256 - 1
    PROVE  word \in Nat /\ word < 256 * 256 /\ word % 256 \in Byte
  <1>1. PICK top \in Nat : top = 256 * 256
    BY WordSize, Zenon
  <1>2. word \in 0..top - 1
    BY <1>1, Zenon
  <1>3. word \in Nat /\ word < top
    BY <1>2, BelowTop
  <1>4. QED
    BY <1>1, <1>3, LowByte, Zenon

LEMMA FrameRanges ==
    /\ \A type \in {0, 4, 5, 10} : type \in Byte
    /\ \A n \in 1..64 : n \in Byte
    /\ 0 \in Byte
  BY DEF Byte

\* A frame is made of bytes, as its packet is.
LEMMA FrameBytes ==
    ASSUME NEW p \in Sent
    PROVE  Frame(p) \in Seq(Byte)
  <1>1. p.type \in {0, 4, 5, 10} /\ p.payload \in Seq(Byte) /\ Len(p.payload) \in 1..64
    BY UsbAssumptions, ValidLengthsFacts
    DEF Packet, RAW, COMMAND, CONFIG, HEARTBEAT, MAX_DATA_LEN
  <1> DEFINE crc == CRC(Body(p))
  <1>2. crc \in 0..256 * 256 - 1
    BY CrcIsWord
  <1> HIDE DEF crc
  <1>3. crc % 256 \in Byte /\ crc \div 256 \in Byte
    <2>1. crc \in Nat /\ crc < 256 * 256
      BY <1>2, WordFacts, Zenon
    <2>2. crc \div 256 \in Nat /\ crc \div 256 < 256
      BY <2>1, HighByte
    <2>3. crc % 256 \in 0..255
      BY <2>1
    <2>4. QED
      BY <2>2, <2>3 DEF Byte
  <1>4. Header(p) \in Seq(Byte)
    <2>1. {0, p.type, Len(p.payload)} \subseteq Byte
      BY <1>1, FrameRanges, Zenon
    <2>2. QED
      BY <2>1 DEF Header
  <1>5. Body(p) \in Seq(Byte)
    BY <1>1, <1>4, ConcatProperties DEF Body
  <1> DEFINE start == <<USB_SYNC_0, USB_SYNC_1, USB_PROTOCOL_VERSION>>
             end   == <<crc % 256, crc \div 256>>
  <1>6. start \in Seq(Byte) /\ end \in Seq(Byte)
    <2>1. {USB_SYNC_0, USB_SYNC_1, USB_PROTOCOL_VERSION} \subseteq Byte
      BY DEF USB_SYNC_0, USB_SYNC_1, USB_PROTOCOL_VERSION, Byte
    <2>2. QED
      BY <1>3, <2>1
  <1>7. Frame(p) = start \o Body(p) \o end
    BY Zenon DEF Frame, Framed, crc
  <1> HIDE DEF start, end
  <1>8. QED
    BY <1>5, <1>6, <1>7, ConcatProperties

-----------------------------------------------------------------------------
(* A whole frame. *)

LEMMA Stretch ==
    ASSUME NEW T, NEW s, NEW b \in Int, 5 <= b, \A i \in 5..b : s[i] \in T
    PROVE  /\ SubSeq(s, 5, b) \in Seq(T) /\ Len(SubSeq(s, 5, b)) = b - 5 + 1
           /\ \A i \in 1..b - 5 + 1 : SubSeq(s, 5, b)[i] = s[5 + i - 1]
  BY SubSeqProperties

\* Header and payload of a packet.
LEMMA BodyParts ==
    ASSUME NEW p \in Sent
    PROVE  /\ Body(p) \in Seq(Byte)
           /\ Len(p.payload) \in 1..64 /\ Len(Body(p)) = 4 + Len(p.payload)
           /\ Body(p)[3] = p.type /\ Body(p)[4] = Len(p.payload)
           /\ SubSeq(Body(p), 5, 4 + Len(p.payload)) = p.payload
           /\ Len(p.payload) \in ValidLengths(p.type)
  <1> DEFINE header  == Header(p)
             payload == p.payload
             n       == Len(p.payload)
  <1>1. /\ p.type \in {0, 4, 5, 10} /\ payload \in Seq(Byte) /\ n \in 1..64
        /\ n \in ValidLengths(p.type)
    BY UsbAssumptions, ValidLengthsFacts
    DEF Packet, RAW, COMMAND, CONFIG, HEARTBEAT, MAX_DATA_LEN
  <1>2. /\ header \in Seq(Byte) /\ Len(header) = 4
        /\ header[3] = p.type /\ header[4] = n
    <2>1. {0, p.type, n} \subseteq Byte
      BY <1>1, FrameRanges, Zenon
    <2>2. QED
      BY <2>1 DEF Header
  <1>3. Body(p) = header \o payload
    BY DEF Body
  <1> HIDE DEF header, payload, n
  <1>4. /\ Body(p) \in Seq(Byte) /\ Len(Body(p)) = 4 + n
        /\ \A i \in 1..4 + n : Body(p)[i] = IF i <= 4 THEN header[i] ELSE payload[i - 4]
    <2>1. Len(payload) = n
      BY DEF payload, n
    <2>2. payload \in Seq(Byte)
      BY <1>1
    <2> DEFINE both == header \o payload
    <2>3. /\ both \in Seq(Byte) /\ Len(both) = Len(header) + Len(payload)
          /\ \A i \in 1..Len(header) + Len(payload) :
                 both[i] = IF i <= Len(header) THEN header[i] ELSE payload[i - Len(header)]
      BY <1>2, <2>2, ConcatProperties
    <2>4. Body(p) = both /\ Len(header) = 4
      BY <1>2, <1>3
    <2> HIDE DEF both
    <2>5. QED
      BY <2>1, <2>3, <2>4, Zenon
  <1>5. Body(p)[3] = p.type /\ Body(p)[4] = n
    <2>1. 3 \in 1..4 + n /\ 4 \in 1..4 + n
      BY <1>1
    <2>2. QED
      BY <1>2, <1>4, <2>1
  <1>6. SubSeq(Body(p), 5, 4 + n) = payload
    <2> DEFINE rest == SubSeq(Body(p), 5, 4 + n)
    <2>1. \A i \in 5..4 + n : Body(p)[i] \in Byte
      BY <1>1, <1>4, ElementOfSeq
    <2>2. PICK last \in Int : last = 4 + n /\ 5 <= last /\ last - 5 + 1 = n
      BY <1>1
    <2>3. /\ rest \in Seq(Byte) /\ Len(rest) = n
          /\ \A i \in 1..n : rest[i] = Body(p)[5 + i - 1]
      <3>1. /\ SubSeq(Body(p), 5, last) \in Seq(Byte)
            /\ Len(SubSeq(Body(p), 5, last)) = last - 5 + 1
            /\ \A i \in 1..last - 5 + 1 :
                   SubSeq(Body(p), 5, last)[i] = Body(p)[5 + i - 1]
        BY <2>1, <2>2, Stretch
      <3>2. QED
        BY <2>2, <3>1, Zenon
    <2> HIDE DEF rest
    <2>4. \A i \in 1..n : rest[i] = payload[i]
      <3> TAKE i \in 1..n
      <3>1. 5 + i - 1 \in 1..4 + n /\ ~(5 + i - 1 <= 4) /\ 5 + i - 1 - 4 = i
        BY <1>1
      <3>2. QED
        BY <1>4, <2>3, <3>1
    <2>5. payload \in Seq(Byte) /\ Len(payload) = n
      BY <1>1 DEF payload, n
    <2>6. rest = payload
      BY <2>3, <2>4, <2>5, SeqEqual
    <2>7. QED
      BY <2>6 DEF rest
  <1>7. QED
    BY <1>1, <1>4, <1>5, <1>6 DEF payload, n

\* The bytes of a frame by their places.
LEMMA FrameParts ==
    ASSUME NEW p \in Sent, NEW m \in Nat, m = Len(Body(p))
    PROVE  /\ Len(Frame(p)) = 5 + m
           /\ Frame(p)[1] = 165 /\ Frame(p)[2] = 90 /\ Frame(p)[3] = 1
           /\ \A i \in 1..m : Frame(p)[3 + i] = Body(p)[i]
           /\ Frame(p)[4 + m] = CRC(Body(p)) % 256
           /\ Frame(p)[5 + m] = CRC(Body(p)) \div 256
  <1> DEFINE body  == Body(p)
             start == <<165, 90, 1>>
             end   == <<CRC(Body(p)) % 256, CRC(Body(p)) \div 256>>
             front == start \o body
             T     == Byte \union {CRC(Body(p)) % 256, CRC(Body(p)) \div 256}
  <1>1. start \in Seq(T) /\ end \in Seq(T)
    <2>1. {165, 90, 1} \subseteq T
      BY DEF Byte
    <2>2. QED
      BY <2>1
  <1>2. body \in Seq(T) /\ Len(body) = m
    <2>1. Byte \subseteq T /\ body \in Seq(Byte)
      BY BodyParts
    <2>2. QED
      BY <2>1, SeqMonotonic
  <1>3. /\ Len(start) = 3 /\ start[1] = 165 /\ start[2] = 90 /\ start[3] = 1
        /\ Len(end) = 2
        /\ end[1] = CRC(Body(p)) % 256 /\ end[2] = CRC(Body(p)) \div 256
    OBVIOUS
  <1>4. Frame(p) = front \o end
    BY Zenon DEF Frame, Framed, USB_SYNC_0, USB_SYNC_1, USB_PROTOCOL_VERSION
  <1> HIDE DEF start, end, body, front, T
  <1>5. /\ front \in Seq(T) /\ Len(front) = 3 + m
        /\ \A i \in 1..3 + m : front[i] = IF i <= 3 THEN start[i] ELSE body[i - 3]
    <2>1. /\ front \in Seq(T) /\ Len(front) = Len(start) + Len(body)
          /\ \A i \in 1..Len(start) + Len(body) :
                 front[i] = IF i <= Len(start) THEN start[i] ELSE body[i - Len(start)]
      BY <1>1, <1>2, ConcatProperties DEF front
    <2>2. Len(start) = 3 /\ Len(body) = m
      BY <1>2, <1>3
    <2>3. QED
      BY <2>1, <2>2, Zenon
  <1>6. /\ Len(Frame(p)) = 3 + m + 2
        /\ \A i \in 1..3 + m + 2 :
               Frame(p)[i] = IF i <= 3 + m THEN front[i] ELSE end[i - (3 + m)]
    <2> DEFINE whole == front \o end
    <2>1. /\ Len(whole) = Len(front) + Len(end)
          /\ \A i \in 1..Len(front) + Len(end) :
                 whole[i] = IF i <= Len(front) THEN front[i] ELSE end[i - Len(front)]
      BY <1>1, <1>5, ConcatProperties
    <2>2. Frame(p) = whole /\ Len(front) = 3 + m /\ Len(end) = 2
      BY <1>3, <1>4, <1>5
    <2> HIDE DEF whole
    <2>3. QED
      BY <2>1, <2>2, Zenon
  <1>7. \A i \in 1..3 : Frame(p)[i] = start[i]
    <2> TAKE i \in 1..3
    <2>1. i \in 1..3 + m /\ i \in 1..3 + m + 2 /\ i <= 3 + m /\ i <= 3
      OBVIOUS
    <2>2. QED
      BY <1>5, <1>6, <2>1
  <1>8. \A i \in 1..m : Frame(p)[3 + i] = body[i]
    <2> TAKE i \in 1..m
    <2>1. /\ 3 + i \in 1..3 + m /\ 3 + i \in 1..3 + m + 2 /\ 3 + i <= 3 + m
          /\ ~(3 + i <= 3) /\ 3 + i - 3 = i
      OBVIOUS
    <2>2. Frame(p)[3 + i] = front[3 + i]
      BY <1>6, <2>1
    <2>3. front[3 + i] = body[3 + i - 3]
      BY <1>5, <2>1
    <2>4. QED
      BY <2>1, <2>2, <2>3
  <1>9. \A k \in 1..2 : Frame(p)[3 + m + k] = end[k]
    <2> TAKE k \in 1..2
    <2>1. 3 + m + k \in 1..3 + m + 2 /\ ~(3 + m + k <= 3 + m) /\ 3 + m + k - (3 + m) = k
      OBVIOUS
    <2>2. QED
      BY <1>6, <2>1
  <1>10. 3 + m + 1 = 4 + m /\ 3 + m + 2 = 5 + m
    OBVIOUS
  <1>11. /\ Frame(p)[1] = 165 /\ Frame(p)[2] = 90 /\ Frame(p)[3] = 1
    BY <1>3, <1>7
  <1>12. Frame(p)[4 + m] = CRC(Body(p)) % 256 /\ Frame(p)[5 + m] = CRC(Body(p)) \div 256
    BY <1>3, <1>9, <1>10
  <1>13. QED
    BY <1>6, <1>8, <1>10, <1>11, <1>12 DEF body

\* The parser when it has read k bytes of header and payload.
Within(p, k) ==
    [state |-> IF k < 4 THEN "READ_HEADER"
               ELSE IF k < Len(Body(p)) THEN "READ_PAYLOAD" ELSE "READ_CRC_0",
     got   |-> SubSeq(Body(p), 1, k)]

LEMMA Beginning ==
    ASSUME NEW T, NEW s \in Seq(T), NEW k \in 0..Len(s)
    PROVE  /\ SubSeq(s, 1, k) \in Seq(T) /\ Len(SubSeq(s, 1, k)) = k
           /\ \A i \in 1..k : SubSeq(s, 1, k)[i] = s[i]
           /\ k < Len(s) => Append(SubSeq(s, 1, k), s[k + 1]) = SubSeq(s, 1, k + 1)
  <1>1. Len(s) \in Nat /\ \A i \in 1..Len(s) : s[i] \in T
    BY LenProperties, ElementOfSeq
  <1>2. /\ SubSeq(s, 1, k) \in Seq(T) /\ Len(SubSeq(s, 1, k)) = k
        /\ \A i \in 1..k : SubSeq(s, 1, k)[i] = s[i]
    <2>1. \A i \in 1..k : s[i] \in T
      BY <1>1
    <2>2. /\ SubSeq(s, 1, k) \in Seq(T)
          /\ Len(SubSeq(s, 1, k)) = IF 1 <= k THEN k - 1 + 1 ELSE 0
          /\ \A i \in 1..k - 1 + 1 : SubSeq(s, 1, k)[i] = s[1 + i - 1]
      BY <2>1, SubSeqProperties
    <2>3. (IF 1 <= k THEN k - 1 + 1 ELSE 0) = k /\ k - 1 + 1 = k
          /\ \A i \in 1..k : 1 + i - 1 = i
      OBVIOUS
    <2>4. QED
      BY <2>2, <2>3
  <1>3. ASSUME k < Len(s) PROVE Append(SubSeq(s, 1, k), s[k + 1]) = SubSeq(s, 1, k + 1)
    <2>1. 1 \in 1..Len(s) /\ k + 1 \in 1..Len(s) /\ k + 1 - 1 = k
      BY <1>1, <1>3
    <2>2. SubSeq(s, 1, k + 1) = SubSeq(s, 1, k + 1 - 1) \o <<s[k + 1]>>
      BY <2>1, SubSeqRecursiveSecond
    <2>3. Append(SubSeq(s, 1, k), s[k + 1]) = SubSeq(s, 1, k) \o <<s[k + 1]>>
      BY <1>1, <1>2, <2>1, AppendIsConcat
    <2>4. QED
      BY <2>1, <2>2, <2>3
  <1>4. QED
    BY <1>2, <1>3

\* Inside a frame the parser counts the bytes as the sender did.
LEMMA WithinStep ==
    ASSUME NEW p \in Sent, NEW k \in Nat, k < Len(Body(p))
    PROVE  ParseByte(Within(p, k), Body(p)[k + 1]) = Within(p, k + 1)
  <1> DEFINE body == Body(p)
             got  == SubSeq(body, 1, k)
             next == SubSeq(body, 1, k + 1)
             m    == Len(body)
             n    == Len(p.payload)
  <1>1. /\ body \in Seq(Byte) /\ n \in 1..64 /\ m = 4 + n
        /\ body[3] = p.type /\ body[4] = n /\ n \in ValidLengths(p.type)
    BY BodyParts
  <1>2. k \in 0..m /\ k + 1 \in 0..m
    BY <1>1
  <1>3. /\ Append(got, body[k + 1]) = next
        /\ Len(next) = k + 1
        /\ \A i \in 1..k + 1 : next[i] = body[i]
    <2>1. Len(body) \in Nat
      BY <1>1
    <2>2. Append(got, body[k + 1]) = next
      BY <1>1, <1>2, Beginning
    <2>3. Len(next) = k + 1 /\ \A i \in 1..k + 1 : next[i] = body[i]
      BY <1>1, <1>2, Beginning
    <2>4. QED
      BY <2>2, <2>3
  <1>4. k + 1 >= 4 => next[4] = n /\ HeaderValid(next)
    <2>1. k + 1 >= 4 => 3 \in 1..k + 1 /\ 4 \in 1..k + 1
      OBVIOUS
    <2>2. k + 1 >= 4 => next[3] = p.type /\ next[4] = n
      BY <1>1, <1>3, <2>1
    <2>3. QED
      BY <1>1, <2>2 DEF HeaderValid
  <1>5. /\ Within(p, k).got = got
        /\ Within(p, k).state = IF k < 4 THEN "READ_HEADER"
                                ELSE IF k < m THEN "READ_PAYLOAD" ELSE "READ_CRC_0"
    BY DEF Within
  <1>6. Within(p, k + 1) = [state |-> IF k + 1 < 4 THEN "READ_HEADER"
                                      ELSE IF k + 1 < m THEN "READ_PAYLOAD"
                                      ELSE "READ_CRC_0",
                            got |-> next]
    BY DEF Within
  <1>7. k < m
    OBVIOUS
  <1> HIDE DEF body, got, next, m, n
  <1>8. CASE k < 4
    <2>1. ParseByte(Within(p, k), body[k + 1]) = AfterHeader(next)
      BY <1>3, <1>5, <1>8 DEF ParseByte
    <2>2. CASE k + 1 < 4
      BY <1>3, <1>6, <2>1, <2>2 DEF AfterHeader, body
    <2>3. CASE ~(k + 1 < 4)
      <3>1. k + 1 = 4 /\ k + 1 < m /\ HeaderValid(next)
        BY <1>1, <1>4, <1>8, <2>3
      <3>2. QED
        BY <1>3, <1>6, <2>1, <2>3, <3>1 DEF AfterHeader, body
    <2>4. QED
      BY <2>2, <2>3
  <1>9. CASE ~(k < 4)
    <2>1. Within(p, k).state = "READ_PAYLOAD"
      BY <1>5, <1>9, <1>7
    <2>2. ParseByte(Within(p, k), body[k + 1]) = AfterPayload(next)
      BY <1>3, <1>5, <2>1 DEF ParseByte
    <2>3. /\ next[4] = n /\ Len(next) = k + 1 /\ ~(k + 1 < 4)
          /\ (k + 1 = 4 + n) = ~(k + 1 < m)
      BY <1>1, <1>3, <1>4, <1>9, <1>7
    <2>4. QED
      BY <1>6, <2>2, <2>3 DEF AfterPayload, body
  <1>10. QED
    BY <1>8, <1>9

\* The loop takes a whole frame for the packet that was framed and is between
\* frames again.
LEMMA FrameParsed ==
    ASSUME NEW p \in Sent, parser = Searching
    PROVE  Parse(Frame(p)) = [parser |-> Searching, accepted |-> <<p>>]
  <1> DEFINE body == Body(p)
             m    == Len(body)
             n    == Len(p.payload)
             crc  == CRC(body)
             item == Frame(p)
  <1>1. /\ body \in Seq(Byte) /\ n \in 1..64 /\ m = 4 + n /\ m \in Nat
        /\ body[3] = p.type /\ body[4] = n /\ SubSeq(body, 5, 4 + n) = p.payload
    BY BodyParts
  <1>2. /\ Len(item) = 5 + m /\ item[1] = 165 /\ item[2] = 90 /\ item[3] = 1
        /\ \A i \in 1..m : item[3 + i] = body[i]
        /\ item[4 + m] = crc % 256 /\ item[5 + m] = crc \div 256
    <2>1. m \in Nat /\ m = Len(Body(p))
      BY <1>1
    <2> HIDE DEF m
    <2>2. QED
      BY <2>1, FrameParts
  <1>3. crc \in Nat /\ crc % 256 \in Byte
    <2>1. crc \in 0..256 * 256 - 1
      BY CrcIsWord
    <2> HIDE DEF crc
    <2>2. QED
      BY <2>1, WordFacts, Zenon
  <1>4. p = [type |-> p.type, payload |-> p.payload]
    BY UsbAssumptions DEF Packet
  <1>5. PICK f : Runs(f, item, Len(item)) /\ Parse(item) = f[Len(item)]
    <2>1. Len(item) \in Nat
      BY <1>1, <1>2
    <2>2. QED
      BY <2>1, ParseRuns
  <1> HIDE DEF item, body, m, n, crc
  <1>6. f[0] = [parser |-> parser, accepted |-> <<>>]
    BY <1>1, <1>2, <1>5 DEF Runs
  <1>7. \A i \in 0..4 + m : f[i + 1] = Turn(f[i], item[i + 1])
    <2> TAKE i \in 0..4 + m
    <2>1. i + 1 \in 0..Len(item) /\ i + 1 # 0 /\ i + 1 - 1 = i
      BY <1>1, <1>2
    <2>2. QED
      BY <1>5, <2>1 DEF Runs
  <1>8. f[1] = [parser |-> [state |-> "FIND_SYNC_1", got |-> <<>>], accepted |-> <<>>]
    <2>1. f[0 + 1] = Turn(f[0], item[0 + 1])
      BY <1>1, <1>7
    <2>2. QED
      BY <1>2, <1>6, <2>1 DEF Turn, ParseByte, Completes, Searching, USB_SYNC_0
  <1>9. f[2] = [parser |-> [state |-> "READ_VERSION", got |-> <<>>], accepted |-> <<>>]
    <2>1. f[1 + 1] = Turn(f[1], item[1 + 1])
      BY <1>1, <1>7
    <2>2. QED
      BY <1>2, <1>8, <2>1 DEF Turn, ParseByte, Completes, USB_SYNC_1
  <1>10. f[3] = [parser |-> Within(p, 0), accepted |-> <<>>]
    <2>1. f[2 + 1] = Turn(f[2], item[2 + 1])
      BY <1>1, <1>7
    <2>2. f[3] = [parser |-> [state |-> "READ_HEADER", got |-> <<>>], accepted |-> <<>>]
      BY <1>2, <1>9, <2>1 DEF Turn, ParseByte, Completes, USB_PROTOCOL_VERSION
    <2>3. SubSeq(Body(p), 1, 0) = <<>>
      BY SubSeqEmpty
    <2>4. QED
      BY <2>2, <2>3 DEF Within
  <1> DEFINE S == {k \in Nat : k <= m => f[3 + k] = [parser |-> Within(p, k), accepted |-> <<>>]}
  <1>11. 0 \in S
    <2>1. 3 + 0 = 3
      OBVIOUS
    <2>2. QED
      BY <1>10, <2>1
  <1>12. ASSUME NEW k \in Nat, k \in S PROVE k + 1 \in S
    <2> SUFFICES ASSUME k + 1 <= m
                 PROVE  f[3 + (k + 1)] = [parser |-> Within(p, k + 1), accepted |-> <<>>]
      OBVIOUS
    <2>1. /\ k <= m /\ k < m /\ 3 + k \in 0..4 + m /\ 3 + k + 1 = 3 + (k + 1)
          /\ k + 1 \in 1..m
      BY <1>1
    <2>2. f[3 + k] = [parser |-> Within(p, k), accepted |-> <<>>]
      BY <1>12, <2>1
    <2>3. f[3 + (k + 1)] = Turn(f[3 + k], item[3 + (k + 1)])
      BY <1>7, <2>1
    <2>4. item[3 + (k + 1)] = body[k + 1]
      BY <1>2, <2>1
    <2>5. ParseByte(Within(p, k), body[k + 1]) = Within(p, k + 1)
      BY <2>1, WithinStep DEF body, m
    <2>6. ~Completes(Within(p, k), body[k + 1])
      BY DEF Completes, Within
    <2>7. QED
      BY <2>2, <2>3, <2>4, <2>5, <2>6 DEF Turn
  <1>13. Nat \subseteq S
    <2> HIDE DEF S
    <2>1. QED
      BY <1>11, <1>12, SetInduction
  <1>14. f[3 + m] = [parser   |-> [state |-> "READ_CRC_0", got |-> body],
                     accepted |-> <<>>]
    <2>1. f[3 + m] = [parser |-> Within(p, m), accepted |-> <<>>]
      <3>1. m \in S /\ m <= m
        BY <1>1, <1>13
      <3>2. QED
        BY <3>1
    <2>2. Within(p, m) = [state |-> "READ_CRC_0", got |-> SubSeq(body, 1, m)]
      BY <1>1 DEF Within, body, m
    <2>3. SubSeq(body, 1, m) = body
      BY <1>1, SubSeqFull DEF m
    <2>4. QED
      BY <2>1, <2>2, <2>3
  <1> DEFINE got == Append(body, crc % 256)
  <1>15. f[4 + m] = [parser |-> [state |-> "READ_CRC_1", got |-> got], accepted |-> <<>>]
    <2>1. 3 + m \in 0..4 + m /\ 3 + m + 1 = 4 + m
      BY <1>1
    <2>2. f[4 + m] = Turn(f[3 + m], item[4 + m])
      BY <1>7, <2>1
    <2>3. f[4 + m] = Turn([parser |-> [state |-> "READ_CRC_0", got |-> body],
                           accepted |-> <<>>], crc % 256)
      BY <1>2, <1>14, <2>2, Zenon
    <2>4. QED
      BY <2>3 DEF Turn, ParseByte, Completes
  <1>16. /\ got \in Seq(Byte) /\ Len(got) = m + 1 /\ got[m + 1] = crc % 256
         /\ \A i \in 1..m : got[i] = body[i]
    <2>1. /\ got \in Seq(Byte) /\ Len(got) = Len(body) + 1
          /\ got[Len(body) + 1] = crc % 256
          /\ \A i \in 1..Len(body) : got[i] = body[i]
      BY <1>1, <1>3, AppendProperties
    <2>2. QED
      BY <2>1, Zenon DEF m
  <1> HIDE DEF got
  <1>17. got[3] = p.type /\ got[4] = n
    <2>1. 3 \in 1..m /\ 4 \in 1..m
      BY <1>1
    <2>2. QED
      BY <1>1, <1>16, <2>1
  <1>18. SubSeq(got, 1, 4 + got[4]) = body /\ SubSeq(got, 5, 4 + got[4]) = p.payload
    <2>1. \A i \in 1..m : got[i] \in Byte
      BY <1>1, <1>16, ElementOfSeq
    <2>2. SubSeq(got, 1, m) = SubSeq(body, 1, m)
      <3>1. m \in 0..Len(got) /\ m \in 0..Len(body)
        BY <1>1, <1>16 DEF m
      <3>2. /\ SubSeq(got, 1, m) \in Seq(Byte) /\ Len(SubSeq(got, 1, m)) = m
            /\ \A i \in 1..m : SubSeq(got, 1, m)[i] = got[i]
        BY <1>16, <3>1, Beginning
      <3>3. /\ SubSeq(body, 1, m) \in Seq(Byte) /\ Len(SubSeq(body, 1, m)) = m
            /\ \A i \in 1..m : SubSeq(body, 1, m)[i] = body[i]
        BY <1>1, <3>1, Beginning
      <3>4. \A i \in 1..m : SubSeq(got, 1, m)[i] = SubSeq(body, 1, m)[i]
        BY <1>16, <3>2, <3>3
      <3>5. QED
        BY <3>2, <3>3, <3>4, SeqEqual
    <2>3. SubSeq(body, 1, m) = body
      BY <1>1, SubSeqFull DEF m
    <2>4. SubSeq(got, 5, m) = SubSeq(body, 5, m)
      <3>1. /\ 5 \in Int /\ m \in Int /\ 5 <= m
            /\ \A i \in 5..m : got[i] \in Byte /\ body[i] \in Byte /\ got[i] = body[i]
        BY <1>1, <1>16, <2>1
      <3>2. /\ SubSeq(got, 5, m) \in Seq(Byte) /\ Len(SubSeq(got, 5, m)) = m - 5 + 1
            /\ \A i \in 1..m - 5 + 1 : SubSeq(got, 5, m)[i] = got[5 + i - 1]
        BY <3>1, SubSeqProperties
      <3>3. /\ SubSeq(body, 5, m) \in Seq(Byte) /\ Len(SubSeq(body, 5, m)) = m - 5 + 1
            /\ \A i \in 1..m - 5 + 1 : SubSeq(body, 5, m)[i] = body[5 + i - 1]
        BY <3>1, SubSeqProperties
      <3>4. \A i \in 1..m - 5 + 1 : 5 + i - 1 \in 5..m
        BY <3>1
      <3>5. \A i \in 1..m - 5 + 1 : SubSeq(got, 5, m)[i] = SubSeq(body, 5, m)[i]
        BY <3>1, <3>2, <3>3, <3>4
      <3>6. QED
        BY <3>2, <3>3, <3>5, SeqEqual
    <2>5. 4 + got[4] = m
      BY <1>1, <1>17
    <2>6. QED
      BY <1>1, <2>2, <2>3, <2>4, <2>5
  <1>19. Completes([state |-> "READ_CRC_1", got |-> got], item[5 + m])
    <2>1. 5 + got[4] = m + 1
      BY <1>1, <1>17
    <2>2. got[5 + got[4]] = crc % 256
      BY <1>16, <2>1
    <2>3. (crc % 256) + 256 * (crc \div 256) = crc
      BY <1>3
    <2>4. CRC(SubSeq(got, 1, 4 + got[4])) = crc
      BY <1>18 DEF crc
    <2>5. QED
      BY <1>2, <2>2, <2>3, <2>4 DEF Completes
  <1>20. Received([state |-> "READ_CRC_1", got |-> got]) = p
    BY <1>4, <1>17, <1>18 DEF Received
  <1>21. f[5 + m] = [parser |-> Searching, accepted |-> <<p>>]
    <2>1. 4 + m \in 0..4 + m /\ 4 + m + 1 = 5 + m
      BY <1>1
    <2>2. f[5 + m] = Turn(f[4 + m], item[5 + m])
      BY <1>7, <2>1
    <2>3. QED
      BY <1>15, <1>19, <1>20, <2>2 DEF Turn, ParseByte
  <1>22. QED
    BY <1>2, <1>5, <1>21 DEF item

-----------------------------------------------------------------------------
(* What the parser accepts stands in the stream. *)

\* The first `end` bytes end with what the parser has taken of a frame.
Tracked(p, bytes, end) ==
    /\ Len(Begun(p)) <= end
    /\ \A i \in 1..Len(Begun(p)) : bytes[end - Len(Begun(p)) + i] = Begun(p)[i]

LEMMA BegunFacts ==
    ASSUME NEW p, WellFormed(p)
    PROVE  /\ Begun(p) \in Seq(Byte) /\ Len(Begun(p)) \in Nat
           /\ p.state = "READ_CRC_1" =>
                  /\ Len(Begun(p)) = 3 + Len(p.got)
                  /\ Begun(p)[1] = USB_SYNC_0 /\ Begun(p)[2] = USB_SYNC_1
                  /\ Begun(p)[3] = USB_PROTOCOL_VERSION
                  /\ \A i \in 1..Len(p.got) : Begun(p)[3 + i] = p.got[i]
  <1> DEFINE start == <<USB_SYNC_0, USB_SYNC_1, USB_PROTOCOL_VERSION>>
  <1>1. /\ start \in Seq(Byte) /\ Len(start) = 3
        /\ start[1] = USB_SYNC_0 /\ start[2] = USB_SYNC_1
        /\ start[3] = USB_PROTOCOL_VERSION
        /\ <<>> \in Seq(Byte) /\ <<USB_SYNC_0>> \in Seq(Byte)
        /\ <<USB_SYNC_0, USB_SYNC_1>> \in Seq(Byte)
    <2>1. {USB_SYNC_0, USB_SYNC_1, USB_PROTOCOL_VERSION} \subseteq Byte
      BY DEF USB_SYNC_0, USB_SYNC_1, USB_PROTOCOL_VERSION, Byte
    <2>2. QED
      BY <2>1
  <1>2. p.got \in Seq(Byte) /\ Len(p.got) \in Nat
    BY LenProperties DEF WellFormed
  <1> DEFINE whole == start \o p.got
  <1>3. /\ whole \in Seq(Byte) /\ Len(whole) = 3 + Len(p.got)
        /\ \A i \in 1..3 + Len(p.got) :
               whole[i] = IF i <= 3 THEN start[i] ELSE p.got[i - 3]
    <2> HIDE DEF start
    <2>1. /\ whole \in Seq(Byte) /\ Len(whole) = Len(start) + Len(p.got)
          /\ \A i \in 1..Len(start) + Len(p.got) :
                 whole[i] = IF i <= Len(start) THEN start[i] ELSE p.got[i - Len(start)]
      BY <1>1, <1>2, ConcatProperties
    <2> HIDE DEF whole
    <2>2. QED
      BY <1>1, <2>1, Zenon
  <1>4. Begun(p) = CASE p.state = "FIND_SYNC_0"  -> <<>>
                     [] p.state = "FIND_SYNC_1"  -> <<USB_SYNC_0>>
                     [] p.state = "READ_VERSION" -> <<USB_SYNC_0, USB_SYNC_1>>
                     [] OTHER -> whole
    BY DEF Begun
  <1> HIDE DEF whole, start
  <1>5. Begun(p) \in Seq(Byte)
    BY <1>1, <1>3, <1>4
  <1>6. ASSUME p.state = "READ_CRC_1"
        PROVE  /\ Len(Begun(p)) = 3 + Len(p.got)
               /\ Begun(p)[1] = USB_SYNC_0 /\ Begun(p)[2] = USB_SYNC_1
               /\ Begun(p)[3] = USB_PROTOCOL_VERSION
               /\ \A i \in 1..Len(p.got) : Begun(p)[3 + i] = p.got[i]
    <2>1. Begun(p) = whole
      BY <1>4, <1>6
    <2>2. \A i \in 1..3 : i \in 1..3 + Len(p.got) /\ i <= 3
      BY <1>2
    <2>3. whole[1] = start[1] /\ whole[2] = start[2] /\ whole[3] = start[3]
      BY <1>3, <2>2
    <2>4. \A i \in 1..Len(p.got) : whole[3 + i] = p.got[i]
      <3> TAKE i \in 1..Len(p.got)
      <3>1. 3 + i \in 1..3 + Len(p.got) /\ ~(3 + i <= 3) /\ 3 + i - 3 = i
        BY <1>2
      <3>2. QED
        BY <1>3, <3>1
    <2>5. QED
      BY <1>1, <1>3, <2>1, <2>3, <2>4
  <1>7. QED
    BY <1>5, <1>6, LenProperties

LEMMA AppendTuples ==
    ASSUME NEW a, NEW b, NEW c
    PROVE  Append(<<a>>, b) = <<a, b>> /\ Append(<<a, b>>, c) = <<a, b, c>>
  <1> DEFINE T == {a, b, c}
  <1>1. <<a>> \in Seq(T) /\ <<a, b>> \in Seq(T) /\ <<a, b, c>> \in Seq(T)
    OBVIOUS
  <1>2. a \in T /\ b \in T /\ c \in T
    OBVIOUS
  <1>3. /\ Len(<<a>>) = 1 /\ <<a>>[1] = a
        /\ Len(<<a, b>>) = 2 /\ <<a, b>>[1] = a /\ <<a, b>>[2] = b
        /\ Len(<<a, b, c>>) = 3
        /\ <<a, b, c>>[1] = a /\ <<a, b, c>>[2] = b /\ <<a, b, c>>[3] = c
    OBVIOUS
  <1> DEFINE one == <<a>>
             two == <<a, b>>
             three == <<a, b, c>>
  <1> HIDE DEF T, one, two, three
  <1>4. Append(one, b) = two
    <2>1. /\ Append(one, b) \in Seq(T) /\ Len(Append(one, b)) = 2
          /\ Append(one, b)[1] = a /\ Append(one, b)[2] = b
      BY <1>1, <1>2, <1>3, AppendProperties DEF one
    <2>2. \A i \in 1..2 : Append(one, b)[i] = two[i]
      BY <1>3, <2>1 DEF two
    <2>3. two \in Seq(T) /\ Len(two) = 2
      BY <1>1, <1>3 DEF two
    <2>4. QED
      BY <2>1, <2>2, <2>3, SeqEqual
  <1>5. Append(two, c) = three
    <2>1. /\ Append(two, c) \in Seq(T) /\ Len(Append(two, c)) = 3
          /\ Append(two, c)[1] = a /\ Append(two, c)[2] = b /\ Append(two, c)[3] = c
      BY <1>1, <1>2, <1>3, AppendProperties DEF two
    <2>2. \A i \in 1..3 : Append(two, c)[i] = three[i]
      BY <1>3, <2>1 DEF three
    <2>3. three \in Seq(T) /\ Len(three) = 3
      BY <1>1, <1>3 DEF three
    <2>4. QED
      BY <2>1, <2>2, <2>3, SeqEqual
  <1>6. QED
    BY <1>4, <1>5 DEF one, two, three

\* A byte either goes with what has been taken, or nothing is kept but itself.
LEMMA BegunStep ==
    ASSUME NEW p, WellFormed(p), NEW byte \in Byte
    PROVE  LET next == Begun(ParseByte(p, byte))
           IN  \/ next = <<>>
               \/ byte = USB_SYNC_0 /\ next = <<byte>>
               \/ next = Append(Begun(p), byte)
  <1> DEFINE after == ParseByte(p, byte)
             start == <<USB_SYNC_0, USB_SYNC_1, USB_PROTOCOL_VERSION>>
  <1>1. p = [state |-> p.state, got |-> p.got] /\ p.state \in RxState
        /\ p.got \in Seq(Byte)
    BY DEF WellFormed
  <1>2. Begun(Searching) = <<>>
    BY DEF Begun, Searching
  <1>3. CASE p.state = "FIND_SYNC_0"
    <2>1. after.state = IF byte = USB_SYNC_0 THEN "FIND_SYNC_1" ELSE "FIND_SYNC_0"
      BY <1>1, <1>3 DEF ParseByte
    <2>2. QED
      BY <2>1 DEF Begun
  <1>4. CASE p.state = "FIND_SYNC_1"
    <2>1. after.state = IF byte = USB_SYNC_1 THEN "READ_VERSION"
                        ELSE IF byte = USB_SYNC_0 THEN "FIND_SYNC_1" ELSE "FIND_SYNC_0"
      BY <1>1, <1>4 DEF ParseByte
    <2>2. Begun(p) = <<USB_SYNC_0>>
      BY <1>4 DEF Begun
    <2>3. Append(<<USB_SYNC_0>>, byte) = <<USB_SYNC_0, byte>>
      BY AppendTuples
    <2>4. QED
      BY <2>1, <2>2, <2>3 DEF Begun
  <1>5. CASE p.state = "READ_VERSION"
    <2>1. /\ after.state = IF byte = USB_PROTOCOL_VERSION THEN "READ_HEADER"
                           ELSE "FIND_SYNC_0"
          /\ after.got = <<>>
      BY <1>1, <1>5 DEF ParseByte, WellFormed
    <2>2. Begun(p) = <<USB_SYNC_0, USB_SYNC_1>>
      BY <1>5 DEF Begun
    <2>3. Append(<<USB_SYNC_0, USB_SYNC_1>>, byte) = <<USB_SYNC_0, USB_SYNC_1, byte>>
      BY AppendTuples
    <2>4. start \o <<>> = start
      <3>1. start \in Seq({USB_SYNC_0, USB_SYNC_1, USB_PROTOCOL_VERSION})
        OBVIOUS
      <3> HIDE DEF start
      <3>2. QED
        BY <3>1, ConcatEmptySeq
    <2>5. CASE byte = USB_PROTOCOL_VERSION
      <3>1. Begun(after) = start \o <<>>
        BY <2>1, <2>5 DEF Begun
      <3>2. QED
        BY <2>2, <2>3, <2>4, <2>5, <3>1
    <2>6. CASE byte # USB_PROTOCOL_VERSION
      BY <2>1, <2>6 DEF Begun
    <2>7. QED
      BY <2>5, <2>6
  <1>6. CASE p.state \in {"READ_HEADER", "READ_PAYLOAD", "READ_CRC_0"}
    <2>1. \/ after = Searching
          \/ /\ after.state \in {"READ_HEADER", "READ_PAYLOAD", "READ_CRC_0", "READ_CRC_1"}
             /\ after.got = Append(p.got, byte)
      BY <1>1, <1>6 DEF ParseByte, AfterHeader, AfterPayload
    <2>2. Begun(p) = start \o p.got
      BY <1>6 DEF Begun
    <2>3. start \o Append(p.got, byte) = Append(start \o p.got, byte)
      <3>1. {USB_SYNC_0, USB_SYNC_1, USB_PROTOCOL_VERSION} \subseteq Byte
        BY DEF USB_SYNC_0, USB_SYNC_1, USB_PROTOCOL_VERSION, Byte
      <3>2. start \in Seq(Byte) /\ <<byte>> \in Seq(Byte)
        BY <3>1
      <3> HIDE DEF start
      <3>3. Append(p.got, byte) = p.got \o <<byte>>
        BY <1>1, AppendIsConcat
      <3>4. start \o p.got \in Seq(Byte)
        BY <1>1, <3>2, ConcatProperties
      <3>5. Append(start \o p.got, byte) = (start \o p.got) \o <<byte>>
        BY <3>4, AppendIsConcat
      <3>6. (start \o p.got) \o <<byte>> = start \o (p.got \o <<byte>>)
        BY <1>1, <3>2, ConcatAssociative
      <3>7. QED
        BY <3>3, <3>5, <3>6
    <2>4. CASE after = Searching
      BY <1>2, <2>4
    <2>5. CASE /\ after.state \in {"READ_HEADER", "READ_PAYLOAD", "READ_CRC_0", "READ_CRC_1"}
               /\ after.got = Append(p.got, byte)
      <3>1. Begun(after) = start \o Append(p.got, byte)
        BY <2>5 DEF Begun
      <3>2. QED
        BY <2>2, <2>3, <3>1
    <2>6. QED
      BY <2>1, <2>4, <2>5
  <1>7. CASE p.state = "READ_CRC_1"
    BY <1>2, <1>7 DEF ParseByte
  <1>8. QED
    BY <1>1, <1>3, <1>4, <1>5, <1>6, <1>7 DEF RxState

LEMMA TrackedStep ==
    ASSUME NEW p, WellFormed(p), NEW bytes, NEW end \in Nat, bytes[end + 1] \in Byte,
           Tracked(p, bytes, end)
    PROVE  Tracked(ParseByte(p, bytes[end + 1]), bytes, end + 1)
  <1> DEFINE byte == bytes[end + 1]
             old  == Begun(p)
             next == Begun(ParseByte(p, byte))
  <1>1. old \in Seq(Byte) /\ Len(old) \in Nat
    BY BegunFacts
  <1>2. \/ next = <<>>
        \/ byte = USB_SYNC_0 /\ next = <<byte>>
        \/ next = Append(old, byte)
    BY BegunStep
  <1>3. Len(old) <= end /\ \A i \in 1..Len(old) : bytes[end - Len(old) + i] = old[i]
    BY DEF Tracked
  <1> SUFFICES /\ Len(next) <= end + 1
               /\ \A i \in 1..Len(next) : bytes[end + 1 - Len(next) + i] = next[i]
    BY DEF Tracked
  <1>4. byte = bytes[end + 1] /\ byte \in Byte
    OBVIOUS
  <1> HIDE DEF old, next, byte
  <1>5. CASE next = <<>>
    <2>1. Len(next) = 0
      BY <1>5
    <2>2. QED
      BY <2>1
  <1>6. CASE next = <<byte>>
    <2>1. Len(next) = 1 /\ next[1] = byte
      BY <1>6
    <2>2. \A i \in 1..1 : i = 1 /\ end + 1 - 1 + i = end + 1
      OBVIOUS
    <2>3. 1 <= end + 1
      OBVIOUS
    <2>4. QED
      BY <1>4, <2>1, <2>2, <2>3
  <1>7. CASE next = Append(old, byte)
    <2>1. PICK n \in Nat : n = Len(old)
      BY <1>1
    <2>2. /\ Len(next) = n + 1 /\ next[n + 1] = byte
          /\ \A i \in 1..n : next[i] = old[i]
      BY <1>1, <1>4, <1>7, <2>1, AppendProperties
    <2>3. n <= end /\ \A i \in 1..n : bytes[end - n + i] = old[i]
      BY <1>3, <2>1
    <2>4. \A i \in 1..n + 1 : bytes[end + 1 - (n + 1) + i] = next[i]
      <3> TAKE i \in 1..n + 1
      <3>1. end + 1 - (n + 1) + i = end - n + i
        BY <2>3
      <3>2. CASE i = n + 1
        <4>1. end - n + i = end + 1
          BY <3>2
        <4>2. QED
          BY <1>4, <2>2, <3>1, <3>2, <4>1
      <3>3. CASE i # n + 1
        <4>1. i \in 1..n
          BY <3>3
        <4>2. QED
          BY <2>2, <2>3, <3>1, <4>1
      <3>4. QED
        BY <3>2, <3>3
    <2>5. n + 1 <= end + 1
      BY <2>3
    <2>6. QED
      BY <2>2, <2>4, <2>5
  <1>8. QED
    BY <1>2, <1>5, <1>6, <1>7

\* The byte that completes a frame is the last of one that stands there whole.
LEMMA CompletesStands ==
    ASSUME NEW p, WellFormed(p), NEW bytes \in Seq(Byte), NEW end \in Nat,
           end + 1 <= Len(bytes), Tracked(p, bytes, end), Completes(p, bytes[end + 1])
    PROVE  Stands(Received(p), bytes)
  <1> DEFINE got == p.got
  <1>1. /\ p.state = "READ_CRC_1"
        /\ got[5 + got[4]] + 256 * bytes[end + 1] = CRC(SubSeq(got, 1, 4 + got[4]))
    BY DEF Completes
  <1>2. got \in Seq(Byte) /\ Len(got) >= 4 /\ HeaderValid(got) /\ Len(got) = 5 + got[4]
    BY <1>1 DEF WellFormed
  <1>3. PICK n \in 1..64 : n = got[4] /\ Len(got) = 5 + n
    BY <1>2, HeaderComplete DEF MAX_DATA_LEN
  <1>4. PICK start \in Nat : start = end - 8 - n
    <2>1. 3 + (5 + n) <= end
      BY <1>1, <1>3, BegunFacts DEF Tracked
    <2>2. QED
      BY <2>1
  <1>5. /\ bytes[start + 1] = USB_SYNC_0 /\ bytes[start + 2] = USB_SYNC_1
        /\ bytes[start + 3] = USB_PROTOCOL_VERSION
        /\ \A i \in 1..5 + n : bytes[start + 3 + i] = got[i]
    <2> DEFINE begun == Begun(p)
    <2>1. /\ Len(begun) = 3 + (5 + n)
          /\ begun[1] = USB_SYNC_0 /\ begun[2] = USB_SYNC_1
          /\ begun[3] = USB_PROTOCOL_VERSION
          /\ \A i \in 1..5 + n : begun[3 + i] = got[i]
      BY <1>1, <1>3, BegunFacts
    <2>2. \A i \in 1..Len(begun) : bytes[end - Len(begun) + i] = begun[i]
      BY DEF Tracked
    <2> HIDE DEF begun, got
    <2>3. \A i \in 1..8 + n : bytes[start + i] = begun[i]
      <3> TAKE i \in 1..8 + n
      <3>1. 3 + (5 + n) = 8 + n /\ end - (8 + n) = start
        BY <1>4
      <3>2. QED
        BY <2>1, <2>2, <3>1
    <2>4. 1 \in 1..8 + n /\ 2 \in 1..8 + n /\ 3 \in 1..8 + n
      OBVIOUS
    <2>5. \A i \in 1..5 + n : bytes[start + 3 + i] = got[i]
      <3> TAKE i \in 1..5 + n
      <3>1. 3 + i \in 1..8 + n /\ start + (3 + i) = start + 3 + i
        OBVIOUS
      <3>2. QED
        BY <2>1, <2>3, <3>1
    <2>6. QED
      BY <2>1, <2>3, <2>4, <2>5
  <1> DEFINE body == SubSeq(bytes, start + 4, start + 7 + n)
  <1>6. body = SubSeq(got, 1, 4 + n)
    <2> HIDE DEF got
    <2>1. /\ SubSeq(got, 1, 4 + n) \in Seq(Byte) /\ Len(SubSeq(got, 1, 4 + n)) = 4 + n
          /\ \A i \in 1..4 + n : SubSeq(got, 1, 4 + n)[i] = got[i]
      <3>1. 4 + n \in 0..5 + n
        OBVIOUS
      <3>2. 4 + n \in 0..Len(got)
        BY <1>3, <3>1, Zenon
      <3>3. QED
        BY <1>2, <3>2, Beginning
    <2>2. PICK first \in Int, last \in Int :
              /\ first = start + 4 /\ last = start + 7 + n
              /\ first <= last /\ last - first + 1 = 4 + n
              /\ \A i \in 1..4 + n : first + i - 1 = start + 3 + i
              /\ \A i \in first..last : i \in 1..Len(bytes)
      <3>1. \A i \in start + 4..start + 7 + n : i \in 1..Len(bytes)
        <4>1. start + 7 + n <= end /\ end + 1 <= Len(bytes) /\ Len(bytes) \in Nat
          BY <1>4, LenProperties
        <4>2. QED
          BY <4>1
      <3>2. /\ start + 4 <= start + 7 + n /\ start + 7 + n - (start + 4) + 1 = 4 + n
            /\ \A i \in 1..4 + n : start + 4 + i - 1 = start + 3 + i
        OBVIOUS
      <3>3. QED
        BY <3>1, <3>2
    <2>3. \A i \in first..last : bytes[i] \in Byte
      BY <2>2, ElementOfSeq
    <2>4. /\ SubSeq(bytes, first, last) \in Seq(Byte)
          /\ Len(SubSeq(bytes, first, last)) =
                 IF first <= last THEN last - first + 1 ELSE 0
          /\ \A i \in 1..last - first + 1 :
                 SubSeq(bytes, first, last)[i] = bytes[first + i - 1]
      BY <2>3, SubSeqProperties
    <2>5. /\ body \in Seq(Byte) /\ Len(body) = 4 + n
          /\ \A i \in 1..4 + n : body[i] = bytes[start + 3 + i]
      BY <2>2, <2>4
    <2> HIDE DEF body
    <2>6. \A i \in 1..4 + n : body[i] = got[i]
      <3> TAKE i \in 1..4 + n
      <3>1. i \in 1..5 + n
        OBVIOUS
      <3>2. QED
        BY <1>5, <2>5, <3>1
    <2> DEFINE front == SubSeq(got, 1, 4 + n)
    <2>7. /\ front \in Seq(Byte) /\ Len(front) = 4 + n
          /\ \A i \in 1..4 + n : front[i] = body[i]
      BY <2>1, <2>6
    <2> HIDE DEF front
    <2>8. body = front
      BY <2>5, <2>7, SeqEqual
    <2>9. QED
      BY <2>8 DEF front
  <1>7. \A i \in 1..4 + n : SubSeq(got, 1, 4 + n)[i] = got[i]
    <2> HIDE DEF got
    <2>1. 4 + n \in 0..5 + n
      OBVIOUS
    <2>2. 4 + n \in 0..Len(got)
      BY <1>3, <2>1, Zenon
    <2>3. QED
      BY <1>2, <2>2, Beginning
  <1>8. SubSeq(SubSeq(got, 1, 4 + n), 5, 4 + n) = SubSeq(got, 5, 4 + n)
        /\ Len(SubSeq(got, 5, 4 + n)) = n
    <2> HIDE DEF got
    <2> DEFINE front == SubSeq(got, 1, 4 + n)
               left  == SubSeq(front, 5, 4 + n)
               right == SubSeq(got, 5, 4 + n)
    <2>1. \A i \in 5..4 + n : i \in 1..4 + n /\ i \in 1..Len(got)
      BY <1>3
    <2>2. \A i \in 5..4 + n : got[i] \in Byte /\ front[i] = got[i]
      BY <1>2, <1>7, <2>1, ElementOfSeq
    <2> HIDE DEF front
    <2>3. PICK last \in Int : last = 4 + n /\ 5 <= last /\ last - 5 + 1 = n
      OBVIOUS
    <2>4. /\ SubSeq(front, 5, last) \in Seq(Byte)
          /\ Len(SubSeq(front, 5, last)) = last - 5 + 1
          /\ \A i \in 1..last - 5 + 1 : SubSeq(front, 5, last)[i] = front[5 + i - 1]
      BY <2>2, <2>3, Stretch
    <2>5. /\ SubSeq(got, 5, last) \in Seq(Byte)
          /\ Len(SubSeq(got, 5, last)) = last - 5 + 1
          /\ \A i \in 1..last - 5 + 1 : SubSeq(got, 5, last)[i] = got[5 + i - 1]
      BY <2>2, <2>3, Stretch
    <2>6. /\ left \in Seq(Byte) /\ Len(left) = n
          /\ \A i \in 1..n : left[i] = front[5 + i - 1]
      BY <2>3, <2>4, Zenon
    <2>7. /\ right \in Seq(Byte) /\ Len(right) = n
          /\ \A i \in 1..n : right[i] = got[5 + i - 1]
      BY <2>3, <2>5, Zenon
    <2> HIDE DEF left, right
    <2>8. \A i \in 1..n : left[i] = right[i]
      <3> TAKE i \in 1..n
      <3>1. 5 + i - 1 \in 5..4 + n
        OBVIOUS
      <3>2. QED
        BY <2>2, <2>6, <2>7, <3>1
    <2>9. left = right
      BY <2>6, <2>7, <2>8, SeqEqual
    <2>10. QED
      BY <2>7, <2>9 DEF left, right, front
  <1>9. /\ Received(p).type = got[3] /\ Received(p).payload = SubSeq(got, 5, 4 + n)
    BY <1>3 DEF Received
  <1>10. /\ body[3] = got[3] /\ body[4] = n
    <2>1. 3 \in 1..4 + n /\ 4 \in 1..4 + n
      OBVIOUS
    <2>2. QED
      BY <1>3, <1>6, <1>7, <2>1
  <1>11. bytes[start + 8 + n] = got[5 + n] /\ bytes[start + 9 + n] = bytes[end + 1]
    <2>1. 5 + n \in 1..5 + n /\ start + 3 + (5 + n) = start + 8 + n
          /\ start + 9 + n = end + 1
      BY <1>4
    <2>2. QED
      BY <1>5, <2>1
  <1>12. bytes[start + 8 + n] + 256 * bytes[start + 9 + n] = CRC(body)
    BY <1>1, <1>3, <1>6, <1>11, Zenon
  <1>13. start \in 0..Len(bytes) - USB_FRAME_OVERHEAD - n
    BY <1>4, LenProperties DEF USB_FRAME_OVERHEAD
  <1>14. SubSeq(body, 5, 4 + n) = Received(p).payload /\ Len(Received(p).payload) = n
    BY <1>6, <1>8, <1>9
  <1> HIDE DEF body, got
  <1>15. QED
    BY <1>5, <1>9, <1>10, <1>12, <1>13, <1>14 DEF Stands, body

\* Whatever is read next.
LEMMA ParseStands ==
    ASSUME ParserInv, NEW item \in Seq(Byte)
    PROVE  /\ \A k \in 1..Len(Parse(item).accepted) :
                  Stands(Parse(item).accepted[k], Begun(parser) \o item)
           /\ EndsWith(Begun(parser) \o item, Begun(Parse(item).parser))
  <1> DEFINE begun == Begun(parser)
             bytes == begun \o item
  <1>1. PICK b \in Nat, m \in Nat : b = Len(begun) /\ m = Len(item)
    BY BegunFacts, LenProperties DEF ParserInv
  <1>2. /\ bytes \in Seq(Byte) /\ Len(bytes) = b + m
        /\ \A i \in 1..b + m : bytes[i] = IF i <= b THEN begun[i] ELSE item[i - b]
    BY <1>1, BegunFacts, ConcatProperties DEF ParserInv
  <1>3. PICK f : Runs(f, item, m) /\ Parse(item) = f[m]
    BY <1>1, ParseRuns
  <1>4. \A i \in 0..m : f[i] = IF i = 0 THEN [parser |-> parser, accepted |-> <<>>]
                               ELSE Turn(f[i - 1], item[i])
    BY <1>3 DEF Runs
  <1> DEFINE Good(r, n) == /\ SoundRun(r) /\ Tracked(r.parser, bytes, b + n)
                           /\ \A k \in 1..Len(r.accepted) : Stands(r.accepted[k], bytes)
             S == {n \in Nat : n <= m => Good(f[n], n)}
  <1>5. 0 \in S
    <2>1. f[0] = [parser |-> parser, accepted |-> <<>>]
      BY <1>4
    <2>2. f[0].parser = parser /\ f[0].accepted = <<>> /\ Len(f[0].accepted) = 0
      BY <2>1
    <2>3. SoundRun(f[0])
      BY <2>2, EmptySeq DEF SoundRun, ParserInv
    <2>4. Tracked(parser, bytes, b + 0)
      <3> HIDE DEF bytes
      <3>1. \A i \in 1..b : bytes[b + 0 - b + i] = begun[i]
        <4> HIDE DEF begun
        <4> TAKE i \in 1..b
        <4>1. b + 0 - b + i = i /\ i \in 1..b + m /\ i <= b
          OBVIOUS
        <4>2. QED
          BY <1>2, <4>1
      <3>2. b <= b + 0
        OBVIOUS
      <3>3. QED
        BY <1>1, <3>1, <3>2 DEF Tracked
    <2> HIDE DEF bytes
    <2>5. QED
      BY <2>2, <2>3, <2>4
  <1>6. ASSUME NEW n \in Nat, n \in S PROVE n + 1 \in S
    <2> SUFFICES ASSUME n + 1 <= m PROVE Good(f[n + 1], n + 1)
      OBVIOUS
    <2>1. n <= m /\ n + 1 \in 0..m /\ n + 1 # 0 /\ n + 1 - 1 = n
      OBVIOUS
    <2>2. f[n + 1] = Turn(f[n], item[n + 1])
      BY <1>4, <2>1
    <2>3. bytes[b + n + 1] = item[n + 1] /\ bytes[b + n + 1] \in Byte
      <3>1. b + n + 1 \in 1..b + m /\ ~(b + n + 1 <= b) /\ b + n + 1 - b = n + 1
        OBVIOUS
      <3> HIDE DEF bytes
      <3>2. QED
        BY <1>2, <3>1, ElementOfSeq
    <2> DEFINE r    == f[n]
               byte == item[n + 1]
               end  == b + n
    <2>4. Good(r, n)
      BY <1>6, <2>1
    <2> HIDE DEF bytes
    <2>5. end \in Nat /\ end + 1 <= Len(bytes) /\ end + 1 = b + (n + 1)
      BY <1>2
    <2>6. SoundRun(Turn(r, byte))
      BY <2>3, <2>4, TurnSound
    <2>7. Tracked(Turn(r, byte).parser, bytes, b + (n + 1))
      <3>1. Tracked(ParseByte(r.parser, bytes[end + 1]), bytes, end + 1)
        BY <2>3, <2>4, <2>5, TrackedStep DEF SoundRun
      <3>2. QED
        BY <2>3, <2>5, <3>1 DEF Turn
    <2>8. ASSUME NEW k \in 1..Len(Turn(r, byte).accepted)
          PROVE  Stands(Turn(r, byte).accepted[k], bytes)
      <3>1. r.accepted \in Seq(SoundPacket) /\ Len(r.accepted) \in Nat
        BY <2>4, LenProperties DEF SoundRun
      <3>2. CASE Completes(r.parser, byte)
        <4>1. Stands(Received(r.parser), bytes)
          <5>1. Completes(r.parser, bytes[end + 1])
            BY <2>3, <3>2
          <5>2. WellFormed(r.parser) /\ Tracked(r.parser, bytes, end)
            BY <2>4 DEF SoundRun
          <5>3. bytes \in Seq(Byte)
            BY <1>2
          <5> HIDE DEF end, r
          <5>4. QED
            BY <2>5, <5>1, <5>2, <5>3, CompletesStands
        <4>2. Turn(r, byte).accepted = Append(r.accepted, Received(r.parser))
          BY <3>2 DEF Turn
        <4>3. Received(r.parser) \in SoundPacket
          BY <2>4, <3>2, ReceivedSound DEF SoundRun, Completes
        <4>4. /\ Len(Turn(r, byte).accepted) = Len(r.accepted) + 1
              /\ Turn(r, byte).accepted[Len(r.accepted) + 1] = Received(r.parser)
              /\ \A i \in 1..Len(r.accepted) :
                     Turn(r, byte).accepted[i] = r.accepted[i]
          BY <3>1, <4>2, <4>3, AppendProperties
        <4>5. CASE k = Len(r.accepted) + 1
          BY <4>1, <4>4, <4>5
        <4>6. CASE k # Len(r.accepted) + 1
          <5>1. k \in 1..Len(r.accepted)
            BY <3>1, <4>4, <4>6
          <5>2. QED
            BY <2>4, <4>4, <5>1
        <4>7. QED
          BY <4>5, <4>6
      <3>3. CASE ~Completes(r.parser, byte)
        <4>1. Turn(r, byte).accepted = r.accepted
          BY <3>3 DEF Turn
        <4>2. QED
          BY <2>4, <4>1
      <3>4. QED
        BY <3>2, <3>3
    <2>9. QED
      BY <2>2, <2>6, <2>7, <2>8
  <1>7. Nat \subseteq S
    <2> HIDE DEF S
    <2>1. QED
      BY <1>5, <1>6, SetInduction
  <1>8. Good(Parse(item), m)
    BY <1>3, <1>7
  <1> HIDE DEF bytes
  <1>9. EndsWith(bytes, Begun(Parse(item).parser))
    BY <1>2, <1>8 DEF Tracked, EndsWith
  <1>10. QED
    BY <1>8, <1>9 DEF bytes

-----------------------------------------------------------------------------
(* What is sent. *)

\* handleConfig() goes through no more entries than their number in the frame
\* and the limit of the reply allow.
LEMMA EntriesFacts ==
    ASSUME NEW p \in SoundPacket, p.type = CONFIG
    PROVE  /\ Entries(p) \in Nat
           /\ Entries(p) > 0 =>
                  /\ CONFIG_HEADER_SIZE + Entries(p) * CONFIG_ENTRY_SIZE
                        <= Len(p.payload)
                  /\ ReadResponse(Entries(p)) \in 0..MAX_DATA_LEN \/ p.payload[2] # READ
                  /\ SetResponse(Entries(p)) \in 0..MAX_DATA_LEN
  <1>1. p.payload \in Seq(Byte) /\ Len(p.payload) >= 3 /\ Len(p.payload) \in Nat
    BY ValidLengthsFacts, LenProperties
    DEF SoundPacket, Packet, CONFIG_HEADER_SIZE
  <1>2. p.payload[3] \in Byte
    BY <1>1, ElementOfSeq
  <1>3. PICK count \in Nat : count = p.payload[3]
    BY <1>2 DEF Byte
  <1>4. CASE Entries(p) = 0
    BY <1>4
  <1>5. CASE Entries(p) # 0
    <2> DEFINE op    == p.payload[2]
               limit == CASE op = READ -> MaxReadEntries
                          [] op = SET  -> MaxEntries
                          [] OTHER     -> 0
    <2>0. /\ Entries(p) = count
          /\ Len(p.payload) = (3 + count * 6) % 256
          /\ count <= limit
      <3>1. Entries(p) = p.payload[3]
            /\ Len(p.payload) = (CONFIG_HEADER_SIZE + p.payload[3] * CONFIG_ENTRY_SIZE) % 256
            /\ p.payload[3] <= limit
        BY <1>5, Zenon DEF Entries
      <3> HIDE DEF limit
      <3>2. QED
        BY <1>3, <3>1 DEF CONFIG_HEADER_SIZE, CONFIG_ENTRY_SIZE
    <2>1. /\ Entries(p) = count
          /\ Len(p.payload) = (3 + count * 6) % 256
          /\ \/ p.payload[2] = READ /\ count <= MaxReadEntries
             \/ p.payload[2] # READ /\ count <= MaxEntries
             \/ count <= 0
      <3>1. CASE op = READ
        <4>1. limit = MaxReadEntries
          BY <3>1 DEF READ, SET
        <4> HIDE DEF limit
        <4>2. QED
          BY <2>0, <3>1, <4>1
      <3>2. CASE op = SET
        <4>1. limit = MaxEntries
          BY <3>2 DEF READ, SET
        <4> HIDE DEF limit
        <4>2. QED
          BY <2>0, <3>2, <4>1 DEF READ, SET
      <3>3. CASE op # READ /\ op # SET
        <4>1. limit = 0
          BY <3>3
        <4> HIDE DEF limit
        <4>2. QED
          BY <2>0, <4>1
      <3>4. QED
        BY <3>1, <3>2, <3>3
    <2> HIDE DEF limit, op
    <2>2. PICK set \in Nat, read \in Nat :
              /\ set = MaxEntries /\ read = MaxReadEntries
              /\ 3 + set * 6 <= 64 /\ 4 + 7 * read <= 64
      BY UsbAssumptions
      DEF MaxConfig, CONFIG_HEADER_SIZE, CONFIG_ENTRY_SIZE, MAX_DATA_LEN
    <2>3. count > 0
      BY <1>3, <1>5, <2>1
    <2>4. (count <= set /\ p.payload[2] # READ) \/ count <= read
      BY <2>1, <2>2, <2>3
    <2>5. count <= 10
      BY <2>2, <2>4
    <2>6. (3 + count * 6) % 256 = 3 + count * 6 /\ 4 + 3 * count \in 0..64
      BY <2>5
    <2>7. 4 + 7 * count \in 0..64 \/ p.payload[2] # READ
      BY <2>2, <2>4
    <2>8. CONFIG_HEADER_SIZE + count * CONFIG_ENTRY_SIZE = 3 + count * 6
      BY DEF CONFIG_HEADER_SIZE, CONFIG_ENTRY_SIZE
    <2>9. QED
      BY <2>1, <2>6, <2>7, <2>8 DEF ReadResponse, SetResponse, MAX_DATA_LEN
  <1>6. QED
    BY <1>4, <1>5

\* Every reply and every piece of a text fits a packet.
Lengths == Seq(0..MAX_DATA_LEN)

LEMMA ReplyFits ==
    ASSUME NEW p \in SoundPacket
    PROVE  Reply(p) \in Lengths
  <1>1. CASE p.type = CONFIG
    <2>1. ConfigReply(p) \in 0..MAX_DATA_LEN
      <3>1. CASE Entries(p) = 0
        BY <3>1 DEF ConfigReply, Refusal, MAX_DATA_LEN
      <3>2. CASE Entries(p) # 0
        <4>1. Entries(p) > 0
          BY <1>1, <3>2, EntriesFacts
        <4>2. QED
          BY <1>1, <3>2, <4>1, EntriesFacts DEF ConfigReply
      <3>3. QED
        BY <3>1, <3>2
    <2>2. Reply(p) = <<ConfigReply(p)>>
      BY <1>1 DEF Reply, RAW, CONFIG
    <2>3. QED
      BY <2>1, <2>2 DEF Lengths
  <1>2. CASE p.type # CONFIG
    <2>1. Reply(p) = <<Identity>> \/ Reply(p) = <<>>
      BY <1>2 DEF Reply
    <2>2. Identity \in 0..MAX_DATA_LEN
      BY DEF Identity, MAX_DATA_LEN
    <2>3. <<Identity>> \in Lengths
      BY <2>2 DEF Lengths
    <2>4. <<>> \in Lengths
      BY EmptySeq DEF Lengths
    <2>5. QED
      BY <2>1, <2>3, <2>4
  <1>3. QED
    BY <1>1, <1>2

LEMMA ChunksFit ==
    ASSUME NEW length \in TextLengths
    PROVE  Chunks(length) \in Lengths
  <1>1. length \in Nat
    BY UsbAssumptions
  <1>2. (length + 64 - 1) \div 64 \in Nat
    BY <1>1
  <1> DEFINE pieces == (length + 64 - 1) \div 64
  <1> HIDE DEF pieces
  <1>3. length % 64 \in 0..64
    BY <1>1
  <1>4. Chunks(length) = [i \in 1..pieces |-> IF length >= i * 64 THEN 64 ELSE length % 64]
    BY DEF Chunks, MAX_DATA_LEN, pieces
  <1>5. Chunks(length) \in [1..pieces -> 0..64]
    BY <1>3, <1>4
  <1>6. QED
    <2>1. pieces \in Nat
      BY <1>2 DEF pieces
    <2>2. QED
      BY <1>5, <2>1 DEF Lengths, MAX_DATA_LEN

-----------------------------------------------------------------------------
(* Numbers modulo PacketWrap. *)

LEMMA ModUnique ==
    ASSUME NEW w \in Nat \ {0}, NEW q \in Int, NEW r \in 0..w - 1
    PROVE  (q * w + r) % w = r
  OBVIOUS

LEMMA ModParts ==
    ASSUME NEW w \in Nat \ {0}, NEW x \in Nat
    PROVE  \E q \in Nat, r \in 0..w - 1 : x = q * w + r /\ x % w = r
  OBVIOUS

LEMMA ModAdd ==
    ASSUME NEW w \in Nat \ {0}, NEW a \in Nat, NEW b \in Nat
    PROVE  ((a % w) + b) % w = (a + b) % w /\ a % w \in 0..w - 1
  <1>1. PICK q \in Nat, r \in 0..w - 1 : a = q * w + r /\ a % w = r
    BY ModParts
  <1>2. PICK k \in Nat, s \in 0..w - 1 : r + b = k * w + s /\ (r + b) % w = s
    <2>1. r + b \in Nat
      OBVIOUS
    <2>2. QED
      BY <2>1, ModParts
  <1>3. a + b = (q + k) * w + s
    BY <1>1, <1>2
  <1>4. (a + b) % w = s
    <2>1. q + k \in Int
      OBVIOUS
    <2>2. ((q + k) * w + s) % w = s
      BY <2>1, ModUnique
    <2>3. QED
      BY <1>3, <2>2
  <1>5. QED
    BY <1>1, <1>2, <1>4

-----------------------------------------------------------------------------
(* The queues. *)

LEMMA UsbBounds ==
    /\ TX_DEPTH \in Nat \ {0} /\ RX_DEPTH \in Nat \ {0} /\ PacketWrap \in Nat \ {0}
    /\ PortRoom \in Nat /\ USB_FRAME_OVERHEAD + MAX_DATA_LEN <= PortRoom
  <1>1. PortRoom \in 0..PortRoom
    BY UsbAssumptions
  <1>2. PortRoom \in Nat
    BY <1>1
  <1>3. QED
    BY <1>2, UsbAssumptions

LEMMA EnqueueFacts ==
    ASSUME NEW T, NEW queue \in Seq(T), NEW packets \in Seq(T), NEW depth \in Nat
    PROVE  /\ Enqueue(queue, packets, depth) \in Seq(T)
           /\ Len(queue) + Len(packets) <= depth =>
                  Len(Enqueue(queue, packets, depth)) = Len(queue) + Len(packets)
           /\ Len(queue) + Len(packets) > depth =>
                  Len(Enqueue(queue, packets, depth)) = depth
           /\ Newest(Enqueue(queue, packets, depth), queue, packets)
  <1>1. Enqueue(queue, packets, depth) = PushBack(queue, packets, depth)
    BY DEF Enqueue, PushBack
  <1>2. PushBack(queue, packets, depth) \in Seq(T)
    BY PushBackFacts
  <1>3. Len(PushBack(queue, packets, depth)) =
            IF Len(queue) + Len(packets) <= depth THEN Len(queue) + Len(packets)
            ELSE depth
    BY <1>2, PushBackFacts
  <1>4. Newest(PushBack(queue, packets, depth), queue, packets)
    BY <1>2, PushBackFacts
  <1>5. Len(queue) \in Nat /\ Len(packets) \in Nat
    BY LenProperties
  <1>6. QED
    BY <1>1, <1>2, <1>3, <1>4, <1>5

LEMMA NumberedFacts ==
    ASSUME NEW lengths \in Lengths, packetNum \in 0..PacketWrap - 1
    PROVE  /\ Numbered(lengths) \in Seq(Outgoing) /\ Len(Numbered(lengths)) = Len(lengths)
           /\ \A i \in 1..Len(lengths) :
                  Numbered(lengths)[i].num = (packetNum + i - 1) % PacketWrap
  <1>1. Len(lengths) \in Nat /\ \A i \in 1..Len(lengths) : lengths[i] \in 0..MAX_DATA_LEN
    BY LenProperties, ElementOfSeq DEF Lengths
  <1>2. \A i \in 1..Len(lengths) : (packetNum + i - 1) % PacketWrap \in 0..PacketWrap - 1
    <2>1. PICK w \in Nat \ {0}, num \in Nat : w = PacketWrap /\ num = packetNum
      BY UsbBounds
    <2>2. \A i \in 1..Len(lengths) : num + i - 1 \in Nat
      BY <1>1
    <2>3. \A i \in 1..Len(lengths) : (num + i - 1) % w \in 0..w - 1
      BY <2>1, <2>2, ModAdd
    <2>4. QED
      BY <2>1, <2>3
  <1>3. Numbered(lengths) \in [1..Len(lengths) -> Outgoing]
    BY <1>1, <1>2 DEF Numbered, Outgoing
  <1>4. \A i \in 1..Len(lengths) :
            Numbered(lengths)[i].num = (packetNum + i - 1) % PacketWrap
    BY DEF Numbered
  <1>5. QED
    BY <1>1, <1>3, <1>4, SMTT(30)

\* What is queued is numbered without a gap, after the last number written and
\* those displaced since.
Numbering(queue, lost, last) ==
    /\ \A i \in 1..Len(queue) : queue[i].num = (last + lost + i) % PacketWrap
    /\ packetNum = (last + lost + Len(queue) + 1) % PacketWrap

\* send() keeps the numbering, whatever it displaces.
LEMMA SendStep ==
    ASSUME packetNum \in 0..PacketWrap - 1, NEW queue \in Seq(Outgoing),
           NEW lost \in 0..PacketWrap - 1, NEW last \in 0..PacketWrap - 1,
           NEW lengths \in Lengths, Numbering(queue, lost, last),
           Send(queue, lost, lengths), wire' = last
    PROVE  /\ txBuffer' \in Seq(Outgoing) /\ Len(txBuffer') <= TX_DEPTH
           /\ packetNum' \in 0..PacketWrap - 1 /\ displaced' \in 0..PacketWrap - 1
           /\ SkipsAreDisplaced'
  <1> DEFINE numbered == Numbered(lengths)
             over     == Overflow(queue, lengths, TX_DEPTH)
  <1>1. /\ txBuffer' = Enqueue(queue, numbered, TX_DEPTH)
        /\ packetNum' = (packetNum + Len(lengths)) % PacketWrap
        /\ displaced' = (lost + over) % PacketWrap
    BY DEF Send
  <1>2. /\ numbered \in Seq(Outgoing) /\ Len(numbered) = Len(lengths)
        /\ \A i \in 1..Len(lengths) :
               numbered[i].num = (packetNum + i - 1) % PacketWrap
    BY NumberedFacts
  <1> HIDE DEF numbered, over
  <1>3. PICK n \in Nat, m \in Nat, depth \in Nat, w \in Nat \ {0} :
            n = Len(queue) /\ m = Len(lengths) /\ depth = TX_DEPTH /\ w = PacketWrap
    BY LenProperties, UsbBounds DEF Lengths
  <1>4. lost \in Nat /\ last \in Nat /\ packetNum \in Nat
    OBVIOUS
  <1>5. /\ txBuffer' \in Seq(Outgoing)
        /\ Len(txBuffer') = IF n + m <= depth THEN n + m ELSE depth
        /\ \A i \in 1..Len(txBuffer') : \E j \in 1..n + m :
               /\ n + m - j = Len(txBuffer') - i
               /\ txBuffer'[i] = IF j <= n THEN queue[j] ELSE numbered[j - n]
    <2>1. TX_DEPTH \in Nat /\ Len(numbered) = m /\ Len(queue) = n
      BY <1>2, <1>3
    <2>5. numbered \in Seq(Outgoing) /\ TX_DEPTH \in Nat
      BY <1>2, <2>1
    <2>6. Enqueue(queue, numbered, TX_DEPTH) \in Seq(Outgoing)
      BY <2>5, EnqueueFacts
    <2>2. /\ Len(queue) + Len(numbered) <= TX_DEPTH =>
                 Len(Enqueue(queue, numbered, TX_DEPTH)) = Len(queue) + Len(numbered)
          /\ Len(queue) + Len(numbered) > TX_DEPTH =>
                 Len(Enqueue(queue, numbered, TX_DEPTH)) = TX_DEPTH
      BY <2>5, <2>6, EnqueueFacts
    <2>3. Newest(Enqueue(queue, numbered, TX_DEPTH), queue, numbered)
      BY <2>5, <2>6, EnqueueFacts
    <2>4. QED
      BY <1>1, <1>3, <2>1, <2>2, <2>3, <2>6 DEF Newest
  <1>6. PICK kept \in Nat : kept = Len(txBuffer') /\ kept <= depth
                            /\ kept = IF n + m <= depth THEN n + m ELSE depth
    BY <1>5
  <1>7. over \in Nat /\ over + kept = n + m
    <2>1. TX_DEPTH = depth /\ Len(queue) = n /\ Len(lengths) = m
      BY <1>3
    <2>2. Overflow(queue, lengths, depth) = IF n + m <= depth THEN 0 ELSE n + m - depth
      BY <2>1, Zenon DEF Overflow
    <2>3. over = IF n + m <= depth THEN 0 ELSE n + m - depth
      BY <2>1, <2>2, Zenon DEF over
    <2>4. kept = IF n + m <= depth THEN n + m ELSE depth
      BY <1>6
    <2>5. QED
      BY <2>3, <2>4
  <1>8. ASSUME NEW b \in Nat
        PROVE  (packetNum + b) % w = (last + lost + n + 1 + b) % w
    <2>1. last + lost + n + 1 \in Nat
      BY <1>4
    <2>2. packetNum = (last + lost + n + 1) % w
      BY <1>3 DEF Numbering
    <2>3. QED
      BY <2>1, <2>2, ModAdd
  <1>9. ASSUME NEW b \in Nat
        PROVE  (last + displaced' + b) % w = (last + lost + over + b) % w
    <2>1. lost + over \in Nat /\ last + b \in Nat
      BY <1>4, <1>7
    <2>2. PICK d \in Nat : d = displaced' /\ d = (lost + over) % w
      BY <1>1, <1>3, <2>1, ModAdd
    <2>3. (d + (last + b)) % w = (lost + over + (last + b)) % w
      <3>1. PICK x \in Nat, y \in Nat : x = lost + over /\ y = last + b
        BY <2>1
      <3>2. ((x % w) + y) % w = (x + y) % w
        BY ModAdd
      <3>3. QED
        BY <2>2, <3>1, <3>2
    <2>4. d + (last + b) = last + d + b
          /\ lost + over + (last + b) = last + lost + over + b
      BY <1>4, <1>7
    <2>5. QED
      BY <2>2, <2>3, <2>4
  <1>10. ASSUME NEW j \in 1..n + m
         PROVE  (IF j <= n THEN queue[j] ELSE numbered[j - n]).num
                    = (last + lost + j) % w
    <2>1. CASE j <= n
      <3>1. j \in 1..n
        BY <2>1
      <3>2. queue[j].num = (last + lost + j) % w
        BY <1>3, <3>1 DEF Numbering
      <3>3. QED
        BY <2>1, <3>2
    <2>2. CASE ~(j <= n)
      <3>1. j - n \in 1..m /\ j - n - 1 \in Nat
        BY <2>2
      <3>2. numbered[j - n].num = (packetNum + (j - n) - 1) % w
        BY <1>2, <1>3, <3>1
      <3>3. packetNum + (j - n) - 1 = packetNum + (j - n - 1)
            /\ last + lost + n + 1 + (j - n - 1) = last + lost + j
        BY <1>4
      <3>4. (packetNum + (j - n - 1)) % w = (last + lost + n + 1 + (j - n - 1)) % w
        BY <1>8, <3>1
      <3>5. QED
        BY <2>2, <3>2, <3>3, <3>4
    <2>3. QED
      BY <2>1, <2>2
  <1>11. ASSUME NEW i \in 1..kept
         PROVE  txBuffer'[i].num = (last + displaced' + i) % w
    <2>1. PICK j \in 1..n + m :
              /\ n + m - j = kept - i
              /\ txBuffer'[i] = IF j <= n THEN queue[j] ELSE numbered[j - n]
      BY <1>5, <1>6
    <2>2. last + lost + j = last + lost + over + i
      <3>1. n + m - j = kept - i /\ over + kept = n + m /\ over \in Nat
        BY <1>7, <2>1
      <3>2. j = over + i
        BY <3>1
      <3>3. QED
        BY <1>4, <3>1, <3>2
    <2>3. txBuffer'[i].num = (last + lost + j) % w
      BY <1>10, <2>1
    <2>4. (last + displaced' + i) % w = (last + lost + over + i) % w
      BY <1>9
    <2>5. QED
      BY <2>2, <2>3, <2>4
  <1>12. packetNum' = (last + displaced' + kept + 1) % w
    <2>1. packetNum' = (last + lost + n + 1 + m) % w
      BY <1>1, <1>3, <1>8
    <2>2. kept + 1 \in Nat
      OBVIOUS
    <2>3. (last + displaced' + (kept + 1)) % w = (last + lost + over + (kept + 1)) % w
      BY <1>9, <2>2
    <2>4. last + lost + n + 1 + m = last + lost + over + (kept + 1)
      BY <1>4, <1>7
    <2>5. displaced' \in Nat
      BY <1>1, <1>3, <1>4, <1>7, ModAdd
    <2>6. last + displaced' + (kept + 1) = last + displaced' + kept + 1
      BY <1>4, <2>5
    <2>7. QED
      BY <2>1, <2>3, <2>4, <2>6
  <1>13. packetNum' \in 0..w - 1 /\ displaced' \in 0..w - 1
    BY <1>1, <1>3, <1>4, <1>7, ModAdd
  <1>14. QED
    BY <1>3, <1>5, <1>6, <1>11, <1>12, <1>13 DEF SkipsAreDisplaced

-----------------------------------------------------------------------------
(* The steps. *)

LEMMA SoundQueue ==
    ASSUME NEW queue \in Seq(SoundPacket)
    PROVE  /\ queue \in Seq(Packet) /\ Len(queue) \in Nat
           /\ \A i \in 1..Len(queue) : queue[i] \in SoundPacket
  <1>1. SoundPacket \subseteq Packet
    BY DEF SoundPacket
  <1>2. queue \in Seq(Packet)
    BY <1>1, SeqMonotonic
  <1>3. QED
    BY <1>2, LenProperties, ElementOfSeq

LEMMA RxSound ==
    ASSUME TypeOK, ReceivedInv
    PROVE  rxBuffer \in Seq(SoundPacket)
  <1>1. Len(rxBuffer) \in Nat /\ rxBuffer \in [1..Len(rxBuffer) -> Packet]
    BY LenProperties DEF TypeOK
  <1>2. rxBuffer \in [1..Len(rxBuffer) -> SoundPacket]
    BY <1>1 DEF ReceivedInv
  <1>3. QED
    BY <1>1, <1>2

\* What both queues and the parser are in.
UsbFacts ==
    /\ UsbInv /\ NewestKept /\ SkipsAreDisplaced

LEMMA AcceptStep ==
    ASSUME UsbFacts, NEW item \in Seq(Byte), NEW whole \in BOOLEAN, Accept(item, whole)
    PROVE  UsbFacts'
  <1> DEFINE accepted == Parse(item).accepted
  <1>1. /\ parser' = Parse(item).parser
        /\ rxBuffer' = Enqueue(rxBuffer, accepted, RX_DEPTH)
        /\ newest' = IF accepted = <<>> THEN newest ELSE accepted[Len(accepted)]
        /\ missed' = IF whole /\ accepted = <<>> THEN missed + 1 ELSE 0
        /\ UNCHANGED <<txBuffer, packetNum, displaced, wire>>
    BY DEF Accept
  <1>2. WellFormed(parser') /\ accepted \in Seq(SoundPacket)
    BY <1>1, ParseSound DEF SoundRun, UsbFacts, UsbInv
  <1> HIDE DEF accepted
  <1>3. rxBuffer \in Seq(SoundPacket) /\ RX_DEPTH \in Nat \ {0} /\ newest \in Packet
    BY RxSound, UsbBounds DEF UsbFacts, UsbInv, TypeOK
  <1> DEFINE after == Enqueue(rxBuffer, accepted, RX_DEPTH)
  <1>4. /\ after \in Seq(SoundPacket)
        /\ Len(rxBuffer) + Len(accepted) <= RX_DEPTH =>
               Len(after) = Len(rxBuffer) + Len(accepted)
        /\ Len(rxBuffer) + Len(accepted) > RX_DEPTH => Len(after) = RX_DEPTH
        /\ Newest(after, rxBuffer, accepted)
    <2>1. /\ rxBuffer \in Seq(SoundPacket) /\ accepted \in Seq(SoundPacket)
          /\ RX_DEPTH \in Nat
      BY <1>2, <1>3
    <2>2. after \in Seq(SoundPacket)
      BY <2>1, EnqueueFacts
    <2>3. /\ Len(rxBuffer) + Len(accepted) <= RX_DEPTH =>
                 Len(after) = Len(rxBuffer) + Len(accepted)
          /\ Len(rxBuffer) + Len(accepted) > RX_DEPTH => Len(after) = RX_DEPTH
      BY <2>1, <2>2, EnqueueFacts
    <2>4. Newest(after, rxBuffer, accepted)
      BY <2>1, <2>2, EnqueueFacts
    <2> HIDE DEF after
    <2>5. QED
      BY <2>2, <2>3, <2>4
  <1>5. rxBuffer' = after
    BY <1>1
  <1> HIDE DEF after
  <1>6. rxBuffer' \in Seq(SoundPacket)
    BY <1>4, <1>5
  <1>7. /\ Len(rxBuffer) + Len(accepted) <= RX_DEPTH =>
               Len(rxBuffer') = Len(rxBuffer) + Len(accepted)
        /\ Len(rxBuffer) + Len(accepted) > RX_DEPTH => Len(rxBuffer') = RX_DEPTH
    BY <1>4, <1>5
  <1>8. \A i \in 1..Len(rxBuffer') :
            \E j \in 1..Len(rxBuffer) + Len(accepted) :
                /\ Len(rxBuffer) + Len(accepted) - j = Len(rxBuffer') - i
                /\ rxBuffer'[i] = IF j <= Len(rxBuffer) THEN rxBuffer[j]
                                  ELSE accepted[j - Len(rxBuffer)]
    BY <1>4, <1>5 DEF Newest
  <1>9. PICK n \in Nat, m \in Nat, kept \in Nat, depth \in Nat \ {0} :
            n = Len(rxBuffer) /\ m = Len(accepted) /\ kept = Len(rxBuffer')
            /\ depth = RX_DEPTH
    BY <1>2, <1>3, <1>6, LenProperties
  <1>10. kept <= depth /\ (n <= depth /\ m = 0 => kept = n) /\ (m > 0 => kept > 0)
    BY <1>7, <1>9
  <1>11. newest' \in Packet
    <2>1. CASE m = 0
      <3>1. accepted = <<>>
        BY <1>2, <1>9, <2>1, EmptySeq
      <3>2. QED
        BY <1>1, <1>3, <3>1
    <2>2. CASE m # 0
      <3>1. accepted # <<>> /\ m \in 1..m
        BY <1>2, <1>9, <2>2, EmptySeq
      <3>2. accepted[m] \in Packet
        BY <1>2, <1>9, <3>1, ElementOfSeq, SoundQueue
      <3>3. QED
        BY <1>1, <1>9, <3>1, <3>2
    <2>3. QED
      BY <2>1, <2>2
  <1>12. UsbInv'
    <2>1. rxBuffer' \in Seq(Packet) /\ \A i \in 1..Len(rxBuffer') : rxBuffer'[i] \in SoundPacket
      BY <1>6, SoundQueue
    <2>2. missed' \in Nat
      BY <1>1 DEF UsbFacts, UsbInv, TypeOK
    <2>3. parser' \in [state : RxState, got : Seq(Byte)]
      BY <1>2 DEF WellFormed
    <2>4. Len(rxBuffer') <= RX_DEPTH
      BY <1>9, <1>10
    <2>5. QED
      BY <1>1, <1>2, <1>11, <2>1, <2>2, <2>3, <2>4
      DEF UsbFacts, UsbInv, TypeOK, ParserInv, ReceivedInv
  <1>13. NewestKept'
    <2> SUFFICES ASSUME rxBuffer' # <<>> PROVE rxBuffer'[kept] = newest'
      BY <1>9 DEF NewestKept
    <2>1. kept > 0 /\ kept \in 1..kept
      BY <1>6, <1>9, EmptySeq
    <2>2. PICK j \in 1..n + m :
              /\ n + m - j = kept - kept
              /\ rxBuffer'[kept] = IF j <= n THEN rxBuffer[j] ELSE accepted[j - n]
      BY <1>8, <1>9, <2>1
    <2>3. j = n + m
      <3>1. n + m - j = kept - kept
        BY <2>2
      <3>2. QED
        BY <3>1
    <2>4. CASE m = 0
      <3>4. j = n /\ n # 0
        BY <2>3, <2>4
      <3>1. accepted = <<>> /\ j = n /\ n # 0
        BY <1>2, <1>9, <2>4, <3>4, EmptySeq
      <3>2. rxBuffer # <<>> /\ rxBuffer'[kept] = rxBuffer[n]
        BY <1>3, <1>9, <2>2, <3>1, EmptySeq
      <3>3. QED
        BY <1>1, <1>9, <3>1, <3>2 DEF UsbFacts, NewestKept
    <2>5. CASE m # 0
      <3>1. accepted # <<>>
        BY <1>9, <2>5, EmptySeq
      <3>2. ~(j <= n) /\ j - n = m
        BY <2>3, <2>5
      <3>3. QED
        BY <1>1, <1>9, <2>2, <3>1, <3>2
    <2>6. QED
      BY <2>4, <2>5
  <1>14. SkipsAreDisplaced'
    BY <1>1 DEF UsbFacts, SkipsAreDisplaced
  <1>15. QED
    BY <1>12, <1>13, <1>14 DEF UsbFacts

\* Once the head has been written, the rest follows it.
LEMMA TailNumbering ==
    ASSUME TypeOK, SkipsAreDisplaced, txBuffer # <<>>
    PROVE  /\ Tail(txBuffer) \in Seq(Outgoing)
           /\ txBuffer[1].num \in 0..PacketWrap - 1
           /\ Numbering(Tail(txBuffer), 0, txBuffer[1].num)
  <1>1. txBuffer \in Seq(Outgoing) /\ Len(txBuffer) \in Nat \ {0}
    BY EmptySeq DEF TypeOK
  <1>2. /\ Tail(txBuffer) \in Seq(Outgoing) /\ Len(Tail(txBuffer)) = Len(txBuffer) - 1
        /\ \A i \in 1..Len(Tail(txBuffer)) : Tail(txBuffer)[i] = txBuffer[i + 1]
    BY <1>1, HeadTailProperties
  <1>3. PICK n \in Nat, w \in Nat \ {0}, base \in Nat :
            /\ n + 1 = Len(txBuffer) /\ n = Len(Tail(txBuffer))
            /\ w = PacketWrap /\ base = wire + displaced
    <2>1. wire \in Nat /\ displaced \in Nat
      BY DEF TypeOK
    <2>2. wire + displaced \in Nat /\ Len(txBuffer) - 1 \in Nat
          /\ Len(txBuffer) - 1 + 1 = Len(txBuffer)
      BY <1>1, <2>1
    <2>3. QED
      BY <1>2, <2>2, UsbBounds
  <1>4. /\ \A i \in 1..n + 1 : txBuffer[i].num = (base + i) % w
        /\ packetNum = (base + (n + 1) + 1) % w
    BY <1>3 DEF SkipsAreDisplaced
  <1>5. PICK first \in 0..w - 1 : first = txBuffer[1].num /\ first = (base + 1) % w
    <2>1. base + 1 \in Nat /\ 1 \in 1..n + 1
      OBVIOUS
    <2>2. (base + 1) % w \in 0..w - 1
      BY <2>1, ModAdd
    <2>3. QED
      BY <1>4, <2>1, <2>2
  <1>6. ASSUME NEW b \in Nat
        PROVE  (first + 0 + b) % w = (base + 1 + b) % w
    <2>1. PICK x \in Nat : x = base + 1
      OBVIOUS
    <2>2. ((x % w) + b) % w = (x + b) % w
      BY ModAdd
    <2>3. first + 0 + b = first + b
      OBVIOUS
    <2>4. QED
      BY <1>5, <2>1, <2>2, <2>3
  <1>7. ASSUME NEW i \in 1..n
        PROVE  Tail(txBuffer)[i].num = (first + 0 + i) % w
    <2>1. i + 1 \in 1..n + 1 /\ base + 1 + i = base + (i + 1)
      OBVIOUS
    <2>2. Tail(txBuffer)[i].num = (base + (i + 1)) % w
      BY <1>2, <1>3, <1>4, <2>1
    <2>3. (first + 0 + i) % w = (base + 1 + i) % w
      <3>1. i \in Nat
        OBVIOUS
      <3>2. QED
        BY <1>6, <3>1
    <2>4. QED
      BY <2>1, <2>2, <2>3
  <1>8. packetNum = (first + 0 + n + 1) % w
    <2>1. n + 1 \in Nat /\ first + 0 + n + 1 = first + 0 + (n + 1)
          /\ base + (n + 1) + 1 = base + 1 + (n + 1)
      OBVIOUS
    <2>2. (first + 0 + (n + 1)) % w = (base + 1 + (n + 1)) % w
      BY <1>6, <2>1
    <2>3. QED
      BY <1>4, <2>1, <2>2
  <1>9. QED
    BY <1>2, <1>3, <1>5, <1>7, <1>8 DEF Numbering

\* What else a step that sends must do to keep all of it.
LEMMA SendKeeps ==
    ASSUME UsbFacts, NEW queue \in Seq(Outgoing),
           NEW lost \in 0..PacketWrap - 1, NEW last \in 0..PacketWrap - 1,
           NEW lengths \in Lengths, Numbering(queue, lost, last),
           Send(queue, lost, lengths), wire' = last, UNCHANGED <<parser, missed>>,
           rxBuffer' \in Seq(SoundPacket), Len(rxBuffer') <= RX_DEPTH,
           newest' \in Packet, NewestKept'
    PROVE  UsbFacts'
  <1>1. /\ txBuffer' \in Seq(Outgoing) /\ Len(txBuffer') <= TX_DEPTH
        /\ packetNum' \in 0..PacketWrap - 1 /\ displaced' \in 0..PacketWrap - 1
        /\ SkipsAreDisplaced'
    BY SendStep DEF UsbFacts, UsbInv, TypeOK
  <1>2. rxBuffer' \in Seq(Packet) /\ \A i \in 1..Len(rxBuffer') : rxBuffer'[i] \in SoundPacket
    BY SoundQueue
  <1>3. QED
    BY <1>1, <1>2
    DEF UsbFacts, UsbInv, TypeOK, ParserInv, ReceivedInv, WellFormed

LEMMA ServeStep ==
    ASSUME UsbFacts, NEW room \in Rooms, Serve(room)
    PROVE  UsbFacts'
  <1> DEFINE queue   == IF Fits(room) THEN Tail(txBuffer) ELSE txBuffer
             lost    == IF Fits(room) THEN 0 ELSE displaced
             last    == IF Fits(room) THEN txBuffer[1].num ELSE wire
             lengths == IF rxBuffer = <<>> THEN <<>> ELSE Reply(rxBuffer[1])
  <1>1. /\ wire' = last /\ Send(queue, lost, lengths)
        /\ rxBuffer' = IF rxBuffer = <<>> THEN <<>> ELSE Tail(rxBuffer)
        /\ newest' = IF Len(rxBuffer) <= 1 THEN NoPacket ELSE newest
        /\ UNCHANGED <<parser, missed>>
    BY DEF Serve
  <1>2. rxBuffer \in Seq(SoundPacket) /\ Len(rxBuffer) \in Nat /\ Len(rxBuffer) <= RX_DEPTH
    BY RxSound, LenProperties DEF UsbFacts, UsbInv, TypeOK
  <1>3. /\ queue \in Seq(Outgoing) /\ lost \in 0..PacketWrap - 1
        /\ last \in 0..PacketWrap - 1 /\ Numbering(queue, lost, last)
    <2>1. CASE Fits(room)
      <3>1. txBuffer # <<>>
        BY <2>1 DEF Fits
      <3>2. 0 \in 0..PacketWrap - 1
        BY UsbBounds
      <3>3. QED
        BY <2>1, <3>1, <3>2, TailNumbering DEF UsbFacts, UsbInv
    <2>2. CASE ~Fits(room)
      BY <2>2 DEF UsbFacts, UsbInv, TypeOK, SkipsAreDisplaced, Numbering
    <2>3. QED
      BY <2>1, <2>2
  <1>4. lengths \in Lengths
    <2>1. CASE rxBuffer = <<>>
      BY <2>1, EmptySeq DEF Lengths
    <2>2. CASE rxBuffer # <<>>
      <3>1. Len(rxBuffer) # 0
        BY <1>2, <2>2, EmptySeq
      <3>2. 1 \in 1..Len(rxBuffer)
        BY <1>2, <3>1
      <3>3. rxBuffer[1] \in SoundPacket
        BY <1>2, <3>2, ElementOfSeq
      <3>4. QED
        BY <2>2, <3>3, ReplyFits
    <2>3. QED
      BY <2>1, <2>2
  <1>5. newest' \in Packet
    <2>1. NoPacket \in Packet
      BY EmptySeq DEF NoPacket, Packet
    <2>2. QED
      BY <1>1, <2>1 DEF UsbFacts, UsbInv, TypeOK
  <1>6. /\ rxBuffer' \in Seq(SoundPacket) /\ Len(rxBuffer') <= RX_DEPTH /\ NewestKept'
    <2>1. CASE rxBuffer = <<>>
      <3>1. rxBuffer' = <<>>
        BY <1>1, <2>1
      <3>2. QED
        BY <3>1, EmptySeq, UsbBounds DEF NewestKept
    <2>2. CASE rxBuffer # <<>>
      <3>1. /\ rxBuffer' = Tail(rxBuffer) /\ rxBuffer' \in Seq(SoundPacket)
            /\ Len(rxBuffer') = Len(rxBuffer) - 1
            /\ \A i \in 1..Len(rxBuffer') : rxBuffer'[i] = rxBuffer[i + 1]
        BY <1>1, <1>2, <2>2, HeadTailProperties
      <3>2. PICK n \in Nat, depth \in Nat :
                /\ n = Len(rxBuffer') /\ n + 1 = Len(rxBuffer) /\ depth = RX_DEPTH
                /\ n + 1 <= depth
        <4>1. Len(rxBuffer') \in Nat
          BY <3>1, LenProperties
        <4>2. Len(rxBuffer') + 1 = Len(rxBuffer)
          BY <1>2, <3>1, <4>1
        <4>3. QED
          BY <1>2, <4>1, <4>2, UsbBounds
      <3>3. n <= depth
        BY <3>2
      <3>4. NewestKept'
        <4> SUFFICES ASSUME rxBuffer' # <<>> PROVE rxBuffer'[n] = newest'
          BY <3>2 DEF NewestKept
        <4>1. n # 0
          BY <3>1, <3>2, EmptySeq
        <4>2. n \in 1..n /\ ~(n + 1 <= 1)
          BY <4>1
        <4>3. rxBuffer'[n] = rxBuffer[n + 1] /\ newest' = newest
          BY <1>1, <3>1, <3>2, <4>2
        <4>4. rxBuffer[n + 1] = newest
          BY <2>2, <3>2 DEF UsbFacts, NewestKept
        <4>5. QED
          BY <4>3, <4>4
      <3>5. QED
        BY <3>1, <3>2, <3>3, <3>4
    <2>3. QED
      BY <2>1, <2>2
  <1> HIDE DEF queue, lost, last, lengths
  <1>7. QED
    BY <1>1, <1>3, <1>4, <1>5, <1>6, SendKeeps

LEMMA SendOnlyStep ==
    ASSUME UsbFacts, NEW lengths \in Lengths, SendOnly(lengths)
    PROVE  UsbFacts'
  <1>1. /\ Send(txBuffer, displaced, lengths)
        /\ UNCHANGED <<parser, rxBuffer, wire, newest, missed>>
    BY DEF SendOnly
  <1>2. /\ txBuffer \in Seq(Outgoing) /\ displaced \in 0..PacketWrap - 1
        /\ wire \in 0..PacketWrap - 1 /\ Numbering(txBuffer, displaced, wire)
    BY DEF UsbFacts, UsbInv, TypeOK, SkipsAreDisplaced, Numbering
  <1>3. rxBuffer' \in Seq(SoundPacket) /\ Len(rxBuffer') <= RX_DEPTH /\ newest' \in Packet
    BY <1>1, RxSound DEF UsbFacts, UsbInv, TypeOK
  <1>4. NewestKept'
    BY <1>1 DEF UsbFacts, NewestKept
  <1>5. QED
    BY <1>1, <1>2, <1>3, <1>4, SendKeeps

LEMMA UsbInit == Init => UsbFacts
  <1> SUFFICES ASSUME Init PROVE UsbFacts
    OBVIOUS
  <1>1. /\ parser = Searching /\ rxBuffer = <<>> /\ txBuffer = <<>>
        /\ packetNum = 0 /\ displaced = 0 /\ wire = PacketWrap - 1
        /\ newest = NoPacket /\ missed = 0
    BY DEF Init
  <1>2. WellFormed(parser) /\ parser \in [state : RxState, got : Seq(Byte)]
    BY <1>1, SearchingWellFormed DEF WellFormed
  <1>3. NoPacket \in Packet
    BY EmptySeq DEF NoPacket, Packet
  <1>4. 0 \in 0..PacketWrap - 1 /\ PacketWrap - 1 \in 0..PacketWrap - 1
    BY UsbBounds
  <1>5. /\ rxBuffer \in Seq(Packet) /\ Len(rxBuffer) = 0
        /\ txBuffer \in Seq(Outgoing) /\ Len(txBuffer) = 0
    BY <1>1, EmptySeq
  <1>6. TypeOK
    BY <1>1, <1>2, <1>3, <1>4, <1>5, UsbBounds DEF TypeOK
  <1>7. (PacketWrap - 1 + 0 + 0 + 1) % PacketWrap = 0
    <2>1. PICK w \in Nat \ {0} : w = PacketWrap
      BY UsbBounds
    <2>2. w - 1 + 0 + 0 + 1 = 1 * w + 0 /\ 0 \in 0..w - 1
      OBVIOUS
    <2>3. (1 * w + 0) % w = 0
      BY <2>2, ModUnique
    <2>4. QED
      BY <2>1, <2>2, <2>3
  <1>8. SkipsAreDisplaced
    BY <1>1, <1>5, <1>7 DEF SkipsAreDisplaced
  <1>9. QED
    BY <1>1, <1>2, <1>5, <1>6, <1>8
    DEF UsbFacts, UsbInv, ParserInv, ReceivedInv, NewestKept

LEMMA UsbStep ==
    ASSUME UsbFacts, [Next]_vars
    PROVE  UsbFacts'
  <1>1. CASE ReadFrame
    <2>1. PICK p \in Sent : Accept(Frame(p), TRUE)
      BY <1>1 DEF ReadFrame, SentFrames
    <2>2. QED
      BY <2>1, FrameBytes, AcceptStep
  <1>2. CASE ReadDamage
    <2>1. PICK item \in Damage : Accept(item, FALSE)
      BY <1>2 DEF ReadDamage
    <2>2. item \in Seq(Byte)
      BY UsbAssumptions
    <2>3. QED
      BY <2>1, <2>2, AcceptStep
  <1>3. CASE \E room \in Rooms : Serve(room)
    BY <1>3, ServeStep
  <1>4. CASE SendTelemetry
    <2>1. <<Telemetry>> \in Lengths
      BY DEF Telemetry, Lengths, MAX_DATA_LEN
    <2>2. QED
      BY <1>4, <2>1, SendOnlyStep DEF SendTelemetry
  <1>5. CASE RadioRelay
    <2>1. <<RadioPacket>> \in Lengths
      BY DEF RadioPacket, Lengths, MAX_DATA_LEN
    <2>2. QED
      BY <1>5, <2>1, SendOnlyStep DEF RadioRelay
  <1>6. CASE SendText
    BY <1>6, ChunksFit, SendOnlyStep DEF SendText
  <1>7. CASE UNCHANGED vars
    BY <1>7
    DEF vars, UsbFacts, UsbInv, TypeOK, ParserInv, ReceivedInv, WellFormed,
        NewestKept, SkipsAreDisplaced
  <1>8. QED
    BY <1>1, <1>2, <1>3, <1>4, <1>5, <1>6, <1>7 DEF Next

LEMMA UsbInvariant == Spec => []UsbFacts
  BY UsbInit, UsbStep, PTL DEF Spec

\* The packet read last is the last one waiting.
LEMMA FrameDelivered ==
    ASSUME UsbFacts, parser = Searching, NEW p \in Sent, Accept(Frame(p), TRUE)
    PROVE  /\ parser' = Searching /\ missed' = 0 /\ newest' = p
           /\ rxBuffer' # <<>> /\ rxBuffer'[Len(rxBuffer')] = p
  <1>1. /\ Parse(Frame(p)).parser = Searching
        /\ Parse(Frame(p)).accepted = <<p>>
    BY FrameParsed
  <1>2. /\ parser' = Searching /\ rxBuffer' = Enqueue(rxBuffer, <<p>>, RX_DEPTH)
        /\ newest' = p /\ missed' = 0
    BY <1>1 DEF Accept
  <1>3. UsbFacts'
    BY FrameBytes, AcceptStep
  <1>4. rxBuffer' # <<>>
    <2>1. rxBuffer \in Seq(Packet) /\ <<p>> \in Seq(Packet) /\ Len(rxBuffer) \in Nat
      BY UsbAssumptions DEF UsbFacts, UsbInv, TypeOK
    <2>2. RX_DEPTH \in Nat \ {0} /\ RX_DEPTH \in Nat
      BY UsbBounds
    <2> DEFINE one  == <<p>>
               both == Enqueue(rxBuffer, one, RX_DEPTH)
    <2>3. one \in Seq(Packet) /\ Len(rxBuffer) + Len(one) > 0 /\ Len(one) \in Nat
      BY <2>1
    <2> HIDE DEF one
    <2>4. /\ Len(rxBuffer) + Len(one) <= RX_DEPTH => Len(both) = Len(rxBuffer) + Len(one)
          /\ Len(rxBuffer) + Len(one) > RX_DEPTH => Len(both) = RX_DEPTH
      BY <2>1, <2>2, <2>3, EnqueueFacts
    <2> HIDE DEF both
    <2>5. Len(both) # 0
      BY <2>1, <2>2, <2>3, <2>4
    <2>6. QED
      BY <1>2, <2>5 DEF both, one
  <1>5. QED
    BY <1>2, <1>3, <1>4 DEF UsbFacts, NewestKept

-----------------------------------------------------------------------------
(* The theorems. *)

\* Whatever arrives, the parser, both queues and the numbers keep their shape
\* and their bounds, and what waits to be acted on passed isValidRxHeader
\* (USB::update(), send()).
THEOREM UsbTyped == Spec => []TypeOK
  <1>1. UsbFacts => TypeOK
    BY DEF UsbFacts, UsbInv
  <1>2. QED
    BY <1>1, UsbInvariant, PTL

\* No sequence of bytes makes the parser store a byte beyond the payload of the
\* packet it fills (USB::update(), isValidRxHeader()).
THEOREM ParserStaysInPacket == Spec => []PayloadInBounds
  <1>1. UsbFacts => PayloadInBounds
    <2> SUFFICES ASSUME UsbFacts, parser.state = "READ_PAYLOAD"
                 PROVE  Len(parser.got) < 4 + MAX_DATA_LEN
      BY DEF PayloadInBounds
    <2>1. /\ parser.got \in Seq(Byte) /\ Len(parser.got) >= 4 /\ HeaderValid(parser.got)
          /\ Len(parser.got) < 4 + parser.got[4]
      BY DEF UsbFacts, UsbInv, ParserInv, WellFormed
    <2>2. PICK n \in Nat, k \in Nat, max \in Nat :
              /\ n = parser.got[4] /\ n <= max /\ max = MAX_DATA_LEN
              /\ k = Len(parser.got) /\ k < 4 + n
      <3>1. parser.got[4] \in 1..MAX_DATA_LEN /\ Len(parser.got) \in Nat
        BY <2>1, HeaderComplete, LenProperties
      <3>2. parser.got[4] \in Nat /\ parser.got[4] <= MAX_DATA_LEN /\ MAX_DATA_LEN \in Nat
        <4>1. PICK max \in Nat : max = MAX_DATA_LEN
          BY DEF MAX_DATA_LEN
        <4>2. parser.got[4] \in 1..max
          BY <3>1, <4>1
        <4>3. QED
          BY <4>1, <4>2
      <3>3. QED
        BY <2>1, <3>1, <3>2
    <2>3. k < 4 + max
      BY <2>2
    <2>4. QED
      BY <2>2, <2>3
  <1>2. QED
    BY <1>1, UsbInvariant, PTL

\* The newest packet outlives whatever a full receive queue displaces, however
\* many packets one pass accepts (USB::update()).
THEOREM FreshestCommandKept == Spec => []NewestKept
  <1>1. UsbFacts => NewestKept
    BY DEF UsbFacts
  <1>2. QED
    BY <1>1, UsbInvariant, PTL

\* The numbers in the transmit queue skip by exactly what it displaced, for
\* every depth and modulus, through wraps of both counters (send(), update()).
THEOREM NumbersTellLoss == Spec => []SkipsAreDisplaced
  <1>1. UsbFacts => SkipsAreDisplaced
    BY DEF UsbFacts
  <1>2. QED
    BY <1>1, UsbInvariant, PTL

\* handleConfig() reads no entry beyond its payload, for every limit whose
\* replies fit a packet (handleConfig()).
THEOREM ConfigReadsItsPayload == Spec => []ConfigWithinFrame
  <1>1. UsbFacts => ConfigWithinFrame
    BY EntriesFacts DEF UsbFacts, UsbInv, ReceivedInv, ConfigWithinFrame
  <1>2. QED
    BY <1>1, UsbInvariant, PTL

\* An idle port takes whatever is at the head of the transmit queue, so that
\* it never blocks for good (send(), update(), the static_assert).
THEOREM HeadNeverBlocks == Spec => []HeadFits
  <1>1. UsbFacts => HeadFits
    <2> SUFFICES ASSUME UsbFacts, txBuffer # <<>> PROVE Fits(PortRoom)
      BY DEF HeadFits
    <2>1. txBuffer \in Seq(Outgoing) /\ Len(txBuffer) \in Nat \ {0}
      BY EmptySeq DEF UsbFacts, UsbInv, TypeOK
    <2>2. txBuffer[1] \in Outgoing
      <3>1. 1 \in 1..Len(txBuffer)
        BY <2>1
      <3>2. QED
        BY <2>1, <3>1, ElementOfSeq
    <2>3. PICK max \in Nat, over \in Nat, room \in Nat :
              /\ max = MAX_DATA_LEN /\ over = USB_FRAME_OVERHEAD /\ room = PortRoom
              /\ over + max <= room
      <3>1. PICK max \in Nat, over \in Nat : max = MAX_DATA_LEN /\ over = USB_FRAME_OVERHEAD
        BY DEF USB_FRAME_OVERHEAD, MAX_DATA_LEN
      <3>2. QED
        BY <3>1, UsbBounds
    <2>4. txBuffer[1].length \in 0..max
      BY <2>2, <2>3 DEF Outgoing
    <2>5. PICK length \in Nat : length = txBuffer[1].length /\ length <= max
      BY <2>4
    <2>6. over + length <= room
      <3>1. over + max <= room /\ length <= max
        BY <2>3, <2>5
      <3>2. QED
        BY <3>1
    <2>7. QED
      BY <2>3, <2>5, <2>6 DEF Fits
  <1>2. QED
    BY <1>1, UsbInvariant, PTL

\* For every set of packets of valid lengths, every CRC and every depth: a
\* parser between frames takes each whole frame for its packet, which is then
\* the last one waiting, and is between frames again (USB::update()).
THEOREM FramesRoundTrip == Spec => InStepDelivers
  <1> DEFINE Delivered ==
                 parser = Searching =>
                     \A p \in Sent : Accept(Frame(p), TRUE) =>
                         /\ parser' = Searching
                         /\ rxBuffer' # <<>> /\ rxBuffer'[Len(rxBuffer')] = p
  <1>1. UsbFacts => Delivered
    BY FrameDelivered
  <1>2. UsbFacts => [Delivered]_vars
    BY <1>1
  <1>3. QED
    BY <1>2, UsbInvariant, PTL DEF InStepDelivers

\* For every set of frames and of damage and every CRC: each packet accepted
\* stands whole in the stream, its bytes in their order, without a gap and with
\* their CRC.  It can be a packet never sent only where damage makes a frame
\* whose CRC is right (USB::update()).
THEOREM AcceptsWholeFrames == Spec => []WholeFramesOnly
  <1>1. UsbFacts => WholeFramesOnly
    <2> SUFFICES ASSUME UsbFacts, NEW item \in SentFrames \union Damage
                 PROVE  /\ \A k \in 1..Len(Parse(item).accepted) :
                               Stands(Parse(item).accepted[k], Begun(parser) \o item)
                        /\ EndsWith(Begun(parser) \o item, Begun(Parse(item).parser))
      BY Zenon DEF WholeFramesOnly
    <2>1. item \in Seq(Byte)
      BY FrameBytes, UsbAssumptions DEF SentFrames
    <2>2. QED
      BY <2>1, ParseStands DEF UsbFacts, UsbInv
  <1>2. QED
    BY <1>1, UsbInvariant, PTL
=============================================================================
