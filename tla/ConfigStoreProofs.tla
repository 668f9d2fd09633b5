-------------------------- MODULE ConfigStoreProofs --------------------------
(***************************************************************************)
(* Proofs about ConfigStore for every set of owners and of updates.        *)
(***************************************************************************)
EXTENDS ConfigRefinement, SharedFacts

LEMMA ByteRange ==
    ASSUME NEW b \in Byte
    PROVE  b \in Nat /\ b < 256
  BY DEF Byte

-----------------------------------------------------------------------------
(* Functions defined by recursion over a sequence. *)

Follows(f, start, next, n) ==
    f[0] = start /\ \A i \in 1..n : f[i] = next[<<i, f[i - 1]>>]

\* One exists, and stays in the set its steps stay in.
LEMMA Recursion ==
    ASSUME NEW D, NEW start \in D, NEW n \in Nat, NEW next \in [(1..n) \X D -> D]
    PROVE  \E f \in [0..n -> D] : Follows(f, start, next, n)
  <1> USE DEF Follows
  <1> DEFINE Good(f, m) == f[0] = start /\ \A i \in 1..m : f[i] = next[<<i, f[i - 1]>>]
             S == {m \in Nat : m <= n => \E f \in [0..m -> D] : Good(f, m)}
  <1>1. 0 \in S
    <2> DEFINE f == [i \in 0..0 |-> start]
    <2>1. f \in [0..0 -> D] /\ f[0] = start /\ \A i \in 1..0 : FALSE
      OBVIOUS
    <2>2. QED
      BY <2>1
  <1>2. ASSUME NEW m \in Nat, m \in S PROVE m + 1 \in S
    <2> SUFFICES ASSUME m + 1 <= n PROVE \E f \in [0..m + 1 -> D] : Good(f, m + 1)
      OBVIOUS
    <2>1. PICK f \in [0..m -> D] : Good(f, m)
      BY <1>2
    <2> DEFINE value == next[<<m + 1, f[m]>>]
               g == [i \in 0..m + 1 |-> IF i <= m THEN f[i] ELSE value]
    <2>2. value \in D
      <3>1. <<m + 1, f[m]>> \in (1..n) \X D
        BY <2>1
      <3>2. QED
        BY <3>1
    <2> HIDE DEF value
    <2>3. g \in [0..m + 1 -> D] /\ g[0] = f[0] /\ g[m + 1] = value /\ g[m] = f[m]
          /\ \A i \in 1..m : g[i] = f[i] /\ g[i - 1] = f[i - 1]
      BY <2>1, <2>2
    <2>4. ASSUME NEW i \in 1..m + 1 PROVE g[i] = next[<<i, g[i - 1]>>]
      <3> HIDE DEF g
      <3>1. CASE i \in 1..m
        BY <2>1, <2>3, <3>1
      <3>2. CASE i = m + 1
        <4>1. i - 1 = m
          BY <3>2
        <4>2. QED
          BY <2>3, <3>2, <4>1 DEF value
      <3>3. QED
        BY <3>1, <3>2
    <2>5. Good(g, m + 1)
      BY <2>1, <2>3, <2>4
    <2> HIDE DEF g
    <2>6. QED
      BY <2>3, <2>5
  <1>3. Nat \subseteq S
    <2> HIDE DEF S
    <2>1. QED
      BY <1>1, <1>2, SetInduction
  <1>4. QED
    BY <1>3

Agree(f, g, n) == \A i \in 0..n : f[i] = g[i]
AlikeSteps(f, g, n) == \A i \in 1..n : f[i - 1] = g[i - 1] => f[i] = g[i]

\* Two that begin alike and go on alike are alike.
LEMMA Agreement ==
    ASSUME NEW f, NEW g, NEW n \in Nat, f[0] = g[0], AlikeSteps(f, g, n)
    PROVE  Agree(f, g, n)
  <1> USE DEF Agree, AlikeSteps
  <1> DEFINE S == {m \in Nat : m <= n => f[m] = g[m]}
  <1>1. 0 \in S
    OBVIOUS
  <1>2. ASSUME NEW m \in Nat, m \in S PROVE m + 1 \in S
    <2> SUFFICES ASSUME m + 1 <= n PROVE f[m + 1] = g[m + 1]
      OBVIOUS
    <2>1. f[m] = g[m] /\ m + 1 \in 1..n /\ (m + 1) - 1 = m
      BY <1>2
    <2>2. QED
      BY <2>1
  <1>3. Nat \subseteq S
    <2> HIDE DEF S
    <2>1. QED
      BY <1>1, <1>2, SetInduction
  <1>4. QED
    BY <1>3

-----------------------------------------------------------------------------
(* The sum of the bytes. *)

Word16 == {n \in Nat : n < 256 * 256}

\* The recursive function of ByteSum.
SumsOf(sum, bytes) ==
    sum = [i \in 0..Len(bytes) |->
              IF i = 0 THEN 0 ELSE (sum[i - 1] + bytes[i]) % (256 * 256)]

LEMMA WordRange ==
    ASSUME NEW word \in Word16
    PROVE  word \in Nat /\ word < 256 * 256
  BY DEF Word16

LEMMA WordMod ==
    ASSUME NEW n \in Int
    PROVE  n % (256 * 256) \in Word16
  BY DEF Word16

LEMMA WordZero == 0 \in Word16
  BY DEF Word16

\* The sum after each byte.
Sums(sum, bytes) ==
    /\ sum \in [0..Len(bytes) -> Word16]
    /\ sum[0] = 0
    /\ \A i \in 1..Len(bytes) : sum[i] = (sum[i - 1] + bytes[i]) % (256 * 256)

LEMMA ByteSumFacts ==
    ASSUME NEW bytes \in Seq(Byte)
    PROVE  \E sum : Sums(sum, bytes) /\ ByteSum(bytes) = sum[Len(bytes)]
  <1> DEFINE n == Len(bytes)
             next == [p \in (1..n) \X Word16 |-> (p[2] + bytes[p[1]]) % (256 * 256)]
  <1>1. n \in Nat /\ \A i \in 1..n : bytes[i] \in Int
    <2>1. n \in Nat /\ \A i \in 1..n : bytes[i] \in Byte
      BY LenProperties, ElementOfSeq
    <2>2. QED
      BY <2>1, ByteRange
  <1> HIDE DEF n
  <1>2. next \in [(1..n) \X Word16 -> Word16]
    <2>1. ASSUME NEW p \in (1..n) \X Word16
          PROVE  (p[2] + bytes[p[1]]) % (256 * 256) \in Word16
      <3>1. p[1] \in 1..n /\ p[2] \in Word16
        OBVIOUS
      <3>2. p[2] \in Int /\ bytes[p[1]] \in Int
        BY <1>1, <3>1, WordRange
      <3>3. QED
        BY <3>2, WordMod
    <2>2. QED
      BY <2>1
  <1> HIDE DEF next
  <1>3. PICK f \in [0..n -> Word16] :
            f[0] = 0 /\ \A i \in 1..n : f[i] = next[<<i, f[i - 1]>>]
    <2>1. \E f \in [0..n -> Word16] : Follows(f, 0, next, n)
      BY <1>1, <1>2, WordZero, Recursion
    <2>2. QED
      BY <2>1 DEF Follows
  <1>4. ASSUME NEW i \in 1..n PROVE f[i] = (f[i - 1] + bytes[i]) % (256 * 256)
    <2>1. i - 1 \in 0..n
      BY <1>1
    <2>2. <<i, f[i - 1]>> \in (1..n) \X Word16
      BY <1>3, <2>1
    <2>3. QED
      BY <1>3, <2>2, ZenonT(40) DEF next
  <1>5. SumsOf(f, bytes)
    <2>1. f = [i \in 0..n |-> f[i]]
      BY <1>3
    <2>2. \A i \in 0..n :
              f[i] = IF i = 0 THEN 0 ELSE (f[i - 1] + bytes[i]) % (256 * 256)
      BY <1>1, <1>3, <1>4
    <2> DEFINE step(i) == IF i = 0 THEN 0 ELSE (f[i - 1] + bytes[i]) % (256 * 256)
    <2>3. f = [i \in 0..n |-> step(i)]
      <3> HIDE DEF step
      <3>1. \A i \in 0..n : f[i] = step(i)
        BY <2>2 DEF step
      <3>2. QED
        BY <2>1, <3>1, Zenon
    <2>4. QED
      BY <2>3, Zenon DEF SumsOf, n
  <1>6. PICK sum : sum = CHOOSE s : SumsOf(s, bytes)
    OBVIOUS
  <1>7. SumsOf(sum, bytes)
    BY <1>5, <1>6
  <1>8. ByteSum(bytes) = sum[n]
    BY <1>6, Zenon DEF ByteSum, SumsOf, n
  <1>9. /\ sum[0] = 0
        /\ \A i \in 1..n : sum[i] = (sum[i - 1] + bytes[i]) % (256 * 256)
    <2>1. \A i \in 0..n :
              sum[i] = IF i = 0 THEN 0 ELSE (sum[i - 1] + bytes[i]) % (256 * 256)
      BY <1>7, ZenonT(30) DEF SumsOf, n
    <2>2. 0 \in 0..n /\ \A i \in 1..n : i \in 0..n /\ i # 0
      BY <1>1
    <2>3. QED
      BY <2>1, <2>2
  <1>10. \A i \in 0..n : sum[i] = f[i]
    <2>1. n \in Nat /\ sum[0] = f[0]
      BY <1>1, <1>3, <1>9
    <2>2. AlikeSteps(sum, f, n)
      BY <1>4, <1>9 DEF AlikeSteps
    <2>3. Agree(sum, f, n)
      BY <2>1, <2>2, Agreement
    <2>4. QED
      BY <2>3 DEF Agree
  <1>11. Sums(f, bytes)
    BY <1>3, <1>4 DEF Sums, n
  <1>12. ByteSum(bytes) = f[n]
    BY <1>1, <1>8, <1>10
  <1>13. QED
    BY <1>11, <1>12 DEF n

LEMMA ByteSumType ==
    ASSUME NEW bytes \in Seq(Byte)
    PROVE  ByteSum(bytes) \in Word16
  BY ByteSumFacts, LenProperties DEF Sums

-----------------------------------------------------------------------------
(* The updates of a batch. *)

\* What the fields of an image can hold, which is more than apply() accepts; that no
\* boot takes up more than that is AcceptedInv, below.
Half == 128 * 256
TrimWord == {n \in Int : -Half <= n /\ n < Half}
TrimByte == {n \in Int : -128 <= n /\ n < 128}

Held == [debugMode |-> Byte, usbRelayEnabled |-> Byte, radioEnabled |-> Byte,
         skipRadioHandshake |-> Byte, txPowerDbm |-> Byte,
         gimbalPitchOffset |-> TrimWord, gimbalYawOffset |-> TrimWord,
         motor1offset |-> TrimByte, motor2offset |-> TrimByte,
         gyroEnabled |-> Byte]

Holdable == {c \in [Keys -> Int] : \A key \in Keys : c[key] \in Held[key]}

LEMMA KeySet ==
    Keys = {"debugMode", "usbRelayEnabled", "radioEnabled", "skipRadioHandshake",
            "txPowerDbm", "gimbalPitchOffset", "gimbalYawOffset", "motor1offset",
            "motor2offset", "gyroEnabled"}
  BY DEF Keys, Accepted

LEMMA AcceptedIsHeld ==
    ASSUME NEW key \in Keys, NEW n \in Accepted[key]
    PROVE  n \in Held[key] /\ n \in Int
  <1>1. /\ \A b \in Bool : b \in Byte /\ b \in Int
        /\ \A b \in 14..20 : b \in Byte /\ b \in Int
    BY DEF Bool, Byte
  <1>2. \A b \in 60..120 : b \in TrimWord /\ b \in Int
    BY DEF TrimWord, Half
  <1>3. \A b \in -100..100 : b \in TrimByte /\ b \in Int
    BY DEF TrimByte
  <1>4. CASE key \in {"debugMode", "usbRelayEnabled", "radioEnabled",
                      "skipRadioHandshake", "gyroEnabled"}
    <2>1. Accepted[key] = Bool /\ Held[key] = Byte
      BY <1>4 DEF Accepted, Held
    <2>2. QED
      BY <1>1, <2>1
  <1>5. CASE key = "txPowerDbm"
    <2>1. Accepted[key] = 14..20 /\ Held[key] = Byte
      BY <1>5 DEF Accepted, Held
    <2>2. QED
      BY <1>1, <2>1
  <1>6. CASE key \in {"gimbalPitchOffset", "gimbalYawOffset"}
    <2>1. Accepted[key] = 60..120 /\ Held[key] = TrimWord
      BY <1>6 DEF Accepted, Held
    <2>2. QED
      BY <1>2, <2>1
  <1>7. CASE key \in {"motor1offset", "motor2offset"}
    <2>1. Accepted[key] = -100..100 /\ Held[key] = TrimByte
      BY <1>7 DEF Accepted, Held
    <2>2. QED
      BY <1>3, <2>1
  <1>8. QED
    BY <1>4, <1>5, <1>6, <1>7, KeySet

LEMMA OwnersHoldable ==
    ASSUME NEW c, IsConfig(c)
    PROVE  c \in Holdable
  BY AcceptedIsHeld DEF IsConfig, Holdable

LEMMA ApplyType ==
    ASSUME NEW c \in Holdable, NEW update \in ConfigUpdate
    PROVE  ApplyOne(c, update) \in Holdable
  BY AcceptedIsHeld DEF ApplyOne, Holdable

\* The recursive function of Applied.
AppliesTo(after, c, updates) ==
    after = [i \in 0..Len(updates) |->
                IF i = 0 THEN c ELSE ApplyOne(after[i - 1], updates[i])]

\* A batch of updates stays in the set that each of them stays in, and one of
\* which no update changed anything has changed nothing.
LEMMA AppliedFacts ==
    ASSUME NEW D, NEW c \in D, NEW updates \in Seq(ConfigUpdate),
           \A d \in D, update \in ConfigUpdate : ApplyOne(d, update) \in D
    PROVE  /\ Applied(c, updates)[Len(updates)] \in D
           /\ ~AnyChanged(c, updates) => Applied(c, updates)[Len(updates)] = c
  <1> DEFINE n == Len(updates)
             next == [p \in (1..n) \X D |-> ApplyOne(p[2], updates[p[1]])]
  <1>1. n \in Nat /\ \A i \in 1..n : updates[i] \in ConfigUpdate
    BY LenProperties, ElementOfSeq
  <1> HIDE DEF n
  <1>2. next \in [(1..n) \X D -> D]
    <2>1. ASSUME NEW p \in (1..n) \X D
          PROVE  ApplyOne(p[2], updates[p[1]]) \in D
      <3>1. p[1] \in 1..n /\ p[2] \in D
        OBVIOUS
      <3>2. QED
        BY <1>1, <3>1
    <2>2. QED
      BY <2>1
  <1> HIDE DEF next
  <1>3. PICK f \in [0..n -> D] :
            f[0] = c /\ \A i \in 1..n : f[i] = next[<<i, f[i - 1]>>]
    <2>1. \E f \in [0..n -> D] : Follows(f, c, next, n)
      BY <1>1, <1>2, Recursion
    <2>2. QED
      BY <2>1 DEF Follows
  <1>4. ASSUME NEW i \in 1..n PROVE f[i] = ApplyOne(f[i - 1], updates[i])
    <2>1. i - 1 \in 0..n
      BY <1>1
    <2>2. <<i, f[i - 1]>> \in (1..n) \X D
      BY <1>3, <2>1
    <2>3. QED
      BY <1>3, <2>2 DEF next
  <1>5. AppliesTo(f, c, updates)
    <2>1. f = [i \in 0..n |-> f[i]]
      BY <1>3
    <2>2. \A i \in 0..n :
              f[i] = IF i = 0 THEN c ELSE ApplyOne(f[i - 1], updates[i])
      BY <1>1, <1>3, <1>4
    <2>3. QED
      BY <2>1, <2>2, Zenon DEF AppliesTo, n
  <1>6. PICK after : after = CHOOSE a : AppliesTo(a, c, updates)
    OBVIOUS
  <1>7. AppliesTo(after, c, updates)
    BY <1>5, <1>6
  <1>8. Applied(c, updates) = after
    BY <1>6, Zenon DEF Applied, AppliesTo
  <1>9. /\ after[0] = c
        /\ \A i \in 1..n : after[i] = ApplyOne(after[i - 1], updates[i])
    <2>1. \A i \in 0..n :
              after[i] = IF i = 0 THEN c ELSE ApplyOne(after[i - 1], updates[i])
      BY <1>7, Zenon DEF AppliesTo, n
    <2>2. 0 \in 0..n /\ \A i \in 1..n : i \in 0..n /\ i # 0
      BY <1>1
    <2>3. QED
      BY <2>1, <2>2
  <1>10. after[n] \in D
    <2>1. n \in Nat /\ after[0] = f[0]
      BY <1>1, <1>3, <1>9
    <2>2. AlikeSteps(after, f, n)
      BY <1>4, <1>9 DEF AlikeSteps
    <2>3. Agree(after, f, n)
      BY <2>1, <2>2, Agreement
    <2>4. QED
      BY <1>3, <2>1, <2>3 DEF Agree
  <1>11. ~AnyChanged(c, updates) => after[n] = c
    <2> SUFFICES ASSUME ~AnyChanged(c, updates) PROVE after[n] = c
      OBVIOUS
    <2> DEFINE same == [i \in 0..n |-> c]
    <2>1. n \in Nat /\ after[0] = same[0]
      BY <1>1, <1>9
    <2>2. \A i \in 1..n : after[i] = after[i - 1]
      BY <1>8 DEF AnyChanged, n
    <2>3. \A i \in 1..n : same[i] = same[i - 1]
      BY <1>1
    <2> HIDE DEF same
    <2>4. AlikeSteps(after, same, n)
      BY <2>2, <2>3 DEF AlikeSteps
    <2>5. Agree(after, same, n)
      BY <2>1, <2>4, Agreement
    <2>6. QED
      BY <2>1, <2>5 DEF same, Agree
  <1>12. QED
    BY <1>8, <1>10, <1>11 DEF n

-----------------------------------------------------------------------------
(* Bytes, and the numbers they stand for. *)

LEMMA WordBytes ==
    ASSUME NEW n \in Int
    PROVE  n % 256 \in Byte /\ (n \div 256) % 256 \in Byte
  BY DEF Byte

\* A number survives being written and read.
LEMMA WordRead ==
    ASSUME NEW n \in Word16
    PROVE  (n % 256) + 256 * ((n \div 256) % 256) = n
  BY SMTT(60) DEF Word16

LEMMA TrimRead ==
    ASSUME NEW n \in TrimWord
    PROVE  Signed((n % 256) + 256 * ((n \div 256) % 256), 128 * 256) = n
  BY SMTT(60) DEF TrimWord, Half, Signed

LEMMA SignedRead ==
    ASSUME NEW n \in TrimByte
    PROVE  Signed(n % 256, 128) = n
  BY SMTT(60) DEF TrimByte, Signed

\* Bytes survive being read and written.
LEMMA TrimWritten ==
    ASSUME NEW low \in Byte, NEW high \in Byte
    PROVE  LET n == Signed(low + 256 * high, 128 * 256)
           IN  n \in TrimWord /\ n % 256 = low /\ (n \div 256) % 256 = high
  BY SMTT(60) DEF TrimWord, Half, Signed, Byte

LEMMA SignedWritten ==
    ASSUME NEW low \in Byte
    PROVE  Signed(low, 128) \in TrimByte /\ Signed(low, 128) % 256 = low
  BY SMTT(60) DEF TrimByte, Signed, Byte

LEMMA WordWritten ==
    ASSUME NEW low \in Byte, NEW high \in Byte
    PROVE  /\ (low + 256 * high) % 256 = low
           /\ ((low + 256 * high) \div 256) % 256 = high
  BY SMTT(60) DEF Byte

-----------------------------------------------------------------------------
(* Images, byte by byte. *)

\* One run of m bytes after another of n.
Joins(r, s, m, t, n) ==
    /\ r \in Seq(Byte) /\ Len(r) = m + n
    /\ \A i \in 1..m : r[i] = s[i]
    /\ \A i \in 1..n : r[m + i] = t[i]

LEMMA Joined ==
    ASSUME NEW s \in Seq(Byte), NEW t \in Seq(Byte),
           NEW m, NEW n, Len(s) = m, Len(t) = n
    PROVE  Joins(s \o t, s, m, t, n)
  <1>1. Len(s) \in Nat /\ Len(t) \in Nat
    BY LenProperties
  <1>2. /\ s \o t \in Seq(Byte) /\ Len(s \o t) = Len(s) + Len(t)
        /\ \A i \in 1..Len(s) + Len(t) :
               (s \o t)[i] = IF i <= Len(s) THEN s[i] ELSE t[i - Len(s)]
    BY ConcatProperties
  <1>3. /\ \A i \in 1..Len(s) : i \in 1..Len(s) + Len(t) /\ i <= Len(s)
        /\ \A i \in 1..Len(t) : /\ Len(s) + i \in 1..Len(s) + Len(t)
                                /\ ~(Len(s) + i <= Len(s)) /\ (Len(s) + i) - Len(s) = i
    BY <1>1
  <1>4. QED
    BY <1>2, <1>3 DEF Joins

\* Two bytes that encode a number.
Encodes(word, n) == word[1] = n % 256 /\ word[2] = (n \div 256) % 256

LEMMA WordFacts ==
    ASSUME NEW n \in Int
    PROVE  Word(n) \in Seq(Byte) /\ Len(Word(n)) = 2 /\ Encodes(Word(n), n)
  <1> DEFINE low == n % 256
             high == (n \div 256) % 256
  <1>1. low \in Byte /\ high \in Byte
    BY WordBytes
  <1> HIDE DEF low, high
  <1>2. <<low, high>> \in Seq(Byte)
    BY <1>1
  <1>3. QED
    BY <1>2 DEF Word, Encodes, low, high

EncodesByte(byte, n) == byte[1] = n % 256

LEMMA SignedByteFacts ==
    ASSUME NEW n \in Int
    PROVE  /\ SignedByte(n) \in Seq(Byte) /\ Len(SignedByte(n)) = 1
           /\ EncodesByte(SignedByte(n), n)
  <1> DEFINE low == n % 256
  <1>1. low \in Byte
    BY WordBytes
  <1> HIDE DEF low
  <1>2. <<low>> \in Seq(Byte)
    BY <1>1
  <1>3. QED
    BY <1>2 DEF SignedByte, EncodesByte, low

\* What an image says besides its checksum.
Says(image, version, fields) ==
    /\ \A i \in 1..4 : image[i] = Magic[i]
    /\ image[5] = version /\ image[6] = 0
    /\ \A i \in 1..Len(fields) : image[8 + i] = fields[i]

\* ... and its checksum.
Holds(image, crc) == image[7] = crc % 256 /\ image[8] = (crc \div 256) % 256

LEMMA LayoutFacts ==
    ASSUME NEW version \in 1..3, NEW crc \in Word16, NEW fields \in Seq(Byte)
    PROVE  /\ Layout(version, crc, fields) \in Seq(Byte)
           /\ Len(Layout(version, crc, fields)) = 8 + Len(fields)
           /\ Says(Layout(version, crc, fields), version, fields)
           /\ Holds(Layout(version, crc, fields), crc)
  <1>1. version \in Int /\ crc \in Int /\ Len(fields) \in Nat
    BY WordRange, LenProperties
  <1>2. Magic \in Seq(Byte) /\ Len(Magic) = 4
    BY DEF Magic, Byte
  <1> DEFINE a == Magic \o Word(version)
             b == a \o Word(crc)
  <1>3. /\ a \in Seq(Byte) /\ Len(a) = 6
        /\ \A i \in 1..4 : a[i] = Magic[i]
        /\ a[5] = version % 256 /\ a[6] = (version \div 256) % 256
    <2> DEFINE w == Word(version)
    <2>1. w \in Seq(Byte) /\ Len(w) = 2 /\ Encodes(w, version)
      BY <1>1, WordFacts
    <2> HIDE DEF w
    <2>2. Joins(Magic \o w, Magic, 4, w, 2)
      BY <1>2, <2>1, Joined
    <2>3. Joins(a, Magic, 4, w, 2)
      BY <2>2 DEF w
    <2> HIDE DEF a
    <2>4. a[4 + 1] = w[1] /\ a[4 + 2] = w[2]
      BY <2>3 DEF Joins
    <2>5. QED
      BY <2>1, <2>3, <2>4 DEF Joins, Encodes
  <1> HIDE DEF a
  <1>4. /\ b \in Seq(Byte) /\ Len(b) = 8 /\ \A i \in 1..6 : b[i] = a[i]
        /\ b[7] = crc % 256 /\ b[8] = (crc \div 256) % 256
    <2> DEFINE w == Word(crc)
    <2>1. w \in Seq(Byte) /\ Len(w) = 2 /\ Encodes(w, crc)
      BY <1>1, WordFacts
    <2> HIDE DEF w
    <2>2. Joins(a \o w, a, 6, w, 2)
      <3>1. a \in Seq(Byte) /\ Len(a) = 6
        BY <1>3
      <3>2. QED
        BY <2>1, <3>1, Joined
    <2>3. Joins(b, a, 6, w, 2)
      BY <2>2 DEF w
    <2> HIDE DEF b
    <2>4. b[6 + 1] = w[1] /\ b[6 + 2] = w[2]
      BY <2>3 DEF Joins
    <2>5. QED
      BY <2>1, <2>3, <2>4 DEF Joins, Encodes
  <1> HIDE DEF b
  <1>5. Layout(version, crc, fields) = b \o fields
    BY DEF Layout, a, b
  <1> DEFINE layout == b \o fields
  <1>6. /\ layout \in Seq(Byte) /\ Len(layout) = 8 + Len(fields)
        /\ \A i \in 1..8 : layout[i] = b[i]
        /\ \A i \in 1..Len(fields) : layout[8 + i] = fields[i]
    <2>1. Joins(layout, b, 8, fields, Len(fields))
      <3>1. b \in Seq(Byte) /\ Len(b) = 8
        BY <1>4
      <3>2. QED
        BY <3>1, Joined
    <2> HIDE DEF layout
    <2>2. QED
      BY <2>1 DEF Joins
  <1> HIDE DEF layout
  <1>7. version % 256 = version /\ (version \div 256) % 256 = 0
    OBVIOUS
  <1>8. Says(layout, version, fields)
    <2>1. \A i \in 1..4 : layout[i] = Magic[i]
      <3> TAKE i \in 1..4
      <3>1. i \in 1..8 /\ i \in 1..6
        OBVIOUS
      <3>2. layout[i] = b[i]
        BY <1>6, <3>1
      <3>3. b[i] = a[i]
        BY <1>4, <3>1
      <3>4. a[i] = Magic[i]
        BY <1>3
      <3>5. QED
        BY <3>2, <3>3, <3>4
    <2>2. layout[5] = version /\ layout[6] = 0
      <3>1. layout[5] = a[5] /\ layout[6] = a[6]
        BY <1>4, <1>6
      <3>2. QED
        BY <1>3, <1>7, <3>1
    <2>3. QED
      BY <1>6, <2>1, <2>2 DEF Says
  <1>9. Holds(layout, crc)
    BY <1>4, <1>6 DEF Holds
  <1>10. QED
    BY <1>5, <1>6, <1>8, <1>9 DEF layout

LEMMA HeldFields ==
    ASSUME NEW c \in Holdable
    PROVE  /\ c.debugMode \in Byte /\ c.usbRelayEnabled \in Byte
           /\ c.radioEnabled \in Byte /\ c.skipRadioHandshake \in Byte
           /\ c.txPowerDbm \in Byte /\ c.gyroEnabled \in Byte
           /\ c.gimbalPitchOffset \in TrimWord /\ c.gimbalYawOffset \in TrimWord
           /\ c.motor1offset \in TrimByte /\ c.motor2offset \in TrimByte
           /\ c.gimbalPitchOffset \in Int /\ c.gimbalYawOffset \in Int
           /\ c.motor1offset \in Int /\ c.motor2offset \in Int
  BY KeySet DEF Holdable, Held

\* The six bytes of the trims, after the first `at` of s.
TrimBytes(s, at, c) ==
    /\ s[at + 1] = c.gimbalPitchOffset % 256
    /\ s[at + 2] = (c.gimbalPitchOffset \div 256) % 256
    /\ s[at + 3] = c.gimbalYawOffset % 256
    /\ s[at + 4] = (c.gimbalYawOffset \div 256) % 256
    /\ s[at + 5] = c.motor1offset % 256
    /\ s[at + 6] = c.motor2offset % 256

LEMMA TrimsFacts ==
    ASSUME NEW c \in Holdable
    PROVE  Trims(c) \in Seq(Byte) /\ Len(Trims(c)) = 6 /\ TrimBytes(Trims(c), 0, c)
  <1> DEFINE p == Word(c.gimbalPitchOffset)
             y == Word(c.gimbalYawOffset)
             m == SignedByte(c.motor1offset)
             n == SignedByte(c.motor2offset)
  <1>1. /\ c.gimbalPitchOffset \in Int /\ c.gimbalYawOffset \in Int
        /\ c.motor1offset \in Int /\ c.motor2offset \in Int
    BY HeldFields
  <1>2. /\ p \in Seq(Byte) /\ Len(p) = 2 /\ y \in Seq(Byte) /\ Len(y) = 2
        /\ m \in Seq(Byte) /\ Len(m) = 1 /\ n \in Seq(Byte) /\ Len(n) = 1
    <2>1. p \in Seq(Byte) /\ Len(p) = 2 /\ y \in Seq(Byte) /\ Len(y) = 2
      BY <1>1, WordFacts
    <2>2. m \in Seq(Byte) /\ Len(m) = 1 /\ n \in Seq(Byte) /\ Len(n) = 1
      BY <1>1, SignedByteFacts
    <2>3. QED
      BY <2>1, <2>2
  <1>3. /\ Encodes(p, c.gimbalPitchOffset) /\ Encodes(y, c.gimbalYawOffset)
        /\ EncodesByte(m, c.motor1offset) /\ EncodesByte(n, c.motor2offset)
    BY <1>1, WordFacts, SignedByteFacts
  <1>4. Trims(c) = ((p \o y) \o m) \o n
    BY DEF Trims
  <1> HIDE DEF p, y, m, n
  <1> DEFINE r == p \o y
  <1>5. Joins(r, p, 2, y, 2)
    BY <1>2, Joined
  <1> HIDE DEF r
  <1>6. r \in Seq(Byte) /\ Len(r) = 4
    BY <1>5 DEF Joins
  <1> DEFINE s == r \o m
  <1>7. Joins(s, r, 4, m, 1)
    BY <1>2, <1>6, Joined
  <1> HIDE DEF s
  <1>8. s \in Seq(Byte) /\ Len(s) = 5
    BY <1>7 DEF Joins
  <1> DEFINE t == s \o n
  <1>9. Joins(t, s, 5, n, 1)
    BY <1>2, <1>8, Joined
  <1> HIDE DEF t
  <1>10. /\ t \in Seq(Byte) /\ Len(t) = 6
        /\ \A i \in 1..5 : t[i] = s[i] /\ t[5 + 1] = n[1]
    BY <1>9 DEF Joins
  <1>11. (\A i \in 1..4 : s[i] = r[i]) /\ s[4 + 1] = m[1]
    BY <1>7 DEF Joins
  <1>12. r[1] = p[1] /\ r[2] = p[2] /\ r[2 + 1] = y[1] /\ r[2 + 2] = y[2]
    BY <1>5 DEF Joins
  <1>13. /\ t[1] = p[1] /\ t[2] = p[2] /\ t[3] = y[1] /\ t[4] = y[2]
         /\ t[5] = m[1] /\ t[6] = n[1]
    BY <1>10, <1>11, <1>12
  <1>14. TrimBytes(t, 0, c)
    BY <1>3, <1>13 DEF TrimBytes, Encodes, EncodesByte
  <1>15. QED
    BY <1>4, <1>10, <1>14 DEF r, s, t

\* Trims behind other bytes are read as they were.
LEMMA TrimsBehind ==
    ASSUME NEW c, NEW s, NEW t, NEW at \in Nat, TrimBytes(t, 0, c),
           \A i \in 1..6 : s[at + i] = t[i]
    PROVE  TrimBytes(s, at, c)
  <1>1. /\ t[1] = c.gimbalPitchOffset % 256 /\ t[2] = (c.gimbalPitchOffset \div 256) % 256
        /\ t[3] = c.gimbalYawOffset % 256 /\ t[4] = (c.gimbalYawOffset \div 256) % 256
        /\ t[5] = c.motor1offset % 256 /\ t[6] = c.motor2offset % 256
    BY DEF TrimBytes
  <1>2. /\ s[at + 1] = t[1] /\ s[at + 2] = t[2] /\ s[at + 3] = t[3]
        /\ s[at + 4] = t[4] /\ s[at + 5] = t[5] /\ s[at + 6] = t[6]
    OBVIOUS
  <1>3. QED
    BY <1>1, <1>2 DEF TrimBytes

LEMMA FieldsV1Facts ==
    ASSUME NEW c \in Holdable
    PROVE  LET f == FieldsV1(c)
           IN  /\ f \in Seq(Byte) /\ Len(f) = 10
               /\ f[1] = c.txPowerDbm /\ f[2] = c.usbRelayEnabled
               /\ f[3] = c.radioEnabled /\ f[4] = c.skipRadioHandshake
               /\ TrimBytes(f, 4, c)
  <1> DEFINE t == Trims(c)
             s == <<c.txPowerDbm, c.usbRelayEnabled, c.radioEnabled,
                    c.skipRadioHandshake>>
             f == s \o t
  <1>1. t \in Seq(Byte) /\ Len(t) = 6 /\ TrimBytes(t, 0, c)
    BY TrimsFacts
  <1> HIDE DEF t
  <1>2. /\ s \in Seq(Byte) /\ Len(s) = 4
        /\ s[1] = c.txPowerDbm /\ s[2] = c.usbRelayEnabled
        /\ s[3] = c.radioEnabled /\ s[4] = c.skipRadioHandshake
    BY HeldFields
  <1> HIDE DEF s
  <1>3. Joins(f, s, 4, t, 6)
    BY <1>1, <1>2, Joined
  <1> HIDE DEF f
  <1>4. /\ f \in Seq(Byte) /\ Len(f) = 10
        /\ \A i \in 1..4 : f[i] = s[i]
        /\ \A i \in 1..6 : f[4 + i] = t[i]
    BY <1>3 DEF Joins
  <1>5. TrimBytes(f, 4, c)
    BY <1>1, <1>4, TrimsBehind
  <1>6. QED
    BY <1>2, <1>4, <1>5 DEF FieldsV1, f, s, t

\* The fields that versions 2 and 3 have in common, in front of the rest.
CommonFields(f, at, c) ==
    /\ f[at + 1] = c.debugMode /\ f[at + 2] = c.usbRelayEnabled
    /\ f[at + 3] = c.radioEnabled /\ f[at + 4] = c.skipRadioHandshake
    /\ f[at + 5] = c.txPowerDbm /\ TrimBytes(f, at + 5, c)

LEMMA FieldsV2Facts ==
    ASSUME NEW c \in Holdable
    PROVE  LET f == FieldsV2(c)
           IN  f \in Seq(Byte) /\ Len(f) = 11 /\ CommonFields(f, 0, c)
  <1> DEFINE t == Trims(c)
             s == <<c.debugMode, c.usbRelayEnabled, c.radioEnabled,
                    c.skipRadioHandshake, c.txPowerDbm>>
             f == s \o t
  <1>1. t \in Seq(Byte) /\ Len(t) = 6 /\ TrimBytes(t, 0, c)
    BY TrimsFacts
  <1> HIDE DEF t
  <1>2. /\ s \in Seq(Byte) /\ Len(s) = 5
        /\ s[1] = c.debugMode /\ s[2] = c.usbRelayEnabled
        /\ s[3] = c.radioEnabled /\ s[4] = c.skipRadioHandshake
        /\ s[5] = c.txPowerDbm
    BY HeldFields
  <1> HIDE DEF s
  <1>3. Joins(f, s, 5, t, 6)
    BY <1>1, <1>2, Joined
  <1> HIDE DEF f
  <1>4. /\ f \in Seq(Byte) /\ Len(f) = 11
        /\ \A i \in 1..5 : f[i] = s[i]
        /\ \A i \in 1..6 : f[5 + i] = t[i]
    BY <1>3 DEF Joins
  <1>5. TrimBytes(f, 5, c)
    BY <1>1, <1>4, TrimsBehind
  <1>6. CommonFields(f, 0, c)
    <2>1. /\ f[0 + 1] = s[1] /\ f[0 + 2] = s[2] /\ f[0 + 3] = s[3] /\ f[0 + 4] = s[4]
          /\ f[0 + 5] = s[5] /\ 0 + 5 = 5
      BY <1>4
    <2>2. QED
      BY <1>2, <1>5, <2>1, Zenon DEF CommonFields
  <1>7. QED
    BY <1>4, <1>6 DEF FieldsV2, f, s, t

LEMMA CommonBehind ==
    ASSUME NEW c, NEW s, NEW t, NEW at \in Nat, CommonFields(t, 0, c),
           \A i \in 1..11 : s[at + i] = t[i]
    PROVE  CommonFields(s, at, c)
  <1>1. /\ t[1] = c.debugMode /\ t[2] = c.usbRelayEnabled
        /\ t[3] = c.radioEnabled /\ t[4] = c.skipRadioHandshake
        /\ t[5] = c.txPowerDbm /\ TrimBytes(t, 5, c)
    BY DEF CommonFields
  <1>2. /\ s[at + 1] = t[1] /\ s[at + 2] = t[2] /\ s[at + 3] = t[3]
        /\ s[at + 4] = t[4] /\ s[at + 5] = t[5]
    OBVIOUS
  <1>3. TrimBytes(s, at + 5, c)
    <2>1. /\ t[6] = c.gimbalPitchOffset % 256 /\ t[7] = (c.gimbalPitchOffset \div 256) % 256
          /\ t[8] = c.gimbalYawOffset % 256 /\ t[9] = (c.gimbalYawOffset \div 256) % 256
          /\ t[10] = c.motor1offset % 256 /\ t[11] = c.motor2offset % 256
      BY <1>1 DEF TrimBytes
    <2>2. /\ s[at + 5 + 1] = t[6] /\ s[at + 5 + 2] = t[7] /\ s[at + 5 + 3] = t[8]
          /\ s[at + 5 + 4] = t[9] /\ s[at + 5 + 5] = t[10] /\ s[at + 5 + 6] = t[11]
      <3>1. /\ at + 5 + 1 = at + 6 /\ at + 5 + 2 = at + 7 /\ at + 5 + 3 = at + 8
            /\ at + 5 + 4 = at + 9 /\ at + 5 + 5 = at + 10 /\ at + 5 + 6 = at + 11
        OBVIOUS
      <3>2. /\ s[at + 6] = t[6] /\ s[at + 7] = t[7] /\ s[at + 8] = t[8]
            /\ s[at + 9] = t[9] /\ s[at + 10] = t[10] /\ s[at + 11] = t[11]
        OBVIOUS
      <3>3. QED
        BY <3>1, <3>2
    <2>3. QED
      BY <2>1, <2>2 DEF TrimBytes
  <1>4. QED
    BY <1>1, <1>2, <1>3 DEF CommonFields

LEMMA FieldsV3Facts ==
    ASSUME NEW c \in Holdable
    PROVE  LET f == FieldsV3(c)
           IN  /\ f \in Seq(Byte) /\ Len(f) = 12
               /\ CommonFields(f, 0, c) /\ f[12] = c.gyroEnabled
  <1> DEFINE s == FieldsV2(c)
             t == <<c.gyroEnabled>>
             f == s \o t
  <1>1. s \in Seq(Byte) /\ Len(s) = 11 /\ CommonFields(s, 0, c)
    BY FieldsV2Facts
  <1> HIDE DEF s
  <1>2. t \in Seq(Byte) /\ Len(t) = 1 /\ t[1] = c.gyroEnabled
    BY HeldFields
  <1> HIDE DEF t
  <1>3. Joins(f, s, 11, t, 1)
    BY <1>1, <1>2, Joined
  <1> HIDE DEF f
  <1>4. /\ f \in Seq(Byte) /\ Len(f) = 12
        /\ \A i \in 1..11 : f[0 + i] = s[i]
        /\ f[11 + 1] = t[1]
    BY <1>3 DEF Joins
  <1>5. CommonFields(f, 0, c)
    BY <1>1, <1>4, CommonBehind
  <1>6. QED
    BY <1>2, <1>4, <1>5 DEF FieldsV3, f, s, t

-----------------------------------------------------------------------------
(* The checksum of an image. *)

LEMMA FunctionIsSeq ==
    ASSUME NEW n \in Nat, NEW f \in [1..n -> Byte]
    PROVE  f \in Seq(Byte) /\ Len(f) = n
  OBVIOUS

\* Images that say the same have the same checksum, that of their layout.
LEMMA ChecksumOfLayout ==
    ASSUME NEW version \in 1..3, NEW fields \in Seq(Byte), NEW image,
           Says(image, version, fields)
    PROVE  Checksum(image, 8 + Len(fields)) = ByteSum(Layout(version, 0, fields))
  <1> DEFINE size == 8 + Len(fields)
             masked == [i \in 1..size |-> IF i \in {7, 8} THEN 0 ELSE image[i]]
             layout == Layout(version, 0, fields)
  <1>1. size \in Nat /\ Len(fields) \in Nat
    BY LenProperties
  <1>2. layout \in Seq(Byte) /\ Len(layout) = size
    BY WordZero, LayoutFacts, ZenonT(20)
  <1>3. layout[7] = 0 /\ layout[8] = 0
    <2>1. Holds(layout, 0)
      BY WordZero, LayoutFacts, ZenonT(20)
    <2>2. QED
      BY <2>1 DEF Holds
  <1>4. Says(layout, version, fields)
    BY WordZero, LayoutFacts
  <1> HIDE DEF layout
  <1>5. layout \in [1..size -> Byte]
    BY <1>2, LenProperties
  <1>6. ASSUME NEW i \in 1..size PROVE masked[i] = layout[i]
    <2>1. CASE i \in {7, 8}
      BY <1>3, <2>1
    <2>2. CASE i \in 1..4
      BY <1>4, <2>2 DEF Says
    <2>3. CASE i \in {5, 6}
      BY <1>4, <2>3 DEF Says
    <2>4. CASE i > 8
      <3>1. i - 8 \in 1..Len(fields) /\ 8 + (i - 8) = i
        BY <1>1, <2>4
      <3>2. image[i] = fields[i - 8] /\ layout[i] = fields[i - 8]
        BY <1>4, <3>1 DEF Says
      <3>3. QED
        BY <2>4, <3>2
    <2>5. i \in {7, 8} \/ i \in 1..4 \/ i \in {5, 6} \/ i > 8
      BY <1>1
    <2>6. QED
      BY <2>1, <2>2, <2>3, <2>4, <2>5
  <1>7. masked = layout
    BY <1>5, <1>6
  <1>8. QED
    BY <1>7 DEF Checksum, layout

LEMMA VersionSaid ==
    ASSUME NEW version \in 1..3, NEW fields, NEW image, Says(image, version, fields)
    PROVE  Version(image) = version
  BY DEF Says, Version, WordAt

LEMMA ImageFacts ==
    ASSUME NEW version \in 1..3, NEW fields \in Seq(Byte)
    PROVE  /\ Image(version, fields) \in Seq(Byte)
           /\ Len(Image(version, fields)) = 8 + Len(fields)
           /\ Says(Image(version, fields), version, fields)
           /\ Holds(Image(version, fields), ByteSum(Layout(version, 0, fields)))
  <1> DEFINE crc == ByteSum(Layout(version, 0, fields))
  <1>1. crc \in Word16
    <2>1. Layout(version, 0, fields) \in Seq(Byte)
      BY WordZero, LayoutFacts, ZenonT(20)
    <2>2. QED
      BY <2>1, ByteSumType
  <1> HIDE DEF crc
  <1>2. Image(version, fields) = Layout(version, crc, fields)
    BY DEF Image, crc
  <1>3. /\ Layout(version, crc, fields) \in Seq(Byte)
        /\ Len(Layout(version, crc, fields)) = 8 + Len(fields)
        /\ Says(Layout(version, crc, fields), version, fields)
        /\ Holds(Layout(version, crc, fields), crc)
    BY <1>1, LayoutFacts, Zenon
  <1>4. QED
    BY <1>2, <1>3, Zenon DEF crc

\* An image that says the same and holds the sum of its layout is sound.
LEMMA SoundBySum ==
    ASSUME NEW version \in 1..3, NEW fields \in Seq(Byte), NEW image,
           Says(image, version, fields), Holds(image, ByteSum(Layout(version, 0, fields)))
    PROVE  Sound(image, 8 + Len(fields))
  <1> DEFINE crc == ByteSum(Layout(version, 0, fields))
  <1>1. crc \in Word16
    <2>1. Layout(version, 0, fields) \in Seq(Byte)
      BY WordZero, LayoutFacts, ZenonT(20)
    <2>2. QED
      BY <2>1, ByteSumType
  <1>2. Checksum(image, 8 + Len(fields)) = crc
    BY ChecksumOfLayout
  <1>3. Holds(image, crc)
    OBVIOUS
  <1> HIDE DEF crc
  <1>4. WordAt(image, 6) = crc
    BY <1>1, <1>3, WordRead DEF WordAt, Holds
  <1>5. \A i \in 1..4 : image[i] = Magic[i]
    BY DEF Says
  <1>6. QED
    BY <1>2, <1>4, <1>5 DEF Sound

LEMMA SameImage ==
    ASSUME NEW fields \in Seq(Byte), NEW s \in Seq(Byte), NEW t \in Seq(Byte),
           NEW version, NEW crc,
           Len(s) = 8 + Len(fields), Len(t) = 8 + Len(fields),
           Says(s, version, fields), Says(t, version, fields),
           Holds(s, crc), Holds(t, crc)
    PROVE  s = t
  <1>1. Len(fields) \in Nat
    BY LenProperties
  <1>2. ASSUME NEW i \in 1..8 + Len(fields) PROVE s[i] = t[i]
    <2>1. CASE i \in 1..4
      BY <2>1 DEF Says
    <2>2. CASE i \in {5, 6}
      BY <2>2 DEF Says
    <2>3. CASE i \in {7, 8}
      BY <2>3 DEF Holds
    <2>4. CASE i > 8
      <3>1. i - 8 \in 1..Len(fields) /\ 8 + (i - 8) = i
        BY <1>1, <2>4
      <3>2. s[i] = fields[i - 8] /\ t[i] = fields[i - 8]
        BY <3>1 DEF Says
      <3>3. QED
        BY <3>2
    <2>5. i \in {7, 8} \/ i \in 1..4 \/ i \in {5, 6} \/ i > 8
      BY <1>1
    <2>6. QED
      BY <2>1, <2>2, <2>3, <2>4, <2>5
  <1>3. QED
    BY <1>2, SeqEqual

\* A sound image is the one that would be written for what it says.
LEMMA WrittenBack ==
    ASSUME NEW version \in 1..3, NEW fields \in Seq(Byte), NEW image \in Seq(Byte),
           Len(image) = 8 + Len(fields),
           Says(image, version, fields), Sound(image, 8 + Len(fields))
    PROVE  image = Image(version, fields)
  <1> DEFINE crc == ByteSum(Layout(version, 0, fields))
  <1>1. WordAt(image, 6) = crc
    BY ChecksumOfLayout DEF Sound
  <1> HIDE DEF crc
  <1>2. image[7] \in Byte /\ image[8] \in Byte
    <2>1. Len(fields) \in Nat
      BY LenProperties
    <2>2. 7 \in 1..Len(image) /\ 8 \in 1..Len(image)
      BY <2>1
    <2>3. QED
      BY <2>2, ElementOfSeq
  <1>3. crc = image[7] + 256 * image[8]
    BY <1>1 DEF WordAt
  <1>4. Holds(image, crc)
    BY <1>2, <1>3, WordWritten DEF Holds
  <1>5. QED
    BY <1>4, ImageFacts, SameImage DEF crc

-----------------------------------------------------------------------------
(* Padding. *)

LEMMA PaddedFacts ==
    ASSUME NEW image \in Seq(Byte), Len(image) <= Size
    PROVE  /\ Padded(image) \in Seq(Byte) /\ Len(Padded(image)) = Size
           /\ \A i \in 1..Len(image) : Padded(image)[i] = image[i]
           /\ Len(image) = Size => Padded(image) = image
  <1>1. Len(image) \in Nat /\ Size \in Nat /\ 255 \in Byte
    BY LenProperties DEF Size, Byte
  <1>2. \A i \in 1..Len(image) : image[i] \in Byte
    BY ElementOfSeq
  <1>3. \A i \in 1..Size : i <= Len(image) => i \in 1..Len(image)
    BY <1>1
  <1> DEFINE padded == Padded(image)
  <1>4. padded \in [1..Size -> Byte]
    BY <1>1, <1>2, <1>3 DEF Padded
  <1>5. padded \in Seq(Byte) /\ Len(padded) = Size
    BY <1>1, <1>4, FunctionIsSeq
  <1>6. \A i \in 1..Len(image) : padded[i] = image[i]
    BY <1>1 DEF Padded
  <1> HIDE DEF padded
  <1>7. Len(image) = Size => padded = image
    BY <1>5, <1>6, SeqEqual
  <1>8. QED
    BY <1>5, <1>6, <1>7 DEF padded

\* What the EEPROM holds after save(), under any of the three versions.
LEMMA SavedImage ==
    ASSUME NEW version \in 1..3, NEW fields \in Seq(Byte), 8 + Len(fields) <= Size
    PROVE  LET image == Padded(Image(version, fields))
           IN  /\ image \in Seq(Byte) /\ Len(image) = Size
               /\ Says(image, version, fields) /\ Version(image) = version
               /\ Sound(image, 8 + Len(fields))
  <1> DEFINE written == Image(version, fields)
             image == Padded(written)
             crc == ByteSum(Layout(version, 0, fields))
  <1>1. /\ written \in Seq(Byte) /\ Len(written) = 8 + Len(fields)
        /\ Says(written, version, fields) /\ Holds(written, crc)
    BY ImageFacts
  <1>2. Len(fields) \in Nat
    BY LenProperties
  <1> HIDE DEF written
  <1>3. /\ image \in Seq(Byte) /\ Len(image) = Size
        /\ \A i \in 1..8 + Len(fields) : image[i] = written[i]
    BY <1>1, PaddedFacts
  <1> HIDE DEF image
  <1>4. Says(image, version, fields)
    <2>1. \A i \in 1..Len(fields) : 8 + i \in 1..8 + Len(fields)
      BY <1>2
    <2>2. \A i \in 1..6 : i \in 1..8 + Len(fields)
      BY <1>2
    <2>3. QED
      BY <1>1, <1>3, <2>1, <2>2 DEF Says
  <1>5. Holds(image, crc)
    <2>1. 7 \in 1..8 + Len(fields) /\ 8 \in 1..8 + Len(fields)
      BY <1>2
    <2>2. image[7] = written[7] /\ image[8] = written[8]
      BY <1>3, <2>1
    <2>3. QED
      BY <1>1, <2>2 DEF Holds
  <1>6. Sound(image, 8 + Len(fields))
    BY <1>4, <1>5, SoundBySum
  <1>7. Version(image) = version
    BY <1>4, VersionSaid
  <1>8. QED
    BY <1>3, <1>4, <1>6, <1>7 DEF image, written

-----------------------------------------------------------------------------
(* Configurations read from images. *)

LEMMA TrimsRead ==
    ASSUME NEW c \in Holdable, NEW image, NEW at \in Nat, TrimBytes(image, at, c)
    PROVE  /\ TrimAt(image, at) = c.gimbalPitchOffset
           /\ TrimAt(image, at + 2) = c.gimbalYawOffset
           /\ SignedAt(image, at + 4) = c.motor1offset
           /\ SignedAt(image, at + 5) = c.motor2offset
  <1> DEFINE p == c.gimbalPitchOffset
             y == c.gimbalYawOffset
             m == c.motor1offset
             n == c.motor2offset
  <1>1. p \in TrimWord /\ y \in TrimWord /\ m \in TrimByte /\ n \in TrimByte
    BY HeldFields
  <1>2. /\ image[at + 1] = p % 256 /\ image[at + 2] = (p \div 256) % 256
        /\ image[at + 3] = y % 256 /\ image[at + 4] = (y \div 256) % 256
        /\ image[at + 5] = m % 256 /\ image[at + 6] = n % 256
    BY DEF TrimBytes
  <1> HIDE DEF p, y, m, n
  <1>3. TrimAt(image, at) = p
    BY <1>1, <1>2, TrimRead DEF TrimAt, WordAt
  <1>4. TrimAt(image, at + 2) = y
    <2>1. (at + 2) + 1 = at + 3 /\ (at + 2) + 2 = at + 4
      OBVIOUS
    <2>2. image[(at + 2) + 1] = y % 256 /\ image[(at + 2) + 2] = (y \div 256) % 256
      BY <1>2, <2>1
    <2>3. WordAt(image, at + 2) = (y % 256) + 256 * ((y \div 256) % 256)
      BY <2>2 DEF WordAt
    <2>4. QED
      BY <1>1, <2>3, TrimRead DEF TrimAt
  <1>5. SignedAt(image, at + 4) = m
    <2>1. image[(at + 4) + 1] = m % 256
      BY <1>2
    <2>2. QED
      BY <1>1, <2>1, SignedRead, Zenon DEF SignedAt
  <1>6. SignedAt(image, at + 5) = n
    <2>1. image[(at + 5) + 1] = n % 256
      BY <1>2
    <2>2. QED
      BY <1>1, <2>1, SignedRead, Zenon DEF SignedAt
  <1>7. QED
    BY <1>3, <1>4, <1>5, <1>6 DEF p, y, m, n

\* A configuration is its ten fields.
LEMMA TenFields ==
    ASSUME NEW c \in Holdable
    PROVE  c = [debugMode |-> c.debugMode, usbRelayEnabled |-> c.usbRelayEnabled,
                radioEnabled |-> c.radioEnabled,
                skipRadioHandshake |-> c.skipRadioHandshake,
                txPowerDbm |-> c.txPowerDbm,
                gimbalPitchOffset |-> c.gimbalPitchOffset,
                gimbalYawOffset |-> c.gimbalYawOffset,
                motor1offset |-> c.motor1offset, motor2offset |-> c.motor2offset,
                gyroEnabled |-> c.gyroEnabled]
  BY KeySet DEF Holdable

LEMMA CommonRead ==
    ASSUME NEW c \in Holdable, NEW image, NEW gyro, CommonFields(image, 8, c)
    PROVE  ReadFields(image, gyro) = [c EXCEPT !.gyroEnabled = gyro]
  <1>1. /\ image[9] = c.debugMode /\ image[10] = c.usbRelayEnabled
        /\ image[11] = c.radioEnabled /\ image[12] = c.skipRadioHandshake
        /\ image[13] = c.txPowerDbm /\ TrimBytes(image, 13, c)
    BY DEF CommonFields
  <1>2. /\ TrimAt(image, 13) = c.gimbalPitchOffset
        /\ TrimAt(image, 15) = c.gimbalYawOffset
        /\ SignedAt(image, 17) = c.motor1offset
        /\ SignedAt(image, 18) = c.motor2offset
    <2>1. 13 + 2 = 15 /\ 13 + 4 = 17 /\ 13 + 5 = 18 /\ 13 \in Nat
      OBVIOUS
    <2>2. QED
      BY <1>1, <2>1, TrimsRead
  <1>3. QED
    BY <1>1, <1>2, TenFields DEF ReadFields

\* What save() wrote is what the next load() finds.
LEMMA StoredFacts ==
    ASSUME NEW c \in Holdable
    PROVE  /\ Stored(c) \in Seq(Byte) /\ Len(Stored(c)) = Size
           /\ Padded(Stored(c)) = Stored(c)
           /\ Version(Stored(c)) = CONFIG_VERSION /\ Sound(Stored(c), Size)
           /\ ReadV3(Stored(c)) = c
  <1> DEFINE f == FieldsV3(c)
             s == Image(3, f)
             image == Padded(s)
  <1>1. f \in Seq(Byte) /\ Len(f) = 12 /\ CommonFields(f, 0, c) /\ f[12] = c.gyroEnabled
    BY FieldsV3Facts
  <1> HIDE DEF f
  <1>2. Stored(c) = s
    BY DEF Stored, CONFIG_VERSION, f
  <1>3. 3 \in 1..3 /\ 8 + Len(f) = Size /\ 8 + Len(f) <= Size
    BY <1>1 DEF Size
  <1>4. s \in Seq(Byte) /\ Len(s) = 8 + Len(f)
    BY <1>1, <1>3, ImageFacts
  <1>5. /\ image \in Seq(Byte) /\ Says(image, 3, f) /\ Version(image) = 3
        /\ Sound(image, 8 + Len(f))
    BY <1>1, <1>3, SavedImage
  <1> HIDE DEF s
  <1>6. image = s /\ Len(s) = Size
    BY <1>3, <1>4, PaddedFacts
  <1> HIDE DEF image
  <1>7. \A i \in 1..12 : image[8 + i] = f[i]
    BY <1>1, <1>5 DEF Says
  <1>8. CommonFields(image, 8, c)
    <2>1. \A i \in 1..11 : image[8 + i] = f[i]
      BY <1>7
    <2>2. QED
      BY <1>1, <2>1, CommonBehind
  <1>9. image[8 + 12] = c.gyroEnabled
    <2>1. image[8 + 12] = f[12]
      BY <1>7
    <2>2. QED
      BY <1>1, <2>1
  <1>10. ReadV3(image) = c
    <2>1. ReadV3(image) = [c EXCEPT !.gyroEnabled = c.gyroEnabled]
      BY <1>8, <1>9, CommonRead DEF ReadV3
    <2>2. QED
      BY <2>1 DEF Holdable
  <1>11. Sound(image, Size) /\ Version(image) = CONFIG_VERSION
    BY <1>3, <1>5 DEF CONFIG_VERSION
  <1>12. QED
    BY <1>2, <1>4, <1>6, <1>10, <1>11 DEF image

\* An image of version 2 is migrated to what its owner had set.
LEMMA StoredV2Facts ==
    ASSUME NEW c \in Holdable
    PROVE  LET image == Padded(Image(2, FieldsV2(c)))
           IN  /\ image \in Seq(Byte) /\ Len(image) = Size
               /\ Version(image) = 2 /\ Migrated(image) = Upgraded(c, 2)
  <1> DEFINE f == FieldsV2(c)
             image == Padded(Image(2, f))
  <1>1. f \in Seq(Byte) /\ Len(f) = 11 /\ CommonFields(f, 0, c)
    BY FieldsV2Facts
  <1> HIDE DEF f
  <1>2. 2 \in 1..3 /\ 8 + Len(f) = 19 /\ 8 + Len(f) <= Size
    BY <1>1 DEF Size
  <1>3. /\ image \in Seq(Byte) /\ Len(image) = Size
        /\ Says(image, 2, f) /\ Version(image) = 2 /\ Sound(image, 8 + Len(f))
    BY <1>1, <1>2, SavedImage
  <1> HIDE DEF image
  <1>4. \A i \in 1..11 : image[8 + i] = f[i]
    BY <1>1, <1>3 DEF Says
  <1>5. CommonFields(image, 8, c)
    BY <1>1, <1>4, CommonBehind
  <1>6. ReadV2(image) = [c EXCEPT !.gyroEnabled = defaults.gyroEnabled]
    BY <1>5, CommonRead DEF ReadV2
  <1>7. Migrated(image) = ReadV2(image)
    BY <1>2, <1>3 DEF Migrated
  <1>8. Upgraded(c, 2) = [c EXCEPT !.gyroEnabled = defaults.gyroEnabled]
    BY DEF Upgraded
  <1>9. QED
    BY <1>3, <1>6, <1>7, <1>8 DEF image, f

\* So is one of version 1, whose fields are elsewhere.
LEMMA StoredV1Facts ==
    ASSUME NEW c \in Holdable
    PROVE  LET image == Padded(Image(1, FieldsV1(c)))
           IN  /\ image \in Seq(Byte) /\ Len(image) = Size
               /\ Version(image) = 1 /\ Migrated(image) = Upgraded(c, 1)
  <1> DEFINE f == FieldsV1(c)
             image == Padded(Image(1, f))
  <1>1. /\ f \in Seq(Byte) /\ Len(f) = 10
        /\ f[1] = c.txPowerDbm /\ f[2] = c.usbRelayEnabled
        /\ f[3] = c.radioEnabled /\ f[4] = c.skipRadioHandshake
        /\ TrimBytes(f, 4, c)
    BY FieldsV1Facts
  <1> HIDE DEF f
  <1>2. 1 \in 1..3 /\ 8 + Len(f) = 18 /\ 8 + Len(f) <= Size
    BY <1>1 DEF Size
  <1>3. /\ image \in Seq(Byte) /\ Len(image) = Size
        /\ Says(image, 1, f) /\ Version(image) = 1 /\ Sound(image, 8 + Len(f))
    BY <1>1, <1>2, SavedImage
  <1> HIDE DEF image
  <1>4. \A i \in 1..10 : image[8 + i] = f[i]
    BY <1>1, <1>3 DEF Says
  <1>5. /\ image[9] = c.txPowerDbm /\ image[10] = c.usbRelayEnabled
        /\ image[11] = c.radioEnabled /\ image[12] = c.skipRadioHandshake
    <2>1. /\ image[8 + 1] = f[1] /\ image[8 + 2] = f[2]
          /\ image[8 + 3] = f[3] /\ image[8 + 4] = f[4]
      BY <1>4
    <2>2. QED
      BY <1>1, <2>1
  <1>6. TrimBytes(image, 12, c)
    <2>1. /\ f[5] = c.gimbalPitchOffset % 256 /\ f[6] = (c.gimbalPitchOffset \div 256) % 256
          /\ f[7] = c.gimbalYawOffset % 256 /\ f[8] = (c.gimbalYawOffset \div 256) % 256
          /\ f[9] = c.motor1offset % 256 /\ f[10] = c.motor2offset % 256
      BY <1>1 DEF TrimBytes
    <2>2. /\ image[12 + 1] = f[5] /\ image[12 + 2] = f[6] /\ image[12 + 3] = f[7]
          /\ image[12 + 4] = f[8] /\ image[12 + 5] = f[9] /\ image[12 + 6] = f[10]
      <3>1. /\ image[8 + 5] = f[5] /\ image[8 + 6] = f[6] /\ image[8 + 7] = f[7]
            /\ image[8 + 8] = f[8] /\ image[8 + 9] = f[9] /\ image[8 + 10] = f[10]
        BY <1>4
      <3>2. QED
        BY <3>1
    <2>3. QED
      BY <2>1, <2>2 DEF TrimBytes
  <1>7. /\ TrimAt(image, 12) = c.gimbalPitchOffset
        /\ TrimAt(image, 14) = c.gimbalYawOffset
        /\ SignedAt(image, 16) = c.motor1offset
        /\ SignedAt(image, 17) = c.motor2offset
    <2>1. 12 + 2 = 14 /\ 12 + 4 = 16 /\ 12 + 5 = 17 /\ 12 \in Nat
      OBVIOUS
    <2>2. QED
      BY <1>6, <2>1, TrimsRead
  <1>8. ReadV1(image) = Upgraded(c, 1)
    <2>1. Upgraded(c, 1) = [c EXCEPT !.debugMode = defaults.debugMode,
                                     !.gyroEnabled = defaults.gyroEnabled]
      BY DEF Upgraded
    <2>2. QED
      BY <1>5, <1>7, <2>1, TenFields DEF ReadV1
  <1>9. Migrated(image) = ReadV1(image)
    BY <1>2, <1>3 DEF Migrated
  <1>10. QED
    BY <1>3, <1>8, <1>9 DEF image, f

-----------------------------------------------------------------------------
(* Whatever is read is a configuration that an image can hold. *)

LEMMA DefaultsHoldable == defaults \in Holdable /\ IsConfig(defaults)
  <1>1. IsConfig(defaults)
    BY KeySet DEF defaults, IsConfig, Accepted, Bool
  <1>2. QED
    BY <1>1, OwnersHoldable

\* The trims behind the first `at` bytes are in range, and made of six bytes.
ReadableTrims(image, at) ==
    /\ TrimAt(image, at) \in TrimWord /\ TrimAt(image, at + 2) \in TrimWord
    /\ SignedAt(image, at + 4) \in TrimByte
    /\ SignedAt(image, at + 5) \in TrimByte
    /\ TrimAt(image, at) % 256 = image[at + 1]
    /\ (TrimAt(image, at) \div 256) % 256 = image[at + 2]
    /\ TrimAt(image, at + 2) % 256 = image[at + 3]
    /\ (TrimAt(image, at + 2) \div 256) % 256 = image[at + 4]
    /\ SignedAt(image, at + 4) % 256 = image[at + 5]
    /\ SignedAt(image, at + 5) % 256 = image[at + 6]

LEMMA TrimsOfBytes ==
    ASSUME NEW image, NEW at \in Nat, \A i \in 1..6 : image[at + i] \in Byte
    PROVE  ReadableTrims(image, at)
  <1>1. /\ image[at + 1] \in Byte /\ image[at + 2] \in Byte /\ image[at + 3] \in Byte
        /\ image[at + 4] \in Byte /\ image[at + 5] \in Byte /\ image[at + 6] \in Byte
    OBVIOUS
  <1>2. /\ image[(at + 2) + 1] = image[at + 3] /\ image[(at + 2) + 2] = image[at + 4]
        /\ image[(at + 4) + 1] = image[at + 5] /\ image[(at + 5) + 1] = image[at + 6]
    <2>1. /\ (at + 2) + 1 = at + 3 /\ (at + 2) + 2 = at + 4
          /\ (at + 4) + 1 = at + 5 /\ (at + 5) + 1 = at + 6
      OBVIOUS
    <2>2. QED
      BY <2>1
  <1>3. /\ TrimAt(image, at) \in TrimWord
        /\ TrimAt(image, at) % 256 = image[at + 1]
        /\ (TrimAt(image, at) \div 256) % 256 = image[at + 2]
    <2>1. TrimAt(image, at) = Signed(image[at + 1] + 256 * image[at + 2], 128 * 256)
      BY DEF TrimAt, WordAt
    <2>2. QED
      BY <1>1, <2>1, TrimWritten
  <1>4. /\ TrimAt(image, at + 2) \in TrimWord
        /\ TrimAt(image, at + 2) % 256 = image[at + 3]
        /\ (TrimAt(image, at + 2) \div 256) % 256 = image[at + 4]
    <2>1. TrimAt(image, at + 2) = Signed(image[at + 3] + 256 * image[at + 4], 128 * 256)
      BY <1>2 DEF TrimAt, WordAt
    <2>2. QED
      BY <1>1, <2>1, TrimWritten
  <1>5. SignedAt(image, at + 4) \in TrimByte /\ SignedAt(image, at + 4) % 256 = image[at + 5]
    BY <1>1, <1>2, SignedWritten DEF SignedAt
  <1>6. SignedAt(image, at + 5) \in TrimByte /\ SignedAt(image, at + 5) % 256 = image[at + 6]
    BY <1>1, <1>2, SignedWritten DEF SignedAt
  <1>7. QED
    BY <1>3, <1>4, <1>5, <1>6 DEF ReadableTrims

LEMMA HeldIsInt ==
    /\ \A n \in Byte : n \in Int
    /\ \A n \in TrimWord : n \in Int
    /\ \A n \in TrimByte : n \in Int
  BY DEF Byte, TrimWord, TrimByte

LEMMA FieldsHoldable ==
    ASSUME NEW d \in Byte, NEW u \in Byte, NEW r \in Byte, NEW s \in Byte,
           NEW x \in Byte, NEW p \in TrimWord, NEW y \in TrimWord,
           NEW m \in TrimByte, NEW n \in TrimByte, NEW g \in Byte
    PROVE  [debugMode |-> d, usbRelayEnabled |-> u, radioEnabled |-> r,
            skipRadioHandshake |-> s, txPowerDbm |-> x,
            gimbalPitchOffset |-> p, gimbalYawOffset |-> y,
            motor1offset |-> m, motor2offset |-> n, gyroEnabled |-> g] \in Holdable
  BY KeySet, HeldIsInt DEF Holdable, Held

LEMMA ReadFieldsType ==
    ASSUME NEW image \in Seq(Byte), Len(image) = Size, NEW gyro \in Byte
    PROVE  ReadFields(image, gyro) \in Holdable
  <1>1. \A i \in 1..Size : image[i] \in Byte
    BY ElementOfSeq
  <1>2. /\ image[9] \in Byte /\ image[10] \in Byte /\ image[11] \in Byte
        /\ image[12] \in Byte /\ image[13] \in Byte
        /\ \A i \in 1..6 : image[13 + i] \in Byte
    BY <1>1 DEF Size
  <1>3. /\ TrimAt(image, 13) \in TrimWord /\ TrimAt(image, 15) \in TrimWord
        /\ SignedAt(image, 17) \in TrimByte /\ SignedAt(image, 18) \in TrimByte
    <2>1. ReadableTrims(image, 13)
      BY <1>2, TrimsOfBytes
    <2>2. QED
      BY <2>1 DEF ReadableTrims
  <1>4. QED
    BY <1>2, <1>3, FieldsHoldable, ZenonT(30) DEF ReadFields

LEMMA ReadV1Type ==
    ASSUME NEW image \in Seq(Byte), Len(image) = Size
    PROVE  ReadV1(image) \in Holdable
  <1>1. \A i \in 1..Size : image[i] \in Byte
    BY ElementOfSeq
  <1>2. /\ image[9] \in Byte /\ image[10] \in Byte /\ image[11] \in Byte
        /\ image[12] \in Byte
        /\ \A i \in 1..6 : image[12 + i] \in Byte
    BY <1>1 DEF Size
  <1>3. /\ TrimAt(image, 12) \in TrimWord /\ TrimAt(image, 14) \in TrimWord
        /\ SignedAt(image, 16) \in TrimByte /\ SignedAt(image, 17) \in TrimByte
    <2>1. ReadableTrims(image, 12)
      BY <1>2, TrimsOfBytes
    <2>2. QED
      BY <2>1 DEF ReadableTrims
  <1>4. defaults.debugMode \in Byte /\ defaults.gyroEnabled \in Byte
    BY DefaultsHoldable, HeldFields
  <1>5. QED
    BY <1>2, <1>3, <1>4, FieldsHoldable, ZenonT(30) DEF ReadV1

LEMMA MigratedType ==
    ASSUME NEW image \in Seq(Byte), Len(image) = Size
    PROVE  Migrated(image) \in Holdable
  <1>1. defaults.gyroEnabled \in Byte
    BY DefaultsHoldable, HeldFields
  <1>2. ReadV2(image) \in Holdable
    BY <1>1, ReadFieldsType DEF ReadV2
  <1>3. QED
    BY <1>2, ReadV1Type, DefaultsHoldable DEF Migrated

\* A sound image of the present version is the one that save() would write for
\* the configuration that load() takes from it.
LEMMA LoadedFacts ==
    ASSUME NEW image \in Seq(Byte), Len(image) = Size,
           Version(image) = CONFIG_VERSION, Sound(image, Size)
    PROVE  ReadV3(image) \in Holdable /\ Stored(ReadV3(image)) = image
  <1> DEFINE c == ReadV3(image)
             f == FieldsV3(c)
  <1>1. \A i \in 1..Size : image[i] \in Byte
    BY ElementOfSeq
  <1>2. c \in Holdable
    BY <1>1, ReadFieldsType DEF ReadV3, Size
  <1>3. f \in Seq(Byte) /\ Len(f) = 12 /\ CommonFields(f, 0, c) /\ f[12] = c.gyroEnabled
    BY <1>2, FieldsV3Facts
  <1>4. /\ c.debugMode = image[9] /\ c.usbRelayEnabled = image[10]
        /\ c.radioEnabled = image[11] /\ c.skipRadioHandshake = image[12]
        /\ c.txPowerDbm = image[13] /\ c.gyroEnabled = image[20]
        /\ c.gimbalPitchOffset = TrimAt(image, 13)
        /\ c.gimbalYawOffset = TrimAt(image, 15)
        /\ c.motor1offset = SignedAt(image, 17)
        /\ c.motor2offset = SignedAt(image, 18)
    BY DEF ReadV3, ReadFields
  <1> HIDE DEF c, f
  <1>5. /\ c.gimbalPitchOffset % 256 = image[14]
        /\ (c.gimbalPitchOffset \div 256) % 256 = image[15]
        /\ c.gimbalYawOffset % 256 = image[16]
        /\ (c.gimbalYawOffset \div 256) % 256 = image[17]
        /\ c.motor1offset % 256 = image[18] /\ c.motor2offset % 256 = image[19]
    <2>1. \A i \in 1..6 : image[13 + i] \in Byte
      <3>1. \A i \in 1..6 : 13 + i \in 1..Size
        BY DEF Size
      <3>2. QED
        BY <1>1, <3>1
    <2>2. ReadableTrims(image, 13)
      BY <2>1, TrimsOfBytes
    <2>3. /\ TrimAt(image, 13) % 256 = image[14]
          /\ (TrimAt(image, 13) \div 256) % 256 = image[15]
          /\ TrimAt(image, 15) % 256 = image[16]
          /\ (TrimAt(image, 15) \div 256) % 256 = image[17]
          /\ SignedAt(image, 17) % 256 = image[18]
          /\ SignedAt(image, 18) % 256 = image[19]
      BY <2>2 DEF ReadableTrims
    <2>4. QED
      BY <1>4, <2>3
  <1>6. /\ f[1] = image[9] /\ f[2] = image[10] /\ f[3] = image[11]
        /\ f[4] = image[12] /\ f[5] = image[13] /\ f[12] = image[20]
    BY <1>3, <1>4 DEF CommonFields
  <1>7. /\ f[6] = image[14] /\ f[7] = image[15] /\ f[8] = image[16]
        /\ f[9] = image[17] /\ f[10] = image[18] /\ f[11] = image[19]
    <2>1. TrimBytes(f, 5, c)
      BY <1>3 DEF CommonFields
    <2>2. QED
      BY <1>5, <2>1 DEF TrimBytes
  <1>8. Says(image, 3, f)
    <2>1. image[5] = 3 /\ image[6] = 0
      <3>1. image[5] \in Byte /\ image[6] \in Byte
        BY <1>1 DEF Size
      <3>2. image[5] + 256 * image[6] = 3
        BY DEF Version, WordAt, CONFIG_VERSION
      <3>3. QED
        BY <3>1, <3>2, ByteRange, SMTT(20)
    <2>2. ASSUME NEW i \in 1..12 PROVE image[8 + i] = f[i]
      <3>1. i \in {1, 2, 3, 4, 5, 12} \/ i \in {6, 7, 8, 9, 10, 11}
        OBVIOUS
      <3>2. CASE i \in {1, 2, 3, 4, 5, 12}
        BY <1>6, <3>2, SMTT(20)
      <3>3. CASE i \in {6, 7, 8, 9, 10, 11}
        BY <1>7, <3>3, SMTT(20)
      <3>4. QED
        BY <3>1, <3>2, <3>3
    <2>3. \A i \in 1..4 : image[i] = Magic[i]
      BY DEF Sound
    <2>4. QED
      BY <1>3, <2>1, <2>2, <2>3 DEF Says
  <1>9. 8 + Len(f) = Size /\ 3 \in 1..3
    BY <1>3 DEF Size
  <1>10. image = Image(3, f)
    BY <1>3, <1>8, <1>9, WrittenBack
  <1>11. QED
    BY <1>2, <1>10 DEF Stored, CONFIG_VERSION, c, f

-----------------------------------------------------------------------------
(* Images that a power failure left. *)

\* An image half replaced by another: the front of one, the back of the other.
Mixed(torn, new, image, written) ==
    /\ torn \in Seq(Byte) /\ Len(torn) = Size
    /\ \A i \in 1..Size : torn[i] = IF i <= written THEN new[i] ELSE image[i]

LEMMA TornFacts ==
    ASSUME NEW c \in Holdable, NEW image \in Seq(Byte), Len(image) = Size,
           NEW written \in 0..Size - 1
    PROVE  Mixed(SubSeq(Stored(c), 1, written) \o SubSeq(image, written + 1, Size),
                 Stored(c), image, written)
  <1> DEFINE new == Stored(c)
             front == SubSeq(new, 1, written)
             back == SubSeq(image, written + 1, Size)
  <1>1. new \in Seq(Byte) /\ Len(new) = Size /\ Size \in Nat
    BY StoredFacts DEF Size
  <1> HIDE DEF new
  <1>2. /\ \A i \in 1..written : new[i] \in Byte
        /\ \A i \in written + 1..Size : image[i] \in Byte
    <2>1. /\ \A i \in 1..written : i \in 1..Len(new)
          /\ \A i \in written + 1..Size : i \in 1..Len(image)
      BY <1>1
    <2>2. QED
      BY <1>1, <2>1, ElementOfSeq
  <1>3. /\ front \in Seq(Byte) /\ Len(front) = written
        /\ \A i \in 1..written : front[i] = new[i]
    <2>1. /\ front \in Seq(Byte)
          /\ Len(front) = IF 1 <= written THEN written - 1 + 1 ELSE 0
          /\ \A i \in 1..written - 1 + 1 : front[i] = new[1 + i - 1]
      <3>1. 1 \in Int /\ written \in Int
        BY <1>1
      <3>2. QED
        BY <1>2, <3>1, SubSeqProperties
    <2>2. QED
      BY <1>1, <2>1
  <1>4. /\ back \in Seq(Byte) /\ Len(back) = Size - written
        /\ \A i \in 1..Size - written : back[i] = image[written + i]
    <2>1. /\ back \in Seq(Byte)
          /\ Len(back) = IF written + 1 <= Size THEN Size - (written + 1) + 1 ELSE 0
          /\ \A i \in 1..Size - (written + 1) + 1 : back[i] = image[(written + 1) + i - 1]
      <3>1. written + 1 \in Int /\ Size \in Int
        BY <1>1
      <3>2. QED
        BY <1>2, <3>1, SubSeqProperties
    <2>2. QED
      BY <1>1, <2>1
  <1> HIDE DEF front, back
  <1>5. Joins(front \o back, front, written, back, Size - written)
    BY <1>3, <1>4, Joined
  <1>6. /\ front \o back \in Seq(Byte) /\ Len(front \o back) = Size
        /\ \A i \in 1..written : (front \o back)[i] = front[i]
        /\ \A i \in 1..Size - written : (front \o back)[written + i] = back[i]
    BY <1>1, <1>5 DEF Joins
  <1>7. ASSUME NEW i \in 1..Size
        PROVE  (front \o back)[i] = IF i <= written THEN new[i] ELSE image[i]
    <2>1. CASE i <= written
      <3>1. i \in 1..written
        BY <1>1, <2>1
      <3>2. QED
        BY <1>3, <1>6, <2>1, <3>1
    <2>2. CASE ~(i <= written)
      <3>1. i - written \in 1..Size - written /\ written + (i - written) = i
        BY <1>1, <2>2
      <3>2. (front \o back)[i] = back[i - written] /\ back[i - written] = image[i]
        BY <1>4, <1>6, <3>1
      <3>3. QED
        BY <2>2, <3>2
    <2>3. QED
      BY <2>1, <2>2
  <1>8. QED
    BY <1>6, <1>7 DEF Mixed, front, back, new

\* So few bytes are added up without wrapping.
LEMMA SumsUp ==
    ASSUME NEW bytes \in Seq(Byte), Len(bytes) <= Size, NEW sum, Sums(sum, bytes)
    PROVE  \A i \in 1..Len(bytes) : sum[i] = sum[i - 1] + bytes[i]
  <1> DEFINE n == Len(bytes)
             S == {m \in Nat : m <= n => sum[m] <= 255 * m}
  <1>1. n \in 0..20 /\ \A i \in 1..n : bytes[i] \in 0..255
    <2>1. n \in Nat /\ \A i \in 1..n : bytes[i] \in Byte
      BY LenProperties, ElementOfSeq
    <2>2. \A i \in 1..n : bytes[i] \in 0..255
      BY <2>1 DEF Byte
    <2>3. n <= 20
      BY DEF Size
    <2> HIDE DEF n
    <2>4. QED
      BY <2>1, <2>2, <2>3
  <1>2. /\ \A i \in 0..n : sum[i] \in Nat
        /\ sum[0] = 0
        /\ \A i \in 1..n : sum[i] = (sum[i - 1] + bytes[i]) % (256 * 256)
    BY WordRange DEF Sums
  <1> HIDE DEF n
  <1>3. ASSUME NEW m \in Nat, m + 1 <= n, sum[m] <= 255 * m
        PROVE  sum[m + 1] = sum[m] + bytes[m + 1] /\ sum[m + 1] <= 255 * (m + 1)
    <2>1. m + 1 \in 1..n /\ m \in 0..n /\ (m + 1) - 1 = m /\ m < 20
      BY <1>1, <1>3
    <2>2. sum[m + 1] = (sum[m] + bytes[m + 1]) % (256 * 256)
      BY <1>2, <2>1
    <2>3. sum[m] \in Nat /\ bytes[m + 1] \in 0..255
      BY <1>1, <1>2, <2>1
    <2> DEFINE a == sum[m]
               b == bytes[m + 1]
    <2>4. a \in Nat /\ b \in 0..255 /\ a <= 255 * m
      BY <1>3, <2>3
    <2> HIDE DEF a, b
    <2>5. (a + b) % (256 * 256) = a + b /\ a + b <= 255 * (m + 1)
      BY <2>1, <2>4
    <2>6. QED
      BY <2>2, <2>5 DEF a, b
  <1>4. 0 \in S
    BY <1>2
  <1>5. ASSUME NEW m \in Nat, m \in S PROVE m + 1 \in S
    <2> SUFFICES ASSUME m + 1 <= n PROVE sum[m + 1] <= 255 * (m + 1)
      OBVIOUS
    <2>1. sum[m] <= 255 * m
      BY <1>1, <1>5
    <2>2. QED
      BY <1>3, <2>1
  <1>6. Nat \subseteq S
    <2> HIDE DEF S
    <2>1. QED
      BY <1>4, <1>5, SetInduction
  <1>7. ASSUME NEW i \in 1..n PROVE sum[i] = sum[i - 1] + bytes[i]
    <2>1. i - 1 \in Nat /\ (i - 1) + 1 = i /\ i - 1 <= n
      BY <1>1
    <2>2. sum[i - 1] <= 255 * (i - 1)
      BY <1>6, <2>1
    <2>3. QED
      BY <1>1, <1>3, <2>1, <2>2
  <1>8. QED
    BY <1>7 DEF n

\* All bytes up to the eighteenth but those of the crc field.
BytesSum(image) ==
    image[1] + image[2] + image[3] + image[4] + image[5] + image[6]
      + image[9] + image[10] + image[11] + image[12] + image[13]
      + image[14] + image[15] + image[16] + image[17] + image[18]

\* The checksum of an image as a sum of its bytes, under any of the layouts.
LEMMA ChecksumOfBytes ==
    ASSUME NEW image \in Seq(Byte), Len(image) = Size
    PROVE  /\ Checksum(image, 18) = BytesSum(image)
           /\ Checksum(image, 19) = BytesSum(image) + image[19]
           /\ Checksum(image, 20) = BytesSum(image) + image[19] + image[20]
  <1>1. \A i \in 1..20 : image[i] \in Byte /\ image[i] \in Int
    <2>1. \A i \in 1..20 : image[i] \in Byte
      BY ElementOfSeq DEF Size
    <2>2. \A b \in Byte : b \in Int
      BY DEF Byte
    <2>3. QED
      BY <2>1, <2>2
  <1>2. ASSUME NEW n \in 18..20
        PROVE  \E sum : /\ Checksum(image, n) = sum[n]
                        /\ sum[18] = BytesSum(image)
                        /\ n >= 19 => sum[19] = sum[18] + image[19]
                        /\ n >= 20 => sum[20] = sum[19] + image[20]
    <2> DEFINE masked == [i \in 1..n |-> IF i \in {7, 8} THEN 0 ELSE image[i]]
    <2>1. masked \in [1..n -> Byte] /\ n \in Nat
      <3>1. 0 \in Byte /\ \A i \in 1..n : i \in 1..20
        BY DEF Byte
      <3>2. \A i \in 1..n : (IF i \in {7, 8} THEN 0 ELSE image[i]) \in Byte
        BY <1>1, <3>1
      <3>3. QED
        BY <3>2
    <2>2. /\ \A i \in 1..18 : masked[i] = IF i \in {7, 8} THEN 0 ELSE image[i]
          /\ n >= 19 => masked[19] = image[19]
          /\ n >= 20 => masked[20] = image[20]
      OBVIOUS
    <2>3. Checksum(image, n) = ByteSum(masked)
      BY DEF Checksum
    <2> HIDE DEF masked
    <2>4. masked \in Seq(Byte) /\ Len(masked) = n /\ Len(masked) <= Size
      BY <2>1, FunctionIsSeq DEF Size
    <2>5. PICK sum : Sums(sum, masked) /\ ByteSum(masked) = sum[n]
      BY <2>4, ByteSumFacts
    <2>6. sum[0] = 0 /\ \A i \in 1..n : sum[i] = sum[i - 1] + masked[i]
      <3>1. \A i \in 1..Len(masked) : sum[i] = sum[i - 1] + masked[i]
        BY <2>4, <2>5, SumsUp
      <3>2. QED
        BY <2>4, <2>5, <3>1 DEF Sums
    <2>7. \A i \in 1..18 : i \in 1..n
      OBVIOUS
    <2>8. /\ sum[1] = sum[0] + masked[1] /\ sum[2] = sum[1] + masked[2]
          /\ sum[3] = sum[2] + masked[3] /\ sum[4] = sum[3] + masked[4]
          /\ sum[5] = sum[4] + masked[5] /\ sum[6] = sum[5] + masked[6]
      BY <2>6, <2>7
    <2>9. /\ sum[7] = sum[6] + masked[7] /\ sum[8] = sum[7] + masked[8]
      BY <2>6, <2>7
    <2>10. /\ sum[9] = sum[8] + masked[9] /\ sum[10] = sum[9] + masked[10]
           /\ sum[11] = sum[10] + masked[11]
           /\ sum[12] = sum[11] + masked[12]
           /\ sum[13] = sum[12] + masked[13]
      BY <2>6, <2>7
    <2>11. /\ sum[14] = sum[13] + masked[14]
           /\ sum[15] = sum[14] + masked[15]
           /\ sum[16] = sum[15] + masked[16]
           /\ sum[17] = sum[16] + masked[17]
           /\ sum[18] = sum[17] + masked[18]
      BY <2>6, <2>7
    <2>12. /\ masked[1] = image[1] /\ masked[2] = image[2]
           /\ masked[3] = image[3] /\ masked[4] = image[4]
           /\ masked[5] = image[5] /\ masked[6] = image[6]
      BY <2>2
    <2>13. /\ masked[7] = 0 /\ masked[8] = 0
      BY <2>2
    <2>14. /\ masked[9] = image[9] /\ masked[10] = image[10]
           /\ masked[11] = image[11] /\ masked[12] = image[12]
           /\ masked[13] = image[13]
      BY <2>2
    <2>15. /\ masked[14] = image[14] /\ masked[15] = image[15]
           /\ masked[16] = image[16] /\ masked[17] = image[17]
           /\ masked[18] = image[18]
      BY <2>2
    <2>16. /\ sum[1] \in Int /\ sum[6] \in Int /\ sum[7] \in Int
      <3>1. \A i \in 0..n : sum[i] \in Int
        BY <2>4, <2>5, WordRange DEF Sums
      <3>2. 1 \in 0..n /\ 6 \in 0..n /\ 7 \in 0..n
        OBVIOUS
      <3>3. QED
        BY <3>1, <3>2
    <2>17. sum[1] = image[1]
      <3>1. sum[1] = 0 + image[1] /\ image[1] \in Int
        BY <1>1, <2>6, <2>8, <2>12
      <3>2. QED
        BY <3>1
    <2>18. sum[6] = image[1] + image[2] + image[3] + image[4] + image[5] + image[6]
      BY <2>8, <2>12, <2>17, Zenon
    <2>19. sum[8] = sum[6]
      BY <2>9, <2>13, <2>16
    <2>20. sum[13] = sum[8] + image[9] + image[10] + image[11] + image[12] + image[13]
      BY <2>10, <2>14, Zenon
    <2>21. sum[18] = sum[13] + image[14] + image[15] + image[16] + image[17] + image[18]
      BY <2>11, <2>15, Zenon
    <2>22. sum[18] = BytesSum(image)
      BY <2>18, <2>19, <2>20, <2>21, Zenon DEF BytesSum
    <2>23. /\ n >= 19 => sum[19] = sum[18] + image[19]
           /\ n >= 20 => sum[20] = sum[19] + image[20]
      BY <2>2, <2>6
    <2>24. QED
      BY <2>3, <2>5, <2>22, <2>23
  <1>3. 18 \in 18..20 /\ 19 \in 18..20 /\ 20 \in 18..20
    OBVIOUS
  <1>4. Checksum(image, 18) = BytesSum(image)
    BY <1>2, <1>3
  <1>5. Checksum(image, 19) = BytesSum(image) + image[19]
    BY <1>2, <1>3
  <1>6. Checksum(image, 20) = BytesSum(image) + image[19] + image[20]
    BY <1>2, <1>3
  <1>7. QED
    BY <1>4, <1>5, <1>6

\* What the bytes of accepted values can be, at each place of the layout.
TrimValues == 0..100 \union 156..255
FieldValues == <<Bool, Bool, Bool, Bool, 14..20, 60..120, {0}, 60..120, {0},
                 TrimValues, TrimValues, Bool>>

\* An image of the present version, sound or not, of accepted values only.
Fit(image) ==
    /\ Version(image) = CONFIG_VERSION
    /\ \A i \in 1..12 : image[8 + i] \in FieldValues[i]

LEMMA AcceptedFields ==
    ASSUME NEW c, IsConfig(c)
    PROVE  /\ c.debugMode \in Bool /\ c.usbRelayEnabled \in Bool
           /\ c.radioEnabled \in Bool /\ c.skipRadioHandshake \in Bool
           /\ c.txPowerDbm \in 14..20 /\ c.gyroEnabled \in Bool
           /\ c.gimbalPitchOffset \in 60..120 /\ c.gimbalYawOffset \in 60..120
           /\ c.motor1offset \in -100..100 /\ c.motor2offset \in -100..100
  BY KeySet DEF IsConfig, Accepted

LEMMA AcceptedWord ==
    ASSUME NEW n \in 60..120
    PROVE  n % 256 = n /\ (n \div 256) % 256 = 0
  OBVIOUS

LEMMA AcceptedTrim ==
    ASSUME NEW n \in -100..100
    PROVE  n % 256 \in TrimValues
  BY DEF TrimValues

\* The twenty bytes of an accepted configuration, each named.
StoredBytes(image, c) ==
    /\ image[1] = 69 /\ image[2] = 82 /\ image[3] = 69 /\ image[4] = 65
    /\ image[5] = 3 /\ image[6] = 0
    /\ image[9] = c.debugMode /\ image[10] = c.usbRelayEnabled
    /\ image[11] = c.radioEnabled /\ image[12] = c.skipRadioHandshake
    /\ image[13] = c.txPowerDbm
    /\ image[14] = c.gimbalPitchOffset /\ image[15] = 0
    /\ image[16] = c.gimbalYawOffset /\ image[17] = 0
    /\ image[18] = c.motor1offset % 256 /\ image[19] = c.motor2offset % 256
    /\ image[20] = c.gyroEnabled

LEMMA StoredIsBytes ==
    ASSUME NEW c, IsConfig(c)
    PROVE  StoredBytes(Stored(c), c)
  <1> DEFINE f == FieldsV3(c)
             image == Stored(c)
  <1>1. c \in Holdable
    BY OwnersHoldable
  <1>2. f \in Seq(Byte) /\ CommonFields(f, 0, c) /\ f[12] = c.gyroEnabled /\ Len(f) = 12
    BY <1>1, FieldsV3Facts
  <1>3. Says(image, 3, f)
    <2>1. 3 \in 1..3
      OBVIOUS
    <2>2. QED
      BY <1>2, <2>1, ImageFacts DEF Stored, CONFIG_VERSION
  <1> HIDE DEF f, image
  <1>4. /\ f[1] = c.debugMode /\ f[2] = c.usbRelayEnabled
        /\ f[3] = c.radioEnabled /\ f[4] = c.skipRadioHandshake
        /\ f[5] = c.txPowerDbm /\ TrimBytes(f, 5, c)
    BY <1>2 DEF CommonFields
  <1>5. /\ f[6] = c.gimbalPitchOffset /\ f[7] = 0
        /\ f[8] = c.gimbalYawOffset /\ f[9] = 0
        /\ f[10] = c.motor1offset % 256 /\ f[11] = c.motor2offset % 256
    <2>1. /\ f[6] = c.gimbalPitchOffset % 256 /\ f[7] = (c.gimbalPitchOffset \div 256) % 256
          /\ f[8] = c.gimbalYawOffset % 256 /\ f[9] = (c.gimbalYawOffset \div 256) % 256
          /\ f[10] = c.motor1offset % 256 /\ f[11] = c.motor2offset % 256
      BY <1>4 DEF TrimBytes
    <2>2. QED
      BY <2>1, AcceptedFields, AcceptedWord
  <1>6. /\ image[1] = 69 /\ image[2] = 82 /\ image[3] = 69 /\ image[4] = 65
        /\ image[5] = 3 /\ image[6] = 0
    BY <1>3 DEF Says, Magic
  <1>7. /\ image[9] = f[1] /\ image[10] = f[2] /\ image[11] = f[3] /\ image[12] = f[4]
        /\ image[13] = f[5] /\ image[14] = f[6] /\ image[15] = f[7] /\ image[16] = f[8]
        /\ image[17] = f[9] /\ image[18] = f[10] /\ image[19] = f[11] /\ image[20] = f[12]
    <2>1. \A i \in 1..12 : image[8 + i] = f[i]
      BY <1>2, <1>3 DEF Says
    <2>2. QED
      BY <2>1
  <1>8. StoredBytes(image, c)
    BY <1>2, <1>4, <1>5, <1>6, <1>7 DEF StoredBytes
  <1>9. QED
    BY <1>8 DEF image

LEMMA StoredIsFit ==
    ASSUME NEW c, IsConfig(c)
    PROVE  Fit(Stored(c))
  <1> DEFINE image == Stored(c)
  <1>1. StoredBytes(image, c)
    BY StoredIsBytes
  <1> HIDE DEF image
  <1>2. Version(image) = CONFIG_VERSION
    BY <1>1 DEF StoredBytes, Version, WordAt, CONFIG_VERSION
  <1>3. /\ image[9] \in Bool /\ image[10] \in Bool /\ image[11] \in Bool
        /\ image[12] \in Bool /\ image[13] \in 14..20 /\ image[14] \in 60..120
        /\ image[15] \in {0} /\ image[16] \in 60..120 /\ image[17] \in {0}
        /\ image[18] \in TrimValues /\ image[19] \in TrimValues /\ image[20] \in Bool
    <2>1. /\ image[9] = c.debugMode /\ image[10] = c.usbRelayEnabled
          /\ image[11] = c.radioEnabled /\ image[12] = c.skipRadioHandshake
          /\ image[13] = c.txPowerDbm /\ image[20] = c.gyroEnabled
          /\ image[14] = c.gimbalPitchOffset /\ image[15] = 0
          /\ image[16] = c.gimbalYawOffset /\ image[17] = 0
      BY <1>1 DEF StoredBytes
    <2>2. image[18] = c.motor1offset % 256 /\ image[19] = c.motor2offset % 256
      BY <1>1 DEF StoredBytes
    <2>3. image[18] \in TrimValues /\ image[19] \in TrimValues
      <3>1. c.motor1offset \in -100..100 /\ c.motor2offset \in -100..100
        BY AcceptedFields
      <3>2. c.motor1offset % 256 \in TrimValues /\ c.motor2offset % 256 \in TrimValues
        BY <3>1, AcceptedTrim
      <3>3. QED
        BY <2>2, <3>2
    <2>4. QED
      BY <2>1, <2>3, AcceptedFields
  <1>4. ASSUME NEW i \in 1..12 PROVE image[8 + i] \in FieldValues[i]
    BY <1>3 DEF FieldValues
  <1>5. QED
    BY <1>2, <1>4 DEF Fit, image

LEMMA VersionBytes ==
    ASSUME NEW image \in Seq(Byte), Len(image) = Size, Version(image) = CONFIG_VERSION
    PROVE  image[5] = 3 /\ image[6] = 0
  <1> DEFINE low == image[5]
             high == image[6]
  <1>1. 5 \in 1..Len(image) /\ 6 \in 1..Len(image)
    BY DEF Size
  <1>2. low \in 0..255 /\ high \in 0..255
    BY <1>1, ElementOfSeq DEF Byte
  <1>3. low + 256 * high = 3
    BY DEF Version, WordAt, CONFIG_VERSION
  <1> HIDE DEF low, high
  <1>4. low = 3 /\ high = 0
    BY <1>2, <1>3
  <1>5. QED
    BY <1>4 DEF low, high

\* Being fit is a matter of each byte: it survives any tearing.
LEMMA MixedIsFit ==
    ASSUME NEW torn, NEW new, NEW image, NEW written \in 0..Size - 1,
           Mixed(torn, new, image, written), Fit(new), Fit(image),
           new \in Seq(Byte), Len(new) = Size, image \in Seq(Byte), Len(image) = Size
    PROVE  Fit(torn)
  <1>1. \A i \in 1..20 : torn[i] = IF i <= written THEN new[i] ELSE image[i]
    BY DEF Mixed, Size
  <1>2. new[5] = 3 /\ new[6] = 0 /\ image[5] = 3 /\ image[6] = 0
    BY VersionBytes DEF Fit
  <1>3. Version(torn) = CONFIG_VERSION
    <2>1. 5 \in 1..20 /\ 6 \in 1..20
      OBVIOUS
    <2>2. torn[5] = 3 /\ torn[6] = 0
      BY <1>1, <1>2, <2>1
    <2>3. QED
      BY <2>2 DEF Version, WordAt, CONFIG_VERSION
  <1>4. ASSUME NEW i \in 1..12 PROVE torn[8 + i] \in FieldValues[i]
    <2>1. 8 + i \in 1..20
      OBVIOUS
    <2>2. new[8 + i] \in FieldValues[i] /\ image[8 + i] \in FieldValues[i]
      BY DEF Fit
    <2>3. QED
      BY <1>1, <2>1, <2>2
  <1>5. QED
    BY <1>3, <1>4 DEF Fit

\* What is read from a fit image is accepted.
LEMMA FitIsAccepted ==
    ASSUME NEW image, Fit(image)
    PROVE  IsConfig(ReadV3(image))
  <1> DEFINE c == ReadV3(image)
  <1>1. \A i \in 1..12 : image[8 + i] \in FieldValues[i]
    BY DEF Fit
  <1>2. /\ image[9] \in Bool /\ image[10] \in Bool /\ image[11] \in Bool
        /\ image[12] \in Bool /\ image[13] \in 14..20 /\ image[14] \in 60..120
        /\ image[15] \in {0} /\ image[16] \in 60..120 /\ image[17] \in {0}
        /\ image[18] \in TrimValues /\ image[19] \in TrimValues /\ image[20] \in Bool
    <2>1. /\ image[8 + 1] \in FieldValues[1] /\ image[8 + 2] \in FieldValues[2]
          /\ image[8 + 3] \in FieldValues[3] /\ image[8 + 4] \in FieldValues[4]
          /\ image[8 + 5] \in FieldValues[5] /\ image[8 + 6] \in FieldValues[6]
          /\ image[8 + 7] \in FieldValues[7] /\ image[8 + 8] \in FieldValues[8]
          /\ image[8 + 9] \in FieldValues[9] /\ image[8 + 10] \in FieldValues[10]
          /\ image[8 + 11] \in FieldValues[11] /\ image[8 + 12] \in FieldValues[12]
      BY <1>1
    <2>2. QED
      BY <2>1 DEF FieldValues
  <1>3. TrimAt(image, 13) \in 60..120 /\ TrimAt(image, 15) \in 60..120
    BY <1>2 DEF TrimAt, WordAt, Signed
  <1>4. SignedAt(image, 17) \in -100..100 /\ SignedAt(image, 18) \in -100..100
    BY <1>2 DEF SignedAt, Signed, TrimValues
  <1>5. c = [debugMode |-> image[9], usbRelayEnabled |-> image[10],
             radioEnabled |-> image[11], skipRadioHandshake |-> image[12],
             txPowerDbm |-> image[13], gimbalPitchOffset |-> TrimAt(image, 13),
             gimbalYawOffset |-> TrimAt(image, 15),
             motor1offset |-> SignedAt(image, 17), motor2offset |-> SignedAt(image, 18),
             gyroEnabled |-> image[20]]
    BY DEF ReadV3, ReadFields
  <1> HIDE DEF c
  <1>6. \A key \in Keys : c[key] \in Accepted[key]
    BY <1>2, <1>3, <1>4, <1>5, KeySet DEF Accepted
  <1>7. c \in [Keys -> Int]
    <2>1. \A key \in Keys : c[key] \in Int
      BY <1>6, AcceptedIsHeld
    <2>2. QED
      BY <1>5, <2>1, KeySet
  <1>8. QED
    BY <1>6, <1>7 DEF IsConfig, c

\* The lower byte of the defaults' checksum.
DefaultsCrc == 235

High(n) == n \div 256
Low(n) == n % 256

\* A sum that the crc field's bytes do not hold, nor would if the defaults' lower
\* byte were put there.
Differs(sum, low, high) == High(sum) # high \/ Low(sum) \notin {low, DefaultsCrc}

\* An image that holds no configuration, and will not seem to hold one however
\* often the defaults are written over it in part: its last byte is still an
\* erased one, and either the checksum's upper byte is too or the bytes do not
\* add up to it.
Lost(image) ==
    /\ image[20] = 255 /\ Version(image) \notin 1..2
    /\ \/ image[8] = 255
       \/ /\ \A i \in 1..4 : image[i] = Magic[i]
          /\ Version(image) = CONFIG_VERSION
          /\ Differs(Checksum(image, Size), image[7], image[8])

\* The bytes behind its head.
BodySum(image) ==
    image[9] + image[10] + image[11] + image[12] + image[13] + image[14]
      + image[15] + image[16] + image[17] + image[18] + image[19] + image[20]

\* The sum of all its bytes, if its head is that of the present version.
Total(image) == 288 + BodySum(image)

HeadBytes(image) ==
    /\ image[1] = 69 /\ image[2] = 82 /\ image[3] = 69 /\ image[4] = 65
    /\ image[5] = 3 /\ image[6] = 0

LEMMA ImageBytes ==
    ASSUME NEW image \in Seq(Byte), Len(image) = Size
    PROVE  \A i \in 1..20 : image[i] \in 0..255 /\ image[i] \in Int
  <1>1. \A i \in 1..20 : image[i] \in Byte
    BY ElementOfSeq DEF Size
  <1>2. \A b \in Byte : b \in 0..255 /\ b \in Int
    BY DEF Byte
  <1>3. QED
    BY <1>1, <1>2

LEMMA ChecksumOfBody ==
    ASSUME NEW image \in Seq(Byte), Len(image) = Size, HeadBytes(image)
    PROVE  Checksum(image, Size) = Total(image)
  <1> DEFINE a == image[9]
             b == image[10]
             c == image[11]
             d == image[12]
             e == image[13]
             f == image[14]
             g == image[15]
             h == image[16]
             i == image[17]
             j == image[18]
             k == image[19]
             l == image[20]
  <1>1. /\ a \in Int /\ b \in Int /\ c \in Int /\ d \in Int
        /\ e \in Int /\ f \in Int /\ g \in Int /\ h \in Int
        /\ i \in Int /\ j \in Int /\ k \in Int /\ l \in Int
    <2>1. \A n \in 1..20 : image[n] \in Int
      BY ImageBytes
    <2>2. /\ 9 \in 1..20 /\ 10 \in 1..20 /\ 11 \in 1..20 /\ 12 \in 1..20
          /\ 13 \in 1..20 /\ 14 \in 1..20 /\ 15 \in 1..20 /\ 16 \in 1..20
          /\ 17 \in 1..20 /\ 18 \in 1..20 /\ 19 \in 1..20 /\ 20 \in 1..20
      OBVIOUS
    <2>3. QED
      BY <2>1, <2>2, Zenon
  <1>2. Checksum(image, Size) = BytesSum(image) + k + l
    BY ChecksumOfBytes DEF Size
  <1>3. BytesSum(image)
          = 69 + 82 + 69 + 65 + 3 + 0 + a + b + c + d + e + f + g + h + i + j
    BY Zenon DEF HeadBytes, BytesSum
  <1>4. BodySum(image) = a + b + c + d + e + f + g + h + i + j + k + l
    BY Zenon DEF BodySum
  <1> HIDE DEF a, b, c, d, e, f, g, h, i, j, k, l
  <1>5. 69 + 82 + 69 + 65 + 3 + 0 + a + b + c + d + e + f + g + h + i + j + k + l
          = 288 + (a + b + c + d + e + f + g + h + i + j + k + l)
    BY <1>1
  <1>6. QED
    BY <1>2, <1>3, <1>4, <1>5, Zenon DEF Total

LEMMA HeadIsThere ==
    ASSUME NEW image \in Seq(Byte), Len(image) = Size,
           \A i \in 1..4 : image[i] = Magic[i], Version(image) = CONFIG_VERSION
    PROVE  HeadBytes(image)
  <1>1. image[5] = 3 /\ image[6] = 0
    BY VersionBytes
  <1>2. image[1] = 69 /\ image[2] = 82 /\ image[3] = 69 /\ image[4] = 65
    BY DEF Magic
  <1>3. QED
    BY <1>1, <1>2 DEF HeadBytes

\* Twelve bytes add up to 3060 at most, with an erased one among them to 255 at least.
Totals(last) == {n \in Int : n <= 3348 /\ n >= IF last = 255 THEN 543 ELSE 288}

LEMMA TotalRange ==
    ASSUME NEW image \in Seq(Byte), Len(image) = Size
    PROVE  Total(image) \in Totals(image[20])
  <1> DEFINE a == image[9]
             b == image[10]
             c == image[11]
             d == image[12]
             e == image[13]
             f == image[14]
             g == image[15]
             h == image[16]
             i == image[17]
             j == image[18]
             k == image[19]
             l == image[20]
  <1>1. /\ a \in 0..255 /\ b \in 0..255 /\ c \in 0..255 /\ d \in 0..255
        /\ e \in 0..255 /\ f \in 0..255 /\ g \in 0..255 /\ h \in 0..255
        /\ i \in 0..255 /\ j \in 0..255 /\ k \in 0..255 /\ l \in 0..255
    <2>1. \A n \in 1..20 : image[n] \in Byte
      BY ElementOfSeq DEF Size
    <2>2. /\ 9 \in 1..20 /\ 10 \in 1..20 /\ 11 \in 1..20 /\ 12 \in 1..20
          /\ 13 \in 1..20 /\ 14 \in 1..20 /\ 15 \in 1..20 /\ 16 \in 1..20
          /\ 17 \in 1..20 /\ 18 \in 1..20 /\ 19 \in 1..20 /\ 20 \in 1..20
      OBVIOUS
    <2>3. /\ a \in Byte /\ b \in Byte /\ c \in Byte /\ d \in Byte
          /\ e \in Byte /\ f \in Byte /\ g \in Byte /\ h \in Byte
          /\ i \in Byte /\ j \in Byte /\ k \in Byte /\ l \in Byte
      BY <2>1, <2>2, Zenon
    <2>4. QED
      BY <2>3, Zenon DEF Byte
  <1>2. BodySum(image) = a + b + c + d + e + f + g + h + i + j + k + l
    BY Zenon DEF BodySum
  <1> DEFINE sum == a + b + c + d + e + f + g + h + i + j + k + l
  <1>3. 288 + sum \in Totals(l)
    <2> HIDE DEF a, b, c, d, e, f, g, h, i, j, k, l
    <2>1. QED
      BY <1>1 DEF Totals
  <1>4. QED
    <2> HIDE DEF sum
    <2>1. BodySum(image) = sum
      BY <1>2 DEF sum
    <2>2. QED
      BY <1>3, <2>1, Zenon DEF Total

LEMMA WordSplit ==
    ASSUME NEW low \in Byte, NEW high \in Byte, NEW word, word = low + 256 * high
    PROVE  High(word) = high /\ Low(word) = low
  BY DEF Byte, High, Low

\* The two bytes of the crc field are those of the word in it.
LEMMA CrcSplit ==
    ASSUME NEW image \in Seq(Byte), Len(image) = Size
    PROVE  High(WordAt(image, 6)) = image[8] /\ Low(WordAt(image, 6)) = image[7]
  <1> DEFINE low == image[7]
             high == image[8]
  <1>1. 7 \in 1..Len(image) /\ 8 \in 1..Len(image)
    BY DEF Size
  <1>2. low \in Byte /\ high \in Byte
    BY <1>1, ElementOfSeq
  <1>3. WordAt(image, 6) = low + 256 * high
    BY DEF WordAt
  <1> HIDE DEF low, high
  <1>4. High(WordAt(image, 6)) = high /\ Low(WordAt(image, 6)) = low
    BY <1>2, <1>3, WordSplit
  <1>5. QED
    BY <1>4 DEF low, high

LEMMA SmallSum ==
    ASSUME NEW last, NEW total \in Totals(last)
    PROVE  High(total) # 255
  BY DEF Totals, High

\* A sound image of the present version holds its sum, byte by byte.
LEMMA SoundBytes ==
    ASSUME NEW image \in Seq(Byte), Len(image) = Size, Sound(image, Size),
           Version(image) = CONFIG_VERSION
    PROVE  /\ HeadBytes(image)
           /\ High(Total(image)) = image[8]
           /\ Low(Total(image)) = image[7]
  <1>1. HeadBytes(image)
    BY HeadIsThere DEF Sound
  <1>2. WordAt(image, 6) = Total(image)
    BY <1>1, ChecksumOfBody DEF Sound
  <1>3. QED
    BY <1>1, <1>2, CrcSplit

\* Nothing is found in a lost image: the boot takes the defaults.
LEMMA NothingInLost ==
    ASSUME NEW image \in Seq(Byte), Len(image) = Size, Lost(image)
    PROVE  /\ ~(Version(image) = CONFIG_VERSION /\ Sound(image, Size))
           /\ Migrated(image) = defaults
  <1>1. ASSUME Version(image) = CONFIG_VERSION, Sound(image, Size) PROVE FALSE
    <2>1. /\ HeadBytes(image)
          /\ High(Total(image)) = image[8]
          /\ Low(Total(image)) = image[7]
      BY <1>1, SoundBytes
    <2>2. image[8] # 255
      <3>1. High(Total(image)) # 255
        BY TotalRange, SmallSum
      <3>2. QED
        BY <2>1, <3>1, Zenon
    <2>3. Differs(Total(image), image[7], image[8])
      BY <2>1, <2>2, ChecksumOfBody DEF Lost
    <2>4. QED
      BY <2>1, <2>3 DEF Differs
  <1>2. Migrated(image) = defaults
    <2>1. Version(image) # 1 /\ Version(image) # 2
      BY DEF Lost
    <2>2. QED
      BY <2>1 DEF Migrated
  <1>3. QED
    BY <1>1, <1>2

LEMMA ErasedIsLost == Lost(Padded(<<>>))
  <1> DEFINE image == Padded(<<>>)
  <1>1. Len(<<>>) = 0
    BY EmptySeq
  <1>2. image[5] = 255 /\ image[6] = 255 /\ image[8] = 255 /\ image[20] = 255
    BY <1>1 DEF Padded, Size
  <1> HIDE DEF image
  <1>3. Version(image) \notin 1..2
    BY <1>2 DEF Version, WordAt
  <1>4. Lost(image)
    BY <1>2, <1>3 DEF Lost
  <1>5. QED
    BY <1>4 DEF image

LEMMA StoredHead ==
    ASSUME NEW c, IsConfig(c)
    PROVE  /\ Stored(c) \in Seq(Byte) /\ Len(Stored(c)) = Size
           /\ HeadBytes(Stored(c)) /\ StoredBytes(Stored(c), c)
           /\ High(Total(Stored(c))) = Stored(c)[8]
           /\ Low(Total(Stored(c))) = Stored(c)[7]
  <1> DEFINE image == Stored(c)
  <1>1. c \in Holdable
    BY OwnersHoldable
  <1>2. /\ image \in Seq(Byte) /\ Len(image) = Size
        /\ Version(image) = CONFIG_VERSION /\ Sound(image, Size)
    BY <1>1, StoredFacts
  <1>3. StoredBytes(image, c)
    BY StoredIsBytes
  <1> HIDE DEF image
  <1>4. /\ HeadBytes(image)
        /\ High(Total(image)) = image[8] /\ Low(Total(image)) = image[7]
    BY <1>2, SoundBytes
  <1>5. QED
    BY <1>2, <1>3, <1>4 DEF image

LEMMA DefaultsStored ==
    Stored(defaults)[7] = DefaultsCrc /\ Stored(defaults)[8] = 1
  <1> DEFINE image == Stored(defaults)
  <1>1. /\ High(Total(image)) = image[8] /\ Low(Total(image)) = image[7]
        /\ StoredBytes(image, defaults)
    BY DefaultsHoldable, StoredHead
  <1> HIDE DEF image
  <1>2. /\ image[9] = 0 /\ image[10] = 1 /\ image[11] = 1 /\ image[12] = 1
        /\ image[13] = 20 /\ image[14] = 90 /\ image[15] = 0 /\ image[16] = 89
        /\ image[17] = 0 /\ image[18] = 0 /\ image[19] = 0 /\ image[20] = 1
    BY <1>1 DEF StoredBytes, defaults
  <1>3. Total(image) = 491
    BY <1>2 DEF Total, BodySum
  <1>4. High(491) = 1 /\ Low(491) = 235
    BY DEF High, Low
  <1>5. image[7] = DefaultsCrc /\ image[8] = 1
    BY <1>1, <1>3, <1>4 DEF DefaultsCrc
  <1>6. QED
    BY <1>5 DEF image

LEMMA TotalOfBody ==
    ASSUME NEW one, NEW other, \A i \in 9..20 : one[i] = other[i]
    PROVE  Total(one) = Total(other)
  <1>1. /\ one[9] = other[9] /\ one[10] = other[10] /\ one[11] = other[11]
        /\ one[12] = other[12] /\ one[13] = other[13] /\ one[14] = other[14]
    OBVIOUS
  <1>2. /\ one[15] = other[15] /\ one[16] = other[16] /\ one[17] = other[17]
        /\ one[18] = other[18] /\ one[19] = other[19] /\ one[20] = other[20]
    OBVIOUS
  <1>3. QED
    BY <1>1, <1>2, Zenon DEF Total, BodySum

LEMMA LargeSum ==
    ASSUME NEW total \in Totals(255)
    PROVE  High(total) # 1
  BY DEF Totals, High

LEMMA LaterVersion ==
    ASSUME NEW high \in Byte
    PROVE  3 + 256 * high \notin 1..2
  BY DEF Byte

\* The same byte by byte.
From(torn, new, image, written, i) ==
    torn[i] = IF i <= written THEN new[i] ELSE image[i]

TornHead(torn, new, image, written) ==
    /\ From(torn, new, image, written, 1) /\ From(torn, new, image, written, 2)
    /\ From(torn, new, image, written, 3) /\ From(torn, new, image, written, 4)
    /\ From(torn, new, image, written, 5) /\ From(torn, new, image, written, 6)
    /\ From(torn, new, image, written, 7) /\ From(torn, new, image, written, 8)

TornBody(torn, new, image, written) ==
    /\ From(torn, new, image, written, 9) /\ From(torn, new, image, written, 10)
    /\ From(torn, new, image, written, 11) /\ From(torn, new, image, written, 12)
    /\ From(torn, new, image, written, 13) /\ From(torn, new, image, written, 14)
    /\ From(torn, new, image, written, 15) /\ From(torn, new, image, written, 16)
    /\ From(torn, new, image, written, 17) /\ From(torn, new, image, written, 18)
    /\ From(torn, new, image, written, 19) /\ From(torn, new, image, written, 20)

LEMMA MixedBytes ==
    ASSUME NEW torn, NEW new, NEW image, NEW written,
           Mixed(torn, new, image, written)
    PROVE  TornHead(torn, new, image, written) /\ TornBody(torn, new, image, written)
  <1>1. \A i \in 1..20 : From(torn, new, image, written, i)
    BY DEF Mixed, Size, From
  <1>2. /\ 1 \in 1..20 /\ 2 \in 1..20 /\ 3 \in 1..20 /\ 4 \in 1..20
        /\ 5 \in 1..20 /\ 6 \in 1..20 /\ 7 \in 1..20 /\ 8 \in 1..20
    OBVIOUS
  <1>3. /\ 9 \in 1..20 /\ 10 \in 1..20 /\ 11 \in 1..20 /\ 12 \in 1..20
        /\ 13 \in 1..20 /\ 14 \in 1..20 /\ 15 \in 1..20 /\ 16 \in 1..20
        /\ 17 \in 1..20 /\ 18 \in 1..20 /\ 19 \in 1..20 /\ 20 \in 1..20
    OBVIOUS
  <1>4. TornHead(torn, new, image, written)
    BY <1>1, <1>2, Zenon DEF TornHead
  <1>5. TornBody(torn, new, image, written)
    BY <1>1, <1>3, Zenon DEF TornBody
  <1>6. QED
    BY <1>4, <1>5

\* A lost image stays lost while the defaults are written over it and the power
\* fails again: the checksum is in place before the bytes that it covers.
LEMMA LostStaysLost ==
    ASSUME NEW image \in Seq(Byte), Len(image) = Size, Lost(image),
           NEW torn, NEW written \in 0..Size - 1,
           Mixed(torn, Stored(defaults), image, written)
    PROVE  Lost(torn)
  <1> DEFINE new == Stored(defaults)
  <1>1. /\ TornHead(torn, new, image, written) /\ TornBody(torn, new, image, written)
    BY MixedBytes
  <1>2. /\ HeadBytes(new) /\ new[7] = DefaultsCrc /\ new[8] = 1
    BY DefaultsHoldable, StoredHead, DefaultsStored
  <1>3. torn \in Seq(Byte) /\ Len(torn) = Size /\ written \in 0..19
    BY DEF Mixed, Size
  <1> HIDE DEF new
  <1>4. torn[6] \in Byte
    <2>1. 6 \in 1..Size
      BY DEF Size
    <2>2. QED
      BY <1>3, <2>1, ElementOfSeq
  <1>5. torn[20] = 255
    BY <1>1, <1>3 DEF Lost, TornBody, From
  <1>6. Version(torn) \notin 1..2
    <2>1. CASE written <= 4
      <3>1. torn[5] = image[5] /\ torn[6] = image[6]
        BY <1>1, <1>3, <2>1 DEF TornHead, From
      <3>2. QED
        BY <3>1 DEF Lost, Version, WordAt
    <2>2. CASE written >= 5
      <3>1. torn[5] = 3 /\ torn[6] \in Byte
        BY <1>1, <1>2, <1>4, <2>2 DEF HeadBytes, TornHead, From
      <3>2. 3 + 256 * torn[6] \notin 1..2
        BY <3>1, LaterVersion
      <3>3. QED
        BY <3>1, <3>2 DEF Version, WordAt
    <2>3. QED
      BY <1>3, <2>1, <2>2
  <1>7. CASE written >= 8
    <2>1. HeadBytes(torn) /\ torn[7] = DefaultsCrc /\ torn[8] = 1
      BY <1>1, <1>2, <1>3, <1>7 DEF HeadBytes, TornHead, From
    <2>2. Checksum(torn, Size) = Total(torn)
      BY <1>3, <2>1, ChecksumOfBody
    <2>3. High(Total(torn)) # 1
      BY <1>3, <1>5, TotalRange, LargeSum
    <2>4. Differs(Checksum(torn, Size), torn[7], torn[8])
      BY <2>1, <2>2, <2>3 DEF Differs
    <2>5. (\A i \in 1..4 : torn[i] = Magic[i]) /\ Version(torn) = CONFIG_VERSION
      BY <2>1 DEF HeadBytes, Magic, Version, WordAt, CONFIG_VERSION
    <2>6. QED
      BY <1>5, <1>6, <2>4, <2>5 DEF Lost
  <1>8. CASE written < 8 /\ image[8] = 255
    <2>1. torn[8] = 255
      BY <1>1, <1>3, <1>8 DEF TornHead, From
    <2>2. QED
      BY <1>5, <1>6, <2>1 DEF Lost
  <1>9. CASE /\ written < 8
             /\ \A i \in 1..4 : image[i] = Magic[i]
             /\ Version(image) = CONFIG_VERSION
             /\ Differs(Checksum(image, Size), image[7], image[8])
    <2>1. HeadBytes(image)
      BY <1>9, HeadIsThere
    <2>2. HeadBytes(torn)
      BY <1>1, <1>2, <2>1 DEF HeadBytes, TornHead, From
    <2>3. /\ torn[7] \in {image[7], DefaultsCrc} /\ torn[8] = image[8]
          /\ \A i \in 9..20 : torn[i] = image[i]
      <3>1. torn[7] \in {image[7], DefaultsCrc} /\ torn[8] = image[8]
        BY <1>1, <1>2, <1>3, <1>9 DEF TornHead, From
      <3>2. \A i \in 9..20 : torn[i] = image[i]
        BY <1>3, <1>9 DEF Mixed, Size
      <3>3. QED
        BY <3>1, <3>2
    <2>4. Checksum(torn, Size) = Checksum(image, Size)
      BY <1>3, <2>1, <2>2, <2>3, TotalOfBody, ChecksumOfBody
    <2>5. Differs(Checksum(torn, Size), torn[7], torn[8])
      BY <1>9, <2>3, <2>4 DEF Differs
    <2>6. (\A i \in 1..4 : torn[i] = Magic[i]) /\ Version(torn) = CONFIG_VERSION
      BY <2>2 DEF HeadBytes, Magic, Version, WordAt, CONFIG_VERSION
    <2>7. QED
      BY <1>5, <1>6, <2>5, <2>6 DEF Lost
  <1>10. QED
    BY <1>3, <1>7, <1>8, <1>9 DEF Lost

\* The image that migrate() finds under version 2, and the one it writes for it.
Twins2(image, new) ==
    /\ image[1] = 69 /\ image[2] = 82 /\ image[3] = 69 /\ image[4] = 65
    /\ image[5] = 2 /\ image[6] = 0
    /\ image[9] = new[9] /\ image[10] = new[10] /\ image[11] = new[11]
    /\ image[12] = new[12] /\ image[13] = new[13] /\ image[14] = new[14]
    /\ image[15] = new[15] /\ image[16] = new[16] /\ image[17] = new[17]
    /\ image[18] = new[18] /\ image[19] = new[19]
    /\ image[20] = 255 /\ new[20] = 1
    /\ image[7] + 256 * image[8] = BytesSum(image) + image[19]

\* The same under version 1: the power of the radio has moved, and the trims with it.
Twins1(image, new) ==
    /\ image[1] = 69 /\ image[2] = 82 /\ image[3] = 69 /\ image[4] = 65
    /\ image[5] = 1 /\ image[6] = 0
    /\ image[9] = new[13] /\ image[10] = new[10] /\ image[11] = new[11]
    /\ image[12] = new[12] /\ image[13] = new[14] /\ image[14] = 0
    /\ image[15] = new[16] /\ image[16] = 0 /\ image[17] = new[18]
    /\ image[18] = new[19] /\ image[19] = 255 /\ image[20] = 255
    /\ new[9] = 0 /\ new[15] = 0 /\ new[17] = 0 /\ new[20] = 1
    /\ image[7] + 256 * image[8] = BytesSum(image)

LEMMA UpgradedFields ==
    ASSUME NEW c, IsConfig(c), NEW version \in 1..2
    PROVE  LET u == Upgraded(c, version)
           IN  /\ IsConfig(u) /\ u.gyroEnabled = 1
               /\ u.debugMode = IF version = 1 THEN 0 ELSE c.debugMode
               /\ u.usbRelayEnabled = c.usbRelayEnabled
               /\ u.radioEnabled = c.radioEnabled
               /\ u.skipRadioHandshake = c.skipRadioHandshake
               /\ u.txPowerDbm = c.txPowerDbm
               /\ u.gimbalPitchOffset = c.gimbalPitchOffset
               /\ u.gimbalYawOffset = c.gimbalYawOffset
               /\ u.motor1offset = c.motor1offset
               /\ u.motor2offset = c.motor2offset
  <1> DEFINE u == Upgraded(c, version)
  <1>1. u = IF version = 1
            THEN [c EXCEPT !.debugMode = 0, !.gyroEnabled = 1]
            ELSE [c EXCEPT !.gyroEnabled = 1]
    <2>1. defaults.debugMode = 0 /\ defaults.gyroEnabled = 1
      BY DEF defaults
    <2>2. CASE version = 1
      BY <2>1, <2>2 DEF Upgraded
    <2>3. CASE version = 2
      BY <2>1, <2>3 DEF Upgraded
    <2>4. QED
      BY <2>2, <2>3
  <1> HIDE DEF u
  <1>2. c \in [Keys -> Int] /\ \A key \in Keys : c[key] \in Accepted[key]
    BY DEF IsConfig
  <1>3. 0 \in Accepted["debugMode"] /\ 1 \in Accepted["gyroEnabled"]
    BY DEF Accepted, Bool
  <1>4. u \in [Keys -> Int] /\ \A key \in Keys : u[key] \in Accepted[key]
    <2>1. u \in [Keys -> Int]
      <3>1. [c EXCEPT !.gyroEnabled = 1] \in [Keys -> Int]
        BY <1>2
      <3>2. [c EXCEPT !.debugMode = 0, !.gyroEnabled = 1] \in [Keys -> Int]
        <4> DEFINE d == [c EXCEPT !.debugMode = 0]
        <4>1. d \in [Keys -> Int]
          BY <1>2
        <4>2. [d EXCEPT !.gyroEnabled = 1] \in [Keys -> Int]
          <5> HIDE DEF d
          <5>1. QED
            BY <4>1
        <4>3. QED
          BY <4>2
      <3>3. QED
        BY <1>1, <3>1, <3>2
    <2>2. \A key \in Keys : \/ u[key] = c[key]
                            \/ key = "debugMode" /\ u[key] = 0
                            \/ key = "gyroEnabled" /\ u[key] = 1
      BY <1>1, <1>2
    <2>3. QED
      BY <1>2, <1>3, <2>1, <2>2
  <1>5. /\ u.gyroEnabled = 1
        /\ u.debugMode = IF version = 1 THEN 0 ELSE c.debugMode
        /\ u.usbRelayEnabled = c.usbRelayEnabled
        /\ u.radioEnabled = c.radioEnabled
        /\ u.skipRadioHandshake = c.skipRadioHandshake
        /\ u.txPowerDbm = c.txPowerDbm
        /\ u.gimbalPitchOffset = c.gimbalPitchOffset
        /\ u.gimbalYawOffset = c.gimbalYawOffset
        /\ u.motor1offset = c.motor1offset
        /\ u.motor2offset = c.motor2offset
    BY <1>1, <1>2, KeySet
  <1>6. QED
    BY <1>4, <1>5 DEF u, IsConfig

LEMMA TrimBytesAre ==
    ASSUME NEW c, IsConfig(c), NEW s, NEW at, TrimBytes(s, at, c)
    PROVE  /\ s[at + 1] = c.gimbalPitchOffset /\ s[at + 2] = 0
           /\ s[at + 3] = c.gimbalYawOffset /\ s[at + 4] = 0
           /\ s[at + 5] = c.motor1offset % 256 /\ s[at + 6] = c.motor2offset % 256
  <1>1. c.gimbalPitchOffset \in 60..120 /\ c.gimbalYawOffset \in 60..120
    BY AcceptedFields
  <1>2. QED
    BY <1>1, AcceptedWord DEF TrimBytes

LEMMA TwinsOf2 ==
    ASSUME NEW c, IsConfig(c)
    PROVE  Twins2(Padded(Image(2, FieldsV2(c))), Stored(Upgraded(c, 2)))
  <1> DEFINE f == FieldsV2(c)
             written == Image(2, f)
             image == Padded(written)
             u == Upgraded(c, 2)
             new == Stored(u)
  <1>1. c \in Holdable /\ 2 \in 1..3 /\ 2 \in 1..2
    BY OwnersHoldable
  <1>2. f \in Seq(Byte) /\ Len(f) = 11 /\ CommonFields(f, 0, c)
    BY <1>1, FieldsV2Facts
  <1>3. /\ IsConfig(u) /\ u.gyroEnabled = 1
        /\ u.debugMode = c.debugMode /\ u.usbRelayEnabled = c.usbRelayEnabled
        /\ u.radioEnabled = c.radioEnabled
        /\ u.skipRadioHandshake = c.skipRadioHandshake
        /\ u.txPowerDbm = c.txPowerDbm
        /\ u.gimbalPitchOffset = c.gimbalPitchOffset
        /\ u.gimbalYawOffset = c.gimbalYawOffset
        /\ u.motor1offset = c.motor1offset
        /\ u.motor2offset = c.motor2offset
    BY <1>1, UpgradedFields
  <1> HIDE DEF f, u
  <1>4. StoredBytes(new, u)
    BY <1>3, StoredIsBytes
  <1>5. 8 + Len(f) = 19 /\ 8 + Len(f) <= Size
    BY <1>2 DEF Size
  <1>6. /\ image \in Seq(Byte) /\ Len(image) = Size
        /\ Says(image, 2, f) /\ Sound(image, 19)
    BY <1>1, <1>2, <1>5, SavedImage
  <1>7. image[20] = 255
    <2>1. Len(written) = 19
      BY <1>1, <1>2, <1>5, ImageFacts
    <2> HIDE DEF written
    <2>2. QED
      BY <2>1 DEF Padded, Size
  <1> HIDE DEF image, new, written
  <1>8. /\ f[1] = c.debugMode /\ f[2] = c.usbRelayEnabled
        /\ f[3] = c.radioEnabled /\ f[4] = c.skipRadioHandshake
        /\ f[5] = c.txPowerDbm /\ TrimBytes(f, 5, c)
    BY <1>2 DEF CommonFields
  <1>9. /\ f[6] = c.gimbalPitchOffset /\ f[7] = 0
        /\ f[8] = c.gimbalYawOffset /\ f[9] = 0
        /\ f[10] = c.motor1offset % 256 /\ f[11] = c.motor2offset % 256
    <2>1. /\ f[5 + 1] = c.gimbalPitchOffset /\ f[5 + 2] = 0
          /\ f[5 + 3] = c.gimbalYawOffset /\ f[5 + 4] = 0
          /\ f[5 + 5] = c.motor1offset % 256 /\ f[5 + 6] = c.motor2offset % 256
      BY <1>8, TrimBytesAre
    <2>2. QED
      BY <2>1
  <1>10. /\ image[1] = 69 /\ image[2] = 82 /\ image[3] = 69 /\ image[4] = 65
         /\ image[5] = 2 /\ image[6] = 0
    BY <1>6 DEF Says, Magic
  <1>11. /\ image[9] = f[1] /\ image[10] = f[2] /\ image[11] = f[3] /\ image[12] = f[4]
         /\ image[13] = f[5] /\ image[14] = f[6] /\ image[15] = f[7] /\ image[16] = f[8]
         /\ image[17] = f[9] /\ image[18] = f[10] /\ image[19] = f[11]
    <2>1. \A i \in 1..11 : image[8 + i] = f[i]
      BY <1>2, <1>6 DEF Says
    <2>2. QED
      BY <2>1
  <1>12. image[7] + 256 * image[8] = BytesSum(image) + image[19]
    BY <1>6, ChecksumOfBytes DEF Sound, WordAt
  <1>13. /\ image[9] = new[9] /\ image[10] = new[10] /\ image[11] = new[11]
         /\ image[12] = new[12] /\ image[13] = new[13] /\ new[20] = 1
    BY <1>3, <1>4, <1>8, <1>11 DEF StoredBytes
  <1>14. /\ image[14] = new[14] /\ image[15] = new[15] /\ image[16] = new[16]
         /\ image[17] = new[17]
    BY <1>3, <1>4, <1>9, <1>11 DEF StoredBytes
  <1>15. image[18] = new[18] /\ image[19] = new[19]
    <2>1. new[18] = u.motor1offset % 256 /\ new[19] = u.motor2offset % 256
      BY <1>4, Zenon DEF StoredBytes
    <2>2. image[18] = c.motor1offset % 256 /\ image[19] = c.motor2offset % 256
      BY <1>9, <1>11, Zenon
    <2>3. /\ u.motor1offset % 256 = c.motor1offset % 256
          /\ u.motor2offset % 256 = c.motor2offset % 256
      BY <1>3
    <2>4. QED
      BY <2>1, <2>2, <2>3
  <1>16. Twins2(image, new)
    BY <1>7, <1>10, <1>12, <1>13, <1>14, <1>15 DEF Twins2
  <1>17. QED
    BY <1>16 DEF image, new, written, f, u

LEMMA TwinsOf1 ==
    ASSUME NEW c, IsConfig(c)
    PROVE  Twins1(Padded(Image(1, FieldsV1(c))), Stored(Upgraded(c, 1)))
  <1> DEFINE f == FieldsV1(c)
             written == Image(1, f)
             image == Padded(written)
             u == Upgraded(c, 1)
             new == Stored(u)
  <1>1. c \in Holdable /\ 1 \in 1..3 /\ 1 \in 1..2
    BY OwnersHoldable
  <1>2. /\ f \in Seq(Byte) /\ Len(f) = 10
        /\ f[1] = c.txPowerDbm /\ f[2] = c.usbRelayEnabled
        /\ f[3] = c.radioEnabled /\ f[4] = c.skipRadioHandshake
        /\ TrimBytes(f, 4, c)
    BY <1>1, FieldsV1Facts
  <1>3. /\ IsConfig(u) /\ u.gyroEnabled = 1
        /\ u.debugMode = 0 /\ u.usbRelayEnabled = c.usbRelayEnabled
        /\ u.radioEnabled = c.radioEnabled
        /\ u.skipRadioHandshake = c.skipRadioHandshake
        /\ u.txPowerDbm = c.txPowerDbm
        /\ u.gimbalPitchOffset = c.gimbalPitchOffset
        /\ u.gimbalYawOffset = c.gimbalYawOffset
        /\ u.motor1offset = c.motor1offset
        /\ u.motor2offset = c.motor2offset
    BY <1>1, UpgradedFields
  <1> HIDE DEF f, u
  <1>4. StoredBytes(new, u)
    BY <1>3, StoredIsBytes
  <1>5. 8 + Len(f) = 18 /\ 8 + Len(f) <= Size
    BY <1>2 DEF Size
  <1>6. /\ image \in Seq(Byte) /\ Len(image) = Size
        /\ Says(image, 1, f) /\ Sound(image, 18)
    BY <1>1, <1>2, <1>5, SavedImage
  <1>7. image[19] = 255 /\ image[20] = 255
    <2>1. Len(written) = 18
      BY <1>1, <1>2, <1>5, ImageFacts
    <2> HIDE DEF written
    <2>2. QED
      BY <2>1 DEF Padded, Size
  <1> HIDE DEF image, new, written
  <1>8. /\ f[5] = c.gimbalPitchOffset /\ f[6] = 0
        /\ f[7] = c.gimbalYawOffset /\ f[8] = 0
        /\ f[9] = c.motor1offset % 256 /\ f[10] = c.motor2offset % 256
    <2>1. /\ f[4 + 1] = c.gimbalPitchOffset /\ f[4 + 2] = 0
          /\ f[4 + 3] = c.gimbalYawOffset /\ f[4 + 4] = 0
          /\ f[4 + 5] = c.motor1offset % 256 /\ f[4 + 6] = c.motor2offset % 256
      BY <1>2, TrimBytesAre
    <2>2. QED
      BY <2>1
  <1>9. /\ image[1] = 69 /\ image[2] = 82 /\ image[3] = 69 /\ image[4] = 65
        /\ image[5] = 1 /\ image[6] = 0
    BY <1>6 DEF Says, Magic
  <1>10. /\ image[9] = f[1] /\ image[10] = f[2] /\ image[11] = f[3] /\ image[12] = f[4]
         /\ image[13] = f[5] /\ image[14] = f[6] /\ image[15] = f[7] /\ image[16] = f[8]
         /\ image[17] = f[9] /\ image[18] = f[10]
    <2>1. \A i \in 1..10 : image[8 + i] = f[i]
      BY <1>2, <1>6 DEF Says
    <2>2. QED
      BY <2>1
  <1>11. image[7] + 256 * image[8] = BytesSum(image)
    BY <1>6, ChecksumOfBytes DEF Sound, WordAt
  <1>12. /\ image[9] = new[13] /\ image[10] = new[10] /\ image[11] = new[11]
         /\ image[12] = new[12] /\ new[9] = 0 /\ new[20] = 1
    BY <1>2, <1>3, <1>4, <1>10 DEF StoredBytes
  <1>13. /\ image[13] = new[14] /\ image[14] = 0 /\ image[15] = new[16]
         /\ image[16] = 0 /\ new[15] = 0 /\ new[17] = 0
    BY <1>3, <1>4, <1>8, <1>10 DEF StoredBytes
  <1>14. image[17] = new[18] /\ image[18] = new[19]
    <2>1. new[18] = u.motor1offset % 256 /\ new[19] = u.motor2offset % 256
      BY <1>4, Zenon DEF StoredBytes
    <2>2. image[17] = c.motor1offset % 256 /\ image[18] = c.motor2offset % 256
      BY <1>8, <1>10, Zenon
    <2>3. /\ u.motor1offset % 256 = c.motor1offset % 256
          /\ u.motor2offset % 256 = c.motor2offset % 256
      BY <1>3
    <2>4. QED
      BY <2>1, <2>2, <2>3
  <1>15. Twins1(image, new)
    BY <1>7, <1>9, <1>11, <1>12, <1>13, <1>14 DEF Twins1
  <1>16. QED
    BY <1>15 DEF image, new, written, f, u

\* The sum of a torn image, that of the new one, and the old one's checksum.
Outgrown(sum, total, crc) ==
    /\ sum \in Int /\ total \in Int /\ crc \in Int
    /\ sum - total \in 254..509
    /\ total - crc \in 2..3

\* The checksum of the new image never fits the torn one: what it lacks of the
\* new one's last bytes, and what the old one's have too much, is less than two
\* upper bytes but never one lower byte.
LEMMA Apart ==
    ASSUME NEW sum, NEW total, NEW crc, Outgrown(sum, total, crc)
    PROVE  Differs(sum, Low(total), High(total))
  <1>1. sum \in Int /\ total \in Int /\ sum - total \in 254..509
    BY DEF Outgrown
  <1>2. CASE High(sum) # High(total)
    BY <1>2 DEF Differs
  <1>3. CASE High(sum) = High(total)
    <2>1. Low(sum) = Low(total) + (sum - total)
      <3>1. sum = 256 * High(sum) + Low(sum) /\ total = 256 * High(total) + Low(total)
        BY <1>1 DEF High, Low
      <3>2. Low(sum) \in Int /\ Low(total) \in Int /\ High(sum) \in Int
        BY <1>1 DEF High, Low
      <3>3. QED
        BY <1>1, <1>3, <3>1, <3>2
    <2>2. Low(sum) \in 0..255 /\ Low(total) \in 0..255
      BY <1>1 DEF Low
    <2>3. Low(sum) \notin {Low(total), DefaultsCrc}
      BY <1>1, <2>1, <2>2 DEF DefaultsCrc
    <2>4. QED
      BY <2>3 DEF Differs
  <1>4. QED
    BY <1>2, <1>3

\* Nor does the upper byte of the old image's checksum.
LEMMA OldApart ==
    ASSUME NEW sum, NEW total, NEW crc, Outgrown(sum, total, crc), NEW low
    PROVE  Differs(sum, low, High(crc))
  <1>1. sum \in Int /\ crc \in Int /\ sum - crc >= 256
    BY DEF Outgrown
  <1>2. sum \div 256 # crc \div 256
    BY <1>1
  <1>3. QED
    BY <1>2 DEF Differs, High

\* The torn image's sum, under version 2.
LEMMA Surplus2 ==
    ASSUME NEW image \in Seq(Byte), Len(image) = Size,
           NEW new \in Seq(Byte), Len(new) = Size, Twins2(image, new),
           NEW torn, NEW written \in 5..19, TornBody(torn, new, image, written)
    PROVE  Outgrown(Total(torn), Total(new), WordAt(image, 6))
  <1> DEFINE a == new[9]
             b == new[10]
             c == new[11]
             d == new[12]
             e == new[13]
             f == new[14]
             g == new[15]
             h == new[16]
             i == new[17]
             j == new[18]
             k == new[19]
  <1>1. /\ a \in Int /\ b \in Int /\ c \in Int /\ d \in Int
        /\ e \in Int /\ f \in Int /\ g \in Int /\ h \in Int
        /\ i \in Int /\ j \in Int /\ k \in Int
    <2>1. \A n \in 1..20 : new[n] \in Int
      BY ImageBytes
    <2>2. /\ 9 \in 1..20 /\ 10 \in 1..20 /\ 11 \in 1..20 /\ 12 \in 1..20
          /\ 13 \in 1..20 /\ 14 \in 1..20 /\ 15 \in 1..20 /\ 16 \in 1..20
          /\ 17 \in 1..20 /\ 18 \in 1..20 /\ 19 \in 1..20
      OBVIOUS
    <2>3. QED
      BY <2>1, <2>2, Zenon
  <1>2. /\ torn[9] = a /\ torn[10] = b /\ torn[11] = c /\ torn[12] = d
        /\ torn[13] = e /\ torn[14] = f /\ torn[15] = g /\ torn[16] = h
        /\ torn[17] = i /\ torn[18] = j /\ torn[19] = k
    <2>1. torn[9] = a /\ torn[10] = b /\ torn[11] = c /\ torn[12] = d
      BY DEF TornBody, From, Twins2
    <2>2. torn[13] = e /\ torn[14] = f /\ torn[15] = g /\ torn[16] = h
      BY DEF TornBody, From, Twins2
    <2>3. torn[17] = i /\ torn[18] = j /\ torn[19] = k
      BY DEF TornBody, From, Twins2
    <2>4. QED
      BY <2>1, <2>2, <2>3, Zenon
  <1>3. torn[20] = 255
    BY DEF TornBody, From, Twins2
  <1> DEFINE total == 288 + (a + b + c + d + e + f + g + h + i + j + k + 1)
  <1>4. Total(torn) = 288 + (a + b + c + d + e + f + g + h + i + j + k + 255)
    BY <1>2, <1>3, Zenon DEF Total, BodySum
  <1>5. Total(new) = total
    BY Zenon DEF Total, BodySum, Twins2
  <1>6. BytesSum(image) + image[19]
          = 69 + 82 + 69 + 65 + 2 + 0 + a + b + c + d + e + f + g + h + i + j + k
    BY Zenon DEF BytesSum, Twins2
  <1> HIDE DEF a, b, c, d, e, f, g, h, i, j, k
  <1>7. /\ total \in Int
        /\ 288 + (a + b + c + d + e + f + g + h + i + j + k + 255) = total + 254
    BY <1>1
  <1>8. 69 + 82 + 69 + 65 + 2 + 0 + a + b + c + d + e + f + g + h + i + j + k = total - 2
    BY <1>1
  <1> HIDE DEF total
  <1>9. WordAt(image, 6) = total - 2
    BY <1>6, <1>8 DEF Twins2, WordAt
  <1>10. Total(torn) = total + 254
    BY <1>4, <1>7
  <1>11. QED
    BY <1>5, <1>7, <1>9, <1>10 DEF Outgrown

\* The same under version 1, where it depends on the byte that was reached.
LEMMA Surplus1 ==
    ASSUME NEW image \in Seq(Byte), Len(image) = Size,
           NEW new \in Seq(Byte), Len(new) = Size, Twins1(image, new),
           NEW torn, NEW written \in 5..19, TornBody(torn, new, image, written)
    PROVE  Outgrown(Total(torn), Total(new), WordAt(image, 6))
  <1> DEFINE u == new[10]
             r == new[11]
             s == new[12]
             t == new[13]
             p == new[14]
             y == new[16]
             m == new[18]
             n == new[19]
  <1>1. /\ u \in Byte /\ r \in Byte /\ s \in Byte /\ t \in Byte
        /\ p \in Byte /\ y \in Byte /\ m \in Byte /\ n \in Byte
    <2>1. \A i \in 1..20 : new[i] \in Byte
      BY ElementOfSeq DEF Size
    <2>2. /\ 10 \in 1..20 /\ 11 \in 1..20 /\ 12 \in 1..20 /\ 13 \in 1..20
          /\ 14 \in 1..20 /\ 16 \in 1..20 /\ 18 \in 1..20 /\ 19 \in 1..20
      OBVIOUS
    <2>3. QED
      BY <2>1, <2>2, Zenon
  <1> DEFINE b9 == IF 9 <= written THEN 0 ELSE t
             b13 == IF 13 <= written THEN t ELSE p
             b14 == IF 14 <= written THEN p ELSE 0
             b15 == IF 15 <= written THEN 0 ELSE y
             b16 == IF 16 <= written THEN y ELSE 0
             b17 == IF 17 <= written THEN 0 ELSE m
             b18 == IF 18 <= written THEN m ELSE n
             b19 == IF 19 <= written THEN n ELSE 255
  <1>2. /\ torn[9] = b9 /\ torn[13] = b13 /\ torn[14] = b14 /\ torn[15] = b15
        /\ torn[16] = b16 /\ torn[17] = b17 /\ torn[18] = b18 /\ torn[19] = b19
    BY DEF TornBody, From, Twins1
  <1>3. torn[10] = u /\ torn[11] = r /\ torn[12] = s /\ torn[20] = 255
    BY DEF TornBody, From, Twins1
  <1> DEFINE total == 288 + (0 + u + r + s + t + p + 0 + y + 0 + m + n + 1)
             sum == 288 + (b9 + u + r + s + b13 + b14 + b15 + b16 + b17 + b18 + b19 + 255)
             surplus == sum - total
  <1>4. Total(torn) = sum
    <2> HIDE DEF u, r, s, t, p, y, m, n, b9, b13, b14, b15, b16, b17, b18, b19
    <2>1. BodySum(torn) = b9 + u + r + s + b13 + b14 + b15 + b16 + b17 + b18 + b19 + 255
      BY <1>2, <1>3, ZenonT(60) DEF BodySum
    <2>2. QED
      BY <2>1, Zenon DEF Total
  <1>5. Total(new) = total
    BY Zenon DEF Total, BodySum, Twins1
  <1>6. BytesSum(image)
          = 69 + 82 + 69 + 65 + 1 + 0 + t + u + r + s + p + 0 + y + 0 + m + n
    BY Zenon DEF BytesSum, Twins1
  <1> HIDE DEF u, r, s, t, p, y, m, n
  <1>7. surplus \in 254..509 /\ sum = total + surplus /\ total \in Int
    BY <1>1, SMTT(60) DEF Byte
  <1>8. 69 + 82 + 69 + 65 + 1 + 0 + t + u + r + s + p + 0 + y + 0 + m + n = total - 3
    BY <1>1 DEF Byte
  <1> HIDE DEF total, sum, surplus
  <1>9. WordAt(image, 6) = total - 3
    BY <1>6, <1>8 DEF Twins1, WordAt
  <1>10. QED
    BY <1>4, <1>5, <1>7, <1>9 DEF Outgrown

MagicThere(image) ==
    /\ image[1] = 69 /\ image[2] = 82 /\ image[3] = 69 /\ image[4] = 65
    /\ image[6] = 0

NewHead(new) ==
    HeadBytes(new) /\ High(Total(new)) = new[8] /\ Low(Total(new)) = new[7]

\* A torn image of which at least the version has been written, and whose sum is
\* that of the new one and a surplus, is lost.
LEMMA TornIsLost ==
    ASSUME NEW new, NewHead(new),
           NEW image \in Seq(Byte), Len(image) = Size, MagicThere(image),
           NEW torn \in Seq(Byte), Len(torn) = Size, torn[20] = 255,
           NEW written \in 5..19, TornHead(torn, new, image, written),
           Outgrown(Total(torn), Total(new), WordAt(image, 6))
    PROVE  Lost(torn)
  <1> DEFINE total == Total(new)
             crc == WordAt(image, 6)
  <1>1. HeadBytes(torn)
    BY DEF HeadBytes, TornHead, From, MagicThere, NewHead
  <1>2. Outgrown(Checksum(torn, Size), total, crc)
    BY <1>1, ChecksumOfBody
  <1>3. High(total) = new[8] /\ Low(total) = new[7] /\ High(crc) = image[8]
    BY CrcSplit DEF NewHead
  <1> HIDE DEF total, crc
  <1> DEFINE differs == Differs(Checksum(torn, Size), torn[7], torn[8])
  <1>4. ASSUME written >= 8 PROVE differs
    <2>1. torn[7] = Low(total) /\ torn[8] = High(total)
      BY <1>3, <1>4 DEF TornHead, From
    <2>2. QED
      BY <1>2, <2>1, Apart
  <1>5. ASSUME ~(written >= 8) PROVE differs
    <2>1. torn[8] = High(crc)
      BY <1>3, <1>5 DEF TornHead, From
    <2>2. QED
      BY <1>2, <2>1, OldApart
  <1>6. (\A i \in 1..4 : torn[i] = Magic[i]) /\ Version(torn) = CONFIG_VERSION
    BY <1>1 DEF HeadBytes, Magic, Version, WordAt, CONFIG_VERSION
  <1>7. CONFIG_VERSION \notin 1..2
    BY DEF CONFIG_VERSION
  <1>8. QED
    BY <1>4, <1>5, <1>6, <1>7 DEF Lost, MagicThere

\* The image that earlier firmware saved for an owner, and nobody has replaced.
Untouched(image, owner, version) ==
    image = Padded(Image(version, IF version = 1 THEN FieldsV1(owner) ELSE FieldsV2(owner)))

\* An old image that is being migrated is there as it was until the version of the
\* new one is written over its own, and lost from then on.
LEMMA OldTorn ==
    ASSUME NEW owner, IsConfig(owner), NEW version \in 1..2,
           NEW image, Untouched(image, owner, version), NEW torn,
           NEW written \in 0..Size - 1,
           Mixed(torn, Stored(Upgraded(owner, version)), image, written)
    PROVE  torn = image \/ Lost(torn)
  <1> DEFINE new == Stored(Upgraded(owner, version))
  <1>1. new \in Seq(Byte) /\ Len(new) = Size /\ NewHead(new)
    BY UpgradedFields, StoredHead DEF NewHead
  <1>2. /\ image \in Seq(Byte) /\ Len(image) = Size
        /\ \/ version = 1 /\ Twins1(image, new)
           \/ version = 2 /\ Twins2(image, new)
    <2>1. owner \in Holdable
      BY OwnersHoldable
    <2>2. CASE version = 1
      BY <2>1, <2>2, StoredV1Facts, TwinsOf1 DEF Untouched
    <2>3. CASE version = 2
      BY <2>1, <2>3, StoredV2Facts, TwinsOf2 DEF Untouched
    <2>4. QED
      BY <2>2, <2>3
  <1>3. Mixed(torn, new, image, written)
    OBVIOUS
  <1> HIDE DEF new
  <1>4. /\ TornHead(torn, new, image, written) /\ TornBody(torn, new, image, written)
    BY <1>3, MixedBytes
  <1>5. /\ torn \in Seq(Byte) /\ Len(torn) = Size
        /\ \A i \in 1..20 : torn[i] = IF i <= written THEN new[i] ELSE image[i]
    BY <1>3 DEF Mixed, Size
  <1>6. MagicThere(image) /\ image[20] = 255
    BY <1>2 DEF Twins1, Twins2, MagicThere
  <1>7. written \in 0..19
    BY DEF Size
  <1>8. torn[20] = 255
    BY <1>4, <1>6, <1>7 DEF TornBody, From
  <1>9. CASE written <= 4
    <2>1. ASSUME NEW i \in 1..20 PROVE torn[i] = image[i]
      <3>1. CASE i <= 4
        <4>1. i = 1 \/ i = 2 \/ i = 3 \/ i = 4
          BY <3>1
        <4>2. new[i] = image[i]
          <5>1. /\ new[1] = image[1] /\ new[2] = image[2]
                /\ new[3] = image[3] /\ new[4] = image[4]
            BY <1>1, <1>6 DEF NewHead, HeadBytes, MagicThere
          <5>2. QED
            BY <4>1, <5>1, Zenon
        <4>3. QED
          BY <1>5, <4>2
      <3>2. CASE i > 4
        <4>1. ~(i <= written)
          BY <1>7, <1>9, <3>2
        <4>2. QED
          BY <1>5, <4>1
      <3>3. QED
        BY <3>1, <3>2
    <2>2. torn = image
      BY <1>2, <1>5, <2>1, SeqEqual DEF Size
    <2>3. QED
      BY <2>2
  <1>10. CASE written >= 5
    <2>1. written \in 5..19
      BY <1>7, <1>10
    <2>2. Outgrown(Total(torn), Total(new), WordAt(image, 6))
      BY <1>1, <1>2, <1>4, <2>1, Surplus1, Surplus2
    <2>3. Lost(torn)
      BY <1>1, <1>2, <1>4, <1>5, <1>6, <1>8, <2>1, <2>2, TornIsLost
    <2>4. QED
      BY <2>3
  <1>11. QED
    BY <1>7, <1>9, <1>10

-----------------------------------------------------------------------------
(* The invariant. *)

\* A boot takes c from the image.
Loads(image, c) ==
    c = IF Version(image) = CONFIG_VERSION /\ Sound(image, Size)
        THEN ReadV3(image) ELSE Migrated(image)

StoreInv ==
    /\ eeprom \in Seq(Byte) /\ Len(eeprom) = Size
    /\ config \in Holdable
    /\ powered \in BOOLEAN /\ cut \in BOOLEAN
    /\ powered => eeprom = Stored(config) /\ genuine = {config} /\ ~cut
    /\ ~powered /\ ~cut => \E c \in genuine : genuine = {c} /\ Loads(eeprom, c)

LEMMA StoredLoads ==
    ASSUME NEW c \in Holdable
    PROVE  Loads(Stored(c), c)
  BY StoredFacts DEF Loads

LEMMA ErasedFacts ==
    /\ Padded(<<>>) \in Seq(Byte) /\ Len(Padded(<<>>)) = Size
    /\ Loads(Padded(<<>>), defaults)
  <1> DEFINE image == Padded(<<>>)
  <1>1. <<>> \in Seq(Byte) /\ Len(<<>>) = 0 /\ 0 <= Size
    BY EmptySeq DEF Size
  <1>2. image \in Seq(Byte) /\ Len(image) = Size
    BY <1>1, PaddedFacts
  <1>3. image[5] = 255 /\ image[6] = 255
    BY <1>1 DEF Padded, Size
  <1> HIDE DEF image
  <1>4. Version(image) \notin 1..3
    BY <1>3 DEF Version, WordAt
  <1>5. Loads(image, defaults)
    BY <1>4 DEF Loads, Migrated, CONFIG_VERSION
  <1>6. QED
    BY <1>2, <1>5 DEF image

LEMMA InitStore == Init => StoreInv
  <1> SUFFICES ASSUME Init PROVE StoreInv
    OBVIOUS
  <1>1. config \in Holdable /\ powered = FALSE /\ cut = FALSE
    BY DefaultsHoldable DEF Init
  <1>2. CASE eeprom = Padded(<<>>) /\ genuine = {defaults}
    BY <1>1, <1>2, ErasedFacts DEF StoreInv
  <1>3. ASSUME NEW owner \in Owners, genuine = {Upgraded(owner, 1)},
               eeprom = Padded(Image(1, FieldsV1(owner)))
        PROVE  StoreInv
    <2>1. owner \in Holdable
      BY ConfigAssumptions, OwnersHoldable
    <2>2. /\ eeprom \in Seq(Byte) /\ Len(eeprom) = Size
          /\ Version(eeprom) = 1 /\ Migrated(eeprom) = Upgraded(owner, 1)
      BY <1>3, <2>1, StoredV1Facts
    <2>3. Version(eeprom) # CONFIG_VERSION
      BY <2>2 DEF CONFIG_VERSION
    <2>4. Loads(eeprom, Upgraded(owner, 1))
      BY <2>2, <2>3 DEF Loads
    <2>5. QED
      BY <1>1, <1>3, <2>2, <2>4 DEF StoreInv
  <1>4. ASSUME NEW owner \in Owners, genuine = {Upgraded(owner, 2)},
               eeprom = Padded(Image(2, FieldsV2(owner)))
        PROVE  StoreInv
    <2>1. owner \in Holdable
      BY ConfigAssumptions, OwnersHoldable
    <2>2. /\ eeprom \in Seq(Byte) /\ Len(eeprom) = Size
          /\ Version(eeprom) = 2 /\ Migrated(eeprom) = Upgraded(owner, 2)
      BY <1>4, <2>1, StoredV2Facts
    <2>3. Version(eeprom) # CONFIG_VERSION
      BY <2>2 DEF CONFIG_VERSION
    <2>4. Loads(eeprom, Upgraded(owner, 2))
      BY <2>2, <2>3 DEF Loads
    <2>5. QED
      BY <1>1, <1>4, <2>2, <2>4 DEF StoreInv
  <1>5. ASSUME NEW owner \in Owners, genuine = {Upgraded(owner, 3)},
               eeprom = Padded(Image(3, FieldsV3(owner)))
        PROVE  StoreInv
    <2>1. owner \in Holdable
      BY ConfigAssumptions, OwnersHoldable
    <2>2. eeprom = Stored(owner) /\ genuine = {owner}
      BY <1>5, <2>1, StoredFacts DEF Stored, CONFIG_VERSION, Upgraded
    <2>3. QED
      BY <1>1, <2>1, <2>2, StoredFacts, StoredLoads DEF StoreInv
  <1>6. QED
    BY <1>2, <1>3, <1>4, <1>5 DEF Init

LEMMA PutWholeStore ==
    ASSUME NEW c \in Holdable, powered' = TRUE, PutWhole(c)
    PROVE  StoreInv'
  BY StoredFacts DEF PutWhole, StoreInv

LEMMA SaveStore ==
    ASSUME StoreInv, NEW c \in Holdable, Save(c)
    PROVE  StoreInv'
  <1>1. CASE powered' = TRUE /\ PutWhole(c)
    BY <1>1, PutWholeStore
  <1>2. CASE powered' = FALSE /\ PutCutShort(c)
    <2>1. PICK written \in 0..Size - 1 :
              eeprom' = SubSeq(Stored(c), 1, written) \o SubSeq(eeprom, written + 1, Size)
      BY <1>2 DEF PutCutShort
    <2>2. eeprom' \in Seq(Byte) /\ Len(eeprom') = Size
      BY <2>1, TornFacts DEF StoreInv, Mixed
    <2>3. config' = defaults /\ cut' = TRUE
      BY <1>2 DEF PutCutShort
    <2>4. QED
      BY <1>2, <2>2, <2>3, DefaultsHoldable DEF StoreInv
  <1>3. QED
    BY <1>1, <1>2 DEF Save

LEMMA NextStore == StoreInv /\ [Next]_vars => StoreInv'
  <1> SUFFICES ASSUME StoreInv, [Next]_vars PROVE StoreInv'
    OBVIOUS
  <1>1. CASE LoadCurrent
    <2>1. ReadV3(eeprom) \in Holdable /\ Stored(ReadV3(eeprom)) = eeprom
      BY <1>1, LoadedFacts DEF LoadCurrent, StoreInv
    <2>2. QED
      BY <1>1, <2>1 DEF LoadCurrent, StoreInv
  <1>2. CASE LoadOther
    <2>1. Migrated(eeprom) \in Holdable
      BY MigratedType DEF StoreInv
    <2>2. QED
      BY <1>2, <2>1, SaveStore DEF LoadOther
  <1>3. ASSUME NEW updates \in Updates, Change(updates) PROVE StoreInv'
    <2> DEFINE new == Applied(config, updates)[Len(updates)]
    <2>1. config \in Holdable /\ updates \in Seq(ConfigUpdate)
      BY ConfigAssumptions DEF StoreInv
    <2>2. new \in Holdable /\ (~AnyChanged(config, updates) => new = config)
      BY <2>1, ApplyType, AppliedFacts
    <2>3. IF AnyChanged(config, updates) THEN Save(new)
          ELSE config' = new /\ UNCHANGED <<eeprom, powered, state, genuine, cut>>
      BY <1>3 DEF Change
    <2> HIDE DEF new
    <2>4. CASE AnyChanged(config, updates)
      BY <2>2, <2>3, <2>4, SaveStore
    <2>5. CASE ~AnyChanged(config, updates)
      BY <2>2, <2>3, <2>5 DEF StoreInv
    <2>6. QED
      BY <2>4, <2>5
  <1>4. CASE ChangeState
    BY <1>4 DEF ChangeState, StoreInv
  <1>5. CASE PowerOff
    BY <1>5, StoredLoads, DefaultsHoldable DEF PowerOff, StoreInv
  <1>6. CASE UNCHANGED vars
    BY <1>6 DEF vars, StoreInv
  <1>7. QED
    BY <1>1, <1>2, <1>3, <1>4, <1>5, <1>6 DEF Next

\* In every run the image in the EEPROM is the one that save() would write for
\* the configuration in use, whatever was found at boot and set since.
THEOREM StoreFollowsRam == Spec => []StoreMatchesRam
  <1>1. StoreInv => StoreMatchesRam
    BY DEF StoreInv, StoreMatchesRam
  <1>2. QED
    BY <1>1, InitStore, NextStore, PTL DEF Spec

\* In every run a boot that no power failure preceded or interrupted finds what
\* was in force before it, or what the owner of earlier firmware had set.
THEOREM RestartFindsConfig == Spec => SurvivesRestart
  <1>1. StoreInv /\ [Next]_vars => [~powered /\ powered' /\ ~cut => config' \in genuine]_vars
    <2> SUFFICES ASSUME StoreInv, Next, ~powered, powered', ~cut
                 PROVE  config' \in genuine
      BY DEF vars
    <2>1. PICK c \in genuine : Loads(eeprom, c)
      BY DEF StoreInv
    <2>2. CASE LoadCurrent
      BY <2>1, <2>2 DEF LoadCurrent, Loads
    <2>3. CASE LoadOther
      BY <2>1, <2>3 DEF LoadOther, Loads, Save, PutWhole
    <2>4. ~ChangeState /\ ~PowerOff /\ \A updates \in Updates : ~Change(updates)
      BY DEF ChangeState, PowerOff, Change
    <2>5. QED
      BY <2>2, <2>3, <2>4 DEF Next
  <1>2. QED
    BY <1>1, InitStore, NextStore, PTL DEF Spec, SurvivesRestart

-----------------------------------------------------------------------------
(* Accepted values only. *)

\* Whatever the power failures left, it is fit, lost or untouched; and what is, was
\* or was about to be in use holds accepted values only.
AcceptedInv ==
    /\ StoreInv
    /\ IsConfig(config) /\ (\A c \in genuine : IsConfig(c))
    /\ state \in States
    /\ \/ Fit(eeprom)
       \/ Lost(eeprom)
       \/ \E owner \in Owners, version \in 1..2 : Untouched(eeprom, owner, version)

LEMMA UntouchedFacts ==
    ASSUME NEW owner \in Owners, NEW version \in 1..2, NEW image,
           Untouched(image, owner, version)
    PROVE  /\ Version(image) = version /\ IsConfig(owner)
           /\ Migrated(image) = Upgraded(owner, version)
           /\ IsConfig(Upgraded(owner, version))
  <1>1. IsConfig(owner) /\ owner \in Holdable
    BY ConfigAssumptions, OwnersHoldable
  <1>2. IsConfig(Upgraded(owner, version))
    BY <1>1, UpgradedFields
  <1>3. CASE version = 1
    BY <1>1, <1>2, <1>3, StoredV1Facts DEF Untouched
  <1>4. CASE version = 2
    BY <1>1, <1>2, <1>4, StoredV2Facts DEF Untouched
  <1>5. QED
    BY <1>3, <1>4

LEMMA InitAccepted == Init => AcceptedInv
  <1> SUFFICES ASSUME Init PROVE AcceptedInv
    OBVIOUS
  <1>1. StoreInv
    BY InitStore
  <1>2. IsConfig(config) /\ state \in States
    BY DefaultsHoldable DEF Init, States
  <1>3. CASE eeprom = Padded(<<>>) /\ genuine = {defaults}
    BY <1>1, <1>2, <1>3, ErasedIsLost, DefaultsHoldable DEF AcceptedInv
  <1>4. ASSUME NEW owner \in Owners, NEW version \in 1..2,
               genuine = {Upgraded(owner, version)}, Untouched(eeprom, owner, version)
        PROVE  AcceptedInv
    <2>1. IsConfig(Upgraded(owner, version))
      BY <1>4, UntouchedFacts
    <2>2. QED
      BY <1>1, <1>2, <1>4, <2>1 DEF AcceptedInv
  <1>5. ASSUME NEW owner \in Owners, genuine = {Upgraded(owner, 3)},
               eeprom = Padded(Image(3, FieldsV3(owner)))
        PROVE  AcceptedInv
    <2>1. IsConfig(owner) /\ owner \in Holdable
      BY ConfigAssumptions, OwnersHoldable
    <2>2. eeprom = Stored(owner) /\ genuine = {owner}
      BY <1>5, <2>1, StoredFacts DEF Stored, CONFIG_VERSION, Upgraded
    <2>3. Fit(eeprom)
      BY <2>1, <2>2, StoredIsFit
    <2>4. QED
      BY <1>1, <1>2, <2>1, <2>2, <2>3 DEF AcceptedInv
  <1>6. \/ eeprom = Padded(<<>>) /\ genuine = {defaults}
        \/ \E owner \in Owners : genuine = {Upgraded(owner, 1)} /\ Untouched(eeprom, owner, 1)
        \/ \E owner \in Owners : genuine = {Upgraded(owner, 2)} /\ Untouched(eeprom, owner, 2)
        \/ \E owner \in Owners : /\ genuine = {Upgraded(owner, 3)}
                                 /\ eeprom = Padded(Image(3, FieldsV3(owner)))
    BY DEF Init, Untouched
  <1>7. QED
    BY <1>3, <1>4, <1>5, <1>6

\* What a put leaves behind, whole or cut short.
LEMMA SaveAccepted ==
    ASSUME AcceptedInv, NEW c, IsConfig(c), Save(c),
           \/ Fit(eeprom)
           \/ Lost(eeprom) /\ c = defaults
           \/ \E owner \in Owners, version \in 1..2 :
                 Untouched(eeprom, owner, version) /\ c = Upgraded(owner, version)
    PROVE  AcceptedInv'
  <1>1. c \in Holdable /\ Fit(Stored(c))
    BY OwnersHoldable, StoredIsFit
  <1>2. StoreInv /\ StoreInv'
    BY <1>1, SaveStore DEF AcceptedInv
  <1>3. CASE PutWhole(c)
    BY <1>1, <1>2, <1>3 DEF PutWhole, AcceptedInv
  <1>4. CASE PutCutShort(c)
    <2>1. PICK written \in 0..Size - 1 :
              eeprom' = SubSeq(Stored(c), 1, written) \o SubSeq(eeprom, written + 1, Size)
      BY <1>4 DEF PutCutShort
    <2>2. Mixed(eeprom', Stored(c), eeprom, written)
      BY <1>1, <1>2, <2>1, TornFacts DEF StoreInv
    <2>3. /\ IsConfig(config') /\ (\A d \in genuine' : IsConfig(d)) /\ state' \in States
      BY <1>4, DefaultsHoldable DEF PutCutShort, AcceptedInv, States
    <2>4. eeprom \in Seq(Byte) /\ Len(eeprom) = Size
      BY <1>2 DEF StoreInv
    <2>5. CASE Fit(eeprom)
      <3>1. Stored(c) \in Seq(Byte) /\ Len(Stored(c)) = Size
        BY <1>1, StoredFacts
      <3>2. Fit(eeprom')
        BY <1>1, <2>2, <2>4, <2>5, <3>1, MixedIsFit
      <3>3. QED
        BY <1>2, <2>3, <3>2 DEF AcceptedInv
    <2>6. CASE Lost(eeprom) /\ c = defaults
      <3>1. Lost(eeprom')
        BY <2>2, <2>4, <2>6, LostStaysLost
      <3>2. QED
        BY <1>2, <2>3, <3>1 DEF AcceptedInv
    <2>7. ASSUME NEW owner \in Owners, NEW version \in 1..2,
                 Untouched(eeprom, owner, version), c = Upgraded(owner, version)
          PROVE  AcceptedInv'
      <3>1. IsConfig(owner)
        BY ConfigAssumptions
      <3>2. eeprom' = eeprom \/ Lost(eeprom')
        BY <2>2, <2>7, <3>1, OldTorn
      <3>3. Untouched(eeprom', owner, version) \/ Lost(eeprom')
        BY <2>7, <3>2
      <3>4. QED
        BY <1>2, <2>3, <3>3 DEF AcceptedInv
    <2>8. QED
      BY <2>5, <2>6, <2>7
  <1>5. QED
    BY <1>3, <1>4 DEF Save

LEMMA LoadCurrentAccepted ==
    ASSUME AcceptedInv, LoadCurrent, StoreInv'
    PROVE  AcceptedInv'
  <1>1. eeprom \in Seq(Byte) /\ Len(eeprom) = Size
    BY DEF AcceptedInv, StoreInv
  <1>2. Version(eeprom) = CONFIG_VERSION /\ Sound(eeprom, Size)
    BY DEF LoadCurrent
  <1>3. ~Lost(eeprom)
    BY <1>1, <1>2, NothingInLost
  <1>4. \A owner \in Owners, version \in 1..2 : ~Untouched(eeprom, owner, version)
    BY <1>2, UntouchedFacts DEF CONFIG_VERSION
  <1>5. Fit(eeprom)
    BY <1>3, <1>4 DEF AcceptedInv
  <1>6. IsConfig(ReadV3(eeprom))
    BY <1>5, FitIsAccepted
  <1>7. /\ config' = ReadV3(eeprom) /\ genuine' = {config'}
        /\ eeprom' = eeprom /\ state' = state
    BY DEF LoadCurrent
  <1>8. QED
    BY <1>5, <1>6, <1>7 DEF AcceptedInv

LEMMA LoadOtherAccepted ==
    ASSUME AcceptedInv, LoadOther
    PROVE  AcceptedInv'
  <1>1. eeprom \in Seq(Byte) /\ Len(eeprom) = Size
    BY DEF AcceptedInv, StoreInv
  <1>2. Save(Migrated(eeprom))
    BY DEF LoadOther
  <1>3. CASE Fit(eeprom)
    <2>1. Migrated(eeprom) = defaults
      BY <1>3 DEF Fit, Migrated, CONFIG_VERSION
    <2>2. QED
      BY <1>2, <1>3, <2>1, DefaultsHoldable, SaveAccepted
  <1>4. CASE Lost(eeprom)
    <2>1. Migrated(eeprom) = defaults
      BY <1>1, <1>4, NothingInLost
    <2>2. QED
      BY <1>2, <1>4, <2>1, DefaultsHoldable, SaveAccepted
  <1>5. ASSUME NEW owner \in Owners, NEW version \in 1..2,
               Untouched(eeprom, owner, version)
        PROVE  AcceptedInv'
    <2>1. /\ Migrated(eeprom) = Upgraded(owner, version)
          /\ IsConfig(Upgraded(owner, version))
      BY <1>5, UntouchedFacts
    <2>2. QED
      BY <1>2, <1>5, <2>1, SaveAccepted
  <1>6. QED
    BY <1>3, <1>4, <1>5 DEF AcceptedInv

LEMMA ChangeAccepted ==
    ASSUME AcceptedInv, NEW updates \in Updates, Change(updates), StoreInv'
    PROVE  AcceptedInv'
  <1> DEFINE new == Applied(config, updates)[Len(updates)]
             D == {c \in [Keys -> Int] : \A key \in Keys : c[key] \in Accepted[key]}
  <1>1. \A c : c \in D <=> IsConfig(c)
    BY DEF IsConfig
  <1>2. \A d \in D, update \in ConfigUpdate : ApplyOne(d, update) \in D
    BY AcceptedIsHeld DEF ApplyOne
  <1>3. config \in D /\ updates \in Seq(ConfigUpdate)
    BY <1>1, ConfigAssumptions DEF AcceptedInv
  <1> HIDE DEF D
  <1>4. new \in D /\ (~AnyChanged(config, updates) => new = config)
    BY <1>2, <1>3, AppliedFacts
  <1>5. IsConfig(new)
    BY <1>1, <1>4
  <1>6. Fit(eeprom)
    <2>1. eeprom = Stored(config) /\ IsConfig(config)
      BY DEF Change, AcceptedInv, StoreInv
    <2>2. QED
      BY <2>1, StoredIsFit
  <1>7. IF AnyChanged(config, updates) THEN Save(new)
        ELSE config' = new /\ UNCHANGED <<eeprom, powered, state, genuine, cut>>
    BY DEF Change
  <1> HIDE DEF new
  <1>8. CASE AnyChanged(config, updates)
    BY <1>5, <1>6, <1>7, <1>8, SaveAccepted
  <1>9. CASE ~AnyChanged(config, updates)
    BY <1>5, <1>6, <1>7, <1>9 DEF AcceptedInv
  <1>10. QED
    BY <1>8, <1>9

LEMMA NextAccepted == AcceptedInv /\ [Next]_vars => AcceptedInv'
  <1> SUFFICES ASSUME AcceptedInv, [Next]_vars PROVE AcceptedInv'
    OBVIOUS
  <1>1. StoreInv'
    BY NextStore DEF AcceptedInv
  <1>2. CASE LoadCurrent
    BY <1>1, <1>2, LoadCurrentAccepted
  <1>3. CASE LoadOther
    BY <1>3, LoadOtherAccepted
  <1>4. ASSUME NEW updates \in Updates, Change(updates) PROVE AcceptedInv'
    BY <1>1, <1>4, ChangeAccepted
  <1>5. CASE ChangeState
    BY <1>1, <1>5 DEF ChangeState, AcceptedInv, States
  <1>6. CASE PowerOff
    BY <1>1, <1>6, DefaultsHoldable DEF PowerOff, AcceptedInv, States
  <1>7. CASE UNCHANGED vars
    BY <1>1, <1>7 DEF vars, AcceptedInv
  <1>8. QED
    BY <1>2, <1>3, <1>4, <1>5, <1>6, <1>7 DEF Next

\* In every run the copy in RAM holds values that Configs::apply accepts, whichever
\* image it came from, however often the power failed while that was written.
THEOREM StoreTyped == Spec => []TypeOK
  <1>1. AcceptedInv => TypeOK
    <2> SUFFICES ASSUME AcceptedInv PROVE TypeOK
      OBVIOUS
    <2>1. eeprom \in Seq(Byte) /\ Len(eeprom) = Size
      BY DEF AcceptedInv, StoreInv
    <2>2. \A i \in 1..Size : eeprom[i] \in 0..255
      BY <2>1, ImageBytes DEF Size
    <2>3. QED
      BY <2>1, <2>2 DEF AcceptedInv, StoreInv, TypeOK
  <1>2. QED
    BY <1>1, InitAccepted, NextAccepted, PTL DEF Spec

-----------------------------------------------------------------------------
(* The register. *)

\* A batch of which no update changed anything leaves the configuration as it was.
LEMMA UnchangedIsSame ==
    ASSUME AcceptedInv, NEW updates \in Updates, ~AnyChanged(config, updates)
    PROVE  Applied(config, updates)[Len(updates)] = config
  <1> DEFINE D == {c \in [Keys -> Int] : \A key \in Keys : c[key] \in Accepted[key]}
  <1>1. \A d \in D, update \in ConfigUpdate : ApplyOne(d, update) \in D
    BY AcceptedIsHeld DEF ApplyOne
  <1>2. config \in D /\ updates \in Seq(ConfigUpdate)
    BY ConfigAssumptions DEF AcceptedInv, IsConfig
  <1> HIDE DEF D
  <1>3. QED
    BY <1>1, <1>2, AppliedFacts

\* What a boot would find is accepted, whatever the image has been through.
LEMMA FoundAccepted ==
    ASSUME AcceptedInv
    PROVE  IsConfig(Found(eeprom))
  <1>1. eeprom \in Seq(Byte) /\ Len(eeprom) = Size
    BY DEF AcceptedInv, StoreInv
  <1>2. CASE Version(eeprom) = CONFIG_VERSION /\ Sound(eeprom, Size)
    <2>1. ~Lost(eeprom)
      BY <1>1, <1>2, NothingInLost
    <2>2. \A owner \in Owners, version \in 1..2 : ~Untouched(eeprom, owner, version)
      BY <1>2, UntouchedFacts DEF CONFIG_VERSION
    <2>3. Fit(eeprom)
      BY <2>1, <2>2 DEF AcceptedInv
    <2>4. QED
      BY <1>2, <2>3, FitIsAccepted DEF Found
  <1>3. CASE ~(Version(eeprom) = CONFIG_VERSION /\ Sound(eeprom, Size))
    <2>1. Found(eeprom) = Migrated(eeprom)
      BY <1>3 DEF Found
    <2>2. CASE Fit(eeprom)
      <3>1. Migrated(eeprom) = defaults
        BY <2>2 DEF Fit, Migrated, CONFIG_VERSION
      <3>2. QED
        BY <2>1, <3>1, DefaultsHoldable
    <2>3. CASE Lost(eeprom)
      BY <1>1, <2>1, <2>3, NothingInLost, DefaultsHoldable
    <2>4. ASSUME NEW owner \in Owners, NEW version \in 1..2,
                 Untouched(eeprom, owner, version)
          PROVE  IsConfig(Found(eeprom))
      BY <2>1, <2>4, UntouchedFacts
    <2>5. QED
      BY <2>2, <2>3, <2>4 DEF AcceptedInv
  <1>4. QED
    BY <1>2, <1>3

\* The configuration in use, or that a boot would take into use.
Kept == IF powered THEN config ELSE Found(eeprom)

Flying == state \in {MAN_FLIGHT, AUTO_FLIGHT}

Configurations == {c \in [Keys -> Int] : IsConfig(c)}

LEMMA KeptAccepted == AcceptedInv => Kept \in Configurations
  <1> SUFFICES ASSUME AcceptedInv PROVE Kept \in Configurations
    OBVIOUS
  <1>1. IsConfig(Kept)
    BY FoundAccepted DEF Kept, AcceptedInv
  <1>2. QED
    BY <1>1 DEF Configurations, IsConfig

\* A save writes the register or tears it.
LEMMA SaveRefines ==
    ASSUME NEW c, Save(c), Kept' \in Configurations, powered, ~Flying
    PROVE  Register!Write \/ Register!Tear
  <1>1. CASE powered' = TRUE /\ PutWhole(c)
    BY <1>1 DEF PutWhole, Register!Write, Kept, Flying, Configurations
  <1>2. CASE powered' = FALSE /\ PutCutShort(c)
    <2>1. ~Flying'
      BY <1>2 DEF PutCutShort, Flying, BOOT, MAN_FLIGHT, AUTO_FLIGHT
    <2>2. QED
      BY <1>2, <2>1 DEF Register!Tear, Kept, Flying, Configurations
  <1>3. QED
    BY <1>1, <1>2 DEF Save

\* Off, the vehicle is in BOOT.
OffInBoot == ~powered => state = BOOT

\* Each step of the store is one of the register, or none.
LEMMA StoreRefines ==
    ASSUME AcceptedInv, OffInBoot, Kept' \in Configurations, [Next]_vars
    PROVE  [Register!Next]_Register!vars
  <1>1. CASE LoadCurrent
    <2>1. Kept = ReadV3(eeprom) /\ Kept' = ReadV3(eeprom) /\ Flying' = Flying
      BY <1>1 DEF LoadCurrent, Kept, Found, Flying
    <2>2. QED
      BY <1>1, <2>1 DEF LoadCurrent, Register!Next, Register!Boot, Kept, Flying
  <1>2. CASE LoadOther
    <2>1. ~powered /\ Save(Migrated(eeprom)) /\ Found(eeprom) = Migrated(eeprom)
      BY <1>2 DEF LoadOther, Found
    <2>2. CASE powered' = TRUE /\ PutWhole(Migrated(eeprom))
      <3>1. Kept = Migrated(eeprom) /\ Kept' = Migrated(eeprom) /\ Flying' = Flying
        BY <2>1, <2>2 DEF PutWhole, Kept, Flying
      <3>2. QED
        BY <2>1, <2>2, <3>1 DEF Register!Next, Register!Boot, Kept, Flying
    <2>3. CASE powered' = FALSE /\ PutCutShort(Migrated(eeprom))
      <3>1. ~Flying /\ ~Flying'
        BY <2>1, <2>3
        DEF PutCutShort, OffInBoot, Flying, BOOT, MAN_FLIGHT, AUTO_FLIGHT
      <3>2. QED
        BY <2>3, <3>1
        DEF Register!Next, Register!Tear, Kept, Flying, Configurations
    <2>4. QED
      BY <2>1, <2>2, <2>3 DEF Save
  <1>3. ASSUME NEW updates \in Updates, Change(updates)
        PROVE  [Register!Next]_Register!vars
    <2> DEFINE new == Applied(config, updates)[Len(updates)]
    <2>1. /\ powered /\ ~Flying
          /\ IF AnyChanged(config, updates) THEN Save(new)
             ELSE config' = new /\ UNCHANGED <<eeprom, powered, state, genuine, cut>>
      BY <1>3 DEF Change, InFlight, Flying
    <2>2. ~AnyChanged(config, updates) => new = config
      BY UnchangedIsSame
    <2> HIDE DEF new
    <2>3. CASE AnyChanged(config, updates)
      BY <2>1, <2>3, SaveRefines DEF Register!Next
    <2>4. CASE ~AnyChanged(config, updates)
      BY <2>1, <2>2, <2>4 DEF Register!vars
    <2>5. QED
      BY <2>3, <2>4
  <1>4. CASE ChangeState
    BY <1>4 DEF ChangeState, Register!Next, Register!Fly
  <1>5. CASE PowerOff
    <2>1. eeprom = Stored(config) /\ config \in Holdable
      BY <1>5 DEF PowerOff, AcceptedInv, StoreInv
    <2>2. Found(eeprom) = config
      BY <2>1, StoredLoads DEF Loads, Found
    <2>3. Kept' = Kept /\ ~Flying'
      BY <1>5, <2>2 DEF PowerOff, Kept, Flying, BOOT, MAN_FLIGHT, AUTO_FLIGHT
    <2>4. QED
      BY <1>5, <2>3 DEF PowerOff, Register!Next, Register!PowerOff, Kept, Flying
  <1>6. CASE UNCHANGED vars
    BY <1>6 DEF vars, Register!vars
  <1>7. QED
    BY <1>1, <1>2, <1>3, <1>4, <1>5, <1>6 DEF Next

\* ConfigStore implements ConfigRegister for every set of owners and of batches:
\* what is written is what every later boot finds, whatever the layout found
\* first; flight changes nothing; and a write cut short, at whatever byte and
\* however often, leaves one configuration of accepted values (Configs::load,
\* migrate, setBatch, save).
THEOREM RegisterImplemented == Spec => ImplementsRegister
  <1>1. Init => Register!Init
    <2> SUFFICES ASSUME Init PROVE Register!Init
      OBVIOUS
    <2>1. Kept \in Configurations
      BY InitAccepted, KeptAccepted
    <2>2. powered = FALSE /\ ~Flying
      BY DEF Init, Flying, BOOT, MAN_FLIGHT, AUTO_FLIGHT
    <2>3. QED
      BY <2>1, <2>2 DEF Register!Init, Kept, Flying, Configurations
  <1>2. Init => OffInBoot
    BY DEF Init, OffInBoot
  <1>3. OffInBoot /\ [Next]_vars => OffInBoot'
    BY DEF OffInBoot, Next, LoadCurrent, LoadOther, Change, ChangeState, PowerOff,
           Save, PutWhole, PutCutShort, vars
  <1>4. AcceptedInv /\ OffInBoot /\ (Kept \in Configurations)' /\ [Next]_vars
            => [Register!Next]_Register!vars
    BY StoreRefines
  <1>5. QED
    BY <1>1, <1>2, <1>3, <1>4, InitAccepted, NextAccepted, KeptAccepted, PTL
    DEF Spec, ImplementsRegister, Register!Spec
=============================================================================
