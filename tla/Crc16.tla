------------------------------- MODULE Crc16 -------------------------------
(***************************************************************************)
(* The CRC of USB frames (crc16Update and packetCrc, src/usb.cpp):         *)
(* CRC-16/CCITT-FALSE, on 16-bit words kept as integers.                   *)
(***************************************************************************)
EXTENDS Integers, Sequences

LOCAL Word == 65536

Bit(x, k) == (x \div 2^k) % 2
Flip(x, k) == IF Bit(x, k) = 1 THEN x - 2^k ELSE x + 2^k

\* crc ^= value << 8
XorHigh(crc, value) ==
    LET bits[k \in 0..8] ==
            IF k = 0 THEN crc
            ELSE IF Bit(value, k - 1) = 1 THEN Flip(bits[k - 1], k + 7)
                 ELSE bits[k - 1]
    IN  bits[8]

\* One turn of the loop: shift left and, if a one falls out, ^= 0x1021.
Shift(crc) ==
    LET shifted == (2 * crc) % Word
    IN  IF Bit(crc, 15) = 1 THEN Flip(Flip(Flip(shifted, 12), 5), 0) ELSE shifted

crc16Update(crc, value) ==
    LET turn[n \in 0..8] == IF n = 0 THEN XorHigh(crc, value) ELSE Shift(turn[n - 1])
    IN  turn[8]

\* The bytes of header and payload, from the initial value 0xFFFF.
packetCrc(bytes) ==
    LET update == [crc \in 0..Word - 1, value \in 0..255 |-> crc16Update(crc, value)]
        crc[i \in 0..Len(bytes)] ==
            IF i = 0 THEN Word - 1 ELSE update[crc[i - 1], bytes[i]]
    IN  crc[Len(bytes)]
=============================================================================
