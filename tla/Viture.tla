------------------------------- MODULE Viture -------------------------------
(***************************************************************************)
(* The classic VITURE packet (viture.go). A word is the set of its bits    *)
(* that are one, bit 0 the least; bytes are numbers. An angle is its four  *)
(* bytes.                                                                  *)
(***************************************************************************)
EXTENDS Integers, Sequences, SequencesExt, FiniteSetsExt

HeaderCommand == <<255, 254>>
HeaderAck     == <<255, 253>>
HeaderIMU     == <<255, 252>>
EndMarker     == 3
HeaderSize    == 18
MinPacket     == HeaderSize + 1
eulerOffset   == 18

Bits(byte)   == {i \in 0..7 : (byte \div 2^i) % 2 = 1}
Number(bits) == MapThenSumSet(LAMBDA i : 2^i, bits)

\* The two bytes of a word.
High(w) == Number({i - 8 : i \in w \ 0..7})
Low(w)  == Number(w \cap 0..7)
LittleEndian(n) == <<n % 256, n \div 256>>

Word == SUBSET (0..15)

\* Bug: shifted before the bit that falls out is looked at.
CrcBit_Late[crc \in Word] ==
    LET shifted == {i + 1 : i \in crc \ {15}}
    IN  IF 15 \in shifted THEN SymDiff(shifted, {0, 5, 12}) ELSE shifted

\* One turn of the inner loop: 0x1021 is the bits 0, 5 and 12.
CrcBit[crc \in Word] ==
    LET shifted == {i + 1 : i \in crc \ {15}}
    IN  IF 15 \in crc THEN SymDiff(shifted, {0, 5, 12}) ELSE shifted

CrcByte[crc \in Word, byte \in 0..255] ==
    LET turn[t \in 0..8] ==
          IF t = 0 THEN SymDiff(crc, {i + 8 : i \in Bits(byte)}) ELSE CrcBit[turn[t - 1]]
    IN  turn[8]

CRC16(b) ==
    LET crc[n \in 0..Len(b)] == IF n = 0 THEN 0..15 ELSE CrcByte[crc[n - 1], b[n]]
    IN  crc[Len(b)]

Rest(p, from) == SubSeq(p, from, Len(p))

Checksum(p) == LET crc == CRC16(Rest(p, 5)) IN <<High(crc), Low(crc)>>

\* What Packet lays out, with any header: the glasses' packets have the same
\* framing. The length counts from offset 8.
Framed(header, cmd, counter, payload) ==
    LET rest == LittleEndian(HeaderSize + Len(payload) + 1 - 8)
                \o <<0, 0, 0, 0, 0, 0, 0, 0>>
                \o LittleEndian(cmd) \o LittleEndian(counter) \o payload \o <<EndMarker>>
    IN  header \o Checksum(<<0, 0, 0, 0>> \o rest) \o rest

Packet(cmd, counter, payload) == Framed(HeaderCommand, cmd, counter, payload)

EnableIMU(on, counter) == Packet(21, counter, <<IF on THEN 1 ELSE 0>>)

\* Bug: the checksum is not looked at.
Valid_Unchecked(p) ==
    Len(p) >= 4 /\ SubSeq(p, 1, 2) \in {HeaderCommand, HeaderAck, HeaderIMU}

Valid(p) ==
    /\ Len(p) >= 4
    /\ SubSeq(p, 1, 2) \in {HeaderCommand, HeaderAck, HeaderIMU}
    /\ SubSeq(p, 3, 4) = Checksum(p)

IsIMU(p) == Len(p) >= eulerOffset + 12 /\ SubSeq(p, 1, 2) = HeaderIMU

\* ParseIMU of a packet that is one: Z, X and Y.
ParseIMU(p) ==
    [n \in 1..3 |-> SubSeq(p, eulerOffset + 4 * n - 3, eulerOffset + 4 * n)]
=============================================================================
