-------------------------------- MODULE Crc ---------------------------------
(***************************************************************************)
(* The CRC-16 all frames of the firmware carry.  A byte, and the register, *)
(* is the set of its bits that are one.                                    *)
(***************************************************************************)
EXTENDS Integers, Sequences

Octet == SUBSET (0 .. 7)

Xor(a, b) == (a \cup b) \ (a \cap b)

(* crc16_ccitt: 0x1021, initially 0xFFFF                                   *)

CrcBit(crc) ==
  LET shifted == {i + 1 : i \in crc \ {15}}
  IN  IF 15 \in crc THEN Xor(shifted, {12, 5, 0}) ELSE shifted

CrcByte(crc, b) ==
  LET step[n \in 0 .. 8] ==
        IF n = 0 THEN Xor(crc, {i + 8 : i \in b}) ELSE CrcBit(step[n - 1])
  IN  step[8]

Crc16(bytes) ==
  LET crc[n \in 0 .. Len(bytes)] ==
        IF n = 0 THEN 0 .. 15 ELSE CrcByte(crc[n - 1], bytes[n])
  IN  crc[Len(bytes)]

=============================================================================
