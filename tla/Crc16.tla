------------------------------- MODULE Crc16 -------------------------------
(***************************************************************************)
(* CRC-16/CCITT as vDB computes it, a byte at a time from a table, and its *)
(* definition, a bit at a time.  It guards the entries of the journal and  *)
(* makes the keys of string indexes.                                       *)
(***************************************************************************)
EXTENDS Integers, Sequences, SequencesExt, Bitwise

POLYNOMIAL == 4129              \* 0x1021
INITIAL    == 65535             \* 0xFFFF

(* One bit to the left, in 16 bits.                                        *)
Left(crc) == (2 * crc) % 65536

TopBit(crc) == crc \div 32768

(* Mutant: the bit is tested after the shift.                              *)
Shifted_TestAfter(crc) ==
  IF TopBit(Left(crc)) = 1 THEN Left(crc) ^^ POLYNOMIAL ELSE Left(crc)

Shifted(crc) ==
  IF TopBit(crc) = 1 THEN Left(crc) ^^ POLYNOMIAL ELSE Left(crc)

(* BuildTable.                                                             *)
crc_table ==
  [i \in 0 .. 255 |->
     LET crc[j \in 0 .. 8] == IF j = 0 THEN 256 * i ELSE Shifted(crc[j - 1])
     IN  crc[8]]

(* Mutant: the high byte of the register is not fed back.                  *)
WithByte_NoFeedback(crc, b) == ((256 * crc) % 65536) ^^ crc_table[b]

WithByte(crc, b) ==
  ((256 * crc) % 65536) ^^ crc_table[(crc \div 256) ^^ b]

CrcOf(data) == FoldLeft(WithByte, INITIAL, data)

-----------------------------------------------------------------------------
(* The definition: the bits of the message, the highest of each byte       *)
(* first, go through a shift register with feedback.                       *)
Bits(data) ==
  FlattenSeq([i \in DOMAIN data |->
                [k \in 1 .. 8 |-> (data[i] \div 2 ^ (8 - k)) % 2]])

WithBit(crc, bit) ==
  IF TopBit(crc) # bit THEN Left(crc) ^^ POLYNOMIAL ELSE Left(crc)

CrcByBits(data) == FoldLeft(WithBit, INITIAL, Bits(data))
=============================================================================
