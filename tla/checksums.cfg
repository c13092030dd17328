SPECIFICATION Spec
CONSTANTS
  SHA1_BLOCK_SIZE = 4
  LENGTH_BYTES = 2
  WORD = 32
  Bytes = {0, 128}
  MaxLength = 9
INVARIANTS TypeOK NoByteLost DigestExact CrcExact CrcNoticesChange
CHECK_DEADLOCK FALSE
