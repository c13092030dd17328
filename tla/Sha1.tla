-------------------------------- MODULE Sha1 --------------------------------
(***************************************************************************)
(* The incremental SHA-1 of vDB: how the bytes of the calls of Sha1Update  *)
(* are cut into blocks, counted and padded.  What the 80 rounds make of a  *)
(* block is left open: the state of the hash is the sequence of the blocks *)
(* it has been through, which determines it.                               *)
(***************************************************************************)
EXTENDS Integers, Sequences, SequencesExt

CONSTANTS
  SHA1_BLOCK_SIZE,   \* 64
  LENGTH_BYTES,      \* 8: size of the message length in the last block
  WORD,              \* 2^32: each of the two words of the bit count
  Bytes,             \* the bytes that messages are made of
  MaxLength          \* bound: length of a message

(* A block holds more than the length, and a word can tell the position in *)
(* a block.                                                                *)
ASSUME BlockAssumption ==
  /\ SHA1_BLOCK_SIZE \in Nat /\ LENGTH_BYTES \in Nat
  /\ LENGTH_BYTES < SHA1_BLOCK_SIZE
  /\ WORD \in Nat \ {0} /\ WORD % (8 * SHA1_BLOCK_SIZE) = 0

(* FIPS 180-4: the length in bits is below 2^64.                           *)
ASSUME LengthAssumption ==
  MaxLength \in Nat /\ 8 * MaxLength < WORD * WORD

VARIABLES
  ctx,      \* the Sha1Context: the blocks processed, count[0], count[1], buffer
  fed,      \* history: the message so far
  phase     \* "new", "feeding" or "final"

vars == <<ctx, fed, phase>>

PAD == 128

-----------------------------------------------------------------------------
(* memcpy to buffer + at.                                                  *)
Copied(buffer, at, data) ==
  [i \in DOMAIN buffer |->
     IF i - at \in DOMAIN data THEN data[i - at] ELSE buffer[i]]

ProcessBlock(blocks, block) == Append(blocks, block)

BufferUsed(c) == (c.count0 \div 8) % SHA1_BLOCK_SIZE

(* Mutant: the count is kept in one word, which does not wrap.             *)
Counted_OneWord(c, len) == [c EXCEPT !.count0 = @ + 8 * len]

(* The 64-bit count of the bits, in two words; size_t has 32 bits or more. *)
Counted(c, len) ==
  LET bit_count == (8 * len) % WORD
      count0    == (c.count0 + bit_count) % WORD
      carry     == IF count0 < bit_count THEN 1 ELSE 0
  IN  [c EXCEPT !.count0 = count0,
                !.count1 = (@ + carry + len \div (WORD \div 8)) % WORD]

(* Mutant: data that just fills the buffer stays in it.                    *)
Completes_Strict(used, len) == used > 0 /\ len > SHA1_BLOCK_SIZE - used

(* The data completes the block that is in the buffer.                     *)
Completes(used, len) == used > 0 /\ len >= SHA1_BLOCK_SIZE - used

CompleteBlock(c, used, data) ==
  LET block == Copied(c.buffer, used,
                      SubSeq(data, 1, SHA1_BLOCK_SIZE - used))
  IN  [c EXCEPT !.buffer = block, !.blocks = ProcessBlock(@, block)]

(* One call of ProcessBlock for each full block, in order.                  *)
ProcessFullBlocks(c, data) ==
  LET Block(k) == SubSeq(data, SHA1_BLOCK_SIZE * (k - 1) + 1,
                               SHA1_BLOCK_SIZE * k)
  IN  [c EXCEPT !.blocks =
         @ \o [k \in 1 .. Len(data) \div SHA1_BLOCK_SIZE |-> Block(k)]]

Updated(c, data) ==
  LET used     == BufferUsed(c)
      fills    == Completes(used, Len(data))
      counted  == Counted(c, Len(data))
      begun    == IF fills THEN CompleteBlock(counted, used, data) ELSE counted
      rest     == IF fills
                  THEN SubSeq(data, SHA1_BLOCK_SIZE - used + 1, Len(data))
                  ELSE data
      whole    == Len(rest) - (Len(rest) % SHA1_BLOCK_SIZE)
      buffered == SubSeq(rest, whole + 1, Len(rest))
  IN  IF data = <<>> THEN c
      ELSE [ProcessFullBlocks(begun, rest) EXCEPT
              !.buffer = Copied(@, IF fills THEN 0 ELSE used, buffered)]

(* Mutant: a buffer that leaves no room but for the length gets no padding *)
(* of its own.                                                             *)
PadLength_OneBlock(used) ==
  IF used <= SHA1_BLOCK_SIZE - LENGTH_BYTES
  THEN SHA1_BLOCK_SIZE - LENGTH_BYTES - used
  ELSE 2 * SHA1_BLOCK_SIZE - LENGTH_BYTES - used

(* 56 and 120 in the code.                                                 *)
PadLength(used) ==
  IF used < SHA1_BLOCK_SIZE - LENGTH_BYTES
  THEN SHA1_BLOCK_SIZE - LENGTH_BYTES - used
  ELSE 2 * SHA1_BLOCK_SIZE - LENGTH_BYTES - used

(* The length, high word first; each word is its last byte and zeros       *)
(* before it (the order of the bytes that StoreBE32 gives is left out).    *)
LengthBytes(hi, lo) ==
  LET half == LENGTH_BYTES \div 2
  IN  [i \in 1 .. LENGTH_BYTES |->
         CASE i = half         -> hi
           [] i = LENGTH_BYTES -> lo
           [] OTHER            -> 0]

Finished(c) ==
  LET padding == [i \in 1 .. PadLength(BufferUsed(c)) |->
                    IF i = 1 THEN PAD ELSE 0]
  IN  Updated(Updated(c, padding), LengthBytes(c.count1, c.count0))

-----------------------------------------------------------------------------
(* The buffer of a context is not initialized.                             *)
Init ==
  /\ \E b \in Bytes :
       ctx = [blocks |-> <<>>, count0 |-> 0, count1 |-> 0,
              buffer |-> [i \in 1 .. SHA1_BLOCK_SIZE |-> b]]
  /\ fed = <<>>
  /\ phase = "new"

(* A context may be used again for another message.                        *)
Sha1Init ==
  /\ phase' = "feeding"
  /\ ctx' = [ctx EXCEPT !.blocks = <<>>, !.count0 = 0, !.count1 = 0]
  /\ fed' = <<>>

Sha1Update(data) ==
  /\ phase = "feeding"
  /\ ctx' = Updated(ctx, data)
  /\ fed' = fed \o data
  /\ UNCHANGED phase

Sha1Final ==
  /\ phase = "feeding"
  /\ phase' = "final"
  /\ ctx' = Finished(ctx)
  /\ UNCHANGED fed

Next ==
  \/ Sha1Init
  \/ \E data \in BoundedSeq(Bytes, MaxLength - Len(fed)) : Sha1Update(data)
  \/ Sha1Final

Spec == Init /\ [][Next]_vars

-----------------------------------------------------------------------------
TypeOK ==
  /\ ctx.count0 \in 0 .. WORD - 1
  /\ ctx.count1 \in 0 .. WORD - 1
  /\ ctx.buffer \in [1 .. SHA1_BLOCK_SIZE -> Bytes \cup {PAD} \cup 0 .. WORD - 1]
  /\ \A i \in DOMAIN ctx.blocks : Len(ctx.blocks[i]) = SHA1_BLOCK_SIZE
  /\ fed \in BoundedSeq(Bytes, MaxLength)
  /\ phase \in {"new", "feeding", "final"}

(* However a message is cut into calls of Sha1Update, the blocks processed *)
(* and the bytes buffered are the message, and the count is its length.    *)
NoByteLost ==
  phase = "feeding" =>
    /\ FlattenSeq(ctx.blocks) \o SubSeq(ctx.buffer, 1, BufferUsed(ctx)) = fed
    /\ ctx.count1 * WORD + ctx.count0 = 8 * Len(fed)

(* FIPS 180-4, 5.1.1: the message, a one bit, as few zeros as make the     *)
(* length of the message end a block.                                      *)
Padded(msg) ==
  LET bits  == 8 * Len(msg)
      zeros == CHOOSE z \in 0 .. SHA1_BLOCK_SIZE - 1 :
                 (Len(msg) + 1 + z + LENGTH_BYTES) % SHA1_BLOCK_SIZE = 0
  IN  msg \o <<PAD>> \o [i \in 1 .. zeros |-> 0]
          \o LengthBytes(bits \div WORD, bits % WORD)

(* The digest of a context, new or used before, is the one FIPS 180-4      *)
(* gives: that of the blocks of the padded message.                        *)
DigestExact ==
  phase = "final" => FlattenSeq(ctx.blocks) = Padded(fed)
=============================================================================
