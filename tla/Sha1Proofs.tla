----------------------------- MODULE Sha1Proofs -----------------------------
(***************************************************************************)
(* The incremental SHA-1 processes the blocks of the padded message, for   *)
(* every block size, length field, word size and message, however the      *)
(* message is cut into calls.  The inductive invariant says that a context *)
(* holds the message: the blocks processed are its full blocks, the buffer *)
(* begins with what is left, and the two words are its length in bits.     *)
(***************************************************************************)
EXTENDS Sha1, WellFoundedInduction, SequenceTheorems, TLAPS

Values == Bytes \cup {PAD} \cup 0 .. WORD - 1

Blocks == [1 .. SHA1_BLOCK_SIZE -> Values]

Contexts == [blocks : Seq(Blocks), count0 : 0 .. WORD - 1,
             count1 : 0 .. WORD - 1, buffer : Blocks]

(* The sequence of blocks is the first p blocks of the message.            *)
Cut(blocks, msg, p) ==
  /\ blocks \in Seq(Blocks) /\ Len(blocks) = p
  /\ \A k \in 1 .. p : \A i \in 1 .. SHA1_BLOCK_SIZE :
       blocks[k][i] = msg[SHA1_BLOCK_SIZE * (k - 1) + i]

(* The buffer begins with what is behind the last full block.              *)
Kept(buffer, msg) ==
  \A i \in 1 .. Len(msg) % SHA1_BLOCK_SIZE :
    buffer[i] = msg[SHA1_BLOCK_SIZE * (Len(msg) \div SHA1_BLOCK_SIZE) + i]

Count(c, len) ==
  c.count0 = (8 * len) % WORD /\ c.count1 = ((8 * len) \div WORD) % WORD

Holds(c, msg) ==
  /\ c \in Contexts /\ msg \in Seq(Values)
  /\ Cut(c.blocks, msg, Len(msg) \div SHA1_BLOCK_SIZE)
  /\ Kept(c.buffer, msg)
  /\ Count(c, Len(msg))

IInv ==
  /\ ctx \in Contexts
  /\ fed \in BoundedSeq(Bytes, MaxLength)
  /\ phase \in {"new", "feeding", "final"}
  /\ phase = "feeding" => Holds(ctx, fed)
  /\ phase = "final" => Holds(ctx, Padded(fed))

-----------------------------------------------------------------------------
(* Division with remainder.                                                *)

(* From one multiple to the next it is at least n.                         *)
LEMMA NextMultiple ==
  ASSUME NEW n \in Nat, NEW r \in Nat, NEW s \in Nat, r < s
  PROVE  n * r + n <= n * s
<1> DEFINE d == s - (r + 1)
<1>1. d \in Nat /\ s = r + 1 + d
  OBVIOUS
<1>2. n * d \in Nat
  BY <1>1
<1>3. n * (r + 1 + d) = n * r + n + n * d
  BY <1>1
<1> QED BY <1>1, <1>2, <1>3

(* The quotient and the remainder of a number divide it ...               *)
LEMMA DivMod ==
  ASSUME NEW a \in Nat, NEW d \in Nat \ {0}
  PROVE  /\ a \div d \in Nat /\ a % d \in 0 .. d - 1
         /\ a = d * (a \div d) + (a % d)
OBVIOUS

(* ... and nothing else does.                                              *)
LEMMA DivModUnique ==
  ASSUME NEW a \in Nat, NEW d \in Nat \ {0},
         NEW q \in Nat, NEW r \in 0 .. d - 1, a = d * q + r
  PROVE  a \div d = q /\ a % d = r
<1>1. PICK x \in Nat, y \in 0 .. d - 1 :
        x = a \div d /\ y = a % d /\ a = d * x + y
  BY DivMod
<1>2. d * x \in Nat /\ d * q \in Nat
  OBVIOUS
<1>3. ~(x < q)
  <2> SUFFICES ASSUME x < q PROVE FALSE
    OBVIOUS
  <2>1. d * x + d <= d * q
    BY NextMultiple
  <2> QED BY <1>1, <1>2, <2>1
<1>4. ~(q < x)
  <2> SUFFICES ASSUME q < x PROVE FALSE
    OBVIOUS
  <2>1. d * q + d <= d * x
    BY NextMultiple
  <2> QED BY <1>1, <1>2, <2>1
<1>5. x = q
  BY <1>3, <1>4
<1> QED BY <1>1, <1>2, <1>5

(* A multiple of the divisor, taken off first, makes no difference.        *)
LEMMA ModAdd ==
  ASSUME NEW a \in Nat, NEW k \in Nat, NEW d \in Nat \ {0}
  PROVE  (a + k) % d = ((a % d) + k) % d
<1>1. PICK x \in Nat, y \in 0 .. d - 1 : y = a % d /\ a = d * x + y
  BY DivMod
<1>2. PICK z \in Nat, w \in 0 .. d - 1 : y + k = d * z + w
  <2>1. y + k \in Nat
    OBVIOUS
  <2> QED BY <2>1, DivMod
<1>3. (y + k) % d = w
  <2>1. y + k \in Nat
    OBVIOUS
  <2> QED BY <1>2, <2>1, DivModUnique
<1>4. a + k = d * (x + z) + w
  <2>1. d * (x + z) = d * x + d * z
    OBVIOUS
  <2> QED BY <1>1, <1>2, <2>1
<1>5. (a + k) % d = w
  <2>1. a + k \in Nat /\ x + z \in Nat
    OBVIOUS
  <2> QED BY <1>4, <2>1, DivModUnique
<1> QED BY <1>1, <1>3, <1>5

-----------------------------------------------------------------------------
(* The count.                                                              *)

(* A word is a number of blocks of bits.                                   *)
LEMMA WordOfBlocks ==
  \E m \in Nat \ {0} : /\ WORD = 8 * (SHA1_BLOCK_SIZE * m)
                       /\ WORD \div 8 = SHA1_BLOCK_SIZE * m
                       /\ SHA1_BLOCK_SIZE * m \in Nat \ {0}
<1>1. SHA1_BLOCK_SIZE \in Nat \ {0} /\ WORD \in Nat \ {0}
  BY BlockAssumption
<1>2. PICK b \in Nat \ {0} : b = 8 * SHA1_BLOCK_SIZE
  BY <1>1
<1>3. WORD = b * (WORD \div b) /\ WORD \div b \in Nat
  <2>1. WORD % b = 0
    BY <1>2, BlockAssumption
  <2> QED BY <1>1, <2>1, DivMod
<1>4. PICK m \in Nat : WORD = b * m
  BY <1>3
<1>5. m # 0
  BY <1>1, <1>4
<1>6. b * m = 8 * (SHA1_BLOCK_SIZE * m)
  BY <1>1, <1>2
<1>7. SHA1_BLOCK_SIZE * m \in Nat \ {0}
  BY <1>1, <1>5
<1>8. WORD \div 8 = SHA1_BLOCK_SIZE * m
  BY <1>4, <1>6, <1>7
<1> QED BY <1>4, <1>5, <1>6, <1>7, <1>8

(* The low word of the count tells how much of the buffer is used.         *)
LEMMA UsedIs ==
  ASSUME NEW len \in Nat, NEW c, Count(c, len)
  PROVE  BufferUsed(c) = len % SHA1_BLOCK_SIZE
<1>1. PICK m \in Nat \ {0} : WORD = 8 * (SHA1_BLOCK_SIZE * m)
  BY WordOfBlocks
<1>2. PICK b \in Nat \ {0} : b = SHA1_BLOCK_SIZE
  BY BlockAssumption
<1>3. PICK h \in Nat, w \in 0 .. WORD - 1 :
        w = (8 * len) % WORD /\ 8 * len = WORD * h + w
  <2>1. PICK bits \in Nat : bits = 8 * len
    OBVIOUS
  <2>2. /\ bits \div WORD \in Nat /\ bits % WORD \in 0 .. WORD - 1
        /\ bits = WORD * (bits \div WORD) + (bits % WORD)
    BY BlockAssumption, DivMod
  <2> QED BY <2>1, <2>2
<1>4. WORD * h = 8 * (b * (m * h)) /\ b * (m * h) \in Nat
  BY <1>1, <1>2
<1>5. PICK x \in Nat : w = 8 * x /\ len = b * (m * h) + x
  <2>1. PICK y \in Nat : y = b * (m * h)
    BY <1>4
  <2>2. w \in Nat /\ 8 * len = 8 * y + w
    BY <1>3, <1>4, <2>1, BlockAssumption
  <2>3. len - y \in Nat /\ w = 8 * (len - y) /\ len = y + (len - y)
    BY <2>1, <2>2
  <2> QED BY <2>1, <2>3
<1>6. PICK z \in Nat, r \in 0 .. b - 1 : r = x % b /\ x = b * z + r
  <2>1. x \div b \in Nat /\ x % b \in 0 .. b - 1 /\ x = b * (x \div b) + (x % b)
    BY DivMod
  <2> QED BY <2>1
<1>7. len = b * (m * h + z) + r
  <2>1. b * (m * h + z) = b * (m * h) + b * z
    OBVIOUS
  <2> QED BY <1>5, <1>6, <2>1
<1>8. len % b = r
  <2>1. m * h + z \in Nat
    OBVIOUS
  <2> QED BY <1>7, <2>1, DivModUnique
<1>9. c.count0 \div 8 = x
  BY <1>3, <1>5 DEF Count
<1> QED BY <1>2, <1>6, <1>8, <1>9 DEF BufferUsed

(* The carry test, on numbers.                                             *)
LEMMA Carry ==
  ASSUME NEW w \in Nat \ {0}, NEW c0 \in 0 .. w - 1, NEW bits \in 0 .. w - 1
  PROVE  LET sum == (c0 + bits) % w
         IN  c0 + bits = w * (IF sum < bits THEN 1 ELSE 0) + sum
<1>1. CASE c0 + bits < w
  <2>1. c0 + bits = w * 0 + (c0 + bits) /\ c0 + bits \in 0 .. w - 1
    BY <1>1
  <2>2. (c0 + bits) % w = c0 + bits
    BY <2>1, DivModUnique
  <2> QED BY <2>1, <2>2
<1>2. CASE ~(c0 + bits < w)
  <2>1. c0 + bits = w * 1 + (c0 + bits - w) /\ c0 + bits - w \in 0 .. w - 1
    BY <1>2
  <2>2. (c0 + bits) % w = c0 + bits - w
    BY <2>1, DivModUnique
  <2>3. c0 + bits - w < bits
    OBVIOUS
  <2> QED BY <2>1, <2>2, <2>3
<1> QED BY <1>1, <1>2

(* Counted adds the length to the two words of the count.                  *)
LEMMA CountAdvances ==
  ASSUME NEW len \in Nat, NEW n \in Nat, NEW c \in Contexts, Count(c, len)
  PROVE  /\ Counted(c, n) \in Contexts
         /\ Counted(c, n).blocks = c.blocks /\ Counted(c, n).buffer = c.buffer
         /\ Count(Counted(c, n), len + n)
<1>1. PICK e \in Nat \ {0} : WORD = 8 * e /\ WORD \div 8 = e
  BY WordOfBlocks
<1>2. PICK h \in Nat, w \in 0 .. WORD - 1 :
        w = (8 * len) % WORD /\ h = (8 * len) \div WORD
        /\ 8 * len = WORD * h + w
  <2>1. PICK bits \in Nat : bits = 8 * len
    OBVIOUS
  <2>2. /\ bits \div WORD \in Nat /\ bits % WORD \in 0 .. WORD - 1
        /\ bits = WORD * (bits \div WORD) + (bits % WORD)
    BY BlockAssumption, DivMod
  <2> QED BY <2>1, <2>2
<1>3. PICK q \in Nat, r \in 0 .. e - 1 : q = n \div e /\ n = e * q + r
  BY DivMod
<1>4. PICK bits \in 0 .. WORD - 1 : bits = 8 * r
  BY <1>1
<1>16. PICK wq \in Nat : wq = WORD * q /\ 8 * n = wq + bits
  <2>1. PICK y \in Nat : y = e * q
    OBVIOUS
  <2>2. WORD * q = 8 * y
    BY <1>1, <2>1
  <2>3. 8 * n = 8 * y + bits
    BY <1>3, <1>4, <2>1
  <2> QED BY <2>1, <2>2, <2>3
<1>5. (8 * n) % WORD = bits
  <2>1. PICK a \in Nat : a = 8 * n
    OBVIOUS
  <2>2. a = WORD * q + bits
    BY <1>16, <2>1
  <2>3. a % WORD = bits
    BY <2>2, BlockAssumption, DivModUnique
  <2> QED BY <2>1, <2>3
<1>6. PICK sum \in 0 .. WORD - 1 : sum = (w + bits) % WORD
  <2>1. w + bits \in Nat
    BY BlockAssumption
  <2> QED BY <2>1, BlockAssumption, DivMod
<1>7. PICK carry \in {0, 1} : carry = IF sum < bits THEN 1 ELSE 0
  OBVIOUS
<1>8. w + bits = WORD * carry + sum
  BY <1>6, <1>7, BlockAssumption, Carry
<1>9. PICK hi \in Nat : hi = h + carry + q
  OBVIOUS
<1>10. 8 * (len + n) = WORD * hi + sum
  <2>1. PICK wh \in Nat : wh = WORD * h
    BY BlockAssumption
  <2>2. PICK wc \in Nat : wc = WORD * carry
    BY BlockAssumption
  <2>3. PICK wt \in Nat : wt = WORD * hi
    BY BlockAssumption
  <2>6. wt = wh + wc + wq
    BY <1>9, <1>16, <2>1, <2>2, <2>3, BlockAssumption
  <2>4. 8 * len = wh + w /\ w + bits = wc + sum
    BY <1>2, <1>8, <2>1, <2>2
  <2>5. w \in Nat /\ sum \in Nat /\ bits \in Nat
    BY BlockAssumption
  <2>7. 8 * n = wq + bits
    BY <1>16
  <2>8. 8 * (len + n) = wt + sum
    BY <2>4, <2>5, <2>6, <2>7
  <2> QED BY <2>3, <2>8
<1>11. /\ (8 * (len + n)) % WORD = sum
       /\ (8 * (len + n)) \div WORD = hi
  <2>1. PICK a \in Nat : a = 8 * (len + n)
    OBVIOUS
  <2>2. a = WORD * hi + sum
    BY <1>10, <2>1
  <2>3. a % WORD = sum /\ a \div WORD = hi
    BY <2>2, BlockAssumption, DivModUnique
  <2> QED BY <2>1, <2>3
<1>12. ((h % WORD) + carry + q) % WORD = hi % WORD
  <2>1. carry + q \in Nat /\ hi = h + (carry + q)
    BY <1>9
  <2>2. (h + (carry + q)) % WORD = ((h % WORD) + (carry + q)) % WORD
    <3>1. WORD \in Nat \ {0} /\ h \in Nat /\ carry + q \in Nat
      BY <2>1, BlockAssumption
    <3> QED BY <3>1, ModAdd
  <2>3. h % WORD \in Nat
    BY BlockAssumption, DivMod
  <2>4. (h % WORD) + (carry + q) = (h % WORD) + carry + q
    BY <2>3
  <2> QED BY <2>1, <2>2, <2>4
<1>13. c.count0 = w /\ c.count1 = h % WORD
  BY <1>2 DEF Count
<1>14. Counted(c, n) = [c EXCEPT !.count0 = sum, !.count1 = hi % WORD]
  BY <1>1, <1>3, <1>5, <1>6, <1>7, <1>12, <1>13 DEF Counted
<1>15. hi % WORD \in 0 .. WORD - 1
  BY BlockAssumption, DivMod
<1> QED BY <1>11, <1>14, <1>15 DEF Contexts, Count

-----------------------------------------------------------------------------
(* A sequence is what its length and its elements say.                     *)
LEMMA SubSeqIs ==
  ASSUME NEW S, NEW s \in Seq(S), NEW m \in Nat \ {0}, NEW n \in Nat,
         n <= Len(s), m <= n + 1
  PROVE  /\ SubSeq(s, m, n) \in Seq(S)
         /\ Len(SubSeq(s, m, n)) = n - m + 1
         /\ \A i \in 1 .. (n - m + 1) : SubSeq(s, m, n)[i] = s[m + i - 1]
OBVIOUS

(* What is where in the second part of a concatenation ...                 *)
LEMMA ConcatSecond ==
  ASSUME NEW S, NEW s \in Seq(S), NEW t \in Seq(S), NEW i \in 1 .. Len(t)
  PROVE  (s \o t)[Len(s) + i] = t[i]
OBVIOUS

(* ... and in a concatenation of sequences of known lengths.               *)
LEMMA ConcatIs ==
  ASSUME NEW S, NEW s \in Seq(S), NEW t \in Seq(S),
         NEW m, NEW n, m = Len(s), n = Len(t)
  PROVE  /\ s \o t \in Seq(S) /\ Len(s \o t) = m + n
         /\ \A i \in 1 .. m : (s \o t)[i] = s[i]
         /\ \A i \in 1 .. n : (s \o t)[m + i] = t[i]
<1>1. s \o t \in Seq(S) /\ Len(s \o t) = Len(s) + Len(t)
  BY ConcatProperties, Zenon
<1>2. \A i \in 1 .. Len(s) : (s \o t)[i] = s[i]
  OBVIOUS
<1>3. \A i \in 1 .. Len(t) : (s \o t)[Len(s) + i] = t[i]
  BY ConcatSecond, Zenon
<1> QED BY <1>1, <1>2, <1>3, Zenon

(* A run of the message that is as long as a block is a block.             *)
LEMMA BlockOf ==
  ASSUME NEW data \in Seq(Values), NEW m \in Nat,
         m + SHA1_BLOCK_SIZE <= Len(data)
  PROVE  LET block == SubSeq(data, m + 1, m + SHA1_BLOCK_SIZE)
         IN  /\ block \in Blocks
             /\ \A i \in 1 .. SHA1_BLOCK_SIZE : block[i] = data[m + i]
<1> DEFINE n     == m + SHA1_BLOCK_SIZE
           block == SubSeq(data, m + 1, n)
<1>1. /\ n \in Nat /\ m + 1 \in Nat \ {0} /\ n <= Len(data) /\ m + 1 <= n + 1
      /\ n - (m + 1) + 1 = SHA1_BLOCK_SIZE /\ SHA1_BLOCK_SIZE \in Nat
  BY BlockAssumption
<1>2. /\ block \in Seq(Values) /\ Len(block) = SHA1_BLOCK_SIZE
      /\ \A i \in 1 .. SHA1_BLOCK_SIZE : block[i] = data[m + 1 + i - 1]
  <2> HIDE DEF n
  <2>1. /\ SubSeq(data, m + 1, n) \in Seq(Values)
        /\ Len(SubSeq(data, m + 1, n)) = n - (m + 1) + 1
        /\ \A i \in 1 .. (n - (m + 1) + 1) :
             SubSeq(data, m + 1, n)[i] = data[m + 1 + i - 1]
    <3>1. /\ m + 1 \in Nat \ {0} /\ n \in Nat
          /\ n <= Len(data) /\ m + 1 <= n + 1
      BY <1>1
    <3> QED BY <3>1, SubSeqIs, Zenon
  <2> QED BY <1>1, <2>1
<1>3. \A i \in 1 .. SHA1_BLOCK_SIZE : m + 1 + i - 1 = m + i
  BY <1>1
<1> HIDE DEF block
<1>4. block \in Blocks
  BY <1>2 DEF Blocks
<1>5. \A i \in 1 .. SHA1_BLOCK_SIZE : block[i] = data[m + i]
  BY <1>2, <1>3
<1> QED BY <1>4, <1>5 DEF block

-----------------------------------------------------------------------------
(* Cutting the message.                                                    *)

(* What was cut stays cut when the message goes on.                        *)
LEMMA CutKept ==
  ASSUME NEW msg \in Seq(Values), NEW data \in Seq(Values), NEW p \in Nat,
         NEW blocks, Cut(blocks, msg, p), SHA1_BLOCK_SIZE * p <= Len(msg)
  PROVE  Cut(blocks, msg \o data, p)
<1>1. ASSUME NEW k \in 1 .. p, NEW i \in 1 .. SHA1_BLOCK_SIZE
      PROVE  (msg \o data)[SHA1_BLOCK_SIZE * (k - 1) + i]
               = msg[SHA1_BLOCK_SIZE * (k - 1) + i]
  <2>1. PICK b \in Nat : b = SHA1_BLOCK_SIZE /\ i \in 1 .. b
    BY BlockAssumption
  <2>2. b * (k - 1) + b <= b * p
    BY NextMultiple
  <2>3. PICK at \in Nat : at = b * (k - 1) + i
    BY <2>1
  <2>4. PICK x \in Nat, y \in Nat : x = b * (k - 1) /\ y = b * p
    OBVIOUS
  <2>5. at >= 1 /\ at <= y
    BY <2>1, <2>2, <2>3, <2>4
  <2>6. at \in 1 .. Len(msg)
    BY <2>1, <2>4, <2>5
  <2> QED BY <2>1, <2>3, <2>6
<1> DEFINE new == msg \o data
<1> HIDE DEF new
<1>2. ASSUME NEW k \in 1 .. p, NEW i \in 1 .. SHA1_BLOCK_SIZE
      PROVE  blocks[k][i] = new[SHA1_BLOCK_SIZE * (k - 1) + i]
  BY <1>1, Zenon DEF Cut, new
<1>3. Cut(blocks, new, p)
  BY <1>2, Zenon DEF Cut
<1> QED BY <1>3 DEF new

(* One more block.                                                         *)
LEMMA CutAppend ==
  ASSUME NEW msg \in Seq(Values), NEW p \in Nat,
         NEW blocks, Cut(blocks, msg, p), NEW block \in Blocks,
         \A i \in 1 .. SHA1_BLOCK_SIZE : block[i] = msg[SHA1_BLOCK_SIZE * p + i]
  PROVE  Cut(ProcessBlock(blocks, block), msg, p + 1)
<1> DEFINE new == Append(blocks, block)
<1>1. /\ new \in Seq(Blocks) /\ Len(new) = p + 1
      /\ \A k \in 1 .. p : new[k] = blocks[k]
      /\ new[p + 1] = block
  BY DEF Cut
<1> HIDE DEF new
<1>2. ASSUME NEW k \in 1 .. p + 1, NEW i \in 1 .. SHA1_BLOCK_SIZE
      PROVE  new[k][i] = msg[SHA1_BLOCK_SIZE * (k - 1) + i]
  <2>1. CASE k = p + 1
    BY <1>1, <2>1
  <2>2. CASE k \in 1 .. p
    BY <1>1, <2>2 DEF Cut
  <2> QED BY <2>1, <2>2
<1>3. Cut(new, msg, p + 1)
  BY <1>1, <1>2 DEF Cut
<1> QED BY <1>3 DEF new, ProcessBlock

(* The full blocks of data that begins where a block ends.                 *)
FullBlocks(data) ==
  [k \in 1 .. Len(data) \div SHA1_BLOCK_SIZE |->
     SubSeq(data, SHA1_BLOCK_SIZE * (k - 1) + 1, SHA1_BLOCK_SIZE * k)]

(* They are blocks, and together the data but for the remainder.           *)
LEMMA FullBlocksAre ==
  ASSUME NEW data \in Seq(Values)
  PROVE  /\ FullBlocks(data) \in Seq(Blocks)
         /\ Len(FullBlocks(data)) = Len(data) \div SHA1_BLOCK_SIZE
         /\ \A k \in 1 .. Len(data) \div SHA1_BLOCK_SIZE :
              \A i \in 1 .. SHA1_BLOCK_SIZE :
                FullBlocks(data)[k][i] = data[SHA1_BLOCK_SIZE * (k - 1) + i]
<1>1. PICK b \in Nat \ {0} : b = SHA1_BLOCK_SIZE
  BY BlockAssumption
<1>2. PICK n \in Nat : n = Len(data)
  OBVIOUS
<1>3. PICK t \in Nat, r \in 0 .. b - 1 : t = n \div b /\ n = b * t + r
  BY DivMod
<1>4. ASSUME NEW k \in 1 .. t
      PROVE  /\ FullBlocks(data)[k] \in Blocks
             /\ \A i \in 1 .. b : FullBlocks(data)[k][i] = data[b * (k - 1) + i]
  <2>1. PICK m \in Nat : m = b * (k - 1)
    OBVIOUS
  <2>2. b * k = m + b
    BY <2>1
  <2>3. m + b <= n
    <3>1. b * (k - 1) + b <= b * t
      BY NextMultiple
    <3>2. PICK x \in Nat : x = b * t
      OBVIOUS
    <3> QED BY <1>3, <2>1, <3>1, <3>2
  <2>4. FullBlocks(data)[k] = SubSeq(data, m + 1, m + b)
    BY <1>1, <1>2, <1>3, <2>1, <2>2 DEF FullBlocks
  <2>5. /\ SubSeq(data, m + 1, m + b) \in Blocks
        /\ \A i \in 1 .. b : SubSeq(data, m + 1, m + b)[i] = data[m + i]
    BY <1>1, <1>2, <2>3, BlockOf
  <2> QED BY <2>1, <2>4, <2>5
<1>5. FullBlocks(data) = [k \in 1 .. t |-> FullBlocks(data)[k]]
  BY <1>1, <1>2, <1>3 DEF FullBlocks
<1>6. FullBlocks(data) \in [1 .. t -> Blocks]
  BY <1>4, <1>5
<1>7. FullBlocks(data) \in Seq(Blocks) /\ Len(FullBlocks(data)) = t
  BY <1>6
<1> QED BY <1>1, <1>2, <1>3, <1>4, <1>7

(* Cut off the rest its full blocks, and the whole message is cut.         *)
LEMMA CutMore ==
  ASSUME NEW msg \in Seq(Values), NEW p \in Nat, NEW blocks,
         Cut(blocks, msg, p), NEW rest \in Seq(Values),
         Len(msg) = SHA1_BLOCK_SIZE * p + Len(rest),
         \A j \in 1 .. Len(rest) : rest[j] = msg[SHA1_BLOCK_SIZE * p + j]
  PROVE  /\ Cut(blocks \o FullBlocks(rest), msg, Len(msg) \div SHA1_BLOCK_SIZE)
         /\ Len(msg) % SHA1_BLOCK_SIZE = Len(rest) % SHA1_BLOCK_SIZE
         /\ Len(msg) \div SHA1_BLOCK_SIZE = p + (Len(rest) \div SHA1_BLOCK_SIZE)
<1>1. PICK b \in Nat \ {0} : b = SHA1_BLOCK_SIZE
  BY BlockAssumption
<1>2. PICK n \in Nat : n = Len(rest)
  OBVIOUS
<1>3. PICK t \in Nat, r \in 0 .. b - 1 :
        t = n \div b /\ r = n % b /\ n = b * t + r
  BY DivMod
<1>4. PICK l \in Nat : l = Len(msg)
  OBVIOUS
<1>5. l = b * (p + t) + r
  <2>1. PICK x \in Nat, y \in Nat : x = b * p /\ y = b * t
    OBVIOUS
  <2>2. b * (p + t) = x + y
    BY <2>1
  <2>3. l = x + n
    BY <1>1, <1>2, <1>4, <2>1
  <2> QED BY <1>3, <2>1, <2>2, <2>3
<1>6. l \div b = p + t /\ l % b = r
  <2>1. p + t \in Nat
    OBVIOUS
  <2> QED BY <1>5, <2>1, DivModUnique
<1> DEFINE new == blocks \o FullBlocks(rest)
<1>7. /\ FullBlocks(rest) \in Seq(Blocks) /\ Len(FullBlocks(rest)) = t
      /\ \A k \in 1 .. t : \A i \in 1 .. b :
           FullBlocks(rest)[k][i] = rest[b * (k - 1) + i]
  <2>1. Len(rest) \div SHA1_BLOCK_SIZE = t
    BY <1>1, <1>2, <1>3, Zenon
  <2>2. FullBlocks(rest) \in Seq(Blocks) /\ Len(FullBlocks(rest)) = t
    BY <2>1, FullBlocksAre, Zenon
  <2>3. \A k \in 1 .. t : \A i \in 1 .. SHA1_BLOCK_SIZE :
          FullBlocks(rest)[k][i] = rest[SHA1_BLOCK_SIZE * (k - 1) + i]
    BY <2>1, FullBlocksAre, Zenon
  <2> QED BY <1>1, <2>2, <2>3, Zenon
<1>8. /\ new \in Seq(Blocks) /\ Len(new) = p + t
      /\ \A k \in 1 .. p : new[k] = blocks[k]
      /\ \A k \in 1 .. t : new[p + k] = FullBlocks(rest)[k]
  <2>1. PICK more \in Seq(Blocks) : more = FullBlocks(rest) /\ Len(more) = t
    BY <1>7
  <2>2. blocks \in Seq(Blocks) /\ Len(blocks) = p
    BY DEF Cut
  <2>3. /\ blocks \o more \in Seq(Blocks) /\ Len(blocks \o more) = p + t
        /\ \A k \in 1 .. p : (blocks \o more)[k] = blocks[k]
        /\ \A k \in 1 .. t : (blocks \o more)[p + k] = more[k]
    <3>1. p = Len(blocks) /\ t = Len(more)
      BY <2>1, <2>2
    <3>2. blocks \in Seq(Blocks) /\ more \in Seq(Blocks)
      BY <2>1, <2>2
    <3>3. blocks \o more \in Seq(Blocks) /\ Len(blocks \o more) = p + t
      BY <3>1, <3>2, ConcatProperties, Zenon
    <3>4. \A k \in 1 .. p : (blocks \o more)[k] = blocks[k]
      BY <3>1, <3>2, ConcatIs, SMT
    <3>5. ASSUME NEW k \in 1 .. t PROVE (blocks \o more)[p + k] = more[k]
      BY <3>1, <3>2, ConcatIs, SMT
    <3> QED BY <3>3, <3>4, <3>5
  <2> QED BY <2>1, <2>3
<1> HIDE DEF new
<1>9. ASSUME NEW k \in 1 .. p + t, NEW i \in 1 .. b
      PROVE  new[k][i] = msg[b * (k - 1) + i]
  <2>1. CASE k \in 1 .. p
    BY <1>1, <1>8, <2>1 DEF Cut
  <2>2. CASE k > p
    <3>1. PICK j \in 1 .. t : k = p + j
      <4>1. k - p \in 1 .. t /\ k = p + (k - p)
        BY <2>2
      <4> QED BY <4>1
    <3>2. new[k][i] = rest[b * (j - 1) + i]
      <4>1. new[k] = FullBlocks(rest)[j]
        BY <1>8, <3>1
      <4>2. FullBlocks(rest)[j][i] = rest[b * (j - 1) + i]
        BY <1>7, Zenon
      <4> QED BY <4>1, <4>2
    <3>3. PICK m \in Nat : m = b * (j - 1)
      OBVIOUS
    <3>4. m + i \in 1 .. n
      <4>1. m + b <= b * t
        BY <3>3, NextMultiple
      <4>2. PICK y \in Nat : y = b * t
        OBVIOUS
      <4> QED BY <1>3, <4>1, <4>2
    <3>5. rest[m + i] = msg[b * p + (m + i)]
      BY <1>1, <1>2, <3>4
    <3>6. b * (k - 1) = b * p + m
      BY <3>1, <3>3
    <3>7. PICK x \in Nat : x = b * p
      OBVIOUS
    <3>8. b * (k - 1) + i = b * p + (m + i)
      BY <3>6, <3>7
    <3> QED BY <3>2, <3>3, <3>5, <3>8
  <2> QED BY <2>1, <2>2
<1>10. Cut(new, msg, p + t)
  BY <1>1, <1>8, <1>9 DEF Cut
<1> QED BY <1>1, <1>2, <1>3, <1>4, <1>6, <1>10 DEF new

-----------------------------------------------------------------------------
(* One call of Sha1Update.                                                 *)

(* What memcpy makes of the buffer.                                        *)
LEMMA CopiedIs ==
  ASSUME NEW buffer \in Blocks, NEW u \in Nat, NEW data \in Seq(Values),
         u + Len(data) <= SHA1_BLOCK_SIZE
  PROVE  /\ Copied(buffer, u, data) \in Blocks
         /\ \A i \in 1 .. u : Copied(buffer, u, data)[i] = buffer[i]
         /\ \A i \in 1 .. Len(data) : Copied(buffer, u, data)[u + i] = data[i]
<1>1. PICK b \in Nat : b = SHA1_BLOCK_SIZE
  BY BlockAssumption
<1>2. PICK n \in Nat : n = Len(data) /\ DOMAIN data = 1 .. n /\ u + n <= b
  BY <1>1
<1>3. DOMAIN buffer = 1 .. b
  BY <1>1 DEF Blocks
<1>4. Copied(buffer, u, data) =
        [i \in 1 .. b |-> IF i - u \in 1 .. n THEN data[i - u] ELSE buffer[i]]
  BY <1>2, <1>3 DEF Copied
<1>5. ASSUME NEW i \in 1 .. b
      PROVE  (IF i - u \in 1 .. n THEN data[i - u] ELSE buffer[i]) \in Values
  <2>1. buffer[i] \in Values
    BY <1>1 DEF Blocks
  <2>2. i - u \in 1 .. n => data[i - u] \in Values
    BY <1>2
  <2> QED BY <2>1, <2>2
<1>6. Copied(buffer, u, data) \in Blocks
  BY <1>1, <1>4, <1>5 DEF Blocks
<1>7. ASSUME NEW i \in 1 .. u PROVE i \in 1 .. b /\ i - u \notin 1 .. n
  BY <1>2
<1>8. ASSUME NEW i \in 1 .. n
      PROVE  u + i \in 1 .. b /\ (u + i) - u = i
  BY <1>2
<1>9. \A i \in 1 .. u : Copied(buffer, u, data)[i] = buffer[i]
  BY <1>4, <1>7
<1>10. \A i \in 1 .. n : Copied(buffer, u, data)[u + i] = data[i]
  BY <1>4, <1>8
<1> QED BY <1>2, <1>6, <1>9, <1>10

(* The rest of the data begins where a block does: its full blocks are     *)
(* processed, and what is behind them begins the buffer.                   *)
Rest(data) == SubSeq(data, Len(data) - (Len(data) % SHA1_BLOCK_SIZE) + 1, Len(data))

Behind(data, t) ==
  /\ Rest(data) \in Seq(Values)
  /\ Len(Rest(data)) = Len(data) % SHA1_BLOCK_SIZE
  /\ \A i \in 1 .. Len(data) % SHA1_BLOCK_SIZE :
       /\ SHA1_BLOCK_SIZE * t + i \in 1 .. Len(data)
       /\ Rest(data)[i] = data[SHA1_BLOCK_SIZE * t + i]

(* It is as long as the remainder, and lies behind the full blocks.        *)
LEMMA RestIs ==
  ASSUME NEW data \in Seq(Values), NEW t, t = Len(data) \div SHA1_BLOCK_SIZE
  PROVE  Behind(data, t)
<1>1. PICK b \in Nat \ {0} : b = SHA1_BLOCK_SIZE
  BY BlockAssumption
<1>2. PICK n \in Nat : n = Len(data)
  OBVIOUS
<1>3. PICK q \in Nat, r \in 0 .. b - 1 :
        q = n \div b /\ r = n % b /\ n = b * q + r
  BY DivMod
<1>4. t = q
  BY <1>1, <1>2, <1>3, Zenon
<1>5. PICK w \in Nat : w = b * q /\ n = w + r
  <2>1. PICK w \in Nat : w = b * q
    OBVIOUS
  <2> QED BY <1>3, <2>1
<1>6. n - r + 1 = w + 1
  BY <1>5
<1>7. Rest(data) = SubSeq(data, w + 1, n)
  BY <1>1, <1>2, <1>3, <1>6 DEF Rest
<1>8. /\ w + 1 \in Nat \ {0} /\ n \in Nat /\ n <= Len(data) /\ w + 1 <= n + 1
      /\ n - (w + 1) + 1 = r
  BY <1>2, <1>5
<1>9. /\ SubSeq(data, w + 1, n) \in Seq(Values)
      /\ Len(SubSeq(data, w + 1, n)) = n - (w + 1) + 1
      /\ \A i \in 1 .. (n - (w + 1) + 1) :
           SubSeq(data, w + 1, n)[i] = data[(w + 1) + i - 1]
  BY <1>8, SubSeqIs
<1>10. ASSUME NEW i \in 1 .. r
       PROVE  w + i \in 1 .. n /\ Rest(data)[i] = data[w + i]
  <2>1. (w + 1) + i - 1 = w + i /\ w + i \in 1 .. n
    BY <1>5
  <2> QED BY <1>7, <1>8, <1>9, <2>1
<1>11. Rest(data) \in Seq(Values) /\ Len(Rest(data)) = r
  BY <1>7, <1>8, <1>9
<1>12. r = Len(data) % SHA1_BLOCK_SIZE /\ w = SHA1_BLOCK_SIZE * t
  BY <1>1, <1>2, <1>3, <1>4, <1>5, Zenon
<1> QED BY <1>2, <1>10, <1>11, <1>12, Zenon DEF Behind

Remainder(c, at, data) ==
  [ProcessFullBlocks(c, data) EXCEPT !.buffer = Copied(@, at, Rest(data))]

(* A context after full blocks and a new buffer.                           *)
LEMMA RemainderIs ==
  ASSUME NEW c \in Contexts, NEW data \in Seq(Values), NEW at \in Nat,
         c.blocks \o FullBlocks(data) \in Seq(Blocks),
         Copied(c.buffer, at, Rest(data)) \in Blocks
  PROVE  LET r == Remainder(c, at, data)
         IN  /\ r \in Contexts
             /\ r.count0 = c.count0 /\ r.count1 = c.count1
             /\ r.blocks = c.blocks \o FullBlocks(data)
             /\ r.buffer = Copied(c.buffer, at, Rest(data))
<1>1. ProcessFullBlocks(c, data) = [c EXCEPT !.blocks = @ \o FullBlocks(data)]
  BY DEF ProcessFullBlocks, FullBlocks
<1>2. Remainder(c, at, data) =
        [[c EXCEPT !.blocks = c.blocks \o FullBlocks(data)]
            EXCEPT !.buffer = Copied(c.buffer, at, Rest(data))]
  BY <1>1 DEF Remainder, Contexts
<1> QED BY <1>2 DEF Contexts

(* Data that begins where a block does leaves its remainder in the buffer. *)
LEMMA FromBlock ==
  ASSUME NEW c \in Contexts, NEW msg \in Seq(Values), NEW p \in Nat,
         Cut(c.blocks, msg, p), NEW rest \in Seq(Values),
         Len(msg) = SHA1_BLOCK_SIZE * p + Len(rest),
         \A j \in 1 .. Len(rest) : rest[j] = msg[SHA1_BLOCK_SIZE * p + j]
  PROVE  LET r == Remainder(c, 0, rest)
         IN  /\ r \in Contexts
             /\ r.count0 = c.count0 /\ r.count1 = c.count1
             /\ Cut(r.blocks, msg, Len(msg) \div SHA1_BLOCK_SIZE)
             /\ Kept(r.buffer, msg)
<1> DEFINE r == Remainder(c, 0, rest)
<1>1. PICK b \in Nat \ {0} : b = SHA1_BLOCK_SIZE
  BY BlockAssumption
<1>2. PICK t \in Nat, u \in 0 .. b - 1 :
        t = Len(rest) \div SHA1_BLOCK_SIZE /\ u = Len(rest) % SHA1_BLOCK_SIZE
  <2>1. PICK n \in Nat : n = Len(rest)
    OBVIOUS
  <2>2. n \div b \in Nat /\ n % b \in 0 .. b - 1
    BY DivMod
  <2> QED BY <1>1, <2>1, <2>2
<1>3. /\ Cut(c.blocks \o FullBlocks(rest), msg, Len(msg) \div SHA1_BLOCK_SIZE)
      /\ Len(msg) % SHA1_BLOCK_SIZE = u
      /\ Len(msg) \div SHA1_BLOCK_SIZE = p + t
  BY <1>2, CutMore, Zenon
<1>4. /\ Rest(rest) \in Seq(Values)
      /\ Len(Rest(rest)) = u
      /\ \A i \in 1 .. u :
           /\ SHA1_BLOCK_SIZE * t + i \in 1 .. Len(rest)
           /\ Rest(rest)[i] = rest[SHA1_BLOCK_SIZE * t + i]
  <2>1. t = Len(rest) \div SHA1_BLOCK_SIZE /\ u = Len(rest) % SHA1_BLOCK_SIZE
    BY <1>2
  <2>2. Behind(rest, t)
    BY <2>1, RestIs
  <2> QED BY <2>1, <2>2, Zenon DEF Behind
<1>5. c.buffer \in Blocks /\ 0 \in Nat
  BY DEF Contexts
<1>6. 0 + Len(Rest(rest)) <= SHA1_BLOCK_SIZE
  BY <1>1, <1>4
<1>7. /\ Copied(c.buffer, 0, Rest(rest)) \in Blocks
      /\ \A i \in 1 .. u : Copied(c.buffer, 0, Rest(rest))[0 + i] = Rest(rest)[i]
  BY <1>4, <1>5, <1>6, CopiedIs, Zenon
<1>8. /\ r \in Contexts
      /\ r.count0 = c.count0 /\ r.count1 = c.count1
      /\ r.blocks = c.blocks \o FullBlocks(rest)
      /\ r.buffer = Copied(c.buffer, 0, Rest(rest))
  BY <1>3, <1>5, <1>7, RemainderIs, Zenon DEF Cut
<1> HIDE DEF r
<1>9. ASSUME NEW i \in 1 .. u
      PROVE  r.buffer[i] = msg[SHA1_BLOCK_SIZE * (p + t) + i]
  <2>1. 0 + i = i
    OBVIOUS
  <2>2. r.buffer[i] = Rest(rest)[i]
    BY <1>7, <1>8, <2>1, Zenon
  <2>3. Rest(rest)[i] = msg[SHA1_BLOCK_SIZE * p + (SHA1_BLOCK_SIZE * t + i)]
    BY <1>4, Zenon
  <2>4. PICK x \in Nat, y \in Nat : x = b * p /\ y = b * t
    OBVIOUS
  <2>5. b * (p + t) = x + y
    BY <2>4
  <2>6. b * (p + t) + i = b * p + (b * t + i)
    BY <2>4, <2>5
  <2> QED BY <1>1, <2>2, <2>3, <2>6, Zenon
<1>10. Kept(r.buffer, msg)
  BY <1>3, <1>9, Zenon DEF Kept
<1> QED BY <1>3, <1>8, <1>10 DEF r

(* Data that does not fill the block in the buffer goes behind it.         *)
LEMMA InBuffer ==
  ASSUME NEW c \in Contexts, NEW msg \in Seq(Values), NEW p \in Nat,
         NEW u \in Nat, Len(msg) = SHA1_BLOCK_SIZE * p + u,
         Cut(c.blocks, msg, p), Kept(c.buffer, msg),
         NEW data \in Seq(Values), u + Len(data) < SHA1_BLOCK_SIZE
  PROVE  LET r   == Remainder(c, u, data)
             new == msg \o data
         IN  /\ r \in Contexts
             /\ r.count0 = c.count0 /\ r.count1 = c.count1
             /\ Cut(r.blocks, new, Len(new) \div SHA1_BLOCK_SIZE)
             /\ Kept(r.buffer, new)
<1> DEFINE r == Remainder(c, u, data)
           new == msg \o data
<1>1. PICK b \in Nat \ {0} : b = SHA1_BLOCK_SIZE
  BY BlockAssumption
<1>2. PICK n \in Nat : n = Len(data) /\ u + n < b
  BY <1>1
<1>3. PICK x \in Nat : x = b * p
  OBVIOUS
<1>4. Len(msg) \div b = p /\ Len(msg) % b = u
  <2>1. PICK l \in Nat : l = Len(msg)
    OBVIOUS
  <2>2. l = b * p + u /\ u \in 0 .. b - 1
    BY <1>1, <1>2, <2>1
  <2> QED BY <2>1, <2>2, DivModUnique
<1>5. n \div b = 0 /\ n % b = n
  <2>1. n = b * 0 + n /\ n \in 0 .. b - 1
    BY <1>2
  <2> QED BY <2>1, DivModUnique
<1>6. /\ new \in Seq(Values)
      /\ \A i \in 1 .. Len(msg) : new[i] = msg[i]
      /\ \A i \in 1 .. Len(data) : new[Len(msg) + i] = data[i]
  <2>1. new \in Seq(Values)
    OBVIOUS
  <2>2. \A i \in 1 .. Len(msg) : new[i] = msg[i]
    OBVIOUS
  <2>3. \A i \in 1 .. Len(data) : new[Len(msg) + i] = data[i]
    BY ConcatSecond, Zenon
  <2> QED BY <2>1, <2>2, <2>3
<1>7. PICK l \in Nat : l = Len(new) /\ l = x + (u + n)
  <2>1. Len(new) = Len(msg) + Len(data)
    BY ConcatProperties, Zenon
  <2>2. Len(msg) = x + u
    BY <1>1, <1>3
  <2>3. Len(new) = x + u + n
    BY <1>2, <2>1, <2>2, Zenon
  <2>4. x + u + n \in Nat /\ x + u + n = x + (u + n)
    OBVIOUS
  <2> QED BY <2>3, <2>4
<1> HIDE DEF new
<1>8. l \div b = p /\ l % b = u + n
  <2>1. l = b * p + (u + n) /\ u + n \in 0 .. b - 1
    BY <1>2, <1>3, <1>7
  <2> QED BY <2>1, DivModUnique
<1>9. c.blocks \in Seq(Blocks) /\ c.buffer \in Blocks
  BY DEF Contexts
<1>10. c.blocks \o FullBlocks(data) = c.blocks
  <2>1. FullBlocks(data) \in Seq(Blocks) /\ Len(FullBlocks(data)) = 0
    BY <1>1, <1>2, <1>5, FullBlocksAre
  <2>2. FullBlocks(data) = <<>>
    BY <2>1
  <2> QED BY <1>9, <2>2
<1>11. /\ Rest(data) \in Seq(Values) /\ Len(Rest(data)) = n
       /\ \A i \in 1 .. n : Rest(data)[i] = data[i]
  <2>1. 0 = Len(data) \div SHA1_BLOCK_SIZE /\ n = Len(data) % SHA1_BLOCK_SIZE
    BY <1>1, <1>2, <1>5
  <2>2. /\ Rest(data) \in Seq(Values) /\ Len(Rest(data)) = n
        /\ \A i \in 1 .. n : Rest(data)[i] = data[SHA1_BLOCK_SIZE * 0 + i]
    <3>1. Behind(data, 0)
      BY <2>1, RestIs
    <3> QED BY <2>1, <3>1, Zenon DEF Behind
  <2>3. \A i \in 1 .. n : SHA1_BLOCK_SIZE * 0 + i = i
    BY <1>1
  <2> QED BY <2>2, <2>3
<1>12. u + Len(Rest(data)) <= SHA1_BLOCK_SIZE
  BY <1>1, <1>2, <1>11
<1>13. /\ Copied(c.buffer, u, Rest(data)) \in Blocks
       /\ \A i \in 1 .. u : Copied(c.buffer, u, Rest(data))[i] = c.buffer[i]
       /\ \A i \in 1 .. n :
            Copied(c.buffer, u, Rest(data))[u + i] = Rest(data)[i]
  <2>1. /\ Copied(c.buffer, u, Rest(data)) \in Blocks
        /\ \A i \in 1 .. u : Copied(c.buffer, u, Rest(data))[i] = c.buffer[i]
        /\ \A i \in 1 .. Len(Rest(data)) :
             Copied(c.buffer, u, Rest(data))[u + i] = Rest(data)[i]
    <3>1. Rest(data) \in Seq(Values)
      BY <1>11
    <3> QED BY <1>9, <1>12, <3>1, CopiedIs, Zenon
  <2>2. Len(Rest(data)) = n
    BY <1>11
  <2> QED BY <2>1, <2>2, Zenon
<1>14. /\ r \in Contexts
       /\ r.count0 = c.count0 /\ r.count1 = c.count1
       /\ r.blocks = c.blocks
       /\ r.buffer = Copied(c.buffer, u, Rest(data))
  BY <1>9, <1>10, <1>13, RemainderIs, Zenon
<1> HIDE DEF r
<1>15. Cut(r.blocks, new, p)
  <2>1. SHA1_BLOCK_SIZE * p <= Len(msg)
    BY <1>1, <1>3
  <2> QED BY <1>14, <2>1, CutKept, Zenon DEF new
<1>16. ASSUME NEW i \in 1 .. u + n
       PROVE  r.buffer[i] = new[b * p + i]
  <2>1. CASE i \in 1 .. u
    <3>1. c.buffer[i] = msg[b * p + i]
      BY <1>1, <1>4, <2>1, Zenon DEF Kept
    <3>2. x + i \in 1 .. Len(msg)
      BY <1>1, <1>3, <2>1
    <3> QED BY <1>3, <1>6, <1>13, <1>14, <2>1, <3>1, <3>2, Zenon
  <2>2. CASE i > u
    <3>1. PICK j \in 1 .. n : i = u + j
      <4>1. i - u \in 1 .. n /\ i = u + (i - u)
        BY <2>2
      <4> QED BY <4>1
    <3>2. r.buffer[i] = data[j]
      BY <1>11, <1>13, <1>14, <3>1, Zenon
    <3>3. Len(msg) + j = b * p + i
      BY <1>1, <1>3, <3>1
    <3> QED BY <1>2, <1>6, <3>2, <3>3, Zenon
  <2> QED BY <2>1, <2>2
<1>17. Kept(r.buffer, new)
  BY <1>1, <1>7, <1>8, <1>16, Zenon DEF Kept
<1> QED BY <1>1, <1>7, <1>8, <1>14, <1>15, <1>17 DEF r, new

(* Data that fills it completes a block.                                   *)
LEMMA Filled ==
  ASSUME NEW c \in Contexts, NEW msg \in Seq(Values), NEW p \in Nat,
         NEW u \in Nat, Len(msg) = SHA1_BLOCK_SIZE * p + u,
         u < SHA1_BLOCK_SIZE,
         Cut(c.blocks, msg, p), Kept(c.buffer, msg),
         NEW data \in Seq(Values), Len(data) >= SHA1_BLOCK_SIZE - u
  PROVE  LET r == CompleteBlock(c, u, data)
         IN  /\ r \in Contexts
             /\ r.count0 = c.count0 /\ r.count1 = c.count1
             /\ Cut(r.blocks, msg \o data, p + 1)
<1> DEFINE r     == CompleteBlock(c, u, data)
           new   == msg \o data
<1>1. PICK b \in Nat \ {0} : b = SHA1_BLOCK_SIZE
  BY BlockAssumption
<1>2. PICK m \in Nat \ {0} : m = b - u /\ m <= Len(data)
  <2>1. b - u \in Nat \ {0} /\ b - u <= Len(data)
    BY <1>1
  <2> QED BY <2>1
<1>3. PICK x \in Nat : x = b * p
  OBVIOUS
<1>4. Len(msg) \div b = p /\ Len(msg) % b = u
  <2>1. PICK l \in Nat : l = Len(msg)
    OBVIOUS
  <2>2. l = b * p + u /\ u \in 0 .. b - 1
    BY <1>1, <2>1
  <2> QED BY <2>1, <2>2, DivModUnique
<1>5. /\ new \in Seq(Values)
      /\ \A i \in 1 .. Len(msg) : new[i] = msg[i]
      /\ \A i \in 1 .. Len(data) : new[Len(msg) + i] = data[i]
  <2>1. new \in Seq(Values)
    OBVIOUS
  <2>2. \A i \in 1 .. Len(msg) : new[i] = msg[i]
    OBVIOUS
  <2>3. \A i \in 1 .. Len(data) : new[Len(msg) + i] = data[i]
    BY ConcatSecond, Zenon
  <2> QED BY <2>1, <2>2, <2>3
<1> HIDE DEF new
<1> DEFINE part == SubSeq(data, 1, m)
<1>6. /\ part \in Seq(Values) /\ Len(part) = m
      /\ \A i \in 1 .. m : part[i] = data[i]
  <2>1. 1 \in Nat \ {0} /\ m \in Nat /\ m <= Len(data) /\ 1 <= m + 1 /\ m - 1 + 1 = m
    BY <1>2
  <2>2. \A i \in 1 .. m : 1 + i - 1 = i
    OBVIOUS
  <2>3. /\ part \in Seq(Values) /\ Len(part) = m - 1 + 1
        /\ \A i \in 1 .. (m - 1 + 1) : part[i] = data[1 + i - 1]
    BY <2>1, SubSeqIs
  <2> QED BY <2>1, <2>2, <2>3
<1> HIDE DEF part
<1> DEFINE block == Copied(c.buffer, u, part)
<1>7. c.buffer \in Blocks /\ c.blocks \in Seq(Blocks)
  BY DEF Contexts
<1>8. u + Len(part) <= SHA1_BLOCK_SIZE
  BY <1>1, <1>2, <1>6
<1>9. /\ block \in Blocks
      /\ \A i \in 1 .. u : block[i] = c.buffer[i]
      /\ \A i \in 1 .. m : block[u + i] = part[i]
  <2>1. /\ block \in Blocks
        /\ \A i \in 1 .. u : block[i] = c.buffer[i]
        /\ \A i \in 1 .. Len(part) : block[u + i] = part[i]
    <3>1. part \in Seq(Values)
      BY <1>6
    <3> QED BY <1>7, <1>8, <3>1, CopiedIs, Zenon
  <2>2. Len(part) = m
    BY <1>6
  <2> HIDE DEF block
  <2> QED BY <2>1, <2>2, Zenon
<1>10. /\ CompleteBlock(c, u, data) =
            [c EXCEPT !.buffer = block, !.blocks = ProcessBlock(@, block)]
  BY <1>1, <1>2 DEF CompleteBlock, block, part
<1> HIDE DEF block
<1>11. ASSUME NEW i \in 1 .. b PROVE block[i] = new[b * p + i]
  <2>1. CASE i \in 1 .. u
    <3>1. c.buffer[i] = msg[b * p + i]
      BY <1>1, <1>4, <2>1, Zenon DEF Kept
    <3>2. x + i \in 1 .. Len(msg)
      BY <1>1, <1>3, <2>1
    <3> QED BY <1>3, <1>5, <1>9, <2>1, <3>1, <3>2, Zenon
  <2>2. CASE i > u
    <3>1. PICK j \in 1 .. m : i = u + j
      <4>1. i - u \in 1 .. m /\ i = u + (i - u)
        BY <1>2, <2>2
      <4> QED BY <4>1
    <3>2. block[i] = data[j]
      BY <1>6, <1>9, <3>1, Zenon
    <3>3. Len(msg) + j = b * p + i
      BY <1>1, <1>3, <3>1
    <3>4. j \in 1 .. Len(data)
      BY <1>2
    <3> QED BY <1>5, <3>2, <3>3, <3>4, Zenon
  <2> QED BY <2>1, <2>2
<1>12. Cut(c.blocks, new, p)
  <2>1. SHA1_BLOCK_SIZE * p <= Len(msg)
    BY <1>1, <1>3
  <2> QED BY <2>1, CutKept, Zenon DEF new
<1>13. Cut(ProcessBlock(c.blocks, block), new, p + 1)
  BY <1>1, <1>5, <1>9, <1>11, <1>12, CutAppend, Zenon
<1>14. ProcessBlock(c.blocks, block) \in Seq(Blocks)
  BY <1>13 DEF Cut
<1>15. /\ r \in Contexts
       /\ r.count0 = c.count0 /\ r.count1 = c.count1
       /\ r.blocks = ProcessBlock(c.blocks, block)
  BY <1>9, <1>10, <1>14 DEF Contexts
<1> QED BY <1>13, <1>15 DEF new

(* The effect of Sha1Update: a context that held the message so far holds  *)
(* the message with the data at its end.                                   *)
LEMMA UpdatedHolds ==
  ASSUME NEW c, NEW msg, Holds(c, msg), NEW data \in Seq(Values)
  PROVE  Holds(Updated(c, data), msg \o data)
<1>1. PICK b \in Nat \ {0} : b = SHA1_BLOCK_SIZE
  BY BlockAssumption
<1>2. c \in Contexts /\ msg \in Seq(Values) /\ Kept(c.buffer, msg)
  BY DEF Holds
<1>3. PICK p \in Nat, u \in 0 .. b - 1 :
        /\ p = Len(msg) \div SHA1_BLOCK_SIZE /\ u = Len(msg) % SHA1_BLOCK_SIZE
        /\ Len(msg) = SHA1_BLOCK_SIZE * p + u
  <2>1. PICK l \in Nat : l = Len(msg)
    BY <1>2
  <2>2. l \div b \in Nat /\ l % b \in 0 .. b - 1 /\ l = b * (l \div b) + (l % b)
    BY DivMod
  <2> QED BY <1>1, <2>1, <2>2
<1>4. Cut(c.blocks, msg, p)
  BY <1>3 DEF Holds
<1>5. PICK n \in Nat : n = Len(data)
  OBVIOUS
<1>6. PICK l \in Nat : l = Len(msg)
  BY <1>2
<1>7. BufferUsed(c) = u
  <2>1. Count(c, l)
    BY <1>6 DEF Holds
  <2> QED BY <1>3, <1>6, <2>1, UsedIs
<1> DEFINE new == msg \o data
<1>8. /\ new \in Seq(Values) /\ Len(new) = l + n
      /\ \A i \in 1 .. n : new[l + i] = data[i]
  <2>1. new \in Seq(Values)
    BY <1>2
  <2>2. Len(new) = l + n
    BY <1>2, <1>5, <1>6, ConcatProperties, Zenon
  <2>3. \A i \in 1 .. Len(data) : new[Len(msg) + i] = data[i]
    BY <1>2, ConcatSecond, Zenon
  <2>4. \A i \in 1 .. n : new[l + i] = data[i]
    BY <1>5, <1>6, <2>3, Zenon
  <2> HIDE DEF new
  <2> QED BY <2>1, <2>2, <2>4
<1> DEFINE counted == Counted(c, n)
<1>9. /\ counted \in Contexts
      /\ counted.blocks = c.blocks /\ counted.buffer = c.buffer
      /\ Count(counted, l + n)
  <2>1. Count(c, l)
    BY <1>6 DEF Holds
  <2> QED BY <1>2, <2>1, CountAdvances
<1> HIDE DEF counted, new
<1> DEFINE Done(r) == /\ r \in Contexts
                      /\ r.count0 = counted.count0 /\ r.count1 = counted.count1
                      /\ Cut(r.blocks, new, Len(new) \div SHA1_BLOCK_SIZE)
                      /\ Kept(r.buffer, new)
<1>10. ASSUME NEW r, Done(r) PROVE Holds(r, new)
  <2>1. Count(r, Len(new))
    BY <1>8, <1>9, <1>10 DEF Count
  <2> QED BY <1>8, <1>10, <2>1 DEF Holds
<1>11. CASE data = <<>>
  <2>1. Updated(c, data) = c
    BY <1>11 DEF Updated
  <2>2. new = msg
    BY <1>2, <1>11 DEF new
  <2> QED BY <2>1, <2>2 DEF new
<1>12. CASE data # <<>> /\ Completes(u, n)
  <2> DEFINE begun == CompleteBlock(counted, u, data)
             rest  == SubSeq(data, b - u + 1, n)
  <2>1. PICK m \in Nat \ {0} : m = b - u /\ m <= n
    <3>1. b - u \in Nat \ {0} /\ b - u <= n
      BY <1>1, <1>12 DEF Completes
    <3> QED BY <3>1
  <2>2. /\ begun \in Contexts
        /\ begun.count0 = counted.count0 /\ begun.count1 = counted.count1
        /\ Cut(begun.blocks, new, p + 1)
    <3>1. Len(data) >= SHA1_BLOCK_SIZE - u /\ u < SHA1_BLOCK_SIZE /\ u \in Nat
      BY <1>1, <1>5, <2>1
    <3>2. Cut(counted.blocks, msg, p) /\ Kept(counted.buffer, msg)
      BY <1>2, <1>4, <1>9
    <3>3. /\ counted \in Contexts /\ msg \in Seq(Values) /\ p \in Nat
          /\ Len(msg) = SHA1_BLOCK_SIZE * p + u
      BY <1>2, <1>3, <1>9
    <3>4. /\ begun \in Contexts
          /\ begun.count0 = counted.count0 /\ begun.count1 = counted.count1
          /\ Cut(begun.blocks, msg \o data, p + 1)
      BY <3>1, <3>2, <3>3, Filled, Zenon
    <3> HIDE DEF begun
    <3> QED BY <3>4 DEF new
  <2>3. /\ rest \in Seq(Values) /\ Len(rest) = n - m
        /\ \A i \in 1 .. n - m : rest[i] = data[m + i]
    <3>1. /\ m + 1 \in Nat \ {0} /\ n \in Nat /\ n <= Len(data)
          /\ m + 1 <= n + 1 /\ n - (m + 1) + 1 = n - m
      BY <1>5, <2>1
    <3>2. /\ SubSeq(data, m + 1, n) \in Seq(Values)
          /\ Len(SubSeq(data, m + 1, n)) = n - (m + 1) + 1
          /\ \A i \in 1 .. (n - (m + 1) + 1) :
               SubSeq(data, m + 1, n)[i] = data[m + 1 + i - 1]
      BY <3>1, SubSeqIs
    <3>3. \A i \in 1 .. n - m : m + 1 + i - 1 = m + i
      BY <2>1
    <3> QED BY <2>1, <3>1, <3>2, <3>3
  <2>4. PICK x \in Nat : x = b * p /\ l = x + u
    <3>1. PICK x \in Nat : x = b * p
      OBVIOUS
    <3>2. l = x + u
      BY <1>1, <1>3, <1>6, <3>1
    <3> QED BY <3>1, <3>2
  <2>5. b * (p + 1) = x + b
    BY <2>4
  <2> HIDE DEF begun, rest
  <2>6. Len(new) = SHA1_BLOCK_SIZE * (p + 1) + Len(rest)
    <3>1. l + n = (x + b) + (n - m)
      BY <2>1, <2>4
    <3> QED BY <1>1, <1>8, <2>3, <2>5, <3>1, Zenon
  <2>7. ASSUME NEW j \in 1 .. Len(rest)
        PROVE  rest[j] = new[SHA1_BLOCK_SIZE * (p + 1) + j]
    <3>1. j \in 1 .. n - m
      BY <2>3
    <3>2. m + j \in 1 .. n /\ l + (m + j) = (x + b) + j
      BY <2>1, <2>4, <3>1
    <3>3. rest[j] = new[l + (m + j)]
      BY <1>8, <2>3, <3>1, <3>2, Zenon
    <3> QED BY <1>1, <2>5, <3>2, <3>3, Zenon
  <2> DEFINE r == Remainder(begun, 0, rest)
  <2>8. Done(r)
    <3>1. p + 1 \in Nat
      OBVIOUS
    <3>2. /\ r \in Contexts
          /\ r.count0 = begun.count0 /\ r.count1 = begun.count1
          /\ Cut(r.blocks, new, Len(new) \div SHA1_BLOCK_SIZE)
          /\ Kept(r.buffer, new)
      BY <1>8, <2>2, <2>3, <2>6, <2>7, <3>1, FromBlock, Zenon
    <3> HIDE DEF r
    <3> QED BY <2>2, <3>2
  <2>9. Updated(c, data) = r
    BY <1>1, <1>5, <1>7, <1>12 DEF Updated, Remainder, Rest, begun, rest, counted
  <2> HIDE DEF r, Done
  <2> QED BY <1>10, <2>8, <2>9 DEF new
<1>13. CASE data # <<>> /\ ~Completes(u, n)
  <2> DEFINE r == Remainder(counted, u, data)
  <2>1. Updated(c, data) = r
    BY <1>1, <1>5, <1>7, <1>13 DEF Updated, Remainder, Rest, counted
  <2>2. Cut(counted.blocks, msg, p) /\ Kept(counted.buffer, msg)
    BY <1>2, <1>4, <1>9
  <2>3. CASE u = 0
    <3>1. Cut(counted.blocks, new, p)
      <4>1. SHA1_BLOCK_SIZE * p <= Len(msg)
        <5>1. PICK x \in Nat : x = b * p
          OBVIOUS
        <5>2. l = x + u
          BY <1>1, <1>3, <1>6, <5>1
        <5> QED BY <1>1, <1>6, <5>1, <5>2
      <4> QED BY <1>2, <2>2, <4>1, CutKept, Zenon DEF new
    <3>2. l = b * p
      <4>1. PICK x \in Nat : x = b * p
        OBVIOUS
      <4>2. l = x + u
        BY <1>1, <1>3, <1>6, <4>1
      <4> QED BY <2>3, <4>1, <4>2
    <3>3. Len(new) = SHA1_BLOCK_SIZE * p + Len(data)
      BY <1>1, <1>5, <1>8, <3>2, Zenon
    <3>4. \A j \in 1 .. Len(data) : data[j] = new[SHA1_BLOCK_SIZE * p + j]
      BY <1>1, <1>5, <1>8, <3>2, Zenon
    <3>5. new \in Seq(Values) /\ counted \in Contexts
      BY <1>8, <1>9
    <3>6. LET s == Remainder(counted, 0, data)
          IN  /\ s \in Contexts
              /\ s.count0 = counted.count0 /\ s.count1 = counted.count1
              /\ Cut(s.blocks, new, Len(new) \div SHA1_BLOCK_SIZE)
              /\ Kept(s.buffer, new)
      BY <3>1, <3>3, <3>4, <3>5, FromBlock, Zenon
    <3>7. Done(r)
      BY <2>3, <3>6
    <3> HIDE DEF r, Done
    <3> QED BY <1>10, <2>1, <3>7 DEF new
  <2>4. CASE u # 0
    <3>1. u + Len(data) < SHA1_BLOCK_SIZE /\ u \in Nat
      BY <1>1, <1>5, <1>13, <2>4 DEF Completes
    <3>2. /\ counted \in Contexts /\ msg \in Seq(Values) /\ p \in Nat
          /\ Len(msg) = SHA1_BLOCK_SIZE * p + u
      BY <1>2, <1>3, <1>9
    <3>3. /\ r \in Contexts
          /\ r.count0 = counted.count0 /\ r.count1 = counted.count1
          /\ Cut(r.blocks, msg \o data, Len(msg \o data) \div SHA1_BLOCK_SIZE)
          /\ Kept(r.buffer, msg \o data)
      BY <2>2, <3>1, <3>2, InBuffer, Zenon
    <3>4. Done(r)
      <4> HIDE DEF r
      <4> QED BY <3>3 DEF new
    <3> HIDE DEF r, Done
    <3> QED BY <1>10, <2>1, <3>4 DEF new
  <2> QED BY <2>3, <2>4
<1> QED BY <1>11, <1>12, <1>13

-----------------------------------------------------------------------------
(* The blocks, one behind the other, are the message they were cut from.   *)

(* A set of numbers that is not empty has a least one.                     *)
LEMMA LeastNatural ==
  ASSUME NEW T, T \subseteq Nat, T # {}
  PROVE  \E x \in T : \A y \in T : x <= y
<1> DEFINE R == {ss \in Nat \X Nat : ss[1] < ss[2]}
<1>1. IsWellFoundedOn(R, Nat)
  BY NatLessThanWellFounded DEF OpToRel
<1>2. PICK x \in T : \A y \in T : <<y, x>> \notin R
  <2> HIDE DEF R
  <2> QED BY <1>1, WFMin
<1>3. ASSUME NEW y \in T PROVE x <= y
  <2>1. x \in Nat /\ y \in Nat
    OBVIOUS
  <2>2. <<y, x>> \in R <=> y < x
    BY <2>1
  <2> QED BY <1>2, <2>1, <2>2
<1> QED BY <1>3

(* The first i blocks are a prefix of the message, block i the run of the  *)
(* message behind the first i - 1.                                         *)
LEMMA PrefixAndBlock ==
  ASSUME NEW msg \in Seq(Values), NEW p \in Nat, NEW blocks,
         Cut(blocks, msg, p), SHA1_BLOCK_SIZE * p <= Len(msg), NEW i \in 1 .. p
  PROVE  /\ i = 1 => blocks[i] = SubSeq(msg, 1, SHA1_BLOCK_SIZE * i)
         /\ SubSeq(msg, 1, SHA1_BLOCK_SIZE * (i - 1)) \o blocks[i]
              = SubSeq(msg, 1, SHA1_BLOCK_SIZE * i)
<1>1. PICK b \in Nat \ {0} : b = SHA1_BLOCK_SIZE
  BY BlockAssumption
<1>2. PICK m \in Nat : m = b * (i - 1)
  OBVIOUS
<1>3. b * i = m + b
  BY <1>2
<1>4. m + b <= Len(msg)
  <2>1. m + b <= b * p
    BY <1>2, NextMultiple
  <2>2. PICK y \in Nat : y = b * p
    OBVIOUS
  <2>3. y <= Len(msg)
    BY <1>1, <2>2
  <2> QED BY <2>1, <2>2, <2>3
<1> DEFINE block == SubSeq(msg, m + 1, m + b)
<1>5. /\ block \in Blocks
      /\ \A j \in 1 .. b : block[j] = msg[m + j]
  BY <1>1, <1>4, BlockOf
<1> HIDE DEF block
<1>6. blocks[i] = block
  <2>1. blocks[i] \in Blocks
    BY DEF Cut
  <2>2. \A j \in 1 .. b : blocks[i][j] = msg[m + j]
    BY <1>1, <1>2, Zenon DEF Cut
  <2>3. /\ blocks[i] = [j \in 1 .. b |-> blocks[i][j]]
        /\ block = [j \in 1 .. b |-> block[j]]
    BY <1>1, <1>5, <2>1 DEF Blocks
  <2> QED BY <1>5, <2>2, <2>3
<1>7. SubSeq(msg, 1, m) \o block = SubSeq(msg, 1, m + b)
  <2>1. /\ 1 \in 1 .. Len(msg) + 1 /\ m \in 1 - 1 .. Len(msg)
        /\ m + b \in m .. Len(msg)
    BY <1>4
  <2> QED BY <2>1, ConcatAdjacentSubSeq DEF block
<1>8. i = 1 => block = SubSeq(msg, 1, m + b)
  <2>1. i = 1 => m = 0
    BY <1>2
  <2> QED BY <2>1 DEF block
<1> QED BY <1>1, <1>2, <1>3, <1>6, <1>7, <1>8, Zenon

(* What FlattenSeq computes, block after block, from the least index at    *)
(* which it would compute anything else.                                   *)
LEMMA FlattenBlocks ==
  ASSUME NEW msg \in Seq(Values), NEW p \in Nat, NEW blocks,
         Cut(blocks, msg, p), SHA1_BLOCK_SIZE * p <= Len(msg)
  PROVE  FlattenSeq(blocks) = SubSeq(msg, 1, SHA1_BLOCK_SIZE * p)
<1> DEFINE w == [i \in 1 .. Len(blocks) |-> SubSeq(msg, 1, SHA1_BLOCK_SIZE * i)]
           flatten[i \in 1 .. Len(blocks)] ==
             IF i = 1 THEN blocks[i] ELSE flatten[i - 1] \o blocks[i]
<1>1. Len(blocks) = p /\ blocks \in Seq(Blocks)
  BY DEF Cut
<1>2. CASE p = 0
  <2>1. blocks = <<>>
    BY <1>1, <1>2
  <2>2. SHA1_BLOCK_SIZE * p = 0
    BY <1>2, BlockAssumption
  <2>3. SubSeq(msg, 1, 0) = <<>>
    OBVIOUS
  <2>4. Len(<<>>) = 0
    OBVIOUS
  <2> QED BY <2>1, <2>2, <2>3, <2>4 DEF FlattenSeq
<1>3. CASE p # 0
  <2>1. ASSUME NEW i \in 1 .. p
        PROVE  w[i] = IF i = 1 THEN blocks[i] ELSE w[i - 1] \o blocks[i]
    <3>1. w[i] = SubSeq(msg, 1, SHA1_BLOCK_SIZE * i)
      BY <1>1
    <3>2. CASE i = 1
      BY <3>1, <3>2, PrefixAndBlock
    <3>3. CASE i # 1
      <4>1. i - 1 \in 1 .. p
        BY <3>3
      <4>2. w[i - 1] = SubSeq(msg, 1, SHA1_BLOCK_SIZE * (i - 1))
        BY <1>1, <4>1
      <4> HIDE DEF w
      <4> QED BY <3>1, <3>3, <4>2, PrefixAndBlock, Zenon
    <3> QED BY <3>2, <3>3
  <2>2. w = [i \in 1 .. Len(blocks) |->
               IF i = 1 THEN blocks[i] ELSE w[i - 1] \o blocks[i]]
    BY <1>1, <2>1
  <2>3. ASSUME NEW f,
               f = [i \in 1 .. Len(blocks) |->
                      IF i = 1 THEN blocks[i] ELSE f[i - 1] \o blocks[i]]
        PROVE  f = w
    <3> DEFINE T == {i \in 1 .. p : f[i] # w[i]}
    <3>1. CASE T # {}
      <4>1. PICK m \in T : \A i \in T : m <= i
        <5>1. T \subseteq Nat
          OBVIOUS
        <5> QED BY <3>1, <5>1, LeastNatural
      <4>2. m \in 1 .. p /\ f[m] # w[m]
        BY <4>1
      <4> HIDE DEF w
      <4>3. CASE m = 1
        BY <1>1, <2>2, <2>3, <4>2, <4>3
      <4>4. CASE m # 1
        <5>1. m - 1 \in 1 .. p /\ ~(m <= m - 1)
          BY <4>2, <4>4
        <5>2. f[m - 1] = w[m - 1]
          BY <4>1, <5>1
        <5> HIDE DEF T
        <5>3. m \in 1 .. Len(blocks)
          BY <1>1, <4>2
        <5>4. f[m] = f[m - 1] \o blocks[m]
          BY <2>3, <4>4, <5>3
        <5>5. w[m] = w[m - 1] \o blocks[m]
          BY <2>2, <4>4, <5>3
        <5> QED BY <4>2, <5>2, <5>4, <5>5
      <4> QED BY <4>3, <4>4
    <3>2. CASE T = {}
      <4>1. \A i \in 1 .. p : f[i] = w[i]
        BY <3>2
      <4> HIDE DEF w
      <4>2. f = [i \in 1 .. p |-> f[i]]
        BY <1>1, <2>3
      <4>3. w = [i \in 1 .. p |-> w[i]]
        BY <1>1, <2>2
      <4> QED BY <4>1, <4>2, <4>3
    <3> QED BY <3>1, <3>2
  <2>4. flatten = w
    <3> HIDE DEF w
    <3> QED BY <2>2, <2>3
  <2> HIDE DEF flatten
  <2>5. FlattenSeq(blocks) = flatten[Len(blocks)]
    BY <1>1, <1>3 DEF FlattenSeq, flatten
  <2>6. w[Len(blocks)] = SubSeq(msg, 1, SHA1_BLOCK_SIZE * p)
    <3>1. p \in 1 .. Len(blocks)
      BY <1>1, <1>3
    <3>2. w[p] = SubSeq(msg, 1, SHA1_BLOCK_SIZE * p)
      BY <3>1
    <3> HIDE DEF w
    <3> QED BY <1>1, <3>2
  <2> QED BY <2>4, <2>5, <2>6
<1> QED BY <1>2, <1>3

(* A context that holds a message is the message: its blocks and what is   *)
(* used of the buffer, and only its blocks if the message ends with one.   *)
LEMMA HoldsMessage ==
  ASSUME NEW c, NEW msg, Holds(c, msg)
  PROVE  /\ FlattenSeq(c.blocks) \o SubSeq(c.buffer, 1, BufferUsed(c)) = msg
         /\ Len(msg) % SHA1_BLOCK_SIZE = 0 => FlattenSeq(c.blocks) = msg
<1>1. PICK b \in Nat \ {0} : b = SHA1_BLOCK_SIZE
  BY BlockAssumption
<1>2. c \in Contexts /\ msg \in Seq(Values) /\ c.buffer \in Blocks
  BY DEF Holds, Contexts
<1>3. PICK l \in Nat : l = Len(msg)
  BY <1>2
<1>4. PICK p \in Nat, u \in 0 .. b - 1 :
        p = l \div b /\ u = l % b /\ l = b * p + u
  BY DivMod
<1>5. PICK x \in Nat : x = b * p /\ l = x + u
  <2>1. PICK x \in Nat : x = b * p
    OBVIOUS
  <2> QED BY <1>4, <2>1
<1>6. FlattenSeq(c.blocks) = SubSeq(msg, 1, x)
  <2>1. Cut(c.blocks, msg, p)
    BY <1>1, <1>3, <1>4 DEF Holds
  <2>2. SHA1_BLOCK_SIZE * p <= Len(msg)
    BY <1>1, <1>3, <1>5
  <2> QED BY <1>1, <1>2, <1>5, <2>1, <2>2, FlattenBlocks, Zenon
<1>7. BufferUsed(c) = u
  <2>1. Count(c, l)
    BY <1>3 DEF Holds
  <2> QED BY <1>1, <1>4, <2>1, UsedIs
<1>8. SubSeq(c.buffer, 1, u) = SubSeq(msg, x + 1, l)
  <2>1. \A i \in 1 .. u : c.buffer[i] = msg[x + i]
    BY <1>1, <1>3, <1>4, <1>5, Zenon DEF Holds, Kept
  <2>2. SubSeq(c.buffer, 1, u) = [i \in 1 .. u |-> c.buffer[i]]
    <3>1. c.buffer \in Seq(Values) /\ u \in 0 .. Len(c.buffer)
      BY <1>1, <1>2 DEF Blocks
    <3> QED BY <3>1, SubSeqRestrict DEF Restrict
  <2>3. SubSeq(msg, x + 1, l) = [i \in 1 .. u |-> msg[x + i]]
    <3>1. /\ x + 1 \in Nat \ {0} /\ l \in Nat /\ l <= Len(msg) /\ x + 1 <= l + 1
          /\ l - (x + 1) + 1 = u
      BY <1>3, <1>5
    <3>2. /\ SubSeq(msg, x + 1, l) \in Seq(Values)
          /\ Len(SubSeq(msg, x + 1, l)) = l - (x + 1) + 1
          /\ \A i \in 1 .. (l - (x + 1) + 1) :
               SubSeq(msg, x + 1, l)[i] = msg[x + 1 + i - 1]
      BY <1>2, <3>1, SubSeqIs
    <3>3. \A i \in 1 .. u : x + 1 + i - 1 = x + i
      OBVIOUS
    <3>4. \A i \in 1 .. u : SubSeq(msg, x + 1, l)[i] = msg[x + i]
      BY <3>1, <3>2, <3>3
    <3>5. /\ SubSeq(msg, x + 1, l) \in Seq(Values)
          /\ Len(SubSeq(msg, x + 1, l)) = u
      BY <3>1, <3>2
    <3>6. PICK s \in Seq(Values) : s = SubSeq(msg, x + 1, l)
      BY <3>5
    <3>7. s = [i \in 1 .. u |-> s[i]]
      <4>1. s = [i \in 1 .. Len(s) |-> s[i]]
        OBVIOUS
      <4>2. Len(s) = u
        BY <3>5, <3>6
      <4> QED BY <4>1, <4>2, Zenon
    <3> QED BY <3>4, <3>6, <3>7
  <2> QED BY <2>1, <2>2, <2>3
<1>9. SubSeq(msg, 1, x) \o SubSeq(msg, x + 1, l) = SubSeq(msg, 1, l)
  <2>1. 1 \in 1 .. Len(msg) + 1 /\ x \in 1 - 1 .. Len(msg) /\ l \in x .. Len(msg)
    BY <1>3, <1>5
  <2> QED BY <1>2, <2>1, ConcatAdjacentSubSeq
<1>10. SubSeq(msg, 1, l) = msg
  BY <1>2, <1>3, SubSeqFull
<1>11. u = 0 => x = l
  BY <1>5
<1>12. Len(msg) % SHA1_BLOCK_SIZE = u
  BY <1>1, <1>3, <1>4
<1> QED BY <1>6, <1>7, <1>8, <1>9, <1>10, <1>11, <1>12, Zenon

-----------------------------------------------------------------------------
(* Padding.                                                                *)

(* One number of zeros, and one only, makes the length end a block.        *)
LEMMA ZerosUnique ==
  ASSUME NEW b \in Nat \ {0}, NEW a \in Nat,
         NEW y \in 0 .. b - 1, NEW z \in 0 .. b - 1,
         (a + y) % b = 0, (a + z) % b = 0
  PROVE  y = z
<1>1. PICK i \in Nat : a + y = b * i
  <2>1. PICK n \in Nat : n = a + y
    OBVIOUS
  <2>2. n \div b \in Nat /\ n = b * (n \div b) + (n % b)
    BY DivMod
  <2>3. n % b = 0
    BY <2>1
  <2>4. n = b * (n \div b)
    BY <2>2, <2>3
  <2> QED BY <2>1, <2>2, <2>4
<1>2. PICK j \in Nat : a + z = b * j
  <2>1. PICK n \in Nat : n = a + z
    OBVIOUS
  <2>2. n \div b \in Nat /\ n = b * (n \div b) + (n % b)
    BY DivMod
  <2>3. n % b = 0
    BY <2>1
  <2>4. n = b * (n \div b)
    BY <2>2, <2>3
  <2> QED BY <2>1, <2>2, <2>4
<1>3. PICK m \in Nat, n \in Nat : m = b * i /\ n = b * j
  OBVIOUS
<1>4. ~(i < j)
  <2> SUFFICES ASSUME i < j PROVE FALSE
    OBVIOUS
  <2>1. m + b <= n
    BY <1>3, NextMultiple
  <2> QED BY <1>1, <1>2, <1>3, <2>1
<1>5. ~(j < i)
  <2> SUFFICES ASSUME j < i PROVE FALSE
    OBVIOUS
  <2>1. n + b <= m
    BY <1>3, NextMultiple
  <2> QED BY <1>1, <1>2, <1>3, <2>1
<1>6. m = n
  BY <1>3, <1>4, <1>5
<1> QED BY <1>1, <1>2, <1>3, <1>6

Padding(used) == [i \in 1 .. PadLength(used) |-> IF i = 1 THEN PAD ELSE 0]

(* What PadLength adds, with the length, ends a block.                     *)
LEMMA PadLengthIs ==
  ASSUME NEW l \in Nat, NEW used, used = l % SHA1_BLOCK_SIZE
  PROVE  /\ PadLength(used) \in Nat \ {0}
         /\ PadLength(used) - 1 \in 0 .. SHA1_BLOCK_SIZE - 1
         /\ (l + 1 + (PadLength(used) - 1) + LENGTH_BYTES) % SHA1_BLOCK_SIZE = 0
<1>1. PICK b \in Nat \ {0} : b = SHA1_BLOCK_SIZE
  BY BlockAssumption
<1>2. PICK k \in Nat : k = LENGTH_BYTES /\ k < b
  BY <1>1, BlockAssumption
<1>3. PICK p \in Nat, u \in 0 .. b - 1 : u = l % b /\ l = b * p + u
  BY DivMod
<1>4. used = u
  BY <1>1, <1>3
<1>5. PICK x \in Nat : x = b * p
  OBVIOUS
<1>6. PICK m \in Nat \ {0}, e \in {1, 2} :
        m = PadLength(used) /\ m - 1 <= b - 1 /\ u + m + k = b * e
  <2>1. CASE u < b - k
    <3>1. PadLength(used) = b - k - u
      BY <1>1, <1>2, <1>4, <2>1 DEF PadLength
    <3>2. b - k - u \in Nat \ {0}
      BY <1>2, <2>1
    <3>3. b - k - u - 1 <= b - 1 /\ u + (b - k - u) + k = b * 1
      BY <1>2
    <3> QED BY <3>1, <3>2, <3>3
  <2>2. CASE ~(u < b - k)
    <3>1. PadLength(used) = 2 * b - k - u
      BY <1>1, <1>2, <1>4, <2>2 DEF PadLength
    <3>2. 2 * b - k - u \in Nat \ {0}
      BY <1>2
    <3>3. 2 * b - k - u - 1 <= b - 1 /\ u + (2 * b - k - u) + k = b * 2
      BY <1>2, <2>2
    <3> QED BY <3>1, <3>2, <3>3
  <2> QED BY <2>1, <2>2
<1>7. PICK n \in Nat : n = l + 1 + (m - 1) + k
  <2>1. l + 1 + (m - 1) + k \in Nat
    OBVIOUS
  <2> QED BY <2>1
<1>8. n = b * (p + e) + 0
  <2>1. PICK y \in Nat : y = b * e
    OBVIOUS
  <2>2. b * (p + e) = x + y
    BY <1>5, <2>1
  <2>3. n = x + y
    BY <1>3, <1>5, <1>6, <1>7, <2>1
  <2> QED BY <2>2, <2>3
<1>9. n % b = 0
  <2>1. p + e \in Nat /\ 0 \in 0 .. b - 1
    OBVIOUS
  <2> QED BY <1>8, <2>1, DivModUnique
<1> QED BY <1>1, <1>2, <1>6, <1>7, <1>9

(* A length the standard allows fits in the two words.                     *)
LEMMA WordsOfCount ==
  ASSUME NEW l \in Nat, 8 * l < WORD * WORD, NEW c, Count(c, l)
  PROVE  c.count1 = (8 * l) \div WORD /\ c.count0 = (8 * l) % WORD
<1>1. PICK w \in Nat \ {0} : w = WORD
  BY BlockAssumption
<1>2. PICK bits \in Nat : bits = 8 * l
  OBVIOUS
<1>3. PICK h \in Nat, r \in 0 .. w - 1 :
        h = bits \div w /\ r = bits % w /\ bits = w * h + r
  BY DivMod
<1>4. h < w
  <2> SUFFICES ASSUME ~(h < w) PROVE FALSE
    OBVIOUS
  <2>1. w * w <= w * h
    <3>1. CASE h = w
      BY <3>1
    <3>2. CASE w < h
      <4>1. w * w + w <= w * h
        BY <3>2, NextMultiple
      <4>2. PICK x \in Nat, y \in Nat : x = w * w /\ y = w * h
        OBVIOUS
      <4> QED BY <4>1, <4>2
    <3> QED BY <3>1, <3>2
  <2>2. PICK x \in Nat, y \in Nat : x = w * w /\ y = w * h
    OBVIOUS
  <2>3. bits < x
    BY <1>1, <1>2, <2>2, Zenon
  <2> QED BY <1>3, <2>1, <2>2, <2>3
<1>5. h % w = h
  <2>1. h = w * 0 + h /\ h \in 0 .. w - 1
    BY <1>4
  <2> QED BY <2>1, DivModUnique
<1>6. c.count0 = bits % w /\ c.count1 = (bits \div w) % w
  BY <1>1, <1>2 DEF Count
<1> QED BY <1>1, <1>2, <1>3, <1>5, <1>6, Zenon

(* What the code appends is the padding of FIPS 180-4.                     *)
LEMMA PaddedIs ==
  ASSUME NEW msg \in Seq(Values), 8 * Len(msg) < WORD * WORD,
         NEW c \in Contexts, Count(c, Len(msg))
  PROVE  LET padding == Padding(BufferUsed(c))
             length  == LengthBytes(c.count1, c.count0)
         IN  /\ padding \in Seq(Values) /\ length \in Seq(Values)
             /\ Padded(msg) = (msg \o padding) \o length
             /\ Len(Padded(msg)) % SHA1_BLOCK_SIZE = 0
<1> DEFINE used    == BufferUsed(c)
           padding == Padding(used)
           length  == LengthBytes(c.count1, c.count0)
<1>1. PICK l \in Nat : l = Len(msg)
  OBVIOUS
<1>2. used = l % SHA1_BLOCK_SIZE
  BY <1>1, UsedIs
<1>3. PICK m \in Nat \ {0} : m = PadLength(used)
  BY <1>2, PadLengthIs
<1> DEFINE z == m - 1
<1>4. /\ z \in 0 .. SHA1_BLOCK_SIZE - 1
      /\ (l + 1 + z + LENGTH_BYTES) % SHA1_BLOCK_SIZE = 0
  BY <1>2, <1>3, PadLengthIs
<1> HIDE DEF used
<1>5. (CHOOSE y \in 0 .. SHA1_BLOCK_SIZE - 1 :
         (Len(msg) + 1 + y + LENGTH_BYTES) % SHA1_BLOCK_SIZE = 0) = z
  <2>1. PICK a \in Nat : a = l + 1 + LENGTH_BYTES
    BY BlockAssumption
  <2>2. \A y \in 0 .. SHA1_BLOCK_SIZE - 1 : l + 1 + y + LENGTH_BYTES = a + y
    BY <2>1, BlockAssumption
  <2>3. SHA1_BLOCK_SIZE \in Nat \ {0}
    BY BlockAssumption
  <2>4. ASSUME NEW y \in 0 .. SHA1_BLOCK_SIZE - 1,
               (l + 1 + y + LENGTH_BYTES) % SHA1_BLOCK_SIZE = 0
        PROVE  y = z
    <3>1. (a + y) % SHA1_BLOCK_SIZE = 0 /\ (a + z) % SHA1_BLOCK_SIZE = 0
      BY <1>4, <2>2, <2>4
    <3> HIDE DEF z
    <3> QED BY <1>4, <2>3, <3>1, ZerosUnique
  <2> HIDE DEF z
  <2> QED BY <1>1, <1>4, <2>4
<1>6. /\ c.count1 = (8 * l) \div WORD /\ c.count0 = (8 * l) % WORD
      /\ c.count0 \in 0 .. WORD - 1 /\ c.count1 \in 0 .. WORD - 1
  <2>1. Count(c, l) /\ 8 * l < WORD * WORD
    BY <1>1
  <2>2. c.count0 \in 0 .. WORD - 1 /\ c.count1 \in 0 .. WORD - 1
    BY DEF Contexts
  <2> QED BY <2>1, <2>2, WordsOfCount
<1> DEFINE zeros == [i \in 1 .. z |-> 0]
<1>7. zeros \in Seq(Values) /\ <<PAD>> \in Seq(Values)
  <2>1. z \in Nat
    BY <1>3
  <2>2. 0 \in Values /\ PAD \in Values
    BY BlockAssumption DEF Values
  <2> HIDE DEF z
  <2> QED BY <2>1, <2>2
<1>8. /\ padding = <<PAD>> \o zeros
      /\ padding \in Seq(Values)
      /\ Len(padding) = m
  <2>1. padding = [i \in 1 .. m |-> IF i = 1 THEN PAD ELSE 0]
    BY <1>3 DEF Padding
  <2>2. <<PAD>> \o zeros = [i \in 1 .. m |-> IF i = 1 THEN PAD ELSE 0]
    <3>1. zeros \in [1 .. z -> {0}] /\ z \in Nat /\ m = z + 1
      BY <1>3
    <3> HIDE DEF zeros, z
    <3> QED BY <3>1
  <2>3. PAD \in Values /\ 0 \in Values
    BY BlockAssumption DEF Values
  <2> HIDE DEF padding, zeros
  <2> QED BY <2>1, <2>2, <2>3
<1>9. length \in Seq(Values) /\ Len(length) = LENGTH_BYTES
  <2>1. LENGTH_BYTES \in Nat /\ 0 \in 0 .. WORD - 1
    BY BlockAssumption
  <2>2. 0 .. WORD - 1 \subseteq Values
    BY DEF Values
  <2>3. length \in [1 .. LENGTH_BYTES -> 0 .. WORD - 1]
    BY <1>6, <2>1 DEF LengthBytes
  <2> HIDE DEF length
  <2> QED BY <2>1, <2>2, <2>3
<1> HIDE DEF padding, length, zeros
<1>10. Padded(msg) = msg \o <<PAD>> \o zeros \o length
  BY <1>1, <1>5, <1>6, Zenon DEF Padded, zeros, length
<1>11. Padded(msg) = (msg \o padding) \o length
  <2>1. /\ msg \in Seq(Values) /\ <<PAD>> \in Seq(Values)
        /\ zeros \in Seq(Values)
    BY <1>7
  <2>2. msg \o <<PAD>> \o zeros = msg \o (<<PAD>> \o zeros)
    <3>1. PICK one \in Seq(Values) : one = <<PAD>>
      BY <2>1
    <3>2. (msg \o one) \o zeros = msg \o (one \o zeros)
      BY <2>1, ConcatAssociative
    <3> QED BY <3>1, <3>2, Zenon
  <2> QED BY <1>8, <1>10, <2>2, Zenon
<1>12. Len(Padded(msg)) = l + 1 + z + LENGTH_BYTES
  <2>1. msg \o padding \in Seq(Values) /\ Len(msg \o padding) = l + m
    BY <1>1, <1>8, ConcatProperties, Zenon
  <2>2. Len(Padded(msg)) = l + m + LENGTH_BYTES
    BY <1>9, <1>11, <2>1, ConcatProperties, Zenon
  <2>3. l + m = l + 1 + z
    OBVIOUS
  <2> QED BY <2>2, <2>3, Zenon
<1> QED BY <1>4, <1>8, <1>9, <1>11, <1>12, Zenon DEF padding, length, used

(* The padded message ends a block, whatever context it is fed to.         *)
LEMMA PaddedEndsBlock ==
  ASSUME NEW msg \in Seq(Values), 8 * Len(msg) < WORD * WORD
  PROVE  Len(Padded(msg)) % SHA1_BLOCK_SIZE = 0
<1>1. PICK w \in Nat \ {0} : w = WORD
  BY BlockAssumption
<1>2. PICK l \in Nat : l = Len(msg)
  OBVIOUS
<1>3. PICK h \in Nat, r \in 0 .. w - 1 : r = (8 * l) % w /\ h = (8 * l) \div w
  <2>1. PICK bits \in Nat : bits = 8 * l
    OBVIOUS
  <2>2. bits \div w \in Nat /\ bits % w \in 0 .. w - 1
    BY DivMod
  <2> QED BY <2>1, <2>2
<1>4. h % w \in 0 .. w - 1
  BY DivMod
<1>5. 0 \in Values
  BY BlockAssumption DEF Values
<1> DEFINE c == [blocks |-> <<>>, count0 |-> r, count1 |-> h % w,
                 buffer |-> [i \in 1 .. SHA1_BLOCK_SIZE |-> 0]]
<1>6. c \in Contexts
  BY <1>1, <1>4, <1>5 DEF Contexts, Blocks
<1>7. Count(c, Len(msg))
  BY <1>1, <1>2, <1>3 DEF Count
<1> HIDE DEF c
<1> QED BY <1>6, <1>7, PaddedIs

-----------------------------------------------------------------------------
(* The invariant.                                                          *)

(* A message is a sequence of values, and its length is bounded.           *)
LEMMA FedIs ==
  ASSUME fed \in BoundedSeq(Bytes, MaxLength)
  PROVE  /\ fed \in Seq(Bytes) /\ fed \in Seq(Values)
         /\ Len(fed) \in Nat /\ Len(fed) <= MaxLength
         /\ 8 * Len(fed) < WORD * WORD
<1>1. PICK n \in 0 .. MaxLength : fed \in [1 .. n -> Bytes]
  BY DEF BoundedSeq, SeqOf
<1>2. fed \in Seq(Bytes) /\ Len(fed) = n
  BY <1>1, LengthAssumption
<1>3. Bytes \subseteq Values
  BY DEF Values
<1>4. fed \in Seq(Values)
  BY <1>2, <1>3, SeqMonotonic
<1>5. PICK x \in Nat : x = WORD * WORD
  BY BlockAssumption
<1>6. 8 * n < x
  BY <1>1, <1>5, LengthAssumption
<1> QED BY <1>1, <1>2, <1>4, <1>5, <1>6, LengthAssumption

(* A context that has just been initialized holds the empty message.       *)
LEMMA NewContext ==
  ASSUME NEW c \in Contexts
  PROVE  Holds([c EXCEPT !.blocks = <<>>, !.count0 = 0, !.count1 = 0], <<>>)
<1> DEFINE new == [c EXCEPT !.blocks = <<>>, !.count0 = 0, !.count1 = 0]
<1>1. PICK b \in Nat \ {0}, w \in Nat \ {0} : b = SHA1_BLOCK_SIZE /\ w = WORD
  BY BlockAssumption
<1>2. 0 \div b = 0 /\ 0 % b = 0
  <2>1. 0 = b * 0 + 0 /\ 0 \in 0 .. b - 1
    OBVIOUS
  <2> QED BY <2>1, DivModUnique
<1>3. 0 \div w = 0 /\ 0 % w = 0
  <2>1. 0 = w * 0 + 0 /\ 0 \in 0 .. w - 1
    OBVIOUS
  <2> QED BY <2>1, DivModUnique
<1>4. <<>> \in Seq(Blocks) /\ Len(<<>>) = 0 /\ <<>> \in Seq(Values)
  OBVIOUS
<1>5. /\ new \in Contexts /\ new.blocks = <<>>
      /\ new.count0 = 0 /\ new.count1 = 0
  <2>1. 0 \in 0 .. WORD - 1
    BY <1>1
  <2>2. PICK none \in Seq(Blocks) : none = <<>>
    BY <1>4
  <2>3. new = [c EXCEPT !.blocks = none, !.count0 = 0, !.count1 = 0]
    BY <2>2
  <2> HIDE DEF new
  <2> QED BY <2>1, <2>2, <2>3 DEF Contexts
<1> HIDE DEF new
<1>6. Cut(new.blocks, <<>>, 0)
  BY <1>4, <1>5 DEF Cut
<1>7. Kept(new.buffer, <<>>)
  BY <1>1, <1>2, <1>4 DEF Kept
<1>8. Count(new, 0)
  <2>1. 8 * 0 = 0
    OBVIOUS
  <2> QED BY <1>1, <1>3, <1>5, <2>1 DEF Count
<1>9. 0 \div SHA1_BLOCK_SIZE = 0
  BY <1>1, <1>2
<1> QED BY <1>4, <1>5, <1>6, <1>7, <1>8, <1>9 DEF Holds, new

(* What Sha1Final leaves is the context of the padded message.             *)
LEMMA FinishedHolds ==
  ASSUME NEW c, NEW msg, Holds(c, msg), 8 * Len(msg) < WORD * WORD
  PROVE  Holds(Finished(c), Padded(msg))
<1> DEFINE padding == Padding(BufferUsed(c))
           length  == LengthBytes(c.count1, c.count0)
<1>1. msg \in Seq(Values) /\ c \in Contexts /\ Count(c, Len(msg))
  BY DEF Holds
<1>2. /\ padding \in Seq(Values) /\ length \in Seq(Values)
      /\ Padded(msg) = (msg \o padding) \o length
  BY <1>1, PaddedIs
<1>3. Finished(c) = Updated(Updated(c, padding), length)
  BY DEF Finished, Padding
<1> HIDE DEF padding, length
<1>4. Holds(Updated(c, padding), msg \o padding)
  BY <1>2, UpdatedHolds
<1>5. Holds(Updated(Updated(c, padding), length), (msg \o padding) \o length)
  BY <1>2, <1>4, UpdatedHolds
<1> QED BY <1>2, <1>3, <1>5

(* A context that was not initialized holds nothing yet.                   *)
LEMMA InitIInv == Init => IInv
<1> SUFFICES ASSUME Init PROVE IInv
  OBVIOUS
<1>1. PICK b \in Bytes :
        ctx = [blocks |-> <<>>, count0 |-> 0, count1 |-> 0,
               buffer |-> [i \in 1 .. SHA1_BLOCK_SIZE |-> b]]
  BY DEF Init
<1>2. <<>> \in Seq(Blocks) /\ 0 \in 0 .. WORD - 1 /\ b \in Values
  BY BlockAssumption DEF Values
<1>3. ctx \in Contexts
  BY <1>1, <1>2 DEF Contexts, Blocks
<1>4. fed \in BoundedSeq(Bytes, MaxLength)
  <2>1. 0 \in 0 .. MaxLength /\ <<>> \in [1 .. 0 -> Bytes]
    BY LengthAssumption
  <2> QED BY <2>1 DEF Init, BoundedSeq, SeqOf
<1> QED BY <1>3, <1>4 DEF Init, IInv

(* Every call keeps the invariant: one step per action.                    *)
LEMMA NextIInv == IInv /\ [Next]_vars => IInv'
<1> SUFFICES ASSUME IInv, [Next]_vars PROVE IInv'
  OBVIOUS
<1>1. CASE Sha1Init
  <2>1. ctx \in Contexts
    BY DEF IInv
  <2>2. Holds(ctx', <<>>)
    BY <1>1, <2>1, NewContext DEF Sha1Init
  <2>3. fed' = <<>> /\ phase' = "feeding"
    BY <1>1 DEF Sha1Init
  <2>4. fed' \in BoundedSeq(Bytes, MaxLength)
    <3>1. 0 \in 0 .. MaxLength /\ <<>> \in [1 .. 0 -> Bytes]
      BY LengthAssumption
    <3> QED BY <2>3, <3>1 DEF BoundedSeq, SeqOf
  <2>5. ctx' \in Contexts
    BY <2>2 DEF Holds
  <2>6. Holds(ctx, fed)'
    BY <2>2, <2>3 DEF Holds, Cut, Kept, Count
  <2> QED BY <2>3, <2>4, <2>5, <2>6 DEF IInv
<1>2. ASSUME NEW data \in BoundedSeq(Bytes, MaxLength - Len(fed)),
             Sha1Update(data)
      PROVE  IInv'
  <2>1. /\ fed \in BoundedSeq(Bytes, MaxLength) /\ Holds(ctx, fed)
        /\ phase = "feeding"
    BY <1>2 DEF IInv, Sha1Update
  <2>2. /\ fed \in Seq(Bytes) /\ Len(fed) \in Nat
    BY <2>1, FedIs
  <2>3. PICK n \in 0 .. MaxLength - Len(fed) : data \in [1 .. n -> Bytes]
    BY DEF BoundedSeq, SeqOf
  <2>4. data \in Seq(Bytes) /\ Len(data) = n /\ data \in Seq(Values)
    <3>1. data \in Seq(Bytes) /\ Len(data) = n
      BY <2>3
    <3>2. Bytes \subseteq Values
      BY DEF Values
    <3> QED BY <3>1, <3>2, SeqMonotonic
  <2>5. Holds(Updated(ctx, data), fed \o data)
    BY <2>1, <2>4, UpdatedHolds
  <2>6. ctx' = Updated(ctx, data) /\ fed' = fed \o data /\ phase' = phase
    BY <1>2 DEF Sha1Update
  <2>7. fed \o data \in BoundedSeq(Bytes, MaxLength)
    <3>1. PICK l \in Nat : l = Len(fed)
      BY <2>2
    <3>2. fed \o data \in Seq(Bytes) /\ Len(fed \o data) = l + n
      BY <2>2, <2>4, <3>1, ConcatProperties, Zenon
    <3>3. l + n \in 0 .. MaxLength
      BY <2>3, <3>1, LengthAssumption
    <3>4. fed \o data \in [1 .. l + n -> Bytes]
      BY <3>2, LenProperties
    <3> QED BY <3>3, <3>4 DEF BoundedSeq, SeqOf
  <2>8. Holds(ctx, fed)'
    BY <2>5, <2>6 DEF Holds, Cut, Kept, Count
  <2>9. ctx' \in Contexts
    BY <2>8 DEF Holds
  <2> QED BY <2>1, <2>6, <2>7, <2>8, <2>9 DEF IInv
<1>3. CASE Sha1Final
  <2>1. /\ fed \in BoundedSeq(Bytes, MaxLength) /\ Holds(ctx, fed)
        /\ phase' = "final" /\ ctx' = Finished(ctx) /\ fed' = fed
    BY <1>3 DEF IInv, Sha1Final
  <2>2. Holds(Finished(ctx), Padded(fed))
    BY <2>1, FedIs, FinishedHolds
  <2>3. Padded(fed)' = Padded(fed)
    BY <2>1 DEF Padded
  <2>4. Holds(ctx, Padded(fed))'
    BY <2>1, <2>2, <2>3 DEF Holds, Cut, Kept, Count
  <2>5. ctx' \in Contexts
    BY <2>4 DEF Holds
  <2> QED BY <2>1, <2>4, <2>5 DEF IInv
<1>4. CASE UNCHANGED vars
  <2>1. Holds(ctx, fed)' <=> Holds(ctx, fed)
    BY <1>4 DEF vars, Holds, Cut, Kept, Count
  <2>2. Holds(ctx, Padded(fed))' <=> Holds(ctx, Padded(fed))
    BY <1>4 DEF vars, Holds, Cut, Kept, Count, Padded
  <2> QED BY <1>4, <2>1, <2>2 DEF vars, IInv
<1> QED BY <1>1, <1>2, <1>3, <1>4 DEF Next

(* Whatever the calls, the context holds what it was fed.                  *)
THEOREM Inductive == Spec => []IInv
BY InitIInv, NextIInv, PTL DEF Spec

-----------------------------------------------------------------------------
(* The properties.                                                         *)

(* What the invariant says of sizes.                                       *)
LEMMA IInvTypeOK == IInv => TypeOK
<1> SUFFICES ASSUME IInv PROVE TypeOK
  OBVIOUS
<1>1. \A i \in DOMAIN ctx.blocks : Len(ctx.blocks[i]) = SHA1_BLOCK_SIZE
  <2>1. ctx.blocks \in Seq(Blocks)
    BY DEF IInv, Contexts
  <2>2. \A i \in DOMAIN ctx.blocks : ctx.blocks[i] \in Blocks
    BY <2>1
  <2>3. \A block \in Blocks : Len(block) = SHA1_BLOCK_SIZE
    BY BlockAssumption DEF Blocks
  <2> QED BY <2>2, <2>3
<1> QED BY <1>1 DEF IInv, TypeOK, Contexts, Blocks, Values

(* What it says while the message is fed ...                               *)
LEMMA IInvNoByteLost == IInv => NoByteLost
<1> SUFFICES ASSUME IInv, phase = "feeding"
             PROVE  /\ FlattenSeq(ctx.blocks)
                         \o SubSeq(ctx.buffer, 1, BufferUsed(ctx)) = fed
                    /\ ctx.count1 * WORD + ctx.count0 = 8 * Len(fed)
  BY DEF NoByteLost
<1>1. Holds(ctx, fed) /\ fed \in BoundedSeq(Bytes, MaxLength)
  BY DEF IInv
<1>2. PICK l \in Nat : l = Len(fed) /\ 8 * l < WORD * WORD
  BY <1>1, FedIs
<1>3. ctx.count1 = (8 * l) \div WORD /\ ctx.count0 = (8 * l) % WORD
  BY <1>1, <1>2, WordsOfCount DEF Holds
<1>4. ctx.count1 * WORD + ctx.count0 = 8 * l
  <2>1. PICK w \in Nat \ {0}, bits \in Nat : w = WORD /\ bits = 8 * l
    BY BlockAssumption
  <2>2. PICK h \in Nat, r \in 0 .. w - 1 :
          h = bits \div w /\ r = bits % w /\ bits = w * h + r
    BY DivMod
  <2>3. h * w + r = bits
    BY <2>2
  <2>4. ctx.count1 = h /\ ctx.count0 = r
    BY <1>3, <2>1, <2>2, Zenon
  <2> QED BY <2>1, <2>3, <2>4, Zenon
<1> QED BY <1>1, <1>2, <1>4, HoldsMessage

(* ... and after the padding.                                              *)
LEMMA IInvDigestExact == IInv => DigestExact
<1> SUFFICES ASSUME IInv, phase = "final"
             PROVE  FlattenSeq(ctx.blocks) = Padded(fed)
  BY DEF DigestExact
<1>1. Holds(ctx, Padded(fed)) /\ fed \in BoundedSeq(Bytes, MaxLength)
  BY DEF IInv
<1>2. fed \in Seq(Values) /\ Len(fed) \in Nat /\ 8 * Len(fed) < WORD * WORD
  BY <1>1, FedIs
<1>3. Len(Padded(fed)) % SHA1_BLOCK_SIZE = 0
  BY <1>2, PaddedEndsBlock
<1> QED BY <1>1, <1>3, HoldsMessage

(* Words, buffer and blocks have their sizes.                              *)
THEOREM Sha1TypeOK == Spec => []TypeOK
BY Inductive, IInvTypeOK, PTL

(* However a message is cut into calls of Sha1Update, the blocks processed *)
(* and the bytes buffered are the message, and the two words its length.   *)
THEOREM NoByteEverLost == Spec => []NoByteLost
BY Inductive, IInvNoByteLost, PTL

(* The blocks Sha1Final leaves are those of the padded message.            *)
THEOREM DigestAlwaysExact == Spec => []DigestExact
BY Inductive, IInvDigestExact, PTL
=============================================================================
