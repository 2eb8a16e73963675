--------------------------- MODULE HandshakeKeyProofs ---------------------------
(***************************************************************************)
(* Theorems about the answer of the handshake and the two libraries it is  *)
(* made with, for any texts, any cuts of a message and any width of words. *)
(*                                                                         *)
(* Base64: base64_encode and base64_decode never write beyond what they    *)
(* have allocated.  Encoding: three bytes more become four letters, and 72 *)
(* letters one line feed; so what has been written follows from at and     *)
(* line_len by a linear equation, and the formula of the allocation is     *)
(* compared with it.  When the formula wraps around, the length it gives   *)
(* is below that of the source, and the call is refused.  Decoding: what   *)
(* has been written follows from the number of letters read.               *)
(*                                                                         *)
(* What base64_encode makes is read back.  IsText(s, t) says, place by     *)
(* place, which letter t has for the source s: every 73rd place is a line  *)
(* feed, and the k-th letter has six bits of three bytes of s.  Encoding   *)
(* has written the places of the text so far (Encoded); decoding has found *)
(* c letters and holds the c \div 4 * 3 bytes they make, the values of the *)
(* others and the padding seen (ReadTo).                                   *)
(*                                                                         *)
(* Sha1: a digest that is handed out is of the bytes given since           *)
(* SHA1Reset, padded as the standard says.  While a message is read the    *)
(* context holds exactly the bytes read: whole blocks in the hash, the     *)
(* rest in Message_Block, and their number of bits in the two words.       *)
(* Padding compares the two ways the code does it with the standard, byte  *)
(* by byte.                                                                *)
(*                                                                         *)
(* The answer: what wsHandshake sends to a client whose key came whole is  *)
(* what RFC 6455 answers to that key.  AcceptInv says how far the answer   *)
(* is: the message is a key of the request with the magic string behind    *)
(* it; n blocks of the padded message are in the hash, and of the next the *)
(* words and the rounds made so far are those of the standard; base64 has  *)
(* the bytes of that hash as its source.  The standard is defined by       *)
(* recursion (Words, Rounds, HashOf); RecursionExists shows from the least *)
(* number principle that such functions exist, so they can be unfolded,    *)
(* and each step of the code is one step of theirs.                        *)
(***************************************************************************)
EXTENDS AcceptKey, FiniteSetTheorems, FunctionTheorems, SequenceTheorems,
        WellFoundedInduction, TLAPS

LEMMA ModWraps ==
  ASSUME NEW a \in Nat, NEW w \in Nat, NEW k \in {0, 1, 2, 3}, k * w <= a, a < (k + 1) * w
  PROVE  a % w = a - k * w
<1>1. w > 0 /\ a = w * (a \div w) + (a % w) /\ a % w \in 0 .. w - 1 /\ a \div w \in Int
  OBVIOUS
<1>2. a \div w = k
  <2>1. CASE a \div w <= k - 1
    <3>1. w * (a \div w) <= w * (k - 1)
      BY <1>1, <2>1
    <3> QED BY <1>1, <3>1
  <2>2. CASE a \div w >= k + 1
    <3>1. w * (a \div w) >= w * (k + 1)
      BY <1>1, <2>2
    <3> QED BY <1>1, <3>1
  <2> QED BY <1>1, <2>1, <2>2
<1> QED BY <1>1, <1>2

(* The formula as it is meant. *)
MeantLength(n) == ((n * 4) \div 3 + 4) + ((n * 4) \div 3 + 4) \div 72 + 1

LEMMA OuterDoesNotWrap ==
  ASSUME NEW n \in Nat, NEW r \in Nat, r < SizeMod, Blocks4(n) = r \div 3 + 4
  PROVE  Olen(n) = Blocks4(n) + Blocks4(n) \div 72 + 1
<1> DEFINE x == Blocks4(n) + Blocks4(n) \div 72 + 1
<1>1. SizeMod \in Nat /\ SizeMod >= 128
  BY Base64Assumption DEF Base64Assumption
<1>2. x \in Nat /\ x < SizeMod
  BY <1>1
<1> HIDE DEF x
<1>3. x % SizeMod = x - 0 * SizeMod
  <2>1. 0 * SizeMod <= x /\ x < (0 + 1) * SizeMod /\ x \in Nat /\ SizeMod \in Nat
    BY <1>1, <1>2
  <2> QED BY <2>1, ModWraps
<1>4. x % SizeMod = x
  BY <1>1, <1>2, <1>3
<1> QED BY <1>4 DEF Olen, x

(* A call whose formula wraps around is refused. *)
LEMMA OlenIsMeant ==
  ASSUME NEW n \in Nat, n < SizeMod, Olen(n) >= n
  PROVE  Olen(n) = MeantLength(n)
<1>1. SizeMod \in Nat /\ SizeMod >= 128
  BY Base64Assumption DEF Base64Assumption
<1>2. PICK k \in {0, 1, 2, 3} : k * SizeMod <= n * 4 /\ n * 4 < (k + 1) * SizeMod
  <2>1. CASE n * 4 < SizeMod
    BY <1>1, <2>1
  <2>2. CASE n * 4 >= SizeMod /\ n * 4 < 2 * SizeMod
    BY <1>1, <2>2
  <2>3. CASE n * 4 >= 2 * SizeMod /\ n * 4 < 3 * SizeMod
    BY <1>1, <2>3
  <2>4. CASE n * 4 >= 3 * SizeMod
    BY <1>1, <2>4
  <2> QED BY <1>1, <2>1, <2>2, <2>3, <2>4
<1> DEFINE r == n * 4 - k * SizeMod
<1>3. (n * 4) % SizeMod = r
  <2> DEFINE a == n * 4
  <2>1. a \in Nat /\ SizeMod \in Nat /\ k * SizeMod <= a /\ a < (k + 1) * SizeMod
    BY <1>1, <1>2
  <2> HIDE DEF a
  <2>2. a % SizeMod = a - k * SizeMod
    BY <2>1, ModWraps
  <2> QED BY <2>2 DEF a
<1>4. r \in Nat /\ r < SizeMod
  BY <1>1, <1>2
<1>5. Blocks4(n) = r \div 3 + 4
  BY <1>3 DEF Blocks4
<1>6. Olen(n) = (r \div 3 + 4) + (r \div 3 + 4) \div 72 + 1
  BY <1>4, <1>5, OuterDoesNotWrap
<1>7. CASE k = 0
  <2>1. r = n * 4
    BY <1>1, <1>7
  <2> QED BY <1>6, <2>1 DEF MeantLength
<1>8. CASE k = 1
  <2>1. r = n * 4 - SizeMod /\ n * 4 < 2 * SizeMod
    BY <1>1, <1>2, <1>8
  <2> HIDE DEF r
  <2> QED BY <1>1, <1>4, <1>6, <2>1
<1>9. CASE k = 2
  <2>1. r = n * 4 - 2 * SizeMod /\ n * 4 < 3 * SizeMod
    BY <1>1, <1>2, <1>9
  <2> HIDE DEF r
  <2> QED BY <1>1, <1>4, <1>6, <2>1
<1>10. CASE k = 3
  <2>1. r = n * 4 - 3 * SizeMod
    BY <1>1, <1>2, <1>10
  <2> HIDE DEF r
  <2> QED BY <1>1, <1>4, <1>6, <2>1
<1> QED BY <1>7, <1>8, <1>9, <1>10
---------------------------------------------------------------------------
LEMMA TableTypes ==
  /\ \A i \in 0 .. 63 : base64_table[i] \in Byte
  /\ \A ch \in Byte : dtable[ch] \in 0 .. 128
<1>1. \A i \in 0 .. 63 : base64_table[i] \in Byte
  BY DEF base64_table, Byte
<1>2. ASSUME NEW ch \in Byte PROVE dtable[ch] \in 0 .. 128
  <2>1. CASE \E i \in 0 .. 63 : base64_table[i] = ch
    <3> DEFINE w == CHOOSE i \in 0 .. 63 : base64_table[i] = ch
    <3>1. w \in 0 .. 63
      BY <2>1
    <3>2. dtable[ch] = IF ch = EQUALS THEN 0 ELSE w
      BY <2>1 DEF dtable
    <3> HIDE DEF w
    <3> QED BY <3>1, <3>2
  <2>2. CASE ~ \E i \in 0 .. 63 : base64_table[i] = ch
    <3>1. dtable[ch] = IF ch = EQUALS THEN 0 ELSE 128
      BY <2>2 DEF dtable
    <3> QED BY <3>1
  <2> QED BY <2>1, <2>2
<1> QED BY <1>1, <1>2

LEMMA LettersTypes ==
  ASSUME NEW x \in Byte, NEW y \in Byte, NEW z \in Byte
  PROVE  Letters(x, y, z) \in Seq(Byte) /\ Len(Letters(x, y, z)) = 4
<1>1. /\ x \div 4 \in 0 .. 63 /\ (x % 4) * 16 + y \div 16 \in 0 .. 63
      /\ (y % 16) * 4 + z \div 64 \in 0 .. 63 /\ z % 64 \in 0 .. 63
  BY DEF Byte
<1> DEFINE a == base64_table[x \div 4]  b == base64_table[(x % 4) * 16 + y \div 16]
           c == base64_table[(y % 16) * 4 + z \div 64]  d == base64_table[z % 64]
<1>2. a \in Byte /\ b \in Byte /\ c \in Byte /\ d \in Byte
  BY <1>1, TableTypes
<1> HIDE DEF a, b, c, d
<1>3. <<a, b, c, d>> \in Seq(Byte) /\ Len(<<a, b, c, d>>) = 4
  BY <1>2
<1> QED BY <1>3 DEF Letters, a, b, c, d
---------------------------------------------------------------------------
(* The text of s, letter by letter: how many letters carry data and how many *)
(* there are, which letter stands at position p when every 73rd position is  *)
(* a line feed, and the value of the k-th letter.                            *)
Sextets(n) == (4 * n + 2) \div 3
LettersOf(n) == 4 * ((n + 2) \div 3)
LetterAt(p) == p - p \div 73 - 1

ByteAt(s, j) == IF j <= Len(s) THEN s[j] ELSE 0
Sextet(x, y, z, i) ==
  IF i = 0 THEN x \div 4 ELSE IF i = 1 THEN (x % 4) * 16 + y \div 16
  ELSE IF i = 2 THEN (y % 16) * 4 + z \div 64 ELSE z % 64
SextetOf(s, k) ==
  Sextet(ByteAt(s, 3 * (k \div 4) + 1), ByteAt(s, 3 * (k \div 4) + 2), ByteAt(s, 3 * (k \div 4) + 3), k % 4)

IsLetter(s, p) == p % 73 # 0 /\ LetterAt(p) < LettersOf(Len(s))
TextAt(s, p) ==
  IF ~IsLetter(s, p) THEN LF
  ELSE IF LetterAt(p) < Sextets(Len(s)) THEN base64_table[SextetOf(s, LetterAt(p))] ELSE EQUALS

IsText(s, t) ==
  /\ s \in Seq(Byte) /\ t \in Seq(Byte)
  /\ Len(t) = LettersOf(Len(s)) + (LettersOf(Len(s)) + 71) \div 72
  /\ \A p \in 1 .. Len(t) : t[p] = TextAt(s, p)

LEMMA TableReads ==
  /\ \A i \in 0 .. 63 : base64_table[i] \notin {LF, EQUALS} /\ dtable[base64_table[i]] = i
  /\ dtable[EQUALS] = 0 /\ dtable[LF] = 128
<1>1. ASSUME NEW i \in 0 .. 63, NEW j \in 0 .. 63, base64_table[i] = base64_table[j] PROVE i = j
  BY <1>1 DEF base64_table
<1>2. \A i \in 0 .. 63 : base64_table[i] \notin {LF, EQUALS} /\ base64_table[i] \in Byte
  BY DEF base64_table, LF, EQUALS, Byte
<1>3. ASSUME NEW i \in 0 .. 63 PROVE dtable[base64_table[i]] = i
  <2> DEFINE c == base64_table[i]
             w == CHOOSE j \in 0 .. 63 : base64_table[j] = c
  <2>1. w \in 0 .. 63 /\ base64_table[w] = c
    OBVIOUS
  <2>2. w = i
    BY <1>1, <2>1
  <2>3. c \in Byte /\ c # EQUALS
    BY <1>2
  <2>4. dtable[c] = w
    BY <2>3 DEF dtable
  <2> QED BY <2>2, <2>4
<1>4. dtable[EQUALS] = 0
  BY DEF dtable, EQUALS, Byte
<1>5. dtable[LF] = 128
  <2>1. LF \in Byte /\ LF # EQUALS
    BY DEF LF, EQUALS, Byte
  <2> QED BY <1>2, <2>1 DEF dtable
<1> QED BY <1>2, <1>3, <1>4, <1>5

LEMMA SextetTypes ==
  ASSUME NEW x \in Byte, NEW y \in Byte, NEW z \in Byte, NEW i \in 0 .. 3
  PROVE  Sextet(x, y, z, i) \in 0 .. 63 /\ Letters(x, y, z)[i + 1] = base64_table[Sextet(x, y, z, i)]
<1>1. Sextet(x, y, z, i) \in 0 .. 63
  BY DEF Sextet, Byte
<1> DEFINE a == base64_table[x \div 4]  b == base64_table[(x % 4) * 16 + y \div 16]
           c == base64_table[(y % 16) * 4 + z \div 64]  d == base64_table[z % 64]
<1>2. base64_table[Sextet(x, y, z, i)] = IF i = 0 THEN a ELSE IF i = 1 THEN b ELSE IF i = 2 THEN c ELSE d
  <2>1. i = 0 \/ i = 1 \/ i = 2 \/ i = 3
    OBVIOUS
  <2> QED BY <2>1, Zenon DEF Sextet
<1>3. Letters(x, y, z) = <<a, b, c, d>>
  BY Zenon DEF Letters
<1> HIDE DEF a, b, c, d
<1>4. <<a, b, c, d>>[i + 1] = IF i = 0 THEN a ELSE IF i = 1 THEN b ELSE IF i = 2 THEN c ELSE d
  OBVIOUS
<1> QED BY <1>1, <1>2, <1>3, <1>4

LEMMA Joined ==
  ASSUME NEW m \in Nat \ {0}, NEW u \in Nat, NEW v \in 0 .. m - 1
  PROVE  (u * m + v) \div m = u /\ (u * m + v) % m = v
<1> DEFINE a == u * m + v
<1>1. a \in Nat /\ a = m * (a \div m) + (a % m) /\ a % m \in 0 .. m - 1 /\ a \div m \in Nat
  OBVIOUS
<1>2. a \div m = u
  <2>1. CASE a \div m <= u - 1
    <3>1. m * (a \div m) <= m * (u - 1)
      BY <1>1, <2>1
    <3> QED BY <1>1, <3>1
  <2>2. CASE a \div m >= u + 1
    <3>1. m * (a \div m) >= m * (u + 1)
      BY <1>1, <2>2
    <3> QED BY <1>1, <3>1
  <2> QED BY <1>1, <2>1, <2>2
<1> QED BY <1>1, <1>2

(* The four letters of a block give its three bytes back. *)
LEMMA BytesComeBack ==
  ASSUME NEW x \in Byte, NEW y \in Byte, NEW z \in Byte
  PROVE  ThreeBytes(Sextet(x, y, z, 0), Sextet(x, y, z, 1), Sextet(x, y, z, 2), Sextet(x, y, z, 3))
           = <<x, y, z>>
<1> DEFINE a == x \div 4  b == x % 4  c == y \div 16  d == y % 16  e == z \div 64  f == z % 64
<1>1. /\ a \in 0 .. 63 /\ b \in 0 .. 3 /\ x = a * 4 + b
      /\ c \in 0 .. 15 /\ d \in 0 .. 15 /\ y = c * 16 + d
      /\ e \in 0 .. 3 /\ f \in 0 .. 63 /\ z = e * 64 + f
  BY DEF Byte
<1>2. Sextet(x, y, z, 0) = a /\ Sextet(x, y, z, 1) = b * 16 + c
      /\ Sextet(x, y, z, 2) = d * 4 + e /\ Sextet(x, y, z, 3) = f
  BY DEF Sextet
<1> HIDE DEF a, b, c, d, e, f
<1>3. (b * 16 + c) \div 16 = b /\ (d * 4 + e) \div 4 = d
  BY <1>1, Joined
<1>4. ((b * 16 + c) * 16) % 256 = c * 16
  <2>1. (b * 16 + c) * 16 = b * 256 + c * 16 /\ c * 16 \in 0 .. 256 - 1 /\ b \in Nat
    BY <1>1
  <2> DEFINE v == c * 16
  <2>2. v \in 0 .. 256 - 1 /\ 256 \in Nat \ {0} /\ b \in Nat
    BY <2>1
  <2> HIDE DEF v
  <2>3. (b * 256 + v) % 256 = v
    BY <2>2, Joined
  <2> QED BY <2>1, <2>3 DEF v
<1>5. ((d * 4 + e) * 64) % 256 = e * 64
  <2>1. (d * 4 + e) * 64 = d * 256 + e * 64 /\ e * 64 \in 0 .. 256 - 1 /\ d \in Nat
    BY <1>1
  <2> DEFINE v == e * 64
  <2>2. v \in 0 .. 256 - 1 /\ 256 \in Nat \ {0} /\ d \in Nat
    BY <2>1
  <2> HIDE DEF v
  <2>3. (d * 256 + v) % 256 = v
    BY <2>2, Joined
  <2> QED BY <2>1, <2>3 DEF v
<1> QED BY <1>1, <1>2, <1>3, <1>4, <1>5 DEF ThreeBytes

LEMMA ByteAtTypes ==
  ASSUME NEW s \in Seq(Byte), NEW j \in Nat \ {0}
  PROVE  ByteAt(s, j) \in Byte
<1>1. Len(s) \in Nat /\ 0 \in Byte
  BY LenProperties DEF Byte
<1>2. j <= Len(s) => s[j] \in Byte
  BY <1>1, ElementOfSeq
<1> QED BY <1>1, <1>2 DEF ByteAt

LEMMA SextetOfTypes ==
  ASSUME NEW s \in Seq(Byte), NEW k \in Nat
  PROVE  /\ SextetOf(s, k) \in 0 .. 63
         /\ k >= Sextets(Len(s)) /\ k < LettersOf(Len(s)) => SextetOf(s, k) = 0
<1> DEFINE q == k \div 4  x == ByteAt(s, 3 * q + 1)  y == ByteAt(s, 3 * q + 2)  z == ByteAt(s, 3 * q + 3)
<1>1. q \in Nat /\ k % 4 \in 0 .. 3 /\ k = 4 * q + (k % 4)
  OBVIOUS
<1>0. Len(s) \in Nat
  BY LenProperties
<1>2. x \in Byte /\ y \in Byte /\ z \in Byte
  <2>1. 3 * q + 1 \in Nat \ {0} /\ 3 * q + 2 \in Nat \ {0} /\ 3 * q + 3 \in Nat \ {0}
    BY <1>1
  <2> QED BY <2>1, ByteAtTypes
<1>3. SextetOf(s, k) = Sextet(x, y, z, k % 4)
  BY DEF SextetOf
<1>4. SextetOf(s, k) \in 0 .. 63
  <2> DEFINE i == k % 4
  <2>1. i \in 0 .. 3 /\ SextetOf(s, k) = Sextet(x, y, z, i)
    BY <1>1, <1>3
  <2> HIDE DEF x, y, z, i
  <2>2. Sextet(x, y, z, i) \in 0 .. 63
    BY <1>2, <2>1, SextetTypes
  <2> QED BY <2>1, <2>2
<1>5. ASSUME k >= Sextets(Len(s)), k < LettersOf(Len(s)) PROVE SextetOf(s, k) = 0
  <2>1. \/ Len(s) = 3 * q + 1 /\ k % 4 \in {2, 3}
        \/ Len(s) = 3 * q + 2 /\ k % 4 = 3
    BY <1>0, <1>1, <1>5 DEF Sextets, LettersOf
  <2>2. z = 0 /\ (Len(s) = 3 * q + 1 => y = 0)
    BY <1>0, <1>1, <2>1 DEF ByteAt
  <2> QED BY <1>1, <1>3, <2>1, <2>2 DEF Sextet
<1> QED BY <1>4, <1>5
---------------------------------------------------------------------------
(* How far base64_encode is, ... *)
Encoding ==
  /\ src \in Seq(Byte) /\ Len(src) < SizeMod
  /\ Olen(Len(src)) >= Len(src) /\ olen = Olen(Len(src))
  /\ at \in 0 .. Len(src) /\ at % 3 = 0
  /\ line_len \in 0 .. 68 /\ line_len % 4 = 0
  /\ out \in Seq(Byte) /\ top = Len(out)
  /\ 216 * Len(out) = 292 * at - 3 * line_len

(* ... and base64_decode. *)
LettersTo(n) == Cardinality({k \in 1 .. n : Valid(src[k])})

Decoding ==
  /\ src \in Seq(Byte) /\ at \in 0 .. Len(src)
  /\ out \in Seq(Int) /\ block \in Seq(Int) /\ Len(block) \in 0 .. 3 /\ pad \in Nat
  /\ olen = (Count(src) \div 4) * 3 /\ top = Len(out)
  /\ 4 * Len(out) + 3 * Len(block) = 3 * LettersTo(at)

B64Inv ==
  /\ b64 \in {"idle", "encode", "decode", "done"}
  /\ top \in Nat /\ olen \in Nat /\ top <= olen
  /\ made.text \in Seq(Byte)
  /\ b64 = "encode" => Encoding
  /\ b64 = "decode" => Decoding

LEMMA RefuseKeeps == ASSUME B64Inv, Refuse PROVE B64Inv'
<1>1. /\ b64' = "done" /\ olen' = 0 /\ top' = 0 /\ made' = [src |-> <<>>, text |-> <<>>]
  BY DEF Refuse, Return64, NothingMade
<1>2. made'.text \in Seq(Byte)
  BY <1>1, EmptySeq
<1> QED BY <1>1, <1>2 DEF B64Inv

LEMMA EncodeCallKeeps ==
  ASSUME B64Inv, NEW s \in Seq(Byte), Len(s) < SizeMod, EncodeCall(s) PROVE B64Inv'
<1>1. s \in Seq(Byte) /\ Len(s) < SizeMod /\ Len(s) \in Nat /\ SizeMod \in Nat /\ SizeMod > 0
  BY LenProperties, Base64Assumption DEF Base64Assumption
<1>2. CASE Olen(Len(s)) < Len(s)
  BY <1>2, RefuseKeeps DEF EncodeCall
<1>3. CASE ~(Olen(Len(s)) < Len(s))
  <2>1. Begin64("encode", s, Olen(Len(s)))
    BY <1>3 DEF EncodeCall
  <2>2. Olen(Len(s)) \in Nat
    <3>1. Blocks4(Len(s)) \in Nat
      BY <1>1 DEF Blocks4
    <3> QED BY <1>1, <3>1 DEF Olen
  <2>3. Olen(Len(s)) >= Len(s)
    BY <1>1, <1>3, <2>2
  <2> DEFINE n == Olen(Len(s))
  <2> HIDE DEF n
  <2>4. b64' = "encode" /\ src' = s /\ at' = 0 /\ out' = <<>> /\ line_len' = 0 /\ top' = 0 /\ made' = made
    BY <2>1 DEF Begin64
  <2>5. olen' = Olen(Len(s))
    BY <2>1 DEF Begin64
  <2>6. Encoding'
    <3>1. out' \in Seq(Byte) /\ Len(out') = 0
      BY <2>4, EmptySeq
    <3>2. 0 \in 0 .. Len(s) /\ 0 % 3 = 0 /\ 0 \in 0 .. 68 /\ 0 % 4 = 0 /\ 216 * 0 = 292 * 0 - 3 * 0
      BY <1>1
    <3>3. (src \in Seq(Byte) /\ Len(src) < SizeMod /\ Olen(Len(src)) >= Len(src) /\ olen = Olen(Len(src)))'
      BY <1>1, <2>3, <2>4, <2>5
    <3> QED BY <2>4, <3>1, <3>2, <3>3 DEF Encoding
  <2> QED BY <2>2, <2>4, <2>5, <2>6 DEF B64Inv
<1> QED BY <1>2, <1>3

LEMMA DecodeCallKeeps ==
  ASSUME B64Inv, NEW t \in Seq(Byte), DecodeCall(t) PROVE B64Inv'
<1>1. CASE Count(t) = 0 \/ Count(t) % 4 # 0
  BY <1>1, RefuseKeeps DEF DecodeCall
<1>2. CASE ~(Count(t) = 0 \/ Count(t) % 4 # 0)
  <2>1. Begin64("decode", t, (Count(t) \div 4) * 3)
    BY <1>2 DEF DecodeCall
  <2>2. b64' = "decode" /\ src' = t /\ at' = 0 /\ out' = <<>> /\ block' = <<>> /\ pad' = 0 /\ top' = 0 /\ made' = made
    BY <2>1 DEF Begin64
  <2>3. olen' = (Count(t) \div 4) * 3
    BY <2>1 DEF Begin64
  <2>4. Count(t) \in Nat /\ Len(t) \in Nat
    <3>1. IsFiniteSet(1 .. Len(t)) /\ Len(t) \in Nat
      BY LenProperties, FS_Interval
    <3>2. IsFiniteSet({k \in 1 .. Len(t) : Valid(t[k])})
      BY <3>1, FS_Subset
    <3> QED BY <3>1, <3>2, FS_CardinalityType DEF Count
  <2>5. LettersTo(at)' = 0
    <3>1. {k \in 1 .. 0 : Valid(t[k])} = {}
      OBVIOUS
    <3> QED BY <2>2, <3>1, FS_EmptySet DEF LettersTo
  <2>6. Decoding'
    <3>1. out' \in Seq(Int) /\ Len(out') = 0 /\ block' \in Seq(Int) /\ Len(block') = 0
      BY <2>2, EmptySeq
    <3>2. at' \in 0 .. Len(src') /\ src' \in Seq(Byte) /\ olen' = (Count(src') \div 4) * 3
      BY <2>2, <2>3, <2>4
    <3> QED BY <2>2, <2>5, <3>1, <3>2 DEF Decoding
  <2>7. olen' \in Nat
    BY <2>3, <2>4
  <2> QED BY <2>2, <2>6, <2>7 DEF B64Inv
<1> QED BY <1>1, <1>2
---------------------------------------------------------------------------
(* What has been written, and the lines of it, are within the formula. *)
LEMMA EncodingFits ==
  ASSUME Encoding
  PROVE  /\ Len(src) \in Nat /\ Len(out) \in Nat /\ olen \in Nat
         /\ Len(src) - at = 0 => Len(out) + (IF line_len > 0 THEN 1 ELSE 0) + 1 <= olen
         /\ Len(src) - at \in {1, 2} => Len(out) + 4 + 1 + 1 <= olen
         /\ Len(src) - at >= 3 => Len(out) + 5 <= olen
<1> DEFINE n == Len(src)  q == at \div 3  f == Len(out) - 4 * q
           a == (n * 4) \div 3  b == (a + 4) \div 72
<1>1. n \in Nat /\ Len(out) \in Nat /\ at \in 0 .. n /\ line_len \in 0 .. 68
  BY LenProperties DEF Encoding
<1>2. olen = a + 4 + b + 1
  BY <1>1, OlenIsMeant DEF Encoding, MeantLength
<1>3. at = 3 * q /\ q \in Nat
  BY <1>1 DEF Encoding
<1>4. 72 * f = 4 * q - line_len /\ f \in Int
  BY <1>1, <1>3 DEF Encoding
<1>5. a \in Nat /\ 3 * a <= n * 4 /\ n * 4 <= 3 * a + 2
  BY <1>1
<1> HIDE DEF a
<1>6. b \in Nat /\ 72 * b <= a + 4 /\ a + 4 <= 72 * b + 71
  BY <1>5
<1> HIDE DEF b, q
<1>7. Len(out) = 4 * q + f
  BY <1>1, <1>3
<1> HIDE DEF f
<1>8. olen \in Nat
  BY <1>2, <1>5, <1>6
<1>9. a >= 4 * q => f <= b
  <2> SUFFICES ASSUME a >= 4 * q PROVE f <= b
    OBVIOUS
  <2>1. 72 * f <= 72 * b + 67
    BY <1>1, <1>3, <1>4, <1>5, <1>6
  <2> QED BY <1>4, <1>6, <2>1
<1>10. CASE n - at = 0
  <2>1. a = 4 * q
    BY <1>1, <1>3, <1>5, <1>10
  <2>2. f <= b
    BY <1>3, <1>5, <1>9, <2>1
  <2> QED BY <1>1, <1>2, <1>3, <1>4, <1>5, <1>6, <1>7, <1>8, <1>10, <2>1, <2>2
<1>11. CASE n - at \in {1, 2}
  <2>1. a >= 4 * q + 1
    BY <1>1, <1>3, <1>5, <1>11
  <2>2. f <= b
    BY <1>3, <1>5, <1>9, <2>1
  <2> QED BY <1>1, <1>2, <1>3, <1>4, <1>5, <1>6, <1>7, <1>8, <1>11, <2>1, <2>2
<1>12. CASE n - at >= 3
  <2>1. a >= 4 * q + 4
    BY <1>1, <1>3, <1>5, <1>12
  <2>2. f <= b
    BY <1>3, <1>5, <1>9, <2>1
  <2> QED BY <1>1, <1>2, <1>3, <1>4, <1>5, <1>6, <1>7, <1>8, <1>12, <2>1, <2>2
<1> QED BY <1>1, <1>8, <1>10, <1>11, <1>12

(* The equation of Encoding after one more block. *)
LEMMA BlockEndsLine ==
  ASSUME NEW l \in 0 .. 68, l % 4 = 0, l + 4 >= 72, NEW n \in Nat, NEW a \in Int,
         216 * n = 292 * a - 3 * l
  PROVE  216 * (n + 5) = 292 * (a + 3) - 3 * 0
OBVIOUS

LEMMA BlockInLine ==
  ASSUME NEW l \in 0 .. 68, l % 4 = 0, ~(l + 4 >= 72), NEW n \in Nat, NEW a \in Int,
         216 * n = 292 * a - 3 * l
  PROVE  /\ l + 4 \in 0 .. 68 /\ (l + 4) % 4 = 0
         /\ 216 * (n + 4) = 292 * (a + 3) - 3 * (l + 4)
OBVIOUS

LEMMA EncodeBlockKeeps == ASSUME B64Inv, EncodeBlock PROVE B64Inv'
<1> DEFINE quad == Letters(src[at + 1], src[at + 2], src[at + 3])
<1>1. Encoding /\ b64 = "encode" /\ b64' = "encode"
  BY DEF EncodeBlock, B64Inv
<1>2. Len(src) \in Nat /\ Len(out) \in Nat /\ at \in 0 .. Len(src) /\ Len(src) - at >= 3
  BY <1>1, LenProperties DEF EncodeBlock, Encoding
<1>3. quad \in Seq(Byte) /\ Len(quad) = 4
  <2>1. src[at + 1] \in Byte /\ src[at + 2] \in Byte /\ src[at + 3] \in Byte
    BY <1>1, <1>2, ElementOfSeq DEF Encoding
  <2> QED BY <2>1, LettersTypes
<1>4. /\ at' = at + 3 /\ top' = Len(out') /\ UNCHANGED <<src, olen, made>>
      /\ IF line_len + 4 >= 72 THEN out' = out \o Append(quad, LF) /\ line_len' = 0
         ELSE out' = out \o quad /\ line_len' = line_len + 4
  BY DEF EncodeBlock
<1> HIDE DEF quad
<1>5. Append(quad, LF) \in Seq(Byte) /\ Len(Append(quad, LF)) = 5
  <2>1. LF \in Byte
    BY DEF LF, Byte
  <2>2. Append(quad, LF) \in Seq(Byte) /\ Len(Append(quad, LF)) = Len(quad) + 1
      <3>1. quad \in Seq(Byte)
        BY <1>3
      <3> QED BY <2>1, <3>1, AppendProperties
  <2> QED BY <1>3, <2>2
<1>6. /\ out \o quad \in Seq(Byte) /\ Len(out \o quad) = Len(out) + 4
      /\ out \o Append(quad, LF) \in Seq(Byte) /\ Len(out \o Append(quad, LF)) = Len(out) + 5
  BY <1>1, <1>3, <1>5, ConcatProperties DEF Encoding
<1>7. /\ out' \in Seq(Byte) /\ Len(out') <= Len(out) + 5 /\ Len(out') \in Nat
      /\ line_len' \in 0 .. 68 /\ line_len' % 4 = 0
      /\ 216 * Len(out') = 292 * at' - 3 * line_len'
  <2>1. /\ line_len \in 0 .. 68 /\ line_len % 4 = 0 /\ 216 * Len(out) = 292 * at - 3 * line_len
        /\ at \in Int
    BY <1>1, <1>2 DEF Encoding
  <2>2. CASE line_len + 4 >= 72
    <3>1. out' = out \o Append(quad, LF) /\ line_len' = 0
      BY <1>4, <2>2
    <3>2. out' \in Seq(Byte) /\ Len(out') = Len(out) + 5
      BY <1>6, <3>1
    <3>3. 216 * (Len(out) + 5) = 292 * (at + 3) - 3 * 0
      BY <1>2, <2>1, <2>2, BlockEndsLine
    <3>4. 216 * Len(out') = 292 * at' - 3 * line_len'
      BY <1>4, <3>1, <3>2, <3>3
    <3>5. Len(out') \in Nat /\ Len(out') <= Len(out) + 5
      BY <1>2, <3>2
    <3>6. line_len' \in 0 .. 68 /\ line_len' % 4 = 0
      BY <3>1
    <3> QED BY <3>2, <3>4, <3>5, <3>6
  <2>3. CASE ~(line_len + 4 >= 72)
    <3>1. out' = out \o quad /\ line_len' = line_len + 4
      BY <1>4, <2>3
    <3>2. out' \in Seq(Byte) /\ Len(out') = Len(out) + 4
      BY <1>6, <3>1
    <3>3. /\ line_len + 4 \in 0 .. 68 /\ (line_len + 4) % 4 = 0
          /\ 216 * (Len(out) + 4) = 292 * (at + 3) - 3 * (line_len + 4)
      BY <1>2, <2>1, <2>3, BlockInLine
    <3>4. 216 * Len(out') = 292 * at' - 3 * line_len'
      BY <1>4, <3>1, <3>2, <3>3
    <3>5. Len(out') \in Nat /\ Len(out') <= Len(out) + 5
      BY <1>2, <3>2
    <3>6. line_len' \in 0 .. 68 /\ line_len' % 4 = 0
      BY <3>1, <3>3
    <3> QED BY <3>2, <3>4, <3>5, <3>6
  <2> QED BY <2>2, <2>3
<1>8. at' \in 0 .. Len(src') /\ at' % 3 = 0
  BY <1>1, <1>2, <1>4 DEF Encoding
<1>9. Encoding'
  BY <1>1, <1>4, <1>7, <1>8 DEF Encoding
<1>10. top' <= olen' /\ top' \in Nat /\ olen' \in Nat
  <2>1. Len(out') <= Len(out) + 5 /\ top' = Len(out') /\ olen' = olen /\ Len(out') \in Nat
    BY <1>4, <1>7
  <2>2. olen \in Nat /\ Len(out) + 5 <= olen
    BY <1>1, <1>2, EncodingFits
  <2> QED BY <1>2, <2>1, <2>2
<1> QED BY <1>1, <1>4, <1>9, <1>10 DEF B64Inv

(* Where base64_encode is: after q blocks, f lines and line_len letters. *)
LEMMA EncodingIsAt ==
  ASSUME Encoding
  PROVE  /\ Len(src) \in Nat /\ at \in 0 .. Len(src) /\ line_len \in 0 .. 68 /\ line_len % 4 = 0
         /\ src \in Seq(Byte) /\ out \in Seq(Byte)
         /\ \E q, f \in Nat :
              at = 3 * q /\ 4 * q = 72 * f + line_len /\ Len(out) = 73 * f + line_len
<1> DEFINE q == at \div 3  f == Len(out) - 4 * q
<1>1. Len(src) \in Nat /\ Len(out) \in Nat /\ at \in 0 .. Len(src) /\ line_len \in 0 .. 68 /\ line_len % 4 = 0
  BY LenProperties DEF Encoding
<1>2. at = 3 * q /\ q \in Nat
  BY <1>1 DEF Encoding
<1>3. 72 * f = 4 * q - line_len /\ f \in Int
  BY <1>1, <1>2 DEF Encoding
<1> HIDE DEF q
<1>4. f \in Nat /\ Len(out) = 73 * f + line_len
  BY <1>1, <1>2, <1>3
<1> HIDE DEF f
<1>5. 4 * q = 72 * f + line_len
  BY <1>1, <1>2, <1>3, <1>4
<1>6. \E m, k \in Nat : at = 3 * m /\ 4 * m = 72 * k + line_len /\ Len(out) = 73 * k + line_len
  BY <1>2, <1>4, <1>5
<1>7. src \in Seq(Byte) /\ out \in Seq(Byte)
  BY DEF Encoding
<1> QED BY <1>1, <1>6, <1>7

(* The last four letters, when one or two bytes are left over. *)
LEMMA RestIs ==
  ASSUME Encoding, NEW d \in {1, 2}, Len(src) - at = d
  PROVE  /\ Rest \in Seq(Byte) /\ Len(Rest) = 4
         /\ \A j \in 0 .. 3 :
              Rest[j + 1] = IF j <= d
                            THEN base64_table[Sextet(ByteAt(src, at + 1), ByteAt(src, at + 2), ByteAt(src, at + 3), j)]
                            ELSE EQUALS
<1> DEFINE x == ByteAt(src, at + 1)  y == ByteAt(src, at + 2)  z == ByteAt(src, at + 3)  l == Letters(x, y, z)
<1>1. Len(src) \in Nat /\ at \in 0 .. Len(src) /\ src \in Seq(Byte)
  BY EncodingIsAt
<1>2. x = src[at + 1] /\ (d = 1 => y = 0) /\ (d = 2 => y = src[at + 2]) /\ z = 0
  BY <1>1 DEF ByteAt
<1>3. x \in Byte /\ y \in Byte /\ z \in Byte
  <2>1. at + 1 \in Nat \ {0} /\ at + 2 \in Nat \ {0} /\ at + 3 \in Nat \ {0}
    BY <1>1
  <2> QED BY <1>1, <2>1, ByteAtTypes
<1>4. Rest = IF d = 1 THEN SubSeq(l, 1, 2) \o <<EQUALS, EQUALS>> ELSE SubSeq(l, 1, 3) \o <<EQUALS>>
  <2>1. CASE d = 1
    BY <1>2, <2>1 DEF Rest
  <2>2. CASE d = 2
    BY <1>2, <2>2 DEF Rest
  <2> QED BY <2>1, <2>2
<1> HIDE DEF x, y, z
<1>5. l \in Seq(Byte) /\ Len(l) = 4
  BY <1>3, LettersTypes
<1>6. \A j \in 0 .. 3 : l[j + 1] = base64_table[Sextet(x, y, z, j)]
  BY <1>3, SextetTypes
<1> HIDE DEF l
<1>7. EQUALS \in Byte
  BY DEF EQUALS, Byte
<1>8. \A j \in 1 .. 4 : l[j] \in Byte
  BY <1>5, ElementOfSeq
<1>9. CASE d = 1
  <2> DEFINE a == SubSeq(l, 1, 2)  b == <<EQUALS, EQUALS>>
  <2>1. a \in Seq(Byte) /\ Len(a) = 2 /\ \A j \in 1 .. 2 : a[j] = l[j]
    <3>1. \A j \in 1 .. 2 : l[j] \in Byte
      BY <1>8
    <3> QED BY <3>1, SubSeqProperties
  <2>2. b \in Seq(Byte) /\ Len(b) = 2 /\ b[1] = EQUALS /\ b[2] = EQUALS
    BY <1>7
  <2> HIDE DEF a, b
  <2>3. a \o b \in Seq(Byte) /\ Len(a \o b) = 4
        /\ \A j \in 1 .. 4 : (a \o b)[j] = IF j <= 2 THEN a[j] ELSE b[j - 2]
    <3>1. a \o b \in Seq(Byte) /\ Len(a \o b) = Len(a) + Len(b)
          /\ \A j \in 1 .. Len(a) + Len(b) : (a \o b)[j] = IF j <= Len(a) THEN a[j] ELSE b[j - Len(a)]
      BY <2>1, <2>2, ConcatProperties
    <3> QED BY <2>1, <2>2, <3>1
  <2>4. Rest = a \o b
    BY <1>4, <1>9 DEF a, b
  <2>5. Rest[1] = l[1] /\ Rest[2] = l[2] /\ Rest[3] = EQUALS /\ Rest[4] = EQUALS
    BY <2>1, <2>2, <2>3, <2>4
  <2>6. Rest \in Seq(Byte) /\ Len(Rest) = 4
    BY <2>3, <2>4
  <2>7. \A j \in 0 .. 3 : Rest[j + 1] = IF j <= d THEN l[j + 1] ELSE EQUALS
    BY <1>9, <2>5
  <2> QED BY <1>6, <2>6, <2>7 DEF x, y, z
<1>10. CASE d = 2
  <2> DEFINE a == SubSeq(l, 1, 3)  b == <<EQUALS>>
  <2>1. a \in Seq(Byte) /\ Len(a) = 3 /\ \A j \in 1 .. 3 : a[j] = l[j]
    <3>1. \A j \in 1 .. 3 : l[j] \in Byte
      BY <1>8
    <3> QED BY <3>1, SubSeqProperties
  <2>2. b \in Seq(Byte) /\ Len(b) = 1 /\ b[1] = EQUALS
    BY <1>7
  <2> HIDE DEF a, b
  <2>3. a \o b \in Seq(Byte) /\ Len(a \o b) = 4
        /\ \A j \in 1 .. 4 : (a \o b)[j] = IF j <= 3 THEN a[j] ELSE b[j - 3]
    <3>1. a \o b \in Seq(Byte) /\ Len(a \o b) = Len(a) + Len(b)
          /\ \A j \in 1 .. Len(a) + Len(b) : (a \o b)[j] = IF j <= Len(a) THEN a[j] ELSE b[j - Len(a)]
      BY <2>1, <2>2, ConcatProperties
    <3> QED BY <2>1, <2>2, <3>1
  <2>4. Rest = a \o b
    BY <1>4, <1>10 DEF a, b
  <2>5. Rest[1] = l[1] /\ Rest[2] = l[2] /\ Rest[3] = l[3] /\ Rest[4] = EQUALS
    BY <2>1, <2>2, <2>3, <2>4
  <2>6. Rest \in Seq(Byte) /\ Len(Rest) = 4
    BY <2>3, <2>4
  <2>7. \A j \in 0 .. 3 : Rest[j + 1] = IF j <= d THEN l[j + 1] ELSE EQUALS
    BY <1>10, <2>5
  <2> QED BY <1>6, <2>6, <2>7 DEF x, y, z
<1> QED BY <1>9, <1>10

LEMMA EncodeEndKeeps == ASSUME B64Inv, EncodeEnd PROVE B64Inv'
<1>1. Encoding
  BY DEF EncodeEnd, B64Inv
<1>2. /\ Len(src) \in Nat /\ Len(out) \in Nat /\ olen \in Nat /\ line_len \in Nat
      /\ Len(src) - at \in {0, 1, 2}
      /\ out \in Seq(Byte) /\ src \in Seq(Byte) /\ at \in 0 .. Len(src)
  <2>1. Len(src) \in Nat /\ Len(out) \in Nat /\ olen \in Nat
    BY <1>1, EncodingFits
  <2>2. line_len \in 0 .. 68 /\ out \in Seq(Byte) /\ src \in Seq(Byte) /\ at \in 0 .. Len(src)
    BY <1>1 DEF Encoding
  <2>3. Len(src) - at < 3
    BY DEF EncodeEnd
  <2>4. line_len \in Nat /\ Len(src) - at \in {0, 1, 2}
    BY <2>1, <2>2, <2>3
  <2> QED BY <2>1, <2>2, <2>4
<1>3. Rest \in Seq(Byte) /\ Len(Rest) = IF Len(src) - at = 0 THEN 0 ELSE 4
  <2>1. CASE Len(src) - at = 0
    BY <2>1, EmptySeq DEF Rest
  <2>2. CASE Len(src) - at \in {1, 2}
    BY <1>1, <2>2, RestIs
  <2> QED BY <1>2, <2>1, <2>2
<1>4. Feed \in Seq(Byte) /\ Len(Feed) = IF line_len + Len(Rest) > 0 THEN 1 ELSE 0
  <2>1. <<LF>> \in Seq(Byte) /\ Len(<<LF>>) = 1
    BY DEF LF, Byte
  <2> QED BY <2>1, EmptySeq DEF Feed
<1>5. out \o Rest \o Feed \in Seq(Byte) /\ Len(out \o Rest \o Feed) = Len(out) + Len(Rest) + Len(Feed)
  <2> DEFINE a == out \o Rest
  <2>1. a \in Seq(Byte) /\ Len(a) = Len(out) + Len(Rest)
    BY <1>2, <1>3, ConcatProperties
  <2> HIDE DEF a
  <2>2. a \o Feed \in Seq(Byte) /\ Len(a \o Feed) = Len(a) + Len(Feed)
    BY <1>4, <2>1, ConcatProperties
  <2> QED BY <2>1, <2>2 DEF a
<1>6. /\ b64' = "done" /\ out' = out \o Rest \o Feed /\ top' = Len(out') + 1
      /\ made' = [src |-> src, text |-> out'] /\ olen' = olen
  BY DEF EncodeEnd, Return64
<1>7. top' \in Nat /\ top' <= olen
  <2>1. top' = Len(out) + Len(Rest) + Len(Feed) + 1
    BY <1>5, <1>6
  <2>2. CASE Len(src) - at = 0
    <3>1. Len(Rest) = 0 /\ Len(Feed) = IF line_len > 0 THEN 1 ELSE 0
      BY <1>2, <1>3, <1>4, <2>2
    <3> QED BY <1>1, <1>2, <2>1, <2>2, <3>1, EncodingFits
  <2>3. CASE Len(src) - at \in {1, 2}
    <3>1. Len(Rest) = 4 /\ Len(Feed) = 1
      BY <1>2, <1>3, <1>4, <2>3
    <3> QED BY <1>1, <1>2, <2>1, <2>3, <3>1, EncodingFits
  <2> QED BY <1>2, <2>2, <2>3
<1>8. made'.text \in Seq(Byte)
  BY <1>5, <1>6
<1> QED BY <1>2, <1>6, <1>7, <1>8 DEF B64Inv
---------------------------------------------------------------------------
(* One byte more is read: a letter counts. *)
LEMMA LettersGrow ==
  ASSUME Decoding, at < Len(src)
  PROVE  /\ LettersTo(at) \in Nat /\ Count(src) \in Nat /\ LettersTo(at) <= Count(src)
         /\ LettersTo(at + 1) = IF Valid(src[at + 1]) THEN LettersTo(at) + 1 ELSE LettersTo(at)
         /\ LettersTo(at + 1) <= Count(src)
<1> DEFINE L(n) == {k \in 1 .. n : Valid(src[k])}
<1>1. Len(src) \in Nat /\ at \in Nat /\ at + 1 \in 1 .. Len(src)
  BY LenProperties DEF Decoding
<1>2. \A n \in Nat : IsFiniteSet(L(n))
  <2> SUFFICES ASSUME NEW n \in Nat PROVE IsFiniteSet(L(n))
    OBVIOUS
  <2>1. IsFiniteSet(1 .. n)
    BY FS_Interval
  <2> QED BY <2>1, FS_Subset
<1>3. L(at) \subseteq L(Len(src)) /\ L(at + 1) \subseteq L(Len(src))
  BY <1>1
<1>4. L(at + 1) = IF Valid(src[at + 1]) THEN L(at) \cup {at + 1} ELSE L(at)
  BY <1>1
<1>5. at + 1 \notin L(at)
  BY <1>1
<1>6. LettersTo(at) \in Nat /\ Count(src) \in Nat
  BY <1>1, <1>2, FS_CardinalityType DEF LettersTo, Count
<1>7. LettersTo(at) <= Count(src) /\ LettersTo(at + 1) <= Count(src)
  <2>1. Cardinality(L(at)) <= Cardinality(L(Len(src))) /\ Cardinality(L(at + 1)) <= Cardinality(L(Len(src)))
    BY <1>1, <1>2, <1>3, FS_Subset
  <2> QED BY <2>1 DEF LettersTo, Count
<1>8. Cardinality(L(at) \cup {at + 1}) = Cardinality(L(at)) + 1
  BY <1>1, <1>2, <1>5, FS_AddElement
<1> QED BY <1>4, <1>6, <1>7, <1>8 DEF LettersTo

LEMMA DecodeSkipKeeps == ASSUME B64Inv, DecodeSkip PROVE B64Inv'
<1>1. Decoding /\ at < Len(src)
  BY DEF DecodeSkip, B64Inv
<1>2. /\ at' = at + 1 /\ b64' = "decode" /\ ~Valid(src[at + 1])
      /\ UNCHANGED <<src, out, olen, block, pad, top, made>>
  BY DEF DecodeSkip
<1>3. LettersTo(at)' = LettersTo(at) /\ at' \in 0 .. Len(src)
  <2>1. LettersTo(at)' = LettersTo(at + 1)
    BY <1>2 DEF LettersTo
  <2>2. at \in 0 .. Len(src) /\ Len(src) \in Nat
    BY <1>1, LenProperties DEF Decoding
  <2> QED BY <1>1, <1>2, <2>1, <2>2, LettersGrow
<1>4. Decoding'
  BY <1>1, <1>2, <1>3 DEF Decoding
<1> QED BY <1>2, <1>4 DEF B64Inv

LEMMA LetterIsInt ==
  ASSUME Decoding, at < Len(src) PROVE dtable[src[at + 1]] \in Int
<1>1. at + 1 \in 1 .. Len(src)
  BY LenProperties DEF Decoding
<1>2. src[at + 1] \in Byte
  <2>1. src \in Seq(Byte)
    BY DEF Decoding
  <2> QED BY <1>1, <2>1, ElementOfSeq
<1> DEFINE d == dtable[src[at + 1]]
<1>3. d \in 0 .. 128
  BY <1>2, TableTypes
<1> HIDE DEF d
<1>4. d \in Int
  BY <1>3
<1> QED BY <1>4 DEF d

LEMMA DecodeLetterKeeps == ASSUME B64Inv, DecodeLetter PROVE B64Inv'
<1>0. Decoding /\ at < Len(src)
  BY DEF DecodeLetter, B64Inv
<1>1. Decoding /\ at < Len(src) /\ Len(block) < 3
  BY DEF DecodeLetter, B64Inv
<1>2. /\ at' = at + 1 /\ b64' = "decode" /\ Valid(src[at + 1])
      /\ block' = Append(block, dtable[src[at + 1]]) /\ pad' = Padded(src[at + 1])
      /\ UNCHANGED <<src, out, olen, top, made>>
  BY DEF DecodeLetter
<1>3. LettersTo(at)' = LettersTo(at) + 1 /\ at' \in 0 .. Len(src) /\ LettersTo(at) \in Nat
  <2>1. LettersTo(at)' = LettersTo(at + 1)
    BY <1>2 DEF LettersTo
  <2>2. at \in 0 .. Len(src) /\ Len(src) \in Nat
    BY <1>1, LenProperties DEF Decoding
  <2> QED BY <1>1, <1>2, <2>1, <2>2, LettersGrow
<1>4. block' \in Seq(Int) /\ Len(block') = Len(block) + 1
  <2> DEFINE letter == dtable[src[at + 1]]
  <2>1. letter \in Int
    BY <1>0, LetterIsInt
  <2>2. block' = Append(block, letter) /\ block \in Seq(Int)
    BY <1>0, <1>2 DEF Decoding
  <2> HIDE DEF letter
  <2> QED BY <2>1, <2>2, AppendProperties
<1>5. pad' \in Nat
  BY <1>1, <1>2 DEF Padded, Decoding
<1>6. Decoding'
  <2>1. Len(out) \in Nat
    BY <1>1, LenProperties DEF Decoding
  <2>2. 4 * Len(out) + 3 * Len(block) = 3 * LettersTo(at) /\ Len(block) \in 0 .. 3
    BY <1>1 DEF Decoding
  <2>3. 4 * Len(out) + 3 * Len(block') = 3 * LettersTo(at)' /\ Len(block') \in 0 .. 3
    <3> DEFINE o == Len(out)  c == Len(block)  t == LettersTo(at)
    <3>1. o \in Nat /\ c \in 0 .. 3 /\ c < 3 /\ t \in Nat /\ 4 * o + 3 * c = 3 * t
      BY <1>1, <1>3, <2>1, <2>2
    <3>2. Len(block') = c + 1 /\ LettersTo(at)' = t + 1
      BY <1>3, <1>4
    <3> HIDE DEF o, c, t
    <3>3. 4 * o + 3 * (c + 1) = 3 * (t + 1) /\ c + 1 \in 0 .. 3
      BY <3>1
    <3> QED BY <3>2, <3>3 DEF o
  <2> QED BY <1>1, <1>2, <1>3, <1>4, <1>5, <2>3 DEF Decoding
<1> QED BY <1>2, <1>6 DEF B64Inv

LEMMA BlockCounts ==
  ASSUME NEW n \in Nat, NEW l \in Nat, 4 * n + 3 * 3 = 3 * l
  PROVE  4 * (n + 3) + 3 * 0 = 3 * (l + 1)
OBVIOUS

LEMMA ThirdOf ==
  ASSUME NEW n \in Nat, NEW l \in Nat, 4 * n + 9 = 3 * l
  PROVE  n = 3 * (l - 3 - n) /\ l = 4 * (l - 3 - n) + 3 /\ l - 3 - n \in Int
OBVIOUS

LEMMA DecodeBlockKeeps == ASSUME B64Inv, DecodeBlock PROVE B64Inv'
<1> DEFINE bytes == ThreeBytes(block[1], block[2], block[3], dtable[src[at + 1]])
           pads == Padded(src[at + 1])
<1>1. Decoding /\ at < Len(src) /\ Len(block) = 3 /\ Valid(src[at + 1])
  BY DEF DecodeBlock, B64Inv
<1>2. bytes \in Seq(Int) /\ Len(bytes) = 3
  <2>1. dtable[src[at + 1]] \in Int
    BY <1>1, LetterIsInt
  <2>2. block \in Seq(Int) /\ 1 \in 1 .. Len(block) /\ 2 \in 1 .. Len(block) /\ 3 \in 1 .. Len(block)
    BY <1>1 DEF Decoding
  <2>3. block[1] \in Int /\ block[2] \in Int /\ block[3] \in Int
    BY <2>2, ElementOfSeq
  <2> QED BY <2>1, <2>3 DEF ThreeBytes
<1> HIDE DEF bytes
<1>3. Len(out) \in Nat /\ out \o bytes \in Seq(Int) /\ Len(out \o bytes) = Len(out) + 3
  <2>1. out \in Seq(Int)
    BY <1>1 DEF Decoding
  <2>2. Len(out) \in Nat
    BY <2>1, LenProperties
  <2>3. out \o bytes \in Seq(Int) /\ Len(out \o bytes) = Len(out) + Len(bytes)
    BY <1>2, <2>1, ConcatProperties
  <2> QED BY <1>2, <2>2, <2>3
<1>4. /\ LettersTo(at) \in Nat /\ LettersTo(at + 1) = LettersTo(at) + 1
      /\ LettersTo(at) + 1 <= Count(src) /\ Count(src) \in Nat
  BY <1>1, LettersGrow
<1>5. Len(out) + 3 <= olen /\ olen \in Nat
  <2>1. 4 * Len(out) + 9 = 3 * LettersTo(at) /\ olen = (Count(src) \div 4) * 3
    <3>1. 4 * Len(out) + 3 * 3 = 3 * LettersTo(at)
      BY <1>1 DEF Decoding
    <3> QED BY <1>1, <3>1 DEF Decoding
  <2> DEFINE done == LettersTo(at) - 3 - Len(out)
  <2>2. Len(out) = 3 * done /\ LettersTo(at) = 4 * done + 3 /\ done \in Int
    BY <1>3, <1>4, <2>1, ThirdOf
  <2> HIDE DEF done
  <2>3. 4 * (done + 1) <= Count(src)
    BY <1>4, <2>2
  <2>4. done + 1 <= Count(src) \div 4
    BY <1>4, <2>2, <2>3
  <2>5. Count(src) \div 4 \in Nat
    BY <1>4
  <2> QED BY <1>3, <2>1, <2>2, <2>4, <2>5
<1>6. CASE pads = 0
  <2>1. /\ b64' = "decode" /\ at' = at + 1 /\ out' = out \o bytes /\ block' = <<>>
        /\ top' = Len(out') /\ UNCHANGED <<src, olen, pad, made>>
    BY <1>6 DEF DecodeBlock, bytes
  <2>2. LettersTo(at)' = LettersTo(at + 1)
    BY <2>1 DEF LettersTo
  <2>3. at' \in 0 .. Len(src)
    BY <1>1, <2>1, LenProperties DEF Decoding
  <2>4. block' \in Seq(Int) /\ Len(block') = 0
    BY <2>1, EmptySeq
  <2>5. 4 * Len(out') + 3 * Len(block') = 3 * LettersTo(at)'
    <3>1. 4 * Len(out) + 3 * 3 = 3 * LettersTo(at)
      BY <1>1 DEF Decoding
    <3>2. Len(out') = Len(out) + 3 /\ LettersTo(at)' = LettersTo(at) + 1
      BY <1>3, <1>4, <2>1, <2>2
    <3>3. 4 * (Len(out) + 3) + 3 * 0 = 3 * (LettersTo(at) + 1)
      BY <1>3, <1>4, <3>1, BlockCounts
    <3> QED BY <2>4, <3>2, <3>3
  <2>6. Decoding'
    BY <1>1, <1>3, <2>1, <2>3, <2>4, <2>5 DEF Decoding
  <2> QED BY <1>3, <1>5, <2>1, <2>6 DEF B64Inv
<1>7. CASE pads \in 1 .. 2
  <2>1. b64' = "done" /\ top' = Len(out) + 3 /\ UNCHANGED <<olen, made>>
    BY <1>7 DEF DecodeBlock, Return64
  <2> QED BY <1>3, <1>5, <2>1 DEF B64Inv
<1>8. pads \in Nat
  BY <1>1 DEF Padded, Decoding
<1>9. CASE pads > 2
  <2>1. pads # 0 /\ pads \notin 1 .. 2
    BY <1>8, <1>9
  <2>2. Refuse
    BY <2>1 DEF DecodeBlock
  <2> QED BY <2>2, RefuseKeeps
<1> QED BY <1>6, <1>7, <1>8, <1>9

LEMMA EndsKeep == ASSUME B64Inv, DecodeEnd \/ Taken \/ NoMemory PROVE B64Inv'
<1>1. CASE DecodeEnd
  BY <1>1 DEF DecodeEnd, Return64, B64Inv
<1>2. CASE Taken
  <2>1. b64' = "idle" /\ top' = 0 /\ olen' = 0 /\ made' = [src |-> <<>>, text |-> <<>>]
    BY <1>2 DEF Taken, NothingMade
  <2>2. made'.text \in Seq(Byte)
    BY <2>1, EmptySeq
  <2> QED BY <2>1, <2>2 DEF B64Inv
<1>3. CASE NoMemory
  BY <1>3, RefuseKeeps DEF NoMemory
<1> QED BY <1>1, <1>2, <1>3
---------------------------------------------------------------------------
LEMMA B64InvStarts == ASSUME B64Init PROVE B64Inv
<1>1. made.text = <<>> /\ b64 = "idle" /\ top = 0 /\ olen = 0
  BY DEF B64Init, NothingMade
<1> QED BY <1>1, EmptySeq DEF B64Inv

LEMMA B64InvKept == ASSUME B64Inv, [B64Next]_b64Vars PROVE B64Inv'
<1>1. CASE \E s \in Sources : EncodeCall(s)
  BY <1>1, EncodeCallKeeps, Base64Assumption DEF Base64Assumption
<1>2. CASE \E t \in Texts : DecodeCall(t)
  BY <1>2, DecodeCallKeeps, Base64Assumption DEF Base64Assumption
<1>3. CASE DecodeCall(made.text)
  BY <1>3, DecodeCallKeeps DEF B64Inv
<1>4. CASE EncodeBlock
  BY <1>4, EncodeBlockKeeps
<1>5. CASE EncodeEnd
  BY <1>5, EncodeEndKeeps
<1>6. CASE DecodeSkip
  BY <1>6, DecodeSkipKeeps
<1>7. CASE DecodeLetter
  BY <1>7, DecodeLetterKeeps
<1>8. CASE DecodeBlock
  BY <1>8, DecodeBlockKeeps
<1>9. CASE DecodeEnd \/ Taken \/ NoMemory
  BY <1>9, EndsKeep
<1>10. CASE UNCHANGED b64Vars
  BY <1>10 DEF b64Vars, B64Inv, Encoding, Decoding, LettersTo
<1> QED BY <1>1, <1>2, <1>3, <1>4, <1>5, <1>6, <1>7, <1>8, <1>9, <1>10 DEF B64Next, B64Call, B64Step

(* Whatever is encoded or decoded, of any length and by any size_t of 7 bits *)
(* or more: base64_encode and base64_decode write only what they allocated.  *)
THEOREM WritesFit == B64Spec => []OutputFits
<1>1. B64Init => B64Inv
  BY B64InvStarts
<1>2. B64Inv /\ [B64Next]_b64Vars => B64Inv'
  BY B64InvKept
<1>3. B64Inv => OutputFits
  BY DEF B64Inv, OutputFits
<1> QED BY <1>1, <1>2, <1>3, PTL DEF B64Spec
---------------------------------------------------------------------------
(* The r-th place of a line that starts after f whole lines. *)
LEMMA PlaceInLine ==
  ASSUME NEW f \in Nat, NEW r \in 1 .. 73
  PROVE  /\ (73 * f + r) % 73 = 0 <=> r = 73
         /\ r # 73 => LetterAt(73 * f + r) = 72 * f + (r - 1)
<1>1. CASE r = 73
  BY <1>1
<1>2. CASE r # 73
  <2>1. r \in 0 .. 73 - 1 /\ 73 \in Nat \ {0}
    BY <1>2
  <2>2. (f * 73 + r) \div 73 = f /\ (f * 73 + r) % 73 = r
    BY <2>1, Joined
  <2>3. (73 * f + r) \div 73 = f /\ (73 * f + r) % 73 = r
    BY <2>2
  <2> QED BY <2>3, <1>2 DEF LetterAt
<1> QED BY <1>1, <1>2

(* The letters of the q-th block of three bytes, which start l letters into a line. *)
PlaceAfter(f, l, j) == 73 * f + l + j + 1
LetterAfter(s, q, j) ==
  IF 4 * q + j < Sextets(Len(s))
  THEN base64_table[Sextet(ByteAt(s, 3 * q + 1), ByteAt(s, 3 * q + 2), ByteAt(s, 3 * q + 3), j)]
  ELSE EQUALS

LEMMA LetterOfBlock ==
  ASSUME NEW s \in Seq(Byte), NEW q \in Nat, NEW f \in Nat, NEW l \in 0 .. 68, NEW j \in 0 .. 3,
         4 * q = 72 * f + l, 3 * q < Len(s)
  PROVE  TextAt(s, PlaceAfter(f, l, j)) = LetterAfter(s, q, j)
<1> DEFINE r == l + j + 1  p == 73 * f + r  k == 4 * q + j
<1>1. Len(s) \in Nat
  BY LenProperties
<1>2. r \in 1 .. 72 /\ 73 * f + l + j + 1 = p
  OBVIOUS
<1>3. p % 73 # 0 /\ LetterAt(p) = k
  <2>1. r \in 1 .. 73 /\ r # 73 /\ 72 * f + (r - 1) = k
    BY <1>2
  <2> HIDE DEF r, k
  <2> QED BY <2>1, PlaceInLine
<1>4. k < LettersOf(Len(s))
  BY <1>1 DEF LettersOf
<1>5. IsLetter(s, p)
  BY <1>3, <1>4 DEF IsLetter
<1>6. k \div 4 = q /\ k % 4 = j
  OBVIOUS
<1>7. SextetOf(s, k) = Sextet(ByteAt(s, 3 * q + 1), ByteAt(s, 3 * q + 2), ByteAt(s, 3 * q + 3), j)
  BY <1>6 DEF SextetOf
<1> HIDE DEF r, p, k
<1>8. TextAt(s, p) = IF k < Sextets(Len(s)) THEN base64_table[SextetOf(s, k)] ELSE EQUALS
  BY <1>3, <1>5 DEF TextAt
<1> QED BY <1>2, <1>7, <1>8 DEF k, LetterAfter, PlaceAfter

(* A line feed stands at the end of a line and of the text. *)
LEMMA FeedOfLine ==
  ASSUME NEW s \in Seq(Byte), NEW f \in Nat, NEW l \in 0 .. 72,
         l = 72 \/ 72 * f + l >= LettersOf(Len(s))
  PROVE  TextAt(s, 73 * f + l + 1) = LF
<1> DEFINE r == l + 1
<1>1. r \in 1 .. 73 /\ 73 * f + l + 1 = 73 * f + r
  OBVIOUS
<1>2. LettersOf(Len(s)) \in Int
  BY LenProperties DEF LettersOf
<1>3. CASE r = 73
  <2>1. (73 * f + r) % 73 = 0
    BY <1>1, <1>3, PlaceInLine
  <2> QED BY <1>1, <2>1 DEF TextAt, IsLetter
<1>4. CASE r # 73
  <2>0. 72 * f + (r - 1) >= LettersOf(Len(s)) /\ r \in 1 .. 73
    BY <1>1, <1>2, <1>4
  <2> HIDE DEF r
  <2>1. LetterAt(73 * f + r) = 72 * f + (r - 1) /\ 72 * f + (r - 1) >= LettersOf(Len(s))
    BY <1>4, <2>0, PlaceInLine
  <2>2. ~(LetterAt(73 * f + r) < LettersOf(Len(s)))
    <3> DEFINE a == LetterAt(73 * f + r)  b == LettersOf(Len(s))  c == 72 * f + (r - 1)
    <3>1. a = c /\ c >= b /\ b \in Int /\ c \in Int
      BY <1>2, <2>0, <2>1
    <3> HIDE DEF a, b, c
    <3>2. ~(a < b)
      BY <3>1
    <3> QED BY <3>2 DEF a, b
  <2> QED BY <1>1, <2>2 DEF TextAt, IsLetter
<1> QED BY <1>3, <1>4

Encoded == \A p \in 1 .. Len(out) : out[p] = TextAt(src, p)

LEMMA EncodeBlockWrites == ASSUME Encoding, Encoded, EncodeBlock PROVE Encoded'
<1> DEFINE quad == Letters(src[at + 1], src[at + 2], src[at + 3])
<1>1. /\ Len(src) \in Nat /\ at \in 0 .. Len(src) /\ line_len \in 0 .. 68 /\ line_len % 4 = 0
      /\ src \in Seq(Byte) /\ out \in Seq(Byte) /\ Len(src) - at >= 3
  BY EncodingIsAt DEF EncodeBlock
<1>2. PICK q, f \in Nat : at = 3 * q /\ 4 * q = 72 * f + line_len /\ Len(out) = 73 * f + line_len
  BY EncodingIsAt
<1>3. /\ src[at + 1] \in Byte /\ src[at + 2] \in Byte /\ src[at + 3] \in Byte
      /\ ByteAt(src, 3 * q + 1) = src[at + 1] /\ ByteAt(src, 3 * q + 2) = src[at + 2]
      /\ ByteAt(src, 3 * q + 3) = src[at + 3]
  <2>1. at + 1 \in 1 .. Len(src) /\ at + 2 \in 1 .. Len(src) /\ at + 3 \in 1 .. Len(src)
    BY <1>1
  <2>2. 3 * q + 1 = at + 1 /\ 3 * q + 2 = at + 2 /\ 3 * q + 3 = at + 3
    BY <1>2
  <2>3. src[at + 1] \in Byte /\ src[at + 2] \in Byte /\ src[at + 3] \in Byte
    BY <1>1, <2>1, ElementOfSeq
  <2>4. at + 1 <= Len(src) /\ at + 2 <= Len(src) /\ at + 3 <= Len(src)
    BY <1>1
  <2> QED BY <2>2, <2>3, <2>4 DEF ByteAt
<1>4. quad \in Seq(Byte) /\ Len(quad) = 4
  BY <1>3, LettersTypes
<1>5. ASSUME NEW j \in 0 .. 3 PROVE TextAt(src, Len(out) + j + 1) = quad[j + 1]
  <2>1. 3 * q < Len(src) /\ 4 * q + j < Sextets(Len(src))
    BY <1>1, <1>2 DEF Sextets
  <2>2. TextAt(src, 73 * f + line_len + j + 1) = base64_table[Sextet(src[at + 1], src[at + 2], src[at + 3], j)]
    <3>1. TextAt(src, 73 * f + line_len + j + 1) =
            IF 4 * q + j < Sextets(Len(src))
            THEN base64_table[Sextet(ByteAt(src, 3 * q + 1), ByteAt(src, 3 * q + 2), ByteAt(src, 3 * q + 3), j)]
            ELSE EQUALS
      <4>1. PICK l \in 0 .. 68 : l = line_len
        BY <1>1
      <4>2. 4 * q = 72 * f + l /\ 3 * q < Len(src) /\ src \in Seq(Byte)
        BY <1>1, <1>2, <2>1, <4>1
      <4>3. TextAt(src, PlaceAfter(f, l, j)) = LetterAfter(src, q, j)
        BY <4>2, LetterOfBlock
      <4> QED BY <4>1, <4>3 DEF LetterAfter, PlaceAfter
    <3> QED BY <1>3, <2>1, <3>1
  <2>3. quad[j + 1] = base64_table[Sextet(src[at + 1], src[at + 2], src[at + 3], j)]
    BY <1>3, SextetTypes
  <2> QED BY <1>2, <2>2, <2>3
<1>6. /\ src' = src
      /\ out' = IF line_len + 4 >= 72 THEN out \o Append(quad, LF) ELSE out \o quad
  BY DEF EncodeBlock
<1> HIDE DEF quad
<1>7. Len(out) \in Nat /\ LF \in Byte
  BY <1>1, LenProperties DEF LF, Byte
<1>8. CASE line_len + 4 >= 72
  <2> DEFINE w == Append(quad, LF)
  <2>1. w \in Seq(Byte) /\ Len(w) = 5 /\ (\A i \in 1 .. 4 : w[i] = quad[i]) /\ w[5] = LF
    <3>1. /\ w \in Seq(Byte) /\ Len(w) = Len(quad) + 1
          /\ (\A i \in 1 .. Len(quad) : w[i] = quad[i]) /\ w[Len(quad) + 1] = LF
      <4>1. quad \in Seq(Byte) /\ LF \in Byte
        BY <1>4, <1>7
      <4> QED BY <4>1, AppendProperties
    <3> HIDE DEF w
    <3>2. Len(quad) + 1 = 5
      BY <1>4
    <3> QED BY <1>4, <3>1, <3>2
  <2>2. out' = out \o w
    BY <1>6, <1>8
  <2> HIDE DEF w
  <2>3. /\ Len(out') = Len(out) + 5
        /\ \A p \in 1 .. Len(out) + 5 : out'[p] = IF p <= Len(out) THEN out[p] ELSE w[p - Len(out)]
    <3>1. /\ Len(out \o w) = Len(out) + Len(w)
          /\ \A p \in 1 .. Len(out) + Len(w) : (out \o w)[p] = IF p <= Len(out) THEN out[p] ELSE w[p - Len(out)]
      BY <1>1, <2>1, ConcatProperties
    <3> QED BY <2>1, <2>2, <3>1
  <2>4. TextAt(src, Len(out) + 5) = LF
    <3>1. line_len = 68 /\ 73 * f + line_len + 5 = 73 * f + 72 + 1
      BY <1>1, <1>8
    <3>2. TextAt(src, 73 * f + 72 + 1) = LF
      BY <1>1, FeedOfLine
    <3> QED BY <1>2, <3>1, <3>2
  <2>5. ASSUME NEW p \in 1 .. Len(out') PROVE out'[p] = TextAt(src, p)
    <3>1. CASE p <= Len(out)
      BY <1>7, <2>3, <3>1 DEF Encoded
    <3>2. CASE p = Len(out) + 5
      BY <1>7, <2>1, <2>3, <2>4, <3>2
    <3>3. CASE p > Len(out) /\ p # Len(out) + 5
      <4> DEFINE j == p - Len(out) - 1
      <4>1. j \in 0 .. 3 /\ p = Len(out) + j + 1 /\ p - Len(out) = j + 1 /\ j + 1 \in 1 .. 4 /\ ~(p <= Len(out))
        BY <1>7, <2>3, <3>3
      <4> HIDE DEF j
      <4>2. out'[p] = w[j + 1]
        BY <2>3, <4>1
      <4> QED BY <1>5, <2>1, <4>1, <4>2
    <3> QED BY <1>7, <2>3, <3>1, <3>2, <3>3
  <2> QED BY <1>6, <2>5 DEF Encoded
<1>9. CASE ~(line_len + 4 >= 72)
  <2>1. out' = out \o quad
    BY <1>6, <1>9
  <2>2. /\ Len(out') = Len(out) + 4
        /\ \A p \in 1 .. Len(out) + 4 : out'[p] = IF p <= Len(out) THEN out[p] ELSE quad[p - Len(out)]
    <3>1. /\ Len(out \o quad) = Len(out) + Len(quad)
          /\ \A p \in 1 .. Len(out) + Len(quad) : (out \o quad)[p] = IF p <= Len(out) THEN out[p] ELSE quad[p - Len(out)]
      BY <1>1, <1>4, ConcatProperties
    <3> QED BY <1>4, <2>1, <3>1
  <2>3. ASSUME NEW p \in 1 .. Len(out') PROVE out'[p] = TextAt(src, p)
    <3>1. CASE p <= Len(out)
      BY <1>7, <2>2, <3>1 DEF Encoded
    <3>2. CASE p > Len(out)
      <4> DEFINE j == p - Len(out) - 1
      <4>1. j \in 0 .. 3 /\ p = Len(out) + j + 1 /\ p - Len(out) = j + 1 /\ ~(p <= Len(out))
        BY <1>7, <2>2, <3>2
      <4> HIDE DEF j
      <4>2. out'[p] = quad[j + 1]
        BY <2>2, <4>1
      <4> QED BY <1>5, <4>1, <4>2
    <3> QED BY <1>7, <2>2, <3>1, <3>2
  <2> QED BY <1>6, <2>3 DEF Encoded
<1> QED BY <1>8, <1>9
LEMMA EncodeEndWrites ==
  ASSUME Encoding, Encoded, EncodeEnd PROVE IsText(made'.src, made'.text)
<1> DEFINE n == Len(src)  d == Len(src) - at  body == out \o Rest
<1>1. /\ n \in Nat /\ at \in 0 .. n /\ line_len \in 0 .. 68 /\ line_len % 4 = 0
      /\ src \in Seq(Byte) /\ out \in Seq(Byte) /\ d \in {0, 1, 2}
  BY EncodingIsAt DEF EncodeEnd
<1>2. PICK q, f \in Nat : at = 3 * q /\ 4 * q = 72 * f + line_len /\ Len(out) = 73 * f + line_len
  BY EncodingIsAt
<1>3. made'.src = src /\ made'.text = body \o Feed
  BY DEF EncodeEnd, Return64
<1> DEFINE g == IF d = 0 THEN line_len ELSE line_len + 4
<1>4. /\ body \in Seq(Byte) /\ Len(body) = 73 * f + g
      /\ \A p \in 1 .. Len(body) : body[p] = TextAt(src, p)
  <2>1. CASE d = 0
    <3>1. Rest = <<>>
      BY <2>1 DEF Rest
    <3>2. body = out
      BY <1>1, <3>1, ConcatEmptySeq
    <3> QED BY <1>1, <1>2, <2>1, <3>2 DEF Encoded
  <2>2. CASE d \in {1, 2}
    <3>1. /\ Rest \in Seq(Byte) /\ Len(Rest) = 4
          /\ \A j \in 0 .. 3 :
               Rest[j + 1] = IF j <= d
                             THEN base64_table[Sextet(ByteAt(src, at + 1), ByteAt(src, at + 2), ByteAt(src, at + 3), j)]
                             ELSE EQUALS
      BY <2>2, RestIs
    <3>2. /\ body \in Seq(Byte) /\ Len(body) = Len(out) + 4
          /\ \A p \in 1 .. Len(out) + 4 : body[p] = IF p <= Len(out) THEN out[p] ELSE Rest[p - Len(out)]
      <4>1. /\ body \in Seq(Byte) /\ Len(body) = Len(out) + Len(Rest)
            /\ \A p \in 1 .. Len(out) + Len(Rest) : body[p] = IF p <= Len(out) THEN out[p] ELSE Rest[p - Len(out)]
        BY <1>1, <3>1, ConcatProperties
      <4> HIDE DEF body
      <4> QED BY <3>1, <4>1
    <3>3. ASSUME NEW j \in 0 .. 3 PROVE TextAt(src, Len(out) + j + 1) = Rest[j + 1]
      <4>1. 3 * q < n /\ (4 * q + j < Sextets(n) <=> j <= d)
        BY <1>1, <1>2, <2>2 DEF Sextets
      <4>2. TextAt(src, 73 * f + line_len + j + 1) =
              IF 4 * q + j < Sextets(n)
              THEN base64_table[Sextet(ByteAt(src, 3 * q + 1), ByteAt(src, 3 * q + 2), ByteAt(src, 3 * q + 3), j)]
              ELSE EQUALS
        <5>1. PICK l \in 0 .. 68 : l = line_len
          BY <1>1
        <5>2. 4 * q = 72 * f + l /\ 3 * q < Len(src) /\ src \in Seq(Byte)
          BY <1>1, <1>2, <4>1, <5>1
        <5>3. TextAt(src, PlaceAfter(f, l, j)) = LetterAfter(src, q, j)
          BY <5>2, LetterOfBlock
        <5> QED BY <5>1, <5>3 DEF LetterAfter, PlaceAfter
      <4> QED BY <1>2, <3>1, <4>1, <4>2
    <3>4. ASSUME NEW p \in 1 .. Len(out) + 4 PROVE body[p] = TextAt(src, p)
      <4>0. Len(out) \in Nat
        BY <1>1, <1>2
      <4>1. CASE p <= Len(out)
        BY <3>2, <4>0, <4>1 DEF Encoded
      <4>2. CASE p > Len(out)
        <5> DEFINE j == p - Len(out) - 1
        <5>1. j \in 0 .. 3 /\ p = Len(out) + j + 1 /\ p - Len(out) = j + 1 /\ ~(p <= Len(out))
          BY <4>0, <4>2
        <5> HIDE DEF j, body
        <5>2. body[p] = Rest[p - Len(out)]
          BY <3>2, <5>1
        <5>3. body[p] = Rest[j + 1]
          BY <5>1, <5>2
        <5> QED BY <3>3, <5>1, <5>3
      <4> HIDE DEF body
      <4> QED BY <4>0, <4>1, <4>2
    <3> HIDE DEF body
    <3> QED BY <1>1, <1>2, <2>2, <3>2, <3>4
  <2> QED BY <1>1, <2>1, <2>2
<1>5. Len(Rest) = IF d = 0 THEN 0 ELSE 4
  <2>1. CASE d = 0
    BY <2>1 DEF Rest
  <2>2. CASE d \in {1, 2}
    BY <2>2, RestIs
  <2> QED BY <1>1, <2>1, <2>2
<1>6. Feed = IF g > 0 THEN <<LF>> ELSE <<>>
  BY <1>1, <1>5 DEF Feed
<1>7. LettersOf(n) = 72 * f + g /\ g \in 0 .. 72
  <2>1. d \in {0, 1, 2} /\ n = 3 * q + d /\ 4 * q = 72 * f + line_len
    BY <1>1, <1>2
  <2>2. LettersOf(n) = IF d = 0 THEN 4 * q ELSE 4 * q + 4
    <3> HIDE DEF d, n
    <3> QED BY <2>1 DEF LettersOf
  <2> HIDE DEF d, n
  <2> QED BY <1>1, <2>1, <2>2
<1> HIDE DEF body, g, d
<1>8. (LettersOf(n) + 71) \div 72 = IF g > 0 THEN f + 1 ELSE f
  BY <1>2, <1>7
<1>9. CASE g = 0
  <2>1. made'.text = body
    BY <1>3, <1>4, <1>6, <1>7, <1>9, ConcatEmptySeq
  <2>2. Len(body) = LettersOf(n) + (LettersOf(n) + 71) \div 72
    BY <1>2, <1>4, <1>7, <1>8, <1>9
  <2> QED BY <1>1, <1>3, <1>4, <2>1, <2>2 DEF IsText
<1>10. CASE g > 0
  <2> DEFINE feed == <<LF>>  t == body \o feed
  <2>1. feed \in Seq(Byte) /\ Len(feed) = 1 /\ feed[1] = LF
    BY DEF LF, Byte
  <2>2. made'.text = t
    BY <1>3, <1>6, <1>10
  <2> HIDE DEF feed
  <2>3. /\ t \in Seq(Byte) /\ Len(t) = Len(body) + 1
        /\ \A p \in 1 .. Len(body) + 1 : t[p] = IF p <= Len(body) THEN body[p] ELSE feed[p - Len(body)]
    <3>1. /\ t \in Seq(Byte) /\ Len(t) = Len(body) + Len(feed)
          /\ \A p \in 1 .. Len(body) + Len(feed) :
               t[p] = IF p <= Len(body) THEN body[p] ELSE feed[p - Len(body)]
      <4>1. body \in Seq(Byte) /\ feed \in Seq(Byte)
        BY <1>4, <2>1
      <4> QED BY <4>1, ConcatProperties
    <3> HIDE DEF t
    <3> QED BY <2>1, <3>1
  <2> HIDE DEF t
  <2>4. Len(t) = LettersOf(n) + (LettersOf(n) + 71) \div 72
    BY <1>2, <1>4, <1>7, <1>8, <1>10, <2>3
  <2>5. TextAt(src, 73 * f + g + 1) = LF
    <3>1. g \in 0 .. 72 /\ 72 * f + g >= LettersOf(Len(src))
      BY <1>1, <1>2, <1>7
    <3> QED BY <1>1, <3>1, FeedOfLine
  <2>6. ASSUME NEW p \in 1 .. Len(t) PROVE t[p] = TextAt(src, p)
    <3>1. Len(body) \in Nat
      BY <1>2, <1>4, <1>7
    <3>2. CASE p <= Len(body)
      BY <1>4, <2>3, <3>1, <3>2
    <3>3. CASE p = Len(body) + 1
      BY <1>4, <2>1, <2>3, <2>5, <3>1, <3>3
    <3> QED BY <2>3, <3>1, <3>2, <3>3
  <2> QED BY <1>1, <1>3, <2>2, <2>3, <2>4, <2>6 DEF IsText
<1> QED BY <1>7, <1>9, <1>10
---------------------------------------------------------------------------
LEMMA TextSizes ==
  ASSUME NEW n \in Nat
  PROVE  /\ Sextets(n) \in Nat /\ LettersOf(n) \in Nat /\ LettersOf(n) % 4 = 0
         /\ LettersOf(n) - Sextets(n) \in 0 .. 2 /\ (n > 0 => LettersOf(n) > 0)
         /\ 4 * n <= 3 * LettersOf(n)
BY DEF Sextets, LettersOf

LEMMA NextOfFour ==
  ASSUME NEW c \in Nat
  PROVE  /\ c % 4 \in 0 .. 3
         /\ c % 4 # 3 => (c + 1) % 4 = (c % 4) + 1
         /\ c % 4 = 3 => (c + 1) % 4 = 0 /\ c = 4 * (c \div 4) + 3 /\ c \div 4 \in Nat
OBVIOUS

LEMMA LastBlock ==
  ASSUME NEW n \in Nat, NEW q \in Nat, 4 * q + 4 <= LettersOf(n), 4 * q + 4 > Sextets(n)
  PROVE  4 * q + 4 - Sextets(n) \in 1 .. 2 /\ n = 3 * q + (3 - (4 * q + 4 - Sextets(n)))
BY DEF Sextets, LettersOf

(* What base64_decode sees at the p-th place of a text. *)
LEMMA LetterRead ==
  ASSUME NEW s, NEW t, IsText(s, t), NEW p \in 1 .. Len(t)
  PROVE  /\ Valid(t[p]) <=> IsLetter(s, p)
         /\ IsLetter(s, p) =>
              /\ LetterAt(p) \in Nat /\ dtable[t[p]] = SextetOf(s, LetterAt(p))
              /\ t[p] = EQUALS <=> LetterAt(p) >= Sextets(Len(s))
<1> DEFINE k == LetterAt(p)  n == Len(s)
<1>1. t[p] = TextAt(s, p) /\ s \in Seq(Byte) /\ t \in Seq(Byte)
  BY DEF IsText
<1>2. n \in Nat /\ p \in Nat \ {0}
  BY <1>1, LenProperties
<1>3. CASE ~IsLetter(s, p)
  BY <1>1, <1>3, TableReads DEF TextAt, Valid
<1>4. CASE IsLetter(s, p)
  <2>1. k \in Nat /\ Sextets(n) \in Nat /\ k < LettersOf(n)
    BY <1>2, <1>4 DEF LetterAt, Sextets, IsLetter
  <2>2. SextetOf(s, k) \in 0 .. 63 /\ (k >= Sextets(n) => SextetOf(s, k) = 0)
    BY <1>1, <2>1, SextetOfTypes
  <2> DEFINE v == SextetOf(s, k)
  <2>3. t[p] = IF k < Sextets(n) THEN base64_table[v] ELSE EQUALS
    BY <1>1, <1>4 DEF TextAt
  <2> HIDE DEF k, n, v
  <2>4. base64_table[v] # EQUALS /\ dtable[base64_table[v]] = v /\ dtable[EQUALS] = 0 /\ v # 128
    <3>1. v \in 0 .. 63
      BY <2>2 DEF v
    <3>2. v # 128
      BY <3>1
    <3>3. base64_table[v] \notin {LF, EQUALS} /\ dtable[base64_table[v]] = v
      BY <3>1, TableReads, Zenon
    <3> QED BY <3>2, <3>3, TableReads, Zenon
  <2>5. CASE k < Sextets(n)
    <3>1. ~(k >= Sextets(n))
      BY <2>1, <2>5
    <3>2. t[p] = base64_table[v]
      BY <2>3, <2>5
    <3>3. t[p] # EQUALS /\ dtable[t[p]] = v
      BY <2>4, <3>2
    <3>4. Valid(t[p])
      BY <2>4, <3>3 DEF Valid
    <3> QED BY <1>4, <2>1, <3>1, <3>3, <3>4 DEF k, n, v
  <2>6. CASE ~(k < Sextets(n))
    <3>1. k >= Sextets(n)
      BY <2>1, <2>6
    <3>2. t[p] = EQUALS /\ v = 0
      BY <2>2, <2>3, <2>6, <3>1 DEF v
    <3>3. dtable[t[p]] = v
      BY <2>4, <3>2
    <3>4. Valid(t[p])
      BY <2>4, <3>3 DEF Valid
    <3> QED BY <1>4, <2>1, <3>1, <3>2, <3>3, <3>4 DEF k, n, v
  <2> QED BY <2>5, <2>6
<1> QED BY <1>3, <1>4

(* So it counts the letters of the text: the k-th stands at Place(k). *)
LEMMA LettersCounted ==
  ASSUME NEW s, NEW t, IsText(s, t) PROVE Count(t) = LettersOf(Len(s))
<1> DEFINE L == LettersOf(Len(s))
           P == {p \in 1 .. Len(t) : Valid(t[p])}
           Place(k) == k + (k - 1) \div 72
           h == [k \in 1 .. L |-> Place(k)]
<1>1. L \in Nat /\ Len(t) = L + (L + 71) \div 72
  BY LenProperties DEF IsText, LettersOf
<1>2. P = {p \in 1 .. Len(t) : IsLetter(s, p)}
  BY LetterRead
<1> HIDE DEF P
<1>3. ASSUME NEW k \in 1 .. L PROVE Place(k) \in P /\ LetterAt(Place(k)) = k - 1
  <2> DEFINE f == (k - 1) \div 72  r == ((k - 1) % 72) + 1
  <2>1. f \in Nat /\ r \in 1 .. 72 /\ k - 1 = 72 * f + (r - 1) /\ Place(k) = 73 * f + r
    BY <1>1
  <2>2. f <= (L + 71) \div 72
    BY <1>1
  <2>3. Place(k) \in 1 .. Len(t)
    BY <1>1, <2>1, <2>2
  <2> HIDE DEF f, r, L, Place
  <2>4. Place(k) % 73 # 0 /\ LetterAt(Place(k)) = k - 1
    <3>1. r \in 1 .. 73 /\ r # 73
      BY <2>1
    <3>2. (73 * f + r) % 73 # 0 /\ LetterAt(73 * f + r) = 72 * f + (r - 1)
      BY <2>1, <3>1, PlaceInLine
    <3> QED BY <2>1, <3>2
  <2>5. k - 1 < L
    BY <1>1
  <2> QED BY <1>2, <2>3, <2>4, <2>5 DEF IsLetter, L
<1>4. ASSUME NEW p \in P PROVE LetterAt(p) + 1 \in 1 .. L /\ Place(LetterAt(p) + 1) = p
  <2>1. p \in 1 .. Len(t) /\ p % 73 # 0 /\ LetterAt(p) < L
    BY <1>2 DEF IsLetter
  <2> DEFINE f == p \div 73  r == p % 73
  <2>2. f \in Nat /\ r \in 1 .. 72 /\ p = 73 * f + r
    BY <2>1
  <2>3. LetterAt(p) = 72 * f + (r - 1)
    BY <2>2 DEF LetterAt
  <2> HIDE DEF f, r, L
  <2>4. (f * 72 + (r - 1)) \div 72 = f
    <3>1. r - 1 \in 0 .. 72 - 1 /\ 72 \in Nat \ {0}
      BY <2>2
    <3> DEFINE v == r - 1
    <3> HIDE DEF v
    <3>2. (f * 72 + v) \div 72 = f
      BY <2>2, <3>1, Joined DEF v
    <3> QED BY <3>2 DEF v
  <2>5. (LetterAt(p) + 1) - 1 = f * 72 + (r - 1)
    BY <2>2, <2>3
  <2>6. Place(LetterAt(p) + 1) = LetterAt(p) + 1 + f
    BY <2>4, <2>5
  <2> QED BY <1>1, <2>1, <2>2, <2>3, <2>6
<1> HIDE DEF Place, L
<1>5. h \in [1 .. L -> P]
  BY <1>3
<1>6. \A a, b \in 1 .. L : h[a] = h[b] => a = b
  <2> SUFFICES ASSUME NEW a \in 1 .. L, NEW b \in 1 .. L, Place(a) = Place(b) PROVE a = b
    OBVIOUS
  <2>1. a - 1 = b - 1
    BY <1>3
  <2> QED BY <1>1, <2>1
<1>7. \A p \in P : \E k \in 1 .. L : h[k] = p
  BY <1>4
<1>8. ExistsBijection(1 .. L, P)
  <2> HIDE DEF h
  <2>1. h \in Bijection(1 .. L, P)
    BY <1>5, <1>6, <1>7, Fun_IsBij
  <2> QED BY <2>1, Fun_ExistsBij
<1>9. IsFiniteSet(1 .. L) /\ Cardinality(1 .. L) = L
  <2>1. Cardinality(1 .. L) = IF 1 > L THEN 0 ELSE L - 1 + 1
    BY <1>1, FS_Interval
  <2> QED BY <1>1, <2>1, FS_Interval
<1>10. Cardinality(P) = L
  BY <1>8, <1>9, FS_Bijection
<1> QED BY <1>10 DEF Count, P, L
---------------------------------------------------------------------------
(* How many letters of the text of s its first n places hold. *)
Found(s, n) ==
  IF n - n \div 73 <= LettersOf(Len(s)) THEN n - n \div 73 ELSE LettersOf(Len(s))

LEMMA FoundGrows ==
  ASSUME NEW s, NEW t, IsText(s, t)
  PROVE  /\ Found(s, 0) = 0 /\ Found(s, Len(t)) = LettersOf(Len(s))
         /\ \A n \in 0 .. Len(t) - 1 :
              /\ Found(s, n) \in Nat
              /\ IF IsLetter(s, n + 1)
                 THEN /\ LetterAt(n + 1) = Found(s, n) /\ Found(s, n) < LettersOf(Len(s))
                      /\ Found(s, n + 1) = Found(s, n) + 1
                 ELSE Found(s, n + 1) = Found(s, n)
<1> DEFINE L == LettersOf(Len(s))
<1>1. L \in Nat /\ L % 4 = 0 /\ Len(t) = L + (L + 71) \div 72
  BY LenProperties DEF IsText, LettersOf
<1>2. Found(s, 0) = 0
  BY <1>1 DEF Found
<1>3. Found(s, Len(t)) = L
  <2> DEFINE f == L \div 72  g == L % 72
  <2> HIDE DEF L
  <2>1. f \in Nat /\ g \in 0 .. 71 /\ L = 72 * f + g
    BY <1>1
  <2>2. CASE g = 0
    <3>1. Len(t) = 73 * f
      BY <1>1, <2>1, <2>2
    <3>2. Len(t) - Len(t) \div 73 = L
      BY <2>1, <2>2, <3>1
    <3> QED BY <1>1, <3>2 DEF Found, L
  <2>3. CASE g # 0
    <3>1. Len(t) = 73 * f + g + 1
      BY <1>1, <2>1, <2>3
    <3>2. Len(t) \div 73 = f
      <4> DEFINE r == g + 1
      <4> HIDE DEF f, g
      <4>1. r \in 0 .. 73 - 1 /\ 73 \in Nat \ {0} /\ Len(t) = f * 73 + r
        BY <2>1, <3>1
      <4> HIDE DEF r
      <4>2. f \in Nat
        BY <2>1
      <4>3. (f * 73 + r) \div 73 = f
        BY <4>1, <4>2, Joined
      <4> QED BY <4>1, <4>3
    <3>3. Len(t) - Len(t) \div 73 > L
      <4> HIDE DEF f, g
      <4> QED BY <2>1, <2>3, <3>1, <3>2
    <3>4. Len(t) - Len(t) \div 73 \in Int /\ L \in Int
      BY <1>1
    <3>5. ~(Len(t) - Len(t) \div 73 <= L)
      BY <3>3, <3>4
    <3> QED BY <3>5 DEF Found, L
  <2> QED BY <2>2, <2>3
<1>4. ASSUME NEW n \in 0 .. Len(t) - 1
      PROVE  /\ Found(s, n) \in Nat
             /\ IF IsLetter(s, n + 1)
                THEN LetterAt(n + 1) = Found(s, n) /\ Found(s, n) < L /\ Found(s, n + 1) = Found(s, n) + 1
                ELSE Found(s, n + 1) = Found(s, n)
  <2>0. n \in Nat /\ n + 1 \in Nat
    BY <1>1
  <2> HIDE DEF L
  <2>1. Found(s, n) = IF n - n \div 73 <= L THEN n - n \div 73 ELSE L
    BY DEF Found, L
  <2>2. Found(s, n + 1) = IF (n + 1) - (n + 1) \div 73 <= L THEN (n + 1) - (n + 1) \div 73 ELSE L
    BY DEF Found, L
  <2>3. IsLetter(s, n + 1) <=> (n + 1) % 73 # 0 /\ LetterAt(n + 1) < L
    BY DEF IsLetter, L
  <2>4. LetterAt(n + 1) = (n + 1) - (n + 1) \div 73 - 1
    BY DEF LetterAt
  <2> DEFINE a == n - n \div 73  b == (n + 1) - (n + 1) \div 73
  <2>5. /\ a \in Nat /\ b \in Nat
        /\ (n + 1) % 73 = 0 => b = a
        /\ (n + 1) % 73 # 0 => b = a + 1
    BY <2>0
  <2> HIDE DEF a, b
  <2>6. /\ Found(s, n) = IF a <= L THEN a ELSE L
        /\ Found(s, n + 1) = IF b <= L THEN b ELSE L
        /\ LetterAt(n + 1) = b - 1
    BY <2>1, <2>2, <2>4 DEF a, b
  <2>7. CASE (n + 1) % 73 = 0
    BY <1>1, <2>3, <2>5, <2>6, <2>7
  <2>8. CASE (n + 1) % 73 # 0
    BY <1>1, <2>3, <2>5, <2>6, <2>8
  <2> QED BY <2>7, <2>8
<1> QED BY <1>2, <1>3, <1>4

(* What base64_decode holds after c letters of the text of s. *)
PadTo(s, c) == IF c > Sextets(Len(s)) THEN c - Sextets(Len(s)) ELSE 0

ReadTo(s, c) ==
  /\ block \in Seq(Int) /\ Len(block) = c % 4
  /\ \A j \in 1 .. Len(block) : block[j] = SextetOf(s, c - (c % 4) + j - 1)
  /\ out \in Seq(Byte) /\ 4 * Len(out) = 3 * (c - (c % 4)) /\ Len(out) <= Len(s)
  /\ \A j \in 1 .. Len(out) : out[j] = s[j]
  /\ pad = PadTo(s, c)
  /\ c % 4 = 0 => c <= Sextets(Len(s))

ReadingBack ==
  /\ src = made.text /\ at \in 0 .. Len(src)
  /\ ReadTo(made.src, Found(made.src, at))

(* What a call with a text finds: it is not refused, and nothing is read yet. *)
LEMMA ReadingStarts ==
  ASSUME IsText(made.src, made.text), made.src # <<>>, DecodeCall(made.text)
  PROVE  b64' = "decode" /\ UNCHANGED made /\ ReadingBack'
<1> DEFINE s == made.src  t == made.text
<1>1. Count(t) = LettersOf(Len(s)) /\ Found(s, 0) = 0
  BY LettersCounted, FoundGrows
<1>2. Len(s) \in Nat \ {0} /\ Len(t) \in Nat
  <2>1. s \in Seq(Byte) /\ t \in Seq(Byte)
    BY DEF IsText
  <2> QED BY <2>1, EmptySeq, LenProperties
<1>3. Count(t) # 0 /\ Count(t) % 4 = 0
  <2> DEFINE n == Len(s)
  <2> HIDE DEF n
  <2>1. n \in Nat /\ n > 0
    BY <1>2 DEF n
  <2>2. LettersOf(n) \in Nat /\ LettersOf(n) % 4 = 0 /\ LettersOf(n) > 0
    BY <2>1, TextSizes
  <2> QED BY <1>1, <2>2 DEF n
<1>4. /\ b64' = "decode" /\ src' = t /\ at' = 0 /\ out' = <<>> /\ block' = <<>> /\ pad' = 0
      /\ made' = made
  BY <1>3 DEF DecodeCall, Begin64
<1>5. out' \in Seq(Byte) /\ Len(out') = 0 /\ block' \in Seq(Int) /\ Len(block') = 0
  BY <1>4, EmptySeq
<1>6. PadTo(s, 0) = 0 /\ 0 <= Sextets(Len(s))
  <2>1. Len(s) \in Nat
    BY <1>2
  <2>2. Sextets(Len(s)) \in Nat
    BY <2>1, TextSizes
  <2> QED BY <2>2 DEF PadTo
<1>7. ReadTo(s, 0)'
  BY <1>2, <1>4, <1>5, <1>6 DEF ReadTo
<1> QED BY <1>1, <1>2, <1>4, <1>7 DEF ReadingBack

(* The next place of the text, and the letters found before and after it. *)
LEMMA NextPlace ==
  ASSUME IsText(made.src, made.text), ReadingBack, at < Len(src), NEW c, c = Found(made.src, at)
  PROVE  /\ c \in Nat /\ at + 1 \in 0 .. Len(src)
         /\ ~Valid(src[at + 1]) => Found(made.src, at + 1) = c
         /\ Valid(src[at + 1]) =>
              /\ Found(made.src, at + 1) = c + 1 /\ c < LettersOf(Len(made.src))
              /\ dtable[src[at + 1]] = SextetOf(made.src, c) /\ SextetOf(made.src, c) \in 0 .. 63
              /\ Padded(src[at + 1]) = PadTo(made.src, c + 1)
<1> DEFINE s == made.src  p == at + 1
<1>1. src = made.text /\ at \in 0 .. Len(src) /\ Len(src) \in Nat /\ s \in Seq(Byte) /\ Len(s) \in Nat
  BY LenProperties DEF ReadingBack, IsText
<1>2. p \in 1 .. Len(made.text) /\ at \in 0 .. Len(made.text) - 1 /\ p \in 0 .. Len(src)
  BY <1>1
<1>3. /\ c \in Nat
      /\ IF IsLetter(s, p) THEN LetterAt(p) = c /\ c < LettersOf(Len(s)) /\ Found(s, p) = c + 1
         ELSE Found(s, p) = c
  BY <1>2, FoundGrows
<1>4. /\ Valid(src[p]) <=> IsLetter(s, p)
      /\ IsLetter(s, p) =>
           /\ dtable[src[p]] = SextetOf(s, LetterAt(p))
           /\ src[p] = EQUALS <=> LetterAt(p) >= Sextets(Len(s))
  BY <1>1, <1>2, LetterRead
<1>5. SextetOf(s, c) \in 0 .. 63
  BY <1>1, <1>3, SextetOfTypes
<1>6. ASSUME IsLetter(s, p) PROVE Padded(src[p]) = PadTo(s, c + 1)
  <2>1. pad = PadTo(s, c)
    BY DEF ReadingBack, ReadTo
  <2>2. src[p] = EQUALS <=> c >= Sextets(Len(s))
    BY <1>3, <1>4, <1>6
  <2>3. Sextets(Len(s)) \in Nat
    BY <1>1, TextSizes
  <2> HIDE DEF s, p
  <2> QED BY <1>3, <2>1, <2>2, <2>3 DEF Padded, PadTo
<1> QED BY <1>2, <1>3, <1>4, <1>5, <1>6

LEMMA SkipReadsOn ==
  ASSUME IsText(made.src, made.text), ReadingBack, DecodeSkip
  PROVE  ReadingBack'
<1>1. /\ at < Len(src) /\ ~Valid(src[at + 1]) /\ at' = at + 1 /\ UNCHANGED <<src, out, block, pad, made>>
  BY DEF DecodeSkip
<1>2. at + 1 \in 0 .. Len(src) /\ Found(made.src, at + 1) = Found(made.src, at)
  BY <1>1, NextPlace
<1> QED BY <1>1, <1>2 DEF ReadingBack, ReadTo

LEMMA LetterReadsOn ==
  ASSUME IsText(made.src, made.text), ReadingBack, DecodeLetter
  PROVE  ReadingBack'
<1>0. PICK s, c : s = made.src /\ c = Found(s, at)
  OBVIOUS
<1> DEFINE v == SextetOf(s, c)
<1>1. /\ at < Len(src) /\ Valid(src[at + 1]) /\ Len(block) < 3 /\ at' = at + 1
      /\ block' = Append(block, dtable[src[at + 1]]) /\ pad' = Padded(src[at + 1])
      /\ UNCHANGED <<src, out, made>>
  BY DEF DecodeLetter
<1>2. /\ c \in Nat /\ at + 1 \in 0 .. Len(src) /\ Found(s, at + 1) = c + 1
      /\ dtable[src[at + 1]] = v /\ v \in 0 .. 63 /\ Padded(src[at + 1]) = PadTo(s, c + 1)
  BY <1>0, <1>1, NextPlace
<1>3. ReadTo(s, c) /\ src = made.text
  BY <1>0 DEF ReadingBack
<1> HIDE DEF v
<1>4. Len(block) = c % 4 /\ Len(block) \in 0 .. 2 /\ block \in Seq(Int) /\ v \in Int
  <2>1. Len(block) = c % 4 /\ block \in Seq(Int) /\ Len(block) \in Nat
    BY <1>3, LenProperties DEF ReadTo
  <2>2. Len(block) \in 0 .. 2
    BY <1>1, <2>1
  <2>3. v \in Int
    BY <1>2
  <2> QED BY <2>1, <2>2, <2>3
<1> DEFINE w == Append(block, v)
<1>5. /\ w \in Seq(Int) /\ Len(w) = Len(block) + 1 /\ (\A j \in 1 .. Len(block) : w[j] = block[j])
      /\ w[Len(block) + 1] = v
  BY <1>4, AppendProperties
<1>6. block' = w
  BY <1>1, <1>2
<1> HIDE DEF w
<1>7. (c + 1) % 4 = (c % 4) + 1 /\ (c + 1) - ((c + 1) % 4) = c - (c % 4) /\ (c + 1) % 4 # 0
  <2>1. c % 4 # 3
    BY <1>4
  <2>2. (c + 1) % 4 = (c % 4) + 1 /\ c % 4 \in 0 .. 3
    BY <1>2, <2>1, NextOfFour
  <2> DEFINE b == c % 4
  <2> HIDE DEF b
  <2> QED BY <1>2, <2>2 DEF b
<1>8. ASSUME NEW j \in 1 .. Len(w) PROVE w[j] = SextetOf(s, c - (c % 4) + j - 1)
  <2>1. CASE j <= Len(block)
    <3>1. j \in 1 .. Len(block)
      BY <1>4, <1>5, <2>1
    <3> QED BY <1>3, <1>5, <3>1 DEF ReadTo
  <2>2. CASE j > Len(block)
    <3>1. j = Len(block) + 1 /\ c - (c % 4) + j - 1 = c
      BY <1>2, <1>4, <1>5, <2>2
    <3> QED BY <1>5, <3>1 DEF v
  <2> QED BY <1>4, <1>5, <2>1, <2>2
<1>9. ReadTo(s, c + 1)'
  <2>1. block' \in Seq(Int) /\ Len(block') = (c + 1) % 4
    BY <1>4, <1>5, <1>6, <1>7
  <2>2. \A j \in 1 .. Len(block') : block'[j] = SextetOf(s, (c + 1) - ((c + 1) % 4) + j - 1)
    BY <1>6, <1>7, <1>8
  <2>3. 4 * Len(out) = 3 * ((c + 1) - ((c + 1) % 4))
    BY <1>3, <1>7 DEF ReadTo
  <2>4. pad' = PadTo(s, c + 1) /\ out' = out /\ made' = made
    BY <1>1, <1>2
  <2> QED BY <1>3, <1>7, <2>1, <2>2, <2>3, <2>4 DEF ReadTo
<1>10. made'.src = s /\ Found(s, at') = c + 1
  BY <1>0, <1>1, <1>2
<1>11. ReadTo(made.src, Found(made.src, at))' <=> ReadTo(s, c + 1)'
  BY <1>10
<1> QED BY <1>1, <1>2, <1>3, <1>9, <1>11 DEF ReadingBack

(* The fourth letter of a block: three bytes of s more, or the rest of s. *)
LEMMA BlockReadsOn ==
  ASSUME IsText(made.src, made.text), ReadingBack, DecodeBlock
  PROVE  IF b64' = "done" THEN ok' /\ out' = made.src
         ELSE b64' = "decode" /\ UNCHANGED made /\ ReadingBack'
<1>0. PICK s, c : s = made.src /\ c = Found(s, at)
  OBVIOUS
<1> DEFINE v == SextetOf(s, c)  n == Len(s)  m == Len(out)
           bytes == ThreeBytes(block[1], block[2], block[3], dtable[src[at + 1]])
           pads == Padded(src[at + 1])
<1>1. at < Len(src) /\ Valid(src[at + 1]) /\ Len(block) = 3
  BY DEF DecodeBlock
<1>2. /\ c \in Nat /\ at + 1 \in 0 .. Len(src) /\ Found(s, at + 1) = c + 1 /\ c < LettersOf(n)
      /\ dtable[src[at + 1]] = v /\ v \in 0 .. 63 /\ pads = PadTo(s, c + 1)
  BY <1>0, <1>1, NextPlace
<1>3. ReadTo(s, c) /\ src = made.text /\ s \in Seq(Byte) /\ n \in Nat /\ m \in Nat /\ out \in Seq(Byte)
  BY <1>0, LenProperties DEF ReadingBack, IsText, ReadTo
<1>4. PICK q \in Nat : c = 4 * q + 3 /\ m = 3 * q
  <2>1. c % 4 = 3 /\ 4 * m = 3 * (c - (c % 4))
    BY <1>1, <1>3 DEF ReadTo
  <2>2. c = 4 * (c \div 4) + 3 /\ c \div 4 \in Nat
    <3>1. c % 4 = 3 /\ c \in Nat
      BY <1>2, <2>1
    <3> QED BY <3>1, NextOfFour
  <2> DEFINE q == c \div 4
  <2> HIDE DEF q
  <2>3. c = 4 * q + 3 /\ q \in Nat
    BY <2>2 DEF q
  <2>4. m = 3 * q
    BY <1>3, <2>1, <2>3
  <2> QED BY <2>3, <2>4
<1> DEFINE x == ByteAt(s, 3 * q + 1)  y == ByteAt(s, 3 * q + 2)  z == ByteAt(s, 3 * q + 3)
<1>5. x \in Byte /\ y \in Byte /\ z \in Byte
  <2>1. 3 * q + 1 \in Nat \ {0} /\ 3 * q + 2 \in Nat \ {0} /\ 3 * q + 3 \in Nat \ {0}
    BY <1>4
  <2> QED BY <1>3, <2>1, ByteAtTypes
<1>6. bytes = <<x, y, z>>
  <2>1. \A j \in 0 .. 3 : SextetOf(s, 4 * q + j) = Sextet(x, y, z, j)
    <3> SUFFICES ASSUME NEW j \in 0 .. 3 PROVE SextetOf(s, 4 * q + j) = Sextet(x, y, z, j)
      OBVIOUS
    <3>1. (4 * q + j) \div 4 = q /\ (4 * q + j) % 4 = j
      BY <1>4
    <3> QED BY <3>1 DEF SextetOf
  <2>2. \A j \in 1 .. 3 : block[j] = SextetOf(s, 4 * q + (j - 1))
    <3> SUFFICES ASSUME NEW j \in 1 .. 3 PROVE block[j] = SextetOf(s, 4 * q + (j - 1))
      OBVIOUS
    <3>1. j \in 1 .. Len(block) /\ c % 4 = 3
      BY <1>1, <1>3 DEF ReadTo
    <3>2. block[j] = SextetOf(s, c - (c % 4) + j - 1)
      BY <1>3, <3>1 DEF ReadTo
    <3>3. c - (c % 4) + j - 1 = 4 * q + (j - 1)
      BY <1>4, <3>1
    <3> QED BY <3>2, <3>3
  <2>3. block[1] = Sextet(x, y, z, 0) /\ block[2] = Sextet(x, y, z, 1) /\ block[3] = Sextet(x, y, z, 2)
    <3> HIDE DEF x, y, z
    <3>1. /\ block[1] = SextetOf(s, 4 * q + 0) /\ block[2] = SextetOf(s, 4 * q + 1)
          /\ block[3] = SextetOf(s, 4 * q + 2)
      BY <2>2
    <3> QED BY <2>1, <3>1
  <2>4. dtable[src[at + 1]] = Sextet(x, y, z, 3)
    <3> HIDE DEF x, y, z
    <3>1. dtable[src[at + 1]] = SextetOf(s, 4 * q + 3)
      BY <1>2, <1>4
    <3> QED BY <2>1, <3>1
  <2> HIDE DEF x, y, z
  <2>5. ThreeBytes(Sextet(x, y, z, 0), Sextet(x, y, z, 1), Sextet(x, y, z, 2), Sextet(x, y, z, 3)) = <<x, y, z>>
    BY <1>5, BytesComeBack
  <2> QED BY <2>3, <2>4, <2>5
<1>7. /\ Sextets(n) \in Nat /\ LettersOf(n) % 4 = 0 /\ LettersOf(n) - Sextets(n) \in 0 .. 2
      /\ LettersOf(n) \in Nat /\ c + 1 = 4 * q + 4 /\ c + 1 <= LettersOf(n)
  <2> HIDE DEF n
  <2>1. /\ Sextets(n) \in Nat /\ LettersOf(n) % 4 = 0 /\ LettersOf(n) - Sextets(n) \in 0 .. 2
        /\ LettersOf(n) \in Nat
    BY <1>3, TextSizes
  <2>2. c + 1 = 4 * q + 4 /\ c + 1 <= LettersOf(n)
    BY <1>2, <1>4, <2>1
  <2> QED BY <2>1, <2>2
<1>8. pads = IF c + 1 > Sextets(n) THEN (c + 1) - Sextets(n) ELSE 0
  <2>1. pads = PadTo(s, c + 1)
    BY <1>2
  <2> HIDE DEF pads
  <2> QED BY <2>1 DEF PadTo
<1>9. \A j \in 1 .. m : out[j] = s[j]
  BY <1>3 DEF ReadTo
<1> HIDE DEF pads, bytes, x, y, z, v
<1>10. CASE c + 1 <= Sextets(n)
  <2>1. pads = 0
    BY <1>7, <1>8, <1>10
  <2>2. 3 * q + 3 <= n
    BY <1>3, <1>4, <1>10 DEF Sextets
  <2>3. /\ b64' = "decode" /\ at' = at + 1 /\ out' = out \o bytes /\ block' = <<>>
        /\ UNCHANGED <<src, pad, made>>
    BY <2>1 DEF DecodeBlock, bytes, pads
  <2>4. x = s[m + 1] /\ y = s[m + 2] /\ z = s[m + 3]
    BY <1>3, <1>4, <2>2 DEF ByteAt, x, y, z
  <2>5. bytes \in Seq(Byte) /\ Len(bytes) = 3 /\ bytes[1] = x /\ bytes[2] = y /\ bytes[3] = z
    BY <1>5, <1>6
  <2>6. /\ out' \in Seq(Byte) /\ Len(out') = m + 3
        /\ \A j \in 1 .. m + 3 : out'[j] = IF j <= m THEN out[j] ELSE bytes[j - m]
    <3>1. /\ out \o bytes \in Seq(Byte) /\ Len(out \o bytes) = Len(out) + Len(bytes)
          /\ \A j \in 1 .. Len(out) + Len(bytes) : (out \o bytes)[j] = IF j <= Len(out) THEN out[j] ELSE bytes[j - Len(out)]
      BY <1>3, <2>5, ConcatProperties
    <3> QED BY <2>3, <2>5, <3>1
  <2> HIDE DEF m, n
  <2>7. ASSUME NEW j \in 1 .. m + 3 PROVE out'[j] = s[j]
    <3>1. CASE j <= m
      BY <1>3, <1>9, <2>6, <3>1
    <3>2. CASE j = m + 1
      BY <1>3, <2>4, <2>5, <2>6, <3>2
    <3>3. CASE j = m + 2
      BY <1>3, <2>4, <2>5, <2>6, <3>3
    <3>4. CASE j = m + 3
      BY <1>3, <2>4, <2>5, <2>6, <3>4
    <3> QED BY <1>3, <3>1, <3>2, <3>3, <3>4
  <2>8. (c + 1) % 4 = 0
    BY <1>4
  <2>9. block' \in Seq(Int) /\ Len(block') = 0
    BY <2>3, EmptySeq
  <2>10. 4 * Len(out') = 3 * ((c + 1) - ((c + 1) % 4)) /\ Len(out') <= n
    BY <1>3, <1>4, <2>2, <2>6, <2>8
  <2>11. pad' = PadTo(s, c + 1)
    <3>1. pad = pads
      <4>1. pad = PadTo(s, c)
        BY <1>3 DEF ReadTo
      <4>2. ~(c > Sextets(n))
        BY <1>2, <1>7, <1>10
      <4> QED BY <2>1, <4>1, <4>2 DEF PadTo, n
    <3> QED BY <1>2, <2>3, <3>1
  <2>12. ReadTo(s, c + 1)'
    BY <1>10, <2>6, <2>7, <2>8, <2>9, <2>10, <2>11 DEF ReadTo, n
  <2>13. made'.src = s /\ Found(s, at') = c + 1
    BY <1>0, <1>2, <2>3
  <2>14. ReadTo(made.src, Found(made.src, at))' <=> ReadTo(s, c + 1)'
    BY <2>13
  <2> QED BY <1>2, <1>3, <2>3, <2>12, <2>14 DEF ReadingBack
<1>11. CASE ~(c + 1 <= Sextets(n))
  <2>1. pads \in 1 .. 2 /\ n = 3 * q + (3 - pads)
    <3> HIDE DEF n
    <3>1. 4 * q + 4 <= LettersOf(n) /\ 4 * q + 4 > Sextets(n)
      BY <1>4, <1>7, <1>11
    <3>2. pads = 4 * q + 4 - Sextets(n)
      BY <1>4, <1>7, <1>8, <1>11
    <3> QED BY <1>3, <3>1, <3>2, LastBlock
  <2> DEFINE k == 3 - pads  last == SubSeq(bytes, 1, k)
  <2>2. b64' = "done" /\ ok' /\ out' = out \o last
    <3>1. Return64(TRUE, out \o SubSeq(bytes, 1, 3 - pads))
      <4>1. pads # 0 /\ ~(pads > 2)
        BY <2>1
      <4> QED BY <4>1 DEF DecodeBlock, bytes, pads
    <3> QED BY <3>1 DEF Return64
  <2>3. bytes \in Seq(Byte) /\ bytes[1] = x /\ bytes[2] = y /\ Len(bytes) = 3
    BY <1>5, <1>6
  <2>4. k \in 1 .. 2 /\ n = m + k
    BY <1>4, <2>1
  <2>5. x = s[m + 1] /\ (k = 2 => y = s[m + 2])
    BY <1>3, <1>4, <2>4 DEF ByteAt, x, y
  <2> HIDE DEF k
  <2>6. last \in Seq(Byte) /\ Len(last) = k /\ \A j \in 1 .. k : last[j] = bytes[j]
    <3>1. \A j \in 1 .. k : bytes[j] \in Byte
      BY <1>5, <2>3, <2>4
    <3> QED BY <2>4, <3>1, SubSeqProperties
  <2> HIDE DEF last
  <2>7. /\ out' \in Seq(Byte) /\ Len(out') = m + k
        /\ \A j \in 1 .. m + k : out'[j] = IF j <= m THEN out[j] ELSE last[j - m]
    <3>1. /\ out \o last \in Seq(Byte) /\ Len(out \o last) = Len(out) + Len(last)
          /\ \A j \in 1 .. Len(out) + Len(last) : (out \o last)[j] = IF j <= Len(out) THEN out[j] ELSE last[j - Len(out)]
      BY <1>3, <2>6, ConcatProperties
    <3> QED BY <2>2, <2>6, <3>1
  <2> HIDE DEF m, n
  <2>8. ASSUME NEW j \in 1 .. m + k PROVE out'[j] = s[j]
    <3>1. CASE j <= m
      BY <1>3, <1>9, <2>7, <3>1
    <3>2. CASE j = m + 1
      <4>1. out'[j] = last[1]
        BY <1>3, <2>4, <2>7, <3>2
      <4>2. last[1] = x
        BY <2>3, <2>4, <2>6
      <4> QED BY <2>5, <3>2, <4>1, <4>2
    <3>3. CASE j = m + 2 /\ k = 2
      <4>1. out'[j] = last[2]
        BY <1>3, <2>4, <2>7, <3>3
      <4>2. last[2] = y
        BY <2>3, <2>4, <2>6, <3>3
      <4> QED BY <2>5, <3>3, <4>1, <4>2
    <3> QED BY <1>3, <2>4, <3>1, <3>2, <3>3
  <2>9. Len(out') = Len(s) /\ \A j \in 1 .. Len(out') : out'[j] = s[j]
    BY <2>4, <2>7, <2>8 DEF n
  <2>10. out' = s
    BY <1>3, <2>7, <2>9, SeqEqual
  <2> QED BY <1>0, <2>2, <2>10
<1> QED BY <1>10, <1>11

(* The end of a text without padding. *)
LEMMA EndReadsBack ==
  ASSUME IsText(made.src, made.text), ReadingBack, DecodeEnd
  PROVE  ok' /\ out' = made.src
<1> DEFINE s == made.src  n == Len(s)
<1>1. ok' /\ out' = out /\ Found(s, at) = LettersOf(n)
  BY FoundGrows DEF DecodeEnd, Return64, ReadingBack
<1>2. ReadTo(s, LettersOf(n)) /\ s \in Seq(Byte)
  BY <1>1 DEF ReadingBack, IsText
<1>3. n \in Nat /\ Len(out) \in Nat /\ out \in Seq(Byte)
  BY <1>2, LenProperties DEF ReadTo
<1>4. LettersOf(n) \in Nat /\ LettersOf(n) % 4 = 0 /\ 4 * n <= 3 * LettersOf(n)
  BY <1>3, TextSizes
<1>5. 4 * Len(out) = 3 * LettersOf(n) /\ Len(out) <= n
  BY <1>2, <1>4 DEF ReadTo
<1> HIDE DEF n
<1>6. Len(out) = n
  BY <1>3, <1>4, <1>5
<1>7. \A j \in 1 .. Len(out) : out[j] = s[j]
  BY <1>2 DEF ReadTo
<1>8. out = s
  BY <1>2, <1>3, <1>6, <1>7, SeqEqual DEF n
<1> QED BY <1>1, <1>8
---------------------------------------------------------------------------
(* Between the calls: what has been made is a source and its text. *)
ReadInv ==
  /\ made = NothingMade \/ IsText(made.src, made.text)
  /\ b64 = "idle" => made = NothingMade
  /\ b64 = "encode" => made = NothingMade /\ Encoded
  /\ b64 = "decode" /\ made.src # <<>> => ReadingBack

LEMMA NothingIsMade == NothingMade.src = <<>> /\ NothingMade.text = <<>>
BY DEF NothingMade

LEMMA ReadInvCall ==
  ASSUME B64Inv, ReadInv, B64Call PROVE ReadInv' /\ (made.src # <<>> => b64' # "done")
<1>1. ASSUME Refuse, made = NothingMade PROVE ReadInv' /\ (made.src # <<>> => b64' # "done")
  BY <1>1, NothingIsMade DEF Refuse, Return64, ReadInv
<1>2. CASE b64 = "idle" /\ \E s \in Sources : EncodeCall(s)
  <2>1. made = NothingMade
    BY <1>2 DEF ReadInv
  <2>2. PICK s \in Sources : EncodeCall(s)
    BY <1>2
  <2>3. CASE Refuse
    BY <1>1, <2>1, <2>3
  <2>4. CASE ~Refuse
    <3>1. b64' = "encode" /\ made' = made /\ out' = <<>>
      BY <2>2, <2>4 DEF EncodeCall, Begin64
    <3>2. Encoded'
      BY <3>1 DEF Encoded
    <3> QED BY <2>1, <3>1, <3>2 DEF ReadInv
  <2> QED BY <2>3, <2>4
<1>3. CASE b64 = "idle" /\ \E t \in Texts : DecodeCall(t)
  <2>1. made = NothingMade
    BY <1>3 DEF ReadInv
  <2>2. PICK t \in Texts : DecodeCall(t)
    BY <1>3
  <2>3. CASE Refuse
    BY <1>1, <2>1, <2>3
  <2>4. CASE ~Refuse
    <3>1. b64' = "decode" /\ made' = made
      BY <2>2, <2>4 DEF DecodeCall, Begin64
    <3> QED BY <2>1, <3>1, NothingIsMade DEF ReadInv
  <2> QED BY <2>3, <2>4
<1>4. CASE b64 = "done" /\ made # NothingMade /\ DecodeCall(made.text)
  <2>1. IsText(made.src, made.text)
    BY <1>4 DEF ReadInv
  <2>2. CASE made.src = <<>>
    <3>1. CASE Refuse
      BY <2>2, <3>1, NothingIsMade DEF Refuse, Return64, ReadInv
    <3>2. CASE ~Refuse
      <4>1. b64' = "decode" /\ made' = made
        BY <1>4, <3>2 DEF DecodeCall, Begin64
      <4> QED BY <2>1, <2>2, <4>1 DEF ReadInv
    <3> QED BY <3>1, <3>2
  <2>3. CASE made.src # <<>>
    <3>1. b64' = "decode" /\ made' = made /\ ReadingBack'
      BY <1>4, <2>1, <2>3, ReadingStarts
    <3> QED BY <2>1, <3>1 DEF ReadInv
  <2> QED BY <2>2, <2>3
<1>5. CASE NoMemory
  BY <1>1, <1>5 DEF NoMemory, ReadInv
<1>6. CASE Taken
  BY <1>6 DEF Taken, ReadInv
<1> QED BY <1>2, <1>3, <1>4, <1>5, <1>6 DEF B64Call

LEMMA ReadInvStep ==
  ASSUME B64Inv, ReadInv, B64Step
  PROVE  ReadInv' /\ (made.src # <<>> /\ b64' = "done" => ok' /\ out' = made.src)
<1>1. CASE EncodeBlock
  <2>1. /\ Encoding /\ Encoded /\ made = NothingMade /\ b64' = "encode" /\ made' = made
    BY <1>1 DEF EncodeBlock, B64Inv, ReadInv
  <2>2. Encoded'
    BY <1>1, <2>1, EncodeBlockWrites
  <2> QED BY <2>1, <2>2 DEF ReadInv
<1>2. CASE EncodeEnd
  <2>1. Encoding /\ Encoded /\ made = NothingMade /\ b64' = "done"
    BY <1>2 DEF EncodeEnd, Return64, B64Inv, ReadInv
  <2>2. IsText(made'.src, made'.text)
    BY <1>2, <2>1, EncodeEndWrites
  <2> QED BY <2>1, <2>2, NothingIsMade DEF ReadInv
<1>3. CASE DecodeSkip \/ DecodeLetter \/ DecodeBlock \/ DecodeEnd
  <2>0. b64 = "decode"
    BY <1>3 DEF DecodeSkip, DecodeLetter, DecodeBlock, DecodeEnd
  <2>1. \/ made' = made /\ b64' \in {"decode", "done"}
        \/ made' = NothingMade /\ b64' = "done"
    BY <1>3, <2>0 DEF DecodeSkip, DecodeLetter, DecodeBlock, DecodeEnd, Refuse, Return64
  <2>2. CASE made.src = <<>>
    BY <2>1, <2>2, NothingIsMade DEF ReadInv
  <2>3. CASE made.src # <<>>
    <3>1. IsText(made.src, made.text) /\ ReadingBack
      BY <2>0, <2>3, NothingIsMade DEF ReadInv
    <3>2. CASE DecodeSkip
      <4>1. ReadingBack' /\ b64' = "decode" /\ made' = made
        BY <2>0, <3>1, <3>2, SkipReadsOn DEF DecodeSkip
      <4> QED BY <3>1, <4>1 DEF ReadInv
    <3>3. CASE DecodeLetter
      <4>1. ReadingBack' /\ b64' = "decode" /\ made' = made
        BY <2>0, <3>1, <3>3, LetterReadsOn DEF DecodeLetter
      <4> QED BY <3>1, <4>1 DEF ReadInv
    <3>4. CASE DecodeBlock
      <4>1. IF b64' = "done" THEN ok' /\ out' = made.src
            ELSE b64' = "decode" /\ made' = made /\ ReadingBack'
        BY <3>1, <3>4, BlockReadsOn
      <4>2. CASE b64' = "done"
        BY <2>1, <3>1, <4>1, <4>2 DEF ReadInv
      <4>3. CASE b64' # "done"
        BY <3>1, <4>1, <4>3 DEF ReadInv
      <4> QED BY <4>2, <4>3
    <3>5. CASE DecodeEnd
      <4>1. ok' /\ out' = made.src /\ b64' = "done" /\ made' = made
        BY <3>1, <3>5, EndReadsBack DEF DecodeEnd, Return64
      <4> QED BY <3>1, <4>1 DEF ReadInv
    <3> QED BY <1>3, <3>2, <3>3, <3>4, <3>5
  <2> QED BY <2>2, <2>3
<1> QED BY <1>1, <1>2, <1>3 DEF B64Step

(* What base64_encode makes of any source, of any length, base64_decode reads *)
(* back: padded letters, line feeds and all.                                   *)
THEOREM TextsReadBack == B64Spec => ReadsBack
<1>1. B64Init => B64Inv /\ ReadInv
  <2> SUFFICES ASSUME B64Init PROVE B64Inv /\ ReadInv
    OBVIOUS
  <2>1. B64Inv
    BY B64InvStarts
  <2>2. b64 = "idle" /\ made = NothingMade
    BY DEF B64Init
  <2> QED BY <2>1, <2>2 DEF ReadInv
<1>2. B64Inv /\ ReadInv /\ [B64Next]_b64Vars
        => (B64Inv /\ ReadInv)' /\ [made.src # <<>> /\ b64' = "done" => ok' /\ out' = made.src]_b64Vars
  <2> SUFFICES ASSUME B64Inv, ReadInv, [B64Next]_b64Vars
               PROVE  (B64Inv /\ ReadInv)' /\ [made.src # <<>> /\ b64' = "done" => ok' /\ out' = made.src]_b64Vars
    OBVIOUS
  <2>1. B64Inv'
    BY B64InvKept
  <2>2. CASE B64Call
    BY <2>1, <2>2, ReadInvCall
  <2>3. CASE B64Step
    BY <2>1, <2>3, ReadInvStep
  <2>4. CASE UNCHANGED b64Vars
    BY <2>1, <2>4 DEF b64Vars, ReadInv, Encoded, ReadingBack, ReadTo
  <2> QED BY <2>2, <2>3, <2>4 DEF B64Next
<1> QED BY <1>1, <1>2, PTL DEF B64Spec, ReadsBack
---------------------------------------------------------------------------
Block == [BlockIndex -> Octet]

(* How many bytes have been read, and what the context must then hold. *)
given == offered - todo

Reading ==
  /\ given \in 0 .. Len(msg)
  /\ Message_Block_Index = given % 64
  /\ \A k \in BlockIndex :
       k < Message_Block_Index => Message_Block[k] = msg[64 * (given \div 64) + k + 1]
  /\ Len(hashed) = given \div 64
  /\ \A b \in 1 .. Len(hashed) : \A k \in BlockIndex : hashed[b][k] = msg[64 * (b - 1) + k + 1]
  /\ Length_Low \in 0 .. word - 1 /\ Length_High \in 0 .. word - 1 /\ Length_Low % 8 = 0
  /\ Length_High * word + Length_Low = 8 * given

Digested ==
  \E high \in 0 .. word - 1 :
    LET low == 8 * offered - high * word IN
    low \in 0 .. word - 1 /\ hashed = StandardBlocks(msg, offered, high, low)

Sha1Types ==
  /\ word \in Nat /\ word > 0 /\ word % 8 = 0
  /\ msg \in Seq(Octet) /\ offered \in 0 .. Len(msg) /\ todo \in 0 .. offered
  /\ Message_Block \in Block
  /\ Computed \in {0, 1}

Sha1Inv ==
  /\ Sha1Types
  /\ todo > 0 => Computed = 0
  /\ Computed = 0 => hashed \in Seq(Block)
  /\ Corrupted = 0 /\ Computed = 0 => Reading
  /\ Corrupted = 0 /\ Computed = 1 => Digested
  /\ ret = [op |-> "result", code |-> shaSuccess] => Corrupted = 0 /\ Computed = 1

LEMMA OctetTypes == 0 \in Octet /\ 128 \in Octet /\ Zeros \in Block
<1>1. 0 \in Octet /\ 128 \in Octet
  BY DEF Octet
<1> QED BY <1>1 DEF Zeros, Block
---------------------------------------------------------------------------
(* After SHA1Reset, and at the beginning. *)
Fresh ==
  /\ word \in Nat /\ word > 0 /\ word % 8 = 0
  /\ msg \in Seq(Octet) /\ Message_Block \in Block /\ offered = 0 /\ todo = 0
  /\ Length_Low = 0 /\ Length_High = 0 /\ Message_Block_Index = 0
  /\ Computed = 0 /\ Corrupted = 0 /\ hashed = <<>> /\ ret = [op |-> "reset", code |-> shaSuccess]

LEMMA FreshHolds == Fresh => Sha1Inv
<1> SUFFICES ASSUME Fresh PROVE Sha1Inv
  OBVIOUS
<1> USE DEF Fresh
<1>1. Len(msg) \in Nat
  BY LenProperties
<1>2. Sha1Types
  BY <1>1 DEF Sha1Types
<1>3. hashed \in Seq(Block) /\ Len(hashed) = 0
  BY EmptySeq
<1>4. Reading
  <2>1. given = 0
    BY DEF given
  <2>2. Length_Low \in 0 .. word - 1 /\ Length_High \in 0 .. word - 1 /\ Length_Low % 8 = 0
    OBVIOUS
  <2>3. Length_High * word + Length_Low = 8 * given
    BY <2>1
  <2>4. Message_Block_Index = given % 64 /\ Len(hashed) = given \div 64 /\ given \in 0 .. Len(msg)
    BY <1>1, <1>3, <2>1
  <2>5. \A k \in BlockIndex : ~(k < Message_Block_Index)
    BY DEF BlockIndex
  <2>6. 1 .. Len(hashed) = {}
    BY <1>3
  <2> QED BY <2>2, <2>3, <2>4, <2>5, <2>6 DEF Reading
<1>5. ret # [op |-> "result", code |-> shaSuccess]
  OBVIOUS
<1> QED BY <1>2, <1>3, <1>4, <1>5 DEF Sha1Inv

LEMMA ResetKeeps ==
  ASSUME Sha1Inv, NEW m \in Seq(Octet), SHA1Reset(m) PROVE Sha1Inv'
<1>1. word' \in Nat /\ word' > 0 /\ word' % 8 = 0 /\ Message_Block' \in Block
  BY DEF SHA1Reset, Sha1Inv, Sha1Types
<1>2. msg' \in Seq(Octet)
  BY DEF SHA1Reset
<1>3. /\ offered' = 0 /\ todo' = 0 /\ Length_Low' = 0 /\ Length_High' = 0
      /\ Message_Block_Index' = 0 /\ Computed' = 0 /\ Corrupted' = 0 /\ hashed' = <<>>
      /\ ret' = [op |-> "reset", code |-> shaSuccess]
  BY DEF SHA1Reset
<1>4. Fresh'
  BY <1>1, <1>2, <1>3 DEF Fresh
<1> QED BY <1>4, FreshHolds, PTL

LEMMA InputKeeps ==
  ASSUME Sha1Inv, NEW n \in Nat, SHA1Input(n) PROVE Sha1Inv'
<1>1. /\ todo = 0 /\ offered + n <= Len(msg) /\ offered' = offered + n
      /\ UNCHANGED <<Length_Low, Length_High, Message_Block_Index, Message_Block, Computed, hashed,
                     word, msg>>
  BY DEF SHA1Input, lengths
<1>2. ret' # [op |-> "result", code |-> shaSuccess]
  BY DEF SHA1Input
<1>3. Len(msg) \in Nat /\ offered \in Nat
  BY LenProperties DEF Sha1Inv, Sha1Types
<1>4. CASE n = 0
  <2>1. offered' = offered /\ todo' = todo /\ Corrupted' = Corrupted
    BY <1>1, <1>3, <1>4 DEF SHA1Input
  <2>2. Sha1Types' /\ (Reading => Reading') /\ (Digested => Digested')
    BY <1>1, <2>1 DEF Sha1Inv, Sha1Types, Reading, Digested, given
  <2> QED BY <1>1, <1>2, <2>1, <2>2 DEF Sha1Inv
<1>5. CASE n > 0
  <2>1. todo' \in {0, n} /\ (todo' > 0 => Computed = 0)
    BY <1>1, <1>5 DEF SHA1Input
  <2>2. Sha1Types'
    BY <1>1, <1>3, <2>1 DEF Sha1Inv, Sha1Types
  <2>3. CASE Corrupted' = 0
    <3>1. todo' = n /\ Computed = 0 /\ Corrupted = 0
      BY <1>5, <2>3 DEF SHA1Input, shaStateError
    <3>2. given' = given
      BY <1>1, <1>3, <3>1 DEF given
    <3>3. Reading'
      BY <1>1, <3>1, <3>2 DEF Sha1Inv, Reading
    <3> QED BY <1>1, <1>2, <2>1, <2>2, <2>3, <3>1, <3>3 DEF Sha1Inv
  <2>4. CASE Corrupted' # 0
    BY <1>1, <1>2, <2>1, <2>2, <2>4 DEF Sha1Inv
  <2> QED BY <2>3, <2>4
<1> QED BY <1>4, <1>5

LEMMA StopsKeeps == ASSUME Sha1Inv, InputStops PROVE Sha1Inv'
<1>1. /\ todo' = 0 /\ Corrupted # 0 /\ Corrupted' = Corrupted
      /\ UNCHANGED <<Message_Block, Computed, hashed, word, msg, offered, ret>>
  BY DEF InputStops
<1>2. Sha1Types'
  BY <1>1 DEF Sha1Inv, Sha1Types
<1> QED BY <1>1, <1>2 DEF Sha1Inv
---------------------------------------------------------------------------
(* The two words count on, until they have counted everything they can. *)
LEMMA CountsOn ==
  ASSUME NEW w \in Nat, w > 0, w % 8 = 0, NEW low \in 0 .. w - 1, NEW high \in 0 .. w - 1,
         low % 8 = 0, NEW g \in Nat, high * w + low = 8 * g,
         NEW l, l = (low + 8) % w, NEW h, h = IF l = 0 THEN (high + 1) % w ELSE high,
         ~(l = 0 /\ h = 0)
  PROVE  /\ l \in 0 .. w - 1 /\ h \in 0 .. w - 1 /\ l % 8 = 0
         /\ h * w + l = 8 * (g + 1)
<1>1. low + 8 <= w
  OBVIOUS
<1>2. CASE low + 8 = w
  <2>1. l = 0
    BY <1>2
  <2>2. high + 1 # w
    BY <2>1
  <2>3. h = high + 1
    BY <2>1, <2>2
  <2>4. (high + 1) * w = high * w + w
    OBVIOUS
  <2> QED BY <1>2, <2>1, <2>2, <2>3, <2>4
<1>3. CASE low + 8 < w
  <2>1. l = low + 8
    BY <1>3
  <2>2. h = high
    BY <2>1
  <2> QED BY <1>3, <2>1, <2>2
<1> QED BY <1>1, <1>2, <1>3

LEMMA NextByte ==
  ASSUME NEW g \in Nat
  PROVE  IF g % 64 = 63 THEN (g + 1) % 64 = 0 /\ (g + 1) \div 64 = (g \div 64) + 1
         ELSE (g + 1) % 64 = (g % 64) + 1 /\ (g + 1) \div 64 = g \div 64
OBVIOUS

LEMMA ByteKeeps == ASSUME Sha1Inv, InputByte PROVE Sha1Inv'
<1> DEFINE i == Message_Block_Index
           filled == [Message_Block EXCEPT ![i] = msg[offered - todo + 1]]
           low == (Length_Low + 8) % word
           high == IF low = 0 THEN (Length_High + 1) % word ELSE Length_High
<1>1. /\ todo > 0 /\ Corrupted = 0 /\ Computed = 0 /\ Reading /\ Sha1Types /\ hashed \in Seq(Block)
      /\ todo' = todo - 1 /\ UNCHANGED <<Computed, word, msg, offered, ret>>
      /\ Message_Block' = filled /\ Length_Low' = low /\ Length_High' = high
      /\ Corrupted' = IF low = 0 /\ high = 0 THEN shaNull ELSE 0
  BY DEF InputByte, Sha1Inv
<1>2. IF i + 1 = 64 THEN hashed' = Append(hashed, filled) /\ Message_Block_Index' = 0
      ELSE Message_Block_Index' = i + 1 /\ UNCHANGED hashed
  BY DEF InputByte
<1>3. /\ Len(msg) \in Nat /\ offered \in Nat /\ todo \in Nat /\ given \in Nat /\ given + 1 \in 1 .. Len(msg)
      /\ given' = given + 1 /\ i = given % 64 /\ i \in BlockIndex
  <2>1. Len(msg) \in Nat /\ offered \in 0 .. Len(msg) /\ todo \in 1 .. offered
    BY <1>1, LenProperties DEF Sha1Types
  <2>2. given' = given + 1 /\ given \in Nat /\ given + 1 \in 1 .. Len(msg)
    BY <1>1, <2>1 DEF given
  <2> QED BY <1>1, <2>1, <2>2 DEF Reading, BlockIndex
<1>4. filled \in Block
  <2>1. msg[given + 1] \in Octet
    <3>1. msg \in Seq(Octet)
      BY <1>1 DEF Sha1Types
    <3> QED BY <1>3, <3>1, ElementOfSeq
  <2>2. Message_Block \in [BlockIndex -> Octet]
    BY <1>1 DEF Sha1Types, Block
  <2> QED BY <2>1, <2>2 DEF Block, given
<1>5. /\ filled[i] = msg[given + 1]
      /\ \A k \in BlockIndex : k < i => filled[k] = msg[64 * (given \div 64) + k + 1]
  <2>1. Message_Block \in [BlockIndex -> Octet]
    BY <1>1 DEF Sha1Types, Block
  <2>2. filled[i] = msg[given + 1] /\ \A k \in BlockIndex : k < i => filled[k] = Message_Block[k]
    BY <1>3, <2>1 DEF given, BlockIndex
  <2>3. \A k \in BlockIndex : k < i => Message_Block[k] = msg[64 * (given \div 64) + k + 1]
    BY <1>1 DEF Reading
  <2> QED BY <2>2, <2>3
<1> HIDE DEF filled, low, high
<1>6. given = 64 * (given \div 64) + i /\ given \div 64 \in Nat
  BY <1>3
<1>7. \A k \in BlockIndex : k <= i => filled[k] = msg[64 * (given \div 64) + k + 1]
  <2> SUFFICES ASSUME NEW k \in BlockIndex, k <= i PROVE filled[k] = msg[64 * (given \div 64) + k + 1]
    OBVIOUS
  <2>1. CASE k < i
    BY <1>5, <2>1
  <2>2. CASE ~(k < i)
    <3>1. k = i
      BY <1>3, <2>2 DEF BlockIndex
    <3>2. 64 * (given \div 64) + k + 1 = given + 1
      BY <1>6, <3>1
    <3> QED BY <1>5, <3>1, <3>2
  <2> QED BY <2>1, <2>2
<1>8. Sha1Types'
  BY <1>1, <1>3, <1>4 DEF Sha1Types
<1>9. hashed' \in Seq(Block)
  <2>1. hashed \in Seq(Block) /\ filled \in Block
    BY <1>1, <1>4
  <2>2. Append(hashed, filled) \in Seq(Block)
    BY <2>1, AppendProperties
  <2>3. hashed' = hashed \/ hashed' = Append(hashed, filled)
    BY <1>2
  <2> QED BY <2>1, <2>2, <2>3
<1>10. CASE Corrupted' = 0
  <2>1. ~(low = 0 /\ high = 0)
    BY <1>1, <1>10 DEF shaNull
  <2>2. /\ Length_Low' \in 0 .. word' - 1 /\ Length_High' \in 0 .. word' - 1 /\ Length_Low' % 8 = 0
        /\ Length_High' * word' + Length_Low' = 8 * (given + 1)
    <3>1. /\ word \in Nat /\ word > 0 /\ word % 8 = 0
          /\ Length_Low \in 0 .. word - 1 /\ Length_High \in 0 .. word - 1 /\ Length_Low % 8 = 0
          /\ Length_High * word + Length_Low = 8 * given
      BY <1>1 DEF Sha1Types, Reading
    <3>2. low = (Length_Low + 8) % word /\ high = IF low = 0 THEN (Length_High + 1) % word ELSE Length_High
      BY DEF low, high
    <3>3. /\ low \in 0 .. word - 1 /\ high \in 0 .. word - 1 /\ low % 8 = 0
          /\ high * word + low = 8 * (given + 1)
      BY <1>3, <2>1, <3>1, <3>2, CountsOn
    <3> QED BY <1>1, <3>3
  <2>3. Reading'
    <3>1. given' \in 0 .. Len(msg')
      BY <1>1, <1>3
    <3>2. CASE i + 1 = 64
      <4>1. hashed' = Append(hashed, filled) /\ Message_Block_Index' = 0
        BY <1>2, <3>2
      <4>2. given' % 64 = 0 /\ given' \div 64 = given \div 64 + 1
        BY <1>3, <3>2, NextByte
      <4>3. Len(hashed) = given \div 64 /\ Len(hashed) \in Nat
        BY <1>1, <1>6 DEF Reading
      <4>4. /\ Len(hashed') = Len(hashed) + 1
            /\ \A b \in 1 .. Len(hashed) : hashed'[b] = hashed[b]
            /\ hashed'[Len(hashed) + 1] = filled
        BY <1>1, <1>4, <4>1, AppendProperties
      <4>5. ASSUME NEW b \in 1 .. Len(hashed'), NEW k \in BlockIndex
            PROVE  hashed'[b][k] = msg[64 * (b - 1) + k + 1]
        <5>1. CASE b \in 1 .. Len(hashed)
          BY <1>1, <4>4, <5>1 DEF Reading
        <5>2. CASE b = Len(hashed) + 1
          <6>1. k <= i /\ b - 1 = given \div 64
            BY <3>2, <4>3, <5>2, <1>3 DEF BlockIndex
          <6> QED BY <1>7, <4>4, <5>2, <6>1
        <5> QED BY <4>3, <4>4, <5>1, <5>2
      <4>6. \A k \in BlockIndex : ~(k < 0)
        BY DEF BlockIndex
      <4>7. Message_Block_Index' = given' % 64 /\ Len(hashed') = given' \div 64
        BY <4>1, <4>2, <4>3, <4>4
      <4>8. \A k \in BlockIndex :
              k < Message_Block_Index' => Message_Block'[k] = msg'[64 * (given' \div 64) + k + 1]
        BY <4>1, <4>6
      <4>9. \A b \in 1 .. Len(hashed') : \A k \in BlockIndex : hashed'[b][k] = msg'[64 * (b - 1) + k + 1]
        BY <1>1, <4>5
      <4>10. Length_High' * word' + Length_Low' = 8 * given'
        BY <1>3, <2>2
      <4> QED BY <2>2, <3>1, <4>7, <4>8, <4>9, <4>10 DEF Reading
    <3>3. CASE i + 1 # 64
      <4>1. hashed' = hashed /\ Message_Block_Index' = i + 1
        BY <1>2, <3>3
      <4>2. given' % 64 = i + 1 /\ given' \div 64 = given \div 64
        BY <1>3, <3>3, NextByte
      <4>3. \A k \in BlockIndex : k < i + 1 => k <= i
        BY <1>3 DEF BlockIndex
      <4>4. \A k \in BlockIndex :
              k < Message_Block_Index' => Message_Block'[k] = msg'[64 * (given' \div 64) + k + 1]
        BY <1>1, <1>7, <4>1, <4>2, <4>3
      <4>5. Len(hashed') = given' \div 64
        BY <1>1, <4>1, <4>2 DEF Reading
      <4>6. \A b \in 1 .. Len(hashed') : \A k \in BlockIndex : hashed'[b][k] = msg'[64 * (b - 1) + k + 1]
        BY <1>1, <4>1 DEF Reading
      <4> QED BY <1>1, <1>3, <2>2, <3>1, <4>1, <4>2, <4>4, <4>5, <4>6 DEF Reading
    <3> QED BY <3>2, <3>3
  <2>4. ret' # [op |-> "result", code |-> shaSuccess]
    BY <1>1 DEF Sha1Inv
  <2> QED BY <1>1, <1>8, <1>9, <1>10, <2>3, <2>4 DEF Sha1Inv
<1>11. CASE Corrupted' # 0
  <2>1. ret' # [op |-> "result", code |-> shaSuccess]
    BY <1>1 DEF Sha1Inv
  <2> QED BY <1>1, <1>8, <1>9, <1>11, <2>1 DEF Sha1Inv
<1> QED BY <1>10, <1>11
---------------------------------------------------------------------------
(* The bytes of the standard's padding. *)
Standard(j) == StandardByte(msg, offered, Length_High, Length_Low, j)

(* A block of the standard's padding that is within the message, ... *)
LEMMA WholeBlock ==
  ASSUME offered \in Nat, NEW b \in 1 .. offered \div 64, NEW k \in BlockIndex
  PROVE  Standard(64 * (b - 1) + k) = msg[64 * (b - 1) + k + 1]
<1>1. 64 * (b - 1) + k < offered
  BY DEF BlockIndex
<1> QED BY <1>1 DEF Standard, StandardByte

(* ... and those after it: one when the length fits behind the last bytes, *)
(* two when it does not.                                                   *)
LEMMA LengthFits ==
  ASSUME offered \in Nat, NEW k \in BlockIndex, offered % 64 <= 55
  PROVE  /\ (offered + 8) \div 64 = offered \div 64
         /\ Standard(64 * (offered \div 64) + k) =
              IF k < offered % 64 THEN msg[64 * (offered \div 64) + k + 1] ELSE IF k = offered % 64 THEN 128
              ELSE IF k < 56 THEN 0 ELSE LengthBytes(Length_High, Length_Low)[k - 55]
<1> DEFINE q == offered \div 64  i == offered % 64  j == 64 * q + k
<1>1. q \in Nat /\ i \in 0 .. 55 /\ offered = 64 * q + i /\ k \in 0 .. 63
  BY DEF BlockIndex
<1>2. (offered + 8) \div 64 = q
  BY <1>1
<1> HIDE DEF q, i
<1>3. /\ (j < offered) = (k < i) /\ (j = offered) = (k = i) /\ (j < 64 * (q + 1) - 8) = (k < 56)
      /\ j - (64 * (q + 1) - 8) + 1 = k - 55
  BY <1>1
<1>4. Standard(j) =
        IF j < offered THEN msg[j + 1] ELSE IF j = offered THEN 128
        ELSE IF j < 64 * (q + 1) - 8 THEN 0 ELSE LengthBytes(Length_High, Length_Low)[j - (64 * (q + 1) - 8) + 1]
  BY <1>2 DEF Standard, StandardByte
<1> QED BY <1>2, <1>3, <1>4 DEF q, i

LEMMA LengthDoesNotFit ==
  ASSUME offered \in Nat, NEW k \in BlockIndex, offered % 64 > 55
  PROVE  /\ (offered + 8) \div 64 = offered \div 64 + 1
         /\ Standard(64 * (offered \div 64) + k) =
              IF k < offered % 64 THEN msg[64 * (offered \div 64) + k + 1]
              ELSE IF k = offered % 64 THEN 128 ELSE 0
         /\ Standard(64 * (offered \div 64 + 1) + k) =
              IF k < 56 THEN 0 ELSE LengthBytes(Length_High, Length_Low)[k - 55]
<1> DEFINE q == offered \div 64  i == offered % 64  j == 64 * q + k  l == 64 * (q + 1) + k
<1>1. q \in Nat /\ i \in 56 .. 63 /\ offered = 64 * q + i /\ k \in 0 .. 63
  BY DEF BlockIndex
<1>2. (offered + 8) \div 64 = q + 1
  BY <1>1
<1> HIDE DEF q, i
<1>3. /\ (j < offered) = (k < i) /\ (j = offered) = (k = i) /\ j < 64 * (q + 2) - 8
      /\ ~(l < offered) /\ l # offered /\ (l < 64 * (q + 2) - 8) = (k < 56)
      /\ l - (64 * (q + 2) - 8) + 1 = k - 55
  BY <1>1
<1>4. ASSUME NEW x \in {j, l}
      PROVE  Standard(x) =
               IF x < offered THEN msg[x + 1] ELSE IF x = offered THEN 128
               ELSE IF x < 64 * (q + 2) - 8 THEN 0 ELSE LengthBytes(Length_High, Length_Low)[x - (64 * (q + 2) - 8) + 1]
  <2>1. (offered + 8) \div 64 + 1 = q + 2
    BY <1>1, <1>2
  <2> QED BY <2>1 DEF Standard, StandardByte
<1>5. Standard(j) = IF k < i THEN msg[j + 1] ELSE IF k = i THEN 128 ELSE 0
  BY <1>3, <1>4
<1>6. Standard(l) = IF k < 56 THEN 0 ELSE LengthBytes(Length_High, Length_Low)[k - 55]
  BY <1>3, <1>4
<1> QED BY <1>2, <1>5, <1>6 DEF q, i
---------------------------------------------------------------------------
(* What SHA1PadMessage processes: with all the bytes of the message read,   *)
(* its blocks follow those hashed as the standard's do.                     *)
LEMMA PaddedIsStandard ==
  ASSUME Sha1Types, Reading, todo = 0, hashed \in Seq(Block)
  PROVE  hashed \o PadBlocks = StandardBlocks(msg, offered, Length_High, Length_Low)
<1> DEFINE q == offered \div 64  i == offered % 64
           S == Block \cup {PadFirst, LastOf(Zeros), LastOf(PadFirst)}
<1>1. offered \in Nat /\ q \in Nat /\ i \in 0 .. 63 /\ given = offered
  <2>1. offered \in Nat
    BY LenProperties DEF Sha1Types
  <2> QED BY <2>1 DEF given
<1>2. /\ Message_Block_Index = i /\ Len(hashed) = q
      /\ \A k \in BlockIndex : k < i => Message_Block[k] = msg[64 * q + k + 1]
      /\ \A b \in 1 .. q : \A k \in BlockIndex : hashed[b][k] = msg[64 * (b - 1) + k + 1]
  BY <1>1 DEF Reading
<1>3. /\ \A k \in BlockIndex :
           PadFirst[k] = IF k < i THEN msg[64 * q + k + 1] ELSE IF k = i THEN 128 ELSE 0
      /\ \A k \in BlockIndex :
           LastOf(Zeros)[k] = IF k < 56 THEN 0 ELSE LengthBytes(Length_High, Length_Low)[k - 55]
      /\ \A k \in BlockIndex :
           LastOf(PadFirst)[k] = IF k < 56 THEN PadFirst[k] ELSE LengthBytes(Length_High, Length_Low)[k - 55]
  BY <1>2 DEF PadFirst, LastOf, Zeros
<1>4. hashed \in Seq(S)
  <2>1. \A b \in 1 .. Len(hashed) : hashed[b] \in S
    BY ElementOfSeq
  <2>2. hashed = [b \in 1 .. Len(hashed) |-> hashed[b]] /\ Len(hashed) \in Nat
    BY LenProperties
  <2> HIDE DEF S
  <2> QED BY <2>1, <2>2
<1>5. PadBlocks \in Seq(S)
  <2>1. PadFirst \in S /\ LastOf(Zeros) \in S /\ LastOf(PadFirst) \in S
    OBVIOUS
  <2> HIDE DEF S
  <2>2. <<PadFirst, LastOf(Zeros)>> \in Seq(S) /\ <<LastOf(PadFirst)>> \in Seq(S)
    BY <2>1
  <2> QED BY <2>2 DEF PadBlocks
<1>6. \A x \in S : x = [k \in BlockIndex |-> x[k]]
  BY DEF Block, PadFirst, LastOf
<1> HIDE DEF S
<1> DEFINE total == (offered + 8) \div 64 + 1  all == hashed \o PadBlocks
<1>0. total \in Nat
  BY <1>1
<1>7. \A b \in 1 .. q : \A k \in BlockIndex : hashed[b][k] = Standard(64 * (b - 1) + k)
  BY <1>1, <1>2, WholeBlock
<1>8. /\ Len(PadBlocks) = total - q /\ total - q \in Nat
      /\ \A c \in 1 .. Len(PadBlocks) : \A k \in BlockIndex : PadBlocks[c][k] = Standard(64 * (q + c - 1) + k)
  <2>0. 0 \in BlockIndex /\ \A k \in BlockIndex : k \in Int
    BY DEF BlockIndex
  <2>1. CASE offered % 64 <= 55
    <3>1. PadBlocks = <<LastOf(PadFirst)>>
      BY <1>1, <1>2, <2>1 DEF PadBlocks
    <3>2. total = q + 1
      BY <1>1, <2>0, <2>1, LengthFits
    <3>3. ASSUME NEW k \in BlockIndex PROVE LastOf(PadFirst)[k] = Standard(64 * q + k)
      <4>1. Standard(64 * q + k) =
              IF k < i THEN msg[64 * q + k + 1] ELSE IF k = i THEN 128
              ELSE IF k < 56 THEN 0 ELSE LengthBytes(Length_High, Length_Low)[k - 55]
        BY <1>1, <2>1, LengthFits
      <4>2. i <= 55 /\ k \in Int
        BY <2>0, <2>1
      <4> HIDE DEF i, q
      <4> QED BY <1>1, <1>3, <4>1, <4>2
    <3> HIDE DEF i, q, total
    <3>4. Len(PadBlocks) = 1 /\ PadBlocks[1] = LastOf(PadFirst)
      BY <3>1
    <3>5. ASSUME NEW c \in 1 .. Len(PadBlocks) PROVE c = 1 /\ q + c - 1 = q
      BY <1>1, <3>4
    <3> QED BY <1>1, <3>2, <3>3, <3>4, <3>5
  <2>2. CASE offered % 64 > 55
    <3>1. PadBlocks = <<PadFirst, LastOf(Zeros)>>
      BY <1>1, <1>2, <2>2 DEF PadBlocks
    <3>2. total = q + 2
      <4>1. (offered + 8) \div 64 = q + 1
        BY <1>1, <2>0, <2>2, LengthDoesNotFit
      <4> QED BY <1>1, <4>1
    <3>3. ASSUME NEW k \in BlockIndex
          PROVE  PadFirst[k] = Standard(64 * q + k) /\ LastOf(Zeros)[k] = Standard(64 * (q + 1) + k)
      <4>1. /\ Standard(64 * q + k) = IF k < i THEN msg[64 * q + k + 1] ELSE IF k = i THEN 128 ELSE 0
            /\ Standard(64 * (q + 1) + k) =
                 IF k < 56 THEN 0 ELSE LengthBytes(Length_High, Length_Low)[k - 55]
        BY <1>1, <2>2, LengthDoesNotFit
      <4> HIDE DEF i, q
      <4> QED BY <1>3, <4>1
    <3> HIDE DEF i, q, total
    <3>4. Len(PadBlocks) = 2 /\ PadBlocks[1] = PadFirst /\ PadBlocks[2] = LastOf(Zeros)
      BY <3>1
    <3>5. ASSUME NEW c \in 1 .. Len(PadBlocks)
          PROVE  (c = 1 /\ q + c - 1 = q) \/ (c = 2 /\ q + c - 1 = q + 1)
      BY <1>1, <3>4
    <3> QED BY <1>1, <3>2, <3>3, <3>4, <3>5
  <2> QED BY <1>1, <2>1, <2>2
<1>9. /\ all \in Seq(S) /\ Len(all) = total
      /\ \A b \in 1 .. total : all[b] = IF b <= q THEN hashed[b] ELSE PadBlocks[b - q]
  <2> HIDE DEF q, total
  <2>1. /\ all \in Seq(S) /\ Len(all) = Len(hashed) + Len(PadBlocks)
        /\ \A b \in 1 .. Len(hashed) + Len(PadBlocks) :
             all[b] = IF b <= Len(hashed) THEN hashed[b] ELSE PadBlocks[b - Len(hashed)]
    BY <1>4, <1>5, ConcatProperties
  <2>2. Len(hashed) + Len(PadBlocks) = total
    BY <1>0, <1>1, <1>2, <1>8
  <2> QED BY <1>2, <2>1, <2>2
<1> HIDE DEF all
<1>10. ASSUME NEW b \in 1 .. total PROVE all[b] = [k \in BlockIndex |-> Standard(64 * (b - 1) + k)]
  <2>1. all[b] \in S
    BY <1>9, ElementOfSeq
  <2>2. ASSUME NEW k \in BlockIndex PROVE all[b][k] = Standard(64 * (b - 1) + k)
    <3> HIDE DEF q, total
    <3>1. CASE b <= q
      <4>1. b \in 1 .. q
        BY <1>1, <3>1
      <4> QED BY <1>7, <1>9, <3>1, <4>1
    <3>2. CASE ~(b <= q)
      <4>1. b - q \in 1 .. Len(PadBlocks) /\ q + (b - q) - 1 = b - 1
        BY <1>0, <1>1, <1>8, <3>2
      <4>2. PadBlocks[b - q][k] = Standard(64 * (q + (b - q) - 1) + k)
        BY <1>8, <4>1
      <4> QED BY <1>9, <3>2, <4>1, <4>2
    <3> QED BY <3>1, <3>2
  <2>3. all[b] = [k \in BlockIndex |-> all[b][k]]
    BY <1>6, <2>1
  <2> QED BY <2>2, <2>3
<1>11. all = [b \in 1 .. total |-> all[b]]
  <2>1. all = [b \in 1 .. Len(all) |-> all[b]]
    BY <1>9, LenProperties
  <2> QED BY <1>9, <2>1
<1>12. all = [b \in 1 .. total |-> [k \in BlockIndex |-> Standard(64 * (b - 1) + k)]]
  <2> HIDE DEF total
  <2> QED BY <1>10, <1>11
<1> QED BY <1>12 DEF StandardBlocks, Standard, all

LEMMA ResultKeeps == ASSUME Sha1Inv, SHA1Result PROVE Sha1Inv'
<1>1. todo = 0 /\ UNCHANGED <<Corrupted, word, msg, offered, todo>>
  BY DEF SHA1Result
<1>2. ret' = [op |-> "result", code |-> Corrupted]
  BY DEF SHA1Result
<1>3. CASE Corrupted = 0 /\ Computed = 0
  <2>1. hashed' = hashed \o PadBlocks /\ Message_Block' = Zeros /\ Computed' = 1
    BY <1>3 DEF SHA1Result
  <2>2. Sha1Types /\ Reading /\ hashed \in Seq(Block)
    BY <1>3 DEF Sha1Inv
  <2>3. Sha1Types'
    BY <1>1, <2>1, <2>2, OctetTypes DEF Sha1Types
  <2>4. hashed' = StandardBlocks(msg, offered, Length_High, Length_Low)
    BY <1>1, <2>1, <2>2, PaddedIsStandard
  <2>5. /\ Length_High \in 0 .. word - 1 /\ Length_Low \in 0 .. word - 1
        /\ 8 * offered - Length_High * word = Length_Low
    <3>1. given = offered /\ offered \in Nat
      <4>1. offered \in Nat
        BY <2>2, LenProperties DEF Sha1Types
      <4> QED BY <1>1, <4>1 DEF given
    <3>2. Length_High \in 0 .. word - 1 /\ Length_Low \in 0 .. word - 1
      BY <2>2 DEF Reading
    <3>3. Length_High * word + Length_Low = 8 * offered /\ word \in Nat
      BY <2>2, <3>1 DEF Reading, Sha1Types
    <3> QED BY <3>1, <3>2, <3>3
  <2>6. Digested'
    BY <1>1, <2>4, <2>5 DEF Digested
  <2> QED BY <1>1, <1>3, <2>1, <2>3, <2>6 DEF Sha1Inv
<1>4. CASE ~(Corrupted = 0 /\ Computed = 0)
  <2>1. UNCHANGED <<Length_Low, Length_High, Message_Block_Index, Message_Block, Computed, hashed>>
    BY <1>4 DEF SHA1Result, lengths
  <2>2. Sha1Types' /\ (Digested => Digested') /\ Computed \in {0, 1}
    BY <1>1, <2>1 DEF Sha1Inv, Sha1Types, Digested
  <2>3. ret' = [op |-> "result", code |-> shaSuccess] => Corrupted = 0
    BY <1>2 DEF shaSuccess
  <2> QED BY <1>1, <1>4, <2>1, <2>2, <2>3 DEF Sha1Inv
<1> QED BY <1>3, <1>4
---------------------------------------------------------------------------
(* Whatever the messages, the cuts and the width of a word are, and whatever *)
(* the context was used for before: a digest that SHA1Result hands out is of *)
(* the bytes given since SHA1Reset, padded as the standard says.             *)
THEOREM DigestsStandard == Sha1Spec => []DigestStandard
<1>1. Sha1Init => Sha1Inv
  <2> SUFFICES ASSUME Sha1Init PROVE Sha1Inv
    OBVIOUS
  <2>1. word \in Nat /\ word > 0 /\ word % 8 = 0
    BY Sha1Assumption DEF Sha1Init, Sha1Assumption
  <2>2. msg \in Seq(Octet) /\ Message_Block \in Block
    BY EmptySeq, OctetTypes DEF Sha1Init
  <2>3. Fresh
    BY <2>1, <2>2 DEF Sha1Init, Fresh
  <2> QED BY <2>3, FreshHolds
<1>2. Sha1Inv /\ [Sha1Next]_sha1Vars => Sha1Inv'
  <2> SUFFICES ASSUME Sha1Inv, [Sha1Next]_sha1Vars PROVE Sha1Inv'
    OBVIOUS
  <2>1. CASE \E m \in Messages : SHA1Reset(m)
    BY <2>1, ResetKeeps, Sha1Assumption DEF Sha1Assumption
  <2>2. CASE \E n \in Cuts : SHA1Input(n)
    BY <2>2, InputKeeps, Sha1Assumption DEF Sha1Assumption
  <2>3. CASE SHA1Result
    BY <2>3, ResultKeeps
  <2>4. CASE InputByte
    BY <2>4, ByteKeeps
  <2>5. CASE InputStops
    BY <2>5, StopsKeeps
  <2>6. CASE UNCHANGED sha1Vars
    BY <2>6 DEF sha1Vars, lengths, Sha1Inv, Sha1Types, Reading, Digested, given
  <2> QED BY <2>1, <2>2, <2>3, <2>4, <2>5, <2>6 DEF Sha1Next, Sha1Call
<1>3. Sha1Inv => DigestStandard
  BY DEF Sha1Inv, Digested, DigestStandard
<1> QED BY <1>1, <1>2, <1>3, PTL DEF Sha1Spec
---------------------------------------------------------------------------
(* Functions defined by recursion on the naturals, and counting along them.  *)
LEMMA LeastOf ==
  ASSUME NEW T \in SUBSET Nat, T # {}
  PROVE  \E n \in T : \A m \in T : n <= m
<1>1. PICK n \in T : \A m \in T : <<m, n>> \notin OpToRel(<, Nat)
  BY NatLessThanWellFounded, WFMin, Zenon
<1>2. \A m \in T : ~(m < n)
  BY <1>1 DEF OpToRel
<1> QED BY <1>2

LEMMA Counting ==
  ASSUME NEW T, 0 \in T, \A n \in Nat : n \in T => n + 1 \in T
  PROVE  Nat \subseteq T
<1> SUFFICES ASSUME Nat \ T # {} PROVE FALSE
  OBVIOUS
<1>1. PICK n \in Nat \ T : \A m \in Nat \ T : n <= m
  BY LeastOf
<1>2. n # 0 /\ n - 1 \in Nat /\ (n - 1) + 1 = n /\ ~(n <= n - 1)
  BY <1>1
<1>3. n - 1 \in T
  BY <1>1, <1>2
<1> QED BY <1>1, <1>2, <1>3

(* A function on the naturals that is defined by recursion. *)
Recursion(f, S, s, step) ==
  f \in [Nat -> S] /\ f[0] = s /\ \A n \in Nat : f[n + 1] = step[<<n, f[n]>>]

LEMMA RecursionExists ==
  ASSUME NEW S, NEW s \in S, NEW step \in [Nat \X S -> S]
  PROVE  \E f : Recursion(f, S, s, step)
<1> DEFINE Upto(g, n) == g \in [0 .. n -> S] /\ g[0] = s /\ \A k \in 0 .. n - 1 : g[k + 1] = step[<<k, g[k]>>]
           T == {n \in Nat : \E g : Upto(g, n)}
<1>1. 0 \in T
  <2> DEFINE g == [k \in 0 .. 0 |-> s]
  <2>1. Upto(g, 0)
    OBVIOUS
  <2> QED BY <2>1
<1>2. ASSUME NEW n \in T PROVE n + 1 \in T
  <2>1. PICK g : Upto(g, n)
    OBVIOUS
  <2> DEFINE h == [k \in 0 .. n + 1 |-> IF k = n + 1 THEN step[<<n, g[n]>>] ELSE g[k]]
  <2>2. g[n] \in S /\ step[<<n, g[n]>>] \in S
    BY <2>1
  <2>3. h \in [0 .. n + 1 -> S]
    BY <2>1, <2>2
  <2>4. h[0] = s /\ h[n + 1] = step[<<n, g[n]>>] /\ \A k \in 0 .. n : h[k] = g[k]
    BY <2>1
  <2>5. \A k \in 0 .. n : h[k + 1] = step[<<k, h[k]>>]
    <3> SUFFICES ASSUME NEW k \in 0 .. n PROVE h[k + 1] = step[<<k, h[k]>>]
      OBVIOUS
    <3>1. CASE k = n
      BY <2>4, <3>1
    <3>2. CASE k # n
      <4>1. k \in 0 .. n - 1 /\ k + 1 \in 0 .. n
        BY <3>2
      <4>2. g[k + 1] = step[<<k, g[k]>>]
        BY <2>1, <4>1
      <4> QED BY <2>4, <4>1, <4>2
    <3> QED BY <3>1, <3>2
  <2>6. Upto(h, n + 1)
    <3> HIDE DEF h
    <3> QED BY <2>3, <2>4, <2>5
  <2> HIDE DEF Upto, h
  <2> QED BY <2>6
<1>3. \A n \in Nat : \E g : Upto(g, n)
  <2> HIDE DEF Upto
  <2>1. Nat \subseteq T
    <3> HIDE DEF T
    <3> QED BY <1>1, <1>2, Counting
  <2> QED BY <2>1
<1>4. ASSUME NEW g, NEW h, NEW m \in Nat, NEW n \in Nat, m <= n, Upto(g, m), Upto(h, n), NEW k \in 0 .. m
      PROVE  g[k] = h[k]
  <2> DEFINE U == {i \in Nat : i <= m => g[i] = h[i]}
  <2>1. 0 \in U
    BY <1>4
  <2>2. ASSUME NEW i \in Nat, i \in U PROVE i + 1 \in U
    <3> SUFFICES ASSUME i + 1 <= m PROVE g[i + 1] = h[i + 1]
      OBVIOUS
    <3>1. i \in 0 .. m - 1 /\ i \in 0 .. n - 1 /\ g[i] = h[i]
      BY <1>4, <2>2
    <3> QED BY <1>4, <3>1
  <2>3. Nat \subseteq U
    <3> HIDE DEF U
    <3> QED BY <2>1, <2>2, Counting
  <2> QED BY <2>3
<1> DEFINE G(n) == CHOOSE g : Upto(g, n)
           f == [n \in Nat |-> G(n)[n]]
<1>5. \A n \in Nat : Upto(G(n), n)
  <2> HIDE DEF Upto
  <2> QED BY <1>3
<1>6. f \in [Nat -> S] /\ f[0] = s
  <2>1. \A n \in Nat : G(n)[n] \in S
    <3> HIDE DEF G
    <3> QED BY <1>5
  <2>2. G(0)[0] = s
    <3>1. Upto(G(0), 0)
      <4> HIDE DEF Upto, G
      <4> QED BY <1>5
    <3> HIDE DEF G
    <3> QED BY <3>1
  <2> HIDE DEF G
  <2> QED BY <2>1, <2>2
<1>7. ASSUME NEW n \in Nat PROVE f[n + 1] = step[<<n, f[n]>>]
  <2>1. Upto(G(n), n) /\ Upto(G(n + 1), n + 1)
    <3> HIDE DEF Upto, G
    <3> QED BY <1>5
  <2>2. G(n)[n] = G(n + 1)[n]
    <3> HIDE DEF Upto, G
    <3>1. n \in 0 .. n /\ n + 1 \in Nat /\ n <= n + 1
      OBVIOUS
    <3> QED BY <1>4, <2>1, <3>1
  <2>3. G(n + 1)[n + 1] = step[<<n, G(n + 1)[n]>>]
    <3> HIDE DEF G
    <3>1. n \in 0 .. (n + 1) - 1
      OBVIOUS
    <3> QED BY <2>1, <3>1
  <2> HIDE DEF G
  <2> QED BY <2>2, <2>3
<1> HIDE DEF f
<1> QED BY <1>6, <1>7 DEF Recursion
---------------------------------------------------------------------------
(* Words as pairs of numbers, the registers, and the words of a hash. *)
Word == Int \X Int
Registers == {r \in Seq(Word) : Len(r) = 5}
HalfWord == 0 .. Half - 1
Hash == {h \in Seq(HalfWord \X HalfWord) : Len(h) = 5}

LEMMA BitsTypes ==
  ASSUME NEW op, \A n \in 0 .. 2 : op[n] \in Int, NEW x \in Word, NEW y \in Word
  PROVE  BitByBit(op, x, y) \in Word
<1>1. ASSUME NEW a \in Int, NEW b \in Int PROVE Bits2(op, a, b) \in Int
  <2>1. (a % 2) + (b % 2) \in 0 .. 2 /\ ((a \div 2) % 2) + ((b \div 2) % 2) \in 0 .. 2
    OBVIOUS
  <2>2. op[(a % 2) + (b % 2)] \in Int /\ op[((a \div 2) % 2) + ((b \div 2) % 2)] \in Int
    BY <2>1
  <2> QED BY <2>2 DEF Bits2
<1>2. ASSUME NEW a \in Int, NEW b \in Int PROVE Bits4(op, a, b) \in Int
  <2> DEFINE u == a \div 4  v == b \div 4
  <2>1. u \in Int /\ v \in Int
    OBVIOUS
  <2> HIDE DEF u, v
  <2>2. Bits2(op, a, b) \in Int /\ Bits2(op, u, v) \in Int
    BY <1>1, <2>1
  <2> QED BY <2>2 DEF Bits4, u, v
<1>3. ASSUME NEW a \in Int, NEW b \in Int PROVE Bits8(op, a, b) \in Int
  <2> DEFINE u == a \div 16  v == b \div 16
  <2>1. u \in Int /\ v \in Int
    OBVIOUS
  <2> HIDE DEF u, v
  <2>2. Bits4(op, a, b) \in Int /\ Bits4(op, u, v) \in Int
    BY <1>2, <2>1
  <2> QED BY <2>2 DEF Bits8, u, v
<1>4. ASSUME NEW a \in Int, NEW b \in Int PROVE Bits16(op, a, b) \in Int
  <2> DEFINE u == a \div 256  v == b \div 256
  <2>1. u \in Int /\ v \in Int
    OBVIOUS
  <2> HIDE DEF u, v
  <2>2. Bits8(op, a, b) \in Int /\ Bits8(op, u, v) \in Int
    BY <1>3, <2>1
  <2> QED BY <2>2 DEF Bits16, u, v
<1>5. x[1] \in Int /\ x[2] \in Int /\ y[1] \in Int /\ y[2] \in Int
  BY DEF Word
<1>6. Bits16(op, x[1], y[1]) \in Int /\ Bits16(op, x[2], y[2]) \in Int
  BY <1>4, <1>5
<1> QED BY <1>6 DEF BitByBit, Word

LEMMA HalfMod == \A i \in Int : i % Half \in HalfWord
<1>1. \A i \in Int : \A m \in Nat \ {0} : i % m \in 0 .. m - 1
  OBVIOUS
<1>2. Half \in Nat \ {0}
  BY DEF Half
<1> QED BY <1>1, <1>2 DEF HalfWord

LEMMA WordTypes ==
  ASSUME NEW x \in Word, NEW y \in Word
  PROVE  /\ XorW(x, y) \in Word /\ AndW(x, y) \in Word /\ OrW(x, y) \in Word /\ NotW(x) \in Word
         /\ Plus(x, y) \in HalfWord \X HalfWord /\ Plus(x, y) \in Word
         /\ SHA1CircularShift(1, x) \in Word /\ SHA1CircularShift(5, x) \in Word
         /\ SHA1CircularShift(30, x) \in Word
<1>1. XorW(x, y) \in Word
  <2> DEFINE op == [n \in 0 .. 2 |-> n % 2]
  <2>1. \A n \in 0 .. 2 : op[n] \in Int
    OBVIOUS
  <2> HIDE DEF op
  <2>2. BitByBit(op, x, y) \in Word
    BY <2>1, BitsTypes
  <2> QED BY <2>2 DEF XorW, op
<1>2. AndW(x, y) \in Word
  <2> DEFINE op == [n \in 0 .. 2 |-> n \div 2]
  <2>1. \A n \in 0 .. 2 : op[n] \in Int
    OBVIOUS
  <2> HIDE DEF op
  <2>2. BitByBit(op, x, y) \in Word
    BY <2>1, BitsTypes
  <2> QED BY <2>2 DEF AndW, op
<1>3. OrW(x, y) \in Word
  <2> DEFINE op == [n \in 0 .. 2 |-> (n + 1) \div 2]
  <2>1. \A n \in 0 .. 2 : op[n] \in Int
    OBVIOUS
  <2> HIDE DEF op
  <2>2. BitByBit(op, x, y) \in Word
    BY <2>1, BitsTypes
  <2> QED BY <2>2 DEF OrW, op
<1>4. x[1] \in Int /\ x[2] \in Int /\ y[1] \in Int /\ y[2] \in Int
  BY DEF Word
<1>5. NotW(x) \in Word
  BY <1>4 DEF NotW, Half, Word
<1>6. Plus(x, y) \in HalfWord \X HalfWord /\ Plus(x, y) \in Word
  <2> DEFINE low == x[2] + y[2]  m == x[1] + y[1] + (low \div Half)
  <2>1. Plus(x, y) = <<m % Half, low % Half>>
    BY Zenon DEF Plus
  <2>2. m \in Int /\ low \in Int
    BY <1>4 DEF Half
  <2> HIDE DEF m, low
  <2>3. m % Half \in HalfWord /\ low % Half \in HalfWord
    BY <2>2, HalfMod
  <2>4. HalfWord \subseteq Int
    BY DEF HalfWord, Half
  <2>5. \A h, l \in HalfWord : <<h, l>> \in HalfWord \X HalfWord /\ <<h, l>> \in Word
    BY <2>4 DEF Word
  <2> DEFINE h == m % Half  l == low % Half
  <2> HIDE DEF h, l
  <2>6. h \in HalfWord /\ l \in HalfWord /\ Plus(x, y) = <<h, l>>
    BY <2>1, <2>3 DEF h, l
  <2> QED BY <2>5, <2>6
<1>7. ASSUME NEW a \in Int, NEW b \in Int
      PROVE  ShiftHalf(1, a, b) \in Int /\ ShiftHalf(5, a, b) \in Int /\ ShiftHalf(14, a, b) \in Int
  <2>1. /\ ShiftHalf(1, a, b) = ((a * 2) % 65536) + (b \div 32768)
        /\ ShiftHalf(5, a, b) = ((a * 32) % 65536) + (b \div 2048)
        /\ ShiftHalf(14, a, b) = ((a * 16384) % 65536) + (b \div 4)
    BY DEF ShiftHalf, Half
  <2> QED BY <2>1
<1>8. SHA1CircularShift(1, x) \in Word /\ SHA1CircularShift(5, x) \in Word
  BY <1>4, <1>7 DEF SHA1CircularShift, Word
<1>9. SHA1CircularShift(30, x) \in Word
  <2>1. SHA1CircularShift(30, x) = <<ShiftHalf(14, x[2], x[1]), ShiftHalf(14, x[1], x[2])>>
    BY DEF SHA1CircularShift
  <2> QED BY <1>4, <1>7, <2>1 DEF Word
<1> QED BY <1>1, <1>2, <1>3, <1>5, <1>6, <1>8, <1>9
---------------------------------------------------------------------------
LEMMA RoundTypes ==
  ASSUME NEW t \in Nat
  PROVE  /\ K(t) \in Word
         /\ \A b, c, d \in Word : F(t, b, c, d) \in Word
<1>1. K(t) \in Word
  BY DEF K, Word
<1>2. ASSUME NEW b \in Word, NEW c \in Word, NEW d \in Word PROVE F(t, b, c, d) \in Word
  <2>1. \A x, y \in Word : XorW(x, y) \in Word /\ AndW(x, y) \in Word /\ OrW(x, y) \in Word /\ NotW(x) \in Word
    BY WordTypes
  <2>2. OrW(AndW(b, c), AndW(NotW(b), d)) \in Word
    <3>1. AndW(b, c) \in Word /\ NotW(b) \in Word
      BY <2>1
    <3>2. AndW(NotW(b), d) \in Word
      BY <2>1, <3>1
    <3> QED BY <2>1, <3>1, <3>2
  <2>3. OrW(OrW(AndW(b, c), AndW(b, d)), AndW(c, d)) \in Word
    <3>1. AndW(b, c) \in Word /\ AndW(b, d) \in Word /\ AndW(c, d) \in Word
      BY <2>1
    <3>2. OrW(AndW(b, c), AndW(b, d)) \in Word
      BY <2>1, <3>1
    <3> QED BY <2>1, <3>1, <3>2
  <2>4. XorW(XorW(b, c), d) \in Word
    <3>1. XorW(b, c) \in Word
      BY <2>1
    <3> QED BY <2>1, <3>1
  <2> QED BY <2>2, <2>3, <2>4, Zenon DEF F
<1> QED BY <1>1, <1>2

LEMMA ASequence ==
  ASSUME NEW S, NEW n \in Nat, NEW f \in [1 .. n -> S]
  PROVE  f \in Seq(S) /\ Len(f) = n
<1>1. f \in Seq(S)
  BY SeqDef
<1>2. DOMAIN f = 1 .. Len(f) /\ DOMAIN f = 1 .. n /\ Len(f) \in Nat
  BY <1>1, LenProperties
<1> QED BY <1>1, <1>2

LEMMA FiveWords ==
  ASSUME NEW h \in Registers
  PROVE  h \in Seq(Word) /\ Len(h) = 5 /\ \A v \in 1 .. 5 : h[v] \in Word
<1>1. h \in Seq(Word) /\ Len(h) = 5
  BY Zenon DEF Registers
<1>2. \A v \in 1 .. Len(h) : h[v] \in Word
  BY <1>1, ElementOfSeq
<1> QED BY <1>1, <1>2

LEMMA HashTypes == H0 \in Hash /\ Hash \subseteq Registers
<1>1. Hash \subseteq Registers
  <2>1. HalfWord \subseteq Int
    BY DEF HalfWord, Half
  <2>2. HalfWord \X HalfWord \subseteq Word
    BY <2>1 DEF Word
  <2> SUFFICES ASSUME NEW h \in Hash PROVE h \in Registers
    OBVIOUS
  <2>3. h \in Seq(HalfWord \X HalfWord) /\ Len(h) = 5
    BY Zenon DEF Hash
  <2>4. h \in Seq(Word)
    BY <2>2, <2>3, SeqMonotonic
  <2> QED BY <2>3, <2>4 DEF Registers
<1>2. /\ 26437 \in HalfWord /\ 8961 \in HalfWord /\ 61389 \in HalfWord /\ 43913 \in HalfWord
      /\ 39098 \in HalfWord /\ 56574 \in HalfWord /\ 4146 \in HalfWord /\ 21622 \in HalfWord
      /\ 50130 \in HalfWord /\ 57840 \in HalfWord
  BY DEF HalfWord, Half
<1>3. H0 \in Seq(HalfWord \X HalfWord) /\ Len(H0) = 5
  <2>1. /\ <<26437, 8961>> \in HalfWord \X HalfWord /\ <<61389, 43913>> \in HalfWord \X HalfWord
        /\ <<39098, 56574>> \in HalfWord \X HalfWord /\ <<4146, 21622>> \in HalfWord \X HalfWord
        /\ <<50130, 57840>> \in HalfWord \X HalfWord
    BY <1>2
  <2> QED BY <2>1 DEF H0
<1> QED BY <1>1, <1>3 DEF Hash

LEMMA TurnedTypes ==
  ASSUME NEW t \in Nat, NEW r \in Registers, NEW x \in Word
  PROVE  Turned(t, r, x) \in Registers
<1>1. r[1] \in Word /\ r[2] \in Word /\ r[3] \in Word /\ r[4] \in Word /\ r[5] \in Word
  BY FiveWords
<1>2. \A a, b \in Word : Plus(a, b) \in Word /\ SHA1CircularShift(5, a) \in Word /\ SHA1CircularShift(30, a) \in Word
  BY WordTypes
<1> DEFINE sum == Plus(Plus(SHA1CircularShift(5, r[1]), F(t, r[2], r[3], r[4])), Plus(Plus(r[5], x), K(t)))
           five == <<sum, r[1], SHA1CircularShift(30, r[2]), r[3], r[4]>>
<1>3. sum \in Word
  <2> DEFINE f == F(t, r[2], r[3], r[4])  k == K(t)  s == SHA1CircularShift(5, r[1])  u == Plus(r[5], x)
  <2>1. f \in Word /\ k \in Word /\ s \in Word /\ u \in Word
    BY <1>1, <1>2, RoundTypes
  <2> HIDE DEF f, k, s, u
  <2>2. Plus(s, f) \in Word /\ Plus(u, k) \in Word
    BY <1>2, <2>1
  <2>3. Plus(Plus(s, f), Plus(u, k)) \in Word
    BY <1>2, <2>2
  <2> QED BY <2>3 DEF f, k, s, u
<1>4. Turned(t, r, x) = five
  BY Zenon DEF Turned
<1>5. SHA1CircularShift(30, r[2]) \in Word
  BY <1>1, <1>2
<1> HIDE DEF sum
<1> DEFINE y == SHA1CircularShift(30, r[2])
<1>6. y \in Word /\ five = <<sum, r[1], y, r[3], r[4]>>
  BY <1>5
<1> HIDE DEF y, five
<1>7. five \in Registers
  BY <1>1, <1>3, <1>6 DEF Registers
<1> QED BY <1>4, <1>7

LEMMA NextWordTypes ==
  ASSUME NEW w \in Seq(Word), Len(w) >= 16
  PROVE  NextWord(w) \in Word
<1>1. \A k \in 1 .. Len(w) : w[k] \in Word
  OBVIOUS
<1> DEFINE a == w[(Len(w) + 1) - 3]  b == w[(Len(w) + 1) - 8]
           c == w[(Len(w) + 1) - 14]  d == w[(Len(w) + 1) - 16]
<1>2. a \in Word /\ b \in Word /\ c \in Word /\ d \in Word
  <2>1. Len(w) \in Nat
    OBVIOUS
  <2> QED BY <1>1, <2>1
<1>3. NextWord(w) = SHA1CircularShift(1, XorW(XorW(a, b), XorW(c, d)))
  BY Zenon DEF NextWord
<1> HIDE DEF a, b, c, d
<1>4. XorW(a, b) \in Word /\ XorW(c, d) \in Word
  BY <1>2, WordTypes
<1>5. XorW(XorW(a, b), XorW(c, d)) \in Word
  BY <1>4, WordTypes
<1> QED BY <1>3, <1>5, WordTypes

LEMMA FirstWordsTypes ==
  ASSUME NEW b \in Block
  PROVE  FirstWords(b) \in Seq(Word) /\ Len(FirstWords(b)) = 16
<1>1. ASSUME NEW k \in 1 .. 16 PROVE WordAt(b, (k - 1) * 4) \in Word
  <2> DEFINE j == (k - 1) * 4
  <2>1. j \in BlockIndex /\ j + 1 \in BlockIndex /\ j + 2 \in BlockIndex /\ j + 3 \in BlockIndex
    BY DEF BlockIndex
  <2> HIDE DEF j
  <2>2. b[j] \in Int /\ b[j + 1] \in Int /\ b[j + 2] \in Int /\ b[j + 3] \in Int
    BY <2>1 DEF Block, Octet
  <2> QED BY <2>2 DEF WordAt, Word, j
<1> DEFINE f == [k \in 1 .. 16 |-> WordAt(b, (k - 1) * 4)]
<1>2. f \in [1 .. 16 -> Word]
  BY <1>1
<1>3. FirstWords(b) = f
  BY DEF FirstWords
<1> HIDE DEF f
<1> QED BY <1>2, <1>3, ASequence

LEMMA AddedTypes ==
  ASSUME NEW h \in Hash, NEW r \in Registers
  PROVE  Added(h, r) \in Hash
<1>1. \A v \in 1 .. 5 : h[v] \in Word /\ r[v] \in Word
  BY HashTypes, FiveWords
<1> DEFINE f == [v \in 1 .. 5 |-> Plus(h[v], r[v])]
<1>2. f \in [1 .. 5 -> HalfWord \X HalfWord]
  BY <1>1, WordTypes
<1>3. Added(h, r) = f
  BY DEF Added
<1> HIDE DEF f
<1>4. f \in Seq(HalfWord \X HalfWord) /\ Len(f) = 5
  BY <1>2, ASequence
<1>5. f \in Hash
  BY <1>4 DEF Hash
<1> QED BY <1>3, <1>5

---------------------------------------------------------------------------
(* The recursive definitions of the standard, unfolded. *)
LongWords == {v \in Seq(Word) : Len(v) >= 16}

LEMMA LongWordsTypes ==
  ASSUME NEW v \in LongWords
  PROVE  /\ v \in Seq(Word) /\ Len(v) \in Nat /\ Len(v) >= 16 /\ NextWord(v) \in Word
         /\ Append(v, NextWord(v)) \in LongWords
         /\ Len(Append(v, NextWord(v))) = Len(v) + 1
<1>1. v \in Seq(Word) /\ Len(v) >= 16
  BY Zenon DEF LongWords
<1>2. NextWord(v) \in Word /\ Len(v) \in Nat
  BY <1>1, NextWordTypes, LenProperties
<1> DEFINE x == NextWord(v)
<1> HIDE DEF x
<1>3. Append(v, x) \in Seq(Word) /\ Len(Append(v, x)) = Len(v) + 1
  BY <1>1, <1>2, AppendProperties DEF x
<1>4. Append(v, x) \in LongWords
  BY <1>1, <1>2, <1>3 DEF LongWords
<1> QED BY <1>1, <1>2, <1>3, <1>4 DEF x

LEMMA WordsUnfold ==
  ASSUME NEW b \in Block
  PROVE  /\ Words(b, 0) = FirstWords(b)
         /\ \A n \in Nat : Words(b, n) \in LongWords /\ Len(Words(b, n)) = 16 + n
         /\ \A n \in Nat : Words(b, n + 1) = Append(Words(b, n), NextWord(Words(b, n)))
<1> DEFINE Recurs(f) == f = [k \in Nat |-> IF k = 0 THEN FirstWords(b)
                                           ELSE LET v == f[k - 1] IN Append(v, NextWord(v))]
           step == [p \in Nat \X LongWords |-> Append(p[2], NextWord(p[2]))]
           w == CHOOSE f : Recurs(f)
<1>1. FirstWords(b) \in LongWords /\ Len(FirstWords(b)) = 16
  <2>1. FirstWords(b) \in Seq(Word) /\ Len(FirstWords(b)) = 16
    BY FirstWordsTypes
  <2>2. Len(FirstWords(b)) >= 16
    BY <2>1
  <2> QED BY <2>1, <2>2, Zenon DEF LongWords
<1>2. step \in [Nat \X LongWords -> LongWords]
  BY LongWordsTypes
<1>3. PICK f \in [Nat -> LongWords] : f[0] = FirstWords(b) /\ \A n \in Nat : f[n + 1] = step[<<n, f[n]>>]
  <2> HIDE DEF step
  <2>1. \E f : Recursion(f, LongWords, FirstWords(b), step)
    BY <1>1, <1>2, RecursionExists
  <2> QED BY <2>1 DEF Recursion
<1>4. \A n \in Nat : f[n + 1] = Append(f[n], NextWord(f[n]))
  BY <1>3
<1>5. Recurs(f)
  <2>1. ASSUME NEW k \in Nat
        PROVE  f[k] = IF k = 0 THEN FirstWords(b) ELSE LET v == f[k - 1] IN Append(v, NextWord(v))
    <3>1. CASE k = 0
      BY <1>3, <3>1
    <3>2. CASE k # 0
      <4>1. k - 1 \in Nat /\ (k - 1) + 1 = k
        BY <3>2
      <4>2. f[(k - 1) + 1] = Append(f[k - 1], NextWord(f[k - 1]))
        BY <1>4, <4>1
      <4> QED BY <3>2, <4>1, <4>2
    <3> QED BY <3>1, <3>2
  <2> QED BY <1>3, <2>1
<1>6. Recurs(w)
  <2> HIDE DEF Recurs
  <2> QED BY <1>5
<1>7. \A n : Words(b, n) = w[n]
  BY Zenon DEF Words
<1>8. w[0] = FirstWords(b) /\ \A n \in Nat : w[n + 1] = Append(w[n], NextWord(w[n]))
  <2>1. \A k \in Nat : w[k] = IF k = 0 THEN FirstWords(b) ELSE Append(w[k - 1], NextWord(w[k - 1]))
    <3> HIDE DEF w
    <3> QED BY <1>6
  <2> HIDE DEF w
  <2>2. ASSUME NEW n \in Nat PROVE w[n + 1] = Append(w[n], NextWord(w[n]))
    <3>1. n + 1 \in Nat /\ n + 1 # 0 /\ (n + 1) - 1 = n
      OBVIOUS
    <3>2. w[n + 1] = Append(w[(n + 1) - 1], NextWord(w[(n + 1) - 1]))
      BY <2>1, <3>1
    <3> QED BY <3>1, <3>2
  <2> QED BY <2>1, <2>2
<1> HIDE DEF w
<1> DEFINE T == {n \in Nat : w[n] \in LongWords /\ Len(w[n]) = 16 + n}
<1>9. 0 \in T
  BY <1>1, <1>8
<1>10. ASSUME NEW n \in Nat, n \in T PROVE n + 1 \in T
  <2>1. w[n] \in LongWords /\ Len(w[n]) = 16 + n
    BY <1>10
  <2>2. w[n + 1] \in LongWords /\ Len(w[n + 1]) = Len(w[n]) + 1
    BY <1>8, <2>1, LongWordsTypes
  <2> QED BY <2>1, <2>2
<1>11. Nat \subseteq T
  <2> HIDE DEF T
  <2> QED BY <1>9, <1>10, Counting
<1> QED BY <1>7, <1>8, <1>11

RecursionTo(f, N, S, s, step) ==
  f \in [0 .. N -> S] /\ f[0] = s /\ \A n \in 0 .. N - 1 : f[n + 1] = step[<<n, f[n]>>]

LEMMA RecursionToExists ==
  ASSUME NEW S, NEW s \in S, NEW N \in Nat, NEW step \in [(0 .. N - 1) \X S -> S]
  PROVE  \E f : RecursionTo(f, N, S, s, step)
<1> DEFINE all == [p \in Nat \X S |-> IF p[1] < N THEN step[p] ELSE p[2]]
<1>1. all \in [Nat \X S -> S]
  <2> SUFFICES ASSUME NEW n \in Nat, NEW x \in S, n < N PROVE step[<<n, x>>] \in S
    OBVIOUS
  <2> QED OBVIOUS
<1>2. ASSUME NEW n \in 0 .. N - 1, NEW x \in S PROVE all[<<n, x>>] = step[<<n, x>>]
  OBVIOUS
<1> HIDE DEF all
<1>3. PICK g \in [Nat -> S] : g[0] = s /\ \A n \in Nat : g[n + 1] = all[<<n, g[n]>>]
  <2>1. \E g : Recursion(g, S, s, all)
    BY <1>1, RecursionExists
  <2> QED BY <2>1 DEF Recursion
<1> DEFINE f == [n \in 0 .. N |-> g[n]]
<1>4. f \in [0 .. N -> S] /\ f[0] = s
  BY <1>3
<1>5. ASSUME NEW n \in 0 .. N - 1 PROVE f[n + 1] = step[<<n, f[n]>>]
  <2>1. n \in Nat /\ n \in 0 .. N /\ n + 1 \in 0 .. N /\ g[n] \in S
    BY <1>3
  <2>2. f[n + 1] = g[n + 1] /\ f[n] = g[n]
    BY <2>1
  <2> HIDE DEF f
  <2> QED BY <1>2, <1>3, <2>1, <2>2
<1> HIDE DEF f
<1> QED BY <1>4, <1>5 DEF RecursionTo

LEMMA CountingTo ==
  ASSUME NEW N \in Nat, NEW T, 0 \in T, \A n \in 0 .. N - 1 : n \in T => n + 1 \in T
  PROVE  0 .. N \subseteq T
<1> DEFINE U == {n \in Nat : n <= N => n \in T}
<1>1. 0 \in U
  OBVIOUS
<1>2. ASSUME NEW n \in Nat, n \in U PROVE n + 1 \in U
  <2> SUFFICES ASSUME n + 1 <= N PROVE n + 1 \in T
    OBVIOUS
  <2>1. n \in 0 .. N - 1 /\ n \in T
    BY <1>2
  <2> QED BY <2>1
<1>3. Nat \subseteq U
  <2> HIDE DEF U
  <2> QED BY <1>1, <1>2, Counting
<1> QED BY <1>3

LEMMA RoundsUnfold ==
  ASSUME NEW h \in Registers, NEW w \in Seq(Word)
  PROVE  /\ Rounds(h, w, 0) = <<h>>
         /\ \A n \in 0 .. Len(w) : Rounds(h, w, n) \in Seq(Registers) /\ Len(Rounds(h, w, n)) = n + 1
         /\ \A n \in 0 .. Len(w) - 1 :
              Rounds(h, w, n + 1) = Append(Rounds(h, w, n), Turned(n, Rounds(h, w, n)[n + 1], w[n + 1]))
<1> DEFINE N == Len(w)  S == Seq(Registers)
           Recurs(f) == f = [k \in 0 .. N |-> IF k = 0 THEN <<h>>
                               ELSE LET q == f[k - 1] IN Append(q, Turned(k - 1, q[k], w[k]))]
           step == [p \in (0 .. N - 1) \X S |->
                      IF Len(p[2]) = p[1] + 1
                      THEN Append(p[2], Turned(p[1], p[2][p[1] + 1], w[p[1] + 1])) ELSE p[2]]
           r == CHOOSE f : Recurs(f)
<1>1. N \in Nat /\ \A k \in 1 .. N : w[k] \in Word
  BY LenProperties, ElementOfSeq
<1>2. <<h>> \in S /\ Len(<<h>>) = 1
  OBVIOUS
<1>3. ASSUME NEW n \in 0 .. N - 1, NEW q \in S, Len(q) = n + 1
      PROVE  /\ Append(q, Turned(n, q[n + 1], w[n + 1])) \in S
             /\ Len(Append(q, Turned(n, q[n + 1], w[n + 1]))) = n + 2
  <2> DEFINE x == Turned(n, q[n + 1], w[n + 1])
  <2>1. n \in Nat /\ n + 1 \in 1 .. N /\ n + 1 \in 1 .. Len(q)
    BY <1>1, <1>3
  <2>2. q[n + 1] \in Registers
    BY <2>1, ElementOfSeq
  <2>3. x \in Registers
    BY <1>1, <2>1, <2>2, TurnedTypes
  <2> HIDE DEF x
  <2>4. Append(q, x) \in S /\ Len(Append(q, x)) = Len(q) + 1
    BY <2>3, AppendProperties
  <2> QED BY <1>3, <2>1, <2>4 DEF x
<1> HIDE DEF N
<1>4. step \in [(0 .. N - 1) \X S -> S]
  <2>1. ASSUME NEW p \in (0 .. N - 1) \X S
        PROVE  (IF Len(p[2]) = p[1] + 1
                THEN Append(p[2], Turned(p[1], p[2][p[1] + 1], w[p[1] + 1])) ELSE p[2]) \in S
    <3>1. p[1] \in 0 .. N - 1 /\ p[2] \in S
      BY <2>1
    <3> QED BY <1>3, <3>1
  <2> HIDE DEF S
  <2> QED BY <2>1
<1>5. PICK f \in [0 .. N -> S] : f[0] = <<h>> /\ \A n \in 0 .. N - 1 : f[n + 1] = step[<<n, f[n]>>]
  <2> HIDE DEF step, S
  <2>1. \E f : RecursionTo(f, N, S, <<h>>, step)
    BY <1>1, <1>2, <1>4, RecursionToExists
  <2> QED BY <2>1 DEF RecursionTo
<1>6. \A n \in 0 .. N : Len(f[n]) = n + 1
  <2> DEFINE T == {n \in 0 .. N : Len(f[n]) = n + 1}
  <2>1. 0 \in T
    <3>1. 0 \in 0 .. N /\ f[0] = <<h>> /\ Len(<<h>>) = 0 + 1
      BY <1>1, <1>2, <1>5
    <3> QED BY <3>1
  <2>2. ASSUME NEW n \in 0 .. N - 1, n \in T PROVE n + 1 \in T
    <3>1. n \in 0 .. N /\ n + 1 \in 0 .. N /\ Len(f[n]) = n + 1 /\ f[n] \in S
      BY <1>1, <1>5, <2>2
    <3> DEFINE q == f[n]
    <3>2. q \in S /\ Len(q) = n + 1
      BY <3>1
    <3> HIDE DEF q, S
    <3>3. step[<<n, q>>] = Append(q, Turned(n, q[n + 1], w[n + 1]))
      BY <3>2
    <3> HIDE DEF step
    <3>4. f[n + 1] = Append(q, Turned(n, q[n + 1], w[n + 1]))
      BY <1>5, <3>3 DEF q
    <3>5. Len(f[n + 1]) = n + 2
      BY <1>3, <3>2, <3>4
    <3> QED BY <3>1, <3>5
  <2> HIDE DEF T
  <2>3. 0 .. N \subseteq T
    BY <1>1, <2>1, <2>2, CountingTo
  <2> QED BY <2>3 DEF T
<1>7. \A n \in 0 .. N - 1 : f[n + 1] = Append(f[n], Turned(n, f[n][n + 1], w[n + 1]))
  <2> SUFFICES ASSUME NEW n \in 0 .. N - 1 PROVE f[n + 1] = Append(f[n], Turned(n, f[n][n + 1], w[n + 1]))
    OBVIOUS
  <2> DEFINE q == f[n]
  <2>1. n \in 0 .. N
    BY <1>1
  <2>2. q \in S /\ Len(q) = n + 1
    BY <1>5, <1>6, <2>1
  <2> HIDE DEF q, S
  <2>3. step[<<n, q>>] = Append(q, Turned(n, q[n + 1], w[n + 1]))
    BY <2>2
  <2> HIDE DEF step
  <2> QED BY <1>5, <2>3 DEF q
<1> HIDE DEF S, step
<1>8. Recurs(f)
  <2>1. ASSUME NEW k \in 0 .. N
        PROVE  f[k] = IF k = 0 THEN <<h>> ELSE LET q == f[k - 1] IN Append(q, Turned(k - 1, q[k], w[k]))
    <3>1. CASE k = 0
      BY <1>5, <3>1
    <3>2. CASE k # 0
      <4>1. k - 1 \in 0 .. N - 1 /\ (k - 1) + 1 = k
        BY <1>1, <3>2
      <4>2. f[(k - 1) + 1] = Append(f[k - 1], Turned(k - 1, f[k - 1][(k - 1) + 1], w[(k - 1) + 1]))
        BY <1>7, <4>1
      <4> QED BY <3>2, <4>1, <4>2
    <3> QED BY <3>1, <3>2
  <2> QED BY <1>5, <2>1
<1>9. Recurs(r)
  <2> HIDE DEF Recurs
  <2> QED BY <1>8
<1>10. \A n : Rounds(h, w, n) = r[n]
  BY Zenon DEF Rounds, N
<1>11. r[0] = <<h>> /\ \A n \in 0 .. N - 1 : r[n + 1] = Append(r[n], Turned(n, r[n][n + 1], w[n + 1]))
  <2>1. \A k \in 0 .. N : r[k] = IF k = 0 THEN <<h>> ELSE Append(r[k - 1], Turned(k - 1, r[k - 1][k], w[k]))
    <3> HIDE DEF r
    <3> QED BY <1>9
  <2> HIDE DEF r, Recurs
  <2>2. ASSUME NEW n \in 0 .. N - 1 PROVE r[n + 1] = Append(r[n], Turned(n, r[n][n + 1], w[n + 1]))
    <3>1. n + 1 \in 0 .. N /\ n + 1 # 0 /\ (n + 1) - 1 = n
      BY <1>1
    <3>2. r[n + 1] = Append(r[(n + 1) - 1], Turned((n + 1) - 1, r[(n + 1) - 1][n + 1], w[n + 1]))
      BY <2>1, <3>1
    <3> QED BY <3>1, <3>2
  <2>3. 0 \in 0 .. N
    BY <1>1
  <2> QED BY <2>1, <2>2, <2>3
<1> HIDE DEF r, Recurs
<1> DEFINE T == {n \in 0 .. N : r[n] \in S /\ Len(r[n]) = n + 1}
<1>12. 0 \in T
  BY <1>1, <1>2, <1>11
<1>13. ASSUME NEW n \in 0 .. N - 1, n \in T PROVE n + 1 \in T
  <2>1. r[n] \in S /\ Len(r[n]) = n + 1
    BY <1>13
  <2>2. r[n + 1] \in S /\ Len(r[n + 1]) = n + 2
    BY <1>3, <1>11, <2>1
  <2>3. n + 1 \in 0 .. N /\ n + 2 = (n + 1) + 1
    BY <1>1
  <2> QED BY <2>2, <2>3
<1>14. 0 .. N \subseteq T
  <2> HIDE DEF T
  <2> QED BY <1>1, <1>12, <1>13, CountingTo
<1> QED BY <1>10, <1>11, <1>14 DEF N, S

(* What one block makes of a hash. *)
LEMMA BlockMixed ==
  ASSUME NEW g \in Hash, NEW b \in Block
  PROVE  /\ Words(b, 64) \in Seq(Word) /\ Len(Words(b, 64)) = 80
         /\ Rounds(g, Words(b, 64), 80)[81] \in Registers
         /\ Added(g, Rounds(g, Words(b, 64), 80)[81]) \in Hash
<1> DEFINE w == Words(b, 64)  q == Rounds(g, w, 80)
<1>1. w \in Seq(Word) /\ Len(w) = 80
  <2>1. w \in LongWords /\ Len(w) = 16 + 64
    <3>1. 64 \in Nat
      OBVIOUS
    <3> QED BY <3>1, WordsUnfold
  <2> HIDE DEF w
  <2> QED BY <2>1, LongWordsTypes
<1> HIDE DEF w
<1>2. q \in Seq(Registers) /\ Len(q) = 81
  <2>1. g \in Registers /\ 80 \in 0 .. Len(w)
    BY <1>1, HashTypes
  <2>2. q \in Seq(Registers) /\ Len(q) = 80 + 1
    <3> HIDE DEF q
    <3>1. \A n \in 0 .. Len(w) : Rounds(g, w, n) \in Seq(Registers) /\ Len(Rounds(g, w, n)) = n + 1
      BY <1>1, <2>1, RoundsUnfold
    <3> QED BY <2>1, <3>1 DEF q
  <2> QED BY <2>2
<1> HIDE DEF q
<1>3. q[81] \in Registers
  <2>1. 81 \in 1 .. Len(q)
    BY <1>2
  <2>2. q \in Seq(Registers)
    BY <1>2
  <2>3. \A k \in 1 .. Len(q) : q[k] \in Registers
    BY <2>2, ElementOfSeq
  <2> QED BY <2>1, <2>3
<1>4. Added(g, q[81]) \in Hash
  BY <1>3, AddedTypes
<1> QED BY <1>1, <1>3, <1>4 DEF w, q

LEMMA HashUnfold ==
  ASSUME NEW bs \in Seq(Block)
  PROVE  /\ HashOf(bs, 0) = H0
         /\ \A n \in 0 .. Len(bs) : HashOf(bs, n) \in Hash
         /\ \A n \in 0 .. Len(bs) - 1 :
              HashOf(bs, n + 1) = Added(HashOf(bs, n), Rounds(HashOf(bs, n), Words(bs[n + 1], 64), 80)[81])
<1> DEFINE N == Len(bs)
           Mixed(g, b) == Added(g, Rounds(g, Words(b, 64), 80)[81])
           Recurs(f) == f = [k \in 0 .. N |-> IF k = 0 THEN H0
                               ELSE LET g == f[k - 1] IN Added(g, Rounds(g, Words(bs[k], 64), 80)[81])]
           step == [p \in (0 .. N - 1) \X Hash |-> Mixed(p[2], bs[p[1] + 1])]
           r == CHOOSE f : Recurs(f)
<1>1. N \in Nat /\ \A k \in 1 .. N : bs[k] \in Block
  BY LenProperties, ElementOfSeq
<1>2. \A g \in Hash, b \in Block : Mixed(g, b) \in Hash
  BY BlockMixed
<1> HIDE DEF N
<1>3. step \in [(0 .. N - 1) \X Hash -> Hash]
  <2> HIDE DEF Mixed
  <2>1. ASSUME NEW p \in (0 .. N - 1) \X Hash PROVE Mixed(p[2], bs[p[1] + 1]) \in Hash
    <3>1. p[2] \in Hash /\ p[1] + 1 \in 1 .. N
      BY <1>1
    <3> QED BY <1>1, <1>2, <3>1
  <2> QED BY <2>1
<1>4. PICK f \in [0 .. N -> Hash] : f[0] = H0 /\ \A n \in 0 .. N - 1 : f[n + 1] = step[<<n, f[n]>>]
  <2> HIDE DEF step
  <2>1. \E f : RecursionTo(f, N, Hash, H0, step)
    BY <1>1, <1>3, HashTypes, RecursionToExists
  <2> QED BY <2>1 DEF RecursionTo
<1>5. \A n \in 0 .. N - 1 : f[n + 1] = Mixed(f[n], bs[n + 1])
  <2> HIDE DEF Mixed
  <2> SUFFICES ASSUME NEW n \in 0 .. N - 1 PROVE f[n + 1] = Mixed(f[n], bs[n + 1])
    OBVIOUS
  <2>1. n \in 0 .. N
    BY <1>1
  <2>2. f[n] \in Hash
    BY <1>4, <2>1
  <2> QED BY <1>4, <2>2
<1> HIDE DEF step
<1>6. Recurs(f)
  <2>1. ASSUME NEW k \in 0 .. N
        PROVE  f[k] = IF k = 0 THEN H0 ELSE LET g == f[k - 1] IN Added(g, Rounds(g, Words(bs[k], 64), 80)[81])
    <3>1. CASE k = 0
      BY <1>4, <3>1
    <3>2. CASE k # 0
      <4>1. k - 1 \in 0 .. N - 1 /\ (k - 1) + 1 = k
        BY <1>1, <3>2
      <4>2. f[(k - 1) + 1] = Mixed(f[k - 1], bs[(k - 1) + 1])
        <5> HIDE DEF Mixed
        <5> QED BY <1>5, <4>1
      <4> QED BY <3>2, <4>1, <4>2
    <3> QED BY <3>1, <3>2
  <2> QED BY <1>4, <2>1
<1>7. Recurs(r)
  <2> HIDE DEF Recurs
  <2> QED BY <1>6
<1>8. \A n : HashOf(bs, n) = r[n]
  BY Zenon DEF HashOf, N
<1>9. r[0] = H0 /\ \A n \in 0 .. N - 1 : r[n + 1] = Mixed(r[n], bs[n + 1])
  <2>1. \A k \in 0 .. N : r[k] = IF k = 0 THEN H0 ELSE Mixed(r[k - 1], bs[k])
    <3> HIDE DEF r
    <3> QED BY <1>7
  <2> HIDE DEF r, Recurs, Mixed
  <2>2. ASSUME NEW n \in 0 .. N - 1 PROVE r[n + 1] = Mixed(r[n], bs[n + 1])
    <3>1. n + 1 \in 0 .. N /\ n + 1 # 0 /\ (n + 1) - 1 = n
      BY <1>1
    <3>2. r[n + 1] = Mixed(r[(n + 1) - 1], bs[n + 1])
      BY <2>1, <3>1
    <3> QED BY <3>1, <3>2
  <2>3. 0 \in 0 .. N
    BY <1>1
  <2> QED BY <2>1, <2>2, <2>3
<1> HIDE DEF r, Recurs
<1> DEFINE T == {n \in 0 .. N : r[n] \in Hash}
<1>10. 0 \in T
  BY <1>1, <1>9, HashTypes
<1>11. ASSUME NEW n \in 0 .. N - 1, n \in T PROVE n + 1 \in T
  <2> HIDE DEF Mixed
  <2>1. r[n] \in Hash /\ n + 1 \in 1 .. N /\ n + 1 \in 0 .. N
    BY <1>1, <1>11
  <2>2. r[n + 1] \in Hash
    BY <1>1, <1>2, <1>9, <2>1
  <2> QED BY <2>1, <2>2
<1>12. 0 .. N \subseteq T
  <2> HIDE DEF T
  <2> QED BY <1>1, <1>10, <1>11, CountingTo
<1> QED BY <1>8, <1>9, <1>12 DEF N
---------------------------------------------------------------------------
(* The answer as text: 20 bytes, 28 letters, a line feed. *)
LEMMA BytesTypes ==
  ASSUME NEW h \in Hash
  PROVE  BytesOf(h) \in Seq(Byte) /\ Len(BytesOf(h)) = 20
<1> DEFINE half(k) == h[(k + 3) \div 4][IF (k - 1) % 4 < 2 THEN 1 ELSE 2]
           f == [k \in 1 .. 20 |-> IF k % 2 = 1 THEN half(k) \div 256 ELSE half(k) % 256]
<1>1. h \in Seq(HalfWord \X HalfWord) /\ Len(h) = 5
  BY Zenon DEF Hash
<1>2. ASSUME NEW k \in 1 .. 20 PROVE half(k) \in Int /\ half(k) >= 0 /\ half(k) < 65536
  <2>1. (k + 3) \div 4 \in 1 .. 5
    OBVIOUS
  <2> DEFINE j == (k + 3) \div 4
  <2> HIDE DEF j
  <2>2. h[j] \in HalfWord \X HalfWord
    BY <1>1, <2>1, ElementOfSeq DEF j
  <2>3. h[j][1] \in HalfWord /\ h[j][2] \in HalfWord
    BY <2>2
  <2> DEFINE i == IF (k - 1) % 4 < 2 THEN 1 ELSE 2
  <2>4. i \in {1, 2} /\ half(k) = h[j][i]
    BY Zenon DEF j
  <2> HIDE DEF half, i
  <2>5. half(k) \in HalfWord
    <3>1. CASE i = 1
      BY <2>3, <2>4, <3>1
    <3>2. CASE i = 2
      BY <2>3, <2>4, <3>2
    <3> QED BY <2>4, <3>1, <3>2
  <2>6. half(k) \in Int /\ half(k) >= 0 /\ half(k) < Half
    <3>1. Half \in Nat
      BY DEF Half
    <3> QED BY <2>5, <3>1 DEF HalfWord
  <2> QED BY <2>6 DEF Half
<1>3. ASSUME NEW x \in Int, x >= 0, x < 65536 PROVE x \div 256 \in Byte /\ x % 256 \in Byte
  <2>1. x \div 256 \in 0 .. 255
    BY <1>3
  <2>2. x % 256 \in 0 .. 255
    BY <1>3
  <2> QED BY <2>1, <2>2 DEF Byte
<1>4. f \in [1 .. 20 -> Byte]
  <2> HIDE DEF half
  <2>1. \A k \in 1 .. 20 : (IF k % 2 = 1 THEN half(k) \div 256 ELSE half(k) % 256) \in Byte
    BY <1>2, <1>3
  <2> QED BY <2>1
<1>5. BytesOf(h) = f
  BY Zenon DEF BytesOf
<1> HIDE DEF f
<1> QED BY <1>4, <1>5, ASequence

LEMMA OlenTypes == \A n \in Nat : Olen(n) \in Nat
<1>1. SizeMod \in Nat /\ SizeMod > 0
  BY Base64Assumption DEF Base64Assumption
<1>2. \A n \in Nat : Blocks4(n) \in Nat
  BY <1>1 DEF Blocks4
<1> QED BY <1>1, <1>2 DEF Olen

LEMMA DigestFits == Olen(20) >= 20 /\ 20 < SizeMod
<1>1. SizeMod \in Nat /\ SizeMod >= 128
  BY Base64Assumption DEF Base64Assumption
<1>2. \A i \in 0 .. 127 : i % SizeMod = i
  BY <1>1
<1>3. Blocks4(20) = 30
  <2>1. 80 % SizeMod = 80
    BY <1>2
  <2> QED BY <2>1 DEF Blocks4
<1>4. Olen(20) = 31
  <2>1. 31 % SizeMod = 31
    BY <1>2
  <2> QED BY <1>3, <2>1 DEF Olen
<1> QED BY <1>1, <1>4
LEMMA TextOfDigest ==
  ASSUME NEW d \in Seq(Byte), Len(d) = 20, NEW t, IsText(d, t)
  PROVE  t \in Seq(Byte) /\ Len(t) = 29 /\ SubSeq(t, 1, Len(t) - 1) = Letters28(d)
<1>1. Sextets(20) = 27 /\ LettersOf(20) = 28
  BY DEF Sextets, LettersOf
<1>2. t \in Seq(Byte) /\ Len(t) = 29 /\ \A p \in 1 .. 29 : t[p] = TextAt(d, p)
  <2>1. t \in Seq(Byte) /\ Len(t) = LettersOf(Len(d)) + (LettersOf(Len(d)) + 71) \div 72
        /\ \A p \in 1 .. Len(t) : t[p] = TextAt(d, p)
    BY DEF IsText
  <2>2. Len(t) = 29
    BY <1>1, <2>1
  <2>3. \A p \in 1 .. Len(t) : t[p] = TextAt(d, p)
    BY <2>1
  <2>4. \A p \in 1 .. 29 : t[p] = TextAt(d, p)
    BY <2>2, <2>3
  <2> QED BY <2>1, <2>2, <2>4
<1> DEFINE three(p) == 3 * ((p - 1) \div 4)
           f == [p \in 1 .. 28 |->
                   IF p = 28 THEN EQUALS
                   ELSE Letters(d[three(p) + 1], d[three(p) + 2],
                                IF three(p) + 3 <= 20 THEN d[three(p) + 3] ELSE 0)[1 + ((p - 1) % 4)]]
<1>3. Letters28(d) = f
  BY Zenon DEF Letters28
<1>4. ASSUME NEW p \in 1 .. 28 PROVE t[p] = f[p]
  <2> DEFINE k == p - 1
  <2>1. IsLetter(d, p) /\ LetterAt(p) = k /\ k \in 0 .. 27
    <3>1. p \div 73 = 0 /\ p % 73 # 0
      OBVIOUS
    <3> QED BY <1>1, <3>1 DEF IsLetter, LetterAt
  <2>2. t[p] = IF k < 27 THEN base64_table[SextetOf(d, k)] ELSE EQUALS
    <3>1. TextAt(d, p) = IF k < 27 THEN base64_table[SextetOf(d, k)] ELSE EQUALS
      BY <1>1, <2>1 DEF TextAt
    <3>2. p \in 1 .. 29
      OBVIOUS
    <3> QED BY <1>2, <3>1, <3>2
  <2>3. CASE p = 28
    BY <2>2, <2>3
  <2>4. CASE p # 28
    <3> DEFINE q == k \div 4  i == k % 4
               x == ByteAt(d, 3 * q + 1)  y == ByteAt(d, 3 * q + 2)  z == ByteAt(d, 3 * q + 3)
    <3>1. q \in 0 .. 6 /\ i \in 0 .. 3 /\ k < 27
      BY <2>4
    <3>2. SextetOf(d, k) = Sextet(x, y, z, i)
      BY Zenon DEF SextetOf
    <3> HIDE DEF q, i
    <3>3. x \in Byte /\ y \in Byte /\ z \in Byte
      <4>1. 3 * q + 1 \in Nat \ {0} /\ 3 * q + 2 \in Nat \ {0} /\ 3 * q + 3 \in Nat \ {0}
        BY <3>1
      <4> QED BY <4>1, ByteAtTypes
    <3>4. x = d[3 * q + 1] /\ y = d[3 * q + 2] /\ z = IF 3 * q + 3 <= 20 THEN d[3 * q + 3] ELSE 0
      BY <3>1 DEF ByteAt
    <3>5. f[p] = Letters(d[3 * q + 1], d[3 * q + 2], IF 3 * q + 3 <= 20 THEN d[3 * q + 3] ELSE 0)[1 + i]
      BY <2>4 DEF q, i
    <3> HIDE DEF x, y, z, f
    <3>6. f[p] = Letters(x, y, z)[1 + i]
      BY <3>4, <3>5
    <3>7. Letters(x, y, z)[i + 1] = base64_table[Sextet(x, y, z, i)] /\ 1 + i = i + 1
      BY <3>1, <3>3, SextetTypes
    <3> QED BY <2>2, <3>1, <3>2, <3>6, <3>7
  <2> QED BY <2>3, <2>4
<1> DEFINE s == SubSeq(t, 1, 28)
<1>5. s \in Seq(Byte) /\ Len(s) = 28 /\ \A p \in 1 .. 28 : s[p] = t[p]
  <2>1. \A p \in 1 .. 28 : t[p] \in Byte
    <3>1. \A p \in 1 .. Len(t) : t[p] \in Byte
      BY <1>2, ElementOfSeq
    <3>2. \A p \in 1 .. 28 : p \in 1 .. Len(t)
      BY <1>2
    <3> QED BY <3>1, <3>2
  <2> QED BY <2>1, SubSeqProperties
<1>6. s = f
  <2>1. s = [p \in 1 .. 28 |-> s[p]]
    <3> HIDE DEF s
    <3>1. s = [p \in 1 .. Len(s) |-> s[p]]
      BY <1>5, LenProperties
    <3> QED BY <1>5, <3>1
  <2>2. f = [p \in 1 .. 28 |-> f[p]]
    OBVIOUS
  <2>3. \A p \in 1 .. 28 : s[p] = f[p]
    <3> HIDE DEF s, f
    <3> QED BY <1>4, <1>5
  <2> HIDE DEF s, f
  <2> QED BY <2>1, <2>2, <2>3
<1> HIDE DEF f
<1> QED BY <1>2, <1>3, <1>6

LEMMA StandardTypes ==
  ASSUME NEW m \in Seq(Octet), NEW low \in Nat
  PROVE  StandardBlocks(m, Len(m), 0, low) \in Seq(Block)
<1> DEFINE n == Len(m)  total == (n + 8) \div 64 + 1  e == 64 * ((n + 8) \div 64 + 1)
           bytes == LengthBytes(0, low)
<1>1. n \in Nat /\ total \in Nat /\ \A j \in 1 .. n : m[j] \in Octet
  BY LenProperties, ElementOfSeq
<1>2. ASSUME NEW i \in 1 .. 8 PROVE bytes[i] \in Octet
  <2>1. ASSUME NEW x \in Nat PROVE Bytes4(x) \in Seq(Octet) /\ Len(Bytes4(x)) = 4
    <3>1. \A y \in Nat : y % 256 \in Octet
      BY DEF Octet
    <3>2. x \div 16777216 \in Nat /\ x \div 65536 \in Nat /\ x \div 256 \in Nat
      OBVIOUS
    <3> DEFINE a == (x \div 16777216) % 256  b == (x \div 65536) % 256  c == (x \div 256) % 256  g == x % 256
    <3>3. a \in Octet /\ b \in Octet /\ c \in Octet /\ g \in Octet
      BY <3>1, <3>2
    <3> HIDE DEF a, b, c, g
    <3>4. <<a, b, c, g>> \in Seq(Octet) /\ Len(<<a, b, c, g>>) = 4
      BY <3>3
    <3> QED BY <3>4 DEF Bytes4, a, b, c, g
  <2> DEFINE u == Bytes4(0)  v == Bytes4(low)
  <2>2. u \in Seq(Octet) /\ v \in Seq(Octet) /\ Len(u) = 4 /\ Len(v) = 4
    BY <2>1
  <2>3. bytes = u \o v
    BY DEF LengthBytes
  <2> HIDE DEF u, v, bytes
  <2>4. bytes \in Seq(Octet) /\ Len(bytes) = 8
    <3>1. u \o v \in Seq(Octet) /\ Len(u \o v) = Len(u) + Len(v)
      BY <2>2, ConcatProperties
    <3> QED BY <2>2, <2>3, <3>1
  <2> QED BY <2>4, ElementOfSeq
<1>3. ASSUME NEW j \in 0 .. e - 1 PROVE StandardByte(m, n, 0, low, j) \in Octet
  <2>1. e \in Nat /\ n < e - 8 /\ j \in Nat
    BY <1>1
  <2>2. j < n => m[j + 1] \in Octet
    BY <1>1, <2>1
  <2>3. ~(j < e - 8) => bytes[j - (e - 8) + 1] \in Octet
    <3> HIDE DEF bytes, n, e
    <3> SUFFICES ASSUME ~(j < e - 8) PROVE j - (e - 8) + 1 \in 1 .. 8
      BY <1>2
    <3> QED BY <2>1
  <2>4. StandardByte(m, n, 0, low, j) =
          IF j < n THEN m[j + 1] ELSE IF j = n THEN 128 ELSE IF j < e - 8 THEN 0 ELSE bytes[j - (e - 8) + 1]
    BY DEF StandardByte
  <2> HIDE DEF bytes, n, e
  <2> QED BY <2>2, <2>3, <2>4, OctetTypes
<1>4. ASSUME NEW b \in 1 .. total PROVE [k \in BlockIndex |-> StandardByte(m, n, 0, low, 64 * (b - 1) + k)] \in Block
  <2>1. \A k \in BlockIndex : 64 * (b - 1) + k \in 0 .. e - 1
    BY <1>1 DEF BlockIndex
  <2>2. \A k \in BlockIndex : StandardByte(m, n, 0, low, 64 * (b - 1) + k) \in Octet
    BY <1>3, <2>1
  <2> QED BY <2>2 DEF Block
<1> DEFINE f == [b \in 1 .. total |-> [k \in BlockIndex |-> StandardByte(m, n, 0, low, 64 * (b - 1) + k)]]
<1>5. f \in [1 .. total -> Block]
  BY <1>4
<1>6. StandardBlocks(m, Len(m), 0, low) = f
  BY Zenon DEF StandardBlocks
<1> HIDE DEF f, total
<1> QED BY <1>1, <1>5, <1>6, ASequence
---------------------------------------------------------------------------
(* The token that is looked for is the client's key, when it came whole. *)
LEMMA KeyFound == ASSUME NEW r \in Requests PROVE r.whole => SecKey(r.tokens) = {r.key}
<1> SUFFICES ASSUME r.whole PROVE SecKey(r.tokens) = {r.key}
  OBVIOUS
<1> DEFINE t == r.tokens  N == NameAt(t)
<1>1. KeyIn(r) /\ t \in Seq(STRING)
  BY AcceptAssumption DEF AcceptAssumption
<1>2. PICK j \in 2 .. Len(t) - 1 :
        t[j] \in KeyNames /\ t[j + 1] = r.key /\ \A k \in 2 .. j - 1 : t[k] \notin KeyNames
  BY <1>1 DEF KeyIn
<1>3. Len(t) \in Nat
  BY <1>1, LenProperties
<1>4. j \in N /\ N \subseteq Nat /\ \A k \in N : j <= k
  BY <1>2, <1>3 DEF NameAt
<1> HIDE DEF N
<1>5. (CHOOSE i \in N : \A k \in N : i <= k) = j
  <2> DEFINE i == CHOOSE i \in N : \A k \in N : i <= k
  <2>1. i \in N /\ \A k \in N : i <= k
    BY <1>4
  <2> HIDE DEF i
  <2>2. i <= j /\ j <= i /\ i \in Nat /\ j \in Nat
    BY <1>4, <2>1
  <2>3. i = j
    BY <2>2
  <2> QED BY <2>3 DEF i
<1>6. SecKey(t) = {t[1 + j]}
  BY <1>4, <1>5 DEF SecKey, N
<1>7. 1 + j = j + 1
  BY <1>3
<1> QED BY <1>2, <1>6, <1>7

LEMMA NoKey == ASSUME NEW r \in Requests, r.key = "none" PROVE SecKey(r.tokens) = {}
<1>1. NameAt(r.tokens) = {}
  BY AcceptAssumption DEF AcceptAssumption, NameAt
<1> QED BY <1>1 DEF SecKey
---------------------------------------------------------------------------
(* What is hashed, the blocks the standard makes of it, and the digest. *)
OfKey(k) == k \in DOMAIN KeyBytes /\ msg = KeyBytes[k] \o magicString
HasKey == request \in Requests /\ \E k \in SecKey(request.tokens) : OfKey(k)
KeyBlocks == StandardBlocks(msg, Len(msg), 0, 8 * Len(msg))
KeyDigest == BytesOf(HashOf(KeyBlocks, Len(KeyBlocks)))

(* How far the mixing is: n blocks are done; of the next one, the words and *)
(* the rounds so far.                                                       *)
BlockMixing(b) ==
  /\ Len(W) \in 16 .. 80 /\ W = Words(b, Len(W) - 16)
  /\ round \in 0 .. 80 /\ (round > 0 => Len(W) = 80)
  /\ regs = Rounds(hash, Words(b, 64), round)[round + 1]
MixedTo(bs, n) ==
  /\ Len(blocks) = Len(bs) - n /\ \A i \in 1 .. Len(blocks) : blocks[i] = bs[n + i]
  /\ hash = HashOf(bs, n)
  /\ W = <<>> => round = 0
  /\ W # <<>> => n < Len(bs) /\ BlockMixing(bs[n + 1])
Mixing == blocks \in Seq(Block) /\ \E n \in 0 .. Len(KeyBlocks) : MixedTo(KeyBlocks, n)
NotMixing == blocks = <<>> /\ W = <<>> /\ round = 0

Answering ==
  \/ b64 = "encode" /\ src = KeyDigest /\ Encoded
  \/ b64 = "done" /\ IsText(KeyDigest, out)

Replied ==
  /\ hs = "idle" /\ request \in Requests
  /\ \/ SecKey(request.tokens) = {} /\ reply = [end |-> "killed", accept |-> <<>>]
     \/ \E k \in SecKey(request.tokens) :
          k \in DOMAIN KeyBytes /\ reply = [end |-> "accepted", accept |-> StandardAnswer(k)]

AcceptInv ==
  /\ Sha1Inv /\ B64Inv /\ KeysFit
  /\ hs \in {"idle", "reset", "input", "result", "mix", "encode"}
  /\ hs # "idle" => HasKey
  /\ hs = "reset" => offered = 0 /\ Corrupted = 0 /\ Computed = 0
  /\ hs = "input" => offered = Len(msg) /\ Corrupted = 0 /\ Computed = 0
  /\ hs = "result" => hashed = KeyBlocks
  /\ IF hs = "mix" THEN Mixing ELSE NotMixing
  /\ IF hs = "encode" THEN Answering ELSE b64 = "idle"
  /\ reply = NoReply \/ Replied

(* The key's bits fit into one word, so that the second stays 0. *)
LEMMA KeyFits ==
  ASSUME AcceptInv, hs # "idle"
  PROVE  /\ word \in Nat /\ msg \in Seq(Octet) /\ Len(msg) \in Nat /\ 8 * Len(msg) < word
         /\ KeyBlocks \in Seq(Block) /\ Len(KeyBlocks) \in Nat
<1>1. word \in Nat /\ msg \in Seq(Octet)
  BY DEF AcceptInv, Sha1Inv, Sha1Types
<1>2. Len(msg) \in Nat
  BY <1>1, LenProperties
<1>3. 8 * Len(msg) < word
  <2>1. PICK k \in SecKey(request.tokens) : OfKey(k)
    BY DEF AcceptInv, HasKey
  <2> QED BY <2>1 DEF AcceptInv, KeysFit, OfKey
<1> DEFINE bits == 8 * Len(msg)
<1>4. bits \in Nat
  BY <1>2
<1> HIDE DEF bits
<1>5. StandardBlocks(msg, Len(msg), 0, bits) \in Seq(Block)
  BY <1>1, <1>4, StandardTypes
<1>6. KeyBlocks \in Seq(Block)
  BY <1>5 DEF KeyBlocks, bits
<1> QED BY <1>1, <1>2, <1>3, <1>6, LenProperties

LEMMA StartsRight == ASSUME AcceptInit, KeysFit PROVE AcceptInv
<1>1. Sha1Inv
  <2>1. word \in Nat /\ word > 0 /\ word % 8 = 0
    BY Sha1Assumption DEF AcceptInit, Sha1Init, Sha1Assumption
  <2>2. msg \in Seq(Octet) /\ Message_Block \in Block
    BY EmptySeq, OctetTypes DEF AcceptInit, Sha1Init
  <2>3. Fresh
    BY <2>1, <2>2 DEF AcceptInit, Sha1Init, Fresh
  <2> QED BY <2>3, FreshHolds
<1>2. B64Inv
  BY B64InvStarts DEF AcceptInit
<1>3. NotMixing /\ hs = "idle" /\ b64 = "idle" /\ reply = NoReply
  BY DEF AcceptInit, BlockInit, B64Init, NotMixing
<1> QED BY <1>1, <1>2, <1>3 DEF AcceptInv

(* What a step that leaves a library alone leaves true of it. *)
LEMMA Sha1Same ==
  ASSUME UNCHANGED sha1Vars
  PROVE  /\ Sha1Inv' <=> Sha1Inv
         /\ KeysFit' <=> KeysFit
         /\ KeyBlocks' = KeyBlocks /\ msg' = msg
         /\ \A k : OfKey(k)' <=> OfKey(k)
         /\ UNCHANGED <<Corrupted, Computed, offered, hashed, todo>>
<1>1. /\ UNCHANGED <<Length_Low, Length_High, Message_Block_Index, Message_Block, Computed, Corrupted>>
      /\ UNCHANGED <<hashed, word, msg, offered, todo, ret>>
  BY DEF sha1Vars, lengths
<1>2. Sha1Inv' <=> Sha1Inv
  BY <1>1 DEF Sha1Inv, Sha1Types, Reading, Digested, given
<1>3. KeysFit' <=> KeysFit
  BY <1>1 DEF KeysFit
<1>4. KeyBlocks' = KeyBlocks
  BY <1>1 DEF KeyBlocks
<1>5. \A k : OfKey(k)' <=> OfKey(k)
  BY <1>1 DEF OfKey
<1> QED BY <1>1, <1>2, <1>3, <1>4, <1>5

LEMMA B64Same ==
  ASSUME UNCHANGED b64Vars
  PROVE  (B64Inv' <=> B64Inv) /\ b64' = b64 /\ src' = src /\ out' = out /\ (Encoded' <=> Encoded)
BY DEF b64Vars, B64Inv, Encoding, Decoding, LettersTo, Encoded

LEMMA BlocksSame ==
  ASSUME UNCHANGED blockVars
  PROVE  NotMixing' <=> NotMixing
BY DEF blockVars, NotMixing

LEMMA HandshakeRight ==
  ASSUME AcceptInv, NEW r \in Requests, wsHandshake(r) PROVE AcceptInv'
<1>1. hs = "idle" /\ request' = r /\ UNCHANGED blockVars /\ UNCHANGED b64Vars
  BY DEF wsHandshake
<1>2. NotMixing' /\ b64' = "idle" /\ B64Inv'
  BY <1>1, B64Same, BlocksSame DEF AcceptInv
<1>3. CASE SecKey(r.tokens) = {} /\ reply' = [end |-> "killed", accept |-> <<>>] /\ hs' = hs /\ UNCHANGED sha1Vars
  <2>1. Sha1Inv' /\ KeysFit'
    BY <1>3, Sha1Same DEF AcceptInv
  <2>2. Replied'
    BY <1>1, <1>3 DEF Replied
  <2> QED BY <1>1, <1>2, <1>3, <2>1, <2>2 DEF AcceptInv
<1>4. CASE \E k \in SecKey(r.tokens) :
             SHA1Reset(KeyBytes[k] \o magicString) /\ hs' = "reset" /\ reply' = NoReply
  <2>1. PICK k \in SecKey(r.tokens) :
             SHA1Reset(KeyBytes[k] \o magicString) /\ hs' = "reset" /\ reply' = NoReply
    BY <1>4
  <2>2. k \in DOMAIN KeyBytes
    BY <2>1, AcceptAssumption DEF AcceptAssumption
  <2> DEFINE m == KeyBytes[k] \o magicString
  <2>3. m \in Seq(Octet)
    <3>1. KeyBytes[k] \in Seq(Octet) /\ magicString \in Seq(Octet)
      BY <2>2, AcceptAssumption DEF AcceptAssumption
    <3> QED BY <3>1, ConcatProperties
  <2> HIDE DEF m
  <2>4. SHA1Reset(m)
    BY <2>1 DEF m
  <2>5. Sha1Inv'
    BY <2>3, <2>4, ResetKeeps DEF AcceptInv
  <2>6. msg' = m /\ word' = word /\ offered' = 0 /\ Corrupted' = 0 /\ Computed' = 0
    BY <2>4 DEF SHA1Reset
  <2>7. HasKey'
    <3>1. OfKey(k)'
      BY <2>2, <2>6 DEF OfKey, m
    <3> QED BY <1>1, <2>1, <3>1 DEF HasKey
  <2>8. KeysFit'
    BY <2>6 DEF AcceptInv, KeysFit
  <2> QED BY <1>2, <2>1, <2>5, <2>6, <2>7, <2>8 DEF AcceptInv, NoReply
<1> QED BY <1>3, <1>4 DEF wsHandshake

(* The request, and that it is being answered, are kept by the other steps. *)
LEMMA StillAnswering ==
  ASSUME AcceptInv, hs # "idle", msg' = msg, word' = word, request' = request, reply' = reply
  PROVE  HasKey' /\ KeysFit' /\ reply' = NoReply
<1>1. reply' = NoReply
  BY DEF AcceptInv, Replied
<1>2. KeysFit'
  BY DEF AcceptInv, KeysFit
<1>3. HasKey'
  <2>1. PICK k \in SecKey(request.tokens) : OfKey(k)
    BY DEF AcceptInv, HasKey
  <2>2. OfKey(k)'
    BY <2>1 DEF OfKey
  <2> QED BY <2>1, <2>2 DEF AcceptInv, HasKey
<1> QED BY <1>1, <1>2, <1>3

LEMMA InputRight == ASSUME AcceptInv, HashInput \/ HashByte PROVE AcceptInv'
<1>1. /\ UNCHANGED <<request, reply>> /\ UNCHANGED blockVars /\ UNCHANGED b64Vars
      /\ hs \in {"reset", "input"} /\ hs' = "input"
  BY DEF HashInput, HashByte, handshakeVars
<1>2. NotMixing' /\ b64' = "idle" /\ B64Inv'
  BY <1>1, B64Same, BlocksSame DEF AcceptInv
<1>3. msg' = msg /\ word' = word
  BY DEF HashInput, HashByte, SHA1Input, InputByte
<1>4. HasKey' /\ KeysFit' /\ reply' = NoReply
  BY <1>1, <1>3, StillAnswering
<1>5. Len(msg) \in Nat /\ word \in Nat /\ 8 * Len(msg) < word
  BY <1>1, KeyFits
<1>6. Sha1Inv' /\ offered' = Len(msg) /\ Corrupted' = 0 /\ Computed' = 0
  <2>1. CASE HashInput
    <3>1. SHA1Input(Len(msg)) /\ offered = 0 /\ Corrupted = 0 /\ Computed = 0
      BY <2>1 DEF HashInput, AcceptInv
    <3>2. Sha1Inv'
      BY <1>5, <3>1, InputKeeps DEF AcceptInv
    <3>3. offered' = Len(msg)
      BY <1>5, <3>1 DEF SHA1Input
    <3>4. Corrupted' = 0 /\ Computed' = 0
      BY <3>1 DEF SHA1Input
    <3> QED BY <3>2, <3>3, <3>4
  <2>2. CASE HashByte
    <3>1. InputByte /\ offered = Len(msg) /\ Corrupted = 0 /\ Computed = 0
      BY <2>2 DEF HashByte, AcceptInv
    <3>2. Sha1Inv' /\ Sha1Types /\ Reading
      BY <3>1, ByteKeeps DEF AcceptInv, Sha1Inv
    <3>3. offered' = Len(msg) /\ Computed' = 0
      BY <3>1 DEF InputByte
    <3>4. todo > 0 /\ todo \in 0 .. offered
      BY <3>1, <3>2 DEF InputByte, Sha1Types
    <3>5. given \in Nat /\ given + 1 <= Len(msg)
      BY <1>5, <3>1, <3>4 DEF given
    <3>6. Length_Low \in 0 .. word - 1 /\ Length_High \in 0 .. word - 1 /\ Length_High * word + Length_Low = 8 * given
      BY <3>2 DEF Reading
    <3>7. Length_High = 0
      <4> SUFFICES ASSUME Length_High >= 1 PROVE FALSE
        BY <1>5, <3>6
      <4>1. Length_High * word >= 1 * word
        BY <1>5, <3>6
      <4> QED BY <1>5, <3>5, <3>6, <4>1
    <3>8. Length_Low + 8 \in 0 .. word - 1 /\ Length_Low + 8 # 0
      BY <1>5, <3>5, <3>6, <3>7
    <3>9. (Length_Low + 8) % word = Length_Low + 8
      <4> DEFINE x == Length_Low + 8
      <4> HIDE DEF x
      <4>1. x % word = x
        BY <1>5, <3>8 DEF x
      <4> QED BY <4>1 DEF x
    <3>10. Corrupted' = 0
      BY <3>1, <3>8, <3>9 DEF InputByte
    <3> QED BY <3>2, <3>3, <3>10
  <2> QED BY <2>1, <2>2
<1> QED BY <1>1, <1>2, <1>3, <1>4, <1>6 DEF AcceptInv

LEMMA ResultRight == ASSUME AcceptInv, HashResult PROVE AcceptInv'
<1>1. /\ UNCHANGED <<request, reply>> /\ UNCHANGED blockVars /\ UNCHANGED b64Vars
      /\ hs = "input" /\ hs' = "result" /\ SHA1Result
      /\ offered = Len(msg) /\ Corrupted = 0 /\ Computed = 0
  BY DEF HashResult, AcceptInv
<1>2. NotMixing' /\ b64' = "idle" /\ B64Inv'
  BY <1>1, B64Same, BlocksSame DEF AcceptInv
<1>3. msg' = msg /\ word' = word /\ offered' = offered /\ Corrupted' = 0
  BY <1>1 DEF SHA1Result
<1>4. HasKey' /\ KeysFit' /\ reply' = NoReply
  BY <1>1, <1>3, StillAnswering
<1>5. Len(msg) \in Nat /\ word \in Nat /\ 8 * Len(msg) < word
  BY <1>1, KeyFits
<1>6. Sha1Inv'
  BY <1>1, ResultKeeps DEF AcceptInv
<1>7. Digested'
  <2>1. Computed' = 1
    BY <1>1 DEF SHA1Result
  <2> QED BY <1>3, <1>6, <2>1 DEF Sha1Inv
<1>8. hashed' = KeyBlocks'
  <2> DEFINE m == msg'  n == Len(m)
  <2>1. PICK high \in 0 .. word - 1 :
          /\ 8 * n - high * word \in 0 .. word - 1
          /\ hashed' = StandardBlocks(m, n, high, 8 * n - high * word)
    BY <1>1, <1>3, <1>7 DEF Digested
  <2>2. n \in Nat /\ 8 * n < word
    BY <1>3, <1>5
  <2> HIDE DEF m, n
  <2>3. high = 0
    <3> SUFFICES ASSUME high >= 1 PROVE FALSE
      BY <1>5
    <3>1. high * word >= 1 * word
      BY <1>5
    <3> QED BY <1>5, <2>1, <2>2, <3>1
  <2>4. 8 * n - high * word = 8 * n
    BY <1>5, <2>2, <2>3
  <2>5. hashed' = StandardBlocks(m, n, 0, 8 * n)
    BY <2>1, <2>3, <2>4
  <2> QED BY <2>5 DEF KeyBlocks, m, n
<1> QED BY <1>1, <1>2, <1>4, <1>6, <1>8 DEF AcceptInv

LEMMA MixStarts == ASSUME AcceptInv, HashMix PROVE AcceptInv'
<1>1. /\ UNCHANGED <<request, reply>> /\ UNCHANGED sha1Vars /\ UNCHANGED b64Vars
      /\ hs = "result" /\ hs' = "mix" /\ MixCall(hashed) /\ hashed = KeyBlocks /\ NotMixing
  BY DEF HashMix, AcceptInv
<1>2. b64' = "idle" /\ B64Inv'
  BY <1>1, B64Same DEF AcceptInv
<1>3. Sha1Inv' /\ KeyBlocks' = KeyBlocks /\ msg' = msg /\ word' = word
  BY <1>1, Sha1Same DEF AcceptInv, sha1Vars
<1>4. HasKey' /\ KeysFit' /\ reply' = NoReply
  BY <1>1, <1>3, StillAnswering
<1>5. KeyBlocks \in Seq(Block) /\ Len(KeyBlocks) \in Nat
  BY <1>1, KeyFits
<1>6. Mixing'
  <2>1. PICK bs \in Seq(Block) : bs = KeyBlocks
    BY <1>5
  <2>2. blocks' = bs /\ hash' = H0 /\ W' = <<>> /\ round' = 0 /\ KeyBlocks' = bs
    BY <1>1, <1>3, <2>1 DEF MixCall, NotMixing
  <2>3. Len(bs) \in Nat /\ HashOf(bs, 0) = H0
    BY LenProperties, HashUnfold
  <2>4. MixedTo(bs, 0)'
    BY <2>2, <2>3 DEF MixedTo
  <2>5. 0 \in 0 .. Len(bs) /\ blocks' \in Seq(Block)
    BY <2>2, <2>3
  <2> QED BY <2>2, <2>4, <2>5 DEF Mixing
<1> QED BY <1>1, <1>2, <1>3, <1>4, <1>6 DEF AcceptInv
---------------------------------------------------------------------------
(* The steps of the mixing, each one the next of the standard. *)
LEMMA NotEmpty == ASSUME NEW w, Len(w) > 0 PROVE w # <<>>
<1> SUFFICES ASSUME w = <<>> PROVE FALSE
  OBVIOUS
<1>1. Len(<<>>) = 0
  BY EmptySeq
<1>2. Len(w) = 0
  BY <1>1, Zenon
<1> QED BY <1>2

LEMMA WordCount ==
  ASSUME NEW l \in 16 .. 79
  PROVE  l > 0 /\ l - 16 \in Nat /\ l # 80 /\ (l + 1) - 16 = (l - 16) + 1 /\ l + 1 \in 16 .. 80 /\ l + 1 > 0
OBVIOUS

LEMMA BlockStarts ==
  ASSUME NEW bs \in Seq(Block), NEW n \in 0 .. Len(bs), MixedTo(bs, n), blocks \in Seq(Block), BlockStart
  PROVE  MixedTo(bs, n)' /\ blocks' \in Seq(Block)
<1>1. /\ blocks # <<>> /\ W = <<>> /\ W' = FirstWords(Head(blocks)) /\ regs' = hash
      /\ blocks' = blocks /\ hash' = hash /\ round' = round
  BY DEF BlockStart
<1>2. Len(bs) \in Nat /\ n \in Nat
  BY LenProperties
<1>3. /\ Len(blocks) = Len(bs) - n /\ (\A i \in 1 .. Len(blocks) : blocks[i] = bs[n + i])
      /\ hash = HashOf(bs, n) /\ round = 0
  BY <1>1 DEF MixedTo
<1>4. Len(blocks) \in Nat \ {0}
  BY <1>1, EmptySeq
<1> DEFINE b == bs[n + 1]
<1>5. n < Len(bs) /\ blocks[1] = b
  BY <1>2, <1>3, <1>4
<1>6. b \in Block
  <2>1. n + 1 \in 1 .. Len(bs)
    BY <1>2, <1>5
  <2> QED BY <2>1, ElementOfSeq
<1>7. Head(blocks) = b
  BY <1>1, <1>5
<1> HIDE DEF b
<1>8. W' = Words(b, 0) /\ Len(W') = 16 /\ W' # <<>>
  <2>1. Words(b, 0) = FirstWords(b) /\ Len(FirstWords(b)) = 16
    BY <1>6, WordsUnfold, FirstWordsTypes
  <2>2. W' = Words(b, 0) /\ Len(W') = 16
    BY <1>1, <1>7, <2>1
  <2>3. Len(W') > 0
    <3>1. Len(W') = 16
      BY <2>2, Zenon
    <3> HIDE <2>2
    <3> QED BY <3>1
  <2> QED BY <2>2, <2>3, NotEmpty
<1>9. hash = Rounds(hash, Words(b, 64), 0)[1]
  <2>1. hash \in Registers /\ Words(b, 64) \in Seq(Word)
    BY <1>2, <1>3, <1>6, HashUnfold, HashTypes, BlockMixed
  <2>2. Rounds(hash, Words(b, 64), 0) = <<hash>>
    BY <2>1, RoundsUnfold
  <2> QED BY <2>2
<1>10. BlockMixing(b)'
  <2>1. Len(W)' - 16 = 0 /\ round' = 0 /\ round' + 1 = 1
    BY <1>1, <1>3, <1>8
  <2>2. regs' = Rounds(hash', Words(b, 64), 0)[1]
    BY <1>1, <1>9
  <2>3. W' = Words(b, Len(W)' - 16)
    BY <1>8, <2>1, Zenon
  <2>4. Len(W)' \in 16 .. 80
    BY <1>8
  <2> QED BY <2>1, <2>2, <2>3, <2>4 DEF BlockMixing, b
<1>11. MixedTo(bs, n)'
  BY <1>1, <1>3, <1>5, <1>8, <1>10 DEF MixedTo, b
<1> QED BY <1>1, <1>11

LEMMA WordFollows ==
  ASSUME NEW bs \in Seq(Block), NEW n \in 0 .. Len(bs), MixedTo(bs, n), blocks \in Seq(Block), Expand
  PROVE  MixedTo(bs, n)' /\ blocks' \in Seq(Block)
<1>1. /\ Len(W) \in 16 .. 79 /\ W' = Append(W, NextWord(W))
      /\ blocks' = blocks /\ hash' = hash /\ round' = round /\ regs' = regs
  BY DEF Expand
<1>2. Len(bs) \in Nat /\ n \in Nat
  BY LenProperties
<1>3. W # <<>>
  <2>1. Len(W) > 0
    BY <1>1, WordCount, Zenon
  <2> QED BY <2>1, NotEmpty
<1> DEFINE b == bs[n + 1]  k == Len(W) - 16
<1>4. n < Len(bs) /\ BlockMixing(b)
  BY <1>3 DEF MixedTo
<1>5. b \in Block
  <2>1. n + 1 \in 1 .. Len(bs)
    BY <1>2, <1>4
  <2> QED BY <2>1, ElementOfSeq
<1> HIDE DEF b
<1>6. W = Words(b, k) /\ k \in Nat /\ round = 0
  <2>1. W = Words(b, k) /\ round \in 0 .. 80 /\ (round > 0 => Len(W) = 80)
    BY <1>4 DEF BlockMixing
  <2>2. round = 0
    <3>1. Len(W) # 80
      BY <1>1, WordCount, Zenon
    <3>2. round \in 0 .. 80 /\ ~(round > 0)
      BY <2>1, <3>1, Zenon
    <3> QED BY <3>2
  <2>3. k \in Nat
    BY <1>1, WordCount, Zenon
  <2> QED BY <2>1, <2>2, <2>3
<1>7. W' = Words(b, k + 1) /\ Len(W') = Len(W) + 1
  <2>1. Words(b, k + 1) = Append(Words(b, k), NextWord(Words(b, k))) /\ Words(b, k) \in LongWords
    BY <1>5, <1>6, WordsUnfold
  <2> HIDE DEF k
  <2>2. Words(b, k + 1) = Append(W, NextWord(W)) /\ W \in LongWords
    BY <1>6, <2>1
  <2> QED BY <1>1, <2>2, LongWordsTypes
<1>8. Len(W') - 16 = k + 1 /\ Len(W') \in 16 .. 80 /\ W' # <<>>
  <2>1. Len(W') = Len(W) + 1 /\ Len(W) \in 16 .. 79
    BY <1>1, <1>7
  <2>2. Len(W') - 16 = k + 1 /\ Len(W') \in 16 .. 80 /\ Len(W') > 0
    <3>1. PICK m \in 16 .. 79 : m = Len(W)
      BY <2>1
    <3>2. (m + 1) - 16 = (m - 16) + 1 /\ m + 1 \in 16 .. 80 /\ m + 1 > 0
      OBVIOUS
    <3> QED BY <2>1, <3>1, <3>2
  <2> QED BY <2>2, NotEmpty
<1> HIDE DEF k
<1>9. BlockMixing(b)'
  <2>1. regs' = Rounds(hash', Words(b, 64), round')[round' + 1]
    BY <1>1, <1>4 DEF BlockMixing
  <2>2. Len(W') \in 16 .. 80 /\ W' = Words(b, Len(W') - 16)
    BY <1>7, <1>8
  <2>3. round' \in 0 .. 80 /\ ~(round' > 0)
    BY <1>1, <1>6
  <2> QED BY <2>1, <2>2, <2>3 DEF BlockMixing, b
<1>10. MixedTo(bs, n)'
  BY <1>1, <1>4, <1>8, <1>9 DEF MixedTo, b
<1> QED BY <1>1, <1>10

LEMMA RoundOn ==
  ASSUME NEW h \in Registers, NEW w \in Seq(Word), NEW j \in 0 .. Len(w) - 1
  PROVE  Rounds(h, w, j + 1)[j + 2] = Turned(j, Rounds(h, w, j)[j + 1], w[j + 1])
<1> DEFINE q == Rounds(h, w, j)  x == Turned(j, q[j + 1], w[j + 1])
<1>1. Len(w) \in Nat
  BY LenProperties
<1>2. j \in 0 .. Len(w) /\ j \in Nat /\ j + 1 \in 1 .. Len(w)
  BY <1>1
<1>3. q \in Seq(Registers) /\ Len(q) = j + 1 /\ Rounds(h, w, j + 1) = Append(q, x)
  BY <1>2, RoundsUnfold
<1>4. x \in Registers
  <2> HIDE DEF q
  <2>1. j + 1 \in 1 .. Len(q)
    BY <1>2, <1>3
  <2>2. q[j + 1] \in Registers /\ w[j + 1] \in Word
    BY <1>2, <1>3, <2>1, ElementOfSeq
  <2> QED BY <1>2, <2>2, TurnedTypes
<1> HIDE DEF q, x
<1>5. Append(q, x)[Len(q) + 1] = x
  BY <1>3, <1>4, AppendProperties
<1>6. Len(q) + 1 = j + 2
  BY <1>2, <1>3
<1>7. Rounds(h, w, j + 1)[j + 2] = x
  BY <1>3, <1>5, <1>6
<1> QED BY <1>7 DEF q, x

LEMMA RoundFollows ==
  ASSUME NEW bs \in Seq(Block), NEW n \in 0 .. Len(bs), MixedTo(bs, n), blocks \in Seq(Block), Round
  PROVE  MixedTo(bs, n)' /\ blocks' \in Seq(Block)
<1>1. /\ Len(W) = 80 /\ round < 80 /\ round' = round + 1 /\ regs' = Turned(round, regs, W[round + 1])
      /\ blocks' = blocks /\ hash' = hash /\ W' = W
  BY DEF Round
<1>2. Len(bs) \in Nat /\ n \in Nat
  BY LenProperties
<1>3. W # <<>>
  <2>1. Len(W) > 0
    BY <1>1
  <2> QED BY <2>1, NotEmpty
<1> DEFINE b == bs[n + 1]  w == Words(b, 64)  q == Rounds(hash, w, round)
<1>4. n < Len(bs) /\ BlockMixing(b) /\ hash = HashOf(bs, n)
  BY <1>3 DEF MixedTo
<1>5. b \in Block
  <2>1. n + 1 \in 1 .. Len(bs)
    BY <1>2, <1>4
  <2> QED BY <2>1, ElementOfSeq
<1> HIDE DEF b
<1>6. W = w /\ round \in 0 .. 79 /\ regs = q[round + 1]
  <2>1. W = Words(b, Len(W) - 16) /\ Len(W) - 16 = 64 /\ round \in 0 .. 80 /\ regs = q[round + 1]
    BY <1>1, <1>4 DEF BlockMixing
  <2> QED BY <1>1, <2>1
<1>7. hash \in Registers /\ w \in Seq(Word) /\ Len(w) = 80
  BY <1>2, <1>4, <1>5, HashUnfold, HashTypes, BlockMixed
<1> HIDE DEF w
<1>8. PICK h \in Registers, j \in 0 .. 79 : h = hash /\ j = round
  BY <1>6, <1>7
<1>9. Rounds(h, w, j + 1)[j + 2] = Turned(j, Rounds(h, w, j)[j + 1], w[j + 1])
  <2>1. j \in 0 .. Len(w) - 1
    BY <1>7
  <2>2. h \in Registers /\ w \in Seq(Word)
    BY <1>7
  <2>3. \A k \in 0 .. Len(w) - 1 :
          Rounds(h, w, k + 1)[k + 2] = Turned(k, Rounds(h, w, k)[k + 1], w[k + 1])
    BY <2>2, RoundOn
  <2> QED BY <2>1, <2>3
<1>10. regs' = Rounds(hash', w, round')[round' + 1]
  <2>1. regs' = Rounds(h, w, j + 1)[j + 2]
    <3>1. regs = Rounds(h, w, j)[j + 1] /\ W[j + 1] = w[j + 1] /\ regs' = Turned(j, regs, W[j + 1])
      BY <1>1, <1>6, <1>8
    <3> QED BY <1>9, <3>1
  <2>2. hash' = h /\ round' = j + 1 /\ round' + 1 = j + 2
    BY <1>1, <1>8
  <2> QED BY <2>1, <2>2
<1> HIDE DEF q
<1>11. BlockMixing(b)'
  <2>1. round' \in 0 .. 80 /\ Len(W)' = 80 /\ W' = Words(b, Len(W)' - 16)
    <3>1. Len(W)' = 80 /\ Len(W)' - 16 = 64 /\ W' = w
      BY <1>1, <1>6
    <3>2. W' = Words(b, Len(W)' - 16)
      BY <3>1, Zenon DEF w
    <3>3. round' \in 0 .. 80
      BY <1>1, <1>6
    <3> QED BY <3>1, <3>2, <3>3
  <2>2. Len(W)' \in 16 .. 80
    BY <2>1
  <2> QED BY <1>10, <2>1, <2>2 DEF BlockMixing, b, w
<1>12. MixedTo(bs, n)'
  BY <1>1, <1>3, <1>4, <1>11 DEF MixedTo, b
<1> QED BY <1>1, <1>12

LEMMA BlockEnds ==
  ASSUME NEW bs \in Seq(Block), NEW n \in 0 .. Len(bs), MixedTo(bs, n), blocks \in Seq(Block), BlockEnd
  PROVE  n + 1 \in 0 .. Len(bs) /\ MixedTo(bs, n + 1)' /\ blocks' \in Seq(Block)
<1>1. round = 80 /\ hash' = Added(hash, regs) /\ blocks' = Tail(blocks) /\ W' = <<>> /\ round' = 0
  BY DEF BlockEnd
<1>2. Len(bs) \in Nat /\ n \in Nat
  BY LenProperties
<1>3. W # <<>>
  BY <1>1 DEF MixedTo
<1> DEFINE b == bs[n + 1]
<1>4. /\ n < Len(bs) /\ BlockMixing(b) /\ hash = HashOf(bs, n)
      /\ Len(blocks) = Len(bs) - n /\ (\A i \in 1 .. Len(blocks) : blocks[i] = bs[n + i])
  BY <1>3 DEF MixedTo
<1>5. regs = Rounds(hash, Words(b, 64), 80)[81]
  <2>1. round + 1 = 81
    BY <1>1
  <2> HIDE DEF b
  <2>2. regs = Rounds(hash, Words(b, 64), round)[round + 1]
    BY <1>4 DEF BlockMixing
  <2> QED BY <1>1, <2>1, <2>2
<1>6. hash' = HashOf(bs, n + 1)
  <2>1. n \in 0 .. Len(bs) - 1
    BY <1>2, <1>4
  <2>2. HashOf(bs, n + 1) = Added(HashOf(bs, n), Rounds(HashOf(bs, n), Words(b, 64), 80)[81])
    BY <2>1, HashUnfold
  <2> QED BY <1>1, <1>4, <1>5, <2>2
<1>7. blocks # <<>>
  <2>1. Len(blocks) > 0
    BY <1>2, <1>4
  <2> QED BY <2>1
<1>8. /\ blocks' \in Seq(Block) /\ Len(blocks') = Len(blocks) - 1
      /\ \A i \in 1 .. Len(blocks') : blocks'[i] = blocks[i + 1]
  BY <1>1, <1>7, HeadTailProperties
<1>9. n + 1 \in 0 .. Len(bs) /\ Len(blocks') = Len(bs) - (n + 1)
  BY <1>2, <1>4, <1>8
<1>10. ASSUME NEW i \in 1 .. Len(blocks') PROVE blocks'[i] = bs[(n + 1) + i]
  <2>1. i + 1 \in 1 .. Len(blocks) /\ n + (i + 1) = (n + 1) + i
    BY <1>2, <1>4, <1>9
  <2> QED BY <1>4, <1>8, <2>1
<1>11. MixedTo(bs, n + 1)'
  BY <1>1, <1>6, <1>9, <1>10 DEF MixedTo
<1> QED BY <1>8, <1>9, <1>11

LEMMA MixRight == ASSUME AcceptInv, HashStep PROVE AcceptInv'
<1>1. /\ UNCHANGED <<request, reply>> /\ UNCHANGED sha1Vars /\ UNCHANGED b64Vars
      /\ hs = "mix" /\ hs' = "mix" /\ BlockStep /\ Mixing
  BY DEF HashStep, handshakeVars, AcceptInv
<1>2. b64' = "idle" /\ B64Inv'
  BY <1>1, B64Same DEF AcceptInv
<1>3. Sha1Inv' /\ KeyBlocks' = KeyBlocks /\ msg' = msg /\ word' = word
  BY <1>1, Sha1Same DEF AcceptInv, sha1Vars
<1>4. HasKey' /\ KeysFit' /\ reply' = NoReply
  BY <1>1, <1>3, StillAnswering
<1>5. Mixing'
  <2>1. PICK bs \in Seq(Block) : bs = KeyBlocks
    BY <1>1, KeyFits
  <2>2. PICK n \in 0 .. Len(bs) : MixedTo(bs, n)
    BY <1>1, <2>1 DEF Mixing
  <2>3. blocks \in Seq(Block) /\ KeyBlocks' = bs
    BY <1>1, <1>3, <2>1 DEF Mixing
  <2>4. CASE BlockStart
    BY <2>2, <2>3, <2>4, BlockStarts DEF Mixing
  <2>5. CASE Expand
    BY <2>2, <2>3, <2>5, WordFollows DEF Mixing
  <2>6. CASE Round
    BY <2>2, <2>3, <2>6, RoundFollows DEF Mixing
  <2>7. CASE BlockEnd
    <3>1. n + 1 \in 0 .. Len(bs) /\ MixedTo(bs, n + 1)' /\ blocks' \in Seq(Block)
      BY <2>2, <2>3, <2>7, BlockEnds
    <3> QED BY <2>3, <3>1 DEF Mixing
  <2> QED BY <1>1, <2>4, <2>5, <2>6, <2>7 DEF BlockStep
<1> QED BY <1>1, <1>2, <1>3, <1>4, <1>5 DEF AcceptInv
---------------------------------------------------------------------------
(* The digest is encoded, and never refused. *)
LEMMA EncodeStarts == ASSUME AcceptInv, Encode PROVE AcceptInv'
<1>1. /\ UNCHANGED <<request, reply>> /\ UNCHANGED sha1Vars /\ UNCHANGED blockVars
      /\ hs = "mix" /\ hs' = "encode" /\ blocks = <<>> /\ EncodeCall(BytesOf(hash)) /\ Mixing
  BY DEF Encode, AcceptInv
<1>2. Sha1Inv' /\ KeyBlocks' = KeyBlocks /\ msg' = msg /\ word' = word
  BY <1>1, Sha1Same DEF AcceptInv, sha1Vars
<1>3. HasKey' /\ KeysFit' /\ reply' = NoReply
  BY <1>1, <1>2, StillAnswering
<1>4. PICK bs \in Seq(Block) : bs = KeyBlocks
  BY <1>1, KeyFits
<1>5. PICK n \in 0 .. Len(bs) : MixedTo(bs, n)
  BY <1>1, <1>4 DEF Mixing
<1>6. Len(bs) \in Nat /\ n \in Nat
  BY LenProperties
<1>7. n = Len(bs)
  <2>1. Len(blocks) = Len(bs) - n /\ Len(<<>>) = 0
    BY <1>5, EmptySeq DEF MixedTo
  <2>2. Len(bs) - n = 0
    BY <1>1, <2>1
  <2> QED BY <1>6, <2>2
<1>8. NotMixing'
  <2>1. W = <<>>
    <3>1. ~(n < Len(bs))
      BY <1>6, <1>7
    <3> QED BY <1>5, <3>1 DEF MixedTo
  <2>2. round = 0
    BY <1>5, <2>1 DEF MixedTo
  <2> QED BY <1>1, <2>1, <2>2 DEF NotMixing, blockVars
<1>9. hash = HashOf(bs, Len(bs)) /\ HashOf(bs, Len(bs)) \in Hash
  <2>1. hash = HashOf(bs, n)
    BY <1>5 DEF MixedTo
  <2>2. HashOf(bs, n) \in Hash
    BY HashUnfold
  <2> QED BY <1>7, <2>1, <2>2
<1> DEFINE d == BytesOf(hash)
<1>10. d \in Seq(Byte) /\ Len(d) = 20 /\ KeyDigest' = d
  <2>1. hash \in Hash /\ hash = HashOf(bs, Len(bs))
    BY <1>9
  <2>2. KeyDigest' = BytesOf(HashOf(bs, Len(bs)))
    BY <1>2, <1>4 DEF KeyDigest
  <2>3. KeyDigest' = d
    BY <2>1, <2>2, Zenon
  <2> QED BY <2>1, <2>3, BytesTypes
<1>11. B64Inv'
  <2>1. EncodeCall(d)
    BY <1>1
  <2> HIDE DEF d
  <2>2. Len(d) < SizeMod
    BY <1>10, DigestFits
  <2> QED BY <1>10, <2>1, <2>2, EncodeCallKeeps DEF AcceptInv
<1>12. Answering'
  <2>1. EncodeCall(d)
    BY <1>1
  <2>2. PICK e : e = d
    OBVIOUS
  <2> HIDE DEF d
  <2>3. ~(Olen(Len(e)) < Len(e))
    <3>1. Len(e) = 20 /\ Olen(20) >= 20 /\ Olen(20) \in Int
      BY <1>10, <2>2, DigestFits, OlenTypes
    <3> QED BY <3>1
  <2>4. EncodeCall(e)
    BY <2>1, <2>2
  <2>5. b64' = "encode" /\ src' = e /\ out' = <<>>
    BY <2>3, <2>4 DEF EncodeCall, Begin64
  <2>6. Encoded'
    BY <2>5 DEF Encoded
  <2> QED BY <1>10, <2>2, <2>5, <2>6 DEF Answering
<1> QED BY <1>1, <1>2, <1>3, <1>8, <1>11, <1>12 DEF AcceptInv

LEMMA EncodeRight == ASSUME AcceptInv, EncodeStep PROVE AcceptInv'
<1>1. /\ UNCHANGED <<request, reply>> /\ UNCHANGED sha1Vars /\ UNCHANGED blockVars
      /\ hs = "encode" /\ hs' = "encode" /\ (EncodeBlock \/ EncodeEnd)
  BY DEF EncodeStep, handshakeVars
<1>2. NotMixing' /\ Answering /\ b64 = "encode"
  BY <1>1, BlocksSame DEF AcceptInv, EncodeBlock, EncodeEnd
<1>3. Sha1Inv' /\ KeyBlocks' = KeyBlocks /\ msg' = msg /\ word' = word /\ KeyDigest' = KeyDigest
  BY <1>1, Sha1Same DEF AcceptInv, sha1Vars, KeyDigest
<1>4. HasKey' /\ KeysFit' /\ reply' = NoReply
  BY <1>1, <1>3, StillAnswering
<1>5. src = KeyDigest /\ Encoded /\ Encoding
  BY <1>2 DEF Answering, AcceptInv, B64Inv
<1>6. CASE EncodeBlock
  <2>1. b64' = "encode" /\ src' = src
    BY <1>2, <1>6 DEF EncodeBlock
  <2>2. B64Inv' /\ Encoded'
    BY <1>5, <1>6, EncodeBlockKeeps, EncodeBlockWrites DEF AcceptInv
  <2>3. Answering'
    BY <1>3, <1>5, <2>1, <2>2 DEF Answering
  <2> QED BY <1>1, <1>2, <1>3, <1>4, <2>2, <2>3 DEF AcceptInv
<1>7. CASE EncodeEnd
  <2>1. b64' = "done" /\ made'.src = src /\ made'.text = out'
    BY <1>7 DEF EncodeEnd, Return64
  <2>2. B64Inv' /\ IsText(made'.src, made'.text)
    BY <1>5, <1>7, EncodeEndKeeps, EncodeEndWrites DEF AcceptInv
  <2>3. Answering'
    <3>1. IsText(KeyDigest, out')
      BY <1>5, <2>1, <2>2
    <3>2. IsText(KeyDigest, out)'
      BY <1>3, <3>1 DEF IsText
    <3> QED BY <2>1, <3>2 DEF Answering
  <2> QED BY <1>1, <1>2, <1>3, <1>4, <2>2, <2>3 DEF AcceptInv
<1> QED BY <1>1, <1>6, <1>7

LEMMA AnswerRight == ASSUME AcceptInv, SendAnswer PROVE AcceptInv'
<1>1. /\ request' = request /\ UNCHANGED sha1Vars /\ UNCHANGED blockVars
      /\ hs = "encode" /\ hs' = "idle" /\ Taken
      /\ reply' = [end |-> "accepted", accept |-> SubSeq(out, 1, Len(out) - 1)]
  BY DEF SendAnswer, AcceptText
<1>2. NotMixing' /\ Answering
  BY <1>1, BlocksSame DEF AcceptInv
<1>3. Sha1Inv' /\ KeysFit'
  BY <1>1, Sha1Same DEF AcceptInv
<1>4. b64 = "done" /\ b64' = "idle" /\ B64Inv'
  BY <1>1, EndsKeep DEF Taken, AcceptInv
<1>5. PICK k \in SecKey(request.tokens) : OfKey(k)
  BY <1>1 DEF AcceptInv, HasKey
<1>6. request \in Requests /\ k \in DOMAIN KeyBytes /\ msg = KeyBytes[k] \o magicString
  BY <1>1, <1>5 DEF AcceptInv, HasKey, OfKey
<1>7. SubSeq(out, 1, Len(out) - 1) = StandardAnswer(k)
  <2>1. KeyBlocks \in Seq(Block)
    BY <1>1, KeyFits
  <2>2. KeyDigest \in Seq(Byte) /\ Len(KeyDigest) = 20
    <3>1. PICK bs \in Seq(Block) : bs = KeyBlocks
      BY <2>1
    <3>2. HashOf(bs, Len(bs)) \in Hash
      <4>1. Len(bs) \in 0 .. Len(bs)
        BY LenProperties
      <4> QED BY <4>1, HashUnfold
    <3>3. BytesOf(HashOf(bs, Len(bs))) \in Seq(Byte) /\ Len(BytesOf(HashOf(bs, Len(bs)))) = 20
      BY <3>2, BytesTypes
    <3> QED BY <3>1, <3>3 DEF KeyDigest
  <2>3. IsText(KeyDigest, out)
    BY <1>2, <1>4 DEF Answering
  <2>4. SubSeq(out, 1, Len(out) - 1) = Letters28(KeyDigest)
    BY <2>2, <2>3, TextOfDigest
  <2>5. StandardAnswer(k) = Letters28(KeyDigest)
    BY <1>6, Zenon DEF StandardAnswer, KeyDigest, KeyBlocks
  <2> QED BY <2>4, <2>5
<1>8. Replied'
  <2>1. reply' = [end |-> "accepted", accept |-> StandardAnswer(k)]
    BY <1>1, <1>7
  <2> QED BY <1>1, <1>5, <1>6, <2>1 DEF Replied
<1> QED BY <1>1, <1>2, <1>3, <1>4, <1>8 DEF AcceptInv

LEMMA AcceptStutters == ASSUME AcceptInv, UNCHANGED acceptVars PROVE AcceptInv'
<1>1. /\ UNCHANGED <<hs, request, reply>> /\ UNCHANGED sha1Vars /\ UNCHANGED blockVars /\ UNCHANGED b64Vars
  BY DEF acceptVars, handshakeVars
<1>2. /\ Sha1Inv' /\ KeysFit' /\ KeyBlocks' = KeyBlocks /\ KeyDigest' = KeyDigest /\ msg' = msg
      /\ UNCHANGED <<Corrupted, Computed, offered, hashed>>
  BY <1>1, Sha1Same DEF AcceptInv, KeyDigest
<1>3. HasKey' <=> HasKey
  BY <1>1, Sha1Same DEF HasKey
<1>4. (NotMixing' <=> NotMixing) /\ (Mixing' <=> Mixing)
  BY <1>1, <1>2 DEF blockVars, NotMixing, Mixing, MixedTo, BlockMixing
<1>5. B64Inv' /\ b64' = b64 /\ (Answering' <=> Answering)
  BY <1>1, <1>2, B64Same DEF AcceptInv, Answering, IsText
<1>6. Replied' <=> Replied
  BY <1>1 DEF Replied
<1> QED BY <1>1, <1>2, <1>3, <1>4, <1>5, <1>6 DEF AcceptInv

(* Whatever the requests are and however TCP has cut them, for any keys whose *)
(* bits a word can count: the answer wsHandshake sends to a client whose key  *)
(* came whole is the one RFC 6455 gives, and without a key there is none.     *)
THEOREM AnswersAreRight == AcceptSpec => []AcceptKeyRight
<1>1. AcceptInit /\ KeysFit => AcceptInv
  BY StartsRight
<1>2. AcceptInv /\ [AcceptNext]_acceptVars => AcceptInv'
  <2> SUFFICES ASSUME AcceptInv, [AcceptNext]_acceptVars PROVE AcceptInv'
    OBVIOUS
  <2>1. CASE \E r \in Requests : wsHandshake(r)
    BY <2>1, HandshakeRight
  <2>2. CASE HashInput \/ HashByte
    BY <2>2, InputRight
  <2>3. CASE HashResult
    BY <2>3, ResultRight
  <2>4. CASE HashMix
    BY <2>4, MixStarts
  <2>5. CASE HashStep
    BY <2>5, MixRight
  <2>6. CASE Encode
    BY <2>6, EncodeStarts
  <2>7. CASE EncodeStep
    BY <2>7, EncodeRight
  <2>8. CASE SendAnswer
    BY <2>8, AnswerRight
  <2>9. CASE UNCHANGED acceptVars
    BY <2>9, AcceptStutters
  <2> QED BY <2>1, <2>2, <2>3, <2>4, <2>5, <2>6, <2>7, <2>8, <2>9 DEF AcceptNext
<1>3. AcceptInv => AcceptKeyRight
  <2> SUFFICES ASSUME AcceptInv, reply.end # "none"
               PROVE  /\ request.whole => reply = [end |-> "accepted", accept |-> Answers[request.key]]
                      /\ request.key = "none" => reply.end = "killed"
    BY DEF AcceptKeyRight
  <2>1. Replied
    BY DEF AcceptInv, NoReply
  <2>2. request \in Requests
    BY <2>1 DEF Replied
  <2>3. ASSUME request.whole PROVE reply = [end |-> "accepted", accept |-> Answers[request.key]]
    <3>1. SecKey(request.tokens) = {request.key}
      BY <2>2, <2>3, KeyFound
    <3>2. Answers[request.key] = StandardAnswer(request.key)
      BY <2>2, <2>3, AcceptAssumption DEF AcceptAssumption
    <3> QED BY <2>1, <3>1, <3>2 DEF Replied
  <2>4. ASSUME request.key = "none" PROVE reply.end = "killed"
    <3>1. SecKey(request.tokens) = {}
      BY <2>2, <2>4, NoKey
    <3> QED BY <2>1, <3>1 DEF Replied
  <2> QED BY <2>3, <2>4
<1> QED BY <1>1, <1>2, <1>3, PTL DEF AcceptSpec
=================================================================================
