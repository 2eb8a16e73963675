------------------------------ MODULE Sha1Block ------------------------------
(***************************************************************************)
(* What SHA1ProcessMessageBlock (src/server/sha1.c) makes of blocks of 64  *)
(* bytes.  A word of 32 bits is the pair of its halves; one step is one    *)
(* turn of a loop.  The blocks are given all at once, where the code mixes *)
(* each as soon as it is full: nothing reads the hash in between.          *)
(***************************************************************************)
EXTENDS Integers, Sequences

VARIABLES
  blocks,      \* the blocks still to be mixed; the first one is under way if W is not empty
  hash,        \* Intermediate_Hash
  W, round,    \* the word sequence, and the number of rounds done
  regs         \* A, B, C, D, E

blockVars == <<blocks, hash, W, round, regs>>

Half == 65536
WordAt(b, k) == <<b[k] * 256 + b[k + 1], b[k + 2] * 256 + b[k + 3]>>
Plus(x, y) ==
  LET low == x[2] + y[2] IN <<(x[1] + y[1] + (low \div Half)) % Half, low % Half>>

(* An operation on two bits is a function of their sum; here it works on     *)
(* numbers of 2, 4, 8 and 16 bits, and on the halves of words.               *)
Bits2(op, x, y) == op[(x % 2) + (y % 2)] + 2 * op[((x \div 2) % 2) + ((y \div 2) % 2)]
Bits4(op, x, y) == Bits2(op, x, y) + 4 * Bits2(op, x \div 4, y \div 4)
Bits8(op, x, y) == Bits4(op, x, y) + 16 * Bits4(op, x \div 16, y \div 16)
Bits16(op, x, y) == Bits8(op, x, y) + 256 * Bits8(op, x \div 256, y \div 256)
BitByBit(op, x, y) == <<Bits16(op, x[1], y[1]), Bits16(op, x[2], y[2])>>

XorW(x, y) == BitByBit([n \in 0 .. 2 |-> n % 2], x, y)
AndW(x, y) == BitByBit([n \in 0 .. 2 |-> n \div 2], x, y)
OrW(x, y) == BitByBit([n \in 0 .. 2 |-> (n + 1) \div 2], x, y)
NotW(x) == <<Half - 1 - x[1], Half - 1 - x[2]>>

ShiftHalf(n, hi, lo) == ((hi * 2 ^ n) % Half) + (lo \div 2 ^ (16 - n))
SHA1CircularShift(n, x) ==
  IF n < 16 THEN <<ShiftHalf(n, x[1], x[2]), ShiftHalf(n, x[2], x[1])>>
  ELSE <<ShiftHalf(n - 16, x[2], x[1]), ShiftHalf(n - 16, x[1], x[2])>>

H0 == <<<<26437, 8961>>, <<61389, 43913>>, <<39098, 56574>>, <<4146, 21622>>, <<50130, 57840>>>>

K(t) == IF t < 20 THEN <<23170, 31129>> ELSE IF t < 40 THEN <<28377, 60321>>
        ELSE IF t < 60 THEN <<36635, 48348>> ELSE <<51810, 49622>>

F(t, b, c, d) ==
  IF t < 20 THEN OrW(AndW(b, c), AndW(NotW(b), d))
  ELSE IF t \in 40 .. 59 THEN OrW(OrW(AndW(b, c), AndW(b, d)), AndW(c, d))
  ELSE XorW(XorW(b, c), d)

(* The word that follows those of w, and the registers after one more round *)
(* than t, with the word x.                                                  *)
NextWord(w) ==
  LET t == Len(w) + 1 IN
  SHA1CircularShift(1, XorW(XorW(w[t - 3], w[t - 8]), XorW(w[t - 14], w[t - 16])))
Turned(t, r, x) ==
  LET sum == Plus(Plus(SHA1CircularShift(5, r[1]), F(t, r[2], r[3], r[4])), Plus(Plus(r[5], x), K(t)))
  IN  <<sum, r[1], SHA1CircularShift(30, r[2]), r[3], r[4]>>

BlockInit == blocks = <<>> /\ hash = H0 /\ W = <<>> /\ round = 0 /\ regs = H0

MixCall(bs) ==
  /\ blocks = <<>> /\ blocks' = bs /\ hash' = H0
  /\ UNCHANGED <<W, round, regs>>

FirstWords(b) == [k \in 1 .. 16 |-> WordAt(b, (k - 1) * 4)]
Added(h, r) == [v \in 1 .. 5 |-> Plus(h[v], r[v])]

BlockStart ==
  /\ blocks # <<>> /\ W = <<>>
  /\ W' = FirstWords(Head(blocks)) /\ regs' = hash
  /\ UNCHANGED <<blocks, hash, round>>

(* W[t] of the code is the element t + 1. *)
Expand ==
  /\ Len(W) \in 16 .. 79 /\ W' = Append(W, NextWord(W))
  /\ UNCHANGED <<blocks, hash, round, regs>>

Round ==
  /\ Len(W) = 80 /\ round < 80 /\ round' = round + 1
  /\ regs' = Turned(round, regs, W[round + 1])
  /\ UNCHANGED <<blocks, hash, W>>

BlockEnd ==
  /\ round = 80
  /\ hash' = Added(hash, regs) /\ blocks' = Tail(blocks)
  /\ W' = <<>> /\ round' = 0 /\ regs' = H0

BlockStep == BlockStart \/ Expand \/ Round \/ BlockEnd

(* The 20 bytes of a hash, as SHA1Result copies them out. *)
BytesOf(h) ==
  [k \in 1 .. 20 |->
     LET half == h[(k + 3) \div 4][IF (k - 1) % 4 < 2 THEN 1 ELSE 2]
     IN  IF k % 2 = 1 THEN half \div 256 ELSE half % 256]
---------------------------------------------------------------------------
(* The hash of the blocks of bs by the standard, all at once: the first words *)
(* of a block and n more, the registers in n rounds with the words w, and the *)
(* hash of the first n blocks.                                                *)
Words(b, n) ==
  LET w[k \in Nat] == IF k = 0 THEN FirstWords(b) ELSE LET v == w[k - 1] IN Append(v, NextWord(v))
  IN  w[n]
Rounds(h, w, n) ==
  LET r[k \in 0 .. Len(w)] ==
        IF k = 0 THEN <<h>> ELSE LET q == r[k - 1] IN Append(q, Turned(k - 1, q[k], w[k]))
  IN  r[n]
HashOf(bs, n) ==
  LET h[k \in 0 .. Len(bs)] ==
        IF k = 0 THEN H0 ELSE LET g == h[k - 1] IN Added(g, Rounds(g, Words(bs[k], 64), 80)[81])
  IN  h[n]
=============================================================================
