-------------------------------- MODULE Sha1 --------------------------------
(***************************************************************************)
(* The SHA-1 context, src/server/sha1.c: how a message that comes in       *)
(* pieces is cut into blocks of 64 bytes, and how it is padded.  What      *)
(* SHA1ProcessMessageBlock makes of a block is in Sha1Block; here the      *)
(* intermediate hash is the sequence of the blocks it has been given       *)
(* since SHA1Reset, in order.                                              *)
(*                                                                         *)
(* A caller resets the context for a message, gives it the bytes in any    *)
(* number of calls, and may ask for the digest at any time, also twice, or *)
(* go on after it.                                                         *)
(***************************************************************************)
EXTENDS Integers, Sequences

CONSTANTS
  Messages,   \* the messages callers hash
  Cuts,       \* how many bytes they give in one call
  WordSizes   \* one more than the largest uint32_t (2^32 in the code)

Octet == 0 .. 255

ASSUME Sha1Assumption ==
  /\ Messages \subseteq Seq(Octet) /\ Cuts \subseteq Nat
  /\ WordSizes \subseteq Nat /\ \A w \in WordSizes : w > 0 /\ w % 8 = 0

VARIABLES
  Length_Low, Length_High, Message_Block_Index, Message_Block,
  Computed, Corrupted,
  hashed,    \* the blocks in Intermediate_Hash
  word,      \* the modulus of the two lengths, which never changes
  msg,       \* the message of the caller
  offered,   \* how many bytes of it the calls since SHA1Reset were about
  todo,      \* how many of them the current SHA1Input has still to read
  ret        \* what the last call returned

lengths == <<Length_Low, Length_High>>
sha1Vars == <<lengths, Message_Block_Index, Message_Block, Computed, Corrupted, hashed,
              word, msg, offered, todo, ret>>

shaSuccess == 0
shaNull == 1
shaStateError == 3

BlockIndex == 0 .. 63
Zeros == [k \in BlockIndex |-> 0]

Sha1Init ==
  /\ word \in WordSizes
  /\ Length_Low = 0 /\ Length_High = 0 /\ Message_Block_Index = 0 /\ Message_Block = Zeros
  /\ Computed = 0 /\ Corrupted = 0 /\ hashed = <<>>
  /\ msg = <<>> /\ offered = 0 /\ todo = 0 /\ ret = [op |-> "reset", code |-> shaSuccess]

(* The bytes of an earlier message stay in Message_Block. *)
SHA1Reset(m) ==
  /\ todo = 0
  /\ Length_Low' = 0 /\ Length_High' = 0 /\ Message_Block_Index' = 0
  /\ Computed' = 0 /\ Corrupted' = 0 /\ hashed' = <<>>
  /\ msg' = m /\ offered' = 0 /\ ret' = [op |-> "reset", code |-> shaSuccess]
  /\ UNCHANGED <<Message_Block, word, todo>>
---------------------------------------------------------------------------
(* A call with the next n bytes of the message, and one turn of its loop. *)
SHA1Input(n) ==
  /\ todo = 0 /\ offered + n <= Len(msg)
  /\ offered' = offered + n
  /\ \/ /\ n = 0 /\ ret' = [op |-> "input", code |-> shaSuccess]
        /\ UNCHANGED <<Corrupted, todo>>
     \/ /\ n > 0 /\ Computed # 0
        /\ Corrupted' = shaStateError /\ ret' = [op |-> "input", code |-> shaStateError]
        /\ UNCHANGED todo
     \/ /\ n > 0 /\ Computed = 0 /\ Corrupted # 0
        /\ ret' = [op |-> "input", code |-> Corrupted]
        /\ UNCHANGED <<Corrupted, todo>>
     \/ /\ n > 0 /\ Computed = 0 /\ Corrupted = 0
        /\ todo' = n /\ ret' = [op |-> "input", code |-> shaSuccess]
        /\ UNCHANGED Corrupted
  /\ UNCHANGED <<lengths, Message_Block_Index, Message_Block, Computed, hashed, word, msg>>

InputByte ==
  /\ todo > 0 /\ Corrupted = 0
  /\ LET block == [Message_Block EXCEPT ![Message_Block_Index] = msg[offered - todo + 1]]
         low == (Length_Low + 8) % word
         high == IF low = 0 THEN (Length_High + 1) % word ELSE Length_High
     IN
     /\ Message_Block' = block /\ Length_Low' = low /\ Length_High' = high
     /\ Corrupted' = IF low = 0 /\ high = 0 THEN shaNull ELSE 0
     /\ IF Message_Block_Index + 1 = 64
        THEN hashed' = Append(hashed, block) /\ Message_Block_Index' = 0
        ELSE Message_Block_Index' = Message_Block_Index + 1 /\ UNCHANGED hashed
  /\ todo' = todo - 1
  /\ UNCHANGED <<Computed, word, msg, offered, ret>>

(* The message has become too long: the rest of the call is not read.  The *)
(* call succeeds all the same.                                             *)
InputStops ==
  /\ todo > 0 /\ Corrupted # 0 /\ todo' = 0
  /\ UNCHANGED <<lengths, Message_Block_Index, Message_Block, Computed, Corrupted, hashed>>
  /\ UNCHANGED <<word, msg, offered, ret>>
---------------------------------------------------------------------------
(* The four bytes of a word. *)
Bytes4(x) == <<(x \div 16777216) % 256, (x \div 65536) % 256, (x \div 256) % 256, x % 256>>
LengthBytes(high, low) == Bytes4(high) \o Bytes4(low)

(* The blocks SHA1PadMessage processes: two if the length does not fit. *)
PadFirst ==
  [k \in BlockIndex |-> IF k < Message_Block_Index THEN Message_Block[k]
                        ELSE IF k = Message_Block_Index THEN 128 ELSE 0]
LastOf(b) == [k \in BlockIndex |-> IF k < 56 THEN b[k] ELSE LengthBytes(Length_High, Length_Low)[k - 55]]

PadBlocks_56 ==
  IF Message_Block_Index > 56 THEN <<PadFirst, LastOf(Zeros)>> ELSE <<LastOf(PadFirst)>>
PadBlocks ==
  IF Message_Block_Index > 55 THEN <<PadFirst, LastOf(Zeros)>> ELSE <<LastOf(PadFirst)>>

SHA1Result ==
  /\ todo = 0 /\ ret' = [op |-> "result", code |-> Corrupted]
  /\ IF Corrupted = 0 /\ Computed = 0
     THEN /\ hashed' = hashed \o PadBlocks
          /\ Message_Block_Index' = 0 /\ Message_Block' = Zeros
          /\ Length_Low' = 0 /\ Length_High' = 0 /\ Computed' = 1
     ELSE UNCHANGED <<lengths, Message_Block_Index, Message_Block, Computed, hashed>>
  /\ UNCHANGED <<Corrupted, word, msg, offered, todo>>
---------------------------------------------------------------------------
Sha1Call == \/ \E m \in Messages : SHA1Reset(m)
            \/ \E n \in Cuts : SHA1Input(n)
            \/ SHA1Result
Sha1Next == Sha1Call \/ InputByte \/ InputStops
Sha1Spec == Sha1Init /\ [][Sha1Next]_sha1Vars
---------------------------------------------------------------------------
(* The padding of FIPS 180-1: n bytes of the message m, one bit, zeros, and  *)
(* the number of bits in 8 bytes, here as two words.                         *)
StandardByte(m, n, high, low, j) ==
  LET end == 64 * ((n + 8) \div 64 + 1) IN
  IF j < n THEN m[j + 1] ELSE IF j = n THEN 128 ELSE IF j < end - 8 THEN 0
  ELSE LengthBytes(high, low)[j - (end - 8) + 1]

StandardBlocks(m, n, high, low) ==
  [b \in 1 .. (n + 8) \div 64 + 1 |->
     [k \in BlockIndex |-> StandardByte(m, n, high, low, 64 * (b - 1) + k)]]

(* A digest that SHA1Result hands out is of exactly the bytes that were       *)
(* given since SHA1Reset, padded as the standard says, whatever the cuts and  *)
(* whatever the context was used for before; it is the same digest when asked *)
(* for again, and there is none once a call had to refuse bytes.              *)
DigestStandard ==
  ret = [op |-> "result", code |-> shaSuccess] =>
    \E high \in 0 .. word - 1 :
      LET low == 8 * offered - high * word IN
      low \in 0 .. word - 1 /\ hashed = StandardBlocks(msg, offered, high, low)
=============================================================================
