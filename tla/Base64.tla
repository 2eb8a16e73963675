------------------------------- MODULE Base64 -------------------------------
(***************************************************************************)
(* base64_encode and base64_decode, src/server/base64.c.  Text and data    *)
(* are sequences of bytes; one step is one turn of a loop.  Both functions *)
(* allocate their output first, from a formula, and then write without any *)
(* check: olen is what was allocated, out what has been written.           *)
(***************************************************************************)
EXTENDS Integers, Sequences, FiniteSets

CONSTANTS
  Sources,  \* what callers encode
  Texts,    \* what callers decode, besides what base64_encode has just given them
  SizeMod   \* one more than the largest size_t (2^64 in the code)

Byte == 0 .. 255

ASSUME Base64Assumption ==
  /\ Sources \subseteq Seq(Byte) /\ \A s \in Sources : Len(s) < SizeMod
  /\ Texts \subseteq Seq(Byte)
  /\ SizeMod \in Nat /\ SizeMod >= 128 /\ SizeMod % 4 = 0

VARIABLES
  b64,        \* "idle", the function that runs, or "done" when it has returned
  src, at,    \* its argument, and how many bytes of it have been read
  out, olen, line_len,
  block, pad,
  ok,         \* whether the last call succeeded; it then returned out
  top,        \* history: how many bytes of the output have been written
  made        \* history: the source just encoded, and its text

b64Vars == <<b64, src, at, out, olen, line_len, block, pad, ok, top, made>>

LF == 10
EQUALS == 61

(* base64_table and its inverse dtable, where 128 marks other bytes. *)
base64_table ==
  [i \in 0 .. 63 |->
     IF i < 26 THEN 65 + i ELSE IF i < 52 THEN 71 + i ELSE IF i < 62 THEN i - 4
     ELSE IF i = 62 THEN 43 ELSE 47]
dtable ==
  [c \in Byte |->
     IF c = EQUALS THEN 0
     ELSE IF \E i \in 0 .. 63 : base64_table[i] = c
          THEN CHOOSE i \in 0 .. 63 : base64_table[i] = c ELSE 128]

NothingMade == [src |-> <<>>, text |-> <<>>]

B64Init ==
  /\ b64 = "idle" /\ src = <<>> /\ at = 0 /\ out = <<>> /\ olen = 0 /\ line_len = 0
  /\ block = <<>> /\ pad = 0 /\ ok = FALSE /\ top = 0 /\ made = NothingMade

Begin64(f, s, n) ==
  /\ b64' = f /\ src' = s /\ at' = 0 /\ out' = <<>> /\ olen' = n
  /\ line_len' = 0 /\ block' = <<>> /\ pad' = 0 /\ ok' = FALSE /\ top' = 0 /\ UNCHANGED made

Return64(success, bytes) ==
  /\ b64' = "done" /\ ok' = success /\ out' = bytes
  /\ src' = <<>> /\ at' = 0 /\ line_len' = 0 /\ block' = <<>> /\ pad' = 0

(* The caller is done with what was returned. *)
Taken ==
  /\ b64 = "done" /\ b64' = "idle"
  /\ out' = <<>> /\ olen' = 0 /\ ok' = FALSE /\ top' = 0 /\ made' = NothingMade
  /\ UNCHANGED <<src, at, line_len, block, pad>>

Refuse == Return64(FALSE, <<>>) /\ olen' = 0 /\ top' = 0 /\ made' = NothingMade
---------------------------------------------------------------------------
(* The length base64_encode allocates, in the arithmetic of size_t. *)
Blocks4(len) == ((len * 4) % SizeMod) \div 3 + 4
Olen_NoFeeds(len) == (Blocks4(len) + 1) % SizeMod
Olen(len) == (Blocks4(len) + Blocks4(len) \div 72 + 1) % SizeMod

EncodeCall(s) ==
  /\ IF Olen(Len(s)) < Len(s) THEN Refuse ELSE Begin64("encode", s, Olen(Len(s)))

Letters(x, y, z) ==
  <<base64_table[x \div 4], base64_table[(x % 4) * 16 + y \div 16],
    base64_table[(y % 16) * 4 + z \div 64], base64_table[z % 64]>>

EncodeBlock ==
  /\ b64 = "encode" /\ Len(src) - at >= 3
  /\ LET quad == Letters(src[at + 1], src[at + 2], src[at + 3]) IN
     IF line_len + 4 >= 72
     THEN out' = out \o Append(quad, LF) /\ line_len' = 0
     ELSE out' = out \o quad /\ line_len' = line_len + 4
  /\ at' = at + 3 /\ top' = Len(out')
  /\ UNCHANGED <<b64, src, olen, block, pad, ok, made>>

(* One or two bytes are left over, or none. *)
Rest ==
  CASE Len(src) - at = 0 -> <<>>
    [] Len(src) - at = 1 -> SubSeq(Letters(src[at + 1], 0, 0), 1, 2) \o <<EQUALS, EQUALS>>
    [] Len(src) - at = 2 -> SubSeq(Letters(src[at + 1], src[at + 2], 0), 1, 3) \o <<EQUALS>>

Feed == IF line_len + Len(Rest) > 0 THEN <<LF>> ELSE <<>>

EncodeEnd ==
  /\ b64 = "encode" /\ Len(src) - at < 3
  /\ Return64(TRUE, out \o Rest \o Feed)
  /\ top' = Len(out') + 1 /\ made' = [src |-> src, text |-> out']
  /\ UNCHANGED olen
---------------------------------------------------------------------------
Valid(c) == dtable[c] # 128
Count(t) == Cardinality({k \in 1 .. Len(t) : Valid(t[k])})

DecodeCall(t) ==
  /\ IF Count(t) = 0 \/ Count(t) % 4 # 0 THEN Refuse ELSE Begin64("decode", t, (Count(t) \div 4) * 3)

DecodeSkip ==
  /\ b64 = "decode" /\ at < Len(src) /\ ~Valid(src[at + 1])
  /\ at' = at + 1
  /\ UNCHANGED <<b64, src, out, olen, line_len, block, pad, ok, top, made>>

Padded_Never(c) == pad
Padded(c) == IF c = EQUALS THEN pad + 1 ELSE pad

DecodeLetter ==
  /\ b64 = "decode" /\ at < Len(src) /\ Valid(src[at + 1]) /\ Len(block) < 3
  /\ at' = at + 1 /\ block' = Append(block, dtable[src[at + 1]]) /\ pad' = Padded(src[at + 1])
  /\ UNCHANGED <<b64, src, out, olen, line_len, ok, top, made>>

ThreeBytes(w, x, y, z) ==
  <<w * 4 + x \div 16, ((x * 16) % 256) + y \div 4, ((y * 64) % 256) + z>>

(* The fourth letter of a block: three bytes, of which a padded block, the  *)
(* last one, takes one or two back.                                          *)
DecodeBlock ==
  /\ b64 = "decode" /\ at < Len(src) /\ Valid(src[at + 1]) /\ Len(block) = 3
  /\ LET bytes == ThreeBytes(block[1], block[2], block[3], dtable[src[at + 1]])
         pads == Padded(src[at + 1]) IN
     \/ /\ pads = 0 /\ at' = at + 1 /\ out' = out \o bytes /\ block' = <<>>
        /\ top' = Len(out') /\ UNCHANGED <<b64, src, olen, line_len, pad, ok, made>>
     \/ /\ pads \in 1 .. 2 /\ Return64(TRUE, out \o SubSeq(bytes, 1, 3 - pads))
        /\ top' = Len(out) + 3 /\ UNCHANGED <<olen, made>>
     \/ pads > 2 /\ Refuse

DecodeEnd ==
  /\ b64 = "decode" /\ at = Len(src)
  /\ Return64(TRUE, out)
  /\ UNCHANGED <<olen, top, made>>

(* There is no memory for the output. *)
NoMemory == b64 = "idle" /\ Refuse

B64Call ==
  \/ /\ b64 = "idle"
     /\ (\E s \in Sources : EncodeCall(s)) \/ (\E t \in Texts : DecodeCall(t))
  \/ b64 = "done" /\ made # NothingMade /\ DecodeCall(made.text)
  \/ NoMemory \/ Taken
B64Step == EncodeBlock \/ EncodeEnd \/ DecodeSkip \/ DecodeLetter \/ DecodeBlock \/ DecodeEnd
B64Next == B64Call \/ B64Step
B64Spec == B64Init /\ [][B64Next]_b64Vars
---------------------------------------------------------------------------
(* Whatever is encoded or decoded, also when size_t wraps, what is written   *)
(* (with the NUL of base64_encode) stays within what was allocated.          *)
OutputFits == top <= olen

(* base64_decode gives back what base64_encode was given, line feeds and      *)
(* padding included; only the empty text, which it refuses, is not.          *)
ReadsBack ==
  [][ made.src # <<>> /\ b64' = "done" => ok' /\ out' = made.src ]_b64Vars
=============================================================================
