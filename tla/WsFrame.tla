------------------------------- MODULE WsFrame -------------------------------
(***************************************************************************)
(* The header of a WebSocket frame: how wsSendPacket writes one and        *)
(* wsReadPacket reads one, byte by byte, with the header a browser writes  *)
(* and the way it reads one (RFC 6455, outside src/).                      *)
(*                                                                         *)
(* A header is a tuple of bytes: FIN and the opcode, the mask bit and a    *)
(* 7-bit code, the extended length in 0, 2 or 8 bytes, and from a client   *)
(* the four bytes of the mask key, of which only the size matters here.    *)
(***************************************************************************)
EXTENDS Integers, Sequences

WS_MAX_HEADER_LEN == 14
MAX_WS_PACKET_LENGTH == 52428800
SHRT_MAX == 32767
FIN == 128
MASK == 128
KeySize == 4

(* Byte k of n, least significant first: what htons and htonl put in order. *)
Byte0(n) == n % 256
Byte1(n) == (n \div 256) % 256
Byte2(n) == (n \div 65536) % 256
Byte3(n) == (n \div 16777216) % 256

Short(s, i) == 256 * s[i] + s[i + 1]
Long(s, i) == 16777216 * s[i] + 65536 * s[i + 1] + 256 * s[i + 2] + s[i + 3]
---------------------------------------------------------------------------
(* wsSendPacket: FIN set, never masked; of 64 bits only the low 32 are used. *)
wsSendPacket_HostOrder(op, n) ==
  IF n < 126 THEN <<FIN + op, n>>
  ELSE IF n < SHRT_MAX THEN <<FIN + op, 126, Byte0(n), Byte1(n)>>
  ELSE <<FIN + op, 127, 0, 0, 0, 0, Byte0(n), Byte1(n), Byte2(n), Byte3(n)>>

wsSendPacket(op, n) ==
  IF n < 126 THEN <<FIN + op, n>>
  ELSE IF n < SHRT_MAX THEN <<FIN + op, 126, Byte1(n), Byte0(n)>>
  ELSE <<FIN + op, 127, 0, 0, 0, 0, Byte3(n), Byte2(n), Byte1(n), Byte0(n)>>

(* wsReadPacket on a buffer of size bytes, of which s are the header's (the *)
(* buffer was cleared: what has not come reads as zero).  offset counts the *)
(* mask key; len, what has come of the payload, is an i32.                  *)
Received(s, size) == [i \in 1 .. 10 |-> IF i <= size /\ i <= Len(s) THEN s[i] ELSE 0]

wsReadPacket_NoKey(s, size) ==
  LET b == Received(s, size)
      code == b[2] % MASK
      offset == IF code < 126 THEN 2 ELSE IF code = 126 THEN 4 ELSE 10
      length == IF code < 126 THEN code ELSE IF code = 126 THEN Short(b, 3) ELSE Long(b, 7)
  IN [ok |-> IF size < 2 \/ (code = 127 /\ (Long(b, 3) # 0 \/ length > MAX_WS_PACKET_LENGTH))
             THEN 0 ELSE 1,
      fin |-> b[1] \div FIN, op |-> b[1] % 16, mask |-> b[2] \div MASK,
      length |-> length, len |-> size - offset]

wsReadPacket(s, size) ==
  LET b == Received(s, size)
      code == b[2] % MASK
      key == IF b[2] >= MASK THEN KeySize ELSE 0
      offset == key + (IF code < 126 THEN 2 ELSE IF code = 126 THEN 4 ELSE 10)
      length == IF code < 126 THEN code ELSE IF code = 126 THEN Short(b, 3) ELSE Long(b, 7)
  IN [ok |-> IF size < 2 \/ (code = 127 /\ (Long(b, 3) # 0 \/ length > MAX_WS_PACKET_LENGTH))
             THEN 0 ELSE 1,
      fin |-> b[1] \div FIN, op |-> b[1] % 16, mask |-> b[2] \div MASK,
      length |-> length, len |-> size - offset]
---------------------------------------------------------------------------
(* The browser's side: it masks, and uses the shortest form.                *)
ClientHeader(op, n) ==
  IF n < 126 THEN <<FIN + op, MASK + n>>
  ELSE IF n < 65536 THEN <<FIN + op, MASK + 126, Byte1(n), Byte0(n)>>
  ELSE <<FIN + op, MASK + 127, 0, 0, 0, 0, Byte3(n), Byte2(n), Byte1(n), Byte0(n)>>

ClientHeaderSize(n) == KeySize + (IF n < 126 THEN 2 ELSE IF n < 65536 THEN 4 ELSE 10)

ClientReads(s) ==
  [length |-> CASE s[2] < 126 -> s[2] [] s[2] = 126 -> Short(s, 3) [] OTHER -> Long(s, 7),
   header |-> CASE s[2] < 126 -> 2 [] s[2] = 126 -> 4 [] OTHER -> 10]
---------------------------------------------------------------------------
(* A frame the server sends has the length the browser reads, and its        *)
(* header ends where the browser takes the payload to begin.                 *)
ServerFrameRead(op, n) ==
  LET s == wsSendPacket(op, n) IN
  ClientReads(s) = [length |-> n, header |-> Len(s)]

(* Of a frame the browser sends, up to the limit, wsReadPacket finds the     *)
(* length, the opcode, and how much of the payload has come, in every one of *)
(* the length's three forms.                                                 *)
ClientFrameRead(op, n, size) ==
  LET packet == wsReadPacket(ClientHeader(op, n), size) IN
  size >= ClientHeaderSize(n) /\ n <= MAX_WS_PACKET_LENGTH =>
    /\ packet.ok = 1 /\ packet.fin = 1 /\ packet.op = op
    /\ packet.length = n /\ packet.len = size - ClientHeaderSize(n)
=============================================================================
