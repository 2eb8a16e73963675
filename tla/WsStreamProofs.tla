---------------------------- MODULE WsStreamProofs ----------------------------
(***************************************************************************)
(* What a frame's header says is right for every length: its three forms   *)
(* lose nothing between wsSendPacket and a browser, nor between a browser  *)
(* and wsReadPacket.                                                       *)
(*                                                                         *)
(* When TCP keeps headers whole, and a client waits after a frame shorter  *)
(* than the longest header, wsHandleMessages never loses the boundaries of *)
(* the frames: every packet is the frame that was sent.                    *)
(*                                                                         *)
(* The invariant ties the server's position to the frame that is due next: *)
(* between two calls it reads at the start of that frame, and while it     *)
(* waits for a remainder it is exactly need bytes before its end.          *)
(*                                                                         *)
(* On any stream at all, whatever the bytes are that are taken for headers *)
(* when the server is out of step, a length that is dispatched has 32      *)
(* bits, which is what wsSendPacket can write for a browser to read.  And  *)
(* the boundaries are lost in two ways only: a remainder waited for in     *)
(* step ends where a frame does, so that they can only be lost by a first  *)
(* read, made at the start of a frame.  PlaceInv carries both.             *)
(***************************************************************************)
EXTENDS WsStream, SequenceTheorems, TLAPS
(* Two bytes hold every number below 2^16, in network order. *)
LEMMA TwoBytes ==
  ASSUME NEW n \in Nat, n < 65536
  PROVE  /\ Byte0(n) \in 0 .. 255 /\ Byte1(n) \in 0 .. 255
         /\ 256 * Byte1(n) + Byte0(n) = n
BY SMT DEF Byte0, Byte1

(* Dividing by 256 twice or three times divides by 2^16 or 2^24. *)
LEMMA Shifts ==
  ASSUME NEW n \in Nat
  PROVE  /\ n \div 65536 = (n \div 256) \div 256
         /\ n \div 16777216 = (n \div 65536) \div 256
<1>1. n \div 65536 = (n \div 256) \div 256
  BY SMT
<1>2. n \div 16777216 = (n \div 65536) \div 256
  BY SMT
<1> QED BY <1>1, <1>2

(* Four bytes hold every number below 2^32, a u32. *)
LEMMA FourBytes ==
  ASSUME NEW n \in Nat, n < 4294967296
  PROVE  /\ Byte0(n) \in 0 .. 255 /\ Byte1(n) \in 0 .. 255
         /\ Byte2(n) \in 0 .. 255 /\ Byte3(n) \in 0 .. 255
         /\ 16777216 * Byte3(n) + 65536 * Byte2(n) + 256 * Byte1(n) + Byte0(n) = n
<1> DEFINE a == n \div 256
           b == n \div 65536
           c == n \div 16777216
<1>1. b = a \div 256 /\ c = b \div 256
  BY Shifts, SMT
<1>2. /\ a \in Nat /\ b \in Nat /\ c \in 0 .. 255
  BY SMT
<1>3. n = 256 * a + (n % 256) /\ n % 256 \in 0 .. 255
  BY SMT
<1>4. a = 256 * b + (a % 256) /\ a % 256 \in 0 .. 255
  <2> HIDE DEF a, b
  <2> QED BY <1>1, <1>2, SMT
<1>5. b = 256 * c + (b % 256) /\ b % 256 \in 0 .. 255
  <2> HIDE DEF b, c
  <2> QED BY <1>1, <1>2, SMT
<1>6. c % 256 = c
  <2> HIDE DEF c
  <2> QED BY <1>2, SMT
<1>7. Byte0(n) = n % 256 /\ Byte1(n) = a % 256 /\ Byte2(n) = b % 256 /\ Byte3(n) = c
  BY <1>6, SMT DEF Byte0, Byte1, Byte2, Byte3
<1> HIDE DEF a, b, c
<1> QED BY <1>2, <1>3, <1>4, <1>5, <1>7, SMT
---------------------------------------------------------------------------
(* Whatever opcode and length wsSendPacket is given (a u4 and a u32), the    *)
(* browser reads that length, and finds the payload where the header ends.   *)
THEOREM ServerFramesReadBack ==
  ASSUME NEW op \in 0 .. 15, NEW n \in Nat, n < 4294967296
  PROVE  ServerFrameRead(op, n)
<1> DEFINE s == wsSendPacket(op, n)
<1>1. CASE n < 126
  <2>1. s = <<FIN + op, n>>
    BY <1>1, SMT DEF wsSendPacket
  <2> QED BY <1>1, <2>1, SMT DEF ServerFrameRead, ClientReads
<1>2. CASE 126 <= n /\ n < SHRT_MAX
  <2>1. s = <<FIN + op, 126, Byte1(n), Byte0(n)>>
    BY <1>2, SMT DEF wsSendPacket
  <2>2. 256 * Byte1(n) + Byte0(n) = n
    BY <1>2, TwoBytes, SMT DEF SHRT_MAX
  <2> QED BY <2>1, <2>2, SMT DEF ServerFrameRead, ClientReads, Short
<1>3. CASE SHRT_MAX <= n
  <2>1. s = <<FIN + op, 127, 0, 0, 0, 0, Byte3(n), Byte2(n), Byte1(n), Byte0(n)>>
    BY <1>3, SMT DEF wsSendPacket, SHRT_MAX
  <2>2. 16777216 * Byte3(n) + 65536 * Byte2(n) + 256 * Byte1(n) + Byte0(n) = n
    BY FourBytes, SMT
  <2> QED BY <2>1, <2>2, SMT DEF ServerFrameRead, ClientReads, Long
<1> QED BY <1>1, <1>2, <1>3, SMT DEF SHRT_MAX

(* Whatever a browser sends up to the limit, wsReadPacket finds its length,  *)
(* its opcode and how much of the payload has come, once the header has.     *)
THEOREM ClientFramesReadBack ==
  ASSUME NEW op \in 0 .. 15, NEW n \in Nat, NEW size \in Nat
  PROVE  ClientFrameRead(op, n, size)
<1> SUFFICES ASSUME size >= ClientHeaderSize(n), n <= MAX_WS_PACKET_LENGTH
             PROVE  LET packet == wsReadPacket(ClientHeader(op, n), size) IN
                    /\ packet.ok = 1 /\ packet.fin = 1 /\ packet.op = op
                    /\ packet.length = n /\ packet.len = size - ClientHeaderSize(n)
  BY SMT DEF ClientFrameRead
<1> DEFINE s == ClientHeader(op, n)
           b == Received(s, size)
<1>0. b[1] = FIN + op /\ (FIN + op) % 16 = op /\ (FIN + op) \div FIN = 1
  BY SMT DEF ClientHeader, ClientHeaderSize, Received, FIN, MASK, KeySize
<1>1. CASE n < 126
  <2>1. b[2] = MASK + n /\ b[2] % MASK = n /\ b[2] >= MASK
    BY <1>1, SMT DEF ClientHeader, ClientHeaderSize, Received, MASK, KeySize
  <2>2. ClientHeaderSize(n) = 6
    BY <1>1, SMT DEF ClientHeaderSize, KeySize
  <2> QED BY <1>0, <1>1, <2>1, <2>2, SMT DEF wsReadPacket, KeySize, FIN, MASK
<1>2. CASE 126 <= n /\ n < 65536
  <2>1. b[2] = MASK + 126 /\ b[2] % MASK = 126 /\ b[2] >= MASK
    BY <1>2, SMT DEF ClientHeader, ClientHeaderSize, Received, MASK, KeySize
  <2>2. ClientHeaderSize(n) = 8
    BY <1>2, SMT DEF ClientHeaderSize, KeySize
  <2>3. b[3] = Byte1(n) /\ b[4] = Byte0(n)
    BY <1>2, <2>2, SMT DEF ClientHeader, Received
  <2>4. Short(b, 3) = n
    BY <1>2, <2>3, TwoBytes, SMT DEF Short
  <2> QED BY <1>0, <2>1, <2>2, <2>4, SMT DEF wsReadPacket, KeySize, FIN, MASK
<1>3. CASE 65536 <= n
  <2>1. b[2] = MASK + 127 /\ b[2] % MASK = 127 /\ b[2] >= MASK
    BY <1>3, SMT DEF ClientHeader, ClientHeaderSize, Received, MASK, KeySize
  <2>2. ClientHeaderSize(n) = 14
    BY <1>3, SMT DEF ClientHeaderSize, KeySize
  <2>3. /\ b[3] = 0 /\ b[4] = 0 /\ b[5] = 0 /\ b[6] = 0
        /\ b[7] = Byte3(n) /\ b[8] = Byte2(n) /\ b[9] = Byte1(n) /\ b[10] = Byte0(n)
    BY <1>3, <2>2, SMT DEF ClientHeader, Received
  <2>4. Long(b, 3) = 0
    BY <2>3, SMT DEF Long
  <2>5. Long(b, 7) = n
    BY <2>3, FourBytes, SMT DEF Long, MAX_WS_PACKET_LENGTH
  <2> QED BY <1>0, <2>1, <2>2, <2>4, <2>5, SMT
         DEF wsReadPacket, KeySize, FIN, MASK, MAX_WS_PACKET_LENGTH
<1> QED BY <1>1, <1>2, <1>3, SMT
---------------------------------------------------------------------------

Chained ==
  /\ \A i \in DOMAIN sent : ends[i] = End(i - 1) + FrameSize(sent[i])
  /\ \A i, j \in DOMAIN sent : i < j => ends[i] < ends[j]

Due == Len(got) + 1

(* What the first read finds at the start of a frame. *)
Packet == wsReadPacket(ClientHeader(OP_TEXT, sent[Here]), Size)

Progress ==
  /\ Len(got) <= Len(sent)
  /\ \A i \in DOMAIN got : got[i] = sent[i]
  /\ \A i \in DOMAIN sent : i < Len(sent) /\ ShortFrame(sent[i]) => i <= Len(got)
  /\ phase = "idle" => pos = End(Len(got))
  /\ phase = "remainder" =>
       /\ Due <= Len(sent) /\ length = sent[Due] /\ pos + need = ends[Due]
       /\ opcode = OP_TEXT

StreamInv ==
  /\ TypeOK /\ Chained /\ Progress
  /\ careful /\ ~CutsHeader(arrived)
  /\ phase \notin {"crashed", "aborted"} /\ (phase = "killed" => ~open)

(* A header has 6 to 14 bytes, and a frame is its header and its payload. *)
LEMMA Sizes ==
  ASSUME NEW n \in Nat
  PROVE  /\ ClientHeaderSize(n) \in 6 .. WS_MAX_HEADER_LEN /\ ClientHeaderSize(n) \in Nat
         /\ FrameSize(n) \in Nat /\ FrameSize(n) = ClientHeaderSize(n) + n
         /\ FrameSize(n) > 0
BY SMT DEF ClientHeaderSize, FrameSize, KeySize, WS_MAX_HEADER_LEN

(* The lengths are natural numbers within the limit. *)
LEMMA LengthsBounded ==
  ASSUME NEW n \in Lengths
  PROVE  n \in Nat /\ n <= MAX_WS_PACKET_LENGTH
<1>1. n \in 0 .. MAX_WS_PACKET_LENGTH
  BY StreamAssumption, Zenon DEF StreamAssumption
<1>2. MAX_WS_PACKET_LENGTH \in Nat
  BY SMT DEF MAX_WS_PACKET_LENGTH
<1> QED BY <1>1, <1>2, SMT

(* The shapes of the sequences. *)
LEMMA Shapes ==
  ASSUME TypeOK
  PROVE  /\ Len(sent) \in Nat /\ DOMAIN sent = 1 .. Len(sent)
         /\ Len(ends) = Len(sent) /\ DOMAIN ends = 1 .. Len(sent)
         /\ Len(got) \in Nat /\ DOMAIN got = 1 .. Len(got)
         /\ \A i \in 1 .. Len(sent) : sent[i] \in Lengths /\ sent[i] \in Nat /\ ends[i] \in Nat
<1>1. sent \in Seq(Lengths) /\ ends \in Seq(Nat) /\ Len(ends) = Len(sent) /\ got \in Seq(Nat)
  BY DEF TypeOK
<1>2. /\ Len(sent) \in Nat /\ DOMAIN sent = 1 .. Len(sent)
      /\ \A i \in 1 .. Len(sent) : sent[i] \in Lengths
  BY <1>1, LenProperties, ElementOfSeq
<1>3. DOMAIN ends = 1 .. Len(sent) /\ \A i \in 1 .. Len(sent) : ends[i] \in Nat
  BY <1>1, LenProperties, ElementOfSeq
<1>4. Len(got) \in Nat /\ DOMAIN got = 1 .. Len(got)
  BY <1>1, LenProperties
<1> QED BY <1>1, <1>2, <1>3, <1>4, LengthsBounded

(* Frames end one after the other. *)
LEMMA EndsIncrease ==
  ASSUME TypeOK, Chained, NEW i \in 0 .. Len(sent), NEW j \in 0 .. Len(sent), i < j
  PROVE  End(i) \in Nat /\ End(j) \in Nat /\ End(i) < End(j)
<1>1. j \in DOMAIN sent /\ ends[j] \in Nat /\ sent[j] \in Lengths /\ sent[j] \in Nat
  BY Shapes, SMT
<1>2. CASE i > 0
  <2>1. i \in DOMAIN sent /\ ends[i] \in Nat /\ ends[i] < ends[j]
    <3>1. i \in DOMAIN sent /\ ends[i] \in Nat
      BY <1>2, Shapes, SMT
    <3>2. \A k, m \in DOMAIN sent : k < m => ends[k] < ends[m]
      BY DEF Chained
    <3> QED BY <1>1, <3>1, <3>2
  <2> QED BY <1>1, <1>2, <2>1, SMT DEF End
<1>3. CASE i = 0 /\ j = 1
  <2>1. ends[1] = 0 + FrameSize(sent[1])
    BY <1>1, <1>3, SMT DEF Chained, End
  <2>2. FrameSize(sent[1]) \in Nat /\ FrameSize(sent[1]) > 0
    BY <1>1, <1>3, Sizes
  <2>3. ends[1] \in Nat /\ 0 < ends[1]
    BY <2>1, <2>2, SMT
  <2> QED BY <1>3, <2>3, SMT DEF End
<1>4. CASE i = 0 /\ j > 1
  <2>1. 1 \in DOMAIN sent /\ ends[1] < ends[j] /\ ends[1] \in Nat
    BY <1>1, <1>4, Shapes, SMT DEF Chained
  <2> QED BY <1>1, <1>4, <2>1, SMT DEF End
<1> QED BY <1>2, <1>3, <1>4, SMT
---------------------------------------------------------------------------
(* The server between two calls, with bytes to read: it is at the start of   *)
(* the frame that is due, whose header has come whole.                       *)
LEMMA AtDueFrame ==
  ASSUME StreamInv, phase = "idle", arrived > pos
  PROVE  /\ Due \in 1 .. Len(sent) /\ Aligned /\ Here = Due
         /\ ends[Due] = pos + FrameSize(sent[Due]) /\ ends[Due] \in Nat
         /\ arrived >= pos + ClientHeaderSize(sent[Due])
         /\ ShortFrame(sent[Due]) => arrived <= ends[Due]
<1> USE DEF StreamInv, Progress
<1>1. /\ Len(sent) \in Nat /\ Len(got) \in Nat /\ Len(got) <= Len(sent)
      /\ arrived \in Nat /\ pos \in Nat /\ arrived <= End(Len(sent))
      /\ pos = End(Len(got))
  BY Shapes DEF TypeOK, StreamEnd
<1>2. Due \in 1 .. Len(sent)
  BY <1>1 DEF Due
<1>3. Start(Due) = pos /\ Due \in 1 .. Len(sent) + 1
  BY <1>1, <1>2 DEF Start, Due
<1>4. \A i \in 1 .. Len(sent) + 1 : Start(i) = pos => i = Due
  <2> SUFFICES ASSUME NEW i \in 1 .. Len(sent) + 1, i # Due
               PROVE  Start(i) # pos
    OBVIOUS
  <2>1. CASE i < Due
    <3>1. i - 1 \in 0 .. Len(sent) /\ Len(got) \in 0 .. Len(sent) /\ i - 1 < Len(got)
      BY <1>1, <2>1 DEF Due
    <3> QED BY <1>1, <3>1, EndsIncrease, SMT DEF Start
  <2>2. CASE i > Due
    <3>1. i - 1 \in 0 .. Len(sent) /\ Len(got) \in 0 .. Len(sent) /\ Len(got) < i - 1
      BY <1>1, <2>2 DEF Due
    <3> QED BY <1>1, <3>1, EndsIncrease, SMT DEF Start
  <2> QED BY <1>1, <1>2, <2>1, <2>2
<1>5. Aligned /\ Here = Due
  BY <1>3, <1>4 DEF Aligned, Here
<1>6. sent[Due] \in Nat /\ ends[Due] \in Nat /\ Due \in DOMAIN sent
  BY <1>2, Shapes
<1>7. ends[Due] = pos + FrameSize(sent[Due])
  BY <1>3, <1>6 DEF Chained, Start
<1>8. arrived >= pos + ClientHeaderSize(sent[Due])
  <2>1. ~(Start(Due) < arrived /\ arrived < Start(Due) + ClientHeaderSize(sent[Due]))
    BY <1>6 DEF CutsHeader
  <2>2. ClientHeaderSize(sent[Due]) \in 6 .. WS_MAX_HEADER_LEN
    BY <1>6, Sizes
  <2>3. arrived \in Nat /\ pos \in Nat /\ pos < arrived /\ Start(Due) = pos
    BY <1>1, <1>3
  <2> DEFINE h == ClientHeaderSize(sent[Due])
  <2>4. h \in Int /\ ~(pos < arrived /\ arrived < pos + h)
    BY <2>1, <2>2, <2>3, SMT DEF WS_MAX_HEADER_LEN
  <2> HIDE DEF h
  <2>5. arrived >= pos + h
    BY <2>3, <2>4, SMT
  <2> QED BY <2>5 DEF h
<1>9. ShortFrame(sent[Due]) => arrived <= ends[Due]
  <2> SUFFICES ASSUME ShortFrame(sent[Due]) PROVE arrived <= ends[Due]
    OBVIOUS
  <2>1. Len(sent) = Due
    <3>1. ~(Due < Len(sent)) \/ Due <= Len(got)
      BY <1>6
    <3> QED BY <1>1, <1>2, <3>1 DEF Due
  <2> QED BY <1>1, <1>2, <2>1 DEF End
<1> QED BY <1>2, <1>5, <1>6, <1>7, <1>8, <1>9

(* The first read of a frame: the header is read right, and nothing of the   *)
(* next frame is.                                                            *)
LEMMA FirstReadOfFrame ==
  ASSUME StreamInv, phase = "idle", arrived > pos
  PROVE  LET n == sent[Due] IN
         /\ Packet.ok = 1 /\ Packet.fin = 1 /\ Packet.op = OP_TEXT /\ Packet.length = n
         /\ Packet.len = Size - ClientHeaderSize(n) /\ Packet.len \in Nat
         /\ Size \in Nat /\ Size >= ClientHeaderSize(n)
         /\ Size <= FrameSize(n) /\ pos + Size <= arrived
<1> DEFINE n == sent[Due]
<1>1. /\ n \in Nat /\ n <= MAX_WS_PACKET_LENGTH /\ n \in Lengths
      /\ arrived \in Nat /\ pos \in Nat
  BY AtDueFrame, Shapes, LengthsBounded DEF StreamInv, TypeOK
<1>2. /\ ClientHeaderSize(n) \in 6 .. WS_MAX_HEADER_LEN
      /\ FrameSize(n) \in Nat /\ FrameSize(n) = ClientHeaderSize(n) + n
  BY <1>1, Sizes
<1>3. /\ Here = Due /\ ends[Due] = pos + FrameSize(n)
      /\ arrived >= pos + ClientHeaderSize(n)
      /\ ShortFrame(n) => arrived <= ends[Due]
  BY AtDueFrame
<1> HIDE DEF n
<1>4. /\ Size \in Nat /\ Size >= ClientHeaderSize(n)
      /\ Size <= WS_MAX_HEADER_LEN /\ pos + Size <= arrived
  BY <1>1, <1>2, <1>3, SMT DEF Size, FirstRead, WS_MAX_HEADER_LEN
<1>5. Size <= FrameSize(n)
  <2>1. CASE ShortFrame(n)
    BY <1>1, <1>2, <1>3, <1>4, <2>1, SMT
  <2>2. CASE ~ShortFrame(n)
    BY <1>2, <1>4, <2>2, SMT DEF ShortFrame, WS_MAX_HEADER_LEN
  <2> QED BY <2>1, <2>2
<1>6. ClientFrameRead(OP_TEXT, n, Size)
  <2>1. OP_TEXT \in 0 .. 15
    BY DEF OP_TEXT
  <2> QED BY <1>1, <1>4, <2>1, ClientFramesReadBack
<1>7. Packet = wsReadPacket(ClientHeader(OP_TEXT, n), Size)
  BY <1>3 DEF Packet, n
<1>8. /\ Packet.ok = 1 /\ Packet.fin = 1 /\ Packet.op = OP_TEXT /\ Packet.length = n
      /\ Packet.len = Size - ClientHeaderSize(n)
  BY <1>1, <1>4, <1>6, <1>7 DEF ClientFrameRead
<1>9. Packet.len \in Nat
  BY <1>2, <1>4, <1>8, SMT
<1> QED BY <1>4, <1>5, <1>8, <1>9 DEF n
---------------------------------------------------------------------------
(* Nothing is waited for. *)
LEMMA FreedTyped ==
  ASSUME PacketFreed
  PROVE  length' \in Nat /\ opcode' \in 0 .. 15 /\ need' \in Nat /\ astray' \in BOOLEAN
<1>1. 0 \in Nat /\ 0 \in 0 .. 15
  BY SMT
<1>2. length' = 0 /\ opcode' = 0 /\ need' = 0 /\ astray' = FALSE
  BY DEF PacketFreed
<1> QED BY <1>1, <1>2

LEMMA InitTyped == Init => TypeOK /\ Chained
<1>1. 0 \in Nat /\ 0 \in 0 .. 15
  BY SMT
<1> SUFFICES ASSUME Init PROVE TypeOK /\ Chained
  OBVIOUS
<1>2. /\ sent = << >> /\ ends = << >> /\ arrived = 0 /\ open = TRUE /\ careful \in BOOLEAN
      /\ pos = 0 /\ got = << >> /\ phase = "idle"
      /\ length = 0 /\ opcode = 0 /\ need = 0 /\ astray = FALSE
  BY DEF Init
<1>3. /\ << >> \in Seq(Lengths) /\ << >> \in Seq(Nat) /\ Len(<< >>) = 0 /\ DOMAIN << >> = {}
  BY EmptySeq, LenProperties
<1>4. StreamEnd = 0
  BY <1>2, <1>3 DEF StreamEnd, End
<1>5. 0 <= 0
  BY SMT
<1>6. TypeOK
  BY <1>1, <1>2, <1>3, <1>4, <1>5 DEF TypeOK
<1> QED BY <1>2, <1>3, <1>6 DEF Chained

(* Nothing sent, nothing read. *)
LEMMA StreamInit ==
  Init /\ careful => StreamInv
BY InitTyped DEF Init, StreamInv, Progress, CutsHeader, Due, End

(* A new frame begins where the stream ended: the chain grows by one. *)
LEMMA SendChains ==
  ASSUME TypeOK, Chained, NEW n \in Lengths, Send(n)
  PROVE  LET e == StreamEnd + FrameSize(n) IN
         /\ StreamEnd \in Nat /\ e \in Nat /\ e > StreamEnd
         /\ UNCHANGED <<arrived, open, careful, pos, got, phase, remainVars>>
         /\ Len(sent') = Len(sent) + 1 /\ DOMAIN sent' = 1 .. Len(sent) + 1
         /\ \A i \in 1 .. Len(sent) : sent'[i] = sent[i] /\ ends'[i] = ends[i]
         /\ sent'[Len(sent) + 1] = n /\ ends'[Len(sent) + 1] = e
         /\ \A i \in 0 .. Len(sent) : End(i)' = End(i)
         /\ StreamEnd' = e /\ TypeOK' /\ Chained'
<1>1. /\ Len(sent) \in Nat /\ DOMAIN sent = 1 .. Len(sent)
      /\ Len(ends) = Len(sent) /\ DOMAIN ends = 1 .. Len(sent)
      /\ sent \in Seq(Lengths) /\ ends \in Seq(Nat)
      /\ Len(got) \in Nat /\ DOMAIN got = 1 .. Len(got)
  BY Shapes DEF TypeOK
<1>2. n \in Nat /\ FrameSize(n) \in Nat /\ FrameSize(n) > 0
  BY LengthsBounded, Sizes
<1>3. StreamEnd \in Nat
  BY <1>1, Shapes DEF StreamEnd, End
<1> DEFINE e == StreamEnd + FrameSize(n)
<1>4. e \in Nat /\ e > StreamEnd
  BY <1>2, <1>3
<1>5. /\ sent' = Append(sent, n) /\ ends' = Append(ends, e)
      /\ UNCHANGED <<arrived, open, careful, pos, got, phase, remainVars>>
  BY DEF Send
<1> HIDE DEF e
<1>6. /\ sent' \in Seq(Lengths) /\ Len(sent') = Len(sent) + 1
      /\ ends' \in Seq(Nat) /\ Len(ends') = Len(sent) + 1
      /\ DOMAIN sent' = 1 .. Len(sent) + 1
      /\ \A i \in 1 .. Len(sent) : sent'[i] = sent[i] /\ ends'[i] = ends[i]
      /\ sent'[Len(sent) + 1] = n /\ ends'[Len(sent) + 1] = e
  BY <1>1, <1>4, <1>5, AppendProperties, LenProperties
<1>7. /\ \A i \in 0 .. Len(sent) : End(i)' = End(i)
      /\ StreamEnd' = e
  <2>1. ASSUME NEW i \in 0 .. Len(sent)
        PROVE  End(i)' = End(i)
    <3>1. i = 0 \/ i \in 1 .. Len(sent)
      BY <1>1
    <3> QED BY <1>6, <3>1 DEF End
  <2>2. Len(sent) + 1 # 0
    BY <1>1
  <2>3. StreamEnd' = e
    BY <1>6, <2>2 DEF StreamEnd, End
  <2> QED BY <2>1, <2>3
<1>8. TypeOK'
  <2>1. arrived <= StreamEnd /\ arrived \in Nat
    BY DEF TypeOK
  <2>2. arrived' <= StreamEnd'
    BY <1>3, <1>4, <1>5, <1>7, <2>1
  <2> QED BY <1>5, <1>6, <2>2 DEF TypeOK, remainVars
<1>9. Chained'
  <2>1. ASSUME NEW i \in 1 .. Len(sent) + 1
        PROVE  ends'[i] = End(i - 1)' + FrameSize(sent'[i])
    <3>1. CASE i <= Len(sent)
      <4>1. i \in 1 .. Len(sent) /\ i - 1 \in 0 .. Len(sent)
        BY <1>1, <3>1
      <4>2. ends[i] = End(i - 1) + FrameSize(sent[i])
        BY <1>1, <4>1 DEF Chained
      <4> QED BY <1>6, <1>7, <4>1, <4>2
    <3>2. CASE i = Len(sent) + 1
      BY <1>1, <1>6, <1>7, <3>2 DEF e, StreamEnd
    <3> QED BY <1>1, <3>1, <3>2
  <2>2. ASSUME NEW i \in 1 .. Len(sent) + 1, NEW j \in 1 .. Len(sent) + 1, i < j
        PROVE  ends'[i] < ends'[j]
    <3>1. CASE j <= Len(sent)
      <4>1. i \in 1 .. Len(sent) /\ j \in 1 .. Len(sent)
        BY <1>1, <2>2, <3>1
      <4>2. ends[i] < ends[j]
        BY <1>1, <2>2, <4>1 DEF Chained
      <4> QED BY <1>6, <4>1, <4>2
    <3>2. CASE j = Len(sent) + 1
      <4>1. i \in 1 .. Len(sent)
        BY <1>1, <2>2, <3>2
      <4>2. ends[i] <= ends[Len(sent)] /\ ends[i] \in Nat
        <5>1. Len(sent) \in 1 .. Len(sent) /\ ends[i] \in Nat
          BY <1>1, <4>1, Shapes
        <5>2. i < Len(sent) => ends[i] < ends[Len(sent)]
          BY <1>1, <4>1, <5>1 DEF Chained
        <5> QED BY <1>1, <4>1, <5>1, <5>2, Shapes
      <4>3. StreamEnd = ends[Len(sent)]
        BY <1>1, <4>1 DEF StreamEnd, End
      <4> QED BY <1>3, <1>4, <1>6, <3>2, <4>1, <4>2, <4>3
    <3> QED BY <1>1, <3>1, <3>2
  <2>3. \A i \in DOMAIN sent' : ends'[i] = End(i - 1)' + FrameSize(sent'[i])
    BY <1>6, <2>1
  <2>4. \A i, j \in DOMAIN sent' : i < j => ends'[i] < ends'[j]
    BY <1>6, <2>2
  <2> QED BY <2>3, <2>4 DEF Chained
<1> QED BY <1>3, <1>4, <1>5, <1>6, <1>7, <1>8, <1>9 DEF e

(* What has arrived does not cut the new frame, and no short frame waits     *)
(* behind another.                                                           *)
LEMMA SendStep ==
  ASSUME StreamInv, NEW n \in Lengths, Send(n)
  PROVE  StreamInv'
<1> USE DEF StreamInv
<1>1. /\ Len(sent) \in Nat /\ DOMAIN sent = 1 .. Len(sent)
      /\ Len(got) \in Nat /\ DOMAIN got = 1 .. Len(got)
  BY Shapes DEF TypeOK
<1> DEFINE e == StreamEnd + FrameSize(n)
<1>2. /\ StreamEnd \in Nat /\ e \in Nat /\ e > StreamEnd
      /\ UNCHANGED <<arrived, open, careful, pos, got, phase, remainVars>>
      /\ Len(sent') = Len(sent) + 1 /\ DOMAIN sent' = 1 .. Len(sent) + 1
      /\ \A i \in 1 .. Len(sent) : sent'[i] = sent[i] /\ ends'[i] = ends[i]
      /\ sent'[Len(sent) + 1] = n /\ ends'[Len(sent) + 1] = e
      /\ \A i \in 0 .. Len(sent) : End(i)' = End(i)
      /\ StreamEnd' = e /\ TypeOK' /\ Chained'
  BY SendChains
<1> HIDE DEF e
<1>3. Progress'
  <2>1. Len(got)' = Len(got) /\ Len(got) <= Len(sent) /\ Due' = Due /\ Due = Len(got) + 1
    BY <1>2 DEF Progress, Due
  <2>2. \A i \in DOMAIN got' : got'[i] = sent'[i]
    BY <1>1, <1>2, <2>1 DEF Progress
  <2>3. ASSUME NEW i \in 1 .. Len(sent), ShortFrame(sent[i])
        PROVE  i <= Len(got)
    <3>1. CASE i < Len(sent)
      BY <1>1, <2>3, <3>1 DEF Progress
    <3>2. CASE i = Len(sent)
      <4>1. sent # << >>
        BY <1>1, <3>2
      <4>2. phase = "idle" /\ pos = StreamEnd /\ pos = End(Len(got))
        BY <2>3, <3>2, <4>1 DEF Send, Progress
      <4>3. ~(Len(got) < Len(sent))
        <5> SUFFICES ASSUME Len(got) < Len(sent) PROVE FALSE
          OBVIOUS
        <5>1. End(Len(got)) < End(Len(sent))
          BY <1>1, <2>1, EndsIncrease
        <5>2. End(Len(got)) \in Nat
          BY <1>2, <4>2 DEF StreamEnd
        <5> QED BY <4>2, <5>1, <5>2 DEF StreamEnd
      <4>4. Len(got) \in Nat /\ Len(sent) \in Nat
        BY <1>1
      <4> QED BY <3>2, <4>3, <4>4
    <3>3. i < Len(sent) \/ i = Len(sent)
      <4> HIDE DEF StreamInv
      <4>1. Len(sent) \in Nat
        BY <1>1
      <4> QED BY <4>1, SMT
    <3> QED BY <3>1, <3>2, <3>3
  <2>6. \A i \in DOMAIN sent' :
          i < Len(sent') /\ ShortFrame(sent'[i]) => i <= Len(got')
    <3> SUFFICES ASSUME NEW i \in 1 .. Len(sent) + 1, i < Len(sent) + 1,
                        ShortFrame(sent'[i])
                 PROVE  i <= Len(got)
      BY <1>2, <2>1
    <3>1. i \in 1 .. Len(sent)
      BY <1>1
    <3> QED BY <1>2, <2>3, <3>1
  <2>4. phase' = "idle" => pos' = End(Len(got))'
    BY <1>1, <1>2, <2>1 DEF Progress
  <2>5. phase' = "remainder" =>
          /\ Due' <= Len(sent') /\ length' = sent'[Due'] /\ pos' + need' = ends'[Due']
          /\ opcode' = OP_TEXT
    <3> SUFFICES ASSUME phase = "remainder"
                 PROVE  /\ Due' <= Len(sent') /\ length' = sent'[Due']
                        /\ pos' + need' = ends'[Due'] /\ opcode' = OP_TEXT
      BY <1>2
    <3>1. /\ Due \in 1 .. Len(sent) /\ length = sent[Due] /\ pos + need = ends[Due]
          /\ opcode = OP_TEXT
      BY <1>1, <2>1 DEF Progress
    <3>2. length' = length /\ need' = need /\ opcode' = opcode /\ pos' = pos
      BY <1>2 DEF remainVars
    <3> QED BY <1>1, <1>2, <2>1, <3>1, <3>2
  <2> QED BY <1>1, <1>2, <2>1, <2>2, <2>4, <2>5, <2>6 DEF Progress
<1>4. ~CutsHeader(arrived)'
  <2> SUFFICES ASSUME NEW i \in 1 .. Len(sent) + 1
               PROVE  ~(Start(i)' < arrived /\ arrived < Start(i)' + ClientHeaderSize(sent'[i]))
    BY <1>2 DEF CutsHeader
  <2>1. CASE i <= Len(sent)
    <3>0. i \in 1 .. Len(sent) /\ i - 1 \in 0 .. Len(sent)
      BY <1>1, <2>1
    <3>1. Start(i)' = Start(i) /\ sent'[i] = sent[i] /\ i \in DOMAIN sent
      BY <1>1, <1>2, <3>0 DEF Start
    <3> QED BY <3>1 DEF CutsHeader
  <2>2. CASE i = Len(sent) + 1
    <3>1. Start(i)' = StreamEnd
      BY <1>1, <1>2, <2>2 DEF Start, StreamEnd
    <3>2. arrived <= StreamEnd /\ arrived \in Nat
      BY DEF TypeOK
    <3> QED BY <1>2, <3>1, <3>2
  <2> QED BY <1>1, <2>1, <2>2
<1> QED BY <1>2, <1>3, <1>4
---------------------------------------------------------------------------
(* The frames and their ends are the same: so are the operators over them.   *)
LEMMA SameStream ==
  ASSUME UNCHANGED <<sent, ends>>
  PROVE  /\ \A i : End(i)' = End(i)
         /\ StreamEnd' = StreamEnd
         /\ Chained' = Chained
BY DEF End, StreamEnd, Chained

(* TCP delivers more of the stream, without cutting a header. *)
LEMMA ArriveStep ==
  ASSUME StreamInv, NEW k \in Nat, Arrive(k)
  PROVE  StreamInv'
<1> USE DEF StreamInv
<1>1. /\ arrived' = arrived + k /\ arrived + k <= StreamEnd
      /\ UNCHANGED <<sent, ends, open, careful, pos, got, phase, length, opcode, need, astray>>
      /\ ~CutsHeader(arrived + k)
  BY DEF Arrive, remainVars
<1>2. TypeOK'
  BY <1>1, SameStream DEF TypeOK
<1>3. Chained'
  BY <1>1, SameStream
<1>4. Progress'
  BY <1>1, SameStream DEF Progress, Due
<1>5. ~CutsHeader(arrived)'
  BY <1>1, SameStream DEF CutsHeader, Start
<1> QED BY <1>1, <1>2, <1>3, <1>4, <1>5

(* Whatever TCP delivers, it is an arrival. *)
LEMMA DeliveryStep ==
  ASSUME StreamInv, Delivery
  PROVE  StreamInv'
<1>1. PICK k \in Pieces \cup {StreamEnd - arrived} : Arrive(k)
  BY DEF Delivery
<1>2. StreamEnd \in Nat
  BY Shapes DEF StreamEnd, End, StreamInv
<1>3. k \in Nat
  BY <1>1, <1>2, StreamAssumption DEF StreamAssumption, StreamInv, TypeOK, Delivery
<1> QED BY <1>1, <1>3, ArriveStep

(* The client leaves: nothing the server has read changes. *)
LEMMA LeaveStep ==
  ASSUME StreamInv, Leave
  PROVE  StreamInv'
<1>1. /\ UNCHANGED <<sent, ends, arrived, careful, pos, got, phase, length, opcode, need, astray>>
      /\ open' = FALSE
  BY DEF Leave, remainVars
<1>2. Chained' /\ \A i : End(i)' = End(i)
  BY <1>1, SameStream DEF StreamInv
<1> QED BY <1>1, <1>2
      DEF StreamInv, TypeOK, Progress, Due, CutsHeader, Start, StreamEnd, End

(* A packet is dispatched when the server stands at the end of its frame: it *)
(* is the frame that was due, and the next one becomes due.                  *)
LEMMA Dispatched ==
  ASSUME StreamInv, Due \in 1 .. Len(sent),
         got' = Append(got, sent[Due]), pos' = ends[Due], phase' = "idle",
         pos' <= arrived, UNCHANGED <<sent, ends, arrived, open, careful>>,
         length' \in Nat, opcode' \in 0 .. 15, need' \in Nat, astray' \in BOOLEAN
  PROVE  StreamInv'
<1> USE DEF StreamInv
<1>1. /\ Len(sent) \in Nat /\ DOMAIN sent = 1 .. Len(sent)
      /\ Len(got) \in Nat /\ DOMAIN got = 1 .. Len(got) /\ got \in Seq(Nat)
      /\ sent[Due] \in Nat /\ ends[Due] \in Nat
  BY Shapes DEF TypeOK
<1>2. /\ got' \in Seq(Nat) /\ Len(got') = Due
      /\ DOMAIN got' = 1 .. Due /\ Due = Len(got) + 1
      /\ \A i \in 1 .. Len(got) : got'[i] = got[i]
      /\ got'[Due] = sent[Due]
  BY <1>1, AppendProperties, LenProperties DEF Due
<1>3. /\ Chained' /\ StreamEnd' = StreamEnd /\ \A i : End(i)' = End(i)
  BY SameStream
<1>4. TypeOK'
  BY <1>1, <1>2, <1>3 DEF TypeOK
<1>5. Progress'
  <2>1. \A i \in DOMAIN got' : got'[i] = sent'[i]
    <3> SUFFICES ASSUME NEW i \in 1 .. Due PROVE got'[i] = sent[i]
      BY <1>2
    <3>1. i = Due \/ i \in 1 .. Len(got)
      BY <1>1, <1>2
    <3> QED BY <1>1, <1>2, <3>1 DEF Progress
  <2>2. Len(got') <= Len(sent')
    BY <1>1, <1>2
  <2>3. \A i \in DOMAIN sent' :
          i < Len(sent') /\ ShortFrame(sent'[i]) => i <= Len(got')
    BY <1>1, <1>2 DEF Progress
  <2>4. pos' = End(Len(got))'
    BY <1>1, <1>2 DEF End
  <2> QED BY <2>1, <2>2, <2>3, <2>4 DEF Progress
<1>6. ~CutsHeader(arrived)'
  BY <1>3 DEF CutsHeader, Start
<1> QED BY <1>3, <1>4, <1>5, <1>6

(* The first read of a frame whose end it does not reach. *)
LEMMA ReadStartStep ==
  ASSUME StreamInv, Reading, Aligned, ReadStart(Packet)
  PROVE  StreamInv'
<1> DEFINE n == sent[Due]
<1>1. phase = "idle" /\ arrived > pos
  BY DEF Reading
<1>2. /\ Packet.length = n /\ Packet.len = Size - ClientHeaderSize(n)
      /\ Packet.op = OP_TEXT
      /\ Size \in Nat /\ Size <= FrameSize(n) /\ pos + Size <= arrived
  BY <1>1, FirstReadOfFrame
<1>3. /\ Due \in 1 .. Len(sent) /\ ends[Due] = pos + FrameSize(n)
      /\ pos \in Nat /\ n \in Nat /\ arrived \in Nat
  BY <1>1, AtDueFrame, Shapes DEF StreamInv, TypeOK
<1>4. FrameSize(n) = ClientHeaderSize(n) + n /\ ClientHeaderSize(n) \in Nat
  BY <1>3, Sizes
<1>5. /\ phase' = "remainder" /\ pos' = pos + Size
      /\ length' = n /\ need' = n - (Size - ClientHeaderSize(n))
      /\ opcode' = OP_TEXT /\ astray' \in BOOLEAN
      /\ UNCHANGED <<sent, ends, arrived, open, careful, got>>
  BY <1>2 DEF ReadStart, Missing, clientVars
<1> HIDE DEF n
<1>6. need' \in Nat /\ pos' \in Nat /\ pos' <= arrived' /\ pos' + need' = ends[Due]
  BY <1>2, <1>3, <1>4, <1>5, SMT
<1>7. Chained' /\ StreamEnd' = StreamEnd /\ \A i : End(i)' = End(i)
  BY <1>5, SameStream DEF StreamInv
<1>8. TypeOK'
  BY <1>3, <1>5, <1>6, <1>7 DEF StreamInv, TypeOK, OP_TEXT
<1>9. Progress'
  <2>1. Due' = Due /\ Len(sent)' = Len(sent) /\ Due <= Len(sent)
    BY <1>3, <1>5 DEF Due
  <2>2. length' = sent'[Due'] /\ pos' + need' = ends'[Due']
    BY <1>5, <1>6, <2>1 DEF n
  <2> QED BY <1>5, <2>1, <2>2 DEF StreamInv, Progress
<1>10. ~CutsHeader(arrived)'
  BY <1>5, <1>7 DEF StreamInv, CutsHeader, Start
<1> QED BY <1>5, <1>7, <1>8, <1>9, <1>10 DEF StreamInv

(* The first read of a frame that is all there takes exactly that frame. *)
LEMMA ReadWholeStep ==
  ASSUME StreamInv, Reading, Aligned, ReadWhole(Packet)
  PROVE  StreamInv'
<1> DEFINE n == sent[Due]
<1>1. phase = "idle" /\ arrived > pos
  BY DEF Reading
<1>2. /\ Packet.length = n /\ Packet.len = Size - ClientHeaderSize(n)
      /\ Packet.op = OP_TEXT /\ Packet.len \in Nat
      /\ Size \in Nat /\ Size >= ClientHeaderSize(n)
      /\ Size <= FrameSize(n) /\ pos + Size <= arrived
  BY <1>1, FirstReadOfFrame
<1>3. /\ Due \in 1 .. Len(sent) /\ ends[Due] = pos + FrameSize(n) /\ n \in Nat
  BY <1>1, AtDueFrame, Shapes DEF StreamInv
<1>4. FrameSize(n) = ClientHeaderSize(n) + n /\ ClientHeaderSize(n) \in Nat
  BY <1>3, Sizes
<1>5. /\ ~Incomplete(Packet)
      /\ Dispatch(Packet.length, Packet.op) /\ pos' = pos + Size
      /\ UNCHANGED <<sent, ends, arrived, open, careful, length, opcode, need, astray>>
  BY DEF ReadWhole, clientVars, remainVars
<1>6. got' = Append(got, n) /\ phase' = "idle"
  BY <1>2, <1>5 DEF Dispatch, OP_TEXT, OP_CLOSE
<1> HIDE DEF n
<1>7. Size - ClientHeaderSize(n) >= n
  BY <1>2, <1>3, <1>4, <1>5 DEF Incomplete
<1>8. Size = FrameSize(n)
  BY <1>2, <1>3, <1>4, <1>7, SMT
<1>9. pos' = ends[Due] /\ pos' <= arrived
  BY <1>2, <1>3, <1>5, <1>8
<1>10. length \in Nat /\ opcode \in 0 .. 15 /\ need \in Nat /\ astray \in BOOLEAN
  BY DEF StreamInv, TypeOK
<1> QED BY <1>3, <1>5, <1>6, <1>9, <1>10, Dispatched DEF n

(* The remainder is read up to the end of its frame. *)
LEMMA ReadRemainderStep ==
  ASSUME StreamInv, ReadRemainder
  PROVE  StreamInv'
<1>1. /\ phase = "remainder" /\ arrived - pos >= need
      /\ Dispatch(length, opcode) /\ pos' = pos + need
      /\ length' \in Nat /\ opcode' \in 0 .. 15 /\ need' \in Nat /\ astray' \in BOOLEAN
      /\ UNCHANGED <<sent, ends, arrived, open, careful>>
  BY FreedTyped DEF ReadRemainder, clientVars
<1>2. /\ Due \in 1 .. Len(sent) /\ length = sent[Due] /\ pos + need = ends[Due]
      /\ arrived \in Nat /\ pos \in Nat /\ need \in Nat /\ opcode = OP_TEXT
  BY <1>1, Shapes DEF StreamInv, Progress, TypeOK, Due
<1>3. got' = Append(got, sent[Due]) /\ phase' = "idle"
  BY <1>1, <1>2 DEF Dispatch, OP_TEXT, OP_CLOSE
<1>4. pos' = ends[Due] /\ pos' <= arrived
  BY <1>1, <1>2
<1> QED BY <1>1, <1>2, <1>3, <1>4, Dispatched

(* The client left in the middle of a frame. *)
LEMMA RemainderLostStep ==
  ASSUME StreamInv, RemainderLost
  PROVE  StreamInv'
<1>1. /\ phase' = "killed" /\ pos' = arrived /\ ~open
      /\ length' \in Nat /\ opcode' \in 0 .. 15 /\ need' \in Nat /\ astray' \in BOOLEAN
      /\ UNCHANGED <<sent, ends, arrived, open, careful, got>>
  BY FreedTyped DEF RemainderLost, clientVars
<1>2. Chained' /\ StreamEnd' = StreamEnd /\ \A i : End(i)' = End(i)
  BY <1>1, SameStream DEF StreamInv
<1>3. TypeOK'
  BY <1>1, <1>2 DEF StreamInv, TypeOK
<1>4. Progress'
  BY <1>1 DEF StreamInv, Progress, Due
<1>5. ~CutsHeader(arrived)'
  BY <1>1, <1>2 DEF StreamInv, CutsHeader, Start
<1> QED BY <1>1, <1>2, <1>3, <1>4, <1>5 DEF StreamInv

(* In step the bytes at hand are the header of the frame that starts there.  *)
LEMMA OnePacket ==
  ASSUME Aligned, NEW packet \in Packets
  PROVE  packet = Packet
BY DEF Packets, Headers, Packet

(* A first read of a careful stream is in step, and takes the frame or its   *)
(* beginning: the three other outcomes do not happen.                        *)
LEMMA ReadFirstStep ==
  ASSUME StreamInv, ReadFirst
  PROVE  StreamInv'
<1>1. PICK packet \in Packets :
        \/ ReadInvalid(packet) \/ ReadCutHeader(packet) \/ ReadFragment(packet)
        \/ ReadStart(packet) \/ ReadWhole(packet)
  BY DEF ReadFirst
<1>2. Reading /\ phase = "idle" /\ arrived > pos
  BY DEF ReadFirst, Reading
<1>3. Aligned
  BY <1>2, AtDueFrame
<1>4. packet = Packet
  BY <1>3, OnePacket
<1>5. Packet.ok = 1 /\ Packet.fin = 1 /\ Packet.len \in Nat
  BY <1>2, FirstReadOfFrame
<1>6. ~ReadInvalid(packet) /\ ~ReadCutHeader(packet) /\ ~ReadFragment(packet)
  BY <1>4, <1>5 DEF ReadInvalid, ReadCutHeader, ReadFragment, Runaway, Fragment
<1> HIDE DEF Packet
<1> QED BY <1>1, <1>2, <1>3, <1>4, <1>6, ReadStartStep, ReadWholeStep

(* Every step preserves the invariant. *)
LEMMA StreamStep ==
  ASSUME StreamInv, [Next]_vars
  PROVE  StreamInv'
<1>1. CASE \E n \in Lengths : Send(n)
  BY <1>1, SendStep
<1>2. CASE Delivery
  BY <1>2, DeliveryStep
<1>3. CASE Leave
  BY <1>3, LeaveStep
<1>4. CASE ReadFirst
  BY <1>4, ReadFirstStep
<1>5. CASE ReadRemainder
  BY <1>5, ReadRemainderStep
<1>6. CASE RemainderLost
  BY <1>6, RemainderLostStep
<1>7. CASE UNCHANGED vars
  BY <1>7 DEF vars, clientVars, remainVars, StreamInv, TypeOK, Chained, Progress, Due, CutsHeader, Start,
    StreamEnd, End
<1> QED BY <1>1, <1>2, <1>3, <1>4, <1>5, <1>6, <1>7
      DEF Next, ClientStep, ServerStep

(* The invariant holds of every careful stream: careful never changes. *)
THEOREM StreamInvariant == Spec => [](careful => StreamInv)
<1>1. (careful => StreamInv) /\ [Next]_vars => (careful' => StreamInv')
  <2>1. [Next]_vars => careful' = careful
    BY DEF Next, ClientStep, ServerStep, Send, Delivery, Arrive, Leave, ReadFirst, ReadInvalid,
      ReadCutHeader, ReadFragment, ReadStart, ReadWhole, ReadRemainder, RemainderLost,
      clientVars, vars
  <2> QED BY <2>1, StreamStep
<1>2. Init => (careful => StreamInv)
  BY StreamInit
<1> QED BY <1>1, <1>2, PTL DEF Spec

(* When headers come whole, and the client waits after a frame shorter than  *)
(* a header can be, wsHandleMessages dispatches the frames the client sent,  *)
(* in order and each of its length, and drops no client that stays.          *)
THEOREM FramesStayIntact == Spec => []FramesIntact
<1>1. (careful => StreamInv) => FramesIntact
  <2> SUFFICES ASSUME StreamInv PROVE FramesIntact
    BY DEF FramesIntact
  <2>1. /\ Len(sent) \in Nat /\ DOMAIN sent = 1 .. Len(sent)
        /\ Len(got) \in Nat /\ DOMAIN got = 1 .. Len(got) /\ Len(got) <= Len(sent)
    BY Shapes DEF StreamInv, Progress
  <2>2. \A i \in DOMAIN got : i \in DOMAIN sent
    BY <2>1
  <2> QED BY <2>2 DEF StreamInv, Progress, FramesIntact
<1> QED BY <1>1, StreamInvariant, PTL
---------------------------------------------------------------------------
(* On any stream, careful or not, a packet that is dispatched has a length   *)
(* of 32 bits: what wsReadPacket makes of any bytes, also of a header that   *)
(* was cut or of which the rest reads as zero, has no more.                  *)
Bits32(n) == n \in Nat /\ n < 4294967296

LEMMA ShortTuples ==
  ASSUME NEW S
  PROVE  /\ \A a, b \in S : <<a, b>> \in Seq(S)
         /\ \A a, b, c, d \in S : <<a, b, c, d>> \in Seq(S)
BY SMT

LEMMA LongTuples ==
  ASSUME NEW S
  PROVE  \A a, b, c, d, e, f, g, h, i, j \in S : <<a, b, c, d, e, f, g, h, i, j>> \in Seq(S)
BY SMT

LEMMA HeaderBytes ==
  ASSUME NEW n \in Nat
  PROVE  ClientHeader(OP_TEXT, n) \in Seq(0 .. 255)
<1>1. /\ Byte0(n) \in 0 .. 255 /\ Byte1(n) \in 0 .. 255
      /\ Byte2(n) \in 0 .. 255 /\ Byte3(n) \in 0 .. 255
  <2>1. \A m \in Nat : m % 256 \in 0 .. 255
    BY SMT
  <2>2. n \div 256 \in Nat /\ n \div 65536 \in Nat /\ n \div 16777216 \in Nat
    BY SMT
  <2> QED BY <2>1, <2>2 DEF Byte0, Byte1, Byte2, Byte3
<1>2. FIN + OP_TEXT \in 0 .. 255 /\ MASK + 126 \in 0 .. 255 /\ MASK + 127 \in 0 .. 255
  BY SMT DEF FIN, MASK, OP_TEXT
<1>3. n < 126 => MASK + n \in 0 .. 255
  BY SMT DEF MASK
<1>4. CASE n < 126
  <2>1. ClientHeader(OP_TEXT, n) = <<FIN + OP_TEXT, MASK + n>>
    BY <1>4 DEF ClientHeader
  <2> QED BY <1>2, <1>3, <1>4, <2>1, ShortTuples
<1>5. CASE ~(n < 126) /\ n < 65536
  <2>1. ClientHeader(OP_TEXT, n) = <<FIN + OP_TEXT, MASK + 126, Byte1(n), Byte0(n)>>
    BY <1>5 DEF ClientHeader
  <2> QED BY <1>1, <1>2, <2>1, ShortTuples
<1>6. CASE ~(n < 126) /\ ~(n < 65536)
  <2>1. ClientHeader(OP_TEXT, n) =
          <<FIN + OP_TEXT, MASK + 127, 0, 0, 0, 0, Byte3(n), Byte2(n), Byte1(n), Byte0(n)>>
    BY <1>6 DEF ClientHeader
  <2>2. 0 \in 0 .. 255
    BY SMT
  <2> QED BY <1>1, <1>2, <2>1, <2>2, LongTuples
<1> QED BY <1>4, <1>5, <1>6

(* The three forms a length has in a header. *)
LEMMA FieldBits ==
  ASSUME NEW f
  PROVE  /\ \A n \in 0 .. 127 : Bits32(n)
         /\ f[3] \in 0 .. 255 /\ f[4] \in 0 .. 255 => Bits32(Short(f, 3))
         /\ f[7] \in 0 .. 255 /\ f[8] \in 0 .. 255 /\ f[9] \in 0 .. 255 /\ f[10] \in 0 .. 255
              => Bits32(Long(f, 7))
<1>1. ASSUME NEW x \in 0 .. 255, NEW y \in 0 .. 255, f[3] = x, f[4] = y
      PROVE  Bits32(Short(f, 3))
  <2>1. 3 + 1 = 4
    OBVIOUS
  <2>2. Short(f, 3) = 256 * x + y
    BY <1>1, <2>1 DEF Short
  <2> QED BY <2>2, SMT DEF Bits32
<1>2. ASSUME NEW w \in 0 .. 255, NEW x \in 0 .. 255, NEW y \in 0 .. 255, NEW z \in 0 .. 255,
             f[7] = w, f[8] = x, f[9] = y, f[10] = z
      PROVE  Bits32(Long(f, 7))
  <2>1. 7 + 1 = 8 /\ 7 + 2 = 9 /\ 7 + 3 = 10
    OBVIOUS
  <2>2. Long(f, 7) = 16777216 * w + 65536 * x + 256 * y + z
    BY <1>2, <2>1 DEF Long
  <2> QED BY <2>2, SMT DEF Bits32
<1>3. \A n \in 0 .. 127 : Bits32(n)
  BY SMT DEF Bits32
<1>4. f[3] \in 0 .. 255 /\ f[4] \in 0 .. 255 => Bits32(Short(f, 3))
  BY <1>1, Zenon
<1>5. f[7] \in 0 .. 255 /\ f[8] \in 0 .. 255 /\ f[9] \in 0 .. 255 /\ f[10] \in 0 .. 255
        => Bits32(Long(f, 7))
  BY <1>2, Zenon
<1> QED BY <1>3, <1>4, <1>5, Zenon

LEMMA PacketFields ==
  ASSUME NEW s \in Seq(0 .. 255), NEW size \in Nat
  PROVE  /\ Bits32(wsReadPacket(s, size).length)
         /\ wsReadPacket(s, size).op \in 0 .. 15 /\ wsReadPacket(s, size).len \in Int
<1> DEFINE b == Received(s, size)
           code == b[2] % MASK
           len == IF code < 126 THEN code ELSE IF code = 126 THEN Short(b, 3) ELSE Long(b, 7)
<1>1. \A i \in 1 .. 10 : b[i] \in 0 .. 255
  <2> SUFFICES ASSUME NEW i \in 1 .. 10 PROVE b[i] \in 0 .. 255
    OBVIOUS
  <2>1. b[i] = IF i <= size /\ i <= Len(s) THEN s[i] ELSE 0
    BY DEF Received
  <2>2. i <= Len(s) => s[i] \in 0 .. 255
    <3>1. Len(s) \in Nat
      BY LenProperties
    <3>2. i <= Len(s) => i \in 1 .. Len(s)
      BY <3>1
    <3> QED BY <3>2, ElementOfSeq
  <2>3. CASE i <= size /\ i <= Len(s)
    BY <2>1, <2>2, <2>3
  <2>4. CASE ~(i <= size /\ i <= Len(s))
    BY <2>1, <2>4
  <2> QED BY <2>3, <2>4
<1>2. /\ wsReadPacket(s, size).length = len
      /\ wsReadPacket(s, size).op = b[1] % 16
  BY DEF wsReadPacket
<1>3. wsReadPacket(s, size).len \in Int
  <2> HIDE DEF b
  <2>1. wsReadPacket(s, size).len =
          size - ((IF b[2] >= MASK THEN KeySize ELSE 0)
                  + (IF code < 126 THEN 2 ELSE IF code = 126 THEN 4 ELSE 10))
    BY DEF wsReadPacket, b
  <2> HIDE DEF code
  <2> QED BY <2>1, SMT DEF KeySize
<1> HIDE DEF b
<1>4. /\ b[1] \in 0 .. 255
      /\ b[2] \in 0 .. 255 /\ b[3] \in 0 .. 255 /\ b[4] \in 0 .. 255
      /\ b[7] \in 0 .. 255 /\ b[8] \in 0 .. 255 /\ b[9] \in 0 .. 255 /\ b[10] \in 0 .. 255
  BY <1>1
<1>5. code \in 0 .. 127 /\ b[1] % 16 \in 0 .. 15
  <2>1. \A x \in 0 .. 255 : x % 128 \in 0 .. 127 /\ x % 16 \in 0 .. 15
    BY SMT
  <2> QED BY <1>4, <2>1 DEF MASK
<1>6. Bits32(code) /\ Bits32(Short(b, 3)) /\ Bits32(Long(b, 7))
  BY <1>4, <1>5, FieldBits
<1>7. len \in {code, Short(b, 3), Long(b, 7)}
  OBVIOUS
<1> HIDE DEF code, len
<1> QED BY <1>2, <1>3, <1>5, <1>6, <1>7
---------------------------------------------------------------------------
(* What holds on any stream.  Lengths have 32 bits, and while the server     *)
(* waits for a remainder it began in step, it is need bytes before the end   *)
(* of some frame, however it came there.                                     *)
PlaceInv ==
  /\ TypeOK /\ Chained
  /\ \A i \in DOMAIN got : Bits32(got[i])
  /\ phase = "remainder" => Bits32(length)
  /\ phase = "remainder" /\ ~astray => \E i \in 1 .. Len(sent) : pos + need = ends[i]

(* Where there is something to read at the start of a frame, the frame has   *)
(* been sent.                                                                *)
LEMMA HereAt ==
  ASSUME TypeOK, Chained, Aligned, arrived > pos
  PROVE  LET n == sent[Here] IN
         /\ Here \in 1 .. Len(sent) /\ n \in Lengths /\ n \in Nat
         /\ ends[Here] \in Nat /\ ends[Here] = pos + FrameSize(n)
<1>1. Here \in 1 .. Len(sent) + 1 /\ Start(Here) = pos
  BY DEF Aligned, Here
<1>2. Len(sent) \in Nat /\ arrived <= StreamEnd /\ arrived \in Nat /\ pos \in Nat
  BY Shapes DEF TypeOK
<1> HIDE DEF Here
<1>3. Here # Len(sent) + 1
  <2> SUFFICES ASSUME Here = Len(sent) + 1 PROVE FALSE
    OBVIOUS
  <2>1. pos = StreamEnd
    BY <1>1, <1>2 DEF Start, StreamEnd
  <2> QED BY <1>2, <2>1
<1>4. Here \in 1 .. Len(sent)
  BY <1>1, <1>2, <1>3
<1>5. sent[Here] \in Lengths /\ sent[Here] \in Nat /\ ends[Here] \in Nat /\ Here \in DOMAIN sent
  BY <1>4, Shapes
<1>6. ends[Here] = pos + FrameSize(sent[Here])
  BY <1>1, <1>5 DEF Chained, Start
<1> QED BY <1>4, <1>5, <1>6

(* A first read takes some of the bytes that have come, and whatever they    *)
(* are, wsReadPacket finds a length of 32 bits in them.                      *)
LEMMA PacketRead ==
  ASSUME TypeOK, Chained, Reading
  PROVE  /\ Size \in Nat /\ pos + Size \in Nat /\ pos + Size <= arrived
         /\ \A packet \in Packets :
              Bits32(packet.length) /\ packet.op \in 0 .. 15 /\ packet.len \in Int
<1>1. pos \in Nat /\ arrived \in Nat /\ arrived > pos
  BY DEF TypeOK, Reading
<1>2. Size \in Nat /\ pos + Size \in Nat /\ pos + Size <= arrived
  BY <1>1, SMT DEF Size, FirstRead, WS_MAX_HEADER_LEN
<1>3. \A s \in Headers : s \in Seq(0 .. 255)
  <2>1. CASE Aligned
    <3>1. sent[Here] \in Nat
      BY <1>1, <2>1, HereAt
    <3> QED BY <2>1, <3>1, HeaderBytes DEF Headers
  <2>2. CASE ~Aligned
    BY <2>2, StreamAssumption DEF Headers, StreamAssumption
  <2> QED BY <2>1, <2>2
<1> HIDE DEF Size, Headers
<1>4. \A packet \in Packets :
        Bits32(packet.length) /\ packet.op \in 0 .. 15 /\ packet.len \in Int
  <2> SUFFICES ASSUME NEW s \in Headers
               PROVE  LET packet == wsReadPacket(s, Size) IN
                      Bits32(packet.length) /\ packet.op \in 0 .. 15 /\ packet.len \in Int
    BY DEF Packets
  <2> QED BY <1>2, <1>3, PacketFields
<1> QED BY <1>2, <1>4

(* Two bytes of a browser's header are enough to know how long it is: len is *)
(* negative exactly when the header was cut.                                 *)
LEMMA CutHeader ==
  ASSUME NEW n \in Nat, NEW size \in Nat, size >= 2
  PROVE  wsReadPacket(ClientHeader(OP_TEXT, n), size).len = size - ClientHeaderSize(n)
<1> DEFINE s == ClientHeader(OP_TEXT, n)
           b == Received(s, size)
<1>1. CASE n < 126
  <2>1. b[2] = MASK + n /\ b[2] % MASK = n /\ b[2] >= MASK
    BY <1>1, SMT DEF ClientHeader, Received, MASK
  <2>2. ClientHeaderSize(n) = 6
    BY <1>1, SMT DEF ClientHeaderSize, KeySize
  <2> QED BY <1>1, <2>1, <2>2, SMT DEF wsReadPacket, KeySize
<1>2. CASE 126 <= n /\ n < 65536
  <2>1. b[2] = MASK + 126 /\ b[2] % MASK = 126 /\ b[2] >= MASK
    BY <1>2, SMT DEF ClientHeader, Received, MASK
  <2>2. ClientHeaderSize(n) = 8
    BY <1>2, SMT DEF ClientHeaderSize, KeySize
  <2> QED BY <2>1, <2>2, SMT DEF wsReadPacket, KeySize
<1>3. CASE 65536 <= n
  <2>1. b[2] = MASK + 127 /\ b[2] % MASK = 127 /\ b[2] >= MASK
    BY <1>3, SMT DEF ClientHeader, Received, MASK
  <2>2. ClientHeaderSize(n) = 14
    BY <1>3, SMT DEF ClientHeaderSize, KeySize
  <2> QED BY <2>1, <2>2, SMT DEF wsReadPacket, KeySize
<1> QED BY <1>1, <1>2, <1>3, SMT

(* A first read at the start of a frame. *)
LEMMA FirstReadHere ==
  ASSUME TypeOK, Chained, Reading, Aligned, Packet.ok = 1
  PROVE  LET n == sent[Here]
             h == ClientHeaderSize(n)
         IN
         /\ Size \in 2 .. WS_MAX_HEADER_LEN /\ pos + Size <= arrived
         /\ Packet.len = Size - h
         /\ Size >= h => Packet.length = n
         /\ arrived - pos >= h => Size >= h
<1> DEFINE n == sent[Here]
           h == ClientHeaderSize(n)
<1>1. n \in Nat /\ n <= MAX_WS_PACKET_LENGTH
  BY HereAt, LengthsBounded DEF Reading
<1>2. Packet = wsReadPacket(ClientHeader(OP_TEXT, n), Size)
  BY DEF Packet
<1> HIDE DEF n
<1>3. h \in 6 .. WS_MAX_HEADER_LEN
  BY <1>1, Sizes
<1>4. /\ Size \in Nat /\ Size <= WS_MAX_HEADER_LEN /\ pos + Size <= arrived
      /\ arrived - pos >= h => Size >= h
  BY <1>3, SMT DEF Size, FirstRead, WS_MAX_HEADER_LEN, TypeOK, Reading
<1> HIDE DEF Packet, Size
<1>5. Size >= 2
  BY <1>2, <1>4, SMT DEF wsReadPacket
<1>6. Packet.len = Size - h
  BY <1>1, <1>2, <1>4, <1>5, CutHeader
<1>7. Size >= h => Packet.length = n
  <2>1. ClientFrameRead(OP_TEXT, n, Size)
    <3>1. OP_TEXT \in 0 .. 15
      BY DEF OP_TEXT
    <3> QED BY <1>1, <1>4, <3>1, ClientFramesReadBack
  <2> QED BY <1>1, <1>2, <2>1 DEF ClientFrameRead
<1>8. Size \in 2 .. WS_MAX_HEADER_LEN
  BY <1>4, <1>5, SMT DEF WS_MAX_HEADER_LEN
<1> QED BY <1>4, <1>6, <1>7, <1>8 DEF n

LEMMA PlaceInit == Init => PlaceInv
BY InitTyped DEF Init, PlaceInv

(* Another length of 32 bits is dispatched. *)
LEMMA GotGrows ==
  ASSUME got \in Seq(Nat), \A i \in DOMAIN got : Bits32(got[i]),
         NEW n, Bits32(n), got' = Append(got, n)
  PROVE  got' \in Seq(Nat) /\ \A i \in DOMAIN got' : Bits32(got'[i])
<1>1. n \in Nat
  BY DEF Bits32
<1>2. /\ got' \in Seq(Nat) /\ Len(got) \in Nat /\ DOMAIN got = 1 .. Len(got)
      /\ DOMAIN got' = 1 .. Len(got) + 1
      /\ \A i \in 1 .. Len(got) : got'[i] = got[i]
      /\ got'[Len(got) + 1] = n
  BY <1>1, AppendProperties, LenProperties
<1>3. ASSUME NEW i \in DOMAIN got' PROVE Bits32(got'[i])
  <2>1. i \in 1 .. Len(got) \/ i = Len(got) + 1
    BY <1>2
  <2> QED BY <1>2, <2>1
<1> QED BY <1>2, <1>3

(* Reading moves the server forward over what has arrived. *)
LEMMA PlaceRead ==
  ASSUME PlaceInv, UNCHANGED <<sent, ends, arrived, careful>>, open' \in BOOLEAN,
         pos' \in Nat, pos' <= arrived,
         got' \in Seq(Nat), \A i \in DOMAIN got' : Bits32(got'[i]),
         length' \in Nat, opcode' \in 0 .. 15, need' \in Nat, astray' \in BOOLEAN,
         phase' \in {"idle", "remainder", "killed", "crashed", "aborted"},
         phase' = "remainder" => Bits32(length'),
         phase' = "remainder" /\ ~astray' => \E i \in 1 .. Len(sent) : pos' + need' = ends[i]
  PROVE  PlaceInv'
<1>1. Chained' /\ StreamEnd' = StreamEnd
  BY SameStream DEF PlaceInv
<1> QED BY <1>1 DEF PlaceInv, TypeOK

(* The beginning of a frame, or of what is taken for one. *)
LEMMA PlaceReadStart ==
  ASSUME PlaceInv, Reading, NEW packet \in Packets, ReadStart(packet)
  PROVE  PlaceInv'
<1> DEFINE n == sent[Here]
           h == ClientHeaderSize(n)
<1>1. /\ packet.ok = 1 /\ 0 <= packet.len /\ packet.len < packet.length
      /\ phase' = "remainder" /\ pos' = pos + Size
      /\ length' = packet.length /\ opcode' = packet.op
      /\ need' = packet.length - packet.len /\ astray' = ~Aligned
      /\ UNCHANGED <<sent, ends, arrived, open, careful, got>>
  BY DEF ReadStart, Missing, Decoded, Incomplete, clientVars
<1>2. /\ Size \in Nat /\ pos + Size \in Nat /\ pos + Size <= arrived
      /\ Bits32(packet.length) /\ packet.op \in 0 .. 15 /\ packet.len \in Int
  BY PacketRead DEF PlaceInv
<1>3. /\ arrived \in Nat /\ pos \in Nat /\ open \in BOOLEAN /\ got \in Seq(Nat)
      /\ arrived > pos /\ \A i \in DOMAIN got : Bits32(got[i])
  BY DEF PlaceInv, TypeOK, Reading
<1>4. need' \in Nat /\ length' \in Nat
  <2>1. packet.length \in Nat
    BY <1>2 DEF Bits32
  <2> QED BY <1>1, <1>2, <2>1
<1>5. ASSUME Aligned PROVE pos' + need' = ends[Here] /\ Here \in 1 .. Len(sent)
  <2>1. packet = Packet
    BY <1>5, OnePacket
  <2>2. /\ Here \in 1 .. Len(sent) /\ n \in Nat /\ ends[Here] \in Nat
        /\ ends[Here] = pos + FrameSize(n)
    BY <1>3, <1>5, HereAt DEF PlaceInv
  <2>3. h \in Nat /\ FrameSize(n) = h + n
    BY <2>2, Sizes
  <2>4. packet.len = Size - h /\ (Size >= h => packet.length = n)
    BY <1>1, <1>5, <2>1, FirstReadHere DEF PlaceInv
  <2> HIDE DEF n, h, Size, Packet
  <2>5. Size >= h
    BY <1>1, <1>2, <2>3, <2>4, SMT
  <2>6. packet.length = n /\ need' = n - (Size - h)
    BY <1>1, <2>4, <2>5
  <2> QED BY <1>1, <1>2, <1>3, <2>2, <2>3, <2>6, SMT
<1> QED BY <1>1, <1>2, <1>3, <1>4, <1>5, PlaceRead

(* A first read, in step or out of it. *)
LEMMA PlaceReadFirst ==
  ASSUME PlaceInv, ReadFirst
  PROVE  PlaceInv'
<1>1. PICK packet \in Packets :
        \/ ReadInvalid(packet) \/ ReadCutHeader(packet) \/ ReadFragment(packet)
        \/ ReadStart(packet) \/ ReadWhole(packet)
  BY DEF ReadFirst
<1>2. Reading
  BY DEF ReadFirst
<1>3. /\ pos + Size \in Nat /\ pos + Size <= arrived
      /\ Bits32(packet.length)
  BY <1>2, PacketRead DEF PlaceInv
<1>4. /\ open \in BOOLEAN /\ got \in Seq(Nat) /\ \A i \in DOMAIN got : Bits32(got[i])
      /\ length \in Nat /\ opcode \in 0 .. 15 /\ need \in Nat /\ astray \in BOOLEAN
  BY DEF PlaceInv, TypeOK
<1>5. CASE ReadInvalid(packet) \/ ReadCutHeader(packet) \/ ReadFragment(packet)
  <2>1. /\ pos' = pos + Size /\ phase' \in {"killed", "crashed", "aborted"}
        /\ UNCHANGED <<sent, ends, arrived, open, careful, got, length, opcode, need, astray>>
    BY <1>5 DEF ReadInvalid, ReadCutHeader, ReadFragment, clientVars, remainVars
  <2> QED BY <1>3, <1>4, <2>1, PlaceRead
<1>6. CASE ReadWhole(packet)
  <2>1. /\ pos' = pos + Size /\ got' = Append(got, packet.length)
        /\ phase' \in {"idle", "killed"}
        /\ UNCHANGED <<sent, ends, arrived, open, careful, length, opcode, need, astray>>
    BY <1>6 DEF ReadWhole, Dispatch, clientVars, remainVars
  <2>2. got' \in Seq(Nat) /\ \A i \in DOMAIN got' : Bits32(got'[i])
    BY <1>3, <1>4, <2>1, GotGrows
  <2> QED BY <1>3, <1>4, <2>1, <2>2, PlaceRead
<1> QED BY <1>1, <1>2, <1>5, <1>6, PlaceReadStart

LEMMA PlaceStep ==
  ASSUME PlaceInv, [Next]_vars
  PROVE  PlaceInv'
<1>0. /\ Len(sent) \in Nat /\ arrived \in Nat /\ pos \in Nat /\ need \in Nat /\ length \in Nat
      /\ pos <= arrived /\ open \in BOOLEAN /\ got \in Seq(Nat)
      /\ opcode \in 0 .. 15 /\ astray \in BOOLEAN
      /\ \A i \in DOMAIN got : Bits32(got[i])
  BY Shapes DEF PlaceInv, TypeOK
<1>1. ASSUME NEW n \in Lengths, Send(n) PROVE PlaceInv'
  <2>1. /\ TypeOK' /\ Chained'
        /\ UNCHANGED <<arrived, open, careful, pos, got, phase, remainVars>>
        /\ Len(sent') = Len(sent) + 1
        /\ \A i \in 1 .. Len(sent) : ends'[i] = ends[i]
    BY <1>1, SendChains DEF PlaceInv
  <2>2. UNCHANGED <<phase, pos, need, length, astray, got>>
    BY <2>1 DEF remainVars
  <2>3. \A i \in 1 .. Len(sent) : i \in 1 .. Len(sent')
    BY <1>0, <2>1
  <2> QED BY <2>1, <2>2, <2>3 DEF PlaceInv
<1>2. ASSUME Delivery PROVE PlaceInv'
  <2>1. PICK k \in Pieces \cup {StreamEnd - arrived} : Arrive(k)
    BY <1>2 DEF Delivery
  <2>2. StreamEnd \in Nat
    BY Shapes DEF StreamEnd, End, PlaceInv
  <2>3. k \in Nat
    BY <1>0, <1>2, <2>1, <2>2, StreamAssumption DEF StreamAssumption, Delivery
  <2>4. /\ arrived' = arrived + k /\ arrived + k <= StreamEnd
        /\ UNCHANGED <<sent, ends, open, careful, pos, got, phase, length, opcode, need, astray>>
    BY <2>1 DEF Arrive, remainVars
  <2>5. Chained' /\ StreamEnd' = StreamEnd
    BY <2>4, SameStream DEF PlaceInv
  <2>6. arrived' \in Nat /\ pos' <= arrived' /\ arrived' <= StreamEnd'
    BY <1>0, <2>3, <2>4, <2>5
  <2> QED BY <2>4, <2>5, <2>6 DEF PlaceInv, TypeOK
<1>3. CASE Leave
  <2>1. /\ open' = FALSE
        /\ UNCHANGED <<sent, ends, arrived, careful, pos, got, phase, length, opcode, need, astray>>
    BY <1>3 DEF Leave, remainVars
  <2>2. Chained' /\ StreamEnd' = StreamEnd
    BY <2>1, SameStream DEF PlaceInv
  <2> QED BY <2>1, <2>2 DEF PlaceInv, TypeOK
<1>4. CASE ReadFirst
  BY <1>4, PlaceReadFirst
<1>5. CASE ReadRemainder
  <2>1. /\ phase = "remainder" /\ arrived - pos >= need /\ pos' = pos + need
        /\ got' = Append(got, length) /\ phase' \in {"idle", "killed"}
        /\ length' \in Nat /\ opcode' \in 0 .. 15 /\ need' \in Nat /\ astray' \in BOOLEAN
        /\ UNCHANGED <<sent, ends, arrived, open, careful>>
    BY <1>5, FreedTyped DEF ReadRemainder, Dispatch, clientVars
  <2>2. got' \in Seq(Nat) /\ \A i \in DOMAIN got' : Bits32(got'[i])
    <3>1. Bits32(length)
      BY <2>1 DEF PlaceInv
    <3> QED BY <1>0, <2>1, <3>1, GotGrows
  <2>3. pos' \in Nat /\ pos' <= arrived
    BY <1>0, <2>1
  <2> QED BY <1>0, <2>1, <2>2, <2>3, PlaceRead
<1>6. CASE RemainderLost
  <2>1. /\ phase' = "killed" /\ pos' = arrived
        /\ length' \in Nat /\ opcode' \in 0 .. 15 /\ need' \in Nat /\ astray' \in BOOLEAN
        /\ UNCHANGED <<sent, ends, arrived, open, careful, got>>
    BY <1>6, FreedTyped DEF RemainderLost, clientVars
  <2> QED BY <1>0, <2>1, PlaceRead
<1>7. CASE UNCHANGED vars
  <2>1. UNCHANGED <<sent, ends, arrived, open, careful, pos, got, phase, length, opcode, need, astray>>
    BY <1>7 DEF vars, clientVars, remainVars
  <2>2. Chained' /\ StreamEnd' = StreamEnd
    BY <2>1, SameStream DEF PlaceInv
  <2> QED BY <2>1, <2>2 DEF PlaceInv, TypeOK
<1> QED BY <1>1, <1>2, <1>3, <1>4, <1>5, <1>6, <1>7 DEF Next, ClientStep, ServerStep

LEMMA PlaceInvariant == Spec => []PlaceInv
BY PlaceInit, PlaceStep, PTL DEF Spec

(* Whatever the stream is cut into and whatever its bytes are taken for, a   *)
(* browser can read the header of a message as long as any packet that       *)
(* wsHandleMessages dispatches, also those it reads out of step.             *)
THEOREM RepliesReadBack == Spec => []RepliesRead
<1>1. PlaceInv => RepliesRead
  <2> SUFFICES ASSUME PlaceInv, NEW i \in DOMAIN got
               PROVE  ServerFrameRead(OP_TEXT, got[i])
    BY DEF RepliesRead
  <2>1. got[i] \in Nat /\ got[i] < 4294967296
    BY DEF PlaceInv, Bits32
  <2>2. OP_TEXT \in 0 .. 15
    BY DEF OP_TEXT
  <2> QED BY <2>1, <2>2, ServerFramesReadBack
<1> QED BY <1>1, PlaceInvariant, PTL
---------------------------------------------------------------------------
(* The end of a frame is the start of the next. *)
LEMMA EndIsStart ==
  ASSUME TypeOK, NEW i \in 1 .. Len(sent), UNCHANGED <<sent, ends>>, pos' = ends[i]
  PROVE  Aligned'
<1>1. Len(sent) \in Nat
  BY Shapes
<1>2. i + 1 \in 1 .. Len(sent) + 1 /\ (i + 1) - 1 = i /\ i # 0
  BY <1>1
<1>3. Start(i + 1)' = ends[i]
  BY <1>2 DEF Start, End
<1> QED BY <1>2, <1>3 DEF Aligned

(* The boundaries survive every step but the first read of a frame that is   *)
(* shorter than a header can be, or whose header was cut.                    *)
LEMMA WholeStaysAligned ==
  ASSUME PlaceInv, Reading, Aligned, ReadWhole(Packet),
         ~ShortFrame(sent[Here]), ~(arrived - pos < ClientHeaderSize(sent[Here]))
  PROVE  Aligned'
<1> DEFINE n == sent[Here]
           h == ClientHeaderSize(n)
<1>1. /\ Packet.ok = 1 /\ ~Incomplete(Packet)
      /\ pos' = pos + Size /\ UNCHANGED <<sent, ends>>
  BY DEF ReadWhole, Decoded, clientVars
<1>2. /\ Here \in 1 .. Len(sent) /\ n \in Nat /\ ends[Here] = pos + FrameSize(n)
      /\ arrived \in Nat /\ pos \in Nat
  BY HereAt DEF Reading, PlaceInv, TypeOK
<1>3. h \in 6 .. WS_MAX_HEADER_LEN /\ FrameSize(n) = h + n /\ FrameSize(n) \in Nat
  BY <1>2, Sizes
<1>4. /\ Size \in 2 .. WS_MAX_HEADER_LEN /\ Packet.len = Size - h
      /\ Size >= h => Packet.length = n
      /\ arrived - pos >= h => Size >= h
  BY <1>1, FirstReadHere DEF PlaceInv
<1>5. FrameSize(n) >= WS_MAX_HEADER_LEN /\ ~(arrived - pos < h)
  BY <1>3, SMT DEF ShortFrame, WS_MAX_HEADER_LEN
<1> HIDE DEF n, h, Size, Packet
<1>6. Size >= h
  BY <1>2, <1>3, <1>4, <1>5, SMT DEF WS_MAX_HEADER_LEN
<1>7. Size - h >= n
  <2>1. Packet.len = Size - h /\ Packet.length = n
    BY <1>4, <1>6
  <2>2. ~(0 <= Size - h /\ Size - h < n)
    BY <1>1, <2>1 DEF Incomplete
  <2> QED BY <1>2, <1>3, <1>4, <1>6, <2>2, SMT DEF WS_MAX_HEADER_LEN
<1>8. Size = FrameSize(n)
  BY <1>2, <1>3, <1>4, <1>5, <1>6, <1>7, SMT DEF WS_MAX_HEADER_LEN
<1>9. pos' = ends[Here]
  BY <1>1, <1>2, <1>8
<1> QED BY <1>1, <1>2, <1>9, EndIsStart DEF PlaceInv

LEMMA StaysAligned ==
  ASSUME PlaceInv, [Next]_vars, InStep, phase' = "idle",
         phase = "idle" => /\ ~ShortFrame(sent[Here])
                           /\ ~(arrived - pos < ClientHeaderSize(sent[Here]))
  PROVE  Aligned'
<1>0. Len(sent) \in Nat
  BY Shapes DEF PlaceInv
<1>1. ASSUME NEW n \in Lengths, Send(n) PROVE Aligned'
  <2>1. /\ pos' = pos /\ phase' = phase /\ Len(sent') = Len(sent) + 1
        /\ \A i \in 0 .. Len(sent) : End(i)' = End(i)
    BY <1>1, SendChains DEF PlaceInv
  <2>2. PICK i \in 1 .. Len(sent) + 1 : Start(i) = pos
    BY <2>1 DEF InStep, Aligned
  <2>3. i - 1 \in 0 .. Len(sent) /\ i \in 1 .. Len(sent') + 1
    BY <1>0, <2>1
  <2> QED BY <2>1, <2>2, <2>3 DEF Aligned, Start
<1>2. CASE Delivery \/ Leave \/ UNCHANGED vars
  <2>1. UNCHANGED <<sent, ends, pos, phase>>
    BY <1>2 DEF Delivery, Arrive, Leave, vars, clientVars
  <2> QED BY <2>1 DEF InStep, Aligned, Start, End
<1>3. CASE RemainderLost
  BY <1>3 DEF RemainderLost
<1>4. ASSUME ReadFirst PROVE Aligned'
  <2>1. PICK packet \in Packets :
          \/ ReadInvalid(packet) \/ ReadCutHeader(packet) \/ ReadFragment(packet)
          \/ ReadStart(packet) \/ ReadWhole(packet)
    BY <1>4 DEF ReadFirst
  <2>2. ReadWhole(packet)
    BY <2>1 DEF ReadInvalid, ReadCutHeader, ReadFragment, ReadStart
  <2>3. Reading /\ phase = "idle" /\ Aligned
    BY <1>4 DEF ReadFirst, Reading, InStep
  <2>4. packet = Packet
    BY <2>3, OnePacket
  <2> HIDE DEF Packet
  <2> QED BY <2>2, <2>3, <2>4, WholeStaysAligned
<1>5. ASSUME ReadRemainder PROVE Aligned'
  <2>1. phase = "remainder" /\ pos' = pos + need /\ UNCHANGED <<sent, ends>>
    BY <1>5 DEF ReadRemainder, clientVars
  <2>2. PICK i \in 1 .. Len(sent) : pos + need = ends[i]
    BY <2>1 DEF InStep, PlaceInv
  <2> QED BY <2>1, <2>2, EndIsStart DEF PlaceInv
<1> QED BY <1>1, <1>2, <1>3, <1>4, <1>5 DEF Next, ClientStep, ServerStep

(* On any stream, however TCP cuts it and whatever the server reads out of   *)
(* step, wsHandleMessages loses the boundaries of the frames at a frame      *)
(* shorter than a header can be or at a header that was cut, by a first      *)
(* read, and nowhere else.                                                   *)
THEOREM BoundariesLost == Spec => LostOnlyAtShortOrCut
<1>1. PlaceInv /\ [Next]_vars =>
        [InStep /\ phase' = "idle" /\ ~Aligned' =>
           /\ phase = "idle"
           /\ \/ ShortFrame(sent[Here])
              \/ arrived - pos < ClientHeaderSize(sent[Here])]_vars
  BY StaysAligned
<1> QED BY <1>1, PlaceInvariant, PTL DEF Spec, LostOnlyAtShortOrCut
=============================================================================
