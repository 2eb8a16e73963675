------------------------------ MODULE WsStream ------------------------------
(***************************************************************************)
(* How wsHandleMessages finds the frames in one client's byte stream.      *)
(* TCP keeps the order of the bytes and nothing else: what is one frame to *)
(* the client may come in pieces, and two frames may come together.  The   *)
(* server has no buffer of its own between two calls; it reads up to       *)
(* WS_MAX_HEADER_LEN bytes, takes them for the start of a frame, and reads *)
(* what the header says is missing with MSG_WAITALL.                       *)
(*                                                                         *)
(* Positions count bytes from the start of the stream; a frame is known by *)
(* its payload length.  Where the server reads and no frame starts, it is  *)
(* out of step: the bytes it takes for a header are payload, mask key or   *)
(* the middle of a header, and may be any.                                 *)
(***************************************************************************)
EXTENDS WsFrame

CONSTANTS
  Lengths,       \* the payload lengths a client uses
  MaxFrames,     \* bound: how many frames it sends
  Pieces,        \* bound: the sizes TCP cuts the stream into, when it does
  Noise,         \* what bytes that are no header may read like
  MaxPackets     \* bound: with so many dispatched, nothing more is read out of step

ASSUME StreamAssumption ==
  /\ Lengths \subseteq 0 .. MAX_WS_PACKET_LENGTH /\ MaxFrames \in Nat
  /\ Pieces \subseteq Nat \ {0}
  /\ Noise \subseteq Seq(0 .. 255) /\ MaxPackets \in Nat

VARIABLES
  sent,     \* the frames sent
  ends,     \* ends[i]: the position after frame i
  arrived,  \* the bytes TCP has delivered
  open,     \* whether the client is still there
  careful,  \* whether TCP keeps headers whole and the client waits after a short frame
  pos,      \* the bytes the server has read
  got,      \* the packets it dispatched, by their length
  phase,    \* where wsHandleMessages is
  length,   \* packet.length
  opcode,   \* packet.header.opcode
  need,     \* remain_len
  astray    \* history: whether the packet that waits for its remainder began at no frame

clientVars == <<sent, ends, arrived, open, careful>>
remainVars == <<length, opcode, need, astray>>
vars == <<clientVars, pos, got, phase, remainVars>>

OP_CONTINUATION == 0
OP_TEXT == 1
OP_CLOSE == 8
FrameSize(n) == ClientHeaderSize(n) + n
ShortFrame(n) == FrameSize(n) < WS_MAX_HEADER_LEN
End(i) == IF i = 0 THEN 0 ELSE ends[i]
Start(i) == End(i - 1)
StreamEnd == End(Len(sent))

Init ==
  /\ sent = << >> /\ ends = << >> /\ arrived = 0 /\ open = TRUE /\ careful \in BOOLEAN
  /\ pos = 0 /\ got = << >> /\ phase = "idle"
  /\ length = 0 /\ opcode = 0 /\ need = 0 /\ astray = FALSE
---------------------------------------------------------------------------
(* The client and the network. *)
Send(n) ==
  /\ open /\ Len(sent) < MaxFrames
  /\ careful /\ sent # << >> /\ ShortFrame(sent[Len(sent)])
       => phase = "idle" /\ pos = StreamEnd
  /\ sent' = Append(sent, n)
  /\ ends' = Append(ends, StreamEnd + FrameSize(n))
  /\ UNCHANGED <<arrived, open, careful, pos, got, phase, remainVars>>

CutsHeader(at) ==
  \E i \in DOMAIN sent : Start(i) < at /\ at < Start(i) + ClientHeaderSize(sent[i])

Arrive(k) ==
  /\ open /\ arrived + k <= StreamEnd
  /\ careful => ~CutsHeader(arrived + k)
  /\ arrived' = arrived + k
  /\ UNCHANGED <<sent, ends, open, careful, pos, got, phase, remainVars>>

Leave ==
  /\ open /\ open' = FALSE
  /\ UNCHANGED <<sent, ends, arrived, careful, pos, got, phase, remainVars>>
Delivery ==
  arrived < StreamEnd /\ \E k \in Pieces \cup {StreamEnd - arrived} : Arrive(k)

---------------------------------------------------------------------------
(* wsHandleMessages, called when the socket is readable.  The first read    *)
(* takes what there is, up to the longest header.                           *)
FirstRead_Padded(available) ==
  IF available < WS_MAX_HEADER_LEN + 2 THEN available ELSE WS_MAX_HEADER_LEN + 2

FirstRead(available) ==
  IF available < WS_MAX_HEADER_LEN THEN available ELSE WS_MAX_HEADER_LEN

(* The frame that starts where the server reads, if one does, and what the   *)
(* first read then finds.                                                    *)
Here == CHOOSE i \in 1 .. Len(sent) + 1 : Start(i) = pos
Aligned == \E i \in 1 .. Len(sent) + 1 : Start(i) = pos
Headers == IF Aligned THEN {ClientHeader(OP_TEXT, sent[Here])} ELSE Noise
Size == FirstRead(arrived - pos)
Packets == {wsReadPacket(s, Size) : s \in Headers}
Reading == phase = "idle" /\ arrived > pos /\ (Aligned \/ Len(got) < MaxPackets)

(* "Invalid packet received!": the handler returns CONN_KILL. *)
ReadInvalid(packet) ==
  /\ packet.ok = 0
  /\ phase' = "killed" /\ pos' = pos + Size
  /\ UNCHANGED <<clientVars, got, remainVars>>

(* The header was cut: size - offset is negative, the decoding loop of a     *)
(* masked packet takes it for a huge size_t and runs out of the payload.     *)
Runaway(packet) == packet.mask = 1 /\ packet.length > 0 /\ packet.len < 0
Decoded(packet) == packet.ok = 1 /\ ~Runaway(packet)

ReadCutHeader(packet) ==
  /\ packet.ok = 1 /\ Runaway(packet)
  /\ phase' = "crashed" /\ pos' = pos + Size
  /\ UNCHANGED <<clientVars, got, remainVars>>

(* The first frame of several: the assertion "Not implemented yet!" ends the *)
(* process.                                                                  *)
Fragment(packet) == packet.fin = 0 /\ packet.op # OP_CONTINUATION

ReadFragment(packet) ==
  /\ Decoded(packet) /\ Fragment(packet)
  /\ phase' = "aborted" /\ pos' = pos + Size
  /\ UNCHANGED <<clientVars, got, remainVars>>

(* packet.len is a u32: a len below 0 is less than no length. *)
Incomplete(packet) == 0 <= packet.len /\ packet.len < packet.length

Missing_WholeLength(packet) == packet.length
Missing(packet) == packet.length - packet.len

ReadStart(packet) ==
  /\ Decoded(packet) /\ ~Fragment(packet) /\ Incomplete(packet)
  /\ phase' = "remainder" /\ pos' = pos + Size
  /\ length' = packet.length /\ opcode' = packet.op /\ need' = Missing(packet)
  /\ astray' = ~Aligned
  /\ UNCHANGED <<clientVars, got>>

(* The packet is local to the call, and freed at its end. *)
PacketFreed == length' = 0 /\ opcode' = 0 /\ need' = 0 /\ astray' = FALSE

(* onpacket, which is handlePacket: only a close frame is not kept alive. *)
Dispatch(n, op) ==
  /\ got' = Append(got, n)
  /\ phase' = IF op = OP_CLOSE THEN "killed" ELSE "idle"

(* The frame is there, as far as the code looks.  Of a masked one all len    *)
(* bytes that came are decoded (ws.c:84-86), also those beyond its end, into *)
(* a payload allocated for length.  That writes past the allocation: 8 bytes *)
(* at most in all, 14 less the shortest masked header, and no chunk of       *)
(* malloc is smaller, so that the write is taken to change nothing else.     *)
(* What follows the frame in those bytes is lost with the packet.            *)
ReadWhole(packet) ==
  /\ Decoded(packet) /\ ~Fragment(packet) /\ ~Incomplete(packet)
  /\ Dispatch(packet.length, packet.op) /\ pos' = pos + Size
  /\ UNCHANGED <<clientVars, remainVars>>

(* recv(MSG_WAITALL), which takes the next need bytes of the stream, whose   *)
(* ever they are, and wsDecodePacketData.                                    *)
ReadRemainder ==
  /\ phase = "remainder" /\ arrived - pos >= need
  /\ Dispatch(length, opcode) /\ pos' = pos + need
  /\ PacketFreed /\ UNCHANGED clientVars

(* The client left before the remainder came: CONN_KILL. *)
RemainderLost ==
  /\ phase = "remainder" /\ ~open /\ arrived - pos < need
  /\ phase' = "killed" /\ pos' = arrived
  /\ PacketFreed /\ UNCHANGED <<clientVars, got>>

ReadFirst ==
  /\ Reading
  /\ \E packet \in Packets :
       \/ ReadInvalid(packet) \/ ReadCutHeader(packet) \/ ReadFragment(packet)
       \/ ReadStart(packet) \/ ReadWhole(packet)
---------------------------------------------------------------------------
ClientStep ==
  \/ \E n \in Lengths : Send(n)
  \/ Delivery \/ Leave

ServerStep ==
  \/ ReadFirst \/ ReadRemainder \/ RemainderLost

Next == ClientStep \/ ServerStep
Spec == Init /\ [][Next]_vars

(* The server reads when it can, and TCP delivers what a client that stays  *)
(* has sent.                                                                *)
FairSpec == Spec /\ WF_vars(ServerStep) /\ WF_vars(Delivery)
---------------------------------------------------------------------------
(* The types of the state; the server never reads ahead of TCP. *)
TypeOK ==
  /\ sent \in Seq(Lengths) /\ ends \in Seq(Nat) /\ Len(ends) = Len(sent)
  /\ arrived \in Nat /\ open \in BOOLEAN /\ careful \in BOOLEAN
  /\ pos \in Nat /\ got \in Seq(Nat)
  /\ phase \in {"idle", "remainder", "killed", "crashed", "aborted"}
  /\ length \in Nat /\ opcode \in 0 .. 15 /\ need \in Nat /\ astray \in BOOLEAN
  /\ pos <= arrived /\ arrived <= StreamEnd

(* On a careful stream the packets dispatched are the frames sent, in order, *)
(* each of its full length, and a client is dropped or the process ended     *)
(* only when the client left in the middle of a frame.                       *)
FramesIntact ==
  careful =>
    /\ \A i \in DOMAIN got : i \in DOMAIN sent /\ got[i] = sent[i]
    /\ phase \notin {"crashed", "aborted"} /\ (phase = "killed" => ~open)

(* Whatever the bytes are taken for, in step or out of it, a browser reads   *)
(* the length and the header that wsSendPacket writes for every message as   *)
(* long as a packet that was dispatched.                                     *)
RepliesRead == \A i \in DOMAIN got : ServerFrameRead(OP_TEXT, got[i])

(* A packet begun at the start of a frame leaves the server at the start of  *)
(* one, also when it took a remainder; the server loses the boundaries in    *)
(* two ways only: a first read went past the end of a frame shorter than a   *)
(* header can be, or a header was cut.                                       *)
InStep == IF phase = "remainder" THEN ~astray ELSE Aligned

LostOnlyAtShortOrCut ==
  [][InStep /\ phase' = "idle" /\ ~Aligned' =>
       /\ phase = "idle"
       /\ \/ ShortFrame(sent[Here])
          \/ arrived - pos < ClientHeaderSize(sent[Here])]_vars

(* Every frame of a client that stays is dispatched, on a careful stream.    *)
FramesDelivered ==
  \A i \in 1 .. MaxFrames :
    (careful /\ Len(sent) >= i) ~> (Len(got) >= i \/ ~open)
---------------------------------------------------------------------------
(* ws.c:72: the size is to be validated against "the data found", and        *)
(* ws.c:83: "only decode if all data is present".                            *)
NeverDecodesMissing == phase # "crashed"
=============================================================================
