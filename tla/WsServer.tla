------------------------------ MODULE WsServer ------------------------------
(***************************************************************************)
(* The WebSocket server: the handlers of src/server/ws.c and server.c in   *)
(* the loop of ConnServer.  Between the call and the return of a callback  *)
(* the handler takes steps of its own: it reads its client's stream,       *)
(* blocks in recv or send where the code does, and sends to every client   *)
(* in turn.  call says how far it has come.                                *)
(*                                                                         *)
(* A unit of the stream is a handshake request, a whole frame, or a piece  *)
(* of one.  A frame is short when it has fewer bytes than WS_MAX_HEADER_LEN *)
(* (14): the read that starts a frame then takes bytes of the next one.    *)
(***************************************************************************)
EXTENDS ConnServer

CONSTANTS
  Sends,     \* the units clients send, a subset of Data
  MaxSends,  \* bound: how many frames one client sends
  Upsets     \* bound: which of "reset", "stall" and "silence" happen

VARIABLES
  call,   \* the handler: its stage, the event it sends, the next recipient, its result
  log,    \* the events broadcast so far
  since,  \* since[p]: the length of log when p was listed
  tx,     \* tx[p]: the events sent to p since then
  slow,   \* clients whose receive window is full
  cl      \* cl[p]: the client program: its phase and the frames it may still send

wsVars == <<call, log, since, tx, slow, cl>>
allVars == <<vars, wsVars>>

Units == {"upgrade", "noise", "text", "hello", "pong", "close", "unknown", "frag",
          "head", "rest", "torn"}
ShortFrames == {"hello", "pong", "close"}

NoEvent == <<"none", NoPeer>>
Idle == [stage |-> "idle", event |-> NoEvent, to |-> 1, ret |-> KILL]
At(stage) == [Idle EXCEPT !.stage = stage]
Return(st) == [Idle EXCEPT !.stage = "return", !.ret = st]

ASSUME WsAssumption ==
  /\ Data = Units /\ Sends \subseteq Units \ {"torn"}
  /\ MaxSends \in Nat /\ Upsets \subseteq {"reset", "stall", "silence"}
  /\ Results = {KILL, KEEP_ALIVE}
---------------------------------------------------------------------------
WsInit ==
  /\ Init
  /\ call = Idle /\ log = << >> /\ slow = {}
  /\ since = [p \in Peers |-> 0]
  /\ tx = [p \in Peers |-> << >>]
  /\ cl = [p \in Peers |-> [phase |-> "new", quota |-> MaxSends]]

(* The clients.  They ask for the upgrade once, and send frames only when   *)
(* the server has answered it, as a browser's WebSocket does.               *)
SendAsked(p, d) ==
  /\ d \in {"upgrade", "noise"} /\ cl[p].phase = "new"
  /\ cl' = [cl EXCEPT ![p].phase = "asked"]

SendFrame(p, d) ==
  /\ d \notin {"upgrade", "noise", "rest"} /\ cl[p].phase = "up" /\ cl[p].quota > 0
  /\ cl' = [cl EXCEPT ![p] = [phase |-> IF d = "head" THEN "half" ELSE "up",
                              quota |-> @.quota - 1]]

SendRest(p, d) ==
  /\ d = "rest" /\ cl[p].phase = "half"
  /\ cl' = [cl EXCEPT ![p].phase = "up"]

ClientSend(p, d) ==
  /\ PeerSend(p, d)
  /\ SendAsked(p, d) \/ SendFrame(p, d) \/ SendRest(p, d)
  /\ UNCHANGED <<call, log, since, tx, slow>>

ClientConnect(p) == PeerConnect(p) /\ UNCHANGED wsVars
ClientClose(p) == PeerClose(p) /\ UNCHANGED wsVars
ClientReset(p) == "reset" \in Upsets /\ PeerReset(p) /\ UNCHANGED wsVars
ClientDue(i) == "silence" \in Upsets /\ PingDue(i) /\ UNCHANGED wsVars

(* The client stops reading until its window is full, and reads again. *)
ClientStall(p) ==
  /\ "stall" \in Upsets /\ net[p] = "open" /\ p \notin slow /\ pc # "exit"
  /\ slow' = slow \cup {p}
  /\ UNCHANGED <<vars, call, log, since, tx, cl>>

ClientDrain(p) ==
  /\ p \in slow /\ pc # "exit"
  /\ slow' = slow \ {p}
  /\ UNCHANGED <<vars, call, log, since, tx, cl>>
---------------------------------------------------------------------------
(* The loop of conn.c calls a handler. *)

Broadcast(event, st) ==
  /\ call' = [stage |-> "cast", event |-> event, to |-> 1, ret |-> st]
  /\ log' = Append(log, event)

(* handleDisconnect, called from the sweep. *)
handleDisconnect ==
  /\ SweepDead
  /\ Broadcast(<<"leave", clients[idx].addr>>, KILL)
  /\ UNCHANGED <<since, tx, slow, cl>>

EntryStage(callback) ==
  CASE callback = "onconnect" -> At("handshake")
    [] callback = "onmessage" -> At("frame")
    [] callback = "onping" -> At("ping")
    [] OTHER -> Idle

WsLoop ==
  /\ LoopStep /\ ~SweepDead
  /\ call' = EntryStage(pc')
  /\ UNCHANGED <<log, since, tx, slow, cl>>
---------------------------------------------------------------------------
(* wsHandleConnection and wsHandshake.  The recv blocks while nothing has   *)
(* come, and takes everything that has.                                     *)
HandshakePeer == fdt[newfd]

HandshakeRecv ==
  LET p == HandshakePeer IN
  /\ call.stage = "handshake"
  /\ CallbackRecv(Len(rx[p]), << >>)
  /\ call' = IF \E i \in DOMAIN rx[p] : rx[p][i] = "upgrade" THEN At("accept")
             ELSE Return(KILL)
  /\ UNCHANGED <<log, since, tx, slow, cl>>

(* Whatever wsHandshake failed with, RETRY included, becomes KILL. *)
wsHandleConnection_PassesRetry(st) == st
wsHandleConnection(st) == IF st = KEEP_ALIVE THEN KEEP_ALIVE ELSE KILL

HandshakeLost_NoEof ==
  LET p == HandshakePeer IN
  /\ call.stage = "handshake" /\ rx[p] = << >> /\ net[p] = "rst"
  /\ call' = Return(KILL)
  /\ UNCHANGED <<vars, log, since, tx, slow, cl>>

(* recv returned 0 or an error. *)
HandshakeLost ==
  LET p == HandshakePeer IN
  /\ call.stage = "handshake" /\ rx[p] = << >> /\ net[p] \in {"fin", "rst"}
  /\ call' = Return(wsHandleConnection(IF net[p] = "rst" THEN RETRY ELSE KILL))
  /\ UNCHANGED <<vars, log, since, tx, slow, cl>>

(* The 101 is sent without MSG_NOSIGNAL and its result is not looked at;    *)
(* then handleNewConnection announces the client to the listed ones.        *)
HandshakeAccept ==
  LET p == HandshakePeer IN
  /\ call.stage = "accept"
  /\ Broadcast(<<"join", p>>, KEEP_ALIVE)
  /\ cl' = [cl EXCEPT ![p].phase = IF net[p] = "open" THEN "up" ELSE @]
  /\ UNCHANGED <<vars, since, tx, slow>>

(* SIGPIPE: a send without MSG_NOSIGNAL to a connection that was reset. *)
BrokenPipe ==
  /\ call.stage \in {"accept", "ping"} /\ net[CallbackPeer] = "rst"
  /\ CallbackAbort
  /\ call' = Idle
  /\ UNCHANGED <<log, since, tx, slow, cl>>
---------------------------------------------------------------------------
(* wsHandleMessages and handlePacket. *)

FramePeer == clients[idx].addr

(* The first read takes one unit; when that is a short frame, it goes on    *)
(* into what follows, and the last unit it reaches is torn or used up.      *)
FirstRead(s, k, rest) ==
  IF s[1] \in ShortFrames \cup {"torn"}
  THEN /\ k \in 1 .. Len(s) /\ k = 1 => Len(s) = 1 \/ s[1] = "torn"
       /\ \A i \in 2 .. k - 1 : s[i] \in ShortFrames \cup {"torn"}
       /\ IF k = 1 THEN rest = << >>
          ELSE rest = << >> => s[k] \in ShortFrames \cup {"torn", "rest"}
  ELSE k = 1 /\ rest = << >>

(* What handlePacket and handleMessages make of a frame: the event to       *)
(* broadcast, or the status to return.                                      *)
Handled(p, unit) ==
  CASE unit \in {"text", "hello"} -> {[event |-> <<"text", p>>, ret |-> KEEP_ALIVE]}
    [] unit = "close" -> {[event |-> NoEvent, ret |-> KILL]}
    [] unit \in {"pong", "unknown"} -> {[event |-> NoEvent, ret |-> KEEP_ALIVE]}
    [] OTHER -> [event : {NoEvent}, ret : {KILL, KEEP_ALIVE}]
                  \cup {[event |-> <<"garbage", p>>, ret |-> KEEP_ALIVE]}

Handle(result) ==
  IF result.event = NoEvent
  THEN call' = Return(result.ret) /\ UNCHANGED log
  ELSE Broadcast(result.event, result.ret)

ReadFrame ==
  LET p == FramePeer IN
  /\ call.stage = "frame" /\ Head(rx[p]) \notin {"frag", "head"}
  /\ \E k \in 1 .. Len(rx[p]), rest \in {<< >>, <<"torn">>} :
       FirstRead(rx[p], k, rest) /\ CallbackRecv(k, rest)
  /\ \E result \in Handled(p, Head(rx[p])) : Handle(result)
  /\ UNCHANGED <<since, tx, slow, cl>>

(* FIN = 0: assert(0 && "Not implemented yet!").  Bytes out of the middle   *)
(* of a frame can look like that too.                                       *)
ReadFragment ==
  /\ call.stage = "frame" /\ Head(rx[FramePeer]) \in {"frag", "torn", "rest"}
  /\ CallbackAbort
  /\ call' = Idle
  /\ UNCHANGED <<log, since, tx, slow, cl>>

(* The header promises more than has come: recv(MSG_WAITALL) for the rest.  *)
ReadPartial ==
  LET p == FramePeer IN
  /\ call.stage = "frame" /\ Head(rx[p]) \in {"head", "torn", "rest"}
  /\ CallbackRecv(1, << >>)
  /\ call' = At("remainder")
  /\ UNCHANGED <<log, since, tx, slow, cl>>

ReadRemainder ==
  LET p == FramePeer IN
  /\ call.stage = "remainder" /\ rx[p] # << >>
  /\ CallbackRecv(1, << >>)
  /\ IF Head(rx[p]) = "rest" THEN Broadcast(<<"text", p>>, KEEP_ALIVE)
     ELSE UNCHANGED <<call, log>> \/ \E result \in Handled(p, "torn") : Handle(result)
  /\ UNCHANGED <<since, tx, slow, cl>>

RemainderLost ==
  LET p == FramePeer IN
  /\ call.stage = "remainder" /\ rx[p] = << >> /\ net[p] \in {"fin", "rst"}
  /\ call' = Return(KILL)
  /\ UNCHANGED <<vars, log, since, tx, slow, cl>>
---------------------------------------------------------------------------
(* wsHandlePing: send(MSG_DONTWAIT). *)
wsHandlePing ==
  LET p == FramePeer IN
  /\ call.stage = "ping"
  /\ call' = Return(IF net[p] = "rst" \/ p \in slow THEN KILL ELSE KEEP_ALIVE)
  /\ UNCHANGED <<vars, log, since, tx, slow, cl>>

(* wsSendToAll: header and body to one client of the list after the other.  *)
(* A send blocks while the client's window is full; an error is counted.    *)
SendNext ==
  LET p == clients[call.to].addr IN
  /\ call.stage = "cast" /\ call.to <= Len(clients)
  /\ p \notin slow \/ net[p] = "rst"
  /\ tx' = IF net[p] = "rst" THEN tx ELSE [tx EXCEPT ![p] = Append(@, call.event)]
  /\ call' = [call EXCEPT !.to = @ + 1]
  /\ UNCHANGED <<vars, log, since, slow, cl>>

SendDone_OffByOne ==
  /\ call.stage = "cast" /\ call.to >= Len(clients)
  /\ call' = Return(call.ret)
  /\ UNCHANGED <<vars, log, since, tx, slow, cl>>

SendDone ==
  /\ call.stage = "cast" /\ call.to > Len(clients)
  /\ call' = Return(call.ret)
  /\ UNCHANGED <<vars, log, since, tx, slow, cl>>

(* The handler returns to conn.c. *)
HandlerReturns ==
  /\ call.stage = "return"
  /\ \/ OnConnectReturn(call.ret) \/ OnMessageReturn(call.ret)
     \/ OnPingReturn(call.ret) \/ OnDisconnectReturn
  /\ call' = Idle
  /\ since' = IF pc = "onconnect" /\ Len(clients') > Len(clients)
              THEN [since EXCEPT ![fdt[newfd]] = Len(log)] ELSE since
  /\ UNCHANGED <<log, tx, slow, cl>>
---------------------------------------------------------------------------
ClientStep ==
  \/ \E p \in Peers :
       \/ ClientConnect(p) \/ ClientClose(p) \/ ClientReset(p)
       \/ ClientStall(p) \/ ClientDrain(p)
       \/ \E d \in Sends : ClientSend(p, d)
  \/ \E i \in DOMAIN clients : ClientDue(i)

ServerStep ==
  \/ WsLoop \/ handleDisconnect
  \/ HandshakeRecv \/ HandshakeLost \/ HandshakeAccept \/ BrokenPipe
  \/ ReadFrame \/ ReadFragment \/ ReadPartial \/ ReadRemainder \/ RemainderLost
  \/ wsHandlePing \/ SendNext \/ SendDone \/ HandlerReturns

WsNext == ClientStep \/ ServerStep
WsSpec == WsInit /\ [][WsNext]_allVars

(* The server never rests.  FairClients says what else the other side must  *)
(* do for it to go on: ask for the upgrade or close, finish a started       *)
(* frame, and read what it is sent.  A send that finds room again and again *)
(* goes through: only the server's own sends fill a client's window.        *)
FairServer == WsSpec /\ WF_allVars(ServerStep)

ClientAsks(p) == \E d \in Sends \cap {"upgrade", "noise", "rest"} : ClientSend(p, d)
FairClients ==
  /\ SF_allVars(SendNext)
  /\ \A p \in Peers : WF_allVars(ClientAsks(p)) /\ WF_allVars(ClientDrain(p))
FairWs == FairServer /\ FairClients
---------------------------------------------------------------------------
(* The room the server keeps: its members are the listed clients, and those  *)
(* the current loop of wsSendToAll has not reached wait for the last event.  *)
Listed(I) == {clients[i].addr : i \in I}
RoomMembers == Listed(DOMAIN clients)

Room == INSTANCE ChatRoom WITH
  members <- RoomMembers,
  dead    <- {p \in RoomMembers : net[p] = "rst"},
  pending <- IF call.stage = "cast" THEN Listed(call.to .. Len(clients)) ELSE {},
  heard   <- tx

(* The server implements the chat room: events go out one at a time, to      *)
(* every listed client, and a client is listed and dropped only right after  *)
(* the others were told.                                                     *)
ImplementsChatRoom == Room!RoomSpec

(* Every listed client whose connection holds was sent exactly the events    *)
(* broadcast since it was listed, in the order of the broadcasts.            *)
HearsEverything == Room!HearsEverything

(* The handlers do nothing that conn.c's loop was not written for: every     *)
(* step is one ConnServer leaves to callbacks, and RETRY is never returned.  *)
HandlersKeepContract == Spec

(* What the clients are told of a connection makes sense: nothing is told of *)
(* it before it joined, it joins once, and nothing is told after it left.    *)
LogWellFormed ==
  /\ \A j \in DOMAIN log : log[j][1] # "join" =>
       \E i \in 1 .. j - 1 : log[i] = <<"join", log[j][2]>>
  /\ \A i, j \in DOMAIN log : log[i][2] = log[j][2] /\ i < j =>
       log[i][1] # "leave" /\ log[j][1] # "join"

(* With clients that finish what they start and read what they are sent, the *)
(* loop comes back to poll again and again: nothing blocks for ever.         *)
TickCompletes == []<>(pc \in {"poll", "exit"})

(* What a listed client sent is read, as long as it stays connected.         *)
EverythingRead ==
  \A p \in Peers :
    (Registered(p) /\ rx[p] # << >>) ~> (rx[p] = << >> \/ ~Registered(p) \/ pc = "exit")
---------------------------------------------------------------------------
(* What comments of the code say and the code does not do. *)

(* ws.c:191: the handshake tries "to receive any messages without blocking". *)
HandshakeDoesNotBlock == pc = "onconnect" ~> pc # "onconnect"
=============================================================================
