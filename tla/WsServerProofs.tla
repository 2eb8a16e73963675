---------------------------- MODULE WsServerProofs ----------------------------
(***************************************************************************)
(* The handlers keep to what conn.c's loop was written for, and with it    *)
(* the server implements the chat room: whatever clients send, however     *)
(* they stall, close and reset, and at any capacity.                       *)
(*                                                                         *)
(* The invariant CallInv says which handler runs at which place of the     *)
(* loop and what it has announced.  With the invariants of ConnServer it   *)
(* makes every step one of ConnServer, which keeps those invariants.       *)
(*                                                                         *)
(* LogInv compares the log with the counters of joins and leaves; PairInv  *)
(* of ConnServer makes a story of it that the clients can follow.  Then    *)
(* each step is matched with one of the room, and what ChatRoomProofs says *)
(* of the room is read in the server.                                      *)
(***************************************************************************)
EXTENDS WsServer, ConnServerProofs

RoomProofs == INSTANCE ChatRoomProofs WITH
  members <- RoomMembers,
  dead    <- {p \in RoomMembers : net[p] = "rst"},
  pending <- IF call.stage = "cast" THEN Listed(call.to .. Len(clients)) ELSE {},
  heard   <- tx

(* The stages of the handler that runs at a place of the loop. *)
Stages(at) ==
  CASE at = "onconnect" -> {"handshake", "accept", "cast", "return"}
    [] at = "onmessage" -> {"frame", "remainder", "cast", "return"}
    [] at = "onping" -> {"ping", "return"}
    [] at = "ondisconnect" -> {"cast", "return"}
    [] OTHER -> {"idle"}

(* A connection was announced to the room and is about to be listed. *)
Announced ==
  pc = "onconnect" /\ call.stage \in {"cast", "return"} /\ call.ret = KEEP_ALIVE

Kinds == {"join", "leave", "text", "garbage"}

CallRecords ==
  [stage : {"idle", "handshake", "accept", "frame", "remainder", "ping", "cast", "return"},
   event : (Kinds \X Peers) \cup {NoEvent}, to : Nat \ {0}, ret : {KILL, KEEP_ALIVE}]

CallTypes ==
  /\ call \in CallRecords
  /\ log \in Seq(Kinds \X Peers)
  /\ since \in [Peers -> Nat] /\ tx \in [Peers -> Seq(Kinds \X Peers)]
  /\ \A p \in Peers : Len(rx[p]) <= MaxUnread

CallInv ==
  /\ CallTypes
  /\ call.stage \in Stages(pc)
  /\ call.stage = "cast" =>
       /\ log # << >> /\ call.event = log[Len(log)] /\ call.to <= Len(clients) + 1
       /\ pc = "onconnect" => call.ret = KEEP_ALIVE
  /\ Announced => log # << >> /\ log[Len(log)] = <<"join", fdt[newfd]>>
  /\ pc = "ondisconnect" => log # << >> /\ log[Len(log)] = <<"leave", clients[idx].addr>>

---------------------------------------------------------------------------
(* Every step of the server and its clients is one of ConnServer's.         *)
LEMMA RecvIsCallbackStep ==
  ASSUME ConnAssumption, ListInv, CallInv, NEW k \in Nat, NEW rest \in Rests, CallbackRecv(k, rest)
  PROVE  CallbackStep
<1>1. CallbackPeer \in Peers /\ k \in 1 .. Len(rx[CallbackPeer])
  BY DEF CallbackRecv
<1>2. Len(rx[CallbackPeer]) <= MaxUnread /\ Len(rx[CallbackPeer]) \in Nat
  <2>1. rx[CallbackPeer] \in Seq(Data)
    BY <1>1 DEF ListInv, TypeOK
  <2> QED BY <1>1, <2>1, LenProperties DEF CallInv, CallTypes
<1>3. k \in 1 .. MaxUnread
  BY <1>1, <1>2 DEF ConnAssumption
<1> QED BY <1>3 DEF CallbackStep

LEMMA ClientIsPeerStep ==
  ASSUME WsAssumption, ClientStep PROVE PeerStep \/ UNCHANGED vars
<1>1. ASSUME NEW p \in Peers, NEW d \in Sends, ClientSend(p, d) PROVE PeerStep
  <2>1. d \in Data
    BY DEF WsAssumption
  <2> QED BY <1>1, <2>1 DEF ClientSend, PeerStep
<1> QED BY <1>1 DEF ClientStep, ClientConnect, ClientClose, ClientReset, ClientStall,
      ClientDrain, ClientDue, PeerStep

LEMMA ServerIsNext ==
  ASSUME ConnAssumption, WsAssumption, ListInv, CallInv, ServerStep
  PROVE  Next \/ UNCHANGED vars
<1>1. << >> \in Rests /\ <<"torn">> \in Rests
  BY DEF Rests, WsAssumption, Units
<1>2. CASE WsLoop \/ handleDisconnect
  BY <1>2 DEF WsLoop, handleDisconnect, LoopStep, Next
<1>3. CASE HandshakeRecv
  <2>1. Len(rx[HandshakePeer]) \in Nat
    BY <1>3, LenProperties DEF HandshakeRecv, CallbackRecv, ListInv, TypeOK
  <2>2. CallbackRecv(Len(rx[HandshakePeer]), << >>)
    BY <1>3 DEF HandshakeRecv
  <2> QED BY <1>1, <2>1, <2>2, RecvIsCallbackStep DEF Next
<1>4. CASE BrokenPipe \/ ReadFragment
  BY <1>4 DEF BrokenPipe, ReadFragment, CallbackStep, Next
<1>5. CASE ReadFrame
  <2>1. PICK k \in 1 .. Len(rx[FramePeer]), rest \in {<< >>, <<"torn">>} : CallbackRecv(k, rest)
    BY <1>5 DEF ReadFrame
  <2>2. k \in Nat
    BY <2>1
  <2> QED BY <1>1, <2>1, <2>2, RecvIsCallbackStep DEF Next
<1>6. CASE ReadPartial \/ ReadRemainder
  BY <1>1, <1>6, RecvIsCallbackStep DEF ReadPartial, ReadRemainder, Next
<1>7. CASE HandlerReturns
  <2>1. call.ret \in {KILL, KEEP_ALIVE} /\ Results = {KILL, KEEP_ALIVE}
    BY DEF CallInv, CallTypes, CallRecords, WsAssumption
  <2> QED BY <1>7, <2>1 DEF HandlerReturns, ReturnStep, Next
<1>8. CASE HandshakeLost \/ HandshakeAccept \/ RemainderLost \/ wsHandlePing \/ SendNext \/ SendDone
  BY <1>8 DEF HandshakeLost, HandshakeAccept, RemainderLost, wsHandlePing, SendNext, SendDone
<1> QED BY <1>2, <1>3, <1>4, <1>5, <1>6, <1>7, <1>8 DEF ServerStep

LEMMA ContractStep ==
  ASSUME ConnAssumption, WsAssumption, ListInv, CallInv, [WsNext]_allVars
  PROVE  [Next]_vars
BY ClientIsPeerStep, ServerIsNext DEF WsNext, Next, allVars
---------------------------------------------------------------------------
(* CallInv, step by step.                                                   *)
LEMMA Places ==
  ASSUME CallInv
  PROVE  /\ call.stage \in {"handshake", "accept"} => pc = "onconnect"
         /\ call.stage \in {"frame", "remainder"} => pc = "onmessage"
         /\ call.stage = "ping" => pc = "onping"
         /\ call.stage = "cast" => pc \in {"onconnect", "onmessage", "ondisconnect"}
         /\ call.stage = "return" => pc \in {"onconnect", "onmessage", "onping", "ondisconnect"}
         /\ call.stage = "idle" <=> pc \notin {"onconnect", "onmessage", "onping", "ondisconnect"}
<1>1. call.stage \in Stages(pc)
  BY DEF CallInv
<1>2. CASE pc = "onconnect"
  BY <1>1, <1>2 DEF Stages
<1>3. CASE pc = "onmessage"
  BY <1>1, <1>3 DEF Stages
<1>4. CASE pc = "onping"
  BY <1>1, <1>4 DEF Stages
<1>5. CASE pc = "ondisconnect"
  BY <1>1, <1>5 DEF Stages
<1>6. CASE pc \notin {"onconnect", "onmessage", "onping", "ondisconnect"}
  BY <1>1, <1>6 DEF Stages
<1> QED BY <1>2, <1>3, <1>4, <1>5, <1>6

LEMMA BroadcastPosts ==
  ASSUME CallInv, NEW e \in Kinds \X Peers, NEW st \in {KILL, KEEP_ALIVE}, Broadcast(e, st)
  PROVE  /\ call' = [stage |-> "cast", event |-> e, to |-> 1, ret |-> st]
         /\ call' \in CallRecords
         /\ log' = Append(log, e) /\ log' \in Seq(Kinds \X Peers) /\ log' # << >>
         /\ Len(log) \in Nat /\ Len(log') = Len(log) + 1 /\ log'[Len(log')] = e
<1>1. log \in Seq(Kinds \X Peers)
  BY DEF CallInv, CallTypes
<1>2. call' = [stage |-> "cast", event |-> e, to |-> 1, ret |-> st] /\ log' = Append(log, e)
  BY DEF Broadcast
<1>3. /\ log' \in Seq(Kinds \X Peers) /\ log' # << >>
      /\ Len(log) \in Nat /\ Len(log') = Len(log) + 1 /\ log'[Len(log) + 1] = e
  BY <1>1, <1>2, AppendProperties, LenProperties
<1>4. call' \in CallRecords
  BY <1>2 DEF CallRecords
<1> QED BY <1>2, <1>3, <1>4

(* A handler reads no more than there is. *)
LEMMA RecvBounded ==
  ASSUME ConnAssumption, ListInv, CallInv, NEW k \in Nat, NEW rest \in Rests, CallbackRecv(k, rest)
  PROVE  \A p \in Peers : Len(rx'[p]) <= MaxUnread
<1> DEFINE q == CallbackPeer
<1>1. /\ q \in Peers /\ k \in 1 .. Len(rx[q])
      /\ rx' = [rx EXCEPT ![q] = rest \o SubSeq(rx[q], k + 1, Len(rx[q]))]
  BY DEF CallbackRecv
<1>2. rx[q] \in Seq(Data) /\ rx \in [Peers -> Seq(Data)]
  BY <1>1 DEF ListInv, TypeOK
<1>3. Len(rx[q]) \in Nat /\ Len(rx[q]) <= MaxUnread
  BY <1>1, <1>2, LenProperties DEF CallInv, CallTypes
<1>4. rest \in Seq(Data) /\ Len(rest) \in 0 .. 1
  <2>1. CASE rest = << >>
    BY <2>1, EmptySeq
  <2>2. ASSUME NEW d \in Data, rest = <<d>> PROVE rest \in Seq(Data) /\ Len(rest) = 1
    BY <2>2, SMT
  <2> QED BY <2>1, <2>2 DEF Rests
<1> HIDE DEF q
<1>5. /\ SubSeq(rx[q], k + 1, Len(rx[q])) \in Seq(Data)
      /\ Len(SubSeq(rx[q], k + 1, Len(rx[q]))) = Len(rx[q]) - k
  <2>1. \A i \in k + 1 .. Len(rx[q]) : rx[q][i] \in Data
    BY <1>1, <1>2, <1>3, ElementOfSeq
  <2>2. /\ SubSeq(rx[q], k + 1, Len(rx[q])) \in Seq(Data)
        /\ Len(SubSeq(rx[q], k + 1, Len(rx[q])))
             = IF k + 1 <= Len(rx[q]) THEN Len(rx[q]) - (k + 1) + 1 ELSE 0
    BY <1>3, <2>1, SubSeqProperties
  <2> QED BY <1>1, <1>3, <2>2
<1>6. Len(rest \o SubSeq(rx[q], k + 1, Len(rx[q]))) = Len(rest) + (Len(rx[q]) - k)
  BY <1>4, <1>5, ConcatProperties
<1>7. Len(rx'[q]) <= MaxUnread
  <2>1. MaxUnread \in Nat
    BY DEF ConnAssumption
  <2>2. Len(rest) + (Len(rx[q]) - k) <= Len(rx[q])
    BY <1>1, <1>3, <1>4
  <2>3. rx'[q] = rest \o SubSeq(rx[q], k + 1, Len(rx[q]))
    BY <1>1, <1>2
  <2> QED BY <1>3, <1>4, <1>6, <2>1, <2>2, <2>3
<1>8. \A p \in Peers : p # q => rx'[p] = rx[p]
  BY <1>1, <1>2
<1> QED BY <1>7, <1>8 DEF CallInv, CallTypes
Bounded == \A p \in Peers : Len(rx[p]) <= MaxUnread

(* A step in which the handler stands still. *)
LEMMA StandsStill ==
  ASSUME CallInv, UNCHANGED <<call, log, since, tx, pc>>, Len(clients') = Len(clients), Bounded',
         pc = "onconnect" => fdt'[newfd'] = fdt[newfd],
         pc = "ondisconnect" => clients'[idx'].addr = clients[idx].addr
  PROVE  CallInv'
BY DEF CallInv, CallTypes, Announced, Bounded

(* One that enters, returns or waits for more, and announces nothing. *)
LEMMA Settles ==
  ASSUME CallInv, UNCHANGED <<log, tx>>, since' \in [Peers -> Nat], Bounded',
         call' \in CallRecords, call'.stage # "cast", call'.stage \in Stages(pc'),
         pc' = "onconnect" => ~(call'.stage = "return" /\ call'.ret = KEEP_ALIVE),
         pc' # "ondisconnect"
  PROVE  CallInv'
BY DEF CallInv, CallTypes, Announced, Bounded

(* One that begins to tell the clients of an event. *)
LEMMA Posts ==
  ASSUME ListInv', CallInv, UNCHANGED <<since, tx>>, Bounded',
         NEW e \in Kinds \X Peers, NEW st \in {KILL, KEEP_ALIVE}, Broadcast(e, st),
         pc' \in {"onconnect", "onmessage", "ondisconnect"},
         pc' = "onconnect" => e = <<"join", fdt'[newfd']>> /\ st = KEEP_ALIVE,
         pc' = "ondisconnect" => e = <<"leave", clients'[idx'].addr>>
  PROVE  CallInv'
<1>1. /\ call' = [stage |-> "cast", event |-> e, to |-> 1, ret |-> st] /\ call' \in CallRecords
      /\ log' \in Seq(Kinds \X Peers) /\ log' # << >> /\ log'[Len(log')] = e
  BY BroadcastPosts
<1>2. clients' \in Seq(ClientRecords)
  BY DEF ListInv, TypeOK
<1>3. Len(clients') \in Nat
  BY <1>2, LenProperties
<1>4. /\ call'.stage = "cast" /\ call'.event = e /\ call'.to = 1 /\ call'.ret = st
      /\ call'.to <= Len(clients') + 1
  BY <1>1, <1>3
<1>5. CallTypes'
  BY <1>1 DEF CallInv, CallTypes, Bounded
<1>6. call'.stage \in Stages(pc')
  BY <1>4 DEF Stages
<1> QED BY <1>1, <1>4, <1>5, <1>6 DEF CallInv, Announced

LEMMA ClientKeepsCall ==
  ASSUME ConnAssumption, ListInv, CallInv, ClientStep PROVE CallInv'
<1>1. \A p \in Peers : rx[p] \in Seq(Data) /\ Len(rx[p]) \in Nat /\ Len(rx[p]) <= MaxUnread
  BY LenProperties DEF ListInv, TypeOK, CallInv, CallTypes
<1>2. ASSUME NEW p \in Peers, NEW d \in Sends, ClientSend(p, d) PROVE CallInv'
  <2>1. /\ Len(rx[p]) < MaxUnread /\ rx' = [rx EXCEPT ![p] = Append(@, d)]
        /\ UNCHANGED <<call, log, since, tx, pc, clients, fdt, newfd, idx>>
    BY <1>2 DEF ClientSend, PeerSend
  <2>2. Len(Append(rx[p], d)) = Len(rx[p]) + 1
    <3>1. rx[p] \in Seq(Data \cup {d})
      BY <1>1
    <3> QED BY <3>1, AppendProperties
  <2>3. Bounded'
    BY <1>1, <2>1, <2>2 DEF Bounded, ConnAssumption, ListInv, TypeOK
  <2> QED BY <2>1, <2>3, StandsStill
<1>3. ASSUME NEW i \in DOMAIN clients, ClientDue(i) PROVE CallInv'
  <2>1. /\ clients' = [clients EXCEPT ![i].due = TRUE]
        /\ UNCHANGED <<call, log, since, tx, pc, rx, fdt, newfd, idx>>
    BY <1>3 DEF ClientDue, PingDue, wsVars
  <2>2. clients \in Seq(ClientRecords) /\ clients[i] \in ClientRecords
    BY LenProperties, ElementOfSeq DEF ListInv, TypeOK
  <2>3. [clients[i] EXCEPT !.due = TRUE] \in ClientRecords
    BY <2>2 DEF ClientRecords
  <2>4. Len(clients') = Len(clients) /\ DOMAIN clients' = DOMAIN clients
    BY <2>1, <2>2, <2>3, SeqUpdate
  <2>5. \A j \in DOMAIN clients : clients'[j].addr = clients[j].addr
    BY <2>1, <2>2 DEF ClientRecords
  <2>6. pc = "ondisconnect" => clients'[idx'].addr = clients[idx].addr
    BY <2>1, <2>5 DEF ListInv, PcOK
  <2>7. Bounded'
    BY <1>1, <2>1 DEF Bounded
  <2> QED BY <2>1, <2>4, <2>6, <2>7, StandsStill
<1>4. ASSUME UNCHANGED <<call, log, since, tx, pc, clients, fdt, newfd, idx, rx>> PROVE CallInv'
  BY <1>1, <1>4, StandsStill DEF Bounded
<1> QED BY <1>2, <1>3, <1>4 DEF ClientStep, ClientConnect, ClientClose, ClientReset,
      ClientStall, ClientDrain, PeerConnect, PeerClose, PeerReset, vars, wsVars
(* At a stage other than "cast" a call is a record like any other. *)
LEMMA CallAt ==
  /\ \A stage \in {"idle", "handshake", "accept", "frame", "remainder", "ping"} :
       At(stage) \in CallRecords /\ At(stage).stage = stage
  /\ Idle \in CallRecords /\ Idle.stage = "idle"
  /\ \A st \in {KILL, KEEP_ALIVE} :
       /\ Return(st) \in CallRecords /\ Return(st).stage = "return" /\ Return(st).ret = st
<1>1. NoEvent \in (Kinds \X Peers) \cup {NoEvent} /\ 1 \in Nat \ {0}
  OBVIOUS
<1>2. Idle = [stage |-> "idle", event |-> NoEvent, to |-> 1, ret |-> KILL]
  BY DEF Idle
<1>3. ASSUME NEW stage PROVE At(stage) = [stage |-> stage, event |-> NoEvent, to |-> 1, ret |-> KILL]
  BY <1>2 DEF At
<1>4. ASSUME NEW st PROVE Return(st) = [stage |-> "return", event |-> NoEvent, to |-> 1, ret |-> st]
  <2>1. [Idle EXCEPT !.stage = "return"]
          = [stage |-> "return", event |-> NoEvent, to |-> 1, ret |-> KILL]
    BY <1>2
  <2>2. Return(st) = [[Idle EXCEPT !.stage = "return"] EXCEPT !.ret = st]
    BY DEF Return
  <2> QED BY <2>1, <2>2, Zenon
<1> QED BY <1>1, <1>2, <1>3, <1>4 DEF CallRecords

(* conn.c's loop calls a handler, or goes on without one. *)
LEMMA LoopKeepsCall ==
  ASSUME ListInv', FdInv', ListInv, CallInv, WsLoop
  PROVE  CallInv'
<1>1. /\ LoopStep /\ ~SweepDead /\ call' = EntryStage(pc') /\ UNCHANGED <<log, since, tx, slow, cl>>
  BY DEF WsLoop
<1>2. pc' # "ondisconnect" /\ UNCHANGED rx
  BY <1>1 DEF LoopStep, Poll, Accept, AcceptNothing, ListenerError, ScanDead, ScanMessage,
    ScanAlive, ScanEnd, PingDueClient, PingSkip, PingEnd, SweepKeep, SweepEnd, EndLoop,
    InLoop, envVars
<1>3. pc' # "onreconnect"
  BY DEF FdInv
<1>4. Bounded'
  BY <1>2 DEF Bounded, CallInv, CallTypes
<1>5. since' \in [Peers -> Nat]
  BY <1>1 DEF CallInv, CallTypes
<1>6. /\ call' \in CallRecords /\ call'.stage \in Stages(pc')
      /\ call'.stage \notin {"cast", "return"}
  <2>1. CASE pc' = "onconnect"
    BY <1>1, <2>1, CallAt DEF EntryStage, Stages
  <2>2. CASE pc' = "onmessage"
    BY <1>1, <2>2, CallAt DEF EntryStage, Stages
  <2>3. CASE pc' = "onping"
    BY <1>1, <2>3, CallAt DEF EntryStage, Stages
  <2>4. CASE pc' \notin {"onconnect", "onmessage", "onping", "ondisconnect"}
    BY <1>1, <2>4, CallAt DEF EntryStage, Stages
  <2> QED BY <1>2, <2>1, <2>2, <2>3, <2>4
<1> QED BY <1>1, <1>2, <1>4, <1>5, <1>6, Settles

LEMMA DisconnectKeepsCall ==
  ASSUME ListInv', ListInv, CallInv, handleDisconnect
  PROVE  CallInv'
<1>1. /\ SweepDead /\ Broadcast(<<"leave", clients[idx].addr>>, KILL)
      /\ pc' = "ondisconnect" /\ UNCHANGED <<since, tx, rx, clients, idx>>
  BY DEF handleDisconnect, SweepDead, envVars
<1>2. clients[idx].addr \in Peers
  <2>1. idx \in DOMAIN clients
    BY <1>1, InLoopIndex DEF SweepDead, ListInv
  <2>2. clients \in Seq(ClientRecords)
    BY DEF ListInv, TypeOK
  <2>3. clients[idx] \in ClientRecords
    BY <2>1, <2>2, LenProperties, ElementOfSeq
  <2> QED BY <2>3 DEF ClientRecords
<1>3. <<"leave", clients[idx].addr>> \in Kinds \X Peers
  BY <1>2 DEF Kinds
<1>4. Bounded'
  BY <1>1 DEF Bounded, CallInv, CallTypes
<1> QED BY <1>1, <1>3, <1>4, Posts

LEMMA HandshakeKeepsCall ==
  ASSUME ConnAssumption, ListInv', ListInv, CallInv,
         HandshakeRecv \/ HandshakeLost \/ HandshakeAccept \/ BrokenPipe
  PROVE  CallInv'
<1>1. << >> \in Rests
  BY DEF Rests
<1>2. /\ since \in [Peers -> Nat] /\ (UNCHANGED rx => Bounded')
      /\ \A p \in Peers : Len(rx[p]) \in Nat
  BY LenProperties DEF CallInv, CallTypes, Bounded, ListInv, TypeOK
<1>3. CASE HandshakeRecv
  <2>1. /\ CallbackRecv(Len(rx[HandshakePeer]), << >>) /\ call.stage = "handshake"
        /\ UNCHANGED <<log, tx, since>>
        /\ call' = At("accept") \/ call' = Return(KILL)
    BY <1>3 DEF HandshakeRecv
  <2>2. pc = "onconnect" /\ pc' = "onconnect" /\ HandshakePeer \in Peers
    BY <2>1, Places DEF CallbackRecv, CallbackPeer, HandshakePeer
  <2>3. Bounded'
    BY <1>1, <1>2, <2>1, <2>2, RecvBounded DEF Bounded
  <2>4. call' \in CallRecords /\ call'.stage \in {"accept", "return"}
        /\ (call'.stage = "return" => call'.ret = KILL)
    BY <2>1, CallAt
  <2>5. call'.stage \in Stages(pc')
    BY <2>2, <2>4 DEF Stages
  <2>6. call'.ret # KEEP_ALIVE \/ call'.stage # "return"
    BY <2>4 DEF KILL, KEEP_ALIVE
  <2>7. since' \in [Peers -> Nat] /\ call'.stage # "cast" /\ pc' # "ondisconnect"
    BY <1>2, <2>1, <2>2, <2>4
  <2> QED BY <2>1, <2>3, <2>4, <2>5, <2>6, <2>7, Settles
<1>4. CASE HandshakeLost
  <2>1. /\ call.stage = "handshake" /\ call' = Return(KILL) /\ UNCHANGED <<log, tx, since, rx, pc>>
    BY <1>4 DEF HandshakeLost, wsHandleConnection, vars, KILL, KEEP_ALIVE, RETRY
  <2>2. pc = "onconnect"
    BY <2>1, Places
  <2>3. call' \in CallRecords /\ call'.stage = "return" /\ call'.ret = KILL
    BY <2>1, CallAt
  <2>4. call'.stage \in Stages(pc') /\ call'.ret # KEEP_ALIVE
    BY <2>1, <2>2, <2>3 DEF Stages, KILL, KEEP_ALIVE
  <2>5. since' \in [Peers -> Nat] /\ Bounded'
    BY <1>2, <2>1
  <2> QED BY <2>1, <2>2, <2>3, <2>4, <2>5, Settles
<1>5. CASE HandshakeAccept
  <2>1. /\ call.stage = "accept" /\ Broadcast(<<"join", fdt[newfd]>>, KEEP_ALIVE)
        /\ UNCHANGED <<since, tx, rx, pc, fdt, newfd>>
    BY <1>5 DEF HandshakeAccept, HandshakePeer, vars
  <2>2. pc = "onconnect"
    BY <2>1, Places
  <2>3. <<"join", fdt[newfd]>> \in Kinds \X Peers
    BY <2>2 DEF ListInv, PcOK, Kinds
  <2> QED BY <1>2, <2>1, <2>2, <2>3, Posts
<1>6. CASE BrokenPipe
  <2>1. pc' = "exit" /\ call' = Idle /\ UNCHANGED <<log, tx, since, rx>>
    BY <1>6 DEF BrokenPipe, CallbackAbort, envVars
  <2> QED BY <1>2, <2>1, CallAt, Settles DEF Stages
<1> QED BY <1>3, <1>4, <1>5, <1>6
(* handlePacket returns, or posts what its own client said. *)
Says(p) == \E kind \in {"text", "garbage"} : Broadcast(<<kind, p>>, KEEP_ALIVE)
Outcome(p) == Says(p) \/ (UNCHANGED log /\ \E st \in {KILL, KEEP_ALIVE} : call' = Return(st))

LEMMA HandleOutcome ==
  ASSUME NEW p, NEW unit, NEW result \in Handled(p, unit), Handle(result)
  PROVE  Outcome(p)
<1>1. \/ result.event = NoEvent /\ result.ret \in {KILL, KEEP_ALIVE}
      \/ \E kind \in {"text", "garbage"} : result.event = <<kind, p>> /\ result.ret = KEEP_ALIVE
  <2>1. CASE unit \in {"text", "hello"}
    BY <2>1 DEF Handled
  <2>2. CASE unit = "close"
    BY <2>2 DEF Handled
  <2>3. CASE unit \in {"pong", "unknown"}
    BY <2>3 DEF Handled
  <2>4. CASE unit \notin {"text", "hello", "close", "pong", "unknown"}
    <3>1. \/ result \in [event : {NoEvent}, ret : {KILL, KEEP_ALIVE}]
          \/ result = [event |-> <<"garbage", p>>, ret |-> KEEP_ALIVE]
      BY <2>4 DEF Handled
    <3> QED BY <3>1
  <2> QED BY <2>1, <2>2, <2>3, <2>4
<1>2. CASE result.event = NoEvent /\ result.ret \in {KILL, KEEP_ALIVE}
  BY <1>2 DEF Handle, Outcome
<1>3. ASSUME NEW kind \in {"text", "garbage"}, result.event = <<kind, p>>, result.ret = KEEP_ALIVE
      PROVE  Says(p)
  <2>1. result.event # NoEvent
    BY <1>3 DEF NoEvent
  <2> QED BY <1>3, <2>1 DEF Handle, Says
<1> QED BY <1>1, <1>2, <1>3 DEF Outcome

LEMMA OutcomeKeepsCall ==
  ASSUME ListInv', CallInv, pc = "onmessage", pc' = "onmessage", Bounded',
         UNCHANGED <<since, tx>>, NEW p \in Peers, Outcome(p)
  PROVE  CallInv'
<1>1. ASSUME NEW kind \in {"text", "garbage"}, Broadcast(<<kind, p>>, KEEP_ALIVE) PROVE CallInv'
  <2>1. <<kind, p>> \in Kinds \X Peers
    BY DEF Kinds
  <2> QED BY <1>1, <2>1, Posts
<1>2. ASSUME UNCHANGED log, NEW st \in {KILL, KEEP_ALIVE}, call' = Return(st) PROVE CallInv'
  <2>1. call' \in CallRecords /\ call'.stage = "return"
    BY <1>2, CallAt
  <2>2. call'.stage \in Stages(pc') /\ since' \in [Peers -> Nat]
    BY <2>1 DEF Stages, CallInv, CallTypes
  <2> QED BY <1>2, <2>1, <2>2, Settles
<1> QED BY <1>1, <1>2 DEF Outcome, Says

LEMMA FrameKeepsCall ==
  ASSUME ConnAssumption, WsAssumption, ListInv', ListInv, CallInv,
         ReadFrame \/ ReadFragment \/ ReadPartial \/ ReadRemainder \/ RemainderLost
  PROVE  CallInv'
<1>1. << >> \in Rests /\ <<"torn">> \in Rests
  BY DEF Rests, WsAssumption, Units
<1>2. since \in [Peers -> Nat] /\ (UNCHANGED rx => Bounded')
  BY DEF CallInv, CallTypes, Bounded
<1>3. /\ \A k \in Nat, rest \in Rests : CallbackRecv(k, rest) => Bounded'
      /\ \A k, rest : CallbackRecv(k, rest) /\ pc = "onmessage" => FramePeer \in Peers
      /\ \A k, rest : CallbackRecv(k, rest) => UNCHANGED pc
  BY RecvBounded DEF Bounded, CallbackRecv, CallbackPeer, FramePeer
<1>4. call' = Idle => call' \in CallRecords /\ call'.stage = "idle"
  BY CallAt
<1>5. CASE ReadFrame
  <2>1. PICK k \in 1 .. Len(rx[FramePeer]), rest \in {<< >>, <<"torn">>} : CallbackRecv(k, rest)
    BY <1>5 DEF ReadFrame
  <2>2. pc = "onmessage"
    BY <1>5, Places DEF ReadFrame
  <2>3. Bounded' /\ FramePeer \in Peers /\ UNCHANGED pc
    BY <1>1, <1>3, <2>1, <2>2
  <2>4. Outcome(FramePeer) /\ UNCHANGED <<since, tx>>
    BY <1>5, HandleOutcome DEF ReadFrame
  <2> QED BY <2>2, <2>3, <2>4, OutcomeKeepsCall
<1>6. CASE ReadFragment
  <2>1. pc' = "exit" /\ call' = Idle /\ UNCHANGED <<log, tx, since, rx>>
    BY <1>6 DEF ReadFragment, CallbackAbort, envVars
  <2> QED BY <1>2, <1>4, <2>1, Settles DEF Stages
<1>7. CASE ReadPartial
  <2>1. CallbackRecv(1, << >>) /\ call' = At("remainder") /\ UNCHANGED <<log, tx, since>>
    BY <1>7 DEF ReadPartial
  <2>2. pc = "onmessage"
    BY <1>7, Places DEF ReadPartial
  <2>3. Bounded' /\ UNCHANGED pc
    BY <1>1, <1>3, <2>1
  <2>4. call' \in CallRecords /\ call'.stage = "remainder"
    BY <2>1, CallAt
  <2>5. call'.stage \in Stages(pc')
    BY <2>2, <2>3, <2>4 DEF Stages
  <2> QED BY <1>2, <2>1, <2>2, <2>3, <2>4, <2>5, Settles
<1>8. CASE ReadRemainder
  <2>1. CallbackRecv(1, << >>) /\ UNCHANGED <<tx, since>>
    BY <1>8 DEF ReadRemainder
  <2>2. pc = "onmessage"
    BY <1>8, Places DEF ReadRemainder
  <2>3. Bounded' /\ FramePeer \in Peers /\ UNCHANGED pc
    BY <1>1, <1>3, <2>1, <2>2
  <2>4. CASE Broadcast(<<"text", FramePeer>>, KEEP_ALIVE)
    BY <2>1, <2>2, <2>3, <2>4, OutcomeKeepsCall DEF Outcome, Says
  <2>5. CASE UNCHANGED <<call, log>>
    <3>1. UNCHANGED <<clients, idx, fdt, newfd>>
      BY <2>1 DEF CallbackRecv
    <3> QED BY <2>1, <2>2, <2>3, <2>5, <3>1, StandsStill
  <2>6. ASSUME NEW result \in Handled(FramePeer, "torn"), Handle(result) PROVE CallInv'
    BY <2>1, <2>2, <2>3, <2>6, HandleOutcome, OutcomeKeepsCall
  <2> QED BY <1>8, <2>4, <2>5, <2>6 DEF ReadRemainder
<1>9. CASE RemainderLost
  <2>1. call' = Return(KILL) /\ UNCHANGED <<log, tx, since, rx, pc>>
    BY <1>9 DEF RemainderLost, vars
  <2>2. pc = "onmessage"
    BY <1>9, Places DEF RemainderLost
  <2> QED BY <1>2, <2>1, <2>2, OutcomeKeepsCall, CallAt, Settles DEF Stages
<1> QED BY <1>5, <1>6, <1>7, <1>8, <1>9
(* The ping is answered for, and the clients are sent an event one by one.  *)
LEMMA SendKeepsCall ==
  ASSUME ListInv', ListInv, CallInv, wsHandlePing \/ SendNext \/ SendDone
  PROVE  CallInv'
<1>1. UNCHANGED <<vars, log, since>> /\ UNCHANGED <<pc, rx, clients, fdt, newfd, idx>>
  BY DEF wsHandlePing, SendNext, SendDone, vars
<1>2. Bounded' /\ since' \in [Peers -> Nat]
  BY <1>1 DEF CallInv, CallTypes, Bounded
<1>3. CASE wsHandlePing
  <2>1. UNCHANGED tx /\ \E st \in {KILL, KEEP_ALIVE} : call' = Return(st)
    BY <1>3 DEF wsHandlePing
  <2>2. pc' = "onping"
    BY <1>1, <1>3, Places DEF wsHandlePing
  <2>3. call' \in CallRecords /\ call'.stage = "return"
    BY <2>1, CallAt
  <2>4. call'.stage \in Stages(pc')
    BY <2>2, <2>3 DEF Stages
  <2> QED BY <1>1, <1>2, <2>1, <2>2, <2>3, <2>4, Settles
<1>4. CASE SendNext
  <2> DEFINE p == clients[call.to].addr
  <2>1. /\ call.stage = "cast" /\ call.to <= Len(clients) /\ call' = [call EXCEPT !.to = @ + 1]
        /\ tx' = tx \/ tx' = [tx EXCEPT ![p] = Append(@, call.event)]
    BY <1>4 DEF SendNext
  <2>2. call \in CallRecords /\ call.to \in Nat \ {0} /\ Len(clients) \in Nat
    BY LenProperties DEF CallInv, CallTypes, CallRecords, ListInv, TypeOK
  <2>3. /\ call' \in CallRecords /\ call'.stage = "cast" /\ call'.event = call.event
        /\ call'.ret = call.ret /\ call'.to = call.to + 1 /\ call'.to <= Len(clients) + 1
    BY <2>1, <2>2 DEF CallRecords
  <2>4. tx' \in [Peers -> Seq(Kinds \X Peers)]
    <3>1. call.event \in Kinds \X Peers
      <4>1. log # << >> /\ call.event = log[Len(log)] /\ log \in Seq(Kinds \X Peers)
        BY <2>1 DEF CallInv, CallTypes
      <4>2. Len(log) \in 1 .. Len(log)
        BY <4>1, LenProperties, EmptySeq
      <4> QED BY <4>1, <4>2, ElementOfSeq
    <3>2. tx \in [Peers -> Seq(Kinds \X Peers)]
      BY DEF CallInv, CallTypes
    <3>3. p \in Peers => Append(tx[p], call.event) \in Seq(Kinds \X Peers)
      BY <3>1, <3>2, AppendProperties
    <3> HIDE DEF p
    <3> QED BY <2>1, <3>2, <3>3
  <2>5. CallTypes'
    BY <1>1, <1>2, <2>3, <2>4 DEF CallInv, CallTypes, Bounded
  <2> QED BY <1>1, <2>1, <2>3, <2>5 DEF CallInv, Announced
<1>5. CASE SendDone
  <2>1. call.stage = "cast" /\ call' = Return(call.ret) /\ UNCHANGED tx
    BY <1>5 DEF SendDone
  <2>2. call.ret \in {KILL, KEEP_ALIVE}
    BY DEF CallInv, CallTypes, CallRecords
  <2>3. call' \in CallRecords /\ call'.stage = "return" /\ call'.ret = call.ret
    BY <2>1, <2>2, CallAt
  <2>4. call'.stage \in Stages(pc')
    BY <1>1, <2>1, <2>3, Places DEF Stages
  <2>5. CallTypes'
    BY <1>1, <1>2, <2>1, <2>3 DEF CallInv, CallTypes, Bounded
  <2> QED BY <1>1, <2>1, <2>3, <2>4, <2>5 DEF CallInv, Announced
<1> QED BY <1>3, <1>4, <1>5

LEMMA ReturnKeepsCall ==
  ASSUME ListInv, CallInv, HandlerReturns PROVE CallInv'
<1>1. call' = Idle /\ UNCHANGED <<log, tx, rx>>
  BY DEF HandlerReturns, OnConnectReturn, OnMessageReturn, OnPingReturn, OnDisconnectReturn, envVars
<1>2. pc' \in {"scan", "ping", "sweep"}
  BY DEF HandlerReturns, OnConnectReturn, OnMessageReturn, OnPingReturn, OnDisconnectReturn
<1>3. log \in Seq(Kinds \X Peers) /\ Len(log) \in Nat /\ since \in [Peers -> Nat]
  BY LenProperties DEF CallInv, CallTypes
<1>4. since' \in [Peers -> Nat]
  BY <1>3 DEF HandlerReturns
<1>5. Bounded'
  BY <1>1 DEF CallInv, CallTypes, Bounded
<1>6. call' \in CallRecords /\ call'.stage = "idle"
  BY <1>1, CallAt
<1>7. call'.stage \in Stages(pc')
  BY <1>2, <1>6 DEF Stages
<1> QED BY <1>1, <1>2, <1>4, <1>5, <1>6, <1>7, Settles

LEMMA CallStep ==
  ASSUME ConnAssumption, WsAssumption, ListInv, ListInv', FdInv', CallInv, [WsNext]_allVars
  PROVE  CallInv'
<1>1. CASE UNCHANGED allVars
  <2>1. Bounded'
    BY <1>1 DEF CallInv, CallTypes, Bounded, allVars, vars
  <2> QED BY <1>1, <2>1, StandsStill DEF allVars, vars, wsVars
<1>2. CASE ServerStep
  BY <1>2, LoopKeepsCall, DisconnectKeepsCall, HandshakeKeepsCall, FrameKeepsCall, SendKeepsCall,
     ReturnKeepsCall DEF ServerStep
<1> QED BY <1>1, <1>2, ClientKeepsCall DEF WsNext
---------------------------------------------------------------------------
WsInv == ListInv /\ FdInv /\ PairInv /\ CallInv

LEMMA NoRetry == ASSUME WsAssumption PROVE RETRY \notin Results
BY DEF WsAssumption, KILL, KEEP_ALIVE, RETRY

LEMMA WsStart == ASSUME ConnAssumption, WsInit PROVE WsInv
<1>1. Init
  BY DEF WsInit
<1>2. ListInv /\ PairInv
  BY <1>1, ListInit, PairInit
<1>3. FdInv
  <2>1. DOMAIN clients = {} /\ pc = "poll"
    BY <1>1 DEF Init, conInitServer
  <2> QED BY <2>1 DEF FdInv, NoStaleClient
<1>4. /\ call = Idle /\ log = << >> /\ pc = "poll" /\ MaxUnread \in Nat
      /\ since = [p \in Peers |-> 0] /\ tx = [p \in Peers |-> << >>]
      /\ rx = [p \in Peers |-> << >>]
  BY DEF WsInit, Init, ConnAssumption
<1>5. << >> \in Seq(Kinds \X Peers) /\ Len(<< >>) = 0
  BY EmptySeq
<1>6. call \in CallRecords /\ call.stage = "idle"
  BY <1>4, CallAt
<1>7. CallTypes
  <2>1. ASSUME NEW p \in Peers PROVE Len(rx[p]) <= MaxUnread
    <3>1. rx[p] = << >>
      BY <1>4
    <3>2. Len(rx[p]) = 0
      BY <1>5, <3>1
    <3> QED BY <1>4, <3>2
  <2>2. since \in [Peers -> Nat] /\ tx \in [Peers -> Seq(Kinds \X Peers)]
    BY <1>4, <1>5
  <2> QED BY <1>4, <1>5, <1>6, <2>1, <2>2 DEF CallTypes
<1>8. call.stage \in Stages(pc)
  BY <1>4, <1>6 DEF Stages
<1> QED BY <1>2, <1>3, <1>4, <1>6, <1>7, <1>8 DEF WsInv, CallInv, Announced

LEMMA WsStep ==
  ASSUME ConnAssumption, WsAssumption, WsInv, [WsNext]_allVars
  PROVE  WsInv' /\ [Next]_vars
<1>1. [Next]_vars
  BY ContractStep DEF WsInv
<1>2. ListInv'
  <2>1. ASSUME UNCHANGED vars PROVE ListInv'
    BY <2>1 DEF WsInv, ListInv, TypeOK, Lockstep, PcOK, vars
  <2> QED BY <1>1, <2>1, ListPeerStep, ListCallbackStep, ListLoopStep, ListReturnStep
          DEF WsInv, Next
<1>3. FdInv' /\ PairInv'
  BY <1>1, FdStep, PairStep, NoRetry DEF WsInv
<1>4. CallInv'
  BY <1>2, <1>3, CallStep DEF WsInv
<1> QED BY <1>1, <1>2, <1>3, <1>4 DEF WsInv

LEMMA WsAlways == ASSUME ConnAssumption, WsAssumption PROVE WsSpec => []WsInv /\ [][Next]_vars
<1>1. WsInv /\ [WsNext]_allVars => WsInv' /\ [Next]_vars
  BY WsStep
<1>2. WsInit => WsInv
  BY WsStart
<1> QED BY <1>1, <1>2, PTL DEF WsSpec

(* The handlers of ws.c and server.c do, step by step, nothing that the loop *)
(* of conn.c does not leave to its callbacks, and never return CONN_RETRY:   *)
(* what is proved of ConnServer holds of the whole server.                   *)
THEOREM ContractKept ==
  ASSUME ConnAssumption, WsAssumption PROVE WsSpec => HandlersKeepContract
<1>1. WsInit => Init
  BY DEF WsInit
<1> QED BY <1>1, WsAlways, PTL DEF WsSpec, HandlersKeepContract, Spec

(* So what is proved of conn.c's loop for callbacks in general holds with    *)
(* the callbacks it really has: lists in step, no stale record, sweeps that  *)
(* leave nothing behind, callbacks in pairs, and no connection lost from     *)
(* sight except at capacity.                                                 *)
THEOREM LoopServesHandlers ==
  ASSUME ConnAssumption, WsAssumption
  PROVE  WsSpec => /\ [](Lockstep /\ NoStaleClient /\ SweepComplete /\ PairedCallbacks)
                   /\ LostOnlyAtCapacity
<1>1. RETRY \notin Results
  BY NoRetry
<1>2. WsSpec => Spec
  BY ContractKept DEF HandlersKeepContract
<1> QED BY <1>1, <1>2, LockstepHolds, ClientsNeverStale, SweepLeavesNothing, CallbacksPaired,
        LostWhenFullOnly, PTL
---------------------------------------------------------------------------
(* Who is listed, and under which addresses. *)
LEMMA Listing ==
  ASSUME ListInv
  PROVE  /\ clients \in Seq(ClientRecords) /\ Len(clients) \in Nat
         /\ DOMAIN clients = 1 .. Len(clients)
         /\ \A i \in DOMAIN clients :
              clients[i] \in ClientRecords /\ clients[i].addr \in Peers /\ clients[i].fd \in Fds
         /\ RoomMembers \subseteq Peers
<1>1. clients \in Seq(ClientRecords)
  BY DEF ListInv, TypeOK
<1>2. Len(clients) \in Nat /\ DOMAIN clients = 1 .. Len(clients)
  BY <1>1, LenProperties
<1>3. \A i \in DOMAIN clients : clients[i] \in ClientRecords
  BY <1>1, <1>2, ElementOfSeq
<1>4. \A i \in DOMAIN clients : clients[i].addr \in Peers /\ clients[i].fd \in Fds
  BY <1>3 DEF ClientRecords
<1> QED BY <1>1, <1>2, <1>3, <1>4 DEF RoomMembers, Listed

LEMMA OneRecordEach ==
  ASSUME ListInv, FdInv, PairInv, ConnAssumption
  PROVE  /\ \A i, j \in DOMAIN clients : clients[i].addr = clients[j].addr => i = j
         /\ \A p \in RoomMembers : Registered(p) /\ joined[p] = 1 /\ left[p] = 0
<1>1. \A i \in DOMAIN clients : /\ fdt[clients[i].fd] = clients[i].addr
                                /\ clients[i].fd \in Fds /\ clients[i].addr # NoPeer
  BY Listing DEF FdInv, NoStaleClient, ConnAssumption
<1>2. ASSUME NEW i \in DOMAIN clients, NEW j \in DOMAIN clients, clients[i].addr = clients[j].addr
      PROVE  i = j
  <2>1. clients[i].fd = clients[j].fd
    <3>1. \A a, b \in Fds : fdt[a] = fdt[b] /\ fdt[a] # NoPeer => a = b
      BY DEF PairInv
    <3> DEFINE a == clients[i].fd  b == clients[j].fd
    <3>2. a \in Fds /\ b \in Fds /\ fdt[a] = fdt[b] /\ fdt[a] # NoPeer
      BY <1>1, <1>2
    <3> HIDE DEF a, b
    <3>3. a = b
      BY <3>1, <3>2
    <3> QED BY <3>3 DEF a, b
  <2> QED BY <2>1 DEF FdInv, NoStaleClient
<1>3. \A p \in RoomMembers : p \in Peers /\ Registered(p)
  BY Listing DEF RoomMembers, Listed, Registered
<1> QED BY <1>2, <1>3 DEF PairInv, PairedCallbacks

(* The clients, and conn.c's loop, drop and rename no record.               *)
SameList ==
  DOMAIN clients' = DOMAIN clients /\ \A i \in DOMAIN clients : clients'[i].addr = clients[i].addr

LEMMA RecordRewritten ==
  ASSUME ListInv, NEW i, NEW c, clients' = [clients EXCEPT ![i] = c],
         i \in DOMAIN clients => c.addr = clients[i].addr
  PROVE  SameList /\ Len(clients') = Len(clients)
<1>1. DOMAIN clients' = DOMAIN clients
  OBVIOUS
<1>2. \A j \in DOMAIN clients : clients'[j].addr = clients[j].addr
  OBVIOUS
<1>3. Len(clients') = Len(clients)
  BY Listing, LenProperties
<1> QED BY <1>1, <1>2, <1>3 DEF SameList

LEMMA ClientQuiet ==
  ASSUME ListInv, ClientStep
  PROVE  /\ SameList /\ Len(clients') = Len(clients)
         /\ UNCHANGED <<call, log, since, tx, pc, fdt, newfd, idx, joined, left>>
         /\ \/ \A p \in Peers : net'[p] = "rst" <=> net[p] = "rst"
            \/ \E p \in Peers : net' = [net EXCEPT ![p] = "rst"]
<1>0. \A p \in Peers, v \in {"none", "open", "fin", "closed"} : net[p] # "rst" =>
         \A q \in Peers : [net EXCEPT ![p] = v][q] = "rst" <=> net[q] = "rst"
  BY DEF ListInv, TypeOK
<1>1. CASE \E i \in DOMAIN clients : ClientDue(i)
  <2>1. PICK i \in DOMAIN clients : ClientDue(i)
    BY <1>1
  <2>2. clients' = [clients EXCEPT ![i] = [@ EXCEPT !.due = TRUE]]
    BY <2>1 DEF ClientDue, PingDue
  <2>3. [clients[i] EXCEPT !.due = TRUE].addr = clients[i].addr
    BY Listing DEF ClientRecords
  <2>4. SameList /\ Len(clients') = Len(clients)
    BY <2>2, <2>3, RecordRewritten
  <2> QED BY <2>1, <2>4 DEF ClientDue, PingDue, wsVars
<1>2. ASSUME NEW p \in Peers, \/ ClientConnect(p) \/ ClientClose(p) \/ ClientReset(p)
                              \/ ClientStall(p) \/ ClientDrain(p)
                              \/ \E d \in Sends : ClientSend(p, d)
      PROVE  /\ UNCHANGED <<clients, call, log, since, tx, pc, fdt, newfd, idx, joined, left>>
             /\ \/ \A q \in Peers : net'[q] = "rst" <=> net[q] = "rst"
                \/ \E q \in Peers : net' = [net EXCEPT ![q] = "rst"]
  <2>1. CASE ClientReset(p)
    BY <2>1 DEF ClientReset, PeerReset, wsVars
  <2>2. CASE ClientConnect(p)
    BY <1>0, <2>2 DEF ClientConnect, PeerConnect, wsVars
  <2>3. CASE ClientClose(p)
    BY <1>0, <2>3 DEF ClientClose, PeerClose, wsVars
  <2>4. CASE ClientStall(p) \/ ClientDrain(p)
    BY <2>4 DEF ClientStall, ClientDrain, vars
  <2>5. ASSUME NEW d \in Sends, ClientSend(p, d) PROVE UNCHANGED <<net, clients, call, log, since, tx, pc, fdt, newfd, idx, joined, left>>
    BY <2>5 DEF ClientSend, PeerSend
  <2> QED BY <1>2, <2>1, <2>2, <2>3, <2>4, <2>5
<1> QED BY <1>1, <1>2 DEF ClientStep, SameList

LEMMA LoopQuiet ==
  ASSUME ListInv, FdInv, WsLoop
  PROVE  /\ SameList /\ Len(clients') = Len(clients)
         /\ UNCHANGED <<log, since, tx, net, joined, left>>
         /\ pc \notin {"onconnect", "onmessage", "onping", "ondisconnect"}
         /\ pc' # "ondisconnect" /\ call'.stage \notin {"cast", "return"}
<1>1. /\ LoopStep /\ ~SweepDead /\ call' = EntryStage(pc') /\ UNCHANGED <<log, since, tx>>
  BY DEF WsLoop
<1>2. /\ pc' # "ondisconnect" /\ pc \notin {"onconnect", "onmessage", "onping", "ondisconnect"}
      /\ UNCHANGED <<net, joined, left>>
      /\ UNCHANGED clients \/ clients' = [clients EXCEPT ![idx].due = FALSE]
  BY <1>1 DEF LoopStep, Poll, Accept, AcceptNothing, ListenerError, ScanDead, ScanMessage,
    ScanAlive, ScanEnd, PingDueClient, PingSkip, PingEnd, SweepKeep, SweepEnd, EndLoop,
    InLoop, envVars
<1>3. call'.stage \notin {"cast", "return"}
  BY <1>1, CallAt DEF EntryStage
<1>4. SameList /\ Len(clients') = Len(clients)
  <2>1. CASE UNCHANGED clients
    BY <2>1 DEF SameList
  <2>2. CASE clients' = [clients EXCEPT ![idx].due = FALSE]
    <3>1. clients' = [clients EXCEPT ![idx] = [clients[idx] EXCEPT !.due = FALSE]]
      BY <2>2
    <3>2. idx \in DOMAIN clients => [clients[idx] EXCEPT !.due = FALSE].addr = clients[idx].addr
      BY Listing DEF ClientRecords
    <3> QED BY <3>1, <3>2, RecordRewritten
  <2> QED BY <1>2, <2>1, <2>2
<1> QED BY <1>1, <1>2, <1>3, <1>4
---------------------------------------------------------------------------
(* The log against the counters of ConnServer: whoever is in it has joined,  *)
(* or is about to; whoever has joined was announced in it; whoever left it   *)
(* is gone, or is about to go; and nobody is sent anything before it has     *)
(* joined.                                                                   *)
LogInv ==
  /\ LogWellFormed
  /\ \A i \in DOMAIN log :
       joined[log[i][2]] = 1 \/ (Announced /\ fdt[newfd] = log[i][2])
  /\ \A p \in Peers : joined[p] = 1 => \E i \in DOMAIN log : log[i] = <<"join", p>>
  /\ \A i \in DOMAIN log : log[i][1] = "leave" =>
       left[log[i][2]] = 1 \/ (pc = "ondisconnect" /\ clients[idx].addr = log[i][2])
  /\ \A p \in Peers : tx[p] # << >> => joined[p] = 1

(* Steps that post nothing and keep those two promises, or make them true.   *)
LEMMA LogStays ==
  ASSUME CallInv, LogInv, UNCHANGED <<log, tx>>,
         \A p \in Peers : joined[p] = 1 => joined'[p] = 1,
         \A p \in Peers : joined'[p] = 1 => joined[p] = 1 \/ (Announced /\ fdt[newfd] = p),
         \A p \in Peers : left[p] = 1 => left'[p] = 1,
         Announced => \/ Announced' /\ fdt'[newfd'] = fdt[newfd]
                      \/ joined'[fdt[newfd]] = 1,
         pc = "ondisconnect" => \/ pc' = "ondisconnect" /\ clients'[idx'].addr = clients[idx].addr
                                \/ left'[clients[idx].addr] = 1
  PROVE  LogInv'
<1>1. \A i \in DOMAIN log : log[i][2] \in Peers
  <2>1. log \in Seq(Kinds \X Peers)
    BY DEF CallInv, CallTypes
  <2>2. \A i \in DOMAIN log : log[i] \in Kinds \X Peers
    BY <2>1, LenProperties, ElementOfSeq
  <2> QED BY <2>2
<1>2. ASSUME NEW p \in Peers, joined'[p] = 1
      PROVE  \E i \in DOMAIN log' : log'[i] = <<"join", p>>
  <2>1. CASE joined[p] = 1
    BY <2>1 DEF LogInv
  <2>2. CASE Announced /\ fdt[newfd] = p
    <3>1. log # << >> /\ log[Len(log)] = <<"join", p>> /\ log \in Seq(Kinds \X Peers)
      BY <2>2 DEF CallInv, CallTypes
    <3>2. Len(log) \in DOMAIN log
      BY <3>1, LenProperties, EmptySeq
    <3> QED BY <3>1, <3>2
  <2> QED BY <1>2, <2>1, <2>2
<1>3. LogWellFormed'
  BY DEF LogInv, LogWellFormed
<1> HIDE DEF LogWellFormed
<1> QED BY <1>1, <1>2, <1>3 DEF LogInv

(* A step that posts an event its subject has not left before. *)
LEMMA LogGrows ==
  ASSUME LogInv, CallInv, ~Announced, pc # "ondisconnect", UNCHANGED <<tx, joined, left>>,
         NEW e \in Kinds \X Peers, log' = Append(log, e),
         e[1] = "join" => joined[e[2]] # 1 /\ Announced' /\ fdt'[newfd'] = e[2],
         e[1] # "join" => joined[e[2]] = 1 /\ left[e[2]] # 1,
         e[1] = "leave" => pc' = "ondisconnect" /\ clients'[idx'].addr = e[2]
  PROVE  LogInv'
<1>1. /\ Len(log) \in Nat /\ DOMAIN log = 1 .. Len(log) /\ DOMAIN log' = 1 .. Len(log) + 1
      /\ \A i \in DOMAIN log : log'[i] = log[i]
      /\ log'[Len(log) + 1] = e
  <2>1. log \in Seq(Kinds \X Peers)
    BY DEF CallInv, CallTypes
  <2>2. log' \in Seq(Kinds \X Peers) /\ Len(log') = Len(log) + 1 /\ Len(log) \in Nat
    BY <2>1, AppendProperties, LenProperties
  <2>3. DOMAIN log = 1 .. Len(log) /\ DOMAIN log' = 1 .. Len(log')
    BY <2>1, <2>2, LenProperties
  <2> QED BY <2>1, <2>2, <2>3, AppendProperties
<1>2. /\ \A i \in DOMAIN log : joined[log[i][2]] = 1
      /\ \A i \in DOMAIN log : log[i][1] = "leave" => left[log[i][2]] = 1
  BY DEF LogInv
<1>3. ASSUME NEW i \in DOMAIN log', NEW j \in DOMAIN log', log'[i][2] = log'[j][2], i < j
      PROVE  log'[i][1] # "leave" /\ log'[j][1] # "join"
  <2>1. CASE j \in DOMAIN log
    <3>1. i \in DOMAIN log
      BY <1>1, <1>3, <2>1
    <3> QED BY <1>1, <1>3, <2>1, <3>1 DEF LogInv, LogWellFormed
  <2>2. CASE j = Len(log) + 1
    <3>1. i \in DOMAIN log /\ log'[j] = e /\ log[i][2] = e[2]
      BY <1>1, <1>3, <2>2
    <3> QED BY <1>1, <1>2, <3>1
  <2> QED BY <1>1, <2>1, <2>2
<1>4. \A p \in Peers : joined'[p] = 1 => \E i \in DOMAIN log : log[i] = <<"join", p>>
  BY DEF LogInv
<1>5. ASSUME NEW j \in DOMAIN log', log'[j][1] # "join"
      PROVE  \E i \in 1 .. j - 1 : log'[i] = <<"join", log'[j][2]>>
  <2>1. CASE j \in DOMAIN log
    <3>1. PICK i \in 1 .. j - 1 : log[i] = <<"join", log[j][2]>>
      BY <1>1, <1>5, <2>1 DEF LogInv, LogWellFormed
    <3>2. i \in DOMAIN log
      BY <1>1, <2>1
    <3> QED BY <1>1, <2>1, <3>1, <3>2
  <2>2. CASE j = Len(log) + 1
    <3>1. log'[j] = e /\ e[2] \in Peers /\ joined[e[2]] = 1
      BY <1>1, <1>5, <2>2
    <3>2. PICK i \in DOMAIN log : log[i] = <<"join", e[2]>>
      BY <1>4, <3>1
    <3>3. i \in 1 .. j - 1
      BY <1>1, <2>2
    <3> QED BY <1>1, <3>1, <3>2, <3>3
  <2> QED BY <1>1, <2>1, <2>2
<1>6. ASSUME NEW p \in Peers, joined'[p] = 1
      PROVE  \E i \in DOMAIN log' : log'[i] = <<"join", p>>
  <2>1. PICK i \in DOMAIN log : log[i] = <<"join", p>>
    BY <1>4, <1>6
  <2>2. i \in DOMAIN log' /\ log'[i] = <<"join", p>>
    BY <1>1, <2>1
  <2> QED BY <2>2
<1>7. \A i \in DOMAIN log' : joined'[log'[i][2]] = 1 \/ (Announced' /\ fdt'[newfd'] = log'[i][2])
  BY <1>1, <1>2
<1>8. \A i \in DOMAIN log' : log'[i][1] = "leave" =>
        left'[log'[i][2]] = 1 \/ (pc' = "ondisconnect" /\ clients'[idx'].addr = log'[i][2])
  BY <1>1, <1>2
<1>9. LogWellFormed'
  BY <1>3, <1>5 DEF LogWellFormed
<1> HIDE DEF LogWellFormed
<1>10. \A p \in Peers : tx'[p] # << >> => joined'[p] = 1
  BY DEF LogInv
<1> QED BY <1>7, <1>8, <1>6, <1>9, <1>10 DEF LogInv

(* A handler's broadcast at one of its three places. *)
LEMMA JoinLogged ==
  ASSUME WsInv, LogInv, HandshakeAccept PROVE LogInv'
<1>1. /\ call.stage = "accept" /\ pc = "onconnect" /\ Broadcast(<<"join", fdt[newfd]>>, KEEP_ALIVE)
      /\ UNCHANGED <<pc, fdt, newfd, tx, joined, left>>
  BY Places DEF HandshakeAccept, HandshakePeer, vars, WsInv
<1>2. <<"join", fdt[newfd]>> \in Kinds \X Peers
  BY <1>1 DEF WsInv, ListInv, PcOK, Kinds
<1>3. joined[fdt[newfd]] # 1
  BY <1>1 DEF WsInv, PairInv
<1>4. log' = Append(log, <<"join", fdt[newfd]>>) /\ Announced' /\ ~Announced
  BY <1>1 DEF Broadcast, Announced
<1> QED BY <1>1, <1>2, <1>3, <1>4, LogGrows DEF WsInv

LEMMA LeaveLogged ==
  ASSUME ConnAssumption, WsInv, LogInv, handleDisconnect PROVE LogInv'
<1>1. /\ pc = "sweep" /\ pc' = "ondisconnect" /\ UNCHANGED <<clients, idx, tx, joined, left>>
      /\ log' = Append(log, <<"leave", clients[idx].addr>>) /\ idx \in DOMAIN clients
  BY InLoopIndex DEF handleDisconnect, SweepDead, InLoop, Broadcast, WsInv, ListInv
<1>2. clients[idx].addr \in Peers /\ clients[idx].addr \in RoomMembers
  BY <1>1, Listing DEF WsInv, RoomMembers, Listed
<1>3. joined[clients[idx].addr] = 1 /\ left[clients[idx].addr] = 0
  BY <1>2, OneRecordEach DEF WsInv
<1>4. <<"leave", clients[idx].addr>> \in Kinds \X Peers
  BY <1>2 DEF Kinds
<1> QED BY <1>1, <1>3, <1>4, LogGrows DEF WsInv, Announced

LEMMA SaidLogged ==
  ASSUME ConnAssumption, WsInv, LogInv, pc = "onmessage", UNCHANGED <<pc, tx, joined, left>>,
         Says(FramePeer)
  PROVE  LogInv'
<1>1. PICK kind \in {"text", "garbage"} : log' = Append(log, <<kind, FramePeer>>)
  BY DEF Says, Broadcast
<1>2. FramePeer \in Peers /\ FramePeer \in RoomMembers
  BY Listing DEF WsInv, ListInv, PcOK, FramePeer, RoomMembers, Listed
<1>3. joined[FramePeer] = 1 /\ left[FramePeer] = 0
  BY <1>2, OneRecordEach DEF WsInv
<1>4. <<kind, FramePeer>> \in Kinds \X Peers
  BY <1>2 DEF Kinds
<1> QED BY <1>1, <1>3, <1>4, LogGrows DEF WsInv, Announced

(* What a reading step of a message or of a ping comes to. *)
LEMMA FrameSteps ==
  ASSUME CallInv, ReadFrame \/ ReadFragment \/ ReadPartial \/ ReadRemainder \/ RemainderLost
  PROVE  /\ pc = "onmessage" /\ call.stage # "cast"
         /\ UNCHANGED <<since, tx, clients, idx, fdt, newfd, net, joined, left>>
         /\ \/ UNCHANGED pc /\ Says(FramePeer)
            \/ pc' \in {"onmessage", "exit"} /\ UNCHANGED log /\ call'.stage # "cast"
<1>1. pc = "onmessage" /\ call.stage # "cast"
  BY Places DEF ReadFrame, ReadFragment, ReadPartial, ReadRemainder, RemainderLost
<1>2. \A k, rest : CallbackRecv(k, rest) =>
        UNCHANGED <<net, backlog, fdt, poll, clients, pc, idx, newfd, joined, left>>
  BY DEF CallbackRecv
<1>3. CASE ReadFrame
  BY <1>1, <1>2, <1>3, HandleOutcome, CallAt DEF ReadFrame, Outcome
<1>4. CASE ReadFragment
  BY <1>1, <1>4, CallAt DEF ReadFragment, CallbackAbort, envVars
<1>5. CASE ReadPartial
  BY <1>1, <1>2, <1>5, CallAt DEF ReadPartial
<1>6. CASE ReadRemainder
  <2>1. CASE Broadcast(<<"text", FramePeer>>, KEEP_ALIVE)
    BY <1>1, <1>2, <1>6, <2>1 DEF ReadRemainder, Says
  <2>2. CASE UNCHANGED <<call, log>>
    BY <1>1, <1>2, <1>6, <2>2 DEF ReadRemainder
  <2>3. ASSUME NEW result \in Handled(FramePeer, "torn"), Handle(result) PROVE Outcome(FramePeer)
    BY <2>3, HandleOutcome
  <2>4. CASE Outcome(FramePeer)
    BY <1>1, <1>2, <1>6, <2>4, CallAt DEF ReadRemainder, Outcome
  <2> QED BY <1>6, <2>1, <2>2, <2>3, <2>4 DEF ReadRemainder
<1>7. CASE RemainderLost
  BY <1>1, <1>7, CallAt DEF RemainderLost, vars
<1> QED BY <1>3, <1>4, <1>5, <1>6, <1>7

LEMMA HandshakeSteps ==
  ASSUME CallInv, HandshakeRecv \/ HandshakeLost \/ BrokenPipe
  PROVE  /\ ~Announced /\ pc # "ondisconnect" /\ call.stage # "cast"
         /\ UNCHANGED <<log, since, tx, clients, net, joined, left>> /\ call'.stage # "cast"
<1>1. CASE HandshakeRecv
  BY <1>1, Places, CallAt DEF HandshakeRecv, CallbackRecv, Announced
<1>2. CASE HandshakeLost
  BY <1>2, Places, CallAt DEF HandshakeLost, wsHandleConnection, vars, Announced
<1>3. CASE BrokenPipe
  BY <1>3, Places, CallAt DEF BrokenPipe, CallbackAbort, envVars, Announced
<1> QED BY <1>1, <1>2, <1>3
(* One more client is sent the last event. *)
LEMMA SendLogged ==
  ASSUME ConnAssumption, WsInv, LogInv, SendNext PROVE LogInv'
<1> DEFINE p == clients[call.to].addr
<1>1. /\ call.stage = "cast" /\ call.to \in Nat \ {0} /\ call.to <= Len(clients)
      /\ call' = [call EXCEPT !.to = @ + 1] /\ call \in CallRecords
      /\ tx' = tx \/ tx' = [tx EXCEPT ![p] = Append(@, call.event)]
      /\ UNCHANGED <<vars, log>>
  BY DEF SendNext, WsInv, CallInv, CallTypes, CallRecords
<1>2. call'.stage = call.stage /\ call'.ret = call.ret
  BY <1>1 DEF CallRecords
<1>3. call.to \in DOMAIN clients
  BY <1>1, Listing DEF WsInv
<1>4. p \in Peers /\ p \in RoomMembers
  BY <1>3, Listing DEF WsInv, RoomMembers, Listed
<1>5. joined[p] = 1
  BY <1>4, OneRecordEach DEF WsInv
<1>6. \A q \in Peers : tx'[q] # << >> => joined'[q] = 1
  <2> HIDE DEF p
  <2>1. \A q \in Peers : q # p => tx'[q] = tx[q]
    <3>1. tx \in [Peers -> Seq(Kinds \X Peers)]
      BY DEF WsInv, CallInv, CallTypes
    <3> QED BY <1>1, <3>1
  <2> QED BY <1>1, <1>5, <2>1 DEF LogInv, vars
<1>7. UNCHANGED <<pc, clients, idx, fdt, newfd, joined, left, log>>
  BY <1>1 DEF vars
<1>8. Announced' <=> Announced
  BY <1>2, <1>7 DEF Announced
<1>9. LogWellFormed'
  BY <1>7 DEF LogInv, LogWellFormed
<1> QED BY <1>6, <1>7, <1>8, <1>9 DEF LogInv

(* What a handler's return makes of the lists and the counters. *)
LEMMA ConnectReturns ==
  ASSUME ConnAssumption, WsInv, LogInv, NEW st, OnConnectReturn(st) PROVE
    LET p == fdt[newfd] IN
    /\ pc = "onconnect" /\ p \in Peers /\ p \notin RoomMembers /\ joined[p] = 0
    /\ pc' = "scan" /\ UNCHANGED left
    /\ \/ st = KILL /\ UNCHANGED <<clients, joined>> /\ net' = [net EXCEPT ![p] = "closed"]
       \/ /\ st # KILL /\ joined' = [joined EXCEPT ![p] = 1] /\ UNCHANGED net
          /\ \/ UNCHANGED clients
             \/ clients' = Append(clients, Client(p, newfd, st))
<1>1. pc = "onconnect" /\ newfd \in Fds /\ fdt[newfd] \in Peers
  BY DEF OnConnectReturn, WsInv, ListInv, PcOK
<1>2. joined[fdt[newfd]] = 0
  BY <1>1 DEF WsInv, PairInv
<1>3. fdt[newfd] \notin RoomMembers
  BY <1>2, OneRecordEach DEF WsInv
<1>4. CASE st = KILL
  BY <1>1, <1>2, <1>3, <1>4 DEF OnConnectReturn
<1>5. CASE st # KILL
  <2>1. /\ joined' = [joined EXCEPT ![fdt[newfd]] = joined[fdt[newfd]] + 1] /\ UNCHANGED <<net, left>>
        /\ clients' = connPushToClientPoll(clients, Client(fdt[newfd], newfd, st))
        /\ pc' = "scan"
    BY <1>5 DEF OnConnectReturn
  <2>2. joined' = [joined EXCEPT ![fdt[newfd]] = 1]
    BY <1>2, <2>1
  <2>3. \/ UNCHANGED clients
        \/ clients' = Append(clients, Client(fdt[newfd], newfd, st))
    BY <2>1 DEF connPushToClientPoll
  <2> QED BY <1>1, <1>2, <1>3, <1>5, <2>1, <2>2, <2>3
<1> QED BY <1>4, <1>5

LEMMA ReturnLogged ==
  ASSUME ConnAssumption, WsInv, LogInv, HandlerReturns PROVE LogInv'
<1>1. /\ UNCHANGED <<log, tx>> /\ call.stage = "return" /\ CallInv
      /\ joined \in [Peers -> Nat] /\ left \in [Peers -> Nat]
  BY DEF HandlerReturns, WsInv, ListInv, TypeOK
<1>2. CASE OnMessageReturn(call.ret) \/ OnPingReturn(call.ret)
  <2>1. pc \notin {"onconnect", "ondisconnect"} /\ UNCHANGED <<joined, left>>
    BY <1>2 DEF OnMessageReturn, OnPingReturn
  <2> QED BY <1>1, <2>1, LogStays DEF Announced
<1>3. CASE OnConnectReturn(call.ret)
  <2>1. /\ fdt[newfd] \in Peers /\ UNCHANGED left /\ pc = "onconnect"
        /\ \/ call.ret = KILL /\ UNCHANGED joined
           \/ call.ret # KILL /\ joined' = [joined EXCEPT ![fdt[newfd]] = 1]
    BY <1>3, ConnectReturns
  <2>0. call.ret # KILL => Announced
    BY <1>1, <2>1 DEF Announced, CallInv, CallTypes, CallRecords
  <2>2. \/ ~Announced /\ UNCHANGED joined
        \/ Announced /\ joined' = [joined EXCEPT ![fdt[newfd]] = 1]
    <3>1. CASE call.ret = KILL
      BY <2>1, <3>1 DEF Announced, KILL, KEEP_ALIVE
    <3>2. CASE call.ret # KILL
      BY <2>0, <2>1, <3>2
    <3> QED BY <3>1, <3>2
  <2>3. /\ \A p \in Peers : joined[p] = 1 => joined'[p] = 1
        /\ \A p \in Peers : joined'[p] = 1 => joined[p] = 1 \/ (Announced /\ fdt[newfd] = p)
        /\ Announced => joined'[fdt[newfd]] = 1
    BY <1>1, <2>1, <2>2
  <2> QED BY <1>1, <2>1, <2>3, LogStays
<1>4. CASE OnDisconnectReturn
  <2>1. /\ pc = "ondisconnect" /\ left' = [left EXCEPT ![clients[idx].addr] = left[clients[idx].addr] + 1]
        /\ UNCHANGED joined
    BY <1>4 DEF OnDisconnectReturn
  <2>2. clients[idx].addr \in Peers /\ clients[idx].addr \in RoomMembers
    BY <2>1, Listing DEF WsInv, ListInv, PcOK, RoomMembers, Listed
  <2>3. left[clients[idx].addr] = 0
    BY <2>2, OneRecordEach DEF WsInv
  <2>4. /\ \A p \in Peers : left[p] = 1 => left'[p] = 1
        /\ left'[clients[idx].addr] = 1
    BY <1>1, <2>1, <2>2, <2>3
  <2> QED BY <1>1, <2>1, <2>4, LogStays DEF Announced
<1> QED BY <1>2, <1>3, <1>4 DEF HandlerReturns

LEMMA LogStep ==
  ASSUME ConnAssumption, WsInv, LogInv, [WsNext]_allVars PROVE LogInv'
<1> USE DEF WsInv
<1>1. CASE UNCHANGED allVars
  BY <1>1, LogStays DEF allVars, vars, wsVars, Announced
<1>2. CASE ClientStep
  <2>1. /\ SameList /\ UNCHANGED <<call, log, tx, pc, fdt, newfd, idx, joined, left>>
    BY <1>2, ClientQuiet
  <2>2. pc = "ondisconnect" => idx \in DOMAIN clients
    BY DEF ListInv, PcOK
  <2> QED BY <2>1, <2>2, LogStays DEF SameList, Announced
<1>3. CASE WsLoop
  BY <1>3, LoopQuiet, LogStays DEF Announced
<1>4. CASE HandshakeRecv \/ HandshakeLost \/ BrokenPipe
  BY <1>4, HandshakeSteps, LogStays
<1>5. CASE ReadFrame \/ ReadFragment \/ ReadPartial \/ ReadRemainder \/ RemainderLost
  <2>1. /\ pc = "onmessage" /\ UNCHANGED <<tx, joined, left>>
        /\ \/ UNCHANGED pc /\ Says(FramePeer)
           \/ UNCHANGED log
    BY <1>5, FrameSteps
  <2> QED BY <2>1, SaidLogged, LogStays DEF Announced
<1>6. CASE wsHandlePing
  <2>1. UNCHANGED <<vars, log, tx>> /\ pc = "onping"
    BY <1>6, Places DEF wsHandlePing
  <2> QED BY <2>1, LogStays DEF vars, Announced
<1>7. CASE SendDone
  <2>1. UNCHANGED <<vars, log, tx>> /\ call' = Return(call.ret) /\ call.stage = "cast"
    BY <1>7 DEF SendDone
  <2>2. call'.stage = "return" /\ call'.ret = call.ret
    BY <2>1, CallAt DEF CallInv, CallTypes, CallRecords
  <2> QED BY <2>1, <2>2, LogStays DEF vars, Announced
<1> QED BY <1>1, <1>2, <1>3, <1>4, <1>5, <1>6, <1>7, JoinLogged, LeaveLogged, SendLogged, ReturnLogged
        DEF WsNext, ServerStep

LEMMA LogAlways ==
  ASSUME ConnAssumption, WsAssumption PROVE WsSpec => [](WsInv /\ LogInv)
<1>1. ASSUME WsInit PROVE LogInv
  <2>1. /\ DOMAIN log = {} /\ \A p \in Peers : tx[p] = << >>
        /\ \A p \in Peers : joined[p] # 1
    BY <1>1 DEF WsInit, Init
  <2> QED BY <2>1 DEF LogInv, LogWellFormed
<1>2. WsInit => WsInv
  BY WsStart
<1>3. WsInv /\ LogInv /\ [WsNext]_allVars => WsInv' /\ LogInv'
  BY WsStep, LogStep
<1> QED BY <1>1, <1>2, <1>3, PTL DEF WsSpec

(* What the clients are told of a connection makes sense: nothing before it  *)
(* joined, nothing after it left, and that it joined once.                   *)
THEOREM LogMakesSense ==
  ASSUME ConnAssumption, WsAssumption PROVE WsSpec => []LogWellFormed
<1>1. LogInv => LogWellFormed
  BY DEF LogInv
<1> QED BY <1>1, LogAlways, PTL
---------------------------------------------------------------------------
(* The refinement: which step of the chat room each step of the server is.   *)
RoomDead == {p \in RoomMembers : net[p] = "rst"}
RoomPending == IF call.stage = "cast" THEN Listed(call.to .. Len(clients)) ELSE {}
RoomVars == <<RoomMembers, RoomDead, log, RoomPending, since, tx>>

LEMMA RoomStepSufficient ==
  /\ UNCHANGED RoomVars => UNCHANGED Room!roomVars
  /\ \A p \in Peers, kind \in Kinds :
       /\ RoomPending = {} /\ (kind = "join" <=> p \notin RoomMembers)
       /\ log' = Append(log, <<kind, p>>) /\ RoomPending' = RoomMembers
       /\ UNCHANGED <<RoomMembers, RoomDead, since, tx>>
       => Room!RoomNext
  /\ \A p \in RoomPending :
       /\ p \in Peers /\ RoomPending' = RoomPending \ {p}
       /\ UNCHANGED <<RoomMembers, RoomDead, log, since>>
       /\ \/ p \notin RoomDead /\ tx' = [tx EXCEPT ![p] = Append(@, log[Len(log)])]
          \/ p \in RoomDead /\ tx' = tx
       => Room!RoomNext
  /\ \A p \in RoomMembers \ RoomDead :
       /\ p \in Peers /\ RoomDead' = RoomDead \cup {p}
       /\ UNCHANGED <<RoomMembers, log, RoomPending, since, tx>>
       => Room!RoomNext
  /\ \A p \in Peers \ RoomMembers :
       /\ RoomPending = {} /\ log # << >> /\ log[Len(log)] = <<"join", p>>
       /\ RoomMembers' = RoomMembers \cup {p} /\ RoomDead' \in {RoomDead, RoomDead \cup {p}}
       /\ since' = [since EXCEPT ![p] = Len(log)] /\ tx' = [tx EXCEPT ![p] = << >>]
       /\ UNCHANGED <<log, RoomPending>>
       => Room!RoomNext
  /\ \A p \in RoomMembers :
       /\ p \in Peers /\ RoomPending = {} /\ log[Len(log)] = <<"leave", p>>
       /\ RoomMembers' = RoomMembers \ {p} /\ RoomDead' = RoomDead \ {p}
       /\ UNCHANGED <<log, RoomPending, since, tx>>
       => Room!RoomNext
BY DEF Room!roomVars, RoomVars, RoomPending, RoomDead, Room!RoomNext, Room!Post, Room!Deliver,
   Room!Miss, Room!Lose, Room!Enter, Room!Leave, Room!EventKinds, Room!LastEvent, Kinds

(* What the room looks like depends on the addresses, in their order, and on *)
(* which connections were reset.                                             *)
LEMMA SameRoom ==
  ASSUME ListInv, SameList
  PROVE  /\ UNCHANGED RoomMembers
         /\ (\A p \in RoomMembers : net'[p] = "rst" <=> net[p] = "rst") => UNCHANGED RoomDead
         /\ call.stage # "cast" => RoomPending = {}
         /\ call'.stage # "cast" => RoomPending' = {}
         /\ call'.stage = "cast" /\ call'.to = 1 /\ Len(clients') = Len(clients)
              => RoomPending' = RoomMembers
         /\ UNCHANGED call /\ call.to \in Nat \ {0} /\ Len(clients') = Len(clients)
              => UNCHANGED RoomPending
<1>1. RoomMembers' = RoomMembers
  BY DEF RoomMembers, Listed, SameList
<1>2. (\A p \in RoomMembers : net'[p] = "rst" <=> net[p] = "rst") => RoomDead' = RoomDead
  BY <1>1 DEF RoomDead
<1>4. call'.stage = "cast" /\ call'.to = 1 /\ Len(clients') = Len(clients)
              => RoomPending' = RoomMembers
  <2>1. ASSUME call'.stage = "cast", call'.to = 1, Len(clients') = Len(clients)
        PROVE  RoomPending' = {clients'[i].addr : i \in 1 .. Len(clients)}
    BY <2>1 DEF RoomPending, Listed
  <2>2. {clients'[i].addr : i \in 1 .. Len(clients)} = RoomMembers
    BY Listing DEF SameList, RoomMembers, Listed
  <2> QED BY <2>1, <2>2
<1>5. ASSUME UNCHANGED call, call.to \in Nat \ {0}, Len(clients') = Len(clients)
      PROVE  RoomPending' = RoomPending
  <2>1. \A i \in call.to .. Len(clients) : clients'[i].addr = clients[i].addr
    BY <1>5, Listing DEF SameList
  <2>2. {clients'[i].addr : i \in call.to .. Len(clients)}
          = {clients[i].addr : i \in call.to .. Len(clients)}
    BY <2>1
  <2> QED BY <1>5, <2>2 DEF RoomPending, Listed
<1> QED BY <1>1, <1>2, <1>4, <1>5 DEF RoomPending

LEMMA RoomStands ==
  ASSUME ListInv, SameList, UNCHANGED <<log, since, tx>>, call.stage # "cast", call'.stage # "cast",
         \A p \in RoomMembers : net'[p] = "rst" <=> net[p] = "rst"
  PROVE  UNCHANGED RoomVars
BY SameRoom DEF RoomVars

LEMMA RoomPosts ==
  ASSUME ListInv, UNCHANGED <<clients, since, tx, net>>, call.stage # "cast",
         NEW p \in Peers, NEW kind \in Kinds, NEW st, Broadcast(<<kind, p>>, st),
         kind = "join" <=> p \notin RoomMembers
  PROVE  Room!RoomNext
<1>1. SameList /\ Len(clients') = Len(clients)
  BY DEF SameList
<1>2. call'.stage = "cast" /\ call'.to = 1 /\ log' = Append(log, <<kind, p>>)
  BY DEF Broadcast
<1>3. RoomPending = {} /\ RoomPending' = RoomMembers /\ UNCHANGED <<RoomMembers, RoomDead>>
  BY <1>1, <1>2, SameRoom
<1> QED BY <1>2, <1>3, RoomStepSufficient

RoomMove == Room!RoomNext \/ UNCHANGED RoomVars

LEMMA ClientMoves == ASSUME WsInv, ClientStep PROVE RoomMove
<1>1. /\ SameList /\ Len(clients') = Len(clients)
      /\ UNCHANGED <<call, log, since, tx>> /\ call.to \in Nat \ {0}
  BY ClientQuiet DEF WsInv, CallInv, CallTypes, CallRecords
<1>2. UNCHANGED <<RoomMembers, RoomPending>> /\ RoomMembers \subseteq Peers
  BY <1>1, SameRoom, Listing DEF WsInv
<1>3. CASE \A p \in Peers : net'[p] = "rst" <=> net[p] = "rst"
  <2>1. UNCHANGED RoomDead
    BY <1>1, <1>2, <1>3, SameRoom DEF WsInv
  <2> QED BY <1>1, <1>2, <2>1 DEF RoomMove, RoomVars
<1>4. ASSUME NEW p \in Peers, net' = [net EXCEPT ![p] = "rst"] PROVE RoomMove
  <2>1. \A q \in Peers : net'[q] = "rst" <=> net[q] = "rst" \/ q = p
    BY <1>4 DEF WsInv, ListInv, TypeOK
  <2>2. RoomDead' = {q \in RoomMembers : net[q] = "rst" \/ q = p}
    BY <1>2, <2>1 DEF RoomDead
  <2>3. CASE p \in RoomMembers \ RoomDead
    <3>1. RoomDead' = RoomDead \cup {p}
      BY <2>2, <2>3 DEF RoomDead
    <3> QED BY <1>1, <1>2, <2>3, <3>1, RoomStepSufficient DEF RoomMove
  <2>4. CASE p \notin RoomMembers \ RoomDead
    <3>1. RoomDead' = RoomDead
      BY <2>2, <2>4 DEF RoomDead
    <3> QED BY <1>1, <1>2, <3>1 DEF RoomMove, RoomVars
  <2> QED BY <2>3, <2>4
<1> QED BY <1>3, <1>4, ClientQuiet DEF WsInv

LEMMA HandlerMoves ==
  ASSUME ConnAssumption, WsInv,
         \/ WsLoop \/ handleDisconnect \/ HandshakeRecv \/ HandshakeLost \/ HandshakeAccept
         \/ BrokenPipe \/ ReadFrame \/ ReadFragment \/ ReadPartial \/ ReadRemainder \/ RemainderLost
         \/ wsHandlePing
  PROVE  RoomMove
<1> USE DEF WsInv
<1>1. CASE WsLoop
  <2>1. call.stage # "cast"
    BY <1>1, LoopQuiet, Places
  <2> QED BY <1>1, <2>1, LoopQuiet, RoomStands DEF RoomMove
<1>2. CASE handleDisconnect
  <2>1. /\ pc = "sweep" /\ UNCHANGED <<clients, since, tx, net>> /\ idx \in DOMAIN clients
        /\ Broadcast(<<"leave", clients[idx].addr>>, KILL)
    BY <1>2, InLoopIndex DEF handleDisconnect, SweepDead, InLoop, envVars, ListInv
  <2>2. clients[idx].addr \in Peers /\ clients[idx].addr \in RoomMembers
    BY <2>1, Listing DEF RoomMembers, Listed
  <2>3. call.stage # "cast" /\ "leave" \in Kinds
    BY <2>1, Places DEF Kinds
  <2> QED BY <2>1, <2>2, <2>3, RoomPosts DEF RoomMove
<1>3. CASE HandshakeRecv \/ HandshakeLost \/ BrokenPipe
  <2>1. SameList
    BY <1>3, HandshakeSteps DEF SameList
  <2> QED BY <1>3, <2>1, HandshakeSteps, RoomStands DEF RoomMove
<1>4. CASE HandshakeAccept
  <2>1. /\ call.stage = "accept" /\ pc = "onconnect" /\ UNCHANGED <<clients, since, tx, net>>
        /\ Broadcast(<<"join", fdt[newfd]>>, KEEP_ALIVE)
    BY <1>4, Places DEF HandshakeAccept, HandshakePeer, vars
  <2>2. fdt[newfd] \in Peers /\ joined[fdt[newfd]] = 0 /\ "join" \in Kinds
    BY <2>1 DEF ListInv, PcOK, PairInv, Kinds
  <2>3. fdt[newfd] \notin RoomMembers
    BY <2>2, OneRecordEach
  <2> QED BY <2>1, <2>2, <2>3, RoomPosts DEF RoomMove
<1>5. CASE ReadFrame \/ ReadFragment \/ ReadPartial \/ ReadRemainder \/ RemainderLost
  <2>1. /\ pc = "onmessage" /\ call.stage # "cast" /\ UNCHANGED <<since, tx, clients, net>>
        /\ Says(FramePeer) \/ (UNCHANGED log /\ call'.stage # "cast")
    BY <1>5, FrameSteps
  <2>2. CASE Says(FramePeer)
    <3>1. PICK kind \in {"text", "garbage"} : Broadcast(<<kind, FramePeer>>, KEEP_ALIVE)
      BY <2>2 DEF Says
    <3>2. FramePeer \in Peers /\ FramePeer \in RoomMembers
      BY <2>1, Listing DEF ListInv, PcOK, FramePeer, RoomMembers, Listed
    <3>3. kind \in Kinds /\ kind # "join"
      BY DEF Kinds
    <3> QED BY <2>1, <3>1, <3>2, <3>3, RoomPosts DEF RoomMove
  <2>3. CASE UNCHANGED log /\ call'.stage # "cast"
    BY <2>1, <2>3, RoomStands DEF RoomMove, SameList
  <2> QED BY <2>1, <2>2, <2>3
<1>6. CASE wsHandlePing
  <2>1. UNCHANGED <<vars, log, since, tx>> /\ call.stage # "cast" /\ call'.stage # "cast"
    BY <1>6, CallAt DEF wsHandlePing
  <2> QED BY <2>1, RoomStands DEF RoomMove, SameList, vars
<1> QED BY <1>1, <1>2, <1>3, <1>4, <1>5, <1>6

LEMMA SendMoves ==
  ASSUME ConnAssumption, WsInv, SendNext \/ SendDone PROVE RoomMove
<1> USE DEF WsInv
<1>1. /\ call.stage = "cast" /\ call \in CallRecords /\ call.to \in Nat \ {0}
      /\ UNCHANGED <<vars, log, since>> /\ UNCHANGED <<clients, net>> /\ SameList
  BY DEF SendNext, SendDone, CallInv, CallTypes, CallRecords, vars, SameList
<1>2. UNCHANGED <<RoomMembers, RoomDead>>
  BY <1>1, SameRoom
<1>3. CASE SendNext
  <2> DEFINE p == clients[call.to].addr
  <2>1. /\ call.to <= Len(clients) /\ call' = [call EXCEPT !.to = @ + 1]
        /\ tx' = IF net[p] = "rst" THEN tx ELSE [tx EXCEPT ![p] = Append(@, call.event)]
        /\ call.event = log[Len(log)]
    BY <1>1, <1>3 DEF SendNext, CallInv
  <2>2. call'.stage = "cast" /\ call'.to = call.to + 1
    BY <1>1, <2>1 DEF CallRecords
  <2>3. call.to \in DOMAIN clients /\ call.to + 1 .. Len(clients) = (call.to .. Len(clients)) \ {call.to}
    BY <1>1, <2>1, Listing
  <2>4. \A i \in call.to .. Len(clients) : i \in DOMAIN clients /\ (clients[i].addr = p => i = call.to)
    BY <1>1, <2>3, Listing, OneRecordEach
  <2>5. RoomPending' = {clients[i].addr : i \in (call.to .. Len(clients)) \ {call.to}}
    BY <1>1, <2>2, <2>3 DEF RoomPending, Listed
  <2>6. RoomPending = {clients[i].addr : i \in call.to .. Len(clients)} /\ p \in RoomPending
    BY <1>1, <2>1, Listing DEF RoomPending, Listed
  <2>7. RoomPending' = RoomPending \ {p}
    BY <2>4, <2>5, <2>6
  <2>8. p \in Peers /\ p \in RoomMembers
    BY <2>3, Listing DEF RoomMembers, Listed
  <2>9. p \in RoomDead <=> net[p] = "rst"
    BY <2>8 DEF RoomDead
  <2> HIDE DEF p
  <2>10. \/ p \notin RoomDead /\ tx' = [tx EXCEPT ![p] = Append(@, log[Len(log)])]
         \/ p \in RoomDead /\ tx' = tx
    BY <2>1, <2>9
  <2> QED BY <1>1, <1>2, <2>6, <2>7, <2>8, <2>10, RoomStepSufficient DEF RoomMove
<1>4. CASE SendDone
  <2>1. call.to > Len(clients) /\ UNCHANGED tx /\ call'.stage # "cast"
    BY <1>4, CallAt DEF SendDone, CallInv, CallTypes, CallRecords
  <2>2. call.to .. Len(clients) = {}
    BY <1>1, <2>1, Listing
  <2>3. RoomPending = {} /\ RoomPending' = {}
    BY <2>1, <2>2 DEF RoomPending, Listed
  <2> QED BY <1>1, <1>2, <2>1, <2>3 DEF RoomMove, RoomVars
<1> QED BY <1>3, <1>4

LEMMA EnterMoves ==
  ASSUME ConnAssumption, WsInv, LogInv, HandlerReturns, OnConnectReturn(call.ret) PROVE RoomMove
<1> USE DEF WsInv
<1> DEFINE p == fdt[newfd]
<1>1. /\ call.stage = "return" /\ call' = Idle /\ UNCHANGED <<log, tx>>
      /\ since' = IF Len(clients') > Len(clients) THEN [since EXCEPT ![p] = Len(log)] ELSE since
  BY DEF HandlerReturns, OnConnectReturn
<1>2. /\ pc = "onconnect" /\ p \in Peers /\ p \notin RoomMembers /\ joined[p] = 0
      /\ \/ call.ret = KILL /\ UNCHANGED clients /\ net' = [net EXCEPT ![p] = "closed"]
         \/ /\ call.ret # KILL /\ UNCHANGED net
            /\ UNCHANGED clients \/ clients' = Append(clients, Client(p, newfd, call.ret))
  BY ConnectReturns
<1>3. call'.stage # "cast" /\ RoomPending = {} /\ RoomPending' = {}
  BY <1>1, CallAt DEF RoomPending
<1> HIDE DEF p
<1>4. CASE UNCHANGED clients
  <2>1. SameList /\ UNCHANGED since
    BY <1>1, <1>4, Listing DEF SameList
  <2>2. \A q \in RoomMembers : net'[q] = net[q]
    BY <1>2, Listing DEF ListInv, TypeOK
  <2> QED BY <1>1, <1>3, <2>1, <2>2, RoomStands DEF RoomMove
<1>5. CASE call.ret # KILL /\ UNCHANGED net /\ clients' = Append(clients, Client(p, newfd, call.ret))
  <2>1. /\ Len(clients') = Len(clients) + 1 /\ DOMAIN clients' = 1 .. Len(clients) + 1
        /\ \A i \in 1 .. Len(clients) : clients'[i] = clients[i]
        /\ clients'[Len(clients) + 1].addr = p
    <3>1. clients \in Seq(ClientRecords \cup {Client(p, newfd, call.ret)})
      BY Listing
    <3>2. /\ Len(clients') = Len(clients) + 1 /\ clients' \in Seq(ClientRecords \cup {Client(p, newfd, call.ret)})
          /\ \A i \in 1 .. Len(clients) : clients'[i] = clients[i]
          /\ clients'[Len(clients) + 1] = Client(p, newfd, call.ret)
      BY <1>5, <3>1, AppendProperties
    <3> QED BY <3>2, LenProperties DEF Client
  <2>2. RoomMembers' = RoomMembers \cup {p}
    BY <2>1, Listing DEF RoomMembers, Listed
  <2>3. RoomDead' \in {RoomDead, RoomDead \cup {p}}
    BY <1>5, <2>2 DEF RoomDead
  <2>4. since' = [since EXCEPT ![p] = Len(log)]
    BY <1>1, <2>1, Listing
  <2>5. tx' = [tx EXCEPT ![p] = << >>]
    <3>1. tx[p] = << >> /\ tx \in [Peers -> Seq(Kinds \X Peers)]
      BY <1>2 DEF LogInv, CallInv, CallTypes
    <3> QED BY <1>1, <3>1
  <2>6. log # << >> /\ log[Len(log)] = <<"join", p>>
    <3>1. call.ret = KEEP_ALIVE
      BY <1>5 DEF CallInv, CallTypes, CallRecords
    <3> QED BY <1>1, <1>2, <3>1 DEF CallInv, Announced, p
  <2> QED BY <1>1, <1>2, <1>3, <2>2, <2>3, <2>4, <2>5, <2>6, RoomStepSufficient DEF RoomMove
<1> QED BY <1>2, <1>4, <1>5

LEMMA LeaveMoves ==
  ASSUME ConnAssumption, WsInv, HandlerReturns, OnDisconnectReturn PROVE RoomMove
<1> USE DEF WsInv
<1> DEFINE p == clients[idx].addr
           n == Len(clients)
<1>1. /\ call.stage = "return" /\ call' = Idle /\ UNCHANGED <<log, tx, since>>
      /\ pc = "ondisconnect" /\ idx \in DOMAIN clients /\ log[Len(log)] = <<"leave", p>>
      /\ clients' = SwapRemove(clients, idx)
      /\ net' = IF fdt[poll[idx + 1].fd] = NoPeer THEN net
                ELSE [net EXCEPT ![fdt[poll[idx + 1].fd]] = "closed"]
  BY DEF HandlerReturns, OnDisconnectReturn, CallInv, ListInv, PcOK
<1>2. fdt[poll[idx + 1].fd] = p
  <2>1. poll[idx + 1].fd = clients[idx].fd
    BY <1>1 DEF ListInv, Lockstep
  <2> QED BY <1>1, <2>1 DEF FdInv, NoStaleClient
<1>3. /\ n \in Nat /\ idx \in 1 .. n /\ DOMAIN clients' = 1 .. n - 1
      /\ \A j \in 1 .. n - 1 : clients'[j] = IF j = idx THEN clients[n] ELSE clients[j]
  <2>1. clients \in Seq(ClientRecords) /\ n \in Nat /\ idx \in 1 .. n
    BY <1>1, Listing
  <2>2. /\ DOMAIN SwapRemove(clients, idx) = 1 .. Len(clients) - 1
        /\ \A j \in 1 .. Len(clients) - 1 :
             SwapRemove(clients, idx)[j] = IF j = idx THEN clients[Len(clients)] ELSE clients[j]
    <3>1. clients \in Seq(ClientRecords) /\ idx \in 1 .. Len(clients)
      BY <2>1
    <3> QED BY <3>1, SwapRemoveProperties
  <2> QED BY <1>1, <2>1, <2>2
<1>4. p \in Peers /\ p \in RoomMembers
  BY <1>1, Listing DEF RoomMembers, Listed
<1>5. \A i \in 1 .. n : i \in DOMAIN clients /\ (clients[i].addr = p => i = idx)
  BY <1>1, Listing, OneRecordEach
<1>6. RoomMembers = {clients[i].addr : i \in 1 .. n}
  BY Listing DEF RoomMembers, Listed
<1>7. RoomMembers' = {clients'[i].addr : i \in 1 .. n - 1}
  BY <1>3 DEF RoomMembers, Listed
<1> HIDE DEF p, n
<1>8. RoomMembers' = RoomMembers \ {p}
  <2>1. ASSUME NEW i \in 1 .. n - 1 PROVE clients'[i].addr \in RoomMembers \ {p}
    <3>1. CASE i = idx
      <4>1. clients'[i] = clients[n] /\ n \in 1 .. n /\ n # idx
        BY <1>3, <3>1
      <4> QED BY <1>5, <1>6, <4>1
    <3>2. CASE i # idx
      BY <1>3, <1>5, <1>6, <3>2
    <3> QED BY <3>1, <3>2
  <2>2. ASSUME NEW i \in 1 .. n, i # idx PROVE clients[i].addr \in RoomMembers'
    <3>1. CASE i = n
      <4>1. idx \in 1 .. n - 1 /\ clients'[idx] = clients[i]
        BY <1>3, <2>2, <3>1
      <4> QED BY <1>7, <4>1
    <3>2. CASE i # n
      <4>1. i \in 1 .. n - 1 /\ clients'[i] = clients[i]
        BY <1>3, <2>2, <3>2
      <4> QED BY <1>7, <4>1
    <3> QED BY <3>1, <3>2
  <2>3. ASSUME NEW i \in 1 .. n, clients[i].addr # p PROVE clients[i].addr \in RoomMembers'
    BY <2>2, <2>3 DEF p
  <2> QED BY <1>6, <1>7, <2>1, <2>3
<1>9. RoomDead' = RoomDead \ {p}
  <2>1. \A q \in RoomMembers \ {p} : net'[q] = net[q]
    BY <1>1, <1>2
  <2> QED BY <1>8, <2>1 DEF RoomDead
<1>10. RoomPending = {} /\ RoomPending' = {}
  BY <1>1, CallAt DEF RoomPending
<1> QED BY <1>1, <1>4, <1>8, <1>9, <1>10, RoomStepSufficient DEF RoomMove

LEMMA ReturnMoves ==
  ASSUME ConnAssumption, WsInv, LogInv, HandlerReturns PROVE RoomMove
<1> USE DEF WsInv
<1>1. CASE OnMessageReturn(call.ret) \/ OnPingReturn(call.ret)
  <2>1. /\ UNCHANGED <<log, since, tx, net>> /\ call.stage # "cast" /\ call'.stage # "cast"
        /\ \/ UNCHANGED clients
           \/ clients' = [clients EXCEPT ![idx].status = call.ret, ![idx].due = FALSE]
    BY <1>1, CallAt DEF HandlerReturns, OnMessageReturn, OnPingReturn, envVars
  <2>2. SameList
    <3>1. CASE UNCHANGED clients
      BY <3>1 DEF SameList
    <3>2. CASE clients' = [clients EXCEPT ![idx].status = call.ret, ![idx].due = FALSE]
      <4> DEFINE c == [clients[idx] EXCEPT !.status = call.ret, !.due = FALSE]
      <4>1. clients' = [clients EXCEPT ![idx] = c]
        BY <3>2
      <4>2. idx \in DOMAIN clients => c.addr = clients[idx].addr
        BY Listing DEF ClientRecords
      <4> HIDE DEF c
      <4> QED BY <4>1, <4>2, RecordRewritten
    <3> QED BY <2>1, <3>1, <3>2
  <2> QED BY <2>1, <2>2, RoomStands DEF RoomMove
<1> QED BY <1>1, EnterMoves, LeaveMoves DEF HandlerReturns

LEMMA RoomMoves ==
  ASSUME ConnAssumption, WsInv, LogInv, [WsNext]_allVars PROVE [Room!RoomNext]_Room!roomVars
<1>1. CASE UNCHANGED allVars
  <2>1. UNCHANGED RoomVars
    BY <1>1 DEF allVars, vars, wsVars, RoomVars, RoomMembers, RoomDead, RoomPending, Listed
  <2> QED BY <2>1, RoomStepSufficient
<1>2. CASE RoomMove
  BY <1>2, RoomStepSufficient DEF RoomMove
<1> QED BY <1>1, <1>2, ClientMoves, HandlerMoves, SendMoves, ReturnMoves DEF WsNext, ServerStep

(* The server implements the chat room: events go out one at a time, to      *)
(* every listed client, and a client is listed and dropped only right after  *)
(* the others were told, whatever the clients do meanwhile.                  *)
THEOREM ServerIsChatRoom ==
  ASSUME ConnAssumption, WsAssumption PROVE WsSpec => ImplementsChatRoom
<1>1. ASSUME WsInit PROVE Room!RoomInit
  <2>1. DOMAIN clients = {} /\ call.stage = "idle"
    BY <1>1, CallAt DEF WsInit, Init, conInitServer
  <2>2. RoomMembers = {} /\ RoomDead = {} /\ RoomPending = {}
    BY <2>1 DEF RoomMembers, RoomDead, RoomPending, Listed
  <2> QED BY <1>1, <2>2 DEF WsInit, Room!RoomInit, RoomDead, RoomPending
<1>2. WsInv /\ LogInv /\ [WsNext]_allVars => [Room!RoomNext]_Room!roomVars
  BY RoomMoves
<1> QED BY <1>1, <1>2, LogAlways, PTL DEF WsSpec, ImplementsChatRoom, Room!RoomSpec

(* Every listed client whose connection holds was sent exactly the events    *)
(* broadcast since it was listed, in the order of the broadcasts: what is    *)
(* proved of the chat room, read in the server.                              *)
THEOREM EverythingHeard ==
  ASSUME ConnAssumption, WsAssumption PROVE WsSpec => []HearsEverything
<1>1. RoomProofs!RoomSpec => []RoomProofs!HearsEverything
  BY RoomProofs!RoomHears
<1>2. Room!RoomInit <=> RoomProofs!RoomInit
  BY DEF Room!RoomInit, RoomProofs!RoomInit
<1>3. [Room!RoomNext]_Room!roomVars <=> [RoomProofs!RoomNext]_RoomProofs!roomVars
  BY DEF Room!RoomNext, RoomProofs!RoomNext, Room!roomVars, RoomProofs!roomVars,
         Room!Post, RoomProofs!Post, Room!Deliver, RoomProofs!Deliver, Room!Miss, RoomProofs!Miss,
         Room!Lose, RoomProofs!Lose, Room!Enter, RoomProofs!Enter, Room!Leave, RoomProofs!Leave,
         Room!EventKinds, RoomProofs!EventKinds, Room!LastEvent, RoomProofs!LastEvent
<1>4. HearsEverything <=> RoomProofs!HearsEverything
  BY DEF HearsEverything, Room!HearsEverything, RoomProofs!HearsEverything
<1> QED BY <1>1, <1>2, <1>3, <1>4, ServerIsChatRoom, PTL
        DEF ImplementsChatRoom, Room!RoomSpec, RoomProofs!RoomSpec
=============================================================================
