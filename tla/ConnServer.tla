----------------------------- MODULE ConnServer -----------------------------
(***************************************************************************)
(* The connection layer of the server: src/server/conn.c and conn.h.       *)
(*                                                                         *)
(* One thread runs conPollEvents in a loop.  A tick polls every descriptor *)
(* once and then works from that snapshot: it accepts at most one          *)
(* connection, scans the clients, or, when nothing was ready, pings those  *)
(* that have been silent, and finally sweeps the connections marked for    *)
(* deletion.  The four callbacks (onconnect, onmessage, onping,            *)
(* ondisconnect) are left open here: a callback may read from its own      *)
(* client, may end the process, and returns any status of Results.  Peers  *)
(* connect, send, close and reset between any two steps of the loop.       *)
(*                                                                         *)
(* C's poll.items[k] is poll[k+1], so that clients.items[k-1] is           *)
(* clients[k]: idx is the C index of every loop.                           *)
(***************************************************************************)
EXTENDS Naturals, Sequences

CONSTANTS
  Peers,           \* connections that remote hosts may open, one each
  NoPeer,          \* marks a descriptor that is not open
  Fds,             \* descriptors the process may still open (its rlimit)
  ListenFd,        \* the descriptor of the listening socket
  Data,            \* units of the byte stream, opaque at this level
  MaxUnread,       \* bound: unread units a socket buffer holds
  MaxConnections,  \* ServerConfig.max_connections
  Results,         \* what onconnect and onping may return
  ListenerMayFail  \* whether poll may report an error on the listener

KILL == "KILL"
KEEP_ALIVE == "KEEP_ALIVE"
RETRY == "RETRY"

ASSUME ConnAssumption ==
  /\ NoPeer \notin Peers
  /\ Fds \subseteq Nat /\ ListenFd \in Nat \ Fds
  /\ MaxUnread \in Nat
  /\ MaxConnections \in Nat \ {0, 1}
  /\ Results \subseteq {KILL, KEEP_ALIVE, RETRY}
  /\ ListenerMayFail \in BOOLEAN

VARIABLES
  net,      \* net[p]: "none", "open", "fin" (p closed), "rst" (p reset), "closed" (by us)
  rx,       \* rx[p]: what p sent and the server has not read
  backlog,  \* connections the kernel has completed, not yet accepted
  fdt,      \* fdt[fd]: the peer at the other end of an open descriptor
  poll,     \* ServerPoll.items[0 .. len-1]
  clients,  \* ClientPoll.items[0 .. len-1]
  pc,       \* where conPollEvents is
  idx,      \* the index of its current loop
  newfd,    \* client.fd in conAcceptConnections
  joined,   \* joined[p]: how often onconnect took p on
  left      \* left[p]: how often ondisconnect ran for p

envVars == <<net, rx, backlog>>
vars == <<net, rx, backlog, fdt, poll, clients, pc, idx, newfd, joined, left>>

Callbacks == {"onconnect", "onreconnect", "onmessage", "onping", "ondisconnect"}
Events == {"none", "in", "err"}

PollEntry(fd) == [fd |-> fd, armed |-> TRUE, revents |-> "none"]
Client(p, fd, st) == [addr |-> p, fd |-> fd, status |-> st, due |-> FALSE]

(* A connection some client record refers to. *)
Registered(p) == \E i \in DOMAIN clients : clients[i].addr = p

---------------------------------------------------------------------------
(* A failed conInitServer leaves both lists empty: main ignores its result. *)
conInitServer ==
  /\ poll \in {<< >>, <<PollEntry(ListenFd)>>}
  /\ clients = << >>
  /\ fdt = [fd \in Fds |-> NoPeer]

Init ==
  /\ conInitServer
  /\ net = [p \in Peers |-> "none"]
  /\ rx = [p \in Peers |-> << >>]
  /\ backlog = << >>
  /\ pc = "poll" /\ idx = 1 /\ newfd = ListenFd
  /\ joined = [p \in Peers |-> 0]
  /\ left = [p \in Peers |-> 0]
---------------------------------------------------------------------------
(* The peers and the kernel. *)

PeerConnect(p) ==
  /\ net[p] = "none" /\ poll # << >> /\ pc # "exit"
  /\ net' = [net EXCEPT ![p] = "open"]
  /\ backlog' = Append(backlog, p)
  /\ UNCHANGED <<rx, fdt, poll, clients, pc, idx, newfd, joined, left>>

PeerSend(p, d) ==
  /\ net[p] = "open" /\ pc # "exit" /\ Len(rx[p]) < MaxUnread
  /\ rx' = [rx EXCEPT ![p] = Append(@, d)]
  /\ UNCHANGED <<net, backlog, fdt, poll, clients, pc, idx, newfd, joined, left>>

PeerClose(p) ==
  /\ net[p] = "open" /\ pc # "exit"
  /\ net' = [net EXCEPT ![p] = "fin"]
  /\ UNCHANGED <<rx, backlog, fdt, poll, clients, pc, idx, newfd, joined, left>>

PeerReset(p) ==
  /\ net[p] \in {"open", "fin"} /\ pc # "exit"
  /\ net' = [net EXCEPT ![p] = "rst"]
  /\ UNCHANGED <<rx, backlog, fdt, poll, clients, pc, idx, newfd, joined, left>>

(* ping_interval elapses for a client: now - last_updated has grown past it. *)
PingDue(i) ==
  /\ i \in DOMAIN clients /\ ~clients[i].due /\ pc # "exit"
  /\ clients' = [clients EXCEPT ![i].due = TRUE]
  /\ UNCHANGED <<net, rx, backlog, fdt, poll, pc, idx, newfd, joined, left>>
---------------------------------------------------------------------------
(* What poll(2) reports of one entry; ERR, NVAL and HUP are one class. *)
Readiness(e) ==
  IF e.fd = ListenFd
  THEN IF backlog # << >> THEN "in" ELSE "none"
  ELSE LET p == fdt[e.fd] IN
       IF p = NoPeer \/ net[p] = "rst" THEN "err"
       ELSE IF e.armed /\ (rx[p] # << >> \/ net[p] = "fin") THEN "in"
       ELSE "none"

(* poll(2) with a zero timeout: the events of every entry at one instant. *)
conHasEvents(listenerFails) ==
  [i \in DOMAIN poll |->
     IF i = 1 /\ listenerFails THEN "err" ELSE Readiness(poll[i])]

Poll ==
  /\ pc = "poll"
  /\ \E fails \in {FALSE, ListenerMayFail} :
       LET r == conHasEvents(fails) IN
       /\ poll' = [i \in DOMAIN poll |-> [poll[i] EXCEPT !.revents = r[i]]]
       /\ pc' = IF \E i \in DOMAIN poll : r[i] # "none" THEN "accept" ELSE "ping"
  /\ idx' = 1
  /\ UNCHANGED <<envVars, fdt, clients, newfd, joined, left>>

FreeFds == {fd \in Fds : fdt[fd] = NoPeer}
CanAccept_Reserve ==
  /\ poll[1].revents = "in" /\ backlog # << >> /\ FreeFds # {}
  /\ Len(clients) + 1 < MaxConnections - 1

CanAccept == poll[1].revents = "in" /\ backlog # << >> /\ FreeFds # {}

(* conAcceptConnections up to the call of onconnect; accept(2) returns the  *)
(* lowest descriptor that is free.                                          *)
Accept ==
  /\ pc = "accept" /\ poll[1].revents # "err" /\ CanAccept
  /\ \E fd \in FreeFds :
       /\ \A g \in FreeFds : fd <= g
       /\ fdt' = [fdt EXCEPT ![fd] = Head(backlog)]
       /\ newfd' = fd
  /\ backlog' = Tail(backlog)
  /\ pc' = "onconnect"
  /\ UNCHANGED <<net, rx, poll, clients, idx, joined, left>>

(* Nothing to accept, or accept(2) failed: both go on to the clients. *)
AcceptNothing ==
  /\ pc = "accept" /\ poll[1].revents # "err" /\ ~CanAccept
  /\ pc' = "scan"
  /\ UNCHANGED <<envVars, fdt, poll, clients, idx, newfd, joined, left>>

ListenerError ==
  /\ pc = "accept" /\ poll[1].revents = "err"
  /\ pc' = "exit"
  /\ UNCHANGED <<envVars, fdt, poll, clients, idx, newfd, joined, left>>

connPushToPoll_NoCap(s, fd) == Append(s, PollEntry(fd))

connPushToPoll(s, fd) ==
  IF Len(s) < MaxConnections THEN Append(s, PollEntry(fd)) ELSE s

connPushToClientPoll_OffByOne(s, c) ==
  IF Len(s) < MaxConnections - 2 THEN Append(s, c) ELSE s

connPushToClientPoll(s, c) ==
  IF Len(s) < MaxConnections - 1 THEN Append(s, c) ELSE s

(* onconnect returned st for a fresh connection.  The results of the two    *)
(* pushes are ignored.                                                      *)
OnConnectReturn(st) ==
  LET p == fdt[newfd] IN
  /\ pc = "onconnect"
  /\ IF st = KILL
     THEN /\ fdt' = [fdt EXCEPT ![newfd] = NoPeer]
          /\ net' = [net EXCEPT ![p] = "closed"]
          /\ UNCHANGED <<poll, clients, joined>>
     ELSE /\ clients' = connPushToClientPoll(clients, Client(p, newfd, st))
          /\ poll' = connPushToPoll(poll, newfd)
          /\ joined' = [joined EXCEPT ![p] = @ + 1]
          /\ UNCHANGED <<fdt, net>>
  /\ pc' = "scan" /\ idx' = 1
  /\ UNCHANGED <<rx, backlog, newfd, left>>
---------------------------------------------------------------------------
(* The scan over the clients of the polled snapshot. *)

InLoop(loop) == pc = loop /\ idx < Len(poll)

EndLoop_OffByOne(loop, next) ==
  /\ pc = loop /\ idx + 1 >= Len(poll)
  /\ pc' = next /\ idx' = 1
  /\ UNCHANGED <<envVars, fdt, poll, clients, newfd, joined, left>>

EndLoop_FromZero(loop, next) ==
  /\ pc = loop /\ idx >= Len(poll)
  /\ pc' = next /\ idx' = 0
  /\ UNCHANGED <<envVars, fdt, poll, clients, newfd, joined, left>>

EndLoop(loop, next) ==
  /\ pc = loop /\ idx >= Len(poll)
  /\ pc' = next /\ idx' = 1
  /\ UNCHANGED <<envVars, fdt, poll, clients, newfd, joined, left>>

(* recv(fd, 1 byte, MSG_PEEK): > 0, 0 or < 0.  After a reset the pending    *)
(* error is reported once, then the end of the stream.                      *)
Peek(fd) ==
  LET p == fdt[fd] IN
  IF p = NoPeer THEN {"fail"}
  ELSE IF rx[p] # << >> THEN {"data"}
  ELSE CASE net[p] = "fin" -> {"eof"}
         [] net[p] = "rst" -> {"eof", "fail"}
         [] OTHER -> {"fail"}

Disarm(i) == poll' = [poll EXCEPT ![i + 1].armed = FALSE]
HasMessage(peek) == peek = "data" /\ poll[idx + 1].revents = "in"
LooksDead_NoEof(peek) == poll[idx + 1].revents = "err"
LooksDead(peek) == peek = "eof" \/ poll[idx + 1].revents = "err"

ScanDead ==
  /\ InLoop("scan")
  /\ \E peek \in Peek(poll[idx + 1].fd) : LooksDead(peek)
  /\ Disarm(idx) /\ idx' = idx + 1
  /\ UNCHANGED <<envVars, fdt, clients, pc, newfd, joined, left>>

ScanMessage ==
  /\ InLoop("scan")
  /\ \E peek \in Peek(poll[idx + 1].fd) : HasMessage(peek) /\ ~LooksDead(peek)
  /\ IF clients[idx].status = RETRY
     THEN pc' = "onreconnect" /\ UNCHANGED clients
     ELSE pc' = "onmessage" /\ clients' = [clients EXCEPT ![idx].due = FALSE]
  /\ UNCHANGED <<envVars, fdt, poll, idx, newfd, joined, left>>

(* "for sure the client is still alive!" *)
ScanAlive ==
  /\ InLoop("scan")
  /\ \E peek \in Peek(poll[idx + 1].fd) : ~HasMessage(peek) /\ ~LooksDead(peek)
  /\ clients' = [clients EXCEPT ![idx].due = FALSE]
  /\ idx' = idx + 1
  /\ UNCHANGED <<envVars, fdt, poll, pc, newfd, joined, left>>

ScanEnd == EndLoop("scan", "sweep")

(* conHandleConnect called again for a client whose status is RETRY: the    *)
(* record is pushed a second time and the old entry marked for deletion.    *)
OnReconnectReturn(st) ==
  LET c == [clients[idx] EXCEPT !.status = st, !.due = FALSE] IN
  /\ pc = "onreconnect"
  /\ IF st = KILL
     THEN clients' = [clients EXCEPT ![idx].due = FALSE] /\ UNCHANGED <<poll, joined>>
     ELSE /\ clients' = connPushToClientPoll([clients EXCEPT ![idx] = c], c)
          /\ poll' = connPushToPoll([poll EXCEPT ![idx + 1].armed = FALSE], c.fd)
          /\ joined' = [joined EXCEPT ![c.addr] = @ + 1]
  /\ pc' = "onmessage"
  /\ UNCHANGED <<envVars, fdt, idx, newfd, left>>

OnMessageReturn(st) ==
  /\ pc = "onmessage"
  /\ IF st = KILL THEN Disarm(idx) ELSE UNCHANGED poll
  /\ pc' = "scan" /\ idx' = idx + 1
  /\ UNCHANGED <<envVars, fdt, clients, newfd, joined, left>>
---------------------------------------------------------------------------
(* The ping loop, entered only when poll(2) reported nothing. *)

PingDueClient ==
  /\ InLoop("ping") /\ clients[idx].due
  /\ pc' = "onping"
  /\ UNCHANGED <<envVars, fdt, poll, clients, idx, newfd, joined, left>>

PingSkip ==
  /\ InLoop("ping") /\ ~clients[idx].due
  /\ idx' = idx + 1
  /\ UNCHANGED <<envVars, fdt, poll, clients, pc, newfd, joined, left>>

PingEnd == EndLoop("ping", "sweep")

OnPingReturn(st) ==
  /\ pc = "onping"
  /\ clients' = [clients EXCEPT ![idx].status = st, ![idx].due = FALSE]
  /\ IF st = KILL THEN Disarm(idx) ELSE UNCHANGED poll
  /\ pc' = "ping" /\ idx' = idx + 1
  /\ UNCHANGED <<envVars, fdt, newfd, joined, left>>
---------------------------------------------------------------------------
(* The sweep: swap with the last, shorten, look at the same index again. *)

SwapRemove_DropLast(s, i) == [j \in 1 .. Len(s) - 1 |-> s[j]]

SwapRemove(s, i) ==
  [j \in 1 .. Len(s) - 1 |-> IF j = i THEN s[Len(s)] ELSE s[j]]

Condemned(i) == ~poll[i + 1].armed \/ clients[i].status = KILL

SweepKeep ==
  /\ InLoop("sweep") /\ ~Condemned(idx)
  /\ idx' = idx + 1
  /\ UNCHANGED <<envVars, fdt, poll, clients, pc, newfd, joined, left>>

SweepDead ==
  /\ InLoop("sweep") /\ Condemned(idx)
  /\ pc' = "ondisconnect"
  /\ UNCHANGED <<envVars, fdt, poll, clients, idx, newfd, joined, left>>

SweepEnd == EndLoop("sweep", "poll")

OnDisconnectReturn ==
  LET fd == poll[idx + 1].fd IN
  /\ pc = "ondisconnect"
  /\ left' = [left EXCEPT ![clients[idx].addr] = @ + 1]
  /\ fdt' = [fdt EXCEPT ![fd] = NoPeer]
  /\ net' = IF fdt[fd] = NoPeer THEN net ELSE [net EXCEPT ![fdt[fd]] = "closed"]
  /\ poll' = SwapRemove(poll, idx + 1)
  /\ clients' = SwapRemove(clients, idx)
  /\ pc' = "sweep"
  /\ UNCHANGED <<rx, backlog, idx, newfd, joined>>
---------------------------------------------------------------------------
(* What a callback may do before it returns. *)

CallbackPeer == IF pc = "onconnect" THEN fdt[newfd] ELSE clients[idx].addr

(* It reads k units of its client's stream, the last of them perhaps in     *)
(* part: what is left of that unit is another one.                          *)
CallbackRecv(k, rest) ==
  LET p == CallbackPeer IN
  /\ pc \in {"onconnect", "onreconnect", "onmessage"}
  /\ p \in Peers /\ k \in 1 .. Len(rx[p])
  /\ rx' = [rx EXCEPT ![p] = rest \o SubSeq(rx[p], k + 1, Len(rx[p]))]
  /\ UNCHANGED <<net, backlog, fdt, poll, clients, pc, idx, newfd, joined, left>>

(* An assertion or a signal ends the process inside a callback. *)
CallbackAbort ==
  /\ pc \in Callbacks
  /\ pc' = "exit"
  /\ UNCHANGED <<envVars, fdt, poll, clients, idx, newfd, joined, left>>

Rests == {<< >>} \cup {<<d>> : d \in Data}
---------------------------------------------------------------------------
PeerStep ==
  \/ \E p \in Peers :
       \/ PeerConnect(p) \/ PeerClose(p) \/ PeerReset(p)
       \/ \E d \in Data : PeerSend(p, d)
  \/ \E i \in DOMAIN clients : PingDue(i)

LoopStep ==
  \/ Poll \/ Accept \/ AcceptNothing \/ ListenerError
  \/ ScanDead \/ ScanMessage \/ ScanAlive \/ ScanEnd
  \/ PingDueClient \/ PingSkip \/ PingEnd
  \/ SweepKeep \/ SweepDead \/ SweepEnd

ReturnStep ==
  \/ \E st \in Results :
       OnConnectReturn(st) \/ OnReconnectReturn(st) \/ OnPingReturn(st)
  \/ \E st \in {KILL, KEEP_ALIVE} : OnMessageReturn(st)
  \/ OnDisconnectReturn

CallbackStep ==
  \/ \E k \in 1 .. MaxUnread, rest \in Rests : CallbackRecv(k, rest)
  \/ CallbackAbort

Next == PeerStep \/ LoopStep \/ ReturnStep \/ CallbackStep

(* The loop never rests, every callback returns and the clock advances. *)
Fairness ==
  /\ WF_vars(LoopStep) /\ WF_vars(ReturnStep)
  /\ \A i \in 1 .. MaxConnections - 1 : WF_vars(PingDue(i))

Spec == Init /\ [][Next]_vars
FairSpec == Spec /\ Fairness
---------------------------------------------------------------------------
PollEntries == [fd : Fds \cup {ListenFd}, armed : BOOLEAN, revents : Events]
ClientRecords ==
  [addr : Peers, fd : Fds, status : {KILL, KEEP_ALIVE, RETRY}, due : BOOLEAN]

(* The types of the state. *)
TypeOK ==
  /\ net \in [Peers -> {"none", "open", "fin", "rst", "closed"}]
  /\ rx \in [Peers -> Seq(Data)]
  /\ backlog \in Seq(Peers)
  /\ fdt \in [Fds -> Peers \cup {NoPeer}]
  /\ poll \in Seq(PollEntries)
  /\ clients \in Seq(ClientRecords)
  /\ pc \in {"poll", "accept", "scan", "ping", "sweep", "exit"} \cup Callbacks
  /\ idx \in Nat \ {0}
  /\ newfd \in Fds \cup {ListenFd}
  /\ joined \in [Peers -> Nat] /\ left \in [Peers -> Nat]

(* The two arrays of conn.c stay in step: after any mix of accepts, pushes   *)
(* at capacity and swap-removes, entry k of the poll list and entry k-1 of   *)
(* the client list are the same connection.                                  *)
Lockstep ==
  \/ poll = << >> /\ clients = << >>
  \/ /\ Len(poll) = Len(clients) + 1
     /\ poll[1].fd = ListenFd
     /\ \A i \in DOMAIN clients : poll[i + 1].fd = clients[i].fd

(* Every client record names a descriptor that is open and still belongs to  *)
(* its peer, and no two records share one, although descriptors are reused.  *)
NoStaleClient ==
  /\ \A i \in DOMAIN clients : fdt[clients[i].fd] = clients[i].addr
  /\ \A i, j \in DOMAIN clients : clients[i].fd = clients[j].fd => i = j

(* onconnect and ondisconnect come in pairs: a listed connection has joined  *)
(* and not left, and the server closes one only with its callbacks balanced. *)
PairedCallbacks ==
  \A p \in Peers :
    /\ left[p] <= joined[p] /\ joined[p] <= 1
    /\ Registered(p) => joined[p] = 1 /\ left[p] = 0
    /\ net[p] = "closed" => joined[p] = left[p]

(* After the sweep nothing marked for deletion is left in the lists, in      *)
(* particular not the last element that was swapped into the hole.           *)
SweepComplete ==
  pc = "poll" => \A i \in DOMAIN clients : ~Condemned(i)

Untracked(p) == joined[p] > left[p] /\ ~Registered(p)

(* The server loses sight of a connection it took on in one place only: when *)
(* onconnect took it on although the client list was full.                   *)
LostOnlyAtCapacity ==
  [][\A p \in Peers : Untracked(p)' /\ ~Untracked(p) =>
       pc = "onconnect" /\ Len(clients) = MaxConnections - 1]_vars

(* A registered connection that was reset, or closed with nothing left to    *)
(* read, is swept, however the other peers interleave.                       *)
DeadConnectionsReaped ==
  \A p \in Peers :
    (Registered(p) /\ (net[p] = "rst" \/ (net[p] = "fin" /\ rx[p] = << >>)))
      ~> (~Registered(p) \/ pc = "exit")

(* A connection the kernel has completed is offered to onconnect.            *)
BacklogAccepted ==
  \A p \in Peers :
    net[p] = "open" /\ (\A fd \in Fds : fdt[fd] # p)
      ~> (pc = "exit" \/ \E fd \in Fds : fdt[fd] = p)

Pinging(p) == pc = "onping" /\ clients[idx].addr = p
Quiet ==
  backlog = << >> /\ \A q \in Peers : Registered(q) => net[q] = "open" /\ rx[q] = << >>

(* Once every connection has gone quiet, each of them is pinged again and    *)
(* again: the ping loop is reached and no client is skipped.                 *)
PingsWhenQuiet ==
  \A p \in Peers :
    <>[](Quiet /\ Registered(p)) => []<>(pc = "exit" \/ Pinging(p))
=============================================================================
