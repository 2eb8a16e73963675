-------------------------- MODULE ConnServerProofs --------------------------
(* Theorems about ConnServer, for any number of peers, descriptors and      *)
(* connections: the two lists stay in step, no client record goes stale, a  *)
(* sweep leaves nothing condemned behind, and the callbacks come in pairs.  *)
EXTENDS ConnServer, SequenceTheorems, TLAPS

USE DEF KILL, KEEP_ALIVE, RETRY

(* An update of one element keeps a sequence a sequence of its length. *)
LEMMA SeqUpdate ==
  ASSUME NEW S, NEW s \in Seq(S), NEW i, NEW e, i \in DOMAIN s => e \in S
  PROVE  /\ [s EXCEPT ![i] = e] \in Seq(S)
         /\ Len([s EXCEPT ![i] = e]) = Len(s)
         /\ DOMAIN [s EXCEPT ![i] = e] = DOMAIN s
<1>1. DOMAIN s = 1 .. Len(s) /\ Len(s) \in Nat
  BY LenProperties
<1>2. CASE i \in DOMAIN s
  BY <1>1, <1>2, ExceptSeq
<1>3. CASE i \notin DOMAIN s
  <2>1. [s EXCEPT ![i] = e] = s
    BY <1>1, <1>3, LenProperties
  <2>. QED  BY <2>1
<1>. QED  BY <1>2, <1>3

(* An interval from 1 determines its length. *)
LEMMA IntervalLength ==
  ASSUME NEW m \in Nat, NEW n \in Nat, 1 .. m = 1 .. n
  PROVE  m = n
<1>1. m < n => n \in 1 .. n /\ n \notin 1 .. m
  OBVIOUS
<1>2. n < m => m \in 1 .. m /\ m \notin 1 .. n
  OBVIOUS
<1>. QED  BY <1>1, <1>2

(* A function on an interval from 1 is a sequence of that length. *)
LEMMA FunctionIsSeq ==
  ASSUME NEW S, NEW n \in Nat, NEW f \in [1 .. n -> S]
  PROVE  f \in Seq(S) /\ Len(f) = n
<1>1. f \in Seq(S)
  BY SeqDef
<1>2. Len(f) \in Nat /\ DOMAIN f = 1 .. Len(f)
  BY <1>1, LenProperties
<1>. QED  BY <1>1, <1>2, IntervalLength

(* The swap-remove of conn.c's sweep: one element less, the last one in the  *)
(* place of the removed one, the others where they were.                     *)
LEMMA SwapRemoveProperties ==
  ASSUME NEW S, NEW s \in Seq(S), NEW i \in 1 .. Len(s)
  PROVE  /\ SwapRemove(s, i) \in Seq(S)
         /\ Len(SwapRemove(s, i)) = Len(s) - 1
         /\ DOMAIN SwapRemove(s, i) = 1 .. Len(s) - 1
         /\ \A j \in 1 .. Len(s) - 1 :
              SwapRemove(s, i)[j] = IF j = i THEN s[Len(s)] ELSE s[j]
<1>1. Len(s) \in Nat /\ Len(s) >= 1 /\ s \in [1 .. Len(s) -> S]
  BY LenProperties
<1>2. SwapRemove(s, i) \in [1 .. Len(s) - 1 -> S]
  BY <1>1 DEF SwapRemove
<1>3. /\ SwapRemove(s, i) \in Seq(S)
      /\ Len(SwapRemove(s, i)) = Len(s) - 1
  <2>1. Len(s) - 1 \in Nat
    BY <1>1
  <2>. QED  BY <1>2, <2>1, FunctionIsSeq
<1>. QED  BY <1>1, <1>2, <1>3 DEF SwapRemove
---------------------------------------------------------------------------
(* Where the loop is, and what must exist for it to be there. *)
PcOK ==
  /\ pc \in {"accept", "onconnect"} => poll # << >>
  /\ pc = "onconnect" => newfd \in Fds /\ fdt[newfd] \in Peers
  /\ pc \in {"onreconnect", "onmessage", "onping", "ondisconnect"}
       => idx \in DOMAIN clients

ListInv == TypeOK /\ Lockstep /\ PcOK

(* A loop of conn.c that has not ended is at an entry of both lists. *)
LEMMA InLoopIndex ==
  ASSUME TypeOK, Lockstep, NEW loop, InLoop(loop)
  PROVE  /\ idx \in DOMAIN clients /\ idx + 1 \in DOMAIN poll
         /\ Len(poll) = Len(clients) + 1
<1>1. /\ Len(poll) \in Nat /\ DOMAIN poll = 1 .. Len(poll)
      /\ Len(clients) \in Nat /\ DOMAIN clients = 1 .. Len(clients)
  BY LenProperties DEF TypeOK
<1>2. Len(<< >>) = 0
  BY EmptySeq
<1>3. idx \in Nat /\ idx >= 1 /\ idx < Len(poll)
  BY DEF TypeOK, InLoop
<1>4. poll # << >>
  BY <1>2, <1>3
<1>5. Len(poll) = Len(clients) + 1
  BY <1>4 DEF Lockstep
<1>. QED  BY <1>1, <1>3, <1>5

---------------------------------------------------------------------------
(* Rewriting one field of a client record, or the armed flag of an entry,    *)
(* leaves the lists well typed and in step.                                  *)
LEMMA UpdateClient ==
  ASSUME ListInv, NEW i, NEW c, i \in DOMAIN clients => c \in ClientRecords,
         i \in DOMAIN clients => c.fd = clients[i].fd,
         clients' = [clients EXCEPT ![i] = c]
  PROVE  /\ clients' \in Seq(ClientRecords)
         /\ Len(clients') = Len(clients)
         /\ DOMAIN clients' = DOMAIN clients
         /\ \A j \in DOMAIN clients : clients'[j].fd = clients[j].fd
<1>1. clients \in Seq(ClientRecords)
  BY DEF ListInv, TypeOK
<1>2. /\ [clients EXCEPT ![i] = c] \in Seq(ClientRecords)
      /\ Len([clients EXCEPT ![i] = c]) = Len(clients)
      /\ DOMAIN [clients EXCEPT ![i] = c] = DOMAIN clients
  BY <1>1, SeqUpdate
<1>. QED  BY <1>2

(* Rewriting one poll entry without changing its descriptor, as Poll and the *)
(* marks for deletion do, keeps the types and the lockstep.                   *)
LEMMA UpdatePoll ==
  ASSUME ListInv, NEW i, NEW e, i \in DOMAIN poll => e \in PollEntries,
         i \in DOMAIN poll => e.fd = poll[i].fd,
         poll' = [poll EXCEPT ![i] = e]
  PROVE  /\ poll' \in Seq(PollEntries)
         /\ Len(poll') = Len(poll)
         /\ DOMAIN poll' = DOMAIN poll
         /\ \A j \in DOMAIN poll : poll'[j].fd = poll[j].fd
<1>1. poll \in Seq(PollEntries)
  BY DEF ListInv, TypeOK
<1>2. /\ [poll EXCEPT ![i] = e] \in Seq(PollEntries)
      /\ Len([poll EXCEPT ![i] = e]) = Len(poll)
      /\ DOMAIN [poll EXCEPT ![i] = e] = DOMAIN poll
  BY <1>1, SeqUpdate
<1>. QED  BY <1>2

(* Two lists with the descriptors of the old ones are in step again. *)
LEMMA SameFdsLockstep ==
  ASSUME ListInv,
         poll' \in Seq(PollEntries), clients' \in Seq(ClientRecords),
         Len(poll') = Len(poll), Len(clients') = Len(clients),
         \A j \in DOMAIN poll : poll'[j].fd = poll[j].fd,
         \A j \in DOMAIN clients : clients'[j].fd = clients[j].fd
  PROVE  Lockstep' /\ (poll # << >> => poll' # << >>)
<1>1. /\ Len(poll) \in Nat /\ DOMAIN poll = 1 .. Len(poll)
      /\ Len(clients) \in Nat /\ DOMAIN clients = 1 .. Len(clients)
      /\ DOMAIN clients' = 1 .. Len(clients')
  BY LenProperties DEF ListInv, TypeOK
<1>2. CASE poll = << >> /\ clients = << >>
  <2>1. Len(poll') = 0 /\ Len(clients') = 0
    BY <1>2, EmptySeq
  <2>2. poll' = << >> /\ clients' = << >>
    BY <2>1, EmptySeq
  <2>. QED  BY <1>2, <2>2 DEF Lockstep
<1>3. CASE poll # << >>
  <2>1. /\ Len(poll) = Len(clients) + 1 /\ poll[1].fd = ListenFd
        /\ \A i \in DOMAIN clients : poll[i + 1].fd = clients[i].fd
    BY <1>3 DEF ListInv, Lockstep
  <2>2. poll' # << >>
    BY <1>1, <2>1, EmptySeq
  <2>3. poll'[1].fd = ListenFd
    BY <1>1, <2>1
  <2>4. \A i \in DOMAIN clients' : poll'[i + 1].fd = clients'[i].fd
    BY <1>1, <2>1
  <2>. QED  BY <2>1, <2>2, <2>3, <2>4 DEF Lockstep
<1>. QED  BY <1>2, <1>3 DEF ListInv, Lockstep

(* The same for a push onto both lists, at any capacity: both take the new    *)
(* element or both refuse it.                                                *)
LEMMA PushLockstep ==
  ASSUME ConnAssumption, NEW ps \in Seq(PollEntries), NEW cs \in Seq(ClientRecords),
         NEW c \in ClientRecords, Len(ps) = Len(cs) + 1, ps[1].fd = ListenFd,
         \A i \in DOMAIN cs : ps[i + 1].fd = cs[i].fd,
         poll' = connPushToPoll(ps, c.fd), clients' = connPushToClientPoll(cs, c)
  PROVE  /\ poll' \in Seq(PollEntries) /\ clients' \in Seq(ClientRecords)
         /\ poll' # << >> /\ Lockstep' /\ DOMAIN cs \subseteq DOMAIN clients'
         /\ \/ poll' = ps /\ clients' = cs /\ Len(cs) >= MaxConnections - 1
            \/ /\ poll' = Append(ps, PollEntry(c.fd)) /\ clients' = Append(cs, c)
               /\ Len(cs) < MaxConnections - 1
<1>1. PollEntry(c.fd) \in PollEntries
  BY DEF PollEntry, PollEntries, ClientRecords, Events
<1>2. /\ Len(ps) \in Nat /\ Len(cs) \in Nat /\ DOMAIN cs = 1 .. Len(cs)
  BY LenProperties
<1>3. CASE ~(Len(ps) < MaxConnections)
  <2>1. ~(Len(cs) < MaxConnections - 1) /\ Len(cs) >= MaxConnections - 1
    BY <1>2, <1>3 DEF ConnAssumption
  <2>2. poll' = ps /\ clients' = cs
    BY <1>3, <2>1 DEF connPushToPoll, connPushToClientPoll
  <2>3. ps # << >>
    BY <1>2, EmptySeq
  <2>4. Lockstep'
    BY <2>2 DEF Lockstep
  <2>. QED  BY <2>1, <2>2, <2>3, <2>4
<1>4. CASE Len(ps) < MaxConnections
  <2>1. Len(cs) < MaxConnections - 1
    BY <1>2, <1>4 DEF ConnAssumption
  <2>2. poll' = Append(ps, PollEntry(c.fd)) /\ clients' = Append(cs, c)
    BY <1>4, <2>1 DEF connPushToPoll, connPushToClientPoll
  <2>3. /\ poll' \in Seq(PollEntries) /\ poll' # << >>
        /\ Len(poll') = Len(ps) + 1
        /\ \A j \in 1 .. Len(ps) : poll'[j] = ps[j]
        /\ poll'[Len(ps) + 1] = PollEntry(c.fd)
    BY <2>2, <1>1, AppendProperties
  <2>4. /\ clients' \in Seq(ClientRecords) /\ Len(clients') = Len(cs) + 1
        /\ \A j \in 1 .. Len(cs) : clients'[j] = cs[j]
        /\ clients'[Len(cs) + 1] = c
    BY <2>2, AppendProperties
  <2>5. DOMAIN clients' = 1 .. Len(cs) + 1
    BY <2>4, LenProperties
  <2>6. \A i \in DOMAIN clients' : poll'[i + 1].fd = clients'[i].fd
    <3>. TAKE i \in DOMAIN clients'
    <3>1. CASE i \in 1 .. Len(cs)
      <4>1. i + 1 \in 1 .. Len(ps) /\ i \in DOMAIN cs
        BY <1>2, <3>1
      <4>2. poll'[i + 1] = ps[i + 1] /\ clients'[i] = cs[i]
        BY <2>3, <2>4, <3>1, <4>1
      <4>. QED  BY <4>1, <4>2
    <3>2. CASE i = Len(cs) + 1
      <4>1. i + 1 = Len(ps) + 1
        BY <1>2, <3>2
      <4>. QED  BY <2>3, <2>4, <3>2, <4>1 DEF PollEntry
    <3>. QED  BY <1>2, <2>5, <3>1, <3>2
  <2>7. poll'[1].fd = ListenFd
    BY <1>2, <2>3
  <2>8. DOMAIN cs \subseteq DOMAIN clients'
    BY <1>2, <2>5
  <2>. QED  BY <1>2, <2>1, <2>2, <2>3, <2>4, <2>6, <2>7, <2>8 DEF Lockstep
<1>. QED  BY <1>3, <1>4
---------------------------------------------------------------------------
(* conInitServer, successful or not, sets up lists that are in step. *)
LEMMA ListInit == ASSUME ConnAssumption, Init PROVE ListInv
<1>1. PollEntry(ListenFd) \in PollEntries
  BY DEF PollEntry, PollEntries, Events
<1>2. /\ << >> \in Seq(Data) /\ << >> \in Seq(Peers)
      /\ << >> \in Seq(PollEntries) /\ << >> \in Seq(ClientRecords)
      /\ Len(<< >>) = 0
  BY EmptySeq
<1>3. /\ <<PollEntry(ListenFd)>> \in Seq(PollEntries)
      /\ Len(<<PollEntry(ListenFd)>>) = 1
      /\ <<PollEntry(ListenFd)>>[1].fd = ListenFd
  BY <1>1 DEF PollEntry
<1>4. TypeOK
  <2>1. poll \in Seq(PollEntries) /\ clients \in Seq(ClientRecords)
    BY <1>2, <1>3 DEF Init, conInitServer
  <2>2. /\ rx \in [Peers -> Seq(Data)] /\ backlog \in Seq(Peers)
        /\ net \in [Peers -> {"none", "open", "fin", "rst", "closed"}]
    BY <1>2 DEF Init
  <2>3. fdt \in [Fds -> Peers \cup {NoPeer}]
    BY DEF Init, conInitServer
  <2>4. joined \in [Peers -> Nat] /\ left \in [Peers -> Nat]
    BY DEF Init
  <2>5. pc = "poll" /\ idx = 1 /\ newfd = ListenFd
    BY DEF Init
  <2>. QED  BY <2>1, <2>2, <2>3, <2>4, <2>5 DEF TypeOK
<1>5. Lockstep
  <2>1. CASE poll = << >>
    BY <2>1 DEF Init, conInitServer, Lockstep
  <2>2. CASE poll = <<PollEntry(ListenFd)>>
    <3>1. DOMAIN clients = {}
      BY DEF Init, conInitServer
    <3>. QED  BY <2>2, <3>1, <1>2, <1>3 DEF Init, conInitServer, Lockstep
  <2>. QED  BY <2>1, <2>2 DEF Init, conInitServer
<1>6. PcOK
  BY DEF Init, PcOK
<1>. QED  BY <1>4, <1>5, <1>6 DEF ListInv

(* A step that touches neither list keeps ListInv when it keeps the types    *)
(* of the rest and the place of the loop is right.                           *)
LEMMA ListsUnchanged ==
  ASSUME ListInv, UNCHANGED <<poll, clients>>, TypeOK', PcOK'
  PROVE  ListInv'
  BY DEF ListInv, Lockstep

(* Peers and the clock touch neither a descriptor nor the order of a list. *)
LEMMA ListPeerStep == ASSUME ConnAssumption, ListInv, PeerStep PROVE ListInv'
<1>1. ASSUME NEW p \in Peers, PeerConnect(p) PROVE ListInv'
  <2>1. backlog' \in Seq(Peers)
    BY <1>1, AppendProperties DEF PeerConnect, ListInv, TypeOK
  <2>2. TypeOK'
    BY <1>1, <2>1 DEF PeerConnect, ListInv, TypeOK
  <2>. QED  BY <1>1, <2>2, ListsUnchanged DEF PeerConnect, ListInv, PcOK
<1>2. ASSUME NEW p \in Peers, NEW d \in Data, PeerSend(p, d) PROVE ListInv'
  <2>1. rx[p] \in Seq(Data)
    BY DEF ListInv, TypeOK
  <2>2. Append(rx[p], d) \in Seq(Data)
    BY <2>1, AppendProperties
  <2>3. TypeOK'
    BY <1>2, <2>2 DEF PeerSend, ListInv, TypeOK
  <2>. QED  BY <1>2, <2>3, ListsUnchanged DEF PeerSend, ListInv, PcOK
<1>3. ASSUME NEW p \in Peers, PeerClose(p) PROVE ListInv'
  <2>1. TypeOK'
    BY <1>3 DEF PeerClose, ListInv, TypeOK
  <2>. QED  BY <1>3, <2>1, ListsUnchanged DEF PeerClose, ListInv, PcOK
<1>4. ASSUME NEW p \in Peers, PeerReset(p) PROVE ListInv'
  <2>1. TypeOK'
    BY <1>4 DEF PeerReset, ListInv, TypeOK
  <2>. QED  BY <1>4, <2>1, ListsUnchanged DEF PeerReset, ListInv, PcOK
<1>5. ASSUME NEW i \in DOMAIN clients, PingDue(i) PROVE ListInv'
  <2>. DEFINE c == [clients[i] EXCEPT !.due = TRUE]
  <2>1. clients[i] \in ClientRecords
    BY ElementOfSeq, LenProperties DEF ListInv, TypeOK
  <2>2. c \in ClientRecords /\ c.fd = clients[i].fd
    BY <2>1 DEF ClientRecords
  <2>3. clients' = [clients EXCEPT ![i] = c]
    BY <1>5 DEF PingDue
  <2>4. /\ clients' \in Seq(ClientRecords) /\ Len(clients') = Len(clients)
        /\ DOMAIN clients' = DOMAIN clients
        /\ \A j \in DOMAIN clients : clients'[j].fd = clients[j].fd
    BY <2>2, <2>3, UpdateClient
  <2>5. Lockstep'
    BY <1>5, <2>4, SameFdsLockstep DEF PingDue, ListInv, TypeOK
  <2>6. TypeOK' /\ PcOK'
    BY <1>5, <2>4 DEF PingDue, ListInv, TypeOK, PcOK
  <2>. QED  BY <2>5, <2>6 DEF ListInv
<1>. QED  BY <1>1, <1>2, <1>3, <1>4, <1>5 DEF PeerStep

(* What a callback reads from its client leaves both lists alone. *)
LEMMA ListCallbackStep == ASSUME ConnAssumption, ListInv, CallbackStep PROVE ListInv'
<1>1. ASSUME NEW k \in 1 .. MaxUnread, NEW rest \in Rests, CallbackRecv(k, rest)
      PROVE  ListInv'
  <2>. DEFINE p == CallbackPeer
  <2>1. rx[p] \in Seq(Data) /\ rest \in Seq(Data)
    <3>1. p \in Peers
      BY <1>1 DEF CallbackRecv
    <3>2. rx[p] \in Seq(Data)
      BY <3>1 DEF ListInv, TypeOK
    <3>3. CASE rest = << >>
      BY <3>2, <3>3, EmptySeq
    <3>4. ASSUME NEW d \in Data, rest = <<d>> PROVE rest \in Seq(Data)
      BY <3>4
    <3>. QED  BY <3>2, <3>3, <3>4 DEF Rests
  <2>2. SubSeq(rx[p], k + 1, Len(rx[p])) \in Seq(Data)
    <3>1. \A j \in k + 1 .. Len(rx[p]) : rx[p][j] \in Data
      BY <2>1, ElementOfSeq, LenProperties
    <3>2. Len(rx[p]) \in Int /\ k + 1 \in Int
      BY <2>1, LenProperties
    <3>. QED  BY <3>1, <3>2, SubSeqProperties
  <2>3. rest \o SubSeq(rx[p], k + 1, Len(rx[p])) \in Seq(Data)
    BY <2>1, <2>2, ConcatProperties
  <2>4. TypeOK'
    BY <1>1, <2>3 DEF CallbackRecv, ListInv, TypeOK
  <2>. QED  BY <1>1, <2>4, ListsUnchanged DEF CallbackRecv, ListInv, PcOK
<1>2. ASSUME CallbackAbort PROVE ListInv'
  <2>1. TypeOK' /\ PcOK'
    BY <1>2 DEF CallbackAbort, envVars, ListInv, TypeOK, PcOK
  <2>. QED  BY <1>2, <2>1, ListsUnchanged DEF CallbackAbort
<1>. QED  BY <1>1, <1>2 DEF CallbackStep

(* The loop of conPollEvents between the calls of callbacks: indices stay    *)
(* inside the lists, which keep their length.                                *)
LEMMA ListLoopStep == ASSUME ConnAssumption, ListInv, LoopStep PROVE ListInv'
<1>. USE DEF envVars
<1>1. ASSUME Poll PROVE ListInv'
  <2>1. PICK fails \in {FALSE, ListenerMayFail} :
          poll' = [i \in DOMAIN poll |->
                     [poll[i] EXCEPT !.revents = conHasEvents(fails)[i]]]
    BY <1>1 DEF Poll
  <2>2. \A i \in DOMAIN poll : conHasEvents(fails)[i] \in Events
    BY DEF conHasEvents, Readiness, Events
  <2>3. Len(poll) \in Nat /\ DOMAIN poll = 1 .. Len(poll)
        /\ \A i \in DOMAIN poll : poll[i] \in PollEntries
    BY LenProperties, ElementOfSeq DEF ListInv, TypeOK
  <2>4. \A i \in DOMAIN poll : poll'[i] \in PollEntries /\ poll'[i].fd = poll[i].fd
    BY <2>1, <2>2, <2>3 DEF PollEntries
  <2>5. poll' \in [1 .. Len(poll) -> PollEntries]
    BY <2>1, <2>3, <2>4
  <2>6. poll' \in Seq(PollEntries) /\ Len(poll') = Len(poll)
    BY <2>3, <2>5, FunctionIsSeq
  <2>7. clients' = clients /\ clients \in Seq(ClientRecords)
    BY <1>1 DEF Poll, ListInv, TypeOK
  <2>8. Lockstep' /\ (poll # << >> => poll' # << >>)
    BY <2>4, <2>6, <2>7, SameFdsLockstep
  <2>9. pc' = "accept" => poll # << >>
    <3>1. SUFFICES ASSUME poll = << >> PROVE pc' # "accept"
      OBVIOUS
    <3>2. DOMAIN poll = {}
      BY <3>1
    <3>. QED  BY <1>1, <3>2 DEF Poll
  <2>10. pc' \in {"accept", "ping"} /\ idx' = 1
    BY <1>1 DEF Poll
  <2>11. TypeOK'
    BY <1>1, <2>6, <2>10 DEF Poll, ListInv, TypeOK
  <2>. QED  BY <2>8, <2>9, <2>10, <2>11 DEF ListInv, PcOK
<1>2. ASSUME Accept PROVE ListInv'
  <2>1. backlog # << >> /\ Head(backlog) \in Peers /\ Tail(backlog) \in Seq(Peers)
    BY <1>2, HeadTailProperties DEF Accept, CanAccept, ListInv, TypeOK
  <2>2. PICK fd \in Fds : fdt' = [fdt EXCEPT ![fd] = Head(backlog)] /\ newfd' = fd
    BY <1>2 DEF Accept, FreeFds
  <2>3. fdt'[newfd'] = Head(backlog)
    BY <2>2 DEF ListInv, TypeOK
  <2>4. TypeOK'
    BY <1>2, <2>1, <2>2 DEF Accept, ListInv, TypeOK, Callbacks
  <2>5. PcOK'
    BY <1>2, <2>1, <2>2, <2>3 DEF Accept, ListInv, PcOK
  <2>. QED  BY <1>2, <2>4, <2>5, ListsUnchanged DEF Accept
<1>3. ASSUME AcceptNothing PROVE ListInv'
  <2>1. TypeOK' /\ PcOK'
    BY <1>3 DEF AcceptNothing, ListInv, TypeOK, PcOK
  <2>. QED  BY <1>3, <2>1, ListsUnchanged DEF AcceptNothing
<1>4. ASSUME ListenerError PROVE ListInv'
  <2>1. TypeOK' /\ PcOK'
    BY <1>4 DEF ListenerError, ListInv, TypeOK, PcOK
  <2>. QED  BY <1>4, <2>1, ListsUnchanged DEF ListenerError
<1>5. ASSUME ScanDead PROVE ListInv'
  <2>. DEFINE e == [poll[idx + 1] EXCEPT !.armed = FALSE]
  <2>1. idx + 1 \in DOMAIN poll
    BY <1>5, InLoopIndex DEF ScanDead, ListInv
  <2>2. poll[idx + 1] \in PollEntries
    BY <2>1, ElementOfSeq, LenProperties DEF ListInv, TypeOK
  <2>3. e \in PollEntries /\ e.fd = poll[idx + 1].fd
    BY <2>2 DEF PollEntries
  <2>4. poll' = [poll EXCEPT ![idx + 1] = e]
    BY <1>5 DEF ScanDead, Disarm
  <2>5. /\ poll' \in Seq(PollEntries) /\ Len(poll') = Len(poll)
        /\ \A j \in DOMAIN poll : poll'[j].fd = poll[j].fd
    BY <2>3, <2>4, UpdatePoll
  <2>6. Lockstep'
    BY <1>5, <2>5, SameFdsLockstep DEF ScanDead, ListInv, TypeOK
  <2>7. TypeOK' /\ PcOK'
    BY <1>5, <2>5 DEF ScanDead, InLoop, ListInv, TypeOK, PcOK
  <2>. QED  BY <2>6, <2>7 DEF ListInv
<1>6. ASSUME ScanMessage PROVE ListInv'
  <2>. DEFINE c == [clients[idx] EXCEPT !.due = FALSE]
  <2>1. idx \in DOMAIN clients
    BY <1>6, InLoopIndex DEF ScanMessage, ListInv
  <2>2. CASE clients[idx].status = RETRY
    <3>1. UNCHANGED <<poll, clients>> /\ pc' = "onreconnect"
      BY <1>6, <2>2 DEF ScanMessage
    <3>2. TypeOK' /\ PcOK'
      BY <1>6, <2>1, <3>1 DEF ScanMessage, ListInv, TypeOK, PcOK, Callbacks
    <3>. QED  BY <3>1, <3>2, ListsUnchanged
  <2>3. CASE clients[idx].status # RETRY
    <3>1. clients[idx] \in ClientRecords
      BY <2>1, ElementOfSeq, LenProperties DEF ListInv, TypeOK
    <3>2. c \in ClientRecords /\ c.fd = clients[idx].fd
      BY <3>1 DEF ClientRecords
    <3>3. clients' = [clients EXCEPT ![idx] = c] /\ pc' = "onmessage"
      BY <1>6, <2>3 DEF ScanMessage
    <3>4. /\ clients' \in Seq(ClientRecords) /\ Len(clients') = Len(clients)
          /\ DOMAIN clients' = DOMAIN clients
          /\ \A j \in DOMAIN clients : clients'[j].fd = clients[j].fd
      BY <3>2, <3>3, UpdateClient
    <3>5. Lockstep'
      BY <1>6, <3>4, SameFdsLockstep DEF ScanMessage, ListInv, TypeOK
    <3>6. TypeOK' /\ PcOK'
      BY <1>6, <2>1, <3>3, <3>4 DEF ScanMessage, ListInv, TypeOK, PcOK, Callbacks
    <3>. QED  BY <3>5, <3>6 DEF ListInv
  <2>. QED  BY <2>2, <2>3
<1>7. ASSUME ScanAlive PROVE ListInv'
  <2>. DEFINE c == [clients[idx] EXCEPT !.due = FALSE]
  <2>1. idx \in DOMAIN clients
    BY <1>7, InLoopIndex DEF ScanAlive, ListInv
  <2>2. clients[idx] \in ClientRecords
    BY <2>1, ElementOfSeq, LenProperties DEF ListInv, TypeOK
  <2>3. c \in ClientRecords /\ c.fd = clients[idx].fd
    BY <2>2 DEF ClientRecords
  <2>4. clients' = [clients EXCEPT ![idx] = c]
    BY <1>7 DEF ScanAlive
  <2>5. /\ clients' \in Seq(ClientRecords) /\ Len(clients') = Len(clients)
        /\ \A j \in DOMAIN clients : clients'[j].fd = clients[j].fd
    BY <2>3, <2>4, UpdateClient
  <2>6. Lockstep'
    BY <1>7, <2>5, SameFdsLockstep DEF ScanAlive, ListInv, TypeOK
  <2>7. TypeOK' /\ PcOK'
    BY <1>7, <2>5 DEF ScanAlive, InLoop, ListInv, TypeOK, PcOK
  <2>. QED  BY <2>6, <2>7 DEF ListInv
<1>8. ASSUME NEW loop, NEW next \in {"poll", "sweep"}, EndLoop(loop, next)
      PROVE  ListInv'
  <2>1. TypeOK' /\ PcOK'
    BY <1>8 DEF EndLoop, ListInv, TypeOK, PcOK
  <2>. QED  BY <1>8, <2>1, ListsUnchanged DEF EndLoop
<1>9. ASSUME PingDueClient PROVE ListInv'
  <2>1. idx \in DOMAIN clients
    BY <1>9, InLoopIndex DEF PingDueClient, ListInv
  <2>2. TypeOK' /\ PcOK'
    BY <1>9, <2>1 DEF PingDueClient, ListInv, TypeOK, PcOK, Callbacks
  <2>. QED  BY <1>9, <2>2, ListsUnchanged DEF PingDueClient
<1>10. ASSUME PingSkip PROVE ListInv'
  <2>1. TypeOK' /\ PcOK'
    BY <1>10 DEF PingSkip, InLoop, ListInv, TypeOK, PcOK
  <2>. QED  BY <1>10, <2>1, ListsUnchanged DEF PingSkip
<1>11. ASSUME SweepKeep PROVE ListInv'
  <2>1. TypeOK' /\ PcOK'
    BY <1>11 DEF SweepKeep, InLoop, ListInv, TypeOK, PcOK
  <2>. QED  BY <1>11, <2>1, ListsUnchanged DEF SweepKeep
<1>12. ASSUME SweepDead PROVE ListInv'
  <2>1. idx \in DOMAIN clients
    BY <1>12, InLoopIndex DEF SweepDead, ListInv
  <2>2. TypeOK' /\ PcOK'
    BY <1>12, <2>1 DEF SweepDead, ListInv, TypeOK, PcOK, Callbacks
  <2>. QED  BY <1>12, <2>2, ListsUnchanged DEF SweepDead
<1>. QED
  BY <1>1, <1>2, <1>3, <1>4, <1>5, <1>6, <1>7, <1>8, <1>9, <1>10, <1>11, <1>12
     DEF LoopStep, ScanEnd, PingEnd, SweepEnd

(* What follows a callback: pushes on both lists at any capacity, marks for  *)
(* deletion, and the swap-remove on both lists.                              *)
LEMMA ListReturnStep == ASSUME ConnAssumption, ListInv, ReturnStep PROVE ListInv'
<1>. USE DEF envVars
<1>0. /\ poll \in Seq(PollEntries) /\ clients \in Seq(ClientRecords)
      /\ Len(poll) \in Nat /\ DOMAIN poll = 1 .. Len(poll)
      /\ Len(clients) \in Nat /\ DOMAIN clients = 1 .. Len(clients)
      /\ \A i \in DOMAIN poll : poll[i] \in PollEntries
      /\ \A i \in DOMAIN clients : clients[i] \in ClientRecords
  BY LenProperties, ElementOfSeq DEF ListInv, TypeOK
<1>1. ASSUME idx \in DOMAIN clients
      PROVE  /\ Len(poll) = Len(clients) + 1 /\ idx + 1 \in DOMAIN poll
             /\ poll[1].fd = ListenFd /\ poll # << >>
             /\ \A i \in DOMAIN clients : poll[i + 1].fd = clients[i].fd
  <2>1. clients # << >>
    BY <1>0, <1>1, EmptySeq
  <2>2. /\ Len(poll) = Len(clients) + 1 /\ poll[1].fd = ListenFd
        /\ \A i \in DOMAIN clients : poll[i + 1].fd = clients[i].fd
    BY <2>1 DEF ListInv, Lockstep
  <2>. QED  BY <1>0, <1>1, <2>2, EmptySeq
<1>2. ASSUME NEW st, IF st = KILL THEN Disarm(idx) ELSE UNCHANGED poll,
             idx \in DOMAIN clients
      PROVE  /\ poll' \in Seq(PollEntries) /\ Len(poll') = Len(poll)
             /\ \A j \in DOMAIN poll : poll'[j].fd = poll[j].fd
  <2>. DEFINE e == [poll[idx + 1] EXCEPT !.armed = FALSE]
  <2>1. CASE st = KILL
    <3>1. e \in PollEntries /\ e.fd = poll[idx + 1].fd
      BY <1>0, <1>1, <1>2 DEF PollEntries
    <3>2. poll' = [poll EXCEPT ![idx + 1] = e]
      BY <1>2, <2>1 DEF Disarm
    <3>. QED  BY <3>1, <3>2, UpdatePoll
  <2>2. CASE st # KILL
    BY <1>0, <1>2, <2>2
  <2>. QED  BY <2>1, <2>2
<1>3. ASSUME NEW st \in Results, OnConnectReturn(st) PROVE ListInv'
  <2>1. /\ newfd \in Fds /\ fdt[newfd] \in Peers /\ poll # << >>
        /\ pc' = "scan" /\ idx' = 1
    BY <1>3 DEF OnConnectReturn, ListInv, PcOK
  <2>2. CASE st = KILL
    <3>0. /\ net' \in [Peers -> {"none", "open", "fin", "rst", "closed"}]
          /\ fdt' \in [Fds -> Peers \cup {NoPeer}]
      BY <1>3, <2>1, <2>2 DEF OnConnectReturn, ListInv, TypeOK
    <3>1. TypeOK' /\ PcOK'
      BY <1>3, <2>1, <2>2, <3>0 DEF OnConnectReturn, ListInv, TypeOK, PcOK
    <3>2. UNCHANGED <<poll, clients>>
      BY <1>3, <2>2 DEF OnConnectReturn
    <3>. QED  BY <3>1, <3>2, ListsUnchanged
  <2>3. CASE st # KILL
    <3>. DEFINE c == Client(fdt[newfd], newfd, st)
    <3>1. c \in ClientRecords /\ c.fd = newfd
      BY <1>3, <2>1 DEF Client, ClientRecords, ConnAssumption
    <3>2. poll' = connPushToPoll(poll, c.fd) /\ clients' = connPushToClientPoll(clients, c)
      BY <1>3, <2>3, <3>1 DEF OnConnectReturn
    <3>3. /\ Len(poll) = Len(clients) + 1 /\ poll[1].fd = ListenFd
          /\ \A i \in DOMAIN clients : poll[i + 1].fd = clients[i].fd
      BY <2>1 DEF ListInv, Lockstep
    <3>4. /\ poll' \in Seq(PollEntries) /\ clients' \in Seq(ClientRecords)
          /\ Lockstep'
      BY <1>0, <3>1, <3>2, <3>3, PushLockstep
    <3>. HIDE DEF c
    <3>5. joined' \in [Peers -> Nat] /\ UNCHANGED <<fdt, net>>
      <4>1. /\ joined' = [joined EXCEPT ![fdt[newfd]] = joined[fdt[newfd]] + 1]
            /\ UNCHANGED <<fdt, net>>
        BY <1>3, <2>3 DEF OnConnectReturn
      <4>2. joined \in [Peers -> Nat]
        BY DEF ListInv, TypeOK
      <4>. QED  BY <2>1, <4>1, <4>2
    <3>6. UNCHANGED <<rx, backlog, newfd, left>>
      BY <1>3 DEF OnConnectReturn
    <3>7. TypeOK' /\ PcOK'
      BY <2>1, <3>4, <3>5, <3>6 DEF ListInv, TypeOK, PcOK
    <3>. QED  BY <3>4, <3>7 DEF ListInv
  <2>. QED  BY <2>2, <2>3
<1>4. ASSUME NEW st \in Results, OnReconnectReturn(st) PROVE ListInv'
  <2>. DEFINE c == [clients[idx] EXCEPT !.status = st, !.due = FALSE]
              e == [poll[idx + 1] EXCEPT !.armed = FALSE]
              k == [clients[idx] EXCEPT !.due = FALSE]
              ps == [poll EXCEPT ![idx + 1] = e]
              cs == [clients EXCEPT ![idx] = c]
  <2>1. idx \in DOMAIN clients /\ pc' = "onmessage"
    BY <1>4 DEF OnReconnectReturn, ListInv, PcOK
  <2>2. /\ c \in ClientRecords /\ c.fd = clients[idx].fd /\ c.addr \in Peers
        /\ k \in ClientRecords /\ k.fd = clients[idx].fd
        /\ e \in PollEntries /\ e.fd = poll[idx + 1].fd
    <3>1. st \in {KILL, KEEP_ALIVE, RETRY}
      BY <1>4 DEF ConnAssumption
    <3>2. clients[idx] \in ClientRecords /\ poll[idx + 1] \in PollEntries
      BY <1>0, <1>1, <2>1
    <3>3. c \in ClientRecords /\ c.fd = clients[idx].fd /\ c.addr \in Peers
      BY <3>1, <3>2 DEF ClientRecords
    <3>4. k \in ClientRecords /\ k.fd = clients[idx].fd
      BY <3>2 DEF ClientRecords
    <3>5. e \in PollEntries /\ e.fd = poll[idx + 1].fd
      BY <3>2 DEF PollEntries
    <3>. QED  BY <3>3, <3>4, <3>5
  <2>3. CASE st = KILL
    <3>1. clients' = [clients EXCEPT ![idx] = k] /\ poll' = poll
      BY <1>4, <2>3 DEF OnReconnectReturn
    <3>2. /\ clients' \in Seq(ClientRecords) /\ Len(clients') = Len(clients)
          /\ DOMAIN clients' = DOMAIN clients
          /\ \A j \in DOMAIN clients : clients'[j].fd = clients[j].fd
      BY <2>2, <3>1, UpdateClient
    <3>3. Lockstep'
      BY <1>0, <3>1, <3>2, SameFdsLockstep
    <3>4. TypeOK' /\ PcOK'
      BY <1>4, <2>1, <2>3, <3>1, <3>2
         DEF OnReconnectReturn, ListInv, TypeOK, PcOK, Callbacks
    <3>. QED  BY <3>3, <3>4 DEF ListInv
  <2>4. CASE st # KILL
    <3>1. poll' = connPushToPoll(ps, c.fd) /\ clients' = connPushToClientPoll(cs, c)
      BY <1>4, <2>4 DEF OnReconnectReturn
    <3>2. /\ ps \in Seq(PollEntries) /\ Len(ps) = Len(poll)
          /\ cs \in Seq(ClientRecords) /\ Len(cs) = Len(clients)
          /\ DOMAIN cs = DOMAIN clients
      BY <1>0, <2>2, SeqUpdate
    <3>3. /\ \A j \in DOMAIN poll : ps[j].fd = poll[j].fd
          /\ \A j \in DOMAIN clients : cs[j].fd = clients[j].fd
      BY <1>0, <2>2
    <3>4. /\ Len(ps) = Len(cs) + 1 /\ ps[1].fd = ListenFd
          /\ \A i \in DOMAIN cs : ps[i + 1].fd = cs[i].fd
      <4>1. Len(ps) = Len(cs) + 1
        BY <1>1, <2>1, <3>2
      <4>2. ps[1].fd = ListenFd
        BY <1>0, <1>1, <2>1, <3>3
      <4>3. ASSUME NEW i \in DOMAIN cs PROVE ps[i + 1].fd = cs[i].fd
        <5>1. i \in DOMAIN clients /\ i + 1 \in DOMAIN poll
          BY <1>0, <1>1, <2>1, <3>2
        <5>. QED  BY <1>1, <2>1, <3>3, <5>1
      <4>. QED  BY <4>1, <4>2, <4>3
    <3>. HIDE DEF ps, cs, c
    <3>5. /\ poll' \in Seq(PollEntries) /\ clients' \in Seq(ClientRecords)
          /\ Lockstep' /\ DOMAIN cs \subseteq DOMAIN clients'
      BY <2>2, <3>1, <3>2, <3>4, PushLockstep
    <3>6. joined' = [joined EXCEPT ![c.addr] = @ + 1]
      BY <1>4, <2>4 DEF OnReconnectReturn, c
    <3>7. joined' \in [Peers -> Nat]
      <4>1. c.addr \in Peers /\ joined \in [Peers -> Nat]
        BY <2>2 DEF ListInv, TypeOK, c
      <4> DEFINE a == c.addr
      <4> HIDE DEF a
      <4>2. a \in Peers /\ joined' = [joined EXCEPT ![a] = @ + 1]
        BY <3>6, <4>1 DEF a
      <4>. QED  BY <4>1, <4>2
    <3>8. TypeOK' /\ PcOK'
      BY <1>4, <2>1, <3>2, <3>5, <3>7
         DEF OnReconnectReturn, ListInv, TypeOK, PcOK, Callbacks
    <3>. QED  BY <3>5, <3>8 DEF ListInv
  <2>. QED  BY <2>3, <2>4
<1>5. ASSUME NEW st, OnMessageReturn(st) PROVE ListInv'
  <2>1. /\ poll' \in Seq(PollEntries) /\ Len(poll') = Len(poll)
        /\ \A j \in DOMAIN poll : poll'[j].fd = poll[j].fd
    BY <1>2, <1>5 DEF OnMessageReturn, ListInv, PcOK
  <2>2. Lockstep'
    BY <1>0, <1>5, <2>1, SameFdsLockstep DEF OnMessageReturn
  <2>3. TypeOK' /\ PcOK'
    BY <1>5, <2>1 DEF OnMessageReturn, ListInv, TypeOK, PcOK
  <2>. QED  BY <2>2, <2>3 DEF ListInv
<1>6. ASSUME NEW st \in Results, OnPingReturn(st) PROVE ListInv'
  <2>. DEFINE c == [clients[idx] EXCEPT !.status = st, !.due = FALSE]
  <2>1. idx \in DOMAIN clients
    BY <1>6 DEF OnPingReturn, ListInv, PcOK
  <2>2. /\ poll' \in Seq(PollEntries) /\ Len(poll') = Len(poll)
        /\ \A j \in DOMAIN poll : poll'[j].fd = poll[j].fd
    BY <1>2, <1>6, <2>1 DEF OnPingReturn
  <2>3. c \in ClientRecords /\ c.fd = clients[idx].fd
    BY <1>0, <2>1 DEF ClientRecords, ConnAssumption
  <2>4. clients' = [clients EXCEPT ![idx] = c]
    BY <1>6 DEF OnPingReturn
  <2>5. /\ clients' \in Seq(ClientRecords) /\ Len(clients') = Len(clients)
        /\ \A j \in DOMAIN clients : clients'[j].fd = clients[j].fd
    BY <2>3, <2>4, UpdateClient
  <2>6. Lockstep'
    BY <2>2, <2>5, SameFdsLockstep
  <2>7. TypeOK' /\ PcOK'
    BY <1>6, <2>2, <2>5 DEF OnPingReturn, ListInv, TypeOK, PcOK
  <2>. QED  BY <2>6, <2>7 DEF ListInv
<1>7. ASSUME OnDisconnectReturn PROVE ListInv'
  <2>1. idx \in DOMAIN clients /\ idx + 1 \in 1 .. Len(poll) /\ idx \in 1 .. Len(clients)
    BY <1>0, <1>1, <1>7 DEF OnDisconnectReturn, ListInv, PcOK
  <2>2. poll' = SwapRemove(poll, idx + 1) /\ clients' = SwapRemove(clients, idx)
    BY <1>7 DEF OnDisconnectReturn
  <2>3. /\ poll' \in Seq(PollEntries) /\ Len(poll') = Len(poll) - 1
        /\ \A j \in 1 .. Len(poll) - 1 :
             poll'[j] = IF j = idx + 1 THEN poll[Len(poll)] ELSE poll[j]
    <3>1. poll \in Seq(PollEntries) /\ idx + 1 \in 1 .. Len(poll)
      BY <1>0, <2>1
    <3>2. /\ SwapRemove(poll, idx + 1) \in Seq(PollEntries)
          /\ Len(SwapRemove(poll, idx + 1)) = Len(poll) - 1
          /\ \A j \in 1 .. Len(poll) - 1 :
               SwapRemove(poll, idx + 1)[j] = IF j = idx + 1 THEN poll[Len(poll)] ELSE poll[j]
      BY <3>1, SwapRemoveProperties
    <3>. QED  BY <2>2, <3>2
  <2>4. /\ clients' \in Seq(ClientRecords) /\ Len(clients') = Len(clients) - 1
        /\ DOMAIN clients' = 1 .. Len(clients) - 1
        /\ \A j \in 1 .. Len(clients) - 1 :
             clients'[j] = IF j = idx THEN clients[Len(clients)] ELSE clients[j]
    <3>1. clients \in Seq(ClientRecords) /\ idx \in 1 .. Len(clients)
      BY <1>0, <2>1
    <3>2. /\ SwapRemove(clients, idx) \in Seq(ClientRecords)
          /\ Len(SwapRemove(clients, idx)) = Len(clients) - 1
          /\ DOMAIN SwapRemove(clients, idx) = 1 .. Len(clients) - 1
          /\ \A j \in 1 .. Len(clients) - 1 :
               SwapRemove(clients, idx)[j] = IF j = idx THEN clients[Len(clients)] ELSE clients[j]
      BY <3>1, SwapRemoveProperties
    <3>. QED  BY <2>2, <3>2
  <2>5. Len(poll') = Len(clients') + 1 /\ poll'[1].fd = ListenFd
    <3>1. Len(poll) = Len(clients) + 1 /\ poll[1].fd = ListenFd
      BY <1>1, <2>1
    <3>2. 1 \in 1 .. Len(poll) - 1 /\ 1 # idx + 1
      BY <1>0, <2>1, <3>1
    <3>3. poll'[1] = poll[1]
      BY <2>3, <3>2
    <3>. QED  BY <1>0, <2>3, <2>4, <3>1, <3>3
  <2>6. ASSUME NEW i \in DOMAIN clients' PROVE poll'[i + 1].fd = clients'[i].fd
    <3>1. /\ i \in 1 .. Len(clients) - 1 /\ i \in DOMAIN clients
          /\ i + 1 \in 1 .. Len(poll) - 1 /\ Len(clients) \in DOMAIN clients
      BY <1>0, <1>1, <2>1, <2>4
    <3>2. CASE i = idx
      <4>1. poll'[i + 1] = poll[Len(poll)] /\ clients'[i] = clients[Len(clients)]
        BY <2>3, <2>4, <3>1, <3>2
      <4>2. Len(poll) = Len(clients) + 1 /\ poll[Len(clients) + 1].fd = clients[Len(clients)].fd
        BY <1>1, <2>1, <3>1
      <4>. QED  BY <4>1, <4>2
    <3>3. CASE i # idx
      <4>1. i + 1 # idx + 1
        BY <1>0, <2>1, <3>1, <3>3
      <4>. QED  BY <1>1, <2>1, <2>3, <2>4, <3>1, <3>3, <4>1
    <3>. QED  BY <3>2, <3>3
  <2>7. Lockstep'
    BY <2>5, <2>6 DEF Lockstep
  <2>8. clients[idx].addr \in Peers /\ poll[idx + 1].fd = clients[idx].fd
        /\ clients[idx].fd \in Fds
    BY <1>0, <1>1, <2>1 DEF ClientRecords
  <2>9. net' \in [Peers -> {"none", "open", "fin", "rst", "closed"}]
    BY <1>7, <2>8 DEF OnDisconnectReturn, ListInv, TypeOK
  <2>10. left' \in [Peers -> Nat] /\ fdt' \in [Fds -> Peers \cup {NoPeer}]
    <3>1. /\ left' = [left EXCEPT ![clients[idx].addr] = @ + 1]
          /\ fdt' = [fdt EXCEPT ![clients[idx].fd] = NoPeer]
      BY <1>7, <2>8 DEF OnDisconnectReturn
    <3>2. left \in [Peers -> Nat] /\ fdt \in [Fds -> Peers \cup {NoPeer}]
      BY DEF ListInv, TypeOK
    <3>3. left' \in [Peers -> Nat]
      BY <2>8, <3>1, <3>2
    <3>. QED  BY <2>8, <3>1, <3>2, <3>3
  <2>11. TypeOK' /\ PcOK'
    BY <1>7, <2>3, <2>4, <2>9, <2>10 DEF OnDisconnectReturn, ListInv, TypeOK, PcOK
  <2>. QED  BY <2>7, <2>11 DEF ListInv
<1>. QED  BY <1>3, <1>4, <1>5, <1>6, <1>7 DEF ReturnStep

(* The lists are well typed and in step whatever the callbacks return, RETRY *)
(* included: capacity, pushes and swap-removes never set them apart.         *)
THEOREM ListsInStep == ASSUME ConnAssumption PROVE Spec => []ListInv
<1>1. Init => ListInv
  BY ListInit
<1>2. ListInv /\ [Next]_vars => ListInv'
  <2>1. ASSUME ListInv, UNCHANGED vars PROVE ListInv'
    BY <2>1, ListsUnchanged DEF vars, ListInv, TypeOK, PcOK
  <2>. QED
    BY <2>1, ListPeerStep, ListLoopStep, ListReturnStep, ListCallbackStep DEF Next
<1>. QED  BY <1>1, <1>2, PTL DEF Spec

(* Every record of the two lists is well formed, whatever peers, callbacks   *)
(* and the capacity do to them.                                              *)
THEOREM TypeCorrect == ASSUME ConnAssumption PROVE Spec => []TypeOK
<1>1. ListInv => TypeOK
  BY DEF ListInv
<1>. QED  BY <1>1, ListsInStep, PTL

(* Entry k of the poll list and entry k-1 of the client list are one         *)
(* connection, always: what every index in conn.c relies on.                 *)
THEOREM LockstepHolds == ASSUME ConnAssumption PROVE Spec => []Lockstep
<1>1. ListInv => Lockstep
  BY DEF ListInv
<1>. QED  BY <1>1, ListsInStep, PTL
---------------------------------------------------------------------------
(* The loop invariant of the sweep: everything before its index is kept, and *)
(* when it ends everything is.                                               *)
SweepInv ==
  /\ pc \in {"sweep", "ondisconnect"} =>
       \A i \in DOMAIN clients : i < idx => ~Condemned(i)
  /\ SweepComplete

(* Every step keeps the part of the lists the sweep has passed free of       *)
(* condemned entries, the element moved into a hole included.                *)
LEMMA SweepStep ==
  ASSUME ConnAssumption, ListInv, SweepInv, [Next]_vars PROVE SweepInv'
<1>. USE DEF envVars
<1>0. /\ poll \in Seq(PollEntries) /\ clients \in Seq(ClientRecords)
      /\ Len(poll) \in Nat /\ DOMAIN poll = 1 .. Len(poll)
      /\ Len(clients) \in Nat /\ DOMAIN clients = 1 .. Len(clients)
      /\ idx \in Nat
  BY LenProperties DEF ListInv, TypeOK
<1>1. ASSUME UNCHANGED <<poll, clients, pc, idx>> PROVE SweepInv'
  BY <1>1 DEF SweepInv, SweepComplete, Condemned
<1>2. ASSUME pc' \notin {"poll", "sweep", "ondisconnect"} PROVE SweepInv'
  BY <1>2 DEF SweepInv, SweepComplete
<1>3. ASSUME NEW i \in DOMAIN clients, PingDue(i) PROVE SweepInv'
  <2>1. /\ DOMAIN clients' = DOMAIN clients /\ UNCHANGED <<poll, pc, idx>>
        /\ \A j \in DOMAIN clients : clients'[j].status = clients[j].status
    <3>1. clients[i] \in ClientRecords
      BY <1>0, ElementOfSeq
    <3>. QED  BY <1>0, <1>3, <3>1 DEF PingDue, ClientRecords
  <2>. QED  BY <2>1 DEF SweepInv, SweepComplete, Condemned
<1>4. ASSUME ScanEnd \/ PingEnd PROVE SweepInv'
  <2>1. pc' = "sweep" /\ idx' = 1 /\ clients' = clients
    BY <1>4 DEF ScanEnd, PingEnd, EndLoop
  <2>. QED  BY <1>0, <2>1 DEF SweepInv, SweepComplete
<1>5. ASSUME SweepKeep PROVE SweepInv'
  <2>1. pc = "sweep" /\ pc' = "sweep" /\ idx' = idx + 1 /\ ~Condemned(idx)
        /\ UNCHANGED <<poll, clients>>
    BY <1>5 DEF SweepKeep, InLoop
  <2>2. \A i \in DOMAIN clients : i < idx + 1 => i < idx \/ i = idx
    BY <1>0
  <2>3. \A i \in DOMAIN clients : i < idx + 1 => ~Condemned(i)
    BY <2>1, <2>2 DEF SweepInv
  <2>. QED  BY <2>1, <2>3 DEF SweepInv, SweepComplete, Condemned
<1>6. ASSUME SweepDead PROVE SweepInv'
  BY <1>6 DEF SweepDead, InLoop, SweepInv, SweepComplete, Condemned
<1>7. ASSUME SweepEnd PROVE SweepInv'
  <2>1. pc = "sweep" /\ pc' = "poll" /\ idx >= Len(poll) /\ UNCHANGED <<poll, clients>>
    BY <1>7 DEF SweepEnd, EndLoop
  <2>2. \A i \in DOMAIN clients : i < idx
    <3>1. CASE poll = << >> /\ clients = << >>
      BY <3>1
    <3>2. CASE Len(poll) = Len(clients) + 1
      BY <1>0, <2>1, <3>2
    <3>. QED  BY <3>1, <3>2 DEF ListInv, Lockstep
  <2>. QED  BY <2>1, <2>2 DEF SweepInv, SweepComplete, Condemned
<1>8. ASSUME OnDisconnectReturn PROVE SweepInv'
  <2>1. /\ pc = "ondisconnect" /\ pc' = "sweep" /\ idx' = idx
        /\ poll' = SwapRemove(poll, idx + 1) /\ clients' = SwapRemove(clients, idx)
    BY <1>8 DEF OnDisconnectReturn
  <2>2. /\ idx \in 1 .. Len(clients) /\ idx + 1 \in 1 .. Len(poll)
        /\ Len(poll) = Len(clients) + 1
    <3>1. idx \in DOMAIN clients /\ clients # << >>
      BY <1>0, <2>1, EmptySeq DEF ListInv, PcOK
    <3>2. Len(poll) = Len(clients) + 1
      BY <3>1 DEF ListInv, Lockstep
    <3>. QED  BY <1>0, <3>1, <3>2
  <2>3. /\ DOMAIN clients' = 1 .. Len(clients) - 1
        /\ \A j \in 1 .. Len(clients) - 1 :
             clients'[j] = IF j = idx THEN clients[Len(clients)] ELSE clients[j]
    <3>1. clients \in Seq(ClientRecords) /\ idx \in 1 .. Len(clients)
      BY <1>0, <2>2
    <3>2. /\ DOMAIN SwapRemove(clients, idx) = 1 .. Len(clients) - 1
          /\ \A j \in 1 .. Len(clients) - 1 :
               SwapRemove(clients, idx)[j] = IF j = idx THEN clients[Len(clients)] ELSE clients[j]
      BY <3>1, SwapRemoveProperties
    <3>. QED  BY <2>1, <3>2
  <2>4. \A j \in 1 .. Len(poll) - 1 :
          poll'[j] = IF j = idx + 1 THEN poll[Len(poll)] ELSE poll[j]
    <3>1. poll \in Seq(PollEntries) /\ idx + 1 \in 1 .. Len(poll)
      BY <1>0, <2>2
    <3>2. \A j \in 1 .. Len(poll) - 1 :
            SwapRemove(poll, idx + 1)[j] = IF j = idx + 1 THEN poll[Len(poll)] ELSE poll[j]
      BY <3>1, SwapRemoveProperties
    <3>. QED  BY <2>1, <3>2
  <2>5. ASSUME NEW i \in DOMAIN clients', i < idx' PROVE ~Condemned(i)'
    <3>1. /\ i \in DOMAIN clients /\ i < idx /\ i # idx
          /\ i + 1 # idx + 1 /\ i + 1 \in 1 .. Len(poll) - 1
      BY <1>0, <2>1, <2>2, <2>3, <2>5
    <3>2. clients'[i] = clients[i] /\ poll'[i + 1] = poll[i + 1]
      BY <2>3, <2>4, <2>5, <3>1
    <3>3. ~Condemned(i)
      BY <2>1, <3>1 DEF SweepInv
    <3>. QED  BY <3>2, <3>3 DEF Condemned
  <2>. QED  BY <2>1, <2>5 DEF SweepInv, SweepComplete
<1>9. ASSUME PeerStep PROVE SweepInv'
  <2>1. ASSUME NEW p \in Peers,
               \/ PeerConnect(p) \/ PeerClose(p) \/ PeerReset(p)
               \/ \E d \in Data : PeerSend(p, d)
        PROVE  SweepInv'
    BY <1>1, <2>1 DEF PeerConnect, PeerClose, PeerReset, PeerSend
  <2>. QED  BY <1>3, <1>9, <2>1 DEF PeerStep
<1>10. ASSUME LoopStep PROVE SweepInv'
  <2>1. CASE Poll \/ Accept \/ AcceptNothing \/ ListenerError
    BY <1>2, <2>1 DEF Poll, Accept, AcceptNothing, ListenerError
  <2>2. CASE ScanDead \/ ScanMessage \/ ScanAlive \/ PingDueClient \/ PingSkip
    BY <1>2, <2>2 DEF ScanDead, ScanMessage, ScanAlive, PingDueClient, PingSkip, InLoop
  <2>. QED
    BY <1>4, <1>5, <1>6, <1>7, <1>10, <2>1, <2>2 DEF LoopStep
<1>11. ASSUME ReturnStep PROVE SweepInv'
  <2>1. ASSUME NEW st, OnConnectReturn(st) \/ OnReconnectReturn(st)
                       \/ OnPingReturn(st) \/ OnMessageReturn(st)
        PROVE  SweepInv'
    BY <1>2, <2>1
       DEF OnConnectReturn, OnReconnectReturn, OnPingReturn, OnMessageReturn
  <2>. QED  BY <1>8, <1>11, <2>1 DEF ReturnStep
<1>12. ASSUME CallbackStep PROVE SweepInv'
  <2>1. ASSUME NEW k, NEW rest, CallbackRecv(k, rest) PROVE SweepInv'
    BY <1>1, <2>1 DEF CallbackRecv
  <2>2. ASSUME CallbackAbort PROVE SweepInv'
    BY <1>2, <2>2 DEF CallbackAbort
  <2>. QED  BY <1>12, <2>1, <2>2 DEF CallbackStep
<1>13. ASSUME UNCHANGED vars PROVE SweepInv'
  BY <1>1, <1>13 DEF vars
<1>. QED  BY <1>9, <1>10, <1>11, <1>12, <1>13 DEF Next

(* Nothing marked for deletion survives a tick: the sweep looks again at the *)
(* index it filled with the last element.                                    *)
THEOREM SweepLeavesNothing == ASSUME ConnAssumption PROVE Spec => []SweepComplete
<1>1. Init => SweepInv
  <2>1. ASSUME Init PROVE DOMAIN clients = {} /\ pc = "poll"
    BY <2>1 DEF Init, conInitServer
  <2>. QED  BY <2>1 DEF SweepInv, SweepComplete
<1>2. ListInv /\ SweepInv /\ [Next]_vars => SweepInv'
  BY SweepStep
<1>3. SweepInv => SweepComplete
  BY DEF SweepInv
<1>. QED  BY <1>1, <1>2, <1>3, ListsInStep, PTL DEF Spec
---------------------------------------------------------------------------
(* Without RETRY no record is ever pushed twice, and then every record keeps *)
(* an open descriptor of its own.                                            *)
FdInv ==
  /\ NoStaleClient
  /\ pc = "onconnect" => \A i \in DOMAIN clients : clients[i].fd # newfd
  /\ pc # "onreconnect"
  /\ \A i \in DOMAIN clients : clients[i].status # RETRY

(* Steps that keep the table and rewrite no descriptor or peer of a record.  *)
LEMMA SameRecords ==
  ASSUME FdInv, UNCHANGED fdt, DOMAIN clients' = DOMAIN clients,
         \A i \in DOMAIN clients :
           /\ clients'[i].fd = clients[i].fd /\ clients'[i].addr = clients[i].addr
           /\ clients'[i].status # RETRY,
         pc' # "onreconnect", pc' = "onconnect" => pc = "onconnect" /\ UNCHANGED newfd
  PROVE  FdInv'
  BY DEF FdInv, NoStaleClient

(* Without CONN_RETRY every step keeps descriptors and records in one-to-one *)
(* correspondence, the descriptor of a connection being taken on apart.      *)
LEMMA FdStep ==
  ASSUME ConnAssumption, RETRY \notin Results, ListInv, FdInv, [Next]_vars
  PROVE  FdInv'
<1>. USE DEF envVars
<1>0. /\ clients \in Seq(ClientRecords) /\ Len(clients) \in Nat
      /\ DOMAIN clients = 1 .. Len(clients)
      /\ \A i \in DOMAIN clients : clients[i] \in ClientRecords
      /\ fdt \in [Fds -> Peers \cup {NoPeer}]
  BY LenProperties, ElementOfSeq DEF ListInv, TypeOK
<1>1. \A i \in DOMAIN clients : clients[i].fd \in Fds /\ fdt[clients[i].fd] \in Peers
  BY <1>0 DEF ClientRecords, FdInv, NoStaleClient
<1>2. ASSUME UNCHANGED <<fdt, clients>>, pc' \notin {"onconnect", "onreconnect"}
      PROVE  FdInv'
  BY <1>2, SameRecords DEF FdInv
<1>3. ASSUME UNCHANGED <<fdt, clients, pc, newfd>> PROVE FdInv'
  BY <1>3, SameRecords DEF FdInv
<1>4. ASSUME NEW i, NEW v, clients' = [clients EXCEPT ![i].due = v], UNCHANGED fdt,
             pc' # "onreconnect", pc' = "onconnect" => pc = "onconnect" /\ UNCHANGED newfd
      PROVE  FdInv'
  <2>1. DOMAIN clients' = DOMAIN clients
    BY <1>4
  <2>2. \A j \in DOMAIN clients :
          /\ clients'[j].fd = clients[j].fd /\ clients'[j].addr = clients[j].addr
          /\ clients'[j].status = clients[j].status
    BY <1>0, <1>4 DEF ClientRecords
  <2>. QED  BY <1>4, <2>1, <2>2, SameRecords DEF FdInv
<1>5. ASSUME Accept PROVE FdInv'
  <2>1. PICK fd \in Fds : /\ fdt[fd] = NoPeer /\ newfd' = fd
                          /\ fdt' = [fdt EXCEPT ![fd] = Head(backlog)]
    BY <1>5 DEF Accept, FreeFds
  <2>2. \A i \in DOMAIN clients : clients[i].fd # fd
    BY <1>1, <2>1 DEF ConnAssumption
  <2>3. \A i \in DOMAIN clients : fdt'[clients[i].fd] = fdt[clients[i].fd]
    BY <1>0, <1>1, <2>1, <2>2
  <2>4. clients' = clients /\ pc' = "onconnect"
    BY <1>5 DEF Accept
  <2>. QED  BY <2>1, <2>2, <2>3, <2>4 DEF FdInv, NoStaleClient
<1>6. ASSUME NEW st \in Results, OnConnectReturn(st) PROVE FdInv'
  <2>1. /\ newfd \in Fds /\ fdt[newfd] \in Peers /\ pc' = "scan"
        /\ \A i \in DOMAIN clients : clients[i].fd # newfd
    BY <1>6 DEF OnConnectReturn, ListInv, PcOK, FdInv
  <2>2. CASE st = KILL
    <3>1. fdt' = [fdt EXCEPT ![newfd] = NoPeer] /\ clients' = clients
      BY <1>6, <2>2 DEF OnConnectReturn
    <3>2. \A i \in DOMAIN clients : fdt'[clients[i].fd] = fdt[clients[i].fd]
      BY <1>0, <1>1, <2>1, <3>1
    <3>. QED  BY <2>1, <3>1, <3>2 DEF FdInv, NoStaleClient
  <2>3. CASE st # KILL
    <3>. DEFINE c == Client(fdt[newfd], newfd, st)
    <3>1. /\ c \in ClientRecords /\ c.fd = newfd /\ c.addr = fdt[newfd]
          /\ c.status # RETRY
      BY <1>6, <2>1 DEF Client, ClientRecords, ConnAssumption
    <3>2. clients' = connPushToClientPoll(clients, c) /\ fdt' = fdt
      BY <1>6, <2>3 DEF OnConnectReturn
    <3>. HIDE DEF c
    <3>3. CASE clients' = clients
      BY <1>2, <2>1, <3>2, <3>3
    <3>4. CASE clients' = Append(clients, c)
      <4>1. /\ DOMAIN clients' = 1 .. Len(clients) + 1
            /\ \A j \in 1 .. Len(clients) : clients'[j] = clients[j]
            /\ clients'[Len(clients) + 1] = c
        BY <1>0, <3>1, <3>4, AppendProperties, LenProperties
      <4>2. \A j \in DOMAIN clients' : \/ j \in DOMAIN clients /\ clients'[j] = clients[j]
                                       \/ j = Len(clients) + 1 /\ clients'[j] = c
        BY <1>0, <4>1
      <4>3. \A j \in DOMAIN clients' :
              fdt'[clients'[j].fd] = clients'[j].addr /\ clients'[j].status # RETRY
        BY <3>1, <3>2, <4>2 DEF FdInv, NoStaleClient
      <4>4. ASSUME NEW i \in DOMAIN clients', NEW j \in DOMAIN clients',
                   clients'[i].fd = clients'[j].fd
            PROVE  i = j
        BY <2>1, <3>1, <4>2, <4>4 DEF FdInv, NoStaleClient
      <4>. QED  BY <2>1, <4>3, <4>4 DEF FdInv, NoStaleClient
    <3>. QED  BY <3>2, <3>3, <3>4 DEF connPushToClientPoll
  <2>. QED  BY <2>2, <2>3
<1>7. ASSUME NEW st \in Results, OnPingReturn(st) PROVE FdInv'
  <2>1. DOMAIN clients' = DOMAIN clients
    BY <1>7 DEF OnPingReturn
  <2>2. \A j \in DOMAIN clients :
          /\ clients'[j].fd = clients[j].fd /\ clients'[j].addr = clients[j].addr
          /\ clients'[j].status # RETRY
    BY <1>0, <1>7 DEF OnPingReturn, ClientRecords, FdInv
  <2>. QED  BY <1>7, <2>1, <2>2, SameRecords DEF OnPingReturn
<1>8. ASSUME OnDisconnectReturn PROVE FdInv'
  <2>1. idx \in 1 .. Len(clients) /\ clients # << >> /\ pc' = "sweep"
    BY <1>0, <1>8, EmptySeq DEF OnDisconnectReturn, ListInv, PcOK
  <2>2. poll[idx + 1].fd = clients[idx].fd
    BY <1>0, <2>1 DEF ListInv, Lockstep
  <2>3. /\ fdt' = [fdt EXCEPT ![clients[idx].fd] = NoPeer]
        /\ clients' = SwapRemove(clients, idx)
    BY <1>8, <2>2 DEF OnDisconnectReturn
  <2>4. /\ DOMAIN clients' = 1 .. Len(clients) - 1
        /\ \A j \in 1 .. Len(clients) - 1 :
             clients'[j] = IF j = idx THEN clients[Len(clients)] ELSE clients[j]
    <3>1. clients \in Seq(ClientRecords) /\ idx \in 1 .. Len(clients)
      BY <1>0, <2>1
    <3>2. /\ DOMAIN SwapRemove(clients, idx) = 1 .. Len(clients) - 1
          /\ \A j \in 1 .. Len(clients) - 1 :
               SwapRemove(clients, idx)[j] = IF j = idx THEN clients[Len(clients)] ELSE clients[j]
      BY <3>1, SwapRemoveProperties
    <3>. QED  BY <2>3, <3>2
  <2>. DEFINE old(j) == IF j = idx THEN Len(clients) ELSE j
  <2>5. \A j \in DOMAIN clients' :
          /\ old(j) \in DOMAIN clients /\ old(j) # idx /\ clients'[j] = clients[old(j)]
    <3>. TAKE j \in DOMAIN clients'
    <3>1. j \in 1 .. Len(clients) - 1
      BY <2>4
    <3>2. CASE j = idx
      <4>1. Len(clients) \in DOMAIN clients /\ Len(clients) # idx
        BY <1>0, <2>1, <3>1, <3>2
      <4>. QED  BY <2>4, <3>1, <3>2, <4>1
    <3>3. CASE j # idx
      <4>1. j \in DOMAIN clients
        BY <1>0, <3>1
      <4>. QED  BY <2>4, <3>1, <3>3, <4>1
    <3>. QED  BY <3>2, <3>3
  <2>6. \A i, j \in DOMAIN clients' : old(i) = old(j) => i = j
    BY <1>0, <2>1, <2>4
  <2>. HIDE DEF old
  <2>7. \A j \in DOMAIN clients' : clients'[j].fd # clients[idx].fd
    BY <1>0, <2>1, <2>5 DEF FdInv, NoStaleClient
  <2>8. \A j \in DOMAIN clients' :
          fdt'[clients'[j].fd] = clients'[j].addr /\ clients'[j].status # RETRY
    BY <1>0, <1>1, <2>3, <2>5, <2>7 DEF FdInv, NoStaleClient
  <2>9. \A i, j \in DOMAIN clients' : clients'[i].fd = clients'[j].fd => i = j
    BY <2>5, <2>6 DEF FdInv, NoStaleClient
  <2>. QED  BY <2>1, <2>8, <2>9 DEF FdInv, NoStaleClient
<1>9. ASSUME PeerStep PROVE FdInv'
  <2>1. ASSUME NEW p \in Peers,
               \/ PeerConnect(p) \/ PeerClose(p) \/ PeerReset(p)
               \/ \E d \in Data : PeerSend(p, d)
        PROVE  FdInv'
    BY <1>3, <2>1 DEF PeerConnect, PeerClose, PeerReset, PeerSend
  <2>2. ASSUME NEW i \in DOMAIN clients, PingDue(i) PROVE FdInv'
    BY <1>4, <2>2 DEF PingDue, FdInv
  <2>. QED  BY <1>9, <2>1, <2>2 DEF PeerStep
<1>10. ASSUME LoopStep PROVE FdInv'
  <2>1. CASE Poll \/ AcceptNothing \/ ListenerError \/ ScanDead \/ ScanEnd
    BY <1>2, <2>1 DEF Poll, AcceptNothing, ListenerError, ScanDead, ScanEnd, EndLoop, InLoop
  <2>2. CASE PingDueClient \/ PingSkip \/ PingEnd \/ SweepKeep \/ SweepDead \/ SweepEnd
    BY <1>2, <2>2
       DEF PingDueClient, PingSkip, PingEnd, SweepKeep, SweepDead, SweepEnd, EndLoop, InLoop
  <2>3. CASE ScanMessage
    <3>1. clients[idx].status # RETRY
      BY <2>3, InLoopIndex DEF ScanMessage, ListInv, FdInv
    <3>2. /\ clients' = [clients EXCEPT ![idx].due = FALSE] /\ UNCHANGED fdt
          /\ pc' = "onmessage"
      BY <2>3, <3>1 DEF ScanMessage
    <3>. QED  BY <1>4, <3>2
  <2>4. CASE ScanAlive
    BY <1>4, <2>4 DEF ScanAlive, InLoop
  <2>. QED  BY <1>5, <1>10, <2>1, <2>2, <2>3, <2>4 DEF LoopStep
<1>11. ASSUME ReturnStep PROVE FdInv'
  <2>1. ASSUME NEW st, OnMessageReturn(st) PROVE FdInv'
    BY <1>2, <2>1 DEF OnMessageReturn
  <2>2. \A st : ~OnReconnectReturn(st)
    BY DEF OnReconnectReturn, FdInv
  <2>. QED  BY <1>6, <1>7, <1>8, <1>11, <2>1, <2>2 DEF ReturnStep
<1>12. ASSUME CallbackStep PROVE FdInv'
  <2>1. ASSUME NEW k, NEW rest, CallbackRecv(k, rest) PROVE FdInv'
    BY <1>3, <2>1 DEF CallbackRecv
  <2>2. ASSUME CallbackAbort PROVE FdInv'
    BY <1>2, <2>2 DEF CallbackAbort
  <2>. QED  BY <1>12, <2>1, <2>2 DEF CallbackStep
<1>13. ASSUME UNCHANGED vars PROVE FdInv'
  BY <1>3, <1>13 DEF vars
<1>. QED  BY <1>9, <1>10, <1>11, <1>12, <1>13 DEF Next

(* When the callbacks never return RETRY, as those of the WebSocket server,  *)
(* no client record outlives its descriptor and no descriptor has two.       *)
THEOREM ClientsNeverStale ==
  ASSUME ConnAssumption, RETRY \notin Results PROVE Spec => []NoStaleClient
<1>1. Init => FdInv
  <2>1. ASSUME Init PROVE DOMAIN clients = {} /\ pc = "poll"
    BY <2>1 DEF Init, conInitServer
  <2>. QED  BY <2>1 DEF FdInv, NoStaleClient
<1>2. ListInv /\ FdInv /\ [Next]_vars => FdInv'
  BY FdStep
<1>3. FdInv => NoStaleClient
  BY DEF FdInv
<1>. QED  BY <1>1, <1>2, <1>3, ListsInStep, PTL DEF Spec
---------------------------------------------------------------------------
(* Where a connection is: in the backlog, behind one descriptor, or over.    *)
(* Its callbacks are counted against that.                                   *)
PairInv ==
  /\ PairedCallbacks
  /\ \A p \in Peers : net[p] = "none" => joined[p] = 0 /\ left[p] = 0
  /\ \A k \in DOMAIN backlog :
       /\ net[backlog[k]] \notin {"none", "closed"}
       /\ joined[backlog[k]] = 0 /\ left[backlog[k]] = 0
  /\ \A j, k \in DOMAIN backlog : backlog[j] = backlog[k] => j = k
  /\ \A a \in Fds : fdt[a] # NoPeer =>
       /\ net[fdt[a]] \notin {"none", "closed"}
       /\ \A k \in DOMAIN backlog : backlog[k] # fdt[a]
  /\ \A a, b \in Fds : fdt[a] = fdt[b] /\ fdt[a] # NoPeer => a = b
  /\ pc = "onconnect" => joined[fdt[newfd]] = 0 /\ left[fdt[newfd]] = 0
  /\ Len(clients) <= MaxConnections - 1

(* What LostOnlyAtCapacity says of a step. *)
LostStep ==
  \A p \in Peers : Untracked(p)' /\ ~Untracked(p) =>
    pc = "onconnect" /\ Len(clients) = MaxConnections - 1

(* Steps that leave the records' peers and the counters alone, and of the    *)
(* network change at most how a connection that is up looks.                 *)
LEMMA SameParties ==
  ASSUME PairInv, UNCHANGED <<backlog, fdt, joined, left>>,
         \A p \in Peers : \/ net'[p] = net[p]
                          \/ net[p] \notin {"none", "closed"} /\ net'[p] \notin {"none", "closed"},
         DOMAIN clients' = DOMAIN clients, Len(clients') = Len(clients),
         \A i \in DOMAIN clients : clients'[i].addr = clients[i].addr,
         \A k \in DOMAIN backlog : backlog[k] \in Peers,
         \A a \in Fds : fdt[a] # NoPeer => fdt[a] \in Peers,
         pc' = "onconnect" => pc = "onconnect" /\ UNCHANGED newfd
  PROVE  PairInv' /\ LostStep
<1>1. \A p \in Peers : Registered(p)' <=> Registered(p)
  BY DEF Registered
<1>2. PairedCallbacks'
  BY <1>1 DEF PairInv, PairedCallbacks
<1>3. LostStep
  BY <1>1 DEF LostStep, Untracked
<1>4. \A p \in Peers : net'[p] \in {"none", "closed"} => net'[p] = net[p]
  OBVIOUS
<1>. QED  BY <1>2, <1>3, <1>4 DEF PairInv

(* A new connection is nobody's yet. *)
LEMMA ConnectPairs ==
  ASSUME ConnAssumption, ListInv, PairInv, NEW p \in Peers, PeerConnect(p)
  PROVE  PairInv' /\ LostStep
<1>1. /\ net[p] = "none" /\ net' = [net EXCEPT ![p] = "open"] /\ backlog' = Append(backlog, p)
      /\ UNCHANGED <<fdt, clients, pc, newfd, joined, left>>
  BY DEF PeerConnect
<1>2. /\ backlog \in Seq(Peers) /\ Len(backlog) \in Nat /\ DOMAIN backlog = 1 .. Len(backlog)
      /\ \A k \in DOMAIN backlog : backlog[k] \in Peers
      /\ DOMAIN net = Peers /\ \A a \in Fds : fdt[a] # NoPeer => fdt[a] \in Peers
  BY LenProperties, ElementOfSeq DEF ListInv, TypeOK
<1>3. /\ DOMAIN backlog' = 1 .. Len(backlog) + 1
      /\ \A k \in 1 .. Len(backlog) : backlog'[k] = backlog[k]
      /\ backlog'[Len(backlog) + 1] = p
  BY <1>1, <1>2, AppendProperties, LenProperties
<1>4. \A k \in DOMAIN backlog' : \/ k \in DOMAIN backlog /\ backlog'[k] = backlog[k]
                                 \/ k = Len(backlog) + 1 /\ backlog'[k] = p
  BY <1>2, <1>3
<1>5. /\ \A k \in DOMAIN backlog : backlog[k] # p
      /\ \A a \in Fds : fdt[a] # p
  BY <1>1, <1>2 DEF PairInv, ConnAssumption
<1>6. net'[p] = "open" /\ \A q \in Peers : q # p => net'[q] = net[q]
  BY <1>1, <1>2
<1>7. \A q \in Peers : Registered(q)' <=> Registered(q)
  BY <1>1 DEF Registered
<1>8. PairedCallbacks'
  BY <1>1, <1>6, <1>7 DEF PairInv, PairedCallbacks
<1>9. LostStep
  BY <1>1, <1>7 DEF LostStep, Untracked
<1>10. \A k \in DOMAIN backlog' :
         /\ net'[backlog'[k]] \notin {"none", "closed"}
         /\ joined'[backlog'[k]] = 0 /\ left'[backlog'[k]] = 0
  BY <1>1, <1>2, <1>4, <1>5, <1>6 DEF PairInv
<1>11. \A j, k \in DOMAIN backlog' : backlog'[j] = backlog'[k] => j = k
  BY <1>4, <1>5 DEF PairInv
<1>12. \A a \in Fds : fdt'[a] # NoPeer =>
         /\ net'[fdt'[a]] \notin {"none", "closed"}
         /\ \A k \in DOMAIN backlog' : backlog'[k] # fdt'[a]
  BY <1>1, <1>2, <1>4, <1>5, <1>6 DEF PairInv
<1>13. \A q \in Peers : net'[q] = "none" => joined'[q] = 0 /\ left'[q] = 0
  BY <1>1, <1>6 DEF PairInv
<1>. QED  BY <1>1, <1>8, <1>9, <1>10, <1>11, <1>12, <1>13 DEF PairInv

(* Accept moves the first of the backlog behind a descriptor that was free. *)
LEMMA AcceptPairs ==
  ASSUME ConnAssumption, ListInv, PairInv, Accept PROVE PairInv' /\ LostStep
<1>1. /\ backlog # << >> /\ backlog' = Tail(backlog) /\ pc' = "onconnect"
      /\ UNCHANGED <<net, clients, joined, left>>
  BY DEF Accept, CanAccept
<1>2. PICK fd \in Fds : /\ fdt[fd] = NoPeer /\ newfd' = fd
                        /\ fdt' = [fdt EXCEPT ![fd] = Head(backlog)]
  BY DEF Accept, FreeFds
<1>3. /\ backlog \in Seq(Peers) /\ Len(backlog) \in Nat \ {0} /\ DOMAIN backlog = 1 .. Len(backlog)
      /\ \A k \in DOMAIN backlog : backlog[k] \in Peers
      /\ DOMAIN fdt = Fds /\ \A a \in Fds : fdt[a] # NoPeer => fdt[a] \in Peers
  BY <1>1, LenProperties, ElementOfSeq, EmptySeq DEF ListInv, TypeOK
<1>4. /\ Head(backlog) = backlog[1] /\ backlog[1] \in Peers /\ 1 \in DOMAIN backlog
      /\ DOMAIN backlog' = 1 .. Len(backlog) - 1
      /\ \A k \in DOMAIN backlog' : k + 1 \in DOMAIN backlog /\ backlog'[k] = backlog[k + 1]
  <2>1. /\ Head(backlog) = backlog[1] /\ Tail(backlog) \in Seq(Peers)
        /\ Len(Tail(backlog)) = Len(backlog) - 1
        /\ \A k \in 1 .. Len(Tail(backlog)) : Tail(backlog)[k] = backlog[k + 1]
    BY <1>1, <1>3, HeadTailProperties
  <2>2. DOMAIN backlog' = 1 .. Len(backlog) - 1
    BY <1>1, <2>1, LenProperties
  <2>. QED  BY <1>1, <1>3, <2>1, <2>2
<1>. DEFINE p == backlog[1]
<1>5. fdt'[fd] = p /\ \A a \in Fds : a # fd => fdt'[a] = fdt[a]
  BY <1>2, <1>3, <1>4
<1>6. \A k \in DOMAIN backlog' : backlog'[k] # p
  <2>1. \A k \in DOMAIN backlog' : k + 1 # 1
    BY <1>3, <1>4
  <2>. QED  BY <1>4, <2>1 DEF PairInv
<1>7. \A q \in Peers : Registered(q)' <=> Registered(q)
  BY <1>1 DEF Registered
<1>8. PairedCallbacks' /\ LostStep
  BY <1>1, <1>7 DEF PairInv, PairedCallbacks, LostStep, Untracked
<1>9. /\ net[p] \notin {"none", "closed"} /\ joined[p] = 0 /\ left[p] = 0
      /\ \A a \in Fds : fdt[a] # p
  BY <1>3, <1>4 DEF PairInv, ConnAssumption
<1>10. \A k \in DOMAIN backlog' :
         /\ net'[backlog'[k]] \notin {"none", "closed"}
         /\ joined'[backlog'[k]] = 0 /\ left'[backlog'[k]] = 0
  BY <1>1, <1>4 DEF PairInv
<1>11. \A j, k \in DOMAIN backlog' : backlog'[j] = backlog'[k] => j = k
  <2>. SUFFICES ASSUME NEW j \in DOMAIN backlog', NEW k \in DOMAIN backlog', backlog'[j] = backlog'[k]
                PROVE  j = k
    OBVIOUS
  <2>1. backlog[j + 1] = backlog[k + 1] /\ j + 1 \in DOMAIN backlog /\ k + 1 \in DOMAIN backlog
    BY <1>4
  <2>2. j + 1 = k + 1
    BY <2>1 DEF PairInv
  <2>. QED  BY <1>3, <1>4, <2>2
<1>12. \A a \in Fds : fdt'[a] # NoPeer =>
         /\ net'[fdt'[a]] \notin {"none", "closed"}
         /\ \A k \in DOMAIN backlog' : backlog'[k] # fdt'[a]
  BY <1>1, <1>4, <1>5, <1>6, <1>9 DEF PairInv
<1>13. \A a, b \in Fds : fdt'[a] = fdt'[b] /\ fdt'[a] # NoPeer => a = b
  <2>. SUFFICES ASSUME NEW a \in Fds, NEW b \in Fds, fdt'[a] = fdt'[b], fdt'[a] # NoPeer
                PROVE  a = b
    OBVIOUS
  <2>1. CASE a = fd \/ b = fd
    <3>1. fdt'[a] = p /\ fdt'[b] = p
      BY <1>5, <2>1
    <3>2. \A e \in Fds : e # fd => fdt'[e] # p
      BY <1>5, <1>9
    <3>. QED  BY <2>1, <3>1, <3>2
  <2>2. CASE a # fd /\ b # fd
    <3>1. fdt[a] = fdt[b] /\ fdt[a] # NoPeer
      BY <1>5, <2>2
    <3>. QED  BY <3>1 DEF PairInv
  <2>. QED  BY <2>1, <2>2
<1>14. joined'[fdt'[newfd']] = 0 /\ left'[fdt'[newfd']] = 0
  BY <1>1, <1>2, <1>5, <1>9
<1>. QED  BY <1>1, <1>8, <1>10, <1>11, <1>12, <1>13, <1>14 DEF PairInv
(* onconnect takes a new connection on, or refuses it. *)
LEMMA OnConnectPairs ==
  ASSUME ConnAssumption, ListInv, FdInv, PairInv, NEW st \in Results, OnConnectReturn(st)
  PROVE  PairInv' /\ LostStep
<1>0. PICK p \in Peers : p = fdt[newfd]
  BY DEF OnConnectReturn, ListInv, PcOK
<1>1. /\ pc = "onconnect" /\ pc' = "scan" /\ newfd \in Fds
      /\ UNCHANGED <<backlog, left>>
  BY DEF OnConnectReturn, ListInv, PcOK
<1>2. /\ clients \in Seq(ClientRecords) /\ Len(clients) \in Nat
      /\ DOMAIN clients = 1 .. Len(clients)
      /\ DOMAIN net = Peers /\ DOMAIN fdt = Fds /\ DOMAIN joined = Peers
      /\ \A k \in DOMAIN backlog : backlog[k] \in Peers
      /\ \A a \in Fds : fdt[a] # NoPeer => fdt[a] \in Peers
  <2>1. clients \in Seq(ClientRecords) /\ backlog \in Seq(Peers)
    BY DEF ListInv, TypeOK
  <2>2. Len(clients) \in Nat /\ DOMAIN clients = 1 .. Len(clients)
    BY <2>1, LenProperties
  <2>3. \A k \in DOMAIN backlog : backlog[k] \in Peers
    BY <2>1, LenProperties, ElementOfSeq
  <2>. QED  BY <2>1, <2>2, <2>3 DEF ListInv, TypeOK
<1>3. /\ joined[p] = 0 /\ left[p] = 0 /\ p # NoPeer
      /\ \A k \in DOMAIN backlog : backlog[k] # p
      /\ \A a \in Fds : a # newfd => fdt[a] # p
  BY <1>0, <1>1 DEF PairInv, ConnAssumption
<1>4. CASE st = KILL
  <2>1. /\ fdt' = [fdt EXCEPT ![newfd] = NoPeer] /\ net' = [net EXCEPT ![p] = "closed"]
        /\ UNCHANGED <<clients, joined>>
    BY <1>0, <1>4 DEF OnConnectReturn
  <2>2. /\ fdt'[newfd] = NoPeer /\ \A a \in Fds : a # newfd => fdt'[a] = fdt[a]
        /\ net'[p] = "closed" /\ \A q \in Peers : q # p => net'[q] = net[q]
    BY <1>1, <1>2, <2>1
  <2>3. \A q \in Peers : Registered(q)' <=> Registered(q)
    BY <2>1 DEF Registered
  <2>4. PairedCallbacks' /\ LostStep
    BY <1>1, <1>3, <2>1, <2>2, <2>3 DEF PairInv, PairedCallbacks, LostStep, Untracked
  <2>5. \A k \in DOMAIN backlog' :
          /\ net'[backlog'[k]] \notin {"none", "closed"}
          /\ joined'[backlog'[k]] = 0 /\ left'[backlog'[k]] = 0
    BY <1>1, <1>2, <1>3, <2>1, <2>2 DEF PairInv
  <2>6. \A a \in Fds : fdt'[a] # NoPeer =>
          /\ net'[fdt'[a]] \notin {"none", "closed"}
          /\ \A k \in DOMAIN backlog' : backlog'[k] # fdt'[a]
    BY <1>1, <1>2, <1>3, <2>2 DEF PairInv
  <2>7. \A a, b \in Fds : fdt'[a] = fdt'[b] /\ fdt'[a] # NoPeer => a = b
    BY <2>2 DEF PairInv
  <2>8. \A q \in Peers : net'[q] = "none" => joined'[q] = 0 /\ left'[q] = 0
    BY <1>1, <2>1, <2>2 DEF PairInv
  <2>. QED  BY <1>1, <2>1, <2>4, <2>5, <2>6, <2>7, <2>8 DEF PairInv
<1>5. CASE st # KILL
  <2>. DEFINE c == Client(p, newfd, st)
  <2>1. c \in ClientRecords /\ c.addr = p
    BY <1>1 DEF Client, ClientRecords, ConnAssumption
  <2>2. /\ clients' = connPushToClientPoll(clients, c)
        /\ joined' = [joined EXCEPT ![p] = @ + 1] /\ UNCHANGED <<fdt, net>>
    BY <1>0, <1>5 DEF OnConnectReturn
  <2>. HIDE DEF c
  <2>3. joined'[p] = 1 /\ \A q \in Peers : q # p => joined'[q] = joined[q]
    BY <1>1, <1>2, <1>3, <2>2
  <2>4. /\ \A q \in Peers : Registered(q)' => Registered(q) \/ q = p
        /\ \A q \in Peers : Registered(q) => Registered(q)'
        /\ Len(clients') <= MaxConnections - 1
        /\ Len(clients) # MaxConnections - 1 => Registered(p)'
    <3>1. CASE Len(clients) < MaxConnections - 1
      <4>1. /\ DOMAIN clients' = 1 .. Len(clients) + 1 /\ Len(clients') = Len(clients) + 1
            /\ \A j \in 1 .. Len(clients) : clients'[j] = clients[j]
            /\ clients'[Len(clients) + 1] = c
        BY <1>2, <2>1, <2>2, <3>1, AppendProperties, LenProperties DEF connPushToClientPoll
      <4>2. \A j \in DOMAIN clients' : \/ j \in DOMAIN clients /\ clients'[j] = clients[j]
                                       \/ clients'[j] = c
        BY <1>2, <4>1
      <4>3. \A j \in DOMAIN clients : j \in DOMAIN clients' /\ clients'[j] = clients[j]
        BY <1>2, <4>1
      <4>4. Len(clients) + 1 \in DOMAIN clients'
        BY <1>2, <4>1
      <4>5. Len(clients') <= MaxConnections - 1
        BY <1>2, <3>1, <4>1 DEF ConnAssumption
      <4>6. \A q \in Peers : Registered(q)' => Registered(q) \/ q = p
        BY <2>1, <4>2 DEF Registered
      <4>7. \A q \in Peers : Registered(q) => Registered(q)'
        BY <4>3 DEF Registered
      <4>8. Registered(p)'
        BY <2>1, <4>1, <4>4 DEF Registered
      <4>. QED  BY <4>5, <4>6, <4>7, <4>8
    <3>2. CASE ~(Len(clients) < MaxConnections - 1)
      <4>1. clients' = clients
        BY <2>2, <3>2 DEF connPushToClientPoll
      <4>2. Len(clients) = MaxConnections - 1
        BY <1>2, <3>2 DEF PairInv, ConnAssumption
      <4>. QED  BY <4>1, <4>2, <1>2 DEF Registered, PairInv
    <3>. QED  BY <3>1, <3>2
  <2>5. LostStep
    <3>. SUFFICES ASSUME NEW q \in Peers, Untracked(q)', ~Untracked(q)
                  PROVE  pc = "onconnect" /\ Len(clients) = MaxConnections - 1
      BY DEF LostStep
    <3>1. CASE q = p
      BY <1>1, <2>4, <3>1 DEF Untracked
    <3>2. CASE q # p
      BY <1>1, <2>3, <2>4, <3>2 DEF Untracked
    <3>. QED  BY <3>1, <3>2
  <2>6. \A q \in Peers : net[q] = "closed" => q # p
    BY <1>0, <1>1 DEF PairInv, ConnAssumption
  <2>7. PairedCallbacks'
    BY <1>1, <1>3, <2>2, <2>3, <2>4, <2>6 DEF PairInv, PairedCallbacks
  <2>8. \A k \in DOMAIN backlog' :
          /\ net'[backlog'[k]] \notin {"none", "closed"}
          /\ joined'[backlog'[k]] = 0 /\ left'[backlog'[k]] = 0
    BY <1>1, <1>2, <1>3, <2>2, <2>3 DEF PairInv
  <2>9. \A q \in Peers : net'[q] = "none" => joined'[q] = 0 /\ left'[q] = 0
    <3>1. net[p] # "none"
      BY <1>0, <1>1 DEF PairInv, ConnAssumption
    <3>. QED  BY <1>1, <2>2, <2>3, <3>1 DEF PairInv
  <2>. QED  BY <1>1, <2>2, <2>4, <2>5, <2>7, <2>8, <2>9 DEF PairInv
<1>. QED  BY <1>4, <1>5

(* The sweep closes a connection, which no other record names. *)
LEMMA OnDisconnectPairs ==
  ASSUME ConnAssumption, ListInv, FdInv, PairInv, OnDisconnectReturn
  PROVE  PairInv' /\ LostStep
<1>1. /\ clients \in Seq(ClientRecords) /\ Len(clients) \in Nat
      /\ DOMAIN clients = 1 .. Len(clients) /\ idx \in 1 .. Len(clients)
      /\ \A i \in DOMAIN clients : clients[i] \in ClientRecords
      /\ DOMAIN net = Peers /\ DOMAIN fdt = Fds /\ DOMAIN left = Peers
      /\ \A k \in DOMAIN backlog : backlog[k] \in Peers
      /\ \A a \in Fds : fdt[a] # NoPeer => fdt[a] \in Peers
  BY LenProperties, ElementOfSeq DEF ListInv, TypeOK, PcOK, OnDisconnectReturn
<1>2. PICK q \in Peers, fd \in Fds : q = clients[idx].addr /\ fd = clients[idx].fd
  BY <1>1 DEF ClientRecords
<1>3. poll[idx + 1].fd = fd /\ fdt[fd] = q /\ q # NoPeer
  <2>1. clients # << >>
    BY <1>1, EmptySeq
  <2>. QED  BY <1>1, <1>2, <2>1 DEF ListInv, Lockstep, FdInv, NoStaleClient, ConnAssumption
<1>4. /\ left' = [left EXCEPT ![q] = @ + 1] /\ fdt' = [fdt EXCEPT ![fd] = NoPeer]
      /\ net' = [net EXCEPT ![q] = "closed"] /\ clients' = SwapRemove(clients, idx)
      /\ pc' = "sweep" /\ UNCHANGED <<backlog, joined>>
  BY <1>2, <1>3 DEF OnDisconnectReturn
<1>5. /\ DOMAIN clients' = 1 .. Len(clients) - 1 /\ Len(clients') = Len(clients) - 1
      /\ \A j \in 1 .. Len(clients) - 1 :
           clients'[j] = IF j = idx THEN clients[Len(clients)] ELSE clients[j]
  <2>1. clients \in Seq(ClientRecords) /\ idx \in 1 .. Len(clients)
    BY <1>1
  <2>2. /\ DOMAIN SwapRemove(clients, idx) = 1 .. Len(clients) - 1
        /\ Len(SwapRemove(clients, idx)) = Len(clients) - 1
        /\ \A j \in 1 .. Len(clients) - 1 :
             SwapRemove(clients, idx)[j] = IF j = idx THEN clients[Len(clients)] ELSE clients[j]
    BY <2>1, SwapRemoveProperties
  <2>. QED  BY <1>4, <2>2
<1>6. ASSUME NEW j \in DOMAIN clients'
      PROVE  \E i \in DOMAIN clients : i # idx /\ clients'[j] = clients[i]
  <2>1. CASE j = idx
    <3>1. Len(clients) \in DOMAIN clients /\ Len(clients) # idx
      BY <1>1, <1>5, <2>1
    <3>. QED  BY <1>5, <2>1, <3>1
  <2>2. CASE j # idx
    <3>1. j \in DOMAIN clients
      BY <1>1, <1>5
    <3>. QED  BY <1>5, <2>2, <3>1
  <2>. QED  BY <2>1, <2>2
<1>7. ASSUME NEW i \in DOMAIN clients, i # idx
      PROVE  \E j \in DOMAIN clients' : clients'[j] = clients[i]
  <2>1. CASE i = Len(clients)
    <3>1. idx \in DOMAIN clients'
      <4>1. \A n \in Nat : \A k \in 1 .. n : k # n => k \in 1 .. n - 1
        OBVIOUS
      <4>2. Len(clients) \in Nat /\ idx \in 1 .. Len(clients)
        BY <1>1
      <4>3. idx # Len(clients)
        BY <1>7, <2>1
      <4>. QED  BY <1>5, <4>1, <4>2, <4>3
    <3>. QED  BY <1>5, <2>1, <3>1
  <2>2. CASE i # Len(clients)
    <3>1. i \in DOMAIN clients'
      BY <1>1, <1>5, <2>2
    <3>. QED  BY <1>5, <1>7, <3>1
  <2>. QED  BY <2>1, <2>2
<1>8. \A i \in DOMAIN clients : clients[i].addr = q => i = idx
  <2>. SUFFICES ASSUME NEW i \in DOMAIN clients, clients[i].addr = q PROVE i = idx
    OBVIOUS
  <2>1. clients[i].fd \in Fds /\ fdt[clients[i].fd] = q
    BY <1>1 DEF ClientRecords, FdInv, NoStaleClient
  <2>2. clients[i].fd = fd
    BY <1>3, <2>1 DEF PairInv
  <2>. QED  BY <1>1, <1>2, <2>2 DEF FdInv, NoStaleClient
<1>9. joined[q] = 1 /\ left[q] = 0
  BY <1>1, <1>2 DEF PairInv, PairedCallbacks, Registered
<1>10. /\ ~Registered(q)'
       /\ \A p \in Peers : p # q => (Registered(p)' <=> Registered(p))
  <2>1. ~Registered(q)'
    BY <1>6, <1>8 DEF Registered
  <2>2. ASSUME NEW p \in Peers, Registered(p)' PROVE Registered(p)
    BY <1>6, <2>2 DEF Registered
  <2>3. ASSUME NEW p \in Peers, p # q, Registered(p) PROVE Registered(p)'
    <3>1. PICK i \in DOMAIN clients : clients[i].addr = p
      BY <2>3 DEF Registered
    <3>2. i # idx
      BY <1>2, <2>3, <3>1
    <3>. QED  BY <1>7, <3>1, <3>2 DEF Registered
  <2>. QED  BY <2>1, <2>2, <2>3
<1>11. /\ left'[q] = 1 /\ \A p \in Peers : p # q => left'[p] = left[p]
       /\ net'[q] = "closed" /\ \A p \in Peers : p # q => net'[p] = net[p]
       /\ fdt'[fd] = NoPeer /\ \A a \in Fds : a # fd => fdt'[a] = fdt[a]
  BY <1>1, <1>3, <1>4, <1>9
<1>12. PairedCallbacks'
  BY <1>3, <1>4, <1>9, <1>10, <1>11 DEF PairInv, PairedCallbacks
<1>13. LostStep
  BY <1>3, <1>4, <1>9, <1>10, <1>11 DEF LostStep, Untracked
<1>14. /\ \A k \in DOMAIN backlog : backlog[k] # q
       /\ \A a \in Fds : a # fd => fdt[a] # q
  BY <1>3 DEF PairInv
<1>15. \A k \in DOMAIN backlog' :
         /\ net'[backlog'[k]] \notin {"none", "closed"}
         /\ joined'[backlog'[k]] = 0 /\ left'[backlog'[k]] = 0
  BY <1>1, <1>4, <1>11, <1>14 DEF PairInv
<1>16. \A a \in Fds : fdt'[a] # NoPeer =>
         /\ net'[fdt'[a]] \notin {"none", "closed"}
         /\ \A k \in DOMAIN backlog' : backlog'[k] # fdt'[a]
  BY <1>1, <1>4, <1>11, <1>14 DEF PairInv
<1>17. \A a, b \in Fds : fdt'[a] = fdt'[b] /\ fdt'[a] # NoPeer => a = b
  BY <1>11 DEF PairInv
<1>18. \A p \in Peers : net'[p] = "none" => joined'[p] = 0 /\ left'[p] = 0
  BY <1>4, <1>11 DEF PairInv
<1>19. Len(clients') <= MaxConnections - 1
  BY <1>1, <1>5 DEF PairInv, ConnAssumption
<1>. QED  BY <1>4, <1>12, <1>13, <1>15, <1>16, <1>17, <1>18, <1>19 DEF PairInv
(* Every other step leaves the parties alone, and so the callbacks paired. *)
LEMMA PairStep ==
  ASSUME ConnAssumption, RETRY \notin Results, ListInv, FdInv, PairInv, [Next]_vars
  PROVE  PairInv' /\ LostStep
<1>. USE DEF envVars
<1>0. /\ clients \in Seq(ClientRecords) /\ Len(clients) \in Nat
      /\ DOMAIN clients = 1 .. Len(clients)
      /\ \A i \in DOMAIN clients : clients[i] \in ClientRecords
      /\ \A k \in DOMAIN backlog : backlog[k] \in Peers
      /\ DOMAIN net = Peers /\ \A a \in Fds : fdt[a] # NoPeer => fdt[a] \in Peers
  <2>1. clients \in Seq(ClientRecords) /\ backlog \in Seq(Peers)
    BY DEF ListInv, TypeOK
  <2>2. Len(clients) \in Nat /\ DOMAIN clients = 1 .. Len(clients)
    BY <2>1, LenProperties
  <2>3. \A k \in DOMAIN backlog : backlog[k] \in Peers
    BY <2>1, LenProperties, ElementOfSeq
  <2>4. \A i \in DOMAIN clients : clients[i] \in ClientRecords
    BY <2>1, LenProperties, ElementOfSeq
  <2>. QED  BY <2>1, <2>2, <2>3, <2>4 DEF ListInv, TypeOK
<1>1. ASSUME UNCHANGED <<net, backlog, fdt, clients, joined, left>>,
             pc' = "onconnect" => pc = "onconnect" /\ UNCHANGED newfd
      PROVE  PairInv' /\ LostStep
  BY <1>0, <1>1, SameParties
<1>2. ASSUME UNCHANGED <<net, backlog, fdt, joined, left>>,
             pc' = "onconnect" => pc = "onconnect" /\ UNCHANGED newfd,
             NEW i, NEW c, clients' = [clients EXCEPT ![i] = c],
             i \in DOMAIN clients => c.addr = clients[i].addr /\ c \in ClientRecords
      PROVE  PairInv' /\ LostStep
  <2>1. DOMAIN clients' = DOMAIN clients /\ Len(clients') = Len(clients)
    BY <1>0, <1>2, SeqUpdate
  <2>2. \A j \in DOMAIN clients : clients'[j].addr = clients[j].addr
    BY <1>0, <1>2
  <2>. QED  BY <1>0, <1>2, <2>1, <2>2, SameParties
<1>3. ASSUME NEW i, UNCHANGED <<net, backlog, fdt, joined, left>>,
             pc' = "onconnect" => pc = "onconnect" /\ UNCHANGED newfd,
             \E v \in BOOLEAN : clients' = [clients EXCEPT ![i].due = v]
      PROVE  PairInv' /\ LostStep
  <2>1. PICK v \in BOOLEAN : clients' = [clients EXCEPT ![i].due = v]
    BY <1>3
  <2>. DEFINE c == [clients[i] EXCEPT !.due = v]
  <2>2. clients' = [clients EXCEPT ![i] = c]
    BY <2>1
  <2>3. i \in DOMAIN clients => c.addr = clients[i].addr /\ c \in ClientRecords
    BY <1>0, <2>1 DEF ClientRecords
  <2>. HIDE DEF c
  <2>. QED  BY <1>2, <1>3, <2>2, <2>3
<1>4. ASSUME PeerStep PROVE PairInv' /\ LostStep
  <2>1. ASSUME NEW p \in Peers, PeerConnect(p) PROVE PairInv' /\ LostStep
    BY <2>1, ConnectPairs
  <2>2. ASSUME NEW p \in Peers, PeerClose(p) \/ PeerReset(p) PROVE PairInv' /\ LostStep
    <3>1. /\ UNCHANGED <<backlog, fdt, clients, joined, left, pc, newfd>>
          /\ \A q \in Peers : \/ net'[q] = net[q]
                              \/ net[q] \notin {"none", "closed"} /\ net'[q] \notin {"none", "closed"}
      BY <1>0, <2>2 DEF PeerClose, PeerReset
    <3>. QED  BY <1>0, <3>1, SameParties
  <2>3. ASSUME NEW p \in Peers, NEW d \in Data, PeerSend(p, d) PROVE PairInv' /\ LostStep
    BY <1>1, <2>3 DEF PeerSend
  <2>4. ASSUME NEW i \in DOMAIN clients, PingDue(i) PROVE PairInv' /\ LostStep
    BY <1>3, <2>4 DEF PingDue
  <2>. QED  BY <1>4, <2>1, <2>2, <2>3, <2>4 DEF PeerStep
<1>5. ASSUME LoopStep PROVE PairInv' /\ LostStep
  <2>1. CASE Poll \/ AcceptNothing \/ ListenerError \/ ScanDead \/ ScanEnd
    BY <1>1, <2>1 DEF Poll, AcceptNothing, ListenerError, ScanDead, ScanEnd, EndLoop, InLoop
  <2>2. CASE PingDueClient \/ PingSkip \/ PingEnd \/ SweepKeep \/ SweepDead \/ SweepEnd
    BY <1>1, <2>2
       DEF PingDueClient, PingSkip, PingEnd, SweepKeep, SweepDead, SweepEnd, EndLoop, InLoop
  <2>3. CASE ScanMessage
    <3>1. clients[idx].status # RETRY
      BY <2>3, InLoopIndex DEF ScanMessage, ListInv, FdInv
    <3>2. /\ clients' = [clients EXCEPT ![idx].due = FALSE] /\ pc' = "onmessage"
          /\ UNCHANGED <<net, backlog, fdt, joined, left>>
      BY <2>3, <3>1 DEF ScanMessage
    <3>. QED  BY <1>3, <3>2
  <2>4. CASE ScanAlive
    BY <1>3, <2>4 DEF ScanAlive, InLoop
  <2>5. CASE Accept
    BY <2>5, AcceptPairs
  <2>. QED  BY <1>5, <2>1, <2>2, <2>3, <2>4, <2>5 DEF LoopStep
<1>6. ASSUME ReturnStep PROVE PairInv' /\ LostStep
  <2>1. ASSUME NEW st, OnMessageReturn(st) PROVE PairInv' /\ LostStep
    BY <1>1, <2>1 DEF OnMessageReturn
  <2>2. \A st : ~OnReconnectReturn(st)
    BY DEF OnReconnectReturn, FdInv
  <2>3. ASSUME NEW st \in Results, OnPingReturn(st) PROVE PairInv' /\ LostStep
    <3>. DEFINE c == [clients[idx] EXCEPT !.status = st, !.due = FALSE]
    <3>1. /\ clients' = [clients EXCEPT ![idx] = c]
          /\ pc' = "ping" /\ UNCHANGED <<net, backlog, fdt, joined, left>>
      BY <2>3 DEF OnPingReturn
    <3>2. idx \in DOMAIN clients => c.addr = clients[idx].addr /\ c \in ClientRecords
      BY <1>0, <2>3 DEF ClientRecords, ConnAssumption
    <3>. HIDE DEF c
    <3>. QED  BY <1>2, <3>1, <3>2
  <2>4. ASSUME NEW st \in Results, OnConnectReturn(st) PROVE PairInv' /\ LostStep
    BY <2>4, OnConnectPairs
  <2>5. CASE OnDisconnectReturn
    BY <2>5, OnDisconnectPairs
  <2>. QED  BY <1>6, <2>1, <2>2, <2>3, <2>4, <2>5 DEF ReturnStep
<1>7. ASSUME CallbackStep PROVE PairInv' /\ LostStep
  <2>1. ASSUME NEW k, NEW rest, CallbackRecv(k, rest) PROVE PairInv' /\ LostStep
    BY <1>1, <2>1 DEF CallbackRecv
  <2>2. ASSUME CallbackAbort PROVE PairInv' /\ LostStep
    BY <1>1, <2>2 DEF CallbackAbort
  <2>. QED  BY <1>7, <2>1, <2>2 DEF CallbackStep
<1>8. ASSUME UNCHANGED vars PROVE PairInv' /\ LostStep
  BY <1>1, <1>8 DEF vars
<1>. QED  BY <1>4, <1>5, <1>6, <1>7, <1>8 DEF Next

LEMMA PairInit == ASSUME ConnAssumption, Init PROVE PairInv
<1>1. /\ DOMAIN clients = {} /\ Len(clients) = 0 /\ DOMAIN backlog = {} /\ pc = "poll"
      /\ \A p \in Peers : net[p] = "none" /\ joined[p] = 0 /\ left[p] = 0
      /\ \A a \in Fds : fdt[a] = NoPeer
  BY EmptySeq, LenProperties DEF Init, conInitServer
<1>2. PairedCallbacks
  <2>1. \A p \in Peers : ~Registered(p)
    BY <1>1 DEF Registered
  <2>. SUFFICES ASSUME NEW p \in Peers
                PROVE  /\ left[p] <= joined[p] /\ joined[p] <= 1
                       /\ net[p] = "closed" => joined[p] = left[p]
    BY <2>1 DEF PairedCallbacks
  <2>2. joined[p] = 0 /\ left[p] = 0
    BY <1>1
  <2>. QED  BY <2>2
<1>3. Len(clients) <= MaxConnections - 1
  BY <1>1 DEF ConnAssumption
<1>. QED  BY <1>1, <1>2, <1>3 DEF PairInv

LEMMA PairAlways ==
  ASSUME ConnAssumption, RETRY \notin Results PROVE Spec => []PairInv /\ [][LostStep]_vars
<1>1. Init => FdInv
  <2>1. ASSUME Init PROVE DOMAIN clients = {} /\ pc = "poll"
    BY <2>1 DEF Init, conInitServer
  <2>. QED  BY <2>1 DEF FdInv, NoStaleClient
<1>2. Init => PairInv
  BY PairInit
<1>3. ListInv /\ FdInv /\ [Next]_vars => FdInv'
  BY FdStep
<1>4. ListInv /\ FdInv /\ PairInv /\ [Next]_vars => PairInv' /\ LostStep
  BY PairStep
<1>. QED  BY <1>1, <1>2, <1>3, <1>4, ListsInStep, PTL DEF Spec

(* When the callbacks never return RETRY, onconnect and ondisconnect come in *)
(* pairs, whatever the peers do and however descriptors are reused.          *)
THEOREM CallbacksPaired ==
  ASSUME ConnAssumption, RETRY \notin Results PROVE Spec => []PairedCallbacks
<1>1. PairInv => PairedCallbacks
  BY DEF PairInv
<1>. QED  BY <1>1, PairAlways, PTL

(* And the server loses sight of a connection only by taking it on when the *)
(* client list is full.                                                      *)
THEOREM LostWhenFullOnly ==
  ASSUME ConnAssumption, RETRY \notin Results PROVE Spec => LostOnlyAtCapacity
BY PairAlways DEF LostStep, LostOnlyAtCapacity
=============================================================================
