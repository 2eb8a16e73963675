------------------------------ MODULE ChatRoom ------------------------------
(***************************************************************************)
(* What the server promises its clients: a chat room.  Events (a member    *)
(* joined, left, or said something) are posted one at a time, and the room *)
(* posts none before every member was served the last one.  A member hears *)
(* each event once, in the order of the log, from its entry on; one whose  *)
(* link is dead hears nothing more.                                        *)
(*                                                                         *)
(* Nothing here is translated from the code: WsServer is shown to          *)
(* implement this specification.                                           *)
(***************************************************************************)
EXTENDS Naturals, Sequences

CONSTANT Peers

VARIABLES
  members,  \* who is in the room
  dead,     \* members whose link is dead
  log,      \* the events, in order
  pending,  \* members not yet served the last event
  since,    \* since[p]: the length of the log when p entered
  heard     \* heard[p]: the events p received

roomVars == <<members, dead, log, pending, since, heard>>

EventKinds == {"join", "leave", "text", "garbage"}
RoomEvents == EventKinds \X Peers
LastEvent == log[Len(log)]

RoomInit ==
  /\ members = {} /\ dead = {} /\ pending = {} /\ log = << >>
  /\ since = [p \in Peers |-> 0]
  /\ heard = [p \in Peers |-> << >>]

Post(kind, p) ==
  /\ pending = {}
  /\ kind = "join" <=> p \notin members
  /\ log' = Append(log, <<kind, p>>)
  /\ pending' = members
  /\ UNCHANGED <<members, dead, since, heard>>

Deliver(p) ==
  /\ p \in pending \ dead
  /\ pending' = pending \ {p}
  /\ heard' = [heard EXCEPT ![p] = Append(@, LastEvent)]
  /\ UNCHANGED <<members, dead, log, since>>

Miss(p) ==
  /\ p \in pending \cap dead
  /\ pending' = pending \ {p}
  /\ UNCHANGED <<members, dead, log, since, heard>>

Lose(p) ==
  /\ p \in members \ dead
  /\ dead' = dead \cup {p}
  /\ UNCHANGED <<members, log, pending, since, heard>>

(* A connection may also be dead by the time it enters. *)
Enter(p) ==
  /\ pending = {} /\ p \notin members
  /\ log # << >> /\ LastEvent = <<"join", p>>
  /\ members' = members \cup {p}
  /\ dead' \in {dead, dead \cup {p}}
  /\ since' = [since EXCEPT ![p] = Len(log)]
  /\ heard' = [heard EXCEPT ![p] = << >>]
  /\ UNCHANGED <<log, pending>>

Leave(p) ==
  /\ pending = {} /\ p \in members
  /\ LastEvent = <<"leave", p>>
  /\ members' = members \ {p}
  /\ dead' = dead \ {p}
  /\ UNCHANGED <<log, pending, since, heard>>

RoomNext ==
  \E p \in Peers :
    \/ \E kind \in EventKinds : Post(kind, p)
    \/ Deliver(p) \/ Miss(p) \/ Lose(p) \/ Enter(p) \/ Leave(p)

RoomSpec == RoomInit /\ [][RoomNext]_roomVars
---------------------------------------------------------------------------
(* The promise: a live member has heard exactly the events posted since it   *)
(* entered, all but the last one if that is still on its way.                *)
HearsEverything ==
  \A p \in members \ dead :
    heard[p] = SubSeq(log, since[p] + 1,
                      IF p \in pending THEN Len(log) - 1 ELSE Len(log))
=============================================================================
