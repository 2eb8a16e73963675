---------------------------- MODULE ChatRoomProofs ----------------------------
(***************************************************************************)
(* The chat room keeps its promise, for any number of members and events.  *)
(* What a live member heard is a part of the log that begins where it      *)
(* entered; it grows by a delivery as the log grew by the post before.     *)
(***************************************************************************)
EXTENDS ChatRoom, SequenceTheorems, TLAPS

(* The types of the state, and a member enters no later than the last event *)
(* that is still on its way to it.                                          *)
RoomTypes ==
  /\ members \subseteq Peers /\ dead \subseteq members /\ pending \subseteq members
  /\ log \in Seq(RoomEvents)
  /\ since \in [Peers -> Nat] /\ heard \in [Peers -> Seq(RoomEvents)]

EnteredBefore ==
  /\ pending # {} => log # << >>
  /\ \A p \in members : since[p] <= Len(log) /\ (p \in pending => since[p] < Len(log))

RoomInv == RoomTypes /\ EnteredBefore /\ HearsEverything
---------------------------------------------------------------------------
(* A part of a sequence that ends where it did is not changed by an append. *)
LEMMA PartOfAppend ==
  ASSUME NEW S, NEW s \in Seq(S), NEW e \in S, NEW m \in Nat, NEW n \in Nat, n <= Len(s)
  PROVE  SubSeq(Append(s, e), m + 1, n) = SubSeq(s, m + 1, n)
<1>1. /\ Len(s) \in Nat /\ \A i \in 1 .. Len(s) : s[i] \in S
      /\ \A i \in 1 .. Len(s) : Append(s, e)[i] = s[i]
  BY LenProperties, ElementOfSeq, AppendProperties
<1>2. \A i \in m + 1 .. n : i \in 1 .. Len(s)
  BY <1>1
<1>3. /\ \A i \in m + 1 .. n : s[i] \in S
      /\ \A i \in m + 1 .. n : Append(s, e)[i] \in S
  BY <1>1, <1>2
<1>4. /\ SubSeq(s, m + 1, n) \in Seq(S)
      /\ Len(SubSeq(s, m + 1, n)) = IF m + 1 <= n THEN n - (m + 1) + 1 ELSE 0
      /\ \A i \in 1 .. n - (m + 1) + 1 : SubSeq(s, m + 1, n)[i] = s[m + 1 + i - 1]
  BY <1>3, SubSeqProperties
<1>5. /\ SubSeq(Append(s, e), m + 1, n) \in Seq(S)
      /\ Len(SubSeq(Append(s, e), m + 1, n)) = IF m + 1 <= n THEN n - (m + 1) + 1 ELSE 0
      /\ \A i \in 1 .. n - (m + 1) + 1 :
           SubSeq(Append(s, e), m + 1, n)[i] = Append(s, e)[m + 1 + i - 1]
  BY <1>3, SubSeqProperties
<1>6. ASSUME NEW i \in 1 .. Len(SubSeq(s, m + 1, n))
      PROVE  SubSeq(Append(s, e), m + 1, n)[i] = SubSeq(s, m + 1, n)[i]
  <2>1. i \in 1 .. n - (m + 1) + 1 /\ m + 1 + i - 1 \in 1 .. Len(s)
    BY <1>1, <1>4
  <2> QED BY <1>1, <1>4, <1>5, <2>1
<1> QED BY <1>4, <1>5, <1>6, SeqEqual

(* A part that ends one short of the end, and the last element. *)
LEMMA PartAndLast ==
  ASSUME NEW S, NEW s \in Seq(S), NEW m \in Nat, m < Len(s)
  PROVE  Append(SubSeq(s, m + 1, Len(s) - 1), s[Len(s)]) = SubSeq(s, m + 1, Len(s))
<1> DEFINE n == Len(s)
           short == SubSeq(s, m + 1, n - 1)
           long == SubSeq(s, m + 1, n)
<1>1. n \in Nat /\ n > m /\ \A i \in 1 .. n : s[i] \in S
  BY LenProperties, ElementOfSeq
<1> HIDE DEF n
<1>2. /\ short \in Seq(S) /\ Len(short) = n - 1 - m
      /\ \A i \in 1 .. n - 1 - m : short[i] = s[m + i]
  <2>1. \A i \in m + 1 .. n - 1 : s[i] \in S
    BY <1>1
  <2>2. /\ short \in Seq(S)
        /\ Len(short) = IF m + 1 <= n - 1 THEN n - 1 - (m + 1) + 1 ELSE 0
        /\ \A i \in 1 .. n - 1 - (m + 1) + 1 : short[i] = s[m + 1 + i - 1]
    BY <1>1, <2>1, SubSeqProperties
  <2>3. \A i \in 1 .. n - 1 - m : i \in 1 .. n - 1 - (m + 1) + 1 /\ m + 1 + i - 1 = m + i
    BY <1>1
  <2>4. Len(short) = n - 1 - m
    BY <1>1, <2>2
  <2> QED BY <2>2, <2>3, <2>4
<1>3. /\ long \in Seq(S) /\ Len(long) = n - m
      /\ \A i \in 1 .. n - m : long[i] = s[m + i]
  <2>1. \A i \in m + 1 .. n : s[i] \in S
    BY <1>1
  <2>2. /\ long \in Seq(S)
        /\ Len(long) = IF m + 1 <= n THEN n - (m + 1) + 1 ELSE 0
        /\ \A i \in 1 .. n - (m + 1) + 1 : long[i] = s[m + 1 + i - 1]
    BY <1>1, <2>1, SubSeqProperties
  <2>3. \A i \in 1 .. n - m : i \in 1 .. n - (m + 1) + 1 /\ m + 1 + i - 1 = m + i
    BY <1>1
  <2>4. Len(long) = n - m
    BY <1>1, <2>2
  <2> QED BY <2>2, <2>3, <2>4
<1> HIDE DEF short, long
<1>4. s[n] \in S
  BY <1>1
<1>5. /\ Append(short, s[n]) \in Seq(S) /\ Len(Append(short, s[n])) = n - m
      /\ \A i \in 1 .. n - 1 - m : Append(short, s[n])[i] = s[m + i]
      /\ Append(short, s[n])[n - m] = s[n]
  <2>1. /\ Append(short, s[n]) \in Seq(S) /\ Len(Append(short, s[n])) = Len(short) + 1
        /\ \A i \in 1 .. Len(short) : Append(short, s[n])[i] = short[i]
        /\ Append(short, s[n])[Len(short) + 1] = s[n]
    BY <1>2, <1>4, AppendProperties
  <2>2. Len(short) + 1 = n - m
    BY <1>1, <1>2
  <2> QED BY <1>2, <2>1, <2>2
<1>6. ASSUME NEW i \in 1 .. n - m PROVE Append(short, s[n])[i] = long[i]
  <2>1. i \in 1 .. n - 1 - m \/ (i = n - m /\ m + i = n)
    BY <1>1
  <2> QED BY <1>3, <1>5, <2>1
<1>7. Append(short, s[n]) = long
  BY <1>3, <1>5, <1>6, SeqEqual
<1> QED BY <1>7 DEF n, short, long
---------------------------------------------------------------------------
LEMMA RoomStart == ASSUME RoomInit PROVE RoomInv
<1>1. /\ members = {} /\ dead = {} /\ pending = {} /\ log = << >>
      /\ since = [p \in Peers |-> 0] /\ heard = [p \in Peers |-> << >>]
  BY DEF RoomInit
<1>2. /\ log \in Seq(RoomEvents) /\ << >> \in Seq(RoomEvents)
  BY <1>1, EmptySeq
<1> QED BY <1>1, <1>2 DEF RoomInv, RoomTypes, EnteredBefore, HearsEverything

LEMMA PostKeeps ==
  ASSUME RoomInv, NEW kind \in EventKinds, NEW p \in Peers, Post(kind, p)
  PROVE  RoomInv'
<1> DEFINE e == <<kind, p>>
<1>1. /\ pending = {} /\ log' = Append(log, e) /\ pending' = members
      /\ UNCHANGED <<members, dead, since, heard>>
  BY DEF Post
<1>2. log \in Seq(RoomEvents) /\ e \in RoomEvents /\ Len(log) \in Nat
  BY LenProperties DEF RoomInv, RoomTypes, RoomEvents
<1> HIDE DEF e
<1>3. log' \in Seq(RoomEvents) /\ log' # << >> /\ Len(log') = Len(log) + 1
  BY <1>1, <1>2, AppendProperties
<1>4. RoomTypes'
  BY <1>1, <1>3 DEF RoomInv, RoomTypes
<1>5. \A q \in members : since[q] \in Nat /\ since[q] <= Len(log)
  BY DEF RoomInv, RoomTypes, EnteredBefore
<1>6. EnteredBefore'
  BY <1>1, <1>2, <1>3, <1>5 DEF EnteredBefore
<1>7. ASSUME NEW q \in members \ dead
      PROVE  heard[q] = SubSeq(log', since[q] + 1, Len(log') - 1)
  <2>1. heard[q] = SubSeq(log, since[q] + 1, Len(log))
    BY <1>1 DEF RoomInv, HearsEverything
  <2>2. Len(log') - 1 = Len(log)
    BY <1>2, <1>3
  <2>3. since[q] \in Nat /\ Len(log) \in Nat /\ Len(log) <= Len(log)
    BY <1>1, <1>2, <1>5
  <2>4. SubSeq(Append(log, e), since[q] + 1, Len(log)) = SubSeq(log, since[q] + 1, Len(log))
    BY <1>2, <2>3, PartOfAppend
  <2>5. log' = Append(log, e)
    BY <1>1
  <2> QED BY <2>1, <2>2, <2>4, <2>5
<1>8. HearsEverything'
  BY <1>1, <1>7 DEF HearsEverything
<1> QED BY <1>4, <1>6, <1>8 DEF RoomInv

LEMMA DeliverKeeps == ASSUME RoomInv, NEW p \in Peers, Deliver(p) PROVE RoomInv'
<1>1. /\ p \in pending \ dead /\ pending' = pending \ {p}
      /\ heard' = [heard EXCEPT ![p] = Append(@, LastEvent)]
      /\ UNCHANGED <<members, dead, log, since>>
  BY DEF Deliver
<1>2. /\ log \in Seq(RoomEvents) /\ log # << >> /\ Len(log) \in Nat /\ p \in members
      /\ since[p] \in Nat /\ since[p] < Len(log)
  BY <1>1, LenProperties DEF RoomInv, RoomTypes, EnteredBefore
<1>3. LastEvent \in RoomEvents
  BY <1>2, ElementOfSeq DEF LastEvent
<1>4. Append(heard[p], LastEvent) \in Seq(RoomEvents)
  BY <1>3, AppendProperties DEF RoomInv, RoomTypes
<1>5. RoomTypes'
  BY <1>1, <1>4 DEF RoomInv, RoomTypes
<1>6. EnteredBefore'
  BY <1>1 DEF RoomInv, EnteredBefore
<1>7. heard'[p] = SubSeq(log, since[p] + 1, Len(log))
  <2>1. heard[p] = SubSeq(log, since[p] + 1, Len(log) - 1)
    BY <1>1, <1>2 DEF RoomInv, HearsEverything
  <2>2. heard'[p] = Append(heard[p], log[Len(log)])
    BY <1>1 DEF RoomInv, RoomTypes, LastEvent
  <2> QED BY <1>2, <2>1, <2>2, PartAndLast
<1>8. \A q \in Peers : q # p => heard'[q] = heard[q] /\ (q \in pending' <=> q \in pending)
  BY <1>1 DEF RoomInv, RoomTypes
<1>9. HearsEverything'
  BY <1>1, <1>7, <1>8 DEF RoomInv, RoomTypes, HearsEverything
<1> QED BY <1>5, <1>6, <1>9 DEF RoomInv

LEMMA EnterKeeps == ASSUME RoomInv, NEW p \in Peers, Enter(p) PROVE RoomInv'
<1>1. /\ pending = {} /\ p \notin members /\ members' = members \cup {p}
      /\ dead' \in {dead, dead \cup {p}}
      /\ since' = [since EXCEPT ![p] = Len(log)] /\ heard' = [heard EXCEPT ![p] = << >>]
      /\ UNCHANGED <<log, pending>>
  BY DEF Enter
<1>2. log \in Seq(RoomEvents) /\ Len(log) \in Nat /\ << >> \in Seq(RoomEvents)
  BY LenProperties, EmptySeq DEF RoomInv, RoomTypes
<1>3. /\ since'[p] = Len(log) /\ heard'[p] = << >>
      /\ \A q \in members : q # p /\ since'[q] = since[q] /\ heard'[q] = heard[q]
  BY <1>1 DEF RoomInv, RoomTypes
<1>4. RoomTypes'
  BY <1>1, <1>2 DEF RoomInv, RoomTypes
<1>5. EnteredBefore'
  BY <1>1, <1>2, <1>3 DEF RoomInv, EnteredBefore
<1>6. SubSeq(log, Len(log) + 1, Len(log)) = << >>
  BY <1>2, SubSeqEmpty
<1>7. HearsEverything'
  BY <1>1, <1>3, <1>6 DEF RoomInv, HearsEverything
<1> QED BY <1>4, <1>5, <1>7 DEF RoomInv

(* A member that misses an event is not live, and one that leaves or whose  *)
(* link dies takes its promise with it.                                     *)
LEMMA FewerKeep ==
  ASSUME RoomInv, NEW p \in Peers, Miss(p) \/ Lose(p) \/ Leave(p)
  PROVE  RoomInv'
<1>1. /\ UNCHANGED <<log, since, heard>>
      /\ members' \subseteq members /\ dead' \subseteq members' /\ pending' \subseteq members'
      /\ pending' \subseteq pending
      /\ members' \ dead' \subseteq members \ dead
      /\ \A q \in members' \ dead' : q \in pending' <=> q \in pending
  BY DEF Miss, Lose, Leave, RoomInv, RoomTypes
<1>2. RoomTypes'
  BY <1>1 DEF RoomInv, RoomTypes
<1>3. EnteredBefore'
  BY <1>1 DEF RoomInv, EnteredBefore
<1>4. HearsEverything'
  BY <1>1 DEF RoomInv, HearsEverything
<1> QED BY <1>2, <1>3, <1>4 DEF RoomInv

LEMMA RoomStep == ASSUME RoomInv, [RoomNext]_roomVars PROVE RoomInv'
<1>1. CASE UNCHANGED roomVars
  BY <1>1 DEF roomVars, RoomInv, RoomTypes, EnteredBefore, HearsEverything
<1>2. CASE RoomNext
  BY <1>2, PostKeeps, DeliverKeeps, EnterKeeps, FewerKeep DEF RoomNext
<1> QED BY <1>1, <1>2

(* A live member has heard exactly the events since it entered.             *)
THEOREM RoomHears == RoomSpec => []HearsEverything
<1>1. RoomInv => HearsEverything
  BY DEF RoomInv
<1> QED BY <1>1, RoomStart, RoomStep, PTL DEF RoomSpec
=============================================================================
