--------------------------- MODULE RobinHoodProofs ---------------------------
(***************************************************************************)
(* The hash map is in order whenever no call runs, and keeps its promise:  *)
(* for every hash function, every set of items and every size of table.    *)
(*                                                                         *)
(* Ordered, which the tests can see, is not inductive: it compares a       *)
(* bucket with its neighbour, and what set, delete and a resize rely on is *)
(* a fact about any two buckets.  WellPlaced states it: an item is never   *)
(* further from home than another bucket's item plus the way between the   *)
(* two.  It holds of the carried entry too (InFlight), so a place can be   *)
(* changed for the entry's without looking back; and it is why a key that  *)
(* has not been met before an item nearer to its home is not in the table. *)
(* While delete shifts a run, it holds of all buckets but the hole.        *)
(*                                                                         *)
(* What the table contains is compared with the dictionary the call is to  *)
(* leave (Keeps), together with the entry that is carried (Carries), or of *)
(* the old buckets that a resize has reached (Part).                       *)
(*                                                                         *)
(* An iteration is compared with a scan of the table (IterInv): it has     *)
(* been given what the scan finds before its cursor, as long as no step    *)
(* changes which key is in which bucket.                                   *)
(***************************************************************************)
EXTENDS RobinHood, FiniteSetTheorems, TLAPS

Slots(n) == 0 .. n - 1
After(j, n) == (j + 1) % n

(* The way from bucket j to bucket k, going up and around. *)
Dist(j, k, n) == IF j <= k THEN k - j ELSE k + n - j

Item == [key : Keys, val : Values, dib : Nat \ {0}]
Bucket == Item \cup {Empty}

(* The sizes reached from c by doubling. *)
SizesOver(c) ==
  {n \in Nat : \A S \in SUBSET Nat : c \in S /\ (\A m \in S : 2 * m \in S) => n \in S}
---------------------------------------------------------------------------
(* The buckets J of the table b of n. *)
WellPlaced(b, n, J) ==
  /\ \A j \in J : b[j] \in Bucket
  /\ \A j \in J : b[j].dib # 0 => b[j].dib = Dist(Home(b[j].key, n), j, n) + 1
  /\ \A j, k \in J : j # k => b[k].dib <= b[j].dib + Dist(j, k, n)
  /\ \A j, k \in J : b[j].dib # 0 /\ b[j].key = b[k].key => j = k

Occupied(b, J) == {j \in J : b[j].dib # 0}

(* The entry e has come to the bucket at. *)
InFlight(b, n, at, e) ==
  /\ at \in Slots(n) /\ e \in Item
  /\ e.dib = Dist(Home(e.key, n), at, n) + 1
  /\ \A j \in Slots(n) : j # at => e.dib <= b[j].dib + Dist(j, at, n)

(* No bucket between the home of the key k and the bucket at has that key. *)
NotMet(b, n, at, k) ==
  \A j \in Slots(n) : Dist(Home(k, n), j, n) < Dist(Home(k, n), at, n) => b[j].key # k

(* The buckets J hold what the dictionary d says; or they and the entry e do. *)
Keeps(b, J, d) ==
  /\ \A j \in J : b[j].dib # 0 => d[b[j].key] = b[j].val
  /\ \A k \in Keys : d[k] # NULL => \E j \in J : b[j].key = k

Carries(b, J, e, d) ==
  /\ \A j \in J : b[j].key # e.key
  /\ d[e.key] = e.val
  /\ \A j \in J : b[j].dib # 0 => d[b[j].key] = b[j].val
  /\ \A k \in Keys : d[k] # NULL /\ k # e.key => \E j \in J : b[j].key = k
---------------------------------------------------------------------------
InOrder == WellPlaced(buckets, nbuckets, Slots(nbuckets))
Counted == count = Cardinality(Occupied(buckets, Slots(nbuckets)))

(* What the call is to leave. *)
Without(k) == [before EXCEPT ![k] = NULL]
With == [before EXCEPT ![call.key] = call.val]
Due == IF call.op = "delete" THEN Without(call.key) ELSE before

(* The new table while a resize has reached the old bucket f. *)
Part(f) ==
  [k \in Keys |-> IF \E j \in 0 .. f - 1 : buckets[j].key = k THEN Due[k] ELSE NULL]

SizesInv ==
  /\ cap \in Nat /\ MinBuckets <= cap /\ nbuckets \in SizesOver(cap)
  /\ \E m \in Nat : nbuckets <= m /\ buckets \in [0 .. m - 1 -> Bucket]
  /\ loadfactor \in 50 .. 95 /\ growpower \in 1 .. 16
  /\ growat \in Nat /\ growat < nbuckets
  /\ count \in Nat /\ count < nbuckets
  /\ before \in [Keys -> Values \cup {NULL}]
  /\ oom \in BOOLEAN

CallInv ==
  /\ pc \in {"idle", "grow", "place", "find", "shift", "shrink", "rehash", "move"}
  /\ pc = "idle" <=> call = NoCall
  /\ pc # "idle" => call \in Promise!MapCalls
  /\ pc \in {"grow", "place"} => call.op = "set"
  /\ pc = "find" => call.op \in {"get", "delete"}
  /\ pc \in {"shift", "shrink"} => call.op = "delete"
  /\ pc \in {"rehash", "move"} => call.op \in {"set", "delete"}

TableInv ==
  /\ pc # "shift" => InOrder /\ Counted
  /\ pc \in {"grow", "find", "shrink", "rehash", "move"} =>
       Keeps(buckets, Slots(nbuckets), IF pc = "find" THEN before ELSE Due)
  /\ pc \in {"shift", "shrink", "rehash", "move"} /\ call.op = "delete" =>
       spare = before[call.key]
  /\ pc = "shrink" => cap < nbuckets /\ count <= shrinkat

PlaceInv ==
  pc = "place" =>
    /\ count + 1 < nbuckets
    /\ InFlight(buckets, nbuckets, i, entry)
    /\ \/ /\ entry.key = call.key /\ entry.val = call.val
          /\ Keeps(buckets, Slots(nbuckets), before)
          /\ NotMet(buckets, nbuckets, i, call.key)
       \/ /\ before[call.key] = NULL
          /\ Carries(buckets, Slots(nbuckets), entry, With)

FindInv ==
  pc = "find" => i \in Slots(nbuckets) /\ NotMet(buckets, nbuckets, i, call.key)

Others == Slots(nbuckets) \ {i}

ShiftInv ==
  pc = "shift" =>
    /\ i \in Slots(nbuckets)
    /\ WellPlaced(buckets, nbuckets, Others)
    /\ count = Cardinality(Occupied(buckets, Others)) + 1
    /\ \A j \in Others : buckets[j].key # call.key
    /\ Keeps(buckets, Others, Without(call.key))

ResizeInv ==
  pc \in {"rehash", "move"} =>
    /\ \E n \in SizesOver(cap) : map2 \in [Slots(n) -> Bucket]
    /\ from \in 0 .. nbuckets
    /\ IF call.op = "set" THEN count + 1 < Size2 ELSE count < Size2
    /\ WellPlaced(map2, Size2, Slots(Size2))
    /\ Cardinality(Occupied(map2, Slots(Size2))) = Cardinality(Occupied(buckets, Slots(from)))

MoveInv ==
  /\ pc = "rehash" => Keeps(map2, Slots(Size2), Part(from))
  /\ pc = "move" =>
       /\ from < nbuckets /\ buckets[from].dib # 0
       /\ InFlight(map2, Size2, i, entry)
       /\ Carries(map2, Slots(Size2), entry, Part(from + 1))

MapInv ==
  /\ SizesInv /\ CallInv /\ TableInv /\ PlaceInv /\ FindInv /\ ShiftInv
  /\ ResizeInv /\ MoveInv
---------------------------------------------------------------------------
(* The sizes of the table. *)
LEMMA SizeFacts ==
  ASSUME NEW c \in Nat
  PROVE  /\ c \in SizesOver(c)
         /\ \A n \in SizesOver(c) : n \in Nat /\ c <= n /\ 2 * n \in SizesOver(c)
         /\ \A n \in SizesOver(c) : n = c \/ \E k \in SizesOver(c) : n = 2 * k
<1>1. c \in SizesOver(c)
  BY DEF SizesOver
<1>2. ASSUME NEW n \in SizesOver(c) PROVE n \in Nat /\ c <= n /\ 2 * n \in SizesOver(c)
  <2>1. n \in Nat
    BY DEF SizesOver
  <2>2. c <= n
    <3> DEFINE S == {m \in Nat : c <= m}
    <3>1. S \in SUBSET Nat /\ c \in S /\ \A m \in S : 2 * m \in S
      BY SMT
    <3> HIDE DEF S
    <3>2. n \in S
      BY <3>1 DEF SizesOver
    <3> QED BY <3>2 DEF S
  <2>3. 2 * n \in SizesOver(c)
    <3> SUFFICES ASSUME NEW S \in SUBSET Nat, c \in S, \A m \in S : 2 * m \in S
                 PROVE  2 * n \in S
      BY <2>1 DEF SizesOver
    <3> QED BY DEF SizesOver
  <2> QED BY <2>1, <2>2, <2>3
<1>3. ASSUME NEW n \in SizesOver(c) PROVE n = c \/ \E k \in SizesOver(c) : n = 2 * k
  <2> DEFINE S == {m \in SizesOver(c) : m = c \/ \E k \in SizesOver(c) : m = 2 * k}
  <2>1. S \in SUBSET Nat
    BY <1>2
  <2>2. c \in S
    BY <1>1
  <2>3. \A m \in S : 2 * m \in S
    BY <1>2
  <2> HIDE DEF S
  <2>4. n \in S
    BY <2>1, <2>2, <2>3 DEF SizesOver
  <2> QED BY <2>4 DEF S
<1> QED BY <1>1, <1>2, <1>3

LEMMA Grown ==
  ASSUME NEW c \in Nat, NEW n \in SizesOver(c), NEW p \in 1 .. 16
  PROVE  n * 2 ^ p \in SizesOver(c) /\ 2 * n <= n * 2 ^ p
<1> DEFINE S == {x \in Nat : n * x \in SizesOver(c)}
<1>0. n \in Nat /\ \A m \in SizesOver(c) : 2 * m \in SizesOver(c)
  BY SizeFacts
<1>1. 2 ^ 0 \in S
  <2>1. n * 2 ^ 0 = n /\ 2 ^ 0 \in Nat
    BY <1>0
  <2> QED BY <2>1
<1>2. ASSUME NEW x \in S PROVE 2 * x \in S
  <2>1. x \in Nat /\ n * x \in SizesOver(c)
    OBVIOUS
  <2>2. n * (2 * x) = 2 * (n * x)
    BY <1>0, <2>1, SMT
  <2> QED BY <1>0, <2>1, <2>2
<1> HIDE DEF S
<1>3. 2 ^ 1 \in S /\ 2 ^ 2 \in S /\ 2 ^ 3 \in S /\ 2 ^ 4 \in S
  <2>1. 2 ^ 1 = 2 * 2 ^ 0 /\ 2 ^ 2 = 2 * 2 ^ 1 /\ 2 ^ 3 = 2 * 2 ^ 2 /\ 2 ^ 4 = 2 * 2 ^ 3
    OBVIOUS
  <2> QED BY <1>1, <1>2, <2>1, Zenon
<1>4. 2 ^ 5 \in S /\ 2 ^ 6 \in S /\ 2 ^ 7 \in S /\ 2 ^ 8 \in S
  <2>1. 2 ^ 5 = 2 * 2 ^ 4 /\ 2 ^ 6 = 2 * 2 ^ 5 /\ 2 ^ 7 = 2 * 2 ^ 6 /\ 2 ^ 8 = 2 * 2 ^ 7
    OBVIOUS
  <2> QED BY <1>3, <1>2, <2>1, Zenon
<1>5. 2 ^ 9 \in S /\ 2 ^ 10 \in S /\ 2 ^ 11 \in S /\ 2 ^ 12 \in S
  <2>1. 2 ^ 9 = 2 * 2 ^ 8 /\ 2 ^ 10 = 2 * 2 ^ 9 /\ 2 ^ 11 = 2 * 2 ^ 10 /\ 2 ^ 12 = 2 * 2 ^ 11
    OBVIOUS
  <2> QED BY <1>4, <1>2, <2>1, Zenon
<1>6. 2 ^ 13 \in S /\ 2 ^ 14 \in S /\ 2 ^ 15 \in S /\ 2 ^ 16 \in S
  <2>1. 2 ^ 13 = 2 * 2 ^ 12 /\ 2 ^ 14 = 2 * 2 ^ 13 /\ 2 ^ 15 = 2 * 2 ^ 14 /\ 2 ^ 16 = 2 * 2 ^ 15
    OBVIOUS
  <2> QED BY <1>5, <1>2, <2>1, Zenon
<1>7. \/ p = 1 \/ p = 2 \/ p = 3 \/ p = 4 \/ p = 5 \/ p = 6 \/ p = 7 \/ p = 8
      \/ p = 9 \/ p = 10 \/ p = 11 \/ p = 12 \/ p = 13 \/ p = 14 \/ p = 15 \/ p = 16
  OBVIOUS
<1> DEFINE w == 2 ^ p
<1>8. w \in S
  BY <1>3, <1>4, <1>5, <1>6, <1>7, Zenon
<1>9. w \in {2 ^ 1, 2 ^ 2, 2 ^ 3, 2 ^ 4, 2 ^ 5, 2 ^ 6, 2 ^ 7, 2 ^ 8, 2 ^ 9, 2 ^ 10,
               2 ^ 11, 2 ^ 12, 2 ^ 13, 2 ^ 14, 2 ^ 15, 2 ^ 16}
  BY <1>7, Zenon
<1> HIDE DEF w
<1>10. w \in Nat /\ 2 <= w
  BY <1>9
<1>11. 2 * n <= n * w
  <2>1. n * (w - 2) \in Nat
    BY <1>0, <1>10
  <2>2. n * (w - 2) = n * w - 2 * n
    BY <1>0, <1>10
  <2> QED BY <1>0, <1>10, <2>1, <2>2
<1> QED BY <1>8, <1>11 DEF S, w

LEMMA AtLeastTwo ==
  MinBuckets \in Nat /\ 2 <= MinBuckets
<1>1. MinBuckets \in Nat /\ \E e \in 1 .. MinBuckets : MinBuckets = 2 ^ e
  BY HashAssumption DEF HashAssumption
<1>2. MinBuckets # 0
  BY <1>1
<1>3. MinBuckets # 1
  <2> SUFFICES ASSUME MinBuckets = 1 PROVE FALSE
    OBVIOUS
  <2>1. 2 ^ 1 = 2
    BY SMT
  <2>2. 1 .. 1 = {1}
    BY SMT
  <2> QED BY <1>1, <2>1, <2>2
<1> QED BY <1>1, <1>2, <1>3

LEMMA HomeIn ==
  ASSUME NEW n \in Nat \ {0}, NEW k \in Keys
  PROVE  Home(k, n) \in Slots(n)
<1>1. Hash[k] \in Nat
  BY HashAssumption DEF HashAssumption
<1> QED BY <1>1, SMT DEF Home, Slots

LEMMA AfterIs ==
  ASSUME NEW n \in Nat \ {0}, NEW j \in Slots(n)
  PROVE  /\ After(j, n) = IF j + 1 = n THEN 0 ELSE j + 1
         /\ After(j, n) \in Slots(n)
BY SMT DEF After, Slots

LEMMA DistType ==
  ASSUME NEW n \in Nat, NEW j \in Slots(n), NEW k \in Slots(n)
  PROVE  Dist(j, k, n) \in Nat /\ Dist(j, k, n) < n
BY SMT DEF Dist, Slots

(* The way to the next bucket is one longer, but from that bucket itself. *)
LEMMA OneFurther ==
  ASSUME NEW n \in Nat, 2 <= n, NEW j \in Slots(n), NEW k \in Slots(n)
  PROVE  /\ After(k, n) # k
         /\ j # After(k, n) => Dist(j, After(k, n), n) = Dist(j, k, n) + 1
         /\ j = After(k, n) => Dist(j, After(k, n), n) = 0 /\ Dist(j, k, n) = n - 1
<1> DEFINE to == After(k, n)
<1>1. to = (IF k + 1 = n THEN 0 ELSE k + 1) /\ j \in Int /\ k \in Int
  BY AfterIs DEF Slots
<1> HIDE DEF to
<1>2. 0 <= j /\ j < n /\ 0 <= k /\ k < n
  BY DEF Slots
<1>3. to # k /\ Dist(j, to, n) = (IF j = to THEN 0 ELSE Dist(j, k, n) + 1)
  BY <1>1, <1>2, SMT DEF Dist
<1>4. j = to => Dist(j, k, n) = n - 1
  BY <1>1, <1>2, SMT DEF Dist
<1> QED BY <1>3, <1>4 DEF to

(* On the way from j to k, or beyond. *)
LEMMA DistAdd ==
  ASSUME NEW n \in Nat, NEW h \in Slots(n), NEW j \in Slots(n), NEW k \in Slots(n)
  PROVE  /\ Dist(h, j, n) <= Dist(h, k, n) => Dist(h, k, n) = Dist(h, j, n) + Dist(j, k, n)
         /\ Dist(h, j, n) = Dist(h, k, n) => j = k
         /\ Dist(h, h, n) = 0
BY SMT DEF Dist, Slots
---------------------------------------------------------------------------
(* A bucket is empty, or has an item. *)
LEMMA BucketFacts ==
  ASSUME NEW x \in Bucket
  PROVE  /\ x.dib \in Nat
         /\ x.dib # 0 => x \in Item /\ x.key \in Keys /\ x.val \in Values /\ x.key # NULL
         /\ x.dib = 0 => x = Empty /\ x.key = NULL
<1>1. NULL \notin Keys
  BY HashAssumption DEF HashAssumption
<1>2. CASE x \in Item
  BY <1>1, <1>2 DEF Item
<1>3. CASE x = Empty
  BY <1>3 DEF Empty
<1> QED BY <1>2, <1>3 DEF Bucket

LEMMA Dibs ==
  ASSUME NEW b, NEW n, NEW J, WellPlaced(b, n, J)
  PROVE  \A j \in J :
           /\ b[j] \in Bucket /\ b[j].dib \in Nat
           /\ b[j].dib # 0 => b[j] \in Item /\ b[j].key \in Keys /\ b[j].val \in Values
           /\ b[j].dib = 0 => b[j].key = NULL
BY BucketFacts DEF WellPlaced

(* An entry that has come to an empty bucket, or to one whose item is nearer *)
(* to its home, can be put down there.                                       *)
LEMMA PutDown ==
  ASSUME NEW n \in Nat, NEW b, NEW at, NEW e, NEW b2,
         WellPlaced(b, n, Slots(n)), InFlight(b, n, at, e),
         \A j \in Slots(n) : b[j].key # e.key,
         b[at].dib < e.dib,
         b2[at] = e, \A j \in Slots(n) : j # at => b2[j] = b[j]
  PROVE  WellPlaced(b2, n, Slots(n))
<1> DEFINE S == Slots(n)
<1>1. /\ at \in S /\ e \in Item /\ e.dib \in Nat /\ e.dib # 0 /\ e.key \in Keys
      /\ e.dib = Dist(Home(e.key, n), at, n) + 1
  BY DEF InFlight, Item
<1>2. \A j \in S : b[j] \in Bucket /\ b[j].dib \in Nat
  BY Dibs
<1>3. \A j \in S : b2[j] \in Bucket
  BY <1>1, <1>2 DEF Bucket
<1>4. \A j \in S : b2[j].dib # 0 => b2[j].dib = Dist(Home(b2[j].key, n), j, n) + 1
  <2> SUFFICES ASSUME NEW j \in S, b2[j].dib # 0
               PROVE  b2[j].dib = Dist(Home(b2[j].key, n), j, n) + 1
    OBVIOUS
  <2>1. CASE j = at
    BY <1>1, <2>1
  <2>2. CASE j # at
    BY <2>2 DEF WellPlaced
  <2> QED BY <2>1, <2>2
<1>5. \A j, k \in S : j # k => b2[k].dib <= b2[j].dib + Dist(j, k, n)
  <2> SUFFICES ASSUME NEW j \in S, NEW k \in S, j # k
               PROVE  b2[k].dib <= b2[j].dib + Dist(j, k, n)
    OBVIOUS
  <2>1. Dist(j, k, n) \in Nat /\ b[k].dib <= b[j].dib + Dist(j, k, n)
    <3>1. Dist(j, k, n) \in Nat
      BY SMT DEF Dist, Slots
    <3> QED BY <3>1 DEF WellPlaced
  <2>2. CASE k = at
    BY <1>1, <1>2, <2>1, <2>2 DEF InFlight
  <2>3. CASE j = at
    <3>1. b2[k].dib = b[k].dib /\ b2[j].dib = e.dib /\ b[j].dib < e.dib
      BY <2>3
    <3> QED BY <1>1, <1>2, <2>1, <3>1
  <2>4. CASE j # at /\ k # at
    BY <2>1, <2>4
  <2> QED BY <2>2, <2>3, <2>4
<1>6. \A j, k \in S : b2[j].dib # 0 /\ b2[j].key = b2[k].key => j = k
  <2> SUFFICES ASSUME NEW j \in S, NEW k \in S, b2[j].dib # 0, b2[j].key = b2[k].key
               PROVE  j = k
    OBVIOUS
  <2>1. CASE j = at \/ k = at
    BY <2>1
  <2>2. CASE j # at /\ k # at
    BY <2>2 DEF WellPlaced
  <2> QED BY <2>1, <2>2
<1> QED BY <1>3, <1>4, <1>5, <1>6 DEF WellPlaced

(* Where an empty bucket is, no carried entry has passed. *)
LEMMA CarryOn ==
  ASSUME NEW n \in Nat, 2 <= n, NEW b, NEW at, NEW e, NEW b2, NEW e2,
         WellPlaced(b, n, Slots(n)), InFlight(b, n, at, e),
         b[at].dib # 0, \E x \in Slots(n) : b[x].dib = 0,
         \A j \in Slots(n) : j # at => b2[j] = b[j],
         \/ /\ b[at].dib < e.dib /\ b2[at] = e
            /\ e2 = [b[at] EXCEPT !.dib = @ + 1]
         \/ /\ ~(b[at].dib < e.dib) /\ b2[at] = b[at]
            /\ e2 = [e EXCEPT !.dib = @ + 1]
  PROVE  InFlight(b2, n, After(at, n), e2)
<1> DEFINE S == Slots(n)
           to == After(at, n)
<1>1. /\ at \in S /\ e \in Item /\ e.dib \in Nat /\ e.dib # 0 /\ e.key \in Keys
      /\ e.dib = Dist(Home(e.key, n), at, n) + 1
  BY DEF InFlight, Item
<1>2. \A j \in S : b[j].dib \in Nat /\ (b[j].dib # 0 => b[j] \in Item /\ b[j].key \in Keys)
  BY Dibs
<1>3. to \in S /\ to = (IF at + 1 = n THEN 0 ELSE at + 1) /\ to # at
  BY <1>1, AfterIs, SMT DEF Slots
<1>4. /\ e2 \in Item /\ e2.key \in Keys
      /\ e2.dib \in Nat /\ e2.dib <= e.dib + 1 /\ e2.dib <= b2[at].dib + 1
      /\ e2.dib = Dist(Home(e2.key, n), at, n) + 2
  <2>0. ASSUME NEW k \in Keys PROVE Dist(Home(k, n), at, n) \in Nat
    BY <1>1, HomeIn, DistType
  <2>1. CASE b[at].dib < e.dib
    <3>1. b2[at] = e /\ e2 = [b[at] EXCEPT !.dib = @ + 1] /\ b[at] \in Item
      BY <1>1, <1>2, <2>1
    <3>2. e2 \in Item /\ e2.key = b[at].key /\ e2.dib = b[at].dib + 1
      BY <3>1 DEF Item
    <3>3. b[at].dib = Dist(Home(b[at].key, n), at, n) + 1
      BY <1>1 DEF WellPlaced
    <3> QED BY <1>1, <1>2, <2>0, <2>1, <3>1, <3>2, <3>3
  <2>2. CASE ~(b[at].dib < e.dib)
    <3>1. b2[at] = b[at] /\ e2 = [e EXCEPT !.dib = @ + 1]
      BY <2>2
    <3>2. e2 \in Item /\ e2.key = e.key /\ e2.dib = e.dib + 1
      BY <1>1, <3>1 DEF Item
    <3> QED BY <1>1, <1>2, <2>0, <2>2, <3>1, <3>2
  <2> QED BY <2>1, <2>2
<1> HIDE DEF to
<1>5. \A j \in S : j # to => e2.dib <= b2[j].dib + Dist(j, to, n)
  <2> SUFFICES ASSUME NEW j \in S, j # to PROVE e2.dib <= b2[j].dib + Dist(j, to, n)
    OBVIOUS
  <2>1. CASE j = at
    <3>1. Dist(at, to, n) = 1
      <4>1. Dist(at, at, n) = 0
        BY <1>1 DEF Dist, Slots
      <4> QED BY <1>1, <1>3, <4>1, OneFurther DEF to
    <3> QED BY <1>4, <2>1, <3>1
  <2>2. CASE j # at
    <3>1. Dist(j, at, n) \in Nat /\ Dist(j, to, n) = Dist(j, at, n) + 1
      BY <1>1, DistType, OneFurther DEF to
    <3>2. e.dib <= b[j].dib + Dist(j, at, n) /\ b2[j] = b[j]
      BY <2>2 DEF InFlight
    <3> QED BY <1>1, <1>2, <1>4, <3>1, <3>2
  <2> QED BY <2>1, <2>2
<1>6. e2.dib = Dist(Home(e2.key, n), to, n) + 1
  <2> DEFINE h == Home(e2.key, n)
  <2>1. h \in S
    BY <1>4, HomeIn
  <2>2. PICK x \in S : b[x].dib = 0
    OBVIOUS
  <2>3. e2.dib <= n
    <3>1. x # at /\ e.dib <= b[x].dib + Dist(x, at, n)
      BY <2>2 DEF InFlight
    <3>2. Dist(x, at, n) \in Nat /\ Dist(x, at, n) < n
      BY <1>1, DistType
    <3> QED BY <1>1, <1>4, <2>2, <3>1, <3>2
  <2> HIDE DEF h
  <2>4. Dist(h, at, n) \in Nat /\ e2.dib = Dist(h, at, n) + 2
    BY <1>1, <1>4, <2>1, DistType DEF h
  <2>5. h # to
    BY <1>1, <2>1, <2>3, <2>4, OneFurther DEF to
  <2>6. Dist(h, to, n) = Dist(h, at, n) + 1
    BY <1>1, <2>1, <2>5, OneFurther DEF to
  <2> QED BY <2>4, <2>6 DEF h
<1> QED BY <1>3, <1>4, <1>5, <1>6 DEF InFlight, to

(* A key that has not been met on the way from its home is not in the table, *)
(* if the next bucket is empty or has an item nearer to its home than that   *)
(* key would be.                                                             *)
LEMMA NotAhead ==
  ASSUME NEW n \in Nat, 2 <= n, NEW b, WellPlaced(b, n, Slots(n)), NEW at \in Slots(n),
         NEW k \in Keys, NotMet(b, n, at, k), b[at].dib <= Dist(Home(k, n), at, n)
  PROVE  \A j \in Slots(n) : b[j].key # k
<1> SUFFICES ASSUME NEW j \in Slots(n), b[j].key = k PROVE FALSE
  OBVIOUS
<1> DEFINE h == Home(k, n)
<1>1. h \in Slots(n)
  BY HomeIn
<1>2. /\ Dist(h, j, n) \in Nat /\ Dist(h, at, n) \in Nat /\ Dist(at, j, n) \in Nat
      /\ b[j].dib \in Nat /\ b[at].dib \in Nat
  BY <1>1, DistType, Dibs
<1>3. b[j].dib # 0
  <2>1. NULL \notin Keys
    BY HashAssumption DEF HashAssumption
  <2> QED BY <2>1, Dibs
<1>4. b[j].dib = Dist(h, j, n) + 1
  BY <1>3 DEF WellPlaced
<1>5. ~(Dist(h, j, n) < Dist(h, at, n))
  BY DEF NotMet
<1>6. Dist(h, j, n) = Dist(h, at, n) + Dist(at, j, n)
  BY <1>1, <1>2, <1>5, DistAdd
<1>7. j # at
  BY <1>2, <1>4
<1>8. b[j].dib <= b[at].dib + Dist(at, j, n)
  BY <1>7 DEF WellPlaced
<1> HIDE DEF h
<1> QED BY <1>2, <1>4, <1>6, <1>8 DEF h

(* At home nothing has been met, and what the next bucket adds is its key. *)
LEMMA MetAtHome ==
  ASSUME NEW n \in Nat, 2 <= n, NEW b, NEW k \in Keys
  PROVE  NotMet(b, n, Home(k, n), k)
<1>1. Home(k, n) \in Slots(n)
  BY HomeIn
<1> QED BY <1>1, DistType, DistAdd DEF NotMet

LEMMA MetNext ==
  ASSUME NEW n \in Nat, 2 <= n, NEW b, NEW at \in Slots(n), NEW k \in Keys,
         NotMet(b, n, at, k), b[at].key # k
  PROVE  NotMet(b, n, After(at, n), k)
<1> DEFINE h == Home(k, n)
           to == After(at, n)
<1>1. h \in Slots(n) /\ to \in Slots(n)
  BY HomeIn, AfterIs
<1> SUFFICES ASSUME NEW j \in Slots(n), Dist(h, j, n) < Dist(h, to, n)
             PROVE  b[j].key # k
  BY DEF NotMet
<1> HIDE DEF h, to
<1>2. Dist(h, j, n) \in Nat /\ Dist(h, at, n) \in Nat
  BY <1>1, DistType
<1>3. h # to /\ Dist(h, to, n) = Dist(h, at, n) + 1
  BY <1>1, <1>2, OneFurther DEF to
<1>4. Dist(h, j, n) < Dist(h, at, n) \/ Dist(h, j, n) = Dist(h, at, n)
  BY <1>2, <1>3
<1>5. CASE Dist(h, j, n) < Dist(h, at, n)
  BY <1>5 DEF NotMet, h
<1>6. CASE Dist(h, j, n) = Dist(h, at, n)
  BY <1>1, <1>6, DistAdd
<1> QED BY <1>4, <1>5, <1>6
---------------------------------------------------------------------------
(* What the table holds, while an entry is carried through it. *)
LEMMA CarriesPut ==
  ASSUME NEW b, NEW J, NEW e, NEW d, NEW at \in J, NEW b2,
         Carries(b, J, e, d), b[at].key \notin Keys,
         b2[at] = e, \A j \in J : j # at => b2[j] = b[j]
  PROVE  Keeps(b2, J, d)
<1>1. \A j \in J : b2[j].dib # 0 => d[b2[j].key] = b2[j].val
  BY DEF Carries
<1>2. \A k \in Keys : d[k] # NULL => \E j \in J : b2[j].key = k
  BY DEF Carries
<1> QED BY <1>1, <1>2 DEF Keeps

LEMMA CarriesExchanged ==
  ASSUME NEW b, NEW n, NEW e, NEW d, NEW at \in Slots(n), NEW b2, NEW e2,
         WellPlaced(b, n, Slots(n)), Carries(b, Slots(n), e, d), b[at].dib # 0,
         b2[at] = e, \A j \in Slots(n) : j # at => b2[j] = b[j],
         e2.key = b[at].key, e2.val = b[at].val
  PROVE  Carries(b2, Slots(n), e2, d)
<1> DEFINE S == Slots(n)
<1>1. \A j \in S : b2[j].key # e2.key
  <2>1. \A j \in S : b[at].key = b[j].key => at = j
    BY DEF WellPlaced
  <2> QED BY <2>1 DEF Carries
<1>2. d[e2.key] = e2.val
  BY DEF Carries
<1>3. \A j \in S : b2[j].dib # 0 => d[b2[j].key] = b2[j].val
  BY DEF Carries
<1>4. ASSUME NEW k \in Keys, d[k] # NULL, k # e2.key PROVE \E j \in S : b2[j].key = k
  <2>1. CASE k = e.key
    BY <2>1
  <2>2. CASE k # e.key
    <3>1. PICK j \in S : b[j].key = k
      BY <1>4, <2>2 DEF Carries
    <3>2. j # at
      BY <1>4, <3>1
    <3> QED BY <3>1, <3>2
  <2> QED BY <2>1, <2>2
<1> QED BY <1>1, <1>2, <1>3, <1>4 DEF Carries

LEMMA CarriesBegun ==
  ASSUME NEW b, NEW J, NEW d \in [Keys -> Values \cup {NULL}], NEW e \in Item,
         Keeps(b, J, d), \A j \in J : b[j].dib # 0 => b[j].key \in Keys,
         \A j \in J : b[j].key # e.key
  PROVE  Carries(b, J, e, [d EXCEPT ![e.key] = e.val])
BY DEF Keeps, Carries, Item

(* The value of an item is replaced. *)
LEMMA Replaced ==
  ASSUME NEW b, NEW n, NEW d \in [Keys -> Values \cup {NULL}], NEW at \in Slots(n), NEW b2,
         NEW d2, WellPlaced(b, n, Slots(n)), Keeps(b, Slots(n), d), b[at].dib # 0,
         b2[at] \in Item, b2[at].key = b[at].key, b2[at].dib = b[at].dib,
         \A j \in Slots(n) : j # at => b2[j] = b[j],
         d2[b[at].key] = b2[at].val, \A k \in Keys : k # b[at].key => d2[k] = d[k]
  PROVE  /\ WellPlaced(b2, n, Slots(n)) /\ Keeps(b2, Slots(n), d2)
         /\ Occupied(b2, Slots(n)) = Occupied(b, Slots(n))
         /\ d[b[at].key] = b[at].val
<1> DEFINE S == Slots(n)
           k0 == b[at].key
<1>1. k0 \in Keys
  BY Dibs
<1>3. \A j \in S : b2[j].key = b[j].key /\ b2[j].dib = b[j].dib
  OBVIOUS
<1>4. WellPlaced(b2, n, S)
  <2>1. \A j \in S : b2[j] \in Bucket
    BY DEF WellPlaced, Bucket
  <2> QED BY <1>3, <2>1 DEF WellPlaced
<1>5. \A j \in S : b[j].dib # 0 => b[j].key \in Keys
  BY Dibs
<1>6. \A j \in S : k0 = b[j].key => at = j
  BY DEF WellPlaced
<1>7. Keeps(b2, S, d2)
  <2>1. \A j \in S : b2[j].dib # 0 => d2[b2[j].key] = b2[j].val
    BY <1>1, <1>3, <1>5, <1>6 DEF Keeps
  <2>2. ASSUME NEW k \in Keys, d2[k] # NULL PROVE \E j \in S : b2[j].key = k
    <3>1. CASE k = k0
      BY <3>1
    <3>2. CASE k # k0
      BY <1>3, <2>2, <3>2 DEF Keeps
    <3> QED BY <3>1, <3>2
  <2> QED BY <2>1, <2>2 DEF Keeps
<1> QED BY <1>3, <1>4, <1>7 DEF Keeps, Occupied
---------------------------------------------------------------------------
(* The hole takes the item behind it, which is not at home, and goes on. *)
LEMMA HoleMoves ==
  ASSUME nbuckets \in Nat, 2 <= nbuckets, i \in Slots(nbuckets), NEW d,
         NEW to, to = After(i, nbuckets), NEW J, J = Slots(nbuckets) \ {i},
         NEW K, K = Slots(nbuckets) \ {to},
         WellPlaced(buckets, nbuckets, J), Keeps(buckets, J, d), buckets[to].dib > 1,
         buckets'[i] \in Item, buckets'[i].dib = buckets[to].dib - 1,
         buckets'[i].key = buckets[to].key, buckets'[i].val = buckets[to].val,
         \A j \in J : buckets'[j] = buckets[j]
  PROVE  /\ WellPlaced(buckets', nbuckets, K) /\ Keeps(buckets', K, d)
         /\ Occupied(buckets', K) = (Occupied(buckets, J) \ {to}) \cup {i}
         /\ to \in Occupied(buckets, J) /\ i \notin Occupied(buckets, J)
<1> DEFINE b == buckets
           b2 == buckets'
           n == nbuckets
           at == i
<1>1. to \in J /\ to \in Slots(n) /\ at \in K
  BY AfterIs, OneFurther
<1>2. \A j \in J : b[j] \in Bucket /\ b[j].dib \in Nat /\ (b[j].dib # 0 => b[j] \in Item)
  BY Dibs
<1>3. /\ b2[at] \in Item /\ b2[at].key = b[to].key /\ b2[at].val = b[to].val
      /\ b2[at].dib = b[to].dib - 1 /\ b2[at].dib \in Nat /\ b2[at].dib # 0
      /\ b[to].dib \in Nat /\ b[to].dib # 0
  <2>1. b[to] \in Item /\ b[to].dib \in Nat /\ b[to].dib > 1
    BY <1>1, <1>2
  <2> QED BY <2>1
<1>4. \A j \in K : j # at => j \in J /\ b2[j] = b[j]
  OBVIOUS
<1>5. \A j \in K : b2[j] \in Bucket
  BY <1>2, <1>3, <1>4 DEF Bucket
<1>6. \A j \in K : b2[j].dib # 0 => b2[j].dib = Dist(Home(b2[j].key, n), j, n) + 1
  <2> SUFFICES ASSUME NEW j \in K, b2[j].dib # 0
               PROVE  b2[j].dib = Dist(Home(b2[j].key, n), j, n) + 1
    OBVIOUS
  <2>1. CASE j # at
    BY <1>4, <2>1 DEF WellPlaced
  <2>2. CASE j = at
    <3> DEFINE h == Home(b[to].key, n)
    <3>1. h \in Slots(n)
      <4>1. b[to].key \in Keys
        BY <1>1, <1>2, <1>3, Dibs
      <4> QED BY <4>1, HomeIn
    <3>2. b[to].dib = Dist(h, to, n) + 1
      BY <1>1, <1>2 DEF WellPlaced
    <3> HIDE DEF h
    <3>3. Dist(h, to, n) \in Nat /\ Dist(h, at, n) \in Nat
      BY <1>1, <3>1, DistType
    <3>4. h # to
      BY <1>3, <3>1, <3>2, OneFurther
    <3>5. Dist(h, to, n) = Dist(h, at, n) + 1
      BY <3>1, <3>4, OneFurther
    <3>6. b2[at].dib = Dist(h, at, n) + 1
      BY <1>3, <3>2, <3>3, <3>5
    <3> QED BY <1>3, <2>2, <3>6 DEF h
  <2> QED BY <2>1, <2>2
<1>7. \A j, k \in K : j # k => b2[k].dib <= b2[j].dib + Dist(j, k, n)
  <2> SUFFICES ASSUME NEW j \in K, NEW k \in K, j # k
               PROVE  b2[k].dib <= b2[j].dib + Dist(j, k, n)
    OBVIOUS
  <2>1. CASE j # at /\ k # at
    BY <1>4, <2>1 DEF WellPlaced
  <2>2. CASE k = at
    <3>1. j \in J /\ b2[j] = b[j] /\ j # to /\ b[j].dib \in Nat /\ b[to].dib \in Nat
      BY <1>1, <1>2, <2>2
    <3>2. b[to].dib <= b[j].dib + Dist(j, to, n)
      BY <1>1, <3>1 DEF WellPlaced
    <3>3. Dist(j, to, n) = Dist(j, at, n) + 1 /\ Dist(j, at, n) \in Nat
      BY <3>1, DistType, OneFurther
    <3>4. b2[at].dib <= b[j].dib + Dist(j, at, n)
      BY <1>3, <3>1, <3>2, <3>3
    <3> QED BY <2>2, <3>1, <3>4
  <2>3. CASE j = at
    <3>1. k \in J /\ b2[k] = b[k] /\ k # to /\ b[k].dib \in Nat /\ b[to].dib \in Nat
      BY <1>1, <1>2, <2>3
    <3>2. b[k].dib <= b[to].dib + Dist(to, k, n)
      BY <1>1, <3>1 DEF WellPlaced
    <3>3. Dist(at, k, n) = Dist(to, k, n) + 1 /\ Dist(to, k, n) \in Nat
      <4>1. Dist(at, to, n) = 1
        <5>1. at # to /\ Dist(at, at, n) = 0
          BY <1>1, DistAdd
        <5> QED BY <5>1, OneFurther
      <4>2. Dist(at, k, n) \in Nat /\ Dist(at, k, n) # 0
        <5>1. Dist(at, at, n) = 0 /\ (Dist(at, at, n) = Dist(at, k, n) => at = k)
          BY <3>1, DistAdd
        <5> QED BY <2>3, <3>1, <5>1, DistType
      <4>3. Dist(at, k, n) = Dist(at, to, n) + Dist(to, k, n)
        BY <1>1, <3>1, <4>1, <4>2, DistAdd
      <4>4. Dist(to, k, n) \in Nat
        BY <1>1, <3>1, DistType
      <4> QED BY <4>1, <4>3, <4>4
    <3>4. b[k].dib <= b2[at].dib + Dist(at, k, n)
      BY <1>3, <3>1, <3>2, <3>3
    <3> QED BY <2>3, <3>1, <3>4
  <2> QED BY <2>1, <2>2, <2>3
<1>8. \A j, k \in K : b2[j].dib # 0 /\ b2[j].key = b2[k].key => j = k
  <2> SUFFICES ASSUME NEW j \in K, NEW k \in K, b2[j].dib # 0, b2[j].key = b2[k].key, j # k
               PROVE  FALSE
    OBVIOUS
  <2>1. CASE j # at /\ k # at
    BY <1>4, <2>1 DEF WellPlaced
  <2>2. CASE j = at
    <3>1. k \in J /\ k # to /\ b[to].dib # 0 /\ b[to].key = b[k].key
      BY <1>1, <1>2, <1>3, <1>4, <2>2
    <3> QED BY <1>1, <3>1 DEF WellPlaced
  <2>3. CASE k = at
    <3>1. j \in J /\ j # to /\ b[j].dib # 0 /\ b[to].key = b[j].key
      BY <1>1, <1>3, <1>4, <2>3
    <3> QED BY <1>1, <3>1 DEF WellPlaced
  <2> QED BY <2>1, <2>2, <2>3
<1>9. Keeps(b2, K, d)
  <2>0. d[b[to].key] = b[to].val /\ \A j \in J : b[j].dib # 0 => d[b[j].key] = b[j].val
    BY <1>1, <1>3 DEF Keeps
  <2>1. \A j \in K : b2[j].dib # 0 => d[b2[j].key] = b2[j].val
    <3> SUFFICES ASSUME NEW j \in K, b2[j].dib # 0 PROVE d[b2[j].key] = b2[j].val
      OBVIOUS
    <3>1. CASE j = at
      BY <1>3, <2>0, <3>1
    <3>2. CASE j # at
      BY <1>4, <2>0, <3>2
    <3> QED BY <3>1, <3>2
  <2>2. ASSUME NEW x \in Keys, d[x] # NULL PROVE \E j \in K : b2[j].key = x
    <3>1. PICK j \in J : b[j].key = x
      BY <2>2 DEF Keeps
    <3> QED BY <1>1, <1>3, <1>4, <3>1
  <2> QED BY <2>1, <2>2 DEF Keeps
<1>10. /\ Occupied(b2, K) = (Occupied(b, J) \ {to}) \cup {at}
       /\ to \in Occupied(b, J) /\ at \notin Occupied(b, J)
  BY <1>1, <1>2, <1>3, <1>4 DEF Occupied
<1>11. WellPlaced(b2, n, K)
  BY <1>5, <1>6, <1>7, <1>8 DEF WellPlaced
<1> QED BY <1>9, <1>10, <1>11

(* The item behind the hole is at home, or there is none: the hole stays. *)
LEMMA HoleClosed ==
  ASSUME NEW b, NEW n \in Nat, 2 <= n, NEW at \in Slots(n), NEW b2, NEW d,
         NEW to, to = After(at, n), NEW J, J = Slots(n) \ {at},
         WellPlaced(b, n, J), Keeps(b, J, d), b[to].dib <= 1,
         b2[at] = Empty, \A j \in J : b2[j] = b[j]
  PROVE  /\ WellPlaced(b2, n, Slots(n)) /\ Keeps(b2, Slots(n), d)
         /\ Occupied(b2, Slots(n)) = Occupied(b, J)
<1> DEFINE S == Slots(n)
<1>1. to \in J /\ to \in S /\ b[to].dib <= 1
  BY AfterIs, OneFurther
<1>2. \A j \in J : b[j] \in Bucket /\ b[j].dib \in Nat /\ b[j].key \in Keys \cup {NULL}
  BY Dibs
<1>3. b2[at].dib = 0 /\ b2[at].key = NULL /\ b2[at] \in Bucket
  BY DEF Empty, Bucket
<1>4. \A j \in S : j # at => j \in J /\ b2[j] = b[j]
  OBVIOUS
<1>5. \A j \in S : b2[j] \in Bucket
  BY <1>2, <1>3, <1>4
<1>6. \A j \in S : b2[j].dib # 0 => b2[j].dib = Dist(Home(b2[j].key, n), j, n) + 1
  BY <1>3, <1>4 DEF WellPlaced
<1>7. \A j, k \in S : j # k => b2[k].dib <= b2[j].dib + Dist(j, k, n)
  <2> SUFFICES ASSUME NEW j \in S, NEW k \in S, j # k
               PROVE  b2[k].dib <= b2[j].dib + Dist(j, k, n)
    OBVIOUS
  <2>0. Dist(j, k, n) \in Nat
    BY DistType
  <2>1. CASE j # at /\ k # at
    BY <1>4, <2>1 DEF WellPlaced
  <2>2. CASE k = at
    BY <1>2, <1>3, <1>4, <2>0, <2>2
  <2>3. CASE j = at
    <3>1. k \in J /\ b2[k] = b[k] /\ b[k].dib \in Nat /\ b[to].dib \in Nat
      BY <1>1, <1>2, <2>3
    <3>2. Dist(at, k, n) # 0
      BY <2>3, <3>1, DistAdd
    <3>3. CASE k = to
      BY <1>1, <1>3, <2>0, <2>3, <3>1, <3>2, <3>3
    <3>4. CASE k # to
      <4>1. b[k].dib <= b[to].dib + Dist(to, k, n)
        BY <1>1, <3>1, <3>4 DEF WellPlaced
      <4>2. Dist(at, to, n) = 1
        <5>1. at # to /\ Dist(at, at, n) = 0
          BY <1>1, DistAdd
        <5> QED BY <5>1, OneFurther
      <4>3. Dist(at, k, n) = Dist(at, to, n) + Dist(to, k, n)
        BY <1>1, <2>0, <2>3, <3>1, <3>2, <4>2, DistAdd
      <4>4. Dist(to, k, n) \in Nat
        BY <1>1, <3>1, DistType
      <4> QED BY <1>1, <1>3, <2>3, <3>1, <4>1, <4>2, <4>3, <4>4
    <3> QED BY <3>3, <3>4
  <2> QED BY <2>1, <2>2, <2>3
<1>8. \A j, k \in S : b2[j].dib # 0 /\ b2[j].key = b2[k].key => j = k
  <2> SUFFICES ASSUME NEW j \in S, NEW k \in S, b2[j].dib # 0, b2[j].key = b2[k].key, j # k
               PROVE  FALSE
    OBVIOUS
  <2>1. CASE j # at /\ k # at
    BY <1>4, <2>1 DEF WellPlaced
  <2>2. CASE k = at
    <3>1. j \in J /\ b[j].dib # 0 /\ b[j].key = NULL
      BY <1>3, <1>4, <2>2
    <3>2. b[j].key \in Keys /\ NULL \notin Keys
      BY <3>1, Dibs, HashAssumption DEF HashAssumption
    <3> QED BY <3>1, <3>2
  <2> QED BY <1>3, <2>1, <2>2
<1>9. Keeps(b2, S, d)
  BY <1>3, <1>4 DEF Keeps
<1>10. Occupied(b2, S) = Occupied(b, J)
  BY <1>3, <1>4 DEF Occupied
<1>11. WellPlaced(b2, n, S)
  BY <1>5, <1>6, <1>7, <1>8 DEF WellPlaced
<1> QED BY <1>9, <1>10, <1>11
---------------------------------------------------------------------------
(* How many items there are, and that not every bucket has one. *)
LEMMA OccupiedFinite ==
  ASSUME NEW b, NEW n \in Nat, NEW J \in SUBSET Slots(n)
  PROVE  /\ IsFiniteSet(Occupied(b, J)) /\ Cardinality(Occupied(b, J)) \in Nat
         /\ Cardinality(Occupied(b, J)) <= n
         /\ Cardinality(Slots(n)) = n
<1>1. IsFiniteSet(Slots(n)) /\ Cardinality(Slots(n)) = n
  <2>1. 0 \in Int /\ n - 1 \in Int /\ (0 > n - 1 => n = 0) /\ (n - 1) - 0 + 1 = n
    OBVIOUS
  <2> QED BY <2>1, FS_Interval DEF Slots
<1>2. Occupied(b, J) \in SUBSET Slots(n)
  BY DEF Occupied
<1> QED BY <1>1, <1>2, FS_Subset, FS_CardinalityType

LEMMA SomeEmpty ==
  ASSUME NEW b, NEW n \in Nat, Cardinality(Occupied(b, Slots(n))) < n
  PROVE  \E x \in Slots(n) : b[x].dib = 0
<1> SUFFICES ASSUME \A x \in Slots(n) : b[x].dib # 0 PROVE FALSE
  OBVIOUS
<1>1. Occupied(b, Slots(n)) = Slots(n)
  BY DEF Occupied
<1>2. Cardinality(Slots(n)) = n
  BY OccupiedFinite
<1> QED BY <1>1, <1>2

(* An item comes to a bucket that had none, or goes. *)
LEMMA OneMore ==
  ASSUME NEW b, NEW n \in Nat, NEW J \in SUBSET Slots(n), NEW x, x \notin Occupied(b, J)
  PROVE  Cardinality(Occupied(b, J) \cup {x}) = Cardinality(Occupied(b, J)) + 1
<1>1. IsFiniteSet(Occupied(b, J))
  BY OccupiedFinite
<1> QED BY <1>1, FS_AddElement

LEMMA OneLess ==
  ASSUME NEW b, NEW n \in Nat, NEW J \in SUBSET Slots(n), NEW x \in Occupied(b, J)
  PROVE  Cardinality(Occupied(b, J)) = Cardinality(Occupied(b, J) \ {x}) + 1
<1>1. IsFiniteSet(Occupied(b, J)) /\ Cardinality(Occupied(b, J)) \in Nat
  BY OccupiedFinite
<1>2. Cardinality(Occupied(b, J) \ {x}) = Cardinality(Occupied(b, J)) - 1
  BY <1>1, FS_RemoveElement
<1> QED BY <1>1, <1>2

(* A table of empty buckets. *)
LEMMA AllEmpty ==
  ASSUME NEW b, NEW n \in Nat, \A j \in Slots(n) : b[j] = Empty
  PROVE  /\ WellPlaced(b, n, Slots(n))
         /\ Occupied(b, Slots(n)) = {} /\ Cardinality(Occupied(b, Slots(n))) = 0
         /\ \A d : (\A k \in Keys : d[k] = NULL) => Keeps(b, Slots(n), d)
<1>1. Empty \in Bucket /\ Empty.dib = 0
  BY DEF Empty, Bucket
<1>2. Occupied(b, Slots(n)) = {}
  BY <1>1 DEF Occupied
<1>3. \A j, k \in Slots(n) : b[k].dib <= b[j].dib + Dist(j, k, n)
  BY <1>1, DistType
<1>4. WellPlaced(b, n, Slots(n))
  BY <1>1, <1>3 DEF WellPlaced
<1> QED BY <1>1, <1>2, <1>4, FS_EmptySet DEF Keeps

(* An entry begins at its home. *)
LEMMA InFlightAtHome ==
  ASSUME NEW n \in Nat, 2 <= n, NEW b, WellPlaced(b, n, Slots(n)), NEW e \in Item, e.dib = 1
  PROVE  InFlight(b, n, Home(e.key, n), e)
<1> DEFINE h == Home(e.key, n)
<1>1. h \in Slots(n) /\ Dist(h, h, n) = 0
  <2>1. e.key \in Keys
    BY DEF Item
  <2> QED BY <2>1, HomeIn, DistAdd
<1>2. \A j \in Slots(n) : j # h => 1 <= b[j].dib + Dist(j, h, n)
  <2> SUFFICES ASSUME NEW j \in Slots(n), j # h PROVE 1 <= b[j].dib + Dist(j, h, n)
    OBVIOUS
  <2>1. b[j].dib \in Nat /\ Dist(j, h, n) \in Nat
    BY <1>1, Dibs, DistType
  <2>2. Dist(j, h, n) # 0
    <3>1. Dist(j, j, n) = 0
      BY DistAdd
    <3> QED BY <1>1, <3>1, DistAdd
  <2> QED BY <2>1, <2>2
<1> QED BY <1>1, <1>2 DEF InFlight

(* Less than the whole table is filled before it grows. *)
LEMMA GrowAtLess ==
  ASSUME NEW n \in Nat, n # 0, NEW f \in 0 .. 95
  PROVE  GrowAt(n, f) \in Nat /\ GrowAt(n, f) < n
<1> DEFINE w == n * f
<1>1. w \in Nat /\ w <= 95 * n
  <2>1. n * (95 - f) \in Nat
    OBVIOUS
  <2>2. n * (95 - f) = 95 * n - n * f
    OBVIOUS
  <2>3. n * f \in Nat
    OBVIOUS
  <2> QED BY <2>1, <2>2, <2>3
<1> HIDE DEF w
<1>2. w \div 100 \in Nat /\ w \div 100 < n
  BY <1>1, SMT
<1> QED BY <1>2 DEF GrowAt, w
---------------------------------------------------------------------------
(* The dictionary of a table that is in order. *)
DictOf(b, n) ==
  [k \in Keys |->
     IF \E j \in Slots(n) : b[j].key = k
     THEN b[CHOOSE j \in Slots(n) : b[j].key = k].val
     ELSE NULL]

LEMMA DictIs == Dict = DictOf(buckets, nbuckets)
BY DEF Dict, DictOf, Slots

LEMMA DictKept ==
  ASSUME NEW b, NEW n, NEW d \in [Keys -> Values \cup {NULL}],
         WellPlaced(b, n, Slots(n)), Keeps(b, Slots(n), d)
  PROVE  DictOf(b, n) = d
<1> SUFFICES ASSUME NEW k \in Keys PROVE DictOf(b, n)[k] = d[k]
  BY DEF DictOf
<1>1. CASE \E j \in Slots(n) : b[j].key = k
  <2> DEFINE c == CHOOSE j \in Slots(n) : b[j].key = k
  <2>1. c \in Slots(n) /\ b[c].key = k
    BY <1>1
  <2>2. DictOf(b, n)[k] = b[c].val
    BY <1>1 DEF DictOf
  <2> HIDE DEF c
  <2>3. b[c].dib # 0
    <3>1. NULL \notin Keys
      BY HashAssumption DEF HashAssumption
    <3> QED BY <2>1, <3>1, Dibs
  <2> QED BY <2>1, <2>2, <2>3 DEF Keeps
<1>2. CASE ~(\E j \in Slots(n) : b[j].key = k)
  BY <1>2 DEF Keeps, DictOf
<1> QED BY <1>1, <1>2

LEMMA KeepsDict ==
  ASSUME NEW b, NEW n, WellPlaced(b, n, Slots(n))
  PROVE  /\ DictOf(b, n) \in [Keys -> Values \cup {NULL}]
         /\ Keeps(b, Slots(n), DictOf(b, n))
<1> DEFINE d == DictOf(b, n)
           c(k) == CHOOSE j \in Slots(n) : b[j].key = k
<1>0. NULL \notin Keys
  BY HashAssumption DEF HashAssumption
<1>1. ASSUME NEW k \in Keys, \E j \in Slots(n) : b[j].key = k
      PROVE  /\ c(k) \in Slots(n) /\ b[c(k)].key = k /\ d[k] = b[c(k)].val
             /\ b[c(k)].val \in Values
  <2>1. c(k) \in Slots(n) /\ b[c(k)].key = k
    BY <1>1
  <2>2. b[c(k)].dib # 0
    BY <1>0, <2>1, Dibs
  <2> QED BY <1>1, <2>1, <2>2, Dibs DEF DictOf
<1>2. \A k \in Keys : d[k] # NULL => \E j \in Slots(n) : b[j].key = k
  BY DEF DictOf
<1>3. d \in [Keys -> Values \cup {NULL}]
  BY <1>1 DEF DictOf
<1>4. ASSUME NEW j \in Slots(n), b[j].dib # 0 PROVE d[b[j].key] = b[j].val
  <2>1. b[j].key \in Keys
    BY <1>4, Dibs
  <2>2. /\ c(b[j].key) \in Slots(n) /\ b[c(b[j].key)].key = b[j].key
        /\ d[b[j].key] = b[c(b[j].key)].val
    BY <1>1, <2>1
  <2> HIDE DEF c, d
  <2>3. c(b[j].key) = j
    BY <1>4, <2>2 DEF WellPlaced
  <2> QED BY <2>2, <2>3
<1> HIDE DEF d
<1> QED BY <1>2, <1>3, <1>4 DEF Keeps, d
---------------------------------------------------------------------------
(* What every step can use of the sizes. *)
LEMMA Sizes ==
  ASSUME SizesInv
  PROVE  /\ nbuckets \in Nat /\ 2 <= nbuckets /\ cap \in Nat /\ 2 <= cap /\ cap <= nbuckets
         /\ \A j \in Slots(nbuckets) : j \in DOMAIN buckets
<1>1. MinBuckets \in Nat /\ 2 <= MinBuckets
  BY AtLeastTwo
<1>2. cap \in Nat /\ 2 <= cap
  BY <1>1 DEF SizesInv
<1>3. nbuckets \in Nat /\ cap <= nbuckets
  BY <1>2, SizeFacts DEF SizesInv
<1>4. PICK m \in Nat : nbuckets <= m /\ buckets \in [0 .. m - 1 -> Bucket]
  BY DEF SizesInv
<1>5. \A j \in Slots(nbuckets) : j \in DOMAIN buckets
  BY <1>3, <1>4 DEF Slots
<1> QED BY <1>2, <1>3, <1>5

(* A bucket of the table changes. *)
LEMMA Changed ==
  ASSUME SizesInv, NEW at \in Slots(nbuckets), NEW x \in Bucket,
         buckets' = [buckets EXCEPT ![at] = x]
  PROVE  /\ buckets'[at] = x /\ \A j \in Slots(nbuckets) : j # at => buckets'[j] = buckets[j]
         /\ \E m \in Nat : nbuckets <= m /\ buckets' \in [0 .. m - 1 -> Bucket]
<1>1. PICK m \in Nat : nbuckets <= m /\ buckets \in [0 .. m - 1 -> Bucket]
  BY DEF SizesInv
<1>2. nbuckets \in Nat
  BY Sizes
<1>3. at \in 0 .. m - 1
  BY <1>1, <1>2 DEF Slots
<1>4. buckets' \in [0 .. m - 1 -> Bucket]
  BY <1>1, <1>3
<1>5. buckets'[at] = x /\ \A j \in Slots(nbuckets) : j # at => buckets'[j] = buckets[j]
  BY <1>1, <1>2, <1>3 DEF Slots
<1> QED BY <1>1, <1>4, <1>5

LEMMA SizesKept ==
  ASSUME SizesInv, UNCHANGED <<nbuckets, cap, growat, loadfactor, growpower>>,
         \E m \in Nat : nbuckets <= m /\ buckets' \in [0 .. m - 1 -> Bucket],
         count' \in Nat, count' < nbuckets, before' \in [Keys -> Values \cup {NULL}],
         oom' \in BOOLEAN
  PROVE  SizesInv'
BY DEF SizesInv

LEMMA SizesSame ==
  ASSUME SizesInv, UNCHANGED table, before' \in [Keys -> Values \cup {NULL}], oom' \in BOOLEAN
  PROVE  SizesInv'
BY DEF SizesInv, table

NoValues == [k \in Keys |-> NULL]

LEMMA NoValuesType == NoValues \in [Keys -> Values \cup {NULL}]
BY DEF NoValues

(* Between two calls only the table matters. *)
LEMMA Idle ==
  ASSUME SizesInv', pc' = "idle", call' = NoCall,
         WellPlaced(buckets', nbuckets', Slots(nbuckets')),
         count' = Cardinality(Occupied(buckets', Slots(nbuckets')))
  PROVE  MapInv'
BY DEF MapInv, CallInv, TableInv, PlaceInv, FindInv, ShiftInv, ResizeInv, MoveInv,
  InOrder, Counted

(* The calls. *)
LEMMA CallTypes ==
  ASSUME MapInv, pc # "idle"
  PROVE  /\ call.key \in Keys /\ call # NoCall /\ call.op \in {"set", "get", "delete"}
         /\ call.op = "set" => call.val \in Values
<1>1. call \in Promise!MapCalls /\ call # NoCall
  BY DEF MapInv, CallInv
<1> QED BY <1>1 DEF Promise!MapCalls

LEMMA NewCall ==
  ASSUME NEW op, NEW k \in Keys, NEW v,
         (op = "set" /\ v \in Values) \/ (op \in {"get", "delete"} /\ v = NULL)
  PROVE  LET c == [op |-> op, key |-> k, val |-> v] IN c \in Promise!MapCalls /\ c # NoCall
BY DEF Promise!MapCalls, NoCall

(* A set begins. *)
LEMMA SetCallStep ==
  ASSUME MapInv, NEW k \in Keys, NEW v \in Values, SetCall(k, v)
  PROVE  MapInv'
<1> DEFINE n == nbuckets
           S == Slots(n)
           c == [op |-> "set", key |-> k, val |-> v]
<1>1. /\ pc = "idle" /\ call' = c /\ before' = Dict /\ oom' = FALSE /\ i' = Home(k, n)
      /\ entry' = [key |-> k, val |-> v, dib |-> 1]
      /\ pc' = (IF count >= growat THEN "grow" ELSE "place")
      /\ UNCHANGED <<buckets, nbuckets, cap, count, growat, loadfactor, growpower, spare>>
  BY DEF SetCall, Begin, table
<1>2. /\ n \in Nat /\ 2 <= n /\ WellPlaced(buckets, n, S) /\ Counted
      /\ growat \in Nat /\ growat < n /\ count \in Nat
  BY <1>1, Sizes DEF MapInv, TableInv, InOrder, SizesInv
<1>3. Dict \in [Keys -> Values \cup {NULL}] /\ Keeps(buckets, S, Dict)
  BY <1>2, DictIs, KeepsDict
<1>4. SizesInv'
  BY <1>1, <1>3, SizesSame DEF MapInv, table
<1>5. entry' \in Item /\ entry'.dib = 1 /\ entry'.key = k /\ entry'.val = v
  BY <1>1 DEF Item
<1>6. InFlight(buckets, n, i', entry')
  BY <1>1, <1>2, <1>5, InFlightAtHome
<1>7. NotMet(buckets, n, i', k)
  BY <1>1, <1>2, MetAtHome
<1>8. c \in Promise!MapCalls /\ c # NoCall /\ c.op = "set" /\ c.key = k /\ c.val = v
  BY NewCall
<1>9. InOrder' /\ Counted'
  BY <1>1, <1>2 DEF InOrder, Counted
<1>10. pc' = "place" => count' + 1 < nbuckets'
  BY <1>1, <1>2
<1>11. CallInv' /\ TableInv'
  <2>1. call'.op # "delete"
    BY <1>1, <1>8
  <2>2. CallInv'
    BY <1>1, <1>8 DEF CallInv
  <2>3. TableInv'
    BY <1>1, <1>3, <1>9, <2>1 DEF TableInv, Due
  <2> QED BY <2>2, <2>3
<1>12. PlaceInv'
  BY <1>1, <1>3, <1>5, <1>6, <1>7, <1>8, <1>10 DEF PlaceInv
<1> QED BY <1>1, <1>4, <1>11, <1>12
      DEF MapInv, FindInv, ShiftInv, ResizeInv, MoveInv

(* A get or a delete begins. *)
LEMMA FindCallStep ==
  ASSUME MapInv, NEW k \in Keys, GetCall(k) \/ DeleteCall(k)
  PROVE  MapInv'
<1> DEFINE n == nbuckets
           S == Slots(n)
<1>1. PICK op \in {"get", "delete"} :
        /\ pc = "idle" /\ call' = [op |-> op, key |-> k, val |-> NULL] /\ before' = Dict
        /\ oom' = (op = "get" /\ oom) /\ i' = Home(k, n) /\ pc' = "find"
        /\ UNCHANGED <<buckets, nbuckets, cap, count, growat, loadfactor, growpower, spare>>
  BY DEF GetCall, DeleteCall, Begin, table
<1>2. n \in Nat /\ 2 <= n /\ WellPlaced(buckets, n, S) /\ Counted
  BY <1>1, Sizes DEF MapInv, TableInv, InOrder
<1>3. Dict \in [Keys -> Values \cup {NULL}] /\ Keeps(buckets, S, Dict)
  BY <1>2, DictIs, KeepsDict
<1>4. SizesInv'
  <2>1. oom' \in BOOLEAN
    BY <1>1
  <2> QED BY <1>1, <1>3, <2>1, SizesSame DEF MapInv, table
<1>5. i' \in S /\ NotMet(buckets, n, i', k)
  BY <1>1, <1>2, MetAtHome, HomeIn
<1>6. call' \in Promise!MapCalls /\ call' # NoCall /\ call'.op = op /\ call'.key = k
  BY <1>1, NewCall
<1>7. CallInv' /\ TableInv' /\ FindInv'
  BY <1>1, <1>2, <1>3, <1>5, <1>6 DEF CallInv, TableInv, FindInv, InOrder, Counted
<1> QED BY <1>1, <1>4, <1>7
      DEF MapInv, PlaceInv, ShiftInv, ResizeInv, MoveInv
---------------------------------------------------------------------------
(* What a set knows where it stands. *)
LEMMA Placing ==
  ASSUME MapInv, pc = "place"
  PROVE  /\ nbuckets \in Nat /\ 2 <= nbuckets /\ count \in Nat /\ count + 1 < nbuckets
         /\ WellPlaced(buckets, nbuckets, Slots(nbuckets))
         /\ InFlight(buckets, nbuckets, i, entry)
         /\ i \in Slots(nbuckets) /\ entry \in Item /\ entry.dib \in Nat
         /\ entry.dib = Dist(Home(entry.key, nbuckets), i, nbuckets) + 1
         /\ count = Cardinality(Occupied(buckets, Slots(nbuckets)))
         /\ call.op = "set" /\ call.key \in Keys /\ call.val \in Values
         /\ before \in [Keys -> Values \cup {NULL}] /\ With \in [Keys -> Values \cup {NULL}]
<1>1. call.op = "set" /\ call.key \in Keys /\ call.val \in Values
  BY CallTypes DEF MapInv, CallInv
<1>2. before \in [Keys -> Values \cup {NULL}] /\ count \in Nat
  BY DEF MapInv, SizesInv
<1>3. With \in [Keys -> Values \cup {NULL}]
  BY <1>1, <1>2 DEF With
<1>4. /\ count + 1 < nbuckets /\ InFlight(buckets, nbuckets, i, entry)
      /\ WellPlaced(buckets, nbuckets, Slots(nbuckets)) /\ Counted
  BY DEF MapInv, PlaceInv, TableInv, InOrder
<1>5. /\ i \in Slots(nbuckets) /\ entry \in Item /\ entry.dib \in Nat
      /\ entry.dib = Dist(Home(entry.key, nbuckets), i, nbuckets) + 1
  BY <1>4 DEF InFlight, Item
<1> QED BY <1>1, <1>2, <1>3, <1>4, <1>5, Sizes DEF MapInv, Counted

(* At an empty bucket, or one whose item is nearer to its home, the key that *)
(* is set is nowhere in the table, unless it has been put there already.     *)
LEMMA PlaceCarries ==
  ASSUME MapInv, pc = "place", buckets[i].dib < entry.dib
  PROVE  Carries(buckets, Slots(nbuckets), entry, With) /\ before[call.key] = NULL
<1> DEFINE n == nbuckets
           S == Slots(n)
<1>1. CASE before[call.key] = NULL /\ Carries(buckets, S, entry, With)
  BY <1>1
<1>2. CASE /\ entry.key = call.key /\ entry.val = call.val
           /\ Keeps(buckets, S, before) /\ NotMet(buckets, n, i, call.key)
  <2>1. buckets[i].dib <= Dist(Home(call.key, n), i, n)
    <3>1. Dist(Home(call.key, n), i, n) \in Nat
      BY Placing, HomeIn, DistType
    <3>2. buckets[i].dib \in Nat
      BY Placing, Dibs
    <3> QED BY <1>2, <3>1, <3>2, Placing
  <2>2. \A j \in S : buckets[j].key # call.key
    BY <1>2, <2>1, Placing, NotAhead
  <2>3. \A j \in S : buckets[j].dib # 0 => buckets[j].key \in Keys
    BY Placing, Dibs
  <2>4. Carries(buckets, S, entry, [before EXCEPT ![entry.key] = entry.val])
    BY <1>2, <2>2, <2>3, Placing, CarriesBegun
  <2>5. before[call.key] = NULL
    BY <1>2, <2>2, Placing DEF Keeps
  <2> QED BY <1>2, <2>4, <2>5 DEF With
<1> QED BY <1>1, <1>2 DEF MapInv, PlaceInv

LEMMA SetEmptyStep ==
  ASSUME MapInv, SetEmpty
  PROVE  MapInv' /\ DictOf(buckets', nbuckets') = With /\ before[call.key] = NULL
<1> DEFINE n == nbuckets
           S == Slots(n)
<1>1. /\ pc = "place" /\ buckets[i].dib = 0
      /\ buckets' = [buckets EXCEPT ![i] = entry] /\ count' = count + 1
      /\ pc' = "idle" /\ call' = NoCall /\ before' = NoValues
      /\ UNCHANGED <<nbuckets, cap, growat, loadfactor, growpower, oom>>
  BY DEF SetEmpty, Return, NoValues
<1>0. /\ nbuckets \in Nat /\ 2 <= nbuckets /\ count \in Nat /\ count + 1 < nbuckets
      /\ WellPlaced(buckets, nbuckets, Slots(nbuckets))
      /\ InFlight(buckets, nbuckets, i, entry)
      /\ i \in Slots(nbuckets) /\ entry \in Item /\ entry.dib \in Nat
      /\ count = Cardinality(Occupied(buckets, Slots(nbuckets)))
      /\ call.op = "set" /\ call.key \in Keys /\ call.val \in Values
      /\ before \in [Keys -> Values \cup {NULL}] /\ With \in [Keys -> Values \cup {NULL}]
      /\ SizesInv
  BY <1>1, Placing DEF MapInv
<1>2. buckets[i].dib < entry.dib /\ entry \in Bucket /\ entry.dib # 0
  BY <1>1, <1>0 DEF Item, Bucket
<1>3. Carries(buckets, S, entry, With) /\ before[call.key] = NULL
  BY <1>1, <1>2, PlaceCarries
<1>4. /\ buckets'[i] = entry /\ \A j \in S : j # i => buckets'[j] = buckets[j]
      /\ \E m \in Nat : n <= m /\ buckets' \in [0 .. m - 1 -> Bucket]
  BY <1>1, <1>2, <1>0, Changed
<1>5. WellPlaced(buckets', n, S)
  <2>1. \A j \in S : buckets[j].key # entry.key
    BY <1>3 DEF Carries
  <2> QED BY <1>0, <1>2, <1>4, <2>1, PutDown
<1>6. Keeps(buckets', S, With)
  <2>1. buckets[i].key \notin Keys
    <3>1. buckets[i].key = NULL
      BY <1>1, <1>0, Dibs
    <3> QED BY <3>1, HashAssumption DEF HashAssumption
  <2> QED BY <1>3, <1>4, <2>1, <1>0, CarriesPut
<1>7. Occupied(buckets', S) = Occupied(buckets, S) \cup {i} /\ i \notin Occupied(buckets, S)
  BY <1>1, <1>2, <1>4, <1>0 DEF Occupied
<1>8. count' = Cardinality(Occupied(buckets', S))
  <2>1. Cardinality(Occupied(buckets, S) \cup {i}) = Cardinality(Occupied(buckets, S)) + 1
    BY <1>7, <1>0, OneMore
  <2> QED BY <1>1, <1>7, <1>0, <2>1
<1>9. SizesInv'
  BY <1>1, <1>4, <1>0, NoValuesType, SizesKept DEF SizesInv
<1>10. MapInv'
  BY <1>1, <1>5, <1>8, <1>9, Idle
<1> QED BY <1>1, <1>3, <1>5, <1>6, <1>10, <1>0, DictKept

LEMMA SetReplaceStep ==
  ASSUME MapInv, SetReplace
  PROVE  /\ MapInv' /\ DictOf(buckets', nbuckets') = With
         /\ buckets[i].val = before[call.key]
<1> DEFINE n == nbuckets
           S == Slots(n)
<1>1. /\ pc = "place" /\ buckets[i].dib # 0 /\ buckets[i].key = entry.key
      /\ buckets' = [buckets EXCEPT ![i].val = entry.val]
      /\ pc' = "idle" /\ call' = NoCall /\ before' = NoValues
      /\ UNCHANGED <<nbuckets, cap, count, growat, loadfactor, growpower, oom>>
  BY DEF SetReplace, Return, NoValues
<1>0. /\ nbuckets \in Nat /\ 2 <= nbuckets /\ count \in Nat /\ count + 1 < nbuckets
      /\ WellPlaced(buckets, nbuckets, Slots(nbuckets))
      /\ InFlight(buckets, nbuckets, i, entry)
      /\ i \in Slots(nbuckets) /\ entry \in Item /\ entry.dib \in Nat
      /\ count = Cardinality(Occupied(buckets, Slots(nbuckets)))
      /\ call.op = "set" /\ call.key \in Keys /\ call.val \in Values
      /\ before \in [Keys -> Values \cup {NULL}] /\ With \in [Keys -> Values \cup {NULL}]
      /\ SizesInv
  BY <1>1, Placing DEF MapInv
<1>2. /\ entry.key = call.key /\ entry.val = call.val /\ Keeps(buckets, S, before)
  BY <1>1, <1>0 DEF MapInv, PlaceInv, Carries
<1> DEFINE x == [buckets[i] EXCEPT !.val = entry.val]
<1>3. /\ x \in Item /\ x.key = buckets[i].key /\ x.dib = buckets[i].dib /\ x.val = entry.val
      /\ x \in Bucket /\ buckets' = [buckets EXCEPT ![i] = x]
  <2>1. buckets[i] \in Item /\ entry.val \in Values
    BY <1>1, <1>0, Dibs DEF Item
  <2> QED BY <1>1, <2>1 DEF Item, Bucket
<1> HIDE DEF x
<1>4. /\ buckets'[i] = x /\ \A j \in S : j # i => buckets'[j] = buckets[j]
      /\ \E m \in Nat : n <= m /\ buckets' \in [0 .. m - 1 -> Bucket]
  BY <1>3, <1>0, Changed
<1>5. /\ WellPlaced(buckets', n, S) /\ Keeps(buckets', S, With)
      /\ Occupied(buckets', S) = Occupied(buckets, S)
      /\ before[buckets[i].key] = buckets[i].val
  <2>1. /\ With[buckets[i].key] = buckets'[i].val
        /\ \A k \in Keys : k # buckets[i].key => With[k] = before[k]
    BY <1>0, <1>1, <1>2, <1>3, <1>4 DEF With
  <2>2. /\ WellPlaced(buckets, n, S) /\ Keeps(buckets, S, before) /\ buckets[i].dib # 0
        /\ i \in S /\ before \in [Keys -> Values \cup {NULL}]
    BY <1>1, <1>2, <1>0
  <2>3. /\ buckets'[i] \in Item /\ buckets'[i].key = buckets[i].key
        /\ buckets'[i].dib = buckets[i].dib
        /\ \A j \in S : j # i => buckets'[j] = buckets[j]
    BY <1>3, <1>4
  <2> QED BY <2>1, <2>2, <2>3, Replaced
<1>6. SizesInv'
  BY <1>1, <1>4, <1>0, NoValuesType, SizesKept DEF SizesInv
<1>7. MapInv'
  BY <1>1, <1>5, <1>6, <1>0, Idle
<1> QED BY <1>1, <1>2, <1>5, <1>7, <1>0, DictKept

LEMMA SetNextStep ==
  ASSUME MapInv, SetNext
  PROVE  MapInv'
<1> DEFINE n == nbuckets
           S == Slots(n)
           x == IF buckets[i].dib < entry.dib THEN entry ELSE buckets[i]
           y == IF buckets[i].dib < entry.dib THEN buckets[i] ELSE entry
<1>1. /\ pc = "place" /\ buckets[i].dib # 0 /\ buckets[i].key # entry.key
      /\ buckets' = [buckets EXCEPT ![i] = x]
      /\ entry' = [y EXCEPT !.dib = @ + 1] /\ i' = After(i, n)
      /\ UNCHANGED <<nbuckets, cap, count, growat, loadfactor, growpower>>
      /\ UNCHANGED <<oom, pc, call, before>>
  BY DEF SetNext, Left, Carry, Richer, After
<1>0. /\ nbuckets \in Nat /\ 2 <= nbuckets /\ count \in Nat /\ count + 1 < nbuckets
      /\ WellPlaced(buckets, nbuckets, Slots(nbuckets))
      /\ InFlight(buckets, nbuckets, i, entry)
      /\ i \in Slots(nbuckets) /\ entry \in Item /\ entry.dib \in Nat
      /\ count = Cardinality(Occupied(buckets, Slots(nbuckets)))
      /\ call.op = "set" /\ call.key \in Keys /\ call.val \in Values
      /\ before \in [Keys -> Values \cup {NULL}] /\ With \in [Keys -> Values \cup {NULL}]
      /\ SizesInv
  BY <1>1, Placing DEF MapInv
<1>2. /\ buckets[i] \in Item /\ buckets[i] \in Bucket /\ entry \in Bucket
      /\ buckets[i].dib \in Nat /\ entry.dib # 0
  BY <1>1, <1>0, Dibs DEF Item, Bucket
<1>3. x \in Bucket /\ y \in Item
  BY <1>2, <1>0
<1> HIDE DEF x, y
<1>4. /\ buckets'[i] = x /\ \A j \in S : j # i => buckets'[j] = buckets[j]
      /\ \E m \in Nat : n <= m /\ buckets' \in [0 .. m - 1 -> Bucket]
  BY <1>1, <1>3, <1>0, Changed
<1>5. entry'.key = y.key /\ entry'.val = y.val
  BY <1>1, <1>3 DEF Item
<1>6. InFlight(buckets', n, i', entry')
  <2>1. \E j \in S : buckets[j].dib = 0
    BY <1>0, <1>1, SomeEmpty
  <2>2. \/ /\ buckets[i].dib < entry.dib /\ buckets'[i] = entry
           /\ entry' = [buckets[i] EXCEPT !.dib = @ + 1]
        \/ /\ ~(buckets[i].dib < entry.dib) /\ buckets'[i] = buckets[i]
           /\ entry' = [entry EXCEPT !.dib = @ + 1]
    BY <1>1, <1>4 DEF x, y
  <2> QED BY <1>1, <1>4, <2>1, <2>2, <1>0, CarryOn
<1> DEFINE Going ==
             /\ WellPlaced(buckets', n, S) /\ Occupied(buckets', S) = Occupied(buckets, S)
             /\ \/ /\ entry'.key = call'.key /\ entry'.val = call'.val
                   /\ Keeps(buckets', S, before') /\ NotMet(buckets', n, i', call'.key)
                \/ /\ before'[call'.key] = NULL
                   /\ Carries(buckets', S, entry', With')
<1>7. ASSUME buckets[i].dib < entry.dib PROVE Going
  <2>1. x = entry /\ y = buckets[i]
    BY <1>7 DEF x, y
  <2>2. Carries(buckets, S, entry, With) /\ before[call.key] = NULL
    BY <1>1, <1>7, PlaceCarries
  <2>3. WellPlaced(buckets', n, S)
    <3>1. \A j \in S : buckets[j].key # entry.key
      BY <2>2 DEF Carries
    <3> QED BY <1>0, <1>4, <1>7, <2>1, <3>1, PutDown
  <2>4. Carries(buckets', S, entry', With)
    <3>1. /\ entry'.key = buckets[i].key /\ entry'.val = buckets[i].val
          /\ buckets'[i] = entry /\ \A j \in S : j # i => buckets'[j] = buckets[j]
      BY <1>4, <1>5, <2>1
    <3>2. WellPlaced(buckets, n, S) /\ i \in S /\ buckets[i].dib # 0
      BY <1>1, <1>0
    <3> QED BY <2>2, <3>1, <3>2, CarriesExchanged
  <2>5. Occupied(buckets', S) = Occupied(buckets, S)
    BY <1>1, <1>2, <1>4, <2>1 DEF Occupied
  <2> QED BY <1>1, <2>2, <2>3, <2>4, <2>5 DEF With
<1>8. ASSUME ~(buckets[i].dib < entry.dib) PROVE Going
  <2>1. (\A j \in S : buckets'[j] = buckets[j]) /\ entry'.key = entry.key /\ entry'.val = entry.val
    BY <1>4, <1>5, <1>8 DEF x, y
  <2>2. WellPlaced(buckets', n, S)
    BY <1>0, <2>1 DEF WellPlaced
  <2>3. Occupied(buckets', S) = Occupied(buckets, S)
    BY <2>1 DEF Occupied
  <2>4. CASE before[call.key] = NULL /\ Carries(buckets, S, entry, With)
    <3>1. Carries(buckets', S, entry', With)
      BY <2>1, <2>4 DEF Carries
    <3> QED BY <1>1, <2>2, <2>3, <2>4, <3>1 DEF With
  <2>5. CASE /\ entry.key = call.key /\ entry.val = call.val
             /\ Keeps(buckets, S, before) /\ NotMet(buckets, n, i, call.key)
    <3>1. Keeps(buckets', S, before)
      BY <2>1, <2>5 DEF Keeps
    <3>2. NotMet(buckets, n, i', call.key)
      BY <1>0, <1>1, <2>5, MetNext
    <3>3. NotMet(buckets', n, i', call.key)
      BY <2>1, <3>2 DEF NotMet
    <3> QED BY <1>1, <2>1, <2>2, <2>3, <2>5, <3>1, <3>3
  <2> QED BY <1>1, <2>4, <2>5 DEF MapInv, PlaceInv
<1>9. Going
  BY <1>7, <1>8
<1>10. SizesInv'
  BY <1>1, <1>4, <1>0, SizesKept DEF SizesInv
<1>11. CallInv'
  BY <1>1 DEF MapInv, CallInv
<1>12. TableInv'
  BY <1>0, <1>1, <1>9 DEF TableInv, InOrder, Counted
<1>13. PlaceInv'
  BY <1>0, <1>1, <1>6, <1>9 DEF PlaceInv
<1> QED BY <1>1, <1>10, <1>11, <1>12, <1>13
      DEF MapInv, FindInv, ShiftInv, ResizeInv, MoveInv
---------------------------------------------------------------------------
(* What a get or a delete knows where it looks. *)
LEMMA Finding ==
  ASSUME MapInv, pc = "find"
  PROVE  /\ nbuckets \in Nat /\ 2 <= nbuckets /\ count \in Nat /\ count < nbuckets
         /\ WellPlaced(buckets, nbuckets, Slots(nbuckets))
         /\ Keeps(buckets, Slots(nbuckets), before)
         /\ count = Cardinality(Occupied(buckets, Slots(nbuckets)))
         /\ i \in Slots(nbuckets) /\ NotMet(buckets, nbuckets, i, call.key)
         /\ buckets[i] \in Bucket /\ buckets[i].dib \in Nat
         /\ call.key \in Keys /\ call.op \in {"get", "delete"}
         /\ before \in [Keys -> Values \cup {NULL}] /\ oom \in BOOLEAN /\ SizesInv
<1>1. /\ WellPlaced(buckets, nbuckets, Slots(nbuckets)) /\ Counted
      /\ Keeps(buckets, Slots(nbuckets), before)
      /\ i \in Slots(nbuckets) /\ NotMet(buckets, nbuckets, i, call.key)
  BY DEF MapInv, TableInv, FindInv, InOrder
<1>2. call.key \in Keys /\ call.op \in {"get", "delete"}
  BY CallTypes DEF MapInv, CallInv
<1>3. /\ SizesInv /\ before \in [Keys -> Values \cup {NULL}] /\ oom \in BOOLEAN
      /\ count \in Nat /\ count < nbuckets
  BY DEF MapInv, SizesInv
<1> QED BY <1>1, <1>2, <1>3, Sizes, Dibs DEF Counted

LEMMA FindMissingStep ==
  ASSUME MapInv, FindMissing
  PROVE  MapInv' /\ DictOf(buckets', nbuckets') = before /\ before[call.key] = NULL
<1> DEFINE n == nbuckets
           S == Slots(n)
<1>1. /\ pc = "find" /\ buckets[i].dib = 0
      /\ pc' = "idle" /\ call' = NoCall /\ before' = NoValues
      /\ UNCHANGED table /\ UNCHANGED <<buckets, nbuckets, count, oom>>
  BY DEF FindMissing, Return, NoValues, table
<1>0. /\ n \in Nat /\ 2 <= n /\ WellPlaced(buckets, n, S) /\ Keeps(buckets, S, before)
      /\ count = Cardinality(Occupied(buckets, S)) /\ i \in S
      /\ NotMet(buckets, n, i, call.key) /\ call.key \in Keys
      /\ before \in [Keys -> Values \cup {NULL}] /\ oom \in BOOLEAN /\ SizesInv
  BY <1>1, Finding
<1>2. \A j \in S : buckets[j].key # call.key
  <2>1. Dist(Home(call.key, n), i, n) \in Nat
    BY <1>0, HomeIn, DistType
  <2>2. buckets[i].dib <= Dist(Home(call.key, n), i, n)
    BY <1>1, <2>1
  <2> QED BY <1>0, <2>2, NotAhead
<1>3. SizesInv'
  BY <1>1, <1>0, NoValuesType, SizesSame
<1>4. MapInv'
  BY <1>1, <1>0, <1>3, Idle
<1>5. before[call.key] = NULL
  BY <1>0, <1>2 DEF Keeps
<1>6. DictOf(buckets, n) = before
  BY <1>0, DictKept
<1> QED BY <1>1, <1>4, <1>5, <1>6

LEMMA FindNextStep ==
  ASSUME MapInv, FindNext
  PROVE  MapInv'
<1> DEFINE n == nbuckets
           S == Slots(n)
<1>1. /\ pc = "find" /\ buckets[i].key # call.key /\ i' = After(i, n)
      /\ UNCHANGED table /\ UNCHANGED <<buckets, nbuckets, cap, count, oom, pc, call, before>>
  BY DEF FindNext, table, After
<1>0. /\ n \in Nat /\ 2 <= n /\ WellPlaced(buckets, n, S) /\ Keeps(buckets, S, before)
      /\ count = Cardinality(Occupied(buckets, S)) /\ i \in S
      /\ NotMet(buckets, n, i, call.key) /\ call.key \in Keys
      /\ before \in [Keys -> Values \cup {NULL}] /\ oom \in BOOLEAN /\ SizesInv
  BY <1>1, Finding
<1>2. i' \in S /\ NotMet(buckets, n, i', call.key)
  BY <1>1, <1>0, MetNext, AfterIs
<1>3. SizesInv'
  BY <1>1, <1>0, SizesSame
<1>4. CallInv'
  BY <1>1 DEF MapInv, CallInv
<1>5. TableInv' /\ FindInv'
  BY <1>1, <1>0, <1>2 DEF TableInv, FindInv, InOrder, Counted
<1> QED BY <1>1, <1>3, <1>4, <1>5 DEF MapInv, PlaceInv, ShiftInv, ResizeInv, MoveInv

LEMMA FindHitStep ==
  ASSUME MapInv, FindHit
  PROVE  /\ MapInv' /\ buckets[i].val = before[call.key]
         /\ call.op = "get" => DictOf(buckets', nbuckets') = before
<1> DEFINE n == nbuckets
           S == Slots(n)
<1>1. pc = "find" /\ buckets[i].dib # 0 /\ buckets[i].key = call.key
  BY DEF FindHit
<1>0. /\ n \in Nat /\ 2 <= n /\ WellPlaced(buckets, n, S) /\ Keeps(buckets, S, before)
      /\ count = Cardinality(Occupied(buckets, S)) /\ i \in S
      /\ call.key \in Keys /\ call.op \in {"get", "delete"} /\ count \in Nat /\ count < n
      /\ before \in [Keys -> Values \cup {NULL}] /\ oom \in BOOLEAN /\ SizesInv
  BY <1>1, Finding
<1>2. buckets[i].val = before[call.key]
  BY <1>1, <1>0 DEF Keeps
<1>3. ASSUME call.op = "get" PROVE MapInv' /\ DictOf(buckets', nbuckets') = before
  <2>1. /\ pc' = "idle" /\ call' = NoCall /\ before' = NoValues
        /\ UNCHANGED table /\ UNCHANGED <<buckets, nbuckets, count, oom>>
    BY <1>3 DEF FindHit, Return, NoValues, table
  <2>2. SizesInv'
    BY <2>1, <1>0, NoValuesType, SizesSame
  <2>3. MapInv'
    BY <2>1, <1>0, <2>2, Idle
  <2>4. DictOf(buckets, n) = before
    BY <1>0, DictKept
  <2> QED BY <2>1, <2>3, <2>4
<1>4. ASSUME call.op = "delete" PROVE MapInv'
  <2>1. /\ spare' = buckets[i].val /\ pc' = "shift" /\ buckets' = [buckets EXCEPT ![i] = Empty]
        /\ UNCHANGED <<nbuckets, cap, count, growat, loadfactor, growpower>>
        /\ UNCHANGED <<oom, call, i, before>>
    BY <1>4 DEF FindHit
  <2>2. Empty \in Bucket
    BY DEF Bucket
  <2>3. /\ \A j \in S : j # i => buckets'[j] = buckets[j]
        /\ \E m \in Nat : n <= m /\ buckets' \in [0 .. m - 1 -> Bucket]
    BY <2>1, <2>2, <1>0, Changed
  <2> DEFINE J == S \ {i}
             d == Without(call.key)
  <2>4. /\ WellPlaced(buckets', n, J) /\ Keeps(buckets', J, d)
        /\ Occupied(buckets', J) = Occupied(buckets, S) \ {i}
    <3>1. \A j \in J : buckets'[j] = buckets[j] /\ (buckets[j].dib # 0 => buckets[j].key \in Keys)
      BY <1>0, <2>3, Dibs
    <3>2. \A j \in J : buckets[j].key # call.key
      BY <1>0, <1>1 DEF WellPlaced
    <3>3. d[call.key] = NULL /\ \A x \in Keys : x # call.key => d[x] = before[x]
      BY <1>0 DEF Without
    <3> HIDE DEF d
    <3>4. WellPlaced(buckets', n, J)
      BY <1>0, <3>1 DEF WellPlaced
    <3>5. \A j \in J : buckets'[j].dib # 0 => d[buckets'[j].key] = buckets'[j].val
      BY <1>0, <3>1, <3>2, <3>3 DEF Keeps
    <3>6. ASSUME NEW x \in Keys, d[x] # NULL PROVE \E j \in J : buckets'[j].key = x
      <4>1. x # call.key /\ before[x] # NULL
        BY <3>3, <3>6
      <4>2. PICK j \in S : buckets[j].key = x
        BY <1>0, <4>1 DEF Keeps
      <4> QED BY <1>1, <3>1, <4>1, <4>2
    <3>7. Occupied(buckets', J) = Occupied(buckets, S) \ {i}
      BY <3>1 DEF Occupied
    <3> QED BY <3>4, <3>5, <3>6, <3>7 DEF Keeps
  <2>5. \A j \in J : buckets'[j].key # call.key
    BY <1>0, <1>1, <2>3 DEF WellPlaced
  <2>6. count = Cardinality(Occupied(buckets', J)) + 1
    <3>1. i \in Occupied(buckets, S) /\ S \in SUBSET Slots(n)
      BY <1>0, <1>1 DEF Occupied
    <3>2. Cardinality(Occupied(buckets, S)) = Cardinality(Occupied(buckets, S) \ {i}) + 1
      BY <1>0, <3>1, OneLess
    <3> QED BY <1>0, <2>4, <3>2
  <2>7. SizesInv'
    BY <1>0, <2>1, <2>3, SizesKept
  <2>8. Others' = J
    BY <2>1 DEF Others
  <2>9. ShiftInv'
    BY <1>0, <1>1, <2>1, <2>4, <2>5, <2>6, <2>8 DEF ShiftInv, Without
  <2>10. CallInv' /\ TableInv'
    BY <1>1, <1>2, <1>4, <2>1 DEF MapInv, CallInv, TableInv
  <2> QED BY <2>1, <2>7, <2>9, <2>10 DEF MapInv, PlaceInv, FindInv, ResizeInv, MoveInv
<1> QED BY <1>0, <1>2, <1>3, <1>4
---------------------------------------------------------------------------
(* What a delete knows while it shifts. *)
LEMMA Shifting ==
  ASSUME MapInv, pc = "shift"
  PROVE  /\ nbuckets \in Nat /\ 2 <= nbuckets /\ count \in Nat /\ count < nbuckets
         /\ i \in Slots(nbuckets) /\ After(i, nbuckets) \in Others
         /\ buckets[After(i, nbuckets)] \in Bucket /\ buckets[After(i, nbuckets)].dib \in Nat
         /\ Others = Slots(nbuckets) \ {i} /\ Others \in SUBSET Slots(nbuckets)
         /\ WellPlaced(buckets, nbuckets, Others)
         /\ count = Cardinality(Occupied(buckets, Others)) + 1
         /\ \A j \in Others : buckets[j].key # call.key
         /\ Keeps(buckets, Others, Without(call.key))
         /\ call.key \in Keys /\ call.op = "delete" /\ spare = before[call.key]
         /\ before \in [Keys -> Values \cup {NULL}] /\ oom \in BOOLEAN /\ SizesInv
         /\ Without(call.key) \in [Keys -> Values \cup {NULL}]
<1>1. /\ i \in Slots(nbuckets) /\ WellPlaced(buckets, nbuckets, Others)
      /\ count = Cardinality(Occupied(buckets, Others)) + 1
      /\ \A j \in Others : buckets[j].key # call.key
      /\ Keeps(buckets, Others, Without(call.key))
  BY DEF MapInv, ShiftInv
<1>2. call.key \in Keys /\ call.op = "delete" /\ spare = before[call.key]
  BY CallTypes DEF MapInv, CallInv, TableInv
<1>3. /\ SizesInv /\ before \in [Keys -> Values \cup {NULL}] /\ oom \in BOOLEAN
      /\ count \in Nat /\ count < nbuckets
  BY DEF MapInv, SizesInv
<1>4. nbuckets \in Nat /\ 2 <= nbuckets
  BY <1>3, Sizes
<1>5. After(i, nbuckets) \in Others
  BY <1>1, <1>4, AfterIs, OneFurther DEF Others
<1>6. Without(call.key) \in [Keys -> Values \cup {NULL}]
  BY <1>3 DEF Without
<1>7. Others = Slots(nbuckets) \ {i}
  BY DEF Others
<1>8. buckets[After(i, nbuckets)] \in Bucket /\ buckets[After(i, nbuckets)].dib \in Nat
  BY <1>1, <1>5, Dibs
<1> QED BY <1>1, <1>2, <1>3, <1>4, <1>5, <1>6, <1>7, <1>8

LEMMA ShiftBackStep ==
  ASSUME MapInv, ShiftBack
  PROVE  MapInv'
<1> DEFINE n == nbuckets
           S == Slots(n)
           to == After(i, n)
           J == S \ {i}
           K == S \ {to}
           x == [buckets[to] EXCEPT !.dib = @ - 1]
           d == Without(call.key)
<1>1. /\ pc = "shift" /\ buckets[to].dib > 1
      /\ buckets' = [buckets EXCEPT ![i] = x] /\ i' = to
      /\ UNCHANGED <<nbuckets, cap, count, growat, loadfactor, growpower>>
      /\ UNCHANGED <<oom, pc, call, spare, before>>
  BY DEF ShiftBack, ShiftDib, After
<1>0. /\ n \in Nat /\ 2 <= n /\ count \in Nat /\ count < n /\ i \in S /\ to \in J /\ to \in S
      /\ buckets[to] \in Bucket /\ buckets[to].dib \in Nat /\ WellPlaced(buckets, n, J)
      /\ count = Cardinality(Occupied(buckets, J)) + 1
      /\ \A j \in J : buckets[j].key # call.key
      /\ Keeps(buckets, J, d) /\ call.op = "delete" /\ spare = before[call.key]
      /\ before \in [Keys -> Values \cup {NULL}] /\ oom \in BOOLEAN /\ SizesInv
  BY <1>1, Shifting
<1>2. /\ x \in Bucket /\ x \in Item /\ x.dib = buckets[to].dib - 1
      /\ x.key = buckets[to].key /\ x.val = buckets[to].val
  <2>1. buckets[to] \in Item /\ buckets[to].dib \in Nat /\ buckets[to].dib > 1
    BY <1>1, <1>0, BucketFacts
  <2> QED BY <2>1 DEF Bucket, Item
<1> HIDE DEF x
<1>3. /\ buckets'[i] = x /\ \A j \in S : j # i => buckets'[j] = buckets[j]
      /\ \E m \in Nat : n <= m /\ buckets' \in [0 .. m - 1 -> Bucket]
  BY <1>1, <1>2, <1>0, Changed
<1>4. /\ WellPlaced(buckets', n, K) /\ Keeps(buckets', K, d)
      /\ Occupied(buckets', K) = (Occupied(buckets, J) \ {to}) \cup {i}
      /\ to \in Occupied(buckets, J) /\ i \notin Occupied(buckets, J)
  <2>1. /\ buckets'[i] \in Item /\ buckets'[i].dib = buckets[to].dib - 1
        /\ buckets'[i].key = buckets[to].key /\ buckets'[i].val = buckets[to].val
    BY <1>2, <1>3
  <2>2. \A j \in J : buckets'[j] = buckets[j]
    BY <1>3
  <2> HIDE DEF d, to, J, K
  <2>3. to = After(i, n) /\ J = S \ {i} /\ K = S \ {to}
    BY DEF to, J, K
  <2>4. /\ buckets[to].dib > 1 /\ n \in Nat /\ 2 <= n /\ i \in S
        /\ WellPlaced(buckets, n, J) /\ Keeps(buckets, J, d)
    BY <1>1, <1>0
  <2> QED BY <2>1, <2>2, <2>3, <2>4, HoleMoves
<1>5. \A j \in K : buckets'[j].key # call.key
  BY <1>0, <1>2, <1>3
<1>6. count = Cardinality(Occupied(buckets', K)) + 1
  <2> DEFINE A == Occupied(buckets, J)
  <2>1. IsFiniteSet(A) /\ Cardinality(A) = Cardinality(A \ {to}) + 1
    <3>1. J \in SUBSET Slots(n) /\ to \in Occupied(buckets, J)
      BY <1>4
    <3> HIDE DEF J, to
    <3> QED BY <1>0, <3>1, OccupiedFinite, OneLess
  <2>2. IsFiniteSet(A \ {to}) /\ i \notin A \ {to}
    BY <1>4, <2>1, FS_Subset
  <2>3. Cardinality((A \ {to}) \cup {i}) = Cardinality(A \ {to}) + 1
    BY <2>2, FS_AddElement
  <2> QED BY <1>0, <1>4, <2>1, <2>3
<1>7. SizesInv'
  BY <1>0, <1>1, <1>3, SizesKept
<1>8. Others' = K /\ \A k : Without(k)' = Without(k)
  BY <1>1 DEF Others, Without
<1>9. ShiftInv'
  BY <1>0, <1>1, <1>4, <1>5, <1>6, <1>8 DEF ShiftInv, Without
<1>10. CallInv' /\ TableInv'
  BY <1>1 DEF MapInv, CallInv, TableInv
<1> QED BY <1>1, <1>7, <1>9, <1>10 DEF MapInv, PlaceInv, FindInv, ResizeInv, MoveInv

LEMMA ShiftEndStep ==
  ASSUME MapInv, ShiftEnd
  PROVE  /\ MapInv' /\ spare = before[call.key]
         /\ pc' = "idle" => DictOf(buckets', nbuckets') = Without(call.key)
<1> DEFINE n == nbuckets
           S == Slots(n)
           to == After(i, n)
           J == S \ {i}
           d == Without(call.key)
           more == nbuckets > cap /\ count - 1 <= shrinkat
<1>1. /\ pc = "shift" /\ buckets[to].dib <= 1
      /\ buckets' = [buckets EXCEPT ![i] = Empty] /\ count' = count - 1
      /\ UNCHANGED <<nbuckets, cap, growat, loadfactor, growpower, oom>>
      /\ more => pc' = "shrink" /\ UNCHANGED <<call, spare, before>>
      /\ ~more => pc' = "idle" /\ call' = NoCall /\ before' = NoValues
  BY DEF ShiftEnd, After, Return, NoValues
<1>0. /\ n \in Nat /\ 2 <= n /\ count \in Nat /\ count < n /\ i \in S
      /\ WellPlaced(buckets, n, J) /\ Keeps(buckets, J, d)
      /\ count = Cardinality(Occupied(buckets, J)) + 1 /\ J \in SUBSET Slots(n)
      /\ call.op = "delete" /\ spare = before[call.key]
      /\ before \in [Keys -> Values \cup {NULL}] /\ oom \in BOOLEAN /\ SizesInv
      /\ d \in [Keys -> Values \cup {NULL}]
  BY <1>1, Shifting
<1>2. Empty \in Bucket
  BY DEF Bucket
<1>3. /\ buckets'[i] = Empty /\ \A j \in S : j # i => buckets'[j] = buckets[j]
      /\ \E m \in Nat : n <= m /\ buckets' \in [0 .. m - 1 -> Bucket]
  BY <1>1, <1>2, <1>0, Changed
<1> HIDE DEF d
<1>4. /\ WellPlaced(buckets', n, S) /\ Keeps(buckets', S, d)
      /\ Occupied(buckets', S) = Occupied(buckets, J)
  <2>1. /\ \A j \in J : buckets'[j] = buckets[j]
        /\ buckets'[i] = Empty /\ buckets[to].dib <= 1
    BY <1>1, <1>3
  <2> HIDE DEF to, J
  <2>2. to = After(i, n) /\ J = S \ {i}
    BY DEF to, J
  <2> QED BY <1>0, <2>1, <2>2, HoleClosed
<1>5. Cardinality(Occupied(buckets, J)) \in Nat
  BY <1>0, OccupiedFinite
<1>6. count' = Cardinality(Occupied(buckets', S)) /\ count' \in Nat /\ count' < n
  BY <1>0, <1>1, <1>4, <1>5
<1>7. SizesInv'
  <2>1. before' \in [Keys -> Values \cup {NULL}]
    BY <1>0, <1>1, NoValuesType
  <2> QED BY <1>0, <1>1, <1>3, <1>6, <2>1, SizesKept
<1>8. ASSUME more PROVE MapInv' /\ pc' = "shrink"
  <2>1. pc' = "shrink" /\ UNCHANGED <<call, spare, before>>
    BY <1>1, <1>8
  <2>2. cap' < nbuckets' /\ count' <= shrinkat' /\ Due' = d
    <3>1. n \in Nat /\ cap \in Nat
      BY <1>0, Sizes
    <3> QED BY <1>0, <1>1, <1>8, <2>1, <3>1 DEF shrinkat, Due, d, Without
  <2>3. CallInv' /\ TableInv'
    BY <1>0, <1>1, <1>4, <1>6, <2>1, <2>2 DEF MapInv, CallInv, TableInv, InOrder, Counted
  <2> QED BY <1>7, <2>1, <2>3 DEF MapInv, PlaceInv, FindInv, ShiftInv, ResizeInv, MoveInv
<1>9. ASSUME ~more PROVE MapInv'
  BY <1>1, <1>4, <1>6, <1>7, <1>9, Idle
<1>10. DictOf(buckets', n) = d
  BY <1>0, <1>4, DictKept
<1> QED BY <1>0, <1>1, <1>8, <1>9, <1>10 DEF d
---------------------------------------------------------------------------
(* A resize begins, with a table for more items than there are. *)
LEMMA ResizeStartStep ==
  ASSUME MapInv, ResizeStart
  PROVE  MapInv'
<1> DEFINE n == nbuckets
           S == Slots(n)
           m == IF NewSize < MinBuckets THEN MinBuckets ELSE NewSize
<1>1. /\ pc \in {"grow", "shrink"} /\ map2' = EmptyTable(m) /\ from' = 0 /\ pc' = "rehash"
      /\ UNCHANGED table /\ UNCHANGED <<buckets, nbuckets, cap, count, oom, call, spare, before>>
  BY DEF ResizeStart, table
<1>2. /\ n \in Nat /\ 2 <= n /\ cap \in Nat /\ count \in Nat /\ count < n
      /\ n \in SizesOver(cap) /\ MinBuckets \in Nat /\ MinBuckets <= cap
      /\ growpower \in 1 .. 16 /\ SizesInv
      /\ before \in [Keys -> Values \cup {NULL}] /\ oom \in BOOLEAN
  BY Sizes, AtLeastTwo DEF MapInv, SizesInv
<1>3. /\ InOrder /\ Counted /\ Keeps(buckets, S, Due)
      /\ call.op = "delete" => spare = before[call.key]
  BY <1>1 DEF MapInv, CallInv, TableInv
<1>4. /\ m \in SizesOver(cap) /\ m \in Nat
      /\ IF call.op = "set" THEN count + 1 < m ELSE count < m
  <2>1. CASE pc = "grow"
    <3>1. NewSize = n * 2 ^ growpower
      BY <2>1 DEF NewSize
    <3> DEFINE w == n * 2 ^ growpower
    <3>2. w \in SizesOver(cap) /\ 2 * n <= w
      BY <1>2, Grown
    <3> HIDE DEF w
    <3>3. w \in Nat /\ cap <= w
      BY <1>2, <3>2, SizeFacts
    <3>4. m = w
      BY <1>2, <3>1, <3>3 DEF w
    <3> HIDE DEF m
    <3> QED BY <1>2, <3>2, <3>3, <3>4
  <2>2. CASE pc = "shrink"
    <3>1. NewSize = n \div 2 /\ call.op = "delete"
      BY <2>2 DEF NewSize, MapInv, CallInv
    <3>2. cap < n /\ count <= (n * SHRINK_AT) \div 100
      BY <2>2 DEF MapInv, TableInv, shrinkat
    <3>3. PICK k \in SizesOver(cap) : n = 2 * k
      BY <1>2, <3>2, SizeFacts
    <3>4. k \in Nat /\ cap <= k
      BY <1>2, SizeFacts
    <3>5. NewSize = k
      BY <3>1, <3>3, <3>4
    <3>6. m = k
      BY <1>2, <3>4, <3>5
    <3>7. count < k
      BY <1>2, <3>2, <3>3, <3>4 DEF SHRINK_AT
    <3> HIDE DEF m
    <3> QED BY <3>1, <3>4, <3>6, <3>7
  <2> QED BY <1>1, <2>1, <2>2
<1> HIDE DEF m
<1>5. /\ map2' \in [Slots(m) -> Bucket] /\ (\A j \in Slots(m) : map2'[j] = Empty)
      /\ DOMAIN map2' = Slots(m)
  BY <1>1 DEF EmptyTable, Slots, Bucket
<1>6. Size2' = m
  <2>1. Cardinality(Slots(m)) = m
    BY <1>4, OccupiedFinite
  <2> QED BY <1>5, <2>1 DEF Size2
<1>7. /\ WellPlaced(map2', m, Slots(m)) /\ Cardinality(Occupied(map2', Slots(m))) = 0
      /\ \A d : (\A k \in Keys : d[k] = NULL) => Keeps(map2', Slots(m), d)
  BY <1>4, <1>5, AllEmpty
<1>8. /\ Cardinality(Occupied(buckets', Slots(from'))) = 0
      /\ \A k \in Keys : (Part(0)')[k] = NULL
  <2>1. Slots(0) = {} /\ 0 .. 0 - 1 = {}
    BY SMT DEF Slots
  <2>2. Occupied(buckets', Slots(from')) = {}
    BY <1>1, <2>1 DEF Occupied
  <2>3. \A k \in Keys : (Part(0)')[k] = NULL
    BY <2>1 DEF Part
  <2> QED BY <2>2, <2>3, FS_EmptySet
<1>9. SizesInv' /\ CallInv'
  BY <1>1, <1>2, SizesSame DEF MapInv, CallInv
<1>10. TableInv'
  BY <1>1, <1>3 DEF TableInv, InOrder, Counted, Due, Without
<1>11. ResizeInv'
  <2>1. from' \in 0 .. nbuckets'
    BY <1>1, <1>2
  <2> QED BY <1>1, <1>4, <1>5, <1>6, <1>7, <1>8, <2>1 DEF ResizeInv
<1>12. MoveInv'
  <2>1. Keeps(map2', Slots(m), Part(0)')
    BY <1>7, <1>8
  <2>2. Part(from)' = Part(0)'
    BY <1>1 DEF Part
  <2> QED BY <1>1, <1>6, <2>1, <2>2 DEF MoveInv
<1> QED BY <1>1, <1>9, <1>10, <1>11, <1>12 DEF MapInv, PlaceInv, FindInv, ShiftInv

(* What a call knows when there is no memory for a resize. *)
LEMMA ResizeFailsStep ==
  ASSUME MapInv, GrowFails \/ ShrinkFails
  PROVE  /\ MapInv' /\ DictOf(buckets', nbuckets') = Due
         /\ call.op = "delete" => spare = before[call.key]
<1> DEFINE n == nbuckets
           S == Slots(n)
<1>1. /\ pc \in {"grow", "shrink"} /\ pc' = "idle" /\ call' = NoCall /\ before' = NoValues
      /\ UNCHANGED table /\ UNCHANGED <<buckets, nbuckets, count>>
      /\ oom' = TRUE \/ oom' = oom
  BY DEF GrowFails, ShrinkFails, Return, NoValues, table
<1>2. /\ SizesInv /\ oom \in BOOLEAN /\ before \in [Keys -> Values \cup {NULL}]
  BY DEF MapInv, SizesInv
<1>3. /\ InOrder /\ Counted /\ Keeps(buckets, S, Due)
      /\ call.op = "delete" => spare = before[call.key]
  BY <1>1 DEF MapInv, CallInv, TableInv
<1>4. SizesInv'
  <2>1. oom' \in BOOLEAN
    BY <1>1, <1>2
  <2> QED BY <1>1, <1>2, <2>1, NoValuesType, SizesSame
<1>5. MapInv'
  BY <1>1, <1>3, <1>4, Idle DEF InOrder, Counted
<1>6. Due \in [Keys -> Values \cup {NULL}]
  BY <1>2 DEF Due, Without
<1>7. DictOf(buckets, n) = Due
  BY <1>3, <1>6, DictKept DEF InOrder
<1> QED BY <1>1, <1>3, <1>5, <1>7
---------------------------------------------------------------------------
(* What a resize knows where it stands. *)
LEMMA Resizing ==
  ASSUME MapInv, pc \in {"rehash", "move"}
  PROVE  /\ nbuckets \in Nat /\ 2 <= nbuckets /\ count \in Nat /\ from \in Nat /\ from <= nbuckets
         /\ WellPlaced(buckets, nbuckets, Slots(nbuckets))
         /\ count = Cardinality(Occupied(buckets, Slots(nbuckets)))
         /\ Keeps(buckets, Slots(nbuckets), Due)
         /\ Size2 \in Nat /\ 2 <= Size2 /\ Size2 \in SizesOver(cap)
         /\ map2 \in [Slots(Size2) -> Bucket]
         /\ count < Size2 /\ (call.op = "set" => count + 1 < Size2)
         /\ WellPlaced(map2, Size2, Slots(Size2))
         /\ Cardinality(Occupied(map2, Slots(Size2))) = Cardinality(Occupied(buckets, Slots(from)))
         /\ call.key \in Keys /\ call.op \in {"set", "delete"}
         /\ call.op = "set" => call.val \in Values
         /\ call.op = "delete" => spare = before[call.key]
         /\ before \in [Keys -> Values \cup {NULL}] /\ Due \in [Keys -> Values \cup {NULL}]
         /\ oom \in BOOLEAN /\ SizesInv
<1>1. /\ InOrder /\ Counted /\ Keeps(buckets, Slots(nbuckets), Due)
      /\ call.op = "delete" => spare = before[call.key]
  BY DEF MapInv, TableInv
<1>2. /\ SizesInv /\ before \in [Keys -> Values \cup {NULL}] /\ oom \in BOOLEAN /\ count \in Nat
      /\ nbuckets \in Nat /\ 2 <= nbuckets /\ cap \in Nat /\ 2 <= cap
  BY Sizes DEF MapInv, SizesInv
<1>3. /\ call.key \in Keys /\ call.op \in {"set", "delete"}
      /\ call.op = "set" => call.val \in Values
  BY CallTypes DEF MapInv, CallInv
<1>4. Due \in [Keys -> Values \cup {NULL}]
  BY <1>2, <1>3 DEF Due, Without
<1>5. ResizeInv
  BY DEF MapInv
<1>6. PICK n \in SizesOver(cap) : map2 \in [Slots(n) -> Bucket]
  BY <1>5 DEF ResizeInv
<1>7. n \in Nat /\ 2 <= n
  BY <1>2, SizeFacts
<1>8. Size2 = n
  <2>1. Cardinality(Slots(n)) = n
    BY <1>7, OccupiedFinite
  <2> QED BY <1>6, <2>1 DEF Size2
<1>9. /\ from \in 0 .. nbuckets
      /\ IF call.op = "set" THEN count + 1 < Size2 ELSE count < Size2
      /\ WellPlaced(map2, Size2, Slots(Size2))
      /\ Cardinality(Occupied(map2, Slots(Size2))) = Cardinality(Occupied(buckets, Slots(from)))
  BY <1>5 DEF ResizeInv
<1>10. count < Size2 /\ (call.op = "set" => count + 1 < Size2) /\ from \in Nat /\ from <= nbuckets
  BY <1>2, <1>7, <1>8, <1>9
<1> QED BY <1>1, <1>2, <1>3, <1>4, <1>6, <1>7, <1>8, <1>9, <1>10 DEF InOrder, Counted

(* Reaching one more of the old buckets adds what is in it. *)
LEMMA OneMoreBucket ==
  ASSUME NEW f \in Nat
  PROVE  /\ Slots(f + 1) = Slots(f) \cup {f} /\ f \notin Slots(f)
         /\ \A k \in Keys : buckets[f].key # k => Part(f + 1)[k] = Part(f)[k]
         /\ \A k \in Keys : buckets[f].key = k => Part(f + 1)[k] = Due[k]
         /\ buckets[f].dib = 0 => Occupied(buckets, Slots(f + 1)) = Occupied(buckets, Slots(f))
         /\ buckets[f].dib # 0 =>
              /\ Occupied(buckets, Slots(f + 1)) = Occupied(buckets, Slots(f)) \cup {f}
              /\ f \notin Occupied(buckets, Slots(f))
<1>1. Slots(f + 1) = Slots(f) \cup {f} /\ f \notin Slots(f) /\ (f + 1) - 1 = f
  BY SMT DEF Slots
<1>2. \A g : Part(g) = [k \in Keys |-> IF \E j \in Slots(g) : buckets[j].key = k THEN Due[k] ELSE NULL]
  BY DEF Part, Slots
<1>3. \A k \in Keys : buckets[f].key # k => Part(f + 1)[k] = Part(f)[k]
  BY <1>1, <1>2
<1>4. \A k \in Keys : buckets[f].key = k => Part(f + 1)[k] = Due[k]
  BY <1>1, <1>2
<1> QED BY <1>1, <1>3, <1>4 DEF Occupied

LEMMA PartTypes ==
  ASSUME Due \in [Keys -> Values \cup {NULL}], NEW f
  PROVE  /\ Part(f) \in [Keys -> Values \cup {NULL}]
         /\ \A k \in Keys : Part(f)[k] # NULL => Part(f)[k] = Due[k] /\ \E j \in Slots(f) : buckets[j].key = k
BY DEF Part, Slots

LEMMA RehashSkipStep ==
  ASSUME MapInv, RehashSkip
  PROVE  MapInv'
<1>1. /\ pc = "rehash" /\ from < nbuckets /\ buckets[from].dib = 0 /\ from' = from + 1
      /\ UNCHANGED table /\ UNCHANGED <<buckets, nbuckets, cap, count, oom, pc, call, spare, map2, before>>
  BY DEF RehashSkip, table
<1>2. /\ nbuckets \in Nat /\ from \in Nat /\ WellPlaced(buckets, nbuckets, Slots(nbuckets))
      /\ SizesInv /\ before \in [Keys -> Values \cup {NULL}] /\ oom \in BOOLEAN
  BY <1>1, Resizing
<1>3. buckets[from].key = NULL /\ NULL \notin Keys
  <2>1. from \in Slots(nbuckets)
    BY <1>1, <1>2 DEF Slots
  <2> QED BY <1>1, <1>2, <2>1, Dibs, HashAssumption DEF HashAssumption
<1>4. /\ Occupied(buckets, Slots(from + 1)) = Occupied(buckets, Slots(from))
      /\ Part(from + 1) = Part(from)
  <2>1. \A k \in Keys : Part(from + 1)[k] = Part(from)[k]
    BY <1>2, <1>3, OneMoreBucket
  <2>2. Part(from + 1) = Part(from)
    BY <2>1 DEF Part
  <2> QED BY <1>1, <1>2, <2>2, OneMoreBucket
<1>5. SizesInv' /\ CallInv' /\ TableInv'
  BY <1>1, <1>2, SizesSame
    DEF MapInv, CallInv, TableInv, InOrder, Counted, Due, Without, shrinkat
<1>6. Size2' = Size2 /\ Part(from)' = Part(from + 1) /\ from' \in 0 .. nbuckets'
  <2>1. Part(from)' = Part(from + 1)
    BY <1>1 DEF Part, Due, Without
  <2> QED BY <1>1, <1>2, <2>1 DEF Size2
<1>7. ResizeInv'
  BY <1>1, <1>4, <1>6 DEF MapInv, ResizeInv
<1>8. MoveInv'
  BY <1>1, <1>4, <1>6 DEF MapInv, MoveInv
<1> QED BY <1>1, <1>5, <1>7, <1>8 DEF MapInv, PlaceInv, FindInv, ShiftInv

LEMMA RehashTakeStep ==
  ASSUME MapInv, RehashTake
  PROVE  MapInv'
<1> DEFINE S2 == Slots(Size2)
           e == [buckets[from] EXCEPT !.dib = 1]
<1>1. /\ pc = "rehash" /\ from < nbuckets /\ buckets[from].dib # 0
      /\ pc' = "move" /\ i' = Home(buckets[from].key, Size2) /\ entry' = e
      /\ UNCHANGED table /\ UNCHANGED <<buckets, nbuckets, cap, count, oom, call, spare, map2, from, before>>
  BY DEF RehashTake, table, resizing
<1>0. /\ nbuckets \in Nat /\ from \in Nat /\ WellPlaced(buckets, nbuckets, Slots(nbuckets))
      /\ Keeps(buckets, Slots(nbuckets), Due) /\ Due \in [Keys -> Values \cup {NULL}]
      /\ Size2 \in Nat /\ 2 <= Size2 /\ WellPlaced(map2, Size2, S2)
      /\ SizesInv /\ before \in [Keys -> Values \cup {NULL}] /\ oom \in BOOLEAN
  BY <1>1, Resizing
<1>2. from \in Slots(nbuckets)
  BY <1>0, <1>1 DEF Slots
<1>3. buckets[from] \in Item /\ buckets[from].key \in Keys
  BY <1>0, <1>1, <1>2, Dibs
<1>4. /\ e \in Item /\ e.key = buckets[from].key /\ e.val = buckets[from].val /\ e.dib = 1
  BY <1>3 DEF Item
<1> HIDE DEF e
<1>5. InFlight(map2, Size2, i', e)
  BY <1>0, <1>1, <1>4, InFlightAtHome
<1>6. Carries(map2, S2, e, Part(from + 1))
  <2> DEFINE d == Part(from)
             d2 == Part(from + 1)
  <2>1. Keeps(map2, S2, d)
    BY <1>1 DEF MapInv, MoveInv
  <2>2. /\ \A k \in Keys : k # e.key => d2[k] = d[k]
        /\ d2[e.key] = e.val
    <3>1. Due[buckets[from].key] = buckets[from].val
      BY <1>0, <1>1, <1>2 DEF Keeps
    <3> QED BY <1>0, <1>3, <1>4, <3>1, OneMoreBucket
  <2>3. \A j \in S2 : map2[j].dib # 0 => map2[j].key \in Keys /\ map2[j].val \in Values
    BY <1>0, Dibs
  <2>4. \A j \in S2 : map2[j].key # e.key
    <3> SUFFICES ASSUME NEW j \in S2, map2[j].key = e.key PROVE FALSE
      OBVIOUS
    <3>1. NULL \notin Keys /\ NULL \notin Values
      BY HashAssumption DEF HashAssumption
    <3>2. map2[j].dib # 0
      BY <1>0, <1>3, <1>4, <3>1, Dibs
    <3>3. d[e.key] # NULL
      BY <2>1, <2>3, <3>1, <3>2 DEF Keeps
    <3>4. PICK g \in Slots(from) : buckets[g].key = e.key
      BY <1>0, <1>3, <1>4, <3>3, PartTypes
    <3>5. g \in Slots(nbuckets) /\ g # from
      BY <1>0, <1>1 DEF Slots
    <3> QED BY <1>0, <1>1, <1>2, <1>4, <3>4, <3>5 DEF WellPlaced
  <2> HIDE DEF d, d2
  <2>5. \A j \in S2 : map2[j].dib # 0 => d2[map2[j].key] = map2[j].val
    BY <2>1, <2>2, <2>3, <2>4 DEF Keeps
  <2>6. \A k \in Keys : d2[k] # NULL /\ k # e.key => \E j \in S2 : map2[j].key = k
    BY <2>1, <2>2 DEF Keeps
  <2>7. Carries(map2, S2, e, d2)
    BY <2>2, <2>4, <2>5, <2>6 DEF Carries
  <2> QED BY <2>7 DEF d2
<1>7. SizesInv' /\ CallInv' /\ TableInv'
  BY <1>1, <1>0, SizesSame
    DEF MapInv, CallInv, TableInv, InOrder, Counted, Due, Without
<1>8. Size2' = Size2 /\ Part(from + 1)' = Part(from + 1)
  BY <1>1 DEF Size2, Part, Due, Without
<1>9. ResizeInv'
  BY <1>1, <1>8 DEF MapInv, ResizeInv
<1>10. MoveInv'
  BY <1>1, <1>5, <1>6, <1>8 DEF MoveInv
<1> QED BY <1>1, <1>7, <1>9, <1>10 DEF MapInv, PlaceInv, FindInv, ShiftInv

LEMMA MoveEmptyStep ==
  ASSUME MapInv, MoveEmpty
  PROVE  MapInv'
<1> DEFINE m == Size2
           S2 == Slots(m)
           d == Part(from + 1)
<1>1. /\ pc = "move" /\ map2[i].dib = 0 /\ map2' = [map2 EXCEPT ![i] = entry]
      /\ pc' = "rehash" /\ from' = from + 1
      /\ UNCHANGED table /\ UNCHANGED <<buckets, nbuckets, cap, count, oom, call, spare, before>>
  BY DEF MoveEmpty, table
<1>0. /\ nbuckets \in Nat /\ from \in Nat /\ m \in Nat /\ 2 <= m /\ m \in SizesOver(cap)
      /\ map2 \in [S2 -> Bucket] /\ WellPlaced(map2, m, S2)
      /\ Cardinality(Occupied(map2, S2)) = Cardinality(Occupied(buckets, Slots(from)))
      /\ IF call.op = "set" THEN count + 1 < m ELSE count < m
      /\ SizesInv /\ before \in [Keys -> Values \cup {NULL}] /\ oom \in BOOLEAN
  BY <1>1, Resizing DEF MapInv, ResizeInv
<1>2. /\ from < nbuckets /\ buckets[from].dib # 0
      /\ InFlight(map2, m, i, entry) /\ Carries(map2, S2, entry, d)
  BY <1>1 DEF MapInv, MoveInv
<1>3. i \in S2 /\ entry \in Item /\ entry.dib \in Nat /\ entry.dib # 0 /\ entry \in Bucket
  BY <1>2 DEF InFlight, Item, Bucket
<1>4. /\ map2' \in [S2 -> Bucket] /\ map2'[i] = entry
      /\ \A j \in S2 : j # i => map2'[j] = map2[j]
  BY <1>0, <1>1, <1>3
<1>5. Size2' = m
  BY <1>0, <1>4 DEF Size2
<1> HIDE DEF d
<1>6. WellPlaced(map2', m, S2)
  <2>1. \A j \in S2 : map2[j].key # entry.key
    BY <1>2 DEF Carries
  <2>2. map2[i].dib < entry.dib
    BY <1>1, <1>3
  <2> HIDE DEF m
  <2> QED BY <1>0, <1>2, <1>4, <2>1, <2>2, PutDown
<1>7. Keeps(map2', S2, d)
  <2>1. map2[i].key \notin Keys
    <3>1. map2[i].key = NULL
      BY <1>0, <1>1, <1>3, Dibs
    <3> QED BY <3>1, HashAssumption DEF HashAssumption
  <2> QED BY <1>2, <1>3, <1>4, <2>1, CarriesPut
<1>8. Cardinality(Occupied(map2', S2)) = Cardinality(Occupied(buckets, Slots(from + 1)))
  <2>1. Occupied(map2', S2) = Occupied(map2, S2) \cup {i} /\ i \notin Occupied(map2, S2)
    BY <1>1, <1>3, <1>4 DEF Occupied
  <2>2. Cardinality(Occupied(map2, S2) \cup {i}) = Cardinality(Occupied(map2, S2)) + 1
    BY <1>0, <2>1, OneMore
  <2>3. /\ Occupied(buckets, Slots(from + 1)) = Occupied(buckets, Slots(from)) \cup {from}
        /\ from \notin Occupied(buckets, Slots(from))
    BY <1>0, <1>2, OneMoreBucket
  <2>4. Cardinality(Occupied(buckets, Slots(from)) \cup {from})
          = Cardinality(Occupied(buckets, Slots(from))) + 1
    BY <1>0, <2>3, OneMore
  <2> QED BY <1>0, <2>1, <2>2, <2>3, <2>4
<1>9. SizesInv' /\ CallInv' /\ TableInv'
  BY <1>0, <1>1, SizesSame
    DEF MapInv, CallInv, TableInv, InOrder, Counted, Due, Without
<1>10. ResizeInv'
  <2>1. from' \in 0 .. nbuckets'
    BY <1>0, <1>1, <1>2
  <2> QED BY <1>0, <1>1, <1>4, <1>5, <1>6, <1>8, <2>1 DEF ResizeInv
<1>11. MoveInv'
  <2>1. Part(from)' = d
    BY <1>1 DEF Part, Due, Without, d
  <2> QED BY <1>1, <1>5, <1>7, <2>1 DEF MoveInv
<1> QED BY <1>1, <1>9, <1>10, <1>11 DEF MapInv, PlaceInv, FindInv, ShiftInv

LEMMA MoveNextStep ==
  ASSUME MapInv, MoveNext
  PROVE  MapInv'
<1> DEFINE m == Size2
           S2 == Slots(m)
           d == Part(from + 1)
           x == IF map2[i].dib < entry.dib THEN entry ELSE map2[i]
           y == IF map2[i].dib < entry.dib THEN map2[i] ELSE entry
<1>1. /\ pc = "move" /\ map2[i].dib # 0 /\ map2' = [map2 EXCEPT ![i] = x]
      /\ entry' = [y EXCEPT !.dib = @ + 1] /\ i' = After(i, m)
      /\ UNCHANGED table
      /\ UNCHANGED <<buckets, nbuckets, cap, count, oom, pc, call, spare, from, before>>
  BY DEF MoveNext, Left, Carry, Richer, After, table
<1>0. /\ nbuckets \in Nat /\ from \in Nat /\ from <= nbuckets
      /\ m \in Nat /\ 2 <= m /\ m \in SizesOver(cap)
      /\ map2 \in [S2 -> Bucket] /\ WellPlaced(map2, m, S2)
      /\ Cardinality(Occupied(map2, S2)) = Cardinality(Occupied(buckets, Slots(from)))
      /\ count = Cardinality(Occupied(buckets, Slots(nbuckets))) /\ count \in Nat /\ count < m
      /\ SizesInv /\ before \in [Keys -> Values \cup {NULL}] /\ oom \in BOOLEAN
  BY <1>1, Resizing
<1>2. /\ from < nbuckets /\ buckets[from].dib # 0
      /\ InFlight(map2, m, i, entry) /\ Carries(map2, S2, entry, d)
  BY <1>1 DEF MapInv, MoveInv
<1>3. i \in S2 /\ entry \in Item /\ entry.dib \in Nat /\ entry.dib # 0 /\ entry \in Bucket
  BY <1>2 DEF InFlight, Item, Bucket
<1>4. map2[i] \in Item /\ map2[i] \in Bucket /\ map2[i].dib \in Nat
  BY <1>0, <1>1, <1>3, Dibs
<1>5. x \in Bucket /\ y \in Item
  BY <1>3, <1>4
<1> HIDE DEF x, y, d
<1>6. /\ map2' \in [S2 -> Bucket] /\ map2'[i] = x
      /\ \A j \in S2 : j # i => map2'[j] = map2[j]
  BY <1>0, <1>1, <1>3, <1>5
<1>7. Size2' = m
  BY <1>0, <1>6 DEF Size2
<1>8. entry'.key = y.key /\ entry'.val = y.val
  BY <1>1, <1>5 DEF Item
<1> HIDE DEF m
<1>9. \E j \in S2 : map2[j].dib = 0
  <2>1. Occupied(buckets, Slots(from)) \in SUBSET Occupied(buckets, Slots(nbuckets))
    BY <1>0 DEF Occupied, Slots
  <2>2. Cardinality(Occupied(buckets, Slots(from))) <= count
    <3>1. IsFiniteSet(Occupied(buckets, Slots(nbuckets)))
      BY <1>0, OccupiedFinite
    <3> QED BY <1>0, <2>1, <3>1, FS_Subset
  <2>3. Cardinality(Occupied(map2, S2)) \in Nat
    BY <1>0, OccupiedFinite
  <2>4. Cardinality(Occupied(map2, S2)) < m
    BY <1>0, <2>2, <2>3
  <2> QED BY <1>0, <2>4, SomeEmpty
<1>10. InFlight(map2', m, i', entry')
  <2>1. \/ /\ map2[i].dib < entry.dib /\ map2'[i] = entry
           /\ entry' = [map2[i] EXCEPT !.dib = @ + 1]
        \/ /\ ~(map2[i].dib < entry.dib) /\ map2'[i] = map2[i]
           /\ entry' = [entry EXCEPT !.dib = @ + 1]
    BY <1>1, <1>6 DEF x, y
  <2> QED BY <1>0, <1>1, <1>2, <1>6, <1>9, <2>1, CarryOn
<1> DEFINE Going == /\ WellPlaced(map2', m, S2) /\ Carries(map2', S2, entry', d)
                    /\ Occupied(map2', S2) = Occupied(map2, S2)
<1>11. ASSUME map2[i].dib < entry.dib PROVE Going
  <2>1. x = entry /\ y = map2[i]
    BY <1>11 DEF x, y
  <2>2. WellPlaced(map2', m, S2)
    <3>1. \A j \in S2 : map2[j].key # entry.key
      BY <1>2 DEF Carries
    <3> QED BY <1>0, <1>2, <1>6, <1>11, <2>1, <3>1, PutDown
  <2>3. Carries(map2', S2, entry', d)
    <3>1. /\ entry'.key = map2[i].key /\ entry'.val = map2[i].val
          /\ map2'[i] = entry /\ \A j \in S2 : j # i => map2'[j] = map2[j]
      BY <1>6, <1>8, <2>1
    <3>2. WellPlaced(map2, m, S2) /\ i \in S2 /\ map2[i].dib # 0
      BY <1>0, <1>1, <1>3
    <3> QED BY <1>2, <3>1, <3>2, CarriesExchanged
  <2>4. Occupied(map2', S2) = Occupied(map2, S2)
    BY <1>1, <1>3, <1>6, <2>1 DEF Occupied
  <2> QED BY <2>2, <2>3, <2>4
<1>12. ASSUME ~(map2[i].dib < entry.dib) PROVE Going
  <2>1. (\A j \in S2 : map2'[j] = map2[j]) /\ entry'.key = entry.key /\ entry'.val = entry.val
    BY <1>6, <1>8, <1>12 DEF x, y
  <2> QED BY <1>0, <1>2, <2>1 DEF WellPlaced, Carries, Occupied
<1>13. Going
  BY <1>11, <1>12
<1>14. SizesInv' /\ CallInv' /\ TableInv'
  BY <1>0, <1>1, SizesSame
    DEF MapInv, CallInv, TableInv, InOrder, Counted, Due, Without
<1>15. ResizeInv'
  <2>1. ResizeInv
    BY DEF MapInv
  <2> QED BY <1>0, <1>1, <1>6, <1>7, <1>13, <2>1 DEF ResizeInv, m
<1>16. MoveInv'
  <2>1. Part(from + 1)' = d
    BY <1>1 DEF Part, Due, Without, d
  <2> QED BY <1>1, <1>2, <1>7, <1>10, <1>13, <2>1 DEF MoveInv
<1> QED BY <1>1, <1>14, <1>15, <1>16 DEF MapInv, PlaceInv, FindInv, ShiftInv

(* The new table has all that is due. *)
LEMMA RehashEndStep ==
  ASSUME MapInv, RehashEnd
  PROVE  /\ MapInv' /\ DictOf(buckets', nbuckets') = Due
         /\ call.op = "delete" => spare = before[call.key]
<1> DEFINE m == Size2
           S2 == Slots(m)
           e == [key |-> call.key, val |-> call.val, dib |-> 1]
<1>1. /\ pc = "rehash" /\ from = nbuckets
      /\ buckets' = map2 /\ nbuckets' = m /\ growat' = GrowAt(m, GROW_AT)
      /\ UNCHANGED <<cap, count, loadfactor, growpower, oom>>
      /\ call.op = "set" =>
           /\ pc' = "place" /\ i' = Home(call.key, m) /\ entry' = e /\ UNCHANGED <<call, before>>
      /\ call.op # "set" => pc' = "idle" /\ call' = NoCall /\ before' = NoValues
  BY DEF RehashEnd, Return, NoValues
<1>0. /\ nbuckets \in Nat /\ count \in Nat /\ m \in Nat /\ 2 <= m /\ m \in SizesOver(cap)
      /\ count = Cardinality(Occupied(buckets, Slots(nbuckets)))
      /\ Keeps(buckets, Slots(nbuckets), Due)
      /\ map2 \in [S2 -> Bucket] /\ WellPlaced(map2, m, S2)
      /\ Cardinality(Occupied(map2, S2)) = Cardinality(Occupied(buckets, Slots(from)))
      /\ count < m /\ (call.op = "set" => count + 1 < m)
      /\ call.key \in Keys /\ call.op \in {"set", "delete"}
      /\ call.op = "set" => call.val \in Values
      /\ call.op = "delete" => spare = before[call.key]
      /\ before \in [Keys -> Values \cup {NULL}] /\ Due \in [Keys -> Values \cup {NULL}]
      /\ oom \in BOOLEAN /\ SizesInv
  BY <1>1, Resizing
<1>2. Keeps(map2, S2, Part(from))
  BY <1>1 DEF MapInv, MoveInv
<1> HIDE DEF m, e
<1>3. Part(from) = Due
  <2>1. \A k \in Keys : Part(from)[k] = Due[k]
    BY <1>0, <1>1 DEF Part, Keeps, Slots
  <2> DEFINE p == Part(from)
             q == Due
  <2>2. p \in [Keys -> Values \cup {NULL}] /\ q \in [Keys -> Values \cup {NULL}]
    BY <1>0, PartTypes
  <2> HIDE DEF p, q
  <2>3. p = q
    BY <2>1, <2>2 DEF p, q
  <2> QED BY <2>3 DEF p, q
<1>4. /\ WellPlaced(buckets', nbuckets', Slots(nbuckets')) /\ Keeps(buckets', Slots(nbuckets'), Due)
      /\ count' = Cardinality(Occupied(buckets', Slots(nbuckets')))
  BY <1>0, <1>1, <1>2, <1>3
<1>5. SizesInv'
  <2>1. growat' \in Nat /\ growat' < nbuckets'
    <3>1. GROW_AT \in 0 .. 95 /\ m # 0
      BY <1>0 DEF GROW_AT
    <3> QED BY <1>0, <1>1, <3>1, GrowAtLess
  <2>2. before' \in [Keys -> Values \cup {NULL}]
    BY <1>0, <1>1, NoValuesType
  <2>3. \E k \in Nat : nbuckets' <= k /\ buckets' \in [0 .. k - 1 -> Bucket]
    BY <1>0, <1>1 DEF Slots
  <2> QED BY <1>0, <1>1, <2>1, <2>2, <2>3 DEF SizesInv
<1>6. ASSUME call.op = "delete" PROVE MapInv'
  BY <1>1, <1>4, <1>5, <1>6, Idle
<1>7. ASSUME call.op = "set" PROVE MapInv'
  <2>1. /\ pc' = "place" /\ i' = Home(call.key, m) /\ entry' = e /\ UNCHANGED <<call, before>>
    BY <1>1, <1>7
  <2>2. e \in Item /\ e.key = call.key /\ e.val = call.val /\ e.dib = 1
    BY <1>0, <1>7 DEF Item, e
  <2>3. InFlight(map2, m, i', e)
    BY <1>0, <2>1, <2>2, InFlightAtHome
  <2>4. NotMet(map2, m, i', call.key)
    BY <1>0, <2>1, MetAtHome
  <2>5. Keeps(map2, S2, before)
    BY <1>2, <1>3, <1>7 DEF Due
  <2>6. PlaceInv'
    BY <1>0, <1>1, <1>7, <2>1, <2>2, <2>3, <2>4, <2>5 DEF PlaceInv
  <2>7. CallInv'
    BY <1>1, <1>7, <2>1 DEF MapInv, CallInv
  <2>8. TableInv'
    BY <1>4, <2>1 DEF TableInv, InOrder, Counted
  <2> QED BY <1>5, <2>1, <2>6, <2>7, <2>8 DEF MapInv, FindInv, ShiftInv, ResizeInv, MoveInv
<1>8. DictOf(buckets', nbuckets') = Due
  <2> DEFINE b2 == buckets'
             n2 == nbuckets'
  <2>1. WellPlaced(b2, n2, Slots(n2)) /\ Keeps(b2, Slots(n2), Due)
    BY <1>4
  <2> HIDE DEF b2, n2
  <2>2. DictOf(b2, n2) = Due
    BY <1>0, <2>1, DictKept
  <2> QED BY <2>2 DEF b2, n2
<1> QED BY <1>0, <1>6, <1>7, <1>8
---------------------------------------------------------------------------
(* What callers do between two calls. *)
LEMMA ClearStep ==
  ASSUME MapInv, NEW update_cap \in BOOLEAN, NEW memory \in BOOLEAN,
         hashmap_clear(update_cap, memory)
  PROVE  MapInv' /\ DictOf(buckets', nbuckets') = NoValues
<1> DEFINE n == IF update_cap THEN nbuckets ELSE cap
           room == IF ~update_cap /\ nbuckets # cap /\ memory THEN EmptyTable(cap) ELSE buckets
<1>1. /\ pc = "idle" /\ count' = 0 /\ cap' = n /\ nbuckets' = n
      /\ growat' = GrowAt(n, loadfactor)
      /\ buckets' = [j \in DOMAIN room |-> IF j < n THEN Empty ELSE room[j]]
      /\ UNCHANGED <<loadfactor, growpower, oom, pc, call, before>>
  BY DEF hashmap_clear
<1>2. /\ nbuckets \in Nat /\ 2 <= nbuckets /\ cap \in Nat /\ 2 <= cap /\ cap <= nbuckets
      /\ MinBuckets \in Nat /\ MinBuckets <= cap /\ loadfactor \in 50 .. 95
      /\ growpower \in 1 .. 16 /\ oom \in BOOLEAN /\ call = NoCall
      /\ before \in [Keys -> Values \cup {NULL}]
  BY <1>1, Sizes, AtLeastTwo DEF MapInv, SizesInv, CallInv
<1>3. n \in Nat /\ 2 <= n /\ n <= nbuckets /\ MinBuckets <= n
  BY <1>2
<1>4. PICK m \in Nat : n <= m /\ room \in [0 .. m - 1 -> Bucket]
  <2>1. CASE ~update_cap /\ nbuckets # cap /\ memory
    BY <1>2, <2>1 DEF EmptyTable, Bucket
  <2>2. CASE ~(~update_cap /\ nbuckets # cap /\ memory)
    <3>1. PICK m \in Nat : nbuckets <= m /\ buckets \in [0 .. m - 1 -> Bucket]
      BY DEF MapInv, SizesInv
    <3>2. room = buckets /\ n <= m
      BY <1>2, <1>3, <2>2, <3>1
    <3> HIDE DEF n, room
    <3> QED BY <3>1, <3>2
  <2> QED BY <2>1, <2>2
<1> HIDE DEF n, room
<1>5. DOMAIN room = 0 .. m - 1 /\ \A j \in 0 .. m - 1 : room[j] \in Bucket
  BY <1>4
<1>6. /\ buckets' \in [0 .. m - 1 -> Bucket]
      /\ \A j \in Slots(n) : buckets'[j] = Empty
  <2>1. Empty \in Bucket
    BY DEF Bucket
  <2>2. \A j \in Slots(n) : j \in 0 .. m - 1 /\ j < n
    BY <1>3, <1>4 DEF Slots
  <2> QED BY <1>1, <1>5, <2>1, <2>2
<1>7. /\ WellPlaced(buckets', n, Slots(n)) /\ Cardinality(Occupied(buckets', Slots(n))) = 0
      /\ Keeps(buckets', Slots(n), NoValues)
  <2>1. \A k \in Keys : NoValues[k] = NULL
    BY DEF NoValues
  <2> QED BY <1>3, <1>6, <2>1, AllEmpty
<1>8. SizesInv'
  <2>1. growat' \in Nat /\ growat' < nbuckets'
    <3>1. loadfactor \in 0 .. 95 /\ n # 0
      BY <1>2, <1>3
    <3> QED BY <1>1, <1>3, <3>1, GrowAtLess
  <2>2. nbuckets' \in SizesOver(cap') /\ cap' \in Nat /\ MinBuckets <= cap'
    BY <1>1, <1>3, SizeFacts
  <2>3. \E k \in Nat : nbuckets' <= k /\ buckets' \in [0 .. k - 1 -> Bucket]
    BY <1>1, <1>4, <1>6
  <2>4. count' \in Nat /\ count' < nbuckets'
    BY <1>1, <1>3
  <2> QED BY <1>1, <1>2, <2>1, <2>2, <2>3, <2>4 DEF SizesInv
<1>9. MapInv'
  BY <1>1, <1>2, <1>7, <1>8, Idle
<1>10. DictOf(buckets', n) = NoValues
  BY <1>7, NoValuesType, DictKept
<1> QED BY <1>1, <1>9, <1>10

LEMMA SettingsStep ==
  ASSUME MapInv,
         \/ \E f \in LoadFactors : hashmap_set_load_factor(f)
         \/ \E p \in GrowPowers : hashmap_set_grow_by_power(p)
  PROVE  MapInv'
<1>1. /\ pc = "idle"
      /\ UNCHANGED <<buckets, nbuckets, cap, count, oom, pc, call, before>>
      /\ \/ loadfactor' = loadfactor /\ growat' = growat
         \/ loadfactor' \in 50 .. 95 /\ growat' = GrowAt(nbuckets, loadfactor')
      /\ growpower' = growpower \/ growpower' \in 1 .. 16
  <2>1. ASSUME NEW f \in LoadFactors PROVE clamp_load_factor(f) \in 50 .. 95
    <3>1. f \in Nat
      BY HashAssumption DEF HashAssumption
    <3> QED BY <3>1 DEF clamp_load_factor
  <2>2. ASSUME NEW p \in GrowPowers
        PROVE  (IF p < 1 THEN 1 ELSE IF p > 16 THEN 16 ELSE p) \in 1 .. 16
    <3>1. p \in Nat
      BY HashAssumption DEF HashAssumption
    <3> QED BY <3>1
  <2> QED BY <2>1, <2>2 DEF hashmap_set_load_factor, hashmap_set_grow_by_power
<1>2. SizesInv /\ nbuckets \in Nat /\ 2 <= nbuckets /\ call = NoCall
  BY <1>1, Sizes DEF MapInv, CallInv
<1>3. growat' \in Nat /\ growat' < nbuckets /\ loadfactor' \in 50 .. 95
  <2>1. CASE loadfactor' \in 50 .. 95 /\ growat' = GrowAt(nbuckets, loadfactor')
    <3>1. loadfactor' \in 0 .. 95 /\ nbuckets # 0
      BY <1>2, <2>1
    <3> QED BY <1>2, <2>1, <3>1, GrowAtLess
  <2>2. CASE loadfactor' = loadfactor /\ growat' = growat
    BY <1>2, <2>2 DEF SizesInv
  <2> QED BY <1>1, <2>1, <2>2
<1>4. SizesInv'
  BY <1>1, <1>2, <1>3 DEF SizesInv
<1>5. /\ WellPlaced(buckets', nbuckets', Slots(nbuckets'))
      /\ count' = Cardinality(Occupied(buckets', Slots(nbuckets')))
  BY <1>1 DEF MapInv, TableInv, InOrder, Counted
<1> QED BY <1>1, <1>2, <1>4, <1>5, Idle

LEMMA NothingChanges ==
  ASSUME MapInv, UNCHANGED <<table, oom, pc, call, i, entry, spare, resizing, before>>
  PROVE  MapInv' /\ Dict' = Dict
<1>1. /\ UNCHANGED <<buckets, nbuckets, cap, count, growat, loadfactor, growpower>>
      /\ UNCHANGED <<oom, pc, call, i, entry, spare, map2, from, before>>
  BY DEF table, resizing
<1>2. SizesInv' /\ CallInv'
  BY <1>1 DEF MapInv, SizesInv, CallInv
<1>3. TableInv'
  BY <1>1 DEF MapInv, TableInv, InOrder, Counted, Due, Without, shrinkat
<1>4. PlaceInv' /\ FindInv'
  BY <1>1 DEF MapInv, PlaceInv, FindInv, With
<1>5. ShiftInv'
  BY <1>1 DEF MapInv, ShiftInv, Others, Without
<1>6. ResizeInv'
  BY <1>1 DEF MapInv, ResizeInv, Size2
<1>7. MoveInv'
  BY <1>1 DEF MapInv, MoveInv, Size2, Part, Due, Without
<1>8. Dict' = Dict
  BY <1>1 DEF Dict
<1> QED BY <1>2, <1>3, <1>4, <1>5, <1>6, <1>7, <1>8 DEF MapInv

LEMMA MapInit ==
  ASSUME Init
  PROVE  MapInv /\ Dict = NoValues
<1> DEFINE n == nbuckets
           S == Slots(n)
<1>1. MinBuckets \in Nat /\ 2 <= MinBuckets
  BY AtLeastTwo
<1>2. n \in Nat /\ 2 <= n /\ MinBuckets <= n /\ cap = n
  BY <1>1 DEF Init
<1>3. /\ buckets = EmptyTable(n) /\ count = 0 /\ loadfactor = 60 /\ growpower = 1
      /\ growat = GrowAt(n, 60) /\ oom = FALSE /\ pc = "idle" /\ call = NoCall /\ before = Dict
  BY DEF Init, GROW_AT
<1>4. buckets \in [0 .. n - 1 -> Bucket] /\ \A j \in S : buckets[j] = Empty
  BY <1>3 DEF EmptyTable, Bucket, Slots
<1>5. /\ WellPlaced(buckets, n, S) /\ Cardinality(Occupied(buckets, S)) = 0
      /\ Keeps(buckets, S, NoValues)
  <2>1. \A k \in Keys : NoValues[k] = NULL
    BY DEF NoValues
  <2> QED BY <1>2, <1>4, <2>1, AllEmpty
<1>6. Dict = NoValues
  BY <1>5, DictIs, DictKept, NoValuesType
<1>7. SizesInv
  <2>1. growat \in Nat /\ growat < nbuckets
    <3>1. 60 \in 0 .. 95 /\ n # 0
      BY <1>2
    <3> QED BY <1>2, <1>3, <3>1, GrowAtLess
  <2>2. nbuckets \in SizesOver(cap) /\ cap \in Nat /\ MinBuckets <= cap
    BY <1>2, SizeFacts
  <2>3. \E m \in Nat : nbuckets <= m /\ buckets \in [0 .. m - 1 -> Bucket]
    BY <1>2, <1>4
  <2>4. count \in Nat /\ count < nbuckets /\ loadfactor \in 50 .. 95 /\ growpower \in 1 .. 16
    BY <1>2, <1>3
  <2>5. before \in [Keys -> Values \cup {NULL}] /\ oom \in BOOLEAN
    BY <1>3, <1>6, NoValuesType
  <2> QED BY <2>1, <2>2, <2>3, <2>4, <2>5 DEF SizesInv
<1>8. InOrder /\ Counted
  BY <1>3, <1>5 DEF InOrder, Counted
<1>9. MapInv
  BY <1>3, <1>7, <1>8
    DEF MapInv, CallInv, TableInv, PlaceInv, FindInv, ShiftInv, ResizeInv, MoveInv
<1> QED BY <1>6, <1>9
---------------------------------------------------------------------------
LEMMA MapStep ==
  ASSUME MapInv, [Next]_vars
  PROVE  MapInv'
<1>1. ASSUME NEW k \in Keys, GetCall(k) \/ DeleteCall(k) PROVE MapInv'
  BY <1>1, FindCallStep
<1>2. ASSUME NEW item \in Items, SetCall(item[1], item[2]) PROVE MapInv'
  <2>1. item[1] \in Keys /\ item[2] \in Values
    BY HashAssumption DEF HashAssumption
  <2> QED BY <1>2, <2>1, SetCallStep
<1>3. ASSUME NEW update_cap \in BOOLEAN, NEW memory \in BOOLEAN,
             hashmap_clear(update_cap, memory)
      PROVE  MapInv'
  BY <1>3, ClearStep
<1>4. CASE \/ \E f \in LoadFactors : hashmap_set_load_factor(f)
           \/ \E p \in GrowPowers : hashmap_set_grow_by_power(p)
  BY <1>4, SettingsStep
<1>5. CASE Call
  BY <1>1, <1>2, <1>3, <1>4, <1>5 DEF Call
<1>6. CASE SetEmpty
  BY <1>6, SetEmptyStep
<1>7. CASE SetReplace
  BY <1>7, SetReplaceStep
<1>8. CASE SetNext
  BY <1>8, SetNextStep
<1>9. CASE ResizeStart
  BY <1>9, ResizeStartStep
<1>10. CASE GrowFails \/ ShrinkFails
  BY <1>10, ResizeFailsStep
<1>11. CASE RehashSkip
  BY <1>11, RehashSkipStep
<1>12. CASE RehashTake
  BY <1>12, RehashTakeStep
<1>13. CASE MoveEmpty
  BY <1>13, MoveEmptyStep
<1>14. CASE MoveNext
  BY <1>14, MoveNextStep
<1>15. CASE RehashEnd
  BY <1>15, RehashEndStep
<1>16. CASE FindMissing
  BY <1>16, FindMissingStep
<1>17. CASE FindNext
  BY <1>17, FindNextStep
<1>18. CASE FindHit
  BY <1>18, FindHitStep
<1>19. CASE ShiftBack
  BY <1>19, ShiftBackStep
<1>20. CASE ShiftEnd
  BY <1>20, ShiftEndStep
<1>21. CASE Step
  BY <1>6, <1>7, <1>8, <1>9, <1>10, <1>11, <1>12, <1>13, <1>14, <1>15, <1>16, <1>17, <1>18,
     <1>19, <1>20, <1>21 DEF Step
<1>22. CASE IterNext \/ IterEnd \/ UNCHANGED vars
  BY <1>22, NothingChanges DEF IterNext, IterEnd, vars
<1> QED BY <1>5, <1>21, <1>22 DEF Next

(* MapInv holds whatever is called, and whatever is displaced, shifted,      *)
(* rehashed or refused (hashmap.c).                                          *)
THEOREM MapInvHolds == Spec => []MapInv
<1>1. Init => MapInv
  BY MapInit
<1>2. MapInv /\ [Next]_vars => MapInv'
  BY MapStep
<1> QED BY <1>1, <1>2, PTL DEF Spec
---------------------------------------------------------------------------
(* What the tests can see follows from what any two buckets obey. *)
LEMMA InOrderIsOrdered ==
  ASSUME NEW n \in Nat, 2 <= n, NEW b, WellPlaced(b, n, Slots(n))
  PROVE  Ordered(b, n)
<1> SUFFICES ASSUME NEW j \in Slots(n)
             PROVE  /\ b[j].dib # 0 => (Home(b[j].key, n) + b[j].dib - 1) % n = j
                    /\ b[(j + 1) % n].dib <= b[j].dib + 1
                    /\ \A k \in Slots(n) : b[k].key = b[j].key /\ b[j].dib # 0 => k = j
  BY DEF Ordered, Slots
<1>1. /\ b[j].dib \in Nat
      /\ b[j].dib # 0 => b[j].key \in Keys /\ b[j].dib = Dist(Home(b[j].key, n), j, n) + 1
  BY Dibs DEF WellPlaced
<1>2. ASSUME b[j].dib # 0 PROVE (Home(b[j].key, n) + b[j].dib - 1) % n = j
  <2> DEFINE h == Home(b[j].key, n)
             d == Dist(h, j, n)
  <2>1. h \in Slots(n) /\ b[j].dib = d + 1
    BY <1>1, <1>2, HomeIn
  <2> HIDE DEF h
  <2>2. h \in Int /\ 0 <= h /\ h < n /\ j \in Int /\ 0 <= j /\ j < n
    BY <2>1 DEF Slots
  <2>3. d \in Nat /\ (h + d = j \/ h + d = j + n)
    BY <2>2 DEF Dist
  <2> HIDE DEF d
  <2>4. (h + d) % n = j
    <3>1. CASE h + d = j
      BY <2>2, <3>1
    <3>2. CASE h + d = j + n
      <4>1. (j + n) % n = j
        BY <2>2, SMT
      <4> QED BY <3>2, <4>1
    <3> QED BY <2>3, <3>1, <3>2
  <2>5. h + b[j].dib - 1 = h + d
    BY <2>1, <2>2, <2>3
  <2> QED BY <2>4, <2>5 DEF h
<1>3. b[(j + 1) % n].dib <= b[j].dib + 1
  <2> DEFINE to == After(j, n)
  <2>1. to \in Slots(n) /\ j # to /\ Dist(j, j, n) = 0
    BY AfterIs, OneFurther, DistAdd
  <2>2. Dist(j, to, n) = 1
    BY <2>1, OneFurther
  <2>3. b[to].dib <= b[j].dib + 1
    BY <2>1, <2>2 DEF WellPlaced
  <2> QED BY <2>3 DEF After
<1>4. \A k \in Slots(n) : b[k].key = b[j].key /\ b[j].dib # 0 => k = j
  BY DEF WellPlaced
<1> QED BY <1>2, <1>3, <1>4

(* Whenever no call runs the table is in order and counted right, and the    *)
(* buckets in use are no fewer than asked for and within the memory there is.*)
THEOREM MapInOrder == Spec => []TableOrdered
<1>1. MapInv => TableOrdered
  <2> SUFFICES ASSUME MapInv PROVE TableOrdered
    OBVIOUS
  <2>1. SizesInv /\ nbuckets \in Nat /\ 2 <= nbuckets /\ cap <= nbuckets
    BY Sizes DEF MapInv
  <2>2. nbuckets <= Cardinality(DOMAIN buckets)
    <3>1. PICK m \in Nat : nbuckets <= m /\ buckets \in [0 .. m - 1 -> Bucket]
      BY <2>1 DEF SizesInv
    <3>2. Cardinality(0 .. m - 1) = m
      BY <3>1, OccupiedFinite DEF Slots
    <3> QED BY <3>1, <3>2
  <2>3. ASSUME pc = "idle" PROVE Ordered(buckets, nbuckets) /\ CountRight
    <3>1. InOrder /\ Counted
      BY <2>3 DEF MapInv, TableInv
    <3>2. CountRight
      BY <2>1, <3>1 DEF Counted, CountRight, Deepcount, Occupied, Slots, SizesInv
    <3> QED BY <2>1, <3>1, <3>2, InOrderIsOrdered DEF InOrder
  <2> QED BY <2>1, <2>2, <2>3 DEF TableOrdered
<1> QED BY <1>1, MapInvHolds, PTL
---------------------------------------------------------------------------
(* The dictionary a caller is shown: while a call runs, the one it found. *)
Shown == IF call = NoCall THEN Dict ELSE before

LEMMA AnsweredStep ==
  ASSUME MapInv, pc # "idle", call' = NoCall, NEW d, DictOf(buckets', nbuckets') = d
  PROVE  call # NoCall /\ Shown = before /\ Shown' = d
<1>1. call # NoCall
  BY DEF MapInv, CallInv
<1>2. Dict' = DictOf(buckets', nbuckets')
  BY DEF Dict, DictOf, Slots
<1> QED BY <1>1, <1>2 DEF Shown

(* A call that goes on shows nothing. *)
LEMMA GoesOn ==
  ASSUME MapInv, pc # "idle", UNCHANGED <<call, answer, oom, before>>
  PROVE  UNCHANGED Promise!mapVars
<1>1. call # NoCall
  BY DEF MapInv, CallInv
<1> QED BY <1>1 DEF Promise!mapVars

LEMMA Requested ==
  ASSUME MapInv, NEW op, NEW k \in Keys, NEW v,
         (op = "set" /\ v \in Values) \/ (op \in {"get", "delete"} /\ v = NULL),
         Begin(op, k, v)
  PROVE  Promise!MapNext
<1> DEFINE c == [op |-> op, key |-> k, val |-> v]
<1>1. c \in Promise!MapCalls /\ c # NoCall /\ c.op = op
  BY NewCall
<1>2. /\ pc = "idle" /\ call' = c /\ before' = Dict /\ oom' = (op = "get" /\ oom)
      /\ answer' = NULL
  BY DEF Begin
<1>3. call = NoCall
  BY <1>2 DEF MapInv, CallInv
<1>4. Shown = Dict /\ Shown' = Dict
  BY <1>1, <1>2, <1>3 DEF Shown
<1>5. Promise!Request(c)
  BY <1>1, <1>2, <1>3, <1>4 DEF Promise!Request, Promise!NoCall, NoCall, Shown
<1> QED BY <1>1, <1>5 DEF Promise!MapNext

LEMMA AnsweredSet ==
  ASSUME MapInv, pc # "idle", call.op = "set", call' = NoCall, oom' = oom,
         DictOf(buckets', nbuckets') = With, answer' = before[call.key]
  PROVE  Promise!MapNext
<1>1. Shown = before /\ Shown' = With
  BY AnsweredStep
<1>2. Promise!AnswerSet
  BY <1>1 DEF Promise!AnswerSet, Promise!Kept, Promise!NoCall, NoCall, Shown, With
<1> QED BY <1>2 DEF Promise!MapNext

LEMMA AnsweredGet ==
  ASSUME MapInv, pc # "idle", call.op = "get", call' = NoCall, oom' = oom,
         DictOf(buckets', nbuckets') = before, answer' = before[call.key]
  PROVE  Promise!MapNext
<1>1. Shown = before /\ Shown' = before
  BY AnsweredStep
<1>2. Promise!AnswerGet
  BY <1>1 DEF Promise!AnswerGet, Promise!Kept, Promise!NoCall, NoCall, Shown
<1> QED BY <1>2 DEF Promise!MapNext

LEMMA AnsweredDelete ==
  ASSUME MapInv, pc # "idle", call.op = "delete", call' = NoCall, oom' = oom,
         DictOf(buckets', nbuckets') = Without(call.key), answer' = before[call.key]
  PROVE  Promise!MapNext
<1>1. Shown = before /\ Shown' = Without(call.key)
  BY AnsweredStep
<1>2. Promise!AnswerDelete
  BY <1>1 DEF Promise!AnswerDelete, Promise!Kept, Promise!NoCall, NoCall, Shown, Without
<1> QED BY <1>2 DEF Promise!MapNext

LEMMA CallKeepsPromise ==
  ASSUME MapInv, Call
  PROVE  Promise!MapNext \/ UNCHANGED Promise!mapVars
<1>1. ASSUME NEW k \in Keys, GetCall(k) PROVE Promise!MapNext
  BY <1>1, Requested DEF GetCall
<1>2. ASSUME NEW k \in Keys, DeleteCall(k) PROVE Promise!MapNext
  BY <1>2, Requested DEF DeleteCall
<1>3. ASSUME NEW item \in Items, SetCall(item[1], item[2]) PROVE Promise!MapNext
  <2>1. item[1] \in Keys /\ item[2] \in Values
    BY HashAssumption DEF HashAssumption
  <2> QED BY <1>3, <2>1, Requested DEF SetCall
<1>4. ASSUME NEW update_cap \in BOOLEAN, NEW memory \in BOOLEAN,
             hashmap_clear(update_cap, memory)
      PROVE  Promise!MapNext
  <2>1. pc = "idle" /\ UNCHANGED <<call, answer, oom>>
    BY <1>4 DEF hashmap_clear
  <2>2. call = NoCall
    BY <2>1 DEF MapInv, CallInv
  <2>3. Dict' = NoValues
    <3>1. DictOf(buckets', nbuckets') = NoValues
      BY <1>4, ClearStep
    <3> QED BY <3>1 DEF Dict, DictOf, Slots
  <2>4. Shown' = [k \in Keys |-> NULL]
    BY <2>1, <2>2, <2>3 DEF Shown, NoValues
  <2>5. Promise!Clear
    BY <2>1, <2>2, <2>4 DEF Promise!Clear, Promise!NoCall, NoCall, Shown
  <2> QED BY <2>5 DEF Promise!MapNext
<1>5. CASE \/ \E f \in LoadFactors : hashmap_set_load_factor(f)
           \/ \E p \in GrowPowers : hashmap_set_grow_by_power(p)
  <2>1. UNCHANGED <<buckets, nbuckets, call, answer, oom, before>>
    BY <1>5 DEF hashmap_set_load_factor, hashmap_set_grow_by_power
  <2>2. Dict' = Dict
    BY <2>1 DEF Dict
  <2> QED BY <2>1, <2>2 DEF Promise!mapVars
<1> QED BY <1>1, <1>2, <1>3, <1>4, <1>5 DEF Call

LEMMA StepKeepsPromise ==
  ASSUME MapInv, Step
  PROVE  Promise!MapNext \/ UNCHANGED Promise!mapVars
<1>1. CASE SetEmpty
  <2>1. /\ pc = "place" /\ call' = NoCall /\ oom' = oom /\ answer' = NULL
    BY <1>1 DEF SetEmpty, Return
  <2>2. call.op = "set"
    BY <2>1 DEF MapInv, CallInv
  <2>3. DictOf(buckets', nbuckets') = With /\ before[call.key] = NULL
    BY <1>1, SetEmptyStep
  <2> QED BY <2>1, <2>2, <2>3, AnsweredSet
<1>2. CASE SetReplace
  <2>1. /\ pc = "place" /\ call' = NoCall /\ oom' = oom /\ answer' = buckets[i].val
    BY <1>2 DEF SetReplace, Return
  <2>2. call.op = "set"
    BY <2>1 DEF MapInv, CallInv
  <2>3. DictOf(buckets', nbuckets') = With /\ buckets[i].val = before[call.key]
    BY <1>2, SetReplaceStep
  <2> QED BY <2>1, <2>2, <2>3, AnsweredSet
<1>3. CASE \/ SetNext \/ ResizeStart \/ RehashSkip \/ RehashTake \/ MoveEmpty \/ MoveNext
           \/ FindNext \/ ShiftBack
  <2>1. pc # "idle" /\ UNCHANGED <<call, answer, oom, before>>
    BY <1>3 DEF SetNext, ResizeStart, RehashSkip, RehashTake, MoveEmpty, MoveNext, FindNext,
      ShiftBack
  <2> QED BY <2>1, GoesOn
<1>4. CASE GrowFails
  <2>1. pc = "grow" /\ call' = NoCall /\ oom' = TRUE /\ answer' = NULL
    BY <1>4 DEF GrowFails, Return
  <2>2. call.op = "set"
    BY <2>1 DEF MapInv, CallInv
  <2>3. DictOf(buckets', nbuckets') = before
    BY <1>4, <2>2, ResizeFailsStep DEF Due
  <2>4. Shown = before /\ Shown' = before
    BY <2>1, <2>3, AnsweredStep
  <2>5. Promise!AnswerNoMemory
    BY <2>1, <2>2, <2>4 DEF Promise!AnswerNoMemory, Promise!NoCall, NoCall, Shown
  <2> QED BY <2>5 DEF Promise!MapNext
<1>5. CASE ShrinkFails
  <2>1. pc = "shrink" /\ call' = NoCall /\ oom' = oom /\ answer' = spare
    BY <1>5 DEF ShrinkFails, Return
  <2>2. call.op = "delete"
    BY <2>1 DEF MapInv, CallInv
  <2>3. DictOf(buckets', nbuckets') = Without(call.key) /\ spare = before[call.key]
    BY <1>5, <2>2, ResizeFailsStep DEF Due
  <2> QED BY <2>1, <2>2, <2>3, AnsweredDelete
<1>6. CASE RehashEnd
  <2>1. pc = "rehash" /\ oom' = oom
    BY <1>6 DEF RehashEnd
  <2>2. CASE call.op = "set"
    <3>1. UNCHANGED <<call, answer, before>>
      BY <1>6, <2>2 DEF RehashEnd
    <3> QED BY <2>1, <3>1, GoesOn
  <2>3. CASE call.op # "set"
    <3>1. call' = NoCall /\ answer' = spare
      BY <1>6, <2>3 DEF RehashEnd, Return
    <3>2. call.op = "delete"
      BY <2>1, <2>3 DEF MapInv, CallInv
    <3>3. DictOf(buckets', nbuckets') = Without(call.key) /\ spare = before[call.key]
      BY <1>6, <3>2, RehashEndStep DEF Due
    <3> QED BY <2>1, <3>1, <3>2, <3>3, AnsweredDelete
  <2> QED BY <2>2, <2>3
<1>7. CASE FindMissing
  <2>1. pc = "find" /\ call' = NoCall /\ oom' = oom /\ answer' = NULL
    BY <1>7 DEF FindMissing, Return
  <2>2. DictOf(buckets', nbuckets') = before /\ before[call.key] = NULL
    BY <1>7, FindMissingStep
  <2>3. before \in [Keys -> Values \cup {NULL}] /\ call.op \in {"get", "delete"}
    BY <2>1, Finding
  <2>4. CASE call.op = "get"
    BY <2>1, <2>2, <2>4, AnsweredGet
  <2>5. CASE call.op = "delete"
    <3>1. Without(call.key) = before
      BY <2>2, <2>3 DEF Without
    <3> QED BY <2>1, <2>2, <2>5, <3>1, AnsweredDelete
  <2> QED BY <2>3, <2>4, <2>5
<1>8. CASE FindHit
  <2>1. pc = "find"
    BY <1>8 DEF FindHit
  <2>2. CASE call.op = "get"
    <3>1. call' = NoCall /\ oom' = oom /\ answer' = buckets[i].val
      BY <1>8, <2>2 DEF FindHit, Return
    <3>2. DictOf(buckets', nbuckets') = before /\ buckets[i].val = before[call.key]
      BY <1>8, <2>2, FindHitStep
    <3> QED BY <2>1, <2>2, <3>1, <3>2, AnsweredGet
  <2>3. CASE call.op # "get"
    <3>1. UNCHANGED <<call, answer, oom, before>>
      BY <1>8, <2>3 DEF FindHit
    <3> QED BY <2>1, <3>1, GoesOn
  <2> QED BY <2>2, <2>3
<1>9. CASE ShiftEnd
  <2>1. pc = "shift" /\ oom' = oom
    BY <1>9 DEF ShiftEnd
  <2>2. CASE nbuckets > cap /\ count - 1 <= shrinkat
    <3>1. UNCHANGED <<call, answer, before>>
      BY <1>9, <2>2 DEF ShiftEnd
    <3> QED BY <2>1, <3>1, GoesOn
  <2>3. CASE ~(nbuckets > cap /\ count - 1 <= shrinkat)
    <3>1. pc' = "idle" /\ call' = NoCall /\ answer' = spare
      BY <1>9, <2>3 DEF ShiftEnd, Return
    <3>2. call.op = "delete"
      BY <2>1 DEF MapInv, CallInv
    <3>3. DictOf(buckets', nbuckets') = Without(call.key) /\ spare = before[call.key]
      BY <1>9, <3>1, ShiftEndStep
    <3> QED BY <2>1, <3>1, <3>2, <3>3, AnsweredDelete
  <2> QED BY <2>2, <2>3
<1> QED BY <1>1, <1>2, <1>3, <1>4, <1>5, <1>6, <1>7, <1>8, <1>9 DEF Step

(* The hash map keeps its promise: every call is answered as if it had       *)
(* happened at one instant (hashmap_get, hashmap_set, hashmap_delete,        *)
(* hashmap_clear), for every hash function and however often it is resized.  *)
THEOREM MapKeepsPromise == Spec => ImplementsKeyedItems
<1>1. Init => Promise!MapInit
  <2> SUFFICES ASSUME Init PROVE Promise!MapInit
    OBVIOUS
  <2>1. Dict = NoValues
    BY MapInit
  <2> QED BY <2>1 DEF Init, Promise!MapInit, Promise!NoCall, NoCall, NoValues
<1>2. MapInv /\ [Next]_vars => [Promise!MapNext]_(Promise!mapVars)
  <2> SUFFICES ASSUME MapInv, [Next]_vars
               PROVE  Promise!MapNext \/ UNCHANGED Promise!mapVars
    OBVIOUS
  <2>1. CASE Call
    BY <2>1, CallKeepsPromise
  <2>2. CASE Step
    BY <2>2, StepKeepsPromise
  <2>3. CASE IterNext \/ IterEnd \/ UNCHANGED vars
    <3>1. UNCHANGED <<table, oom, pc, call, answer, i, entry, spare, resizing, before>>
      BY <2>3 DEF IterNext, IterEnd, vars
    <3>2. Dict' = Dict /\ UNCHANGED <<call, answer, oom, before>>
      BY <3>1, NothingChanges
    <3> QED BY <3>2 DEF Promise!mapVars
  <2> QED BY <2>1, <2>2, <2>3 DEF Next
<1> QED BY <1>1, <1>2, MapInvHolds, PTL DEF Spec, ImplementsKeyedItems, Promise!MapSpec
---------------------------------------------------------------------------
(* A set of numbers has a least one; so what holds of 0, and of n + 1 when   *)
(* of n, holds of N.                                                         *)
LEMMA LeastOf ==
  ASSUME NEW T \in SUBSET Nat, T # {}
  PROVE  \E n \in T : \A m \in T : n <= m
<1>1. PICK n \in T : \A m \in T : <<m, n>> \notin OpToRel(<, Nat)
  BY NatLessThanWellFounded, WFMin, Zenon
<1>2. \A m \in T : ~(m < n)
  BY <1>1 DEF OpToRel
<1> QED BY <1>2

LEMMA Counting ==
  ASSUME NEW S, NEW N \in Nat, 0 \in S, \A n \in 0 .. N - 1 : n \in S => n + 1 \in S
  PROVE  N \in S
<1> SUFFICES ASSUME N \notin S PROVE FALSE
  OBVIOUS
<1>1. PICK n \in Nat \ S : n <= N /\ \A m \in Nat \ S : n <= m
  BY LeastOf
<1>2. n # 0 /\ n - 1 \in Nat
  BY <1>1
<1>3. n - 1 \in S
  BY <1>1, <1>2
<1>4. n - 1 \in 0 .. N - 1
  BY <1>1, <1>2
<1> QED BY <1>1, <1>3, <1>4

(* The keys of the buckets before each bucket of the table b of n. *)
IsScan(f, b, n) ==
  /\ f \in [0 .. n -> Seq(Keys)]
  /\ f[0] = << >>
  /\ \A m \in Slots(n) : f[m + 1] = IF b[m].dib # 0 THEN Append(f[m], b[m].key) ELSE f[m]

LEMMA ScanExists ==
  ASSUME NEW n \in Nat, NEW b, \A j \in Slots(n) : b[j].dib # 0 => b[j].key \in Keys
  PROVE  \E f : IsScan(f, b, n)
<1> DEFINE S == {m \in Nat : m <= n => \E f : IsScan(f, b, m)}
<1>1. 0 \in S
  <2> DEFINE g == [m \in 0 .. 0 |-> << >>]
  <2>1. << >> \in Seq(Keys)
    OBVIOUS
  <2>2. IsScan(g, b, 0)
    BY <2>1 DEF IsScan, Slots
  <2> QED BY <2>2
<1>2. ASSUME NEW m \in 0 .. n - 1, m \in S PROVE m + 1 \in S
  <2>1. PICK f : IsScan(f, b, m)
    BY <1>2
  <2> DEFINE g == [l \in 0 .. m + 1 |->
                     IF l <= m THEN f[l]
                     ELSE IF b[m].dib # 0 THEN Append(f[m], b[m].key) ELSE f[m]]
  <2>2. f \in [0 .. m -> Seq(Keys)] /\ f[m] \in Seq(Keys)
    BY <2>1 DEF IsScan
  <2>3. b[m].dib # 0 => Append(f[m], b[m].key) \in Seq(Keys)
    BY <2>2 DEF Slots
  <2>4. g \in [0 .. m + 1 -> Seq(Keys)]
    BY <2>2, <2>3
  <2>5. g[0] = << >>
    BY <2>1 DEF IsScan
  <2>6. ASSUME NEW l \in Slots(m + 1)
        PROVE  g[l + 1] = IF b[l].dib # 0 THEN Append(g[l], b[l].key) ELSE g[l]
    <3>1. CASE l = m
      BY <3>1
    <3>2. CASE l < m
      <4>1. l \in Slots(m) /\ l + 1 \in 0 .. m + 1 /\ l + 1 <= m /\ l \in 0 .. m + 1 /\ l <= m
        BY <2>6, <3>2 DEF Slots
      <4>2. g[l + 1] = f[l + 1] /\ g[l] = f[l]
        BY <4>1
      <4> QED BY <2>1, <4>1, <4>2 DEF IsScan
    <3> QED BY <2>6, <3>1, <3>2 DEF Slots
  <2> HIDE DEF g
  <2>7. IsScan(g, b, m + 1)
    BY <2>4, <2>5, <2>6 DEF IsScan
  <2> QED BY <2>7
<1> HIDE DEF S
<1>3. n \in S
  BY <1>1, <1>2, Counting
<1> QED BY <1>3 DEF S

(* Every table has a scan, and only one: hashmap_scan. *)
LEMMA TableScan ==
  ASSUME NEW n \in Nat, NEW m \in Nat, n <= m, NEW b \in [0 .. m - 1 -> Bucket]
  PROVE  \E f : IsScan(f, b, n)
<1>1. \A j \in Slots(n) : b[j] \in Bucket
  BY DEF Slots
<1>2. \A j \in Slots(n) : b[j].dib # 0 => b[j].key \in Keys
  BY <1>1, BucketFacts
<1> QED BY <1>2, ScanExists

LEMMA ScanUnique ==
  ASSUME NEW n \in Nat, NEW b, NEW f, NEW g, IsScan(f, b, n), g[0] = << >>,
         \A m \in Slots(n) : g[m + 1] = IF b[m].dib # 0 THEN Append(g[m], b[m].key) ELSE g[m]
  PROVE  g[n] = f[n]
<1> DEFINE S == {m \in Nat : m <= n => f[m] = g[m]}
<1>1. 0 \in S
  BY DEF IsScan
<1>2. ASSUME NEW m \in 0 .. n - 1, m \in S PROVE m + 1 \in S
  <2>1. m \in Slots(n) /\ m <= n /\ f[m] = g[m]
    BY <1>2 DEF Slots
  <2>2. f[m + 1] = g[m + 1]
    BY <2>1 DEF IsScan
  <2> QED BY <2>2
<1> HIDE DEF S
<1>3. n \in S
  BY <1>1, <1>2, Counting
<1> QED BY <1>3 DEF S

LEMMA ScanIs ==
  ASSUME nbuckets \in Nat, NEW f, IsScan(f, buckets, nbuckets)
  PROVE  hashmap_scan = f[nbuckets]
<1> DEFINE scan[n \in 0 .. nbuckets] ==
        IF n = 0 THEN << >>
        ELSE IF buckets[n - 1].dib # 0 THEN Append(scan[n - 1], hashmap_probe(n - 1))
        ELSE scan[n - 1]
<1>1. hashmap_scan = scan[nbuckets]
  BY DEF hashmap_scan
<1>2. f = [n \in 0 .. nbuckets |-> 
        IF n = 0 THEN << >>
        ELSE IF buckets[n - 1].dib # 0 THEN Append(f[n - 1], hashmap_probe(n - 1))
        ELSE f[n - 1]]
  <2> DEFINE h == [n \in 0 .. nbuckets |-> 
        IF n = 0 THEN << >>
        ELSE IF buckets[n - 1].dib # 0 THEN Append(f[n - 1], hashmap_probe(n - 1))
        ELSE f[n - 1]]
  <2>1. ASSUME NEW n \in 0 .. nbuckets PROVE f[n] = h[n]
    <3>1. CASE n = 0
      BY <3>1 DEF IsScan
    <3>2. CASE n # 0
      <4>1. n - 1 \in Slots(nbuckets) /\ (n - 1) + 1 = n
        BY <3>2 DEF Slots
      <4>2. (n - 1) % nbuckets = n - 1
        BY <4>1 DEF Slots
      <4> QED BY <3>2, <4>1, <4>2 DEF IsScan, hashmap_probe
    <3> QED BY <3>1, <3>2
  <2>2. f = [n \in 0 .. nbuckets |-> f[n]]
    BY DEF IsScan
  <2> HIDE DEF h
  <2>3. [n \in 0 .. nbuckets |-> f[n]] = [n \in 0 .. nbuckets |-> h[n]]
    BY <2>1, Zenon
  <2>4. h = [n \in 0 .. nbuckets |-> h[n]]
    BY DEF h
  <2> QED BY <2>2, <2>3, <2>4 DEF h
<1>3. scan = [n \in 0 .. nbuckets |-> 
        IF n = 0 THEN << >>
        ELSE IF buckets[n - 1].dib # 0 THEN Append(scan[n - 1], hashmap_probe(n - 1))
        ELSE scan[n - 1]]
  BY <1>2
<1> HIDE DEF scan
<1>4. scan[0] = << >>
  BY <1>3
<1>5. ASSUME NEW m \in Slots(nbuckets)
      PROVE  scan[m + 1] = IF buckets[m].dib # 0 THEN Append(scan[m], buckets[m].key) ELSE scan[m]
  <2>1. m + 1 \in 0 .. nbuckets /\ m + 1 # 0 /\ (m + 1) - 1 = m /\ m % nbuckets = m
    BY <1>5 DEF Slots
  <2>2. scan[m + 1] = IF buckets[m].dib # 0 THEN Append(scan[m], hashmap_probe(m)) ELSE scan[m]
    BY <1>3, <2>1
  <2>3. hashmap_probe(m) = buckets[m].key
    <3>1. m % nbuckets = m
      BY <2>1
    <3> QED BY <1>5, <3>1 DEF hashmap_probe
  <2> QED BY <2>2, <2>3
<1> QED BY <1>1, <1>4, <1>5, ScanUnique

(* There are as many keys as items, and the key of every item is there. *)
LEMMA ScanCounts ==
  ASSUME NEW n \in Nat, NEW b, NEW f, IsScan(f, b, n)
  PROVE  Len(f[n]) = Cardinality(Occupied(b, Slots(n)))
<1> DEFINE S == {m \in Nat : m <= n => Len(f[m]) = Cardinality(Occupied(b, Slots(m)))}
<1>1. 0 \in S
  <2>1. Slots(0) = {}
    BY SMT DEF Slots
  <2>2. Occupied(b, Slots(0)) = {}
    BY <2>1 DEF Occupied
  <2>3. f[0] = << >> /\ Len(<< >>) = 0
    BY DEF IsScan
  <2> QED BY <2>2, <2>3, FS_EmptySet
<1>2. ASSUME NEW m \in 0 .. n - 1, m \in S PROVE m + 1 \in S
  <2>1. /\ m \in Nat /\ m \in Slots(n) /\ m + 1 <= n /\ f[m] \in Seq(Keys)
        /\ Len(f[m]) = Cardinality(Occupied(b, Slots(m)))
    BY <1>2 DEF IsScan, Slots
  <2>2. Slots(m + 1) = Slots(m) \cup {m} /\ m \notin Slots(m)
    BY <2>1, SMT DEF Slots
  <2>3. CASE b[m].dib = 0
    <3>1. Occupied(b, Slots(m + 1)) = Occupied(b, Slots(m))
      BY <2>2, <2>3 DEF Occupied
    <3>2. f[m + 1] = f[m]
      BY <2>1, <2>3 DEF IsScan
    <3> QED BY <2>1, <3>1, <3>2
  <2>4. CASE b[m].dib # 0
    <3>1. /\ Occupied(b, Slots(m + 1)) = Occupied(b, Slots(m)) \cup {m}
          /\ m \notin Occupied(b, Slots(m))
      BY <2>2, <2>4 DEF Occupied
    <3>2. f[m + 1] = Append(f[m], b[m].key)
      BY <2>1, <2>4 DEF IsScan
    <3>3. Len(f[m + 1]) = Len(f[m]) + 1
      BY <2>1, <3>2
    <3>4. Cardinality(Occupied(b, Slots(m + 1))) = Cardinality(Occupied(b, Slots(m))) + 1
      BY <2>1, <3>1, OneMore
    <3> QED BY <2>1, <3>3, <3>4
  <2> QED BY <2>3, <2>4
<1> HIDE DEF S
<1>3. n \in S
  BY <1>1, <1>2, Counting
<1> QED BY <1>3 DEF S

LEMMA ScanGives ==
  ASSUME NEW n \in Nat, NEW b, NEW f, IsScan(f, b, n), NEW j \in Slots(n), b[j].dib # 0,
         b[j].key \in Keys
  PROVE  \E l \in 1 .. Len(f[n]) : f[n][l] = b[j].key
<1> DEFINE S == {m \in Nat : j < m /\ m <= n => \E l \in 1 .. Len(f[m]) : f[m][l] = b[j].key}
<1>1. 0 \in S
  BY DEF Slots
<1>2. ASSUME NEW m \in 0 .. n - 1, m \in S PROVE m + 1 \in S
  <2> SUFFICES ASSUME j < m + 1
               PROVE  \E l \in 1 .. Len(f[m + 1]) : f[m + 1][l] = b[j].key
    BY <1>2
  <2>1. m \in Slots(n) /\ f[m] \in Seq(Keys) /\ f[m + 1] \in Seq(Keys)
    BY <1>2 DEF IsScan, Slots
  <2>2. f[m + 1] = IF b[m].dib # 0 THEN Append(f[m], b[m].key) ELSE f[m]
    BY <2>1 DEF IsScan
  <2>3. CASE j = m
    <3>1. f[m + 1] = Append(f[m], b[j].key)
      BY <2>2, <2>3
    <3>2. /\ Len(f[m]) + 1 \in 1 .. Len(f[m + 1])
          /\ f[m + 1][Len(f[m]) + 1] = b[j].key
      BY <2>1, <3>1
    <3> QED BY <3>2
  <2>4. CASE j < m
    <3>1. PICK l \in 1 .. Len(f[m]) : f[m][l] = b[j].key
      BY <1>2, <2>4
    <3>2. CASE b[m].dib = 0
      BY <2>2, <3>1, <3>2
    <3>3. CASE b[m].dib # 0
      <4>1. f[m + 1] = Append(f[m], b[m].key)
        BY <2>2, <3>3
      <4>2. l \in 1 .. Len(f[m + 1]) /\ f[m + 1][l] = f[m][l]
        BY <2>1, <3>1, <4>1
      <4> QED BY <3>1, <4>2
    <3> QED BY <3>2, <3>3
  <2> QED BY <1>2, <2>3, <2>4 DEF Slots
<1> HIDE DEF S
<1>3. n \in S
  BY <1>1, <1>2, Counting
<1> QED BY <1>3 DEF S, Slots

(* Empty buckets give nothing. *)
LEMMA ScanSkips ==
  ASSUME NEW n \in Nat, NEW b, NEW f, IsScan(f, b, n), NEW at \in 0 .. n, NEW to \in at .. n,
         \A j \in at .. to - 1 : b[j].dib = 0
  PROVE  f[to] = f[at]
<1> DEFINE S == {m \in Nat : at <= m /\ m <= to => f[m] = f[at]}
<1>1. 0 \in S
  OBVIOUS
<1>2. ASSUME NEW m \in 0 .. to - 1, m \in S PROVE m + 1 \in S
  <2>1. CASE at <= m
    <3>1. m \in at .. to - 1 /\ m \in Slots(n) /\ f[m] = f[at]
      BY <1>2, <2>1 DEF Slots
    <3>2. f[m + 1] = f[m]
      BY <3>1 DEF IsScan
    <3> QED BY <3>1, <3>2
  <2>2. CASE m < at
    <3>1. at <= m + 1 => at = m + 1
      BY <2>2
    <3> QED BY <3>1
  <2> QED BY <2>1, <2>2
<1> HIDE DEF S
<1>3. to \in S
  BY <1>1, <1>2, Counting
<1> QED BY <1>3 DEF S
---------------------------------------------------------------------------
(* Where an iteration is, it has been given what a scan finds before. *)
IterInv ==
  /\ iter.at \in 0 .. nbuckets
  /\ \E f : IsScan(f, buckets, nbuckets) /\ iter.seen = f[iter.at]
  /\ call.op = "delete" \/ (call.op = "set" /\ before[call.key] = NULL) => iter = NoIter
  /\ pc \in {"rehash", "move"} /\ call.op = "set" => nbuckets < Size2

(* What a scan of the table finds is not changed. *)
ScanKept ==
  /\ nbuckets' = nbuckets
  /\ \A j \in Slots(nbuckets) :
       buckets'[j].dib = buckets[j].dib /\ (buckets[j].dib # 0 => buckets'[j].key = buckets[j].key)

LEMMA TableKept ==
  ASSUME UNCHANGED table PROVE ScanKept
BY DEF table, ScanKept

LEMMA IterPlace ==
  ASSUME MapInv, MapInv', IterInv, iter' = NoIter \/ (iter' = iter /\ ScanKept)
  PROVE  /\ iter'.at \in 0 .. nbuckets'
         /\ \E f : IsScan(f, buckets', nbuckets') /\ iter'.seen = f[iter'.at]
<1>1. CASE iter' = NoIter
  <2>1. cap' \in Nat /\ nbuckets' \in SizesOver(cap')
    BY DEF MapInv, SizesInv
  <2>2. nbuckets' \in Nat
    BY <2>1, SizeFacts
  <2>3. PICK m \in Nat : nbuckets' <= m /\ buckets' \in [0 .. m - 1 -> Bucket]
    BY DEF MapInv, SizesInv
  <2>4. PICK f : IsScan(f, buckets', nbuckets')
    BY <2>2, <2>3, TableScan
  <2>5. iter'.at = 0 /\ iter'.seen = << >> /\ f[0] = << >> /\ 0 \in 0 .. nbuckets'
    BY <1>1, <2>2, <2>4 DEF NoIter, IsScan
  <2> QED BY <2>4, <2>5
<1>2. CASE iter' = iter /\ ScanKept
  <2>1. PICK f : IsScan(f, buckets, nbuckets) /\ iter.seen = f[iter.at]
    BY DEF IterInv
  <2>2. IsScan(f, buckets', nbuckets')
    BY <1>2, <2>1 DEF IsScan, ScanKept
  <2> QED BY <1>2, <2>1, <2>2 DEF IterInv, ScanKept
<1> QED BY <1>1, <1>2

(* A call or a step that does not keep what a scan finds disturbs.           *)
LEMMA CallDisturbs ==
  ASSUME MapInv, Call, IterKept
  PROVE  iter' = NoIter \/ (iter' = iter /\ ScanKept)
<1>1. ASSUME NEW k \in Keys, GetCall(k) \/ DeleteCall(k) PROVE ScanKept
  BY <1>1, TableKept DEF GetCall, DeleteCall, Begin
<1>2. ASSUME NEW item \in Items, SetCall(item[1], item[2]) PROVE ScanKept
  BY <1>2, TableKept DEF SetCall, Begin
<1>3. ASSUME NEW update_cap \in BOOLEAN, NEW memory \in BOOLEAN,
             hashmap_clear(update_cap, memory)
      PROVE  Disturbs \/ ScanKept
  <2> SUFFICES ASSUME nbuckets' = nbuckets, count' = count PROVE ScanKept
    BY DEF Disturbs
  <2> DEFINE n == IF update_cap THEN nbuckets ELSE cap
  <2>1. pc = "idle" /\ count' = 0 /\ nbuckets' = n
    BY <1>3 DEF hashmap_clear
  <2>2. buckets' = [j \in DOMAIN buckets |-> IF j < nbuckets THEN Empty ELSE buckets[j]]
    BY <1>3, <2>1 DEF hashmap_clear
  <2>3. Counted /\ nbuckets \in Nat /\ \A j \in Slots(nbuckets) : j \in DOMAIN buckets
    BY <2>1, Sizes DEF MapInv, TableInv
  <2>4. Occupied(buckets, Slots(nbuckets)) = {}
    <3>1. IsFiniteSet(Occupied(buckets, Slots(nbuckets)))
      BY <2>3, OccupiedFinite
    <3>2. Cardinality(Occupied(buckets, Slots(nbuckets))) = 0
      BY <2>1, <2>3 DEF Counted
    <3> QED BY <3>1, <3>2, FS_EmptySet
  <2>5. ASSUME NEW j \in Slots(nbuckets) PROVE buckets[j].dib = 0 /\ buckets'[j].dib = 0
    BY <2>2, <2>3, <2>4, <2>5 DEF Occupied, Slots, Empty
  <2> QED BY <2>5 DEF ScanKept
<1>4. ASSUME \/ \E f \in LoadFactors : hashmap_set_load_factor(f)
             \/ \E p \in GrowPowers : hashmap_set_grow_by_power(p)
      PROVE  ScanKept
  BY <1>4 DEF hashmap_set_load_factor, hashmap_set_grow_by_power, ScanKept
<1> QED BY <1>1, <1>2, <1>3, <1>4 DEF Call, IterKept

LEMMA StepDisturbs ==
  ASSUME MapInv, IterInv, Step, IterKept
  PROVE  iter' = NoIter \/ (iter' = iter /\ ScanKept)
<1>0. (iter = NoIter \/ Disturbs => iter' = NoIter) /\ (iter' = NoIter \/ iter' = iter)
  BY DEF IterKept
<1>1. CASE SetEmpty
  <2>1. count' = count + 1 /\ count \in Nat
    BY <1>1 DEF SetEmpty, MapInv, SizesInv
  <2> QED BY <1>0, <2>1 DEF Disturbs
<1>2. CASE SetReplace \/ SetNext
  <2>1. pc = "place" /\ nbuckets' = nbuckets /\ buckets[i].dib # 0
    BY <1>2 DEF SetReplace, SetNext
  <2>2. /\ SizesInv /\ i \in Slots(nbuckets) /\ buckets[i] \in Bucket /\ entry.dib \in Nat
        /\ call.op = "set"
    BY <2>1, Placing, Dibs DEF MapInv, CallInv
  <2>3. PICK m \in Nat : nbuckets <= m /\ buckets \in [0 .. m - 1 -> Bucket]
    BY <2>2 DEF SizesInv
  <2>4. i \in DOMAIN buckets
    BY <2>2, Sizes
  <2>5. buckets[i] \in Item
    BY <2>1, <2>2, BucketFacts
  <2>6. CASE SetReplace
    <3>1. buckets' = [buckets EXCEPT ![i] = [@ EXCEPT !.val = entry.val]]
      BY <2>6 DEF SetReplace
    <3>2. /\ buckets'[i] = [buckets[i] EXCEPT !.val = entry.val]
          /\ \A j \in Slots(nbuckets) : j # i => buckets'[j] = buckets[j]
      BY <2>2, <2>3, <2>4, <3>1
    <3>3. buckets'[i].dib = buckets[i].dib /\ buckets'[i].key = buckets[i].key
      BY <2>5, <3>2 DEF Item
    <3> QED BY <1>0, <2>1, <3>2, <3>3 DEF ScanKept
  <2>7. CASE SetNext
    <3>1. CASE before[call.key] = NULL
      BY <1>0, <2>2, <3>1 DEF IterInv
    <3>2. CASE before[call.key] # NULL
      <4>1. ~(buckets[i].dib < entry.dib)
        BY <2>1, <3>2, PlaceCarries
      <4>2. buckets' = [buckets EXCEPT ![i] = buckets[i]]
        BY <2>7, <4>1 DEF SetNext, Left, Richer
      <4>3. buckets' = buckets
        BY <2>3, <4>2
      <4> QED BY <1>0, <2>1, <4>3 DEF ScanKept
    <3> QED BY <3>1, <3>2
  <2> QED BY <1>2, <2>6, <2>7
<1>3. CASE ResizeStart \/ GrowFails \/ ShrinkFails \/ RehashSkip \/ RehashTake \/ MoveEmpty
           \/ MoveNext \/ FindMissing \/ FindNext
  <2>1. UNCHANGED table
    BY <1>3 DEF ResizeStart, GrowFails, ShrinkFails, RehashSkip, RehashTake, MoveEmpty, MoveNext,
      FindMissing, FindNext
  <2> QED BY <1>0, <2>1, TableKept
<1>4. CASE RehashEnd
  <2>1. pc = "rehash" /\ nbuckets' = Size2
    BY <1>4 DEF RehashEnd
  <2>2. nbuckets \in Nat /\ Size2 \in Nat /\ call.op \in {"set", "delete"}
    BY <2>1, Resizing
  <2>3. CASE call.op = "delete"
    BY <1>0, <2>3 DEF IterInv
  <2>4. CASE call.op = "set"
    <3>1. nbuckets < Size2
      BY <2>1, <2>4 DEF IterInv
    <3> QED BY <1>0, <2>1, <2>2, <3>1 DEF Disturbs
  <2> QED BY <2>2, <2>3, <2>4
<1>5. CASE FindHit
  <2>1. CASE call.op = "get"
    <3>1. UNCHANGED table
      BY <1>5, <2>1 DEF FindHit
    <3> QED BY <1>0, <3>1, TableKept
  <2>2. CASE call.op # "get"
    <3>1. call.op = "delete"
      BY <1>5, <2>2 DEF FindHit, MapInv, CallInv
    <3> QED BY <1>0, <3>1 DEF IterInv
  <2> QED BY <2>1, <2>2
<1>6. CASE ShiftBack \/ ShiftEnd
  <2>1. call.op = "delete"
    BY <1>6 DEF ShiftBack, ShiftEnd, MapInv, CallInv
  <2> QED BY <1>0, <2>1 DEF IterInv
<1> QED BY <1>1, <1>2, <1>3, <1>4, <1>5, <1>6 DEF Step

(* A set that resizes the table makes it longer. *)
LEMMA ResizeGrows ==
  ASSUME MapInv, IterInv, Step, pc' \in {"rehash", "move"}, call'.op = "set"
  PROVE  nbuckets' < Size2'
<1>1. CASE ResizeStart
  <2>1. pc \in {"grow", "shrink"} /\ UNCHANGED <<call, nbuckets>>
    BY <1>1 DEF ResizeStart, table
  <2>2. pc = "grow"
    BY <2>1 DEF MapInv, CallInv
  <2> DEFINE w == nbuckets * 2 ^ growpower
             m == IF w < MinBuckets THEN MinBuckets ELSE w
  <2>3. /\ nbuckets \in Nat /\ 2 <= nbuckets /\ cap \in Nat /\ nbuckets \in SizesOver(cap)
        /\ growpower \in 1 .. 16 /\ MinBuckets \in Nat
    BY Sizes, AtLeastTwo DEF MapInv, SizesInv
  <2>4. w \in SizesOver(cap) /\ 2 * nbuckets <= w
    BY <2>3, Grown
  <2>5. w \in Nat
    BY <2>3, <2>4, SizeFacts
  <2>6. map2' = EmptyTable(m)
    BY <1>1, <2>2 DEF ResizeStart, NewSize
  <2> HIDE DEF w
  <2>7. m \in Nat /\ nbuckets < m
    BY <2>3, <2>4, <2>5
  <2> HIDE DEF m
  <2>8. Size2' = Cardinality(Slots(m))
    BY <2>6 DEF Size2, EmptyTable, Slots
  <2> QED BY <2>1, <2>7, <2>8, OccupiedFinite
<1>2. CASE RehashSkip \/ RehashTake \/ MoveEmpty \/ MoveNext
  <2>1. /\ pc \in {"rehash", "move"} /\ UNCHANGED <<call, nbuckets>>
        /\ DOMAIN map2' = DOMAIN map2
    BY <1>2 DEF RehashSkip, RehashTake, MoveEmpty, MoveNext, table, resizing
  <2>2. Size2' = Size2
    BY <2>1 DEF Size2
  <2> QED BY <2>1, <2>2 DEF IterInv
<1>3. CASE \/ SetEmpty \/ SetReplace \/ SetNext \/ GrowFails \/ ShrinkFails \/ RehashEnd
           \/ FindMissing \/ FindNext \/ FindHit \/ ShiftBack \/ ShiftEnd
  <2>1. pc' \notin {"rehash", "move"}
    BY <1>3 DEF SetEmpty, SetReplace, SetNext, GrowFails, ShrinkFails, RehashEnd, FindMissing,
      FindNext, FindHit, ShiftBack, ShiftEnd, Return
  <2> QED BY <2>1
<1> QED BY <1>1, <1>2, <1>3 DEF Step

LEMMA CallNotResizing ==
  ASSUME MapInv, Call
  PROVE  pc' \notin {"rehash", "move"}
<1>1. ASSUME NEW k \in Keys, GetCall(k) \/ DeleteCall(k) PROVE pc' = "find"
  BY <1>1 DEF GetCall, DeleteCall
<1>2. ASSUME NEW item \in Items, SetCall(item[1], item[2]) PROVE pc' \in {"grow", "place"}
  BY <1>2 DEF SetCall
<1>3. CASE \/ \E update_cap, memory \in BOOLEAN : hashmap_clear(update_cap, memory)
           \/ \E f \in LoadFactors : hashmap_set_load_factor(f)
           \/ \E p \in GrowPowers : hashmap_set_grow_by_power(p)
  BY <1>3 DEF hashmap_clear, hashmap_set_load_factor, hashmap_set_grow_by_power
<1> QED BY <1>1, <1>2, <1>3 DEF Call

LEMMA IterNextStep ==
  ASSUME MapInv, IterInv, IterNext
  PROVE  IterInv'
<1>1. PICK j \in Ahead :
        /\ \A k \in Ahead : j <= k
        /\ iter' = [at |-> j + 1, seen |-> Append(iter.seen, hashmap_probe(j))]
  BY DEF IterNext
<1>2. pc = "idle" /\ call = NoCall /\ nbuckets \in Nat
  BY Sizes DEF IterNext, MapInv, CallInv
<1>3. /\ iter.at \in 0 .. nbuckets /\ j \in iter.at .. nbuckets - 1 /\ buckets[j].dib # 0
      /\ \A k \in iter.at .. j - 1 : buckets[k].dib = 0
  BY <1>1, <1>2 DEF IterInv, Ahead
<1>4. PICK f : IsScan(f, buckets, nbuckets) /\ iter.seen = f[iter.at]
  BY DEF IterInv
<1>5. f[j] = f[iter.at]
  BY <1>2, <1>3, <1>4, ScanSkips
<1>6. j \in Slots(nbuckets) /\ j % nbuckets = j /\ j + 1 \in 0 .. nbuckets
  BY <1>2, <1>3 DEF Slots
<1>7. f[j + 1] = Append(iter.seen, hashmap_probe(j))
  BY <1>3, <1>4, <1>5, <1>6 DEF IsScan, hashmap_probe
<1>8. UNCHANGED <<buckets, nbuckets, pc, call>>
  BY DEF IterNext, table
<1>9. iter'.at = j + 1 /\ iter'.seen = f[j + 1]
  BY <1>1, <1>7
<1> QED BY <1>2, <1>4, <1>6, <1>8, <1>9 DEF IterInv, NoCall

LEMMA IterStep ==
  ASSUME MapInv, MapInv', IterInv, [Next]_vars
  PROVE  IterInv'
<1>1. CASE (Call \/ Step) /\ IterKept
  <2>1. iter' = NoIter \/ (iter' = iter /\ ScanKept)
    BY <1>1, CallDisturbs, StepDisturbs
  <2>2. call'.op = "delete" \/ (call'.op = "set" /\ before'[call'.key] = NULL) => iter' = NoIter
    BY <1>1 DEF IterKept, Disturbs
  <2>3. pc' \in {"rehash", "move"} /\ call'.op = "set" => nbuckets' < Size2'
    BY <1>1, ResizeGrows, CallNotResizing
  <2> QED BY <2>1, <2>2, <2>3, IterPlace DEF IterInv
<1>2. CASE IterNext
  BY <1>2, IterNextStep
<1>3. CASE IterEnd
  <2>1. iter' = NoIter /\ UNCHANGED <<pc, call>> /\ pc = "idle" /\ call = NoCall
    BY <1>3 DEF IterEnd, MapInv, CallInv
  <2> QED BY <2>1, IterPlace DEF IterInv, NoCall
<1>4. CASE UNCHANGED vars
  <2>1. UNCHANGED <<buckets, nbuckets, pc, call, before, map2, iter>>
    BY <1>4 DEF vars, table, resizing
  <2> QED BY <2>1 DEF IterInv, Size2
<1> QED BY <1>1, <1>2, <1>3, <1>4 DEF Next

LEMMA IterInit ==
  ASSUME Init, MapInv
  PROVE  IterInv
<1>1. iter = NoIter /\ pc = "idle" /\ call = NoCall
  BY DEF Init
<1>2. nbuckets \in Nat
  BY Sizes DEF MapInv
<1>3. PICK m \in Nat : nbuckets <= m /\ buckets \in [0 .. m - 1 -> Bucket]
  BY DEF MapInv, SizesInv
<1>4. PICK f : IsScan(f, buckets, nbuckets)
  BY <1>2, <1>3, TableScan
<1>5. iter.at = 0 /\ iter.seen = << >> /\ f[0] = << >> /\ 0 \in 0 .. nbuckets
  BY <1>1, <1>2, <1>4 DEF NoIter, IsScan
<1> QED BY <1>1, <1>4, <1>5 DEF IterInv, NoCall

(* An iteration that ends has given every key there is, once, in the order   *)
(* of hashmap_scan (hashmap_iter), for any table and any calls between its   *)
(* turns that add and delete nothing and do not resize.                      *)
THEOREM IterationGivesAll == Spec => IterationComplete
<1>1. MapInv /\ IterInv /\ IterEnd =>
        /\ iter.seen = hashmap_scan /\ Len(iter.seen) = count
        /\ \A k \in Keys : Dict[k] # NULL => \E j \in 1 .. Len(iter.seen) : iter.seen[j] = k
  <2> SUFFICES ASSUME MapInv, IterInv, IterEnd
               PROVE  /\ iter.seen = hashmap_scan /\ Len(iter.seen) = count
                      /\ \A k \in Keys : Dict[k] # NULL =>
                           \E j \in 1 .. Len(iter.seen) : iter.seen[j] = k
    OBVIOUS
  <2>1. pc = "idle" /\ nbuckets \in Nat /\ Ahead = {}
    BY Sizes DEF IterEnd, MapInv
  <2>2. WellPlaced(buckets, nbuckets, Slots(nbuckets)) /\ Counted
    BY <2>1 DEF MapInv, TableInv, InOrder
  <2>3. PICK f : IsScan(f, buckets, nbuckets) /\ iter.seen = f[iter.at]
    BY DEF IterInv
  <2>4. /\ iter.at \in 0 .. nbuckets /\ nbuckets \in iter.at .. nbuckets
        /\ \A j \in iter.at .. nbuckets - 1 : buckets[j].dib = 0
    BY <2>1 DEF IterInv, Ahead
  <2>5. iter.seen = f[nbuckets]
    BY <2>1, <2>3, <2>4, ScanSkips
  <2>6. Len(iter.seen) = count
    BY <2>1, <2>2, <2>3, <2>5, ScanCounts DEF Counted
  <2>7. ASSUME NEW k \in Keys, Dict[k] # NULL
        PROVE  \E j \in 1 .. Len(iter.seen) : iter.seen[j] = k
    <3>1. PICK j \in Slots(nbuckets) : buckets[j].key = k
      BY <2>7 DEF Dict, Slots
    <3>2. NULL \notin Keys
      BY HashAssumption DEF HashAssumption
    <3>3. buckets[j].dib # 0
      BY <2>2, <3>1, <3>2, Dibs
    <3> QED BY <2>1, <2>3, <2>5, <3>1, <3>3, ScanGives
  <2> QED BY <2>1, <2>3, <2>5, <2>6, <2>7, ScanIs
<1>2. Init => MapInv /\ IterInv
  BY MapInit, IterInit
<1>3. MapInv /\ MapInv' /\ IterInv /\ [Next]_vars => IterInv'
  BY IterStep
<1>4. Spec => [](MapInv /\ IterInv)
  BY <1>2, <1>3, MapInvHolds, PTL DEF Spec
<1>5. MapInv /\ IterInv =>
        (IterEnd =>
          /\ iter.seen = hashmap_scan /\ Len(iter.seen) = count
          /\ \A k \in Keys : Dict[k] # NULL => \E j \in 1 .. Len(iter.seen) : iter.seen[j] = k)
  BY <1>1
<1> QED BY <1>4, <1>5, PTL DEF IterationComplete
=============================================================================
