---------------------------- MODULE LibraryProofs ----------------------------
(***************************************************************************)
(* Theorems about three of the libraries, NgArray for any items,           *)
(* capacities and lengths, CLayout for any base, buffer, types and data,   *)
(* and Printf for any formats.                                             *)
(*                                                                         *)
(* Of NgArray the core is the pair of Grown and Shrunk: a removal that     *)
(* halves the capacity leaves room for one item more than there are, so    *)
(* that the capacity never becomes 0 and doubling it always makes room.    *)
(*                                                                         *)
(* Of CLayout it is that both walks of a value go the same way: what is    *)
(* left of a set's walk is always in order, the one part behind the other  *)
(* and within the value, so that a number never overwrites one before it;  *)
(* and a get of the same type stops where the set has stopped, having      *)
(* found what the set had written there.                                   *)
(*                                                                         *)
(* Of Printf it is where the characters of a directive stand: each part is *)
(* followed by a character that cannot be one of it, so that printf leaves *)
(* the part just there, having read what the part means.                   *)
(***************************************************************************)
EXTENDS NgArray, CLayout, Printf, SequenceTheorems, WellFoundedInduction, TLAPS

ArrayTypes ==
  /\ live \in BOOLEAN /\ data \in Seq(Cell) /\ kept \in Seq(Cell)
  /\ capacity \in Nat /\ asked0 \in BOOLEAN

ArrayInv == ArrayTypes /\ ArrayKept

LEMMA FirstOfTypes ==
  ASSUME NEW s \in Seq(Cell), NEW n \in Nat
  PROVE  FirstOf(s, n) \in Seq(Cell) /\ Len(FirstOf(s, n)) <= n /\ Len(FirstOf(s, n)) <= Len(s)
<1>1. CASE Len(s) <= n
  BY <1>1, LenProperties DEF FirstOf
<1>2. CASE Len(s) > n
  <2>1. Len(s) \in Nat /\ \A j \in 1 .. n : s[j] \in Cell
    BY <1>2, LenProperties, ElementOfSeq
  <2>2. SubSeq(s, 1, n) \in Seq(Cell) /\ Len(SubSeq(s, 1, n)) = IF 1 <= n THEN n - 1 + 1 ELSE 0
    BY <2>1, SubSeqProperties
  <2> QED BY <1>2, <2>1, <2>2 DEF FirstOf
<1> QED BY <1>1, <1>2, LenProperties

LEMMA FrontOfTypes ==
  ASSUME NEW s \in Seq(Cell), s # <<>>
  PROVE  FrontOf(s) \in Seq(Cell) /\ Len(FrontOf(s)) = Len(s) - 1
<1>1. Len(s) \in Nat \ {0} /\ \A j \in 1 .. Len(s) - 1 : s[j] \in Cell
  BY EmptySeq, ElementOfSeq, LenProperties
<1>2. SubSeq(s, 1, Len(s) - 1) \in Seq(Cell)
      /\ Len(SubSeq(s, 1, Len(s) - 1)) = IF 1 <= Len(s) - 1 THEN (Len(s) - 1) - 1 + 1 ELSE 0
  BY <1>1, SubSeqProperties
<1>3. \A n \in Nat \ {0} : (IF 1 <= n - 1 THEN (n - 1) - 1 + 1 ELSE 0) = n - 1
  OBVIOUS
<1> QED BY <1>1, <1>2, <1>3 DEF FrontOf

LEMMA WithoutTypes ==
  ASSUME NEW s \in Seq(Cell), NEW k \in 1 .. Len(s)
  PROVE  /\ Without(s, k) \in Seq(Cell) /\ Len(Without(s, k)) = Len(s) - 1
         /\ Without(s, Len(s)) = FrontOf(s)
<1>1. Len(s) \in Nat /\ \A j \in 1 .. Len(s) : s[j] \in Cell
  BY ElementOfSeq, LenProperties
<1> DEFINE a == SubSeq(s, 1, k - 1)  b == SubSeq(s, k + 1, Len(s))
<1>2. a \in Seq(Cell) /\ Len(a) = IF 1 <= k - 1 THEN (k - 1) - 1 + 1 ELSE 0
  <2>1. \A j \in 1 .. k - 1 : s[j] \in Cell
    BY <1>1
  <2> QED BY <1>1, <2>1, SubSeqProperties
<1>3. b \in Seq(Cell) /\ Len(b) = IF k + 1 <= Len(s) THEN Len(s) - (k + 1) + 1 ELSE 0
  <2>1. \A j \in k + 1 .. Len(s) : s[j] \in Cell
    BY <1>1
  <2> QED BY <1>1, <2>1, SubSeqProperties
<1>4. a \o b \in Seq(Cell) /\ Len(a \o b) = Len(a) + Len(b)
  BY <1>2, <1>3, ConcatProperties
<1>5. Len(a \o b) = Len(s) - 1
  <2>1. Len(a) = k - 1 /\ Len(b) = Len(s) - k
    BY <1>1, <1>2, <1>3
  <2> HIDE DEF a, b
  <2> QED BY <1>1, <1>4, <2>1
<1>6. SubSeq(s, Len(s) + 1, Len(s)) = <<>>
  BY <1>1, SubSeqEmpty
<1>7. s # <<>>
  BY EmptySeq
<1>8. FrontOf(s) \o <<>> = FrontOf(s)
  BY <1>7, FrontOfTypes, ConcatEmptySeq
<1>9. Without(s, Len(s)) = FrontOf(s)
  BY <1>6, <1>8 DEF Without, FrontOf
<1> QED BY <1>4, <1>5, <1>9 DEF Without
---------------------------------------------------------------------------
(* The capacity after a removal. *)
LEMMA RoomAfterRemoval ==
  ASSUME ArrayTypes, NEW n \in Nat, capacity > 0, n <= capacity
  PROVE  Shrunk(n) \in Nat /\ Shrunk(n) > 0 /\ n <= Shrunk(n)
BY SMT DEF Shrunk, ArrayTypes

LEMMA ShrunkIsNat ==
  ASSUME ArrayTypes, NEW n \in Nat PROVE Shrunk(n) \in Nat
BY SMT DEF Shrunk, ArrayTypes

(* Every removal: items are left, and rest is what should be left. *)
LEMMA RemovalKeeps ==
  ASSUME ArrayInv, NEW k \in 1 .. Len(data), NEW items \in Seq(Cell), NEW rest,
         Len(items) = Len(data) - 1, Removed(k, items, rest),
         undefined = {} \/ undefined' # {}, "beyond" \in undefined' => "beyond" \in undefined,
         undefined' = {} => rest = items
  PROVE  ArrayInv'
<1> USE DEF ArrayInv
<1>1. Len(data) \in Nat /\ Len(data) - 1 \in Nat
  BY LenProperties DEF ArrayTypes
<1>2. capacity' \in Nat
  BY <1>1, ShrunkIsNat DEF Removed
<1>3. kept' = IF undefined' = {} THEN rest ELSE <<>>
  BY DEF Removed, Due
<1>4. ArrayTypes'
  BY <1>2, <1>3, EmptySeq DEF ArrayTypes, Removed
<1>5. undefined' = {} => data' = kept' /\ got' = due'
  <2> SUFFICES ASSUME undefined' = {} PROVE data' = kept' /\ got' = due'
    OBVIOUS
  <2>1. data = kept /\ DOMAIN data = 1 .. Len(data)
    BY LenProperties DEF ArrayKept, ArrayTypes
  <2> QED BY <2>1, <1>3 DEF Removed, Due
<1>6. live' /\ ~asked0' => Len(data') <= capacity' /\ capacity' > 0
  <2> SUFFICES ASSUME live', ~asked0' PROVE Len(data') <= capacity' /\ capacity' > 0
    OBVIOUS
  <2>1. live /\ ~asked0 /\ capacity' = Shrunk(Len(data) - 1) /\ data' = items
    BY DEF Removed
  <2>2. Len(data) <= capacity /\ capacity > 0 /\ capacity \in Nat
    BY <2>1 DEF ArrayKept, ArrayTypes
  <2> QED BY <1>1, <2>1, <2>2, RoomAfterRemoval
<1>7. "beyond" \in undefined' => asked0'
  BY DEF ArrayKept, Removed
<1> QED BY <1>4, <1>5, <1>6, <1>7 DEF ArrayKept
---------------------------------------------------------------------------
LEMMA AllocKeeps ==
  ASSUME ArrayInv, NEW n \in Capacities, ngArrayAlloc(n) PROVE ArrayInv'
<1>1. n \in Nat
  BY ArrayAssumption DEF ArrayAssumption
<1>2. ArrayTypes'
  BY <1>1, EmptySeq DEF ArrayInv, ArrayTypes, ngArrayAlloc, Due
<1>3. undefined' = {} => data' = kept' /\ got' = due'
  BY DEF ngArrayAlloc, Due
<1>4. live' /\ ~asked0' => Len(data') <= capacity' /\ capacity' > 0
  <2>1. data' = <<>> /\ capacity' = n /\ (~asked0' => n # 0)
    BY DEF ngArrayAlloc
  <2>2. Len(data') = 0
    BY <2>1, EmptySeq
  <2> QED BY <1>1, <2>1, <2>2
<1>5. "beyond" \in undefined' => asked0'
  BY DEF ArrayInv, ArrayKept, ngArrayAlloc
<1> QED BY <1>2, <1>3, <1>4, <1>5 DEF ArrayInv, ArrayKept

LEMMA FreeKeeps == ASSUME ArrayInv, ngArrayFree PROVE ArrayInv'
<1>1. ArrayTypes'
  BY EmptySeq DEF ArrayInv, ArrayTypes, ngArrayFree, Due
<1> QED BY <1>1 DEF ArrayInv, ArrayKept, ngArrayFree, Due

LEMMA ResizeKeeps ==
  ASSUME ArrayInv, NEW n \in Nat, ngArrayResize(n) PROVE ArrayInv'
<1>1. /\ FirstOf(data, n) \in Seq(Cell) /\ Len(FirstOf(data, n)) <= n
      /\ FirstOf(kept, n) \in Seq(Cell)
  BY FirstOfTypes DEF ArrayInv, ArrayTypes
<1>2. ArrayTypes'
  BY <1>1, EmptySeq DEF ArrayInv, ArrayTypes, ngArrayResize, Due
<1>3. undefined' = {} => data' = kept' /\ got' = due'
  BY DEF ArrayInv, ArrayKept, ngArrayResize, Due
<1>4. live' /\ ~asked0' => Len(data') <= capacity' /\ capacity' > 0
  <2>1. data' = FirstOf(data, n) /\ capacity' = n /\ (~asked0' => n # 0)
    BY DEF ngArrayResize
  <2> QED BY <1>1, <2>1
<1>5. "beyond" \in undefined' => asked0'
  BY DEF ArrayInv, ArrayKept, ngArrayResize
<1> QED BY <1>2, <1>3, <1>4, <1>5 DEF ArrayInv, ArrayKept

LEMMA FillKeeps ==
  ASSUME ArrayInv, NEW w \in Elements, ArrayFill(w) PROVE ArrayInv'
<1> DEFINE s == [k \in 1 .. capacity |-> w]
<1>1. s \in Seq(Cell) /\ Len(s) = capacity
  BY SMT DEF ArrayInv, ArrayTypes, Cell
<1>2. ArrayTypes'
  BY <1>1, EmptySeq DEF ArrayInv, ArrayTypes, ArrayFill, Due
<1>3. undefined' = {} => data' = kept' /\ got' = due'
  BY DEF ArrayInv, ArrayKept, ArrayFill, Due
<1>4. live' /\ ~asked0' => Len(data') <= capacity' /\ capacity' > 0
  BY <1>1 DEF ArrayInv, ArrayKept, ArrayTypes, ArrayFill
<1>5. "beyond" \in undefined' => asked0'
  BY DEF ArrayInv, ArrayKept, ArrayFill
<1> QED BY <1>2, <1>3, <1>4, <1>5 DEF ArrayInv, ArrayKept
---------------------------------------------------------------------------
(* A push writes beyond the memory only if the capacity was 0 before. *)
LEMMA GrownMakesRoom ==
  ASSUME ArrayInv, live, ~asked0
  PROVE  Len(data) + 1 <= Grown /\ Grown > 0
<1>1. Len(data) \in Nat /\ capacity \in Nat /\ Len(data) <= capacity /\ capacity > 0
  BY LenProperties DEF ArrayInv, ArrayTypes, ArrayKept
<1> QED BY <1>1 DEF Grown, Full

LEMMA GrownIsNat == ASSUME ArrayInv PROVE Grown \in Nat
BY SMT DEF Grown, ArrayInv, ArrayTypes

LEMMA PushKeeps ==
  ASSUME ArrayInv, NEW w \in Cell, NEW want \in Cell, NEW own \in BOOLEAN,
         undefined = {} => want = w, ngArrayPush(w, want, own)
  PROVE  ArrayInv'
<1> DEFINE s == FirstOf(data, Grown)  beyond == Len(s) + 1 > Grown  moved == own /\ Full
<1>1. s \in Seq(Cell) /\ Len(s) \in Nat /\ Len(s) <= Len(data) /\ Grown \in Nat
  BY GrownIsNat, FirstOfTypes, LenProperties DEF ArrayInv, ArrayTypes
<1>2. /\ live /\ capacity' = Grown
      /\ undefined' = undefined \cup (IF beyond THEN {"beyond"} ELSE {})
                                \cup (IF moved THEN {"moved"} ELSE {})
      /\ Due(Append(kept, want), due) /\ UNCHANGED <<live, got, asked0>>
  BY DEF ngArrayPush
<1>3. PICK item \in IF beyond \/ moved THEN {w, Junk} ELSE {w} : data' = Append(s, item)
  BY DEF ngArrayPush
<1>4. item \in Cell
  BY <1>3 DEF Cell
<1>5. /\ Append(s, item) \in Seq(Cell) /\ Len(Append(s, item)) = Len(s) + 1
      /\ Append(kept, want) \in Seq(Cell)
  BY <1>1, <1>4, AppendProperties DEF ArrayInv, ArrayTypes
<1> HIDE DEF s
<1>6. ArrayTypes'
  BY <1>1, <1>2, <1>3, <1>5, EmptySeq DEF ArrayInv, ArrayTypes, Due
<1>7. undefined' = {} => data' = kept' /\ got' = due'
  <2> SUFFICES ASSUME undefined' = {} PROVE data' = kept' /\ got' = due'
    OBVIOUS
  <2>1. undefined = {} /\ ~beyond /\ ~moved
    BY <1>2
  <2>2. data = kept /\ got = due /\ item = w /\ want = w
    BY <1>3, <2>1 DEF ArrayInv, ArrayKept
  <2>3. s = data
    <3>1. Len(data) \in Nat /\ capacity \in Nat
      BY LenProperties DEF ArrayInv, ArrayTypes
    <3>2. CASE Len(data) <= Grown
      BY <3>2 DEF s, FirstOf
    <3>3. CASE Len(data) > Grown
      <4>1. \A j \in 1 .. Grown : data[j] \in Cell
        BY <1>1, <3>1, <3>3, ElementOfSeq DEF ArrayInv, ArrayTypes
      <4>2. Len(SubSeq(data, 1, Grown)) = IF 1 <= Grown THEN Grown - 1 + 1 ELSE 0
        BY <1>1, <4>1, SubSeqProperties
      <4>3. Len(s) = Grown
        BY <1>1, <3>1, <3>3, <4>2 DEF s, FirstOf
      <4> QED BY <1>1, <2>1, <4>3
    <3> QED BY <1>1, <3>1, <3>2, <3>3
  <2> QED BY <1>2, <1>3, <2>1, <2>2, <2>3 DEF Due
<1>8. live' /\ ~asked0' => Len(data') <= capacity' /\ capacity' > 0
  <2> SUFFICES ASSUME live', ~asked0' PROVE Len(data') <= capacity' /\ capacity' > 0
    OBVIOUS
  <2>1. Len(data) + 1 <= Grown /\ Grown > 0
    BY <1>2, GrownMakesRoom
  <2>2. Len(data) \in Nat
    BY LenProperties DEF ArrayInv, ArrayTypes
  <2> QED BY <1>1, <1>2, <1>3, <1>5, <2>1, <2>2
<1>9. "beyond" \in undefined' => asked0'
  <2> SUFFICES ASSUME "beyond" \in undefined', ~asked0' PROVE FALSE
    BY <1>2 DEF ArrayInv, ArrayTypes
  <2>1. Len(data) + 1 <= Grown /\ Len(data) \in Nat
    BY <1>2, GrownMakesRoom, LenProperties DEF ArrayInv, ArrayTypes
  <2>2. ~beyond
    BY <1>1, <2>1
  <2>3. "beyond" \in undefined
    BY <1>2, <2>2
  <2> QED BY <1>2, <2>3 DEF ArrayInv, ArrayKept
<1> QED BY <1>6, <1>7, <1>8, <1>9 DEF ArrayInv, ArrayKept
---------------------------------------------------------------------------
LEMMA PopKeeps == ASSUME ArrayInv, ngArrayPop PROVE ArrayInv'
<1>1. data # <<>> /\ Len(data) \in 1 .. Len(data)
  <2>1. Len(data) \in Nat /\ Len(data) > 0
    BY LenProperties DEF ArrayInv, ArrayTypes, ngArrayPop
  <2>2. Len(<<>>) = 0
    BY EmptySeq
  <2> QED BY <2>1, <2>2
<1>2. FrontOf(data) \in Seq(Cell) /\ Len(FrontOf(data)) = Len(data) - 1
  BY <1>1, FrontOfTypes DEF ArrayInv, ArrayTypes
<1>3. undefined = {} => FrontOf(kept) = FrontOf(data)
  BY DEF ArrayInv, ArrayKept
<1> QED BY <1>1, <1>2, <1>3, RemovalKeeps DEF ngArrayPop

LEMMA RemoveKeeps ==
  ASSUME ArrayInv, NEW k, ngArrayRemove(k) PROVE ArrayInv'
<1> DEFINE overlap == Len(data) - k >= 2
<1>1. k \in 1 .. Len(data) /\ Len(data) \in Nat
  BY LenProperties DEF ngArrayRemove, ArrayInv, ArrayTypes
<1>2. PICK items \in IF overlap THEN {Without(data, k), Smeared(data, k)} ELSE {Without(data, k)} :
        Removed(k, items, Without(kept, k))
  BY DEF ngArrayRemove
<1>3. Without(data, k) \in Seq(Cell) /\ Len(Without(data, k)) = Len(data) - 1
  BY <1>1, WithoutTypes DEF ArrayInv, ArrayTypes
<1>4. Smeared(data, k) \in Seq(Cell) /\ Len(Smeared(data, k)) = Len(data) - 1
  <2>1. \A j \in 1 .. Len(data) - 1 : data[j] \in Cell /\ data[Len(data)] \in Cell
    BY <1>1, ElementOfSeq DEF ArrayInv, ArrayTypes
  <2>2. Len(data) - 1 \in Nat
    BY <1>1
  <2> DEFINE g == [j \in 1 .. Len(data) - 1 |-> IF j < k THEN data[j] ELSE data[Len(data)]]
  <2>3. g \in [1 .. Len(data) - 1 -> Cell]
    BY <1>1, <2>1
  <2> HIDE DEF g
  <2>4. g \in Seq(Cell) /\ Len(g) = Len(data) - 1
    BY <2>2, <2>3
  <2> QED BY <2>4 DEF Smeared, g
<1>5. items \in Seq(Cell) /\ Len(items) = Len(data) - 1
  BY <1>2, <1>3, <1>4
<1>6. undefined' = undefined \cup (IF overlap THEN {"overlap"} ELSE {})
  BY DEF ngArrayRemove
<1>7. undefined' = {} => Without(kept, k) = items
  <2> SUFFICES ASSUME undefined' = {} PROVE Without(kept, k) = items
    OBVIOUS
  <2>1. undefined = {} /\ ~overlap
    BY <1>6
  <2> QED BY <1>2, <2>1 DEF ArrayInv, ArrayKept
<1>8. (undefined = {} \/ undefined' # {}) /\ ("beyond" \in undefined' => "beyond" \in undefined)
  BY <1>6
<1> QED BY <1>1, <1>2, <1>5, <1>7, <1>8, RemovalKeeps

LEMMA SwapAndPopKeeps ==
  ASSUME ArrayInv, NEW k, ngArraySwapAndPop(k) PROVE ArrayInv'
<1>1. k \in 1 .. Len(data) /\ Len(data) \in Nat
  BY LenProperties DEF ngArraySwapAndPop, ArrayInv, ArrayTypes
<1>2. CASE k = Len(data)
  BY <1>2, PopKeeps DEF ngArraySwapAndPop
<1>3. CASE k # Len(data)
  <2> DEFINE s == [data EXCEPT ![k] = data[Len(data)]]
             rest == Without([kept EXCEPT ![k] = kept[Len(kept)]], Len(kept))
  <2>1. s \in Seq(Cell) /\ Len(s) = Len(data)
    <3>1. data[Len(data)] \in Cell
      BY <1>1, ElementOfSeq DEF ArrayInv, ArrayTypes
    <3> QED BY <1>1, <3>1, ExceptSeq DEF ArrayInv, ArrayTypes
  <2>2. s # <<>>
    BY <1>1, <2>1, EmptySeq
  <2> HIDE DEF s
  <2>3. FrontOf(s) \in Seq(Cell) /\ Len(FrontOf(s)) = Len(data) - 1
    BY <2>1, <2>2, FrontOfTypes
  <2>4. Without(s, Len(s)) = FrontOf(s)
    BY <1>1, <2>1, WithoutTypes
  <2>5. undefined = {} => rest = FrontOf(s)
    BY <2>1, <2>4 DEF ArrayInv, ArrayKept, s
  <2>6. Swapped(data, k) = FrontOf(s)
    BY DEF Swapped, s
  <2>7. UNCHANGED undefined /\ Removed(k, FrontOf(s), rest)
    BY <1>3, <2>6 DEF ngArraySwapAndPop
  <2> HIDE DEF rest
  <2> QED BY <1>1, <2>3, <2>5, <2>7, RemovalKeeps
<1> QED BY <1>2, <1>3
---------------------------------------------------------------------------
(* Whatever items callers keep and whatever capacities they ask for: until a *)
(* step is undefined an array keeps and hands out what was put in it and has *)
(* room for it, and only an array somebody asked to have no capacity is ever *)
(* written beyond its end.                                                   *)
THEOREM ArraysKeep == ArraySpec => []ArrayKept
<1>1. ArrayInit => ArrayInv
  <2> SUFFICES ASSUME ArrayInit PROVE ArrayInv
    OBVIOUS
  <2>1. ArrayTypes
    BY EmptySeq DEF ArrayInit, ArrayTypes
  <2>2. ArrayKept
    BY DEF ArrayInit, ArrayKept
  <2> QED BY <2>1, <2>2 DEF ArrayInv
<1>2. ArrayInv /\ [ArrayNext]_arrayVars => ArrayInv'
  <2> SUFFICES ASSUME ArrayInv, [ArrayNext]_arrayVars PROVE ArrayInv'
    OBVIOUS
  <2>1. CASE \E n \in Capacities : ngArrayAlloc(n)
    BY <2>1, AllocKeeps
  <2>2. CASE \E n \in Capacities : ngArrayResize(n)
    BY <2>2, ResizeKeeps, ArrayAssumption DEF ArrayAssumption
  <2>3. CASE ngArrayFree
    BY <2>3, FreeKeeps
  <2>4. CASE ArrayFit
    <3>1. Len(data) \in Nat
      BY LenProperties DEF ArrayInv, ArrayTypes
    <3> QED BY <2>4, <3>1, ResizeKeeps DEF ArrayFit
  <2>5. CASE ngArrayPop
    BY <2>5, PopKeeps
  <2>6. CASE \E w \in Elements : Push(w)
    <3>1. PICK w \in Elements : Push(w)
      BY <2>6
    <3> QED BY <3>1, PushKeeps DEF Push, Cell
  <2>7. CASE \E w \in Elements : ArrayFill(w)
    BY <2>7, FillKeeps
  <2>8. CASE \E k \in 1 .. MaxLength : PushOwn(k)
    <3>1. PICK k \in 1 .. MaxLength : PushOwn(k)
      BY <2>8
    <3> DEFINE want == IF k \in DOMAIN kept THEN kept[k] ELSE Junk
    <3>2. data[k] \in Cell /\ want \in Cell
      <4>1. k \in 1 .. Len(data) /\ (k \in DOMAIN kept => k \in 1 .. Len(kept))
        BY <3>1, LenProperties DEF PushOwn, ArrayInv, ArrayTypes
      <4> QED BY <4>1, ElementOfSeq DEF ArrayInv, ArrayTypes, Cell
    <3>3. undefined = {} => want = data[k]
      BY <3>1 DEF PushOwn, ArrayInv, ArrayKept
    <3>4. ngArrayPush(data[k], want, TRUE)
      BY <3>1 DEF PushOwn
    <3> HIDE DEF want
    <3> QED BY <3>2, <3>3, <3>4, PushKeeps
  <2>9. CASE \E k \in 1 .. MaxLength : ngArrayRemove(k)
    BY <2>9, RemoveKeeps
  <2>10. CASE \E k \in 1 .. MaxLength : ngArraySwapAndPop(k)
    BY <2>10, SwapAndPopKeeps
  <2>11. CASE UNCHANGED arrayVars
    BY <2>11 DEF arrayVars, ArrayInv, ArrayTypes, ArrayKept
  <2> QED BY <2>1, <2>2, <2>3, <2>4, <2>5, <2>6, <2>7, <2>8, <2>9, <2>10, <2>11 DEF ArrayNext
<1>3. ArrayInv => ArrayKept
  BY DEF ArrayInv
<1> QED BY <1>1, <1>2, <1>3, PTL DEF ArraySpec
---------------------------------------------------------------------------
(* A set of numbers up to n that holds 0, and with a number the next one, *)
(* holds them all.                                                        *)
LEMMA CountingTo ==
  ASSUME NEW N \in Nat, NEW T, 0 \in T, \A n \in 0 .. N - 1 : n \in T => n + 1 \in T
  PROVE  0 .. N \subseteq T
<1> SUFFICES ASSUME (0 .. N) \ T # {} PROVE FALSE
  OBVIOUS
<1> DEFINE U == (0 .. N) \ T
<1>1. U \subseteq Nat /\ U # {}
  OBVIOUS
<1> HIDE DEF U
<1>2. PICK n \in U : \A m \in U : <<m, n>> \notin OpToRel(<, Nat)
  BY <1>1, NatLessThanWellFounded, WFMin, Zenon
<1>3. \A m \in U : ~(m < n)
  BY <1>1, <1>2 DEF OpToRel
<1>4. n \in 0 .. N /\ n \notin T
  BY <1>2 DEF U
<1>5. n # 0 /\ n - 1 \in 0 .. N - 1 /\ n - 1 \in 0 .. N /\ (n - 1) + 1 = n /\ n - 1 < n
  BY <1>4
<1>6. n - 1 \in T
  BY <1>3, <1>5 DEF U
<1> QED BY <1>4, <1>5, <1>6

(* The sums of the first numbers of a sequence exist. *)
Sums(f, N, v) == f \in [0 .. N -> Nat] /\ f[0] = 0 /\ \A n \in 1 .. N : f[n] = f[n - 1] + v[n]

LEMMA SumsExist ==
  ASSUME NEW N \in Nat, NEW v \in [1 .. N -> Nat]
  PROVE  \E f : Sums(f, N, v)
<1> DEFINE T == {n \in 0 .. N : \E f : Sums(f, n, v)}
<1>1. 0 \in T
  <2>1. Sums([n \in 0 .. 0 |-> 0], 0, v)
    BY DEF Sums
  <2> QED BY <2>1
<1>2. ASSUME NEW n \in 0 .. N - 1, n \in T PROVE n + 1 \in T
  <2>1. PICK f : Sums(f, n, v)
    BY <1>2
  <2> DEFINE g == [k \in 0 .. n + 1 |-> IF k = n + 1 THEN f[n] + v[n + 1] ELSE f[k]]
  <2>2. n \in Nat /\ n + 1 \in 1 .. N /\ v[n + 1] \in Nat /\ f[n] \in Nat
    BY <2>1 DEF Sums
  <2>3. g \in [0 .. n + 1 -> Nat] /\ g[0] = 0
    BY <2>1, <2>2 DEF Sums
  <2>4. ASSUME NEW k \in 1 .. n + 1 PROVE g[k] = g[k - 1] + v[k]
    <3>1. CASE k = n + 1
      BY <2>1, <2>2, <3>1
    <3>2. CASE k # n + 1
      <4>1. k \in 1 .. n /\ k \in 0 .. n + 1 /\ k - 1 \in 0 .. n + 1 /\ k - 1 # n + 1
        BY <2>2, <3>2
      <4>2. f[k] = f[k - 1] + v[k]
        BY <2>1, <4>1 DEF Sums
      <4> QED BY <3>2, <4>1, <4>2
    <3> QED BY <3>1, <3>2
  <2> HIDE DEF g
  <2>5. Sums(g, n + 1, v)
    BY <2>3, <2>4 DEF Sums
  <2> QED BY <2>2, <2>5
<1>3. N \in T
  <2> HIDE DEF T
  <2>1. 0 .. N \subseteq T
    BY <1>1, <1>2, CountingTo
  <2> QED BY <2>1
<1> QED BY <1>3

Fields == Seq([name : STRING, type : Types])

LEMMA TypeTypes ==
  ASSUME NEW t \in Types
  PROVE  /\ t.size \in Nat
         /\ t.kind \in {"num", "struct", "array"}
         /\ t.kind = "num" => t.name \in DOMAIN Bytes /\ t.size = Bytes[t.name]
         /\ t.kind = "struct" => t.fields \in Fields /\ t.size = StructdSize(t.fields)
         /\ t.kind = "array" =>
              /\ t.of \in Types /\ t.length \in Nat /\ t.text \in BOOLEAN /\ t.size = t.of.size * t.length
              /\ t.text => t.of.kind = "num" /\ t.of.name = "u8"
<1>1. IsType(t)
  BY LayoutAssumption DEF LayoutAssumption
<1> QED BY <1>1 DEF IsType, CType, CStruct, CArray, Fields

LEMMA FieldTypes ==
  ASSUME NEW fs \in Fields
  PROVE  Len(fs) \in Nat /\ DOMAIN fs = 1 .. Len(fs) /\ \A k \in 1 .. Len(fs) : fs[k].type \in Types /\ fs[k].type.size \in Nat
<1>1. Len(fs) \in Nat /\ DOMAIN fs = 1 .. Len(fs) /\ \A k \in 1 .. Len(fs) : fs[k] \in [name : STRING, type : Types]
  BY LenProperties, ElementOfSeq DEF Fields
<1>2. \A k \in 1 .. Len(fs) : fs[k].type \in Types
  BY <1>1
<1> QED BY <1>1, <1>2, TypeTypes

(* Each field begins where the one before it ends. *)
LEMMA FieldAtSteps ==
  ASSUME NEW fs \in Fields
  PROVE  /\ \A k \in 1 .. Len(fs) + 1 : FieldAt(fs, k) \in Nat
         /\ FieldAt(fs, 1) = 0
         /\ \A k \in 1 .. Len(fs) : FieldAt(fs, k + 1) = FieldAt(fs, k) + fs[k].type.size
<1> DEFINE N == Len(fs)
           v == [k \in 1 .. N |-> fs[k].type.size]
           Recurs(f) == f = [n \in 0 .. N |-> IF n = 0 THEN 0 ELSE f[n - 1] + fs[n].type.size]
           r == CHOOSE f : Recurs(f)
<1>1. N \in Nat /\ v \in [1 .. N -> Nat] /\ \A k \in 1 .. N : v[k] = fs[k].type.size
  BY FieldTypes
<1> HIDE DEF v, N
<1>2. PICK f : Sums(f, N, v)
  BY <1>1, SumsExist
<1>3. Recurs(f)
  <2>1. ASSUME NEW n \in 0 .. N PROVE f[n] = IF n = 0 THEN 0 ELSE f[n - 1] + fs[n].type.size
    <3>1. CASE n = 0
      BY <1>2, <3>1 DEF Sums
    <3>2. CASE n # 0
      <4>1. n \in 1 .. N
        BY <1>1, <3>2
      <4> QED BY <1>1, <1>2, <3>2, <4>1 DEF Sums
    <3> QED BY <3>1, <3>2
  <2>2. f \in [0 .. N -> Nat]
    BY <1>2 DEF Sums
  <2> QED BY <2>1, <2>2
<1>4. Recurs(r)
  <2> HIDE DEF Recurs
  <2> QED BY <1>3
<1>5. r[0] = 0 /\ \A n \in 1 .. N : r[n] = r[n - 1] + fs[n].type.size
  <2>1. \A n \in 0 .. N : r[n] = IF n = 0 THEN 0 ELSE r[n - 1] + fs[n].type.size
    <3> HIDE DEF r
    <3> QED BY <1>4
  <2> HIDE DEF r
  <2> QED BY <1>1, <2>1
<1>6. \A k : FieldAt(fs, k) = r[k - 1]
  BY Zenon DEF FieldAt, N
<1> HIDE DEF r, Recurs
<1>7. 0 .. N \subseteq {n \in 0 .. N : r[n] \in Nat}
  <2> DEFINE T == {n \in 0 .. N : r[n] \in Nat}
  <2>1. 0 \in T
    BY <1>1, <1>5
  <2>2. ASSUME NEW n \in 0 .. N - 1, n \in T PROVE n + 1 \in T
    <3>1. n + 1 \in 1 .. N /\ n + 1 \in 0 .. N /\ (n + 1) - 1 = n /\ r[n] \in Nat
      BY <1>1, <2>2
    <3>2. fs[n + 1].type.size \in Nat
      BY <3>1, FieldTypes DEF N
    <3>3. r[n + 1] = r[n] + fs[n + 1].type.size
      BY <1>5, <3>1
    <3> QED BY <3>1, <3>2, <3>3
  <2> HIDE DEF T
  <2>3. 0 .. N \subseteq T
    BY <1>1, <2>1, <2>2, CountingTo
  <2> QED BY <2>3 DEF T
<1>8. \A k \in 1 .. N + 1 : FieldAt(fs, k) \in Nat
  <2>1. \A k \in 1 .. N + 1 : k - 1 \in 0 .. N
    BY <1>1
  <2> QED BY <1>6, <1>7, <2>1
<1>9. FieldAt(fs, 1) = 0
  BY <1>5, <1>6
<1>10. ASSUME NEW k \in 1 .. N PROVE FieldAt(fs, k + 1) = FieldAt(fs, k) + fs[k].type.size
  <2>1. (k + 1) - 1 = k
    BY <1>1
  <2>2. FieldAt(fs, k + 1) = r[k]
    BY <1>6, <2>1
  <2> QED BY <1>5, <1>6, <2>2
<1> QED BY <1>8, <1>9, <1>10 DEF N

(* The fields follow each other and end with the struct. *)
LEMMA FieldsInOrder ==
  ASSUME NEW fs \in Fields
  PROVE  /\ \A k \in 1 .. Len(fs), j \in 1 .. Len(fs) : j < k => FieldAt(fs, j) + fs[j].type.size <= FieldAt(fs, k)
         /\ \A j \in 1 .. Len(fs) : FieldAt(fs, j) + fs[j].type.size <= StructdSize(fs)
<1> DEFINE N == Len(fs)
<1>1. N \in Nat /\ \A k \in 1 .. N : fs[k].type.size \in Nat
  BY FieldTypes
<1> HIDE DEF N
<1>2. ASSUME NEW j \in 1 .. N, NEW k \in 1 .. N + 1, j < k PROVE FieldAt(fs, j) + fs[j].type.size <= FieldAt(fs, k)
  <2> DEFINE End == FieldAt(fs, j) + fs[j].type.size
             T == {n \in 0 .. N + 1 : j < n => End <= FieldAt(fs, n)}
  <2>1. End \in Nat /\ j + 1 \in 1 .. N + 1 /\ FieldAt(fs, j + 1) = End
    BY <1>1, FieldAtSteps DEF N
  <2> HIDE DEF End
  <2>2. 0 \in T
    BY <1>1
  <2>3. ASSUME NEW n \in 0 .. N, n \in T PROVE n + 1 \in T
    <3> SUFFICES ASSUME j < n + 1 PROVE End <= FieldAt(fs, n + 1)
      BY <1>1
    <3>1. CASE n = j
      BY <2>1, <3>1
    <3>2. CASE n # j
      <4>1. j < n /\ n \in 1 .. N
        BY <1>1, <3>2
      <4>2. FieldAt(fs, n + 1) = FieldAt(fs, n) + fs[n].type.size /\ FieldAt(fs, n) \in Nat /\ fs[n].type.size \in Nat
        BY <1>1, <4>1, FieldAtSteps DEF N
      <4>3. End <= FieldAt(fs, n)
        BY <2>3, <4>1
      <4> QED BY <2>1, <4>2, <4>3
    <3> QED BY <3>1, <3>2
  <2> HIDE DEF T
  <2>4. 0 .. N + 1 \subseteq T
    <3>1. N + 1 \in Nat /\ (N + 1) - 1 = N
      BY <1>1
    <3> QED BY <2>2, <2>3, <3>1, CountingTo
  <2>5. k \in T
    BY <2>4
  <2> QED BY <1>2, <2>5 DEF T, End
<1>3. \A k \in 1 .. N : k \in 1 .. N + 1 /\ k < N + 1
  BY <1>1
<1> QED BY <1>1, <1>2, <1>3 DEF N, StructdSize
---------------------------------------------------------------------------
(* Numbers and their bytes. *)
LEMMA SplitOnce ==
  ASSUME NEW M \in Nat, M > 0, NEW u \in Int, NEW x \in Int, 0 <= x, x < M, NEW v \in Int, v = M * u + x
  PROVE  v % M = x
<1> DEFINE q == v \div M
           y == v % M
<1>1. q \in Int /\ y \in Int /\ v = M * q + y /\ 0 <= y /\ y < M
  OBVIOUS
<1> HIDE DEF q, y
<1>2. CASE u = q
  <2>1. M * u = M * q /\ M * q \in Int
    BY <1>1, <1>2
  <2>2. x = y
    BY <1>1, <2>1
  <2> QED BY <2>2 DEF y
<1>3. CASE u <= q - 1
  <2>1. M * u <= M * (q - 1) /\ M * (q - 1) = M * q - M /\ M * q \in Int /\ M * u \in Int
    BY <1>1, <1>3
  <2> QED BY <1>1, <2>1
<1>4. CASE u >= q + 1
  <2>1. M * u >= M * (q + 1) /\ M * (q + 1) = M * q + M /\ M * q \in Int /\ M * u \in Int
    BY <1>1, <1>4
  <2> QED BY <1>1, <2>1
<1>5. v % M = y
  BY DEF y
<1> QED BY <1>1, <1>2, <1>3, <1>4, <1>5

LEMMA OneDigit ==
  ASSUME NEW v \in Int, NEW b \in Nat, b > 0, NEW m \in Nat, m > 0
  PROVE  (v % b) + b * ((v \div b) % m) = v % (b * m)
<1> DEFINE q == v \div b
           r == v % b
           u == q \div m
           s == q % m
<1>1. q \in Int /\ r \in Int /\ v = b * q + r /\ 0 <= r /\ r < b
  OBVIOUS
<1> HIDE DEF q, r
<1>2. u \in Int /\ s \in Int /\ q = m * u + s /\ 0 <= s /\ s <= m - 1
  BY <1>1
<1> HIDE DEF u, s
<1>3. v = (b * m) * u + (b * s + r)
  <2>1. b * (m * u + s) = (b * m) * u + b * s
    BY <1>2
  <2>2. b * q = (b * m) * u + b * s
    BY <1>2, <2>1
  <2>3. b * q \in Int /\ (b * m) * u \in Int /\ b * s \in Int
    BY <1>1, <1>2
  <2> QED BY <1>1, <2>2, <2>3
<1>4. 0 <= b * s + r /\ b * s + r < b * m /\ b * s + r \in Int /\ b * m \in Nat /\ b * m > 0
  <2>1. b * s <= b * (m - 1) /\ b * (m - 1) = b * m - b /\ b * s >= 0 /\ b * s \in Int /\ b * m \in Int /\ b * m > 0
    BY <1>2
  <2> QED BY <1>1, <2>1
<1> DEFINE M == b * m
           x == b * s + r
<1>5. v % M = x
  <2>1. M \in Nat /\ M > 0 /\ x \in Int /\ 0 <= x /\ x < M /\ v = M * u + x /\ u \in Int
    BY <1>2, <1>3, <1>4
  <2> HIDE DEF M, x
  <2> QED BY <2>1, SplitOnce
<1>6. r + b * s = b * s + r
  BY <1>1, <1>2
<1> QED BY <1>5, <1>6 DEF q, r, s

NumberIn(m, name, a) ==
  ToType(name, CASE Bytes[name] = 1 -> m[a] [] Bytes[name] = 2 -> m[a] + Base * m[a + 1]
                 [] OTHER -> m[a] + Base * (m[a + 1] + Base * (m[a + 2] + Base * m[a + 3])))

LEMMA NameTypes ==
  ASSUME NEW name \in DOMAIN Bytes
  PROVE  Bytes[name] \in {1, 2, 4, 8} /\ (HasAccessors(name) => Bytes[name] \in {1, 2, 4})
BY DEF Bytes, HasAccessors

LEMMA BaseTypes == Base \in Nat /\ Base > 0 /\ Base \in Int /\ Base * Base \in Nat /\ Base * Base > 0 /\ Base * (Base * Base) \in Nat /\ Base * (Base * Base) > 0
                    /\ Base * (Base * (Base * Base)) \in Nat /\ Base * (Base * (Base * Base)) > 0
<1>1. Base \in Nat /\ Base > 0
  BY LayoutAssumption DEF LayoutAssumption
<1>2. \A x \in Nat : x > 0 => Base * x \in Nat /\ Base * x > 0
  BY <1>1
<1>3. Base * Base \in Nat /\ Base * Base > 0
  BY <1>1, <1>2
<1>4. Base * (Base * Base) \in Nat /\ Base * (Base * Base) > 0
  BY <1>2, <1>3
<1> QED BY <1>1, <1>2, <1>3, <1>4

LEMMA ModTwice == ASSUME NEW v \in Int, NEW M \in Nat, M > 0 PROVE (v % M) % M = v % M /\ v % M \in 0 .. M - 1
<1>1. v % M \in Int /\ 0 <= v % M /\ v % M < M
  OBVIOUS
<1>2. v % M = M * 0 + (v % M)
  BY <1>1
<1> HIDE <1>2
<1> DEFINE y == v % M
<1> HIDE DEF y
<1>3. y \in Int /\ 0 <= y /\ y < M /\ y = M * 0 + y
  BY <1>1 DEF y
<1>4. y % M = y
  BY <1>3, SplitOnce
<1> QED BY <1>1, <1>4 DEF y

LEMMA BytesMakeNumber ==
  ASSUME NEW name \in DOMAIN Bytes, HasAccessors(name), NEW v \in Int, NEW m, NEW a \in Nat,
         \A k \in 0 .. Bytes[name] - 1 : m[a + k] = Digits(v)[k + 1]
  PROVE  NumberIn(m, name, a) = ToType(name, v)
<1> DEFINE q == v \div Base
           r == q \div Base
           s == r \div Base
<1>1. q \in Int /\ r \in Int /\ s \in Int
  BY BaseTypes
<1>2. Digits(v)[1] = v % Base /\ Digits(v)[2] = q % Base /\ Digits(v)[3] = r % Base /\ Digits(v)[4] = s % Base
  BY DEF Digits
<1> HIDE DEF q, r, s
<1>3. CASE Bytes[name] = 1
  <2>1. m[a] = v % Base
    <3>1. 0 \in 0 .. Bytes[name] - 1 /\ a + 0 = a /\ 0 + 1 = 1
      BY <1>3
    <3> QED BY <1>2, <3>1
  <2>2. (v % Base) % Base = v % Base
    BY BaseTypes, ModTwice
  <2> QED BY <1>3, <2>1, <2>2 DEF NumberIn, ToType
<1>4. CASE Bytes[name] = 2
  <2>1. m[a] = v % Base /\ m[a + 1] = q % Base
    <3>1. 0 \in 0 .. Bytes[name] - 1 /\ 1 \in 0 .. Bytes[name] - 1 /\ a + 0 = a /\ 0 + 1 = 1 /\ 1 + 1 = 2
      BY <1>4
    <3> QED BY <1>2, <3>1
  <2>2. (v % Base) + Base * (q % Base) = v % (Base * Base)
    BY BaseTypes, OneDigit DEF q
  <2>3. (v % (Base * Base)) % (Base * Base) = v % (Base * Base)
    BY BaseTypes, ModTwice
  <2>4. m[a] + Base * m[a + 1] = v % (Base * Base)
    BY <2>1, <2>2
  <2> QED BY <1>4, <2>3, <2>4 DEF NumberIn, ToType
<1>5. CASE Bytes[name] = 4
  <2> DEFINE M == Base * (Base * (Base * Base))
  <2>1. m[a] = v % Base /\ m[a + 1] = q % Base /\ m[a + 2] = r % Base /\ m[a + 3] = s % Base
    <3>1. 0 \in 0 .. Bytes[name] - 1 /\ 1 \in 0 .. Bytes[name] - 1 /\ 2 \in 0 .. Bytes[name] - 1 /\ 3 \in 0 .. Bytes[name] - 1
          /\ a + 0 = a /\ 0 + 1 = 1 /\ 1 + 1 = 2 /\ 2 + 1 = 3 /\ 3 + 1 = 4
      BY <1>5
    <3> QED BY <1>2, <3>1
  <2>2. (r % Base) + Base * (s % Base) = r % (Base * Base)
    BY <1>1, BaseTypes, OneDigit DEF s
  <2>3. (q % Base) + Base * (r % (Base * Base)) = q % (Base * (Base * Base))
    BY <1>1, BaseTypes, OneDigit DEF r
  <2>4. (v % Base) + Base * (q % (Base * (Base * Base))) = v % M
    BY <1>1, BaseTypes, OneDigit DEF q
  <2>5. (v % M) % M = v % M
    BY BaseTypes, ModTwice
  <2>6. m[a] + Base * (m[a + 1] + Base * (m[a + 2] + Base * m[a + 3])) = v % M
    BY <2>1, <2>2, <2>3, <2>4
  <2> QED BY <1>5, <2>5, <2>6 DEF NumberIn, ToType
<1> QED BY <1>3, <1>4, <1>5, NameTypes

(* A number depends on its own bytes only. *)
LEMMA OtherBytes ==
  ASSUME NEW name \in DOMAIN Bytes, HasAccessors(name), NEW m, NEW n, NEW a \in Nat,
         \A k \in 0 .. Bytes[name] - 1 : m[a + k] = n[a + k]
  PROVE  NumberIn(m, name, a) = NumberIn(n, name, a)
<1>1. Bytes[name] \in {1, 2, 4}
  BY NameTypes
<1>2. m[a] = n[a]
  <2>1. 0 \in 0 .. Bytes[name] - 1 /\ a + 0 = a
    BY <1>1
  <2> QED BY <2>1
<1>3. CASE Bytes[name] = 1
  BY <1>2, <1>3 DEF NumberIn
<1>4. CASE Bytes[name] = 2
  <2>1. m[a + 1] = n[a + 1]
    BY <1>4
  <2> QED BY <1>2, <1>4, <2>1 DEF NumberIn
<1>5. CASE Bytes[name] = 4
  <2>1. m[a + 1] = n[a + 1] /\ m[a + 2] = n[a + 2] /\ m[a + 3] = n[a + 3]
    BY <1>5
  <2> QED BY <1>2, <1>5, <2>1 DEF NumberIn
<1> QED BY <1>1, <1>3, <1>4, <1>5
---------------------------------------------------------------------------
(* The parts of a walk lie one behind the other and within the value. *)
Place == [type : Types, at : Nat]
EndOf(pl) == pl.at + pl.type.size
Ordered(ps) == \A k \in 1 .. Len(ps) : \A j \in 1 .. k - 1 : EndOf(ps[j]) <= ps[k].at
InOrder(ps, end) == ps \in Seq(Place) /\ Ordered(ps) /\ \A k \in 1 .. Len(ps) : EndOf(ps[k]) <= end

(* The parts that take the place of pl. *)
Inside(new, pl) ==
  new \in Seq(Place) /\ Ordered(new) /\ \A k \in 1 .. Len(new) : pl.at <= new[k].at /\ EndOf(new[k]) <= EndOf(pl)

LEMMA PlaceTypes == ASSUME NEW pl \in Place PROVE pl.type \in Types /\ pl.at \in Nat /\ pl.type.size \in Nat /\ EndOf(pl) \in Nat
<1>1. pl.type \in Types /\ pl.at \in Nat
  BY DEF Place
<1>2. pl.type.size \in Nat
  BY <1>1, TypeTypes
<1> QED BY <1>1, <1>2 DEF EndOf

LEMMA ASequence ==
  ASSUME NEW S, NEW n \in Nat, NEW f \in [1 .. n -> S]
  PROVE  f \in Seq(S) /\ Len(f) = n
<1>1. f \in Seq(S)
  BY SeqDef
<1>2. DOMAIN f = 1 .. Len(f) /\ DOMAIN f = 1 .. n /\ Len(f) \in Nat
  BY <1>1, LenProperties
<1> QED BY <1>1, <1>2

LEMMA FirstAndRest ==
  ASSUME NEW S, NEW s \in Seq(S), s # <<>>
  PROVE  /\ Len(s) \in Nat /\ Len(s) >= 1 /\ Head(s) = s[1] /\ s[1] \in S
         /\ Tail(s) \in Seq(S) /\ Len(Tail(s)) = Len(s) - 1
         /\ \A k \in 1 .. Len(s) - 1 : Tail(s)[k] = s[k + 1]
<1>1. Len(s) \in Nat /\ Len(s) # 0 /\ Head(s) = s[1]
  BY EmptySeq, LenProperties
<1>2. Tail(s) \in Seq(S) /\ Len(Tail(s)) = Len(s) - 1 /\ \A k \in 1 .. Len(s) - 1 : Tail(s)[k] = s[k + 1]
  BY HeadTailProperties
<1>3. s[1] \in S
  BY <1>1, ElementOfSeq
<1> QED BY <1>1, <1>2, <1>3

LEMMA FieldPlaces ==
  ASSUME NEW pl \in Place, pl.type.kind = "struct"
  PROVE  /\ Inside(FieldsAt(pl.type, pl.at), pl)
         /\ Len(FieldsAt(pl.type, pl.at)) = Len(pl.type.fields)
         /\ \A k \in 1 .. Len(pl.type.fields) :
              FieldsAt(pl.type, pl.at)[k] = [type |-> pl.type.fields[k].type, at |-> pl.at + FieldAt(pl.type.fields, k)]
<1> DEFINE fs == pl.type.fields
           new == FieldsAt(pl.type, pl.at)
           N == Len(fs)
<1>1. pl.type \in Types /\ pl.at \in Nat /\ fs \in Fields /\ pl.type.size = StructdSize(fs)
  BY PlaceTypes, TypeTypes
<1>2. N \in Nat /\ DOMAIN fs = 1 .. N
  BY <1>1, FieldTypes
<1>3. \A k \in 1 .. N : new[k] = [type |-> fs[k].type, at |-> pl.at + FieldAt(fs, k)]
  BY <1>2 DEF FieldsAt
<1>4. \A k \in 1 .. N : fs[k].type \in Types /\ fs[k].type.size \in Nat /\ FieldAt(fs, k) \in Nat
  <2>1. \A k \in 1 .. N : k \in 1 .. N + 1
    BY <1>2
  <2> QED BY <1>1, <2>1, FieldTypes, FieldAtSteps
<1>5. new \in Seq(Place) /\ Len(new) = N
  <2>1. \A k \in 1 .. N : [type |-> fs[k].type, at |-> pl.at + FieldAt(fs, k)] \in Place
    BY <1>1, <1>4 DEF Place
  <2>2. new = [k \in 1 .. N |-> [type |-> fs[k].type, at |-> pl.at + FieldAt(fs, k)]]
    BY <1>2 DEF FieldsAt
  <2> HIDE DEF new, N
  <2>3. new \in [1 .. N -> Place]
    BY <2>1, <2>2
  <2> QED BY <1>2, <2>3, ASequence
<1> HIDE DEF new, N
<1>6. \A k \in 1 .. N : new[k].at = pl.at + FieldAt(fs, k) /\ EndOf(new[k]) = pl.at + FieldAt(fs, k) + fs[k].type.size
  <2> HIDE DEF fs
  <2>1. \A k \in 1 .. N : new[k].at = pl.at + FieldAt(fs, k) /\ new[k].type = fs[k].type
    <3> SUFFICES ASSUME NEW k \in 1 .. N PROVE new[k].at = pl.at + FieldAt(fs, k) /\ new[k].type = fs[k].type
      OBVIOUS
    <3>1. new[k] = [type |-> fs[k].type, at |-> pl.at + FieldAt(fs, k)]
      BY <1>3
    <3> QED BY <3>1
  <2> QED BY <2>1 DEF EndOf
<1> HIDE DEF fs
<1>7. Ordered(new)
  <2> SUFFICES ASSUME NEW k \in 1 .. N, NEW j \in 1 .. k - 1 PROVE EndOf(new[j]) <= new[k].at
    BY <1>5 DEF Ordered
  <2>1. j \in 1 .. N /\ j < k
    BY <1>2
  <2>2. FieldAt(fs, j) + fs[j].type.size <= FieldAt(fs, k)
    BY <1>1, <2>1, FieldsInOrder DEF N
  <2> QED BY <1>1, <1>4, <1>6, <2>1, <2>2
<1>8. \A k \in 1 .. N : pl.at <= new[k].at /\ EndOf(new[k]) <= EndOf(pl)
  <2> SUFFICES ASSUME NEW k \in 1 .. N PROVE pl.at <= new[k].at /\ EndOf(new[k]) <= EndOf(pl)
    OBVIOUS
  <2>1. FieldAt(fs, k) + fs[k].type.size <= pl.type.size
    BY <1>1, FieldsInOrder DEF N
  <2>2. EndOf(pl) = pl.at + pl.type.size /\ pl.type.size \in Nat
    BY PlaceTypes DEF EndOf
  <2> QED BY <1>1, <1>4, <1>6, <2>1, <2>2
<1> QED BY <1>3, <1>5, <1>7, <1>8 DEF Inside, fs, new, N

LEMMA TimesGrows ==
  ASSUME NEW s \in Nat, NEW j \in Nat, NEW k \in Nat, j < k
  PROVE  s * j + s <= s * k /\ s * j \in Nat /\ s * k \in Nat
<1>1. s * (j + 1) <= s * k
  BY SMT
<1> QED BY <1>1

LEMMA ElementPlaces ==
  ASSUME NEW pl \in Place, pl.type.kind = "array"
  PROVE  /\ Inside(ElementsAt(pl.type, pl.at), pl)
         /\ Len(ElementsAt(pl.type, pl.at)) = pl.type.length
         /\ \A k \in 1 .. pl.type.length :
              ElementsAt(pl.type, pl.at)[k] = [type |-> pl.type.of, at |-> pl.at + pl.type.of.size * (k - 1)]
<1> DEFINE s == pl.type.of.size
           N == pl.type.length
           new == ElementsAt(pl.type, pl.at)
<1>1. pl.type \in Types /\ pl.at \in Nat /\ pl.type.of \in Types /\ N \in Nat /\ pl.type.size = s * N /\ s \in Nat
  BY PlaceTypes, TypeTypes
<1>2. new = [k \in 1 .. N |-> [type |-> pl.type.of, at |-> pl.at + s * (k - 1)]]
  BY DEF ElementsAt
<1> HIDE DEF s, N, new
<1>3. \A k \in 1 .. N : k - 1 \in Nat /\ s * (k - 1) \in Nat /\ s * (k - 1) + s <= s * N
  <2> SUFFICES ASSUME NEW k \in 1 .. N PROVE k - 1 \in Nat /\ s * (k - 1) \in Nat /\ s * (k - 1) + s <= s * N
    OBVIOUS
  <2>1. k - 1 \in Nat /\ k - 1 < N
    BY <1>1
  <2> QED BY <1>1, <2>1, TimesGrows
<1>4. new \in Seq(Place) /\ Len(new) = N
  <2>1. \A k \in 1 .. N : [type |-> pl.type.of, at |-> pl.at + s * (k - 1)] \in Place
    BY <1>1, <1>3 DEF Place
  <2>2. new \in [1 .. N -> Place]
    BY <1>2, <2>1
  <2> QED BY <1>1, <2>2, ASequence
<1>5. \A k \in 1 .. N : new[k] = [type |-> pl.type.of, at |-> pl.at + s * (k - 1)]
  BY <1>2
<1>6. \A k \in 1 .. N : new[k].at = pl.at + s * (k - 1) /\ EndOf(new[k]) = pl.at + s * (k - 1) + s
  <2>1. \A k \in 1 .. N : new[k].at = pl.at + s * (k - 1) /\ new[k].type = pl.type.of
    <3> SUFFICES ASSUME NEW k \in 1 .. N PROVE new[k].at = pl.at + s * (k - 1) /\ new[k].type = pl.type.of
      OBVIOUS
    <3>1. new[k] = [type |-> pl.type.of, at |-> pl.at + s * (k - 1)]
      BY <1>5
    <3> QED BY <3>1
  <2>2. \A k \in 1 .. N : new[k].type.size = s
    BY <2>1 DEF s
  <2> QED BY <2>1, <2>2 DEF EndOf
<1>7. Ordered(new)
  <2> SUFFICES ASSUME NEW k \in 1 .. N, NEW j \in 1 .. k - 1 PROVE EndOf(new[j]) <= new[k].at
    BY <1>4 DEF Ordered
  <2>1. j \in 1 .. N /\ j - 1 \in Nat /\ k - 1 \in Nat /\ j - 1 < k - 1
    BY <1>1
  <2>2. s * (j - 1) + s <= s * (k - 1)
    BY <1>1, <2>1, TimesGrows
  <2> QED BY <1>1, <1>3, <1>6, <2>1, <2>2
<1>8. \A k \in 1 .. N : pl.at <= new[k].at /\ EndOf(new[k]) <= EndOf(pl)
  <2>1. EndOf(pl) = pl.at + s * N /\ s * N \in Nat
    BY <1>1 DEF EndOf
  <2> QED BY <1>1, <1>3, <1>6, <2>1
<1> QED BY <1>4, <1>5, <1>7, <1>8 DEF Inside, s, N, new

(* A walk that goes into its first part stays in order. *)
LEMMA IntoKeepsOrder ==
  ASSUME NEW ps, NEW end \in Nat, InOrder(ps, end), ps # <<>>, NEW new, Inside(new, Head(ps))
  PROVE  /\ InOrder(new \o Tail(ps), end)
         /\ \A k \in 1 .. Len(new \o Tail(ps)) : Head(ps).at <= (new \o Tail(ps))[k].at
<1> DEFINE all == new \o Tail(ps)
           n == Len(new)
<1>1. ps \in Seq(Place) /\ Ordered(ps) /\ \A k \in 1 .. Len(ps) : EndOf(ps[k]) <= end
  BY DEF InOrder
<1>2. Len(ps) \in Nat /\ Len(ps) >= 1 /\ Head(ps) = ps[1] /\ ps[1] \in Place /\ Tail(ps) \in Seq(Place)
      /\ Len(Tail(ps)) = Len(ps) - 1 /\ \A k \in 1 .. Len(ps) - 1 : Tail(ps)[k] = ps[k + 1]
  BY <1>1, FirstAndRest
<1>3. new \in Seq(Place) /\ Ordered(new) /\ \A k \in 1 .. n : ps[1].at <= new[k].at /\ EndOf(new[k]) <= EndOf(ps[1])
  BY <1>2 DEF Inside
<1>4. n \in Nat
  BY <1>3, LenProperties
<1>5. all \in Seq(Place) /\ Len(all) = n + (Len(ps) - 1)
  BY <1>2, <1>3, ConcatProperties
<1>6. \A k \in 1 .. Len(all) : (k <= n => all[k] = new[k]) /\ (k > n => all[k] = ps[k - n + 1])
  <2> SUFFICES ASSUME NEW k \in 1 .. Len(all) PROVE (k <= n => all[k] = new[k]) /\ (k > n => all[k] = ps[k - n + 1])
    OBVIOUS
  <2>1. all[k] = IF k <= n THEN new[k] ELSE Tail(ps)[k - n]
    BY <1>2, <1>3, <1>5, ConcatProperties
  <2>2. k > n => k - n \in 1 .. Len(ps) - 1
    BY <1>2, <1>4, <1>5
  <2> QED BY <1>2, <1>4, <2>1, <2>2
<1> HIDE DEF all, n
<1>7. ASSUME NEW k \in 1 .. Len(all) PROVE ps[1].at <= all[k].at /\ EndOf(all[k]) <= end
  <2>1. ps[1].at \in Nat /\ EndOf(ps[1]) \in Nat /\ EndOf(ps[1]) <= end /\ ps[1].at <= EndOf(ps[1])
    <3>1. 1 \in 1 .. Len(ps)
      BY <1>2
    <3> QED BY <1>1, <1>2, <3>1, PlaceTypes DEF EndOf
  <2>2. all[k] \in Place /\ EndOf(all[k]) \in Nat /\ all[k].at \in Nat
    <3>1. all[k] \in Place
      BY <1>5, ElementOfSeq
    <3> QED BY <3>1, PlaceTypes
  <2>3. CASE k <= n
    <3>1. k \in 1 .. n
      BY <1>4, <2>3
    <3> QED BY <1>3, <1>6, <2>1, <2>2, <2>3, <3>1
  <2>4. CASE k > n
    <3>1. k - n + 1 \in 1 .. Len(ps) /\ 1 \in 1 .. (k - n + 1) - 1
      BY <1>2, <1>4, <1>5, <2>4
    <3>2. EndOf(ps[1]) <= ps[k - n + 1].at /\ EndOf(ps[k - n + 1]) <= end
      BY <1>1, <3>1 DEF Ordered
    <3> QED BY <1>6, <2>1, <2>2, <2>4, <3>2
  <2> QED BY <1>4, <2>3, <2>4
<1>8. ASSUME NEW k \in 1 .. Len(all), NEW j \in 1 .. k - 1 PROVE EndOf(all[j]) <= all[k].at
  <2>1. j \in 1 .. Len(all) /\ j < k
    BY <1>2, <1>4, <1>5
  <2>2. CASE k <= n
    <3>1. k \in 1 .. n /\ j <= n /\ Len(new) = n
      BY <1>4, <2>1, <2>2 DEF n
    <3> QED BY <1>3, <1>6, <2>1, <2>2, <3>1 DEF Ordered
  <2>3. CASE j > n
    <3>1. k > n /\ k - n + 1 \in 1 .. Len(ps) /\ j - n + 1 \in 1 .. (k - n + 1) - 1
      BY <1>2, <1>4, <1>5, <2>1, <2>3
    <3> QED BY <1>1, <1>6, <2>1, <2>3, <3>1 DEF Ordered
  <2>4. CASE j <= n /\ k > n
    <3>1. j \in 1 .. n /\ k - n + 1 \in 1 .. Len(ps) /\ 1 \in 1 .. (k - n + 1) - 1
      BY <1>2, <1>4, <1>5, <2>1, <2>4
    <3>2. EndOf(all[j]) <= EndOf(ps[1]) /\ EndOf(ps[1]) <= all[k].at
      BY <1>1, <1>3, <1>6, <2>1, <2>4, <3>1 DEF Ordered
    <3>3. EndOf(all[j]) \in Nat /\ EndOf(ps[1]) \in Nat /\ all[k].at \in Nat
      <4>1. all[j] \in Place /\ all[k] \in Place
        BY <1>5, <2>1, ElementOfSeq
      <4> QED BY <1>2, <4>1, PlaceTypes
    <3> QED BY <3>2, <3>3
  <2> QED BY <1>4, <2>1, <2>2, <2>3, <2>4
<1>9. Ordered(all)
  BY <1>8 DEF Ordered
<1>10. InOrder(all, end)
  BY <1>5, <1>7, <1>9 DEF InOrder
<1> QED BY <1>2, <1>7, <1>10 DEF all

LEMMA RestInOrder ==
  ASSUME NEW ps, NEW end \in Nat, InOrder(ps, end), ps # <<>>
  PROVE  /\ InOrder(Tail(ps), end) /\ Head(ps) \in Place /\ EndOf(Head(ps)) <= end
         /\ \A k \in 1 .. Len(Tail(ps)) : EndOf(Head(ps)) <= Tail(ps)[k].at
<1>1. ps \in Seq(Place) /\ Ordered(ps) /\ \A k \in 1 .. Len(ps) : EndOf(ps[k]) <= end
  BY DEF InOrder
<1>2. Len(ps) \in Nat /\ Len(ps) >= 1 /\ Head(ps) = ps[1] /\ ps[1] \in Place /\ Tail(ps) \in Seq(Place)
      /\ Len(Tail(ps)) = Len(ps) - 1 /\ \A k \in 1 .. Len(ps) - 1 : Tail(ps)[k] = ps[k + 1]
  BY <1>1, FirstAndRest
<1>3. \A k \in 1 .. Len(ps) - 1 : k + 1 \in 1 .. Len(ps) /\ 1 \in 1 .. (k + 1) - 1 /\ \A j \in 1 .. k - 1 : j + 1 \in 1 .. (k + 1) - 1 /\ j \in 1 .. Len(ps) - 1
  BY <1>2
<1>4. 1 \in 1 .. Len(ps)
  BY <1>2
<1> QED BY <1>1, <1>2, <1>3, <1>4 DEF InOrder, Ordered
---------------------------------------------------------------------------
(* The walk of a set, step by step: one that goes from w to x, and a whole *)
(* one so far.  What it has written stays.                                 *)
Names == {name \in DOMAIN Bytes : HasAccessors(name)}
Number == [name : Names, at : Nat, num : Int]
Stop == [left : Seq(Place), wrote : Seq(Number)]

Goes(w, x) ==
  /\ w.left # <<>>
  /\ \/ /\ Head(w.left).type.kind = "struct"
        /\ x = [left |-> FieldsAt(Head(w.left).type, Head(w.left).at) \o Tail(w.left), wrote |-> w.wrote]
     \/ \E n \in Int :
          /\ Head(w.left).type.kind = "num" /\ HasAccessors(Head(w.left).type.name)
          /\ x = [left |-> Tail(w.left),
                  wrote |-> Append(w.wrote, [name |-> Head(w.left).type.name, at |-> Head(w.left).at, num |-> n])]

Begins(s, t) == Len(s) <= Len(t) /\ \A j \in 1 .. Len(s) : t[j] = s[j]
Last(w) == w[Len(w)]
Walk(w, type) ==
  /\ w \in Seq(Stop) /\ Len(w) >= 1
  /\ w[1] = [left |-> <<[type |-> type, at |-> 0]>>, wrote |-> <<>>]
  /\ \A i \in 1 .. Len(w) - 1 : Goes(w[i], w[i + 1])
  /\ \A i \in 1 .. Len(w) : Begins(w[i].wrote, Last(w).wrote)

(* The numbers written lie in the value and are found in the memory m. *)
EndOfNumber(n) == n.at + Bytes[n.name]
Stored(m, ptr, type, wrote) ==
  \A j \in 1 .. Len(wrote) :
    EndOfNumber(wrote[j]) <= type.size /\ NumberIn(m, wrote[j].name, ptr + wrote[j].at) = wrote[j].num

LEMMA StopTypes ==
  ASSUME NEW type, NEW w, Walk(w, type)
  PROVE  /\ Len(w) \in Nat /\ Len(w) \in 1 .. Len(w)
         /\ \A i \in 1 .. Len(w) : w[i] \in Stop /\ w[i].left \in Seq(Place) /\ w[i].wrote \in Seq(Number)
         /\ Last(w) \in Stop /\ Last(w).left \in Seq(Place) /\ Last(w).wrote \in Seq(Number)
<1>1. Len(w) \in Nat /\ Len(w) \in 1 .. Len(w)
  BY LenProperties DEF Walk
<1>2. \A i \in 1 .. Len(w) : w[i] \in Stop
  BY ElementOfSeq DEF Walk
<1>3. \A s \in Stop : s.left \in Seq(Place) /\ s.wrote \in Seq(Number)
  BY DEF Stop
<1> QED BY <1>1, <1>2, <1>3 DEF Last

LEMMA WalkGoesOn ==
  ASSUME NEW type, NEW w, Walk(w, type), NEW x \in Stop, Goes(Last(w), x), Begins(Last(w).wrote, x.wrote)
  PROVE  Walk(Append(w, x), type) /\ Last(Append(w, x)) = x
<1> DEFINE v == Append(w, x)
           N == Len(w)
<1>1. w \in Seq(Stop) /\ N >= 1 /\ N \in Nat
  BY StopTypes DEF Walk
<1>2. v \in Seq(Stop) /\ Len(v) = N + 1 /\ v[N + 1] = x /\ \A i \in 1 .. N : v[i] = w[i]
  BY <1>1, AppendProperties
<1>3. w[N] = Last(w)
  BY DEF Last
<1> HIDE DEF v, N
<1>4. Last(v) = x
  BY <1>2 DEF Last
<1>5. v[1] = [left |-> <<[type |-> type, at |-> 0]>>, wrote |-> <<>>]
  BY <1>1, <1>2 DEF Walk
<1>6. ASSUME NEW i \in 1 .. N PROVE Goes(v[i], v[i + 1])
  <2>1. CASE i = N
    BY <1>2, <1>3, <2>1
  <2>2. CASE i # N
    <3>1. i \in 1 .. Len(w) - 1 /\ i + 1 \in 1 .. N
      BY <1>1, <2>2 DEF N
    <3>2. Goes(w[i], w[i + 1])
      BY <3>1 DEF Walk
    <3> QED BY <1>2, <3>1, <3>2
  <2> QED BY <2>1, <2>2
<1>7. ASSUME NEW i \in 1 .. N + 1 PROVE Begins(v[i].wrote, x.wrote)
  <2>1. x.wrote \in Seq(Number) /\ Len(x.wrote) \in Nat
    BY LenProperties DEF Stop
  <2>2. CASE i = N + 1
    BY <1>2, <2>1, <2>2 DEF Begins
  <2>3. CASE i # N + 1
    <3>1. i \in 1 .. N /\ v[i] = w[i]
      BY <1>1, <1>2, <2>3
    <3>2. Begins(w[i].wrote, Last(w).wrote)
      BY <3>1 DEF Walk, N
    <3>3. Len(w[i].wrote) \in Nat /\ Len(Last(w).wrote) \in Nat
      BY <3>1, StopTypes, LenProperties DEF N
    <3> QED BY <2>1, <3>1, <3>2, <3>3 DEF Begins
  <2> QED BY <2>2, <2>3
<1>8. Len(v) - 1 = N
  BY <1>1, <1>2
<1> QED BY <1>1, <1>2, <1>4, <1>5, <1>6, <1>7, <1>8 DEF Walk, v
---------------------------------------------------------------------------
(* The inductive invariant, without the gets. *)
Setting == view # NoView /\ view.for = "set"
Getting == view # NoView /\ view.for = "get"

ViewInv ==
  \/ view = NoView /\ parts = <<>> /\ values = <<>> /\ found = <<>>
  \/ /\ Setting \/ Getting
     /\ view.ptr \in Nat /\ view.type \in Types /\ InBuffer(view.ptr, view.type)
     /\ InOrder(parts, view.type.size)

Datum == {d[2] : d \in Data}

Kept ==
  /\ setting.ptr \in Nat /\ setting.type \in Types /\ InBuffer(setting.ptr, setting.type)
  /\ Walk(walk, setting.type) /\ Stored(bytes, setting.ptr, setting.type, Last(walk).wrote)

UnderWay ==
  /\ setting = [ptr |-> view.ptr, type |-> view.type]
  /\ parts = Last(walk).left /\ values \in Seq(Datum) /\ Len(values) = Len(parts)
  /\ \A k \in 1 .. Len(parts) : <<parts[k].type, values[k]>> \in Data
  /\ \A j \in 1 .. Len(Last(walk).wrote), k \in 1 .. Len(parts) : EndOfNumber(Last(walk).wrote[j]) <= parts[k].at

MemoryInv ==
  /\ bytes \in [0 .. BufferSize - 1 -> 0 .. Base - 1]
  /\ ViewInv
  /\ setting # NoSetting => Kept
  /\ Setting => UnderWay
  /\ setting # NoSetting /\ ~Setting => Last(walk).left = <<>>

LEMMA ASetting == \A t : \A pt \in Nat : [ptr |-> pt, type |-> t] # NoSetting
<1> SUFFICES ASSUME NEW pt \in Nat, NEW t PROVE [ptr |-> pt, type |-> t] # NoSetting
  OBVIOUS
<1>1. [ptr |-> pt, type |-> t].ptr = pt /\ NoSetting.ptr = -1 /\ pt # -1
  BY DEF NoSetting
<1> QED BY <1>1

LEMMA AView ==
  \A pt, t : [for |-> "set", ptr |-> pt, type |-> t] # NoView /\ [for |-> "get", ptr |-> pt, type |-> t] # NoView
<1> SUFFICES ASSUME NEW pt, NEW t
             PROVE  [for |-> "set", ptr |-> pt, type |-> t] # NoView /\ [for |-> "get", ptr |-> pt, type |-> t] # NoView
  OBVIOUS
<1>1. [for |-> "set", ptr |-> pt, type |-> t].for = "set" /\ [for |-> "get", ptr |-> pt, type |-> t].for = "get"
  OBVIOUS
<1>2. NoView.for = "nothing"
  BY DEF NoView
<1> QED BY <1>1, <1>2

LEMMA MemoryStarts == ASSUME LayoutInit PROVE MemoryInv
<1>1. bytes \in [0 .. BufferSize - 1 -> 0 .. Base - 1]
  <2>1. PICK b \in {0, Base - 1} : bytes = [a \in 0 .. BufferSize - 1 |-> b]
    BY DEF LayoutInit
  <2>2. b \in 0 .. Base - 1
    BY BaseTypes
  <2> QED BY <2>1, <2>2
<1>2. view = NoView /\ setting = NoSetting
  BY DEF LayoutInit
<1> QED BY <1>1, <1>2 DEF LayoutInit, MemoryInv, ViewInv, Setting

(* A walk begins with the whole value. *)
LEMMA WholeValue ==
  ASSUME NEW type \in Types
  PROVE  InOrder(<<[type |-> type, at |-> 0]>>, type.size)
<1> DEFINE pl == [type |-> type, at |-> 0]
           ps == <<pl>>
<1>1. type.size \in Nat
  BY TypeTypes
<1>2. pl \in Place /\ EndOf(pl) = type.size
  BY <1>1 DEF Place, EndOf
<1> HIDE DEF pl
<1>3. ps \in Seq(Place) /\ Len(ps) = 1 /\ ps[1] = pl
  BY <1>2
<1> HIDE DEF ps
<1> QED BY <1>1, <1>2, <1>3 DEF InOrder, Ordered, pl, ps

LEMMA FitTypes ==
  ASSUME NEW ptr \in Nat, NEW type \in Types, InBuffer(ptr, type), NEW n \in Nat, n <= type.size
  PROVE  ptr + n \in Nat /\ ptr + n <= BufferSize /\ type.size \in Nat /\ BufferSize \in Nat
<1>1. type.size \in Nat /\ BufferSize \in Nat
  BY TypeTypes, LayoutAssumption DEF LayoutAssumption
<1> QED BY <1>1 DEF InBuffer

LEMMA DatumTypes ==
  ASSUME NEW type, NEW v, <<type, v>> \in Data
  PROVE  /\ type \in Types /\ v \in Datum
         /\ type.kind = "num" => v.num \in Int
         /\ type.kind = "struct" =>
              \A k \in DOMAIN type.fields : <<type.fields[k].type, ValueOf(v, type.fields[k])>> \in Data
<1> DEFINE d == <<type, v>>
<1>1. d \in Data /\ d[1] = type /\ d[2] = v
  OBVIOUS
<1> HIDE DEF d
<1>2. IsDatum(d[1], d[2])
  BY <1>1, LayoutAssumption DEF LayoutAssumption
<1> QED BY <1>1, <1>2 DEF IsDatum, Datum

LEMMA SetBegins ==
  ASSUME MemoryInv, NEW ptr \in Nat, NEW type, NEW what, <<type, what>> \in Data, setDt(ptr, type, what)
  PROVE  MemoryInv'
<1>1. type \in Types /\ what \in Datum
  BY DatumTypes
<1>2. view = NoView /\ bytes' = bytes /\ found' = found
  BY DEF setDt, Ready
<1>3. CASE ~InBuffer(ptr, type)
  <2>1. UNCHANGED <<view, parts, values, setting, walk>>
    BY <1>3 DEF setDt
  <2> QED BY <1>2, <2>1 DEF MemoryInv, ViewInv, Setting, Getting, InBuffer, Kept, UnderWay
<1>4. CASE InBuffer(ptr, type)
  <2> DEFINE whole == <<[type |-> type, at |-> 0]>>
             start == [left |-> whole, wrote |-> <<>>]
  <2>1. /\ view' = [for |-> "set", ptr |-> ptr, type |-> type] /\ parts' = whole /\ values' = <<what>>
        /\ setting' = [ptr |-> ptr, type |-> type] /\ walk' = <<start>>
    BY <1>4 DEF setDt
  <2>2. InOrder(whole, type.size) /\ whole \in Seq(Place)
    BY <1>1, WholeValue DEF InOrder
  <2>3. Len(whole) = 1 /\ whole[1].type = type /\ whole[1].at = 0
    OBVIOUS
  <2>4. start \in Stop /\ start.left = whole /\ start.wrote = <<>> /\ Len(start.wrote) = 0
    BY <2>2 DEF Stop
  <2>5. Setting' /\ view'.ptr = ptr /\ view'.type = type
    BY <2>1, AView DEF Setting
  <2> HIDE DEF start
  <2>6. walk' \in Seq(Stop) /\ Len(walk') = 1 /\ walk'[1] = start
    BY <2>1, <2>4
  <2>7. Last(walk') = start
    BY <2>6 DEF Last
  <2>8. Walk(walk', type)
    <3>1. Begins(start.wrote, start.wrote)
      BY <2>4 DEF Begins
    <3> QED BY <2>6, <2>7, <3>1 DEF Walk, start
  <2>9. setting'.ptr = ptr /\ setting'.type = type
    BY <2>1
  <2>10. Kept'
    BY <1>1, <1>4, <2>4, <2>7, <2>8, <2>9 DEF Kept, Stored, InBuffer
  <2> HIDE DEF whole
  <2>11. values' \in Seq(Datum) /\ Len(values') = 1 /\ values'[1] = what
    BY <1>1, <2>1
  <2>12. UnderWay'
    BY <2>1, <2>3, <2>4, <2>5, <2>7, <2>11 DEF UnderWay
  <2>13. ViewInv'
    BY <1>1, <1>4, <2>1, <2>2, <2>5 DEF ViewInv, InBuffer
  <2> QED BY <1>2, <2>5, <2>10, <2>12, <2>13 DEF MemoryInv
<1> QED BY <1>3, <1>4

(* What a set that is under way knows. *)
LEMMA SetKnows ==
  ASSUME MemoryInv, Setting
  PROVE  /\ Kept /\ UnderWay /\ setting.ptr = view.ptr /\ setting.type = view.type
         /\ view.ptr \in Nat /\ view.type \in Types /\ view.type.size \in Nat /\ InBuffer(view.ptr, view.type)
         /\ InOrder(parts, view.type.size) /\ parts \in Seq(Place)
         /\ Walk(walk, view.type)
         /\ Last(walk) \in Stop /\ Last(walk).wrote \in Seq(Number) /\ Len(Last(walk).wrote) \in Nat
         /\ Last(walk).wrote = Written
<1>1. ViewInv /\ view # NoView
  BY DEF MemoryInv, Setting
<1>2. view.ptr \in Nat /\ view.type \in Types /\ InBuffer(view.ptr, view.type) /\ InOrder(parts, view.type.size)
  BY <1>1 DEF ViewInv
<1>3. UnderWay /\ setting.ptr = view.ptr /\ setting.type = view.type /\ setting # NoSetting
  BY <1>2, ASetting DEF MemoryInv, UnderWay
<1>4. Kept /\ Walk(walk, view.type)
  BY <1>3 DEF MemoryInv, Kept
<1>5. Last(walk) \in Stop /\ Last(walk).wrote \in Seq(Number) /\ Len(Last(walk).wrote) \in Nat
  BY <1>4, StopTypes, LenProperties
<1> QED BY <1>2, <1>3, <1>4, <1>5, TypeTypes DEF InOrder, Last, Written

LEMMA StructSet == ASSUME MemoryInv, SetStruct PROVE MemoryInv'
<1> DEFINE pl == Head(parts)
           new == FieldsAt(pl.type, pl.at)
           all == new \o Tail(parts)
           news == [k \in DOMAIN pl.type.fields |-> ValueOf(Head(values), pl.type.fields[k])]
           x == [left |-> all, wrote |-> Last(walk).wrote]
           N == Len(pl.type.fields)
<1>1. Setting /\ parts # <<>> /\ pl.type.kind = "struct"
  BY DEF SetStruct, At, Setting
<1>2. /\ Kept /\ UnderWay /\ setting.ptr = view.ptr /\ setting.type = view.type
      /\ view.ptr \in Nat /\ view.type \in Types /\ view.type.size \in Nat /\ InBuffer(view.ptr, view.type)
      /\ InOrder(parts, view.type.size) /\ parts \in Seq(Place) /\ Walk(walk, view.type)
      /\ Last(walk) \in Stop /\ Last(walk).wrote \in Seq(Number) /\ Len(Last(walk).wrote) \in Nat
      /\ Last(walk).wrote = Written
  BY <1>1, SetKnows
<1>3. /\ parts' = all /\ values' = news \o Tail(values) /\ walk' = Append(walk, x)
      /\ UNCHANGED <<bytes, view, found, outcome, setting>>
  BY <1>2 DEF SetStruct, Walked
<1>4. pl \in Place /\ pl = parts[1] /\ Len(parts) \in Nat /\ Len(parts) >= 1 /\ Tail(parts) \in Seq(Place) /\ Len(Tail(parts)) = Len(parts) - 1
      /\ \A k \in 1 .. Len(parts) - 1 : Tail(parts)[k] = parts[k + 1]
  BY <1>1, <1>2, FirstAndRest
<1>5. pl.type \in Types /\ pl.type.fields \in Fields /\ N \in Nat /\ DOMAIN pl.type.fields = 1 .. N
  BY <1>1, <1>4, PlaceTypes, TypeTypes, FieldTypes
<1>6. /\ Inside(new, pl) /\ Len(new) = N
      /\ \A k \in 1 .. N : new[k] = [type |-> pl.type.fields[k].type, at |-> pl.at + FieldAt(pl.type.fields, k)]
  BY <1>1, <1>4, FieldPlaces
<1>7. InOrder(all, view.type.size) /\ \A k \in 1 .. Len(all) : pl.at <= all[k].at
  <2> HIDE DEF new
  <2> QED BY <1>1, <1>2, <1>6, IntoKeepsOrder
<1>8. all \in Seq(Place) /\ Len(all) = N + (Len(parts) - 1) /\ new \in Seq(Place)
      /\ \A k \in 1 .. Len(all) : all[k] = IF k <= N THEN new[k] ELSE Tail(parts)[k - N]
  <2> HIDE DEF new
  <2>1. new \in Seq(Place)
    BY <1>6 DEF Inside
  <2>2. Tail(parts) \in Seq(Place) /\ Len(Tail(parts)) = Len(parts) - 1 /\ Len(new) = N
    BY <1>4, <1>6
  <2> HIDE DEF N
  <2>3. all \in Seq(Place) /\ Len(all) = N + (Len(parts) - 1)
        /\ \A k \in 1 .. N + (Len(parts) - 1) : all[k] = IF k <= N THEN new[k] ELSE Tail(parts)[k - N]
    <3>1. all \in Seq(Place) /\ Len(all) = Len(new) + Len(Tail(parts))
      BY <2>1, <2>2, ConcatProperties
    <3>2. \A k \in 1 .. Len(new) + Len(Tail(parts)) : all[k] = IF k <= Len(new) THEN new[k] ELSE Tail(parts)[k - Len(new)]
      BY <2>1, <2>2, ConcatProperties
    <3> QED BY <2>2, <3>1, <3>2
  <2> QED BY <2>1, <2>3
<1> HIDE DEF all, new, pl
<1>9. Setting'
  BY <1>1, <1>3 DEF Setting
<1>10. Walk(walk', view.type) /\ Last(walk') = x
  <2>1. x \in Stop /\ x.wrote = Last(walk).wrote /\ x.left = all
    BY <1>2, <1>8 DEF Stop
  <2>2. Last(walk).left = parts
    BY <1>2 DEF UnderWay
  <2>3. Goes(Last(walk), x)
    BY <1>1, <2>2 DEF Goes, all, new, pl
  <2>4. Begins(Last(walk).wrote, x.wrote)
    BY <1>2, <2>1 DEF Begins
  <2> HIDE DEF x
  <2> QED BY <1>2, <1>3, <2>1, <2>3, <2>4, WalkGoesOn
<1>11. Kept'
  <2>1. Last(walk').wrote = Last(walk).wrote
    BY <1>10
  <2> QED BY <1>2, <1>3, <1>10, <2>1 DEF Kept, InBuffer
<1>12. values' \in Seq(Datum) /\ Len(values') = Len(all)
       /\ \A k \in 1 .. Len(all) : <<all[k].type, values'[k]>> \in Data
  <2>1. values \in Seq(Datum) /\ Len(values) = Len(parts) /\ \A k \in 1 .. Len(parts) : <<parts[k].type, values[k]>> \in Data
    BY <1>2 DEF UnderWay
  <2>2. Tail(values) \in Seq(Datum) /\ Len(Tail(values)) = Len(parts) - 1 /\ Head(values) = values[1]
        /\ \A k \in 1 .. Len(parts) - 1 : Tail(values)[k] = values[k + 1]
    <3>1. values # <<>>
      BY <1>4, <2>1
    <3> QED BY <2>1, <3>1, FirstAndRest
  <2>3. \A k \in 1 .. N : <<pl.type.fields[k].type, news[k]>> \in Data /\ news[k] \in Datum
    <3>1. <<pl.type, Head(values)>> \in Data
      BY <1>4, <2>1, <2>2
    <3>2. \A k \in 1 .. N : <<pl.type.fields[k].type, news[k]>> \in Data
      BY <1>1, <1>5, <3>1, DatumTypes
    <3> HIDE DEF news
    <3> QED BY <3>2, DatumTypes
  <2>4. news \in Seq(Datum) /\ Len(news) = N
    <3>1. news \in [1 .. N -> Datum]
      BY <1>5, <2>3
    <3> HIDE DEF news, N
    <3> QED BY <1>5, <3>1, ASequence
  <2> HIDE DEF news, N
  <2>5. values' \in Seq(Datum) /\ Len(values') = N + (Len(parts) - 1)
        /\ \A k \in 1 .. N + (Len(parts) - 1) : values'[k] = IF k <= N THEN news[k] ELSE Tail(values)[k - N]
    <3> DEFINE rest == Tail(values)
    <3>1. rest \in Seq(Datum) /\ Len(rest) = Len(parts) - 1 /\ values' = news \o rest
      BY <1>3, <2>2
    <3> HIDE DEF rest
    <3>2. news \o rest \in Seq(Datum) /\ Len(news \o rest) = Len(news) + Len(rest)
      BY <2>4, <3>1, ConcatProperties
    <3>3. \A k \in 1 .. Len(news) + Len(rest) : (news \o rest)[k] = IF k <= Len(news) THEN news[k] ELSE rest[k - Len(news)]
      BY <2>4, <3>1, ConcatProperties
    <3>4. \A k \in 1 .. N + (Len(parts) - 1) : values'[k] = IF k <= N THEN news[k] ELSE rest[k - N]
      BY <2>4, <3>1, <3>3
    <3>5. values' \in Seq(Datum) /\ Len(values') = N + (Len(parts) - 1)
      BY <2>4, <3>1, <3>2
    <3> QED BY <3>4, <3>5 DEF rest
  <2>6. ASSUME NEW k \in 1 .. Len(all) PROVE <<all[k].type, values'[k]>> \in Data
    <3>1. CASE k <= N
      <4>1. k \in 1 .. N /\ all[k] = new[k] /\ values'[k] = news[k]
        BY <1>5, <1>8, <2>5, <3>1
      <4>2. all[k].type = pl.type.fields[k].type
        <5>1. new[k] = [type |-> pl.type.fields[k].type, at |-> pl.at + FieldAt(pl.type.fields, k)]
          BY <1>6, <4>1
        <5> QED BY <4>1, <5>1
      <4> QED BY <2>3, <4>1, <4>2
    <3>2. CASE k > N
      <4>1. k - N \in 1 .. Len(parts) - 1 /\ (k - N) + 1 \in 1 .. Len(parts)
        BY <1>4, <1>5, <1>8, <3>2
      <4>2. all[k] = parts[(k - N) + 1] /\ values'[k] = values[(k - N) + 1]
        BY <1>4, <1>5, <1>8, <2>2, <2>5, <3>2, <4>1
      <4> QED BY <2>1, <4>1, <4>2
    <3> QED BY <1>5, <3>1, <3>2
  <2> QED BY <1>8, <2>5, <2>6
<1>13. \A j \in 1 .. Len(x.wrote), k \in 1 .. Len(all) : EndOfNumber(x.wrote[j]) <= all[k].at
  <2> SUFFICES ASSUME NEW j \in 1 .. Len(Last(walk).wrote), NEW k \in 1 .. Len(all) PROVE EndOfNumber(Last(walk).wrote[j]) <= all[k].at
    OBVIOUS
  <2>1. EndOfNumber(Last(walk).wrote[j]) <= pl.at
    <3>1. 1 \in 1 .. Len(parts)
      BY <1>4
    <3> QED BY <1>2, <1>4, <3>1 DEF UnderWay
  <2>2. pl.at <= all[k].at /\ pl.at \in Nat /\ all[k].at \in Nat
    <3>1. all[k] \in Place
      BY <1>8, ElementOfSeq
    <3> QED BY <1>4, <1>7, <3>1, PlaceTypes
  <2>3. EndOfNumber(Last(walk).wrote[j]) \in Nat
    <3>1. Last(walk).wrote[j] \in Number
      BY <1>2, ElementOfSeq
    <3>2. \A n \in Number : n.at \in Nat /\ n.name \in DOMAIN Bytes
      BY DEF Number, Names
    <3> QED BY <3>1, <3>2, NameTypes DEF EndOfNumber
  <2> QED BY <2>1, <2>2, <2>3
<1>14. UnderWay'
  <2>1. setting' = [ptr |-> view'.ptr, type |-> view'.type] /\ x.left = all
    BY <1>2, <1>3 DEF UnderWay
  <2> HIDE DEF x
  <2> QED BY <1>3, <1>10, <1>12, <1>13, <2>1 DEF UnderWay
<1>15. ViewInv'
  BY <1>2, <1>3, <1>7, <1>9 DEF ViewInv, InBuffer
<1>16. bytes' \in [0 .. BufferSize - 1 -> 0 .. Base - 1]
  BY <1>3 DEF MemoryInv
<1> QED BY <1>9, <1>11, <1>14, <1>15, <1>16 DEF MemoryInv

LEMMA DigitTypes ==
  ASSUME NEW v \in Int PROVE \A k \in 1 .. 4 : Digits(v)[k] \in 0 .. Base - 1
<1> DEFINE q == v \div Base
           r == q \div Base
           s == r \div Base
<1>1. q \in Int /\ r \in Int /\ s \in Int
  BY BaseTypes
<1>2. Digits(v) = <<v % Base, q % Base, r % Base, s % Base>>
  BY DEF Digits
<1> HIDE DEF q, r, s
<1>3. v % Base \in 0 .. Base - 1 /\ q % Base \in 0 .. Base - 1 /\ r % Base \in 0 .. Base - 1 /\ s % Base \in 0 .. Base - 1
  BY <1>1, BaseTypes, ModTwice
<1> QED BY <1>2, <1>3

LEMMA NumberTypes ==
  ASSUME NEW name \in DOMAIN Bytes, NEW v \in Int
  PROVE  ToType(name, v) \in Int
<1> DEFINE range == CASE Bytes[name] = 1 -> Base [] Bytes[name] = 2 -> Base * Base [] OTHER -> Base * (Base * (Base * Base))
<1>1. range \in Nat /\ range > 0
  BY BaseTypes
<1> HIDE DEF range
<1>2. v % range \in Int
  BY <1>1
<1>3. ToType(name, v) = IF IsSigned(name) /\ v % range >= range \div 2 THEN (v % range) - range ELSE v % range
  BY DEF ToType, range
<1> QED BY <1>1, <1>2, <1>3

(* What writing a number makes of the memory. *)
Put(m, name, v, here) == [a \in DOMAIN m |-> IF a - here \in 0 .. Bytes[name] - 1 THEN Digits(v)[a - here + 1] ELSE m[a]]

LEMMA NumberWritten ==
  ASSUME NEW m \in [0 .. BufferSize - 1 -> 0 .. Base - 1], NEW name \in Names, NEW v \in Int,
         NEW here \in Nat, here + Bytes[name] <= BufferSize
  PROVE  /\ Put(m, name, v, here) \in [0 .. BufferSize - 1 -> 0 .. Base - 1]
         /\ NumberIn(Put(m, name, v, here), name, here) = ToType(name, v)
         /\ \A a \in Nat : a < here => Put(m, name, v, here)[a] = m[a]
<1> DEFINE n == Put(m, name, v, here)
<1>0. n = [a \in DOMAIN m |-> IF a - here \in 0 .. Bytes[name] - 1 THEN Digits(v)[a - here + 1] ELSE m[a]]
  BY DEF Put
<1> HIDE DEF n
<1>1. name \in DOMAIN Bytes /\ HasAccessors(name) /\ Bytes[name] \in {1, 2, 4}
  BY NameTypes DEF Names
<1>2. BufferSize \in Nat /\ DOMAIN m = 0 .. BufferSize - 1
  BY LayoutAssumption DEF LayoutAssumption
<1>3. n \in [0 .. BufferSize - 1 -> 0 .. Base - 1]
  <2>1. ASSUME NEW a \in 0 .. BufferSize - 1
        PROVE  (IF a - here \in 0 .. Bytes[name] - 1 THEN Digits(v)[a - here + 1] ELSE m[a]) \in 0 .. Base - 1
    <3>1. CASE a - here \in 0 .. Bytes[name] - 1
      <4>1. a - here + 1 \in 1 .. 4
        BY <1>1, <3>1
      <4>2. Digits(v)[a - here + 1] \in 0 .. Base - 1
        BY <4>1, DigitTypes
      <4> QED BY <3>1, <4>2
    <3>2. CASE a - here \notin 0 .. Bytes[name] - 1
      BY <3>2
    <3> QED BY <3>1, <3>2
  <2> QED BY <1>0, <1>2, <2>1
<1>4. \A k \in 0 .. Bytes[name] - 1 : n[here + k] = Digits(v)[k + 1]
  <2> SUFFICES ASSUME NEW k \in 0 .. Bytes[name] - 1 PROVE n[here + k] = Digits(v)[k + 1]
    OBVIOUS
  <2>1. here + k \in 0 .. BufferSize - 1 /\ (here + k) - here = k
    BY <1>1, <1>2
  <2> QED BY <1>0, <1>2, <2>1
<1>5. NumberIn(n, name, here) = ToType(name, v)
  BY <1>1, <1>4, BytesMakeNumber
<1>6. ASSUME NEW a \in Nat, a < here PROVE n[a] = m[a]
  <2>1. a \in DOMAIN m /\ ~(a - here \in 0 .. Bytes[name] - 1)
    BY <1>1, <1>2, <1>6
  <2> QED BY <1>0, <2>1
<1> QED BY <1>3, <1>5, <1>6 DEF n

(* A number that ends where another one begins, or before. *)
LEMMA NumberBefore ==
  ASSUME NEW ptr \in Nat, NEW at \in Nat, NEW n \in Nat, NEW next \in Nat, at + n <= next
  PROVE  ptr + at \in Nat /\ \A k \in 0 .. n - 1 : (ptr + at) + k \in Nat /\ (ptr + at) + k < ptr + next
OBVIOUS

LEMMA NumberSet ==
  ASSUME MemoryInv, SetNumber
  PROVE  MemoryInv' /\ \A a \in DOMAIN bytes : bytes'[a] # bytes[a] => a - view.ptr \in 0 .. view.type.size - 1
<1> DEFINE pl == Head(parts)
           name == pl.type.name
           v == Head(values).num
           new == [name |-> name, at |-> pl.at, num |-> ToType(name, v)]
           wrote == Last(walk).wrote
           x == [left |-> Tail(parts), wrote |-> Append(wrote, new)]
           M == Len(wrote)
<1>1. Setting /\ parts # <<>> /\ pl.type.kind = "num" /\ HasAccessors(name)
  BY DEF SetNumber, At, Setting
<1>2. /\ Kept /\ UnderWay /\ setting.ptr = view.ptr /\ setting.type = view.type
      /\ view.ptr \in Nat /\ view.type \in Types /\ view.type.size \in Nat /\ InBuffer(view.ptr, view.type)
      /\ InOrder(parts, view.type.size) /\ parts \in Seq(Place) /\ Walk(walk, view.type)
      /\ Last(walk) \in Stop /\ wrote \in Seq(Number) /\ M \in Nat
      /\ wrote = Written
  BY <1>1, SetKnows
<1>3. /\ parts' = Tail(parts) /\ values' = Tail(values) /\ walk' = Append(walk, x)
      /\ UNCHANGED <<view, found, outcome, setting>>
      /\ bytes' = [a \in DOMAIN bytes |-> IF a - Here \in 0 .. Bytes[name] - 1 THEN Digits(v)[a - Here + 1] ELSE bytes[a]]
  BY <1>2 DEF SetNumber, Walked
<1>4. /\ pl \in Place /\ pl = parts[1] /\ Len(parts) \in Nat /\ Len(parts) >= 1 /\ Len(Tail(parts)) = Len(parts) - 1
      /\ \A k \in 1 .. Len(parts) - 1 : Tail(parts)[k] = parts[k + 1]
  BY <1>1, <1>2, FirstAndRest
<1>5. /\ InOrder(Tail(parts), view.type.size) /\ EndOf(pl) <= view.type.size
      /\ \A k \in 1 .. Len(Tail(parts)) : EndOf(pl) <= Tail(parts)[k].at
  BY <1>1, <1>2, RestInOrder
<1>6. pl.type \in Types /\ pl.at \in Nat /\ name \in Names /\ pl.type.size = Bytes[name] /\ EndOf(pl) = pl.at + Bytes[name]
      /\ Bytes[name] \in {1, 2, 4}
  <2>1. pl.type \in Types /\ pl.at \in Nat
    BY <1>4, PlaceTypes
  <2>2. name \in DOMAIN Bytes /\ pl.type.size = Bytes[name]
    BY <1>1, <2>1, TypeTypes
  <2> QED BY <1>1, <2>1, <2>2, NameTypes DEF Names, EndOf
<1>7. values \in Seq(Datum) /\ Len(values) = Len(parts) /\ \A k \in 1 .. Len(parts) : <<parts[k].type, values[k]>> \in Data
  BY <1>2 DEF UnderWay
<1>8. Tail(values) \in Seq(Datum) /\ Len(Tail(values)) = Len(parts) - 1 /\ Head(values) = values[1]
      /\ \A k \in 1 .. Len(parts) - 1 : Tail(values)[k] = values[k + 1]
  <2>1. values # <<>>
    BY <1>4, <1>7
  <2> QED BY <1>7, <2>1, FirstAndRest
<1>9. v \in Int
  <2>1. <<pl.type, Head(values)>> \in Data
    BY <1>4, <1>7, <1>8
  <2> QED BY <1>1, <2>1, DatumTypes
<1>10. new \in Number /\ EndOfNumber(new) = EndOf(pl)
  <2>1. ToType(name, v) \in Int
    BY <1>6, <1>9, NumberTypes DEF Names
  <2> QED BY <1>6, <2>1 DEF Number, EndOfNumber
<1>11. /\ Here = view.ptr + pl.at /\ Here \in Nat /\ Here + Bytes[name] <= BufferSize
       /\ \A a \in Int : a - Here \in 0 .. Bytes[name] - 1 => a - view.ptr \in 0 .. view.type.size - 1
  <2>1. BufferSize \in Nat /\ view.ptr + view.type.size <= BufferSize
    BY <1>2, LayoutAssumption DEF LayoutAssumption, InBuffer
  <2>2. pl.at + Bytes[name] <= view.type.size /\ Bytes[name] \in Nat
    BY <1>5, <1>6
  <2>3. Here = view.ptr + pl.at
    BY DEF Here
  <2>4. view.ptr \in Nat /\ pl.at \in Nat /\ view.type.size \in Nat
    BY <1>2, <1>6
  <2> DEFINE width == Bytes[name]
             at == pl.at
             ptr == view.ptr
             size == view.type.size
  <2>5. at + width <= size /\ ptr + size <= BufferSize /\ ptr \in Nat /\ at \in Nat /\ width \in Nat /\ size \in Nat /\ BufferSize \in Nat /\ Here = ptr + at
    BY <2>1, <2>2, <2>3, <2>4
  <2>6. Here = ptr + at /\ Here \in Nat /\ Here + width <= BufferSize /\ \A a \in Int : a - Here \in 0 .. width - 1 => a - ptr \in 0 .. size - 1
    <3> HIDE DEF width, at, ptr, size
    <3> QED BY <2>5
  <2> QED BY <2>6
<1>12. bytes \in [0 .. BufferSize - 1 -> 0 .. Base - 1]
  BY DEF MemoryInv
<1>13. PICK h \in Nat : h = Here
  BY <1>11
<1> HIDE DEF pl, v, new, wrote, M
<1>14. /\ bytes' \in [0 .. BufferSize - 1 -> 0 .. Base - 1]
       /\ NumberIn(bytes', name, h) = ToType(name, v)
       /\ \A a \in Nat : a < h => bytes'[a] = bytes[a]
  <2> HIDE DEF name
  <2>1. h + Bytes[name] <= BufferSize
    BY <1>11, <1>13
  <2>2. bytes' = Put(bytes, name, v, h)
    BY <1>3, <1>13 DEF Put
  <2>4. name \in Names
    BY <1>6
  <2>3. /\ Put(bytes, name, v, h) \in [0 .. BufferSize - 1 -> 0 .. Base - 1]
        /\ NumberIn(Put(bytes, name, v, h), name, h) = ToType(name, v)
        /\ \A a \in Nat : a < h => Put(bytes, name, v, h)[a] = bytes[a]
    BY <1>9, <1>12, <2>1, <2>4, NumberWritten, Zenon
  <2> QED BY <2>2, <2>3
<1> HIDE DEF name
<1>15. ASSUME NEW a \in DOMAIN bytes, bytes'[a] # bytes[a] PROVE a - view.ptr \in 0 .. view.type.size - 1
  <2>1. a \in Int /\ a - Here \in 0 .. Bytes[name] - 1
    BY <1>3, <1>12, <1>15
  <2> QED BY <1>11, <2>1
<1>17. Append(wrote, new) \in Seq(Number) /\ Len(Append(wrote, new)) = M + 1 /\ Append(wrote, new)[M + 1] = new
       /\ \A j \in 1 .. M : Append(wrote, new)[j] = wrote[j]
  BY <1>2, <1>10, AppendProperties DEF M
<1>18. Walk(walk', view.type) /\ Last(walk') = x
  <2>1. x \in Stop /\ x.wrote = Append(wrote, new) /\ x.left = Tail(parts)
    BY <1>5, <1>17 DEF Stop, InOrder
  <2>2. Last(walk).left = parts
    BY <1>2 DEF UnderWay
  <2>3. Goes(Last(walk), x)
    <3>1. ToType(name, v) \in Int
      BY <1>6, <1>9, NumberTypes DEF Names
    <3> QED BY <1>1, <2>2, <3>1 DEF Goes, new, wrote, pl, name
  <2>4. Begins(Last(walk).wrote, x.wrote)
    BY <1>2, <1>17, <2>1 DEF Begins, wrote, M
  <2> HIDE DEF x
  <2> QED BY <1>2, <1>3, <2>1, <2>3, <2>4, WalkGoesOn
<1>19. /\ \A j \in 1 .. M : wrote[j] \in Number /\ EndOfNumber(wrote[j]) \in Nat /\ wrote[j].at \in Nat
                             /\ wrote[j].name \in Names /\ EndOfNumber(wrote[j]) = wrote[j].at + Bytes[wrote[j].name]
       /\ \A j \in 1 .. M : EndOfNumber(wrote[j]) <= pl.at
  <2>1. \A j \in 1 .. M : wrote[j] \in Number
    BY <1>2, ElementOfSeq DEF M
  <2>2. \A n \in Number : n.at \in Nat /\ n.name \in Names /\ n.name \in DOMAIN Bytes
    BY DEF Number, Names
  <2>3. \A n \in Number : EndOfNumber(n) \in Nat
    BY <2>2, NameTypes DEF EndOfNumber
  <2>4. 1 \in 1 .. Len(parts)
    BY <1>4
  <2> QED BY <1>2, <1>4, <2>1, <2>2, <2>3, <2>4 DEF UnderWay, EndOfNumber, wrote, M
<1>20. Stored(bytes', view.ptr, view.type, Append(wrote, new))
  <2> SUFFICES ASSUME NEW j \in 1 .. M + 1
               PROVE  /\ EndOfNumber(Append(wrote, new)[j]) <= view.type.size
                      /\ NumberIn(bytes', Append(wrote, new)[j].name, view.ptr + Append(wrote, new)[j].at) = Append(wrote, new)[j].num
    BY <1>17 DEF Stored
  <2>1. CASE j = M + 1
    <3>1. new.name = name /\ new.at = pl.at /\ new.num = ToType(name, v)
      BY DEF new
    <3> QED BY <1>5, <1>10, <1>11, <1>13, <1>14, <1>17, <2>1, <3>1
  <2>2. CASE j # M + 1
    <3>1. j \in 1 .. M /\ Append(wrote, new)[j] = wrote[j]
      BY <1>2, <1>17, <2>2 DEF M
    <3>2. EndOfNumber(wrote[j]) <= view.type.size /\ NumberIn(bytes, wrote[j].name, view.ptr + wrote[j].at) = wrote[j].num
      BY <1>2, <3>1 DEF Kept, Stored, wrote, M
    <3> DEFINE b == view.ptr + wrote[j].at
    <3>3. b \in Nat /\ \A k \in 0 .. Bytes[wrote[j].name] - 1 : b + k \in Nat /\ b + k < h
      <4>1. wrote[j].at \in Nat /\ wrote[j].name \in Names /\ wrote[j].at + Bytes[wrote[j].name] <= pl.at
        BY <1>19, <3>1
      <4>2. Bytes[wrote[j].name] \in Nat
        BY <4>1, NameTypes DEF Names
      <4>3. view.ptr \in Nat /\ pl.at \in Nat /\ h = view.ptr + pl.at
        BY <1>2, <1>6, <1>11, <1>13
      <4> QED BY <4>1, <4>2, <4>3, NumberBefore
    <3>4. \A k \in 0 .. Bytes[wrote[j].name] - 1 : bytes'[b + k] = bytes[b + k]
      BY <1>14, <3>3
    <3>5. wrote[j].name \in DOMAIN Bytes /\ HasAccessors(wrote[j].name)
      BY <1>19, <3>1 DEF Names
    <3> HIDE DEF b
    <3>6. NumberIn(bytes', wrote[j].name, b) = NumberIn(bytes, wrote[j].name, b)
      BY <3>3, <3>4, <3>5, OtherBytes
    <3> QED BY <3>1, <3>2, <3>6 DEF b
  <2> QED BY <2>1, <2>2
<1>21. Setting'
  BY <1>1, <1>3 DEF Setting
<1>22. x.wrote = Append(wrote, new) /\ x.left = Tail(parts)
  OBVIOUS
<1> HIDE DEF x
<1>23. Kept'
  BY <1>2, <1>3, <1>18, <1>20, <1>22 DEF Kept, InBuffer
<1>24. ASSUME NEW k \in 1 .. Len(Tail(parts)), NEW j \in 1 .. M + 1
       PROVE  EndOfNumber(Append(wrote, new)[j]) <= Tail(parts)[k].at
  <2>1. EndOf(pl) <= Tail(parts)[k].at /\ Tail(parts)[k].at \in Nat
    <3>1. Tail(parts)[k] \in Place
      BY <1>5, ElementOfSeq DEF InOrder
    <3> QED BY <1>5, <3>1, PlaceTypes
  <2>2. CASE j = M + 1
    BY <1>10, <1>17, <2>1, <2>2
  <2>3. CASE j # M + 1
    <3>1. j \in 1 .. M
      BY <1>2, <2>3
    <3> QED BY <1>6, <1>17, <1>19, <2>1, <3>1
  <2> QED BY <2>2, <2>3
<1>25. \A k \in 1 .. Len(Tail(parts)) : <<Tail(parts)[k].type, Tail(values)[k]>> \in Data
  <2>1. \A k \in 1 .. Len(parts) - 1 : k + 1 \in 1 .. Len(parts)
    BY <1>4
  <2> QED BY <1>4, <1>7, <1>8, <2>1
<1>26. UnderWay'
  <2>1. setting' = [ptr |-> view'.ptr, type |-> view'.type]
    BY <1>2, <1>3 DEF UnderWay
  <2> QED BY <1>3, <1>4, <1>8, <1>17, <1>18, <1>22, <1>24, <1>25, <2>1 DEF UnderWay
<1>27. ViewInv'
  BY <1>2, <1>3, <1>5, <1>21 DEF ViewInv, InBuffer
<1>28. MemoryInv'
  BY <1>14, <1>21, <1>23, <1>26, <1>27 DEF MemoryInv
<1> QED BY <1>15, <1>28

(* A step that leaves the memory and the set before it alone. *)
LEMMA MemorySame ==
  ASSUME MemoryInv, UNCHANGED <<bytes, setting, walk>>, ~Setting', ViewInv',
         setting # NoSetting /\ Setting => parts = <<>>
  PROVE  MemoryInv'
<1>1. setting # NoSetting => Last(walk).left = <<>>
  BY DEF MemoryInv, UnderWay
<1>2. Kept' <=> Kept
  BY DEF Kept, InBuffer
<1> QED BY <1>1, <1>2 DEF MemoryInv

LEMMA SetStops == ASSUME MemoryInv, SetFails \/ SetEnd PROVE MemoryInv'
<1>1. view' = NoView /\ parts' = <<>> /\ values' = <<>> /\ found' = <<>>
  BY DEF SetFails, SetEnd, Ended
<1>2. ~Setting' /\ ViewInv' /\ bytes' = bytes
  BY <1>1 DEF Setting, ViewInv, SetFails, SetEnd
<1>3. CASE SetFails
  <2>1. setting' = NoSetting
    BY <1>3 DEF SetFails
  <2> QED BY <1>2, <2>1 DEF MemoryInv
<1>4. CASE SetEnd
  BY <1>2, <1>4, MemorySame DEF SetEnd
<1> QED BY <1>3, <1>4

LEMMA TakeKeeps == ASSUME MemoryInv, Take PROVE MemoryInv'
BY DEF Take, MemoryInv, ViewInv, Setting, Getting, Kept, UnderWay, InBuffer

(* What a get that is under way knows of its parts. *)
LEMMA GetKnows ==
  ASSUME MemoryInv, Getting
  PROVE  /\ view.ptr \in Nat /\ view.type \in Types /\ view.type.size \in Nat /\ InBuffer(view.ptr, view.type)
         /\ InOrder(parts, view.type.size) /\ parts \in Seq(Place) /\ ~Setting
BY TypeTypes DEF MemoryInv, ViewInv, Getting, Setting, InOrder

LEMMA GetKeepsMemory ==
  ASSUME MemoryInv, (\E ptr \in Nat, type \in Types : getDt(ptr, type)) \/ GetInto \/ GetLeaf \/ GetEnd
  PROVE  MemoryInv'
<1>1. CASE \E ptr \in Nat, type \in Types : getDt(ptr, type)
  <2>1. PICK ptr \in Nat, type \in Types : getDt(ptr, type)
    BY <1>1
  <2>2. view = NoView /\ UNCHANGED <<bytes, values, found, setting, walk>>
    BY <2>1 DEF getDt, Ready
  <2>3. CASE InBuffer(ptr, type)
    <3>1. view' = [for |-> "get", ptr |-> ptr, type |-> type] /\ parts' = <<[type |-> type, at |-> 0]>>
      BY <2>1, <2>3 DEF getDt
    <3>2. Getting' /\ ~Setting' /\ view'.ptr = ptr /\ view'.type = type
      BY <3>1, AView DEF Getting, Setting
    <3>3. ViewInv'
      BY <2>3, <3>1, <3>2, WholeValue DEF ViewInv, InBuffer
    <3> QED BY <2>2, <3>2, <3>3, MemorySame DEF Setting
  <2>4. CASE ~InBuffer(ptr, type)
    <3>1. UNCHANGED <<view, parts>>
      BY <2>1, <2>4 DEF getDt
    <3> QED BY <2>2, <3>1, MemorySame DEF MemoryInv, ViewInv, Setting, Getting
  <2> QED BY <2>3, <2>4
<1>2. CASE GetInto
  <2> DEFINE pl == Head(parts)
  <2>1. Getting /\ parts # <<>> /\ pl.type.kind \in {"struct", "array"}
    BY <1>2 DEF GetInto, At, Getting
  <2>2. UNCHANGED <<bytes, view, values, found, outcome, setting, walk>>
    BY <1>2 DEF GetInto
  <2>3. pl \in Place
    BY <2>1, GetKnows, RestInOrder
  <2>4. PICK new : Inside(new, pl) /\ parts' = new \o Tail(parts)
    <3>1. CASE pl.type.kind = "struct"
      <4>1. parts' = FieldsAt(pl.type, pl.at) \o Tail(parts)
        BY <1>2, <3>1 DEF GetInto, At
      <4> QED BY <2>3, <3>1, <4>1, FieldPlaces
    <3>2. CASE pl.type.kind = "array"
      <4>1. parts' = ElementsAt(pl.type, pl.at) \o Tail(parts)
        BY <1>2, <3>2 DEF GetInto, At
      <4> QED BY <2>3, <3>2, <4>1, ElementPlaces
    <3> QED BY <2>1, <3>1, <3>2
  <2>5. InOrder(parts', view.type.size)
    BY <2>1, <2>4, GetKnows, IntoKeepsOrder
  <2>6. Getting' /\ ~Setting'
    BY <2>1, <2>2 DEF Getting, Setting
  <2>7. ViewInv'
    BY <2>1, <2>2, <2>5, <2>6, GetKnows DEF ViewInv, InBuffer
  <2> QED BY <2>1, <2>2, <2>6, <2>7, GetKnows, MemorySame
<1>3. CASE GetLeaf
  <2>1. Getting /\ parts # <<>> /\ UNCHANGED <<bytes, setting, walk>>
    BY <1>3 DEF GetLeaf, At, Getting
  <2>2. \/ view' = NoView /\ parts' = <<>> /\ values' = <<>> /\ found' = <<>>
        \/ view' = view /\ parts' = Tail(parts)
    BY <1>3 DEF GetLeaf, Found, Ended
  <2>3. InOrder(Tail(parts), view.type.size)
    BY <2>1, GetKnows, RestInOrder
  <2>4. ~Setting' /\ ViewInv'
    BY <2>1, <2>2, <2>3, GetKnows DEF ViewInv, Setting, Getting, InBuffer
  <2> QED BY <2>1, <2>4, GetKnows, MemorySame
<1>4. CASE GetEnd
  <2>1. Getting /\ UNCHANGED <<bytes, setting, walk>> /\ view' = NoView /\ parts' = <<>> /\ values' = <<>> /\ found' = <<>>
    BY <1>4 DEF GetEnd, Ended, Getting
  <2> QED BY <2>1, GetKnows, MemorySame DEF ViewInv, Setting
<1> QED BY <1>1, <1>2, <1>3, <1>4
---------------------------------------------------------------------------
(* The walk of a get goes where the walk of the set before it went. *)
AsFound(wrote) == [k \in 1 .. Len(wrote) |-> [num |-> wrote[k].num]]
Along == \E i \in 1 .. Len(walk) : parts = walk[i].left /\ found = AsFound(walk[i].wrote)

(* What a finished set has left behind. *)
LEMMA SetDone ==
  ASSUME MemoryInv, setting # NoSetting, ~Setting
  PROVE  /\ Walk(walk, setting.type) /\ Last(walk).left = <<>>
         /\ Stored(bytes, setting.ptr, setting.type, Written)
         /\ Last(walk).wrote = Written /\ Written \in Seq(Number) /\ Len(Written) \in Nat /\ DOMAIN Written = 1 .. Len(Written)
         /\ setting.ptr \in Nat /\ setting.type \in Types /\ InBuffer(setting.ptr, setting.type)
         /\ Len(walk) \in Nat
<1>1. Kept /\ Last(walk).left = <<>>
  BY DEF MemoryInv
<1>2. Last(walk).wrote = Written
  BY DEF Last, Written
<1>3. Walk(walk, setting.type) /\ Stored(bytes, setting.ptr, setting.type, Last(walk).wrote)
      /\ setting.ptr \in Nat /\ setting.type \in Types /\ InBuffer(setting.ptr, setting.type)
  BY <1>1 DEF Kept
<1>4. Last(walk).wrote \in Seq(Number) /\ Len(walk) \in Nat
  BY <1>3, StopTypes
<1> QED BY <1>1, <1>2, <1>3, <1>4, LenProperties

LEMMA NextStop ==
  ASSUME MemoryInv, setting # NoSetting, ~Setting, NEW i \in 1 .. Len(walk), walk[i].left # <<>>
  PROVE  i + 1 \in 1 .. Len(walk) /\ Goes(walk[i], walk[i + 1])
<1>1. Len(walk) \in Nat /\ Last(walk).left = <<>> /\ Walk(walk, setting.type)
  BY SetDone
<1>2. i # Len(walk)
  BY <1>1 DEF Last
<1>3. i \in 1 .. Len(walk) - 1 /\ i + 1 \in 1 .. Len(walk)
  BY <1>1, <1>2
<1> QED BY <1>1, <1>3 DEF Walk

LEMMA NothingLeft ==
  ASSUME MemoryInv, setting # NoSetting, ~Setting, NEW i \in 1 .. Len(walk), walk[i].left = <<>>
  PROVE  walk[i].wrote = Written
<1>1. Len(walk) \in Nat /\ Walk(walk, setting.type) /\ Last(walk).wrote = Written
  BY SetDone
<1>2. i = Len(walk)
  <2> SUFFICES ASSUME i # Len(walk) PROVE FALSE
    OBVIOUS
  <2>1. i \in 1 .. Len(walk) - 1
    BY <1>1
  <2> QED BY <1>1, <2>1 DEF Walk, Goes
<1> QED BY <1>1, <1>2 DEF Last

(* A number the set has written is the number a get reads at its place. *)
LEMMA NumberThere ==
  ASSUME MemoryInv, setting # NoSetting, ~Setting, NEW j \in 1 .. Len(Written)
  PROVE  /\ Written[j] \in Number /\ Written[j].name \in Names /\ Written[j].at \in Nat /\ Written[j].num \in Int
         /\ NumberAt(Written[j].name, setting.ptr + Written[j].at) = Written[j].num
<1>1. Written \in Seq(Number) /\ Stored(bytes, setting.ptr, setting.type, Written)
  BY SetDone
<1>2. Written[j] \in Number
  BY <1>1, ElementOfSeq
<1>3. \A n \in Number : n.name \in Names /\ n.at \in Nat /\ n.num \in Int
  BY DEF Number
<1>4. NumberIn(bytes, Written[j].name, setting.ptr + Written[j].at) = Written[j].num
  BY <1>1 DEF Stored
<1> QED BY <1>2, <1>3, <1>4 DEF NumberIn, NumberAt

LEMMA NothingFound == ASSUME NEW w, w = <<>> PROVE AsFound(w) = <<>>
<1>1. Len(w) = 0
  OBVIOUS
<1>2. AsFound(w) = [k \in 1 .. 0 |-> [num |-> w[k].num]]
  BY <1>1 DEF AsFound
<1> DEFINE e == [k \in 1 .. 0 |-> [num |-> w[k].num]]
<1>3. e \in [1 .. 0 -> {}]
  OBVIOUS
<1> HIDE DEF e
<1>4. e \in Seq({}) /\ Len(e) = 0
  BY <1>3, ASequence
<1>5. e = <<>>
  BY <1>4, EmptySeq
<1> QED BY <1>2, <1>5 DEF e

LEMMA OneMoreFound ==
  ASSUME NEW w \in Seq(Number), NEW n \in Number
  PROVE  AsFound(Append(w, n)) = Append(AsFound(w), [num |-> n.num])
<1> DEFINE M == Len(w)
           v == Append(w, n)
           f == AsFound(w)
           S == [num : Int]
           one == [num |-> n.num]
<1>1. M \in Nat /\ v \in Seq(Number) /\ Len(v) = M + 1 /\ v[M + 1] = n /\ \A j \in 1 .. M : v[j] = w[j]
  BY LenProperties, AppendProperties
<1>2. \A k \in 1 .. M : w[k] \in Number
  BY ElementOfSeq
<1>3. \A x \in Number : x.num \in Int
  BY DEF Number
<1>4. one \in S /\ \A k \in 1 .. M : [num |-> w[k].num] \in S
  BY <1>2, <1>3
<1>5. f = [k \in 1 .. M |-> [num |-> w[k].num]]
  BY DEF AsFound
<1> HIDE DEF f, S, one, v, M
<1>6. f \in [1 .. M -> S]
  BY <1>4, <1>5
<1>7. f \in Seq(S) /\ Len(f) = M
  BY <1>1, <1>6, ASequence
<1>8. Append(f, one) \in Seq(S) /\ Len(Append(f, one)) = M + 1 /\ Append(f, one)[M + 1] = one
      /\ \A j \in 1 .. M : Append(f, one)[j] = f[j]
  BY <1>4, <1>7, AppendProperties
<1>9. Append(f, one) = [k \in 1 .. M + 1 |-> Append(f, one)[k]]
  BY <1>8, LenProperties
<1>10. AsFound(v) = [k \in 1 .. M + 1 |-> [num |-> v[k].num]]
  BY <1>1 DEF AsFound
<1>11. \A k \in 1 .. M + 1 : Append(f, one)[k] = [num |-> v[k].num]
  <2> SUFFICES ASSUME NEW k \in 1 .. M + 1 PROVE Append(f, one)[k] = [num |-> v[k].num]
    OBVIOUS
  <2>1. CASE k = M + 1
    BY <1>1, <1>8, <2>1 DEF one
  <2>2. CASE k # M + 1
    <3>1. k \in 1 .. M
      BY <1>1, <2>2
    <3>2. f[k] = [num |-> w[k].num]
      BY <1>5, <3>1
    <3> QED BY <1>1, <1>8, <3>1, <3>2
  <2> QED BY <2>1, <2>2
<1>12. [k \in 1 .. M + 1 |-> Append(f, one)[k]] = [k \in 1 .. M + 1 |-> [num |-> v[k].num]]
  BY <1>11
<1> QED BY <1>9, <1>10, <1>12 DEF f, v, one

Reading == Getting /\ setting # NoSetting /\ view.ptr = setting.ptr

LEMMA AlongWalks ==
  ASSUME MemoryInv, Reading, Along, parts # <<>>
  PROVE  \E i \in 1 .. Len(walk) :
           /\ i + 1 \in 1 .. Len(walk) /\ parts = walk[i].left /\ found = AsFound(walk[i].wrote)
           /\ Goes(walk[i], walk[i + 1])
<1>1. PICK i \in 1 .. Len(walk) : parts = walk[i].left /\ found = AsFound(walk[i].wrote)
  BY DEF Along
<1>2. ~Setting /\ setting # NoSetting
  BY GetKnows DEF Reading
<1>3. i + 1 \in 1 .. Len(walk) /\ Goes(walk[i], walk[i + 1])
  BY <1>1, <1>2, NextStop
<1> QED BY <1>1, <1>3

LEMMA IntoAlong == ASSUME MemoryInv, Reading, Along, GetInto PROVE Along'
<1>1. parts # <<>> /\ UNCHANGED <<walk, found>>
  BY DEF GetInto, At
<1>2. PICK i \in 1 .. Len(walk) : /\ i + 1 \in 1 .. Len(walk) /\ parts = walk[i].left /\ found = AsFound(walk[i].wrote)
                                 /\ Goes(walk[i], walk[i + 1])
  BY <1>1, AlongWalks
<1>3. Head(parts).type.kind = "struct"
      /\ walk[i + 1] = [left |-> FieldsAt(Head(parts).type, Head(parts).at) \o Tail(parts), wrote |-> walk[i].wrote]
  <2>1. Head(parts).type.kind # "num"
    BY DEF GetInto, At
  <2>2. Head(walk[i].left) = Head(parts) /\ Tail(walk[i].left) = Tail(parts)
    BY <1>2
  <2> QED BY <1>2, <2>1, <2>2, Zenon DEF Goes
<1>4. parts' = FieldsAt(Head(parts).type, Head(parts).at) \o Tail(parts)
  BY <1>3 DEF GetInto, At
<1>5. walk[i + 1].left = parts' /\ walk[i + 1].wrote = walk[i].wrote
  <2> DEFINE into == FieldsAt(Head(parts).type, Head(parts).at) \o Tail(parts)
             w == walk[i].wrote
  <2>1. walk[i + 1] = [left |-> into, wrote |-> w] /\ parts' = into
    BY <1>3, <1>4
  <2> HIDE DEF into, w
  <2>2. walk[i + 1].left = into /\ walk[i + 1].wrote = w
    BY <2>1
  <2> QED BY <2>1, <2>2 DEF w
<1> QED BY <1>1, <1>2, <1>5 DEF Along

LEMMA LeafAlong == ASSUME MemoryInv, Reading, Along, GetLeaf PROVE Along' /\ view' = view
<1> DEFINE pl == Head(parts)
<1>1. parts # <<>> /\ UNCHANGED walk
  BY DEF GetLeaf, At
<1>2. PICK i \in 1 .. Len(walk) : /\ i + 1 \in 1 .. Len(walk) /\ parts = walk[i].left /\ found = AsFound(walk[i].wrote)
                                 /\ Goes(walk[i], walk[i + 1])
  BY SMTT(20), <1>1, AlongWalks
<1>3. pl.type.kind = "num" /\ HasAccessors(pl.type.name)
  BY <1>2 DEF Goes, GetLeaf, At
<1>4. PICK n \in Int : walk[i + 1] = [left |-> Tail(parts), wrote |-> Append(walk[i].wrote, [name |-> pl.type.name, at |-> pl.at, num |-> n])]
  BY <1>2, <1>3 DEF Goes
<1>5. parts' = Tail(parts) /\ view' = view /\ found' = Append(found, Num(NumberAt(pl.type.name, Here)))
  BY <1>3 DEF GetLeaf, At, Found
<1>6. ~Setting /\ setting # NoSetting /\ view.ptr = setting.ptr
  BY GetKnows DEF Reading
<1>7. Walk(walk, setting.type) /\ Last(walk).wrote = Written /\ Len(Written) \in Nat
  BY <1>6, SetDone
<1> DEFINE w == walk[i].wrote
           M == Len(w)
           new == [name |-> pl.type.name, at |-> pl.at, num |-> n]
<1>8. w \in Seq(Number) /\ M \in Nat
  <2>1. walk[i].wrote \in Seq(Number)
    BY <1>2, <1>7, StopTypes
  <2> QED BY <2>1, LenProperties
<1>9. walk[i + 1].left = Tail(parts) /\ walk[i + 1].wrote = Append(w, new)
  BY <1>4
<1>10. new.name = pl.type.name /\ new.at = pl.at /\ new.num = n
  OBVIOUS
<1> HIDE DEF pl, w, M, new
<1>11. Append(w, new) = Append(w, new) /\ Len(Append(w, new)) = M + 1 /\ Append(w, new)[M + 1] = new
  <2>1. walk[i + 1].wrote \in Seq(Number)
    BY <1>2, <1>7, StopTypes
  <2> DEFINE T == Number \union {new}
  <2>2. w \in Seq(T) /\ new \in T
    <3>1. \A k \in 1 .. M : w[k] \in T
      BY <1>8, ElementOfSeq DEF M
    <3>2. w \in [1 .. M -> T]
      BY <1>8, <3>1, LenProperties DEF M
    <3> HIDE DEF T
    <3>3. w \in Seq(T)
      BY <1>8, <3>2, ASequence
    <3> QED BY <3>3 DEF T
  <2> HIDE DEF T
  <2> QED BY <2>2, AppendProperties DEF M
<1>12. M + 1 \in 1 .. Len(Written) /\ Written[M + 1] = new
  <2>1. Begins(walk[i + 1].wrote, Written)
    BY <1>2, <1>7 DEF Walk
  <2>2. M + 1 <= Len(Written) /\ \A j \in 1 .. M + 1 : Written[j] = Append(w, new)[j]
    BY <1>9, <1>11, <2>1 DEF Begins
  <2> QED BY <1>7, <1>8, <1>11, <2>2
<1>13. new \in Number /\ NumberAt(new.name, setting.ptr + new.at) = new.num
  BY <1>6, <1>12, NumberThere
<1>14. Here = setting.ptr + pl.at
  BY <1>6 DEF Here, pl
<1>15. NumberAt(pl.type.name, Here) = n
  BY <1>10, <1>13, <1>14
<1>16. found' = AsFound(Append(w, new))
  <2>1. found' = Append(AsFound(w), [num |-> n])
    BY <1>2, <1>5, <1>15 DEF w, pl, Num
  <2> QED BY <1>8, <1>10, <1>13, <2>1, OneMoreFound
<1> QED BY <1>1, <1>2, <1>5, <1>9, <1>16 DEF Along
---------------------------------------------------------------------------
(* A struct whose fields are as the items of an array lies as the array does. *)
LEMMA LikeArrayLies ==
  ASSUME NEW s \in Types, NEW t \in Types, LikeArray(s, t)
  PROVE  /\ t.length \in Nat /\ t.of \in Types /\ t.of.size \in Nat /\ s.kind = "struct" /\ t.kind = "array"
         /\ s.size = t.size
         /\ FieldsAt(s, 0) = ElementsAt(t, 0)
<1> DEFINE N == t.length
           z == t.of.size
           fs == s.fields
           T == {n \in 0 .. N : FieldAt(fs, n + 1) = z * n}
<1>1. s.kind = "struct" /\ t.kind = "array" /\ Len(fs) = N /\ \A k \in DOMAIN fs : fs[k].type = t.of
  BY DEF LikeArray
<1>2. N \in Nat /\ t.of \in Types /\ z \in Nat /\ t.size = z * N /\ fs \in Fields /\ s.size = StructdSize(fs)
  BY <1>1, TypeTypes
<1>3. DOMAIN fs = 1 .. N
  BY <1>1, <1>2, FieldTypes
<1> HIDE DEF N, z, fs
<1>4. FieldAt(fs, 1) = 0 /\ \A k \in 1 .. N : FieldAt(fs, k + 1) = FieldAt(fs, k) + fs[k].type.size
  BY <1>1, <1>2, FieldAtSteps
<1>5. 0 \in T
  BY <1>2, <1>4
<1>6. ASSUME NEW n \in 0 .. N - 1, n \in T PROVE n + 1 \in T
  <2>1. n + 1 \in 1 .. N /\ n + 1 \in 0 .. N /\ n \in Nat
    BY <1>2
  <2>2. FieldAt(fs, (n + 1) + 1) = FieldAt(fs, n + 1) + z
    BY <1>1, <1>3, <1>4, <2>1 DEF z
  <2>3. z * (n + 1) = z * n + z
    BY <1>2, <2>1
  <2> QED BY <1>6, <2>1, <2>2, <2>3
<1>7. 0 .. N \subseteq T
  <2> HIDE DEF T
  <2> QED BY <1>2, <1>5, <1>6, CountingTo
<1>8. s.size = t.size
  <2>1. N \in T
    BY <1>2, <1>7
  <2> QED BY <1>1, <1>2, <2>1 DEF StructdSize
<1>9. \A k \in 1 .. N : FieldAt(fs, k) = z * (k - 1)
  <2> SUFFICES ASSUME NEW k \in 1 .. N PROVE FieldAt(fs, k) = z * (k - 1)
    OBVIOUS
  <2>1. k - 1 \in 0 .. N /\ (k - 1) + 1 = k
    BY <1>2
  <2>2. k - 1 \in T
    BY <1>7, <2>1
  <2> QED BY <2>1, <2>2
<1>10. FieldsAt(s, 0) = ElementsAt(t, 0)
  <2>1. FieldsAt(s, 0) = [k \in 1 .. N |-> [type |-> fs[k].type, at |-> 0 + FieldAt(fs, k)]]
    BY <1>3 DEF FieldsAt, fs
  <2>2. ElementsAt(t, 0) = [k \in 1 .. N |-> [type |-> t.of, at |-> 0 + z * (k - 1)]]
    BY DEF ElementsAt, N, z
  <2>3. \A k \in 1 .. N : fs[k].type = t.of
    BY <1>1, <1>3
  <2> QED BY <1>9, <2>1, <2>2, <2>3
<1> QED BY <1>1, <1>2, <1>8, <1>10 DEF N, z

LEMMA SecondStop ==
  ASSUME MemoryInv, setting # NoSetting, ~Setting, setting.type.kind = "struct"
  PROVE  2 \in 1 .. Len(walk) /\ walk[2].left = FieldsAt(setting.type, 0) /\ walk[2].wrote = <<>>
<1> DEFINE pl == [type |-> setting.type, at |-> 0]
           whole == <<pl>>
           new == FieldsAt(setting.type, 0)
<1>1. Walk(walk, setting.type) /\ setting.type \in Types /\ Len(walk) \in Nat
  BY SetDone
<1>2. walk[1] = [left |-> whole, wrote |-> <<>>] /\ 1 \in 1 .. Len(walk)
  BY <1>1 DEF Walk
<1>3. pl \in Place /\ pl.type = setting.type /\ pl.at = 0
  BY <1>1 DEF Place
<1>4. new \in Seq(Place)
  <2> HIDE DEF pl
  <2> QED BY <1>3, FieldPlaces DEF Inside
<1>5. whole # <<>> /\ Head(whole) = pl /\ Tail(whole) = <<>>
  <2> HIDE DEF pl
  <2> QED BY <1>3
<1> HIDE DEF pl, whole, new
<1>6. walk[1].left = whole /\ walk[1].wrote = <<>>
  BY <1>2
<1>7. 1 + 1 \in 1 .. Len(walk) /\ Goes(walk[1], walk[1 + 1])
  BY <1>2, <1>5, <1>6, NextStop
<1>8. 2 \in 1 .. Len(walk) /\ Goes(walk[1], walk[2])
  BY <1>7
<1>9. walk[2] = [left |-> new \o <<>>, wrote |-> <<>>]
  <2>1. Head(walk[1].left).type = setting.type /\ Head(walk[1].left).at = 0 /\ Tail(walk[1].left) = <<>> /\ setting.type.kind # "num"
    BY <1>3, <1>5, <1>6
  <2> QED BY <1>6, <1>8, <2>1 DEF Goes, new
<1>10. new \o <<>> = new
  BY <1>4, ConcatEmptySeq
<1> QED BY <1>8, <1>9, <1>10 DEF new

(* After n of its N numbers a set of an array, written all, has n written. *)
Items(w, all, N, n) ==
  /\ Len(w.left) = N - n /\ \A k \in 1 .. N - n : w.left[k] = all[n + k]
  /\ Len(w.wrote) = n /\ \A k \in 1 .. n : w.wrote[k].name = all[k].type.name /\ w.wrote[k].at = all[k].at

LEMMA OneItem ==
  ASSUME NEW w \in Stop, NEW x \in Stop, Goes(w, x), NEW all, NEW N \in Nat, NEW n \in 0 .. N - 1, Items(w, all, N, n),
         all[n + 1].type.kind = "num"
  PROVE  Items(x, all, N, n + 1)
<1> DEFINE pl == Head(w.left)
<1>1. w.left \in Seq(Place) /\ w.wrote \in Seq(Number) /\ x.wrote \in Seq(Number)
  BY DEF Stop
<1>2. Len(w.left) = N - n /\ (\A k \in 1 .. N - n : w.left[k] = all[n + k])
      /\ Len(w.wrote) = n /\ \A k \in 1 .. n : w.wrote[k].name = all[k].type.name /\ w.wrote[k].at = all[k].at
  BY DEF Items
<1>3. w.left # <<>>
  BY DEF Goes
<1>4. pl = w.left[1] /\ Len(Tail(w.left)) = N - n - 1 /\ \A k \in 1 .. N - n - 1 : Tail(w.left)[k] = w.left[k + 1]
  BY <1>1, <1>2, <1>3, FirstAndRest
<1>5. 1 \in 1 .. N - n
  OBVIOUS
<1>6. pl = all[n + 1]
  BY <1>2, <1>4, <1>5
<1>7. pl.type.kind = "num"
  BY <1>6
<1>8. PICK m \in Int : x = [left |-> Tail(w.left), wrote |-> Append(w.wrote, [name |-> pl.type.name, at |-> pl.at, num |-> m])]
  BY <1>7 DEF Goes
<1> DEFINE new == [name |-> pl.type.name, at |-> pl.at, num |-> m]
           rest == Tail(w.left)
           old == w.wrote
<1>9. x.left = rest /\ x.wrote = Append(old, new)
  BY <1>8
<1>10. new.name = pl.type.name /\ new.at = pl.at
  OBVIOUS
<1> HIDE DEF new, rest, old, pl
<1>11. Len(Append(old, new)) = n + 1 /\ Append(old, new)[n + 1] = new /\ \A k \in 1 .. n : Append(old, new)[k] = old[k]
  <2> DEFINE T == Number \union {new}
  <2>1. old \in [1 .. n -> T]
    <3>1. \A k \in 1 .. n : old[k] \in T
      BY <1>1, <1>2, ElementOfSeq DEF old
    <3> QED BY <1>1, <1>2, <3>1, LenProperties DEF old
  <2>2. new \in T /\ n \in Nat
    OBVIOUS
  <2> HIDE DEF T
  <2>3. old \in Seq(T) /\ Len(old) = n
    BY <2>1, <2>2, ASequence
  <2> QED BY <2>2, <2>3, AppendProperties
<1>12. ASSUME NEW k \in 1 .. N - (n + 1) PROVE x.left[k] = all[(n + 1) + k]
  <2>1. k \in 1 .. N - n - 1 /\ k + 1 \in 1 .. N - n /\ n + (k + 1) = (n + 1) + k
    OBVIOUS
  <2> QED BY <1>2, <1>4, <1>9, <2>1 DEF rest
<1>13. ASSUME NEW k \in 1 .. n + 1 PROVE x.wrote[k].name = all[k].type.name /\ x.wrote[k].at = all[k].at
  <2>1. CASE k = n + 1
    BY <1>6, <1>9, <1>10, <1>11, <2>1
  <2>2. CASE k # n + 1
    <3>1. k \in 1 .. n
      BY <2>2
    <3> QED BY <1>2, <1>9, <1>11, <3>1 DEF old
  <2> QED BY <2>1, <2>2
<1>14. Len(x.left) = N - (n + 1) /\ Len(x.wrote) = n + 1
  BY <1>4, <1>9, <1>11 DEF rest
<1> QED BY <1>12, <1>13, <1>14 DEF Items

LEMMA ArrayNumbers ==
  ASSUME MemoryInv, setting # NoSetting, ~Setting, NEW t \in Types, LikeArray(setting.type, t), t.of.kind = "num"
  PROVE  /\ Len(Written) = t.length
         /\ \A k \in 1 .. t.length : Written[k].name = t.of.name /\ Written[k].at = t.of.size * (k - 1)
<1> DEFINE N == t.length
           all == ElementsAt(t, 0)
           z == t.of.size
           T == {n \in 0 .. N : n + 2 \in 1 .. Len(walk) /\ Items(walk[n + 2], all, N, n)}
<1>1. setting.type \in Types /\ Walk(walk, setting.type) /\ Len(walk) \in Nat
  BY SetDone
<1>2. N \in Nat /\ z \in Nat /\ setting.type.kind = "struct" /\ all = FieldsAt(setting.type, 0)
  BY <1>1, LikeArrayLies
<1>3. all = [k \in 1 .. N |-> [type |-> t.of, at |-> 0 + z * (k - 1)]]
  BY DEF ElementsAt
<1> HIDE DEF all, N, z
<1>4. \A k \in 1 .. N : all[k].type = t.of /\ all[k].at = z * (k - 1)
  <2> SUFFICES ASSUME NEW k \in 1 .. N PROVE all[k].type = t.of /\ all[k].at = z * (k - 1)
    OBVIOUS
  <2>1. all[k] = [type |-> t.of, at |-> 0 + z * (k - 1)]
    BY <1>3
  <2>2. z * (k - 1) \in Int
    BY <1>2
  <2> QED BY <2>1, <2>2
<1>5. 2 \in 1 .. Len(walk) /\ walk[2].left = all /\ walk[2].wrote = <<>>
  BY <1>2, SecondStop
<1>6. all \in Seq(Place) /\ Len(all) = N
  <2>1. all \in Seq(Place)
    BY <1>1, <1>5, StopTypes
  <2> QED BY <1>2, <1>3, <2>1, LenProperties
<1>7. Items(walk[2], all, N, 0)
  <2>1. Len(walk[2].wrote) = 0 /\ Len(walk[2].left) = N - 0
    BY <1>2, <1>5, <1>6
  <2>2. \A k \in 1 .. N - 0 : walk[2].left[k] = all[0 + k]
    BY <1>2, <1>5
  <2> QED BY <2>1, <2>2 DEF Items
<1>8. 0 \in T
  BY <1>2, <1>5, <1>7
<1>9. ASSUME NEW n \in 0 .. N - 1, n \in T PROVE n + 1 \in T
  <2>1. n + 2 \in 1 .. Len(walk) /\ Items(walk[n + 2], all, N, n)
    BY <1>9
  <2>2. walk[n + 2].left # <<>>
    BY <1>2, <2>1 DEF Items
  <2>3. (n + 2) + 1 \in 1 .. Len(walk) /\ Goes(walk[n + 2], walk[(n + 2) + 1])
    BY <2>1, <2>2, NextStop
  <2>4. (n + 2) + 1 = (n + 1) + 2 /\ n + 1 \in 0 .. N /\ n + 1 \in 1 .. N
    BY <1>2
  <2>5. (n + 1) + 2 \in 1 .. Len(walk) /\ Goes(walk[n + 2], walk[(n + 1) + 2])
    BY <2>3, <2>4
  <2>6. walk[n + 2] \in Stop /\ walk[(n + 1) + 2] \in Stop
    BY <1>1, <2>1, <2>5, StopTypes
  <2>7. all[n + 1].type.kind = "num"
    BY <1>4, <2>4
  <2>8. Items(walk[(n + 1) + 2], all, N, n + 1)
    BY <1>2, <2>1, <2>5, <2>6, <2>7, OneItem
  <2> QED BY <2>4, <2>5, <2>8
<1>10. N \in T
  <2>1. 0 .. N \subseteq T
    <3> HIDE DEF T
    <3> QED BY <1>2, <1>8, <1>9, CountingTo
  <2> QED BY <1>2, <2>1
<1>11. N + 2 \in 1 .. Len(walk) /\ Items(walk[N + 2], all, N, N)
  BY <1>10
<1>12. walk[N + 2].left = <<>>
  <2>1. Len(walk[N + 2].left) = 0
    BY <1>2, <1>11 DEF Items
  <2>2. walk[N + 2].left \in Seq(Place)
    BY <1>1, <1>11, StopTypes
  <2> QED BY <2>1, <2>2, EmptySeq
<1>13. walk[N + 2].wrote = Written
  BY <1>11, <1>12, NothingLeft
<1> QED BY <1>4, <1>11, <1>13 DEF Items, N, z
---------------------------------------------------------------------------
(* What a get of such an array reads. *)
ItemsOf(v) == [k \in 1 .. v.length |-> NumberAt(v.of, v.over + (k - 1) * Bytes[v.of])]

LEMMA TextThere ==
  ASSUME MemoryInv, setting # NoSetting, ~Setting, NEW t \in Types, LikeArray(setting.type, t), t.text
  PROVE  [k \in 1 .. t.length |-> bytes[setting.ptr + k - 1]] = Numbers
<1> DEFINE N == t.length
           a == setting.ptr
<1>1. /\ setting.type \in Types /\ a \in Nat /\ InBuffer(a, setting.type)
      /\ Len(Written) \in Nat /\ DOMAIN Written = 1 .. Len(Written)
  BY SetDone
<1>2. N \in Nat /\ t.kind = "array" /\ setting.type.size = t.size
  BY <1>1, LikeArrayLies
<1>3. t.of.kind = "num" /\ t.of.name = "u8" /\ t.size = t.of.size * N /\ t.of \in Types
  BY <1>2, TypeTypes
<1>4. t.of.size = 1
  <2>1. t.of.size = Bytes["u8"]
    BY <1>3, TypeTypes
  <2> QED BY <2>1 DEF Bytes
<1>5. Len(Written) = N /\ \A k \in 1 .. N : Written[k].name = "u8" /\ Written[k].at = 1 * (k - 1)
  BY <1>3, <1>4, ArrayNumbers
<1>6. BufferSize \in Nat /\ a + N <= BufferSize
  <2>1. setting.type.size = N
    BY <1>2, <1>3, <1>4
  <2> QED BY <1>1, <2>1, LayoutAssumption DEF LayoutAssumption, InBuffer
<1>7. bytes \in [0 .. BufferSize - 1 -> 0 .. Base - 1]
  BY DEF MemoryInv
<1> HIDE DEF N, a
<1>8. ASSUME NEW k \in 1 .. N PROVE bytes[a + k - 1] = Written[k].num
  <2>1. NumberAt(Written[k].name, a + Written[k].at) = Written[k].num
    BY <1>5, NumberThere DEF a
  <2>2. Written[k].name = "u8" /\ a + Written[k].at = a + k - 1
    BY <1>1, <1>2, <1>5
  <2> DEFINE b == bytes[a + k - 1]
  <2>3. b \in 0 .. Base - 1
    <3>1. a + k - 1 \in 0 .. BufferSize - 1
      BY <1>1, <1>2, <1>6
    <3> QED BY <1>7, <3>1
  <2>4. NumberAt("u8", a + k - 1) = ToType("u8", b)
    BY DEF NumberAt, Bytes
  <2> HIDE DEF b
  <2>5. ToType("u8", b) = b % Base
    BY DEF ToType, Bytes, IsSigned
  <2>6. b % Base = b
    BY <2>3, BaseTypes
  <2> QED BY <2>1, <2>2, <2>4, <2>5, <2>6 DEF b
<1>9. Numbers = [k \in 1 .. N |-> Written[k].num]
  BY <1>1, <1>5 DEF Numbers
<1>10. [k \in 1 .. N |-> bytes[a + k - 1]] = [k \in 1 .. N |-> Written[k].num]
  BY <1>8
<1> QED BY <1>9, <1>10 DEF N, a

LEMMA TypedThere ==
  ASSUME MemoryInv, setting # NoSetting, ~Setting, NEW t \in Types, LikeArray(setting.type, t), IsTyped(t),
         NEW over, t.of.name # "u64" => over = setting.ptr
  PROVE  ItemsOf([over |-> over, of |-> t.of.name, length |-> t.length]) = Numbers
<1> DEFINE N == t.length
           name == t.of.name
           v == [over |-> over, of |-> name, length |-> N]
<1>1. setting.type \in Types /\ setting.ptr \in Nat /\ Len(Written) \in Nat /\ DOMAIN Written = 1 .. Len(Written)
  BY SetDone
<1>2. N \in Nat /\ t.of \in Types /\ t.of.kind = "num"
  BY <1>1, LikeArrayLies DEF IsTyped
<1>3. name \in DOMAIN Bytes /\ t.of.size = Bytes[name]
  BY <1>2, TypeTypes
<1>4. Len(Written) = N /\ \A k \in 1 .. N : Written[k].name = name /\ Written[k].at = t.of.size * (k - 1)
  BY <1>2, ArrayNumbers
<1>5. v.over = over /\ v.of = name /\ v.length = N
  OBVIOUS
<1> HIDE DEF N, name, v
<1>6. ASSUME NEW k \in 1 .. N PROVE NumberAt(name, over + (k - 1) * Bytes[name]) = Written[k].num
  <2>1. NumberAt(Written[k].name, setting.ptr + Written[k].at) = Written[k].num /\ Written[k].name \in Names
    BY <1>4, NumberThere
  <2>2. over = setting.ptr
    <3>1. HasAccessors(name)
      BY <1>4, <2>1 DEF Names
    <3> QED BY <3>1 DEF HasAccessors, name
  <2>3. Written[k].at = (k - 1) * Bytes[name]
    <3> DEFINE z == Bytes[name]
    <3>1. z \in Int /\ Written[k].at = z * (k - 1)
      BY <1>3, <1>4, NameTypes
    <3> HIDE DEF z
    <3>2. z * (k - 1) = (k - 1) * z
      BY <3>1, <1>2
    <3> QED BY <3>1, <3>2 DEF z
  <2> QED BY <1>4, <2>1, <2>2, <2>3
<1>7. Numbers = [k \in 1 .. N |-> Written[k].num]
  BY <1>1, <1>4 DEF Numbers
<1>8. ItemsOf(v) = [k \in 1 .. N |-> NumberAt(name, over + (k - 1) * Bytes[name])]
  BY <1>5 DEF ItemsOf
<1> QED BY <1>6, <1>7, <1>8 DEF v, N, name
---------------------------------------------------------------------------
(* The inductive invariant of the gets. *)
AtStart == parts = <<[type |-> view.type, at |-> 0]>> /\ found = <<>>
ArrayRead ==
  \/ AtStart
  \/ IsTyped(view.type) /\ parts = <<>> /\ Len(found) = 1 /\ ItemsOf(found[1]) = Numbers
  \/ view.type.text /\ parts = <<>> /\ found = <<Text(Numbers)>>
  \/ ~IsTyped(view.type) /\ ~view.type.text /\ Along

ReadInv ==
  Reading =>
    /\ view.type = setting.type => Along
    /\ LikeArray(setting.type, view.type) => ArrayRead

LayoutInv == MemoryInv /\ ReadInv /\ GetRight

LEMMA IntoReads == ASSUME MemoryInv, ReadInv, GetInto PROVE ReadInv'
<1>1. /\ Getting /\ view # NoView /\ parts # <<>> /\ UNCHANGED <<bytes, view, values, found, outcome, setting, walk>>
  BY DEF GetInto, At, Getting
<1> SUFFICES ASSUME Reading' PROVE /\ view.type = setting.type => Along'
                                   /\ LikeArray(setting.type, view.type) => ArrayRead'
  BY <1>1 DEF ReadInv
<1>2. Reading
  BY <1>1 DEF Reading, Getting
<1>3. Along => Along'
  BY <1>2, IntoAlong
<1>4. ASSUME LikeArray(setting.type, view.type) PROVE ArrayRead'
  <2>1. AtStart \/ (~IsTyped(view.type) /\ ~view.type.text /\ Along)
    BY <1>1, <1>2, <1>4 DEF ReadInv, ArrayRead
  <2>2. ~IsTyped(view.type) /\ ~view.type.text /\ Along'
    <3>1. CASE AtStart
      <4> DEFINE t == view.type
                 whole == [type |-> t, at |-> 0]
      <4>1. whole.type = t /\ whole.at = 0 /\ Head(parts) = whole /\ Tail(parts) = <<>>
        BY <3>1 DEF AtStart
      <4>2. t \in Types /\ setting.type \in Types /\ ~Setting /\ setting # NoSetting
        BY <1>1, <1>2, GetKnows, SetDone DEF Reading
      <4>3. t.kind = "array" /\ setting.type.kind = "struct" /\ FieldsAt(setting.type, 0) = ElementsAt(t, 0)
        BY <1>4, <4>2, LikeArrayLies
      <4>4. 2 \in 1 .. Len(walk) /\ walk[2].left = FieldsAt(setting.type, 0) /\ walk[2].wrote = <<>>
        BY <4>2, <4>3, SecondStop
      <4> HIDE DEF whole
      <4>5. ~t.text /\ ~IsTyped(t) /\ parts' = ElementsAt(t, 0) \o <<>>
        BY <4>1, <4>3 DEF GetInto, At
      <4>6. ElementsAt(t, 0) \o <<>> = ElementsAt(t, 0)
        <5>1. walk[2].left \in Seq(Place)
          BY <4>2, <4>4, SetDone, StopTypes
        <5> QED BY <4>3, <4>4, <5>1, ConcatEmptySeq
      <4>7. found = AsFound(walk[2].wrote)
        BY <3>1, <4>4, NothingFound DEF AtStart
      <4>8. parts' = walk[2].left
        BY <4>3, <4>4, <4>5, <4>6
      <4> QED BY <1>1, <4>4, <4>5, <4>7, <4>8 DEF Along
    <3>2. CASE ~IsTyped(view.type) /\ ~view.type.text /\ Along
      BY <1>3, <3>2
    <3> QED BY <2>1, <3>1, <3>2
  <2> QED BY <1>1, <2>2 DEF ArrayRead
<1> QED BY <1>2, <1>3, <1>4 DEF ReadInv

LEMMA LeafReads ==
  ASSUME MemoryInv, ReadInv, GetLeaf
  PROVE  /\ ReadInv'
         /\ view' # view /\ Reading => view.type # setting.type /\ (LikeArray(setting.type, view.type) => IsTyped(view.type))
<1> DEFINE t == view.type
           first == Head(parts).type
<1>1. Getting /\ view # NoView /\ parts # <<>> /\ UNCHANGED <<bytes, setting, walk>>
  BY DEF GetLeaf, At, Getting
<1>2. view' = view \/ view' = NoView
  BY DEF GetLeaf, Found, Ended
<1>3. view' = view \/ ~Reading'
  BY <1>2 DEF Reading, Getting
<1>4. Reading' => Reading
  BY <1>1, <1>3 DEF Reading
<1>5. Reading /\ t = setting.type => Along' /\ view' = view
  BY LeafAlong DEF ReadInv
<1>6. ASSUME Reading, LikeArray(setting.type, t)
      PROVE  (view' = view /\ ArrayRead') \/ (view' # view /\ IsTyped(t))
  <2>1. t \in Types /\ setting.type \in Types /\ ~Setting /\ setting # NoSetting /\ view.ptr = setting.ptr /\ view.ptr \in Nat
    BY <1>1, <1>6, GetKnows, SetDone DEF Reading
  <2>2. t.kind = "array"
    BY <1>6, <2>1, LikeArrayLies
  <2>3. AtStart \/ (~IsTyped(t) /\ ~t.text /\ Along)
    BY <1>1, <1>6 DEF ReadInv, ArrayRead
  <2>4. CASE ~IsTyped(t) /\ ~t.text /\ Along
    <3>1. Along' /\ view' = view
      BY <1>6, <2>4, LeafAlong
    <3> QED BY <2>4, <3>1 DEF ArrayRead
  <2>5. CASE AtStart
    <3> DEFINE whole == [type |-> t, at |-> 0]
    <3>1. whole.type = t /\ whole.at = 0 /\ Head(parts) = whole /\ Tail(parts) = <<>> /\ found = <<>>
      BY <2>5 DEF AtStart
    <3> HIDE DEF whole
    <3>2. Here = setting.ptr
      BY <2>1, <3>1 DEF Here
    <3>3. CASE t.text
      <4> DEFINE codes == [k \in 1 .. t.length |-> bytes[Here + k - 1]]
      <4>1. codes = Numbers
        BY <1>6, <2>1, <3>2, <3>3, TextThere
      <4>2. view' = view /\ parts' = <<>> /\ found' = Append(<<>>, Text(codes))
        BY <2>2, <3>1, <3>3 DEF GetLeaf, At, Found, IsTyped
      <4> HIDE DEF codes
      <4>3. found' = <<Text(Numbers)>>
        BY <4>1, <4>2
      <4>4. Numbers' = Numbers
        BY <1>1 DEF Numbers, Written
      <4> QED BY <3>3, <4>2, <4>3, <4>4 DEF ArrayRead
    <3>4. CASE IsTyped(t) /\ ~TypedFits(t)
      BY <1>1, <2>2, <3>1, <3>4 DEF GetLeaf, At, Ended, IsTyped
    <3>5. CASE IsTyped(t) /\ TypedFits(t)
      <4> DEFINE over == TypedAt
                 v == [over |-> over, of |-> t.of.name, length |-> t.length]
      <4>1. t.of.name # "u64" => over = setting.ptr
        BY <3>1, <3>2 DEF TypedAt
      <4>2. view' = view /\ parts' = <<>> /\ found' = Append(<<>>, v)
        BY <2>2, <3>1, <3>5 DEF GetLeaf, At, Found, IsTyped
      <4> HIDE DEF over
      <4>3. ItemsOf(v) = Numbers
        BY <1>6, <2>1, <3>5, <4>1, TypedThere
      <4> HIDE DEF v
      <4>4. found' = <<v>>
        BY <4>2
      <4>5. Len(found') = 1 /\ found'[1] = v
        BY <4>4
      <4>6. Numbers' = Numbers
        BY <1>1 DEF Numbers, Written
      <4>7. ItemsOf(found[1])' = ItemsOf(v)
        BY <1>1, <4>5 DEF ItemsOf, NumberAt
      <4> QED BY <3>5, <4>2, <4>3, <4>5, <4>6, <4>7 DEF ArrayRead
    <3>6. IsTyped(t) \/ t.text
      BY <2>2, <3>1 DEF GetLeaf, At
    <3> QED BY <3>3, <3>4, <3>5, <3>6
  <2> QED BY <2>3, <2>4, <2>5
<1>7. ASSUME Reading' PROVE /\ view'.type = setting'.type => Along'
                            /\ LikeArray(setting'.type, view'.type) => ArrayRead'
  <2>1. Reading /\ view' = view /\ setting' = setting
    BY <1>1, <1>3, <1>4, <1>7
  <2> QED BY <1>5, <1>6, <2>1
<1>8. ReadInv'
  BY <1>7 DEF ReadInv, LikeArray
<1>9. view' # view /\ Reading => t # setting.type /\ (LikeArray(setting.type, t) => IsTyped(t))
  BY <1>5, <1>6
<1> QED BY <1>8, <1>9

(* What the outcome of a get has to be, GetGives without the outcome. *)
LEMMA AllRead ==
  ASSUME MemoryInv, ReadInv, Reading, parts = <<>>
  PROVE  GetGives(view.type, found)
<1> DEFINE t == view.type
           numbers == [k \in DOMAIN Numbers |-> Num(Numbers[k])]
<1>1. ~Setting /\ setting # NoSetting
  BY GetKnows DEF Reading
<1>2. DOMAIN Written = 1 .. Len(Written)
  BY <1>1, SetDone
<1>3. numbers = AsFound(Written)
  BY <1>2 DEF Numbers, AsFound, Num
<1>4. Along => found = numbers
  <2> SUFFICES ASSUME Along PROVE found = numbers
    OBVIOUS
  <2>1. PICK i \in 1 .. Len(walk) : parts = walk[i].left /\ found = AsFound(walk[i].wrote)
    BY DEF Along
  <2>2. walk[i].wrote = Written
    BY <1>1, <2>1, NothingLeft
  <2> QED BY <1>3, <2>1, <2>2
<1>5. t = setting.type => found = numbers
  BY <1>4 DEF ReadInv
<1>6. ASSUME LikeArray(setting.type, t)
      PROVE  CASE IsTyped(t) -> Len(found) = 1 /\ ItemsOf(found[1]) = Numbers
               [] t.text -> found = <<Text(Numbers)>>
               [] OTHER -> found = numbers
  <2>1. parts # <<[type |-> t, at |-> 0]>>
    OBVIOUS
  <2>2. \/ IsTyped(t) /\ Len(found) = 1 /\ ItemsOf(found[1]) = Numbers
        \/ t.text /\ found = <<Text(Numbers)>>
        \/ ~IsTyped(t) /\ ~t.text /\ found = numbers
    BY <1>4, <1>6, <2>1 DEF ReadInv, ArrayRead, AtStart
  <2>3. IsTyped(t) => ~t.text
    BY DEF IsTyped
  <2> HIDE DEF numbers
  <2> QED BY <2>2, <2>3
<1> QED BY <1>5, <1>6 DEF GetGives, ItemsOf

LEMMA RightOutcome ==
  ASSUME NEW t, NEW pt, NEW result, UNCHANGED <<bytes, setting, walk>>, outcome' = [got |-> t, at |-> pt, result |-> result],
         setting # NoSetting /\ pt = setting.ptr =>
           IF result.end = "got" THEN GetGives(t, result.val)
           ELSE t # setting.type /\ (LikeArray(setting.type, t) => IsTyped(t))
  PROVE  GetRight'
<1>1. outcome'.got = t /\ outcome'.at = pt /\ outcome'.result = result
  OBVIOUS
<1>2. Written' = Written /\ Numbers' = Numbers /\ setting' = setting /\ bytes' = bytes
  BY DEF Written, Numbers
<1>3. \A name, a : NumberAt(name, a)' = NumberAt(name, a)
  BY <1>2 DEF NumberAt
<1>4. GetGives(outcome.got, outcome.result.val)' <=> GetGives(t, result.val)
  BY <1>1, <1>2, <1>3 DEF GetGives
<1>5. LikeArray(setting.type, outcome.got)' <=> LikeArray(setting.type, t)
  BY <1>1, <1>2 DEF LikeArray
<1> QED BY <1>1, <1>2, <1>4, <1>5 DEF GetRight

(* An outcome that is not one of a get. *)
LEMMA OtherOutcome == \A e : "got" \notin DOMAIN [end |-> e]
OBVIOUS

LEMMA GetBegins ==
  ASSUME LayoutInv, NEW ptr \in Nat, NEW type \in Types, getDt(ptr, type)
  PROVE  ReadInv' /\ GetRight'
<1>1. view = NoView /\ found = <<>> /\ UNCHANGED <<bytes, values, found, setting, walk>>
  BY DEF getDt, Ready, LayoutInv, MemoryInv, ViewInv, Setting, Getting
<1>2. ~Setting /\ MemoryInv
  BY <1>1 DEF Setting, LayoutInv
<1>3. CASE InBuffer(ptr, type)
  <2>1. view' = [for |-> "get", ptr |-> ptr, type |-> type] /\ parts' = <<[type |-> type, at |-> 0]>>
    BY <1>3 DEF getDt
  <2>2. view' # NoView /\ view'.ptr = ptr /\ view'.type = type
    BY <2>1, AView
  <2>3. AtStart'
    BY <1>1, <2>1, <2>2 DEF AtStart
  <2>4. ASSUME setting # NoSetting, type = setting.type PROVE Along'
    <3>1. Walk(walk, setting.type) /\ Len(walk) \in Nat
      BY <1>2, <2>4, SetDone
    <3> DEFINE whole == <<[type |-> setting.type, at |-> 0]>>
    <3>2. walk[1] = [left |-> whole, wrote |-> <<>>] /\ 1 \in 1 .. Len(walk)
      BY <3>1 DEF Walk
    <3>3. parts' = whole
      BY <2>1, <2>4
    <3> HIDE DEF whole
    <3>4. walk[1].left = whole /\ walk[1].wrote = <<>>
      BY <3>2
    <3>5. found' = AsFound(walk[1].wrote)
      BY <1>1, <3>4, NothingFound
    <3> QED BY <1>1, <3>2, <3>3, <3>4, <3>5 DEF Along
  <2>5. ReadInv'
    <3>1. Reading' => setting # NoSetting
      BY <1>1 DEF Reading
    <3> QED BY <1>1, <2>2, <2>3, <2>4, <3>1 DEF ReadInv, ArrayRead
  <2> QED BY <2>2, <2>5 DEF GetRight
<1>4. CASE ~InBuffer(ptr, type)
  <2>1. view' = NoView /\ outcome' = [got |-> type, at |-> ptr, result |-> RangeError]
    BY <1>1, <1>4 DEF getDt
  <2>2. ReadInv'
    BY <2>1 DEF ReadInv, Reading, Getting
  <2>3. RangeError.end # "got"
    BY DEF RangeError
  <2>4. ASSUME setting # NoSetting, ptr = setting.ptr
        PROVE  type # setting.type /\ ~LikeArray(setting.type, type)
    <3>1. setting.type \in Types /\ InBuffer(ptr, setting.type)
      BY <1>2, <2>4, SetDone
    <3>2. type.size # setting.type.size
      BY <1>4, <3>1 DEF InBuffer
    <3> QED BY <3>1, <3>2, LikeArrayLies
  <2>5. GetRight'
    BY <1>1, <2>1, <2>3, <2>4, RightOutcome
  <2> QED BY <2>2, <2>5
<1> QED BY <1>3, <1>4

LEMMA GetGoesOn ==
  ASSUME LayoutInv, GetInto \/ GetLeaf \/ GetEnd
  PROVE  ReadInv' /\ GetRight'
<1>1. MemoryInv /\ ReadInv /\ Getting /\ view # NoView /\ UNCHANGED <<bytes, setting, walk>>
  BY DEF LayoutInv, GetInto, GetLeaf, GetEnd, At, Getting
<1>2. CASE GetInto
  <2>1. view' = view
    BY <1>2 DEF GetInto
  <2> QED BY <1>1, <1>2, <2>1, IntoReads DEF GetRight
<1>3. CASE GetLeaf
  <2>1. ReadInv'
    BY <1>1, <1>3, LeafReads
  <2>2. CASE view' = view
    BY <1>1, <2>1, <2>2 DEF GetRight
  <2>3. CASE view' # view
    <3>1. PICK e \in {"TypeError", "RangeError"} : outcome' = EndOfGet([end |-> e])
      BY <1>3, <2>3 DEF GetLeaf, Found, Ended, RangeError
    <3> DEFINE result == [end |-> e]
    <3>2. result.end # "got"
      BY <3>1
    <3>3. outcome' = [got |-> view.type, at |-> view.ptr, result |-> result]
      BY <3>1 DEF EndOfGet
    <3> HIDE DEF result
    <3>4. setting # NoSetting /\ view.ptr = setting.ptr =>
            view.type # setting.type /\ (LikeArray(setting.type, view.type) => IsTyped(view.type))
      BY <1>1, <1>3, <2>3, LeafReads DEF Reading
    <3> QED BY <1>1, <2>1, <3>2, <3>3, <3>4, RightOutcome
  <2> QED BY <2>2, <2>3
<1>4. CASE GetEnd
  <2> DEFINE result == [end |-> "got", val |-> found]
  <2>1. view' = NoView /\ outcome' = [got |-> view.type, at |-> view.ptr, result |-> result] /\ parts = <<>>
    BY <1>4 DEF GetEnd, Ended, EndOfGet
  <2>2. result.end = "got" /\ result.val = found
    OBVIOUS
  <2> HIDE DEF result
  <2>3. setting # NoSetting /\ view.ptr = setting.ptr => GetGives(view.type, result.val)
    BY <1>1, <2>1, <2>2, AllRead DEF Reading
  <2>4. GetRight'
    BY <1>1, <2>1, <2>2, <2>3, RightOutcome
  <2> QED BY <2>1, <2>4 DEF ReadInv, Reading, Getting
<1> QED BY <1>2, <1>3, <1>4

LEMMA SetReads ==
  ASSUME LayoutInv,
         (\E ptr, type, what : setDt(ptr, type, what)) \/ SetStruct \/ SetNumber \/ SetFails \/ SetEnd \/ Take
  PROVE  ReadInv' /\ GetRight'
<1>1. CASE \E ptr, type, what : setDt(ptr, type, what)
  <2>1. PICK ptr, type, what : setDt(ptr, type, what)
    BY <1>1
  <2>2. view = NoView
    BY <2>1 DEF setDt, Ready
  <2>3. CASE InBuffer(ptr, type)
    <3>1. view' = [for |-> "set", ptr |-> ptr, type |-> type]
      BY <2>1, <2>3 DEF setDt
    <3>2. view' # NoView /\ view'.for = "set"
      BY <3>1, AView
    <3> QED BY <3>2 DEF ReadInv, Reading, Getting, GetRight
  <2>4. CASE ~InBuffer(ptr, type)
    <3>1. view' = NoView /\ outcome' = [end |-> "RangeError"]
      BY <2>1, <2>2, <2>4 DEF setDt, RangeError
    <3> QED BY <3>1, OtherOutcome DEF ReadInv, Reading, Getting, GetRight
  <2> QED BY <2>3, <2>4
<1>2. CASE SetStruct \/ SetNumber
  <2>1. view # NoView /\ view.for = "set" /\ view' = view
    <3>1. CASE SetStruct
      BY <3>1 DEF SetStruct, At
    <3>2. CASE SetNumber
      BY <3>2 DEF SetNumber, At
    <3> QED BY <1>2, <3>1, <3>2
  <2> QED BY <2>1 DEF ReadInv, Reading, Getting, GetRight
<1>3. CASE SetFails
  <2>1. view' = NoView /\ setting' = NoSetting
    BY <1>3 DEF SetFails, Ended
  <2> QED BY <2>1 DEF ReadInv, Reading, Getting, GetRight
<1>4. CASE SetEnd \/ Take
  <2>1. view' = NoView /\ outcome' \in {[end |-> "done"], [end |-> "none"]}
    BY <1>4 DEF SetEnd, Ended, Take
  <2>2. "got" \notin DOMAIN outcome'
    BY <2>1, OtherOutcome
  <2> QED BY <2>1, <2>2 DEF ReadInv, Reading, Getting, GetRight
<1> QED BY <1>1, <1>2, <1>3, <1>4
---------------------------------------------------------------------------
(* A set, whether it ends or fails, changes no byte but its own. *)
OwnBytes == \A a \in DOMAIN bytes : bytes'[a] # bytes[a] => a - view.ptr \in 0 .. view.type.size - 1

LEMMA LayoutStarts == ASSUME LayoutInit PROVE LayoutInv
<1>1. view = NoView /\ setting = NoSetting
  BY DEF LayoutInit
<1> QED BY <1>1, MemoryStarts DEF LayoutInv, ReadInv, Reading, Getting, GetRight

LEMMA LayoutSteps == ASSUME LayoutInv, LayoutNext PROVE LayoutInv' /\ OwnBytes
<1>1. MemoryInv
  BY DEF LayoutInv
<1>2. SetCalls \subseteq Data /\ GetTypes \subseteq Types /\ Ptrs \subseteq Nat /\ HeapBase \in Nat
      /\ \A d \in Data : d = <<d[1], d[2]>>
  BY LayoutAssumption DEF LayoutAssumption
<1>3. ASSUME NEW call \in SetCalls, NEW pt \in Ptrs, setDt(pt, call[1], call[2]) \/ pushDt(call[1], call[2], pt)
      PROVE  LayoutInv' /\ OwnBytes
  <2>1. PICK ptr \in Nat : setDt(ptr, call[1], call[2])
    <3>1. pt \in Nat /\ HeapBase + pt \in Nat
      BY <1>2
    <3> QED BY <1>3, <3>1 DEF pushDt
  <2>2. <<call[1], call[2]>> \in Data
    BY <1>2
  <2>3. MemoryInv'
    BY <1>1, <2>1, <2>2, SetBegins
  <2>4. bytes' = bytes
    BY <2>1 DEF setDt
  <2>5. ReadInv' /\ GetRight'
    BY <2>1, SetReads
  <2> QED BY <2>3, <2>4, <2>5 DEF LayoutInv, OwnBytes
<1>4. CASE SetStruct
  BY <1>1, <1>4, StructSet, SetReads DEF LayoutInv, OwnBytes, SetStruct
<1>5. CASE SetNumber
  BY <1>1, <1>5, NumberSet, SetReads DEF LayoutInv, OwnBytes
<1>6. CASE SetFails \/ SetEnd
  <2>1. bytes' = bytes
    BY <1>6 DEF SetFails, SetEnd
  <2> QED BY <1>1, <1>6, <2>1, SetStops, SetReads DEF LayoutInv, OwnBytes
<1>7. CASE Take
  BY <1>1, <1>7, TakeKeeps, SetReads DEF LayoutInv, OwnBytes, Take
<1>8. ASSUME NEW t \in GetTypes, NEW pt \in Ptrs, getDt(pt, t) PROVE LayoutInv' /\ OwnBytes
  <2>1. t \in Types /\ pt \in Nat
    BY <1>2
  <2>2. bytes' = bytes
    BY <1>8 DEF getDt
  <2> QED BY <1>1, <1>8, <2>1, <2>2, GetKeepsMemory, GetBegins DEF LayoutInv, OwnBytes
<1>9. CASE GetInto \/ GetLeaf \/ GetEnd
  <2>1. bytes' = bytes
    BY <1>9 DEF GetInto, GetLeaf, GetEnd
  <2> QED BY <1>1, <1>9, <2>1, GetKeepsMemory, GetGoesOn DEF LayoutInv, OwnBytes
<1> QED BY <1>3, <1>4, <1>5, <1>6, <1>7, <1>8, <1>9 DEF LayoutNext

(* What a set has put in the memory is what a get finds there, for structs  *)
(* of any nesting, any base and any buffer, and no byte outside the value   *)
(* that is set changes.                                                     *)
THEOREM ReadsWhatWasSet == LayoutSpec => SetThenGet
<1>1. LayoutInv /\ [LayoutNext]_layoutVars => LayoutInv'
  <2> SUFFICES ASSUME LayoutInv, [LayoutNext]_layoutVars PROVE LayoutInv'
    OBVIOUS
  <2>1. CASE LayoutNext
    BY <2>1, LayoutSteps
  <2>2. CASE UNCHANGED layoutVars
    <3>1. /\ UNCHANGED <<bytes, view, parts, values, found, outcome, setting, walk>>
          /\ Written' = Written /\ Numbers' = Numbers
      BY <2>2 DEF layoutVars, Written, Numbers
    <3>2. \A name, a : NumberAt(name, a)' = NumberAt(name, a)
      BY <3>1 DEF NumberAt
    <3>3. MemoryInv'
      BY <3>1 DEF LayoutInv, MemoryInv, ViewInv, Setting, Getting, InBuffer, Kept, UnderWay
    <3>4. ReadInv'
      BY <3>1, <3>2 DEF LayoutInv, ReadInv, Reading, Getting, ArrayRead, AtStart, ItemsOf, Along
    <3>5. GetGives(outcome.got, outcome.result.val)' <=> GetGives(outcome.got, outcome.result.val)
      BY <3>1, <3>2 DEF GetGives
    <3>6. GetRight'
      BY <3>1, <3>5 DEF LayoutInv, GetRight
    <3> QED BY <3>3, <3>4, <3>6 DEF LayoutInv
  <2> QED BY <2>1, <2>2
<1>2. LayoutInv /\ LayoutInv' /\ [LayoutNext]_layoutVars => [GetRight' /\ OwnBytes]_layoutVars
  BY LayoutSteps DEF LayoutInv
<1>3. LayoutInit => LayoutInv
  BY LayoutStarts
<1> QED BY <1>1, <1>2, <1>3, PTL DEF LayoutSpec, SetThenGet, OwnBytes
---------------------------------------------------------------------------
(* A function on 0 .. N that is defined by recursion, as the texts and the    *)
(* numbers of Printf are.                                                     *)
Steps(f, N, S, s, step) == f \in [0 .. N -> S] /\ f[0] = s /\ \A n \in 1 .. N : f[n] = step[<<n, f[n - 1]>>]

LEMMA StepsExist ==
  ASSUME NEW S, NEW s \in S, NEW N \in Nat, NEW step \in [(1 .. N) \X S -> S]
  PROVE  \E f : Steps(f, N, S, s, step)
<1> DEFINE T == {n \in 0 .. N : \E f : Steps(f, n, S, s, step)}
<1>1. 0 \in T
  <2>1. Steps([n \in 0 .. 0 |-> s], 0, S, s, step)
    BY DEF Steps
  <2> QED BY <2>1
<1>2. ASSUME NEW n \in 0 .. N - 1, n \in T PROVE n + 1 \in T
  <2>1. PICK f : Steps(f, n, S, s, step)
    BY <1>2
  <2> DEFINE x == step[<<n + 1, f[n]>>]
             g == [k \in 0 .. n + 1 |-> IF k = n + 1 THEN x ELSE f[k]]
  <2>2. n \in Nat /\ n + 1 \in 1 .. N /\ f[n] \in S /\ x \in S
    <3>1. n \in Nat /\ n + 1 \in 1 .. N /\ f[n] \in S
      BY <2>1 DEF Steps
    <3> QED BY <3>1
  <2> HIDE DEF x
  <2>3. g \in [0 .. n + 1 -> S] /\ g[0] = s
    BY <2>1, <2>2 DEF Steps
  <2>4. ASSUME NEW k \in 1 .. n + 1 PROVE g[k] = step[<<k, g[k - 1]>>]
    <3>1. CASE k = n + 1
      <4>1. g[k] = x /\ k - 1 = n /\ g[n] = f[n]
        BY <2>2, <3>1
      <4> QED BY <3>1, <4>1 DEF x
    <3>2. CASE k # n + 1
      <4>1. k \in 1 .. n /\ g[k] = f[k] /\ g[k - 1] = f[k - 1]
        BY <2>2, <3>2
      <4>2. f[k] = step[<<k, f[k - 1]>>]
        BY <2>1, <4>1 DEF Steps
      <4> QED BY <4>1, <4>2
    <3> QED BY <3>1, <3>2
  <2> HIDE DEF g
  <2>5. Steps(g, n + 1, S, s, step)
    BY <2>3, <2>4 DEF Steps
  <2> QED BY <2>2, <2>5
<1>3. N \in T
  <2> HIDE DEF T
  <2>1. 0 .. N \subseteq T
    BY <1>1, <1>2, CountingTo
  <2> QED BY <2>1
<1> QED BY <1>3

(* Sequences one behind the other. *)
LEMMA JoinedSteps ==
  ASSUME NEW S, NEW lists \in Seq(Seq(S))
  PROVE  /\ JoinedTo(lists, 0) = <<>>
         /\ \A n \in 0 .. Len(lists) : JoinedTo(lists, n) \in Seq(S)
         /\ \A n \in 1 .. Len(lists) : JoinedTo(lists, n) = JoinedTo(lists, n - 1) \o lists[n]
<1> DEFINE N == Len(lists)
           R == Seq(S)
           step == [q \in (1 .. N) \X R |-> q[2] \o lists[q[1]]]
           Recurs(f) == f = [k \in 0 .. N |-> IF k = 0 THEN <<>> ELSE f[k - 1] \o lists[k]]
           r == CHOOSE f : Recurs(f)
<1>1. N \in Nat /\ \A k \in 1 .. N : lists[k] \in R
  BY LenProperties, ElementOfSeq
<1>2. <<>> \in R
  BY EmptySeq
<1>3. \A x \in R, k \in 1 .. N : x \o lists[k] \in R
  BY <1>1, ConcatProperties
<1> HIDE DEF N, R
<1>4. step \in [(1 .. N) \X R -> R]
  BY <1>3
<1>5. PICK f : Steps(f, N, R, <<>>, step)
  <2> HIDE DEF step
  <2> QED BY <1>1, <1>2, <1>4, StepsExist
<1>6. f \in [0 .. N -> R] /\ f[0] = <<>> /\ \A n \in 1 .. N : f[n] = f[n - 1] \o lists[n]
  <2>1. f \in [0 .. N -> R] /\ f[0] = <<>> /\ \A n \in 1 .. N : f[n] = step[<<n, f[n - 1]>>]
    <3> HIDE DEF step
    <3> QED BY <1>5 DEF Steps
  <2>2. \A n \in 1 .. N : n - 1 \in 0 .. N /\ f[n - 1] \in R
    BY <1>1, <2>1
  <2> QED BY <2>1, <2>2
<1>7. Recurs(f)
  <2>1. ASSUME NEW n \in 0 .. N PROVE f[n] = IF n = 0 THEN <<>> ELSE f[n - 1] \o lists[n]
    <3>1. CASE n = 0
      BY <1>6, <3>1
    <3>2. CASE n # 0
      <4>1. n \in 1 .. N
        BY <1>1, <3>2
      <4> QED BY <1>6, <3>2, <4>1
    <3> QED BY <3>1, <3>2
  <2> QED BY <1>6, <2>1
<1>8. Recurs(r)
  <2> HIDE DEF Recurs
  <2> QED BY <1>7
<1>9. \A n : JoinedTo(lists, n) = r[n]
  BY Zenon DEF JoinedTo, N
<1>10. r[0] = <<>> /\ \A n \in 1 .. N : r[n] = r[n - 1] \o lists[n]
  <2>1. \A n \in 0 .. N : r[n] = IF n = 0 THEN <<>> ELSE r[n - 1] \o lists[n]
    <3> HIDE DEF r
    <3> QED BY <1>8
  <2> HIDE DEF r, Recurs
  <2>2. 0 \in 0 .. N /\ \A n \in 1 .. N : n \in 0 .. N /\ n # 0
    BY <1>1
  <2>3. ASSUME NEW n \in 1 .. N PROVE r[n] = r[n - 1] \o lists[n]
    BY <2>1, <2>2
  <2> QED BY <2>1, <2>2, <2>3
<1> HIDE DEF r, Recurs
<1> DEFINE T == {n \in 0 .. N : r[n] \in R}
<1>11. 0 .. N \subseteq T
  <2>1. 0 \in T
    BY <1>1, <1>2, <1>10
  <2>2. ASSUME NEW n \in 0 .. N - 1, n \in T PROVE n + 1 \in T
    <3>1. n + 1 \in 1 .. N /\ n + 1 \in 0 .. N /\ (n + 1) - 1 = n /\ r[n] \in R
      BY <1>1, <2>2
    <3>2. r[n + 1] = r[n] \o lists[n + 1]
      BY <1>10, <3>1
    <3> QED BY <1>3, <3>1, <3>2
  <2> HIDE DEF T
  <2> QED BY <1>1, <2>1, <2>2, CountingTo
<1> QED BY <1>9, <1>10, <1>11 DEF N, R

LEMMA JoinedLies ==
  ASSUME NEW S, NEW lists \in Seq(Seq(S)), NEW n \in 1 .. Len(lists), NEW m \in n .. Len(lists)
  PROVE  /\ Len(JoinedTo(lists, n - 1)) \in Nat /\ Len(JoinedTo(lists, m)) \in Nat
         /\ Len(JoinedTo(lists, n)) = Len(JoinedTo(lists, n - 1)) + Len(lists[n])
         /\ Len(JoinedTo(lists, n)) <= Len(JoinedTo(lists, m))
         /\ \A j \in 1 .. Len(lists[n]) : JoinedTo(lists, m)[Len(JoinedTo(lists, n - 1)) + j] = lists[n][j]
<1> DEFINE N == Len(lists)
           J(k) == JoinedTo(lists, k)
           B == Len(J(n - 1))
           M == Len(lists[n])
<1>1. N \in Nat /\ \A k \in 1 .. N : lists[k] \in Seq(S) /\ Len(lists[k]) \in Nat
  BY LenProperties, ElementOfSeq
<1>2. \A k \in 0 .. N : J(k) \in Seq(S) /\ Len(J(k)) \in Nat
  BY JoinedSteps, LenProperties
<1>3. ASSUME NEW k \in 1 .. N
      PROVE  /\ J(k) = J(k - 1) \o lists[k] /\ k - 1 \in 0 .. N
             /\ Len(J(k)) = Len(J(k - 1)) + Len(lists[k])
             /\ \A i \in 1 .. Len(J(k)) : J(k)[i] = IF i <= Len(J(k - 1)) THEN J(k - 1)[i] ELSE lists[k][i - Len(J(k - 1))]
  <2>1. k - 1 \in 0 .. N
    BY <1>1
  <2>2. J(k) = J(k - 1) \o lists[k]
    BY JoinedSteps
  <2> DEFINE x == J(k - 1)
             y == lists[k]
  <2>3. x \in Seq(S) /\ y \in Seq(S) /\ J(k) = x \o y
    BY <1>1, <1>2, <2>1, <2>2
  <2> HIDE DEF x, y, J
  <2>4. /\ J(k) = x \o y /\ Len(J(k)) = Len(x) + Len(y)
        /\ \A i \in 1 .. Len(J(k)) : J(k)[i] = IF i <= Len(x) THEN x[i] ELSE y[i - Len(x)]
    BY <2>3, ConcatProperties
  <2> QED BY <2>1, <2>4 DEF x, y
<1> HIDE DEF J
<1>4. n \in 1 .. N /\ n \in Nat /\ m \in n .. N /\ m \in 0 .. N /\ n - 1 \in 0 .. N /\ B \in Nat /\ M \in Nat /\ Len(J(n)) = B + M
  <2>1. n \in 1 .. N /\ n \in Nat /\ m \in n .. N /\ m \in 0 .. N /\ n - 1 \in 0 .. N
    BY <1>1
  <2> HIDE DEF N
  <2> QED BY <1>1, <1>2, <1>3, <2>1
<1> HIDE DEF B, M, N
<1> DEFINE Good(k) == Len(J(n)) <= Len(J(k)) /\ \A j \in 1 .. M : J(k)[B + j] = lists[n][j]
           T == {k \in 0 .. N : k >= n => Good(k)}
<1>5. Good(n)
  <2>1. \A j \in 1 .. M : B + j \in 1 .. Len(J(n)) /\ ~(B + j <= B) /\ (B + j) - B = j
    BY <1>4
  <2>2. \A i \in 1 .. Len(J(n)) : J(n)[i] = IF i <= B THEN J(n - 1)[i] ELSE lists[n][i - B]
    BY <1>3, <1>4 DEF B
  <2>3. Len(J(n)) <= Len(J(n))
    BY <1>4
  <2> QED BY <2>1, <2>2, <2>3
<1>6. 0 \in T
  BY <1>1, <1>4
<1>7. ASSUME NEW k \in 0 .. N - 1, k \in T PROVE k + 1 \in T
  <2>1. k + 1 \in 1 .. N /\ k + 1 \in 0 .. N /\ (k + 1) - 1 = k /\ k \in 0 .. N
    BY <1>1
  <2> SUFFICES ASSUME k + 1 >= n PROVE Good(k + 1)
    BY <2>1
  <2>2. CASE k + 1 = n
    BY <1>5, <2>2
  <2>3. CASE k + 1 # n
    <3>1. Good(k)
      <4>1. k >= n
        BY <1>4, <2>1, <2>3
      <4> QED BY <1>7, <4>1
    <3>2. /\ Len(J(k + 1)) = Len(J(k)) + Len(lists[k + 1])
          /\ \A i \in 1 .. Len(J(k + 1)) : i <= Len(J(k)) => J(k + 1)[i] = J(k)[i]
      BY <1>3, <2>1
    <3>3. Len(J(k)) \in Nat /\ Len(lists[k + 1]) \in Nat /\ B + M <= Len(J(k))
      BY <1>1, <1>2, <1>4, <2>1, <3>1
    <3>4. \A j \in 1 .. M : B + j \in 1 .. Len(J(k + 1)) /\ B + j <= Len(J(k))
      <4> DEFINE u == Len(J(k))  v == Len(lists[k + 1])
      <4>1. u \in Nat /\ v \in Nat /\ B + M <= u /\ Len(J(k + 1)) = u + v
        BY <3>2, <3>3
      <4> HIDE DEF u, v
      <4>2. \A j \in 1 .. M : B + j \in 1 .. u + v /\ B + j <= u
        BY <1>4, <4>1
      <4> QED BY <4>1, <4>2 DEF u
    <3>5. Len(J(n)) <= Len(J(k + 1))
      <4> DEFINE u == Len(J(k))  v == Len(lists[k + 1])
      <4>1. u \in Nat /\ v \in Nat /\ B + M <= u /\ Len(J(k + 1)) = u + v /\ Len(J(n)) = B + M
        BY <1>4, <3>2, <3>3
      <4> HIDE DEF u, v
      <4> QED BY <1>4, <4>1
    <3> QED BY <3>1, <3>2, <3>4, <3>5
  <2> QED BY <2>2, <2>3
<1>8. Good(m)
  <2> HIDE DEF Good
  <2>1. m \in T
    <3> HIDE DEF T
    <3>1. 0 .. N \subseteq T
      BY <1>1, <1>6, <1>7, CountingTo
    <3> QED BY <1>4, <3>1
  <2> QED BY <1>4, <2>1
<1> QED BY <1>2, <1>4, <1>8 DEF J, B, M
---------------------------------------------------------------------------
(* The letters of a directive. *)
LEMMA NumeralTypes ==
  /\ DigitChars = {"0", "1", "2", "3", "4", "5", "6", "7", "8", "9"}
  /\ \A ch \in DigitChars : DigitValue(ch) \in 0 .. 9
  /\ DigitValue("1") = 1 /\ DigitValue("2") = 2 /\ DigitValue("3") = 3 /\ DigitValue("4") = 4 /\ DigitValue("6") = 6
<1>1. /\ Numerals[1] = "0" /\ Numerals[2] = "1" /\ Numerals[3] = "2" /\ Numerals[4] = "3" /\ Numerals[5] = "4"
      /\ Numerals[6] = "5" /\ Numerals[7] = "6" /\ Numerals[8] = "7" /\ Numerals[9] = "8" /\ Numerals[10] = "9"
  BY DEF Numerals
<1>2. DigitChars = {"0", "1", "2", "3", "4", "5", "6", "7", "8", "9"}
  BY <1>1 DEF DigitChars
<1>3. \A ch \in DigitChars : DigitValue(ch) \in 0 .. 9 /\ Numerals[DigitValue(ch) + 1] = ch
  BY DEF DigitChars, DigitValue
<1>4. \A ch \in DigitChars : \A k \in 0 .. 9 : Numerals[k + 1] = Numerals[DigitValue(ch) + 1] => k = DigitValue(ch)
  BY <1>1, <1>3
<1>5. \A k \in 0 .. 9 : Numerals[k + 1] \in DigitChars /\ DigitValue(Numerals[k + 1]) = k
  BY <1>3, <1>4 DEF DigitChars
<1> QED BY <1>1, <1>2, <1>3, <1>5

LEMMA OneLies == ASSUME NEW S, NEW x \in S PROVE <<x>> \in Seq(S) /\ Len(<<x>>) = 1 /\ <<x>>[1] = x
OBVIOUS

LEMMA TwoLie ==
  ASSUME NEW S, NEW x \in S, NEW y \in S
  PROVE  <<x, y>> \in Seq(S) /\ Len(<<x, y>>) = 2 /\ <<x, y>>[1] = x /\ <<x, y>>[2] = y
OBVIOUS

LEMMA ThreeLie ==
  ASSUME NEW S, NEW x \in S, NEW y \in S, NEW z \in S
  PROVE  <<x, y, z>> \in Seq(S) /\ Len(<<x, y, z>>) = 3 /\ <<x, y, z>>[1] = x
OBVIOUS

LengthChars == {"h", "l", "j", "z", "t", "L", "I"}
Chars == STRING \cup FlagChars \cup DigitChars \cup LengthChars \cup {"%", "*", "."}
NotRest == FlagChars \cup DigitChars \cup {"*", ".", NUL}

LEMMA CharTypes ==
  /\ STRING \subseteq Chars /\ FlagChars \subseteq Chars /\ DigitChars \subseteq Chars /\ LengthChars \subseteq Chars
  /\ "%" \in Chars /\ "*" \in Chars /\ "." \in Chars
  /\ \A ch \in LengthChars : ch \notin NotRest
  /\ \A ch \in DigitChars : ch \notin {"%", "*", ".", NUL} /\ (ch # "0" => ch \notin FlagChars)
  /\ \A ch \in FlagChars : ch \notin {"%", "*", ".", NUL}
  /\ "*" \notin FlagChars \cup DigitChars \cup {NUL, "."} /\ "." \notin FlagChars \cup DigitChars \cup {"*", NUL}
<1>1. STRING \subseteq Chars /\ FlagChars \subseteq Chars /\ DigitChars \subseteq Chars /\ LengthChars \subseteq Chars
      /\ "%" \in Chars /\ "*" \in Chars /\ "." \in Chars
  BY Zenon DEF Chars
<1>2. FlagChars = {"-", "+", " ", "0", "'", "#"} /\ DigitChars = {"0", "1", "2", "3", "4", "5", "6", "7", "8", "9"}
      /\ LengthChars = {"h", "l", "j", "z", "t", "L", "I"} /\ NUL = "NUL"
  BY NumeralTypes DEF FlagChars, LengthChars, NUL
<1>3. \A ch \in LengthChars : ch \notin NotRest
  BY <1>2 DEF NotRest
<1>4. \A ch \in DigitChars : ch \notin {"%", "*", ".", NUL} /\ (ch # "0" => ch \notin FlagChars)
  BY <1>2
<1>5. \A ch \in FlagChars : ch \notin {"%", "*", ".", NUL}
  BY <1>2
<1>6. "*" \notin FlagChars \cup DigitChars \cup {NUL, "."} /\ "." \notin FlagChars \cup DigitChars \cup {"*", NUL}
  BY <1>2
<1> QED BY <1>1, <1>3, <1>4, <1>5, <1>6

LEMMA LengthTypes ==
  ASSUME NEW t \in LengthTexts
  PROVE  t \in Seq(Chars) /\ Len(t) \in 0 .. 3 /\ (t # <<>> => Len(t) >= 1 /\ t[1] \in LengthChars)
<1>1. \A x \in Chars : <<x>> \in Seq(Chars) /\ Len(<<x>>) = 1 /\ <<x>>[1] = x
  BY OneLies
<1>2. \A x, y \in Chars : <<x, y>> \in Seq(Chars) /\ Len(<<x, y>>) = 2 /\ <<x, y>>[1] = x
  BY TwoLie
<1>3. \A x, y, z \in Chars : <<x, y, z>> \in Seq(Chars) /\ Len(<<x, y, z>>) = 3 /\ <<x, y, z>>[1] = x
  BY ThreeLie
<1>4. <<>> \in Seq(Chars) /\ Len(<<>>) = 0
  BY EmptySeq
<1>5. LengthChars \subseteq Chars /\ DigitChars \subseteq Chars
  BY CharTypes
<1> DEFINE Good == t \in Seq(Chars) /\ Len(t) \in 0 .. 3 /\ (t # <<>> => Len(t) >= 1 /\ t[1] \in LengthChars)
<1>6. CASE t = <<>>
  BY <1>4, <1>6
<1>7. ASSUME NEW x \in LengthChars, t = <<x>> PROVE Good
  <2>1. t \in Seq(Chars) /\ Len(t) = 1 /\ t[1] = x
    BY <1>1, <1>5, <1>7, Zenon
  <2> QED BY <2>1
<1>8. ASSUME NEW x \in LengthChars, t = <<x, x>> PROVE Good
  <2>1. t \in Seq(Chars) /\ Len(t) = 2 /\ t[1] = x
    BY <1>2, <1>5, <1>8, Zenon
  <2> QED BY <2>1
<1>9. ASSUME NEW x \in LengthChars, NEW y \in DigitChars, NEW z \in DigitChars, t = <<x, y, z>> PROVE Good
  <2>1. t \in Seq(Chars) /\ Len(t) = 3 /\ t[1] = x
    BY <1>3, <1>5, <1>9, Zenon
  <2> QED BY <2>1
<1> HIDE DEF Good
<1>10. \/ t = <<>> \/ \E x \in LengthChars : t = <<x>> \/ t = <<x, x>>
       \/ \E x \in LengthChars, y, z \in DigitChars : t = <<x, y, z>>
  <2>1. {"h", "l", "j", "z", "t", "L", "I"} = LengthChars /\ {"3", "2", "6", "4", "1"} \subseteq DigitChars
    BY NumeralTypes DEF LengthChars
  <2> QED BY <2>1, Zenon DEF LengthTexts, BadLength
<1>11. CASE t = <<>>
  BY <1>6, <1>11, Zenon DEF Good
<1> QED BY <1>7, <1>8, <1>9, <1>10, <1>11 DEF Good

LEMMA PieceTypes ==
  ASSUME NEW q, IsPiece(q), q.conv # "text"
  PROVE  /\ q.conv \in Chars /\ q.value \in Int /\ q.conv \notin NotRest \cup LengthChars
         /\ q.flags \in Seq(Chars) /\ q.width \in Seq(Chars) /\ q.precision \in Seq(Chars) /\ q.length \in Seq(Chars)
         /\ Len(q.flags) \in Nat /\ Len(q.width) \in Nat /\ Len(q.precision) \in Nat /\ Len(q.length) \in Nat
         /\ \A k \in 1 .. Len(q.flags) : q.flags[k] \in FlagChars
         /\ q.length \in LengthTexts
<1>1. q.conv \in Chars /\ q.value \in Int /\ q.conv \notin NotRest \cup LengthChars
  <2>1. q.conv \in STRING /\ q.value \in Int /\ q.conv \notin FlagChars \cup DigitChars \cup {"text", "*", ".", "h", "l", "j", "z", "t", "L", "I", NUL}
    BY Zenon DEF IsPiece
  <2>2. q.conv \in Chars
    BY <2>1, CharTypes
  <2>3. q.conv \notin NotRest \cup LengthChars
    BY <2>1, Zenon DEF NotRest, LengthChars
  <2> QED BY <2>1, <2>2, <2>3
<1>2. q.flags \in Seq(FlagChars) /\ q.length \in LengthTexts
  BY DEF IsPiece
<1>3. q.flags \in Seq(Chars) /\ \A k \in 1 .. Len(q.flags) : q.flags[k] \in FlagChars
  BY <1>2, CharTypes, SeqMonotonic, ElementOfSeq
<1>4. q.width \in Seq(Chars)
  <2>1. q.width = <<"*">> \/ q.width \in Seq(DigitChars)
    BY DEF IsPiece
  <2>2. CASE q.width = <<"*">>
    <3>1. "*" \in Chars
      BY CharTypes
    <3>2. <<"*">> \in Seq(Chars)
      BY <3>1, OneLies
    <3> QED BY <2>2, <3>2
  <2>3. CASE q.width \in Seq(DigitChars)
    BY <2>3, CharTypes, SeqMonotonic
  <2> QED BY <2>1, <2>2, <2>3
<1>5. q.precision \in Seq(Chars)
  <2>1. q.precision \in {<<>>, <<".", "*">>} \/ q.precision \in Seq(STRING)
    BY DEF IsPiece
  <2>2. "*" \in Chars /\ "." \in Chars
    BY CharTypes
  <2>3. <<>> \in Seq(Chars) /\ <<".", "*">> \in Seq(Chars)
    BY <2>2, TwoLie, EmptySeq
  <2>4. q.precision \in Seq(STRING) => q.precision \in Seq(Chars)
    BY CharTypes, SeqMonotonic
  <2> QED BY <2>1, <2>3, <2>4
<1>6. q.length \in Seq(Chars)
  BY <1>2, LengthTypes
<1> QED BY <1>1, <1>2, <1>3, <1>4, <1>5, <1>6, LenProperties

(* What stands where in a directive. *)
LiesBehind(S, s, t, st) ==
  /\ st \in Seq(S) /\ Len(st) = Len(s) + Len(t)
  /\ \A k \in 1 .. Len(s) : st[k] = s[k]
  /\ \A k \in 1 .. Len(t) : st[Len(s) + k] = t[k]

LEMMA ConcatLies ==
  ASSUME NEW S, NEW s \in Seq(S), NEW t \in Seq(S)
  PROVE  LiesBehind(S, s, t, s \o t)
<1> SUFFICES ASSUME NEW st, st = s \o t PROVE LiesBehind(S, s, t, st)
  OBVIOUS
<1>1. Len(s) \in Nat /\ Len(t) \in Nat
  BY LenProperties
<1>2. \A k \in 1 .. Len(s) : k \in 1 .. Len(s) + Len(t) /\ k <= Len(s)
  BY <1>1
<1>3. \A k \in 1 .. Len(t) : Len(s) + k \in 1 .. Len(s) + Len(t) /\ ~(Len(s) + k <= Len(s)) /\ (Len(s) + k) - Len(s) = k
  BY <1>1
<1>4. /\ s \o t \in Seq(S) /\ Len(s \o t) = Len(s) + Len(t)
      /\ \A i \in 1 .. Len(s) + Len(t) : (s \o t)[i] = IF i <= Len(s) THEN s[i] ELSE t[i - Len(s)]
  BY ConcatProperties
<1>5. /\ st \in Seq(S) /\ Len(st) = Len(s) + Len(t)
      /\ \A i \in 1 .. Len(s) + Len(t) : st[i] = IF i <= Len(s) THEN s[i] ELSE t[i - Len(s)]
  BY <1>4
<1>6. ASSUME NEW k \in 1 .. Len(s) PROVE st[k] = s[k]
  BY <1>2, <1>5
<1>7. ASSUME NEW k \in 1 .. Len(t) PROVE st[Len(s) + k] = t[k]
  BY <1>3, <1>5
<1> QED BY <1>5, <1>6, <1>7 DEF LiesBehind

LEMMA RenderedLies ==
  ASSUME NEW q, IsPiece(q), q.conv # "text"
  PROVE  LET r == Rendered(q) a == Len(q.flags) b == Len(q.width) d == Len(q.precision) e == Len(q.length) IN
         /\ r \in Seq(Chars) /\ Len(r) = a + b + d + e + 2 /\ r[1] = "%"
         /\ \A k \in 1 .. a : r[1 + k] = q.flags[k]
         /\ \A k \in 1 .. b : r[1 + a + k] = q.width[k]
         /\ \A k \in 1 .. d : r[1 + a + b + k] = q.precision[k]
         /\ \A k \in 1 .. e : r[1 + a + b + d + k] = q.length[k]
         /\ r[2 + a + b + d + e] = q.conv
<1> DEFINE a == Len(q.flags)
           b == Len(q.width)
           d == Len(q.precision)
           e == Len(q.length)
           r5 == <<q.conv>>
           r4 == q.length \o r5
           r3 == q.precision \o r4
           r2 == q.width \o r3
           r1 == q.flags \o r2
           r == <<"%">> \o r1
<1>1. /\ q.flags \in Seq(Chars) /\ q.width \in Seq(Chars) /\ q.precision \in Seq(Chars) /\ q.length \in Seq(Chars)
      /\ a \in Nat /\ b \in Nat /\ d \in Nat /\ e \in Nat /\ q.conv \in Chars
  BY PieceTypes
<1>2. r5 \in Seq(Chars) /\ Len(r5) = 1 /\ r5[1] = q.conv
  BY <1>1, OneLies
<1> DEFINE r0 == <<"%">>
<1>21. r0 \in Seq(Chars) /\ Len(r0) = 1 /\ r0[1] = "%"
  <2>1. "%" \in Chars
    BY CharTypes
  <2> QED BY <2>1, OneLies
<1> HIDE DEF r5
<1>3. /\ r4 \in Seq(Chars) /\ Len(r4) = Len(q.length) + Len(r5)
      /\ \A k \in 1 .. Len(q.length) : r4[k] = q.length[k]
      /\ \A k \in 1 .. Len(r5) : r4[Len(q.length) + k] = r5[k]
  <2>1. r4 = q.length \o r5
    BY DEF r4
  <2> HIDE DEF r4
  <2>2. LiesBehind(Chars, q.length, r5, r4)
    BY <1>1, <1>2, <2>1, ConcatLies, Zenon
  <2> QED BY <2>2, Zenon DEF LiesBehind
<1> HIDE DEF r4
<1>4. /\ r3 \in Seq(Chars) /\ Len(r3) = Len(q.precision) + Len(r4)
      /\ \A k \in 1 .. Len(q.precision) : r3[k] = q.precision[k]
      /\ \A k \in 1 .. Len(r4) : r3[Len(q.precision) + k] = r4[k]
  <2>1. r3 = q.precision \o r4
    BY DEF r3
  <2> HIDE DEF r3
  <2>2. LiesBehind(Chars, q.precision, r4, r3)
    BY <1>1, <1>3, <2>1, ConcatLies, Zenon
  <2> QED BY <2>2, Zenon DEF LiesBehind
<1> HIDE DEF r3
<1>5. /\ r2 \in Seq(Chars) /\ Len(r2) = Len(q.width) + Len(r3)
      /\ \A k \in 1 .. Len(q.width) : r2[k] = q.width[k]
      /\ \A k \in 1 .. Len(r3) : r2[Len(q.width) + k] = r3[k]
  <2>1. r2 = q.width \o r3
    BY DEF r2
  <2> HIDE DEF r2
  <2>2. LiesBehind(Chars, q.width, r3, r2)
    BY <1>1, <1>4, <2>1, ConcatLies, Zenon
  <2> QED BY <2>2, Zenon DEF LiesBehind
<1> HIDE DEF r2
<1>6. /\ r1 \in Seq(Chars) /\ Len(r1) = Len(q.flags) + Len(r2)
      /\ \A k \in 1 .. Len(q.flags) : r1[k] = q.flags[k]
      /\ \A k \in 1 .. Len(r2) : r1[Len(q.flags) + k] = r2[k]
  <2>1. r1 = q.flags \o r2
    BY DEF r1
  <2> HIDE DEF r1
  <2>2. LiesBehind(Chars, q.flags, r2, r1)
    BY <1>1, <1>5, <2>1, ConcatLies, Zenon
  <2> QED BY <2>2, Zenon DEF LiesBehind
<1> HIDE DEF r1, r0
<1>22. r = r0 \o r1
  BY DEF r0
<1>7. /\ r \in Seq(Chars) /\ Len(r) = Len(r0) + Len(r1)
      /\ \A k \in 1 .. Len(r0) : r[k] = r0[k]
      /\ \A k \in 1 .. Len(r1) : r[Len(r0) + k] = r1[k]
  <2>1. r = r0 \o r1
    BY <1>22
  <2> HIDE DEF r
  <2>2. LiesBehind(Chars, r0, r1, r)
    BY <1>1, <1>6, <1>21, <2>1, ConcatLies, Zenon
  <2> QED BY <2>2, Zenon DEF LiesBehind
<1>8. Rendered(q) = r
  BY DEF Rendered, r1, r2, r3, r4, r5
<1> HIDE DEF r, a, b, d, e
<1>23. /\ Len(r1) = a + Len(r2) /\ Len(r2) = b + Len(r3) /\ Len(r3) = d + Len(r4) /\ Len(r4) = e + 1 /\ Len(r) = 1 + Len(r1)
       /\ \A k \in 1 .. a : r1[k] = q.flags[k]
       /\ \A k \in 1 .. Len(r2) : r1[a + k] = r2[k]
       /\ \A k \in 1 .. b : r2[k] = q.width[k]
       /\ \A k \in 1 .. Len(r3) : r2[b + k] = r3[k]
       /\ \A k \in 1 .. d : r3[k] = q.precision[k]
       /\ \A k \in 1 .. Len(r4) : r3[d + k] = r4[k]
       /\ \A k \in 1 .. e : r4[k] = q.length[k]
       /\ r4[e + 1] = q.conv
       /\ \A k \in 1 .. Len(r1) : r[1 + k] = r1[k]
       /\ r[1] = "%" /\ r \in Seq(Chars)
  <2>1. 1 \in 1 .. Len(r5) /\ 1 \in 1 .. Len(r0)
    BY <1>2, <1>21
  <2>2. r4[Len(q.length) + 1] = q.conv /\ r[1] = "%"
    BY <1>2, <1>3, <1>7, <1>21, <2>1
  <2> QED BY <1>2, <1>3, <1>4, <1>5, <1>6, <1>7, <1>21, <2>2 DEF a, b, d, e
<1>9. Len(r1) = a + b + d + e + 1 /\ Len(r2) = b + d + e + 1 /\ Len(r3) = d + e + 1 /\ Len(r4) = e + 1
  BY <1>1, <1>23
<1>10. \A k \in 1 .. a : r[1 + k] = q.flags[k]
  <2>1. \A k \in 1 .. a : k \in 1 .. Len(r1)
    BY <1>1, <1>9
  <2> QED BY <1>23, <2>1
<1>11. \A k \in 1 .. Len(r2) : r[1 + a + k] = r2[k]
  <2>1. \A k \in 1 .. Len(r2) : a + k \in 1 .. Len(r1) /\ 1 + (a + k) = 1 + a + k
    BY <1>1, <1>9
  <2> QED BY <1>23, <2>1
<1>12. \A k \in 1 .. Len(r3) : r[1 + a + b + k] = r3[k]
  <2>1. \A k \in 1 .. Len(r3) : b + k \in 1 .. Len(r2) /\ 1 + a + (b + k) = 1 + a + b + k
    BY <1>1, <1>9
  <2> QED BY <1>23, <1>11, <2>1
<1>13. \A k \in 1 .. Len(r4) : r[1 + a + b + d + k] = r4[k]
  <2>1. \A k \in 1 .. Len(r4) : d + k \in 1 .. Len(r3) /\ 1 + a + b + (d + k) = 1 + a + b + d + k
    BY <1>1, <1>9
  <2> QED BY <1>23, <1>12, <2>1
<1>14. \A k \in 1 .. b : r[1 + a + k] = q.width[k]
  <2>1. \A k \in 1 .. b : k \in 1 .. Len(r2)
    BY <1>1, <1>9
  <2> QED BY <1>23, <1>11, <2>1
<1>15. \A k \in 1 .. d : r[1 + a + b + k] = q.precision[k]
  <2>1. \A k \in 1 .. d : k \in 1 .. Len(r3)
    BY <1>1, <1>9
  <2> QED BY <1>23, <1>12, <2>1
<1>16. \A k \in 1 .. e : r[1 + a + b + d + k] = q.length[k]
  <2>1. \A k \in 1 .. e : k \in 1 .. Len(r4)
    BY <1>1, <1>9
  <2> QED BY <1>23, <1>13, <2>1
<1>17. r[2 + a + b + d + e] = q.conv
  <2>1. e + 1 \in 1 .. Len(r4) /\ 1 + a + b + d + (e + 1) = 2 + a + b + d + e
    BY <1>1, <1>9
  <2> QED BY <1>23, <1>13, <2>1
<1>18. Len(r) = a + b + d + e + 2
  BY <1>1, <1>9, <1>23
<1> QED BY <1>8, <1>10, <1>14, <1>15, <1>16, <1>17, <1>18, <1>23 DEF a, b, d, e

(* What begins behind the flags, the width and the precision is no part of them. *)
LEMMA RestBegins ==
  ASSUME NEW q, IsPiece(q), q.conv # "text"
  PROVE  LET r == Rendered(q) a == Len(q.flags) b == Len(q.width) d == Len(q.precision) e == Len(q.length) IN
         /\ r[2 + a + b + d] \notin NotRest
         /\ r[2 + a + b + d] = IF e = 0 THEN q.conv ELSE q.length[1]
         /\ r[2 + a + b] = IF d = 0 THEN r[2 + a + b + d] ELSE "."
         /\ r[2 + a] = IF b = 0 THEN r[2 + a + b] ELSE q.width[1]
         /\ r[2 + a + b] \notin FlagChars \cup DigitChars \cup {"*", NUL}
         /\ r[2 + a] \notin FlagChars \cup {NUL}
         /\ b > 0 => q.width = <<"*">> \/ ((\A k \in 1 .. b : q.width[k] \in DigitChars) /\ q.width \in Seq(DigitChars))
         /\ b = 0 <=> q.width = <<>>
         /\ d = 0 <=> q.precision = <<>>
         /\ d > 0 /\ q.precision # <<".", "*">> =>
              /\ Tail(q.precision) \in Seq(DigitChars) /\ Len(Tail(q.precision)) = d - 1
              /\ \A k \in 1 .. d - 1 : Tail(q.precision)[k] = q.precision[k + 1] /\ q.precision[k + 1] \in DigitChars
<1> DEFINE a == Len(q.flags)
           b == Len(q.width)
           d == Len(q.precision)
           e == Len(q.length)
           r == Rendered(q)
<1>1. /\ q.flags \in Seq(Chars) /\ q.width \in Seq(Chars) /\ q.precision \in Seq(Chars) /\ q.length \in Seq(Chars)
      /\ a \in Nat /\ b \in Nat /\ d \in Nat /\ e \in Nat /\ q.length \in LengthTexts /\ q.conv \notin NotRest
  BY PieceTypes
<1>2. /\ \A k \in 1 .. b : r[1 + a + k] = q.width[k]
      /\ \A k \in 1 .. d : r[1 + a + b + k] = q.precision[k]
      /\ \A k \in 1 .. e : r[1 + a + b + d + k] = q.length[k]
      /\ r[2 + a + b + d + e] = q.conv
  BY RenderedLies
<1>3. /\ b > 0 => q.width = <<"*">> \/ ((\A k \in 1 .. b : q.width[k] \in DigitChars) /\ q.width \in Seq(DigitChars))
      /\ b > 0 => q.width[1] \notin FlagChars \cup {NUL}
      /\ b = 0 <=> q.width = <<>>
  <2>1. b = 0 <=> q.width = <<>>
    BY <1>1, EmptySeq
  <2>2. CASE q.width = <<"*">>
    <3>1. b = 1 /\ q.width[1] = "*"
      BY <2>2
    <3>2. "*" \notin FlagChars \cup {NUL}
      BY DEF FlagChars, NUL
    <3> QED BY <2>1, <2>2, <3>1, <3>2
  <2>3. CASE q.width # <<"*">>
    <3>1. q.width \in Seq(DigitChars) /\ (q.width # <<>> => Head(q.width) # "0")
      BY <2>3 DEF IsPiece
    <3>2. \A k \in 1 .. b : q.width[k] \in DigitChars
      BY <3>1, ElementOfSeq
    <3>3. b > 0 => q.width[1] # "0" /\ q.width[1] \in DigitChars
      BY <1>1, <2>1, <3>1, <3>2
    <3>4. \A ch \in DigitChars : ch # "0" => ch \notin FlagChars \cup {NUL}
      BY NumeralTypes DEF FlagChars, NUL
    <3> QED BY <2>1, <3>1, <3>2, <3>3, <3>4
  <2> QED BY <2>2, <2>3
<1>4. /\ d = 0 <=> q.precision = <<>>
      /\ d > 0 => q.precision[1] = "."
      /\ d > 0 /\ q.precision # <<".", "*">> =>
              /\ Tail(q.precision) \in Seq(DigitChars) /\ Len(Tail(q.precision)) = d - 1
              /\ \A k \in 1 .. d - 1 : Tail(q.precision)[k] = q.precision[k + 1] /\ q.precision[k + 1] \in DigitChars
  <2>1. d = 0 <=> q.precision = <<>>
    BY <1>1, EmptySeq
  <2>2. CASE q.precision = <<".", "*">>
    BY <2>1, <2>2
  <2>3. CASE q.precision = <<>>
    BY <2>1, <2>3
  <2>4. CASE q.precision \notin {<<>>, <<".", "*">>}
    <3>1. q.precision # <<>> /\ Head(q.precision) = "." /\ Tail(q.precision) \in Seq(DigitChars)
      BY <2>4 DEF IsPiece
    <3>2. Head(q.precision) = q.precision[1] /\ Len(Tail(q.precision)) = d - 1 /\ \A k \in 1 .. d - 1 : Tail(q.precision)[k] = q.precision[k + 1]
      BY <1>1, <3>1, FirstAndRest
    <3>3. \A k \in 1 .. d - 1 : Tail(q.precision)[k] \in DigitChars
      BY <3>1, <3>2, ElementOfSeq
    <3> QED BY <2>1, <3>1, <3>2, <3>3
  <2> QED BY <2>2, <2>3, <2>4
<1>5. e > 0 => q.length[1] \in LengthChars
  BY <1>1, LengthTypes
<1>6. \A ch \in LengthChars : ch \notin NotRest
  BY NumeralTypes DEF LengthChars, NotRest, FlagChars, NUL
<1> HIDE DEF a, b, d, e, r
<1>7. r[2 + a + b + d] = IF e = 0 THEN q.conv ELSE q.length[1]
  <2>1. e > 0 => 1 \in 1 .. e /\ 1 + a + b + d + 1 = 2 + a + b + d
    BY <1>1
  <2>2. e = 0 => 2 + a + b + d + e = 2 + a + b + d
    BY <1>1
  <2>3. CASE e = 0
    BY <1>2, <2>2, <2>3
  <2>4. CASE e # 0
    <3>1. e > 0
      BY <1>1, <2>4
    <3> QED BY <1>2, <2>1, <2>4, <3>1
  <2> QED BY <2>3, <2>4
<1>8. r[2 + a + b + d] \notin NotRest
  BY <1>1, <1>5, <1>6, <1>7
<1>9. r[2 + a + b] = IF d = 0 THEN r[2 + a + b + d] ELSE "."
  <2>1. d > 0 => 1 \in 1 .. d /\ 1 + a + b + 1 = 2 + a + b
    BY <1>1
  <2>2. d = 0 => 2 + a + b + d = 2 + a + b
    BY <1>1
  <2> QED BY <1>1, <1>2, <1>4, <2>1, <2>2
<1>10. r[2 + a] = IF b = 0 THEN r[2 + a + b] ELSE q.width[1]
  <2>1. b > 0 => 1 \in 1 .. b /\ 1 + a + 1 = 2 + a
    BY <1>1
  <2>2. b = 0 => 2 + a + b = 2 + a
    BY <1>1
  <2>3. CASE b = 0
    BY <1>2, <2>2, <2>3
  <2>4. CASE b # 0
    <3>1. b > 0
      BY <1>1, <2>4
    <3> QED BY <1>2, <2>1, <2>4, <3>1
  <2> QED BY <2>3, <2>4
<1>11. r[2 + a + b] \notin FlagChars \cup DigitChars \cup {"*", NUL}
  <2>1. "." \notin FlagChars \cup DigitChars \cup {"*", NUL}
    BY NumeralTypes DEF FlagChars, NUL
  <2> QED BY <1>8, <1>9, <2>1 DEF NotRest
<1>12. r[2 + a] \notin FlagChars \cup {NUL}
  BY <1>1, <1>3, <1>10, <1>11
<1> QED BY <1>3, <1>4, <1>7, <1>8, <1>9, <1>10, <1>11, <1>12 DEF a, b, d, e, r

(* A format, its texts and its characters, as constants. *)
SizeOf(f, n) == Len(TextTo(f.pieces, n))
CharOf(f, k) == IF k <= f.cut THEN TextTo(f.pieces, Len(f.pieces))[k] ELSE NUL
TextsOf(f) == [k \in DOMAIN f.pieces |-> Rendered(f.pieces[k])]

LEMMA FormatTypes ==
  ASSUME NEW f \in Formats
  PROVE  /\ f.pieces \in Seq(Pieces) /\ Len(f.pieces) \in Nat /\ f.cut \in Nat /\ f.cut <= SizeOf(f, Len(f.pieces))
         /\ \A n \in 1 .. Len(f.pieces) :
              /\ IsPiece(f.pieces[n])
              /\ f.pieces[n].conv = "text" =>
                   /\ n < Len(f.pieces) => f.pieces[n + 1].conv # "text"
                   /\ f.cut <= SizeOf(f, n - 1) \/ f.cut >= SizeOf(f, n)
              /\ f.pieces[n].conv # "text" /\ f.pieces[n].length = BadLength => n = Len(f.pieces)
<1>1. f.pieces \in Seq(Pieces) /\ f.cut \in 0 .. SizeOf(f, Len(f.pieces))
  BY FormatsAssumption, Zenon DEF SizeOf
<1>2. Len(f.pieces) \in Nat /\ DOMAIN f.pieces = 1 .. Len(f.pieces)
  BY <1>1, LenProperties
<1>3. f.cut \in Nat /\ f.cut <= SizeOf(f, Len(f.pieces))
  BY <1>1
<1>4. ASSUME NEW n \in 1 .. Len(f.pieces)
      PROVE   /\ IsPiece(f.pieces[n])
              /\ f.pieces[n].conv = "text" =>
                   /\ n < Len(f.pieces) => f.pieces[n + 1].conv # "text"
                   /\ f.cut <= SizeOf(f, n - 1) \/ f.cut >= SizeOf(f, n)
              /\ f.pieces[n].conv # "text" /\ f.pieces[n].length = BadLength => n = Len(f.pieces)
  BY <1>2, FormatsAssumption, Zenon DEF SizeOf
<1> QED BY <1>1, <1>2, <1>3, <1>4

LEMMA RenderedTypes ==
  ASSUME NEW q, IsPiece(q)
  PROVE  /\ Rendered(q) \in Seq(Chars) /\ Len(Rendered(q)) \in Nat /\ Len(Rendered(q)) >= 1
         /\ q.conv = "text" => Rendered(q) = q.text /\ \A k \in 1 .. Len(Rendered(q)) : Rendered(q)[k] \notin {"%", NUL}
         /\ Rendered(q)[1] # NUL
         /\ q.conv # "text" => Rendered(q)[1] = "%"
<1>1. CASE q.conv = "text"
  <2>1. q.text \in Seq(STRING) /\ q.text # <<>> /\ \A k \in DOMAIN q.text : q.text[k] \notin {"%", NUL}
    BY <1>1 DEF IsPiece
  <2>2. Rendered(q) = q.text
    BY <1>1 DEF Rendered
  <2>3. q.text \in Seq(Chars)
    BY <2>1, CharTypes, SeqMonotonic
  <2>4. Len(q.text) \in Nat /\ Len(q.text) >= 1 /\ DOMAIN q.text = 1 .. Len(q.text)
    BY <2>1, <2>3, FirstAndRest, LenProperties
  <2>5. q.text[1] \notin {"%", NUL}
    BY <2>1, <2>4
  <2> QED BY <1>1, <2>1, <2>2, <2>3, <2>4, <2>5
<1>2. CASE q.conv # "text"
  <2>1. Rendered(q) \in Seq(Chars) /\ Rendered(q)[1] = "%" /\ Len(Rendered(q)) = Len(q.flags) + Len(q.width) + Len(q.precision) + Len(q.length) + 2
    BY <1>2, RenderedLies
  <2>2. Len(q.flags) \in Nat /\ Len(q.width) \in Nat /\ Len(q.precision) \in Nat /\ Len(q.length) \in Nat
    BY <1>2, PieceTypes
  <2>3. Len(Rendered(q)) \in Nat /\ Len(Rendered(q)) >= 1
    <3> DEFINE a == Len(q.flags)
               b == Len(q.width)
               d == Len(q.precision)
               e == Len(q.length)
               l == Len(Rendered(q))
    <3>1. l = a + b + d + e + 2 /\ a \in Nat /\ b \in Nat /\ d \in Nat /\ e \in Nat
      BY <2>1, <2>2
    <3> HIDE DEF a, b, d, e, l
    <3>2. l \in Nat /\ l >= 1
      BY <3>1
    <3> QED BY <3>2 DEF l
  <2> QED BY <1>2, <2>1, <2>3 DEF NUL
<1> QED BY <1>1, <1>2

LEMMA TextsTypes ==
  ASSUME NEW f \in Formats
  PROVE  /\ TextsOf(f) \in Seq(Seq(Chars)) /\ Len(TextsOf(f)) = Len(f.pieces)
         /\ \A k \in 1 .. Len(f.pieces) : TextsOf(f)[k] = Rendered(f.pieces[k])
         /\ \A k : TextTo(f.pieces, k) = JoinedTo(TextsOf(f), k)
<1>1. f.pieces \in Seq(Pieces) /\ Len(f.pieces) \in Nat /\ \A k \in 1 .. Len(f.pieces) : Rendered(f.pieces[k]) \in Seq(Chars)
  BY FormatTypes, RenderedTypes
<1>2. DOMAIN f.pieces = 1 .. Len(f.pieces)
  BY <1>1, LenProperties
<1>3. TextsOf(f) \in [1 .. Len(f.pieces) -> Seq(Chars)] /\ \A k \in 1 .. Len(f.pieces) : TextsOf(f)[k] = Rendered(f.pieces[k])
  BY <1>1, <1>2 DEF TextsOf
<1>4. TextsOf(f) \in Seq(Seq(Chars)) /\ Len(TextsOf(f)) = Len(f.pieces)
  BY <1>1, <1>3, ASequence
<1>5. \A k : TextTo(f.pieces, k) = JoinedTo(TextsOf(f), k)
  BY Zenon DEF TextTo, TextsOf
<1> QED BY <1>3, <1>4, <1>5

LEMMA SizesLie ==
  ASSUME NEW f \in Formats, NEW n \in 1 .. Len(f.pieces)
  PROVE  /\ SizeOf(f, n - 1) \in Nat /\ SizeOf(f, n) \in Nat /\ SizeOf(f, n) = SizeOf(f, n - 1) + Len(Rendered(f.pieces[n]))
         /\ SizeOf(f, n) <= SizeOf(f, Len(f.pieces))
         /\ \A j \in 1 .. Len(Rendered(f.pieces[n])) :
              TextTo(f.pieces, Len(f.pieces))[SizeOf(f, n - 1) + j] = Rendered(f.pieces[n])[j]
<1> DEFINE ts == TextsOf(f)
           N == Len(f.pieces)
<1>1. N \in Nat
  BY FormatTypes
<1>2. ts \in Seq(Seq(Chars)) /\ Len(ts) = N /\ \A k \in 1 .. N : ts[k] = Rendered(f.pieces[k])
  BY TextsTypes
<1>3. \A k : TextTo(f.pieces, k) = JoinedTo(ts, k)
  BY TextsTypes
<1> HIDE DEF ts
<1>4. n \in 1 .. Len(ts) /\ N \in n .. Len(ts)
  BY <1>1, <1>2
<1>5. /\ Len(JoinedTo(ts, n - 1)) \in Nat /\ Len(JoinedTo(ts, N)) \in Nat
      /\ Len(JoinedTo(ts, n)) = Len(JoinedTo(ts, n - 1)) + Len(ts[n])
      /\ Len(JoinedTo(ts, n)) <= Len(JoinedTo(ts, N))
      /\ \A j \in 1 .. Len(ts[n]) : JoinedTo(ts, N)[Len(JoinedTo(ts, n - 1)) + j] = ts[n][j]
  BY <1>2, <1>4, JoinedLies, Zenon
<1>6. Len(Rendered(f.pieces[n])) \in Nat
  BY FormatTypes, RenderedTypes
<1>61. /\ TextTo(f.pieces, n - 1) = JoinedTo(ts, n - 1) /\ TextTo(f.pieces, n) = JoinedTo(ts, n)
       /\ TextTo(f.pieces, N) = JoinedTo(ts, N) /\ ts[n] = Rendered(f.pieces[n])
  BY <1>2, <1>3
<1>7. SizeOf(f, n - 1) \in Nat /\ SizeOf(f, n) = SizeOf(f, n - 1) + Len(Rendered(f.pieces[n])) /\ SizeOf(f, n) <= SizeOf(f, N)
  BY <1>5, <1>61 DEF SizeOf
<1>8. \A j \in 1 .. Len(Rendered(f.pieces[n])) :
              TextTo(f.pieces, N)[SizeOf(f, n - 1) + j] = Rendered(f.pieces[n])[j]
  BY <1>5, <1>61 DEF SizeOf
<1> QED BY <1>6, <1>7, <1>8

LEMMA FirstSize == ASSUME NEW f \in Formats PROVE SizeOf(f, 0) = 0 /\ \A n \in 0 .. Len(f.pieces) : SizeOf(f, n) \in Nat
<1> DEFINE ts == TextsOf(f)
           N == Len(f.pieces)
<1>1. N \in Nat
  BY FormatTypes
<1>2. ts \in Seq(Seq(Chars)) /\ Len(ts) = N
  BY TextsTypes
<1>3. \A k : TextTo(f.pieces, k) = JoinedTo(ts, k)
  BY TextsTypes
<1> HIDE DEF ts
<1>4. JoinedTo(ts, 0) = <<>> /\ \A n \in 0 .. N : JoinedTo(ts, n) \in Seq(Chars)
  BY <1>2, JoinedSteps
<1>5. \A n \in 0 .. N : SizeOf(f, n) \in Nat
  BY <1>3, <1>4, LenProperties DEF SizeOf
<1>6. SizeOf(f, 0) = 0
  BY <1>3, <1>4, EmptySeq DEF SizeOf
<1> QED BY <1>5, <1>6

LEMMA SizesGrow ==
  ASSUME NEW f \in Formats, NEW m \in 0 .. Len(f.pieces), NEW n \in 0 .. Len(f.pieces), m < n
  PROVE  SizeOf(f, m) < SizeOf(f, n)
<1> DEFINE N == Len(f.pieces)
           T == {k \in 0 .. N : k > m => SizeOf(f, m) < SizeOf(f, k)}
<1>1. N \in Nat /\ m \in Nat /\ n \in Nat
  BY FormatTypes
<1>2. 0 \in T
  BY <1>1
<1>3. ASSUME NEW k \in 0 .. N - 1, k \in T PROVE k + 1 \in T
  <2>1. k + 1 \in 1 .. N /\ k + 1 \in 0 .. N /\ (k + 1) - 1 = k /\ k \in 0 .. N
    BY <1>1
  <2>2. SizeOf(f, k) \in Nat /\ SizeOf(f, k + 1) \in Nat /\ SizeOf(f, m) \in Nat /\ SizeOf(f, k) < SizeOf(f, k + 1)
    <3>1. IsPiece(f.pieces[k + 1])
      BY <2>1, FormatTypes
    <3>2. Len(Rendered(f.pieces[k + 1])) \in Nat /\ Len(Rendered(f.pieces[k + 1])) >= 1
      BY <3>1, RenderedTypes
    <3>3. SizeOf(f, k + 1) = SizeOf(f, k) + Len(Rendered(f.pieces[k + 1]))
      BY <2>1, SizesLie
    <3>4. SizeOf(f, k) \in Nat /\ SizeOf(f, k + 1) \in Nat /\ SizeOf(f, m) \in Nat
      BY <2>1, FirstSize
    <3> QED BY <3>2, <3>3, <3>4
  <2>3. CASE k > m
    BY <1>3, <2>1, <2>2, <2>3
  <2>4. CASE ~(k > m)
    <3>1. k + 1 > m => k = m
      BY <1>1, <2>1, <2>4
    <3> QED BY <2>1, <2>2, <3>1
  <2> QED BY <2>3, <2>4
<1> HIDE DEF T
<1>4. 0 .. N \subseteq T
  BY <1>1, <1>2, <1>3, CountingTo
<1> QED BY <1>1, <1>4 DEF T

(* What is whole before the cut is told by the sizes. *)
WholeOf(f) ==
  CHOOSE n \in 0 .. Len(f.pieces) :
    SizeOf(f, n) <= f.cut /\ (n < Len(f.pieces) => f.cut < SizeOf(f, n + 1))

LEMMA WholeIs ==
  ASSUME NEW f \in Formats, NEW n \in 0 .. Len(f.pieces),
         SizeOf(f, n) <= f.cut, n < Len(f.pieces) => f.cut < SizeOf(f, n + 1)
  PROVE  WholeOf(f) = n
<1> DEFINE N == Len(f.pieces)
           Fits(k) == SizeOf(f, k) <= f.cut /\ (k < N => f.cut < SizeOf(f, k + 1))
<1>1. N \in Nat /\ f.cut \in Nat /\ \A k \in 0 .. N : SizeOf(f, k) \in Nat
  BY FormatTypes, FirstSize
<1>2. ASSUME NEW i \in 0 .. N, NEW k \in 0 .. N, Fits(i), Fits(k), i < k PROVE FALSE
  <2>1. i + 1 \in 0 .. N /\ i < N /\ (i + 1 = k \/ i + 1 < k)
    BY <1>1, <1>2
  <2>2. f.cut < SizeOf(f, i + 1) /\ SizeOf(f, k) <= f.cut
    BY <1>2, <2>1
  <2>3. SizeOf(f, i + 1) <= SizeOf(f, k)
    <3>1. CASE i + 1 = k
      BY <1>1, <2>1, <3>1
    <3>2. CASE i + 1 < k
      <4>1. SizeOf(f, i + 1) < SizeOf(f, k)
        BY <2>1, <3>2, SizesGrow
      <4> QED BY <1>1, <2>1, <4>1
    <3> QED BY <2>1, <3>1, <3>2
  <2> QED BY <1>1, <2>1, <2>2, <2>3
<1>3. Fits(n)
  OBVIOUS
<1>4. WholeOf(f) \in 0 .. N /\ Fits(WholeOf(f))
  BY <1>3, Zenon DEF WholeOf
<1> HIDE DEF Fits
<1>5. WholeOf(f) < n \/ n < WholeOf(f) \/ WholeOf(f) = n
  BY <1>1, <1>4
<1> QED BY <1>2, <1>3, <1>4, <1>5

(* The characters that printf reads. *)
LEMMA FormatIs ==
  ASSUME asked \in Formats
  PROVE  /\ Len(format) = asked.cut
         /\ \A k \in Nat \ {0} : CharAt(k) = CharOf(asked, k)
         /\ \A k \in 1 .. asked.cut : format[k] = TextTo(asked.pieces, Len(asked.pieces))[k]
         /\ TextTo(asked.pieces, Len(asked.pieces)) \in Seq(Chars)
<1> DEFINE t == TextTo(asked.pieces, Len(asked.pieces))
           cut == asked.cut
           fm == format
<1>1. cut \in Nat /\ cut <= SizeOf(asked, Len(asked.pieces)) /\ Len(asked.pieces) \in Nat
  BY FormatTypes
<1>2. t \in Seq(Chars) /\ Len(t) \in Nat /\ cut <= Len(t)
  <2>1. t = JoinedTo(TextsOf(asked), Len(asked.pieces)) /\ TextsOf(asked) \in Seq(Seq(Chars)) /\ Len(TextsOf(asked)) = Len(asked.pieces)
    BY TextsTypes
  <2>2. \A n \in 0 .. Len(TextsOf(asked)) : JoinedTo(TextsOf(asked), n) \in Seq(Chars)
    BY <2>1, JoinedSteps
  <2>3. t \in Seq(Chars)
    BY <1>1, <2>1, <2>2
  <2> QED BY <1>1, <2>3, LenProperties DEF SizeOf
<1>3. fm = SubSeq(t, 1, cut)
  BY DEF format
<1> HIDE DEF t, fm, cut
<1>4. Len(fm) = cut /\ \A k \in 1 .. cut : fm[k] = t[k]
  <2>1. CASE cut = 0
    <3>1. 1 \in 1 .. Len(t) + 1 /\ cut \in 1 - 1 .. Len(t) /\ 1 > cut
      BY <1>1, <1>2, <2>1
    <3>2. SubSeq(t, 1, cut) = <<>>
      BY <1>2, <3>1, SubSeqProperties
    <3> QED BY <1>3, <2>1, <3>2, EmptySeq
  <2>2. CASE cut # 0
    <3>1. 1 \in 1 .. Len(t) /\ cut \in 1 .. Len(t) /\ 1 <= cut
      BY <1>1, <1>2, <2>2
    <3> QED BY <1>2, <1>3, <3>1
  <2> QED BY <2>1, <2>2
<1>5. \A k : CharAt(k) = IF k <= Len(fm) THEN fm[k] ELSE NUL
  BY DEF CharAt, fm
<1>6. \A k : CharOf(asked, k) = IF k <= cut THEN t[k] ELSE NUL
  BY DEF CharOf, cut, t
<1>7. ASSUME NEW k \in Nat \ {0} PROVE CharAt(k) = CharOf(asked, k)
  <2>1. k <= cut => k \in 1 .. cut
    BY <1>1
  <2> QED BY <1>4, <1>5, <1>6, <2>1
<1> QED BY <1>2, <1>4, <1>7 DEF fm, cut, t

(* What reaches the host. *)
LEMMA SentLies ==
  ASSUME NEW f \in Formats
  PROVE  /\ SentTo(f.pieces, 0) = <<>>
         /\ \A n \in 1 .. Len(f.pieces) :
              /\ Sent(f.pieces[n]) = <<>> => SentTo(f.pieces, n) = SentTo(f.pieces, n - 1)
              /\ \A e : Sent(f.pieces[n]) = <<e>> => SentTo(f.pieces, n) = Append(SentTo(f.pieces, n - 1), e)
<1> DEFINE ps == f.pieces
           ss == [k \in DOMAIN ps |-> Sent(ps[k])]
           Any == {[to |-> "string", text |-> ps[k].text] : k \in DOMAIN ps} \cup {Meaning(ps[k]) : k \in DOMAIN ps}
<1>1. Len(ps) \in Nat /\ DOMAIN ps = 1 .. Len(ps)
  BY FormatTypes, LenProperties
<1>2. ASSUME NEW k \in DOMAIN ps PROVE Sent(ps[k]) \in Seq(Any)
  <2>1. [to |-> "string", text |-> ps[k].text] \in Any /\ Meaning(ps[k]) \in Any
    OBVIOUS
  <2> HIDE DEF Any
  <2>2. \/ Sent(ps[k]) = <<>> \/ Sent(ps[k]) = <<[to |-> "string", text |-> ps[k].text]>> \/ Sent(ps[k]) = <<Meaning(ps[k])>>
    BY DEF Sent
  <2> QED BY <2>1, <2>2, OneLies, EmptySeq
<1> HIDE DEF Any
<1>3. ss \in [1 .. Len(ps) -> Seq(Any)] /\ \A k \in 1 .. Len(ps) : ss[k] = Sent(ps[k])
  BY <1>1, <1>2
<1>4. \A n : SentTo(ps, n) = JoinedTo(ss, n)
  BY Zenon DEF SentTo
<1> HIDE DEF ss, ps
<1>5. ss \in Seq(Seq(Any)) /\ Len(ss) = Len(ps)
  BY <1>1, <1>3, ASequence
<1>6. /\ JoinedTo(ss, 0) = <<>> /\ \A n \in 1 .. Len(ss) : JoinedTo(ss, n) = JoinedTo(ss, n - 1) \o ss[n]
      /\ \A n \in 0 .. Len(ss) : JoinedTo(ss, n) \in Seq(Any)
  BY <1>5, JoinedSteps
<1>7. /\ SentTo(ps, 0) = <<>> /\ \A n \in 1 .. Len(ps) : SentTo(ps, n) = SentTo(ps, n - 1) \o Sent(ps[n])
      /\ \A n \in 0 .. Len(ps) : SentTo(ps, n) \in Seq(Any)
  BY <1>3, <1>4, <1>5, <1>6
<1>8. ASSUME NEW n \in 1 .. Len(ps), Sent(ps[n]) = <<>> PROVE SentTo(ps, n) = SentTo(ps, n - 1)
  <2>0. n - 1 \in 0 .. Len(ps)
    BY <1>1
  <2>1. SentTo(ps, n - 1) \in Seq(Any) /\ SentTo(ps, n) = SentTo(ps, n - 1) \o <<>>
    BY <1>7, <1>8, <2>0, Zenon
  <2> QED BY <2>1, ConcatEmptySeq
<1>9. ASSUME NEW n \in 1 .. Len(ps), NEW e, Sent(ps[n]) = <<e>> PROVE SentTo(ps, n) = Append(SentTo(ps, n - 1), e)
  <2>0. n - 1 \in 0 .. Len(ps)
    BY <1>1
  <2>1. SentTo(ps, n - 1) \in Seq(Any) /\ SentTo(ps, n) = SentTo(ps, n - 1) \o <<e>>
    BY <1>7, <1>9, <2>0, Zenon
  <2>2. Any \subseteq Any \cup {e} /\ e \in Any \cup {e}
    OBVIOUS
  <2>3. SentTo(ps, n - 1) \in Seq(Any \cup {e})
    BY <2>1, <2>2, SeqMonotonic
  <2> QED BY <2>1, <2>2, <2>3, AppendIsConcat
<1> QED BY <1>7, <1>8, <1>9 DEF ps

(* The arguments of a directive. *)
Ones(x) == IF x THEN 1 ELSE 0
WidthArgs(q) == Ones(q.width = <<"*">>)
StarArgs(q) == WidthArgs(q) + Ones(q.precision = <<".", "*">>)
HasArg(q) == q.conv # "%" /\ Known(q)
ArgSet == {Arg("int", q.value) : q \in Pieces} \cup {Arg(StandardType(q.conv, q.length), 0) : q \in {piece \in Pieces : piece.conv # "text" /\ HasArg(piece)}}

LEMMA ArgsOfLies ==
  ASSUME NEW q \in Pieces, q.conv # "text"
  PROVE  /\ ArgsOf(q) \in Seq(ArgSet) /\ Len(ArgsOf(q)) = StarArgs(q) + Ones(HasArg(q))
         /\ WidthArgs(q) \in {0, 1} /\ StarArgs(q) \in 0 .. 2 /\ Ones(HasArg(q)) \in {0, 1} /\ StarArgs(q) - WidthArgs(q) \in {0, 1}
         /\ q.width = <<"*">> => WidthArgs(q) = 1 /\ ArgsOf(q)[1] = Arg("int", q.value)
         /\ q.width # <<"*">> => WidthArgs(q) = 0
         /\ q.precision = <<".", "*">> => StarArgs(q) = WidthArgs(q) + 1 /\ ArgsOf(q)[WidthArgs(q) + 1] = Arg("int", q.value)
         /\ q.precision # <<".", "*">> => StarArgs(q) = WidthArgs(q)
         /\ HasArg(q) => ArgsOf(q)[StarArgs(q) + 1] = Arg(StandardType(q.conv, q.length), 0)
<1> DEFINE x == IF q.width = <<"*">> THEN <<Arg("int", q.value)>> ELSE <<>>
           y == IF q.precision = <<".", "*">> THEN <<Arg("int", q.value)>> ELSE <<>>
           z == IF HasArg(q) THEN <<Arg(StandardType(q.conv, q.length), 0)>> ELSE <<>>
           u == x \o y
           v == u \o z
           i == Arg("int", q.value)
           w == Arg(StandardType(q.conv, q.length), 0)
<1>1. i \in ArgSet /\ (HasArg(q) => w \in ArgSet)
  BY DEF ArgSet
<1>2. ArgsOf(q) = v
  BY Zenon DEF ArgsOf, HasArg
<1>3. WidthArgs(q) = Ones(q.width = <<"*">>) /\ StarArgs(q) = WidthArgs(q) + Ones(q.precision = <<".", "*">>)
  BY DEF WidthArgs, StarArgs
<1>4. \A b \in BOOLEAN : Ones(b) = IF b THEN 1 ELSE 0
  BY DEF Ones
<1> DEFINE w1 == WidthArgs(q)
           p1 == Ones(q.precision = <<".", "*">>)
           h1 == Ones(HasArg(q))
<1> HIDE DEF i, w
<1>5. x \in Seq(ArgSet) /\ Len(x) = w1 /\ w1 \in {0, 1} /\ (q.width = <<"*">> => w1 = 1 /\ x[1] = i) /\ (q.width # <<"*">> => w1 = 0)
  <2>1. CASE q.width = <<"*">>
    <3>1. x = <<i>> /\ w1 = 1
      BY <2>1 DEF i, Ones, WidthArgs
    <3> HIDE DEF x, w1
    <3> QED BY <1>1, <2>1, <3>1, OneLies
  <2>2. CASE q.width # <<"*">>
    <3>1. x = <<>> /\ w1 = 0
      BY <2>2 DEF i, Ones, WidthArgs
    <3> HIDE DEF x, w1
    <3> QED BY <1>1, <2>2, <3>1, EmptySeq
  <2> QED BY <2>1, <2>2
<1>6. y \in Seq(ArgSet) /\ Len(y) = p1 /\ p1 \in {0, 1} /\ (q.precision = <<".", "*">> => p1 = 1 /\ y[1] = i) /\ (q.precision # <<".", "*">> => p1 = 0)
  <2>1. CASE q.precision = <<".", "*">>
    <3>1. y = <<i>> /\ p1 = 1
      BY <2>1 DEF i, Ones
    <3> HIDE DEF y, p1
    <3> QED BY <1>1, <2>1, <3>1, OneLies
  <2>2. CASE q.precision # <<".", "*">>
    <3>1. y = <<>> /\ p1 = 0
      BY <2>2 DEF i, Ones
    <3> HIDE DEF y, p1
    <3> QED BY <1>1, <2>2, <3>1, EmptySeq
  <2> QED BY <2>1, <2>2
<1>7. z \in Seq(ArgSet) /\ Len(z) = h1 /\ h1 \in {0, 1} /\ (HasArg(q) => h1 = 1 /\ z[1] = w)
  <2>1. CASE HasArg(q)
    <3>1. z = <<w>> /\ h1 = 1
      BY <2>1 DEF w, Ones
    <3> HIDE DEF z, h1
    <3> QED BY <1>1, <2>1, <3>1, OneLies
  <2>2. CASE ~HasArg(q)
    <3>1. z = <<>> /\ h1 = 0
      BY <2>2 DEF w, Ones
    <3> HIDE DEF z, h1
    <3> QED BY <1>1, <2>2, <3>1, EmptySeq
  <2> QED BY <2>1, <2>2
<1> HIDE DEF x, y, z, w1, p1, h1
<1>8. LiesBehind(ArgSet, x, y, u)
  BY <1>5, <1>6, ConcatLies, Zenon
<1>9. u \in Seq(ArgSet)
  BY <1>8, Zenon DEF LiesBehind
<1> HIDE DEF u
<1>10. LiesBehind(ArgSet, u, z, v)
  BY <1>7, <1>9, ConcatLies, Zenon
<1> HIDE DEF v
<1>11. /\ Len(u) = w1 + p1 /\ Len(v) = w1 + p1 + h1 /\ v \in Seq(ArgSet)
       /\ \A k \in 1 .. w1 : u[k] = x[k]
       /\ \A k \in 1 .. p1 : u[w1 + k] = y[k]
       /\ \A k \in 1 .. w1 + p1 : v[k] = u[k]
       /\ \A k \in 1 .. h1 : v[w1 + p1 + k] = z[k]
  <2>1. Len(u) = w1 + p1
    BY <1>5, <1>6, <1>8, Zenon DEF LiesBehind
  <2>2. Len(v) = w1 + p1 + h1
    BY <1>7, <1>10, <2>1, Zenon DEF LiesBehind
  <2>3. (\A k \in 1 .. w1 : u[k] = x[k]) /\ (\A k \in 1 .. p1 : u[w1 + k] = y[k])
    BY <1>5, <1>6, <1>8, Zenon DEF LiesBehind
  <2>4. (\A k \in 1 .. w1 + p1 : v[k] = u[k]) /\ (\A k \in 1 .. h1 : v[w1 + p1 + k] = z[k]) /\ v \in Seq(ArgSet)
    BY <1>7, <1>10, <2>1, Zenon DEF LiesBehind
  <2> QED BY <2>1, <2>2, <2>3, <2>4
<1>12. q.width = <<"*">> => v[1] = i
  <2>1. w1 = 1 => 1 \in 1 .. w1 /\ 1 \in 1 .. w1 + p1
    BY <1>6
  <2> QED BY <1>5, <1>11, <2>1
<1>13. q.precision = <<".", "*">> => v[w1 + 1] = i
  <2>1. p1 = 1 => 1 \in 1 .. p1 /\ w1 + 1 \in 1 .. w1 + p1
    BY <1>5
  <2> QED BY <1>6, <1>11, <2>1
<1>14. HasArg(q) => v[w1 + p1 + 1] = w
  <2>1. h1 = 1 => 1 \in 1 .. h1
    OBVIOUS
  <2> QED BY <1>7, <1>11, <2>1
<1>15. StarArgs(q) = w1 + p1 /\ WidthArgs(q) = w1 /\ Ones(HasArg(q)) = h1
  BY DEF StarArgs, w1, p1, h1
<1>16. StarArgs(q) \in 0 .. 2 /\ StarArgs(q) - WidthArgs(q) \in {0, 1} /\ (q.precision # <<".", "*">> => StarArgs(q) = WidthArgs(q))
       /\ (q.precision = <<".", "*">> => StarArgs(q) = WidthArgs(q) + 1)
  <2>1. w1 \in {0, 1} /\ p1 \in {0, 1} /\ StarArgs(q) = w1 + p1 /\ WidthArgs(q) = w1
    BY <1>5, <1>6, <1>15
  <2>2. StarArgs(q) \in 0 .. 2 /\ StarArgs(q) - WidthArgs(q) \in {0, 1} /\ (p1 = 0 => StarArgs(q) = WidthArgs(q)) /\ (p1 = 1 => StarArgs(q) = WidthArgs(q) + 1)
    BY <2>1
  <2> QED BY <1>6, <2>2
<1> QED BY <1>2, <1>5, <1>6, <1>7, <1>11, <1>12, <1>13, <1>14, <1>15, <1>16 DEF i, w

(* How many arguments the first n pieces of a format have, and where the     *)
(* ones of a piece stand.                                                    *)
ArgBase(f, n) == Len(ArgsTo(f.pieces, n))

LEMMA ArgsLie ==
  ASSUME NEW f \in Formats
  PROVE  /\ ArgsOfAll(f.pieces) \in Seq(ArgSet) /\ Len(ArgsOfAll(f.pieces)) = ArgBase(f, Len(f.pieces)) /\ ArgBase(f, 0) = 0
         /\ \A n \in 1 .. Len(f.pieces) :
              /\ ArgBase(f, n - 1) \in Nat /\ ArgBase(f, n) \in Nat
              /\ Len(ArgsOf(f.pieces[n])) \in Nat /\ ArgBase(f, n) = ArgBase(f, n - 1) + Len(ArgsOf(f.pieces[n]))
              /\ ArgBase(f, n) <= ArgBase(f, Len(f.pieces))
              /\ \A j \in 1 .. Len(ArgsOf(f.pieces[n])) : ArgsOfAll(f.pieces)[ArgBase(f, n - 1) + j] = ArgsOf(f.pieces[n])[j]
<1> DEFINE ps == f.pieces
           as == [k \in DOMAIN ps |-> ArgsOf(ps[k])]
           N == Len(ps)
<1>1. ps \in Seq(Pieces) /\ N \in Nat /\ DOMAIN ps = 1 .. N
  BY FormatTypes, LenProperties
<1>2. ASSUME NEW k \in 1 .. N PROVE ArgsOf(ps[k]) \in Seq(ArgSet)
  <2>1. ps[k] \in Pieces
    BY <1>1, ElementOfSeq
  <2>2. CASE ps[k].conv = "text"
    <3>1. ArgsOf(ps[k]) = <<>>
      BY <2>2 DEF ArgsOf
    <3> QED BY <3>1, EmptySeq
  <2>3. CASE ps[k].conv # "text"
    BY <2>1, <2>3, ArgsOfLies
  <2> QED BY <2>2, <2>3
<1>3. as \in [1 .. N -> Seq(ArgSet)] /\ \A k \in 1 .. N : as[k] = ArgsOf(ps[k])
  BY <1>1, <1>2
<1>4. \A n : ArgsTo(ps, n) = JoinedTo(as, n)
  BY Zenon DEF ArgsTo
<1>5. ArgsOfAll(ps) = ArgsTo(ps, N)
  BY DEF ArgsOfAll
<1> HIDE DEF as, ps
<1>6. as \in Seq(Seq(ArgSet)) /\ Len(as) = N
  BY <1>1, <1>3, ASequence
<1>7. JoinedTo(as, 0) = <<>> /\ \A n \in 0 .. Len(as) : JoinedTo(as, n) \in Seq(ArgSet)
  BY <1>6, JoinedSteps
<1>8. ArgsOfAll(ps) \in Seq(ArgSet) /\ Len(ArgsTo(ps, 0)) = 0
  <2>1. N \in 0 .. Len(as)
    BY <1>1, <1>6
  <2>2. JoinedTo(as, N) \in Seq(ArgSet) /\ ArgsOfAll(ps) = JoinedTo(as, N) /\ ArgsTo(ps, 0) = <<>>
    BY <1>4, <1>5, <1>7, <2>1
  <2> QED BY <2>2, EmptySeq
<1>9. ASSUME NEW n \in 1 .. N
      PROVE   /\ Len(ArgsTo(ps, n - 1)) \in Nat /\ Len(ArgsTo(ps, n)) \in Nat
              /\ Len(ArgsOf(ps[n])) \in Nat /\ Len(ArgsTo(ps, n)) = Len(ArgsTo(ps, n - 1)) + Len(ArgsOf(ps[n]))
              /\ Len(ArgsTo(ps, n)) <= Len(ArgsTo(ps, N))
              /\ \A j \in 1 .. Len(ArgsOf(ps[n])) : ArgsOfAll(ps)[Len(ArgsTo(ps, n - 1)) + j] = ArgsOf(ps[n])[j]
  <2>1. n \in 1 .. Len(as) /\ N \in n .. Len(as)
    BY <1>1, <1>6
  <2>2. /\ Len(JoinedTo(as, n - 1)) \in Nat /\ Len(JoinedTo(as, N)) \in Nat
        /\ Len(JoinedTo(as, n)) = Len(JoinedTo(as, n - 1)) + Len(as[n])
        /\ Len(JoinedTo(as, n)) <= Len(JoinedTo(as, N))
        /\ \A j \in 1 .. Len(as[n]) : JoinedTo(as, N)[Len(JoinedTo(as, n - 1)) + j] = as[n][j]
    BY <1>6, <2>1, JoinedLies, Zenon
  <2>3. /\ ArgsTo(ps, n - 1) = JoinedTo(as, n - 1) /\ ArgsTo(ps, n) = JoinedTo(as, n)
        /\ ArgsTo(ps, N) = JoinedTo(as, N) /\ as[n] = ArgsOf(ps[n]) /\ ArgsOfAll(ps) = JoinedTo(as, N)
    BY <1>3, <1>4, <1>5
  <2>4. Len(ArgsOf(ps[n])) \in Nat
    BY <1>2, LenProperties
  <2>5. Len(ArgsTo(ps, n - 1)) \in Nat /\ Len(ArgsTo(ps, n)) = Len(ArgsTo(ps, n - 1)) + Len(ArgsOf(ps[n])) /\ Len(ArgsTo(ps, n)) <= Len(ArgsTo(ps, N))
    BY <2>2, <2>3
  <2>6. \A j \in 1 .. Len(ArgsOf(ps[n])) : ArgsOfAll(ps)[Len(ArgsTo(ps, n - 1)) + j] = ArgsOf(ps[n])[j]
    BY <2>2, <2>3
  <2>7. Len(ArgsTo(ps, n)) \in Nat
    BY <2>4, <2>5
  <2> QED BY <2>4, <2>5, <2>6, <2>7
<1>10. Len(ArgsOfAll(ps)) = Len(ArgsTo(ps, N))
  BY <1>5
<1> QED BY <1>8, <1>9, <1>10 DEF ArgBase, ps

LEMMA DecimalSteps ==
  ASSUME NEW digits \in Seq(DigitChars)
  PROVE  /\ Decimal(digits, 0) = 0
         /\ \A k \in 1 .. Len(digits) : Decimal(digits, k - 1) \in Nat /\ Decimal(digits, k) \in Nat
              /\ Decimal(digits, k) = Decimal(digits, k - 1) * 10 + DigitValue(digits[k])
<1> DEFINE N == Len(digits)
           step == [q \in (1 .. N) \X Nat |-> q[2] * 10 + DigitValue(digits[q[1]])]
           Recurs(f) == f = [k \in 0 .. N |-> IF k = 0 THEN 0 ELSE f[k - 1] * 10 + DigitValue(digits[k])]
           r == CHOOSE f : Recurs(f)
<1>1. N \in Nat /\ \A k \in 1 .. N : DigitValue(digits[k]) \in Nat
  <2>1. \A k \in 1 .. N : digits[k] \in DigitChars
    BY ElementOfSeq
  <2>2. \A ch \in DigitChars : DigitValue(ch) \in 0 .. 9
    BY NumeralTypes
  <2> QED BY <2>1, <2>2, LenProperties
<1>3. \A x \in Nat, k \in 1 .. N : x * 10 + DigitValue(digits[k]) \in Nat
  BY <1>1
<1> HIDE DEF N
<1>4. step \in [(1 .. N) \X Nat -> Nat]
  BY <1>3
<1>5. PICK f : Steps(f, N, Nat, 0, step)
  <2> HIDE DEF step
  <2> QED BY <1>1, <1>4, StepsExist
<1>6. f \in [0 .. N -> Nat] /\ f[0] = 0 /\ \A n \in 1 .. N : f[n] = f[n - 1] * 10 + DigitValue(digits[n])
  <2>1. f \in [0 .. N -> Nat] /\ f[0] = 0 /\ \A n \in 1 .. N : f[n] = step[<<n, f[n - 1]>>]
    <3> HIDE DEF step
    <3> QED BY <1>5 DEF Steps
  <2>2. \A n \in 1 .. N : n - 1 \in 0 .. N /\ f[n - 1] \in Nat
    BY <1>1, <2>1
  <2> QED BY <2>1, <2>2
<1>7. Recurs(f)
  <2>1. ASSUME NEW n \in 0 .. N PROVE f[n] = IF n = 0 THEN 0 ELSE f[n - 1] * 10 + DigitValue(digits[n])
    <3>1. CASE n = 0
      BY <1>6, <3>1
    <3>2. CASE n # 0
      <4>1. n \in 1 .. N
        BY <1>1, <3>2
      <4> QED BY <1>6, <3>2, <4>1
    <3> QED BY <3>1, <3>2
  <2> QED BY <1>6, <2>1
<1>8. Recurs(r)
  <2> HIDE DEF Recurs
  <2> QED BY <1>7
<1>9. \A n : Decimal(digits, n) = r[n]
  BY Zenon DEF Decimal, N
<1>10. r[0] = 0 /\ \A n \in 1 .. N : r[n] = r[n - 1] * 10 + DigitValue(digits[n])
  <2>1. \A n \in 0 .. N : r[n] = IF n = 0 THEN 0 ELSE r[n - 1] * 10 + DigitValue(digits[n])
    <3> HIDE DEF r
    <3> QED BY <1>8
  <2> HIDE DEF r, Recurs
  <2>2. 0 \in 0 .. N /\ \A n \in 1 .. N : n \in 0 .. N /\ n # 0
    BY <1>1
  <2>3. ASSUME NEW n \in 1 .. N PROVE r[n] = r[n - 1] * 10 + DigitValue(digits[n])
    BY <2>1, <2>2
  <2> QED BY <2>1, <2>2, <2>3
<1> HIDE DEF r, Recurs
<1> DEFINE T == {n \in 0 .. N : r[n] \in Nat}
<1>11. 0 .. N \subseteq T
  <2>1. 0 \in T
    BY <1>1, <1>10
  <2>2. ASSUME NEW n \in 0 .. N - 1, n \in T PROVE n + 1 \in T
    <3>1. n + 1 \in 1 .. N /\ n + 1 \in 0 .. N /\ (n + 1) - 1 = n /\ r[n] \in Nat
      BY <1>1, <2>2
    <3>2. r[n + 1] = r[n] * 10 + DigitValue(digits[n + 1])
      BY <1>10, <3>1
    <3> QED BY <1>3, <3>1, <3>2
  <2> HIDE DEF T
  <2> QED BY <1>1, <2>1, <2>2, CountingTo
<1>12. \A n \in 1 .. N : r[n - 1] \in Nat /\ r[n] \in Nat
  <2>1. \A n \in 1 .. N : n \in 0 .. N /\ n - 1 \in 0 .. N
    BY <1>1
  <2> QED BY <1>11, <2>1
<1> QED BY <1>9, <1>10, <1>12 DEF N

(* The places of a directive where its parts end. *)
PastFlags(q) == 2 + Len(q.flags)
PastWidth(q) == PastFlags(q) + Len(q.width)
PastPrecision(q) == PastWidth(q) + Len(q.precision)
PastLength(q) == PastPrecision(q) + Len(q.length)

(* What printf knows of the directive q when it has read the characters       *)
(* before the one at place at, and how many arguments it took for it.         *)
SpecOf(flags, width, precision, length_char, length_bytes) ==
  [flags |-> flags, width |-> width, precision |-> precision, length_char |-> length_char, length_bytes |-> length_bytes]
FlagsTo(q, k) == {q.flags[i] : i \in 1 .. k}
FlagsOf(q) == IF "-" \in FlagsTo(q, Len(q.flags)) THEN FlagsTo(q, Len(q.flags)) \ {"0"} ELSE FlagsTo(q, Len(q.flags))
WidthTo(q, k) == IF k = 0 THEN -1 ELSE Decimal(q.width, k)
BytesOf(q) == IF q.length = <<"I", "3", "2">> THEN 4 ELSE IF q.length = <<"I", "6", "4">> THEN 8 ELSE 0
InFlags(q, at, s, t) ==
  \E k \in 0 .. Len(q.flags) : at = 2 + k /\ s = SpecOf(FlagsTo(q, k), -1, -1, NUL, 0) /\ t = 0
InWidth(q, at, s, t) ==
  \E k \in 0 .. Len(q.width) :
    /\ q.width = <<"*">> => k = 0
    /\ at = PastFlags(q) + k /\ s = SpecOf(FlagsOf(q), WidthTo(q, k), -1, NUL, 0) /\ t = 0
InPrecision(q, at, s, t) ==
  at = PastWidth(q) /\ s = SpecOf(Meaning(q).flags, Meaning(q).width, -1, NUL, 0) /\ t = WidthArgs(q)
InDigits(q, at, s, t) ==
  \E k \in 0 .. Len(q.precision) - 1 :
    /\ q.precision \notin {<<>>, <<".", "*">>}
    /\ at = PastWidth(q) + 1 + k /\ t = WidthArgs(q)
    /\ s = SpecOf(Meaning(q).flags, Meaning(q).width, Decimal(Tail(q.precision), k), NUL, 0)
InLength(q, at, s, t) ==
  /\ at = PastPrecision(q) /\ t = StarArgs(q)
  /\ s = SpecOf(Meaning(q).flags, Meaning(q).width, Meaning(q).precision, NUL, 0)
InType(q, at, s, t) ==
  /\ q.length # BadLength /\ at = PastLength(q) /\ t = StarArgs(q)
  /\ s = SpecOf(Meaning(q).flags, Meaning(q).width, Meaning(q).precision, Meaning(q).length, BytesOf(q))
InDirective(q, part, at, s, t) ==
  \/ part = "flags" /\ InFlags(q, at, s, t)
  \/ part = "width" /\ InWidth(q, at, s, t)
  \/ part = "precision" /\ InPrecision(q, at, s, t)
  \/ part = "digits" /\ InDigits(q, at, s, t)
  \/ part = "length" /\ InLength(q, at, s, t)
  \/ part = "type" /\ InType(q, at, s, t)

LEMMA Places ==
  ASSUME NEW q, IsPiece(q), q.conv # "text"
  PROVE  /\ Len(q.flags) \in Nat /\ Len(q.width) \in Nat /\ Len(q.precision) \in Nat /\ Len(q.length) \in Nat
         /\ PastFlags(q) \in Nat /\ PastWidth(q) \in Nat /\ PastPrecision(q) \in Nat /\ PastLength(q) \in Nat
         /\ 2 <= PastFlags(q) /\ PastFlags(q) <= PastWidth(q) /\ PastWidth(q) <= PastPrecision(q)
         /\ PastPrecision(q) <= PastLength(q) /\ Len(Rendered(q)) = PastLength(q)
         /\ \A k \in 1 .. Len(q.flags) : Rendered(q)[1 + k] = q.flags[k]
         /\ \A k \in 0 .. Len(q.width) - 1 : Rendered(q)[PastFlags(q) + k] = q.width[k + 1]
         /\ \A k \in 0 .. Len(q.precision) - 1 : Rendered(q)[PastWidth(q) + k] = q.precision[k + 1]
         /\ \A k \in 0 .. Len(q.length) - 1 : Rendered(q)[PastPrecision(q) + k] = q.length[k + 1]
         /\ Rendered(q)[PastLength(q)] = q.conv
<1> DEFINE a == Len(q.flags)
           b == Len(q.width)
           d == Len(q.precision)
           e == Len(q.length)
           r == Rendered(q)
           A == PastFlags(q)
           B == PastWidth(q)
           D == PastPrecision(q)
           E == PastLength(q)
<1>1. a \in Nat /\ b \in Nat /\ d \in Nat /\ e \in Nat
  BY PieceTypes
<1>2. A = 2 + a /\ B = A + b /\ D = B + d /\ E = D + e
  BY DEF PastFlags, PastWidth, PastPrecision, PastLength
<1>3. /\ Len(r) = a + b + d + e + 2
      /\ \A k \in 1 .. a : r[1 + k] = q.flags[k]
      /\ \A k \in 1 .. b : r[1 + a + k] = q.width[k]
      /\ \A k \in 1 .. d : r[1 + a + b + k] = q.precision[k]
      /\ \A k \in 1 .. e : r[1 + a + b + d + k] = q.length[k]
      /\ r[2 + a + b + d + e] = q.conv
  BY RenderedLies
<1> HIDE DEF a, b, d, e, r, A, B, D, E
<1>4. /\ A \in Nat /\ B \in Nat /\ D \in Nat /\ E \in Nat /\ 2 <= A /\ A <= B /\ B <= D /\ D <= E
      /\ Len(r) = E /\ E = 2 + a + b + d + e
  <2>1. A \in Nat /\ 2 <= A
    BY <1>1, <1>2
  <2>2. B \in Nat /\ A <= B
    BY <1>1, <1>2, <2>1
  <2>3. D \in Nat /\ B <= D
    BY <1>1, <1>2, <2>2
  <2>4. E \in Nat /\ D <= E
    BY <1>1, <1>2, <2>3
  <2>5. E = 2 + a + b + d + e
    BY <1>1, <1>2
  <2>6. Len(r) = E
    BY <1>1, <1>3, <2>5
  <2> QED BY <2>1, <2>2, <2>3, <2>4, <2>5, <2>6
<1>5. ASSUME NEW k \in 0 .. b - 1 PROVE r[A + k] = q.width[k + 1]
  <2>1. k + 1 \in 1 .. b /\ 1 + a + (k + 1) = A + k
    BY <1>1, <1>2
  <2> QED BY <1>3, <2>1
<1>6. ASSUME NEW k \in 0 .. d - 1 PROVE r[B + k] = q.precision[k + 1]
  <2>1. k + 1 \in 1 .. d /\ 1 + a + b + (k + 1) = B + k
    BY <1>1, <1>2
  <2> QED BY <1>3, <2>1
<1>7. ASSUME NEW k \in 0 .. e - 1 PROVE r[D + k] = q.length[k + 1]
  <2>1. k + 1 \in 1 .. e /\ 1 + a + b + d + (k + 1) = D + k
    BY <1>1, <1>2
  <2> QED BY <1>3, <2>1
<1>8. r[E] = q.conv
  BY <1>3, <1>4
<1> QED BY <1>1, <1>3, <1>4, <1>5, <1>6, <1>7, <1>8 DEF a, b, d, e, r, A, B, D, E

LEMMA PartsBegin ==
  ASSUME NEW q, IsPiece(q), q.conv # "text"
  PROVE  LET r == Rendered(q) A == PastFlags(q) B == PastWidth(q) D == PastPrecision(q) IN
         /\ r[D] \notin NotRest /\ r[D] = IF Len(q.length) = 0 THEN q.conv ELSE q.length[1]
         /\ r[B] \notin FlagChars \cup DigitChars \cup {"*", NUL} /\ (r[B] = "." <=> q.precision # <<>>)
         /\ r[A] \notin FlagChars \cup {NUL} /\ r[A] = IF Len(q.width) = 0 THEN r[B] ELSE q.width[1]
         /\ q.width # <<>> => q.width = <<"*">> \/ ((\A k \in 1 .. Len(q.width) : q.width[k] \in DigitChars) /\ q.width \in Seq(DigitChars))
         /\ Len(q.width) = 0 <=> q.width = <<>>
         /\ Len(q.precision) = 0 <=> q.precision = <<>>
         /\ q.precision # <<>> /\ q.precision # <<".", "*">> =>
              /\ Tail(q.precision) \in Seq(DigitChars) /\ Len(Tail(q.precision)) = Len(q.precision) - 1
              /\ \A k \in 1 .. Len(q.precision) - 1 : Tail(q.precision)[k] = q.precision[k + 1] /\ q.precision[k + 1] \in DigitChars
<1> DEFINE a == Len(q.flags)
           b == Len(q.width)
           d == Len(q.precision)
           e == Len(q.length)
           r == Rendered(q)
           A == PastFlags(q)
           B == PastWidth(q)
           D == PastPrecision(q)
<1>1. a \in Nat /\ b \in Nat /\ d \in Nat /\ e \in Nat
  BY PieceTypes
<1>2. A = 2 + a /\ B = 2 + a + b /\ D = 2 + a + b + d
  BY DEF PastFlags, PastWidth, PastPrecision
<1>3. /\ r[2 + a + b + d] \notin NotRest
      /\ r[2 + a + b + d] = IF e = 0 THEN q.conv ELSE q.length[1]
      /\ r[2 + a + b] = IF d = 0 THEN r[2 + a + b + d] ELSE "."
      /\ r[2 + a] = IF b = 0 THEN r[2 + a + b] ELSE q.width[1]
      /\ r[2 + a + b] \notin FlagChars \cup DigitChars \cup {"*", NUL}
      /\ r[2 + a] \notin FlagChars \cup {NUL}
      /\ b > 0 => q.width = <<"*">> \/ ((\A k \in 1 .. b : q.width[k] \in DigitChars) /\ q.width \in Seq(DigitChars))
      /\ b = 0 <=> q.width = <<>>
      /\ d = 0 <=> q.precision = <<>>
      /\ d > 0 /\ q.precision # <<".", "*">> =>
              /\ Tail(q.precision) \in Seq(DigitChars) /\ Len(Tail(q.precision)) = d - 1
              /\ \A k \in 1 .. d - 1 : Tail(q.precision)[k] = q.precision[k + 1] /\ q.precision[k + 1] \in DigitChars
  BY RestBegins
<1> HIDE DEF a, b, d, e, r, A, B, D
<1>4. (b > 0 <=> q.width # <<>>) /\ (d > 0 <=> q.precision # <<>>)
  BY <1>1, <1>3
<1>5. r[B] = "." <=> q.precision # <<>>
  <2>1. r[D] # "."
    BY <1>2, <1>3, Zenon DEF NotRest
  <2>2. r[B] = IF d = 0 THEN r[D] ELSE "."
    BY <1>2, <1>3, Zenon
  <2> QED BY <1>3, <2>1, <2>2
<1>6. /\ r[D] \notin NotRest /\ r[D] = IF e = 0 THEN q.conv ELSE q.length[1]
      /\ r[B] \notin FlagChars \cup DigitChars \cup {"*", NUL}
      /\ r[A] \notin FlagChars \cup {NUL} /\ r[A] = IF b = 0 THEN r[B] ELSE q.width[1]
  BY <1>2, <1>3, Zenon
<1> QED BY <1>3, <1>4, <1>5, <1>6 DEF a, b, d, e, r, A, B, D

(* One step of each part of a directive. *)
LEMMA FlagsStep ==
  ASSUME NEW q, IsPiece(q), q.conv # "text", NEW at, NEW s, NEW t, InFlags(q, at, s, t)
  PROVE  LET ch == Rendered(q)[at] IN
         /\ ch \in FlagChars => InFlags(q, at + 1, [s EXCEPT !.flags = @ \cup {ch}], t)
         /\ ch \notin FlagChars => InWidth(q, at, [s EXCEPT !.flags = IF "-" \in @ THEN @ \ {"0"} ELSE @], t)
<1> DEFINE a == Len(q.flags)
           r == Rendered(q)
           F(k) == FlagsTo(q, k)
<1>1. PICK k \in 0 .. a : at = 2 + k /\ s = SpecOf(F(k), -1, -1, NUL, 0) /\ t = 0
  BY DEF InFlags
<1>2. a \in Nat /\ PastFlags(q) = 2 + a /\ Len(q.width) \in Nat
  BY Places DEF PastFlags
<1>3. \A i \in 1 .. a : r[1 + i] = q.flags[i] /\ q.flags[i] \in FlagChars
  BY Places, PieceTypes
<1>4. r[2 + a] \notin FlagChars
  BY <1>2, PartsBegin
<1>5. ASSUME r[at] \in FlagChars PROVE InFlags(q, at + 1, [s EXCEPT !.flags = @ \cup {r[at]}], t)
  <2>1. k # a
    BY <1>1, <1>4, <1>5
  <2>2. k + 1 \in 1 .. a /\ k + 1 \in 0 .. a /\ 1 + (k + 1) = at /\ at + 1 = 2 + (k + 1)
    BY <1>1, <1>2, <2>1
  <2>3. r[at] = q.flags[k + 1]
    BY <1>3, <2>2
  <2>4. F(k + 1) = F(k) \cup {q.flags[k + 1]}
    BY <1>2, <2>2 DEF FlagsTo
  <2> HIDE DEF F, a, r
  <2>5. [s EXCEPT !.flags = @ \cup {r[at]}] = SpecOf(F(k + 1), -1, -1, NUL, 0)
    BY <1>1, <2>3, <2>4 DEF SpecOf
  <2> QED BY <1>1, <2>2, <2>5 DEF InFlags, F, a
<1>6. ASSUME r[at] \notin FlagChars PROVE InWidth(q, at, [s EXCEPT !.flags = IF "-" \in @ THEN @ \ {"0"} ELSE @], t)
  <2>1. k = a
    <3> SUFFICES ASSUME k # a PROVE FALSE
      OBVIOUS
    <3>1. k + 1 \in 1 .. a /\ 1 + (k + 1) = at
      BY <1>1, <1>2
    <3> QED BY <1>3, <1>6, <3>1
  <2> HIDE DEF F, a, r
  <2>2. FlagsOf(q) = IF "-" \in F(a) THEN F(a) \ {"0"} ELSE F(a)
    BY DEF FlagsOf, F, a
  <2>3. [s EXCEPT !.flags = IF "-" \in @ THEN @ \ {"0"} ELSE @] = SpecOf(FlagsOf(q), WidthTo(q, 0), -1, NUL, 0)
    BY <1>1, <2>1, <2>2 DEF SpecOf, WidthTo
  <2>4. at = PastFlags(q) + 0 /\ 0 \in 0 .. Len(q.width)
    BY <1>1, <1>2, <2>1
  <2> QED BY <1>1, <2>3, <2>4 DEF InWidth
<1> QED BY <1>5, <1>6

LEMMA MeaningIs ==
  ASSUME NEW q, IsPiece(q), q.conv # "text"
  PROVE  /\ Meaning(q).to = q.conv /\ q.value \in Int
         /\ q.width # <<"*">> => Meaning(q).flags = FlagsOf(q) /\ Meaning(q).width = WidthTo(q, Len(q.width))
         /\ q.width = <<"*">> => /\ Meaning(q).flags = IF q.value < 0 THEN FlagsOf(q) \cup {"-"} ELSE FlagsOf(q)
                                 /\ Meaning(q).width = IF q.value < 0 THEN -q.value ELSE q.value
         /\ q.precision = <<".", "*">> => Meaning(q).precision = q.value
         /\ q.precision = <<>> => Meaning(q).precision = -1
         /\ q.precision \notin {<<>>, <<".", "*">>} => Meaning(q).precision = Decimal(Tail(q.precision), Len(q.precision) - 1)
         /\ Meaning(q).length = IF q.length = <<>> THEN NUL
              ELSE IF q.length = <<"l", "l">> THEN "ll" ELSE IF q.length = <<"h", "h">> THEN "hh"
              ELSE q.length[1]
         /\ Meaning(q) = [to |-> q.conv, flags |-> Meaning(q).flags, width |-> Meaning(q).width,
                          precision |-> Meaning(q).precision, length |-> Meaning(q).length]
<1>1. DOMAIN q.flags = 1 .. Len(q.flags)
  BY PieceTypes, LenProperties
<1>2. FlagsOf(q) = IF "-" \in {q.flags[k] : k \in DOMAIN q.flags} THEN {q.flags[k] : k \in DOMAIN q.flags} \ {"0"} ELSE {q.flags[k] : k \in DOMAIN q.flags}
  BY <1>1, Zenon DEF FlagsOf, FlagsTo
<1>3. q.value \in Int /\ (Len(q.width) = 0 <=> q.width = <<>>)
  BY PieceTypes, PartsBegin
<1>4. WidthTo(q, Len(q.width)) = IF q.width = <<>> THEN -1 ELSE Decimal(q.width, Len(q.width))
  BY <1>3 DEF WidthTo
<1>5. Meaning(q) =
  [to |-> q.conv,
   flags |-> IF q.width = <<"*">> /\ q.value < 0 THEN FlagsOf(q) \cup {"-"} ELSE FlagsOf(q),
   width |-> IF q.width = <<"*">> THEN (IF q.value < 0 THEN -q.value ELSE q.value)
             ELSE WidthTo(q, Len(q.width)),
   precision |-> IF q.precision = <<".", "*">> THEN q.value
                 ELSE IF q.precision = <<>> THEN -1 ELSE Decimal(Tail(q.precision), Len(q.precision) - 1),
   length |-> IF q.length = <<>> THEN NUL
              ELSE IF q.length = <<"l", "l">> THEN "ll" ELSE IF q.length = <<"h", "h">> THEN "hh"
              ELSE q.length[1]]
  BY <1>2, <1>4, Zenon DEF Meaning
<1>6. <<".", "*">> # <<>>
  OBVIOUS
<1> DEFINE fl == IF q.width = <<"*">> /\ q.value < 0 THEN FlagsOf(q) \cup {"-"} ELSE FlagsOf(q)
           wi == IF q.width = <<"*">> THEN (IF q.value < 0 THEN -q.value ELSE q.value) ELSE WidthTo(q, Len(q.width))
           pr == IF q.precision = <<".", "*">> THEN q.value
                 ELSE IF q.precision = <<>> THEN -1 ELSE Decimal(Tail(q.precision), Len(q.precision) - 1)
           le == IF q.length = <<>> THEN NUL
              ELSE IF q.length = <<"l", "l">> THEN "ll" ELSE IF q.length = <<"h", "h">> THEN "hh"
              ELSE q.length[1]
<1>7. Meaning(q) = [to |-> q.conv, flags |-> fl, width |-> wi, precision |-> pr, length |-> le]
  BY <1>5, Zenon
<1>8. Meaning(q).to = q.conv /\ Meaning(q).flags = fl /\ Meaning(q).width = wi /\ Meaning(q).precision = pr /\ Meaning(q).length = le
  <2> HIDE DEF fl, wi, pr, le
  <2> QED BY <1>7
<1>9. q.width # <<"*">> => fl = FlagsOf(q) /\ wi = WidthTo(q, Len(q.width))
  BY Zenon
<1>10. q.width = <<"*">> => /\ fl = IF q.value < 0 THEN FlagsOf(q) \cup {"-"} ELSE FlagsOf(q)
                           /\ wi = IF q.value < 0 THEN -q.value ELSE q.value
  BY Zenon
<1>11. q.precision = <<".", "*">> => pr = q.value
  BY Zenon
<1>12. q.precision = <<>> => pr = -1
  BY <1>6, Zenon
<1>13. q.precision \notin {<<>>, <<".", "*">>} => pr = Decimal(Tail(q.precision), Len(q.precision) - 1)
  BY Zenon
<1> HIDE DEF fl, wi, pr
<1>14. Meaning(q) = [to |-> q.conv, flags |-> Meaning(q).flags, width |-> Meaning(q).width,
                    precision |-> Meaning(q).precision, length |-> Meaning(q).length]
  <2> HIDE DEF le
  <2> QED BY <1>7, <1>8, Zenon
<1> QED BY <1>3, <1>8, <1>9, <1>10, <1>11, <1>12, <1>13, <1>14, Zenon

LEMMA WidthStep ==
  ASSUME NEW q, IsPiece(q), q.conv # "text", NEW at, NEW s, NEW t, InWidth(q, at, s, t)
  PROVE  LET ch == Rendered(q)[at] v == q.value IN
         /\ ch = "*" =>
              /\ q.width = <<"*">> /\ t = 0
              /\ InPrecision(q, at + 1, [s EXCEPT !.width = IF v < 0 THEN -v ELSE v, !.flags = IF v < 0 THEN @ \cup {"-"} ELSE @], 1)
         /\ ch \in DigitChars => InWidth(q, at + 1, [s EXCEPT !.width = (IF @ = -1 THEN 0 ELSE @) * 10 + DigitValue(ch)], t)
         /\ ch # "*" /\ ch \notin DigitChars => InPrecision(q, at, s, t)
<1> DEFINE b == Len(q.width)
           r == Rendered(q)
           v == q.value
           A == PastFlags(q)
<1>1. PICK k \in 0 .. b : /\ q.width = <<"*">> => k = 0
                          /\ at = A + k /\ s = SpecOf(FlagsOf(q), WidthTo(q, k), -1, NUL, 0) /\ t = 0
  BY DEF InWidth
<1>2. b \in Nat /\ A \in Nat /\ PastWidth(q) = A + b /\ (b = 0 <=> q.width = <<>>)
  BY Places, PartsBegin DEF PastWidth
<1>3. \A i \in 0 .. b - 1 : r[A + i] = q.width[i + 1]
  BY Places
<1>4. r[A + b] \notin DigitChars /\ r[A + b] # "*"
  BY <1>2, PartsBegin
<1>5. q.width # <<>> => q.width = <<"*">> \/ ((\A i \in 1 .. b : q.width[i] \in DigitChars) /\ q.width \in Seq(DigitChars))
  BY PartsBegin
<1>6. "*" \notin DigitChars
  BY CharTypes
<1>7. CASE k = b
  <2>1. r[at] # "*" /\ r[at] \notin DigitChars /\ at = PastWidth(q)
    BY <1>1, <1>2, <1>4, <1>7
  <2>2. q.width # <<"*">>
    <3> SUFFICES ASSUME q.width = <<"*">> PROVE FALSE
      OBVIOUS
    <3>1. b = 1
      OBVIOUS
    <3> QED BY <1>1, <1>7, <3>1
  <2>3. Meaning(q).flags = FlagsOf(q) /\ Meaning(q).width = WidthTo(q, b)
    BY <2>2, MeaningIs
  <2>4. WidthArgs(q) = 0
    BY <2>2 DEF WidthArgs, Ones
  <2>5. InPrecision(q, at, s, t)
    BY <1>1, <1>7, <2>1, <2>3, <2>4 DEF InPrecision
  <2> QED BY <2>1, <2>5
<1>8. CASE k # b
  <2>1. k \in 0 .. b - 1 /\ k + 1 \in 1 .. b /\ k + 1 \in 0 .. b /\ at + 1 = A + (k + 1) /\ q.width # <<>> /\ (k + 1) - 1 = k /\ k \in Nat
    BY <1>1, <1>2, <1>8
  <2>2. r[at] = q.width[k + 1]
    BY <1>1, <1>3, <2>1
  <2>3. CASE q.width = <<"*">>
    <3>1. b = 1 /\ q.width[1] = "*" /\ k = 0
      BY <1>1, <2>3
    <3>2. r[at] = "*" /\ at + 1 = PastWidth(q)
      BY <1>2, <2>1, <2>2, <3>1
    <3>3. /\ Meaning(q).flags = IF v < 0 THEN FlagsOf(q) \cup {"-"} ELSE FlagsOf(q)
          /\ Meaning(q).width = IF v < 0 THEN -v ELSE v
      BY <2>3, MeaningIs
    <3>4. WidthArgs(q) = 1
      BY <2>3 DEF WidthArgs, Ones
    <3> HIDE DEF v
    <3>5. [s EXCEPT !.width = IF v < 0 THEN -v ELSE v, !.flags = IF v < 0 THEN @ \cup {"-"} ELSE @]
          = SpecOf(Meaning(q).flags, Meaning(q).width, -1, NUL, 0)
      <4> DEFINE wi == IF v < 0 THEN -v ELSE v
                 fl == IF v < 0 THEN s.flags \cup {"-"} ELSE s.flags
      <4>1. s.flags = FlagsOf(q)
        BY <1>1 DEF SpecOf
      <4>2. fl = Meaning(q).flags /\ wi = Meaning(q).width
        BY <3>3, <4>1
      <4> HIDE DEF wi, fl
      <4>3. [[s EXCEPT !.width = wi] EXCEPT !.flags = fl] = SpecOf(Meaning(q).flags, Meaning(q).width, -1, NUL, 0)
        <5> DEFINE s1 == [s EXCEPT !.width = wi]
                   fw == FlagsOf(q)
                   mf == Meaning(q).flags
                   mw == Meaning(q).width
        <5>1. s1 = SpecOf(fw, mw, -1, NUL, 0)
          BY <1>1, <4>2 DEF SpecOf
        <5> HIDE DEF s1, fw, mf, mw
        <5>2. [s1 EXCEPT !.flags = fl] = SpecOf(fl, mw, -1, NUL, 0)
          BY <5>1 DEF SpecOf
        <5> QED BY <4>2, <5>2 DEF s1, mf, mw
      <4> QED BY <4>3 DEF wi, fl
    <3> QED BY <1>1, <1>6, <2>3, <3>2, <3>4, <3>5 DEF InPrecision, v
  <2>4. CASE q.width # <<"*">>
    <3>1. q.width \in Seq(DigitChars) /\ r[at] \in DigitChars
      BY <1>5, <2>1, <2>2, <2>4
    <3>2. Decimal(q.width, 0) = 0 /\ Decimal(q.width, k) \in Nat /\ Decimal(q.width, k + 1) = Decimal(q.width, k) * 10 + DigitValue(r[at])
      BY <2>1, <2>2, <3>1, DecimalSteps
    <3>3. WidthTo(q, k + 1) = (IF WidthTo(q, k) = -1 THEN 0 ELSE WidthTo(q, k)) * 10 + DigitValue(r[at])
      <4>1. k + 1 # 0
        BY <2>1
      <4>2. (IF WidthTo(q, k) = -1 THEN 0 ELSE WidthTo(q, k)) = Decimal(q.width, k)
        BY <2>1, <3>2 DEF WidthTo
      <4> QED BY <3>2, <4>1, <4>2 DEF WidthTo
    <3>4. [s EXCEPT !.width = (IF @ = -1 THEN 0 ELSE @) * 10 + DigitValue(r[at])] = SpecOf(FlagsOf(q), WidthTo(q, k + 1), -1, NUL, 0)
      BY <1>1, <3>3 DEF SpecOf
    <3>5. InWidth(q, at + 1, [s EXCEPT !.width = (IF @ = -1 THEN 0 ELSE @) * 10 + DigitValue(r[at])], t)
      BY <1>1, <2>1, <2>4, <3>4 DEF InWidth
    <3>6. r[at] # "*"
      BY <1>6, <3>1
    <3> QED BY <3>1, <3>5, <3>6
  <2> QED BY <2>3, <2>4
<1> QED BY <1>7, <1>8

LEMMA PrecisionStep ==
  ASSUME NEW q, IsPiece(q), q.conv # "text", NEW at, NEW s, NEW t, InPrecision(q, at, s, t)
  PROVE  LET ch == Rendered(q)[at] v == q.value IN
         /\ t = WidthArgs(q)
         /\ ch = "." => at + 1 <= PastPrecision(q)
         /\ ch = "." /\ q.precision = <<".", "*">> =>
              Rendered(q)[at + 1] = "*" /\ at + 2 = PastPrecision(q) /\ InLength(q, at + 2, [s EXCEPT !.precision = v], t + 1)
         /\ ch = "." /\ q.precision # <<".", "*">> => Rendered(q)[at + 1] # "*" /\ InDigits(q, at + 1, [s EXCEPT !.precision = 0], t)
         /\ ch # "." => InLength(q, at, s, t)
<1> DEFINE d == Len(q.precision)
           r == Rendered(q)
           B == PastWidth(q)
<1>1. at = B /\ s = SpecOf(Meaning(q).flags, Meaning(q).width, -1, NUL, 0) /\ t = WidthArgs(q)
  BY DEF InPrecision
<1>2. d \in Nat /\ B \in Nat /\ PastPrecision(q) = B + d /\ (d = 0 <=> q.precision = <<>>) /\ (r[B] = "." <=> q.precision # <<>>)
  BY Places, PartsBegin DEF PastPrecision
<1>3. \A i \in 0 .. d - 1 : r[B + i] = q.precision[i + 1]
  BY Places
<1>4. r[B + d] # "*"
  <2>1. r[PastPrecision(q)] \notin NotRest
    BY PartsBegin
  <2> QED BY <1>2, <2>1, Zenon DEF NotRest
<1>5. CASE q.precision = <<>>
  <2>1. at = PastPrecision(q) /\ r[at] # "."
    BY <1>1, <1>2, <1>5
  <2>2. Meaning(q).precision = -1
    BY <1>5, MeaningIs
  <2>3. StarArgs(q) = WidthArgs(q)
    <3>1. q.precision # <<".", "*">>
      BY <1>5
    <3> QED BY <3>1 DEF StarArgs, WidthArgs, Ones
  <2> QED BY <1>1, <2>1, <2>2, <2>3 DEF InLength
<1>6. CASE q.precision = <<".", "*">>
  <2>1. d = 2 /\ q.precision[2] = "*" /\ q.precision # <<>>
    BY <1>6
  <2>2. 1 \in 0 .. d - 1 /\ B + 1 = at + 1 /\ at + 2 = PastPrecision(q) /\ at + 1 <= PastPrecision(q) /\ 1 + 1 = 2
    BY <1>1, <1>2, <2>1
  <2>3. r[at + 1] = "*"
    BY <1>3, <2>1, <2>2
  <2>4. StarArgs(q) = WidthArgs(q) + 1
    BY <1>6 DEF StarArgs, WidthArgs, Ones
  <2>5. Meaning(q).precision = q.value
    BY <1>6, MeaningIs
  <2>6. [s EXCEPT !.precision = q.value] = SpecOf(Meaning(q).flags, Meaning(q).width, Meaning(q).precision, NUL, 0)
    BY <1>1, <2>5 DEF SpecOf
  <2>7. InLength(q, at + 2, [s EXCEPT !.precision = q.value], t + 1)
    BY <1>1, <2>2, <2>4, <2>6 DEF InLength
  <2>8. r[at] = "."
    BY <1>1, <1>2, <2>1
  <2> QED BY <1>1, <1>6, <2>2, <2>3, <2>7, <2>8
<1>7. CASE q.precision \notin {<<>>, <<".", "*">>}
  <2>1. d >= 1 /\ r[at] = "." /\ 0 \in 0 .. d - 1 /\ at + 1 = B + 1 + 0 /\ at + 1 <= PastPrecision(q) /\ at + 1 = B + 1
    BY <1>1, <1>2, <1>7
  <2>2. Tail(q.precision) \in Seq(DigitChars) /\ \A k \in 1 .. d - 1 : q.precision[k + 1] \in DigitChars
    BY <1>7, PartsBegin
  <2>3. Decimal(Tail(q.precision), 0) = 0
    BY <2>2, DecimalSteps
  <2>4. [s EXCEPT !.precision = 0] = SpecOf(Meaning(q).flags, Meaning(q).width, Decimal(Tail(q.precision), 0), NUL, 0)
    BY <1>1, <2>3 DEF SpecOf
  <2>5. InDigits(q, at + 1, [s EXCEPT !.precision = 0], t)
    BY <1>1, <1>7, <2>1, <2>4 DEF InDigits
  <2>6. r[at + 1] # "*"
    <3>1. CASE d = 1
      BY <1>4, <2>1, <3>1
    <3>2. CASE d # 1
      <4>1. 1 \in 0 .. d - 1 /\ 1 \in 1 .. d - 1
        <5> HIDE DEF d
        <5> QED BY <1>2, <2>1, <3>2
      <4>2. r[at + 1] = q.precision[1 + 1] /\ q.precision[1 + 1] \in DigitChars
        BY <1>3, <2>1, <2>2, <4>1
      <4> QED BY <4>2, CharTypes
    <3> QED BY <3>1, <3>2
  <2> QED BY <1>1, <1>7, <2>1, <2>5, <2>6
<1> QED BY <1>5, <1>6, <1>7

LEMMA DigitsStep ==
  ASSUME NEW q, IsPiece(q), q.conv # "text", NEW at, NEW s, NEW t, InDigits(q, at, s, t)
  PROVE  LET ch == Rendered(q)[at] IN
         /\ ch \in DigitChars => InDigits(q, at + 1, [s EXCEPT !.precision = @ * 10 + DigitValue(ch)], t)
         /\ ch \notin DigitChars => InLength(q, at, s, t)
<1> DEFINE d == Len(q.precision)
           r == Rendered(q)
           B == PastWidth(q)
           dig == Tail(q.precision)
<1>1. PICK k \in 0 .. d - 1 :
        /\ q.precision \notin {<<>>, <<".", "*">>} /\ at = B + 1 + k /\ t = WidthArgs(q)
        /\ s = SpecOf(Meaning(q).flags, Meaning(q).width, Decimal(dig, k), NUL, 0)
  BY DEF InDigits
<1>2. d \in Nat /\ B \in Nat /\ PastPrecision(q) = B + d /\ \A i \in 0 .. d - 1 : r[B + i] = q.precision[i + 1]
  BY Places DEF PastPrecision
<1>3. /\ dig \in Seq(DigitChars) /\ Len(dig) = d - 1
      /\ \A i \in 1 .. d - 1 : dig[i] = q.precision[i + 1] /\ q.precision[i + 1] \in DigitChars
  BY <1>1, PartsBegin
<1>4. r[B + d] \notin DigitChars
  <2>1. r[PastPrecision(q)] \notin NotRest
    BY PartsBegin
  <2> QED BY <1>2, <2>1, Zenon DEF NotRest
<1> HIDE DEF dig
<1>5. CASE k = d - 1
  <2>1. at = PastPrecision(q) /\ r[at] \notin DigitChars
    BY <1>1, <1>2, <1>4, <1>5
  <2>2. Meaning(q).precision = Decimal(dig, d - 1)
    BY <1>1, MeaningIs DEF dig
  <2>3. StarArgs(q) = WidthArgs(q)
    <3>1. q.precision # <<".", "*">> /\ WidthArgs(q) \in Nat
      BY <1>1 DEF WidthArgs, Ones
    <3> QED BY <3>1 DEF StarArgs, Ones
  <2> QED BY <1>1, <1>5, <2>1, <2>2, <2>3 DEF InLength
<1>6. CASE k # d - 1
  <2>1. k + 1 \in 1 .. d - 1 /\ k + 1 \in 0 .. d - 1 /\ at = B + (k + 1) /\ at + 1 = B + 1 + (k + 1) /\ (k + 1) - 1 = k
    <3> HIDE DEF d, B
    <3>1. k \in Nat /\ k < d - 1 /\ at = B + 1 + k
      BY <1>1, <1>2, <1>6
    <3> QED BY <1>2, <3>1
  <2>2. r[at] = dig[k + 1] /\ dig[k + 1] \in DigitChars
    BY <1>2, <1>3, <2>1
  <2>3. Decimal(dig, k + 1) = Decimal(dig, k) * 10 + DigitValue(r[at])
    BY <1>3, <2>1, <2>2, DecimalSteps
  <2>4. [s EXCEPT !.precision = @ * 10 + DigitValue(r[at])] = SpecOf(Meaning(q).flags, Meaning(q).width, Decimal(dig, k + 1), NUL, 0)
    BY <1>1, <2>3 DEF SpecOf
  <2>5. InDigits(q, at + 1, [s EXCEPT !.precision = @ * 10 + DigitValue(r[at])], t)
    BY <1>1, <2>1, <2>4 DEF InDigits, dig
  <2> QED BY <2>2, <2>5
<1> QED BY <1>5, <1>6

(* The length of a directive is none, a letter, a letter twice or I with its bits. *)
OneLetter(q, x) == x \in LengthChars /\ q.length = <<x>>
TwoLetters(q, x) == x \in {"h", "l"} /\ q.length = <<x, x>>
WithBits(q, x, y) == q.length = <<"I", x, y>>

LEMMA LengthKinds ==
  ASSUME NEW q, q.length \in LengthTexts
  PROVE  \/ q.length = <<>> \/ (\E x : OneLetter(q, x)) \/ (\E x : TwoLetters(q, x))
         \/ WithBits(q, "3", "2") \/ WithBits(q, "6", "4") \/ q.length = BadLength
<1>1. {"h", "l", "j", "z", "t", "L", "I"} = LengthChars
  BY DEF LengthChars
<1>2. \/ q.length = <<>> \/ (\E x \in LengthChars : q.length = <<x>>) \/ q.length = <<"h", "h">> \/ q.length = <<"l", "l">>
      \/ q.length = <<"I", "3", "2">> \/ q.length = <<"I", "6", "4">> \/ q.length = BadLength
  BY <1>1, Zenon DEF LengthTexts
<1>3. "h" \in {"h", "l"} /\ "l" \in {"h", "l"}
  BY Zenon
<1> QED BY <1>2, <1>3, Zenon DEF OneLetter, TwoLetters, WithBits

LEMMA LengthMeans ==
  ASSUME NEW q, IsPiece(q), q.conv # "text"
  PROVE  /\ q.length = <<>> => Len(q.length) = 0 /\ Meaning(q).length = NUL /\ BytesOf(q) = 0 /\ q.length # BadLength
         /\ \A x : OneLetter(q, x) => Len(q.length) = 1 /\ q.length[1] = x /\ Meaning(q).length = x /\ BytesOf(q) = 0 /\ q.length # BadLength
         /\ \A x : TwoLetters(q, x) => Len(q.length) = 2 /\ q.length[1] = x /\ q.length[2] = x
              /\ Meaning(q).length = (IF x = "l" THEN "ll" ELSE "hh") /\ BytesOf(q) = 0 /\ q.length # BadLength
         /\ WithBits(q, "3", "2") => Len(q.length) = 3 /\ q.length[1] = "I" /\ q.length[2] = "3" /\ q.length[3] = "2"
              /\ Meaning(q).length = "I" /\ BytesOf(q) = 4 /\ q.length # BadLength
         /\ WithBits(q, "6", "4") => Len(q.length) = 3 /\ q.length[1] = "I" /\ q.length[2] = "6" /\ q.length[3] = "4"
              /\ Meaning(q).length = "I" /\ BytesOf(q) = 8 /\ q.length # BadLength
         /\ q.length = BadLength => Len(q.length) = 3 /\ q.length[1] = "I" /\ q.length[2] = "1" /\ q.length[3] = "6"
<1> DEFINE t == q.length
           ll == <<"l", "l">>
           hh == <<"h", "h">>
           i3 == <<"I", "3", "2">>
           i6 == <<"I", "6", "4">>
           bad == BadLength
           m == Meaning(q).length
           e == <<>>
<1>1. m = IF t = e THEN NUL ELSE IF t = ll THEN "ll" ELSE IF t = hh THEN "hh" ELSE t[1]
  BY MeaningIs
<1>2. BytesOf(q) = IF t = i3 THEN 4 ELSE IF t = i6 THEN 8 ELSE 0
  BY DEF BytesOf
<1>3. /\ Len(e) = 0 /\ Len(ll) = 2 /\ Len(hh) = 2 /\ Len(i3) = 3 /\ Len(i6) = 3 /\ Len(bad) = 3
      /\ ll[1] = "l" /\ ll[2] = "l" /\ hh[1] = "h" /\ hh[2] = "h"
      /\ i3[1] = "I" /\ i3[2] = "3" /\ i3[3] = "2" /\ i6[1] = "I" /\ i6[2] = "6" /\ i6[3] = "4" /\ bad[1] = "I" /\ bad[2] = "1" /\ bad[3] = "6"
  BY DEF BadLength
<1> HIDE DEF t, ll, hh, i3, i6, bad, m, e
<1>4. t = e => Len(t) = 0 /\ m = NUL /\ BytesOf(q) = 0 /\ t # bad
  BY <1>1, <1>2, <1>3
<1>5. ASSUME NEW x, OneLetter(q, x) PROVE Len(t) = 1 /\ t[1] = x /\ m = x /\ BytesOf(q) = 0 /\ t # bad
  <2>1. Len(t) = 1 /\ t[1] = x
    BY <1>5 DEF OneLetter, t
  <2> QED BY <1>1, <1>2, <1>3, <2>1
<1>6. ASSUME NEW x, TwoLetters(q, x) PROVE Len(t) = 2 /\ t[1] = x /\ t[2] = x /\ m = (IF x = "l" THEN "ll" ELSE "hh") /\ BytesOf(q) = 0 /\ t # bad
  <2>1. (x = "l" /\ t = ll) \/ (x = "h" /\ t = hh)
    BY <1>6 DEF TwoLetters, t, ll, hh
  <2> QED BY <1>1, <1>2, <1>3, <2>1
<1>7. WithBits(q, "3", "2") => Len(t) = 3 /\ t[1] = "I" /\ t[2] = "3" /\ t[3] = "2" /\ m = "I" /\ BytesOf(q) = 4 /\ t # bad
  <2>1. WithBits(q, "3", "2") => t = i3
    BY Zenon DEF WithBits, t, i3
  <2> QED BY <1>1, <1>2, <1>3, <2>1
<1>8. WithBits(q, "6", "4") => Len(t) = 3 /\ t[1] = "I" /\ t[2] = "6" /\ t[3] = "4" /\ m = "I" /\ BytesOf(q) = 8 /\ t # bad
  <2>1. WithBits(q, "6", "4") => t = i6
    BY Zenon DEF WithBits, t, i6
  <2> QED BY <1>1, <1>2, <1>3, <2>1
<1>9. t = bad => Len(t) = 3 /\ t[1] = "I" /\ t[2] = "1" /\ t[3] = "6"
  BY <1>3
<1> QED BY <1>4, <1>5, <1>6, <1>7, <1>8, <1>9 DEF t, bad, m, e

(* One step of the length. *)
LEMMA LengthStep ==
  ASSUME NEW q, IsPiece(q), q.conv # "text", NEW at, NEW s, NEW t, InLength(q, at, s, t)
  PROVE  LET r == Rendered(q) IN
         /\ q.conv \notin NotRest \cup LengthChars
         /\ \/ q.length = <<>> /\ r[at] = q.conv /\ at = PastLength(q) /\ InType(q, at, s, t)
            \/ \E x \in LengthChars :
                 /\ r[at] = x /\ r[at + 1] = q.conv /\ at + 1 = PastLength(q)
                 /\ InType(q, at + 1, [s EXCEPT !.length_char = x], t)
            \/ \E x \in {"h", "l"} :
                 /\ r[at] = x /\ r[at + 1] = x /\ at + 2 = PastLength(q)
                 /\ InType(q, at + 2, [s EXCEPT !.length_char = IF x = "l" THEN "ll" ELSE "hh"], t)
            \/ \E x, y \in {"2", "3", "4", "6"} :
                 /\ r[at] = "I" /\ r[at + 1] = x /\ r[at + 2] = y /\ at + 3 = PastLength(q)
                 /\ DigitValue(x) * 10 + DigitValue(y) \in {32, 64}
                 /\ InType(q, at + 3, [s EXCEPT !.length_char = "I", !.length_bytes = (DigitValue(x) * 10 + DigitValue(y)) \div 8], t)
            \/ q.length = BadLength /\ r[at] = "I" /\ r[at + 1] = "1" /\ r[at + 2] = "6" /\ at + 3 = PastLength(q)
<1> DEFINE e == Len(q.length)
           r == Rendered(q)
           D == PastPrecision(q)
           mf == Meaning(q).flags
           mw == Meaning(q).width
           mp == Meaning(q).precision
           ml == Meaning(q).length
<1>1. at = D /\ s = SpecOf(mf, mw, mp, NUL, 0) /\ t = StarArgs(q)
  BY DEF InLength
<1>2. e \in Nat /\ D \in Nat /\ PastLength(q) = D + e /\ r[PastLength(q)] = q.conv /\ \A k \in 0 .. e - 1 : r[D + k] = q.length[k + 1]
  BY Places DEF PastLength
<1>3. q.conv \notin NotRest \cup LengthChars /\ q.length \in LengthTexts
  BY PieceTypes
<1>4. \A n, ss : /\ q.length # BadLength /\ at + n = PastLength(q) /\ ss = SpecOf(mf, mw, mp, ml, BytesOf(q))
                 => InType(q, at + n, ss, t)
  BY <1>1 DEF InType
<1> HIDE DEF mf, mw, mp, ml, e, r, D
<1>5. CASE q.length = <<>>
  <2>1. e = 0 /\ ml = NUL /\ BytesOf(q) = 0 /\ q.length # BadLength
    BY <1>5, LengthMeans DEF e, ml
  <2>2. at = PastLength(q) /\ at + 0 = PastLength(q) /\ at + 0 = at /\ r[at] = q.conv
    BY <1>1, <1>2, <2>1
  <2>3. s = SpecOf(mf, mw, mp, ml, BytesOf(q))
    BY <1>1, <2>1
  <2>4. InType(q, at + 0, s, t)
    BY <1>4, <2>1, <2>2, <2>3
  <2> QED BY <1>3, <1>5, <2>2, <2>4 DEF r
<1>6. ASSUME NEW x, OneLetter(q, x)
      PROVE  x \in LengthChars /\ r[at] = x /\ r[at + 1] = q.conv /\ at + 1 = PastLength(q) /\ InType(q, at + 1, [s EXCEPT !.length_char = x], t)
  <2>1. e = 1 /\ q.length[1] = x /\ ml = x /\ BytesOf(q) = 0 /\ q.length # BadLength /\ x \in LengthChars
    BY <1>6, LengthMeans DEF e, ml, OneLetter
  <2>2. at + 1 = PastLength(q) /\ r[at + 1] = q.conv /\ 0 \in 0 .. e - 1 /\ D + 0 = at
    BY <1>1, <1>2, <2>1
  <2>3. r[at] = x
    BY <1>2, <2>1, <2>2
  <2>4. [s EXCEPT !.length_char = x] = SpecOf(mf, mw, mp, ml, BytesOf(q))
    BY <1>1, <2>1 DEF SpecOf
  <2> QED BY <1>4, <2>1, <2>2, <2>3, <2>4
<1>7. ASSUME NEW x, TwoLetters(q, x)
      PROVE  /\ x \in {"h", "l"} /\ r[at] = x /\ r[at + 1] = x /\ at + 2 = PastLength(q)
             /\ InType(q, at + 2, [s EXCEPT !.length_char = IF x = "l" THEN "ll" ELSE "hh"], t)
  <2>1. e = 2 /\ q.length[1] = x /\ q.length[2] = x /\ ml = (IF x = "l" THEN "ll" ELSE "hh") /\ BytesOf(q) = 0 /\ q.length # BadLength /\ x \in {"h", "l"}
    BY <1>7, LengthMeans DEF e, ml, TwoLetters
  <2>2. at + 2 = PastLength(q) /\ 0 \in 0 .. e - 1 /\ 1 \in 0 .. e - 1 /\ D + 0 = at /\ D + 1 = at + 1
    BY <1>1, <1>2, <2>1
  <2>3. r[at] = x /\ r[at + 1] = x
    BY <1>2, <2>1, <2>2
  <2>4. [s EXCEPT !.length_char = IF x = "l" THEN "ll" ELSE "hh"] = SpecOf(mf, mw, mp, ml, BytesOf(q))
    BY <1>1, <2>1 DEF SpecOf
  <2> QED BY <1>4, <2>1, <2>2, <2>3, <2>4
<1>8. DigitValue("2") = 2 /\ DigitValue("3") = 3 /\ DigitValue("4") = 4 /\ DigitValue("6") = 6
  BY NumeralTypes
<1> DEFINE Took(x, y, n) ==
             /\ r[at] = "I" /\ r[at + 1] = x /\ r[at + 2] = y /\ at + 3 = PastLength(q) /\ n \in {32, 64}
             /\ x \in {"2", "3", "4", "6"} /\ y \in {"2", "3", "4", "6"}
             /\ InType(q, at + 3, [s EXCEPT !.length_char = "I", !.length_bytes = n \div 8], t)
<1>9. ASSUME NEW x, NEW y, NEW n, n = DigitValue(x) * 10 + DigitValue(y), WithBits(q, x, y), (x = "3" /\ y = "2") \/ (x = "6" /\ y = "4")
      PROVE  Took(x, y, n)
  <2>1. e = 3 /\ q.length[1] = "I" /\ q.length[2] = x /\ q.length[3] = y /\ ml = "I" /\ q.length # BadLength /\ BytesOf(q) = IF x = "3" THEN 4 ELSE 8
    BY <1>9, LengthMeans DEF e, ml
  <2>2. at + 3 = PastLength(q) /\ 0 \in 0 .. e - 1 /\ 1 \in 0 .. e - 1 /\ 2 \in 0 .. e - 1 /\ D + 0 = at /\ D + 1 = at + 1 /\ D + 2 = at + 2
    BY <1>1, <1>2, <2>1
  <2>3. r[at] = "I" /\ r[at + 1] = x /\ r[at + 2] = y
    BY <1>2, <2>1, <2>2
  <2>4. n \in {32, 64} /\ n \div 8 = BytesOf(q)
    BY <1>8, <1>9, <2>1
  <2>5. [s EXCEPT !.length_char = "I", !.length_bytes = n \div 8] = SpecOf(mf, mw, mp, ml, BytesOf(q))
    <3> DEFINE by == n \div 8
    <3>1. by = BytesOf(q)
      BY <2>4
    <3> HIDE DEF by
    <3>2. [s EXCEPT !.length_char = "I", !.length_bytes = by] = SpecOf(mf, mw, mp, "I", by)
      <4> DEFINE s1 == [s EXCEPT !.length_char = "I"]
      <4>1. s1 = SpecOf(mf, mw, mp, "I", 0)
        BY <1>1 DEF SpecOf
      <4> HIDE DEF s1
      <4>2. [s1 EXCEPT !.length_bytes = by] = SpecOf(mf, mw, mp, "I", by)
        BY <4>1 DEF SpecOf
      <4> QED BY <4>2 DEF s1
    <3> QED BY <2>1, <3>1, <3>2 DEF by
  <2> QED BY <1>4, <1>9, <2>1, <2>2, <2>3, <2>4, <2>5
<1>10. CASE q.length = BadLength
  <2>1. e = 3 /\ q.length[1] = "I" /\ q.length[2] = "1" /\ q.length[3] = "6"
    BY <1>10, LengthMeans DEF e
  <2>2. at + 3 = PastLength(q) /\ 0 \in 0 .. e - 1 /\ 1 \in 0 .. e - 1 /\ 2 \in 0 .. e - 1 /\ D + 0 = at /\ D + 1 = at + 1 /\ D + 2 = at + 2
    BY <1>1, <1>2, <2>1
  <2>3. r[at] = "I" /\ r[at + 1] = "1" /\ r[at + 2] = "6"
    BY <1>2, <2>1, <2>2
  <2> QED BY <1>3, <1>10, <2>2, <2>3 DEF r
<1>11. CASE \E x : OneLetter(q, x)
  BY <1>3, <1>6, <1>11 DEF r
<1>12. CASE \E x : TwoLetters(q, x)
  BY <1>3, <1>7, <1>12 DEF r
<1>13. CASE WithBits(q, "3", "2")
  <2> DEFINE n == DigitValue("3") * 10 + DigitValue("2")
  <2>1. Took("3", "2", n)
    <3> HIDE DEF Took
    <3> QED BY <1>9, <1>13, Zenon
  <2> QED BY <1>3, <2>1, Zenon DEF r
<1>14. CASE WithBits(q, "6", "4")
  <2> DEFINE n == DigitValue("6") * 10 + DigitValue("4")
  <2>1. Took("6", "4", n)
    <3> HIDE DEF Took
    <3> QED BY <1>9, <1>14, Zenon
  <2> QED BY <1>3, <2>1, Zenon DEF r
<1> QED BY <1>3, <1>5, <1>10, <1>11, <1>12, <1>13, <1>14, LengthKinds

LEMMA TypeStep ==
  ASSUME NEW q, IsPiece(q), q.conv # "text", NEW at, NEW s, NEW t, InType(q, at, s, t)
  PROVE  /\ at = PastLength(q) /\ Rendered(q)[at] = q.conv /\ t = StarArgs(q) /\ q.length # BadLength
         /\ Directive(s, q.conv) = Meaning(q) /\ s.length_char = Meaning(q).length /\ s.length_bytes = BytesOf(q)
<1> DEFINE m == Meaning(q)
<1>1. at = PastLength(q) /\ t = StarArgs(q) /\ q.length # BadLength /\ s = SpecOf(m.flags, m.width, m.precision, m.length, BytesOf(q))
  BY DEF InType
<1>2. Rendered(q)[at] = q.conv
  BY <1>1, Places
<1>3. m = [to |-> q.conv, flags |-> m.flags, width |-> m.width, precision |-> m.precision, length |-> m.length]
  BY MeaningIs
<1> HIDE DEF m
<1>4. s.flags = m.flags /\ s.width = m.width /\ s.precision = m.precision /\ s.length_char = m.length /\ s.length_bytes = BytesOf(q)
  BY <1>1 DEF SpecOf
<1>5. Directive(s, q.conv) = m
  BY <1>3, <1>4, Zenon DEF Directive
<1> QED BY <1>1, <1>2, <1>4, <1>5 DEF m

IntConvs == {"d", "i", "u", "x", "X", "o"}
IntType(conv, letter, size) ==
  CASE letter = "l" -> "long" [] letter = "ll" -> "long long"
    [] letter = "j" -> "intmax_t" [] letter = "z" -> "size_t"
    [] letter = "t" -> "ptrdiff_t"
    [] letter = "I" /\ size = 0 -> IF conv \in {"d", "i"} THEN "ptrdiff_t" ELSE "size_t"
    [] letter = "I" /\ size = 4 -> "int32_t"
    [] letter = "I" /\ size = 8 -> "int64_t"
    [] OTHER -> "int"

LEMMA StandardIs ==
  ASSUME NEW q, IsPiece(q), q.conv # "text", q.length # BadLength
  PROVE  /\ q.conv \in IntConvs => StandardType(q.conv, q.length) = IntType(q.conv, Meaning(q).length, BytesOf(q))
         /\ q.length = <<"L">> <=> Meaning(q).length = "L"
<1> DEFINE t == q.length
           m == Meaning(q).length
           b == BytesOf(q)
           l1 == <<"l">>
           l2 == <<"l", "l">>
           j1 == <<"j">>
           z1 == <<"z">>
           t1 == <<"t">>
           i1 == <<"I">>
           i3 == <<"I", "3", "2">>
           i6 == <<"I", "6", "4">>
           c1 == <<"L">>
           sd == CASE t = l1 -> "long" [] t = l2 -> "long long" [] t = j1 -> "intmax_t" [] t = z1 -> "size_t" [] t = t1 -> "ptrdiff_t"
                   [] t = i1 -> IF q.conv \in {"d", "i"} THEN "ptrdiff_t" ELSE "size_t"
                   [] t = i3 -> "int32_t" [] t = i6 -> "int64_t" [] OTHER -> "int"
<1>1. /\ Len(l1) = 1 /\ Len(j1) = 1 /\ Len(z1) = 1 /\ Len(t1) = 1 /\ Len(i1) = 1 /\ Len(c1) = 1 /\ Len(l2) = 2 /\ Len(i3) = 3 /\ Len(i6) = 3
      /\ l1[1] = "l" /\ j1[1] = "j" /\ z1[1] = "z" /\ t1[1] = "t" /\ i1[1] = "I" /\ c1[1] = "L"
      /\ l2[1] = "l" /\ i3[2] = "3" /\ i6[2] = "6"
  OBVIOUS
<1>2. q.conv \in IntConvs => StandardType(q.conv, q.length) = sd
  <2> SUFFICES ASSUME q.conv \in IntConvs PROVE StandardType(q.conv, q.length) = sd
    OBVIOUS
  <2>1. StandardType(q.conv, q.length) =
          CASE q.conv \in IntConvs -> sd
            [] q.conv \in {"f", "F", "e", "E", "g", "G", "a", "A"} -> (IF q.length = <<"L">> THEN "long double" ELSE "double")
            [] q.conv = "c" -> "int"
            [] q.conv \in {"s", "p", "n"} -> "pointer"
    BY Zenon DEF StandardType, IntConvs
  <2> HIDE DEF sd
  <2> QED BY <2>1 DEF IntConvs
<1>3. q.length \in LengthTexts
  BY PieceTypes
<1> DEFINE Same == sd = IntType(q.conv, m, b) /\ (t = c1 <=> m = "L")
<1>4. CASE q.length = <<>>
  <2>1. Len(t) = 0 /\ m = NUL /\ b = 0
    BY <1>4, LengthMeans
  <2> HIDE DEF t, m, b, l1, l2, j1, z1, t1, i1, i3, i6, c1
  <2>2. t # l1 /\ t # l2 /\ t # j1 /\ t # z1 /\ t # t1 /\ t # i1 /\ t # i3 /\ t # i6 /\ t # c1
    BY <1>1, <2>1
  <2>3. Same
    BY <2>1, <2>2 DEF IntType, NUL
  <2> QED BY <1>2, <2>3 DEF t, m, b, c1
<1>5. ASSUME NEW x, OneLetter(q, x) PROVE Same
  <2>1. Len(t) = 1 /\ t[1] = x /\ m = x /\ b = 0 /\ x \in {"h", "l", "j", "z", "t", "L", "I"}
    BY <1>5, LengthMeans DEF OneLetter, LengthChars
  <2>2. /\ t = l1 <=> x = "l"
        /\ t = j1 <=> x = "j"
        /\ t = z1 <=> x = "z"
        /\ t = t1 <=> x = "t"
        /\ t = i1 <=> x = "I"
        /\ t = c1 <=> x = "L"
    <3>1. t = <<x>>
      BY <1>5 DEF OneLetter
    <3> HIDE DEF t
    <3> QED BY <2>1, <3>1
  <2> HIDE DEF t, m, b, l1, l2, j1, z1, t1, i1, i3, i6, c1
  <2>3. t # l2 /\ t # i3 /\ t # i6
    BY <1>1, <2>1
  <2>4. CASE x = "h"
    BY <2>1, <2>2, <2>3, <2>4 DEF IntType
  <2>5. CASE x = "l"
    BY <2>1, <2>2, <2>3, <2>5 DEF IntType
  <2>6. CASE x = "j"
    BY <2>1, <2>2, <2>3, <2>6 DEF IntType
  <2>7. CASE x = "z"
    BY <2>1, <2>2, <2>3, <2>7 DEF IntType
  <2>8. CASE x = "t"
    BY <2>1, <2>2, <2>3, <2>8 DEF IntType
  <2>9. CASE x = "L"
    BY <2>1, <2>2, <2>3, <2>9 DEF IntType
  <2>10. CASE x = "I"
    BY <2>1, <2>2, <2>3, <2>10 DEF IntType
  <2> QED BY <2>1, <2>4, <2>5, <2>6, <2>7, <2>8, <2>9, <2>10
<1>6. ASSUME NEW x, TwoLetters(q, x) PROVE Same
  <2>1. Len(t) = 2 /\ t[1] = x /\ m = (IF x = "l" THEN "ll" ELSE "hh") /\ b = 0 /\ x \in {"h", "l"} /\ t = <<x, x>>
    BY <1>6, LengthMeans DEF TwoLetters
  <2>2. x = "l" => t = l2
    BY <2>1
  <2> HIDE DEF t, m, b, l1, l2, j1, z1, t1, i1, i3, i6, c1
  <2>3. t # l1 /\ t # j1 /\ t # z1 /\ t # t1 /\ t # i1 /\ t # i3 /\ t # i6 /\ t # c1 /\ (x = "h" => t # l2)
    BY <1>1, <2>1
  <2> QED BY <2>1, <2>2, <2>3 DEF IntType
<1>7. ASSUME WithBits(q, "3", "2") PROVE Same
  <2>1. Len(t) = 3 /\ t[2] = "3" /\ m = "I" /\ b = 4
    BY <1>7, LengthMeans
  <2>2. t = i3
    BY <1>7 DEF WithBits
  <2> HIDE DEF t, m, b, l1, l2, j1, z1, t1, i1, i3, i6, c1
  <2>3. t # l1 /\ t # j1 /\ t # z1 /\ t # t1 /\ t # i1 /\ t # c1 /\ t # l2 /\ t # i6
    BY <1>1, <2>1
  <2> QED BY <2>1, <2>2, <2>3 DEF IntType
<1>8. ASSUME WithBits(q, "6", "4") PROVE Same
  <2>1. Len(t) = 3 /\ t[2] = "6" /\ m = "I" /\ b = 8
    BY <1>8, LengthMeans
  <2>2. t = i6
    BY <1>8 DEF WithBits
  <2> HIDE DEF t, m, b, l1, l2, j1, z1, t1, i1, i3, i6, c1
  <2>3. t # l1 /\ t # j1 /\ t # z1 /\ t # t1 /\ t # i1 /\ t # c1 /\ t # l2 /\ t # i3
    BY <1>1, <2>1
  <2> QED BY <2>1, <2>2, <2>3 DEF IntType
<1> HIDE DEF sd, m, b, c1
<1>9. CASE Same
  BY <1>2, <1>9 DEF m, b, c1
<1> QED BY <1>3, <1>4, <1>5, <1>6, <1>7, <1>8, <1>9, LengthKinds, Zenon

LEMMA ArgTypeIs ==
  ASSUME NEW q, IsPiece(q), q.conv # "text", q.length # BadLength, c = q.conv,
         spec.length_char = Meaning(q).length, spec.length_bytes = BytesOf(q)
  PROVE  /\ Known(q) <=> q.conv = "%" \/ ArgType # "none"
         /\ q.conv = "%" => ~HasArg(q)
         /\ q.conv # "%" /\ ArgType # "none" => HasArg(q) /\ ArgType = StandardType(q.conv, q.length)
         /\ q.conv # "%" /\ ArgType = "none" => ~HasArg(q)
<1> DEFINE v == q.conv
           m == Meaning(q).length
           b == BytesOf(q)
<1>1. ArgType = IF v \in IntConvs THEN IntType(v, m, b)
                ELSE IF v \in {"f", "F", "e", "E", "g", "G", "a", "A"} THEN (IF m = "L" THEN "long double" ELSE "double")
                ELSE IF v = "c" THEN "int" ELSE IF v \in {"s", "p", "n"} THEN "pointer" ELSE "none"
  <2> DEFINE it == IntType(v, m, b)
  <2>1. ArgType = CASE v \in IntConvs -> it
                    [] v \in {"f", "F", "e", "E", "g", "G", "a", "A"} -> IF m = "L" THEN "long double" ELSE "double"
                    [] v = "c" -> "int" [] v \in {"s", "p", "n"} -> "pointer" [] OTHER -> "none"
    BY Zenon DEF ArgType, IntConvs, IntType
  <2> HIDE DEF it, v, m
  <2> QED BY <2>1 DEF it, IntConvs
<1>2. /\ v \in IntConvs => StandardType(v, q.length) = IntType(v, m, b)
      /\ q.length = <<"L">> <=> m = "L"
  BY StandardIs
<1>3. /\ v \in {"f", "F", "e", "E", "g", "G", "a", "A"} => StandardType(v, q.length) = (IF q.length = <<"L">> THEN "long double" ELSE "double")
      /\ v = "c" => StandardType(v, q.length) = "int"
      /\ v \in {"s", "p", "n"} => StandardType(v, q.length) = "pointer"
  BY DEF StandardType
<1>4. Known(q) <=> v \in IntConvs \/ v \in {"f", "F", "e", "E", "g", "G", "a", "A"} \/ v = "c" \/ v \in {"s", "p", "n"} \/ v = "%"
  BY DEF Known, IntConvs
<1>5. IntType(v, m, b) # "none"
  BY DEF IntType
<1>6. v = "%" => v \notin IntConvs /\ v \notin {"f", "F", "e", "E", "g", "G", "a", "A"} /\ v # "c" /\ v \notin {"s", "p", "n"}
  BY DEF IntConvs
<1>7. HasArg(q) <=> v # "%" /\ Known(q)
  BY DEF HasArg
<1> HIDE DEF v, m, b
<1>8. Known(q) <=> v = "%" \/ ArgType # "none"
  BY <1>1, <1>4, <1>5, <1>6
<1>9. v # "%" /\ ArgType # "none" => ArgType = StandardType(v, q.length)
  <2>1. v \in IntConvs \/ v \in {"f", "F", "e", "E", "g", "G", "a", "A"} \/ v = "c" \/ v \in {"s", "p", "n"} \/ ArgType = "none"
    BY <1>1
  <2>2. v \in IntConvs => ArgType = StandardType(v, q.length)
    BY <1>1, <1>2
  <2>3. v \in {"f", "F", "e", "E", "g", "G", "a", "A"} => v \notin IntConvs
    BY DEF IntConvs
  <2>4. v \in {"f", "F", "e", "E", "g", "G", "a", "A"} => ArgType = StandardType(v, q.length)
    BY <1>1, <1>2, <1>3, <2>3, Zenon
  <2>5. v = "c" => ArgType = StandardType(v, q.length)
    BY <1>1, <1>3 DEF IntConvs
  <2>6. v \in {"s", "p", "n"} => ArgType = StandardType(v, q.length)
    BY <1>1, <1>3 DEF IntConvs
  <2> QED BY <2>1, <2>2, <2>4, <2>5, <2>6
<1> QED BY <1>7, <1>8, <1>9 DEF v

(* No character of a piece is what stands behind the end. *)
LEMMA NoNul ==
  ASSUME NEW q, IsPiece(q), q.conv # "text", NEW k \in 1 .. Len(Rendered(q))
  PROVE  Rendered(q)[k] # NUL
<1> DEFINE a == Len(q.flags)
           b == Len(q.width)
           d == Len(q.precision)
           e == Len(q.length)
           r == Rendered(q)
           A == PastFlags(q)
           B == PastWidth(q)
           D == PastPrecision(q)
           E == PastLength(q)
<1>1. a \in Nat /\ b \in Nat /\ d \in Nat /\ e \in Nat /\ A \in Nat /\ B \in Nat /\ D \in Nat /\ E \in Nat /\ Len(r) = E
  BY Places
<1>2. A = 2 + a /\ B = A + b /\ D = B + d /\ E = D + e
  BY DEF PastFlags, PastWidth, PastPrecision, PastLength
<1>3. r[1] = "%" /\ (\A i \in 1 .. a : r[1 + i] \in FlagChars) /\ r[E] # NUL
  <2>1. \A i \in 1 .. a : r[1 + i] = q.flags[i]
    BY Places
  <2>2. \A i \in 1 .. a : q.flags[i] \in FlagChars
    BY PieceTypes
  <2>3. r[1] = "%"
    BY RenderedTypes
  <2>4. r[E] = q.conv /\ q.conv \notin NotRest
    BY Places, PieceTypes
  <2> QED BY <2>1, <2>2, <2>3, <2>4 DEF NotRest
<1>4. \A i \in 0 .. b - 1 : r[A + i] # NUL
  <2>1. \A i \in 0 .. b - 1 : r[A + i] = q.width[i + 1]
    BY Places
  <2>2. q.width = <<"*">> \/ (\A i \in 1 .. b : q.width[i] \in DigitChars) \/ b = 0
    BY PartsBegin
  <2>3. "*" # NUL /\ NUL \notin DigitChars
    BY CharTypes
  <2>4. \A i \in 0 .. b - 1 : i + 1 \in 1 .. b
    BY <1>1
  <2>5. CASE q.width = <<"*">>
    <3>1. b = 1 /\ q.width[1] = "*"
      BY <2>5
    <3>2. \A i \in 0 .. b - 1 : i + 1 = 1
      BY <3>1
    <3> QED BY <2>1, <2>3, <3>1, <3>2
  <2>6. CASE \A i \in 1 .. b : q.width[i] \in DigitChars
    BY <2>1, <2>3, <2>4, <2>6, Zenon
  <2>7. CASE b = 0
    BY <2>7
  <2> QED BY <2>2, <2>5, <2>6, <2>7
<1>5. \A i \in 0 .. d - 1 : r[B + i] # NUL
  <2>1. \A i \in 0 .. d - 1 : r[B + i] = q.precision[i + 1]
    BY Places
  <2>2. "." # NUL /\ "*" # NUL /\ NUL \notin DigitChars
    BY CharTypes
  <2>3. CASE d = 0
    BY <2>3
  <2>4. CASE q.precision = <<".", "*">>
    <3>1. d = 2 /\ q.precision[1] = "." /\ q.precision[2] = "*"
      BY <2>4
    <3>2. \A i \in 0 .. d - 1 : i + 1 = 1 \/ i + 1 = 2
      BY <3>1
    <3> QED BY <2>1, <2>2, <3>1, <3>2
  <2>5. CASE d # 0 /\ q.precision # <<".", "*">>
    <3>1. q.precision # <<>> /\ \A i \in 1 .. d - 1 : q.precision[i + 1] \in DigitChars
      BY <2>5, PartsBegin
    <3>2. r[B] # NUL /\ B + 0 = B
      BY <1>1, PartsBegin
    <3>3. \A i \in 0 .. d - 1 : i = 0 \/ i \in 1 .. d - 1
      BY <1>1
    <3> QED BY <2>1, <2>2, <3>1, <3>2, <3>3
  <2> QED BY <2>3, <2>4, <2>5
<1>6. \A i \in 0 .. e - 1 : r[D + i] # NUL
  <2>1. \A i \in 0 .. e - 1 : r[D + i] = q.length[i + 1]
    BY Places
  <2>2. \A i \in 1 .. e : q.length[i] # NUL
    <3>1. /\ q.length = <<>> => e = 0
          /\ \A x : OneLetter(q, x) => e = 1 /\ q.length[1] = x
          /\ \A x : TwoLetters(q, x) => e = 2 /\ q.length[1] = x /\ q.length[2] = x
          /\ WithBits(q, "3", "2") => e = 3 /\ q.length[1] = "I" /\ q.length[2] = "3" /\ q.length[3] = "2"
          /\ WithBits(q, "6", "4") => e = 3 /\ q.length[1] = "I" /\ q.length[2] = "6" /\ q.length[3] = "4"
          /\ q.length = BadLength => e = 3 /\ q.length[1] = "I" /\ q.length[2] = "1" /\ q.length[3] = "6"
      BY LengthMeans
    <3>2. \/ q.length = <<>> \/ (\E x : OneLetter(q, x)) \/ (\E x : TwoLetters(q, x))
          \/ WithBits(q, "3", "2") \/ WithBits(q, "6", "4") \/ q.length = BadLength
      BY PieceTypes, LengthKinds
    <3>3. \A x : OneLetter(q, x) \/ TwoLetters(q, x) => x # NUL
      BY DEF OneLetter, TwoLetters, LengthChars, NUL
    <3> HIDE DEF e
    <3>4. (e = 0 => 1 .. e = {}) /\ (e = 1 => 1 .. e = {1}) /\ (e = 2 => 1 .. e = {1, 2}) /\ (e = 3 => 1 .. e = {1, 2, 3})
      OBVIOUS
    <3>5. CASE q.length = <<>>
      BY <3>1, <3>4, <3>5
    <3>6. CASE \E x : OneLetter(q, x)
      BY <3>1, <3>3, <3>4, <3>6
    <3>7. CASE \E x : TwoLetters(q, x)
      BY <3>1, <3>3, <3>4, <3>7
    <3>8. CASE WithBits(q, "3", "2") \/ WithBits(q, "6", "4") \/ q.length = BadLength
      BY <3>1, <3>4, <3>8 DEF NUL
    <3> QED BY <3>2, <3>5, <3>6, <3>7, <3>8
  <2>3. \A i \in 0 .. e - 1 : i + 1 \in 1 .. e
    BY <1>1
  <2> QED BY <2>1, <2>2, <2>3
<1> HIDE DEF a, b, d, e, r, A, B, D, E
<1>7. k \in Nat /\ 1 <= k /\ k <= E
  BY <1>1 DEF r
<1>8. \/ k = 1 \/ k - 1 \in 1 .. a \/ k - A \in 0 .. b - 1 \/ k - B \in 0 .. d - 1 \/ k - D \in 0 .. e - 1 \/ k = E
  BY <1>1, <1>2, <1>7
<1>9. 1 + (k - 1) = k /\ A + (k - A) = k /\ B + (k - B) = k /\ D + (k - D) = k
  BY <1>1, <1>7
<1>10. r[k] # NUL
  <2>1. CASE k = 1
    BY <1>3, <2>1 DEF NUL
  <2>2. CASE k - 1 \in 1 .. a
    <3>1. NUL \notin FlagChars
      BY CharTypes
    <3> QED BY <1>3, <1>9, <2>2, <3>1
  <2>3. CASE k - A \in 0 .. b - 1
    BY <1>4, <1>9, <2>3
  <2>4. CASE k - B \in 0 .. d - 1
    BY <1>5, <1>9, <2>4
  <2>5. CASE k - D \in 0 .. e - 1
    BY <1>6, <1>9, <2>5
  <2>6. CASE k = E
    BY <1>3, <2>6
  <2> QED BY <1>8, <2>1, <2>2, <2>3, <2>4, <2>5, <2>6
<1> QED BY <1>10 DEF r

(* The characters of the piece behind the first n, as far as the format goes. *)
LEMMA PieceChars ==
  ASSUME asked \in Formats, NEW n \in 0 .. Len(asked.pieces) - 1
  PROVE  LET q == asked.pieces[n + 1] IN
         /\ n \in Nat /\ n + 1 \in 1 .. Len(asked.pieces) /\ n + 1 \in 0 .. Len(asked.pieces) /\ n \in 0 .. Len(asked.pieces)
         /\ IsPiece(q) /\ q \in Pieces /\ asked.cut \in Nat
         /\ SizeOf(asked, n) \in Nat /\ SizeOf(asked, n + 1) \in Nat
         /\ Len(Rendered(q)) \in Nat /\ Len(Rendered(q)) >= 1
         /\ SizeOf(asked, n + 1) = SizeOf(asked, n) + Len(Rendered(q))
         /\ \A j \in 1 .. Len(Rendered(q)) :
              SizeOf(asked, n) + j <= asked.cut =>
                /\ CharAt(SizeOf(asked, n) + j) = Rendered(q)[j]
                /\ CharAt(SizeOf(asked, n) + j) # NUL
<1> DEFINE q == asked.pieces[n + 1]
           N == Len(asked.pieces)
           b == SizeOf(asked, n)
           l == Len(Rendered(q))
<1>1. N \in Nat /\ asked.pieces \in Seq(Pieces) /\ asked.cut \in Nat
  BY FormatTypes
<1>2. n \in Nat /\ n + 1 \in 1 .. N /\ n + 1 \in 0 .. N /\ n \in 0 .. N /\ (n + 1) - 1 = n
  BY <1>1
<1>3. IsPiece(q) /\ q \in Pieces
  BY <1>1, <1>2, FormatTypes, ElementOfSeq
<1>4. l \in Nat /\ l >= 1
  BY <1>3, RenderedTypes
<1>5. /\ b \in Nat /\ SizeOf(asked, n + 1) \in Nat /\ SizeOf(asked, n + 1) = b + l
      /\ \A j \in 1 .. l : TextTo(asked.pieces, N)[b + j] = Rendered(q)[j]
  BY <1>2, SizesLie
<1>6. ASSUME NEW j \in 1 .. l, b + j <= asked.cut
      PROVE  CharAt(b + j) = Rendered(q)[j] /\ Rendered(q)[j] # NUL
  <2>1. b + j \in Nat \ {0}
    BY <1>4, <1>5
  <2>2. CharAt(b + j) = CharOf(asked, b + j)
    BY <2>1, FormatIs
  <2>3. CharOf(asked, b + j) = TextTo(asked.pieces, N)[b + j]
    BY <1>6 DEF CharOf
  <2>4. Rendered(q)[j] # NUL
    <3>1. CASE q.conv = "text"
      BY <1>3, <3>1, RenderedTypes
    <3>2. CASE q.conv # "text"
      BY <1>3, <3>2, NoNul
    <3> QED BY <3>1, <3>2
  <2> QED BY <1>5, <2>2, <2>3, <2>4
<1>7. \A j \in 1 .. l : b + j <= asked.cut => CharAt(b + j) = Rendered(q)[j] /\ CharAt(b + j) # NUL
  BY <1>6
<1> QED BY <1>1, <1>2, <1>3, <1>4, <1>5, <1>7

LEMMA BeyondCut == ASSUME asked \in Formats, NEW k \in Nat, k > asked.cut PROVE CharAt(k) = NUL
<1>1. asked.cut \in Nat
  BY FormatTypes
<1>2. k \in Nat \ {0} /\ ~(k <= asked.cut)
  BY <1>1
<1> QED BY <1>2, FormatIs DEF CharOf

(* The inductive invariant: whenever printf runs, it has told the host of the *)
(* first n pieces and no more; it stands behind them, or within the next one, *)
(* and knows of that what its characters up to there say; and the types taken *)
(* and the arguments left are the ones of the caller, in their order.         *)
Met(n) == \E k \in 1 .. n : ~Known(asked.pieces[k])
Told(n) == sent = SentTo(asked.pieces, n) /\ (errored <=> Met(n))
TypeSet == {a.type : a \in ArgSet}
ArgsKept ==
  LET all == ArgsOfAll(asked.pieces) IN
  /\ taken \in Seq(TypeSet) /\ args \in Seq(ArgSet) /\ Len(taken) + Len(args) = Len(all)
  /\ \A k \in 1 .. Len(taken) : taken[k] = all[k].type
  /\ \A k \in 1 .. Len(args) : args[k] = all[Len(taken) + k]
Running == asked \in Formats /\ errored \in BOOLEAN /\ print_length \in Nat /\ ArgsKept
AtPiece(n) ==
  /\ stage = "loop" /\ n \in 0 .. Len(asked.pieces) /\ Told(n)
  /\ p = SizeOf(asked, n) + 1 /\ SizeOf(asked, n) <= asked.cut /\ Len(taken) = ArgBase(asked, n)
InPiece(n) ==
  /\ stage \in Parts /\ n \in 0 .. Len(asked.pieces) - 1 /\ Told(n) /\ asked.pieces[n + 1].conv # "text"
  /\ p \in Nat /\ SizeOf(asked, n) + 1 < p /\ p <= SizeOf(asked, n + 1) /\ p <= asked.cut + 1
  /\ p <= asked.cut =>
       InDirective(asked.pieces[n + 1], stage, p - SizeOf(asked, n), spec, Len(taken) - ArgBase(asked, n))

PrintfInv ==
  \/ stage = "idle"
  \/ /\ Running
     /\ \/ stage = "done" /\ PrintfRight
        \/ \E n : AtPiece(n) \/ InPiece(n)

(* What a character within a directive tells. *)
ReadsAt(n, q, j, t) ==
  /\ Running /\ InPiece(n) /\ q = asked.pieces[n + 1] /\ IsPiece(q) /\ q \in Pieces /\ q.conv # "text" /\ n \in 0 .. Len(asked.pieces) - 1
  /\ j \in 1 .. Len(Rendered(q)) /\ Len(Rendered(q)) \in Nat /\ p = SizeOf(asked, n) + j /\ p <= asked.cut /\ c = Rendered(q)[j]
  /\ SizeOf(asked, n) \in Nat /\ asked.cut \in Nat /\ SizeOf(asked, n + 1) = SizeOf(asked, n) + Len(Rendered(q))
  /\ t = Len(taken) - ArgBase(asked, n) /\ InDirective(q, stage, j, spec, t)

LEMMA ReadsInside ==
  ASSUME PrintfInv, stage \in Parts, c # NUL
  PROVE  \E n, q, j, t : ReadsAt(n, q, j, t)
<1>1. stage \notin {"idle", "loop", "done"}
  BY DEF Parts
<1>2. PICK n : Running /\ InPiece(n)
  BY <1>1 DEF PrintfInv, AtPiece
<1>3. asked \in Formats
  BY <1>2 DEF Running
<1> DEFINE q == asked.pieces[n + 1]
           b == SizeOf(asked, n)
           j == p - b
           t == Len(taken) - ArgBase(asked, n)
<1>4. /\ n \in 0 .. Len(asked.pieces) - 1 /\ q.conv # "text" /\ p \in Nat /\ b + 1 < p /\ p <= SizeOf(asked, n + 1)
      /\ p <= asked.cut => InDirective(q, stage, j, spec, t)
  BY <1>2 DEF InPiece
<1>5. /\ IsPiece(q) /\ q \in Pieces /\ asked.cut \in Nat /\ b \in Nat /\ SizeOf(asked, n + 1) = b + Len(Rendered(q))
      /\ Len(Rendered(q)) \in Nat
      /\ \A i \in 1 .. Len(Rendered(q)) : b + i <= asked.cut => CharAt(b + i) = Rendered(q)[i]
  BY <1>3, <1>4, PieceChars
<1>6. p <= asked.cut
  <2>1. p > asked.cut => CharAt(p) = NUL
    BY <1>3, <1>4, BeyondCut
  <2> QED BY <1>4, <1>5, <2>1 DEF c
<1>7. j \in 1 .. Len(Rendered(q)) /\ p = b + j
  <2> HIDE DEF b, q
  <2> QED BY <1>4, <1>5
<1>8. c = Rendered(q)[j]
  BY <1>5, <1>6, <1>7 DEF c
<1>9. InDirective(q, stage, j, spec, t)
  BY <1>4, <1>6
<1> HIDE DEF j, t
<1>10. ReadsAt(n, q, j, t)
  BY <1>2, <1>4, <1>5, <1>6, <1>7, <1>8, <1>9, Zenon DEF ReadsAt, t
<1> QED BY <1>10

(* The characters behind it. *)
LEMMA ReadsAhead ==
  ASSUME NEW n, NEW q, NEW j, NEW t, ReadsAt(n, q, j, t), NEW k \in Nat
  PROVE  /\ CharAt(p + k) # NUL => p + k <= asked.cut
         /\ p + k <= asked.cut /\ j + k <= Len(Rendered(q)) => CharAt(p + k) = Rendered(q)[j + k]
<1> DEFINE b == SizeOf(asked, n)
           l == Len(Rendered(q))
<1>1. /\ asked \in Formats /\ n \in 0 .. Len(asked.pieces) - 1 /\ q = asked.pieces[n + 1]
      /\ j \in 1 .. l /\ l \in Nat /\ p = b + j /\ b \in Nat /\ asked.cut \in Nat
  BY Zenon DEF ReadsAt, Running
<1>2. \A i \in 1 .. l : b + i <= asked.cut => CharAt(b + i) = Rendered(q)[i]
  BY <1>1, PieceChars
<1>3. p + k > asked.cut => CharAt(p + k) = NUL
  <2>1. p + k \in Nat
    BY <1>1
  <2> QED BY <1>1, <2>1, BeyondCut
<1> HIDE DEF b, l
<1>4. p + k \in Nat /\ p + k = b + (j + k) /\ (j + k <= l => j + k \in 1 .. l) /\ (p + k > asked.cut \/ p + k <= asked.cut)
  BY <1>1
<1>5. p + k <= asked.cut /\ j + k <= l => CharAt(p + k) = Rendered(q)[j + k]
  BY <1>2, <1>4
<1> QED BY <1>3, <1>4, <1>5 DEF l

(* A step within a directive. *)
LEMMA StaysInside ==
  ASSUME NEW n, NEW q, NEW j, NEW t, ReadsAt(n, q, j, t), NEW k \in Nat, NEW u \in Nat,
         stage' \in Parts, p' = p + k, UNCHANGED <<asked, sent, errored, print_length>>,
         ArgsKept', Len(taken') = Len(taken) + u,
         p + k <= asked.cut + 1, j + k <= Len(Rendered(q)),
         p + k <= asked.cut => InDirective(q, stage', j + k, spec', t + u)
  PROVE  PrintfInv'
<1> DEFINE b == SizeOf(asked, n)
           l == Len(Rendered(q))
           g == ArgBase(asked, n)
<1>1. /\ Running /\ n \in 0 .. Len(asked.pieces) - 1 /\ q = asked.pieces[n + 1] /\ q.conv # "text" /\ q \in Pieces
      /\ j \in 1 .. l /\ l \in Nat /\ p = b + j /\ b \in Nat /\ asked.cut \in Nat /\ SizeOf(asked, n + 1) = b + l
      /\ t = Len(taken) - g /\ Told(n) /\ b + 1 < p
  BY Zenon DEF ReadsAt, InPiece
<1>2. Running'
  BY <1>1 DEF Running
<1>3. Told(n)'
  BY <1>1 DEF Told, Met
<1>4. p' - b = j + k /\ p' \in Nat /\ b + 1 < p' /\ p' <= b + l /\ p' <= asked.cut + 1
  <2>1. j \in Nat /\ l \in Nat /\ b \in Nat /\ p = b + j /\ b + 1 < p
    BY <1>1
  <2>2. p' = b + j + k /\ p \in Nat /\ j + k <= l
    <3> HIDE DEF b
    <3> QED BY <2>1
  <2> HIDE DEF b, l
  <2>3. p' - b = j + k /\ p' \in Nat /\ p' <= b + l
    BY <2>1, <2>2
  <2>4. b + 1 < p'
    BY <2>1, <2>2
  <2> QED BY <2>3, <2>4
<1>5. t + u = (Len(taken) + u) - g
  <2>1. Len(taken) \in Nat
    BY <1>1, LenProperties DEF Running, ArgsKept
  <2>2. g \in Nat
    <3>1. n + 1 \in 1 .. Len(asked.pieces) /\ (n + 1) - 1 = n
      <4>1. asked \in Formats
        BY <1>1 DEF Running
      <4>2. n \in Nat /\ n + 1 \in 1 .. Len(asked.pieces)
        BY <1>1, <4>1, PieceChars
      <4> QED BY <4>2
    <3> QED BY <1>1, <3>1, ArgsLie DEF Running
  <2> HIDE DEF g
  <2> QED BY <1>1, <2>1, <2>2
<1> HIDE DEF b, l, g
<1>6. p' <= asked.cut => InDirective(q, stage', p' - b, spec', Len(taken') - g)
  BY <1>4, <1>5
<1>7. InPiece(n)'
  BY <1>1, <1>3, <1>4, <1>6 DEF InPiece, b, l, g
<1> QED BY <1>2, <1>7 DEF PrintfInv

(* The arguments. *)
LEMMA NextArg ==
  ASSUME asked \in Formats, NEW n \in 0 .. Len(asked.pieces) - 1, asked.pieces[n + 1].conv # "text",
         NEW i \in 0 .. Len(ArgsOf(asked.pieces[n + 1])) - 1, Len(taken) = ArgBase(asked, n) + i
  PROVE  /\ Len(taken) \in Nat /\ Len(taken) < Len(ArgsOfAll(asked.pieces))
         /\ ArgsOfAll(asked.pieces)[Len(taken) + 1] = ArgsOf(asked.pieces[n + 1])[i + 1]
<1> DEFINE N == Len(asked.pieces)
           g == ArgBase(asked, n)
           l == Len(ArgsOf(asked.pieces[n + 1]))
           h == ArgBase(asked, n + 1)
           w == ArgBase(asked, N)
<1>1. n + 1 \in 1 .. N /\ (n + 1) - 1 = n
  BY PieceChars
<1>2. /\ g \in Nat /\ l \in Nat /\ h = g + l /\ h <= w
      /\ \A k \in 1 .. l : ArgsOfAll(asked.pieces)[g + k] = ArgsOf(asked.pieces[n + 1])[k]
  <2>1. \A m \in 1 .. Len(asked.pieces) :
          /\ ArgBase(asked, m - 1) \in Nat /\ ArgBase(asked, m) \in Nat
          /\ Len(ArgsOf(asked.pieces[m])) \in Nat
          /\ ArgBase(asked, m) = ArgBase(asked, m - 1) + Len(ArgsOf(asked.pieces[m]))
          /\ ArgBase(asked, m) <= ArgBase(asked, Len(asked.pieces))
          /\ \A k \in 1 .. Len(ArgsOf(asked.pieces[m])) :
               ArgsOfAll(asked.pieces)[ArgBase(asked, m - 1) + k] = ArgsOf(asked.pieces[m])[k]
    BY ArgsLie
  <2> QED BY <1>1, <2>1
<1>3. Len(ArgsOfAll(asked.pieces)) = w /\ w \in Nat
  <2>1. ArgsOfAll(asked.pieces) \in Seq(ArgSet) /\ Len(ArgsOfAll(asked.pieces)) = w
    BY ArgsLie
  <2> QED BY <2>1, LenProperties
<1> HIDE DEF g, l, h, w
<1>4. i \in Nat /\ i + 1 \in 1 .. l /\ Len(taken) = g + i
  BY <1>2 DEF g, l
<1>5. Len(taken) \in Nat /\ Len(taken) + 1 = g + (i + 1) /\ Len(taken) < w
  BY <1>2, <1>3, <1>4
<1>6. ArgsOfAll(asked.pieces)[g + (i + 1)] = ArgsOf(asked.pieces[n + 1])[i + 1]
  BY <1>2, <1>4
<1> QED BY <1>3, <1>5, <1>6

LEMMA TakesNext ==
  ASSUME asked \in Formats, ArgsKept, UNCHANGED asked, NEW type, va_arg(type),
         Len(taken) < Len(ArgsOfAll(asked.pieces)), ArgsOfAll(asked.pieces)[Len(taken) + 1].type = type
  PROVE  ArgsKept' /\ Len(taken') = Len(taken) + 1 /\ Head(args) = ArgsOfAll(asked.pieces)[Len(taken) + 1]
<1> DEFINE all == ArgsOfAll(asked.pieces)
           m == Len(taken)
           l == Len(args)
           L == Len(all)
<1>1. /\ taken \in Seq(TypeSet) /\ args \in Seq(ArgSet) /\ m + l = L
      /\ (\A k \in 1 .. m : taken[k] = all[k].type) /\ (\A k \in 1 .. l : args[k] = all[m + k])
  BY DEF ArgsKept
<1>2. all \in Seq(ArgSet) /\ m \in Nat /\ l \in Nat /\ L \in Nat
  <2>1. all \in Seq(ArgSet)
    BY ArgsLie
  <2> QED BY <1>1, <2>1, LenProperties
<1>3. all[m + 1] \in ArgSet /\ type \in TypeSet
  <2>1. m + 1 \in 1 .. L
    BY <1>2
  <2>2. all[m + 1] \in ArgSet
    BY <1>2, <2>1, ElementOfSeq
  <2> QED BY <2>2 DEF TypeSet
<1>4. args # <<>> /\ l >= 1
  <2>1. l >= 1
    BY <1>1, <1>2
  <2> QED BY <2>1, EmptySeq
<1> HIDE DEF all
<1>5. /\ Head(args) = args[1] /\ Tail(args) \in Seq(ArgSet) /\ Len(Tail(args)) = l - 1
      /\ \A k \in 1 .. l - 1 : Tail(args)[k] = args[k + 1]
  BY <1>1, <1>4, FirstAndRest
<1>6. /\ Append(taken, type) \in Seq(TypeSet) /\ Len(Append(taken, type)) = m + 1
      /\ (\A k \in 1 .. m : Append(taken, type)[k] = taken[k]) /\ Append(taken, type)[m + 1] = type
  BY <1>1, <1>3, AppendProperties
<1>7. args' = Tail(args) /\ taken' = Append(taken, type)
  BY DEF va_arg
<1> HIDE DEF m, l, L
<1>8. \A k \in 1 .. m + 1 : Append(taken, type)[k] = all[k].type
  <2>1. \A k \in 1 .. m + 1 : k \in 1 .. m \/ k = m + 1
    BY <1>2
  <2>2. all[m + 1].type = type
    BY DEF all, m
  <2> QED BY <1>1, <1>6, <2>1, <2>2
<1>9. \A k \in 1 .. l - 1 : Tail(args)[k] = all[(m + 1) + k]
  <2>1. \A k \in 1 .. l - 1 : k + 1 \in 1 .. l /\ m + (k + 1) = (m + 1) + k
    BY <1>2
  <2>2. ASSUME NEW k \in 1 .. l - 1 PROVE Tail(args)[k] = all[(m + 1) + k]
    <3>1. Tail(args)[k] = args[k + 1]
      BY <1>5
    <3>2. args[k + 1] = all[m + (k + 1)]
      BY <1>1, <2>1
    <3> QED BY <2>1, <3>1, <3>2
  <2> QED BY <2>2
<1>10. (m + 1) + (l - 1) = L /\ args[1] = all[m + 1]
  <2>1. 1 \in 1 .. l
    BY <1>2, <1>4
  <2> QED BY <1>1, <1>2, <2>1
<1>11. all' = all
  BY DEF all
<1>12. ArgsKept'
  <2>1. /\ taken' \in Seq(TypeSet) /\ args' \in Seq(ArgSet) /\ Len(taken') = m + 1 /\ Len(args') = l - 1
        /\ \A k \in 1 .. m + 1 : taken'[k] = all[k].type
        /\ \A k \in 1 .. l - 1 : args'[k] = all[(m + 1) + k]
    BY <1>5, <1>6, <1>7, <1>8, <1>9
  <2>2. Len(taken') + Len(args') = Len(all)
    BY <1>10, <2>1 DEF L
  <2>3. /\ taken' \in Seq(TypeSet) /\ args' \in Seq(ArgSet) /\ Len(taken') + Len(args') = Len(all')
        /\ \A k \in 1 .. Len(taken') : taken'[k] = (all')[k].type
        /\ \A k \in 1 .. Len(args') : args'[k] = (all')[Len(taken') + k]
    BY <1>11, <2>1, <2>2
  <2> QED BY <2>3 DEF ArgsKept, all
<1> QED BY <1>5, <1>6, <1>7, <1>10, <1>12 DEF m, all

LEMMA KeepsArgs ==
  ASSUME ArgsKept, UNCHANGED asked, NoArg
  PROVE  ArgsKept' /\ Len(taken') = Len(taken) + 0
<1>1. taken' = taken /\ args' = args
  BY DEF NoArg
<1>2. Len(taken) \in Nat
  BY LenProperties DEF ArgsKept
<1> QED BY <1>1, <1>2 DEF ArgsKept

LEMMA InsideBounds ==
  ASSUME NEW q, IsPiece(q), q.conv # "text", NEW part, NEW at, NEW s, NEW t, InDirective(q, part, at, s, t)
  PROVE  at <= Len(Rendered(q))
<1> DEFINE a == Len(q.flags)
           b == Len(q.width)
           d == Len(q.precision)
           A == PastFlags(q)
           B == PastWidth(q)
           D == PastPrecision(q)
           E == PastLength(q)
<1>1. /\ a \in Nat /\ b \in Nat /\ d \in Nat /\ A \in Nat /\ B \in Nat /\ D \in Nat /\ E \in Nat
      /\ A <= B /\ B <= D /\ D <= E /\ Len(Rendered(q)) = E
  BY Places
<1>2. A = 2 + a /\ B = A + b /\ D = B + d
  BY DEF PastFlags, PastWidth, PastPrecision
<1>3. \/ \E k \in 0 .. a : at = 2 + k
      \/ \E k \in 0 .. b : at = A + k
      \/ at = B \/ at = D \/ at = E
      \/ \E k \in 0 .. d - 1 : at = B + 1 + k
  BY DEF InDirective, InFlags, InWidth, InPrecision, InDigits, InLength, InType
<1> HIDE DEF a, b, d, A, B, D, E
<1>4. at <= E
  <2>1. CASE \E k \in 0 .. a : at = 2 + k
    BY <1>1, <1>2, <2>1
  <2>2. CASE \E k \in 0 .. b : at = A + k
    BY <1>1, <1>2, <2>2
  <2>3. CASE at = B \/ at = D \/ at = E
    BY <1>1, <2>3
  <2>4. CASE \E k \in 0 .. d - 1 : at = B + 1 + k
    BY <1>1, <1>2, <2>4
  <2> QED BY <1>3, <2>1, <2>2, <2>3, <2>4
<1> QED BY <1>1, <1>4

(* What ReadsAt holds, in the form that the steps need. *)
LEMMA ReadsAtTypes ==
  ASSUME NEW n, NEW q, NEW j, NEW t, ReadsAt(n, q, j, t)
  PROVE  /\ IsPiece(q) /\ q \in Pieces /\ q.conv # "text" /\ asked \in Formats /\ ArgsKept
         /\ j \in Nat /\ t \in Int /\ j + 0 = j /\ t + 0 = t /\ p \in Nat /\ asked.cut \in Nat /\ p <= asked.cut
         /\ p + 0 <= asked.cut + 1 /\ p + 1 <= asked.cut + 1 /\ j <= Len(Rendered(q)) /\ Len(Rendered(q)) \in Nat
         /\ n \in 0 .. Len(asked.pieces) - 1 /\ q = asked.pieces[n + 1] /\ ArgBase(asked, n) \in Nat
         /\ Len(taken) = ArgBase(asked, n) + t /\ c = Rendered(q)[j]
<1> DEFINE b == SizeOf(asked, n)
           l == Len(Rendered(q))
           g == ArgBase(asked, n)
           m == Len(taken)
<1>1. /\ Running /\ n \in 0 .. Len(asked.pieces) - 1 /\ q = asked.pieces[n + 1] /\ q.conv # "text" /\ q \in Pieces /\ IsPiece(q)
      /\ j \in 1 .. l /\ l \in Nat /\ p = b + j /\ b \in Nat /\ asked.cut \in Nat /\ p <= asked.cut
      /\ t = m - g /\ c = Rendered(q)[j]
  BY Zenon DEF ReadsAt
<1>2. asked \in Formats /\ ArgsKept
  BY <1>1 DEF Running
<1>3. m \in Nat
  BY <1>2, LenProperties DEF ArgsKept
<1>4. g \in Nat
  <2>1. n + 1 \in 1 .. Len(asked.pieces) /\ (n + 1) - 1 = n
    BY <1>1, <1>2, PieceChars
  <2> QED BY <1>2, <2>1, ArgsLie
<1> HIDE DEF b, l, g, m
<1>5. /\ j \in Nat /\ t \in Int /\ j + 0 = j /\ t + 0 = t /\ p \in Nat
      /\ p + 0 <= asked.cut + 1 /\ p + 1 <= asked.cut + 1 /\ j <= l /\ m = g + t
  <2>1. j \in Nat /\ j + 0 = j /\ j <= l /\ p \in Nat
    BY <1>1
  <2>2. p + 0 <= asked.cut + 1 /\ p + 1 <= asked.cut + 1
    BY <1>1, <2>1
  <2>3. t \in Int /\ t + 0 = t /\ m = g + t
    BY <1>1, <1>3, <1>4
  <2> QED BY <2>1, <2>2, <2>3
<1> QED BY <1>1, <1>2, <1>4, <1>5 DEF l, g, m

LEMMA TakesStar ==
  ASSUME NEW n, NEW q, NEW j, NEW t, ReadsAt(n, q, j, t), UNCHANGED asked, NEW type, va_arg(type),
         t \in 0 .. Len(ArgsOf(q)) - 1, ArgsOf(q)[t + 1].type = type
  PROVE  ArgsKept' /\ Len(taken') = Len(taken) + 1 /\ Head(args) = ArgsOf(q)[t + 1]
<1>1. /\ asked \in Formats /\ ArgsKept /\ n \in 0 .. Len(asked.pieces) - 1 /\ q = asked.pieces[n + 1] /\ q.conv # "text"
      /\ Len(taken) = ArgBase(asked, n) + t
  BY ReadsAtTypes
<1>2. /\ Len(taken) < Len(ArgsOfAll(asked.pieces))
      /\ ArgsOfAll(asked.pieces)[Len(taken) + 1] = ArgsOf(q)[t + 1]
  BY <1>1, NextArg
<1> QED BY <1>1, <1>2, TakesNext

LEMMA ReadFlagsKeeps == ASSUME PrintfInv, UNCHANGED asked, ReadFlags PROVE PrintfInv'
<1>1. stage = "flags" /\ c # NUL /\ NoArg /\ UNCHANGED <<sent, errored, print_length>>
  BY DEF ReadFlags, Reads, Silent
<1>2. PICK n, q, j, t : ReadsAt(n, q, j, t)
  BY <1>1, ReadsInside DEF Parts
<1>3. /\ IsPiece(q) /\ q.conv # "text" /\ ArgsKept /\ j \in Nat /\ j + 0 = j /\ t + 0 = t
      /\ p + 0 <= asked.cut + 1 /\ p + 1 <= asked.cut + 1 /\ j <= Len(Rendered(q)) /\ c = Rendered(q)[j]
  BY <1>2, ReadsAtTypes
<1>4. InFlags(q, j, spec, t)
  <2>1. InDirective(q, "flags", j, spec, t)
    BY <1>1, <1>2 DEF ReadsAt
  <2> QED BY <2>1 DEF InDirective
<1>5. ArgsKept' /\ Len(taken') = Len(taken) + 0
  BY <1>1, <1>3, KeepsArgs
<1>6. /\ c \in FlagChars => InFlags(q, j + 1, [spec EXCEPT !.flags = @ \cup {c}], t)
      /\ c \notin FlagChars => InWidth(q, j, [spec EXCEPT !.flags = IF "-" \in @ THEN @ \ {"0"} ELSE @], t)
  BY <1>3, <1>4, FlagsStep
<1>7. CASE c \in FlagChars
  <2>1. stage' = "flags" /\ p' = p + 1 /\ spec' = [spec EXCEPT !.flags = @ \cup {c}]
    BY <1>7 DEF ReadFlags, GoOn
  <2>2. InDirective(q, stage', j + 1, spec', t + 0)
    BY <1>3, <1>6, <1>7, <2>1 DEF InDirective
  <2>3. j + 1 <= Len(Rendered(q))
    BY <1>3, <2>2, InsideBounds
  <2>4. stage' \in Parts
    BY <2>1 DEF Parts
  <2> QED BY <1>1, <1>2, <1>3, <1>5, <2>1, <2>2, <2>3, <2>4, StaysInside
<1>8. CASE c \notin FlagChars
  <2>1. stage' = "width" /\ p' = p + 0 /\ spec' = [spec EXCEPT !.flags = IF "-" \in @ THEN @ \ {"0"} ELSE @]
    BY <1>8 DEF ReadFlags, GoOn
  <2>2. InDirective(q, stage', j + 0, spec', t + 0)
    BY <1>3, <1>6, <1>8, <2>1 DEF InDirective
  <2>3. stage' \in Parts
    BY <2>1 DEF Parts
  <2> QED BY <1>1, <1>2, <1>3, <1>5, <2>1, <2>2, <2>3, StaysInside
<1> QED BY <1>7, <1>8

LEMMA ReadWidthKeeps == ASSUME PrintfInv, UNCHANGED asked, ReadWidth PROVE PrintfInv'
<1>1. stage = "width" /\ c # NUL /\ UNCHANGED <<sent, errored, print_length>>
  BY DEF ReadWidth, Reads, Silent
<1>2. PICK n, q, j, t : ReadsAt(n, q, j, t)
  BY <1>1, ReadsInside DEF Parts
<1>3. /\ IsPiece(q) /\ q \in Pieces /\ q.conv # "text" /\ ArgsKept /\ j \in Nat /\ j + 0 = j /\ t + 0 = t
      /\ p + 0 <= asked.cut + 1 /\ p + 1 <= asked.cut + 1 /\ j <= Len(Rendered(q)) /\ c = Rendered(q)[j]
  BY <1>2, ReadsAtTypes
<1>4. InWidth(q, j, spec, t)
  <2>1. InDirective(q, "width", j, spec, t)
    BY <1>1, <1>2 DEF ReadsAt
  <2> QED BY <2>1 DEF InDirective
<1>5. /\ c = "*" => /\ q.width = <<"*">> /\ t = 0
                    /\ InPrecision(q, j + 1, StarWidth(q.value), 1)
      /\ c \in DigitChars => InWidth(q, j + 1, [spec EXCEPT !.width = (IF @ = -1 THEN 0 ELSE @) * 10 + DigitValue(c)], t)
      /\ c # "*" /\ c \notin DigitChars => InPrecision(q, j, spec, t)
  BY <1>3, <1>4, WidthStep DEF StarWidth
<1>6. CASE c = "*"
  <2>1. stage' = "precision" /\ p' = p + 1 /\ va_arg("int") /\ spec' = StarWidth(Head(args).val)
    <3>1. ~IsDigit("*")
      BY CharTypes DEF IsDigit
    <3> QED BY <1>6, <3>1 DEF ReadWidth, GoOn
  <2>2. q.width = <<"*">> /\ t = 0
    BY <1>5, <1>6
  <2>3. ArgsOf(q)[1] = Arg("int", q.value) /\ 0 \in 0 .. Len(ArgsOf(q)) - 1
    <3>1. /\ WidthArgs(q) = 1 /\ ArgsOf(q)[1] = Arg("int", q.value) /\ Len(ArgsOf(q)) = StarArgs(q) + Ones(HasArg(q))
          /\ StarArgs(q) \in 0 .. 2 /\ Ones(HasArg(q)) \in {0, 1} /\ StarArgs(q) - WidthArgs(q) \in {0, 1}
      BY <1>3, <2>2, ArgsOfLies
    <3> QED BY <3>1
  <2>4. Arg("int", q.value).type = "int" /\ Arg("int", q.value).val = q.value
    BY DEF Arg
  <2>5. ArgsKept' /\ Len(taken') = Len(taken) + 1 /\ Head(args) = Arg("int", q.value)
    <3>1. t \in 0 .. Len(ArgsOf(q)) - 1 /\ ArgsOf(q)[t + 1] = Arg("int", q.value)
      BY <2>2, <2>3
    <3> QED BY <1>2, <2>1, <2>4, <3>1, TakesStar
  <2>6. InDirective(q, stage', j + 1, spec', t + 1)
    <3>1. InPrecision(q, j + 1, spec', t + 1)
      BY <1>5, <1>6, <2>1, <2>2, <2>4, <2>5
    <3> QED BY <2>1, <3>1 DEF InDirective
  <2>7. j + 1 <= Len(Rendered(q))
    BY <1>3, <2>6, InsideBounds
  <2>8. stage' \in Parts
    BY <2>1 DEF Parts
  <2> QED BY <1>1, <1>2, <1>3, <2>1, <2>5, <2>6, <2>7, <2>8, StaysInside
<1>7. CASE c # "*" /\ c \in DigitChars
  <2>1. /\ stage' = "width" /\ p' = p + 1 /\ NoArg
        /\ spec' = [spec EXCEPT !.width = (IF @ = -1 THEN 0 ELSE @) * 10 + DigitValue(c)]
    BY <1>7 DEF ReadWidth, GoOn, IsDigit
  <2>2. ArgsKept' /\ Len(taken') = Len(taken) + 0
    BY <1>3, <2>1, KeepsArgs
  <2>3. InDirective(q, stage', j + 1, spec', t + 0)
    BY <1>3, <1>5, <1>7, <2>1 DEF InDirective
  <2>4. j + 1 <= Len(Rendered(q))
    BY <1>3, <2>3, InsideBounds
  <2>5. stage' \in Parts
    BY <2>1 DEF Parts
  <2> QED BY <1>1, <1>2, <1>3, <2>1, <2>2, <2>3, <2>4, <2>5, StaysInside
<1>8. CASE c # "*" /\ c \notin DigitChars
  <2>1. stage' = "precision" /\ p' = p + 0 /\ NoArg /\ spec' = spec
    BY <1>8 DEF ReadWidth, GoOn, IsDigit
  <2>2. ArgsKept' /\ Len(taken') = Len(taken) + 0
    BY <1>3, <2>1, KeepsArgs
  <2>3. InDirective(q, stage', j + 0, spec', t + 0)
    BY <1>3, <1>5, <1>8, <2>1 DEF InDirective
  <2>4. stage' \in Parts
    BY <2>1 DEF Parts
  <2> QED BY <1>1, <1>2, <1>3, <2>1, <2>2, <2>3, <2>4, StaysInside
<1> QED BY <1>6, <1>7, <1>8

LEMMA ReadPrecisionKeeps == ASSUME PrintfInv, UNCHANGED asked, ReadPrecision PROVE PrintfInv'
<1>1. stage = "precision" /\ c # NUL /\ UNCHANGED <<sent, errored, print_length>>
  BY DEF ReadPrecision, Reads, Silent
<1>2. PICK n, q, j, t : ReadsAt(n, q, j, t)
  BY <1>1, ReadsInside DEF Parts
<1>3. /\ IsPiece(q) /\ q \in Pieces /\ q.conv # "text" /\ ArgsKept /\ j \in Nat /\ j + 0 = j /\ t + 0 = t
      /\ p \in Nat /\ asked.cut \in Nat /\ Len(Rendered(q)) \in Nat
      /\ p + 0 <= asked.cut + 1 /\ p + 1 <= asked.cut + 1 /\ j <= Len(Rendered(q)) /\ c = Rendered(q)[j]
  BY <1>2, ReadsAtTypes
<1>4. InPrecision(q, j, spec, t)
  <2>1. InDirective(q, "precision", j, spec, t)
    BY <1>1, <1>2 DEF ReadsAt
  <2> QED BY <2>1 DEF InDirective
<1>5. /\ t = WidthArgs(q)
      /\ c = "." => j + 1 <= PastPrecision(q)
      /\ c = "." /\ q.precision = <<".", "*">> =>
           Rendered(q)[j + 1] = "*" /\ j + 2 = PastPrecision(q) /\ InLength(q, j + 2, [spec EXCEPT !.precision = q.value], t + 1)
      /\ c = "." /\ q.precision # <<".", "*">> => Rendered(q)[j + 1] # "*" /\ InDigits(q, j + 1, [spec EXCEPT !.precision = 0], t)
      /\ c # "." => InLength(q, j, spec, t)
  BY <1>3, <1>4, PrecisionStep
<1>6. c = "." => j + 1 <= Len(Rendered(q))
  <2>1. PastPrecision(q) \in Nat /\ PastLength(q) \in Nat /\ PastPrecision(q) <= PastLength(q) /\ Len(Rendered(q)) = PastLength(q)
    BY <1>3, Places
  <2> QED BY <1>3, <1>5, <2>1
<1>7. /\ CharAt(p + 1) # NUL => p + 1 <= asked.cut
      /\ p + 1 <= asked.cut /\ j + 1 <= Len(Rendered(q)) => CharAt(p + 1) = Rendered(q)[j + 1]
  BY <1>2, ReadsAhead
<1>8. CASE c = "." /\ CharAt(p + 1) = "*"
  <2>1. stage' = "length" /\ p' = p + 2 /\ va_arg("int") /\ spec' = [spec EXCEPT !.precision = Head(args).val]
    BY <1>8 DEF ReadPrecision, GoOn
  <2>2. p + 1 <= asked.cut /\ Rendered(q)[j + 1] = "*" /\ q.precision = <<".", "*">>
    BY <1>5, <1>6, <1>7, <1>8 DEF NUL
  <2>3. ArgsOf(q)[t + 1] = Arg("int", q.value) /\ t \in 0 .. Len(ArgsOf(q)) - 1
    <3>1. /\ StarArgs(q) = WidthArgs(q) + 1 /\ ArgsOf(q)[WidthArgs(q) + 1] = Arg("int", q.value)
          /\ Len(ArgsOf(q)) = StarArgs(q) + Ones(HasArg(q)) /\ WidthArgs(q) \in {0, 1} /\ Ones(HasArg(q)) \in {0, 1}
      BY <1>3, <2>2, ArgsOfLies
    <3>2. WidthArgs(q) \in 0 .. Len(ArgsOf(q)) - 1
      BY <3>1
    <3> QED BY <1>5, <3>1, <3>2
  <2>4. Arg("int", q.value).type = "int" /\ Arg("int", q.value).val = q.value
    BY DEF Arg
  <2>5. ArgsKept' /\ Len(taken') = Len(taken) + 1 /\ Head(args) = Arg("int", q.value)
    BY <1>2, <2>1, <2>3, <2>4, TakesStar
  <2>6. InDirective(q, stage', j + 2, spec', t + 1)
    <3>1. InLength(q, j + 2, spec', t + 1)
      BY <1>5, <1>8, <2>1, <2>2, <2>4, <2>5
    <3> QED BY <2>1, <3>1 DEF InDirective
  <2>7. j + 2 <= Len(Rendered(q))
    BY <1>3, <2>6, InsideBounds
  <2>8. stage' \in Parts /\ p + 2 <= asked.cut + 1
    BY <1>3, <2>1, <2>2 DEF Parts
  <2> QED BY <1>1, <1>2, <1>3, <2>1, <2>5, <2>6, <2>7, <2>8, StaysInside
<1>9. CASE c = "." /\ CharAt(p + 1) # "*"
  <2>1. stage' = "digits" /\ p' = p + 1 /\ NoArg /\ spec' = [spec EXCEPT !.precision = 0]
    BY <1>9 DEF ReadPrecision, GoOn
  <2>2. ArgsKept' /\ Len(taken') = Len(taken) + 0
    BY <1>3, <2>1, KeepsArgs
  <2>3. p + 1 <= asked.cut => InDirective(q, stage', j + 1, spec', t + 0)
    <3>1. p + 1 <= asked.cut => InDigits(q, j + 1, spec', t)
      BY <1>5, <1>6, <1>7, <1>9, <2>1
    <3> QED BY <1>3, <2>1, <3>1 DEF InDirective
  <2>4. stage' \in Parts
    BY <2>1 DEF Parts
  <2> QED BY <1>1, <1>2, <1>3, <1>6, <1>9, <2>1, <2>2, <2>3, <2>4, StaysInside
<1>10. CASE c # "."
  <2>1. stage' = "length" /\ p' = p + 0 /\ NoArg /\ spec' = spec
    BY <1>10 DEF ReadPrecision, GoOn
  <2>2. ArgsKept' /\ Len(taken') = Len(taken) + 0
    BY <1>3, <2>1, KeepsArgs
  <2>3. InDirective(q, stage', j + 0, spec', t + 0)
    BY <1>3, <1>5, <1>10, <2>1 DEF InDirective
  <2>4. stage' \in Parts
    BY <2>1 DEF Parts
  <2> QED BY <1>1, <1>2, <1>3, <2>1, <2>2, <2>3, <2>4, StaysInside
<1> QED BY <1>8, <1>9, <1>10

LEMMA ReadDigitsKeeps == ASSUME PrintfInv, UNCHANGED asked, ReadDigits PROVE PrintfInv'
<1>1. stage = "digits" /\ c # NUL /\ NoArg /\ UNCHANGED <<sent, errored, print_length>>
  BY DEF ReadDigits, Reads, Silent
<1>2. PICK n, q, j, t : ReadsAt(n, q, j, t)
  BY <1>1, ReadsInside DEF Parts
<1>3. /\ IsPiece(q) /\ q.conv # "text" /\ ArgsKept /\ j \in Nat /\ j + 0 = j /\ t + 0 = t
      /\ p + 0 <= asked.cut + 1 /\ p + 1 <= asked.cut + 1 /\ j <= Len(Rendered(q)) /\ c = Rendered(q)[j]
  BY <1>2, ReadsAtTypes
<1>4. InDigits(q, j, spec, t)
  <2>1. InDirective(q, "digits", j, spec, t)
    BY <1>1, <1>2 DEF ReadsAt
  <2> QED BY <2>1 DEF InDirective
<1>5. ArgsKept' /\ Len(taken') = Len(taken) + 0
  BY <1>1, <1>3, KeepsArgs
<1>6. /\ c \in DigitChars => InDigits(q, j + 1, [spec EXCEPT !.precision = @ * 10 + DigitValue(c)], t)
      /\ c \notin DigitChars => InLength(q, j, spec, t)
  BY <1>3, <1>4, DigitsStep
<1>7. CASE c \in DigitChars
  <2>1. stage' = "digits" /\ p' = p + 1 /\ spec' = [spec EXCEPT !.precision = @ * 10 + DigitValue(c)]
    BY <1>7 DEF ReadDigits, GoOn, IsDigit
  <2>2. InDirective(q, stage', j + 1, spec', t + 0)
    BY <1>3, <1>6, <1>7, <2>1 DEF InDirective
  <2>3. j + 1 <= Len(Rendered(q))
    BY <1>3, <2>2, InsideBounds
  <2>4. stage' \in Parts
    BY <2>1 DEF Parts
  <2> QED BY <1>1, <1>2, <1>3, <1>5, <2>1, <2>2, <2>3, <2>4, StaysInside
<1>8. CASE c \notin DigitChars
  <2>1. stage' = "length" /\ p' = p + 0 /\ spec' = spec
    BY <1>8 DEF ReadDigits, GoOn, IsDigit
  <2>2. InDirective(q, stage', j + 0, spec', t + 0)
    BY <1>3, <1>6, <1>8, <2>1 DEF InDirective
  <2>3. stage' \in Parts
    BY <2>1 DEF Parts
  <2> QED BY <1>1, <1>2, <1>3, <1>5, <2>1, <2>2, <2>3, StaysInside
<1> QED BY <1>7, <1>8

(* A step within the length of a directive. *)
LEMMA LengthPartRead ==
  ASSUME NEW n, NEW q, NEW j, NEW t, ReadsAt(n, q, j, t), stage = "length"
  PROVE  /\ IsPiece(q) /\ q.conv # "text" /\ ArgsKept /\ j \in Nat /\ p \in Nat /\ asked.cut \in Nat /\ p <= asked.cut
         /\ t + 0 = t /\ Len(Rendered(q)) \in Nat /\ Len(Rendered(q)) = PastLength(q) /\ j <= Len(Rendered(q)) /\ c = Rendered(q)[j]
         /\ \A k \in Nat : /\ CharAt(p + k) # NUL => p + k <= asked.cut
                           /\ p + k <= asked.cut /\ j + k <= Len(Rendered(q)) => CharAt(p + k) = Rendered(q)[j + k]
         /\ InLength(q, j, spec, t)
<1>1. /\ IsPiece(q) /\ q.conv # "text" /\ ArgsKept /\ j \in Nat /\ p \in Nat /\ asked.cut \in Nat /\ p <= asked.cut
      /\ t + 0 = t /\ Len(Rendered(q)) \in Nat /\ j <= Len(Rendered(q)) /\ c = Rendered(q)[j]
  BY ReadsAtTypes
<1>2. Len(Rendered(q)) = PastLength(q)
  BY <1>1, Places
<1>3. \A k \in Nat : /\ CharAt(p + k) # NUL => p + k <= asked.cut
                     /\ p + k <= asked.cut /\ j + k <= Len(Rendered(q)) => CharAt(p + k) = Rendered(q)[j + k]
  BY ReadsAhead
<1>4. InDirective(q, "length", j, spec, t)
  BY DEF ReadsAt
<1>5. InLength(q, j, spec, t)
  BY <1>4 DEF InDirective
<1> QED BY <1>1, <1>2, <1>3, <1>5

(* The step that leaves it. *)
LEMMA LeavesLength ==
  ASSUME NEW n, NEW q, NEW j, NEW t, ReadsAt(n, q, j, t), stage = "length", UNCHANGED <<asked, sent, errored, print_length>>,
         NoArg, NEW k \in Nat, GoOn("type", k), p + k <= asked.cut + 1, j + k <= Len(Rendered(q)),
         p + k <= asked.cut => InType(q, j + k, spec', t)
  PROVE  PrintfInv'
<1>1. ArgsKept /\ t + 0 = t
  BY LengthPartRead
<1>2. ArgsKept' /\ Len(taken') = Len(taken) + 0
  BY <1>1, KeepsArgs
<1>3. stage' = "type" /\ p' = p + k /\ stage' \in Parts
  BY DEF GoOn, Parts
<1>4. p + k <= asked.cut => InDirective(q, stage', j + k, spec', t + 0)
  BY <1>1, <1>3 DEF InDirective
<1> QED BY <1>2, <1>3, <1>4, StaysInside

LEMMA LetterFacts ==
  /\ LengthChars = {"h", "l", "j", "z", "t", "L", "I"} /\ DigitChars \cap LengthChars = {} /\ NUL \notin DigitChars \cup LengthChars
  /\ {"1", "2", "3", "4", "6"} \subseteq DigitChars
<1>1. DigitChars = {"0", "1", "2", "3", "4", "5", "6", "7", "8", "9"}
  BY NumeralTypes
<1> QED BY <1>1 DEF LengthChars, NUL

LEMMA ReadLengthKeeps == ASSUME PrintfInv, UNCHANGED asked, ReadLength PROVE PrintfInv'
<1>1. stage = "length" /\ c # NUL /\ NoArg /\ ~BadBits /\ UNCHANGED <<sent, errored, print_length>>
  BY DEF ReadLength, Reads, Silent
<1>2. PICK n, q, j, t : ReadsAt(n, q, j, t)
  BY <1>1, ReadsInside DEF Parts
<1> DEFINE r == Rendered(q)
           l == Len(r)
           next == CharAt(p + 1)
           Length(ch, k) == spec' = [spec EXCEPT !.length_char = ch] /\ GoOn("type", k)
<1>3. /\ IsPiece(q) /\ q.conv # "text" /\ j \in Nat /\ p \in Nat /\ asked.cut \in Nat /\ p <= asked.cut
      /\ l \in Nat /\ l = PastLength(q) /\ j <= l /\ c = r[j] /\ InLength(q, j, spec, t)
  BY <1>1, <1>2, LengthPartRead
<1>4. \A k \in Nat : /\ CharAt(p + k) # NUL => p + k <= asked.cut
                     /\ p + k <= asked.cut /\ j + k <= l => CharAt(p + k) = r[j + k]
  BY <1>1, <1>2, LengthPartRead
<1>5. /\ next # NUL => p + 1 <= asked.cut
      /\ p + 1 <= asked.cut /\ j + 1 <= l => next = r[j + 1]
      /\ CharAt(p + 2) # NUL => p + 2 <= asked.cut
      /\ p + 2 <= asked.cut /\ j + 2 <= l => CharAt(p + 2) = r[j + 2]
  BY SMTT(20), <1>4
<1>6. /\ q.conv \notin NotRest \cup LengthChars
      /\ \/ q.length = <<>> /\ r[j] = q.conv /\ j = PastLength(q) /\ InType(q, j, spec, t)
         \/ \E x \in LengthChars :
              /\ r[j] = x /\ r[j + 1] = q.conv /\ j + 1 = PastLength(q)
              /\ InType(q, j + 1, [spec EXCEPT !.length_char = x], t)
         \/ \E x \in {"h", "l"} :
              /\ r[j] = x /\ r[j + 1] = x /\ j + 2 = PastLength(q)
              /\ InType(q, j + 2, [spec EXCEPT !.length_char = IF x = "l" THEN "ll" ELSE "hh"], t)
         \/ \E x, y \in {"2", "3", "4", "6"} :
              /\ r[j] = "I" /\ r[j + 1] = x /\ r[j + 2] = y /\ j + 3 = PastLength(q)
              /\ DigitValue(x) * 10 + DigitValue(y) \in {32, 64}
              /\ InType(q, j + 3, [spec EXCEPT !.length_char = "I", !.length_bytes = (DigitValue(x) * 10 + DigitValue(y)) \div 8], t)
         \/ q.length = BadLength /\ r[j] = "I" /\ r[j + 1] = "1" /\ r[j + 2] = "6" /\ j + 3 = PastLength(q)
  BY <1>3, LengthStep
<1>7. \/ c \in {"L", "z", "j", "t"} /\ Length(c, 1)
      \/ c \in {"l", "h"} /\ next \in {"l", "h"} /\ Length(IF next = "l" THEN "ll" ELSE "hh", 2)
      \/ c \in {"l", "h"} /\ next \notin {"l", "h"} /\ Length(c, 1)
      \/ c = "I" /\ (next = "0" \/ ~IsDigit(next)) /\ Length(c, 1)
      \/ /\ c = "I" /\ next # "0" /\ IsDigit(next) /\ GoOn("type", 3)
         /\ spec' = [spec EXCEPT !.length_char = c, !.length_bytes = Bits \div 8]
      \/ c \notin {"L", "z", "j", "t", "l", "h", "I"} /\ GoOn("type", 0) /\ UNCHANGED spec
  BY DEF ReadLength
<1>8. NUL \notin DigitChars \cup LengthChars /\ NUL \notin {"l", "h"}
  BY LetterFacts DEF NUL
<1>9. q.conv \notin DigitChars /\ q.conv \notin LengthChars
  BY <1>6 DEF NotRest
<1> DEFINE Leaves(k) == GoOn("type", k) /\ p + k <= asked.cut + 1 /\ j + k <= l /\ (p + k <= asked.cut => InType(q, j + k, spec', t))
<1>10. \E k \in 0 .. 3 : Leaves(k)
  <2> HIDE DEF r, l, next
  <2>1. CASE q.length = <<>> /\ r[j] = q.conv /\ j = PastLength(q) /\ InType(q, j, spec, t)
    <3>1. c \notin {"L", "z", "j", "t", "l", "h", "I"}
      BY <1>3, <1>9, <2>1, LetterFacts
    <3>2. GoOn("type", 0) /\ spec' = spec
      BY <1>7, <3>1
    <3>3. p + 0 <= asked.cut + 1 /\ j + 0 = j /\ j + 0 <= l
      BY <1>3
    <3>4. Leaves(0)
      BY <2>1, <3>2, <3>3
    <3> QED BY <3>4
  <2>2. CASE \E x \in LengthChars :
              /\ r[j] = x /\ r[j + 1] = q.conv /\ j + 1 = PastLength(q)
              /\ InType(q, j + 1, [spec EXCEPT !.length_char = x], t)
    <3>1. c \in LengthChars /\ InType(q, j + 1, [spec EXCEPT !.length_char = c], t) /\ r[j + 1] = q.conv /\ j + 1 = l
      BY <1>3, <2>2
    <3>2. next \notin DigitChars /\ next \notin {"l", "h"}
      <4>1. next = NUL \/ next = q.conv
        BY <1>3, <1>5, <3>1
      <4> QED BY <1>8, <1>9, <4>1, LetterFacts
    <3>3. Length(c, 1)
      BY <1>7, <3>1, <3>2, LetterFacts DEF IsDigit
    <3>4. p + 1 <= asked.cut + 1 /\ j + 1 <= l
      BY <1>3, <3>1
    <3>5. Leaves(1)
      BY <3>1, <3>3, <3>4
    <3> QED BY <3>5
  <2>3. CASE \E x \in {"h", "l"} :
              /\ r[j] = x /\ r[j + 1] = x /\ j + 2 = PastLength(q)
              /\ InType(q, j + 2, [spec EXCEPT !.length_char = IF x = "l" THEN "ll" ELSE "hh"], t)
    <3>1. /\ c \in {"h", "l"} /\ InType(q, j + 2, [spec EXCEPT !.length_char = IF c = "l" THEN "ll" ELSE "hh"], t)
          /\ r[j + 1] = c /\ j + 2 = l
      BY <1>3, <2>3
    <3>2. j + 1 <= l /\ p + 1 <= asked.cut + 1 /\ j + 2 <= l /\ (p + 1 <= asked.cut => p + 2 <= asked.cut + 1)
      BY <1>3, <3>1
    <3>3. CASE next \in {"l", "h"}
      <4>1. p + 1 <= asked.cut /\ next = c
        BY <1>5, <1>8, <3>1, <3>2, <3>3
      <4>2. Length(IF next = "l" THEN "ll" ELSE "hh", 2)
        BY <1>7, <3>1, <3>3
      <4>3. Leaves(2)
        BY <3>1, <3>2, <4>1, <4>2
      <4> QED BY <4>3
    <3>4. CASE next \notin {"l", "h"}
      <4>1. ~(p + 1 <= asked.cut)
        BY <1>5, <3>1, <3>2, <3>4
      <4>2. Length(c, 1)
        BY <1>7, <3>1, <3>4
      <4>3. Leaves(1)
        BY <3>2, <4>1, <4>2
      <4> QED BY <4>3
    <3> QED BY <3>3, <3>4
  <2>4. CASE \E x, y \in {"2", "3", "4", "6"} :
              /\ r[j] = "I" /\ r[j + 1] = x /\ r[j + 2] = y /\ j + 3 = PastLength(q)
              /\ DigitValue(x) * 10 + DigitValue(y) \in {32, 64}
              /\ InType(q, j + 3, [spec EXCEPT !.length_char = "I", !.length_bytes = (DigitValue(x) * 10 + DigitValue(y)) \div 8], t)
    <3>1. PICK x \in {"2", "3", "4", "6"}, y \in {"2", "3", "4", "6"} :
              /\ r[j] = "I" /\ r[j + 1] = x /\ r[j + 2] = y /\ j + 3 = PastLength(q)
              /\ DigitValue(x) * 10 + DigitValue(y) \in {32, 64}
              /\ InType(q, j + 3, [spec EXCEPT !.length_char = "I", !.length_bytes = (DigitValue(x) * 10 + DigitValue(y)) \div 8], t)
      BY <2>4
    <3>2. c = "I" /\ j + 1 <= l /\ j + 2 <= l /\ j + 3 <= l /\ p + 1 <= asked.cut + 1 /\ (p + 2 <= asked.cut => p + 3 <= asked.cut + 1)
      BY <1>3, <3>1
    <3>3. x \in DigitChars /\ x # "0"
      BY LetterFacts
    <3>4. CASE next # "0" /\ IsDigit(next)
      <4>1. p + 1 <= asked.cut /\ next = x
        BY <1>5, <1>8, <3>1, <3>2, <3>4 DEF IsDigit
      <4>2. IsDigit(CharAt(p + 2))
        BY <1>1, <3>2, <3>4 DEF BadBits, next
      <4>3. p + 2 <= asked.cut /\ CharAt(p + 2) = y
        BY <1>5, <1>8, <3>1, <3>2, <4>2 DEF IsDigit
      <4>4. Bits = DigitValue(x) * 10 + DigitValue(y)
        BY <4>1, <4>3 DEF Bits, next
      <4>5. GoOn("type", 3) /\ spec' = [spec EXCEPT !.length_char = c, !.length_bytes = Bits \div 8]
        BY <1>7, <3>2, <3>4
      <4>6. InType(q, j + 3, spec', t)
        BY <3>1, <3>2, <4>4, <4>5
      <4>7. Leaves(3)
        BY <3>2, <4>3, <4>5, <4>6
      <4> QED BY <4>7
    <3>5. CASE next = "0" \/ ~IsDigit(next)
      <4>1. ~(p + 1 <= asked.cut)
        BY <1>5, <3>1, <3>2, <3>3, <3>5 DEF IsDigit
      <4>2. Length(c, 1)
        BY <1>7, <3>2, <3>5
      <4>3. Leaves(1)
        BY <3>2, <4>1, <4>2
      <4> QED BY <4>3
    <3> QED BY <3>4, <3>5
  <2>5. CASE q.length = BadLength /\ r[j] = "I" /\ r[j + 1] = "1" /\ r[j + 2] = "6" /\ j + 3 = PastLength(q)
    <3>1. c = "I" /\ j + 1 <= l /\ j + 2 <= l /\ j + 3 <= l /\ p + 1 <= asked.cut + 1
      BY <1>3, <2>5
    <3>2. CASE next # "0" /\ IsDigit(next)
      <4>1. p + 1 <= asked.cut /\ next = "1"
        BY <1>5, <1>8, <2>5, <3>1, <3>2 DEF IsDigit
      <4>2. IsDigit(CharAt(p + 2)) /\ Bits \in {32, 64}
        BY <1>1, <3>1, <3>2 DEF BadBits, next
      <4>3. p + 2 <= asked.cut /\ CharAt(p + 2) = "6"
        BY <1>5, <1>8, <2>5, <3>1, <4>2 DEF IsDigit
      <4>4. Bits = 1 * 10 + 6
        BY <4>1, <4>3, NumeralTypes DEF Bits, next
      <4> QED BY <4>2, <4>4
    <3>3. CASE next = "0" \/ ~IsDigit(next)
      <4>1. ~(p + 1 <= asked.cut)
        <5>1. "1" \in DigitChars /\ "1" # "0"
          BY LetterFacts
        <5> QED BY <1>5, <2>5, <3>1, <3>3, <5>1 DEF IsDigit
      <4>2. Length(c, 1)
        BY <1>7, <3>1, <3>3
      <4>3. Leaves(1)
        BY <3>1, <4>1, <4>2
      <4> QED BY <4>3
    <3> QED BY <3>2, <3>3
  <2> QED BY <1>6, <2>1, <2>2, <2>3, <2>4, <2>5
<1>11. PICK k \in 0 .. 3 : Leaves(k)
  BY <1>10
<1>12. k \in Nat
  OBVIOUS
<1> QED BY <1>1, <1>2, <1>11, <1>12, LeavesLength

(* What PrintfRight says of a call that is over, of its format, what it sent, *)
(* the types it asked for and what it returned.                               *)
RightOf(f, s, ts, result) ==
  LET inside == SizeOf(f, WholeOf(f)) < f.cut
      all == ArgsOfAll(f.pieces)
  IN
  /\ s = SentTo(f.pieces, WholeOf(f))
  /\ result = -1 <=> inside \/ \E k \in 1 .. WholeOf(f) : ~Known(f.pieces[k])
  /\ Len(ts) <= Len(all) /\ \A k \in 1 .. Len(ts) : ts[k] = all[k].type
  /\ ~inside => Len(ts) = Len(ArgsTo(f.pieces, WholeOf(f)))

LEMMA WholesAgree == Whole = WholeOf(asked) /\ \A n : Size(n) = SizeOf(asked, n)
<1>1. \A n : Size(n) = SizeOf(asked, n)
  BY DEF Size, SizeOf
<1>2. Whole = WholeOf(asked)
  BY Zenon DEF Whole, WholeOf, Size, SizeOf
<1> QED BY <1>1, <1>2

LEMMA WholesAgreeNext == (Whole)' = WholeOf(asked') /\ \A n : Size(n)' = SizeOf(asked', n)
<1>1. \A n : Size(n)' = SizeOf(asked', n)
  BY DEF Size, SizeOf
<1>2. (Whole)' = WholeOf(asked')
  BY Zenon DEF Whole, WholeOf, Size, SizeOf
<1> QED BY <1>1, <1>2

LEMMA RightNext == stage' = "done" => (PrintfRight' <=> RightOf(asked', sent', taken', returned'))
BY WholesAgreeNext, Zenon DEF PrintfRight, RightOf

(* printf is done within the piece behind the first n, or behind the first n. *)
LEMMA EndsInside ==
  ASSUME Running, NEW n \in 0 .. Len(asked.pieces) - 1, Told(n),
         SizeOf(asked, n) < asked.cut, asked.cut < SizeOf(asked, n + 1),
         UNCHANGED <<asked, sent, print_length>>, NoArg, PrintfReturns(TRUE)
  PROVE  PrintfInv'
<1>1. asked \in Formats /\ ArgsKept /\ print_length \in Nat
  BY DEF Running
<1>2. stage' = "done" /\ errored' = TRUE /\ returned' = -1 /\ taken' = taken
  BY DEF PrintfReturns, NoArg
<1>3. WholeOf(asked) = n
  <2>1. asked.cut \in Nat /\ SizeOf(asked, n) \in Nat /\ n \in 0 .. Len(asked.pieces)
    BY <1>1, PieceChars
  <2> QED BY <1>1, <2>1, WholeIs
<1>4. Len(taken) <= Len(ArgsOfAll(asked.pieces)) /\ \A k \in 1 .. Len(taken) : taken[k] = ArgsOfAll(asked.pieces)[k].type
  <2>1. Len(taken) \in Nat /\ Len(args) \in Nat /\ Len(taken) + Len(args) = Len(ArgsOfAll(asked.pieces))
    BY <1>1, LenProperties DEF ArgsKept
  <2> QED BY <1>1, <2>1 DEF ArgsKept
<1>5. RightOf(asked, sent, taken, -1)
  BY <1>3, <1>4 DEF RightOf, Told
<1>6. PrintfRight'
  BY <1>2, <1>5, RightNext
<1>7. Running'
  <2>1. ArgsKept'
    BY <1>1, KeepsArgs
  <2> QED BY <1>1, <1>2, <2>1 DEF Running
<1> QED BY <1>2, <1>6, <1>7 DEF PrintfInv

LEMMA EndsBehind ==
  ASSUME Running, NEW n \in 0 .. Len(asked.pieces), SizeOf(asked, n) = asked.cut,
         sent = SentTo(asked.pieces, n), Len(taken) = ArgBase(asked, n), NEW err \in BOOLEAN, err <=> Met(n),
         UNCHANGED <<asked, sent, print_length>>, NoArg, PrintfReturns(err)
  PROVE  PrintfInv'
<1>1. asked \in Formats /\ ArgsKept /\ print_length \in Nat /\ asked.cut \in Nat
  BY FormatTypes DEF Running
<1>2. stage' = "done" /\ errored' = err /\ (returned' = -1 <=> err) /\ taken' = taken
  BY <1>1 DEF PrintfReturns, NoArg
<1>3. WholeOf(asked) = n
  <2>1. n < Len(asked.pieces) => asked.cut < SizeOf(asked, n + 1)
    <3> SUFFICES ASSUME n < Len(asked.pieces) PROVE asked.cut < SizeOf(asked, n + 1)
      OBVIOUS
    <3>1. n \in 0 .. Len(asked.pieces) - 1
      <4>1. Len(asked.pieces) \in Nat
        BY <1>1, FormatTypes
      <4> QED BY <4>1
    <3>2. SizeOf(asked, n) \in Nat /\ Len(Rendered(asked.pieces[n + 1])) \in Nat /\ Len(Rendered(asked.pieces[n + 1])) >= 1
          /\ SizeOf(asked, n + 1) = SizeOf(asked, n) + Len(Rendered(asked.pieces[n + 1]))
      BY <1>1, <3>1, PieceChars
    <3> QED BY <3>2
  <2> QED BY <1>1, <2>1, WholeIs
<1>4. Len(taken) <= Len(ArgsOfAll(asked.pieces)) /\ \A k \in 1 .. Len(taken) : taken[k] = ArgsOfAll(asked.pieces)[k].type
  <2>1. Len(taken) \in Nat /\ Len(args) \in Nat /\ Len(taken) + Len(args) = Len(ArgsOfAll(asked.pieces))
    BY <1>1, LenProperties DEF ArgsKept
  <2> QED BY <1>1, <2>1 DEF ArgsKept
<1>5. RightOf(asked, sent, taken, returned')
  <2>1. ~(SizeOf(asked, n) < asked.cut)
    BY <1>1
  <2> QED BY <1>2, <1>3, <1>4, <2>1 DEF RightOf, ArgBase, Met
<1>6. PrintfRight'
  BY <1>2, <1>5, RightNext
<1>7. Running'
  <2>1. ArgsKept'
    BY <1>1, KeepsArgs
  <2> QED BY <1>1, <1>2, <2>1 DEF Running
<1> QED BY <1>2, <1>6, <1>7 DEF PrintfInv

LEMMA MetNext ==
  ASSUME NEW n \in 0 .. Len(asked.pieces) - 1
  PROVE  Met(n + 1) <=> Met(n) \/ ~Known(asked.pieces[n + 1])
<1>1. \A k \in 1 .. n + 1 : k \in 1 .. n \/ k = n + 1
  OBVIOUS
<1>2. 1 .. n \subseteq 1 .. n + 1 /\ n + 1 \in 1 .. n + 1
  OBVIOUS
<1> HIDE DEF Known
<1> QED BY <1>1, <1>2, Zenon DEF Met

(* The format ends within a directive. *)
LEMMA CutShortKeeps == ASSUME PrintfInv, UNCHANGED asked, CutShort PROVE PrintfInv'
<1>1. stage \in Parts /\ c = NUL /\ NoArg /\ UNCHANGED <<sent, print_length>> /\ PrintfReturns(TRUE)
  BY DEF CutShort, Silent
<1>2. PICK n : Running /\ InPiece(n)
  BY <1>1 DEF PrintfInv, AtPiece, Parts
<1> DEFINE b == SizeOf(asked, n)
           q == asked.pieces[n + 1]
           l == Len(Rendered(q))
<1>3. /\ asked \in Formats /\ n \in 0 .. Len(asked.pieces) - 1 /\ Told(n) /\ p \in Nat /\ b + 1 < p /\ p <= SizeOf(asked, n + 1)
      /\ p <= asked.cut + 1
  BY <1>2 DEF Running, InPiece
<1>4. /\ asked.cut \in Nat /\ b \in Nat /\ SizeOf(asked, n + 1) \in Nat /\ SizeOf(asked, n + 1) = b + l /\ l \in Nat
      /\ \A i \in 1 .. l : b + i <= asked.cut => CharAt(b + i) # NUL
  BY <1>3, PieceChars
<1>5. ~(p <= asked.cut)
  <2>1. p - b \in 1 .. l /\ b + (p - b) = p
    <3> HIDE DEF b, l
    <3> QED BY <1>3, <1>4
  <2> QED BY <1>1, <1>4, <2>1 DEF c
<1>6. b < asked.cut /\ asked.cut < SizeOf(asked, n + 1)
  <2> HIDE DEF b
  <2> QED BY <1>3, <1>4, <1>5
<1> QED BY <1>1, <1>2, <1>3, <1>6, EndsInside

(* printf refuses a length, or the format ends within one. *)
LEMMA LengthFailsKeeps == ASSUME PrintfInv, UNCHANGED asked, LengthFails PROVE PrintfInv'
<1>1. stage = "length" /\ BadBits /\ NoArg /\ UNCHANGED <<sent, print_length>> /\ PrintfReturns(TRUE)
  BY DEF LengthFails, Silent
<1>2. c = "I" /\ CharAt(p + 1) # "0" /\ IsDigit(CharAt(p + 1)) /\ (IsDigit(CharAt(p + 2)) => Bits \notin {32, 64})
  BY <1>1 DEF BadBits
<1>3. PICK n, q, j, t : ReadsAt(n, q, j, t)
  BY <1>1, <1>2, ReadsInside DEF Parts, NUL
<1> DEFINE r == Rendered(q)
           l == Len(r)
           next == CharAt(p + 1)
           b == SizeOf(asked, n)
<1>4. /\ IsPiece(q) /\ q.conv # "text" /\ j \in Nat /\ p \in Nat /\ asked.cut \in Nat /\ p <= asked.cut
      /\ l \in Nat /\ l = PastLength(q) /\ j <= l /\ c = r[j] /\ InLength(q, j, spec, t)
  BY <1>1, <1>3, LengthPartRead
<1>5. \A k \in Nat : /\ CharAt(p + k) # NUL => p + k <= asked.cut
                     /\ p + k <= asked.cut /\ j + k <= l => CharAt(p + k) = r[j + k]
  BY <1>1, <1>3, LengthPartRead
<1>6. /\ next # NUL => p + 1 <= asked.cut
      /\ p + 1 <= asked.cut /\ j + 1 <= l => next = r[j + 1]
      /\ p + 2 <= asked.cut /\ j + 2 <= l => CharAt(p + 2) = r[j + 2]
  BY <1>5
<1>7. /\ q.conv \notin NotRest \cup LengthChars
      /\ \/ q.length = <<>> /\ r[j] = q.conv /\ j = PastLength(q) /\ InType(q, j, spec, t)
         \/ \E x \in LengthChars :
              /\ r[j] = x /\ r[j + 1] = q.conv /\ j + 1 = PastLength(q)
              /\ InType(q, j + 1, [spec EXCEPT !.length_char = x], t)
         \/ \E x \in {"h", "l"} :
              /\ r[j] = x /\ r[j + 1] = x /\ j + 2 = PastLength(q)
              /\ InType(q, j + 2, [spec EXCEPT !.length_char = IF x = "l" THEN "ll" ELSE "hh"], t)
         \/ \E x, y \in {"2", "3", "4", "6"} :
              /\ r[j] = "I" /\ r[j + 1] = x /\ r[j + 2] = y /\ j + 3 = PastLength(q)
              /\ DigitValue(x) * 10 + DigitValue(y) \in {32, 64}
              /\ InType(q, j + 3, [spec EXCEPT !.length_char = "I", !.length_bytes = (DigitValue(x) * 10 + DigitValue(y)) \div 8], t)
         \/ q.length = BadLength /\ r[j] = "I" /\ r[j + 1] = "1" /\ r[j + 2] = "6" /\ j + 3 = PastLength(q)
  BY <1>4, LengthStep
<1>8. next \in DigitChars /\ p + 1 <= asked.cut
  BY <1>2, <1>6, LetterFacts DEF IsDigit
<1>9. q.conv \notin DigitChars /\ q.conv \notin LengthChars
  BY <1>7 DEF NotRest
<1>10. /\ Running /\ asked \in Formats /\ n \in 0 .. Len(asked.pieces) - 1 /\ q = asked.pieces[n + 1] /\ Told(n)
       /\ b \in Nat /\ p = b + j /\ SizeOf(asked, n + 1) = b + l /\ j >= 1
       /\ t = StarArgs(q) /\ Len(taken) = ArgBase(asked, n) + t /\ q \in Pieces
  <2>1. /\ Running /\ n \in 0 .. Len(asked.pieces) - 1 /\ q = asked.pieces[n + 1] /\ InPiece(n) /\ q \in Pieces
        /\ b \in Nat /\ p = b + j /\ SizeOf(asked, n + 1) = b + l /\ j \in 1 .. l
    BY <1>3, Zenon DEF ReadsAt
  <2>2. t = StarArgs(q)
    BY <1>4 DEF InLength
  <2>3. Len(taken) = ArgBase(asked, n) + t
    BY <1>3, ReadsAtTypes
  <2>4. Told(n) /\ asked \in Formats
    BY <2>1 DEF InPiece, Running
  <2> QED BY <1>4, <2>1, <2>2, <2>3, <2>4
<1>11. j + 3 = l /\ (~(p + 2 <= asked.cut) \/ q.length = BadLength)
  <2> HIDE DEF r, l, next, b
  <2>1. CASE q.length = <<>> /\ r[j] = q.conv /\ j = PastLength(q) /\ InType(q, j, spec, t)
    BY <1>2, <1>4, <1>9, <2>1, LetterFacts
  <2>2. CASE \E x \in LengthChars :
              /\ r[j] = x /\ r[j + 1] = q.conv /\ j + 1 = PastLength(q)
              /\ InType(q, j + 1, [spec EXCEPT !.length_char = x], t)
    <3>1. r[j + 1] = q.conv /\ j + 1 <= l
      BY <1>4, <2>2
    <3> QED BY <1>6, <1>8, <1>9, <3>1
  <2>3. CASE \E x \in {"h", "l"} :
              /\ r[j] = x /\ r[j + 1] = x /\ j + 2 = PastLength(q)
              /\ InType(q, j + 2, [spec EXCEPT !.length_char = IF x = "l" THEN "ll" ELSE "hh"], t)
    BY <1>2, <1>4, <2>3
  <2>4. CASE \E x, y \in {"2", "3", "4", "6"} :
              /\ r[j] = "I" /\ r[j + 1] = x /\ r[j + 2] = y /\ j + 3 = PastLength(q)
              /\ DigitValue(x) * 10 + DigitValue(y) \in {32, 64}
              /\ InType(q, j + 3, [spec EXCEPT !.length_char = "I", !.length_bytes = (DigitValue(x) * 10 + DigitValue(y)) \div 8], t)
    <3>1. PICK x \in {"2", "3", "4", "6"}, y \in {"2", "3", "4", "6"} :
              /\ r[j + 1] = x /\ r[j + 2] = y /\ j + 3 = PastLength(q)
              /\ DigitValue(x) * 10 + DigitValue(y) \in {32, 64}
      BY <2>4
    <3>2. j + 1 <= l /\ j + 2 <= l /\ j + 3 = l
      BY <1>4, <3>1
    <3>3. y \in DigitChars
      BY LetterFacts
    <3>4. CASE p + 2 <= asked.cut
      <4>1. CharAt(p + 2) = y /\ next = x
        BY <1>6, <1>8, <3>1, <3>2, <3>4
      <4>2. Bits = DigitValue(x) * 10 + DigitValue(y)
        BY <4>1 DEF Bits, next
      <4> QED BY <1>2, <3>1, <3>3, <4>1, <4>2 DEF IsDigit
    <3> QED BY <3>2, <3>4
  <2>5. CASE q.length = BadLength /\ r[j] = "I" /\ r[j + 1] = "1" /\ r[j + 2] = "6" /\ j + 3 = PastLength(q)
    BY <1>4, <2>5
  <2> QED BY <1>7, <2>1, <2>2, <2>3, <2>4, <2>5
<1>12. CASE asked.cut < SizeOf(asked, n + 1)
  <2>1. b < asked.cut
    <3> HIDE DEF b
    <3> QED BY <1>4, <1>10
  <2> QED BY <1>1, <1>10, <1>12, <2>1, EndsInside
<1>13. CASE ~(asked.cut < SizeOf(asked, n + 1))
  <2> DEFINE N == Len(asked.pieces)
  <2>1. /\ n \in Nat /\ n + 1 \in 1 .. N /\ n + 1 \in 0 .. N /\ N \in Nat
        /\ asked.cut <= SizeOf(asked, N) /\ SizeOf(asked, N) \in Nat /\ SizeOf(asked, n + 1) \in Nat
    <3>1. N \in Nat /\ asked.cut <= SizeOf(asked, N)
      BY <1>10, FormatTypes
    <3>2. n \in Nat /\ n + 1 \in 1 .. N /\ n + 1 \in 0 .. N /\ SizeOf(asked, n + 1) \in Nat
      BY <1>10, PieceChars
    <3>3. SizeOf(asked, N) \in Nat
      <4>1. N \in 0 .. N
        BY <3>1
      <4> QED BY <1>10, <4>1, FirstSize
    <3> QED BY <3>1, <3>2, <3>3
  <2>2. q.length = BadLength
    <3>1. p + 2 < SizeOf(asked, n + 1) \/ q.length = BadLength
      <4>1. j + 3 = l
        BY <1>11
      <4> HIDE DEF l, b
      <4>2. SizeOf(asked, n + 1) = p + 3
        BY <1>4, <1>10, <4>1
      <4> QED BY <1>4, <4>2
    <3> HIDE DEF l, b
    <3> QED BY <1>4, <1>11, <1>13, <2>1, <3>1
  <2>3. n + 1 = N
    BY <1>4, <1>10, <2>1, <2>2, FormatTypes
  <2>4. SizeOf(asked, n + 1) = asked.cut
    <3>1. SizeOf(asked, N) = SizeOf(asked, n + 1)
      BY <2>3
    <3> QED BY <1>4, <1>13, <2>1, <3>1
  <2>5. ~Known(q)
    BY <1>4, <2>2 DEF Known
  <2>6. sent = SentTo(asked.pieces, n + 1)
    <3>1. Sent(q) = <<>>
      BY <2>5 DEF Sent
    <3>2. (n + 1) - 1 = n
      BY <2>1
    <3>3. SentTo(asked.pieces, n + 1) = SentTo(asked.pieces, n)
      BY <1>10, <2>1, <3>1, <3>2, SentLies
    <3> QED BY <1>10, <3>3 DEF Told
  <2>7. Met(n + 1)
    BY <1>10, <2>5, MetNext
  <2>8. Len(taken) = ArgBase(asked, n + 1)
    <3>1. ~HasArg(q)
      BY <2>5 DEF HasArg
    <3>2. Len(ArgsOf(q)) = StarArgs(q) + Ones(HasArg(q)) /\ StarArgs(q) \in 0 .. 2
      BY <1>4, <1>10, ArgsOfLies
    <3>3. Ones(HasArg(q)) = 0
      BY <3>1 DEF Ones
    <3>4. (n + 1) - 1 = n
      BY <2>1
    <3>5. ArgBase(asked, n + 1) = ArgBase(asked, n) + Len(ArgsOf(q))
      BY <1>10, <2>1, <3>4, ArgsLie
    <3>6. Len(ArgsOf(q)) = StarArgs(q)
      BY <3>2, <3>3
    <3> QED BY <1>10, <3>5, <3>6
  <2> QED BY <1>1, <1>10, <2>1, <2>4, <2>6, <2>7, <2>8, EndsBehind
<1> QED BY <1>12, <1>13

(* printf is behind one more piece. *)
LEMMA GetsBehind ==
  ASSUME asked \in Formats, NEW n \in 0 .. Len(asked.pieces) - 1, UNCHANGED asked, stage' = "loop",
         p' = SizeOf(asked, n + 1) + 1, SizeOf(asked, n + 1) <= asked.cut,
         sent' = SentTo(asked.pieces, n + 1), errored' \in BOOLEAN, errored' <=> Met(n + 1), print_length' \in Nat,
         ArgsKept', Len(taken') = ArgBase(asked, n + 1)
  PROVE  PrintfInv'
<1>1. n + 1 \in 0 .. Len(asked.pieces)
  BY PieceChars
<1>2. Running'
  BY DEF Running
<1>3. Told(n + 1)'
  BY DEF Told, Met
<1>4. AtPiece(n + 1)'
  BY <1>1, <1>3 DEF AtPiece
<1> QED BY <1>2, <1>4 DEF PrintfInv

LEMMA ReadTypeKeeps == ASSUME PrintfInv, UNCHANGED asked, ReadType PROVE PrintfInv'
<1>1. stage = "type" /\ c # NUL /\ stage' = "loop" /\ p' = p + 1
  BY DEF ReadType, GoOn
<1>2. PICK n, q, j, t : ReadsAt(n, q, j, t)
  BY <1>1, ReadsInside DEF Parts
<1> DEFINE b == SizeOf(asked, n)
<1>3. /\ IsPiece(q) /\ q \in Pieces /\ q.conv # "text" /\ ArgsKept /\ asked \in Formats /\ j \in Nat /\ t \in Int
      /\ p \in Nat /\ asked.cut \in Nat /\ p <= asked.cut /\ c = Rendered(q)[j]
      /\ n \in 0 .. Len(asked.pieces) - 1 /\ q = asked.pieces[n + 1] /\ ArgBase(asked, n) \in Nat
      /\ Len(taken) = ArgBase(asked, n) + t
  BY <1>2, ReadsAtTypes
<1>4. InType(q, j, spec, t)
  <2>1. InDirective(q, "type", j, spec, t)
    BY <1>1, <1>2 DEF ReadsAt
  <2> QED BY <2>1 DEF InDirective
<1>5. /\ j = PastLength(q) /\ Rendered(q)[j] = q.conv /\ t = StarArgs(q) /\ q.length # BadLength
      /\ Directive(spec, q.conv) = Meaning(q) /\ spec.length_char = Meaning(q).length /\ spec.length_bytes = BytesOf(q)
  BY <1>3, <1>4, TypeStep
<1>6. c = q.conv
  BY <1>3, <1>5
<1>7. /\ Known(q) <=> q.conv = "%" \/ ArgType # "none"
      /\ q.conv = "%" => ~HasArg(q)
      /\ q.conv # "%" /\ ArgType # "none" => HasArg(q) /\ ArgType = StandardType(q.conv, q.length)
      /\ q.conv # "%" /\ ArgType = "none" => ~HasArg(q)
  BY <1>3, <1>5, <1>6, ArgTypeIs
<1>8. Running /\ Told(n) /\ p = b + j /\ b \in Nat /\ SizeOf(asked, n + 1) = b + Len(Rendered(q))
  BY <1>2, Zenon DEF ReadsAt, InPiece
<1>9. SizeOf(asked, n + 1) = p /\ SizeOf(asked, n + 1) <= asked.cut
  <2>1. Len(Rendered(q)) = j
    BY <1>3, <1>5, Places
  <2> QED BY <1>3, <1>8, <2>1
<1>10. n + 1 \in 1 .. Len(asked.pieces) /\ (n + 1) - 1 = n
  BY <1>3, PieceChars
<1>11. /\ Len(ArgsOf(q)) = StarArgs(q) + Ones(HasArg(q)) /\ StarArgs(q) \in 0 .. 2
       /\ HasArg(q) => ArgsOf(q)[StarArgs(q) + 1] = Arg(StandardType(q.conv, q.length), 0)
  BY <1>3, ArgsOfLies
<1>12. ArgBase(asked, n + 1) = ArgBase(asked, n) + Len(ArgsOf(q))
  BY <1>3, <1>10, ArgsLie
<1>13. ~HasArg(q) => ArgBase(asked, n + 1) = Len(taken)
  <2>1. ~HasArg(q) => Len(ArgsOf(q)) = StarArgs(q)
    BY <1>11 DEF Ones
  <2> QED BY <1>3, <1>5, <1>12, <2>1
<1>14. ASSUME HasArg(q) PROVE ArgBase(asked, n + 1) = Len(taken) + 1 /\ t \in 0 .. Len(ArgsOf(q)) - 1
  <2> DEFINE L == Len(ArgsOf(q))
  <2>1. Ones(HasArg(q)) = 1
    BY <1>14 DEF Ones
  <2>2. L = t + 1 /\ t \in 0 .. 2
    BY <1>5, <1>11, <2>1
  <2>3. ArgBase(asked, n + 1) = ArgBase(asked, n) + L
    BY <1>12
  <2> HIDE DEF L
  <2>4. t \in 0 .. L - 1 /\ ArgBase(asked, n) + L = (ArgBase(asked, n) + t) + 1
    BY <1>3, <2>2
  <2> QED BY <1>3, <2>3, <2>4 DEF L
<1>15. /\ Sent(q) = <<>> => SentTo(asked.pieces, n + 1) = SentTo(asked.pieces, n)
       /\ Sent(q) = <<Meaning(q)>> => SentTo(asked.pieces, n + 1) = Append(SentTo(asked.pieces, n), Meaning(q))
  BY <1>3, <1>10, SentLies
<1>16. Sent(q) = IF Known(q) THEN <<Meaning(q)>> ELSE <<>>
  BY <1>3 DEF Sent
<1>17. sent = SentTo(asked.pieces, n) /\ (errored <=> Met(n)) /\ errored \in BOOLEAN /\ print_length \in Nat
  BY <1>8 DEF Told, Running
<1>18. Met(n + 1) <=> Met(n) \/ ~Known(q)
  BY <1>3, MetNext
<1>19. CASE c = "%"
  <2>1. NoArg /\ errored' = errored /\ sent' = Append(sent, Directive(spec, c)) /\ print_length' = print_length + 1
    BY <1>19 DEF ReadType
  <2>2. Known(q) /\ ~HasArg(q)
    BY <1>6, <1>7, <1>19
  <2>3. sent' = SentTo(asked.pieces, n + 1)
    BY <1>5, <1>6, <1>15, <1>16, <1>17, <2>1, <2>2
  <2>4. ArgsKept' /\ Len(taken') = Len(taken)
    BY <1>3, <2>1, KeepsArgs DEF NoArg
  <2>5. errored' \in BOOLEAN /\ (errored' <=> Met(n + 1)) /\ print_length' \in Nat
    BY <1>17, <1>18, <2>1, <2>2
  <2>6. Len(taken') = ArgBase(asked, n + 1)
    BY <1>13, <2>2, <2>4
  <2> QED BY <1>1, <1>3, <1>9, <2>3, <2>4, <2>5, <2>6, GetsBehind
<1>20. CASE c # "%" /\ ArgType # "none"
  <2>1. /\ va_arg(ArgType) /\ errored' = errored /\ sent' = Append(sent, Directive(spec, c))
        /\ print_length' = IF c = "n" THEN print_length ELSE print_length + 1
    BY <1>20 DEF ReadType
  <2>2. Known(q) /\ HasArg(q) /\ ArgType = StandardType(q.conv, q.length)
    BY <1>6, <1>7, <1>20
  <2>3. sent' = SentTo(asked.pieces, n + 1)
    BY <1>5, <1>6, <1>15, <1>16, <1>17, <2>1, <2>2
  <2>4. ArgsKept' /\ Len(taken') = Len(taken) + 1
    <3>1. ArgsOf(q)[t + 1].type = ArgType
      <4>1. ArgsOf(q)[t + 1] = Arg(StandardType(q.conv, q.length), 0)
        BY <1>5, <1>11, <2>2
      <4>2. \A x : Arg(x, 0).type = x
        BY DEF Arg
      <4> HIDE DEF ArgType
      <4> QED BY <2>2, <4>1, <4>2
    <3> HIDE DEF ArgType
    <3> QED BY <1>2, <1>14, <2>1, <2>2, <3>1, TakesStar
  <2>5. errored' \in BOOLEAN /\ (errored' <=> Met(n + 1)) /\ print_length' \in Nat
    BY <1>17, <1>18, <2>1, <2>2
  <2>6. Len(taken') = ArgBase(asked, n + 1)
    BY <1>14, <2>2, <2>4
  <2> QED BY <1>1, <1>3, <1>9, <2>3, <2>4, <2>5, <2>6, GetsBehind
<1>21. CASE c # "%" /\ ArgType = "none"
  <2>1. NoArg /\ errored' = TRUE /\ sent' = sent /\ print_length' = print_length
    BY <1>21 DEF ReadType, Silent
  <2>2. ~Known(q) /\ ~HasArg(q)
    BY <1>6, <1>7, <1>21
  <2>3. sent' = SentTo(asked.pieces, n + 1)
    BY <1>15, <1>16, <1>17, <2>1, <2>2
  <2>4. ArgsKept' /\ Len(taken') = Len(taken)
    BY <1>3, <2>1, KeepsArgs DEF NoArg
  <2>5. errored' \in BOOLEAN /\ (errored' <=> Met(n + 1)) /\ print_length' \in Nat
    BY <1>17, <1>18, <2>1, <2>2
  <2>6. Len(taken') = ArgBase(asked, n + 1)
    BY <1>13, <2>2, <2>4
  <2> QED BY <1>1, <1>3, <1>9, <2>3, <2>4, <2>5, <2>6, GetsBehind
<1> QED BY <1>19, <1>20, <1>21

(* Between the pieces. *)
LEMMA ReadsAtPiece ==
  ASSUME PrintfInv, stage = "loop"
  PROVE  \E n : Running /\ AtPiece(n) /\ (c = NUL => SizeOf(asked, n) = asked.cut)
                /\ (c # NUL => n \in 0 .. Len(asked.pieces) - 1 /\ p <= asked.cut /\ c = Rendered(asked.pieces[n + 1])[1])
<1>1. PICK n : Running /\ AtPiece(n)
  BY DEF PrintfInv, InPiece, Parts
<1> DEFINE b == SizeOf(asked, n)
           N == Len(asked.pieces)
<1>2. asked \in Formats /\ n \in 0 .. N /\ p = b + 1 /\ b <= asked.cut
  BY <1>1 DEF Running, AtPiece
<1>3. N \in Nat /\ asked.cut \in Nat /\ asked.cut <= SizeOf(asked, N) /\ b \in Nat
  BY <1>2, FormatTypes, FirstSize
<1>4. b < asked.cut => n \in 0 .. N - 1 /\ CharAt(b + 1) = Rendered(asked.pieces[n + 1])[1] /\ CharAt(b + 1) # NUL
  <2> SUFFICES ASSUME b < asked.cut PROVE n \in 0 .. N - 1 /\ CharAt(b + 1) = Rendered(asked.pieces[n + 1])[1] /\ CharAt(b + 1) # NUL
    OBVIOUS
  <2>1. n # N
    BY <1>3
  <2>2. n \in 0 .. N - 1
    BY <1>2, <1>3, <2>1
  <2>3. 1 \in 1 .. Len(Rendered(asked.pieces[n + 1]))
    BY <1>2, <2>2, PieceChars
  <2>4. b + 1 <= asked.cut
    BY <1>3
  <2> QED BY <1>2, <2>2, <2>3, <2>4, PieceChars
<1>5. ~(b < asked.cut) => CharAt(b + 1) = NUL /\ b = asked.cut
  <2>1. ~(b < asked.cut) => b + 1 \in Nat /\ b + 1 > asked.cut /\ b = asked.cut
    BY <1>2, <1>3
  <2> QED BY <1>2, <2>1, BeyondCut
<1>6. b < asked.cut => p <= asked.cut
  BY <1>2, <1>3
<1>7. c = CharAt(b + 1)
  BY <1>2 DEF c
<1> QED BY <1>1, <1>4, <1>5, <1>6, <1>7

LEMMA LoopEndKeeps == ASSUME PrintfInv, UNCHANGED asked, LoopEnd PROVE PrintfInv'
<1>1. stage = "loop" /\ c = NUL /\ NoArg /\ UNCHANGED <<sent, print_length>> /\ PrintfReturns(errored)
  BY DEF LoopEnd, Silent
<1>2. PICK n : Running /\ AtPiece(n) /\ SizeOf(asked, n) = asked.cut
  BY <1>1, ReadsAtPiece
<1>3. /\ n \in 0 .. Len(asked.pieces) /\ sent = SentTo(asked.pieces, n) /\ Len(taken) = ArgBase(asked, n)
      /\ errored \in BOOLEAN /\ (errored <=> Met(n))
  BY <1>2 DEF AtPiece, Told, Running
<1> QED BY <1>1, <1>2, <1>3, EndsBehind

LEMMA PercentKeeps == ASSUME PrintfInv, UNCHANGED asked, Percent PROVE PrintfInv'
<1>1. /\ stage = "loop" /\ c = "%" /\ NoArg /\ UNCHANGED <<sent, print_length, errored>>
      /\ stage' = "flags" /\ p' = p + 1 /\ spec' = NoSpec
  BY DEF Percent, Silent, GoOn
<1>2. PICK n : /\ Running /\ AtPiece(n) /\ n \in 0 .. Len(asked.pieces) - 1 /\ p <= asked.cut
               /\ c = Rendered(asked.pieces[n + 1])[1]
  BY <1>1, ReadsAtPiece DEF NUL
<1> DEFINE b == SizeOf(asked, n)
           q == asked.pieces[n + 1]
           l == Len(Rendered(q))
<1>3. asked \in Formats /\ ArgsKept /\ Told(n) /\ p = b + 1 /\ Len(taken) = ArgBase(asked, n)
  BY <1>2 DEF Running, AtPiece
<1>4. IsPiece(q) /\ asked.cut \in Nat /\ b \in Nat /\ l \in Nat /\ l >= 1 /\ SizeOf(asked, n + 1) = b + l
  BY <1>2, <1>3, PieceChars
<1>5. q.conv # "text"
  <2>1. 1 \in 1 .. l
    BY <1>4
  <2> QED BY <1>1, <1>2, <1>4, <2>1, RenderedTypes
<1>6. l >= 2 /\ Len(q.flags) \in Nat
  BY <1>4, <1>5, Places
<1>7. /\ ArgsKept' /\ Len(taken') = Len(taken)
  BY <1>1, <1>3, KeepsArgs DEF NoArg
<1>8. Running' /\ Told(n)'
  BY <1>1, <1>2, <1>3, <1>7 DEF Running, Told, Met
<1>9. p' = b + 2 /\ p' \in Nat /\ b + 1 < p' /\ p' <= b + l /\ p' <= asked.cut + 1 /\ p' - b = 2
  <2> HIDE DEF b, l
  <2> QED BY <1>1, <1>2, <1>3, <1>4, <1>6
<1>10. InFlags(q, 2, NoSpec, 0)
  <2>1. FlagsTo(q, 0) = {}
    BY DEF FlagsTo
  <2>2. NoSpec = SpecOf(FlagsTo(q, 0), -1, -1, NUL, 0)
    BY <2>1 DEF NoSpec, SpecOf
  <2>3. 0 \in 0 .. Len(q.flags) /\ 2 = 2 + 0
    BY <1>6
  <2> QED BY <2>2, <2>3 DEF InFlags
<1>11. InDirective(q, stage', p' - b, spec', Len(taken') - ArgBase(asked, n))
  <2>1. Len(taken') - ArgBase(asked, n) = 0
    <3>1. Len(taken') = Len(taken) /\ Len(taken) \in Nat
      BY <1>3, <1>7, LenProperties DEF ArgsKept
    <3> QED BY <1>3, <3>1
  <2>2. p' - b = 2
    BY <1>9
  <2> QED BY <1>1, <1>10, <2>1, <2>2 DEF InDirective
<1>12. InPiece(n)'
  <2>1. stage' \in Parts
    BY <1>1 DEF Parts
  <2> QED BY <1>2, <1>4, <1>5, <1>8, <1>9, <1>11, <2>1 DEF InPiece
<1> QED BY <1>8, <1>12 DEF PrintfInv

(* Where a text ends. *)
LEMMA TextEnds ==
  ASSUME asked \in Formats, NEW n \in 0 .. Len(asked.pieces) - 1, asked.pieces[n + 1].conv = "text",
         p = SizeOf(asked, n) + 1, p <= asked.cut
  PROVE  LET q == asked.pieces[n + 1] e == SizeOf(asked, n + 1) + 1 IN
         /\ SizeOf(asked, n + 1) <= asked.cut /\ e - p = Len(q.text) /\ Len(q.text) \in Nat
         /\ SubSeq(format, p, e - 1) = q.text
         /\ e = CHOOSE k \in p .. Len(format) + 1 :
                  CharAt(k) \in {"%", NUL} /\ \A j \in p .. k - 1 : CharAt(j) \notin {"%", NUL}
<1> DEFINE q == asked.pieces[n + 1]
           N == Len(asked.pieces)
           b == SizeOf(asked, n)
           l == Len(Rendered(q))
           s == SizeOf(asked, n + 1)
           e == s + 1
           Ends(k) == CharAt(k) \in {"%", NUL} /\ \A j \in p .. k - 1 : CharAt(j) \notin {"%", NUL}
<1>1. /\ n + 1 \in 1 .. N /\ (n + 1) - 1 = n /\ n + 1 \in 0 .. N /\ N \in Nat /\ n \in Nat
      /\ IsPiece(q) /\ asked.cut \in Nat /\ b \in Nat /\ s \in Nat /\ l \in Nat /\ s = b + l
      /\ \A i \in 1 .. l : b + i <= asked.cut => CharAt(b + i) = Rendered(q)[i] /\ CharAt(b + i) # NUL
  <2>1. N \in Nat
    BY FormatTypes
  <2>2. (n + 1) - 1 = n
    BY <2>1
  <2>3. n + 1 \in 1 .. N /\ n + 1 \in 0 .. N /\ n \in Nat /\ IsPiece(q) /\ asked.cut \in Nat
    BY Zenon, PieceChars
  <2>4. b \in Nat /\ s \in Nat /\ l \in Nat /\ s = b + l
    BY Zenon, PieceChars
  <2>5. \A i \in 1 .. l : b + i <= asked.cut => CharAt(b + i) = Rendered(q)[i] /\ CharAt(b + i) # NUL
    BY Zenon, PieceChars
  <2> QED BY <2>1, <2>2, <2>3, <2>4, <2>5
<1>2. /\ q.text = Rendered(q) /\ Rendered(q) \in Seq(Chars)
      /\ \A i \in 1 .. l : Rendered(q)[i] \notin {"%", NUL}
  BY <1>1, RenderedTypes
<1>3. s <= asked.cut
  <2>1. asked.cut <= SizeOf(asked, (n + 1) - 1) \/ asked.cut >= s
    BY <1>1, FormatTypes
  <2> HIDE DEF b, s
  <2> QED BY <1>1, <2>1 DEF b
<1>4. CharAt(e) \in {"%", NUL}
  <2>1. CASE s = asked.cut
    <3>1. e \in Nat /\ e > asked.cut
      BY <1>1, <2>1
    <3> HIDE DEF e
    <3> QED BY <3>1, BeyondCut
  <2>2. CASE s # asked.cut
    <3>1. s < asked.cut /\ s + 1 <= asked.cut
      BY <1>1, <1>3, <2>2
    <3>2. n + 1 # N
      <4>1. asked.cut <= SizeOf(asked, N)
        BY FormatTypes
      <4> QED BY <1>1, <3>1, <4>1
    <3>3. n + 1 \in 0 .. N - 1 /\ n + 1 < N
      BY <1>1, <3>2
    <3> DEFINE r == asked.pieces[(n + 1) + 1]
    <3>4. r.conv # "text"
      BY <1>1, <3>3, FormatTypes
    <3>5. IsPiece(r) /\ 1 \in 1 .. Len(Rendered(r)) /\ CharAt(s + 1) = Rendered(r)[1]
      <4>1. /\ IsPiece(r) /\ Len(Rendered(r)) \in Nat /\ Len(Rendered(r)) >= 1
            /\ \A i \in 1 .. Len(Rendered(r)) : SizeOf(asked, n + 1) + i <= asked.cut => CharAt(SizeOf(asked, n + 1) + i) = Rendered(r)[i]
        BY <3>3, PieceChars
      <4>2. 1 \in 1 .. Len(Rendered(r))
        BY <4>1
      <4> QED BY <3>1, <4>1, <4>2
    <3> QED BY <3>4, <3>5, RenderedTypes
  <2> QED BY <2>1, <2>2
<1>5. \A i \in 1 .. l : CharAt(b + i) = Rendered(q)[i] /\ CharAt(b + i) \notin {"%", NUL}
  <2>1. \A i \in 1 .. l : b + i <= asked.cut
    <3> HIDE DEF b, l, s
    <3> QED BY <1>1, <1>3
  <2> HIDE DEF l
  <2> QED BY <1>1, <1>2, <2>1
<1>6. \A k \in p .. s : CharAt(k) \notin {"%", NUL}
  <2> SUFFICES ASSUME NEW k \in p .. s PROVE CharAt(k) \notin {"%", NUL}
    OBVIOUS
  <2>1. p = b + 1
    OBVIOUS
  <2> HIDE DEF b, l, s
  <2>2. k - b \in 1 .. l /\ b + (k - b) = k
    BY <1>1, <2>1
  <2> QED BY <1>5, <2>2
<1>7. Len(format) = asked.cut /\ e \in p .. Len(format) + 1 /\ e - 1 = s /\ e - p = l
  <2>1. Len(format) = asked.cut /\ p = b + 1
    BY FormatIs
  <2> HIDE DEF b, l, s
  <2> QED BY <1>1, <1>3, <2>1
<1>8. e \in p .. Len(format) + 1 /\ Ends(e)
  BY <1>4, <1>6, <1>7
<1>9. ASSUME NEW k \in p .. Len(format) + 1, Ends(k) PROVE k = e
  <2>1. e \in Int /\ k \in Int /\ p \in Int
    BY <1>7
  <2>2. ~(k < e)
    <3>1. k < e => k \in p .. s
      BY <1>7, <2>1
    <3> QED BY <1>6, <1>9, <3>1
  <2>3. ~(e < k)
    <3>1. e < k => e \in p .. k - 1
      BY <1>7, <2>1
    <3> QED BY <1>4, <1>9, <3>1
  <2> HIDE DEF e, Ends
  <2> QED BY <2>1, <2>2, <2>3
<1>10. e = CHOOSE k \in p .. Len(format) + 1 : Ends(k)
  <2> HIDE DEF e, Ends
  <2> QED BY <1>8, <1>9
<1>11. SubSeq(format, p, s) = q.text
  <2> DEFINE w == SubSeq(format, p, s)
  <2>1. p = b + 1
    OBVIOUS
  <2>2. \A i \in 1 .. l : format[b + i] = Rendered(q)[i]
    <3>1. \A i \in 1 .. l : b + i \in 1 .. asked.cut
      <4> HIDE DEF b, l, s
      <4> QED BY <1>1, <1>3
    <3>2. \A k \in 1 .. asked.cut : k <= Len(format) /\ k \in Nat
      BY <1>1, <1>7
    <3>3. \A k \in 1 .. asked.cut : CharAt(k) = format[k]
      BY <3>2 DEF CharAt
    <3> HIDE DEF b, l
    <3> QED BY <1>5, <3>1, <3>3
  <2>3. \A k \in p .. s : format[k] \in Chars
    <3> SUFFICES ASSUME NEW k \in p .. s PROVE format[k] \in Chars
      OBVIOUS
    <3>1. k - b \in 1 .. l /\ b + (k - b) = k
      <4> HIDE DEF b, l, s
      <4> QED BY <1>1, <2>1
    <3>2. Rendered(q)[k - b] \in Chars
      BY <1>2, <3>1, ElementOfSeq
    <3> QED BY <2>2, <3>1, <3>2
  <2>4. p \in Int /\ s \in Int
    BY <1>1
  <2>5. /\ w \in Seq(Chars) /\ Len(w) = (IF p <= s THEN s - p + 1 ELSE 0)
        /\ \A i \in 1 .. s - p + 1 : w[i] = format[p + i - 1]
    <3> HIDE DEF s
    <3> QED BY <2>3, <2>4, SubSeqProperties
  <2> HIDE DEF w
  <2>6. s - p + 1 = l /\ Len(w) = l
    <3> HIDE DEF b, l, s
    <3>1. s - p + 1 = l /\ (p <= s \/ l = 0)
      BY <1>1, <2>1
    <3> QED BY <1>1, <2>1, <2>5, <3>1
  <2>7. \A i \in 1 .. l : w[i] = Rendered(q)[i]
    <3> SUFFICES ASSUME NEW i \in 1 .. l PROVE w[i] = Rendered(q)[i]
      OBVIOUS
    <3>1. p + i - 1 = b + i
      <4>1. b \in Nat /\ i \in Nat
        BY <1>1
      <4> HIDE DEF b, l
      <4> QED BY <2>1, <4>1
    <3> QED BY <2>2, <2>5, <2>6, <3>1
  <2>8. w = Rendered(q)
    BY <1>2, <2>5, <2>6, <2>7, SeqEqual
  <2> QED BY <1>2, <2>8 DEF w
<1> QED BY <1>1, <1>2, <1>3, <1>7, <1>10, <1>11

LEMMA PlainTextKeeps == ASSUME PrintfInv, UNCHANGED asked, PlainText PROVE PrintfInv'
<1>1. stage = "loop" /\ c \notin {"%", NUL} /\ stage' = "loop" /\ NoArg /\ errored' = errored
  BY DEF PlainText, GoOn
<1>2. PICK n : /\ Running /\ AtPiece(n) /\ n \in 0 .. Len(asked.pieces) - 1 /\ p <= asked.cut
               /\ c = Rendered(asked.pieces[n + 1])[1]
  BY <1>1, ReadsAtPiece
<1> DEFINE b == SizeOf(asked, n)
           q == asked.pieces[n + 1]
           e == SizeOf(asked, n + 1) + 1
<1>3. /\ asked \in Formats /\ ArgsKept /\ Told(n) /\ p = b + 1 /\ Len(taken) = ArgBase(asked, n)
      /\ errored \in BOOLEAN /\ print_length \in Nat
  BY <1>2 DEF Running, AtPiece
<1>4. /\ IsPiece(q) /\ asked.cut \in Nat /\ b \in Nat /\ SizeOf(asked, n + 1) \in Nat
      /\ n + 1 \in 1 .. Len(asked.pieces) /\ (n + 1) - 1 = n
  <2>1. IsPiece(q) /\ asked.cut \in Nat /\ b \in Nat /\ SizeOf(asked, n + 1) \in Nat /\ n + 1 \in 1 .. Len(asked.pieces) /\ n \in Nat
    BY <1>2, <1>3, PieceChars, Zenon
  <2> QED BY <2>1
<1>5. q.conv = "text"
  BY <1>1, <1>2, <1>4, RenderedTypes
<1>6. /\ SizeOf(asked, n + 1) <= asked.cut /\ e - p = Len(q.text) /\ Len(q.text) \in Nat
      /\ SubSeq(format, p, e - 1) = q.text
      /\ e = CHOOSE k \in p .. Len(format) + 1 :
               CharAt(k) \in {"%", NUL} /\ \A j \in p .. k - 1 : CharAt(j) \notin {"%", NUL}
  BY <1>2, <1>3, <1>5, TextEnds
<1>7. /\ sent' = Append(sent, [to |-> "string", text |-> SubSeq(format, p, e - 1)])
      /\ print_length' = print_length + e - p /\ p' = p + (e - p)
  <2> HIDE DEF e
  <2> QED BY <1>6 DEF PlainText, GoOn
<1>8. p' = SizeOf(asked, n + 1) + 1 /\ print_length' \in Nat
  <2>1. p \in Nat /\ e \in Nat
    BY <1>3, <1>4
  <2> HIDE DEF e
  <2>2. p' = e /\ print_length' = print_length + (e - p)
    BY <1>3, <1>7, <2>1
  <2> QED BY <1>3, <1>6, <2>2 DEF e
<1>9. Known(q)
  BY <1>5 DEF Known
<1>10. sent' = SentTo(asked.pieces, n + 1)
  <2>1. Sent(q) = <<[to |-> "string", text |-> q.text]>>
    BY <1>5, <1>9 DEF Sent
  <2>2. SentTo(asked.pieces, n + 1) = Append(SentTo(asked.pieces, n), [to |-> "string", text |-> q.text])
    BY <1>3, <1>4, <2>1, SentLies
  <2> QED BY <1>3, <1>6, <1>7, <2>2 DEF Told
<1>11. errored' \in BOOLEAN /\ (errored' <=> Met(n + 1))
  <2>1. Met(n + 1) <=> Met(n)
    BY <1>2, <1>9, MetNext
  <2> QED BY <1>1, <1>3, <2>1 DEF Told
<1>12. ArgsKept' /\ Len(taken') = Len(taken)
  BY <1>1, <1>3, KeepsArgs DEF NoArg
<1>13. Len(taken') = ArgBase(asked, n + 1)
  <2>1. ArgsOf(q) = <<>>
    BY <1>5 DEF ArgsOf
  <2>2. ArgBase(asked, n + 1) = ArgBase(asked, n) + Len(ArgsOf(q)) /\ ArgBase(asked, n) \in Nat
    BY <1>3, <1>4, ArgsLie
  <2>3. Len(ArgsOf(q)) = 0
    BY <2>1
  <2>4. ArgBase(asked, n + 1) = ArgBase(asked, n)
    BY <2>2, <2>3
  <2> QED BY <1>3, <1>12, <2>4
<1> QED BY <1>1, <1>2, <1>3, <1>6, <1>8, <1>10, <1>11, <1>12, <1>13, GetsBehind

(* A call begins. *)
LEMMA BeginsRight == ASSUME printf PROVE PrintfInv'
<1>1. PICK f \in Formats : Fresh("loop", f)
  BY DEF printf
<1>2. /\ stage' = "loop" /\ asked' = f /\ p' = 1 /\ args' = ArgsOfAll(f.pieces) /\ sent' = <<>> /\ taken' = <<>>
      /\ print_length' = 0 /\ errored' = FALSE
  BY <1>1 DEF Fresh
<1>3. /\ SizeOf(f, 0) = 0 /\ f.cut \in Nat /\ Len(f.pieces) \in Nat /\ SentTo(f.pieces, 0) = <<>>
      /\ ArgBase(f, 0) = 0 /\ ArgsOfAll(f.pieces) \in Seq(ArgSet)
  BY FirstSize, FormatTypes, SentLies, ArgsLie
<1>4. Len(ArgsOfAll(f.pieces)) \in Nat
  BY <1>3, LenProperties
<1>5. <<>> \in Seq(TypeSet) /\ Len(<<>>) = 0
  BY EmptySeq
<1>6. ArgsKept'
  <2> DEFINE all == ArgsOfAll(f.pieces)
  <2>1. /\ taken' \in Seq(TypeSet) /\ args' \in Seq(ArgSet) /\ Len(taken') = 0 /\ args' = all /\ Len(args') = Len(all)
    BY <1>2, <1>3, <1>5
  <2> HIDE DEF all
  <2>2. Len(taken') + Len(args') = Len(all) /\ \A k \in 1 .. Len(args') : args'[k] = all[Len(taken') + k]
    <3>1. \A k \in 1 .. Len(args') : 0 + k = k
      OBVIOUS
    <3> QED BY <1>4, <2>1, <3>1 DEF all
  <2>3. \A k \in 1 .. Len(taken') : taken'[k] = all[k].type
    BY <2>1
  <2>4. ArgsOfAll(asked'.pieces) = all
    BY <1>2 DEF all
  <2> QED BY <2>1, <2>2, <2>3, <2>4 DEF ArgsKept
<1>7. Running'
  BY <1>2, <1>6 DEF Running
<1>8. ~Met(0)'
  BY DEF Met
<1>9. AtPiece(0)'
  <2>1. /\ p' = SizeOf(f, 0) + 1 /\ SizeOf(f, 0) <= f.cut /\ Len(taken') = ArgBase(f, 0) /\ 0 \in 0 .. Len(f.pieces)
        /\ sent' = SentTo(f.pieces, 0)
    BY <1>2, <1>3, <1>5
  <2> QED BY <1>2, <1>8, <2>1 DEF AtPiece, Told
<1> QED BY <1>7, <1>9 DEF PrintfInv

(* One lemma for each step is above; the rest changes nothing that counts. *)
LEMMA PrintfKept == ASSUME PrintfInv, [PrintfNext]_printfVars PROVE PrintfInv'
<1>1. CASE printf
  BY <1>1, BeginsRight
<1>2. CASE PrintfStep
  <2>1. UNCHANGED asked
    BY <1>2 DEF PrintfStep
  <2> QED BY <1>2, <2>1, LoopEndKeeps, PlainTextKeeps, PercentKeeps, CutShortKeeps, ReadFlagsKeeps, ReadWidthKeeps,
             ReadPrecisionKeeps, ReadDigitsKeeps, ReadLengthKeeps, LengthFailsKeeps, ReadTypeKeeps DEF PrintfStep
<1>3. CASE Done
  BY <1>3 DEF Done, Fresh, PrintfInv
<1>4. CASE UNCHANGED printfVars
  <2>1. /\ stage' = stage /\ asked' = asked /\ p' = p /\ args' = args /\ spec' = spec /\ sent' = sent /\ taken' = taken
        /\ print_length' = print_length /\ errored' = errored /\ returned' = returned
    BY <1>4 DEF printfVars
  <2>2. Running' <=> Running
    BY <2>1 DEF Running, ArgsKept
  <2>3. \A n : (AtPiece(n)' <=> AtPiece(n)) /\ (InPiece(n)' <=> InPiece(n))
    BY <2>1 DEF AtPiece, InPiece, Told, Met
  <2>4. stage = "done" => (PrintfRight' <=> PrintfRight)
    <3>1. stage = "done" => (PrintfRight <=> RightOf(asked, sent, taken, returned))
      BY WholesAgree, Zenon DEF PrintfRight, RightOf
    <3> QED BY <2>1, <3>1, RightNext
  <2> QED BY <2>1, <2>2, <2>3, <2>4 DEF PrintfInv
<1> QED BY <1>1, <1>2, <1>3, <1>4 DEF PrintfNext

(* When printf returns, whatever the format and wherever it is cut, its whole *)
(* pieces have reached the host as C says, each with an argument of the type *)
(* that the caller has passed for it, and -1 tells of a piece that it does    *)
(* not know or that the format ends within.                                  *)
THEOREM PrintsAsAsked == PrintfSpec => []PrintfRight
<1>1. PrintfInit => PrintfInv
  BY DEF PrintfInit, PrintfInv
<1>2. PrintfInv /\ [PrintfNext]_printfVars => PrintfInv'
  BY PrintfKept
<1>3. PrintfInv => PrintfRight
  BY DEF PrintfInv, PrintfRight, AtPiece, InPiece, Parts
<1> QED BY <1>1, <1>2, <1>3, PTL DEF PrintfSpec
=============================================================================
