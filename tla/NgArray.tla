------------------------------- MODULE NgArray -------------------------------
(***************************************************************************)
(* The growing arrays of src/include/core.h.  The capacity and the length  *)
(* of an array are kept in front of its items; the macros (ArrayPush, ...) *)
(* call the functions modelled here with the address of the array, as a    *)
(* resize may move it.  What lies in the memory behind the length is never *)
(* read, so data is the items up to the length.                            *)
(*                                                                         *)
(* Where C leaves a step undefined, data is any of the outcomes a build    *)
(* can give, and undefined says which rule was broken.                     *)
(***************************************************************************)
EXTENDS Integers, Sequences

CONSTANTS
  Elements,    \* what callers keep in an array
  Junk,        \* what memory holds that nobody has written
  Capacities,  \* the capacities callers ask for
  MaxLength    \* bound: no caller keeps more items

ASSUME ArrayAssumption ==
  /\ Junk \notin Elements /\ Capacities \subseteq Nat /\ MaxLength \in Nat

VARIABLES
  live,       \* whether there is an array: the pointer is not NULL
  data, capacity,
  got,        \* the item the last removal has handed out
  kept, due,  \* history: what data and got have to be, until a step is undefined
  asked0,     \* history: whether somebody has asked for capacity 0
  undefined   \* history: the undefined steps that were taken

arrayVars == <<live, data, capacity, got, kept, due, asked0, undefined>>

Cell == Elements \cup {Junk}

ArrayInit ==
  /\ live = FALSE /\ data = <<>> /\ capacity = 0 /\ got = Junk
  /\ kept = <<>> /\ due = Junk /\ asked0 = FALSE /\ undefined = {}

Due(items, item) ==
  /\ kept' = (IF undefined' = {} THEN items ELSE <<>>)
  /\ due' = (IF undefined' = {} THEN item ELSE Junk)

(* ngArrayAlloc (NewArray) and ngArrayFree.  Memory that is not there ends   *)
(* the program by an assertion.                                              *)
ngArrayAlloc(n) ==
  /\ ~live /\ live' = TRUE /\ data' = <<>> /\ capacity' = n
  /\ asked0' = (asked0 \/ n = 0) /\ got' = Junk
  /\ undefined' = undefined \cap {"beyond"} /\ Due(<<>>, Junk)

ngArrayFree ==
  /\ live /\ live' = FALSE /\ data' = <<>> /\ capacity' = 0
  /\ UNCHANGED <<got, asked0, undefined>> /\ Due(<<>>, due)

(* A resize cuts off the items that no longer fit. *)
FirstOf(s, n) == IF Len(s) <= n THEN s ELSE SubSeq(s, 1, n)

ngArrayResize(n) ==
  /\ live /\ capacity' = n /\ data' = FirstOf(data, n)
  /\ asked0' = (asked0 \/ n = 0)
  /\ UNCHANGED <<live, got, undefined>> /\ Due(FirstOf(kept, n), due)

(* ArrayFit *)
ArrayFit == ngArrayResize(Len(data))

(* ArrayFill *)
ArrayFill(v) ==
  /\ live /\ capacity <= MaxLength
  /\ data' = [k \in 1 .. capacity |-> v]
  /\ UNCHANGED <<live, capacity, got, asked0, undefined>>
  /\ Due([k \in 1 .. capacity |-> v], due)
---------------------------------------------------------------------------
(* ngArrayPush of an item that may lie in the array itself (own): a full     *)
(* array gets twice its capacity, which is none if it has none, and its old  *)
(* memory is freed before the item is read.                                  *)
Full == Len(data) + 1 > capacity
Grown == IF Full THEN capacity * 2 ELSE capacity

ngArrayPush(v, want, own) ==
  LET s == FirstOf(data, Grown)
      beyond == Len(s) + 1 > Grown
      moved == own /\ Full
  IN
  /\ live /\ Len(data) < MaxLength
  /\ capacity' = Grown
  /\ \E item \in IF beyond \/ moved THEN {v, Junk} ELSE {v} : data' = Append(s, item)
  /\ undefined' = undefined \cup (IF beyond THEN {"beyond"} ELSE {})
                            \cup (IF moved THEN {"moved"} ELSE {})
  /\ Due(Append(kept, want), due)
  /\ UNCHANGED <<live, got, asked0>>

Push(v) == ngArrayPush(v, v, FALSE)
PushOwn(k) == k \in DOMAIN data /\ ngArrayPush(data[k], IF k \in DOMAIN kept THEN kept[k] ELSE Junk, TRUE)
---------------------------------------------------------------------------
(* Every removal ends with room for one item at least. *)
Shrunk_Exact(n) == IF n <= capacity \div 2 THEN n ELSE capacity
Shrunk(n) == IF n <= capacity \div 2 THEN n + 1 ELSE capacity

FrontOf(s) == SubSeq(s, 1, Len(s) - 1)
Without(s, k) == SubSeq(s, 1, k - 1) \o SubSeq(s, k + 1, Len(s))

(* A removal hands out item k and leaves items; rest is what should be left. *)
Removed(k, items, rest) ==
  /\ live /\ got' = data[k] /\ data' = items /\ capacity' = Shrunk(Len(data) - 1)
  /\ Due(rest, IF k \in DOMAIN kept THEN kept[k] ELSE Junk)
  /\ UNCHANGED <<live, asked0>>

ngArrayPop ==
  /\ Len(data) > 0 /\ UNCHANGED undefined
  /\ Removed(Len(data), FrontOf(data), FrontOf(kept))

(* The items behind the removed one move by a memcpy between places that     *)
(* overlap if there are two of them or more: copied from the last one down,  *)
(* all become the last.                                                      *)
Smeared(s, k) == [j \in 1 .. Len(s) - 1 |-> IF j < k THEN s[j] ELSE s[Len(s)]]

ngArrayRemove(k) ==
  LET overlap == Len(data) - k >= 2 IN
  /\ k \in DOMAIN data
  /\ undefined' = undefined \cup (IF overlap THEN {"overlap"} ELSE {})
  /\ \E items \in IF overlap THEN {Without(data, k), Smeared(data, k)} ELSE {Without(data, k)} :
       Removed(k, items, Without(kept, k))

(* The last item takes the place of the removed one. *)
Swapped(s, k) == FrontOf([s EXCEPT ![k] = s[Len(s)]])

ngArraySwapAndPop(k) ==
  /\ k \in DOMAIN data
  /\ IF k = Len(data) THEN ngArrayPop
     ELSE /\ UNCHANGED undefined
          /\ Removed(k, Swapped(data, k), Without([kept EXCEPT ![k] = kept[Len(kept)]], Len(kept)))

ArrayNext ==
  \/ \E n \in Capacities : ngArrayAlloc(n) \/ ngArrayResize(n)
  \/ ngArrayFree \/ ArrayFit \/ ngArrayPop
  \/ \E v \in Elements : Push(v) \/ ArrayFill(v)
  \/ \E k \in 1 .. MaxLength : PushOwn(k) \/ ngArrayRemove(k) \/ ngArraySwapAndPop(k)

ArraySpec == ArrayInit /\ [][ArrayNext]_arrayVars
---------------------------------------------------------------------------
(* As long as no step was undefined an array holds what its calls make it    *)
(* hold, hands out the items it held, and has room for them; and a push      *)
(* writes beyond the memory only where somebody has asked for capacity 0     *)
(* (NewArray(T, 0), or ArrayFit of an empty array), as no removal leads      *)
(* there.                                                                    *)
ArrayKept ==
  /\ undefined = {} => data = kept /\ got = due
  /\ live /\ ~asked0 => Len(data) <= capacity /\ capacity > 0
  /\ "beyond" \in undefined => asked0
=============================================================================
