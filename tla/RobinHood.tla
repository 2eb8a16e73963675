------------------------------ MODULE RobinHood ------------------------------
(***************************************************************************)
(* The hash map, src/server/hashmap.c: open addressing with robin-hood     *)
(* displacement.  A bucket knows how far its item is from its home (dib,   *)
(* counted from 1; 0 when the bucket is empty).  set carries an entry from *)
(* bucket to bucket and changes it for any that is nearer to its home;     *)
(* delete shifts the run behind the hole back by one; a resize places all  *)
(* items anew, in the order of the old buckets.                            *)
(*                                                                         *)
(* One step is one turn of a loop.  An item is its key and its value; the  *)
(* hash of a key is given.  The content of an empty bucket is never read:  *)
(* here it is always Empty.                                                *)
(***************************************************************************)
EXTENDS Naturals, Sequences, FiniteSets

CONSTANTS
  Keys, Values, NULL,
  Items,         \* the items callers set: keys with values
  Hash,          \* Hash[k]: get_hash of the key k
  MinBuckets,    \* the least number of buckets (16 in the code)
  LoadFactors,   \* what callers pass to hashmap_set_load_factor, in percent
  GrowPowers,    \* ... and to hashmap_set_grow_by_power
  IterBuckets    \* bound: callers iterate over tables of up to so many buckets

GROW_AT == 60
SHRINK_AT == 10

ASSUME HashAssumption ==
  /\ Items \subseteq Keys \X Values /\ Hash \in [Keys -> Nat] /\ NULL \notin Keys \cup Values
  /\ MinBuckets \in Nat /\ \E e \in 1 .. MinBuckets : MinBuckets = 2 ^ e
  /\ LoadFactors \subseteq Nat /\ GrowPowers \subseteq Nat /\ IterBuckets \in Nat

VARIABLES
  buckets,     \* the memory of the table, from bucket 0
  nbuckets, cap, count, growat, loadfactor, growpower, oom,
  pc,          \* where the current call is
  call,        \* the call, as in KeyedItems
  answer,      \* what the last call returned, until the next one begins
  i,           \* the bucket it looks at
  entry,       \* the entry it carries
  spare,       \* the item a delete has found
  map2, from,  \* the new table of a resize, and the old bucket it has reached
  before,      \* history: what was kept when the call began
  iter         \* an iteration of the caller: its cursor, and the keys it has been given

table == <<buckets, nbuckets, cap, count, growat, loadfactor, growpower>>
resizing == <<map2, from>>
vars == <<table, oom, pc, call, answer, i, entry, spare, resizing, before, iter>>

Empty == [key |-> NULL, val |-> NULL, dib |-> 0]
NoCall == [op |-> "none", key |-> NULL, val |-> NULL]
NoIter == [at |-> 0, seen |-> <<>>]
EmptyTable(n) == [j \in 0 .. n - 1 |-> Empty]
GrowAt_RoundUp(n, factor) == (n * factor + 99) \div 100
GrowAt(n, factor) == (n * factor) \div 100
shrinkat == (nbuckets * SHRINK_AT) \div 100
Home(k, n) == Hash[k] % n

(* The value kept under each key. *)
Dict ==
  [k \in Keys |->
     IF \E j \in 0 .. nbuckets - 1 : buckets[j].key = k
     THEN buckets[CHOOSE j \in 0 .. nbuckets - 1 : buckets[j].key = k].val
     ELSE NULL]

(* hashmap_new *)
Init ==
  /\ nbuckets \in {MinBuckets, 2 * MinBuckets} /\ cap = nbuckets
  /\ buckets = EmptyTable(nbuckets)
  /\ count = 0 /\ loadfactor = GROW_AT /\ growpower = 1
  /\ growat = GrowAt(nbuckets, GROW_AT) /\ oom = FALSE
  /\ pc = "idle" /\ call = NoCall /\ answer = NULL /\ i = 0 /\ entry = Empty /\ spare = NULL
  /\ map2 = EmptyTable(0) /\ from = 0 /\ before = Dict
  /\ iter = NoIter

(* A call begins, and returns. *)
Begin(op, k, v) ==
  /\ pc = "idle"
  /\ call' = [op |-> op, key |-> k, val |-> v] /\ before' = Dict
  /\ oom' = (op = "get" /\ oom)
  /\ i' = Home(k, nbuckets) /\ answer' = NULL
  /\ UNCHANGED <<table, spare, resizing>>

Return(v) ==
  /\ pc' = "idle" /\ call' = NoCall /\ answer' = v
  /\ entry' = Empty /\ i' = 0 /\ spare' = NULL /\ before' = [k \in Keys |-> NULL]
---------------------------------------------------------------------------
(* hashmap_set_with_hash. *)
SetCall(k, v) ==
  /\ Begin("set", k, v)
  /\ entry' = [key |-> k, val |-> v, dib |-> 1]
  /\ pc' = IF count >= growat THEN "grow" ELSE "place"

SetEmpty ==
  /\ pc = "place" /\ buckets[i].dib = 0
  /\ buckets' = [buckets EXCEPT ![i] = entry]
  /\ count' = count + 1
  /\ Return(NULL)
  /\ UNCHANGED <<nbuckets, cap, growat, loadfactor, growpower, oom, resizing>>

SetReplace ==
  /\ pc = "place" /\ buckets[i].dib # 0 /\ buckets[i].key = entry.key
  /\ buckets' = [buckets EXCEPT ![i].val = entry.val]
  /\ Return(buckets[i].val)
  /\ UNCHANGED <<nbuckets, cap, count, growat, loadfactor, growpower, oom, resizing>>

(* The entry goes on, or the bucket's one does if it is nearer to its home. *)
Richer(b) == b.dib < entry.dib
Carry(b, n) ==
  /\ entry' = [(IF Richer(b) THEN b ELSE entry) EXCEPT !.dib = @ + 1]
  /\ i' = (i + 1) % n
Left(b) == IF Richer(b) THEN entry ELSE b

SetNext ==
  /\ pc = "place" /\ buckets[i].dib # 0 /\ buckets[i].key # entry.key
  /\ buckets' = [buckets EXCEPT ![i] = Left(@)] /\ Carry(buckets[i], nbuckets)
  /\ UNCHANGED <<nbuckets, cap, count, growat, loadfactor, growpower>>
  /\ UNCHANGED <<oom, pc, call, answer, spare, resizing, before>>
---------------------------------------------------------------------------
(* resize0.  The new table has the default load factor. *)
NewSize == IF pc = "grow" THEN nbuckets * 2 ^ growpower ELSE nbuckets \div 2

ResizeStart ==
  /\ pc \in {"grow", "shrink"}
  /\ map2' = EmptyTable(IF NewSize < MinBuckets THEN MinBuckets ELSE NewSize)
  /\ from' = 0 /\ pc' = "rehash"
  /\ UNCHANGED <<table, oom, call, answer, i, entry, spare, before>>

GrowFails ==
  /\ pc = "grow" /\ oom' = TRUE /\ Return(NULL)
  /\ UNCHANGED <<table, resizing>>

ShrinkFails ==
  /\ pc = "shrink" /\ Return(spare)
  /\ UNCHANGED <<table, oom, resizing>>

Size2 == Cardinality(DOMAIN map2)

RehashSkip ==
  /\ pc = "rehash" /\ from < nbuckets /\ buckets[from].dib = 0
  /\ from' = from + 1
  /\ UNCHANGED <<table, oom, pc, call, answer, i, entry, spare, map2, before>>

(* The bucket of the old table is itself the entry that is carried on. *)
RehashTake ==
  /\ pc = "rehash" /\ from < nbuckets /\ buckets[from].dib # 0
  /\ pc' = "move" /\ i' = Home(buckets[from].key, Size2)
  /\ entry' = [buckets[from] EXCEPT !.dib = 1]
  /\ UNCHANGED <<table, oom, call, answer, spare, resizing, before>>

MoveEmpty ==
  /\ pc = "move" /\ map2[i].dib = 0
  /\ map2' = [map2 EXCEPT ![i] = entry]
  /\ pc' = "rehash" /\ from' = from + 1
  /\ UNCHANGED <<table, oom, call, answer, i, entry, spare, before>>

MoveNext ==
  /\ pc = "move" /\ map2[i].dib # 0
  /\ map2' = [map2 EXCEPT ![i] = Left(@)] /\ Carry(map2[i], Size2)
  /\ UNCHANGED <<table, oom, pc, call, answer, spare, from, before>>

(* The new table replaces the old one; a set goes on, a delete returns. *)
RehashEnd ==
  /\ pc = "rehash" /\ from = nbuckets
  /\ buckets' = map2 /\ nbuckets' = Size2 /\ growat' = GrowAt(Size2, GROW_AT)
  /\ map2' = EmptyTable(0) /\ from' = 0
  /\ IF call.op = "set"
     THEN /\ pc' = "place" /\ i' = Home(call.key, Size2)
          /\ entry' = [key |-> call.key, val |-> call.val, dib |-> 1]
          /\ UNCHANGED <<call, answer, spare, before>>
     ELSE Return(spare)
  /\ UNCHANGED <<cap, count, loadfactor, growpower, oom>>
---------------------------------------------------------------------------
(* hashmap_get_with_hash and hashmap_delete_with_hash. *)
GetCall(k) == Begin("get", k, NULL) /\ pc' = "find" /\ UNCHANGED entry
DeleteCall(k) == Begin("delete", k, NULL) /\ pc' = "find" /\ UNCHANGED entry

FindMissing ==
  /\ pc = "find" /\ buckets[i].dib = 0
  /\ Return(NULL)
  /\ UNCHANGED <<table, oom, resizing>>

FindNext ==
  /\ pc = "find" /\ buckets[i].dib # 0 /\ buckets[i].key # call.key
  /\ i' = (i + 1) % nbuckets
  /\ UNCHANGED <<table, oom, pc, call, answer, entry, spare, resizing, before>>

FindHit ==
  /\ pc = "find" /\ buckets[i].dib # 0 /\ buckets[i].key = call.key
  /\ IF call.op = "get"
     THEN Return(buckets[i].val) /\ UNCHANGED <<table, oom, resizing>>
     ELSE /\ spare' = buckets[i].val /\ pc' = "shift"
          /\ buckets' = [buckets EXCEPT ![i] = Empty]
          /\ UNCHANGED <<nbuckets, cap, count, growat, loadfactor, growpower>>
          /\ UNCHANGED <<oom, call, answer, i, entry, resizing, before>>

(* The hole takes the next item, until one is at home or the run ends. *)
ShiftDib_Kept == buckets[(i + 1) % nbuckets]
ShiftDib == [buckets[(i + 1) % nbuckets] EXCEPT !.dib = @ - 1]
ShiftBack ==
  /\ pc = "shift" /\ buckets[(i + 1) % nbuckets].dib > 1
  /\ buckets' = [buckets EXCEPT ![i] = ShiftDib]
  /\ i' = (i + 1) % nbuckets
  /\ UNCHANGED <<nbuckets, cap, count, growat, loadfactor, growpower>>
  /\ UNCHANGED <<oom, pc, call, answer, entry, spare, resizing, before>>

ShiftEnd_NoShift ==
  /\ pc = "shift"
  /\ buckets' = [buckets EXCEPT ![i] = Empty] /\ count' = count - 1
  /\ IF nbuckets > cap /\ count - 1 <= shrinkat
     THEN pc' = "shrink" /\ UNCHANGED <<call, answer, i, entry, spare, before>>
     ELSE Return(spare)
  /\ UNCHANGED <<nbuckets, cap, growat, loadfactor, growpower, oom, resizing>>
ShiftEnd ==
  /\ pc = "shift" /\ buckets[(i + 1) % nbuckets].dib <= 1
  /\ buckets' = [buckets EXCEPT ![i] = Empty] /\ count' = count - 1
  /\ IF nbuckets > cap /\ count - 1 <= shrinkat
     THEN pc' = "shrink" /\ UNCHANGED <<call, answer, i, entry, spare, before>>
     ELSE Return(spare)
  /\ UNCHANGED <<nbuckets, cap, growat, loadfactor, growpower, oom, resizing>>
---------------------------------------------------------------------------
(* Without update_cap the table goes back to cap buckets; when there is no  *)
(* memory for them the old ones are kept, and only the first cap are used.  *)
hashmap_clear(update_cap, memory) ==
  LET n == IF update_cap THEN nbuckets ELSE cap
      room == IF ~update_cap /\ nbuckets # cap /\ memory THEN EmptyTable(cap) ELSE buckets
  IN
  /\ pc = "idle"
  /\ count' = 0 /\ cap' = n /\ nbuckets' = n /\ growat' = GrowAt(n, loadfactor)
  /\ buckets' = [j \in DOMAIN room |-> IF j < n THEN Empty ELSE room[j]]
  /\ UNCHANGED <<loadfactor, growpower, oom, pc, call, answer, i, entry, spare>>
  /\ UNCHANGED <<resizing, before>>

clamp_load_factor(f) == IF f < 50 THEN 50 ELSE IF f > 95 THEN 95 ELSE f

hashmap_set_load_factor(f) ==
  /\ pc = "idle"
  /\ loadfactor' = clamp_load_factor(f) /\ growat' = GrowAt(nbuckets, loadfactor')
  /\ UNCHANGED <<buckets, nbuckets, cap, count, growpower>>
  /\ UNCHANGED <<oom, pc, call, answer, i, entry, spare, resizing, before>>

hashmap_set_grow_by_power(p) ==
  /\ pc = "idle"
  /\ growpower' = IF p < 1 THEN 1 ELSE IF p > 16 THEN 16 ELSE p
  /\ UNCHANGED <<buckets, nbuckets, cap, count, growat, loadfactor>>
  /\ UNCHANGED <<oom, pc, call, answer, i, entry, spare, resizing, before>>
---------------------------------------------------------------------------
(* hashmap_probe and hashmap_scan: the keys of the buckets, in their order. *)
hashmap_probe(position) == buckets[position % nbuckets].key
hashmap_scan ==
  LET scan[n \in 0 .. nbuckets] ==
        IF n = 0 THEN << >>
        ELSE IF buckets[n - 1].dib # 0 THEN Append(scan[n - 1], hashmap_probe(n - 1))
        ELSE scan[n - 1]
  IN scan[nbuckets]

(* hashmap_iter: the caller's cursor goes past the next bucket that has an   *)
(* item; at the end the caller may set it to 0 for another iteration.        *)
Ahead_Short == {j \in iter.at .. nbuckets - 2 : buckets[j].dib # 0}
Ahead == {j \in iter.at .. nbuckets - 1 : buckets[j].dib # 0}

IterNext ==
  /\ pc = "idle" /\ nbuckets <= IterBuckets
  /\ \E j \in Ahead :
       /\ \A k \in Ahead : j <= k
       /\ iter' = [at |-> j + 1, seen |-> Append(iter.seen, hashmap_probe(j))]
  /\ UNCHANGED <<table, oom, pc, call, answer, i, entry, spare, resizing, before>>

IterEnd ==
  /\ pc = "idle" /\ nbuckets <= IterBuckets /\ Ahead = {} /\ iter' = NoIter
  /\ UNCHANGED <<table, oom, pc, call, answer, i, entry, spare, resizing, before>>

(* A caller begins anew when it adds, deletes or clears, and when the table  *)
(* is resized.                                                               *)
Disturbs ==
  \/ call'.op = "delete"
  \/ (call'.op = "set" /\ before'[call'.key] = NULL)
  \/ count' # count
  \/ nbuckets' # nbuckets
IterKept == iter' = IF Disturbs THEN NoIter ELSE iter
---------------------------------------------------------------------------
Call ==
  \/ \E k \in Keys : GetCall(k) \/ DeleteCall(k)
  \/ \E item \in Items : SetCall(item[1], item[2])
  \/ \E update_cap, memory \in BOOLEAN : hashmap_clear(update_cap, memory)
  \/ \E f \in LoadFactors : hashmap_set_load_factor(f)
  \/ \E p \in GrowPowers : hashmap_set_grow_by_power(p)

Step ==
  \/ SetEmpty \/ SetReplace \/ SetNext
  \/ ResizeStart \/ GrowFails \/ ShrinkFails
  \/ RehashSkip \/ RehashTake \/ MoveEmpty \/ MoveNext \/ RehashEnd
  \/ FindMissing \/ FindNext \/ FindHit \/ ShiftBack \/ ShiftEnd

Next == (Call /\ IterKept) \/ (Step /\ IterKept) \/ IterNext \/ IterEnd
Spec == Init /\ [][Next]_vars

(* The program runs: a call that has begun goes on. *)
FairSpec == Spec /\ WF_vars(Step /\ IterKept)
---------------------------------------------------------------------------
(* The table b of n buckets is in order: an item's dib is its distance from  *)
(* home, no item is further from home than one more than its predecessor is  *)
(* (so no run has a gap), and no key occurs twice.                           *)
Ordered(b, n) ==
  \A j \in 0 .. n - 1 :
    /\ b[j].dib # 0 => (Home(b[j].key, n) + b[j].dib - 1) % n = j
    /\ b[(j + 1) % n].dib <= b[j].dib + 1
    /\ \A k \in 0 .. n - 1 : b[k].key = b[j].key /\ b[j].dib # 0 => k = j

(* hashmap_count is what the tests' deepcount counts, and there is always a  *)
(* bucket left empty: without one a probe for a missing key never ends.      *)
Deepcount == Cardinality({j \in 0 .. nbuckets - 1 : buckets[j].dib # 0})
CountRight == count = Deepcount /\ count < nbuckets

(* Whenever no call runs the table is in order and counted right; and the    *)
(* buckets in use are never fewer than asked for and within the memory of    *)
(* the table, also after a hashmap_clear that found no memory.               *)
TableOrdered ==
  /\ pc = "idle" => Ordered(buckets, nbuckets) /\ CountRight
  /\ cap <= nbuckets /\ nbuckets <= Cardinality(DOMAIN buckets)

(* An iteration that ends has given every key there is exactly once, in the  *)
(* order of hashmap_scan, whatever the caller looked up or replaced between  *)
(* two turns, as long as no item came or went and the table was not resized  *)
(* (which a set that only replaces does too when the table is full enough).  *)
IterationComplete ==
  [][ IterEnd =>
        /\ iter.seen = hashmap_scan /\ Len(iter.seen) = count
        /\ \A k \in Keys : Dict[k] # NULL => \E j \in 1 .. Len(iter.seen) : iter.seen[j] = k
    ]_vars

(* The hash map keeps its promise: every call is answered as if it had       *)
(* happened at one instant, whatever is displaced, shifted, rehashed or      *)
(* refused for want of memory.                                               *)
Promise == INSTANCE KeyedItems WITH dict <- IF call = NoCall THEN Dict ELSE before

ImplementsKeyedItems == Promise!MapSpec

(* Every call returns. *)
CallsReturn == pc # "idle" ~> pc = "idle"
=============================================================================
