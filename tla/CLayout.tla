------------------------------- MODULE CLayout -------------------------------
(***************************************************************************)
(* Values in the memory of a WebAssembly module, src/platforms/js/cwat.js: *)
(* CType, CStruct and CArray say how a value lies in it, CMemView and      *)
(* CModule set and get one at a pointer.  A struct is packed: a field      *)
(* begins where the one before it ends.                                    *)
(*                                                                         *)
(* The code walks through a type by recursion.  Here parts is what is left *)
(* of the walk, and one step does its first part: a struct or an array is  *)
(* replaced by its own parts, a number is written or read.  What DataView  *)
(* refuses ends the walk with an error, and what a set has written so far  *)
(* stays.  Floats and the decoding of text beyond ASCII are left out.      *)
(***************************************************************************)
EXTENDS Integers, Sequences

CONSTANTS
  Base,        \* how many values a byte has (256 in the code)
  BufferSize,  \* the bytes of the buffer
  HeapBase,    \* __heap_base of the module
  Ptrs,        \* the pointers callers use
  Types,       \* the types, with those they are made of
  Data,        \* pairs of a type and what is set, with the pairs they are made of
  SetCalls,    \* the pairs callers set
  GetTypes,    \* the types callers get
  MaxSets      \* bound: how many sets there are

VARIABLES
  bytes,    \* the buffer
  view,     \* the walk that is under way: its kind, "set" or "get", its pointer and type
  parts,    \* what is left of it, in order: types and their places behind the pointer
  values,   \* of a set, what to put there
  found,    \* of a get, what was found so far
  outcome,  \* how the last call ended; of a get, also what was asked for
  setting,  \* history: the last set that began a walk, unless it has failed
  walk,     \* history: its walk, as what was left and what it had written before each step
  sets      \* how many sets there were

layoutVars == <<bytes, view, parts, values, found, outcome, setting, walk, sets>>

(* The number types of CTypes.  DataView has no setInt64, getInt64, ...: an *)
(* i64 or u64 can neither be set nor got.                                   *)
Bytes == [i8 |-> 1, u8 |-> 1, i16 |-> 2, u16 |-> 2, i32 |-> 4, u32 |-> 4, i64 |-> 8, u64 |-> 8, ptr |-> 4]
IsSigned(name) == name \in {"i8", "i16", "i32"}
HasAccessors(name) == name \notin {"i64", "u64"}

(* Where field k of a struct begins, and the size of the struct. *)
FieldAt(fields, k) ==
  LET sum[n \in 0 .. Len(fields)] == IF n = 0 THEN 0 ELSE sum[n - 1] + fields[n].type.size IN sum[k - 1]
StructdSize(fields) == FieldAt(fields, Len(fields) + 1)

CType(name) == [kind |-> "num", name |-> name, size |-> Bytes[name]]
CStruct(fields) == [kind |-> "struct", fields |-> fields, size |-> StructdSize(fields)]
CArray(of, length, text) ==
  [kind |-> "array", of |-> of, length |-> length, text |-> text, size |-> of.size * length]

(* The data for a number is a record of it alone.  A field that the data     *)
(* lacks is set to 0, which has no fields itself.                           *)
Num(v) == [num |-> v]
ValueOf(data, f) ==
  IF f.name \in DOMAIN data THEN data[f.name] ELSE IF f.type.kind = "struct" THEN <<>> ELSE Num(0)

IsType(t) ==
  /\ t.size \in Nat
  /\ \/ t.kind = "num" /\ t.name \in DOMAIN Bytes /\ t = CType(t.name)
     \/ t.kind = "struct" /\ t.fields \in Seq([name : STRING, type : Types]) /\ t = CStruct(t.fields)
     \/ /\ t.kind = "array" /\ t.of \in Types /\ t.length \in Nat /\ t.text \in BOOLEAN
        /\ t = CArray(t.of, t.length, t.text) /\ (t.text => t.of = CType("u8"))

(* What is set fits its type: numbers for numbers, anything for an array. *)
IsDatum(type, data) ==
  /\ type \in Types
  /\ type.kind = "num" => data.num \in Int
  /\ type.kind = "struct" => \A k \in DOMAIN type.fields : <<type.fields[k].type, ValueOf(data, type.fields[k])>> \in Data

ASSUME LayoutAssumption ==
  /\ Base \in Nat /\ Base > 0 /\ Base % 2 = 0
  /\ BufferSize \in Nat /\ HeapBase \in Nat /\ Ptrs \subseteq Nat /\ MaxSets \in Nat
  /\ \A t \in Types : IsType(t)
  /\ \A d \in Data : d = <<d[1], d[2]>> /\ IsDatum(d[1], d[2])
  /\ SetCalls \subseteq Data /\ GetTypes \subseteq Types

NoView == [for |-> "nothing"]
NoSetting == [ptr |-> -1]

LayoutInit ==
  /\ \E b \in {0, Base - 1} : bytes = [a \in 0 .. BufferSize - 1 |-> b]
  /\ view = NoView /\ parts = <<>> /\ values = <<>> /\ found = <<>>
  /\ outcome = [end |-> "none"] /\ setting = NoSetting /\ walk = <<>> /\ sets = 0

(* A DataView of the type's bytes at ptr. *)
InBuffer(ptr, type) == ptr + type.size <= BufferSize
RangeError == [end |-> "RangeError"]

(* No call runs, and the caller has taken the outcome of the last one. *)
Ready == view = NoView /\ outcome = [end |-> "none"]

Take ==
  /\ view = NoView /\ outcome # [end |-> "none"] /\ outcome' = [end |-> "none"]
  /\ UNCHANGED <<bytes, view, parts, values, found, setting, walk, sets>>

Ended(result) ==
  view' = NoView /\ parts' = <<>> /\ values' = <<>> /\ found' = <<>> /\ outcome' = result

(* The parts of a struct and of an array that begins at place a. *)
FieldsAt_Flat(type, a) == [k \in DOMAIN type.fields |-> [type |-> type.fields[k].type, at |-> FieldAt(type.fields, k)]]
FieldsAt(type, a) == [k \in DOMAIN type.fields |-> [type |-> type.fields[k].type, at |-> a + FieldAt(type.fields, k)]]
ElementsAt(type, a) == [k \in 1 .. type.length |-> [type |-> type.of, at |-> a + type.of.size * (k - 1)]]

(* The walk is at a part of that kind; its address. *)
At(for, kind) == view # NoView /\ view.for = for /\ parts # <<>> /\ Head(parts).type.kind = kind
Here == view.ptr + Head(parts).at
---------------------------------------------------------------------------
(* CModule.setDt, CMemView.set *)
setDt(ptr, type, data) ==
  /\ Ready /\ sets < MaxSets /\ sets' = sets + 1 /\ UNCHANGED <<bytes, found>>
  /\ \/ /\ InBuffer(ptr, type) /\ view' = [for |-> "set", ptr |-> ptr, type |-> type]
        /\ parts' = <<[type |-> type, at |-> 0]>> /\ values' = <<data>> /\ UNCHANGED outcome
        /\ setting' = [ptr |-> ptr, type |-> type]
        /\ walk' = <<[left |-> parts', wrote |-> <<>>]>>
     \/ /\ ~InBuffer(ptr, type) /\ outcome' = RangeError
        /\ UNCHANGED <<view, parts, values, setting, walk>>

pushDt(type, data, offset) == setDt(HeapBase + offset, type, data)

(* Little endian, modulo the size of the number. *)
Digits(v) ==
  LET q == v \div Base r == q \div Base s == r \div Base IN <<v % Base, q % Base, r % Base, s % Base>>
ToType(name, v) ==
  LET range == CASE Bytes[name] = 1 -> Base [] Bytes[name] = 2 -> Base * Base
                 [] OTHER -> Base * (Base * (Base * Base))
      m == v % range
  IN  IF IsSigned(name) /\ m >= range \div 2 THEN m - range ELSE m

Walked(wrote) == walk' = Append(walk, [left |-> parts', wrote |-> wrote])
Written == walk[Len(walk)].wrote

SetStruct ==
  LET type == Head(parts).type IN
  /\ At("set", "struct")
  /\ parts' = FieldsAt(type, Head(parts).at) \o Tail(parts)
  /\ values' = [k \in DOMAIN type.fields |-> ValueOf(Head(values), type.fields[k])] \o Tail(values)
  /\ Walked(Written)
  /\ UNCHANGED <<bytes, view, found, outcome, setting, sets>>

SetNumber ==
  LET name == Head(parts).type.name v == Head(values).num IN
  /\ At("set", "num") /\ HasAccessors(name)
  /\ bytes' = [a \in DOMAIN bytes |-> IF a - Here \in 0 .. Bytes[name] - 1 THEN Digits(v)[a - Here + 1] ELSE bytes[a]]
  /\ parts' = Tail(parts) /\ values' = Tail(values)
  /\ Walked(Append(Written, [name |-> name, at |-> Head(parts).at, num |-> ToType(name, v)]))
  /\ UNCHANGED <<view, found, outcome, setting, sets>>

SetFails ==
  /\ \/ At("set", "array") /\ Ended([end |-> "Not implemented yet"])
     \/ At("set", "num") /\ ~HasAccessors(Head(parts).type.name) /\ Ended([end |-> "TypeError"])
  /\ setting' = NoSetting /\ walk' = <<>>
  /\ UNCHANGED <<bytes, sets>>

SetEnd ==
  /\ view # NoView /\ view.for = "set" /\ parts = <<>> /\ Ended([end |-> "done"])
  /\ UNCHANGED <<bytes, setting, walk, sets>>
---------------------------------------------------------------------------
(* CModule.getDt, CMemView.get.  The value is the sequence of its numbers,   *)
(* texts and typed arrays; their nesting is the type's.                      *)
EndOfGet(result) == [got |-> view.type, at |-> view.ptr, result |-> result]

getDt(ptr, type) ==
  /\ Ready /\ UNCHANGED <<bytes, values, found, setting, walk, sets>>
  /\ \/ /\ InBuffer(ptr, type) /\ view' = [for |-> "get", ptr |-> ptr, type |-> type]
        /\ parts' = <<[type |-> type, at |-> 0]>> /\ UNCHANGED outcome
     \/ /\ ~InBuffer(ptr, type) /\ outcome' = [got |-> type, at |-> ptr, result |-> RangeError]
        /\ UNCHANGED <<view, parts>>

NumberAt(name, a) ==
  ToType(name, CASE Bytes[name] = 1 -> bytes[a] [] Bytes[name] = 2 -> bytes[a] + Base * bytes[a + 1]
                 [] OTHER -> bytes[a] + Base * (bytes[a + 1] + Base * (bytes[a + 2] + Base * bytes[a + 3])))

(* A typed array over the buffer itself, which needs its address aligned;   *)
(* the one for u64 takes the offset in the view for an address.             *)
IsTyped(type) ==
  type.kind = "array" /\ ~type.text /\ type.of.kind = "num" /\ type.of.name \in {"u8", "u16", "u32", "u64"}
TypedAt == IF Head(parts).type.of.name = "u64" THEN Head(parts).at ELSE Here
TypedFits(type) == TypedAt % type.of.size = 0 /\ TypedAt + type.size <= BufferSize

(* The filter of CTypes.str. *)
IsAscii(c) == c \in 1 .. Base \div 2 - 1
Text(codes) == [text |-> SelectSeq(codes, IsAscii)]

Found(v) == found' = Append(found, v) /\ parts' = Tail(parts) /\ UNCHANGED <<view, outcome>>

GetInto ==
  LET type == Head(parts).type IN
  /\ \/ At("get", "struct") /\ parts' = FieldsAt(type, Head(parts).at) \o Tail(parts)
     \/ /\ At("get", "array") /\ ~type.text /\ ~IsTyped(type)
        /\ parts' = ElementsAt(type, Head(parts).at) \o Tail(parts)
  /\ UNCHANGED <<bytes, view, values, found, outcome, setting, walk, sets>>

GetLeaf ==
  LET type == Head(parts).type IN
  /\ \/ /\ At("get", "num")
        /\ \/ HasAccessors(type.name) /\ Found(Num(NumberAt(type.name, Here)))
           \/ ~HasAccessors(type.name) /\ Ended(EndOfGet([end |-> "TypeError"]))
     \/ At("get", "array") /\ type.text /\ Found(Text([k \in 1 .. type.length |-> bytes[Here + k - 1]]))
     \/ /\ At("get", "array") /\ IsTyped(type)
        /\ \/ TypedFits(type) /\ Found([over |-> TypedAt, of |-> type.of.name, length |-> type.length])
           \/ ~TypedFits(type) /\ Ended(EndOfGet(RangeError))
  /\ UNCHANGED <<bytes, setting, walk, sets>> /\ values' = <<>>

GetEnd ==
  /\ view # NoView /\ view.for = "get" /\ parts = <<>> /\ Ended(EndOfGet([end |-> "got", val |-> found]))
  /\ UNCHANGED <<bytes, setting, walk, sets>>

LayoutNext ==
  \/ \E c \in SetCalls, p \in Ptrs : setDt(p, c[1], c[2]) \/ pushDt(c[1], c[2], p)
  \/ SetStruct \/ SetNumber \/ SetFails \/ SetEnd \/ Take
  \/ \E t \in GetTypes, p \in Ptrs : getDt(p, t)
  \/ GetInto \/ GetLeaf \/ GetEnd

LayoutSpec == LayoutInit /\ [][LayoutNext]_layoutVars
---------------------------------------------------------------------------
(* A struct whose fields all have the type the array is of, and as many. *)
LikeArray(struct, array) ==
  /\ struct.kind = "struct" /\ array.kind = "array" /\ Len(struct.fields) = array.length
  /\ \A k \in DOMAIN struct.fields : struct.fields[k].type = array.of

(* The numbers of the data, in their order and as their types can hold them. *)
Numbers == [k \in DOMAIN Written |-> Written[k].num]

GetGives(type, val) ==
  LET numbers == [k \in DOMAIN Numbers |-> Num(Numbers[k])]
      items(v) == [k \in 1 .. v.length |-> NumberAt(v.of, v.over + (k - 1) * Bytes[v.of])]
  IN
  /\ type = setting.type => val = numbers
  /\ LikeArray(setting.type, type) =>
       CASE IsTyped(type) -> Len(val) = 1 /\ items(val[1]) = Numbers
         [] type.text -> val = <<Text(Numbers)>>
         [] OTHER -> val = numbers

GetRight ==
  view = NoView /\ setting # NoSetting /\ "got" \in DOMAIN outcome /\ outcome.at = setting.ptr =>
    IF outcome.result.end = "got" THEN GetGives(outcome.got, outcome.result.val)
    ELSE outcome.got # setting.type /\ (LikeArray(setting.type, outcome.got) => IsTyped(outcome.got))

(* What a set has put in the memory is what a get finds there: the same      *)
(* value as far as the type can hold it, field by field at the place where   *)
(* the wasm module has it, through nested structs and also as an array or a  *)
(* text; only a typed array may fail, as it must be aligned.  And a set,     *)
(* whether it ends or fails, changes no byte outside its own.                *)
SetThenGet ==
  [][ /\ GetRight'
      /\ \A a \in DOMAIN bytes :
           bytes'[a] # bytes[a] => a - view.ptr \in 0 .. view.type.size - 1
    ]_layoutVars
=============================================================================
