---------------------------- MODULE MCLibraries ----------------------------
(***************************************************************************)
(* An instance of the sequential libraries for TLC.  None of them calls    *)
(* another, but for the handshake, which AcceptKey composes of three; so a *)
(* behaviour is about one of them, lib, and the others stay as they begin. *)
(***************************************************************************)
EXTENDS RobinHood, AcceptKey, NgArray, CLayout, Printf, SequencesExt, TLC

VARIABLE lib

others(name) ==
  /\ UNCHANGED lib
  /\ name # "map" => UNCHANGED vars
  /\ name # "handshake" => UNCHANGED handshakeVars
  /\ name \notin {"handshake", "sha1"} => UNCHANGED sha1Vars
  /\ name # "handshake" => UNCHANGED blockVars
  /\ name \notin {"handshake", "base64"} => UNCHANGED b64Vars
  /\ name # "array" => UNCHANGED arrayVars
  /\ name # "layout" => UNCHANGED layoutVars
  /\ name # "printf" => UNCHANGED printfVars

(* Where the libraries differ at the beginning, only the one in use does. *)
LibInit ==
  /\ Init /\ AcceptInit /\ ArrayInit /\ LayoutInit /\ PrintfInit
  /\ lib \in {"map", "handshake", "sha1", "base64", "array", "layout", "printf"}
  /\ lib # "map" => nbuckets = MinBuckets
  /\ lib # "sha1" => word = 1024
  /\ lib # "layout" => bytes[0] = 0

LibNext ==
  \/ lib = "map" /\ Next /\ others("map")
  \/ lib = "handshake" /\ AcceptNext /\ others("handshake")
  \/ lib = "sha1" /\ Sha1Next /\ others("sha1")
  \/ lib = "base64" /\ B64Next /\ others("base64")
  \/ lib = "array" /\ ArrayNext /\ others("array")
  \/ lib = "layout" /\ LayoutNext /\ others("layout")
  \/ lib = "printf" /\ PrintfNext /\ others("printf")

LibSpec == LibInit /\ [][LibNext]_<<lib, vars, acceptVars, arrayVars, layoutVars, printfVars>>
                   /\ WF_vars(Step /\ IterKept)
---------------------------------------------------------------------------
(* The map: in 4 buckets the keys 1, 2 and 3 are all at home in the last    *)
(* one, so that runs wrap around and displace the key 4 from the first; in  *)
(* 8 buckets the key 2 parts from them, and 1 and 3 share a home in every   *)
(* table.  The key 5 is looked for, and never set.                          *)
MCHash == 1 :> 15 @@ 2 :> 3 @@ 3 :> 15 @@ 4 :> 0 @@ 5 :> 3
MCItems == {<<k, 7>> : k \in 1 .. 4} \cup {<<1, 8>>}

(* Base64: all texts of up to 3 bytes over three, and lengths about a block, *)
(* a line (54 bytes), two lines, and the one at which size_t wraps (128).    *)
Ramp(n) == [k \in 1 .. n |-> (k * 37 + 5) % 256]
MCSources ==
  BoundedSeq({0, 107, 255}, 3)
    \cup {Ramp(n) : n \in 4 .. 6 \cup 52 .. 58 \cup 107 .. 111 \cup {127, 128, 140}}
MCTexts == BoundedSeq({65, 47, 61, 10, 42}, 5)

(* The handshake: two keys with the answers of an independent SHA-1 and      *)
(* Base64, the first of them that of RFC 6455; and what is left of it when   *)
(* the request is cut within the key.                                        *)
MCMagic ==
  <<50, 53, 56, 69, 65, 70, 65, 53, 45, 69, 57, 49, 52, 45, 52, 55, 68, 65, 45, 57, 53, 67, 65,
    45, 67, 53, 65, 66, 48, 68, 67, 56, 53, 66, 49, 49>>
Key1 == <<100, 71, 104, 108, 73, 72, 78, 104, 98, 88, 66, 115, 90, 83, 66, 117, 98, 50, 53, 106, 90, 81, 61, 61>>
Key2 == <<120, 51, 74, 74, 72, 77, 98, 68, 76, 49, 69, 122, 76, 107, 104, 57, 71, 66, 104, 88, 68, 119, 61, 61>>
MCKeyBytes == "K1" :> Key1 @@ "K2" :> Key2 @@ "K1 cut" :> SubSeq(Key1, 1, 12) @@ "Sec-WebSocket-Version" :> <<>>
MCAnswers ==
  "K1" :> <<115, 51, 112, 80, 76, 77, 66, 105, 84, 120, 97, 81, 57, 107, 89, 71, 122, 122, 104, 90,
            82, 98, 75, 43, 120, 79, 111, 61>> @@
  "K2" :> <<72, 83, 109, 114, 99, 48, 115, 77, 108, 89, 85, 107, 65, 71, 109, 109, 53, 79, 80, 112,
            71, 50, 72, 97, 71, 87, 107, 61>>

Line == <<"GET", "/", "HTTP/1.1", "Host", "server">>
Req(headers, key, whole) == [tokens |-> Line \o headers, key |-> key, whole |-> whole]
MCRequests ==
  { Req(<<"Sec-WebSocket-Key", "K1", "Sec-WebSocket-Version", "13">>, "K1", TRUE),
    Req(<<"Upgrade", "websocket", "Sec-WebSocket-Key", "K2">>, "K2", TRUE),
    Req(<<"Upgrade", "websocket", "Sec-WebSocket-Version", "13">>, "none", FALSE),
    Req(<<"sec-websocket-key", "K1">>, "K1", FALSE),
    Req(<<"Sec-WebSocket-Version", "13", "Sec-WebSocket-Key">>, "none", FALSE),
    Req(<<"Sec-WebSocket-Key", "K1 cut">>, "K1", FALSE) }

(* A message of more than two blocks; a word of 32 is too small for it and   *)
(* shows what happens to a message too long.                                 *)
MCMessages == {Ramp(136)}

(* The layout: numbers that do not fit, structs within structs, a field that *)
(* is missing, and fields that cannot be set.                                *)
Struct(names, types) == CStruct([k \in DOMAIN names |-> [name |-> names[k], type |-> types[k]]])
Array(of, n) == CArray(of, n, FALSE)
Str(n) == CArray(CType("u8"), n, TRUE)
Pair == Struct(<<"x", "y">>, <<CType("i8"), CType("i16")>>)
Nested == Struct(<<"a", "p", "z">>, <<CType("u8"), Pair, CType("u8")>>)
Named == Struct(<<"n", "s", "z">>, <<CType("u8"), Str(2), CType("u8")>>)
Wide == Struct(<<"n", "w">>, <<CType("u8"), CType("i64")>>)
Three(type) == Struct(<<"x", "y", "z">>, <<type, type, type>>)
Two(type) == Struct(<<"x", "y">>, <<type, type>>)
XY(x, y) == [x |-> x, y |-> y]
Nums(x, y) == XY(Num(x), Num(y))
MCSetCalls ==
  { <<CType("i32"), Num(-2)>>, <<CType("u32"), Num(300)>>, <<CType("ptr"), Num(27)>>, <<Pair, Nums(2, -7)>>,
    <<Nested, [a |-> Num(3), p |-> Nums(-1, 6), z |-> Num(1)]>>, <<Nested, [z |-> Num(2)]>>,
    <<Named, [n |-> Num(3), s |-> Num(0), z |-> Num(3)]>>, <<Wide, [n |-> Num(1), w |-> Num(1)]>>,
    <<Three(CType("u8")), [x |-> Num(1), y |-> Num(2), z |-> Num(1)]>>, <<Two(CType("u16")), Nums(7, 17)>>,
    <<Two(Pair), XY(Nums(1, 5), Nums(3, 2))>> }
MCGetTypes ==
  {call_[1] : call_ \in MCSetCalls} \cup
  { Array(CType("u8"), 3), Array(CType("u16"), 2), Array(CType("u32"), 1), Array(CType("u64"), 1),
    Array(CType("i16"), 2), Array(Pair, 2), Str(3) }
FieldsOf(d) ==
  IF d[1].kind # "struct" THEN {}
  ELSE {<<d[1].fields[k].type, ValueOf(d[2], d[1].fields[k])>> : k \in DOMAIN d[1].fields}
WithFields(ds) == ds \cup UNION {FieldsOf(d) : d \in ds}
MCData == WithFields(WithFields(MCSetCalls))
MCTypes == MCGetTypes \cup {d[1] : d \in MCData} \cup {t.of : t \in {u \in MCGetTypes : u.kind = "array"}}

(* The formats: every kind of directive, cut at every place, alone and next  *)
(* to others (two texts next to each other are one).                         *)
Plain(conv) ==
  [flags |-> <<>>, width |-> <<>>, precision |-> <<>>, length |-> <<>>, conv |-> conv, value |-> 3]
Spelled(flags, width, precision, value) ==
  [Plain("d") EXCEPT !.flags = flags, !.width = width, !.precision = precision, !.value = value]
A == [conv |-> "text", text |-> <<"a">>]
Flags == {<<>>, <<"0">>, <<"-", "0">>, <<"+", "0", " ">>, <<"#", "'">>}
Widths == {<<>>, <<"1", "0">>, <<"*">>}
Precisions == {<<>>, <<".">>, <<".", "1", "2">>, <<".", "*">>}
Lengths ==
  { <<"h">>, <<"h", "h">>, <<"l">>, <<"l", "l">>, <<"j">>, <<"z">>, <<"t">>, <<"I">>,
    <<"I", "3", "2">>, <<"I", "6", "4">> }
Directives ==
  {Plain(conv) : conv \in {"%", "d", "x", "f", "c", "s", "p", "n", "y"}}
  \cup {Spelled(f, w, pr, -4) : f \in Flags, w \in Widths, pr \in Precisions}
  \cup {[Plain(conv) EXCEPT !.length = l] : conv \in {"d", "u", "n"}, l \in Lengths}
  \cup {[Plain("g") EXCEPT !.length = <<"L">>]}
Next2 ==
  { Spelled(<<"0">>, <<"*">>, <<".", "*">>, 3), [Plain("u") EXCEPT !.length = <<"l", "l">>],
    [Plain("d") EXCEPT !.length = <<"I", "1", "6">>] }
LengthOf(ps) == Len(TextTo(ps, Len(ps)))
CutAnywhere(ps) == {[pieces |-> ps, cut |-> n] : n \in 0 .. LengthOf(ps)}
MCFormats ==
  UNION ({CutAnywhere(<<d>>) : d \in Directives} \cup {CutAnywhere(<<A, d>>) : d \in Next2})
  \cup {[pieces |-> <<d, e>>, cut |-> LengthOf(<<d, e>>)] : d \in Directives, e \in Next2 \cup {A}}
=============================================================================
