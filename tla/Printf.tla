------------------------------- MODULE Printf -------------------------------
(***************************************************************************)
(* printf of the WebAssembly runtime, src/engine/wasmstd.h: it reads the   *)
(* format and passes every piece of it to a function that the host of the  *)
(* module imports.  A format is a sequence of characters, here strings of  *)
(* one; NUL is what stands behind its end.  A variable argument is its     *)
(* type and a value, which tells nothing but the width or precision a "*"  *)
(* stands for.  What the host prints is not modelled: a text counts as one *)
(* character for each of its own, anything else as one.                    *)
(***************************************************************************)
EXTENDS Integers, Sequences

CONSTANT Formats  \* what callers print: records as in Rendered, and where it is cut

VARIABLES
  stage,     \* the part printf is in; "done" when it returns
  asked,     \* the member of Formats
  p,         \* the place in the format
  args,      \* the arguments no va_arg has taken yet
  spec,      \* what is known of the directive
  sent,      \* the calls of imported functions, and the stores of %n
  taken,     \* the types va_arg was asked for
  print_length, errored, returned

printfVars == <<stage, asked, p, args, spec, sent, taken, print_length, errored, returned>>

(* The first n of a sequence of sequences, one behind the other. *)
JoinedTo(parts, n) ==
  LET j[k \in 0 .. Len(parts)] == IF k = 0 THEN <<>> ELSE j[k - 1] \o parts[k] IN j[n]

(* A piece of a format is a text (conv is "text"), or a directive; a value   *)
(* is the argument for a "*".                                                *)
Rendered(piece) ==
  IF piece.conv = "text" THEN piece.text
  ELSE <<"%">> \o (piece.flags \o (piece.width \o (piece.precision \o (piece.length \o <<piece.conv>>))))
TextTo(pieces, n) == JoinedTo([k \in DOMAIN pieces |-> Rendered(pieces[k])], n)
format == SubSeq(TextTo(asked.pieces, Len(asked.pieces)), 1, asked.cut)

NUL == "NUL"
CharAt(k) == IF k <= Len(format) THEN format[k] ELSE NUL
c == CharAt(p)

FlagChars == {"-", "+", " ", "0", "'", "#"}
Numerals == <<"0", "1", "2", "3", "4", "5", "6", "7", "8", "9">>
DigitChars == {Numerals[d + 1] : d \in 0 .. 9}
IsDigit(ch) == ch \in DigitChars
DigitValue(ch) == CHOOSE d \in 0 .. 9 : Numerals[d + 1] = ch
NoSpec == [flags |-> {}, width |-> -1, precision |-> -1, length_char |-> NUL, length_bytes |-> 0]

(* The arguments that the caller has to pass, by the C standard (I, I32 and  *)
(* I64 are Microsoft's).  Types that differ in their sign only may stand for *)
(* each other.  Other directives have none.                                  *)
BadLength == <<"I", "1", "6">>
Known(piece) ==
  /\ piece.conv \in {"text", "%", "d", "i", "u", "x", "X", "o", "f", "F", "e", "E", "g", "G", "a", "A", "c", "s", "p", "n"}
  /\ piece.conv # "text" => piece.length # BadLength
StandardType(conv, length) ==
  CASE conv \in {"d", "i", "u", "x", "X", "o"} ->
         (CASE length = <<"l">> -> "long" [] length = <<"l", "l">> -> "long long"
            [] length = <<"j">> -> "intmax_t" [] length = <<"z">> -> "size_t"
            [] length = <<"t">> -> "ptrdiff_t"
            [] length = <<"I">> -> IF conv \in {"d", "i"} THEN "ptrdiff_t" ELSE "size_t"
            [] length = <<"I", "3", "2">> -> "int32_t" [] length = <<"I", "6", "4">> -> "int64_t"
            [] OTHER -> "int")
    [] conv \in {"f", "F", "e", "E", "g", "G", "a", "A"} -> IF length = <<"L">> THEN "long double" ELSE "double"
    [] conv = "c" -> "int"
    [] conv \in {"s", "p", "n"} -> "pointer"

Arg(type, val) == [type |-> type, val |-> val]
ArgsOf(piece) ==
  IF piece.conv = "text" THEN <<>>
  ELSE (IF piece.width = <<"*">> THEN <<Arg("int", piece.value)>> ELSE <<>>)
       \o (IF piece.precision = <<".", "*">> THEN <<Arg("int", piece.value)>> ELSE <<>>)
       \o (IF piece.conv = "%" \/ ~Known(piece) THEN <<>> ELSE <<Arg(StandardType(piece.conv, piece.length), 0)>>)
ArgsTo(pieces, n) == JoinedTo([k \in DOMAIN pieces |-> ArgsOf(pieces[k])], n)
ArgsOfAll(pieces) == ArgsTo(pieces, Len(pieces))

(* What stands in a directive: none of its parts can be taken for the one     *)
(* before it.  A format is cut anywhere but within a text, which would only  *)
(* be a shorter one, as two texts behind each other are one.  printf reads   *)
(* nothing behind a length that it refuses.                                  *)
LengthTexts ==
  { <<>>, <<"h">>, <<"h", "h">>, <<"l">>, <<"l", "l">>, <<"j">>, <<"z">>, <<"t">>, <<"L">>,
    <<"I">>, <<"I", "3", "2">>, <<"I", "6", "4">>, BadLength }
IsPiece(piece) ==
  \/ /\ piece.conv = "text" /\ piece.text \in Seq(STRING) /\ piece.text # <<>>
     /\ \A k \in DOMAIN piece.text : piece.text[k] \notin {"%", NUL}
  \/ /\ piece.conv \in STRING /\ piece.value \in Int
     /\ piece.conv \notin FlagChars \cup DigitChars \cup {"text", "*", ".", "h", "l", "j", "z", "t", "L", "I", NUL}
     /\ piece.flags \in Seq(FlagChars) /\ piece.length \in LengthTexts
     /\ \/ piece.width = <<"*">>
        \/ piece.width \in Seq(DigitChars) /\ (piece.width # <<>> => Head(piece.width) # "0")
     /\ \/ piece.precision \in {<<>>, <<".", "*">>}
        \/ piece.precision # <<>> /\ Head(piece.precision) = "." /\ Tail(piece.precision) \in Seq(DigitChars)
           /\ piece.precision \in Seq(STRING)
Pieces == UNION {{f.pieces[k] : k \in DOMAIN f.pieces} : f \in Formats}

ASSUME FormatsAssumption ==
  \A f \in Formats :
    /\ f.pieces \in Seq(Pieces) /\ f.cut \in 0 .. Len(TextTo(f.pieces, Len(f.pieces)))
    /\ \A n \in DOMAIN f.pieces :
         /\ IsPiece(f.pieces[n])
         /\ f.pieces[n].conv = "text" =>
              /\ n < Len(f.pieces) => f.pieces[n + 1].conv # "text"
              /\ f.cut <= Len(TextTo(f.pieces, n - 1)) \/ f.cut >= Len(TextTo(f.pieces, n))
         /\ f.pieces[n].conv # "text" /\ f.pieces[n].length = BadLength => n = Len(f.pieces)

NoFormat == [pieces |-> <<>>, cut |-> 0]

PrintfInit ==
  /\ stage = "idle" /\ asked = NoFormat /\ p = 1 /\ args = <<>> /\ spec = NoSpec /\ sent = <<>>
  /\ taken = <<>> /\ print_length = 0 /\ errored = FALSE /\ returned = 0

Fresh(part, f) ==
  /\ stage' = part /\ asked' = f /\ p' = 1 /\ args' = ArgsOfAll(f.pieces) /\ spec' = NoSpec
  /\ sent' = <<>> /\ taken' = <<>> /\ print_length' = 0 /\ errored' = FALSE /\ returned' = 0

printf == stage = "idle" /\ \E f \in Formats : Fresh("loop", f)
Done == stage = "done" /\ Fresh("idle", NoFormat)

PrintfReturns(err) ==
  /\ stage' = "done" /\ errored' = err /\ returned' = IF err THEN -1 ELSE print_length'

GoOn(part, steps) == stage' = part /\ p' = p + steps
va_arg(type) == args' = Tail(args) /\ taken' = Append(taken, type)
NoArg == UNCHANGED <<args, taken>>
Silent == UNCHANGED <<sent, print_length>>
---------------------------------------------------------------------------
(* The loop ends, or a text goes out, or a directive begins. *)
LoopEnd ==
  /\ stage = "loop" /\ c = NUL /\ UNCHANGED <<p, spec>> /\ NoArg /\ Silent /\ PrintfReturns(errored)

PlainText ==
  LET end == CHOOSE k \in p .. Len(format) + 1 :
               CharAt(k) \in {"%", NUL} /\ \A j \in p .. k - 1 : CharAt(j) \notin {"%", NUL}
  IN
  /\ stage = "loop" /\ c \notin {"%", NUL}
  /\ sent' = Append(sent, [to |-> "string", text |-> SubSeq(format, p, end - 1)])
  /\ print_length' = print_length + end - p
  /\ GoOn("loop", end - p) /\ NoArg /\ UNCHANGED <<spec, errored, returned>>

Percent ==
  /\ stage = "loop" /\ c = "%" /\ spec' = NoSpec
  /\ GoOn("flags", 1) /\ NoArg /\ Silent /\ UNCHANGED <<errored, returned>>

(* The format ends within a directive. *)
Parts == {"flags", "width", "precision", "digits", "length", "type"}
CutShort ==
  /\ stage \in Parts /\ c = NUL /\ UNCHANGED <<p, spec>> /\ NoArg /\ Silent /\ PrintfReturns(TRUE)

Reads(part) == stage = part /\ c # NUL /\ UNCHANGED <<errored, returned>> /\ Silent

ReadFlags ==
  /\ Reads("flags") /\ NoArg
  /\ IF c \in FlagChars THEN spec' = [spec EXCEPT !.flags = @ \cup {c}] /\ GoOn("flags", 1)
     ELSE /\ spec' = [spec EXCEPT !.flags = IF "-" \in @ THEN @ \ {"0"} ELSE @]
          /\ GoOn("width", 0)

StarWidth_Kept(v) == [spec EXCEPT !.width = v]
StarWidth(v) ==
  [spec EXCEPT !.width = IF v < 0 THEN -v ELSE v, !.flags = IF v < 0 THEN @ \cup {"-"} ELSE @]

ReadWidth ==
  /\ Reads("width")
  /\ \/ /\ c = "*" /\ va_arg("int") /\ spec' = StarWidth(Head(args).val) /\ GoOn("precision", 1)
     \/ /\ IsDigit(c) /\ NoArg /\ GoOn("width", 1)
        /\ spec' = [spec EXCEPT !.width = (IF @ = -1 THEN 0 ELSE @) * 10 + DigitValue(c)]
     \/ c # "*" /\ ~IsDigit(c) /\ NoArg /\ GoOn("precision", 0) /\ UNCHANGED spec

ReadPrecision ==
  /\ Reads("precision")
  /\ \/ /\ c = "." /\ CharAt(p + 1) = "*" /\ va_arg("int") /\ GoOn("length", 2)
        /\ spec' = [spec EXCEPT !.precision = Head(args).val]
     \/ /\ c = "." /\ CharAt(p + 1) # "*" /\ NoArg /\ GoOn("digits", 1)
        /\ spec' = [spec EXCEPT !.precision = 0]
     \/ c # "." /\ NoArg /\ GoOn("length", 0) /\ UNCHANGED spec

ReadDigits ==
  /\ Reads("digits") /\ NoArg
  /\ IF IsDigit(c) THEN spec' = [spec EXCEPT !.precision = @ * 10 + DigitValue(c)] /\ GoOn("digits", 1)
     ELSE GoOn("length", 0) /\ UNCHANGED spec

(* Two letters of length make "ll" or "hh" by the second one alone; I is     *)
(* followed by 32 or 64 or by nothing, anything else ends printf.            *)
Bits == DigitValue(CharAt(p + 1)) * 10 + DigitValue(CharAt(p + 2))
BadBits ==
  /\ c = "I" /\ CharAt(p + 1) # "0" /\ IsDigit(CharAt(p + 1))
  /\ (IsDigit(CharAt(p + 2)) => Bits \notin {32, 64})

ReadLength ==
  LET next == CharAt(p + 1)
      Length(ch, n) == spec' = [spec EXCEPT !.length_char = ch] /\ GoOn("type", n)
  IN
  /\ Reads("length") /\ NoArg /\ ~BadBits
  /\ \/ c \in {"L", "z", "j", "t"} /\ Length(c, 1)
     \/ c \in {"l", "h"} /\ next \in {"l", "h"} /\ Length(IF next = "l" THEN "ll" ELSE "hh", 2)
     \/ c \in {"l", "h"} /\ next \notin {"l", "h"} /\ Length(c, 1)
     \/ c = "I" /\ (next = "0" \/ ~IsDigit(next)) /\ Length(c, 1)
     \/ /\ c = "I" /\ next # "0" /\ IsDigit(next) /\ GoOn("type", 3)
        /\ spec' = [spec EXCEPT !.length_char = c, !.length_bytes = Bits \div 8]
     \/ c \notin {"L", "z", "j", "t", "l", "h", "I"} /\ GoOn("type", 0) /\ UNCHANGED spec

LengthFails ==
  /\ stage = "length" /\ BadBits /\ UNCHANGED <<p, spec>> /\ NoArg /\ Silent /\ PrintfReturns(TRUE)
---------------------------------------------------------------------------
(* What va_arg is asked for. *)
ArgType ==
  CASE c \in {"d", "i", "u", "x", "X", "o"} ->
         (CASE spec.length_char = "l" -> "long" [] spec.length_char = "ll" -> "long long"
            [] spec.length_char = "j" -> "intmax_t" [] spec.length_char = "z" -> "size_t"
            [] spec.length_char = "t" -> "ptrdiff_t"
            [] spec.length_char = "I" /\ spec.length_bytes = 0 ->
                 IF c \in {"d", "i"} THEN "ptrdiff_t" ELSE "size_t"
            [] spec.length_char = "I" /\ spec.length_bytes = 4 -> "int32_t"
            [] spec.length_char = "I" /\ spec.length_bytes = 8 -> "int64_t"
            [] OTHER -> "int")
    [] c \in {"f", "F", "e", "E", "g", "G", "a", "A"} ->
         IF spec.length_char = "L" THEN "long double" ELSE "double"
    [] c = "c" -> "int"
    [] c \in {"s", "p", "n"} -> "pointer"
    [] OTHER -> "none"

Directive(s, conv) ==
  [to |-> conv, flags |-> s.flags, width |-> s.width, precision |-> s.precision, length |-> s.length_char]

ReadType ==
  /\ stage = "type" /\ c # NUL /\ GoOn("loop", 1) /\ UNCHANGED <<spec, returned>>
  /\ \/ /\ c = "%" /\ NoArg /\ UNCHANGED errored
        /\ sent' = Append(sent, Directive(spec, c)) /\ print_length' = print_length + 1
     \/ /\ c # "%" /\ ArgType # "none" /\ va_arg(ArgType) /\ UNCHANGED errored
        /\ sent' = Append(sent, Directive(spec, c))
        /\ print_length' = IF c = "n" THEN print_length ELSE print_length + 1
     \/ c # "%" /\ ArgType = "none" /\ errored' = TRUE /\ NoArg /\ Silent

PrintfStep ==
  /\ UNCHANGED asked
  /\ \/ LoopEnd \/ PlainText \/ Percent \/ CutShort
     \/ ReadFlags \/ ReadWidth \/ ReadPrecision \/ ReadDigits \/ ReadLength \/ LengthFails \/ ReadType

PrintfNext == printf \/ PrintfStep \/ Done
PrintfSpec == PrintfInit /\ [][PrintfNext]_printfVars
---------------------------------------------------------------------------
(* What a piece means in C: "-" takes the place of "0", a negative width of  *)
(* an argument is one to the left.  (There "0" stays in the flags.)          *)
Decimal(digits, n) ==
  LET v[k \in 0 .. Len(digits)] == IF k = 0 THEN 0 ELSE v[k - 1] * 10 + DigitValue(digits[k]) IN v[n]
Meaning(piece) ==
  LET star == piece.width = <<"*">>
      given == {piece.flags[k] : k \in DOMAIN piece.flags}
      flags == IF "-" \in given THEN given \ {"0"} ELSE given
  IN
  [to |-> piece.conv,
   flags |-> IF star /\ piece.value < 0 THEN flags \cup {"-"} ELSE flags,
   width |-> IF star THEN (IF piece.value < 0 THEN -piece.value ELSE piece.value)
             ELSE IF piece.width = <<>> THEN -1 ELSE Decimal(piece.width, Len(piece.width)),
   precision |-> IF piece.precision = <<".", "*">> THEN piece.value
                 ELSE IF piece.precision = <<>> THEN -1 ELSE Decimal(Tail(piece.precision), Len(piece.precision) - 1),
   length |-> IF piece.length = <<>> THEN NUL
              ELSE IF piece.length = <<"l", "l">> THEN "ll" ELSE IF piece.length = <<"h", "h">> THEN "hh"
              ELSE piece.length[1]]
Sent(piece) ==
  IF ~Known(piece) THEN <<>>
  ELSE IF piece.conv = "text" THEN <<[to |-> "string", text |-> piece.text]>> ELSE <<Meaning(piece)>>
SentTo(pieces, n) == JoinedTo([k \in DOMAIN pieces |-> Sent(pieces[k])], n)

(* How many pieces are whole before the cut. *)
Size(n) == Len(TextTo(asked.pieces, n))
Whole ==
  CHOOSE n \in 0 .. Len(asked.pieces) :
    Size(n) <= asked.cut /\ (n < Len(asked.pieces) => asked.cut < Size(n + 1))

(* Every piece of the format reaches the host as C says, with an argument of *)
(* the type the caller has passed for it and none left out or taken twice;   *)
(* printf returns -1 just when it met a directive it does not know, or the   *)
(* format ends within one, and then the pieces before it are out.            *)
PrintfRight ==
  stage = "done" =>
    LET inside == Size(Whole) < asked.cut
        all == ArgsOfAll(asked.pieces)
    IN
    /\ sent = SentTo(asked.pieces, Whole)
    /\ returned = -1 <=> inside \/ \E k \in 1 .. Whole : ~Known(asked.pieces[k])
    /\ Len(taken) <= Len(all) /\ \A k \in 1 .. Len(taken) : taken[k] = all[k].type
    /\ ~inside => Len(taken) = Len(ArgsTo(asked.pieces, Whole))
=============================================================================
