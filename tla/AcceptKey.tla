------------------------------ MODULE AcceptKey ------------------------------
(***************************************************************************)
(* The answer of the handshake, src/server/ws.c: wsHandshake looks for the *)
(* client's key in the request, and _wsCalculateAcceptKey makes the accept *)
(* key of it, through the SHA-1 context (Sha1), the mixing of its blocks   *)
(* (Sha1Block) and base64_encode (Base64).  What is sent and lost of a     *)
(* handshake is in WsServer.                                               *)
(*                                                                         *)
(* A request is the sequence of tokens that strtok finds in what one recv  *)
(* has brought; TCP may have cut it anywhere.                              *)
(***************************************************************************)
EXTENDS Sha1, Sha1Block, Base64

CONSTANTS
  Requests,     \* records: tokens, key (the client's), whole (the key is all there)
  KeyBytes,     \* KeyBytes[t]: the bytes of a token that may be taken for a key
  KeyNames,     \* the tokens that begin with "Sec-WebSocket-Key"
  magicString,  \* the bytes of "258EAFA5-E914-47DA-95CA-C5AB0DC85B11"
  Answers       \* Answers[k]: what RFC 6455 answers to the key k

(* _wsCheckHttpHeaderForSecKey: the token behind the first one that begins   *)
(* with the name, the very first token not looked at.                        *)
NameAt(tokens) == {j \in 2 .. Len(tokens) - 1 : tokens[j] \in KeyNames}
SecKey(tokens) ==
  IF NameAt(tokens) = {} THEN {}
  ELSE {tokens[1 + CHOOSE j \in NameAt(tokens) : \A k \in NameAt(tokens) : j <= k]}

(* What the standards answer to the key t: the letters of the SHA-1 of its   *)
(* bytes with the magic string behind them.                                  *)
Letters28(d) ==
  [p \in 1 .. 28 |->
     LET q == 3 * ((p - 1) \div 4) IN
     IF p = 28 THEN EQUALS
     ELSE Letters(d[q + 1], d[q + 2], IF q + 3 <= 20 THEN d[q + 3] ELSE 0)[1 + ((p - 1) % 4)]]
StandardAnswer(t) ==
  LET m == KeyBytes[t] \o magicString
      bs == StandardBlocks(m, Len(m), 0, 8 * Len(m))
  IN  Letters28(BytesOf(HashOf(bs, Len(bs))))

(* The header of the key is never the first token, and none before it begins *)
(* with the same name.                                                       *)
KeyIn(r) ==
  \E j \in 2 .. Len(r.tokens) - 1 :
    /\ r.tokens[j] \in KeyNames /\ r.tokens[j + 1] = r.key
    /\ \A k \in 2 .. j - 1 : r.tokens[k] \notin KeyNames

ASSUME AcceptAssumption ==
  /\ magicString \in Seq(Octet)
  /\ \A t \in DOMAIN KeyBytes : KeyBytes[t] \in Seq(Octet)
  /\ \A t \in DOMAIN Answers : t \in DOMAIN KeyBytes /\ Answers[t] = StandardAnswer(t)
  /\ \A r \in Requests :
       /\ r.tokens \in Seq(STRING) /\ SecKey(r.tokens) \subseteq DOMAIN KeyBytes
       /\ r.whole => r.key \in DOMAIN Answers /\ KeyIn(r)
       /\ r.key = "none" => \A j \in 2 .. Len(r.tokens) - 1 : r.tokens[j] \notin KeyNames

VARIABLES
  hs,       \* where wsHandshake is
  request,  \* what recv has brought
  reply     \* how it ended: "none" while it runs, "killed", or the accept key that was sent

handshakeVars == <<hs, request, reply>>
acceptVars == <<handshakeVars, sha1Vars, blockVars, b64Vars>>

NoRequest == [tokens |-> <<>>, key |-> "none", whole |-> FALSE]
NoReply == [end |-> "none", accept |-> <<>>]

AcceptInit ==
  /\ Sha1Init /\ BlockInit /\ B64Init
  /\ hs = "idle" /\ request = NoRequest /\ reply = NoReply

wsHandshake(r) ==
  /\ hs = "idle" /\ request' = r
  /\ \/ /\ SecKey(r.tokens) = {} /\ reply' = [end |-> "killed", accept |-> <<>>]
        /\ UNCHANGED <<hs, sha1Vars>>
     \/ \E k \in SecKey(r.tokens) :
          /\ SHA1Reset(KeyBytes[k] \o magicString)
          /\ hs' = "reset" /\ reply' = NoReply
  /\ UNCHANGED <<blockVars, b64Vars>>

HashInput ==
  /\ hs = "reset" /\ SHA1Input(Len(msg)) /\ hs' = "input"
  /\ UNCHANGED <<request, reply, blockVars, b64Vars>>

HashByte ==
  /\ hs = "input" /\ InputByte
  /\ UNCHANGED <<handshakeVars, blockVars, b64Vars>>

HashResult ==
  /\ hs = "input" /\ todo = 0 /\ SHA1Result /\ hs' = "result"
  /\ UNCHANGED <<request, reply, blockVars, b64Vars>>

HashMix ==
  /\ hs = "result" /\ MixCall(hashed) /\ hs' = "mix"
  /\ UNCHANGED <<request, reply, sha1Vars, b64Vars>>

HashStep ==
  /\ hs = "mix" /\ BlockStep
  /\ UNCHANGED <<handshakeVars, sha1Vars, b64Vars>>

Encode ==
  /\ hs = "mix" /\ blocks = <<>> /\ b64 = "idle" /\ EncodeCall(BytesOf(hash)) /\ hs' = "encode"
  /\ UNCHANGED <<request, reply, sha1Vars, blockVars>>

EncodeStep ==
  /\ hs = "encode" /\ (EncodeBlock \/ EncodeEnd)
  /\ UNCHANGED <<handshakeVars, sha1Vars, blockVars>>

(* The line feed of base64_encode is overwritten with the NUL of the string. *)
AcceptText_Whole == out
AcceptText == SubSeq(out, 1, Len(out) - 1)

SendAnswer ==
  /\ hs = "encode" /\ Taken /\ hs' = "idle"
  /\ reply' = [end |-> "accepted", accept |-> AcceptText]
  /\ UNCHANGED <<request, sha1Vars, blockVars>>

AcceptNext ==
  \/ \E r \in Requests : wsHandshake(r)
  \/ HashInput \/ HashByte \/ HashResult \/ HashMix \/ HashStep
  \/ Encode \/ EncodeStep \/ SendAnswer

(* The two counters of bits hold those of a key of wsHandshake. *)
KeysFit == \A t \in DOMAIN KeyBytes : 8 * Len(KeyBytes[t] \o magicString) < word
AcceptSpec == AcceptInit /\ KeysFit /\ [][AcceptNext]_acceptVars
---------------------------------------------------------------------------
(* A client whose key came whole is answered with the accept key RFC 6455    *)
(* gives for it, and a request without a key with none, wherever the header  *)
(* stands among the others.                                                  *)
AcceptKeyRight ==
  reply.end # "none" =>
    /\ request.whole => reply = [end |-> "accepted", accept |-> Answers[request.key]]
    /\ request.key = "none" => reply.end = "killed"
=============================================================================
