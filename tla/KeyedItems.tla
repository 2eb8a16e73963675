----------------------------- MODULE KeyedItems -----------------------------
(***************************************************************************)
(* What a hash map promises (src/server/hashmap.c, its comments on every   *)
(* call): a call of set, get or delete is answered with the item that was  *)
(* kept under the key, or with NULL, as if it had happened at one instant. *)
(* A set that finds no memory is answered with NULL, changes nothing, and  *)
(* says so.                                                                *)
(***************************************************************************)
CONSTANTS Keys, Values, NULL

VARIABLES
  dict,    \* dict[k]: the value kept under k, or NULL
  call,    \* the call that has not been answered
  answer,  \* the value the last call returned, or NULL; NULL once the next one begins
  oom      \* whether the last set found no memory

mapVars == <<dict, call, answer, oom>>

NoCall == [op |-> "none", key |-> NULL, val |-> NULL]
MapCalls ==
  [op : {"set"}, key : Keys, val : Values] \cup [op : {"get", "delete"}, key : Keys, val : {NULL}]

MapInit == dict = [k \in Keys |-> NULL] /\ call = NoCall /\ answer = NULL /\ oom = FALSE

Request(c) ==
  /\ call = NoCall /\ call' = c /\ answer' = NULL
  /\ oom' = (c.op = "get" /\ oom)
  /\ UNCHANGED dict

Kept(d) == /\ dict' = d /\ answer' = dict[call.key] /\ call' = NoCall /\ UNCHANGED oom

AnswerSet == call.op = "set" /\ Kept([dict EXCEPT ![call.key] = call.val])
AnswerGet == call.op = "get" /\ Kept(dict)
AnswerDelete == call.op = "delete" /\ Kept([dict EXCEPT ![call.key] = NULL])

AnswerNoMemory ==
  /\ call.op = "set" /\ call' = NoCall
  /\ answer' = NULL /\ oom' = TRUE
  /\ UNCHANGED dict

Clear ==
  /\ call = NoCall
  /\ dict' = [k \in Keys |-> NULL]
  /\ UNCHANGED <<call, answer, oom>>

MapNext ==
  \/ \E c \in MapCalls : Request(c)
  \/ AnswerSet \/ AnswerGet \/ AnswerDelete \/ AnswerNoMemory \/ Clear

MapSpec == MapInit /\ [][MapNext]_mapVars
=============================================================================
