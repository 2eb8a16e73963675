----------------------------- MODULE MCWsStream -----------------------------
(* Instances of WsStream for TLC.  126 is the shortest payload with a long  *)
(* header; 8 the shortest whose frame is as long as WS_MAX_HEADER_LEN.      *)
EXTENDS WsStream

(* Out of step the bytes may read like an empty continuation, a masked text  *)
(* that has come or is waited for, a longer one without a mask whose header  *)
(* may be cut, a close frame, the first of several frames, and a frame       *)
(* longer than the limit.                                                    *)
NoiseHeaders ==
  {<<0, 0>>, <<129, 136>>, <<130, 126, 0, 126>>, <<136, 8>>, <<1, 8>>, <<129, 255, 1>>}
=============================================================================
