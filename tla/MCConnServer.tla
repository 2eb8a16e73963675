---------------------------- MODULE MCConnServer ----------------------------
(* Instances of ConnServer for TLC: three peers and a list of two clients,  *)
(* so that the third connection meets a full list and descriptors are       *)
(* reused.                                                                  *)
EXTENDS ConnServer, TLC

PeerSymmetry == Permutations(Peers)
=============================================================================
