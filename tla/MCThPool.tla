------------------------------ MODULE MCThPool ------------------------------
(* Instances of ThPool for TLC. *)
EXTENDS ThPool, TLC

PoolSymmetry == Permutations(Threads) \cup Permutations(Jobs)
=============================================================================
