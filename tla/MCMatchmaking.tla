--------------------------- MODULE MCMatchmaking ---------------------------
(* Instances of Matchmaking for TLC.                                       *)
EXTENDS Matchmaking, TLC

PoolSymmetry == Permutations(Tickets) \cup Permutations(Regions)
=============================================================================
