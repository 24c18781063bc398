----------------------------- MODULE MCProfile -----------------------------
(* Instances of Profile for TLC.                                           *)
EXTENDS Profile, TLC

(* Id lists that repeat an entry, and some beyond the limit of the party.  *)
TripleLists == UNION {[1 .. n -> Creatures] : n \in 0 .. 3}
(* Lists with at most one entry, for the runs with two trades.             *)
SingleLists == UNION {[1 .. n -> Creatures] : n \in 0 .. 1}

(* A species that does not evolve.                                         *)
NoStage == (1 :> 0)
Gate1 == [f \in {1} |-> 10]
Pool1 == (1 :> <<"overgrow">>)
HighLevel == [c \in Creatures |-> 20]
(* Form 1 can evolve at level 20; 2 cannot yet; the target of 3 is not in  *)
(* the Dex.                                                                *)
Branch == (1 :> 2) @@ (2 :> 3) @@ (3 :> 9)
BranchGate == (1 :> 10) @@ (2 :> 30) @@ (3 :> 10)
BranchPool == (1 :> <<"overgrow">>) @@ (2 :> <<"static">>) @@ (3 :> <<>>)

RequestSymmetry ==
  Permutations(Accounts) \cup Permutations(Creatures) \cup Permutations(Workers)
TradeSymmetry ==
  Permutations(Accounts) \cup Permutations(Creatures) \cup Permutations(TradeIDs)
=============================================================================
