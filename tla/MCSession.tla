----------------------------- MODULE MCSession -----------------------------
(* Instances of Session for TLC.                                           *)
EXTENDS Session

(* The two players, and an account that takes no part in the match.        *)
Visited == [p \in {"one", "two", "other"} |->
  CASE p = "one" -> 1 [] p = "two" -> 2 [] OTHER -> 3]

OneEach == [p \in {"one", "two"} |-> IF p = "one" THEN 1 ELSE 2]
=============================================================================
