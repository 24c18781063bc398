----------------------------- MODULE MCIngress -----------------------------
(* Instances of Ingress for TLC.                                           *)
EXTENDS Ingress, TLC

IDSymmetry ==
  Permutations(Emails) \cup Permutations(AccountIDs) \cup Permutations(TokenIDs)
    \cup Permutations(Workers)
=============================================================================
