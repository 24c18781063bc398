------------------------------- MODULE MCAuth -------------------------------
(* Instances of Auth for TLC.                                              *)
EXTENDS Auth, TLC

IDSymmetry ==
  Permutations(Emails) \cup Permutations(AccountIDs) \cup Permutations(TokenIDs)
    \cup Permutations(Workers)
=============================================================================
