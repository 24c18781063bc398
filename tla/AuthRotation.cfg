SPECIFICATION Spec
CONSTANTS
  Emails = {e1, e2}
  AccountIDs = {a1, a2}
  TokenIDs = {k1, k2, k3}
  Workers = {w1, w2}
  Overlap = TRUE
  NoReq = NoReq
  NoToken = NoToken
SYMMETRY IDSymmetry
INVARIANT SingleUse
CHECK_DEADLOCK FALSE
