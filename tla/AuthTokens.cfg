SPECIFICATION IngressSpec
CONSTANTS
  Emails = {e1, e2}
  AccountIDs = {a1, a2}
  TokenIDs = {k1, k2, k3}
  Workers = {w1, w2}
  Overlap = FALSE
  NoReq = NoReq
  NoToken = NoToken
  Keys = {"client"}
  Rate = 2
  Window = 2
  NoBucket = NoBucket
SYMMETRY IDSymmetry
INVARIANTS IngressTypeOK EmailsUnique SingleUse BurstBounded RefusedOnlyWhenServed
CHECK_DEADLOCK FALSE
