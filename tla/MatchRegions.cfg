SPECIFICATION Spec
CONSTANTS
  Tickets = {p1, p2, p3, p4}
  Regions = {east, west}
  Ratings = {0, 2, 3}
  Waits = {0, 5}
  Tolerances = {0, 1}
  BaseBand = 1
  WidenPerSec = 1
  MaxBand = 3
  HardTimeout = 4
SYMMETRY PoolSymmetry
INVARIANTS TypeOK EveryoneOnce MatchesAreFair NobodyInReachIsLeft
CHECK_DEADLOCK FALSE
