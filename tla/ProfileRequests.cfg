SPECIFICATION Spec
CONSTANTS
  Accounts = {ash, gary}
  Creatures = {c1}
  Forms = {1, 2, 3}
  Abilities = {"overgrow", "static"}
  Backend = "postgres"
  TradeIDs = {t1}
  Workers = {w1, w2}
  OfferLists <- SingleLists
  TeamLists <- TripleLists
  TeamLimit = 2
  EvolvesTo <- Branch
  EvolveLevel <- BranchGate
  AbilityPool <- BranchPool
  Level <- HighLevel
  AckLoss = TRUE
  Free = Free
  NoReq = NoReq
SYMMETRY RequestSymmetry
INVARIANTS StageStaysValid TeamWellFormed
PROPERTY EvolutionLawful
CHECK_DEADLOCK FALSE
