SPECIFICATION Spec
CONSTANTS
  Accounts = {ash, gary}
  Creatures = {c1, c2}
  Forms = {1}
  Abilities = {"overgrow"}
  Backend = "postgres"
  TradeIDs = {t1, t2}
  Workers = {w1}
  OfferLists <- SingleLists
  TeamLists = {}
  TeamLimit = 6
  EvolvesTo <- NoStage
  EvolveLevel <- Gate1
  AbilityPool <- Pool1
  Level <- HighLevel
  AckLoss = FALSE
  Free = Free
  NoReq = NoReq
SYMMETRY TradeSymmetry
INVARIANTS TypeOK LockCoversOffer StageStaysValid
PROPERTIES OwnershipMovesOnlyInCommit ImplementsEscrow
CHECK_DEADLOCK FALSE
