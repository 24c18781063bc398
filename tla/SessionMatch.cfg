SPECIFICATION FairSpec
CONSTANTS
  Sides = {1, 2}
  Pumps = {"one", "two", "other"}
  PlayerOf <- Visited
  Actions = {"slot0", "bad"}
  Legal = {"slot0"}
  Default = "slot0"
  InboxCap = 1
  NoIntent = NoIntent
  Reading = Reading
INVARIANTS TypeOK MatchClosed
PROPERTIES FirstIntentWins TurnsKeepComing SubmitReturns ImplementsMatch
