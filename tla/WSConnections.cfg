SPECIFICATION MatchSpec
CONSTANTS
  Players <- BothSides
  Conns = {"a1", "a2", "a3", "b1"}
  PlayerOf <- Sockets
  Gallery = Gallery
  None = None
INVARIANTS TypeOK NoZombie
PROPERTY RegisteredCatchUp
