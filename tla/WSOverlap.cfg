SPECIFICATION MatchSpec
CONSTANTS
  Players <- BothSides
  Conns = {"a1", "a2"}
  PlayerOf <- OneReconnect
  Gallery = Gallery
  None = None
PROPERTY CatchesUp
