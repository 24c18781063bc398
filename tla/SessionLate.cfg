SPECIFICATION Spec
CONSTANTS
  Sides = {1, 2}
  Pumps = {"one", "two"}
  PlayerOf <- OneEach
  Actions = {"slot0"}
  Legal = {"slot0"}
  Default = "slot0"
  InboxCap = 2
  NoIntent = NoIntent
  Reading = Reading
PROPERTY LateDropped
