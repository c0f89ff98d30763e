\* Continuous updates and a client that switches, refreshes, changes format or disables; the connection may break.
SPECIFICATION FairSpec
CONSTANTS
  Screens = {1, 2}
  Size <- TwoScreens
  Primary = 1
  NoPick = 0
  Asks = {"copyrect", "resize", "continuous"}
  Pipeline = TRUE
  Continuous = TRUE
  Extras = {"pick", "full", "format", "stop"}
  MaxExtras = 1
  MaxDraws = 1
  MaxLayouts = 0
  CanDrop = TRUE
  Room = 2
INVARIANTS TypeOK InSync OneLateFrame Decodable
PROPERTIES DropEndsAll ConvergesUnlessParked
CHECK_DEADLOCK FALSE
