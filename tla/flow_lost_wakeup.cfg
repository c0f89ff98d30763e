\* Our own client and server, continuous updates on.
SPECIFICATION FairSpec
CONSTANTS
  Screens = {1}
  Size <- OneTile
  Primary = 1
  NoPick = 0
  Asks = {"resize", "continuous"}
  Pipeline = TRUE
  Continuous = TRUE
  Extras = {}
  MaxExtras = 0
  MaxDraws = 2
  MaxLayouts = 0
  CanDrop = FALSE
  Room = 3
PROPERTIES Converges
CHECK_DEADLOCK FALSE
