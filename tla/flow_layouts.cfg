\* By hand: the client switches monitor while the layout changes, continuous updates on.
SPECIFICATION FairSpec
CONSTANTS
  Screens = {1, 2}
  Size <- TwoScreens
  Primary = 1
  NoPick = 0
  Asks = {"copyrect", "resize", "continuous"}
  Pipeline = TRUE
  Continuous = TRUE
  Extras = {"pick"}
  MaxExtras = 1
  MaxDraws = 1
  MaxLayouts = 1
  CanDrop = FALSE
  Room = 2
INVARIANTS InSync Decodable FrameIsScreen
PROPERTIES ConvergesUnlessParked MirrorsDesktop
CHECK_DEADLOCK FALSE
