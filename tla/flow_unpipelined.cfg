\* VNC_NO_PIPELINE: the next request follows the decoded update.
SPECIFICATION FairSpec
CONSTANTS
  Screens = {1}
  Size <- OneScreen
  Primary = 1
  NoPick = 0
  Asks = {"resize", "aside"}
  Pipeline = FALSE
  Continuous = FALSE
  Extras = {"pick"}
  MaxExtras = 1
  MaxDraws = 2
  MaxLayouts = 1
  CanDrop = FALSE
  Room = 3
INVARIANTS PipelineBounded NeverStalls
PROPERTIES Converges
