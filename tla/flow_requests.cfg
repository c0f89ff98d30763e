\* Requests only (VNC_NO_CONTINUOUS), two regions, a switch of monitor and a change of layout.
SPECIFICATION FairSpec
CONSTANTS
  Screens = {1, 2}
  Size <- TwoScreens
  Primary = 1
  NoPick = 0
  Asks = {"copyrect", "resize", "aside"}
  Pipeline = TRUE
  Continuous = FALSE
  Extras = {"pick"}
  MaxExtras = 1
  MaxDraws = 2
  MaxLayouts = 1
  CanDrop = FALSE
  Room = 2
INVARIANTS FrameIsScreen PipelineBounded NeverStalls
PROPERTIES Converges MirrorsDesktop
