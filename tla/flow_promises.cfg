\* By hand, one property at a time: what the source says of a session and does not keep.
\* The pixel format changes, continuous updates are turned off, a session starts, and the
\* resolution changes under a client that did not ask for DesktopSize.
SPECIFICATION FairSpec
CONSTANTS
  Screens = {1, 2}
  Size <- TwoScreens
  Primary = 1
  NoPick = 0
  Asks = {"continuous"}
  Pipeline = TRUE
  Continuous = TRUE
  Extras = {"format", "stop"}
  MaxExtras = 2
  MaxDraws = 1
  MaxLayouts = 1
  CanDrop = FALSE
  Room = 3
INVARIANTS NextUpdateIsFull LastUpdateBeforeReply NothingBeforeRequest
PROPERTIES SessionEnds
CHECK_DEADLOCK FALSE
