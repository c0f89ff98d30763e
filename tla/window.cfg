\* Three movements of the mouse, a frame, and a broken link or another monitor.
SPECIFICATION FairWindowSpec
CONSTANTS
  Rects <- Desk
  Win <- Square
  Spots <- Corners
  Buttons = {1}
  MaxMoves = 3
  MaxFrames = 1
  MaxUpsets = 1
INVARIANTS CleanFrame
PROPERTIES LastFrameDrawn MouseFollows
CHECK_DEADLOCK FALSE
