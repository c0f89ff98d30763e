\* What the source says of the mouse and does not keep: by hand, one property at a time.
SPECIFICATION FairWindowSpec
CONSTANTS
  Rects <- Desk
  Win <- Square
  Spots <- Corners
  Buttons = {1}
  MaxMoves = 2
  MaxFrames = 1
  MaxUpsets = 1
PROPERTIES PointerMeetsAfterSwitch ButtonsFollowAlways
CHECK_DEADLOCK FALSE
