\* A poll between the note of a text and the setting of the clipboard.
SPECIFICATION FairClipSpec
CONSTANTS
  Old <- Before
  Copied <- AnyForm
  ViewOnly = FALSE
  MaxCopies = 2
  MaxOverlaps = 1
  MaxFails = 0
  MaxDrops = 0

PROPERTIES NeverBounced
CHECK_DEADLOCK FALSE
