\* Two copies at either end, one overlap of a poll and a paste, one broken connection.
SPECIFICATION FairClipSpec
CONSTANTS
  Old <- Before
  Copied <- AnyForm
  ViewOnly = FALSE
  MaxCopies = 2
  MaxOverlaps = 1
  MaxFails = 1
  MaxDrops = 1
PROPERTIES NotBounced GoesQuiet LastCopyWins
CHECK_DEADLOCK FALSE
