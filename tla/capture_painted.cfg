\* The pointer painted into pictures of Desktop Duplication: by hand.
SPECIFICATION FairSpec
CONSTANTS
  Cells = {"left", "middle", "right"}
  Inks = {"ink", "paper"}
  Sessions <- Painted
  Few = 2
  MaxDraws = 2
  MaxPoints = 3
INVARIANTS OnePointer
