SPECIFICATION FairSpec
CONSTANTS
  Cells = {"left", "middle", "right"}
  Inks = {"ink", "paper"}
  Sessions <- Kinds
  Few = 2
  MaxDraws = 2
  MaxPoints = 2
INVARIANTS InSync
PROPERTIES Converges Repainted
