SPECIFICATION Spec
CONSTANTS
  Modes = {TRUE}
  Room = 2
  Chunk = 2
  Handful = 2
  Largest <- BothLarge
  Messages <- Stream
INVARIANTS NoGridlock
CHECK_DEADLOCK FALSE
