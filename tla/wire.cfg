SPECIFICATION FairSpec
CONSTANTS
  Modes = {TRUE, FALSE}
  Room = 3
  Chunk = 2
  Handful = 2
  Largest <- FramesLarge
  Messages <- Dialogue
PROPERTIES Implements AllHeard
CHECK_DEADLOCK FALSE
