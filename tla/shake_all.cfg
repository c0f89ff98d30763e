SPECIFICATION FairSpec
CONSTANTS
  Setups <- All
INVARIANTS InStep Agree Private NoGuess
PROPERTIES Ends
CHECK_DEADLOCK FALSE
