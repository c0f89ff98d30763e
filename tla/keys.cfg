SPECIFICATION FairSpec
CONSTANTS
  Keys = {"a", "ctrl", "shift", "altgr", "v"}
  Taps = {"v", "shift"}
  Text <- Capital
  Typists = {1}
  MaxPresses = 3
  MaxRepeats = 1
  MaxBlurs = 1
  MaxDrops = 1
INVARIANTS NothingStuck AltGrPlain SymbolKept
PROPERTIES HandsOff
CHECK_DEADLOCK FALSE
