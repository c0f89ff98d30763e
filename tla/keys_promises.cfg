\* What the source says of the keyboard and does not keep: by hand, one property at a time.
SPECIFICATION Spec
CONSTANTS
  Keys = {"a", "ctrl", "shift", "v"}
  Taps = {}
  Text <- Capital
  Typists = {1, 2}
  MaxPresses = 4
  MaxRepeats = 1
  MaxBlurs = 0
  MaxDrops = 1
INVARIANTS SameSymbol ShiftComesUp PasteOnce Survives SortedOut
PROPERTIES TypedPlain DroppedOffline
CHECK_DEADLOCK FALSE
