SPECIFICATION GuardSpec
CONSTANTS
  Addrs = {"home", "away"}
  Conns = {c1, c2, c3}
  MaxBackoff = 6
SYMMETRY Perms
INVARIANTS NoLockout
PROPERTIES Forgets Served
