SPECIFICATION GuardSpec
CONSTANTS
  Addrs = {"home"}
  Conns = {c1}
  MaxBackoff = 30
PROPERTIES Escalates
