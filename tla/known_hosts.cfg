\* Two clients and two servers, three certificates, two failures, a restart.
SPECIFICATION Spec
CONSTANTS
  Clients = {ann, bob}
  Hosts = {box, pad}
  Prints = {p1, p2, p3}
  MaxChecks = 3
  MaxStops = 1
  MaxFails = 2
SYMMETRY Alike
INVARIANTS NoFalseAlarm
PROPERTIES Pinned
CHECK_DEADLOCK FALSE
