\* One client, whose first write of a line fails after the host.
SPECIFICATION Spec
CONSTANTS
  Clients = {ann}
  Hosts = {box}
  Prints = {p1, p2, p3}
  MaxChecks = 2
  MaxStops = 0
  MaxFails = 1
INVARIANTS EmptyIsAbsent
CHECK_DEADLOCK FALSE
