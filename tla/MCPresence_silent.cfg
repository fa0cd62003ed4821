\* A peer that vanishes and stops reading while another looks on; a Redis
\* command fails.
SPECIFICATION TimedSpec
CONSTANTS
  b1 = b1
  b2 = b2
  c1 = c1
  c2 = c2
  p1 = p1
  p2 = p2
  Backends = {b1}
  Conns = {c1, c2}
  PageOf <- TwoPages
  Pages = {p1, p2}
  Leavers = {c1, c2}
  Lease = 1
  ReadCount = 2
  MaxCrashes = 0
  MaxFaults = 1
  Faults = {"vanish", "stall"}
PROPERTIES ChangesAreShown
CHECK_DEADLOCK FALSE
