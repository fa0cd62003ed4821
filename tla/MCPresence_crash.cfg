\* Two backends, one of which may crash: leases lapse, renewals, sweeps and
\* leaves are late, and a Redis command fails.
SPECIFICATION TimedSpec
CONSTANTS
  b1 = b1
  b2 = b2
  c1 = c1
  c2 = c2
  p1 = p1
  p2 = p2
  Backends = {b1, b2}
  Conns = {c1}
  PageOf <- OneConn
  Pages = {p1}
  Leavers = {c1}
  Lease = 2
  ReadCount = 2
  MaxCrashes = 1
  MaxFaults = 1
  Faults = {"lapse", "vanish", "stall"}
INVARIANTS PresenceTypeOK RevisionNamesMembers NoResurrection
PROPERTIES EndedLeave UnlistedAreClosed
CHECK_DEADLOCK FALSE
