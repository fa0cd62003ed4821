\* Three requests race for two ids; commands fail, or are never
\* answered.
SPECIFICATION FairSpec
CONSTANTS
  i1 = i1
  i2 = i2
  r1 = r1
  r2 = r2
  r3 = r3
  Nobody = Nobody
  Ids = {i1, i2}
  Callers = {r1, r2, r3}
  FreshIds = TRUE
  Faults = {"error", "silence"}
INVARIANTS ManagerTypeOK InTheRoomThatIsFed WatchedRoomIsListed
PROPERTY CallsReturn
CHECK_DEADLOCK FALSE
