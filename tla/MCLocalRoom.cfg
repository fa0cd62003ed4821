\* Two connections that edit, join and leave; refusals, lost sockets and
\* peers that stop reading.
SPECIFICATION FairSpec
CONSTANTS
  c1 = c1
  c2 = c2
  Conns = {c1, c2}
  Writers = {c1, c2}
  Policy = "reject"
  MaxEdits = 2
  Faults = {"reset", "stall"}
INVARIANTS LocalTypeOK TextOnItsWay PresenceOnItsWay NoRoomLeaks
PROPERTY TextArrives
CHECK_DEADLOCK FALSE
