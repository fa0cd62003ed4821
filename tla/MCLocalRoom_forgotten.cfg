\* Two connections of which one joins while the other leaves.
SPECIFICATION Spec
CONSTANTS
  c1 = c1
  c2 = c2
  Conns = {c1, c2}
  Writers = {}
  Policy = "reject"
  MaxEdits = 0
  Faults = {}
INVARIANT RoomInUseIsFound
CHECK_DEADLOCK FALSE
