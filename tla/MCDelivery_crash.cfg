\* Two backends, one of which may crash, and failing Redis commands.
SPECIFICATION Spec
SYMMETRY NodeSymmetry
CONSTANTS
  b1 = b1
  b2 = b2
  c1 = c1
  c2 = c2
  Backends = {b1, b2}
  Conns = {c1, c2}
  Writers = {c1}
  Policy = "reject"
  MaxCommits = 2
  FreshIds = TRUE
  ReadCount = 2
  PageSize = 2
  MaxEdits = 2
  Cursors = {0, 1}
  MaxCrashes = 1
  Faults = {"redis"}
INVARIANTS
  LogIsTheDocument
  TypeOK InOrderNoGaps HandoffAtBoundary NothingMissedOnJoin SnapshotsOnlyLag
  NoSilentOverwrite
PROPERTIES RoomNeverRegresses KeepsPromise
CHECK_DEADLOCK FALSE
