SPECIFICATION Spec
CONSTANTS
  Policy = "reject"
  MaxCommits = 2
  FreshIds = TRUE
  Editors = {alice, bob}
  alice = alice
  bob = bob
  MaxEdits = 2
  MaxDrops = 1
  MayFail = FALSE
PROPERTY ReplayShowsFinal
CHECK_DEADLOCK FALSE
