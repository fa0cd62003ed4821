SPECIFICATION Spec
CONSTANTS
  Policy = "reject"
  MaxCommits = 3
  FreshIds = TRUE
  Editors = {alice, bob}
  alice = alice
  bob = bob
  MaxEdits = 3
  MaxDrops = 1
  MayFail = FALSE
SYMMETRY PageSymmetry
INVARIANTS EditorTypeOK AcceptedInOrder OverwriteHasCause NoGapShown CursorInLog SettledIsNewest
CHECK_DEADLOCK FALSE
