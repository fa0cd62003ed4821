SPECIFICATION Spec
CONSTANTS
  Policy = "reject"
  MaxCommits = 3
  FreshIds = TRUE
  Editors = {alice, bob}
  alice = alice
  bob = bob
  MaxEdits = 3
  MaxDrops = 0
  MayFail = FALSE
SYMMETRY PageSymmetry
INVARIANT OthersNotOverwritten
CHECK_DEADLOCK FALSE
