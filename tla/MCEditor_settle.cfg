SPECIFICATION FairSpec
CONSTANTS
  Policy = "reject"
  MaxCommits = 2
  FreshIds = TRUE
  Editors = {alice, bob}
  alice = alice
  bob = bob
  MaxEdits = 2
  MaxDrops = 1
  MayFail = TRUE
PROPERTY Converges
CHECK_DEADLOCK FALSE
