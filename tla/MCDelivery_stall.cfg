\* One backend, a moving stream and pages of one entry; a peer may stop
\* reading, and sockets break.
SPECIFICATION FairSpec
CONSTANTS
  b1 = b1
  b2 = b2
  c1 = c1
  c2 = c2
  Backends = {b1}
  Conns = {c1, c2}
  Writers = {c1}
  Policy = "reject"
  MaxCommits = 2
  FreshIds = TRUE
  ReadCount = 2
  PageSize = 1
  MaxEdits = 2
  Cursors = {0, 1}
  MaxCrashes = 0
  Faults = {"stall", "reset"}
INVARIANT IInv
PROPERTIES EveryEditArrives ResumeTerminates ReplayFindsNoGap
  ReplayGetsCloser
CHECK_DEADLOCK FALSE
