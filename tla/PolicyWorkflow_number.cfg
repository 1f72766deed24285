SPECIFICATION PolicySpec
CONSTANTS
  PDrafts = {1, 2, 3}
  PVersions = {1, 2}
  Approvals = {1, 2}
  Calls = {c1}
  MaxLock = 3
  Quick = TRUE
INVARIANT TimelyDraftConfirms
CHECK_DEADLOCK FALSE
