SPECIFICATION Spec
CONSTANTS
  Rows = {1, 2, 3, 4}
  Critical = {1}
  Workers = {w1, w2}
  LEASE = 1
  MAX_ATTEMPTS = 1
  BACKOFF <- MCBackoff
  MAX_AGE = 1
  DAILY_CAP = 1
  CRITICAL_CEILING = 2
  PER_MINUTE = 3
  RETENTION = 2
  LATER = 1
  QUIET = 1
  Answers = {"accepted"}
  MaxTime = 0
  Pace = "pass"
  MayCrash = FALSE
  AdminActs = FALSE
SYMMETRY MCSymmetry
INVARIANTS CapBound
CHECK_DEADLOCK FALSE
