SPECIFICATION Spec
CONSTANTS
  Rows = {1, 2}
  Critical = {1}
  Workers = {w1, w2}
  LEASE = 1
  MAX_ATTEMPTS = 2
  BACKOFF <- MCBackoff
  MAX_AGE = 1
  DAILY_CAP = 2
  CRITICAL_CEILING = 1
  PER_MINUTE = 1
  RETENTION = 2
  LATER = 1
  QUIET = 1
  Answers = {"accepted", "logged", "suppressed", "failed", "refused"}
  MaxTime = 1
  Pace = "pass"
  MayCrash = FALSE
  AdminActs = TRUE
SYMMETRY MCSymmetry
INVARIANTS AcceptedOnce
CHECK_DEADLOCK FALSE
