SPECIFICATION Spec
CONSTANTS
  Rows = {1, 2}
  Critical = {1}
  Workers = {w1, w2}
  LEASE = 1
  MAX_ATTEMPTS = 2
  BACKOFF <- MCBackoff
  MAX_AGE = 2
  DAILY_CAP = 2
  CRITICAL_CEILING = 2
  PER_MINUTE = 1
  RETENTION = 9
  LATER = 1
  QUIET = 1
  Answers = {"accepted", "logged", "suppressed", "failed", "refused"}
  MaxTime = 3
  Pace = "message"
  MayCrash = FALSE
  AdminActs = TRUE
SYMMETRY MCSymmetry
INVARIANTS AcceptedOnce
CHECK_DEADLOCK FALSE
