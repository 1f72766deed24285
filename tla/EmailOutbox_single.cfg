SPECIFICATION Spec
CONSTANTS
  Rows = {1, 2}
  Critical = {}
  Workers = {w1}
  LEASE = 1
  MAX_ATTEMPTS = 2
  BACKOFF <- MCBackoff
  MAX_AGE = 2
  DAILY_CAP = 2
  CRITICAL_CEILING = 2
  PER_MINUTE = 1
  RETENTION = 1
  LATER = 1
  QUIET = 1
  Answers = {"logged", "suppressed", "failed", "refused"}
  MaxTime = 2
  Pace = "any"
  MayCrash = TRUE
  AdminActs = TRUE
INVARIANTS TypeOK SendsWithinAttempts
CHECK_DEADLOCK FALSE
