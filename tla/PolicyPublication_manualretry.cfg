SPECIFICATION Spec
CONSTANTS
  Jobs = {1}
  Workers = {w1}
  LEASE = 1
  MAX_ATTEMPTS = 2
  BACKOFF <- MCBackoff
  Prompt = TRUE
  MaxClaims = 3
SYMMETRY MCSymmetry
INVARIANTS ManualRetryWorks
CHECK_DEADLOCK FALSE
