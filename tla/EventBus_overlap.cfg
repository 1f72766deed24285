SPECIFICATION Spec
CONSTANTS
  Events = {e1}
  NoEvent = NoEvent
  Keys = {k1}
  NoKey = NoKey
  Callers = {c1}
  Sweepers = {s1, s2}
  NHandlers = 2
  MAX_ATTEMPTS = 2
  LEASE = 1
  GRACE = 1
  BACKOFF <- MCBackoff
  Timely = FALSE
  BookkeepingMayFail = FALSE
SYMMETRY MCSymmetry
INVARIANTS ProcessedMeansEveryHandlerRan
PROPERTIES KeepsPromise
CHECK_DEADLOCK FALSE
