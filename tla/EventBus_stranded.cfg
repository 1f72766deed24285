SPECIFICATION Spec
CONSTANTS
  Events = {e1}
  NoEvent = NoEvent
  Keys = {}
  NoKey = NoKey
  Callers = {c1}
  Sweepers = {s1, s2}
  NHandlers = 2
  MAX_ATTEMPTS = 2
  LEASE = 2
  GRACE = 2
  BACKOFF <- MCBackoff
  Timely = FALSE
  BookkeepingMayFail = FALSE
SYMMETRY MCSymmetry
INVARIANTS OpenEventsCanBeSelected
CHECK_DEADLOCK FALSE
