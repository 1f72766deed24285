SPECIFICATION LiveSpec
CONSTANTS
  Parts = {"bus", "publication", "scan", "report", "clock"}
  Events = {e1}
  NoEvent = NoEvent
  Keys = {}
  NoKey = NoKey
  Callers = {c1}
  Sweepers = {s1, s2}
  NHandlers = 2
  MAX_ATTEMPTS = 2
  LEASE = 2
  GRACE = 2
  BACKOFF <- MCBackoff
  Timely = TRUE
  BookkeepingMayFail = TRUE
  Workers = {w1, w2}
  Jobs = {1}
  Prompt = TRUE
  MaxClaims = 4
  Scans = {1, 2}
  Requests = {r1, r2}
  SCAN_ATTEMPTS = 2
  ReadsInLease = TRUE
  Runs = {1, 2}
  Orgs = {1, 2}
  Askers = {1, 2}
  PER_PERSON = 1
  PER_ORG = 2
  LISTED = 1
  MAX_JOBS = 1
  Commanders = {"anna"}
  Editors = {e2}
  Undisturbed = TRUE
  MaxTime = 3
INVARIANTS OneDelivererAtATime RecordedSuccessIsNotRerun OpenEventsCanBeSelected DeadMeansAHandlerFailed
PROPERTIES ProcessedIsFinal EveryEventSettles EveryJobEnds EveryScanEnds EveryRunEnds OverdueIsEscalated
CHECK_DEADLOCK FALSE
