SPECIFICATION ServicesSpec
CONSTANTS
  Parts = {"publication", "scan", "report", "saved", "clock", "risk", "filing", "policy", "campaign", "budget", "workflow", "decision"}
  Jobs = {1}
  Workers = {w1, w2}
  LEASE = 1
  MAX_ATTEMPTS = 2
  BACKOFF <- MCBackoff
  Prompt = TRUE
  MaxClaims = 5
  Scans = {1, 2}
  Requests = {r1, r2, r3}
  Scanners = {w1, w2}
  SCAN_ATTEMPTS = 2
  ReadsInLease = TRUE
  Runs = {1, 2}
  Orgs = {1, 2}
  Askers = {1, 2, 3}
  Person <- MCPerson
  OrgOf <- MCOrgOf
  Generators = {w1, w2}
  PER_PERSON = 1
  PER_ORG = 1
  LISTED = 1
  MAX_JOBS = 1
  Reports = {p1}
  Readers = {c1, c2}
  RSweepers = {w1, w2}
  Notes = {1, 2}
  ShortVisits = TRUE
  Commanders = {"anna", "ben"}
  Editors = {c1, c2}
  Passes = {w1, w2}
  WINDOW <- MCWindow
  Undisturbed = TRUE
  MaxTime = 3
  Proposals = {1, 2}
  Users = {"carol", "dan"}
  Deciders = {c1, c2}
  MaxEdits = 1
  Files = {f1, f2}
  Items = {1, 2, 3}
  Vault = {1}
  Uploads = {c1, c2}
  Discards = {q1}
  NoFile = NoFile
  PDrafts = {1, 2}
  PVersions = {1, 2}
  Approvals = {1, 2, 3}
  Calls = {c1, c2}
  MaxLock = 3
  Quick = TRUE
  EReqs = {t1}
  EPeople = {c1, c2}
  ESweepers = {w1, w2}
  MaxDays = 3
  MaxSteps = 4
  Calm = TRUE
  N = 5
  ALLOWANCE = 2
  Strides = {1}
  MaxDue = 2
  WActions = {1, 2, 3, 4, 5, 6, 7}
  WCalls = {c1, c2}
  MAX_STEPS = 2
  MAX_HOLDERS = 2
  OneAtATime = TRUE
  StepsKept = TRUE
  Decisions = {1, 2}
  Facts = {"a", "b"}
  Tiers = {"higher", "lower"}
  AiCalls = {c1, c2}
  MaxVersion = 2
SYMMETRY MCSymmetry
INVARIANTS TypeOK CompleteMeansPublished OneHolder ServiceTypes OneActiveScan EachRunGeneratedOnce OneCurrentApproval VersionIsWhatWasBuilt OneSubmission OneSuccessor SharesGoRound OneStepWaits ApprovedAsAsked
PROPERTIES CompleteIsFinal HeldIsKept EndedScanStays EndedRunStays EscalatedOnceWhenDue ApprovedAsItIs FiledOnce NoRowWithoutBytes ApprovedOnItsBase AcceptedWhatWasSeen
CHECK_DEADLOCK FALSE
