SPECIFICATION EngineSpec
CONSTANTS
  WActions = {1, 2, 3, 4}
  WCalls = {c1, c2}
  MAX_STEPS = 2
  MAX_HOLDERS = 2
  OneAtATime = FALSE
  StepsKept = TRUE
PROPERTY FirstResponderWins
CHECK_DEADLOCK FALSE
