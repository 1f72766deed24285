SPECIFICATION AiSpec
CONSTANTS
  Decisions = {1}
  Facts = {"a", "b"}
  Tiers = {"lower"}
  AiCalls = {c1}
  MaxVersion = 4
PROPERTY MaterialChangeIsTold
CHECK_DEADLOCK FALSE
