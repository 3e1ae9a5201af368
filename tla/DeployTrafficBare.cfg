SPECIFICATION Spec
CONSTANTS
  Modes = {"bare"}
  MaxDeploys = 2
INVARIANTS
  StagingPromoted
CHECK_DEADLOCK FALSE
