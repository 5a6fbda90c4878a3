SPECIFICATION Spec
CONSTANTS
  MaxBoots = 1
  MaxAttempts = 2
  MaxPolls = 1
INVARIANTS
  FailedInjectLeavesNoSecret
CHECK_DEADLOCK FALSE
