SPECIFICATION Spec
CONSTANTS
  Results <- MCResults
  Size = 2
  ProgressInterval = 2
  UpdateInterval = 5
  IdleTimeout = 7
  MaxBlock = 7
  MaxRewinds = 0
INVARIANTS StallMeansSilence
CHECK_DEADLOCK FALSE
