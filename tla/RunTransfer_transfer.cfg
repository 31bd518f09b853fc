SPECIFICATION FairSpec
CONSTANTS
  Results <- MCResults
  Size = 2
  ProgressInterval = 2
  UpdateInterval = 5
  IdleTimeout = 8
  MaxBlock = 4
  MaxRewinds = 1
INVARIANTS StallBound StallNoticed CancelResponsive
PROPERTIES Returns Refinement
CHECK_DEADLOCK FALSE
