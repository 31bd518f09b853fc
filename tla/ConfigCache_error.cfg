SPECIFICATION Spec
CONSTANTS
  t1 = t1
  t2 = t2
  Threads <- OneThread
  MaxVersion = 1
  Valid <- AllVersions
  SameStamp = FALSE
  Resets = FALSE
INVARIANTS ErrorIsCurrent
