SPECIFICATION Spec
CONSTANTS
  t1 = t1
  t2 = t2
  Threads <- TwoThreads
  MaxVersion = 3
  Valid <- AllButSecond
  SameStamp = TRUE
  Resets = TRUE
SYMMETRY Alike
INVARIANTS CallReflectsIni CacheCoherent
