SPECIFICATION FairSpec
CONSTANTS
  Size = 2
  MaxVersion = 2
  MaxAttempts = 3
INVARIANTS OkMeansStored ReadErrorIsCurrent StampNotNewer
PROPERTIES NoUnaskedOverwrite MoveLosesNothing CallEnds TransferRefinement
