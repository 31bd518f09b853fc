SPECIFICATION FairSpec
CONSTANTS
  Size = 2
  MaxVersion = 2
  Dated <- OnlySecond
INVARIANTS DestinationWhole StatusTellsDelivery StampMatchesContent
PROPERTIES NoUnaskedOverwrite MoveLosesNothing CallEnds TransferRefinement
