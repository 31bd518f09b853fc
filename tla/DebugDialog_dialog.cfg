SPECIFICATION EitherSpec
CONSTANTS
  p1 = p1
  p2 = p2
  Profiles <- TwoProfiles
  MaxTests = 2
  MaxOthers = 1
  Activities <- AllActivities
  Capacity = 2
INVARIANTS ResultsComplete ProbesBelongToRun ClickStartsTest ProbesListed OpenAnswers FontsReleased
PROPERTIES PolledTestIsShown TestEnds RecentRefinement
