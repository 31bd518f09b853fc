SPECIFICATION Spec
CONSTANTS
  Characters <- MCCharacters
  Profile <- MCProfile
  Profiles <- MCEdits
  MaxName = 3
  MaxDepth = 2
  Foreign <- MCForeign
  Now <- MCNow
  NewNames <- MCNewNames
  LocalTimes <- MCLocalTimes
  NPS = 100
  TPS = 10
  MaxInt = 9
  ZeroSec <- MCZeroSec
  WindowsEpoch <- MCWindowsEpoch
  UsableFrom <- MCUsableFrom
  UsableTo = 4
CONSTRAINT OneAspect
INVARIANTS ListedNameOpens RequestFits
PROPERTIES RoundTripKeepsTime BestTimeWins
