SPECIFICATION Spec
CONSTANTS
  h1 = h1
  h2 = h2
  a = a
  b = b
  Threads <- TwoThreads
  Names <- TwoNames
  TokenSpace = 4
INVARIANTS OwnSnapshot NoLeakedHandle
PROPERTIES FailureIsTold
