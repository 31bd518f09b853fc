SPECIFICATION Spec
CONSTANTS
  Keys <- MCKeys
  MaxKeys = 2
INVARIANTS FoldersShown
