SPECIFICATION FairSpec
CONSTANTS
  Keys <- MCKeys
  MaxKeys = 2
INVARIANTS NothingOverlooked NamesOnce
PROPERTIES ListingEnds
