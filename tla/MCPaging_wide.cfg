SPECIFICATION Spec
CONSTANTS
  MaxDocs = 3
  Documents <- Listings
  Pages <- Ints
  Limits <- Ints
  DefaultLimit = 2
  MaxLimit = 3
  MaxInt = 7
INVARIANTS
  PageIsCut
CHECK_DEADLOCK FALSE
