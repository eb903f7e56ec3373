SPECIFICATION Spec
CONSTANTS
  MaxDocs = 6
  Documents <- Listings
  Pages <- Ints
  Limits <- Ints
  DefaultLimit = 2
  MaxLimit = 4
  MaxInt = 15
INVARIANTS
  TypeOK
  PageDescribesItself
  WalkSeesAll
  ExistingPageIsCut
PROPERTIES
  WalkEnds
CHECK_DEADLOCK FALSE
