SPECIFICATION Spec
CONSTANTS
  Depth = 3
  MaxFrames = 3
  Statuses = {200, 404, 504}
  None = None
  Clean = Clean
  Dirty = Dirty
INVARIANTS
  TypeOK
  HopIsTraceable
  ToldAsHappened
  SuccessIsWhole
PROPERTIES
  RequestsEnd
CHECK_DEADLOCK FALSE
