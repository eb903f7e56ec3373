SPECIFICATION Spec
CONSTANTS
  MaxText = 10
  MaxChunk = 3
INVARIANTS
  CountsMessages
PROPERTIES
  FirstEventIsTimed
CHECK_DEADLOCK FALSE
