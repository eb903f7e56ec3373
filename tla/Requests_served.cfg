SPECIFICATION Spec
CONSTANTS
  Nil = Nil
  Requests = {r1}
  Lengths = {0, 3, 4}
  Chunks = {0, 2}
  MaxSteps = 3
  Cap = 3
INVARIANTS
  TypeOK
  ActiveIsInFlight
  OneLinePerRequest
  RecordedAsAnswered
  FailureBodyKept
  BodyIsLoggedAndLeft
PROPERTIES
  StreamOutcomeIsTrue
CHECK_DEADLOCK FALSE
