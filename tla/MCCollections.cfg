SPECIFICATION Spec
CONSTANTS
  Attempts = {a1, a2}
  Unparsed = Unparsed
  Calls <- AllCalls
  BasePath <- CMS
  APIURL <- API
  Statuses = {0, 199, 200, 299, 300, 404}
  MaxCollections = 2
SYMMETRY AttemptSymmetry
INVARIANTS
  OnlySuccessIsNamed
  NamesBounded
  KnownKeepsName
  LabelIsCollection
