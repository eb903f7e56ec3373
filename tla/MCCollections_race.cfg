SPECIFICATION Spec
CONSTANTS
  Attempts = {a1, a2}
  Unparsed = Unparsed
  Calls <- RaceCalls
  BasePath <- CMS
  APIURL <- API
  Statuses = {0, 199, 200, 299, 300, 404}
  MaxCollections = 2
PROPERTIES
  ConfirmedKeepsName
