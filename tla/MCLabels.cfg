SPECIFICATION Spec
CONSTANTS
  Callers = {c1, c2}
  Other = Other
  Values = {v1, v2, v3}
  N = 2
  Restricted = {1}
  Allowed = {v1}
  MaxLabelValues = 2
SYMMETRY CallerSymmetry
INVARIANTS
  NameOrOther
  SeriesBounded
PROPERTIES
  FreeLabelKeepsPromise
