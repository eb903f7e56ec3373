SPECIFICATION Spec
CONSTANTS
  Nil = Nil
  Setups = {s1}
  Dedicated = {}
  Closers = {c1}
  Recorders = {r1}
  Metrics = {m1}
  Gauges = {}
INVARIANTS
  SeriesNamedAfterService
