SPECIFICATION Spec
CONSTANTS
  Nil = Nil
  Setups = {s1, s2}
  Dedicated = {s1, s2}
  Closers = {c1}
  Recorders = {r1, r2}
  Metrics = {m1}
  Gauges = {}
SYMMETRY RecorderSymmetry
VIEW WithoutSeries
INVARIANTS
  CurrentBindingFollowsSetup
  MeasurementReachesSetup
  EnabledMeansUp
  FailedSetupLeavesNothing
