SPECIFICATION Spec
CONSTANTS
  Nil = Nil
  Setups = {s1, s2}
  Dedicated = {s1}
  Closers = {c1, c2}
  Recorders = {}
  Metrics = {}
  Gauges = {g1}
INVARIANTS
  GaugesFollowSetup
  ShutdownComplete
PROPERTIES
  OnlyOwnShutdownUninstalls
  CallsReturn
  PortIsFreed
CHECK_DEADLOCK FALSE
