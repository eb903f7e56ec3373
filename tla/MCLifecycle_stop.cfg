SPECIFICATION Spec
CONSTANTS
  Requests = {r1, r2}
  Configs <- Configurations
  CatchAlls = {"*any"}
INVARIANTS
  NothingLostSilently
  OnlyProbesAreUncounted
  NoRouteShadowed
  AdvertisedIsServed
PROPERTIES
  SignalStops
CHECK_DEADLOCK FALSE
