---------------------------- MODULE MCTelemetry ----------------------------
(* Instances of Telemetry for TLC.  Recorders and metrics are interchangeable  *)
(* in every property; Setups and closers are not, for the liveness          *)
(* properties quantify over them.                                           *)
EXTENDS Telemetry, TLC

RecorderSymmetry == Permutations(Recorders) \cup Permutations(Metrics)

(* `series' is what the providers were given: no guard reads it.              *)
WithoutSeries == <<setupVars, globals, gaugeVars, closeVars, call, current>>
============================================================================
