------------------------------ MODULE MCLabels ------------------------------
(* An instance of Labels for TLC: a metric with a restricted and a free       *)
(* label.  MaxLabelValues is 2 where the code has 100.                        *)
EXTENDS Labels, TLC


\* Label 2 is the free one here.
FreeLabel == INSTANCE BoundedNames
  WITH Names <- Values, Max <- MaxLabelValues, kept <- seen[2], answers <- answers[2]

\* The free label implements BoundedNames: KeepsPromise for one label, since TLC
\* takes neither a quantified nor a parameterised specification as a property.
FreeLabelKeepsPromise == FreeLabel!Spec

CallerSymmetry == Permutations(Callers)
=============================================================================
