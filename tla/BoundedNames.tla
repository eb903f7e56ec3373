---------------------------- MODULE BoundedNames ----------------------------
(***************************************************************************)
(* What a metric label promises about the names it lets through: the first *)
(* Max distinct ones are kept for ever, every other one is answered as     *)
(* Other, and a name is refused only when the label is full.  One answer   *)
(* is one step, however many goroutines ask.                               *)
(***************************************************************************)
EXTENDS Naturals, FiniteSets

CONSTANTS Names, Max, Other

VARIABLES kept,     \* the names let through
          answers   \* every answer given so far: <<name, answer>>

Init == kept = {} /\ answers = {}

\* A new name, while there is room for it.
Keep(n) ==
  /\ n \notin kept /\ Cardinality(kept) < Max
  /\ kept' = kept \cup {n}
  /\ answers' = answers \cup {<<n, n>>}

\* A name kept earlier.
Reuse(n) ==
  /\ n \in kept
  /\ answers' = answers \cup {<<n, n>>}
  /\ UNCHANGED kept

\* A new name when the label is full.
Refuse(n) ==
  /\ n \notin kept /\ Cardinality(kept) >= Max
  /\ answers' = answers \cup {<<n, Other>>}
  /\ UNCHANGED kept

Next == \E n \in Names : Keep(n) \/ Reuse(n) \/ Refuse(n)

Spec == Init /\ [][Next]_<<kept, answers>>
=============================================================================
