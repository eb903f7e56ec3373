------------------------------- MODULE Labels -------------------------------
(***************************************************************************)
(* The labels of one custom metric, definition.attributes and label.value: *)
(* every Add and Record turns its label values into the attributes of the  *)
(* series it records on.  The set of values a label has seen is shared by  *)
(* all goroutines.  It is read under the read lock and extended, after a   *)
(* second look, under the write lock; a critical section is one step.      *)
(*                                                                         *)
(* A metric has labels 1..N; those in Restricted were declared with the    *)
(* allowed values Allowed, the others keep the first MaxLabelValues.       *)
(***************************************************************************)
EXTENDS Naturals, Sequences, FiniteSets

CONSTANTS Callers,         \* goroutines recording on the metric
          Values,          \* the values they pass, which may include Other
          N,               \* the number of labels of the metric
          Restricted,      \* the labels declared with allowed values
          Allowed,         \* those values
          MaxLabelValues,  \* the cap of a label without allowed values
          Other            \* "_OTHER"

ASSUME LabelsAssumption == N \in Nat /\ Restricted \subseteq 1..N
ASSUME CapAssumption == MaxLabelValues \in Nat

VARIABLES seen,      \* the values each label has let through
          misuse,    \* whether a wrong number of values has been reported
          job,       \* each call: pc, values, label at hand, attributes so far
          answers,   \* history: what value() returned, for each label
          series     \* the attribute sets measurements were recorded on

vars == <<seen, misuse, job, answers, series>>

LabelIds == 1..N
Free     == LabelIds \ Restricted
Outcome  == Values \cup {Other}
NoJob    == [pc |-> "idle", values |-> <<>>, at |-> 1, attrs |-> <<>>]

TypeOK ==
  /\ seen \in [LabelIds -> SUBSET Values]
  /\ misuse \in BOOLEAN
  /\ job \in [Callers -> [pc : {"idle", "label", "insert"}, values : Seq(Values),
                          at : 1..(N + 1), attrs : Seq(Outcome)]]
  /\ \A c \in Callers :
       /\ Len(job[c].attrs) = job[c].at - 1
       /\ job[c].pc # "idle" => Len(job[c].values) = N
       /\ job[c].pc = "insert" => job[c].at \in Free
  /\ answers \in [LabelIds -> SUBSET (Values \X Outcome)]
  /\ series \subseteq Seq(Outcome)

Init ==
  /\ seen = [l \in LabelIds |-> {}]
  /\ misuse = FALSE
  /\ job = [c \in Callers |-> NoJob]
  /\ answers = [l \in LabelIds |-> {}]
  /\ series = {}

----------------------------------------------------------------------------

\* attributes, with one value per label.
Call(c, values) ==
  /\ job[c].pc = "idle"
  /\ job' = [job EXCEPT ![c] = [pc |-> "label", values |-> values,
                                at |-> 1, attrs |-> <<>>]]
  /\ UNCHANGED <<seen, misuse, answers, series>>

\* A wrong number of values: the measurement is dropped, the misuse reported
\* the first time only.
CallMisused(c) ==
  /\ job[c].pc = "idle"
  /\ misuse' = TRUE
  /\ UNCHANGED <<seen, job, answers, series>>

At(c, pc) == job[c].pc = pc /\ job[c].at <= N
Value(c)  == job[c].values[job[c].at]

\* value() returns `a' for the label at hand: on to the next label.
Answer(c, a) ==
  /\ answers' = [answers EXCEPT ![job[c].at] = @ \cup {<<Value(c), a>>}]
  /\ job' = [job EXCEPT ![c] = [pc |-> "label", values |-> @.values,
                                at |-> @.at + 1, attrs |-> Append(@.attrs, a)]]

\* A label with allowed values never changes: no lock.
AnswerAllowed(c) ==
  /\ At(c, "label") /\ job[c].at \in Restricted
  /\ Answer(c, IF Value(c) \in Allowed THEN Value(c) ELSE Other)
  /\ UNCHANGED <<seen, misuse, series>>

\* RLock: a value already seen is let through.
ReadSeen(c) ==
  /\ At(c, "label") /\ job[c].at \in Free
  /\ IF Value(c) \in seen[job[c].at]
       THEN Answer(c, Value(c))
       ELSE job' = [job EXCEPT ![c].pc = "insert"] /\ UNCHANGED answers
  /\ UNCHANGED <<seen, misuse, series>>

\* Variant: no second look, the cap of the write lock decides alone.
InsertSeen_NoSecondLook(c) ==
  /\ At(c, "insert")
  /\ LET l == job[c].at
         v == Value(c)
     IN  \/ /\ Cardinality(seen[l]) >= MaxLabelValues
            /\ Answer(c, Other) /\ UNCHANGED seen
         \/ /\ Cardinality(seen[l]) < MaxLabelValues
            /\ Answer(c, v) /\ seen' = [seen EXCEPT ![l] = @ \cup {v}]
  /\ UNCHANGED <<misuse, series>>

\* Variant: an off-by-one at the cap.
InsertSeen_OneMore(c) ==
  /\ At(c, "insert")
  /\ LET l == job[c].at
         v == Value(c)
     IN  \/ /\ v \notin seen[l] /\ Cardinality(seen[l]) > MaxLabelValues
            /\ Answer(c, Other) /\ UNCHANGED seen
         \/ /\ v \in seen[l] \/ Cardinality(seen[l]) <= MaxLabelValues
            /\ Answer(c, v) /\ seen' = [seen EXCEPT ![l] = @ \cup {v}]
  /\ UNCHANGED <<misuse, series>>

\* Lock: another goroutine may have inserted the value, or taken the last place.
InsertSeen(c) ==
  /\ At(c, "insert")
  /\ LET l == job[c].at
         v == Value(c)
     IN  \/ /\ v \in seen[l]
            /\ Answer(c, v) /\ UNCHANGED seen
         \/ /\ v \notin seen[l] /\ Cardinality(seen[l]) >= MaxLabelValues
            /\ Answer(c, Other) /\ UNCHANGED seen
         \/ /\ v \notin seen[l] /\ Cardinality(seen[l]) < MaxLabelValues
            /\ Answer(c, v) /\ seen' = [seen EXCEPT ![l] = @ \cup {v}]
  /\ UNCHANGED <<misuse, series>>

\* All labels answered: the measurement is recorded.
Measure(c) ==
  /\ job[c].pc = "label" /\ job[c].at = N + 1
  /\ series' = series \cup {job[c].attrs}
  /\ job' = [job EXCEPT ![c] = NoJob]
  /\ UNCHANGED <<seen, misuse, answers>>

Next ==
  \E c \in Callers :
    \/ \E values \in [1..N -> Values] : Call(c, values)
    \/ CallMisused(c)
    \/ AnswerAllowed(c) \/ ReadSeen(c) \/ InsertSeen(c) \/ Measure(c)

Spec == Init /\ [][Next]_vars

----------------------------------------------------------------------------
(* Correctness *)

\* A value is recorded under its own name or as _OTHER, never both: goroutines
\* racing for the last place of a label, or bringing the same new value at
\* once, cannot split the measurements of a value over two series.
NameOrOther ==
  \A l \in LabelIds : \A v \in Values \ {Other} :
    ~(<<v, v>> \in answers[l] /\ <<v, Other>> \in answers[l])

\* The cap holds on what was recorded, whatever the callers pass: besides
\* _OTHER a label has at most MaxLabelValues values, or its allowed ones.
SeriesBounded ==
  \A l \in LabelIds :
    LET recorded == {x[l] : x \in series} \ {Other}
    IN  IF l \in Restricted THEN recorded \subseteq Allowed
                            ELSE Cardinality(recorded) <= MaxLabelValues

\* Each label without allowed values gives the answers BoundedNames promises.
Promise(l) == INSTANCE BoundedNames
  WITH Names <- Values, Max <- MaxLabelValues, kept <- seen[l], answers <- answers[l]

KeepsPromise == \A l \in Free : Promise(l)!Spec
=============================================================================
