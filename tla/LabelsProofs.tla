---------------------------- MODULE LabelsProofs ----------------------------
(* What TLAPS proves of Labels, for any callers, values, labels and cap.      *)
EXTENDS Labels, FiniteSetTheorems, TLAPS

\* Answering moves the call to the next label, with one attribute more.
LEMMA AnswerTyped ==
  ASSUME TypeOK, NEW c \in Callers, job[c].pc # "idle", job[c].at <= N,
         NEW a \in Outcome, Answer(c, a)
  PROVE  /\ job[c].at \in LabelIds /\ Value(c) \in Values
         /\ job' = [job EXCEPT ![c] = [pc |-> "label", values |-> job[c].values,
                                       at |-> job[c].at + 1,
                                       attrs |-> Append(job[c].attrs, a)]]
         /\ job' \in [Callers -> [pc : {"idle", "label", "insert"}, values : Seq(Values),
                                  at : 1..(N + 1), attrs : Seq(Outcome)]]
         /\ \A d \in Callers :
              /\ Len(job'[d].attrs) = job'[d].at - 1
              /\ job'[d].pc # "idle" => Len(job'[d].values) = N
              /\ job'[d].pc = "insert" => job'[d].at \in Free
         /\ answers' \in [LabelIds -> SUBSET (Values \X Outcome)]
<1> USE LabelsAssumption DEF TypeOK, LabelIds
<1>1. job[c].at \in LabelIds /\ Len(job[c].values) = N /\ Value(c) \in Values
  BY DEF Value
<1>2. job' = [job EXCEPT ![c] = [pc |-> "label", values |-> job[c].values,
                                 at |-> job[c].at + 1,
                                 attrs |-> Append(job[c].attrs, a)]]
  BY DEF Answer
<1>3. /\ job[c].at + 1 \in 1..(N + 1)
      /\ Append(job[c].attrs, a) \in Seq(Outcome)
      /\ Len(Append(job[c].attrs, a)) = (job[c].at + 1) - 1
  BY <1>1
<1>4. answers' \in [LabelIds -> SUBSET (Values \X Outcome)]
  <2>1. <<Value(c), a>> \in Values \X Outcome
    BY <1>1
  <2>2. answers' = [answers EXCEPT ![job[c].at] = @ \cup {<<Value(c), a>>}]
    BY DEF Answer
  <2>3. answers[job[c].at] \cup {<<Value(c), a>>} \in SUBSET (Values \X Outcome)
    BY <1>1, <2>1
  <2> QED
    BY <1>1, <2>2, <2>3
<1>5. job' \in [Callers -> [pc : {"idle", "label", "insert"}, values : Seq(Values),
                            at : 1..(N + 1), attrs : Seq(Outcome)]]
  BY <1>1, <1>2, <1>3
<1>6. job'[c].at = job[c].at + 1 /\ job'[c].attrs = Append(job[c].attrs, a)
      /\ job'[c].pc = "label" /\ job'[c].values = job[c].values
  BY <1>2
<1>7. \A d \in Callers : d # c => job'[d] = job[d]
  BY <1>2
<1> QED
  BY <1>1, <1>2, <1>3, <1>4, <1>5, <1>6, <1>7

THEOREM TypeCorrect == Spec => []TypeOK
<1> USE LabelsAssumption DEF LabelIds
<1>1. Init => TypeOK
  <2> SUFFICES ASSUME Init PROVE TypeOK
    OBVIOUS
  <2>1. NoJob \in [pc : {"idle", "label", "insert"}, values : Seq(Values),
                   at : 1..(N + 1), attrs : Seq(Outcome)]
    BY DEF NoJob
  <2>2. \A c \in Callers : job[c] = NoJob
    BY DEF Init
  <2>3. NoJob.pc = "idle" /\ NoJob.at = 1 /\ Len(NoJob.attrs) = 0
    BY DEF NoJob
  <2>4. job \in [Callers -> [pc : {"idle", "label", "insert"}, values : Seq(Values),
                              at : 1..(N + 1), attrs : Seq(Outcome)]]
    BY <2>1 DEF Init
  <2>5. /\ seen \in [LabelIds -> SUBSET Values] /\ misuse \in BOOLEAN
        /\ answers \in [LabelIds -> SUBSET (Values \X Outcome)]
        /\ series \subseteq Seq(Outcome)
    BY DEF Init
  <2> QED
    BY <2>2, <2>3, <2>4, <2>5 DEF TypeOK
<1>2. TypeOK /\ [Next]_vars => TypeOK'
  <2> SUFFICES ASSUME TypeOK, [Next]_vars PROVE TypeOK'
    OBVIOUS
  <2>1. ASSUME NEW c \in Callers, NEW values \in [1..N -> Values], Call(c, values)
        PROVE  TypeOK'
    <3>1. values \in Seq(Values) /\ Len(values) = N
      OBVIOUS
    <3>2. job' = [job EXCEPT ![c] = [pc |-> "label", values |-> values,
                                     at |-> 1, attrs |-> <<>>]]
      BY <2>1 DEF Call
    <3>3. UNCHANGED <<seen, misuse, answers, series>>
      BY <2>1 DEF Call
    <3> QED
      BY <3>1, <3>2, <3>3 DEF TypeOK
  <2>2. ASSUME NEW c \in Callers, CallMisused(c) PROVE TypeOK'
    BY <2>2 DEF TypeOK, CallMisused
  <2>3. ASSUME NEW c \in Callers, AnswerAllowed(c) PROVE TypeOK'
    <3> DEFINE a == IF Value(c) \in Allowed THEN Value(c) ELSE Other
    <3>1. job[c].pc # "idle" /\ job[c].at <= N /\ Answer(c, a)
      BY <2>3 DEF AnswerAllowed, At
    <3>2. a \in Outcome
      BY <3>1 DEF TypeOK, Value, Outcome
    <3> QED
      BY <2>3, <3>1, <3>2, AnswerTyped DEF AnswerAllowed, TypeOK
  <2>4. ASSUME NEW c \in Callers, ReadSeen(c) PROVE TypeOK'
    <3>1. job[c].pc = "label" /\ job[c].at <= N /\ job[c].at \in Free
      BY <2>4 DEF ReadSeen, At
    <3>2. CASE Value(c) \in seen[job[c].at]
      <4>1. Answer(c, Value(c)) /\ Value(c) \in Outcome
        BY <2>4, <3>1, <3>2 DEF ReadSeen, TypeOK, Value, Outcome
      <4> QED
        BY <2>4, <3>1, <4>1, AnswerTyped DEF ReadSeen, TypeOK
    <3>3. CASE Value(c) \notin seen[job[c].at]
      <4>1. job' = [job EXCEPT ![c] = [job[c] EXCEPT !.pc = "insert"]]
        BY <2>4, <3>3 DEF ReadSeen
      <4>2. UNCHANGED <<seen, misuse, answers, series>>
        BY <2>4, <3>3 DEF ReadSeen
      <4> QED
        BY <3>1, <4>1, <4>2 DEF TypeOK
    <3> QED
      BY <3>2, <3>3
  <2>5. ASSUME NEW c \in Callers, InsertSeen(c) PROVE TypeOK'
    <3>1. job[c].pc = "insert" /\ job[c].at <= N /\ Value(c) \in Values
      BY <2>5 DEF InsertSeen, At, TypeOK, Value
    <3>2. PICK a \in Outcome : Answer(c, a)
      BY <2>5, <3>1 DEF InsertSeen, Outcome
    <3>3. seen' \in [LabelIds -> SUBSET Values]
      BY <2>5, <3>1 DEF InsertSeen, TypeOK
    <3> QED
      BY <2>5, <3>1, <3>2, <3>3, AnswerTyped DEF InsertSeen, TypeOK
  <2>6. ASSUME NEW c \in Callers, Measure(c) PROVE TypeOK'
    BY <2>6 DEF TypeOK, Measure, NoJob
  <2>7. CASE UNCHANGED vars
    BY <2>7 DEF vars, TypeOK
  <2> QED
    BY <2>1, <2>2, <2>3, <2>4, <2>5, <2>6, <2>7 DEF Next
<1> QED
  BY <1>1, <1>2, PTL DEF Spec

----------------------------------------------------------------------------
(* The refinement *)

\* What a step does to a label without allowed values: nothing, or one answer.
LEMMA StepAnswers ==
  ASSUME TypeOK, [Next]_vars, NEW l \in Free
  PROVE  \/ UNCHANGED <<seen[l], answers[l]>>
         \/ \E v \in Values :
              Promise(l)!Keep(v) \/ Promise(l)!Reuse(v) \/ Promise(l)!Refuse(v)
<1> USE LabelsAssumption DEF Free, LabelIds
<1>1. ASSUME NEW c \in Callers, NEW values \in [1..N -> Values], Call(c, values)
      PROVE  UNCHANGED <<seen[l], answers[l]>>
  BY <1>1 DEF Call
<1>2. ASSUME NEW c \in Callers, CallMisused(c) PROVE UNCHANGED <<seen[l], answers[l]>>
  BY <1>2 DEF CallMisused
<1>3. ASSUME NEW c \in Callers, AnswerAllowed(c) PROVE UNCHANGED <<seen[l], answers[l]>>
  <2>1. job[c].at # l
    BY <1>3 DEF AnswerAllowed
  <2> QED
    BY <1>3, <2>1 DEF AnswerAllowed, Answer, TypeOK
<1>4. ASSUME NEW c \in Callers, job[c].pc # "idle", job[c].at <= N, NEW a, Answer(c, a)
      PROVE  /\ Value(c) \in Values
             /\ job[c].at \in LabelIds
             /\ job[c].at = l => answers'[l] = answers[l] \cup {<<Value(c), a>>}
             /\ job[c].at # l => answers'[l] = answers[l]
  BY <1>4 DEF Answer, TypeOK, Value
<1>5. ASSUME NEW c \in Callers, ReadSeen(c)
      PROVE  \/ UNCHANGED <<seen[l], answers[l]>>
             \/ Value(c) \in Values /\ Promise(l)!Reuse(Value(c))
  <2>1. job[c].pc # "idle" /\ job[c].at <= N /\ seen' = seen
    BY <1>5 DEF ReadSeen, At
  <2>2. CASE Value(c) \notin seen[job[c].at]
    BY <1>5, <2>2 DEF ReadSeen
  <2>3. CASE Value(c) \in seen[job[c].at]
    <3>1. Answer(c, Value(c))
      BY <1>5, <2>3 DEF ReadSeen
    <3> QED
      BY <1>4, <2>1, <2>3, <3>1 DEF Promise!Reuse
  <2> QED
    BY <2>2, <2>3
<1>6. ASSUME NEW c \in Callers, InsertSeen(c)
      PROVE  \/ UNCHANGED <<seen[l], answers[l]>>
             \/ /\ Value(c) \in Values
                /\ \/ Promise(l)!Keep(Value(c)) \/ Promise(l)!Reuse(Value(c))
                   \/ Promise(l)!Refuse(Value(c))
  <2>1. job[c].pc # "idle" /\ job[c].at <= N
    BY <1>6 DEF InsertSeen, At
  <2>2. CASE Value(c) \in seen[job[c].at] /\ Answer(c, Value(c)) /\ UNCHANGED seen
    BY <1>4, <2>1, <2>2 DEF Promise!Reuse
  <2>3. CASE /\ Value(c) \notin seen[job[c].at]
             /\ Cardinality(seen[job[c].at]) >= MaxLabelValues
             /\ Answer(c, Other) /\ UNCHANGED seen
    <3>1. CASE job[c].at = l
      <4>1. answers'[l] = answers[l] \cup {<<Value(c), Other>>} /\ Value(c) \in Values
        BY <1>4, <2>1, <2>3, <3>1
      <4>2. Promise(l)!Refuse(Value(c))
        BY <2>3, <3>1, <4>1 DEF Promise!Refuse, Promise!Cardinality, Cardinality
      <4> QED
        BY <4>1, <4>2
    <3>2. CASE job[c].at # l
      BY <1>4, <2>1, <2>3, <3>2
    <3> QED
      BY <3>1, <3>2
  <2>4. CASE /\ Value(c) \notin seen[job[c].at]
             /\ Cardinality(seen[job[c].at]) < MaxLabelValues
             /\ Answer(c, Value(c))
             /\ seen' = [seen EXCEPT ![job[c].at] = @ \cup {Value(c)}]
    <3>1. CASE job[c].at = l
      <4>1. answers'[l] = answers[l] \cup {<<Value(c), Value(c)>>} /\ Value(c) \in Values
        BY <1>4, <2>1, <2>4, <3>1
      <4>2. seen'[l] = seen[l] \cup {Value(c)}
        BY <2>4, <3>1 DEF TypeOK
      <4>3. Promise(l)!Keep(Value(c))
        BY <2>4, <3>1, <4>1, <4>2 DEF Promise!Keep, Promise!Cardinality, Cardinality
      <4> QED
        BY <4>1, <4>3
    <3>2. CASE job[c].at # l
      BY <1>4, <2>1, <2>4, <3>2 DEF TypeOK
    <3> QED
      BY <3>1, <3>2
  <2> QED
    BY <1>6, <2>2, <2>3, <2>4 DEF InsertSeen
<1>7. ASSUME NEW c \in Callers, Measure(c) PROVE UNCHANGED <<seen[l], answers[l]>>
  BY <1>7 DEF Measure
<1>8. CASE UNCHANGED vars
  BY <1>8 DEF vars
<1> QED
  BY <1>1, <1>2, <1>3, <1>5, <1>6, <1>7, <1>8 DEF Next

\* Every label without allowed values implements BoundedNames.
THEOREM LabelsKeepPromise == Spec => KeepsPromise
<1> SUFFICES ASSUME NEW l \in Free PROVE Spec => Promise(l)!Spec
  BY DEF KeepsPromise
<1>1. Init => Promise(l)!Init
  BY DEF Init, Promise!Init, Free
<1>2. TypeOK /\ [Next]_vars => [Promise(l)!Next]_<<seen[l], answers[l]>>
  BY StepAnswers DEF Promise!Next
<1> QED
  BY TypeCorrect, <1>1, <1>2, PTL DEF Spec, Promise!Spec

----------------------------------------------------------------------------
(* The inductive invariant *)

\* The attribute values label l may have been given.
LetThrough(l) == {Other} \cup IF l \in Restricted THEN Allowed ELSE seen[l]

\* A label within its cap, and what each answer of it says of it for ever
\* after: a value let through stays, a value refused found the label full.
LabelInv ==
  /\ \A l \in LabelIds : IsFiniteSet(seen[l]) /\ Cardinality(seen[l]) <= MaxLabelValues
  /\ \A l \in Restricted : \A p \in answers[l] :
       p[2] = IF p[1] \in Allowed THEN p[1] ELSE Other
  /\ \A l \in Free : \A p \in answers[l] :
       \/ p[2] = p[1] /\ p[1] \in seen[l]
       \/ p[2] = Other /\ p[1] \notin seen[l] /\ Cardinality(seen[l]) = MaxLabelValues

\* What a call has collected, and what was recorded, got through.
SeriesInv ==
  /\ \A c \in Callers : \A l \in 1..(job[c].at - 1) : job[c].attrs[l] \in LetThrough(l)
  /\ \A x \in series : \A l \in LabelIds : x[l] \in LetThrough(l)

\* What a step does to a label with allowed values.
LEMMA StepAllowed ==
  ASSUME TypeOK, [Next]_vars, NEW l \in Restricted
  PROVE  /\ seen'[l] = seen[l]
         /\ \/ answers'[l] = answers[l]
            \/ \E v \in Values :
                 answers'[l] = answers[l] \cup {<<v, IF v \in Allowed THEN v ELSE Other>>}
<1> USE LabelsAssumption DEF TypeOK, LabelIds
<1>1. ASSUME NEW c \in Callers, NEW a, Answer(c, a), job[c].pc # "idle", job[c].at <= N
      PROVE  /\ Value(c) \in Values
             /\ job[c].at = l => answers'[l] = answers[l] \cup {<<Value(c), a>>}
             /\ job[c].at # l => answers'[l] = answers[l]
  BY <1>1 DEF Answer, Value
<1>2. ASSUME NEW c \in Callers, AnswerAllowed(c)
      PROVE  /\ seen'[l] = seen[l]
             /\ \/ answers'[l] = answers[l]
                \/ \E v \in Values :
                     answers'[l] = answers[l] \cup {<<v, IF v \in Allowed THEN v ELSE Other>>}
  BY <1>1, <1>2 DEF AnswerAllowed, At
<1>3. ASSUME NEW c \in Callers, ReadSeen(c) PROVE seen'[l] = seen[l] /\ answers'[l] = answers[l]
  BY <1>3 DEF ReadSeen, Free, Answer
<1>4. ASSUME NEW c \in Callers, InsertSeen(c) PROVE seen'[l] = seen[l] /\ answers'[l] = answers[l]
  BY <1>4 DEF InsertSeen, At, Free, Answer
<1>5. ASSUME NEW c \in Callers,
             \/ \E values \in [1..N -> Values] : Call(c, values)
             \/ CallMisused(c) \/ Measure(c)
      PROVE  seen'[l] = seen[l] /\ answers'[l] = answers[l]
  BY <1>5 DEF Call, CallMisused, Measure
<1>6. CASE UNCHANGED vars
  BY <1>6 DEF vars
<1> QED
  BY <1>2, <1>3, <1>4, <1>5, <1>6 DEF Next

LEMMA LabelInvCorrect == Spec => []LabelInv
<1> USE LabelsAssumption, CapAssumption DEF LabelIds, Free
<1>1. Init => LabelInv
  BY FS_EmptySet DEF Init, LabelInv
<1>2. TypeOK /\ LabelInv /\ [Next]_vars => LabelInv'
  <2> SUFFICES ASSUME TypeOK, LabelInv, [Next]_vars PROVE LabelInv'
    OBVIOUS
  <2>1. ASSUME NEW l \in Restricted
        PROVE  /\ IsFiniteSet(seen'[l]) /\ Cardinality(seen'[l]) <= MaxLabelValues
               /\ \A p \in answers'[l] : p[2] = IF p[1] \in Allowed THEN p[1] ELSE Other
    BY StepAllowed DEF LabelInv
  <2>2. ASSUME NEW l \in Free
        PROVE  /\ IsFiniteSet(seen'[l]) /\ Cardinality(seen'[l]) <= MaxLabelValues
               /\ \A p \in answers'[l] :
                    \/ p[2] = p[1] /\ p[1] \in seen'[l]
                    \/ /\ p[2] = Other /\ p[1] \notin seen'[l]
                       /\ Cardinality(seen'[l]) = MaxLabelValues
    <3>1. IsFiniteSet(seen[l]) /\ Cardinality(seen[l]) \in Nat
      BY FS_CardinalityType DEF LabelInv
    <3>2. CASE UNCHANGED <<seen[l], answers[l]>>
      BY <3>2 DEF LabelInv
    <3>3. ASSUME NEW v \in Values, Promise(l)!Keep(v)
          PROVE  /\ seen'[l] = seen[l] \cup {v} /\ v \notin seen[l]
                 /\ answers'[l] = answers[l] \cup {<<v, v>>}
                 /\ Cardinality(seen[l]) < MaxLabelValues
      BY <3>3 DEF Promise!Keep, Promise!Cardinality, Cardinality
    <3>4. ASSUME NEW v \in Values, Promise(l)!Keep(v)
          PROVE  /\ IsFiniteSet(seen'[l])
                 /\ Cardinality(seen'[l]) = Cardinality(seen[l]) + 1
      BY <3>1, <3>3, <3>4, FS_AddElement
    <3>5. ASSUME NEW v \in Values, Promise(l)!Reuse(v)
          PROVE  /\ seen'[l] = seen[l] /\ v \in seen[l]
                 /\ answers'[l] = answers[l] \cup {<<v, v>>}
      BY <3>5 DEF Promise!Reuse
    <3>6. ASSUME NEW v \in Values, Promise(l)!Refuse(v)
          PROVE  /\ seen'[l] = seen[l] /\ v \notin seen[l]
                 /\ answers'[l] = answers[l] \cup {<<v, Other>>}
                 /\ Cardinality(seen[l]) >= MaxLabelValues
      BY <3>6 DEF Promise!Refuse, Promise!Cardinality, Cardinality
    <3>7. ASSUME NEW v \in Values, Promise(l)!Keep(v)
          PROVE  /\ Cardinality(seen'[l]) <= MaxLabelValues
                 /\ \A p \in answers[l] : p[2] = p[1] /\ p[1] \in seen'[l]
      BY <3>1, <3>3, <3>4, <3>7 DEF LabelInv
    <3>8. ASSUME NEW v \in Values, Promise(l)!Refuse(v)
          PROVE  Cardinality(seen'[l]) = MaxLabelValues
      BY <3>1, <3>6, <3>8 DEF LabelInv
    <3> QED
      BY <3>2, <3>3, <3>4, <3>5, <3>6, <3>7, <3>8, StepAnswers DEF LabelInv
  <2> QED
    BY <2>1, <2>2 DEF LabelInv
<1> QED
  BY TypeCorrect, <1>1, <1>2, PTL DEF Spec

\* No value is split between its own series and _OTHER, in any interleaving.
THEOREM ValueHasOneName == Spec => []NameOrOther
<1>1. LabelInv => NameOrOther
  BY LabelsAssumption DEF LabelInv, NameOrOther, Free, LabelIds
<1> QED
  BY LabelInvCorrect, <1>1, PTL

\* Labels only ever let more values through.
LEMMA SeenGrows ==
  ASSUME TypeOK, [Next]_vars, NEW l \in LabelIds
  PROVE  LetThrough(l) \subseteq LetThrough(l)'
<1>1. CASE l \in Restricted
  BY <1>1 DEF LetThrough
<1>2. CASE l \in Free
  <2>1. seen[l] \subseteq seen'[l]
    BY <1>2, StepAnswers DEF Promise!Keep, Promise!Reuse, Promise!Refuse
  <2> QED
    BY <1>2, <2>1 DEF LetThrough, Free
<1> QED
  BY <1>1, <1>2 DEF Free

LEMMA SeriesInvCorrect == Spec => []SeriesInv
<1> USE LabelsAssumption
<1>1. Init => SeriesInv
  BY DEF Init, SeriesInv, NoJob
<1>2. TypeOK /\ SeriesInv /\ [Next]_vars => SeriesInv'
  <2> SUFFICES ASSUME TypeOK, SeriesInv, [Next]_vars PROVE SeriesInv'
    OBVIOUS
  <2> DEFINE Collected(c) == \A l \in 1..(job[c].at - 1) : job[c].attrs[l] \in LetThrough(l)
             Recorded == \A x \in series : \A l \in LabelIds : x[l] \in LetThrough(l)
  <2>1. \A c \in Callers : /\ job[c].at \in 1..(N + 1)
                          /\ job[c].attrs \in Seq(Outcome)
                          /\ Len(job[c].attrs) = job[c].at - 1
    BY DEF TypeOK
  <2>2. \A c \in Callers : job'[c].at = job[c].at /\ job'[c].attrs = job[c].attrs => Collected(c)'
    BY <2>1, SeenGrows DEF SeriesInv, LabelIds
  <2>3. series' = series => Recorded'
    BY SeenGrows DEF SeriesInv
  <2>4. ASSUME NEW c \in Callers, job[c].pc # "idle", job[c].at <= N, NEW a \in Outcome,
               Answer(c, a), series' = series,
               a \in {Other} \cup IF job[c].at \in Restricted THEN Allowed ELSE seen'[job[c].at]
        PROVE  SeriesInv'
    <3>1. /\ job'[c].at = job[c].at + 1 /\ job'[c].attrs = Append(job[c].attrs, a)
          /\ \A d \in Callers : d # c => job'[d] = job[d]
      BY <2>4, AnswerTyped DEF TypeOK
    <3>2. ASSUME NEW l \in 1..(job'[c].at - 1) PROVE job'[c].attrs[l] \in LetThrough(l)'
      <4>1. CASE l = job[c].at
        BY <2>1, <2>4, <3>1, <4>1 DEF LetThrough
      <4>2. CASE l # job[c].at
        <5>1. l \in 1..(job[c].at - 1) /\ l \in LabelIds
          BY <2>1, <3>1, <4>2 DEF LabelIds
        <5>2. job'[c].attrs[l] = job[c].attrs[l]
          BY <2>1, <3>1, <5>1
        <5> QED
          BY <5>1, <5>2, SeenGrows DEF SeriesInv
      <4> QED
        BY <4>1, <4>2
    <3>3. Collected(c)'
      BY <3>2
    <3>4. \A d \in Callers : d # c => Collected(d)'
      BY <2>2, <3>1
    <3> QED
      BY <2>3, <2>4, <3>3, <3>4 DEF SeriesInv
  <2>5. ASSUME NEW c \in Callers, NEW values \in [1..N -> Values], Call(c, values)
        PROVE  SeriesInv'
    <3>1. job'[c].at = 1 /\ series' = series /\ \A d \in Callers : d # c => job'[d] = job[d]
      BY <2>5 DEF Call, TypeOK
    <3>2. Collected(c)'
      BY <3>1
    <3>3. \A d \in Callers : d # c => Collected(d)'
      BY <2>2, <3>1
    <3> QED
      BY <2>3, <3>1, <3>2, <3>3 DEF SeriesInv
  <2>6. ASSUME NEW c \in Callers, CallMisused(c) PROVE SeriesInv'
    BY <2>2, <2>3, <2>6 DEF CallMisused, SeriesInv
  <2>7. ASSUME NEW c \in Callers, AnswerAllowed(c) PROVE SeriesInv'
    <3> DEFINE a == IF Value(c) \in Allowed THEN Value(c) ELSE Other
    <3>1. /\ job[c].pc # "idle" /\ job[c].at <= N /\ Answer(c, a) /\ series' = series
          /\ job[c].at \in Restricted
      BY <2>7 DEF AnswerAllowed, At
    <3>2. a \in Outcome
      BY <3>1, AnswerTyped DEF TypeOK, Value, Outcome
    <3>3. a \in {Other} \cup IF job[c].at \in Restricted THEN Allowed ELSE seen'[job[c].at]
      BY <3>1
    <3> QED
      BY <2>4, <3>1, <3>2, <3>3
  <2>8. ASSUME NEW c \in Callers, ReadSeen(c) PROVE SeriesInv'
    <3>1. /\ job[c].pc = "label" /\ job[c].at <= N /\ job[c].at \in LabelIds \ Restricted
          /\ seen' = seen /\ series' = series
      BY <2>8 DEF ReadSeen, At, Free
    <3>2. CASE Value(c) \in seen[job[c].at]
      <4>1. Answer(c, Value(c))
        BY <2>8, <3>2 DEF ReadSeen
      <4>2. Value(c) \in Outcome 
            /\ Value(c) \in {Other} \cup IF job[c].at \in Restricted THEN Allowed ELSE seen'[job[c].at]
        BY <3>1, <3>2 DEF TypeOK, Outcome
      <4> QED
        BY <2>4, <3>1, <4>1, <4>2
    <3>3. CASE Value(c) \notin seen[job[c].at]
      <4>1. job' = [job EXCEPT ![c] = [job[c] EXCEPT !.pc = "insert"]]
        BY <2>8, <3>3 DEF ReadSeen
      <4>2. \A d \in Callers : job'[d].at = job[d].at /\ job'[d].attrs = job[d].attrs
        BY <4>1 DEF TypeOK
      <4> QED
        BY <2>2, <2>3, <3>1, <4>2 DEF SeriesInv
    <3> QED
      BY <3>2, <3>3
  <2>9. ASSUME NEW c \in Callers, InsertSeen(c) PROVE SeriesInv'
    <3>1. /\ job[c].pc = "insert" /\ job[c].at <= N /\ series' = series
          /\ job[c].at \in LabelIds \ Restricted /\ Value(c) \in Values
      BY <2>9 DEF InsertSeen, At, TypeOK, Free, Value, LabelIds
    <3>2. PICK a \in {Value(c), Other} :
            /\ Answer(c, a)
            /\ a = Other \/ a \in seen'[job[c].at]
      BY <2>9, <3>1 DEF InsertSeen, TypeOK
    <3> QED
      BY <2>4, <3>1, <3>2 DEF Outcome
  <2>10. ASSUME NEW c \in Callers, Measure(c) PROVE SeriesInv'
    <3>1. /\ job[c].at = N + 1 /\ series' = series \cup {job[c].attrs} /\ seen' = seen
          /\ job'[c].at = 1 /\ \A d \in Callers : d # c => job'[d] = job[d]
      BY <2>10 DEF Measure, NoJob, TypeOK
    <3>2. \A l \in LabelIds : job[c].attrs[l] \in LetThrough(l)
      BY <3>1 DEF SeriesInv, LabelIds
    <3>3. Recorded'
      BY <3>1, <3>2, SeenGrows DEF SeriesInv
    <3>4. Collected(c)'
      BY <3>1
    <3>5. \A d \in Callers : d # c => Collected(d)'
      BY <2>2, <3>1
    <3> QED
      BY <3>3, <3>4, <3>5 DEF SeriesInv
  <2>11. CASE UNCHANGED vars
    BY <2>2, <2>3, <2>11 DEF vars, SeriesInv
  <2> QED
    BY <2>5, <2>6, <2>7, <2>8, <2>9, <2>10, <2>11 DEF Next
<1> QED
  BY TypeCorrect, <1>1, <1>2, PTL DEF Spec

\* The recorded values of a label stay within its cap.
THEOREM SeriesAreBounded == Spec => []SeriesBounded
<1>1. LabelInv /\ SeriesInv => SeriesBounded
  <2> SUFFICES ASSUME LabelInv, SeriesInv, NEW l \in LabelIds
               PROVE  LET recorded == {x[l] : x \in series} \ {Other}
                      IN  IF l \in Restricted THEN recorded \subseteq Allowed
                                              ELSE Cardinality(recorded) <= MaxLabelValues
    BY DEF SeriesBounded
  <2> DEFINE recorded == {x[l] : x \in series} \ {Other}
  <2>1. CASE l \in Restricted
    BY <2>1 DEF SeriesInv, LetThrough
  <2>2. CASE l \notin Restricted
    <3>1. recorded \subseteq seen[l]
      BY <2>2 DEF SeriesInv, LetThrough
    <3>2. IsFiniteSet(seen[l]) /\ Cardinality(seen[l]) <= MaxLabelValues
      BY DEF LabelInv
    <3>3. /\ Cardinality(recorded) <= Cardinality(seen[l])
          /\ Cardinality(recorded) \in Nat /\ Cardinality(seen[l]) \in Nat
      BY <3>1, <3>2, FS_Subset, FS_CardinalityType
    <3>4. Cardinality(recorded) <= MaxLabelValues
      <4> HIDE DEF recorded
      <4> QED
        BY <3>2, <3>3, CapAssumption
    <3> QED
      BY <2>2, <3>4
  <2> QED
    BY <2>1, <2>2
<1> QED
  BY LabelInvCorrect, SeriesInvCorrect, <1>1, PTL
=============================================================================
