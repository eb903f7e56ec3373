-------------------------- MODULE CollectionsProofs --------------------------
(* What TLAPS proves of Collections, for any attempts, calls and cap.         *)
EXTENDS Collections, FiniteSetTheorems, SequenceTheorems, WellFoundedInduction, TLAPS

\* A label is a confirmed name or Other; a name is confirmed by a success; an
\* attempt for a name already recorded finds it confirmed.
CollectionsInv ==
  /\ IsFiniteSet(confirmed) /\ Cardinality(confirmed) <= MaxCollections
  /\ confirmed \subseteq succeeded
  /\ recorded \subseteq confirmed \cup {Other}
  /\ \A a \in Attempts :
       /\ attempt[a].label \in confirmed \cup {Other}
       /\ attempt[a].pc = "confirm" => attempt[a].name \in succeeded
       /\ attempt[a].pc = "read" /\ Success(attempt[a].status) => attempt[a].name \in succeeded
       /\ attempt[a].pc \in {"read", "confirm"} /\ attempt[a].known =>
            attempt[a].name \in confirmed \cup {Other}
       /\ attempt[a].pc = "confirm" /\ attempt[a].known => attempt[a].name = Other
  /\ KnownKeepsName

LEMMA TypeCorrect == Spec => []TypeOK
<1> USE CollectionsAssumption DEF TypeOK
<1>1. Init => TypeOK
  BY DEF Init, NoAttempt, Names
<1>2. TypeOK /\ [Next]_vars => TypeOK'
  <2> SUFFICES ASSUME TypeOK, [Next]_vars PROVE TypeOK'
    OBVIOUS
  <2>1. ASSUME NEW a \in Attempts, NEW c \in Calls, NEW s \in Statuses, Begin(a, c, s)
        PROVE  TypeOK'
    BY <2>1 DEF Begin, Names
  <2>2. ASSUME NEW a \in Attempts, Read(a) PROVE TypeOK'
    BY <2>2 DEF Read, Labelled
  <2>3. ASSUME NEW a \in Attempts, Confirm(a) PROVE TypeOK'
    BY <2>3 DEF Confirm, Labelled
  <2>4. ASSUME NEW a \in Attempts, Measure(a) PROVE TypeOK'
    BY <2>4 DEF Measure, NoAttempt, Names
  <2>5. CASE UNCHANGED vars
    BY <2>5 DEF vars
  <2> QED
    BY <2>1, <2>2, <2>3, <2>4, <2>5 DEF Next
<1> QED
  BY <1>1, <1>2, PTL DEF Spec

LEMMA InvCorrect == Spec => []CollectionsInv
<1> USE CollectionsAssumption
<1>1. Init => CollectionsInv
  BY FS_EmptySet DEF Init, CollectionsInv, NoAttempt, KnownKeepsName
<1>2. TypeOK /\ CollectionsInv /\ [Next]_vars => CollectionsInv'
  <2> SUFFICES ASSUME TypeOK, CollectionsInv, [Next]_vars PROVE CollectionsInv'
    OBVIOUS
  <2> USE DEF TypeOK, CollectionsInv, KnownKeepsName
  <2>1. ASSUME NEW a \in Attempts, NEW c \in Calls, NEW s \in Statuses, Begin(a, c, s)
        PROVE  CollectionsInv'
    BY <2>1 DEF Begin, Names
  <2>2. ASSUME NEW a \in Attempts, Read(a) PROVE CollectionsInv'
    BY <2>2 DEF Read, Labelled
  <2>3. ASSUME NEW a \in Attempts, Confirm(a) PROVE CollectionsInv'
    <3>1. Cardinality(confirmed) \in Nat
      BY FS_CardinalityType
    <3>2. CASE Cardinality(confirmed) >= MaxCollections
      BY <2>3, <3>2 DEF Confirm, Labelled
    <3>3. CASE ~(Cardinality(confirmed) >= MaxCollections)
      <4>1. confirmed' = confirmed \cup {attempt[a].name}
        BY <2>3, <3>3 DEF Confirm
      <4>2. IsFiniteSet(confirmed') /\ Cardinality(confirmed') <= MaxCollections
        <5>1. /\ IsFiniteSet(confirmed \cup {attempt[a].name})
              /\ \/ Cardinality(confirmed \cup {attempt[a].name}) = Cardinality(confirmed)
                 \/ Cardinality(confirmed \cup {attempt[a].name}) = Cardinality(confirmed) + 1
          BY FS_AddElement
        <5> QED
          BY <3>1, <3>3, <4>1, <5>1
      <4>3. attempt' = [attempt EXCEPT ![a].pc = "labelled", ![a].label = attempt[a].name]
        BY <2>3, <3>3 DEF Confirm, Labelled
      <4>4. UNCHANGED <<recorded, succeeded>>
        BY <2>3 DEF Confirm
      <4>5. attempt[a].pc = "confirm"
        BY <2>3 DEF Confirm
      <4> QED
        BY <4>1, <4>2, <4>3, <4>4, <4>5
    <3> QED
      BY <3>2, <3>3
  <2>4. ASSUME NEW a \in Attempts, Measure(a) PROVE CollectionsInv'
    BY <2>4 DEF Measure, NoAttempt
  <2>5. CASE UNCHANGED vars
    BY <2>5 DEF vars
  <2> QED
    BY <2>1, <2>2, <2>3, <2>4, <2>5 DEF Next
<1> QED
  BY TypeCorrect, <1>1, <1>2, PTL DEF Spec

\* No invented name is ever a label.
THEOREM OnlySuccessNamed == Spec => []OnlySuccessIsNamed
<1>1. CollectionsInv => OnlySuccessIsNamed
  BY DEF CollectionsInv, OnlySuccessIsNamed
<1> QED
  BY InvCorrect, <1>1, PTL

\* The recorded names stay within the cap.
THEOREM NamesAreBounded == Spec => []NamesBounded
<1>1. CollectionsInv => NamesBounded
  <2> SUFFICES ASSUME CollectionsInv PROVE NamesBounded
    OBVIOUS
  <2>1. recorded \ {Other} \subseteq confirmed
    BY DEF CollectionsInv
  <2>2. IsFiniteSet(confirmed) /\ Cardinality(confirmed) <= MaxCollections
    BY DEF CollectionsInv
  <2>3. /\ Cardinality(recorded \ {Other}) <= Cardinality(confirmed)
        /\ Cardinality(recorded \ {Other}) \in Nat /\ Cardinality(confirmed) \in Nat
    BY <2>1, <2>2, FS_Subset, FS_CardinalityType
  <2> QED
    BY <2>2, <2>3, CollectionsAssumption DEF NamesBounded
<1> QED
  BY InvCorrect, <1>1, PTL

\* A collection that has been named keeps its name.
THEOREM KnownNameKept == Spec => []KnownKeepsName
<1>1. CollectionsInv => KnownKeepsName
  BY DEF CollectionsInv
<1> QED
  BY InvCorrect, <1>1, PTL

----------------------------------------------------------------------------
(* The name of a call *)

IsMin(x, T) == x \in T /\ \A y \in T : x <= y
IsMax(x, T) == x \in T /\ \A y \in T : x >= y

LEMMA MinIs == ASSUME NEW T, T \subseteq Int, NEW x, IsMin(x, T) PROVE Min(T) = x
<1> DEFINE m == Min(T)
<1>1. m = CHOOSE z : IsMin(z, T)
  BY DEF Min, IsMin
<1> HIDE DEF m
<1>2. IsMin(m, T)
  BY <1>1
<1>3. m <= x /\ x <= m /\ m \in Int /\ x \in Int
  BY <1>2 DEF IsMin
<1>4. m = x
  BY <1>3
<1>5. QED
  BY <1>4 DEF m

LEMMA SomeMin == ASSUME NEW T, T \subseteq Nat, T # {} PROVE \E x : IsMin(x, T)
<1>1. PICK x \in T : \A y \in T : ~(<<y, x>> \in OpToRel(<, Nat))
  BY NatLessThanWellFounded, WFMin
<1>2. x \in Nat /\ \A y \in T : y \in Nat /\ ~(y < x)
  BY <1>1 DEF OpToRel
<1>3. \A y \in T : x <= y
  BY <1>2
<1>4. QED
  BY <1>3 DEF IsMin

LEMMA MinOf ==
  ASSUME NEW n \in Nat, NEW T, T \subseteq 1..n, T # {}
  PROVE  Min(T) \in T
<1>1. T \subseteq Nat /\ T \subseteq Int
  OBVIOUS
<1>2. PICK x : IsMin(x, T)
  BY <1>1, SomeMin
<1>3. QED
  BY <1>1, <1>2, MinIs DEF IsMin

LEMMA MaxOf ==
  ASSUME NEW n \in Nat, NEW T, T \subseteq 1..n, T # {}
  PROVE  Max(T) \in T
<1> DEFINE D == {n - t : t \in T}
<1>1. D \subseteq Nat /\ D # {}
  <2>1. \A t \in T : n - t \in Nat
    OBVIOUS
  <2>2. QED
    BY <2>1
<1>2. PICK d : IsMin(d, D)
  <2> HIDE DEF D
  <2>1. QED
    BY <1>1, SomeMin
<1>3. PICK x \in T : d = n - x
  BY <1>2 DEF IsMin
<1>4. ASSUME NEW y \in T PROVE x >= y
  <2>1. n - y \in D
    OBVIOUS
  <2>2. d <= n - y
    BY <1>2, <2>1 DEF IsMin
  <2>3. x \in Int /\ y \in Int
    OBVIOUS
  <2>4. QED
    BY <1>3, <2>2, <2>3
<1>5. IsMax(x, T)
  BY <1>4 DEF IsMax
<1>6. Max(T) = CHOOSE z : IsMax(z, T)
  BY DEF Max, IsMax
<1>7. IsMax(Max(T), T)
  BY <1>5, <1>6
<1>8. QED
  BY <1>7 DEF IsMax

LEMMA TrimType ==
  ASSUME NEW p \in Seq(STRING), p # <<>>, NEW left \in BOOLEAN
  PROVE  Trim(p, left) \in Seq(STRING) /\ (~left => Trim(p, left) # <<>>)
<1> DEFINE names == {i \in DOMAIN p : p[i] # ""}
           first == IF left /\ names # {} THEN Min(names) ELSE 1
           last == Max(names \cup {1})
           n == Len(p)
<1>1. n \in Nat \ {0} /\ DOMAIN p = 1..n /\ \A i \in 1..n : p[i] \in STRING
  BY EmptySeq
<1>2. names \subseteq 1..n
  BY <1>1
<1> HIDE DEF n, names
<1>3. first \in 1..n /\ (~left => first = 1)
  <2>1. names # {} => Min(names) \in 1..n
    BY <1>1, <1>2, MinOf
  <2>2. 1 \in 1..n
    BY <1>1
  <2>3. QED
    BY <2>1, <2>2
<1>4. last \in 1..n
  <2> DEFINE T == names \cup {1}
  <2>1. T \subseteq 1..n /\ T # {}
    BY <1>1, <1>2
  <2> HIDE DEF T
  <2>2. Max(T) \in T
    BY <1>1, <2>1, MaxOf
  <2>3. QED
    BY <2>1, <2>2 DEF T
<1>5. Trim(p, left) = SubSeq(p, first, last)
  BY DEF Trim, names
<1> HIDE DEF first, last
<1>6. \A i \in first..last : p[i] \in STRING
  BY <1>1, <1>3, <1>4
<1>7. /\ SubSeq(p, first, last) \in Seq(STRING)
      /\ Len(SubSeq(p, first, last)) = IF first <= last THEN last - first + 1 ELSE 0
  BY <1>3, <1>4, <1>6, SubSeqProperties
<1>8. ASSUME ~left PROVE Trim(p, left) # <<>>
  <2>1. Len(Trim(p, left)) = last
    BY <1>3, <1>4, <1>5, <1>7, <1>8
  <2>2. QED
    BY <1>4, <2>1
<1>9. QED
  BY <1>5, <1>7, <1>8

LEMMA ApiPathType == apiPath \in Seq(STRING)
<1> DEFINE base == Trim(BasePath, FALSE)
           api == Trim(APIURL, TRUE)
<1>1. base \in Seq(STRING) /\ base # <<>> /\ api \in Seq(STRING)
  BY CallsAssumption, TrimType
<1>2. apiPath = Trim(base \o api, FALSE)
  BY DEF apiPath
<1> HIDE DEF base, api
<1>3. base \o api \in Seq(STRING) /\ base \o api # <<>>
  BY <1>1, ConcatProperties, ConcatEqualIffEmpty
<1>4. QED
  BY <1>2, <1>3, TrimType

LEMMA RestType ==
  ASSUME NEW path \in Seq(STRING)
  PROVE  Rest(path) \in Seq(STRING)
<1>1. Len(apiPath) \in Nat /\ Len(path) \in Nat
  BY ApiPathType
<1>2. \A i \in (Len(apiPath) + 1)..Len(path) : path[i] \in STRING
  BY <1>1, ElementOfSeq
<1>3. QED
  BY <1>1, <1>2, SubSeqProperties DEF Rest

\* The names of a path after k empty ones.
Blank == ""
Filled(p) == {i \in DOMAIN p : p[i] # Blank}

LEMMA NotBlank == "globals" # Blank
  BY DEF Blank

LEMMA FilledAfter ==
  ASSUME NEW n \in Nat, NEW p, DOMAIN p = 1..n, NEW k \in 0..n, \A i \in 1..k : p[i] = Blank
  PROVE  /\ \A i \in Filled(p) : i \in (k + 1)..n
         /\ \A i \in (k + 1)..n : p[i] # Blank => i \in Filled(p)
         /\ k < n /\ p[k + 1] # Blank => Min(Filled(p)) = k + 1
         /\ k + 1 < n /\ p[k + 2] # Blank => Min(Filled(p) \ {k + 1}) = k + 2
<1> DEFINE T == Filled(p)
<1>1. \A i \in T : i \in (k + 1)..n
  BY DEF Filled
<1>2. \A i \in (k + 1)..n : p[i] # Blank => i \in T
  BY DEF Filled
<1> HIDE DEF T
<1>3. ASSUME k < n, p[k + 1] # Blank PROVE Min(T) = k + 1
  <2>1. k + 1 \in (k + 1)..n
    BY <1>3
  <2>2. k + 1 \in T
    BY <1>2, <1>3, <2>1
  <2>3. T \subseteq Int /\ \A y \in T : k + 1 <= y
    BY <1>1
  <2>4. IsMin(k + 1, T)
    BY <2>2, <2>3 DEF IsMin
  <2>5. QED
    BY <2>3, <2>4, MinIs
<1>4. ASSUME k + 1 < n, p[k + 2] # Blank PROVE Min(T \ {k + 1}) = k + 2
  <2> DEFINE U == T \ {k + 1}
  <2>1. k + 2 \in (k + 1)..n /\ k + 2 # k + 1
    BY <1>4
  <2>2. k + 2 \in T
    BY <1>2, <1>4, <2>1
  <2>3. k + 2 \in U /\ U \subseteq Int /\ \A y \in U : k + 2 <= y
    BY <1>1, <2>1, <2>2
  <2> HIDE DEF U
  <2>4. IsMin(k + 2, U)
    BY <2>3 DEF IsMin
  <2>5. Min(U) = k + 2
    BY <2>3, <2>4, MinIs
  <2>6. QED
    BY <2>5 DEF U
<1>5. QED
  BY <1>1, <1>2, <1>3, <1>4 DEF T

\* What a call is of is what its URL is taken for.
LEMMA CallNamed ==
  ASSUME NEW c \in Calls
  PROVE  collectionFromURL(c.path) = c.of
<1>1. CASE c.path = Unparsed \/ ~IsPrefix(apiPath, c.path)
  BY <1>1, CallsAssumption DEF collectionFromURL
<1>2. CASE ~(c.path = Unparsed \/ ~IsPrefix(apiPath, c.path))
  <2> DEFINE p == Rest(c.path)
             n == Len(p)
             T == Filled(p)
             first == Min(T)
             second == Min(T \ {first})
             name == IF T = {} THEN <<"root">>
                     ELSE IF p[first] = "globals" /\ T # {first} THEN <<"globals", p[second]>>
                     ELSE <<p[first]>>
  <2>1. c.path \in Seq(STRING) /\ LeadsTo(p, c.of)
    BY <1>2, CallsAssumption
  <2>2. p \in Seq(STRING)
    BY <2>1, RestType
  <2>3. n \in Nat /\ DOMAIN p = 1..n
    BY <2>2
  <2>4. collectionFromURL(c.path) = name
    BY <1>2 DEF collectionFromURL, Filled, Blank
  <2>5. PICK k \in 0..n :
          /\ \A i \in 1..k : p[i] = Blank
          /\ \/ k = n /\ c.of = <<"root">>
             \/ k < n /\ p[k + 1] \notin {Blank, "globals"} /\ c.of = <<p[k + 1]>>
             \/ /\ k < n /\ p[k + 1] = "globals" /\ c.of = <<"globals">>
                /\ \A i \in (k + 2)..n : p[i] = Blank
             \/ /\ k + 1 < n /\ p[k + 1] = "globals" /\ p[k + 2] # Blank
                /\ c.of = <<"globals", p[k + 2]>>
    BY <2>1 DEF LeadsTo, Blank
  <2> HIDE DEF p, n
  <2>6. /\ \A i \in T : i \in (k + 1)..n
        /\ \A i \in (k + 1)..n : p[i] # Blank => i \in T
        /\ k < n /\ p[k + 1] # Blank => first = k + 1
        /\ k + 1 < n /\ p[k + 2] # Blank => Min(T \ {k + 1}) = k + 2
    BY <2>3, <2>5, FilledAfter
  <2> HIDE DEF T
  <2>7. n \in Nat /\ k \in Nat /\ k <= n
    BY <2>3
  <2>8. CASE k = n /\ c.of = <<"root">>
    <3>1. \A i : i \notin (k + 1)..n
      BY <2>7, <2>8
    <3>2. T = {}
      BY <2>6, <3>1
    <3>3. QED
      BY <2>4, <2>8, <3>2
  <2>9. ASSUME k < n PROVE k + 1 \in (k + 1)..n
    BY <2>7, <2>9
  <2>10. CASE k < n /\ p[k + 1] \notin {Blank, "globals"} /\ c.of = <<p[k + 1]>>
    <3>1. k + 1 \in T /\ first = k + 1
      BY <2>6, <2>9, <2>10
    <3> HIDE DEF first, second
    <3>2. QED
      BY <2>4, <2>10, <3>1
  <2>11. CASE /\ k < n /\ p[k + 1] = "globals" /\ c.of = <<"globals">>
              /\ \A i \in (k + 2)..n : p[i] = Blank
    <3>1. k + 1 \in T /\ first = k + 1
      BY <2>6, <2>9, <2>11, NotBlank
    <3>2. ASSUME NEW i \in T PROVE i = k + 1
      <4>1. i \in (k + 1)..n /\ p[i] # Blank
        BY <2>6 DEF T, Filled
      <4>2. i \notin (k + 2)..n
        BY <2>11, <4>1
      <4>3. QED
        BY <2>7, <4>1, <4>2
    <3>3. T = {first}
      BY <3>1, <3>2
    <3> HIDE DEF first, second
    <3>4. QED
      BY <2>4, <2>11, <3>1, <3>3
  <2>12. CASE /\ k + 1 < n /\ p[k + 1] = "globals" /\ p[k + 2] # Blank
              /\ c.of = <<"globals", p[k + 2]>>
    <3>1. k + 1 < n /\ p[k + 2] # Blank /\ p[k + 1] # Blank
      BY <2>12, NotBlank
    <3>2. k < n /\ k + 2 \in (k + 1)..n /\ k + 2 # k + 1
      BY <2>7, <3>1
    <3>3. first = k + 1 /\ k + 1 \in T /\ k + 2 \in T /\ second = k + 2
      BY <2>6, <2>9, <3>1, <3>2
    <3> HIDE DEF first, second
    <3>4. QED
      BY <2>4, <2>12, <3>2, <3>3
  <2>13. QED
    BY <2>5, <2>8, <2>10, <2>11, <2>12
<1>3. QED
  BY <1>1, <1>2

\* From its beginning to its measurement an attempt is named after its call, and
\* labelled with that name or Other.
NamedInv ==
  \A a \in Attempts : attempt[a].name = attempt[a].of /\ attempt[a].label \in {attempt[a].of, Other}

\* An attempt is measured under the collection its call is of, whatever the URL
\* asks for below it, or under _OTHER.
THEOREM LabelsAreCollections == Spec => []LabelIsCollection
<1>1. Init => NamedInv
  BY DEF Init, NamedInv, NoAttempt
<1>2. TypeOK /\ NamedInv /\ [Next]_vars => NamedInv'
  <2> SUFFICES ASSUME TypeOK, NamedInv, [Next]_vars PROVE NamedInv'
    OBVIOUS
  <2> USE DEF TypeOK, NamedInv
  <2>1. ASSUME NEW a \in Attempts, NEW c \in Calls, NEW s \in Statuses, Begin(a, c, s)
        PROVE  NamedInv'
    BY <2>1, CallNamed DEF Begin
  <2>2. ASSUME NEW a \in Attempts, Read(a) PROVE NamedInv'
    BY <2>2 DEF Read, Labelled
  <2>N. ASSUME NEW a \in Attempts, Confirm(a) PROVE NamedInv'
    BY <2>N DEF Confirm, Labelled
  <2>4. ASSUME NEW a \in Attempts, Measure(a) PROVE NamedInv'
    BY <2>4 DEF Measure, NoAttempt
  <2>5. CASE UNCHANGED vars
    BY <2>5 DEF vars
  <2> QED
    BY <2>1, <2>2, <2>N, <2>4, <2>5 DEF Next
<1>3. NamedInv => LabelIsCollection
  BY DEF NamedInv, LabelIsCollection
<1> QED
  BY TypeCorrect, <1>1, <1>2, <1>3, PTL DEF Spec
=============================================================================
