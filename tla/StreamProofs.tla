---------------------------- MODULE StreamProofs ----------------------------
(* Proofs about Stream, for texts and writes of any length. *)
EXTENDS Stream, FiniteSetTheorems, SequenceTheorems, WellFoundedInduction, TLAPS

Writers == [newlines : Nat, events : Nat, firstEvent : Nat]

\* Induction up to n, over a set in place of a predicate.
LEMMA UpTo ==
  ASSUME NEW n \in Nat, NEW S, 0 \in S, \A i \in 1..n : i - 1 \in S => i \in S
  PROVE  0..n \subseteq S
<1> DEFINE T == (0..n) \ S
<1>1. SUFFICES ASSUME T # {} PROVE FALSE
  OBVIOUS
<1>2. T \subseteq Nat
  OBVIOUS
<1> HIDE DEF T
<1>3. PICK x \in T : \A y \in T : ~(<<y, x>> \in OpToRel(<, Nat))
  BY <1>1, <1>2, NatLessThanWellFounded, WFMin
<1>4. \A y \in T : ~(y < x)
  BY <1>2, <1>3 DEF OpToRel
<1>5. x \in 1..n /\ x - 1 \notin T /\ x \notin S
  BY <1>4 DEF T
<1>6. x - 1 \in S
  BY <1>5 DEF T
<1>7. QED
  BY <1>5, <1>6

\* The functions on 0..n that begin with w and go on as F says.
Runs(n, W, w, F) ==
  {g \in [0..n -> W] : g[0] = w /\ \A i \in 1..n : g[i] = F[i][g[i - 1]]}

LEMMA Recursion ==
  ASSUME NEW n \in Nat, NEW W, NEW w \in W, NEW F \in [1..n -> [W -> W]]
  PROVE  Runs(n, W, w, F) # {}
<1> DEFINE Upto(k, g) == g[0] = w /\ \A i \in 1..k : g[i] = F[i][g[i - 1]]
           S == {k \in 0..n : \E g \in [0..n -> W] : Upto(k, g)}
<1>1. 0 \in S
  <2>1. [i \in 0..n |-> w] \in [0..n -> W] /\ Upto(0, [i \in 0..n |-> w])
    OBVIOUS
  <2> HIDE DEF Upto
  <2>2. \E g \in [0..n -> W] : Upto(0, g)
    BY <2>1
  <2>3. QED
    BY <2>2
<1>2. ASSUME NEW k \in 1..n, k - 1 \in S PROVE k \in S
  <2>1. PICK g \in [0..n -> W] : Upto(k - 1, g)
    BY <1>2
  <2> DEFINE h == [g EXCEPT ![k] = F[k][g[k - 1]]]
  <2>2. h \in [0..n -> W]
    OBVIOUS
  <2>3. Upto(k, h)
    <3>1. h[0] = w
      BY <2>1
    <3>2. ASSUME NEW i \in 1..k PROVE h[i] = F[i][h[i - 1]]
      <4>1. h[i - 1] = g[i - 1]
        OBVIOUS
      <4>2. CASE i = k
        BY <4>1, <4>2
      <4>3. CASE i # k
        <5>1. i \in 1..(k - 1) /\ h[i] = g[i]
          BY <4>3
        <5>2. QED
          BY <2>1, <4>1, <5>1
      <4>4. QED
        BY <4>2, <4>3
    <3>3. QED
      BY <3>1, <3>2
  <2> HIDE DEF Upto, h
  <2>4. \E x \in [0..n -> W] : Upto(k, x)
    BY <2>2, <2>3
  <2>5. QED
    BY <2>4
<1>3. n \in S
  <2> HIDE DEF S
  <2>1. 0..n \subseteq S
    BY <1>1, <1>2, UpTo
  <2>2. QED
    BY <2>1
<1>4. QED
  BY <1>3 DEF Runs

LEMMA ByteType ==
  ASSUME NEW w \in Writers, NEW b \in Bytes, NEW now \in Nat
  PROVE  ObserveByte(w, b, now) \in Writers
  BY DEF ObserveByte, Writers, Bytes

\* The writer after each byte of a write, and after the last of them.
Observed(w, bytes, now) ==
  {a \in [0..Len(bytes) -> Writers] :
     /\ a[0] = w
     /\ \A i \in 1..Len(bytes) : a[i] = ObserveByte(a[i - 1], bytes[i], now)
     /\ Observe(w, bytes, now) = a[Len(bytes)]}

LEMMA ObserveSteps ==
  ASSUME NEW w \in Writers, NEW bytes \in Seq(Bytes), NEW now \in Nat
  PROVE  Observed(w, bytes, now) # {}
<1> DEFINE n == Len(bytes)
           F == [i \in 1..n |-> [x \in Writers |-> ObserveByte(x, bytes[i], now)]]
           Follows(h) == h = [i \in 0..n |-> IF i = 0 THEN w ELSE ObserveByte(h[i - 1], bytes[i], now)]
           after == CHOOSE h : Follows(h)
<1>1. n \in Nat /\ \A i \in 1..n : bytes[i] \in Bytes
  OBVIOUS
<1> HIDE DEF n
<1>2. \A i \in 1..n, x \in Writers : ObserveByte(x, bytes[i], now) \in Writers
  BY <1>1, ByteType
<1>3. F \in [1..n -> [Writers -> Writers]]
  BY <1>2
<1>4. \A i \in 1..n, x \in Writers : F[i][x] = ObserveByte(x, bytes[i], now)
  OBVIOUS
<1> HIDE DEF F
<1>5. PICK g \in [0..n -> Writers] : g[0] = w /\ \A i \in 1..n : g[i] = F[i][g[i - 1]]
  <2>1. Runs(n, Writers, w, F) # {}
    BY <1>1, <1>3, Recursion
  <2>2. QED
    BY <2>1 DEF Runs
<1>6. \A i \in 1..n : g[i] = ObserveByte(g[i - 1], bytes[i], now)
  <2>1. \A i \in 1..n : g[i - 1] \in Writers
    BY <1>1
  <2>2. QED
    BY <1>4, <1>5, <2>1
<1>7. Follows(g)
  BY <1>5, <1>6
<1>8. Follows(after)
  <2> HIDE DEF Follows
  <2>1. QED
    BY <1>7
<1>9. Observe(w, bytes, now) = after[n]
  BY DEF Observe, n
<1> HIDE DEF after
<1>10. /\ DOMAIN after = 0..n /\ after[0] = w
       /\ \A i \in 1..n : after[i] = ObserveByte(after[i - 1], bytes[i], now)
  BY <1>1, <1>8
<1>11. \A i \in 0..n : after[i] \in Writers
  <2> DEFINE S == {i \in 0..n : after[i] \in Writers}
  <2>1. 0 \in S
    BY <1>1, <1>10
  <2>2. ASSUME NEW i \in 1..n, i - 1 \in S PROVE i \in S
    BY <2>2, <1>1, <1>10, ByteType
  <2> HIDE DEF S
  <2>3. 0..n \subseteq S
    BY <2>1, <2>2, <1>1, UpTo
  <2>4. QED
    BY <2>3 DEF S
<1>12. after \in [0..n -> Writers]
  BY <1>8, <1>10, <1>11
<1>13. QED
  BY <1>9, <1>10, <1>12 DEF n, Observed

----------------------------------------------------------------------------
(* Lines *)

StartsAt(t, i, s) == /\ s = 1 \/ t[s - 1] = "LF"
                     /\ \A k \in s..(i - 1) : t[k] # "LF"

\* Every place is in one line.
LEMMA OneStart ==
  ASSUME NEW t, NEW i \in Nat \ {0}
  PROVE  /\ LineStart(t, i) \in 1..i /\ StartsAt(t, i, LineStart(t, i))
         /\ \A s \in 1..i : StartsAt(t, i, s) => s = LineStart(t, i)
<1> DEFINE S == {j \in 0..(i - 1) : \E s \in 1..(j + 1) : StartsAt(t, j + 1, s)}
<1>1. 0 \in S
  <2>1. 1 \in 1..(0 + 1) /\ StartsAt(t, 0 + 1, 1)
    BY DEF StartsAt
  <2>2. QED
    BY <2>1
<1>2. ASSUME NEW j \in 1..(i - 1), j - 1 \in S PROVE j \in S
  <2>1. PICK s \in 1..j : StartsAt(t, j, s)
    BY <1>2
  <2>2. CASE t[j] = "LF"
    <3>1. StartsAt(t, j + 1, j + 1)
      BY <2>2 DEF StartsAt
    <3>2. QED
      BY <3>1
  <2>3. CASE t[j] # "LF"
    <3>1. StartsAt(t, j + 1, s)
      BY <2>1, <2>3 DEF StartsAt
    <3>2. QED
      BY <3>1
  <2>4. QED
    BY <2>2, <2>3
<1>3. i - 1 \in S
  <2> HIDE DEF S
  <2>1. i - 1 \in Nat
    OBVIOUS
  <2>2. 0..(i - 1) \subseteq S
    BY <1>1, <1>2, <2>1, UpTo
  <2>3. QED
    BY <2>1, <2>2
<1>4. PICK first \in 1..i : StartsAt(t, i, first)
  BY <1>3
<1>5. LineStart(t, i) = CHOOSE s \in 1..i : StartsAt(t, i, s)
  BY DEF LineStart, StartsAt
<1>6. LineStart(t, i) \in 1..i /\ StartsAt(t, i, LineStart(t, i))
  BY <1>4, <1>5
<1>7. ASSUME NEW s \in 1..i, NEW u \in 1..i, StartsAt(t, i, s), StartsAt(t, i, u), s < u
      PROVE  FALSE
  <2>1. u - 1 \in s..(i - 1) /\ u # 1
    BY <1>7
  <2>2. QED
    BY <2>1, <1>7 DEF StartsAt
<1>8. QED
  BY <1>6, <1>7

\* What is said of a place depends on what is before it only.
LEMMA SameLines ==
  ASSUME NEW t, NEW u, NEW i \in Nat \ {0}, \A k \in 1..(i - 1) : t[k] = u[k]
  PROVE  LineStart(t, i) = LineStart(u, i) /\ (IsBlank(t, i) <=> IsBlank(u, i))
<1> DEFINE s == LineStart(t, i)
<1>1. s \in 1..i /\ StartsAt(t, i, s)
  BY OneStart
<1> HIDE DEF s
<1>2. StartsAt(u, i, s)
  BY <1>1 DEF StartsAt
<1>3. s = LineStart(u, i)
  BY <1>1, <1>2, OneStart
<1>4. QED
  BY <1>1, <1>3 DEF IsBlank, s

\* The line the next byte is in: blank so far, and after a line that is not.
Blank(t) == IsBlank(t, Len(t) + 1)
Parted(t) == \E j \in LineFeeds(t) : j + 1 = LineStart(t, Len(t) + 1) /\ ~IsBlank(t, j)

LEMMA NextByte ==
  ASSUME NEW t \in Seq(Bytes), NEW b \in Bytes
  PROVE  LET u == Append(t, b) IN
         /\ MessageEnds(u) = MessageEnds(t) \cup
              (IF b = "LF" /\ Blank(t) /\ Parted(t) THEN {Len(t) + 1} ELSE {})
         /\ b = "LF" => Blank(u) /\ (Parted(u) <=> ~Blank(t))
         /\ b # "LF" => (Blank(u) <=> Blank(t) /\ b = "CR") /\ (Parted(u) <=> Parted(t))
<1> DEFINE u == Append(t, b)
           n == Len(t)
<1>1. /\ n \in Nat /\ Len(u) = n + 1 /\ DOMAIN t = 1..n /\ DOMAIN u = 1..(n + 1)
      /\ u[n + 1] = b /\ \A i \in 1..n : u[i] = t[i]
  OBVIOUS
<1> HIDE DEF u, n
<1>2. \A i \in 1..(n + 1) :
        LineStart(u, i) = LineStart(t, i) /\ (IsBlank(u, i) <=> IsBlank(t, i))
  <2> TAKE i \in 1..(n + 1)
  <2>1. i \in Nat \ {0} /\ \A k \in 1..(i - 1) : u[k] = t[k]
    BY <1>1
  <2>2. QED
    BY <2>1, SameLines
<1>3. LineFeeds(u) = LineFeeds(t) \cup (IF b = "LF" THEN {n + 1} ELSE {})
  BY <1>1 DEF LineFeeds
<1>4. LineFeeds(t) \subseteq 1..n
  BY <1>1 DEF LineFeeds
<1>5. \A i \in 1..(n + 1) : LineStart(t, i) \in 1..i
  BY OneStart
<1>6. MessageEnds(u) = MessageEnds(t) \cup
        (IF b = "LF" /\ Blank(t) /\ Parted(t) THEN {n + 1} ELSE {})
  <2> DEFINE Follows(x, i) == \E j \in LineFeeds(x) : j + 1 = LineStart(x, i) /\ ~IsBlank(x, j)
  <2>1. \A i \in 1..(n + 1) : Follows(u, i) <=> Follows(t, i)
    BY <1>1, <1>2, <1>3, <1>4, <1>5
  <2>2. Parted(t) <=> Follows(t, n + 1)
    BY DEF Parted, n
  <2>3. /\ MessageEnds(u) = {i \in LineFeeds(u) : IsBlank(u, i) /\ Follows(u, i)}
        /\ MessageEnds(t) = {i \in LineFeeds(t) : IsBlank(t, i) /\ Follows(t, i)}
    BY DEF MessageEnds
  <2>4. Blank(t) <=> IsBlank(t, n + 1)
    BY DEF Blank, n
  <2> HIDE DEF Follows
  <2>5. QED
    BY <1>1, <1>2, <1>3, <1>4, <2>1, <2>2, <2>3, <2>4
<1>7. ASSUME b = "LF" PROVE Blank(u) /\ (Parted(u) <=> ~Blank(t))
  <2>1. LineStart(u, n + 2) = n + 2
    <3>1. n + 2 \in 1..(n + 2) /\ StartsAt(u, n + 2, n + 2)
      BY <1>1, <1>7 DEF StartsAt
    <3>2. QED
      BY <1>1, <3>1, OneStart
  <2>2. Blank(u)
    BY <1>1, <2>1 DEF Blank, IsBlank
  <2>3. Parted(u) <=> ~IsBlank(u, n + 1)
    <3>1. n + 1 \in LineFeeds(u) /\ LineFeeds(u) \subseteq 1..(n + 1)
      BY <1>1, <1>3, <1>4, <1>7
    <3>2. \A j \in LineFeeds(u) : j + 1 = LineStart(u, n + 2) <=> j = n + 1
      BY <1>1, <2>1, <3>1
    <3>3. n + 2 = Len(u) + 1
      BY <1>1
    <3>4. QED
      BY <3>1, <3>2, <3>3 DEF Parted
  <2>4. IsBlank(u, n + 1) <=> Blank(t)
    BY <1>1, <1>2 DEF Blank, n
  <2>5. QED
    BY <2>2, <2>3, <2>4
<1>8. ASSUME b # "LF"
      PROVE  (Blank(u) <=> Blank(t) /\ b = "CR") /\ (Parted(u) <=> Parted(t))
  <2> DEFINE s == LineStart(t, n + 1)
  <2>1. s \in 1..(n + 1) /\ StartsAt(t, n + 1, s)
    BY <1>1, OneStart
  <2>2. LineStart(u, n + 2) = s
    <3>1. StartsAt(u, n + 2, s)
      BY <1>1, <1>8, <2>1 DEF StartsAt
    <3>2. QED
      BY <1>1, <2>1, <3>1, OneStart
  <2>3. Len(u) + 1 = n + 2 /\ Len(t) + 1 = n + 1
    BY <1>1 DEF n
  <2>4. Blank(u) <=> Blank(t) /\ b = "CR"
    <3>1. Blank(u) <=> \A k \in s..(n + 1) : u[k] = "CR"
      BY <1>1, <2>2, <2>3 DEF Blank, IsBlank
    <3>2. Blank(t) <=> \A k \in s..n : t[k] = "CR"
      BY <1>1, <2>3 DEF Blank, IsBlank
    <3> HIDE DEF s
    <3>3. QED
      BY <1>1, <2>1, <3>1, <3>2
  <2>5. LineFeeds(u) = LineFeeds(t)
    BY <1>3, <1>8
  <2>6. Parted(u) <=> Parted(t)
    BY <1>1, <1>2, <1>4, <2>2, <2>3, <2>5 DEF Parted
  <2>7. QED
    BY <2>4, <2>6
<1>9. QED
  BY <1>6, <1>7, <1>8 DEF u, n

----------------------------------------------------------------------------
(* The counters and the text *)

\* What the counters say of the text: whether the line the next byte is in is
\* blank so far, and whether a message has just ended.
Counted(t, w) ==
  /\ w.newlines \in 0..Len(t)
  /\ w.newlines = 0 <=> t = <<>> \/ ~Blank(t)
  /\ w.newlines = 1 <=> t # <<>> /\ Blank(t) /\ Parted(t)
  /\ w.events \in 0..Len(t)
  /\ IsFiniteSet(MessageEnds(t)) /\ w.events = Cardinality(MessageEnds(t))

\* What the moment of the first message says, since the writer was w.
Timed(w, x, now) ==
  /\ x.events >= w.events
  /\ x.firstEvent = IF w.events = 0 /\ x.events > 0 THEN now ELSE w.firstEvent

LEMMA EmptyText == Counted(<<>>, Fresh)
<1>1. MessageEnds(<<>>) = {}
  BY DEF MessageEnds, LineFeeds
<1>2. QED
  BY <1>1, FS_EmptySet DEF Counted, Fresh

LEMMA CountedByte ==
  ASSUME NEW t \in Seq(Bytes), NEW b \in Bytes, NEW w \in Writers, NEW now \in Nat,
         Counted(t, w), t = <<>> => b = "d"
  PROVE  Counted(Append(t, b), ObserveByte(w, b, now))
<1> DEFINE u == Append(t, b)
           x == ObserveByte(w, b, now)
           n == Len(t)
           ended == b = "LF" /\ Blank(t) /\ Parted(t)
<1>1. n \in Nat /\ Len(u) = n + 1 /\ u # <<>> /\ (t = <<>> <=> n = 0)
  OBVIOUS
<1>2. /\ MessageEnds(u) = MessageEnds(t) \cup (IF ended THEN {n + 1} ELSE {})
      /\ b = "LF" => Blank(u) /\ (Parted(u) <=> ~Blank(t))
      /\ b # "LF" => (Blank(u) <=> Blank(t) /\ b = "CR") /\ (Parted(u) <=> Parted(t))
  BY NextByte
<1>3. /\ w.newlines \in Nat /\ w.events \in Nat
      /\ x.newlines = CASE b = "CR" -> w.newlines
                        [] b = "LF" -> w.newlines + 1
                        [] OTHER -> 0
      /\ x.events = IF b = "LF" /\ w.newlines = 1 THEN w.events + 1 ELSE w.events
  BY DEF ObserveByte, Writers, Bytes
<1>4. b = "LF" => (ended <=> w.newlines = 1)
  BY DEF Counted
<1>5. /\ x.newlines = 0 <=> u = <<>> \/ ~Blank(u)
      /\ x.newlines = 1 <=> u # <<>> /\ Blank(u) /\ Parted(u)
  <2> HIDE DEF u, x, n, ended
  <2>1. CASE b = "LF"
    BY <1>1, <1>2, <1>3, <2>1 DEF Counted
  <2>2. CASE b = "CR"
    BY <1>1, <1>2, <1>3, <2>2 DEF Counted
  <2>3. CASE b = "d"
    BY <1>1, <1>2, <1>3, <2>3 DEF Counted
  <2>4. QED
    BY <2>1, <2>2, <2>3 DEF Bytes
<1>6. x.newlines \in 0..(n + 1) /\ x.events \in 0..(n + 1)
  BY <1>1, <1>3 DEF Counted, Bytes
<1>7. IsFiniteSet(MessageEnds(u)) /\ x.events = Cardinality(MessageEnds(u))
  <2>1. n + 1 \notin MessageEnds(t)
    BY DEF MessageEnds, LineFeeds
  <2>2. /\ IsFiniteSet(MessageEnds(t)) /\ w.events = Cardinality(MessageEnds(t))
        /\ IsFiniteSet(MessageEnds(t) \cup {n + 1})
        /\ Cardinality(MessageEnds(t) \cup {n + 1}) = w.events + 1
    BY <1>3, <2>1, FS_AddElement DEF Counted
  <2>3. CASE ended
    BY <1>2, <1>3, <1>4, <2>2, <2>3
  <2>4. CASE ~ended
    <3>1. MessageEnds(u) = MessageEnds(t)
      BY <1>2, <2>4
    <3>2. x.events = w.events
      BY <1>3, <1>4, <2>4
    <3>3. QED
      BY <2>2, <3>1, <3>2
  <2>5. QED
    BY <2>3, <2>4
<1> HIDE DEF u, x, n
<1>8. QED
  BY <1>1, <1>5, <1>6, <1>7 DEF Counted, u, x

LEMMA TimedByte ==
  ASSUME NEW v \in Writers, NEW w \in Writers, NEW b \in Bytes, NEW now \in Nat,
         Timed(v, w, now)
  PROVE  Timed(v, ObserveByte(w, b, now), now)
  BY DEF Timed, ObserveByte, Writers, Bytes

\* A write, byte by byte.
LEMMA CountedWrite ==
  ASSUME NEW t \in Seq(Bytes), NEW bytes \in Seq(Bytes), NEW w \in Writers, NEW now \in Nat,
         Counted(t, w), t = <<>> /\ bytes # <<>> => bytes[1] = "d"
  PROVE  LET x == Observe(w, bytes, now) IN
         x \in Writers /\ Counted(t \o bytes, x) /\ Timed(w, x, now)
<1> DEFINE n == Len(bytes)
           Part(i) == t \o SubSeq(bytes, 1, i)
<1>1. n \in Nat /\ \A i \in 1..n : bytes[i] \in Bytes
  OBVIOUS
<1>2. PICK a \in [0..n -> Writers] :
        /\ a[0] = w
        /\ \A i \in 1..n : a[i] = ObserveByte(a[i - 1], bytes[i], now)
        /\ Observe(w, bytes, now) = a[n]
  <2>1. Observed(w, bytes, now) # {}
    BY ObserveSteps
  <2>2. QED
    BY <2>1 DEF Observed
<1>3. Part(0) = t /\ Part(n) = t \o bytes
  OBVIOUS
<1>4. ASSUME NEW i \in 1..n
      PROVE  /\ Part(i - 1) \in Seq(Bytes) /\ Part(i) = Append(Part(i - 1), bytes[i])
             /\ Part(i - 1) = <<>> => t = <<>> /\ i = 1
  <2>1. /\ SubSeq(bytes, 1, i - 1) \in Seq(Bytes) /\ Len(SubSeq(bytes, 1, i - 1)) = i - 1
        /\ SubSeq(bytes, 1, i) = Append(SubSeq(bytes, 1, i - 1), bytes[i])
    OBVIOUS
  <2> DEFINE front == SubSeq(bytes, 1, i - 1)
  <2>2. /\ t \o front \in Seq(Bytes) /\ t \o Append(front, bytes[i]) = Append(t \o front, bytes[i])
        /\ Len(t \o front) = Len(t) + Len(front)
    <3> HIDE DEF front
    <3>1. front \in Seq(Bytes) /\ bytes[i] \in Bytes
      BY <2>1 DEF front
    <3>2. QED
      BY <3>1
  <2>3. t \o front = <<>> => t = <<>> /\ i = 1
    BY <2>1, <2>2
  <2>4. QED
    BY <2>1, <2>2, <2>3
<1> DEFINE S == {i \in 0..n : Counted(Part(i), a[i]) /\ Timed(w, a[i], now)}
<1> HIDE DEF n, Part
<1>5. 0 \in S
  BY <1>1, <1>2, <1>3 DEF Timed, Writers
<1>6. ASSUME NEW i \in 1..n, i - 1 \in S PROVE i \in S
  <2>1. a[i - 1] \in Writers /\ bytes[i] \in Bytes
    BY <1>1, <1>2
  <2>2. Counted(Part(i - 1), a[i - 1]) /\ Timed(w, a[i - 1], now)
    BY <1>6
  <2>3. Part(i - 1) = <<>> => bytes[i] = "d"
    <3>1. bytes # <<>>
      BY DEF n
    <3>2. QED
      BY <1>4, <3>1
  <2>4. Counted(Append(Part(i - 1), bytes[i]), ObserveByte(a[i - 1], bytes[i], now))
    BY <1>4, <2>1, <2>2, <2>3, CountedByte
  <2>5. Timed(w, ObserveByte(a[i - 1], bytes[i], now), now)
    BY <2>1, <2>2, TimedByte
  <2>6. a[i] = ObserveByte(a[i - 1], bytes[i], now) /\ Part(i) = Append(Part(i - 1), bytes[i])
    BY <1>2, <1>4
  <2>7. Counted(Part(i), a[i]) /\ Timed(w, a[i], now)
    BY <2>4, <2>5, <2>6, Zenon
  <2>8. QED
    BY <2>7, <1>1
<1>7. n \in S
  <2> HIDE DEF S
  <2>1. 0..n \subseteq S
    BY <1>1, <1>5, <1>6, UpTo
  <2>2. QED
    BY <1>1, <2>1
<1>8. QED
  BY <1>1, <1>2, <1>3, <1>7

----------------------------------------------------------------------------

StreamInv ==
  /\ text \in Seq(Bytes) /\ writer \in Writers
  /\ writer.firstEvent <= Len(text)
  /\ Counted(text, writer)

LEMMA StreamInit == Init => StreamInv
  BY EmptyText DEF Init, StreamInv, Fresh, Writers

\* What a write adds to the text, and what becomes of the writer.
LEMMA Writing ==
  ASSUME StreamInv, NEW m \in Nat \ {0}, NEW bytes \in [1..m -> Bytes], NEW taken \in 0..m,
         Write(bytes, taken)
  PROVE  StreamInv' /\ Timed(writer, writer', Len(text))
<1> DEFINE part == SubSeq(bytes, 1, taken)
<1>1. bytes \in Seq(Bytes) /\ Len(bytes) = m
  OBVIOUS
<1>2. /\ part \in Seq(Bytes) /\ Len(part) = taken
      /\ part # <<>> => part[1] = bytes[1]
  BY <1>1
<1>3. text = <<>> => bytes[1] = "d"
  <2>1. text = <<>> => text \o bytes = bytes /\ bytes # <<>>
    BY <1>1
  <2>2. QED
    BY <2>1 DEF Write, WellFormed
<1>4. text' = text \o part /\ writer' = Observe(writer, part, Len(text))
  BY DEF Write
<1> HIDE DEF part
<1>5. /\ text \in Seq(Bytes) /\ writer \in Writers /\ Len(text) \in Nat /\ Counted(text, writer)
      /\ writer.firstEvent <= Len(text)
  BY DEF StreamInv
<1>6. writer' \in Writers /\ Counted(text', writer') /\ Timed(writer, writer', Len(text))
  BY <1>2, <1>3, <1>4, <1>5, CountedWrite
<1>7. text' \in Seq(Bytes) /\ Len(text') = Len(text) + taken
  <2>1. text \o part \in Seq(Bytes) /\ Len(text \o part) = Len(text) + taken
    BY <1>2, <1>5, ConcatProperties
  <2>2. QED
    BY <1>4, <2>1
<1>8. writer'.firstEvent <= Len(text')
  BY <1>5, <1>6, <1>7 DEF Timed, Writers
<1>9. QED
  BY <1>5, <1>6, <1>7, <1>8 DEF StreamInv

LEMMA StreamStep == StreamInv /\ [Next]_vars => StreamInv'
<1> SUFFICES ASSUME StreamInv, [Next]_vars PROVE StreamInv'
  OBVIOUS
<1>1. CASE Next
  <2>1. PICK m \in 1..MaxChunk : \E bytes \in [1..m -> Bytes], taken \in 0..m :
          Write(bytes, taken)
    BY <1>1 DEF Next
  <2>2. m \in Nat \ {0}
    BY StreamAssumption
  <2>3. QED
    BY <2>1, <2>2, Writing
<1>2. CASE UNCHANGED vars
  BY <1>2 DEF vars, StreamInv
<1>3. QED
  BY <1>1, <1>2

LEMMA StreamAlways == Spec => []StreamInv
  BY StreamInit, StreamStep, PTL DEF Spec

\* The counters and the moment stay within the text, whatever is written.
THEOREM TypeCorrect == Spec => []TypeOK
<1>1. StreamInv => TypeOK
  BY DEF StreamInv, TypeOK, Counted, Writers
<1>2. QED
  BY <1>1, StreamAlways, PTL

\* The events counted are the messages of the text, for a stream of any length,
\* however its bytes are cut into writes and whatever ends its lines.
THEOREM MessagesAreCounted == Spec => []CountsMessages
<1>1. StreamInv => CountsMessages
  BY DEF StreamInv, CountsMessages, Counted, Messages
<1>2. QED
  BY <1>1, StreamAlways, PTL

\* The first message is timed by the write that completes it, and no later write
\* moves it.
THEOREM FirstIsTimed == Spec => FirstEventIsTimed
<1>1. StreamInv /\ [Next]_vars =>
        [writer'.firstEvent = IF Messages(text) = 0 /\ Messages(text') > 0 THEN Len(text)
                              ELSE writer.firstEvent]_vars
  <2> SUFFICES ASSUME StreamInv, Next
               PROVE  writer'.firstEvent =
                        IF Messages(text) = 0 /\ Messages(text') > 0 THEN Len(text)
                        ELSE writer.firstEvent
    OBVIOUS
  <2>1. PICK m \in 1..MaxChunk : \E bytes \in [1..m -> Bytes], taken \in 0..m :
          Write(bytes, taken)
    BY DEF Next
  <2>2. m \in Nat \ {0}
    BY StreamAssumption
  <2>3. StreamInv' /\ Timed(writer, writer', Len(text))
    BY <2>1, <2>2, Writing
  <2>4. writer.events = Messages(text) /\ writer'.events = Messages(text')
    BY <2>3 DEF StreamInv, Counted, Messages
  <2>5. QED
    BY <2>3, <2>4 DEF Timed
<1>2. QED
  BY <1>1, StreamAlways, PTL DEF Spec, FirstEventIsTimed
=============================================================================
