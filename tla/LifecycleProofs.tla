--------------------------- MODULE LifecycleProofs ---------------------------
(* Proofs about Lifecycle, for any settings and any set of requests.            *)
EXTENDS Lifecycle, WellFoundedInduction, SequenceTheorems, TLAPS

----------------------------------------------------------------------------
(* Paths *)

\* Induction up to n, over a set in place of a predicate.
LEMMA UpTo ==
  ASSUME NEW n \in Nat, NEW S, 0 \in S, \A i \in 1..n : i - 1 \in S => i \in S
  PROVE  0..n \subseteq S
<1> DEFINE T == (0..n) \ S
<1>1. SUFFICES ASSUME T # {} PROVE FALSE
  OBVIOUS
<1>2. T \subseteq Nat
  OBVIOUS
<1> HIDE DEF T
<1>3. PICK x \in T : \A y \in T : ~(<<y, x>> \in OpToRel(<, Nat))
  BY <1>1, <1>2, NatLessThanWellFounded, WFMin
<1>4. \A y \in T : ~(y < x)
  BY <1>2, <1>3 DEF OpToRel
<1>5. x \in 1..n /\ x - 1 \notin T /\ x \notin S
  BY <1>4 DEF T
<1>6. x - 1 \in S
  BY <1>5 DEF T
<1>7. QED
  BY <1>5, <1>6

\* The functions on 0..n that begin with w and go on as F says.
Runs(n, W, w, F) ==
  {g \in [0..n -> W] : g[0] = w /\ \A i \in 1..n : g[i] = F[i][g[i - 1]]}

LEMMA Recursion ==
  ASSUME NEW n \in Nat, NEW W, NEW w \in W, NEW F \in [1..n -> [W -> W]]
  PROVE  Runs(n, W, w, F) # {}
<1> DEFINE Upto(k, g) == g[0] = w /\ \A i \in 1..k : g[i] = F[i][g[i - 1]]
           S == {k \in 0..n : \E g \in [0..n -> W] : Upto(k, g)}
<1>1. 0 \in S
  <2>1. [i \in 0..n |-> w] \in [0..n -> W] /\ Upto(0, [i \in 0..n |-> w])
    OBVIOUS
  <2> HIDE DEF Upto
  <2>2. \E g \in [0..n -> W] : Upto(0, g)
    BY <2>1
  <2>3. QED
    BY <2>2
<1>2. ASSUME NEW k \in 1..n, k - 1 \in S PROVE k \in S
  <2>1. PICK g \in [0..n -> W] : Upto(k - 1, g)
    BY <1>2
  <2> DEFINE h == [g EXCEPT ![k] = F[k][g[k - 1]]]
  <2>2. h \in [0..n -> W]
    OBVIOUS
  <2>3. Upto(k, h)
    <3>1. h[0] = w
      BY <2>1
    <3>2. ASSUME NEW i \in 1..k PROVE h[i] = F[i][h[i - 1]]
      <4>1. h[i - 1] = g[i - 1]
        OBVIOUS
      <4>2. CASE i = k
        BY <4>1, <4>2
      <4>3. CASE i # k
        <5>1. i \in 1..(k - 1) /\ h[i] = g[i]
          BY <4>3
        <5>2. QED
          BY <2>1, <4>1, <5>1
      <4>4. QED
        BY <4>2, <4>3
    <3>3. QED
      BY <3>1, <3>2
  <2> HIDE DEF Upto, h
  <2>4. \E x \in [0..n -> W] : Upto(k, x)
    BY <2>2, <2>3
  <2>5. QED
    BY <2>4
<1>3. n \in S
  <2> HIDE DEF S
  <2>1. 0..n \subseteq S
    BY <1>1, <1>2, UpTo
  <2>2. QED
    BY <2>1
<1>4. QED
  BY <1>3 DEF Runs

\* Strings: the provers do not know that a literal is one.
Strings == STRING \cup {"", "health", "status", "api", "search", "query", "version"}

\* What path.Clean keeps.
Plain == Strings \ {"", ".", ".."}

LEMMA EnterType ==
  ASSUME NEW above \in Seq(Plain), NEW name \in Strings
  PROVE  Enter(above, name) \in Seq(Plain)
<1>1. CASE name \in {"", "."}
  BY <1>1 DEF Enter
<1>2. CASE name = ".."
  <2>1. CASE above = <<>>
    BY <1>2, <2>1 DEF Enter
  <2>2. CASE above # <<>>
    <3>1. Enter(above, name) = SubSeq(above, 1, Len(above) - 1)
      BY <1>2, <2>2 DEF Enter, Front
    <3>2. Len(above) - 1 \in Nat
      BY <2>2, EmptySeq
    <3>3. QED
      BY <3>1, <3>2
  <2>3. QED
    BY <2>1, <2>2
<1>3. CASE name \in Plain
  <2>1. Enter(above, name) = Append(above, name)
    BY <1>3 DEF Enter, Plain
  <2>2. Append(above, name) \in Seq(Plain)
    BY <1>3, AppendProperties
  <2>3. QED
    BY <2>1, <2>2
<1>4. QED
  BY <1>1, <1>2, <1>3 DEF Plain

\* The names kept of each beginning of a path, and of all of it.
Walks(p) ==
  {w \in [0..Len(p) -> Seq(Plain)] :
     /\ w[0] = <<>>
     /\ \A i \in 1..Len(p) : w[i] = Enter(w[i - 1], p[i])
     /\ Names(p) = w[Len(p)]}

LEMMA Walk == ASSUME NEW p \in Seq(Strings) PROVE Walks(p) # {}
<1> DEFINE n == Len(p)
           W == Seq(Plain)
           F == [i \in 1..n |-> [x \in W |-> Enter(x, p[i])]]
           Follows(h) == h = [i \in 0..n |-> IF i = 0 THEN <<>> ELSE Enter(h[i - 1], p[i])]
           within == CHOOSE h : Follows(h)
<1>1. n \in Nat /\ \A i \in 1..n : p[i] \in Strings
  OBVIOUS
<1>2. <<>> \in W
  OBVIOUS
<1> HIDE DEF n
<1>3. \A i \in 1..n, x \in W : Enter(x, p[i]) \in W
  BY <1>1, EnterType
<1> HIDE DEF W
<1>4. F \in [1..n -> [W -> W]]
  BY <1>3
<1>5. \A i \in 1..n, x \in W : F[i][x] = Enter(x, p[i])
  OBVIOUS
<1> HIDE DEF F
<1>6. PICK g \in [0..n -> W] : g[0] = <<>> /\ \A i \in 1..n : g[i] = F[i][g[i - 1]]
  <2>1. Runs(n, W, <<>>, F) # {}
    BY <1>1, <1>2, <1>4, Recursion
  <2>2. QED
    BY <2>1 DEF Runs
<1>7. \A i \in 1..n : g[i] = Enter(g[i - 1], p[i])
  <2>1. \A i \in 1..n : g[i - 1] \in W
    BY <1>1
  <2>2. QED
    BY <1>5, <1>6, <2>1
<1>8. Follows(g)
  BY <1>6, <1>7
<1>9. Follows(within)
  <2> HIDE DEF Follows
  <2>1. QED
    BY <1>8
<1>10. Names(p) = within[n]
  BY DEF Names, n
<1> HIDE DEF within
<1>11. /\ DOMAIN within = 0..n /\ within[0] = <<>>
       /\ \A i \in 1..n : within[i] = Enter(within[i - 1], p[i])
  BY <1>1, <1>9
<1>12. \A i \in 0..n : within[i] \in W
  <2> DEFINE S == {i \in 0..n : within[i] \in W}
  <2>1. 0 \in S
    BY <1>1, <1>2, <1>11
  <2>2. ASSUME NEW i \in 1..n, i - 1 \in S PROVE i \in S
    BY <2>2, <1>1, <1>3, <1>11
  <2> HIDE DEF S
  <2>3. 0..n \subseteq S
    BY <2>1, <2>2, <1>1, UpTo
  <2>4. QED
    BY <2>3 DEF S
<1>13. within \in [0..n -> W]
  BY <1>9, <1>11, <1>12
<1>14. QED
  BY <1>10, <1>11, <1>13 DEF n, W, Walks

LEMMA NamesType == ASSUME NEW p \in Seq(Strings) PROVE Names(p) \in Seq(Plain)
<1>1. PICK w \in [0..Len(p) -> Seq(Plain)] : Names(p) = w[Len(p)]
  BY Walk DEF Walks
<1>2. QED
  BY <1>1

LEMMA NoNames == Names(<<>>) = <<>>
<1>1. <<>> \in Seq(Strings) /\ Len(<<>>) = 0
  OBVIOUS
<1>2. PICK w : w[0] = <<>> /\ Names(<<>>) = w[Len(<<>>)]
  BY <1>1, Walk DEF Walks
<1>3. QED
  BY <1>1, <1>2

\* A path one name longer.
LEMMA NamesOfAppend ==
  ASSUME NEW p \in Seq(Strings), NEW name \in Strings
  PROVE  Names(Append(p, name)) = Enter(Names(p), name)
<1> DEFINE n == Len(p)
           q == Append(p, name)
<1>1. /\ q \in Seq(Strings) /\ n \in Nat /\ Len(q) = n + 1 /\ q[n + 1] = name
      /\ \A i \in 1..n : q[i] = p[i]
  <2>1. q \in Seq(Strings)
    BY AppendProperties
  <2>2. n \in Nat
    OBVIOUS
  <2>3. Len(q) = n + 1
    BY AppendProperties
  <2>4. q[n + 1] = name
    BY AppendProperties
  <2>5. \A i \in 1..n : q[i] = p[i]
    BY AppendProperties
  <2>6. QED
    BY <2>1, <2>2, <2>3, <2>4, <2>5
<1> HIDE DEF n, q
<1>2. PICK v : /\ v[0] = <<>> /\ \A i \in 1..n : v[i] = Enter(v[i - 1], p[i])
               /\ Names(p) = v[n]
  BY Walk DEF Walks, n
<1>3. PICK w : /\ w[0] = <<>> /\ \A i \in 1..(n + 1) : w[i] = Enter(w[i - 1], q[i])
               /\ Names(q) = w[n + 1]
  BY <1>1, Walk DEF Walks
<1>4. v[n] = w[n]
  <2> DEFINE S == {i \in 0..n : v[i] = w[i]}
  <2>1. 0 \in S
    BY <1>1, <1>2, <1>3
  <2>2. ASSUME NEW i \in 1..n, i - 1 \in S PROVE i \in S
    BY <2>2, <1>1, <1>2, <1>3
  <2> HIDE DEF S
  <2>3. 0..n \subseteq S
    BY <1>1, <2>1, <2>2, UpTo
  <2>4. n \in S
    BY <1>1, <2>3
  <2>5. QED
    BY <2>4 DEF S
<1>5. w[n + 1] = Enter(w[n], q[n + 1])
  <2>1. n + 1 \in 1..(n + 1) /\ (n + 1) - 1 = n
    BY <1>1
  <2>2. w[n + 1] = Enter(w[(n + 1) - 1], q[n + 1])
    BY <1>3, <2>1
  <2>3. QED
    BY <2>1, <2>2
<1>6. QED
  BY <1>1, <1>2, <1>3, <1>4, <1>5 DEF q

LEMMA EnterPlain ==
  ASSUME NEW above, NEW name \in Plain
  PROVE  Enter(above, name) = Append(above, name) /\ Enter(above, "") = above
  BY DEF Enter, Plain

LEMMA Wider ==
  ASSUME NEW S, NEW T, S \subseteq T, NEW q \in Seq(S)
  PROVE  q \in Seq(T)
  OBVIOUS

LEMMA PlainStrings == ASSUME NEW q \in Seq(Plain) PROVE q \in Seq(Strings)
<1>1. Plain \subseteq Strings
  BY DEF Plain
<1>2. QED
  BY <1>1

LEMMA Single == ASSUME NEW S, NEW e \in S PROVE <<e>> \in Seq(S) /\ <<e>> = Append(<<>>, e)
  OBVIOUS

LEMMA Prefixed ==
  ASSUME NEW e \in Strings, NEW q \in Seq(Strings)
  PROVE  /\ <<e>> \o q \in Seq(Strings)
         /\ Len(<<e>> \o q) = Len(q) + 1
         /\ (<<e>> \o q)[1] = e
         /\ \A i \in 1..Len(q) : (<<e>> \o q)[i + 1] = q[i]
<1> DEFINE s == <<e>>
<1>1. s \in Seq(Strings) /\ Len(s) = 1 /\ s[1] = e
  OBVIOUS
<1> HIDE DEF s
<1>2. Len(q) \in Nat
  OBVIOUS
<1>3. /\ s \o q \in Seq(Strings) /\ Len(s \o q) = Len(s) + Len(q)
      /\ \A i \in 1..(Len(s) + Len(q)) :
           (s \o q)[i] = IF i <= Len(s) THEN s[i] ELSE q[i - Len(s)]
  BY <1>1, ConcatProperties
<1>4. (s \o q)[1] = e
  BY <1>1, <1>2, <1>3
<1>5. ASSUME NEW i \in 1..Len(q) PROVE (s \o q)[i + 1] = q[i]
  <2>1. i + 1 \in 1..(Len(s) + Len(q)) /\ ~(i + 1 <= Len(s)) /\ (i + 1) - Len(s) = i
    BY <1>1, <1>2
  <2>2. (s \o q)[i + 1] = q[(i + 1) - Len(s)]
    BY <1>3, <2>1
  <2>3. QED
    BY <2>1, <2>2
<1>6. QED
  BY <1>1, <1>2, <1>3, <1>4, <1>5 DEF s

LEMMA Pair == ASSUME NEW a, NEW b PROVE <<a, b>> = Append(<<a>>, b)
  OBVIOUS

LEMMA Slash ==
  /\ "" \in Strings /\ <<>> \in Seq(Strings) /\ <<"">> \in Seq(Strings) /\ Root \in Seq(Strings)
  /\ <<"">> = Append(<<>>, "") /\ Root = Append(<<"">>, "")
<1>1. "" \in Strings
  BY DEF Strings
<1>2. <<>> \in Seq(Strings)
  OBVIOUS
<1>3. <<"">> \in Seq(Strings) /\ <<"">> = Append(<<>>, "")
  BY <1>1, Single
<1>4. Root = Append(<<"">>, "")
  BY Pair DEF Root
<1>5. Root \in Seq(Strings)
  BY <1>1, <1>3, <1>4, AppendProperties
<1>6. QED
  BY <1>1, <1>2, <1>3, <1>4, <1>5

LEMMA Associative ==
  ASSUME NEW u \in Seq(Strings), NEW v \in Seq(Strings), NEW w \in Seq(Strings)
  PROVE  (u \o v) \o w = u \o (v \o w)
  BY ConcatAssociative, SMTT(30)

\* A concatenation grows by a name at a time.
LEMMA Longer ==
  ASSUME NEW p \in Seq(Strings), NEW q \in Seq(Strings), NEW i \in 1..Len(q)
  PROVE  /\ SubSeq(q, 1, i - 1) \in Seq(Strings) /\ p \o SubSeq(q, 1, i - 1) \in Seq(Strings) /\ q[i] \in Strings
         /\ p \o SubSeq(q, 1, i) = Append(p \o SubSeq(q, 1, i - 1), q[i])
<1>1. q[i] \in Strings
  BY ElementOfSeq
<1>2. SubSeq(q, 1, i - 1) \in Seq(Strings)
  BY ElementOfSeq, SubSeqProperties
<1>3. SubSeq(q, 1, i) = SubSeq(q, 1, i - 1) \o <<q[i]>>
  BY SubSeqRecursiveSecond
<1>4. <<q[i]>> \in Seq(Strings) /\ p \o SubSeq(q, 1, i - 1) \in Seq(Strings)
  <2>1. <<q[i]>> \in Seq(Strings)
    BY <1>1, Single
  <2>2. p \o SubSeq(q, 1, i - 1) \in Seq(Strings)
    BY <1>2, ConcatProperties
  <2>3. QED
    BY <2>1, <2>2
<1>5. p \o SubSeq(q, 1, i) = (p \o SubSeq(q, 1, i - 1)) \o <<q[i]>>
  <2> DEFINE r == SubSeq(q, 1, i - 1)
             s == <<q[i]>>
  <2>1. r \in Seq(Strings) /\ s \in Seq(Strings) /\ SubSeq(q, 1, i) = r \o s
    BY <1>2, <1>3, <1>4
  <2> HIDE DEF r, s
  <2>2. (p \o r) \o s = p \o (r \o s)
    BY <2>1, Associative
  <2>3. QED
    BY <2>1, <2>2 DEF r, s
<1>6. QED
  BY <1>1, <1>2, <1>4, <1>5, AppendIsConcat

LEMMA Wholes ==
  ASSUME NEW p \in Seq(Strings), NEW q \in Seq(Strings)
  PROVE  /\ Len(q) \in Nat /\ p \o SubSeq(q, 1, Len(q)) = p \o q /\ p \o SubSeq(q, 1, 0) = p
  BY SubSeqFull, SubSeqEmpty, ConcatEmptySeq

\* What is kept of a longer path depends on what is kept of its beginning.
LEMMA NamesOfLonger ==
  ASSUME NEW p \in Seq(Strings), NEW u \in Seq(Strings), NEW q \in Seq(Strings),
         Names(p) = Names(u)
  PROVE  Names(p \o q) = Names(u \o q)
<1> DEFINE n == Len(q)
           P(i) == p \o SubSeq(q, 1, i)
           U(i) == u \o SubSeq(q, 1, i)
           S == {i \in 0..n : Names(P(i)) = Names(U(i))}
<1>1. n \in Nat /\ P(n) = p \o q /\ U(n) = u \o q /\ P(0) = p /\ U(0) = u
  BY Wholes
<1>2. ASSUME NEW v \in Seq(Strings), NEW i \in 1..Len(q)
      PROVE  /\ v \o SubSeq(q, 1, i) = Append(v \o SubSeq(q, 1, i - 1), q[i])
             /\ v \o SubSeq(q, 1, i - 1) \in Seq(Strings)
  BY Longer
<1>3. \A i \in 1..n : /\ P(i) = Append(P(i - 1), q[i]) /\ P(i - 1) \in Seq(Strings)
                     /\ U(i) = Append(U(i - 1), q[i]) /\ U(i - 1) \in Seq(Strings)
  BY <1>2
<1>4. ASSUME NEW i \in 1..n PROVE q[i] \in Strings
  BY ElementOfSeq
<1> HIDE DEF n, P, U
<1>5. 0 \in S
  BY <1>1
<1>6. ASSUME NEW i \in 1..n, i - 1 \in S PROVE i \in S
  <2>1. Names(P(i)) = Enter(Names(P(i - 1)), q[i])
    BY <1>3, <1>4, NamesOfAppend
  <2>2. Names(U(i)) = Enter(Names(U(i - 1)), q[i])
    BY <1>3, <1>4, NamesOfAppend
  <2>3. QED
    BY <1>1, <1>6, <2>1, <2>2
<1> HIDE DEF S
<1>7. 0..n \subseteq S
  BY <1>1, <1>5, <1>6, UpTo
<1>8. Names(P(n)) = Names(U(n))
  <2>1. n \in S
    BY <1>1, <1>7
  <2>2. QED
    BY <2>1 DEF S
<1>9. QED
  BY <1>1, <1>8

\* Names are kept as they are.
LEMMA NamesOfPlain ==
  ASSUME NEW p \in Seq(Strings), NEW q \in Seq(Plain)
  PROVE  Names(p \o q) = Names(p) \o q
<1> DEFINE n == Len(q)
           N == Names(p)
           P(i) == p \o SubSeq(q, 1, i)
           K(i) == N \o SubSeq(q, 1, i)
           S == {i \in 0..n : Names(P(i)) = K(i)}
<1>1. \A i \in 1..n : q[i] \in Plain /\ q[i] \in Strings
  BY ElementOfSeq DEF Plain
<1>2. q \in Seq(Strings)
  BY PlainStrings
<1>3. N \in Seq(Strings)
  BY NamesType, PlainStrings
<1> HIDE DEF N
<1>4. n \in Nat /\ P(n) = p \o q /\ P(0) = p
  BY <1>2, Wholes
<1>5. K(n) = N \o q /\ K(0) = N
  BY <1>2, <1>3, Wholes
<1>6. ASSUME NEW i \in 1..n PROVE P(i) = Append(P(i - 1), q[i]) /\ P(i - 1) \in Seq(Strings)
  BY <1>2, Longer
<1>7. ASSUME NEW i \in 1..n PROVE K(i) = Append(K(i - 1), q[i])
  BY <1>2, <1>3, Longer
<1> HIDE DEF n, P, K
<1>8. 0 \in S
  BY <1>4, <1>5 DEF N
<1>9. ASSUME NEW i \in 1..n, i - 1 \in S PROVE i \in S
  <2>1. Names(P(i)) = Enter(Names(P(i - 1)), q[i])
    BY <1>1, <1>6, NamesOfAppend
  <2>2. Enter(K(i - 1), q[i]) = Append(K(i - 1), q[i])
    BY <1>1, EnterPlain
  <2>3. Names(P(i - 1)) = K(i - 1)
    BY <1>9
  <2>4. Names(P(i)) = K(i)
    BY <1>7, <2>1, <2>2, <2>3
  <2>5. QED
    BY <1>4, <2>4
<1> HIDE DEF S
<1>10. 0..n \subseteq S
  BY <1>4, <1>8, <1>9, UpTo
<1>11. Names(P(n)) = K(n)
  <2>1. n \in S
    BY <1>4, <1>10
  <2>2. QED
    BY <2>1 DEF S
<1>12. QED
  BY <1>4, <1>5, <1>11 DEF N

\* Cleaning a path changes no name, and leaves none to be cleaned.
LEMMA CleanNames ==
  ASSUME NEW p \in Seq(Strings)
  PROVE  Clean(p) \in Seq(Strings) /\ Names(Clean(p)) = Names(p)
<1>1. Names(<<"">>) = <<>>
  <2>1. Names(<<"">>) = Enter(<<>>, "")
    BY Slash, NoNames, NamesOfAppend
  <2>2. QED
    BY <2>1 DEF Enter
<1>2. <<"">> \in Seq(Strings)
  BY Slash
<1>3. CASE Names(p) = <<>>
  <2>1. Names(Root) = Enter(<<>>, "")
    BY <1>1, Slash, NamesOfAppend
  <2>2. QED
    BY <1>3, <2>1, Slash DEF Clean, Enter
<1>4. CASE Names(p) # <<>>
  <2>1. Names(p) \in Seq(Plain) /\ Names(p) \in Seq(Strings)
    BY NamesType, PlainStrings
  <2>2. Names(<<"">> \o Names(p)) = <<>> \o Names(p)
    BY <1>1, <1>2, <2>1, NamesOfPlain
  <2>3. <<>> \o Names(p) = Names(p) /\ <<"">> \o Names(p) \in Seq(Strings)
    BY <1>2, <2>1, ConcatEmptySeq, ConcatProperties
  <2>4. QED
    BY <1>4, <2>2, <2>3 DEF Clean
<1>5. QED
  BY <1>3, <1>4

\* Where the names of a path lead from those of another.
Below(p, names) == <<"">> \o (Names(p) \o names)

\* A path of names alone, with and without a slash before it, is joined to
\* another as it is.
LEMMA Joined ==
  ASSUME NEW p \in Seq(Strings), NEW q \in Seq(Plain), q # <<>>
  PROVE  /\ Below(p, q) \in Seq(Strings) /\ Names(Below(p, q)) = Names(p) \o q
         /\ PathJoin(p, q) = Below(p, q)
         /\ PathJoin(p, <<"">> \o q) = Below(p, q)
         /\ JoinPaths(p, <<"">> \o q) = Below(p, q)
<1> DEFINE N == Names(p)
<1>1. q \in Seq(Strings) /\ N \in Seq(Plain) /\ N \in Seq(Strings)
  BY NamesType, PlainStrings
<1>2. <<"">> \in Seq(Strings) /\ "" \in Strings
  BY Slash
<1> HIDE DEF N
<1>3. Names(p \o q) = N \o q /\ p \o q \in Seq(Strings)
  BY <1>1, NamesOfPlain, ConcatProperties DEF N
<1>4. N \o q # <<>> /\ N \o q \in Seq(Plain)
  BY <1>1, ConcatProperties, ConcatEqualIffEmpty
<1>5. Clean(p \o q) = Below(p, q)
  BY <1>3, <1>4 DEF Clean, Below, N
<1>6. Names(p \o (<<"">> \o q)) = N \o q /\ p \o (<<"">> \o q) \in Seq(Strings)
  <2>1. Append(p, "") = p \o <<"">>  /\ Append(p, "") \in Seq(Strings)
    BY <1>2, AppendIsConcat, AppendProperties
  <2>2. Append(p, "") \o q = p \o (<<"">> \o q)
    <3> DEFINE s == <<"">>
    <3>1. (p \o s) \o q = p \o (s \o q)
      <4> HIDE DEF s
      <4>1. s \in Seq(Strings)
        BY <1>2 DEF s
      <4>2. QED
        BY <1>1, <4>1, Associative
    <3>2. QED
      BY <2>1, <3>1
  <2>3. Names(Append(p, "")) = N
    BY <1>2, NamesOfAppend DEF N, Enter
  <2>4. Names(Append(p, "") \o q) = N \o q
    BY <2>1, <2>3, NamesOfPlain
  <2>5. Append(p, "") \o q \in Seq(Strings)
    BY <1>1, <2>1, ConcatProperties
  <2>6. QED
    BY <2>2, <2>4, <2>5
<1>7. Clean(p \o (<<"">> \o q)) = Below(p, q)
  BY <1>4, <1>6 DEF Clean, Below, N
<1>8. ~EndsInSlash(<<"">> \o q) /\ <<"">> \o q # <<"">>
  <2> DEFINE n == Len(q)
             r == <<"">> \o q
  <2>1. n \in Nat \ {0}
    BY EmptySeq
  <2>2. q[n] \in Plain
    BY <2>1, ElementOfSeq
  <2>3. Len(r) = n + 1
    BY <1>1, <1>2, Prefixed
  <2>4. r[n + 1] = q[n]
    <3>1. \A i \in 1..n : r[i + 1] = q[i]
      BY <1>1, <1>2, Prefixed
    <3> HIDE DEF n, r
    <3>2. QED
      BY <2>1, <3>1
  <2> HIDE DEF n, r
  <2>5. q[n] # ""
    BY <2>2 DEF Plain
  <2>6. r[Len(r)] # "" /\ Len(r) # 1
    <3>1. Len(r) # 1
      BY <2>1, <2>3
    <3>2. QED
      BY <2>3, <2>4, <2>5, <3>1
  <2>7. r # <<"">>
    <3>1. Len(<<"">>) = 1
      OBVIOUS
    <3>2. QED
      BY <2>6, <3>1
  <2>8. QED
    BY <2>6, <2>7 DEF EndsInSlash, Last, r
<1>9. JoinPaths(p, <<"">> \o q) = Below(p, q)
  BY <1>7, <1>8 DEF JoinPaths
<1>10. QED
  BY <1>3, <1>4, <1>5, <1>6, <1>7, <1>9, CleanNames DEF PathJoin, N

LEMMA Words ==
  /\ "health" \in Plain /\ "status" \in Plain
  /\ "api" \in Plain /\ "search" \in Plain /\ "query" \in Plain
  BY DEF Plain, Strings

LEMMA Phrases ==
  /\ <<"health">> \in Seq(Plain) /\ <<"status">> \in Seq(Plain) /\ <<"api">> \in Seq(Plain)
  /\ <<"search", "query">> \in Seq(Plain) /\ <<"api", "search", "query">> \in Seq(Plain)
  BY Words

LEMMA Rooted ==
  /\ <<"", "health">> = <<"">> \o <<"health">> /\ <<"", "status">> = <<"">> \o <<"status">>
  /\ <<"", "api">> = <<"">> \o <<"api">>
  /\ <<"", "search", "query">> = <<"">> \o <<"search", "query">>
  /\ <<"api", "search", "query">> = <<"api">> \o <<"search", "query">>
<1>1. ASSUME NEW a, NEW b PROVE <<a, b>> = <<a>> \o <<b>>
  <2> DEFINE S == {a, b}
             s == <<a>>
  <2>1. s \in Seq(S) /\ b \in S
    OBVIOUS
  <2>2. <<a, b>> = Append(s, b)
    BY Pair
  <2> HIDE DEF S, s
  <2>3. Append(s, b) = s \o <<b>>
    BY <2>1, AppendIsConcat
  <2>4. QED
    BY <2>2, <2>3 DEF s
<1>2. ASSUME NEW a, NEW b, NEW d PROVE <<a, b, d>> = <<a>> \o <<b, d>>
  OBVIOUS
<1>3. QED
  BY <1>1, <1>2, Zenon

LEMMA NeverEmpty ==
  ASSUME NEW p \in Seq(Strings), NEW q \in Seq(Strings)
  PROVE  PathJoin(p, q) # <<>>
<1> DEFINE r == p \o q
           N == Names(r)
           s == <<"">>
<1>1. r \in Seq(Strings)
  BY ConcatProperties
<1> HIDE DEF r
<1>2. N \in Seq(Strings)
  BY <1>1, NamesType, PlainStrings
<1>3. s \in Seq(Strings) /\ s # <<>> /\ Root # <<>>
  BY Slash DEF Root
<1> HIDE DEF N, s
<1>4. s \o N # <<>>
  BY <1>2, <1>3, ConcatEqualIffEmpty
<1>5. QED
  BY <1>3, <1>4 DEF PathJoin, Clean, N, r, s

\* gin's joining changes no name either.
LEMMA JoinNames ==
  ASSUME NEW base \in Seq(Strings), NEW p \in Seq(Strings), p # <<"">>
  PROVE  JoinPaths(base, p) \in Seq(Strings) /\ Names(JoinPaths(base, p)) = Names(base \o p)
<1> DEFINE joined == Clean(base \o p)
<1>1. joined \in Seq(Strings) /\ Names(joined) = Names(base \o p)
  BY CleanNames, ConcatProperties
<1> HIDE DEF joined
<1>2. Append(joined, "") \in Seq(Strings)
  BY <1>1, Slash, AppendProperties
<1>3. Names(Append(joined, "")) = Names(joined)
  BY <1>1, Slash, NamesOfAppend DEF Enter
<1>4. JoinPaths(base, p) \in {joined, Append(joined, "")}
  BY DEF JoinPaths, joined
<1>5. QED
  BY <1>1, <1>2, <1>3, <1>4

LEMMA SlashNames == Names(<<"">>) = <<>> /\ Names(Root) = <<>>
<1>1. Names(<<"">>) = Enter(<<>>, "")
  BY Slash, NoNames, NamesOfAppend
<1>2. Names(Root) = Enter(Names(<<"">>), "")
  BY Slash, NamesOfAppend
<1>3. QED
  BY <1>1, <1>2 DEF Enter

LEMMA BaseNames ==
  ASSUME NEW c \in Configs
  PROVE  /\ c.contextPath \in Seq(Strings) /\ c.path \in Seq(Strings)
         /\ Base(c) \in Seq(Strings) /\ Names(Base(c)) = Names(c.contextPath)
<1> DEFINE x == c.contextPath
<1>1. x \in Seq(Strings) /\ c.path \in Seq(Strings)
  <2>1. x \in Seq(STRING) /\ c.path \in Seq(STRING)
    BY ConfigsAssumption
  <2>2. STRING \subseteq Strings
    BY DEF Strings
  <2>3. QED
    BY <2>1, <2>2, Wider
<1> HIDE DEF x
<1>2. Base(c) = JoinPaths(Root, x)
  BY DEF Base, x
<1>3. CASE x = <<"">>
  BY <1>1, <1>2, <1>3, Slash, SlashNames DEF JoinPaths, x
<1>4. CASE x # <<"">>
  <2> DEFINE e == <<>>
  <2>1. e \in Seq(Strings) /\ Names(Root) = Names(e) /\ e \o x = x
    BY <1>1, Slash, SlashNames, NoNames, ConcatEmptySeq
  <2> HIDE DEF e
  <2>2. Names(Root \o x) = Names(e \o x)
    BY <1>1, <2>1, Slash, NamesOfLonger
  <2>3. JoinPaths(Root, x) \in Seq(Strings) /\ Names(JoinPaths(Root, x)) = Names(Root \o x)
    BY <1>1, <1>4, Slash, JoinNames
  <2>4. QED
    BY <1>1, <1>2, <2>1, <2>2, <2>3 DEF x
<1>5. QED
  BY <1>3, <1>4

\* Different names lead to different places, none of which ends in a slash.
LEMMA Distinct ==
  ASSUME NEW p \in Seq(Strings), NEW q \in Seq(Plain), NEW r \in Seq(Plain),
         Below(p, q) = Below(p, r)
  PROVE  q = r
<1> DEFINE N == Names(p)
           s == <<"">>
<1>1. N \in Seq(Strings) /\ q \in Seq(Strings) /\ r \in Seq(Strings) /\ s \in Seq(Strings)
  BY NamesType, PlainStrings, Slash
<1>2. s \o (N \o q) = s \o (N \o r)
  BY DEF Below
<1> HIDE DEF N, s
<1>3. N \o q \in Seq(Strings) /\ N \o r \in Seq(Strings)
  BY <1>1, ConcatProperties
<1>4. \A a, u, v \in Seq(Strings) : a \o u = a \o v => u = v
  BY ConcatSimplifications
<1>5. N \o q = N \o r
  BY <1>1, <1>2, <1>3, <1>4
<1>6. QED
  BY <1>1, <1>4, <1>5

\* What a place below another ends in, and what comes after the names of that one.
LEMMA PartsBelow ==
  ASSUME NEW p \in Seq(Strings), NEW q \in Seq(Plain), q # <<>>
  PROVE  LET b == Len(Names(p)) + 1
             k == Below(p, q)
         IN  /\ b \in Nat \ {0} /\ Len(q) \in Nat \ {0}
             /\ k \in Seq(Strings) /\ Len(k) = b + Len(q)
             /\ \A i \in 1..Len(q) : k[b + i] = q[i]
             /\ Last(k) = q[Len(q)] /\ Last(k) \in Plain
<1> DEFINE N == Names(p)
           n == Len(q)
           t == N \o q
           k == <<"">> \o t
           b == Len(N) + 1
<1>1. N \in Seq(Strings) /\ q \in Seq(Strings)
  BY NamesType, PlainStrings
<1> HIDE DEF N
<1>2. /\ t \in Seq(Strings) /\ Len(N) \in Nat /\ n \in Nat \ {0} /\ Len(t) = Len(N) + n
      /\ \A i \in 1..n : t[Len(N) + i] = q[i]
  <2>1. n \in Nat \ {0} /\ Len(N) \in Nat
    BY <1>1, EmptySeq
  <2>2. /\ t \in Seq(Strings) /\ Len(t) = Len(N) + n
        /\ \A i \in 1..(Len(N) + n) : t[i] = IF i <= Len(N) THEN N[i] ELSE q[i - Len(N)]
    BY <1>1, ConcatProperties
  <2> HIDE DEF n, t
  <2>3. ASSUME NEW i \in 1..n PROVE t[Len(N) + i] = q[i]
    <3>1. /\ Len(N) + i \in 1..(Len(N) + n) /\ ~(Len(N) + i <= Len(N))
          /\ (Len(N) + i) - Len(N) = i
      BY <2>1
    <3>2. t[Len(N) + i] = q[(Len(N) + i) - Len(N)]
      BY <2>2, <3>1
    <3>3. QED
      BY <3>1, <3>2
  <2>4. QED
    BY <2>1, <2>2, <2>3
<1>3. q[n] \in Plain
  BY <1>2, ElementOfSeq
<1> HIDE DEF t, n
<1>4. k \in Seq(Strings) /\ Len(k) = Len(t) + 1 /\ \A i \in 1..Len(t) : k[i + 1] = t[i]
  <2>1. "" \in Strings /\ t \in Seq(Strings)
    BY <1>2, Slash
  <2>2. QED
    BY <2>1, Prefixed
<1> HIDE DEF k
<1>5. ASSUME NEW i \in 1..n PROVE k[b + i] = q[i]
  <2>1. Len(N) + i \in 1..Len(t) /\ (Len(N) + i) + 1 = b + i
    BY <1>2
  <2>2. k[(Len(N) + i) + 1] = t[Len(N) + i]
    BY <1>4, <2>1
  <2>3. QED
    BY <1>2, <2>1, <2>2
<1>6. b \in Nat \ {0} /\ Len(k) = b + n
  BY <1>2, <1>4
<1>7. Last(k) = q[n]
  <2>1. Last(k) = k[b + n]
    BY <1>6 DEF Last
  <2>2. QED
    BY <1>2, <1>5, <2>1
<1>8. k = Below(p, q)
  BY DEF k, t, N, Below
<1>9. QED
  BY <1>2, <1>3, <1>4, <1>5, <1>6, <1>7, <1>8 DEF n, N

LEMMA NoSlashBelow ==
  ASSUME NEW p \in Seq(Strings), NEW q \in Seq(Plain), q # <<>>
  PROVE  Last(Below(p, q)) # ""
  BY PartsBelow DEF Plain

\* Where New mounts the probes and the operation, and what it takes for a probe.
LEMMA Mounted ==
  ASSUME NEW c \in Configs
  PROVE  LET x == c.contextPath IN
         /\ JoinPaths(Base(c), <<"", "health">>) = Below(x, <<"health">>)
         /\ JoinPaths(Base(c), <<"", "status">>) = Below(x, <<"status">>)
         /\ JoinPaths(Api(c), <<"", "search", "query">>) = Below(x, <<"api", "search", "query">>)
         /\ PathJoin(x, <<"health">>) = Below(x, <<"health">>)
         /\ PathJoin(x, <<"status">>) = Below(x, <<"status">>)
         /\ PathJoin(ServerURL(c), <<"search", "query">>) = Below(x, <<"api", "search", "query">>)
<1> DEFINE x == c.contextPath
<1>1. x \in Seq(Strings) /\ Base(c) \in Seq(Strings) /\ Names(Base(c)) = Names(x)
  BY BaseNames
<1> HIDE DEF x
<1>2. \A q : Below(Base(c), q) = Below(x, q)
  BY <1>1 DEF Below
<1>3. <<"health">> # <<>> /\ <<"status">> # <<>> /\ <<"api">> # <<>> /\ <<"search", "query">> # <<>>
  OBVIOUS
<1>4. /\ JoinPaths(Base(c), <<"", "health">>) = Below(x, <<"health">>)
      /\ JoinPaths(Base(c), <<"", "status">>) = Below(x, <<"status">>)
      /\ Api(c) = Below(x, <<"api">>)
  BY <1>1, <1>2, <1>3, Phrases, Rooted, Joined DEF Api
<1>5. /\ PathJoin(x, <<"health">>) = Below(x, <<"health">>)
      /\ PathJoin(x, <<"status">>) = Below(x, <<"status">>)
      /\ ServerURL(c) = Below(x, <<"api">>)
  BY <1>1, <1>3, Phrases, Joined DEF ServerURL, x
<1>6. LET a == Below(x, <<"api">>) IN
      a \in Seq(Strings) /\ Below(a, <<"search", "query">>) = Below(x, <<"api", "search", "query">>)
  <2> DEFINE a == Below(x, <<"api">>)
             N == Names(x)
             s == <<"api">>
             t == <<"search", "query">>
  <2>1. a \in Seq(Strings) /\ Names(a) = N \o s
    BY <1>1, <1>3, Phrases, Joined
  <2>2. N \in Seq(Plain) /\ s \in Seq(Plain) /\ t \in Seq(Plain)
    BY <1>1, NamesType, Phrases
  <2>3. s \o t = <<"api", "search", "query">>
    BY Rooted
  <2> HIDE DEF a, N, s, t
  <2>4. (N \o s) \o t = N \o (s \o t)
    <3>1. N \in Seq(Strings) /\ s \in Seq(Strings) /\ t \in Seq(Strings)
      BY <2>2, PlainStrings
    <3>2. QED
      BY <3>1, Associative
  <2>5. QED
    BY <2>1, <2>3, <2>4 DEF Below, a, N, s, t
<1>7. /\ JoinPaths(Api(c), <<"", "search", "query">>) = Below(x, <<"api", "search", "query">>)
      /\ PathJoin(ServerURL(c), <<"search", "query">>) = Below(x, <<"api", "search", "query">>)
  BY <1>3, <1>4, <1>5, <1>6, Phrases, Rooted, Joined
<1>8. QED
  BY <1>4, <1>5, <1>7 DEF x

\* The scrape that telemetry.Setup has accepted, other than at the root.
LEMMA ScrapeMounted ==
  ASSUME NEW c \in Configs, ValidPrometheus(c), c.port = 0, c.path # Root
  PROVE  LET x == c.contextPath
             s == Names(c.path)
         IN  /\ s \in Seq(Plain) /\ s # <<>> /\ c.path = <<"">> \o s
             /\ s \notin {<<"health">>, <<"status">>, <<"api", "search", "query">>}
             /\ JoinPaths(Base(c), c.path) = Below(x, s)
             /\ PathJoin(x, c.path) = Below(x, s)
<1> DEFINE x == c.contextPath
           s == Names(c.path)
<1>1. /\ x \in Seq(Strings) /\ c.path \in Seq(Strings)
      /\ Base(c) \in Seq(Strings) /\ Names(Base(c)) = Names(x)
  BY BaseNames
<1>2. s \in Seq(Plain)
  BY <1>1, NamesType
<1>3. s # <<>> /\ c.path = <<"">> \o s
  <2>1. Clean(c.path) = c.path
    BY DEF ValidPrometheus
  <2>2. QED
    BY <2>1, Zenon DEF Clean
<1>4. ~ClashesWithBuiltInRoutes(c.path)
  BY DEF ValidPrometheus
<1> HIDE DEF x, s
<1>5. s # <<"health">> /\ s # <<"status">>
  BY <1>3, <1>4, Rooted DEF ClashesWithBuiltInRoutes
<1>6. s # <<"api", "search", "query">>
  <2>1. SUFFICES ASSUME s = <<"api", "search", "query">> PROVE FALSE
    OBVIOUS
  <2> DEFINE t == <<"api", "search", "query">>
  <2>2. t[1] = "api" /\ Len(t) = 3
    OBVIOUS
  <2>3. t \in Seq(Strings) /\ s = t
    BY <2>1, Phrases, PlainStrings
  <2> HIDE DEF t
  <2>4. c.path = <<"">> \o t
    BY <1>3, <2>3
  <2>5. /\ Len(<<"">> \o t) = Len(t) + 1
        /\ \A i \in 1..Len(t) : (<<"">> \o t)[i + 1] = t[i]
    BY <2>3, Slash, Prefixed
  <2>6. Len(c.path) = 4 /\ c.path[2] = "api"
    <3> DEFINE u == <<"">> \o t
    <3>1. c.path = u /\ Len(u) = Len(t) + 1 /\ \A i \in 1..Len(t) : u[i + 1] = t[i]
      BY <2>4, <2>5
    <3> HIDE DEF u
    <3>2. 1 \in 1..Len(t) /\ 1 + 1 = 2
      BY <2>2
    <3>3. u[1 + 1] = t[1]
      BY <3>1, <3>2
    <3>4. Len(u) = 4 /\ u[2] = "api"
      BY <2>2, <3>1, <3>2, <3>3
    <3>5. QED
      BY <3>1, <3>4
  <2>7. QED
    BY <1>4, <2>6 DEF ClashesWithBuiltInRoutes
<1>7. JoinPaths(Base(c), c.path) = Below(x, s) /\ PathJoin(x, c.path) = Below(x, s)
  <2>1. JoinPaths(Base(c), <<"">> \o s) = Below(Base(c), s)
    BY <1>1, <1>2, <1>3, Joined
  <2>2. PathJoin(x, <<"">> \o s) = Below(x, s)
    BY <1>1, <1>2, <1>3, Joined
  <2>3. Below(Base(c), s) = Below(x, s)
    BY <1>1 DEF Below
  <2>4. QED
    BY <1>3, <2>1, <2>2, <2>3
<1>8. QED
  BY <1>2, <1>3, <1>5, <1>6, <1>7 DEF x, s

\* The scrape at the root of the service: below a context path it keeps its
\* slash, which path.Join drops.
LEMMA BareMounted ==
  ASSUME NEW c \in Configs
  PROVE  /\ Last(JoinPaths(Base(c), Root)) = ""
         /\ Base(c) = Root => /\ JoinPaths(Base(c), Root) = Root
                              /\ PathJoin(c.contextPath, Root) = Root
<1> DEFINE x == c.contextPath
           joined == Clean(Base(c) \o Root)
<1>1. x \in Seq(Strings) /\ Base(c) \in Seq(Strings) /\ Names(Base(c)) = Names(x)
  BY BaseNames
<1> HIDE DEF x
<1>2. EndsInSlash(Root) /\ Root # <<"">>
  BY DEF EndsInSlash, Last, Root
<1>3. joined \in Seq(Strings)
  BY <1>1, Slash, ConcatProperties, CleanNames
<1> HIDE DEF joined
<1>4. Last(JoinPaths(Base(c), Root)) = ""
  <2>1. JoinPaths(Base(c), Root) = IF ~EndsInSlash(joined) THEN Append(joined, "") ELSE joined
    BY <1>2 DEF JoinPaths, joined
  <2>2. Len(Append(joined, "")) = Len(joined) + 1 /\ Append(joined, "")[Len(joined) + 1] = ""
    <3>1. "" \in Strings
      BY Slash
    <3>2. QED
      BY <1>3, <3>1, AppendProperties
  <2>3. Last(Append(joined, "")) = ""
    BY <2>2 DEF Last
  <2>4. QED
    BY <2>1, <2>3 DEF EndsInSlash
<1>5. ASSUME NEW p \in Seq(Strings), Names(p) = <<>> PROVE Clean(p \o Root) = Root
  <2>1. p \o Root = Append(Append(p, ""), "") /\ Append(p, "") \in Seq(Strings)
    <3> DEFINE e == <<"">>
               q == Append(p, "")
    <3>1. e \in Seq(Strings) /\ Root = e \o e /\ q = p \o e /\ q \in Seq(Strings)
      BY Slash, AppendIsConcat, AppendProperties
    <3>2. Append(q, "") = q \o e
      BY <3>1, Slash, AppendIsConcat
    <3> HIDE DEF e, q
    <3>3. (p \o e) \o e = p \o (e \o e)
      BY <3>1, Associative
    <3>4. QED
      BY <3>1, <3>2, <3>3 DEF q
  <2>2. Names(Append(Append(p, ""), "")) = Names(p)
    <3> DEFINE q == Append(p, "")
    <3>1. "" \in Strings /\ q \in Seq(Strings)
      BY <2>1, Slash
    <3>2. Names(q) = Enter(Names(p), "")
      BY <3>1, NamesOfAppend
    <3> HIDE DEF q
    <3>3. Names(Append(q, "")) = Enter(Names(q), "")
      BY <3>1, NamesOfAppend
    <3>4. QED
      BY <3>2, <3>3 DEF Enter, q
  <2>3. QED
    BY <1>5, <2>1, <2>2 DEF Clean
<1>6. ASSUME Base(c) = Root
      PROVE  JoinPaths(Base(c), Root) = Root /\ PathJoin(x, Root) = Root
  <2>1. Names(Root) = <<>> /\ Names(x) = <<>>
    BY <1>1, <1>6, SlashNames
  <2>2. joined = Root /\ Clean(x \o Root) = Root
    BY <1>1, <1>5, <1>6, <2>1, Slash DEF joined
  <2>3. QED
    BY <1>2, <1>6, <2>2 DEF JoinPaths, PathJoin, joined
<1>7. QED
  BY <1>4, <1>6 DEF x

\* The scrape on the main server, of settings Setup accepts.
Scrape(c) == JoinPaths(Base(c), c.path)

LEMMA ThreeDistinct ==
  ASSUME NEW p \in Seq(Strings)
  PROVE  /\ Below(p, <<"health">>) # Below(p, <<"status">>)
         /\ Below(p, <<"health">>) # Below(p, <<"api", "search", "query">>)
         /\ Below(p, <<"status">>) # Below(p, <<"api", "search", "query">>)
<1>1. /\ <<"health">> # <<"status">>
      /\ <<"health">> # <<"api", "search", "query">> /\ <<"status">> # <<"api", "search", "query">>
  OBVIOUS
<1>2. QED
  BY <1>1, Phrases, Distinct

LEMMA ScrapeApart ==
  ASSUME NEW c \in Configs, ValidPrometheus(c), c.port = 0
  PROVE  /\ Scrape(c) # Below(c.contextPath, <<"health">>)
         /\ Scrape(c) # Below(c.contextPath, <<"status">>)
         /\ Scrape(c) # Below(c.contextPath, <<"api", "search", "query">>)
         /\ c.path # Root \/ Base(c) = Root => PathJoin(c.contextPath, c.path) = Scrape(c)
<1>1. c.contextPath \in Seq(Strings)
  BY BaseNames
<1>2. CASE c.path = Root
  <2>1. Last(Scrape(c)) = ""
    BY <1>2, BareMounted DEF Scrape
  <2>2. Base(c) = Root => PathJoin(c.contextPath, c.path) = Scrape(c)
    BY <1>2, BareMounted DEF Scrape
  <2>3. <<"health">> # <<>> /\ <<"status">> # <<>> /\ <<"api", "search", "query">> # <<>>
    OBVIOUS
  <2>4. QED
    BY <1>1, <1>2, <2>1, <2>2, <2>3, Phrases, NoSlashBelow
<1>3. CASE c.path # Root
  BY <1>1, <1>3, ScrapeMounted, Phrases, Distinct DEF Scrape
<1>4. QED
  BY <1>2, <1>3

\* No probe and no operation goes on where one of them has a catch-all.
LEMMA NamesAreNames ==
  ASSUME NEW p \in Seq(Strings), NEW k
  PROVE  /\ ~Beneath(k, Below(p, <<"health">>)) /\ ~Beneath(k, Below(p, <<"status">>))
         /\ ~Beneath(k, Below(p, <<"api", "search", "query">>))
<1>1. /\ <<"health">> # <<>> /\ Len(<<"health">>) = 1
      /\ <<"status">> # <<>> /\ Len(<<"status">>) = 1
      /\ <<"api", "search", "query">> # <<>> /\ Len(<<"api", "search", "query">>) = 3
  OBVIOUS
<1>2. /\ Last(Below(p, <<"health">>)) = "health" /\ Last(Below(p, <<"status">>)) = "status"
      /\ Last(Below(p, <<"api", "search", "query">>)) = "query"
  BY <1>1, Phrases, PartsBelow
<1>3. QED
  BY <1>2, CatchAllsAssumption DEF Beneath

\* What begins with all but the last name of one path goes on as far as that.
LEMMA GoesOn ==
  ASSUME NEW k \in Seq(Strings), NEW y \in Seq(Strings), k # <<>>, IsStrictPrefix(Front(k), y)
  PROVE  Len(k) <= Len(y) /\ \A i \in 1..(Len(k) - 1) : k[i] = y[i]
<1> DEFINE n == Len(k) - 1
           f == SubSeq(k, 1, n)
<1>1. n \in Nat /\ n <= Len(k) /\ Len(k) \in Nat /\ Len(y) \in Nat
  BY EmptySeq
<1>2. Front(k) = f
  BY DEF Front
<1>3. Len(f) = n /\ \A i \in 1..n : f[i] = k[i]
  <2>1. \A i \in 1..n : k[i] \in Strings
    BY <1>1, ElementOfSeq
  <2>2. /\ Len(f) = IF 1 <= n THEN n - 1 + 1 ELSE 0
        /\ \A i \in 1..(n - 1 + 1) : f[i] = k[1 + i - 1]
    BY <1>1, <2>1, SubSeqProperties
  <2> HIDE DEF n, f
  <2>3. n - 1 + 1 = n /\ \A i \in 1..n : 1 + i - 1 = i
    BY <1>1
  <2>4. QED
    BY <1>1, <2>2, <2>3
<1> HIDE DEF f
<1>4. n <= Len(y) /\ SubSeq(f, 1, n) = SubSeq(y, 1, n) /\ f # y
  BY <1>2, <1>3 DEF IsStrictPrefix, IsPrefix
<1>5. SubSeq(f, 1, n) = f
  BY <1>1, <1>3 DEF f
<1>6. n # Len(y)
  <2>1. SUFFICES ASSUME n = Len(y) PROVE FALSE
    OBVIOUS
  <2>2. SubSeq(y, 1, Len(y)) = y
    BY SubSeqFull
  <2>3. QED
    BY <1>4, <1>5, <2>1, <2>2
<1>7. ASSUME NEW i \in 1..n PROVE k[i] = y[i]
  <2>1. SubSeq(y, 1, n)[i] = y[i]
    BY <1>1, <1>4
  <2>2. QED
    BY <1>3, <1>4, <1>5, <2>1
<1>8. QED
  BY <1>1, <1>4, <1>6, <1>7

\* None of them goes on where the scrape has a catch-all either, unless that is
\* all of telemetry.path.
LEMMA ScrapeNotAbove ==
  ASSUME NEW c \in Configs, ValidPrometheus(c), c.port = 0,
         ~(Len(c.path) = 2 /\ c.path[2] \in CatchAlls),
         NEW r \in {<<"health">>, <<"status">>, <<"api", "search", "query">>}
  PROVE  ~Beneath(Below(c.contextPath, r), Scrape(c))
<1> DEFINE p == c.contextPath
           k == Scrape(c)
           y == Below(p, r)
<1>1. p \in Seq(Strings) /\ c.path \in Seq(Strings)
  BY BaseNames
<1>2. CASE c.path = Root
  BY <1>2, BareMounted, CatchAllsAssumption DEF Beneath, Scrape
<1>3. CASE c.path # Root
  <2> DEFINE s == Names(c.path)
             b == Len(Names(p)) + 1
  <2>1. /\ s \in Seq(Plain) /\ s # <<>> /\ c.path = <<"">> \o s /\ k = Below(p, s)
    BY <1>3, ScrapeMounted DEF Scrape
  <2>2. r # <<>> /\ r \in Seq(Plain) /\ (r[1] = "api" \/ Len(r) = 1)
    <3>1. CASE r = <<"health">>
      BY <3>1, Phrases
    <3>2. CASE r = <<"status">>
      BY <3>2, Phrases
    <3>3. CASE r = <<"api", "search", "query">>
      <4>1. r # <<>> /\ r[1] = "api"
        BY <3>3
      <4>2. QED
        BY <3>3, <4>1, Phrases
    <3>4. QED
      BY <3>1, <3>2, <3>3
  <2> HIDE DEF s, p, k, y
  <2>3. /\ b \in Nat \ {0} /\ Len(s) \in Nat \ {0} /\ k \in Seq(Strings)
        /\ Len(k) = b + Len(s) /\ Last(k) = s[Len(s)]
        /\ \A i \in 1..Len(s) : k[b + i] = s[i]
    <3>1. s \in Seq(Plain) /\ s # <<>> /\ k = Below(p, s) /\ p \in Seq(Strings)
      BY <1>1, <2>1
    <3>2. QED
      BY <3>1, PartsBelow
  <2>4. /\ Len(r) \in Nat \ {0} /\ y \in Seq(Strings) /\ Len(y) = b + Len(r)
        /\ \A i \in 1..Len(r) : y[b + i] = r[i]
    BY <1>1, <2>2, PartsBelow DEF y
  <2>5. /\ Len(c.path) = Len(s) + 1 /\ c.path[2] = s[1]
    <3>1. s \in Seq(Strings)
      BY <2>1, PlainStrings
    <3>2. /\ Len(<<"">> \o s) = Len(s) + 1
          /\ \A i \in 1..Len(s) : (<<"">> \o s)[i + 1] = s[i]
      BY <3>1, Slash, Prefixed
    <3> DEFINE u == <<"">> \o s
    <3>3. c.path = u /\ Len(u) = Len(s) + 1 /\ \A i \in 1..Len(s) : u[i + 1] = s[i]
      BY <2>1, <3>2
    <3> HIDE DEF u
    <3>4. 1 \in 1..Len(s) /\ 1 + 1 = 2
      BY <2>3
    <3>5. u[1 + 1] = s[1]
      BY <3>3, <3>4
    <3>6. QED
      BY <3>3, <3>4, <3>5
  <2> HIDE DEF b
  <2>6. SUFFICES ASSUME Last(k) \in CatchAlls, IsStrictPrefix(Front(k), y) PROVE FALSE
    BY DEF Beneath, k, y, p
  <2>7. Len(s) # 1
    BY <2>3, <2>5, <2>6
  <2>8. Len(k) <= Len(y) /\ \A i \in 1..(Len(k) - 1) : k[i] = y[i]
    <3>1. k # <<>>
      BY <2>3
    <3>2. QED
      BY <2>3, <2>4, <2>6, <3>1, GoesOn
  <2>9. Len(s) <= Len(r) /\ s[1] = r[1]
    <3> DEFINE n == Len(s)
               m == Len(r)
    <3>1. n \in Nat \ {0} /\ n # 1 /\ m \in Nat \ {0} /\ Len(k) = b + n /\ Len(y) = b + m
      BY <2>3, <2>4, <2>7
    <3>2. k[b + 1] = s[1] /\ y[b + 1] = r[1]
      <4>1. 1 \in 1..n /\ 1 \in 1..m
        BY <3>1
      <4>2. QED
        BY <2>3, <2>4, <4>1
    <3> HIDE DEF n, m
    <3>3. b + 1 \in 1..(Len(k) - 1) /\ n <= m
      BY <2>3, <2>8, <3>1
    <3>4. k[b + 1] = y[b + 1]
      BY <2>8, <3>3
    <3>5. QED
      BY <3>2, <3>3, <3>4 DEF n, m
  <2>10. s[1] = "api"
    <3> DEFINE n == Len(s)
               m == Len(r)
    <3>1. n \in Nat \ {0} /\ n # 1 /\ n <= m
      BY <2>3, <2>7, <2>9
    <3> HIDE DEF n, m
    <3>2. m # 1
      BY <3>1
    <3>3. QED
      BY <2>2, <2>9, <3>2 DEF m
  <2>11. Len(c.path) > 2 /\ c.path[2] = "api"
    <3> DEFINE n == Len(s)
    <3>1. n \in Nat \ {0} /\ n # 1 /\ Len(c.path) = n + 1
      BY <2>3, <2>5, <2>7
    <3> HIDE DEF n
    <3>2. Len(c.path) > 2
      BY <3>1
    <3>3. QED
      BY <2>5, <2>10, <3>2
  <2>12. QED
    BY <2>11 DEF ValidPrometheus, ClashesWithBuiltInRoutes
<1>4. QED
  BY <1>2, <1>3

\* What each route of the server is.
LEMMA RoutesOf ==
  ASSUME NEW c \in Configs
  PROVE  LET x == c.contextPath IN
         Routes(c) =
           (IF ScrapedOnMain(c) THEN {[serves |-> "scrape", at |-> Scrape(c)]} ELSE {}) \cup
           { [serves |-> "health",  at |-> Below(x, <<"health">>)],
             [serves |-> "status",  at |-> Below(x, <<"status">>)],
             [serves |-> "module",  at |-> Below(x, <<"api", "search", "query">>)],
             [serves |-> "version", at |-> JoinPaths(Root, <<"", "version">>)] }
  BY Mounted, Zenon DEF Routes, Scrape

LEMMA QuietOf ==
  ASSUME NEW c \in Configs
  PROVE  LET x == c.contextPath IN
         Quiet(c) = {Below(x, <<"health">>), Below(x, <<"status">>)} \cup
                    (IF ScrapedOnMain(c) THEN {PathJoin(x, c.path)} ELSE {})
  BY Mounted DEF Quiet

\* Settings that Setup lets a service have.
Accepted(c) == c.enabled => Validate(c)

LEMMA ScrapeValid ==
  ASSUME NEW c \in Configs, Accepted(c), ScrapedOnMain(c)
  PROVE  ValidPrometheus(c) /\ c.port = 0
  BY DEF Accepted, ScrapedOnMain, Validate

LEMMA Unshadowed ==
  ASSUME NEW c \in Configs, Accepted(c), NEW x \in Routes(c), NEW y \in Routes(c),
         x # y, Exclusive(x.at, y.at),
         ~(ScrapedOnMain(c) /\ Len(c.path) = 2 /\ c.path[2] \in CatchAlls)
  PROVE  "version" \in {x.serves, y.serves}
<1> DEFINE p == c.contextPath
           h == Below(p, <<"health">>)
           s == Below(p, <<"status">>)
           m == Below(p, <<"api", "search", "query">>)
           v == JoinPaths(Root, <<"", "version">>)
           k == Scrape(c)
<1>1. h # s /\ h # m /\ s # m
  BY BaseNames, ThreeDistinct
<1>2. ScrapedOnMain(c) => k # h /\ k # s /\ k # m
  BY ScrapeValid, ScrapeApart
<1>3. Routes(c) = (IF ScrapedOnMain(c) THEN {[serves |-> "scrape", at |-> k]} ELSE {}) \cup
                  { [serves |-> "health",  at |-> h], [serves |-> "status",  at |-> s],
                    [serves |-> "module",  at |-> m], [serves |-> "version", at |-> v] }
  BY RoutesOf, Zenon
<1>4. \A q : ~Beneath(q, h) /\ ~Beneath(q, s) /\ ~Beneath(q, m)
  BY BaseNames, NamesAreNames
<1>5. ScrapedOnMain(c) => ~Beneath(h, k) /\ ~Beneath(s, k) /\ ~Beneath(m, k)
  BY ScrapeValid, ScrapeNotAbove
<1> HIDE DEF h, s, m, v, k
<1>6. QED
  BY <1>1, <1>2, <1>3, <1>4, <1>5 DEF Exclusive

LEMMA ProbesAreQuiet ==
  ASSUME NEW c \in Configs, Accepted(c), ~Unmountable(Routes(c)),
         ~(ScrapedOnMain(c) /\ c.path = Root /\ Base(c) # Root),
         NEW t \in Routes(c) \cup {NoRoute}
  PROVE  t.at \in Quiet(c) <=> t.serves \in Probes
<1> DEFINE p == c.contextPath
           h == Below(p, <<"health">>)
           s == Below(p, <<"status">>)
           m == Below(p, <<"api", "search", "query">>)
           v == JoinPaths(Root, <<"", "version">>)
           k == Scrape(c)
<1>1. h # s /\ h # m /\ s # m
  BY BaseNames, ThreeDistinct
<1>2. ScrapedOnMain(c) => k # h /\ k # s /\ k # m /\ PathJoin(p, c.path) = k
  BY ScrapeValid, ScrapeApart
<1>3. Routes(c) = (IF ScrapedOnMain(c) THEN {[serves |-> "scrape", at |-> k]} ELSE {}) \cup
                  { [serves |-> "health",  at |-> h], [serves |-> "status",  at |-> s],
                    [serves |-> "module",  at |-> m], [serves |-> "version", at |-> v] }
  BY RoutesOf, Zenon
<1>4. Quiet(c) = {h, s} \cup (IF ScrapedOnMain(c) THEN {k} ELSE {})
  BY <1>2, QuietOf
<1>5. h # <<>> /\ s # <<>> /\ (ScrapedOnMain(c) => k # <<>>)
  <2>1. h = PathJoin(p, <<"health">>) /\ s = PathJoin(p, <<"status">>)
    BY Mounted
  <2>2. p \in Seq(Strings) /\ c.path \in Seq(Strings)
    BY BaseNames
  <2>3. <<"health">> \in Seq(Strings) /\ <<"status">> \in Seq(Strings)
    BY Phrases, PlainStrings
  <2> HIDE DEF p, h, s, k
  <2>4. QED
    BY <1>2, <2>1, <2>2, <2>3, NeverEmpty
<1> HIDE DEF p, h, s, m, v, k
<1>6. v # h /\ v # s /\ (ScrapedOnMain(c) => v # k)
  <2> DEFINE scrape == [serves |-> "scrape", at |-> k]
             health == [serves |-> "health",  at |-> h]
             status == [serves |-> "status",  at |-> s]
             version == [serves |-> "version", at |-> v]
  <2>1. {health, status, version} \subseteq Routes(c) /\ (ScrapedOnMain(c) => scrape \in Routes(c))
    BY <1>3
  <2>2. version # health /\ version # status /\ version # scrape
    OBVIOUS
  <2>3. version.at = v /\ health.at = h /\ status.at = s /\ scrape.at = k
    OBVIOUS
  <2> HIDE DEF scrape, health, status, version
  <2>4. QED
    BY <2>1, <2>2, <2>3 DEF Unmountable, Exclusive
<1>7. QED
  BY <1>1, <1>2, <1>3, <1>4, <1>5, <1>6 DEF Probes, NoRoute

----------------------------------------------------------------------------
(* What is lost *)

Draining == {"draining", "drained", "exporting"}

\* With an exporter the provider is live from the end of Setup to the end of the
\* last push; the listener is gone once the server is being shut down.
PhaseInv ==
  /\ main = "setup" => provider = "none" /\ errors = {}
  /\ main \in {"ready", "built", "waiting"} \cup Draining /\ cfg.enabled => provider = "live"
  /\ main \in {"setup", "ready", "built"} => listener = "none"
  /\ main \in Draining \cup {"stopped"} => listener = "closed"

\* What ended and counts is recorded; nothing is cut before the process ends.
EndedInv ==
  /\ listener = "none" => \A r \in Requests : request[r] = "new"
  /\ \A r \in Requests : request[r] = "ended" /\ Counted(r) => r \in recorded
  /\ Alive => \A r \in Requests : request[r] # "cut"

\* While no error is logged nothing runs once the server is down, and the batch
\* is all there is to push.
DrainedInv ==
  /\ main \in {"drained", "exporting"} /\ "server" \notin errors => Running = {}
  /\ main = "exporting" /\ Pushes(cfg) /\ errors = {} => batch = recorded

LifeInv == TypeOK /\ PhaseInv /\ EndedInv /\ DrainedInv /\ NothingLostSilently

LEMMA LifeInit == Init => LifeInv
  BY DEF Init, LifeInv, TypeOK, PhaseInv, EndedInv, DrainedInv, NothingLostSilently, Running,
         Draining, Alive

LEMMA TypeStep == TypeOK /\ [Next]_vars => TypeOK'
<1> SUFFICES ASSUME TypeOK, [Next]_vars PROVE TypeOK'
  OBVIOUS
<1> USE DEF built, serving, metrics
<1>1. CASE SetupTelemetry
  BY <1>1 DEF TypeOK, SetupTelemetry, Goto
<1>2. CASE New
  BY <1>2 DEF TypeOK, New
<1>3. CASE Start
  BY <1>3 DEF TypeOK, Start, Goto
<1>4. CASE CloseServer
  BY <1>4 DEF TypeOK, CloseServer, Goto
<1>5. CASE Drained
  BY <1>5 DEF TypeOK, Drained, Goto
<1>6. CASE Collect
  BY <1>6 DEF TypeOK, Collect, Goto
<1>7. CASE Export
  BY <1>7 DEF TypeOK, Export, Goto, Exit
<1>8. CASE Signal
  BY <1>8 DEF TypeOK, Signal
<1>9. CASE Listen
  BY <1>9 DEF TypeOK, Listen, Exit
<1>10. CASE Push
  BY <1>10 DEF TypeOK, Push
<1>11. CASE Expire
  BY <1>11 DEF TypeOK, Expire
<1>12. ASSUME NEW r \in Requests, NEW to \in routes \cup {NoRoute}, Accept(r, to) PROVE TypeOK'
  BY <1>12 DEF TypeOK, Accept
<1>13. ASSUME NEW r \in Requests, End(r) PROVE TypeOK'
  BY <1>13 DEF TypeOK, End
<1>14. CASE UNCHANGED vars
  BY <1>14 DEF TypeOK, vars
<1>15. QED
  BY <1>1, <1>2, <1>3, <1>4, <1>5, <1>6, <1>7, <1>8, <1>9, <1>10, <1>11, <1>12, <1>13, <1>14
     DEF Next, Main

LEMMA LifeStep == LifeInv /\ [Next]_vars => LifeInv'
<1> SUFFICES ASSUME LifeInv, [Next]_vars PROVE LifeInv'
  OBVIOUS
<1>0. TypeOK'
  BY TypeStep DEF LifeInv
<1> USE DEF LifeInv, PhaseInv, EndedInv, DrainedInv, NothingLostSilently, Draining, Alive, Running,
            Counted, built, serving, metrics
<1>1. CASE SetupTelemetry
  BY <1>0, <1>1 DEF TypeOK, SetupTelemetry, Goto
<1>2. CASE New
  BY <1>0, <1>2 DEF TypeOK, New
<1>3. CASE Start
  BY <1>0, <1>3 DEF TypeOK, Start, Goto
<1>4. CASE CloseServer
  BY <1>0, <1>4 DEF TypeOK, CloseServer, Goto
<1>5. CASE Drained
  BY <1>0, <1>5 DEF TypeOK, Drained, Goto
<1>6. CASE Collect
  BY <1>0, <1>6 DEF TypeOK, Collect, Goto
<1>7. CASE Export
  BY <1>0, <1>7 DEF TypeOK, Export, Goto, Exit
<1>8. CASE Signal
  BY <1>0, <1>8 DEF TypeOK, Signal
<1>9. CASE Listen
  BY <1>0, <1>9 DEF TypeOK, Listen, Exit
<1>10. CASE Push
  BY <1>0, <1>10 DEF TypeOK, Push
<1>11. CASE Expire
  BY <1>0, <1>11 DEF TypeOK, Expire
<1>12. ASSUME NEW r \in Requests, NEW to \in routes \cup {NoRoute}, Accept(r, to) PROVE LifeInv'
  BY <1>0, <1>12 DEF TypeOK, Accept
<1>13. ASSUME NEW r \in Requests, End(r) PROVE LifeInv'
  BY <1>0, <1>13 DEF TypeOK, End
<1>14. CASE UNCHANGED vars
  BY <1>0, <1>14 DEF TypeOK, vars
<1>15. QED
  BY <1>1, <1>2, <1>3, <1>4, <1>5, <1>6, <1>7, <1>8, <1>9, <1>10, <1>11, <1>12, <1>13, <1>14
     DEF Next, Main

LEMMA LifeAlways == Spec => []LifeInv
  BY LifeInit, LifeStep, PTL DEF Spec

\* Every variable of Lifecycle keeps its type; what was pushed was recorded.
THEOREM TypeCorrect == Spec => []TypeOK
  BY LifeAlways, PTL DEF LifeInv

\* A service whose shutdowns log no error has ended every request it accepted
\* and had every one it measures collected.
THEOREM NothingIsLostSilently == Spec => []NothingLostSilently
  BY LifeAlways, PTL DEF LifeInv
----------------------------------------------------------------------------
(* What is served, and what of it is measured *)

\* The engine of a server that may start: of settings Setup accepts, and with
\* routes that go together.
Built ==
  /\ Accepted(cfg)
  /\ routes = Routes(cfg) /\ ~Unmountable(routes)
  /\ quiet = Quiet(cfg)

\* Nothing is mounted before Setup accepts the settings, and nothing is listened
\* on before the engine is built.
RouteInv ==
  /\ main = "setup" => routes = {}
  /\ main \notin {"setup", "dead"} \/ routes # {} => Accepted(cfg)
  /\ provider # "none" => cfg.enabled
  /\ main \in {"built", "waiting"} \/ listener # "none" => Built

\* Only what counts is recorded, when it ends.
RecordedInv == \A r \in recorded : request[r] = "ended" /\ Counted(r)

ServeInv == RouteInv /\ RecordedInv

LEMMA ServeInit == Init => ServeInv
  BY DEF Init, ServeInv, RouteInv, RecordedInv

LEMMA ServeStep == LifeInv /\ ServeInv /\ [Next]_vars => ServeInv'
<1> SUFFICES ASSUME LifeInv, ServeInv, [Next]_vars PROVE ServeInv'
  OBVIOUS
<1>0. TypeOK /\ PhaseInv /\ EndedInv
  BY DEF LifeInv
<1> USE DEF ServeInv, RouteInv, RecordedInv, Counted, built, serving, metrics
<1>1. CASE SetupTelemetry
  BY <1>0, <1>1 DEF TypeOK, SetupTelemetry, Goto, Built, Accepted
<1>2. CASE New
  <2>1. main = "ready" /\ listener = "none" /\ Accepted(cfg)
    BY <1>0, <1>2 DEF New, PhaseInv
  <2>2. recorded = {}
    BY <1>0, <2>1 DEF EndedInv, TypeOK
  <2>3. /\ main' \in {"built", "dead"} /\ (main' = "built" => ~Unmountable(routes'))
        /\ routes' = Routes(cfg) /\ quiet' = Quiet(cfg)
        /\ UNCHANGED <<cfg, listener, provider, recorded>>
    BY <1>2 DEF New
  <2>4. Accepted(cfg)'
    BY <2>1, <2>3 DEF Accepted
  <2>5. main' = "built" => Built'
    BY <2>3, <2>4 DEF Built
  <2>6. QED
    BY <2>1, <2>2, <2>3, <2>4, <2>5
<1>3. CASE Start
  BY <1>0, <1>3 DEF TypeOK, Start, Goto, Built, Accepted
<1>4. CASE CloseServer
  BY <1>0, <1>4 DEF TypeOK, CloseServer, Goto, Built, Accepted, PhaseInv
<1>5. CASE Drained
  BY <1>0, <1>5 DEF TypeOK, Drained, Goto, Built, Accepted
<1>6. CASE Collect
  BY <1>0, <1>6 DEF TypeOK, Collect, Goto, Built, Accepted
<1>7. CASE Export
  BY <1>0, <1>7 DEF TypeOK, Export, Goto, Exit, Built, Accepted
<1>8. CASE Signal
  BY <1>0, <1>8 DEF TypeOK, Signal, Built, Accepted
<1>9. CASE Listen
  BY <1>0, <1>9 DEF TypeOK, Listen, Exit, Built, Accepted
<1>10. CASE Push
  BY <1>0, <1>10 DEF TypeOK, Push, Built, Accepted
<1>11. CASE Expire
  BY <1>0, <1>11 DEF TypeOK, Expire, Built, Accepted
<1>12. ASSUME NEW r \in Requests, NEW to \in routes \cup {NoRoute}, Accept(r, to)
       PROVE  ServeInv'
  BY <1>0, <1>12 DEF TypeOK, Accept, Built, Accepted
<1>13. ASSUME NEW r \in Requests, End(r) PROVE ServeInv'
  BY <1>0, <1>13 DEF TypeOK, End, Built, Accepted
<1>14. CASE UNCHANGED vars
  BY <1>0, <1>14 DEF TypeOK, vars, Built, Accepted
<1>15. QED
  BY <1>1, <1>2, <1>3, <1>4, <1>5, <1>6, <1>7, <1>8, <1>9, <1>10, <1>11, <1>12, <1>13, <1>14
     DEF Next, Main

LEMMA ServeAlways == Spec => [](LifeInv /\ ServeInv)
  BY LifeInit, LifeStep, ServeInit, ServeStep, PTL DEF Spec

\* Whatever contextPath and telemetry.path are, of any length, no route Setup
\* lets through shadows another, but a catch-all that is all of telemetry.path.
THEOREM NothingIsShadowed == Spec => []NoRouteShadowed
<1>1. LifeInv /\ ServeInv => NoRouteShadowed
  <2> SUFFICES ASSUME LifeInv, ServeInv, NEW x \in routes, NEW y \in routes, x # y,
                      Exclusive(x.at, y.at), ~GreedyScrape
               PROVE  "version" \in {x.serves, y.serves}
    BY DEF NoRouteShadowed
  <2>1. cfg \in Configs /\ routes = Routes(cfg) /\ Accepted(cfg)
    BY DEF LifeInv, TypeOK, ServeInv, RouteInv
  <2>2. QED
    BY <2>1, Unshadowed DEF GreedyScrape
<1>2. QED
  BY <1>1, ServeAlways, PTL

\* ... the document names the place the operation is mounted at ...
THEOREM OperationIsFound == Spec => []AdvertisedIsServed
<1>1. LifeInv /\ ServeInv => AdvertisedIsServed
  <2> SUFFICES ASSUME LifeInv, ServeInv, NEW x \in routes, x.serves = "module"
               PROVE  PathJoin(ServerURL(cfg), <<"search", "query">>) = x.at
    BY DEF AdvertisedIsServed
  <2>1. cfg \in Configs /\ routes = Routes(cfg)
    BY DEF LifeInv, TypeOK, ServeInv, RouteInv
  <2>2. x.at = Below(cfg.contextPath, <<"api", "search", "query">>)
    <3> DEFINE p == cfg.contextPath
               h == Below(p, <<"health">>)
               s == Below(p, <<"status">>)
               m == Below(p, <<"api", "search", "query">>)
               v == JoinPaths(Root, <<"", "version">>)
               k == Scrape(cfg)
    <3>1. x \in (IF ScrapedOnMain(cfg) THEN {[serves |-> "scrape", at |-> k]} ELSE {}) \cup
                { [serves |-> "health",  at |-> h], [serves |-> "status",  at |-> s],
                  [serves |-> "module",  at |-> m], [serves |-> "version", at |-> v] }
      BY <2>1, RoutesOf, Zenon
    <3> HIDE DEF h, s, m, v, k
    <3>2. x.at = m
      BY <3>1
    <3>3. QED
      BY <3>2 DEF m
  <2>3. QED
    BY <2>1, <2>2, Mounted
<1>2. QED
  BY <1>1, ServeAlways, PTL

\* ... and what is measured is all that clients ask, and no probe.
THEOREM ClientsAreCounted == Spec => []OnlyProbesAreUncounted
<1>1. LifeInv /\ ServeInv => OnlyProbesAreUncounted
  <2> SUFFICES ASSUME LifeInv, ServeInv, NEW r \in Requests, provider = "live",
                      ~cfg.disableMetrics, ~BareScrape, request[r] = "ended"
               PROVE  r \in recorded <=> target[r].serves \notin Probes
    BY DEF OnlyProbesAreUncounted
  <2>1. cfg \in Configs /\ target[r] \in routes \cup {NoRoute}
    BY DEF LifeInv, TypeOK
  <2>2. cfg.enabled /\ Built
    BY DEF LifeInv, EndedInv, ServeInv, RouteInv
  <2>3. target[r].at \in quiet <=> target[r].serves \in Probes
    BY <2>1, <2>2, ProbesAreQuiet DEF Built, BareScrape
  <2>4. r \in recorded <=> Counted(r)
    BY DEF LifeInv, EndedInv, ServeInv, RecordedInv
  <2>5. QED
    BY <2>2, <2>3, <2>4 DEF Counted
<1>2. QED
  BY <1>1, ServeAlways, PTL
=============================================================================
