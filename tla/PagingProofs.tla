----------------------------- MODULE PagingProofs -----------------------------
(* Proofs about Paging, for any listings, limits and width of int. *)
EXTENDS Paging, SequenceTheorems, TLAPS

NumbersInv ==
  /\ docs \in Documents
  /\ asked.page \in Int /\ asked.limit \in Int
  /\ asked = [first |-> asked.first, page |-> asked.page, limit |-> asked.limit]
  /\ page.Page \in Int

\* What NormalizePagination makes of any numbers.
LEMMA Normalized ==
  ASSUME NEW p \in Int, NEW limit \in Int
  PROVE  /\ NormalizePagination(p, limit).page \in Nat \ {0}
         /\ NormalizePagination(p, limit).limit \in 1..MaxLimit
  BY LimitsAssumption, IntAssumption DEF NormalizePagination, Minimum

\* The arithmetic of a page that exists stays within int.
LEMMA ExistingBounds ==
  ASSUME NEW d \in Documents, NEW p \in Nat \ {0}, NEW limit \in 1..MaxLimit,
         (p - 1) * limit <= Len(d)
  PROVE  /\ Start(d, p, limit) = (p - 1) * limit
         /\ End(d, p, limit) = Minimum((p - 1) * limit + limit, Len(d))
         /\ Sliceable(d, p, limit)
<1>1. Len(d) \in Nat /\ Len(d) + MaxLimit <= MaxInt
  <2> DEFINE elements == {d[i] : i \in DOMAIN d}
  <2>1. d \in Seq(elements) /\ Len(d) + MaxLimit <= MaxInt
    BY DocumentsAssumption
  <2> HIDE DEF elements
  <2>2. QED
    BY <2>1
<1>2. MaxInt \in Nat /\ MaxLimit \in Nat /\ limit \in Nat /\ limit >= 1 /\ limit <= MaxLimit
  BY LimitsAssumption, IntAssumption
<1> DEFINE k == p - 1
           from == k * limit
<1>3. k \in Nat
  OBVIOUS
<1>4. from \in Nat /\ k <= from
  <2>1. from \in Nat
    BY <1>2, <1>3
  <2>2. k * 1 <= k * limit
    BY <1>2, <1>3
  <2>3. QED
    BY <2>1, <2>2, <1>3
<1>5. from <= Len(d)
  OBVIOUS
<1> HIDE DEF k, from
<1>6. k \in Ints /\ from \in Ints /\ from + limit \in Ints
  BY <1>1, <1>2, <1>3, <1>4, <1>5 DEF Ints
<1>7. Wrap(p - 1) = k /\ Wrap(from) = from /\ Wrap(from + limit) = from + limit
  BY <1>6 DEF Wrap, k
<1>8. Start(d, p, limit) = from
  BY <1>7, <1>4, <1>5, <1>1 DEF Start, Minimum, from
<1>9. End(d, p, limit) = Minimum(from + limit, Len(d))
  BY <1>7, <1>8 DEF End
<1>10. Sliceable(d, p, limit)
  BY <1>8, <1>9, <1>1, <1>2, <1>4, <1>5 DEF Sliceable, Minimum
<1>11. QED
  BY <1>8, <1>9, <1>10 DEF from, k

LEMMA NumbersInit == Init => NumbersInv /\ ExistingPageIsCut
  BY DEF Init, NumbersInv, NoPage, ExistingPageIsCut

LEMMA NumbersStep == NumbersInv /\ ExistingPageIsCut /\ [Next]_vars
                       => NumbersInv' /\ ExistingPageIsCut'
<1> SUFFICES ASSUME NumbersInv, ExistingPageIsCut, [Next]_vars
             PROVE  NumbersInv' /\ ExistingPageIsCut'
  OBVIOUS
<1>1. ASSUME NEW p \in Pages, NEW limit \in Limits, Ask(p, limit)
      PROVE  NumbersInv' /\ ExistingPageIsCut'
  BY <1>1, IntAssumption DEF Ask, NumbersInv, ExistingPageIsCut
<1>2. CASE Follow
  BY <1>2 DEF Follow, NumbersInv, ExistingPageIsCut
<1>3. CASE Serve
  <2> DEFINE n == NormalizePagination(asked.page, asked.limit)
  <2>1. n.page \in Nat \ {0} /\ n.limit \in 1..MaxLimit
    BY Normalized DEF NumbersInv
  <2>2. docs' = docs /\ asked' = asked
    BY <1>3 DEF Serve
  <2>3. n.page \in Int
    BY <2>1
  <2> HIDE DEF n
  <2>4. NumbersInv'
    <3>1. CASE UNCHANGED page
      BY <3>1, <2>2 DEF NumbersInv
    <3>2. CASE page' = NewInMemoryPage(docs, n.page, n.limit)
      BY <3>2, <2>2, <2>3 DEF NumbersInv, NewInMemoryPage
    <3>3. QED
      BY <3>1, <3>2, <1>3 DEF Serve, n
  <2>5. ExistingPageIsCut'
    <3> DEFINE from == (n.page - 1) * n.limit
    <3> SUFFICES ASSUME from <= Len(docs)
                 PROVE  /\ call' = "answered"
                        /\ page'.Docs = SubSeq(docs, from + 1, Minimum(from + n.limit, Len(docs)))
      BY <2>2 DEF ExistingPageIsCut, AnsweredWithCut, Exists, n
    <3>1. /\ Start(docs, n.page, n.limit) = from
          /\ End(docs, n.page, n.limit) = Minimum(from + n.limit, Len(docs))
          /\ Sliceable(docs, n.page, n.limit)
      BY <2>1, ExistingBounds DEF NumbersInv
    <3>2. call' = "answered" /\ page' = NewInMemoryPage(docs, n.page, n.limit)
      BY <1>3, <3>1 DEF Serve, n
    <3>3. QED
      BY <3>1, <3>2 DEF NewInMemoryPage
  <2>6. QED
    BY <2>4, <2>5
<1>4. CASE UNCHANGED vars
  BY <1>4 DEF vars, NumbersInv, ExistingPageIsCut, AnsweredWithCut, Exists
<1>5. QED
  BY <1>1, <1>2, <1>3, <1>4 DEF Next

\* Whatever page and limit a client sends, and whatever the width of int, a
\* page that exists holds the documents it should, and does not panic.
THEOREM ExistingPagesAreCut == Spec => []ExistingPageIsCut
<1>1. NumbersInv /\ ExistingPageIsCut /\ [Next]_vars => (NumbersInv /\ ExistingPageIsCut)'
  BY NumbersStep
<1>2. QED
  BY NumbersInit, <1>1, PTL DEF Spec

----------------------------------------------------------------------------
(* A page says of itself what the listing says *)

\* The number of pages, and so which of them is the last, of a listing of any
\* length: the division rounds up.
LEMMA LastPage ==
  ASSUME NEW n \in Nat, NEW limit \in Nat \ {0}, NEW p \in Nat
  PROVE  p * limit < n <=> p < (n + limit - 1) \div limit
<1> DEFINE q == (n + limit - 1) \div limit
<1>1. q \in Nat /\ q * limit <= n + limit - 1 /\ n + limit - 1 < q * limit + limit
  OBVIOUS
<1> HIDE DEF q
<1>2. ASSUME p * limit < n PROVE p < q
  <2>1. p * limit < q * limit
    <3>1. p * limit \in Nat /\ q * limit \in Nat
      BY <1>1
    <3>2. QED
      BY <3>1, <1>1, <1>2
  <2>2. ASSUME q <= p PROVE FALSE
    <3>1. q * limit <= p * limit
      BY <2>2, <1>1
    <3>2. QED
      BY <3>1, <2>1, <1>1
  <2>3. QED
    BY <2>2, <1>1
<1>3. ASSUME p < q PROVE p * limit < n
  <2>1. (p + 1) * limit <= q * limit
    BY <1>3, <1>1
  <2>2. (p + 1) * limit = p * limit + limit
    OBVIOUS
  <2>3. p * limit \in Nat /\ q * limit \in Nat
    BY <1>1
  <2>4. QED
    BY <2>1, <2>2, <2>3, <1>1
<1>4. QED
  BY <1>2, <1>3 DEF q

LEMMA ListingType ==
  ASSUME NEW d \in Documents
  PROVE  /\ d \in Seq({d[i] : i \in DOMAIN d})
         /\ Len(d) \in Nat /\ Len(d) + MaxLimit <= MaxInt
<1> DEFINE elements == {d[i] : i \in DOMAIN d}
<1>1. d \in Seq(elements) /\ Len(d) + MaxLimit <= MaxInt
  BY DocumentsAssumption
<1> HIDE DEF elements
<1>2. Len(d) \in Nat
  BY <1>1
<1>3. QED
  BY <1>1, <1>2 DEF elements

\* What NewInMemoryPage makes of a page that exists.
LEMMA ExistingPage ==
  ASSUME NEW d \in Documents, NEW p \in Nat \ {0}, NEW limit \in 1..MaxLimit,
         (p - 1) * limit <= Len(d)
  PROVE  LET made == NewInMemoryPage(d, p, limit) IN
         /\ made.Page = p /\ made.Limit = limit
         /\ made.HasNextPage <=> p * limit < Len(d)
         /\ made.HasNextPage <=> p < made.TotalPages
         /\ made.Docs = SubSeq(d, (p - 1) * limit + 1, Minimum(p * limit, Len(d)))
<1> DEFINE made == NewInMemoryPage(d, p, limit)
           from == (p - 1) * limit
           upto == p * limit
<1>1. Len(d) \in Nat /\ Len(d) + MaxLimit <= MaxInt
  BY ListingType
<1>2. /\ MaxInt \in Nat /\ limit \in Nat \ {0} /\ limit <= MaxLimit /\ MaxLimit \in Nat
  BY LimitsAssumption, IntAssumption
<1>3. from \in Nat /\ upto \in Nat /\ upto = from + limit
  <2>1. p - 1 \in Nat
    OBVIOUS
  <2>2. QED
    BY <2>1, <1>2
<1>4. Start(d, p, limit) = from /\ End(d, p, limit) = Minimum(upto, Len(d))
  BY <1>3, ExistingBounds
<1>5. TotalPages(d, limit) = (Len(d) + limit - 1) \div limit
  <2>1. Len(d) + limit - 1 \in Ints
    BY <1>1, <1>2 DEF Ints
  <2>2. QED
    BY <2>1, <1>2 DEF TotalPages, Wrap
<1>6. upto < Len(d) <=> p < (Len(d) + limit - 1) \div limit
  BY <1>1, <1>2, LastPage
<1> HIDE DEF from, upto
<1>7. HasNextPage(d, p, limit) <=> upto < Len(d)
  BY <1>1, <1>3, <1>4 DEF HasNextPage, Minimum
<1>8. /\ made.Page = p /\ made.Limit = limit
      /\ made.HasNextPage = HasNextPage(d, p, limit)
      /\ made.TotalPages = TotalPages(d, limit)
      /\ made.Docs = SubSeq(d, from + 1, Minimum(upto, Len(d)))
  BY <1>4 DEF NewInMemoryPage
<1> HIDE DEF made
<1>9. QED
  BY <1>5, <1>6, <1>7, <1>8 DEF made, from, upto

----------------------------------------------------------------------------
(* A walk through the pages *)

\* The walk began at page `first' and is at page p: what lies between the two has
\* been seen, s, and the page g got last says what follows.
WalkAt(first, p, limit, c, s, g) ==
  /\ c = "idle" => s = <<>>
  /\ c # "idle" /\ (first - 1) * limit <= Len(docs) =>
       /\ first <= p /\ (p - 1) * limit <= Len(docs)
       /\ c = "called" => s = SubSeq(docs, (first - 1) * limit + 1, (p - 1) * limit)
       /\ c = "answered" =>
            s = SubSeq(docs, (first - 1) * limit + 1, Minimum(p * limit, Len(docs)))
       /\ c # "panicked"
  /\ c = "answered" /\ (p - 1) * limit <= Len(docs) =>
       /\ g.Page = p /\ g.Limit = limit
       /\ g.HasNextPage <=> p * limit < Len(docs)
       /\ g.HasNextPage <=> p < g.TotalPages

Asked(p) == NormalizePagination(p, asked.limit)

WalkInv ==
  /\ asked.first \in Int
  /\ call \in {"idle", "called", "answered", "panicked"}
  /\ WalkAt(Asked(asked.first).page, Asked(asked.page).page, Asked(asked.page).limit,
            call, seen, page)

LEMMA WalkInit == Init => WalkInv
  BY DEF Init, WalkInv, WalkAt

\* The client gets the page it asked for.
LEMMA WalkServed ==
  ASSUME docs \in Documents, NEW first \in Nat \ {0}, NEW p \in Nat \ {0},
         NEW limit \in 1..MaxLimit, NEW s, NEW g, WalkAt(first, p, limit, "called", s, g)
  PROVE  LET made == NewInMemoryPage(docs, p, limit) IN
         /\ Sliceable(docs, p, limit) =>
              WalkAt(first, p, limit, "answered", s \o made.Docs, made)
         /\ ~Sliceable(docs, p, limit) => WalkAt(first, p, limit, "panicked", s, g)
<1> DEFINE made == NewInMemoryPage(docs, p, limit)
           from == (first - 1) * limit
           at == (p - 1) * limit
           upto == p * limit
<1>1. /\ from \in Nat /\ at \in Nat /\ upto \in Nat /\ upto = at + limit
      /\ limit \in Nat \ {0}
  <2>1. p - 1 \in Nat /\ first - 1 \in Nat /\ limit \in Nat \ {0}
    BY LimitsAssumption, IntAssumption
  <2>2. QED
    BY <2>1
<1>2. Len(docs) \in Nat /\ docs \in Seq({docs[i] : i \in DOMAIN docs})
  BY ListingType
<1>3. at <= Len(docs) =>
        /\ made.Page = p /\ made.Limit = limit
        /\ made.HasNextPage <=> upto < Len(docs)
        /\ made.HasNextPage <=> p < made.TotalPages
        /\ made.Docs = SubSeq(docs, at + 1, Minimum(upto, Len(docs)))
        /\ Sliceable(docs, p, limit)
  BY ExistingPage, ExistingBounds
<1>4. first <= p => from <= at
  <2>1. first <= p => first - 1 <= p - 1
    OBVIOUS
  <2>2. first - 1 \in Nat /\ p - 1 \in Nat
    OBVIOUS
  <2>3. QED
    BY <2>1, <2>2, <1>1
<1>5. from <= Len(docs) =>
        /\ first <= p /\ at <= Len(docs) /\ s = SubSeq(docs, from + 1, at)
  BY DEF WalkAt
<1> HIDE DEF made, from, at, upto
<1>6. from <= Len(docs) => s \o made.Docs = SubSeq(docs, from + 1, Minimum(upto, Len(docs)))
  <2> SUFFICES ASSUME from <= Len(docs)
               PROVE  s \o made.Docs = SubSeq(docs, from + 1, Minimum(upto, Len(docs)))
    OBVIOUS
  <2> DEFINE n == Minimum(upto, Len(docs))
             T == {docs[i] : i \in DOMAIN docs}
  <2>1. /\ from + 1 \in 1..(Len(docs) + 1)
        /\ at \in ((from + 1) - 1)..Len(docs)
        /\ n \in at..Len(docs)
    BY <1>1, <1>2, <1>4, <1>5 DEF Minimum
  <2>2. s \o made.Docs = SubSeq(docs, from + 1, at) \o SubSeq(docs, at + 1, n)
    BY <1>3, <1>5
  <2>3. docs \in Seq(T)
    BY <1>2
  <2> HIDE DEF n, T
  <2>4. SubSeq(docs, from + 1, at) \o SubSeq(docs, at + 1, n) = SubSeq(docs, from + 1, n)
    BY <2>1, <2>3, ConcatAdjacentSubSeq
  <2>5. QED
    BY <2>2, <2>4 DEF n
<1>7. WalkAt(first, p, limit, "answered", s \o made.Docs, made)
  BY <1>3, <1>5, <1>6 DEF WalkAt, from, at, upto
<1>8. ~Sliceable(docs, p, limit) => WalkAt(first, p, limit, "panicked", s, g)
  BY <1>3, <1>5 DEF WalkAt, from, at
<1>9. QED
  BY <1>7, <1>8 DEF made

LEMMA WalkStep == NumbersInv /\ WalkInv /\ [Next]_vars => WalkInv'
<1> SUFFICES ASSUME NumbersInv, WalkInv, [Next]_vars PROVE WalkInv'
  OBVIOUS
<1>1. ASSUME NEW p \in Pages, NEW limit \in Limits, Ask(p, limit) PROVE WalkInv'
  <2> DEFINE n == NormalizePagination(p, limit)
  <2>1. /\ asked' = [first |-> p, page |-> p, limit |-> limit] /\ call' = "called"
        /\ call = "idle" /\ UNCHANGED <<docs, page, seen>> /\ p \in Int /\ limit \in Int
    BY <1>1, IntAssumption DEF Ask
  <2>2. seen = <<>>
    BY <2>1 DEF WalkInv, WalkAt
  <2>3. n.page \in Nat \ {0} /\ n.limit \in 1..MaxLimit /\ n.limit \in Nat
    BY <2>1, Normalized, LimitsAssumption, IntAssumption
  <2> HIDE DEF n
  <2>4. (n.page - 1) * n.limit \in Nat
    <3>1. n.page - 1 \in Nat
      BY <2>3
    <3>2. QED
      BY <3>1, <2>3
  <2>5. SubSeq(docs, (n.page - 1) * n.limit + 1, (n.page - 1) * n.limit) = <<>>
    BY <2>4, SubSeqEmpty
  <2>6. WalkAt(n.page, n.page, n.limit, "called", <<>>, page)
    BY <2>3, <2>5 DEF WalkAt
  <2>7. WalkAt(n.page, n.page, n.limit, "called", <<>>, page)'
    BY <2>6, <2>1 DEF WalkAt, n
  <2>8. QED
    BY <2>1, <2>2, <2>7 DEF WalkInv, Asked, n, WalkAt
<1>2. CASE Serve
  <2> DEFINE first == Asked(asked.first).page
             p == Asked(asked.page).page
             limit == Asked(asked.page).limit
  <2>1. /\ docs' = docs /\ asked' = asked /\ call = "called"
        /\ \/ /\ Sliceable(docs, p, limit)
              /\ page' = NewInMemoryPage(docs, p, limit)
              /\ seen' = seen \o page'.Docs /\ call' = "answered"
           \/ ~Sliceable(docs, p, limit) /\ call' = "panicked" /\ UNCHANGED <<page, seen>>
    BY <1>2 DEF Serve, Asked
  <2>2. docs \in Documents /\ asked.limit \in Int /\ asked.page \in Int /\ asked.first \in Int
    BY DEF NumbersInv, WalkInv
  <2>3. first \in Nat \ {0} /\ p \in Nat \ {0} /\ limit \in 1..MaxLimit
    BY <2>2, Normalized DEF Asked
  <2>4. WalkAt(first, p, limit, "called", seen, page)
    BY <2>1 DEF WalkInv
  <2>5. first' = first /\ p' = p /\ limit' = limit
    BY <2>1 DEF Asked
  <2> HIDE DEF first, p, limit
  <2>6. WalkAt(first, p, limit, call', seen', page')
    BY <2>1, <2>2, <2>3, <2>4, WalkServed
  <2>7. WalkAt(first, p, limit, call, seen, page)'
    BY <2>1, <2>5, <2>6 DEF WalkAt
  <2>8. QED
    BY <2>1, <2>2, <2>7 DEF WalkInv, first, p, limit
<1>3. CASE Follow
  <2> DEFINE first == Asked(asked.first).page
             p == Asked(asked.page).page
             limit == Asked(asked.page).limit
             n == NormalizePagination(page.Page + 1, asked.limit)
  <2>1. /\ UNCHANGED <<docs, page, seen>> /\ call = "answered" /\ call' = "called"
        /\ page.HasNextPage /\ asked' = [asked EXCEPT !.page = page.Page + 1]
    BY <1>3 DEF Follow
  <2>2. /\ docs \in Documents /\ asked.limit \in Int /\ asked.page \in Int
        /\ asked.first \in Int /\ page.Page \in Int
        /\ asked = [first |-> asked.first, page |-> asked.page, limit |-> asked.limit]
    BY DEF NumbersInv, WalkInv
  <2>3. /\ first \in Nat \ {0} /\ p \in Nat \ {0} /\ limit \in 1..MaxLimit /\ limit \in Nat
        /\ n.page \in Nat \ {0}
    BY <2>2, Normalized, LimitsAssumption, IntAssumption DEF Asked
  <2>4. n.limit = limit
    BY DEF Asked, NormalizePagination
  <2>5. /\ asked'.first = asked.first /\ asked'.limit = asked.limit
        /\ asked'.page = page.Page + 1
    BY <2>1, <2>2
  <2>6. Asked(asked.first)'.page = first /\ Asked(asked.page)'.page = n.page
        /\ Asked(asked.page)'.limit = limit
    BY <2>4, <2>5 DEF Asked
  <2>7. WalkAt(first, p, limit, "answered", seen, page)
    BY <2>1 DEF WalkInv
  <2>8. page.Page = p => n.page = p + 1
    BY <2>3 DEF NormalizePagination
  <2> HIDE DEF first, p, limit, n
  <2>9. (first - 1) * limit <= Len(docs) =>
          /\ first <= n.page /\ (n.page - 1) * limit <= Len(docs)
          /\ seen = SubSeq(docs, (first - 1) * limit + 1, (n.page - 1) * limit)
    <3> SUFFICES ASSUME (first - 1) * limit <= Len(docs)
                 PROVE  /\ first <= n.page /\ (n.page - 1) * limit <= Len(docs)
                        /\ seen = SubSeq(docs, (first - 1) * limit + 1, (n.page - 1) * limit)
      OBVIOUS
    <3>1. /\ first <= p /\ (p - 1) * limit <= Len(docs) /\ page.Page = p
          /\ p * limit < Len(docs)
          /\ seen = SubSeq(docs, (first - 1) * limit + 1, Minimum(p * limit, Len(docs)))
      BY <2>1, <2>7 DEF WalkAt
    <3>2. n.page = p + 1 /\ n.page - 1 = p /\ first <= n.page
      BY <3>1, <2>3, <2>8
    <3>3. Minimum(p * limit, Len(docs)) = p * limit
      <4>1. p * limit \in Nat /\ Len(docs) \in Nat
        BY <2>2, <2>3, ListingType
      <4>2. QED
        BY <4>1, <3>1 DEF Minimum
    <3>4. p * limit <= Len(docs)
      <4>1. p * limit \in Nat /\ Len(docs) \in Nat
        BY <2>2, <2>3, ListingType
      <4>2. QED
        BY <4>1, <3>1
    <3>5. QED
      BY <3>1, <3>2, <3>3, <3>4
  <2>10. WalkAt(first, n.page, limit, "called", seen, page)
    BY <2>9 DEF WalkAt
  <2>11. WalkAt(Asked(asked.first).page, Asked(asked.page).page, Asked(asked.page).limit,
                call, seen, page)'
    BY <2>1, <2>6, <2>10 DEF WalkAt
  <2>12. QED
    BY <2>1, <2>2, <2>5, <2>11 DEF WalkInv
<1>4. CASE UNCHANGED vars
  BY <1>4 DEF vars, WalkInv, WalkAt, Asked
<1>5. QED
  BY <1>1, <1>2, <1>3, <1>4 DEF Next

LEMMA WalkAlways == Spec => [](NumbersInv /\ WalkInv)
<1>1. Init => NumbersInv /\ ExistingPageIsCut /\ WalkInv
  BY NumbersInit, WalkInit
<1>2. NumbersInv /\ ExistingPageIsCut /\ WalkInv /\ [Next]_vars
        => (NumbersInv /\ ExistingPageIsCut /\ WalkInv)'
  BY NumbersStep, WalkStep
<1>3. QED
  BY <1>1, <1>2, PTL DEF Spec

\* A client that follows the pages to the end has seen every document from its
\* first page on, once and in order: for any listing, limit and width of int.
THEOREM WalksSeeAll == Spec => []WalkSeesAll
<1>1. NumbersInv /\ WalkInv => WalkSeesAll
  <2> SUFFICES ASSUME NumbersInv, WalkInv, call = "answered", ~page.HasNextPage,
                      Exists(asked.first)
               PROVE  LET n == NormalizePagination(asked.first, asked.limit)
                      IN  seen = SubSeq(docs, (n.page - 1) * n.limit + 1, Len(docs))
    BY DEF WalkSeesAll
  <2> DEFINE first == Asked(asked.first).page
             p == Asked(asked.page).page
             limit == Asked(asked.page).limit
  <2>1. limit = Asked(asked.first).limit
    BY DEF Asked, NormalizePagination
  <2>2. first \in Nat \ {0} /\ p \in Nat \ {0} /\ limit \in Nat /\ Len(docs) \in Nat
    BY Normalized, LimitsAssumption, IntAssumption, ListingType
       DEF Asked, NumbersInv, WalkInv
  <2>3. (first - 1) * limit <= Len(docs)
    BY <2>1 DEF Exists, Asked
  <2>4. WalkAt(first, p, limit, "answered", seen, page)
    BY DEF WalkInv
  <2> HIDE DEF first, p, limit
  <2>5. /\ ~(p * limit < Len(docs))
        /\ seen = SubSeq(docs, (first - 1) * limit + 1, Minimum(p * limit, Len(docs)))
    BY <2>3, <2>4 DEF WalkAt
  <2>6. Minimum(p * limit, Len(docs)) = Len(docs)
    <3>1. p * limit \in Nat
      BY <2>2
    <3>2. QED
      BY <3>1, <2>2, <2>5 DEF Minimum
  <2>7. QED
    BY <2>1, <2>5, <2>6 DEF Asked, first
<1>2. QED
  BY <1>1, WalkAlways, PTL

\* A page that exists tells whether one follows as its number and TotalPages do,
\* and is no longer than the listing allows.
THEOREM PagesDescribeThemselves == Spec => []PageDescribesItself
<1>1. NumbersInv /\ WalkInv => PageDescribesItself
  <2> SUFFICES ASSUME NumbersInv, WalkInv, call = "answered", Exists(asked.page)
               PROVE  /\ page.HasNextPage <=> page.Page < page.TotalPages
                      /\ page.Limit <= MaxLimit
    BY DEF PageDescribesItself
  <2>1. (Asked(asked.page).page - 1) * Asked(asked.page).limit <= Len(docs)
    BY DEF Exists, Asked
  <2>2. /\ page.Page = Asked(asked.page).page /\ page.Limit = Asked(asked.page).limit
        /\ page.HasNextPage <=> Asked(asked.page).page < page.TotalPages
    BY <2>1 DEF WalkInv, WalkAt
  <2>3. Asked(asked.page).limit <= MaxLimit
    BY Normalized, LimitsAssumption, IntAssumption DEF Asked, NumbersInv
  <2>4. QED
    BY <2>2, <2>3
<1>2. QED
  BY <1>1, WalkAlways, PTL

----------------------------------------------------------------------------
(* The numbers of any page, past the end as well, stay within int *)

LEMMA NoMultiple ==
  ASSUME NEW m \in Nat \ {0}, NEW k \in Int, m * k < m, m * k > -m
  PROVE  k = 0
<1>1. ASSUME k >= 1 PROVE FALSE
  <2>1. m * k >= m
    BY <1>1
  <2>2. QED
    BY <2>1
<1>2. ASSUME k <= -1 PROVE FALSE
  <2>1. m * k <= -m
    BY <1>2
  <2>2. QED
    BY <2>1
<1>3. QED
  BY <1>1, <1>2

LEMMA Remainder ==
  ASSUME NEW m \in Nat \ {0}, NEW h \in Int, NEW x \in 0..(m - 1)
  PROVE  (h * m + x) % m = x
<1> DEFINE a == h * m
           y == a + x
           q == y \div m
           r == y % m
<1>1. a \in Int /\ y \in Int
  OBVIOUS
<1>2. q \in Int /\ r \in 0..(m - 1) /\ y = m * q + r
  <2> HIDE DEF y
  <2>1. QED
    BY <1>1
<1>3. m * (h - q) = a - m * q
  <2> HIDE DEF q
  <2>1. QED
    BY <1>2
<1>4. m * (h - q) = r - x
  <2> DEFINE b == m * q
  <2> HIDE DEF a, b, r, q
  <2>1. b \in Int /\ a + x = b + r
    BY <1>1, <1>2 DEF b
  <2>2. m * (h - q) = a - b
    BY <1>3 DEF b
  <2>3. QED
    BY <1>1, <1>2, <2>1, <2>2
<1> HIDE DEF a, y, q, r
<1>5. h - q = 0
  <2> DEFINE k == h - q
  <2>1. k \in Int /\ m * k = r - x
    BY <1>2, <1>4
  <2>2. m * k < m /\ m * k > -m
    BY <1>2, <2>1
  <2> HIDE DEF k
  <2>3. k = 0
    BY <2>1, <2>2, NoMultiple
  <2>4. QED
    BY <2>3 DEF k
<1>6. r = x
  <2>1. m * 0 = 0
    OBVIOUS
  <2>2. QED
    BY <1>2, <1>4, <1>5, <2>1
<1>7. QED
  BY <1>6 DEF r, y, a

\* What lies a multiple of the width away from an int is wrapped to it.
LEMMA WrapsBack ==
  ASSUME NEW r \in Ints, NEW h \in Int, MaxInt \in Nat
  PROVE  Wrap(h * (2 * (MaxInt + 1)) + r) = r
<1> DEFINE m == 2 * (MaxInt + 1)
           x == r + MaxInt + 1
           a == h * m
           n == a + r
<1>1. m \in Nat \ {0} /\ x \in 0..(m - 1) /\ r \in Int
  BY DEF Ints
<1>2. a \in Int /\ n + MaxInt + 1 = a + x
  <2>1. a \in Int
    <3> HIDE DEF m
    <3>1. QED
      BY <1>1
  <2> HIDE DEF a
  <2>2. QED
    BY <1>1, <2>1
<1>3. (n + MaxInt + 1) % m = x
  <2>1. (a + x) % m = x
    <3> HIDE DEF m, x
    <3>1. QED
      BY <1>1, Remainder
  <2>2. QED
    BY <1>2, <2>1
<1>4. CASE n \in Ints
  <2> DEFINE y == n + MaxInt + 1
  <2>1. y \in 0..(m - 1)
    <3> HIDE DEF n
    <3>1. QED
      BY <1>4 DEF Ints
  <2>2. y % m = y
    <3> HIDE DEF y, m
    <3>1. QED
      BY <1>1, <2>1
  <2>3. y = x
    BY <1>3, <2>2
  <2>4. n = r
    <3> HIDE DEF a
    <3>1. QED
      BY <1>1, <1>2, <2>3
  <2>5. QED
    BY <1>4, <2>4 DEF Wrap
<1>5. CASE n \notin Ints
  <2>1. Wrap(n) = ((n + MaxInt + 1) % m) - MaxInt - 1
    BY <1>5 DEF Wrap
  <2>2. Wrap(n) = x - MaxInt - 1
    BY <1>3, <2>1
  <2>3. QED
    BY <1>1, <2>2
<1>6. QED
  BY <1>4, <1>5

LEMMA WrapType ==
  ASSUME NEW n \in Int, MaxInt \in Nat
  PROVE  Wrap(n) \in Ints
<1> DEFINE m == 2 * (MaxInt + 1)
<1>1. m \in Nat \ {0} /\ n + MaxInt + 1 \in Int
  OBVIOUS
<1>2. (n + MaxInt + 1) % m \in 0..(m - 1)
  <2> HIDE DEF m
  <2>1. QED
    BY <1>1
<1>3. QED
  BY <1>2 DEF Wrap, Ints

\* The page with the largest number has none after it: where it is not negative,
\* its wrapped start is within a page of the largest int, which no listing is.
LEMMA NoneAfterLargest ==
  ASSUME NEW d \in Documents, NEW limit \in 1..MaxLimit, Sliceable(d, MaxInt, limit)
  PROVE  ~HasNextPage(d, MaxInt, limit)
<1> DEFINE n == (MaxInt - 1) * limit
<1>1. /\ MaxInt \in Nat \ {0} /\ limit \in Nat \ {0} /\ limit <= MaxLimit /\ MaxLimit \in Nat
      /\ Len(d) \in Nat /\ Len(d) + MaxLimit <= MaxInt
  <2>1. Len(d) \in Nat /\ Len(d) + MaxLimit <= MaxInt
    BY ListingType
  <2>2. QED
    BY <2>1, LimitsAssumption, IntAssumption
<1>2. Start(d, MaxInt, limit) = Minimum(Wrap(n), Len(d)) /\ n \in Int
  <2>1. Wrap(MaxInt - 1) = MaxInt - 1
    BY <1>1 DEF Wrap, Ints
  <2>2. QED
    BY <1>1, <2>1 DEF Start
<1>3. Wrap(n) + limit >= Len(d)
  <2>1. Wrap(n) >= 0
    <3>1. Wrap(n) \in Int
      BY <1>1, <1>2, WrapType DEF Ints
    <3>2. QED
      BY <1>1, <1>2, <3>1 DEF Sliceable, Minimum
  <2>2. PICK h \in Nat : limit = 2 * h \/ limit = 2 * h + 1
    <3>1. limit \div 2 \in Nat /\ (limit = 2 * (limit \div 2) \/ limit = 2 * (limit \div 2) + 1)
      BY <1>1
    <3>2. QED
      BY <3>1
  <2> DEFINE m == 2 * (MaxInt + 1)
  <2>3. h * m \in Int /\ n = (MaxInt + 1) * limit - 2 * limit
    BY <1>1
  <2>4. CASE limit = 2 * h
    <3>1. (MaxInt + 1) * limit = h * m
      BY <1>1, <2>4
    <3>2. n = h * m + (-2 * limit)
      BY <1>1, <2>3, <3>1
    <3>3. CASE 2 * limit <= MaxInt + 1
      <4>1. -2 * limit \in Ints
        BY <1>1, <3>3 DEF Ints
      <4>2. Wrap(n) = -2 * limit
        <5>1. h \in Int /\ MaxInt \in Nat
          BY <1>1
        <5>2. Wrap(h * m + (-2 * limit)) = -2 * limit
          BY <4>1, <5>1, WrapsBack, Zenon
        <5>3. QED
          BY <3>2, <5>2, Zenon
      <4>3. QED
        BY <1>1, <2>1, <4>2
    <3>4. CASE ~(2 * limit <= MaxInt + 1)
      <4>1. m - 2 * limit \in Ints
        BY <1>1, <3>4 DEF Ints
      <4>2. n = (h - 1) * m + (m - 2 * limit)
        <5>1. (h - 1) * m = h * m - m
          BY <1>1
        <5> HIDE DEF m, n
        <5>2. m \in Int
          BY <1>1 DEF m
        <5>3. QED
          BY <1>1, <2>3, <3>2, <5>1, <5>2
      <4>3. Wrap(n) = m - 2 * limit
        <5>1. h - 1 \in Int /\ MaxInt \in Nat
          BY <1>1
        <5>2. Wrap((h - 1) * m + (m - 2 * limit)) = m - 2 * limit
          BY <4>1, <5>1, WrapsBack, Zenon
        <5>3. QED
          BY <4>2, <5>2, Zenon
      <4>4. QED
        BY <1>1, <4>3
    <3>5. QED
      BY <3>3, <3>4
  <2>5. CASE limit = 2 * h + 1
    <3>1. (MaxInt + 1) * limit = h * m + (MaxInt + 1)
      BY <1>1, <2>5
    <3>2. n = h * m + (MaxInt + 1 - 2 * limit)
      BY <1>1, <2>3, <3>1
    <3>3. MaxInt + 1 - 2 * limit \in Ints
      BY <1>1 DEF Ints
    <3>4. Wrap(n) = MaxInt + 1 - 2 * limit
      <4>1. h \in Int /\ MaxInt \in Nat
        BY <1>1
      <4>2. Wrap(h * m + (MaxInt + 1 - 2 * limit)) = MaxInt + 1 - 2 * limit
        BY <3>3, <4>1, WrapsBack, Zenon
      <4>3. QED
        BY <3>2, <4>2, Zenon
    <3>5. QED
      BY <1>1, <3>4
  <2>6. QED
    BY <2>2, <2>4, <2>5
<1>4. Wrap(n) \in Int /\ Wrap(n) >= 0
  <2>1. Wrap(n) \in Int
    BY <1>1, <1>2, WrapType DEF Ints
  <2>2. QED
    BY <1>1, <1>2, <2>1 DEF Sliceable, Minimum
<1> DEFINE start == Start(d, MaxInt, limit)
<1>5. start \in Nat /\ start + limit >= Len(d) /\ start + limit \in Ints
  <2> DEFINE w == Wrap(n)
  <2>1. start = Minimum(w, Len(d)) /\ w \in Int /\ w >= 0 /\ w + limit >= Len(d)
    BY <1>2, <1>3, <1>4
  <2> HIDE DEF w, start
  <2>2. QED
    BY <1>1, <2>1 DEF Minimum, Ints
<1>6. Wrap(start + limit) = start + limit
  BY <1>5 DEF Wrap
<1> HIDE DEF start
<1>7. QED
  BY <1>1, <1>5, <1>6 DEF HasNextPage, End, Minimum, start

LEMMA Cut ==
  ASSUME NEW d \in Documents, NEW p \in 1..MaxInt, NEW limit \in 1..MaxLimit,
         Sliceable(d, p, limit)
  PROVE  LET made == NewInMemoryPage(d, p, limit) IN
         made \in Page /\ (made.HasNextPage => made.Page < MaxInt)
<1> DEFINE made == NewInMemoryPage(d, p, limit)
           start == Start(d, p, limit)
           end == End(d, p, limit)
<1>1. /\ MaxInt \in Nat \ {0} /\ limit \in 1..MaxInt /\ limit <= MaxLimit /\ p \in Int
      /\ Len(d) \in Nat /\ Len(d) + MaxLimit <= MaxInt
  <2>1. Len(d) \in Nat /\ Len(d) + MaxLimit <= MaxInt
    BY ListingType
  <2>2. QED
    BY <2>1, LimitsAssumption, IntAssumption
<1>2. start \in 0..Len(d) /\ end \in 0..Len(d)
  <2>1. Wrap(p - 1) \in Int /\ (Wrap(p - 1) * limit) \in Int
    <3>1. Wrap(p - 1) \in Int
      BY <1>1, WrapType DEF Ints
    <3>2. QED
      BY <1>1, <3>1
  <2>2. Wrap(Wrap(p - 1) * limit) \in Int
    BY <1>1, <2>1, WrapType DEF Ints
  <2>3. start \in Int /\ start <= Len(d)
    BY <1>1, <2>2 DEF Start, Minimum
  <2>4. Wrap(start + limit) \in Int
    <3> HIDE DEF start
    <3>1. QED
      BY <1>1, <2>3, WrapType DEF Ints
  <2>5. end \in Int /\ end <= Len(d)
    <3> HIDE DEF start
    <3>1. QED
      BY <1>1, <2>4 DEF End, Minimum, start
  <2> HIDE DEF start, end
  <2>6. QED
    BY <1>1, <2>3, <2>5 DEF Sliceable, start, end
<1>3. SubSeq(d, start + 1, end) \in Seq(Elements)
  <2> DEFINE held == {d[i] : i \in DOMAIN d}
  <2>1. d \in Seq(held) /\ held \subseteq Elements
    BY ListingType DEF Elements
  <2> HIDE DEF held, start, end
  <2>2. d \in Seq(Elements)
    BY <2>1
  <2>3. QED
    BY <1>1, <1>2, <2>2
<1>4. TotalPages(d, limit) \in Nat
  <2>1. Wrap(Len(d) + limit - 1) = Len(d) + limit - 1
    <3>1. Len(d) + limit - 1 \in Ints
      <4>1. limit \in Int /\ limit >= 1 /\ MaxLimit \in Int
        BY <1>1, LimitsAssumption, IntAssumption
      <4>2. QED
        BY <1>1, <4>1 DEF Ints
    <3>2. QED
      BY <3>1 DEF Wrap
  <2>2. Len(d) + limit - 1 \in Nat /\ limit \in Nat \ {0}
    BY <1>1
  <2>3. \A n \in Nat : n \div limit \in Nat
    BY <2>2
  <2>4. QED
    BY <2>1, <2>2, <2>3 DEF TotalPages
<1>5. made = [Docs |-> SubSeq(d, start + 1, end), TotalDocs |-> Len(d), Limit |-> limit,
              TotalPages |-> TotalPages(d, limit), Page |-> p, HasPrevPage |-> p > 1,
              HasNextPage |-> HasNextPage(d, p, limit)]
  BY DEF NewInMemoryPage
<1>6. HasNextPage(d, p, limit) \in BOOLEAN /\ (p > 1) \in BOOLEAN
  BY DEF HasNextPage
<1>7. HasNextPage(d, p, limit) => p < MaxInt
  BY <1>1, NoneAfterLargest
<1> HIDE DEF made, start, end
<1>8. made \in Page
  BY <1>1, <1>3, <1>4, <1>5, <1>6 DEF Page
<1>9. made.HasNextPage => made.Page < MaxInt
  BY <1>5, <1>7
<1>10. QED
  BY <1>8, <1>9 DEF made

TypeInv == TypeOK /\ (page.HasNextPage => page.Page < MaxInt)

LEMMA TypeInit == Init => TypeInv
  BY IntAssumption DEF Init, TypeInv, TypeOK, NoPage, Ints

LEMMA TypeStep == TypeInv /\ [Next]_vars => TypeInv'
<1> SUFFICES ASSUME TypeInv, [Next]_vars PROVE TypeInv'
  OBVIOUS
<1>1. ASSUME NEW p \in Pages, NEW limit \in Limits, Ask(p, limit) PROVE TypeInv'
  BY <1>1, IntAssumption DEF Ask, TypeInv, TypeOK, Ints
<1>2. CASE Serve
  <2> DEFINE p == NormalizePagination(asked.page, asked.limit).page
             limit == NormalizePagination(asked.page, asked.limit).limit
             made == NewInMemoryPage(docs, p, limit)
  <2>1. /\ docs' = docs /\ asked' = asked
        /\ \/ /\ Sliceable(docs, p, limit) /\ page' = made
              /\ seen' = seen \o made.Docs /\ call' = "answered"
           \/ call' = "panicked" /\ page' = page /\ seen' = seen
    BY <1>2 DEF Serve
  <2>2. /\ docs \in Documents /\ asked \in [first : Ints, page : Ints, limit : Ints]
        /\ page \in Page \cup {NoPage} /\ seen \in Seq(Elements)
    BY DEF TypeInv, TypeOK
  <2>3. p \in 1..MaxInt /\ limit \in 1..MaxLimit
    <3>1. asked.page \in Ints /\ asked.limit \in Int
      BY <2>2 DEF Ints
    <3>2. limit \in 1..MaxLimit
      BY <3>1, Normalized DEF Ints
    <3>3. p \in 1..MaxInt
      BY <3>1, LimitsAssumption, IntAssumption DEF NormalizePagination, Ints
    <3>4. QED
      BY <3>2, <3>3
  <2> HIDE DEF p, limit
  <2>4. CASE Sliceable(docs, p, limit) /\ page' = made /\ seen' = seen \o made.Docs
             /\ call' = "answered"
    <3>1. made \in Page /\ (made.HasNextPage => made.Page < MaxInt)
      BY <2>2, <2>3, <2>4, Cut
    <3> HIDE DEF made
    <3>2. made.Docs \in Seq(Elements)
      BY <3>1 DEF Page
    <3>3. seen' \in Seq(Elements)
      BY <2>2, <2>4, <3>2, ConcatProperties
    <3>4. QED
      BY <2>1, <2>2, <2>4, <3>1, <3>3 DEF TypeInv, TypeOK
  <2>5. CASE call' = "panicked" /\ page' = page /\ seen' = seen
    BY <2>1, <2>5 DEF TypeInv, TypeOK
  <2>6. QED
    BY <2>1, <2>4, <2>5
<1>3. CASE Follow
  <2>1. /\ UNCHANGED <<docs, page, seen>> /\ call' = "called" /\ page.HasNextPage
        /\ asked' = [asked EXCEPT !.page = page.Page + 1]
    BY <1>3 DEF Follow
  <2>2. page \in Page \cup {NoPage} /\ page.Page < MaxInt
    BY <2>1 DEF TypeInv, TypeOK
  <2>3. page.Page \in Nat
    BY <2>2, IntAssumption DEF Page, NoPage
  <2>4. page.Page + 1 \in Ints
    BY <2>2, <2>3, IntAssumption DEF Ints
  <2>5. asked' \in [first : Ints, page : Ints, limit : Ints]
    BY <2>1, <2>4 DEF TypeInv, TypeOK
  <2>6. QED
    BY <2>1, <2>5 DEF TypeInv, TypeOK
<1>4. CASE UNCHANGED vars
  BY <1>4 DEF vars, TypeInv, TypeOK
<1>5. QED
  BY <1>1, <1>2, <1>3, <1>4 DEF Next

\* No page a client is sent, and no page it goes on to, has a number that is not
\* an int, though the arithmetic behind it may have wrapped around.
THEOREM TypeCorrect == Spec => []TypeOK
<1>1. TypeInv => TypeOK
  BY DEF TypeInv
<1>2. QED
  BY <1>1, TypeInit, TypeStep, PTL DEF Spec
=============================================================================
