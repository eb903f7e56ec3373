-------------------------------- MODULE Paging --------------------------------
(***************************************************************************)
(* The pages of paging: a listing asked for by page and limit, answered    *)
(* with a page cut out of the full result set, and a client that follows   *)
(* HasNextPage.                                                            *)
(*                                                                         *)
(* Go's int has a width: the arithmetic of a page is that of the machine,  *)
(* with MaxInt + 1 a power of two.                                         *)
(***************************************************************************)
EXTENDS Integers, Sequences

CONSTANTS Documents,     \* full result sets
          Pages, Limits, \* what clients ask for
          DefaultLimit, MaxLimit, \* of the listing
          MaxInt         \* the largest int

ASSUME LimitsAssumption == DefaultLimit \in 1..MaxInt /\ MaxLimit \in 1..MaxInt
ASSUME IntAssumption ==
  /\ MaxInt \in Nat
  /\ Pages \cup Limits \subseteq (-MaxInt - 1)..MaxInt
\* No listing in memory comes within a page of the largest int.
ASSUME DocumentsAssumption ==
  \A d \in Documents :
    d \in Seq({d[i] : i \in DOMAIN d}) /\ Len(d) + MaxLimit <= MaxInt

Ints == (-MaxInt - 1)..MaxInt
Wrap(n) == IF n \in Ints THEN n ELSE ((n + MaxInt + 1) % (2 * (MaxInt + 1))) - MaxInt - 1

Minimum(a, b) == IF a <= b THEN a ELSE b

VARIABLES
  docs,   \* the full result set of the listing
  asked,  \* [first, page, limit]: as the client sent them, and the page it began with
  call,   \* "idle", "called", "answered" or "panicked"
  page,   \* the page the client got last
  seen    \* the documents it got, in order
vars == <<docs, asked, call, page, seen>>

Elements == UNION {{d[i] : i \in DOMAIN d} : d \in Documents}

Page == [Docs : Seq(Elements),
         TotalDocs : Nat, Limit : 1..MaxInt, TotalPages : Nat, Page : 1..MaxInt,
         HasPrevPage : BOOLEAN, HasNextPage : BOOLEAN]

\* The envelope of a nil page.
NoPage == [Docs |-> <<>>, TotalDocs |-> 0, Limit |-> 0, TotalPages |-> 0, Page |-> 0,
           HasPrevPage |-> FALSE, HasNextPage |-> FALSE]

----------------------------------------------------------------------------

\* Variant: no default, a limit of 0 or less stays.
NormalizePagination_NoDefault(p, limit) ==
  [page |-> IF p <= 0 THEN 1 ELSE p, limit |-> Minimum(limit, MaxLimit)]

NormalizePagination(p, limit) ==
  [page  |-> IF p <= 0 THEN 1 ELSE p,
   limit |-> Minimum(IF limit <= 0 THEN DefaultLimit ELSE limit, MaxLimit)]

\* Variant: pages counted from 0.
Start_ZeroBased(d, p, limit) == Minimum(Wrap(p * limit), Len(d))

\* Where the page begins and ends in the result set: slice bounds.
Start(d, p, limit) == Minimum(Wrap(Wrap(p - 1) * limit), Len(d))
End(d, p, limit) == Minimum(Wrap(Start(d, p, limit) + limit), Len(d))

\* A slice of these bounds panics unless 0 <= start <= end.
Sliceable(d, p, limit) ==
  0 <= Start(d, p, limit) /\ Start(d, p, limit) <= End(d, p, limit)

\* Variant: the number of pages is rounded down.
TotalPages_Floor(d, limit) == IF limit > 0 THEN Len(d) \div limit ELSE 0

TotalPages(d, limit) == IF limit > 0 THEN Wrap(Len(d) + limit - 1) \div limit ELSE 0

\* Variant: a next page whenever there is anything to list.
HasNextPage_Always(d, p, limit) == Len(d) > 0

HasNextPage(d, p, limit) == End(d, p, limit) < Len(d)

NewInMemoryPage(d, p, limit) ==
  [Docs        |-> SubSeq(d, Start(d, p, limit) + 1, End(d, p, limit)),
   TotalDocs   |-> Len(d),
   Limit       |-> limit,
   TotalPages  |-> TotalPages(d, limit),
   Page        |-> p,
   HasPrevPage |-> p > 1,
   HasNextPage |-> HasNextPage(d, p, limit)]

----------------------------------------------------------------------------

Init ==
  /\ docs \in Documents
  /\ asked = [first |-> 0, page |-> 0, limit |-> 0]
  /\ call = "idle"
  /\ page = NoPage
  /\ seen = <<>>

\* The client's first page.
Ask(p, limit) ==
  /\ call = "idle"
  /\ asked' = [first |-> p, page |-> p, limit |-> limit]
  /\ call' = "called"
  /\ UNCHANGED <<docs, page, seen>>

\* The listing: NormalizePagination, then NewInMemoryPage, whose slice panics on
\* bounds out of range, then NewPagedResponse.
Serve ==
  LET n == NormalizePagination(asked.page, asked.limit) IN
    /\ call = "called"
    /\ \/ /\ Sliceable(docs, n.page, n.limit)
          /\ page' = NewInMemoryPage(docs, n.page, n.limit)
          /\ seen' = seen \o page'.Docs
          /\ call' = "answered"
       \/ /\ ~Sliceable(docs, n.page, n.limit)
          /\ call' = "panicked"
          /\ UNCHANGED <<page, seen>>
    /\ UNCHANGED <<docs, asked>>

\* The client asks for the page after this one.
Follow ==
  /\ call = "answered" /\ page.HasNextPage
  /\ asked' = [asked EXCEPT !.page = page.Page + 1]
  /\ call' = "called"
  /\ UNCHANGED <<docs, page, seen>>

Next == (\E p \in Pages, limit \in Limits : Ask(p, limit)) \/ Serve \/ Follow

Spec == Init /\ [][Next]_vars /\ WF_vars(Serve \/ Follow)

----------------------------------------------------------------------------
(* Correctness *)

TypeOK ==
  /\ docs \in Documents
  /\ asked \in [first : Ints, page : Ints, limit : Ints]
  /\ call \in {"idle", "called", "answered", "panicked"}
  /\ page \in Page \cup {NoPage}
  /\ seen \in Seq(Elements)

\* The page asked for begins within the listing, or right at its end: the first
\* page of an empty listing, and the one after a last page that is full.
Exists(p) ==
  LET n == NormalizePagination(p, asked.limit) IN (n.page - 1) * n.limit <= Len(docs)

\* A page that exists says of itself what the listing says: a page follows
\* exactly if its number is below TotalPages, and the limit is within the cap
\* whatever was asked for.
PageDescribesItself ==
  call = "answered" /\ Exists(asked.page) =>
    /\ page.HasNextPage <=> page.Page < page.TotalPages
    /\ page.Limit <= MaxLimit

\* A client that follows HasNextPage to the end has got every document from
\* its first page on, once and in order.
WalkSeesAll ==
  call = "answered" /\ ~page.HasNextPage /\ Exists(asked.first) =>
    LET n == NormalizePagination(asked.first, asked.limit)
    IN seen = SubSeq(docs, (n.page - 1) * n.limit + 1, Len(docs))

\* ... and comes to the end.
WalkEnds ==
  call = "called" /\ Exists(asked.page) ~> call = "answered" /\ ~page.HasNextPage

\* What the page asked for is, without the machine's arithmetic: the documents
\* from (page - 1) * limit on, none if there are not so many.
AnsweredWithCut ==
  LET n == NormalizePagination(asked.page, asked.limit)
      from == (n.page - 1) * n.limit
  IN call = "answered" /\ page.Docs = SubSeq(docs, from + 1, Minimum(from + n.limit, Len(docs)))

\* Whatever numbers clients send, a page that exists is the right one: only
\* beyond the end of the listing can the arithmetic go wrong.
ExistingPageIsCut ==
  call \in {"answered", "panicked"} /\ Exists(asked.page) => AnsweredWithCut

\* "Cuts the requested page out of a full result set": for any page a client
\* can ask for, past the end as well.
PageIsCut == call \in {"answered", "panicked"} => AnsweredWithCut
=============================================================================
