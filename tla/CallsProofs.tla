----------------------------- MODULE CallsProofs -----------------------------
(* Proofs about Calls, for any number of services in a row, any number of    *)
(* requests, and any answers.                                                 *)
EXTENDS Calls, SequenceTheorems, WellFoundedInduction, TLAPS

Pcs == {"sent", "handling", "calling", "reading", "sending", "answered", "torn"}
Results == {"none", "ok", "status", "timeout", "failed"}
Heads == {0} \cup 100..599

\* The updates of a frame.
Identified(y, i, c) == [y EXCEPT !.pc = "handling", !.id = i, !.caller = c]
Moved(y, p)         == [y EXCEPT !.pc = p]
Heard(y, h)         == [y EXCEPT !.pc = "reading", !.heard = h]
Answering(y, h)     == [y EXCEPT !.pc = "sending", !.head = h]
Calling(y, k)       == [y EXCEPT !.pc = "calling", !.child = k, !.heard = 0, !.result = "none"]
Unsent(y)           == [y EXCEPT !.child = 0, !.heard = 0, !.result = "failed"]
Returned(y, r)      == [y EXCEPT !.pc = "handling", !.result = r]

\* What no update changes.
Same(x, y) ==
  /\ x.parent = y.parent /\ x.level = y.level /\ x.route = y.route /\ x.header = y.header

LEMMA FrameWith ==
  ASSUME NEW y \in Frame
  PROVE  /\ \A i \in Nat, c \in Nat \cup {None, Clean} : Identified(y, i, c) \in Frame
         /\ \A p \in Pcs : Moved(y, p) \in Frame
         /\ \A h \in Heads : Answering(y, h) \in Frame /\ Heard(y, h) \in Frame
         /\ \A k \in 0..MaxFrames : Calling(y, k) \in Frame
         /\ Unsent(y) \in Frame
         /\ \A r \in Results : Returned(y, r) \in Frame
<1> DEFINE Parents == 0..MaxFrames
           Levels == 1..Depth
           Routes == {"api", "status", "health"}
           Headers == Nat \cup {None, Clean, Dirty}
           Ids == Nat \cup {None}
           Callers == Nat \cup {None, Clean}
<1>1. /\ Frame = [parent : Parents, level : Levels, route : Routes, header : Headers, pc : Pcs,
                  id : Ids, caller : Callers, head : Heads, child : Parents, heard : Heads,
                  result : Results]
      /\ 0 \in Parents /\ 0 \in Heads /\ Nat \subseteq Ids
      /\ "handling" \in Pcs /\ "reading" \in Pcs /\ "sending" \in Pcs /\ "calling" \in Pcs
      /\ "none" \in Results /\ "failed" \in Results
  <2>1. Frame = [parent : Parents, level : Levels, route : Routes, header : Headers, pc : Pcs,
                 id : Ids, caller : Callers, head : Heads, child : Parents, heard : Heads,
                 result : Results]
    BY DEF Frame, Pcs, Results, Heads
  <2>2. 0 \in Parents /\ 0 \in Heads /\ Nat \subseteq Ids
    BY DepthAssumption DEF Heads
  <2>3. QED
    BY <2>1, <2>2 DEF Pcs, Results
<1> HIDE DEF Parents, Levels, Routes, Headers, Ids, Callers
<1>2. \A i \in Nat, c \in Callers : Identified(y, i, c) \in Frame
  BY <1>1 DEF Identified
<1>3. \A k \in Parents : Calling(y, k) \in Frame
  BY <1>1 DEF Calling
<1>4. /\ \A p \in Pcs : Moved(y, p) \in Frame
      /\ \A h \in Heads : Answering(y, h) \in Frame /\ Heard(y, h) \in Frame
      /\ Unsent(y) \in Frame
      /\ \A r \in Results : Returned(y, r) \in Frame
  BY <1>1 DEF Moved, Answering, Heard, Unsent, Returned
<1>5. QED
  BY <1>2, <1>3, <1>4 DEF Callers, Parents

LEMMA FrameFields ==
  ASSUME NEW y \in Frame
  PROVE  /\ \A i, c : LET x == Identified(y, i, c) IN
              /\ Same(x, y) /\ x.pc = "handling" /\ x.id = i /\ x.caller = c
              /\ x.head = y.head /\ x.child = y.child /\ x.heard = y.heard
              /\ x.result = y.result
         /\ \A p : LET x == Moved(y, p) IN
              /\ Same(x, y) /\ x.pc = p /\ x.id = y.id /\ x.caller = y.caller
              /\ x.head = y.head /\ x.child = y.child /\ x.heard = y.heard
              /\ x.result = y.result
         /\ \A h : LET x == Heard(y, h) IN
              /\ Same(x, y) /\ x.pc = "reading" /\ x.id = y.id /\ x.caller = y.caller
              /\ x.head = y.head /\ x.child = y.child /\ x.heard = h /\ x.result = y.result
         /\ \A h : LET x == Answering(y, h) IN
              /\ Same(x, y) /\ x.pc = "sending" /\ x.id = y.id /\ x.caller = y.caller
              /\ x.head = h /\ x.child = y.child /\ x.heard = y.heard /\ x.result = y.result
         /\ \A k : LET x == Calling(y, k) IN
              /\ Same(x, y) /\ x.pc = "calling" /\ x.id = y.id /\ x.caller = y.caller
              /\ x.head = y.head /\ x.child = k /\ x.heard = 0 /\ x.result = "none"
         /\ LET x == Unsent(y) IN
              /\ Same(x, y) /\ x.pc = y.pc /\ x.id = y.id /\ x.caller = y.caller
              /\ x.head = y.head /\ x.child = 0 /\ x.heard = 0 /\ x.result = "failed"
         /\ \A r : LET x == Returned(y, r) IN
              /\ Same(x, y) /\ x.pc = "handling" /\ x.id = y.id /\ x.caller = y.caller
              /\ x.head = y.head /\ x.child = y.child /\ x.heard = y.heard /\ x.result = r
  BY DEF Frame, Same, Identified, Moved, Heard, Answering, Calling, Unsent, Returned

\* Frame x, among the frames fr, has a reason to tell the status.
Reasonable(fr, x, status) ==
  \/ x.result \in {"none", "ok"}
  \/ x.result = "timeout" /\ status = 504 /\ (x.heard = 0 \/ Success(x.heard))
  \/ x.result = "status" /\ x.child \in DOMAIN fr /\ fr[x.child].head = status

\* What holds of frame x at place f among the frames fr: its id is its own, its
\* caller is its parent, its last call is one it made, what it heard of that one was
\* said, and it answers with reason.
Good(fr, f, x) ==
  /\ x.id \in {None, f}
  /\ x.pc \notin {"sent", "torn"} => x.id = f
  /\ x.caller = IF x.id = None THEN None ELSE SanitizeCorrelationID(x.header)
  /\ x.parent \in 0..(f - 1)
  /\ IF x.parent = 0 THEN x.header \in {None, Clean, Dirty}
     ELSE x.parent \in DOMAIN fr /\ x.header \in {x.parent, Clean}
  /\ x.pc \in {"calling", "reading"} \/ x.result \in {"ok", "status"} => x.child # 0
  /\ x.child # 0 => x.child \in DOMAIN fr /\ fr[x.child].parent = f
  /\ x.heard # 0 => x.child # 0 /\ fr[x.child].head = x.heard
  /\ x.pc \in {"calling", "reading"} => x.result = "none"
  /\ x.pc = "calling" => x.heard = 0
  /\ x.pc = "reading" \/ x.result = "status" => x.heard # 0
  /\ x.result = "timeout" => x.heard = 0 \/ Success(x.heard)
  /\ x.result = "ok" => fr[x.child].pc = "answered" /\ Success(fr[x.child].head)
  /\ x.route = "status" /\ x.level < Depth /\ x.head = 200 =>
       \E g \in DOMAIN fr : fr[g].parent = f /\ fr[g].pc = "answered"
  /\ x.pc \in {"sent", "handling", "calling", "reading"} => x.head = 0
  /\ x.head \in {404, 504} => Reasonable(fr, x, x.head)

CallsInv ==
  /\ left \in BOOLEAN
  /\ frames \in Seq(Frame) /\ Len(frames) \in 1..MaxFrames
  /\ \A f \in DOMAIN frames : Good(frames, f, frames[f])

\* What no step takes back: a frame keeps its parent, its status once it has one,
\* and stays answered.
Grows(fr, gr) ==
  /\ DOMAIN fr \subseteq DOMAIN gr
  /\ \A g \in DOMAIN fr :
       /\ gr[g].parent = fr[g].parent
       /\ fr[g].head # 0 => gr[g].head = fr[g].head
       /\ fr[g].pc = "answered" => gr[g].pc = "answered"

LEMMA GoodStays ==
  ASSUME NEW fr, NEW gr, NEW f, NEW x, Good(fr, f, x), Grows(fr, gr)
  PROVE  Good(gr, f, x)
  BY DEF Good, Grows, Reasonable, Success

\* A step of one frame.
LEMMA SetStep ==
  ASSUME CallsInv, NEW f \in DOMAIN frames, NEW x \in Frame, Sets(f, x),
         frames[f].pc # "answered", frames[f].head # 0 => x.head = frames[f].head,
         x.parent = frames[f].parent, Good(frames, f, x)
  PROVE  CallsInv'
<1>1. /\ frames \in Seq(Frame) /\ DOMAIN frames = 1..Len(frames) /\ Len(frames) \in Nat
      /\ frames' = [frames EXCEPT ![f] = x] /\ left' = left
  BY DEF CallsInv, Sets
<1>2. /\ frames' \in Seq(Frame) /\ Len(frames') = Len(frames) /\ DOMAIN frames' = DOMAIN frames
      /\ frames'[f] = x
      /\ \A g \in DOMAIN frames : g # f => frames'[g] = frames[g]
  BY <1>1
<1>3. Grows(frames, frames')
  BY <1>1, <1>2 DEF Grows
<1>4. ASSUME NEW g \in DOMAIN frames' PROVE Good(frames', g, frames'[g])
  <2>1. Good(frames, g, frames'[g])
    BY <1>2 DEF CallsInv
  <2>2. QED
    BY <2>1, <1>3, GoodStays
<1>5. QED
  BY <1>1, <1>2, <1>4 DEF CallsInv

\* What a frame in the middle of a call knows.
LEMMA CallShape ==
  ASSUME CallsInv, NEW f, NEW pcs, At(f, pcs)
  PROVE  /\ f \in DOMAIN frames /\ f \in Nat /\ frames[f] \in Frame /\ frames[f].pc \in pcs
         /\ Good(frames, f, frames[f])
<1>1. frames \in Seq(Frame) /\ f \in DOMAIN frames /\ frames[f].pc \in pcs
  BY DEF CallsInv, At
<1>2. f \in 1..Len(frames) /\ Len(frames) \in Nat /\ frames[f] \in Frame
  BY <1>1, ElementOfSeq, LenProperties
<1>3. QED
  BY <1>1, <1>2 DEF CallsInv

----------------------------------------------------------------------------
(* A step of one frame each *)

LEMMA AttachStep == ASSUME CallsInv, NEW f, AttachRequestID(f) PROVE CallsInv'
<1> DEFINE y == frames[f]
           x == Identified(y, f, SanitizeCorrelationID(y.header))
<1>1. /\ f \in DOMAIN frames /\ f \in Nat /\ y \in Frame /\ y.pc = "sent"
      /\ Good(frames, f, y)
  BY CallShape DEF AttachRequestID
<1>2. Sets(f, x)
  BY DEF AttachRequestID, Identified
<1>3. SanitizeCorrelationID(y.header) \in Nat \cup {None, Clean}
  BY <1>1 DEF Frame, SanitizeCorrelationID
<1> HIDE DEF y
<1>4. x \in Frame
  <2>1. \A i \in Nat, c \in Nat \cup {None, Clean} : Identified(y, i, c) \in Frame
    BY <1>1, FrameWith
  <2>2. QED
    BY <1>1, <1>3, <2>1
<1>5. /\ x.pc = "handling" /\ x.id = f /\ x.caller = SanitizeCorrelationID(y.header)
      /\ Same(x, y)
      /\ x.head = y.head /\ x.child = y.child /\ x.heard = y.heard /\ x.result = y.result
  BY <1>1, FrameFields
<1>6. f # None
  BY <1>1, HeaderAssumption
<1> HIDE DEF x
<1>7. Good(frames, f, x)
  BY <1>1, <1>5, <1>6 DEF Good, Same, Reasonable
<1>8. QED
  BY <1>1, <1>2, <1>4, <1>5, <1>7, SetStep DEF y, Same, Good

\* The frame at f goes on to p, and all else stays.
LEMMA PcStep ==
  ASSUME CallsInv, NEW f, NEW p \in {"answered", "torn"}, Sets(f, [frames[f] EXCEPT !.pc = p]),
         At(f, {"sent", "handling", "calling", "reading", "sending"}),
         p = "answered" => At(f, {"sending"})
  PROVE  CallsInv'
<1> DEFINE y == frames[f]
           x == Moved(y, p)
<1>1. /\ f \in DOMAIN frames /\ f \in Nat /\ y \in Frame /\ Good(frames, f, y)
      /\ y.pc \in {"sent", "handling", "calling", "reading", "sending"}
      /\ p = "answered" => y.pc = "sending"
  BY CallShape DEF At
<1> HIDE DEF y
<1>2. x \in Frame
  BY <1>1, FrameWith DEF Pcs, Results, Heads
<1>3. /\ x.pc = p /\ x.id = y.id /\ x.caller = y.caller
      /\ Same(x, y)
      /\ x.head = y.head /\ x.child = y.child /\ x.heard = y.heard /\ x.result = y.result
  BY <1>1, FrameFields
<1>4. Sets(f, x)
  BY DEF y, Moved
<1> HIDE DEF x
<1>5. Good(frames, f, x)
  BY <1>1, <1>3 DEF Good, Same, Reasonable
<1>6. QED
  BY <1>1, <1>2, <1>3, <1>4, <1>5, SetStep DEF y, Same, Good

\* The header of an answer comes in.
LEMMA HeadStep == ASSUME CallsInv, NEW f, GetHead(f) PROVE CallsInv'
<1> DEFINE y == frames[f]
           h == frames[y.child].head
           x == Heard(y, h)
<1>1. /\ f \in DOMAIN frames /\ f \in Nat /\ y \in Frame /\ Good(frames, f, y)
      /\ y.pc = "calling" /\ h # 0
  BY CallShape DEF GetHead, Callee
<1>2. Sets(f, x)
  BY DEF GetHead, Callee, Heard
<1>3. h \in Heads
  <2>1. y.child \in DOMAIN frames
    BY <1>1 DEF Good
  <2>2. frames[y.child] \in Frame
    BY <2>1, ElementOfSeq, LenProperties DEF CallsInv
  <2>3. QED
    BY <2>2 DEF Frame, Heads
<1> HIDE DEF y, h
<1>4. x \in Frame
  BY <1>1, <1>3, FrameWith
<1>5. /\ x.pc = "reading" /\ x.id = y.id /\ x.caller = y.caller
      /\ Same(x, y)
      /\ x.head = y.head /\ x.child = y.child /\ x.heard = h /\ x.result = y.result
  BY <1>1, FrameFields
<1>b. h = frames[y.child].head
  BY DEF h
<1> HIDE DEF x
<1>6. Good(frames, f, x)
  BY <1>1, <1>5, <1>b DEF Good, Same, Reasonable
<1>7. QED
  BY <1>1, <1>2, <1>4, <1>5, <1>6, SetStep DEF y, Same, Good

\* A call returns.
LEMMA ReturnStep ==
  ASSUME CallsInv, NEW f, At(f, {"calling", "reading"}),
         NEW r \in {"ok", "status", "timeout", "failed"}, Return(f, r),
         r = "ok" => /\ frames[f].pc = "reading" /\ Success(frames[f].heard)
                     /\ Callee(f).pc = "answered",
         r = "status" => frames[f].pc = "reading",
         r = "timeout" => frames[f].heard = 0 \/ Success(frames[f].heard)
  PROVE  CallsInv'
<1> DEFINE y == frames[f]
           x == Returned(y, r)
<1>1. /\ f \in DOMAIN frames /\ f \in Nat /\ y \in Frame /\ Good(frames, f, y)
      /\ y.pc \in {"calling", "reading"}
  BY CallShape
<1>2. Sets(f, x)
  BY DEF Return, Returned
<1>3. /\ r = "ok" => /\ y.pc = "reading" /\ Success(y.heard)
                      /\ frames[y.child].pc = "answered"
      /\ r = "status" => y.pc = "reading"
      /\ r = "timeout" => y.heard = 0 \/ Success(y.heard)
  BY DEF Callee
<1> HIDE DEF y
<1>4. x \in Frame
  BY <1>1, FrameWith DEF Pcs, Results, Heads
<1>5. /\ x.pc = "handling" /\ x.id = y.id /\ x.caller = y.caller
      /\ Same(x, y)
      /\ x.head = y.head /\ x.child = y.child /\ x.heard = y.heard /\ x.result = r
  BY <1>1, FrameFields
<1> HIDE DEF x
<1>6. Good(frames, f, x)
  BY <1>1, <1>3, <1>5 DEF Good, Same, Reasonable
<1>7. QED
  BY <1>1, <1>2, <1>4, <1>5, <1>6, SetStep DEF y, Same, Good

LEMMA ReadStep ==
  ASSUME CallsInv, NEW f, ReadAll(f) \/ ReadHead(f) \/ Timeout(f) \/ Cancel(f) \/ Break(f)
  PROVE  CallsInv'
<1>1. CASE ReadAll(f)
  <2>1. /\ At(f, {"calling", "reading"}) /\ Callee(f).pc = "answered"
        /\ frames[f].pc = "reading" /\ Success(frames[f].heard)
    BY <1>1 DEF ReadAll, At
  <2>2. PICK r \in {"ok", "failed"} : Return(f, r)
    BY <1>1 DEF ReadAll
  <2>3. QED
    BY <2>1, <2>2, ReturnStep
<1>2. CASE ReadHead(f)
  BY <1>2, ReturnStep DEF ReadHead, At
<1>3. CASE Timeout(f) \/ Cancel(f) \/ Break(f)
  <2>1. At(f, {"calling", "reading"})
    BY <1>3 DEF Timeout, Cancel, Break
  <2>2. PICK r \in {"status", "timeout", "failed"} :
          /\ Return(f, r)
          /\ r = "status" => frames[f].pc = "reading"
          /\ r = "timeout" => frames[f].pc = "calling" \/ Success(frames[f].heard)
    BY <1>3, <2>1 DEF Timeout, Cancel, Break, Interrupted, At
  <2>3. frames[f].pc = "calling" => frames[f].heard = 0
    BY <2>1, CallShape DEF Good
  <2>4. QED
    BY <2>1, <2>2, <2>3, ReturnStep
<1>4. QED
  BY <1>1, <1>2, <1>3

LEMMA NotSentStep == ASSUME CallsInv, NEW f, NotSent(f) PROVE CallsInv'
<1> DEFINE y == frames[f]
           x == Unsent(y)
<1>1. /\ f \in DOMAIN frames /\ f \in Nat /\ y \in Frame /\ Good(frames, f, y)
      /\ y.pc = "handling"
  BY CallShape DEF NotSent, MayCall
<1>2. Sets(f, x)
  BY DEF NotSent, Unsent
<1> HIDE DEF y
<1>3. x \in Frame
  <2>1. 0 \in 0..MaxFrames
    BY DepthAssumption
  <2>2. QED
    BY <1>1, <2>1, FrameWith DEF Pcs, Results, Heads
<1>4. /\ x.pc = "handling" /\ x.id = y.id /\ x.caller = y.caller
      /\ Same(x, y)
      /\ x.head = y.head /\ x.child = 0 /\ x.heard = 0 /\ x.result = "failed"
  BY <1>1, FrameFields
<1> HIDE DEF x
<1>5. Good(frames, f, x)
  BY <1>1, <1>4 DEF Good, Same, Reasonable
<1>6. QED
  BY <1>1, <1>2, <1>3, <1>4, <1>5, SetStep DEF y, Same, Good

LEMMA AnswerStep == ASSUME CallsInv, NEW f, Answer(f) PROVE CallsInv'
<1> DEFINE y == frames[f]
<1>1. /\ f \in DOMAIN frames /\ f \in Nat /\ y \in Frame /\ Good(frames, f, y)
      /\ y.pc = "handling"
  BY CallShape DEF Answer
<1>2. PICK status \in Answers(f) : Sets(f, [y EXCEPT !.pc = "sending", !.head = status])
  BY DEF Answer
<1> DEFINE x == Answering(y, status)
<1>3. status \in 100..599
  BY <1>2, StatusAssumption DEF Answers, StatusOf, Upstream
<1>4. y.route = "status" /\ y.level < Depth /\ status = 200 => y.result = "ok"
  <2>1. ASSUME y.route = "status", y.level < Depth, status = 200 PROVE y.result = "ok"
    <3>1. status = StatusOf(f)
      BY <1>2, <2>1 DEF Answers
    <3>2. y.level # Depth
      BY <1>1, <2>1, DepthAssumption DEF Frame
    <3>3. QED
      BY <3>1, <3>2, <2>1 DEF StatusOf
  <2>2. QED
    BY <2>1
<1>5. Sets(f, x)
  BY <1>2 DEF Answering
<1>a. status \in {404, 504} => Reasonable(frames, y, status)
  BY <1>1, <1>2 DEF Answers, StatusOf, Upstream, IsNotFound, IsTimeout, Callee, Reasonable, Good
<1> HIDE DEF y
<1>6. x \in Frame
  BY <1>1, <1>3, FrameWith DEF Pcs, Results, Heads
<1>7. /\ x.pc = "sending" /\ x.id = y.id /\ x.caller = y.caller
      /\ Same(x, y)
      /\ x.head = status /\ x.child = y.child /\ x.heard = y.heard /\ x.result = y.result
  BY <1>1, FrameFields
<1> HIDE DEF x
<1>8. Good(frames, f, x)
  BY <1>1, <1>4, <1>a, <1>7 DEF Good, Same, Reasonable
<1>9. QED
  BY <1>1, <1>5, <1>6, <1>7, <1>8, SetStep DEF y, Same, Good

----------------------------------------------------------------------------
(* A call, and a crash *)

LEMMA DoStep == ASSUME CallsInv, NEW f, NEW set \in {None, Clean}, Do(f, set) PROVE CallsInv'
<1> DEFINE y == frames[f]
           child == Len(frames) + 1
           x == Calling(y, child)
           route == IF y.route = "status" THEN "health" ELSE "api"
           z == Received(f, y.level + 1, route, RoundTrip(f, set))
           mid == [frames EXCEPT ![f] = x]
<1>1. /\ f \in DOMAIN frames /\ f \in Nat /\ y \in Frame /\ Good(frames, f, y)
      /\ y.pc = "handling"
  BY CallShape DEF Do, MayCall
<1>2. /\ frames \in Seq(Frame) /\ DOMAIN frames = 1..Len(frames) /\ Len(frames) \in Nat
      /\ y.level < Depth /\ child <= MaxFrames /\ left' = left /\ left \in BOOLEAN
      /\ frames' = Append(mid, z)
  BY DEF Do, MayCall, CallsInv, Calling
<1>3. f \in 1..Len(frames) /\ child \in 0..MaxFrames /\ child # 0 /\ f < child /\ f \in 0..MaxFrames
  BY <1>1, <1>2, DepthAssumption
<1>4. RoundTrip(f, set) \in {f, Clean}
  BY <1>1 DEF RoundTrip, Good
<1>5. z \in Frame
  <2>1. y.level + 1 \in 1..Depth
    <3>1. y.level \in 1..Depth
      BY <1>1 DEF Frame
    <3>2. y.level < Depth
      BY <1>2
    <3> HIDE DEF y
    <3>3. QED
      BY <3>1, <3>2, DepthAssumption
  <2>2. RoundTrip(f, set) \in Nat \cup {None, Clean, Dirty}
    BY <1>1, <1>4
  <2>3. QED
    BY <1>3, <2>1, <2>2, DepthAssumption DEF Frame, Received
<1>6. /\ z.pc = "sent" /\ z.id = None /\ z.caller = None /\ z.parent = f
      /\ z.header \in {f, Clean} /\ z.head = 0 /\ z.child = 0 /\ z.heard = 0
      /\ z.result = "none"
  BY <1>4 DEF Received
<1> HIDE DEF y, z
<1>7. x \in Frame
  BY <1>1, <1>3, FrameWith DEF Pcs, Results, Heads
<1>8. /\ x.pc = "calling" /\ x.id = y.id /\ x.caller = y.caller
      /\ Same(x, y)
      /\ x.head = y.head /\ x.child = child /\ x.heard = 0 /\ x.result = "none"
  BY <1>1, FrameFields
<1> HIDE DEF x
<1>9. /\ mid \in Seq(Frame) /\ Len(mid) = Len(frames) /\ mid[f] = x
      /\ \A g \in DOMAIN frames : g # f => mid[g] = frames[g]
  BY <1>1, <1>2, <1>7
<1>10. /\ frames' \in Seq(Frame) /\ Len(frames') = child /\ DOMAIN frames' = 1..child
       /\ \A g \in DOMAIN frames : frames'[g] = mid[g]
       /\ frames'[child] = z
  BY <1>2, <1>5, <1>9, AppendProperties
<1>11. Grows(frames, frames')
  <2>1. DOMAIN frames \subseteq DOMAIN frames'
    BY <1>2, <1>10
  <2>2. x.parent = frames[f].parent /\ x.head = frames[f].head /\ frames[f].pc # "answered"
    BY <1>1, <1>8 DEF y, Same
  <2>3. QED
    BY <2>1, <2>2, <1>9, <1>10 DEF Grows
<1>12. Good(frames', f, x)
  <2>1. Good(frames', f, y)
    BY <1>1, <1>11, GoodStays
  <2>2. child \in DOMAIN frames' /\ frames'[child].parent = f
    BY <1>3, <1>6, <1>10
  <2>3. QED
    BY <1>1, <1>3, <1>8, <2>1, <2>2 DEF Good, Same, Reasonable
<1>13. Good(frames', child, z)
  <2>1. f \in DOMAIN frames' /\ f \in 0..(child - 1) /\ f # 0
    BY <1>2, <1>3, <1>10
  <2>2. QED
    BY <1>3, <1>6, <2>1, HeaderAssumption DEF Good
<1>14. ASSUME NEW g \in DOMAIN frames' PROVE Good(frames', g, frames'[g])
  <2>1. CASE g = child
    BY <2>1, <1>10, <1>13
  <2>2. CASE g = f
    BY <2>2, <1>1, <1>9, <1>10, <1>12
  <2>3. CASE g # child /\ g # f
    <3>1. g \in DOMAIN frames
      BY <2>3, <1>2, <1>10
    <3>2. Good(frames, g, frames[g]) /\ frames'[g] = frames[g]
      BY <3>1, <2>3, <1>9, <1>10 DEF CallsInv
    <3>3. QED
      BY <3>2, <1>11, GoodStays
  <2>4. QED
    BY <2>1, <2>2, <2>3
<1>15. Len(frames') \in 1..MaxFrames /\ left' \in BOOLEAN
  BY <1>2, <1>3, <1>10
<1>16. QED
  BY <1>10, <1>14, <1>15 DEF CallsInv

LEMMA CrashStep == ASSUME CallsInv, NEW level, Crash(level) PROVE CallsInv'
<1> DEFINE Torn(g) == Moved(frames[g], "torn")
<1>1. /\ frames \in Seq(Frame) /\ DOMAIN frames = 1..Len(frames) /\ Len(frames) \in 1..MaxFrames
      /\ left' = left /\ left \in BOOLEAN
  BY DEF CallsInv, Crash
<1>2. \A g \in DOMAIN frames : frames[g] \in Frame /\ Good(frames, g, frames[g])
  BY <1>1, ElementOfSeq DEF CallsInv
<1>3. /\ DOMAIN frames' = DOMAIN frames
      /\ \A g \in DOMAIN frames :
           frames'[g] = frames[g] \/ (frames[g].pc # "answered" /\ frames'[g] = Torn(g))
  BY DEF Crash, Ended, At, Moved
<1>4. ASSUME NEW y \in Frame
      PROVE  LET x == Moved(y, "torn") IN
               /\ x \in Frame /\ Same(x, y)
               /\ x.pc = "torn" /\ x.id = y.id /\ x.caller = y.caller
               /\ x.head = y.head /\ x.child = y.child /\ x.heard = y.heard
               /\ x.result = y.result
  BY FrameWith, FrameFields DEF Pcs
<1>5. \A g \in DOMAIN frames :
        /\ frames'[g] \in Frame /\ frames'[g].parent = frames[g].parent
        /\ frames'[g].head = frames[g].head
  BY <1>2, <1>3, <1>4 DEF Same
<1>6. frames' \in Seq(Frame) /\ Len(frames') = Len(frames)
  <2>1. frames' \in [1..Len(frames) -> Frame]
    <3>1. frames' = [g \in 1..Len(frames) |-> frames'[g]]
      BY <1>1, <1>3 DEF Crash
    <3>2. QED
      BY <3>1, <1>1, <1>5
  <2>2. QED
    BY <2>1, <1>1, SeqDef, LenProperties
<1>7. Grows(frames, frames')
  BY <1>3, <1>5 DEF Grows
<1>8. ASSUME NEW g \in DOMAIN frames' PROVE Good(frames', g, frames'[g])
  <2>1. Good(frames, g, frames'[g])
    <3>1. CASE frames'[g] = frames[g]
      BY <3>1, <1>2, <1>3
    <3>2. CASE frames'[g] = Torn(g)
      BY <3>2, <1>2, <1>3, <1>4 DEF Good, Same, Reasonable
    <3>3. QED
      BY <3>1, <3>2, <1>3
  <2>2. QED
    BY <2>1, <1>7, GoodStays
<1>9. QED
  BY <1>1, <1>6, <1>8 DEF CallsInv

----------------------------------------------------------------------------
(* The invariant *)

LEMMA CallsInit == Init => CallsInv
<1> SUFFICES ASSUME Init PROVE CallsInv
  OBVIOUS
<1>1. PICK route \in {"api", "status", "health"}, header \in {None, Clean, Dirty} :
        frames = <<Received(0, 1, route, header)>>
  BY DEF Init
<1> DEFINE z == Received(0, 1, route, header)
<1>2. z \in Frame
  BY DepthAssumption DEF Frame, Received
<1>3. Good(frames, 1, z)
  BY HeaderAssumption DEF Good, Received
<1> HIDE DEF z
<1>4. frames = <<z>>
  BY <1>1 DEF z
<1>5. frames \in Seq(Frame) /\ Len(frames) = 1 /\ DOMAIN frames = {1} /\ frames[1] = z
  BY <1>2, <1>4
<1>6. Len(frames) \in 1..MaxFrames
  BY <1>5, DepthAssumption
<1>7. \A f \in DOMAIN frames : Good(frames, f, frames[f])
  BY <1>3, <1>5
<1>8. QED
  BY <1>5, <1>6, <1>7 DEF CallsInv, Init

LEMMA CallsStep == CallsInv /\ [Next]_vars => CallsInv'
<1> SUFFICES ASSUME CallsInv, [Next]_vars PROVE CallsInv'
  OBVIOUS
<1>1. CASE UNCHANGED vars
  BY <1>1 DEF vars, CallsInv
<1>2. ASSUME NEW f, Serve(f) PROVE CallsInv'
  <2>1. CASE AttachRequestID(f)
    BY <2>1, AttachStep
  <2>2. CASE NotSent(f)
    BY <2>2, NotSentStep
  <2>3. CASE Answer(f)
    BY <2>3, AnswerStep
  <2>4. CASE Finish(f)
    BY <2>4, PcStep DEF Finish, At
  <2>5. ASSUME NEW set \in {None, Clean}, Do(f, set) PROVE CallsInv'
    BY <2>5, DoStep
  <2>6. QED
    BY <1>2, <2>1, <2>2, <2>3, <2>4, <2>5 DEF Serve
<1>3. ASSUME NEW f, GetHead(f) \/ WriteTimeout(f) PROVE CallsInv'
  BY <1>3, HeadStep, PcStep DEF WriteTimeout, At
<1>4. ASSUME NEW f, ReadAll(f) \/ ReadHead(f) \/ Timeout(f) \/ Cancel(f) \/ Break(f)
      PROVE  CallsInv'
  BY <1>4, ReadStep
<1>5. ASSUME NEW level, Crash(level) PROVE CallsInv'
  BY <1>5, CrashStep
<1>6. CASE Leave
  BY <1>6 DEF Leave, CallsInv
<1>7. QED
  BY <1>1, <1>2, <1>3, <1>4, <1>5, <1>6 DEF Next

LEMMA CallsAlways == Spec => []CallsInv
  BY CallsInit, CallsStep, PTL DEF Spec

\* Every frame is a record of its type, and there are no more of them than may be.
THEOREM TypeCorrect == Spec => []TypeOK
<1>1. CallsInv => TypeOK
  BY ElementOfSeq, LenProperties DEF CallsInv, TypeOK
<1>2. QED
  BY <1>1, CallsAlways, PTL

\* A request id names one request, and the correlation id that goes with it
\* leads to the caller and to nobody else.
THEOREM HopsAreTraceable == Spec => []HopIsTraceable
<1>1. CallsInv => HopIsTraceable
  <2> SUFFICES ASSUME CallsInv, NEW f \in DOMAIN frames, NEW g \in DOMAIN frames,
                      frames[f].id # None, frames[g].id # None
               PROVE  /\ frames[f].id = frames[g].id => f = g
                      /\ frames[f].caller = frames[g].id => frames[f].parent = g
                      /\ frames[f].parent = g => frames[f].caller \in {frames[g].id, Clean}
    BY DEF HopIsTraceable
  <2>1. f \in Nat /\ g \in Nat /\ g # 0
    BY LenProperties DEF CallsInv
  <2>2. Good(frames, f, frames[f]) /\ Good(frames, g, frames[g])
    BY DEF CallsInv
  <2>3. frames[f].id = f /\ frames[g].id = g
    BY <2>2 DEF Good
  <2>4. frames[f].caller = SanitizeCorrelationID(frames[f].header)
    BY <2>2 DEF Good
  <2>5. frames[f].caller = g => frames[f].parent = g
    BY <2>1, <2>2, <2>4, HeaderAssumption DEF Good, SanitizeCorrelationID
  <2>6. frames[f].parent = g => frames[f].caller \in {g, Clean}
    BY <2>1, <2>2, <2>4, HeaderAssumption DEF Good, SanitizeCorrelationID
  <2>7. QED
    BY <2>3, <2>5, <2>6
<1>2. QED
  BY <1>1, CallsAlways, PTL

\* A call that succeeded was answered in full, by the request it made, and a
\* service says it is ready only after a ping that was.
THEOREM SuccessesAreWhole == Spec => []SuccessIsWhole
<1>1. CallsInv => SuccessIsWhole
  BY DEF CallsInv, SuccessIsWhole, Good, Callee, Waits
<1>2. QED
  BY <1>1, CallsAlways, PTL

\* A nonempty set of places has a last one.
LEMMA LastPlace ==
  ASSUME NEW n \in Nat, NEW S \in SUBSET (1..n), S # {}
  PROVE  \E f \in S : \A g \in S : g <= f
<1> DEFINE T == {n - f : f \in S}
<1>1. T \subseteq Nat /\ T # {}
  OBVIOUS
<1>2. PICK x \in T : \A y \in T : ~(<<y, x>> \in OpToRel(<, Nat))
  BY <1>1, NatLessThanWellFounded, WFMin
<1>3. \A y \in T : ~(y < x)
  BY <1>1, <1>2 DEF OpToRel
<1>4. PICK f \in S : x = n - f
  OBVIOUS
<1>5. \A g \in S : g <= f
  BY <1>3, <1>4
<1>6. QED
  BY <1>5

\* A 404 and a 504 have a reason: a service that answered it, or time that ran out.
THEOREM FailuresAreToldAsHappened == Spec => []ToldAsHappened
<1>1. CallsInv => ToldAsHappened
  <2> SUFFICES ASSUME CallsInv, NEW status \in {404, 504},
                      NEW who \in SUBSET DOMAIN frames,
                      \A f \in DOMAIN frames :
                        \/ frames[f].result \in {"none", "ok"} /\ frames[f].head = status
                        \/ /\ frames[f].result = "timeout" /\ status = 504
                           /\ frames[f].heard = 0 \/ Success(frames[f].heard)
                        \/ /\ frames[f].result = "status" /\ frames[f].child \in who
                           /\ Callee(f).head = status
                        => f \in who
               PROVE  {f \in DOMAIN frames : frames[f].head = status} \subseteq who
    BY DEF ToldAsHappened, Reason
  <2> DEFINE Others == {f \in DOMAIN frames : frames[f].head = status} \ who
  <2>1. DOMAIN frames = 1..Len(frames) /\ Len(frames) \in Nat
    BY LenProperties DEF CallsInv
  <2>2. SUFFICES ASSUME Others # {} PROVE FALSE
    OBVIOUS
  <2>3. PICK f \in Others : \A g \in Others : g <= f
    <3>1. Others \in SUBSET (1..Len(frames))
      BY <2>1
    <3>2. Len(frames) \in Nat
      BY <2>1
    <3>3. Others # {}
      BY <2>2
    <3> HIDE DEF Others
    <3>4. QED
      BY <3>1, <3>2, <3>3, LastPlace, Zenon
  <2>4. f \in DOMAIN frames /\ f \in Nat /\ frames[f].head = status /\ f \notin who
    BY <2>1
  <2>5. Good(frames, f, frames[f])
    BY <2>4 DEF CallsInv
  <2>6. frames[f].result = "status" /\ frames[f].child \in DOMAIN frames
        /\ frames[frames[f].child].head = status /\ frames[f].child # 0
    BY <2>4, <2>5 DEF Good, Reasonable
  <2>7. frames[frames[f].child].parent = f
    BY <2>5, <2>6 DEF Good
  <2>8. Good(frames, frames[f].child, frames[frames[f].child])
    BY <2>6 DEF CallsInv
  <2>9. frames[f].child > f
    BY <2>1, <2>4, <2>6, <2>7, <2>8 DEF Good
  <2>10. frames[f].child \in who
    BY <2>1, <2>3, <2>4, <2>6, <2>9
  <2>11. QED
    BY <2>4, <2>6, <2>10 DEF Callee
<1>2. QED
  BY <1>1, CallsAlways, PTL
=============================================================================
