---------------------------- MODULE RequestsProofs ----------------------------
(* Proofs about Requests, for any number of requests, any order of the        *)
(* middlewares and any handler.                                               *)
EXTENDS Requests, FiniteSetTheorems, SequenceTheorems, TLAPS

Places == {"idle", "down", "up", "panic", "answered", "torn"}
Way(r) == <<pc[r], depth[r], request[r], lines[r]>>

ShapeInv ==
  /\ chain \in Orders
  /\ pc \in [Requests -> Places]
  /\ depth \in [Requests -> Nat]
  /\ request = [r \in Requests |-> request[r]]
  /\ lines = [r \in Requests |-> lines[r]]

\* Where a request can be on its way in and out.
FlowOf(r) ==
  /\ pc[r] = "down" => depth[r] \in 1..(Len(chain) + 1)
  /\ pc[r] \in {"up", "panic"} => depth[r] \in 0..Len(chain)

\* The request has left the middleware at place i.
Left(r, i) == Ended(r) \/ (pc[r] \in {"up", "panic"} /\ depth[r] < i)

\* The line is written exactly when the logger is left.
LinesOf(r) ==
  \A i \in DOMAIN chain : chain[i] = "logger" =>
    /\ Left(r, i) => Len(lines[r]) = 1
    /\ ~Left(r, i) => lines[r] = <<>>

FlowInv == ShapeInv /\ \A r \in Requests : FlowOf(r) /\ LinesOf(r)

LEMMA ChainShape ==
  ASSUME NEW c \in Orders
  PROVE  /\ Len(c) \in Nat /\ DOMAIN c = 1..Len(c)
         /\ \A i, j \in DOMAIN c : c[i] = c[j] => i = j
<1>1. PICK n \in 0..3 : c \in [1..n -> Middleware]
  BY DEF Orders
<1>2. c \in Seq(Middleware)
  BY <1>1, SeqDef
<1>3. QED
  BY <1>2, LenProperties DEF Orders

\* A step of one request leaves the others where they are.
LEMMA StepOf ==
  ASSUME FlowInv, NEW r \in Requests,
         ShapeInv', chain' = chain,
         \A s \in Requests \ {r} : UNCHANGED Way(s),
         FlowOf(r)', LinesOf(r)'
  PROVE  FlowInv'
<1> SUFFICES ASSUME NEW s \in Requests PROVE FlowOf(s)' /\ LinesOf(s)'
  BY DEF FlowInv
<1>1. CASE s = r
  BY <1>1
<1>2. CASE s # r
  <2>1. pc'[s] = pc[s] /\ depth'[s] = depth[s] /\ request'[s] = request[s] /\ lines'[s] = lines[s]
    BY <1>2 DEF Way
  <2>2. FlowOf(s) /\ LinesOf(s)
    BY DEF FlowInv
  <2>3. FlowOf(s)'
    BY <2>1, <2>2 DEF FlowOf
  <2>4. LinesOf(s)'
    BY <2>1, <2>2 DEF LinesOf, Left, Ended
  <2>5. QED
    BY <2>3, <2>4
<1>3. QED
  BY <1>1, <1>2

\* A step along the way, which writes no line.
LEMMA Move ==
  ASSUME ShapeInv, NEW r \in Requests, NEW p \in Places, NEW d \in Nat,
         UNCHANGED <<chain, request, lines>>,
         pc' = [pc EXCEPT ![r] = p], depth' = [depth EXCEPT ![r] = d]
  PROVE  /\ ShapeInv' /\ pc'[r] = p /\ depth'[r] = d
         /\ \A s \in Requests \ {r} : UNCHANGED Way(s)
  BY DEF ShapeInv, Way

\* What the handler does, short of returning, and its client.
Core == <<chain, pc, depth, request, lines, active>>
Stays(r) ==
  \/ \E code \in Codes : SetStatus(r, code)
  \/ SetEventStream(r) \/ Flush(r) \/ ReadBody(r)
  \/ \E n \in Chunks : \E taken \in 0..n : Write(r, n, taken)
  \/ ClientLeaves(r)

LEMMA StaysPut == ASSUME NEW r, Stays(r) PROVE UNCHANGED Core
  BY DEF Stays, Core, SetStatus, SetEventStream, Flush, ReadBody, Write, ClientLeaves, Acts,
         inside, records

LEMMA CoreUnchanged ==
  ASSUME UNCHANGED Core
  PROVE  (FlowInv <=> FlowInv') /\ (ActiveIsInFlight <=> ActiveIsInFlight')
  BY DEF Core, FlowInv, ShapeInv, FlowOf, LinesOf, Left, Ended, ActiveIsInFlight, InFlight,
         Measures

----------------------------------------------------------------------------
(* Access lines *)

LEMMA FlowInit == Init => FlowInv
  BY DEF Init, FlowInv, ShapeInv, FlowOf, LinesOf, Left, Ended, Places

LEMMA FlowStep == FlowInv /\ [Next]_vars => FlowInv'
<1> SUFFICES ASSUME FlowInv, [Next]_vars PROVE FlowInv'
  OBVIOUS
<1>0. /\ Len(chain) \in Nat /\ DOMAIN chain = 1..Len(chain)
      /\ \A i, j \in DOMAIN chain : chain[i] = chain[j] => i = j
  BY ChainShape DEF FlowInv, ShapeInv
<1>a. /\ ShapeInv
      /\ \A r \in Requests : FlowOf(r) /\ LinesOf(r)
  BY DEF FlowInv
<1>1. CASE UNCHANGED vars
  BY <1>1, CoreUnchanged DEF vars, Core, inside, records
<1>2. ASSUME NEW r \in Requests, Stays(r) PROVE FlowInv'
  BY <1>2, StaysPut, CoreUnchanged
<1>3. ASSUME NEW r \in Requests, NEW route, NEW loggable, NEW length, NEW breaks,
             Arrive(r, route, loggable, length, breaks)
      PROVE  FlowInv'
  <2>1. ShapeInv' /\ chain' = chain /\ \A s \in Requests \ {r} : UNCHANGED Way(s)
    BY <1>3, <1>a DEF Arrive, Goto, ShapeInv, Places, Way, records
  <2>2. pc[r] = "idle" /\ pc'[r] = "down" /\ depth'[r] = 1 /\ lines' = lines
    BY <1>3, <1>a DEF Arrive, Goto, ShapeInv, records
  <2>3. FlowOf(r)' /\ LinesOf(r)'
    BY <2>1, <2>2, <1>0, <1>a DEF FlowOf, LinesOf, Left, Ended
  <2>4. QED
    BY <2>1, <2>3, StepOf
<1>4. ASSUME NEW r \in Requests, EnterMetrics(r) \/ EnterLogger(r) \/ EnterRecovery(r)
      PROVE  FlowInv'
  <2>1. /\ ShapeInv' /\ chain' = chain /\ \A s \in Requests \ {r} : UNCHANGED Way(s)
        /\ pc' = pc /\ pc[r] = "down" /\ depth[r] \in DOMAIN chain
        /\ depth'[r] = depth[r] + 1 /\ lines' = lines
    BY <1>4, <1>a DEF EnterMetrics, EnterLogger, EnterRecovery, Enter, At, ShapeInv, Way, inside,
                      records
  <2>2. FlowOf(r)' /\ LinesOf(r)'
    BY <2>1, <1>0, <1>a DEF FlowOf, LinesOf, Left, Ended
  <2>3. QED
    BY <2>1, <2>2, StepOf
<1>5. ASSUME NEW r \in Requests, Return(r) \/ \E kind \in {"plain", "broken"} : Panic(r, kind)
      PROVE  FlowInv'
  <2>1. PICK p \in {"up", "panic"} :
          /\ pc' = [pc EXCEPT ![r] = p] /\ depth' = [depth EXCEPT ![r] = Len(chain)]
          /\ pc[r] = "down" /\ depth[r] = Len(chain) + 1
          /\ UNCHANGED <<chain, request, lines>>
    BY <1>5 DEF Return, Panic, Handles, Goto, inside, records
  <2>2. /\ ShapeInv' /\ \A s \in Requests \ {r} : UNCHANGED Way(s)
        /\ pc'[r] = p /\ depth'[r] = Len(chain)
    BY <2>1, <1>a, <1>0, Move DEF Places
  <2>3. FlowOf(r)'
    BY <2>1, <2>2, <1>0 DEF FlowOf
  <2>4. \A i \in DOMAIN chain : ~Left(r, i) /\ ~Left(r, i)'
    BY <2>1, <2>2, <1>0 DEF Left, Ended
  <2>5. LinesOf(r)'
    BY <2>1, <2>4, <1>a DEF LinesOf
  <2>6. QED
    BY <2>1, <2>2, <2>3, <2>5, StepOf
<1>6. ASSUME NEW r \in Requests,
             LeaveRecovery(r) \/ Recover(r) \/ LeaveMetrics(r) \/ UnwindMetrics(r)
      PROVE  FlowInv'
  <2>1. PICK p \in {"up", "panic"} :
          /\ pc' = [pc EXCEPT ![r] = p] /\ depth' = [depth EXCEPT ![r] = depth[r] - 1]
          /\ pc[r] \in {"up", "panic"}
          /\ depth[r] \in DOMAIN chain /\ chain[depth[r]] # "logger"
          /\ UNCHANGED <<chain, request, lines>>
    <3>1. pc = [pc EXCEPT ![r] = pc[r]]
      BY <1>a DEF ShapeInv
    <3>2. QED
      BY <1>6, <3>1 DEF LeaveRecovery, Recover, LeaveMetrics, UnwindMetrics, Leave, At, inside,
                        records
  <2>2. depth[r] \in 1..Len(chain) /\ depth[r] - 1 \in Nat
    BY <2>1, <1>0
  <2>3. /\ ShapeInv' /\ \A s \in Requests \ {r} : UNCHANGED Way(s)
        /\ pc'[r] = p /\ depth'[r] = depth[r] - 1
    BY <2>1, <2>2, <1>a, Move DEF Places
  <2>4. FlowOf(r)'
    BY <2>1, <2>2, <2>3, <1>0 DEF FlowOf
  <2>5. \A i \in DOMAIN chain : chain[i] = "logger" => (Left(r, i)' <=> Left(r, i))
    <3> SUFFICES ASSUME NEW i \in DOMAIN chain, chain[i] = "logger"
                 PROVE  Left(r, i)' <=> Left(r, i)
      OBVIOUS
    <3>1. i # depth[r] /\ i \in 1..Len(chain)
      BY <2>1, <1>0
    <3>2. QED
      BY <3>1, <2>1, <2>2, <2>3, <1>0 DEF Left, Ended
  <2>6. LinesOf(r)'
    BY <2>1, <2>5, <1>a DEF LinesOf
  <2>7. QED
    BY <2>1, <2>3, <2>4, <2>6, StepOf
<1>7. ASSUME NEW r \in Requests, LogRequest(r) PROVE FlowInv'
  <2>1. /\ pc' = pc /\ depth' = [depth EXCEPT ![r] = depth[r] - 1]
        /\ lines' = [lines EXCEPT ![r] = Append(lines[r], Line(r))]
        /\ pc[r] \in {"up", "panic"}
        /\ depth[r] \in DOMAIN chain /\ chain[depth[r]] = "logger"
        /\ UNCHANGED <<chain, request>>
    BY <1>7 DEF LogRequest, Leave, At, inside
  <2>2. depth[r] \in 1..Len(chain) /\ depth[r] - 1 \in Nat
    BY <2>1, <1>0
  <2>3. /\ ShapeInv' /\ \A s \in Requests \ {r} : UNCHANGED Way(s)
        /\ depth'[r] = depth[r] - 1 /\ lines'[r] = Append(lines[r], Line(r))
    <3>1. DOMAIN lines = Requests
      BY <1>a DEF ShapeInv
    <3>2. lines' = [s \in Requests |-> lines'[s]]
      BY <3>1, <2>1
    <3>3. QED
      BY <2>1, <2>2, <3>1, <3>2, <1>a DEF ShapeInv, Way
  <2>4. lines[r] = <<>>
    <3>1. ~Left(r, depth[r])
      BY <2>1, <2>2 DEF Left, Ended
    <3>2. QED
      BY <3>1, <2>1, <1>a DEF LinesOf
  <2>5. Len(lines'[r]) = 1
    BY <2>3, <2>4
  <2>6. FlowOf(r)'
    BY <2>1, <2>2, <2>3, <1>0 DEF FlowOf
  <2>7. \A i \in DOMAIN chain : chain[i] = "logger" => Left(r, i)'
    BY <2>1, <2>2, <2>3, <1>0 DEF Left
  <2>8. LinesOf(r)'
    BY <2>1, <2>5, <2>7 DEF LinesOf
  <2>9. QED
    BY <2>1, <2>3, <2>6, <2>8, StepOf
<1>8. ASSUME NEW r \in Requests, Answer(r) PROVE FlowInv'
  <2>1. PICK p \in {"answered", "torn"} :
          /\ pc' = [pc EXCEPT ![r] = p] /\ depth' = [depth EXCEPT ![r] = 0]
          /\ pc[r] \in {"up", "panic"} /\ depth[r] = 0
          /\ UNCHANGED <<chain, request, lines>>
    <3>1. depth = [depth EXCEPT ![r] = depth[r]]
      BY <1>a DEF ShapeInv
    <3>2. QED
      BY <1>8, <3>1 DEF Answer, Goto, inside, records
  <2>2. /\ ShapeInv' /\ \A s \in Requests \ {r} : UNCHANGED Way(s)
        /\ pc'[r] = p
    <3>1. p \in Places /\ 0 \in Nat
      BY DEF Places
    <3>2. QED
      BY <2>1, <3>1, <1>a, Move
  <2>3. \A i \in DOMAIN chain : Left(r, i)
    BY <2>1, <1>0 DEF Left
  <2>4. \A i \in DOMAIN chain : Left(r, i)'
    <3>1. pc'[r] \in {"answered", "torn"}
      BY <2>2
    <3>2. QED
      BY <3>1 DEF Left, Ended
  <2>5. FlowOf(r)'
    BY <2>2 DEF FlowOf
  <2>6. LinesOf(r)'
    BY <2>1, <2>3, <2>4, <1>a DEF LinesOf
  <2>7. QED
    BY <2>1, <2>2, <2>5, <2>6, StepOf
<1>9. QED
  BY <1>1, <1>2, <1>3, <1>4, <1>5, <1>6, <1>7, <1>8 DEF Next, Stays

LEMMA FlowAlways == Spec => []FlowInv
  BY FlowInit, FlowStep, PTL DEF Spec

\* Each request gets exactly one access line, wherever the logger is registered
\* and whatever the handler does, a panic that nobody recovers included.
THEOREM OneLine == Spec => []OneLinePerRequest
<1>1. FlowInv => OneLinePerRequest
  <2> SUFFICES ASSUME FlowInv, NEW r \in Requests, Ended(r), Has("logger")
               PROVE  Len(lines[r]) = 1
    BY DEF OneLinePerRequest
  <2>1. PICK i \in DOMAIN chain : chain[i] = "logger"
    BY DEF Has
  <2>2. Left(r, i)
    BY DEF Left
  <2>3. LinesOf(r)
    BY DEF FlowInv
  <2>4. QED
    BY <2>1, <2>2, <2>3 DEF LinesOf
<1>2. QED
  BY FlowAlways, <1>1, PTL

----------------------------------------------------------------------------
(* Active requests *)

\* Past the metrics on the way in, or not yet past them on the way out.
Past(r, i) ==
  \/ pc[r] = "down" /\ depth[r] > i
  \/ pc[r] \in {"up", "panic"} /\ depth[r] >= i

LEMMA InFlightIsPast ==
  ASSUME NEW r
  PROVE  InFlight(r) <=> Measures(r) /\ \E i \in DOMAIN chain : chain[i] = "metrics" /\ Past(r, i)
  BY DEF InFlight, Past

\* A step of one request counts itself and nothing else.
LEMMA Counted ==
  ASSUME ActiveIsInFlight, NEW r \in Requests, chain' = chain,
         \A s \in Requests \ {r} : UNCHANGED Way(s),
         \/ (InFlight(r)' <=> InFlight(r)) /\ active' = active
         \/ ~InFlight(r) /\ InFlight(r)' /\ active' = active + 1
         \/ InFlight(r) /\ ~InFlight(r)' /\ active' = active - 1
  PROVE  ActiveIsInFlight'
<1> DEFINE F == {s \in Requests : InFlight(s)}
           G == {s \in Requests : InFlight(s)'}
<1>1. \A s \in Requests \ {r} : InFlight(s)' <=> InFlight(s)
  BY DEF Way, InFlight, Measures
<1>2. IsFiniteSet(F) /\ Cardinality(F) \in Nat
  BY RequestsAssumption, FS_Subset, FS_CardinalityType, F \subseteq Requests
<1>3. active = Cardinality(F)
  BY DEF ActiveIsInFlight
<1>4. CASE (InFlight(r)' <=> InFlight(r)) /\ active' = active
  <2>1. G = F
    BY <1>1, <1>4
  <2>2. QED
    BY <2>1, <1>3, <1>4 DEF ActiveIsInFlight
<1>5. CASE ~InFlight(r) /\ InFlight(r)' /\ active' = active + 1
  <2>1. G = F \cup {r} /\ r \notin F
    BY <1>1, <1>5
  <2>2. Cardinality(G) = Cardinality(F) + 1
    BY <2>1, <1>2, FS_AddElement
  <2>3. QED
    BY <2>2, <1>3, <1>5 DEF ActiveIsInFlight
<1>6. CASE InFlight(r) /\ ~InFlight(r)' /\ active' = active - 1
  <2>1. G = F \ {r} /\ r \in F
    BY <1>1, <1>6
  <2>2. Cardinality(G) = Cardinality(F) - 1
    BY <2>1, <1>2, FS_RemoveElement
  <2>3. QED
    BY <2>2, <1>3, <1>6 DEF ActiveIsInFlight
<1>7. QED
  BY <1>4, <1>5, <1>6

\* A step within the chain that is not one of the metrics.
LEMMA NotCounted ==
  ASSUME NEW r \in Requests, chain' = chain, request'[r] = request[r],
         \A i \in DOMAIN chain : chain[i] = "metrics" => (Past(r, i)' <=> Past(r, i))
  PROVE  InFlight(r)' <=> InFlight(r)
  BY InFlightIsPast DEF Measures, InFlight, Past

LEMMA ActiveInit == Init => ActiveIsInFlight
<1> SUFFICES ASSUME Init PROVE ActiveIsInFlight
  OBVIOUS
<1>1. {r \in Requests : InFlight(r)} = {}
  BY DEF Init, InFlight
<1>2. QED
  BY <1>1, FS_EmptySet DEF Init, ActiveIsInFlight

LEMMA ActiveStep == FlowInv /\ ActiveIsInFlight /\ [Next]_vars => ActiveIsInFlight'
<1> SUFFICES ASSUME FlowInv, ActiveIsInFlight, [Next]_vars PROVE ActiveIsInFlight'
  OBVIOUS
<1>0. /\ Len(chain) \in Nat /\ DOMAIN chain = 1..Len(chain)
      /\ \A i, j \in DOMAIN chain : chain[i] = chain[j] => i = j
  BY ChainShape DEF FlowInv, ShapeInv
<1>a. /\ pc \in [Requests -> Places] /\ depth \in [Requests -> Nat]
      /\ DOMAIN request = Requests /\ DOMAIN lines = Requests
      /\ \A r \in Requests : FlowOf(r)
  BY DEF FlowInv, ShapeInv
<1>1. CASE UNCHANGED vars
  BY <1>1, CoreUnchanged DEF vars, Core, inside, records
<1>2. ASSUME NEW r \in Requests, Stays(r) PROVE ActiveIsInFlight'
  BY <1>2, StaysPut, CoreUnchanged
<1>3. ASSUME NEW r \in Requests, NEW route, NEW loggable, NEW length, NEW breaks,
             Arrive(r, route, loggable, length, breaks)
      PROVE  ActiveIsInFlight'
  <2>1. /\ chain' = chain /\ active' = active
        /\ \A s \in Requests \ {r} : UNCHANGED Way(s)
        /\ pc[r] = "idle" /\ pc'[r] = "down" /\ depth'[r] = 1
    BY <1>3, <1>a DEF Arrive, Goto, Way, records
  <2>2. \A i \in DOMAIN chain : ~Past(r, i) /\ ~Past(r, i)'
    BY <2>1, <1>0 DEF Past
  <2>3. ~InFlight(r) /\ ~InFlight(r)'
    BY <2>1, <2>2 DEF InFlight, Past
  <2>4. QED
    BY <2>1, <2>3, Counted
<1>4. ASSUME NEW r \in Requests, EnterLogger(r) \/ EnterRecovery(r)
      PROVE  ActiveIsInFlight'
  <2>1. /\ chain' = chain /\ active' = active /\ request' = request
        /\ \A s \in Requests \ {r} : UNCHANGED Way(s)
        /\ pc' = pc /\ pc[r] = "down"
        /\ depth[r] \in DOMAIN chain /\ chain[depth[r]] # "metrics"
        /\ depth'[r] = depth[r] + 1
    BY <1>4, <1>a DEF EnterLogger, EnterRecovery, Enter, At, Way, inside, records
  <2>2. \A i \in DOMAIN chain : chain[i] = "metrics" => (Past(r, i)' <=> Past(r, i))
    <3> SUFFICES ASSUME NEW i \in DOMAIN chain, chain[i] = "metrics"
                 PROVE  Past(r, i)' <=> Past(r, i)
      OBVIOUS
    <3>1. i # depth[r] /\ i \in 1..Len(chain) /\ depth[r] \in 1..Len(chain)
      BY <2>1, <1>0
    <3>2. QED
      BY <3>1, <2>1, <1>0 DEF Past
  <2>3. QED
    BY <2>1, <2>2, NotCounted, Counted
<1>5. ASSUME NEW r \in Requests, EnterMetrics(r) PROVE ActiveIsInFlight'
  <2>1. /\ chain' = chain /\ request' = request
        /\ active' = IF Measures(r) THEN active + 1 ELSE active
        /\ \A s \in Requests \ {r} : UNCHANGED Way(s)
        /\ pc' = pc /\ pc[r] = "down"
        /\ depth[r] \in DOMAIN chain /\ chain[depth[r]] = "metrics"
        /\ depth'[r] = depth[r] + 1
    BY <1>5, <1>a DEF EnterMetrics, Enter, At, Way, inside
  <2>2. depth[r] \in 1..Len(chain)
    BY <2>1, <1>0
  <2>3. ~InFlight(r)
    BY <2>1, <2>2, <1>0 DEF InFlight
  <2>4. InFlight(r)' <=> Measures(r)
    BY <2>1, <2>2 DEF InFlight, Measures
  <2>5. QED
    BY <2>1, <2>3, <2>4, Counted
<1>6. ASSUME NEW r \in Requests, Return(r) \/ \E kind \in {"plain", "broken"} : Panic(r, kind)
      PROVE  ActiveIsInFlight'
  <2>1. /\ chain' = chain /\ active' = active /\ request' = request
        /\ \A s \in Requests \ {r} : UNCHANGED Way(s)
        /\ pc[r] = "down" /\ depth[r] = Len(chain) + 1
        /\ pc'[r] \in {"up", "panic"} /\ depth'[r] = Len(chain)
    BY <1>6, <1>a DEF Return, Panic, Handles, Goto, Way, inside, records
  <2>2. \A i \in DOMAIN chain : Past(r, i) /\ Past(r, i)'
    BY <2>1, <1>0 DEF Past
  <2>3. QED
    BY <2>1, <2>2, NotCounted, Counted
<1>7. ASSUME NEW r \in Requests, LeaveRecovery(r) \/ Recover(r) \/ LogRequest(r)
      PROVE  ActiveIsInFlight'
  <2>1. /\ chain' = chain /\ active' = active /\ request' = request
        /\ \A s \in Requests \ {r} : UNCHANGED Way(s)
        /\ pc[r] \in {"up", "panic"} /\ pc'[r] \in {"up", "panic"}
        /\ depth[r] \in DOMAIN chain /\ chain[depth[r]] # "metrics"
        /\ depth'[r] = depth[r] - 1
    BY <1>7, <1>a DEF LeaveRecovery, Recover, LogRequest, Leave, At, Way, inside, records
  <2>2. \A i \in DOMAIN chain : chain[i] = "metrics" => (Past(r, i)' <=> Past(r, i))
    <3> SUFFICES ASSUME NEW i \in DOMAIN chain, chain[i] = "metrics"
                 PROVE  Past(r, i)' <=> Past(r, i)
      OBVIOUS
    <3>1. i # depth[r] /\ i \in 1..Len(chain) /\ depth[r] \in 1..Len(chain)
      BY <2>1, <1>0
    <3>2. QED
      BY <3>1, <2>1, <1>0 DEF Past
  <2>3. QED
    BY <2>1, <2>2, NotCounted, Counted
<1>8. ASSUME NEW r \in Requests, LeaveMetrics(r) \/ UnwindMetrics(r)
      PROVE  ActiveIsInFlight'
  <2>1. /\ chain' = chain /\ request' = request
        /\ active' = IF Measures(r) THEN active - 1 ELSE active
        /\ \A s \in Requests \ {r} : UNCHANGED Way(s)
        /\ pc' = pc /\ pc[r] \in {"up", "panic"}
        /\ depth[r] \in DOMAIN chain /\ chain[depth[r]] = "metrics"
        /\ depth'[r] = depth[r] - 1
    BY <1>8, <1>a DEF LeaveMetrics, UnwindMetrics, Leave, At, Way, inside
  <2>2. depth[r] \in 1..Len(chain)
    BY <2>1, <1>0
  <2>3. InFlight(r) <=> Measures(r)
    BY <2>1, <2>2 DEF InFlight
  <2>4. \A i \in DOMAIN chain : chain[i] = "metrics" => ~Past(r, i)'
    BY <2>1, <2>2, <1>0 DEF Past
  <2>5. ~InFlight(r)'
    BY <2>1, <2>4 DEF InFlight, Past
  <2>6. QED
    BY <2>1, <2>3, <2>5, Counted
<1>9. ASSUME NEW r \in Requests, Answer(r) PROVE ActiveIsInFlight'
  <2>1. /\ chain' = chain /\ active' = active /\ request' = request
        /\ \A s \in Requests \ {r} : UNCHANGED Way(s)
        /\ pc[r] \in {"up", "panic"} /\ pc'[r] \in {"answered", "torn"}
        /\ depth[r] = 0
    BY <1>9, <1>a DEF Answer, Goto, Way, inside, records
  <2>2. \A i \in DOMAIN chain : ~Past(r, i) /\ ~Past(r, i)'
    BY <2>1, <1>0 DEF Past
  <2>3. QED
    BY <2>1, <2>2, NotCounted, Counted
<1>10. QED
  BY <1>1, <1>2, <1>3, <1>4, <1>5, <1>6, <1>7, <1>8, <1>9 DEF Next, Stays

\* The gauge of active requests counts the requests between its two Adds, for
\* any number of requests, in any order of the middlewares, panics included.
THEOREM ActiveCounts == Spec => []ActiveIsInFlight
<1>1. FlowInv /\ ActiveIsInFlight /\ [Next]_vars => (FlowInv /\ ActiveIsInFlight)'
  BY FlowStep, ActiveStep
<1>2. QED
  BY FlowInit, ActiveInit, <1>1, PTL DEF Spec

----------------------------------------------------------------------------
(* What the handler sends: the body kept for the line, and failing writes *)

Writers == [status : Codes, size : Nat \cup {-1}, sse : BOOLEAN]
Sent == [tried : Nat, lost : Nat]

\* What holds of a request with writer w, k bytes kept, a failed write or none,
\* and q sent.  An event stream begins before the first write.
OutputGood(r, w, k, fail, q) ==
  /\ w.size = -1 => q.tried = 0 /\ q.lost = 0 /\ k = 0 /\ ~fail
  /\ Has("logger") =>
       k = IF w.size # -1 /\ w.status >= 400 THEN AtMost(Cap, q.tried) ELSE 0
  /\ Has("metrics") /\ Measures(r) /\ w.sse => (fail <=> q.lost > 0)
  /\ fail => q.lost > 0

OutputInv ==
  /\ writer \in [Requests -> Writers]
  /\ kept \in [Requests -> Nat]
  /\ failed \in [Requests -> BOOLEAN]
  /\ sent \in [Requests -> Sent]
  /\ pc = [r \in Requests |-> pc[r]]
  /\ \A r \in Requests :
       /\ OutputGood(r, writer[r], kept[r], failed[r], sent[r])
       /\ pc[r] = "idle" => writer[r].size = -1 /\ ~writer[r].sse

\* The output of one request changes, while it is served.
LEMMA OutputSet ==
  ASSUME OutputInv, NEW r \in Requests, UNCHANGED <<chain, request>>,
         pc[r] # "idle", pc' = pc \/ \E p \in Places \ {"idle"} : pc' = [pc EXCEPT ![r] = p],
         writer' \in [Requests -> Writers], kept' \in [Requests -> Nat],
         failed' \in [Requests -> BOOLEAN], sent' \in [Requests -> Sent],
         \A s \in Requests : s # r =>
           UNCHANGED <<writer[s], kept[s], failed[s], sent[s]>>,
         OutputGood(r, writer'[r], kept'[r], failed'[r], sent'[r])
  PROVE  OutputInv'
<1>1. /\ pc' = [s \in Requests |-> pc'[s]] /\ pc'[r] # "idle"
      /\ \A s \in Requests : s # r => pc'[s] = pc[s]
  BY DEF OutputInv, Places
<1>2. ASSUME NEW s \in Requests
      PROVE  /\ OutputGood(s, writer[s], kept[s], failed[s], sent[s])'
             /\ pc'[s] = "idle" => writer'[s].size = -1 /\ ~writer'[s].sse
  <2>1. OutputGood(s, writer'[s], kept'[s], failed'[s], sent'[s])
    BY DEF OutputInv
  <2>2. OutputGood(s, writer[s], kept[s], failed[s], sent[s])'
    BY <2>1 DEF OutputGood, Has, Measures
  <2>3. pc'[s] = "idle" => writer'[s].size = -1 /\ ~writer'[s].sse
    BY <1>1 DEF OutputInv
  <2>4. QED
    BY <2>2, <2>3
<1>3. QED
  BY <1>1, <1>2 DEF OutputInv

\* The same, of the writer alone.
LEMMA WriterSet ==
  ASSUME OutputInv, NEW r \in Requests, UNCHANGED <<chain, request, kept, failed, sent>>,
         pc[r] # "idle", pc' = pc \/ \E p \in Places \ {"idle"} : pc' = [pc EXCEPT ![r] = p],
         NEW w \in Writers, writer' = [writer EXCEPT ![r] = w],
         OutputGood(r, w, kept[r], failed[r], sent[r])
  PROVE  OutputInv'
<1>1. /\ writer' \in [Requests -> Writers] /\ writer'[r] = w
      /\ \A s \in Requests : s # r => writer'[s] = writer[s]
      /\ kept \in [Requests -> Nat] /\ failed \in [Requests -> BOOLEAN]
      /\ sent \in [Requests -> Sent]
  BY DEF OutputInv
<1>2. QED
  BY <1>1, OutputSet

\* The output stays, and a request that has arrived does not change.
LEMMA OutputStays ==
  ASSUME OutputInv, UNCHANGED <<chain, writer, kept, failed, sent>>,
         pc' = [s \in Requests |-> pc'[s]],
         \A s \in Requests : request'[s] = request[s] \/ pc[s] = "idle",
         \A s \in Requests : pc'[s] = "idle" => pc[s] = "idle"
  PROVE  OutputInv'
<1>1. ASSUME NEW s \in Requests
      PROVE  OutputGood(s, writer[s], kept[s], failed[s], sent[s])'
  BY DEF OutputInv, OutputGood, Has, Measures
<1>2. QED
  BY <1>1 DEF OutputInv

LEMMA OutputInit == Init => OutputInv
  BY BytesAssumption DEF Init, OutputInv, OutputGood, Writers, Sent, Codes

LEMMA WriterFields ==
  ASSUME NEW w \in Writers
  PROVE  /\ \A code \in Codes : LET v == WithStatus(w, code) IN
              /\ v \in Writers /\ v.size = w.size /\ v.sse = w.sse
              /\ w.size # -1 => v.status = w.status
         /\ LET v == HeaderOut(w) IN
              /\ v \in Writers /\ v.size # -1 /\ v.sse = w.sse /\ v.status = w.status
              /\ w.size # -1 => v.size = w.size
         /\ LET v == [w EXCEPT !.sse = TRUE] IN
              v \in Writers /\ v.size = w.size /\ v.sse /\ v.status = w.status
         /\ \A n \in Nat : LET v == [w EXCEPT !.size = AtLeast(w.size, 0) + n] IN
              v \in Writers /\ v.size # -1 /\ v.sse = w.sse /\ v.status = w.status
<1>1. \A n \in Nat : LET v == [w EXCEPT !.size = AtLeast(w.size, 0) + n] IN
        v \in Writers /\ v.size # -1 /\ v.sse = w.sse /\ v.status = w.status
  <2>1. w.size \in Int /\ \A n \in Nat : AtLeast(w.size, 0) + n \in Nat
    BY DEF Writers, AtLeast
  <2>2. QED
    BY <2>1 DEF Writers
<1>2. LET v == HeaderOut(w) IN
        /\ v \in Writers /\ v.size # -1 /\ v.sse = w.sse /\ v.status = w.status
        /\ w.size # -1 => v.size = w.size
  <2>1. /\ w.size \in Int /\ AtLeast(w.size, 0) \in Nat
        /\ w.size # -1 => AtLeast(w.size, 0) = w.size
    BY DEF Writers, AtLeast
  <2>2. QED
    BY <2>1 DEF Writers, HeaderOut
<1>3. \A code \in Codes : LET v == WithStatus(w, code) IN
        /\ v \in Writers /\ v.size = w.size /\ v.sse = w.sse
        /\ w.size # -1 => v.status = w.status
  BY DEF Writers, WithStatus
<1>4. LET v == [w EXCEPT !.sse = TRUE] IN
        v \in Writers /\ v.size = w.size /\ v.sse /\ v.status = w.status
  BY DEF Writers
<1>5. QED
  BY <1>1, <1>2, <1>3, <1>4

LEMMA HeaderGood ==
  ASSUME NEW r, NEW w \in Writers, NEW k, NEW fail, NEW q \in Sent, OutputGood(r, w, k, fail, q)
  PROVE  HeaderOut(w) \in Writers /\ OutputGood(r, HeaderOut(w), k, fail, q)
<1> DEFINE v == HeaderOut(w)
<1>1. /\ v \in Writers /\ v.size # -1 /\ v.sse = w.sse /\ v.status = w.status
      /\ w.size # -1 => v.size = w.size
  BY WriterFields
<1>2. AtMost(Cap, 0) = 0
  BY BytesAssumption DEF AtMost
<1> HIDE DEF v
<1>3. v \in Writers /\ OutputGood(r, v, k, fail, q)
  BY <1>1, <1>2 DEF OutputGood
<1>4. QED
  BY <1>3 DEF v

LEMMA StatusGood ==
  ASSUME NEW r, NEW w \in Writers, NEW code \in Codes, NEW k, NEW fail, NEW q,
         OutputGood(r, w, k, fail, q)
  PROVE  WithStatus(w, code) \in Writers /\ OutputGood(r, WithStatus(w, code), k, fail, q)
<1> DEFINE v == WithStatus(w, code)
<1>1. /\ v \in Writers /\ v.size = w.size /\ v.sse = w.sse
      /\ w.size # -1 => v.status = w.status
  BY WriterFields
<1> HIDE DEF v
<1>2. v \in Writers /\ OutputGood(r, v, k, fail, q)
  BY <1>1 DEF OutputGood
<1>3. QED
  BY <1>2 DEF v

\* What leaves the output alone.
Elsewhere(r) ==
  \/ EnterMetrics(r) \/ EnterLogger(r) \/ EnterRecovery(r) \/ ReadBody(r)
  \/ \E kind \in {"plain", "broken"} : Panic(r, kind)
  \/ Return(r) \/ ClientLeaves(r)
  \/ LeaveRecovery(r) \/ LogRequest(r) \/ LeaveMetrics(r) \/ UnwindMetrics(r)

LEMMA OutputStep == OutputInv /\ [Next]_vars => OutputInv'
<1> SUFFICES ASSUME OutputInv, [Next]_vars PROVE OutputInv'
  OBVIOUS
<1>a. /\ pc = [r \in Requests |-> pc[r]]
      /\ \A r \in Requests : /\ writer[r] \in Writers /\ kept[r] \in Nat
                             /\ failed[r] \in BOOLEAN /\ sent[r] \in Sent
                             /\ OutputGood(r, writer[r], kept[r], failed[r], sent[r])
      /\ \A r \in Requests : /\ writer = [writer EXCEPT ![r] = writer[r]]
                             /\ kept = [kept EXCEPT ![r] = kept[r]]
                             /\ failed = [failed EXCEPT ![r] = failed[r]]
                             /\ sent = [sent EXCEPT ![r] = sent[r]]
  BY DEF OutputInv
<1>1. CASE UNCHANGED vars
  BY <1>1, <1>a, OutputStays DEF vars, inside, output, history
<1>2. ASSUME NEW r \in Requests, Elsewhere(r) PROVE OutputInv'
  <2>1. UNCHANGED <<chain, request, writer, kept, failed, sent>>
    BY <1>2 DEF Elsewhere, EnterMetrics, EnterLogger, EnterRecovery, ReadBody, Panic, Return,
                ClientLeaves, LeaveRecovery, LogRequest, LeaveMetrics, UnwindMetrics,
                inside, output, history
  <2>2. pc' = pc \/ (pc[r] = "down" /\ \E p \in {"up", "panic"} : pc' = [pc EXCEPT ![r] = p])
    BY <1>2 DEF Elsewhere, EnterMetrics, EnterLogger, EnterRecovery, ReadBody, Panic, Return,
                ClientLeaves, LeaveRecovery, LogRequest, LeaveMetrics, UnwindMetrics, Goto
  <2>3. /\ pc' = [s \in Requests |-> pc'[s]]
        /\ \A s \in Requests : pc'[s] = "idle" => pc[s] = "idle"
    BY <2>2, <1>a
  <2>4. QED
    BY <2>1, <2>3, OutputStays
<1>3. ASSUME NEW r \in Requests, NEW route, NEW loggable, NEW length, NEW breaks,
             Arrive(r, route, loggable, length, breaks)
      PROVE  OutputInv'
  <2>1. UNCHANGED <<chain, writer, kept, failed, sent>>
    BY <1>3 DEF Arrive, output, history
  <2>2. /\ pc[r] = "idle" /\ pc' = [pc EXCEPT ![r] = "down"]
        /\ \A s \in Requests : s # r => request'[s] = request[s]
    BY <1>3 DEF Arrive, Goto
  <2>3. /\ pc' = [s \in Requests |-> pc'[s]]
        /\ \A s \in Requests : pc'[s] = "idle" => pc[s] = "idle"
    BY <2>2, <1>a
  <2>4. QED
    BY <2>1, <2>2, <2>3, OutputStays
<1>4. ASSUME NEW r \in Requests, NEW code \in Codes, SetStatus(r, code) PROVE OutputInv'
  <2>1. /\ UNCHANGED <<chain, request, pc, kept, failed, sent>> /\ pc[r] = "down"
        /\ writer' = [writer EXCEPT ![r] = WithStatus(writer[r], code)]
    BY <1>4 DEF SetStatus, Acts, Handles, inside
  <2> DEFINE w == WithStatus(writer[r], code)
  <2>2. w \in Writers /\ OutputGood(r, w, kept[r], failed[r], sent[r])
    BY <1>a, StatusGood
  <2>3. writer' = [writer EXCEPT ![r] = w]
    BY <2>1
  <2> HIDE DEF w
  <2>4. QED
    BY <2>1, <2>2, <2>3, WriterSet
<1>5. ASSUME NEW r \in Requests, SetEventStream(r) PROVE OutputInv'
  <2> DEFINE w == [writer[r] EXCEPT !.sse = TRUE]
  <2>1. /\ UNCHANGED <<chain, request, pc, kept, failed, sent>> /\ pc[r] = "down"
        /\ writer' = [writer EXCEPT ![r] = w] /\ writer[r].size = -1
    BY <1>5, <1>a DEF SetEventStream, Acts, Handles, Written, inside, Writers
  <2>2. w \in Writers /\ w.size = writer[r].size /\ w.status = writer[r].status
    BY <1>a, WriterFields
  <2> HIDE DEF w
  <2>3. OutputGood(r, w, kept[r], failed[r], sent[r])
    BY <1>a, <2>1, <2>2 DEF OutputGood, Sent
  <2>4. QED
    BY <2>1, <2>2, <2>3, WriterSet
<1>6. ASSUME NEW r \in Requests, Flush(r) PROVE OutputInv'
  <2>1. /\ UNCHANGED <<chain, request, pc, kept, failed, sent>> /\ pc[r] = "down"
        /\ writer' = [writer EXCEPT ![r] = HeaderOut(writer[r])]
    BY <1>6 DEF Flush, Acts, Handles, inside
  <2> DEFINE w == HeaderOut(writer[r])
  <2>2. w \in Writers /\ OutputGood(r, w, kept[r], failed[r], sent[r])
    BY <1>a, HeaderGood
  <2>3. writer' = [writer EXCEPT ![r] = w]
    BY <2>1
  <2> HIDE DEF w
  <2>4. QED
    BY <2>1, <2>2, <2>3, WriterSet
<1>7. ASSUME NEW r \in Requests, NEW n \in Chunks, NEW taken \in 0..n, Write(r, n, taken)
      PROVE  OutputInv'
  <2> DEFINE w == [writer[r] EXCEPT !.size = AtLeast(writer[r].size, 0) + taken]
             q == [tried |-> sent[r].tried + n, lost |-> sent[r].lost + (n - taken)]
             k == IF writer[r].status < 400 \/ ~Has("logger") THEN kept[r]
                  ELSE AtMost(Cap, kept[r] + n)
             fail == failed[r] \/ (taken < n /\ writer[r].sse /\ Has("metrics") /\ Measures(r))
  <2>1. n \in Nat /\ taken \in Nat /\ taken <= n /\ n - taken \in Nat
        /\ (taken < n <=> n - taken > 0)
    BY BytesAssumption
  <2>2. UNCHANGED <<chain, request, pc>> /\ pc[r] = "down"
    BY <1>7 DEF Write, Acts, Handles, inside
  <2>3. writer' = [writer EXCEPT ![r] = w] /\ sent' = [sent EXCEPT ![r] = q]
    <3>1. writer' = [writer EXCEPT ![r] = w]
      BY <1>7 DEF Write
    <3>2. sent' = [sent EXCEPT ![r] = q]
      BY <1>7 DEF Write
    <3>3. QED
      BY <3>1, <3>2
  <2>4. kept' = [kept EXCEPT ![r] = k]
    BY <1>7, <1>a DEF Write, Record
  <2>5. failed' = [failed EXCEPT ![r] = fail]
    BY <1>7 DEF Write, Observe
  <2>6. w \in Writers /\ w.size # -1 /\ w.sse = writer[r].sse /\ w.status = writer[r].status
    BY <1>a, <2>1, WriterFields
  <2>7. /\ q \in Sent /\ q.tried = sent[r].tried + n /\ q.lost = sent[r].lost + (n - taken)
        /\ sent[r].tried \in Nat /\ sent[r].lost \in Nat
    BY <1>a, <2>1 DEF Sent
  <2>8. writer[r].status \in Codes /\ Codes \subseteq Nat
    BY <1>a DEF Writers, Codes
  <2>9. k \in Nat
    BY <1>a, <2>1, BytesAssumption DEF AtMost
  <2>10. fail \in BOOLEAN
    BY <1>a
  <2>11. Has("logger") => k = IF w.status >= 400 THEN AtMost(Cap, q.tried) ELSE 0
    <3>1. SUFFICES ASSUME Has("logger")
                   PROVE  k = IF w.status >= 400 THEN AtMost(Cap, q.tried) ELSE 0
      OBVIOUS
    <3>2. CASE writer[r].status < 400
      BY <3>1, <3>2, <1>a, <2>6, <2>8 DEF OutputGood
    <3>3. CASE ~(writer[r].status < 400)
      <4>1. kept[r] = AtMost(Cap, sent[r].tried)
        BY <3>1, <3>3, <1>a, <2>7, <2>8, BytesAssumption DEF OutputGood, AtMost
      <4>2. AtMost(Cap, kept[r] + n) = AtMost(Cap, q.tried)
        BY <4>1, <2>1, <2>7, BytesAssumption DEF AtMost
      <4>3. QED
        BY <3>1, <3>3, <4>2, <2>6, <2>8
    <3>4. QED
      BY <3>2, <3>3
  <2>12. /\ fail => q.lost > 0
         /\ Has("metrics") /\ Measures(r) /\ w.sse => (fail <=> q.lost > 0)
    <3>1. failed[r] => sent[r].lost > 0
      BY <1>a DEF OutputGood
    <3>2. Has("metrics") /\ Measures(r) /\ writer[r].sse => (failed[r] <=> sent[r].lost > 0)
      BY <1>a DEF OutputGood
    <3>3. q.lost > 0 <=> sent[r].lost > 0 \/ taken < n
      BY <2>1, <2>7
    <3>4. QED
      BY <3>1, <3>2, <3>3, <2>6, <1>a
  <2> HIDE DEF w, q, k, fail
  <2>13. OutputGood(r, w, k, fail, q)
    BY <2>6, <2>11, <2>12 DEF OutputGood
  <2>14. /\ writer' \in [Requests -> Writers] /\ kept' \in [Requests -> Nat]
         /\ failed' \in [Requests -> BOOLEAN] /\ sent' \in [Requests -> Sent]
         /\ writer'[r] = w /\ kept'[r] = k /\ failed'[r] = fail /\ sent'[r] = q
         /\ \A s \in Requests : s # r =>
              UNCHANGED <<writer[s], kept[s], failed[s], sent[s]>>
    BY <2>3, <2>4, <2>5, <2>6, <2>7, <2>9, <2>10 DEF OutputInv
  <2>15. QED
    BY <2>2, <2>13, <2>14, OutputSet
<1>8. ASSUME NEW r \in Requests, Recover(r) PROVE OutputInv'
  <2> DEFINE w == IF panicked[r] = "broken" THEN writer[r]
                  ELSE HeaderOut(WithStatus(writer[r], 500))
  <2>1. /\ UNCHANGED <<chain, request, kept, failed, sent>> /\ pc[r] = "panic"
        /\ pc' = [pc EXCEPT ![r] = "up"]
        /\ writer' = [writer EXCEPT ![r] = w]
    BY <1>8, <1>a DEF Recover, Leave, inside, history
  <2>2. /\ WithStatus(writer[r], 500) \in Writers
        /\ OutputGood(r, WithStatus(writer[r], 500), kept[r], failed[r], sent[r])
    <3>1. 500 \in Codes
      BY DEF Codes
    <3>2. QED
      BY <3>1, <1>a, StatusGood
  <2>3. w \in Writers /\ OutputGood(r, w, kept[r], failed[r], sent[r])
    BY <1>a, <2>2, HeaderGood
  <2> HIDE DEF w
  <2>4. QED
    BY <2>1, <2>3, WriterSet DEF Places
<1>9. ASSUME NEW r \in Requests, Answer(r) PROVE OutputInv'
  <2>1. PICK w \in {writer[r], HeaderOut(writer[r])}, p \in {"answered", "torn"} :
          /\ writer' = [writer EXCEPT ![r] = w] /\ pc' = [pc EXCEPT ![r] = p]
          /\ pc[r] \in {"up", "panic"}
          /\ UNCHANGED <<chain, request, kept, failed, sent>>
    BY <1>9, <1>a DEF Answer, Goto, inside, history
  <2>2. w \in Writers /\ OutputGood(r, w, kept[r], failed[r], sent[r])
    BY <1>a, <2>1, HeaderGood
  <2>3. QED
    BY <2>1, <2>2, WriterSet DEF Places
<1>10. QED
  BY <1>1, <1>2, <1>3, <1>4, <1>5, <1>6, <1>7, <1>8, <1>9 DEF Next, Elsewhere

LEMMA OutputAlways == Spec => []OutputInv
  BY OutputInit, OutputStep, PTL DEF Spec

\* The line shows the beginning of the body of a failed response, and nothing of
\* any other, whatever the handler does about the status, and when.
THEOREM FailureBodyIsKept == Spec => []FailureBodyKept
<1>1. OutputInv => FailureBodyKept
  BY DEF OutputInv, OutputGood, FailureBodyKept, Written
<1>2. QED
  BY <1>1, OutputAlways, PTL

----------------------------------------------------------------------------
(* The body of a request, on the line and for the handler *)

Bodies == [route : {"plain", "quiet"}, loggable : BOOLEAN, length : Nat, breaks : Nat \cup {Nil}]
After == {"up", "panic", "answered", "torn"}
Nothing == [bytes |-> 0, truncated |-> FALSE]
Right(q) == [bytes |-> AtMost(q.length, Cap), truncated |-> q.length > Cap]
Whole(q) == q.loggable /\ q.breaks = Nil

\* The request has been through the middleware at place i on its way in.
Passed(r, i) == pc[r] # "idle" /\ ~(pc[r] = "down" /\ depth[r] <= i)

BodyOf(r) ==
  /\ offset[r] = 0 \/ request[r].breaks # Nil
  /\ read[r].eof => read[r].from = 0 /\ read[r].to = request[r].length
  /\ pc[r] = "idle" => offset[r] = 0 /\ ~read[r].eof
  /\ lines[r] # <<>> => pc[r] \in After
  /\ \A i \in DOMAIN lines[r] : Whole(request[r]) => lines[r][i].body = Right(request[r])

\* What is kept for the line: nothing before the logger, the right thing after it.
LoggedOf(r) ==
  \A i \in DOMAIN chain : chain[i] = "logger" =>
    IF Passed(r, i) THEN Whole(request[r]) => logged[r] = Right(request[r])
    ELSE logged[r] = Nothing

BodyInv ==
  /\ request \in [Requests -> Bodies]
  /\ offset = [r \in Requests |-> offset[r]]
  /\ logged = [r \in Requests |-> logged[r]]
  /\ read = [r \in Requests |-> read[r]]
  /\ \A r \in Requests : BodyOf(r) /\ LoggedOf(r)

Body(r) == <<request[r], offset[r], logged[r], read[r], lines[r]>>

\* Nothing changes but where requests are, and none goes into a logger or back.
LEMMA BodyStays ==
  ASSUME BodyInv, UNCHANGED <<chain, request, offset, logged, read, lines>>,
         \A s \in Requests : pc'[s] = "idle" => pc[s] = "idle",
         \A s \in Requests : pc[s] \in After => pc'[s] \in After,
         \A s \in Requests : \A i \in DOMAIN chain :
           chain[i] = "logger" => (Passed(s, i)' <=> Passed(s, i))
  PROVE  BodyInv'
<1>1. ASSUME NEW s \in Requests PROVE BodyOf(s)' /\ LoggedOf(s)'
  <2>1. BodyOf(s) /\ LoggedOf(s)
    BY DEF BodyInv
  <2>2. BodyOf(s)'
    BY <2>1 DEF BodyOf
  <2>3. LoggedOf(s)'
    <3> SUFFICES ASSUME NEW i \in DOMAIN chain, chain[i] = "logger"
                 PROVE  IF Passed(s, i)' THEN Whole(request[s]) => logged[s] = Right(request[s])
                        ELSE logged[s] = Nothing
      BY DEF LoggedOf
    <3>1. QED
      BY <2>1 DEF LoggedOf
  <2>4. QED
    BY <2>2, <2>3
<1>2. QED
  BY <1>1 DEF BodyInv

\* A step of one request leaves the bodies of the others alone.
LEMMA BodySet ==
  ASSUME BodyInv, NEW r \in Requests, chain' = chain,
         request' \in [Requests -> Bodies], offset' = [s \in Requests |-> offset'[s]],
         logged' = [s \in Requests |-> logged'[s]], read' = [s \in Requests |-> read'[s]],
         \A s \in Requests : s # r => UNCHANGED <<Body(s), pc[s], depth[s]>>,
         BodyOf(r)', LoggedOf(r)'
  PROVE  BodyInv'
<1>1. ASSUME NEW s \in Requests, s # r PROVE BodyOf(s)' /\ LoggedOf(s)'
  <2>1. BodyOf(s) /\ LoggedOf(s)
    BY DEF BodyInv
  <2>2. /\ request'[s] = request[s] /\ offset'[s] = offset[s] /\ logged'[s] = logged[s]
        /\ read'[s] = read[s] /\ lines'[s] = lines[s]
        /\ pc'[s] = pc[s] /\ depth'[s] = depth[s]
    BY <1>1 DEF Body
  <2>3. BodyOf(s)'
    BY <2>1, <2>2 DEF BodyOf
  <2>4. LoggedOf(s)'
    BY <2>1, <2>2 DEF LoggedOf, Passed
  <2>5. QED
    BY <2>3, <2>4
<1>2. QED
  BY <1>1 DEF BodyInv

LEMMA BodyInit == Init => BodyInv
<1> SUFFICES ASSUME Init PROVE BodyInv
  OBVIOUS
<1>1. request \in [Requests -> Bodies]
  BY DEF Init, Bodies
<1>2. \A r \in Requests : BodyOf(r) /\ LoggedOf(r)
  BY DEF Init, BodyOf, LoggedOf, Passed, Nothing
<1>3. QED
  BY <1>1, <1>2 DEF Init, BodyInv

\* A body that fits the cap, or does not, whose reading does not break.
LEMMA Captured ==
  ASSUME NEW r \in Requests, request[r] \in Bodies, logged = [s \in Requests |-> logged[s]],
         CaptureRequestBody(r), Whole(request[r]), logged[r] = Nothing
  PROVE  logged'[r] = Right(request[r]) /\ offset' = offset
<1> DEFINE q == request[r]
           head == AtMost(q.length, Cap + 1)
<1>1. q.length \in Nat /\ q.breaks = Nil /\ Nil \notin 0..Cap /\ q.loggable
  BY NilAssumption DEF Bodies, Whole
<1>2. CASE q.length = 0
  <2>1. UNCHANGED <<offset, logged>>
    BY <1>1, <1>2 DEF CaptureRequestBody
  <2>2. AtMost(q.length, Cap) = 0 /\ (q.length > Cap) = FALSE
    BY <1>2, BytesAssumption DEF AtMost
  <2>3. QED
    BY <2>1, <2>2 DEF Right, Nothing
<1>3. CASE q.length > 0
  <2>1. /\ logged' = [logged EXCEPT ![r] =
             [bytes |-> AtMost(head, Cap), truncated |-> head > Cap]]
        /\ UNCHANGED offset
    BY <1>1, <1>3 DEF CaptureRequestBody
  <2>2. AtMost(head, Cap) = AtMost(q.length, Cap) /\ (head > Cap) = (q.length > Cap)
    BY <1>1, BytesAssumption DEF AtMost
  <2>3. QED
    BY <2>1, <2>2 DEF Right
<1>4. QED
  BY <1>1, <1>2, <1>3

LEMMA BodyStep == FlowInv /\ BodyInv /\ [Next]_vars => BodyInv'
<1> SUFFICES ASSUME FlowInv, BodyInv, [Next]_vars PROVE BodyInv'
  OBVIOUS
<1>0. /\ Len(chain) \in Nat /\ DOMAIN chain = 1..Len(chain)
      /\ \A i, j \in DOMAIN chain : chain[i] = chain[j] => i = j
  BY ChainShape DEF FlowInv, ShapeInv
<1>a. /\ pc \in [Requests -> Places] /\ depth \in [Requests -> Nat]
      /\ lines = [s \in Requests |-> lines[s]]
      /\ request \in [Requests -> Bodies] /\ offset = [s \in Requests |-> offset[s]]
      /\ logged = [s \in Requests |-> logged[s]] /\ read = [s \in Requests |-> read[s]]
      /\ \A s \in Requests : FlowOf(s) /\ LinesOf(s) /\ BodyOf(s) /\ LoggedOf(s)
  BY DEF FlowInv, ShapeInv, BodyInv
<1>1. CASE UNCHANGED vars
  BY <1>1, <1>a, BodyStays DEF vars, inside, records, history, Passed
<1>2. ASSUME NEW r \in Requests,
             \/ \E code \in Codes : SetStatus(r, code)
             \/ SetEventStream(r) \/ Flush(r)
             \/ \E n \in Chunks : \E taken \in 0..n : Write(r, n, taken)
             \/ ClientLeaves(r)
      PROVE  BodyInv'
  <2>1. UNCHANGED <<chain, pc, depth, request, offset, logged, read, lines>>
    BY <1>2 DEF SetStatus, SetEventStream, Flush, Write, ClientLeaves, inside, records, history
  <2>2. QED
    BY <2>1, <1>a, BodyStays DEF Passed
<1>3. ASSUME NEW r \in Requests,
             \/ EnterMetrics(r) \/ EnterRecovery(r)
             \/ \E kind \in {"plain", "broken"} : Panic(r, kind)
             \/ Return(r) \/ Recover(r) \/ LeaveRecovery(r) \/ LeaveMetrics(r)
             \/ UnwindMetrics(r) \/ Answer(r)
      PROVE  BodyInv'
  <2>1. UNCHANGED <<chain, request, offset, logged, read, lines>>
    BY <1>3 DEF EnterMetrics, EnterRecovery, Panic, Return, Recover, LeaveRecovery, LeaveMetrics,
                UnwindMetrics, Answer, inside, records, history
  <2>2. \/ /\ pc' = pc /\ pc[r] = "down" /\ depth[r] \in DOMAIN chain
           /\ chain[depth[r]] # "logger" /\ depth' = [depth EXCEPT ![r] = depth[r] + 1]
        \/ /\ pc[r] = "down" /\ depth[r] = Len(chain) + 1
           /\ \E p \in After : pc' = [pc EXCEPT ![r] = p]
           /\ depth' = [depth EXCEPT ![r] = Len(chain)]
        \/ /\ pc[r] \in After /\ \E p \in After : pc' = [pc EXCEPT ![r] = p]
           /\ \E d : depth' = [depth EXCEPT ![r] = d]
    <3>1. CASE EnterMetrics(r) \/ EnterRecovery(r)
      BY <3>1 DEF EnterMetrics, EnterRecovery, Enter, At
    <3>2. CASE Return(r) \/ \E kind \in {"plain", "broken"} : Panic(r, kind)
      BY <3>2 DEF Return, Panic, Handles, Goto, After
    <3>3. CASE Recover(r)
      BY <3>3 DEF Recover, Leave, After
    <3>4. CASE LeaveRecovery(r) \/ LeaveMetrics(r) \/ UnwindMetrics(r)
      <4>1. pc[r] \in After /\ pc' = pc /\ depth' = [depth EXCEPT ![r] = depth[r] - 1]
        BY <3>4 DEF LeaveRecovery, LeaveMetrics, UnwindMetrics, Leave, After
      <4>2. pc' = [pc EXCEPT ![r] = pc[r]]
        BY <4>1, <1>a
      <4>3. QED
        BY <4>1, <4>2
    <3>5. CASE Answer(r)
      <4>1. depth' = [depth EXCEPT ![r] = depth[r]]
        BY <3>5, <1>a DEF Answer
      <4>2. QED
        BY <3>5, <4>1 DEF Answer, Goto, After
    <3>6. QED
      BY <1>3, <3>1, <3>2, <3>3, <3>4, <3>5
  <2>3. ASSUME NEW s \in Requests
        PROVE  /\ pc'[s] = "idle" => pc[s] = "idle"
               /\ pc[s] \in After => pc'[s] \in After
    BY <2>2, <1>a DEF After
  <2>4. ASSUME NEW s \in Requests, NEW i \in DOMAIN chain, chain[i] = "logger"
        PROVE  Passed(s, i)' <=> Passed(s, i)
    <3>1. CASE s # r
      <4>1. pc'[s] = pc[s] /\ depth'[s] = depth[s]
        BY <3>1, <2>2, <1>a
      <4>2. QED
        BY <4>1 DEF Passed
    <3>2. CASE s = r
      <4>1. i \in 1..Len(chain) /\ depth[r] \in Nat
        BY <1>0, <1>a
      <4>2. \/ /\ pc'[r] = "down" /\ pc[r] = "down" /\ depth[r] # i
               /\ depth'[r] = depth[r] + 1
            \/ pc[r] = "down" /\ depth[r] > i /\ pc'[r] \in After
            \/ pc[r] \in After /\ pc'[r] \in After
        BY <2>2, <2>4, <1>0, <1>a, <4>1
      <4>3. QED
        BY <3>2, <4>1, <4>2 DEF Passed, After
    <3>3. QED
      BY <3>1, <3>2
  <2>5. QED
    BY <2>1, <2>3, <2>4, BodyStays
<1>4. ASSUME NEW r \in Requests, NEW route \in {"plain", "quiet"}, NEW loggable \in BOOLEAN,
             NEW length \in Lengths, NEW breaks \in Lengths \cup {Nil},
             Arrive(r, route, loggable, length, breaks)
      PROVE  BodyInv'
  <2> DEFINE q == [route |-> route, loggable |-> loggable, length |-> length, breaks |-> breaks]
  <2>1. q \in Bodies
    BY BytesAssumption DEF Bodies
  <2> HIDE DEF q
  <2>2. /\ UNCHANGED <<chain, offset, logged, read, lines>> /\ pc[r] = "idle"
        /\ pc' = [pc EXCEPT ![r] = "down"] /\ depth' = [depth EXCEPT ![r] = 1]
        /\ request' = [request EXCEPT ![r] = q]
    BY <1>4 DEF Arrive, Goto, records, history, q
  <2>3. /\ request' \in [Requests -> Bodies] /\ pc'[r] = "down" /\ depth'[r] = 1
        /\ \A s \in Requests : s # r => UNCHANGED <<Body(s), pc[s], depth[s]>>
    BY <2>1, <2>2, <1>a DEF Body
  <2>4. offset[r] = 0 /\ ~read[r].eof /\ lines[r] = <<>>
    BY <2>2, <1>a DEF BodyOf, After
  <2>5. BodyOf(r)'
    BY <2>2, <2>3, <2>4 DEF BodyOf
  <2>6. LoggedOf(r)'
    BY <2>2, <2>3, <1>0, <1>a DEF LoggedOf, Passed
  <2>7. QED
    BY <2>2, <2>3, <2>5, <2>6, <1>a, BodySet
<1>5. ASSUME NEW r \in Requests, EnterLogger(r) PROVE BodyInv'
  <2>1. /\ UNCHANGED <<chain, pc, request, read, lines>> /\ pc[r] = "down"
        /\ depth[r] \in DOMAIN chain /\ chain[depth[r]] = "logger"
        /\ depth' = [depth EXCEPT ![r] = depth[r] + 1] /\ CaptureRequestBody(r)
    BY <1>5 DEF EnterLogger, Enter, At, records, history
  <2>2. request[r] \in Bodies /\ logged[r] = Nothing
    BY <2>1, <1>0, <1>a DEF LoggedOf, Passed
  <2>3. /\ offset' = [s \in Requests |-> offset'[s]] /\ logged' = [s \in Requests |-> logged'[s]]
        /\ \A s \in Requests : s # r => offset'[s] = offset[s] /\ logged'[s] = logged[s]
        /\ offset'[r] = offset[r] \/ request[r].breaks # Nil
    BY <2>1, <1>a, NilAssumption, BytesAssumption DEF CaptureRequestBody
  <2>4. \A s \in Requests : s # r => UNCHANGED <<Body(s), pc[s], depth[s]>>
    BY <2>1, <2>3, <1>a DEF Body
  <2>5. BodyOf(r)'
    BY <2>1, <2>3, <1>a DEF BodyOf
  <2>6. LoggedOf(r)'
    <3>1. Whole(request[r]) => logged'[r] = Right(request[r])
      BY <2>1, <2>2, <1>a, Captured
    <3>2. \A i \in DOMAIN chain : chain[i] = "logger" => Passed(r, i)'
      BY <2>1, <1>0, <1>a DEF Passed
    <3>3. QED
      BY <2>1, <3>1, <3>2 DEF LoggedOf
  <2>7. QED
    BY <2>1, <2>3, <2>4, <2>5, <2>6, <1>a, BodySet
<1>6. ASSUME NEW r \in Requests, ReadBody(r) PROVE BodyInv'
  <2>1. /\ UNCHANGED <<chain, pc, depth, request, offset, logged, lines>> /\ pc[r] = "down"
        /\ read' = [read EXCEPT ![r] =
             [from |-> offset[r],
              to |-> IF request[r].breaks = Nil THEN request[r].length ELSE request[r].breaks,
              eof |-> request[r].breaks = Nil]]
    BY <1>6 DEF ReadBody, Acts, Handles, inside, records
  <2>2. /\ read' = [s \in Requests |-> read'[s]]
        /\ \A s \in Requests : s # r => read'[s] = read[s]
        /\ read'[r].eof => request[r].breaks = Nil
        /\ read'[r].from = offset[r]
        /\ request[r].breaks = Nil => read'[r].to = request[r].length
    BY <2>1, <1>a
  <2>3. BodyOf(r)' /\ LoggedOf(r)'
    BY <2>1, <2>2, <1>a DEF BodyOf, LoggedOf, Passed
  <2>4. QED
    BY <2>1, <2>2, <2>3, <1>a, BodySet DEF Body
<1>7. ASSUME NEW r \in Requests, LogRequest(r) PROVE BodyInv'
  <2>1. /\ UNCHANGED <<chain, pc, request, offset, logged, read>> /\ pc[r] \in {"up", "panic"}
        /\ depth[r] \in DOMAIN chain /\ chain[depth[r]] = "logger"
        /\ depth' = [depth EXCEPT ![r] = depth[r] - 1]
        /\ lines' = [lines EXCEPT ![r] = Append(lines[r], Line(r))]
    BY <1>7 DEF LogRequest, Leave, At, inside, history
  <2>2. lines[r] = <<>>
    BY <2>1, <1>0, <1>a DEF LinesOf, Left, Ended
  <2>3. /\ lines'[r] = <<Line(r)>> /\ DOMAIN lines'[r] = {1} /\ lines'[r][1] = Line(r)
        /\ \A s \in Requests : s # r => lines'[s] = lines[s]
    BY <2>1, <2>2, <1>a
  <2>4. Whole(request[r]) => Line(r).body = Right(request[r])
    BY <2>1, <1>a DEF Line, LoggedOf, Passed
  <2>5. BodyOf(r)'
    BY <2>1, <2>3, <2>4, <1>a DEF BodyOf, After
  <2>6. LoggedOf(r)'
    BY <2>1, <1>a DEF LoggedOf, Passed
  <2>7. QED
    BY <2>1, <2>3, <2>5, <2>6, <1>a, BodySet DEF Body
<1>8. QED
  BY <1>1, <1>2, <1>3, <1>4, <1>5, <1>6, <1>7 DEF Next

\* Logging a body does not eat it, and the line shows it as it was sent: whole,
\* or up to the cap and marked, for a body and a cap of any size.
THEOREM BodyIsKept == Spec => []BodyIsLoggedAndLeft
<1>1. BodyInv => BodyIsLoggedAndLeft
  BY DEF BodyInv, BodyOf, BodyIsLoggedAndLeft, Whole, Right
<1>2. FlowInv /\ BodyInv /\ [Next]_vars => (FlowInv /\ BodyInv)'
  BY FlowStep, BodyStep
<1>3. QED
  BY <1>1, <1>2, FlowInit, BodyInit, PTL DEF Spec

----------------------------------------------------------------------------
(* What is recorded is what was answered *)

Done(r) == pc[r] = "answered" \/ (pc[r] = "up" /\ depth[r] = 0)

\* A record x of what writer w answered, or will.
Tells(x, w) == x.status = w.status /\ x.size = AtLeast(w.size, 0)

\* Recovery is the innermost: past it nothing unwinds, and nobody writes.
RecordOf(r) ==
  /\ pc[r] = "panic" => depth[r] = Len(chain)
  /\ pc[r] # "torn"
  /\ pc[r] = "answered" => writer[r].size # -1
  /\ lines[r] # <<>> =>
       pc[r] \in {"up", "answered"} /\ \E x : lines[r] = <<x>> /\ Tells(x, writer[r])
  /\ IF Has("metrics") /\ Measures(r) /\ Done(r)
       THEN \E x : /\ measured[r] = <<x>> /\ x.status = writer[r].status
                   /\ x.kind = "request" => Tells(x, writer[r])
       ELSE measured[r] = <<>>

RecordInv ==
  /\ measured = [r \in Requests |-> measured[r]]
  /\ chain \in Served => \A r \in Requests : RecordOf(r)

LEMMA ServedShape ==
  ASSUME chain \in Served
  PROVE  /\ Len(chain) \in {2, 3} /\ DOMAIN chain = 1..Len(chain)
         /\ \A i \in DOMAIN chain : /\ chain[i] = "metrics" => i = 1
                                    /\ chain[i] = "recovery" <=> i = Len(chain)
                                    /\ chain[i] = "logger" <=> i = Len(chain) - 1
         /\ Has("metrics") => chain[1] = "metrics"
<1>1. CASE chain = <<"metrics", "logger", "recovery">>
  <2>1. /\ Len(chain) = 3 /\ DOMAIN chain = 1..3
        /\ chain[1] = "metrics" /\ chain[2] = "logger" /\ chain[3] = "recovery"
    BY <1>1
  <2>2. QED
    BY <2>1 DEF Has
<1>2. CASE chain = <<"logger", "recovery">>
  <2>1. /\ Len(chain) = 2 /\ DOMAIN chain = 1..2
        /\ chain[1] = "logger" /\ chain[2] = "recovery"
    BY <1>2
  <2>2. QED
    BY <2>1 DEF Has
<1>3. QED
  BY <1>1, <1>2 DEF Served

Records(r) == <<pc[r], depth[r], request[r], writer[r], lines[r], measured[r]>>

LEMMA RecordSet ==
  ASSUME RecordInv, NEW r \in Requests, chain' = chain,
         measured' = [s \in Requests |-> measured'[s]],
         \A s \in Requests : s # r => UNCHANGED Records(s),
         chain \in Served => RecordOf(r)'
  PROVE  RecordInv'
<1>1. ASSUME chain \in Served, NEW s \in Requests, s # r PROVE RecordOf(s)'
  <2>1. RecordOf(s)
    BY <1>1 DEF RecordInv
  <2>2. /\ pc'[s] = pc[s] /\ depth'[s] = depth[s] /\ request'[s] = request[s]
        /\ writer'[s] = writer[s] /\ lines'[s] = lines[s] /\ measured'[s] = measured[s]
    BY <1>1 DEF Records
  <2>3. (Has("metrics")' <=> Has("metrics")) /\ (Measures(s)' <=> Measures(s))
        /\ (Done(s)' <=> Done(s))
    BY <2>2 DEF Has, Measures, Done
  <2>4. QED
    BY <2>1, <2>2, <2>3 DEF RecordOf
<1>2. QED
  BY <1>1 DEF RecordInv

LEMMA RecordInit == Init => RecordInv
<1> SUFFICES ASSUME Init PROVE RecordInv
  OBVIOUS
<1>1. ASSUME NEW r \in Requests
      PROVE  pc[r] = "idle" /\ lines[r] = <<>> /\ measured[r] = <<>>
  BY DEF Init
<1>2. \A r \in Requests : RecordOf(r)
  BY <1>1 DEF RecordOf, Done
<1>3. QED
  BY <1>2 DEF Init, RecordInv

LEMMA RecordStep == FlowInv /\ OutputInv /\ RecordInv /\ [Next]_vars => RecordInv'
<1> SUFFICES ASSUME FlowInv, OutputInv, RecordInv, [Next]_vars PROVE RecordInv'
  OBVIOUS
<1>a. /\ pc \in [Requests -> Places] /\ depth \in [Requests -> Nat]
      /\ request = [s \in Requests |-> request[s]] /\ lines = [s \in Requests |-> lines[s]]
      /\ writer \in [Requests -> Writers] /\ measured = [s \in Requests |-> measured[s]]
      /\ \A s \in Requests : FlowOf(s) /\ LinesOf(s)
      /\ chain \in Served => \A s \in Requests : RecordOf(s)
  BY DEF FlowInv, ShapeInv, OutputInv, RecordInv
<1>1. CASE UNCHANGED vars
  BY <1>1 DEF vars, inside, output, records, RecordInv, RecordOf, Has, Measures, Done
<1>2. ASSUME NEW r \in Requests,
             \/ ReadBody(r) \/ ClientLeaves(r)
      PROVE  RecordInv'
  <2>1. UNCHANGED <<chain, pc, depth, request, writer, lines, measured>>
    BY <1>2 DEF ReadBody, ClientLeaves, inside, output, records, history
  <2>2. QED
    BY <2>1 DEF RecordInv, RecordOf, Has, Measures, Done
<1>3. ASSUME NEW r \in Requests,
             \/ \E code \in Codes : SetStatus(r, code)
             \/ SetEventStream(r) \/ Flush(r)
             \/ \E n \in Chunks : \E taken \in 0..n : Write(r, n, taken)
      PROVE  RecordInv'
  <2>1. /\ UNCHANGED <<chain, pc, depth, request, lines, measured>> /\ pc[r] = "down"
        /\ \A s \in Requests : s # r => writer'[s] = writer[s]
    BY <1>3, <1>a DEF SetStatus, SetEventStream, Flush, Write, Acts, Handles, inside, records
  <2>2. chain \in Served => RecordOf(r)'
    <3> SUFFICES ASSUME chain \in Served PROVE RecordOf(r)'
      OBVIOUS
    <3>1. lines[r] = <<>> /\ measured[r] = <<>>
      BY <2>1, <1>a DEF RecordOf, Done
    <3>2. QED
      BY <2>1, <3>1 DEF RecordOf, Done
  <2>3. QED
    BY <2>1, <2>2, <1>a, RecordSet DEF Records
<1>4. ASSUME NEW r \in Requests,
             \/ EnterMetrics(r) \/ EnterLogger(r) \/ EnterRecovery(r)
             \/ \E kind \in {"plain", "broken"} : Panic(r, kind)
             \/ Return(r)
      PROVE  RecordInv'
  <2>1. /\ UNCHANGED <<chain, request, writer, lines, measured>> /\ pc[r] = "down"
        /\ \E d : depth' = [depth EXCEPT ![r] = d]
        /\ \/ pc' = pc
           \/ /\ \E p \in {"up", "panic"} : pc' = [pc EXCEPT ![r] = p]
              /\ depth' = [depth EXCEPT ![r] = Len(chain)]
    BY <1>4 DEF EnterMetrics, EnterLogger, EnterRecovery, Enter, Panic, Return, Handles, Goto,
                inside, output, records, history
  <2>2. chain \in Served => RecordOf(r)'
    <3> SUFFICES ASSUME chain \in Served PROVE RecordOf(r)'
      OBVIOUS
    <3>1. lines[r] = <<>> /\ measured[r] = <<>>
      BY <2>1, <1>a DEF RecordOf, Done
    <3>2. \/ pc'[r] = "down"
          \/ pc'[r] \in {"up", "panic"} /\ depth'[r] = Len(chain) /\ Len(chain) # 0
      BY <2>1, <1>a, ServedShape
    <3>3. ~Done(r)'
      BY <3>2 DEF Done
    <3>4. QED
      BY <2>1, <3>1, <3>2, <3>3 DEF RecordOf
  <2>3. QED
    BY <2>1, <2>2, <1>a, RecordSet DEF Records
<1>5. ASSUME NEW r \in Requests, NEW route, NEW loggable, NEW length, NEW breaks,
             Arrive(r, route, loggable, length, breaks)
      PROVE  RecordInv'
  <2>1. /\ UNCHANGED <<chain, writer, lines, measured>> /\ pc[r] = "idle"
        /\ pc' = [pc EXCEPT ![r] = "down"]
        /\ \A s \in Requests : s # r => UNCHANGED Records(s)
    BY <1>5, <1>a DEF Arrive, Goto, output, records, Records
  <2>2. chain \in Served => RecordOf(r)'
    <3> SUFFICES ASSUME chain \in Served PROVE RecordOf(r)'
      OBVIOUS
    <3>1. lines[r] = <<>> /\ measured[r] = <<>> /\ pc'[r] = "down"
      BY <2>1, <1>a DEF RecordOf, Done
    <3>2. QED
      BY <2>1, <3>1 DEF RecordOf, Done
  <2>3. QED
    BY <2>1, <2>2, <1>a, RecordSet
<1>6. ASSUME NEW r \in Requests, LeaveRecovery(r) PROVE RecordInv'
  <2>1. /\ UNCHANGED <<chain, pc, request, writer, lines, measured>> /\ pc[r] = "up"
        /\ depth[r] \in DOMAIN chain /\ chain[depth[r]] = "recovery"
        /\ depth' = [depth EXCEPT ![r] = depth[r] - 1]
    BY <1>6 DEF LeaveRecovery, Leave, At, inside, output, records, history
  <2>2. chain \in Served => RecordOf(r)'
    <3> SUFFICES ASSUME chain \in Served PROVE RecordOf(r)'
      OBVIOUS
    <3>1. depth[r] = Len(chain) /\ Len(chain) \in {2, 3} /\ depth'[r] = depth[r] - 1
      BY <2>1, <1>a, ServedShape
    <3>2. ~Done(r) /\ ~Done(r)'
      BY <2>1, <3>1 DEF Done
    <3>3. QED
      BY <2>1, <3>2, <1>a DEF RecordOf
  <2>3. QED
    BY <2>1, <2>2, <1>a, RecordSet DEF Records
<1>7. ASSUME NEW r \in Requests, Recover(r) PROVE RecordInv'
  <2>1. /\ UNCHANGED <<chain, request, lines, measured>> /\ pc[r] = "panic"
        /\ depth[r] \in DOMAIN chain /\ chain[depth[r]] = "recovery"
        /\ depth' = [depth EXCEPT ![r] = depth[r] - 1] /\ pc' = [pc EXCEPT ![r] = "up"]
        /\ \A s \in Requests : s # r => writer'[s] = writer[s]
    BY <1>7, <1>a DEF Recover, Leave, At, inside, records, history
  <2>2. chain \in Served => RecordOf(r)'
    <3> SUFFICES ASSUME chain \in Served PROVE RecordOf(r)'
      OBVIOUS
    <3>1. /\ depth[r] = Len(chain) /\ Len(chain) \in {2, 3} /\ depth'[r] = depth[r] - 1
          /\ pc'[r] = "up"
      BY <2>1, <1>a, ServedShape
    <3>2. lines[r] = <<>> /\ measured[r] = <<>>
      BY <2>1, <1>a DEF RecordOf, Done
    <3>3. ~Done(r)'
      <4>1. depth'[r] # 0
        <5>1. depth'[r] = Len(chain) - 1 /\ Len(chain) \in {2, 3}
          BY <3>1
        <5>2. QED
          BY <5>1
      <4>2. QED
        BY <4>1, <3>1 DEF Done
    <3>4. QED
      BY <2>1, <3>1, <3>2, <3>3 DEF RecordOf
  <2>3. QED
    BY <2>1, <2>2, <1>a, RecordSet DEF Records
<1>8. ASSUME NEW r \in Requests, LogRequest(r) PROVE RecordInv'
  <2>1. /\ UNCHANGED <<chain, pc, request, writer, measured>> /\ pc[r] \in {"up", "panic"}
        /\ depth[r] \in DOMAIN chain /\ chain[depth[r]] = "logger"
        /\ depth' = [depth EXCEPT ![r] = depth[r] - 1]
        /\ lines' = [lines EXCEPT ![r] = Append(lines[r], Line(r))]
    BY <1>8 DEF LogRequest, Leave, At, inside, output, history
  <2>2. chain \in Served => RecordOf(r)'
    <3> SUFFICES ASSUME chain \in Served PROVE RecordOf(r)'
      OBVIOUS
    <3>1. /\ depth[r] = Len(chain) - 1 /\ Len(chain) \in {2, 3} /\ depth'[r] = depth[r] - 1
          /\ Len(chain) = 2 => ~Has("metrics")
      <4>1. depth[r] = Len(chain) - 1 /\ Len(chain) \in {2, 3} /\ depth'[r] = depth[r] - 1
        BY <2>1, <1>a, ServedShape
      <4>2. ASSUME Len(chain) = 2, Has("metrics") PROVE FALSE
        <5>1. chain[1] = "metrics"
          BY <4>2, ServedShape
        <5>2. 1 \in DOMAIN chain /\ chain[1] = "logger"
          BY <4>2, ServedShape
        <5>3. QED
          BY <5>1, <5>2
      <4>3. QED
        BY <4>1, <4>2
    <3>2. pc[r] = "up"
      BY <2>1, <3>1, <1>a DEF RecordOf
    <3>3. lines[r] = <<>>
      <4>1. ~Left(r, depth[r])
        BY <2>1, <3>1 DEF Left, Ended
      <4>2. LinesOf(r)
        BY <1>a
      <4>3. QED
        BY <2>1, <4>1, <4>2 DEF LinesOf
    <3>4. lines'[r] = <<Line(r)>> /\ Tells(Line(r), writer[r])
      BY <2>1, <3>3, <1>a DEF Line, Tells
    <3>5. Has("metrics") => ~Done(r) /\ ~Done(r)'
      <4>1. Has("metrics") => depth[r] # 0 /\ depth'[r] # 0
        BY <3>1
      <4>2. pc[r] = "up" /\ pc'[r] = "up"
        BY <2>1, <3>2
      <4>3. QED
        BY <4>1, <4>2 DEF Done
    <3>6. measured[r] = <<>>
      BY <3>5, <1>a DEF RecordOf
    <3>7. Has("metrics")' <=> Has("metrics")
      BY <2>1 DEF Has
    <3>8. QED
      BY <2>1, <3>2, <3>4, <3>5, <3>6, <3>7 DEF RecordOf
  <2>3. QED
    BY <2>1, <2>2, <1>a, RecordSet DEF Records
<1>9. ASSUME NEW r \in Requests, LeaveMetrics(r) PROVE RecordInv'
  <2>1. /\ UNCHANGED <<chain, pc, request, writer, lines>> /\ pc[r] = "up"
        /\ depth[r] \in DOMAIN chain /\ chain[depth[r]] = "metrics"
        /\ depth' = [depth EXCEPT ![r] = depth[r] - 1]
        /\ measured' = IF Measures(r)
                         THEN [measured EXCEPT ![r] = measured[r] \o Measurements(r)]
                         ELSE measured
    BY <1>9 DEF LeaveMetrics, Leave, At, inside, output, history
  <2>2. chain \in Served => RecordOf(r)'
    <3> SUFFICES ASSUME chain \in Served PROVE RecordOf(r)'
      OBVIOUS
    <3>1. depth[r] = 1 /\ depth'[r] = 0
      BY <2>1, <1>a, ServedShape
    <3>2. measured[r] = <<>>
      BY <2>1, <3>1, <1>a DEF RecordOf, Done
    <3>3. Measures(r) => measured'[r] = Measurements(r)
      BY <2>1, <3>2, <1>a DEF Measurements
    <3>4. ~Measures(r) => measured'[r] = <<>>
      BY <2>1, <3>2
    <3>5. \E x : /\ Measurements(r) = <<x>> /\ x.status = writer[r].status
                 /\ x.kind = "request" => Tells(x, writer[r])
      BY DEF Measurements, Tells
    <3>6. Done(r)' /\ Has("metrics")' /\ (Measures(r)' <=> Measures(r))
      BY <2>1, <3>1 DEF Done, Has, Measures
    <3>7. QED
      BY <2>1, <3>3, <3>4, <3>5, <3>6, <1>a DEF RecordOf
  <2>3. /\ measured' = [s \in Requests |-> measured'[s]]
        /\ \A s \in Requests : s # r => UNCHANGED Records(s)
    BY <2>1, <1>a DEF Records
  <2>4. QED
    BY <2>1, <2>2, <2>3, RecordSet
<1>10. ASSUME NEW r \in Requests, UnwindMetrics(r) PROVE RecordInv'
  <2>1. /\ UNCHANGED <<chain, pc, request, writer, lines, measured>> /\ pc[r] = "panic"
        /\ depth[r] \in DOMAIN chain /\ chain[depth[r]] = "metrics"
        /\ depth' = [depth EXCEPT ![r] = depth[r] - 1]
    BY <1>10 DEF UnwindMetrics, Leave, At, inside, output, history
  <2>2. chain \notin Served
    BY <2>1, <1>a, ServedShape DEF RecordOf
  <2>3. QED
    BY <2>1, <2>2, <1>a, RecordSet DEF Records
<1>11. ASSUME NEW r \in Requests, Answer(r) PROVE RecordInv'
  <2>1. /\ UNCHANGED <<chain, depth, request, lines, measured>> /\ depth[r] = 0
        /\ \/ /\ pc[r] = "up" /\ pc' = [pc EXCEPT ![r] = "answered"]
              /\ writer' = [writer EXCEPT ![r] = HeaderOut(writer[r])]
           \/ pc[r] = "panic" /\ pc' = [pc EXCEPT ![r] = "torn"] /\ writer' = writer
    BY <1>11 DEF Answer, Goto, inside, records, history
  <2>2. chain \in Served => RecordOf(r)'
    <3> SUFFICES ASSUME chain \in Served PROVE RecordOf(r)'
      OBVIOUS
    <3>1. pc[r] = "up"
      BY <2>1, <1>a, ServedShape DEF RecordOf
    <3> DEFINE v == HeaderOut(writer[r])
    <3>2. /\ v.size # -1 /\ v.status = writer[r].status
          /\ writer[r] \in Writers /\ v \in Writers
          /\ writer[r].size # -1 => v.size = writer[r].size
      BY WriterFields, <1>a
    <3>3. AtLeast(v.size, 0) = AtLeast(writer[r].size, 0)
      BY <3>2 DEF HeaderOut, Writers, AtLeast
    <3> HIDE DEF v
    <3>4. pc'[r] = "answered" /\ writer'[r] = v
      BY <2>1, <3>1, <1>a DEF v
    <3>5. Done(r) /\ Done(r)' /\ (Has("metrics")' <=> Has("metrics"))
          /\ (Measures(r)' <=> Measures(r))
      BY <2>1, <3>1, <3>4 DEF Done, Has, Measures
    <3>6. \A x : Tells(x, writer[r]) => Tells(x, v)
      BY <3>2, <3>3 DEF Tells
    <3>7. RecordOf(r)
      BY <1>a
    <3>8. QED
      BY <2>1, <3>2, <3>4, <3>5, <3>6, <3>7 DEF RecordOf
  <2>3. QED
    BY <2>1, <2>2, <1>a, RecordSet DEF Records
<1>12. QED
  BY <1>1, <1>2, <1>3, <1>4, <1>5, <1>6, <1>7, <1>8, <1>9, <1>10, <1>11 DEF Next

\* With the middlewares of Server the line and the measurements have the status
\* and the size the client got, for any number of requests and any handler.
THEOREM RecordsAreAnswers == Spec => []RecordedAsAnswered
<1>1. FlowInv /\ OutputInv /\ RecordInv => RecordedAsAnswered
  <2> SUFFICES ASSUME FlowInv, OutputInv, RecordInv, chain \in Served,
                      NEW r \in Requests, pc[r] = "answered"
               PROVE  /\ \E i \in DOMAIN lines[r] : /\ lines[r][i].status = writer[r].status
                                                    /\ lines[r][i].size = writer[r].size
                      /\ IF Has("metrics") /\ Measures(r)
                           THEN /\ Len(measured[r]) = 1
                                /\ measured[r][1].status = writer[r].status
                                /\ measured[r][1].kind = "request" =>
                                     measured[r][1].size = writer[r].size
                           ELSE measured[r] = <<>>
    BY DEF RecordedAsAnswered
  <2>1. RecordOf(r) /\ LinesOf(r) /\ writer[r] \in Writers
    BY DEF RecordInv, FlowInv, OutputInv
  <2>2. AtLeast(writer[r].size, 0) = writer[r].size
    BY <2>1 DEF RecordOf, Writers, AtLeast
  <2>3. lines[r] # <<>>
    <3>1. PICK i \in DOMAIN chain : chain[i] = "logger"
      <4>1. Len(chain) \in {2, 3} /\ Len(chain) - 1 \in DOMAIN chain
        BY ServedShape
      <4>2. QED
        BY <4>1, ServedShape
    <3>2. Len(lines[r]) = 1
      BY <2>1, <3>1 DEF LinesOf, Left, Ended
    <3>3. Len(lines[r]) # Len(<<>>)
      BY <3>2
    <3>4. QED
      BY <3>3, Zenon
  <2>4. PICK x : lines[r] = <<x>> /\ Tells(x, writer[r])
    BY <2>1, <2>3 DEF RecordOf
  <2>5. 1 \in DOMAIN lines[r] /\ lines[r][1] = x
    BY <2>4
  <2>6. IF Has("metrics") /\ Measures(r)
          THEN /\ Len(measured[r]) = 1
               /\ measured[r][1].status = writer[r].status
               /\ measured[r][1].kind = "request" => measured[r][1].size = writer[r].size
          ELSE measured[r] = <<>>
    <3>1. CASE Has("metrics") /\ Measures(r)
      <4>1. PICK y : /\ measured[r] = <<y>> /\ y.status = writer[r].status
                     /\ y.kind = "request" => Tells(y, writer[r])
        BY <2>1, <3>1 DEF RecordOf, Done
      <4>2. Len(measured[r]) = 1 /\ measured[r][1] = y
        BY <4>1
      <4>3. QED
        BY <4>1, <4>2, <3>1, <2>2 DEF Tells
    <3>2. CASE ~(Has("metrics") /\ Measures(r))
      BY <2>1, <3>2 DEF RecordOf
    <3>3. QED
      BY <3>1, <3>2
  <2>7. QED
    BY <2>2, <2>4, <2>5, <2>6 DEF Tells
<1>2. FlowInv /\ OutputInv /\ RecordInv /\ [Next]_vars => (FlowInv /\ OutputInv /\ RecordInv)'
  BY FlowStep, OutputStep, RecordStep
<1>3. QED
  BY <1>1, <1>2, FlowInit, OutputInit, RecordInit, PTL DEF Spec

----------------------------------------------------------------------------
(* Types *)

LoggedBodies == [bytes : 0..Cap, truncated : BOOLEAN]
Lines == [status : Codes, size : Nat, level : {"debug", "warn", "error"},
          body : LoggedBodies, answer : 0..Cap]

LEMMA LineType ==
  ASSUME NEW r, writer[r] \in Writers, request[r] \in Bodies,
         logged[r] \in LoggedBodies, kept[r] \in 0..Cap
  PROVE  Line(r) \in Lines
<1>1. AtLeast(writer[r].size, 0) \in Nat /\ writer[r].status \in Codes
  BY DEF Writers, AtLeast
<1>2. LevelFor(writer[r].status, request[r].route = "quiet") \in {"debug", "warn", "error"}
  BY DEF LevelFor, Bodies
<1>3. QED
  BY <1>1, <1>2 DEF Line, Lines

LEMMA CaptureType ==
  ASSUME NEW r \in Requests, request[r] \in Bodies, offset \in [Requests -> Nat],
         logged \in [Requests -> LoggedBodies], CaptureRequestBody(r)
  PROVE  offset' \in [Requests -> Nat] /\ logged' \in [Requests -> LoggedBodies]
<1> DEFINE q == request[r]
           head == AtMost(q.length, Cap + 1)
<1>1. q.length \in Nat /\ q.breaks \in Nat \cup {Nil}
  BY DEF Bodies
<1>2. AtMost(head, Cap) \in 0..Cap /\ (head > Cap) \in BOOLEAN
  BY <1>1, BytesAssumption DEF AtMost
<1>3. \/ UNCHANGED <<offset, logged>>
      \/ \E n \in 0..Cap : offset' = [offset EXCEPT ![r] = n] /\ UNCHANGED logged
      \/ /\ logged' = [logged EXCEPT ![r] =
              [bytes |-> AtMost(head, Cap), truncated |-> head > Cap]]
         /\ UNCHANGED offset
  BY DEF CaptureRequestBody
<1> DEFINE shown == [bytes |-> AtMost(head, Cap), truncated |-> head > Cap]
<1>4. shown \in LoggedBodies
  BY <1>2 DEF LoggedBodies
<1> HIDE DEF shown
<1>5. \/ UNCHANGED <<offset, logged>>
      \/ \E n \in 0..Cap : offset' = [offset EXCEPT ![r] = n] /\ UNCHANGED logged
      \/ logged' = [logged EXCEPT ![r] = shown] /\ UNCHANGED offset
  BY <1>3 DEF shown
<1>6. \A n \in 0..Cap : n \in Nat
  BY BytesAssumption
<1>7. QED
  BY <1>4, <1>5, <1>6

Measurement == [kind : {"request", "stream"}, status : Codes, size : Nat,
                outcome : {"none", "completed", "client_closed"}]

LEMMA MeasurementsType ==
  ASSUME NEW r, writer[r] \in Writers
  PROVE  Measurements(r) \in Seq(Measurement)
<1>1. AtLeast(writer[r].size, 0) \in Nat /\ writer[r].status \in Codes
  BY DEF Writers, AtLeast
<1>2. \E x \in Measurement : Measurements(r) = <<x>>
  BY <1>1 DEF Measurements, Measurement, Outcome
<1>3. QED
  BY <1>2

\* Every variable keeps its type, the bound on what is kept of a body included.
THEOREM TypeCorrect == Spec => []TypeOK
<1>1. Init => TypeOK
  <2> SUFFICES ASSUME Init PROVE TypeOK
    OBVIOUS
  <2>0. chain \in Orders /\ Len(chain) \in Nat
    BY ChainShape DEF Init
  <2>1. /\ 0 \in 0..Cap /\ 0 \in 0..MaxSteps /\ 0 \in 0..(Len(chain) + 1)
    BY <2>0, BytesAssumption
  <2>2. QED
    BY <2>0, <2>1 DEF Init, TypeOK, Codes
<1>2. TypeOK /\ [Next]_vars => TypeOK'
  <2> SUFFICES ASSUME TypeOK, [Next]_vars PROVE TypeOK'
    OBVIOUS
  <2>0. /\ Len(chain) \in Nat /\ DOMAIN chain = 1..Len(chain) /\ chain \in Orders
    BY ChainShape DEF TypeOK
  <2>a. /\ writer \in [Requests -> Writers] /\ request \in [Requests -> Bodies]
        /\ logged \in [Requests -> LoggedBodies] /\ sent \in [Requests -> Sent]
        /\ kept \in [Requests -> 0..Cap] /\ failed \in [Requests -> BOOLEAN]
        /\ depth \in [Requests -> 0..(Len(chain) + 1)] /\ steps \in [Requests -> 0..MaxSteps]
        /\ lines \in [Requests -> Seq(Lines)] /\ measured \in [Requests -> Seq(Measurement)]
        /\ pc \in [Requests -> Places] /\ offset \in [Requests -> Nat] /\ active \in Int
        /\ \A r \in Requests : /\ writer[r] \in Writers /\ request[r] \in Bodies
                               /\ logged[r] \in LoggedBodies /\ sent[r] \in Sent
                               /\ kept[r] \in 0..Cap /\ failed[r] \in BOOLEAN
    BY DEF TypeOK, Writers, Bodies, LoggedBodies, Sent, Lines, Measurement, Places
  <2>1. CASE UNCHANGED vars
    BY <2>1 DEF vars, inside, output, records, history, TypeOK
  <2>2. ASSUME NEW r \in Requests,
               \/ EnterMetrics(r) \/ EnterRecovery(r) \/ LeaveRecovery(r) \/ UnwindMetrics(r)
               \/ \E kind \in {"plain", "broken"} : Panic(r, kind)
               \/ Return(r) \/ ClientLeaves(r)
        PROVE  TypeOK'
    <3>1. /\ UNCHANGED <<chain, request, offset, logged, writer, kept, failed, lines, measured,
                         read, sent, steps>>
          /\ gone' = gone \/ gone' = [gone EXCEPT ![r] = TRUE]
          /\ panicked' = panicked \/ \E k \in {"plain", "broken"} :
                                       panicked' = [panicked EXCEPT ![r] = k]
          /\ active' \in {active, active + 1, active - 1}
          /\ pc' = pc \/ \E p \in {"up", "panic"} : pc' = [pc EXCEPT ![r] = p]
      BY <2>2 DEF EnterMetrics, EnterRecovery, LeaveRecovery, UnwindMetrics, Panic, Return,
                  ClientLeaves, Goto, Enter, Leave, inside, output, records, history
    <3>2. \/ depth' = depth
          \/ \E d \in 0..(Len(chain) + 1) : depth' = [depth EXCEPT ![r] = d]
      <4>1. CASE EnterMetrics(r) \/ EnterRecovery(r)
        <5>1. depth[r] \in 1..Len(chain) /\ depth' = [depth EXCEPT ![r] = depth[r] + 1]
          BY <4>1, <2>0 DEF EnterMetrics, EnterRecovery, Enter, At
        <5>2. depth[r] + 1 \in 0..(Len(chain) + 1)
          BY <5>1, <2>0
        <5>3. QED
          BY <5>1, <5>2
      <4>2. CASE LeaveRecovery(r) \/ UnwindMetrics(r)
        <5>1. depth[r] \in 1..Len(chain) /\ depth' = [depth EXCEPT ![r] = depth[r] - 1]
          BY <4>2, <2>0 DEF LeaveRecovery, UnwindMetrics, Leave, At
        <5>2. depth[r] - 1 \in 0..(Len(chain) + 1)
          BY <5>1, <2>0
        <5>3. QED
          BY <5>1, <5>2
      <4>3. CASE Return(r) \/ \E kind \in {"plain", "broken"} : Panic(r, kind)
        <5>1. Len(chain) \in 0..(Len(chain) + 1)
          BY <2>0
        <5>2. QED
          BY <4>3, <5>1 DEF Return, Panic
      <4>4. CASE ClientLeaves(r)
        BY <4>4 DEF ClientLeaves
      <4>5. QED
        BY <2>2, <4>1, <4>2, <4>3, <4>4
    <3>3. pc' \in [Requests -> Places]
      BY <3>1, <2>a DEF Places
    <3>4. depth' \in [Requests -> 0..(Len(chain) + 1)]
      BY <3>2, <2>a
    <3>5. gone' \in [Requests -> BOOLEAN]
      BY <3>1 DEF TypeOK
    <3>6. panicked' \in [Requests -> {"none", "plain", "broken"}]
      BY <3>1 DEF TypeOK
    <3>7. active' \in Int
      BY <3>1, <2>a
    <3>8. QED
      BY <3>1, <3>3, <3>5, <3>6, <3>7, <3>4 DEF TypeOK, Places
  <2>3. ASSUME NEW r \in Requests,
               \/ \E code \in Codes : SetStatus(r, code)
               \/ SetEventStream(r) \/ Flush(r)
        PROVE  TypeOK'
    <3>1. /\ UNCHANGED <<chain, pc, depth, request, offset, logged, gone, kept, failed, active,
                         lines, measured, panicked, read, sent>>
          /\ steps[r] < MaxSteps /\ steps' = [steps EXCEPT ![r] = steps[r] + 1]
      BY <2>3 DEF SetStatus, SetEventStream, Flush, Acts, inside, records
    <3>2. \E w \in Writers : writer' = [writer EXCEPT ![r] = w]
      BY <2>3, <2>a, WriterFields DEF SetStatus, SetEventStream, Flush
    <3>3. steps' \in [Requests -> 0..MaxSteps]
      <4>1. steps[r] + 1 \in 0..MaxSteps
        BY <3>1, <2>a, BytesAssumption
      <4>2. QED
        BY <4>1, <3>1, <2>a
    <3>4. writer' \in [Requests -> Writers]
      BY <3>2, <2>a
    <3>5. QED
      BY <3>1, <3>3, <3>4 DEF TypeOK, Writers
  <2>4. ASSUME NEW r \in Requests, NEW n \in Chunks, NEW taken \in 0..n, Write(r, n, taken)
        PROVE  TypeOK'
    <3>0. n \in Nat /\ taken \in Nat /\ n - taken \in Nat
      BY BytesAssumption
    <3>1. /\ UNCHANGED <<chain, pc, depth, request, offset, logged, gone, active, lines,
                         measured, panicked, read>>
          /\ steps[r] < MaxSteps /\ steps' = [steps EXCEPT ![r] = steps[r] + 1]
          /\ writer' = [writer EXCEPT ![r] = [writer[r] EXCEPT !.size =
               AtLeast(writer[r].size, 0) + taken]]
          /\ sent' = [sent EXCEPT ![r] = [tried |-> sent[r].tried + n,
                                          lost |-> sent[r].lost + (n - taken)]]
      BY <2>4, <2>a DEF Write, Acts, inside, records
    <3>2. \E w \in Writers : writer' = [writer EXCEPT ![r] = w]
      <4>1. writer[r] \in Writers
        BY <2>a
      <4>2. [writer[r] EXCEPT !.size = AtLeast(writer[r].size, 0) + taken] \in Writers
        BY <3>0, <4>1, WriterFields
      <4>3. QED
        BY <3>1, <4>2
    <3>3. steps[r] + 1 \in 0..MaxSteps
      BY <3>1, <2>a, BytesAssumption
    <3>4. sent' \in [Requests -> Sent]
      <4>1. sent[r].tried + n \in Nat /\ sent[r].lost + (n - taken) \in Nat
        BY <3>0, <2>a DEF Sent
      <4>2. [tried |-> sent[r].tried + n, lost |-> sent[r].lost + (n - taken)] \in Sent
        BY <4>1 DEF Sent
      <4>3. QED
        BY <4>2, <3>1, <2>a
    <3>5. kept' \in [Requests -> 0..Cap]
      <4>1. AtMost(Cap, kept[r] + n) \in 0..Cap
        BY <3>0, <2>a, BytesAssumption DEF AtMost
      <4>2. kept' = kept \/ kept' = [kept EXCEPT ![r] = AtMost(Cap, kept[r] + n)]
        BY <2>4 DEF Write, Record
      <4>3. QED
        BY <4>1, <4>2, <2>a
    <3>6. failed' \in [Requests -> BOOLEAN]
      <4>1. \E b \in BOOLEAN : failed' = [failed EXCEPT ![r] = b]
        BY <2>4 DEF Write, Observe
      <4>2. QED
        BY <4>1, <2>a
    <3>7. QED
      BY <3>1, <3>2, <3>3, <3>4, <3>5, <3>6 DEF TypeOK, Writers, Sent
  <2>5. ASSUME NEW r \in Requests, NEW route \in {"plain", "quiet"}, NEW loggable \in BOOLEAN,
               NEW length \in Lengths, NEW breaks \in Lengths \cup {Nil},
               Arrive(r, route, loggable, length, breaks)
        PROVE  TypeOK'
    <3> DEFINE q == [route |-> route, loggable |-> loggable, length |-> length,
                     breaks |-> breaks]
    <3>1. q \in Bodies /\ 1 \in 0..(Len(chain) + 1)
      BY <2>0, BytesAssumption DEF Bodies
    <3> HIDE DEF q
    <3>2. /\ UNCHANGED <<chain, offset, logged, gone, writer, kept, failed, active, lines,
                         measured, panicked, read, sent, steps>>
          /\ pc' = [pc EXCEPT ![r] = "down"] /\ depth' = [depth EXCEPT ![r] = 1]
          /\ request' = [request EXCEPT ![r] = q]
      BY <2>5 DEF Arrive, Goto, output, records, history, q
    <3>3. QED
      BY <3>1, <3>2 DEF TypeOK, Bodies
  <2>6. ASSUME NEW r \in Requests, EnterLogger(r) PROVE TypeOK'
    <3>1. /\ UNCHANGED <<chain, pc, request, gone, writer, kept, failed, active, lines,
                         measured, panicked, read, sent, steps>>
          /\ depth[r] \in 1..Len(chain) /\ depth' = [depth EXCEPT ![r] = depth[r] + 1]
          /\ CaptureRequestBody(r)
      BY <2>6, <2>0 DEF EnterLogger, Enter, At, output, records, history
    <3>2. depth[r] + 1 \in 0..(Len(chain) + 1)
      BY <3>1, <2>0
    <3>3. offset' \in [Requests -> Nat] /\ logged' \in [Requests -> LoggedBodies]
      BY <3>1, <2>a, CaptureType
    <3>4. QED
      BY <3>1, <3>2, <3>3 DEF TypeOK, LoggedBodies
  <2>7. ASSUME NEW r \in Requests, ReadBody(r) PROVE TypeOK'
    <3> DEFINE q == [from |-> offset[r],
                     to |-> IF request[r].breaks = Nil THEN request[r].length
                            ELSE request[r].breaks,
                     eof |-> request[r].breaks = Nil]
    <3>1. q \in [from : Nat, to : Nat, eof : BOOLEAN]
      BY <2>a DEF Bodies
    <3> HIDE DEF q
    <3>2. /\ UNCHANGED <<chain, pc, depth, request, offset, logged, gone, writer, kept, failed,
                         active, lines, measured, panicked, sent>>
          /\ steps[r] < MaxSteps /\ steps' = [steps EXCEPT ![r] = steps[r] + 1]
          /\ read' = [read EXCEPT ![r] = q]
      BY <2>7 DEF ReadBody, Acts, inside, output, records, q
    <3>3. steps[r] + 1 \in 0..MaxSteps
      BY <3>2, <2>a, BytesAssumption
    <3>4. QED
      BY <3>1, <3>2, <3>3 DEF TypeOK
  <2>8. ASSUME NEW r \in Requests, LogRequest(r) PROVE TypeOK'
    <3>1. /\ UNCHANGED <<chain, pc, request, offset, logged, gone, writer, kept, failed, active,
                         measured, panicked, read, sent, steps>>
          /\ depth[r] \in 1..Len(chain) /\ depth' = [depth EXCEPT ![r] = depth[r] - 1]
          /\ lines' = [lines EXCEPT ![r] = Append(lines[r], Line(r))]
      BY <2>8, <2>0 DEF LogRequest, Leave, At, inside, output, history
    <3>2. depth[r] - 1 \in 0..(Len(chain) + 1)
      BY <3>1, <2>0
    <3>3. Line(r) \in Lines
      BY <2>a, LineType
    <3>4. lines' \in [Requests -> Seq(Lines)]
      BY <3>1, <3>3, <2>a
    <3>5. QED
      BY <3>1, <3>2, <3>4 DEF TypeOK, Lines, LoggedBodies
  <2>9. ASSUME NEW r \in Requests, LeaveMetrics(r) PROVE TypeOK'
    <3>1. /\ UNCHANGED <<chain, pc, request, offset, logged, gone, writer, kept, failed, lines,
                         panicked, read, sent, steps>>
          /\ depth[r] \in 1..Len(chain) /\ depth' = [depth EXCEPT ![r] = depth[r] - 1]
          /\ active' \in {active, active - 1}
          /\ measured' = measured
               \/ measured' = [measured EXCEPT ![r] = measured[r] \o Measurements(r)]
      BY <2>9, <2>0 DEF LeaveMetrics, Leave, At, inside, output, history
    <3>2. depth[r] - 1 \in 0..(Len(chain) + 1)
      BY <3>1, <2>0
    <3>3. measured' \in [Requests -> Seq(Measurement)]
      <4> DEFINE m == Measurements(r)
      <4>1. m \in Seq(Measurement)
        BY <2>a, MeasurementsType
      <4> HIDE DEF m
      <4>2. measured[r] \o m \in Seq(Measurement)
        BY <4>1, <2>a
      <4>3. measured' = measured \/ measured' = [measured EXCEPT ![r] = measured[r] \o m]
        BY <3>1 DEF m
      <4>4. QED
        BY <4>2, <4>3, <2>a
    <3>4. depth' \in [Requests -> 0..(Len(chain) + 1)]
      BY <3>1, <3>2, <2>a
    <3>5. active' \in Int
      BY <3>1, <2>a
    <3>6. QED
      BY <3>1, <3>3, <3>4, <3>5 DEF TypeOK, Measurement
  <2>10. ASSUME NEW r \in Requests, Recover(r) \/ Answer(r) PROVE TypeOK'
    <3>1. /\ UNCHANGED <<chain, request, offset, logged, gone, kept, failed, active, lines,
                         measured, panicked, read, sent, steps>>
          /\ \E p \in {"up", "answered", "torn"} : pc' = [pc EXCEPT ![r] = p]
          /\ depth' = depth
               \/ (depth[r] \in 1..Len(chain) /\ depth' = [depth EXCEPT ![r] = depth[r] - 1])
      BY <2>10, <2>0 DEF Recover, Answer, Goto, Leave, At, inside, records, history
    <3>2. depth[r] \in 1..Len(chain) => depth[r] - 1 \in 0..(Len(chain) + 1)
      BY <2>0
    <3>3. writer' = writer \/ \E w \in Writers : writer' = [writer EXCEPT ![r] = w]
      <4>1. 500 \in Codes
        BY DEF Codes
      <4>2. /\ WithStatus(writer[r], 500) \in Writers /\ HeaderOut(writer[r]) \in Writers
            /\ HeaderOut(WithStatus(writer[r], 500)) \in Writers
        <5> DEFINE v == WithStatus(writer[r], 500)
        <5>1. writer[r] \in Writers
          BY <2>a
        <5>2. v \in Writers
          <6>1. \A code \in Codes : WithStatus(writer[r], code) \in Writers
            BY <5>1, WriterFields
          <6>2. QED
            BY <4>1, <6>1
        <5>3. HeaderOut(writer[r]) \in Writers
          BY <5>1, WriterFields
        <5> HIDE DEF v
        <5>4. HeaderOut(v) \in Writers
          BY <5>2, WriterFields
        <5>5. QED
          BY <5>4, <5>2, <5>3 DEF v
      <4>3. QED
        BY <2>10, <4>2 DEF Recover, Answer
    <3>4. writer' \in [Requests -> Writers]
      BY <3>3, <2>a
    <3>5. pc' \in [Requests -> Places]
      BY <3>1, <2>a DEF Places
    <3>6. depth' \in [Requests -> 0..(Len(chain) + 1)]
      BY <3>1, <3>2, <2>a
    <3>7. QED
      BY <3>1, <3>4, <3>5, <3>6 DEF TypeOK, Writers, Places
  <2>11. QED
    BY <2>1, <2>2, <2>3, <2>4, <2>5, <2>6, <2>7, <2>8, <2>9, <2>10 DEF Next
<1>3. QED
  BY <1>1, <1>2, PTL DEF Spec

----------------------------------------------------------------------------
(* How a stream is said to have ended *)

\* What a measurement says of a stream is so.
AsItIs(x, s) ==
  x.kind = "stream" =>
    x.outcome = IF sent[s].lost = 0 /\ ~gone[s] THEN "completed" ELSE "client_closed"

\* One measurement is taken of a request, and says of a stream what is so when
\* it is taken.
LEMMA MeasuredAsItIs ==
  ASSUME OutputInv, NEW r \in Requests, LeaveMetrics(r), Measures(r)
  PROVE  \E x : AsItIs(x, r) /\ measured' = [measured EXCEPT ![r] = measured[r] \o <<x>>]
<1>1. measured' = [measured EXCEPT ![r] = measured[r] \o Measurements(r)]
  BY DEF LeaveMetrics
<1>2. \E x : AsItIs(x, r) /\ Measurements(r) = <<x>>
  <2>1. CASE writer[r].sse
    <3> DEFINE x == [kind |-> "stream", status |-> writer[r].status, size |-> 0,
                     outcome |-> Outcome(r)]
    <3>1. Measurements(r) = <<x>> /\ x.outcome = Outcome(r)
      BY <2>1 DEF Measurements
    <3> HIDE DEF x
    <3>2. failed[r] <=> sent[r].lost > 0
      <4>1. Has("metrics")
        BY DEF LeaveMetrics, Leave, At, Has
      <4>2. QED
        BY <2>1, <4>1 DEF OutputInv, OutputGood
    <3>3. sent[r].lost \in Nat
      BY DEF OutputInv, Sent
    <3>4. AsItIs(x, r)
      BY <3>1, <3>2, <3>3 DEF Outcome, AsItIs
    <3>5. QED
      BY <3>1, <3>4
  <2>2. CASE ~writer[r].sse
    <3> DEFINE x == [kind |-> "request", status |-> writer[r].status,
                     size |-> AtLeast(writer[r].size, 0), outcome |-> "none"]
    <3>1. Measurements(r) = <<x>> /\ x.kind = "request"
      BY <2>2 DEF Measurements
    <3> HIDE DEF x
    <3>2. QED
      BY <3>1 DEF AsItIs
  <2>3. QED
    BY <2>1, <2>2
<1>3. PICK x : AsItIs(x, r) /\ Measurements(r) = <<x>>
  BY <1>2
<1>4. QED
  BY <1>1, <1>3

LEMMA StreamsAsTheyAre ==
  ASSUME OutputInv, TypeOK, Next, measured' # measured, NEW r \in Requests
  PROVE  \A i \in DOMAIN measured'[r] \ DOMAIN measured[r] : AsItIs(measured'[r][i], r)
<1>1. PICK s \in Requests : LeaveMetrics(s) /\ Measures(s)
  <2>1. PICK s \in Requests : LeaveMetrics(s)
    BY DEF Next, Arrive, EnterMetrics, EnterLogger, EnterRecovery, SetStatus, SetEventStream,
           Flush, ReadBody, Write, Panic, Return, ClientLeaves, LeaveRecovery, Recover,
           LogRequest, UnwindMetrics, Answer, records
  <2>2. QED
    BY <2>1 DEF LeaveMetrics
<1>2. PICK x : AsItIs(x, s) /\ measured' = [measured EXCEPT ![s] = measured[s] \o <<x>>]
  BY <1>1, MeasuredAsItIs
<1>3. measured \in [Requests -> Seq(Measurement)]
  BY DEF TypeOK, Measurement
<1>4. CASE r = s
  <2> DEFINE m == measured[r]
  <2>1. m \in Seq(Measurement) /\ measured'[r] = m \o <<x>>
    BY <1>2, <1>3, <1>4
  <2> HIDE DEF m
  <2>2. \A i \in DOMAIN (m \o <<x>>) \ DOMAIN m : (m \o <<x>>)[i] = x
    BY <2>1
  <2>3. QED
    BY <1>2, <1>4, <2>1, <2>2 DEF m
<1>5. CASE r # s
  BY <1>2, <1>3, <1>5
<1>6. QED
  BY <1>4, <1>5

\* A stream is completed if every byte of it was taken and its client is there,
\* and left by the client otherwise: for any handler, and however the client's
\* leaving falls between the handler's end and the record.
THEOREM StreamOutcome == Spec => StreamOutcomeIsTrue
<1>1. OutputInv /\ TypeOK /\ [Next]_vars =>
        [\A r \in Requests : \A i \in DOMAIN measured'[r] \ DOMAIN measured[r] :
           measured'[r][i].kind = "stream" =>
             measured'[r][i].outcome =
               IF sent[r].lost = 0 /\ ~gone[r] THEN "completed" ELSE "client_closed"]_measured
  <2>1. ASSUME OutputInv, TypeOK, Next, measured' # measured, NEW r \in Requests
        PROVE  \A i \in DOMAIN measured'[r] \ DOMAIN measured[r] : AsItIs(measured'[r][i], r)
    BY <2>1, StreamsAsTheyAre
  <2>2. UNCHANGED vars => UNCHANGED measured
    BY DEF vars, records
  <2>3. QED
    BY <2>1, <2>2 DEF AsItIs
<1>2. QED
  BY <1>1, OutputAlways, TypeCorrect, PTL DEF Spec, StreamOutcomeIsTrue
=============================================================================
