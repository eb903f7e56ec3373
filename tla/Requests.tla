------------------------------ MODULE Requests ------------------------------
(***************************************************************************)
(* One request through the middlewares of httpserver: Metrics,             *)
(* RequestLogger and Recovery around a handler that sets a status, writes, *)
(* streams, reads the body, panics or loses its client.                    *)
(*                                                                         *)
(* gin calls the middlewares in the order they were registered; each calls *)
(* the next one and goes on when it returns.  `depth' is the middleware a  *)
(* request is in, counted from the outside, and `pc' the way it goes:      *)
(* "down" to the handler, "up" after it returned, or "panic" when a panic  *)
(* unwinds and only deferred code runs.                                    *)
(*                                                                         *)
(* The handler stands for everything after the last middleware: those of   *)
(* Options.Middlewares, Huma and the operation.  Bytes are counted, not    *)
(* named.                                                                  *)
(***************************************************************************)
EXTENDS Integers, Sequences, FiniteSets

CONSTANTS Requests,    \* requests served at a time
          Lengths,     \* lengths of request bodies
          Chunks,      \* sizes of the handler's writes
          MaxSteps,    \* bound: what a handler does before it ends
          Cap,         \* maxLoggedBodyBytes
          Nil          \* a body that is read to its end

ASSUME RequestsAssumption == IsFiniteSet(Requests)
ASSUME BytesAssumption ==
  Lengths \subseteq Nat /\ Chunks \subseteq Nat /\ Cap \in Nat /\ MaxSteps \in Nat
ASSUME NilAssumption == Nil \notin Nat

VARIABLES
  chain,     \* the middlewares, outermost first
  pc,        \* where each request goes
  depth,     \* the middleware it is in, 0 outside, Len(chain) + 1 in the handler
  request,   \* [route, loggable, length, breaks]
  offset,    \* where the handler's reading of the body starts
  logged,    \* the body kept for the access line: [bytes, truncated]
  gone,      \* the request context is canceled: the client left
  writer,    \* gin's writer: [status, size, sse], size -1 until the header is out
  kept,      \* bytes in the responseRecorder
  failed,    \* the streamWriter has seen a write fail
  active,    \* http.server.active_requests
  lines,     \* the access lines of each request
  measured,  \* its measurements
  panicked,  \* its panic: "none", "plain" or "broken" (pipe)
  read,      \* what the handler read of the body: [from, to, eof]
  sent,      \* what it wrote: [tried, lost]
  steps      \* how many things it did

inside == <<request, offset, logged>>
output == <<writer, kept, failed>>
records == <<active, lines, measured>>
history == <<panicked, read, sent, steps>>
vars == <<chain, pc, depth, inside, gone, output, records, history>>

Middleware == {"metrics", "logger", "recovery"}
Codes == {200, 400, 500, 503}

\* A service with an engine of its own registers any of them in any order ...
Orders == {c \in UNION {[1..n -> Middleware] : n \in 0..3} :
             \A i, j \in DOMAIN c : c[i] = c[j] => i = j}

\* Variant: recovery outside of the logger.
Served_RecoveryFirst ==
  {<<"metrics", "recovery", "logger">>, <<"recovery", "logger">>}

\* ... Server in this one, Metrics only while telemetry is enabled.
Served == {<<"metrics", "logger", "recovery">>, <<"logger", "recovery">>}

Has(mw) == \E i \in DOMAIN chain : chain[i] = mw
AtLeast(n, m) == IF n >= m THEN n ELSE m
AtMost(n, m) == IF n <= m THEN n ELSE m

Init ==
  /\ chain \in Orders
  /\ pc = [r \in Requests |-> "idle"]
  /\ depth = [r \in Requests |-> 0]
  /\ request = [r \in Requests |->
       [route |-> "plain", loggable |-> FALSE, length |-> 0, breaks |-> Nil]]
  /\ offset = [r \in Requests |-> 0]
  /\ logged = [r \in Requests |-> [bytes |-> 0, truncated |-> FALSE]]
  /\ gone = [r \in Requests |-> FALSE]
  /\ writer = [r \in Requests |-> [status |-> 200, size |-> -1, sse |-> FALSE]]
  /\ kept = [r \in Requests |-> 0]
  /\ failed = [r \in Requests |-> FALSE]
  /\ active = 0
  /\ lines = [r \in Requests |-> <<>>]
  /\ measured = [r \in Requests |-> <<>>]
  /\ panicked = [r \in Requests |-> "none"]
  /\ read = [r \in Requests |-> [from |-> 0, to |-> 0, eof |-> FALSE]]
  /\ sent = [r \in Requests |-> [tried |-> 0, lost |-> 0]]
  /\ steps = [r \in Requests |-> 0]

----------------------------------------------------------------------------
(* The way in *)

Goto(r, from, to) == pc[r] = from /\ pc' = [pc EXCEPT ![r] = to]

\* A body of the given length, or one whose reading breaks after some bytes.
Arrive(r, route, loggable, length, breaks) ==
  /\ Goto(r, "idle", "down")
  /\ depth' = [depth EXCEPT ![r] = 1]
  /\ breaks \in (0..length) \cup {Nil}
  /\ request' = [request EXCEPT ![r] =
       [route |-> route, loggable |-> loggable, length |-> length, breaks |-> breaks]]
  /\ UNCHANGED <<chain, offset, logged, gone, output, records, history>>

At(r, mw) == depth[r] \in DOMAIN chain /\ chain[depth[r]] = mw

Enter(r, mw) ==
  /\ pc[r] = "down" /\ At(r, mw)
  /\ depth' = [depth EXCEPT ![r] = @ + 1]

\* Quiet routes, the probes and the scrape, are skipped.
Measures(r) == request[r].route # "quiet"

EnterMetrics(r) ==
  /\ Enter(r, "metrics")
  /\ active' = IF Measures(r) THEN active + 1 ELSE active
  /\ UNCHANGED <<chain, pc, inside, gone, output, lines, measured, history>>

\* Variant: what was read is not put back.
CaptureRequestBody_Consumes(r) ==
  LET q == request[r] IN
    IF ~q.loggable \/ q.length = 0
      THEN UNCHANGED <<offset, logged>>
      ELSE /\ logged' = [logged EXCEPT ![r] =
                [bytes |-> AtMost(q.length, Cap), truncated |-> q.length > Cap]]
           /\ offset' = [offset EXCEPT ![r] = AtMost(q.length, Cap + 1)]

\* Reads up to one byte past the cap and puts it back, unless the reading
\* breaks before: what was read by then is gone.
CaptureRequestBody(r) ==
  LET q == request[r]
      head == AtMost(q.length, Cap + 1)
  IN
    CASE ~q.loggable \/ q.length = 0 -> UNCHANGED <<offset, logged>>
      [] q.loggable /\ q.length > 0 /\ q.breaks \in 0..Cap ->
           offset' = [offset EXCEPT ![r] = q.breaks] /\ UNCHANGED logged
      [] OTHER ->
           /\ logged' = [logged EXCEPT ![r] =
                [bytes |-> AtMost(head, Cap), truncated |-> head > Cap]]
           /\ UNCHANGED offset

EnterLogger(r) ==
  /\ Enter(r, "logger")
  /\ CaptureRequestBody(r)
  /\ UNCHANGED <<chain, pc, request, gone, output, records, history>>

EnterRecovery(r) ==
  /\ Enter(r, "recovery")
  /\ UNCHANGED <<chain, pc, inside, gone, output, records, history>>

----------------------------------------------------------------------------
(* The handler *)

Handles(r) == pc[r] = "down" /\ depth[r] = Len(chain) + 1

Acts(r) ==
  /\ Handles(r) /\ steps[r] < MaxSteps
  /\ steps' = [steps EXCEPT ![r] = @ + 1]

Written(r) == writer[r].size # -1

\* gin: a status is not changed once the header is out.
WithStatus(w, code) == IF w.size = -1 THEN [w EXCEPT !.status = code] ELSE w

\* gin: the header goes out with the first write, flush, or at the end.
HeaderOut(w) == [w EXCEPT !.size = AtLeast(@, 0)]

SetStatus(r, code) ==
  /\ Acts(r)
  /\ writer' = [writer EXCEPT ![r] = WithStatus(@, code)]
  /\ UNCHANGED <<chain, pc, depth, inside, gone, kept, failed, records, panicked, read, sent>>

\* Content-Type: text/event-stream
SetEventStream(r) ==
  /\ Acts(r) /\ ~Written(r)
  /\ writer' = [writer EXCEPT ![r].sse = TRUE]
  /\ UNCHANGED <<chain, pc, depth, inside, gone, kept, failed, records, panicked, read, sent>>

Flush(r) ==
  /\ Acts(r)
  /\ writer' = [writer EXCEPT ![r] = HeaderOut(@)]
  /\ UNCHANGED <<chain, pc, depth, inside, gone, kept, failed, records, panicked, read, sent>>

\* Variant: the body of every response.
Record_Always(r, n) == kept' = [kept EXCEPT ![r] = AtMost(Cap, @ + n)]

\* Variant: no cap.
Record_Uncapped(r, n) ==
  kept' = IF writer[r].status < 400 \/ ~Has("logger") THEN kept
          ELSE [kept EXCEPT ![r] = @ + n]

\* responseRecorder.record: the body of failed responses only, up to the cap.
Record(r, n) ==
  kept' = IF writer[r].status < 400 \/ ~Has("logger") THEN kept
          ELSE [kept EXCEPT ![r] = AtMost(Cap, @ + n)]

\* streamWriter.observe, as far as errors go.
Observe(r, n, taken) ==
  failed' = [failed EXCEPT ![r] =
    @ \/ (taken < n /\ writer[r].sse /\ Has("metrics") /\ Measures(r))]

\* A write of n bytes, `taken' of them accepted: fewer is an error.
Write(r, n, taken) ==
  /\ Acts(r)
  /\ Record(r, n)
  /\ Observe(r, n, taken)
  /\ writer' = [writer EXCEPT ![r].size = AtLeast(@, 0) + taken]
  /\ sent' = [sent EXCEPT ![r] = [tried |-> @.tried + n, lost |-> @.lost + (n - taken)]]
  /\ UNCHANGED <<chain, pc, depth, inside, gone, records, panicked, read>>

\* Reads the body to its end or to the error.  Errors of a body are sticky.
ReadBody(r) ==
  /\ Acts(r)
  /\ read' = [read EXCEPT ![r] =
       [from |-> offset[r],
        to |-> IF request[r].breaks = Nil THEN request[r].length ELSE request[r].breaks,
        eof |-> request[r].breaks = Nil]]
  /\ UNCHANGED <<chain, pc, depth, inside, gone, output, records, panicked, sent>>

\* A broken pipe is a panic gin's recovery does not answer.
Panic(r, kind) ==
  /\ Handles(r)
  /\ Goto(r, "down", "panic")
  /\ depth' = [depth EXCEPT ![r] = Len(chain)]
  /\ panicked' = [panicked EXCEPT ![r] = kind]
  /\ UNCHANGED <<chain, inside, gone, output, records, read, sent, steps>>

Return(r) ==
  /\ Handles(r)
  /\ Goto(r, "down", "up")
  /\ depth' = [depth EXCEPT ![r] = Len(chain)]
  /\ UNCHANGED <<chain, inside, gone, output, records, history>>

\* net/http cancels the context when the client disconnects.
ClientLeaves(r) ==
  /\ pc[r] \in {"down", "up", "panic"} /\ ~gone[r]
  /\ gone' = [gone EXCEPT ![r] = TRUE]
  /\ UNCHANGED <<chain, pc, depth, inside, output, records, history>>

----------------------------------------------------------------------------
(* The way out *)

Leave(r, mw, from) ==
  /\ pc[r] = from /\ At(r, mw)
  /\ depth' = [depth EXCEPT ![r] = @ - 1]

LeaveRecovery(r) ==
  /\ Leave(r, "recovery", "up")
  /\ UNCHANGED <<chain, pc, inside, gone, output, records, history>>

\* AbortWithStatus(500), which counts only before the header is out.
Recover(r) ==
  /\ Leave(r, "recovery", "panic")
  /\ pc' = [pc EXCEPT ![r] = "up"]
  /\ writer' = IF panicked[r] = "broken" THEN writer
               ELSE [writer EXCEPT ![r] = HeaderOut(WithStatus(@, 500))]
  /\ UNCHANGED <<chain, inside, gone, kept, failed, records, history>>

LevelFor(status, quiet) ==
  CASE quiet -> "debug"
    [] ~quiet /\ status >= 500 -> "error"
    [] ~quiet /\ status \in 400..499 -> "warn"
    [] OTHER -> "debug"

Line(r) ==
  [status |-> writer[r].status,
   size   |-> AtLeast(writer[r].size, 0),
   level  |-> LevelFor(writer[r].status, request[r].route = "quiet"),
   body   |-> logged[r],
   answer |-> kept[r]]

\* Variant: a call, not a defer.
LogRequest_NotDeferred(r) ==
  /\ \/ Leave(r, "logger", "up")
        /\ lines' = [lines EXCEPT ![r] = Append(@, Line(r))]
     \/ Leave(r, "logger", "panic") /\ UNCHANGED lines
  /\ UNCHANGED <<chain, pc, inside, gone, output, active, measured, history>>

\* Deferred, so it runs when a panic passes as well.
LogRequest(r) ==
  /\ Leave(r, "logger", "up") \/ Leave(r, "logger", "panic")
  /\ lines' = [lines EXCEPT ![r] = Append(@, Line(r))]
  /\ UNCHANGED <<chain, pc, inside, gone, output, active, measured, history>>

\* Variant: the context is not asked.
Outcome_WritesOnly(r) == IF failed[r] THEN "client_closed" ELSE "completed"

\* streamMetrics.record: how a stream ended.
Outcome(r) == IF failed[r] \/ gone[r] THEN "client_closed" ELSE "completed"

\* An event stream is recorded as a stream, anything else as a request.
Measurements(r) ==
  IF writer[r].sse
    THEN <<[kind |-> "stream", status |-> writer[r].status, size |-> 0,
            outcome |-> Outcome(r)]>>
    ELSE <<[kind |-> "request", status |-> writer[r].status,
            size |-> AtLeast(writer[r].size, 0), outcome |-> "none"]>>

LeaveMetrics(r) ==
  /\ Leave(r, "metrics", "up")
  /\ active' = IF Measures(r) THEN active - 1 ELSE active
  /\ measured' = IF Measures(r)
                   THEN [measured EXCEPT ![r] = @ \o Measurements(r)] ELSE measured
  /\ UNCHANGED <<chain, pc, inside, gone, output, lines, history>>

\* Variant: the count is taken back after Next, not deferred.
UnwindMetrics_NotDeferred(r) ==
  /\ Leave(r, "metrics", "panic")
  /\ UNCHANGED <<chain, pc, inside, gone, output, records, history>>

\* A panic nobody recovered: only the deferred count.
UnwindMetrics(r) ==
  /\ Leave(r, "metrics", "panic")
  /\ active' = IF Measures(r) THEN active - 1 ELSE active
  /\ UNCHANGED <<chain, pc, inside, gone, output, lines, measured, history>>

\* gin writes the header if nobody has; net/http drops the connection of a
\* panic that reaches it.
Answer(r) ==
  /\ depth[r] = 0
  /\ \/ /\ Goto(r, "up", "answered")
        /\ writer' = [writer EXCEPT ![r] = HeaderOut(@)]
     \/ Goto(r, "panic", "torn") /\ UNCHANGED writer
  /\ UNCHANGED <<chain, depth, inside, gone, kept, failed, records, history>>

Next ==
  \E r \in Requests :
    \/ \E route \in {"plain", "quiet"}, loggable \in BOOLEAN, length \in Lengths :
         \E breaks \in Lengths \cup {Nil} : Arrive(r, route, loggable, length, breaks)
    \/ EnterMetrics(r) \/ EnterLogger(r) \/ EnterRecovery(r)
    \/ \E code \in Codes : SetStatus(r, code)
    \/ SetEventStream(r) \/ Flush(r) \/ ReadBody(r)
    \/ \E n \in Chunks : \E taken \in 0..n : Write(r, n, taken)
    \/ \E kind \in {"plain", "broken"} : Panic(r, kind)
    \/ Return(r) \/ ClientLeaves(r)
    \/ LeaveRecovery(r) \/ Recover(r) \/ LogRequest(r)
    \/ LeaveMetrics(r) \/ UnwindMetrics(r) \/ Answer(r)

Spec == Init /\ [][Next]_vars
----------------------------------------------------------------------------
(* Correctness *)

TypeOK ==
  /\ chain \in Orders
  /\ pc \in [Requests -> {"idle", "down", "up", "panic", "answered", "torn"}]
  /\ depth \in [Requests -> 0..(Len(chain) + 1)]
  /\ request \in [Requests -> [route : {"plain", "quiet"}, loggable : BOOLEAN,
                               length : Nat, breaks : Nat \cup {Nil}]]
  /\ offset \in [Requests -> Nat]
  /\ logged \in [Requests -> [bytes : 0..Cap, truncated : BOOLEAN]]
  /\ gone \in [Requests -> BOOLEAN]
  /\ writer \in [Requests -> [status : Codes, size : Nat \cup {-1}, sse : BOOLEAN]]
  /\ kept \in [Requests -> 0..Cap]
  /\ failed \in [Requests -> BOOLEAN]
  /\ active \in Int
  /\ lines \in [Requests -> Seq([status : Codes, size : Nat,
                                 level : {"debug", "warn", "error"},
                                 body : [bytes : 0..Cap, truncated : BOOLEAN],
                                 answer : 0..Cap])]
  /\ measured \in [Requests -> Seq([kind : {"request", "stream"}, status : Codes,
                                    size : Nat,
                                    outcome : {"none", "completed", "client_closed"}])]
  /\ panicked \in [Requests -> {"none", "plain", "broken"}]
  /\ read \in [Requests -> [from : Nat, to : Nat, eof : BOOLEAN]]
  /\ sent \in [Requests -> [tried : Nat, lost : Nat]]
  /\ steps \in [Requests -> 0..MaxSteps]

Ended(r) == pc[r] \in {"answered", "torn"}

\* The request is between the two Adds of active_requests.
InFlight(r) ==
  Measures(r) /\ \E i \in DOMAIN chain :
    /\ chain[i] = "metrics"
    /\ \/ pc[r] = "down" /\ depth[r] > i
       \/ pc[r] \in {"up", "panic"} /\ depth[r] >= i

\* active_requests counts the requests in flight, in whatever order the
\* middlewares are registered and even if nobody recovers a panic.
ActiveIsInFlight == active = Cardinality({r \in Requests : InFlight(r)})

\* "One `Request handled` line per request", also for one whose panic nobody
\* recovers, wherever RequestLogger is registered.
OneLinePerRequest ==
  \A r \in Requests : Ended(r) /\ Has("logger") => Len(lines[r]) = 1

\* With the middlewares of Server, the access line and the measurements are taken
\* before gin sends the header of a response nobody wrote to, and after a panic
\* was answered: they still have the status and the size the client got.  A
\* request is measured exactly once, as a request or as a stream, and a probe or
\* a scrape never.
RecordedAsAnswered ==
  chain \in Served => \A r \in Requests : pc[r] = "answered" =>
    /\ \E i \in DOMAIN lines[r] :
         lines[r][i].status = writer[r].status /\ lines[r][i].size = writer[r].size
    /\ IF Has("metrics") /\ Measures(r)
         THEN /\ Len(measured[r]) = 1
              /\ measured[r][1].status = writer[r].status
              /\ measured[r][1].kind = "request" => measured[r][1].size = writer[r].size
         ELSE measured[r] = <<>>

\* The access line shows the beginning of the body of a failed response and
\* nothing of any other, though the recorder looks at the status before each
\* write and the handler may change its mind about the status in between.
FailureBodyKept ==
  \A r \in Requests : Has("logger") =>
    kept[r] = IF Written(r) /\ writer[r].status >= 400
                THEN AtMost(Cap, sent[r].tried) ELSE 0

\* At the moment a stream is recorded, it is recorded as completed if every byte
\* of it was taken and its client is still there, and as left by the client in
\* every other case: whether a write failed, the client left without one, or both.
StreamOutcomeIsTrue ==
  [][\A r \in Requests : \A i \in DOMAIN measured'[r] \ DOMAIN measured[r] :
       measured'[r][i].kind = "stream" =>
         measured'[r][i].outcome =
           IF sent[r].lost = 0 /\ ~gone[r] THEN "completed" ELSE "client_closed"]_measured

\* Logging does not eat the body: a handler that gets to the end of it without
\* an error has read all of it, at the cap, past it and below it.  The line
\* shows a body that fits whole, one that does not up to the cap, and says which
\* of the two it is.
BodyIsLoggedAndLeft ==
  \A r \in Requests :
    /\ read[r].eof => read[r].from = 0 /\ read[r].to = request[r].length
    /\ \A i \in DOMAIN lines[r] : request[r].loggable /\ request[r].breaks = Nil =>
         lines[r][i].body = [bytes |-> AtMost(request[r].length, Cap),
                             truncated |-> request[r].length > Cap]
=============================================================================
