-------------------------------- MODULE Calls --------------------------------
(***************************************************************************)
(* A request that travels through services built with gospine: the handler *)
(* of each calls the next one with svcclient, over the shared httpclient,  *)
(* or pings it for its own /status.                                        *)
(*                                                                         *)
(* A frame is one request being served by one service.  The outside sends  *)
(* the first; each call makes another, one level down, and `child' is the  *)
(* one of the last call.  A call that was given up leaves its frame        *)
(* behind, to go on until it notices.  At the last level stands anything:  *)
(* a service that may hang for ever.                                       *)
(*                                                                         *)
(* Clocks are not modelled: a timer may pass at any moment after it was    *)
(* set, so the timeouts may stand in any relation to one another.          *)
(***************************************************************************)
EXTENDS Integers, Sequences

CONSTANTS Depth,       \* services in a row
          MaxFrames,   \* bound: requests served, calls repeated by a handler included
          Statuses,    \* what handlers answer of their own accord
          None,        \* no X-Request-ID
          Clean, Dirty \* one that sanitizeCorrelationID keeps, and one it refuses

ASSUME DepthAssumption == Depth \in Nat \ {0} /\ MaxFrames \in Nat \ {0}
ASSUME StatusAssumption == Statuses \subseteq 100..599
ASSUME HeaderAssumption ==
  /\ {None, Clean, Dirty} \cap Nat = {}
  /\ None # Clean /\ None # Dirty /\ Clean # Dirty

VARIABLES frames,  \* one record for each request served, see Frame
          left     \* the outside does not wait for its answer any more
vars == <<frames, left>>

Frame ==
  [parent : 0..MaxFrames,             \* whose call it serves, 0 for the outside
   level  : 1..Depth,
   route  : {"api", "status", "health"},
   header : Nat \cup {None, Clean, Dirty}, \* X-Request-ID
   pc     : {"sent", "handling", "calling", "reading", "sending", "answered", "torn"},
   id     : Nat \cup {None},          \* of the request
   caller : Nat \cup {None, Clean},   \* its correlation id
   head   : {0} \cup 100..599,        \* the status that went out, 0 before
   child  : 0..MaxFrames,             \* the frame of its last call
   heard  : {0} \cup 100..599,        \* the status that came in of it, 0 before
   result : {"none", "ok", "status", "timeout", "failed"}] \* of that call

Received(parent, level, route, header) ==
  [parent |-> parent, level |-> level, route |-> route, header |-> header,
   pc |-> "sent", id |-> None, caller |-> None, head |-> 0,
   child |-> 0, heard |-> 0, result |-> "none"]

Init ==
  /\ \E route \in {"api", "status", "health"}, header \in {None, Clean, Dirty} :
       frames = <<Received(0, 1, route, header)>>
  /\ left = FALSE

At(f, pcs) == f \in DOMAIN frames /\ frames[f].pc \in pcs
Ended(f) == At(f, {"answered", "torn"})
Callee(f) == frames[frames[f].child]
Success(status) == status \in 200..299
Sets(f, frame) == frames' = [frames EXCEPT ![f] = frame] /\ UNCHANGED left

----------------------------------------------------------------------------
(* httpserver: the request's ids *)

\* Variant: any header will do.
SanitizeCorrelationID_Any(header) == header

\* TrimSpace, the length and the characters.
SanitizeCorrelationID(header) == IF header = Dirty THEN None ELSE header

\* Variant: the id of the caller is taken over.
AttachRequestID_Trusting(f) ==
  /\ At(f, {"sent"})
  /\ Sets(f, [frames[f] EXCEPT !.pc = "handling",
       !.id = IF frames[f].header \in Nat THEN frames[f].header ELSE f,
       !.caller = SanitizeCorrelationID(frames[f].header)])

\* An id of its own, so it names exactly one request; the caller's is kept as
\* the correlation id.  rand.Text never repeats itself: the frame's number.
AttachRequestID(f) ==
  /\ At(f, {"sent"})
  /\ Sets(f, [frames[f] EXCEPT !.pc = "handling",
       !.id = f, !.caller = SanitizeCorrelationID(frames[f].header)])

----------------------------------------------------------------------------
(* svcclient: a call *)

\* A handler calls as often as it likes; the status handler pings once.
MayCall(f) ==
  /\ At(f, {"handling"}) /\ frames[f].level < Depth
  /\ frames[f].route = "api" \/ (frames[f].route = "status" /\ frames[f].result = "none")

\* requestIDForwarder: the id of the request being served, unless the handler
\* set the header itself.
RoundTrip(f, set) == IF set # None THEN set ELSE frames[f].id

\* Do, as far as the request going out; Ping asks for /health.
Do(f, set) ==
  LET child == Len(frames) + 1
      route == IF frames[f].route = "status" THEN "health" ELSE "api"
  IN
    /\ MayCall(f) /\ child <= MaxFrames
    /\ set = None \/ frames[f].route = "api"
    /\ frames' = Append(
         [frames EXCEPT ![f] = [@ EXCEPT !.pc = "calling",
            !.child = child, !.heard = 0, !.result = "none"]],
         Received(f, frames[f].level + 1, route, RoundTrip(f, set)))
    /\ UNCHANGED left

\* Do that never gets to send: the body, the target, the connection.
NotSent(f) ==
  /\ MayCall(f)
  /\ Sets(f, [frames[f] EXCEPT !.child = 0, !.heard = 0, !.result = "failed"])

GetHead(f) ==
  /\ At(f, {"calling"}) /\ Callee(f).head # 0
  /\ Sets(f, [frames[f] EXCEPT !.pc = "reading", !.heard = Callee(f).head])

Return(f, result) == Sets(f, [frames[f] EXCEPT !.pc = "handling", !.result = result])

\* Variant: the error of reading is dropped for every answer.
Interrupted_Dropped(f, failure) ==
  IF frames[f].pc = "calling" THEN failure
  ELSE IF Success(frames[f].heard) THEN "ok" ELSE "status"

\* Variant: the error of reading counts for every answer.
Interrupted_Kept(f, failure) == failure

\* What a call returns that breaks: its error, but the status of a failed
\* answer, however little of the body was read.
Interrupted(f, failure) ==
  IF frames[f].pc = "reading" /\ ~Success(frames[f].heard) THEN "status" ELSE failure

\* A 2xx answer, read to its end.  A JSON one may fail to decode.
ReadAll(f) ==
  /\ At(f, {"reading"}) /\ Success(frames[f].heard) /\ Callee(f).pc = "answered"
  /\ \E result \in {"ok"} \cup (IF frames[f].route = "api" THEN {"failed"} ELSE {}) :
       Return(f, result)

\* Any other, of which maxErrorBody is all that is read.
ReadHead(f) ==
  /\ At(f, {"reading"}) /\ ~Success(frames[f].heard)
  /\ Return(f, "status")

\* Variant: the timeout of the transport, which ends with the header.
Timeout_HeaderOnly(f) == At(f, {"calling"}) /\ Return(f, "timeout")

\* The timeout of the client or of the ping, the reading of the body included.
Timeout(f) ==
  /\ At(f, {"calling", "reading"})
  /\ Return(f, Interrupted(f, "timeout"))

\* Nobody waits for the request being served: the server notices and cancels
\* its context, and the call with it.
Cancel(f) ==
  LET parent == frames[f].parent IN
    /\ At(f, {"calling", "reading"})
    /\ IF parent = 0 THEN left
       ELSE frames[parent].child # f \/ ~At(parent, {"calling", "reading"})
    /\ Return(f, Interrupted(f, "failed"))

\* The connection breaks, before the header or within the body.
Break(f) ==
  /\ At(f, {"calling", "reading"}) /\ Callee(f).pc = "torn"
  /\ Return(f, Interrupted(f, "failed"))

----------------------------------------------------------------------------
(* The answer *)

IsNotFound(f) == frames[f].result = "status" /\ frames[f].heard = 404

IsTimeout(f) ==
  frames[f].result = "timeout" \/ (frames[f].result = "status" /\ frames[f].heard = 504)

\* The messages of UpstreamSpec may be set or not.
Upstream(f) ==
  {502} \cup (IF IsNotFound(f) THEN {404} ELSE {}) \cup (IF IsTimeout(f) THEN {504} ELSE {})

\* /status: a service without a probe is at the last level.
StatusOf(f) == IF frames[f].level = Depth \/ frames[f].result = "ok" THEN 200 ELSE 503

\* What a handler may answer: it hands the failure of its last call to Upstream.
Answers(f) ==
  CASE frames[f].route = "health" -> {200}
    [] frames[f].route = "status" -> IF MayCall(f) THEN {} ELSE {StatusOf(f)}
    [] OTHER -> IF frames[f].result \in {"none", "ok"} THEN Statuses ELSE Upstream(f)

\* The header goes out.
Answer(f) ==
  /\ At(f, {"handling"})
  /\ \E status \in Answers(f) : Sets(f, [frames[f] EXCEPT !.pc = "sending", !.head = status])

Finish(f) ==
  /\ At(f, {"sending"})
  /\ Sets(f, [frames[f] EXCEPT !.pc = "answered"])

\* The handler wants to answer, but writeTimeout has passed: what was not sent
\* goes nowhere.
WriteTimeout(f) ==
  /\ At(f, {"handling", "sending"})
  /\ Sets(f, [frames[f] EXCEPT !.pc = "torn"])

Leave ==
  /\ ~left /\ ~Ended(1)
  /\ left' = TRUE
  /\ UNCHANGED frames

\* A service dies, and all it serves; it is started again.
Crash(level) ==
  /\ \E f \in DOMAIN frames : frames[f].level = level /\ ~Ended(f)
  /\ frames' = [f \in DOMAIN frames |->
       IF frames[f].level = level /\ ~Ended(f) THEN [frames[f] EXCEPT !.pc = "torn"]
       ELSE frames[f]]
  /\ UNCHANGED left

Serve(f) ==
  \/ AttachRequestID(f) \/ NotSent(f) \/ Answer(f) \/ Finish(f)
  \/ \E set \in {None, Clean} : Do(f, set)

Next ==
  \/ \E f \in 1..MaxFrames :
       \/ Serve(f) \/ GetHead(f) \/ ReadAll(f) \/ ReadHead(f)
       \/ Timeout(f) \/ Cancel(f) \/ Break(f) \/ WriteTimeout(f)
  \/ \E level \in 1..Depth : Crash(level)
  \/ Leave

Waits(f) == f \in DOMAIN frames /\ frames[f].level < Depth

\* Handlers that wait for nothing go on, and timers run; the service at the
\* last level promises nothing, and no connection has to break.
Fairness ==
  \A f \in 1..MaxFrames : WF_vars((Waits(f) /\ Serve(f)) \/ Timeout(f))

Spec == Init /\ [][Next]_vars /\ Fairness

----------------------------------------------------------------------------
(* Correctness *)

TypeOK ==
  /\ left \in BOOLEAN
  /\ Len(frames) \in 1..MaxFrames
  /\ \A f \in DOMAIN frames : frames[f] \in Frame

\* "So a failure can be followed across the hop": what a service logs as the
\* correlation id is the id its caller logs, and no other request has it, be it
\* a repeated call or one that was given up.  Only a handler that sets the
\* header itself takes that upon it.
HopIsTraceable ==
  \A f, g \in DOMAIN frames : frames[f].id # None /\ frames[g].id # None =>
    /\ frames[f].id = frames[g].id => f = g
    /\ frames[f].caller = frames[g].id => frames[f].parent = g
    /\ frames[f].parent = g => frames[f].caller \in {frames[g].id, Clean}

\* The frames with a reason to tell a status: they answered it of their own
\* accord, ran out of time before they had heard of a failure, or were told the
\* status by one of these.  The least such set.
Reason(status) ==
  LET Own(f) == \/ frames[f].result \in {"none", "ok"} /\ frames[f].head = status
                \/ /\ frames[f].result = "timeout" /\ status = 504
                   /\ frames[f].heard = 0 \/ Success(frames[f].heard)
      Told(f, who) ==
        frames[f].result = "status" /\ frames[f].child \in who /\ Callee(f).head = status
      Closed == {who \in SUBSET DOMAIN frames :
                   \A f \in DOMAIN frames : Own(f) \/ Told(f, who) => f \in who}
  IN  {f \in DOMAIN frames : \A who \in Closed : f \in who}

\* "404 with NotFoundMessage, 504 on a timeout": however many services the
\* failure went through, and whatever broke on the way, a 404 is told only if a
\* service at the end of the calls answered it, and a 504 only if one did or
\* time ran out.  Time that runs out while a failed answer is read does not turn
\* that one into a 504.
ToldAsHappened ==
  \A f \in DOMAIN frames : frames[f].head \in {404, 504} => f \in Reason(frames[f].head)

\* "A 2xx answer, its body read in full": a call that returned without an error
\* was answered to the end, and not by a call given up before.  So was the ping
\* of a service that says it is ready: "200 when status.Probe answers within
\* pingTimeout, 503 otherwise".
SuccessIsWhole ==
  \A f \in DOMAIN frames :
    /\ frames[f].result = "ok" =>
         Callee(f).parent = f /\ Callee(f).pc = "answered" /\ Success(Callee(f).head)
    /\ frames[f].route = "status" /\ Waits(f) /\ frames[f].head = 200 =>
         \E g \in DOMAIN frames : frames[g].parent = f /\ frames[g].pc = "answered"

\* A service that waits for another is never held up by it, though that one
\* hangs before the header or within the body: each request it serves ends.
RequestsEnd == \A f \in 1..MaxFrames : Waits(f) ~> Ended(f)
=============================================================================
