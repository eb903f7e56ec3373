------------------------------ MODULE Lifecycle ------------------------------
(***************************************************************************)
(* The life of a service, from its settings to its end: telemetry.Setup,   *)
(* httpserver.New, Start, a signal, then Shutdown of the HTTP server and   *)
(* of telemetry under one context with a deadline.                         *)
(*                                                                         *)
(* `main' is the main goroutine.  Start leaves ListenAndServe to another   *)
(* goroutine; each request is served on its own, and an event stream may   *)
(* last for ever.  A request is measured when it ends, unless its route is *)
(* quiet; the metrics are cumulative, so a push brings all that is         *)
(* recorded, and one that fails is made good by the next.                  *)
(***************************************************************************)
EXTENDS Routes

CONSTANTS Requests,  \* requests clients send, event streams among them
          Configs    \* settings: [contextPath, enabled, exporter, port, path,
                     \*            interval, endpoint, disableMetrics]

ASSUME ConfigsAssumption ==
  \A c \in Configs : c.contextPath \in Seq(STRING) /\ c.path \in Seq(STRING)

VARIABLES
  cfg,        \* the settings of this service
  main,       \* where the main goroutine is
  signalled,  \* the context of signal.NotifyContext is done
  errors,     \* the shutdowns that have logged an error: "server", "telemetry"
  routes,     \* what the engine serves: [serves, at]
  quiet,      \* the routes left out of the metrics
  listener,   \* "none", "starting", "open" or "closed"
  request,    \* "new", "running", "ended", or "cut" by the end of the process
  target,     \* the route of each request accepted; NoRoute answers 404
  expired,    \* the deadline of the shutdown context has passed
  provider,   \* the MeterProvider: "none", "live" or "down"
  recorded,   \* requests the provider has recorded
  batch,      \* what the last push collected
  pushed      \* requests the collector has been told of

built   == <<cfg, routes, quiet>>
serving == <<listener, request, target>>
metrics == <<provider, recorded, batch, pushed>>
vars == <<built, main, signalled, errors, serving, expired, metrics>>

NoRoute == [serves |-> "nothing", at |-> <<>>]

Alive == main \notin {"stopped", "dead"}
Running == {r \in Requests : request[r] = "running"}

Init ==
  /\ cfg \in Configs
  /\ main = "setup"
  /\ signalled = FALSE
  /\ errors = {}
  /\ routes = {} /\ quiet = {}
  /\ listener = "none"
  /\ request = [r \in Requests |-> "new"]
  /\ target = [r \in Requests |-> NoRoute]
  /\ expired = FALSE
  /\ provider = "none"
  /\ recorded = {} /\ batch = {} /\ pushed = {}

----------------------------------------------------------------------------
(* The main goroutine *)

Goto(from, to) == main = from /\ main' = to

\* The process ends: what still runs is cut.
Exit ==
  request' = [r \in Requests |-> IF request[r] = "running" THEN "cut" ELSE request[r]]

\* telemetry.Setup, fatal when it refuses the settings or fails, nothing while
\* it is disabled; then signal.NotifyContext.
SetupTelemetry ==
  /\ \/ Goto("setup", "ready") /\ ~cfg.enabled /\ UNCHANGED provider
     \/ Goto("setup", "ready") /\ cfg.enabled /\ Validate(cfg) /\ provider' = "live"
     \/ Goto("setup", "dead") /\ cfg.enabled /\ UNCHANGED provider
  /\ UNCHANGED <<built, signalled, errors, serving, expired, recorded, batch, pushed>>

\* httpserver.New, after the clients, which may fail, and the service's own
\* routes on the engine: gin panics when they do not go together.
New ==
  /\ main = "ready"
  /\ quiet' = Quiet(cfg)
  /\ routes' = Routes(cfg)
  /\ IF Unmountable(routes')
       THEN main' = "dead"
       ELSE main' \in {"built", "dead"}
  /\ UNCHANGED <<cfg, signalled, errors, serving, expired, metrics>>

\* Server.Start, which does not wait for the listener.
Start ==
  /\ Goto("built", "waiting")
  /\ listener' = "starting"
  /\ UNCHANGED <<built, signalled, errors, request, target, expired, metrics>>

\* The signal: a context nobody waits for yet is done all the same.
Signal ==
  /\ main \in {"ready", "built", "waiting"} /\ ~signalled
  /\ signalled' = TRUE
  /\ UNCHANGED <<built, main, errors, serving, expired, metrics>>

\* The shutdown context starts to run, and http.Server.Shutdown closes the
\* listener, or keeps one that is only starting from opening.
CloseServer ==
  /\ signalled /\ Goto("waiting", "draining")
  /\ listener' = "closed"
  /\ UNCHANGED <<built, signalled, errors, request, target, expired, metrics>>

\* Variant: http.Server.Close.
Drained_NoWait ==
  /\ Goto("draining", "drained")
  /\ UNCHANGED <<built, signalled, errors, serving, expired, metrics>>

\* Variant: a context without a deadline.
Drained_NoDeadline ==
  /\ Running = {} /\ Goto("draining", "drained")
  /\ UNCHANGED <<built, signalled, errors, serving, expired, metrics>>

\* http.Server.Shutdown returns once nothing runs, or with the deadline's error.
Drained ==
  /\ Goto("draining", "drained")
  /\ \/ Running = {} /\ UNCHANGED errors
     \/ expired /\ errors' = errors \cup {"server"}
  /\ UNCHANGED <<built, signalled, serving, expired, metrics>>

\* The shutdown of telemetry, under the same context: the periodic reader
\* collects a last time, which an expired context refuses ...
Collect ==
  /\ Goto("drained", "exporting")
  /\ \/ ~Pushes(cfg) /\ UNCHANGED <<batch, errors>>
     \/ Pushes(cfg) /\ ~expired /\ batch' = recorded /\ UNCHANGED errors
     \/ Pushes(cfg) /\ expired /\ batch' = {} /\ errors' = errors \cup {"telemetry"}
  /\ UNCHANGED <<built, signalled, serving, expired, provider, recorded, pushed>>

\* ... and exports, for which the collector may be away, or its answer lost;
\* then main returns.
Export ==
  /\ Goto("exporting", "stopped")
  /\ \/ ~Pushes(cfg) /\ UNCHANGED <<pushed, errors>>
     \/ /\ Pushes(cfg) /\ ~expired /\ "telemetry" \notin errors
        /\ pushed' = pushed \cup batch /\ UNCHANGED errors
     \/ /\ Pushes(cfg)
        /\ pushed' \in {pushed, pushed \cup batch} /\ errors' = errors \cup {"telemetry"}
  /\ provider' = IF provider = "live" THEN "down" ELSE provider
  /\ Exit
  /\ UNCHANGED <<built, signalled, listener, target, expired, recorded, batch>>

Main == SetupTelemetry \/ New \/ Start \/ CloseServer \/ Drained \/ Collect \/ Export

----------------------------------------------------------------------------
(* Around it *)

\* ListenAndServe; a port that is taken exits the process.
Listen ==
  /\ Alive /\ listener = "starting"
  /\ \/ listener' = "open" /\ UNCHANGED <<main, request>>
     \/ main' = "dead" /\ Exit /\ listener' = "closed"
  /\ UNCHANGED <<built, signalled, errors, target, expired, metrics>>

Accept(r, to) ==
  /\ Alive /\ listener = "open" /\ request[r] = "new"
  /\ request' = [request EXCEPT ![r] = "running"]
  /\ target' = [target EXCEPT ![r] = to]
  /\ UNCHANGED <<built, main, signalled, errors, listener, expired, metrics>>

\* Metrics is installed when telemetry is on, and skips the quiet routes.
Counted(r) ==
  cfg.enabled /\ ~cfg.disableMetrics /\ target[r].at \notin quiet

\* Metrics records the request on its way out.
End(r) ==
  /\ Alive /\ request[r] = "running"
  /\ request' = [request EXCEPT ![r] = "ended"]
  /\ recorded' = IF provider = "live" /\ Counted(r) THEN recorded \cup {r} ELSE recorded
  /\ UNCHANGED <<built, main, signalled, errors, listener, target, expired, provider,
                 batch, pushed>>

\* The periodic reader, every telemetry.interval.
Push ==
  /\ Alive /\ Pushes(cfg) /\ provider = "live" /\ main # "exporting"
  /\ pushed' = recorded
  /\ UNCHANGED <<built, main, signalled, errors, serving, expired, provider, recorded, batch>>

\* shutdownTimeout passes.
Expire ==
  /\ main \in {"draining", "drained", "exporting"} /\ ~expired
  /\ expired' = TRUE
  /\ UNCHANGED <<built, main, signalled, errors, serving, metrics>>

Next ==
  \/ Main \/ Signal \/ Listen \/ Push \/ Expire
  \/ \E r \in Requests : End(r) \/ \E to \in routes \cup {NoRoute} : Accept(r, to)

\* The main goroutine and the listener run on, and the clock with them.  No
\* handler has to end: a stream is as long as its client likes.
Fairness == WF_vars(Main) /\ WF_vars(Listen) /\ WF_vars(Expire)

Spec == Init /\ [][Next]_vars /\ Fairness

----------------------------------------------------------------------------
(* Correctness *)

TypeOK ==
  /\ cfg \in Configs
  /\ main \in {"setup", "ready", "built", "waiting", "draining", "drained", "exporting",
               "stopped", "dead"}
  /\ signalled \in BOOLEAN
  /\ errors \subseteq {"server", "telemetry"}
  /\ routes \in {{}, Routes(cfg)}
  /\ quiet \in {{}, Quiet(cfg)}
  /\ listener \in {"none", "starting", "open", "closed"}
  /\ request \in [Requests -> {"new", "running", "ended", "cut"}]
  /\ target \in [Requests -> routes \cup {NoRoute}]
  /\ expired \in BOOLEAN
  /\ provider \in {"none", "live", "down"}
  /\ recorded \subseteq Requests
  /\ batch \subseteq recorded
  /\ pushed \subseteq recorded

\* A service that pushes its metrics loses none without saying so: when it has
\* stopped and neither shutdown has logged an error, every request it accepted
\* has ended, and every one it measures has reached the collector, however many
\* pushes failed.  The order of the two shutdowns, and that the first one waits,
\* is what makes it so.
NothingLostSilently ==
  main = "stopped" /\ Pushes(cfg) /\ errors = {} =>
    \A r \in Requests : request[r] # "new" =>
      request[r] = "ended" /\ (Counted(r) => r \in pushed)

\* "/" as telemetry.path below a context path: gin keeps its slash, path.Join
\* does not, and the scrape is measured like any request.
BareScrape == ScrapedOnMain(cfg) /\ cfg.path = Root /\ Base(cfg) # Root

\* What is measured is what clients ask of the service, and all of it: no probe
\* and no scrape, and nothing else is taken for one, whatever contextPath and
\* telemetry.path the service was given.
OnlyProbesAreUncounted ==
  \A r \in Requests :
    provider = "live" /\ ~cfg.disableMetrics /\ ~BareScrape /\ request[r] = "ended" =>
      (r \in recorded <=> target[r].serves \notin Probes)

\* A catch-all next to the probes, "/*any" as telemetry.path: Setup accepts it, and
\* gin panics over it.
GreedyScrape == ScrapedOnMain(cfg) /\ Len(cfg.path) = 2 /\ cfg.path[2] \in CatchAlls

\* Whatever settings Setup accepted, the probes, the scrape and the API have a
\* route each, and neither takes in another's: of two routes that gin refuses to
\* mount together, one is the service's own, unless the scrape is greedy.
NoRouteShadowed ==
  \A x, y \in routes :
    x # y /\ Exclusive(x.at, y.at) => "version" \in {x.serves, y.serves} \/ GreedyScrape

\* A client generated from the document finds the operation where it is served.
AdvertisedIsServed ==
  \A x \in routes : x.serves = "module" =>
    PathJoin(ServerURL(cfg), <<"search", "query">>) = x.at

\* A signal ends the process, though streams may stay open for ever.
SignalStops == signalled ~> ~Alive
=============================================================================
