# gospine in TLA+

gospine is a Go library of building blocks for HTTP services: configuration,
logging, telemetry, an HTTP server and client, paging, and clients for PayloadCMS
and for other services of the same family. This directory holds TLA+ models of
the parts whose behaviour is hard to test, their TLC configurations and their
TLAPS proofs. Each definition is translated from the Go source; `PROJECT.json`
gives the file and the lines of each one.

## The system

| Component | State it keeps | Operations | What makes it hard | What makes it correct |
|---|---|---|---|---|
| telemetry: Setup and shutdown (`telemetry.go`, `server.go`, `exporter.go`) | `setupMu`, `installed`, `generation`, OTel's global provider, the metrics listener, a `sync.Once` per shutdown | `Setup`, the shutdown it returns, `Enabled`, `Handler` | several Setups and shutdowns in a process (tests, restarts of a part); failure at any step; the Serve goroutine | what is installed is up; a failed Setup leaves nothing; shutdown is complete for every caller; nobody waits for ever |
| telemetry: custom metrics (`custom.go`) | a `binding` per counter and histogram; the `gauges` under `gaugesMu`; the seen values of each label | `Add`, `Record`, `Time`, `NewGauge` | lock-free reads of four atomics while Setup and shutdown change them | a cached instrument is on the installed provider; every gauge too; labels stay within their cap and answer consistently |
| pcms: client metrics (`pcms/metrics.go`) | `collections.confirmed` | `record`, once per attempt | concurrent attempts at the cap, caller-chosen names, URLs of every shape | a label is the collection of the call, confirmed before; at most 64; they keep their name |
| httpserver: request pipeline (`middleware.go`, `metrics.go`, `recorder.go`, `server.go`) | per request: writers stacked on one another, captured body, status | `Metrics`, `RequestLogger`, `Recovery`, the handler | panics before and after the first write, early client close | one log line and one measurement per request, agreeing with what was sent |
| httpserver: routes (`server.go`; `telemetry/exporter.go` for the scrape) | the routes and the quiet paths, fixed at construction | `New`, `Setup`'s validation | two packages put paths together from the same settings, by different rules | no route shadows another; probes and scrapes, and only they, are left out of the metrics |
| httpserver: SSE stream (`stream.go`) | newline and event counters of a stream | `Write`, `observe`, `record` | messages split over writes, failing writes | the events counted are the messages sent |
| httpserver: health and status (`health.go`) | none | `/health`, `/status` | a probe that ignores its deadline | 503 unless the probe answers in time |
| service life cycle (`internal/examples/*/main.go`) | one shutdown context for server and telemetry | start, signal, shutdown | a start that fails half-way; the deadline may be spent before telemetry's turn; the collector may be away | nothing is lost without an error being logged; the process ends |
| svcclient (`svcclient.go`, `errors.go`) | none between calls | `Do`, `Upstream` | errors while reading a body, timeouts | each failure is classified once and rightly |
| httpclient | a transport stack, fixed at construction | `New`, `RoundTrip` | repeated and abandoned calls | the request id crosses the hop as documented |
| paging | none | `NewInMemoryPage`, responses | integer width | never outside the slice |
| logging, config, apidoc, CORS, pcms conversions, telemetrytest, pcmstest | none worth a model | | | |

The components meet in few places. `telemetry.Setup` must run before the HTTP
server and client are built, which read `Enabled` and `Handler` then. The
PayloadCMS client, the HTTP server and the custom metrics all record on OTel's
global provider, which Setup replaces. The service shuts the HTTP server down
first and telemetry after it, under one context.

## Modules

| Module | Models | Role |
|---|---|---|
| `Telemetry` | Setup, shutdown, the metrics server, counters, histograms and gauges | specification |
| `MCTelemetry` | instances of it | three `.cfg` files |
| `TelemetryProofs` | types, bindings, gauges, what is installed is up, shutdown, failed Setups | proofs |
| `BoundedNames` | what a metric label promises | abstract specification |
| `Labels` | `definition.attributes` and `label.value` | specification, implements `BoundedNames` |
| `MCLabels`, `LabelsProofs` | | instance, proofs |
| `Collections` | `collections.label` and `clientMetrics.record` | specification |
| `MCCollections`, `CollectionsProofs` | | instances, proofs |
| `Requests` | Metrics, RequestLogger, Recovery around a handler, the capped response body and the errors of a stream | specification |
| `RequestsProofs` | types and every property of `Requests` | proofs |
| `Stream` | `streamWriter.observe`: messages and the first of them | specification |
| `StreamProofs` | types and both properties of `Stream` | proofs |
| `Routes` | where a server mounts what it serves, which of it is quiet, and the settings Setup accepts | operators |
| `Lifecycle` | a service from its settings and Setup to the end of the process | specification, over `Routes` |
| `MCLifecycle`, `LifecycleProofs` | | instances, proofs of the types, of nothing lost silently and of what is served and measured |
| `Calls` | request ids, `svcclient` and its errors, `httpclient`, `/health` and `/status`, over several services | specification |
| `CallsProofs` | types and every safety property of `Calls` | proofs |
| `Paging` | `NormalizePagination`, `NewInMemoryPage`, and a client that walks the pages | specification |
| `MCPaging`, `PagingProofs` | | instances, proofs of the types, of pages and of walks |

Telemetry is at the bottom: `Requests` sees of it only whether Metrics is among
the middlewares, and `Lifecycle` only its settings and whether its provider is live.
`Lifecycle` in turn takes a request for one step, from its acceptance to its end, and
`Requests` says what happens in it.

### Telemetry

A member of `Setups` is one enabled call of `telemetry.Setup`; the same value
stands for its provider, its `*state` and its service name. Each `Setup...` action
is the code between two points another goroutine can observe: the mutex, the
provider, the listener, `otel.SetMeterProvider`, `installed.Store`,
`generation.Add`, `registerGauges`. `Close...` are the steps of the shutdown
closure, whose `sync.Once` lets the first caller run and the others wait.
`Get...` are the loads and the store of `binding.get`, one action each, and
`Record` is the measurement on the instrument it returned. `Gauge...` are the
steps of `NewGauge`, all under `gaugesMu`.

OpenTelemetry itself is external and modelled by what the code relies on: the
default global provider hands out instruments that forward to the first real
provider set, and a provider that was shut down drops what it is given. A
`net.Listener` is closed by `http.Server.Shutdown` only once `Serve` tracks it;
before that it is `Serve` that closes it, when it runs.

`series` and `registered` hold what the providers were given, and `under` in a call
names the Setup that was up when the call began; they are read by properties only.

### Labels and Collections

The critical sections of the two read-write locks are one action each, so what
happens between the read lock and the write lock is interleaved. `answers` in
`Labels`, `succeeded` and `known` in `Collections` are history. A metric has `N`
labels, answered in declaration order; a wrong number of values drops the
measurement and is reported once. `BoundedNames` says what the comment on
`WithLabel` says: the first `Max` names are kept, the others are refused, and each
answer is a single step.

Which collection an attempt is for follows from the URL. A path is the sequence of what
stands between its slashes, so `apiPath`, `Trim` and `collectionFromURL` are the string
operations of `metrics.go` on sequences of names, and "below `/cms/api`" is not
"begins with `/cms/api`"; `segments` are the places of the names that are not empty. A
call has the path of its URL and, apart from it, the collection `of` it, which only
`LabelIsCollection` reads. `CallsAssumption` says how the two belong together: gopcms puts
a URL together from the API path and what the call is of (`LeadsTo`), and a URL that
is not below the API path is of no collection at all.

### Routes

`Clean`, `PathJoin` and `JoinPaths` are `path.Clean`, `path.Join` and the way gin joins a
group's path and a route's, on paths as sequences: the last two differ in a slash at
the end. `Names` walks a path from its beginning, `Enter` being one name of it.
`Validate` is what `telemetry.Setup` accepts; `Quiet`, `Routes` and `ServerURL` are what `New` makes of `contextPath` and `telemetry.path`. The routes
stand for their kinds: the three probes, an operation of a module, and a route a
service adds to the engine by itself, as the search example does with `/version`.

gin reads more into a route than a path: a name that begins with `*` is a catch-all
(`CatchAlls`), which takes in all that follows, and so goes with no route that goes on where
it stands (`Beneath`), and only at the end. `Unmountable` are the routes `New` panics over, for
that or because two are the same. A name that begins with `:` stands beside others and
is a name like any other here; names gin takes nowhere, such as `*` alone, are left out.

### Requests

gin runs the middlewares as nested calls. A request keeps the `depth` it is at and
whether it goes "down" to the handler, "up" after a return, or unwinds in a
"panic", when only deferred code runs: that is why `LogRequest` has both
directions, while Metrics has `LeaveMetrics`, everything after `c.Next()`, and
`UnwindMetrics`, its `defer` alone. The order of the middlewares, `chain`, is chosen
at the start among all sixteen a service with an engine of its own can
register; `Served` are the two orders of `httpserver.Server`. The handler is anything
that sets a status, turns to an event stream, writes, flushes, reads the body,
panics or returns, up to `MaxSteps` things; its client may leave at any moment.

gin and net/http are external and modelled by what the code relies on: the status
is fixed once the header is out, the size is -1 until then, a panic with a broken
pipe is not answered, a panic nobody recovers ends the connection. Bytes are
counted: the body kept for the access line is its length and a flag, the response
body kept by the recorder is its length. `read`, `sent` and `panicked` are history,
and `steps` only carries the bound.

### Stream

`ObserveByte` is the loop body of `observe`, `Write` one write of which any part is
accepted. The text so far is kept, and the properties say what a message is on the
whole of it: a blank line ends one if the line before it is none. That definition
knows nothing of writes or counters. A time is the length of the text at the write.
What the handler sends is what Huma and handlers of event streams send: a carriage
return only before a line feed, no blank line at the very beginning.

### Lifecycle

The `main` function of the examples, which the README gives as the way to build a
service. `cfg` is one of `Configs`, the settings that decide something. `SetupTelemetry`
refuses what `Validate` does, or fails, and is fatal then; `New` builds the routes, and
gin panics over some that do not go together; `Start` leaves `Listen` to another goroutine,
for which a port that is taken ends the process. Then the wait for a signal,
`Server.Shutdown` (`CloseServer`, `Drained`) and the shutdown of telemetry (`Collect`
and `Export` of the reader's last push) under one context, whose deadline may pass at
any moment (`Expire`). `errors` are the shutdowns that logged one.

A request is accepted for one of the routes, or for none, and measured when it ends,
unless Metrics is not installed or its route is quiet (`Counted`). A `Push` that fails
changes nothing and needs no action, metrics being cumulative; the last one may fail,
or reach a collector whose answer is lost, which main cannot tell apart. The dedicated
metrics server is in `Telemetry`, its shutdown included.

### Calls

A frame is one request being served by one service; each call of `svcclient` makes a
frame one level down, and a call that was given up leaves its frame behind, to be
served until the service notices. `Do` and `NotSent` begin a call, `GetHead` is the
return of `http.Client.Do`, and `ReadAll`, `ReadHead`, `Timeout`, `Cancel` and
`Break` are the ways in which the code after it ends. What a call returned is kept by
its kind, `result`, and `heard` is the status that came in, of a `StatusError` too. A
handler hands the failure of its last call to `Upstream`, whose messages may be set or
not, or calls again. `/status` pings the next service, as a `svcclient.Client`
does, and at the last level it has no probe; a probe of another kind that does not look
at its context would keep it waiting, which is not modelled. `Crash` ends all that a
service serves; it is started again and serves what comes next.

There are no clocks: a timer may pass at any moment after it was set, so the model
covers client, ping and write timeouts in every relation to one another. Request ids
are the frames' numbers, for `rand.Text` does not repeat itself.

### Paging

`docs` is the listing, `asked` the numbers the client sent, `page` the envelope it
got. `Serve` is a listing's handler: normalise, cut, answer. `Wrap` is the
arithmetic of an int of `MaxInt`; a slice whose bounds do not fit panics. `Follow` is
a client that asks for the next page as long as there is one.

### Variants

The actions named `X_Something`, with a comment that begins with `Variant`, are
not part of any specification. Each is `X` with a plausible mistake, kept so that the
property that would catch it can be seen to do so.

## What the runs show

| Run | Bounds | Shows |
|---|---|---|
| `rebind` | 2 Setups on one port, 1 closing goroutine, 2 recorders, 1 metric | a binding `get` would use is on the installed provider under its service name; what is measured while a Setup is up reaches it; what is installed is up; a failed Setup leaves nothing |
| `setups` | 2 Setups, one on a port of its own, 2 closing goroutines, 1 gauge | a declared gauge is registered on the installed provider; shutdown is complete for each caller; only a Setup's own shutdown uninstalls it; every begun Setup and shutdown returns; the port of a failed or closed Setup is freed |
| `scope` | 1 Setup, 1 closing goroutine, 1 recorder | fails, see Findings |
| `labels` | 2 callers, 3 values, a free and a restricted label, room for 2 | `NameOrOther`, `SeriesBounded`, the refinement of `BoundedNames` |
| `collections` | 2 attempts at a time, 8 URLs of 4 collections and globals and 4 outside the API path, room for 2, 6 status codes | `OnlySuccessIsNamed`, `NamesBounded`, `KnownKeepsName`, `LabelIsCollection` |
| `collections_race` | 3 collections, otherwise the same | fails, see Findings |
| `served` | 1 request, 16 orders of middlewares, a body of none, 3 or 4 bytes or one that breaks, writes of 0 or 2 bytes, a cap of 3, 3 things a handler does | one line and one measurement per request, as answered; `active_requests`; the bodies kept; the outcome of a stream |
| `pieces` | texts up to 10 bytes, writes up to 3 | the events counted are the messages sent; the first one is timed, once |
| `stop` | 2 requests; 7 context paths, each with 15 scrape paths, 3 ports, 6 settings of OTLP, telemetry off and an unknown exporter | a stop without an error lost nothing; probes and scrapes are not measured, all else is; no route shadows another; operations are where the document says; a signal ends the process |
| `hops` | 3 services in a row, 3 frames, handlers that answer 200, 404 or 504 by themselves | types; a request id names one request and leads to its caller; a 404 or 504 is told as it happened; a success was read whole; `/status` is 200 only if the ping was served; no request waits for ever |
| `walk` | listings of up to 6 documents, every page and limit of a 5-bit int, limits 2 by default and 4 at most | a page describes itself; a walk sees every document once, in order, and ends; a page that exists is cut right |
| `wide` | listings of up to 3 documents, a 4-bit int | fails, see Findings |

Bounds. Two Setups are needed for anything to be stale: one to bind to and one to
overtake it, or to fail while the other is up. Each Setup is one call, so the
generation is at most twice their number and needs no bound of its own. Two
recorders suffice for one to overwrite the binding of another. In `rebind`,
`series` is left out of the fingerprint by a view: no guard and none of its
properties reads it. A cap of two with three values lets callers race for the last
place, and be refused afterwards; the code's caps are 100 and 64. The status codes
are both sides of both bounds of a success, an error, and no response. Two attempts at a
time are enough for the window between the two locks, and each begins again and again.
The base URL and the API prefix have slashes at their ends, to be trimmed; the URLs
outside are one above, one beside, one that only begins alike, and one unparsed.

Requests share nothing but `active_requests`, a sum; one request is enough for the
rest, and the theorem `ActiveCounts` speaks of any number. Bodies of 3 and 4 bytes are the
cap and one past it, one of none has nothing to put back, and breaking reads give every prefix; two writes of 2 pass
the cap. Three things are enough to set a status, write, and set another. Ten bytes
hold three messages, or one with every carriage return between its line feeds; writes
of up to three split the end of a message at every place. Two requests are one that
has ended and one that has not; a third adds nothing, for `NothingLostSilently` is proved
for any number. The context paths are those found in configurations: none, the root,
with and without slashes, with dots in it, and one that ends in `api`; the scrape
paths are both sides of each thing `validate` refuses, routes that exist, and catch-alls
next to the probes, below one, alone below a name, and not at the end. Three frames are a chain
through all services, or a service that calls the next one twice, the first call given
up. Every number a client can send is enumerated for the width of int, which makes the
overflow of a large page happen.

Recorders, callers and attempts are interchangeable and symmetric; no run with a
liveness property uses symmetry.

Deadlock is checked in `rebind`, `labels` and `collections`, where somebody can
always record. In the others there is an end: no more Setup, shutdown or gauge to
call, a request answered, a text at its bound, a process that exited, a walk that is over.

Fairness. In `Telemetry`, weak fairness on each goroutine's next step once it has
begun a call: Go schedules every runnable goroutine, and `sync.Mutex` starves nobody
(each Setup and each NewGauge takes its mutex once, so weak fairness is enough).
Beginning a call is never fair: nothing makes a service call Setup or shutdown. In
`Lifecycle`, the main goroutine, the one of ListenAndServe and the clock go on; no
handler has to end, and no push has to succeed. In `Calls`, services that wait for another go on when they wait for
nothing, and their timers run; the service at the last level may hang for ever, and no
connection has to break. In `Paging`, the server answers, and the client goes on while it
is told that a page follows.

## Findings

* `scope`: the README says of the custom metrics that "Series carry
  `otel_scope_name` set to the service name". Setup sets the global provider before
  it stores the state `scope()` reads, and shutdown clears that state before the
  provider is down: a recording in either window is collected under the scope
  `gospine`. `MeasurementReachesSetup` is what does hold: a recording that lies between the
  bump of a Setup's generation and its shutdown.
* `collections_race`: `collections.label` does not look the name up again under the
  write lock, as `label.value` does. Two first successes for one collection taking the last place:
  the second finds the cap reached and is labelled `_OTHER`, though the name is
  confirmed. `KnownKeepsName` is what does hold: an attempt that begins after a
  measurement under the name keeps it.
* `wide`: `NewInMemoryPage` "cuts the requested page out of a full result set", and its
  test has a page past the end be empty. `(page-1)*limit` overflows for a large page:
  the slice panics, or holds documents of another page.

More disagreements were met while modelling and have no run of their own:

* The sentence of `scope` holds of gauges no better, and its failure lasts longer. `NewGauge`
  sees a Setup installed, reads the scope when its shutdown has cleared the state, and the
  provider when the next Setup has set its own: the gauge is registered there under
  `gospine`, `registerGauges` registers it once more under the service name, and the new
  provider exports both until it is shut down. In `Telemetry` these are
  `GaugeEnabled`, `CloseUninstall`, `GaugeScope`, `SetupProvide`, `GaugeRegister` and
  `SetupGauges`, in this order; `GaugesFollowSetup` speaks of the second registration.
* The README has `Upstream` answer "504 on a timeout (the client's ...)". By the
  defaults it gives, a call times out after 10 s (`clientTimeout`) and the server's
  write deadline is 5 s (`writeTimeout`): the 504 is written to a connection past its
  deadline, and the caller sees it break. `WriteTimeout` in `Calls` is that step.
* `IsTimeout` "reports whether the call ran out of time, on either side"; a call that
  does so while the body of a failed answer is read is reported by the status
  (`Interrupted` in `Calls`), which `ToldAsHappened` insists on.
* The README has `http.server.sse.events` say "how many messages it sent", and
  `time_to_first_event` be "the wait for the first complete message, whatever the
  handler sends first". A blank line after a comment, the usual heartbeat, counts as a
  message, and times the first one. `MessageEnds` in `Stream` counts it too, and says so.
* `middleware.go:86` says "Recovery turns a panic into a 500"; a panic after the header
  went out keeps the status the client got. `RecordedAsAnswered` holds of it.
* `middleware.go:234` says the body captured for the log is put back; when reading it
  breaks within the cap, what was read by then is not. `BodyIsLoggedAndLeft` speaks of
  reads that come to an end.
* The README has metrics be pushed "once more on shutdown"; when an open stream used
  up the deadline both shutdowns share, the last push is refused. Both errors are
  logged: `NothingLostSilently` speaks of stops without one.
* `clashesWithBuiltInRoutes` (`exporter.go:74`) "reports whether p would shadow a route
  httpserver registers". Of `/*any` it says no, so Setup accepts it as `telemetry.path`,
  and gin panics over it in `New` (`server.go:94`), with `/health` mounted beside it. It
  does over any path with a catch-all before its last name, too. `GreedyScrape` is
  the first case, which `NoRouteShadowed` leaves out; the second is no matter of two routes
  and only in `Unmountable`.
* `/health`, `/status` and the scrape endpoint "are not recorded", says the README, and
  `server.go:44` has them logged at debug level only. With `telemetry.path` set to `/`
  below a context path, gin mounts the scrape with the slash at its end and
  `path.Join` puts it among the quiet paths without: each scrape is measured and logged
  like a request. `BareScrape` is that case, which `OnlyProbesAreUncounted` leaves out.

## What is proved

For any sets of goroutines, Setups, metrics and names, from the named
assumptions on the constants only:

* `Telemetry`: types; `CurrentBindingFollowsSetup`; `MeasurementReachesSetup`;
  `GaugesFollowSetup`; `EnabledMeansUp`; `ShutdownComplete`; `FailedSetupLeavesNothing`; the action
  property `OnlyOwnShutdownUninstalls`.
* `Labels`: types; `NameOrOther`; `SeriesBounded`; that every label without allowed
  values implements `BoundedNames`.
* `Collections`: types; `OnlySuccessIsNamed`; `NamesBounded`; `KnownKeepsName`;
  `LabelIsCollection`, for any base URL, any API prefix and any URL of gopcms'.
* `Requests`: types and all six properties of the run `served`, for any number of
  requests, any body, any cap and any length of a handler.
* `Calls`: types; `HopIsTraceable`; `SuccessIsWhole`; `ToldAsHappened`, for any number of
  services in a row and any number of calls.
* `Stream`: types; `CountsMessages`; the action property `FirstEventIsTimed`, for texts of any
  length and writes of any size.
* `Lifecycle`: types; `NothingLostSilently`, for any number of requests and any settings;
  `NoRouteShadowed`; `AdvertisedIsServed`; `OnlyProbesAreUncounted`, for any context path and
  any `telemetry.path`.
* `Paging`: types; `ExistingPageIsCut`; `PageDescribesItself`; `WalkSeesAll`, for any listing, any
  numbers asked for and any width of int.

The argument for the bindings. `CurrentBindingFollowsSetup` speaks of instruments
already made; to make it inductive one has to follow a recording from the start.
`MutexInv`: setupMu is held from Lock to Unlock, and nothing is installed before the
holder installs it. Hence `ProviderInv`: the provider of the installed state is the
global one, for `SetMeterProvider` runs only while nothing is installed.
`BindingInv` adds that no call and no binding is of a generation in the future,
so that bumping the generation makes all of them stale at once, and that a scope
read for the current generation is the installed one. A slow recorder may store an
old instrument over a new one, but under the old generation.

`MeasurementReachesSetup` needs more, since a Setup may see two generations: the shutdown
before it bumps the counter once more, as late as it likes. `UnderInv` therefore speaks of
all generations from a call's own on: once a call has begun under a Setup, and
until that is uninstalled, every binding and every other call of those generations is on
its provider and under its name. A state that was uninstalled is never installed again.

Shutdown rests on three invariants: `OnceInv` (one goroutine in the body, only
for a Setup that returned), `AcquiredInv` (what a Setup holds at each phase) and
`ReleasedInv` (shutdown gives back in the order state, listener, provider). For
gauges, `GaugeInv` says that the scope a gauge reads stays right because a Setup
cannot return while `gaugesMu` is held. For labels, `LabelInv` gives each past answer
a meaning that stays true: a kept value is in `seen`, a refused one found it full.

For requests, `FlowInv` says where a request is in its chain and that its line was
written exactly if it has left the logger; it is what makes `OneLinePerRequest`
follow at the end. `ActiveIsInFlight` is inductive with it: each of the
two Adds changes the set of requests in flight by that one request, and the
lemma `Counted` turns that into its cardinality. `OutputInv` relates the writer, the
body kept, the failed write and what was sent, of which `FailureBodyKept` is one
part; the others (nothing was written before the header is out, and a stream has seen a
write fail exactly if something was lost) carry the action property `StreamOutcomeIsTrue`:
the one measurement taken of a request says what is so at that step (`MeasuredAsItIs`). `BodyInv` follows the body from its capture to the
line, and needs to know that the logger is passed once. `RecordInv` is about the chains of
`Server` alone: recovery is innermost, so nothing unwinds and nobody writes once a line
or a measurement is taken.

For calls, a set of facts per frame (`Good` in `CallsProofs`) says what its `head`,
`result`, `child` and `heard` mean, and `Grows` that steps of other frames only add to it: frames
are never taken back, a header that went out stays, and a callee has a larger number
than its caller. The last is why `ToldAsHappened` holds for any number of hops:
the reasons are the least set closed under being told, and were there a frame
without one, the one with the largest number would have been told by a frame
beyond it.

For a service, `LifeInv` ties the steps of the main goroutine to the errors logged and to
what runs: a drain without an error means that nothing runs and nothing can begin, so
what is collected is everything.

For pages, `ExistingBounds` is arithmetic: where a page begins within the listing or right
at its end, the first page of an empty one included, no operation leaves the range of int, because no listing comes within a page of its
end; `LastPage` is the division that rounds up. `WalkInv` says that a walk has seen what
lies between its first page and the one it is at, and adjacent cuts join.

For streams, the definition of a message looks at the whole text and the code at one
byte, so `StreamInv` says of every state what the counters have of the text: the events
are the ends of messages so far, a set that grows by at most the byte just read, and
`newlines` is how the text ends. A write of several bytes is a recursive function over
them. The proof shows first that a function with such an equation exists (`Recursion`),
then that it ends where the single bytes lead, both by induction over a set of places
(`UpTo`): with the induction spelled out, no theorem with an operator for a parameter
is needed.

For routes, everything comes down to what `path.Clean` keeps of a path put together from
parts. `Walk` gives the recursive function behind `Names` its equation; by `NamesOfLonger`
`Names` of `p \o q` depends on `p` by `Names(p)` only; by `NamesOfPlain` names that are
neither empty nor dots are kept as they are. So the routes within a server's group begin
with the names of the context path (`Mounted`), and two are the same only if what follows
is (`Unshadowed`), which `Validate` has looked at. Nothing is beneath a built-in route, none
of which ends in a catch-all, and what `Validate` leaves of a scrape's own catch-all has a
name in front of it that none of them goes on from (`ScrapeNotAbove`). `OnlyProbesAreUncounted` then
compares, under one context path, a route as gin joins it with a quiet path as
`path.Join` does: they differ in a slash at the end, and a scrape path that Setup accepts
has none unless it is the root, which is `BareScrape`. `ServeInv` carries these facts about
settings along the life of a service: nothing is mounted before Setup has accepted
`cfg`, nothing listened on before `New` has mounted it, and only what counts is recorded.
The settings are any (`ConfigsAssumption`: both paths are sequences of strings).

For the collection of a call, `ApiPathType` and `RestType` say that the API path and what
follows it are sequences of names, `FilledAfter` finds the first two names that are not
empty after the slashes a URL begins with, and `CallNamed` concludes that
`collectionFromURL` is `of` for each way `LeadsTo` allows. `NamedInv` keeps
an attempt's name and its `of` together, from the URL to the label. What is assumed of
gopcms is `CallsAssumption`, which TLC evaluates on the twelve URLs of the run.

Model-checked only: the liveness properties (two of `Telemetry`, `SignalStops`,
`RequestsEnd`, `WalkEnds`), since the provers handle neither fairness nor `ENABLED`. The
refinement of `BoundedNames` is proved for every free label (`KeepsPromise`); TLC checks it
for one (`FreeLabelKeepsPromise`). Every other property of a passing run is a theorem.

## Not modelled, and the plan

What a next step could take on:

1. A composition of `Calls` and `Lifecycle`: a service that is stopped in an orderly way
   while others call it. `Calls` has only its end (`Crash`).
2. An abstract meter for `Telemetry` to implement: a recording goes to the Setup
   installed at some moment during the call, or nowhere, which `scope` shows to hold
   only up to the scope's name.

Two hazards have no property. A gauge declared while a shutdown withdraws its state may be
registered under `gospine` (`custom.go:288`), as Findings describes. And a probe that does
not look at its context keeps `/status` waiting (`health.go:44`): the probe of the model is a
`svcclient`, as the README recommends.

Left out for good:

* the conversions of `pcms` (problems, pages, sort orders, relations, authentication):
  functions of one call without state, for which a table of inputs and outputs, as
  the unit tests have it, says as much as a model would;
* configuration reading, log formatting, naming of OpenAPI schemas, CORS: handed to a
  library, or wording; the settings that decide something are `Configs` in `Lifecycle`;
* what the resource, the views and the exporters contain: data for OpenTelemetry;
* `telemetrytest` and `pcmstest`: test doubles.
