----------------------------- MODULE Telemetry -----------------------------
(***************************************************************************)
(* The telemetry package: Setup installs the process-wide MeterProvider,   *)
(* the shutdown it returns removes it, and the custom metrics, declared    *)
(* once as package variables, follow whichever provider is installed.     *)
(*                                                                         *)
(* Nothing but a few atomics relates the three: Setup publishes the        *)
(* provider, then `installed', then a new `generation'; shutdown takes     *)
(* them back in another order; a recording reads them one at a time, with  *)
(* no lock.  The gauges have a mutex of their own.                         *)
(*                                                                         *)
(* A member of Setups is one enabled call of telemetry.Setup.  The same    *)
(* value names its MeterProvider, its *state and its service, so a meter   *)
(* scope is a Setup, or Nil for "gospine", the scope used with no state.   *)
(***************************************************************************)
EXTENDS Naturals

CONSTANTS Setups,     \* the enabled calls of telemetry.Setup
          Dedicated,  \* those that serve metrics on telemetry.port (all share it)
          Closers,    \* goroutines that call a returned shutdown
          Recorders,  \* goroutines that record on counters and histograms
          Metrics,    \* the counters and histograms: one binding each
          Gauges,     \* the gauges NewGauge declares
          Nil         \* no state, no provider, no holder, "gospine"

ASSUME SetupsAssumption == Nil \notin Setups /\ Dedicated \subseteq Setups
ASSUME NilAssumption == Nil \notin Nat
ASSUME GaugesAssumption == Nil \notin Gauges

VARIABLES
  phase,       \* how far each Setup call is
  setupMu,     \* the Setup holding setupMu
  mp,          \* each MeterProvider: "none", "live" or "down"
  listener,    \* each dedicated listener: "none", "bound", "serving", "closing"
  installed,   \* the atomic pointer to the installed *state
  generation,  \* the atomic counter
  provider,    \* OTel's global MeterProvider, Nil for its delegating default
  delegate,    \* what instruments made on the default one forward to
  gaugesMu,    \* the holder of gaugesMu: a Setup (registerGauges) or a Gauge
  registered,  \* the gauges made so far: [gauge, on, scope]
  gauge,       \* each NewGauge call: its pc and the scope it read
  once,        \* the sync.Once of each shutdown
  closer,      \* each goroutine in a shutdown: its pc and whose shutdown
  call,        \* each goroutine in Add or Record, with its locals; `under', the
               \* Setup that was up when it began, is history
  current,     \* the binding of each metric: [gen, on, scope], gen Nil if unset
  series       \* what live providers received: [metric, on, scope]

setupVars == <<phase, setupMu, mp, listener>>
globals   == <<installed, generation, provider, delegate>>
gaugeVars == <<gaugesMu, registered, gauge>>
closeVars == <<once, closer>>
callVars  == <<call, current, series>>
vars      == <<setupVars, globals, gaugeVars, closeVars, callVars>>

Scope    == Setups \cup {Nil}
Phase    == {"new", "waiting", "locked", "built", "listening", "provided",
             "installed", "bumped", "ready", "failed"}
Unbound  == [gen |-> Nil, on |-> Nil, scope |-> Nil]
Binding  == [gen : Nat, on : Scope, scope : Scope]
Idle     == [pc |-> "idle", metric |-> Nil, gen |-> 0, on |-> Nil, scope |-> Nil,
             under |-> Nil]
Call     == [pc : {"idle", "loaded", "missed", "scoped", "created", "bound"},
             metric : Metrics \cup {Nil}, gen : Nat, on : Scope, scope : Scope,
             under : Scope]

TypeOK ==
  /\ phase \in [Setups -> Phase]
  /\ setupMu \in Scope
  /\ mp \in [Setups -> {"none", "live", "down"}]
  /\ listener \in [Setups -> {"none", "bound", "serving", "closing"}]
  /\ installed \in Scope
  /\ generation \in Nat
  /\ provider \in Scope
  /\ delegate \in Scope
  /\ gaugesMu \in Setups \cup Gauges \cup {Nil}
  /\ registered \subseteq [gauge : Gauges, on : Scope, scope : Scope]
  /\ gauge \in [Gauges -> [pc : {"undeclared", "appended", "enabled", "scoped",
                                 "declared"}, scope : Scope]]
  /\ once \in [Setups -> {"idle", "running", "done"}]
  /\ closer \in [Closers -> [pc : {"idle", "uninstall", "bump", "stop", "flush",
                                   "joining", "returned"}, of : Scope]]
  /\ call \in [Recorders -> Call]
  /\ \A r \in Recorders : call[r].pc # "idle" => call[r].metric \in Metrics
  /\ current \in [Metrics -> Binding \cup {Unbound}]
  /\ series \subseteq [metric : Metrics, on : Scope, scope : Scope]

Init ==
  /\ phase = [s \in Setups |-> "new"]
  /\ setupMu = Nil
  /\ mp = [s \in Setups |-> "none"]
  /\ listener = [s \in Setups |-> "none"]
  /\ installed = Nil
  /\ generation = 0
  /\ provider = Nil
  /\ delegate = Nil
  /\ gaugesMu = Nil
  /\ registered = {}
  /\ gauge = [g \in Gauges |-> [pc |-> "undeclared", scope |-> Nil]]
  /\ once = [s \in Setups |-> "idle"]
  /\ closer = [c \in Closers |-> [pc |-> "idle", of |-> Nil]]
  /\ call = [r \in Recorders |-> Idle]
  /\ current = [m \in Metrics |-> Unbound]
  /\ series = {}

----------------------------------------------------------------------------
(* Setup *)

Goto(s, from, to) == phase[s] = from /\ phase' = [phase EXCEPT ![s] = to]

\* Setup checks its configuration before it takes the mutex.
SetupEnter(s) ==
  /\ Goto(s, "new", "waiting") \/ Goto(s, "new", "failed")
  /\ UNCHANGED <<setupMu, mp, listener, globals, gaugeVars, closeVars, callVars>>

\* Variant: no look at `installed'.
SetupLock_Unchecked(s) ==
  /\ setupMu = Nil
  /\ Goto(s, "waiting", "locked") /\ setupMu' = s
  /\ UNCHANGED <<mp, listener, globals, gaugeVars, closeVars, callVars>>

\* Only one provider at a time: "already set up".
SetupLock(s) ==
  /\ setupMu = Nil
  /\ IF installed # Nil
       THEN Goto(s, "waiting", "failed") /\ UNCHANGED setupMu
       ELSE Goto(s, "waiting", "locked") /\ setupMu' = s
  /\ UNCHANGED <<mp, listener, globals, gaugeVars, closeVars, callVars>>

\* Resource and exporter, either of which may fail, then the SDK provider.
SetupBuild(s) ==
  /\ \/ Goto(s, "locked", "built") /\ mp' = [mp EXCEPT ![s] = "live"] /\ UNCHANGED setupMu
     \/ Goto(s, "locked", "failed") /\ setupMu' = Nil /\ UNCHANGED mp
  /\ UNCHANGED <<listener, globals, gaugeVars, closeVars, callVars>>

\* The error paths after the provider exists shut it down.
FailBuilt(s, from) ==
  /\ Goto(s, from, "failed")
  /\ setupMu' = Nil
  /\ mp' = [mp EXCEPT ![s] = "down"]

PortFree == \A s \in Setups : listener[s] = "none"

\* startServer binds the port before it returns: a busy one fails Setup.
SetupListen(s) ==
  /\ \/ /\ s \notin Dedicated
        /\ Goto(s, "built", "listening")
        /\ UNCHANGED <<setupMu, mp, listener>>
     \/ /\ s \in Dedicated /\ PortFree
        /\ Goto(s, "built", "listening")
        /\ listener' = [listener EXCEPT ![s] = "bound"]
        /\ UNCHANGED <<setupMu, mp>>
     \/ /\ s \in Dedicated /\ ~PortFree
        /\ FailBuilt(s, "built")
        /\ UNCHANGED listener
  /\ UNCHANGED <<globals, gaugeVars, closeVars, callVars>>

\* The goroutine startServer leaves behind.  Serving a server that has been
\* shut down closes the listener and returns at once.
Serve(s) ==
  /\ \/ listener[s] = "bound" /\ listener' = [listener EXCEPT ![s] = "serving"]
     \/ listener[s] = "closing" /\ listener' = [listener EXCEPT ![s] = "none"]
  /\ UNCHANGED <<phase, setupMu, mp, globals, gaugeVars, closeVars, callVars>>

\* Variant: a server whose goroutine has not run yet is missed.
StopServer_OnlyServing(s) ==
  listener' = [listener EXCEPT ![s] = IF @ = "serving" THEN "none" ELSE @]

\* http.Server.Shutdown closes the listeners Serve has tracked; one that is
\* only bound stays open until Serve sees the shutdown.
StopServer(s) ==
  listener' = [listener EXCEPT ![s] = CASE @ = "serving" -> "none"
                                        [] @ = "bound" -> "closing"
                                        [] OTHER -> @]

\* Variant: the server is forgotten.
SetupAbort_LeavesServer(s) ==
  /\ FailBuilt(s, "listening")
  /\ UNCHANGED <<listener, globals, gaugeVars, closeVars, callVars>>

\* runtime.Start may fail: the server is stopped, the provider shut down.
SetupAbort(s) ==
  /\ FailBuilt(s, "listening")
  /\ StopServer(s)
  /\ UNCHANGED <<globals, gaugeVars, closeVars, callVars>>

\* otel.SetMeterProvider; the first one becomes the delegate of the default.
SetupProvide(s) ==
  /\ Goto(s, "listening", "provided")
  /\ provider' = s
  /\ delegate' = IF delegate = Nil THEN s ELSE delegate
  /\ UNCHANGED <<setupMu, mp, listener, installed, generation,
                 gaugeVars, closeVars, callVars>>

\* installed.Store(st)
SetupInstall(s) ==
  /\ Goto(s, "provided", "installed")
  /\ installed' = s
  /\ UNCHANGED <<setupMu, mp, listener, generation, provider, delegate,
                 gaugeVars, closeVars, callVars>>

\* generation.Add(1)
SetupBump(s) ==
  /\ Goto(s, "installed", "bumped")
  /\ generation' = generation + 1
  /\ UNCHANGED <<setupMu, mp, listener, installed, provider, delegate,
                 gaugeVars, closeVars, callVars>>

Declared == {g \in Gauges : gauge[g].pc # "undeclared"}

\* registerGauges, under gaugesMu, then Setup returns its shutdown.
SetupGauges(s) ==
  /\ gaugesMu = Nil
  /\ Goto(s, "bumped", "ready")
  /\ registered' = registered \cup
       {[gauge |-> g, on |-> provider, scope |-> installed] : g \in Declared}
  /\ setupMu' = Nil
  /\ UNCHANGED <<mp, listener, globals, gaugesMu, gauge, closeVars, callVars>>

Setup(s) ==
  \/ SetupEnter(s) \/ SetupLock(s) \/ SetupBuild(s) \/ SetupListen(s)
  \/ SetupAbort(s) \/ SetupProvide(s) \/ SetupInstall(s) \/ SetupBump(s)
  \/ SetupGauges(s)

----------------------------------------------------------------------------
(* The shutdown Setup returned *)

CloserAt(c, pc) == closer[c].pc = pc
CloserGoto(c, pc) == closer' = [closer EXCEPT ![c].pc = pc]

\* Variant: a flag instead of the sync.Once, so later callers do not wait.
CloseCall_NoWait(c, s) ==
  /\ closer[c].pc \in {"idle", "returned"}
  /\ phase[s] = "ready"
  /\ closer' = [closer EXCEPT ![c] =
       [pc |-> IF once[s] = "idle" THEN "uninstall" ELSE "returned", of |-> s]]
  /\ once' = [once EXCEPT ![s] = IF @ = "idle" THEN "running" ELSE @]
  /\ UNCHANGED <<setupVars, globals, gaugeVars, callVars>>

\* once.Do: the first caller runs the body, the others wait for it to end.
CloseCall(c, s) ==
  /\ closer[c].pc \in {"idle", "returned"}
  /\ phase[s] = "ready"
  /\ closer' = [closer EXCEPT ![c] =
       [pc |-> CASE once[s] = "idle" -> "uninstall"
                 [] once[s] = "running" -> "joining"
                 [] once[s] = "done" -> "returned",
        of |-> s]]
  /\ once' = [once EXCEPT ![s] = IF @ = "idle" THEN "running" ELSE @]
  /\ UNCHANGED <<setupVars, globals, gaugeVars, callVars>>

\* Variant: the state stays installed.
CloseUninstall_Missing(c) ==
  /\ CloserAt(c, "uninstall") /\ CloserGoto(c, "bump")
  /\ UNCHANGED <<setupVars, globals, gaugeVars, once, callVars>>

\* installed.CompareAndSwap(st, nil)
CloseUninstall(c) ==
  /\ CloserAt(c, "uninstall") /\ CloserGoto(c, "bump")
  /\ installed' = IF installed = closer[c].of THEN Nil ELSE installed
  /\ UNCHANGED <<setupVars, generation, provider, delegate, gaugeVars, once, callVars>>

\* generation.Add(1)
CloseBump(c) ==
  /\ CloserAt(c, "bump") /\ CloserGoto(c, "stop")
  /\ generation' = generation + 1
  /\ UNCHANGED <<setupVars, installed, provider, delegate, gaugeVars, once, callVars>>

\* stopServer; its error does not keep the provider from being shut down.
CloseStop(c) ==
  /\ CloserAt(c, "stop") /\ CloserGoto(c, "flush")
  /\ StopServer(closer[c].of)
  /\ UNCHANGED <<phase, setupMu, mp, globals, gaugeVars, once, callVars>>

\* mp.Shutdown, and the end of once.Do.
CloseFlush(c) ==
  /\ CloserAt(c, "flush") /\ CloserGoto(c, "returned")
  /\ mp' = [mp EXCEPT ![closer[c].of] = "down"]
  /\ once' = [once EXCEPT ![closer[c].of] = "done"]
  /\ UNCHANGED <<phase, setupMu, listener, globals, gaugeVars, callVars>>

CloseJoin(c) ==
  /\ CloserAt(c, "joining") /\ once[closer[c].of] = "done"
  /\ CloserGoto(c, "returned")
  /\ UNCHANGED <<setupVars, globals, gaugeVars, once, callVars>>

Close(c) ==
  \/ CloseUninstall(c) \/ CloseBump(c) \/ CloseStop(c)
  \/ CloseFlush(c) \/ CloseJoin(c)

----------------------------------------------------------------------------
(* Counter.Add and Histogram.Record: binding.get, then the instrument *)

CallAt(r, pc) == call[r].pc = pc

\* The installed Setup has made its generation known.
Settled(s) == installed = s /\ phase[s] \in {"bumped", "ready"}

\* get reads the generation first, and the binding after it.
GetGeneration(r, m) ==
  /\ CallAt(r, "idle")
  /\ call' = [call EXCEPT ![r] =
       [pc |-> "loaded", metric |-> m, gen |-> generation, on |-> Nil, scope |-> Nil,
        under |-> IF \E s \in Setups : Settled(s) THEN installed ELSE Nil]]
  /\ UNCHANGED <<setupVars, globals, gaugeVars, closeVars, current, series>>

\* Variant: an instrument once made is used for ever.
GetCached_Always(r) ==
  /\ CallAt(r, "loaded")
  /\ LET cur == current[call[r].metric] IN
       call' = [call EXCEPT ![r] =
         IF cur.gen # Nil
           THEN [@ EXCEPT !.pc = "bound", !.on = cur.on, !.scope = cur.scope]
           ELSE [@ EXCEPT !.pc = "missed"]]
  /\ UNCHANGED <<setupVars, globals, gaugeVars, closeVars, current, series>>

\* The cached instrument is used when it is of the generation just read.
GetCached(r) ==
  /\ CallAt(r, "loaded")
  /\ LET cur == current[call[r].metric] IN
       call' = [call EXCEPT ![r] =
         IF cur.gen = @.gen
           THEN [@ EXCEPT !.pc = "bound", !.on = cur.on, !.scope = cur.scope]
           ELSE [@ EXCEPT !.pc = "missed"]]
  /\ UNCHANGED <<setupVars, globals, gaugeVars, closeVars, current, series>>

\* scope() reads the installed state: its service, or "gospine" without one.
GetScope(r) ==
  /\ CallAt(r, "missed")
  /\ call' = [call EXCEPT ![r].pc = "scoped", ![r].scope = installed]
  /\ UNCHANGED <<setupVars, globals, gaugeVars, closeVars, current, series>>

\* Meter(...) reads the global provider and makes the instrument on it.
GetCreate(r) ==
  /\ CallAt(r, "scoped")
  /\ call' = [call EXCEPT ![r].pc = "created", ![r].on = provider]
  /\ UNCHANGED <<setupVars, globals, gaugeVars, closeVars, current, series>>

\* Variant: kept under the generation of the moment it is stored.
GetStore_LatestGeneration(r) ==
  /\ CallAt(r, "created")
  /\ call' = [call EXCEPT ![r].pc = "bound"]
  /\ current' = [current EXCEPT ![call[r].metric] =
       [gen |-> generation, on |-> call[r].on, scope |-> call[r].scope]]
  /\ UNCHANGED <<setupVars, globals, gaugeVars, closeVars, series>>

\* The instrument is kept under the generation read first, whatever it is now.
GetStore(r) ==
  /\ CallAt(r, "created")
  /\ call' = [call EXCEPT ![r].pc = "bound"]
  /\ current' = [current EXCEPT ![call[r].metric] =
       [gen |-> call[r].gen, on |-> call[r].on, scope |-> call[r].scope]]
  /\ UNCHANGED <<setupVars, globals, gaugeVars, closeVars, series>>

\* Where an instrument delivers: one of the default provider forwards.
Target(on) == IF on = Nil THEN delegate ELSE on

Live(on) == Target(on) # Nil /\ mp[Target(on)] = "live"

Record(r) ==
  /\ CallAt(r, "bound")
  /\ call' = [call EXCEPT ![r] = Idle]
  /\ series' = IF Live(call[r].on)
                 THEN series \cup {[metric |-> call[r].metric,
                                    on |-> Target(call[r].on), scope |-> call[r].scope]}
                 ELSE series
  /\ UNCHANGED <<setupVars, globals, gaugeVars, closeVars, current>>

Get(r) == GetCached(r) \/ GetScope(r) \/ GetCreate(r) \/ GetStore(r) \/ Record(r)

----------------------------------------------------------------------------
(* NewGauge, which holds gaugesMu from the append to the registration *)

GaugeAt(g, pc) == gauge[g].pc = pc

GaugeAppend(g) ==
  /\ GaugeAt(g, "undeclared")
  /\ gaugesMu = Nil
  /\ gaugesMu' = g
  /\ gauge' = [gauge EXCEPT ![g].pc = "appended"]
  /\ UNCHANGED <<setupVars, globals, registered, closeVars, callVars>>

\* Variant: registration is left to Setup even when one is installed.
GaugeEnabled_LeavesToSetup(g) ==
  /\ GaugeAt(g, "appended")
  /\ gauge' = [gauge EXCEPT ![g].pc = "declared"] /\ gaugesMu' = Nil
  /\ UNCHANGED <<setupVars, globals, registered, closeVars, callVars>>

\* Variant: the early return does not unlock.
GaugeEnabled_KeepsMutex(g) ==
  /\ GaugeAt(g, "appended")
  /\ gauge' = [gauge EXCEPT ![g].pc = IF installed # Nil THEN "enabled" ELSE "declared"]
  /\ UNCHANGED <<setupVars, globals, gaugesMu, registered, closeVars, callVars>>

\* Enabled(): while telemetry is off the next Setup registers the gauge.
GaugeEnabled(g) ==
  /\ GaugeAt(g, "appended")
  /\ IF installed # Nil
       THEN gauge' = [gauge EXCEPT ![g].pc = "enabled"] /\ UNCHANGED gaugesMu
       ELSE gauge' = [gauge EXCEPT ![g].pc = "declared"] /\ gaugesMu' = Nil
  /\ UNCHANGED <<setupVars, globals, registered, closeVars, callVars>>

\* scope() reads `installed' again ...
GaugeScope(g) ==
  /\ GaugeAt(g, "enabled")
  /\ gauge' = [gauge EXCEPT ![g] = [pc |-> "scoped", scope |-> installed]]
  /\ UNCHANGED <<setupVars, globals, gaugesMu, registered, closeVars, callVars>>

\* ... and Meter(...) the global provider.
GaugeRegister(g) ==
  /\ GaugeAt(g, "scoped")
  /\ gauge' = [gauge EXCEPT ![g].pc = "declared"]
  /\ registered' = registered \cup
       {[gauge |-> g, on |-> provider, scope |-> gauge[g].scope]}
  /\ gaugesMu' = Nil
  /\ UNCHANGED <<setupVars, globals, closeVars, callVars>>

NewGauge(g) == GaugeEnabled(g) \/ GaugeScope(g) \/ GaugeRegister(g)

----------------------------------------------------------------------------

Next ==
  \/ \E s \in Setups : Setup(s) \/ Serve(s)
  \/ \E c \in Closers : Close(c) \/ \E s \in Setups : CloseCall(c, s)
  \/ \E r \in Recorders : Get(r) \/ \E m \in Metrics : GetGeneration(r, m)
  \/ \E g \in Gauges : GaugeAppend(g) \/ NewGauge(g)

\* A goroutine that has begun a call is scheduled until the call returns, and
\* one waiting for a mutex gets it (sync.Mutex starves nobody).  Nothing makes
\* a service call Setup, shutdown, NewGauge or Record in the first place.
Fairness ==
  /\ \A s \in Setups : WF_vars(Setup(s) /\ phase[s] # "new") /\ WF_vars(Serve(s))
  /\ \A c \in Closers : WF_vars(Close(c))
  /\ \A r \in Recorders : WF_vars(Get(r))
  /\ \A g \in Gauges : WF_vars(NewGauge(g))

Spec == Init /\ [][Next]_vars /\ Fairness

----------------------------------------------------------------------------
(* Correctness *)

\* What Enabled reports is really up: the provider of the installed state is
\* the global one, it still accepts measurements, and its listener is open.
\* Setup publishes in this order, shutdown takes back in the other, and the
\* two run on different goroutines.
EnabledMeansUp ==
  \A s \in Setups : installed = s =>
    /\ provider = s
    /\ mp[s] = "live"
    /\ s \in Dedicated => listener[s] \in {"bound", "serving"}

\* binding.get is lock-free: a recording that read an old generation, scope or
\* provider may still overwrite the binding of a newer one.  Whatever the
\* interleaving, once a Setup has bumped the generation a binding that get
\* would take from the cache, and an instrument made for this generation, are
\* on its provider and named after its service.
CurrentBindingFollowsSetup ==
  \A s \in Setups : Settled(s) =>
    /\ \A m \in Metrics : current[m].gen = generation =>
         current[m].on = s /\ current[m].scope = s
    /\ \A r \in Recorders :
         call[r].pc \in {"created", "bound"} /\ call[r].gen = generation =>
           call[r].on = s /\ call[r].scope = s

\* A measurement that begins once a Setup is up and is made while it is installed
\* reaches its provider, still accepting, under the name of its service.  An
\* earlier shutdown, slow to bump the generation, may give one Setup two of them
\* meanwhile, and other recordings may replace the binding.
MeasurementReachesSetup ==
  \A r \in Recorders : CallAt(r, "bound") /\ call[r].under \in {installed} \ {Nil} =>
    /\ call[r].on = installed /\ call[r].scope = installed
    /\ Live(call[r].on)

\* Custom series carry the service name as their scope: nothing a live
\* provider received is named "gospine" or after another Setup.
SeriesNamedAfterService == \A x \in series : x.scope = x.on

\* Once Setup has returned, and while its state is installed, every gauge whose
\* NewGauge has returned is on its provider under its service name, on
\* whichever side of installed.Store and registerGauges NewGauge ran.
GaugesFollowSetup ==
  \A s \in Setups : installed = s /\ phase[s] = "ready" =>
    \A g \in Gauges : gauge[g].pc = "declared" =>
      [gauge |-> g, on |-> s, scope |-> s] \in registered

\* A shutdown that has returned is complete, for every caller and not only for
\* the one whose once.Do ran the body: the state is not installed, the
\* provider is down, and the listener is closed or about to be.
ShutdownComplete ==
  \A c \in Closers : closer[c].pc = "returned" =>
    /\ installed # closer[c].of
    /\ mp[closer[c].of] = "down"
    /\ listener[closer[c].of] \in {"none", "closing"}

\* Whichever of its steps fails, a Setup that returns an error leaves no
\* provider, no state, no mutex and no listener it will not close.
FailedSetupLeavesNothing ==
  \A s \in Setups : phase[s] = "failed" =>
    /\ installed # s /\ provider # s /\ setupMu # s
    /\ mp[s] # "live"
    /\ listener[s] \in {"none", "closing"}

\* An installed state goes away only through its own shutdown: never through
\* the shutdown of an earlier Setup, and never because a later Setup replaced
\* it ("already set up").
OnlyOwnShutdownUninstalls ==
  [][installed # Nil /\ installed' # installed =>
       installed' = Nil /\ \E c \in Closers : closer[c] = [pc |-> "uninstall",
                                                         of |-> installed]]_vars

\* Nobody waits for ever: Setup returns, with a shutdown or an error, though it
\* waits for setupMu and, holding it, for gaugesMu; and so does every call of a
\* shutdown, those that only wait for the first too.
CallsReturn ==
  /\ \A s \in Setups : phase[s] = "waiting" ~> phase[s] \in {"ready", "failed"}
  /\ \A c \in Closers :
       closer[c].pc \in {"uninstall", "joining"} ~> closer[c].pc = "returned"

\* The metrics port of a Setup that failed or was shut down becomes free, even
\* if it was stopped before its Serve goroutine ever ran.
PortIsFreed ==
  \A s \in Setups :
    phase[s] = "failed" \/ once[s] = "done" ~> listener[s] = "none"
=============================================================================
