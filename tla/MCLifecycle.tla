----------------------------- MODULE MCLifecycle -----------------------------
(* Instances of Lifecycle for TLC: context paths as they are found in           *)
(* configurations, and every exporter with settings on either side of what     *)
(* telemetry.Setup accepts.                                                     *)
EXTENDS Lifecycle

ContextPaths == {<<"">>, Root, <<"", "ctx">>, <<"ctx", "">>, <<"", "", "a", "..", "ctx", ".">>,
                 <<"", "api">>, <<"..", "ctx", "api">>}

Scrapes == {<<"", "metrics">>, <<"metrics">>, <<"", "metrics", "">>, Root, <<"">>,
            <<"", "health">>, <<"", "api", "metrics">>, <<"", "apis">>, <<"", "version">>,
            <<"", "api", "search", "query">>, <<"", "ctx", "api", "search", "query">>,
            <<"", "*any">>, <<"", "metrics", "*any">>, <<"", "health", "*any">>,
            <<"", "*any", "metrics">>}

\* What the code reads of the settings, with those of the other exporter as they
\* are by default.
Config(context, on, exporter, port, path, interval, endpoint) ==
  [contextPath |-> context, enabled |-> on, exporter |-> exporter, port |-> port, path |-> path,
   interval |-> interval, endpoint |-> endpoint, disableMetrics |-> FALSE]

Settings ==
  UNION {
    {Config(c, TRUE, "prometheus", 0, p, 30, "unset") : p \in Scrapes}
    \cup {Config(c, TRUE, "prometheus", n, <<"", "health">>, 30, "unset") : n \in {-1, 9464, 65536}}
    \cup {Config(c, TRUE, "otlp", 0, Root, i, e) : i \in {0, 30}, e \in {"unset", "url", "invalid"}}
    \cup {Config(c, FALSE, "prometheus", 0, Root, 30, "unset"),
          Config(c, TRUE, "statsd", 0, Root, 30, "unset")}
    : c \in ContextPaths }

Configurations ==
  Settings \cup {[s EXCEPT !.disableMetrics = TRUE] : s \in {s \in Settings : s.contextPath = Root}}
=============================================================================
