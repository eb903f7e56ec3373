-------------------------------- MODULE Routes --------------------------------
(***************************************************************************)
(* Where a server mounts what it serves, and which of it it keeps out of   *)
(* its metrics and at debug level in its log.  New puts the quiet paths    *)
(* together with path.Join and has gin put the routes together, from the   *)
(* same two settings, contextPath and telemetry.path; a request is matched *)
(* against the first by the second.  telemetry.Setup has refused the       *)
(* settings that would shadow a route by then.                             *)
(*                                                                         *)
(* A path is the sequence of what stands between its slashes: "/ctx/" is   *)
(* <<"", "ctx", "">>, "ctx" is <<"ctx">> and "" is <<"">>, so that joining *)
(* two paths with a slash is the concatenation of their sequences.         *)
(*                                                                         *)
(* In a route gin takes a name that begins with "*" for all that follows,  *)
(* and one that begins with ":" for any one name, which may stand beside   *)
(* others.  Names it mounts nowhere ("*" alone, "a*b") are left out.       *)
(***************************************************************************)
EXTENDS Integers, Sequences, SequencesExt

CONSTANT CatchAlls  \* the names that begin with "*"

ASSUME CatchAllsAssumption ==
  {"", ".", "..", "health", "status", "api", "search", "query", "version"} \cap CatchAlls = {}

Root == <<"", "">>

EndsInSlash(p) == Len(p) > 1 /\ Last(p) = ""

\* Where a name leads from above: nothing is above the root.
Enter(above, name) ==
  CASE name \in {"", "."} -> above
    [] name = ".." -> IF above = <<>> THEN above ELSE Front(above)
    [] OTHER -> Append(above, name)

\* The names path.Clean keeps of "/" + p, and what it makes of them.
Names(p) ==
  LET within[n \in 0..Len(p)] == IF n = 0 THEN <<>> ELSE Enter(within[n - 1], p[n])
  IN  within[Len(p)]

Clean(p) == IF Names(p) = <<>> THEN Root ELSE <<"">> \o Names(p)

\* path.Join("/", p, q)
PathJoin(p, q) == Clean(p \o q)

\* How gin joins the path of a group and a path within it.
JoinPaths(base, p) ==
  IF p = <<"">> THEN base
  ELSE LET joined == Clean(base \o p)
       IN  IF EndsInSlash(p) /\ ~EndsInSlash(joined) THEN Append(joined, "") ELSE joined

----------------------------------------------------------------------------
(* telemetry.Setup: the settings it accepts, and where the scrape goes *)

\* Variant: only the paths themselves, and nothing below them.
ClashesWithBuiltInRoutes_Exact(p) ==
  p \in {<<"", "health">>, <<"", "status">>, <<"", "api">>}

ClashesWithBuiltInRoutes(p) ==
  \/ p \in {<<"", "health">>, <<"", "status">>, <<"", "api">>}
  \/ Len(p) > 2 /\ p[2] = "api"

Ports == 0..65535

ValidPrometheus(c) ==
  /\ c.port \in Ports
  /\ Len(c.path) > 1 /\ c.path[1] = "" /\ Clean(c.path) = c.path
  /\ c.port = 0 => ~ClashesWithBuiltInRoutes(c.path)

ValidOTLP(c) == c.interval > 0 /\ c.endpoint \in {"unset", "url"}

Validate(c) ==
  \/ c.exporter = "prometheus" /\ ValidPrometheus(c)
  \/ c.exporter = "otlp" /\ ValidOTLP(c)

\* The exporter of a Setup pushes, or serves a scrape on a listener of its own
\* or, as Handler reports, on the main server.
Pushes(c) == c.enabled /\ c.exporter = "otlp"
ScrapedOnMain(c) == c.enabled /\ c.exporter = "prometheus" /\ c.port = 0

----------------------------------------------------------------------------
(* httpserver.New *)

Probes == {"health", "status", "scrape"}

\* Variant: the scrape is forgotten.
Quiet_NoScrape(c) ==
  {PathJoin(c.contextPath, <<"health">>), PathJoin(c.contextPath, <<"status">>)}

\* The paths left out of the metrics and of the log.
Quiet(c) ==
  {PathJoin(c.contextPath, p) :
     p \in {<<"health">>, <<"status">>} \cup IF ScrapedOnMain(c) THEN {c.path} ELSE {}}

\* engine.Group(contextPath), and base.Group("/api")
Base(c) == JoinPaths(Root, c.contextPath)
Api(c)  == JoinPaths(Base(c), <<"", "api">>)

\* What is mounted where: the probes, the scrape, an operation of a module, and
\* a route of the service's own on the engine.
Routes(c) ==
  LET base == Base(c)
      scrape == IF ScrapedOnMain(c) THEN {[serves |-> "scrape", at |-> JoinPaths(base, c.path)]}
                ELSE {}
  IN  scrape \cup
      { [serves |-> "health",  at |-> JoinPaths(base, <<"", "health">>)],
        [serves |-> "status",  at |-> JoinPaths(base, <<"", "status">>)],
        [serves |-> "module",  at |-> JoinPaths(Api(c), <<"", "search", "query">>)],
        [serves |-> "version", at |-> JoinPaths(Root, <<"", "version">>)] }

\* Route q goes on where p has its catch-all.
Beneath(q, p) == Last(p) \in CatchAlls /\ IsStrictPrefix(Front(p), q)

\* Routes gin does not mount together, whichever comes first.
Exclusive(p, q) == p = q \/ Beneath(q, p)

\* gin panics over these, and over a catch-all that is not the last name.
Unmountable(routes) ==
  \/ \E x, y \in routes : x # y /\ Exclusive(x.at, y.at)
  \/ \E x \in routes : \E i \in 1..(Len(x.at) - 1) : x.at[i] \in CatchAlls

\* Variant: relative to the server, without the context path.
ServerURL_NoContext(c) == <<"", "api">>

\* The base URL of the API in the generated document.
ServerURL(c) == PathJoin(c.contextPath, <<"api">>)
=============================================================================
