----------------------------- MODULE Collections -----------------------------
(***************************************************************************)
(* The payloadcms.collection label of the PayloadCMS client: every attempt *)
(* of every call is recorded by clientMetrics.record, which names the      *)
(* collection only once PayloadCMS has answered 2xx for it, and at most    *)
(* MaxCollections of them.  Attempts run on their callers' goroutines; the *)
(* set of confirmed names is read under the read lock and extended under   *)
(* the write lock, where, unlike in the telemetry labels, nobody looks     *)
(* again whether another attempt has confirmed the name.                   *)
(*                                                                         *)
(* A path is the sequence of what stands between its slashes, as in        *)
(* Routes: "/api" is <<"", "api">>.  A collection is named <<"posts">>, a  *)
(* global <<"globals", "site">>.  The other attributes of a measurement,   *)
(* its error type among them, are left out.                                *)
(***************************************************************************)
EXTENDS Integers, FiniteSets, Sequences, SequencesExt

CONSTANTS Attempts,        \* goroutines with an attempt to record
          Calls,           \* what gopcms is asked for: [path, of], the path of the
                           \* URL, or Unparsed, and the collection it is of
          BasePath,        \* the path of the base URL
          APIURL,          \* the API prefix
          Statuses,        \* status codes, 0 when there was no response
          MaxCollections,  \* the cap
          Unparsed         \* a URL that does not parse

Other == <<"_OTHER">>

ASSUME CollectionsAssumption ==
  /\ Statuses \subseteq Nat
  /\ MaxCollections \in Nat

Trim(p, left) ==
  LET names == {i \in DOMAIN p : p[i] # ""}
      first == IF left /\ names # {} THEN Min(names) ELSE 1
  IN  SubSeq(p, first, Max(names \cup {1}))

\* The paths of the base URL and of the API, without slashes at the end.
apiPath == Trim(Trim(BasePath, FALSE) \o Trim(APIURL, TRUE), FALSE)

\* What is left of a path below that of the API.
Rest(path) == SubSeq(path, Len(apiPath) + 1, Len(path))

\* Variant: all that follows the API path.
collectionFromURL_Whole(path) ==
  IF path # Unparsed /\ IsPrefix(apiPath, path) THEN Rest(path) ELSE Other

\* The collection, or the global, that comes after the API path: the first name,
\* or the first two.
collectionFromURL(path) ==
  IF path = Unparsed \/ ~IsPrefix(apiPath, path) THEN Other
  ELSE LET segments == {i \in DOMAIN Rest(path) : Rest(path)[i] # ""}
           first == Min(segments)
           second == Min(segments \ {first})
       IN  IF segments = {} THEN <<"root">>
           ELSE IF Rest(path)[first] = "globals" /\ segments # {first}
           THEN <<"globals", Rest(path)[second]>>
           ELSE <<Rest(path)[first]>>

\* How gopcms puts the URL of a collection, of a global or of the API itself
\* together: what a call is of comes first, whatever follows.
LeadsTo(p, of) ==
  \E k \in 0..Len(p) :
    /\ \A i \in 1..k : p[i] = ""
    /\ \/ k = Len(p) /\ of = <<"root">>
       \/ k < Len(p) /\ p[k + 1] \notin {"", "globals"} /\ of = <<p[k + 1]>>
       \/ /\ k < Len(p) /\ p[k + 1] = "globals" /\ of = <<"globals">>
          /\ \A i \in (k + 2)..Len(p) : p[i] = ""
       \/ /\ k + 1 < Len(p) /\ p[k + 1] = "globals" /\ p[k + 2] # ""
          /\ of = <<"globals", p[k + 2]>>

ASSUME CallsAssumption ==
  /\ BasePath \in Seq(STRING) /\ BasePath # <<>> /\ APIURL \in Seq(STRING) /\ APIURL # <<>>
  /\ \A c \in Calls :
       IF c.path = Unparsed \/ ~IsPrefix(apiPath, c.path) THEN c.of = Other
       ELSE c.path \in Seq(STRING) /\ LeadsTo(Rest(c.path), c.of)

Names == {collectionFromURL(c.path) : c \in Calls} \cup {Other}

VARIABLES confirmed,  \* the names let through
          attempt,    \* each attempt: pc, name, status, label; `of', the collection
                      \* it was for, and `known' are history
          recorded,   \* the labels measurements were recorded under
          succeeded   \* history: the names an attempt got a 2xx for

vars == <<confirmed, attempt, recorded, succeeded>>

NoAttempt == [pc |-> "idle", name |-> Other, of |-> Other, status |-> 0, label |-> Other,
              known |-> FALSE]

TypeOK ==
  /\ confirmed \subseteq Names
  /\ attempt \in [Attempts -> [pc : {"idle", "read", "confirm", "labelled"},
                               name : Names, of : {c.of : c \in Calls} \cup {Other}, status : Nat,
                               label : Names, known : BOOLEAN]]
  /\ recorded \subseteq Names
  /\ succeeded \subseteq Names

Init ==
  /\ confirmed = {}
  /\ attempt = [a \in Attempts |-> NoAttempt]
  /\ recorded = {}
  /\ succeeded = {}

Success(status) == 200 <= status /\ status < 300

----------------------------------------------------------------------------

\* gopcms reports an attempt; known: a measurement already carries its name.
Begin(a, c, s) ==
  /\ attempt[a].pc = "idle"
  /\ LET n == collectionFromURL(c.path) IN
       /\ attempt' = [attempt EXCEPT ![a] = [pc |-> "read", name |-> n, of |-> c.of, status |-> s,
                                             label |-> Other, known |-> n \in recorded]]
       /\ succeeded' = IF Success(s) THEN succeeded \cup {n} ELSE succeeded
  /\ UNCHANGED <<confirmed, recorded>>

Labelled(a, label) ==
  attempt' = [attempt EXCEPT ![a].pc = "labelled", ![a].label = label]

\* Variant: the status is looked at before the name.
Read_StatusFirst(a) ==
  /\ attempt[a].pc = "read"
  /\ \/ ~Success(attempt[a].status) /\ Labelled(a, Other)
     \/ /\ Success(attempt[a].status) /\ attempt[a].name \in confirmed
        /\ Labelled(a, attempt[a].name)
     \/ /\ Success(attempt[a].status) /\ attempt[a].name \notin confirmed
        /\ attempt' = [attempt EXCEPT ![a].pc = "confirm"]
  /\ UNCHANGED <<confirmed, recorded, succeeded>>

\* Variant: any answer at all confirms.
Read_AnyStatus(a) ==
  /\ attempt[a].pc = "read"
  /\ IF attempt[a].name \in confirmed
       THEN Labelled(a, attempt[a].name)
       ELSE attempt' = [attempt EXCEPT ![a].pc = "confirm"]
  /\ UNCHANGED <<confirmed, recorded, succeeded>>

\* RLock: a confirmed name is the label, whatever this attempt got; another is
\* confirmed only by a success.
Read(a) ==
  /\ attempt[a].pc = "read"
  /\ \/ attempt[a].name \in confirmed /\ Labelled(a, attempt[a].name)
     \/ /\ attempt[a].name \notin confirmed /\ ~Success(attempt[a].status)
        /\ Labelled(a, Other)
     \/ /\ attempt[a].name \notin confirmed /\ Success(attempt[a].status)
        /\ attempt' = [attempt EXCEPT ![a].pc = "confirm"]
  /\ UNCHANGED <<confirmed, recorded, succeeded>>

\* Variant: an off-by-one at the cap.
Confirm_OneMore(a) ==
  /\ attempt[a].pc = "confirm"
  /\ IF Cardinality(confirmed) > MaxCollections
       THEN Labelled(a, Other) /\ UNCHANGED confirmed
       ELSE /\ Labelled(a, attempt[a].name)
            /\ confirmed' = confirmed \cup {attempt[a].name}
  /\ UNCHANGED <<recorded, succeeded>>

\* Lock: the cap is looked at, the name is not.
Confirm(a) ==
  /\ attempt[a].pc = "confirm"
  /\ IF Cardinality(confirmed) >= MaxCollections
       THEN Labelled(a, Other) /\ UNCHANGED confirmed
       ELSE /\ Labelled(a, attempt[a].name)
            /\ confirmed' = confirmed \cup {attempt[a].name}
  /\ UNCHANGED <<recorded, succeeded>>

\* The duration and the count are recorded under the label.
Measure(a) ==
  /\ attempt[a].pc = "labelled"
  /\ recorded' = recorded \cup {attempt[a].label}
  /\ attempt' = [attempt EXCEPT ![a] = NoAttempt]
  /\ UNCHANGED <<confirmed, succeeded>>

Next ==
  \E a \in Attempts :
    \/ \E c \in Calls, s \in Statuses : Begin(a, c, s)
    \/ Read(a) \/ Confirm(a) \/ Measure(a)

Spec == Init /\ [][Next]_vars

----------------------------------------------------------------------------
(* Correctness *)

\* A name a caller invented never becomes a label: every recorded label but
\* _OTHER was answered 2xx at least once.
OnlySuccessIsNamed == recorded \subseteq succeeded \cup {Other}

\* However many attempts race for the last place, the recorded names stay
\* within the cap.
NamesBounded == Cardinality(recorded \ {Other}) <= MaxCollections

\* Once a measurement has been recorded under the name of a collection, every
\* attempt that begins later keeps that name, the failed ones too.
KnownKeepsName ==
  \A a \in Attempts :
    attempt[a].pc = "labelled" /\ attempt[a].known => attempt[a].label = attempt[a].name

\* Whatever document, version or query a call asks for, it is measured under the
\* collection or global it is of, or under _OTHER; a URL that is not below the
\* API path, though it begins like it, only under _OTHER.
LabelIsCollection ==
  \A a \in Attempts :
    attempt[a].pc = "labelled" => attempt[a].label \in {attempt[a].of, Other}

\* A success for a name confirmed by the time it is labelled keeps the name.
ConfirmedKeepsName ==
  [][\A a \in Attempts :
       /\ attempt[a].pc \in {"read", "confirm"} /\ attempt'[a].pc = "labelled"
       /\ Success(attempt[a].status) /\ attempt[a].name \in confirmed
       => attempt'[a].label = attempt[a].name]_vars
=============================================================================
