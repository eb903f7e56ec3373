------------------------------- MODULE Stream -------------------------------
(***************************************************************************)
(* The streamWriter of httpserver counts the messages of a server-sent     *)
(* event stream from the bytes that pass, in whatever pieces the handler   *)
(* writes them, and times the first one.                                   *)
(*                                                                         *)
(* A byte is part of an end of line, "CR" before "LF" or "LF" alone, or it *)
(* is any other, "d".  Only what the connection accepts of a write is      *)
(* observed.                                                               *)
(***************************************************************************)
EXTENDS Naturals, Sequences, FiniteSets

CONSTANTS MaxText,   \* bound: bytes of a stream
          MaxChunk   \* bound: bytes of a write

ASSUME StreamAssumption == MaxText \in Nat /\ MaxChunk \in Nat

VARIABLES text,     \* the bytes accepted so far
          writer    \* streamWriter: [newlines, events, firstEvent]
vars == <<text, writer>>

Bytes == {"d", "CR", "LF"}

\* firstEvent is the moment of the write, told by the length of the text then.
Fresh == [newlines |-> 0, events |-> 0, firstEvent |-> 0]

\* Variant: carriage returns end the run of line feeds.
ObserveByte_CRResets(w, b, now) ==
  IF b # "LF" THEN [w EXCEPT !.newlines = 0]
  ELSE IF w.newlines + 1 # 2 THEN [w EXCEPT !.newlines = @ + 1]
  ELSE [newlines |-> 2, events |-> w.events + 1,
        firstEvent |-> IF w.events = 0 THEN now ELSE w.firstEvent]

\* The loop body of observe: the second line feed in a row ends a message.
ObserveByte(w, b, now) ==
  CASE b = "CR" -> w
    [] b = "LF" /\ w.newlines = 1 ->
         [newlines |-> 2, events |-> w.events + 1,
          firstEvent |-> IF w.events = 0 THEN now ELSE w.firstEvent]
    [] b = "LF" /\ w.newlines # 1 -> [w EXCEPT !.newlines = @ + 1]
    [] OTHER -> [w EXCEPT !.newlines = 0]

\* Variant: the run of line feeds begins anew with each write.
Observe_PerWrite(w, bytes, now) ==
  LET after[n \in 0..Len(bytes)] ==
        IF n = 0 THEN [w EXCEPT !.newlines = 0] ELSE ObserveByte(after[n - 1], bytes[n], now)
  IN  after[Len(bytes)]

\* What the writer is after each of the bytes.
Observe(w, bytes, now) ==
  LET after[n \in 0..Len(bytes)] ==
        IF n = 0 THEN w ELSE ObserveByte(after[n - 1], bytes[n], now)
  IN  after[Len(bytes)]

----------------------------------------------------------------------------
(* What a message is, said of the whole text *)

\* Line feeds, and where the line each of them ends begins.
LineFeeds(t) == {i \in DOMAIN t : t[i] = "LF"}
LineStart(t, i) ==
  CHOOSE s \in 1..i : /\ s = 1 \/ t[s - 1] = "LF"
                      /\ \A k \in s..(i - 1) : t[k] # "LF"
IsBlank(t, i) == \A k \in LineStart(t, i)..(i - 1) : t[k] = "CR"

\* A blank line ends a message if the line before it is none.  A message of
\* comments only, which a client does not get to see, is one here.
MessageEnds(t) ==
  {i \in LineFeeds(t) :
     /\ IsBlank(t, i)
     /\ \E j \in LineFeeds(t) : j + 1 = LineStart(t, i) /\ ~IsBlank(t, j)}

Messages(t) == Cardinality(MessageEnds(t))

----------------------------------------------------------------------------

\* What a handler sends: a carriage return only in front of a line feed, and no
\* blank line before the first message.
WellFormed(t) ==
  /\ \A i \in DOMAIN t : t[i] = "CR" /\ i < Len(t) => t[i + 1] = "LF"
  /\ t # <<>> => t[1] = "d"

Init == text = <<>> /\ writer = Fresh

\* streamWriter.Write: of the bytes of a write, `taken' are accepted.
Write(bytes, taken) ==
  /\ Len(text) + Len(bytes) <= MaxText
  /\ WellFormed(text \o bytes)
  /\ text' = text \o SubSeq(bytes, 1, taken)
  /\ writer' = Observe(writer, SubSeq(bytes, 1, taken), Len(text))

Next ==
  \E n \in 1..MaxChunk : \E bytes \in [1..n -> Bytes] : \E taken \in 0..n :
    Write(bytes, taken)

Spec == Init /\ [][Next]_vars

----------------------------------------------------------------------------
(* Correctness *)

TypeOK ==
  /\ \A i \in DOMAIN text : text[i] \in Bytes
  /\ writer \in [newlines : 0..Len(text), events : 0..Len(text), firstEvent : 0..Len(text)]

\* "How many messages it sent": the count is that of the whole text, however
\* its bytes were cut into writes and whatever ended its lines.
CountsMessages == writer.events = Messages(text)

\* "The wait for the first complete message": the moment noted is that of the
\* write that completed it, the first one after which the text has a message,
\* and no later message changes it.
FirstEventIsTimed ==
  [][writer'.firstEvent = IF Messages(text) = 0 /\ Messages(text') > 0 THEN Len(text)
                          ELSE writer.firstEvent]_vars
=============================================================================
