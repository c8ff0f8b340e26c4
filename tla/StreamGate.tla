----------------------------- MODULE StreamGate -----------------------------
(***************************************************************************)
(* ToolCallHold, crates/gateway/src/streamgate.rs: what stands between the *)
(* provider's stream and the caller.  It cuts the bytes into server-sent   *)
(* events, forwards each as soon as it is complete, and from the first     *)
(* event that opens a tool call holds everything to the end of the stream. *)
(*                                                                         *)
(* The stream arrives in chunks cut anywhere.  A byte here is a line       *)
(* terminator, or stands for the whole text of a line:                     *)
(*   "call"           data: with a document that opens a tool call;        *)
(*   "head", "rest"   the two data lines of one such document;             *)
(*   "ran"            data: with a document recording a tool the provider  *)
(*                    ran itself;                                          *)
(*   "note"           a comment or another field, no data.                 *)
(* Cutting a line's text in two changes nothing in the scan.               *)
(***************************************************************************)
EXTENDS Integers, Sequences, SequencesExt

CONSTANTS
  Symbols,    \* the bytes a provider may send
  MaxLength,  \* bound on the length of a stream
  MaxChunk    \* bound on the length of a chunk

VARIABLES
  arrived,    \* the stream so far
  buf, scan_pos, line_start, holding, held,   \* the fields of ToolCallHold
  out,        \* what was forwarded
  calls_seen, \* the documents in anthropic_blocks and openai_calls
  ran_seen,   \* what take_provider_tools has handed over
  ended       \* the provider's stream ended and finish was called

gatevars == <<arrived, buf, scan_pos, line_start, holding, held, out, calls_seen, ran_seen, ended>>

Terminators == {"cr", "lf"}

-----------------------------------------------------------------------------
(* split_sse_events: the lines of a text, then its documents.  A line ends *)
(* at LF, at CRLF, or at a CR that no LF follows.                          *)
LineEnds(s) ==
  {i \in DOMAIN s : s[i] = "lf" \/ (s[i] = "cr" /\ (i = Len(s) \/ s[i + 1] # "lf"))}

TextOf(s, from, to) == SelectSeq(SubSeq(s, from, to), LAMBDA b : b \notin Terminators)

Lines(s) ==
  LET ends == SetToSortSeq(LineEnds(s) \cup {Len(s)}, <)
      begins(k) == IF k = 1 THEN 1 ELSE ends[k - 1] + 1
  IN  [k \in DOMAIN ends |-> TextOf(s, begins(k), ends[k])]

(* What the data lines of one event spell, when they spell a document. *)
Document(data) ==
  CASE data = <<"call">> \/ data = <<"head", "rest">> -> "call"
    [] data = <<"ran">> -> "ran"
    [] OTHER -> "none"

(* The data lines between blank line number b and the next. *)
Within(lines, blanks, b) ==
  LET upto == {k \in DOMAIN lines : k > b /\ \A c \in blanks : c > b => k < c}
      data == SelectSeq(SetToSortSeq(upto, <), LAMBDA k : lines[k] # <<"note">>)
  IN  [j \in DOMAIN data |-> IF Len(lines[data[j]]) = 1 THEN lines[data[j]][1] ELSE "none"]

Documents(s) ==
  UNION {LET blanks == {k \in DOMAIN lines : lines[k] = <<>>}
         IN  {Document(Within(lines, blanks, b)) : b \in blanks \cup {0}} :
         lines \in {IF s = <<>> THEN <<>> ELSE Lines(s)}}

-----------------------------------------------------------------------------
(* Mutant: a CR at the end of the chunk is taken for a whole terminator. *)
Terminator_guessing(b, i) ==
  IF b[i] = "cr" THEN IF i = Len(b) THEN 1 ELSE IF b[i + 1] = "lf" THEN 2 ELSE 1
  ELSE 1

(* The length of the terminator at i, 0 when the next byte must be seen. *)
Terminator(b, i) ==
  IF b[i] = "cr" THEN IF i = Len(b) THEN 0 ELSE IF b[i + 1] = "lf" THEN 2 ELSE 1
  ELSE 1

(* next_event_end from position i of b, with the current line at start:    *)
(* where the event ends, or where the scan resumes.                        *)
RECURSIVE next_event_end(_, _, _)
next_event_end(b, i, start) ==
  IF i > Len(b) THEN [end |-> 0, scan_pos |-> i, line_start |-> start]
  ELSE IF b[i] \notin Terminators THEN next_event_end(b, i + 1, start)
  ELSE IF Terminator(b, i) = 0 THEN [end |-> 0, scan_pos |-> i, line_start |-> start]
  ELSE IF i = start THEN [end |-> i + Terminator(b, i) - 1, scan_pos |-> 1, line_start |-> 1]
  ELSE next_event_end(b, i + Terminator(b, i), i + Terminator(b, i))

(* Mutant: holding lasts as long as the event that opens the call. *)
route_per_event(g, raw) ==
  LET docs == Documents(raw)
      hold == "call" \in docs
  IN  [g EXCEPT !.holding = hold, !.calls = @ \cup (docs \cap {"call"}), !.ran = @ \cup (docs \cap {"ran"}),
                !.held = IF hold THEN @ \o raw ELSE @,
                !.out = IF hold THEN @ ELSE @ \o raw]

(* One event: read it, then forward it or hold it. *)
route(g, raw) ==
  LET docs == Documents(raw)
      hold == g.holding \/ "call" \in docs
  IN  [g EXCEPT !.holding = hold, !.calls = @ \cup (docs \cap {"call"}), !.ran = @ \cup (docs \cap {"ran"}),
                !.held = IF hold THEN @ \o raw ELSE @,
                !.out = IF hold THEN @ ELSE @ \o raw]

(* The loop of push: events while the buffer holds a complete one. *)
RECURSIVE Drained(_)
Drained(g) ==
  LET n == next_event_end(g.buf, g.scan_pos, g.line_start)
  IN  IF n.end = 0 THEN [g EXCEPT !.scan_pos = n.scan_pos, !.line_start = n.line_start]
      ELSE Drained(route([g EXCEPT !.buf = SubSeq(@, n.end + 1, Len(@)),
                                   !.scan_pos = 1, !.line_start = 1],
                         SubSeq(g.buf, 1, n.end)))

Gate ==
  [buf |-> buf, scan_pos |-> scan_pos, line_start |-> line_start, holding |-> holding, held |-> held,
   out |-> out, calls |-> calls_seen, ran |-> ran_seen]

Becomes(g) ==
  /\ buf' = g.buf /\ scan_pos' = g.scan_pos /\ line_start' = g.line_start
  /\ holding' = g.holding /\ held' = g.held /\ out' = g.out
  /\ calls_seen' = g.calls /\ ran_seen' = g.ran

GateInit ==
  /\ arrived = <<>> /\ buf = <<>> /\ scan_pos = 1 /\ line_start = 1
  /\ holding = FALSE /\ held = <<>> /\ out = <<>>
  /\ calls_seen = {} /\ ran_seen = {} /\ ended = FALSE

(* push: the caller of it takes the provider's tools before the bytes go.  *)
push(chunk) ==
  /\ ~ended
  /\ Len(arrived) + Len(chunk) =< MaxLength
  /\ arrived' = arrived \o chunk
  /\ Becomes(Drained([Gate EXCEPT !.buf = @ \o chunk]))
  /\ UNCHANGED ended

(* The unterminated rest is an event like any other. *)
Flushed(g) == IF g.buf = <<>> THEN g ELSE route([g EXCEPT !.buf = <<>>], g.buf)

finish ==
  /\ ~ended
  /\ ended' = TRUE
  /\ Becomes(Flushed(Gate))
  /\ UNCHANGED arrived

GateNext ==
  \/ \E n \in 1 .. MaxChunk : \E chunk \in [1 .. n -> Symbols] : push(chunk)
  \/ finish

GateSpec == GateInit /\ [][GateNext]_gatevars
-----------------------------------------------------------------------------
(* Every byte is forwarded, held or waiting, in the order it came, however *)
(* the stream was cut.                                                     *)
NoByteLost == out \o held \o buf = arrived

(* What the caller has read so far carries no tool call, read the way a    *)
(* client reads it, an unterminated last event included: not one reaches   *)
(* it before it was judged.                                                *)
NoCallSlips == "call" \notin Documents(out)

(* What the provider ran is known before the bytes that record it go out,  *)
(* and no later than the end of the stream when they are held.             *)
RanIsKnownFirst ==
  "ran" \in Documents(IF ended THEN arrived ELSE out) => "ran" \in ran_seen

(* The end of the stream finds the same tool calls and the same cut        *)
(* whatever the chunks were: those of the stream read at once.             *)
CutsDoNotMatter ==
  ended => \E whole \in {Flushed(Drained([buf |-> arrived, scan_pos |-> 1, line_start |-> 1, holding |-> FALSE,
                                          held |-> <<>>, out |-> <<>>, calls |-> {}, ran |-> {}]))} :
             /\ <<out, held, calls_seen, ran_seen>> = <<whole.out, whole.held, whole.calls, whole.ran>>
             /\ calls_seen = Documents(arrived) \cap {"call"}

(* The gate on a streamed answer, whole: no byte lost or out of order, no  *)
(* tool call past it unjudged, what the provider ran known first, and the  *)
(* same outcome wherever the network cut the stream.                       *)
GateSound == NoByteLost /\ NoCallSlips /\ RanIsKnownFirst /\ CutsDoNotMatter
=============================================================================
