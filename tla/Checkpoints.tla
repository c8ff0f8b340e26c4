---------------------------- MODULE Checkpoints ----------------------------
(***************************************************************************)
(* The agent-event stream and its checkpoint sidecar: a file that this     *)
(* process and others append to, an exporter that links its own events,    *)
(* and a checkpointer that keeps a running hash of the file and writes     *)
(* records that name a line and every byte through it.                     *)
(*                                                                         *)
(* Everything the exporter does is under its sink lock; other writers are  *)
(* not, so an emit is three steps: it looks at the end of the file, it     *)
(* appends, it hashes.  A hash is the sequence of what it covers.  Bytes   *)
(* are counted in halves: a line is its text and its LF, a fragment is a   *)
(* text without one; a line says at which byte it ends, and so does a      *)
(* record of the sidecar, which is a half torn and a half whole.           *)
(***************************************************************************)
EXTENDS Integers, Sequences, FiniteSets, SequencesExt, Functions, FiniteSetsExt

CONSTANTS
  EVERY_LINES, INTERVAL,
  MaxEmits, MaxOthers, MaxTorn, MaxFailed, MaxCrashes, MaxRotations,
  MaxTroubles     \* how much may go wrong in one run, of all but emits together

ASSUME CheckpointAssumption ==
  /\ {EVERY_LINES, INTERVAL} \subseteq Nat \ {0}
  /\ {MaxEmits, MaxOthers, MaxTorn, MaxFailed, MaxCrashes, MaxRotations, MaxTroubles} \subseteq Nat

VARIABLES
  lines,     \* the stream's lines: [id, event, ends, acked, prev, linked]
  tail,      \* the text after its last LF, or NoText
  next,      \* ChainSink.next: the id the next event links to, 0 for none
  emitting,  \* the emit under way, or NoEmit
  ck,        \* the Checkpointer
  waited,    \* time since ck.last_at, as far as it matters
  sidecar,   \* its records
  torn,      \* how many bytes are after the last complete one
  up,        \* "up", "down" or "closed"
  gen,       \* history: how often the stream was cut to nothing
  linkgen,   \* history: the generation next was set in, Nowhere if glued
  used       \* how much of each bound is spent

streamvars == <<lines, tail, next, emitting, ck, waited, sidecar, torn, up, gen, linkgen, used>>

NoText == [id |-> 0, event |-> FALSE, size |-> 0]
NoEmit == [stage |-> "idle", lf |-> FALSE, id |-> 0, wrote |-> 0]

Nowhere == -1

Through(ls) == IF ls = <<>> THEN 0 ELSE Last(ls).ends
Size(ls, t) == Through(ls) + t.size

(* The line that a text of an id makes of so many bytes, at the end of ls. *)
Line(ls, size, id, event) ==
  [id |-> id, event |-> event, ends |-> Through(ls) + size, acked |-> FALSE, prev |-> 0, linked |-> FALSE]

(* What it hashed, its sidecar_len, and of history: the generation it      *)
(* hashes, 1 once it failed to cut a torn record off, and how many records *)
(* there were before it did.                                               *)
EmptyCk == [sum |-> <<>>, off |-> 0, count |-> 0, head |-> 0, prev |-> 0, pending |-> 0, len |-> 0,
            gen |-> 0, uncut |-> 0, stands |-> 0]

StreamInit ==
  /\ lines = <<>> /\ tail = NoText /\ next = 0 /\ emitting = NoEmit
  /\ ck = EmptyCk /\ waited = 0 /\ sidecar = <<>> /\ torn = 0
  /\ up = "down" /\ gen = 0 /\ linkgen = 0
  /\ used = [emits |-> 0, others |-> 0, torn |-> 0, failed |-> 0, crashes |-> 0, rotations |-> 0]

Troubles == used.others + used.torn + used.failed + used.crashes + used.rotations

Spend(what, max) ==
  /\ used[what] < max
  /\ what = "emits" \/ Troubles < MaxTroubles
  /\ used' = [used EXCEPT ![what] = @ + 1]
NewId == used'.emits + used'.others

-----------------------------------------------------------------------------
(* Mutant: a record that was appended does not move the length on.         *)
write_record_unmeasured(c, outcome) ==
  CASE outcome = "ok" -> [c EXCEPT !.prev = Len(sidecar) + 1, !.pending = 0,
                                   !.stands = IF c.uncut = 0 THEN Len(sidecar) + 1 ELSE @]
    [] outcome = "uncut" -> [c EXCEPT !.uncut = 1]
    [] OTHER -> c

(* write_record: what the checkpointer is afterwards.  Nothing but a       *)
(* record that was appended moves it on.                                   *)
write_record(c, outcome) ==
  CASE outcome = "ok" -> [c EXCEPT !.prev = Len(sidecar) + 1, !.pending = 0, !.len = @ + 2,
                                   !.stands = IF c.uncut = 0 THEN Len(sidecar) + 1 ELSE @]
    [] outcome = "uncut" -> [c EXCEPT !.uncut = 1]
    [] OTHER -> c

(* What set_len leaves of the sidecar: the records that end by then. *)
CutTo(len) ==
  LET kept == {i \in DOMAIN sidecar : sidecar[i].ends =< len}
  IN  IF kept = {} THEN <<>> ELSE SubSeq(sidecar, 1, Max(kept))

(* The sidecar after it, and the bytes after its last record.  Nothing was *)
(* written when the key could not sign; a failed append is cut off at the  *)
(* length the checkpointer knows, or the cut fails too and what is there   *)
(* stays: the next record is glued to it and the length lags behind.       *)
Recorded(c, kind, count, head, sum, outcome, left) ==
  CASE outcome = "ok" ->
         /\ sidecar' = Append(sidecar,
              [kind |-> kind, count |-> count, head |-> head, prefix |-> sum, prev |-> c.prev,
               gen |-> c.gen, ends |-> Through(sidecar) + left + 2, glued |-> left,
               uncut |-> c.uncut])
         /\ torn' = 0
    [] outcome = "cut" -> sidecar' = CutTo(c.len) /\ torn' = c.len - Through(sidecar')
    [] outcome = "uncut" -> sidecar' = sidecar /\ torn' = left + 1
    [] outcome = "nothing" -> sidecar' = sidecar /\ torn' = left

(* maybe_write: lines wait, enough of them or long enough, and the last    *)
(* one is an event.                                                        *)
Due(c) ==
  /\ c.pending > 0 /\ c.head # 0
  /\ c.pending >= EVERY_LINES \/ waited >= INTERVAL

Failing(outcome) == IF outcome = "ok" THEN UNCHANGED used ELSE Spend("failed", MaxFailed)

maybe_write(c, outcome) ==
  IF Due(c)
  THEN /\ ck' = write_record(c, outcome)
       /\ Recorded(c, "checkpoint", c.count, c.head, c.sum, outcome, torn)
       /\ waited' = IF outcome = "ok" THEN 0 ELSE waited
       /\ Failing(outcome)
  ELSE outcome = "ok" /\ ck' = c /\ UNCHANGED <<sidecar, torn, waited, used>>

(* scan, from byte off: the lines that end after it. *)
scan(off) ==
  LET after == {i \in DOMAIN lines : lines[i].ends > off}
  IN  IF after = {} THEN <<>> ELSE SubSeq(lines, Min(after), Len(lines))

Ids(ls) == [i \in DOMAIN ls |-> ls[i].id]
head_of_line(l) == IF l.event THEN l.id ELSE 0

(* advance: what the file gained since off, read back; a file found        *)
(* shorter is hashed from byte zero.                                       *)
advance(c) ==
  LET cut == Size(lines, tail) < c.off
      b == IF cut THEN [c EXCEPT !.sum = <<>>, !.off = 0, !.count = 0, !.head = 0, !.gen = gen] ELSE c
      got == scan(b.off)
  IN  IF got = <<>> THEN b
      ELSE [b EXCEPT !.sum = @ \o Ids(got), !.off = Size(lines, NoText),
                     !.count = @ + Len(got), !.head = head_of_line(Last(got)),
                     !.pending = @ + Len(got)]

-----------------------------------------------------------------------------
(* emit, under the lock: does the file end in a fragment? *)
needs_newline ==
  /\ up = "up" /\ emitting = NoEmit
  /\ Spend("emits", MaxEmits)
  /\ emitting' = [stage |-> "write", id |-> NewId, wrote |-> 0,
                  lf |-> Size(lines, tail) # ck.off /\ tail # NoText]
  /\ UNCHANGED <<lines, tail, next, ck, waited, sidecar, torn, up, gen, linkgen>>

(* The lines after an LF that closes a fragment, or stands alone if the    *)
(* fragment is gone by now.                                                *)
Closed == Append(lines, Line(lines, tail.size + 1, tail.id, tail.event))

(* What appending a whole line leaves: glued to a fragment it is no event. *)
AppendLine(ls, t, l) ==
  Append(ls, IF t = NoText THEN l ELSE Line(ls, t.size + 2, t.id, FALSE))

(* Mutant: the event is linked to although it did not get to the file. *)
emit_advancing(outcome) ==
  LET e == emitting
      ls == IF e.lf THEN Closed ELSE lines
      t == IF e.lf THEN NoText ELSE tail
      line == [Line(ls, 2, e.id, TRUE) EXCEPT !.acked = TRUE, !.prev = next, !.linked = linkgen = gen]
  IN  /\ e.stage = "write"
      /\ next' = e.id /\ linkgen' = IF t = NoText THEN gen ELSE Nowhere
      /\ IF outcome = "ok"
         THEN /\ lines' = AppendLine(ls, t, line) /\ tail' = NoText
              /\ emitting' = [e EXCEPT !.stage = "hash", !.wrote = IF e.lf THEN 3 ELSE 2]
              /\ UNCHANGED used
         ELSE /\ emitting' = NoEmit /\ Spend("torn", MaxTorn)
              /\ lines' = IF outcome = "nothing" THEN lines ELSE ls
              /\ tail' = IF outcome = "nothing" THEN tail
                         ELSE [id |-> e.id, event |-> outcome = "all but the LF" /\ t = NoText,
                               size |-> t.size + 1]
      /\ UNCHANGED <<ck, waited, sidecar, torn, up, gen>>

(* emit: the append.  On an error part of it may be there, and the chain   *)
(* does not advance.                                                       *)
emit(outcome) ==
  LET e == emitting
      ls == IF e.lf THEN Closed ELSE lines
      t == IF e.lf THEN NoText ELSE tail
      line == [Line(ls, 2, e.id, TRUE) EXCEPT !.acked = TRUE, !.prev = next, !.linked = linkgen = gen]
  IN  /\ e.stage = "write"
      /\ IF outcome = "ok"
         THEN /\ lines' = AppendLine(ls, t, line) /\ tail' = NoText
              /\ next' = e.id /\ linkgen' = IF t = NoText THEN gen ELSE Nowhere
              /\ emitting' = [e EXCEPT !.stage = "hash", !.wrote = IF e.lf THEN 3 ELSE 2]
              /\ UNCHANGED used
         ELSE /\ emitting' = NoEmit /\ Spend("torn", MaxTorn)
              /\ lines' = IF outcome = "nothing" THEN lines ELSE ls
              /\ tail' = IF outcome = "nothing" THEN tail
                         ELSE [id |-> e.id, event |-> outcome = "all but the LF" /\ t = NoText,
                               size |-> t.size + 1]
              /\ UNCHANGED <<next, linkgen>>
      /\ UNCHANGED <<ck, waited, sidecar, torn, up, gen>>

(* Mutant: the line is hashed as written, whatever else came. *)
after_append_blind(outcome) ==
  /\ emitting.stage = "hash"
  /\ emitting' = NoEmit
  /\ maybe_write([ck EXCEPT !.sum = Append(@, emitting.id), !.off = @ + emitting.wrote,
                            !.count = @ + 1, !.head = next, !.pending = @ + 1], outcome)
  /\ UNCHANGED <<lines, tail, next, up, gen, linkgen>>

(* after_append: the file grew by exactly what was written, or it is read  *)
(* back.                                                                   *)
after_append(outcome) ==
  LET n == IF emitting.lf THEN 2 ELSE 1
      exact == Size(lines, tail) = ck.off + emitting.wrote
      c == IF exact
           THEN [ck EXCEPT !.sum = @ \o (IF n = 2 THEN <<0>> ELSE <<>>) \o <<emitting.id>>,
                           !.off = Size(lines, tail), !.count = @ + n, !.head = next,
                           !.pending = @ + n]
           ELSE advance(ck)
  IN  /\ emitting.stage = "hash"
      /\ emitting' = NoEmit
      /\ maybe_write(c, outcome)
      /\ UNCHANGED <<lines, tail, next, up, gen, linkgen>>

(* About once a second. *)
tick(outcome) ==
  /\ up = "up" /\ emitting = NoEmit /\ Due(ck)
  /\ maybe_write(ck, outcome)
  /\ UNCHANGED <<lines, tail, next, emitting, up, gen, linkgen>>

Age ==
  /\ waited < INTERVAL
  /\ waited' = waited + 1
  /\ UNCHANGED <<lines, tail, next, emitting, ck, sidecar, torn, up, gen, linkgen, used>>

(* A clean close: the file is read and a close record names its last line. *)
close(outcome) ==
  LET c == advance(ck)
  IN  /\ up = "up" /\ emitting = NoEmit
      /\ up' = "closed"
      /\ IF c.head # 0
         THEN /\ ck' = write_record(c, outcome)
              /\ Recorded(c, "close", c.count, c.head, c.sum, outcome, torn)
              /\ Failing(outcome)
         ELSE outcome = "ok" /\ ck' = c /\ UNCHANGED <<sidecar, torn, used>>
      /\ UNCHANGED <<lines, tail, next, emitting, waited, gen, linkgen>>

-----------------------------------------------------------------------------
(* tail_chain_hash: the last text of the file, terminated or not. *)
tail_chain_hash ==
  LET last == IF tail # NoText THEN tail ELSE IF lines = <<>> THEN NoText ELSE Last(lines)
  IN  IF last.event THEN last.id ELSE 0

(* sidecar_tail: what is left of a torn record at open. *)
sidecar_tail == 0

(* open_file and attach_checkpoints: the chain goes on from the last text, *)
(* the sidecar from its last record; a torn record is cut, the file is     *)
(* hashed, and where the chain cannot go on a resume record names the last *)
(* line that is an event; without it the process does not start.           *)
open(outcome) ==
  LET events == {i \in DOMAIN lines : lines[i].event}
      c == [EmptyCk EXCEPT !.sum = Ids(lines), !.off = Size(lines, NoText), !.count = Len(lines),
              !.head = IF lines = <<>> THEN 0 ELSE head_of_line(Last(lines)),
              !.prev = Len(sidecar), !.len = Through(sidecar), !.gen = gen, !.stands = Len(sidecar)]
      at == Max(events)
  IN  /\ up = "down"
      /\ up' = IF outcome = "ok" THEN "up" ELSE "down"
      /\ emitting' = NoEmit /\ waited' = 0
      /\ next' = tail_chain_hash /\ linkgen' = gen
      /\ IF tail_chain_hash = 0 /\ events # {}
         THEN /\ ck' = write_record(c, outcome)
              /\ Recorded(c, "resume", at, lines[at].id, Ids(SubSeq(lines, 1, at)), outcome, sidecar_tail)
              /\ Failing(outcome)
         ELSE outcome = "ok" /\ ck' = c /\ torn' = sidecar_tail /\ UNCHANGED <<sidecar, used>>
      /\ UNCHANGED <<lines, tail, gen>>

(* Another process appends a line, in one write. *)
OtherAppends ==
  /\ Spend("others", MaxOthers)
  /\ lines' = AppendLine(lines, tail, Line(lines, 2, NewId, TRUE))
  /\ tail' = NoText
  /\ UNCHANGED <<next, emitting, ck, waited, sidecar, torn, up, gen, linkgen>>

(* Or only part of one. *)
OtherTears ==
  /\ Spend("others", MaxOthers)
  /\ tail' = IF tail = NoText THEN [id |-> NewId, event |-> FALSE, size |-> 1]
             ELSE [tail EXCEPT !.event = FALSE, !.size = @ + 1]
  /\ UNCHANGED <<lines, next, emitting, ck, waited, sidecar, torn, up, gen, linkgen>>

(* The process dies, perhaps in the middle of a record. *)
Crash ==
  /\ up = "up" /\ Spend("crashes", MaxCrashes)
  /\ up' = "down" /\ emitting' = NoEmit
  /\ torn' \in {torn} \cup IF Due(ck) THEN {torn + 1} ELSE {}
  /\ UNCHANGED <<lines, tail, next, ck, waited, sidecar, gen, linkgen>>

(* Somebody cuts the stream to nothing under the writer. *)
Rotate ==
  /\ lines # <<>> /\ Spend("rotations", MaxRotations)
  /\ lines' = <<>> /\ tail' = NoText /\ gen' = gen + 1
  /\ UNCHANGED <<next, emitting, ck, waited, sidecar, torn, up, linkgen>>

StreamNext ==
  \/ needs_newline
  \/ \E o \in {"ok", "nothing", "torn", "all but the LF"} : emit(o)
  \/ \E o \in {"ok", "nothing", "cut", "uncut"} : after_append(o) \/ tick(o) \/ close(o) \/ open(o)
  \/ Age
  \/ OtherAppends
  \/ OtherTears
  \/ Crash
  \/ Rotate

(* The tick task keeps running, time passes and a stopped process is       *)
(* started again.                                                          *)
KeepsRunning == tick("ok") \/ Age \/ after_append("ok") \/ emit("ok") \/ open("ok")

StreamFairness == WF_streamvars(KeepsRunning)

StreamSpec == StreamInit /\ [][StreamNext]_streamvars /\ StreamFairness
-----------------------------------------------------------------------------
(* A record about the stream as it is names a line that is an event, and   *)
(* every byte through it: with another writer's lines between, after a     *)
(* torn append, a crash or a cut.                                          *)
RecordsTrue ==
  \A i \in DOMAIN sidecar : sidecar[i].gen = gen =>
    LET r == sidecar[i]
    IN  /\ r.count \in DOMAIN lines
        /\ r.head = head_of_line(lines[r.count]) /\ r.head # 0
        /\ r.prefix = Ids(SubSeq(lines, 1, r.count))

(* The records are whole and each names the one before it, and none is cut *)
(* off again, whatever append failed and wherever the process died; but a  *)
(* process that could not cut a torn record off promises nothing of its    *)
(* records from there on (checkpoint.rs:860, against :820).                *)
SidecarChained ==
  /\ \A i \in DOMAIN sidecar : sidecar[i].uncut = 0 => sidecar[i].prev = i - 1 /\ sidecar[i].glued = 0
  /\ Len(sidecar) >= ck.stands

(* An event that was acknowledged links to one whose text stands before it *)
(* in the file, with no other acknowledged one between.                    *)
LinkedToDisk ==
  \A i \in DOMAIN lines : lines[i].acked /\ lines[i].linked /\ lines[i].prev # 0 =>
    \E j \in 1 .. i - 1 : /\ lines[j].id = lines[i].prev
                          /\ \A k \in j + 1 .. i - 1 : ~lines[k].acked

(* What the running process has hashed and can name gets its record.       *)
PendingIsRecorded ==
  (up = "up" /\ ck.pending > 0 /\ ck.head # 0)
    ~> (ck.pending = 0 \/ ck.head = 0 \/ up # "up")

(* The checkpoint chain, whole: its records are true, chained and of lines *)
(* that link to what is on disk.                                           *)
CheckpointsTrue == RecordsTrue /\ SidecarChained /\ LinkedToDisk
=============================================================================
