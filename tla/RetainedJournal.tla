-------------------------- MODULE RetainedJournal --------------------------
(***************************************************************************)
(* The retained-reservation journal (crates/gateway/src/retainedjournal.rs)*)
(* as a file, with the calls that write it (SettleGuard::retain), the      *)
(* closures that end them (closure.rs, POST /v1/retained/close), and what  *)
(* a crash, a failed write and a restart leave of all three.               *)
(*                                                                         *)
(* A call stands for its record, so it is the record's revision: a hash of *)
(* the content, unique where the reservation id is not.  The ledgers are   *)
(* reduced to the set of calls they hold outstanding; Ledger, UnitLedger   *)
(* and Restart say what that is worth.  The gateway has a data directory,  *)
(* an in-process ledger and a closure secret; the console mints a valid    *)
(* token for whatever it asks.                                             *)
(***************************************************************************)
EXTENDS Integers, Sequences, FiniteSets, SequencesExt

CONSTANTS
  Calls,        \* managed calls
  Ops,          \* operation ids of the console
  NoOp,
  Faults,       \* how a write may fail: "nothing" is written, only "part" of the
                \* line, all of it but "unsynced"; a rewrite that cannot "reopen"
  MaxRetained,  \* MAX_RETAINED
  MaxStarts,    \* bound on startups
  MaxWrites     \* bound on the chunks of the file

ASSUME JournalAssumption ==
  /\ NoOp \notin Ops
  /\ Faults \subseteq {"nothing", "part", "unsynced", "reopen"}
  /\ MaxRetained \in Nat /\ MaxStarts \in Nat /\ MaxWrites \in Nat

VARIABLES
  file,      \* the journal's chunks, in order
  linked,    \* whether the append handle is the file the next start reads
  synced,    \* how many of them are on stable storage
  phase,     \* of the process: "down", "opened", "replayed", "serving"
  starts,    \* startups so far
  next_reservation_id,   \* the ledger's reservation counter
  id,        \* call -> its reservation id, 0 before it has one
  held,      \* calls outstanding in this process's ledgers
  listed,    \* Retained: the registry
  books,     \* Books.by_operation: op -> the ClosureRecord noted, or NoRecord
  door,      \* the closure under way, under the books' lock
  rows,      \* call -> allow rows its closures wrote to the sink
  told,      \* call -> what its guard was told: "", "journaled", "unwritten",
             \* and "astray" if it was told "journaled" and no start will read it
  begun,     \* history: call -> "" before any closure of it was begun, then "begun";
             \* "unsynced" once one was refused and its bytes are in the file,
             \* "astray" once one was written where no start will read it
  answers    \* op -> the last answer it was given

jvars == <<file, linked, synced, phase, starts, next_reservation_id, id, held, listed, books, door,
           rows, told, begun, answers>>

Kinds == {"observed", "no_charge"}

(* start: the process that wrote it, for the record's time of writing. *)
Line(kind, k, op, evidence) ==
  [kind |-> kind, call |-> k, id |-> id[k], op |-> op, evidence |-> evidence, start |-> starts]

Retained(k) == Line("retained", k, NoOp, "")
Torn == [kind |-> "torn"]
Newline == [kind |-> "newline"]

NoRecord == [kind |-> "none"]
NoAnswer == [is |-> "none"]

-----------------------------------------------------------------------------
(***************************************************************************)
(* Reading.  A chunk that does not follow a torn one starts a line of its  *)
(* own; one that does is fused with it into a line that does not parse.    *)
(***************************************************************************)
Parsed(f, kind) ==
  {i \in DOMAIN f : f[i].kind = kind /\ (i > 1 => f[i - 1].kind # "torn")}

Closed(f) == {<<f[i].call, f[i].id>> : i \in Parsed(f, "closure")}

(* Retained records no closure names by id and revision. *)
StillOpen(f) == {i \in Parsed(f, "retained") : <<f[i].call, f[i].id>> \notin Closed(f)}

(* restore_outstanding takes the first record of an id. *)
Restored(f) ==
  {i \in StillOpen(f) : \A j \in StillOpen(f) : j < i => f[j].id # f[i].id}

(* Pushed in file order until the registry is full. *)
Listable(f) ==
  {i \in Restored(f) : Cardinality({j \in Restored(f) : j < i}) < MaxRetained}

(* What the startup rewrite keeps, in file order. *)
Nth(S, n) == CHOOSE i \in S : Cardinality({j \in S : j =< i}) = n
keep(f) == [n \in 1 .. Cardinality(StillOpen(f)) |-> f[Nth(StillOpen(f), n)]]

(* remember: noted in file order, so the last record of an operation wins. *)
Remembered(f, op) ==
  LET of == {i \in Parsed(f, "closure") : f[i].op = op}
  IN  IF of = {} THEN NoRecord ELSE f[CHOOSE i \in of : \A j \in of : j =< i]

CallsAt(f, positions) == {f[i].call : i \in positions}

(* append_line: write_all, then sync_data.  A sync covers all that was     *)
(* written before it.                                                      *)
append(line, outcome) ==
  /\ Len(file) < MaxWrites
  /\ file' = CASE ~linked \/ outcome = "nothing" -> file
               [] outcome = "part" -> Append(file, Torn)
               [] OTHER -> Append(file, line)
  /\ synced' = IF outcome = "ok" THEN Len(file') ELSE synced

-----------------------------------------------------------------------------
JournalInit ==
  /\ file = <<>>
  /\ linked = TRUE
  /\ synced = 0
  /\ phase = "down"
  /\ starts = 0
  /\ next_reservation_id = 0
  /\ id = [k \in Calls |-> 0]
  /\ held = {}
  /\ listed = {}
  /\ books = [op \in Ops |-> NoRecord]
  /\ door = NoRecord
  /\ rows = [k \in Calls |-> 0]
  /\ told = [k \in Calls |-> ""]
  /\ begun = [k \in Calls |-> ""]
  /\ answers = [op \in Ops |-> NoAnswer]

(* Journal::open ends a torn last line.  A file that cannot be opened or   *)
(* read refuses the start.                                                 *)
open ==
  /\ phase = "down" /\ starts < MaxStarts
  /\ starts' = starts + 1
  /\ phase' = "opened"
  /\ file' = IF file # <<>> /\ Last(file).kind = "torn" THEN Append(file, Newline) ELSE file
  /\ linked' = TRUE
  /\ synced' = Len(file')
  /\ UNCHANGED <<next_reservation_id, id, held, listed, books, door, rows, told, answers, begun>>

replay ==
  /\ phase = "opened"
  /\ phase' = "replayed"
  /\ held' = CallsAt(file, Restored(file))
  /\ listed' = CallsAt(file, Listable(file))
  /\ next_reservation_id' = Max({file[i].id : i \in Restored(file)} \cup {0})
  /\ books' = [op \in Ops |-> Remembered(file, op)]
  /\ UNCHANGED <<linked, file, synced, starts, id, door, rows, told, answers, begun>>

(* The temp file is synced and renamed over the journal, and the append    *)
(* handle reopened on it; or nothing is changed; or the rename is done and *)
(* the handle is still the replaced file's.                                *)
rewrite(outcome) ==
  /\ phase = "replayed"
  /\ phase' = "serving"
  /\ file' = IF outcome = "nothing" THEN file ELSE keep(file)
  /\ linked' = (outcome # "reopen")
  /\ synced' = Len(file')
  /\ UNCHANGED <<starts, next_reservation_id, id, held, listed, books, door, rows, told,
                 answers, begun>>

(* A call is reserved and handed to the provider. *)
Dispatch(k) ==
  /\ phase = "serving"
  /\ id[k] = 0
  /\ next_reservation_id' = next_reservation_id + 1
  /\ id' = [id EXCEPT ![k] = next_reservation_id + 1]
  /\ held' = held \cup {k}
  /\ UNCHANGED <<linked, file, synced, phase, starts, listed, books, door, rows,
                 told, answers, begun>>

InFlight == {k \in held : told[k] = ""}

(* It is answered and settled. *)
SettleHeld(k) ==
  /\ phase = "serving" /\ k \in InFlight
  /\ held' = held \ {k}
  /\ UNCHANGED <<linked, file, synced, phase, starts, next_reservation_id, id, listed, books,
                 door, rows, told, answers, begun>>

(* Its caller leaves before any answer: journaled, then listed if there is *)
(* room, outstanding either way.                                           *)
retain(k, outcome) ==
  /\ phase = "serving" /\ k \in InFlight
  /\ append(Retained(k), outcome)
  /\ told' = [told EXCEPT ![k] = IF outcome # "ok" THEN "unwritten"
                                 ELSE IF linked THEN "journaled" ELSE "astray"]
  /\ listed' = IF Cardinality(listed) < MaxRetained THEN listed \cup {k} ELSE listed
  /\ UNCHANGED <<linked, phase, starts, next_reservation_id, id, held, books, door, rows,
                 answers, begun>>

-----------------------------------------------------------------------------
(***************************************************************************)
(* apply: the closure, under the books' lock from its first step to its    *)
(* last.  Refusals that change nothing are not steps, except the failed    *)
(* write, whose answer counts.                                             *)
(***************************************************************************)
Answer(op, is, record) ==
  answers' = [answers EXCEPT ![op] = [is |-> is, record |-> record]]

(* The same operation again: answered from the books. *)
Replayed(op) ==
  /\ phase = "serving" /\ door = NoRecord
  /\ books[op] # NoRecord
  /\ Answer(op, "ok", books[op])
  /\ UNCHANGED <<linked, file, synced, phase, starts, next_reservation_id, id, held, listed,
                 books, door, rows, told, begun>>

(* Neither replayed nor in conflict, not closed, listed, at this revision. *)
Closable(op, k) ==
  /\ books[op] = NoRecord
  /\ \A o \in Ops : books[o] # NoRecord => <<books[o].call, books[o].id>> # <<k, id[k]>>
  /\ k \in listed

(* What history makes of a closure of k that became what. *)
Begin(k, what) ==
  begun' = [begun EXCEPT ![k] =
              CASE @ = "astray" \/ what = "" -> @
                [] @ = "unsynced" /\ what = "begun" -> @
                [] OTHER -> what]

(* Mutant: the closure goes on when its record could not be written. *)
append_closure_regardless(op, k, evidence, outcome) ==
  LET record == Line("closure", k, op, evidence)
  IN  /\ phase = "serving" /\ door = NoRecord
      /\ Closable(op, k)
      /\ append(record, outcome)
      /\ door' = [record EXCEPT !.kind = "appended"]
      /\ Begin(k, IF linked THEN "begun" ELSE "astray")
      /\ UNCHANGED <<linked, phase, starts, next_reservation_id, id, held, listed, books, rows,
                     told, answers>>

append_closure(op, k, evidence, outcome) ==
  LET record == Line("closure", k, op, evidence)
  IN  /\ phase = "serving" /\ door = NoRecord
      /\ Closable(op, k)
      /\ append(record, outcome)
      /\ IF outcome = "ok"
         THEN /\ door' = [record EXCEPT !.kind = "appended"]
              /\ Begin(k, IF linked THEN "begun" ELSE "astray")
              /\ UNCHANGED answers
         ELSE /\ UNCHANGED door
              /\ Begin(k, IF linked /\ outcome = "unsynced" THEN "unsynced" ELSE "")
              /\ Answer(op, "journal_write_failed", record)
      /\ UNCHANGED <<linked, phase, starts, next_reservation_id, id, held, listed, books, rows,
                     told>>

(* take, ledger.settle, units.settle. *)
SettleClosed ==
  /\ phase = "serving" /\ door.kind = "appended"
  /\ door' = [door EXCEPT !.kind = "settled"]
  /\ listed' = listed \ {door.call}
  /\ held' = held \ {door.call}
  /\ UNCHANGED <<linked, file, synced, phase, starts, next_reservation_id, id, books, rows,
                 told, answers, begun>>

(* An observed cost is a row in the sink; a release is none. *)
RecordClosed ==
  /\ phase = "serving" /\ door.kind = "settled"
  /\ door' = [door EXCEPT !.kind = "recorded"]
  /\ rows' = IF door.evidence = "observed" THEN [rows EXCEPT ![door.call] = @ + 1] ELSE rows
  /\ UNCHANGED <<linked, file, synced, phase, starts, next_reservation_id, id, held, listed,
                 books, told, answers, begun>>

note ==
  LET record == [door EXCEPT !.kind = "closure"]
  IN  /\ phase = "serving" /\ door.kind = "recorded"
      /\ door' = NoRecord
      /\ books' = [books EXCEPT ![door.op] = record]
      /\ Answer(door.op, "ok", record)
      /\ UNCHANGED <<linked, file, synced, phase, starts, next_reservation_id, id, held, listed,
                     rows, told, begun>>

-----------------------------------------------------------------------------
(* What is left of a file when the process or the machine stops: what was  *)
(* synced, and any part of what was not.                                   *)
Leftovers(f) ==
  {SubSeq(f, 1, n) : n \in synced .. Len(f)} \cup
  {Append(SubSeq(f, 1, n), Torn) : n \in synced .. (Len(f) - 1)}

Dies ==
  /\ phase' = "down"
  /\ next_reservation_id' = 0
  /\ held' = {}
  /\ listed' = {}
  /\ books' = [op \in Ops |-> NoRecord]
  /\ door' = NoRecord
  /\ synced' = Len(file')
  /\ UNCHANGED <<linked, starts, id, rows, answers>>

Crash ==
  /\ phase # "down"
  /\ file' \in Leftovers(file)
  /\ Dies
  /\ UNCHANGED <<told, begun>>

(* In the middle of an append: its line may be there, in part or not. *)
CrashAppending(line) ==
  /\ phase = "serving" /\ Len(file) < MaxWrites
  /\ file' \in IF linked THEN Leftovers(Append(file, line)) ELSE {file}
  /\ Dies

CrashRetaining(k) ==
  /\ k \in InFlight
  /\ CrashAppending(Retained(k))
  /\ told' = [told EXCEPT ![k] = "unwritten"]
  /\ UNCHANGED begun

CrashClosing(op, k, evidence) ==
  /\ door = NoRecord /\ Closable(op, k)
  /\ CrashAppending(Line("closure", k, op, evidence))
  /\ Begin(k, "begun")
  /\ UNCHANGED told

WriteOutcomes == {"ok"} \cup (Faults \ {"reopen"})

JournalNext ==
  \/ open \/ replay
  \/ \E outcome \in {"ok", "nothing"} \cup (Faults \cap {"reopen"}) : rewrite(outcome)
  \/ \E k \in Calls : Dispatch(k) \/ SettleHeld(k)
  \/ \E k \in Calls, outcome \in WriteOutcomes : retain(k, outcome)
  \/ \E op \in Ops : Replayed(op)
  \/ \E op \in Ops, k \in Calls, evidence \in Kinds, outcome \in WriteOutcomes :
       append_closure(op, k, evidence, outcome)
  \/ SettleClosed \/ RecordClosed \/ note
  \/ Crash
  \/ \E k \in Calls : CrashRetaining(k)
  \/ \E op \in Ops, k \in Calls, evidence \in Kinds : CrashClosing(op, k, evidence)

JournalSpec == JournalInit /\ [][JournalNext]_jvars
-----------------------------------------------------------------------------
(* A retained call is charged at most once, by whatever closures of it are *)
(* asked, refused, retried, cut short and replayed over restarts, a sync   *)
(* that fails after its bytes are in the file among them: at most one      *)
(* allow row, and, if no sync failed, none once a no-charge closure took   *)
(* it.  A closure written to the file that the rewrite has replaced is not *)
(* meant: the next start does not know of it.                              *)
ChargedOnce ==
  \A k \in Calls : begun[k] # "astray" =>
    /\ rows[k] =< 1
    /\ begun[k] # "unsynced" =>
         \A op \in Ops :
           answers[op].is = "ok" /\ answers[op].record.call = k /\ rows[k] = 1 =>
             answers[op].record.evidence = "observed"

(* Once a closure has been answered, the reservation is outstanding in no  *)
(* process again, nor listed for another closure: the startup rewrite      *)
(* drops a record only with the closure that names it.                     *)
ClosedForGood ==
  \A op \in Ops : answers[op].is = "ok" /\ begun[answers[op].record.call] # "astray" =>
    answers[op].record.call \notin held \cup listed

(* A retained call reported as journaled is outstanding in every process   *)
(* that serves, unless a closure of it was begun.                          *)
JournaledHeld ==
  phase = "serving" =>
    \A k \in Calls : told[k] = "journaled" /\ begun[k] = "" => k \in held

(* An operation answered with a closure is answered with the same closure  *)
(* in the process that wrote it and, the books being rebuilt from the      *)
(* journal before the rewrite drops it, in the next.                       *)
SameAnswer ==
  phase = "serving" =>
    \A op \in Ops :
      answers[op].is = "ok" /\ begun[answers[op].record.call] # "astray"
        /\ starts =< answers[op].record.start + 1 => books[op] = answers[op].record

(* "journaled is true only when the record reached the journal": a call so *)
(* reported, whose closure nobody asked for, is outstanding in every       *)
(* process that serves.                                                    *)
JournaledSurvives ==
  phase = "serving" =>
    \A k \in Calls :
      /\ told[k] = "journaled"
      /\ begun[k] = ""
      /\ \A op \in Ops : answers[op] # NoAnswer => answers[op].record.call # k
      => k \in held

(* A closure's word, whole: a call is charged once, stays closed, is held  *)
(* while nobody closed it, and an operation gets the answer it got.        *)
ClosureStands == ChargedOnce /\ ClosedForGood /\ JournaledHeld /\ SameAnswer
=============================================================================
