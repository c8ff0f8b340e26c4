----------------------------- MODULE RaftStore -----------------------------
(***************************************************************************)
(* One node's durable raft storage: a log, three words of metadata, the    *)
(* applied state and a snapshot in one redb file.  A commit of redb is     *)
(* atomic; purge and install_snapshot make two each, and the process may   *)
(* die between them.                                                       *)
(*                                                                         *)
(* The raft library (external) drives it: it appends what a leader sends,  *)
(* cuts off what was never committed, applies what was, in order, and at   *)
(* start brings the parts together.  The cluster's i-th committed entry is *)
(* the number i; an entry that never committed is Stale.  A ledger is the  *)
(* sequence of entries applied to it.                                      *)
(***************************************************************************)
EXTENDS Integers, Sequences, FiniteSets, SequencesExt, Functions, FiniteSetsExt

CONSTANTS Stale, MaxIndex, MaxVote, MaxDeaths

ASSUME RaftStoreAssumption ==
  {MaxIndex, MaxVote, MaxDeaths} \subseteq Nat /\ Stale \notin Nat

VARIABLES
  commits,   \* how many entries the cluster has committed (external)
  disk,      \* the redb file
  mem,       \* SmMem: the state and snapshot in memory
  half,      \* the operation between its two commits, or NoOp
  alive,     \* "down", "recovering" or "up"
  promised,  \* history: the vote, the index and the entries answered for
  deaths

raftvars == <<commits, disk, mem, half, alive, promised, deaths>>

NoOp == [op |-> "none", at |-> 0]
State(n, ledger) == [applied |-> n, ledger |-> ledger]
Empty == State(0, <<>>)

RaftInit ==
  /\ commits = 0
  /\ disk = [log |-> <<>>, vote |-> 0, committed |-> 0, purged |-> 0, state |-> Empty, snapshot |-> Empty]
  /\ mem = [state |-> Empty, snapshot |-> Empty]
  /\ half = NoOp /\ alive = "up" /\ deaths = 0
  /\ promised = [vote |-> 0, applied |-> 0, appended |-> 0]

Up == alive = "up" /\ half = NoOp

Lasting(log, purged) == IF DOMAIN log = {} THEN purged ELSE Max(DOMAIN log)

(* get_log_state: the last entry there is, or the last one purged. *)
get_log_state == [purged |-> disk.purged, last |-> Lasting(disk.log, disk.purged)]

-----------------------------------------------------------------------------
Commit ==
  /\ commits < MaxIndex
  /\ commits' = commits + 1
  /\ UNCHANGED <<disk, mem, half, alive, promised, deaths>>

save_vote(v) ==
  /\ Up /\ v > disk.vote
  /\ disk' = [disk EXCEPT !.vote = v]
  /\ promised' = [promised EXCEPT !.vote = v]
  /\ UNCHANGED <<commits, mem, half, alive, deaths>>

save_committed ==
  /\ Up /\ disk.committed < commits
  /\ \E i \in disk.committed + 1 .. commits :
       /\ i <= get_log_state.last /\ \A j \in DOMAIN disk.log : j <= i => disk.log[j] = j
       /\ disk' = [disk EXCEPT !.committed = i]
  /\ UNCHANGED <<commits, mem, half, alive, promised, deaths>>

(* append: durable before the callback. *)
append(entry) ==
  LET i == get_log_state.last + 1
  IN  /\ Up /\ i <= MaxIndex
      /\ \/ entry = i
         \/ entry = Stale /\ i > commits
      /\ Stale \in Range(disk.log) => entry = Stale
      /\ disk' = [disk EXCEPT !.log = [j \in DOMAIN @ \cup {i} |-> IF j = i THEN entry ELSE @[j]]]
      /\ promised' = [promised EXCEPT !.appended = IF entry = i THEN i ELSE @]
      /\ UNCHANGED <<commits, mem, half, alive, deaths>>

(* truncate: everything from an entry that will never commit. *)
truncate(i) ==
  /\ Up /\ i \in DOMAIN disk.log /\ disk.log[i] = Stale
  /\ disk' = [disk EXCEPT !.log = Restrict(@, {j \in DOMAIN @ : j < i})]
  /\ UNCHANGED <<commits, mem, half, alive, promised, deaths>>

-----------------------------------------------------------------------------
(* Mutant: the responses go out before the state is on disk. *)
apply_unpersisted(n) ==
  LET todo == mem.state.applied + 1 .. n
      s == State(n, mem.state.ledger \o [k \in 1 .. n - mem.state.applied |-> disk.log[mem.state.applied + k]])
  IN  /\ alive # "down" /\ half = NoOp /\ todo # {}
      /\ n <= IF alive = "up" THEN commits ELSE disk.committed
      /\ todo \subseteq DOMAIN disk.log /\ \A i \in todo : disk.log[i] = i
      /\ mem' = [mem EXCEPT !.state = s]
      /\ promised' = [promised EXCEPT !.applied = n]
      /\ UNCHANGED <<commits, disk, half, alive, deaths>>

(* apply: one batch, and the whole state in one commit with its index.     *)
apply(n) ==
  LET todo == mem.state.applied + 1 .. n
      s == State(n, mem.state.ledger \o [k \in 1 .. n - mem.state.applied |-> disk.log[mem.state.applied + k]])
  IN  /\ alive # "down" /\ half = NoOp /\ todo # {}
      /\ n <= IF alive = "up" THEN commits ELSE disk.committed
      /\ todo \subseteq DOMAIN disk.log /\ \A i \in todo : disk.log[i] = i
      /\ mem' = [mem EXCEPT !.state = s]
      /\ disk' = [disk EXCEPT !.state = s]
      /\ promised' = [promised EXCEPT !.applied = n]
      /\ UNCHANGED <<commits, half, alive, deaths>>

build_snapshot ==
  /\ Up /\ mem.snapshot # mem.state
  /\ mem' = [mem EXCEPT !.snapshot = mem.state]
  /\ disk' = [disk EXCEPT !.snapshot = mem.state]
  /\ UNCHANGED <<commits, half, alive, promised, deaths>>

(* purge, first commit: up to where the log is purged.  The library does   *)
(* it below a snapshot, and at start where the log ends before the state.  *)
purge(i) ==
  /\ half = NoOp /\ alive # "down"
  /\ IF alive = "up" THEN i \in disk.purged + 1 .. mem.snapshot.applied
     ELSE i = mem.state.applied /\ get_log_state.last < i
  /\ disk' = [disk EXCEPT !.purged = i]
  /\ half' = [op |-> "purge", at |-> i]
  /\ UNCHANGED <<commits, mem, alive, promised, deaths>>

(* Second commit: the entries themselves. *)
purge_rest ==
  /\ half.op = "purge"
  /\ disk' = [disk EXCEPT !.purged = half.at, !.log = Restrict(@, {j \in DOMAIN @ : j > half.at})]
  /\ half' = NoOp
  /\ UNCHANGED <<commits, mem, alive, promised, deaths>>

(* Mutant: the ledger is taken and its index is left. *)
install_snapshot_ledger_only(n) ==
  LET s == State(mem.state.applied, [k \in 1 .. n |-> k])
  IN  /\ Up /\ n \in mem.state.applied + 1 .. commits
      /\ mem' = [mem EXCEPT !.state = s] /\ disk' = [disk EXCEPT !.state = s]
      /\ half' = [op |-> "install", at |-> n]
      /\ UNCHANGED <<commits, alive, promised, deaths>>

(* install_snapshot, first commit: the state and its index. *)
install_snapshot(n) ==
  LET s == State(n, [k \in 1 .. n |-> k])
  IN  /\ Up /\ n \in mem.state.applied + 1 .. commits
      /\ mem' = [mem EXCEPT !.state = s] /\ disk' = [disk EXCEPT !.state = s]
      /\ half' = [op |-> "install", at |-> n]
      /\ UNCHANGED <<commits, alive, promised, deaths>>

(* Second commit: the snapshot; the library then cuts what conflicts with  *)
(* it and purges up to it.                                                 *)
install_rest ==
  /\ half.op = "install"
  /\ mem' = [mem EXCEPT !.snapshot = mem.state]
  /\ disk' = [disk EXCEPT !.snapshot = mem.state,
                !.log = Restrict(@, {j \in DOMAIN @ : \A k \in DOMAIN disk.log : k <= j => disk.log[k] = k})]
  /\ half' = NoOp
  /\ promised' = [promised EXCEPT !.applied = half.at]
  /\ UNCHANGED <<commits, alive, deaths>>

(* After an install the log ends before the state: it is purged up to it.  *)
purge_installed ==
  /\ Up /\ get_log_state.last < mem.state.applied
  /\ disk' = [disk EXCEPT !.purged = mem.state.applied]
  /\ half' = [op |-> "purge", at |-> mem.state.applied]
  /\ UNCHANGED <<commits, mem, alive, promised, deaths>>

-----------------------------------------------------------------------------
Die ==
  /\ alive # "down" /\ deaths < MaxDeaths
  /\ deaths' = deaths + 1
  /\ alive' = "down" /\ half' = NoOp
  /\ UNCHANGED <<commits, disk, mem, promised>>

(* RedbStateMachineStore::new: memory is what the file holds. *)
new ==
  /\ alive = "down"
  /\ alive' = "recovering"
  /\ mem' = [state |-> disk.state, snapshot |-> disk.snapshot]
  /\ UNCHANGED <<commits, disk, half, promised, deaths>>

(* Mutant: a start waits for an entry past its state. *)
Recover_waiting ==
  /\ alive = "recovering" /\ half = NoOp
  /\ get_log_state.last > mem.state.applied
  /\ mem.state.applied >= disk.committed
  /\ alive' = "up"
  /\ UNCHANGED <<commits, disk, mem, half, promised, deaths>>

(* The library at start, once what is known committed has been applied     *)
(* again and the log does not end before the state.                        *)
Recover ==
  /\ alive = "recovering" /\ half = NoOp
  /\ get_log_state.last >= mem.state.applied
  /\ mem.state.applied >= disk.committed
  /\ alive' = "up"
  /\ UNCHANGED <<commits, disk, mem, half, promised, deaths>>

RaftNext ==
  \/ Commit
  \/ \E v \in 1 .. MaxVote : save_vote(v)
  \/ save_committed
  \/ \E e \in (1 .. MaxIndex) \cup {Stale} : append(e)
  \/ \E i \in 1 .. MaxIndex : truncate(i) \/ apply(i) \/ purge(i) \/ install_snapshot(i)
  \/ build_snapshot
  \/ purge_rest \/ install_rest \/ purge_installed
  \/ Die \/ new \/ Recover

(* What a start consists of: nothing but the node's own steps. *)
Start ==
  \/ new \/ Recover
  \/ alive = "recovering" /\ (purge_rest \/ \E i \in 1 .. MaxIndex : apply(i) \/ purge(i))

RaftSpec == RaftInit /\ [][RaftNext]_raftvars /\ WF_raftvars(Start)
-----------------------------------------------------------------------------
(* A state, in memory or on disk, its snapshot too, is every committed     *)
(* entry up to its index, each applied once: wherever the node died.       *)
AppliedOnce ==
  \A s \in {mem.state, disk.state, mem.snapshot, disk.snapshot} :
    s.ledger = [k \in 1 .. s.applied |-> k]

(* What was answered for is on the disk: a response, a vote, an entry      *)
(* whose append was confirmed and that may count towards a commit.         *)
AnsweredSurvives ==
  /\ promised.applied <= disk.state.applied
  /\ promised.vote <= disk.vote
  /\ \A i \in 1 .. promised.appended : i \in DOMAIN disk.log \/ i <= disk.state.applied

(* Above what is marked purged the log has no gap, and what is marked      *)
(* purged is in the state: also between two commits.                       *)
NoGap ==
  /\ disk.purged <= disk.state.applied
  /\ \A i \in disk.purged + 1 .. get_log_state.last : i \in DOMAIN disk.log

(* A node that is down comes up: whatever its file holds, the library can  *)
(* bring log and state together.                                           *)
RecoveryEnds == (alive = "down") ~> (alive = "up")

(* The raft store, whole: every state is the committed prefix applied      *)
(* once, what was answered for is on the disk, and the log has no gap.     *)
StoreKeeps == AppliedOnce /\ AnsweredSurvives /\ NoGap
=============================================================================
