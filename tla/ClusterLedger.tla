--------------------------- MODULE ClusterLedger ---------------------------
(***************************************************************************)
(* The raft-replicated ledger: the state machine every gateway shares      *)
(* (LedgerState::apply, crates/cluster/src/types.rs) and the gateway's use *)
(* of it (RaftLedger, crates/gateway/src/raft_ledger.rs).                  *)
(*                                                                         *)
(* Consensus itself is openraft's: a write that commits is applied once,   *)
(* in log order, on every node.  So the committed ledger is a sequence of  *)
(* states, and each gateway's own copy, which it reads without asking      *)
(* anybody, is one of them.  A write is answered, or its answer is lost:   *)
(* then it may still commit at any later time, or never.                   *)
(***************************************************************************)
EXTENDS Integers, Sequences, FiniteSetsExt, Functions

CONSTANTS
  Gateways,
  Runs,
  NoParent,
  Amounts,          \* estimates
  Costs,            \* settled costs
  Budgets,
  MaxChainDepth,    \* MAX_CHAIN_DEPTH
  MaxReservations,  \* bound on the reservations granted
  MaxOpens,         \* bound on the runs opened, and opened again
  MaxUnanswered,    \* bound on the unanswered writes at one time
  ParentsFirst      \* a run is declared as a parent only once it is open

ASSUME ClusterRunsAssumption == NoParent \notin Runs
ASSUME ClusterInputsAssumption ==
  Amounts \subseteq Nat /\ Costs \subseteq Nat /\ Budgets \subseteq Nat
ASSUME ClusterBoundsAssumption ==
  MaxChainDepth \in Nat \ {0} /\ MaxReservations \in Nat /\ MaxOpens \in Nat
  /\ MaxUnanswered \in Nat
ASSUME ClusterOrderAssumption == ParentsFirst \in BOOLEAN

VARIABLES
  committed,    \* the states of the replicated ledger, from the oldest one
                \* some gateway's copy is still at to the latest
  applied,      \* gateway -> which of them its own copy is at
  highest,      \* run -> the highest budget it has held (history)
  in_flight,    \* writes sent and not answered
  next_id,      \* gateway -> RaftLedger.next_id
  outstanding,  \* gateway -> RaftLedger.outstanding, with the handles
  opens,        \* opens so far
  reachable,    \* consensus always answers (never written after Init)
  enforce       \* policy mode: enforce, or shadow and warn (never written)

mode == <<reachable, enforce>>
cvars == <<committed, applied, highest, in_flight, next_id, outstanding, opens, mode>>

Absent == [known |-> FALSE, budget |-> 0, reserved |-> 0, spent |-> 0, steps |-> 0,
           parent |-> NoParent]

RunState ==
  [known : BOOLEAN, budget : Nat, reserved : Nat, spent : Nat, steps : Nat,
   parent : Runs \cup {NoParent}]

Handle == [id : Nat, gateway : Gateways, run : Runs, amount : Nat]

Latest == committed[Len(committed)]

(* sm.read_run: the local, eventually consistent, copy. *)
Local(g) == committed[applied[g]]

SaturatingSub(a, b) == IF a < b THEN 0 ELSE a - b

-----------------------------------------------------------------------------
(***************************************************************************)
(* LedgerState.  The chain of a run: parent by parent through known runs,  *)
(* none twice, up to the depth cap, and as long as that allows.  A chain   *)
(* cut short is not refused.                                               *)
(***************************************************************************)
Paths == UNION {[1 .. n -> Runs] : n \in 1 .. MaxChainDepth}

IsChain(rs, run, path) ==
  /\ path[1] = run
  /\ \A i \in DOMAIN path : rs[path[i]].known
  /\ \A i, j \in DOMAIN path : path[i] = path[j] => i = j
  /\ \A i \in DOMAIN path : i + 1 \in DOMAIN path => path[i + 1] = rs[path[i]].parent
  /\ LET next == rs[path[Len(path)]].parent
     IN  \/ Len(path) = MaxChainDepth
         \/ next = NoParent
         \/ ~rs[next].known
         \/ \E i \in DOMAIN path : path[i] = next

(* The runs of the chain; none for a run that is not known. *)
chain(rs, run) ==
  UNION {{path[i] : i \in DOMAIN path} : path \in {p \in Paths : IsChain(rs, run, p)}}

committed_of(s) == s.spent + s.reserved

(* Mutant: opening a known run again starts its counters afresh. *)
Open_resetting(rs, run, budget, parent) ==
  [rs EXCEPT ![run] = [Absent EXCEPT !.known = TRUE, !.budget = budget,
                                     !.parent = IF rs[run].known THEN @ ELSE parent]]

Open(rs, run, budget, parent) ==
  IF rs[run].known
  THEN [rs EXCEPT ![run].budget = budget]
  ELSE [rs EXCEPT ![run] = [Absent EXCEPT !.known = TRUE, !.budget = budget,
                                          !.parent = parent]]

(* Mutant: only the run itself is checked. *)
Accepted_leaf(rs, run, micros) ==
  rs[run].known /\ committed_of(rs[run]) + micros =< rs[run].budget

Accepted(rs, run, micros) ==
  /\ rs[run].known
  /\ \A r \in chain(rs, run) : committed_of(rs[r]) + micros =< rs[r].budget

Reserve(rs, run, micros) ==
  IF Accepted(rs, run, micros)
  THEN [r \in Runs |->
          [rs[r] EXCEPT !.reserved = IF r \in chain(rs, run) THEN @ + micros ELSE @,
                        !.steps = IF r = run THEN @ + 1 ELSE @]]
  ELSE rs

(* Mutant: a settlement releases its actual cost, not its reservation. *)
Settle_by_cost(rs, run, reserved, actual) ==
  [r \in Runs |->
     IF r \in chain(rs, run)
     THEN [rs[r] EXCEPT !.reserved = SaturatingSub(@, actual), !.spent = @ + actual]
     ELSE rs[r]]

Settle(rs, run, reserved, actual) ==
  [r \in Runs |->
     IF r \in chain(rs, run)
     THEN [rs[r] EXCEPT !.reserved = SaturatingSub(@, reserved), !.spent = @ + actual]
     ELSE rs[r]]

(* One committed write.  Nat stands for u64 saturated: no instance gets    *)
(* near 2^64 micro-dollars.                                                *)
apply(rs, w) ==
  CASE w.op = "Open" -> Open(rs, w.run, w.budget, w.parent)
    [] w.op = "Reserve" -> Reserve(rs, w.run, w.amount)
    [] w.op = "Settle" -> Settle(rs, w.run, w.amount, w.actual)

(* A write that changes nothing makes no new state to read. *)
Commit(w) ==
  LET rs == apply(Latest, w)
  IN  /\ committed' = IF rs = Latest THEN committed ELSE Append(committed, rs)
      /\ highest' = [r \in Runs |-> IF rs[r].budget > highest[r] THEN rs[r].budget
                                                             ELSE highest[r]]

-----------------------------------------------------------------------------
ClusterInit ==
  /\ committed = <<[r \in Runs |-> Absent]>>
  /\ applied = [g \in Gateways |-> 1]
  /\ highest = [r \in Runs |-> 0]
  /\ in_flight = {}
  /\ next_id = [g \in Gateways |-> 0]
  /\ outstanding = [g \in Gateways |-> {}]
  /\ opens = 0
  /\ reachable \in BOOLEAN
  /\ enforce \in BOOLEAN

(* submit: committed and answered, or the answer is lost. *)
Answered(w) ==
  /\ Commit(w)
  /\ UNCHANGED in_flight

Unanswered(w) ==
  /\ ~reachable
  /\ Cardinality({u \in in_flight : u.op # "Settle"}) < MaxUnanswered
  /\ in_flight' = in_flight \cup {w}
  /\ UNCHANGED <<committed, highest>>

(* A gateway's own copy catches up by one write. *)
CatchUp(g) ==
  LET caught_up == [applied EXCEPT ![g] = @ + 1]
      oldest == Min(Range(caught_up))
  IN  /\ applied[g] < Len(committed)
      /\ committed' = SubSeq(committed, oldest, Len(committed))
      /\ applied' = [x \in Gateways |-> caught_up[x] - oldest + 1]
      /\ UNCHANGED <<highest, in_flight, next_id, outstanding, opens, mode>>

(* A write whose answer nobody waits for commits, or is lost for good. *)
CommitLate(w) ==
  /\ in_flight' = in_flight \ {w}
  /\ Commit(w)
  /\ UNCHANGED <<applied, next_id, outstanding, opens, mode>>

Lose(w) ==
  /\ ~reachable
  /\ in_flight' = in_flight \ {w}
  /\ UNCHANGED <<committed, applied, highest, next_id, outstanding, opens, mode>>

(* open_run_as: a caller cannot raise the budget the local copy shows. *)
Effective(l, budget, basis) ==
  IF basis = "Caller" /\ l.known /\ budget > l.budget THEN l.budget ELSE budget

(* RaftLedger::open_run, with LedgerBackend::open_run_as before it: both   *)
(* read the local copy.  A lost answer is logged, and the run reported     *)
(* open.                                                                   *)
open_run(g, run, budget, parent, basis) ==
  LET l == Local(g)[run]
      w == [op |-> "Open", run |-> run, budget |-> Effective(l, budget, basis),
            parent |-> parent, seq |-> opens]
  IN  /\ opens < MaxOpens
      /\ parent # run
      /\ l.known => parent \in {NoParent, l.parent}
      /\ ParentsFirst => parent \in {NoParent} \cup {p \in Runs : Latest[p].known}
      /\ opens' = opens + 1
      /\ Answered(w) \/ Unanswered(w)
      /\ UNCHANGED <<applied, next_id, outstanding, mode>>

grant(g, run, estimate) ==
  /\ next_id[g] < MaxReservations
  /\ next_id' = [next_id EXCEPT ![g] = @ + 1]
  /\ outstanding' = [outstanding EXCEPT ![g] =
       @ \cup {[id |-> next_id[g] + 1, gateway |-> g, run |-> run, amount |-> estimate]}]

ReserveWrite(g, run, estimate) ==
  [op |-> "Reserve", gateway |-> g, id |-> next_id[g] + 1, run |-> run, amount |-> estimate]

(* Enforce: a refusal is an error; no answer fails open. *)
reserve(g, run, estimate) ==
  LET w == ReserveWrite(g, run, estimate)
  IN  /\ enforce
      /\ \/ /\ Accepted(Latest, run, estimate)
            /\ Answered(w)
         \/ Unanswered(w)
      /\ grant(g, run, estimate)
      /\ UNCHANGED <<applied, opens, mode>>

(* Shadow and warn: the same write, and a grant whatever it answers. *)
reserve_unchecked(g, run, estimate) ==
  LET w == ReserveWrite(g, run, estimate)
  IN  /\ ~enforce
      /\ Answered(w) \/ Unanswered(w)
      /\ grant(g, run, estimate)
      /\ UNCHANGED <<applied, opens, mode>>

(* Fire and forget: the settlement is sent and its answer not awaited. *)
settle(g, h, actual) ==
  /\ h \in outstanding[g]
  /\ outstanding' = [outstanding EXCEPT ![g] = @ \ {h}]
  /\ in_flight' = in_flight \cup
       {[op |-> "Settle", gateway |-> g, id |-> h.id, run |-> h.run, amount |-> h.amount,
         actual |-> actual]}
  /\ UNCHANGED <<committed, applied, highest, next_id, opens, mode>>

ClusterNext ==
  \/ \E g \in Gateways : CatchUp(g)
  \/ \E w \in in_flight : CommitLate(w) \/ Lose(w)
  \/ \E g \in Gateways, run \in Runs, budget \in Budgets, parent \in Runs \cup {NoParent},
        basis \in {"Caller", "Operator"} : open_run(g, run, budget, parent, basis)
  \/ \E g \in Gateways, run \in Runs, estimate \in Amounts :
        reserve(g, run, estimate) \/ reserve_unchecked(g, run, estimate)
  \/ \E g \in Gateways, actual \in Costs : \E h \in outstanding[g] : settle(g, h, actual)

ClusterSpec == ClusterInit /\ [][ClusterNext]_cvars
-----------------------------------------------------------------------------
(***************************************************************************)
(* Properties.                                                             *)
(***************************************************************************)
InFlightSettles == {w \in in_flight : w.op = "Settle"}

(* The reservations not yet settled on the ledger: handles still held, and *)
(* settlements on their way.                                               *)
Unsettled == (UNION {outstanding[g] : g \in Gateways}) \cup InFlightSettles

(* What they hold on a run, walking the tree as it is now. *)
Due(r) ==
  Cardinality(UNION {{<<h.gateway, h.id>>} \X (1 .. h.amount) :
                     h \in {u \in Unsettled : r \in chain(Latest, u.run)}})

(* Every field keeps its type, and no copy is ahead of the log. *)
ClusterTypeOK ==
  /\ \A i \in DOMAIN committed : committed[i] \in [Runs -> RunState]
  /\ applied \in [Gateways -> 1 .. Len(committed)]
  /\ \A w \in in_flight : w.op \in {"Open", "Reserve", "Settle"}
  /\ highest \in [Runs -> Nat]
  /\ next_id \in [Gateways -> Nat]
  /\ \A g \in Gateways : outstanding[g] \subseteq Handle
  /\ opens \in Nat

(* While consensus answers, in every mode, Reserve and Settle never leave  *)
(* more reserved on a run than the calls under way below it: what the      *)
(* fire-and-forget settlement releases late, it does release.              *)
ClusterNoLeak == reachable => \A r \in Runs : Latest[r].reserved =< Due(r)

(* While consensus answers, in enforce mode, what a run holds reserved is  *)
(* exactly the calls under way below it, though Settle walks the live tree *)
(* and not the tree the call was admitted on.                              *)
ClusterReservedExact ==
  reachable /\ enforce => \A r \in Runs : Latest[r].reserved = Due(r)

(* While consensus answers, in enforce mode, when no call costs more than  *)
(* its estimate, no run is ever committed past the highest budget it has   *)
(* held, whichever gateways its calls and its children's calls went to.    *)
NeverOversubscribed ==
  reachable /\ enforce /\ (\A a \in Amounts, c \in Costs : c =< a) =>
    \A r \in Runs : committed_of(Latest[r]) =< highest[r]

(* Whatever is lost or late, a gateway's own copy is behind and never      *)
(* wrong: a run it knows is known to all with the same parent (so a        *)
(* refusal made on it stands), and at least the spend it shows.            *)
StaleNeverWrong ==
  \A g \in Gateways, r \in Runs :
    Local(g)[r].known =>
      /\ Latest[r].known
      /\ Latest[r].parent = Local(g)[r].parent
      /\ Latest[r].spent >= Local(g)[r].spent

(* The replicated counters, whole: nothing leaks, in enforce mode they are *)
(* exact, and a copy that lags is behind and never wrong.                  *)
ClusterExact == ClusterNoLeak /\ ClusterReservedExact /\ StaleNeverWrong
=============================================================================
