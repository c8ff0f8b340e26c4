------------------------------- MODULE Ledger -------------------------------
(***************************************************************************)
(* The in-process reserve/settle ledger, crates/core/src/ledger.rs.        *)
(*                                                                         *)
(* Every public method of Ledger takes the one mutex and returns, so each  *)
(* is one atomic action here.  Concurrency is between the methods: any     *)
(* caller may open, reserve, settle, seed or close at any time, and a      *)
(* Reservation handle lives in its caller (variable handles) long after    *)
(* the runs it was admitted against were closed and reopened.              *)
(*                                                                         *)
(* A method that refuses changes nothing in the code; here its guard is    *)
(* simply false.                                                           *)
(***************************************************************************)
EXTENDS Integers, FiniteSets, Sequences

CONSTANTS
  Runs,             \* run ids
  NoParent,         \* Option::None of RunState.parent
  MaxMoney,         \* i64::MAX of Microusd
  Amounts,          \* estimates a caller may reserve
  Costs,            \* actual costs settled, and spends seeded
  Budgets,          \* budgets declared to open_run
  MaxChainDepth,    \* MAX_CHAIN_DEPTH
  MaxReservations,  \* bound on reservations issued
  MaxGenerations    \* bound on generations issued

Money == 0 .. MaxMoney

ASSUME MoneyAssumption == MaxMoney \in Nat
ASSUME RunsAssumption == NoParent \notin Runs
ASSUME InputsAssumption ==
  Amounts \subseteq Money /\ Costs \subseteq Money /\ Budgets \subseteq Money
ASSUME DepthAssumption == MaxChainDepth \in Nat \ {0}
ASSUME BoundsAssumption == MaxReservations \in Nat /\ MaxGenerations \in Nat

VARIABLES
  runs,              \* Inner.runs; generation 0 stands for an absent entry
  next_generation,   \* Inner.next_generation
  next_reservation,  \* Inner.next_reservation
  outstanding,       \* Inner.outstanding: ids admitted and not yet settled
  handles            \* the Reservation values the callers hold

vars == <<runs, next_generation, next_reservation, outstanding, handles>>

RunState ==
  [budget : Money, reserved : Money, spent : Money, steps : Nat,
   parent : Runs \cup {NoParent}, generation : Nat,
   admitted_ever : BOOLEAN, closed : BOOLEAN]

ChainLink == [run_id : Runs, generation : Nat]

Reservation ==
  [id : Nat, run_id : Runs, amount : Money, step : Nat, generation : Nat,
   chain : Seq(ChainLink)]

Fresh(budget, parent, generation) ==
  [budget |-> budget, reserved |-> 0, spent |-> 0, steps |-> 0,
   parent |-> parent, generation |-> generation,
   admitted_ever |-> FALSE, closed |-> FALSE]

Absent == Fresh(0, NoParent, 0)

IsOpen(s) == s.generation # 0 /\ ~s.closed

SaturatingAdd(a, b) == IF a + b > MaxMoney THEN MaxMoney ELSE a + b

SaturatingSub(a, b) == IF a < b THEN 0 ELSE a - b

-----------------------------------------------------------------------------
(***************************************************************************)
(* walk: the chain from a run up through its ancestors, leaf first.  A     *)
(* path is the walk's links exactly when it climbs parent by parent        *)
(* through open entries, visits none twice, stays within the depth cap,    *)
(* and could not be made longer.                                           *)
(***************************************************************************)
Paths == UNION {[1 .. n -> Runs] : n \in 1 .. MaxChainDepth}

Climbs(rs, path) ==
  /\ \A i \in DOMAIN path : IsOpen(rs[path[i]])
  /\ \A i, j \in DOMAIN path : path[i] = path[j] => i = j
  /\ \A i \in DOMAIN path :
       i + 1 \in DOMAIN path => path[i + 1] = rs[path[i]].parent

Beyond(rs, path) == rs[path[Len(path)]].parent

(* The walk ended at a root, or at a cycle whose members are all on it. *)
Complete(rs, path) ==
  \/ Beyond(rs, path) = NoParent
  \/ \E i \in DOMAIN path : path[i] = Beyond(rs, path)

(* Stop::TooDeep, Stop::UnknownParent and Stop::Closed. *)
Truncated(rs, path) ==
  /\ ~Complete(rs, path)
  /\ Len(path) = MaxChainDepth \/ ~IsOpen(rs[Beyond(rs, path)])

Walks(rs, run) ==
  {path \in Paths : /\ path[1] = run
                    /\ Climbs(rs, path)
                    /\ Complete(rs, path) \/ Truncated(rs, path)}

ChainOf(rs, path) ==
  [i \in DOMAIN path |-> [run_id |-> path[i], generation |-> rs[path[i]].generation]]

(* Mutant: what is reserved is not counted against the budget. *)
Fits_ignoring_reserved(s, estimate) ==
  LET would == s.spent + estimate
  IN  would =< MaxMoney /\ would =< s.budget

(* exceeds, negated: the sum is representable and fits the budget. *)
Fits(s, estimate) ==
  LET would == s.spent + s.reserved + estimate
  IN  would =< MaxMoney /\ would =< s.budget

(* would_exceed, negated, for a run the ledger knows. *)
Admissible(rs, path, estimate) ==
  /\ Complete(rs, path)
  /\ \A i \in DOMAIN path : Fits(rs[path[i]], estimate)

-----------------------------------------------------------------------------
Init ==
  /\ runs = [r \in Runs |-> Absent]
  /\ next_generation = 0
  /\ next_reservation = 0
  /\ outstanding = {}
  /\ handles = {}

(* open_run_as on an entry that is absent or closed. *)
open_fresh(run, budget, parent) ==
  /\ ~IsOpen(runs[run])
  /\ next_generation < MaxGenerations
  /\ next_generation' = next_generation + 1
  /\ runs' = [runs EXCEPT ![run] = Fresh(budget, parent, next_generation + 1)]
  /\ UNCHANGED <<next_reservation, outstanding, handles>>

(* Mutant: a different declared parent replaces the held one. *)
open_held_moving(run, budget, parent, basis) ==
  /\ IsOpen(runs[run])
  /\ runs' = [runs EXCEPT ![run].parent = IF parent = NoParent THEN @ ELSE parent]
  /\ UNCHANGED <<next_generation, next_reservation, outstanding, handles>>

(* open_run_as on an open entry: the parent is decided first, then the     *)
(* budget; ParentChanged and AdoptedTooLate refuse both.                   *)
open_held(run, budget, parent, basis) ==
  LET s == runs[run]
      adopts == s.parent = NoParent /\ parent # NoParent
      effective == IF basis = "Operator" \/ budget =< s.budget
                   THEN budget ELSE s.budget
  IN  /\ IsOpen(s)
      /\ parent \in {NoParent, s.parent} \/ (adopts /\ ~s.admitted_ever)
      /\ runs' = [runs EXCEPT ![run].parent = IF adopts THEN parent ELSE @,
                              ![run].budget = effective]
      /\ UNCHANGED <<next_generation, next_reservation, outstanding, handles>>

open_run_as(run, budget, parent, basis) ==
  /\ parent # run
  /\ \/ open_fresh(run, budget, parent)
     \/ open_held(run, budget, parent, basis)

(* Mutant: ids are taken from the number of outstanding reservations. *)
Admit_reusing_ids(rs, run, estimate, path) ==
  LET id == Cardinality(outstanding) + 1
  IN  /\ next_reservation < MaxReservations
      /\ runs' = [r \in Runs |->
           IF \E i \in DOMAIN path : path[i] = r
           THEN [rs[r] EXCEPT !.reserved = SaturatingAdd(@, estimate)]
           ELSE rs[r]]
      /\ next_reservation' = next_reservation + 1
      /\ outstanding' = outstanding \cup {id}
      /\ handles' = handles \cup
           {[id |-> id, run_id |-> run, amount |-> estimate, step |-> 1,
             generation |-> rs[run].generation, chain |-> ChainOf(rs, path)]}

(* The part reserve and reserve_unchecked share, on the entries rs.        *)
Admit(rs, run, estimate, path) ==
  /\ next_reservation < MaxReservations
  /\ runs' = [r \in Runs |->
       IF \E i \in DOMAIN path : path[i] = r
       THEN [rs[r] EXCEPT !.reserved = SaturatingAdd(@, estimate),
                          !.admitted_ever = TRUE,
                          !.steps = IF r = run THEN @ + 1 ELSE @]
       ELSE rs[r]]
  /\ next_reservation' = next_reservation + 1
  /\ outstanding' = outstanding \cup {next_reservation + 1}
  /\ handles' = handles \cup
       {[id |-> next_reservation + 1, run_id |-> run, amount |-> estimate,
         step |-> rs[run].steps + 1, generation |-> rs[run].generation,
         chain |-> ChainOf(rs, path)]}

reserve(run, estimate) ==
  /\ IsOpen(runs[run])
  /\ \E path \in Walks(runs, run) :
       /\ Admissible(runs, path, estimate)
       /\ Admit(runs, run, estimate, path)
  /\ UNCHANGED next_generation

(* Shadow and warn modes: no check, the run is opened at zero budget if    *)
(* needed, and whatever of the chain can be walked is charged.             *)
reserve_unchecked(run, estimate) ==
  LET needs_fresh == ~IsOpen(runs[run])
      rs == IF needs_fresh
            THEN [runs EXCEPT ![run] = Fresh(0, NoParent, next_generation + 1)]
            ELSE runs
  IN  /\ needs_fresh => next_generation < MaxGenerations
      /\ next_generation' = IF needs_fresh THEN next_generation + 1
                                           ELSE next_generation
      /\ \E path \in Walks(rs, run) : Admit(rs, run, estimate, path)

(* A link of a handle's chain that still names the entry it was admitted on. *)
Holds(h, r, rs) ==
  \E i \in DOMAIN h.chain :
    h.chain[i].run_id = r /\ h.chain[i].generation = rs[r].generation

(* Mutant: a closed run is skipped, as if its counters were no longer needed. *)
settle_skipping_closed(h, actual) ==
  /\ h.id \in outstanding
  /\ outstanding' = outstanding \ {h.id}
  /\ runs' = [r \in Runs |->
       IF Holds(h, r, runs) /\ ~runs[r].closed
       THEN [runs[r] EXCEPT !.reserved = SaturatingSub(@, h.amount),
                            !.spent = SaturatingAdd(@, actual)]
       ELSE runs[r]]
  /\ UNCHANGED <<next_generation, next_reservation, handles>>

(* Mutant: the settlement finds the run by name, whatever its generation. *)
settle_by_name(h, actual) ==
  /\ h.id \in outstanding
  /\ outstanding' = outstanding \ {h.id}
  /\ runs' = [r \in Runs |->
       IF \E i \in DOMAIN h.chain : h.chain[i].run_id = r
       THEN [runs[r] EXCEPT !.reserved = SaturatingSub(@, h.amount),
                            !.spent = SaturatingAdd(@, actual)]
       ELSE runs[r]]
  /\ UNCHANGED <<next_generation, next_reservation, handles>>

settle(h, actual) ==
  /\ h.id \in outstanding
  /\ outstanding' = outstanding \ {h.id}
  /\ runs' = [r \in Runs |->
       IF Holds(h, r, runs)
       THEN [runs[r] EXCEPT !.reserved = SaturatingSub(@, h.amount),
                            !.spent = SaturatingAdd(@, actual)]
       ELSE runs[r]]
  /\ UNCHANGED <<next_generation, next_reservation, handles>>

seed_spend(run, amount, generation) ==
  /\ IsOpen(runs[run])
  /\ runs[run].generation = generation
  /\ runs' = [runs EXCEPT ![run].spent = SaturatingAdd(@, amount)]
  /\ UNCHANGED <<next_generation, next_reservation, outstanding, handles>>

(* Mutant: closing a run drops its entry. *)
close_run_removing(run) ==
  /\ runs[run].generation # 0
  /\ runs' = [runs EXCEPT ![run] = Absent]
  /\ UNCHANGED <<next_generation, next_reservation, outstanding, handles>>

close_run(run) ==
  /\ runs[run].generation # 0
  /\ runs' = [runs EXCEPT ![run].closed = TRUE]
  /\ UNCHANGED <<next_generation, next_reservation, outstanding, handles>>

-----------------------------------------------------------------------------
EnforceNext ==
  \/ \E run \in Runs, budget \in Budgets, parent \in Runs \cup {NoParent},
        basis \in {"Caller", "Operator"} : open_run_as(run, budget, parent, basis)
  \/ \E run \in Runs, estimate \in Amounts : reserve(run, estimate)
  \/ \E h \in handles, actual \in Costs : settle(h, actual)
  \/ \E run \in Runs, amount \in Costs, generation \in 1 .. MaxGenerations :
        seed_spend(run, amount, generation)
  \/ \E run \in Runs : close_run(run)

Next ==
  \/ EnforceNext
  \/ \E run \in Runs, estimate \in Amounts : reserve_unchecked(run, estimate)

Spec == Init /\ [][Next]_vars

(* Enforce mode: no reservation bypasses the check. *)
EnforceSpec == Init /\ [][EnforceNext]_vars
-----------------------------------------------------------------------------
(***************************************************************************)
(* Properties.                                                             *)
(***************************************************************************)
Outstanding == {h \in handles : h.id \in outstanding}

(* Money as a set of tokens: reservation i of amount n is the tokens       *)
(* <<i, 1>> .. <<i, n>>, and a sum of reservations is a cardinality.       *)
Tokens(H) == UNION {{h.id} \X (1 .. h.amount) : h \in H}

(* What the outstanding reservations hold on the current entry of a run.   *)
Liability(r) == Cardinality(Tokens({h \in Outstanding : Holds(h, r, runs)}))

(* What was ever admitted on the current entry of a run. *)
Admitted(r) == Cardinality(Tokens({h \in handles : Holds(h, r, runs)}))

(* Every field of the ledger keeps its type. *)
TypeOK ==
  /\ runs \in [Runs -> RunState]
  /\ next_generation \in Nat
  /\ next_reservation \in Nat
  /\ outstanding \subseteq Nat
  /\ handles \subseteq Reservation

(* reserve, reserve_unchecked and settle never leave more reserved on a    *)
(* run than its outstanding reservations add up to, whatever was closed,   *)
(* reopened, clamped or saturated meanwhile: no budget leaks away for good.*)
ReservedCovered == \A r \in Runs : runs[r].reserved =< Liability(r)

(* Unless the amounts admitted on this entry add up past i64::MAX, what it *)
(* holds reserved is exactly the sum of its outstanding reservations: a    *)
(* settlement never releases another reservation's money.                  *)
ReservedExact ==
  \A r \in Runs : Admitted(r) =< MaxMoney => runs[r].reserved = Liability(r)

(* In enforce mode it is so whatever was ever admitted: exceeds refuses    *)
(* what would overflow, so no counter ever saturates.                      *)
EnforceExact == \A r \in Runs : runs[r].reserved = Liability(r)

(* The chain a handle was admitted on is still the tree, link by link,     *)
(* wherever the run is still in the generation it was admitted in: settle  *)
(* by handle and settle by live tree would agree there (admitted_ever      *)
(* blocks a late adoption, ParentChanged blocks a move).                   *)
ChainFrozen ==
  \A h \in handles : \A i \in DOMAIN h.chain :
    LET l == h.chain[i]
        s == runs[l.run_id]
    IN  s.generation = l.generation =>
          /\ s.admitted_ever
          /\ i + 1 \in DOMAIN h.chain => s.parent = h.chain[i + 1].run_id

(* In enforce mode the last link of a chain is a root or closes a cycle,   *)
(* and stays so: no ancestor appears later that was never charged.         *)
RootFrozen ==
  \A h \in handles :
    LET l == h.chain[Len(h.chain)]
        s == runs[l.run_id]
    IN  s.generation = l.generation =>
          s.parent = NoParent \/ \E i \in DOMAIN h.chain : h.chain[i].run_id = s.parent

(* A settled reservation never becomes outstanding again, and an id is     *)
(* never issued twice (bump): its second settlement is NotOutstanding.     *)
SettledOnce ==
  [][\A i \in 1 .. next_reservation : i \notin outstanding => i \notin outstanding']_vars

(* A run's committed spend never goes down while it stays in a generation, *)
(* and a generation, once left, never returns: what was spent is forgotten *)
(* only by a reopen after a close.                                         *)
SpendKept ==
  [][\A r \in Runs :
       \/ /\ runs'[r].generation = runs[r].generation
          /\ runs'[r].spent >= runs[r].spent
       \/ /\ runs'[r].generation > next_generation
          /\ ~IsOpen(runs[r])]_vars
=============================================================================
