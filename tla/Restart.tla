------------------------------ MODULE Restart ------------------------------
(***************************************************************************)
(* The ledger across restarts: Ledger with the retained reservations       *)
(* (settle.rs), their journal (retainedjournal.rs), the replay that puts   *)
(* them back on an empty ledger (Ledger::restore_outstanding) and the      *)
(* proxy's opening of a run, which decides the budget a restored run gets. *)
(*                                                                         *)
(* The journal is the set of retained records no closure names; how it     *)
(* comes to be that set, line by line, is RetainedJournal's subject.  The  *)
(* Cloud's run seeds are seed_spend steps, here at any time.  The gateway  *)
(* never calls close_run, so runs are not closed here.                     *)
(***************************************************************************)
EXTENDS Ledger

CONSTANTS
  Requests,      \* concurrent calls in the proxy
  CloudBudget,   \* AppState.cloud_budgets: run -> budget, or NoBudget
  NoBudget,
  MaxRestarts    \* bound on restarts

ASSUME RestartAssumption ==
  /\ CloudBudget \in [Runs -> Budgets \cup {NoBudget}]
  /\ NoBudget \notin Budgets
  /\ MaxRestarts \in Nat

VARIABLES
  retained,             \* handles kept outstanding because their outcome is unknown
  journal,              \* the open records on disk
  restored_unbudgeted,  \* AppState.restored_unbudgeted
  requests,             \* where each call is, up to its reservation
  enforce,              \* policy mode of this process: enforce, or shadow/warn
  restarts              \* restarts so far

rvars == <<runs, next_generation, next_reservation, outstanding, handles,
           retained, journal, restored_unbudgeted, requests, enforce, restarts>>

process == <<retained, journal, restored_unbudgeted, requests, enforce, restarts>>

Idle == [at |-> "idle"]

Call == [at : {"opening", "reserving"}, run : Runs, budget : Budgets, parent : Runs \cup {NoParent},
         basis : {"Caller", "Operator"}]

Record == [run : Reservation, tail_parent : Runs \cup {NoParent}]

-----------------------------------------------------------------------------
(***************************************************************************)
(* restore_outstanding on an empty ledger, from the records E.             *)
(***************************************************************************)
Links(E) == UNION {{e.run.chain[i] : i \in DOMAIN e.run.chain} : e \in E}

Highest(S) == CHOOSE n \in S \cup {0} : \A m \in S : m =< n

(* The generation a run comes back at: the highest any link names. *)
generation_of(E, r) == Highest({l.generation : l \in {k \in Links(E) : k.run_id = r}})

(* The links of a record that name the generation their run comes back at. *)
Live(E, e, r) ==
  {i \in DOMAIN e.run.chain : e.run.chain[i] = [run_id |-> r, generation |-> generation_of(E, r)]}

(* Mutant: the parent beyond the chain is given to every link. *)
ParentAt_tail(e, i) == e.tail_parent

ParentAt(e, i) ==
  IF i + 1 \in DOMAIN e.run.chain THEN e.run.chain[i + 1].run_id ELSE e.tail_parent

(* The parents the live links name for a run; the first one read is taken. *)
Named(E, r) ==
  (UNION {{ParentAt(e, i) : i \in Live(E, e, r)} : e \in E}) \ {NoParent, r}

Parents(E, r) == IF Named(E, r) = {} THEN {NoParent} ELSE Named(E, r)

Created(E) == {r \in Runs : generation_of(E, r) # 0}

(* What the records hold on a run, added up with saturation. *)
RestoredReserved(E, r) ==
  SaturatingAdd(0, Cardinality(Tokens({e.run : e \in {d \in E : Live(E, d, r) # {}}})))

RestoredRun(E, r, parent) ==
  [Fresh(0, parent, generation_of(E, r)) EXCEPT
     !.reserved = RestoredReserved(E, r),
     !.steps = Highest({e.run.step : e \in {d \in E : 1 \in Live(E, d, r)}}),
     !.admitted_ever = TRUE]

(* Mutant: the reservation counter starts over. *)
restore_outstanding_from_zero(E) ==
  /\ \E parent \in [Runs -> Runs \cup {NoParent}] :
       /\ \A r \in Runs : parent[r] \in IF r \in Created(E) THEN Parents(E, r) ELSE {NoParent}
       /\ runs' = [r \in Runs |-> IF r \in Created(E) THEN RestoredRun(E, r, parent[r])
                                                      ELSE Absent]
  /\ outstanding' = {e.run.id : e \in E}
  /\ handles' = {e.run : e \in E}
  /\ next_reservation' = 0
  /\ next_generation' = Highest({l.generation : l \in Links(E)})

restore_outstanding(E) ==
  /\ \E parent \in [Runs -> Runs \cup {NoParent}] :
       /\ \A r \in Runs : parent[r] \in IF r \in Created(E) THEN Parents(E, r) ELSE {NoParent}
       /\ runs' = [r \in Runs |-> IF r \in Created(E) THEN RestoredRun(E, r, parent[r])
                                                      ELSE Absent]
  /\ outstanding' = {e.run.id : e \in E}
  /\ handles' = {e.run : e \in E}
  /\ next_reservation' = Highest({e.run.id : e \in E})
  /\ next_generation' = Highest({l.generation : l \in Links(E)})

-----------------------------------------------------------------------------
RestartInit ==
  /\ Init
  /\ retained = {}
  /\ journal = {}
  /\ restored_unbudgeted = {}
  /\ requests = [q \in Requests |-> Idle]
  /\ enforce \in BOOLEAN
  /\ restarts = 0

(* The proxy's handling of a call's parent, before its own run is opened:  *)
(* a parent never seen, or restored without a budget, is given the budget  *)
(* an operator set for it in the Cloud.                                    *)
GivesParent(p) ==
  /\ CloudBudget[p] # NoBudget
  /\ runs[p].generation = 0 \/ p \in restored_unbudgeted

Arrive(q, run, declared, parent) ==
  LET cloud == CloudBudget[run]
      call == [at |-> "opening", run |-> run, parent |-> parent,
               budget |-> IF cloud # NoBudget THEN cloud ELSE declared,
               basis |-> IF cloud # NoBudget THEN "Operator" ELSE "Caller"]
  IN  /\ requests[q] = Idle
      /\ requests' = [requests EXCEPT ![q] = call]
      /\ IF parent \in Runs \ {run} /\ GivesParent(parent)
         THEN /\ open_run_as(parent, CloudBudget[parent], NoParent, "Operator")
              /\ restored_unbudgeted' = restored_unbudgeted \ {parent}
         ELSE UNCHANGED <<vars, restored_unbudgeted>>
      /\ UNCHANGED <<retained, journal, enforce, restarts>>

(* SelfParent, ParentChanged and AdoptedTooLate. *)
OpenError(run, parent) ==
  LET s == runs[run]
  IN  \/ parent = run
      \/ /\ IsOpen(s) /\ parent \notin {NoParent, s.parent}
         /\ s.parent # NoParent \/ s.admitted_ever

(* Then the call opens its own run, or is refused. *)
Open(q) ==
  LET call == requests[q]
  IN  /\ call # Idle /\ call.at = "opening"
      /\ \/ /\ open_run_as(call.run, call.budget, call.parent, call.basis)
            /\ restored_unbudgeted' = restored_unbudgeted \ {call.run}
            /\ requests' = [requests EXCEPT ![q].at = "reserving"]
         \/ /\ OpenError(call.run, call.parent)
            /\ requests' = [requests EXCEPT ![q] = Idle]
            /\ UNCHANGED <<vars, restored_unbudgeted>>
      /\ UNCHANGED <<retained, journal, enforce, restarts>>

(* The budget gate: enforce reserves or refuses, shadow and warn record. *)
Reserve(q, estimate) ==
  LET call == requests[q]
      refused == \A path \in Walks(runs, call.run) : ~Admissible(runs, path, estimate)
  IN  /\ call # Idle /\ call.at = "reserving"
      /\ requests' = [requests EXCEPT ![q] = Idle]
      /\ \/ enforce /\ reserve(call.run, estimate)
         \/ enforce /\ refused /\ UNCHANGED vars
         \/ ~enforce /\ reserve_unchecked(call.run, estimate)
      /\ UNCHANGED <<retained, journal, restored_unbudgeted, enforce, restarts>>

InFlight == {h \in handles \ retained : h.id \in outstanding}

(* Ledger::tail_parent. *)
tail_parent(h) ==
  LET l == h.chain[Len(h.chain)]
  IN  IF runs[l.run_id].generation = l.generation THEN runs[l.run_id].parent ELSE NoParent

(* SettleGuard::retain.  A write that fails leaves the reservation held in *)
(* this process alone.                                                     *)
retain(h, written) ==
  /\ retained' = retained \cup {h}
  /\ journal' = IF written THEN journal \cup {[run |-> h, tail_parent |-> tail_parent(h)]}
                           ELSE journal
  /\ UNCHANGED <<vars, restored_unbudgeted, requests, enforce, restarts>>

(* A closure: its record first, then the settlement. *)
close_retained(h, settled) ==
  /\ h \in retained
  /\ settle(h, settled)
  /\ retained' = retained \ {h}
  /\ journal' = {e \in journal : e.run # h}
  /\ UNCHANGED <<restored_unbudgeted, requests, enforce, restarts>>

(* The process ends, whatever it was doing, and the next one replays. *)
replay_at_startup ==
  /\ restarts < MaxRestarts
  /\ restarts' = restarts + 1
  /\ restore_outstanding(journal)
  /\ retained' = {e.run : e \in journal}
  /\ restored_unbudgeted' = Created(journal)
  /\ requests' = [q \in Requests |-> Idle]
  /\ enforce' \in BOOLEAN
  /\ UNCHANGED journal

RestartNext ==
  \/ \E q \in Requests, run \in Runs, declared \in Budgets, parent \in Runs \cup {NoParent} :
       Arrive(q, run, declared, parent)
  \/ \E q \in Requests : Open(q)
  \/ \E q \in Requests, estimate \in Amounts : Reserve(q, estimate)
  \/ /\ \E h \in InFlight, actual \in Costs : settle(h, actual)
     /\ UNCHANGED process
  \/ \E h \in InFlight, written \in BOOLEAN : retain(h, written)
  \/ \E h \in handles, settled \in Costs : close_retained(h, settled)
  \/ /\ \E run \in Runs, amount \in Costs, generation \in 1 .. MaxGenerations :
          seed_spend(run, amount, generation)
     /\ UNCHANGED process
  \/ replay_at_startup

RestartSpec == RestartInit /\ [][RestartNext]_rvars
-----------------------------------------------------------------------------
(* Every field keeps its type, and what is retained is outstanding. *)
RestartTypeOK ==
  /\ TypeOK
  /\ retained \subseteq Outstanding
  /\ journal \subseteq Record
  /\ restored_unbudgeted \subseteq Runs
  /\ requests \in [Requests -> Call \cup {Idle}]
  /\ enforce \in BOOLEAN

(* restore_outstanding drops a record whose id it has already seen: no two *)
(* open records ever share one, although the counter restarts below the    *)
(* ids of closed and of unwritten reservations.                            *)
JournalIdsUnique ==
  \A d, e \in journal : d.run.id = e.run.id => d = e

(* Every journaled liability is outstanding, under the handle on disk, in  *)
(* every process: after any number of restarts it still counts and can     *)
(* still be closed.                                                        *)
JournalHeld ==
  \A e \in journal : e.run \in Outstanding \cap retained

(* A restart forgets no liability of a journaled record and moves no run   *)
(* it recreates: what the record held on a run it holds again, and the run *)
(* rolls up into the parent it rolled up into before.                      *)
LiabilityKept ==
  restarts' # restarts =>
    \A e \in journal, r \in Runs :
      Holds(e.run, r, runs) =>
        Holds(e.run, r, runs') /\ runs'[r].parent = runs[r].parent

(* A run leaves restored_unbudgeted by being opened with a budget: "the    *)
(* entry is removed the first time anything opens the run with a budget".  *)
BudgetGivenBack ==
  [][\A r \in restored_unbudgeted \ restored_unbudgeted' :
       restarts' = restarts => runs'[r].budget # 0]_rvars

(* The journal of retained reservations, whole: no id twice, every record  *)
(* outstanding and open to closure, and no restart forgets what it held.   *)
JournalKept ==
  /\ [](JournalIdsUnique /\ JournalHeld)
  /\ [][LiabilityKept]_rvars
=============================================================================
