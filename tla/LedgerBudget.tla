---------------------------- MODULE LedgerBudget ----------------------------
(***************************************************************************)
(* What the budget of a run is worth in enforce mode.  Ledger with two     *)
(* history variables, per run and reset by a reopen:                       *)
(*   peak   the highest budget this generation of the run has held;        *)
(*   over   the spend that reached it without an admission: seeds, and     *)
(*          what settlements cost beyond their estimates, its own and its  *)
(*          descendants'.                                                  *)
(***************************************************************************)
EXTENDS Ledger

CONSTANT MaxOver   \* bound on over, in the guard of seeding
ASSUME MaxOverAssumption == MaxOver \in Nat

VARIABLES peak, over

bvars == <<runs, next_generation, next_reservation, outstanding, handles, peak, over>>

Track(excess) ==
  /\ peak' = [r \in Runs |->
       IF runs'[r].generation # runs[r].generation \/ runs'[r].budget > peak[r]
       THEN runs'[r].budget ELSE peak[r]]
  /\ over' = [r \in Runs |->
       IF runs'[r].generation # runs[r].generation THEN 0 ELSE over[r] + excess[r]]

Nothing == [r \in Runs |-> 0]

BudgetInit ==
  /\ Init
  /\ peak = Nothing
  /\ over = Nothing

BudgetNext ==
  \/ /\ \E run \in Runs, budget \in Budgets, parent \in Runs \cup {NoParent},
           basis \in {"Caller", "Operator"} : open_run_as(run, budget, parent, basis)
     /\ Track(Nothing)
  \/ /\ \E run \in Runs, estimate \in Amounts : reserve(run, estimate)
     /\ Track(Nothing)
  \/ \E h \in handles, actual \in Costs :
       /\ settle(h, actual)
       /\ Track([r \in Runs |-> IF Holds(h, r, runs) /\ actual > h.amount
                                THEN actual - h.amount ELSE 0])
  \/ \E run \in Runs, amount \in Costs, generation \in 1 .. MaxGenerations :
       /\ over[run] + amount =< MaxOver
       /\ seed_spend(run, amount, generation)
       /\ Track([Nothing EXCEPT ![run] = amount])
  \/ /\ \E run \in Runs : close_run(run)
     /\ Track(Nothing)

BudgetSpec == BudgetInit /\ [][BudgetNext]_bvars

(* In enforce mode, what a run has committed, its descendants included,    *)
(* exceeds the highest budget it held only by what no admission could      *)
(* check: seeds, and settlements above their estimates.  No interleaving   *)
(* of sibling calls, reopened ancestors and late settlements adds to that. *)
WithinBudget ==
  \A r \in Runs : runs[r].spent + runs[r].reserved =< peak[r] + over[r]

-----------------------------------------------------------------------------
(* The ledger as an escrow: an entry is an account, its generation the     *)
(* account's epoch, and an outstanding reservation a hold on the entries   *)
(* of its chain.  The counter reserved, the parents and the steps are not  *)
(* in the picture.                                                         *)
E == INSTANCE Escrow WITH
       Accounts <- Runs,
       account <- [r \in Runs |-> [open |-> IsOpen(runs[r]), epoch |-> runs[r].generation,
                                   budget |-> runs[r].budget, spent |-> runs[r].spent]],
       holds <- {[id |-> h.id, amount |-> h.amount,
                  on |-> {<<h.chain[i].run_id, h.chain[i].generation>> : i \in DOMAIN h.chain}] :
                    h \in Outstanding},
       epochs <- next_generation,
       placed <- next_reservation

(* In enforce mode the ledger, with its counters, chains and generations,  *)
(* implements the escrow: reserve admits only what fits beside the holds   *)
(* themselves on every level, and settle lifts one hold, once, from the    *)
(* very entries it was placed on.                                          *)
ImplementsEscrow == E!EscrowSpec
=============================================================================
