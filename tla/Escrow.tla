------------------------------- MODULE Escrow -------------------------------
(***************************************************************************)
(* What a budget ledger in enforce mode promises, without trees, chains,   *)
(* counters or generations on handles: accounts with a budget, and holds   *)
(* that are objects.  A hold is placed on several accounts at once, or on  *)
(* none; it is lifted once, from all of them, and lifting it is what       *)
(* turns it into spend.  An account that is closed and opened again is a   *)
(* new account (its epoch), which the holds of the old one do not touch.   *)
(***************************************************************************)
EXTENDS Integers, FiniteSets

CONSTANTS Accounts, MaxMoney, Amounts, Costs, Budgets

VARIABLES
  account,   \* budget, spend and epoch of each account
  holds,     \* the holds in force
  epochs,    \* epochs begun so far
  placed     \* holds placed so far

evars == <<account, holds, epochs, placed>>

Capped(n) == IF n > MaxMoney THEN MaxMoney ELSE n

Current(a) == <<a, account[a].epoch>>

(* The sum of the holds on the present epoch of an account. *)
OnHold(a) ==
  Cardinality(UNION {{h.id} \X (1 .. h.amount) : h \in {g \in holds : Current(a) \in g.on}})

EscrowInit ==
  /\ account = [a \in Accounts |-> [open |-> FALSE, epoch |-> 0, budget |-> 0, spent |-> 0]]
  /\ holds = {}
  /\ epochs = 0
  /\ placed = 0

Open(a, budget) ==
  /\ epochs' = epochs + 1
  /\ ~account[a].open
  /\ account' = [account EXCEPT ![a] =
       [open |-> TRUE, epoch |-> epochs + 1, budget |-> budget, spent |-> 0]]
  /\ UNCHANGED <<holds, placed>>

Rebudget(a, budget) ==
  /\ account[a].open
  /\ account' = [account EXCEPT ![a].budget = budget]
  /\ UNCHANGED <<holds, epochs, placed>>

Place(amount, on) ==
  /\ placed' = placed + 1
  /\ \A a \in on : account[a].open /\ account[a].spent + OnHold(a) + amount =< account[a].budget
  /\ holds' = holds \cup {[id |-> placed + 1, amount |-> amount, on |-> {Current(a) : a \in on}]}
  /\ UNCHANGED <<account, epochs>>

Lift(h, cost) ==
  /\ holds' = holds \ {h}
  /\ account' = [a \in Accounts |->
       IF Current(a) \in h.on THEN [account[a] EXCEPT !.spent = Capped(@ + cost)] ELSE account[a]]
  /\ UNCHANGED <<epochs, placed>>

Spend(a, amount) ==
  /\ account[a].open
  /\ account' = [account EXCEPT ![a].spent = Capped(@ + amount)]
  /\ UNCHANGED <<holds, epochs, placed>>

Close(a) ==
  /\ account' = [account EXCEPT ![a].open = FALSE]
  /\ UNCHANGED <<holds, epochs, placed>>

EscrowNext ==
  \/ \E a \in Accounts, budget \in Budgets : Open(a, budget) \/ Rebudget(a, budget)
  \/ \E amount \in Amounts, on \in (SUBSET Accounts) \ {{}} : Place(amount, on)
  \/ \E h \in holds, cost \in Costs : Lift(h, cost)
  \/ \E a \in Accounts, amount \in Costs : Spend(a, amount)
  \/ \E a \in Accounts : Close(a)

EscrowSpec == EscrowInit /\ [][EscrowNext]_evars
=============================================================================
