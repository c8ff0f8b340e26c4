---------------------------- MODULE EscrowProofs ----------------------------
(***************************************************************************)
(* The ledger in enforce mode, for any runs, amounts and depth, for every  *)
(* tree of runs and every interleaving: it holds a run, its descendants    *)
(* included, to the highest budget the run held, and it implements the     *)
(* escrow, each of its steps a step of the escrow or none.  And what else  *)
(* goes by the tree of runs: the firewall of Taint, for any ancestry no    *)
(* deeper than its walk.  And what the ledger's reservations outlive a     *)
(* process by: the journal of RetainedJournal and the closures it keeps.   *)
(***************************************************************************)
EXTENDS LedgerBudget, LedgerProofs, Taint, RetainedJournal, FiniteSetTheorems,
        WellFoundedInduction

-----------------------------------------------------------------------------
(* The budget a run held is not exceeded.                                  *)

(* What the two history variables are, and that peak is above the budget. *)
HistoryOK ==
  /\ peak \in [Runs -> Nat]
  /\ over \in [Runs -> Nat]
  /\ \A r \in Runs : runs[r].budget =< peak[r]

BudgetInv == IInv /\ EnforceExact /\ HistoryOK /\ WithinBudget

(* Every step of LedgerBudget is a step of Ledger in enforce mode. *)
LEMMA BudgetStepIsEnforce == [BudgetNext]_bvars => [EnforceNext]_vars
BY DEF BudgetNext, EnforceNext, bvars, vars

(* The two cases of a tracked step: a run's entry is new, or it is not. *)
LEMMA TrackCases ==
  ASSUME IInv, HistoryOK, NEW excess \in [Runs -> Nat], Track(excess), IInv',
         NEW r \in Runs
  PROVE  /\ peak' \in [Runs -> Nat] /\ over' \in [Runs -> Nat]
         /\ runs'[r].budget =< peak'[r]
         /\ runs'[r].generation = runs[r].generation =>
              /\ peak'[r] >= peak[r]
              /\ over'[r] = over[r] + excess[r]
<1>1. /\ \A q \in Runs : runs[q].budget \in Nat /\ runs'[q].budget \in Nat
      /\ peak \in [Runs -> Nat] /\ over \in [Runs -> Nat]
  BY MoneyAssumption DEF IInv, TypeOK, RunState, Money, HistoryOK
<1>2. peak' \in [Runs -> Nat] /\ over' \in [Runs -> Nat]
  BY <1>1 DEF Track
<1>3. runs'[r].budget =< peak'[r]
  BY <1>1 DEF Track
<1>4. runs'[r].generation = runs[r].generation =>
        peak'[r] >= peak[r] /\ over'[r] = over[r] + excess[r]
  BY <1>1 DEF Track
<1> QED BY <1>2, <1>3, <1>4

(* A step that leaves generation, spend and reserved alone keeps the bound. *)
LEMMA QuietStep ==
  ASSUME IInv, HistoryOK, WithinBudget, NEW excess \in [Runs -> Nat], Track(excess), IInv',
         NEW r \in Runs,
         runs'[r].generation = runs[r].generation,
         runs'[r].spent = runs[r].spent,
         runs'[r].reserved = runs[r].reserved
  PROVE  runs'[r].spent + runs'[r].reserved =< peak'[r] + over'[r]
<1>1. /\ peak'[r] >= peak[r] /\ over'[r] = over[r] + excess[r]
      /\ peak'[r] \in Nat /\ over'[r] \in Nat
  BY TrackCases
<1>2. /\ runs[r].spent \in Nat /\ runs[r].reserved \in Nat
      /\ peak[r] \in Nat /\ over[r] \in Nat /\ excess[r] \in Nat
      /\ runs[r].spent + runs[r].reserved =< peak[r] + over[r]
  BY MoneyAssumption DEF IInv, TypeOK, RunState, Money, HistoryOK, WithinBudget
<1> QED BY <1>1, <1>2

LEMMA BudgetStep == BudgetInv /\ [BudgetNext]_bvars => BudgetInv'
<1> SUFFICES ASSUME BudgetInv, [BudgetNext]_bvars PROVE BudgetInv'
  OBVIOUS
<1>0. /\ IInv /\ EnforceExact /\ HistoryOK /\ WithinBudget
      /\ TypeOK /\ Issued
  BY DEF BudgetInv, IInv
<1>a. IInv' /\ EnforceExact'
  <2>1. [EnforceNext]_vars
    BY BudgetStepIsEnforce
  <2>2. [Next]_vars
    BY <2>1 DEF Next
  <2> QED BY <1>0, <2>1, <2>2, InvStep, ExactStep
<1>b. Nothing \in [Runs -> Nat]
  BY DEF Nothing
<1>c. ASSUME NEW excess \in [Runs -> Nat], Track(excess) PROVE HistoryOK'
  BY <1>0, <1>a, <1>c, TrackCases DEF HistoryOK, Track
<1>d. \A r \in Runs : /\ runs[r].spent \in Nat /\ runs[r].reserved \in Nat
                      /\ runs[r].budget \in Nat
                      /\ runs[r].spent \in Money /\ runs[r].reserved \in Money
                      /\ peak[r] \in Nat /\ over[r] \in Nat
                      /\ runs[r].spent + runs[r].reserved =< peak[r] + over[r]
  BY <1>0, MoneyAssumption DEF TypeOK, RunState, Money, HistoryOK, WithinBudget
<1>m. \A a, b \in Money : SaturatingAdd(a, b) =< a + b /\ SaturatingAdd(a, b) \in Nat
  <2>1. Money \subseteq Nat
    BY MoneyAssumption DEF Money
  <2> QED BY <2>1, MoneyArithmetic
<1>1. ASSUME NEW run \in Runs, NEW budget \in Budgets,
             NEW parent \in Runs \cup {NoParent},
             NEW basis \in {"Caller", "Operator"},
             open_run_as(run, budget, parent, basis), Track(Nothing)
      PROVE  WithinBudget'
  <2> SUFFICES ASSUME NEW r \in Runs
               PROVE  runs'[r].spent + runs'[r].reserved =< peak'[r] + over'[r]
    BY DEF WithinBudget
  <2>1. CASE open_fresh(run, budget, parent)
    <3>1. CASE r = run
      <4>1. runs'[r].spent = 0 /\ runs'[r].reserved = 0
        BY <1>0, <2>1, <3>1, FreshLiability
      <4>2. peak'[r] \in Nat /\ over'[r] \in Nat
        BY <1>0, <1>a, <1>b, <1>1, TrackCases
      <4> QED BY <4>1, <4>2
    <3>2. CASE r # run
      <4>1. runs'[r] = runs[r]
        BY <1>0, <2>1, <3>2, FreshLiability
      <4> QED BY <1>0, <1>a, <1>b, <1>1, <4>1, QuietStep
    <3> QED BY <3>1, <3>2
  <2>2. CASE open_held(run, budget, parent, basis)
    <3>1. /\ runs'[r].generation = runs[r].generation
          /\ runs'[r].spent = runs[r].spent
          /\ runs'[r].reserved = runs[r].reserved
      BY <1>0, <2>2 DEF open_held, TypeOK, RunState
    <3> QED BY <1>0, <1>a, <1>b, <1>1, <3>1, QuietStep
  <2> QED BY <1>1, <2>1, <2>2 DEF open_run_as
<1>2. ASSUME NEW run \in Runs, NEW estimate \in Amounts, reserve(run, estimate),
             Track(Nothing)
      PROVE  WithinBudget'
  <2> SUFFICES ASSUME NEW r \in Runs
               PROVE  runs'[r].spent + runs'[r].reserved =< peak'[r] + over'[r]
    BY DEF WithinBudget
  <2>1. estimate \in Money /\ estimate \in Nat /\ runs \in [Runs -> RunState]
    BY <1>0, InputsAssumption, MoneyAssumption DEF Money, TypeOK
  <2>2. PICK path \in Walks(runs, run) :
          Admissible(runs, path, estimate) /\ Admit(runs, run, estimate, path)
    BY <1>2 DEF reserve
  <2>3. /\ runs'[r].generation = runs[r].generation
        /\ runs'[r].spent = runs[r].spent
    BY <2>1, <2>2, AdmitEntries
  <2>4. CASE /\ \E i \in DOMAIN path : path[i] = r
             /\ runs'[r].reserved = SaturatingAdd(runs[r].reserved, estimate)
    <3>1. Fits(runs[r], estimate)
      BY <2>2, <2>4 DEF Admissible
    <3>2. /\ SaturatingAdd(runs[r].reserved, estimate) =< runs[r].reserved + estimate
          /\ SaturatingAdd(runs[r].reserved, estimate) \in Nat
      BY <1>d, <1>m, <2>1
    <3>3. peak'[r] >= peak[r] /\ peak'[r] \in Nat /\ over'[r] \in Nat
      BY <1>0, <1>a, <1>b, <1>2, <2>3, TrackCases
    <3>4. runs[r].budget =< peak[r]
      BY <1>0 DEF HistoryOK
    <3>5. runs[r].spent + runs[r].reserved + estimate =< runs[r].budget
      BY <3>1 DEF Fits
    <3> QED BY <1>d, <2>1, <2>3, <2>4, <3>2, <3>3, <3>4, <3>5
  <2>5. CASE runs'[r].reserved = runs[r].reserved
    BY <1>0, <1>a, <1>b, <1>2, <2>3, <2>5, QuietStep
  <2> QED BY <1>0, <2>1, <2>2, <2>4, <2>5, AdmitSums
<1>3. ASSUME NEW h \in handles, NEW actual \in Costs, settle(h, actual),
             Track([r \in Runs |-> IF Holds(h, r, runs) /\ actual > h.amount
                                   THEN actual - h.amount ELSE 0])
      PROVE  WithinBudget' /\ HistoryOK'
  <2> DEFINE excess == [r \in Runs |-> IF Holds(h, r, runs) /\ actual > h.amount
                                       THEN actual - h.amount ELSE 0]
  <2>1. /\ actual \in Money /\ actual \in Nat
        /\ h.amount \in Money /\ h.amount \in Nat
    BY <1>0, InputsAssumption, MoneyAssumption DEF TypeOK, Reservation, Money
  <2>2. excess \in [Runs -> Nat]
    BY <2>1
  <2>3. ASSUME NEW r \in Runs
        PROVE  runs'[r].spent + runs'[r].reserved =< peak'[r] + over'[r]
    <3>1. runs'[r] = IF Holds(h, r, runs)
                     THEN [runs[r] EXCEPT !.reserved = SaturatingSub(@, h.amount),
                                          !.spent = SaturatingAdd(@, actual)]
                     ELSE runs[r]
      BY <1>3 DEF settle
    <3>2. CASE Holds(h, r, runs)
      <4>1. /\ runs'[r].generation = runs[r].generation
            /\ runs'[r].spent = SaturatingAdd(runs[r].spent, actual)
            /\ runs'[r].reserved = SaturatingSub(runs[r].reserved, h.amount)
        BY <1>0, <3>1, <3>2 DEF TypeOK, RunState
      <4>2. runs[r].reserved >= h.amount
        <5>1. Liability(r) = Liability(r)' + h.amount /\ Liability(r)' \in Nat
          BY <1>0, <1>3, <2>1, <3>2, SettleSums
        <5>2. runs[r].reserved = Liability(r)
          BY <1>0 DEF EnforceExact
        <5> QED BY <2>1, <5>1, <5>2
      <4>3. runs'[r].reserved = runs[r].reserved - h.amount
        BY <1>d, <2>1, <4>1, <4>2 DEF SaturatingSub
      <4>4. /\ runs'[r].spent =< runs[r].spent + actual
            /\ runs'[r].spent \in Nat
        BY <1>d, <1>m, <2>1, <4>1
      <4>5. /\ peak'[r] >= peak[r] /\ over'[r] = over[r] + excess[r]
            /\ peak'[r] \in Nat
        BY <1>0, <1>a, <1>3, <2>2, <4>1, TrackCases
      <4>6. excess[r] = IF actual > h.amount THEN actual - h.amount ELSE 0
        BY <3>2
      <4> QED BY <1>d, <2>1, <4>2, <4>3, <4>4, <4>5, <4>6
    <3>3. CASE ~Holds(h, r, runs)
      <4>1. runs'[r] = runs[r]
        BY <3>1, <3>3
      <4> QED BY <1>0, <1>a, <1>3, <2>2, <4>1, QuietStep
    <3> QED BY <3>2, <3>3
  <2>4. WithinBudget'
    BY <2>3 DEF WithinBudget
  <2> QED BY <1>3, <1>c, <2>2, <2>4
<1>4. ASSUME NEW run \in Runs, NEW amount \in Costs,
             NEW generation \in 1 .. MaxGenerations,
             seed_spend(run, amount, generation),
             Track([Nothing EXCEPT ![run] = amount])
      PROVE  WithinBudget' /\ HistoryOK'
  <2> DEFINE excess == [Nothing EXCEPT ![run] = amount]
  <2>1. amount \in Money /\ amount \in Nat
    BY InputsAssumption, MoneyAssumption DEF Money
  <2>2. excess \in [Runs -> Nat] /\ excess[run] = amount
    BY <2>1 DEF Nothing
  <2>3. ASSUME NEW r \in Runs
        PROVE  runs'[r].spent + runs'[r].reserved =< peak'[r] + over'[r]
    <3>1. runs' = [runs EXCEPT ![run].spent = SaturatingAdd(@, amount)]
      BY <1>4 DEF seed_spend
    <3>2. CASE r = run
      <4>1. /\ runs'[r].generation = runs[r].generation
            /\ runs'[r].reserved = runs[r].reserved
            /\ runs'[r].spent = SaturatingAdd(runs[r].spent, amount)
        BY <1>0, <3>1, <3>2 DEF TypeOK, RunState
      <4>2. /\ runs'[r].spent =< runs[r].spent + amount
            /\ runs'[r].spent \in Nat
        BY <1>d, <1>m, <2>1, <4>1
      <4>3. /\ peak'[r] >= peak[r] /\ over'[r] = over[r] + amount
            /\ peak'[r] \in Nat
        BY <1>0, <1>a, <1>4, <2>2, <3>2, <4>1, TrackCases
      <4> QED BY <1>d, <2>1, <4>1, <4>2, <4>3
    <3>3. CASE r # run
      <4>1. runs'[r] = runs[r]
        BY <1>0, <3>1, <3>3 DEF TypeOK
      <4> QED BY <1>0, <1>a, <1>4, <2>2, <4>1, QuietStep
    <3> QED BY <3>2, <3>3
  <2>4. WithinBudget'
    BY <2>3 DEF WithinBudget
  <2> QED BY <1>4, <1>c, <2>2, <2>4
<1>5. ASSUME NEW run \in Runs, close_run(run), Track(Nothing)
      PROVE  WithinBudget'
  <2> SUFFICES ASSUME NEW r \in Runs
               PROVE  runs'[r].spent + runs'[r].reserved =< peak'[r] + over'[r]
    BY DEF WithinBudget
  <2>1. /\ runs'[r].generation = runs[r].generation
        /\ runs'[r].spent = runs[r].spent
        /\ runs'[r].reserved = runs[r].reserved
    BY <1>0, <1>5 DEF close_run, TypeOK, RunState
  <2> QED BY <1>0, <1>a, <1>b, <1>5, <2>1, QuietStep
<1>6. ASSUME UNCHANGED bvars PROVE WithinBudget' /\ HistoryOK'
  BY <1>0, <1>6 DEF bvars, WithinBudget, HistoryOK
<1>7. WithinBudget' /\ HistoryOK'
  BY <1>b, <1>c, <1>1, <1>2, <1>3, <1>4, <1>5, <1>6 DEF BudgetNext
<1> QED BY <1>a, <1>7 DEF BudgetInv

(* Enforce mode keeps every run of the tree within the highest budget it    *)
(* held, up to seeds and settlements above their estimates.                 *)
THEOREM BudgetHolds == BudgetSpec => []WithinBudget
<1>1. BudgetInit => BudgetInv
  <2> SUFFICES ASSUME BudgetInit PROVE BudgetInv
    OBVIOUS
  <2>1. IInv /\ EnforceExact
    BY InvInit, ExactInit DEF BudgetInit
  <2>2. HistoryOK /\ WithinBudget
    BY DEF BudgetInit, Init, Nothing, Absent, Fresh, HistoryOK, WithinBudget
  <2> QED BY <2>1, <2>2 DEF BudgetInv
<1>2. BudgetInv => WithinBudget
  BY DEF BudgetInv
<1> QED BY <1>1, <1>2, BudgetStep, PTL DEF BudgetSpec

-----------------------------------------------------------------------------
(* The refinement.                                                         *)

(* What the escrow sees of a run's entry, and of a handle. *)
Account(s) == [open |-> IsOpen(s), epoch |-> s.generation, budget |-> s.budget, spent |-> s.spent]
On(h) == {<<h.chain[i].run_id, h.chain[i].generation>> : i \in DOMAIN h.chain}
Hold(h) == [id |-> h.id, amount |-> h.amount, on |-> On(h)]

AccountOf == [r \in Runs |-> Account(runs[r])]
HoldsOf == {Hold(h) : h \in Outstanding}

(* A handle holds a run's entry exactly when its hold is on the account in *)
(* its present epoch.                                                      *)
LEMMA HoldsIsOn ==
  ASSUME NEW h, NEW r \in Runs
  PROVE  Holds(h, r, runs) <=> <<r, AccountOf[r].epoch>> \in On(h)
BY DEF Holds, On, AccountOf, Account

(* What the escrow counts on an account is what the ledger counts on the   *)
(* run: its outstanding reservations.                                      *)
LEMMA OnHoldIsLiability ==
  ASSUME NEW r \in Runs
  PROVE  E!OnHold(r) = Liability(r)
<1> DEFINE Here(g) == <<r, AccountOf[r].epoch>> \in g.on
           G == {g \in HoldsOf : Here(g)}
           H == {h \in Outstanding : Holds(h, r, runs)}
<1>1. \A h : Hold(h).id = h.id /\ Hold(h).amount = h.amount /\ Hold(h).on = On(h)
  BY DEF Hold
<1>2. \A h : Holds(h, r, runs) <=> Here(Hold(h))
  BY <1>1, HoldsIsOn
<1>3. HoldsOf = {Hold(h) : h \in Outstanding}
  BY DEF HoldsOf
<1> HIDE DEF Here
<1>4. \A g : g \in G <=> \E h \in H : g = Hold(h)
  BY <1>2, <1>3
<1>5. E!OnHold(r) = Cardinality(UNION {{g.id} \X (1 .. g.amount) : g \in G})
  BY DEF E!OnHold, E!Current, E!Cardinality, Cardinality, HoldsOf, Hold, On, AccountOf, Account, Here, G
<1> HIDE DEF G, H
<1>6. \A x : x \in UNION {{g.id} \X (1 .. g.amount) : g \in G}
               <=> \E h \in H : x \in {h.id} \X (1 .. h.amount)
  BY <1>1, <1>4
<1>7. \A x : x \in Tokens(H) <=> \E h \in H : x \in {h.id} \X (1 .. h.amount)
  BY DEF Tokens
<1>8. UNION {{g.id} \X (1 .. g.amount) : g \in G} = Tokens(H)
  BY <1>6, <1>7
<1>9. Liability(r) = Cardinality(Tokens(H))
  BY DEF Liability, H
<1> QED BY <1>5, <1>8, <1>9

-----------------------------------------------------------------------------
(* The actions of the escrow, said of accounts and holds. *)
LEMMA OpenIs ==
  ASSUME NEW r \in Runs, NEW budget,
         next_generation' = next_generation + 1,
         ~AccountOf[r].open,
         AccountOf' = [AccountOf EXCEPT ![r] =
           [open |-> TRUE, epoch |-> next_generation + 1, budget |-> budget, spent |-> 0]],
         HoldsOf' = HoldsOf, next_reservation' = next_reservation
  PROVE  E!Open(r, budget)
BY DEF E!Open, AccountOf, Account, HoldsOf, Hold, On

LEMMA RebudgetIs ==
  ASSUME NEW r \in Runs, NEW budget,
         AccountOf[r].open,
         AccountOf' = [AccountOf EXCEPT ![r].budget = budget],
         HoldsOf' = HoldsOf, next_generation' = next_generation,
         next_reservation' = next_reservation
  PROVE  E!Rebudget(r, budget)
BY DEF E!Rebudget, AccountOf, Account, HoldsOf, Hold, On

LEMMA PlaceIs ==
  ASSUME NEW amount, NEW on,
         next_reservation' = next_reservation + 1,
         \A a \in on : AccountOf[a].open
                       /\ AccountOf[a].spent + E!OnHold(a) + amount =< AccountOf[a].budget,
         HoldsOf' = HoldsOf \cup {[id |-> next_reservation + 1, amount |-> amount,
                                   on |-> {<<a, AccountOf[a].epoch>> : a \in on}]},
         AccountOf' = AccountOf, next_generation' = next_generation
  PROVE  E!Place(amount, on)
BY DEF E!Place, E!Current, AccountOf, Account, HoldsOf, Hold, On

LEMMA LiftIs ==
  ASSUME NEW g, NEW cost,
         HoldsOf' = HoldsOf \ {g},
         AccountOf' = [a \in Runs |->
           IF <<a, AccountOf[a].epoch>> \in g.on
           THEN [AccountOf[a] EXCEPT !.spent = SaturatingAdd(@, cost)] ELSE AccountOf[a]],
         next_generation' = next_generation, next_reservation' = next_reservation
  PROVE  E!Lift(g, cost)
BY DEF E!Lift, E!Current, E!Capped, SaturatingAdd, AccountOf, Account, HoldsOf, Hold, On

LEMMA SpendIs ==
  ASSUME NEW r \in Runs, NEW amount,
         AccountOf[r].open,
         AccountOf' = [AccountOf EXCEPT ![r].spent = SaturatingAdd(@, amount)],
         HoldsOf' = HoldsOf, next_generation' = next_generation,
         next_reservation' = next_reservation
  PROVE  E!Spend(r, amount)
BY DEF E!Spend, E!Capped, SaturatingAdd, AccountOf, Account, HoldsOf, Hold, On

LEMMA CloseIs ==
  ASSUME NEW r \in Runs,
         AccountOf' = [AccountOf EXCEPT ![r].open = FALSE],
         HoldsOf' = HoldsOf, next_generation' = next_generation,
         next_reservation' = next_reservation
  PROVE  E!Close(r)
BY DEF E!Close, AccountOf, Account, HoldsOf, Hold, On

LEMMA StutterIs ==
  ASSUME AccountOf' = AccountOf, HoldsOf' = HoldsOf,
         next_generation' = next_generation, next_reservation' = next_reservation
  PROVE  UNCHANGED E!evars
BY DEF E!evars, AccountOf, Account, HoldsOf, Hold, On

-----------------------------------------------------------------------------
(* What a run's account is, and that holds move only with the handles. *)
LEMMA AccountFields ==
  ASSUME NEW r \in Runs
  PROVE  /\ AccountOf[r] = Account(runs[r])
         /\ AccountOf[r].open = IsOpen(runs[r])
         /\ AccountOf[r].epoch = runs[r].generation
         /\ AccountOf[r].budget = runs[r].budget
         /\ AccountOf[r].spent = runs[r].spent
BY DEF AccountOf, Account

LEMMA SameHolds ==
  ASSUME outstanding' = outstanding, handles' = handles
  PROVE  HoldsOf' = HoldsOf
BY DEF HoldsOf, Hold, On, Outstanding

(* An account changes as its entry does, and two functions on Runs that    *)
(* agree everywhere are one.                                               *)
LEMMA AccountsMove ==
  ASSUME NEW f, DOMAIN f = Runs, f = [r \in Runs |-> f[r]],
         \A r \in Runs : Account(runs'[r]) = f[r]
  PROVE  AccountOf' = f
<1>1. AccountOf' = [r \in Runs |-> Account(runs'[r])]
  BY DEF AccountOf, Account, IsOpen
<1> QED BY <1>1

(* open_run_as opens an account, sets its budget, or leaves it alone. *)
LEMMA OpenMaps ==
  ASSUME TypeOK, NEW run \in Runs, NEW budget \in Budgets,
         NEW parent \in Runs \cup {NoParent}, NEW basis \in {"Caller", "Operator"},
         open_run_as(run, budget, parent, basis)
  PROVE  E!Open(run, budget) \/ E!Rebudget(run, budget) \/ UNCHANGED E!evars
<1>0. runs \in [Runs -> RunState] /\ next_generation \in Nat
  BY DEF TypeOK
<1>1. CASE open_fresh(run, budget, parent)
  <2> DEFINE new == [open |-> TRUE, epoch |-> next_generation + 1,
                     budget |-> budget, spent |-> 0]
             fresh == Fresh(budget, parent, next_generation + 1)
  <2>1. /\ ~IsOpen(runs[run]) /\ next_generation' = next_generation + 1
        /\ runs' = [runs EXCEPT ![run] = fresh]
        /\ next_reservation' = next_reservation
        /\ outstanding' = outstanding /\ handles' = handles
    BY <1>1 DEF open_fresh
  <2>a. /\ fresh.generation = next_generation + 1 /\ fresh.budget = budget
        /\ fresh.spent = 0 /\ fresh.closed = FALSE
    BY DEF Fresh
  <2>b. IsOpen(fresh) = TRUE
    BY <1>0, <2>a DEF IsOpen
  <2>2. Account(fresh) = new
    BY <2>a, <2>b DEF Account
  <2>3. \A r \in Runs : runs'[r] = IF r = run THEN fresh ELSE runs[r]
    BY <1>0, <2>1
  <2> HIDE DEF fresh, new
  <2>4. \A r \in Runs : Account(runs'[r]) = [AccountOf EXCEPT ![run] = new][r]
    BY <2>2, <2>3 DEF AccountOf
  <2>5. AccountOf' = [AccountOf EXCEPT ![run] = new]
    BY <2>4, AccountsMove DEF AccountOf
  <2>6. ~AccountOf[run].open
    BY <2>1, AccountFields
  <2> QED BY <2>1, <2>5, <2>6, SameHolds, OpenIs DEF new
<1>2. CASE open_held(run, budget, parent, basis)
  <2>1. /\ IsOpen(runs[run])
        /\ next_generation' = next_generation /\ next_reservation' = next_reservation
        /\ outstanding' = outstanding /\ handles' = handles
    BY <1>2 DEF open_held
  <2>2. PICK b \in {budget, runs[run].budget} :
          /\ \A r \in Runs : r # run => runs'[r] = runs[r]
          /\ runs'[run].budget = b
          /\ runs'[run].generation = runs[run].generation
          /\ runs'[run].spent = runs[run].spent
          /\ runs'[run].closed = runs[run].closed
    BY <1>0, <1>2 DEF open_held, RunState
  <2>3. /\ Account(runs'[run]) = [Account(runs[run]) EXCEPT !.budget = b]
        /\ b = runs[run].budget => Account(runs'[run]) = Account(runs[run])
    BY <2>2 DEF Account, IsOpen
  <2>4. \A r \in Runs : Account(runs'[r]) = [AccountOf EXCEPT ![run].budget = b][r]
    BY <2>2, <2>3 DEF AccountOf
  <2>5. CASE b = budget
    <3>1. AccountOf' = [AccountOf EXCEPT ![run].budget = budget]
      BY <2>4, <2>5, AccountsMove DEF AccountOf
    <3> QED BY <2>1, <3>1, AccountFields, SameHolds, RebudgetIs
  <2>6. CASE b = runs[run].budget
    <3>1. \A r \in Runs : Account(runs'[r]) = AccountOf[r]
      BY <2>2, <2>3, <2>6 DEF AccountOf
    <3>2. AccountOf' = AccountOf
      BY <3>1, AccountsMove DEF AccountOf
    <3> QED BY <2>1, <3>2, SameHolds, StutterIs
  <2> QED BY <2>2, <2>5, <2>6
<1> QED BY <1>1, <1>2 DEF open_run_as

(* seed_spend is a spend without a hold. *)
LEMMA SeedMaps ==
  ASSUME TypeOK, NEW run \in Runs, NEW amount, NEW generation,
         seed_spend(run, amount, generation)
  PROVE  E!Spend(run, amount)
<1> DEFINE s == SaturatingAdd(runs[run].spent, amount)
<1>1. /\ IsOpen(runs[run]) /\ runs' = [runs EXCEPT ![run].spent = s]
      /\ next_generation' = next_generation /\ next_reservation' = next_reservation
      /\ outstanding' = outstanding /\ handles' = handles
      /\ runs \in [Runs -> RunState]
  BY DEF seed_spend, TypeOK
<1> HIDE DEF s
<1>2. /\ \A r \in Runs : r # run => runs'[r] = runs[r]
      /\ runs'[run] = [runs[run] EXCEPT !.spent = s]
  BY <1>1
<1>3. Account(runs'[run]) = [Account(runs[run]) EXCEPT !.spent = s]
  BY <1>1, <1>2 DEF Account, IsOpen, RunState
<1>4. \A r \in Runs : Account(runs'[r]) = [AccountOf EXCEPT ![run].spent = s][r]
  BY <1>2, <1>3 DEF AccountOf
<1>5. AccountOf' = [AccountOf EXCEPT ![run].spent = s]
  BY <1>4, AccountsMove DEF AccountOf
<1>6. s = SaturatingAdd(AccountOf[run].spent, amount)
  BY AccountFields DEF s
<1>7. AccountOf' = [AccountOf EXCEPT ![run].spent = SaturatingAdd(@, amount)]
  BY <1>5, <1>6
<1> QED BY <1>1, <1>7, AccountFields, SameHolds, SpendIs

(* close_run closes the account. *)
LEMMA CloseMaps ==
  ASSUME TypeOK, NEW run \in Runs, close_run(run)
  PROVE  E!Close(run)
<1>1. /\ runs' = [runs EXCEPT ![run].closed = TRUE]
      /\ next_generation' = next_generation /\ next_reservation' = next_reservation
      /\ outstanding' = outstanding /\ handles' = handles
      /\ runs \in [Runs -> RunState]
  BY DEF close_run, TypeOK
<1>2. /\ \A r \in Runs : r # run => runs'[r] = runs[r]
      /\ runs'[run] = [runs[run] EXCEPT !.closed = TRUE]
  BY <1>1
<1>a. /\ runs'[run].generation = runs[run].generation
      /\ runs'[run].budget = runs[run].budget /\ runs'[run].spent = runs[run].spent
      /\ runs'[run].closed = TRUE
  BY <1>1, <1>2 DEF RunState
<1>b. IsOpen(runs'[run]) = FALSE
  BY <1>a, Zenon DEF IsOpen
<1>c. \A v : [Account(runs[run]) EXCEPT !.open = v]
              = [open |-> v, epoch |-> runs[run].generation,
                 budget |-> runs[run].budget, spent |-> runs[run].spent]
  BY DEF Account
<1>d. Account(runs'[run]) = [open |-> FALSE, epoch |-> runs[run].generation,
                             budget |-> runs[run].budget, spent |-> runs[run].spent]
  BY <1>a, <1>b, Zenon DEF Account
<1>3. Account(runs'[run]) = [Account(runs[run]) EXCEPT !.open = FALSE]
  BY <1>c, <1>d, Zenon
<1>4. \A r \in Runs : Account(runs'[r]) = [AccountOf EXCEPT ![run].open = FALSE][r]
  <2> SUFFICES ASSUME NEW r \in Runs
               PROVE  Account(runs'[r]) = [AccountOf EXCEPT ![run].open = FALSE][r]
    OBVIOUS
  <2>1. AccountOf[run] = Account(runs[run]) /\ AccountOf[r] = Account(runs[r])
    BY AccountFields
  <2>2. DOMAIN AccountOf = Runs
    BY DEF AccountOf
  <2> HIDE DEF AccountOf, Account
  <2> QED BY <1>2, <1>3, <2>1, <2>2, Zenon
<1>5. AccountOf' = [AccountOf EXCEPT ![run].open = FALSE]
  BY <1>4, AccountsMove DEF AccountOf
<1> QED BY <1>1, <1>5, SameHolds, CloseIs

(* reserve places one hold, on the entries of the whole walk, and only     *)
(* where it fits beside the holds already there.                           *)
LEMMA ReserveMaps ==
  ASSUME TypeOK, Issued, EnforceExact, NEW run \in Runs, NEW estimate \in Amounts,
         reserve(run, estimate)
  PROVE  \E on \in (SUBSET Runs) \ {{}} : E!Place(estimate, on)
<1>0. estimate \in Money /\ runs \in [Runs -> RunState]
  BY InputsAssumption DEF TypeOK
<1>1. PICK path \in Walks(runs, run) :
        Admissible(runs, path, estimate) /\ Admit(runs, run, estimate, path)
  BY DEF reserve
<1> DEFINE on == {path[i] : i \in DOMAIN path}
           new == [id |-> next_reservation + 1, amount |-> estimate,
                   on |-> {<<a, AccountOf[a].epoch>> : a \in on}]
<1>2. /\ path \in Seq(Runs) /\ Len(path) \in Nat \ {0} /\ DOMAIN path = 1 .. Len(path)
  BY WalkShape
<1>3. on \in (SUBSET Runs) \ {{}}
  <2>1. 1 \in DOMAIN path /\ \A i \in DOMAIN path : path[i] \in Runs
    BY <1>2
  <2> QED BY <2>1
<1>4. PICK k \in Reservation :
        /\ k.amount = estimate /\ k.chain = ChainOf(runs, path)
        /\ k.id = next_reservation + 1
        /\ Outstanding' = Outstanding \cup {k}
  BY <1>0, <1>1, AdmitHandle
<1>5. Hold(k) = new
  <2>1. DOMAIN k.chain = DOMAIN path
    BY <1>4 DEF ChainOf
  <2>2. \A i \in DOMAIN path :
          /\ k.chain[i].run_id = path[i]
          /\ k.chain[i].generation = AccountOf[path[i]].epoch
    BY <1>2, <1>4, AccountFields DEF ChainOf
  <2>3. On(k) = {<<a, AccountOf[a].epoch>> : a \in on}
    BY <2>1, <2>2 DEF On
  <2> QED BY <1>4, <2>3 DEF Hold
<1>6. HoldsOf' = HoldsOf \cup {new}
  <2>1. HoldsOf' = {Hold(h) : h \in Outstanding'}
    BY DEF HoldsOf, Hold, On
  <2> QED BY <1>4, <1>5, <2>1 DEF HoldsOf
<1>7. AccountOf' = AccountOf
  <2> SUFFICES ASSUME NEW r \in Runs PROVE Account(runs'[r]) = AccountOf[r]
    BY AccountsMove DEF AccountOf
  <2>1. /\ runs'[r].generation = runs[r].generation /\ runs'[r].spent = runs[r].spent
        /\ runs'[r].budget = runs[r].budget /\ runs'[r].closed = runs[r].closed
    BY <1>0, <1>1 DEF Admit, RunState
  <2> QED BY <2>1, AccountFields DEF Account, IsOpen
<1>8. ASSUME NEW a \in on
      PROVE  AccountOf[a].open
             /\ AccountOf[a].spent + E!OnHold(a) + estimate =< AccountOf[a].budget
  <2>1. PICK i \in DOMAIN path : a = path[i]
    OBVIOUS
  <2>2. a \in Runs
    BY <1>3
  <2>3. Fits(runs[a], estimate) /\ IsOpen(runs[a])
    BY <1>1, <2>1 DEF Admissible, Walks, Climbs
  <2>4. E!OnHold(a) = runs[a].reserved
    BY <2>2, OnHoldIsLiability DEF EnforceExact
  <2> QED BY <2>2, <2>3, <2>4, AccountFields DEF Fits
<1>9. next_reservation' = next_reservation + 1 /\ next_generation' = next_generation
  BY <1>1 DEF Admit, reserve
<1> HIDE DEF on, new
<1>10. E!Place(estimate, on)
  BY <1>6, <1>7, <1>8, <1>9, PlaceIs DEF new
<1> QED BY <1>3, <1>10

(* settle lifts the hold of its handle, from the accounts it is on. *)
LEMMA SettleMaps ==
  ASSUME TypeOK, Issued, NEW h \in handles, NEW actual \in Costs, settle(h, actual)
  PROVE  Hold(h) \in HoldsOf /\ E!Lift(Hold(h), actual)
<1>1. /\ h \in Outstanding /\ outstanding' = outstanding \ {h.id} /\ handles' = handles
      /\ next_generation' = next_generation /\ next_reservation' = next_reservation
      /\ runs' = [r \in Runs |->
           IF Holds(h, r, runs)
           THEN [runs[r] EXCEPT !.reserved = SaturatingSub(@, h.amount),
                                !.spent = SaturatingAdd(@, actual)]
           ELSE runs[r]]
      /\ runs \in [Runs -> RunState]
  BY DEF settle, Outstanding, TypeOK
<1>2. \A k : k \in Outstanding' <=> k \in Outstanding /\ Hold(k) # Hold(h)
  <2>1. \A k \in handles : k.id = h.id => k = h
    BY DEF Issued
  <2>2. \A k : k \in Outstanding' <=> k \in Outstanding /\ k.id # h.id
    BY <1>1 DEF Outstanding
  <2>3. \A k : Hold(k) = Hold(h) => k.id = h.id
    BY DEF Hold
  <2> QED BY <2>1, <2>2, <2>3 DEF Outstanding
<1>3. HoldsOf' = HoldsOf \ {Hold(h)}
  <2>1. HoldsOf' = {Hold(k) : k \in Outstanding'}
    BY DEF HoldsOf, Hold, On
  <2> QED BY <1>2, <2>1 DEF HoldsOf
<1> DEFINE f == [a \in Runs |->
             IF <<a, AccountOf[a].epoch>> \in Hold(h).on
             THEN [AccountOf[a] EXCEPT !.spent = SaturatingAdd(@, actual)] ELSE AccountOf[a]]
<1>4. ASSUME NEW r \in Runs PROVE Account(runs'[r]) = f[r]
  <2>1. Holds(h, r, runs) <=> <<r, AccountOf[r].epoch>> \in Hold(h).on
    BY HoldsIsOn DEF Hold
  <2>2. CASE Holds(h, r, runs)
    <3>1. /\ runs'[r].generation = runs[r].generation /\ runs'[r].closed = runs[r].closed
          /\ runs'[r].budget = runs[r].budget
          /\ runs'[r].spent = SaturatingAdd(runs[r].spent, actual)
      BY <1>1, <2>2 DEF RunState
    <3>2. Account(runs'[r]) = [Account(runs[r]) EXCEPT
                                 !.spent = SaturatingAdd(runs[r].spent, actual)]
      BY <3>1 DEF Account, IsOpen
    <3>3. f[r] = [AccountOf[r] EXCEPT !.spent = SaturatingAdd(AccountOf[r].spent, actual)]
      BY <2>1, <2>2
    <3> QED BY <3>2, <3>3, AccountFields
  <2>3. CASE ~Holds(h, r, runs)
    BY <1>1, <2>1, <2>3, AccountFields
  <2> QED BY <2>2, <2>3
<1>5. AccountOf' = f
  BY <1>4, AccountsMove
<1>6. Hold(h) \in HoldsOf
  BY <1>1 DEF HoldsOf
<1> QED BY <1>1, <1>3, <1>5, <1>6, LiftIs

-----------------------------------------------------------------------------
(* Every step of the ledger in enforce mode is one step of the escrow, or  *)
(* none.                                                                   *)
LEMMA StepMaps == BudgetInv /\ [BudgetNext]_bvars => [E!EscrowNext]_(E!evars)
<1> SUFFICES ASSUME BudgetInv, [BudgetNext]_bvars
             PROVE  E!EscrowNext \/ UNCHANGED E!evars
  OBVIOUS
<1>0. TypeOK /\ Issued /\ EnforceExact
  BY DEF BudgetInv, IInv
<1>1. ASSUME NEW run \in Runs, NEW budget \in Budgets,
             NEW parent \in Runs \cup {NoParent},
             NEW basis \in {"Caller", "Operator"},
             open_run_as(run, budget, parent, basis)
      PROVE  E!EscrowNext \/ UNCHANGED E!evars
  BY <1>0, <1>1, OpenMaps DEF E!EscrowNext
<1>2. ASSUME NEW run \in Runs, NEW estimate \in Amounts, reserve(run, estimate)
      PROVE  E!EscrowNext
  BY <1>0, <1>2, ReserveMaps DEF E!EscrowNext
<1>3. ASSUME NEW h \in handles, NEW actual \in Costs, settle(h, actual)
      PROVE  E!EscrowNext
  BY <1>0, <1>3, SettleMaps DEF E!EscrowNext, HoldsOf, Hold, On
<1>4. ASSUME NEW run \in Runs, NEW amount \in Costs, NEW generation,
             seed_spend(run, amount, generation)
      PROVE  E!EscrowNext
  BY <1>0, <1>4, SeedMaps DEF E!EscrowNext
<1>5. ASSUME NEW run \in Runs, close_run(run) PROVE E!EscrowNext
  BY <1>0, <1>5, CloseMaps DEF E!EscrowNext
<1>6. CASE UNCHANGED bvars
  <2>1. /\ runs' = runs /\ outstanding' = outstanding /\ handles' = handles
        /\ next_generation' = next_generation /\ next_reservation' = next_reservation
    BY <1>6 DEF bvars
  <2>2. AccountOf' = AccountOf
    BY <2>1 DEF AccountOf, Account, IsOpen
  <2> QED BY <2>1, <2>2, SameHolds, StutterIs
<1> QED BY <1>1, <1>2, <1>3, <1>4, <1>5, <1>6 DEF BudgetNext

LEMMA InitMaps == BudgetInit => E!EscrowInit
<1> SUFFICES ASSUME BudgetInit PROVE E!EscrowInit
  OBVIOUS
<1>1. /\ \A r \in Runs : runs[r] = Absent
      /\ next_generation = 0 /\ next_reservation = 0 /\ Outstanding = {}
  BY DEF BudgetInit, Init, Outstanding
<1>2. HoldsOf = {}
  BY <1>1 DEF HoldsOf
<1>3. IsOpen(Absent) = FALSE
  BY DEF IsOpen, Absent, Fresh
<1>4. Account(Absent) = [open |-> FALSE, epoch |-> 0, budget |-> 0, spent |-> 0]
  BY <1>3, Zenon DEF Account, Absent, Fresh
<1>5. AccountOf = [a \in Runs |-> [open |-> FALSE, epoch |-> 0, budget |-> 0, spent |-> 0]]
  BY <1>1, <1>4 DEF AccountOf
<1> QED BY <1>1, <1>2, <1>5 DEF E!EscrowInit, AccountOf, Account, HoldsOf, Hold, On

(* The ledger in enforce mode, with its counters, chains, generations and  *)
(* late settlements, does only what the escrow allows: it admits what fits *)
(* beside the holds themselves on every level of the tree, and a           *)
(* settlement lifts its own hold, once, from the entries it was placed on. *)
THEOREM LedgerIsEscrow == BudgetSpec => ImplementsEscrow
<1>1. BudgetInit => BudgetInv
  <2> SUFFICES ASSUME BudgetInit PROVE BudgetInv
    OBVIOUS
  <2>1. IInv /\ EnforceExact
    BY InvInit, ExactInit DEF BudgetInit
  <2>2. HistoryOK /\ WithinBudget
    BY DEF BudgetInit, Init, Nothing, Absent, Fresh, HistoryOK, WithinBudget
  <2> QED BY <2>1, <2>2 DEF BudgetInv
<1> QED BY <1>1, BudgetStep, InitMaps, StepMaps, PTL
        DEF BudgetSpec, ImplementsEscrow, E!EscrowSpec

-----------------------------------------------------------------------------
(* The firewall (Taint), in enforce mode: what a conversation nobody       *)
(* signed for asks, and what a run that read secrets sends.                *)

(* A policy file's own rule by the floor's name is no weaker than the      *)
(* floor: ensure_floors looks at the name alone.                           *)
FloorStands ==
  (\E r \in OperatorRules : r.name = "anti-exfiltration") =>
    \E r \in OperatorRules :
      /\ r.name = "anti-exfiltration" /\ "secrets" \in r.when_any
      /\ {"network_egress", "network_read"} \subseteq r.deny

Unsigned(c, sg) == labels_for_tools({BlockTool[b] : b \in c.blocks \ sg[c.run]})

SendsOut(c) == capabilities_for_tools(c.tools) \cap {"network_egress", "network_read"} # {}

TaintFields == {"run", "parent", "blocks", "stage", "found", "carrying", "owed", "secrets",
                "tools", "loaded", "forwarded"}

(* What a call knows at each stage of what it will be judged against. *)
CallKeeps(c, ls, sg) ==
  /\ DOMAIN c = TaintFields /\ c.run \in TaintRuns
  /\ c.stage = "split" => Unsigned(c, sg) \subseteq c.found
  /\ c.stage = "sent" => Unsigned(c, sg) \subseteq c.carrying
  /\ c.stage \in {"noted", "split"} /\ c.secrets => UNCLEARABLE \in ls[c.run]
  /\ c.stage = "sent" /\ c.secrets => UNCLEARABLE \in c.carrying
  /\ LetOut(c) => ~Denied(Unsigned(c, sg), c.tools, c.loaded)
  /\ LetOut(c) /\ c.secrets => ~SendsOut(c)

TaintDomains ==
  /\ DOMAIN labels = TaintRuns /\ DOMAIN order = TaintRuns
  /\ DOMAIN reviewed = TaintRuns /\ DOMAIN signed = TaintRuns
  /\ calls \in Seq({calls[n] : n \in DOMAIN calls})

TaintInv ==
  /\ TaintDomains
  /\ \A n \in DOMAIN calls : CallKeeps(calls[n], labels, signed)
  /\ ReviewIsTracked
  /\ \A r \in TaintRuns : reviewed[r] \subseteq signed[r]

(* More tools bring more labels; more labels forbid more. *)
LEMMA ToolLabelsGrow ==
  ASSUME NEW A, NEW B, A \subseteq B
  PROVE  labels_for_tools(A) \subseteq labels_for_tools(B)
BY DEF labels_for_tools

LEMMA DeniedGrows ==
  ASSUME NEW A, NEW B, A \subseteq B, NEW tools, NEW loaded, Denied(A, tools, loaded)
  PROVE  Denied(B, tools, loaded)
<1>1. CASE evaluate(A, capabilities_for_tools(tools))
  <2>1. evaluate(B, capabilities_for_tools(tools))
    BY <1>1 DEF evaluate
  <2> QED BY <2>1 DEF Denied
<1>2. CASE read_argument_verdict(A, capabilities_for_tools(tools), loaded)
  <2>1. read_argument_verdict(B, capabilities_for_tools(tools), loaded)
    BY <1>2 DEF read_argument_verdict
  <2> QED BY <2>1 DEF Denied
<1> QED BY <1>1, <1>2 DEF Denied

(* A history nobody needs to sign for forbids nothing. *)
LEMMA NothingDeniesNothing ==
  ASSUME NEW tools, NEW loaded PROVE ~Denied(labels_for_tools({}), tools, loaded)
<1>1. labels_for_tools({}) = {}
  BY DEF labels_for_tools
<1> QED BY <1>1 DEF Denied, evaluate, read_argument_verdict

(* The floor: what carries secrets and is not denied sends nothing out. *)
LEMMA FloorSays ==
  ASSUME FirewallMode = "Enforce", FloorStands, NEW ls, "secrets" \in ls, NEW requested,
         ~evaluate(ls, requested)
  PROVE  requested \cap {"network_egress", "network_read"} = {}
<1>1. PICK r \in Rules : /\ r.name = "anti-exfiltration" /\ "secrets" \in r.when_any
                         /\ {"network_egress", "network_read"} \subseteq r.deny
  <2>1. CASE \E r \in OperatorRules : r.name = "anti-exfiltration"
    BY <2>1, Zenon DEF FloorStands, Rules, ensure_floors
  <2>2. CASE ~\E r \in OperatorRules : r.name = "anti-exfiltration"
    <3>1. anti_exfiltration_rule \in Rules
      BY <2>2, Zenon DEF Rules, ensure_floors
    <3> QED BY <3>1 DEF anti_exfiltration_rule
  <2> QED BY <2>1, <2>2
<1> QED BY <1>1 DEF evaluate, READ_TOOL_RULE

(* A signature more takes labels away; a call keeps what it had. *)
LEMMA SignedShrinks ==
  ASSUME NEW c, NEW sg, NEW sh, sg[c.run] \subseteq sh[c.run]
  PROVE  Unsigned(c, sh) \subseteq Unsigned(c, sg)
<1>1. {BlockTool[b] : b \in c.blocks \ sh[c.run]} \subseteq {BlockTool[b] : b \in c.blocks \ sg[c.run]}
  OBVIOUS
<1> QED BY <1>1, ToolLabelsGrow DEF Unsigned

LEMMA CallStill ==
  ASSUME NEW c, NEW ls, NEW sg, CallKeeps(c, ls, sg), NEW lt, NEW sh,
         sg[c.run] \subseteq sh[c.run],
         UNCLEARABLE \in ls[c.run] => UNCLEARABLE \in lt[c.run]
  PROVE  CallKeeps(c, lt, sh)
<1>1. Unsigned(c, sh) \subseteq Unsigned(c, sg)
  BY SignedShrinks
<1>2. LetOut(c) => ~Denied(Unsigned(c, sh), c.tools, c.loaded)
  BY <1>1, DeniedGrows DEF CallKeeps
<1> QED BY <1>1, <1>2 DEF CallKeeps

(* The calls stay a sequence when one is added and when one is changed. *)
LEMMA CallAdded ==
  ASSUME TaintDomains, NEW c, calls' = Append(calls, c)
  PROVE  /\ calls' \in Seq({calls'[n] : n \in DOMAIN calls'})
         /\ \A n \in DOMAIN calls' : calls'[n] = c \/ (n \in DOMAIN calls /\ calls'[n] = calls[n])
<1> DEFINE S == {calls[n] : n \in DOMAIN calls}
<1>1. calls \in Seq(S) /\ calls \in Seq(S \cup {c})
  BY DEF TaintDomains
<1>2. /\ calls' \in Seq(S \cup {c}) /\ Len(calls') = Len(calls) + 1
      /\ \A n \in 1 .. Len(calls) : calls'[n] = calls[n]
      /\ calls'[Len(calls) + 1] = c
  BY <1>1
<1>3. DOMAIN calls' = 1 .. Len(calls) + 1 /\ DOMAIN calls = 1 .. Len(calls) /\ Len(calls) \in Nat
  BY <1>1, <1>2
<1>4. calls' \in Seq({calls'[n] : n \in DOMAIN calls'})
  BY <1>2, <1>3
<1> QED BY <1>2, <1>3, <1>4

LEMMA CallChanged ==
  ASSUME TaintDomains, DOMAIN calls' = DOMAIN calls,
         calls' = [n \in DOMAIN calls |-> calls'[n]]
  PROVE  calls' \in Seq({calls'[n] : n \in DOMAIN calls'})
<1>1. DOMAIN calls = 1 .. Len(calls) /\ Len(calls) \in Nat
  BY DEF TaintDomains
<1> QED BY <1>1

(* A step that leaves the store's taint, the reviews and the calls but one *)
(* as they were, or only adds labels, keeps the rest.                      *)
LEMMA OthersKeep ==
  ASSUME TaintInv, DOMAIN labels' = TaintRuns, DOMAIN signed' = TaintRuns,
         \A r \in TaintRuns : /\ signed[r] \subseteq signed'[r]
                              /\ UNCLEARABLE \in labels[r] => UNCLEARABLE \in labels'[r],
         NEW n \in DOMAIN calls, calls'[n] = calls[n]
  PROVE  CallKeeps(calls'[n], labels', signed')
<1>1. CallKeeps(calls[n], labels, signed) /\ calls[n].run \in TaintRuns
  BY DEF TaintInv, CallKeeps
<1> QED BY <1>1, CallStill

(* A clean call's fields. *)
LEMMA CleanIs ==
  ASSUME NEW run
  PROVE  /\ DOMAIN Clean(run) = TaintFields
         /\ Clean(run).run = run /\ Clean(run).blocks = {} /\ Clean(run).stage = "answered"
         /\ ~Clean(run).secrets /\ ~Clean(run).forwarded
BY DEF Clean, TaintFields

LEMMA TaintStarts == TaintInit => TaintInv
<1> SUFFICES ASSUME TaintInit PROVE TaintInv
  OBVIOUS
<1>1. calls = <<>> /\ DOMAIN calls = {}
  BY DEF TaintInit
<1>2. calls \in Seq({calls[n] : n \in DOMAIN calls})
  BY <1>1
<1>3. TaintDomains
  BY <1>2 DEF TaintInit, TaintDomains
<1>4. \A r \in TaintRuns : reviewed[r] = {} /\ signed[r] = {}
  BY DEF TaintInit
<1> QED BY <1>1, <1>3, <1>4 DEF TaintInv, ReviewIsTracked

LEMMA HandleKeeps ==
  ASSUME TaintInv, NEW q \in Requests, handle(q.run, q.parent, q.blocks)
  PROVE  TaintInv'
<1> DEFINE c == [Clean(q.run) EXCEPT !.parent = q.parent, !.blocks = q.blocks, !.stage = "noted",
                   !.owed = labels[q.run] \cup
                     UNION {labels[a] : a \in Ancestors(IF q.parent \in {NoRun, q.run} THEN parents
                                     ELSE [parents EXCEPT ![q.run] = q.parent], q.run)},
                   !.secrets = UNCLEARABLE \in labels[q.run]]
<1>1. /\ calls' = Append(calls, c) /\ note_blocks(q.run, q.blocks)
      /\ labels' = labels /\ signed' = signed
  BY DEF handle
<1>2. q.run \in TaintRuns
  BY TaintAssumption
<1>3. CallKeeps(c, labels, signed)
  <2>1. /\ DOMAIN c = TaintFields /\ c.run = q.run /\ c.stage = "noted"
        /\ c.secrets = (UNCLEARABLE \in labels[q.run])
    BY DEF Clean, TaintFields
  <2> HIDE DEF c
  <2> QED BY <1>2, <2>1 DEF CallKeeps, LetOut
<1> HIDE DEF c
<1>4. /\ calls' \in Seq({calls'[n] : n \in DOMAIN calls'})
      /\ \A n \in DOMAIN calls' : calls'[n] = c \/ (n \in DOMAIN calls /\ calls'[n] = calls[n])
  BY <1>1, CallAdded DEF TaintInv
<1>5. ASSUME NEW n \in DOMAIN calls' PROVE CallKeeps(calls'[n], labels', signed')
  BY <1>1, <1>3, <1>4 DEF TaintInv
<1>6. TaintDomains'
  BY <1>1, <1>4 DEF TaintInv, TaintDomains, note_blocks
<1>7. ReviewIsTracked'
  BY <1>1, <1>2 DEF TaintInv, TaintDomains, note_blocks, ReviewIsTracked
<1>8. \A r \in TaintRuns : reviewed'[r] \subseteq signed'[r]
  BY <1>1, <1>2 DEF TaintInv, TaintDomains, note_blocks
<1> QED BY <1>5, <1>6, <1>7, <1>8 DEF TaintInv

LEMMA SplitKeeps ==
  ASSUME TaintInv, NEW n \in DOMAIN calls, split_history(n)
  PROVE  TaintInv'
<1> DEFINE c == calls[n]
           got == labels_for_tools({BlockTool[b] : b \in Unreviewed(c.run, c.blocks)})
<1>1. /\ c.stage = "noted" /\ CallKeeps(c, labels, signed)
      /\ calls' = [calls EXCEPT ![n].stage = "split",
                                ![n].found = got \cup inherited(parents', c.run)]
      /\ labels' = labels /\ signed' = signed /\ order' = order /\ reviewed' = reviewed
  BY DEF split_history, TaintInv
<1>2. c.run \in TaintRuns /\ reviewed[c.run] \subseteq signed[c.run] /\ DOMAIN c = TaintFields
  BY <1>1 DEF CallKeeps, TaintInv
<1>3. Unsigned(c, signed) \subseteq got
  <2>1. {BlockTool[b] : b \in c.blocks \ signed[c.run]}
          \subseteq {BlockTool[b] : b \in Unreviewed(c.run, c.blocks)}
    BY <1>2 DEF Unreviewed
  <2> QED BY <2>1, ToolLabelsGrow DEF Unsigned
<1>4. /\ DOMAIN calls' = DOMAIN calls /\ calls' = [m \in DOMAIN calls |-> calls'[m]]
      /\ \A m \in DOMAIN calls : m # n => calls'[m] = calls[m]
      /\ calls'[n] = [c EXCEPT !.stage = "split", !.found = got \cup inherited(parents', c.run)]
  BY <1>1
<1> HIDE DEF got
<1>5. /\ DOMAIN calls'[n] = TaintFields /\ calls'[n].stage = "split" /\ calls'[n].run = c.run
      /\ calls'[n].blocks = c.blocks /\ calls'[n].secrets = c.secrets
      /\ got \subseteq calls'[n].found
  BY <1>2, <1>4 DEF TaintFields
<1>6. CallKeeps(calls'[n], labels', signed')
  <2>1. Unsigned(calls'[n], signed) \subseteq calls'[n].found
    BY <1>3, <1>5 DEF Unsigned
  <2> QED BY <1>1, <1>2, <1>5, <2>1 DEF CallKeeps, LetOut
<1>7. \A m \in DOMAIN calls' : CallKeeps(calls'[m], labels', signed')
  BY <1>1, <1>4, <1>6 DEF TaintInv
<1>8. TaintDomains'
  BY <1>1, <1>4, CallChanged DEF TaintInv, TaintDomains
<1> QED BY <1>1, <1>7, <1>8 DEF TaintInv, ReviewIsTracked

LEMMA AccumulateKeeps ==
  ASSUME TaintInv, NEW n \in DOMAIN calls, accumulate(n)
  PROVE  TaintInv'
<1> DEFINE c == calls[n]
<1>1. /\ c.stage = "split" /\ CallKeeps(c, labels, signed)
      /\ labels' = [labels EXCEPT ![c.run] = @ \cup c.found]
      /\ calls' = [calls EXCEPT ![n].stage = "sent", ![n].carrying = labels'[c.run]]
      /\ signed' = signed /\ order' = order /\ reviewed' = reviewed
  BY DEF accumulate, TaintInv
<1>2. c.run \in TaintRuns /\ DOMAIN c = TaintFields /\ DOMAIN labels = TaintRuns
  BY <1>1 DEF CallKeeps, TaintInv, TaintDomains
<1>3. /\ DOMAIN labels' = TaintRuns
      /\ labels'[c.run] = labels[c.run] \cup c.found
      /\ \A r \in TaintRuns : labels[r] \subseteq labels'[r]
  BY <1>1, <1>2
<1>4. /\ DOMAIN calls' = DOMAIN calls /\ calls' = [m \in DOMAIN calls |-> calls'[m]]
      /\ \A m \in DOMAIN calls : m # n => calls'[m] = calls[m]
      /\ calls'[n] = [c EXCEPT !.stage = "sent", !.carrying = labels'[c.run]]
  <2> DEFINE now == labels'[c.run]
  <2>1. calls' = [calls EXCEPT ![n].stage = "sent", ![n].carrying = now]
    BY <1>1
  <2> HIDE DEF now
  <2>2. /\ DOMAIN calls' = DOMAIN calls /\ calls' = [m \in DOMAIN calls |-> calls'[m]]
        /\ \A m \in DOMAIN calls : m # n => calls'[m] = calls[m]
        /\ calls'[n] = [c EXCEPT !.stage = "sent", !.carrying = now]
    BY <2>1
  <2> QED BY <2>2 DEF now
<1>5. /\ DOMAIN calls'[n] = TaintFields /\ calls'[n].stage = "sent" /\ calls'[n].run = c.run
      /\ calls'[n].blocks = c.blocks /\ calls'[n].secrets = c.secrets
      /\ calls'[n].carrying = labels'[c.run]
  BY <1>2, <1>4 DEF TaintFields
<1>6. CallKeeps(calls'[n], labels', signed')
  <2>1. Unsigned(calls'[n], signed) \subseteq calls'[n].carrying
    <3>1. Unsigned(calls'[n], signed) = Unsigned(c, signed)
      BY <1>5 DEF Unsigned
    <3> QED BY <1>1, <1>3, <1>5, <3>1 DEF CallKeeps
  <2> QED BY <1>1, <1>2, <1>3, <1>5, <2>1 DEF CallKeeps, LetOut
<1>7. ASSUME NEW m \in DOMAIN calls, m # n PROVE CallKeeps(calls'[m], labels', signed')
  BY <1>1, <1>3, <1>4, <1>7, OthersKeep DEF TaintInv, TaintDomains
<1>8. TaintDomains'
  BY <1>1, <1>3, <1>4, CallChanged DEF TaintInv, TaintDomains
<1> QED BY <1>1, <1>4, <1>6, <1>7, <1>8 DEF TaintInv, ReviewIsTracked

LEMMA JudgeKeeps ==
  ASSUME FirewallMode = "Enforce", FloorStands, TaintInv,
         NEW n \in DOMAIN calls, NEW a \in Answers, judge_model_tool_calls(n, a)
  PROVE  TaintInv'
<1> DEFINE c == calls[n]
           ran == labels_for_tools(a.provider)
           ls == c.carrying \cup IF a.provider = {} THEN {} ELSE labels[c.run] \cup ran
           withheld == Denied(ls, a.tools, a.loaded)
<1>1. /\ c.stage = "sent" /\ CallKeeps(c, labels, signed)
      /\ labels' = [labels EXCEPT ![c.run] =
                      @ \cup ran \cup IF withheld THEN {} ELSE labels_for_tools(a.tools)]
      /\ calls' = [calls EXCEPT ![n] = [@ EXCEPT !.stage = "answered", !.tools = a.tools,
                     !.loaded = a.loaded, !.forwarded = ~withheld]]
      /\ signed' = signed /\ order' = order /\ reviewed' = reviewed
  BY DEF judge_model_tool_calls, TaintInv
<1>2. c.run \in TaintRuns /\ DOMAIN c = TaintFields /\ DOMAIN labels = TaintRuns
  BY <1>1 DEF CallKeeps, TaintInv, TaintDomains
<1>a. c.carrying \subseteq ls
  OBVIOUS
<1> HIDE DEF ran
<1>b. DOMAIN labels' = TaintRuns /\ \A r \in TaintRuns : labels[r] \subseteq labels'[r]
  <2> HIDE DEF withheld
  <2> QED BY <1>1, <1>2
<1>4. /\ DOMAIN calls' = DOMAIN calls /\ calls' = [m \in DOMAIN calls |-> calls'[m]]
      /\ \A m \in DOMAIN calls : m # n => calls'[m] = calls[m]
      /\ calls'[n] = [c EXCEPT !.stage = "answered", !.tools = a.tools,
                                !.loaded = a.loaded, !.forwarded = ~withheld]
  <2> HIDE DEF withheld
  <2> QED BY <1>1
<1>5. /\ DOMAIN calls'[n] = TaintFields /\ calls'[n].stage = "answered" /\ calls'[n].run = c.run
      /\ calls'[n].blocks = c.blocks /\ calls'[n].secrets = c.secrets
      /\ calls'[n].tools = a.tools /\ calls'[n].loaded = a.loaded
      /\ calls'[n].forwarded = ~withheld
  <2> HIDE DEF withheld
  <2> QED BY <1>2, <1>4 DEF TaintFields
<1> HIDE DEF ls
<1>6. CallKeeps(calls'[n], labels', signed')
  <2>1. Unsigned(calls'[n], signed) \subseteq ls
    <3>1. Unsigned(calls'[n], signed) = Unsigned(c, signed)
      BY <1>5 DEF Unsigned
    <3> QED BY <1>1, <1>a, <3>1 DEF CallKeeps
  <2>2. ~withheld => ~Denied(Unsigned(calls'[n], signed), a.tools, a.loaded)
    BY <2>1, DeniedGrows
  <2>3. ASSUME ~withheld, c.secrets PROVE ~SendsOut(calls'[n])
    <3>1. "secrets" \in ls
      BY <1>1, <1>a, <2>3 DEF CallKeeps, UNCLEARABLE
    <3>2. ~evaluate(ls, capabilities_for_tools(a.tools))
      BY <2>3 DEF Denied
    <3>3. capabilities_for_tools(a.tools) \cap {"network_egress", "network_read"} = {}
      BY <3>1, <3>2, FloorSays
    <3> QED BY <1>5, <3>3 DEF SendsOut
  <2> HIDE DEF withheld
  <2> QED BY <1>1, <1>2, <1>5, <2>2, <2>3 DEF CallKeeps, LetOut
<1>7. ASSUME NEW m \in DOMAIN calls, m # n PROVE CallKeeps(calls'[m], labels', signed')
  BY <1>1, <1>b, <1>4, <1>7, OthersKeep DEF TaintInv, TaintDomains
<1>8. TaintDomains'
  BY <1>1, <1>b, <1>4, CallChanged DEF TaintInv, TaintDomains
<1> QED BY <1>1, <1>4, <1>6, <1>7, <1>8 DEF TaintInv, ReviewIsTracked

LEMMA CheckKeeps ==
  ASSUME FirewallMode = "Enforce", FloorStands, TaintInv,
         NEW run \in TaintRuns, NEW a \in Answers, check_tool_call(run, a)
  PROVE  TaintInv'
<1> DEFINE ls == labels[run] \cup inherited(parents, run)
           withheld == evaluate(ls, capabilities_for_tools(a.tools))
           owing == labels[run] \cup UNION {labels[x] : x \in Ancestors(parents, run)}
           c == [Clean(run) EXCEPT !.tools = a.tools, !.owed = owing,
                   !.secrets = UNCLEARABLE \in labels[run], !.forwarded = ~withheld]
<1>1. /\ calls' = Append(calls, c) /\ labels' = labels /\ signed' = signed
      /\ order' = order /\ reviewed' = reviewed
  BY DEF check_tool_call
<1>2. CallKeeps(c, labels, signed)
  <2>a. labels[run] \subseteq ls
    OBVIOUS
  <2> HIDE DEF ls, owing
  <2>1. /\ DOMAIN c = TaintFields /\ c.run = run /\ c.stage = "answered" /\ c.blocks = {}
        /\ c.tools = a.tools /\ c.secrets = (UNCLEARABLE \in labels[run])
        /\ c.forwarded = ~withheld
    <3> HIDE DEF withheld
    <3> QED BY DEF Clean, TaintFields
  <2>2. ~Denied(Unsigned(c, signed), c.tools, c.loaded)
    <3>1. Unsigned(c, signed) = labels_for_tools({})
      BY <2>1 DEF Unsigned
    <3> QED BY <3>1, NothingDeniesNothing
  <2>3. ~withheld /\ UNCLEARABLE \in labels[run] => ~SendsOut(c)
    <3> SUFFICES ASSUME ~withheld, UNCLEARABLE \in labels[run] PROVE ~SendsOut(c)
      OBVIOUS
    <3>1. capabilities_for_tools(a.tools) \cap {"network_egress", "network_read"} = {}
      BY <2>a, FloorSays DEF UNCLEARABLE
    <3> QED BY <2>1, <3>1 DEF SendsOut
  <2> HIDE DEF c, withheld
  <2> QED BY <2>1, <2>2, <2>3 DEF CallKeeps, LetOut
<1> HIDE DEF c
<1>4. /\ calls' \in Seq({calls'[n] : n \in DOMAIN calls'})
      /\ \A n \in DOMAIN calls' : calls'[n] = c \/ (n \in DOMAIN calls /\ calls'[n] = calls[n])
  BY <1>1, CallAdded DEF TaintInv
<1>5. ASSUME NEW n \in DOMAIN calls' PROVE CallKeeps(calls'[n], labels', signed')
  BY <1>1, <1>2, <1>4 DEF TaintInv
<1>6. TaintDomains'
  BY <1>1, <1>4 DEF TaintInv, TaintDomains
<1> QED BY <1>1, <1>5, <1>6 DEF TaintInv, ReviewIsTracked

LEMMA ActKeeps ==
  ASSUME TaintInv, NEW act, observed_act(act.run, act.labels)
  PROVE  TaintInv'
<1>1. /\ labels' = [labels EXCEPT ![act.run] = @ \cup act.labels]
      /\ calls' = calls /\ signed' = signed /\ order' = order /\ reviewed' = reviewed
  BY DEF observed_act
<1>2. DOMAIN labels' = TaintRuns /\ \A r \in TaintRuns : labels[r] \subseteq labels'[r]
  BY <1>1 DEF TaintInv, TaintDomains
<1>3. \A n \in DOMAIN calls : CallKeeps(calls'[n], labels', signed')
  BY <1>1, <1>2, OthersKeep DEF TaintInv, TaintDomains
<1>4. TaintDomains'
  BY <1>1, <1>2 DEF TaintInv, TaintDomains
<1>5. ReviewIsTracked' /\ \A r \in TaintRuns : reviewed'[r] \subseteq signed'[r]
  BY <1>1 DEF TaintInv, ReviewIsTracked
<1> QED BY <1>1, <1>3, <1>4, <1>5 DEF TaintInv

LEMMA DeclassifyKeeps ==
  ASSUME TaintInv, NEW c \in Clearances, declassify(c.run, c.ids, c.labels)
  PROVE  TaintInv'
<1>1. /\ reviewed' = [reviewed EXCEPT ![c.run] = mark_reviewed(c.run, c.ids)]
      /\ signed' = [signed EXCEPT ![c.run] = @ \cup (reviewed'[c.run] \cap Range(order[c.run]))]
      /\ labels' = labels /\ order' = order /\ calls' = calls
  BY DEF declassify
<1>2. /\ c.run \in TaintRuns /\ DOMAIN reviewed = TaintRuns /\ DOMAIN signed = TaintRuns
      /\ reviewed[c.run] \subseteq Range(order[c.run])
  BY TaintAssumption DEF TaintInv, TaintDomains, ReviewIsTracked
<1>3. mark_reviewed(c.run, c.ids) \subseteq Range(order[c.run])
  BY <1>2 DEF mark_reviewed
<1>4. /\ DOMAIN signed' = TaintRuns /\ DOMAIN reviewed' = TaintRuns
      /\ reviewed'[c.run] = mark_reviewed(c.run, c.ids)
      /\ reviewed'[c.run] \subseteq signed'[c.run]
      /\ \A r \in TaintRuns : signed[r] \subseteq signed'[r]
      /\ \A r \in TaintRuns : r # c.run => reviewed'[r] = reviewed[r]
  BY <1>1, <1>2, <1>3
<1>5. \A n \in DOMAIN calls : CallKeeps(calls'[n], labels', signed')
  BY <1>1, <1>4, OthersKeep DEF TaintInv, TaintDomains
<1>6. ReviewIsTracked'
  BY <1>1, <1>3, <1>4 DEF TaintInv, ReviewIsTracked
<1>7. \A r \in TaintRuns : reviewed'[r] \subseteq signed'[r]
  BY <1>4 DEF TaintInv
<1>8. TaintDomains'
  BY <1>1, <1>4 DEF TaintInv, TaintDomains
<1> QED BY <1>1, <1>5, <1>6, <1>7, <1>8 DEF TaintInv

LEMMA ClearKeeps == ASSUME TaintInv, clear PROVE TaintInv'
<1> DEFINE gone == review.labels \ {UNCLEARABLE}
<1>1. /\ labels' = [labels EXCEPT ![review.run] = @ \ gone]
      /\ calls' = [n \in DOMAIN calls |-> [calls[n] EXCEPT !.owed = @ \ gone]]
      /\ order' = order /\ reviewed' = reviewed /\ signed' = signed
  BY DEF clear
<1>2. /\ DOMAIN labels' = TaintRuns /\ DOMAIN calls' = DOMAIN calls
      /\ \A r \in TaintRuns : UNCLEARABLE \in labels[r] => UNCLEARABLE \in labels'[r]
  BY <1>1 DEF TaintInv, TaintDomains
<1>3. ASSUME NEW n \in DOMAIN calls PROVE CallKeeps(calls'[n], labels', signed')
  <2>1. CallKeeps(calls[n], labels, signed) /\ DOMAIN calls[n] = TaintFields
        /\ calls[n].run \in TaintRuns
    BY DEF TaintInv, CallKeeps
  <2>2. CallKeeps(calls[n], labels', signed')
    BY <1>1, <1>2, <2>1, CallStill
  <2>3. calls'[n] = [calls[n] EXCEPT !.owed = @ \ gone]
    BY <1>1
  <2> HIDE DEF gone
  <2>4. /\ DOMAIN calls'[n] = TaintFields /\ calls'[n].run = calls[n].run
        /\ calls'[n].stage = calls[n].stage /\ calls'[n].blocks = calls[n].blocks
        /\ calls'[n].found = calls[n].found /\ calls'[n].carrying = calls[n].carrying
        /\ calls'[n].secrets = calls[n].secrets /\ calls'[n].tools = calls[n].tools
        /\ calls'[n].loaded = calls[n].loaded /\ calls'[n].forwarded = calls[n].forwarded
    BY <2>1, <2>3 DEF TaintFields
  <2>5. /\ Unsigned(calls'[n], signed') = Unsigned(calls[n], signed')
        /\ LetOut(calls'[n]) = LetOut(calls[n]) /\ SendsOut(calls'[n]) = SendsOut(calls[n])
    BY <2>4 DEF Unsigned, LetOut, SendsOut
  <2> QED BY <2>2, <2>4, <2>5 DEF CallKeeps
<1>4. TaintDomains'
  BY <1>1, <1>2, CallChanged DEF TaintInv, TaintDomains
<1> QED BY <1>1, <1>2, <1>3, <1>4 DEF TaintInv, ReviewIsTracked

LEMMA TaintStep ==
  ASSUME FirewallMode = "Enforce", FloorStands, TaintInv, [TaintNext]_taintvars
  PROVE  TaintInv'
<1>1. CASE \E q \in Requests : handle(q.run, q.parent, q.blocks)
  BY <1>1, HandleKeeps
<1>2. CASE \E n \in DOMAIN calls : split_history(n) \/ accumulate(n)
  BY <1>2, SplitKeeps, AccumulateKeeps
<1>3. CASE \E n \in DOMAIN calls, a \in Answers : judge_model_tool_calls(n, a)
  BY <1>3, JudgeKeeps
<1>4. CASE \E r \in TaintRuns, a \in Answers : check_tool_call(r, a)
  BY <1>4, CheckKeeps
<1>5. CASE \E act \in Acts : observed_act(act.run, act.labels)
  BY <1>5, ActKeeps
<1>6. CASE \E c \in Clearances : declassify(c.run, c.ids, c.labels)
  BY <1>6, DeclassifyKeeps
<1>7. CASE clear
  BY <1>7, ClearKeeps
<1>8. CASE UNCHANGED taintvars
  <2>1. /\ labels' = labels /\ order' = order /\ reviewed' = reviewed
        /\ calls' = calls /\ signed' = signed
    BY <1>8 DEF taintvars
  <2> QED BY <2>1 DEF TaintInv, TaintDomains, ReviewIsTracked
<1> QED BY <1>1, <1>2, <1>3, <1>4, <1>5, <1>6, <1>7, <1>8 DEF TaintNext

(* A set of naturals has a least element: what stands for induction here. *)
LEMMA LeastNat ==
  ASSUME NEW S, S \subseteq Nat, S # {} PROVE \E m \in S : \A n \in S : m =< n
<1> DEFINE R == OpToRel(<, Nat)
<1>1. IsWellFoundedOn(R, Nat)
  BY NatLessThanWellFounded, Zenon
<1>2. \A x, y \in Nat : x < y => <<x, y>> \in R
  BY Zenon DEF OpToRel
<1> HIDE DEF R
<1>3. PICK m \in S : \A n \in S : ~(<<n, m>> \in R)
  BY <1>1, WFMin, Zenon
<1>4. m \in Nat /\ \A n \in S : n \in Nat /\ ~(n < m)
  BY <1>2, <1>3
<1> QED BY <1>3, <1>4


(* Ancestry: the premise is that no run is declared under two parents and  *)
(* that the tree of declared parents is no deeper than the walk.           *)
OneTree(rank) ==
  /\ rank \in [TaintRuns -> 0 .. MAX_DEPTH]
  /\ \A q \in Requests : q.parent \notin {NoRun, q.run} =>
       q.parent \in TaintRuns /\ rank[q.parent] < rank[q.run]
  /\ \A p, q \in Requests :
       /\ p.run = q.run
       /\ p.parent \notin {NoRun, p.run} /\ q.parent \notin {NoRun, q.run}
       => p.parent = q.parent

With(ps, r, p) == IF p \in {NoRun, r} THEN ps ELSE [ps EXCEPT ![r] = p]

DeclaredBy(r, p) == \E q \in Requests : q.run = r /\ q.parent = p

ParentsAreDeclared(ps) ==
  /\ DOMAIN ps = TaintRuns
  /\ \A r \in TaintRuns :
       ps[r] # NoRun => ps[r] \in TaintRuns \ {r} /\ DeclaredBy(r, ps[r])

Reached(ls, ps, r) == ls[r] \cup UNION {ls[a] : a \in Ancestors(ps, r)}

(* What a call is owed is on its way to the judgment at each stage. *)
OwedKeeps(c, ls, ps) ==
  /\ c.stage = "noted" =>
       /\ DeclaredBy(c.run, c.parent)
       /\ c.owed \subseteq Reached(ls, With(ps, c.run, c.parent), c.run)
  /\ c.stage = "split" => c.owed \subseteq ls[c.run] \cup c.found
  /\ c.stage = "sent" => c.owed \subseteq c.carrying
  /\ LetOut(c) => ~evaluate(c.owed, capabilities_for_tools(c.tools))

OwedInv ==
  /\ ParentsAreDeclared(parents)
  /\ \A n \in DOMAIN calls : OwedKeeps(calls[n], labels, parents)

(* A declared parent is another run, and stays what it is. *)
LEMMA WithIs ==
  ASSUME NEW rank, OneTree(rank), NEW ps, ParentsAreDeclared(ps), NEW r \in TaintRuns,
         NEW p, DeclaredBy(r, p)
  PROVE  /\ ParentsAreDeclared(With(ps, r, p))
         /\ \A x \in TaintRuns : ps[x] = NoRun \/ With(ps, r, p)[x] = ps[x]
<1>1. CASE p \in {NoRun, r}
  BY <1>1 DEF With
<1>2. CASE p \notin {NoRun, r}
  <2>1. With(ps, r, p) = [ps EXCEPT ![r] = p] /\ DOMAIN ps = TaintRuns
    BY <1>2 DEF With, ParentsAreDeclared
  <2>2. p \in TaintRuns \ {r}
    BY <1>2 DEF OneTree, DeclaredBy
  <2>3. ps[r] = NoRun \/ ps[r] = p
    BY <1>2 DEF OneTree, DeclaredBy, ParentsAreDeclared
  <2>4. /\ DOMAIN With(ps, r, p) = TaintRuns /\ With(ps, r, p)[r] = p
        /\ \A x \in TaintRuns : x # r => With(ps, r, p)[x] = ps[x]
    BY <2>1
  <2> QED BY <2>2, <2>3, <2>4 DEF ParentsAreDeclared
<1> QED BY <1>1, <1>2

LEMMA WithGrows ==
  ASSUME NEW ps, NEW pt, DOMAIN ps = TaintRuns, DOMAIN pt = TaintRuns,
         \A x \in TaintRuns : ps[x] = NoRun \/ pt[x] = ps[x],
         NEW r \in TaintRuns, NEW p
  PROVE  \A x \in TaintRuns : With(ps, r, p)[x] = NoRun \/ With(pt, r, p)[x] = With(ps, r, p)[x]
BY DEF With

(* More parents, more ancestors. *)
LEMMA AncestorsGrow ==
  ASSUME NEW ps, NEW pt, \A x \in TaintRuns : ps[x] = NoRun \/ pt[x] = ps[x],
         NEW r \in TaintRuns
  PROVE  Ancestors(ps, r) \subseteq Ancestors(pt, r)
<1> SUFFICES ASSUME NEW a \in Ancestors(ps, r), NEW up \in SUBSET TaintRuns,
                    \A x \in up \cup {r} : pt[x] = NoRun \/ pt[x] \in up
             PROVE  a \in up
  BY DEF Ancestors
<1>1. \A x \in up \cup {r} : ps[x] = NoRun \/ ps[x] \in up
  OBVIOUS
<1> QED BY <1>1 DEF Ancestors

(* The walk of inherited, as far as it is asked for. *)
IsWalk(g, n, ps, r) ==
  /\ g = [k \in 0 .. n |-> g[k]]
  /\ g[0] = r
  /\ \A k \in 1 .. n : g[k] = IF g[k - 1] = NoRun THEN NoRun ELSE ps[g[k - 1]]

LEMMA WalkExists ==
  ASSUME NEW ps, NEW r, NEW d \in Nat PROVE \E g : IsWalk(g, d, ps, r)
<1> DEFINE T == {n \in Nat : ~\E g : IsWalk(g, n, ps, r)}
<1> SUFFICES ASSUME T # {} PROVE FALSE
  OBVIOUS
<1>1. PICK m \in T : \A n \in T : m =< n
  BY LeastNat
<1>2. CASE m = 0
  <2>1. IsWalk([k \in 0 .. 0 |-> r], 0, ps, r)
    BY DEF IsWalk
  <2> QED BY <1>2, <2>1
<1>3. CASE m # 0
  <2>1. m - 1 \in Nat /\ m - 1 \notin T
    BY <1>1, <1>3
  <2>2. PICK g : IsWalk(g, m - 1, ps, r)
    BY <2>1
  <2> DEFINE next == IF g[m - 1] = NoRun THEN NoRun ELSE ps[g[m - 1]]
             h == [k \in 0 .. m |-> IF k = m THEN next ELSE g[k]]
  <2> HIDE DEF next
  <2>3. h[0] = r
    BY <1>3, <2>2 DEF IsWalk
  <2>4. ASSUME NEW k \in 1 .. m PROVE h[k] = IF h[k - 1] = NoRun THEN NoRun ELSE ps[h[k - 1]]
    <3>1. k - 1 \in 0 .. m /\ k - 1 # m /\ h[k - 1] = g[k - 1]
      OBVIOUS
    <3>2. CASE k = m
      BY <3>1, <3>2 DEF next
    <3>3. CASE k # m
      <4>1. k \in 1 .. m - 1 /\ h[k] = g[k]
        BY <3>3
      <4> QED BY <2>2, <3>1, <4>1 DEF IsWalk
    <3> QED BY <3>2, <3>3
  <2>5. h = [k \in 0 .. m |-> h[k]]
    OBVIOUS
  <2> HIDE DEF h
  <2>6. IsWalk(h, m, ps, r)
    BY <2>3, <2>4, <2>5 DEF IsWalk
  <2> QED BY <1>1, <2>6
<1> QED BY <1>2, <1>3

LEMMA InheritedIs ==
  ASSUME NEW ps, NEW r
  PROVE  \E g : /\ IsWalk(g, MAX_DEPTH, ps, r)
                /\ inherited(ps, r) = UNION {labels[a] : a \in {g[k] : k \in 1 .. MAX_DEPTH} \ {NoRun, r}}
<1> DEFINE up[k \in 0 .. MAX_DEPTH] ==
             IF k = 0 THEN r ELSE IF up[k - 1] = NoRun THEN NoRun ELSE ps[up[k - 1]]
           step(f) == [k \in 0 .. MAX_DEPTH |->
             IF k = 0 THEN r ELSE IF f[k - 1] = NoRun THEN NoRun ELSE ps[f[k - 1]]]
<1>1. MAX_DEPTH \in Nat
  BY TaintAssumption
<1>2. PICK g : IsWalk(g, MAX_DEPTH, ps, r)
  BY <1>1, WalkExists
<1>3. g = step(g)
  <2>1. \A k \in 0 .. MAX_DEPTH :
          g[k] = IF k = 0 THEN r ELSE IF g[k - 1] = NoRun THEN NoRun ELSE ps[g[k - 1]]
    <3> TAKE k \in 0 .. MAX_DEPTH
    <3>1. CASE k = 0
      BY <1>2, <3>1 DEF IsWalk
    <3>2. CASE k # 0
      <4>1. k \in 1 .. MAX_DEPTH
        BY <1>1, <3>2
      <4> QED BY <1>2, <3>2, <4>1 DEF IsWalk
    <3> QED BY <3>1, <3>2
  <2>2. g = [k \in 0 .. MAX_DEPTH |-> g[k]]
    BY <1>2 DEF IsWalk
  <2>3. [k \in 0 .. MAX_DEPTH |-> g[k]] = step(g)
    BY <2>1
  <2> QED BY <2>2, <2>3
<1>4. up = CHOOSE f : f = step(f)
  OBVIOUS
<1>5. up = step(up)
  <2> HIDE DEF up, step
  <2> QED BY <1>3, <1>4
<1>6. IsWalk(up, MAX_DEPTH, ps, r)
  <2> HIDE DEF up
  <2> QED BY <1>1, <1>5 DEF IsWalk
<1>7. inherited(ps, r) = UNION {labels[a] : a \in {up[k] : k \in 1 .. MAX_DEPTH} \ {NoRun, r}}
  BY DEF inherited
<1> QED BY <1>6, <1>7

(* The walk meets every ancestor: each parent ranks below its child, so    *)
(* MAX_DEPTH steps reach a root.                                           *)
LEMMA WalkCovers ==
  ASSUME NEW rank, OneTree(rank), NEW ps, ParentsAreDeclared(ps), NEW r \in TaintRuns
  PROVE  UNION {labels[a] : a \in Ancestors(ps, r)} \subseteq inherited(ps, r)
<1>1. PICK g : /\ IsWalk(g, MAX_DEPTH, ps, r)
               /\ inherited(ps, r) = UNION {labels[a] : a \in {g[k] : k \in 1 .. MAX_DEPTH} \ {NoRun, r}}
  BY InheritedIs
<1>2. MAX_DEPTH \in Nat /\ NoRun \notin TaintRuns
  BY TaintAssumption
<1>3. \A x \in TaintRuns : /\ rank[x] \in 0 .. MAX_DEPTH
                           /\ ps[x] # NoRun => ps[x] \in TaintRuns /\ rank[ps[x]] < rank[x]
  BY DEF OneTree, ParentsAreDeclared, DeclaredBy
<1> DEFINE Low(k) == g[k] = NoRun \/ (g[k] \in TaintRuns /\ rank[g[k]] =< MAX_DEPTH - k)
           T == {k \in Nat : k =< MAX_DEPTH /\ ~Low(k)}
<1>4. T = {}
  <2> SUFFICES ASSUME T # {} PROVE FALSE
    OBVIOUS
  <2>1. PICK m \in T : \A n \in T : m =< n
    BY LeastNat
  <2>2. m # 0
    BY <1>1, <1>2, <1>3, <2>1 DEF IsWalk
  <2>3. m - 1 \in Nat /\ m - 1 =< MAX_DEPTH /\ Low(m - 1) /\ m \in 1 .. MAX_DEPTH
    BY <1>2, <2>1, <2>2
  <2>4. g[m] = IF g[m - 1] = NoRun THEN NoRun ELSE ps[g[m - 1]]
    BY <1>1, <2>3 DEF IsWalk
  <2>5. Low(m)
    BY <1>2, <1>3, <2>3, <2>4
  <2> QED BY <2>1, <2>5
<1>5. \A k \in 0 .. MAX_DEPTH : Low(k)
  BY <1>4
<1> DEFINE U == {g[k] : k \in 0 .. MAX_DEPTH} \ {NoRun}
<1>6. U \in SUBSET TaintRuns
  BY <1>5
<1>7. ASSUME NEW x \in U \cup {r} PROVE ps[x] = NoRun \/ ps[x] \in U
  <2>1. PICK k \in 0 .. MAX_DEPTH : x = g[k] /\ x # NoRun
    BY <1>1, <1>2 DEF IsWalk
  <2>2. CASE k = MAX_DEPTH
    BY <1>2, <1>3, <1>5, <2>1, <2>2
  <2>3. CASE k # MAX_DEPTH
    <3>1. k + 1 \in 1 .. MAX_DEPTH /\ k + 1 \in 0 .. MAX_DEPTH /\ (k + 1) - 1 = k
      BY <1>2, <2>3
    <3>2. g[k + 1] = ps[x]
      BY <1>1, <2>1, <3>1 DEF IsWalk
    <3> QED BY <3>1, <3>2
  <2> QED BY <2>2, <2>3
<1>8. Ancestors(ps, r) \subseteq U \ {r}
  <2> HIDE DEF U
  <2> QED BY <1>6, <1>7 DEF Ancestors
<1>9. U \ {r} \subseteq {g[k] : k \in 1 .. MAX_DEPTH} \ {NoRun, r}
  <2> SUFFICES ASSUME NEW k \in 0 .. MAX_DEPTH, g[k] # NoRun, g[k] # r
               PROVE  g[k] \in {g[i] : i \in 1 .. MAX_DEPTH}
    OBVIOUS
  <2>1. k # 0
    BY <1>1 DEF IsWalk
  <2> QED BY <1>2, <2>1
<1> QED BY <1>1, <1>8, <1>9

(* A call is owed no less for parents and labels that only grow. *)
LEMMA OwedStill ==
  ASSUME NEW c, c.run \in TaintRuns, NEW ls, NEW ps, OwedKeeps(c, ls, ps),
         NEW lt, NEW pt, \A r \in TaintRuns : ls[r] \subseteq lt[r],
         ParentsAreDeclared(ps), ParentsAreDeclared(pt),
         \A x \in TaintRuns : ps[x] = NoRun \/ pt[x] = ps[x]
  PROVE  OwedKeeps(c, lt, pt)
<1> DEFINE was == With(ps, c.run, c.parent)
           now == With(pt, c.run, c.parent)
<1>1. Ancestors(was, c.run) \subseteq Ancestors(now, c.run)
  <2>1. \A x \in TaintRuns : was[x] = NoRun \/ now[x] = was[x]
    BY WithGrows DEF ParentsAreDeclared
  <2> HIDE DEF was, now
  <2> QED BY <2>1, AncestorsGrow
<1> HIDE DEF was, now
<1>2. Reached(ls, was, c.run) \subseteq Reached(lt, now, c.run)
  BY <1>1 DEF Reached, Ancestors
<1>3. c.stage = "noted" => /\ DeclaredBy(c.run, c.parent)
                           /\ c.owed \subseteq Reached(lt, now, c.run)
  BY <1>2 DEF OwedKeeps, was
<1>4. c.stage = "split" => c.owed \subseteq lt[c.run] \cup c.found
  BY DEF OwedKeeps
<1> QED BY <1>3, <1>4 DEF OwedKeeps, now

LEMMA OwedStarts == TaintInit => OwedInv
<1> SUFFICES ASSUME TaintInit PROVE OwedInv
  OBVIOUS
<1>1. DOMAIN calls = {} /\ parents = [r \in TaintRuns |-> NoRun]
  BY DEF TaintInit
<1> QED BY <1>1 DEF OwedInv, ParentsAreDeclared

(* A label more forbids more: what is not denied was not owed a denial. *)
LEMMA OwedIsJudged ==
  ASSUME NEW A, NEW B, A \subseteq B, NEW requested, ~evaluate(B, requested)
  PROVE  ~evaluate(A, requested)
BY DEF evaluate

LEMMA HandleOwes ==
  ASSUME TaintInv, OwedInv, NEW q \in Requests, handle(q.run, q.parent, q.blocks)
  PROVE  OwedInv'
<1> DEFINE ps == IF q.parent \in {NoRun, q.run} THEN parents
                 ELSE [parents EXCEPT ![q.run] = q.parent]
           owing == labels[q.run] \cup UNION {labels[a] : a \in Ancestors(ps, q.run)}
           c == [Clean(q.run) EXCEPT !.parent = q.parent, !.blocks = q.blocks, !.stage = "noted",
                   !.owed = owing, !.secrets = UNCLEARABLE \in labels[q.run]]
<1>1. calls' = Append(calls, c) /\ labels' = labels /\ parents' = parents
  BY DEF handle
<1>2. owing = Reached(labels, With(parents, q.run, q.parent), q.run)
  BY DEF Reached, With
<1> HIDE DEF owing
<1>3. c.run = q.run /\ c.parent = q.parent /\ c.stage = "noted" /\ c.owed = owing
  BY DEF Clean
<1> HIDE DEF c
<1>4. OwedKeeps(c, labels, parents)
  BY <1>2, <1>3 DEF OwedKeeps, DeclaredBy, LetOut
<1>5. \A n \in DOMAIN calls' : calls'[n] = c \/ (n \in DOMAIN calls /\ calls'[n] = calls[n])
  BY <1>1, CallAdded DEF TaintInv
<1>6. \A n \in DOMAIN calls' : OwedKeeps(calls'[n], labels', parents')
  BY <1>1, <1>4, <1>5 DEF OwedInv
<1> QED BY <1>1, <1>6 DEF OwedInv

LEMMA SplitOwes ==
  ASSUME NEW rank, OneTree(rank), TaintInv, OwedInv, NEW n \in DOMAIN calls, split_history(n)
  PROVE  OwedInv'
<1> DEFINE c == calls[n]
           got == labels_for_tools({BlockTool[b] : b \in Unreviewed(c.run, c.blocks)})
           above == inherited(parents', c.run)
<1>1. /\ c.stage = "noted" /\ CallKeeps(c, labels, signed) /\ OwedKeeps(c, labels, parents)
      /\ parents' = With(parents, c.run, c.parent) /\ labels' = labels
      /\ calls' = [calls EXCEPT ![n].stage = "split", ![n].found = got \cup above]
  BY DEF split_history, TaintInv, OwedInv, note_parent, With
<1>2. c.run \in TaintRuns /\ DOMAIN c = TaintFields /\ DeclaredBy(c.run, c.parent)
  BY <1>1 DEF CallKeeps, OwedKeeps
<1>3. /\ ParentsAreDeclared(parents) /\ ParentsAreDeclared(parents')
      /\ \A x \in TaintRuns : parents[x] = NoRun \/ parents'[x] = parents[x]
  BY <1>1, <1>2, WithIs DEF OwedInv
<1>4. UNION {labels[a] : a \in Ancestors(parents', c.run)} \subseteq above
  BY <1>2, <1>3, WalkCovers
<1> HIDE DEF got, above
<1>5. /\ DOMAIN calls' = DOMAIN calls
      /\ \A m \in DOMAIN calls : m # n => calls'[m] = calls[m]
      /\ calls'[n] = [c EXCEPT !.stage = "split", !.found = got \cup above]
  BY <1>1
<1>6. /\ calls'[n].stage = "split" /\ calls'[n].run = c.run /\ calls'[n].owed = c.owed
      /\ above \subseteq calls'[n].found
  BY <1>2, <1>5 DEF TaintFields
<1>7. OwedKeeps(calls'[n], labels', parents')
  <2>1. c.owed \subseteq labels[c.run] \cup above
    BY <1>1, <1>4 DEF OwedKeeps, Reached
  <2> QED BY <1>1, <1>6, <2>1 DEF OwedKeeps, LetOut
<1>8. ASSUME NEW m \in DOMAIN calls, m # n PROVE OwedKeeps(calls'[m], labels', parents')
  <2>1. OwedKeeps(calls[m], labels, parents) /\ calls[m].run \in TaintRuns
    BY DEF OwedInv, TaintInv, CallKeeps
  <2>2. OwedKeeps(calls[m], labels, parents')
    BY <1>3, <2>1, OwedStill
  <2> QED BY <1>1, <1>5, <1>8, <2>2
<1> QED BY <1>3, <1>5, <1>7, <1>8 DEF OwedInv

(* Labels only grow, no call but n changes: the others are owed no less. *)
LEMMA OthersOwe ==
  ASSUME TaintInv, OwedInv, parents' = parents, \A r \in TaintRuns : labels[r] \subseteq labels'[r],
         NEW m \in DOMAIN calls, calls'[m] = calls[m]
  PROVE  OwedKeeps(calls'[m], labels', parents')
<1>1. OwedKeeps(calls[m], labels, parents) /\ calls[m].run \in TaintRuns
  BY DEF OwedInv, TaintInv, CallKeeps
<1>2. OwedKeeps(calls[m], labels', parents)
  BY <1>1, OwedStill DEF OwedInv
<1> QED BY <1>2

LEMMA AccumulateOwes ==
  ASSUME TaintInv, OwedInv, NEW n \in DOMAIN calls, accumulate(n)
  PROVE  OwedInv'
<1> DEFINE c == calls[n]
           now == labels'[c.run]
<1>1. /\ c.stage = "split" /\ CallKeeps(c, labels, signed) /\ OwedKeeps(c, labels, parents)
      /\ labels' = [labels EXCEPT ![c.run] = @ \cup c.found]
      /\ calls' = [calls EXCEPT ![n].stage = "sent", ![n].carrying = now]
      /\ parents' = parents
  BY DEF accumulate, TaintInv, OwedInv
<1>2. c.run \in TaintRuns /\ DOMAIN c = TaintFields /\ DOMAIN labels = TaintRuns
  BY <1>1 DEF CallKeeps, TaintInv, TaintDomains
<1>3. now = labels[c.run] \cup c.found /\ \A r \in TaintRuns : labels[r] \subseteq labels'[r]
  BY <1>1, <1>2
<1> HIDE DEF now
<1>4. /\ DOMAIN calls' = DOMAIN calls
      /\ \A m \in DOMAIN calls : m # n => calls'[m] = calls[m]
      /\ calls'[n] = [c EXCEPT !.stage = "sent", !.carrying = now]
  BY <1>1
<1>5. calls'[n].stage = "sent" /\ calls'[n].owed = c.owed /\ calls'[n].carrying = now
  BY <1>2, <1>4 DEF TaintFields
<1>6. OwedKeeps(calls'[n], labels', parents')
  BY <1>1, <1>3, <1>5 DEF OwedKeeps, LetOut
<1>7. \A m \in DOMAIN calls : m # n => OwedKeeps(calls'[m], labels', parents')
  BY <1>1, <1>3, <1>4, OthersOwe
<1> QED BY <1>1, <1>4, <1>6, <1>7 DEF OwedInv

LEMMA JudgeOwes ==
  ASSUME FirewallMode = "Enforce", TaintInv, OwedInv,
         NEW n \in DOMAIN calls, NEW a \in Answers, judge_model_tool_calls(n, a)
  PROVE  OwedInv'
<1> DEFINE c == calls[n]
           ran == labels_for_tools(a.provider)
           ls == c.carrying \cup IF a.provider = {} THEN {} ELSE labels[c.run] \cup ran
           withheld == Denied(ls, a.tools, a.loaded)
           more == ran \cup IF withheld THEN {} ELSE labels_for_tools(a.tools)
<1>1. /\ c.stage = "sent" /\ CallKeeps(c, labels, signed) /\ OwedKeeps(c, labels, parents)
      /\ labels' = [labels EXCEPT ![c.run] = @ \cup more]
      /\ calls' = [calls EXCEPT ![n] = [@ EXCEPT !.stage = "answered", !.tools = a.tools,
                     !.loaded = a.loaded, !.forwarded = ~withheld]]
      /\ parents' = parents
  BY DEF judge_model_tool_calls, TaintInv, OwedInv
<1>2. c.run \in TaintRuns /\ DOMAIN c = TaintFields /\ DOMAIN labels = TaintRuns
  BY <1>1 DEF CallKeeps, TaintInv, TaintDomains
<1>3. c.owed \subseteq ls
  BY <1>1 DEF OwedKeeps
<1> HIDE DEF ran, ls, more
<1>4. \A r \in TaintRuns : labels[r] \subseteq labels'[r]
  BY <1>1, <1>2
<1>5. /\ DOMAIN calls' = DOMAIN calls
      /\ \A m \in DOMAIN calls : m # n => calls'[m] = calls[m]
      /\ calls'[n] = [c EXCEPT !.stage = "answered", !.tools = a.tools,
                                !.loaded = a.loaded, !.forwarded = ~withheld]
  <2> HIDE DEF withheld
  <2> QED BY <1>1
<1>6. /\ calls'[n].stage = "answered" /\ calls'[n].owed = c.owed
      /\ calls'[n].tools = a.tools /\ calls'[n].forwarded = ~withheld
  <2> HIDE DEF withheld
  <2> QED BY <1>2, <1>5 DEF TaintFields
<1>7. OwedKeeps(calls'[n], labels', parents')
  <2>1. ~withheld => ~evaluate(c.owed, capabilities_for_tools(a.tools))
    BY <1>3, OwedIsJudged DEF Denied
  <2> HIDE DEF withheld
  <2> QED BY <1>6, <2>1 DEF OwedKeeps, LetOut
<1>8. \A m \in DOMAIN calls : m # n => OwedKeeps(calls'[m], labels', parents')
  BY <1>1, <1>4, <1>5, OthersOwe
<1> QED BY <1>1, <1>5, <1>7, <1>8 DEF OwedInv

LEMMA CheckOwes ==
  ASSUME FirewallMode = "Enforce", NEW rank, OneTree(rank), TaintInv, OwedInv,
         NEW run \in TaintRuns, NEW a \in Answers, check_tool_call(run, a)
  PROVE  OwedInv'
<1> DEFINE above == inherited(parents, run)
           withheld == evaluate(labels[run] \cup above, capabilities_for_tools(a.tools))
           owing == labels[run] \cup UNION {labels[x] : x \in Ancestors(parents, run)}
           c == [Clean(run) EXCEPT !.tools = a.tools, !.owed = owing,
                   !.secrets = UNCLEARABLE \in labels[run], !.forwarded = ~withheld]
<1>1. calls' = Append(calls, c) /\ labels' = labels /\ parents' = parents
  BY DEF check_tool_call
<1>2. owing \subseteq labels[run] \cup above
  BY WalkCovers DEF OwedInv
<1>3. ~withheld => ~evaluate(owing, capabilities_for_tools(a.tools))
  <2> HIDE DEF owing, above
  <2> QED BY <1>2, OwedIsJudged
<1>4. /\ c.stage = "answered" /\ c.owed = owing /\ c.tools = a.tools
      /\ c.forwarded = ~withheld
  <2> HIDE DEF owing, withheld
  <2> QED BY DEF Clean
<1> HIDE DEF c, owing, withheld
<1>5. OwedKeeps(c, labels, parents)
  BY <1>3, <1>4 DEF OwedKeeps, LetOut
<1>6. \A n \in DOMAIN calls' : calls'[n] = c \/ (n \in DOMAIN calls /\ calls'[n] = calls[n])
  BY <1>1, CallAdded DEF TaintInv
<1>7. \A n \in DOMAIN calls' : OwedKeeps(calls'[n], labels', parents')
  BY <1>1, <1>5, <1>6 DEF OwedInv
<1> QED BY <1>1, <1>7 DEF OwedInv

LEMMA ActOwes ==
  ASSUME TaintInv, OwedInv, NEW act, observed_act(act.run, act.labels)
  PROVE  OwedInv'
<1>1. /\ labels' = [labels EXCEPT ![act.run] = @ \cup act.labels]
      /\ calls' = calls /\ parents' = parents
  BY DEF observed_act
<1>2. \A r \in TaintRuns : labels[r] \subseteq labels'[r]
  BY <1>1 DEF TaintInv, TaintDomains
<1>3. \A n \in DOMAIN calls : OwedKeeps(calls'[n], labels', parents')
  BY <1>1, <1>2, OthersOwe
<1> QED BY <1>1, <1>3 DEF OwedInv

(* What is cleared is owed no more, of this run or of another. *)
LEMMA ClearOwes == ASSUME TaintInv, OwedInv, clear PROVE OwedInv'
<1> DEFINE gone == review.labels \ {UNCLEARABLE}
<1>1. /\ labels' = [labels EXCEPT ![review.run] = @ \ gone]
      /\ calls' = [n \in DOMAIN calls |-> [calls[n] EXCEPT !.owed = @ \ gone]]
      /\ parents' = parents
  BY DEF clear
<1> HIDE DEF gone
<1>2. \A r \in TaintRuns : labels[r] \ gone \subseteq labels'[r]
  BY <1>1 DEF TaintInv, TaintDomains
<1>3. ASSUME NEW n \in DOMAIN calls PROVE OwedKeeps(calls'[n], labels', parents')
  <2>1. /\ OwedKeeps(calls[n], labels, parents) /\ DOMAIN calls[n] = TaintFields
        /\ calls[n].run \in TaintRuns
    BY DEF TaintInv, CallKeeps, OwedInv
  <2>2. calls'[n] = [calls[n] EXCEPT !.owed = @ \ gone]
    BY <1>1
  <2>3. /\ calls'[n].run = calls[n].run /\ calls'[n].parent = calls[n].parent
        /\ calls'[n].stage = calls[n].stage /\ calls'[n].found = calls[n].found
        /\ calls'[n].carrying = calls[n].carrying /\ calls'[n].tools = calls[n].tools
        /\ calls'[n].forwarded = calls[n].forwarded
        /\ calls'[n].owed = calls[n].owed \ gone
    BY <2>1, <2>2 DEF TaintFields
  <2> DEFINE ps == With(parents, calls[n].run, calls[n].parent)
  <2>4. Reached(labels, ps, calls[n].run) \ gone \subseteq Reached(labels', ps, calls[n].run)
    <3> HIDE DEF ps
    <3> QED BY <1>2, <2>1 DEF Reached, Ancestors
  <2>5. LetOut(calls'[n]) =>
          ~evaluate(calls'[n].owed, capabilities_for_tools(calls'[n].tools))
    <3>1. LetOut(calls[n]) => ~evaluate(calls[n].owed, capabilities_for_tools(calls[n].tools))
      BY <2>1 DEF OwedKeeps
    <3>2. LetOut(calls'[n]) = LetOut(calls[n])
      BY <2>3 DEF LetOut
    <3> QED BY <2>3, <3>1, <3>2, OwedIsJudged
  <2>6. calls[n].stage = "noted" =>
          /\ DeclaredBy(calls[n].run, calls[n].parent)
          /\ calls[n].owed \subseteq Reached(labels, ps, calls[n].run)
    BY <2>1 DEF OwedKeeps
  <2>7. calls[n].stage = "split" => calls[n].owed \subseteq labels[calls[n].run] \cup calls[n].found
    BY <2>1 DEF OwedKeeps
  <2>8. calls[n].stage = "sent" => calls[n].owed \subseteq calls[n].carrying
    BY <2>1 DEF OwedKeeps
  <2>9. calls'[n].stage = "noted" =>
          /\ DeclaredBy(calls'[n].run, calls'[n].parent)
          /\ calls'[n].owed \subseteq Reached(labels', With(parents', calls'[n].run, calls'[n].parent), calls'[n].run)
    BY <1>1, <2>3, <2>4, <2>6
  <2>10. calls'[n].stage = "split" => calls'[n].owed \subseteq labels'[calls'[n].run] \cup calls'[n].found
    BY <1>2, <2>1, <2>3, <2>7
  <2>11. calls'[n].stage = "sent" => calls'[n].owed \subseteq calls'[n].carrying
    BY <2>3, <2>8
  <2> QED BY <2>5, <2>9, <2>10, <2>11 DEF OwedKeeps
<1> QED BY <1>1, <1>3 DEF OwedInv

LEMMA OwedStep ==
  ASSUME FirewallMode = "Enforce", NEW rank, OneTree(rank), TaintInv, OwedInv,
         [TaintNext]_taintvars
  PROVE  OwedInv'
<1>1. CASE \E q \in Requests : handle(q.run, q.parent, q.blocks)
  BY <1>1, HandleOwes
<1>2. CASE \E n \in DOMAIN calls : split_history(n) \/ accumulate(n)
  BY <1>2, SplitOwes, AccumulateOwes
<1>3. CASE \E n \in DOMAIN calls, a \in Answers : judge_model_tool_calls(n, a)
  BY <1>3, JudgeOwes
<1>4. CASE \E r \in TaintRuns, a \in Answers : check_tool_call(r, a)
  BY <1>4, CheckOwes
<1>5. CASE \E act \in Acts : observed_act(act.run, act.labels)
  BY <1>5, ActOwes
<1>6. CASE \E c \in Clearances : declassify(c.run, c.ids, c.labels)
  BY <1>6 DEF declassify, OwedInv
<1>7. CASE clear
  BY <1>7, ClearOwes
<1>8. CASE UNCHANGED taintvars
  BY <1>8 DEF taintvars, OwedInv
<1> QED BY <1>1, <1>2, <1>3, <1>4, <1>5, <1>6, <1>7, <1>8 DEF TaintNext

(* For any runs, tools, sources, answers and clearances, any number of     *)
(* calls at once, and any tree of parents no deeper than the walk: no      *)
(* action goes out that the blocks nobody signed for forbid, or what the   *)
(* run and its ancestors carried when the call began and nobody cleared    *)
(* since; a run that had read secrets when its call began sends nothing    *)
(* out; and a review goes with its block.                                  *)
THEOREM TaintIsKept ==
  /\ FirewallMode = "Enforce" /\ FloorStands
  /\ \E rank : OneTree(rank)
  => (TaintSpec => []TaintHolds)
<1> SUFFICES ASSUME FirewallMode = "Enforce", FloorStands, NEW rank, OneTree(rank)
             PROVE  TaintSpec => []TaintHolds
  OBVIOUS
<1>1. TaintInv /\ OwedInv => TaintHolds
  BY DEF TaintInv, OwedInv, CallKeeps, OwedKeeps, TaintHolds, UnsignedNeverActs, AncestryCounts,
         SecretsNeverLeave, Unsigned, SendsOut
<1>2. TaintInv /\ OwedInv /\ [TaintNext]_taintvars => TaintInv' /\ OwedInv'
  BY TaintStep, OwedStep
<1> QED BY <1>1, <1>2, TaintStarts, OwedStarts, PTL DEF TaintSpec

-----------------------------------------------------------------------------
(* The retained-reservation journal (RetainedJournal), where a write that  *)
(* fails leaves no part of a line behind: what it may do apart from that   *)
(* is the code's own word (run journal_torn).                              *)

(* A record's line and the end of what is on stable storage. *)
IsLine(f, i, kind, k) == i \in DOMAIN f /\ f[i].kind = kind /\ f[i].call = k
IsKept(f, n, k) == \E i \in 1 .. n : IsLine(f, i, "retained", k)
ClosedBy(f, n, k) == \E i \in 1 .. n : IsLine(f, i, "closure", k)

(* Lines of the journal, and closures wherever they are. *)
JLines == [kind : {"retained", "closure"}, call : Calls, id : Nat, op : Ops \cup {NoOp},
           evidence : Kinds \cup {""}, start : Nat]
Doing == [kind : {"closure", "appended", "settled", "recorded"}, call : Calls, id : Nat,
          op : Ops, evidence : Kinds, start : Nat]
IsClosure(c) == c \in Doing /\ c.kind = "closure" /\ c.start =< starts
IsDoor(c) == c \in Doing /\ c.kind # "closure" /\ c.start = starts

(* A process that has replayed the journal. *)
Live == phase \in {"replayed", "serving"}

(* Types, and closures that are no later than the process. *)
JTyped ==
  /\ file \in Seq(JLines \cup {Torn, Newline})
  /\ synced \in 0 .. Len(file) /\ (phase # "serving" => synced = Len(file))
  /\ phase \in {"down", "opened", "replayed", "serving"}
  /\ linked \in BOOLEAN /\ starts \in Nat /\ next_reservation_id \in Nat
  /\ id \in [Calls -> Nat]
  /\ held \subseteq Calls /\ listed \subseteq Calls
  /\ DOMAIN books = Ops /\ DOMAIN answers = Ops
  /\ \A op \in Ops : books[op] # NoRecord => IsClosure(books[op]) /\ books[op].op = op
  /\ door # NoRecord => IsDoor(door)
  /\ rows \in [Calls -> Nat]
  /\ told \in [Calls -> {"", "journaled", "unwritten", "astray"}]
  /\ begun \in [Calls -> {"", "begun", "unsynced", "astray"}]
  /\ \A op \in Ops : answers[op].is = "ok" =>
       IsClosure(answers[op].record) /\ answers[op].record.op = op

(* A process that is down or starting holds nothing yet. *)
Idle ==
  /\ door # NoRecord => phase = "serving"
  /\ phase \in {"down", "opened"} =>
       held = {} /\ listed = {} /\ \A op \in Ops : books[op] = NoRecord
  /\ phase = "replayed" => InFlight = {}
  /\ \A k \in Calls : /\ k \in held \cup listed \/ told[k] # "" => id[k] # 0
                      /\ k \in listed \/ begun[k] # "" => told[k] # ""
  /\ door # NoRecord => begun[door.call] # ""
  /\ \A op \in Ops : books[op] # NoRecord => begun[books[op].call] # ""
  /\ phase = "replayed" => \A op \in Ops : books[op] # NoRecord => books[op].start < starts

(* A line names its call as its call is; a call is retained once. *)
LinesSay ==
  \A i \in DOMAIN file :
    /\ file[i].kind \in {"retained", "closure"} =>
         /\ file[i].id = id[file[i].call] /\ told[file[i].call] # ""
    /\ file[i].kind = "closure" =>
         /\ IsClosure(file[i]) /\ begun[file[i].call] # ""
         /\ phase \in {"opened", "replayed"} => file[i].start < starts
    /\ file[i].kind = "retained" =>
         \A j \in DOMAIN file : IsLine(file, j, "retained", file[i].call) => i = j

(* Only a crash tears a line, and the next open ends it. *)
TornEnded ==
  \A i \in DOMAIN file : file[i].kind = "torn" =>
    /\ i < Len(file) => file[i + 1].kind = "newline"
    /\ phase # "down" => i < synced

(* An id stands for one record that is not closed for good. *)
IdsApart ==
  /\ \A i, j \in DOMAIN file :
       /\ file[i].kind = "retained" /\ file[j].kind = "retained"
       /\ file[i].id = file[j].id /\ i # j
       => ClosedBy(file, synced, file[i].call) \/ ClosedBy(file, synced, file[j].call)
  /\ Live => \A i \in DOMAIN file : file[i].kind = "retained" =>
       file[i].id =< next_reservation_id \/ ClosedBy(file, synced, file[i].call)
  /\ \A k \in InFlight :
       /\ id[k] =< next_reservation_id
       /\ \A l \in InFlight : id[k] = id[l] => k = l
       /\ \A i \in DOMAIN file : file[i].kind = "retained" /\ file[i].id = id[k] =>
            ClosedBy(file, synced, file[i].call)

(* A call told "journaled" is on stable storage, and held. *)
WordKept ==
  \A k \in Calls : told[k] = "journaled" /\ begun[k] = "" =>
    IsKept(file, synced, k) /\ (Live => k \in held)

(* No process will hold it again. *)
Gone(k) ==
  /\ k \notin held \cup listed /\ told[k] # ""
  /\ ClosedBy(file, synced, k) \/ ~IsKept(file, Len(file), k)

InDoorNow(k) == door # NoRecord /\ door.call = k

(* What each trace of a closure says of its call. *)
Closing ==
  \A k \in Calls : begun[k] # "astray" =>
    /\ \A op \in Ops : books[op] # NoRecord /\ books[op].call = k => Gone(k)
    /\ \A op \in Ops : answers[op].is = "ok" /\ answers[op].record.call = k => Gone(k)
    /\ rows[k] # 0 => rows[k] = 1 /\ Gone(k) /\ (InDoorNow(k) => door.kind = "recorded")
    /\ InDoorNow(k) => ClosedBy(file, synced, k) /\ (door.kind # "appended" => Gone(k))
    /\ begun[k] # "unsynced" /\ ClosedBy(file, Len(file), k) => Gone(k) \/ InDoorNow(k)

(* What a closure of k that is on record anywhere says of its cost. *)
Traced(k, e) ==
  \/ \E i \in DOMAIN file : IsLine(file, i, "closure", k) /\ file[i].evidence = e
  \/ door # NoRecord /\ door.call = k /\ door.evidence = e
  \/ \E op \in Ops : books[op] # NoRecord /\ books[op].call = k /\ books[op].evidence = e
  \/ \E op \in Ops : /\ answers[op].is = "ok" /\ answers[op].record.call = k
                     /\ answers[op].record.evidence = e

OneEvidence ==
  \A k \in Calls : begun[k] \notin {"astray", "unsynced"} =>
    /\ \A e, d \in Kinds : Traced(k, e) /\ Traced(k, d) => e = d
    /\ rows[k] # 0 => ~Traced(k, "no_charge")

(* The last closure of its operation in the journal. *)
IsLast(f, n, op, c) ==
  \E i \in 1 .. n :
    /\ i \in DOMAIN f /\ f[i] = c
    /\ \A j \in DOMAIN f : f[j].kind = "closure" /\ f[j].op = op => j =< i

(* A closure in a file that the rewrite replaced does not count. *)
Counts(c) == c # NoRecord /\ begun[c.call] # "astray"

(* The books, the door and the answers against the journal: what a new *)
(* process will read is what this one says.                           *)
DoorStands ==
  Counts(door) => /\ books[door.op] = NoRecord
                  /\ IsLast(file, synced, door.op, [door EXCEPT !.kind = "closure"])
BooksStand ==
  \A op \in Ops : Counts(books[op]) /\ books[op].start = starts => IsLast(file, synced, op, books[op])
AnswersKept ==
  \A op \in Ops : answers[op].is = "ok" /\ Counts(answers[op].record) =>
    LET c == answers[op].record
    IN  /\ Live /\ starts =< c.start + 1 => books[op] = c
        /\ phase = "down" /\ starts = c.start => IsLast(file, synced, op, c)
        /\ phase = "opened" /\ starts = c.start + 1 => IsLast(file, synced, op, c)
        /\ phase \in {"opened", "replayed"} => c.start < starts

JInv ==
  /\ JTyped /\ Idle /\ LinesSay /\ TornEnded /\ IdsApart
  /\ WordKept /\ Closing /\ OneEvidence
  /\ DoorStands /\ BooksStand /\ AnswersKept

-----------------------------------------------------------------------------
(* What replay and rewrite read.                                           *)

(* What is in a file, and in any prefix of it. *)
LEMMA ShapeIs ==
  ASSUME NEW f, NEW n, f \in Seq(JLines \cup {Torn, Newline}), n \in 0 .. Len(f)
  PROVE  /\ Len(f) \in Nat /\ DOMAIN f = 1 .. Len(f) /\ n \in Nat /\ n =< Len(f)
         /\ \A i \in DOMAIN f :
              /\ f[i].kind \in {"retained", "closure", "torn", "newline"}
              /\ f[i].kind \in {"retained", "closure"} =>
                   f[i] \in JLines /\ f[i].call \in Calls /\ f[i].id \in Nat
<1> DEFINE All == JLines \cup {Torn, Newline}
<1>1. /\ Len(f) \in Nat /\ DOMAIN f = 1 .. Len(f)
      /\ \A i \in DOMAIN f : f[i] \in All
  <2>1. f \in Seq(All)
    OBVIOUS
  <2> HIDE DEF All
  <2> QED BY <2>1
<1>2. n \in Nat /\ n =< Len(f)
  BY <1>1
<1>3. \A c \in JLines : c.kind \in {"retained", "closure"} /\ c.call \in Calls /\ c.id \in Nat
  BY DEF JLines
<1>4. Torn.kind = "torn" /\ Newline.kind = "newline"
  BY DEF Torn, Newline
<1> QED BY <1>1, <1>2, <1>3, <1>4

(* The journal's chunks, by kind. *)
LEMMA FileIs ==
  ASSUME JTyped
  PROVE  /\ Len(file) \in Nat /\ DOMAIN file = 1 .. Len(file) /\ synced \in Nat /\ synced =< Len(file)
         /\ \A i \in DOMAIN file :
              /\ file[i].kind \in {"retained", "closure", "torn", "newline"}
              /\ file[i].kind \in {"retained", "closure"} =>
                   file[i] \in JLines /\ file[i].call \in Calls /\ file[i].id \in Nat
<1>1. file \in Seq(JLines \cup {Torn, Newline}) /\ synced \in 0 .. Len(file)
  BY DEF JTyped
<1> QED BY <1>1, ShapeIs

(* No record is fused with a torn line while every torn line is ended. *)
LEMMA ParsedIs ==
  ASSUME JTyped, TornEnded, NEW kind \in {"retained", "closure"}
  PROVE  Parsed(file, kind) = {i \in DOMAIN file : file[i].kind = kind}
<1>1. ASSUME NEW i \in DOMAIN file, file[i].kind = kind, i > 1 PROVE file[i - 1].kind # "torn"
  <2>1. i - 1 \in DOMAIN file /\ i - 1 < Len(file) /\ (i - 1) + 1 = i
    BY <1>1, FileIs
  <2> QED BY <1>1, <2>1 DEF TornEnded
<1> QED BY <1>1 DEF Parsed

(* Everything open is a record no closure in the file is of. *)
LEMMA OpenLines ==
  ASSUME JTyped, TornEnded, LinesSay
  PROVE  StillOpen(file) = {i \in DOMAIN file : file[i].kind = "retained"
                                                /\ ~ClosedBy(file, Len(file), file[i].call)}
<1>1. /\ Parsed(file, "retained") = {i \in DOMAIN file : file[i].kind = "retained"}
      /\ Parsed(file, "closure") = {i \in DOMAIN file : file[i].kind = "closure"}
  BY ParsedIs
<1>2. ASSUME NEW i \in DOMAIN file, file[i].kind = "retained"
      PROVE  <<file[i].call, file[i].id>> \in Closed(file) <=> ClosedBy(file, Len(file), file[i].call)
  <2>1. ASSUME NEW j \in DOMAIN file, file[j].kind = "closure"
        PROVE  <<file[i].call, file[i].id>> = <<file[j].call, file[j].id>> <=> file[j].call = file[i].call
    BY <1>2, <2>1 DEF LinesSay
  <2>2. <<file[i].call, file[i].id>> \in Closed(file) <=>
          \E j \in DOMAIN file : file[j].kind = "closure" /\ file[j].call = file[i].call
    BY <1>1, <2>1 DEF Closed
  <2> QED BY <2>2, FileIs DEF ClosedBy, IsLine
<1> QED BY <1>1, <1>2 DEF StillOpen

(* After a start, no two open records have one id, so all are restored. *)
LEMMA RestoredIs ==
  ASSUME JTyped, TornEnded, LinesSay, IdsApart, phase # "serving"
  PROVE  Restored(file) = StillOpen(file)
<1>1. ASSUME NEW i \in StillOpen(file), NEW j \in StillOpen(file), j < i PROVE file[j].id # file[i].id
  <2>1. synced = Len(file)
    BY DEF JTyped
  <2>2. i \in DOMAIN file /\ j \in DOMAIN file /\ i # j
    BY <1>1, OpenLines, FileIs
  <2> QED BY <1>1, <2>1, <2>2, OpenLines DEF IdsApart
<1> QED BY <1>1 DEF Restored

(* The n-th member of a finite set of positions. *)
LEMMA NthIs ==
  ASSUME NEW f \in Nat, NEW S, S \subseteq 1 .. f
  PROVE  /\ Cardinality(S) \in Nat
         /\ \A n \in 1 .. Cardinality(S) :
              Nth(S, n) \in S /\ Cardinality({j \in S : j =< Nth(S, n)}) = n
         /\ \A i \in S : \E n \in 1 .. Cardinality(S) : Nth(S, n) = i
<1> DEFINE Upto(m) == {j \in S : j =< m}
           rank(m) == Cardinality(Upto(m))
<1>0. \A i \in S : i \in Nat /\ i > 0 /\ i =< f
  OBVIOUS
<1>b. Upto(0) = {}
  <2> SUFFICES ASSUME NEW j \in S, j =< 0 PROVE FALSE
    OBVIOUS
  <2> QED BY <1>0
<1>c. ASSUME NEW m \in Nat, m # 0
      PROVE  m - 1 \in Nat /\ m \notin Upto(m - 1)
             /\ Upto(m) = Upto(m - 1) \cup (IF m \in S THEN {m} ELSE {})
  <2>1. ASSUME NEW j \in S PROVE j =< m <=> j =< m - 1 \/ j = m
    BY <1>0
  <2>2. m - 1 \in Nat /\ ~(m =< m - 1)
    BY <1>c
  <2> QED BY <2>1, <2>2
<1>d. ASSUME NEW i \in S, NEW j \in S, i < j
      PROVE  Upto(i) \subseteq Upto(j) /\ j \in Upto(j) /\ j \notin Upto(i)
  <2>1. ASSUME NEW x \in S, x =< i PROVE x =< j
    BY <1>0, <1>d, <2>1
  <2>2. j =< j /\ ~(j =< i)
    BY <1>0, <1>d
  <2> QED BY <2>1, <2>2
<1>1. IsFiniteSet(S) /\ Cardinality(S) \in Nat
  <2>1. IsFiniteSet(1 .. f)
    BY FS_Interval
  <2> QED BY <2>1, FS_Subset, FS_CardinalityType
<1>2. \A m \in Nat : IsFiniteSet(Upto(m)) /\ rank(m) \in Nat /\ rank(m) =< Cardinality(S)
  BY <1>1, FS_Subset, FS_CardinalityType
<1>3. ASSUME NEW n \in 1 .. Cardinality(S) PROVE \E i \in S : rank(i) = n
  <2> DEFINE T == {m \in Nat : rank(m) >= n}
  <2>1. f \in T
    <3>1. Upto(f) = S
      BY <1>0
    <3> QED BY <1>1, <3>1
  <2>2. PICK m \in T : \A l \in T : m =< l
    BY <2>1, LeastNat
  <2>3. m # 0
    <3>2. rank(0) = 0
      BY <1>b, FS_EmptySet
    <3> HIDE DEF rank
    <3> QED BY <3>2, <2>2
  <2>a. m \in Nat /\ \A l \in T : m =< l
    BY <2>2
  <2>4. m - 1 \in Nat /\ m - 1 \notin T /\ m \in Nat
    <3> HIDE DEF T
    <3> QED BY <2>a, <2>3
  <2>5. /\ rank(m - 1) < n /\ rank(m) >= n
        /\ rank(m - 1) \in Nat /\ rank(m) \in Nat /\ n \in Nat
    <3>1. n \in Nat /\ rank(m - 1) \in Nat /\ rank(m) \in Nat
      <4>1. n \in Nat
        BY <1>1
      <4>2. rank(m - 1) \in Nat /\ rank(m) \in Nat
        BY <1>2, <2>4
      <4> QED BY <4>1, <4>2
    <3>2. rank(m) >= n /\ ~(rank(m - 1) >= n)
      BY <2>2, <2>4
    <3> HIDE DEF rank
    <3> QED BY <3>1, <3>2
  <2>7. m \in S
    <3> SUFFICES ASSUME m \notin S PROVE FALSE
      OBVIOUS
    <3>1. Upto(m) = Upto(m - 1)
      BY <1>c, <2>3, <2>4
    <3>2. rank(m) = rank(m - 1)
      BY <3>1
    <3> HIDE DEF rank
    <3> QED BY <2>5, <3>2
  <2>8. Upto(m) = Upto(m - 1) \cup {m} /\ m \notin Upto(m - 1)
    BY <1>c, <2>3, <2>4, <2>7
  <2>9. rank(m) = rank(m - 1) + 1
    <3>1. IsFiniteSet(Upto(m - 1))
      BY <1>2, <2>4
    <3> HIDE DEF Upto
    <3> QED BY <2>8, <3>1, FS_AddElement
  <2>10. rank(m) = n
    <3> HIDE DEF rank
    <3> QED BY <2>5, <2>9
  <2> QED BY <2>7, <2>10
<1>4. \A n \in 1 .. Cardinality(S) : Nth(S, n) \in S /\ rank(Nth(S, n)) = n
  BY <1>3 DEF Nth
<1>5. ASSUME NEW i \in S, NEW j \in S, i < j PROVE rank(i) < rank(j)
  <2>1. Upto(i) \subseteq Upto(j) /\ j \in Upto(j) /\ j \notin Upto(i)
    BY <1>d, <1>5
  <2>2. IsFiniteSet(Upto(j)) /\ Upto(i) # Upto(j)
    BY <1>2, <2>1
  <2> DEFINE A == Upto(i)
             B == Upto(j)
  <2>3. A \subseteq B /\ A # B /\ IsFiniteSet(B)
    BY <2>1, <2>2
  <2>4. rank(i) = Cardinality(A) /\ rank(j) = Cardinality(B)
    OBVIOUS
  <2>5. rank(i) \in Nat /\ rank(j) \in Nat
    BY <1>0, <1>2
  <2> HIDE DEF A, B, rank
  <2>6. Cardinality(A) =< Cardinality(B) /\ (Cardinality(A) = Cardinality(B) => A = B)
    BY <2>3, FS_Subset
  <2> QED BY <2>3, <2>4, <2>5, <2>6
<1>6. ASSUME NEW i \in S PROVE \E n \in 1 .. Cardinality(S) : Nth(S, n) = i
  <2>1. rank(i) \in 1 .. Cardinality(S)
    <3>1. i \in Upto(i) /\ IsFiniteSet(Upto(i))
      BY <1>2
    <3>2. rank(i) # 0
      <4> HIDE DEF Upto
      <4> QED BY <3>1, FS_EmptySet
    <3>3. i \in Nat
      BY <1>0
    <3>4. rank(i) \in Nat /\ rank(i) =< Cardinality(S)
      BY <1>2, <3>3
    <3> HIDE DEF rank
    <3> QED BY <1>1, <3>2, <3>4
  <2>2. Nth(S, rank(i)) \in S /\ rank(Nth(S, rank(i))) = rank(i)
    BY <1>4, <2>1
  <2>3. PICK j : j = Nth(S, rank(i))
    OBVIOUS
  <2>4. j \in S /\ rank(j) = rank(i)
    BY <2>2, <2>3
  <2>5. i \in Nat /\ j \in Nat /\ rank(i) \in Nat /\ rank(j) \in Nat
    BY <1>0, <1>2, <2>4
  <2>6. ~(i < j) /\ ~(j < i)
    <3> HIDE DEF rank
    <3> QED BY <1>5, <2>4, <2>5
  <2>7. j = i
    BY <2>5, <2>6
  <2> HIDE DEF rank
  <2> QED BY <2>1, <2>3, <2>7
<1> QED BY <1>1, <1>4, <1>6

(* What rewrite leaves: each open record once, and nothing else. *)
LEMMA KeepIs ==
  ASSUME JTyped, TornEnded, LinesSay
  PROVE  /\ keep(file) \in Seq(JLines \cup {Torn, Newline})
         /\ \A n \in DOMAIN keep(file) : \E i \in StillOpen(file) : keep(file)[n] = file[i]
         /\ \A i \in StillOpen(file) : \E n \in DOMAIN keep(file) : keep(file)[n] = file[i]
         /\ \A m, n \in DOMAIN keep(file) : keep(file)[m].call = keep(file)[n].call => m = n
<1> DEFINE S == StillOpen(file)
           g == keep(file)
<1>1. S \subseteq 1 .. Len(file) /\ Len(file) \in Nat
  BY OpenLines, FileIs
<1> HIDE DEF S
<1>2. /\ Cardinality(S) \in Nat
      /\ \A n \in 1 .. Cardinality(S) :
           Nth(S, n) \in S /\ Cardinality({j \in S : j =< Nth(S, n)}) = n
      /\ \A i \in S : \E n \in 1 .. Cardinality(S) : Nth(S, n) = i
  BY <1>1, NthIs
<1>3. g = [n \in 1 .. Cardinality(S) |-> file[Nth(S, n)]]
  BY DEF keep, S
<1> HIDE DEF g
<1>4. DOMAIN g = 1 .. Cardinality(S) /\ \A n \in 1 .. Cardinality(S) : g[n] = file[Nth(S, n)]
  BY <1>3
<1> DEFINE All == JLines \cup {Torn, Newline}
<1>a. file \in Seq(All)
  BY DEF JTyped
<1> HIDE DEF All
<1>5. \A i \in S : file[i] \in All
  BY <1>1, <1>a
<1>6. g \in Seq(All)
  <2> DEFINE n == Cardinality(S)
  <2>1. g \in [1 .. n -> All] /\ n \in Nat
    BY <1>2, <1>3, <1>5
  <2> HIDE DEF n
  <2> QED BY <2>1
<1>7. ASSUME NEW m \in DOMAIN g, NEW n \in DOMAIN g, g[m].call = g[n].call PROVE m = n
  <2>1. PICK i \in S, j \in S : i = Nth(S, m) /\ j = Nth(S, n)
    BY <1>2, <1>4
  <2>2. file[i].call = file[j].call
    BY <1>4, <1>7, <2>1
  <2>3. i = j
    <3>1. i \in DOMAIN file /\ j \in DOMAIN file /\ file[i].kind = "retained" /\ file[j].kind = "retained"
      BY OpenLines DEF S
    <3> QED BY <2>2, <3>1 DEF LinesSay, IsLine
  <2>4. Nth(S, m) = Nth(S, n)
    BY <2>1, <2>3
  <2>5. m \in 1 .. Cardinality(S) /\ n \in 1 .. Cardinality(S)
    BY <1>4
  <2>6. m = Cardinality({l \in S : l =< Nth(S, m)}) /\ n = Cardinality({l \in S : l =< Nth(S, n)})
    BY <1>2, <2>5
  <2> QED BY <2>4, <2>6
<1> QED BY <1>2, <1>4, <1>6, <1>7 DEF S, g, All

(* A file's ids are bounded, so the counter has a place to start from. *)
LEMMA NextIs ==
  ASSUME JTyped, NEW S, S \subseteq DOMAIN file, \A i \in S : file[i].id \in Nat
  PROVE  /\ Max({file[i].id : i \in S} \cup {0}) \in Nat
         /\ \A l \in S : file[l].id =< Max({file[i].id : i \in S} \cup {0})
<1> DEFINE D == {file[i].id : i \in S} \cup {0}
           Above(n, u) == \A i \in S : i =< n => file[i].id =< u
           T == {n \in Nat : ~\E u \in Nat : Above(n, u)}
<1>1. \A i \in S : i \in Nat /\ i > 0 /\ i =< Len(file)
  BY FileIs
<1>2. T = {}
  <2> SUFFICES ASSUME T # {} PROVE FALSE
    OBVIOUS
  <2>1. PICK m \in T : \A n \in T : m =< n
    BY LeastNat
  <2>2. CASE m = 0
    <3>1. Above(m, 0)
      BY <1>1, <2>2
    <3> QED BY <2>1, <3>1
  <2>3. CASE m # 0
    <3>1. m - 1 \in Nat /\ m - 1 \notin T
      BY <2>1, <2>3
    <3>2. PICK u \in Nat : Above(m - 1, u)
      BY <3>1
    <3>3. CASE m \in S /\ file[m].id > u
      <4>1. Above(m, file[m].id)
        <5> SUFFICES ASSUME NEW i \in S, i =< m PROVE file[i].id =< file[m].id
          OBVIOUS
        <5>1. i = m \/ i =< m - 1
          BY <1>1, <3>1
        <5>2. file[i].id \in Nat /\ file[m].id \in Nat
          BY <3>3
        <5> QED BY <3>2, <3>3, <5>1, <5>2
      <4> QED BY <2>1, <3>3, <4>1
    <3>4. CASE ~(m \in S /\ file[m].id > u)
      <4>1. Above(m, u)
        <5> SUFFICES ASSUME NEW i \in S, i =< m PROVE file[i].id =< u
          OBVIOUS
        <5>1. i = m \/ i =< m - 1
          BY <1>1, <3>1
        <5>2. file[i].id \in Nat
          OBVIOUS
        <5> QED BY <3>2, <3>4, <5>1, <5>2
      <4> QED BY <2>1, <4>1
    <3> QED BY <3>3, <3>4
  <2> QED BY <2>2, <2>3
<1>3. Len(file) \in Nat
  BY FileIs
<1>4. PICK u \in Nat : Above(Len(file), u)
  BY <1>2, <1>3
<1>5. D \subseteq Nat /\ \A d \in D : d =< u
  BY <1>1, <1>4
<1>6. PICK x \in D : \A d \in D : d =< x
  <2> DEFINE U == {v \in Nat : \A d \in D : d =< v}
  <2> HIDE DEF D
  <2>1. u \in U
    BY <1>5
  <2>2. PICK v \in U : \A w \in U : v =< w
    BY <2>1, LeastNat
  <2>3. CASE v \in D
    BY <2>2, <2>3
  <2>4. CASE v \notin D
    <3>1. \A d \in D : d \in Nat /\ d < v
      BY <1>5, <2>2, <2>4
    <3>2. 0 \in D
      BY DEF D
    <3>3. v - 1 \in Nat /\ \A d \in D : d =< v - 1
      BY <2>2, <3>1, <3>2
    <3> QED BY <2>2, <3>3
  <2> QED BY <2>3, <2>4
<1>7. Max(D) \in D /\ \A d \in D : d =< Max(D)
  <2> HIDE DEF D
  <2>1. \E y \in D : \A d \in D : y >= d
    BY <1>5, <1>6
  <2>2. Max(D) \in D /\ \A d \in D : Max(D) >= d
    BY <2>1 DEF Max
  <2> QED BY <1>5, <2>2
<1> QED BY <1>5, <1>7

-----------------------------------------------------------------------------
(* What a step leaves of the file: all that was synced, and of the rest    *)
(* and of the line c it was writing what there is.                         *)
Carries(g, m, c) ==
  /\ g \in Seq(JLines \cup {Torn, Newline}) /\ m \in 0 .. Len(g) /\ synced =< m
  /\ \A i \in 1 .. synced : g[i] = file[i]
  /\ \A i \in DOMAIN g : g[i].kind \in {"retained", "closure"} =>
       (i \in DOMAIN file /\ g[i] = file[i]) \/ (i = Len(file) + 1 /\ g[i] = c)

IsNew(c, kind, k) == c.kind = kind /\ c.call = k

(* What was on stable storage is still said, and only the line c is new. *)
LEMMA Carried ==
  ASSUME JTyped, NEW g, NEW m, NEW c, Carries(g, m, c)
  PROVE  /\ \A k : ClosedBy(file, synced, k) => ClosedBy(g, m, k)
         /\ \A k : IsKept(file, synced, k) => IsKept(g, m, k)
         /\ \A k : IsKept(g, Len(g), k) => IsKept(file, Len(file), k) \/ IsNew(c, "retained", k)
         /\ \A k : ClosedBy(g, Len(g), k) => ClosedBy(file, Len(file), k) \/ IsNew(c, "closure", k)
         /\ \A op, d : IsLast(file, synced, op, d) /\ ~(c.kind = "closure" /\ c.op = op) =>
              IsLast(g, m, op, d)
<1>1. /\ Len(file) \in Nat /\ DOMAIN file = 1 .. Len(file) /\ synced \in Nat /\ synced =< Len(file)
  BY FileIs
<1>2. /\ Len(g) \in Nat /\ DOMAIN g = 1 .. Len(g) /\ m \in Nat /\ m =< Len(g) /\ synced =< m
  BY ShapeIs DEF Carries
<1>3. \A i \in 1 .. synced : /\ i \in DOMAIN file /\ i \in DOMAIN g /\ g[i] = file[i]
                             /\ i \in 1 .. m
  <2>1. \A i \in 1 .. synced : g[i] = file[i]
    BY DEF Carries
  <2> QED BY <1>1, <1>2, <2>1
<1>4. \A i \in DOMAIN g : g[i].kind \in {"retained", "closure"} =>
        (i \in DOMAIN file /\ g[i] = file[i]) \/ (i = Len(file) + 1 /\ g[i] = c)
  BY DEF Carries
<1>5. \A k : ClosedBy(file, synced, k) => ClosedBy(g, m, k)
  BY <1>3 DEF ClosedBy, IsLine
<1>6. \A k : IsKept(file, synced, k) => IsKept(g, m, k)
  BY <1>3 DEF IsKept, IsLine
<1>7. \A k : IsKept(g, Len(g), k) => IsKept(file, Len(file), k) \/ IsNew(c, "retained", k)
  BY <1>1, <1>2, <1>4 DEF IsKept, IsLine, IsNew
<1>8. \A k : ClosedBy(g, Len(g), k) => ClosedBy(file, Len(file), k) \/ IsNew(c, "closure", k)
  BY <1>1, <1>2, <1>4 DEF ClosedBy, IsLine, IsNew
<1>9. ASSUME NEW op, NEW d, IsLast(file, synced, op, d), ~(c.kind = "closure" /\ c.op = op)
      PROVE  IsLast(g, m, op, d)
  <2>1. PICK i \in 1 .. synced :
          /\ i \in DOMAIN file /\ file[i] = d
          /\ \A j \in DOMAIN file : file[j].kind = "closure" /\ file[j].op = op => j =< i
    BY <1>9 DEF IsLast
  <2>2. \A j \in DOMAIN g : g[j].kind = "closure" /\ g[j].op = op => j =< i
    BY <1>4, <1>9, <2>1
  <2>3. i \in 1 .. m /\ i \in DOMAIN g /\ g[i] = d
    BY <1>3, <2>1
  <2> QED BY <2>2, <2>3 DEF IsLast
<1> QED BY <1>5, <1>6, <1>7, <1>8, <1>9

(* A line of a call stays what it is: what a call is called, was told and  *)
(* has begun is not taken back.                                            *)
Steady ==
  \A k \in Calls : /\ id[k] # 0 => id'[k] = id[k]
                   /\ told[k] # "" => told'[k] # ""
                   /\ begun[k] # "" => begun'[k] # ""

(* A line may be written: of a call in flight, or of one that is listed.   *)
MayWrite(c) ==
  /\ c.kind \in {"retained", "closure"} =>
       c \in JLines /\ c.id = id[c.call] /\ c.id # 0
  /\ c.kind = "retained" => c.call \in InFlight
  /\ c.kind = "closure" => c \in Doing /\ c.start = starts /\ told[c.call] # ""

(* And what was written is told. *)
WasWritten(c) ==
  /\ c.kind = "retained" => told'[c.call] # ""
  /\ c.kind = "closure" => begun'[c.call] # "" /\ phase' \notin {"opened", "replayed"}

(* Every line still names its call as its call is. *)
LEMMA LinesCarry ==
  ASSUME JTyped, Idle, LinesSay, NEW c, Carries(file', synced', c), Steady,
         MayWrite(c), WasWritten(c), starts' \in Nat, starts' >= starts,
         phase' \in {"opened", "replayed"} => phase \in {"opened", "replayed"} \/ starts' > starts
  PROVE  LinesSay'
<1>1. /\ Len(file) \in Nat /\ DOMAIN file = 1 .. Len(file)
      /\ \A i \in DOMAIN file : file[i].kind \in {"retained", "closure"} => file[i].call \in Calls
  BY FileIs
<1>2. \A i \in DOMAIN file' : file'[i].kind \in {"retained", "closure"} =>
        (i \in DOMAIN file /\ file'[i] = file[i]) \/ (i = Len(file) + 1 /\ file'[i] = c)
  BY DEF Carries
<1>3. \A k \in Calls : told[k] # "" => id[k] # 0
  BY DEF Idle
<1>4. starts \in Nat /\ \A d \in Doing : d.start \in Nat /\ d.call \in Calls
  BY DEF JTyped, Doing
<1>5. c \in JLines => c.call \in Calls
  BY DEF JLines
<1>6. c.kind = "retained" => told[c.call] = "" /\ c.call \in Calls /\ id[c.call] # 0
  BY <1>5 DEF MayWrite, InFlight, JTyped
<1> SUFFICES ASSUME NEW i \in DOMAIN file'
             PROVE  /\ file'[i].kind \in {"retained", "closure"} =>
                         /\ file'[i].id = id'[file'[i].call] /\ told'[file'[i].call] # ""
                    /\ file'[i].kind = "closure" =>
                         /\ IsClosure(file[i])' /\ begun'[file'[i].call] # ""
                         /\ phase' \in {"opened", "replayed"} => file'[i].start < starts'
                    /\ file'[i].kind = "retained" =>
                         \A j \in DOMAIN file' : IsLine(file', j, "retained", file'[i].call) => i = j
  BY DEF LinesSay
<1>7. CASE i \in DOMAIN file /\ file'[i] = file[i]
  <2>1. file[i].kind \in {"retained", "closure"} =>
          file[i].id = id'[file[i].call] /\ told'[file[i].call] # ""
    BY <1>1, <1>3, <1>7 DEF LinesSay, Steady
  <2>2. file[i].kind = "closure" =>
          /\ file[i] \in Doing /\ file[i].start =< starts' /\ begun'[file[i].call] # ""
          /\ phase' \in {"opened", "replayed"} => file[i].start < starts'
    <3> SUFFICES ASSUME file[i].kind = "closure"
                 PROVE  /\ file[i] \in Doing /\ file[i].start =< starts' /\ begun'[file[i].call] # ""
                        /\ phase' \in {"opened", "replayed"} => file[i].start < starts'
      OBVIOUS
    <3>1. /\ file[i] \in Doing /\ file[i].start =< starts /\ begun[file[i].call] # ""
          /\ phase \in {"opened", "replayed"} => file[i].start < starts
      BY <1>7 DEF LinesSay, IsClosure
    <3>2. file[i].start \in Nat /\ file[i].call \in Calls
      BY <1>4, <3>1
    <3>3. begun'[file[i].call] # ""
      BY <3>1, <3>2 DEF Steady
    <3>a. PICK n : n = file[i].start
      OBVIOUS
    <3>b. n \in Nat /\ n =< starts /\ (phase \in {"opened", "replayed"} => n < starts)
      BY <3>1, <3>2, <3>a
    <3>4. n =< starts' /\ (phase' \in {"opened", "replayed"} => n < starts')
      BY <1>4, <3>b
    <3>5. file[i].start =< starts' /\ (phase' \in {"opened", "replayed"} => file[i].start < starts')
      BY <3>4, <3>a
    <3> QED BY <3>1, <3>3, <3>5
  <2>3. ASSUME file[i].kind = "retained", NEW j \in DOMAIN file',
               IsLine(file', j, "retained", file[i].call)
        PROVE  i = j
    <3>1. told[file[i].call] # ""
      BY <1>7, <2>3 DEF LinesSay
    <3>2. j \in DOMAIN file /\ file'[j] = file[j]
      BY <1>2, <1>6, <2>3, <3>1 DEF IsLine
    <3> QED BY <1>7, <2>3, <3>2 DEF LinesSay, IsLine
  <2> QED BY <1>7, <2>1, <2>2, <2>3 DEF IsClosure
<1>8. CASE file'[i] = c /\ i = Len(file) + 1
  <2>1. c.kind \in {"retained", "closure"} => c.id = id'[c.call] /\ told'[c.call] # ""
    BY <1>5, <1>6 DEF MayWrite, WasWritten, Steady
  <2>2. c.kind = "closure" => /\ c \in Doing /\ c.start =< starts' /\ begun'[c.call] # ""
                              /\ phase' \notin {"opened", "replayed"}
    BY <1>4 DEF MayWrite, WasWritten
  <2>3. ASSUME c.kind = "retained", NEW j \in DOMAIN file', IsLine(file', j, "retained", c.call)
        PROVE  i = j
    <3>1. ~(j \in DOMAIN file /\ file'[j] = file[j])
      BY <1>6, <2>3 DEF LinesSay, IsLine
    <3> QED BY <1>2, <1>8, <2>3, <3>1 DEF IsLine
  <2> QED BY <1>8, <2>1, <2>2, <2>3 DEF IsClosure
<1> QED BY <1>2, <1>7, <1>8

(* Two records of one id are still closed, one or the other. *)
LEMMA ApartCarry ==
  ASSUME JTyped, Idle, LinesSay, IdsApart, NEW c, Carries(file', synced', c), MayWrite(c),
         NEW i \in DOMAIN file', NEW j \in DOMAIN file', file'[i].kind = "retained",
         file'[j].kind = "retained", file'[i].id = file'[j].id, i # j
  PROVE  ClosedBy(file', synced', file'[i].call) \/ ClosedBy(file', synced', file'[j].call)
<1>1. \A m \in DOMAIN file' : file'[m].kind = "retained" =>
        (m \in DOMAIN file /\ file'[m] = file[m]) \/ (m = Len(file) + 1 /\ file'[m] = c)
  BY DEF Carries
<1>2. \A k : ClosedBy(file, synced, k) => ClosedBy(file', synced', k)
  BY Carried
<1>3. CASE (i \in DOMAIN file /\ file'[i] = file[i]) /\ (j \in DOMAIN file /\ file'[j] = file[j])
  BY <1>2, <1>3 DEF IdsApart
<1>4. ASSUME NEW m \in DOMAIN file, file[m].kind = "retained", c.kind = "retained", file[m].id = c.id
      PROVE  ClosedBy(file', synced', file[m].call)
  BY <1>2, <1>4 DEF IdsApart, MayWrite
<1> QED BY <1>1, <1>3, <1>4

(* While the process runs the counter is ahead of what is not closed. *)
LEMMA AheadCarry ==
  ASSUME JTyped, Idle, LinesSay, IdsApart, NEW c, Carries(file', synced', c), MayWrite(c),
         WasWritten(c), Live, next_reservation_id' = next_reservation_id,
         id' = id, InFlight' \subseteq InFlight
  PROVE  /\ \A i \in DOMAIN file' : file'[i].kind = "retained" =>
              file'[i].id =< next_reservation_id' \/ ClosedBy(file', synced', file'[i].call)
         /\ \A k \in InFlight' :
              /\ id'[k] =< next_reservation_id'
              /\ \A l \in InFlight' : id'[k] = id'[l] => k = l
              /\ \A i \in DOMAIN file' : file'[i].kind = "retained" /\ file'[i].id = id'[k] =>
                   ClosedBy(file', synced', file'[i].call)
<1>1. \A m \in DOMAIN file' : file'[m].kind = "retained" =>
        (m \in DOMAIN file /\ file'[m] = file[m]) \/ (m = Len(file) + 1 /\ file'[m] = c)
  BY DEF Carries
<1>2. \A k : ClosedBy(file, synced, k) => ClosedBy(file', synced', k)
  BY Carried
<1>3. c.kind = "retained" => c.call \in InFlight /\ c.id = id[c.call] /\ c.call \notin InFlight'
  BY DEF MayWrite, WasWritten, InFlight
<1>4. \A i \in DOMAIN file' : file'[i].kind = "retained" =>
        file'[i].id =< next_reservation_id' \/ ClosedBy(file', synced', file'[i].call)
  BY <1>1, <1>2, <1>3 DEF IdsApart
<1>5. ASSUME NEW k \in InFlight'
      PROVE  /\ id'[k] =< next_reservation_id'
             /\ \A l \in InFlight' : id'[k] = id'[l] => k = l
             /\ \A i \in DOMAIN file' : file'[i].kind = "retained" /\ file'[i].id = id'[k] =>
                  ClosedBy(file', synced', file'[i].call)
  <2>1. k \in InFlight
    BY <1>5
  <2>2. id'[k] =< next_reservation_id' /\ \A l \in InFlight' : id'[k] = id'[l] => k = l
    BY <2>1 DEF IdsApart
  <2>3. ASSUME NEW i \in DOMAIN file', file'[i].kind = "retained", file'[i].id = id'[k]
        PROVE  ClosedBy(file', synced', file'[i].call)
    <3>1. CASE i \in DOMAIN file /\ file'[i] = file[i]
      BY <1>2, <2>1, <2>3, <3>1 DEF IdsApart
    <3>2. CASE file'[i] = c
      <4>1. c.call = k
        BY <1>3, <2>1, <2>3, <3>2 DEF IdsApart
      <4> QED BY <1>3, <1>5, <2>3, <3>2, <4>1
    <3> QED BY <1>1, <2>3, <3>1, <3>2
  <2> QED BY <2>2, <2>3
<1> QED BY <1>4, <1>5

(* What is gone stays so. *)
LEMMA GoneStays ==
  ASSUME JTyped, NEW c, Carries(file', synced', c), NEW k, Gone(k),
         k \notin held' \cup listed', told'[k] # "", ~IsNew(c, "retained", k)
  PROVE  Gone(k)'
<1>1. ClosedBy(file, synced, k) => ClosedBy(file', synced', k)
  BY Carried
<1>2. IsKept(file', Len(file'), k) => IsKept(file, Len(file), k)
  BY Carried
<1> QED BY <1>1, <1>2 DEF Gone

-----------------------------------------------------------------------------
(* The records a step handles. *)
LEMMA LineIs ==
  ASSUME JTyped, NEW k \in Calls
  PROVE  /\ Retained(k) \in JLines /\ Retained(k).kind = "retained" /\ Retained(k).call = k
         /\ Retained(k).id = id[k]
         /\ \A op \in Ops, evidence \in Kinds :
              LET c == Line("closure", k, op, evidence)
              IN  /\ c \in JLines /\ c \in Doing /\ c.kind = "closure" /\ c.call = k /\ c.id = id[k]
                  /\ c.op = op /\ c.evidence = evidence /\ c.start = starts /\ c # NoRecord
<1>1. id[k] \in Nat /\ starts \in Nat
  BY DEF JTyped
<1>2. /\ Retained(k) \in JLines /\ Retained(k).kind = "retained" /\ Retained(k).call = k
      /\ Retained(k).id = id[k]
  BY <1>1 DEF Retained, Line, JLines
<1>3. ASSUME NEW op \in Ops, NEW evidence \in Kinds, NEW c, c = Line("closure", k, op, evidence)
      PROVE  /\ c \in JLines /\ c \in Doing /\ c.kind = "closure" /\ c.call = k /\ c.id = id[k]
             /\ c.op = op /\ c.evidence = evidence /\ c.start = starts /\ c # NoRecord
  <2>1. c \in JLines /\ c \in Doing
    BY <1>1, <1>3 DEF Line, JLines, Doing
  <2>2. /\ c.kind = "closure" /\ c.call = k /\ c.id = id[k]
        /\ c.op = op /\ c.evidence = evidence /\ c.start = starts
    BY <1>3 DEF Line
  <2>3. NoRecord.kind = "none"
    BY DEF NoRecord
  <2>4. c # NoRecord
    BY <2>2, <2>3
  <2> QED BY <2>1, <2>2, <2>4
<1> QED BY <1>2, <1>3

(* A closure moves through the door: only its kind changes. *)
LEMMA DoorIs ==
  ASSUME NEW c \in Doing, NEW kind \in {"closure", "appended", "settled", "recorded"},
         NEW d, d = [c EXCEPT !.kind = kind]
  PROVE  /\ d \in Doing /\ d.kind = kind /\ d.call = c.call /\ d.id = c.id /\ d.op = c.op
         /\ d.evidence = c.evidence /\ d.start = c.start /\ d # NoRecord
         /\ \A l \in {"closure", "appended", "settled", "recorded"} :
              [d EXCEPT !.kind = l] = [c EXCEPT !.kind = l]
         /\ c.kind = "closure" => [c EXCEPT !.kind = "closure"] = c
<1>1. NoRecord.kind = "none"
  BY DEF NoRecord
<1>2. /\ d \in Doing /\ d.kind = kind /\ d.call = c.call /\ d.id = c.id /\ d.op = c.op
      /\ d.evidence = c.evidence /\ d.start = c.start
  BY DEF Doing
<1>3. d # NoRecord
  BY <1>1, <1>2
<1>5. ASSUME NEW l \in {"closure", "appended", "settled", "recorded"}
      PROVE  [d EXCEPT !.kind = l] = [c EXCEPT !.kind = l]
  BY DEF Doing
<1>6. c.kind = "closure" => [c EXCEPT !.kind = "closure"] = c
  BY DEF Doing
<1> QED BY <1>2, <1>3, <1>5, <1>6

(* The closures in the books, in the answers and in the door. *)
LEMMA RecordsAre ==
  ASSUME JTyped
  PROVE  /\ \A op \in Ops : books[op] # NoRecord =>
              /\ books[op] \in Doing /\ books[op].kind = "closure" /\ books[op].call \in Calls
              /\ books[op].op = op /\ books[op].start \in Nat /\ books[op].start =< starts
         /\ \A op \in Ops : answers[op].is = "ok" =>
              /\ answers[op].record \in Doing /\ answers[op].record.call \in Calls
              /\ answers[op].record.kind = "closure" /\ answers[op].record.op = op
              /\ answers[op].record # NoRecord
              /\ answers[op].record.start \in Nat /\ answers[op].record.start =< starts
         /\ door # NoRecord =>
              /\ door \in Doing /\ door.call \in Calls /\ door.op \in Ops /\ door.start = starts
              /\ door.kind \in {"appended", "settled", "recorded"}
         /\ door = NoRecord => door.kind = "none"
<1>1. \A c \in Doing : /\ c.call \in Calls /\ c.op \in Ops /\ c.start \in Nat
                       /\ c.kind \in {"closure", "appended", "settled", "recorded"}
  BY DEF Doing
<1>2. NoRecord.kind = "none"
  BY DEF NoRecord
<1>3. \A op \in Ops : books[op] # NoRecord => IsClosure(books[op]) /\ books[op].op = op
  BY DEF JTyped
<1>4. \A op \in Ops : answers[op].is = "ok" =>
        IsClosure(answers[op].record) /\ answers[op].record.op = op
  BY DEF JTyped
<1>5. door # NoRecord => IsDoor(door)
  BY DEF JTyped
<1>6. \A c : IsClosure(c) => c \in Doing /\ c.kind = "closure" /\ c.start =< starts
  BY DEF IsClosure
<1>7. IsDoor(door) => door \in Doing /\ door.kind # "closure" /\ door.start = starts
  BY DEF IsDoor
<1>8. \A op \in Ops : books[op] # NoRecord =>
        /\ books[op] \in Doing /\ books[op].kind = "closure" /\ books[op].call \in Calls
        /\ books[op].op = op /\ books[op].start \in Nat /\ books[op].start =< starts
  BY <1>1, <1>3, <1>6
<1>9. \A op \in Ops : answers[op].is = "ok" =>
              /\ answers[op].record \in Doing /\ answers[op].record.call \in Calls
              /\ answers[op].record.kind = "closure" /\ answers[op].record.op = op
              /\ answers[op].record # NoRecord
              /\ answers[op].record.start \in Nat /\ answers[op].record.start =< starts
  BY <1>1, <1>2, <1>4, <1>6
<1>10. door # NoRecord =>
              /\ door \in Doing /\ door.call \in Calls /\ door.op \in Ops /\ door.start = starts
              /\ door.kind \in {"appended", "settled", "recorded"}
  BY <1>1, <1>5, <1>7
<1> QED BY <1>2, <1>8, <1>9, <1>10

-----------------------------------------------------------------------------
(* How the file moves, apart from the rewrite. *)
LEMMA StillCarries ==
  ASSUME JTyped, file' = file, synced' = synced
  PROVE  Carries(file', synced', NoRecord) /\ MayWrite(NoRecord) /\ WasWritten(NoRecord)
<1> DEFINE All == JLines \cup {Torn, Newline}
<1>a. file \in Seq(All) /\ synced \in 0 .. Len(file) /\ synced \in Nat /\ synced =< synced
  <2>1. file \in Seq(All)
    BY DEF JTyped
  <2>2. synced \in Nat /\ synced =< Len(file) /\ Len(file) \in Nat
    BY FileIs
  <2> HIDE DEF All
  <2> QED BY <2>1, <2>2
<1>b. \A i \in DOMAIN file : i \in DOMAIN file /\ file[i] = file[i]
  OBVIOUS
<1> HIDE DEF All
<1>1. Carries(file', synced', NoRecord)
  BY <1>a, <1>b DEF Carries, All
<1>2. NoRecord.kind = "none"
  BY DEF NoRecord
<1> QED BY <1>1, <1>2 DEF MayWrite, WasWritten

(* The place an append writes. *)
LEMMA LastOf ==
  \A n \in Nat : n + 1 \in 1 .. n + 1
OBVIOUS

(* append_line, whatever its outcome, when no part of a line is left. *)
LEMMA AppendCarries ==
  ASSUME JTyped, TornEnded, phase = "serving", NEW c \in JLines, NEW outcome, append(c, outcome),
         outcome \in {"ok", "nothing", "unsynced"}, phase' = phase
  PROVE  /\ Carries(file', synced', c) /\ TornEnded'
         /\ file' = file \/ (linked /\ file' = Append(file, c))
         /\ outcome = "ok" => synced' = Len(file')
         /\ outcome = "ok" /\ linked =>
              /\ synced' = Len(file) + 1 /\ DOMAIN file' = 1 .. Len(file) + 1
              /\ file'[Len(file) + 1] = c
              /\ \A i \in DOMAIN file : i =< Len(file) /\ file'[i] = file[i]
<1> DEFINE All == JLines \cup {Torn, Newline}
<1>1. /\ Len(file) \in Nat /\ DOMAIN file = 1 .. Len(file) /\ synced \in Nat /\ synced =< Len(file)
  BY FileIs
<1>2. file \in Seq(All) /\ c \in All
  BY DEF JTyped
<1>3. c.kind \in {"retained", "closure"}
  BY DEF JLines
<1>a. outcome # "part"
  OBVIOUS
<1>4. (file' = file /\ (outcome = "nothing" \/ ~linked)) \/ (linked /\ file' = Append(file, c))
  BY <1>a DEF append
<1>5. synced' = IF outcome = "ok" THEN Len(file') ELSE synced
  BY DEF append
<1> HIDE DEF All
<1>6. CASE file' = file
  <2>1. synced' \in 0 .. Len(file') /\ synced =< synced'
    BY <1>1, <1>5, <1>6
  <2>2. Carries(file', synced', c)
    BY <1>1, <1>2, <1>6, <2>1 DEF Carries, All
  <2>3. TornEnded'
    <3>1. synced' \in Nat
      BY <1>1, <2>1
    <3> SUFFICES ASSUME NEW i \in DOMAIN file, file[i].kind = "torn"
                 PROVE  /\ i < Len(file) => file[i + 1].kind = "newline"
                        /\ i < synced'
      BY <1>6 DEF TornEnded
    <3>2. i < synced /\ (i < Len(file) => file[i + 1].kind = "newline")
      BY DEF TornEnded
    <3> QED BY <1>1, <2>1, <3>1, <3>2
  <2> QED BY <1>4, <1>5, <1>6, <2>2, <2>3
<1>7. CASE linked /\ file' = Append(file, c)
  <2>1. /\ file' \in Seq(All) /\ Len(file') = Len(file) + 1 /\ DOMAIN file' = 1 .. Len(file) + 1
        /\ \A i \in 1 .. Len(file) : file'[i] = file[i]
        /\ file'[Len(file) + 1] = c
    BY <1>2, <1>7
  <2>2. synced' \in 0 .. Len(file') /\ synced =< synced' /\ synced' \in Nat
    BY <1>1, <1>5, <2>1
  <2>3. \A i \in 1 .. synced : file'[i] = file[i]
    BY <1>1, <2>1
  <2>4. \A i \in DOMAIN file' : (i \in DOMAIN file /\ file'[i] = file[i]) \/ (i = Len(file) + 1 /\ file'[i] = c)
    BY <1>1, <2>1
  <2>5. Carries(file', synced', c)
    BY <2>1, <2>2, <2>3, <2>4 DEF Carries, All
  <2>6. TornEnded'
    <3> SUFFICES ASSUME NEW i \in DOMAIN file', file'[i].kind = "torn"
                 PROVE  /\ i < Len(file') => file'[i + 1].kind = "newline"
                        /\ i < synced'
      BY DEF TornEnded
    <3>1. i \in DOMAIN file /\ file[i].kind = "torn"
      BY <1>3, <2>4
    <3>2. i < synced /\ (i < Len(file) => file[i + 1].kind = "newline")
      BY <3>1 DEF TornEnded
    <3>3. i + 1 \in 1 .. Len(file) /\ i < Len(file) /\ i < synced'
      BY <1>1, <2>2, <3>1, <3>2
    <3>4. file'[i + 1] = file[i + 1]
      BY <2>1, <3>3
    <3> QED BY <3>2, <3>3, <3>4
  <2> QED BY <1>1, <1>5, <1>7, <2>1, <2>5, <2>6
<1> QED BY <1>4, <1>6, <1>7

(* A crash keeps what was synced, and tears at most the last line. *)
LEMMA LeftoversCarry ==
  ASSUME JTyped, TornEnded, phase # "down", NEW c, NEW g,
         g \in Leftovers(file) \/ (c \in JLines /\ g \in Leftovers(Append(file, c)))
  PROVE  /\ Carries(g, Len(g), c)
         /\ g \in Leftovers(file) => Carries(g, Len(g), NoRecord)
         /\ \A i \in DOMAIN g : g[i].kind = "torn" =>
              (i < Len(g) => g[i + 1].kind = "newline")
<1> DEFINE All == JLines \cup {Torn, Newline}
<1>1. /\ Len(file) \in Nat /\ DOMAIN file = 1 .. Len(file) /\ synced \in Nat /\ synced =< Len(file)
  BY FileIs
<1>2. file \in Seq(All) /\ (c \in JLines => c \in All) /\ Torn \in All
  BY DEF JTyped
<1>3. Torn.kind = "torn"
  BY DEF Torn
<1> HIDE DEF All
<1>4. ASSUME NEW f, NEW limit \in Nat, f \in Seq(All), limit >= Len(file), Len(f) = limit,
             limit =< Len(file) + 1, \A i \in 1 .. Len(file) : f[i] = file[i],
             limit = Len(file) + 1 => f[limit] = c, g \in Leftovers(f)
      PROVE  /\ g \in Seq(All) /\ Len(g) \in Nat /\ DOMAIN g = 1 .. Len(g) /\ synced =< Len(g)
             /\ \A i \in 1 .. synced : g[i] = file[i]
             /\ \A i \in DOMAIN g :
                  \/ i =< limit /\ g[i] = f[i]
                  \/ g[i] = Torn /\ i = Len(g)
             /\ Len(g) =< limit
  <2>1. \/ \E n \in synced .. limit : g = SubSeq(f, 1, n)
        \/ \E n \in synced .. (limit - 1) : g = Append(SubSeq(f, 1, n), Torn)
    BY <1>4 DEF Leftovers
  <2>2. ASSUME NEW n \in synced .. limit
        PROVE  /\ SubSeq(f, 1, n) \in Seq(All) /\ Len(SubSeq(f, 1, n)) = n /\ n \in Nat
               /\ \A i \in 1 .. n : SubSeq(f, 1, n)[i] = f[i]
    <3>1. n \in Nat /\ n =< Len(f) /\ synced =< n
      BY <1>1, <1>4, <2>2
    <3>2. \A i \in 1 .. n : i \in 1 .. Len(f)
      BY <1>4, <3>1
    <3>3. SubSeq(f, 1, n) = [i \in 1 .. n |-> f[i]]
      BY <1>4, <3>1
    <3>4. \A i \in 1 .. n : f[i] \in All
      BY <1>4, <3>2
    <3>5. [i \in 1 .. n |-> f[i]] \in [1 .. n -> All]
      BY <3>4
    <3> QED BY <3>1, <3>3, <3>5
  <2>3. CASE \E n \in synced .. limit : g = SubSeq(f, 1, n)
    <3>1. PICK n \in synced .. limit : g = SubSeq(f, 1, n)
      BY <2>3
    <3>2. /\ g \in Seq(All) /\ Len(g) = n /\ n \in Nat /\ \A i \in 1 .. n : g[i] = f[i]
      BY <2>2, <3>1
    <3>3. DOMAIN g = 1 .. n /\ synced =< n /\ n =< limit
      BY <1>1, <1>4, <3>1, <3>2
    <3>4. \A i \in 1 .. synced : g[i] = file[i]
      BY <1>1, <1>4, <3>2, <3>3
    <3>5. \A i \in DOMAIN g : i =< limit /\ g[i] = f[i]
      BY <1>4, <3>2, <3>3
    <3> QED BY <3>2, <3>3, <3>4, <3>5
  <2>4. CASE \E n \in synced .. (limit - 1) : g = Append(SubSeq(f, 1, n), Torn)
    <3>1. PICK n \in synced .. (limit - 1) : g = Append(SubSeq(f, 1, n), Torn)
      BY <2>4
    <3>2. PICK h : h = SubSeq(f, 1, n)
      OBVIOUS
    <3>a. n \in synced .. limit
      BY <1>1, <1>4, <3>1
    <3>3. /\ h \in Seq(All) /\ Len(h) = n /\ n \in Nat /\ \A i \in 1 .. n : h[i] = f[i]
      BY <2>2, <3>a, <3>2
    <3>4. /\ g = Append(h, Torn) /\ g \in Seq(All) /\ Len(g) = n + 1 /\ DOMAIN g = 1 .. n + 1
          /\ g[n + 1] = Torn /\ \A i \in 1 .. n : g[i] = h[i]
      BY <1>2, <3>1, <3>2, <3>3
    <3>5. synced =< n /\ n + 1 =< limit
      BY <1>1, <1>4, <3>1, <3>3
    <3>6. \A i \in 1 .. synced : g[i] = file[i]
      BY <1>1, <1>4, <3>3, <3>4, <3>5
    <3>7. \A i \in DOMAIN g : (i =< limit /\ g[i] = f[i]) \/ (g[i] = Torn /\ i = Len(g))
      BY <1>4, <3>3, <3>4, <3>5
    <3> QED BY <1>1, <3>3, <3>4, <3>5, <3>6, <3>7
  <2> QED BY <2>1, <2>3, <2>4
<1>5. c \in JLines =>
      /\ Append(file, c) \in Seq(All) /\ Len(Append(file, c)) = Len(file) + 1
      /\ \A i \in 1 .. Len(file) : Append(file, c)[i] = file[i]
      /\ Append(file, c)[Len(file) + 1] = c
  BY <1>1, <1>2
<1>6. ASSUME NEW f, NEW limit \in Nat, f \in Seq(All), limit >= Len(file), Len(f) = limit,
             limit =< Len(file) + 1, \A i \in 1 .. Len(file) : f[i] = file[i],
             limit = Len(file) + 1 => f[limit] = c, g \in Leftovers(f), NEW d,
             limit = Len(file) + 1 => d = c /\ c.kind \in {"retained", "closure"}
      PROVE  /\ Carries(g, Len(g), d)
             /\ \A i \in DOMAIN g : g[i].kind = "torn" =>
                  (i < Len(g) => g[i + 1].kind = "newline")
  <2>1. /\ g \in Seq(All) /\ Len(g) \in Nat /\ DOMAIN g = 1 .. Len(g) /\ synced =< Len(g)
        /\ \A i \in 1 .. synced : g[i] = file[i]
        /\ \A i \in DOMAIN g :
             \/ i =< limit /\ g[i] = f[i]
             \/ g[i] = Torn /\ i = Len(g)
        /\ Len(g) =< limit
    BY <1>4, <1>6
  <2>2. ASSUME NEW i \in DOMAIN g
        PROVE  \/ i \in DOMAIN file /\ g[i] = file[i]
               \/ i = Len(file) + 1 /\ g[i] = c /\ limit = Len(file) + 1
               \/ g[i] = Torn /\ i = Len(g)
    <3>1. i \in Nat /\ i > 0 /\ i =< Len(g)
      BY <2>1
    <3>2. CASE i =< Len(file)
      BY <1>1, <1>6, <2>1, <3>1, <3>2
    <3>3. CASE ~(i =< Len(file))
      <4>1. i = Len(file) + 1 /\ limit = Len(file) + 1
        BY <1>1, <1>6, <2>1, <3>1, <3>3
      <4> QED BY <1>6, <2>1, <4>1
    <3> QED BY <3>2, <3>3
  <2>3. \A i \in DOMAIN g : g[i].kind \in {"retained", "closure"} =>
          (i \in DOMAIN file /\ g[i] = file[i]) \/ (i = Len(file) + 1 /\ g[i] = d)
    BY <1>3, <1>6, <2>2
  <2>4. Len(g) \in 0 .. Len(g)
    BY <2>1
  <2>5. Carries(g, Len(g), d)
    BY <2>1, <2>3, <2>4 DEF Carries, All
  <2>6. ASSUME NEW i \in DOMAIN g, g[i].kind = "torn", i < Len(g) PROVE g[i + 1].kind = "newline"
    <3>1. i \in DOMAIN file /\ g[i] = file[i]
      BY <1>3, <1>6, <2>1, <2>2, <2>6
    <3>2. i < synced /\ (i < Len(file) => file[i + 1].kind = "newline")
      BY <2>6, <3>1 DEF TornEnded
    <3>3. i + 1 \in 1 .. synced /\ i < Len(file)
      BY <1>1, <3>1, <3>2
    <3> QED BY <2>1, <3>2, <3>3
  <2> QED BY <2>5, <2>6
<1>7. CASE g \in Leftovers(file)
  <2>1. Len(file) >= Len(file) /\ Len(file) =< Len(file) + 1 /\ Len(file) # Len(file) + 1
    <3>1. PICK n \in Nat : n = Len(file)
      BY <1>1
    <3> QED BY <3>1
  <2>2. Carries(g, Len(g), c)
    BY <1>1, <1>2, <1>6, <1>7, <2>1
  <2>3. /\ Carries(g, Len(g), NoRecord)
        /\ \A i \in DOMAIN g : g[i].kind = "torn" => (i < Len(g) => g[i + 1].kind = "newline")
    BY <1>1, <1>2, <1>6, <1>7, <2>1
  <2> QED BY <2>2, <2>3
<1>8. CASE g \notin Leftovers(file)
  <2>1. PICK n \in Nat : n = Len(file) + 1
    BY <1>1
  <2>2. n >= Len(file) /\ n =< Len(file) + 1
    BY <1>1, <2>1
  <2>3. c.kind \in {"retained", "closure"}
    BY <1>8 DEF JLines
  <2> QED BY <1>5, <1>6, <1>8, <2>1, <2>2, <2>3
<1> QED BY <1>7, <1>8

(* The next open ends a torn last line. *)
LEMMA OpenCarries ==
  ASSUME JTyped, TornEnded, open
  PROVE  Carries(file', synced', NoRecord) /\ TornEnded' /\ synced' = Len(file')
         /\ MayWrite(NoRecord) /\ WasWritten(NoRecord)
<1> DEFINE All == JLines \cup {Torn, Newline}
<1>1. /\ Len(file) \in Nat /\ DOMAIN file = 1 .. Len(file) /\ synced \in Nat /\ synced = Len(file)
  BY FileIs DEF JTyped, open
<1>2. file \in Seq(All) /\ Newline \in All
  BY DEF JTyped
<1>3. Newline.kind = "newline" /\ NoRecord.kind = "none"
  BY DEF Newline, NoRecord
<1>4. synced' = Len(file')
  BY DEF open
<1>5. MayWrite(NoRecord) /\ WasWritten(NoRecord)
  BY <1>3 DEF MayWrite, WasWritten
<1> HIDE DEF All
<1>6. CASE file # <<>> /\ Last(file).kind = "torn"
  <2>1. file' = Append(file, Newline)
    BY <1>6 DEF open
  <2>2. /\ file' \in Seq(All) /\ Len(file') = Len(file) + 1 /\ DOMAIN file' = 1 .. Len(file) + 1
        /\ \A i \in 1 .. Len(file) : file'[i] = file[i]
        /\ file'[Len(file) + 1] = Newline
    BY <1>2, <2>1
  <2>3. synced' \in 0 .. Len(file') /\ synced =< synced'
    BY <1>1, <1>4, <2>2
  <2>4. \A i \in DOMAIN file' : (i \in DOMAIN file /\ file'[i] = file[i])
                                \/ (i = Len(file) + 1 /\ file'[i].kind = "newline")
    BY <1>1, <1>3, <2>2
  <2>5. Carries(file', synced', NoRecord)
    BY <1>1, <2>2, <2>3, <2>4 DEF Carries, All
  <2>6. TornEnded'
    <3> SUFFICES ASSUME NEW i \in DOMAIN file', file'[i].kind = "torn"
                 PROVE  /\ i < Len(file') => file'[i + 1].kind = "newline"
                        /\ i < synced'
      BY DEF TornEnded
    <3>1. i \in DOMAIN file /\ file[i].kind = "torn"
      BY <2>4
    <3>2. i < Len(file) => file[i + 1].kind = "newline"
      BY <3>1 DEF TornEnded
    <3>3. CASE i < Len(file)
      <4>1. i + 1 \in 1 .. Len(file) /\ i < synced'
        BY <1>1, <1>4, <2>2, <3>1, <3>3
      <4> QED BY <2>2, <3>2, <3>3, <4>1
    <3>4. CASE i = Len(file)
      BY <1>1, <1>3, <1>4, <2>2, <3>4
    <3> QED BY <1>1, <3>1, <3>3, <3>4
  <2> QED BY <1>4, <1>5, <2>5, <2>6
<1>7. CASE ~(file # <<>> /\ Last(file).kind = "torn")
  <2>1. file' = file
    BY <1>7 DEF open
  <2>2. synced' = synced
    BY <1>1, <1>4, <2>1
  <2>3. TornEnded'
    <3> SUFFICES ASSUME NEW i \in DOMAIN file, file[i].kind = "torn"
                 PROVE  /\ i < Len(file) => file[i + 1].kind = "newline"
                        /\ i < Len(file)
      BY <1>4, <2>1 DEF TornEnded
    <3>1. i < Len(file) => file[i + 1].kind = "newline"
      BY DEF TornEnded
    <3>2. i # Len(file)
      <4>1. file # <<>>
        BY <1>1
      <4>2. Last(file) = file[Len(file)]
        BY DEF Last
      <4> QED BY <1>7, <4>1, <4>2
    <3> QED BY <1>1, <3>1, <3>2
  <2> QED BY <1>4, <1>5, <2>1, <2>2, <2>3, StillCarries
<1> QED BY <1>6, <1>7

-----------------------------------------------------------------------------
(* What a step leaves of each part. *)
LEMMA GoneKept ==
  ASSUME JTyped, NEW c, Carries(file', synced', c), MayWrite(c), Steady,
         \A k \in Calls : Gone(k) => k \notin held' \cup listed'
  PROVE  \A k \in Calls : Gone(k) => Gone(k)'
<1> SUFFICES ASSUME NEW k \in Calls, Gone(k) PROVE Gone(k)'
  OBVIOUS
<1>1. told[k] # "" /\ told'[k] # "" /\ k \notin held' \cup listed'
  BY DEF Gone, Steady
<1>2. ~IsNew(c, "retained", k)
  BY <1>1 DEF IsNew, MayWrite, InFlight
<1> QED BY <1>1, <1>2, GoneStays

(* A step of a process that serves, but a dispatch. *)
LEMMA Running ==
  ASSUME JTyped, Idle, LinesSay, IdsApart, phase = "serving", phase' = "serving", starts' = starts, id' = id,
         next_reservation_id' = next_reservation_id, InFlight' \subseteq InFlight,
         NEW c, Carries(file', synced', c), MayWrite(c), WasWritten(c), Steady
  PROVE  LinesSay' /\ IdsApart'
<1>a. starts \in Nat
  BY DEF JTyped
<1>1. starts' \in Nat /\ starts' >= starts
  BY <1>a
<1>2. LinesSay'
  BY <1>1, LinesCarry
<1>3. Live
  BY DEF Live
<1>4. IdsApart'
  BY <1>3, ApartCarry, AheadCarry DEF IdsApart
<1> QED BY <1>2, <1>4

(* A step that leaves the books as they are and answers from them. *)
LEMMA AnswersRun ==
  ASSUME JTyped, BooksStand, AnswersKept, phase = "serving", phase' = "serving", starts' = starts, books' = books,
         NEW c, Carries(file', synced', c), c.kind = "closure" => books[c.op] = NoRecord,
         \A k \in Calls : begun'[k] # "astray" => begun[k] # "astray",
         \A op \in Ops : answers'[op].is = "ok" =>
           \/ answers[op].is = "ok" /\ answers'[op].record = answers[op].record
           \/ books[op] # NoRecord /\ answers'[op].record = books[op]
  PROVE  BooksStand' /\ AnswersKept'
<1>1. \A op \in Ops : books[op] # NoRecord => books[op].call \in Calls
  BY RecordsAre
<1>2. \A op \in Ops : answers[op].is = "ok" => answers[op].record.call \in Calls
  BY RecordsAre
<1>3. BooksStand'
  <2> SUFFICES ASSUME NEW op \in Ops, Counts(books[op])', books[op].start = starts
               PROVE  IsLast(file', synced', op, books[op])
    BY DEF BooksStand
  <2>1. books[op] # NoRecord /\ Counts(books[op])
    BY <1>1 DEF Counts
  <2>2. IsLast(file, synced, op, books[op])
    BY <2>1 DEF BooksStand
  <2> QED BY <2>1, <2>2, Carried
<1>4. AnswersKept'
  <2> SUFFICES ASSUME NEW op \in Ops, answers'[op].is = "ok", Counts(answers[op].record)',
                      starts =< answers'[op].record.start + 1
               PROVE  books[op] = answers'[op].record
    BY DEF AnswersKept
  <2>1. CASE books[op] # NoRecord /\ answers'[op].record = books[op]
    BY <2>1
  <2>2. CASE answers[op].is = "ok" /\ answers'[op].record = answers[op].record
    <3>1. Counts(answers[op].record)
      BY <1>2, <2>2 DEF Counts
    <3> QED BY <2>2, <3>1 DEF AnswersKept, Live
  <2> QED BY <2>1, <2>2
<1> QED BY <1>3, <1>4

(* A step that puts no other evidence on record. *)
LEMMA EvidenceRun ==
  ASSUME OneEvidence, rows' = rows,
         \A k \in Calls : begun'[k] \notin {"astray", "unsynced"} =>
           begun[k] \notin {"astray", "unsynced"} /\ \A e : Traced(k, e)' => Traced(k, e)
  PROVE  OneEvidence'
BY DEF OneEvidence

(* What history makes of a closure begun. *)
LEMMA BeginIs ==
  ASSUME JTyped, NEW k \in Calls, NEW what \in {"", "begun", "unsynced", "astray"}, Begin(k, what)
  PROVE  /\ begun' \in [Calls -> {"", "begun", "unsynced", "astray"}]
         /\ \A l \in Calls : l # k => begun'[l] = begun[l]
         /\ \A l \in Calls : /\ begun[l] # "" => begun'[l] # ""
                             /\ begun'[l] # "astray" => begun[l] # "astray"
                             /\ begun'[l] # "unsynced" /\ begun'[l] # "astray" => begun[l] # "unsynced"
         /\ what # "" => begun'[k] # ""
         /\ what = "astray" => begun'[k] = "astray"
         /\ what = "unsynced" => begun'[k] \in {"unsynced", "astray"}
         /\ what = "" => begun' = begun
<1>1. begun \in [Calls -> {"", "begun", "unsynced", "astray"}]
  BY DEF JTyped
<1>2. begun' = [begun EXCEPT ![k] =
                  CASE begun[k] = "astray" \/ what = "" -> begun[k]
                    [] begun[k] = "unsynced" /\ what = "begun" -> begun[k]
                    [] OTHER -> what]
  BY DEF Begin
<1>3. CASE begun[k] = "astray" \/ what = ""
  <2>1. begun' = [begun EXCEPT ![k] = begun[k]]
    BY <1>2, <1>3
  <2>2. begun' = begun
    BY <1>1, <2>1
  <2> QED BY <1>1, <1>3, <2>2
<1>4. CASE ~(begun[k] = "astray" \/ what = "") /\ begun[k] = "unsynced" /\ what = "begun"
  <2>1. begun' = [begun EXCEPT ![k] = begun[k]]
    BY <1>2, <1>4
  <2>2. begun' = begun
    BY <1>1, <2>1
  <2> QED BY <1>1, <1>4, <2>2
<1>5. CASE ~(begun[k] = "astray" \/ what = "") /\ ~(begun[k] = "unsynced" /\ what = "begun")
  <2>1. begun' = [begun EXCEPT ![k] = what]
    BY <1>2, <1>5
  <2>2. begun' \in [Calls -> {"", "begun", "unsynced", "astray"}] /\ begun'[k] = what
        /\ \A l \in Calls : l # k => begun'[l] = begun[l]
    BY <1>1, <2>1
  <2> QED BY <1>5, <2>2
<1> QED BY <1>3, <1>4, <1>5

(* A step that neither takes nor answers a closure. *)
LEMMA Bystander ==
  ASSUME JTyped, Closing, OneEvidence, DoorStands, BooksStand, AnswersKept,
         phase = "serving", phase' = "serving", starts' = starts, books' = books, rows' = rows,
         door' = door, NEW c, Carries(file', synced', c), MayWrite(c), Steady,
         c.kind = "closure" => /\ door = NoRecord /\ books[c.op] = NoRecord
                               /\ begun'[c.call] \in {"astray", "unsynced"},
         \A k \in Calls : /\ begun'[k] # "astray" => begun[k] # "astray"
                          /\ begun'[k] \notin {"astray", "unsynced"} => begun[k] # "unsynced",
         \A op \in Ops : answers'[op].is = "ok" =>
           \/ answers[op].is = "ok" /\ answers'[op].record = answers[op].record
           \/ books[op] # NoRecord /\ answers'[op].record = books[op],
         \A k \in Calls : Gone(k) => k \notin held' \cup listed'
  PROVE  Closing' /\ OneEvidence' /\ DoorStands' /\ BooksStand' /\ AnswersKept'
<1>1. \A k \in Calls : Gone(k) => Gone(k)'
  BY GoneKept
<1>2. BooksStand' /\ AnswersKept'
  BY AnswersRun
<1>3. /\ \A k : ClosedBy(file, synced, k) => ClosedBy(file', synced', k)
      /\ \A k : ClosedBy(file', Len(file'), k) => ClosedBy(file, Len(file), k) \/ IsNew(c, "closure", k)
  BY Carried
<1>4. \A i \in DOMAIN file' : file'[i].kind = "closure" =>
        (i \in DOMAIN file /\ file'[i] = file[i]) \/ (i = Len(file) + 1 /\ file'[i] = c)
  BY DEF Carries
<1>5. DoorStands'
  <2> SUFFICES ASSUME Counts(door)'
               PROVE  books[door.op] = NoRecord
                      /\ IsLast(file', synced', door.op, [door EXCEPT !.kind = "closure"])
    BY DEF DoorStands
  <2>1. door # NoRecord /\ door.call \in Calls
    BY RecordsAre DEF Counts
  <2>2. Counts(door)
    BY <2>1 DEF Counts
  <2>3. books[door.op] = NoRecord /\ IsLast(file, synced, door.op, [door EXCEPT !.kind = "closure"])
    BY <2>2 DEF DoorStands
  <2>4. ~(c.kind = "closure" /\ c.op = door.op)
    BY <2>1
  <2> QED BY <2>3, <2>4, Carried
<1>6. OneEvidence'
  <2>1. ASSUME NEW k \in Calls, begun'[k] \notin {"astray", "unsynced"}, NEW e, Traced(k, e)'
        PROVE  Traced(k, e)
    <3>1. CASE \E i \in DOMAIN file' : IsLine(file', i, "closure", k) /\ file'[i].evidence = e
      <4>1. PICK i \in DOMAIN file' : IsLine(file', i, "closure", k) /\ file'[i].evidence = e
        BY <3>1
      <4>2. file'[i] # c
        BY <2>1, <4>1 DEF IsLine
      <4>3. i \in DOMAIN file /\ file'[i] = file[i]
        BY <1>4, <4>1, <4>2 DEF IsLine
      <4> QED BY <4>1, <4>3 DEF Traced, IsLine
    <3>2. CASE door # NoRecord /\ door.call = k /\ door.evidence = e
      BY <3>2 DEF Traced
    <3>3. CASE \E op \in Ops : books[op] # NoRecord /\ books[op].call = k /\ books[op].evidence = e
      BY <3>3 DEF Traced
    <3>4. CASE \E op \in Ops : /\ answers'[op].is = "ok" /\ answers'[op].record.call = k
                               /\ answers'[op].record.evidence = e
      BY <3>4 DEF Traced
    <3> QED BY <2>1, <3>1, <3>2, <3>3, <3>4 DEF Traced
  <2> QED BY <2>1, EvidenceRun
<1>7. Closing'
  <2> SUFFICES ASSUME NEW k \in Calls, begun'[k] # "astray"
               PROVE  /\ \A op \in Ops : books[op] # NoRecord /\ books[op].call = k => Gone(k)'
                      /\ \A op \in Ops : answers'[op].is = "ok" /\ answers'[op].record.call = k => Gone(k)'
                      /\ rows[k] # 0 => rows[k] = 1 /\ Gone(k)' /\ (InDoorNow(k) => door.kind = "recorded")
                      /\ InDoorNow(k) => ClosedBy(file', synced', k) /\ (door.kind # "appended" => Gone(k)')
                      /\ begun'[k] # "unsynced" /\ ClosedBy(file', Len(file'), k) => Gone(k)' \/ InDoorNow(k)
    BY DEF Closing, InDoorNow
  <2>0. begun[k] # "astray"
    OBVIOUS
  <2>1. \A op \in Ops : books[op] # NoRecord /\ books[op].call = k => Gone(k)'
    BY <1>1, <2>0 DEF Closing
  <2>2. \A op \in Ops : answers'[op].is = "ok" /\ answers'[op].record.call = k => Gone(k)'
    BY <1>1, <2>0, <2>1 DEF Closing
  <2>3. rows[k] # 0 => rows[k] = 1 /\ Gone(k)' /\ (InDoorNow(k) => door.kind = "recorded")
    BY <1>1, <2>0 DEF Closing
  <2>4. InDoorNow(k) => ClosedBy(file', synced', k) /\ (door.kind # "appended" => Gone(k)')
    BY <1>1, <1>3, <2>0 DEF Closing
  <2>5. begun'[k] # "unsynced" /\ ClosedBy(file', Len(file'), k) => Gone(k)' \/ InDoorNow(k)
    BY <1>1, <1>3, <2>0 DEF Closing, IsNew
  <2> QED BY <2>1, <2>2, <2>3, <2>4, <2>5
<1> QED BY <1>2, <1>5, <1>6, <1>7

(* A settled call leaves the ledgers; nobody had journaled it. *)
LEMMA SettleHeldKeeps ==
  ASSUME JInv, NEW k \in Calls, SettleHeld(k)
  PROVE  JInv'
<1> USE DEF JInv
<1>1. /\ file' = file /\ synced' = synced /\ phase = "serving" /\ phase' = "serving" /\ starts' = starts
      /\ id' = id /\ next_reservation_id' = next_reservation_id /\ books' = books /\ rows' = rows
      /\ door' = door /\ answers' = answers /\ told' = told /\ begun' = begun /\ linked' = linked
      /\ held' = held \ {k} /\ listed' = listed /\ k \in InFlight
  BY DEF SettleHeld
<1>2. Carries(file', synced', NoRecord) /\ MayWrite(NoRecord) /\ WasWritten(NoRecord) /\ NoRecord.kind = "none"
  BY <1>1, StillCarries DEF NoRecord
<1>3. Steady /\ InFlight' \subseteq InFlight
  BY <1>1 DEF Steady, InFlight
<1>4. JTyped'
  BY <1>1 DEF JTyped, IsClosure, IsDoor
<1>5. Idle'
  BY <1>1 DEF Idle, InFlight
<1>6. LinesSay' /\ IdsApart'
  BY <1>1, <1>2, <1>3, Running
<1>7. TornEnded'
  BY <1>1 DEF TornEnded
<1>8. WordKept'
  BY <1>1 DEF WordKept, InFlight, Live
<1>9. \A l \in Calls : Gone(l) => l \notin held' \cup listed'
  BY <1>1 DEF Gone
<1>10. Closing' /\ OneEvidence' /\ DoorStands' /\ BooksStand' /\ AnswersKept'
  <2>1. /\ \A l \in Calls : /\ begun'[l] # "astray" => begun[l] # "astray"
                            /\ begun'[l] \notin {"astray", "unsynced"} => begun[l] # "unsynced"
        /\ \A op \in Ops : answers'[op].is = "ok" =>
             \/ answers[op].is = "ok" /\ answers'[op].record = answers[op].record
             \/ books[op] # NoRecord /\ answers'[op].record = books[op]
        /\ NoRecord.kind # "closure"
    BY <1>1, <1>2
  <2> QED BY <1>1, <1>2, <1>3, <1>9, <2>1, Bystander
<1> QED BY <1>4, <1>5, <1>6, <1>7, <1>8, <1>10

(* The books' answer is the answer that counts. *)
LEMMA ReplayedKeeps ==
  ASSUME JInv, NEW o \in Ops, Replayed(o)
  PROVE  JInv'
<1> USE DEF JInv
<1>1. /\ file' = file /\ synced' = synced /\ phase = "serving" /\ phase' = "serving" /\ starts' = starts
      /\ id' = id /\ next_reservation_id' = next_reservation_id /\ books' = books /\ rows' = rows
      /\ door' = door /\ told' = told /\ begun' = begun /\ linked' = linked
      /\ held' = held /\ listed' = listed /\ books[o] # NoRecord
      /\ answers' = [answers EXCEPT ![o] = [is |-> "ok", record |-> books[o]]]
  BY DEF Replayed, Answer
<1>2. Carries(file', synced', NoRecord) /\ MayWrite(NoRecord) /\ WasWritten(NoRecord) /\ NoRecord.kind = "none"
  BY <1>1, StillCarries DEF NoRecord
<1>3. Steady /\ InFlight' \subseteq InFlight
  BY <1>1 DEF Steady, InFlight
<1>a. /\ DOMAIN answers = Ops /\ DOMAIN answers' = Ops
      /\ answers'[o].is = "ok" /\ answers'[o].record = books[o]
      /\ \A op \in Ops : op # o => answers'[op] = answers[op]
  <2>1. DOMAIN answers = Ops
    BY DEF JTyped
  <2> QED BY <1>1, <2>1
<1>4. JTyped'
  <2>1. \A op \in Ops : answers'[op].is = "ok" =>
          IsClosure(answers'[op].record) /\ answers'[op].record.op = op
    BY <1>1, <1>a DEF JTyped
  <2> QED BY <1>1, <1>a, <2>1 DEF JTyped, IsClosure, IsDoor
<1>5. Idle'
  BY <1>1 DEF Idle, InFlight
<1>6. LinesSay' /\ IdsApart'
  BY <1>1, <1>2, <1>3, Running
<1>7. TornEnded'
  BY <1>1 DEF TornEnded
<1>8. WordKept'
  BY <1>1 DEF WordKept, Live
<1>9. \A l \in Calls : Gone(l) => l \notin held' \cup listed'
  BY <1>1 DEF Gone
<1>10. Closing' /\ OneEvidence' /\ DoorStands' /\ BooksStand' /\ AnswersKept'
  <2>1. /\ \A l \in Calls : /\ begun'[l] # "astray" => begun[l] # "astray"
                            /\ begun'[l] \notin {"astray", "unsynced"} => begun[l] # "unsynced"
        /\ \A op \in Ops : answers'[op].is = "ok" =>
             \/ answers[op].is = "ok" /\ answers'[op].record = answers[op].record
             \/ books[op] # NoRecord /\ answers'[op].record = books[op]
        /\ NoRecord.kind # "closure"
    BY <1>1, <1>2, <1>a
  <2> QED BY <1>1, <1>2, <1>3, <1>9, <2>1, Bystander
<1> QED BY <1>4, <1>5, <1>6, <1>7, <1>8, <1>10

(* A new call's id is above every id that is not closed for good. *)
LEMMA DispatchKeeps ==
  ASSUME JInv, NEW k \in Calls, Dispatch(k)
  PROVE  JInv'
<1> USE DEF JInv
<1>0. id \in [Calls -> Nat] /\ next_reservation_id \in Nat
  BY DEF JTyped
<1>1. /\ file' = file /\ synced' = synced /\ phase = "serving" /\ phase' = "serving" /\ starts' = starts
      /\ books' = books /\ rows' = rows
      /\ door' = door /\ answers' = answers /\ told' = told /\ begun' = begun /\ linked' = linked
      /\ held' = held \cup {k} /\ listed' = listed /\ id[k] = 0
      /\ next_reservation_id' = next_reservation_id + 1
      /\ id' = [id EXCEPT ![k] = next_reservation_id + 1]
  BY DEF Dispatch
<1>b. /\ id' \in [Calls -> Nat] /\ id'[k] = next_reservation_id + 1 /\ id'[k] # 0
      /\ \A l \in Calls : l # k => id'[l] = id[l]
      /\ next_reservation_id' \in Nat /\ told[k] = ""
  <2>1. told[k] = ""
    BY <1>1 DEF Idle
  <2>2. PICK n \in Nat : n = next_reservation_id + 1 /\ n # 0
    BY <1>0
  <2>3. id' = [id EXCEPT ![k] = n] /\ next_reservation_id' = n
    BY <1>1, <2>2
  <2>4. id' \in [Calls -> Nat] /\ id'[k] = n /\ \A l \in Calls : l # k => id'[l] = id[l]
    BY <1>0, <2>3
  <2> QED BY <2>1, <2>2, <2>3, <2>4
<1>2. Carries(file', synced', NoRecord) /\ MayWrite(NoRecord) /\ WasWritten(NoRecord) /\ NoRecord.kind = "none"
  BY <1>1, StillCarries DEF NoRecord
<1>3. Steady
  BY <1>1, <1>b DEF Steady
<1>4. JTyped'
  BY <1>1, <1>b DEF JTyped, IsClosure, IsDoor
<1>5. Idle'
  BY <1>1, <1>b DEF Idle, InFlight
<1>6. LinesSay'
  <2>a. starts \in Nat
    BY DEF JTyped
  <2>1. starts' \in Nat /\ starts' >= starts /\ phase' \notin {"opened", "replayed"}
    BY <1>1, <2>a
  <2> QED BY <1>2, <1>3, <2>1, LinesCarry
<1>c. IdsApart'
  <2>1. \A i \in DOMAIN file : file[i].kind = "retained" => file[i].id \in Nat
    BY FileIs
  <2>2. \A i \in DOMAIN file : file[i].kind = "retained" =>
          file[i].id =< next_reservation_id \/ ClosedBy(file, synced, file[i].call)
    BY <1>1 DEF IdsApart, Live
  <2>3. \A i \in DOMAIN file : file[i].kind = "retained" =>
          /\ file[i].id =< next_reservation_id' \/ ClosedBy(file, synced, file[i].call)
          /\ file[i].id = next_reservation_id + 1 => ClosedBy(file, synced, file[i].call)
    <3> SUFFICES ASSUME NEW i \in DOMAIN file, file[i].kind = "retained"
                 PROVE  /\ file[i].id =< next_reservation_id' \/ ClosedBy(file, synced, file[i].call)
                        /\ file[i].id = next_reservation_id + 1 => ClosedBy(file, synced, file[i].call)
      OBVIOUS
    <3>1. PICK n \in Nat : n = file[i].id
      BY <2>1
    <3>2. n =< next_reservation_id => n =< next_reservation_id + 1 /\ n # next_reservation_id + 1
      BY <1>0
    <3> QED BY <1>1, <2>2, <3>1, <3>2
  <2>4. InFlight' \subseteq InFlight \cup {k}
    BY <1>1 DEF InFlight
  <2>5. \A l \in InFlight : l \in Calls /\ id[l] =< next_reservation_id /\ id[l] \in Nat
    <3>1. \A l \in InFlight : l \in Calls /\ id[l] =< next_reservation_id
      BY DEF IdsApart, InFlight, JTyped
    <3> QED BY <1>0, <3>1
  <2>6. ASSUME NEW l \in InFlight'
        PROVE  /\ id'[l] =< next_reservation_id'
               /\ \A m \in InFlight' : id'[l] = id'[m] => l = m
               /\ \A i \in DOMAIN file' : file'[i].kind = "retained" /\ file'[i].id = id'[l] =>
                    ClosedBy(file', synced', file'[i].call)
    <3>1. \A m \in InFlight' : m # k => /\ m \in InFlight /\ id'[m] = id[m]
                                        /\ id'[m] =< next_reservation_id /\ id'[m] \in Nat
      BY <1>b, <2>4, <2>5
    <3>2. \A m \in InFlight' : m # k => id'[m] # id'[k]
      <4> SUFFICES ASSUME NEW m \in InFlight', m # k PROVE id'[m] # id'[k]
        OBVIOUS
      <4>1. PICK n \in Nat : n = id'[m] /\ n =< next_reservation_id
        BY <3>1
      <4>2. n # next_reservation_id + 1
        BY <1>0, <4>1
      <4> QED BY <1>b, <4>1, <4>2
    <3>3. \A m \in InFlight' : id'[l] = id'[m] => l = m
      <4> SUFFICES ASSUME NEW m \in InFlight', id'[l] = id'[m], l # m PROVE FALSE
        OBVIOUS
      <4>1. l # k /\ m # k
        BY <3>2
      <4>2. l \in InFlight /\ m \in InFlight /\ id[l] = id[m]
        BY <3>1, <4>1
      <4> QED BY <4>2 DEF IdsApart
    <3>4. id'[l] =< next_reservation_id'
      <4>a. PICK h \in Nat : h = next_reservation_id'
        BY <1>b
      <4>b. h =< h
        OBVIOUS
      <4>1. CASE l = k
        BY <1>1, <1>b, <4>1, <4>a, <4>b
      <4>2. CASE l # k
        <5>1. PICK n \in Nat : n = id'[l] /\ n =< next_reservation_id
          BY <3>1, <4>2
        <5>2. n =< next_reservation_id + 1
          BY <1>0, <5>1
        <5> QED BY <1>1, <5>1, <5>2
      <4> QED BY <4>1, <4>2
    <3>5. \A i \in DOMAIN file' : file'[i].kind = "retained" /\ file'[i].id = id'[l] =>
            ClosedBy(file', synced', file'[i].call)
      <4>1. CASE l = k
        BY <1>1, <1>b, <2>3, <4>1
      <4>2. CASE l # k
        <5>1. l \in InFlight /\ id'[l] = id[l]
          BY <3>1, <4>2
        <5> QED BY <1>1, <5>1 DEF IdsApart
      <4> QED BY <4>1, <4>2
    <3> QED BY <3>3, <3>4, <3>5
  <2>7. \A i, j \in DOMAIN file' :
          /\ file'[i].kind = "retained" /\ file'[j].kind = "retained"
          /\ file'[i].id = file'[j].id /\ i # j
          => ClosedBy(file', synced', file'[i].call) \/ ClosedBy(file', synced', file'[j].call)
    BY <1>1 DEF IdsApart
  <2>8. \A i \in DOMAIN file' : file'[i].kind = "retained" =>
          file'[i].id =< next_reservation_id' \/ ClosedBy(file', synced', file'[i].call)
    BY <1>1, <2>3
  <2> QED BY <2>6, <2>7, <2>8 DEF IdsApart
<1>7. TornEnded'
  BY <1>1 DEF TornEnded
<1>8. WordKept'
  BY <1>1 DEF WordKept, Live
<1>9. \A l \in Calls : Gone(l) => l \notin held' \cup listed'
  BY <1>1, <1>b DEF Gone
<1>10. Closing' /\ OneEvidence' /\ DoorStands' /\ BooksStand' /\ AnswersKept'
  <2>1. /\ \A l \in Calls : /\ begun'[l] # "astray" => begun[l] # "astray"
                            /\ begun'[l] \notin {"astray", "unsynced"} => begun[l] # "unsynced"
        /\ \A op \in Ops : answers'[op].is = "ok" =>
             \/ answers[op].is = "ok" /\ answers'[op].record = answers[op].record
             \/ books[op] # NoRecord /\ answers'[op].record = books[op]
        /\ NoRecord.kind # "closure"
    BY <1>1, <1>2
  <2> QED BY <1>1, <1>2, <1>3, <1>9, <2>1, Bystander
<1> QED BY <1>4, <1>5, <1>6, <1>7, <1>8, <1>10, <1>c

(* A record in the journal is held; one that failed promises nothing. *)
LEMMA RetainKeeps ==
  ASSUME JInv, "part" \notin Faults, NEW k \in Calls, NEW outcome \in WriteOutcomes, retain(k, outcome)
  PROVE  JInv'
<1> USE DEF JInv
<1>0. outcome \in {"ok", "nothing", "unsynced"}
  BY JournalAssumption DEF WriteOutcomes
<1>1. /\ phase = "serving" /\ phase' = "serving" /\ starts' = starts
      /\ id' = id /\ next_reservation_id' = next_reservation_id /\ books' = books /\ rows' = rows
      /\ door' = door /\ answers' = answers /\ begun' = begun /\ linked' = linked
      /\ held' = held /\ k \in InFlight
      /\ append(Retained(k), outcome)
      /\ listed' = listed \/ listed' = listed \cup {k}
      /\ told' = [told EXCEPT ![k] = IF outcome # "ok" THEN "unwritten"
                                     ELSE IF linked THEN "journaled" ELSE "astray"]
  BY DEF retain
<1>a. /\ told \in [Calls -> {"", "journaled", "unwritten", "astray"}]
      /\ k \in held /\ told[k] = "" /\ id[k] # 0
  BY <1>1 DEF JTyped, InFlight, Idle
<1>b. /\ told' \in [Calls -> {"", "journaled", "unwritten", "astray"}] /\ told'[k] # ""
      /\ told'[k] = "journaled" => outcome = "ok" /\ linked
      /\ \A l \in Calls : l # k => told'[l] = told[l]
  BY <1>1, <1>a
<1>c. /\ Retained(k) \in JLines /\ Retained(k).kind = "retained" /\ Retained(k).call = k
      /\ Retained(k).id = id[k]
  BY LineIs
<1>2. Carries(file', synced', Retained(k)) /\ TornEnded'
  BY <1>0, <1>1, <1>c, AppendCarries
<1>d. MayWrite(Retained(k)) /\ WasWritten(Retained(k))
  BY <1>1, <1>a, <1>b, <1>c DEF MayWrite, WasWritten
<1>3. Steady /\ InFlight' \subseteq InFlight
  <2>1. held \subseteq Calls
    BY DEF JTyped
  <2>2. \A l \in held : told'[l] = "" => told[l] = ""
    BY <1>a, <1>b, <2>1
  <2>3. InFlight' \subseteq InFlight
    BY <1>1, <2>2 DEF InFlight
  <2>4. Steady
    BY <1>1, <1>b DEF Steady
  <2> QED BY <2>3, <2>4
<1>4. JTyped'
  <2>1. file' \in Seq(JLines \cup {Torn, Newline}) /\ synced' \in 0 .. Len(file')
    BY <1>2 DEF Carries
  <2>2. listed' \subseteq Calls
    BY <1>1 DEF JTyped
  <2> QED BY <1>1, <1>b, <2>1, <2>2 DEF JTyped, IsClosure, IsDoor
<1>5. Idle'
  BY <1>1, <1>a, <1>b DEF Idle, InFlight
<1>6. LinesSay' /\ IdsApart'
  BY <1>1, <1>2, <1>3, <1>d, Running
<1>8. WordKept'
  <2> SUFFICES ASSUME NEW l \in Calls, told'[l] = "journaled", begun'[l] = ""
               PROVE  IsKept(file', synced', l) /\ (Live' => l \in held')
    BY DEF WordKept
  <2>1. CASE l = k
    <3>1. /\ synced' = Len(file) + 1 /\ DOMAIN file' = 1 .. Len(file) + 1
          /\ file'[Len(file) + 1] = Retained(k)
      BY <1>0, <1>1, <1>b, <1>c, <2>1, AppendCarries
    <3>2. Len(file) + 1 \in 1 .. synced' /\ Len(file) + 1 \in DOMAIN file'
      BY <3>1, FileIs, LastOf
    <3>3. IsKept(file', synced', l)
      BY <1>c, <2>1, <3>1, <3>2 DEF IsKept, IsLine
    <3> QED BY <1>1, <1>a, <2>1, <3>3
  <2>2. CASE l # k
    <3>1. IsKept(file, synced, l) /\ (Live => l \in held)
      BY <1>1, <1>b, <2>2 DEF WordKept
    <3>2. IsKept(file', synced', l)
      BY <1>2, <3>1, Carried
    <3> QED BY <1>1, <3>1, <3>2 DEF Live
  <2> QED BY <2>1, <2>2
<1>9. \A l \in Calls : Gone(l) => l \notin held' \cup listed'
  BY <1>1, <1>a DEF Gone
<1>10. Closing' /\ OneEvidence' /\ DoorStands' /\ BooksStand' /\ AnswersKept'
  <2>1. /\ \A l \in Calls : /\ begun'[l] # "astray" => begun[l] # "astray"
                            /\ begun'[l] \notin {"astray", "unsynced"} => begun[l] # "unsynced"
        /\ \A op \in Ops : answers'[op].is = "ok" =>
             \/ answers[op].is = "ok" /\ answers'[op].record = answers[op].record
             \/ books[op] # NoRecord /\ answers'[op].record = books[op]
        /\ Retained(k).kind # "closure"
    BY <1>1, <1>c
  <2> QED BY <1>1, <1>2, <1>3, <1>9, <1>d, <2>1, Bystander
<1> QED BY <1>2, <1>4, <1>5, <1>6, <1>8, <1>10

(* A failed write changes nothing but, perhaps, the file. *)
LEMMA ClosureRefused ==
  ASSUME JInv, "part" \notin Faults, NEW o \in Ops, NEW k \in Calls, NEW evidence \in Kinds,
         NEW outcome \in WriteOutcomes, outcome # "ok", append_closure(o, k, evidence, outcome)
  PROVE  JInv'
<1> USE DEF JInv
<1> DEFINE c == Line("closure", k, o, evidence)
<1>0. outcome \in {"nothing", "unsynced"}
  BY JournalAssumption DEF WriteOutcomes
<1>1. /\ phase = "serving" /\ phase' = "serving" /\ starts' = starts
      /\ id' = id /\ next_reservation_id' = next_reservation_id /\ books' = books /\ rows' = rows
      /\ door' = door /\ door = NoRecord /\ told' = told /\ linked' = linked
      /\ held' = held /\ listed' = listed /\ k \in listed /\ books[o] = NoRecord
      /\ append(c, outcome)
      /\ Begin(k, IF linked /\ outcome = "unsynced" THEN "unsynced" ELSE "")
      /\ answers' = [answers EXCEPT ![o] = [is |-> "journal_write_failed", record |-> c]]
  BY DEF append_closure, Closable, Answer
<1>2. /\ c \in JLines /\ c \in Doing /\ c.kind = "closure" /\ c.call = k /\ c.id = id[k]
      /\ c.op = o /\ c.evidence = evidence /\ c.start = starts
  BY LineIs
<1> HIDE DEF c
<1>3. told[k] # "" /\ id[k] # 0
  BY <1>1 DEF Idle
<1>4. /\ begun' \in [Calls -> {"", "begun", "unsynced", "astray"}]
      /\ \A l \in Calls : l # k => begun'[l] = begun[l]
      /\ \A l \in Calls : /\ begun[l] # "" => begun'[l] # ""
                          /\ begun'[l] # "astray" => begun[l] # "astray"
                          /\ begun'[l] # "unsynced" /\ begun'[l] # "astray" => begun[l] # "unsynced"
      /\ linked /\ outcome = "unsynced" => begun'[k] \in {"unsynced", "astray"}
  BY <1>1, BeginIs
<1>5. /\ DOMAIN answers' = Ops /\ answers'[o].is # "ok"
      /\ \A op \in Ops : op # o => answers'[op] = answers[op]
  <2>1. DOMAIN answers = Ops
    BY DEF JTyped
  <2> QED BY <1>1, <2>1
<1>6. \E d : /\ Carries(file', synced', d) /\ MayWrite(d) /\ WasWritten(d)
             /\ d.kind = "closure" => /\ door = NoRecord /\ books[d.op] = NoRecord
                                      /\ begun'[d.call] \in {"astray", "unsynced"}
  <2>1. Carries(file', synced', c) /\ (file' = file \/ (linked /\ file' = Append(file, c)))
    BY <1>0, <1>1, <1>2, AppendCarries
  <2>2. synced' = synced
    BY <1>1 DEF append
  <2>3. CASE linked /\ outcome = "unsynced"
    <3>1. MayWrite(c)
      BY <1>2, <1>3 DEF MayWrite
    <3>2. WasWritten(c)
      BY <1>1, <1>2, <1>4, <2>3 DEF WasWritten
    <3> QED BY <1>1, <1>2, <1>4, <2>1, <2>3, <3>1, <3>2
  <2>4. CASE ~(linked /\ outcome = "unsynced")
    <3>1. file' = file
      BY <1>0, <1>1, <2>4 DEF append
    <3>2. NoRecord.kind # "closure"
      BY DEF NoRecord
    <3> QED BY <2>2, <3>1, <3>2, StillCarries
  <2> QED BY <2>3, <2>4
<1>7. PICK d : /\ Carries(file', synced', d) /\ MayWrite(d) /\ WasWritten(d)
               /\ d.kind = "closure" => /\ door = NoRecord /\ books[d.op] = NoRecord
                                        /\ begun'[d.call] \in {"astray", "unsynced"}
  BY <1>6
<1>8. TornEnded'
  BY <1>0, <1>1, <1>2, AppendCarries
<1>9. Steady /\ InFlight' \subseteq InFlight
  BY <1>1, <1>4 DEF Steady, InFlight
<1>10. JTyped'
  <2>1. file' \in Seq(JLines \cup {Torn, Newline}) /\ synced' \in 0 .. Len(file')
    BY <1>7 DEF Carries
  <2>2. \A op \in Ops : answers'[op].is = "ok" =>
          IsClosure(answers'[op].record) /\ answers'[op].record.op = op
    BY <1>5 DEF JTyped
  <2> QED BY <1>1, <1>4, <1>5, <2>1, <2>2 DEF JTyped, IsClosure, IsDoor
<1>11. Idle'
  BY <1>1, <1>3, <1>4, RecordsAre DEF Idle, InFlight
<1>12. LinesSay' /\ IdsApart'
  BY <1>1, <1>7, <1>9, Running
<1>13. WordKept'
  BY <1>1, <1>4, <1>7, Carried DEF WordKept, Live
<1>14. \A l \in Calls : Gone(l) => l \notin held' \cup listed'
  BY <1>1 DEF Gone
<1>15. Closing' /\ OneEvidence' /\ DoorStands' /\ BooksStand' /\ AnswersKept'
  <2>1. /\ \A l \in Calls : /\ begun'[l] # "astray" => begun[l] # "astray"
                            /\ begun'[l] \notin {"astray", "unsynced"} => begun[l] # "unsynced"
        /\ \A op \in Ops : answers'[op].is = "ok" =>
             \/ answers[op].is = "ok" /\ answers'[op].record = answers[op].record
             \/ books[op] # NoRecord /\ answers'[op].record = books[op]
    BY <1>4, <1>5
  <2> QED BY <1>1, <1>7, <1>9, <1>14, <2>1, Bystander
<1> QED BY <1>8, <1>10, <1>11, <1>12, <1>13, <1>15

(* What is listed has no closure on record, so this one is the first. *)
LEMMA ClosureBegun ==
  ASSUME JInv, NEW o \in Ops, NEW k \in Calls, NEW evidence \in Kinds,
         append_closure(o, k, evidence, "ok")
  PROVE  JInv'
<1> USE DEF JInv
<1> DEFINE c == Line("closure", k, o, evidence)
<1>1. /\ phase = "serving" /\ phase' = "serving" /\ starts' = starts
      /\ id' = id /\ next_reservation_id' = next_reservation_id /\ books' = books /\ rows' = rows
      /\ door' = [c EXCEPT !.kind = "appended"] /\ door = NoRecord /\ told' = told /\ linked' = linked
      /\ held' = held /\ listed' = listed /\ k \in listed /\ books[o] = NoRecord
      /\ append(c, "ok") /\ answers' = answers
      /\ Begin(k, IF linked THEN "begun" ELSE "astray")
  BY DEF append_closure, Closable
<1>2. /\ c \in JLines /\ c \in Doing /\ c.kind = "closure" /\ c.call = k /\ c.id = id[k]
      /\ c.op = o /\ c.evidence = evidence /\ c.start = starts
  BY LineIs
<1> HIDE DEF c
<1>3. told[k] # "" /\ id[k] # 0
  BY <1>1 DEF Idle
<1>4. /\ begun' \in [Calls -> {"", "begun", "unsynced", "astray"}]
      /\ \A l \in Calls : l # k => begun'[l] = begun[l]
      /\ \A l \in Calls : /\ begun[l] # "" => begun'[l] # ""
                          /\ begun'[l] # "astray" => begun[l] # "astray"
                          /\ begun'[l] # "unsynced" /\ begun'[l] # "astray" => begun[l] # "unsynced"
      /\ begun'[k] # "" /\ (begun'[k] # "astray" => linked)
  BY <1>1, BeginIs
<1>5. /\ door' \in Doing /\ door'.kind = "appended" /\ door'.call = k /\ door'.op = o
      /\ door'.evidence = evidence /\ door'.start = starts /\ door' # NoRecord
      /\ [door' EXCEPT !.kind = "closure"] = c
  <2>1. PICK d : d = [c EXCEPT !.kind = "appended"]
    OBVIOUS
  <2>2. /\ d \in Doing /\ d.kind = "appended" /\ d.call = c.call /\ d.op = c.op
        /\ d.evidence = c.evidence /\ d.start = c.start
    BY <1>2, <2>1 DEF Doing
  <2>3. [d EXCEPT !.kind = "closure"] = [c EXCEPT !.kind = "closure"]
    BY <1>2, <2>1, DoorIs
  <2>4. [c EXCEPT !.kind = "closure"] = c
    BY <1>2, <2>1, DoorIs
  <2>5. door' = d
    BY <1>1, <2>1
  <2>6. NoRecord.kind = "none"
    BY DEF NoRecord
  <2>7. d # NoRecord
    BY <2>2, <2>6
  <2> QED BY <1>2, <2>2, <2>3, <2>4, <2>5, <2>7
<1>6. /\ Carries(file', synced', c) /\ TornEnded'
      /\ linked => /\ synced' = Len(file) + 1 /\ DOMAIN file' = 1 .. Len(file) + 1
                   /\ file'[Len(file) + 1] = c
                   /\ Len(file) + 1 \in 1 .. synced' /\ Len(file) + 1 \in DOMAIN file'
  BY <1>1, <1>2, AppendCarries, LastOf, FileIs
<1>7. MayWrite(c) /\ WasWritten(c)
  BY <1>1, <1>2, <1>3, <1>4 DEF MayWrite, WasWritten
<1>9. Steady /\ InFlight' \subseteq InFlight
  BY <1>1, <1>4 DEF Steady, InFlight
<1>10. JTyped'
  <2>1. file' \in Seq(JLines \cup {Torn, Newline}) /\ synced' \in 0 .. Len(file')
    BY <1>6 DEF Carries
  <2>2. IsDoor(door)'
    BY <1>1, <1>5 DEF IsDoor
  <2> QED BY <1>1, <1>4, <2>1, <2>2 DEF JTyped, IsClosure
<1>11. Idle'
  BY <1>1, <1>3, <1>4, <1>5, RecordsAre DEF Idle, InFlight
<1>12. LinesSay' /\ IdsApart'
  BY <1>1, <1>6, <1>7, <1>9, Running
<1>13. WordKept'
  BY <1>1, <1>4, <1>6, Carried DEF WordKept, Live
<1>14. \A l \in Calls : Gone(l) => Gone(l)'
  <2>1. \A l \in Calls : Gone(l) => l \notin held' \cup listed'
    BY <1>1 DEF Gone
  <2> QED BY <1>6, <1>7, <1>9, <2>1, GoneKept
<1>15. BooksStand' /\ AnswersKept'
  <2>1. \A op \in Ops : answers'[op].is = "ok" =>
             \/ answers[op].is = "ok" /\ answers'[op].record = answers[op].record
             \/ books[op] # NoRecord /\ answers'[op].record = books[op]
    BY <1>1
  <2> QED BY <1>1, <1>2, <1>4, <1>6, <2>1, AnswersRun
<1>16. DoorStands'
  <2> SUFFICES ASSUME begun'[k] # "astray"
               PROVE  IsLast(file', synced', o, c)
    BY <1>1, <1>5 DEF DoorStands, Counts
  <2>1. linked
    BY <1>4
  <2>2. \A j \in DOMAIN file' : j =< Len(file) + 1
    <3>1. Len(file) \in Nat
      BY FileIs
    <3> QED BY <1>6, <2>1, <3>1
  <2> QED BY <1>6, <2>1, <2>2 DEF IsLast
(* k was listed, so no closure of it was on record. *)
<1>17. ~Gone(k) /\ ~InDoorNow(k) /\ \A l \in Calls : ~InDoorNow(l)
  BY <1>1 DEF Gone, InDoorNow
<1>18. begun'[k] # "astray" =>
         /\ linked /\ rows[k] = 0
         /\ \A op \in Ops : ~(books[op] # NoRecord /\ books[op].call = k)
         /\ \A op \in Ops : ~(answers[op].is = "ok" /\ answers[op].record.call = k)
         /\ begun'[k] # "unsynced" => ~ClosedBy(file, Len(file), k)
  BY <1>4, <1>17 DEF Closing
<1>19. \A l \in Calls : ClosedBy(file', Len(file'), l) => ClosedBy(file, Len(file), l) \/ l = k
  BY <1>2, <1>6, Carried DEF IsNew
<1>20. Closing'
  <2> SUFFICES ASSUME NEW l \in Calls, begun'[l] # "astray"
               PROVE  /\ \A op \in Ops : books[op] # NoRecord /\ books[op].call = l => Gone(l)'
                      /\ \A op \in Ops : answers[op].is = "ok" /\ answers[op].record.call = l => Gone(l)'
                      /\ rows[l] # 0 => rows[l] = 1 /\ Gone(l)' /\ (InDoorNow(l)' => door'.kind = "recorded")
                      /\ InDoorNow(l)' => ClosedBy(file', synced', l) /\ (door'.kind # "appended" => Gone(l)')
                      /\ begun'[l] # "unsynced" /\ ClosedBy(file', Len(file'), l) => Gone(l)' \/ InDoorNow(l)'
    BY <1>1 DEF Closing
  <2>1. CASE l = k
    <3>1. InDoorNow(l)'
      BY <1>5, <2>1 DEF InDoorNow
    <3>2. ClosedBy(file', synced', l)
      BY <1>2, <1>6, <1>18, <2>1 DEF ClosedBy, IsLine
    <3> QED BY <1>5, <1>18, <2>1, <3>1, <3>2
  <2>2. CASE l # k
    <3>1. ~InDoorNow(l)' /\ ~InDoorNow(l) /\ begun'[l] = begun[l]
      BY <1>4, <1>5, <1>17, <2>2 DEF InDoorNow
    <3>2. /\ \A op \in Ops : books[op] # NoRecord /\ books[op].call = l => Gone(l)
          /\ \A op \in Ops : answers[op].is = "ok" /\ answers[op].record.call = l => Gone(l)
          /\ rows[l] # 0 => rows[l] = 1 /\ Gone(l)
          /\ begun[l] # "unsynced" /\ ClosedBy(file, Len(file), l) => Gone(l)
      BY <3>1 DEF Closing
    <3> QED BY <1>14, <1>19, <2>2, <3>1, <3>2
  <2> QED BY <2>1, <2>2
<1>21. OneEvidence'
  <2>0. \A i \in DOMAIN file' : file'[i].kind = "closure" =>
          (i \in DOMAIN file /\ file'[i] = file[i]) \/ (i = Len(file) + 1 /\ file'[i] = c)
    BY <1>6 DEF Carries
  <2>a. \A i \in DOMAIN file : i \in 1 .. Len(file)
    BY FileIs
  <2> SUFFICES ASSUME NEW l \in Calls, begun'[l] \notin {"astray", "unsynced"}
               PROVE  /\ \A e, d \in Kinds : Traced(l, e)' /\ Traced(l, d)' => e = d
                      /\ rows[l] # 0 => ~Traced(l, "no_charge")'
    BY <1>1 DEF OneEvidence
  <2>1. CASE l = k
    <3>1. ASSUME NEW e, Traced(l, e)' PROVE e = evidence
      <4>1. CASE \E i \in DOMAIN file' : IsLine(file', i, "closure", l) /\ file'[i].evidence = e
        <5>1. PICK i \in DOMAIN file' : IsLine(file', i, "closure", l) /\ file'[i].evidence = e
          BY <4>1
        <5>2. ~(i \in DOMAIN file /\ file'[i] = file[i])
          BY <1>18, <2>1, <2>a, <5>1 DEF ClosedBy, IsLine
        <5>3. file'[i] = c
          BY <2>0, <5>1, <5>2 DEF IsLine
        <5> QED BY <1>2, <5>1, <5>3
      <4>2. CASE door' # NoRecord /\ door'.call = l /\ door'.evidence = e
        BY <1>5, <4>2
      <4>3. CASE \E op \in Ops : books'[op] # NoRecord /\ books'[op].call = l /\ books'[op].evidence = e
        BY <1>1, <1>18, <2>1, <4>3
      <4>4. CASE \E op \in Ops : /\ answers'[op].is = "ok" /\ answers'[op].record.call = l
                                 /\ answers'[op].record.evidence = e
        BY <1>1, <1>18, <2>1, <4>4
      <4> QED BY <3>1, <4>1, <4>2, <4>3, <4>4 DEF Traced
    <3> QED BY <1>18, <2>1, <3>1
  <2>2. CASE l # k
    <3>1. ASSUME NEW e, Traced(l, e)' PROVE Traced(l, e)
      <4>1. CASE \E i \in DOMAIN file' : IsLine(file', i, "closure", l) /\ file'[i].evidence = e
        <5>1. PICK i \in DOMAIN file' : IsLine(file', i, "closure", l) /\ file'[i].evidence = e
          BY <4>1
        <5>2. file'[i] # c
          BY <1>2, <2>2, <5>1 DEF IsLine
        <5>3. i \in DOMAIN file /\ file'[i] = file[i]
          BY <2>0, <5>1, <5>2 DEF IsLine
        <5> QED BY <5>1, <5>3 DEF Traced, IsLine
      <4>2. CASE door' # NoRecord /\ door'.call = l /\ door'.evidence = e
        BY <1>5, <2>2, <4>2
      <4>3. CASE \E op \in Ops : books'[op] # NoRecord /\ books'[op].call = l /\ books'[op].evidence = e
        BY <1>1, <4>3 DEF Traced
      <4>4. CASE \E op \in Ops : /\ answers'[op].is = "ok" /\ answers'[op].record.call = l
                                 /\ answers'[op].record.evidence = e
        BY <1>1, <4>4 DEF Traced
      <4> QED BY <3>1, <4>1, <4>2, <4>3, <4>4 DEF Traced
    <3> QED BY <1>4, <2>2, <3>1 DEF OneEvidence
  <2> QED BY <2>1, <2>2
<1> QED BY <1>6, <1>10, <1>11, <1>12, <1>13, <1>15, <1>16, <1>20, <1>21

(* The reservation is taken out, its closure on stable storage. *)
LEMMA SettleClosedKeeps ==
  ASSUME JInv, SettleClosed
  PROVE  JInv'
<1> USE DEF JInv
<1>0. door # NoRecord
  BY DEF SettleClosed, NoRecord
<1>1. /\ file' = file /\ synced' = synced /\ phase = "serving" /\ phase' = "serving" /\ starts' = starts
      /\ id' = id /\ next_reservation_id' = next_reservation_id /\ books' = books /\ rows' = rows
      /\ answers' = answers /\ told' = told /\ begun' = begun /\ linked' = linked
      /\ door' = [door EXCEPT !.kind = "settled"] /\ door.kind = "appended"
      /\ held' = held \ {door.call} /\ listed' = listed \ {door.call}
  BY DEF SettleClosed
<1>2. Carries(file', synced', NoRecord) /\ MayWrite(NoRecord) /\ WasWritten(NoRecord) /\ NoRecord.kind = "none"
  BY <1>1, StillCarries DEF NoRecord
<1>3. Steady /\ InFlight' \subseteq InFlight
  BY <1>1 DEF Steady, InFlight
<1>4. PICK k \in Calls, o \in Ops : k = door.call /\ o = door.op
  BY <1>0, RecordsAre
<1>5. /\ door' \in Doing /\ door'.kind = "settled" /\ door'.call = k /\ door'.op = o
      /\ door'.evidence = door.evidence /\ door'.start = starts /\ door' # NoRecord
      /\ [door' EXCEPT !.kind = "closure"] = [door EXCEPT !.kind = "closure"]
  <2>1. PICK c, d : c = door /\ d = [c EXCEPT !.kind = "settled"]
    OBVIOUS
  <2>2. c \in Doing /\ c.start = starts
    BY <1>0, <2>1, RecordsAre
  <2>a. /\ d \in Doing /\ d.kind = "settled" /\ d.call = c.call /\ d.op = c.op
        /\ d.evidence = c.evidence /\ d.start = c.start
    BY <2>1, <2>2 DEF Doing
  <2>b. NoRecord.kind = "none"
    BY DEF NoRecord
  <2>3. d # NoRecord
    BY <2>a, <2>b
  <2>4. [d EXCEPT !.kind = "closure"] = [c EXCEPT !.kind = "closure"]
    BY <2>1, <2>2, DoorIs
  <2>5. door' = d
    BY <1>1, <2>1
  <2> QED BY <1>4, <2>1, <2>2, <2>a, <2>3, <2>4, <2>5
<1>6. begun[k] # "" /\ told[k] # ""
  BY <1>0, <1>4 DEF Idle
<1>7. JTyped'
  <2>1. IsDoor(door)'
    BY <1>1, <1>5 DEF IsDoor
  <2>2. held' \subseteq Calls /\ listed' \subseteq Calls
    BY <1>1 DEF JTyped
  <2> QED BY <1>1, <2>1, <2>2 DEF JTyped, IsClosure
<1>8. Idle'
  BY <1>1, <1>4, <1>5, <1>6 DEF Idle, InFlight
<1>9. LinesSay' /\ IdsApart'
  BY <1>1, <1>2, <1>3, Running
<1>10. TornEnded'
  BY <1>1 DEF TornEnded
<1>11. WordKept'
  BY <1>1, <1>4, <1>6 DEF WordKept, Live
<1>12. \A l \in Calls : Gone(l) => Gone(l)'
  BY <1>1 DEF Gone
<1>13. BooksStand' /\ AnswersKept'
  BY <1>1, <1>2, AnswersRun
<1>14. DoorStands'
  BY <1>0, <1>1, <1>4, <1>5 DEF DoorStands, Counts
<1>15. OneEvidence'
  BY <1>0, <1>1, <1>4, <1>5 DEF OneEvidence, Traced, IsLine
<1>16. begun[k] # "astray" => Gone(k)' /\ ClosedBy(file, synced, k) /\ rows[k] = 0
  <2>1. begun[k] # "astray" => ClosedBy(file, synced, k) /\ rows[k] = 0
    BY <1>0, <1>1, <1>4 DEF Closing, InDoorNow
  <2> QED BY <1>1, <1>4, <1>6, <2>1 DEF Gone
<1>17. Closing'
  <2> SUFFICES ASSUME NEW l \in Calls, begun[l] # "astray"
               PROVE  /\ \A op \in Ops : books[op] # NoRecord /\ books[op].call = l => Gone(l)'
                      /\ \A op \in Ops : answers[op].is = "ok" /\ answers[op].record.call = l => Gone(l)'
                      /\ rows[l] # 0 => rows[l] = 1 /\ Gone(l)' /\ (InDoorNow(l)' => door'.kind = "recorded")
                      /\ InDoorNow(l)' => ClosedBy(file, synced, l) /\ (door'.kind # "appended" => Gone(l)')
                      /\ begun[l] # "unsynced" /\ ClosedBy(file, Len(file), l) => Gone(l)' \/ InDoorNow(l)'
    BY <1>1 DEF Closing, ClosedBy, IsLine
  <2>1. CASE l = k
    BY <1>12, <1>16, <2>1 DEF Closing
  <2>2. CASE l # k
    <3>1. ~InDoorNow(l)' /\ ~InDoorNow(l)
      BY <1>4, <1>5, <2>2 DEF InDoorNow
    <3> QED BY <1>12, <3>1 DEF Closing
  <2> QED BY <2>1, <2>2
<1> QED BY <1>7, <1>8, <1>9, <1>10, <1>11, <1>13, <1>14, <1>15, <1>17

(* The closure in the door has written no row before. *)
LEMMA RecordClosedKeeps ==
  ASSUME JInv, RecordClosed
  PROVE  JInv'
<1> USE DEF JInv
<1>0. door # NoRecord
  BY DEF RecordClosed, NoRecord
<1>1. /\ file' = file /\ synced' = synced /\ phase = "serving" /\ phase' = "serving" /\ starts' = starts
      /\ id' = id /\ next_reservation_id' = next_reservation_id /\ books' = books
      /\ answers' = answers /\ told' = told /\ begun' = begun /\ linked' = linked
      /\ door' = [door EXCEPT !.kind = "recorded"] /\ door.kind = "settled"
      /\ held' = held /\ listed' = listed
      /\ rows' = IF door.evidence = "observed" THEN [rows EXCEPT ![door.call] = rows[door.call] + 1] ELSE rows
  BY DEF RecordClosed
<1>2. Carries(file', synced', NoRecord) /\ MayWrite(NoRecord) /\ WasWritten(NoRecord) /\ NoRecord.kind = "none"
  BY <1>1, StillCarries DEF NoRecord
<1>3. Steady /\ InFlight' \subseteq InFlight
  BY <1>1 DEF Steady, InFlight
<1>4. PICK k \in Calls, o \in Ops : k = door.call /\ o = door.op
  BY <1>0, RecordsAre
<1>5. /\ door' \in Doing /\ door'.kind = "recorded" /\ door'.call = k /\ door'.op = o
      /\ door'.evidence = door.evidence /\ door'.start = starts /\ door' # NoRecord
      /\ [door' EXCEPT !.kind = "closure"] = [door EXCEPT !.kind = "closure"]
      /\ door.evidence \in Kinds
  <2>1. PICK c, d : c = door /\ d = [c EXCEPT !.kind = "recorded"]
    OBVIOUS
  <2>2. c \in Doing /\ c.start = starts
    BY <1>0, <2>1, RecordsAre
  <2>a. /\ d \in Doing /\ d.kind = "recorded" /\ d.call = c.call /\ d.op = c.op
        /\ d.evidence = c.evidence /\ d.start = c.start
    BY <2>1, <2>2 DEF Doing
  <2>b. NoRecord.kind = "none"
    BY DEF NoRecord
  <2>3. d # NoRecord
    BY <2>a, <2>b
  <2>4. [d EXCEPT !.kind = "closure"] = [c EXCEPT !.kind = "closure"]
    BY <2>1, <2>2, DoorIs
  <2>5. door' = d
    BY <1>1, <2>1
  <2>6. c.evidence \in Kinds
    BY <2>2 DEF Doing
  <2> QED BY <1>4, <2>1, <2>2, <2>a, <2>3, <2>4, <2>5, <2>6
<1>6. rows \in [Calls -> Nat]
  BY DEF JTyped
<1>7. /\ rows' \in [Calls -> Nat] /\ \A l \in Calls : l # k => rows'[l] = rows[l]
      /\ rows'[k] = IF door.evidence = "observed" THEN rows[k] + 1 ELSE rows[k]
  <2>1. rows' = IF door.evidence = "observed" THEN [rows EXCEPT ![k] = rows[k] + 1] ELSE rows
    BY <1>1, <1>4
  <2>2. PICK n \in Nat : n = rows[k] + 1
    BY <1>6
  <2>3. rows' = IF door.evidence = "observed" THEN [rows EXCEPT ![k] = n] ELSE rows
    BY <2>1, <2>2
  <2> QED BY <1>6, <2>2, <2>3
<1>8. JTyped'
  <2>1. IsDoor(door)'
    BY <1>1, <1>5 DEF IsDoor
  <2> QED BY <1>1, <1>7, <2>1 DEF JTyped, IsClosure
<1>9. Idle'
  BY <1>0, <1>1, <1>4, <1>5 DEF Idle, InFlight
<1>10. LinesSay' /\ IdsApart'
  BY <1>1, <1>2, <1>3, Running
<1>11. TornEnded' /\ WordKept'
  BY <1>1 DEF TornEnded, WordKept, Live
<1>12. \A l \in Calls : Gone(l) => Gone(l)'
  BY <1>1 DEF Gone
<1>13. BooksStand' /\ AnswersKept'
  BY <1>1, <1>2, AnswersRun
<1>14. DoorStands'
  BY <1>0, <1>1, <1>4, <1>5 DEF DoorStands, Counts
<1>15. \A l \in Calls : \A e : Traced(l, e)' => Traced(l, e)
  BY <1>0, <1>1, <1>4, <1>5 DEF Traced, IsLine
<1>16. Traced(k, door.evidence)
  BY <1>0, <1>4 DEF Traced
<1>17. begun[k] # "astray" => Gone(k) /\ ClosedBy(file, synced, k) /\ rows[k] = 0
  BY <1>0, <1>1, <1>4 DEF Closing, InDoorNow
<1>18. OneEvidence'
  <2> SUFFICES ASSUME NEW l \in Calls, begun[l] \notin {"astray", "unsynced"}
               PROVE  /\ \A e, d \in Kinds : Traced(l, e)' /\ Traced(l, d)' => e = d
                      /\ rows'[l] # 0 => ~Traced(l, "no_charge")'
    BY <1>1 DEF OneEvidence
  <2>1. \A e, d \in Kinds : Traced(l, e)' /\ Traced(l, d)' => e = d
    BY <1>15 DEF OneEvidence
  <2>2. CASE l # k
    BY <1>7, <1>15, <2>1, <2>2 DEF OneEvidence
  <2>3. CASE l = k
    <3>1. ASSUME rows'[k] # 0, Traced(k, "no_charge") PROVE FALSE
      <4>1. door.evidence = "observed"
        BY <1>7, <1>17, <2>3, <3>1
      <4>2. "observed" \in Kinds /\ "no_charge" \in Kinds
        BY DEF Kinds
      <4> QED BY <1>16, <2>3, <3>1, <4>1, <4>2 DEF OneEvidence
    <3> QED BY <1>15, <2>1, <2>3, <3>1
  <2> QED BY <2>2, <2>3
<1>19. Closing'
  <2> SUFFICES ASSUME NEW l \in Calls, begun[l] # "astray"
               PROVE  /\ \A op \in Ops : books[op] # NoRecord /\ books[op].call = l => Gone(l)'
                      /\ \A op \in Ops : answers[op].is = "ok" /\ answers[op].record.call = l => Gone(l)'
                      /\ rows'[l] # 0 => rows'[l] = 1 /\ Gone(l)' /\ (InDoorNow(l)' => door'.kind = "recorded")
                      /\ InDoorNow(l)' => ClosedBy(file, synced, l) /\ (door'.kind # "appended" => Gone(l)')
                      /\ begun[l] # "unsynced" /\ ClosedBy(file, Len(file), l) => Gone(l)' \/ InDoorNow(l)'
    BY <1>1 DEF Closing, ClosedBy, IsLine
  <2>1. CASE l = k
    <3>1. rows'[l] # 0 => rows'[l] = 1
      BY <1>7, <1>17, <2>1
    <3> QED BY <1>5, <1>12, <1>17, <2>1, <3>1 DEF Closing
  <2>2. CASE l # k
    <3>1. ~InDoorNow(l)' /\ ~InDoorNow(l) /\ rows'[l] = rows[l]
      BY <1>4, <1>5, <1>7, <2>2 DEF InDoorNow
    <3> QED BY <1>12, <3>1 DEF Closing
  <2> QED BY <2>1, <2>2
<1> QED BY <1>8, <1>9, <1>10, <1>11, <1>13, <1>14, <1>18, <1>19

(* The books hold what the journal's last line of the operation says. *)
LEMMA NoteKeeps ==
  ASSUME JInv, note
  PROVE  JInv'
<1> USE DEF JInv
<1>b. PICK c : c = [door EXCEPT !.kind = "closure"]
  OBVIOUS
<1>0. door # NoRecord
  BY DEF note, NoRecord
<1>1. /\ file' = file /\ synced' = synced /\ phase = "serving" /\ phase' = "serving" /\ starts' = starts
      /\ id' = id /\ next_reservation_id' = next_reservation_id
      /\ rows' = rows /\ told' = told /\ begun' = begun /\ linked' = linked
      /\ door' = NoRecord /\ door.kind = "recorded"
      /\ held' = held /\ listed' = listed
      /\ books' = [books EXCEPT ![door.op] = c]
      /\ answers' = [answers EXCEPT ![door.op] = [is |-> "ok", record |-> c]]
  BY <1>b DEF note, Answer
<1>4. PICK k \in Calls, o \in Ops : k = door.call /\ o = door.op
  BY <1>0, RecordsAre
<1>5. /\ c \in Doing /\ c.kind = "closure" /\ c.call = k /\ c.op = o
      /\ c.evidence = door.evidence /\ c.start = starts /\ c # NoRecord
  <2>1. PICK b, d : b = door /\ d = [b EXCEPT !.kind = "closure"]
    OBVIOUS
  <2>2. b \in Doing /\ b.start = starts
    BY <1>0, <2>1, RecordsAre
  <2>a. /\ d \in Doing /\ d.kind = "closure" /\ d.call = b.call /\ d.op = b.op
        /\ d.evidence = b.evidence /\ d.start = b.start
    BY <2>1, <2>2 DEF Doing
  <2>b. NoRecord.kind = "none"
    BY DEF NoRecord
  <2>3. d # NoRecord
    BY <2>a, <2>b
  <2>5. c = d
    BY <1>b, <2>1
  <2> QED BY <1>4, <2>1, <2>2, <2>a, <2>3, <2>5
<1>a. Counts(door) => IsLast(file, synced, o, c)
  BY <1>4, <1>b DEF DoorStands
<1>2. Carries(file', synced', NoRecord) /\ MayWrite(NoRecord) /\ WasWritten(NoRecord) /\ NoRecord.kind = "none"
  BY <1>1, StillCarries DEF NoRecord
<1>3. Steady /\ InFlight' \subseteq InFlight
  BY <1>1 DEF Steady, InFlight
<1>6. /\ DOMAIN books' = Ops /\ DOMAIN answers' = Ops
      /\ books'[o] = c /\ answers'[o].is = "ok" /\ answers'[o].record = c
      /\ \A op \in Ops : op # o => books'[op] = books[op] /\ answers'[op] = answers[op]
  <2>1. DOMAIN books = Ops /\ DOMAIN answers = Ops
    BY DEF JTyped
  <2> QED BY <1>1, <1>4, <2>1
<1>7. JTyped'
  <2>0. starts \in Nat
    BY DEF JTyped
  <2>1. c.kind = "closure" /\ c \in Doing /\ c.start =< starts
    BY <1>5, <2>0
  <2>2. \A op \in Ops : /\ books[op] # NoRecord => IsClosure(books[op]) /\ books[op].op = op
                        /\ answers[op].is = "ok" => IsClosure(answers[op].record) /\ answers[op].record.op = op
    BY DEF JTyped
  <2>3. ASSUME NEW op \in Ops
        PROVE  /\ books'[op] # NoRecord =>
                    /\ books'[op] \in Doing /\ books'[op].kind = "closure" /\ books'[op].start =< starts
                    /\ books'[op].op = op
               /\ answers'[op].is = "ok" =>
                    /\ answers'[op].record \in Doing /\ answers'[op].record.kind = "closure"
                    /\ answers'[op].record.start =< starts /\ answers'[op].record.op = op
    <3>1. CASE op = o
      BY <1>5, <1>6, <2>1, <3>1
    <3>2. CASE op # o
      BY <1>6, <2>2, <3>2 DEF IsClosure
    <3> QED BY <3>1, <3>2
  <2> QED BY <1>1, <1>6, <2>3 DEF JTyped, IsClosure
<1>8. begun[k] # ""
  BY <1>0, <1>4 DEF Idle
<1>9. Idle'
  BY <1>1, <1>5, <1>6, <1>8 DEF Idle, InFlight
<1>10. LinesSay' /\ IdsApart'
  BY <1>1, <1>2, <1>3, Running
<1>11. TornEnded' /\ WordKept'
  BY <1>1 DEF TornEnded, WordKept, Live
<1>12. \A l \in Calls : Gone(l) => Gone(l)'
  BY <1>1 DEF Gone
<1>13. DoorStands'
  BY <1>1 DEF DoorStands, Counts
<1>14. BooksStand'
  <2> SUFFICES ASSUME NEW op \in Ops, Counts(books[op])', books'[op].start = starts
               PROVE  IsLast(file, synced, op, books'[op])
    BY <1>1 DEF BooksStand
  <2>1. CASE op = o
    BY <1>0, <1>1, <1>4, <1>5, <1>6, <1>a, <2>1 DEF Counts
  <2>2. CASE op # o
    BY <1>1, <1>6, <2>2 DEF BooksStand, Counts
  <2> QED BY <2>1, <2>2
<1>15. AnswersKept'
  <2> SUFFICES ASSUME NEW op \in Ops, answers'[op].is = "ok", Counts(answers[op].record)',
                      starts =< answers'[op].record.start + 1
               PROVE  books'[op] = answers'[op].record
    BY <1>1 DEF AnswersKept
  <2>1. CASE op = o
    BY <1>6, <2>1
  <2>2. CASE op # o
    <3>1. answers'[op] = answers[op] /\ books'[op] = books[op] /\ Counts(answers[op].record)
      BY <1>1, <1>6, <2>2 DEF Counts
    <3> QED BY <1>1, <3>1 DEF AnswersKept, Live
  <2> QED BY <2>1, <2>2
<1>16. OneEvidence'
  <2>1. ASSUME NEW l \in Calls, NEW e, Traced(l, e)' PROVE Traced(l, e)
    <3>1. CASE \E i \in DOMAIN file' : IsLine(file', i, "closure", l) /\ file'[i].evidence = e
      BY <1>1, <3>1 DEF Traced, IsLine
    <3>2. CASE door' # NoRecord /\ door'.call = l /\ door'.evidence = e
      BY <1>1, <3>2
    <3>3. CASE \E op \in Ops : books'[op] # NoRecord /\ books'[op].call = l /\ books'[op].evidence = e
      BY <1>0, <1>4, <1>5, <1>6, <3>3 DEF Traced
    <3>4. CASE \E op \in Ops : /\ answers'[op].is = "ok" /\ answers'[op].record.call = l
                               /\ answers'[op].record.evidence = e
      BY <1>0, <1>4, <1>5, <1>6, <3>4 DEF Traced
    <3> QED BY <2>1, <3>1, <3>2, <3>3, <3>4 DEF Traced
  <2> QED BY <1>1, <2>1, EvidenceRun
<1>17. begun[k] # "astray" => Gone(k)
  BY <1>0, <1>1, <1>4 DEF Closing, InDoorNow
<1>18. Closing'
  <2> SUFFICES ASSUME NEW l \in Calls, begun[l] # "astray"
               PROVE  /\ \A op \in Ops : books'[op] # NoRecord /\ books'[op].call = l => Gone(l)
                      /\ \A op \in Ops : answers'[op].is = "ok" /\ answers'[op].record.call = l => Gone(l)
                      /\ rows[l] # 0 => rows[l] = 1 /\ Gone(l)
                      /\ begun[l] # "unsynced" /\ ClosedBy(file, Len(file), l) => Gone(l)
    BY <1>1, <1>12 DEF Closing, InDoorNow
  <2>1. CASE l = k
    BY <1>5, <1>17, <2>1 DEF Closing
  <2>2. CASE l # k
    <3>1. ~InDoorNow(l)
      BY <1>4, <2>2 DEF InDoorNow
    <3> QED BY <1>5, <1>6, <2>2, <3>1 DEF Closing
  <2> QED BY <2>1, <2>2
<1> QED BY <1>7, <1>9, <1>10, <1>11, <1>13, <1>14, <1>15, <1>16, <1>18

-----------------------------------------------------------------------------
(* The process ends, or the next one opens the file. *)
LEMMA Order ==
  /\ \A n \in Nat : n >= n /\ n + 1 \in Nat /\ n + 1 > n /\ n + 1 >= n
  /\ \A n, m, h \in Nat : n =< m /\ h >= m => n =< h
  /\ \A n, m \in Nat : /\ n < m => n # m
                       /\ n = m => m =< n + 1
                       /\ n =< m => n < m + 1
                       /\ m + 1 = n + 1 => m = n
                       /\ n < m /\ m =< n + 1 => m = n + 1
OBVIOUS

(* A process that ends or starts holds nothing; the file keeps its word. *)
LEMMA Halted ==
  ASSUME JInv, held' = {}, listed' = {}, door' = NoRecord, DOMAIN books' = Ops,
         \A op \in Ops : books'[op] = NoRecord, rows' = rows, answers' = answers, id' = id,
         linked' \in BOOLEAN, next_reservation_id' \in Nat,
         NEW c, Carries(file', synced', c), synced' = Len(file'), MayWrite(c), WasWritten(c),
         c.kind = "closure" => c.call \in listed /\ door = NoRecord /\ books[c.op] = NoRecord,
         told' \in [Calls -> {"", "journaled", "unwritten", "astray"}],
         begun' \in [Calls -> {"", "begun", "unsynced", "astray"}],
         \A l \in Calls : /\ told'[l] = told[l] \/ (told'[l] = "unwritten" /\ id[l] # 0)
                          /\ begun'[l] = begun[l] \/ (begun'[l] # "" /\ told[l] # "")
                          /\ begun'[l] # "astray" => begun[l] # "astray"
                          /\ begun'[l] # "unsynced" /\ begun'[l] # "astray" => begun[l] # "unsynced",
         \/ phase' = "down" /\ phase # "down" /\ starts' = starts
         \/ phase = "down" /\ phase' = "opened" /\ starts' = starts + 1 /\ c.kind = "none"
  PROVE  /\ JTyped' /\ Idle' /\ LinesSay' /\ IdsApart' /\ WordKept' /\ Closing' /\ OneEvidence'
         /\ DoorStands' /\ BooksStand' /\ AnswersKept'
<1> USE DEF JInv
<1>1. starts \in Nat /\ phase \in {"down", "opened", "replayed", "serving"}
  BY DEF JTyped
<1>2. /\ starts' \in Nat /\ starts' >= starts /\ phase' \in {"down", "opened"}
      /\ phase' = "opened" => starts' > starts
  <2>1. PICK n \in Nat : n = starts
    BY <1>1
  <2>2. n >= n /\ n + 1 \in Nat /\ n + 1 > n /\ n + 1 >= n
    BY Order
  <2> QED BY <2>1, <2>2
<1>3. Steady
  BY DEF Steady
<1>4. JTyped'
  <2>1. file' \in Seq(JLines \cup {Torn, Newline}) /\ synced' \in 0 .. Len(file')
    BY DEF Carries
  <2>2. ASSUME NEW op \in Ops, answers[op].is = "ok"
        PROVE  /\ answers[op].record \in Doing /\ answers[op].record.kind = "closure"
               /\ answers[op].record.start =< starts' /\ answers[op].record.op = op
    <3>1. PICK d : d = answers[op].record
      OBVIOUS
    <3>2. /\ d \in Doing /\ d.kind = "closure" /\ d.op = op
          /\ d.start \in Nat /\ d.start =< starts
      BY <2>2, <3>1, RecordsAre
    <3>3. PICK n \in Nat, m \in Nat, h \in Nat : n = d.start /\ m = starts /\ h = starts'
      BY <1>1, <1>2, <3>2
    <3>4. n =< m /\ h >= m
      BY <1>2, <3>2, <3>3
    <3>5. n =< h
      BY <3>4, Order
    <3> QED BY <3>1, <3>2, <3>3, <3>5
  <2>3. rows \in [Calls -> Nat] /\ id \in [Calls -> Nat] /\ DOMAIN answers = Ops
    BY DEF JTyped
  <2> QED BY <1>2, <2>1, <2>2, <2>3 DEF JTyped, IsClosure
<1>5. \A l \in Calls : told'[l] # "" => id[l] # 0
  BY DEF Idle
<1>6. \A l \in Calls : begun'[l] # "" => told'[l] # ""
  BY DEF Idle
<1>7. Idle'
  BY <1>2, <1>5, <1>6 DEF Idle, InFlight
<1>8. LinesSay'
  BY <1>2, <1>3, LinesCarry
<1>9. IdsApart'
  BY <1>2, ApartCarry DEF IdsApart, Live, InFlight
<1>10. WordKept'
  <2> SUFFICES ASSUME NEW l \in Calls, told'[l] = "journaled", begun'[l] = ""
               PROVE  IsKept(file', synced', l)
    BY <1>2 DEF WordKept, Live
  <2>1. told[l] = "journaled" /\ begun[l] = ""
    OBVIOUS
  <2>2. IsKept(file, synced, l)
    BY <2>1 DEF WordKept
  <2> QED BY <2>2, Carried
<1>11. \A l \in Calls : Gone(l) => Gone(l)'
  <2>1. \A l \in Calls : Gone(l) => l \notin held' \cup listed'
    OBVIOUS
  <2> QED BY <1>3, <2>1, GoneKept
<1>12. \A l \in Calls : ClosedBy(file', Len(file'), l) => Gone(l)'
  <2> SUFFICES ASSUME NEW l \in Calls, ClosedBy(file', Len(file'), l) PROVE Gone(l)'
    OBVIOUS
  <2>1. told'[l] # ""
    BY <1>8 DEF LinesSay, ClosedBy, IsLine
  <2> QED BY <2>1 DEF Gone
<1>13. Closing'
  <2> SUFFICES ASSUME NEW l \in Calls, begun'[l] # "astray"
               PROVE  /\ \A op \in Ops : answers[op].is = "ok" /\ answers[op].record.call = l => Gone(l)'
                      /\ rows[l] # 0 => rows[l] = 1 /\ Gone(l)'
                      /\ ClosedBy(file', Len(file'), l) => Gone(l)'
    BY DEF Closing, InDoorNow
  <2>1. begun[l] # "astray"
    OBVIOUS
  <2> QED BY <1>11, <1>12, <2>1 DEF Closing
<1>14. DoorStands' /\ BooksStand'
  BY DEF DoorStands, BooksStand, Counts
<1>15. \A i \in DOMAIN file' : file'[i].kind = "closure" =>
        (i \in DOMAIN file /\ file'[i] = file[i]) \/ (i = Len(file) + 1 /\ file'[i] = c)
  BY DEF Carries
<1>16. OneEvidence'
  <2> SUFFICES ASSUME NEW l \in Calls, begun'[l] \notin {"astray", "unsynced"}
               PROVE  /\ \A e, d \in Kinds : Traced(l, e)' /\ Traced(l, d)' => e = d
                      /\ rows[l] # 0 => ~Traced(l, "no_charge")'
    BY DEF OneEvidence
  <2>a. begun[l] \notin {"astray", "unsynced"}
    OBVIOUS
  <2>1. CASE c.kind = "closure" /\ c.call = l
    <3>1. ~Gone(l) /\ ~InDoorNow(l)
      BY <2>1 DEF Gone, InDoorNow
    <3>2. /\ rows[l] = 0 /\ ~ClosedBy(file, Len(file), l)
          /\ \A op \in Ops : ~(answers[op].is = "ok" /\ answers[op].record.call = l)
      BY <2>a, <3>1 DEF Closing
    <3>3. \A i \in DOMAIN file : i \in 1 .. Len(file)
      BY FileIs
    <3>4. ASSUME NEW e, Traced(l, e)' PROVE e = c.evidence
      <4>1. PICK i \in DOMAIN file' : IsLine(file', i, "closure", l) /\ file'[i].evidence = e
        BY <3>2, <3>4 DEF Traced
      <4>2. ~(i \in DOMAIN file /\ file'[i] = file[i])
        BY <3>2, <3>3, <4>1 DEF ClosedBy, IsLine
      <4>3. file'[i] = c
        BY <1>15, <4>1, <4>2 DEF IsLine
      <4> QED BY <4>1, <4>3
    <3> QED BY <3>2, <3>4
  <2>2. CASE ~(c.kind = "closure" /\ c.call = l)
    <3>1. ASSUME NEW e, Traced(l, e)' PROVE Traced(l, e)
      <4>1. CASE \E i \in DOMAIN file' : IsLine(file', i, "closure", l) /\ file'[i].evidence = e
        <5>1. PICK i \in DOMAIN file' : IsLine(file', i, "closure", l) /\ file'[i].evidence = e
          BY <4>1
        <5>2. file'[i] # c
          BY <2>2, <5>1 DEF IsLine
        <5>3. i \in DOMAIN file /\ file'[i] = file[i]
          BY <1>15, <5>1, <5>2 DEF IsLine
        <5> QED BY <5>1, <5>3 DEF Traced, IsLine
      <4>2. CASE \E op \in Ops : /\ answers'[op].is = "ok" /\ answers'[op].record.call = l
                                 /\ answers'[op].record.evidence = e
        BY <4>2 DEF Traced
      <4> QED BY <3>1, <4>1, <4>2 DEF Traced
    <3> QED BY <2>a, <3>1 DEF OneEvidence
  <2> QED BY <2>1, <2>2
<1>17. AnswersKept'
  <2> SUFFICES ASSUME NEW op \in Ops, answers[op].is = "ok", Counts(answers[op].record)',
                      NEW d, d = answers[op].record
               PROVE  /\ phase' = "down" /\ starts' = d.start => IsLast(file', synced', op, d)
                      /\ phase' = "opened" /\ starts' = d.start + 1 => IsLast(file', synced', op, d)
                      /\ phase' = "opened" => d.start < starts'
    BY <1>2 DEF AnswersKept, Live
  <2>1. d.call \in Calls /\ d # NoRecord /\ d.start \in Nat /\ d.start =< starts
    BY RecordsAre
  <2>2. Counts(answers[op].record)
    BY <2>1 DEF Counts
  <2>3. /\ Live /\ starts =< d.start + 1 => books[op] = d
        /\ phase = "down" /\ starts = d.start => IsLast(file, synced, op, d)
        /\ phase = "opened" => d.start < starts
    BY <2>2 DEF AnswersKept
  <2>a. PICK n \in Nat, m \in Nat : n = d.start /\ m = starts
    BY <1>1, <2>1
  <2>b. /\ n < m => n # m
        /\ n = m => m =< n + 1
        /\ n =< m => n < m + 1
        /\ m + 1 = n + 1 => m = n
    BY Order
  <2>4. CASE phase' = "down" /\ phase # "down" /\ starts' = starts
    <3> SUFFICES ASSUME starts = d.start PROVE IsLast(file', synced', op, d)
      BY <2>4
    <3>1. phase # "opened" /\ starts =< d.start + 1
      BY <2>3, <2>a, <2>b
    <3>2. books[op] = d
      BY <1>1, <2>3, <2>4, <3>1 DEF Live
    <3>3. IsLast(file, synced, op, d)
      BY <2>1, <2>2, <3>2 DEF BooksStand
    <3>4. ~(c.kind = "closure" /\ c.op = op)
      BY <2>1, <3>2
    <3> QED BY <3>3, <3>4, Carried
  <2>5. CASE phase = "down" /\ phase' = "opened" /\ starts' = starts + 1 /\ c.kind = "none"
    <3>1. d.start < starts'
      BY <2>1, <2>5, <2>a, <2>b
    <3>2. starts' = d.start + 1 => starts = d.start
      BY <2>5, <2>a, <2>b
    <3>3. starts' = d.start + 1 => IsLast(file', synced', op, d)
      BY <2>3, <2>5, <3>2, Carried
    <3> QED BY <2>5, <3>1, <3>3
  <2> QED BY <2>4, <2>5
<1> QED BY <1>4, <1>7, <1>8, <1>9, <1>10, <1>13, <1>14, <1>16, <1>17

(* Journal::open. *)
LEMMA OpenKeeps ==
  ASSUME JInv, open
  PROVE  JInv'
<1> USE DEF JInv
<1>1. /\ phase = "down" /\ phase' = "opened" /\ starts' = starts + 1 /\ linked' = TRUE
      /\ next_reservation_id' = next_reservation_id /\ id' = id /\ held' = held /\ listed' = listed
      /\ books' = books /\ door' = door /\ rows' = rows /\ told' = told /\ answers' = answers
      /\ begun' = begun
  BY DEF open
<1>2. /\ Carries(file', synced', NoRecord) /\ TornEnded' /\ synced' = Len(file')
      /\ MayWrite(NoRecord) /\ WasWritten(NoRecord) /\ NoRecord.kind = "none"
  BY OpenCarries DEF NoRecord
<1>3. /\ held' = {} /\ listed' = {} /\ door' = NoRecord /\ \A op \in Ops : books'[op] = NoRecord
  BY <1>1 DEF Idle
<1>4. /\ DOMAIN books' = Ops /\ next_reservation_id' \in Nat
      /\ told' \in [Calls -> {"", "journaled", "unwritten", "astray"}]
      /\ begun' \in [Calls -> {"", "begun", "unsynced", "astray"}]
  BY <1>1 DEF JTyped
<1> QED BY <1>1, <1>2, <1>3, <1>4, Halted

(* A stop between two steps. *)
LEMMA CrashKeeps ==
  ASSUME JInv, Crash
  PROVE  JInv'
<1> USE DEF JInv
<1>1. /\ phase # "down" /\ phase' = "down" /\ file' \in Leftovers(file) /\ synced' = Len(file')
      /\ next_reservation_id' = 0 /\ held' = {} /\ listed' = {} /\ door' = NoRecord
      /\ books' = [op \in Ops |-> NoRecord] /\ linked' = linked /\ starts' = starts /\ id' = id
      /\ rows' = rows /\ answers' = answers /\ told' = told /\ begun' = begun
  BY DEF Crash, Dies
<1>2. MayWrite(NoRecord) /\ WasWritten(NoRecord) /\ NoRecord.kind = "none"
  BY DEF NoRecord, MayWrite, WasWritten
<1>3. Carries(file', synced', NoRecord) /\ TornEnded'
  <2>1. /\ Carries(file', Len(file'), NoRecord)
        /\ \A i \in DOMAIN file' : file'[i].kind = "torn" =>
              (i < Len(file') => file'[i + 1].kind = "newline")
    BY <1>1, LeftoversCarry
  <2> QED BY <1>1, <2>1 DEF TornEnded
<1>4. /\ DOMAIN books' = Ops /\ next_reservation_id' \in Nat /\ linked' \in BOOLEAN
      /\ told' \in [Calls -> {"", "journaled", "unwritten", "astray"}]
      /\ begun' \in [Calls -> {"", "begun", "unsynced", "astray"}]
  BY <1>1 DEF JTyped
<1> QED BY <1>1, <1>2, <1>3, <1>4, Halted

(* A crash in the middle of an append. *)
LEMMA CutShort ==
  ASSUME JTyped, TornEnded, NEW c \in JLines, CrashAppending(c)
  PROVE  Carries(file', synced', c) /\ TornEnded' /\ synced' = Len(file')
<1>1. /\ phase # "down" /\ phase' = "down" /\ synced' = Len(file')
      /\ (linked /\ file' \in Leftovers(Append(file, c))) \/ file' = file
  BY DEF CrashAppending, Dies
<1>2. CASE linked /\ file' \in Leftovers(Append(file, c))
  <2>1. /\ Carries(file', Len(file'), c)
        /\ \A i \in DOMAIN file' : file'[i].kind = "torn" =>
              (i < Len(file') => file'[i + 1].kind = "newline")
    BY <1>1, <1>2, LeftoversCarry
  <2> QED BY <1>1, <2>1 DEF TornEnded
<1>3. CASE file' = file
  <2> DEFINE All == JLines \cup {Torn, Newline}
  <2>1. file \in Seq(All)
    BY DEF JTyped
  <2>2. Len(file) \in Nat /\ synced =< Len(file) /\ DOMAIN file = 1 .. Len(file) /\ synced \in Nat
    BY FileIs
  <2> HIDE DEF All
  <2>3. Len(file) \in 0 .. Len(file)
    BY <2>2
  <2>4. Carries(file', synced', c)
    BY <1>1, <1>3, <2>1, <2>2, <2>3 DEF Carries, All
  <2>5. TornEnded'
    BY <1>1, <1>3 DEF TornEnded
  <2> QED BY <1>1, <2>4, <2>5
<1> QED BY <1>1, <1>2, <1>3

(* A stop while a record is written. *)
LEMMA CrashRetainingKeeps ==
  ASSUME JInv, NEW k \in Calls, CrashRetaining(k)
  PROVE  JInv'
<1> USE DEF JInv
<1> DEFINE c == Retained(k)
<1>1. /\ phase = "serving" /\ phase' = "down" /\ CrashAppending(c)
      /\ next_reservation_id' = 0 /\ held' = {} /\ listed' = {} /\ door' = NoRecord
      /\ books' = [op \in Ops |-> NoRecord] /\ linked' = linked /\ starts' = starts /\ id' = id
      /\ rows' = rows /\ answers' = answers /\ begun' = begun /\ k \in InFlight
      /\ told' = [told EXCEPT ![k] = "unwritten"]
  BY DEF CrashRetaining, CrashAppending, Dies
<1>2. c \in JLines /\ c.kind = "retained" /\ c.call = k /\ c.id = id[k]
  BY LineIs
<1> HIDE DEF c
<1>3. /\ told' \in [Calls -> {"", "journaled", "unwritten", "astray"}] /\ told'[k] = "unwritten"
      /\ \A l \in Calls : l # k => told'[l] = told[l]
  <2>1. told \in [Calls -> {"", "journaled", "unwritten", "astray"}]
    BY DEF JTyped
  <2> QED BY <1>1, <2>1
<1>4. id[k] # 0
  BY <1>1 DEF Idle, InFlight
<1>5. MayWrite(c) /\ WasWritten(c)
  BY <1>1, <1>2, <1>3, <1>4 DEF MayWrite, WasWritten
<1>6. Carries(file', synced', c) /\ TornEnded' /\ synced' = Len(file')
  BY <1>1, <1>2, CutShort
<1>7. /\ DOMAIN books' = Ops /\ next_reservation_id' \in Nat /\ linked' \in BOOLEAN
      /\ begun' \in [Calls -> {"", "begun", "unsynced", "astray"}]
      /\ \A op \in Ops : books'[op] = NoRecord
  BY <1>1 DEF JTyped
<1>8. \A l \in Calls : /\ told'[l] = told[l] \/ (told'[l] = "unwritten" /\ id[l] # 0)
                       /\ begun'[l] = begun[l]
  BY <1>1, <1>3, <1>4
<1> QED BY <1>1, <1>2, <1>3, <1>5, <1>6, <1>7, <1>8, Halted

(* A stop while a closure is written. *)
LEMMA CrashClosingKeeps ==
  ASSUME JInv, NEW o \in Ops, NEW k \in Calls, NEW evidence \in Kinds, CrashClosing(o, k, evidence)
  PROVE  JInv'
<1> USE DEF JInv
<1> DEFINE c == Line("closure", k, o, evidence)
<1>1. /\ phase = "serving" /\ phase' = "down" /\ CrashAppending(c)
      /\ next_reservation_id' = 0 /\ held' = {} /\ listed' = {} /\ door' = NoRecord
      /\ books' = [op \in Ops |-> NoRecord] /\ linked' = linked /\ starts' = starts /\ id' = id
      /\ rows' = rows /\ answers' = answers /\ told' = told /\ Begin(k, "begun")
      /\ k \in listed /\ door = NoRecord /\ books[o] = NoRecord
  BY DEF CrashClosing, CrashAppending, Dies, Closable
<1>2. /\ c \in JLines /\ c \in Doing /\ c.kind = "closure" /\ c.call = k /\ c.id = id[k]
      /\ c.op = o /\ c.evidence = evidence /\ c.start = starts
  BY LineIs
<1> HIDE DEF c
<1>3. told[k] # "" /\ id[k] # 0
  BY <1>1 DEF Idle
<1>4. /\ begun' \in [Calls -> {"", "begun", "unsynced", "astray"}]
      /\ \A l \in Calls : l # k => begun'[l] = begun[l]
      /\ \A l \in Calls : /\ begun'[l] # "astray" => begun[l] # "astray"
                          /\ begun'[l] # "unsynced" /\ begun'[l] # "astray" => begun[l] # "unsynced"
      /\ begun'[k] # ""
  BY <1>1, BeginIs
<1>5. MayWrite(c) /\ WasWritten(c)
  BY <1>1, <1>2, <1>3, <1>4 DEF MayWrite, WasWritten
<1>6. Carries(file', synced', c) /\ TornEnded' /\ synced' = Len(file')
  BY <1>1, <1>2, CutShort
<1>7. /\ DOMAIN books' = Ops /\ next_reservation_id' \in Nat /\ linked' \in BOOLEAN
      /\ told' \in [Calls -> {"", "journaled", "unwritten", "astray"}]
      /\ \A op \in Ops : books'[op] = NoRecord
  BY <1>1 DEF JTyped
<1>8. \A l \in Calls : /\ told'[l] = told[l]
                       /\ begun'[l] = begun[l] \/ (begun'[l] # "" /\ told[l] # "")
  BY <1>1, <1>3, <1>4
<1> QED BY <1>1, <1>2, <1>4, <1>5, <1>6, <1>7, <1>8, Halted

-----------------------------------------------------------------------------
(* The start. *)
LEMMA GreatestNat ==
  ASSUME NEW S \in SUBSET Nat, S # {}, NEW u \in Nat, \A i \in S : i =< u
  PROVE  \E m \in S : \A i \in S : i =< m
<1> DEFINE U == {v \in Nat : \A i \in S : i =< v}
<1>1. PICK v \in U : \A w \in U : v =< w
  <2>1. u \in U /\ U \in SUBSET Nat
    OBVIOUS
  <2> QED BY <2>1, LeastNat
<1>2. CASE v \in S
  BY <1>1, <1>2
<1>3. CASE v \notin S
  <2>1. \A i \in S : i \in Nat /\ i < v
    BY <1>1, <1>3
  <2>2. PICK i \in S : TRUE
    OBVIOUS
  <2>3. v - 1 \in Nat /\ \A j \in S : j =< v - 1
    BY <1>1, <2>1, <2>2
  <2> QED BY <1>1, <2>3
<1> QED BY <1>2, <1>3

(* The books of a new process are the last lines of each operation. *)
LEMMA RememberedIs ==
  ASSUME JTyped, TornEnded, NEW op
  PROVE  \/ /\ Remembered(file, op) = NoRecord
            /\ \A i \in DOMAIN file : ~(file[i].kind = "closure" /\ file[i].op = op)
         \/ \E m \in DOMAIN file :
              /\ Remembered(file, op) = file[m] /\ file[m].kind = "closure" /\ file[m].op = op
              /\ \A i \in DOMAIN file : file[i].kind = "closure" /\ file[i].op = op => i =< m
<1> DEFINE S == {i \in Parsed(file, "closure") : file[i].op = op}
<1>1. Parsed(file, "closure") = {i \in DOMAIN file : file[i].kind = "closure"}
  BY ParsedIs
<1>2. S = {i \in DOMAIN file : file[i].kind = "closure" /\ file[i].op = op}
  BY <1>1
<1>3. Remembered(file, op) = IF S = {} THEN NoRecord ELSE file[CHOOSE i \in S : \A j \in S : j =< i]
  BY DEF Remembered
<1> HIDE DEF S
<1>4. CASE S = {}
  BY <1>2, <1>3, <1>4
<1>5. CASE S # {}
  <2>1. S \in SUBSET Nat /\ Len(file) \in Nat /\ \A i \in S : i =< Len(file)
    BY <1>2, FileIs
  <2>2. \E i \in S : \A j \in S : j =< i
    BY <1>5, <2>1, GreatestNat
  <2>3. PICK m : m = CHOOSE i \in S : \A j \in S : j =< i
    OBVIOUS
  <2>4. m \in S /\ \A j \in S : j =< m
    BY <2>2, <2>3
  <2>5. Remembered(file, op) = file[m]
    BY <1>3, <1>5, <2>3
  <2>6. m \in DOMAIN file /\ file[m].kind = "closure" /\ file[m].op = op
        /\ \A i \in DOMAIN file : file[i].kind = "closure" /\ file[i].op = op => i =< m
    BY <1>2, <2>4
  <2> QED BY <2>5, <2>6
<1> QED BY <1>4, <1>5

(* Replay takes up what no closure names, and nothing else. *)
LEMMA ReplayKeeps ==
  ASSUME JInv, replay
  PROVE  JInv'
<1> USE DEF JInv
<1> DEFINE S == StillOpen(file)
<1>1. /\ phase = "opened" /\ phase' = "replayed" /\ file' = file /\ synced' = synced
      /\ starts' = starts /\ id' = id /\ rows' = rows /\ told' = told /\ begun' = begun
      /\ answers' = answers /\ linked' = linked /\ door' = door
      /\ held' = CallsAt(file, S) /\ listed' = CallsAt(file, Listable(file))
      /\ next_reservation_id' = Max({file[i].id : i \in S} \cup {0})
      /\ books' = [op \in Ops |-> Remembered(file, op)]
  <2>1. phase # "serving" /\ Restored(file) = S
    BY RestoredIs DEF replay
  <2> QED BY <2>1 DEF replay
<1>2. S = {i \in DOMAIN file : file[i].kind = "retained" /\ ~ClosedBy(file, Len(file), file[i].call)}
  BY OpenLines
<1> HIDE DEF S
<1>a. synced = Len(file)
  BY <1>1 DEF JTyped
<1>3. door = NoRecord
  BY <1>1 DEF Idle
<1>4. next_reservation_id' \in Nat /\ \A i \in S : file[i].id =< next_reservation_id'
  <2>1. S \subseteq DOMAIN file /\ \A i \in S : file[i].id \in Nat
    BY <1>2, FileIs
  <2> QED BY <1>1, <2>1, NextIs
<1>5. listed' \subseteq held'
  <2>1. Restored(file) = S
    BY <1>1, RestoredIs DEF S
  <2> QED BY <1>1, <2>1 DEF Listable, CallsAt
<1>6. \A k \in held' : \E i \in DOMAIN file : /\ IsLine(file, i, "retained", k)
                                              /\ ~ClosedBy(file, Len(file), k)
  BY <1>1, <1>2 DEF CallsAt, IsLine
<1>7. \A i \in DOMAIN file : file[i].kind = "retained" /\ ~ClosedBy(file, Len(file), file[i].call) =>
        file[i].call \in held'
  BY <1>1, <1>2 DEF CallsAt
<1>8. \A k \in held' : k \in Calls /\ told[k] # "" /\ id[k] # 0
  <2>1. \A k \in held' : k \in Calls /\ told[k] # ""
    <3> SUFFICES ASSUME NEW k \in held' PROVE k \in Calls /\ told[k] # ""
      OBVIOUS
    <3>1. PICK i \in DOMAIN file : file[i].kind = "retained" /\ file[i].call = k
      BY <1>6 DEF IsLine
    <3>2. k \in Calls
      BY <3>1, FileIs
    <3> QED BY <3>1, <3>2 DEF LinesSay
  <2> QED BY <2>1 DEF Idle
<1>9. ASSUME NEW op \in Ops
      PROVE  \/ /\ books'[op] = NoRecord
                /\ \A i \in DOMAIN file : ~(file[i].kind = "closure" /\ file[i].op = op)
             \/ \E m \in DOMAIN file :
                  /\ books'[op] = file[m] /\ file[m].kind = "closure" /\ file[m].op = op
                  /\ \A i \in DOMAIN file : file[i].kind = "closure" /\ file[i].op = op => i =< m
  BY <1>1, RememberedIs
<1>10. \A i \in DOMAIN file : file[i].kind = "closure" =>
         /\ file[i] \in Doing /\ file[i].call \in Calls /\ file[i].start =< starts
         /\ file[i].start < starts /\ begun[file[i].call] # "" /\ told[file[i].call] # ""
  BY <1>1, FileIs DEF LinesSay, IsClosure
<1>11. \A op \in Ops : books'[op] # NoRecord =>
         \E m \in DOMAIN file : books'[op] = file[m] /\ file[m].kind = "closure" /\ file[m].op = op
  BY <1>9
<1>12. JTyped'
  <2>1. \A op \in Ops : books'[op] # NoRecord => IsClosure(books[op])' /\ books'[op].op = op
    BY <1>1, <1>10, <1>11 DEF IsClosure
  <2>2. held' \subseteq Calls /\ listed' \subseteq Calls /\ DOMAIN books' = Ops
    BY <1>1, <1>5, <1>8
  <2>3. \A op \in Ops : answers'[op].is = "ok" => IsClosure(answers[op].record)' /\ answers'[op].record.op = op
    BY <1>1 DEF JTyped, IsClosure
  <2> QED BY <1>1, <1>3, <1>4, <1>a, <2>1, <2>2, <2>3 DEF JTyped
<1>13. Idle'
  <2>1. InFlight' = {}
    BY <1>1, <1>8 DEF InFlight
  <2>2. \A op \in Ops : books'[op] # NoRecord => books'[op].start < starts /\ begun[books'[op].call] # ""
    <3> SUFFICES ASSUME NEW op \in Ops, books'[op] # NoRecord
                 PROVE  books'[op].start < starts /\ begun[books'[op].call] # ""
      OBVIOUS
    <3>1. PICK m \in DOMAIN file : books'[op] = file[m] /\ file[m].kind = "closure"
      BY <1>11
    <3> QED BY <1>10, <3>1
  <2>3. \A k \in Calls : /\ k \in held' \cup listed' \/ told[k] # "" => id[k] # 0
                         /\ k \in listed' \/ begun[k] # "" => told[k] # ""
    BY <1>5, <1>8 DEF Idle
  <2> QED BY <1>1, <1>3, <2>1, <2>2, <2>3 DEF Idle
<1>14. LinesSay'
  BY <1>1, <1>10 DEF LinesSay, IsClosure, IsLine
<1>15. TornEnded'
  BY <1>1 DEF TornEnded
<1>16. IdsApart'
  <2>1. InFlight' = {}
    BY <1>1, <1>8 DEF InFlight
  <2>2. \A i, j \in DOMAIN file' :
          /\ file'[i].kind = "retained" /\ file'[j].kind = "retained"
          /\ file'[i].id = file'[j].id /\ i # j
          => ClosedBy(file', synced', file'[i].call) \/ ClosedBy(file', synced', file'[j].call)
    BY <1>1 DEF IdsApart
  <2>3. \A i \in DOMAIN file' : file'[i].kind = "retained" =>
          file'[i].id =< next_reservation_id' \/ ClosedBy(file', synced', file'[i].call)
    BY <1>1, <1>2, <1>4, <1>a
  <2> QED BY <2>1, <2>2, <2>3 DEF IdsApart
<1>17. WordKept'
  <2> SUFFICES ASSUME NEW k \in Calls, told[k] = "journaled", begun[k] = ""
               PROVE  IsKept(file, synced, k) /\ k \in held'
    BY <1>1 DEF WordKept
  <2>1. IsKept(file, synced, k)
    BY DEF WordKept
  <2>2. ~ClosedBy(file, Len(file), k)
    BY <1>10 DEF ClosedBy, IsLine
  <2>3. k \in held'
    BY <1>7, <2>1, <2>2 DEF IsKept, IsLine
  <2> QED BY <2>1, <2>3
(* What is closed, or not in the file, is not taken up again. *)
<1>18. \A k \in Calls : ClosedBy(file, synced, k) \/ ~IsKept(file, Len(file), k) => k \notin held' \cup listed'
  <2>1. \A k \in held' : ~ClosedBy(file, synced, k) /\ IsKept(file, Len(file), k)
    BY <1>6, <1>a, FileIs DEF IsKept
  <2> QED BY <1>5, <2>1
<1>19. \A k \in Calls : Gone(k) => Gone(k)'
  BY <1>1, <1>18 DEF Gone
<1>20. \A k \in Calls : ClosedBy(file, Len(file), k) => Gone(k)'
  <2>1. \A k \in Calls : ClosedBy(file, Len(file), k) => told[k] # ""
    BY <1>10 DEF ClosedBy, IsLine
  <2> QED BY <1>1, <1>18, <1>a, <2>1 DEF Gone
<1>21. Closing'
  <2> SUFFICES ASSUME NEW k \in Calls, begun[k] # "astray"
               PROVE  /\ \A op \in Ops : books'[op] # NoRecord /\ books'[op].call = k => Gone(k)'
                      /\ \A op \in Ops : answers[op].is = "ok" /\ answers[op].record.call = k => Gone(k)'
                      /\ rows[k] # 0 => rows[k] = 1 /\ Gone(k)'
                      /\ ClosedBy(file, Len(file), k) => Gone(k)'
    BY <1>1, <1>3 DEF Closing, InDoorNow
  <2>1. \A op \in Ops : books'[op] # NoRecord /\ books'[op].call = k => Gone(k)'
    <3>1. \A op \in Ops : books'[op] # NoRecord /\ books'[op].call = k => ClosedBy(file, Len(file), k)
      BY <1>11, FileIs DEF ClosedBy, IsLine
    <3> QED BY <1>20, <3>1
  <2> QED BY <1>19, <1>20, <2>1 DEF Closing
<1>22. OneEvidence'
  <2>1. ASSUME NEW k \in Calls, NEW e, Traced(k, e)' PROVE Traced(k, e)
    <3>1. CASE \E i \in DOMAIN file' : IsLine(file', i, "closure", k) /\ file'[i].evidence = e
      BY <1>1, <3>1 DEF Traced, IsLine
    <3>2. CASE \E op \in Ops : books'[op] # NoRecord /\ books'[op].call = k /\ books'[op].evidence = e
      BY <1>11, <3>2 DEF Traced, IsLine
    <3>3. CASE \E op \in Ops : /\ answers'[op].is = "ok" /\ answers'[op].record.call = k
                               /\ answers'[op].record.evidence = e
      BY <1>1, <3>3 DEF Traced
    <3> QED BY <1>1, <1>3, <2>1, <3>1, <3>2, <3>3 DEF Traced
  <2> QED BY <1>1, <2>1, EvidenceRun
<1>23. DoorStands'
  BY <1>1, <1>3 DEF DoorStands, Counts
<1>24. BooksStand'
  <2>1. \A op \in Ops : books'[op] # NoRecord => books'[op].start # starts
    <3> SUFFICES ASSUME NEW op \in Ops, books'[op] # NoRecord PROVE books'[op].start # starts
      OBVIOUS
    <3>1. PICK m \in DOMAIN file : books'[op] = file[m] /\ file[m].kind = "closure"
      BY <1>11
    <3>2. starts \in Nat /\ file[m].start \in Nat /\ file[m].start < starts
      BY <1>10, <3>1 DEF JTyped, Doing
    <3> QED BY <3>1, <3>2, Order
  <2> QED BY <1>1, <2>1 DEF BooksStand, Counts
<1>25. AnswersKept'
  <2> SUFFICES ASSUME NEW op \in Ops, answers[op].is = "ok", Counts(answers[op].record),
                      NEW d, d = answers[op].record
               PROVE  /\ starts =< d.start + 1 => books'[op] = d
                      /\ d.start < starts
    BY <1>1 DEF AnswersKept, Counts, Live
  <2>1. d.call \in Calls /\ d.kind = "closure" /\ d.op = op /\ d.start \in Nat /\ starts \in Nat
    BY RecordsAre DEF JTyped
  <2>2. d.start < starts
    BY <1>1 DEF AnswersKept
  <2>3. ASSUME starts =< d.start + 1 PROVE books'[op] = d
    <3>1. starts = d.start + 1
      BY <2>1, <2>2, <2>3, Order
    <3>2. IsLast(file, synced, op, d)
      BY <1>1, <3>1 DEF AnswersKept
    <3>3. PICK i \in DOMAIN file :
            /\ file[i] = d /\ \A j \in DOMAIN file : file[j].kind = "closure" /\ file[j].op = op => j =< i
      BY <3>2 DEF IsLast
    <3>4. PICK m \in DOMAIN file :
            /\ books'[op] = file[m] /\ file[m].kind = "closure" /\ file[m].op = op
            /\ \A j \in DOMAIN file : file[j].kind = "closure" /\ file[j].op = op => j =< m
      BY <1>9, <2>1, <3>3
    <3>5. i =< m /\ m =< i
      BY <2>1, <3>3, <3>4
    <3>6. i = m
      BY <3>5, FileIs
    <3> QED BY <3>3, <3>4, <3>6
  <2> QED BY <2>2, <2>3
<1> QED BY <1>12, <1>13, <1>14, <1>15, <1>16, <1>17, <1>21, <1>22, <1>23, <1>24, <1>25

(* A rewrite that failed leaves the journal as it was. *)
LEMMA RewriteNothingKeeps ==
  ASSUME JInv, rewrite("nothing")
  PROVE  JInv'
<1> USE DEF JInv
<1>1. /\ phase = "replayed" /\ phase' = "serving" /\ file' = file /\ linked' = TRUE
      /\ synced' = Len(file) /\ starts' = starts /\ next_reservation_id' = next_reservation_id
      /\ id' = id /\ held' = held /\ listed' = listed /\ books' = books /\ door' = door
      /\ rows' = rows /\ told' = told /\ answers' = answers /\ begun' = begun
  BY DEF rewrite
<1>2. synced' = synced
  BY <1>1 DEF JTyped
<1>3. JTyped'
  BY <1>1, <1>2 DEF JTyped, IsClosure, IsDoor
<1>4. Idle'
  BY <1>1 DEF Idle, InFlight
<1>5. LinesSay'
  BY <1>1 DEF LinesSay, IsClosure, IsLine
<1>6. TornEnded'
  BY <1>1, <1>2 DEF TornEnded
<1>7. IdsApart'
  <2>1. InFlight' = InFlight /\ Live /\ Live'
    BY <1>1 DEF InFlight, Live
  <2> QED BY <1>1, <1>2, <2>1 DEF IdsApart, ClosedBy, IsLine
<1>8. WordKept'
  BY <1>1, <1>2 DEF WordKept, Live, IsKept, IsLine
<1>9. \A k \in Calls : Gone(k) => Gone(k)'
  BY <1>1, <1>2 DEF Gone, ClosedBy, IsKept, IsLine
<1>10. Closing'
  BY <1>1, <1>2, <1>9 DEF Closing, InDoorNow, ClosedBy, IsLine
<1>11. OneEvidence'
  BY <1>1 DEF OneEvidence, Traced, IsLine
<1>12. DoorStands' /\ BooksStand' /\ AnswersKept'
  BY <1>1, <1>2 DEF DoorStands, BooksStand, AnswersKept, Counts, IsLast, Live
<1> QED BY <1>3, <1>4, <1>5, <1>6, <1>7, <1>8, <1>10, <1>11, <1>12

(* A rewrite drops a record only with the closure that names it. *)
LEMMA RewriteKeeps ==
  ASSUME JInv, NEW outcome, outcome # "nothing", rewrite(outcome)
  PROVE  JInv'
<1> USE DEF JInv
<1>1. /\ phase = "replayed" /\ phase' = "serving" /\ file' = keep(file) /\ linked' \in BOOLEAN
      /\ synced' = Len(file') /\ starts' = starts /\ next_reservation_id' = next_reservation_id
      /\ id' = id /\ held' = held /\ listed' = listed /\ books' = books /\ door' = door
      /\ rows' = rows /\ told' = told /\ answers' = answers /\ begun' = begun
  BY DEF rewrite
<1>2. synced = Len(file) /\ door = NoRecord
  BY <1>1 DEF JTyped, Idle
<1>3. StillOpen(file) = {i \in DOMAIN file : file[i].kind = "retained"
                                             /\ ~ClosedBy(file, Len(file), file[i].call)}
  BY OpenLines
<1>4. /\ file' \in Seq(JLines \cup {Torn, Newline})
      /\ \A n \in DOMAIN file' : \E i \in DOMAIN file :
           /\ file'[n] = file[i] /\ file[i].kind = "retained"
           /\ ~ClosedBy(file, Len(file), file[i].call)
      /\ \A i \in DOMAIN file : file[i].kind = "retained" /\ ~ClosedBy(file, Len(file), file[i].call) =>
           \E n \in DOMAIN file' : file'[n] = file[i]
      /\ \A m, n \in DOMAIN file' : file'[m].call = file'[n].call => m = n
  BY <1>1, <1>3, KeepIs
<1>5. Len(file') \in Nat /\ DOMAIN file' = 1 .. Len(file') /\ synced' \in 0 .. Len(file')
  <2>1. PICK g : g = file' /\ g \in Seq(JLines \cup {Torn, Newline})
    BY <1>4
  <2>2. Len(g) \in Nat /\ DOMAIN g = 1 .. Len(g)
    <3> DEFINE All == JLines \cup {Torn, Newline}
    <3>1. g \in Seq(All)
      BY <2>1
    <3> HIDE DEF All
    <3> QED BY <3>1
  <2>3. Len(g) \in 0 .. Len(g)
    BY <2>2
  <2> QED BY <1>1, <2>1, <2>2, <2>3
<1>6. \A n \in DOMAIN file' : file'[n].kind = "retained"
  BY <1>4
<1>7. JTyped'
  BY <1>1, <1>4, <1>5 DEF JTyped, IsClosure, IsDoor
<1>8. Idle'
  BY <1>1 DEF Idle, InFlight
<1>9. LinesSay'
  <2> SUFFICES ASSUME NEW n \in DOMAIN file'
               PROVE  /\ file'[n].id = id[file'[n].call] /\ told[file'[n].call] # ""
                      /\ \A j \in DOMAIN file' : IsLine(file', j, "retained", file'[n].call) => n = j
    BY <1>1, <1>6 DEF LinesSay
  <2>1. PICK i \in DOMAIN file : file'[n] = file[i] /\ file[i].kind = "retained"
    BY <1>4
  <2>2. file'[n].id = id[file'[n].call] /\ told[file'[n].call] # ""
    BY <2>1 DEF LinesSay
  <2> QED BY <1>4, <2>2 DEF IsLine
<1>10. TornEnded'
  BY <1>6 DEF TornEnded
<1>11. InFlight = {} /\ InFlight' = {}
  BY <1>1 DEF Idle, InFlight
<1>12. IdsApart'
  <2>1. ASSUME NEW m \in DOMAIN file', NEW n \in DOMAIN file', file'[m].id = file'[n].id PROVE m = n
    <3>1. PICK i \in DOMAIN file : /\ file'[m] = file[i] /\ file[i].kind = "retained"
                                   /\ ~ClosedBy(file, synced, file[i].call)
      BY <1>2, <1>4
    <3>2. PICK j \in DOMAIN file : /\ file'[n] = file[j] /\ file[j].kind = "retained"
                                   /\ ~ClosedBy(file, synced, file[j].call)
      BY <1>2, <1>4
    <3>3. i = j
      BY <2>1, <3>1, <3>2 DEF IdsApart
    <3> QED BY <1>4, <3>1, <3>2, <3>3
  <2>2. ASSUME NEW n \in DOMAIN file' PROVE file'[n].id =< next_reservation_id'
    <3>1. PICK i \in DOMAIN file : /\ file'[n] = file[i] /\ file[i].kind = "retained"
                                   /\ ~ClosedBy(file, synced, file[i].call)
      BY <1>2, <1>4
    <3> QED BY <1>1, <3>1 DEF IdsApart, Live
  <2> QED BY <1>11, <2>1, <2>2 DEF IdsApart
<1>13. \A k \in Calls : IsKept(file, Len(file), k) /\ ~ClosedBy(file, Len(file), k) <=> IsKept(file', Len(file'), k)
  <2> SUFFICES ASSUME NEW k \in Calls
               PROVE  IsKept(file, Len(file), k) /\ ~ClosedBy(file, Len(file), k) <=> IsKept(file', Len(file'), k)
    OBVIOUS
  <2>1. ASSUME IsKept(file', Len(file'), k) PROVE IsKept(file, Len(file), k) /\ ~ClosedBy(file, Len(file), k)
    <3>1. PICK n \in DOMAIN file' : file'[n].call = k
      BY <2>1 DEF IsKept, IsLine
    <3>2. PICK i \in DOMAIN file : /\ file'[n] = file[i] /\ file[i].kind = "retained"
                                   /\ ~ClosedBy(file, Len(file), file[i].call)
      BY <1>4
    <3> QED BY <3>1, <3>2, FileIs DEF IsKept, IsLine
  <2>2. ASSUME IsKept(file, Len(file), k), ~ClosedBy(file, Len(file), k) PROVE IsKept(file', Len(file'), k)
    <3>1. PICK i \in DOMAIN file : file[i].kind = "retained" /\ file[i].call = k
      BY <2>2 DEF IsKept, IsLine
    <3>2. PICK n \in DOMAIN file' : file'[n] = file[i]
      BY <1>4, <2>2, <3>1
    <3> QED BY <1>5, <3>1, <3>2 DEF IsKept, IsLine
  <2> QED BY <2>1, <2>2
<1>14. \A k : ~ClosedBy(file', Len(file'), k)
  BY <1>6 DEF ClosedBy, IsLine
<1>15. WordKept'
  <2> SUFFICES ASSUME NEW k \in Calls, told[k] = "journaled", begun[k] = ""
               PROVE  IsKept(file', Len(file'), k) /\ k \in held
    BY <1>1 DEF WordKept
  <2>1. IsKept(file, Len(file), k) /\ k \in held
    BY <1>1, <1>2 DEF WordKept, Live
  <2>2. ~ClosedBy(file, Len(file), k)
    BY DEF ClosedBy, IsLine, LinesSay
  <2> QED BY <1>13, <2>1, <2>2
<1>16. \A k \in Calls : Gone(k) => Gone(k)'
  BY <1>1, <1>2, <1>13 DEF Gone
<1>17. Closing'
  BY <1>1, <1>2, <1>14, <1>16 DEF Closing, InDoorNow
<1>18. OneEvidence'
  <2>1. ASSUME NEW k \in Calls, NEW e, Traced(k, e)' PROVE Traced(k, e)
    BY <1>1, <1>6, <2>1 DEF Traced, IsLine
  <2> QED BY <1>1, <2>1, EvidenceRun
<1>19. DoorStands'
  BY <1>1, <1>2 DEF DoorStands, Counts
<1>20. BooksStand'
  <2>1. \A op \in Ops : books[op] # NoRecord => books[op].start # starts
    <3> SUFFICES ASSUME NEW op \in Ops, books[op] # NoRecord PROVE books[op].start # starts
      OBVIOUS
    <3>1. books[op].start < starts /\ books[op].start \in Nat /\ starts \in Nat
      BY <1>1, RecordsAre DEF Idle, JTyped
    <3> QED BY <3>1, Order
  <2> QED BY <1>1, <2>1 DEF BooksStand, Counts
<1>21. AnswersKept'
  BY <1>1 DEF AnswersKept, Counts, Live
<1> QED BY <1>7, <1>8, <1>9, <1>10, <1>12, <1>15, <1>17, <1>18, <1>19, <1>20, <1>21

-----------------------------------------------------------------------------
(* An empty journal. *)
LEMMA JournalStarts ==
  JournalInit => JInv
<1> SUFFICES ASSUME JournalInit PROVE JInv
  OBVIOUS
<1>1. /\ file = <<>> /\ linked = TRUE /\ synced = 0 /\ phase = "down" /\ starts = 0
      /\ next_reservation_id = 0 /\ id = [k \in Calls |-> 0] /\ held = {} /\ listed = {}
      /\ books = [op \in Ops |-> NoRecord] /\ door = NoRecord /\ rows = [k \in Calls |-> 0]
      /\ told = [k \in Calls |-> ""] /\ begun = [k \in Calls |-> ""]
      /\ answers = [op \in Ops |-> NoAnswer]
  BY DEF JournalInit
<1>2. NoAnswer.is # "ok"
  BY DEF NoAnswer
<1>3. DOMAIN file = {} /\ Len(file) = 0 /\ file \in Seq(JLines \cup {Torn, Newline})
  <2> DEFINE All == JLines \cup {Torn, Newline}
  <2> HIDE DEF All
  <2>0. <<>> \in Seq(All)
    OBVIOUS
  <2>1. file \in Seq(All)
    BY <1>1, <2>0
  <2>2. Len(file) = 0
    BY <1>1
  <2>3. DOMAIN file = 1 .. 0
    BY <2>1, <2>2
  <2>4. 1 .. 0 = {}
    OBVIOUS
  <2> QED BY <2>1, <2>2, <2>3, <2>4 DEF All
<1>4. JTyped
  <2>1. 0 \in 0 .. 0 /\ 0 \in Nat
    OBVIOUS
  <2>2. synced \in 0 .. Len(file) /\ synced = Len(file) /\ starts \in Nat /\ next_reservation_id \in Nat
    BY <1>1, <1>3, <2>1
  <2>3. id \in [Calls -> Nat] /\ rows \in [Calls -> Nat]
    BY <1>1
  <2>4. /\ told \in [Calls -> {"", "journaled", "unwritten", "astray"}]
        /\ begun \in [Calls -> {"", "begun", "unsynced", "astray"}]
    BY <1>1
  <2>5. /\ DOMAIN books = Ops /\ DOMAIN answers = Ops /\ \A op \in Ops : books[op] = NoRecord
        /\ \A op \in Ops : answers[op].is # "ok"
    BY <1>1, <1>2
  <2>6. held \subseteq Calls /\ listed \subseteq Calls /\ linked \in BOOLEAN
        /\ phase \in {"down", "opened", "replayed", "serving"}
    BY <1>1
  <2> QED BY <1>1, <1>3, <2>2, <2>3, <2>4, <2>5, <2>6 DEF JTyped
<1>5. \A n, k : ~ClosedBy(file, n, k)
  BY <1>3 DEF ClosedBy, IsLine
<1>6. Idle /\ LinesSay /\ TornEnded /\ IdsApart
  BY <1>1, <1>3 DEF Idle, LinesSay, TornEnded, IdsApart, InFlight, Live
<1>7. WordKept /\ Closing
  BY <1>1, <1>2, <1>5 DEF WordKept, Closing, InDoorNow
<1>8. OneEvidence
  BY <1>1, <1>2, <1>3 DEF OneEvidence, Traced, IsLine
<1>9. DoorStands /\ BooksStand /\ AnswersKept
  BY <1>1, <1>2 DEF DoorStands, BooksStand, AnswersKept, Counts
<1> QED BY <1>4, <1>6, <1>7, <1>8, <1>9 DEF JInv

(* Every step keeps the invariant. *)
LEMMA JournalSteps ==
  ASSUME "part" \notin Faults, JInv, [JournalNext]_jvars
  PROVE  JInv'
<1>1. CASE open
  BY <1>1, OpenKeeps
<1>2. CASE replay
  BY <1>2, ReplayKeeps
<1>3. ASSUME NEW outcome, rewrite(outcome) PROVE JInv'
  BY <1>3, RewriteKeeps, RewriteNothingKeeps
<1>4. ASSUME NEW k \in Calls, Dispatch(k) \/ SettleHeld(k) PROVE JInv'
  BY <1>4, DispatchKeeps, SettleHeldKeeps
<1>5. ASSUME NEW k \in Calls, NEW outcome \in WriteOutcomes, retain(k, outcome) PROVE JInv'
  BY <1>5, RetainKeeps
<1>6. ASSUME NEW op \in Ops, Replayed(op) PROVE JInv'
  BY <1>6, ReplayedKeeps
<1>7. ASSUME NEW op \in Ops, NEW k \in Calls, NEW evidence \in Kinds, NEW outcome \in WriteOutcomes,
             append_closure(op, k, evidence, outcome)
      PROVE  JInv'
  <2>1. CASE outcome = "ok"
    BY <1>7, <2>1, ClosureBegun
  <2>2. CASE outcome # "ok"
    BY <1>7, <2>2, ClosureRefused
  <2> QED BY <2>1, <2>2
<1>8. CASE SettleClosed \/ RecordClosed \/ note
  BY <1>8, SettleClosedKeeps, RecordClosedKeeps, NoteKeeps
<1>9. CASE Crash
  BY <1>9, CrashKeeps
<1>10. ASSUME NEW k \in Calls, CrashRetaining(k) PROVE JInv'
  BY <1>10, CrashRetainingKeeps
<1>11. ASSUME NEW op \in Ops, NEW k \in Calls, NEW evidence \in Kinds, CrashClosing(op, k, evidence)
       PROVE  JInv'
  BY <1>11, CrashClosingKeeps
<1>12. CASE UNCHANGED jvars
  <2> USE DEF JInv
  <2>1. /\ file' = file /\ linked' = linked /\ synced' = synced /\ phase' = phase /\ starts' = starts
        /\ next_reservation_id' = next_reservation_id /\ id' = id /\ held' = held /\ listed' = listed
        /\ books' = books /\ door' = door /\ rows' = rows /\ told' = told /\ begun' = begun
        /\ answers' = answers
    BY <1>12 DEF jvars
  <2>2. JTyped'
    BY <2>1 DEF JTyped, IsClosure, IsDoor
  <2>3. Idle'
    BY <2>1 DEF Idle, InFlight
  <2>4. LinesSay'
    BY <2>1 DEF LinesSay, IsClosure, IsLine
  <2>5. TornEnded'
    BY <2>1 DEF TornEnded
  <2>6. \A k : /\ ClosedBy(file, synced, k)' <=> ClosedBy(file, synced, k)
               /\ ClosedBy(file, Len(file), k)' <=> ClosedBy(file, Len(file), k)
               /\ IsKept(file, synced, k)' <=> IsKept(file, synced, k)
               /\ IsKept(file, Len(file), k)' <=> IsKept(file, Len(file), k)
               /\ InDoorNow(k)' <=> InDoorNow(k)
    BY <2>1 DEF ClosedBy, IsKept, IsLine, InDoorNow
  <2>7. Live' = Live /\ InFlight' = InFlight
    BY <2>1 DEF Live, InFlight
  <2>8. IdsApart'
    BY <2>1, <2>6, <2>7 DEF IdsApart
  <2>9. WordKept'
    BY <2>1, <2>6, <2>7 DEF WordKept
  <2>10. \A k : Gone(k)' <=> Gone(k)
    BY <2>1, <2>6 DEF Gone
  <2>11. Closing'
    BY <2>1, <2>6, <2>10 DEF Closing
  <2>12. OneEvidence'
    BY <2>1 DEF OneEvidence, Traced, IsLine
  <2>13. DoorStands' /\ BooksStand' /\ AnswersKept'
    BY <2>1 DEF DoorStands, BooksStand, AnswersKept, Counts, IsLast, Live
  <2> QED BY <2>2, <2>3, <2>4, <2>5, <2>8, <2>9, <2>11, <2>12, <2>13
<1> QED BY <1>1, <1>2, <1>3, <1>4, <1>5, <1>6, <1>7, <1>8, <1>9, <1>10, <1>11, <1>12 DEF JournalNext

(* And the invariant is more than the closure's word. *)
LEMMA JournalMeans ==
  ASSUME JInv
  PROVE  ClosureStands
<1> USE DEF JInv
<1>1. ChargedOnce
  <2> SUFFICES ASSUME NEW k \in Calls, begun[k] # "astray"
               PROVE  /\ rows[k] =< 1
                      /\ begun[k] # "unsynced" =>
                           \A op \in Ops :
                             answers[op].is = "ok" /\ answers[op].record.call = k /\ rows[k] = 1 =>
                               answers[op].record.evidence = "observed"
    BY DEF ChargedOnce
  <2>1. rows[k] = 0 \/ rows[k] = 1
    BY DEF Closing
  <2>2. rows[k] =< 1
    BY <2>1
  <2>3. ASSUME begun[k] # "unsynced", NEW op \in Ops, answers[op].is = "ok",
               answers[op].record.call = k, rows[k] = 1
        PROVE  answers[op].record.evidence = "observed"
    <3>1. ~Traced(k, "no_charge")
      BY <2>3 DEF OneEvidence
    <3>2. answers[op].record.evidence \in Kinds
      BY <2>3, RecordsAre DEF Doing
    <3>3. answers[op].record.evidence # "no_charge"
      BY <2>3, <3>1 DEF Traced
    <3> QED BY <3>2, <3>3 DEF Kinds
  <2> QED BY <2>2, <2>3
<1>2. ClosedForGood
  BY RecordsAre DEF ClosedForGood, Closing, Gone
<1>3. JournaledHeld
  BY DEF JournaledHeld, WordKept, Live
<1>4. SameAnswer
  BY RecordsAre DEF SameAnswer, AnswersKept, Counts, Live
<1> QED BY <1>1, <1>2, <1>3, <1>4 DEF ClosureStands

(* A closure's word, whole (closure.rs:341-557, retainedjournal.rs:187-481 *)
(* and its docs at 1-40): over every start, crash, failed write and failed *)
(* reopen, as long as a failed write leaves no part of its line behind, a  *)
(* retained call is charged once, stays closed, is held while no closure   *)
(* of it was begun, and the operation is answered as before.               *)
THEOREM JournalStands ==
  "part" \notin Faults => (JournalSpec => []ClosureStands)
<1> SUFFICES ASSUME "part" \notin Faults PROVE JournalSpec => []ClosureStands
  OBVIOUS
<1>1. JournalInit => JInv
  BY JournalStarts
<1>2. JInv /\ [JournalNext]_jvars => JInv'
  BY JournalSteps
<1>3. JInv => ClosureStands
  BY JournalMeans
<1> QED BY <1>1, <1>2, <1>3, PTL DEF JournalSpec
=============================================================================
