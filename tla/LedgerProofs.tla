---------------------------- MODULE LedgerProofs ----------------------------
(***************************************************************************)
(* Proofs about Ledger, for every set of runs, every i64::MAX, every depth *)
(* cap and every bound.                                                    *)
(***************************************************************************)
EXTENDS Ledger, FiniteSetTheorems, TLAPS

-----------------------------------------------------------------------------
(* Money arithmetic stays in Money. *)
LEMMA MoneyArithmetic ==
  ASSUME NEW a \in Money, NEW b \in Money
  PROVE  /\ SaturatingAdd(a, b) \in Money
         /\ SaturatingSub(a, b) \in Money
         /\ SaturatingAdd(a, b) =< a + b
         /\ SaturatingAdd(a, b) >= a
         /\ a + b =< MaxMoney => SaturatingAdd(a, b) = a + b
BY MoneyAssumption DEF Money, SaturatingAdd, SaturatingSub

(* A walk is a non-empty path of runs, the leaf first. *)
LEMMA WalkShape ==
  ASSUME NEW rs, NEW run, NEW path \in Walks(rs, run)
  PROVE  /\ path \in Seq(Runs)
         /\ Len(path) \in Nat \ {0}
         /\ DOMAIN path = 1 .. Len(path)
         /\ path[1] = run
         /\ Len(path) =< MaxChainDepth
<1>1. PICK n \in 1 .. MaxChainDepth : path \in [1 .. n -> Runs]
  BY DEF Walks, Paths
<1>2. n \in Nat \ {0} /\ path \in Seq(Runs) /\ Len(path) = n
  BY <1>1, DepthAssumption
<1> QED BY <1>1, <1>2, DepthAssumption DEF Walks

(* The chain recorded in a handle is a sequence of links. *)
LEMMA ChainShape ==
  ASSUME NEW rs \in [Runs -> RunState], NEW run, NEW path \in Walks(rs, run)
  PROVE  /\ ChainOf(rs, path) \in Seq(ChainLink)
         /\ Len(ChainOf(rs, path)) = Len(path)
         /\ DOMAIN ChainOf(rs, path) = DOMAIN path
<1>1. path \in Seq(Runs) /\ Len(path) \in Nat /\ DOMAIN path = 1 .. Len(path)
  BY WalkShape
<1>2. \A i \in 1 .. Len(path) : path[i] \in Runs
  BY <1>1
<1>3. ChainOf(rs, path) \in [1 .. Len(path) -> ChainLink]
  BY <1>1, <1>2 DEF ChainOf, ChainLink, RunState
<1>4. DOMAIN ChainOf(rs, path) = 1 .. Len(path)
  BY <1>1 DEF ChainOf
<1> QED BY <1>1, <1>3, <1>4

(* A freshly inserted entry is a run state. *)
LEMMA FreshType ==
  ASSUME NEW b \in Money, NEW p \in Runs \cup {NoParent}, NEW g \in Nat
  PROVE  Fresh(b, p, g) \in RunState
BY MoneyAssumption DEF Fresh, RunState, Money

-----------------------------------------------------------------------------
(* Admit keeps the types. *)
LEMMA AdmitType ==
  ASSUME TypeOK, NEW rs \in [Runs -> RunState], NEW run \in Runs,
         NEW estimate \in Money, NEW path \in Walks(rs, run),
         Admit(rs, run, estimate, path)
  PROVE  /\ runs' \in [Runs -> RunState]
         /\ next_reservation' \in Nat
         /\ outstanding' \subseteq Nat
         /\ handles' \subseteq Reservation
<1>1. \A r \in Runs : SaturatingAdd(rs[r].reserved, estimate) \in Money
  BY MoneyArithmetic DEF RunState
<1>2. runs' \in [Runs -> RunState]
  <2>1. ASSUME NEW s \in RunState, NEW m \in Money, NEW n \in Nat
        PROVE  [s EXCEPT !.reserved = m, !.admitted_ever = TRUE, !.steps = n]
                 \in RunState
    BY DEF RunState
  <2>2. \A r \in Runs : (IF r = run THEN rs[r].steps + 1 ELSE rs[r].steps) \in Nat
    BY DEF RunState
  <2>3. \A r \in Runs :
          [rs[r] EXCEPT !.reserved = SaturatingAdd(@, estimate),
                        !.admitted_ever = TRUE,
                        !.steps = IF r = run THEN @ + 1 ELSE @] \in RunState
    BY <1>1, <2>1, <2>2
  <2> QED BY <2>3 DEF Admit
<1>3. next_reservation' \in Nat /\ outstanding' \subseteq Nat
  <2>1. /\ next_reservation' = next_reservation + 1
        /\ outstanding' = outstanding \cup {next_reservation + 1}
    BY Zenon DEF Admit
  <2> QED BY <2>1 DEF TypeOK
<1>4. ChainOf(rs, path) \in Seq(ChainLink)
  BY ChainShape
<1>5. handles' \subseteq Reservation
  <2> DEFINE h == [id |-> next_reservation + 1, run_id |-> run,
                   amount |-> estimate, step |-> rs[run].steps + 1,
                   generation |-> rs[run].generation,
                   chain |-> ChainOf(rs, path)]
  <2>1. h \in Reservation
    BY <1>4 DEF TypeOK, Reservation, RunState
  <2>2. handles' = handles \cup {h}
    BY Zenon DEF Admit
  <2> QED BY <2>1, <2>2 DEF TypeOK
<1> QED BY <1>2, <1>3, <1>5

LEMMA TypeStep == TypeOK /\ [Next]_vars => TypeOK'
<1> SUFFICES ASSUME TypeOK, [Next]_vars PROVE TypeOK'
  OBVIOUS
<1>1. ASSUME NEW run \in Runs, NEW budget \in Budgets,
             NEW parent \in Runs \cup {NoParent},
             NEW basis \in {"Caller", "Operator"},
             open_run_as(run, budget, parent, basis)
      PROVE TypeOK'
  <2>0. budget \in Money
    BY InputsAssumption
  <2>1. CASE open_fresh(run, budget, parent)
    <3>1. Fresh(budget, parent, next_generation + 1) \in RunState
      BY <2>0, FreshType DEF TypeOK
    <3> QED BY <2>1, <3>1 DEF open_fresh, TypeOK
  <2>2. CASE open_held(run, budget, parent, basis)
    <3>1. runs[run] \in RunState
      BY DEF TypeOK
    <3>2. runs' \in [Runs -> RunState]
      BY <2>0, <2>2, <3>1 DEF open_held, TypeOK, RunState
    <3> QED BY <2>2, <3>2 DEF open_held, TypeOK
  <2> QED BY <1>1, <2>1, <2>2 DEF open_run_as
<1>2. ASSUME NEW run \in Runs, NEW estimate \in Amounts, reserve(run, estimate)
      PROVE TypeOK'
  <2>1. estimate \in Money
    BY InputsAssumption
  <2>2. PICK path \in Walks(runs, run) : Admit(runs, run, estimate, path)
    BY <1>2 DEF reserve
  <2> QED BY <1>2, <2>1, <2>2, AdmitType DEF reserve, TypeOK
<1>3. ASSUME NEW h \in handles, NEW actual \in Costs, settle(h, actual)
      PROVE TypeOK'
  <2>1. actual \in Money /\ h.amount \in Money
    BY InputsAssumption DEF TypeOK, Reservation
  <2>2. \A r \in Runs : /\ SaturatingSub(runs[r].reserved, h.amount) \in Money
                        /\ SaturatingAdd(runs[r].spent, actual) \in Money
    BY <2>1, MoneyArithmetic DEF TypeOK, RunState
  <2>3. runs' \in [Runs -> RunState]
    BY <1>3, <2>2 DEF settle, TypeOK, RunState
  <2> QED BY <1>3, <2>3 DEF settle, TypeOK
<1>4. ASSUME NEW run \in Runs, NEW amount \in Costs,
             NEW generation \in 1 .. MaxGenerations,
             seed_spend(run, amount, generation)
      PROVE TypeOK'
  <2>1. SaturatingAdd(runs[run].spent, amount) \in Money
    BY MoneyArithmetic, InputsAssumption DEF TypeOK, RunState
  <2>2. runs' \in [Runs -> RunState]
    BY <1>4, <2>1 DEF seed_spend, TypeOK, RunState
  <2> QED BY <1>4, <2>2 DEF seed_spend, TypeOK
<1>5. ASSUME NEW run \in Runs, close_run(run)
      PROVE TypeOK'
  <2>1. runs' \in [Runs -> RunState]
    BY <1>5 DEF close_run, TypeOK, RunState
  <2> QED BY <1>5, <2>1 DEF close_run, TypeOK
<1>6. ASSUME NEW run \in Runs, NEW estimate \in Amounts,
             reserve_unchecked(run, estimate)
      PROVE TypeOK'
  <2> DEFINE rs == IF ~IsOpen(runs[run])
                   THEN [runs EXCEPT ![run] = Fresh(0, NoParent, next_generation + 1)]
                   ELSE runs
  <2>1. /\ estimate \in Money /\ 0 \in Money
        /\ NoParent \in Runs \cup {NoParent}
        /\ next_generation + 1 \in Nat
    BY InputsAssumption, MoneyAssumption DEF Money, TypeOK
  <2>2. Fresh(0, NoParent, next_generation + 1) \in RunState
    BY <2>1, FreshType, Zenon
  <2>3. rs \in [Runs -> RunState]
    <3>1. runs \in [Runs -> RunState]
      BY DEF TypeOK
    <3> QED BY <2>2, <3>1
  <2>4. PICK path \in Walks(rs, run) : Admit(rs, run, estimate, path)
    BY <1>6 DEF reserve_unchecked
  <2>5. next_generation' \in Nat
    BY <1>6 DEF reserve_unchecked, TypeOK
  <2> HIDE DEF rs
  <2> QED BY <2>1, <2>3, <2>4, <2>5, AdmitType DEF TypeOK
<1>7. ASSUME UNCHANGED vars PROVE TypeOK'
  BY <1>7 DEF vars, TypeOK
<1> QED BY <1>1, <1>2, <1>3, <1>4, <1>5, <1>6, <1>7 DEF Next, EnforceNext

(* Every reachable state of the ledger is well typed: budgets, reservations *)
(* and spends are amounts Microusd can hold, whatever saturates.            *)
THEOREM TypeCorrect == Spec => []TypeOK
<1>1. Init => TypeOK
  <2> SUFFICES ASSUME Init PROVE TypeOK
    OBVIOUS
  <2>1. Absent \in RunState
    BY MoneyAssumption, FreshType DEF Absent, Money
  <2> QED BY <2>1 DEF Init, TypeOK
<1> QED BY <1>1, TypeStep, PTL DEF Spec

-----------------------------------------------------------------------------
(* Sums as cardinalities. *)

(* The tokens of reservations whose ids are bounded form a finite set. *)
LEMMA TokensFinite ==
  ASSUME NEW n \in Nat, NEW H \in SUBSET Reservation, \A h \in H : h.id \in 1 .. n
  PROVE  /\ IsFiniteSet(Tokens(H))
         /\ Cardinality(Tokens(H)) \in Nat
<1>1. IsFiniteSet(1 .. n) /\ IsFiniteSet(1 .. MaxMoney)
  BY FS_Interval, MoneyAssumption
<1>2. IsFiniteSet((1 .. n) \X (1 .. MaxMoney))
  BY <1>1, FS_Product
<1>3. \A h \in H : 1 .. h.amount \subseteq 1 .. MaxMoney
  BY MoneyAssumption DEF Reservation, Money
<1>4. Tokens(H) \subseteq (1 .. n) \X (1 .. MaxMoney)
  BY <1>3 DEF Tokens
<1> QED BY <1>2, <1>4, FS_Subset, FS_CardinalityType

(* A reservation of amount m is m tokens. *)
LEMMA TokensOfOne ==
  ASSUME NEW i, NEW m \in Nat
  PROVE  /\ IsFiniteSet({i} \X (1 .. m))
         /\ Cardinality({i} \X (1 .. m)) = m
<1>1. IsFiniteSet({i}) /\ Cardinality({i}) = 1
  BY FS_Singleton
<1>2. IsFiniteSet(1 .. m) /\ Cardinality(1 .. m) = m
  BY FS_Interval
<1>3. /\ IsFiniteSet({i} \X (1 .. m))
      /\ Cardinality({i} \X (1 .. m)) = Cardinality({i}) * Cardinality(1 .. m)
  BY <1>1, <1>2, FS_Product, Zenon
<1>4. Cardinality({i}) * Cardinality(1 .. m) = m
  BY <1>1, <1>2
<1> QED BY <1>3, <1>4

(* Adding a reservation with an id of its own adds its amount. *)
LEMMA TokensAdd ==
  ASSUME NEW n \in Nat, NEW H \in SUBSET Reservation, NEW k \in Reservation,
         \A h \in H : h.id \in 1 .. n,
         k.id \in 1 .. n,
         \A h \in H : h.id # k.id
  PROVE  Cardinality(Tokens(H \cup {k})) = Cardinality(Tokens(H)) + k.amount
<1> DEFINE T == {k.id} \X (1 .. k.amount)
<1>1. k.amount \in Nat
  BY MoneyAssumption DEF Reservation, Money
<1>2. IsFiniteSet(T) /\ Cardinality(T) = k.amount
  BY <1>1, TokensOfOne
<1>3. IsFiniteSet(Tokens(H)) /\ Cardinality(Tokens(H)) \in Nat
  BY TokensFinite
<1>4. Tokens(H \cup {k}) = Tokens(H) \cup T
  BY DEF Tokens
<1>5. Tokens(H) \cap T = {}
  BY DEF Tokens
<1>6. Cardinality(Tokens(H) \cap T) = 0
  BY <1>5, FS_EmptySet
<1>7. Cardinality(Tokens(H) \cup T)
        = Cardinality(Tokens(H)) + Cardinality(T) - Cardinality(Tokens(H) \cap T)
  BY <1>2, <1>3, FS_Union
<1>8. Cardinality(Tokens(H \cup {k})) = Cardinality(Tokens(H)) + k.amount - 0
  BY <1>2, <1>4, <1>6, <1>7, Zenon
<1> QED BY <1>1, <1>3, <1>8

-----------------------------------------------------------------------------
(* Ids and generations in use were issued by bump, and no two handles      *)
(* share an id.                                                            *)
Issued ==
  /\ \A h \in handles : h.id \in 1 .. next_reservation
  /\ \A h, k \in handles : h.id = k.id => h = k
  /\ \A h \in handles : \A i \in DOMAIN h.chain :
       h.chain[i].generation \in 1 .. next_generation
  /\ \A r \in Runs : runs[r].generation =< next_generation
  /\ outstanding \subseteq 1 .. next_reservation

(* The balance of one run: what ReservedCovered and ReservedExact say of it. *)
Balanced(r) ==
  /\ runs[r].reserved =< Liability(r)
  /\ Admitted(r) =< MaxMoney => runs[r].reserved = Liability(r)

IInv == TypeOK /\ Issued /\ \A r \in Runs : Balanced(r)

(* Those of H that hold a link on generation g of run r. *)
Holders(H, r, g) ==
  {h \in H : \E i \in DOMAIN h.chain :
                h.chain[i].run_id = r /\ h.chain[i].generation = g}

Held(r, g) == Cardinality(Tokens(Holders(Outstanding, r, g)))

Ever(r, g) == Cardinality(Tokens(Holders(handles, r, g)))

(* Liability and Admitted in terms of Holders. *)
LEMMA HoldersSums ==
  ASSUME NEW r
  PROVE  /\ Liability(r) = Held(r, runs[r].generation)
         /\ Liability(r)' = Held(r, runs[r].generation)'
         /\ Admitted(r) = Ever(r, runs[r].generation)
         /\ Admitted(r)' = Ever(r, runs[r].generation)'
BY DEF Liability, Admitted, Holders, Holds, Held, Ever, Outstanding

(* The sums are naturals, and what is outstanding was admitted. *)
LEMMA SumsAreNat ==
  ASSUME TypeOK, Issued, NEW r, NEW g
  PROVE  Held(r, g) \in Nat /\ Ever(r, g) \in Nat /\ Held(r, g) =< Ever(r, g)
<1>1. /\ Holders(handles, r, g) \in SUBSET Reservation
      /\ \A h \in Holders(handles, r, g) : h.id \in 1 .. next_reservation
      /\ Holders(Outstanding, r, g) \subseteq Holders(handles, r, g)
      /\ next_reservation \in Nat
  BY DEF Holders, Outstanding, TypeOK, Issued
<1>2. Tokens(Holders(Outstanding, r, g)) \subseteq Tokens(Holders(handles, r, g))
  BY <1>1 DEF Tokens
<1>3. /\ IsFiniteSet(Tokens(Holders(handles, r, g)))
      /\ Cardinality(Tokens(Holders(handles, r, g))) \in Nat
  BY <1>1, TokensFinite
<1> QED BY <1>2, <1>3, FS_Subset, FS_CardinalityType DEF Held, Ever

(* A generation that was never issued holds nothing. *)
LEMMA NewGenerationEmpty ==
  ASSUME TypeOK, Issued, NEW r, NEW g, g \notin 1 .. next_generation
  PROVE  Held(r, g) = 0 /\ Ever(r, g) = 0
<1>1. Holders(handles, r, g) = {} /\ Holders(Outstanding, r, g) = {}
  BY DEF Holders, Outstanding, Issued
<1>2. Tokens({}) = {}
  BY DEF Tokens
<1> QED BY <1>1, <1>2, FS_EmptySet DEF Held, Ever

(* The handle Admit issues is new, and is the only change to the handles. *)
LEMMA AdmitHandle ==
  ASSUME TypeOK, Issued, NEW rs \in [Runs -> RunState], NEW run \in Runs,
         NEW estimate \in Money, NEW path \in Walks(rs, run),
         Admit(rs, run, estimate, path)
  PROVE  \E k \in Reservation :
           /\ k.amount = estimate
           /\ k.chain = ChainOf(rs, path)
           /\ k.id = next_reservation + 1
           /\ k.id \in 1 .. next_reservation'
           /\ \A h \in handles : h.id # k.id
           /\ handles' = handles \cup {k}
           /\ outstanding' = outstanding \cup {k.id}
           /\ Outstanding' = Outstanding \cup {k}
<1> DEFINE k == [id |-> next_reservation + 1, run_id |-> run,
                 amount |-> estimate, step |-> rs[run].steps + 1,
                 generation |-> rs[run].generation,
                 chain |-> ChainOf(rs, path)]
<1>1. /\ next_reservation' = next_reservation + 1
      /\ outstanding' = outstanding \cup {k.id}
      /\ handles' = handles \cup {k}
  BY Zenon DEF Admit
<1>2. k \in Reservation
  <2>1. ChainOf(rs, path) \in Seq(ChainLink)
    BY ChainShape
  <2> QED BY <2>1 DEF TypeOK, Reservation, RunState
<1>3. k.amount = estimate /\ k.chain = ChainOf(rs, path) /\ k.id = next_reservation + 1
  OBVIOUS
<1>4. \A h \in handles : h.id # k.id
  BY <1>3 DEF Issued, TypeOK
<1>5. k.id \in 1 .. next_reservation'
  BY <1>1, <1>3 DEF TypeOK
<1> HIDE DEF k
<1>6. Outstanding' = Outstanding \cup {k}
  <2>1. k.id \notin outstanding
    BY <1>3 DEF Issued, TypeOK
  <2> QED BY <1>1, <1>4, <2>1 DEF Outstanding
<1> QED BY <1>1, <1>2, <1>3, <1>4, <1>5, <1>6

(* A new handle holds no run off its path. *)
LEMMA OffPathHolds ==
  ASSUME NEW rs, NEW path, NEW k, k.chain = ChainOf(rs, path), NEW r, NEW H, NEW g,
         \A j \in DOMAIN path : path[j] # r
  PROVE  Holders(H \cup {k}, r, g) = Holders(H, r, g)
<1>1. \A j \in DOMAIN k.chain : k.chain[j].run_id # r
  BY DEF ChainOf
<1> QED BY <1>1 DEF Holders

(* Admit adds the estimate to the sums of the runs on its path, and to      *)
(* nothing else; what it does to the reserved counters.                     *)
LEMMA AdmitSums ==
  ASSUME TypeOK, Issued, NEW rs \in [Runs -> RunState], NEW run \in Runs,
         NEW estimate \in Money, NEW path \in Walks(rs, run),
         Admit(rs, run, estimate, path), NEW r \in Runs
  PROVE  \/ /\ \E i \in DOMAIN path : path[i] = r
            /\ Liability(r)' = Held(r, rs[r].generation) + estimate
            /\ Admitted(r)' = Ever(r, rs[r].generation) + estimate
            /\ runs'[r].reserved = SaturatingAdd(rs[r].reserved, estimate)
         \/ /\ ~\E i \in DOMAIN path : path[i] = r
            /\ Liability(r)' = Held(r, rs[r].generation)
            /\ Admitted(r)' = Ever(r, rs[r].generation)
            /\ runs'[r].reserved = rs[r].reserved
<1> DEFINE g == rs[r].generation
<1>1. PICK k \in Reservation :
         /\ k.amount = estimate
         /\ k.chain = ChainOf(rs, path)
         /\ k.id = next_reservation + 1
         /\ \A h \in handles : h.id # k.id
         /\ handles' = handles \cup {k}
         /\ Outstanding' = Outstanding \cup {k}
  BY AdmitHandle
<1>2. /\ runs'[r].generation = g
      /\ runs'[r].reserved = IF \E i \in DOMAIN path : path[i] = r
                             THEN SaturatingAdd(rs[r].reserved, estimate)
                             ELSE rs[r].reserved
  BY DEF Admit, RunState
<1>4. /\ Liability(r)' = Cardinality(Tokens(Holders(Outstanding \cup {k}, r, g)))
      /\ Admitted(r)' = Cardinality(Tokens(Holders(handles \cup {k}, r, g)))
  BY <1>1, <1>2, HoldersSums DEF Held, Ever
<1>5. CASE \E i \in DOMAIN path : path[i] = r
  <2>1. /\ Holders(Outstanding \cup {k}, r, g) = Holders(Outstanding, r, g) \cup {k}
        /\ Holders(handles \cup {k}, r, g) = Holders(handles, r, g) \cup {k}
    <3>1. k.chain = ChainOf(rs, path)
      BY <1>1
    <3>2. PICK j \in DOMAIN path : path[j] = r
      BY <1>5
    <3>3. ASSUME NEW H
          PROVE  Holders(H \cup {k}, r, rs[r].generation)
                   = Holders(H, r, rs[r].generation) \cup {k}
      <4>1. /\ j \in DOMAIN k.chain
            /\ k.chain[j].run_id = r /\ k.chain[j].generation = rs[r].generation
        BY <3>1, <3>2 DEF ChainOf
      <4> QED BY <4>1 DEF Holders
    <3> QED BY <3>3, Zenon
  <2>2. /\ next_reservation + 1 \in Nat
        /\ k.id \in 1 .. next_reservation + 1
        /\ \A h \in handles : h.id \in 1 .. next_reservation + 1
        /\ Holders(handles, r, g) \in SUBSET Reservation
        /\ Holders(Outstanding, r, g) \in SUBSET Reservation
        /\ Holders(handles, r, g) \subseteq handles
        /\ Holders(Outstanding, r, g) \subseteq handles
    BY <1>1 DEF TypeOK, Issued, Holders, Outstanding
  <2>3. ASSUME NEW H \in SUBSET Reservation, H \subseteq handles
        PROVE  Cardinality(Tokens(H \cup {k})) = Cardinality(Tokens(H)) + estimate
    <3>1. /\ \A h \in H : h.id \in 1 .. next_reservation + 1
          /\ \A h \in H : h.id # k.id
      BY <1>1, <2>2, <2>3
    <3>2. Cardinality(Tokens(H \cup {k})) = Cardinality(Tokens(H)) + k.amount
      BY <2>2, <3>1, TokensAdd, Zenon
    <3> QED BY <1>1, <3>2
  <2>4. Liability(r)' = Held(r, g) + estimate
    BY <1>4, <2>1, <2>2, <2>3, Zenon DEF Held
  <2>5. Admitted(r)' = Ever(r, g) + estimate
    BY <1>4, <2>1, <2>2, <2>3, Zenon DEF Ever
  <2> QED BY <1>2, <1>5, <2>4, <2>5
<1>6. CASE ~\E i \in DOMAIN path : path[i] = r
  <2>1. /\ Holders(Outstanding \cup {k}, r, g) = Holders(Outstanding, r, g)
        /\ Holders(handles \cup {k}, r, g) = Holders(handles, r, g)
    <3>1. k.chain = ChainOf(rs, path)
      BY <1>1
    <3>2. \A j \in DOMAIN path : path[j] # r
      BY <1>6
    <3> QED BY <3>1, <3>2, OffPathHolds
  <2> QED BY <1>2, <1>4, <1>6, <2>1 DEF Held, Ever
<1> QED BY <1>5, <1>6

(* Admit keeps every run balanced, if it was on the entries it works on. *)
LEMMA AdmitBalance ==
  ASSUME TypeOK, Issued, NEW rs \in [Runs -> RunState], NEW run \in Runs,
         NEW estimate \in Money, NEW path \in Walks(rs, run),
         Admit(rs, run, estimate, path), NEW r \in Runs,
         rs[r].reserved =< Held(r, rs[r].generation),
         Ever(r, rs[r].generation) =< MaxMoney =>
           rs[r].reserved = Held(r, rs[r].generation)
  PROVE  Balanced(r)'
<1> DEFINE g == rs[r].generation
<1>1. Held(r, g) \in Nat /\ Ever(r, g) \in Nat /\ Held(r, g) =< Ever(r, g)
  BY SumsAreNat
<1>2. /\ SaturatingAdd(rs[r].reserved, estimate) =< rs[r].reserved + estimate
      /\ rs[r].reserved + estimate =< MaxMoney =>
           SaturatingAdd(rs[r].reserved, estimate) = rs[r].reserved + estimate
      /\ SaturatingAdd(rs[r].reserved, estimate) \in Money
      /\ rs[r].reserved \in Money
  BY MoneyArithmetic DEF RunState
<1>3. rs[r].reserved \in Nat /\ estimate \in Nat
      /\ SaturatingAdd(rs[r].reserved, estimate) \in Nat
  BY <1>2, MoneyAssumption DEF Money
<1>4. CASE /\ Liability(r)' = Held(r, g) + estimate
           /\ Admitted(r)' = Ever(r, g) + estimate
           /\ runs'[r].reserved = SaturatingAdd(rs[r].reserved, estimate)
  <2>1. runs'[r].reserved =< Liability(r)'
    BY <1>1, <1>2, <1>3, <1>4
  <2>2. Admitted(r)' =< MaxMoney => runs'[r].reserved = Liability(r)'
    BY <1>1, <1>2, <1>3, <1>4, MoneyAssumption
  <2> QED BY <2>1, <2>2 DEF Balanced
<1>5. CASE /\ Liability(r)' = Held(r, g)
           /\ Admitted(r)' = Ever(r, g)
           /\ runs'[r].reserved = rs[r].reserved
  BY <1>5 DEF Balanced
<1>6. \/ /\ Liability(r)' = Held(r, g) + estimate
         /\ Admitted(r)' = Ever(r, g) + estimate
         /\ runs'[r].reserved = SaturatingAdd(rs[r].reserved, estimate)
      \/ /\ Liability(r)' = Held(r, g)
         /\ Admitted(r)' = Ever(r, g)
         /\ runs'[r].reserved = rs[r].reserved
  BY AdmitSums
<1> QED BY <1>4, <1>5, <1>6

(* A step that leaves a run's entry and the handles alone keeps its balance. *)
LEMMA UntouchedBalance ==
  ASSUME NEW r \in Runs, Balanced(r), handles' = handles, outstanding' = outstanding,
         runs'[r].generation = runs[r].generation,
         runs'[r].reserved = runs[r].reserved
  PROVE  Balanced(r)'
<1>1. Liability(r)' = Liability(r) /\ Admitted(r)' = Admitted(r)
  BY DEF Liability, Admitted, Holds, Outstanding
<1> QED BY <1>1 DEF Balanced

(* Settling takes the amount off the sums of the runs the handle holds, and *)
(* off nothing else; what it does to the reserved counters.                 *)
LEMMA SettleSums ==
  ASSUME TypeOK, Issued, NEW h \in handles, NEW actual \in Money,
         settle(h, actual), NEW r \in Runs
  PROVE  /\ Admitted(r)' = Admitted(r)
         /\ Liability(r)' \in Nat
         /\ \/ /\ Holds(h, r, runs)
               /\ Liability(r) = Liability(r)' + h.amount
               /\ runs'[r].reserved = SaturatingSub(runs[r].reserved, h.amount)
            \/ /\ ~Holds(h, r, runs)
               /\ Liability(r)' = Liability(r)
               /\ runs'[r].reserved = runs[r].reserved
<1> DEFINE g == runs[r].generation
<1>1. /\ handles' = handles
      /\ h.id \in outstanding
      /\ outstanding' = outstanding \ {h.id}
      /\ runs' = [q \in Runs |->
            IF Holds(h, q, runs)
            THEN [runs[q] EXCEPT !.reserved = SaturatingSub(@, h.amount),
                                 !.spent = SaturatingAdd(@, actual)]
            ELSE runs[q]]
  BY Zenon DEF settle
<1>2. /\ runs[r] \in RunState
      /\ h \in Reservation
  BY DEF TypeOK, RunState, Reservation
<1>3. /\ runs'[r].generation = g
      /\ runs'[r].reserved = IF Holds(h, r, runs)
                             THEN SaturatingSub(runs[r].reserved, h.amount)
                             ELSE runs[r].reserved
  BY <1>1, <1>2 DEF RunState
<1>4. Outstanding' = Outstanding \ {h}
  BY <1>1 DEF Outstanding, Issued
<1>5. h \in Outstanding
  BY <1>1 DEF Outstanding
<1>6. /\ Liability(r)' = Cardinality(Tokens(Holders(Outstanding \ {h}, r, g)))
      /\ Admitted(r)' = Admitted(r)
      /\ Liability(r) = Held(r, g)
  BY <1>1, <1>3, <1>4, HoldersSums DEF Held, Ever
<1> DEFINE H == Holders(Outstanding \ {h}, r, g)
<1>7. /\ H \in SUBSET Reservation
      /\ \A k \in H : k.id \in 1 .. next_reservation
      /\ \A k \in H : k.id # h.id
      /\ h.id \in 1 .. next_reservation
      /\ next_reservation \in Nat
  BY DEF Holders, Outstanding, TypeOK, Issued
<1>8. Liability(r)' \in Nat
  BY <1>6, <1>7, TokensFinite
<1>9. CASE Holds(h, r, runs)
  <2>1. Holders(Outstanding, r, g) = H \cup {h}
    BY <1>5, <1>9 DEF Holders, Holds
  <2>2. Held(r, g) = Cardinality(Tokens(H)) + h.amount
    BY <1>2, <1>7, <2>1, TokensAdd, ZenonT(30) DEF Held
  <2> QED BY <1>3, <1>6, <1>8, <1>9, <2>2
<1>10. CASE ~Holds(h, r, runs)
  <2>1. H = Holders(Outstanding, r, g)
    BY <1>10 DEF Holders, Holds
  <2> QED BY <1>3, <1>6, <1>8, <1>10, <2>1 DEF Held
<1> QED BY <1>9, <1>10

(* Settling keeps every run balanced. *)
LEMMA SettleBalance ==
  ASSUME TypeOK, Issued, NEW h \in handles, NEW actual \in Money,
         settle(h, actual), NEW r \in Runs, Balanced(r)
  PROVE  Balanced(r)'
<1>1. /\ h.amount \in Nat
      /\ runs[r].reserved \in Nat
  BY MoneyAssumption DEF TypeOK, RunState, Reservation, Money
<1>2. Admitted(r)' = Admitted(r) /\ Liability(r)' \in Nat
  BY SettleSums
<1>3. CASE /\ Liability(r) = Liability(r)' + h.amount
           /\ runs'[r].reserved = SaturatingSub(runs[r].reserved, h.amount)
  <2>1. runs'[r].reserved =< Liability(r)'
    BY <1>1, <1>2, <1>3 DEF Balanced, SaturatingSub
  <2>2. Admitted(r)' =< MaxMoney => runs'[r].reserved = Liability(r)'
    BY <1>1, <1>2, <1>3 DEF Balanced, SaturatingSub
  <2> QED BY <2>1, <2>2 DEF Balanced
<1>4. CASE /\ Liability(r)' = Liability(r)
           /\ runs'[r].reserved = runs[r].reserved
  BY <1>2, <1>4 DEF Balanced
<1> QED BY <1>3, <1>4, SettleSums, Zenon

-----------------------------------------------------------------------------
(* Admit keeps ids and generations issued, if the entries it works on were. *)
LEMMA AdmitIssued ==
  ASSUME TypeOK, Issued, NEW rs \in [Runs -> RunState], NEW run \in Runs,
         NEW estimate \in Money, NEW path \in Walks(rs, run),
         Admit(rs, run, estimate, path),
         next_generation' \in Nat, next_generation =< next_generation',
         \A r \in Runs : rs[r].generation =< next_generation'
  PROVE  Issued'
<1>1. PICK k \in Reservation :
         /\ k.chain = ChainOf(rs, path)
         /\ k.id = next_reservation + 1
         /\ \A h \in handles : h.id # k.id
         /\ handles' = handles \cup {k}
         /\ outstanding' = outstanding \cup {k.id}
  BY AdmitHandle
<1>2. next_reservation' = next_reservation + 1
  BY Zenon DEF Admit
<1>3. \A h \in handles' : h.id \in 1 .. next_reservation'
  BY <1>1, <1>2 DEF Issued, TypeOK
<1>4. \A h, j \in handles' : h.id = j.id => h = j
  BY <1>1 DEF Issued
<1>5. \A h \in handles' : \A i \in DOMAIN h.chain :
        h.chain[i].generation \in 1 .. next_generation'
  <2>1. ASSUME NEW i \in DOMAIN k.chain
        PROVE  k.chain[i].generation \in 1 .. next_generation'
    <3>0. path \in Seq(Runs) /\ DOMAIN path = 1 .. Len(path)
      BY WalkShape
    <3>1. i \in DOMAIN path /\ k.chain[i].generation = rs[path[i]].generation
      BY <1>1, <2>1 DEF ChainOf
    <3>2. path[i] \in Runs
      BY <3>0, <3>1
    <3>3. IsOpen(rs[path[i]])
      BY <3>1 DEF Walks, Climbs
    <3> QED BY <3>1, <3>2, <3>3 DEF IsOpen, RunState
  <2> QED BY <1>1, <2>1 DEF Issued, TypeOK
<1>6. \A r \in Runs : runs'[r].generation =< next_generation'
  BY ZenonT(20) DEF Admit, RunState
<1>7. outstanding' \subseteq 1 .. next_reservation'
  BY <1>1, <1>2 DEF Issued, TypeOK
<1> QED BY <1>3, <1>4, <1>5, <1>6, <1>7 DEF Issued

(* Every step keeps the inductive invariant. *)
LEMMA InvStep == IInv /\ [Next]_vars => IInv'
<1> SUFFICES ASSUME IInv, [Next]_vars PROVE IInv'
  OBVIOUS
<1> USE DEF IInv
<1>0. TypeOK'
  BY TypeStep
<1>1. ASSUME NEW run \in Runs, NEW budget \in Budgets,
             NEW parent \in Runs \cup {NoParent},
             NEW basis \in {"Caller", "Operator"},
             open_run_as(run, budget, parent, basis)
      PROVE IInv'
  <2>1. CASE open_fresh(run, budget, parent)
    <3>1. /\ runs' = [runs EXCEPT ![run] = Fresh(budget, parent, next_generation + 1)]
          /\ next_generation' = next_generation + 1
          /\ UNCHANGED <<next_reservation, outstanding, handles>>
      BY <2>1 DEF open_fresh
    <3>2. /\ runs'[run].generation = next_generation + 1
          /\ runs'[run].reserved = 0
          /\ \A r \in Runs : r # run => runs'[r] = runs[r]
      BY <3>1 DEF TypeOK, Fresh
    <3>3. Issued'
      BY <3>1, <3>2 DEF Issued, TypeOK, RunState
    <3>4. Balanced(run)'
      <4>1. Held(run, next_generation + 1) = 0
        BY NewGenerationEmpty DEF TypeOK
      <4>2. Liability(run)' = Held(run, next_generation + 1)
        BY <3>1, <3>2, HoldersSums DEF Held, Outstanding
      <4> QED BY <3>2, <4>1, <4>2 DEF Balanced
    <3>5. \A r \in Runs : Balanced(r)'
      BY <3>1, <3>2, <3>4, UntouchedBalance
    <3> QED BY <1>0, <3>3, <3>5
  <2>2. CASE open_held(run, budget, parent, basis)
    <3>1. UNCHANGED <<next_generation, next_reservation, outstanding, handles>>
      BY <2>2 DEF open_held
    <3>2. \A r \in Runs : /\ runs'[r].generation = runs[r].generation
                          /\ runs'[r].reserved = runs[r].reserved
      BY <2>2 DEF open_held, TypeOK, RunState
    <3> QED BY <1>0, <3>1, <3>2, UntouchedBalance DEF Issued
  <2> QED BY <1>1, <2>1, <2>2 DEF open_run_as
<1>2. ASSUME NEW run \in Runs, NEW estimate \in Amounts, reserve(run, estimate)
      PROVE IInv'
  <2>1. estimate \in Money
    BY InputsAssumption
  <2>2. PICK path \in Walks(runs, run) : Admit(runs, run, estimate, path)
    BY <1>2 DEF reserve
  <2>3. next_generation' = next_generation /\ runs \in [Runs -> RunState]
    BY <1>2 DEF reserve, TypeOK
  <2>4. Issued'
    <3>1. /\ next_generation' \in Nat /\ next_generation =< next_generation'
          /\ \A r \in Runs : runs[r].generation =< next_generation'
      BY <2>3 DEF Issued, TypeOK
    <3> QED BY <2>1, <2>2, <2>3, <3>1, AdmitIssued
  <2>5. \A r \in Runs : Balanced(r)'
    <3> SUFFICES ASSUME NEW r \in Runs PROVE Balanced(r)'
      OBVIOUS
    <3>1. /\ runs[r].reserved =< Held(r, runs[r].generation)
          /\ Ever(r, runs[r].generation) =< MaxMoney =>
               runs[r].reserved = Held(r, runs[r].generation)
      BY HoldersSums DEF Balanced
    <3> QED BY <2>1, <2>2, <2>3, <3>1, AdmitBalance
  <2> QED BY <1>0, <2>4, <2>5
<1>3. ASSUME NEW h \in handles, NEW actual \in Costs, settle(h, actual)
      PROVE IInv'
  <2>1. actual \in Money
    BY InputsAssumption
  <2>2. \A r \in Runs : Balanced(r)'
    BY <1>3, <2>1, SettleBalance
  <2>3. \A r \in Runs : runs'[r].generation = runs[r].generation
    BY <1>3 DEF settle, TypeOK, RunState
  <2>4. /\ UNCHANGED <<next_generation, next_reservation, handles>>
        /\ outstanding' = outstanding \ {h.id}
    BY <1>3, Zenon DEF settle
  <2> QED BY <1>0, <2>2, <2>3, <2>4 DEF Issued
<1>4. ASSUME NEW run \in Runs, NEW amount \in Costs,
             NEW generation \in 1 .. MaxGenerations,
             seed_spend(run, amount, generation)
      PROVE IInv'
  <2>1. UNCHANGED <<next_generation, next_reservation, outstanding, handles>>
    BY <1>4 DEF seed_spend
  <2>2. \A r \in Runs : /\ runs'[r].generation = runs[r].generation
                        /\ runs'[r].reserved = runs[r].reserved
    BY <1>4 DEF seed_spend, TypeOK, RunState
  <2> QED BY <1>0, <2>1, <2>2, UntouchedBalance DEF Issued
<1>5. ASSUME NEW run \in Runs, close_run(run)
      PROVE IInv'
  <2>1. UNCHANGED <<next_generation, next_reservation, outstanding, handles>>
    BY <1>5 DEF close_run
  <2>2. \A r \in Runs : /\ runs'[r].generation = runs[r].generation
                        /\ runs'[r].reserved = runs[r].reserved
    BY <1>5 DEF close_run, TypeOK, RunState
  <2> QED BY <1>0, <2>1, <2>2, UntouchedBalance DEF Issued
<1>6. ASSUME NEW run \in Runs, NEW estimate \in Amounts,
             reserve_unchecked(run, estimate)
      PROVE IInv'
  <2> DEFINE new == Fresh(0, NoParent, next_generation + 1)
             rs == IF ~IsOpen(runs[run]) THEN [runs EXCEPT ![run] = new] ELSE runs
  <2>1. /\ estimate \in Money /\ 0 \in Money
        /\ NoParent \in Runs \cup {NoParent}
        /\ next_generation + 1 \in Nat
        /\ runs \in [Runs -> RunState]
    BY InputsAssumption, MoneyAssumption DEF Money, TypeOK
  <2>2. new \in RunState /\ new.reserved = 0 /\ new.generation = next_generation + 1
    BY <2>1, FreshType DEF Fresh
  <2>3. rs \in [Runs -> RunState]
    BY <2>1, <2>2
  <2>4. PICK path \in Walks(rs, run) : Admit(rs, run, estimate, path)
    BY <1>6 DEF reserve_unchecked
  <2>5. next_generation' = IF ~IsOpen(runs[run]) THEN next_generation + 1
                                                 ELSE next_generation
    BY <1>6 DEF reserve_unchecked
  <2> HIDE DEF new
  <2>6. \A r \in Runs : \/ rs[r] = runs[r]
                        \/ r = run /\ rs[r] = new /\ ~IsOpen(runs[run])
    BY <2>1
  <2> HIDE DEF rs
  <2>7. Issued'
    <3>1. /\ next_generation' \in Nat /\ next_generation =< next_generation'
          /\ \A r \in Runs : rs[r].generation =< next_generation'
      BY <2>1, <2>2, <2>5, <2>6 DEF Issued, TypeOK, RunState
    <3> QED BY <2>1, <2>3, <2>4, <3>1, AdmitIssued
  <2>8. \A r \in Runs : Balanced(r)'
    <3> SUFFICES ASSUME NEW r \in Runs PROVE Balanced(r)'
      OBVIOUS
    <3>1. /\ rs[r].reserved =< Held(r, rs[r].generation)
          /\ Ever(r, rs[r].generation) =< MaxMoney =>
               rs[r].reserved = Held(r, rs[r].generation)
      <4>1. CASE rs[r] = runs[r]
        BY <4>1, HoldersSums DEF Balanced
      <4>2. CASE rs[r] = new
        <5>1. Held(r, next_generation + 1) = 0
          BY NewGenerationEmpty DEF TypeOK
        <5> QED BY <2>2, <4>2, <5>1
      <4> QED BY <2>6, <4>1, <4>2
    <3> QED BY <2>1, <2>3, <2>4, <3>1, AdmitBalance
  <2> QED BY <1>0, <2>7, <2>8
<1>7. ASSUME UNCHANGED vars PROVE IInv'
  <2>1. Issued'
    BY <1>7 DEF vars, Issued
  <2>2. \A r \in Runs : Balanced(r)'
    BY <1>7, UntouchedBalance DEF vars
  <2> QED BY <1>0, <2>1, <2>2
<1> QED BY <1>1, <1>2, <1>3, <1>4, <1>5, <1>6, <1>7 DEF Next, EnforceNext

(* The invariant holds of an empty ledger. *)
LEMMA InvInit == Init => IInv
<1> SUFFICES ASSUME Init PROVE IInv
  OBVIOUS
<1>1. TypeOK
  <2>1. Absent \in RunState
    BY MoneyAssumption, FreshType DEF Absent, Money
  <2> QED BY <2>1 DEF Init, TypeOK
<1>2. Issued
  BY DEF Init, Issued, Absent, Fresh
<1>3. \A r \in Runs : Balanced(r)
  <2> SUFFICES ASSUME NEW r \in Runs PROVE Balanced(r)
    OBVIOUS
  <2>1. runs[r].generation = 0 /\ runs[r].reserved = 0
    BY DEF Init, Absent, Fresh
  <2>2. Held(r, 0) = 0
    BY <1>1, <1>2, NewGenerationEmpty
  <2> QED BY <2>1, <2>2, HoldersSums DEF Balanced
<1> QED BY <1>1, <1>2, <1>3 DEF IInv

THEOREM Invariance == Spec => []IInv
BY InvInit, InvStep, PTL DEF Spec

(* No reservation leaks: whatever callers open, reserve (checked or not),  *)
(* settle, seed, close and reopen, a run never holds more reserved than    *)
(* its outstanding reservations add up to.                                 *)
THEOREM NoLeak == Spec => []ReservedCovered
<1>1. IInv => ReservedCovered
  BY DEF IInv, Balanced, ReservedCovered
<1> QED BY <1>1, Invariance, PTL

(* No credit: as long as the amounts admitted on a run's current           *)
(* generation add up to at most i64::MAX, it holds exactly the sum of its  *)
(* outstanding reservations, so no settlement releases another's money.    *)
THEOREM NoCredit == Spec => []ReservedExact
<1>1. IInv => ReservedExact
  BY DEF IInv, Balanced, ReservedExact
<1> QED BY <1>1, Invariance, PTL

-----------------------------------------------------------------------------
(* What a step does to the entry of a run: it keeps its generation, its    *)
(* spend, and its parent once something was admitted; or it replaces an    *)
(* entry that was absent or closed under a generation never issued.        *)
Kept(r) ==
  /\ runs'[r].generation = runs[r].generation
  /\ runs'[r].spent >= runs[r].spent
  /\ runs[r].admitted_ever =>
       runs'[r].admitted_ever /\ runs'[r].parent = runs[r].parent

Replaced(r) ==
  /\ ~IsOpen(runs[r])
  /\ runs'[r].generation = next_generation + 1

LEMMA AdmitEntries ==
  ASSUME NEW rs \in [Runs -> RunState], NEW run, NEW estimate, NEW path,
         Admit(rs, run, estimate, path), NEW r \in Runs
  PROVE  /\ runs'[r].generation = rs[r].generation
         /\ runs'[r].spent = rs[r].spent
         /\ runs'[r].parent = rs[r].parent
         /\ rs[r].admitted_ever => runs'[r].admitted_ever
         /\ (\E i \in DOMAIN path : path[i] = r) => runs'[r].admitted_ever
BY DEF Admit, RunState

LEMMA EntryStep ==
  ASSUME TypeOK, [Next]_vars, NEW r \in Runs
  PROVE  Kept(r) \/ Replaced(r)
<1>0. /\ runs \in [Runs -> RunState]
      /\ runs[r].spent \in Int
  BY MoneyAssumption DEF TypeOK, RunState, Money
<1>1. ASSUME NEW run \in Runs, NEW budget \in Budgets,
             NEW parent \in Runs \cup {NoParent},
             NEW basis \in {"Caller", "Operator"},
             open_run_as(run, budget, parent, basis)
      PROVE  Kept(r) \/ Replaced(r)
  <2>1. CASE open_fresh(run, budget, parent)
    BY <1>0, <2>1 DEF open_fresh, Fresh, Kept, Replaced
  <2>2. CASE open_held(run, budget, parent, basis)
    <3>1. /\ runs'[r].generation = runs[r].generation
          /\ runs'[r].spent = runs[r].spent
          /\ runs'[r].admitted_ever = runs[r].admitted_ever
      BY <1>0, <2>2 DEF open_held, RunState
    <3>2. runs[r].admitted_ever => runs'[r].parent = runs[r].parent
      BY <1>0, <2>2 DEF open_held, RunState
    <3> QED BY <1>0, <3>1, <3>2 DEF Kept
  <2> QED BY <1>1, <2>1, <2>2 DEF open_run_as
<1>2. ASSUME NEW run \in Runs, NEW estimate \in Amounts, reserve(run, estimate)
      PROVE  Kept(r)
  <2>1. PICK path \in Walks(runs, run) : Admit(runs, run, estimate, path)
    BY <1>2 DEF reserve
  <2> QED BY <1>0, <2>1, AdmitEntries DEF Kept
<1>3. ASSUME NEW h \in handles, NEW actual \in Costs, settle(h, actual)
      PROVE  Kept(r)
  <2>1. /\ SaturatingAdd(runs[r].spent, actual) >= runs[r].spent
    BY MoneyArithmetic, InputsAssumption DEF TypeOK, RunState
  <2>2. runs'[r] = IF Holds(h, r, runs)
                   THEN [runs[r] EXCEPT !.reserved = SaturatingSub(@, h.amount),
                                        !.spent = SaturatingAdd(@, actual)]
                   ELSE runs[r]
    BY <1>3 DEF settle
  <2>3. /\ runs'[r].generation = runs[r].generation
        /\ runs'[r].admitted_ever = runs[r].admitted_ever
        /\ runs'[r].parent = runs[r].parent
        /\ runs'[r].spent = runs[r].spent
             \/ runs'[r].spent = SaturatingAdd(runs[r].spent, actual)
    BY <1>0, <2>2 DEF RunState
  <2> QED BY <1>0, <2>1, <2>3 DEF Kept
<1>4. ASSUME NEW run \in Runs, NEW amount \in Costs,
             NEW generation \in 1 .. MaxGenerations,
             seed_spend(run, amount, generation)
      PROVE  Kept(r)
  <2>1. /\ SaturatingAdd(runs[r].spent, amount) >= runs[r].spent
    BY MoneyArithmetic, InputsAssumption DEF TypeOK, RunState
  <2> QED BY <1>0, <1>4, <2>1 DEF seed_spend, RunState, Kept
<1>5. ASSUME NEW run \in Runs, close_run(run)
      PROVE  Kept(r)
  BY <1>0, <1>5 DEF close_run, RunState, Kept
<1>6. ASSUME NEW run \in Runs, NEW estimate \in Amounts,
             reserve_unchecked(run, estimate)
      PROVE  Kept(r) \/ Replaced(r)
  <2> DEFINE new == Fresh(0, NoParent, next_generation + 1)
             rs == IF ~IsOpen(runs[run]) THEN [runs EXCEPT ![run] = new] ELSE runs
  <2>1. /\ 0 \in Money
        /\ NoParent \in Runs \cup {NoParent}
        /\ next_generation + 1 \in Nat
    BY MoneyAssumption DEF Money, TypeOK
  <2>2. new \in RunState /\ new.generation = next_generation + 1
    BY <2>1, FreshType DEF Fresh
  <2>3. PICK path \in Walks(rs, run) : Admit(rs, run, estimate, path)
    BY <1>6 DEF reserve_unchecked
  <2> HIDE DEF new
  <2>4. rs \in [Runs -> RunState]
    BY <1>0, <2>2
  <2>5. \/ rs[r] = runs[r]
        \/ r = run /\ rs[r] = new /\ ~IsOpen(runs[run])
    BY <1>0
  <2> HIDE DEF rs
  <2>6. /\ runs'[r].generation = rs[r].generation
        /\ runs'[r].spent = rs[r].spent
        /\ runs'[r].parent = rs[r].parent
        /\ rs[r].admitted_ever => runs'[r].admitted_ever
    BY <2>3, <2>4, AdmitEntries
  <2> QED BY <1>0, <2>2, <2>5, <2>6 DEF Kept, Replaced
<1>7. ASSUME UNCHANGED vars PROVE Kept(r)
  BY <1>0, <1>7 DEF vars, Kept
<1> QED BY <1>1, <1>2, <1>3, <1>4, <1>5, <1>6, <1>7 DEF Next, EnforceNext

(* Spend recorded in a generation is kept until a reopen, which always     *)
(* starts a generation never used before.                                  *)
THEOREM SpendIsKept == Spec => SpendKept
<1>1. IInv /\ [Next]_vars =>
        [\A r \in Runs :
           \/ /\ runs'[r].generation = runs[r].generation
              /\ runs'[r].spent >= runs[r].spent
           \/ /\ runs'[r].generation > next_generation
              /\ ~IsOpen(runs[r])]_vars
  BY EntryStep DEF IInv, TypeOK, Kept, Replaced
<1> QED BY <1>1, Invariance, PTL DEF Spec, SpendKept

(* A reservation is settled at most once and its id never comes back.      *)
THEOREM SettlesOnce == Spec => SettledOnce
<1>1. IInv /\ [Next]_vars =>
        [\A i \in 1 .. next_reservation :
            i \notin outstanding => i \notin outstanding']_vars
  <2> SUFFICES ASSUME IInv, Next, NEW i \in 1 .. next_reservation, i \notin outstanding
               PROVE  i \notin outstanding'
    OBVIOUS
  <2>1. next_reservation \in Nat
    BY DEF IInv, TypeOK
  <2>2. ASSUME NEW rs, NEW run, NEW estimate, NEW path, Admit(rs, run, estimate, path)
        PROVE  i \notin outstanding'
    <3>1. outstanding' = outstanding \cup {next_reservation + 1}
      BY <2>2, Zenon DEF Admit
    <3> QED BY <2>1, <3>1
  <2>3. ASSUME NEW h \in handles, NEW actual \in Costs, settle(h, actual)
        PROVE  i \notin outstanding'
    <3>1. outstanding' = outstanding \ {h.id}
      BY <2>3, Zenon DEF settle
    <3> QED BY <3>1
  <2>4. ASSUME outstanding' = outstanding PROVE i \notin outstanding'
    BY <2>4
  <2>5. ASSUME NEW run \in Runs, NEW estimate \in Amounts, reserve(run, estimate)
        PROVE  i \notin outstanding'
    BY <2>2, <2>5, Zenon DEF reserve
  <2>6. ASSUME NEW run \in Runs, NEW estimate \in Amounts,
               reserve_unchecked(run, estimate)
        PROVE  i \notin outstanding'
    BY <2>2, <2>6, Zenon DEF reserve_unchecked
  <2>7. ASSUME NEW run, NEW budget, NEW parent, NEW basis,
               open_run_as(run, budget, parent, basis)
        PROVE  outstanding' = outstanding
    BY <2>7 DEF open_run_as, open_fresh, open_held
  <2>8. ASSUME NEW run, NEW amount, NEW generation, seed_spend(run, amount, generation)
        PROVE  outstanding' = outstanding
    BY <2>8 DEF seed_spend
  <2>9. ASSUME NEW run, close_run(run) PROVE outstanding' = outstanding
    BY <2>9 DEF close_run
  <2> QED BY <2>3, <2>4, <2>5, <2>6, <2>7, <2>8, <2>9 DEF Next, EnforceNext
<1> QED BY <1>1, Invariance, PTL DEF Spec, SettledOnce

-----------------------------------------------------------------------------
(* The chain of a handle is frozen: proved of every handle, settled or not. *)
FrozenLink(h, i) ==
  LET l == h.chain[i]
      s == runs[l.run_id]
  IN  s.generation = l.generation =>
        /\ s.admitted_ever
        /\ i + 1 \in DOMAIN h.chain => s.parent = h.chain[i + 1].run_id

(* A step leaves the links of a handle that already existed frozen. *)
LEMMA OldLinkFrozen ==
  ASSUME TypeOK, Issued, [Next]_vars, NEW h \in handles, NEW i \in DOMAIN h.chain,
         FrozenLink(h, i)
  PROVE  FrozenLink(h, i)'
<1>1. h.chain[i].run_id \in Runs
  <2>1. h.chain \in Seq(ChainLink)
    BY DEF TypeOK, Reservation
  <2>2. h.chain[i] \in ChainLink
    BY <2>1
  <2> QED BY <2>2 DEF ChainLink
<1>2. h.chain[i].generation \in 1 .. next_generation /\ next_generation \in Nat
  BY DEF Issued, TypeOK
<1>3. Kept(h.chain[i].run_id) \/ Replaced(h.chain[i].run_id)
  BY <1>1, EntryStep
<1> QED BY <1>2, <1>3 DEF FrozenLink, Kept, Replaced

(* The links of a handle Admit issues are frozen. *)
LEMMA NewLinkFrozen ==
  ASSUME NEW rs \in [Runs -> RunState], NEW run \in Runs, NEW estimate \in Money,
         NEW path \in Walks(rs, run), Admit(rs, run, estimate, path),
         NEW k, k.chain = ChainOf(rs, path), NEW i \in DOMAIN k.chain
  PROVE  FrozenLink(k, i)'
<1>1. path \in Seq(Runs) /\ DOMAIN path = 1 .. Len(path)
  BY WalkShape
<1>2. /\ DOMAIN k.chain = DOMAIN path
      /\ \A j \in DOMAIN path : k.chain[j].run_id = path[j]
  BY DEF ChainOf
<1>3. i \in DOMAIN path /\ path[i] \in Runs
  BY <1>1, <1>2
<1>4. runs'[path[i]].admitted_ever /\ runs'[path[i]].parent = rs[path[i]].parent
  BY <1>3, AdmitEntries
<1>5. i + 1 \in DOMAIN path => path[i + 1] = rs[path[i]].parent
  BY <1>3 DEF Walks, Climbs
<1> QED BY <1>2, <1>3, <1>4, <1>5 DEF FrozenLink

(* Where handles come from: only Admit, called by the two reserves. *)
LEMMA HandleOrigin ==
  ASSUME TypeOK, Issued, [Next]_vars, NEW k \in handles'
  PROVE  \/ k \in handles
         \/ \E rs \in [Runs -> RunState], run \in Runs, estimate \in Money :
              \E path \in Walks(rs, run) :
                Admit(rs, run, estimate, path) /\ k.chain = ChainOf(rs, path)
<1>0. ASSUME NEW rs \in [Runs -> RunState], NEW run \in Runs, NEW estimate \in Amounts,
             NEW path \in Walks(rs, run), Admit(rs, run, estimate, path),
             k \notin handles
      PROVE  \E rs1 \in [Runs -> RunState], run1 \in Runs, estimate1 \in Money :
              \E path1 \in Walks(rs1, run1) :
                Admit(rs1, run1, estimate1, path1) /\ k.chain = ChainOf(rs1, path1)
  <2>1. estimate \in Money
    BY InputsAssumption
  <2>2. PICK n \in Reservation : n.chain = ChainOf(rs, path) /\ handles' = handles \cup {n}
    BY <1>0, <2>1, AdmitHandle
  <2>3. k.chain = ChainOf(rs, path)
    BY <1>0, <2>2
  <2> QED BY <1>0, <2>1, <2>3, Zenon
<1> SUFFICES ASSUME k \notin handles, Next
             PROVE  \E rs \in [Runs -> RunState], run \in Runs, estimate \in Money :
                      \E path \in Walks(rs, run) :
                        Admit(rs, run, estimate, path) /\ k.chain = ChainOf(rs, path)
  BY DEF vars
<1>1. ASSUME NEW run \in Runs, NEW estimate \in Amounts, reserve(run, estimate)
      PROVE  \E rs \in [Runs -> RunState] : \E path \in Walks(rs, run) :
               Admit(rs, run, estimate, path)
  BY <1>1 DEF reserve, TypeOK
<1>2. ASSUME NEW run \in Runs, NEW estimate \in Amounts,
             reserve_unchecked(run, estimate)
      PROVE  \E rs \in [Runs -> RunState] : \E path \in Walks(rs, run) :
               Admit(rs, run, estimate, path)
  <2> DEFINE new == Fresh(0, NoParent, next_generation + 1)
             rs == IF ~IsOpen(runs[run]) THEN [runs EXCEPT ![run] = new] ELSE runs
  <2>1. /\ 0 \in Money
        /\ NoParent \in Runs \cup {NoParent}
        /\ next_generation + 1 \in Nat
        /\ runs \in [Runs -> RunState]
    BY MoneyAssumption DEF Money, TypeOK
  <2>2. new \in RunState
    BY <2>1, FreshType, Zenon
  <2>3. \E path \in Walks(rs, run) : Admit(rs, run, estimate, path)
    BY <1>2 DEF reserve_unchecked
  <2> HIDE DEF new
  <2>4. rs \in [Runs -> RunState]
    BY <2>1, <2>2
  <2> HIDE DEF rs
  <2> QED BY <2>3, <2>4
<1>3. ASSUME NEW run, NEW budget, NEW parent, NEW basis,
             open_run_as(run, budget, parent, basis)
      PROVE  handles' = handles
  BY <1>3 DEF open_run_as, open_fresh, open_held
<1>4. ASSUME NEW run, NEW amount, NEW generation, seed_spend(run, amount, generation)
      PROVE  handles' = handles
  BY <1>4 DEF seed_spend
<1>5. ASSUME NEW run, close_run(run) PROVE handles' = handles
  BY <1>5 DEF close_run
<1>6. ASSUME NEW h, NEW actual, settle(h, actual) PROVE handles' = handles
  BY <1>6, Zenon DEF settle
<1>7. \/ \E run \in Runs, estimate \in Amounts : reserve(run, estimate)
      \/ \E run \in Runs, estimate \in Amounts : reserve_unchecked(run, estimate)
  BY <1>3, <1>4, <1>5, <1>6 DEF Next, EnforceNext
<1>8. PICK run \in Runs, estimate \in Amounts :
        \E rs \in [Runs -> RunState] : \E path \in Walks(rs, run) :
          Admit(rs, run, estimate, path)
  BY <1>1, <1>2, <1>7, Zenon
<1> QED BY <1>0, <1>8, Zenon

(* A step leaves every chain frozen. *)
LEMMA ChainFrozenStep == IInv /\ ChainFrozen /\ [Next]_vars => ChainFrozen'
<1> SUFFICES ASSUME IInv, ChainFrozen, [Next]_vars,
                    NEW k \in handles', NEW i \in DOMAIN k.chain
             PROVE  FrozenLink(k, i)'
  BY Zenon DEF ChainFrozen, FrozenLink
<1>1. TypeOK /\ Issued
  BY DEF IInv
<1>2. CASE k \in handles
  <2>1. FrozenLink(k, i)
    BY <1>2 DEF ChainFrozen, FrozenLink
  <2> QED BY <1>1, <1>2, <2>1, OldLinkFrozen
<1>3. CASE k \notin handles
  BY <1>1, <1>3, HandleOrigin, NewLinkFrozen, Zenon
<1> QED BY <1>2, <1>3

(* Settlement by handle and the live tree agree wherever the run is still  *)
(* in the generation the reservation was admitted in: no reopen, move or   *)
(* late adoption can slip an ancestor in or out under a reservation.       *)
THEOREM TreeFrozen == Spec => []ChainFrozen
<1>1. Init => ChainFrozen
  BY DEF Init, ChainFrozen
<1>2. IInv /\ ChainFrozen /\ [Next]_vars => ChainFrozen'
  BY ChainFrozenStep
<1> QED BY <1>1, <1>2, Invariance, PTL DEF Spec

-----------------------------------------------------------------------------
(* The last link of a handle is a root, or its parent is on the chain. *)
RootLink(h) ==
  LET l == h.chain[Len(h.chain)]
      s == runs[l.run_id]
  IN  s.generation = l.generation =>
        s.parent = NoParent \/ \E i \in DOMAIN h.chain : h.chain[i].run_id = s.parent

(* Chains are never empty. *)
NonEmpty == \A h \in handles : Len(h.chain) \in DOMAIN h.chain

(* In enforce mode, new handles come from reserve, on a complete walk. *)
LEMMA EnforceOrigin ==
  ASSUME TypeOK, Issued, [EnforceNext]_vars, NEW k \in handles', k \notin handles
  PROVE  \E run \in Runs, estimate \in Money : \E path \in Walks(runs, run) :
           /\ Complete(runs, path)
           /\ Admit(runs, run, estimate, path)
           /\ k.chain = ChainOf(runs, path)
<1>1. ASSUME NEW run, NEW budget, NEW parent, NEW basis,
             open_run_as(run, budget, parent, basis)
      PROVE  handles' = handles
  BY <1>1 DEF open_run_as, open_fresh, open_held
<1>2. ASSUME NEW run, NEW amount, NEW generation, seed_spend(run, amount, generation)
      PROVE  handles' = handles
  BY <1>2 DEF seed_spend
<1>3. ASSUME NEW run, close_run(run) PROVE handles' = handles
  BY <1>3 DEF close_run
<1>4. ASSUME NEW h, NEW actual, settle(h, actual) PROVE handles' = handles
  BY <1>4, Zenon DEF settle
<1>5. PICK run \in Runs, estimate \in Amounts : reserve(run, estimate)
  BY <1>1, <1>2, <1>3, <1>4 DEF EnforceNext, vars
<1>6. PICK path \in Walks(runs, run) :
        Complete(runs, path) /\ Admit(runs, run, estimate, path)
  BY <1>5, Zenon DEF reserve, Admissible
<1>7. estimate \in Money /\ runs \in [Runs -> RunState]
  BY InputsAssumption DEF TypeOK
<1>8. PICK n \in Reservation : n.chain = ChainOf(runs, path) /\ handles' = handles \cup {n}
  BY <1>6, <1>7, AdmitHandle
<1>9. k.chain = ChainOf(runs, path)
  BY <1>8
<1> QED BY <1>6, <1>7, <1>9, Zenon

(* In enforce mode nothing above an admitted reservation escapes it: the   *)
(* last run of its chain is a root, or closes a cycle, for as long as it   *)
(* stays in its generation.                                                *)
THEOREM RootsFrozen == EnforceSpec => []RootFrozen
<1>0. EnforceSpec => Spec
  <2>1. [EnforceNext]_vars => [Next]_vars
    BY DEF Next
  <2> QED BY <2>1, PTL DEF EnforceSpec, Spec
<1>1. Init => NonEmpty /\ RootFrozen
  BY DEF Init, NonEmpty, RootFrozen
<1>2. IInv /\ ChainFrozen /\ NonEmpty /\ RootFrozen /\ [EnforceNext]_vars
        => (NonEmpty /\ RootFrozen)'
  <2> SUFFICES ASSUME IInv, ChainFrozen, NonEmpty, RootFrozen, [EnforceNext]_vars,
                      NEW k \in handles'
               PROVE  /\ Len(k.chain) \in DOMAIN k.chain
                      /\ RootLink(k)'
    BY Zenon DEF NonEmpty, RootFrozen, RootLink
  <2>0. TypeOK /\ Issued /\ [Next]_vars
    BY DEF IInv, Next
  <2>1. CASE k \in handles
    <3> DEFINE n == Len(k.chain)
               l == k.chain[n]
    <3>1. n \in DOMAIN k.chain
      BY <2>1 DEF NonEmpty
    <3>2. l.run_id \in Runs
      <4>1. k.chain \in Seq(ChainLink)
        BY <2>0, <2>1 DEF TypeOK, Reservation
      <4>2. l \in ChainLink
        BY <3>1, <4>1
      <4> QED BY <4>2 DEF ChainLink
    <3>3. l.generation \in 1 .. next_generation /\ next_generation \in Nat
      BY <2>0, <2>1, <3>1 DEF Issued, TypeOK
    <3>4. runs[l.run_id].generation = l.generation => runs[l.run_id].admitted_ever
      BY <2>1, <3>1 DEF ChainFrozen
    <3>5. RootLink(k)
      BY <2>1 DEF RootFrozen, RootLink
    <3>6. Kept(l.run_id) \/ Replaced(l.run_id)
      BY <2>0, <3>2, EntryStep
    <3>7. RootLink(k)'
      <4>1. CASE Kept(l.run_id)
        BY <3>4, <3>5, <4>1, Zenon DEF RootLink, Kept
      <4>2. CASE Replaced(l.run_id)
        <5>1. runs'[l.run_id].generation # l.generation
          BY <3>3, <4>2 DEF Replaced
        <5> QED BY <5>1, Zenon DEF RootLink
      <4> QED BY <3>6, <4>1, <4>2
    <3> QED BY <3>1, <3>7
  <2>2. CASE k \notin handles
    <3>1. PICK run \in Runs, estimate \in Money : \E path \in Walks(runs, run) :
             /\ Complete(runs, path)
             /\ Admit(runs, run, estimate, path)
             /\ k.chain = ChainOf(runs, path)
      BY <2>0, <2>2, EnforceOrigin
    <3>2. PICK path \in Walks(runs, run) :
             /\ Complete(runs, path)
             /\ Admit(runs, run, estimate, path)
             /\ k.chain = ChainOf(runs, path)
      BY <3>1
    <3>3. runs \in [Runs -> RunState]
      BY <2>0 DEF TypeOK
    <3>4. /\ path \in Seq(Runs) /\ Len(path) \in Nat \ {0}
          /\ DOMAIN path = 1 .. Len(path)
      BY WalkShape
    <3>5. Len(k.chain) = Len(path) /\ DOMAIN k.chain = DOMAIN path
      BY <3>2, <3>3, ChainShape
    <3>6. \A j \in DOMAIN path : k.chain[j].run_id = path[j]
      BY <3>2 DEF ChainOf
    <3>7. Len(path) \in DOMAIN path /\ path[Len(path)] \in Runs
      BY <3>4
    <3>8. runs'[path[Len(path)]].parent = runs[path[Len(path)]].parent
      BY <3>2, <3>3, <3>7, AdmitEntries
    <3>9. RootLink(k)'
      BY <3>2, <3>5, <3>6, <3>7, <3>8 DEF RootLink, Complete, Beyond
    <3> QED BY <3>5, <3>7, <3>9
  <2> QED BY <2>1, <2>2
<1> QED BY <1>0, <1>1, <1>2, Invariance, TreeFrozen, PTL DEF EnforceSpec

-----------------------------------------------------------------------------
(* A reopened run starts with nothing outstanding on it. *)
LEMMA FreshLiability ==
  ASSUME TypeOK, Issued, NEW run \in Runs, NEW budget, NEW parent,
         open_fresh(run, budget, parent)
  PROVE  /\ Liability(run)' = 0
         /\ runs'[run].reserved = 0
         /\ runs'[run].spent = 0
         /\ runs'[run].budget = budget
         /\ runs'[run].generation = next_generation + 1
         /\ \A r \in Runs : r # run => runs'[r] = runs[r] /\ Liability(r)' = Liability(r)
<1>1. /\ runs' = [runs EXCEPT ![run] = Fresh(budget, parent, next_generation + 1)]
      /\ UNCHANGED <<outstanding, handles>>
  BY DEF open_fresh
<1>2. /\ runs'[run] = Fresh(budget, parent, next_generation + 1)
      /\ \A r \in Runs : r # run => runs'[r] = runs[r]
  BY <1>1 DEF TypeOK
<1>3. /\ runs'[run].reserved = 0 /\ runs'[run].spent = 0 /\ runs'[run].budget = budget
      /\ runs'[run].generation = next_generation + 1
  BY <1>2 DEF Fresh
<1>4. Held(run, next_generation + 1) = 0
  BY NewGenerationEmpty DEF TypeOK
<1>5. Liability(run)' = Held(run, next_generation + 1)
  BY <1>1, <1>3, HoldersSums DEF Held, Outstanding
<1>6. \A r \in Runs : r # run => Liability(r)' = Liability(r)
  BY <1>1, <1>2 DEF Liability, Holds, Outstanding
<1> QED BY <1>2, <1>3, <1>4, <1>5, <1>6

(* A step that leaves generations and handles alone leaves liabilities alone. *)
LEMMA SameLiability ==
  ASSUME NEW r \in Runs, handles' = handles, outstanding' = outstanding,
         runs'[r].generation = runs[r].generation
  PROVE  Liability(r)' = Liability(r)
BY DEF Liability, Holds, Outstanding

(* In enforce mode no counter saturates, so the balance is exact for good. *)
LEMMA ExactStep == IInv /\ EnforceExact /\ [EnforceNext]_vars => EnforceExact'
<1> SUFFICES ASSUME IInv, EnforceExact, [EnforceNext]_vars, NEW r \in Runs
             PROVE  runs'[r].reserved = Liability(r)'
  BY DEF EnforceExact
<1>0. /\ TypeOK /\ Issued
      /\ runs[r].reserved = Liability(r)
      /\ runs \in [Runs -> RunState]
      /\ runs[r].reserved \in Nat /\ runs[r].spent \in Nat
      /\ runs[r].reserved \in Money
  BY MoneyAssumption DEF IInv, EnforceExact, TypeOK, RunState, Money
<1>1. ASSUME NEW run \in Runs, NEW budget \in Budgets,
             NEW parent \in Runs \cup {NoParent},
             NEW basis \in {"Caller", "Operator"},
             open_run_as(run, budget, parent, basis)
      PROVE  runs'[r].reserved = Liability(r)'
  <2>1. CASE open_fresh(run, budget, parent)
    BY <1>0, <2>1, FreshLiability
  <2>2. CASE open_held(run, budget, parent, basis)
    <3>1. outstanding' = outstanding /\ handles' = handles
      BY <2>2 DEF open_held
    <3>2. /\ runs'[r].generation = runs[r].generation
          /\ runs'[r].reserved = runs[r].reserved
      BY <1>0, <2>2 DEF open_held, RunState
    <3> QED BY <1>0, <3>1, <3>2, SameLiability
  <2> QED BY <1>1, <2>1, <2>2 DEF open_run_as
<1>2. ASSUME NEW run \in Runs, NEW estimate \in Amounts, reserve(run, estimate)
      PROVE  runs'[r].reserved = Liability(r)'
  <2>1. estimate \in Money /\ estimate \in Nat
    BY InputsAssumption, MoneyAssumption DEF Money
  <2>2. PICK path \in Walks(runs, run) :
          Admissible(runs, path, estimate) /\ Admit(runs, run, estimate, path)
    BY <1>2 DEF reserve
  <2>3. CASE /\ \E i \in DOMAIN path : path[i] = r
             /\ Liability(r)' = Held(r, runs[r].generation) + estimate
             /\ runs'[r].reserved = SaturatingAdd(runs[r].reserved, estimate)
    <3>1. Fits(runs[r], estimate)
      BY <2>2, <2>3 DEF Admissible
    <3>2. runs[r].reserved + estimate =< MaxMoney
      BY <1>0, <2>1, <3>1, MoneyAssumption DEF Fits
    <3>3. SaturatingAdd(runs[r].reserved, estimate) = runs[r].reserved + estimate
      BY <1>0, <2>1, <3>2, MoneyArithmetic
    <3> QED BY <1>0, <2>3, <3>3, HoldersSums
  <2>4. CASE /\ Liability(r)' = Held(r, runs[r].generation)
             /\ runs'[r].reserved = runs[r].reserved
    BY <1>0, <2>4, HoldersSums
  <2> QED BY <1>0, <2>1, <2>2, <2>3, <2>4, AdmitSums
<1>3. ASSUME NEW h \in handles, NEW actual \in Costs, settle(h, actual)
      PROVE  runs'[r].reserved = Liability(r)'
  <2>1. actual \in Money /\ h.amount \in Nat
    BY <1>0, InputsAssumption, MoneyAssumption DEF TypeOK, Reservation, Money
  <2>2. /\ Liability(r)' \in Nat
        /\ \/ /\ Liability(r) = Liability(r)' + h.amount
              /\ runs'[r].reserved = SaturatingSub(runs[r].reserved, h.amount)
           \/ /\ Liability(r)' = Liability(r)
              /\ runs'[r].reserved = runs[r].reserved
    BY <1>0, <1>3, <2>1, SettleSums
  <2> QED BY <1>0, <2>1, <2>2 DEF SaturatingSub
<1>4. ASSUME NEW run \in Runs, NEW amount \in Costs,
             NEW generation \in 1 .. MaxGenerations,
             seed_spend(run, amount, generation)
      PROVE  runs'[r].reserved = Liability(r)'
  <2>1. outstanding' = outstanding /\ handles' = handles
    BY <1>4 DEF seed_spend
  <2>2. /\ runs'[r].generation = runs[r].generation
        /\ runs'[r].reserved = runs[r].reserved
    BY <1>0, <1>4 DEF seed_spend, RunState
  <2> QED BY <1>0, <2>1, <2>2, SameLiability
<1>5. ASSUME NEW run \in Runs, close_run(run)
      PROVE  runs'[r].reserved = Liability(r)'
  <2>1. outstanding' = outstanding /\ handles' = handles
    BY <1>5 DEF close_run
  <2>2. /\ runs'[r].generation = runs[r].generation
        /\ runs'[r].reserved = runs[r].reserved
    BY <1>0, <1>5 DEF close_run, RunState
  <2> QED BY <1>0, <2>1, <2>2, SameLiability
<1>6. ASSUME UNCHANGED vars PROVE runs'[r].reserved = Liability(r)'
  BY <1>0, <1>6, SameLiability DEF vars
<1> QED BY <1>1, <1>2, <1>3, <1>4, <1>5, <1>6 DEF EnforceNext

LEMMA ExactInit == Init => EnforceExact
<1> SUFFICES ASSUME Init, NEW r \in Runs PROVE runs[r].reserved = Liability(r)
  BY DEF EnforceExact
<1>1. IInv /\ Outstanding = {}
  BY InvInit DEF Init, Outstanding
<1>2. Tokens({}) = {} /\ {h \in Outstanding : Holds(h, r, runs)} = {}
  BY <1>1 DEF Tokens
<1>3. runs[r].reserved = 0
  BY DEF Init, Absent, Fresh
<1> QED BY <1>2, <1>3, FS_EmptySet DEF Liability

(* In enforce mode a run holds exactly the sum of its outstanding           *)
(* reservations, however much was admitted over its life.                   *)
THEOREM EnforceIsExact == EnforceSpec => []EnforceExact
<1>1. EnforceSpec => Spec
  <2>1. [EnforceNext]_vars => [Next]_vars
    BY DEF Next
  <2> QED BY <2>1, PTL DEF EnforceSpec, Spec
<1> QED BY <1>1, ExactInit, ExactStep, Invariance, PTL DEF EnforceSpec
=============================================================================
