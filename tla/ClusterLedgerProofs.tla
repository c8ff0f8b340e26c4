------------------------ MODULE ClusterLedgerProofs ------------------------
(***************************************************************************)
(* Proofs about what several machines agree on: ClusterLedger, for any     *)
(* gateways, runs, amounts and depth; and CloudDoor, for any codes,        *)
(* devices, window, ring size and lifetimes, over any number of restarts.  *)
(***************************************************************************)
EXTENDS ClusterLedger, CloudDoor, FiniteSetTheorems, SequenceTheorems, WellFoundedInduction, TLAPS

-----------------------------------------------------------------------------
States == [Runs -> RunState]

OpenWrites ==
  [op : {"Open"}, run : Runs, budget : Nat, parent : Runs \cup {NoParent}, seq : Nat]
ReserveWrites ==
  [op : {"Reserve"}, gateway : Gateways, id : Nat, run : Runs, amount : Amounts]
SettleWrites ==
  [op : {"Settle"}, gateway : Gateways, id : Nat, run : Runs, amount : Amounts, actual : Costs]

(* An earlier state of the ledger, seen from a later one. *)
Behind(s, t) ==
  \A r \in Runs :
    s[r].known => t[r].known /\ t[r].parent = s[r].parent /\ t[r].spent >= s[r].spent

Typed ==
  /\ committed \in Seq(States) /\ committed # <<>>
  /\ applied \in [Gateways -> 1 .. Len(committed)]
  /\ highest \in [Runs -> Nat]
  /\ in_flight \subseteq OpenWrites \cup ReserveWrites \cup SettleWrites
  /\ next_id \in [Gateways -> Nat]
  /\ outstanding \in [Gateways -> SUBSET [id : Nat, gateway : Gateways, run : Runs, amount : Amounts]]
  /\ opens \in Nat

Agreeing == \A i \in DOMAIN committed : Behind(committed[i], Latest)

(* What is kept of a run: nothing before it is opened, and the highest of  *)
(* its budgets.                                                            *)
Booked ==
  \A r \in Runs : /\ ~Latest[r].known => Latest[r] = Absent
                  /\ Latest[r].budget =< highest[r]

(* Every reservation has a number of its own. *)
Numbered ==
  /\ \A g \in Gateways : \A h \in outstanding[g] : h.gateway = g
  /\ \A u \in Unsettled : u.id =< next_id[u.gateway]
  /\ \A u, v \in Unsettled : u.gateway = v.gateway /\ u.id = v.id => u = v

(* Where consensus answers, only settlements travel alone. *)
Heard == reachable => in_flight \subseteq SettleWrites

(* Where parents come first, every chain ends at a root. *)
Rooted ==
  ParentsFirst =>
    /\ \A r \in Runs :
         Latest[r].known => Latest[r].parent = NoParent \/ Latest[Latest[r].parent].known
    /\ \A w \in in_flight :
         w.op = "Open" => w.parent = NoParent \/ Latest[w.parent].known

(* The tokens of some reservations, one for each micro-dollar. *)
Toks(S) == UNION {{<<h.gateway, h.id>>} \X (1 .. h.amount) : h \in S}

On(r) == {u \in Unsettled : r \in chain(Latest, u.run)}

Finite == IsFiniteSet(Toks(Unsettled))

Exact ==
  reachable /\ enforce /\ ParentsFirst =>
    /\ \A u \in Unsettled : Latest[u.run].known
    /\ \A r \in Runs : Latest[r].reserved = Due(r)

Within == ParentsFirst => NeverOversubscribed

BaseInv == Typed /\ Agreeing /\ Booked /\ Numbered /\ Heard /\ Rooted /\ Finite

ClusterInv == BaseInv /\ ClusterNoLeak /\ Exact /\ Within

-----------------------------------------------------------------------------
(* A nonempty set of naturals has a least element. *)
LEMMA LeastOf ==
  ASSUME NEW S \in SUBSET Nat, S # {}
  PROVE  \E x \in S : \A y \in S : x =< y
<1> DEFINE R == OpToRel(<, Nat)
<1>1. IsWellFoundedOn(R, Nat)
  BY NatLessThanWellFounded, Zenon
<1>2. \A x, y \in Nat : x < y => <<x, y>> \in R
  BY Zenon DEF OpToRel
<1> HIDE DEF R
<1>3. PICK x \in S : \A y \in S : ~(<<y, x>> \in R)
  BY <1>1, WFMin, Zenon
<1>4. \A y \in S : ~(y < x)
  BY <1>2, <1>3, Zenon
<1> QED BY <1>4

LEMMA LatestTyped == ASSUME Typed PROVE Latest \in States /\ Len(committed) \in Nat \ {0}
BY EmptySeq, LenProperties, ElementOfSeq DEF Typed, Latest

(* What a write does to the ledger. *)
LEMMA ApplyIs ==
  ASSUME NEW rs, NEW w
  PROVE  /\ w \in OpenWrites => apply(rs, w) = Open(rs, w.run, w.budget, w.parent)
         /\ w \in ReserveWrites => apply(rs, w) = Reserve(rs, w.run, w.amount)
         /\ w \in SettleWrites => apply(rs, w) = Settle(rs, w.run, w.amount, w.actual)
BY DEF apply, OpenWrites, ReserveWrites, SettleWrites

(* Committing a write leaves its outcome as the latest state. *)
LEMMA CommitIs ==
  ASSUME Typed, Agreeing, NEW w, Commit(w), apply(Latest, w) \in States,
         Behind(Latest, apply(Latest, w))
  PROVE  /\ Latest' = apply(Latest, w)
         /\ committed' \in Seq(States) /\ committed' # <<>> /\ Agreeing'
         /\ Len(committed') >= Len(committed)
         /\ highest' = [r \in Runs |-> IF Latest'[r].budget > highest[r] THEN Latest'[r].budget
                                                                       ELSE highest[r]]
<1> DEFINE rs == apply(Latest, w)
<1>0. Latest \in States /\ Len(committed) \in Nat \ {0} /\ committed \in Seq(States)
  BY LatestTyped DEF Typed
<1>1. committed' = IF rs = Latest THEN committed ELSE Append(committed, rs)
  BY DEF Commit
<1>2. highest' = [r \in Runs |-> IF rs[r].budget > highest[r] THEN rs[r].budget ELSE highest[r]]
  BY DEF Commit
<1> HIDE DEF rs
<1>3. CASE rs = Latest
  BY <1>0, <1>1, <1>2, <1>3 DEF Latest, Typed, Agreeing, rs
<1>4. CASE rs # Latest
  <2>1. /\ committed' = Append(committed, rs) /\ Len(committed') = Len(committed) + 1
        /\ committed' \in Seq(States) /\ committed'[Len(committed) + 1] = rs
        /\ \A i \in 1 .. Len(committed) : committed'[i] = committed[i]
    BY <1>0, <1>1, <1>4, AppendProperties DEF rs
  <2>2. Latest' = rs /\ committed' # <<>>
    BY <2>1, <1>0, EmptySeq DEF Latest
  <2>3. ASSUME NEW i \in DOMAIN committed' PROVE Behind(committed'[i], rs)
    <3>1. i \in 1 .. Len(committed) + 1
      BY <2>1, <2>3, LenProperties
    <3>2. CASE i = Len(committed) + 1
      BY <2>1, <3>2 DEF Behind, rs, States, RunState
    <3>3. CASE i \in 1 .. Len(committed)
      <4>1. Behind(committed[i], Latest) /\ committed[i] \in States
        BY <1>0, <3>3, ElementOfSeq, LenProperties DEF Agreeing
      <4> QED BY <1>0, <2>1, <3>3, <4>1 DEF Behind, rs, States, RunState
    <3> QED BY <1>0, <3>1, <3>2, <3>3
  <2>4. Agreeing'
    BY <2>2, <2>3 DEF Agreeing
  <2> QED BY <1>0, <1>2, <2>1, <2>2, <2>4 DEF rs
<1> QED BY <1>3, <1>4

-----------------------------------------------------------------------------
(* The chain is a matter of who is known and who is whose parent.          *)
SameTree(s, t) == \A r \in Runs : t[r].known = s[r].known /\ t[r].parent = s[r].parent

LEMMA InChain ==
  ASSUME NEW rs, NEW run, NEW r
  PROVE  r \in chain(rs, run) <=>
           \E path \in Paths : IsChain(rs, run, path) /\ \E i \in DOMAIN path : path[i] = r
<1> DEFINE C == {p \in Paths : IsChain(rs, run, p)}
           All == {{path[i] : i \in DOMAIN path} : path \in C}
<1>1. chain(rs, run) = UNION All
  BY Zenon DEF chain
<1>2. ASSUME r \in chain(rs, run)
      PROVE  \E path \in Paths : IsChain(rs, run, path) /\ \E i \in DOMAIN path : path[i] = r
  <2>1. PICK on \in All : r \in on
    BY <1>1, <1>2, Zenon
  <2>2. PICK path \in C : on = {path[i] : i \in DOMAIN path}
    BY <2>1, Zenon
  <2> QED BY <2>1, <2>2, Zenon
<1>3. ASSUME NEW path \in Paths, IsChain(rs, run, path), NEW i \in DOMAIN path, path[i] = r
      PROVE  r \in chain(rs, run)
  <2>1. path \in C
    BY <1>3, Zenon
  <2>2. {path[j] : j \in DOMAIN path} \in All
    BY <2>1, Zenon
  <2>3. r \in {path[j] : j \in DOMAIN path}
    BY <1>3, Zenon
  <2> QED BY <1>1, <2>2, <2>3, Zenon
<1> QED BY <1>2, <1>3, Zenon

LEMMA PathIs ==
  ASSUME NEW path \in Paths
  PROVE  /\ Len(path) \in 1 .. MaxChainDepth /\ DOMAIN path = 1 .. Len(path)
         /\ path \in [1 .. Len(path) -> Runs]
         /\ \A i \in 1 .. Len(path) : path[i] \in Runs
<1>1. PICK n \in 1 .. MaxChainDepth : path \in [1 .. n -> Runs]
  BY Zenon DEF Paths
<1>2. n \in Nat
  BY <1>1, ClusterBoundsAssumption
<1>3. path \in Seq(Runs) /\ Len(path) = n
  BY <1>1, <1>2, SeqDef, LenProperties
<1>4. path \in [1 .. Len(path) -> Runs] /\ DOMAIN path = 1 .. Len(path)
  BY <1>3, LenProperties, Zenon
<1>5. Len(path) \in 1 .. MaxChainDepth
  BY <1>3, Zenon
<1>6. \A i \in 1 .. Len(path) : path[i] \in Runs
  BY <1>4
<1> QED BY <1>4, <1>5, <1>6, Zenon

LEMMA ChainOfRuns ==
  ASSUME NEW rs, NEW run, NEW r \in chain(rs, run)
  PROVE  r \in Runs /\ run \in Runs /\ rs[run].known /\ rs[r].known
<1>1. PICK path \in Paths : IsChain(rs, run, path) /\ \E i \in DOMAIN path : path[i] = r
  BY InChain
<1>2. DOMAIN path = 1 .. Len(path) /\ 1 \in DOMAIN path /\ \A i \in DOMAIN path : path[i] \in Runs
  BY PathIs
<1>3. path[1] = run /\ \A i \in DOMAIN path : rs[path[i]].known
  BY <1>1, Zenon DEF IsChain
<1> QED BY <1>1, <1>2, <1>3, Zenon

(* Whether a path climbs the tree of s from run, and whether it ends.      *)
Climbs(s, run, path) ==
  /\ path[1] = run
  /\ \A i \in DOMAIN path : s[path[i]].known
  /\ \A i, j \in DOMAIN path : path[i] = path[j] => i = j
  /\ \A i \in DOMAIN path : i + 1 \in DOMAIN path => path[i + 1] = s[path[i]].parent

Above(s, path) == s[path[Len(path)]].parent

Ends(s, path) ==
  \/ Len(path) = MaxChainDepth
  \/ Above(s, path) = NoParent
  \/ ~s[Above(s, path)].known
  \/ \E i \in DOMAIN path : path[i] = Above(s, path)

LEMMA ChainIs ==
  ASSUME NEW s, NEW run, NEW path
  PROVE  IsChain(s, run, path) <=> Climbs(s, run, path) /\ Ends(s, path)
BY Zenon DEF IsChain, Climbs, Ends, Above

LEMMA SameTreeSameChain ==
  ASSUME NEW s \in States, NEW t \in States, SameTree(s, t), NEW run
  PROVE  chain(t, run) = chain(s, run)
<1>1. ASSUME NEW path \in Paths PROVE IsChain(t, run, path) <=> IsChain(s, run, path)
  <2>1. DOMAIN path = 1 .. Len(path) /\ Len(path) \in DOMAIN path
        /\ \A i \in DOMAIN path : path[i] \in Runs
    BY PathIs
  <2>2. \A i \in DOMAIN path : t[path[i]].known = s[path[i]].known /\ t[path[i]].parent = s[path[i]].parent
    BY <2>1, Zenon DEF SameTree
  <2>3. Climbs(t, run, path) <=> Climbs(s, run, path)
    BY <2>2, Zenon DEF Climbs
  <2>4. Above(t, path) = Above(s, path) /\ Above(s, path) \in Runs \cup {NoParent}
    BY <2>1, <2>2 DEF Above, States, RunState
  <2>5. Above(s, path) \in Runs => t[Above(s, path)].known = s[Above(s, path)].known
    BY Zenon DEF SameTree
  <2>6. Ends(t, path) <=> Ends(s, path)
    BY <2>4, <2>5, Zenon DEF Ends
  <2> QED BY <2>3, <2>6, ChainIs, Zenon
<1>2. ASSUME NEW r PROVE r \in chain(t, run) <=> r \in chain(s, run)
  <2>1. r \in chain(s, run) <=>
          \E path \in Paths : IsChain(s, run, path) /\ \E i \in DOMAIN path : path[i] = r
    BY InChain
  <2>2. r \in chain(t, run) <=>
          \E path \in Paths : IsChain(t, run, path) /\ \E i \in DOMAIN path : path[i] = r
    BY InChain
  <2> QED BY <1>1, <2>1, <2>2, Zenon
<1> QED BY <1>2

-----------------------------------------------------------------------------
(* The three writes.                                                       *)
LEMMA OpenIs ==
  ASSUME NEW rs \in States, NEW run \in Runs, NEW budget \in Nat, NEW parent \in Runs \cup {NoParent},
         NEW ss, ss = Open(rs, run, budget, parent)
  PROVE  /\ ss \in States /\ Behind(rs, ss)
         /\ \A r \in Runs : r # run => ss[r] = rs[r]
         /\ ss[run].known /\ ss[run].budget = budget
         /\ rs[run].known => /\ SameTree(rs, ss)
                             /\ ss[run].reserved = rs[run].reserved /\ ss[run].spent = rs[run].spent
         /\ ~rs[run].known => ss[run].reserved = 0 /\ ss[run].spent = 0 /\ ss[run].parent = parent
<1>0. Absent \in RunState /\ rs[run] \in RunState /\ rs \in [Runs -> RunState]
  BY DEF Absent, RunState, States
<1>1. CASE rs[run].known
  <2>1. ss = [rs EXCEPT ![run].budget = budget]
    BY <1>1 DEF Open
  <2>2. ss \in States
    BY <1>0, <2>1 DEF States, RunState
  <2>3. \A r \in Runs : r # run => ss[r] = rs[r]
    BY <1>0, <2>1
  <2>4. /\ ss[run].known = rs[run].known /\ ss[run].parent = rs[run].parent
        /\ ss[run].reserved = rs[run].reserved /\ ss[run].spent = rs[run].spent
        /\ ss[run].budget = budget
    BY <1>0, <2>1 DEF RunState
  <2>5. SameTree(rs, ss)
    BY <2>3, <2>4, Zenon DEF SameTree
  <2>6. \A r \in Runs : ss[r].spent = rs[r].spent /\ rs[r].spent \in Nat
    BY <1>0, <2>3, <2>4 DEF RunState
  <2>7. Behind(rs, ss)
    <3>1. \A r \in Runs : ss[r].spent >= rs[r].spent
      BY <2>6
    <3> QED BY <2>5, <3>1, Zenon DEF SameTree, Behind
  <2> QED BY <1>1, <2>2, <2>3, <2>4, <2>5, <2>7, Zenon
<1>2. CASE ~rs[run].known
  <2> DEFINE new == [Absent EXCEPT !.known = TRUE, !.budget = budget, !.parent = parent]
  <2>1. ss = [rs EXCEPT ![run] = new]
    BY <1>2 DEF Open
  <2>2. /\ new \in RunState /\ new.known /\ new.reserved = 0 /\ new.spent = 0
        /\ new.parent = parent /\ new.budget = budget
    BY <1>0 DEF RunState, Absent
  <2> HIDE DEF new
  <2>3. /\ ss \in States /\ ss[run] = new
        /\ \A r \in Runs : r # run => ss[r] = rs[r]
    BY <1>0, <2>1, <2>2 DEF States
  <2>4. Behind(rs, ss)
    <3>1. ASSUME NEW r \in Runs, rs[r].known
          PROVE ss[r].known /\ ss[r].parent = rs[r].parent /\ ss[r].spent >= rs[r].spent
      <4>1. ss[r] = rs[r]
        BY <1>2, <2>3, <3>1, Zenon
      <4>2. rs[r].spent \in Nat
        BY <1>0 DEF RunState
      <4> QED BY <3>1, <4>1, <4>2
    <3> QED BY <3>1, Zenon DEF Behind
  <2> QED BY <1>2, <2>2, <2>3, <2>4, Zenon
<1> QED BY <1>1, <1>2, Zenon

LEMMA ReserveIs ==
  ASSUME NEW rs \in States, NEW run \in Runs, NEW micros \in Nat,
         NEW ss, ss = Reserve(rs, run, micros)
  PROVE  /\ ss \in States /\ Behind(rs, ss) /\ SameTree(rs, ss)
         /\ \A r \in Runs : ss[r].budget = rs[r].budget /\ ss[r].spent = rs[r].spent
         /\ \A r \in Runs : ~rs[r].known => ss[r] = rs[r]
         /\ \A r \in Runs :
              ss[r].reserved = IF Accepted(rs, run, micros) /\ r \in chain(rs, run)
                               THEN rs[r].reserved + micros ELSE rs[r].reserved
<1>0. rs \in [Runs -> RunState]
  BY DEF States
<1>1. CASE ~Accepted(rs, run, micros)
  <2>1. ss = rs
    BY <1>1, Zenon DEF Reserve
  <2>2. \A r \in Runs : rs[r].spent >= rs[r].spent
    BY <1>0 DEF RunState
  <2> QED BY <1>1, <2>1, <2>2, Zenon DEF Behind, SameTree
<1>2. CASE Accepted(rs, run, micros)
  <2>1. ss = [r \in Runs |->
                [rs[r] EXCEPT !.reserved = IF r \in chain(rs, run) THEN @ + micros ELSE @,
                              !.steps = IF r = run THEN @ + 1 ELSE @]]
    BY <1>2, Zenon DEF Reserve
  <2>2. ASSUME NEW r \in Runs
        PROVE  /\ ss[r] \in RunState /\ ss[r].known = rs[r].known /\ ss[r].parent = rs[r].parent
               /\ ss[r].budget = rs[r].budget /\ ss[r].spent = rs[r].spent
               /\ ss[r].reserved = IF r \in chain(rs, run) THEN rs[r].reserved + micros
                                                           ELSE rs[r].reserved
               /\ r \notin chain(rs, run) /\ r # run => ss[r] = rs[r]
    <3>1. rs[r] \in RunState
      BY <1>0
    <3> DEFINE held == IF r \in chain(rs, run) THEN rs[r].reserved + micros ELSE rs[r].reserved
               steps == IF r = run THEN rs[r].steps + 1 ELSE rs[r].steps
    <3>2. held \in Nat /\ steps \in Nat
      BY <3>1 DEF RunState
    <3>3. ss[r] = [rs[r] EXCEPT !.reserved = held, !.steps = steps]
      BY <2>1
    <3>4. r \notin chain(rs, run) /\ r # run => held = rs[r].reserved /\ steps = rs[r].steps
      BY Zenon
    <3> HIDE DEF held, steps
    <3>5. /\ ss[r] \in RunState /\ ss[r].known = rs[r].known /\ ss[r].parent = rs[r].parent
          /\ ss[r].budget = rs[r].budget /\ ss[r].spent = rs[r].spent /\ ss[r].reserved = held
          /\ held = rs[r].reserved /\ steps = rs[r].steps => ss[r] = rs[r]
      BY <3>1, <3>2, <3>3 DEF RunState
    <3> QED BY <3>4, <3>5, Zenon DEF held
  <2>3. ss \in States
    <3>1. ss = [r \in Runs |-> ss[r]]
      BY <2>1
    <3> QED BY <2>2, <3>1 DEF States
  <2>4. \A r \in Runs : ss[r].spent >= rs[r].spent
    BY <2>2 DEF RunState
  <2>5. \A r \in Runs : r \in chain(rs, run) \/ r = run => rs[r].known
    BY <1>2, ChainOfRuns, Zenon DEF Accepted
  <2>6. Behind(rs, ss) /\ SameTree(rs, ss)
    BY <2>2, <2>4, Zenon DEF Behind, SameTree
  <2> QED BY <1>2, <2>2, <2>3, <2>5, <2>6, Zenon
<1> QED BY <1>1, <1>2, Zenon

LEMMA SettleIs ==
  ASSUME NEW rs \in States, NEW run \in Runs, NEW reserved \in Nat, NEW actual \in Nat,
         NEW ss, ss = Settle(rs, run, reserved, actual)
  PROVE  /\ ss \in States /\ Behind(rs, ss) /\ SameTree(rs, ss)
         /\ \A r \in Runs : ss[r].budget = rs[r].budget
         /\ \A r \in Runs : r \notin chain(rs, run) => ss[r] = rs[r]
         /\ \A r \in Runs : ~rs[r].known => ss[r] = rs[r]
         /\ \A r \in Runs : r \in chain(rs, run) =>
              /\ ss[r].reserved = SaturatingSub(rs[r].reserved, reserved)
              /\ ss[r].spent = rs[r].spent + actual
<1>0. rs \in [Runs -> RunState]
  BY DEF States
<1>1. ss = [r \in Runs |->
             IF r \in chain(rs, run)
             THEN [rs[r] EXCEPT !.reserved = SaturatingSub(@, reserved), !.spent = @ + actual]
             ELSE rs[r]]
  BY Zenon DEF Settle
<1>2. ASSUME NEW r \in Runs
      PROVE  /\ ss[r] \in RunState /\ ss[r].known = rs[r].known /\ ss[r].parent = rs[r].parent
             /\ ss[r].budget = rs[r].budget /\ ss[r].spent >= rs[r].spent
             /\ r \notin chain(rs, run) => ss[r] = rs[r]
             /\ r \in chain(rs, run) =>
                  /\ ss[r].reserved = SaturatingSub(rs[r].reserved, reserved)
                  /\ ss[r].spent = rs[r].spent + actual
  <2>1. rs[r] \in RunState
    BY <1>0
  <2>2. SaturatingSub(rs[r].reserved, reserved) \in Nat
    BY <2>1 DEF SaturatingSub, RunState
  <2>3. CASE r \in chain(rs, run)
    <3> DEFINE left == SaturatingSub(rs[r].reserved, reserved)
               spent == rs[r].spent + actual
    <3>1. ss[r] = [rs[r] EXCEPT !.reserved = left, !.spent = spent]
      BY <1>1, <2>3
    <3>2. left \in Nat /\ spent \in Nat /\ spent >= rs[r].spent
      BY <2>1, <2>2 DEF RunState
    <3> HIDE DEF left, spent
    <3>3. /\ ss[r] \in RunState /\ ss[r].known = rs[r].known /\ ss[r].parent = rs[r].parent
          /\ ss[r].budget = rs[r].budget /\ ss[r].reserved = left /\ ss[r].spent = spent
      BY <2>1, <3>1, <3>2 DEF RunState
    <3> QED BY <2>3, <3>2, <3>3, Zenon DEF left, spent
  <2>4. CASE r \notin chain(rs, run)
    <3>1. ss[r] = rs[r]
      BY <1>1, <2>4
    <3> QED BY <2>1, <2>4, <3>1 DEF RunState
  <2> QED BY <2>3, <2>4, Zenon
<1>3. ss \in States
  <2>1. ss = [r \in Runs |-> ss[r]]
    BY <1>1
  <2> QED BY <1>2, <2>1 DEF States
<1>4. Behind(rs, ss) /\ SameTree(rs, ss)
  BY <1>2, Zenon DEF Behind, SameTree
<1>5. \A r \in Runs : r \in chain(rs, run) => rs[r].known
  BY ChainOfRuns, Zenon
<1> QED BY <1>2, <1>3, <1>4, <1>5, Zenon

-----------------------------------------------------------------------------
(* A path that climbs an earlier state climbs a later one.                 *)
LEMMA ClimbsOn ==
  ASSUME NEW s \in States, NEW t \in States, Behind(s, t), NEW run, NEW path \in Paths,
         Climbs(s, run, path)
  PROVE  Climbs(t, run, path) /\ Above(t, path) = Above(s, path)
<1>1. \A i \in DOMAIN path : path[i] \in Runs
  BY PathIs
<1>2. \A i \in DOMAIN path : t[path[i]].known /\ t[path[i]].parent = s[path[i]].parent
  BY <1>1, Zenon DEF Climbs, Behind
<1>3. Len(path) \in DOMAIN path
  BY PathIs
<1> QED BY <1>2, <1>3, Zenon DEF Climbs, Above

LEMMA AboveIs ==
  ASSUME NEW s \in States, NEW path \in Paths
  PROVE  Above(s, path) \in Runs \cup {NoParent}
<1>1. path[Len(path)] \in Runs
  BY PathIs
<1> QED BY <1>1 DEF Above, States, RunState

(* A path that has not ended can be climbed one run further.               *)
LEMMA OneFurther ==
  ASSUME NEW s \in States, NEW run, NEW path \in Paths, Climbs(s, run, path), ~Ends(s, path)
  PROVE  LET longer == Append(path, Above(s, path)) IN
         /\ longer \in Paths /\ Len(longer) = Len(path) + 1 /\ Climbs(s, run, longer)
         /\ \A i \in DOMAIN path : i \in DOMAIN longer /\ longer[i] = path[i]
<1> DEFINE next == Above(s, path)
           n == Len(path)
           longer == Append(path, next)
<1>0. /\ n \in 1 .. MaxChainDepth /\ DOMAIN path = 1 .. n /\ path \in [1 .. n -> Runs]
      /\ MaxChainDepth \in Nat
  BY PathIs, ClusterBoundsAssumption
<1>1. n # MaxChainDepth /\ next # NoParent /\ s[next].known /\ \A i \in DOMAIN path : path[i] # next
  BY Zenon DEF Ends
<1>2. next \in Runs
  BY <1>1, AboveIs
<1> HIDE DEF n, next, longer
<1>3. n \in Nat /\ n + 1 \in 1 .. MaxChainDepth
  <2>1. n # MaxChainDepth
    BY <1>1, Zenon
  <2> QED BY <1>0, <2>1
<1>4. path \in Seq(Runs)
  BY <1>0, <1>3, SeqDef
<1> USE DEF n, longer
<1>5. /\ Len(longer) = n + 1 /\ longer \in Seq(Runs) /\ longer[n + 1] = next
      /\ \A i \in 1 .. n : longer[i] = path[i]
  BY <1>2, <1>4, AppendProperties
<1>6. longer \in [1 .. n + 1 -> Runs] /\ DOMAIN longer = 1 .. n + 1
  BY <1>5, LenProperties
<1>7. longer \in Paths
  <2>1. [1 .. n + 1 -> Runs] \in {[1 .. m -> Runs] : m \in 1 .. MaxChainDepth}
    BY <1>3, Zenon
  <2> QED BY <1>6, <2>1, Zenon DEF Paths
<1> HIDE DEF longer
<1>8. longer[1] = run
  BY <1>0, <1>5 DEF Climbs
<1>9. \A i \in 1 .. n + 1 : i \in 1 .. n \/ i = n + 1
  BY <1>3
<1>10. \A i \in DOMAIN longer : s[longer[i]].known
  BY <1>0, <1>1, <1>5, <1>6, <1>9, Zenon DEF Climbs
<1>11. \A i, j \in DOMAIN longer : longer[i] = longer[j] => i = j
  <2> SUFFICES ASSUME NEW i \in DOMAIN longer, NEW j \in DOMAIN longer, longer[i] = longer[j]
               PROVE  i = j
    OBVIOUS
  <2>1. (i \in 1 .. n \/ i = n + 1) /\ (j \in 1 .. n \/ j = n + 1)
    BY <1>6, <1>9
  <2>2. CASE i \in 1 .. n /\ j \in 1 .. n
    BY <1>0, <1>5, <2>2, Zenon DEF Climbs
  <2>3. CASE i \in 1 .. n /\ j = n + 1
    BY <1>0, <1>1, <1>5, <2>3, Zenon
  <2>4. CASE i = n + 1 /\ j \in 1 .. n
    BY <1>0, <1>1, <1>5, <2>4, Zenon
  <2> QED BY <2>1, <2>2, <2>3, <2>4
<1>12. \A i \in DOMAIN longer : i + 1 \in DOMAIN longer => longer[i + 1] = s[longer[i]].parent
  <2> SUFFICES ASSUME NEW i \in DOMAIN longer, i + 1 \in DOMAIN longer
               PROVE  longer[i + 1] = s[longer[i]].parent
    OBVIOUS
  <2>1. i \in 1 .. n /\ (i + 1 \in 1 .. n \/ i = n)
    BY <1>3, <1>6
  <2>2. CASE i + 1 \in 1 .. n
    BY <1>0, <1>5, <2>1, <2>2, Zenon DEF Climbs
  <2>3. CASE i = n
    BY <1>5, <2>1, <2>3, Zenon DEF next, Above
  <2> QED BY <2>1, <2>2, <2>3
<1>13. Climbs(s, run, longer)
  BY <1>8, <1>10, <1>11, <1>12, Zenon DEF Climbs
<1>14. \A i \in DOMAIN path : i \in DOMAIN longer
  BY <1>0, <1>3, <1>6
<1> QED BY <1>0, <1>5, <1>7, <1>13, <1>14, Zenon DEF longer, next

(* As the ledger goes on, a chain only grows: a run opened later under the *)
(* name of a parent joins the chains that ended there.                     *)
LEMMA GrowingChain ==
  ASSUME NEW s \in States, NEW t \in States, Behind(s, t), NEW run
  PROVE  chain(s, run) \subseteq chain(t, run)
<1> SUFFICES ASSUME NEW r \in chain(s, run) PROVE r \in chain(t, run)
  OBVIOUS
<1>1. PICK path \in Paths : IsChain(s, run, path) /\ \E i \in DOMAIN path : path[i] = r
  BY InChain
<1> DEFINE Extends(q) == \A i \in DOMAIN path : i \in DOMAIN q /\ q[i] = path[i]
           D == {d \in Nat : \E q \in Paths :
                   Len(q) + d = MaxChainDepth /\ Climbs(t, run, q) /\ Extends(q)}
<1>2. Climbs(t, run, path)
  BY <1>1, ClimbsOn, ChainIs
<1>3. MaxChainDepth - Len(path) \in D
  <2>1. Len(path) \in 1 .. MaxChainDepth /\ MaxChainDepth \in Nat
    BY PathIs, ClusterBoundsAssumption
  <2>2. MaxChainDepth - Len(path) \in Nat /\ Len(path) + (MaxChainDepth - Len(path)) = MaxChainDepth
    BY <2>1
  <2>3. Extends(path)
    BY Zenon
  <2> QED BY <1>2, <2>2, <2>3, Zenon
<1>4. PICK d \in D : \A e \in D : d =< e
  <2>1. D \in SUBSET Nat /\ D # {}
    BY <1>3, Zenon
  <2> HIDE DEF D
  <2> QED BY <2>1, LeastOf
<1>5. PICK q \in Paths : Len(q) + d = MaxChainDepth /\ Climbs(t, run, q) /\ Extends(q)
  BY <1>4, Zenon
<1>6. d \in Nat
  BY <1>4, Zenon
<1>7. Ends(t, q)
  <2> SUFFICES ASSUME ~Ends(t, q) PROVE FALSE
    OBVIOUS
  <2> DEFINE longer == Append(q, Above(t, q))
  <2>1. /\ longer \in Paths /\ Len(longer) = Len(q) + 1 /\ Climbs(t, run, longer)
        /\ \A i \in DOMAIN q : i \in DOMAIN longer /\ longer[i] = q[i]
    BY <1>5, OneFurther, Zenon
  <2> HIDE DEF longer
  <2>2. Extends(longer)
    BY <1>5, <2>1, Zenon
  <2>3. Len(q) \in Nat /\ Len(longer) \in 1 .. MaxChainDepth /\ MaxChainDepth \in Nat
    BY <2>1, PathIs, ClusterBoundsAssumption
  <2>4. d - 1 \in Nat /\ Len(longer) + (d - 1) = MaxChainDepth
    BY <1>5, <1>6, <2>1, <2>3
  <2>5. d - 1 \in D
    BY <2>1, <2>2, <2>4, Zenon
  <2>6. d =< d - 1
    BY <1>4, <2>5, Zenon
  <2> QED BY <1>6, <2>6
<1>8. IsChain(t, run, q)
  BY <1>5, <1>7, ChainIs
<1>9. \E i \in DOMAIN q : q[i] = r
  BY <1>1, <1>5, Zenon
<1> QED BY <1>8, <1>9, InChain

(* Where every known run's parent is known, a known run's chain is final.  *)
LEMMA FrozenChain ==
  ASSUME NEW s \in States, NEW t \in States, Behind(s, t), NEW run \in Runs, s[run].known,
         \A r \in Runs : s[r].known => s[r].parent = NoParent \/ s[s[r].parent].known
  PROVE  chain(t, run) = chain(s, run)
<1>1. ASSUME NEW path \in Paths, IsChain(t, run, path) PROVE IsChain(s, run, path)
  <2>0. /\ DOMAIN path = 1 .. Len(path) /\ Len(path) \in Nat /\ Len(path) \in DOMAIN path
        /\ \A i \in DOMAIN path : path[i] \in Runs
    BY PathIs
  <2>1. Climbs(t, run, path) /\ Ends(t, path)
    BY <1>1, ChainIs
  <2>2. \A i \in DOMAIN path : s[path[i]].known
    <3> DEFINE Bad == {i \in DOMAIN path : ~s[path[i]].known}
    <3> SUFFICES ASSUME Bad # {} PROVE FALSE
      BY Zenon
    <3>1. PICK i \in Bad : \A j \in Bad : i =< j
      <4>1. Bad \in SUBSET Nat
        BY <2>0
      <4> HIDE DEF Bad
      <4> QED BY <4>1, LeastOf
    <3>2. i \in DOMAIN path /\ ~s[path[i]].known
      BY <3>1, Zenon
    <3>3. i # 1
      BY <2>1, <3>2, Zenon DEF Climbs
    <3>4. i - 1 \in DOMAIN path /\ (i - 1) + 1 = i /\ ~(i =< i - 1)
      BY <2>0, <3>2, <3>3
    <3>5. s[path[i - 1]].known
      BY <3>1, <3>4, Zenon
    <3>6. path[i] = t[path[i - 1]].parent
      BY <2>1, <3>2, <3>4 DEF Climbs
    <3>7. path[i] = s[path[i - 1]].parent
      BY <2>0, <3>4, <3>5, <3>6, Zenon DEF Behind
    <3>8. path[i] # NoParent
      BY <2>0, <3>2, ClusterRunsAssumption
    <3> QED BY <2>0, <3>2, <3>4, <3>5, <3>7, <3>8, Zenon
  <2>3. \A i \in DOMAIN path : t[path[i]].parent = s[path[i]].parent
    BY <2>0, <2>2, Zenon DEF Behind
  <2>4. Climbs(s, run, path)
    BY <2>1, <2>2, <2>3, Zenon DEF Climbs
  <2>5. Above(t, path) = Above(s, path) /\ Above(s, path) \in Runs \cup {NoParent}
    BY <2>4, ClimbsOn, AboveIs
  <2>6. Above(s, path) \in Runs /\ s[Above(s, path)].known => t[Above(s, path)].known
    BY Zenon DEF Behind
  <2>7. Ends(s, path)
    BY <2>1, <2>5, <2>6, Zenon DEF Ends
  <2> QED BY <2>4, <2>7, ChainIs
<1>2. ASSUME NEW r \in chain(t, run) PROVE r \in chain(s, run)
  <2>1. PICK path \in Paths : IsChain(t, run, path) /\ \E i \in DOMAIN path : path[i] = r
    BY <1>2, InChain
  <2> QED BY <1>1, <2>1, InChain
<1> QED BY <1>2, GrowingChain, Zenon

-----------------------------------------------------------------------------
(* What the reservations hold, as a number of tokens.                      *)
LEMMA ToksWithin ==
  ASSUME NEW S, NEW T \in SUBSET S, IsFiniteSet(Toks(S))
  PROVE  /\ IsFiniteSet(Toks(T)) /\ Cardinality(Toks(T)) \in Nat
         /\ Cardinality(Toks(T)) =< Cardinality(Toks(S))
<1> DEFINE A == Toks(S)
           B == Toks(T)
<1>1. B \in SUBSET A
  BY Zenon DEF Toks
<1>2. IsFiniteSet(A)
  OBVIOUS
<1> HIDE DEF A, B
<1>3. IsFiniteSet(B) /\ Cardinality(B) =< Cardinality(A)
  BY <1>1, <1>2, FS_Subset
<1>4. Cardinality(B) \in Nat
  BY <1>3, FS_CardinalityType
<1> QED BY <1>3, <1>4 DEF A, B

LEMMA ToksOfOne ==
  ASSUME NEW k, NEW m \in Nat
  PROVE  IsFiniteSet({k} \X (1 .. m)) /\ Cardinality({k} \X (1 .. m)) = m
<1>1. IsFiniteSet({k}) /\ Cardinality({k}) = 1
  BY FS_Singleton
<1>2. IsFiniteSet(1 .. m) /\ Cardinality(1 .. m) = m
  BY FS_Interval
<1>3. /\ IsFiniteSet({k} \X (1 .. m))
      /\ Cardinality({k} \X (1 .. m)) = Cardinality({k}) * Cardinality(1 .. m)
  BY <1>1, <1>2, FS_Product
<1>4. Cardinality({k}) * Cardinality(1 .. m) = m
  BY <1>1, <1>2
<1> QED BY <1>3, <1>4

LEMMA ToksAdd ==
  ASSUME NEW S, NEW x, x.amount \in Nat, IsFiniteSet(Toks(S)),
         \A u \in S : <<u.gateway, u.id>> # <<x.gateway, x.id>>
  PROVE  /\ IsFiniteSet(Toks(S \cup {x}))
         /\ Cardinality(Toks(S \cup {x})) = Cardinality(Toks(S)) + x.amount
<1> DEFINE k == <<x.gateway, x.id>>
           T == {k} \X (1 .. x.amount)
<1>1. IsFiniteSet(T) /\ Cardinality(T) = x.amount
  BY ToksOfOne
<1>2. Toks(S \cup {x}) = Toks(S) \cup T
  BY DEF Toks
<1>3. Toks(S) \cap T = {}
  BY DEF Toks
<1>4. Cardinality(Toks(S) \cap T) = 0
  BY <1>3, FS_EmptySet
<1>5. /\ IsFiniteSet(Toks(S) \cup T)
      /\ Cardinality(Toks(S) \cup T) = Cardinality(Toks(S)) + Cardinality(T) - Cardinality(Toks(S) \cap T)
  BY <1>1, FS_Union
<1>6. Cardinality(Toks(S)) \in Nat
  BY FS_CardinalityType
<1> HIDE DEF T
<1>7. /\ IsFiniteSet(Toks(S \cup {x}))
      /\ Cardinality(Toks(S \cup {x})) = Cardinality(Toks(S)) + x.amount - 0
  BY <1>1, <1>2, <1>4, <1>5, Zenon
<1> QED BY <1>6, <1>7

LEMMA DueIs ==
  ASSUME NEW r
  PROVE  Due(r) = Cardinality(Toks(On(r))) /\ Due(r)' = Cardinality(Toks(On(r)'))
<1>1. Due(r) = Cardinality(Toks(On(r)))
  BY Zenon DEF Due, On, Toks
<1>2. Due(r)' = Cardinality(Toks(On(r)'))
  BY Zenon DEF Due, On, Toks
<1> QED BY <1>1, <1>2

-----------------------------------------------------------------------------
(* The ledger and the copies, after a write and after a copy moves.        *)
LEMMA WriteIs ==
  ASSUME Typed, Agreeing, NEW w \in OpenWrites \cup ReserveWrites \cup SettleWrites, Commit(w),
         UNCHANGED applied
  PROVE  /\ Latest' = apply(Latest, w) /\ Latest \in States /\ Latest' \in States
         /\ Behind(Latest, Latest')
         /\ committed' \in Seq(States) /\ committed' # <<>> /\ Agreeing'
         /\ applied' \in [Gateways -> 1 .. Len(committed')]
         /\ highest' \in [Runs -> Nat]
         /\ \A r \in Runs : highest'[r] >= highest[r] /\ highest'[r] >= Latest'[r].budget
<1>0. Latest \in States /\ Len(committed) \in Nat
  BY LatestTyped
<1>1. apply(Latest, w) \in States /\ Behind(Latest, apply(Latest, w))
  <2>1. CASE w \in OpenWrites
    <3>1. w.run \in Runs /\ w.budget \in Nat /\ w.parent \in Runs \cup {NoParent}
      BY <2>1 DEF OpenWrites
    <3>2. apply(Latest, w) = Open(Latest, w.run, w.budget, w.parent)
      BY <2>1, ApplyIs
    <3>3. Open(Latest, w.run, w.budget, w.parent) \in States /\ Behind(Latest, Open(Latest, w.run, w.budget, w.parent))
      BY <1>0, <3>1, OpenIs
    <3> QED BY <3>2, <3>3
  <2>2. CASE w \in ReserveWrites
    <3>1. w.run \in Runs /\ w.amount \in Nat
      BY <2>2, ClusterInputsAssumption DEF ReserveWrites
    <3>2. apply(Latest, w) = Reserve(Latest, w.run, w.amount)
      BY <2>2, ApplyIs
    <3>3. Reserve(Latest, w.run, w.amount) \in States /\ Behind(Latest, Reserve(Latest, w.run, w.amount))
      BY <1>0, <3>1, ReserveIs
    <3> QED BY <3>2, <3>3
  <2>3. CASE w \in SettleWrites
    <3>1. w.run \in Runs /\ w.amount \in Nat /\ w.actual \in Nat
      BY <2>3, ClusterInputsAssumption DEF SettleWrites
    <3>2. apply(Latest, w) = Settle(Latest, w.run, w.amount, w.actual)
      BY <2>3, ApplyIs
    <3>3. Settle(Latest, w.run, w.amount, w.actual) \in States /\ Behind(Latest, Settle(Latest, w.run, w.amount, w.actual))
      BY <1>0, <3>1, SettleIs
    <3> QED BY <3>2, <3>3
  <2> QED BY <2>1, <2>2, <2>3
<1>2. /\ Latest' = apply(Latest, w)
      /\ committed' \in Seq(States) /\ committed' # <<>> /\ Agreeing'
      /\ Len(committed') >= Len(committed)
      /\ highest' = [r \in Runs |-> IF Latest'[r].budget > highest[r] THEN Latest'[r].budget
                                                                    ELSE highest[r]]
  BY <1>1, CommitIs
<1>3. applied' \in [Gateways -> 1 .. Len(committed')]
  <2>1. Len(committed') \in Nat
    BY <1>2, LenProperties
  <2> QED BY <1>0, <1>2, <2>1 DEF Typed
<1>4. \A r \in Runs : Latest'[r].budget \in Nat /\ highest[r] \in Nat
  BY <1>1, <1>2 DEF States, RunState, Typed
<1>5. /\ highest' \in [Runs -> Nat]
      /\ \A r \in Runs : highest'[r] >= highest[r] /\ highest'[r] >= Latest'[r].budget
  BY <1>2, <1>4
<1> QED BY <1>0, <1>1, <1>2, <1>3, <1>5, Zenon

LEMMA CatchUpIs ==
  ASSUME Typed, Agreeing, NEW g \in Gateways, CatchUp(g)
  PROVE  /\ Latest' = Latest
         /\ committed' \in Seq(States) /\ committed' # <<>> /\ Agreeing'
         /\ applied' \in [Gateways -> 1 .. Len(committed')]
<1> DEFINE n == Len(committed)
           caught_up == [applied EXCEPT ![g] = @ + 1]
           S == Range(caught_up)
           oldest == Min(S)
<1>0. n \in Nat \ {0} /\ committed \in Seq(States) /\ applied \in [Gateways -> 1 .. n]
  BY LatestTyped DEF Typed
<1>1. caught_up \in [Gateways -> 1 .. n]
  BY <1>0 DEF CatchUp
<1>2. /\ committed' = SubSeq(committed, oldest, n)
      /\ applied' = [x \in Gateways |-> caught_up[x] - oldest + 1]
  BY Zenon DEF CatchUp
<1> HIDE DEF caught_up, n
<1>3. S \in SUBSET (1 .. n) /\ S # {} /\ \A x \in Gateways : caught_up[x] \in S
  BY <1>1 DEF Range
<1>4. oldest \in S /\ \A y \in S : oldest =< y
  <2>1. S \in SUBSET Nat
    BY <1>0, <1>3
  <2>2. \E x \in S : \A y \in S : x =< y
    BY <1>3, <2>1, LeastOf
  <2> HIDE DEF S
  <2> QED BY <2>2, Zenon DEF Min
<1> HIDE DEF oldest, S
<1>5. oldest \in 1 .. n
  BY <1>3, <1>4
<1>6. /\ committed' \in Seq(States) /\ Len(committed') = n - oldest + 1
      /\ \A i \in 1 .. n - oldest + 1 : committed'[i] = committed[oldest + i - 1]
  BY <1>0, <1>2, <1>5, SubSeqProperties DEF n
<1>7. Latest' = Latest
  BY <1>0, <1>5, <1>6 DEF Latest, n
<1>8. committed' # <<>>
  BY <1>0, <1>5, <1>6, EmptySeq
<1>9. Agreeing'
  <2> SUFFICES ASSUME NEW i \in DOMAIN committed' PROVE Behind(committed'[i], Latest')
    BY Zenon DEF Agreeing
  <2>1. i \in 1 .. n - oldest + 1
    BY <1>6, LenProperties
  <2>2. oldest + i - 1 \in DOMAIN committed
    BY <1>0, <1>5, <2>1 DEF n
  <2>3. Behind(committed[oldest + i - 1], Latest)
    BY <2>2, Zenon DEF Agreeing
  <2> QED BY <1>6, <1>7, <2>1, <2>3
<1>10. applied' \in [Gateways -> 1 .. Len(committed')]
  <2>1. \A x \in Gateways : caught_up[x] \in 1 .. n /\ oldest =< caught_up[x]
    BY <1>1, <1>3, <1>4
  <2>2. \A x \in Gateways : caught_up[x] - oldest + 1 \in 1 .. n - oldest + 1
    BY <1>0, <1>5, <2>1
  <2> QED BY <1>2, <1>6, <2>2
<1> QED BY <1>6, <1>7, <1>8, <1>9, <1>10

-----------------------------------------------------------------------------
(* The steps by what they do to the ledger and to the writes on the wire.  *)
Writes == OpenWrites \cup ReserveWrites \cup SettleWrites

ParentKnown(w) ==
  ParentsFirst /\ w.op = "Open" => w.parent = NoParent \/ Latest[w.parent].known

Writing(w) ==
  /\ Commit(w) /\ UNCHANGED <<applied, mode>>
  /\ in_flight' \subseteq in_flight

Sending ==
  /\ UNCHANGED <<committed, applied, highest, mode>>
  /\ in_flight' \subseteq in_flight \cup {w \in Writes : ParentKnown(w)}

Catching(g) == CatchUp(g) /\ UNCHANGED <<highest, in_flight, mode>>

SettleOf(g, h, actual) ==
  [op |-> "Settle", gateway |-> g, id |-> h.id, run |-> h.run, amount |-> h.amount,
   actual |-> actual]

LEMMA OpenSent ==
  ASSUME Typed, NEW g \in Gateways, NEW run \in Runs, NEW budget \in Budgets,
         NEW parent \in Runs \cup {NoParent}, NEW basis, open_run(g, run, budget, parent, basis)
  PROVE  \/ Sending
         \/ \E w \in Writes : ParentKnown(w) /\ Writing(w)
<1> DEFINE b == Effective(Local(g)[run], budget, basis)
           w == [op |-> "Open", run |-> run, budget |-> b, parent |-> parent, seq |-> opens]
<1>1. b \in Nat
  <2>1. Local(g) \in States
    BY ElementOfSeq DEF Typed, Local
  <2>2. Local(g)[run].budget \in Nat /\ budget \in Nat
    BY <2>1, ClusterInputsAssumption DEF States, RunState
  <2> QED BY <2>2 DEF Effective
<1>2. /\ Answered(w) \/ Unanswered(w)
      /\ UNCHANGED <<applied, mode>>
      /\ ParentsFirst => parent \in {NoParent} \cup {p \in Runs : Latest[p].known}
  BY DEF open_run
<1> HIDE DEF b
<1>3. w \in Writes /\ w.op = "Open" /\ w.parent = parent
  BY <1>1 DEF Writes, OpenWrites, Typed
<1> HIDE DEF w
<1>4. ParentKnown(w)
  BY <1>2, <1>3, Zenon DEF ParentKnown
<1>5. CASE Answered(w)
  BY <1>2, <1>3, <1>4, <1>5 DEF Answered, Writing
<1>6. CASE Unanswered(w)
  BY <1>2, <1>3, <1>4, <1>6 DEF Unanswered, Sending
<1> QED BY <1>2, <1>5, <1>6, Zenon

LEMMA ReserveSent ==
  ASSUME Typed, NEW g \in Gateways, NEW run \in Runs, NEW estimate \in Amounts
  PROVE  ReserveWrite(g, run, estimate) \in ReserveWrites /\ ParentKnown(ReserveWrite(g, run, estimate))
<1>1. next_id[g] + 1 \in Nat
  BY DEF Typed
<1>2. ReserveWrite(g, run, estimate) \in ReserveWrites
  BY <1>1 DEF ReserveWrite, ReserveWrites
<1>3. ReserveWrite(g, run, estimate).op # "Open"
  BY DEF ReserveWrite
<1> QED BY <1>2, <1>3, Zenon DEF ParentKnown

LEMMA StepKinds ==
  ASSUME Typed, [ClusterNext]_cvars
  PROVE  \/ \E g \in Gateways : Catching(g)
         \/ \E w \in Writes : (w \in in_flight \/ ParentKnown(w)) /\ Writing(w)
         \/ Sending
<1>0. in_flight \subseteq Writes
  BY DEF Typed, Writes
<1>1. ASSUME NEW g \in Gateways, CatchUp(g) PROVE Catching(g)
  BY <1>1 DEF CatchUp, Catching
<1>2. ASSUME NEW w \in in_flight, CommitLate(w) PROVE Writing(w)
  BY <1>2 DEF CommitLate, Writing
<1>3. ASSUME NEW w \in in_flight, Lose(w) PROVE Sending
  BY <1>3 DEF Lose, Sending
<1>4. ASSUME NEW g \in Gateways, NEW run \in Runs, NEW estimate \in Amounts,
             reserve(g, run, estimate) \/ reserve_unchecked(g, run, estimate)
      PROVE  \/ Sending
             \/ \E w \in Writes : ParentKnown(w) /\ Writing(w)
  <2> DEFINE w == ReserveWrite(g, run, estimate)
  <2>1. (Answered(w) \/ Unanswered(w)) /\ UNCHANGED <<applied, mode>>
    BY <1>4 DEF reserve, reserve_unchecked
  <2>2. w \in Writes /\ ParentKnown(w)
    BY ReserveSent DEF Writes
  <2> HIDE DEF w
  <2> QED BY <2>1, <2>2 DEF Answered, Unanswered, Writing, Sending
<1>5. ASSUME NEW g \in Gateways, NEW actual \in Costs, NEW h \in outstanding[g], settle(g, h, actual)
      PROVE  Sending
  <2>1. /\ in_flight' = in_flight \cup {SettleOf(g, h, actual)}
        /\ UNCHANGED <<committed, applied, highest, mode>>
    BY <1>5 DEF settle, SettleOf
  <2>2. SettleOf(g, h, actual) \in SettleWrites /\ SettleOf(g, h, actual).op # "Open"
    <3>1. h \in [id : Nat, gateway : Gateways, run : Runs, amount : Amounts]
      BY DEF Typed
    <3> QED BY <3>1 DEF SettleOf, SettleWrites
  <2>3. SettleOf(g, h, actual) \in {w \in Writes : ParentKnown(w)}
    BY <2>2, Zenon DEF Writes, ParentKnown
  <2> QED BY <2>1, <2>3, Zenon DEF Sending
<1>6. CASE UNCHANGED cvars
  BY <1>6 DEF cvars, mode, Sending
<1> QED BY <1>0, <1>1, <1>2, <1>3, <1>4, <1>5, <1>6, OpenSent, Zenon DEF ClusterNext

-----------------------------------------------------------------------------
(* What every step keeps of the ledger.                                    *)
LEMMA LedgerStep ==
  ASSUME Typed, Agreeing, [ClusterNext]_cvars
  PROVE  /\ Latest \in States /\ Latest' \in States /\ Behind(Latest, Latest')
         /\ committed' \in Seq(States) /\ committed' # <<>> /\ Agreeing'
         /\ applied' \in [Gateways -> 1 .. Len(committed')]
         /\ highest' \in [Runs -> Nat] /\ in_flight' \subseteq Writes
         /\ UNCHANGED mode
<1>0. /\ Latest \in States /\ in_flight \subseteq Writes
      /\ committed \in Seq(States) /\ committed # <<>>
      /\ applied \in [Gateways -> 1 .. Len(committed)] /\ highest \in [Runs -> Nat]
  BY LatestTyped DEF Typed, Writes
<1>1. Behind(Latest, Latest)
  BY <1>0 DEF Behind, States, RunState
<1>2. ASSUME NEW g \in Gateways, Catching(g) PROVE Latest' = Latest
  BY <1>2, CatchUpIs DEF Catching
<1>3. CASE \E g \in Gateways : Catching(g)
  <2>1. PICK g \in Gateways : Catching(g)
    BY <1>3
  <2>2. Latest' = Latest
    BY <1>2, <2>1
  <2>3. /\ committed' \in Seq(States) /\ committed' # <<>> /\ Agreeing'
        /\ applied' \in [Gateways -> 1 .. Len(committed')]
    BY <2>1, CatchUpIs DEF Catching
  <2> QED BY <1>0, <1>1, <2>1, <2>2, <2>3 DEF Catching
<1>4. ASSUME NEW w \in Writes, Writing(w)
      PROVE  /\ Latest' \in States /\ Behind(Latest, Latest')
             /\ committed' \in Seq(States) /\ committed' # <<>> /\ Agreeing'
             /\ applied' \in [Gateways -> 1 .. Len(committed')]
             /\ highest' \in [Runs -> Nat] /\ in_flight' \subseteq Writes
             /\ UNCHANGED mode
  <2>1. Commit(w) /\ UNCHANGED <<applied, mode>> /\ in_flight' \subseteq in_flight
    BY <1>4 DEF Writing
  <2> QED BY <1>0, <2>1, WriteIs DEF Writes
<1>5. CASE Sending
  <2>1. Latest' = Latest /\ (Agreeing' <=> Agreeing)
    BY <1>5, Zenon DEF Sending, Latest, Agreeing
  <2>2. UNCHANGED <<committed, applied, highest, mode>> /\ in_flight' \subseteq Writes
    BY <1>0, <1>5 DEF Sending
  <2> QED BY <1>0, <1>1, <2>1, <2>2
<1> QED BY <1>0, <1>3, <1>4, <1>5, StepKinds

(* What each of the three writes leaves.                                   *)
LEMMA AfterOpen ==
  ASSUME Typed, Agreeing, NEW w \in OpenWrites, Commit(w), UNCHANGED applied
  PROVE  /\ w.run \in Runs
         /\ \A r \in Runs : r # w.run => Latest'[r] = Latest[r]
         /\ Latest'[w.run].known /\ Latest'[w.run].budget = w.budget
         /\ Latest[w.run].known => /\ SameTree(Latest, Latest')
                                   /\ Latest'[w.run].reserved = Latest[w.run].reserved
                                   /\ Latest'[w.run].spent = Latest[w.run].spent
         /\ ~Latest[w.run].known => /\ Latest'[w.run].reserved = 0 /\ Latest'[w.run].spent = 0
                                    /\ Latest'[w.run].parent = w.parent
<1>1. w.run \in Runs /\ w.budget \in Nat /\ w.parent \in Runs \cup {NoParent} /\ Latest \in States
  BY LatestTyped DEF OpenWrites
<1>2. Latest' = Open(Latest, w.run, w.budget, w.parent)
  <2>1. Latest' = apply(Latest, w)
    BY WriteIs
  <2>2. apply(Latest, w) = Open(Latest, w.run, w.budget, w.parent)
    BY ApplyIs
  <2> QED BY <2>1, <2>2, Zenon
<1>3. \A r \in Runs : r # w.run => Latest'[r] = Latest[r]
  BY <1>1, <1>2, OpenIs, Z3T(20)
<1>4. Latest'[w.run].known /\ Latest'[w.run].budget = w.budget
  BY <1>1, <1>2, OpenIs
<1>5. ~Latest[w.run].known => /\ Latest'[w.run].reserved = 0 /\ Latest'[w.run].spent = 0
                                    /\ Latest'[w.run].parent = w.parent
  BY <1>1, <1>2, OpenIs
<1>6. Latest[w.run].known => /\ SameTree(Latest, Latest')
                                   /\ Latest'[w.run].reserved = Latest[w.run].reserved
                                   /\ Latest'[w.run].spent = Latest[w.run].spent
  BY <1>1, <1>2, OpenIs, Z3T(20)
<1> QED BY <1>1, <1>3, <1>4, <1>5, <1>6

LEMMA AfterReserve ==
  ASSUME Typed, Agreeing, NEW w \in ReserveWrites, Commit(w), UNCHANGED applied
  PROVE  /\ w.run \in Runs /\ w.amount \in Nat
         /\ SameTree(Latest, Latest')
         /\ \A r \in Runs : Latest'[r].budget = Latest[r].budget /\ Latest'[r].spent = Latest[r].spent
         /\ \A r \in Runs : ~Latest[r].known => Latest'[r] = Latest[r]
         /\ \A r \in Runs :
              Latest'[r].reserved = IF Accepted(Latest, w.run, w.amount) /\ r \in chain(Latest, w.run)
                                    THEN Latest[r].reserved + w.amount ELSE Latest[r].reserved
<1>1. w.run \in Runs /\ w.amount \in Nat /\ Latest \in States
  BY LatestTyped, ClusterInputsAssumption DEF ReserveWrites
<1>2. Latest' = Reserve(Latest, w.run, w.amount)
  <2>1. Latest' = apply(Latest, w)
    BY WriteIs
  <2>2. apply(Latest, w) = Reserve(Latest, w.run, w.amount)
    BY ApplyIs
  <2> QED BY <2>1, <2>2, Zenon
<1> QED BY <1>1, <1>2, ReserveIs

LEMMA AfterSettle ==
  ASSUME Typed, Agreeing, NEW w \in SettleWrites, Commit(w), UNCHANGED applied
  PROVE  /\ w.run \in Runs /\ w.amount \in Nat /\ w.amount \in Amounts
         /\ w.actual \in Nat /\ w.actual \in Costs
         /\ SameTree(Latest, Latest')
         /\ \A r \in Runs : Latest'[r].budget = Latest[r].budget
         /\ \A r \in Runs : r \notin chain(Latest, w.run) => Latest'[r] = Latest[r]
         /\ \A r \in Runs : ~Latest[r].known => Latest'[r] = Latest[r]
         /\ \A r \in Runs : r \in chain(Latest, w.run) =>
              /\ Latest'[r].reserved = SaturatingSub(Latest[r].reserved, w.amount)
              /\ Latest'[r].spent = Latest[r].spent + w.actual
<1>1. /\ w.run \in Runs /\ w.amount \in Nat /\ w.amount \in Amounts
      /\ w.actual \in Nat /\ w.actual \in Costs /\ Latest \in States
  BY LatestTyped, ClusterInputsAssumption DEF SettleWrites
<1>2. Latest' = Settle(Latest, w.run, w.amount, w.actual)
  <2>1. Latest' = apply(Latest, w)
    BY WriteIs
  <2>2. apply(Latest, w) = Settle(Latest, w.run, w.amount, w.actual)
    BY ApplyIs
  <2> QED BY <2>1, <2>2, Zenon
<1>0. Latest \in States
  BY LatestTyped
<1>3. ASSUME NEW run \in Runs, NEW amount \in Nat, NEW actual \in Nat,
             Latest' = Settle(Latest, run, amount, actual)
      PROVE  /\ SameTree(Latest, Latest')
             /\ \A r \in Runs : Latest'[r].budget = Latest[r].budget
             /\ \A r \in Runs : r \notin chain(Latest, run) => Latest'[r] = Latest[r]
             /\ \A r \in Runs : ~Latest[r].known => Latest'[r] = Latest[r]
             /\ \A r \in Runs : r \in chain(Latest, run) =>
                  /\ Latest'[r].reserved = SaturatingSub(Latest[r].reserved, amount)
                  /\ Latest'[r].spent = Latest[r].spent + actual
  BY <1>0, <1>3, SettleIs, Z3
<1> QED BY <1>1, <1>2, <1>3

(* A run not known before a write is opened by it or left alone.           *)
LEMMA WrittenRuns ==
  ASSUME Typed, Agreeing, NEW w \in Writes, Writing(w), NEW r \in Runs, ~Latest[r].known
  PROVE  \/ Latest'[r] = Latest[r]
         \/ w \in OpenWrites /\ r = w.run /\ Latest'[r].known /\ Latest'[r].parent = w.parent
<1>0. Commit(w) /\ UNCHANGED applied
  BY DEF Writing
<1>1. CASE w \in OpenWrites
  BY <1>0, <1>1, AfterOpen
<1>2. CASE w \in ReserveWrites
  BY <1>0, <1>2, AfterReserve
<1>3. CASE w \in SettleWrites
  BY <1>0, <1>3, AfterSettle
<1> QED BY <1>1, <1>2, <1>3 DEF Writes

LEMMA BookedStep ==
  ASSUME Typed, Agreeing, Booked, [ClusterNext]_cvars
  PROVE  Booked'
<1>1. ASSUME NEW g \in Gateways, Catching(g) PROVE Booked'
  <2>1. Latest' = Latest /\ highest' = highest
    BY <1>1, CatchUpIs DEF Catching
  <2> QED BY <2>1 DEF Booked
<1>2. CASE Sending
  <2>1. Latest' = Latest /\ highest' = highest
    BY <1>2, Zenon DEF Sending, Latest
  <2> QED BY <2>1 DEF Booked
<1>3. ASSUME NEW w \in Writes, Writing(w) PROVE Booked'
  <2>1. \A r \in Runs : Latest'[r].budget =< highest'[r]
    <3>1. Commit(w) /\ UNCHANGED applied
      BY <1>3 DEF Writing
    <3>2. /\ Latest' \in States /\ highest' \in [Runs -> Nat]
          /\ \A r \in Runs : highest'[r] >= Latest'[r].budget
      BY <3>1, WriteIs DEF Writes
    <3> QED BY <3>2 DEF States, RunState
  <2>2. \A r \in Runs : Latest[r].known => Latest'[r].known
    BY LedgerStep, Zenon DEF Behind
  <2>3. \A r \in Runs : ~Latest'[r].known => Latest'[r] = Absent
    BY <1>3, <2>2, WrittenRuns, Zenon DEF Booked
  <2> QED BY <2>1, <2>3, Zenon DEF Booked
<1> QED BY <1>1, <1>2, <1>3, StepKinds

LEMMA RootedStep ==
  ASSUME Typed, Agreeing, Rooted, [ClusterNext]_cvars
  PROVE  Rooted'
<1> SUFFICES ASSUME ParentsFirst
             PROVE  /\ \A r \in Runs : Latest'[r].known =>
                         Latest'[r].parent = NoParent \/ Latest'[Latest'[r].parent].known
                    /\ \A w \in in_flight' :
                         w.op = "Open" => w.parent = NoParent \/ Latest'[w.parent].known
  BY DEF Rooted
<1>0. Latest \in States /\ Latest' \in States /\ Behind(Latest, Latest')
  BY LedgerStep
<1>1. \A r \in Runs : Latest[r].known => Latest'[r].known /\ Latest'[r].parent = Latest[r].parent
  BY <1>0, Zenon DEF Behind
<1>2. \A w \in Writes : ParentKnown(w) /\ w.op = "Open" => w.parent = NoParent \/ Latest'[w.parent].known
  <2> SUFFICES ASSUME NEW w \in Writes, ParentKnown(w), w.op = "Open", w.parent # NoParent
               PROVE  Latest'[w.parent].known
    OBVIOUS
  <2>1. w.parent \in Runs
    BY DEF Writes, OpenWrites, ReserveWrites, SettleWrites
  <2> QED BY <1>1, <2>1, Zenon DEF ParentKnown
<1>3. \A w \in in_flight : w \in Writes /\ ParentKnown(w)
  BY DEF Typed, Writes, Rooted, ParentKnown
<1>4. \A r \in Runs : Latest[r].known =>
        Latest'[r].parent = NoParent \/ Latest'[Latest'[r].parent].known
  <2> SUFFICES ASSUME NEW r \in Runs, Latest[r].known, Latest[r].parent # NoParent
               PROVE  Latest'[Latest[r].parent].known
    BY <1>1
  <2>1. Latest[r].parent \in Runs
    BY <1>0 DEF States, RunState
  <2> QED BY <1>1, <2>1, Zenon DEF Rooted
<1>5. \A w \in in_flight' : w.op = "Open" => w.parent = NoParent \/ Latest'[w.parent].known
  BY <1>2, <1>3, StepKinds DEF Catching, Writing, Sending
<1>6. \A r \in Runs : Latest'[r].known =>
        Latest'[r].parent = NoParent \/ Latest'[Latest'[r].parent].known
  <2>1. CASE Latest' = Latest
    BY <1>4, <2>1, Zenon
  <2>2. ASSUME NEW w \in Writes, w \in in_flight \/ ParentKnown(w), Writing(w), NEW r \in Runs,
               ~Latest[r].known, Latest'[r].known
        PROVE  Latest'[r].parent = NoParent \/ Latest'[Latest'[r].parent].known
    <3>1. CASE Latest'[r] = Latest[r]
      BY <2>2, <3>1, Zenon
    <3>2. CASE w \in OpenWrites /\ Latest'[r].parent = w.parent
      <4>1. w.op = "Open"
        BY <3>2 DEF OpenWrites
      <4> QED BY <1>2, <1>3, <2>2, <3>2, <4>1, Zenon
    <3> QED BY <2>2, <3>1, <3>2, WrittenRuns, Zenon
  <2>3. Sending \/ (\E g \in Gateways : Catching(g)) => Latest' = Latest
    BY CatchUpIs DEF Sending, Catching, Latest
  <2> QED BY <1>4, <2>1, <2>2, <2>3, StepKinds, Zenon
<1> QED BY <1>5, <1>6

-----------------------------------------------------------------------------
(* The reservations not yet settled, and what a step does to them.         *)
Handles == [id : Nat, gateway : Gateways, run : Runs, amount : Amounts]

LEMMA InUnsettled ==
  ASSUME NEW u
  PROVE  /\ u \in Unsettled <=> (\E g \in Gateways : u \in outstanding[g]) \/ u \in InFlightSettles
         /\ u \in Unsettled' <=> (\E g \in Gateways : u \in outstanding'[g]) \/ u \in InFlightSettles'
<1>1. u \in Unsettled <=> (\E g \in Gateways : u \in outstanding[g]) \/ u \in InFlightSettles
  <2> DEFINE All == {outstanding[g] : g \in Gateways}
  <2>1. Unsettled = (UNION All) \cup InFlightSettles
    BY Zenon DEF Unsettled
  <2>2. \A g \in Gateways : outstanding[g] \in All
    BY Zenon
  <2>3. \A s \in All : \E g \in Gateways : s = outstanding[g]
    BY Zenon
  <2> HIDE DEF All
  <2> QED BY <2>1, <2>2, <2>3
<1>2. u \in Unsettled' <=> (\E g \in Gateways : u \in outstanding'[g]) \/ u \in InFlightSettles'
  <2> DEFINE All == {outstanding'[g] : g \in Gateways}
  <2>1. Unsettled' = (UNION All) \cup InFlightSettles'
    BY Zenon DEF Unsettled
  <2>2. \A g \in Gateways : outstanding'[g] \in All
    BY Zenon
  <2>3. \A s \in All : \E g \in Gateways : s = outstanding'[g]
    BY Zenon
  <2> HIDE DEF All
  <2> QED BY <2>1, <2>2, <2>3
<1> QED BY <1>1, <1>2

LEMMA UnsettledIs ==
  ASSUME Typed
  PROVE  /\ InFlightSettles \subseteq SettleWrites
         /\ \A g \in Gateways : outstanding[g] \subseteq Handles
         /\ \A u \in Handles : u \notin SettleWrites
         /\ \A u \in Unsettled : /\ u.gateway \in Gateways /\ u.id \in Nat /\ u.run \in Runs
                                 /\ u.amount \in Amounts /\ u.amount \in Nat
<1>1. InFlightSettles \subseteq SettleWrites
  BY DEF Typed, InFlightSettles, OpenWrites, ReserveWrites, SettleWrites
<1>2. \A g \in Gateways : outstanding[g] \subseteq Handles
  BY DEF Typed, Handles
<1>3. \A u \in Handles : u \notin SettleWrites
  BY DEF Handles, SettleWrites
<1>4. \A u \in Unsettled : u \in Handles \cup SettleWrites
  BY <1>1, <1>2, InUnsettled
<1>5. \A u \in Handles \cup SettleWrites :
        /\ u.gateway \in Gateways /\ u.id \in Nat /\ u.run \in Runs
        /\ u.amount \in Amounts /\ u.amount \in Nat
  BY ClusterInputsAssumption DEF Handles, SettleWrites
<1> QED BY <1>1, <1>2, <1>3, <1>4, <1>5

SameSettles == InFlightSettles' = InFlightSettles

Granting(g, run, estimate) == grant(g, run, estimate) /\ SameSettles

Arriving(w) == in_flight' = in_flight \ {w} /\ UNCHANGED <<outstanding, next_id>>

LEMMA HeldKinds ==
  ASSUME Typed, [ClusterNext]_cvars
  PROVE  /\ opens' \in Nat
         /\ \/ UNCHANGED <<outstanding, next_id>> /\ SameSettles
            \/ \E w \in InFlightSettles : Arriving(w) /\ (CommitLate(w) \/ Lose(w))
            \/ \E g \in Gateways, run \in Runs, estimate \in Amounts :
                 /\ Granting(g, run, estimate)
                 /\ reserve(g, run, estimate) \/ reserve_unchecked(g, run, estimate)
            \/ \E g \in Gateways, actual \in Costs : \E h \in outstanding[g] : settle(g, h, actual)
<1>0. opens \in Nat
  BY DEF Typed
<1>1. ASSUME NEW g \in Gateways, CatchUp(g)
      PROVE  opens' = opens /\ UNCHANGED <<outstanding, next_id>> /\ SameSettles
  BY <1>1 DEF CatchUp, SameSettles, InFlightSettles
<1>2. ASSUME NEW w \in in_flight, CommitLate(w) \/ Lose(w)
      PROVE  /\ opens' = opens /\ Arriving(w)
             /\ w \notin InFlightSettles => SameSettles
  BY <1>2 DEF CommitLate, Lose, Arriving, SameSettles, InFlightSettles
<1>3. ASSUME NEW g \in Gateways, NEW run \in Runs, NEW budget \in Budgets,
             NEW parent \in Runs \cup {NoParent}, NEW basis, open_run(g, run, budget, parent, basis)
      PROVE  opens' = opens + 1 /\ UNCHANGED <<outstanding, next_id>> /\ SameSettles
  <2> DEFINE w == [op |-> "Open", run |-> run, budget |-> Effective(Local(g)[run], budget, basis),
                   parent |-> parent, seq |-> opens]
  <2>1. /\ opens' = opens + 1 /\ UNCHANGED <<outstanding, next_id>>
        /\ Answered(w) \/ Unanswered(w)
    BY <1>3 DEF open_run
  <2>2. w.op # "Settle"
    OBVIOUS
  <2> HIDE DEF w
  <2>3. in_flight' = in_flight \/ in_flight' = in_flight \cup {w}
    BY <2>1 DEF Answered, Unanswered
  <2> QED BY <2>1, <2>2, <2>3 DEF SameSettles, InFlightSettles
<1>4. ASSUME NEW g \in Gateways, NEW run \in Runs, NEW estimate \in Amounts,
             reserve(g, run, estimate) \/ reserve_unchecked(g, run, estimate)
      PROVE  opens' = opens /\ Granting(g, run, estimate)
  <2> DEFINE w == ReserveWrite(g, run, estimate)
  <2>1. /\ Answered(w) \/ Unanswered(w)
        /\ opens' = opens /\ grant(g, run, estimate)
    BY <1>4 DEF reserve, reserve_unchecked
  <2>2. w.op # "Settle"
    BY DEF ReserveWrite
  <2> HIDE DEF w
  <2>3. in_flight' = in_flight \/ in_flight' = in_flight \cup {w}
    BY <2>1 DEF Answered, Unanswered
  <2> QED BY <2>1, <2>2, <2>3 DEF Granting, SameSettles, InFlightSettles
<1>5. ASSUME NEW g \in Gateways, NEW actual \in Costs, NEW h \in outstanding[g], settle(g, h, actual)
      PROVE  opens' = opens
  BY <1>5 DEF settle
<1>6. CASE UNCHANGED cvars
  <2>1. UNCHANGED <<outstanding, next_id, in_flight, opens>>
    BY <1>6 DEF cvars
  <2>2. SameSettles
    BY <2>1 DEF SameSettles, InFlightSettles
  <2>3. opens' \in Nat
    BY <1>0, <2>1
  <2> QED BY <2>1, <2>2, <2>3, Zenon
<1>7. CASE \E w \in in_flight : CommitLate(w) \/ Lose(w)
  <2>1. PICK w \in in_flight : CommitLate(w) \/ Lose(w)
    BY <1>7
  <2>2. CASE w \in InFlightSettles
    BY <1>0, <1>2, <2>1, <2>2, Zenon
  <2>3. CASE w \notin InFlightSettles
    BY <1>0, <1>2, <2>1, <2>3, Zenon DEF Arriving
  <2> QED BY <2>2, <2>3
<1>8. opens + 1 \in Nat
  BY <1>0
<1> QED BY <1>0, <1>1, <1>3, <1>4, <1>5, <1>6, <1>7, <1>8, Zenon DEF ClusterNext

(* The same, as what becomes of the reservations not yet settled.          *)
LEMMA GrantedIs ==
  ASSUME Typed, Numbered, NEW g \in Gateways, NEW run \in Runs, NEW estimate \in Amounts,
         Granting(g, run, estimate)
  PROVE  LET new == [id |-> next_id[g] + 1, gateway |-> g, run |-> run, amount |-> estimate] IN
         /\ new \in Handles /\ Unsettled' = Unsettled \cup {new}
         /\ \A u \in Unsettled : u.gateway = g => u.id # new.id
         /\ outstanding' \in [Gateways -> SUBSET Handles] /\ next_id' \in [Gateways -> Nat]
         /\ \A x \in Gateways : next_id'[x] >= next_id[x] /\ \A h \in outstanding'[x] : h.gateway = x
         /\ new.id =< next_id'[g]
<1> DEFINE new == [id |-> next_id[g] + 1, gateway |-> g, run |-> run, amount |-> estimate]
<1>0. next_id \in [Gateways -> Nat] /\ outstanding \in [Gateways -> SUBSET Handles]
  BY DEF Typed, Handles
<1>1. /\ next_id' = [next_id EXCEPT ![g] = @ + 1]
      /\ outstanding' = [outstanding EXCEPT ![g] = @ \cup {new}]
      /\ SameSettles
  BY DEF Granting, grant
<1>2. new \in Handles /\ new.gateway = g /\ new.id = next_id[g] + 1
  BY <1>0 DEF Handles
<1> HIDE DEF new
<1>3. /\ outstanding' \in [Gateways -> SUBSET Handles] /\ next_id' \in [Gateways -> Nat]
      /\ \A x \in Gateways : next_id'[x] >= next_id[x]
      /\ next_id'[g] = next_id[g] + 1
  BY <1>0, <1>1, <1>2
<1>4. /\ outstanding'[g] = outstanding[g] \cup {new}
      /\ \A x \in Gateways : x # g => outstanding'[x] = outstanding[x]
  BY <1>0, <1>1
<1>5. Unsettled' = Unsettled \cup {new}
  BY <1>1, <1>4 DEF Unsettled, SameSettles
<1>6. \A u \in Unsettled : u.gateway = g => u.id # new.id
  <2> SUFFICES ASSUME NEW u \in Unsettled, u.gateway = g PROVE u.id # new.id
    OBVIOUS
  <2>1. u.id \in Nat /\ u.id =< next_id[g]
    BY UnsettledIs DEF Numbered
  <2> QED BY <1>0, <1>2, <2>1
<1>7. \A x \in Gateways : \A h \in outstanding'[x] : h.gateway = x
  BY <1>2, <1>4 DEF Numbered
<1>8. new.id =< next_id'[g]
  BY <1>0, <1>2, <1>3
<1> QED BY <1>2, <1>3, <1>5, <1>6, <1>7, <1>8 DEF new

LEMMA SettledIs ==
  ASSUME Typed, Numbered, NEW g \in Gateways, NEW actual \in Costs, NEW h \in outstanding[g],
         settle(g, h, actual)
  PROVE  LET w == SettleOf(g, h, actual) IN
         /\ h \in Unsettled /\ Unsettled' = (Unsettled \ {h}) \cup {w}
         /\ w \in SettleWrites /\ w.gateway = h.gateway /\ w.id = h.id /\ w.run = h.run
         /\ w.amount = h.amount
         /\ outstanding' \in [Gateways -> SUBSET Handles] /\ UNCHANGED next_id
         /\ \A x \in Gateways : \A k \in outstanding'[x] : k.gateway = x
<1> DEFINE w == SettleOf(g, h, actual)
<1>0. outstanding \in [Gateways -> SUBSET Handles] /\ h \in Handles /\ h.gateway = g
  BY DEF Typed, Handles, Numbered
<1>1. w \in SettleWrites /\ w.gateway = h.gateway /\ w.id = h.id /\ w.run = h.run
      /\ w.amount = h.amount /\ w.op = "Settle"
  BY <1>0 DEF SettleOf, SettleWrites, Handles
<1>2. /\ outstanding' = [outstanding EXCEPT ![g] = @ \ {h}]
      /\ in_flight' = in_flight \cup {w} /\ UNCHANGED next_id
  BY DEF settle, SettleOf
<1> HIDE DEF w
<1>3. InFlightSettles' = InFlightSettles \cup {w}
  BY <1>1, <1>2 DEF InFlightSettles
<1>4. /\ outstanding'[g] = outstanding[g] \ {h}
      /\ \A x \in Gateways : x # g => outstanding'[x] = outstanding[x] /\ h \notin outstanding[x]
      /\ outstanding' \in [Gateways -> SUBSET Handles]
  BY <1>0, <1>2 DEF Numbered
<1>5. h \notin InFlightSettles
  BY <1>0, UnsettledIs
<1>6. Unsettled' = (Unsettled \ {h}) \cup {w}
  <2>1. ASSUME NEW u PROVE u \in Unsettled' <=> u \in (Unsettled \ {h}) \cup {w}
    <3>1. (\E x \in Gateways : u \in outstanding'[x]) <=>
            u # h /\ \E x \in Gateways : u \in outstanding[x]
      BY <1>4
    <3>2. u \in InFlightSettles' <=> u \in InFlightSettles \/ u = w
      BY <1>3
    <3> QED BY <1>5, <3>1, <3>2, InUnsettled
  <2> QED BY <2>1
<1>7. \A x \in Gateways : \A k \in outstanding'[x] : k.gateway = x
  BY <1>4 DEF Numbered
<1>8. h \in Unsettled
  BY DEF Unsettled
<1> QED BY <1>1, <1>2, <1>4, <1>6, <1>7, <1>8 DEF w

LEMMA ArrivedIs ==
  ASSUME Typed, NEW w \in InFlightSettles, Arriving(w)
  PROVE  w \in Unsettled /\ Unsettled' = Unsettled \ {w}
<1>1. InFlightSettles' = InFlightSettles \ {w} /\ UNCHANGED outstanding
  BY DEF Arriving, InFlightSettles
<1>2. \A g \in Gateways : w \notin outstanding[g]
  BY UnsettledIs
<1>3. ASSUME NEW u PROVE u \in Unsettled' <=> u \in Unsettled /\ u # w
  BY <1>1, <1>2, InUnsettled
<1> QED BY <1>3, InUnsettled

LEMMA ToksSwap ==
  ASSUME NEW S, NEW h \in S, NEW w, w.gateway = h.gateway, w.id = h.id, w.amount = h.amount
  PROVE  Toks((S \ {h}) \cup {w}) = Toks(S)
<1> DEFINE T(u) == {<<u.gateway, u.id>>} \X (1 .. u.amount)
<1>1. T(w) = T(h)
  OBVIOUS
<1>2. ASSUME NEW U, NEW x PROVE x \in Toks(U) <=> \E u \in U : x \in T(u)
  BY DEF Toks
<1> HIDE DEF T
<1>3. ASSUME NEW x PROVE x \in Toks((S \ {h}) \cup {w}) <=> x \in Toks(S)
  BY <1>1, <1>2, Zenon
<1> QED BY <1>3

LEMMA SameUnsettled ==
  ASSUME UNCHANGED outstanding, SameSettles
  PROVE  Unsettled' = Unsettled
<1>1. ASSUME NEW u PROVE u \in Unsettled' <=> u \in Unsettled
  BY InUnsettled DEF SameSettles
<1> QED BY <1>1

LEMMA TypedStep ==
  ASSUME Typed, Agreeing, Numbered, [ClusterNext]_cvars
  PROVE  Typed' /\ Agreeing'
<1>1. /\ committed' \in Seq(States) /\ committed' # <<>> /\ Agreeing'
      /\ applied' \in [Gateways -> 1 .. Len(committed')]
      /\ highest' \in [Runs -> Nat] /\ in_flight' \subseteq Writes
  BY LedgerStep
<1>2. opens' \in Nat
  BY HeldKinds
<1>3. outstanding' \in [Gateways -> SUBSET Handles] /\ next_id' \in [Gateways -> Nat]
  <2>1. outstanding \in [Gateways -> SUBSET Handles] /\ next_id \in [Gateways -> Nat]
    BY DEF Typed, Handles
  <2>2. ASSUME NEW g \in Gateways, NEW run \in Runs, NEW estimate \in Amounts,
               Granting(g, run, estimate)
        PROVE  outstanding' \in [Gateways -> SUBSET Handles] /\ next_id' \in [Gateways -> Nat]
    BY <2>2, GrantedIs
  <2>3. ASSUME NEW g \in Gateways, NEW actual \in Costs, NEW h \in outstanding[g],
               settle(g, h, actual)
        PROVE  outstanding' \in [Gateways -> SUBSET Handles] /\ UNCHANGED next_id
    BY <2>3, SettledIs
  <2> QED BY <2>1, <2>2, <2>3, HeldKinds DEF Arriving
<1> QED BY <1>1, <1>2, <1>3 DEF Typed, Writes, Handles

LEMMA NumberedStep ==
  ASSUME Typed, Numbered, Finite, [ClusterNext]_cvars
  PROVE  Numbered' /\ Finite'
<1>0. /\ next_id \in [Gateways -> Nat]
      /\ \A u \in Unsettled : u.gateway \in Gateways /\ u.id \in Nat /\ u.amount \in Nat
  BY UnsettledIs DEF Typed
<1>1. CASE UNCHANGED <<outstanding, next_id>> /\ SameSettles
  <2>1. Unsettled' = Unsettled
    BY <1>1, SameUnsettled
  <2> QED BY <1>1, <2>1 DEF Numbered, Finite
<1>2. ASSUME NEW w \in InFlightSettles, Arriving(w) PROVE Numbered' /\ Finite'
  <2>1. Unsettled' \in SUBSET Unsettled /\ UNCHANGED <<outstanding, next_id>>
    BY <1>2, ArrivedIs DEF Arriving
  <2>2. IsFiniteSet(Toks(Unsettled'))
    BY <2>1, ToksWithin DEF Finite
  <2> QED BY <2>1, <2>2 DEF Numbered, Finite
<1>3. ASSUME NEW g \in Gateways, NEW run \in Runs, NEW estimate \in Amounts,
             Granting(g, run, estimate)
      PROVE  Numbered' /\ Finite'
  <2> DEFINE new == [id |-> next_id[g] + 1, gateway |-> g, run |-> run, amount |-> estimate]
  <2>1. /\ new \in Handles /\ Unsettled' = Unsettled \cup {new}
        /\ \A u \in Unsettled : u.gateway = g => u.id # new.id
        /\ next_id' \in [Gateways -> Nat]
        /\ \A x \in Gateways : next_id'[x] >= next_id[x] /\ \A h \in outstanding'[x] : h.gateway = x
        /\ new.id =< next_id'[g] /\ new.gateway = g
    BY <1>3, GrantedIs
  <2> HIDE DEF new
  <2>2. new.amount \in Nat /\ new.id \in Nat
    BY <2>1, ClusterInputsAssumption DEF Handles
  <2>3. IsFiniteSet(Toks(Unsettled'))
    <3>1. \A u \in Unsettled : <<u.gateway, u.id>> # <<new.gateway, new.id>>
      BY <2>1
    <3> QED BY <2>1, <2>2, <3>1, ToksAdd DEF Finite
  <2>4. \A u \in Unsettled' : u.id =< next_id'[u.gateway]
    <3>1. \A u \in Unsettled : u.id =< next_id'[u.gateway]
      <4> SUFFICES ASSUME NEW u \in Unsettled PROVE u.id =< next_id'[u.gateway]
        OBVIOUS
      <4>1. /\ u.id \in Nat /\ next_id[u.gateway] \in Nat /\ next_id'[u.gateway] \in Nat
            /\ u.id =< next_id[u.gateway] /\ next_id'[u.gateway] >= next_id[u.gateway]
        BY <1>0, <2>1 DEF Numbered
      <4> QED BY <4>1
    <3> QED BY <2>1, <3>1
  <2>5. \A u, v \in Unsettled' : u.gateway = v.gateway /\ u.id = v.id => u = v
    BY <2>1 DEF Numbered
  <2> QED BY <2>1, <2>3, <2>4, <2>5 DEF Numbered, Finite
<1>4. ASSUME NEW g \in Gateways, NEW actual \in Costs, NEW h \in outstanding[g], settle(g, h, actual)
      PROVE  Numbered' /\ Finite'
  <2> DEFINE w == SettleOf(g, h, actual)
  <2>1. /\ h \in Unsettled /\ Unsettled' = (Unsettled \ {h}) \cup {w}
        /\ w.gateway = h.gateway /\ w.id = h.id /\ w.amount = h.amount
        /\ UNCHANGED next_id
        /\ \A x \in Gateways : \A k \in outstanding'[x] : k.gateway = x
    BY <1>4, SettledIs
  <2> HIDE DEF w
  <2>2. IsFiniteSet(Toks(Unsettled'))
    BY <2>1, ToksSwap DEF Finite
  <2>3. \A u \in Unsettled' : u.id =< next_id'[u.gateway]
    BY <2>1 DEF Numbered
  <2>4. \A u, v \in Unsettled' : u.gateway = v.gateway /\ u.id = v.id => u = v
    BY <2>1 DEF Numbered
  <2> QED BY <2>1, <2>2, <2>3, <2>4 DEF Numbered, Finite
<1> QED BY <1>1, <1>2, <1>3, <1>4, HeldKinds

LEMMA HeardStep ==
  ASSUME Typed, Heard, [ClusterNext]_cvars
  PROVE  Heard'
<1> SUFFICES ASSUME reachable' PROVE in_flight' \subseteq SettleWrites
  BY DEF Heard
<1>0. reachable
  <2>1. UNCHANGED reachable
    BY ZenonT(20) DEF ClusterNext, CatchUp, CommitLate, Lose, open_run, reserve, reserve_unchecked, settle,
           cvars, mode
  <2> QED BY <2>1
<1>1. in_flight \subseteq SettleWrites
  BY <1>0, Zenon DEF Heard
<1>2. ASSUME NEW w, Answered(w) \/ Unanswered(w) PROVE in_flight' = in_flight
  BY <1>0, <1>2, Zenon DEF Answered, Unanswered
<1>3. ASSUME NEW g \in Gateways, NEW actual \in Costs, NEW h \in outstanding[g], settle(g, h, actual)
      PROVE  in_flight' \subseteq SettleWrites
  <2>1. SettleOf(g, h, actual) \in SettleWrites
    <3>1. h \in Handles
      BY DEF Typed, Handles
    <3> QED BY <3>1 DEF SettleOf, SettleWrites, Handles
  <2>2. in_flight' = in_flight \cup {SettleOf(g, h, actual)}
    BY <1>3 DEF settle, SettleOf
  <2> QED BY <1>1, <2>1, <2>2
<1>4. ASSUME NEW w, CommitLate(w) \/ Lose(w) PROVE in_flight' \subseteq SettleWrites
  BY <1>1, <1>4 DEF CommitLate, Lose
<1>5. ASSUME NEW g, NEW run, NEW budget, NEW parent, NEW basis,
             open_run(g, run, budget, parent, basis)
      PROVE  in_flight' \subseteq SettleWrites
  BY <1>1, <1>2, <1>5 DEF open_run
<1>6. ASSUME NEW g, NEW run, NEW estimate,
             reserve(g, run, estimate) \/ reserve_unchecked(g, run, estimate)
      PROVE  in_flight' \subseteq SettleWrites
  BY <1>1, <1>2, <1>6 DEF reserve, reserve_unchecked
<1>7. ASSUME NEW g, CatchUp(g) PROVE in_flight' \subseteq SettleWrites
  BY <1>1, <1>7 DEF CatchUp
<1>8. CASE UNCHANGED cvars
  BY <1>1, <1>8 DEF cvars
<1> QED BY <1>3, <1>4, <1>5, <1>6, <1>7, <1>8 DEF ClusterNext

-----------------------------------------------------------------------------
(* Where consensus answers: what a step does to the ledger and to the      *)
(* reservations together.                                                  *)
Still == Latest' = Latest /\ Unsettled' = Unsettled /\ UNCHANGED highest

Opening(w) ==
  w \in OpenWrites /\ ParentKnown(w) /\ Commit(w) /\ UNCHANGED applied /\ Unsettled' = Unsettled

Holding(w, new) ==
  /\ w \in ReserveWrites /\ Commit(w) /\ UNCHANGED applied
  /\ enforce => Accepted(Latest, w.run, w.amount)
  /\ new.run = w.run /\ new.amount = w.amount
  /\ \A u \in Unsettled : <<u.gateway, u.id>> # <<new.gateway, new.id>>
  /\ Unsettled' = Unsettled \cup {new}

Sealing(h, w) ==
  /\ h \in Unsettled /\ Unsettled' = (Unsettled \ {h}) \cup {w}
  /\ w.gateway = h.gateway /\ w.id = h.id /\ w.run = h.run /\ w.amount = h.amount
  /\ Latest' = Latest /\ UNCHANGED highest

Releasing(w) ==
  /\ w \in SettleWrites /\ Commit(w) /\ UNCHANGED applied
  /\ w \in Unsettled /\ Unsettled' = Unsettled \ {w}

LEMMA BalanceKinds ==
  ASSUME Typed, Agreeing, Numbered, Heard, reachable, [ClusterNext]_cvars
  PROVE  \/ Still
         \/ \E w : Opening(w)
         \/ \E w, new : Holding(w, new)
         \/ \E h, w : Sealing(h, w)
         \/ \E w : Releasing(w)
<1>0. InFlightSettles = in_flight
  <2>1. in_flight \subseteq SettleWrites
    BY Zenon DEF Heard
  <2> QED BY <2>1 DEF InFlightSettles, SettleWrites
<1>1. ASSUME NEW g \in Gateways, CatchUp(g) PROVE Still
  <2>1. UNCHANGED <<highest, in_flight, outstanding>>
    BY <1>1 DEF CatchUp
  <2>2. SameSettles
    BY <2>1 DEF SameSettles, InFlightSettles
  <2> QED BY <1>1, <2>1, <2>2, CatchUpIs, SameUnsettled DEF Still
<1>2. ASSUME NEW w, Answered(w) \/ Unanswered(w) PROVE Answered(w)
  BY <1>2, Zenon DEF Unanswered
<1>3. ASSUME NEW w \in in_flight, CommitLate(w) \/ Lose(w) PROVE Releasing(w)
  <2>1. CommitLate(w)
    BY <1>3, Zenon DEF Lose
  <2>2. Commit(w) /\ UNCHANGED applied /\ Arriving(w)
    BY <2>1 DEF CommitLate, Arriving
  <2>3. w \in InFlightSettles /\ w \in SettleWrites
    BY <1>0, <1>3, UnsettledIs
  <2> QED BY <2>2, <2>3, ArrivedIs DEF Releasing
<1>4. ASSUME NEW g \in Gateways, NEW run \in Runs, NEW budget \in Budgets,
             NEW parent \in Runs \cup {NoParent}, NEW basis, open_run(g, run, budget, parent, basis)
      PROVE  \E w : Opening(w)
  <2> DEFINE b == Effective(Local(g)[run], budget, basis)
             w == [op |-> "Open", run |-> run, budget |-> b, parent |-> parent, seq |-> opens]
  <2>1. b \in Nat
    <3>1. Local(g) \in States
      BY ElementOfSeq DEF Typed, Local
    <3>2. Local(g)[run].budget \in Nat /\ budget \in Nat
      BY <3>1, ClusterInputsAssumption DEF States, RunState
    <3> QED BY <3>2 DEF Effective
  <2>2. /\ Answered(w) \/ Unanswered(w)
        /\ UNCHANGED <<applied, outstanding>>
        /\ ParentsFirst => parent \in {NoParent} \cup {p \in Runs : Latest[p].known}
    BY <1>4 DEF open_run
  <2> HIDE DEF b
  <2>3. w \in OpenWrites /\ w.op = "Open" /\ w.parent = parent
    BY <2>1 DEF OpenWrites, Typed
  <2> HIDE DEF w
  <2>4. ParentKnown(w)
    BY <2>2, <2>3, Zenon DEF ParentKnown
  <2>5. Answered(w)
    BY <1>2, <2>2
  <2>6. Commit(w) /\ SameSettles
    BY <2>5 DEF Answered, SameSettles, InFlightSettles
  <2> QED BY <2>2, <2>3, <2>4, <2>6, SameUnsettled DEF Opening
<1>5. ASSUME NEW g \in Gateways, NEW run \in Runs, NEW estimate \in Amounts,
             reserve(g, run, estimate) \/ reserve_unchecked(g, run, estimate)
      PROVE  \E w, new : Holding(w, new)
  <2> DEFINE w == ReserveWrite(g, run, estimate)
             new == [id |-> next_id[g] + 1, gateway |-> g, run |-> run, amount |-> estimate]
  <2>1. /\ Answered(w) \/ Unanswered(w)
        /\ UNCHANGED applied /\ grant(g, run, estimate)
    BY <1>5 DEF reserve, reserve_unchecked
  <2>2. Answered(w)
    BY <1>2, <2>1
  <2>3. Commit(w) /\ SameSettles
    BY <2>2 DEF Answered, SameSettles, InFlightSettles
  <2>4. Granting(g, run, estimate)
    BY <2>1, <2>3 DEF Granting
  <2>5. w \in ReserveWrites /\ w.run = run /\ w.amount = estimate
    BY ReserveSent DEF ReserveWrite
  <2>6. enforce => Accepted(Latest, run, estimate)
    BY <1>5, Zenon DEF reserve, reserve_unchecked, Unanswered
  <2>7. /\ Unsettled' = Unsettled \cup {new}
        /\ \A u \in Unsettled : u.gateway = g => u.id # new.id
        /\ new.gateway = g /\ new.run = run /\ new.amount = estimate
    BY <2>4, GrantedIs
  <2> HIDE DEF w, new
  <2>8. \A u \in Unsettled : <<u.gateway, u.id>> # <<new.gateway, new.id>>
    BY <2>7
  <2>9. enforce => Accepted(Latest, w.run, w.amount)
    BY <2>5, <2>6, Zenon
  <2>10. new.run = w.run /\ new.amount = w.amount
    BY <2>5, <2>7
  <2> QED BY <2>1, <2>3, <2>5, <2>7, <2>8, <2>9, <2>10 DEF Holding
<1>6. ASSUME NEW g \in Gateways, NEW actual \in Costs, NEW h \in outstanding[g], settle(g, h, actual)
      PROVE  \E w : Sealing(h, w)
  <2>1. Latest' = Latest /\ UNCHANGED highest
    BY <1>6 DEF settle, Latest
  <2> QED BY <1>6, <2>1, SettledIs DEF Sealing
<1>7. CASE UNCHANGED cvars
  <2>1. UNCHANGED <<committed, highest, in_flight, outstanding>>
    BY <1>7 DEF cvars
  <2>2. SameSettles /\ Latest' = Latest
    BY <2>1 DEF SameSettles, InFlightSettles, Latest
  <2> QED BY <2>1, <2>2, SameUnsettled DEF Still
<1> QED BY <1>1, <1>3, <1>4, <1>5, <1>6, <1>7, Zenon DEF ClusterNext

-----------------------------------------------------------------------------
(* What the reservations hold on a run, after each of those.               *)
LEMMA InOn ==
  ASSUME NEW r, NEW u
  PROVE  /\ u \in On(r) <=> u \in Unsettled /\ r \in chain(Latest, u.run)
         /\ u \in On(r)' <=> u \in Unsettled' /\ r \in chain(Latest', u.run)
<1>1. u \in On(r) <=> u \in Unsettled /\ r \in chain(Latest, u.run)
  BY Zenon DEF On
<1>2. u \in On(r)' <=> u \in Unsettled' /\ r \in chain(Latest', u.run)
  BY Zenon DEF On
<1> QED BY <1>1, <1>2

LEMMA DueTyped ==
  ASSUME Finite, NEW r
  PROVE  Due(r) \in Nat /\ IsFiniteSet(Toks(On(r)))
<1>1. On(r) \in SUBSET Unsettled
  BY DEF On
<1> QED BY <1>1, ToksWithin, DueIs DEF Finite

LEMMA DueStill ==
  ASSUME Still, NEW r
  PROVE  Due(r)' = Due(r)
<1>1. ASSUME NEW u PROVE u \in On(r)' <=> u \in On(r)
  BY InOn DEF Still
<1>2. On(r)' = On(r)
  BY <1>1
<1> QED BY <1>2, DueIs

LEMMA DueSealed ==
  ASSUME NEW h, NEW w, Sealing(h, w), NEW r
  PROVE  Due(r)' = Due(r)
<1>1. CASE r \in chain(Latest, h.run)
  <2>1. ASSUME NEW u PROVE u \in On(r)' <=> u \in (On(r) \ {h}) \cup {w}
    BY <1>1, InOn DEF Sealing
  <2>2. On(r)' = (On(r) \ {h}) \cup {w}
    BY <2>1
  <2>3. h \in On(r) /\ w.gateway = h.gateway /\ w.id = h.id /\ w.amount = h.amount
    BY <1>1, InOn DEF Sealing
  <2> QED BY <2>2, <2>3, ToksSwap, DueIs
<1>2. CASE r \notin chain(Latest, h.run)
  <2>1. ASSUME NEW u PROVE u \in On(r)' <=> u \in On(r)
    BY <1>2, InOn DEF Sealing
  <2>2. On(r)' = On(r)
    BY <2>1
  <2> QED BY <2>2, DueIs
<1> QED BY <1>1, <1>2

LEMMA DueHeld ==
  ASSUME Typed, Agreeing, Finite, NEW w, NEW new, Holding(w, new), NEW r
  PROVE  /\ r \in chain(Latest, w.run) => Due(r)' = Due(r) + w.amount
         /\ r \notin chain(Latest, w.run) => Due(r)' = Due(r)
<1>0. /\ w \in ReserveWrites /\ Commit(w) /\ UNCHANGED applied
      /\ new.run = w.run /\ new.amount = w.amount
      /\ \A u \in Unsettled : <<u.gateway, u.id>> # <<new.gateway, new.id>>
      /\ Unsettled' = Unsettled \cup {new}
  BY Zenon DEF Holding
<1>1. w.amount \in Nat /\ SameTree(Latest, Latest')
  BY <1>0, AfterReserve
<1>2. \A run : chain(Latest', run) = chain(Latest, run)
  <2>1. Latest \in States /\ Latest' \in States
    BY <1>0, WriteIs
  <2> QED BY <1>1, <2>1, SameTreeSameChain
<1>3. CASE r \in chain(Latest, w.run)
  <2>1. ASSUME NEW u PROVE u \in On(r)' <=> u \in On(r) \cup {new}
    BY <1>0, <1>2, <1>3, InOn
  <2>2. On(r)' = On(r) \cup {new}
    BY <2>1
  <2>3. \A u \in On(r) : <<u.gateway, u.id>> # <<new.gateway, new.id>>
    BY <1>0, InOn, Zenon
  <2>4. new.amount \in Nat
    BY <1>0, <1>1
  <2>5. Cardinality(Toks(On(r) \cup {new})) = Cardinality(Toks(On(r))) + new.amount
    BY <2>3, <2>4, DueTyped, ToksAdd
  <2> QED BY <1>0, <1>3, <2>2, <2>5, DueIs
<1>4. CASE r \notin chain(Latest, w.run)
  <2>1. ASSUME NEW u PROVE u \in On(r)' <=> u \in On(r)
    BY <1>0, <1>2, <1>4, InOn
  <2>2. On(r)' = On(r)
    BY <2>1
  <2> QED BY <1>4, <2>2, DueIs
<1> QED BY <1>3, <1>4

LEMMA DueReleased ==
  ASSUME Typed, Agreeing, Numbered, Finite, NEW w, Releasing(w), NEW r
  PROVE  /\ Due(r)' \in Nat
         /\ r \in chain(Latest, w.run) => Due(r) = Due(r)' + w.amount
         /\ r \notin chain(Latest, w.run) => Due(r)' = Due(r)
<1>0. /\ w \in SettleWrites /\ Commit(w) /\ UNCHANGED applied
      /\ w \in Unsettled /\ Unsettled' = Unsettled \ {w}
  BY Zenon DEF Releasing
<1>1. w.amount \in Nat /\ SameTree(Latest, Latest')
  BY <1>0, AfterSettle
<1>2. \A run : chain(Latest', run) = chain(Latest, run)
  <2>1. Latest \in States /\ Latest' \in States
    BY <1>0, WriteIs
  <2> QED BY <1>1, <2>1, SameTreeSameChain
<1>3. IsFiniteSet(Toks(On(r)')) /\ Due(r)' \in Nat
  <2>1. On(r)' \in SUBSET Unsettled
    BY <1>0, InOn
  <2>2. IsFiniteSet(Toks(On(r)')) /\ Cardinality(Toks(On(r)')) \in Nat
    BY <2>1, ToksWithin DEF Finite
  <2> QED BY <2>2, DueIs
<1>4. CASE r \in chain(Latest, w.run)
  <2>1. ASSUME NEW u PROVE u \in On(r) <=> u \in On(r)' \cup {w}
    BY <1>0, <1>2, <1>4, InOn
  <2>2. On(r) = On(r)' \cup {w}
    BY <2>1
  <2>3. \A u \in On(r)' : <<u.gateway, u.id>> # <<w.gateway, w.id>>
    <3>1. \A u \in On(r)' : u \in Unsettled /\ u # w
      BY <1>0, InOn
    <3> QED BY <1>0, <3>1 DEF Numbered
  <2>4. Cardinality(Toks(On(r)' \cup {w})) = Cardinality(Toks(On(r)')) + w.amount
    BY <1>1, <1>3, <2>3, ToksAdd
  <2> QED BY <1>3, <1>4, <2>2, <2>4, DueIs
<1>5. CASE r \notin chain(Latest, w.run)
  <2>1. ASSUME NEW u PROVE u \in On(r)' <=> u \in On(r)
    BY <1>0, <1>2, <1>5, InOn
  <2>2. On(r)' = On(r)
    BY <2>1
  <2> QED BY <1>3, <1>5, <2>2, DueIs
<1> QED BY <1>3, <1>4, <1>5

(* Opening a run, or opening it again, never takes a reservation off one.  *)
LEMMA DueOpened ==
  ASSUME Typed, Agreeing, Finite, NEW w, Opening(w), NEW r
  PROVE  Due(r)' \in Nat /\ Due(r) =< Due(r)'
<1>0. /\ Latest \in States /\ Latest' \in States /\ Behind(Latest, Latest')
      /\ Unsettled' = Unsettled
  BY WriteIs DEF Opening
<1>1. On(r) \in SUBSET (On(r)') /\ On(r)' \in SUBSET Unsettled
  <2>1. ASSUME NEW u \in On(r) PROVE u \in On(r)'
    BY <1>0, InOn, GrowingChain
  <2>2. ASSUME NEW u \in On(r)' PROVE u \in Unsettled
    BY <1>0, InOn
  <2> QED BY <2>1, <2>2
<1>2. IsFiniteSet(Toks(On(r)')) /\ Cardinality(Toks(On(r)')) \in Nat
  BY <1>1, ToksWithin DEF Finite
<1>3. Cardinality(Toks(On(r))) =< Cardinality(Toks(On(r)'))
  BY <1>1, <1>2, ToksWithin
<1> QED BY <1>2, <1>3, DueIs

-----------------------------------------------------------------------------
(* Nothing leaks: each kind of step keeps what is reserved within what is  *)
(* due.                                                                    *)
LEMMA ReservedTyped ==
  ASSUME Typed, NEW r \in Runs
  PROVE  /\ Latest[r].reserved \in Nat /\ Latest[r].spent \in Nat /\ Latest[r].budget \in Nat
         /\ Latest[r].known \in BOOLEAN
<1>1. Latest[r] \in RunState
  BY LatestTyped DEF States
<1> QED BY <1>1 DEF RunState

LEMMA NoLeakStep ==
  ASSUME BaseInv, ClusterNoLeak, [ClusterNext]_cvars
  PROVE  ClusterNoLeak'
<1>0. Typed /\ Agreeing /\ Booked /\ Numbered /\ Heard /\ Finite
  BY DEF BaseInv
<1> SUFFICES ASSUME reachable', NEW r \in Runs PROVE Latest'[r].reserved =< Due(r)'
  BY Zenon DEF ClusterNoLeak
<1>1. reachable
  <2>1. UNCHANGED mode
    BY <1>0, LedgerStep
  <2> QED BY <2>1 DEF mode
<1>2. /\ Latest[r].reserved =< Due(r) /\ Latest[r].reserved \in Nat
      /\ Due(r) \in Nat
  BY <1>0, <1>1, ReservedTyped, DueTyped DEF ClusterNoLeak
<1>3. CASE Still
  <2>1. Due(r)' = Due(r) /\ Latest' = Latest
    BY <1>3, DueStill DEF Still
  <2> QED BY <1>2, <2>1
<1>4. ASSUME NEW w, Opening(w) PROVE Latest'[r].reserved =< Due(r)'
  <2>1. Due(r)' \in Nat /\ Due(r) =< Due(r)'
    BY <1>0, <1>4, DueOpened
  <2>2. Latest'[r].reserved = Latest[r].reserved \/ Latest'[r].reserved = 0
    <3>1. w \in OpenWrites /\ Commit(w) /\ UNCHANGED applied
      BY <1>4 DEF Opening
    <3> QED BY <1>0, <3>1, AfterOpen
  <2> QED BY <1>2, <2>1, <2>2
<1>5. ASSUME NEW w, NEW new, Holding(w, new) PROVE Latest'[r].reserved =< Due(r)'
  <2>1. w \in ReserveWrites /\ Commit(w) /\ UNCHANGED applied
    BY <1>5 DEF Holding
  <2>2. /\ w.amount \in Nat
        /\ Latest'[r].reserved = IF Accepted(Latest, w.run, w.amount) /\ r \in chain(Latest, w.run)
                                 THEN Latest[r].reserved + w.amount ELSE Latest[r].reserved
    BY <1>0, <2>1, AfterReserve
  <2>3. /\ r \in chain(Latest, w.run) => Due(r)' = Due(r) + w.amount
        /\ r \notin chain(Latest, w.run) => Due(r)' = Due(r)
    BY <1>0, <1>5, DueHeld
  <2> QED BY <1>2, <2>2, <2>3
<1>6. ASSUME NEW h, NEW w, Sealing(h, w) PROVE Latest'[r].reserved =< Due(r)'
  <2>1. Due(r)' = Due(r) /\ Latest' = Latest
    BY <1>6, DueSealed DEF Sealing
  <2> QED BY <1>2, <2>1
<1>7. ASSUME NEW w, Releasing(w) PROVE Latest'[r].reserved =< Due(r)'
  <2>1. w \in SettleWrites /\ Commit(w) /\ UNCHANGED applied
    BY <1>7 DEF Releasing
  <2>2. /\ w.amount \in Nat
        /\ r \notin chain(Latest, w.run) => Latest'[r] = Latest[r]
        /\ r \in chain(Latest, w.run) =>
             Latest'[r].reserved = SaturatingSub(Latest[r].reserved, w.amount)
    BY <1>0, <2>1, AfterSettle
  <2>3. /\ Due(r)' \in Nat
        /\ r \in chain(Latest, w.run) => Due(r) = Due(r)' + w.amount
        /\ r \notin chain(Latest, w.run) => Due(r)' = Due(r)
    BY <1>0, <1>7, DueReleased
  <2> QED BY <1>2, <2>2, <2>3 DEF SaturatingSub
<1> QED BY <1>0, <1>1, <1>3, <1>4, <1>5, <1>6, <1>7, BalanceKinds

(* Exact: where a parent is open before its children, a chain never grows, *)
(* so a settlement releases where its call was held.                       *)
LEMMA OpenExact ==
  ASSUME BaseInv, Exact, reachable, enforce, ParentsFirst, NEW w, Opening(w), NEW r \in Runs
  PROVE  Latest'[r].reserved = Due(r)'
<1>0. Typed /\ Agreeing /\ Booked /\ Rooted /\ Finite
  BY DEF BaseInv
<1>1. /\ w \in OpenWrites /\ Commit(w) /\ UNCHANGED applied /\ Unsettled' = Unsettled
      /\ Latest \in States /\ Latest' \in States /\ Behind(Latest, Latest')
  BY <1>0, WriteIs DEF Opening
<1>2. \A u \in Unsettled : Latest[u.run].known /\ u.run \in Runs
  BY <1>0, UnsettledIs DEF Exact
<1>3. \A u \in Unsettled : chain(Latest', u.run) = chain(Latest, u.run)
  <2>1. \A x \in Runs : Latest[x].known => Latest[x].parent = NoParent \/ Latest[Latest[x].parent].known
    BY <1>0, Zenon DEF Rooted
  <2> QED BY <1>1, <1>2, <2>1, FrozenChain
<1>4. On(r)' = On(r)
  <2>1. ASSUME NEW u PROVE u \in On(r)' <=> u \in On(r)
    BY <1>1, <1>3, InOn
  <2> QED BY <2>1
<1>5. Due(r)' = Due(r)
  BY <1>4, DueIs
<1>6. Latest[r].reserved = Due(r)
  BY DEF Exact
<1>7. Latest'[r].reserved = Latest[r].reserved
  <2>1. /\ r # w.run => Latest'[r] = Latest[r]
        /\ Latest[w.run].known => Latest'[w.run].reserved = Latest[w.run].reserved
        /\ ~Latest[w.run].known => Latest'[w.run].reserved = 0
        /\ w.run \in Runs
    BY <1>0, <1>1, AfterOpen
  <2>2. ~Latest[w.run].known => Latest[w.run].reserved = 0
    BY <1>0, <2>1 DEF Booked, Absent
  <2> QED BY <2>1, <2>2
<1> QED BY <1>5, <1>6, <1>7

LEMMA ExactStep ==
  ASSUME BaseInv, Exact, [ClusterNext]_cvars
  PROVE  Exact'
<1>0. Typed /\ Agreeing /\ Booked /\ Numbered /\ Heard /\ Rooted /\ Finite
  BY DEF BaseInv
<1> SUFFICES ASSUME reachable', enforce', ParentsFirst
             PROVE  /\ \A u \in Unsettled' : Latest'[u.run].known
                    /\ \A r \in Runs : Latest'[r].reserved = Due(r)'
  BY Zenon DEF Exact
<1>1. reachable /\ enforce
  <2>1. UNCHANGED mode
    BY <1>0, LedgerStep
  <2> QED BY <2>1 DEF mode
<1>2. /\ \A u \in Unsettled : Latest[u.run].known /\ u.run \in Runs
      /\ \A r \in Runs : Latest[r].reserved = Due(r) /\ Due(r) \in Nat
  BY <1>0, <1>1, UnsettledIs, DueTyped DEF Exact
<1>3. \A u \in Unsettled : Latest'[u.run].known
  <2>1. Behind(Latest, Latest')
    BY <1>0, LedgerStep
  <2> QED BY <1>2, <2>1 DEF Behind
<1>4. CASE Still
  <2>1. Unsettled' = Unsettled /\ Latest' = Latest
    BY <1>4 DEF Still
  <2>2. \A r \in Runs : Due(r)' = Due(r)
    BY <1>4, DueStill
  <2> QED BY <1>2, <2>1, <2>2
<1>5. ASSUME NEW w, Opening(w)
      PROVE  /\ \A u \in Unsettled' : Latest'[u.run].known
             /\ \A r \in Runs : Latest'[r].reserved = Due(r)'
  <2>1. Unsettled' = Unsettled
    BY <1>5 DEF Opening
  <2>2. \A r \in Runs : Latest'[r].reserved = Due(r)'
    BY <1>1, <1>5, OpenExact
  <2> QED BY <1>3, <2>1, <2>2
<1>6. ASSUME NEW w, NEW new, Holding(w, new)
      PROVE  /\ \A u \in Unsettled' : Latest'[u.run].known
             /\ \A r \in Runs : Latest'[r].reserved = Due(r)'
  <2>1. /\ w \in ReserveWrites /\ Commit(w) /\ UNCHANGED applied
        /\ Accepted(Latest, w.run, w.amount)
        /\ new.run = w.run /\ Unsettled' = Unsettled \cup {new}
    BY <1>1, <1>6 DEF Holding
  <2>2. /\ w.amount \in Nat /\ w.run \in Runs /\ SameTree(Latest, Latest')
        /\ \A r \in Runs :
             Latest'[r].reserved = IF r \in chain(Latest, w.run)
                                   THEN Latest[r].reserved + w.amount ELSE Latest[r].reserved
    BY <1>0, <2>1, AfterReserve
  <2>3. \A r \in Runs : /\ r \in chain(Latest, w.run) => Due(r)' = Due(r) + w.amount
                        /\ r \notin chain(Latest, w.run) => Due(r)' = Due(r)
    BY <1>0, <1>6, DueHeld
  <2>4. Latest'[new.run].known
    BY <2>1, <2>2 DEF Accepted, SameTree
  <2> QED BY <1>2, <1>3, <2>1, <2>2, <2>3, <2>4
<1>7. ASSUME NEW h, NEW w, Sealing(h, w)
      PROVE  /\ \A u \in Unsettled' : Latest'[u.run].known
             /\ \A r \in Runs : Latest'[r].reserved = Due(r)'
  <2>1. /\ h \in Unsettled /\ Unsettled' = (Unsettled \ {h}) \cup {w} /\ w.run = h.run
        /\ Latest' = Latest
    BY <1>7 DEF Sealing
  <2>2. \A r \in Runs : Due(r)' = Due(r)
    BY <1>7, DueSealed
  <2> QED BY <1>2, <2>1, <2>2
<1>8. ASSUME NEW w, Releasing(w)
      PROVE  /\ \A u \in Unsettled' : Latest'[u.run].known
             /\ \A r \in Runs : Latest'[r].reserved = Due(r)'
  <2>1. /\ w \in SettleWrites /\ Commit(w) /\ UNCHANGED applied
        /\ Unsettled' = Unsettled \ {w}
    BY <1>8 DEF Releasing
  <2>2. /\ w.amount \in Nat
        /\ \A r \in Runs : r \notin chain(Latest, w.run) => Latest'[r] = Latest[r]
        /\ \A r \in Runs : r \in chain(Latest, w.run) =>
             Latest'[r].reserved = SaturatingSub(Latest[r].reserved, w.amount)
    BY <1>0, <2>1, AfterSettle
  <2>3. ASSUME NEW r \in Runs PROVE Latest'[r].reserved = Due(r)'
    <3>1. /\ Due(r)' \in Nat
          /\ r \in chain(Latest, w.run) => Due(r) = Due(r)' + w.amount
          /\ r \notin chain(Latest, w.run) => Due(r)' = Due(r)
      BY <1>0, <1>8, DueReleased
    <3> QED BY <1>2, <2>2, <3>1 DEF SaturatingSub
  <2> QED BY <1>3, <2>1, <2>3
<1> QED BY <1>0, <1>1, <1>4, <1>5, <1>6, <1>7, <1>8, BalanceKinds

(* Within: a reservation is admitted against the budget as it is, and a    *)
(* settlement spends no more than what it releases.                        *)
LEMMA WithinStep ==
  ASSUME BaseInv, Exact, Within, [ClusterNext]_cvars
  PROVE  Within'
<1>0. Typed /\ Agreeing /\ Booked /\ Numbered /\ Heard /\ Finite
  BY DEF BaseInv
<1> SUFFICES ASSUME ParentsFirst, reachable', enforce', \A a \in Amounts, c \in Costs : c =< a,
                    NEW r \in Runs
             PROVE  committed_of(Latest'[r]) =< highest'[r]
  BY Zenon DEF Within, NeverOversubscribed
<1>1. reachable /\ enforce
  <2>1. UNCHANGED mode
    BY <1>0, LedgerStep
  <2> QED BY <2>1 DEF mode
<1>2. /\ Latest[r].reserved \in Nat /\ Latest[r].spent \in Nat /\ Latest[r].budget \in Nat
      /\ highest[r] \in Nat
  BY <1>0, ReservedTyped DEF Typed
<1>3. Latest[r].spent + Latest[r].reserved =< highest[r] /\ Latest[r].reserved = Due(r)
  BY <1>1, Zenon DEF Within, NeverOversubscribed, Exact, committed_of
<1> SUFFICES Latest'[r].spent + Latest'[r].reserved =< highest'[r]
  BY DEF committed_of
<1>4. CASE Still
  BY <1>3, <1>4 DEF Still
<1>5. ASSUME NEW w, Opening(w) PROVE Latest'[r].spent + Latest'[r].reserved =< highest'[r]
  <2>1. w \in OpenWrites /\ w \in Writes /\ Commit(w) /\ UNCHANGED applied
    BY <1>5 DEF Opening, Writes
  <2>2. highest'[r] >= highest[r] /\ highest'[r] \in Nat
    BY <1>0, <2>1, WriteIs DEF Writes
  <2>3. \/ Latest'[r].spent = Latest[r].spent /\ Latest'[r].reserved = Latest[r].reserved
        \/ Latest'[r].spent = 0 /\ Latest'[r].reserved = 0
    BY <1>0, <2>1, AfterOpen
  <2> QED BY <1>2, <1>3, <2>2, <2>3
<1>6. ASSUME NEW w, NEW new, Holding(w, new)
      PROVE  Latest'[r].spent + Latest'[r].reserved =< highest'[r]
  <2>1. /\ w \in ReserveWrites /\ w \in Writes /\ Commit(w) /\ UNCHANGED applied
        /\ Accepted(Latest, w.run, w.amount)
    BY <1>1, <1>6 DEF Holding, Writes
  <2>2. /\ highest'[r] >= highest[r] /\ highest'[r] >= Latest'[r].budget /\ highest'[r] \in Nat
    BY <1>0, <2>1, WriteIs DEF Writes
  <2>3. /\ w.amount \in Nat
        /\ Latest'[r].budget = Latest[r].budget /\ Latest'[r].spent = Latest[r].spent
        /\ Latest'[r].reserved = IF r \in chain(Latest, w.run)
                                 THEN Latest[r].reserved + w.amount ELSE Latest[r].reserved
    BY <1>0, <2>1, AfterReserve
  <2>4. r \in chain(Latest, w.run) =>
          Latest[r].spent + Latest[r].reserved + w.amount =< Latest[r].budget
    BY <2>1 DEF Accepted, committed_of
  <2> QED BY <1>2, <1>3, <2>2, <2>3, <2>4
<1>7. ASSUME NEW h, NEW w, Sealing(h, w)
      PROVE  Latest'[r].spent + Latest'[r].reserved =< highest'[r]
  BY <1>3, <1>7 DEF Sealing
<1>8. ASSUME NEW w, Releasing(w) PROVE Latest'[r].spent + Latest'[r].reserved =< highest'[r]
  <2>1. w \in SettleWrites /\ w \in Writes /\ Commit(w) /\ UNCHANGED applied
    BY <1>8 DEF Releasing, Writes
  <2>2. highest'[r] >= highest[r] /\ highest'[r] \in Nat
    BY <1>0, <2>1, WriteIs DEF Writes
  <2>3. /\ w.amount \in Nat /\ w.amount \in Amounts /\ w.actual \in Nat /\ w.actual \in Costs
        /\ r \notin chain(Latest, w.run) => Latest'[r] = Latest[r]
        /\ r \in chain(Latest, w.run) =>
             /\ Latest'[r].reserved = SaturatingSub(Latest[r].reserved, w.amount)
             /\ Latest'[r].spent = Latest[r].spent + w.actual
    BY <1>0, <2>1, AfterSettle
  <2>4. Due(r)' \in Nat /\ (r \in chain(Latest, w.run) => Due(r) = Due(r)' + w.amount)
    BY <1>0, <1>8, DueReleased
  <2>5. w.actual =< w.amount
    BY <2>3
  <2> QED BY <1>2, <1>3, <2>2, <2>3, <2>4, <2>5 DEF SaturatingSub
<1> QED BY <1>0, <1>1, <1>4, <1>5, <1>6, <1>7, <1>8, BalanceKinds

-----------------------------------------------------------------------------
LEMMA ClusterInitInv == ClusterInit => ClusterInv
<1> SUFFICES ASSUME ClusterInit PROVE ClusterInv
  OBVIOUS
<1> DEFINE none == [r \in Runs |-> Absent]
<1>0. Absent \in RunState /\ none \in States
  BY DEF Absent, RunState, States
<1>1. /\ committed = <<none>> /\ applied = [g \in Gateways |-> 1] /\ highest = [r \in Runs |-> 0]
      /\ in_flight = {} /\ next_id = [g \in Gateways |-> 0]
      /\ outstanding = [g \in Gateways |-> {}] /\ opens = 0
  BY DEF ClusterInit
<1> HIDE DEF none
<1>2. /\ committed \in Seq(States) /\ committed # <<>> /\ Len(committed) = 1
      /\ Latest = none /\ DOMAIN committed = {1} /\ committed[1] = none
  BY <1>0, <1>1 DEF Latest
<1>3. Typed
  BY <1>1, <1>2 DEF Typed
<1>4. \A r \in Runs : Latest[r] = Absent
  BY <1>2 DEF none
<1>5. \A r \in Runs : /\ ~Latest[r].known /\ Latest[r].budget = 0 /\ Latest[r].reserved = 0
                      /\ Latest[r].spent = 0
  BY <1>4 DEF Absent
<1>6. Agreeing
  BY <1>2, <1>5 DEF Agreeing, Behind
<1>7. Booked
  BY <1>1, <1>4, <1>5 DEF Booked
<1>8. Unsettled = {}
  <2>1. ASSUME NEW u PROVE u \notin Unsettled
    BY <1>1, InUnsettled DEF InFlightSettles
  <2> QED BY <2>1
<1>9. Toks({}) = {}
  BY DEF Toks
<1>10. Numbered /\ Heard /\ Rooted /\ Finite
  BY <1>1, <1>5, <1>8, <1>9, FS_EmptySet DEF Numbered, Heard, Rooted, Finite
<1>11. \A r \in Runs : Due(r) = 0
  <2>1. ASSUME NEW r PROVE On(r) = {}
    BY <1>8 DEF On
  <2> QED BY <1>9, <2>1, DueIs, FS_EmptySet
<1>12. ClusterNoLeak /\ Exact
  BY <1>5, <1>8, <1>11 DEF ClusterNoLeak, Exact
<1>13. Within
  BY <1>1, <1>5 DEF Within, NeverOversubscribed, committed_of
<1> QED BY <1>3, <1>6, <1>7, <1>10, <1>12, <1>13 DEF ClusterInv, BaseInv

LEMMA ClusterInvStep == ClusterInv /\ [ClusterNext]_cvars => ClusterInv'
<1> SUFFICES ASSUME ClusterInv, [ClusterNext]_cvars PROVE ClusterInv'
  OBVIOUS
<1>1. BaseInv /\ ClusterNoLeak /\ Exact /\ Within
  BY DEF ClusterInv
<1>2. BaseInv'
  <2>1. Typed /\ Agreeing /\ Booked /\ Numbered /\ Heard /\ Rooted /\ Finite
    BY <1>1 DEF BaseInv
  <2>2. Typed' /\ Agreeing'
    BY <2>1, TypedStep
  <2>3. Booked'
    BY <2>1, BookedStep
  <2>4. Numbered' /\ Finite'
    BY <2>1, NumberedStep
  <2>5. Heard'
    BY <2>1, HeardStep
  <2>6. Rooted'
    BY <2>1, RootedStep
  <2> QED BY <2>2, <2>3, <2>4, <2>5, <2>6 DEF BaseInv
<1>3. ClusterNoLeak' /\ Exact' /\ Within'
  BY <1>1, NoLeakStep, ExactStep, WithinStep
<1> QED BY <1>2, <1>3 DEF ClusterInv

-----------------------------------------------------------------------------
(* The inductive invariant, for any gateways, tree, amounts and bounds.    *)
THEOREM ClusterInvHolds == ClusterSpec => []ClusterInv
BY ClusterInitInv, ClusterInvStep, PTL DEF ClusterSpec

(* Every field of the replicated ledger and of RaftLedger keeps its type,  *)
(* and no gateway's copy is ahead of the log.                              *)
THEOREM ClusterTypeCorrect == ClusterSpec => []ClusterTypeOK
<1>1. ClusterInv => ClusterTypeOK
  <2> SUFFICES ASSUME Typed PROVE ClusterTypeOK
    BY DEF ClusterInv, BaseInv
  <2>1. \A i \in DOMAIN committed : committed[i] \in [Runs -> RunState]
    BY ElementOfSeq, LenProperties DEF Typed, States
  <2>2. \A w \in in_flight : w.op \in {"Open", "Reserve", "Settle"}
    BY DEF Typed, OpenWrites, ReserveWrites, SettleWrites
  <2>3. \A g \in Gateways : outstanding[g] \subseteq Handle
    <3>1. Handles \subseteq Handle
      BY ClusterInputsAssumption DEF Handles, Handle
    <3> QED BY <3>1, UnsettledIs
  <2> QED BY <2>1, <2>2, <2>3 DEF Typed, ClusterTypeOK
<1> QED BY <1>1, ClusterInvHolds, PTL

(* Whatever commits late, is lost, or lags: a gateway's copy is an earlier *)
(* state of the ledger, and the ledger never takes back a run, a parent or *)
(* a cost.  No order of opens is assumed.                                  *)
THEOREM CopiesAreNeverWrong == ClusterSpec => []StaleNeverWrong
<1>1. ClusterInv => StaleNeverWrong
  <2> SUFFICES ASSUME Typed, Agreeing PROVE StaleNeverWrong
    BY DEF ClusterInv, BaseInv
  <2>1. \A g \in Gateways : Behind(Local(g), Latest)
    <3>1. \A g \in Gateways : applied[g] \in DOMAIN committed
      BY LenProperties DEF Typed
    <3> QED BY <3>1 DEF Agreeing, Local
  <2> QED BY <2>1, Zenon DEF Behind, StaleNeverWrong
<1> QED BY <1>1, ClusterInvHolds, PTL

(* Reserve and Settle (LedgerState::apply) never leave more held on a run  *)
(* than the calls under way below it, whatever the tree grows into in the  *)
(* meantime: where consensus answers, nothing leaks, in every mode.        *)
THEOREM NothingStaysHeld == ClusterSpec => []ClusterNoLeak
<1>1. ClusterInv => ClusterNoLeak
  BY DEF ClusterInv
<1> QED BY <1>1, ClusterInvHolds, PTL

(* Where a run is declared as a parent only once it is open, Settle's walk *)
(* of the live tree releases exactly what Reserve's walk held, on the same *)
(* runs: the replicated counters are exact.                                *)
THEOREM ClusterIsExact ==
  ASSUME ParentsFirst
  PROVE  ClusterSpec => []ClusterExact
<1>1. ClusterInv => ClusterReservedExact
  BY DEF ClusterInv, Exact, ClusterReservedExact
<1>2. ClusterSpec => []ClusterReservedExact
  BY <1>1, ClusterInvHolds, PTL
<1>3. ClusterNoLeak /\ ClusterReservedExact /\ StaleNeverWrong => ClusterExact
  BY DEF ClusterExact
<1> QED BY <1>2, <1>3, NothingStaysHeld, CopiesAreNeverWrong, PTL

(* Where, besides, consensus answers, the mode is enforce and no call      *)
(* costs more than its estimate, no run of the tree is ever committed past *)
(* the highest budget it has held, however many gateways share it.         *)
THEOREM BudgetsHoldAcrossGateways ==
  ASSUME ParentsFirst
  PROVE  ClusterSpec => []NeverOversubscribed
<1>1. ClusterInv => NeverOversubscribed
  BY DEF ClusterInv, Within
<1> QED BY <1>1, ClusterInvHolds, PTL
-----------------------------------------------------------------------------
(* CloudDoor.                                                              *)

Roles == {"admin", "viewer"}
Request == [device : DeviceIds, ts : Int, nonce : Nat]
Spent == [nonce : Nat, ts : Int]
Registered == [device : DeviceIds, role : Roles]

(* A spent nonce is that of a request the device signed. *)
SpentBy(d, e, made) == \E q \in made : q.device = d /\ q.nonce = e.nonce /\ q.ts = e.ts

(* What a snapshot may hold: devices some code made, as the audit names    *)
(* them, and nonces that were spent.                                       *)
SnapshotOK(k, made, by) ==
  /\ k = [devices |-> k.devices, nonces |-> k.nonces, paired |-> k.paired]
  /\ k.devices = [d \in DOMAIN k.devices |-> k.devices[d]]
  /\ k.paired \in Seq(Registered)
  /\ DOMAIN k.devices = {e.device : e \in Range(k.paired)}
  /\ \A e \in Range(k.paired) : k.devices[e.device] = e.role
  /\ \A d \in DOMAIN k.devices : \E code \in Codes : d \in by[code]
  /\ k.nonces = [d \in DOMAIN k.nonces |-> k.nonces[d]]
  /\ \A d \in DOMAIN k.nonces :
       /\ k.nonces[d] \in Seq(Spent)
       /\ \A i \in DOMAIN k.nonces[d] : SpentBy(d, k.nonces[d][i], made)

PhoneTypes ==
  /\ second \in Nat /\ started_unix \in Nat /\ started_unix =< second
  /\ redeemed \in [Codes -> SUBSET DeviceIds]
  /\ pairings = [code \in DOMAIN pairings |-> pairings[code]]
  /\ \A code \in DOMAIN pairings :
       code \in Codes /\ pairings[code].role \in Roles /\ redeemed[code] = {}
  /\ \A code \in Codes : Cardinality(redeemed[code]) =< 1
  /\ SnapshotOK(kept, signed, redeemed) /\ SnapshotOK(stored, signed, redeemed)

(* A request has a nonce of its own, and no device signed more than its    *)
(* ring holds in the time a full ring can span.                            *)
SignedOK ==
  /\ signed \subseteq Request /\ IsFiniteSet(signed)
  /\ \A q \in signed : q.nonce < Cardinality(signed)
  /\ \A p, q \in signed : p.nonce = q.nonce => p = q
  /\ RingSuffices(signed)

(* A ring has a nonce once. *)
NoTwice(ring) == \A i, j \in DOMAIN ring : i # j => ring[i].nonce # ring[j].nonce

(* Behind an entry are those accepted after it, signed at most two windows *)
(* earlier; none is further ahead than a window.                           *)
InTurn(ring, now) ==
  /\ NoTwice(ring)
  /\ \A i, j \in DOMAIN ring : i < j => ring[j].ts >= ring[i].ts - 2 * SIGNATURE_WINDOW_SECS
  /\ \A i \in DOMAIN ring : ring[i].ts =< now + SIGNATURE_WINDOW_SECS

(* What was acted on, was not forgotten and could be delivered again is in *)
(* the ring.                                                               *)
Live(q) == q.ts > started_unix /\ second - q.ts =< SIGNATURE_WINDOW_SECS

ActsOK ==
  /\ acts = [q \in DOMAIN acts |-> acts[q]]
  /\ forgot = [q \in DOMAIN forgot |-> forgot[q]]
  /\ \A q \in DOMAIN forgot : forgot[q] \in Nat
  /\ \A q \in DOMAIN acts :
       /\ q \in signed /\ acts[q] \in Nat /\ acts[q] =< 1 + Forgotten(q)
       /\ Live(q) /\ ~InRing(q) => acts[q] =< Forgotten(q)
  /\ \A q \in DOMAIN forgot : q \in DOMAIN acts

RingsOK ==
  /\ \A d \in DOMAIN kept.nonces : InTurn(kept.nonces[d], second)
  /\ \A d \in DOMAIN stored.nonces : NoTwice(stored.nonces[d])

PhoneInv == PhoneTypes /\ SignedOK /\ ActsOK /\ RingsOK

-----------------------------------------------------------------------------
LEMMA DoorNumbers ==
  /\ SIGNATURE_WINDOW_SECS \in Nat /\ PairingTtl \in Nat /\ NONCE_CAP \in Nat
BY DoorAssumption

LEMMA OneMore ==
  ASSUME NEW S, NEW x, IsFiniteSet(S)
  PROVE  IsFiniteSet(S \cup {x}) /\ Cardinality(S \cup {x}) =< Cardinality(S) + 1
<1>1. Cardinality(S) \in Nat
  BY FS_CardinalityType
<1>2. /\ IsFiniteSet(S \cup {x})
      /\ Cardinality(S \cup {x}) = IF x \in S THEN Cardinality(S) ELSE Cardinality(S) + 1
  BY FS_AddElement
<1> QED BY <1>1, <1>2

(* Every number up to how many there are is somebody's place.              *)
LEMMA PlacesTaken ==
  ASSUME NEW S \in SUBSET Nat, IsFiniteSet(S), NEW k \in 1 .. Cardinality(S)
  PROVE  \E i \in S : Cardinality({j \in S : j < i}) = k - 1
<1> DEFINE Below(i) == {j \in S : j < i}
           Free == {m \in 1 .. Cardinality(S) : \A i \in S : Cardinality(Below(i)) # m - 1}
<1>0. Cardinality(S) \in Nat
  BY FS_CardinalityType
<1>a. \A i \in S : i \in Nat
  OBVIOUS
<1>1. \A i \in Nat : IsFiniteSet(Below(i)) /\ Cardinality(Below(i)) \in Nat
  BY FS_Subset, FS_CardinalityType
<1>2. SUFFICES ASSUME Free # {} PROVE FALSE
  BY <1>2
<1>3. PICK m \in Free : \A n \in Free : m =< n
  <2>1. Free \in SUBSET Nat
    BY <1>0
  <2> QED BY <2>1, <1>2, LeastOf
<1>4. m \in 1 .. Cardinality(S) /\ \A i \in S : Cardinality(Below(i)) # m - 1
  BY <1>3
<1>5. m # 1
  <2> SUFFICES ASSUME m = 1 PROVE FALSE
    OBVIOUS
  <2>1. S # {}
    BY <1>0, <1>4, FS_EmptySet
  <2>2. PICK i \in S : \A j \in S : i =< j
    BY <2>1, LeastOf
  <2>3. \A j \in S : ~(j < i)
    BY <1>a, <2>2
  <2>4. Below(i) = {}
    BY <2>3
  <2> QED BY <2>4, <1>4, FS_EmptySet
<1>6. PICK i \in S : Cardinality(Below(i)) = m - 2
  <2>1. m - 1 \in 1 .. Cardinality(S) /\ ~(m =< m - 1)
    BY <1>0, <1>4, <1>5
  <2>2. m - 1 \notin Free
    BY <2>1, <1>3
  <2>3. PICK i \in S : Cardinality(Below(i)) = (m - 1) - 1
    BY <2>1, <2>2
  <2>4. (m - 1) - 1 = m - 2
    BY <1>0, <1>4
  <2> QED BY <2>3, <2>4
<1>7. /\ IsFiniteSet(Below(i) \cup {i}) /\ Cardinality(Below(i) \cup {i}) = m - 1
  <2>1. i \in Nat /\ i \notin Below(i)
    BY <1>a
  <2>2. IsFiniteSet(Below(i))
    BY <1>1, <2>1
  <2>3. /\ IsFiniteSet(Below(i) \cup {i})
        /\ Cardinality(Below(i) \cup {i}) = Cardinality(Below(i)) + 1
    BY <2>1, <2>2, FS_AddElement
  <2> QED BY <1>0, <1>4, <1>6, <2>3
<1> DEFINE Beyond == {j \in S : j > i}
<1>8. Beyond # {}
  <2> SUFFICES ASSUME Beyond = {} PROVE FALSE
    OBVIOUS
  <2>1. \A j \in S : j < i \/ j = i
    BY <1>a
  <2>2. S = Below(i) \cup {i}
    BY <2>1
  <2> QED BY <2>2, <1>0, <1>4, <1>7
<1>9. PICK n \in Beyond : \A j \in Beyond : n =< j
  <2>1. Beyond \in SUBSET Nat
    OBVIOUS
  <2> QED BY <2>1, <1>8, LeastOf
<1>10. Below(n) = Below(i) \cup {i}
  <2>1. n \in S /\ n > i /\ \A j \in S : j > i => n =< j
    BY <1>9
  <2>2. \A j \in S : j < n <=> j < i \/ j = i
    BY <1>a, <2>1
  <2> QED BY <2>2
<1>11. n \in S
  BY <1>9
<1> QED BY <1>4, <1>7, <1>10, <1>11

(* What is fresh was in the ring, each entry once, and is inside the window. *)
LEMMA FreshIsKept ==
  ASSUME NEW ring \in Seq(Spent), second \in Nat
  PROVE  /\ Fresh(ring) \in Seq(Spent)
         /\ \A k \in DOMAIN Fresh(ring) : \E i \in DOMAIN ring : Fresh(ring)[k] = ring[i]
         /\ NoTwice(ring) => InTurn(Fresh(ring), second)
<1> DEFINE fresh == {i \in DOMAIN ring : /\ second - ring[i].ts <= SIGNATURE_WINDOW_SECS
                                         /\ ring[i].ts - second <= SIGNATURE_WINDOW_SECS}
           nth(k) == CHOOSE i \in fresh : Cardinality({j \in fresh : j < i}) = k - 1
<1>1. fresh \in SUBSET Nat /\ IsFiniteSet(fresh) /\ Cardinality(fresh) \in Nat
  <2>1. IsFiniteSet(DOMAIN ring)
    BY FS_Interval
  <2> QED BY <2>1, FS_Subset, FS_CardinalityType
<1>2. \A k \in 1 .. Cardinality(fresh) : \E i \in fresh : Cardinality({j \in fresh : j < i}) = k - 1
  <2> HIDE DEF fresh
  <2> QED BY <1>1, PlacesTaken
<1>3. \A k \in 1 .. Cardinality(fresh) :
        nth(k) \in fresh /\ Cardinality({j \in fresh : j < nth(k)}) = k - 1
  <2> SUFFICES ASSUME NEW k \in 1 .. Cardinality(fresh)
               PROVE  nth(k) \in fresh /\ Cardinality({j \in fresh : j < nth(k)}) = k - 1
    OBVIOUS
  <2>1. \E i \in fresh : Cardinality({j \in fresh : j < i}) = k - 1
    BY <1>2
  <2> QED BY <2>1, Zenon
<1>4. Fresh(ring) = [k \in 1 .. Cardinality(fresh) |-> ring[nth(k)]]
  BY Zenon DEF Fresh
<1>5. \A k \in 1 .. Cardinality(fresh) : nth(k) \in DOMAIN ring /\ ring[nth(k)] \in Spent
  <2>1. \A i \in fresh : i \in DOMAIN ring /\ ring[i] \in Spent
    OBVIOUS
  <2> HIDE DEF fresh, nth
  <2> QED BY <1>3, <2>1
<1>6. \A k, l \in 1 .. Cardinality(fresh) : k # l => nth(k) # nth(l)
  <2> SUFFICES ASSUME NEW k \in 1 .. Cardinality(fresh), NEW l \in 1 .. Cardinality(fresh), nth(k) = nth(l)
               PROVE  k = l
    OBVIOUS
  <2>1. k - 1 = l - 1
    <3> HIDE DEF fresh, nth
    <3> QED BY <1>3
  <2> QED BY <2>1, <1>1
<1>7. \A i \in fresh : /\ second - ring[i].ts <= SIGNATURE_WINDOW_SECS
                        /\ ring[i].ts - second <= SIGNATURE_WINDOW_SECS
  OBVIOUS
<1> HIDE DEF fresh, nth
<1>8. \A k \in 1 .. Cardinality(fresh) :
        /\ second - ring[nth(k)].ts <= SIGNATURE_WINDOW_SECS
        /\ ring[nth(k)].ts - second <= SIGNATURE_WINDOW_SECS
        /\ ring[nth(k)].ts \in Int
  BY <1>3, <1>5, <1>7 DEF Spent
<1>9. DOMAIN Fresh(ring) = 1 .. Cardinality(fresh) /\ \A k \in 1 .. Cardinality(fresh) : Fresh(ring)[k] = ring[nth(k)]
  BY <1>4
<1>10. ASSUME NoTwice(ring)
       PROVE  InTurn(Fresh(ring), second)
  <2>1. NoTwice(Fresh(ring))
    <3> SUFFICES ASSUME NEW k \in 1 .. Cardinality(fresh), NEW l \in 1 .. Cardinality(fresh), k # l
                 PROVE  Fresh(ring)[k].nonce # Fresh(ring)[l].nonce
      BY <1>9 DEF NoTwice
    <3> DEFINE i == nth(k)
               j == nth(l)
    <3>1. i \in DOMAIN ring /\ j \in DOMAIN ring /\ i # j
      BY <1>5, <1>6
    <3>2. Fresh(ring)[k] = ring[i] /\ Fresh(ring)[l] = ring[j]
      BY <1>9
    <3> HIDE DEF i, j
    <3> QED BY <1>10, <3>1, <3>2 DEF NoTwice
  <2>2. ASSUME NEW k \in DOMAIN Fresh(ring), NEW l \in DOMAIN Fresh(ring)
        PROVE  Fresh(ring)[l].ts >= Fresh(ring)[k].ts - 2 * SIGNATURE_WINDOW_SECS
    <3>1. /\ Fresh(ring)[k].ts \in Int /\ Fresh(ring)[l].ts \in Int
          /\ Fresh(ring)[k].ts - second <= SIGNATURE_WINDOW_SECS
          /\ second - Fresh(ring)[l].ts <= SIGNATURE_WINDOW_SECS
      BY <1>8, <1>9
    <3> QED BY <3>1, DoorNumbers
  <2>3. \A k \in DOMAIN Fresh(ring) : Fresh(ring)[k].ts =< second + SIGNATURE_WINDOW_SECS
    BY <1>8, <1>9, DoorNumbers
  <2> QED BY <2>1, <2>2, <2>3 DEF InTurn
<1> QED BY <1>1, <1>4, <1>5, <1>10

-----------------------------------------------------------------------------
LEMMA PhonesStart == DoorInit => PhoneInv
<1> SUFFICES ASSUME DoorInit PROVE PhoneInv
  OBVIOUS
<1>1. \A k : k = NothingKept => SnapshotOK(k, signed, redeemed)
  BY DEF NothingKept, SnapshotOK, Range
<1>2. PhoneTypes
  <2>1. SnapshotOK(kept, signed, redeemed) /\ SnapshotOK(stored, signed, redeemed)
    BY <1>1 DEF DoorInit
  <2>2. Cardinality({}) = 0
    BY FS_EmptySet
  <2>3. redeemed = [code \in Codes |-> {}] /\ pairings = <<>> /\ second = 1 /\ started_unix = 0
    BY DEF DoorInit
  <2> QED BY <2>1, <2>2, <2>3 DEF PhoneTypes
<1>3. SignedOK
  BY FS_EmptySet DEF DoorInit, SignedOK, RingSuffices
<1>4. ActsOK /\ RingsOK
  BY DEF DoorInit, ActsOK, RingsOK, NothingKept
<1> QED BY <1>2, <1>3, <1>4 DEF PhoneInv

(* A snapshot stays sound as requests are signed and codes redeemed.       *)
LEMMA SnapshotStays ==
  ASSUME NEW k, SnapshotOK(k, signed, redeemed), signed \subseteq signed',
         \A code \in Codes : redeemed[code] \subseteq redeemed'[code]
  PROVE  SnapshotOK(k, signed', redeemed')
<1>1. \A d, e : SpentBy(d, e, signed) => SpentBy(d, e, signed')
  BY DEF SpentBy
<1>2. \A d \in DOMAIN k.devices : \E code \in Codes : d \in redeemed'[code]
  BY DEF SnapshotOK
<1>3. \A d \in DOMAIN k.nonces :
        /\ k.nonces[d] \in Seq(Spent)
        /\ \A i \in DOMAIN k.nonces[d] : SpentBy(d, k.nonces[d][i], signed')
  BY <1>1, Zenon DEF SnapshotOK
<1> QED BY <1>2, <1>3, Zenon DEF SnapshotOK

(* Whoever moves neither clock nor requests nor rings leaves them sound. *)
LEMMA RingsStay ==
  ASSUME PhoneInv, UNCHANGED <<second, started_unix, signed, acts, forgot, stored>>, kept'.nonces = kept.nonces
  PROVE  SignedOK' /\ ActsOK' /\ RingsOK'
<1>1. SignedOK'
  BY DEF PhoneInv, SignedOK
<1>2. \A q : Live(q)' = Live(q) /\ InRing(q)' = InRing(q) /\ Forgotten(q)' = Forgotten(q)
  BY DEF Live, InRing, Forgotten
<1>3. ActsOK'
  BY <1>2 DEF PhoneInv, ActsOK
<1>4. RingsOK'
  BY DEF PhoneInv, RingsOK
<1> QED BY <1>1, <1>3, <1>4

LEMMA PairingStep ==
  ASSUME PhoneInv, NEW code \in Codes, NEW role \in Roles, create_pairing(code, role)
  PROVE  PhoneInv'
<1> USE DEF create_pairing
<1>1. PhoneTypes'
  <2>1. SnapshotOK(kept', signed', redeemed') /\ SnapshotOK(stored', signed', redeemed')
    BY DEF PhoneInv, PhoneTypes
  <2>2. /\ pairings' = [c \in DOMAIN pairings' |-> pairings'[c]]
        /\ \A c \in DOMAIN pairings' :
             c \in Codes /\ pairings'[c].role \in Roles /\ redeemed'[c] = {}
    BY DEF PhoneInv, PhoneTypes, Set
  <2> QED BY <2>1, <2>2 DEF PhoneInv, PhoneTypes
<1> QED BY <1>1, RingsStay DEF PhoneInv

LEMMA RedeemStep ==
  ASSUME PhoneInv, NEW code \in Codes, NEW device \in DeviceIds, redeem_pairing_audited(code, device)
  PROVE  PhoneInv'
<1> USE DEF redeem_pairing_audited
<1> DEFINE role == pairings[code].role
<1>1. /\ role \in Roles /\ redeemed[code] = {} /\ \A c \in Codes : device \notin redeemed[c]
      /\ redeemed \in [Codes -> SUBSET DeviceIds]
  BY DEF PhoneInv, PhoneTypes, Range
<1>2. /\ redeemed' \in [Codes -> SUBSET DeviceIds]
      /\ \A c \in Codes : redeemed[c] \subseteq redeemed'[c]
      /\ \A c \in Codes \ {code} : redeemed'[c] = redeemed[c]
      /\ redeemed'[code] = redeemed[code] \/ redeemed'[code] = {device}
  BY <1>1
<1>3. \A c \in Codes : Cardinality(redeemed'[c]) =< 1
  <2>1. \A c \in Codes : Cardinality(redeemed[c]) =< 1
    BY DEF PhoneInv, PhoneTypes
  <2>2. Cardinality({device}) = 1
    BY FS_Singleton
  <2>3. \A c \in Codes : redeemed'[c] = redeemed[c] \/ redeemed'[c] = {device}
    BY <1>2
  <2> SUFFICES ASSUME NEW c \in Codes PROVE Cardinality(redeemed'[c]) =< 1
    OBVIOUS
  <2>4. CASE redeemed'[c] = redeemed[c]
    BY <2>1, <2>4, Zenon
  <2>5. CASE redeemed'[c] = {device}
    <3>1. Cardinality(redeemed'[c]) = 1
      BY <2>2, <2>5, Zenon
    <3> QED BY <3>1
  <2> QED BY <2>3, <2>4, <2>5, Zenon
<1>4. /\ pairings' = [c \in DOMAIN pairings' |-> pairings'[c]]
      /\ \A c \in DOMAIN pairings' :
           c \in Codes /\ pairings'[c].role \in Roles /\ redeemed'[c] = {}
  BY <1>2 DEF PhoneInv, PhoneTypes
<1>5. \A k : SnapshotOK(k, signed, redeemed) => SnapshotOK(k, signed', redeemed')
  BY <1>2, SnapshotStays
<1>6. SnapshotOK(stored', signed', redeemed')
  BY <1>5 DEF PhoneInv, PhoneTypes
<1>7. kept'.nonces = kept.nonces /\ SnapshotOK(kept', signed', redeemed')
  <2>1. CASE kept' = kept
    BY <2>1, <1>5 DEF PhoneInv, PhoneTypes
  <2>2. CASE kept' = Register(code, device) /\ redeemed' = [redeemed EXCEPT ![code] = @ \cup {device}]
    <3>1. SnapshotOK(kept, signed', redeemed') /\ SnapshotOK(kept, signed, redeemed)
      BY <1>5 DEF PhoneInv, PhoneTypes
    <3> DEFINE e0 == [device |-> device, role |-> role]
    <3>2. kept' = [devices |-> Set(kept.devices, device, role), nonces |-> kept.nonces,
                   paired |-> Append(kept.paired, e0)]
      BY <2>2, <3>1 DEF Register, SnapshotOK
    <3>3. kept.paired \in Seq(Registered) /\ e0 \in Registered
      BY <3>1, <1>1 DEF SnapshotOK, Registered
    <3>4. kept'.paired \in Seq(Registered) /\ Range(kept'.paired) = Range(kept.paired) \cup {e0}
      <4> HIDE DEF e0
      <4>1. kept'.paired = Append(kept.paired, e0)
        BY <3>2
      <4>2. kept'.paired \in Seq(Registered)
        BY <4>1, <3>3
      <4>3. /\ Len(kept'.paired) = Len(kept.paired) + 1 /\ Len(kept.paired) \in Nat
            /\ kept'.paired[Len(kept.paired) + 1] = e0
            /\ \A i \in 1 .. Len(kept.paired) : kept'.paired[i] = kept.paired[i]
            /\ DOMAIN kept'.paired = 1 .. Len(kept.paired) + 1 /\ DOMAIN kept.paired = 1 .. Len(kept.paired)
        BY <4>1, <4>2, <3>3
      <4>4. Range(kept'.paired) = Range(kept.paired) \cup {e0}
        BY <4>3 DEF Range
      <4> QED BY <4>2, <4>4
    <3>5. /\ DOMAIN kept'.devices = DOMAIN kept.devices \cup {device}
          /\ kept'.devices[device] = role
          /\ \A d \in DOMAIN kept.devices : d # device => kept'.devices[d] = kept.devices[d]
          /\ kept'.devices = [d \in DOMAIN kept'.devices |-> kept'.devices[d]]
      BY <3>2 DEF Set
    <3>6. device \notin DOMAIN kept.devices
      BY <3>1, <1>1 DEF SnapshotOK
    <3>7. DOMAIN kept'.devices = {e.device : e \in Range(kept'.paired)}
      <4>1. DOMAIN kept.devices = {e.device : e \in Range(kept.paired)}
        BY <3>1 DEF SnapshotOK
      <4>2. e0.device = device
        OBVIOUS
      <4> HIDE DEF e0
      <4> QED BY <4>1, <4>2, <3>4, <3>5
    <3>8. \A e \in Range(kept'.paired) : kept'.devices[e.device] = e.role
      <4>1. \A e \in Range(kept.paired) : e.device \in DOMAIN kept.devices /\ kept.devices[e.device] = e.role
        BY <3>1 DEF SnapshotOK
      <4> QED BY <4>1, <3>4, <3>5, <3>6
    <3>9. \A d \in DOMAIN kept'.devices : \E c \in Codes : d \in redeemed'[c]
      <4>1. device \in redeemed'[code]
        BY <2>2, <1>1
      <4>2. \A d \in DOMAIN kept.devices : \E c \in Codes : d \in redeemed'[c]
        BY <3>1, <1>2 DEF SnapshotOK
      <4> QED BY <4>1, <4>2, <3>5
    <3>10. /\ kept'.nonces = kept.nonces
           /\ kept' = [devices |-> kept'.devices, nonces |-> kept'.nonces, paired |-> kept'.paired]
      BY <3>2
    <3>11. /\ kept'.nonces = [d \in DOMAIN kept'.nonces |-> kept'.nonces[d]]
           /\ \A d \in DOMAIN kept'.nonces :
                /\ kept'.nonces[d] \in Seq(Spent)
                /\ \A i \in DOMAIN kept'.nonces[d] : SpentBy(d, kept'.nonces[d][i], signed')
      <4>1. /\ kept.nonces = [d \in DOMAIN kept.nonces |-> kept.nonces[d]]
            /\ \A d \in DOMAIN kept.nonces :
                 /\ kept.nonces[d] \in Seq(Spent)
                 /\ \A i \in DOMAIN kept.nonces[d] : SpentBy(d, kept.nonces[d][i], signed')
        BY <3>1, Zenon DEF SnapshotOK
      <4>2. kept'.nonces = kept.nonces
        BY <3>10, Zenon
      <4> QED BY <4>1, <4>2, Zenon
    <3> QED BY <3>4, <3>5, <3>7, <3>8, <3>9, <3>10, <3>11, Zenon DEF SnapshotOK
  <2> QED BY <2>1, <2>2
<1>8. PhoneTypes'
  BY <1>2, <1>3, <1>4, <1>6, <1>7 DEF PhoneInv, PhoneTypes
<1> QED BY <1>7, <1>8, RingsStay DEF PhoneInv

-----------------------------------------------------------------------------
LEMMA SignStep ==
  ASSUME PhoneInv, NEW device \in DeviceIds, Sign(device)
  PROVE  PhoneInv'
<1> USE DEF Sign
<1>1. signed \subseteq Request /\ IsFiniteSet(signed) /\ Cardinality(signed) \in Nat /\ second \in Nat
  BY FS_CardinalityType DEF PhoneInv, PhoneTypes, SignedOK
<1>2. PICK ts \in second - MaxSkew .. second + MaxSkew :
        signed' = signed \cup {[device |-> device, ts |-> ts, nonce |-> Cardinality(signed)]}
  OBVIOUS
<1> DEFINE q0 == [device |-> device, ts |-> ts, nonce |-> Cardinality(signed)]
<1>3. q0 \in Request /\ q0 \notin signed /\ signed' = signed \cup {q0}
  <2>1. MaxSkew \in Nat
    BY DoorAssumption
  <2>2. \A q \in signed : q.nonce < Cardinality(signed) /\ q.nonce \in Nat
    BY <1>1 DEF PhoneInv, SignedOK, Request
  <2>3. q0.nonce = Cardinality(signed)
    OBVIOUS
  <2>4. q0 \notin signed
    BY <1>1, <2>2, <2>3
  <2> QED BY <1>1, <1>2, <2>1, <2>4 DEF Request
<1>4. signed' \subseteq Request /\ IsFiniteSet(signed') /\ Cardinality(signed') = Cardinality(signed) + 1
  BY <1>1, <1>3, FS_AddElement
<1>5. \A q \in signed' : q.nonce < Cardinality(signed')
  BY <1>1, <1>3, <1>4 DEF PhoneInv, SignedOK, Request
<1>6. \A p, q \in signed' : p.nonce = q.nonce => p = q
  BY <1>1, <1>3 DEF PhoneInv, SignedOK, Request
<1>7. SignedOK'
  BY <1>4, <1>5, <1>6 DEF SignedOK
<1>8. \A k : SnapshotOK(k, signed, redeemed) => SnapshotOK(k, signed', redeemed')
  BY <1>3, SnapshotStays
<1>9. PhoneTypes'
  BY <1>8 DEF PhoneInv, PhoneTypes
<1>10. ActsOK'
  <2>1. \A q : Live(q)' = Live(q) /\ InRing(q)' = InRing(q) /\ Forgotten(q)' = Forgotten(q)
    BY DEF Live, InRing, Forgotten
  <2> QED BY <1>3, <2>1 DEF PhoneInv, ActsOK
<1>11. RingsOK'
  BY DEF PhoneInv, RingsOK
<1> QED BY <1>7, <1>9, <1>10, <1>11 DEF PhoneInv

LEMMA SaveStep == ASSUME PhoneInv, Autosave PROVE PhoneInv'
<1> USE DEF Autosave
<1>1. PhoneTypes'
  <2>1. SnapshotOK(kept', signed', redeemed')
    BY DEF PhoneInv, PhoneTypes
  <2>2. stored' = kept /\ kept' = kept
    OBVIOUS
  <2>3. SnapshotOK(stored', signed', redeemed')
    BY <2>1, <2>2
  <2> QED BY <2>1, <2>3 DEF PhoneInv, PhoneTypes
<1>2. SignedOK'
  BY DEF PhoneInv, SignedOK
<1>3. \A q : Live(q)' = Live(q) /\ InRing(q)' = InRing(q) /\ Forgotten(q)' = Forgotten(q)
  BY DEF Live, InRing, Forgotten
<1>4. ActsOK'
  BY <1>3 DEF PhoneInv, ActsOK
<1>5. RingsOK'
  BY DEF PhoneInv, RingsOK, InTurn
<1> QED BY <1>1, <1>2, <1>4, <1>5 DEF PhoneInv

LEMMA RebootStep == ASSUME PhoneInv, Restart PROVE PhoneInv'
<1> USE DEF Restart
<1> DEFINE living == {d \in DOMAIN stored.nonces : Fresh(stored.nonces[d]) # <<>>}
<1>1. SnapshotOK(stored, signed, redeemed)
  BY DEF PhoneInv, PhoneTypes
<1>2. kept' = [devices |-> stored.devices, nonces |-> [d \in living |-> Fresh(stored.nonces[d])],
               paired |-> stored.paired]
  BY <1>1 DEF SnapshotOK
<1>3. ASSUME NEW d \in living
      PROVE  /\ kept'.nonces[d] \in Seq(Spent)
             /\ \A i \in DOMAIN kept'.nonces[d] : SpentBy(d, kept'.nonces[d][i], signed)
             /\ InTurn(kept'.nonces[d], second)
  <2>1. stored.nonces[d] \in Seq(Spent) /\ \A i \in DOMAIN stored.nonces[d] : SpentBy(d, stored.nonces[d][i], signed)
    BY <1>1 DEF SnapshotOK
  <2>2. kept'.nonces[d] = Fresh(stored.nonces[d])
    BY <1>2
  <2>3. NoTwice(stored.nonces[d])
    BY DEF PhoneInv, RingsOK
  <2>4. second \in Nat
    BY DEF PhoneInv, PhoneTypes
  <2> QED BY <2>1, <2>2, <2>3, <2>4, FreshIsKept
<1>4. SnapshotOK(stored', signed', redeemed') /\ SnapshotOK(kept', signed', redeemed')
  <2>1. \A d, e : SpentBy(d, e, signed') <=> SpentBy(d, e, signed)
    BY DEF SpentBy
  <2>2. SnapshotOK(stored', signed', redeemed')
    BY <1>1, <2>1, Zenon DEF SnapshotOK
  <2>3. /\ DOMAIN kept'.nonces = living /\ kept'.nonces = [d \in living |-> kept'.nonces[d]]
        /\ kept'.devices = stored.devices /\ kept'.paired = stored.paired
        /\ kept' = [devices |-> kept'.devices, nonces |-> kept'.nonces, paired |-> kept'.paired]
    BY <1>2
  <2> HIDE DEF living
  <2>4. SnapshotOK(kept', signed', redeemed')
    <3>1. \A d \in DOMAIN kept'.nonces :
            /\ kept'.nonces[d] \in Seq(Spent)
            /\ \A i \in DOMAIN kept'.nonces[d] : SpentBy(d, kept'.nonces[d][i], signed')
      BY <1>3, <2>1, <2>3, Zenon
    <3>2. /\ kept'.devices = [d \in DOMAIN kept'.devices |-> kept'.devices[d]]
          /\ kept'.paired \in Seq(Registered)
          /\ DOMAIN kept'.devices = {e.device : e \in Range(kept'.paired)}
          /\ \A e \in Range(kept'.paired) : kept'.devices[e.device] = e.role
      BY <1>1, <2>3, Zenon DEF SnapshotOK
    <3>3. redeemed' = redeemed
      OBVIOUS
    <3>4. \A d \in DOMAIN kept'.devices : \E code \in Codes : d \in redeemed'[code]
      BY <1>1, <2>3, <3>3, Zenon DEF SnapshotOK
    <3>5. kept'.nonces = [d \in DOMAIN kept'.nonces |-> kept'.nonces[d]]
      BY <2>3
    <3> QED BY <2>3, <3>1, <3>2, <3>4, <3>5, Zenon DEF SnapshotOK
  <2> QED BY <2>2, <2>4
<1>5. PhoneTypes'
  BY <1>4 DEF PhoneInv, PhoneTypes
<1>6. SignedOK'
  BY DEF PhoneInv, SignedOK
<1>7. /\ second' = second /\ started_unix' = second /\ acts' = acts /\ signed' = signed /\ stored' = stored
      /\ forgot' = [q \in DOMAIN acts |-> IF q.ts > second /\ ~InRing(q)' THEN acts[q] ELSE Forgotten(q)]
  OBVIOUS
<1>8. ActsOK'
  <2>1. DOMAIN forgot' = DOMAIN acts /\ forgot' = [q \in DOMAIN forgot' |-> forgot'[q]]
    BY <1>7
  <2>2. \A q \in DOMAIN acts :
          Forgotten(q)' = IF q.ts > second /\ ~InRing(q)' THEN acts[q] ELSE Forgotten(q)
    BY <1>7 DEF Forgotten
  <2>3. \A q \in DOMAIN acts : Forgotten(q) \in Nat
    BY DEF PhoneInv, ActsOK, Forgotten
  <2>4. ASSUME NEW q \in DOMAIN acts
        PROVE  /\ Forgotten(q)' \in Nat /\ acts[q] =< 1 + Forgotten(q)'
               /\ Live(q)' /\ ~InRing(q)' => acts[q] =< Forgotten(q)'
    <3>1. acts[q] \in Nat /\ acts[q] =< 1 + Forgotten(q) /\ Forgotten(q) \in Nat
      BY <2>3 DEF PhoneInv, ActsOK
    <3>2. CASE q.ts > second /\ ~InRing(q)'
      <4>1. Forgotten(q)' = acts[q]
        BY <2>2, <3>2
      <4> QED BY <3>1, <4>1
    <3>3. CASE ~(q.ts > second /\ ~InRing(q)')
      <4>1. Forgotten(q)' = Forgotten(q)
        BY <2>2, <3>3
      <4>2. ~(Live(q)' /\ ~InRing(q)')
        BY <1>7, <3>3 DEF Live
      <4> QED BY <3>1, <4>1, <4>2
    <3> QED BY <3>2, <3>3
  <2>5. \A q \in DOMAIN forgot' : forgot'[q] \in Nat
    BY <2>1, <2>4 DEF Forgotten
  <2>6. acts' = [q \in DOMAIN acts' |-> acts'[q]] /\ \A q \in DOMAIN acts : q \in signed /\ acts[q] \in Nat
    BY <1>7 DEF PhoneInv, ActsOK
  <2> QED BY <1>7, <2>1, <2>4, <2>5, <2>6, Zenon DEF ActsOK
<1>9. RingsOK'
  <2>1. \A d \in DOMAIN kept'.nonces : d \in living
    BY <1>2
  <2>2. \A d \in DOMAIN kept'.nonces : InTurn(kept'.nonces[d], second')
    BY <1>3, <1>7, <2>1
  <2>3. \A d \in DOMAIN stored'.nonces : NoTwice(stored'.nonces[d])
    BY <1>7 DEF PhoneInv, RingsOK
  <2> QED BY <2>2, <2>3 DEF RingsOK
<1> QED BY <1>5, <1>6, <1>8, <1>9 DEF PhoneInv

LEMMA SecondStep == ASSUME PhoneInv, SecondPasses PROVE PhoneInv'
<1> USE DEF SecondPasses
<1>0. second \in Nat /\ second' = second + 1 /\ signed \subseteq Request
  BY DEF PhoneInv, PhoneTypes, SignedOK
<1>1. PhoneTypes'
  <2>1. SnapshotOK(kept', signed', redeemed') /\ SnapshotOK(stored', signed', redeemed')
    BY DEF PhoneInv, PhoneTypes
  <2> QED BY <2>1 DEF PhoneInv, PhoneTypes
<1>2. SignedOK'
  BY DEF PhoneInv, SignedOK
<1>3. \A q \in signed : Live(q)' => Live(q)
  BY <1>0, DoorNumbers DEF Live, Request
<1>4. ActsOK'
  <2>1. \A q : InRing(q)' = InRing(q) /\ Forgotten(q)' = Forgotten(q)
    BY DEF InRing, Forgotten
  <2> QED BY <1>3, <2>1 DEF PhoneInv, ActsOK
<1>5. RingsOK'
  <2>1. ASSUME NEW d \in DOMAIN kept.nonces
        PROVE  InTurn(kept.nonces[d], second')
    <3>1. \A i \in DOMAIN kept.nonces[d] : kept.nonces[d][i].ts \in Int
      <4>1. kept.nonces[d] \in Seq(Spent)
        BY DEF PhoneInv, PhoneTypes, SnapshotOK
      <4>2. \A i \in DOMAIN kept.nonces[d] : kept.nonces[d][i] \in Spent
        BY <4>1
      <4> QED BY <4>2 DEF Spent
    <3>2. InTurn(kept.nonces[d], second)
      BY DEF PhoneInv, RingsOK
    <3> QED BY <1>0, <3>1, <3>2, DoorNumbers DEF InTurn
  <2> QED BY <2>1 DEF PhoneInv, RingsOK
<1> QED BY <1>1, <1>2, <1>4, <1>5 DEF PhoneInv

-----------------------------------------------------------------------------
(* A ring that has more than its size holds at its head what cannot be     *)
(* delivered any more: all behind it were signed too close to it.          *)
LEMMA HeadIsSpent ==
  ASSUME PhoneInv, NEW d \in DeviceIds, NEW ring \in Seq(Spent),
         \A i \in DOMAIN ring : SpentBy(d, ring[i], signed),
         InTurn(ring, second), Len(ring) > NONCE_CAP
  PROVE  second - ring[1].ts > SIGNATURE_WINDOW_SECS
<1> SUFFICES ASSUME ~(second - ring[1].ts > SIGNATURE_WINDOW_SECS) PROVE FALSE
  OBVIOUS
<1> DEFINE n == Len(ring)
<1>1. /\ second \in Nat /\ IsFiniteSet(signed) /\ signed \subseteq Request
      /\ SIGNATURE_WINDOW_SECS \in Nat /\ NONCE_CAP \in Nat
  BY DoorNumbers DEF PhoneInv, PhoneTypes, SignedOK
<1>2. /\ n \in Nat /\ n >= 1 /\ DOMAIN ring = 1 .. n
      /\ \A i \in 1 .. n : ring[i].ts \in Int /\ ring[i].nonce \in Nat
  <2>1. n \in Nat /\ DOMAIN ring = 1 .. n /\ \A i \in 1 .. n : ring[i] \in Spent
    OBVIOUS
  <2>2. \A e \in Spent : e.ts \in Int /\ e.nonce \in Nat
    BY DEF Spent
  <2>3. n >= 1
    BY <1>1, <2>1
  <2> QED BY <2>1, <2>2, <2>3
<1>3. \A i \in 1 .. n : /\ ring[i].ts >= second - 3 * SIGNATURE_WINDOW_SECS
                         /\ ring[i].ts =< second + SIGNATURE_WINDOW_SECS
  <2> SUFFICES ASSUME NEW i \in 1 .. n
               PROVE  /\ ring[i].ts >= second - 3 * SIGNATURE_WINDOW_SECS
                      /\ ring[i].ts =< second + SIGNATURE_WINDOW_SECS
    OBVIOUS
  <2>1. ring[i].ts \in Int /\ ring[1].ts \in Int /\ ring[i].ts =< second + SIGNATURE_WINDOW_SECS
    BY <1>2 DEF InTurn
  <2>2. CASE i = 1
    BY <1>1, <2>1, <2>2
  <2>3. CASE i # 1
    <3>1. 1 \in DOMAIN ring /\ i \in DOMAIN ring /\ 1 < i
      BY <1>2, <2>3
    <3>2. ring[i].ts >= ring[1].ts - 2 * SIGNATURE_WINDOW_SECS
      BY <3>1 DEF InTurn
    <3> QED BY <1>1, <2>1, <3>2
  <2> QED BY <2>2, <2>3
<1> HIDE DEF n
<1>a. PICK m \in 1 .. n : \A i \in 1 .. n : ring[m].ts =< ring[i].ts
  <2> DEFINE Ages == {a \in Nat : \E i \in 1 .. n : a = ring[i].ts - (second - 3 * SIGNATURE_WINDOW_SECS)}
  <2>1. \A i \in 1 .. n : ring[i].ts - (second - 3 * SIGNATURE_WINDOW_SECS) \in Nat
    <3> HIDE DEF Ages
    <3> SUFFICES ASSUME NEW i \in 1 .. n PROVE ring[i].ts - (second - 3 * SIGNATURE_WINDOW_SECS) \in Nat
      OBVIOUS
    <3>1. ring[i].ts \in Int /\ ring[i].ts >= second - 3 * SIGNATURE_WINDOW_SECS
      BY <1>2, <1>3
    <3>2. second \in Nat /\ SIGNATURE_WINDOW_SECS \in Nat
      BY <1>1
    <3>3. \A t, u \in Int : t >= u => t - u \in Nat
      OBVIOUS
    <3>4. second - 3 * SIGNATURE_WINDOW_SECS \in Int
      BY <3>2
    <3> QED BY <3>1, <3>3, <3>4
  <2>2. 1 \in 1 .. n
    BY <1>2
  <2>3. Ages # {} /\ Ages \in SUBSET Nat
    BY <2>1, <2>2
  <2>4. PICK a \in Ages : \A b \in Ages : a =< b
    <3> HIDE DEF Ages
    <3> QED BY <2>3, LeastOf
  <2>5. PICK i \in 1 .. n : a = ring[i].ts - (second - 3 * SIGNATURE_WINDOW_SECS)
    BY <2>4
  <2>6. \A j \in 1 .. n : ring[j].ts - (second - 3 * SIGNATURE_WINDOW_SECS) \in Ages
    BY <2>1
  <2> HIDE DEF Ages
  <2>7. \A j \in 1 .. n : a =< ring[j].ts - (second - 3 * SIGNATURE_WINDOW_SECS)
    BY <2>4, <2>6
  <2>8. ASSUME NEW j \in 1 .. n PROVE ring[i].ts =< ring[j].ts
    <3>1. ring[i].ts \in Int /\ ring[j].ts \in Int
      BY <1>2
    <3> QED BY <1>1, <2>5, <2>7, <3>1
  <2> QED BY <2>8
<1>b. PICK first \in signed : first.device = d /\ first.ts = ring[m].ts
  BY <1>2, <1>a DEF SpentBy
<1> DEFINE R == {q \in signed : q.device = first.device /\ q.ts >= first.ts
                                 /\ q.ts <= first.ts + 4 * SIGNATURE_WINDOW_SECS}
           f == [i \in 1 .. n |-> CHOOSE q \in R : q.nonce = ring[i].nonce]
<1>4. \A i, j \in 1 .. n : i # j => ring[i].nonce # ring[j].nonce
  BY <1>2 DEF InTurn, NoTwice
<1>5. \A i \in 1 .. n : \E q \in R : q.nonce = ring[i].nonce
  <2> SUFFICES ASSUME NEW i \in 1 .. n PROVE \E q \in R : q.nonce = ring[i].nonce
    OBVIOUS
  <2>1. PICK q \in signed : q.device = d /\ q.nonce = ring[i].nonce /\ q.ts = ring[i].ts
    BY <1>2 DEF SpentBy
  <2>2. ring[i].ts >= ring[m].ts /\ ring[i].ts =< ring[m].ts + 4 * SIGNATURE_WINDOW_SECS
    <3>1. /\ ring[i].ts \in Int /\ ring[m].ts \in Int /\ ring[i].ts >= ring[m].ts
          /\ ring[m].ts >= second - 3 * SIGNATURE_WINDOW_SECS
          /\ ring[i].ts =< second + SIGNATURE_WINDOW_SECS
      BY <1>2, <1>3, <1>a
    <3> QED BY <1>1, <3>1
  <2> QED BY <1>b, <2>1, <2>2
<1>6. \A i \in 1 .. n : f[i] \in R /\ f[i].nonce = ring[i].nonce
  <2> SUFFICES ASSUME NEW i \in 1 .. n PROVE f[i] \in R /\ f[i].nonce = ring[i].nonce
    OBVIOUS
  <2>1. \E q \in R : q.nonce = ring[i].nonce
    BY <1>5
  <2>2. f[i] = CHOOSE q \in R : q.nonce = ring[i].nonce
    OBVIOUS
  <2> HIDE DEF R, f
  <2> QED BY <2>1, <2>2, Zenon
<1>7. f \in Injection(1 .. n, R)
  <2>1. f \in [1 .. n -> R]
    <3>1. f = [i \in 1 .. n |-> f[i]]
      OBVIOUS
    <3> HIDE DEF f, R
    <3> QED BY <1>6, <3>1
  <2>2. \A i, j \in 1 .. n : f[i] = f[j] => i = j
    <3> HIDE DEF f, R
    <3> QED BY <1>4, <1>6
  <2> HIDE DEF f, R
  <2> QED BY <2>1, <2>2 DEF Injection, IsInjective
<1>8. IsFiniteSet(R) /\ Cardinality(R) =< NONCE_CAP
  <2>1. IsFiniteSet(R)
    BY <1>1, FS_Subset
  <2>2. Cardinality(R) =< NONCE_CAP
    BY DEF PhoneInv, SignedOK, RingSuffices
  <2> QED BY <2>1, <2>2
<1>9. Cardinality(1 .. n) = n
  BY <1>2, FS_Interval
<1>10. Cardinality(1 .. n) =< Cardinality(R) /\ Cardinality(R) \in Nat
  <2> HIDE DEF f, R
  <2> QED BY <1>7, <1>8, FS_Injection, FS_CardinalityType
<1> HIDE DEF R
<1>11. n > NONCE_CAP
  BY DEF n
<1> QED BY <1>1, <1>2, <1>8, <1>9, <1>10, <1>11

(* The ring an accepted request leaves. *)
LEMMA RingTakes ==
  ASSUME PhoneInv, NEW q \in signed, Timely(q),
         q.nonce \notin {e.nonce : e \in Range(Ring(q.device))}
  PROVE  LET next == check_and_record_nonce(Ring(q.device), q)
         IN  /\ next \in Seq(Spent) /\ \A i \in DOMAIN next : SpentBy(q.device, next[i], signed)
             /\ InTurn(next, second)
             /\ \E i \in DOMAIN next : next[i].nonce = q.nonce
             /\ \A p \in signed : Live(p) =>
                  \A i \in DOMAIN Ring(q.device) : Ring(q.device)[i].nonce = p.nonce =>
                    \E j \in DOMAIN next : next[j].nonce = p.nonce
<1> DEFINE d == q.device
           ring == Ring(d)
           e0 == [nonce |-> q.nonce, ts |-> q.ts]
           new == Append(ring, e0)
           m == Len(ring)
           next == check_and_record_nonce(ring, q)
<1>1. /\ second \in Nat /\ started_unix \in Nat /\ signed \subseteq Request /\ q \in Request
      /\ SIGNATURE_WINDOW_SECS \in Nat /\ NONCE_CAP \in Nat /\ NONCE_CAP >= 1
  BY DoorAssumption DEF PhoneInv, PhoneTypes, SignedOK
<1>2. q.device \in DeviceIds /\ q.ts \in Int /\ q.nonce \in Nat /\ e0 \in Spent
  BY <1>1 DEF Request, Spent
<1>3. ring \in Seq(Spent) /\ \A i \in DOMAIN ring : SpentBy(d, ring[i], signed)
  <2>1. CASE d \in DOMAIN kept.nonces
    <3>1. ring = kept.nonces[d]
      BY <2>1 DEF Ring
    <3> QED BY <2>1, <3>1 DEF PhoneInv, PhoneTypes, SnapshotOK
  <2>2. CASE d \notin DOMAIN kept.nonces
    <3>1. ring = <<>>
      BY <2>2 DEF Ring
    <3> QED BY <3>1
  <2> QED BY <2>1, <2>2
<1>4. InTurn(ring, second)
  BY DEF Ring, PhoneInv, RingsOK, InTurn, NoTwice
<1>5. \A i \in DOMAIN ring : /\ ring[i].nonce # q.nonce /\ ring[i].ts \in Int
                             /\ ring[i].ts =< second + SIGNATURE_WINDOW_SECS
  <2>1. \A i \in DOMAIN ring : ring[i].nonce # q.nonce
    BY DEF Range
  <2>2. \A i \in DOMAIN ring : ring[i].ts \in Int
    <3>1. \A i \in DOMAIN ring : ring[i] \in Spent
      BY <1>3
    <3> QED BY <3>1 DEF Spent
  <2> QED BY <1>4, <2>1, <2>2 DEF InTurn
<1>t. /\ second - q.ts <= SIGNATURE_WINDOW_SECS /\ q.ts - second <= SIGNATURE_WINDOW_SECS
      /\ q.ts > started_unix
  BY DEF Timely
<1> HIDE DEF ring, e0
<1>6. /\ m \in Nat /\ DOMAIN ring = 1 .. m
      /\ new \in Seq(Spent) /\ Len(new) = m + 1 /\ DOMAIN new = 1 .. m + 1
      /\ new[m + 1] = e0 /\ \A i \in 1 .. m : new[i] = ring[i]
  BY <1>2, <1>3
<1>7. e0.nonce = q.nonce /\ e0.ts = q.ts
  BY DEF e0
<1> HIDE DEF new, m
<1>8. \A i \in DOMAIN new : SpentBy(d, new[i], signed)
  <2>1. SpentBy(d, e0, signed)
    BY <1>7 DEF SpentBy
  <2>2. \A i \in 1 .. m : SpentBy(d, new[i], signed)
    BY <1>3, <1>6
  <2>3. \A i \in 1 .. m + 1 : i \in 1 .. m \/ i = m + 1
    BY <1>6
  <2> QED BY <1>6, <2>1, <2>2, <2>3, Zenon
<1>9. InTurn(new, second)
  <2>1. \A i \in 1 .. m : i \in DOMAIN ring
    BY <1>6
  <2>2. \A i \in 1 .. m + 1 : i \in 1 .. m \/ i = m + 1
    BY <1>6
  <2>3. NoTwice(new)
    <3>1. \A i, j \in 1 .. m : i # j => new[i].nonce # new[j].nonce
      BY <1>4, <1>6, <2>1 DEF InTurn, NoTwice
    <3>2. \A i \in 1 .. m : new[i].nonce # new[m + 1].nonce
      BY <1>5, <1>6, <1>7, <2>1
    <3> QED BY <1>6, <2>2, <3>1, <3>2 DEF NoTwice
  <2>4. ASSUME NEW i \in DOMAIN new, NEW j \in DOMAIN new, i < j
        PROVE  new[j].ts >= new[i].ts - 2 * SIGNATURE_WINDOW_SECS
    <3>1. i \in 1 .. m /\ new[i] = ring[i] /\ i \in DOMAIN ring
      BY <1>6, <2>4
    <3>2. CASE j = m + 1
      <4>1. new[j].ts = q.ts
        BY <1>6, <1>7, <3>2
      <4>2. new[i].ts \in Int /\ new[i].ts =< second + SIGNATURE_WINDOW_SECS
        BY <1>5, <3>1
      <4> QED BY <1>1, <1>2, <1>t, <4>1, <4>2
    <3>3. CASE j # m + 1
      <4>1. j \in DOMAIN ring /\ new[j] = ring[j]
        BY <1>6, <3>3
      <4> QED BY <1>4, <2>4, <3>1, <4>1 DEF InTurn
    <3> QED BY <3>2, <3>3
  <2>5. \A i \in DOMAIN new : new[i].ts =< second + SIGNATURE_WINDOW_SECS
    <3>1. q.ts =< second + SIGNATURE_WINDOW_SECS
      BY <1>1, <1>2, <1>t
    <3> QED BY <1>5, <1>6, <1>7, <2>1, <2>2, <3>1
  <2> QED BY <2>3, <2>4, <2>5 DEF InTurn
<1>10. next = IF m + 1 > NONCE_CAP THEN Tail(new) ELSE new
  BY <1>6 DEF check_and_record_nonce, new, e0
<1>11. CASE ~(m + 1 > NONCE_CAP)
  <2>1. next = new
    BY <1>10, <1>11
  <2>2. m + 1 \in DOMAIN new /\ new[m + 1].nonce = q.nonce
    BY <1>6, <1>7
  <2>3. \A i \in DOMAIN ring : i \in DOMAIN new /\ new[i] = ring[i]
    BY <1>6
  <2> HIDE DEF next
  <2>4. /\ next \in Seq(Spent) /\ \A i \in DOMAIN next : SpentBy(d, next[i], signed)
        /\ InTurn(next, second)
        /\ \E i \in DOMAIN next : next[i].nonce = q.nonce
        /\ \A p \in signed : Live(p) =>
             \A i \in DOMAIN ring : ring[i].nonce = p.nonce =>
               \E j \in DOMAIN next : next[j].nonce = p.nonce
    BY <1>6, <1>8, <1>9, <2>1, <2>2, <2>3, Zenon
  <2> QED BY <2>4, Zenon DEF next, ring
<1>12. CASE m + 1 > NONCE_CAP
  <2>1. next = Tail(new)
    BY <1>10, <1>12
  <2>2. /\ next \in Seq(Spent) /\ DOMAIN next = 1 .. m /\ m >= 1
        /\ \A i \in 1 .. m : next[i] = new[i + 1]
    BY <1>1, <1>6, <1>12, <2>1
  <2>3. \A i \in 1 .. m : i + 1 \in DOMAIN new
    BY <1>6
  <2> HIDE DEF next
  <2>4. \A i \in DOMAIN next : SpentBy(d, next[i], signed)
    BY <1>8, <2>2, <2>3
  <2>5. InTurn(next, second)
    <3>1. \A i \in 1 .. m : i + 1 \in DOMAIN new /\ next[i] = new[i + 1]
      BY <2>2, <2>3
    <3>2. \A i, j \in 1 .. m : (i < j => i + 1 < j + 1) /\ (i # j => i + 1 # j + 1)
      BY <1>6
    <3>3. NoTwice(next)
      BY <1>9, <2>2, <3>1, <3>2 DEF InTurn, NoTwice
    <3>4. \A i, j \in DOMAIN next : i < j => next[j].ts >= next[i].ts - 2 * SIGNATURE_WINDOW_SECS
      BY <1>9, <2>2, <3>1, <3>2 DEF InTurn
    <3>5. \A i \in DOMAIN next : next[i].ts =< second + SIGNATURE_WINDOW_SECS
      BY <1>9, <2>2, <3>1 DEF InTurn
    <3> QED BY <3>3, <3>4, <3>5 DEF InTurn
  <2>6. m \in DOMAIN next /\ next[m].nonce = q.nonce
    BY <1>6, <1>7, <2>2
  <2>7. ASSUME NEW p \in signed, Live(p), NEW i \in DOMAIN ring, ring[i].nonce = p.nonce
        PROVE  \E j \in DOMAIN next : next[j].nonce = p.nonce
    <3>1. i \in 1 .. m /\ new[i].nonce = p.nonce
      BY <1>6, <2>7
    <3>2. i # 1
      <4> SUFFICES ASSUME i = 1 PROVE FALSE
        OBVIOUS
      <4>1. 1 \in DOMAIN new /\ new[1].nonce = p.nonce
        BY <1>6, <3>1
      <4>2. PICK r \in signed : r.nonce = new[1].nonce /\ r.ts = new[1].ts
        BY <1>8, <4>1 DEF SpentBy
      <4>3. r = p
        BY <4>1, <4>2 DEF PhoneInv, SignedOK
      <4>4. second - new[1].ts =< SIGNATURE_WINDOW_SECS
        BY <2>7, <4>2, <4>3 DEF Live
      <4>5. Len(new) > NONCE_CAP
        BY <1>6, <1>12
      <4>6. second - new[1].ts > SIGNATURE_WINDOW_SECS
        BY <1>2, <1>6, <1>8, <1>9, <4>5, HeadIsSpent
      <4>7. new[1].ts \in Int
        <5>1. new[1] \in Spent
          BY <1>6, <4>1
        <5> QED BY <5>1 DEF Spent
      <4> QED BY <1>1, <4>4, <4>6, <4>7
    <3>3. i - 1 \in 1 .. m /\ (i - 1) + 1 = i
      BY <1>6, <3>1, <3>2
    <3>4. next[i - 1] = new[i]
      BY <2>2, <3>3
    <3> QED BY <2>2, <3>1, <3>3, <3>4
  <2>8. /\ next \in Seq(Spent) /\ \A i \in DOMAIN next : SpentBy(d, next[i], signed)
        /\ InTurn(next, second)
        /\ \E i \in DOMAIN next : next[i].nonce = q.nonce
        /\ \A p \in signed : Live(p) =>
             \A i \in DOMAIN ring : ring[i].nonce = p.nonce =>
               \E j \in DOMAIN next : next[j].nonce = p.nonce
    BY <2>2, <2>4, <2>5, <2>6, <2>7, Zenon
  <2> QED BY <2>8, Zenon DEF next, ring
<1> QED BY <1>11, <1>12

LEMMA VerifyStep ==
  ASSUME PhoneInv, NEW q \in signed, verify_device_signature(q)
  PROVE  PhoneInv'
<1> DEFINE next == check_and_record_nonce(Ring(q.device), q)
<1>1. /\ Timely(q) /\ q.nonce \notin {e.nonce : e \in Range(Ring(q.device))}
      /\ kept' = [kept EXCEPT !.nonces = Set(@, q.device, next)]
      /\ UNCHANGED <<second, started_unix, restarts, pairings, stored, signed, forgot, redeemed>>
  BY DEF verify_device_signature
<1>2. /\ next \in Seq(Spent) /\ \A i \in DOMAIN next : SpentBy(q.device, next[i], signed)
      /\ InTurn(next, second)
      /\ \E i \in DOMAIN next : next[i].nonce = q.nonce
      /\ \A p \in signed : Live(p) =>
           \A i \in DOMAIN Ring(q.device) : Ring(q.device)[i].nonce = p.nonce =>
             \E j \in DOMAIN next : next[j].nonce = p.nonce
  BY <1>1, RingTakes, Zenon
<1> HIDE DEF next
<1>3. SnapshotOK(kept, signed, redeemed)
  BY DEF PhoneInv, PhoneTypes
<1>4. kept' = [devices |-> kept.devices, nonces |-> Set(kept.nonces, q.device, next), paired |-> kept.paired]
  BY <1>1, <1>3 DEF SnapshotOK
<1>5. /\ kept'.devices = kept.devices /\ kept'.paired = kept.paired
      /\ kept' = [devices |-> kept'.devices, nonces |-> kept'.nonces, paired |-> kept'.paired]
      /\ kept'.nonces = [x \in DOMAIN kept.nonces \cup {q.device} |->
                           IF x = q.device THEN next ELSE kept.nonces[x]]
  BY <1>4 DEF Set
<1>6. /\ DOMAIN kept'.nonces = DOMAIN kept.nonces \cup {q.device}
      /\ kept'.nonces = [x \in DOMAIN kept'.nonces |-> kept'.nonces[x]]
      /\ kept'.nonces[q.device] = next
      /\ \A x \in DOMAIN kept.nonces : x # q.device => kept'.nonces[x] = kept.nonces[x]
  BY <1>5
<1>7. SnapshotOK(kept', signed, redeemed)
  <2>1. \A d \in DOMAIN kept'.nonces :
          /\ kept'.nonces[d] \in Seq(Spent)
          /\ \A i \in DOMAIN kept'.nonces[d] : SpentBy(d, kept'.nonces[d][i], signed)
    <3> SUFFICES ASSUME NEW d \in DOMAIN kept'.nonces
                 PROVE  /\ kept'.nonces[d] \in Seq(Spent)
                        /\ \A i \in DOMAIN kept'.nonces[d] : SpentBy(d, kept'.nonces[d][i], signed)
      OBVIOUS
    <3>1. CASE d = q.device
      BY <1>2, <1>6, <3>1, Zenon
    <3>2. CASE d # q.device
      BY <1>3, <1>6, <3>2, Zenon DEF SnapshotOK
    <3> QED BY <3>1, <3>2
  <2>2. /\ kept'.devices = [d \in DOMAIN kept'.devices |-> kept'.devices[d]]
        /\ kept'.paired \in Seq(Registered)
        /\ DOMAIN kept'.devices = {e.device : e \in Range(kept'.paired)}
        /\ \A e \in Range(kept'.paired) : kept'.devices[e.device] = e.role
        /\ \A d \in DOMAIN kept'.devices : \E code \in Codes : d \in redeemed[code]
    BY <1>3, <1>5, Zenon DEF SnapshotOK
  <2> QED BY <1>5, <1>6, <2>1, <2>2, Zenon DEF SnapshotOK
<1>8. PhoneTypes'
  BY <1>1, <1>7 DEF PhoneInv, PhoneTypes
<1>9. SignedOK'
  BY <1>1 DEF PhoneInv, SignedOK
<1>10. RingsOK'
  <2>1. ASSUME NEW d \in DOMAIN kept'.nonces
        PROVE  InTurn(kept'.nonces[d], second)
    <3>1. CASE d = q.device
      BY <1>2, <1>6, <3>1, Zenon
    <3>2. CASE d # q.device
      BY <1>6, <3>2, Zenon DEF PhoneInv, RingsOK
    <3> QED BY <3>1, <3>2
  <2>2. \A d \in DOMAIN stored.nonces : NoTwice(stored.nonces[d])
    BY DEF PhoneInv, RingsOK
  <2> QED BY <1>1, <2>1, <2>2 DEF RingsOK
<1>11. InRing(q)'
  BY <1>1, <1>2, <1>6 DEF InRing
<1>12. ASSUME NEW p \in signed, Live(p), InRing(p)
       PROVE  InRing(p)'
  <2>1. CASE p.device = q.device
    <3>1. Ring(q.device) = kept.nonces[p.device] /\ p.device \in DOMAIN kept.nonces
      BY <2>1, <1>12 DEF Ring, InRing
    <3>2. \E j \in DOMAIN next : next[j].nonce = p.nonce
      BY <1>2, <1>12, <3>1, Zenon DEF InRing
    <3> QED BY <1>6, <2>1, <3>2, Zenon DEF InRing
  <2>2. CASE p.device # q.device
    BY <1>6, <1>12, <2>2, Zenon DEF InRing
  <2> QED BY <2>1, <2>2
<1>13. ~InRing(q)
  BY <1>1 DEF InRing, Ring, Range
<1>14. ActsOK'
  <2>1. \A p : (Live(p)' <=> Live(p)) /\ Forgotten(p)' = Forgotten(p)
    BY <1>1 DEF Live, Forgotten
  <2>2. CASE acts' = acts
    BY <1>1, <1>12, <2>1, <2>2 DEF PhoneInv, ActsOK
  <2>3. CASE acts' = Set(acts, q, 1 + IF q \in DOMAIN acts THEN acts[q] ELSE 0)
    <3> DEFINE one == 1 + IF q \in DOMAIN acts THEN acts[q] ELSE 0
    <3>1. /\ DOMAIN acts' = DOMAIN acts \cup {q} /\ acts'[q] = one
          /\ \A p \in DOMAIN acts : p # q => acts'[p] = acts[p]
          /\ acts' = [p \in DOMAIN acts' |-> acts'[p]]
      BY <2>3 DEF Set
    <3>2. Forgotten(q) \in Nat
      BY DEF PhoneInv, ActsOK, Forgotten
    <3>3. one \in Nat /\ one =< 1 + Forgotten(q)
      <4>1. CASE q \in DOMAIN acts
        <5>1. Live(q)
          BY <1>1 DEF Timely, Live
        <5>2. acts[q] \in Nat /\ acts[q] =< Forgotten(q)
          BY <1>13, <4>1, <5>1 DEF PhoneInv, ActsOK
        <5> QED BY <3>2, <4>1, <5>2
      <4>2. CASE q \notin DOMAIN acts
        BY <3>2, <4>2
      <4> QED BY <4>1, <4>2
    <3> HIDE DEF one
    <3>4. ASSUME NEW p \in DOMAIN acts'
          PROVE  /\ p \in signed /\ acts'[p] \in Nat /\ acts'[p] =< 1 + Forgotten(p)
                 /\ Live(p) /\ ~InRing(p)' => acts'[p] =< Forgotten(p)
      <4>1. CASE p = q
        BY <1>11, <3>1, <3>3, <4>1
      <4>2. CASE p # q
        <5>1. p \in DOMAIN acts /\ acts'[p] = acts[p]
          BY <3>1, <4>2
        <5>2. /\ p \in signed /\ acts[p] \in Nat /\ acts[p] =< 1 + Forgotten(p)
              /\ Live(p) /\ ~InRing(p) => acts[p] =< Forgotten(p)
          BY <5>1 DEF PhoneInv, ActsOK
        <5>3. Live(p) /\ ~InRing(p)' => ~InRing(p)
          BY <1>12, <5>2
        <5> QED BY <5>1, <5>2, <5>3
      <4> QED BY <4>1, <4>2
    <3>5. /\ forgot' = [p \in DOMAIN forgot' |-> forgot'[p]]
          /\ \A p \in DOMAIN forgot' : forgot'[p] \in Nat /\ p \in DOMAIN acts'
      BY <1>1, <3>1 DEF PhoneInv, ActsOK
    <3> QED BY <1>1, <2>1, <3>1, <3>4, <3>5 DEF ActsOK
  <2> QED BY <2>2, <2>3 DEF verify_device_signature
<1> QED BY <1>8, <1>9, <1>10, <1>14 DEF PhoneInv

LEMMA DoorIdles == ASSUME PhoneInv, UNCHANGED doorvars PROVE PhoneInv'
<1> USE DEF doorvars
<1>1. PhoneTypes'
  BY DEF PhoneInv, PhoneTypes
<1> QED BY <1>1, RingsStay DEF PhoneInv

LEMMA PhoneStep == PhoneInv /\ [DoorNext]_doorvars => PhoneInv'
<1> SUFFICES ASSUME PhoneInv, [DoorNext]_doorvars PROVE PhoneInv'
  OBVIOUS
<1>1. ASSUME NEW code \in Codes, NEW role \in {"admin", "viewer"}, create_pairing(code, role)
      PROVE  PhoneInv'
  BY <1>1, PairingStep DEF Roles
<1>2. ASSUME NEW code \in Codes, NEW device \in DeviceIds, redeem_pairing_audited(code, device)
      PROVE  PhoneInv'
  BY <1>2, RedeemStep
<1>3. ASSUME NEW device \in DeviceIds, Sign(device) PROVE PhoneInv'
  BY <1>3, SignStep
<1>4. ASSUME NEW q \in signed, verify_device_signature(q) PROVE PhoneInv'
  BY <1>4, VerifyStep
<1>5. CASE Autosave
  BY <1>5, SaveStep
<1>6. CASE Restart
  BY <1>6, RebootStep
<1>7. CASE SecondPasses
  BY <1>7, SecondStep
<1>8. CASE UNCHANGED doorvars
  BY <1>8, DoorIdles
<1> QED BY <1>1, <1>2, <1>3, <1>4, <1>5, <1>6, <1>7, <1>8, Zenon DEF DoorNext

LEMMA PhoneHolds == PhoneInv => PairingHolds
<1> SUFFICES ASSUME PhoneInv PROVE PairingHolds
  OBVIOUS
<1>1. ActedOnce
  BY DEF PhoneInv, ActsOK, ActedOnce
<1>2. CodeMakesOne
  BY DEF PhoneInv, PhoneTypes, CodeMakesOne
<1>3. DevicesAudited
  <2>1. SnapshotOK(kept, signed, redeemed) /\ SnapshotOK(stored, signed, redeemed)
    BY DEF PhoneInv, PhoneTypes
  <2> QED BY <2>1, Zenon DEF SnapshotOK, DevicesAudited
<1> QED BY <1>1, <1>2, <1>3 DEF PairingHolds

(* However often, late and whenever a signed request is delivered, and     *)
(* however a device's clock is set, the control plane acts on it once, and *)
(* once more only after a restart that came before an autosave had kept    *)
(* its nonce and before the moment it was signed for; a code makes one     *)
(* device; and the audit names the devices there are. The ring is assumed  *)
(* to suffice: no device signs more than NONCE_CAP requests in four        *)
(* windows of its own clock.                                               *)
THEOREM DoorPairs == DoorSpec => []PairingHolds
<1>1. DoorInit => PhoneInv
  BY PhonesStart
<1>2. PhoneInv /\ [DoorNext]_doorvars => PhoneInv'
  BY PhoneStep
<1>3. PhoneInv => PairingHolds
  BY PhoneHolds
<1> QED BY <1>1, <1>2, <1>3, PTL DEF DoorSpec
====
