---------------------------- MODULE RestartProofs ----------------------------
(***************************************************************************)
(* Proofs about what survives a death of the process, for every value of   *)
(* the constants.  Restart: what the ledger rebuilds from its journal is   *)
(* sound, and the journal is complete and unambiguous in every process.    *)
(* RunOwners: a run has one owner, and keeps it.  RaftStore: a node's      *)
(* state is the committed prefix, applied once, wherever it died.          *)
(***************************************************************************)
EXTENDS Restart, RunOwners, RaftStore, LedgerProofs, WellFoundedInduction

-----------------------------------------------------------------------------
(* In this system no run is closed.  None is its own parent, and no step   *)
(* index outgrows the ids issued, which is why the highest of the records' *)
(* steps exists.                                                           *)
Plain ==
  \A r \in Runs : /\ ~runs[r].closed
                  /\ runs[r].parent # r
                  /\ runs[r].steps =< next_reservation

Stepped == \A h \in handles : h.step =< h.id

(* As no run is reopened, every link names the generation its run is in.   *)
Current ==
  \A h \in handles : \A i \in DOMAIN h.chain :
    runs[h.chain[i].run_id].generation = h.chain[i].generation

(* A record's tail parent is still the parent of the run it was read from. *)
TailRun(h) == h.chain[Len(h.chain)].run_id

TailsKnown == \A e \in journal : runs[TailRun(e.run)].parent = e.tail_parent

(* The ledger's share of the invariant, and all of it.                     *)
LedgerSound == IInv /\ ChainFrozen /\ NonEmpty /\ Plain /\ Stepped /\ Current

RestartInv == LedgerSound /\ RestartTypeOK /\ JournalHeld /\ TailsKnown

-----------------------------------------------------------------------------
(* The highest of a bounded set of naturals is in it, or is 0. *)
LEMMA HighestIs ==
  ASSUME NEW S \in SUBSET Nat, NEW b \in Nat, \A m \in S : m =< b
  PROVE  /\ Highest(S) \in Nat
         /\ Highest(S) \in S \cup {0}
         /\ \A m \in S : m =< Highest(S)
<1> DEFINE R == OpToRel(<, Nat)
           T == {b - m : m \in S \cup {0}}
<1>1. IsWellFoundedOn(R, Nat)
  BY NatLessThanWellFounded, Zenon
<1>2. \A x, y \in Nat : x < y => <<x, y>> \in R
  BY Zenon DEF OpToRel
<1> HIDE DEF R
<1>3. T \in SUBSET Nat /\ T # {}
  OBVIOUS
<1>4. PICK x \in T : \A y \in T : ~(<<y, x>> \in R)
  BY <1>1, <1>3, WFMin, Zenon
<1>5. \A y \in T : ~(y < x)
  BY <1>2, <1>3, <1>4, Zenon
<1>6. PICK n \in S \cup {0} : x = b - n
  BY <1>4
<1>7. \A m \in S : m =< n
  <2> TAKE m \in S
  <2>1. b - m \in T /\ ~(b - m < b - n)
    BY <1>5, <1>6
  <2> QED BY <2>1
<1>8. \E a \in S \cup {0} : \A m \in S : m =< a
  BY <1>6, <1>7, Zenon
<1>9. /\ Highest(S) \in S \cup {0}
      /\ \A m \in S : m =< Highest(S)
  <2> DEFINE P(a) == a \in S \cup {0} /\ \A m \in S : m =< a
  <2>1. \E a : P(a)
    BY <1>8
  <2>2. P(CHOOSE a : P(a))
    BY <2>1, Zenon
  <2>3. Highest(S) = CHOOSE a : P(a)
    BY Zenon DEF Highest
  <2> QED BY <2>2, <2>3
<1>10. S \cup {0} \subseteq Nat
  OBVIOUS
<1> QED BY <1>9, <1>10, Zenon

-----------------------------------------------------------------------------
(* The steps of the ledger this system takes: all of them but close_run.   *)
LedgerStep ==
  \/ \E run \in Runs, budget \in Budgets, parent \in Runs \cup {NoParent},
        basis \in {"Caller", "Operator"} : open_run_as(run, budget, parent, basis)
  \/ \E run \in Runs, estimate \in Amounts : reserve(run, estimate)
  \/ \E h \in handles, actual \in Costs : settle(h, actual)
  \/ \E run \in Runs, amount \in Costs, generation \in 1 .. MaxGenerations :
        seed_spend(run, amount, generation)
  \/ \E run \in Runs, estimate \in Amounts : reserve_unchecked(run, estimate)
  \/ UNCHANGED vars

LEMMA LedgerSteps == LedgerStep => [Next]_vars
BY Zenon DEF LedgerStep, Next, EnforceNext

(* Admit on entries with steps that are within the ids issued. *)
LEMMA AdmitPlain ==
  ASSUME TypeOK, Stepped, NEW rs \in [Runs -> RunState], NEW run \in Runs, NEW estimate,
         NEW path, Admit(rs, run, estimate, path),
         \A r \in Runs : /\ ~rs[r].closed
                         /\ rs[r].parent # r
                         /\ rs[r].steps =< next_reservation
  PROVE  Plain' /\ Stepped'
<1>1. next_reservation \in Nat /\ next_reservation' = next_reservation + 1
  BY Zenon DEF Admit, TypeOK
<1>2. ASSUME NEW r \in Runs
      PROVE  /\ runs'[r].closed = rs[r].closed
             /\ runs'[r].parent = rs[r].parent
             /\ runs'[r].steps \in {rs[r].steps, rs[r].steps + 1}
             /\ rs[r].steps \in Nat
  BY ZenonT(20) DEF Admit, RunState
<1>3. Plain'
  <2> SUFFICES ASSUME NEW r \in Runs
               PROVE  ~runs'[r].closed /\ runs'[r].parent # r /\ runs'[r].steps =< next_reservation'
    BY DEF Plain
  <2> QED BY <1>1, <1>2
<1>4. Stepped'
  <2> DEFINE k == [id |-> next_reservation + 1, run_id |-> run, amount |-> estimate,
                   step |-> rs[run].steps + 1, generation |-> rs[run].generation,
                   chain |-> ChainOf(rs, path)]
  <2>1. handles' = handles \cup {k}
    BY Zenon DEF Admit
  <2>2. k.step =< k.id
    BY <1>1, <1>2
  <2> HIDE DEF k
  <2> QED BY <2>1, <2>2 DEF Stepped
<1> QED BY <1>3, <1>4

(* No step of the ledger closes a run, makes one its own parent or lets a  *)
(* step index outgrow the ids.                                             *)
LEMMA PlainStep == TypeOK /\ Plain /\ Stepped /\ LedgerStep => Plain' /\ Stepped'
<1> SUFFICES ASSUME TypeOK, Plain, Stepped, LedgerStep PROVE Plain' /\ Stepped'
  OBVIOUS
<1>0. runs \in [Runs -> RunState] /\ next_reservation \in Nat
  BY DEF TypeOK
<1>1. ASSUME UNCHANGED <<handles, next_reservation>>,
             \A r \in Runs : /\ runs'[r].closed = runs[r].closed \/ ~runs'[r].closed
                             /\ runs'[r].parent # r
                             /\ runs'[r].steps \in {0, runs[r].steps}
      PROVE  Plain' /\ Stepped'
  <2>1. Stepped'
    BY <1>1 DEF Stepped
  <2>2. Plain'
    BY <1>0, <1>1 DEF Plain
  <2> QED BY <2>1, <2>2
<1>2. ASSUME NEW run \in Runs, NEW budget \in Budgets, NEW parent \in Runs \cup {NoParent},
             NEW basis \in {"Caller", "Operator"}, open_run_as(run, budget, parent, basis)
      PROVE  Plain' /\ Stepped'
  <2>1. CASE open_fresh(run, budget, parent)
    <3>1. /\ UNCHANGED <<handles, next_reservation>>
          /\ runs' = [runs EXCEPT ![run] = Fresh(budget, parent, next_generation + 1)]
      BY <2>1 DEF open_fresh
    <3>2. parent # run
      BY <1>2 DEF open_run_as
    <3>3. /\ runs'[run].steps = 0 /\ ~runs'[run].closed /\ runs'[run].parent # run
          /\ \A r \in Runs : r # run => runs'[r] = runs[r]
      BY <1>0, <3>1, <3>2 DEF Fresh
    <3> QED BY <1>1, <3>1, <3>3 DEF Plain
  <2>2. CASE open_held(run, budget, parent, basis)
    <3>1. UNCHANGED <<handles, next_reservation>>
      BY <2>2 DEF open_held
    <3>2. parent # run
      BY <1>2 DEF open_run_as
    <3>3. \A r \in Runs : /\ runs'[r].closed = runs[r].closed
                          /\ runs'[r].steps = runs[r].steps
                          /\ runs'[r].parent = runs[r].parent \/ (r = run /\ runs'[r].parent = parent)
      BY <1>0, <2>2 DEF open_held, RunState
    <3>4. \A r \in Runs : runs'[r].parent # r
      BY <3>2, <3>3 DEF Plain
    <3> QED BY <1>1, <3>1, <3>3, <3>4
  <2> QED BY <1>2, <2>1, <2>2 DEF open_run_as
<1>3. ASSUME NEW run \in Runs, NEW estimate \in Amounts, reserve(run, estimate)
      PROVE  Plain' /\ Stepped'
  <2>1. PICK path \in Walks(runs, run) : Admit(runs, run, estimate, path)
    BY <1>3 DEF reserve
  <2> QED BY <1>0, <2>1, AdmitPlain DEF Plain
<1>4. ASSUME NEW h \in handles, NEW actual \in Costs, settle(h, actual)
      PROVE  Plain' /\ Stepped'
  <2>1. UNCHANGED <<handles, next_reservation>>
    BY <1>4, Zenon DEF settle
  <2>2. \A r \in Runs : /\ runs'[r].closed = runs[r].closed
                        /\ runs'[r].steps = runs[r].steps
                        /\ runs'[r].parent = runs[r].parent
    BY <1>0, <1>4 DEF settle, RunState
  <2> QED BY <1>1, <2>1, <2>2 DEF Plain
<1>5. ASSUME NEW run \in Runs, NEW amount \in Costs, NEW generation \in 1 .. MaxGenerations,
             seed_spend(run, amount, generation)
      PROVE  Plain' /\ Stepped'
  <2>1. UNCHANGED <<handles, next_reservation>>
    BY <1>5 DEF seed_spend
  <2>2. \A r \in Runs : /\ runs'[r].closed = runs[r].closed
                        /\ runs'[r].steps = runs[r].steps
                        /\ runs'[r].parent = runs[r].parent
    BY <1>0, <1>5 DEF seed_spend, RunState
  <2> QED BY <1>1, <2>1, <2>2 DEF Plain
<1>6. ASSUME NEW run \in Runs, NEW estimate \in Amounts, reserve_unchecked(run, estimate)
      PROVE  Plain' /\ Stepped'
  <2> DEFINE opened == Fresh(0, NoParent, next_generation + 1)
             rs == IF ~IsOpen(runs[run]) THEN [runs EXCEPT ![run] = opened] ELSE runs
  <2>1. /\ 0 \in Money /\ NoParent \in Runs \cup {NoParent} /\ next_generation + 1 \in Nat
    BY MoneyAssumption DEF Money, TypeOK
  <2>2. /\ opened \in RunState /\ ~opened.closed /\ opened.parent = NoParent /\ opened.steps = 0
    BY <2>1, FreshType DEF Fresh
  <2>3. PICK path \in Walks(rs, run) : Admit(rs, run, estimate, path)
    BY <1>6 DEF reserve_unchecked
  <2> HIDE DEF opened
  <2>4. /\ rs \in [Runs -> RunState]
        /\ \A r \in Runs : rs[r] = runs[r] \/ rs[r] = opened
    BY <1>0, <2>2
  <2> HIDE DEF rs
  <2>5. \A r \in Runs : ~rs[r].closed /\ rs[r].parent # r /\ rs[r].steps =< next_reservation
    BY <1>0, <2>2, <2>4, RunsAssumption DEF Plain
  <2> QED BY <2>3, <2>4, <2>5, AdmitPlain
<1>7. ASSUME UNCHANGED vars PROVE Plain' /\ Stepped'
  BY <1>7 DEF vars, Plain, Stepped
<1> QED BY <1>2, <1>3, <1>4, <1>5, <1>6, <1>7 DEF LedgerStep

(* The runs of a handle's chain are known, open and in the generation its  *)
(* link names, and a step of the ledger keeps their entries.               *)
LEMMA LinkOpen ==
  ASSUME TypeOK, Issued, Plain, Current, NEW k \in handles, NEW i \in DOMAIN k.chain
  PROVE  /\ k.chain[i] \in ChainLink
         /\ k.chain[i].run_id \in Runs
         /\ k.chain[i].generation = runs[k.chain[i].run_id].generation
         /\ k.chain[i].generation \in 1 .. next_generation
         /\ IsOpen(runs[k.chain[i].run_id])
<1>1. k.chain \in Seq(ChainLink)
  BY DEF TypeOK, Reservation
<1>2. k.chain[i] \in ChainLink
  BY <1>1
<1>3. k.chain[i].run_id \in Runs
  BY <1>2 DEF ChainLink
<1>4. k.chain[i].generation = runs[k.chain[i].run_id].generation
  BY DEF Current
<1>5. k.chain[i].generation \in 1 .. next_generation /\ next_generation \in Nat
  BY DEF Issued, TypeOK
<1> QED BY <1>2, <1>3, <1>4, <1>5 DEF IsOpen, Plain

LEMMA LinkKept ==
  ASSUME TypeOK, Issued, Plain, Current, [Next]_vars, NEW k \in handles, NEW i \in DOMAIN k.chain
  PROVE  /\ Kept(k.chain[i].run_id)
         /\ runs'[k.chain[i].run_id].generation = k.chain[i].generation
<1>1. /\ k.chain[i].run_id \in Runs
      /\ k.chain[i].generation = runs[k.chain[i].run_id].generation
      /\ IsOpen(runs[k.chain[i].run_id])
  BY LinkOpen
<1>2. Kept(k.chain[i].run_id)
  BY <1>1, EntryStep DEF Replaced
<1> QED BY <1>1, <1>2 DEF Kept

(* A step of the ledger leaves the part of the invariant that is its own.  *)
LEMMA LedgerSoundStep == LedgerSound /\ LedgerStep => LedgerSound'
<1> SUFFICES ASSUME LedgerSound, LedgerStep PROVE LedgerSound'
  OBVIOUS
<1>0. TypeOK /\ Issued /\ [Next]_vars /\ IInv'
  BY LedgerSteps, InvStep DEF LedgerSound, IInv
<1>1. Plain' /\ Stepped'
  BY <1>0, PlainStep DEF LedgerSound
<1>2. ChainFrozen'
  BY <1>0, ChainFrozenStep DEF LedgerSound
<1>3. ASSUME NEW k \in handles', k \notin handles
      PROVE  /\ Len(k.chain) \in DOMAIN k.chain
             /\ \A i \in DOMAIN k.chain :
                  runs'[k.chain[i].run_id].generation = k.chain[i].generation
  <2>1. PICK rs \in [Runs -> RunState], run \in Runs, estimate \in Money :
          \E path \in Walks(rs, run) :
            Admit(rs, run, estimate, path) /\ k.chain = ChainOf(rs, path)
    BY <1>0, <1>3, HandleOrigin
  <2>2. PICK path \in Walks(rs, run) :
          Admit(rs, run, estimate, path) /\ k.chain = ChainOf(rs, path)
    BY <2>1
  <2>3. /\ path \in Seq(Runs) /\ Len(path) \in Nat \ {0} /\ DOMAIN path = 1 .. Len(path)
        /\ Len(k.chain) = Len(path) /\ DOMAIN k.chain = DOMAIN path
    BY <2>2, WalkShape, ChainShape
  <2>4. ASSUME NEW i \in DOMAIN k.chain
        PROVE  runs'[k.chain[i].run_id].generation = k.chain[i].generation
    <3>1. /\ path[i] \in Runs /\ k.chain[i].run_id = path[i]
          /\ k.chain[i].generation = rs[path[i]].generation
      BY <2>2, <2>3 DEF ChainOf
    <3> QED BY <2>2, <3>1, AdmitEntries
  <2> QED BY <2>3, <2>4
<1>4. NonEmpty'
  BY <1>3 DEF LedgerSound, NonEmpty
<1>5. Current'
  <2> SUFFICES ASSUME NEW k \in handles', NEW i \in DOMAIN k.chain
               PROVE  runs'[k.chain[i].run_id].generation = k.chain[i].generation
    BY DEF Current
  <2>1. CASE k \in handles
    BY <1>0, <2>1, LinkKept DEF LedgerSound
  <2> QED BY <1>3, <2>1
<1> QED BY <1>0, <1>1, <1>2, <1>4, <1>5 DEF LedgerSound

-----------------------------------------------------------------------------
(* What the journal's records say of a run.  The facts about the present   *)
(* state that the replay rests on, as one assumption.                      *)
Replayable ==
  /\ TypeOK /\ Issued /\ ChainFrozen /\ NonEmpty /\ Plain /\ Stepped /\ Current
  /\ journal \subseteq Record
  /\ \A e \in journal : e.run \in handles
  /\ TailsKnown

LEMMA InvReplayable == RestartInv => Replayable
<1>1. RestartInv => \A e \in journal : e.run \in handles
  BY DEF RestartInv, JournalHeld, Outstanding
<1> QED BY <1>1, Zenon DEF RestartInv, LedgerSound, IInv, RestartTypeOK, Replayable

OnChain(e, r) == \E i \in DOMAIN e.run.chain : e.run.chain[i].run_id = r

Recorded(r) == \E e \in journal : OnChain(e, r)

LEMMA RecordIs ==
  ASSUME Replayable, NEW e \in journal
  PROVE  /\ e.run \in handles /\ e.run \in Reservation
         /\ e.tail_parent \in Runs \cup {NoParent}
         /\ e = [run |-> e.run, tail_parent |-> e.tail_parent]
         /\ e.run.id \in 1 .. next_reservation /\ e.run.step \in Nat /\ e.run.step =< e.run.id
         /\ e.run.chain \in Seq(ChainLink) /\ Len(e.run.chain) \in DOMAIN e.run.chain
         /\ DOMAIN e.run.chain = 1 .. Len(e.run.chain) /\ Len(e.run.chain) \in Nat
<1>1. e \in Record /\ e.run \in handles
  BY DEF Replayable
<1>2. /\ e.run \in Reservation
      /\ e.tail_parent \in Runs \cup {NoParent}
      /\ e = [run |-> e.run, tail_parent |-> e.tail_parent]
  BY <1>1 DEF Record
<1>3. e.run.chain \in Seq(ChainLink) /\ e.run.step \in Nat
  BY <1>2 DEF Reservation
<1>4. e.run.id \in 1 .. next_reservation /\ e.run.step =< e.run.id
  BY <1>1 DEF Replayable, Issued, Stepped
<1>5. Len(e.run.chain) \in DOMAIN e.run.chain
  BY <1>1 DEF Replayable, NonEmpty
<1> QED BY <1>1, <1>2, <1>3, <1>4, <1>5

LEMMA RecordLink ==
  ASSUME Replayable, NEW e \in journal, NEW i \in DOMAIN e.run.chain
  PROVE  /\ e.run.chain[i] \in ChainLink
         /\ e.run.chain[i].run_id \in Runs
         /\ e.run.chain[i].generation = runs[e.run.chain[i].run_id].generation
         /\ e.run.chain[i].generation \in 1 .. next_generation
         /\ next_generation \in Nat
BY LinkOpen DEF Replayable, TypeOK

(* A run comes back at the generation it is in, if a record is on it.      *)
LEMMA GenerationIs ==
  ASSUME Replayable, NEW r \in Runs
  PROVE  /\ Recorded(r) => /\ generation_of(journal, r) = runs[r].generation
                           /\ runs[r].generation \in 1 .. next_generation
         /\ ~Recorded(r) => generation_of(journal, r) = 0
<1> DEFINE G == {l.generation : l \in {k \in Links(journal) : k.run_id = r}}
<1>0. generation_of(journal, r) = Highest(G)
  BY Zenon DEF generation_of
<1>1. \A m \in G : /\ m = runs[r].generation /\ m \in 1 .. next_generation
                   /\ next_generation \in Nat
  <2> SUFFICES ASSUME NEW l \in Links(journal), l.run_id = r
               PROVE  /\ l.generation = runs[r].generation /\ l.generation \in 1 .. next_generation
                      /\ next_generation \in Nat
    OBVIOUS
  <2>1. PICK e \in journal : \E i \in DOMAIN e.run.chain : l = e.run.chain[i]
    BY DEF Links
  <2> QED BY <2>1, RecordLink
<1>2. CASE Recorded(r)
  <2>1. PICK e \in journal : \E i \in DOMAIN e.run.chain : e.run.chain[i].run_id = r
    BY <1>2 DEF Recorded, OnChain
  <2>2. \E m : m \in G
    BY <2>1 DEF Links
  <2>3. /\ runs[r].generation \in G /\ runs[r].generation \in Nat
        /\ runs[r].generation \in 1 .. next_generation
    BY <1>1, <2>2
  <2> HIDE DEF G
  <2>4. /\ G \in SUBSET Nat
        /\ \A m \in G : m =< runs[r].generation
    BY <1>1, <2>3
  <2>5. /\ Highest(G) \in G \cup {0}
        /\ \A m \in G : m =< Highest(G)
    BY <2>3, <2>4, HighestIs
  <2>6. Highest(G) = runs[r].generation
    BY <1>1, <2>3, <2>5
  <2> QED BY <1>0, <1>2, <2>3, <2>6
<1>3. CASE ~Recorded(r)
  <2>1. G = {}
    BY <1>3 DEF Links, Recorded, OnChain
  <2> HIDE DEF G
  <2>2. Highest(G) \in G \cup {0}
    BY <2>1, HighestIs
  <2> QED BY <1>0, <1>3, <2>1, <2>2
<1> QED BY <1>2, <1>3

LEMMA CreatedIs ==
  ASSUME Replayable, NEW r \in Runs
  PROVE  r \in Created(journal) <=> Recorded(r)
BY GenerationIs DEF Created

(* Every link is live. *)
LEMMA LiveIs ==
  ASSUME Replayable, NEW e \in journal, NEW r \in Runs
  PROVE  Live(journal, e, r) = {i \in DOMAIN e.run.chain : e.run.chain[i].run_id = r}
<1>1. ASSUME NEW i \in DOMAIN e.run.chain
      PROVE  e.run.chain[i] = [run_id |-> r, generation |-> generation_of(journal, r)]
               <=> e.run.chain[i].run_id = r
  <2>1. /\ e.run.chain[i] \in ChainLink
        /\ e.run.chain[i].generation = runs[e.run.chain[i].run_id].generation
    BY RecordLink
  <2>2. e.run.chain[i] = [run_id |-> e.run.chain[i].run_id,
                          generation |-> e.run.chain[i].generation]
    BY <2>1 DEF ChainLink
  <2>3. e.run.chain[i].run_id = r => generation_of(journal, r) = runs[r].generation
    BY <1>1, GenerationIs DEF Recorded, OnChain
  <2> QED BY <2>1, <2>2, <2>3
<1> QED BY <1>1, Zenon DEF Live

(* Whichever record is read first, the run gets the parent it had.         *)
LEMMA ParentsIs ==
  ASSUME Replayable, NEW r \in Runs, Recorded(r)
  PROVE  Parents(journal, r) = {runs[r].parent}
<1>1. ASSUME NEW e \in journal, NEW i \in Live(journal, e, r)
      PROVE  ParentAt(e, i) = runs[r].parent
  <2>1. i \in DOMAIN e.run.chain /\ e.run.chain[i].run_id = r
    BY <1>1, LiveIs
  <2>2. CASE i + 1 \in DOMAIN e.run.chain
    <3>1. e.run.chain[i].generation = runs[r].generation
      BY <2>1, RecordLink
    <3>2. runs[r].parent = e.run.chain[i + 1].run_id
      BY <2>1, <2>2, <3>1, RecordIs DEF Replayable, ChainFrozen
    <3> QED BY <2>2, <3>2 DEF ParentAt
  <2>3. CASE i + 1 \notin DOMAIN e.run.chain
    <3>1. i = Len(e.run.chain)
      BY <2>1, <2>3, RecordIs
    <3>2. runs[r].parent = e.tail_parent
      BY <2>1, <3>1 DEF Replayable, TailsKnown, TailRun
    <3> QED BY <2>3, <3>2 DEF ParentAt
  <2> QED BY <2>2, <2>3
<1>2. PICK e \in journal : Live(journal, e, r) # {}
  BY LiveIs DEF Recorded, OnChain
<1>3. runs[r].parent # r
  BY DEF Replayable, Plain
<1>4. \A p \in Named(journal, r) : p = runs[r].parent /\ p # NoParent
  BY <1>1 DEF Named
<1>5. CASE runs[r].parent = NoParent
  <2>1. Named(journal, r) = {}
    BY <1>4, <1>5
  <2> QED BY <1>5, <2>1 DEF Parents
<1>6. CASE runs[r].parent # NoParent
  <2>1. PICK i \in Live(journal, e, r) : ParentAt(e, i) = runs[r].parent
    BY <1>1, <1>2
  <2>2. runs[r].parent \in Named(journal, r)
    BY <1>3, <1>6, <2>1 DEF Named
  <2>3. Named(journal, r) = {runs[r].parent}
    BY <1>4, <2>2
  <2> QED BY <2>3 DEF Parents
<1> QED BY <1>5, <1>6

-----------------------------------------------------------------------------
(* The entries the replay leaves: a run some record is on comes back where *)
(* it was in the tree, holding what the records hold on it; any other is   *)
(* gone.                                                                   *)
On(r) == {e \in journal : OnChain(e, r)}

Recreated(s, r) ==
  /\ s.budget = 0 /\ s.spent = 0 /\ ~s.closed /\ s.admitted_ever
  /\ s.parent = runs[r].parent /\ s.generation = runs[r].generation
  /\ s.reserved = SaturatingAdd(0, Cardinality(Tokens({e.run : e \in On(r)})))
  /\ s.steps = Highest({e.run.step : e \in {d \in journal : 1 \in Live(journal, d, r)}})

LEMMA EntriesRestored ==
  ASSUME Replayable, restore_outstanding(journal), NEW r \in Runs
  PROVE  /\ Recorded(r) => /\ Recreated(runs'[r], r)
                           /\ runs'[r] = [budget |-> 0, reserved |-> runs'[r].reserved, spent |-> 0,
                                          steps |-> runs'[r].steps, parent |-> runs'[r].parent,
                                          generation |-> runs'[r].generation,
                                          admitted_ever |-> TRUE, closed |-> FALSE]
         /\ ~Recorded(r) => runs'[r] = Absent
<1>1. PICK parent \in [Runs -> Runs \cup {NoParent}] :
        /\ \A q \in Runs : parent[q] \in IF q \in Created(journal) THEN Parents(journal, q)
                                                                   ELSE {NoParent}
        /\ runs' = [q \in Runs |-> IF q \in Created(journal)
                                   THEN RestoredRun(journal, q, parent[q]) ELSE Absent]
  BY Zenon DEF restore_outstanding
<1>2. CASE Recorded(r)
  <2>1. runs'[r] = RestoredRun(journal, r, parent[r]) /\ parent[r] \in Parents(journal, r)
    BY <1>1, <1>2, CreatedIs
  <2>2. parent[r] = runs[r].parent
    BY <1>2, <2>1, ParentsIs
  <2>3. generation_of(journal, r) = runs[r].generation
    BY <1>2, GenerationIs
  <2>4. {d \in journal : Live(journal, d, r) # {}} = On(r)
    BY LiveIs DEF On, OnChain
  <2>5. RestoredReserved(journal, r) = SaturatingAdd(0, Cardinality(Tokens({e.run : e \in On(r)})))
    BY <2>4, Zenon DEF RestoredReserved
  <2> DEFINE n == RestoredReserved(journal, r)
             m == Highest({e.run.step : e \in {d \in journal : 1 \in Live(journal, d, r)}})
  <2>6. runs'[r] = [Fresh(0, runs[r].parent, runs[r].generation) EXCEPT
                      !.reserved = n, !.steps = m, !.admitted_ever = TRUE]
    BY <2>1, <2>2, <2>3, Zenon DEF RestoredRun
  <2>7. m = Highest({e.run.step : e \in {d \in journal : 1 \in Live(journal, d, r)}})
    OBVIOUS
  <2> HIDE DEF n, m
  <2>8. runs'[r] = [budget |-> 0, reserved |-> n, spent |-> 0, steps |-> m,
                    parent |-> runs[r].parent, generation |-> runs[r].generation,
                    admitted_ever |-> TRUE, closed |-> FALSE]
    BY <2>6 DEF Fresh
  <2> QED BY <1>2, <2>5, <2>7, <2>8 DEF Recreated, n
<1>3. CASE ~Recorded(r)
  BY <1>1, <1>3, CreatedIs
<1> QED BY <1>2, <1>3

(* The counters the replay leaves bound what the records name.             *)
LEMMA CountersRestored ==
  ASSUME Replayable, restore_outstanding(journal)
  PROVE  /\ next_reservation' \in Nat /\ next_generation' \in Nat
         /\ \A e \in journal : e.run.id \in 1 .. next_reservation'
         /\ \A e \in journal : \A i \in DOMAIN e.run.chain :
              e.run.chain[i].generation \in 1 .. next_generation'
         /\ outstanding' = {e.run.id : e \in journal}
         /\ handles' = {e.run : e \in journal}
<1> DEFINE I == {e.run.id : e \in journal}
           G == {l.generation : l \in Links(journal)}
<1>0. /\ outstanding' = I /\ handles' = {e.run : e \in journal}
      /\ next_reservation' = Highest(I) /\ next_generation' = Highest(G)
  BY Zenon DEF restore_outstanding
<1>1. next_reservation \in Nat /\ next_generation \in Nat
  BY DEF Replayable, TypeOK
<1>2. I \in SUBSET Nat /\ (\A m \in I : m =< next_reservation) /\ (\A e \in journal : e.run.id >= 1)
  BY <1>1, RecordIs
<1>3. next_reservation' \in Nat /\ \A m \in I : m =< next_reservation'
  <2> HIDE DEF I
  <2> QED BY <1>0, <1>1, <1>2, HighestIs
<1>4. \A l \in Links(journal) : l.generation \in 1 .. next_generation
  BY RecordLink DEF Links
<1>5. G \in SUBSET Nat /\ \A m \in G : m =< next_generation
  BY <1>1, <1>4
<1>6. next_generation' \in Nat /\ \A m \in G : m =< next_generation'
  <2> HIDE DEF G
  <2> QED BY <1>0, <1>1, <1>5, HighestIs
<1>7. \A l \in Links(journal) : l.generation \in 1 .. next_generation'
  BY <1>1, <1>4, <1>6
<1>8. ASSUME NEW e \in journal, NEW i \in DOMAIN e.run.chain
      PROVE  e.run.chain[i].generation \in 1 .. next_generation'
  BY <1>7 DEF Links
<1>9. \A e \in journal : e.run.id \in 1 .. next_reservation'
  BY <1>1, <1>2, <1>3
<1> QED BY <1>0, <1>3, <1>6, <1>8, <1>9

LEMMA AbsentIs ==
  /\ Absent \in RunState /\ Absent.generation = 0 /\ Absent.reserved = 0 /\ Absent.steps = 0
  /\ ~Absent.closed /\ Absent.parent = NoParent
BY FreshType, MoneyAssumption DEF Absent, Fresh, Money

(* What a recreated entry holds, in the types and within the ids.          *)
LEMMA RecreatedType ==
  ASSUME Replayable, restore_outstanding(journal), NEW r \in Runs, Recorded(r)
  PROVE  /\ runs'[r] \in RunState
         /\ Cardinality(Tokens({e.run : e \in On(r)})) \in Nat
         /\ runs'[r].steps =< next_reservation'
<1> DEFINE H == {e.run : e \in On(r)}
           S == {e.run.step : e \in {d \in journal : 1 \in Live(journal, d, r)}}
<1>0. /\ runs'[r] = [budget |-> 0, reserved |-> runs'[r].reserved, spent |-> 0,
                     steps |-> runs'[r].steps, parent |-> runs'[r].parent,
                     generation |-> runs'[r].generation, admitted_ever |-> TRUE, closed |-> FALSE]
      /\ runs'[r].parent = runs[r].parent /\ runs'[r].generation = runs[r].generation
      /\ runs'[r].reserved = SaturatingAdd(0, Cardinality(Tokens(H)))
      /\ runs'[r].steps = Highest(S)
  BY EntriesRestored DEF Recreated
<1>1. /\ next_reservation \in Nat /\ next_reservation' \in Nat
      /\ \A e \in journal : e.run.id \in 1 .. next_reservation'
      /\ runs[r] \in RunState
  BY CountersRestored DEF Replayable, TypeOK
<1>2. Cardinality(Tokens(H)) \in Nat
  <2>1. H \in SUBSET Reservation /\ \A h \in H : h.id \in 1 .. next_reservation
    BY RecordIs DEF On
  <2> HIDE DEF H
  <2> QED BY <1>1, <2>1, TokensFinite
<1>3. Highest(S) \in Nat /\ Highest(S) =< next_reservation'
  <2>1. S \in SUBSET Nat /\ \A m \in S : m =< next_reservation'
    BY <1>1, RecordIs
  <2> HIDE DEF S
  <2>2. Highest(S) \in S \cup {0} /\ Highest(S) \in Nat
    BY <1>1, <2>1, HighestIs
  <2> QED BY <1>1, <2>1, <2>2
<1> HIDE DEF H, S
<1>4. SaturatingAdd(0, Cardinality(Tokens(H))) \in Money /\ 0 \in Money
  BY <1>2, MoneyAssumption DEF SaturatingAdd, Money
<1>5. runs[r].parent \in Runs \cup {NoParent} /\ runs[r].generation \in Nat
  BY <1>1 DEF RunState
<1>6. runs'[r] \in RunState
  <2>1. ASSUME NEW a \in Money, NEW b \in Nat, NEW p \in Runs \cup {NoParent}, NEW g \in Nat
        PROVE  [budget |-> 0, reserved |-> a, spent |-> 0, steps |-> b, parent |-> p,
                generation |-> g, admitted_ever |-> TRUE, closed |-> FALSE] \in RunState
    BY <1>4 DEF RunState
  <2>2. runs'[r].reserved \in Money
    BY <1>0, <1>4, Zenon
  <2>3. runs'[r].steps \in Nat
    BY <1>0, <1>3, Zenon
  <2>4. runs'[r].parent \in Runs \cup {NoParent} /\ runs'[r].generation \in Nat
    BY <1>0, <1>5, Zenon
  <2> QED BY <1>0, <2>1, <2>2, <2>3, <2>4, Zenon
<1> QED BY <1>0, <1>2, <1>3, <1>6 DEF H

(* Every record's link names the entry its run has after the replay, with  *)
(* the parent it had before.                                               *)
LEMMA LinkRestored ==
  ASSUME Replayable, restore_outstanding(journal), NEW e \in journal,
         NEW i \in DOMAIN e.run.chain
  PROVE  /\ runs'[e.run.chain[i].run_id].generation = e.run.chain[i].generation
         /\ runs'[e.run.chain[i].run_id].parent = runs[e.run.chain[i].run_id].parent
         /\ runs'[e.run.chain[i].run_id].admitted_ever
<1>1. /\ e.run.chain[i].run_id \in Runs
      /\ e.run.chain[i].generation = runs[e.run.chain[i].run_id].generation
  BY RecordLink
<1>2. Recorded(e.run.chain[i].run_id)
  BY DEF Recorded, OnChain
<1> QED BY <1>1, <1>2, EntriesRestored DEF Recreated

(* The types, the ids and the generations after the replay.                *)
LEMMA ReplayIssued ==
  ASSUME Replayable, restore_outstanding(journal)
  PROVE  TypeOK' /\ Issued'
<1>0. /\ next_reservation' \in Nat /\ next_generation' \in Nat
      /\ \A e \in journal : e.run.id \in 1 .. next_reservation'
      /\ \A e \in journal : \A i \in DOMAIN e.run.chain :
           e.run.chain[i].generation \in 1 .. next_generation'
      /\ outstanding' = {e.run.id : e \in journal}
      /\ handles' = {e.run : e \in journal}
  BY CountersRestored
<1>1. \A r \in Runs : runs'[r] \in RunState
  <2> TAKE r \in Runs
  <2>1. CASE Recorded(r)
    BY <2>1, RecreatedType
  <2>2. CASE ~Recorded(r)
    BY <2>2, EntriesRestored, AbsentIs, Zenon
  <2> QED BY <2>1, <2>2
<1>2. runs' \in [Runs -> RunState]
  <2>1. \E f : runs' = [r \in Runs |-> f[r]]
    <3>1. PICK parent \in [Runs -> Runs \cup {NoParent}] :
            runs' = [q \in Runs |-> IF q \in Created(journal)
                                    THEN RestoredRun(journal, q, parent[q]) ELSE Absent]
      BY Zenon DEF restore_outstanding
    <3> QED BY <3>1
  <2> QED BY <1>1, <2>1
<1>3. TypeOK'
  <2>1. handles' \subseteq Reservation
    BY <1>0, RecordIs
  <2>2. outstanding' \subseteq Nat
    BY <1>0
  <2> QED BY <1>0, <1>2, <2>1, <2>2 DEF TypeOK
<1>4. \A h, k \in handles' : h.id = k.id => h = k
  BY <1>0, RecordIs DEF Replayable, Issued
<1>5. \A r \in Runs : runs'[r].generation =< next_generation'
  <2> TAKE r \in Runs
  <2>1. CASE Recorded(r)
    <3>1. PICK e \in journal : \E i \in DOMAIN e.run.chain : e.run.chain[i].run_id = r
      BY <2>1 DEF Recorded, OnChain
    <3>2. PICK i \in DOMAIN e.run.chain : e.run.chain[i].run_id = r
      BY <3>1
    <3>3. runs'[r].generation = e.run.chain[i].generation
      BY <3>2, LinkRestored
    <3> QED BY <1>0, <3>3
  <2>2. CASE ~Recorded(r)
    <3>1. runs'[r].generation = 0
      BY <2>2, EntriesRestored, AbsentIs, Zenon
    <3> QED BY <1>0, <3>1
  <2> QED BY <2>1, <2>2
<1>6. \A h \in handles' : h.id \in 1 .. next_reservation'
  BY <1>0
<1>7. \A h \in handles' : \A i \in DOMAIN h.chain :
        h.chain[i].generation \in 1 .. next_generation'
  BY <1>0
<1>8. outstanding' \subseteq 1 .. next_reservation'
  BY <1>0
<1> QED BY <1>3, <1>4, <1>5, <1>6, <1>7, <1>8 DEF Issued

(* A restored entry holds exactly what the restored handles hold on it, or *)
(* i64::MAX.                                                               *)
LEMMA ReplayBalanced ==
  ASSUME Replayable, restore_outstanding(journal), NEW r \in Runs
  PROVE  Balanced(r)'
<1> DEFINE g == runs'[r].generation
<1>0. /\ outstanding' = {e.run.id : e \in journal}
      /\ handles' = {e.run : e \in journal}
  BY CountersRestored
<1>1. Outstanding' = handles'
  BY <1>0 DEF Outstanding
<1>2. /\ Liability(r)' = Cardinality(Tokens(Holders(handles', r, g)))
      /\ Admitted(r)' = Cardinality(Tokens(Holders(handles', r, g)))
  BY <1>1, HoldersSums, Zenon DEF Held, Ever
<1>3. CASE Recorded(r)
  <2>1. Holders(handles', r, g) = {e.run : e \in On(r)}
    <3>1. ASSUME NEW e \in journal
          PROVE  OnChain(e, r) <=> \E i \in DOMAIN e.run.chain :
                   e.run.chain[i].run_id = r /\ e.run.chain[i].generation = g
      BY LinkRestored DEF OnChain
    <3>2. \A h : h \in Holders(handles', r, g) <=> \E e \in journal : h = e.run /\ OnChain(e, r)
      BY <1>0, <3>1 DEF Holders
    <3> QED BY <3>2 DEF On
  <2>2. /\ runs'[r].reserved = SaturatingAdd(0, Cardinality(Tokens({e.run : e \in On(r)})))
        /\ Cardinality(Tokens({e.run : e \in On(r)})) \in Nat
    BY <1>3, EntriesRestored, RecreatedType DEF Recreated
  <2> DEFINE n == Cardinality(Tokens({e.run : e \in On(r)}))
  <2>3. runs'[r].reserved = SaturatingAdd(0, n) /\ n \in Nat /\ Liability(r)' = n /\ Admitted(r)' = n
    BY <1>2, <2>1, <2>2
  <2> HIDE DEF n
  <2>4. SaturatingAdd(0, n) =< n /\ (n =< MaxMoney => SaturatingAdd(0, n) = n)
    BY <2>3, MoneyAssumption DEF SaturatingAdd
  <2> QED BY <2>3, <2>4 DEF Balanced
<1>4. CASE ~Recorded(r)
  <2>1. runs'[r].reserved = 0
    BY <1>4, EntriesRestored, AbsentIs, Zenon
  <2>2. Holders(handles', r, g) = {}
    BY <1>0, <1>4 DEF Holders, Recorded, OnChain
  <2>3. Cardinality(Tokens({})) = 0
    <3>1. Tokens({}) = {}
      BY DEF Tokens
    <3> QED BY <3>1, FS_EmptySet
  <2>4. Liability(r)' = 0 /\ Admitted(r)' = 0
    BY <1>2, <2>2, <2>3
  <2> QED BY <2>1, <2>4 DEF Balanced
<1> QED BY <1>3, <1>4

(* The whole invariant survives a replay.                                  *)
LEMMA ReplaySound == RestartInv /\ replay_at_startup => LedgerSound' /\ JournalHeld' /\ TailsKnown'
<1> SUFFICES ASSUME RestartInv, replay_at_startup
             PROVE  LedgerSound' /\ JournalHeld' /\ TailsKnown'
  OBVIOUS
<1>0. /\ Replayable /\ restore_outstanding(journal)
      /\ journal' = journal /\ retained' = {e.run : e \in journal}
  BY InvReplayable, Zenon DEF replay_at_startup
<1>1. /\ outstanding' = {e.run.id : e \in journal}
      /\ handles' = {e.run : e \in journal}
  BY <1>0, CountersRestored
<1>2. IInv'
  BY <1>0, ReplayIssued, ReplayBalanced DEF IInv
<1>3. NonEmpty'
  BY <1>0, <1>1, RecordIs DEF NonEmpty
<1>4. Stepped'
  BY <1>0, <1>1, RecordIs DEF Stepped
<1>5. Current'
  BY <1>0, <1>1, LinkRestored DEF Current
<1>6. Plain'
  <2> SUFFICES ASSUME NEW r \in Runs
               PROVE  ~runs'[r].closed /\ runs'[r].parent # r /\ runs'[r].steps =< next_reservation'
    BY DEF Plain
  <2>1. CASE Recorded(r)
    <3>1. runs[r].parent # r
      BY <1>0 DEF Replayable, Plain
    <3> QED BY <1>0, <2>1, <3>1, EntriesRestored, RecreatedType DEF Recreated
  <2>2. CASE ~Recorded(r)
    <3>1. ~runs'[r].closed /\ runs'[r].parent = NoParent /\ runs'[r].steps = 0
      BY <1>0, <2>2, EntriesRestored, AbsentIs, Zenon
    <3>2. next_reservation' \in Nat
      BY <1>0, CountersRestored
    <3> QED BY <3>1, <3>2, RunsAssumption
  <2> QED BY <2>1, <2>2
<1>7. ChainFrozen'
  <2> SUFFICES ASSUME NEW e \in journal, NEW i \in DOMAIN e.run.chain
               PROVE  /\ runs'[e.run.chain[i].run_id].admitted_ever
                      /\ i + 1 \in DOMAIN e.run.chain =>
                           runs'[e.run.chain[i].run_id].parent = e.run.chain[i + 1].run_id
    BY <1>1 DEF ChainFrozen
  <2>1. /\ runs'[e.run.chain[i].run_id].admitted_ever
        /\ runs'[e.run.chain[i].run_id].parent = runs[e.run.chain[i].run_id].parent
    BY <1>0, LinkRestored
  <2>2. runs[e.run.chain[i].run_id].generation = e.run.chain[i].generation /\ e.run \in handles
    BY <1>0, RecordLink, RecordIs
  <2>3. i + 1 \in DOMAIN e.run.chain =>
          runs[e.run.chain[i].run_id].parent = e.run.chain[i + 1].run_id
    BY <1>0, <2>2 DEF Replayable, ChainFrozen
  <2> QED BY <2>1, <2>3
<1>8. JournalHeld'
  BY <1>0, <1>1 DEF JournalHeld, Outstanding
<1>9. TailsKnown'
  <2> SUFFICES ASSUME NEW e \in journal PROVE runs'[TailRun(e.run)].parent = e.tail_parent
    BY <1>0 DEF TailsKnown, TailRun
  <2>1. Len(e.run.chain) \in DOMAIN e.run.chain
    BY <1>0, RecordIs
  <2>2. runs'[TailRun(e.run)].parent = runs[TailRun(e.run)].parent
    BY <1>0, <2>1, LinkRestored DEF TailRun
  <2> QED BY <1>0, <2>2 DEF Replayable, TailsKnown
<1> QED BY <1>2, <1>3, <1>4, <1>5, <1>6, <1>7, <1>8, <1>9 DEF LedgerSound

-----------------------------------------------------------------------------
(* The steps of the process: the ledger moves and the journal only loses   *)
(* what is no longer retained, a guard retains, or a new process replays.  *)
Calling ==
  /\ LedgerStep
  /\ retained' \subseteq retained /\ retained' \subseteq Outstanding'
  /\ journal' = {e \in journal : e.run \in retained'}
  /\ restarts' = restarts

LEMMA ProcessStep ==
  ASSUME RestartInv, [RestartNext]_rvars
  PROVE  \/ Calling
         \/ \E h \in InFlight, written \in BOOLEAN : retain(h, written)
         \/ replay_at_startup
<1>0. /\ retained \subseteq Outstanding /\ journal = {e \in journal : e.run \in retained}
      /\ \A h, k \in handles : h.id = k.id => h = k
  BY DEF RestartInv, RestartTypeOK, JournalHeld, LedgerSound, IInv, Issued
<1>1. ASSUME LedgerStep, UNCHANGED <<retained, journal, restarts>>,
             handles \subseteq handles', outstanding \subseteq outstanding'
      PROVE  Calling
  BY <1>0, <1>1 DEF Calling, Outstanding
<1>2. ASSUME NEW h \in handles, NEW actual \in Costs, settle(h, actual),
             retained' = retained \ {h}, journal' = {e \in journal : e.run # h},
             restarts' = restarts
      PROVE  Calling
  <2>1. LedgerStep
    BY <1>2, Zenon DEF LedgerStep
  <2>2. handles' = handles /\ outstanding' = outstanding \ {h.id}
    BY <1>2, Zenon DEF settle
  <2>3. retained' \subseteq Outstanding'
    BY <1>0, <1>2, <2>2 DEF Outstanding
  <2>4. journal' = {e \in journal : e.run \in retained'}
    BY <1>0, <1>2
  <2> QED BY <1>2, <2>1, <2>3, <2>4 DEF Calling
<1>3. ASSUME NEW rs, NEW run, NEW estimate, NEW path, Admit(rs, run, estimate, path)
      PROVE  handles \subseteq handles' /\ outstanding \subseteq outstanding'
  <2>1. /\ \E k : handles' = handles \cup {k}
        /\ \E n : outstanding' = outstanding \cup {n}
    BY <1>3, Zenon DEF Admit
  <2> QED BY <2>1
<1>4. ASSUME NEW run \in Runs, NEW budget \in Budgets, NEW parent \in Runs \cup {NoParent},
             NEW basis \in {"Caller", "Operator"}, open_run_as(run, budget, parent, basis)
      PROVE  LedgerStep /\ handles \subseteq handles' /\ outstanding \subseteq outstanding'
  <2>1. handles' = handles /\ outstanding' = outstanding
    BY <1>4 DEF open_run_as, open_fresh, open_held
  <2>2. LedgerStep
    BY <1>4, Zenon DEF LedgerStep
  <2> QED BY <2>1, <2>2
<1>5. ASSUME UNCHANGED vars
      PROVE  LedgerStep /\ handles \subseteq handles' /\ outstanding \subseteq outstanding'
  BY <1>5 DEF LedgerStep, vars
<1>6. ASSUME NEW q \in Requests, NEW run \in Runs, NEW declared \in Budgets,
             NEW parent \in Runs \cup {NoParent}, Arrive(q, run, declared, parent)
      PROVE  Calling
  <2>1. UNCHANGED <<retained, journal, restarts>>
    BY <1>6 DEF Arrive
  <2>2. CASE parent \in Runs \ {run} /\ GivesParent(parent)
    <3>1. CloudBudget[parent] \in Budgets /\ NoParent \in Runs \cup {NoParent} /\ parent \in Runs
      BY <2>2, RestartAssumption DEF GivesParent
    <3>2. open_run_as(parent, CloudBudget[parent], NoParent, "Operator")
      BY <1>6, <2>2, Zenon DEF Arrive
    <3> QED BY <1>1, <1>4, <2>1, <3>1, <3>2
  <2>3. CASE ~(parent \in Runs \ {run} /\ GivesParent(parent))
    <3>1. UNCHANGED vars
      BY <1>6, <2>3, Zenon DEF Arrive
    <3> QED BY <1>1, <1>5, <2>1, <3>1
  <2> QED BY <2>2, <2>3
<1>7. ASSUME NEW q \in Requests, Open(q) PROVE Calling
  <2>1. UNCHANGED <<retained, journal, restarts>>
    BY <1>7 DEF Open
  <2>2. CASE UNCHANGED vars
    BY <1>1, <1>5, <2>1, <2>2
  <2>3. CASE ~UNCHANGED vars
    <3>1. /\ requests[q] # Idle
          /\ open_run_as(requests[q].run, requests[q].budget, requests[q].parent, requests[q].basis)
      BY <1>7, <2>3, Zenon DEF Open
    <3>2. requests[q] \in Call
      BY <3>1 DEF RestartInv, RestartTypeOK
    <3>3. /\ requests[q].run \in Runs /\ requests[q].budget \in Budgets
          /\ requests[q].parent \in Runs \cup {NoParent}
          /\ requests[q].basis \in {"Caller", "Operator"}
      BY <3>2 DEF Call
    <3> QED BY <1>1, <1>4, <2>1, <3>1, <3>3
  <2> QED BY <2>2, <2>3
<1>8. ASSUME NEW q \in Requests, NEW estimate \in Amounts, Reserve(q, estimate) PROVE Calling
  <2>1. UNCHANGED <<retained, journal, restarts>>
    BY <1>8 DEF Reserve
  <2>2. requests[q].run \in Runs
    <3>1. requests[q] # Idle
      BY <1>8, Zenon DEF Reserve
    <3>2. requests[q] \in Call
      BY <3>1 DEF RestartInv, RestartTypeOK
    <3> QED BY <3>2 DEF Call
  <2>3. CASE reserve(requests[q].run, estimate)
    <3>1. LedgerStep
      BY <2>2, <2>3, Zenon DEF LedgerStep
    <3>2. \E path : Admit(runs, requests[q].run, estimate, path)
      BY <2>3, Zenon DEF reserve
    <3> QED BY <1>1, <1>3, <2>1, <3>1, <3>2
  <2>4. CASE reserve_unchecked(requests[q].run, estimate)
    <3>1. LedgerStep
      BY <2>2, <2>4, Zenon DEF LedgerStep
    <3>2. \E rs, path : Admit(rs, requests[q].run, estimate, path)
      BY <2>4, Zenon DEF reserve_unchecked
    <3> QED BY <1>1, <1>3, <2>1, <3>1, <3>2
  <2>5. CASE UNCHANGED vars
    BY <1>1, <1>5, <2>1, <2>5
  <2> QED BY <1>8, <2>3, <2>4, <2>5, Zenon DEF Reserve
<1>9. ASSUME NEW h \in InFlight, NEW actual \in Costs, settle(h, actual), UNCHANGED process
      PROVE  Calling
  <2>1. h \in handles /\ h \notin retained /\ UNCHANGED <<retained, journal, restarts>>
    BY <1>9 DEF InFlight, process
  <2>2. retained' = retained \ {h} /\ journal' = {e \in journal : e.run # h}
    BY <1>0, <2>1
  <2> QED BY <1>2, <1>9, <2>1, <2>2
<1>10. ASSUME NEW h \in handles, NEW settled \in Costs, close_retained(h, settled)
       PROVE  Calling
  <2>1. /\ settle(h, settled) /\ retained' = retained \ {h}
        /\ journal' = {e \in journal : e.run # h} /\ restarts' = restarts
    BY <1>10 DEF close_retained
  <2> QED BY <1>2, <2>1
<1>11. ASSUME NEW run \in Runs, NEW amount \in Costs, NEW generation \in 1 .. MaxGenerations,
              seed_spend(run, amount, generation), UNCHANGED process
       PROVE  Calling
  <2>1. handles' = handles /\ outstanding' = outstanding
    BY <1>11 DEF seed_spend
  <2>2. LedgerStep
    BY <1>11, Zenon DEF LedgerStep
  <2>3. UNCHANGED <<retained, journal, restarts>>
    BY <1>11 DEF process
  <2> QED BY <1>1, <2>1, <2>2, <2>3
<1>12. ASSUME UNCHANGED rvars PROVE Calling
  <2>1. UNCHANGED vars /\ UNCHANGED <<retained, journal, restarts>>
    BY <1>12 DEF rvars, vars
  <2> QED BY <1>1, <1>5, <2>1
<1> QED
  BY <1>6, <1>7, <1>8, <1>9, <1>10, <1>11, <1>12, Zenon DEF RestartNext

(* The variables only the process moves keep their types.                  *)
LEMMA ProcessTypes ==
  ASSUME RestartTypeOK, [RestartNext]_rvars
  PROVE  /\ restored_unbudgeted' \subseteq Runs
         /\ requests' \in [Requests -> Call \cup {Idle}]
         /\ enforce' \in BOOLEAN
<1>0. /\ restored_unbudgeted \subseteq Runs /\ requests \in [Requests -> Call \cup {Idle}]
      /\ enforce \in BOOLEAN
  BY DEF RestartTypeOK
<1>1. ASSUME NEW q \in Requests, NEW run \in Runs, NEW declared \in Budgets,
             NEW parent \in Runs \cup {NoParent}, Arrive(q, run, declared, parent)
      PROVE  /\ restored_unbudgeted' \subseteq Runs
             /\ requests' \in [Requests -> Call \cup {Idle}] /\ enforce' = enforce
  <2> DEFINE call == [at |-> "opening", run |-> run, parent |-> parent,
                      budget |-> IF CloudBudget[run] # NoBudget THEN CloudBudget[run] ELSE declared,
                      basis |-> IF CloudBudget[run] # NoBudget THEN "Operator" ELSE "Caller"]
  <2>1. requests' = [requests EXCEPT ![q] = call] /\ enforce' = enforce
    BY <1>1, Zenon DEF Arrive
  <2>2. call \in Call
    BY RestartAssumption DEF Call
  <2>3. restored_unbudgeted' \subseteq restored_unbudgeted
    BY <1>1 DEF Arrive
  <2> HIDE DEF call
  <2> QED BY <1>0, <2>1, <2>2, <2>3
<1>2. ASSUME NEW q \in Requests, Open(q)
      PROVE  /\ restored_unbudgeted' \subseteq Runs
             /\ requests' \in [Requests -> Call \cup {Idle}] /\ enforce' = enforce
  <2>1. /\ requests' = [requests EXCEPT ![q].at = "reserving"] \/ requests' = [requests EXCEPT ![q] = Idle]
        /\ requests[q] # Idle /\ restored_unbudgeted' \subseteq restored_unbudgeted
        /\ enforce' = enforce
    BY <1>2 DEF Open
  <2>2. [requests[q] EXCEPT !.at = "reserving"] \in Call
    BY <1>0, <2>1 DEF Call
  <2> QED BY <1>0, <2>1, <2>2
<1>3. ASSUME NEW q \in Requests, NEW estimate \in Amounts, Reserve(q, estimate)
      PROVE  /\ restored_unbudgeted' \subseteq Runs
             /\ requests' \in [Requests -> Call \cup {Idle}] /\ enforce' = enforce
  <2>1. /\ requests' = [requests EXCEPT ![q] = Idle]
        /\ restored_unbudgeted' = restored_unbudgeted /\ enforce' = enforce
    BY <1>3 DEF Reserve
  <2> QED BY <1>0, <2>1
<1>4. CASE replay_at_startup
  <2>1. /\ restored_unbudgeted' = Created(journal) /\ enforce' \in BOOLEAN
        /\ requests' = [q \in Requests |-> Idle]
    BY <1>4, Zenon DEF replay_at_startup
  <2> QED BY <2>1 DEF Created
<1>5. CASE UNCHANGED <<restored_unbudgeted, requests, enforce>>
  BY <1>0, <1>5
<1>6. ASSUME NEW h, NEW settled, close_retained(h, settled)
      PROVE  UNCHANGED <<restored_unbudgeted, requests, enforce>>
  BY <1>6 DEF close_retained
<1>7. ASSUME NEW h, NEW written, retain(h, written)
      PROVE  UNCHANGED <<restored_unbudgeted, requests, enforce>>
  BY <1>7 DEF retain
<1>8. ASSUME UNCHANGED process \/ UNCHANGED rvars
      PROVE  UNCHANGED <<restored_unbudgeted, requests, enforce>>
  BY <1>8 DEF process, rvars
<1> QED
  BY <1>0, <1>1, <1>2, <1>3, <1>4, <1>5, <1>6, <1>7, <1>8 DEF RestartNext

(* A guard's record names the parent its run has.                          *)
LEMMA RetainSound ==
  ASSUME RestartInv, NEW h \in InFlight, NEW written \in BOOLEAN, retain(h, written)
  PROVE  /\ LedgerSound' /\ JournalHeld' /\ TailsKnown'
         /\ retained' \subseteq Outstanding' /\ journal' \subseteq Record
<1> DEFINE e == [run |-> h, tail_parent |-> tail_parent(h)]
<1>0. /\ UNCHANGED vars /\ retained' = retained \cup {h}
      /\ journal' = IF written THEN journal \cup {e} ELSE journal
  BY Zenon DEF retain
<1>1. UNCHANGED <<runs, next_generation, next_reservation, outstanding, handles>>
  BY <1>0 DEF vars
<1>2. LedgerSound'
  BY <1>0, LedgerSoundStep DEF RestartInv, LedgerStep
<1>3. h \in handles /\ h \in Outstanding /\ h \in Reservation
  BY DEF InFlight, Outstanding, RestartInv, RestartTypeOK, TypeOK
<1>4. Len(h.chain) \in DOMAIN h.chain
  BY <1>3 DEF RestartInv, LedgerSound, NonEmpty
<1>5. /\ TailRun(h) \in Runs
      /\ runs[TailRun(h)].generation = h.chain[Len(h.chain)].generation
  BY <1>3, <1>4, LinkOpen DEF RestartInv, LedgerSound, IInv, TailRun
<1>6. tail_parent(h) = runs[TailRun(h)].parent
  BY <1>5 DEF tail_parent, TailRun
<1>7. runs[TailRun(h)].parent \in Runs \cup {NoParent}
  BY <1>5 DEF RestartInv, RestartTypeOK, TypeOK, RunState
<1>8. e \in Record /\ e.run = h /\ e.tail_parent = runs[TailRun(h)].parent
  BY <1>3, <1>6, <1>7 DEF Record
<1> HIDE DEF e
<1>9. journal' \subseteq Record
  BY <1>0, <1>8 DEF RestartInv, RestartTypeOK
<1>10. Outstanding' = Outstanding
  BY <1>1 DEF Outstanding
<1>11. retained' \subseteq Outstanding'
  BY <1>0, <1>3, <1>10 DEF RestartInv, RestartTypeOK
<1>12. JournalHeld'
  BY <1>0, <1>3, <1>8, <1>10 DEF RestartInv, JournalHeld
<1>13. TailsKnown'
  BY <1>0, <1>1, <1>8 DEF RestartInv, TailsKnown, TailRun
<1> QED BY <1>2, <1>9, <1>11, <1>12, <1>13

(* A call or a closure leaves the journal sound.                           *)
LEMMA CallingSound ==
  ASSUME RestartInv, Calling
  PROVE  /\ LedgerSound' /\ JournalHeld' /\ TailsKnown'
         /\ retained' \subseteq Outstanding' /\ journal' \subseteq Record
<1>0. /\ LedgerStep /\ retained' \subseteq Outstanding'
      /\ journal' = {e \in journal : e.run \in retained'}
      /\ TypeOK /\ Issued /\ Plain /\ Current /\ ChainFrozen /\ NonEmpty /\ [Next]_vars
  BY LedgerSteps DEF Calling, RestartInv, LedgerSound, IInv
<1>1. LedgerSound'
  BY <1>0, LedgerSoundStep DEF RestartInv
<1>2. JournalHeld'
  BY <1>0 DEF JournalHeld
<1>3. TailsKnown'
  <2> SUFFICES ASSUME NEW e \in journal
               PROVE  runs'[TailRun(e.run)].parent = e.tail_parent
    BY <1>0 DEF TailsKnown, TailRun
  <2>1. e.run \in handles
    BY DEF RestartInv, JournalHeld, Outstanding
  <2>2. Len(e.run.chain) \in DOMAIN e.run.chain
    BY <1>0, <2>1 DEF NonEmpty
  <2>3. runs[TailRun(e.run)].generation = e.run.chain[Len(e.run.chain)].generation
    BY <1>0, <2>1, <2>2, LinkOpen DEF TailRun
  <2>4. runs[TailRun(e.run)].admitted_ever
    BY <1>0, <2>1, <2>2, <2>3 DEF ChainFrozen, TailRun
  <2>5. Kept(TailRun(e.run))
    BY <1>0, <2>1, <2>2, LinkKept DEF TailRun
  <2> QED BY <2>4, <2>5 DEF Kept, RestartInv, TailsKnown
<1>4. journal' \subseteq Record
  BY <1>0 DEF RestartInv, RestartTypeOK
<1> QED BY <1>0, <1>1, <1>2, <1>3, <1>4

(* Every step of the process keeps the invariant. *)
LEMMA RestartStep == RestartInv /\ [RestartNext]_rvars => RestartInv'
<1> SUFFICES ASSUME RestartInv, [RestartNext]_rvars PROVE RestartInv'
  OBVIOUS
<1>1. /\ restored_unbudgeted' \subseteq Runs
      /\ requests' \in [Requests -> Call \cup {Idle}] /\ enforce' \in BOOLEAN
  BY ProcessTypes DEF RestartInv
<1>2. ASSUME LedgerSound', JournalHeld', TailsKnown', retained' \subseteq Outstanding',
             journal' \subseteq Record
      PROVE  RestartInv'
  BY <1>1, <1>2 DEF RestartInv, RestartTypeOK, LedgerSound, IInv
<1>3. CASE Calling
  BY <1>2, <1>3, CallingSound
<1>4. ASSUME NEW h \in InFlight, NEW written \in BOOLEAN, retain(h, written) PROVE RestartInv'
  BY <1>2, <1>4, RetainSound
<1>5. CASE replay_at_startup
  <2>1. LedgerSound' /\ JournalHeld' /\ TailsKnown'
    BY <1>5, ReplaySound
  <2>2. journal' = journal /\ retained' = {e.run : e \in journal}
    BY <1>5, Zenon DEF replay_at_startup
  <2>3. retained' \subseteq Outstanding'
    BY <2>1, <2>2 DEF JournalHeld
  <2> QED BY <1>2, <2>1, <2>2, <2>3 DEF RestartInv, RestartTypeOK
<1> QED BY <1>3, <1>4, <1>5, ProcessStep

LEMMA RestartStart == RestartInit => RestartInv
<1> SUFFICES ASSUME RestartInit PROVE RestartInv
  OBVIOUS
<1>1. IInv
  BY InvInit DEF RestartInit
<1>2. /\ handles = {} /\ outstanding = {} /\ journal = {} /\ retained = {}
      /\ restored_unbudgeted = {} /\ requests = [q \in Requests |-> Idle] /\ enforce \in BOOLEAN
      /\ next_reservation = 0 /\ runs = [r \in Runs |-> Absent]
  BY DEF RestartInit, Init
<1>3. Plain
  BY <1>2, AbsentIs, RunsAssumption DEF Plain
<1>4. ChainFrozen /\ NonEmpty /\ Stepped /\ Current /\ JournalHeld /\ TailsKnown
  BY <1>2 DEF ChainFrozen, NonEmpty, Stepped, Current, JournalHeld, TailsKnown
<1>5. RestartTypeOK
  BY <1>1, <1>2 DEF RestartTypeOK, IInv
<1> QED BY <1>1, <1>3, <1>4, <1>5 DEF RestartInv, LedgerSound

(* The inductive invariant: the ledger's own, the frozen chains, and what  *)
(* the records know of the tree, across any number of restarts.            *)
THEOREM RestartInvHolds == RestartSpec => []RestartInv
BY RestartStart, RestartStep, PTL DEF RestartSpec

(* Every field keeps its type and what is retained is outstanding, in      *)
(* every process a replay starts.                                          *)
THEOREM RestartTypeCorrect == RestartSpec => []RestartTypeOK
<1>1. RestartInv => RestartTypeOK
  BY DEF RestartInv
<1> QED BY <1>1, RestartInvHolds, PTL

(* What the ledger promises of one process holds across restarts: a run    *)
(* rebuilt by restore_outstanding never holds more reserved than its       *)
(* outstanding reservations add up to, exactly that sum below i64::MAX,    *)
(* and the chains read back from disk are the tree's.                      *)
THEOREM LedgerSurvives == RestartSpec => [](ReservedCovered /\ ReservedExact /\ ChainFrozen)
<1>1. RestartInv => ReservedCovered /\ ReservedExact /\ ChainFrozen
  BY DEF RestartInv, LedgerSound, IInv, Balanced, ReservedCovered, ReservedExact
<1> QED BY <1>1, RestartInvHolds, PTL

(* No two open records share an id, every one is outstanding and open to   *)
(* closure, and a restart forgets no liability of a record and moves no    *)
(* run it recreates.                                                       *)
THEOREM JournalIsKept == RestartSpec => JournalKept
<1>1. RestartInv => JournalIdsUnique /\ JournalHeld
  <2> SUFFICES ASSUME RestartInv, NEW d \in journal, NEW e \in journal, d.run.id = e.run.id
               PROVE  d = e
    BY DEF JournalIdsUnique, RestartInv
  <2>1. Replayable
    BY InvReplayable
  <2>2. d.run = e.run
    BY <2>1, RecordIs DEF Replayable, Issued
  <2>3. d.tail_parent = e.tail_parent
    BY <2>1, <2>2 DEF Replayable, TailsKnown
  <2> QED BY <2>1, <2>2, <2>3, RecordIs
<1>2. RestartInv /\ [RestartNext]_rvars => [LiabilityKept]_rvars
  <2> SUFFICES ASSUME RestartInv, [RestartNext]_rvars, restarts' # restarts,
                      NEW e \in journal, NEW r \in Runs, Holds(e.run, r, runs)
               PROVE  Holds(e.run, r, runs') /\ runs'[r].parent = runs[r].parent
    BY DEF LiabilityKept
  <2>1. Replayable
    BY InvReplayable
  <2>2. replay_at_startup
    BY ProcessStep DEF Calling, retain
  <2>3. restore_outstanding(journal)
    BY <2>2, Zenon DEF replay_at_startup
  <2>4. PICK i \in DOMAIN e.run.chain : e.run.chain[i].run_id = r
    BY DEF Holds
  <2>5. /\ runs'[r].generation = e.run.chain[i].generation
        /\ runs'[r].parent = runs[r].parent
    BY <2>1, <2>3, <2>4, LinkRestored
  <2> QED BY <2>4, <2>5 DEF Holds
<1> QED BY <1>1, <1>2, RestartInvHolds, PTL DEF RestartSpec, JournalKept
-----------------------------------------------------------------------------
(* The least of some naturals. *)
LEMMA LeastIs ==
  ASSUME NEW S \in SUBSET Nat, S # {}
  PROVE  \E x \in S : \A y \in S : x =< y
<1> DEFINE R == OpToRel(<, Nat)
<1>1. IsWellFoundedOn(R, Nat)
  BY NatLessThanWellFounded, Zenon
<1>2. \A x, y \in Nat : x < y => <<x, y>> \in R
  BY Zenon DEF OpToRel
<1> HIDE DEF R
<1>3. PICK x \in S : \A y \in S : ~(<<y, x>> \in R)
  BY <1>1, WFMin, Zenon
<1>4. \A y \in S : ~(y < x)
  BY <1>2, <1>3, Zenon
<1>5. \A y \in S : x =< y
  BY <1>4
<1> QED BY <1>5

-----------------------------------------------------------------------------
(* The parts of the run owners' invariant.  What the lines of a run name   *)
(* is one owner, and the map of a running process has it.                  *)
OwnerLine == [run : OwnedRuns \cup {Nobody}, owner : Principals \cup {Nobody}]
PendingClaim == [run : OwnedRuns, who : Principals, stage : {"appending"}]

OwnerTypes ==
  /\ owners \in [OwnedRuns -> Principals \cup {Nobody}]
  /\ claims \in [Calls -> PendingClaim \cup {NoClaim}]
  /\ file \in Seq(OwnerLine)
  /\ {ragged, unlinked, serving, hurt} \subseteq BOOLEAN
  /\ letin \in [OwnedRuns -> SUBSET Principals]
  /\ kept \in [OwnedRuns -> SUBSET Principals]

NamesOwner(ls, r, p) == \E i \in DOMAIN ls : ls[i] = [run |-> r, owner |-> p]

FileOwnsOnce(ls) ==
  \A r \in OwnedRuns, p, q \in Principals : NamesOwner(ls, r, p) /\ NamesOwner(ls, r, q) => p = q

MapHasFile(ls, map) == \A r \in OwnedRuns, p \in Principals : NamesOwner(ls, r, p) => map[r] = p

KeptOnDisk(ls, k) == \A r \in OwnedRuns, p \in Principals : p \in k[r] => NamesOwner(ls, r, p)

ClaimsHeld == \A c \in Calls : claims[c] \in PendingClaim => serving /\ owners[claims[c].run] = claims[c].who

InOwners == \A r \in OwnedRuns : letin[r] \subseteq (IF serving THEN {owners[r]} ELSE {})

(* As long as no write of this life failed, an append ends in a line of    *)
(* its own in the file that has the name.                                  *)
HandleGood == serving /\ ~hurt => ~ragged /\ ~unlinked

OwnersInv ==
  /\ OwnerTypes
  /\ FileOwnsOnce(file)
  /\ serving => MapHasFile(file, owners)
  /\ KeptOnDisk(file, kept)
  /\ ClaimsHeld
  /\ InOwners
  /\ HandleGood

-----------------------------------------------------------------------------
LEMMA AppendedLine ==
  ASSUME NEW S, NEW s \in Seq(S), NEW x \in S
  PROVE  /\ Append(s, x) \in Seq(S)
         /\ \A r, p : NamesOwner(Append(s, x), r, p)
                        <=> NamesOwner(s, r, p) \/ x = [run |-> r, owner |-> p]
<1> DEFINE t == Append(s, x)
<1>1. t \in Seq(S) /\ Len(t) = Len(s) + 1 /\ t[Len(s) + 1] = x /\ \A i \in 1 .. Len(s) : t[i] = s[i]
  OBVIOUS
<1>2. DOMAIN s = 1 .. Len(s) /\ DOMAIN t = 1 .. Len(s) + 1 /\ Len(s) \in Nat
  BY <1>1
<1>3. DOMAIN t = DOMAIN s \cup {Len(s) + 1}
  BY <1>2
<1> HIDE DEF t
<1>4. ASSUME NEW r, NEW p
      PROVE  NamesOwner(t, r, p) <=> NamesOwner(s, r, p) \/ x = [run |-> r, owner |-> p]
  <2>1. \A i \in DOMAIN s : t[i] = s[i]
    BY <1>1, <1>2
  <2> QED BY <2>1, <1>1, <1>3, Zenon DEF NamesOwner
<1> QED BY <1>1, <1>4 DEF t

(* A line nobody can read names nobody. *)
LEMMA LinedIs ==
  ASSUME OwnerTypes, NEW r \in OwnedRuns, NEW p \in Principals
  PROVE  /\ Lined(r, p) \in Seq(OwnerLine)
         /\ \A q \in OwnedRuns, o \in Principals :
              NamesOwner(Lined(r, p), q, o) <=>
                NamesOwner(file, q, o) \/ (~unlinked /\ ~ragged /\ q = r /\ o = p)
<1> DEFINE x == IF ragged THEN [run |-> r, owner |-> Nobody] ELSE [run |-> r, owner |-> p]
<1>1. x \in OwnerLine /\ file \in Seq(OwnerLine) /\ Nobody \notin Principals
  BY RunOwnersAssumption DEF OwnerLine, OwnerTypes
<1>2. \A q \in OwnedRuns, o \in Principals : x = [run |-> q, owner |-> o] <=> ~ragged /\ q = r /\ o = p
  BY <1>1
<1>3. Lined(r, p) = IF unlinked THEN file ELSE Append(file, x)
  BY Zenon DEF Lined
<1> HIDE DEF x
<1>4. CASE unlinked
  BY <1>1, <1>3, <1>4
<1>5. CASE ~unlinked
  <2>1. Lined(r, p) = Append(file, x)
    BY <1>3, <1>5
  <2>2. Append(file, x) \in Seq(OwnerLine)
    BY <1>1
  <2>3. \A q, o : NamesOwner(Append(file, x), q, o) <=> NamesOwner(file, q, o) \/ x = [run |-> q, owner |-> o]
    BY <1>1, AppendedLine
  <2> QED BY <2>1, <2>2, <2>3, <1>2, <1>5, Zenon
<1> QED BY <1>4, <1>5

(* The first line that names an owner of r is one that does. *)
LEMMA DistinctIs ==
  ASSUME OwnerTypes, FileOwnsOnce(file)
  PROVE  /\ distinct \in [OwnedRuns -> Principals \cup {Nobody}]
         /\ \A r \in OwnedRuns, p \in Principals : NamesOwner(file, r, p) <=> distinct[r] = p
<1>1. /\ DOMAIN file = 1 .. Len(file) /\ Len(file) \in Nat
      /\ \A i \in DOMAIN file : file[i] \in OwnerLine
      /\ Nobody \notin Principals
  BY RunOwnersAssumption DEF OwnerTypes
<1>2. ASSUME NEW r \in OwnedRuns
      PROVE  /\ distinct[r] \in Principals \cup {Nobody}
             /\ \A p \in Principals : NamesOwner(file, r, p) <=> distinct[r] = p
  <2> DEFINE T == {i \in DOMAIN file : Names(i, r)}
             First(i) == Names(i, r) /\ \A j \in 1 .. i - 1 : ~Names(j, r)
             f == CHOOSE i \in DOMAIN file : First(i)
  <2>2. \A p \in Principals : NamesOwner(file, r, p) <=> \E i \in T : file[i].owner = p
    BY <1>1 DEF NamesOwner, Names, OwnerLine
  <2>3. \A i \in T : file[i].owner \in Principals
    BY <1>1 DEF Names, OwnerLine
  <2>4. distinct[r] = IF T = {} THEN Nobody ELSE file[f].owner
    <3>1. T = {} <=> ~\E i \in DOMAIN file : Names(i, r)
      OBVIOUS
    <3> HIDE DEF T
    <3>2. distinct[r] = IF \E i \in DOMAIN file : Names(i, r) THEN file[f].owner ELSE Nobody
      BY Zenon DEF distinct
    <3> QED BY <3>1, <3>2, Zenon
  <2>5. CASE T = {}
    BY <1>1, <2>2, <2>4, <2>5
  <2>6. CASE T # {}
    <3>1. T \in SUBSET Nat
      BY <1>1
    <3>2. PICK i \in T : \A j \in T : i =< j
      BY <3>1, <2>6, LeastIs
    <3>3. First(i)
      BY <3>1, <3>2, <1>1
    <3>4. f \in DOMAIN file /\ First(f)
      BY <3>3, Zenon
    <3>5. f \in T
      BY <3>4
    <3>6. distinct[r] = file[f].owner
      BY <2>4, <2>6
    <3> HIDE DEF f, First, T
    <3>7. NamesOwner(file, r, distinct[r]) /\ distinct[r] \in Principals
      BY <2>2, <2>3, <3>5, <3>6
    <3> QED BY <3>7, Zenon DEF FileOwnsOnce
  <2> QED BY <2>5, <2>6
<1> QED BY <1>2 DEF distinct

(* The rewritten file names what the old one named. *)
LEMMA RewrittenIs ==
  ASSUME OwnerTypes, FileOwnsOnce(file)
  PROVE  /\ rewritten \in Seq(OwnerLine)
         /\ \A r \in OwnedRuns, p \in Principals : NamesOwner(rewritten, r, p) <=> NamesOwner(file, r, p)
<1> DEFINE Q == {q \in OwnedRuns : distinct[q] # Nobody}
           L == {[run |-> r, owner |-> distinct[r]] : r \in Q}
           n == Cardinality(L)
<1>1. /\ distinct \in [OwnedRuns -> Principals \cup {Nobody}]
      /\ \A r \in OwnedRuns, p \in Principals : NamesOwner(file, r, p) <=> distinct[r] = p
      /\ Nobody \notin Principals
  BY DistinctIs, RunOwnersAssumption
<1>2. IsFiniteSet(L)
  <2>1. IsFiniteSet(Q)
    BY RunOwnersAssumption, FS_Subset
  <2> DEFINE f == [r \in Q |-> [run |-> r, owner |-> distinct[r]]]
  <2>2. f \in Surjection(Q, L)
    BY DEF Surjection
  <2> QED BY <2>1, <2>2, FS_Surjection, Zenon
<1> HIDE DEF n, L
<1> HIDE DEF n, L
<1>3. n \in Nat /\ ExistsBijection(1 .. n, L)
  BY <1>2, FS_CardinalityType DEF n
<1>4. PICK g : g \in [1 .. n -> L] /\ IsInjective(g)
  BY <1>3 DEF ExistsBijection, Bijection, Injection, IsInjective
<1> DEFINE h == rewritten
<1>5. h = CHOOSE f \in [1 .. n -> L] : IsInjective(f)
  BY Zenon DEF rewritten, SetToSeq, L, n
<1> HIDE DEF h
<1>6. h \in [1 .. n -> L] /\ IsInjective(h)
  BY <1>4, <1>5, Zenon
<1>7. h \in Surjection(1 .. n, L)
  <2>1. IsFiniteSet(1 .. n) /\ Cardinality(1 .. n) = n
    BY <1>3, FS_Interval
  <2>2. h \in Injection(1 .. n, L)
    BY <1>6 DEF Injection, IsInjective
  <2> QED BY <1>2, <2>1, <2>2, FS_Injection DEF n
<1>8. L \subseteq OwnerLine
  BY <1>1 DEF L, OwnerLine
<1>9. h \in Seq(OwnerLine) /\ DOMAIN h = 1 .. n
  BY <1>3, <1>6, <1>8
<1>10. ASSUME NEW r \in OwnedRuns, NEW p \in Principals
       PROVE  NamesOwner(h, r, p) <=> NamesOwner(file, r, p)
  <2>1. [run |-> r, owner |-> p] \in L <=> distinct[r] = p
    BY <1>1 DEF L
  <2>2. \A x : x \in L <=> \E i \in 1 .. n : h[i] = x
    BY <1>6, <1>7 DEF Surjection
  <2>3. NamesOwner(h, r, p) <=> [run |-> r, owner |-> p] \in L
    BY <1>9, <2>2, Zenon DEF NamesOwner
  <2> QED BY <1>1, <2>1, <2>3
<1> QED BY <1>9, <1>10 DEF h

-----------------------------------------------------------------------------
(* What a step leaves of a run's owner. *)
LEMMA ClaimKeeps ==
  ASSUME OwnersInv, NEW c \in Calls, NEW r \in OwnedRuns, NEW p \in Principals, claim(c, r, p)
  PROVE  OwnersInv'
<1>1. OwnerTypes'
  BY DEF OwnersInv, OwnerTypes, claim, LetIn, PendingClaim
<1>2. FileOwnsOnce(file)' /\ KeptOnDisk(file, kept)' /\ HandleGood'
  BY DEF OwnersInv, claim, HandleGood
<1>3. (serving => MapHasFile(file, owners))'
  <2>1. \A q \in OwnedRuns, o \in Principals : NamesOwner(file, q, o) => owners'[q] = o
    BY RunOwnersAssumption DEF OwnersInv, claim, MapHasFile, OwnerTypes
  <2> QED BY <2>1 DEF claim, MapHasFile
<1>4. ClaimsHeld'
  BY RunOwnersAssumption DEF OwnersInv, OwnerTypes, ClaimsHeld, claim, PendingClaim, NoClaim
<1>5. InOwners'
  BY RunOwnersAssumption DEF OwnersInv, OwnerTypes, InOwners, claim, LetIn
<1> QED BY <1>1, <1>2, <1>3, <1>4, <1>5 DEF OwnersInv

LEMMA AppendKeeps ==
  ASSUME OwnersInv, NEW c \in Calls, append_owner(c)
  PROVE  OwnersInv'
<1> DEFINE r == claims[c].run  p == claims[c].who
<1>1. claims[c] \in PendingClaim /\ r \in OwnedRuns /\ p \in Principals /\ owners[r] = p /\ serving
  BY DEF OwnersInv, OwnerTypes, append_owner, ClaimsHeld, PendingClaim, NoClaim
<1>2. /\ claims' = [claims EXCEPT ![c] = NoClaim]
      /\ letin' = [letin EXCEPT ![r] = @ \cup {p}]
      /\ UNCHANGED <<owners, unlinked, serving>>
      /\ \/ /\ file' = Lined(r, p)
            /\ ragged' = (ragged /\ unlinked)
            /\ kept' = IF hurt THEN kept ELSE [kept EXCEPT ![r] = @ \cup {p}]
            /\ hurt' = hurt
         \/ file' = Lined(r, p) /\ ragged' = (ragged /\ unlinked) /\ kept' = kept /\ hurt' = TRUE
         \/ file' = file /\ ragged' = ~unlinked /\ kept' = kept /\ hurt' = TRUE
         \/ file' = file /\ ragged' = ragged /\ kept' = kept /\ hurt' = TRUE
  BY Zenon DEF append_owner, LetIn, Fault
<1> HIDE DEF r, p
<1>3. /\ Lined(r, p) \in Seq(OwnerLine)
      /\ \A q \in OwnedRuns, o \in Principals :
           NamesOwner(Lined(r, p), q, o) <=>
             NamesOwner(file, q, o) \/ (~unlinked /\ ~ragged /\ q = r /\ o = p)
  BY <1>1, LinedIs DEF OwnersInv
<1>4. OwnerTypes'
  <2>1. file' \in Seq(OwnerLine)
    BY <1>2, <1>3 DEF OwnersInv, OwnerTypes
  <2>2. {ragged, unlinked, serving, hurt}' \subseteq BOOLEAN
    BY <1>2 DEF OwnersInv, OwnerTypes
  <2>3. letin' \in [OwnedRuns -> SUBSET Principals] /\ kept' \in [OwnedRuns -> SUBSET Principals]
    BY <1>1, <1>2 DEF OwnersInv, OwnerTypes
  <2>4. claims' \in [Calls -> PendingClaim \cup {NoClaim}]
    BY <1>2 DEF OwnersInv, OwnerTypes
  <2> QED BY <1>2, <2>1, <2>2, <2>3, <2>4 DEF OwnersInv, OwnerTypes
<1>5. \A q \in OwnedRuns, o \in Principals :
        /\ NamesOwner(file, q, o) => NamesOwner(file', q, o)
        /\ NamesOwner(file', q, o) => NamesOwner(file, q, o) \/ (q = r /\ o = p)
  BY <1>2, <1>3
<1>6. MapHasFile(file', owners)
  BY <1>1, <1>5 DEF OwnersInv, MapHasFile
<1>7. FileOwnsOnce(file')
  BY <1>6 DEF MapHasFile, FileOwnsOnce
<1>8. KeptOnDisk(file', kept')
  <2>1. CASE kept' = kept
    BY <1>5, <2>1 DEF OwnersInv, KeptOnDisk
  <2>2. CASE ~hurt /\ file' = Lined(r, p) /\ kept' = [kept EXCEPT ![r] = @ \cup {p}]
    <3>1. ~unlinked /\ ~ragged
      BY <1>1, <2>2 DEF OwnersInv, HandleGood
    <3>2. NamesOwner(file', r, p)
      BY <1>1, <1>3, <2>2, <3>1
    <3>3. \A q \in OwnedRuns : \A o \in kept'[q] : o \in kept[q] \/ (q = r /\ o = p)
      BY <1>1, <2>2 DEF OwnersInv, OwnerTypes
    <3> QED BY <1>5, <3>2, <3>3 DEF OwnersInv, KeptOnDisk
  <2> QED BY <1>2, <2>1, <2>2
<1>9. ClaimsHeld'
  BY <1>2 DEF OwnersInv, OwnerTypes, ClaimsHeld, PendingClaim, NoClaim
<1>10. InOwners'
  BY <1>1, <1>2 DEF OwnersInv, OwnerTypes, InOwners
<1>11. HandleGood'
  BY <1>1, <1>2 DEF OwnersInv, HandleGood
<1>12. FileOwnsOnce(file)' /\ (serving => MapHasFile(file, owners))' /\ KeptOnDisk(file, kept)'
  BY <1>2, <1>6, <1>7, <1>8
<1> QED BY <1>4, <1>9, <1>10, <1>11, <1>12 DEF OwnersInv

LEMMA KillKeeps ==
  ASSUME OwnersInv, Kill
  PROVE  OwnersInv'
<1>1. serving /\ ~serving'
  BY DEF Kill, OwnersInv, OwnerTypes
<1>2. /\ file' \in Seq(OwnerLine)
      /\ \A q \in OwnedRuns, o \in Principals :
           /\ NamesOwner(file, q, o) => NamesOwner(file', q, o)
           /\ NamesOwner(file', q, o) => NamesOwner(file, q, o) \/ owners[q] = o
  <2>1. CASE file' = file
    BY <2>1 DEF OwnersInv, OwnerTypes
  <2>2. CASE \E c \in Calls : claims[c].stage = "appending" /\ file' = Lined(claims[c].run, claims[c].who)
    <3>1. PICK c \in Calls : claims[c].stage = "appending" /\ file' = Lined(claims[c].run, claims[c].who)
      BY <2>2
    <3>2. claims[c] \in PendingClaim /\ claims[c].run \in OwnedRuns /\ claims[c].who \in Principals
      BY <3>1 DEF OwnersInv, OwnerTypes, PendingClaim, NoClaim
    <3>3. owners[claims[c].run] = claims[c].who
      BY <3>2 DEF OwnersInv, ClaimsHeld
    <3>4. /\ file' \in Seq(OwnerLine)
          /\ \A q \in OwnedRuns, o \in Principals :
               NamesOwner(file', q, o) <=>
                 NamesOwner(file, q, o) \/ (~unlinked /\ ~ragged /\ q = claims[c].run /\ o = claims[c].who)
      BY <3>1, <3>2, LinedIs DEF OwnersInv
    <3> QED BY <3>3, <3>4
  <2> QED BY <2>1, <2>2 DEF Kill
<1>3. FileOwnsOnce(file')
  <2>1. MapHasFile(file', owners)
    BY <1>1, <1>2 DEF OwnersInv, MapHasFile
  <2> QED BY <2>1 DEF MapHasFile, FileOwnsOnce
<1>4. KeptOnDisk(file, kept)'
  BY <1>2 DEF OwnersInv, OwnerTypes, KeptOnDisk, Kill
<1>5. OwnerTypes'
  <2>1. ragged' \in BOOLEAN
    BY DEF OwnersInv, OwnerTypes, Kill
  <2> QED BY <1>2, <2>1 DEF OwnersInv, OwnerTypes, Kill
<1>6. ClaimsHeld'
  <2>1. claims' = [c \in Calls |-> NoClaim]
    BY DEF Kill
  <2> QED BY <2>1 DEF ClaimsHeld, PendingClaim, NoClaim
<1>7. InOwners'
  BY <1>1 DEF InOwners, Kill
<1> QED BY <1>1, <1>3, <1>4, <1>5, <1>6, <1>7 DEF OwnersInv, HandleGood, FileOwnsOnce

LEMMA OpenKeeps ==
  ASSUME OwnersInv, open_and_replay
  PROVE  OwnersInv'
<1>1. /\ distinct \in [OwnedRuns -> Principals \cup {Nobody}]
      /\ \A r \in OwnedRuns, p \in Principals : NamesOwner(file, r, p) <=> distinct[r] = p
      /\ rewritten \in Seq(OwnerLine)
      /\ \A r \in OwnedRuns, p \in Principals : NamesOwner(rewritten, r, p) <=> NamesOwner(file, r, p)
  BY DistinctIs, RewrittenIs DEF OwnersInv
<1> DEFINE ended == IF ragged THEN Append(file, [run |-> Nobody, owner |-> Nobody]) ELSE file
<1>2. /\ ended \in Seq(OwnerLine)
      /\ \A r \in OwnedRuns, p \in Principals : NamesOwner(ended, r, p) <=> NamesOwner(file, r, p)
  <2> DEFINE x == [run |-> Nobody, owner |-> Nobody]
  <2>1. x \in OwnerLine /\ file \in Seq(OwnerLine)
    BY DEF OwnerLine, OwnersInv, OwnerTypes
  <2>2. \A r \in OwnedRuns, p \in Principals : x # [run |-> r, owner |-> p]
    BY RunOwnersAssumption
  <2> HIDE DEF x
  <2>3. /\ Append(file, x) \in Seq(OwnerLine)
        /\ \A r, p : NamesOwner(Append(file, x), r, p)
                       <=> NamesOwner(file, r, p) \/ x = [run |-> r, owner |-> p]
    BY <2>1, AppendedLine
  <2> QED BY <2>1, <2>2, <2>3 DEF x
<1> HIDE DEF ended
<1>3. /\ ~serving /\ serving' = TRUE /\ owners' = distinct /\ ragged' = FALSE
      /\ file' = rewritten \/ file' = ended
      /\ \/ unlinked' = FALSE /\ hurt' = hurt
         \/ unlinked' \in BOOLEAN /\ hurt' = TRUE
      /\ UNCHANGED <<claims, letin, kept>>
  BY DEF open_and_replay, Fault, ended
<1>4. /\ file' \in Seq(OwnerLine)
      /\ \A r \in OwnedRuns, p \in Principals : NamesOwner(file', r, p) <=> NamesOwner(file, r, p)
  BY <1>1, <1>2, <1>3, Zenon
<1>5. OwnerTypes'
  BY <1>1, <1>3, <1>4 DEF OwnersInv, OwnerTypes
<1>6. MapHasFile(file', owners')
  BY <1>1, <1>3, <1>4 DEF MapHasFile
<1>7. FileOwnsOnce(file')
  BY <1>6 DEF MapHasFile, FileOwnsOnce
<1>8. KeptOnDisk(file', kept')
  BY <1>3, <1>4 DEF OwnersInv, OwnerTypes, KeptOnDisk
<1>9. ClaimsHeld' /\ InOwners'
  <2>1. \A c \in Calls : claims[c] \notin PendingClaim
    BY <1>3 DEF OwnersInv, ClaimsHeld
  <2> QED BY <1>3, <2>1 DEF OwnersInv, ClaimsHeld, InOwners
<1>10. HandleGood'
  BY <1>3 DEF HandleGood
<1> QED BY <1>3, <1>5, <1>6, <1>7, <1>8, <1>9, <1>10 DEF OwnersInv
LEMMA OwnersAlways == OwnersSpec => []OwnersInv
<1>1. OwnersInit => OwnersInv
  <2> SUFFICES ASSUME OwnersInit PROVE OwnersInv
    OBVIOUS
  <2>1. file \in Seq(OwnerLine) /\ \A r, p : ~NamesOwner(file, r, p)
    BY DEF OwnersInit, NamesOwner
  <2>2. OwnerTypes
    BY <2>1 DEF OwnersInit, OwnerTypes
  <2>3. ClaimsHeld
    BY DEF OwnersInit, ClaimsHeld, PendingClaim, NoClaim
  <2> QED BY <2>1, <2>2, <2>3 DEF OwnersInit, OwnersInv, FileOwnsOnce, KeptOnDisk, InOwners, HandleGood
<1>2. OwnersInv /\ [OwnersNext]_ownervars => OwnersInv'
  <2> SUFFICES ASSUME OwnersInv, [OwnersNext]_ownervars PROVE OwnersInv'
    OBVIOUS
  <2>1. CASE UNCHANGED ownervars
    BY <2>1 DEF ownervars, OwnersInv, OwnerTypes, FileOwnsOnce, MapHasFile, KeptOnDisk, NamesOwner,
                ClaimsHeld, InOwners, HandleGood
  <2>2. CASE OwnersNext
    BY <2>2, ClaimKeeps, AppendKeeps, KillKeeps, OpenKeeps, Zenon DEF OwnersNext
  <2> QED BY <2>1, <2>2
<1> QED BY <1>1, <1>2, PTL DEF OwnersSpec

(* One principal in a life of the process, and the same one in every life  *)
(* once its line is on disk (runowners.rs claim, append, replay_at_startup) *)
(* however claims, failed writes and deaths interleave.                    *)
THEOREM RunHasOneOwner == OwnersSpec => []OneOwner
<1>1. OwnersInv => OneOwner
  <2> SUFFICES ASSUME OwnersInv, NEW r \in OwnedRuns
               PROVE  /\ Cardinality(letin[r]) =< 1
                      /\ kept[r] # {} => letin[r] \subseteq kept[r] /\ Cardinality(kept[r]) = 1
    BY DEF OneOwner, OneOwnerPerLife, OwnerForGood
  <2>1. letin[r] = {} \/ (serving /\ letin[r] = {owners[r]})
    BY DEF OwnersInv, InOwners
  <2>2. Cardinality(letin[r]) =< 1
    <3>1. Cardinality({}) = 0
      BY FS_EmptySet
    <3>2. Cardinality({owners[r]}) = 1
      BY FS_Singleton
    <3> QED BY <2>1, <3>1, <3>2
  <2>3. ASSUME kept[r] # {} PROVE letin[r] \subseteq kept[r] /\ Cardinality(kept[r]) = 1
    <3>1. PICK p \in Principals : p \in kept[r]
      BY <2>3 DEF OwnersInv, OwnerTypes
    <3>2. NamesOwner(file, r, p)
      BY <3>1 DEF OwnersInv, KeptOnDisk
    <3>3. \A q \in kept[r] : q \in Principals /\ q = p
      BY <3>2 DEF OwnersInv, OwnerTypes, KeptOnDisk, FileOwnsOnce
    <3>4. kept[r] = {p}
      BY <3>1, <3>3
    <3>5. serving => owners[r] = p
      BY <3>2 DEF OwnersInv, MapHasFile
    <3> QED BY <2>1, <3>4, <3>5, FS_Singleton
  <2> QED BY <2>2, <2>3
<1> QED BY <1>1, OwnersAlways, PTL
-----------------------------------------------------------------------------
LEMMA HighestInBounds ==
  ASSUME NEW S \in SUBSET Nat, NEW b \in Nat, S # {}, \A m \in S : m =< b
  PROVE  /\ Max(S) \in S
         /\ \A m \in S : m =< Max(S)
<1> DEFINE T == {b - m : m \in S}
<1>3. T \in SUBSET Nat /\ T # {}
  <2>1. \A m \in S : b - m \in Nat
    OBVIOUS
  <2>2. PICK m \in S : TRUE
    OBVIOUS
  <2> QED BY <2>1, <2>2
<1>5. PICK x \in T : \A y \in T : x =< y
  <2> HIDE DEF T
  <2> QED BY <1>3, LeastIs
<1>6. PICK n \in S : x = b - n
  BY <1>5
<1>7. \A m \in S : n >= m
  <2> TAKE m \in S
  <2>1. b - m \in T /\ b - n =< b - m
    BY <1>5, <1>6
  <2> QED BY <2>1
<1>8. Max(S) \in S /\ \A m \in S : Max(S) >= m
  BY <1>7, Zenon DEF Max
<1> QED BY <1>8

(* The raft store's invariant.  The four states are prefixes of the        *)
(* committed log, and memory is what the disk holds while the node runs.   *)
WholeState(n) == State(n, [k \in 1 .. n |-> k])
WholeStates == {WholeState(n) : n \in Nat}
Logs == UNION {[D -> (1 .. MaxIndex) \cup {Stale}] : D \in SUBSET (1 .. MaxIndex)}

StoreTypes ==
  /\ disk \in [log : Logs, vote : Nat, committed : Nat, purged : Nat, state : WholeStates, snapshot : WholeStates]
  /\ mem \in [state : WholeStates, snapshot : WholeStates]
  /\ half \in [op : {"none", "purge", "install"}, at : Nat]
  /\ alive \in {"down", "recovering", "up"}
  /\ promised \in [vote : Nat, applied : Nat, appended : Nat]
  /\ commits \in Nat

MemIsDisk == alive # "down" => mem = [state |-> disk.state, snapshot |-> disk.snapshot]

SnapshotBelow == disk.snapshot.applied =< disk.state.applied

HalfDone ==
  /\ half.op = "purge" => half.at = disk.purged
  /\ half.op = "install" => half.at = disk.state.applied /\ alive = "up"
  /\ half.op # "none" => alive # "down"

(* An entry is the cluster's or one that never commits, and after one that *)
(* never commits come only such.                                           *)
LogSound ==
  /\ \A i \in DOMAIN disk.log : disk.log[i] \in {i, Stale}
  /\ \A i, j \in DOMAIN disk.log : i < j /\ disk.log[i] = Stale => disk.log[j] = Stale

Unbroken(log, purged) ==
  \A i \in Nat \ {0}, j \in DOMAIN log : purged < i /\ i =< j => i \in DOMAIN log

(* What was confirmed is there as the cluster's own. *)
Answered ==
  /\ promised.applied =< disk.state.applied
  /\ promised.vote =< disk.vote
  /\ \A i \in 1 .. promised.appended :
       (i \in DOMAIN disk.log /\ disk.log[i] = i) \/ i =< disk.state.applied

StoreInv ==
  /\ StoreTypes /\ MemIsDisk /\ SnapshotBelow /\ HalfDone /\ LogSound /\ Answered
  /\ disk.purged =< disk.state.applied
  /\ Unbroken(disk.log, disk.purged)

-----------------------------------------------------------------------------
LEMMA LogIs ==
  ASSUME NEW log \in Logs
  PROVE  /\ DOMAIN log \in SUBSET (1 .. MaxIndex)
         /\ log \in [DOMAIN log -> (1 .. MaxIndex) \cup {Stale}]
         /\ \A S \in SUBSET DOMAIN log :
              Restrict(log, S) \in Logs /\ DOMAIN Restrict(log, S) = S
              /\ \A j \in S : Restrict(log, S)[j] = log[j]
<1>1. PICK D \in SUBSET (1 .. MaxIndex) : log \in [D -> (1 .. MaxIndex) \cup {Stale}]
  BY DEF Logs
<1>2. DOMAIN log = D
  BY <1>1
<1>3. ASSUME NEW S \in SUBSET DOMAIN log
      PROVE  Restrict(log, S) \in Logs /\ DOMAIN Restrict(log, S) = S
             /\ \A j \in S : Restrict(log, S)[j] = log[j]
  <2>1. Restrict(log, S) \in [S -> (1 .. MaxIndex) \cup {Stale}]
    BY <1>1, <1>2 DEF Restrict
  <2>2. S \in SUBSET (1 .. MaxIndex)
    BY <1>2
  <2>3. Restrict(log, S) \in Logs
    BY <2>1, <2>2 DEF Logs
  <2> QED BY <2>1, <2>3 DEF Restrict
<1> QED BY <1>1, <1>2, <1>3

LEMMA LastingIs ==
  ASSUME NEW log \in Logs, NEW purged \in Nat
  PROVE  /\ Lasting(log, purged) \in Nat
         /\ \A j \in DOMAIN log : j =< Lasting(log, purged)
         /\ DOMAIN log # {} => Lasting(log, purged) \in DOMAIN log
         /\ DOMAIN log = {} => Lasting(log, purged) = purged
<1>1. DOMAIN log \in SUBSET (1 .. MaxIndex) /\ MaxIndex \in Nat
  BY LogIs, RaftStoreAssumption
<1>2. CASE DOMAIN log = {}
  BY <1>2 DEF Lasting
<1>3. CASE DOMAIN log # {}
  <2>1. Max(DOMAIN log) \in DOMAIN log /\ \A j \in DOMAIN log : j =< Max(DOMAIN log)
    <3>1. DOMAIN log \in SUBSET Nat /\ \A m \in DOMAIN log : m =< MaxIndex
      BY <1>1
    <3> HIDE DEF Max
    <3> QED BY <1>1, <1>3, <3>1, HighestInBounds
  <2> QED BY <2>1, <1>1, <1>3 DEF Lasting
<1> QED BY <1>2, <1>3

LEMMA WholeStateIs ==
  /\ \A n \in Nat : WholeState(n).applied = n /\ WholeState(n).ledger = [k \in 1 .. n |-> k] /\ WholeState(n) \in WholeStates
  /\ \A s \in WholeStates : s.applied \in Nat /\ s = WholeState(s.applied)
<1>1. \A n \in Nat : WholeState(n).applied = n /\ WholeState(n).ledger = [k \in 1 .. n |-> k] /\ WholeState(n) \in WholeStates
  BY DEF WholeState, WholeStates, State
<1>2. \A s \in WholeStates : s.applied \in Nat /\ s = WholeState(s.applied)
  BY <1>1 DEF WholeStates
<1> QED BY <1>1, <1>2

(* What the library asks of the storage. *)
LEMMA StoreIsGood ==
  ASSUME StoreInv
  PROVE  StoreKeeps
<1>1. AppliedOnce
  BY WholeStateIs DEF StoreInv, StoreTypes, AppliedOnce
<1>2. AnsweredSurvives
  BY DEF StoreInv, Answered, AnsweredSurvives
<1>3. NoGap
  <2>1. disk.log \in Logs /\ disk.purged \in Nat
    BY DEF StoreInv, StoreTypes
  <2> DEFINE last == Lasting(disk.log, disk.purged)
  <2>2. /\ last \in Nat
        /\ DOMAIN disk.log # {} => last \in DOMAIN disk.log
        /\ DOMAIN disk.log = {} => last = disk.purged
    BY <2>1, LastingIs
  <2>3. get_log_state.last = last
    BY DEF get_log_state
  <2> HIDE DEF last
  <2>4. \A i \in disk.purged + 1 .. last : i \in DOMAIN disk.log
    BY <2>1, <2>2 DEF StoreInv, Unbroken
  <2> QED BY <2>3, <2>4 DEF NoGap, StoreInv
<1> QED BY <1>1, <1>2, <1>3 DEF StoreKeeps

-----------------------------------------------------------------------------
(* The steps that leave the log, the marks and the states alone. *)
LEMMA QuietKeeps ==
  ASSUME StoreInv, UNCHANGED <<disk, mem, promised>>,
         StoreTypes', MemIsDisk', HalfDone'
  PROVE  StoreInv'
BY DEF StoreInv, SnapshotBelow, LogSound, Answered, Unbroken

LEMMA CommitKeeps ==
  ASSUME StoreInv, Commit
  PROVE  StoreInv'
<1>1. StoreTypes' /\ MemIsDisk' /\ HalfDone'
  BY DEF StoreInv, StoreTypes, MemIsDisk, HalfDone, Commit
<1> QED BY <1>1, QuietKeeps DEF Commit

LEMMA LifeKeeps ==
  ASSUME StoreInv, Die \/ Recover
  PROVE  StoreInv'
<1>1. StoreTypes' /\ MemIsDisk' /\ HalfDone'
  BY DEF StoreInv, StoreTypes, MemIsDisk, HalfDone, Die, Recover, NoOp
<1> QED BY <1>1, QuietKeeps DEF Die, Recover

LEMMA NewKeeps ==
  ASSUME StoreInv, new
  PROVE  StoreInv'
<1>1. StoreTypes' /\ MemIsDisk' /\ HalfDone'
  BY DEF StoreInv, StoreTypes, MemIsDisk, HalfDone, new
<1> QED BY <1>1 DEF StoreInv, SnapshotBelow, LogSound, Answered, Unbroken, new

LEMMA VoteKeeps ==
  ASSUME StoreInv, NEW v \in 1 .. MaxVote, save_vote(v)
  PROVE  StoreInv'
<1> DEFINE d == [disk EXCEPT !.vote = v]
<1>1. /\ disk' = d /\ promised' = [promised EXCEPT !.vote = v]
      /\ UNCHANGED <<commits, mem, half, alive>>
      /\ v \in Nat /\ MaxVote \in Nat
  BY RaftStoreAssumption DEF save_vote
<1>2. /\ d.vote = v /\ d.log = disk.log /\ d.purged = disk.purged /\ d.state = disk.state
      /\ d.snapshot = disk.snapshot
      /\ d \in [log : Logs, vote : Nat, committed : Nat, purged : Nat, state : WholeStates, snapshot : WholeStates]
  BY <1>1 DEF StoreInv, StoreTypes
<1> HIDE DEF d
<1>3. /\ promised'.vote = v /\ promised'.applied = promised.applied /\ promised'.appended = promised.appended
      /\ promised' \in [vote : Nat, applied : Nat, appended : Nat]
  BY <1>1 DEF StoreInv, StoreTypes
<1>4. StoreTypes'
  BY <1>1, <1>2, <1>3 DEF StoreInv, StoreTypes
<1>5. Answered'
  BY <1>1, <1>2, <1>3 DEF StoreInv, Answered
<1> QED BY <1>1, <1>2, <1>4, <1>5 DEF StoreInv, MemIsDisk, SnapshotBelow, HalfDone, LogSound, Unbroken

LEMMA CommittedKeeps ==
  ASSUME StoreInv, save_committed
  PROVE  StoreInv'
<1>1. PICK i \in disk.committed + 1 .. commits : disk' = [disk EXCEPT !.committed = i]
  BY DEF save_committed
<1> DEFINE d == [disk EXCEPT !.committed = i]
<1>2. disk' = d /\ UNCHANGED <<commits, mem, half, alive, promised>> /\ i \in Nat
  BY <1>1 DEF save_committed, StoreInv, StoreTypes
<1>3. /\ d.vote = disk.vote /\ d.log = disk.log /\ d.purged = disk.purged /\ d.state = disk.state
      /\ d.snapshot = disk.snapshot
      /\ d \in [log : Logs, vote : Nat, committed : Nat, purged : Nat, state : WholeStates, snapshot : WholeStates]
  BY <1>2 DEF StoreInv, StoreTypes
<1> HIDE DEF d
<1>4. StoreTypes'
  BY <1>2, <1>3 DEF StoreInv, StoreTypes
<1> QED BY <1>2, <1>3, <1>4 DEF StoreInv, MemIsDisk, SnapshotBelow, HalfDone, LogSound, Unbroken, Answered

-----------------------------------------------------------------------------
LEMMA AppendLogKeeps ==
  ASSUME StoreInv, NEW entry, append(entry)
  PROVE  StoreInv'
<1> DEFINE i == Lasting(disk.log, disk.purged) + 1
           L == [j \in DOMAIN disk.log \cup {i} |-> IF j = i THEN entry ELSE disk.log[j]]
           d == [disk EXCEPT !.log = L]
           p == [promised EXCEPT !.appended = IF entry = i THEN i ELSE @]
<1>1. /\ Up /\ i =< MaxIndex
      /\ entry = i \/ entry = Stale
      /\ Stale \in Range(disk.log) => entry = Stale
      /\ disk' = d /\ promised' = p
      /\ UNCHANGED <<commits, mem, half, alive>>
  BY Zenon DEF append, get_log_state
<1>2. /\ disk.log \in Logs /\ disk.purged \in Nat /\ disk.log \in [DOMAIN disk.log -> (1 .. MaxIndex) \cup {Stale}]
      /\ DOMAIN disk.log \in SUBSET (1 .. MaxIndex)
  BY LogIs DEF StoreInv, StoreTypes
<1>3. /\ i \in Nat \ {0}
      /\ \A j \in DOMAIN disk.log : j < i
      /\ \A k \in Nat : disk.purged < k /\ k < i => k \in DOMAIN disk.log
  <2> DEFINE last == Lasting(disk.log, disk.purged)
  <2>1. /\ last \in Nat
        /\ \A j \in DOMAIN disk.log : j =< last
        /\ DOMAIN disk.log # {} => last \in DOMAIN disk.log
        /\ DOMAIN disk.log = {} => last = disk.purged
    BY <1>2, LastingIs
  <2> HIDE DEF last
  <2>2. \A k \in Nat : disk.purged < k /\ k =< last => k \in DOMAIN disk.log
    BY <1>2, <2>1 DEF StoreInv, Unbroken
  <2>3. i = last + 1
    BY DEF last
  <2> HIDE DEF i
  <2> QED BY <1>2, <2>1, <2>2, <2>3
<1> HIDE DEF i
<1>4. /\ DOMAIN L = DOMAIN disk.log \cup {i}
      /\ L[i] = entry /\ \A j \in DOMAIN disk.log : L[j] = disk.log[j]
  BY <1>3
<1>5. L \in Logs
  <2>1. DOMAIN disk.log \cup {i} \in SUBSET (1 .. MaxIndex)
    BY <1>1, <1>2, <1>3, RaftStoreAssumption
  <2>2. L \in [DOMAIN disk.log \cup {i} -> (1 .. MaxIndex) \cup {Stale}]
    BY <1>1, <1>2, <1>3, RaftStoreAssumption
  <2> HIDE DEF L
  <2> QED BY <2>1, <2>2 DEF Logs
<1> HIDE DEF L
<1>6. /\ d.log = L /\ d.vote = disk.vote /\ d.purged = disk.purged /\ d.state = disk.state
      /\ d.snapshot = disk.snapshot
      /\ d \in [log : Logs, vote : Nat, committed : Nat, purged : Nat, state : WholeStates, snapshot : WholeStates]
  BY <1>5 DEF StoreInv, StoreTypes
<1>7. /\ p.applied = promised.applied /\ p.vote = promised.vote
      /\ p.appended = (IF entry = i THEN i ELSE promised.appended)
      /\ p \in [vote : Nat, applied : Nat, appended : Nat]
  BY <1>3 DEF StoreInv, StoreTypes
<1> HIDE DEF d, p
<1>8. StoreTypes'
  BY <1>1, <1>6, <1>7 DEF StoreInv, StoreTypes
<1>9. LogSound'
  <2>1. \A j \in DOMAIN L : L[j] \in {j, Stale}
    BY <1>1, <1>4 DEF StoreInv, LogSound
  <2>2. ASSUME NEW j \in DOMAIN L, NEW k \in DOMAIN L, j < k, L[j] = Stale PROVE L[k] = Stale
    <3>1. j \in DOMAIN disk.log /\ disk.log[j] = Stale
      BY <1>2, <1>3, <1>4, <2>2
    <3>2. Stale \in Range(disk.log)
      BY <3>1 DEF Range
    <3> QED BY <1>1, <1>4, <2>2, <3>1, <3>2 DEF StoreInv, LogSound
  <2> QED BY <1>1, <1>6, <2>1, <2>2 DEF LogSound
<1>10. Unbroken(L, disk.purged)
  BY <1>2, <1>3, <1>4 DEF StoreInv, Unbroken
<1>11. ASSUME NEW k \in 1 .. p.appended
       PROVE  (k \in DOMAIN L /\ L[k] = k) \/ k =< disk.state.applied
  <2>1. CASE entry = i
    <3>1. Stale \notin Range(disk.log)
      BY <1>1, <1>3, <2>1, RaftStoreAssumption
    <3>2. \A j \in DOMAIN disk.log : L[j] = j
      BY <1>4, <3>1 DEF Range, StoreInv, LogSound
    <3>3. k \in Nat /\ 0 < k /\ k =< i
      BY <1>3, <1>7, <2>1
    <3>4. CASE k =< disk.purged
      BY <1>2, <3>3, <3>4, WholeStateIs DEF StoreInv, StoreTypes
    <3>5. CASE disk.purged < k /\ k < i
      BY <1>3, <1>4, <3>2, <3>3, <3>5
    <3>6. CASE k = i
      BY <1>4, <2>1, <3>6
    <3> QED BY <1>2, <1>3, <3>3, <3>4, <3>5, <3>6
  <2>2. CASE entry # i
    BY <1>4, <1>7, <2>2 DEF StoreInv, Answered
  <2> QED BY <2>1, <2>2
<1>12. Answered'
  BY <1>1, <1>6, <1>7, <1>11 DEF StoreInv, Answered
<1> QED BY <1>1, <1>6, <1>8, <1>9, <1>10, <1>12 DEF StoreInv, MemIsDisk, SnapshotBelow, HalfDone

(* Cutting the log down to a part that keeps what it must. *)
LEMMA CutKeeps ==
  ASSUME StoreInv, NEW S \in SUBSET DOMAIN disk.log,
         \A k \in DOMAIN disk.log \ S : disk.log[k] = Stale \/ k =< disk.purged,
         Unbroken(Restrict(disk.log, S), disk.purged),
         disk' = [disk EXCEPT !.log = Restrict(disk.log, S)],
         UNCHANGED <<mem, promised>>, HalfDone', alive' = alive, half' \in {half, NoOp}, commits' = commits
  PROVE  StoreInv'
<1> DEFINE L == Restrict(disk.log, S)
           d == [disk EXCEPT !.log = L]
<1>1. /\ disk.log \in Logs /\ disk.purged \in Nat /\ DOMAIN disk.log \in SUBSET (1 .. MaxIndex)
      /\ L \in Logs /\ DOMAIN L = S /\ \A j \in S : L[j] = disk.log[j]
  BY LogIs DEF StoreInv, StoreTypes
<1> HIDE DEF L
<1>2. /\ d.log = L /\ d.vote = disk.vote /\ d.purged = disk.purged /\ d.state = disk.state
      /\ d.snapshot = disk.snapshot
      /\ d \in [log : Logs, vote : Nat, committed : Nat, purged : Nat, state : WholeStates, snapshot : WholeStates]
  BY <1>1 DEF StoreInv, StoreTypes
<1>3. disk' = d
  BY DEF L
<1> HIDE DEF d
<1>4. StoreTypes'
  BY <1>2, <1>3 DEF StoreInv, StoreTypes, NoOp
<1>5. LogSound'
  BY <1>1, <1>2, <1>3 DEF StoreInv, LogSound
<1>6. Answered'
  <2>1. ASSUME NEW k \in 1 .. promised.appended
        PROVE  (k \in DOMAIN L /\ L[k] = k) \/ k =< disk.state.applied
    <3>1. CASE k =< disk.state.applied
      BY <3>1
    <3>2. CASE k \in DOMAIN disk.log /\ disk.log[k] = k /\ ~(k =< disk.state.applied)
      <4>1. disk.log[k] # Stale
        BY <1>1, <3>2, RaftStoreAssumption
      <4>2. ~(k =< disk.purged)
        <5>1. promised.appended \in Nat /\ disk.state.applied \in Nat
          BY WholeStateIs DEF StoreInv, StoreTypes
        <5> QED BY <1>1, <3>2, <5>1 DEF StoreInv
      <4> QED BY <1>1, <3>2, <4>1, <4>2
    <3> QED BY <3>1, <3>2 DEF StoreInv, Answered
  <2> QED BY <1>2, <1>3, <2>1 DEF StoreInv, Answered
<1>7. Unbroken(disk.log, disk.purged)'
  BY <1>2, <1>3 DEF L
<1> QED BY <1>2, <1>3, <1>4, <1>5, <1>6, <1>7 DEF StoreInv, MemIsDisk, SnapshotBelow

LEMMA TruncateKeeps ==
  ASSUME StoreInv, NEW i, truncate(i)
  PROVE  StoreInv'
<1> DEFINE S == {j \in DOMAIN disk.log : j < i}
<1>1. /\ i \in DOMAIN disk.log /\ disk.log[i] = Stale
      /\ disk' = [disk EXCEPT !.log = Restrict(disk.log, S)]
      /\ UNCHANGED <<commits, mem, half, alive, promised>>
  BY DEF truncate
<1>2. /\ DOMAIN disk.log \in SUBSET (1 .. MaxIndex) /\ MaxIndex \in Nat /\ disk.purged \in Nat
      /\ DOMAIN Restrict(disk.log, S) = S
  BY LogIs, RaftStoreAssumption DEF StoreInv, StoreTypes
<1>3. \A k \in DOMAIN disk.log \ S : disk.log[k] = Stale
  BY <1>1, <1>2 DEF StoreInv, LogSound
<1>4. Unbroken(Restrict(disk.log, S), disk.purged)
  BY <1>1, <1>2 DEF StoreInv, Unbroken
<1>5. HalfDone'
  <2>1. disk'.purged = disk.purged /\ disk'.state = disk.state
    BY <1>1 DEF StoreInv, StoreTypes
  <2> QED BY <1>1, <2>1 DEF StoreInv, HalfDone
<1> HIDE DEF S
<1>6. S \in SUBSET DOMAIN disk.log
  BY DEF S
<1> QED BY <1>1, <1>3, <1>4, <1>5, <1>6, CutKeeps

LEMMA PurgeRestKeeps ==
  ASSUME StoreInv, purge_rest
  PROVE  StoreInv'
<1> DEFINE S == {j \in DOMAIN disk.log : j > disk.purged}
<1>1. /\ half.op = "purge" /\ half.at = disk.purged /\ half' = NoOp
      /\ UNCHANGED <<commits, mem, alive, promised>>
  BY DEF purge_rest, StoreInv, HalfDone
<1>2. disk' = [disk EXCEPT !.log = Restrict(disk.log, S)]
  <2>1. disk' = [disk EXCEPT !.purged = disk.purged, !.log = Restrict(disk.log, S)]
    BY <1>1 DEF purge_rest
  <2> HIDE DEF S
  <2> QED BY <2>1 DEF StoreInv, StoreTypes
<1>3. /\ DOMAIN disk.log \in SUBSET (1 .. MaxIndex) /\ MaxIndex \in Nat /\ disk.purged \in Nat
      /\ DOMAIN Restrict(disk.log, S) = S
  BY LogIs, RaftStoreAssumption DEF StoreInv, StoreTypes
<1>4. \A k \in DOMAIN disk.log \ S : k =< disk.purged
  BY <1>3
<1>5. Unbroken(Restrict(disk.log, S), disk.purged)
  BY <1>3 DEF StoreInv, Unbroken
<1>6. HalfDone'
  BY <1>1 DEF HalfDone, NoOp
<1>7. S \in SUBSET DOMAIN disk.log
  OBVIOUS
<1> HIDE DEF S
<1> QED BY <1>1, <1>2, <1>4, <1>5, <1>6, <1>7, CutKeeps

(* A mark no lower than the old one, or at the state, that the state has   *)
(* reached.                                                                *)
LEMMA MarkKeeps ==
  ASSUME StoreInv, alive # "down", half = NoOp, NEW i \in Nat, i =< disk.state.applied,
         disk.purged =< i,
         disk' = [disk EXCEPT !.purged = i],
         half' = [op |-> "purge", at |-> i],
         UNCHANGED <<commits, mem, alive, promised>>
  PROVE  StoreInv'
<1> DEFINE d == [disk EXCEPT !.purged = i]
<1>1. /\ d.log = disk.log /\ d.vote = disk.vote /\ d.purged = i /\ d.state = disk.state
      /\ d.snapshot = disk.snapshot /\ disk.purged \in Nat
      /\ d \in [log : Logs, vote : Nat, committed : Nat, purged : Nat, state : WholeStates, snapshot : WholeStates]
  BY DEF StoreInv, StoreTypes
<1>2. disk' = d
  OBVIOUS
<1> HIDE DEF d
<1>3. StoreTypes'
  BY <1>1, <1>2 DEF StoreInv, StoreTypes
<1>4. HalfDone'
  BY <1>1, <1>2 DEF HalfDone
<1>5. Unbroken(disk.log, i)
  BY <1>1 DEF StoreInv, Unbroken
<1> QED BY <1>1, <1>2, <1>3, <1>4, <1>5 DEF StoreInv, MemIsDisk, SnapshotBelow, LogSound, Answered

LEMMA PurgeKeeps ==
  ASSUME StoreInv, NEW i \in Nat, purge(i)
  PROVE  StoreInv'
<1>1. /\ mem.state = disk.state /\ mem.snapshot = disk.snapshot
      /\ disk.state.applied \in Nat /\ disk.snapshot.applied \in Nat /\ disk.purged \in Nat
  BY WholeStateIs DEF StoreInv, StoreTypes, MemIsDisk, purge
<1>2. i =< disk.state.applied /\ disk.purged =< i
  BY <1>1 DEF purge, StoreInv, SnapshotBelow
<1> QED BY <1>2, MarkKeeps DEF purge

LEMMA PurgeInstalledKeeps ==
  ASSUME StoreInv, purge_installed
  PROVE  StoreInv'
<1>1. /\ mem.state = disk.state
      /\ disk.state.applied \in Nat
  BY WholeStateIs DEF StoreInv, StoreTypes, MemIsDisk, purge_installed, Up
<1>2. disk.purged =< disk.state.applied
  BY DEF StoreInv
<1> QED BY <1>1, <1>2, MarkKeeps DEF purge_installed, Up

(* A state further on, in one commit: in memory and on the disk. *)
LEMMA StateMoves ==
  ASSUME StoreInv, alive # "down", half = NoOp, NEW n \in Nat, disk.state.applied =< n,
         mem' = [mem EXCEPT !.state = WholeState(n)],
         disk' = [disk EXCEPT !.state = WholeState(n)],
         UNCHANGED <<commits, alive>>,
         half' = NoOp \/ (half' = [op |-> "install", at |-> n] /\ alive = "up"),
         promised' \in {promised, [promised EXCEPT !.applied = n]}
  PROVE  StoreInv'
<1> DEFINE d == [disk EXCEPT !.state = WholeState(n)]
<1>1. /\ WholeState(n) \in WholeStates /\ WholeState(n).applied = n
      /\ disk.state.applied \in Nat /\ disk.snapshot.applied \in Nat
  BY WholeStateIs DEF StoreInv, StoreTypes
<1> HIDE DEF WholeState
<1>2. /\ d.log = disk.log /\ d.vote = disk.vote /\ d.purged = disk.purged /\ d.state = WholeState(n)
      /\ d.snapshot = disk.snapshot /\ disk.purged \in Nat
      /\ d \in [log : Logs, vote : Nat, committed : Nat, purged : Nat, state : WholeStates, snapshot : WholeStates]
  BY <1>1 DEF StoreInv, StoreTypes
<1>3. disk' = d
  OBVIOUS
<1> HIDE DEF d
<1>4. mem' = [state |-> d.state, snapshot |-> d.snapshot]
  BY <1>2 DEF StoreInv, StoreTypes, MemIsDisk
<1>5. /\ promised' \in [vote : Nat, applied : Nat, appended : Nat]
      /\ promised'.vote = promised.vote /\ promised'.appended = promised.appended
      /\ promised'.applied \in {promised.applied, n}
  BY DEF StoreInv, StoreTypes
<1>6. StoreTypes'
  BY <1>2, <1>3, <1>4, <1>5 DEF StoreInv, StoreTypes, NoOp
<1>7. HalfDone'
  BY <1>1, <1>2, <1>3 DEF HalfDone, NoOp
<1>8. Answered'
  <2>1. /\ promised.applied \in Nat /\ promised.appended \in Nat /\ promised.applied =< disk.state.applied
    BY DEF StoreInv, StoreTypes, Answered
  <2>2. promised'.applied =< n
    BY <1>1, <1>5, <2>1
  <2>3. \A k \in 1 .. promised.appended :
          (k \in DOMAIN disk.log /\ disk.log[k] = k) \/ k =< n
    BY <1>1, <2>1 DEF StoreInv, Answered
  <2> QED BY <1>1, <1>2, <1>3, <1>5, <2>2, <2>3 DEF StoreInv, Answered
<1>9. SnapshotBelow' /\ disk'.purged =< disk'.state.applied
  BY <1>1, <1>2, <1>3 DEF StoreInv, SnapshotBelow
<1> QED BY <1>2, <1>3, <1>4, <1>6, <1>7, <1>8, <1>9 DEF StoreInv, MemIsDisk, LogSound

LEMMA ApplyKeeps ==
  ASSUME StoreInv, NEW n \in Nat, apply(n)
  PROVE  StoreInv'
<1> DEFINE a == mem.state.applied
           more == [k \in 1 .. n - a |-> disk.log[a + k]]
           s == State(n, mem.state.ledger \o more)
<1>1. /\ alive # "down" /\ half = NoOp /\ a + 1 .. n # {}
      /\ a + 1 .. n \subseteq DOMAIN disk.log /\ \A i \in a + 1 .. n : disk.log[i] = i
      /\ mem' = [mem EXCEPT !.state = s]
      /\ disk' = [disk EXCEPT !.state = s]
      /\ promised' = [promised EXCEPT !.applied = n]
      /\ UNCHANGED <<commits, half, alive>>
  BY Zenon DEF apply
<1>2. /\ a \in Nat /\ mem.state.ledger = [k \in 1 .. a |-> k]
      /\ mem.state = disk.state
  BY <1>1, WholeStateIs DEF StoreInv, StoreTypes, MemIsDisk
<1> HIDE DEF a
<1>3. a < n /\ n - a \in Nat
  BY <1>1, <1>2
<1>4. more = [k \in 1 .. n - a |-> a + k]
  <2>1. \A k \in 1 .. n - a : a + k \in a + 1 .. n
    BY <1>2, <1>3
  <2>2. \A k \in 1 .. n - a : disk.log[a + k] = a + k
    BY <1>1, <2>1
  <2> QED BY <2>2
<1> HIDE DEF more
<1>5. [k \in 1 .. a |-> k] \o [k \in 1 .. n - a |-> a + k] = [k \in 1 .. n |-> k]
  <2> DEFINE x == [k \in 1 .. a |-> k]  y == [k \in 1 .. n - a |-> a + k]  z == x \o y
  <2>1. x \in Seq(Nat) /\ y \in Seq(Nat) /\ Len(x) = a /\ Len(y) = n - a
    BY <1>2, <1>3
  <2>2. /\ z \in Seq(Nat) /\ Len(z) = n
        /\ \A k \in 1 .. n : z[k] = IF k =< a THEN x[k] ELSE y[k - a]
    BY <1>2, <1>3, <2>1
  <2>3. \A k \in 1 .. n : z[k] = k
    BY <1>2, <1>3, <2>2
  <2> HIDE DEF z
  <2>4. z = [k \in 1 .. n |-> k]
    BY <2>2, <2>3
  <2> QED BY <2>4 DEF z
<1>6. s = WholeState(n)
  BY <1>2, <1>4, <1>5 DEF WholeState
<1> HIDE DEF s
<1>7. disk.state.applied =< n
  BY <1>2, <1>3 DEF a
<1> QED BY <1>1, <1>6, <1>7, StateMoves

LEMMA InstallKeeps ==
  ASSUME StoreInv, NEW n \in Nat, install_snapshot(n)
  PROVE  StoreInv'
<1>1. /\ alive = "up" /\ half = NoOp /\ mem.state = disk.state /\ disk.state.applied =< n
      /\ mem' = [mem EXCEPT !.state = WholeState(n)] /\ disk' = [disk EXCEPT !.state = WholeState(n)]
      /\ half' = [op |-> "install", at |-> n]
      /\ UNCHANGED <<commits, alive, promised>>
  <2>1. mem.state = disk.state /\ disk.state.applied \in Nat /\ alive = "up" /\ half = NoOp
    BY WholeStateIs DEF StoreInv, StoreTypes, MemIsDisk, install_snapshot, Up
  <2>2. n \in mem.state.applied + 1 .. commits /\ commits \in Nat
    BY DEF install_snapshot, StoreInv, StoreTypes
  <2>3. disk.state.applied =< n
    BY <2>1, <2>2
  <2> QED BY <2>1, <2>3, Zenon DEF install_snapshot, WholeState
<1> QED BY <1>1, StateMoves

LEMMA BuildKeeps ==
  ASSUME StoreInv, build_snapshot
  PROVE  StoreInv'
<1> DEFINE d == [disk EXCEPT !.snapshot = disk.state]
<1>1. /\ disk' = d /\ mem' = [mem EXCEPT !.snapshot = disk.state] /\ alive = "up"
      /\ mem = [state |-> disk.state, snapshot |-> disk.snapshot]
      /\ UNCHANGED <<commits, half, alive, promised>>
      /\ disk.state.applied \in Nat
  BY WholeStateIs DEF StoreInv, StoreTypes, MemIsDisk, build_snapshot, Up
<1>2. /\ d.log = disk.log /\ d.vote = disk.vote /\ d.purged = disk.purged /\ d.state = disk.state
      /\ d.snapshot = disk.state
      /\ d \in [log : Logs, vote : Nat, committed : Nat, purged : Nat, state : WholeStates, snapshot : WholeStates]
  BY DEF StoreInv, StoreTypes
<1> HIDE DEF d
<1>3. mem' = [state |-> d.state, snapshot |-> d.snapshot]
  BY <1>1, <1>2
<1>4. StoreTypes'
  BY <1>1, <1>2, <1>3 DEF StoreInv, StoreTypes
<1> QED BY <1>1, <1>2, <1>3, <1>4 DEF StoreInv, MemIsDisk, SnapshotBelow, HalfDone, LogSound, Answered

(* The second commit of an install is a snapshot of the state, a response  *)
(* for it, and a cut of what conflicts with it.                            *)
LEMMA InstallRestKeeps ==
  ASSUME StoreInv, install_rest
  PROVE  StoreInv'
<1> DEFINE S == {j \in DOMAIN disk.log : \A k \in DOMAIN disk.log : k =< j => disk.log[k] = k}
           L == Restrict(disk.log, S)
           d == [disk EXCEPT !.snapshot = disk.state, !.log = L]
           p == [promised EXCEPT !.applied = disk.state.applied]
<1>1. /\ half.op = "install" /\ half.at = disk.state.applied /\ alive = "up"
      /\ mem = [state |-> disk.state, snapshot |-> disk.snapshot]
      /\ mem' = [mem EXCEPT !.snapshot = disk.state]
      /\ half' = NoOp /\ UNCHANGED <<commits, alive>>
      /\ promised' = p
  BY DEF install_rest, StoreInv, HalfDone, MemIsDisk, StoreTypes
<1>2. disk' = d
  BY <1>1 DEF install_rest
<1>3. /\ disk.log \in Logs /\ DOMAIN disk.log \in SUBSET (1 .. MaxIndex) /\ MaxIndex \in Nat
      /\ disk.purged \in Nat /\ disk.state \in WholeStates /\ disk.state.applied \in Nat
      /\ L \in Logs /\ DOMAIN L = S /\ \A j \in S : L[j] = disk.log[j]
  <2>1. disk.log \in Logs /\ disk.purged \in Nat /\ disk.state \in WholeStates
    BY DEF StoreInv, StoreTypes
  <2>2. S \in SUBSET DOMAIN disk.log
    OBVIOUS
  <2> HIDE DEF S
  <2> QED BY <2>1, <2>2, LogIs, WholeStateIs, RaftStoreAssumption
<1>4. \A k \in DOMAIN disk.log \ S : disk.log[k] = Stale
  <2> SUFFICES ASSUME NEW k \in DOMAIN disk.log, NEW j \in DOMAIN disk.log, j =< k, disk.log[j] # j
               PROVE  disk.log[k] = Stale
    OBVIOUS
  <2>1. disk.log[j] = Stale
    BY DEF StoreInv, LogSound
  <2> QED BY <1>3, <2>1 DEF StoreInv, LogSound
<1>5. Unbroken(L, disk.purged)
  <2> SUFFICES ASSUME NEW i \in Nat \ {0}, NEW j \in S, disk.purged < i, i =< j PROVE i \in S
    BY <1>3 DEF Unbroken
  <2>1. i \in DOMAIN disk.log
    BY DEF StoreInv, Unbroken
  <2> QED BY <1>3, <2>1
<1> HIDE DEF S, L
<1>6. /\ d.log = L /\ d.vote = disk.vote /\ d.purged = disk.purged /\ d.state = disk.state
      /\ d.snapshot = disk.state
      /\ d \in [log : Logs, vote : Nat, committed : Nat, purged : Nat, state : WholeStates, snapshot : WholeStates]
  BY <1>3 DEF StoreInv, StoreTypes
<1>7. /\ p.applied = disk.state.applied /\ p.vote = promised.vote /\ p.appended = promised.appended
      /\ p \in [vote : Nat, applied : Nat, appended : Nat]
  BY <1>3 DEF StoreInv, StoreTypes
<1> HIDE DEF d, p
<1>8. mem' = [state |-> d.state, snapshot |-> d.snapshot]
  BY <1>1, <1>6
<1>9. StoreTypes'
  BY <1>1, <1>2, <1>6, <1>7, <1>8 DEF StoreInv, StoreTypes, NoOp
<1>10. LogSound'
  <2>1. S \subseteq DOMAIN disk.log
    BY DEF S
  <2> QED BY <1>2, <1>3, <1>6, <2>1 DEF StoreInv, LogSound
<1>11. Answered'
  <2>1. ASSUME NEW k \in 1 .. promised.appended
        PROVE  (k \in DOMAIN L /\ L[k] = k) \/ k =< disk.state.applied
    <3>1. CASE k =< disk.state.applied
      BY <3>1
    <3>2. CASE k \in DOMAIN disk.log /\ disk.log[k] = k
      <4>1. k # Stale
        BY RaftStoreAssumption, <1>3, <3>2
      <4> QED BY <1>3, <1>4, <3>2, <4>1
    <3> QED BY <3>1, <3>2 DEF StoreInv, Answered
  <2> QED BY <1>1, <1>2, <1>3, <1>6, <1>7, <2>1 DEF StoreInv, Answered
<1>12. SnapshotBelow' /\ HalfDone'
  BY <1>1, <1>2, <1>3, <1>6 DEF SnapshotBelow, HalfDone, NoOp
<1> QED BY <1>2, <1>5, <1>6, <1>8, <1>9, <1>10, <1>11, <1>12 DEF StoreInv, MemIsDisk

-----------------------------------------------------------------------------
LEMMA StoreAlways == RaftSpec => []StoreInv
<1>1. RaftInit => StoreInv
  <2> SUFFICES ASSUME RaftInit PROVE StoreInv
    OBVIOUS
  <2>1. Empty \in WholeStates /\ Empty.applied = 0
    <3>1. WholeState(0) = Empty
      BY DEF WholeState, Empty, State
    <3> QED BY <3>1, WholeStateIs
  <2>2. <<>> \in Logs /\ DOMAIN <<>> = {}
    <3>1. <<>> \in [{} -> (1 .. MaxIndex) \cup {Stale}]
      OBVIOUS
    <3> QED BY <3>1 DEF Logs
  <2> HIDE DEF Empty
  <2>3. StoreTypes
    BY <2>1, <2>2 DEF RaftInit, StoreTypes, NoOp
  <2> QED BY <2>1, <2>2, <2>3 DEF RaftInit, StoreInv, MemIsDisk, SnapshotBelow, HalfDone, LogSound, Answered, Unbroken, NoOp
<1>2. StoreInv /\ [RaftNext]_raftvars => StoreInv'
  <2> SUFFICES ASSUME StoreInv, [RaftNext]_raftvars PROVE StoreInv'
    OBVIOUS
  <2>1. CASE UNCHANGED raftvars
    <3>1. StoreTypes' /\ MemIsDisk' /\ HalfDone'
      BY <2>1 DEF raftvars, StoreInv, StoreTypes, MemIsDisk, HalfDone
    <3> QED BY <2>1, <3>1, QuietKeeps DEF raftvars
  <2>2. \A i \in 1 .. MaxIndex : i \in Nat
    BY RaftStoreAssumption
  <2>3. ASSUME NEW i \in 1 .. MaxIndex, truncate(i) \/ apply(i) \/ purge(i) \/ install_snapshot(i)
        PROVE  StoreInv'
    BY <2>2, <2>3, TruncateKeeps, ApplyKeeps, PurgeKeeps, InstallKeeps
  <2> QED BY <2>1, <2>3, CommitKeeps, VoteKeeps, CommittedKeeps, AppendLogKeeps, BuildKeeps, PurgeRestKeeps,
             InstallRestKeeps, PurgeInstalledKeeps, LifeKeeps, NewKeeps, Zenon DEF RaftNext
<1> QED BY <1>1, <1>2, PTL DEF RaftSpec

(* A node's raft storage, whole: each state is the committed prefix        *)
(* applied once, what was answered for is on the disk, and the log has no  *)
(* gap, wherever between two commits the node dies (redbstore.rs append,   *)
(* apply, purge, install_snapshot).                                        *)
THEOREM StorageKeeps == RaftSpec => []StoreKeeps
BY StoreAlways, StoreIsGood, PTL
=============================================================================
