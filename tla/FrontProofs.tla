---------------------------- MODULE FrontProofs ----------------------------
(***************************************************************************)
(* Proofs about FrontDoor, for any keys, bindings, prefixes, runs, callers *)
(* and configurations, and any limits of the refusals' limiter; and, in    *)
(* the second part, about TokenDoor, for any tokens, proofs, requests and  *)
(* configurations, any window, cap and leeway, and any list the issuer     *)
(* publishes.                                                              *)
(***************************************************************************)
EXTENDS FrontDoor, TokenDoor, FiniteSetTheorems, TLAPS

-----------------------------------------------------------------------------
(* What a slot and the door's tables hold. *)

Account == [open : BOOLEAN, parent : DoorRuns \cup {Nothing}, admitted : BOOLEAN]

FrontTypes ==
  /\ door \in Doors
  /\ ledger \in [DoorRuns -> Account]
  /\ run_owners = [r \in DoorRuns |-> run_owners[r]]
  /\ inflight = [c \in Slots |-> inflight[c]]

Taken(c) == inflight[c] # FreeSlot

(* A caller that spends as a key carries no token, and a key it has.       *)
KeyCaller(caller) ==
  caller.who # Nothing /\ caller.who[1] = "key" =>
    caller.who = Key(caller.key) /\ caller.key # Nothing /\ caller.token = Nothing

CallOf(c) ==
  LET x == inflight[c]
  IN  Taken(c) =>
        /\ x = [stage |-> x.stage, req |-> x.req, caller |-> x.caller, foreign |-> x.foreign]
        /\ x.stage \in {"claim", "declared", "open", "held", "charge"}
        /\ x.req \in Arrivals
        /\ KeyCaller(x.caller)

-----------------------------------------------------------------------------
(* The one unit of a key under enforce: its binding's, or none at all.     *)
UnitOf(k) == IF k \in DOMAIN Bindings THEN Bindings[k].unit ELSE Nothing

UnitsFixed ==
  door.strict = "Enforce" =>
    \A x \in charged : x.who # Nothing /\ x.who[1] = "key" => x.unit = UnitOf(x.who[2])

(* The parents that were somebody else's when the call came stay that: an  *)
(* owner never changes, and neither does a parent once the ledger holds it.*)
Barred(c) ==
  LET x == inflight[c]  r == x.req.run  p == x.req.parent  h == ledger[r].parent
  IN  /\ x.stage \in {"declared", "open", "held", "charge"} =>
           \A q \in x.foreign :
             /\ q \in DoorRuns \ {r} /\ q \in {p, h}
             /\ q # Nothing
             /\ Foreign(x.caller.who, x.caller.key, run_owners[q])
      /\ x.stage \in {"open", "held", "charge"} => p \notin x.foreign
      /\ x.stage \in {"held", "charge"} => p \in {Nothing, h}
      /\ x.stage = "charge" => h \notin x.foreign

ParentsOpen == \A r \in DoorRuns : ledger[r].parent # Nothing => ledger[r].open

ParentInv == ParentsOpen /\ ParentGaveLeave /\ \A c \in Slots : Barred(c)

-----------------------------------------------------------------------------
(* The calls of a key that may still be counted as a mismatch: those in    *)
(* flight.                                                                 *)
Pending(k) == {c \in Slots : Taken(c) /\ inflight[c].caller.who = k}

StatTypes ==
  /\ stats = [keys |-> stats.keys, unauthorized |-> stats.unauthorized]
  /\ stats.keys \in [DOMAIN stats.keys -> [calls : Nat, mismatches : Nat]]
  /\ Nothing \notin DOMAIN stats.keys

CallsCounted ==
  /\ \A c \in Slots : Taken(c) /\ inflight[c].caller.who # Nothing =>
                        inflight[c].caller.who \in DOMAIN stats.keys
  /\ \A k \in DOMAIN stats.keys :
       stats.keys[k].mismatches + Cardinality(Pending(k)) <= stats.keys[k].calls

-----------------------------------------------------------------------------
(* The limiter: what its map owes the bus, and the events of a minute.     *)
ReportSource ==
  {<<"provider-credential", a.agent>> : a \in Arrivals}
  \cup {<<IF a.fuse = Nothing THEN "missing_key" ELSE a.fuse, a.agent>> : a \in Arrivals}

Event == [at : Nat, source : ReportSource]

LimiterTypes ==
  /\ window = [started |-> window.started, emitted |-> window.emitted, sources |-> window.sources]
  /\ window.started \in Nat /\ window.emitted \in Nat
  /\ moment \in Nat
  /\ reports \in Seq(Event)

MapTypes ==
  /\ \A s \in DOMAIN window.sources :
       /\ window.sources[s] = [last |-> window.sources[s].last, held |-> window.sources[s].held]
       /\ window.sources[s].held \in Nat
  /\ \A s \in DOMAIN refusals : refusals[s].told \in Nat /\ refusals[s].count \in Nat

MapOwes ==
  "cleared" \notin forgot =>
    /\ DOMAIN window.sources = DOMAIN refusals
    /\ \A s \in DOMAIN refusals : refusals[s].count = refusals[s].told + window.sources[s].held

At(events, S) == {j \in DOMAIN events : events[j].at \in S}

(* Before the window's start, a minute that reaches into it holds one      *)
(* cap's worth of events; the window itself holds what it has counted.     *)
Minutes(events, started, emitted, now) ==
  /\ started <= now /\ emitted <= PER_MINUTE_CAP
  /\ \A j \in DOMAIN events : events[j].at <= now /\ events[j].at < started + MINUTE
  /\ Cardinality(At(events, started .. now)) <= emitted
  /\ \A a \in Int : started - MINUTE < a => Cardinality(At(events, a .. started - 1)) <= PER_MINUTE_CAP
  /\ \A a \in Int : Cardinality(At(events, a .. a + MINUTE - 1)) <= 2 * PER_MINUTE_CAP

MinuteInv == "back" \notin forgot => Minutes(reports, window.started, window.emitted, moment)

CallerInv ==
  /\ FrontTypes /\ StatTypes /\ UnitsFixed /\ ParentInv /\ CallsCounted
  /\ \A c \in Slots : CallOf(c)

-----------------------------------------------------------------------------
(* What a step may do to the tables, whoever takes it.                     *)
Others(c) ==
  /\ inflight' = [d \in Slots |-> inflight'[d]]
  /\ \A d \in Slots \ {c} : inflight'[d] = inflight[d]

OwnersStay ==
  /\ run_owners' = [r \in DoorRuns |-> run_owners'[r]]
  /\ \A r \in DoorRuns : run_owners[r] # Nothing => run_owners'[r] = run_owners[r]

ParentsStay ==
  /\ ledger' \in [DoorRuns -> Account]
  /\ \A r \in DoorRuns : ledger[r].parent # Nothing => ledger'[r].parent = ledger[r].parent
  /\ \A r \in DoorRuns : ledger'[r].parent # Nothing => ledger'[r].open

(* What a step of c does to the statistics: nothing, a call that comes, or *)
(* a mismatch of a call that leaves.                                       *)
Silent(c) ==
  /\ stats'.keys = stats.keys /\ stats' = [keys |-> stats'.keys, unauthorized |-> stats'.unauthorized]
  /\ Taken(c)' => Taken(c) /\ inflight'[c].caller.who = inflight[c].caller.who

Comes(c) ==
  /\ ~Taken(c) /\ Taken(c)'
  /\ stats' = Counted(stats, inflight'[c].caller.who, "calls")

GoesWrong(c) ==
  /\ Taken(c) /\ ~Taken(c)'
  /\ stats' = Counted(stats, inflight[c].caller.who, "mismatches")

-----------------------------------------------------------------------------
(* A count goes to one key, in one column.                                 *)
LEMMA CountedIs ==
  ASSUME NEW old, NEW who, NEW field \in {"calls", "mismatches"}, NEW s, who # Nothing,
         s = Counted(old, who, field),
         old = [keys |-> old.keys, unauthorized |-> old.unauthorized],
         old.keys \in [DOMAIN old.keys -> [calls : Nat, mismatches : Nat]]
  PROVE  /\ s = [keys |-> s.keys, unauthorized |-> s.unauthorized]
         /\ DOMAIN s.keys = DOMAIN old.keys \cup {who}
         /\ s.keys \in [DOMAIN s.keys -> [calls : Nat, mismatches : Nat]]
         /\ \A k \in DOMAIN old.keys \ {who} : s.keys[k] = old.keys[k]
         /\ who \in DOMAIN old.keys =>
              /\ field = "calls" => s.keys[who].calls = old.keys[who].calls + 1
                                    /\ s.keys[who].mismatches = old.keys[who].mismatches
              /\ field = "mismatches" => s.keys[who].calls = old.keys[who].calls
                                         /\ s.keys[who].mismatches = old.keys[who].mismatches + 1
         /\ who \notin DOMAIN old.keys /\ field = "calls" =>
              s.keys[who].calls = 1 /\ s.keys[who].mismatches = 0
<1> DEFINE k == IF who \in DOMAIN old.keys THEN old.keys[who] ELSE [calls |-> 0, mismatches |-> 0]
           e == [k EXCEPT ![field] = @ + 1]
<1>1. s = [old EXCEPT !.keys = With(@, who, e)]
  BY DEF Counted
<1>2. /\ s = [keys |-> s.keys, unauthorized |-> s.unauthorized]
      /\ s.keys = With(old.keys, who, e)
  BY <1>1
<1>3. k \in [calls : Nat, mismatches : Nat]
  OBVIOUS
<1>4. /\ e \in [calls : Nat, mismatches : Nat]
      /\ field = "calls" => e.calls = k.calls + 1 /\ e.mismatches = k.mismatches
      /\ field = "mismatches" => e.calls = k.calls /\ e.mismatches = k.mismatches + 1
  BY <1>3
<1>5. /\ DOMAIN s.keys = DOMAIN old.keys \cup {who}
      /\ s.keys[who] = e
      /\ \A x \in DOMAIN old.keys \ {who} : s.keys[x] = old.keys[x]
  <2> HIDE DEF e
  <2> QED BY <1>2 DEF With
<1>6. s.keys \in [DOMAIN s.keys -> [calls : Nat, mismatches : Nat]]
  <2> HIDE DEF e
  <2> QED BY <1>2, <1>4, <1>5 DEF With
<1>7. /\ who \in DOMAIN old.keys => k = old.keys[who]
      /\ who \notin DOMAIN old.keys => k.calls = 0 /\ k.mismatches = 0
  OBVIOUS
<1> HIDE DEF e, k
<1> QED BY <1>2, <1>4, <1>5, <1>6, <1>7

LEMMA PendingFinite == ASSUME NEW k PROVE Pending(k) \subseteq Slots /\ IsFiniteSet(Pending(k))
<1>1. Pending(k) \subseteq Slots
  BY DEF Pending
<1> QED BY <1>1, FrontDoorAssumption, FS_Subset DEF FrontDoorAssumption

LEMMA PendingKept ==
  ASSUME NEW c \in Slots, Others(c), NEW k,
         Taken(c)' => Taken(c) /\ inflight'[c].caller.who = inflight[c].caller.who
  PROVE  Pending(k)' \subseteq Pending(k)
BY DEF Pending, Taken, Others

(* What the statistics say of calls and mismatches stays in step with the  *)
(* calls in flight, whichever of the three a step does.                    *)
LEMMA SilentStep ==
  ASSUME StatTypes, CallsCounted, NEW c \in Slots, Others(c), Silent(c)
  PROVE  StatTypes' /\ CallsCounted'
<1>1. StatTypes'
  BY DEF StatTypes, Silent
<1>2. \A d \in Slots : Taken(d)' => Taken(d) /\ inflight'[d].caller.who = inflight[d].caller.who
  BY DEF Others, Silent, Taken
<1>3. \A d \in Slots : Taken(d)' /\ inflight'[d].caller.who # Nothing => inflight'[d].caller.who \in DOMAIN stats'.keys
  BY <1>2 DEF CallsCounted, Silent
<1>4. ASSUME NEW k \in DOMAIN stats.keys
      PROVE  stats'.keys[k].mismatches + Cardinality(Pending(k)') <= stats'.keys[k].calls
  <2>1. Pending(k)' \subseteq Pending(k)
    BY PendingKept DEF Silent
  <2>2. Cardinality(Pending(k)') <= Cardinality(Pending(k)) /\ Cardinality(Pending(k)) \in Nat
        /\ Cardinality(Pending(k)') \in Nat
    BY <2>1, PendingFinite, FS_Subset, FS_CardinalityType
  <2>3. stats.keys[k].mismatches \in Nat /\ stats.keys[k].calls \in Nat
        /\ stats.keys[k].mismatches + Cardinality(Pending(k)) <= stats.keys[k].calls
    BY DEF StatTypes, CallsCounted
  <2>4. stats'.keys[k] = stats.keys[k]
    BY DEF Silent
  <2> HIDE DEF Pending
  <2> QED BY <2>2, <2>3, <2>4
<1>5. CallsCounted'
  <2>1. DOMAIN stats'.keys = DOMAIN stats.keys
    BY DEF Silent
  <2> QED BY <1>3, <1>4, <2>1, Zenon DEF CallsCounted
<1> QED BY <1>1, <1>5

LEMMA ComesStep ==
  ASSUME StatTypes, CallsCounted, NEW c \in Slots, Others(c), Comes(c)
  PROVE  StatTypes' /\ CallsCounted'
<1> DEFINE who == inflight'[c].caller.who
<1>1. CASE who = Nothing
  <2>1. stats' = stats
    BY <1>1 DEF Comes, Counted
  <2>2. \A k \in DOMAIN stats.keys : Pending(k)' \subseteq Pending(k)
    BY <1>1 DEF Pending, Taken, Others, StatTypes
  <2>3. \A d \in Slots : Taken(d)' /\ inflight'[d].caller.who # Nothing => Taken(d) /\ inflight'[d] = inflight[d]
    BY <1>1 DEF Others, Taken
  <2>4. ASSUME NEW k \in DOMAIN stats.keys
        PROVE  stats'.keys[k].mismatches + Cardinality(Pending(k)') <= stats'.keys[k].calls
    <3>1. Cardinality(Pending(k)') <= Cardinality(Pending(k)) /\ Cardinality(Pending(k)) \in Nat
          /\ Cardinality(Pending(k)') \in Nat
      BY <2>2, PendingFinite, FS_Subset, FS_CardinalityType
    <3>2. stats.keys[k].mismatches \in Nat /\ stats.keys[k].calls \in Nat
          /\ stats.keys[k].mismatches + Cardinality(Pending(k)) <= stats.keys[k].calls
      BY DEF StatTypes, CallsCounted
    <3> HIDE DEF Pending
    <3> QED BY <3>1, <3>2, <2>1
  <2>5. CallsCounted'
    <3>1. \A d \in Slots : Taken(d)' /\ inflight'[d].caller.who # Nothing => inflight'[d].caller.who \in DOMAIN stats'.keys
      BY <2>3, <2>1 DEF CallsCounted
    <3> QED BY <3>1, <2>4, <2>1, Zenon DEF CallsCounted
  <2> QED BY <2>1, <2>5 DEF StatTypes
<1>2. CASE who # Nothing
  <2>1. /\ StatTypes'
        /\ DOMAIN stats'.keys = DOMAIN stats.keys \cup {who}
        /\ \A k \in DOMAIN stats.keys \ {who} : stats'.keys[k] = stats.keys[k]
        /\ who \in DOMAIN stats.keys => stats'.keys[who].calls = stats.keys[who].calls + 1
                                        /\ stats'.keys[who].mismatches = stats.keys[who].mismatches
        /\ who \notin DOMAIN stats.keys => stats'.keys[who].calls = 1 /\ stats'.keys[who].mismatches = 0
    <3>1. stats' = Counted(stats, who, "calls") /\ "calls" \in {"calls", "mismatches"}
      BY DEF Comes
    <3>2. /\ stats = [keys |-> stats.keys, unauthorized |-> stats.unauthorized]
          /\ stats.keys \in [DOMAIN stats.keys -> [calls : Nat, mismatches : Nat]]
          /\ Nothing \notin DOMAIN stats.keys
      BY DEF StatTypes
    <3> HIDE DEF who
    <3> QED BY <3>1, <3>2, <1>2, CountedIs DEF StatTypes
  <2>2. \A d \in Slots : Taken(d)' /\ inflight'[d].caller.who # Nothing => inflight'[d].caller.who \in DOMAIN stats'.keys
    BY <2>1 DEF Others, Taken, CallsCounted
  <2>3. ASSUME NEW k \in DOMAIN stats'.keys
        PROVE  stats'.keys[k].mismatches + Cardinality(Pending(k)') <= stats'.keys[k].calls
    <3>1. ASSUME k # who
          PROVE  stats'.keys[k].mismatches + Cardinality(Pending(k)') <= stats'.keys[k].calls
      <4>1. Pending(k)' \subseteq Pending(k)
        BY <3>1 DEF Pending, Taken, Others
      <4>2. Cardinality(Pending(k)') <= Cardinality(Pending(k)) /\ Cardinality(Pending(k)) \in Nat
            /\ Cardinality(Pending(k)') \in Nat
        BY <4>1, PendingFinite, FS_Subset, FS_CardinalityType
      <4>3. k \in DOMAIN stats.keys /\ stats'.keys[k] = stats.keys[k]
        BY <2>1, <3>1
      <4>4. stats.keys[k].mismatches \in Nat /\ stats.keys[k].calls \in Nat
            /\ stats.keys[k].mismatches + Cardinality(Pending(k)) <= stats.keys[k].calls
        BY <4>3 DEF StatTypes, CallsCounted
      <4> HIDE DEF Pending
      <4> QED BY <4>2, <4>3, <4>4
    <3>2. CASE k = who
      <4>1. Pending(k)' \subseteq Pending(k) \cup {c} /\ c \notin Pending(k)
        BY DEF Pending, Taken, Others, Comes
      <4>2. IsFiniteSet(Pending(k)) /\ Cardinality(Pending(k)) \in Nat
        BY PendingFinite, FS_CardinalityType
      <4>3. Cardinality(Pending(k)') <= Cardinality(Pending(k)) + 1 /\ Cardinality(Pending(k)') \in Nat
        <5> HIDE DEF Pending
        <5>1. IsFiniteSet(Pending(k) \cup {c}) /\ Cardinality(Pending(k) \cup {c}) = Cardinality(Pending(k)) + 1
          BY <4>1, <4>2, FS_AddElement
        <5> QED BY <4>1, <5>1, FS_Subset, FS_CardinalityType
      <4>4. ASSUME k \in DOMAIN stats.keys
            PROVE  stats'.keys[k].mismatches + Cardinality(Pending(k)') <= stats'.keys[k].calls
        <5>1. stats.keys[k].mismatches \in Nat /\ stats.keys[k].calls \in Nat
              /\ stats.keys[k].mismatches + Cardinality(Pending(k)) <= stats.keys[k].calls
          BY <4>4 DEF StatTypes, CallsCounted
        <5> HIDE DEF Pending, who
        <5> QED BY <5>1, <4>2, <4>3, <4>4, <2>1, <3>2
      <4>5. ASSUME k \notin DOMAIN stats.keys
            PROVE  stats'.keys[k].mismatches + Cardinality(Pending(k)') <= stats'.keys[k].calls
        <5>1. Pending(k) = {}
          BY <4>5, <1>2, <3>2 DEF Pending, CallsCounted
        <5>2. Cardinality(Pending(k)) = 0
          BY <5>1, FS_EmptySet
        <5> HIDE DEF Pending, who
        <5> QED BY <5>2, <4>2, <4>3, <4>5, <2>1, <3>2
      <4> QED BY <4>4, <4>5
    <3> QED BY <3>1, <3>2
  <2>4. CallsCounted'
    BY <2>2, <2>3, Zenon DEF CallsCounted
  <2> QED BY <2>1, <2>4
<1> QED BY <1>1, <1>2

LEMMA GoesWrongStep ==
  ASSUME StatTypes, CallsCounted, NEW c \in Slots, Others(c), GoesWrong(c)
  PROVE  StatTypes' /\ CallsCounted'
<1> DEFINE who == inflight[c].caller.who
<1>0. \A k : Pending(k)' \subseteq Pending(k)
  BY PendingKept DEF GoesWrong
<1>1. CASE who = Nothing
  <2>1. stats' = stats
    BY <1>1 DEF GoesWrong, Counted
  <2>2. Silent(c)
    BY <2>1 DEF Silent, GoesWrong, StatTypes
  <2> QED BY <2>2, SilentStep
<1>2. CASE who # Nothing
  <2>0. who \in DOMAIN stats.keys
    BY <1>2 DEF GoesWrong, CallsCounted
  <2>1. /\ StatTypes'
        /\ DOMAIN stats'.keys = DOMAIN stats.keys
        /\ \A k \in DOMAIN stats.keys \ {who} : stats'.keys[k] = stats.keys[k]
        /\ stats'.keys[who].calls = stats.keys[who].calls
        /\ stats'.keys[who].mismatches = stats.keys[who].mismatches + 1
    <3>1. stats' = Counted(stats, who, "mismatches") /\ "mismatches" \in {"calls", "mismatches"}
      BY DEF GoesWrong
    <3>2. /\ stats = [keys |-> stats.keys, unauthorized |-> stats.unauthorized]
          /\ stats.keys \in [DOMAIN stats.keys -> [calls : Nat, mismatches : Nat]]
          /\ Nothing \notin DOMAIN stats.keys
      BY DEF StatTypes
    <3> HIDE DEF who
    <3> QED BY <3>1, <3>2, <1>2, <2>0, CountedIs DEF StatTypes
  <2>2. \A d \in Slots : Taken(d)' /\ inflight'[d].caller.who # Nothing => inflight'[d].caller.who \in DOMAIN stats'.keys
    BY <2>1 DEF Others, Taken, CallsCounted, GoesWrong
  <2>3. ASSUME NEW k \in DOMAIN stats'.keys
        PROVE  stats'.keys[k].mismatches + Cardinality(Pending(k)') <= stats'.keys[k].calls
    <3>1. Cardinality(Pending(k)') <= Cardinality(Pending(k)) /\ Cardinality(Pending(k)) \in Nat
          /\ Cardinality(Pending(k)') \in Nat /\ IsFiniteSet(Pending(k))
      BY <1>0, PendingFinite, FS_Subset, FS_CardinalityType
    <3>2. stats.keys[k].mismatches \in Nat /\ stats.keys[k].calls \in Nat
          /\ stats.keys[k].mismatches + Cardinality(Pending(k)) <= stats.keys[k].calls
      BY <2>1 DEF StatTypes, CallsCounted
    <3>3. ASSUME k = who PROVE Cardinality(Pending(k)') <= Cardinality(Pending(k)) - 1
      <4>1. c \in Pending(k) /\ c \notin Pending(k)'
        BY <3>3 DEF Pending, GoesWrong
      <4>2. Pending(k)' \subseteq Pending(k) \ {c}
        BY <4>1, <1>0
      <4> HIDE DEF Pending
      <4>3. IsFiniteSet(Pending(k) \ {c}) /\ Cardinality(Pending(k) \ {c}) = Cardinality(Pending(k)) - 1
        BY <3>1, <4>1, FS_RemoveElement
      <4> QED BY <4>2, <4>3, FS_Subset
    <3> HIDE DEF Pending, who
    <3> QED BY <2>1, <3>1, <3>2, <3>3
  <2>4. CallsCounted'
    BY <2>2, <2>3, Zenon DEF CallsCounted
  <2> QED BY <2>1, <2>4
<1> QED BY <1>1, <1>2

-----------------------------------------------------------------------------
StepOf(c) ==
  /\ door' = door
  /\ Others(c) /\ OwnersStay /\ ParentsStay
  /\ Silent(c) \/ Comes(c) \/ GoesWrong(c)
  /\ CallOf(c)' /\ Barred(c)'
  /\ UnitsFixed' /\ ParentGaveLeave'

(* A step of one call bars no parent of another call, and frees none.      *)
LEMMA OthersBarred ==
  ASSUME CallerInv, NEW d \in Slots, inflight'[d] = inflight[d], OwnersStay, ParentsStay
  PROVE  Barred(d)'
<1> DEFINE x == inflight[d]  r == x.req.run  p == x.req.parent  h == ledger[r].parent  g == ledger'[r].parent
<1>1. CallOf(d) /\ Barred(d)
  BY DEF CallerInv, ParentInv
<1>2. ~Taken(d) => x.stage = "free"
  BY DEF Taken, FreeSlot
<1>3. Taken(d) => r \in DoorRuns /\ p \in DoorRuns \cup {Nothing}
  BY <1>1, FrontDoorAssumption DEF CallOf, FrontDoorAssumption
<1>4. Taken(d) /\ h # Nothing => g = h
  BY <1>3 DEF ParentsStay
<1>5. ASSUME x.stage \in {"declared", "open", "held", "charge"}, NEW q \in x.foreign
      PROVE  /\ q \in DoorRuns \ {r} /\ q \in {p, h} /\ q # Nothing
             /\ Foreign(x.caller.who, x.caller.key, run_owners[q])
  BY <1>1, <1>5 DEF Barred
<1>6. ASSUME x.stage \in {"declared", "open", "held", "charge"}, NEW q \in x.foreign
      PROVE  /\ q \in DoorRuns \ {r} /\ q \in {p, g} /\ q # Nothing
             /\ Foreign(x.caller.who, x.caller.key, run_owners'[q])
  <2>1. Taken(d)
    BY <1>6, <1>2
  <2>2. q \in {p, g}
    BY <1>4, <1>5, <1>6, <2>1
  <2>3. run_owners[q] # Nothing
    BY <1>5, <1>6 DEF Foreign
  <2>4. run_owners'[q] = run_owners[q]
    BY <1>5, <1>6, <2>3 DEF OwnersStay
  <2>5. Foreign(x.caller.who, x.caller.key, run_owners'[q])
    BY <1>5, <1>6, <2>4
  <2> QED BY <1>5, <1>6, <2>2, <2>5
<1>7. x.stage \in {"open", "held", "charge"} => p \notin x.foreign
  BY <1>1 DEF Barred
<1>8. x.stage \in {"held", "charge"} => p \in {Nothing, g}
  BY <1>1, <1>2, <1>4 DEF Barred
<1>9. ASSUME x.stage = "charge" PROVE g \notin x.foreign
  <2>1. h \notin x.foreign /\ p \notin x.foreign
    BY <1>1, <1>9 DEF Barred
  <2>2. x.foreign = {}
    BY <2>1, <1>5, <1>9
  <2> QED BY <2>2
<1>10. x = inflight'[d]
  OBVIOUS
<1> HIDE DEF x
<1> QED BY <1>6, <1>7, <1>8, <1>9, <1>10, Zenon DEF Barred

LEMMA StepKeeps ==
  ASSUME CallerInv, NEW c \in Slots, StepOf(c)
  PROVE  CallerInv'
<1>1. FrontTypes'
  BY DEF CallerInv, FrontTypes, StepOf, Others, OwnersStay, ParentsStay
<1>2. StatTypes' /\ CallsCounted'
  <2>1. StatTypes /\ CallsCounted /\ Others(c)
    BY DEF CallerInv, StepOf
  <2>2. CASE Silent(c) BY <2>1, <2>2, SilentStep
  <2>3. CASE Comes(c) BY <2>1, <2>3, ComesStep
  <2>4. CASE GoesWrong(c) BY <2>1, <2>4, GoesWrongStep
  <2> QED BY <2>2, <2>3, <2>4 DEF StepOf
<1>3. ASSUME NEW d \in Slots PROVE CallOf(d)' /\ Barred(d)'
  <2>1. CASE d = c BY <2>1 DEF StepOf
  <2>2. CASE d # c
    <3>1. inflight'[d] = inflight[d]
      BY <2>2 DEF StepOf, Others
    <3>2. Barred(d)'
      BY <3>1, OthersBarred DEF StepOf
    <3>3. CallOf(d)'
      BY <3>1 DEF CallerInv, CallOf, Taken
    <3> QED BY <3>2, <3>3
  <2> QED BY <2>1, <2>2
<1>4. ParentInv'
  BY <1>3 DEF ParentInv, ParentsOpen, StepOf, ParentsStay
<1> QED BY <1>1, <1>2, <1>3, <1>4 DEF CallerInv, StepOf

-----------------------------------------------------------------------------
(* The parts of a step that change nothing of theirs.                      *)
LEMMA TablesKept ==
  ASSUME CallerInv
  PROVE  /\ run_owners' = run_owners => OwnersStay
         /\ ledger' = ledger => ParentsStay
         /\ charged' = charged /\ door' = door => UnitsFixed' /\ ParentGaveLeave'
BY DEF CallerInv, FrontTypes, OwnersStay, ParentsStay, ParentInv, ParentsOpen, UnitsFixed, ParentGaveLeave

LEMMA SlotSet ==
  ASSUME CallerInv, NEW c \in Slots, NEW y, inflight' = [inflight EXCEPT ![c] = y]
  PROVE  Others(c) /\ inflight'[c] = y
BY DEF CallerInv, FrontTypes, Others

LEMMA SlotFreed ==
  ASSUME CallerInv, NEW c \in Slots, Leaves(c)
  PROVE  Others(c) /\ ~Taken(c)' /\ CallOf(c)' /\ Barred(c)'
<1>1. Others(c) /\ inflight'[c] = FreeSlot
  BY SlotSet DEF Leaves
<1>2. inflight'[c].stage = "free"
  BY <1>1 DEF FreeSlot
<1>3. ~Taken(c)'
  BY <1>1 DEF Taken
<1>4. Barred(c)'
  BY <1>2 DEF Barred
<1>5. CallOf(c)'
  BY <1>3 DEF CallOf
<1> QED BY <1>1, <1>3, <1>4, <1>5

(* A call that goes on keeps what it is.                                   *)
LEMMA SlotGoes ==
  ASSUME CallerInv, NEW c \in Slots, Taken(c), NEW s \in {"claim", "declared", "open", "held", "charge"}, Goes(c, s)
  PROVE  /\ Others(c) /\ Taken(c)' /\ CallOf(c)'
         /\ inflight'[c].stage = s /\ inflight'[c].req = inflight[c].req
         /\ inflight'[c].caller = inflight[c].caller /\ inflight'[c].foreign = inflight[c].foreign
<1> DEFINE y == [inflight[c] EXCEPT !.stage = s]
<1>1. CallOf(c) /\ inflight' = [inflight EXCEPT ![c] = y]
  BY DEF CallerInv, Goes
<1>2. Others(c) /\ inflight'[c] = y
  <2> HIDE DEF y
  <2> QED BY <1>1, SlotSet
<1>3. inflight[c] = [stage |-> inflight[c].stage, req |-> inflight[c].req, caller |-> inflight[c].caller,
                     foreign |-> inflight[c].foreign]
  BY <1>1 DEF CallOf
<1>4. /\ y.stage = s /\ y.req = inflight[c].req /\ y.caller = inflight[c].caller
      /\ y.foreign = inflight[c].foreign
      /\ y = [stage |-> y.stage, req |-> y.req, caller |-> y.caller, foreign |-> y.foreign]
  BY <1>3
<1>5. y # FreeSlot
  BY <1>4 DEF FreeSlot
<1> HIDE DEF y
<1> QED BY <1>1, <1>2, <1>4, <1>5 DEF Taken, CallOf

(* Whoever is admitted with a key carries it, and no token.                *)
LEMMA AdmittedCarriesKey ==
  ASSUME NEW r, NEW caller \in Admitted(r)
  PROVE  KeyCaller(caller)
<1>1. CASE r.token # Nothing
  <2>1. caller.who = <<"tok", r.token.subject>>
    BY <1>1 DEF Admitted, Token
  <2>2. caller.who[1] = "tok"
    BY <2>1
  <2> QED BY <2>2 DEF KeyCaller
<1>2. CASE r.token = Nothing
  BY <1>2 DEF Admitted, KeyCaller
<1> QED BY <1>1, <1>2

LEMMA ResolveStep ==
  ASSUME CallerInv, NEW c \in Slots, NEW r \in door.senders, resolve_caller(c, r)
  PROVE  StepOf(c)
<1>1. /\ door' = door /\ run_owners' = run_owners /\ ledger' = ledger /\ charged' = charged
      /\ inflight[c] = FreeSlot
  BY DEF resolve_caller
<1>2. OwnersStay /\ ParentsStay /\ UnitsFixed' /\ ParentGaveLeave'
  BY <1>1, TablesKept
<1>3. r \in Arrivals /\ StatTypes
  BY FrontDoorAssumption DEF FrontDoorAssumption, CallerInv, FrontTypes
<1>4. CASE inflight' = inflight /\ (stats' = stats \/ stats' = [stats EXCEPT !.unauthorized = @ + 1])
  <2>1. Others(c) /\ ~Taken(c)' /\ inflight'[c] = FreeSlot
    BY <1>1, <1>4 DEF CallerInv, FrontTypes, Others, Taken
  <2>2. stats'.keys = stats.keys /\ stats' = [keys |-> stats'.keys, unauthorized |-> stats'.unauthorized]
    BY <1>3, <1>4 DEF StatTypes
  <2>3. Silent(c)
    BY <2>1, <2>2 DEF Silent
  <2>4. Barred(c)' /\ CallOf(c)'
    BY <2>1 DEF Barred, CallOf, FreeSlot
  <2> QED BY <1>1, <1>2, <2>1, <2>3, <2>4 DEF StepOf
<1>5. ASSUME NEW caller \in Admitted(r),
             inflight' = [inflight EXCEPT ![c] =
                            [stage |-> "claim", req |-> r, caller |-> caller, foreign |-> {}]],
             stats' = Counted(stats, caller.who, "calls")
      PROVE  StepOf(c)
  <2> DEFINE y == [stage |-> "claim", req |-> r, caller |-> caller, foreign |-> {}]
  <2>1. Others(c) /\ inflight'[c] = y
    <3> HIDE DEF y
    <3> SUFFICES inflight' = [inflight EXCEPT ![c] = y] BY SlotSet
    <3> QED BY <1>5 DEF y
  <2>2. y # FreeSlot /\ y.stage = "claim" /\ y.caller = caller /\ y.req = r
        /\ y = [stage |-> y.stage, req |-> y.req, caller |-> y.caller, foreign |-> y.foreign]
    BY DEF FreeSlot
  <2> HIDE DEF y
  <2>3. Comes(c)
    BY <1>1, <1>5, <2>1, <2>2 DEF Comes, Taken
  <2>4. KeyCaller(caller)
    BY <1>5, AdmittedCarriesKey
  <2>5. CallOf(c)'
    BY <1>3, <2>1, <2>2, <2>4 DEF CallOf
  <2>6. Barred(c)'
    BY <2>1, <2>2 DEF Barred
  <2> QED BY <1>1, <1>2, <2>1, <2>3, <2>5, <2>6 DEF StepOf
<1> QED BY <1>4, <1>5 DEF resolve_caller

LEMMA TakenAt ==
  ASSUME NEW c \in Slots, inflight[c].stage # "free"
  PROVE  Taken(c)
BY DEF Taken, FreeSlot

LEMMA RefusedStep ==
  ASSUME CallerInv, NEW c \in Slots, inflight[c].stage # "free", foreign_run_refused(c),
         door' = door, run_owners' = run_owners, ledger' = ledger, charged' = charged
  PROVE  StepOf(c)
<1>1. Others(c) /\ ~Taken(c)' /\ CallOf(c)' /\ Barred(c)'
  BY SlotFreed DEF foreign_run_refused
<1>2. GoesWrong(c)
  BY <1>1, TakenAt DEF GoesWrong, foreign_run_refused
<1> QED BY <1>1, <1>2, TablesKept DEF StepOf

LEMMA ClaimStep ==
  ASSUME CallerInv, NEW c \in Slots, ClaimRun(c)
  PROVE  StepOf(c)
<1> DEFINE x == inflight[c]  r == x.req.run  who == x.caller.who
           barred == {p \in {x.req.parent, ledger[r].parent} \ {Nothing, r} :
                        Foreign(who, x.caller.key, run_owners[p])}
           y == [[x EXCEPT !.stage = "declared"] EXCEPT !.foreign = barred]
<1>1. /\ x.stage = "claim" /\ Taken(c)
      /\ door' = door /\ ledger' = ledger /\ charged' = charged
  BY DEF ClaimRun, Taken, FreeSlot
<1>2. CASE foreign_run_refused(c) /\ run_owners' = run_owners
  BY <1>1, <1>2, RefusedStep
<1>3. ASSUME who = Nothing \/ run_owners[r] \in {Nothing, who},
             run_owners' = IF who = Nothing THEN run_owners ELSE [run_owners EXCEPT ![r] = who],
             inflight' = [inflight EXCEPT ![c].stage = "declared", ![c].foreign = barred],
             stats' = stats
      PROVE  StepOf(c)
  <2>1. CallOf(c) /\ r \in DoorRuns /\ x.req.parent \in DoorRuns \cup {Nothing}
        /\ ledger[r].parent \in DoorRuns \cup {Nothing}
    BY <1>1, FrontDoorAssumption DEF CallerInv, CallOf, FrontTypes, Account, FrontDoorAssumption
  <2>2. inflight' = [inflight EXCEPT ![c] = y]
    BY <1>3 DEF CallerInv, FrontTypes
  <2>3. Others(c) /\ inflight'[c] = y
    <3> HIDE DEF y
    <3> QED BY <2>2, SlotSet
  <2>4. /\ y.stage = "declared" /\ y.req = x.req /\ y.caller = x.caller /\ y.foreign = barred
        /\ y = [stage |-> y.stage, req |-> y.req, caller |-> y.caller, foreign |-> y.foreign]
    <3>1. x = [stage |-> x.stage, req |-> x.req, caller |-> x.caller, foreign |-> x.foreign]
      BY <1>1, <2>1 DEF CallOf
    <3> DEFINE z == [x EXCEPT !.stage = "declared"]
    <3>2. /\ z.stage = "declared" /\ z.req = x.req /\ z.caller = x.caller
          /\ z = [stage |-> z.stage, req |-> z.req, caller |-> z.caller, foreign |-> z.foreign]
      <4> HIDE DEF barred
      <4> QED BY <3>1
    <3>3. y = [z EXCEPT !.foreign = barred]
      OBVIOUS
    <3> HIDE DEF barred, z, y
    <3> QED BY <3>2, <3>3
  <2>5. Taken(c)' /\ inflight'[c].stage = "declared"
    BY <2>3, <2>4 DEF Taken, FreeSlot
  <2>6. CallOf(c)'
    <3> HIDE DEF y
    <3> QED BY <1>1, <2>1, <2>3, <2>4, <2>5 DEF CallOf
  <2>7. OwnersStay
    BY <1>3, <2>1 DEF CallerInv, FrontTypes, OwnersStay
  <2>8. Silent(c)
    <3>1. stats'.keys = stats.keys /\ stats' = [keys |-> stats'.keys, unauthorized |-> stats'.unauthorized]
      BY <1>3 DEF CallerInv, StatTypes
    <3>2. inflight'[c].caller = inflight[c].caller
      BY <2>3, <2>4
    <3> QED BY <1>1, <3>1, <3>2 DEF Silent
  <2>9. ASSUME NEW q \in barred
        PROVE  /\ q \in DoorRuns \ {r} /\ q \in {x.req.parent, ledger[r].parent} /\ q # Nothing
               /\ Foreign(who, x.caller.key, run_owners'[q])
    <3>1. /\ q \in DoorRuns \ {r} /\ q \in {x.req.parent, ledger[r].parent} /\ q # Nothing
          /\ Foreign(who, x.caller.key, run_owners[q])
      BY <2>1
    <3>2. run_owners'[q] = run_owners[q]
      BY <1>3, <2>1, <3>1 DEF CallerInv, FrontTypes
    <3> QED BY <3>1, <3>2
  <2>10. Barred(c)'
    <3>1. /\ inflight'[c].req = x.req /\ inflight'[c].caller = x.caller /\ inflight'[c].foreign = barred
          /\ inflight'[c].stage = "declared"
      BY <2>3, <2>4
    <3> HIDE DEF barred, x, y
    <3> QED BY <3>1, <2>9, <1>1 DEF Barred, x
  <2> QED BY <1>1, <2>3, <2>6, <2>7, <2>8, <2>10, TablesKept DEF StepOf
<1> QED BY <1>2, <1>3 DEF ClaimRun

LEMMA DeclaredStep ==
  ASSUME CallerInv, NEW c \in Slots, CheckDeclared(c)
  PROVE  StepOf(c)
<1> DEFINE x == inflight[c]  p == x.req.parent
<1>1. /\ x.stage = "declared" /\ Taken(c)
      /\ door' = door /\ ledger' = ledger /\ charged' = charged /\ run_owners' = run_owners
  BY DEF CheckDeclared, Taken, FreeSlot
<1>2. CASE foreign_run_refused(c)
  BY <1>1, <1>2, RefusedStep
<1>3. ASSUME ~foreign_parent_refusal(c, p), Goes(c, "open"), stats' = stats
      PROVE  StepOf(c)
  <2>1. /\ Others(c) /\ Taken(c)' /\ CallOf(c)'
        /\ inflight'[c].stage = "open" /\ inflight'[c].req = x.req
        /\ inflight'[c].caller = x.caller /\ inflight'[c].foreign = x.foreign
    BY <1>1, <1>3, SlotGoes
  <2>2. Silent(c)
    BY <1>1, <1>3, <2>1 DEF Silent, CallerInv, StatTypes
  <2>3. Barred(c)
    BY DEF CallerInv, ParentInv
  <2>4. p \notin x.foreign
    BY <1>1, <1>3, <2>3 DEF Barred, foreign_parent_refusal
  <2>5. Barred(c)'
    <3>1. ASSUME NEW q \in x.foreign
          PROVE  /\ q \in DoorRuns \ {x.req.run} /\ q \in {p, ledger[x.req.run].parent} /\ q # Nothing
                 /\ Foreign(x.caller.who, x.caller.key, run_owners[q])
      BY <1>1, <2>3, <3>1 DEF Barred
    <3> HIDE DEF x
    <3> QED BY <1>1, <2>1, <2>4, <3>1 DEF Barred
  <2> QED BY <1>1, <2>1, <2>2, <2>5, TablesKept DEF StepOf
<1> QED BY <1>2, <1>3 DEF CheckDeclared

LEMMA OpenStep ==
  ASSUME CallerInv, NEW c \in Slots, OpenRun(c)
  PROVE  StepOf(c)
<1> DEFINE x == inflight[c]  r == x.req.run  p == x.req.parent
           seen == IF p # Nothing /\ p # r /\ p \in CloudRuns
                   THEN [ledger EXCEPT ![p].open = TRUE] ELSE ledger
           above == seen[r].parent
           moves == p = r \/ (seen[r].open /\ p # Nothing /\ p # above
                              /\ (above # Nothing \/ seen[r].admitted))
           np == IF p = Nothing THEN above ELSE p
<1>1. /\ x.stage = "open" /\ Taken(c)
      /\ door' = door /\ run_owners' = run_owners /\ charged' = charged /\ stats' = stats
  <2> HIDE DEF seen, above, moves
  <2>1. x.stage = "open"
    BY Zenon DEF OpenRun
  <2>2. UNCHANGED <<door, run_owners, stats, window, moment, arrived, charged, refusals, reports, forgot>>
    BY Zenon DEF OpenRun
  <2> QED BY <2>1, <2>2, TakenAt
<1>2. CallOf(c) /\ r \in DoorRuns /\ p \in DoorRuns \cup {Nothing} /\ ledger \in [DoorRuns -> Account]
      /\ ParentsOpen /\ Barred(c)
  BY <1>1, FrontDoorAssumption DEF CallerInv, CallOf, FrontTypes, FrontDoorAssumption, ParentInv
<1>3. /\ seen \in [DoorRuns -> Account]
      /\ \A q \in DoorRuns : seen[q].parent = ledger[q].parent
      /\ \A q \in DoorRuns : ledger[q].open => seen[q].open
  BY <1>2 DEF Account
<1>4. OwnersStay /\ UnitsFixed' /\ ParentGaveLeave'
  BY <1>1, TablesKept
<1>5. stats'.keys = stats.keys /\ stats' = [keys |-> stats'.keys, unauthorized |-> stats'.unauthorized]
  BY <1>1 DEF CallerInv, StatTypes
<1>6. ASSUME ledger' = seen, Leaves(c)
      PROVE  StepOf(c)
  <2>1. ParentsStay
    <3> HIDE DEF seen
    <3> QED BY <1>2, <1>3, <1>6 DEF ParentsStay, ParentsOpen
  <2>2. Others(c) /\ ~Taken(c)' /\ CallOf(c)' /\ Barred(c)'
    BY <1>6, SlotFreed
  <2>3. Silent(c)
    BY <1>5, <2>2 DEF Silent
  <2> QED BY <1>1, <1>4, <2>1, <2>2, <2>3 DEF StepOf
<1>7. ASSUME ~moves, Goes(c, "held"),
             ledger' = [seen EXCEPT ![r].open = TRUE, ![r].parent = np]
      PROVE  StepOf(c)
  <2>1. /\ Others(c) /\ Taken(c)' /\ CallOf(c)'
        /\ inflight'[c].stage = "held" /\ inflight'[c].req = x.req
        /\ inflight'[c].caller = x.caller /\ inflight'[c].foreign = x.foreign
    BY <1>1, <1>7, SlotGoes
  <2>2. Silent(c)
    BY <1>1, <1>5, <2>1 DEF Silent
  <2>3. np \in DoorRuns \cup {Nothing}
    <3> HIDE DEF seen
    <3> QED BY <1>2, <1>3 DEF Account
  <2>4. /\ ledger' \in [DoorRuns -> Account]
        /\ ledger'[r].open /\ ledger'[r].parent = np
        /\ \A q \in DoorRuns \ {r} : ledger'[q] = seen[q]
    <3> DEFINE a == [seen[r] EXCEPT !.open = TRUE]
               b == [a EXCEPT !.parent = np]
    <3>1. a \in Account /\ a.open
      <4> HIDE DEF seen
      <4> QED BY <1>2, <1>3 DEF Account
    <3>2. b \in Account /\ b.open /\ b.parent = np
      <4> HIDE DEF a, np
      <4> QED BY <3>1, <2>3 DEF Account
    <3>3. ledger' = [seen EXCEPT ![r] = b]
      <4> HIDE DEF seen, np
      <4> QED BY <1>2, <1>3, <1>7
    <3> HIDE DEF seen, np, b
    <3> QED BY <1>2, <1>3, <3>2, <3>3
  <2>5. ledger[r].parent # Nothing => np = ledger[r].parent
    <3>1. ledger[r].parent # Nothing => seen[r].open /\ above = ledger[r].parent
      <4> HIDE DEF seen
      <4> QED BY <1>2, <1>3 DEF ParentsOpen
    <3> HIDE DEF seen
    <3> QED BY <1>7, <3>1
  <2>6. ParentsStay
    <3>1. ASSUME NEW q \in DoorRuns, ledger[q].parent # Nothing PROVE ledger'[q].parent = ledger[q].parent
      <4> HIDE DEF seen, np
      <4> QED BY <1>3, <2>4, <2>5, <3>1
    <3>2. ASSUME NEW q \in DoorRuns, ledger'[q].parent # Nothing PROVE ledger'[q].open
      <4> HIDE DEF seen, np
      <4> QED BY <1>2, <1>3, <2>4, <3>2 DEF ParentsOpen
    <3> QED BY <2>4, <3>1, <3>2 DEF ParentsStay
  <2>7. Barred(c)'
    <3> DEFINE g == ledger'[r].parent
    <3>1. p \notin x.foreign
      BY <1>1, <1>2 DEF Barred
    <3>2. ASSUME NEW q \in x.foreign
          PROVE  /\ q \in DoorRuns \ {r} /\ q \in {p, g} /\ q # Nothing
                 /\ Foreign(x.caller.who, x.caller.key, run_owners[q])
      <4>1. /\ q \in DoorRuns \ {r} /\ q \in {p, ledger[r].parent} /\ q # Nothing
            /\ Foreign(x.caller.who, x.caller.key, run_owners[q])
        BY <1>1, <1>2, <3>2 DEF Barred
      <4> HIDE DEF np
      <4> QED BY <2>4, <2>5, <4>1
    <3>3. p \in {Nothing, g}
      BY <2>4
    <3> HIDE DEF x
    <3> QED BY <1>1, <2>1, <3>1, <3>2, <3>3 DEF Barred
  <2> QED BY <1>1, <1>4, <2>1, <2>2, <2>6, <2>7 DEF StepOf
<1>8. (ledger' = seen /\ Leaves(c))
      \/ (~moves /\ Goes(c, "held") /\ ledger' = [seen EXCEPT ![r].open = TRUE, ![r].parent = np])
  BY DEF OpenRun
<1> HIDE DEF seen, moves, np
<1> QED BY <1>6, <1>7, <1>8

LEMMA HeldStep ==
  ASSUME CallerInv, NEW c \in Slots, CheckHeld(c)
  PROVE  StepOf(c)
<1> DEFINE x == inflight[c]  r == x.req.run  h == ledger[r].parent
<1>1. /\ x.stage = "held" /\ Taken(c)
      /\ door' = door /\ ledger' = ledger /\ charged' = charged /\ run_owners' = run_owners
  BY DEF CheckHeld, Taken, FreeSlot
<1>2. CASE foreign_run_refused(c)
  BY <1>1, <1>2, RefusedStep
<1>3. ASSUME ~(x.req.parent = Nothing /\ foreign_parent_refusal(c, h)), Goes(c, "charge"), stats' = stats
      PROVE  StepOf(c)
  <2>1. /\ Others(c) /\ Taken(c)' /\ CallOf(c)'
        /\ inflight'[c].stage = "charge" /\ inflight'[c].req = x.req
        /\ inflight'[c].caller = x.caller /\ inflight'[c].foreign = x.foreign
    BY <1>1, <1>3, SlotGoes
  <2>2. Silent(c)
    BY <1>1, <1>3, <2>1 DEF Silent, CallerInv, StatTypes
  <2>3. Barred(c)
    BY DEF CallerInv, ParentInv
  <2>4. x.req.parent \notin x.foreign /\ x.req.parent \in {Nothing, h}
    BY <1>1, <2>3 DEF Barred
  <2>5. h \notin x.foreign
    <3>1. CASE x.req.parent # Nothing BY <2>4, <3>1
    <3>2. CASE x.req.parent = Nothing
      BY <1>1, <1>3, <2>3, <3>2 DEF Barred, foreign_parent_refusal
    <3> QED BY <3>1, <3>2
  <2>6. Barred(c)'
    <3>1. ASSUME NEW q \in x.foreign
          PROVE  /\ q \in DoorRuns \ {r} /\ q \in {x.req.parent, h} /\ q # Nothing
                 /\ Foreign(x.caller.who, x.caller.key, run_owners[q])
      BY <1>1, <2>3, <3>1 DEF Barred
    <3> HIDE DEF x
    <3> QED BY <1>1, <2>1, <2>4, <2>5, <3>1 DEF Barred
  <2> QED BY <1>1, <2>1, <2>2, <2>6, TablesKept DEF StepOf
<1> QED BY <1>2, <1>3 DEF CheckHeld

(* A key that matches the map is charged to the unit its binding names; a  *)
(* key the map leaves out always mismatches a map that has any entry.      *)
LEMMA KeyPays ==
  ASSUME NEW k, k # Nothing, NEW agent, ~resolve(k, agent).mismatch
  PROVE  resolve(k, agent).unit = UnitOf(k)
<1>1. CASE k \in DOMAIN Bindings
  BY <1>1 DEF resolve, UnitOf
<1>2. CASE k \notin DOMAIN Bindings
  <2>1. ~MapEnabled /\ resolve(k, agent).unit = prefix_unit(agent)
    <3> HIDE DEF MapEnabled
    <3> QED BY <1>2 DEF resolve
  <2>2. DOMAIN PrefixList = {}
    BY <2>1 DEF MapEnabled
  <2>3. prefix_unit(agent) = Nothing
    BY <2>2 DEF prefix_unit
  <2> QED BY <1>2, <2>1, <2>3 DEF UnitOf
<1> QED BY <1>1, <1>2

LEMMA CallPays ==
  ASSUME NEW x, KeyCaller(x.caller), x.caller.who # Nothing, x.caller.who[1] = "key",
         ~Identity(x).mismatch
  PROVE  Identity(x).unit = UnitOf(x.caller.who[2])
<1> DEFINE found == resolve(x.caller.key, x.req.agent)
<1>1. /\ x.caller.token = Nothing /\ x.caller.key # Nothing /\ x.caller.who = <<"key", x.caller.key>>
  BY DEF KeyCaller, Key
<1>2. x.caller.who[2] = x.caller.key
  BY <1>1
<1>3. found = [unit |-> found.unit, mismatch |-> found.mismatch]
  BY DEF resolve
<1>4. \E b : Identity(x) = [found EXCEPT !.mismatch = @ \/ b]
  BY <1>1 DEF Identity
<1>5. PICK b : Identity(x) = [found EXCEPT !.mismatch = @ \/ b]
  BY <1>4
<1> HIDE DEF found
<1>6. Identity(x).unit = found.unit /\ (found.mismatch => Identity(x).mismatch)
  BY <1>3, <1>5
<1>7. ~found.mismatch
  BY <1>6
<1> QED BY <1>1, <1>2, <1>6, <1>7, KeyPays DEF found

LEMMA ChargeStep ==
  ASSUME CallerInv, NEW c \in Slots, Charge(c)
  PROVE  StepOf(c)
<1> DEFINE x == inflight[c]  id == Identity(x)  r == x.req.run  p == ledger[r].parent
           new == [who |-> x.caller.who, unit |-> id.unit, barred |-> p \in x.foreign]
           table == [q \in DoorRuns |-> IF q \in {r, p} THEN [ledger[q] EXCEPT !.admitted = TRUE] ELSE ledger[q]]
           wrong == id.mismatch /\ Strict(x) = "Enforce"
<1> HIDE DEF id
<1>1. /\ x.stage = "charge" /\ Leaves(c)
      /\ UNCHANGED <<door, run_owners, window, moment, arrived, refusals, reports, forgot>>
      /\ stats' = IF id.mismatch /\ Strict(x) # "Off"
                  THEN Counted(stats, x.caller.who, "mismatches") ELSE stats
      /\ (ledger' = ledger /\ charged' = charged)
         \/ (~wrong /\ ledger' = table /\ charged' = charged \cup {new})
  BY Zenon DEF Charge, id
<1>2. Taken(c) /\ CallOf(c) /\ Barred(c) /\ OwnersStay
  BY <1>1, TakenAt, TablesKept DEF CallerInv, ParentInv
<1>3. Others(c) /\ ~Taken(c)' /\ CallOf(c)' /\ Barred(c)'
  BY <1>1, SlotFreed
<1>4. Silent(c) \/ GoesWrong(c)
  <2>1. CASE id.mismatch /\ Strict(x) # "Off"
    BY <1>1, <1>2, <1>3, <2>1 DEF GoesWrong
  <2>2. CASE ~(id.mismatch /\ Strict(x) # "Off")
    BY <1>1, <1>3, <2>2 DEF Silent, CallerInv, StatTypes
  <2> QED BY <2>1, <2>2
<1>5. CASE ledger' = ledger /\ charged' = charged
  BY <1>1, <1>2, <1>3, <1>4, <1>5, TablesKept DEF StepOf
<1>6. ASSUME ~wrong, ledger' = table, charged' = charged \cup {new}
      PROVE  StepOf(c)
  <2>1. r \in DoorRuns /\ ledger \in [DoorRuns -> Account] /\ ParentsOpen
    BY <1>2, FrontDoorAssumption DEF CallOf, FrontDoorAssumption, CallerInv, FrontTypes, ParentInv
  <2>2. ParentsStay
    <3>1. ASSUME NEW q \in DoorRuns
          PROVE  table[q] \in Account /\ table[q].parent = ledger[q].parent /\ table[q].open = ledger[q].open
      BY <2>1 DEF Account
    <3>2. table \in [DoorRuns -> Account]
      <4>1. table = [q \in DoorRuns |-> table[q]]
        OBVIOUS
      <4> HIDE DEF table
      <4> QED BY <3>1, <4>1
    <3> HIDE DEF table
    <3> QED BY <1>6, <2>1, <3>1, <3>2 DEF ParentsStay, ParentsOpen
  <2>3. ~new.barred /\ new.who = x.caller.who /\ new.unit = id.unit
    <3>1. p \notin x.foreign
      BY <1>1, <1>2 DEF Barred
    <3> HIDE DEF x, p
    <3>2. new.barred = (p \in x.foreign) /\ new.who = x.caller.who /\ new.unit = id.unit
      OBVIOUS
    <3> QED BY <3>1, <3>2, Zenon DEF x, p
  <2>4. ParentGaveLeave'
    <3> HIDE DEF new
    <3> QED BY <1>6, <2>3 DEF CallerInv, ParentInv, ParentGaveLeave
  <2>5. ASSUME door.strict = "Enforce", x.caller.who # Nothing, x.caller.who[1] = "key"
        PROVE  id.unit = UnitOf(x.caller.who[2])
    <3>1. KeyCaller(x.caller) /\ x.caller.token = Nothing
      BY <1>2, <2>5 DEF CallOf, KeyCaller
    <3>2. ~id.mismatch
      BY <1>6, <2>5, <3>1 DEF Strict
    <3> QED BY <2>5, <3>1, <3>2, CallPays DEF id
  <2>6. UnitsFixed'
    <3>1. UnitsFixed /\ door' = door
      BY <1>1 DEF CallerInv
    <3> HIDE DEF new, x
    <3> QED BY <1>6, <2>3, <2>5, <3>1 DEF UnitsFixed
  <2> QED BY <1>1, <1>2, <1>3, <1>4, <2>2, <2>4, <2>6 DEF StepOf
<1> QED BY <1>1, <1>5, <1>6

-----------------------------------------------------------------------------
LEMMA CallerStart == FrontInit => CallerInv
<1> SUFFICES ASSUME FrontInit PROVE CallerInv
  OBVIOUS
<1>1. /\ door \in Doors /\ inflight = [c \in Slots |-> FreeSlot]
      /\ run_owners = [r \in DoorRuns |-> Nothing]
      /\ ledger = [r \in DoorRuns |-> [open |-> FALSE, parent |-> Nothing, admitted |-> FALSE]]
      /\ stats = [keys |-> <<>>, unauthorized |-> 0] /\ charged = {}
  BY DEF FrontInit
<1>2. FrontTypes
  BY <1>1 DEF FrontTypes, Account
<1>3. DOMAIN stats.keys = {} /\ stats.keys \in [DOMAIN stats.keys -> [calls : Nat, mismatches : Nat]]
      /\ stats = [keys |-> stats.keys, unauthorized |-> stats.unauthorized]
  BY <1>1
<1>4. \A c \in Slots : ~Taken(c) /\ inflight[c].stage = "free"
  BY <1>1 DEF Taken, FreeSlot
<1>5. StatTypes /\ CallsCounted
  BY <1>3, <1>4 DEF StatTypes, CallsCounted
<1>6. UnitsFixed /\ ParentInv /\ \A c \in Slots : CallOf(c)
  BY <1>1, <1>4 DEF UnitsFixed, ParentInv, ParentsOpen, ParentGaveLeave, Barred, CallOf
<1> QED BY <1>2, <1>5, <1>6 DEF CallerInv

LEMMA CallerStep == CallerInv /\ [FrontNext]_frontvars => CallerInv'
<1> SUFFICES ASSUME CallerInv, [FrontNext]_frontvars PROVE CallerInv'
  OBVIOUS
<1>1. ASSUME NEW c \in Slots, NEW r \in door.senders, resolve_caller(c, r) PROVE CallerInv'
  BY <1>1, ResolveStep, StepKeeps
<1>2. ASSUME NEW c \in Slots, ClaimRun(c) PROVE CallerInv'
  BY <1>2, ClaimStep, StepKeeps
<1>3. ASSUME NEW c \in Slots, CheckDeclared(c) PROVE CallerInv'
  BY <1>3, DeclaredStep, StepKeeps
<1>4. ASSUME NEW c \in Slots, OpenRun(c) PROVE CallerInv'
  BY <1>4, OpenStep, StepKeeps
<1>5. ASSUME NEW c \in Slots, CheckHeld(c) PROVE CallerInv'
  BY <1>5, HeldStep, StepKeeps
<1>6. ASSUME NEW c \in Slots, Charge(c) PROVE CallerInv'
  BY <1>6, ChargeStep, StepKeeps
<1>7. ASSUME UNCHANGED <<door, inflight, run_owners, ledger, stats, charged>> PROVE CallerInv'
  BY <1>7 DEF CallerInv, FrontTypes, StatTypes, UnitsFixed, ParentInv, ParentsOpen, ParentGaveLeave, Barred,
              CallsCounted, CallOf, Pending, Taken
<1>8. CASE MomentPasses
  BY <1>7, <1>8 DEF MomentPasses
<1>9. CASE UNCHANGED frontvars
  BY <1>7, <1>9 DEF frontvars
<1> QED BY <1>1, <1>2, <1>3, <1>4, <1>5, <1>6, <1>8, <1>9 DEF FrontNext

(* The caller pays, for every interleaving of calls: on the one unit of    *)
(* its key, under parents that gave leave, and a call is counted against   *)
(* its key at most once.                                                   *)
LEMMA CallerInvPays == CallerInv => CallerPays
<1> SUFFICES ASSUME CallerInv PROVE CallerPays
  OBVIOUS
<1>1. SpendStays
  BY DEF CallerInv, UnitsFixed, SpendStays
<1>2. ParentGaveLeave
  BY DEF CallerInv, ParentInv
<1>3. ASSUME NEW k \in DOMAIN stats.keys PROVE stats.keys[k].mismatches <= stats.keys[k].calls
  <2>1. Cardinality(Pending(k)) \in Nat
    BY PendingFinite, FS_CardinalityType
  <2>2. stats.keys[k].mismatches \in Nat /\ stats.keys[k].calls \in Nat
        /\ stats.keys[k].mismatches + Cardinality(Pending(k)) <= stats.keys[k].calls
    BY DEF CallerInv, StatTypes, CallsCounted
  <2> HIDE DEF Pending
  <2> QED BY <2>1, <2>2
<1> QED BY <1>1, <1>2, <1>3 DEF CallerPays, MismatchesAreCalls

THEOREM FrontCallerPays == FrontSpec => []CallerPays
<1>1. FrontInit => CallerInv
  BY CallerStart
<1>2. CallerInv /\ [FrontNext]_frontvars => CallerInv'
  BY CallerStep
<1>3. CallerInv => CallerPays
  BY CallerInvPays
<1> QED BY <1>1, <1>2, <1>3, PTL DEF FrontSpec

-----------------------------------------------------------------------------
(* The limiter.                                                            *)
LimiterInv == LimiterTypes /\ MapTypes /\ MapOwes /\ MinuteInv

Base(source) == IF Full(source) THEN <<>> ELSE window.sources
HeldBefore(source) == IF source \in DOMAIN Base(source) THEN Base(source)[source].held ELSE 0
Emitted == IF MinuteOver THEN 0 ELSE window.emitted

(* What admit answers, and the window it leaves.                           *)
Admits(source, a) ==
  /\ a.event \in BOOLEAN
  /\ a.window = [started |-> a.window.started, emitted |-> a.window.emitted, sources |-> a.window.sources]
  /\ a.window.started = IF MinuteOver THEN moment ELSE window.started
  /\ a.event => Emitted < PER_MINUTE_CAP
  /\ a.window.emitted = IF a.event THEN Emitted + 1 ELSE Emitted
  /\ a.unreported = HeldBefore(source) /\ HeldBefore(source) \in Nat
  /\ DOMAIN a.window.sources = DOMAIN Base(source) \cup {source}
  /\ \A s \in DOMAIN Base(source) \ {source} : a.window.sources[s] = Base(source)[s]
  /\ a.window.sources[source] = [last |-> a.window.sources[source].last,
                                 held |-> a.window.sources[source].held]
  /\ a.window.sources[source].held = IF a.event THEN 0 ELSE HeldBefore(source) + 1

LEMMA AdmitIs ==
  ASSUME LimiterTypes, MapTypes, NEW source, NEW a, a = admit(source)
  PROVE  Admits(source, a)
<1> DEFINE w == current_window(source)  e == Entry(w, source)
           goes == Due(e) /\ w.emitted < PER_MINUTE_CAP
           kept == IF goes THEN [last |-> moment, held |-> 0] ELSE [e EXCEPT !.held = @ + 1]
           left == [w EXCEPT !.sources = With(@, source, kept), !.emitted = IF goes THEN @ + 1 ELSE @]
<1>1. a = [window |-> left, event |-> goes, unreported |-> e.held]
  BY DEF admit
<1>2. a.window = left /\ (a.event <=> goes) /\ a.event \in BOOLEAN /\ a.unreported = e.held
  <2> HIDE DEF left, e, goes
  <2>1. a.window = left /\ a.event = goes /\ a.unreported = e.held
    BY <1>1
  <2>2. goes \in BOOLEAN
    BY DEF goes
  <2> QED BY <2>1, <2>2
<1>3. /\ w = [started |-> w.started, emitted |-> w.emitted, sources |-> w.sources]
      /\ w.started = IF MinuteOver THEN moment ELSE window.started
      /\ w.emitted = Emitted /\ w.sources = Base(source)
  BY DEF current_window, Emitted, Base
<1>4. e = [last |-> e.last, held |-> e.held] /\ e.held = HeldBefore(source) /\ e.held \in Nat
  <2>1. CASE source \in DOMAIN Base(source)
    <3>0. DOMAIN <<>> = {}
      OBVIOUS
    <3>1. Base(source) = window.sources /\ source \in DOMAIN window.sources
      <4>1. CASE Full(source)
        BY <2>1, <3>0, <4>1 DEF Base
      <4>2. CASE ~Full(source)
        BY <2>1, <4>2 DEF Base
      <4> QED BY <4>1, <4>2
    <3>2. e = window.sources[source]
      BY <1>3, <2>1, <3>1 DEF Entry
    <3>3. window.sources[source] = [last |-> window.sources[source].last, held |-> window.sources[source].held]
          /\ window.sources[source].held \in Nat
      BY <3>1 DEF MapTypes
    <3> HIDE DEF e
    <3> QED BY <2>1, <3>1, <3>2, <3>3 DEF HeldBefore
  <2>2. CASE source \notin DOMAIN Base(source)
    <3>1. e = [last |-> Nothing, held |-> 0]
      BY <1>3, <2>2 DEF Entry
    <3> HIDE DEF e
    <3> QED BY <3>1, <2>2 DEF HeldBefore
  <2> QED BY <2>1, <2>2
<1>5. /\ left = [started |-> left.started, emitted |-> left.emitted, sources |-> left.sources]
      /\ left.started = w.started
      /\ left.emitted = IF goes THEN w.emitted + 1 ELSE w.emitted
      /\ left.sources = With(w.sources, source, kept)
  <2> DEFINE ws == With(w.sources, source, kept)
             en == IF goes THEN w.emitted + 1 ELSE w.emitted
             z == [w EXCEPT !.sources = ws]
  <2>1. z = [started |-> w.started, emitted |-> w.emitted, sources |-> ws]
    <3> HIDE DEF w, ws
    <3> QED BY <1>3
  <2>2. left = [z EXCEPT !.emitted = en]
    <3>1. z.emitted = w.emitted
      <4> HIDE DEF w, ws, z
      <4> QED BY <2>1
    <3> HIDE DEF w, goes, kept
    <3> QED BY <3>1
  <2>3. left = [started |-> w.started, emitted |-> en, sources |-> ws]
    <3> HIDE DEF w, ws, en, z, left
    <3> QED BY <2>1, <2>2
  <2> HIDE DEF w, ws, en, left
  <2>4. left.started = w.started /\ left.emitted = en /\ left.sources = ws
    BY <2>3
  <2> QED BY <2>3, <2>4 DEF ws, en
<1>6. kept = [last |-> kept.last, held |-> kept.held] /\ kept.held = IF goes THEN 0 ELSE e.held + 1
  <2> HIDE DEF e, goes
  <2> QED BY <1>4
<1>7. goes => w.emitted < PER_MINUTE_CAP
  OBVIOUS
<1> HIDE DEF w, e, goes, kept, left
<1>8. /\ DOMAIN left.sources = DOMAIN Base(source) \cup {source}
      /\ \A s \in DOMAIN Base(source) \ {source} : left.sources[s] = Base(source)[s]
      /\ left.sources[source] = kept
  BY <1>3, <1>5 DEF With
<1> QED BY <1>2, <1>3, <1>4, <1>5, <1>6, <1>7, <1>8 DEF Admits

(* What the map owes the bus after a refusal: one more, or nothing.        *)
LEMMA ReportMap ==
  ASSUME LimiterTypes, MapTypes, MapOwes, NEW source, report(source)
  PROVE  MapTypes' /\ MapOwes'
<1> DEFINE a == admit(source)
           told == IF a.event THEN 1 + a.unreported ELSE 0
           old == IF source \in DOMAIN refusals THEN refusals[source] ELSE [count |-> 0, told |-> 0]
           new == [count |-> old.count + 1, told |-> old.told + told]
<1> HIDE DEF a
<1>1. /\ window' = a.window /\ refusals' = With(refusals, source, new)
      /\ forgot' = forgot \cup (IF Full(source) THEN {"cleared"} ELSE {})
  BY Zenon DEF report, a
<1>2. PICK b : b = a
  OBVIOUS
<1>3. /\ b.event \in BOOLEAN
      /\ b.unreported = HeldBefore(source) /\ HeldBefore(source) \in Nat
      /\ DOMAIN b.window.sources = DOMAIN Base(source) \cup {source}
      /\ \A s \in DOMAIN Base(source) \ {source} : b.window.sources[s] = Base(source)[s]
      /\ b.window.sources[source] = [last |-> b.window.sources[source].last,
                                     held |-> b.window.sources[source].held]
      /\ b.window.sources[source].held = IF b.event THEN 0 ELSE HeldBefore(source) + 1
  <2>1. b = admit(source)
    BY <1>2 DEF a
  <2>2. Admits(source, b)
    BY <2>1, AdmitIs
  <2> QED BY <2>2 DEF Admits
<1>4. window' = b.window /\ told = IF b.event THEN 1 + HeldBefore(source) ELSE 0
  BY <1>1, <1>2, <1>3
<1>5. told \in Nat /\ told + b.window.sources[source].held = HeldBefore(source) + 1
  <2> HIDE DEF told
  <2> QED BY <1>3, <1>4
<1>6. old.count \in Nat /\ old.told \in Nat
  BY DEF MapTypes
<1>7. new.count = old.count + 1 /\ new.told = old.told + told /\ new.count \in Nat /\ new.told \in Nat
  <2> HIDE DEF old, told
  <2> QED BY <1>5, <1>6
<1>8. /\ DOMAIN refusals' = DOMAIN refusals \cup {source}
      /\ refusals'[source] = new
      /\ \A s \in DOMAIN refusals \ {source} : refusals'[s] = refusals[s]
  <2> HIDE DEF new
  <2> QED BY <1>1 DEF With
<1>9. \A s \in DOMAIN Base(source) :
        /\ s \in DOMAIN window.sources /\ Base(source)[s] = window.sources[s]
  <2>1. DOMAIN <<>> = {}
    OBVIOUS
  <2>2. CASE Full(source) BY <2>1, <2>2 DEF Base
  <2>3. CASE ~Full(source) BY <2>3 DEF Base
  <2> QED BY <2>2, <2>3
<1>10. HeldBefore(source) = IF source \in DOMAIN Base(source) THEN Base(source)[source].held ELSE 0
  BY DEF HeldBefore
<1> HIDE DEF old, told, new
<1>11. MapTypes'
  <2>1. ASSUME NEW s \in DOMAIN window'.sources
        PROVE  /\ window'.sources[s] = [last |-> window'.sources[s].last, held |-> window'.sources[s].held]
               /\ window'.sources[s].held \in Nat
    <3>1. CASE s = source
      BY <1>3, <1>4, <3>1
    <3>2. ASSUME s # source
          PROVE  /\ window'.sources[s] = [last |-> window'.sources[s].last, held |-> window'.sources[s].held]
                 /\ window'.sources[s].held \in Nat
      <4>1. s \in DOMAIN window.sources /\ window'.sources[s] = window.sources[s]
        BY <1>3, <1>4, <1>9, <2>1, <3>2
      <4>2. /\ window.sources[s] = [last |-> window.sources[s].last, held |-> window.sources[s].held]
            /\ window.sources[s].held \in Nat
        BY <4>1 DEF MapTypes
      <4> QED BY <4>1, <4>2
    <3> QED BY <3>1, <3>2
  <2>2. ASSUME NEW s \in DOMAIN refusals' PROVE refusals'[s].told \in Nat /\ refusals'[s].count \in Nat
    BY <1>7, <1>8 DEF MapTypes
  <2> QED BY <2>1, <2>2, Zenon DEF MapTypes
<1>12. MapOwes'
  <2> SUFFICES ASSUME "cleared" \notin forgot'
               PROVE  /\ DOMAIN window'.sources = DOMAIN refusals'
                      /\ \A s \in DOMAIN refusals' : refusals'[s].count = refusals'[s].told + window'.sources[s].held
    BY Zenon DEF MapOwes
  <2>1. "cleared" \notin forgot /\ ~Full(source)
    BY <1>1
  <2>2. Base(source) = window.sources
    BY <2>1 DEF Base
  <2>3. /\ DOMAIN window.sources = DOMAIN refusals
        /\ \A s \in DOMAIN refusals : refusals[s].count = refusals[s].told + window.sources[s].held
    BY <2>1 DEF MapOwes
  <2>4. ASSUME NEW s \in DOMAIN refusals' PROVE refusals'[s].count = refusals'[s].told + window'.sources[s].held
    <3>1. CASE s # source
      BY <3>1, <1>3, <1>4, <1>8, <2>2, <2>3
    <3>2. CASE s = source
      <4>1. old.count = old.told + HeldBefore(source)
        BY <1>10, <2>2, <2>3 DEF old
      <4>2. b.window.sources[source].held \in Nat
        BY <1>3
      <4>3. new.count = new.told + b.window.sources[source].held
        BY <1>3, <1>5, <1>6, <1>7, <4>1, <4>2
      <4> QED BY <1>4, <1>8, <3>2, <4>3
    <3> QED BY <3>1, <3>2
  <2> QED BY <1>3, <1>4, <1>8, <2>2, <2>3, <2>4
<1> QED BY <1>11, <1>12

-----------------------------------------------------------------------------
(* Counting events by their time.                                          *)
LEMMA AtTimes ==
  ASSUME NEW rs \in Seq(Event), NEW j \in DOMAIN rs
  PROVE  rs[j] \in Event /\ rs[j].at \in Nat
<1>1. rs[j] \in Event
  OBVIOUS
<1>2. \A e \in Event : e.at \in Nat
  BY DEF Event
<1> QED BY <1>1, <1>2

LEMMA AtFinite ==
  ASSUME NEW rs \in Seq(Event), NEW S
  PROVE  IsFiniteSet(At(rs, S)) /\ Cardinality(At(rs, S)) \in Nat
<1>1. At(rs, S) \subseteq 1 .. Len(rs) /\ Len(rs) \in Nat
  BY DEF At
<1>2. IsFiniteSet(1 .. Len(rs))
  BY <1>1, FS_Interval
<1> QED BY <1>1, <1>2, FS_Subset, FS_CardinalityType

LEMMA AtWithin ==
  ASSUME NEW rs \in Seq(Event), NEW S, NEW T, \A j \in DOMAIN rs : rs[j].at \in S => rs[j].at \in T
  PROVE  Cardinality(At(rs, S)) <= Cardinality(At(rs, T))
<1>1. At(rs, S) \subseteq At(rs, T)
  BY DEF At
<1> QED BY <1>1, AtFinite, FS_Subset

LEMMA AtUnion ==
  ASSUME NEW rs \in Seq(Event), NEW S, NEW T, NEW U,
         \A j \in DOMAIN rs : rs[j].at \in U => rs[j].at \in S \/ rs[j].at \in T
  PROVE  Cardinality(At(rs, U)) <= Cardinality(At(rs, S)) + Cardinality(At(rs, T))
<1> DEFINE A == At(rs, S)  B == At(rs, T)  C == At(rs, U)
<1>1. C \subseteq A \cup B
  BY DEF At
<1>2. /\ IsFiniteSet(A) /\ IsFiniteSet(B) /\ Cardinality(A) \in Nat /\ Cardinality(B) \in Nat
      /\ Cardinality(C) \in Nat
  BY AtFinite
<1> HIDE DEF A, B, C
<1>3. /\ IsFiniteSet(A \cup B)
      /\ Cardinality(A \cup B) = Cardinality(A) + Cardinality(B) - Cardinality(A \cap B)
  BY <1>2, FS_Union
<1>4. Cardinality(A \cap B) \in Nat
  BY <1>2, FS_Intersection, FS_CardinalityType
<1>5. Cardinality(C) <= Cardinality(A \cup B) /\ Cardinality(A \cup B) \in Nat
  BY <1>1, <1>3, FS_Subset, FS_CardinalityType
<1>6. Cardinality(C) <= Cardinality(A) + Cardinality(B)
  BY <1>2, <1>3, <1>4, <1>5
<1> QED BY <1>6 DEF A, B, C

LEMMA AtAppend ==
  ASSUME NEW rs \in Seq(Event), NEW e \in Event, NEW S
  PROVE  /\ e.at \in S => Cardinality(At(Append(rs, e), S)) = Cardinality(At(rs, S)) + 1
         /\ e.at \notin S => Cardinality(At(Append(rs, e), S)) = Cardinality(At(rs, S))
<1> DEFINE n == Len(rs) + 1
<1>1. /\ Len(rs) \in Nat /\ DOMAIN rs = 1 .. Len(rs) /\ DOMAIN Append(rs, e) = 1 .. n
      /\ \A j \in 1 .. Len(rs) : Append(rs, e)[j] = rs[j]
      /\ Append(rs, e)[n] = e
  OBVIOUS
<1>2. e.at \in S => At(Append(rs, e), S) = At(rs, S) \cup {n}
  <2> SUFFICES ASSUME e.at \in S PROVE At(Append(rs, e), S) = At(rs, S) \cup {n}
    OBVIOUS
  <2>1. \A j : j \in 1 .. n <=> j \in 1 .. Len(rs) \/ j = n
    BY <1>1
  <2> HIDE DEF n
  <2> QED BY <1>1, <2>1 DEF At
<1>3. e.at \notin S => At(Append(rs, e), S) = At(rs, S)
  <2> SUFFICES ASSUME e.at \notin S PROVE At(Append(rs, e), S) = At(rs, S)
    OBVIOUS
  <2>1. \A j : j \in 1 .. n <=> j \in 1 .. Len(rs) \/ j = n
    BY <1>1
  <2> HIDE DEF n
  <2> QED BY <1>1, <2>1 DEF At
<1>4. n \notin At(rs, S)
  BY <1>1 DEF At
<1>5. IsFiniteSet(At(rs, S))
  BY AtFinite
<1>6. Cardinality(At(rs, S) \cup {n}) = Cardinality(At(rs, S)) + 1
  <2> HIDE DEF n
  <2> QED BY <1>4, <1>5, FS_AddElement
<1> QED BY <1>2, <1>3, <1>6

-----------------------------------------------------------------------------
(* A new minute: what the old window counted is what lies before the new   *)
(* one, within a minute of it.                                             *)
LEMMA MinuteTurns ==
  ASSUME NEW rs \in Seq(Event), NEW st \in Nat, NEW em \in Nat, NEW m \in Nat,
         Minutes(rs, st, em, m), m - st >= MINUTE
  PROVE  Minutes(rs, m, 0, m)
<1>1. MINUTE \in Nat \ {0} /\ PER_MINUTE_CAP \in Nat \ {0}
  BY FrontDoorAssumption DEF FrontDoorAssumption
<1>2. \A j \in DOMAIN rs : rs[j].at \in Nat /\ rs[j].at < m
  <2>1. \A j \in DOMAIN rs : rs[j].at \in Nat /\ rs[j].at < st + MINUTE
    BY AtTimes DEF Minutes
  <2> QED BY <1>1, <2>1
<1>3. Cardinality(At(rs, m .. m)) <= 0
  <2>1. At(rs, m .. m) = {}
    BY <1>2 DEF At
  <2>2. Cardinality(At(rs, m .. m)) = 0
    BY <2>1, FS_EmptySet
  <2> QED BY <2>2
<1>4. ASSUME NEW a \in Int, m - MINUTE < a
      PROVE  Cardinality(At(rs, a .. m - 1)) <= PER_MINUTE_CAP
  <2>1. \A j \in DOMAIN rs : rs[j].at \in a .. m - 1 => rs[j].at \in st .. m
    BY <1>1, <1>2, <1>4
  <2>2. Cardinality(At(rs, a .. m - 1)) <= Cardinality(At(rs, st .. m))
    BY <2>1, AtWithin
  <2>3. Cardinality(At(rs, st .. m)) <= em /\ em <= PER_MINUTE_CAP
    BY DEF Minutes
  <2>4. Cardinality(At(rs, st .. m)) \in Nat /\ Cardinality(At(rs, a .. m - 1)) \in Nat
    BY AtFinite
  <2> QED BY <1>1, <2>2, <2>3, <2>4
<1>5. \A j \in DOMAIN rs : rs[j].at <= m /\ rs[j].at < m + MINUTE
  BY <1>1, <1>2
<1>6. m <= m /\ 0 <= PER_MINUTE_CAP
  BY <1>1
<1> QED BY <1>3, <1>4, <1>5, <1>6, Zenon DEF Minutes

(* An event in a window that has one left.                                 *)
LEMMA MinuteEmits ==
  ASSUME NEW rs \in Seq(Event), NEW st \in Nat, NEW em \in Nat, NEW m \in Nat, NEW e \in Event,
         Minutes(rs, st, em, m), m - st < MINUTE, em < PER_MINUTE_CAP, e.at = m
  PROVE  Minutes(Append(rs, e), st, em + 1, m)
<1> DEFINE new == Append(rs, e)
<1>1. MINUTE \in Nat \ {0} /\ PER_MINUTE_CAP \in Nat \ {0} /\ new \in Seq(Event)
  BY FrontDoorAssumption DEF FrontDoorAssumption
<1>2. st <= m /\ em + 1 <= PER_MINUTE_CAP
  BY <1>1 DEF Minutes
<1>3. \A j \in DOMAIN new : new[j].at \in Nat /\ new[j].at <= m /\ new[j].at < st + MINUTE
  <2>1. \A j \in DOMAIN new : new[j] = e \/ \E i \in DOMAIN rs : new[j] = rs[i]
    OBVIOUS
  <2>2. \A i \in DOMAIN rs : rs[i].at \in Nat /\ rs[i].at <= m /\ rs[i].at < st + MINUTE
    BY AtTimes DEF Minutes
  <2>3. e.at < st + MINUTE
    BY <1>1
  <2> HIDE DEF new
  <2> QED BY <2>1, <2>2, <2>3
<1>4. Cardinality(At(new, st .. m)) <= em + 1
  <2>1. Cardinality(At(new, st .. m)) = Cardinality(At(rs, st .. m)) + 1
    BY <1>2, AtAppend
  <2>2. Cardinality(At(rs, st .. m)) <= em /\ Cardinality(At(rs, st .. m)) \in Nat
    BY AtFinite DEF Minutes
  <2> QED BY <2>1, <2>2
<1>5. ASSUME NEW a \in Int, st - MINUTE < a
      PROVE  Cardinality(At(new, a .. st - 1)) <= PER_MINUTE_CAP
  <2>1. Cardinality(At(new, a .. st - 1)) = Cardinality(At(rs, a .. st - 1))
    BY <1>2, AtAppend
  <2> QED BY <2>1, <1>5 DEF Minutes
<1>6. ASSUME NEW a \in Int
      PROVE  Cardinality(At(new, a .. a + MINUTE - 1)) <= 2 * PER_MINUTE_CAP
  <2>1. CASE m \notin a .. a + MINUTE - 1
    <3>1. Cardinality(At(new, a .. a + MINUTE - 1)) = Cardinality(At(rs, a .. a + MINUTE - 1))
      BY <2>1, AtAppend
    <3> QED BY <3>1 DEF Minutes
  <2>2. CASE m \in a .. a + MINUTE - 1
    <3>1. st - MINUTE < a
      BY <1>1, <1>2, <2>2
    <3>2. \A j \in DOMAIN new : new[j].at \in a .. a + MINUTE - 1 => new[j].at \in a .. st - 1 \/ new[j].at \in st .. m
      <4> HIDE DEF new
      <4> QED BY <1>1, <1>3
    <3>3. Cardinality(At(new, a .. a + MINUTE - 1)) <= Cardinality(At(new, a .. st - 1)) + Cardinality(At(new, st .. m))
      BY <1>1, <3>2, AtUnion
    <3>4. /\ Cardinality(At(new, a .. a + MINUTE - 1)) \in Nat /\ Cardinality(At(new, a .. st - 1)) \in Nat
          /\ Cardinality(At(new, st .. m)) \in Nat
      BY <1>1, AtFinite
    <3>5. Cardinality(At(new, a .. st - 1)) <= PER_MINUTE_CAP
      BY <1>5, <3>1
    <3> QED BY <1>1, <1>2, <1>4, <3>3, <3>4, <3>5
  <2> QED BY <2>1, <2>2
<1> QED BY <1>2, <1>3, <1>4, <1>5, <1>6 DEF Minutes

(* The clock goes on.                                                      *)
LEMMA MinutePasses ==
  ASSUME NEW rs \in Seq(Event), NEW st \in Nat, NEW em \in Nat, NEW m \in Nat, Minutes(rs, st, em, m)
  PROVE  Minutes(rs, st, em, m + 1)
<1>1. \A j \in DOMAIN rs : rs[j].at \in Nat /\ rs[j].at <= m
  BY AtTimes DEF Minutes
<1>2. \A j \in DOMAIN rs : rs[j].at \in st .. m + 1 => rs[j].at \in st .. m
  BY <1>1
<1>3. Cardinality(At(rs, st .. m + 1)) <= Cardinality(At(rs, st .. m))
  BY <1>2, AtWithin
<1>4. Cardinality(At(rs, st .. m + 1)) <= em
  <2>1. Cardinality(At(rs, st .. m)) \in Nat /\ Cardinality(At(rs, st .. m + 1)) \in Nat
    BY AtFinite
  <2>2. Cardinality(At(rs, st .. m)) <= em
    BY DEF Minutes
  <2> QED BY <1>3, <2>1, <2>2
<1>5. \A j \in DOMAIN rs : rs[j].at <= m + 1
  BY <1>1
<1>6. st <= m + 1
  BY DEF Minutes
<1> QED BY <1>4, <1>5, <1>6 DEF Minutes

LEMMA ReportMinute ==
  ASSUME LimiterTypes, MapTypes, MinuteInv, NEW source \in ReportSource, report(source), moment' = moment
  PROVE  LimiterTypes' /\ MinuteInv'
<1> DEFINE a == admit(source)
           e == [at |-> moment, source |-> source]
<1> HIDE DEF a
<1>1. /\ window' = a.window
      /\ reports' = IF a.event THEN Append(reports, e) ELSE reports
      /\ forgot \subseteq forgot'
  BY DEF report, a
<1>2. PICK b : b = a
  OBVIOUS
<1>3. b = admit(source)
  BY <1>2 DEF a
<1>4. Admits(source, b)
  BY <1>3, AdmitIs
<1>5. window' = b.window /\ reports' = IF b.event THEN Append(reports, e) ELSE reports
  BY <1>1, <1>2
<1>6. PICK st, em : st = (IF MinuteOver THEN moment ELSE window.started) /\ em = Emitted
  OBVIOUS
<1>7. /\ window.started \in Nat /\ window.emitted \in Nat /\ moment \in Nat /\ reports \in Seq(Event)
  BY DEF LimiterTypes
<1>8. st \in Nat /\ em \in Nat
  BY <1>6, <1>7 DEF Emitted
<1>9. e \in Event /\ e.at = moment
  BY <1>7 DEF Event
<1>10. /\ window' = [started |-> window'.started, emitted |-> window'.emitted, sources |-> window'.sources]
       /\ window'.started = st
       /\ window'.emitted = IF b.event THEN em + 1 ELSE em
       /\ b.event => em < PER_MINUTE_CAP
       /\ b.event \in BOOLEAN
  <2>1. /\ b.window = [started |-> b.window.started, emitted |-> b.window.emitted, sources |-> b.window.sources]
        /\ b.window.started = st
        /\ b.event => em < PER_MINUTE_CAP
        /\ b.window.emitted = IF b.event THEN em + 1 ELSE em
        /\ b.event \in BOOLEAN
    BY <1>4, <1>6 DEF Admits
  <2> QED BY <2>1, <1>5
<1>11. LimiterTypes'
  <2>1. window'.started \in Nat /\ window'.emitted \in Nat
    BY <1>8, <1>10
  <2>2. reports' \in Seq(Event)
    <3> HIDE DEF e
    <3> QED BY <1>5, <1>7, <1>9
  <2>3. moment' \in Nat
    BY <1>7
  <2> QED BY <1>10, <2>1, <2>2, <2>3 DEF LimiterTypes
<1>12. ASSUME "back" \notin forgot'
       PROVE  Minutes(reports', window'.started, window'.emitted, moment)
  <2>1. Minutes(reports, window.started, window.emitted, moment)
    BY <1>1, <1>12 DEF MinuteInv
  <2>2. Minutes(reports, st, em, moment) /\ moment - st < MINUTE
    <3>0. MINUTE \in Nat \ {0} /\ window.started <= moment
      BY <2>1, FrontDoorAssumption DEF FrontDoorAssumption, Minutes
    <3>1. CASE MinuteOver
      <4>1. moment - window.started >= MINUTE
        BY <1>7, <3>0, <3>1 DEF MinuteOver
      <4>2. Minutes(reports, moment, 0, moment)
        BY <1>7, <2>1, <4>1, MinuteTurns
      <4>3. st = moment /\ em = 0
        BY <1>6, <3>1 DEF Emitted
      <4> QED BY <1>7, <3>0, <4>2, <4>3
    <3>2. CASE ~MinuteOver
      <4>1. st = window.started /\ em = window.emitted
        BY <1>6, <3>2 DEF Emitted
      <4>2. moment - window.started < MINUTE
        BY <1>7, <3>0, <3>2 DEF MinuteOver
      <4> QED BY <2>1, <4>1, <4>2
    <3> QED BY <3>1, <3>2
  <2>3. CASE b.event
    <3>1. Minutes(Append(reports, e), st, em + 1, moment)
      <4> HIDE DEF e
      <4> QED BY <1>7, <1>8, <1>9, <1>10, <2>2, <2>3, MinuteEmits
    <3>2. reports' = Append(reports, e) /\ window'.started = st /\ window'.emitted = em + 1
      <4> HIDE DEF e
      <4> QED BY <1>5, <1>10, <2>3
    <3> HIDE DEF e
    <3> QED BY <3>1, <3>2
  <2>4. CASE ~b.event
    BY <1>5, <1>10, <2>2, <2>4
  <2> QED BY <2>3, <2>4
<1> QED BY <1>11, <1>12 DEF MinuteInv

LEMMA LimiterKept ==
  ASSUME LimiterInv, UNCHANGED <<window, refusals, reports, forgot, moment>>
  PROVE  LimiterInv'
BY DEF LimiterInv, LimiterTypes, MapTypes, MapOwes, MinuteInv

LEMMA LimiterReports ==
  ASSUME LimiterInv, NEW source \in ReportSource, report(source), moment' = moment
  PROVE  LimiterInv'
BY ReportMap, ReportMinute DEF LimiterInv

LEMMA LimiterMoment ==
  ASSUME LimiterInv, MomentPasses
  PROVE  LimiterInv'
<1>1. /\ UNCHANGED <<window, refusals, reports>>
      /\ \/ moment' = moment + 1 /\ forgot' = forgot
         \/ moment > MINUTE /\ moment' = moment - 1 /\ forgot' = forgot \cup {"back"}
  BY DEF MomentPasses
<1>2. LimiterTypes /\ MINUTE \in Nat
  BY FrontDoorAssumption DEF LimiterInv, FrontDoorAssumption
<1>3. LimiterTypes'
  <2>1. moment' \in Nat
    BY <1>1, <1>2 DEF LimiterTypes
  <2> QED BY <1>1, <1>2, <2>1 DEF LimiterTypes
<1>4. MapTypes' /\ MapOwes'
  BY <1>1 DEF LimiterInv, MapTypes, MapOwes
<1>5. MinuteInv'
  <2> SUFFICES ASSUME "back" \notin forgot' PROVE Minutes(reports', window'.started, window'.emitted, moment')
    BY DEF MinuteInv
  <2>1. moment' = moment + 1 /\ forgot' = forgot
    BY <1>1
  <2>2. Minutes(reports, window.started, window.emitted, moment)
    BY <2>1 DEF LimiterInv, MinuteInv
  <2>3. Minutes(reports, window.started, window.emitted, moment + 1)
    BY <1>2, <2>2, MinutePasses DEF LimiterTypes
  <2> QED BY <1>1, <2>1, <2>3
<1> QED BY <1>3, <1>4, <1>5 DEF LimiterInv

LEMMA LimiterStart == FrontInit => LimiterInv
<1> SUFFICES ASSUME FrontInit PROVE LimiterInv
  OBVIOUS
<1>1. /\ window = [started |-> 0, emitted |-> 0, sources |-> <<>>]
      /\ moment = MINUTE /\ refusals = <<>> /\ reports = <<>>
  BY DEF FrontInit
<1>2. MINUTE \in Nat \ {0} /\ PER_MINUTE_CAP \in Nat \ {0}
  BY FrontDoorAssumption DEF FrontDoorAssumption
<1>3. reports \in Seq(Event) /\ DOMAIN reports = {} /\ DOMAIN refusals = {} /\ DOMAIN window.sources = {}
  BY <1>1
<1>4. LimiterTypes /\ MapTypes /\ MapOwes
  BY <1>1, <1>2, <1>3 DEF LimiterTypes, MapTypes, MapOwes
<1>5. \A S : Cardinality(At(reports, S)) = 0
  <2>1. \A S : At(reports, S) = {}
    BY <1>3 DEF At
  <2> QED BY <2>1, FS_EmptySet
<1>6. Minutes(reports, 0, 0, MINUTE)
  BY <1>2, <1>3, <1>5 DEF Minutes
<1>7. MinuteInv
  BY <1>1, <1>6 DEF MinuteInv
<1> QED BY <1>4, <1>7 DEF LimiterInv

LEMMA LimiterStep == LimiterInv /\ door \in Doors /\ [FrontNext]_frontvars => LimiterInv'
<1> SUFFICES ASSUME LimiterInv, door \in Doors, [FrontNext]_frontvars PROVE LimiterInv'
  OBVIOUS
<1>1. ASSUME NEW c \in Slots, NEW r \in door.senders, resolve_caller(c, r) PROVE LimiterInv'
  <2>1. r \in Arrivals
    BY FrontDoorAssumption DEF FrontDoorAssumption
  <2>2. moment' = moment
    BY <1>1 DEF resolve_caller
  <2>3. <<"provider-credential", r.agent>> \in ReportSource
    BY <2>1 DEF ReportSource
  <2>4. <<IF r.fuse = Nothing THEN "missing_key" ELSE r.fuse, r.agent>> \in ReportSource
    BY <2>1 DEF ReportSource
  <2>5. CASE report(<<"provider-credential", r.agent>>)
    BY <2>2, <2>3, <2>5, LimiterReports
  <2>6. CASE report(<<IF r.fuse = Nothing THEN "missing_key" ELSE r.fuse, r.agent>>)
    BY <2>2, <2>4, <2>6, LimiterReports
  <2>7. CASE QuietBus
    BY <2>2, <2>7, LimiterKept DEF QuietBus
  <2> QED BY <1>1, <2>5, <2>6, <2>7 DEF resolve_caller
<1>2. ASSUME NEW c \in Slots, ClaimRun(c) \/ CheckDeclared(c) PROVE LimiterInv'
  BY <1>2, LimiterKept DEF ClaimRun, CheckDeclared
<1>3. ASSUME NEW c \in Slots, OpenRun(c) PROVE LimiterInv'
  <2>1. UNCHANGED <<door, run_owners, stats, window, moment, arrived, charged, refusals, reports, forgot>>
    BY <1>3, Zenon DEF OpenRun
  <2> QED BY <2>1, LimiterKept
<1>4. ASSUME NEW c \in Slots, CheckHeld(c) PROVE LimiterInv'
  BY <1>4, LimiterKept DEF CheckHeld
<1>5. ASSUME NEW c \in Slots, Charge(c) PROVE LimiterInv'
  <2>1. UNCHANGED <<door, run_owners, window, moment, arrived, refusals, reports, forgot>>
    BY <1>5, Zenon DEF Charge
  <2> QED BY <2>1, LimiterKept
<1>6. CASE MomentPasses
  BY <1>6, LimiterMoment
<1>7. CASE UNCHANGED frontvars
  BY <1>7, LimiterKept DEF frontvars
<1> QED BY <1>1, <1>2, <1>3, <1>4, <1>5, <1>6, <1>7 DEF FrontNext

(* Every refused credential is on the bus or in the next event's count,    *)
(* and a scan never floods the bus, for any limits of the limiter.         *)
THEOREM FrontRefusalsHold == FrontSpec => []RefusalsHold
<1>1. FrontInit => LimiterInv /\ door \in Doors
  BY LimiterStart DEF FrontInit
<1>2. LimiterInv /\ door \in Doors /\ [FrontNext]_frontvars => (LimiterInv /\ door \in Doors)'
  <2>1. [FrontNext]_frontvars => door' = door
    <3>1. ASSUME NEW c \in Slots, OpenRun(c) \/ Charge(c) PROVE door' = door
      BY <3>1, Zenon DEF OpenRun, Charge
    <3> QED BY <3>1 DEF FrontNext, frontvars, resolve_caller, ClaimRun, CheckDeclared, CheckHeld, MomentPasses
  <2> QED BY <2>1, LimiterStep
<1>3. LimiterInv => RefusalsHold
  <2> SUFFICES ASSUME LimiterInv PROVE RefusalsHold
    OBVIOUS
  <2>1. RefusalsAccounted
    BY DEF LimiterInv, MapOwes, RefusalsAccounted
  <2>2. ASSUME "back" \notin forgot, NEW i \in DOMAIN reports
        PROVE  Cardinality({j \in DOMAIN reports : reports[j].at \in reports[i].at .. reports[i].at + MINUTE - 1})
                 <= 2 * PER_MINUTE_CAP
    <3>1. Minutes(reports, window.started, window.emitted, moment) /\ reports \in Seq(Event)
      BY <2>2 DEF LimiterInv, MinuteInv, LimiterTypes
    <3>2. reports[i].at \in Int
      BY <3>1, AtTimes
    <3>3. Cardinality(At(reports, reports[i].at .. reports[i].at + MINUTE - 1)) <= 2 * PER_MINUTE_CAP
      BY <3>1, <3>2 DEF Minutes
    <3> QED BY <3>3 DEF At
  <2> QED BY <2>1, <2>2 DEF RefusalsHold, ScanNeverFloods
<1> QED BY <1>1, <1>2, <1>3, PTL DEF FrontSpec

-----------------------------------------------------------------------------
(* The door's caches.  A proof let through is in the generation it was     *)
(* recorded in, or in the next, for as long as its own time can still      *)
(* fall in the window.                                                     *)
Caches == {"agent", "registry"}

Remembered(g, p) ==
  \/ p.jti \in g.current /\ p.iat < g.started + 3 * PROOF_WINDOW_SECS
  \/ p.jti \in g.previous /\ p.iat < g.started + PROOF_WINDOW_SECS
  \/ p.iat + PROOF_WINDOW_SECS < latest

ClockTypes ==
  /\ clock \in Nat /\ latest \in Nat /\ clock =< latest
  /\ setback \in BOOLEAN /\ (~setback => clock = latest)
  /\ config \in Configs

CacheTypes ==
  /\ \A c \in Caches : replay[c].started \in Int /\ replay[c].started =< latest
  /\ replay = [agent |-> replay.agent, registry |-> replay.registry]
  /\ \A c \in Caches :
       replay[c] = [started |-> replay[c].started, current |-> replay[c].current, previous |-> replay[c].previous]
  /\ uses \in [Caches -> [Proofs -> 0 .. 2]]

UsesRemembered == \A c \in Caches : \A p \in Proofs : uses[c][p] > 0 => Remembered(replay[c], p)

CacheInv == ClockTypes /\ CacheTypes /\ UsesRemembered /\ SingleUse

(* What a request does to a cache: nothing, or one proof is recorded. *)
CacheStep(c) ==
  \/ replay'[c] = replay[c] /\ uses'[c] = uses[c]
  \/ \E p \in Proofs :
       /\ verify_proof(p)
       /\ replay'[c] = RecordUse(c, p.jti)[c]
       /\ uses'[c] = IF first_use(c, p.jti) THEN Used(uses, c, p)[c] ELSE uses[c]

-----------------------------------------------------------------------------
LEMMA Numbers ==
  /\ PROOF_WINDOW_SECS \in Nat /\ PROOF_WINDOW_SECS > 0
  /\ AGENT_TOKEN_LEEWAY_SECS \in Nat /\ MaxAge \in Nat /\ MaxCopyAge \in Nat
  /\ \A p \in Proofs : p.iat \in Int
  /\ \A t \in Credentials : t.exp \in Int
  /\ \A e \in Entries : e.expires \in Int
<1>1. /\ PROOF_WINDOW_SECS \in Nat \ {0}
      /\ AGENT_TOKEN_LEEWAY_SECS \in Nat /\ MaxAge \in Nat /\ MaxCopyAge \in Nat
  BY TokenDoorAssumption
<1>2. \A p \in Proofs : p.iat \in Int
  BY TokenDoorAssumption
<1>3. \A t \in Credentials : t.exp \in Int
  BY TokenDoorAssumption
<1>4. \A e \in Entries : e.expires \in Int
  BY TokenDoorAssumption
<1> QED BY <1>1, <1>2, <1>3, <1>4

LEMMA RotatedIs ==
  ASSUME CacheInv, NEW c \in Caches
  PROVE  LET g == rotated(replay[c])
         IN  /\ g.started \in Int /\ g.started =< latest
             /\ g = [started |-> g.started, current |-> g.current, previous |-> g.previous]
             /\ clock - g.started < 2 * PROOF_WINDOW_SECS
             /\ \A p \in Proofs : Remembered(replay[c], p) => Remembered(g, p)
<1> DEFINE h == replay[c]
           g == rotated(h)
           W == PROOF_WINDOW_SECS
<1>1. /\ W \in Nat /\ W > 0 /\ clock \in Nat /\ latest \in Nat /\ clock =< latest
      /\ h.started \in Int /\ h.started =< latest
      /\ h = [started |-> h.started, current |-> h.current, previous |-> h.previous]
      /\ \A p \in Proofs : p.iat \in Int
  BY Numbers DEF CacheInv, ClockTypes, CacheTypes
<1>2. g = IF clock - h.started >= 2 * W
          THEN [started |-> clock, current |-> {},
                previous |-> IF clock - h.started >= 2 * (2 * W) THEN {} ELSE h.current]
          ELSE h
  BY DEF rotated, Generation
<1> HIDE DEF h, g, W
<1>3. CASE clock - h.started >= 2 * W
  <2>1. /\ g.started = clock /\ g.current = {}
        /\ g.previous = IF clock - h.started >= 2 * (2 * W) THEN {} ELSE h.current
        /\ g = [started |-> g.started, current |-> g.current, previous |-> g.previous]
    BY <1>2, <1>3
  <2>2. ASSUME NEW p \in Proofs, Remembered(h, p) PROVE Remembered(g, p)
    <3>1. CASE p.jti \in h.current /\ p.iat < h.started + 3 * W
      BY <1>1, <1>3, <2>1, <3>1 DEF Remembered, W
    <3>2. CASE p.jti \in h.previous /\ p.iat < h.started + W
      BY <1>1, <1>3, <3>2 DEF Remembered, W
    <3>3. CASE p.iat + W < latest
      BY <3>3 DEF Remembered, W
    <3> QED BY <2>2, <3>1, <3>2, <3>3 DEF Remembered, W
  <2> QED BY <1>1, <2>1, <2>2 DEF g, h, W
<1>4. CASE ~(clock - h.started >= 2 * W)
  BY <1>1, <1>2, <1>4 DEF g, h, W
<1> QED BY <1>3, <1>4

LEMMA CacheKeeps ==
  ASSUME CacheInv, NEW c \in Caches, CacheStep(c), latest' = latest
  PROVE  /\ replay'[c].started \in Int /\ replay'[c].started =< latest
         /\ replay'[c] = [started |-> replay'[c].started, current |-> replay'[c].current,
                          previous |-> replay'[c].previous]
         /\ uses'[c] \in [Proofs -> 0 .. 2]
         /\ \A p \in Proofs : uses'[c][p] > 0 => Remembered(replay'[c], p)
         /\ ~setback => \A p \in Proofs : uses'[c][p] =< 1
<1> DEFINE g == rotated(replay[c])
<1>00. clock \in Nat /\ latest \in Nat /\ (~setback => clock = latest)
  BY DEF CacheInv, ClockTypes
<1>0. /\ uses[c] \in [Proofs -> 0 .. 2]
      /\ \A p \in Proofs : uses[c][p] > 0 => Remembered(replay[c], p)
      /\ ~setback => \A p \in Proofs : uses[c][p] =< 1
  BY DEF CacheInv, CacheTypes, UsesRemembered, SingleUse
<1>1. CASE replay'[c] = replay[c] /\ uses'[c] = uses[c]
  <2>1. \A p \in Proofs : Remembered(replay[c], p) = Remembered(replay'[c], p)
    BY <1>1
  <2> QED BY <1>0, <1>1 DEF CacheInv, CacheTypes
<1>2. ASSUME NEW p \in Proofs, verify_proof(p), replay'[c] = RecordUse(c, p.jti)[c],
             uses'[c] = IF first_use(c, p.jti) THEN Used(uses, c, p)[c] ELSE uses[c]
      PROVE  /\ replay'[c].started \in Int /\ replay'[c].started =< latest
             /\ replay'[c] = [started |-> replay'[c].started, current |-> replay'[c].current,
                              previous |-> replay'[c].previous]
             /\ uses'[c] \in [Proofs -> 0 .. 2]
             /\ \A q \in Proofs : uses'[c][q] > 0 => Remembered(replay'[c], q)
             /\ ~setback => \A q \in Proofs : uses'[c][q] =< 1
  <2>1. /\ g.started \in Int /\ g.started =< latest
        /\ g = [started |-> g.started, current |-> g.current, previous |-> g.previous]
        /\ clock - g.started < 2 * PROOF_WINDOW_SECS
        /\ \A q \in Proofs : Remembered(replay[c], q) => Remembered(g, q)
    BY RotatedIs
  <2> DEFINE h == IF first_use(c, p.jti) THEN [g EXCEPT !.current = @ \cup {p.jti}] ELSE g
  <2>2. replay'[c] = h
    <3>1. c \in DOMAIN replay
      BY DEF CacheInv, CacheTypes, Caches
    <3> QED BY <1>2, <3>1 DEF RecordUse
  <2>3. /\ h.started = g.started /\ h.previous = g.previous
        /\ h.current = IF first_use(c, p.jti) THEN g.current \cup {p.jti} ELSE g.current
        /\ h = [started |-> h.started, current |-> h.current, previous |-> h.previous]
    BY <2>1
  <2>4. first_use(c, p.jti) => p.jti \notin g.current \cup g.previous
    BY DEF first_use
  <2>5. /\ PROOF_WINDOW_SECS \in Nat /\ p.iat \in Int /\ clock \in Nat /\ latest \in Nat
        /\ clock - p.iat =< PROOF_WINDOW_SECS /\ p.iat - clock =< PROOF_WINDOW_SECS
        /\ ~setback => clock = latest
    <3>1. PROOF_WINDOW_SECS \in Nat /\ p.iat \in Int /\ clock \in Nat /\ latest \in Nat /\ (~setback => clock = latest)
      <4>1. PROOF_WINDOW_SECS \in Nat /\ p.iat \in Int
        BY Numbers
      <4>2. clock \in Nat /\ latest \in Nat /\ (~setback => clock = latest)
        BY <1>00
      <4> QED BY <4>1, <4>2
    <3>2. Abs(clock - p.iat) =< PROOF_WINDOW_SECS
      BY <1>2 DEF verify_proof
    <3> QED BY <3>1, <3>2 DEF Abs
  <2> HIDE DEF g, h
  <2>6. \A q \in Proofs : Remembered(g, q) => Remembered(h, q)
    BY <2>3 DEF Remembered
  <2>7. first_use(c, p.jti) => Remembered(h, p)
    BY <2>1, <2>3, <2>5 DEF Remembered
  <2>8. first_use(c, p.jti) /\ ~setback => uses[c][p] = 0
    <3> SUFFICES ASSUME first_use(c, p.jti), ~setback, uses[c][p] # 0 PROVE FALSE
      OBVIOUS
    <3>1. uses[c][p] > 0
      BY <1>0
    <3>2. Remembered(g, p)
      BY <1>0, <2>1, <3>1
    <3> QED BY <2>4, <2>5, <3>2 DEF Remembered
  <2>9. uses'[c] = IF first_use(c, p.jti) THEN [uses[c] EXCEPT ![p] = IF @ < 2 THEN @ + 1 ELSE @] ELSE uses[c]
    <3>1. c \in DOMAIN uses
      BY DEF CacheInv, CacheTypes
    <3> QED BY <1>2, <3>1 DEF Used
  <2>10. /\ uses'[c] \in [Proofs -> 0 .. 2]
         /\ \A q \in Proofs : uses'[c][q] > 0 => uses[c][q] > 0 \/ (first_use(c, p.jti) /\ q = p)
         /\ ~setback => \A q \in Proofs : uses'[c][q] =< 1
    BY <1>0, <2>8, <2>9
  <2>11. \A q \in Proofs : uses'[c][q] > 0 => Remembered(h, q)
    BY <1>0, <2>1, <2>6, <2>7, <2>10
  <2> QED BY <2>1, <2>2, <2>3, <2>10, <2>11
<1> QED BY <1>1, <1>2 DEF CacheStep

-----------------------------------------------------------------------------
(* A request takes one door, and one door touches the caches as it says.   *)
LEMMA DoorCaches ==
  ASSUME CacheInv, NEW r \in config.callers, handle(r)
  PROVE  /\ \A c \in Caches : CacheStep(c)
         /\ replay' = [agent |-> replay'.agent, registry |-> replay'.registry]
         /\ uses' = [c \in Caches |-> uses'[c]]
<1>0. /\ replay = [agent |-> replay.agent, registry |-> replay.registry]
      /\ DOMAIN uses = Caches /\ uses = [c \in Caches |-> uses[c]]
  BY DEF CacheInv, CacheTypes
<1>1. r.proof \in Proofs \cup {None}
  BY TokenDoorAssumption DEF CacheInv, ClockTypes
<1>2. \A p \in Proofs : \A c \in Caches :
        /\ RecordUse(c, p.jti) = [replay EXCEPT ![c] = RecordUse(c, p.jti)[c]]
        /\ Used(uses, c, p) = [uses EXCEPT ![c] = Used(uses, c, p)[c]]
  BY <1>0 DEF RecordUse, Used, Caches
<1>3. verify_proof(r.proof) => r.proof \in Proofs
  BY <1>1 DEF verify_proof
<1>4. CASE handle_agent(r)
  <2>1. CASE UNCHANGED <<uses, replay>>
    BY <1>0, <2>1 DEF CacheStep
  <2>2. CASE /\ verify_agent_token(r.token, r.proof)
             /\ replay' = RecordUse("agent", r.proof.jti)
             /\ uses' = IF first_use("agent", r.proof.jti) THEN Used(uses, "agent", r.proof) ELSE uses
    <3>1. verify_proof(r.proof) /\ r.proof \in Proofs
      BY <1>3, <2>2 DEF verify_agent_token
    <3>2. /\ replay' = [replay EXCEPT !["agent"] = RecordUse("agent", r.proof.jti)["agent"]]
          /\ Used(uses, "agent", r.proof) = [uses EXCEPT !["agent"] = Used(uses, "agent", r.proof)["agent"]]
      BY <1>2, <2>2, <3>1 DEF Caches
    <3>3. /\ replay'["agent"] = RecordUse("agent", r.proof.jti)["agent"] /\ replay'["registry"] = replay["registry"]
          /\ replay' = [agent |-> replay'.agent, registry |-> replay'.registry]
      BY <1>0, <3>2
    <3>4. /\ uses'["agent"] = IF first_use("agent", r.proof.jti) THEN Used(uses, "agent", r.proof)["agent"]
                                                                 ELSE uses["agent"]
          /\ uses'["registry"] = uses["registry"] /\ uses' = [c \in Caches |-> uses'[c]]
      BY <1>0, <2>2, <3>2 DEF Caches
    <3>5. CacheStep("agent")
      BY <3>1, <3>3, <3>4 DEF CacheStep
    <3>6. CacheStep("registry")
      BY <3>3, <3>4 DEF CacheStep
    <3> QED BY <3>3, <3>4, <3>5, <3>6 DEF Caches
  <2> QED BY <1>4, <2>1, <2>2 DEF handle_agent
<1>5. CASE handle_xaa(r)
  BY <1>0, <1>5 DEF handle_xaa, CacheStep
<1>6. CASE handle_door(r)
  <2> DEFINE inside == \/ ByProof(r) /\ ProofKnown(r) /\ first_use("registry", r.proof.jti)
                       \/ ByKey(r)
                       \/ Open(r) /\ ~config.xaa
             base == IF ByProof(r) /\ ProofKnown(r) THEN RecordUse("registry", r.proof.jti) ELSE replay
             ubase == IF ByProof(r) THEN Used(uses, "registry", r.proof) ELSE uses
             at == Presents(r) /\ ChainGood(r) /\ config.mode # "off"
  <2>1. ByProof(r) /\ ProofKnown(r) => verify_proof(r.proof) /\ r.proof \in Proofs
    BY <1>3 DEF ProofKnown
  <2>2. at => verify_proof(r.proof) /\ r.proof \in Proofs
    BY <1>3 DEF ChainGood, verify_delegation
  <2>3. /\ base["agent"] = replay["agent"] /\ base = [agent |-> base.agent, registry |-> base.registry]
        /\ base["registry"] = IF ByProof(r) /\ ProofKnown(r) THEN RecordUse("registry", r.proof.jti)["registry"]
                                                             ELSE replay["registry"]
    <3>1. CASE ByProof(r) /\ ProofKnown(r)
      <4>1. RecordUse("registry", r.proof.jti) =
              [replay EXCEPT !["registry"] = RecordUse("registry", r.proof.jti)["registry"]]
        BY <1>2, <2>1, <3>1 DEF Caches
      <4> QED BY <1>0, <3>1, <4>1
    <3>2. CASE ~(ByProof(r) /\ ProofKnown(r))
      BY <1>0, <3>2
    <3> QED BY <3>1, <3>2
  <2>4. CASE /\ inside /\ replay' = BehindReplay(r, base) /\ uses' = BehindUses(r, ubase)
    <3>1. ByProof(r) => ProofKnown(r) /\ first_use("registry", r.proof.jti) /\ r.proof \in Proofs
      BY <2>1, <2>4 DEF ByKey, Open
    <3>2. /\ ubase["agent"] = uses["agent"] /\ ubase = [c \in Caches |-> ubase[c]]
          /\ ubase["registry"] = IF ByProof(r) THEN Used(uses, "registry", r.proof)["registry"]
                                 ELSE uses["registry"]
      <4>1. CASE ByProof(r)
        <5>1. Used(uses, "registry", r.proof) =
                [uses EXCEPT !["registry"] = Used(uses, "registry", r.proof)["registry"]]
          BY <1>2, <3>1, <4>1 DEF Caches
        <5> QED BY <1>0, <4>1, <5>1 DEF Caches
      <4>2. CASE ~ByProof(r)
        BY <1>0, <4>2
      <4> QED BY <4>1, <4>2
    <3> HIDE DEF base, ubase
    <3>3. /\ replay'["registry"] = base["registry"]
          /\ replay'["agent"] = IF at THEN RecordUse("agent", r.proof.jti)["agent"] ELSE base["agent"]
          /\ replay' = [agent |-> replay'.agent, registry |-> replay'.registry]
      BY <2>3, <2>4 DEF BehindReplay
    <3>4. /\ uses'["registry"] = ubase["registry"]
          /\ uses' = [c \in Caches |-> uses'[c]]
          /\ uses'["agent"] = IF at /\ first_use("agent", r.proof.jti) THEN Used(uses, "agent", r.proof)["agent"]
                                                                      ELSE uses["agent"]
      <4>1. CASE at /\ first_use("agent", r.proof.jti)
        <5>1. uses' = Used(ubase, "agent", r.proof)
          BY <2>4, <4>1 DEF BehindUses
        <5>2. /\ DOMAIN ubase = Caches /\ "agent" \in Caches /\ "registry" \in Caches
          BY <3>2 DEF Caches
        <5>3. uses'["registry"] = ubase["registry"] /\ uses' = [c \in Caches |-> uses'[c]]
          BY <5>1, <5>2 DEF Used
        <5>4. uses'["agent"] = Used(uses, "agent", r.proof)["agent"]
          BY <1>0, <3>2, <5>1, <5>2 DEF Used
        <5> QED BY <4>1, <5>3, <5>4
      <4>2. CASE ~(at /\ first_use("agent", r.proof.jti))
        <5>1. uses' = ubase
          BY <2>4, <4>2 DEF BehindUses
        <5> QED BY <3>2, <4>2, <5>1
      <4> QED BY <4>1, <4>2
    <3>5. CacheStep("agent")
      <4>1. CASE at
        BY <2>2, <3>3, <3>4, <4>1 DEF CacheStep
      <4>2. CASE ~at
        BY <2>3, <3>3, <3>4, <4>2 DEF CacheStep
      <4> QED BY <4>1, <4>2
    <3>6. CacheStep("registry")
      <4>1. CASE ByProof(r)
        BY <2>1, <2>3, <3>1, <3>2, <3>3, <3>4, <4>1 DEF CacheStep
      <4>2. CASE ~ByProof(r)
        BY <2>3, <3>2, <3>3, <3>4, <4>2 DEF CacheStep
      <4> QED BY <4>1, <4>2
    <3> QED BY <3>3, <3>4, <3>5, <3>6 DEF Caches
  <2>5. CASE replay' = base /\ uses' = uses /\ ~(inside /\ ~Required(r))
    <3> HIDE DEF base
    <3>1. CacheStep("agent")
      BY <2>3, <2>5 DEF CacheStep
    <3>2. CacheStep("registry")
      <4>1. CASE ByProof(r) /\ ProofKnown(r)
        <5>1. ~first_use("registry", r.proof.jti)
          BY <2>5, <4>1 DEF Required
        <5> QED BY <2>1, <2>3, <2>5, <4>1, <5>1 DEF CacheStep
      <4>2. CASE ~(ByProof(r) /\ ProofKnown(r))
        BY <2>3, <2>5, <4>2 DEF CacheStep
      <4> QED BY <4>1, <4>2
    <3> QED BY <1>0, <2>3, <2>5, <3>1, <3>2 DEF Caches
  <2> QED BY <1>6, <2>4, <2>5 DEF handle_door
<1> QED BY <1>4, <1>5, <1>6 DEF handle

-----------------------------------------------------------------------------
(* The list.  What the door holds names every revocation older than the    *)
(* moment it was taken at, which is no older than the poll that fetched    *)
(* it, less a copy's age; it names nothing younger.                        *)
NamesUpTo(entries, as_of) ==
  /\ as_of \in Int /\ as_of =< clock
  /\ \A i \in issued : i.since < as_of => i.entry \in entries
  /\ \A e \in entries : \E i \in issued : i.entry = e /\ i.since =< as_of

Polled ==
  /\ \A i \in issued : i.entry \in Entries /\ i.since \in Int /\ i.since =< clock
  /\ NamesUpTo(held.entries, held.as_of)
  /\ held.at \in Int /\ held.at - MaxCopyAge =< held.as_of
  /\ poll.stage \in {"idle", "asking", "served"}
  /\ poll.stage # "idle" => poll.at \in Int /\ poll.at =< clock
  /\ poll.stage = "served" =>
       /\ NamesUpTo(poll.snapshot.entries, poll.snapshot.as_of)
       /\ poll.at - MaxCopyAge =< poll.snapshot.as_of

(* Who was refused because the list named somebody was named by an entry   *)
(* that covers the token, revoked by the second of a list no later than    *)
(* the one held.                                                           *)
WasNamed ==
  \A n \in listed :
    /\ n.entry \in Entries /\ n.as_of \in Int /\ n.as_of =< held.as_of
    /\ \E i \in issued : i.entry = n.entry /\ i.since =< n.as_of
    /\ \E t \in Credentials : \E k \in DOMAIN chain_of(t) :
         t.jti = n.jti /\ covers(n.entry, t.jti, chain_of(t)[k], t.iat)

ListInv == IF config.feed THEN ~setback /\ Polled /\ WasNamed ELSE issued = {} /\ listed = {} /\ poll = Idling

DoorInv == CacheInv /\ ListInv /\ RevokedBites /\ NeverUnrevoked /\ OneDoorEach

-----------------------------------------------------------------------------
LEMMA DoorStarts == DoorInit => DoorInv
<1> SUFFICES ASSUME DoorInit PROVE DoorInv
  OBVIOUS
<1>1. CacheInv
  <2>1. ClockTypes
    <3>1. clock = 1 /\ latest = 1 /\ config \in Configs
      BY DEF DoorInit
    <3>2. setback \in BOOLEAN
      BY DEF DoorInit
    <3> QED BY <3>1, <3>2 DEF ClockTypes
  <2>2. BEGINNING \in Int /\ BEGINNING =< 1
    BY Numbers DEF BEGINNING
  <2>3. CacheTypes
    BY <2>2 DEF DoorInit, CacheTypes, NewCache, Caches
  <2>4. \A c \in Caches : \A p \in Proofs : uses[c][p] = 0
    BY DEF DoorInit, Caches
  <2>5. DOMAIN uses = Caches
    BY DEF DoorInit, Caches
  <2> QED BY <2>1, <2>3, <2>4, <2>5 DEF CacheInv, UsesRemembered, SingleUse
<1>2. ListInv
  <2>1. MaxCopyAge \in Nat
    BY Numbers
  <2> QED BY <2>1 DEF DoorInit, ListInv, Polled, NamesUpTo, WasNamed, Idling
<1>3. last.via = "none"
  BY DEF DoorInit, NoAnswer
<1>4. RevokedBites /\ NeverUnrevoked /\ OneDoorEach
  BY <1>3 DEF RevokedBites, NeverUnrevoked, OneDoorEach
<1> QED BY <1>1, <1>2, <1>4 DEF DoorInv

LEMMA Alone == ASSUME NEW x PROVE <<x>> \o <<>> = <<x>>
OBVIOUS

(* Whoever gets in by a door that asks the list was asked about. *)
LEMMA AdmittedIsAsked ==
  ASSUME CacheInv, NEW r \in config.callers, handle(r), last'.via \in {"agent", "xaa", "proven"}
  PROVE  /\ last'.request = r /\ r.token \in Credentials
         /\ clock < r.token.exp + IF IsAgentToken(r.token) THEN AGENT_TOKEN_LEEWAY_SECS ELSE 0
         /\ \A k \in DOMAIN chain_of(r.token) : ~revoked(r.token.jti, chain_of(r.token)[k], r.token.iat)
         /\ listed' = listed
<1> DEFINE t == r.token
           Asked == /\ clock < t.exp + IF IsAgentToken(t) THEN AGENT_TOKEN_LEEWAY_SECS ELSE 0
                    /\ \A k \in DOMAIN chain_of(t) : ~revoked(t.jti, chain_of(t)[k], t.iat)
<1>1. r \in Requests
  BY TokenDoorAssumption DEF CacheInv, ClockTypes
<1>2. r.cred \in {"dpop", "bearer"} => t \in Credentials
  BY <1>1, TokenDoorAssumption
<1>3. /\ AGENT_TOKEN_LEEWAY_SECS \in Nat /\ clock \in Nat /\ \A u \in Credentials : u.exp \in Int
  BY Numbers DEF CacheInv, ClockTypes
<1>4. listed' = listed
  BY DEF handle
<1>5. CASE handle_agent(r)
  <2>1. AgentDoor(r) /\ verify_agent_token(t, r.proof) /\ last' = [via |-> "agent", who |-> t.sub, request |-> r]
    BY <1>5 DEF handle_agent, Answer, Refuse, NoAnswer
  <2>2. chain_of(t) = <<t.sub>> \o Reverse(<<>>)
    BY <2>1 DEF verify_agent_token, chain_of
  <2>3. Reverse(<<>>) = <<>>
    BY DEF Reverse
  <2>4. chain_of(t) = <<t.sub>>
    BY <2>2, <2>3, Alone
  <2>5. \A k \in DOMAIN chain_of(t) : chain_of(t)[k] = t.sub
    BY <2>4
  <2>6. ~revoked(t.jti, t.sub, t.iat) /\ clock < t.exp + AGENT_TOKEN_LEEWAY_SECS /\ IsAgentToken(t)
    BY <2>1 DEF verify_agent_token, AgentDoor
  <2>7. Asked
    BY <2>5, <2>6
  <2>8. r.cred = "dpop"
    BY <2>1 DEF AgentDoor
  <2> QED BY <1>2, <1>4, <2>1, <2>7, <2>8
<1>6. CASE handle_xaa(r)
  <2>1. /\ r.cred = "bearer" /\ verify_access_token(t)
        /\ last' = [via |-> "xaa", who |-> Last(chain_of(t)), request |-> r]
    BY <1>6 DEF handle_xaa, XaaDoor, Answer, Refuse, NoAnswer
  <2>2. t \in Credentials
    BY <1>2, <2>1
  <2>3. clock < t.exp /\ \A k \in DOMAIN chain_of(t) : ~revoked(t.jti, chain_of(t)[k], t.iat)
    BY <2>1 DEF verify_access_token
  <2>4. clock < t.exp + IF IsAgentToken(t) THEN AGENT_TOKEN_LEEWAY_SECS ELSE 0
    BY <1>3, <2>2, <2>3
  <2> QED BY <1>4, <2>1, <2>2, <2>3, <2>4
<1>7. CASE handle_door(r)
  <2>1. PICK who : Behind(r, who)
    BY <1>7 DEF handle_door, Refuse, NoAnswer
  <2>2. Presents(r) /\ ChainGood(r) /\ last' = [via |-> "proven", who |-> who, request |-> r]
    BY <2>1 DEF Behind, Answer, Refuse, NoAnswer
  <2>3. r.cred = "dpop" /\ verify_delegation(t, r.proof)
    BY <2>2 DEF Presents, ChainGood
  <2>4. t \in Credentials
    BY <1>2, <2>3
  <2>5. clock < t.exp /\ \A k \in DOMAIN chain_of(t) : ~revoked(t.jti, chain_of(t)[k], t.iat)
    BY <2>3 DEF verify_delegation
  <2>6. clock < t.exp + IF IsAgentToken(t) THEN AGENT_TOKEN_LEEWAY_SECS ELSE 0
    BY <1>3, <2>4, <2>5
  <2> QED BY <1>4, <2>2, <2>4, <2>5, <2>6
<1> QED BY <1>5, <1>6, <1>7 DEF handle

(* Whom the list names at that moment is not let in. *)
LEMMA NamedIsOut ==
  ASSUME CacheInv, NEW r \in config.callers, handle(r), last'.via \in {"agent", "xaa", "proven"},
         config.feed, NEW e \in held.entries, e \in Entries, NEW k \in DOMAIN chain_of(r.token),
         covers(e, r.token.jti, chain_of(r.token)[k], r.token.iat)
  PROVE  FALSE
<1> DEFINE t == r.token
           until == t.exp + IF IsAgentToken(t) THEN AGENT_TOKEN_LEEWAY_SECS ELSE 0
<1>1. t \in Credentials /\ clock < until /\ ~revoked(t.jti, chain_of(t)[k], t.iat)
  BY AdmittedIsAsked
<1>2. e.expires = 0 \/ e.expires >= until
  BY <1>1, IssuerAssumption
<1>3. until \in Int /\ clock \in Int /\ e.expires \in Int
  BY <1>1, Numbers DEF CacheInv, ClockTypes
<1>4. live_at(e)
  <2> HIDE DEF until
  <2>1. CASE e.expires = 0
    BY <2>1 DEF live_at
  <2>2. CASE e.expires >= until /\ e.expires # 0
    BY <1>1, <1>2, <1>3, <2>2 DEF live_at
  <2> QED BY <1>2, <2>1, <2>2
<1>5. Named(t.jti, chain_of(t)[k], t.iat)
  BY <1>4 DEF Named
<1> QED BY <1>1, <1>5 DEF revoked

-----------------------------------------------------------------------------
LEMMA HandleKeepsCaches ==
  ASSUME CacheInv, NEW r \in config.callers, handle(r)
  PROVE  CacheInv'
<1>1. UNCHANGED <<clock, latest, config, setback>>
  BY DEF handle
<1>2. /\ \A c \in Caches : CacheStep(c)
      /\ replay' = [agent |-> replay'.agent, registry |-> replay'.registry]
      /\ uses' = [c \in Caches |-> uses'[c]]
  BY DoorCaches
<1>3. \A c \in Caches :
         /\ replay'[c].started \in Int /\ replay'[c].started =< latest
         /\ replay'[c] = [started |-> replay'[c].started, current |-> replay'[c].current,
                          previous |-> replay'[c].previous]
         /\ uses'[c] \in [Proofs -> 0 .. 2]
         /\ \A p \in Proofs : uses'[c][p] > 0 => Remembered(replay'[c], p)
         /\ ~setback => \A p \in Proofs : uses'[c][p] =< 1
  BY <1>1, <1>2, CacheKeeps
<1>4. ClockTypes'
  BY <1>1 DEF CacheInv, ClockTypes
<1>5. CacheTypes'
  BY <1>1, <1>2, <1>3 DEF CacheTypes
<1>6. UsesRemembered'
  BY <1>1, <1>3 DEF UsesRemembered, Remembered
<1>7. SingleUse'
  <2>1. DOMAIN uses' = Caches
    BY <1>2
  <2> QED BY <1>1, <1>3, <2>1 DEF SingleUse
<1> QED BY <1>4, <1>5, <1>6, <1>7 DEF CacheInv

LEMMA HandleKeepsList ==
  ASSUME CacheInv, ListInv, NEW r \in config.callers, handle(r)
  PROVE  ListInv'
<1>1. UNCHANGED <<clock, latest, config, issued, held, poll, setback>>
  BY DEF handle
<1>2. CASE ~config.feed
  <2>1. listed' = listed
    BY <1>2 DEF handle, Noted
  <2> QED BY <1>1, <1>2, <2>1 DEF ListInv
<1>3. CASE config.feed
  <2>1. ~setback /\ Polled /\ WasNamed
    BY <1>3 DEF ListInv
  <2>2. Polled'
    BY <1>1, <2>1 DEF Polled, NamesUpTo
  <2>3. WasNamed'
    <3>1. CASE listed' = listed
      BY <1>1, <2>1, <3>1 DEF WasNamed
    <3>2. CASE /\ r.token # None
               /\ listed' = listed \cup {[jti |-> r.token.jti, entry |-> e, as_of |-> held.as_of] : e \in Naming(r.token)}
      <4>1. r.token \in Credentials
        <5>1. r \in Requests
          BY TokenDoorAssumption DEF CacheInv, ClockTypes
        <5>2. r.token \in Credentials \cup {None}
          BY <5>1, TokenDoorAssumption
        <5> QED BY <3>2, <5>2
      <4>2. ASSUME NEW e \in Naming(r.token), NEW n, n = [jti |-> r.token.jti, entry |-> e, as_of |-> held.as_of]
            PROVE  /\ n.entry \in Entries /\ n.as_of \in Int /\ n.as_of =< held.as_of
                   /\ \E i \in issued : i.entry = n.entry /\ i.since =< n.as_of
                   /\ \E t \in Credentials : \E k \in DOMAIN chain_of(t) :
                        t.jti = n.jti /\ covers(n.entry, t.jti, chain_of(t)[k], t.iat)
        <5>1. n.jti = r.token.jti /\ n.entry = e /\ n.as_of = held.as_of
          BY <4>2
        <5>2. e \in held.entries /\ \E k \in DOMAIN chain_of(r.token) : covers(e, r.token.jti, chain_of(r.token)[k], r.token.iat)
          BY DEF Naming
        <5>3. held.as_of \in Int /\ \E i \in issued : i.entry = e /\ i.since =< held.as_of
          BY <2>1, <5>2 DEF Polled, NamesUpTo
        <5>4. e \in Entries /\ held.as_of =< held.as_of
          BY <2>1, <5>3 DEF Polled
        <5> QED BY <4>1, <5>1, <5>2, <5>3, <5>4
      <4>3. ASSUME NEW n \in listed'
            PROVE  /\ n.entry \in Entries /\ n.as_of \in Int /\ n.as_of =< held.as_of
                   /\ \E i \in issued : i.entry = n.entry /\ i.since =< n.as_of
                   /\ \E t \in Credentials : \E k \in DOMAIN chain_of(t) :
                        t.jti = n.jti /\ covers(n.entry, t.jti, chain_of(t)[k], t.iat)
        <5>1. CASE n \in listed
          BY <2>1, <5>1 DEF WasNamed
        <5>2. CASE n \notin listed
          <6>1. PICK e \in Naming(r.token) : n = [jti |-> r.token.jti, entry |-> e, as_of |-> held.as_of]
            BY <3>2, <5>2
          <6> QED BY <4>2, <6>1
        <5> QED BY <5>1, <5>2
      <4> QED BY <1>1, <4>3 DEF WasNamed
    <3> QED BY <3>1, <3>2 DEF handle, Noted
  <2> QED BY <1>1, <1>3, <2>1, <2>2, <2>3 DEF ListInv
<1> QED BY <1>2, <1>3

(* What a door's answer may not be, at the step that gives it. *)
LEMMA HandleAnswersRight ==
  ASSUME CacheInv, ListInv, NEW r \in config.callers, handle(r)
  PROVE  RevokedBites' /\ NeverUnrevoked' /\ OneDoorEach'
<1>1. UNCHANGED <<clock, latest, config, issued, held, poll, setback>>
  BY DEF handle
<1>2. RevokedBites'
  <2> SUFFICES ASSUME ~config.open, NEW i \in issued, last'.via \in {"agent", "xaa", "proven"},
                      NEW k \in DOMAIN chain_of(last'.request.token),
                      covers(i.entry, last'.request.token.jti, chain_of(last'.request.token)[k],
                             last'.request.token.iat)
               PROVE  clock =< i.since + MaxAge + MaxCopyAge
    BY <1>1 DEF RevokedBites
  <2>1. config.feed /\ Polled
    BY DEF ListInv
  <2>2. last'.request = r /\ r.token \in Credentials
        /\ \A l \in DOMAIN chain_of(r.token) : ~revoked(r.token.jti, chain_of(r.token)[l], r.token.iat)
    BY AdmittedIsAsked
  <2>3. i.entry \in Entries /\ i.entry \notin held.entries
    <3>1. i.entry \in Entries
      BY <2>1 DEF Polled
    <3> QED BY <2>1, <2>2, <3>1, NamedIsOut
  <2>4. /\ i.since \in Int /\ held.at \in Int /\ held.as_of \in Int /\ clock \in Int
        /\ i.since >= held.as_of /\ held.at - MaxCopyAge =< held.as_of
    <3>1. i.since \in Int /\ held.at \in Int /\ held.as_of \in Int /\ held.at - MaxCopyAge =< held.as_of
      BY <2>1 DEF Polled, NamesUpTo
    <3>2. ~(i.since < held.as_of)
      BY <2>1, <2>3 DEF Polled, NamesUpTo
    <3>3. clock \in Nat
      BY DEF CacheInv, ClockTypes
    <3> QED BY <3>1, <3>2, <3>3
  <2>5. clock - held.at =< MaxAge
    <3>1. ~(clock - held.at > MaxAge)
      BY <2>1, <2>2 DEF revoked
    <3> QED BY <2>4, <3>1, Numbers
  <2> QED BY <2>4, <2>5, Numbers
<1>3. NeverUnrevoked'
  <2> SUFFICES ASSUME last'.via \in {"agent", "xaa", "proven"}, NEW n \in listed',
                      n.jti = last'.request.token.jti
               PROVE  held.as_of = n.as_of /\ n.entry \notin held.entries
    BY <1>1 DEF NeverUnrevoked
  <2>1. last'.request = r /\ r.token \in Credentials /\ listed' = listed
    BY AdmittedIsAsked
  <2>2. config.feed /\ Polled /\ WasNamed
    BY <2>1 DEF ListInv
  <2>3. PICK t \in Credentials : \E k \in DOMAIN chain_of(t) :
           t.jti = n.jti /\ covers(n.entry, t.jti, chain_of(t)[k], t.iat)
    BY <2>1, <2>2 DEF WasNamed
  <2>4. t = r.token
    BY <2>1, <2>3, TokenDoorAssumption
  <2>5. n.entry \in Entries /\ n.as_of \in Int /\ n.as_of =< held.as_of
    BY <2>1, <2>2 DEF WasNamed
  <2>6. n.entry \notin held.entries
    BY <2>2, <2>3, <2>4, <2>5, NamedIsOut
  <2>7. PICK i \in issued : i.entry = n.entry /\ i.since =< n.as_of
    BY <2>1, <2>2 DEF WasNamed
  <2>8. i.since \in Int /\ held.as_of \in Int /\ ~(i.since < held.as_of)
    BY <2>2, <2>6, <2>7 DEF Polled, NamesUpTo
  <2> QED BY <2>5, <2>6, <2>7, <2>8
<1>4. OneDoorEach'
  <2>1. CASE last'.via = "refused"
    BY <2>1 DEF OneDoorEach
  <2>2. CASE handle_agent(r) /\ last'.via # "refused"
    <3>1. /\ AgentDoor(r) /\ verify_agent_token(r.token, r.proof)
          /\ last' = [via |-> "agent", who |-> r.token.sub, request |-> r]
      BY <2>2 DEF handle_agent, Answer, Refuse, NoAnswer
    <3>2. r.proof # None /\ r.proof.jkt = r.token.cnf /\ r.proof.ath = r.token.jti
      BY <3>1 DEF verify_agent_token, verify_proof
    <3> QED BY <3>1, <3>2 DEF OneDoorEach
  <2>3. CASE handle_xaa(r) /\ last'.via # "refused"
    <3>1. /\ r.cred = "bearer" /\ verify_access_token(r.token)
          /\ last' = [via |-> "xaa", who |-> Last(chain_of(r.token)), request |-> r]
      BY <2>3 DEF handle_xaa, XaaDoor, Answer, Refuse, NoAnswer
    <3>2. r.token.client # None /\ r.token.cnf = None
      BY <3>1 DEF verify_access_token
    <3> QED BY <3>1, <3>2 DEF OneDoorEach
  <2>4. CASE handle_door(r) /\ last'.via # "refused"
    <3>1. PICK who : Behind(r, who) /\ ~AgentDoor(r)
      BY <2>4 DEF handle_door, Refuse, NoAnswer
    <3>2. CASE r.cred # "dpop" /\ last' = [via |-> "claimed", who |-> who, request |-> r]
      BY <3>2 DEF OneDoorEach
    <3>3. CASE r.cred = "dpop" /\ ChainGood(r) /\ last' = [via |-> "proven", who |-> who, request |-> r]
      <4>1. ~IsAgentToken(r.token) /\ r.proof # None /\ r.proof.jkt = r.token.cnf
        BY <3>3 DEF ChainGood, verify_delegation, verify_proof
      <4> QED BY <3>3, <4>1 DEF OneDoorEach
    <3> QED BY <2>4, <3>1, <3>2, <3>3 DEF Behind, Answer, Refuse, NoAnswer, Presents
  <2> QED BY <2>1, <2>2, <2>3, <2>4 DEF handle
<1> QED BY <1>2, <1>3, <1>4

-----------------------------------------------------------------------------
LEMMA QuietAnswersRight == Quiet => RevokedBites' /\ NeverUnrevoked' /\ OneDoorEach'
<1> SUFFICES ASSUME last' = NoAnswer PROVE RevokedBites' /\ NeverUnrevoked' /\ OneDoorEach'
  BY DEF Quiet
<1>1. last'.via = "none"
  BY DEF NoAnswer
<1> QED BY <1>1 DEF RevokedBites, NeverUnrevoked, OneDoorEach

(* Time forgets nothing that could still be fresh. *)
LEMMA ClockKeepsCaches ==
  ASSUME CacheInv, UNCHANGED <<config, replay, uses>>,
         clock' \in Nat, latest' \in Nat, latest =< latest', clock' =< latest', setback' \in BOOLEAN,
         ~setback' => ~setback /\ clock' = latest'
  PROVE  CacheInv'
<1>1. ClockTypes'
  BY DEF CacheInv, ClockTypes
<1>2. latest \in Nat
  BY DEF CacheInv, ClockTypes
<1>3. CacheTypes'
  <2>1. \A c \in Caches : replay'[c].started \in Int /\ replay'[c].started =< latest'
    BY <1>2 DEF CacheInv, CacheTypes
  <2> QED BY <2>1 DEF CacheInv, CacheTypes
<1>4. UsesRemembered'
  <2> SUFFICES ASSUME NEW c \in Caches, NEW p \in Proofs, uses[c][p] > 0 PROVE Remembered(replay[c], p)'
    BY DEF UsesRemembered
  <2>1. Remembered(replay[c], p)
    BY DEF CacheInv, UsesRemembered
  <2>2. PROOF_WINDOW_SECS \in Nat
    BY Numbers
  <2>3. p.iat \in Int
    BY Numbers
  <2> QED BY <1>2, <2>1, <2>2, <2>3 DEF Remembered
<1>5. SingleUse'
  BY DEF CacheInv, SingleUse
<1> QED BY <1>1, <1>3, <1>4, <1>5 DEF CacheInv

LEMMA PassKeeps == ASSUME DoorInv, NEW n \in 1 .. MaxTime, Pass(n) PROVE DoorInv'
<1>1. clock \in Nat /\ latest \in Nat /\ clock =< latest /\ setback \in BOOLEAN /\ (~setback => clock = latest)
  BY DEF DoorInv, CacheInv, ClockTypes
<1>2. /\ clock' = clock + n /\ latest' = IF clock' > latest THEN clock' ELSE latest
      /\ UNCHANGED <<config, replay, issued, held, poll, uses, listed, setback>> /\ Quiet
  BY DEF Pass
<1>3. n \in Nat
  BY TokenDoorAssumption
<1>4. CacheInv'
  BY <1>1, <1>2, <1>3, ClockKeepsCaches DEF DoorInv
<1>5. ListInv'
  <2>1. CASE config.feed
    <3>1. Polled /\ WasNamed /\ ~setback
      BY <2>1 DEF DoorInv, ListInv
    <3>2. \A m \in Int : m =< clock => m =< clock'
      BY <1>1, <1>2, <1>3
    <3>3. Polled'
      BY <1>2, <3>1, <3>2 DEF Polled, NamesUpTo
    <3> QED BY <1>2, <2>1, <3>1, <3>3 DEF ListInv, WasNamed
  <2>2. CASE ~config.feed
    BY <1>2, <2>2 DEF DoorInv, ListInv
  <2> QED BY <2>1, <2>2
<1> QED BY <1>2, <1>4, <1>5, QuietAnswersRight DEF DoorInv

LEMMA StepBackKeeps == ASSUME DoorInv, NEW n \in 1 .. MaxTime, StepBack(n) PROVE DoorInv'
<1>1. clock \in Nat /\ latest \in Nat /\ clock =< latest /\ setback \in BOOLEAN
  BY DEF DoorInv, CacheInv, ClockTypes
<1>2. /\ clock' = clock - n /\ clock - n >= 1 /\ setback' = TRUE /\ ~config.feed
      /\ UNCHANGED <<latest, config, replay, issued, held, poll, uses, listed>> /\ Quiet
  BY DEF StepBack
<1>3. n \in Nat
  BY TokenDoorAssumption
<1>4. CacheInv'
  BY <1>1, <1>2, <1>3, ClockKeepsCaches DEF DoorInv
<1>5. ListInv'
  BY <1>2 DEF DoorInv, ListInv
<1> QED BY <1>2, <1>4, <1>5, QuietAnswersRight DEF DoorInv

LEMMA RevokeKeeps == ASSUME DoorInv, NEW e \in Entries, Revoke(e) PROVE DoorInv'
<1>1. /\ config.feed /\ issued' = issued \cup {[entry |-> e, since |-> clock]} /\ Quiet
      /\ UNCHANGED <<clock, latest, config, replay, held, poll, uses, listed, setback>>
  BY DEF Revoke
<1>2. clock \in Nat
  BY DEF DoorInv, CacheInv, ClockTypes
<1>3. CacheInv'
  BY <1>1 DEF DoorInv, CacheInv, ClockTypes, CacheTypes, UsesRemembered, Remembered, SingleUse
<1>4. Polled /\ WasNamed /\ ~setback
  BY <1>1 DEF DoorInv, ListInv
<1> DEFINE i == [entry |-> e, since |-> clock]
<1>5. ASSUME NEW entries, NEW as_of, NamesUpTo(entries, as_of) PROVE NamesUpTo(entries, as_of)'
  <2>1. ~(i.since < as_of)
    BY <1>2, <1>5 DEF NamesUpTo
  <2> QED BY <1>1, <1>5, <2>1 DEF NamesUpTo
<1>6. NamesUpTo(held.entries, held.as_of)'
  <2>1. NamesUpTo(held.entries, held.as_of)
    BY <1>4 DEF Polled
  <2> QED BY <1>1, <1>5, <2>1 DEF NamesUpTo
<1>7. poll.stage = "served" => NamesUpTo(poll.snapshot.entries, poll.snapshot.as_of)'
  <2> SUFFICES ASSUME poll.stage = "served" PROVE NamesUpTo(poll.snapshot.entries, poll.snapshot.as_of)'
    OBVIOUS
  <2>1. NamesUpTo(poll.snapshot.entries, poll.snapshot.as_of)
    BY <1>4 DEF Polled
  <2> QED BY <1>1, <1>5, <2>1 DEF NamesUpTo
<1>8. \A j \in issued' : j.entry \in Entries /\ j.since \in Int /\ j.since =< clock
  BY <1>1, <1>2, <1>4 DEF Polled
<1>9. Polled'
  BY <1>1, <1>4, <1>6, <1>7, <1>8 DEF Polled
<1>10. WasNamed'
  <2> SUFFICES ASSUME NEW n \in listed
               PROVE  /\ n.entry \in Entries /\ n.as_of \in Int /\ n.as_of =< held.as_of
                      /\ \E j \in issued' : j.entry = n.entry /\ j.since =< n.as_of
                      /\ \E t \in Credentials : \E k \in DOMAIN chain_of(t) :
                           t.jti = n.jti /\ covers(n.entry, t.jti, chain_of(t)[k], t.iat)
    BY <1>1 DEF WasNamed
  <2> QED BY <1>1, <1>4 DEF WasNamed
<1>11. ListInv'
  BY <1>1, <1>4, <1>9, <1>10 DEF ListInv
<1> QED BY <1>1, <1>3, <1>11, QuietAnswersRight DEF DoorInv

LEMMA PollerKeeps == ASSUME DoorInv, spawn_poller PROVE DoorInv'
<1>1. Quiet /\ UNCHANGED <<clock, latest, config, replay, issued, uses, listed, setback>>
  BY DEF spawn_poller
<1>2. clock \in Nat /\ MaxCopyAge \in Nat
  BY Numbers DEF DoorInv, CacheInv, ClockTypes
<1>3. CacheInv'
  BY <1>1 DEF DoorInv, CacheInv, ClockTypes, CacheTypes, UsesRemembered, Remembered, SingleUse
<1>4. config.feed /\ Polled /\ WasNamed /\ ~setback
  <2>1. poll.stage # "idle" \/ config.feed
    BY DEF spawn_poller
  <2>2. config.feed
    BY <2>1 DEF DoorInv, ListInv, Idling
  <2> QED BY <2>2 DEF DoorInv, ListInv
<1>5. Polled' /\ held.as_of =< held'.as_of
  <2>0. held.as_of \in Int
    BY <1>4 DEF Polled, NamesUpTo
  <2>1. CASE poll.stage = "idle" /\ poll' = [stage |-> "asking", at |-> clock] /\ UNCHANGED held
    BY <1>1, <1>2, <1>4, <2>0, <2>1 DEF Polled, NamesUpTo
  <2>2. CASE poll' = Idling /\ UNCHANGED held
    BY <1>1, <1>4, <2>0, <2>2 DEF Polled, NamesUpTo, Idling
  <2>3. ASSUME poll.stage = "asking", UNCHANGED held, NEW age \in 0 .. MaxCopyAge, NEW entries \in Lists(clock - age),
               poll' = [stage |-> "served", at |-> poll.at, snapshot |-> [as_of |-> clock - age, entries |-> entries]]
        PROVE  Polled' /\ held.as_of =< held'.as_of
    <3> DEFINE as_of == clock - age
    <3>1. /\ poll'.stage = "served" /\ poll'.at = poll.at
          /\ poll'.snapshot.as_of = as_of /\ poll'.snapshot.entries = entries
      BY <2>3
    <3>2. as_of \in Int /\ as_of =< clock /\ age \in Int /\ age =< MaxCopyAge
      BY <1>2, <2>3
    <3>3. poll.at \in Int /\ poll.at =< clock /\ \A i \in issued : i.since \in Int
      BY <1>4, <2>3 DEF Polled
    <3>4. poll.at - MaxCopyAge =< as_of
      BY <1>2, <3>2, <3>3
    <3>5. PICK late \in SUBSET {i.entry : i \in {j \in issued : j.since = as_of}} :
            entries = IssuedBefore(as_of) \cup late
      BY <2>3 DEF Lists
    <3> HIDE DEF as_of
    <3>6. NamesUpTo(entries, as_of)
      <4>1. \A i \in issued : i.since < as_of => i.entry \in entries
        BY <3>5 DEF IssuedBefore
      <4>2. \A e \in entries : \E i \in issued : i.entry = e /\ i.since =< as_of
        <5> SUFFICES ASSUME NEW e \in entries PROVE \E i \in issued : i.entry = e /\ i.since =< as_of
          OBVIOUS
        <5>1. PICK i \in issued : i.entry = e /\ (i.since < as_of \/ i.since = as_of)
          BY <3>5 DEF IssuedBefore
        <5> QED BY <3>2, <3>3, <5>1
      <4> QED BY <3>2, <4>1, <4>2 DEF NamesUpTo
    <3> QED BY <1>1, <1>4, <2>0, <2>3, <3>1, <3>3, <3>4, <3>6 DEF Polled, NamesUpTo
  <2>4. CASE poll.stage = "served" /\ held' = install(poll.snapshot, poll.at) /\ poll' = Idling
    <3>1. CASE held' = held
      BY <1>1, <1>4, <2>0, <2>4, <3>1 DEF Polled, NamesUpTo, Idling
    <3>2. CASE /\ held' = [entries |-> poll.snapshot.entries, as_of |-> poll.snapshot.as_of, at |-> poll.at]
               /\ ~(poll.snapshot.as_of < held.as_of)
      <4>1. /\ held'.entries = poll.snapshot.entries /\ held'.as_of = poll.snapshot.as_of /\ held'.at = poll.at
        BY <3>2
      <4>2. held.as_of \in Int /\ poll.snapshot.as_of \in Int
        BY <1>4, <2>4 DEF Polled, NamesUpTo
      <4>3. held.as_of =< held'.as_of
        BY <3>2, <4>1, <4>2
      <4>4. NamesUpTo(poll.snapshot.entries, poll.snapshot.as_of)
        BY <1>4, <2>4 DEF Polled
      <4>5. NamesUpTo(held.entries, held.as_of)'
        BY <1>1, <4>1, <4>4 DEF NamesUpTo
      <4>6. poll'.stage = "idle"
        BY <2>4 DEF Idling
      <4> QED BY <1>1, <1>4, <2>4, <4>1, <4>3, <4>5, <4>6 DEF Polled
    <3> QED BY <2>4, <3>1, <3>2 DEF install
  <2> QED BY <2>1, <2>2, <2>3, <2>4 DEF spawn_poller
<1>6. WasNamed'
  <2>1. held.as_of \in Int /\ held'.as_of \in Int
    BY <1>4, <1>5 DEF Polled, NamesUpTo
  <2> SUFFICES ASSUME NEW n \in listed
               PROVE  /\ n.entry \in Entries /\ n.as_of \in Int /\ n.as_of =< held'.as_of
                      /\ \E i \in issued : i.entry = n.entry /\ i.since =< n.as_of
                      /\ \E t \in Credentials : \E k \in DOMAIN chain_of(t) :
                           t.jti = n.jti /\ covers(n.entry, t.jti, chain_of(t)[k], t.iat)
    BY <1>1 DEF WasNamed
  <2>2. n.as_of =< held'.as_of
    BY <1>4, <1>5, <2>1 DEF WasNamed
  <2> QED BY <1>4, <2>2 DEF WasNamed
<1>7. ListInv'
  BY <1>1, <1>4, <1>5, <1>6 DEF ListInv
<1> QED BY <1>1, <1>3, <1>7, QuietAnswersRight DEF DoorInv

LEMMA DoorStep == DoorInv /\ [DoorNext]_doorvars => DoorInv'
<1> SUFFICES ASSUME DoorInv, [DoorNext]_doorvars PROVE DoorInv'
  OBVIOUS
<1>1. ASSUME NEW r \in config.callers, handle(r) PROVE DoorInv'
  BY <1>1, HandleKeepsCaches, HandleKeepsList, HandleAnswersRight DEF DoorInv
<1>2. CASE UNCHANGED doorvars
  BY <1>2 DEF doorvars, DoorInv, CacheInv, ClockTypes, CacheTypes, UsesRemembered, Remembered, SingleUse,
              ListInv, Polled, NamesUpTo, WasNamed, RevokedBites, NeverUnrevoked, OneDoorEach
<1> QED BY <1>1, <1>2, PassKeeps, StepBackKeeps, RevokeKeeps, PollerKeeps DEF DoorNext

(* What the caches remember is what RememberedWhileFresh asks for. *)
LEMMA DoorInvHolds == DoorInv => DoorHolds
<1> SUFFICES ASSUME DoorInv PROVE DoorHolds
  OBVIOUS
<1>1. RememberedWhileFresh
  <2> SUFFICES ASSUME NEW c \in DOMAIN uses, NEW p \in Proofs,
                      uses[c][p] > 0, p.iat + PROOF_WINDOW_SECS >= latest
               PROVE  p.jti \in replay[c].current \cup replay[c].previous
    BY DEF RememberedWhileFresh
  <2>1. Remembered(replay[c], p)
    BY DEF DoorInv, CacheInv, CacheTypes, UsesRemembered
  <2>2. PROOF_WINDOW_SECS \in Nat /\ latest \in Nat
    BY Numbers DEF DoorInv, CacheInv, ClockTypes
  <2>3. p.iat \in Int
    BY Numbers
  <2> QED BY <2>1, <2>2, <2>3 DEF Remembered
<1> QED BY <1>1 DEF DoorInv, CacheInv, DoorHolds

(* At the broker's doors a proof is remembered while it is fresh and let   *)
(* through once; a revocation bites in time where the list fails closed,   *)
(* and for good everywhere but on another list of the very same second;    *)
(* and a token has one door, whatever the clock, the polls and the callers *)
(* do (delegation/src/revocations.rs, gateway/revocations.rs).             *)
THEOREM DoorsHold == DoorSpec => []DoorHolds
<1>1. DoorInit => DoorInv
  BY DoorStarts
<1>2. DoorInv /\ [DoorNext]_doorvars => DoorInv'
  BY DoorStep
<1>3. DoorInv => DoorHolds
  BY DoorInvHolds
<1> QED BY <1>1, <1>2, <1>3, PTL DEF DoorSpec
=============================================================================
