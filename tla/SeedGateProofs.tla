----------------------------- MODULE SeedGateProofs -----------------------------
(***************************************************************************)
(* Proofs about what a gateway takes from outside and what it lets out:    *)
(* SeedGate, for any runs, calls and figures of the control plane, with or *)
(* without a unit ledger; Wardryx, for any questions, filters, policies,   *)
(* lifetimes and timeouts; and McpBroker, for any servers, tools, secrets  *)
(* and calls.                                                              *)
(***************************************************************************)
EXTENDS SeedGate, Wardryx, McpBroker, FiniteSetTheorems, TLAPS

-----------------------------------------------------------------------------
(* The runs with spend to take from the control plane. *)
Owed == CloudSpend \ CloudKilled

(* Calls that passed the gate. *)
Past(c) == calls[c].at \notin {"idle", "gate", "refused"}

(* What each part of the seed, once read, has left behind. *)
Reading ==
  /\ parts = 0 => run_seed = {} /\ \A r \in Runs : credited[r] = 0
  /\ parts >= 1 => \A r \in Owed : r \in run_seed <=> credited[r] = 0
  /\ \A r \in Runs : credited[r] =< 1 /\ (r \in run_seed => credited[r] = 0)
  /\ parts >= 3 => CloudKilled \subseteq killed

(* Before it serves, the gateway has no call and an empty ledger; the      *)
(* retry runs behind a closed gate; and an open gate means all was read.   *)
Starting ==
  /\ phase # "serve" =>
       /\ retry = "off" /\ known = {} /\ replayed_unseeded = {}
       /\ \A c \in Calls : calls[c].at = "idle"
  /\ retry # "off" => ~ready
  /\ retry = "credit" => complete
  /\ phase # "seed" /\ ready => complete

(* A call looks at a parent only if it declared one. *)
Declaring ==
  \A c \in Calls :
    calls[c].at \in {"parent", "parent_open", "parent_credit"} => calls[c].parent # NoParent

(* In enforce nothing passes a closed gate, and no killed run reaches its  *)
(* reservation.                                                            *)
Guarding ==
  enforce =>
    \A c \in Calls :
      /\ Past(c) => ready
      /\ calls[c].at \in {"reserve", "admitted"} => calls[c].run \notin CloudKilled
      /\ calls[c].at = "open" /\ ~calls[c].fresh => calls[c].run \in known

(* Behind a closed gate the ledger holds the replayed runs alone, each     *)
(* credited or noted for the late credit.                                  *)
Replaying ==
  enforce /\ phase = "serve" /\ ~ready =>
    /\ known \subseteq Journaled
    /\ \A r \in known \cap Owed : credited[r] = 1 \/ r \in replayed_unseeded

SeedInv ==
  SeedTypeOK /\ Reading /\ Starting /\ Declaring /\ Guarding /\ Replaying /\ SeedNeverLost

-----------------------------------------------------------------------------
(* The parts of the seed, by their place. *)
LEMMA PartsAre ==
  /\ Len(Parts) \in {3, 5}
  /\ Parts[1] = "run_spend" /\ Parts[2] = "budgets" /\ Parts[3] = "kills"
  /\ \A i \in 1 .. Len(Parts) :
       /\ Parts[i] = "run_spend" => i = 1
       /\ Parts[i] = "kills" => i = 3
<1>1. CASE Parts = <<"run_spend", "budgets", "kills">>
  BY <1>1
<1>2. CASE Parts = <<"run_spend", "budgets", "kills", "unit_month", "unit_budgets">>
  BY <1>2
<1> QED BY <1>1, <1>2, SeedPartsAssumption

(* What taking the seeds of some runs does to Reading. *)
LEMMA TakenIs ==
  ASSUME SeedTypeOK, Reading, NEW runs \in SUBSET Runs, take_run_seeds(runs)
  PROVE  /\ run_seed' \subseteq Runs /\ credited' \in [Runs -> Nat]
         /\ \A r \in Runs : credited'[r] >= credited[r]
         /\ \A r \in Runs : r \notin runs => credited'[r] = credited[r]
         /\ parts >= 1 => \A r \in Owed \cap runs : credited'[r] = 1
         /\ \A r \in Runs : r \in run_seed /\ r \in runs => credited'[r] = 1
         /\ parts = 0 => run_seed' = {} /\ \A r \in Runs : credited'[r] = 0
         /\ parts >= 1 => \A r \in Owed : r \in run_seed' <=> credited'[r] = 0
         /\ \A r \in Runs : credited'[r] =< 1 /\ (r \in run_seed' => credited'[r] = 0)
<1>1. /\ run_seed' = run_seed \ runs
      /\ \A r \in Runs : credited'[r] = credited[r] + IF r \in runs \cap run_seed THEN 1 ELSE 0
      /\ credited \in [Runs -> Nat] /\ run_seed \subseteq Runs
      /\ credited' = [r \in Runs |-> credited[r] + IF r \in runs \cap run_seed THEN 1 ELSE 0]
  BY DEF take_run_seeds, SeedTypeOK
<1>2. \A r \in Runs :
        /\ r \in run_seed => credited[r] = 0
        /\ credited[r] \in Nat /\ credited[r] =< 1
  BY <1>1 DEF Reading
<1>3. Owed \subseteq Runs
  BY SeedRunsAssumption DEF Owed
<1>4. \A r \in Runs :
        /\ r \in runs \cap run_seed => credited'[r] = 1
        /\ r \notin runs \cap run_seed => credited'[r] = credited[r]
  BY <1>1, <1>2
<1>5. credited' \in [Runs -> Nat]
  BY <1>1, <1>2
<1> QED BY <1>1, <1>2, <1>3, <1>4, <1>5 DEF Reading

-----------------------------------------------------------------------------
LEMMA SeedInitInv == SeedInit => SeedInv
<1> SUFFICES ASSUME SeedInit PROVE SeedInv
  OBVIOUS
<1>1. ASSUME NEW c \in Calls PROVE calls[c] \in CallState /\ calls[c].at = "idle"
  <2>1. PICK r \in Runs :
          calls[c] = [at |-> "idle", run |-> r, parent |-> NoParent, operator |-> FALSE,
                      fresh |-> FALSE]
    BY DEF SeedInit
  <2> QED BY <2>1 DEF CallState, Steps
<1>2. calls \in [Calls -> CallState]
  <2>1. PICK S : calls \in [Calls -> S]
    BY DEF SeedInit
  <2> QED BY <1>1, <2>1
<1>3. SeedTypeOK
  BY <1>2, PartsAre DEF SeedInit, SeedTypeOK
<1>4. \A c \in Calls : calls[c].at = "idle"
  BY <1>1
<1>5. Reading
  BY DEF SeedInit, Reading
<1>6. Starting
  BY <1>4 DEF SeedInit, Starting
<1>7. Guarding /\ Declaring
  BY <1>4 DEF Guarding, Declaring, Past
<1> QED BY <1>3, <1>5, <1>6, <1>7 DEF SeedInit, SeedInv, Replaying, SeedNeverLost

-----------------------------------------------------------------------------
(* What reading the next part does. *)
LEMMA ReadPartIs ==
  ASSUME SeedTypeOK, Reading, ReadPart, UNCHANGED credited
  PROVE  /\ parts' \in 1 .. Len(Parts) /\ parts' = parts + 1 /\ parts < Len(Parts)
         /\ run_seed' \subseteq Runs /\ cloud_budgets' \subseteq Runs /\ killed' \subseteq Runs
         /\ replayed_unseeded' = replayed_unseeded
         /\ Reading'
<1>1. parts \in 0 .. Len(Parts) - 1 /\ Len(Parts) \in {3, 5}
  BY PartsAre DEF SeedTypeOK, ReadPart, complete
<1>2. Parts[parts + 1] = "run_spend" <=> parts = 0
  BY <1>1, PartsAre
<1>3. Parts[parts + 1] = "kills" <=> parts = 2
  BY <1>1, PartsAre
<1>4. parts' = parts + 1
  BY DEF ReadPart
<1>5. run_seed' = IF parts = 0 THEN Owed ELSE run_seed
  BY <1>2 DEF ReadPart, Owed
<1>6. killed' = IF parts = 2 THEN killed \cup CloudKilled ELSE killed
  BY <1>3 DEF ReadPart
<1>7. cloud_budgets' \in {CloudBudget, cloud_budgets}
  BY DEF ReadPart
<1>8. Owed \subseteq Runs
  BY SeedRunsAssumption DEF Owed
<1>9. parts \in Nat /\ credited' = credited
  BY <1>1
<1>10. /\ parts' >= 1
       /\ \A r \in Owed : r \in run_seed' <=> credited[r] = 0
       /\ \A r \in Runs : credited[r] =< 1 /\ (r \in run_seed' => credited[r] = 0)
  BY <1>4, <1>5, <1>8, <1>9 DEF Reading
<1>11. parts' >= 3 => CloudKilled \subseteq killed'
  BY <1>4, <1>6, <1>9 DEF Reading
<1>12. Reading'
  BY <1>4, <1>9, <1>10, <1>11 DEF Reading
<1> QED
  BY <1>1, <1>4, <1>5, <1>6, <1>7, <1>8, <1>12, SeedRunsAssumption DEF SeedTypeOK, ReadPart

(* A call's step from one place to the next keeps its type. *)
LEMMA GoesType ==
  ASSUME SeedTypeOK, NEW c \in Calls, NEW at \in Steps, Goes(c, at)
  PROVE  /\ calls' \in [Calls -> CallState]
         /\ calls'[c].at = at /\ calls'[c].run = calls[c].run
         /\ calls'[c].parent = calls[c].parent /\ calls'[c].fresh = calls[c].fresh
         /\ \A d \in Calls : d # c => calls'[d] = calls[d]
BY DEF SeedTypeOK, Goes, CallState

(* The steps of the task, the control plane and the pollers, all at once:  *)
(* they move no call.                                                      *)
LEMMA TaskReading ==
  ASSUME SeedTypeOK, Reading, Starting, SeedTask \/ GoDown \/ ComeUp \/ PollBudgets \/ PollKills
  PROVE  SeedTypeOK' /\ Reading'
<1>0. Journaled \subseteq Runs /\ CloudBudget \subseteq Runs /\ CloudKilled \subseteq Runs
  BY SeedRunsAssumption
<1>1. ASSUME ReadPart, UNCHANGED <<enforce, cloud, phase, retry, ready, ledger, calls>>
      PROVE  SeedTypeOK' /\ Reading'
  BY <1>1, ReadPartIs DEF SeedTypeOK, cloud, ledger
<1>2. ASSUME NEW runs \in SUBSET Runs, take_run_seeds(runs),
             known' \subseteq Runs, replayed_unseeded' \subseteq Runs,
             phase' \in {"seed", "replay", "serve"}, retry' \in {"off", "sleep", "ask", "credit"},
             UNCHANGED <<enforce, cloud, parts, ready, cloud_budgets, killed, calls>>
      PROVE  SeedTypeOK' /\ Reading'
  BY <1>2, TakenIs DEF SeedTypeOK, Reading, cloud
<1>3. CASE SeedStartup
  BY <1>1, <1>3 DEF SeedStartup
<1>4. CASE RetryReads
  BY <1>1, <1>4 DEF RetryReads
<1>5. CASE replay_at_startup
  BY <1>0, <1>2, <1>5 DEF replay_at_startup, SeedTypeOK
<1>6. ASSUME NEW run \in Runs, credit_late_seed(run) PROVE SeedTypeOK' /\ Reading'
  BY <1>2, <1>6 DEF credit_late_seed, take_run_seed, startup, SeedTypeOK
<1>7. CASE SeedStartupEnds \/ RetryWakes \/ RetryFails \/ RetryDone \/ open_now
  <2>1. /\ UNCHANGED <<cloud, enforce, parts, money, ledger, calls>>
        /\ phase' \in {phase, "replay"} /\ retry' \in {retry, "ask", "sleep", "credit", "off"}
    BY <1>7 DEF SeedStartupEnds, RetryWakes, RetryFails, RetryDone, open_now, startup
  <2>2. SeedStartupEnds => ready' \in BOOLEAN
    BY Zenon DEF SeedStartupEnds, complete
  <2>3. ready' \in BOOLEAN
    BY <1>7, <2>2 DEF RetryWakes, RetryFails, RetryDone, open_now, SeedTypeOK
  <2> QED BY <2>1, <2>3 DEF SeedTypeOK, Reading, cloud, money, ledger
<1>8. CASE GoDown \/ ComeUp
  <2>1. UNCHANGED <<enforce, startup, money, ledger, calls>>
    BY <1>8 DEF GoDown, ComeUp
  <2>2. up' \in BOOLEAN
    BY <1>8, Zenon DEF GoDown, ComeUp
  <2>3. outages' = outages + 1 \/ outages' = outages
    BY <1>8, Zenon DEF GoDown, ComeUp
  <2> QED BY <2>1, <2>2, <2>3 DEF SeedTypeOK, Reading, startup, money, ledger
<1>9. CASE PollBudgets \/ PollKills
  BY <1>0, <1>9 DEF PollBudgets, PollKills, SeedTypeOK, Reading, cloud, startup, ledger
<1> QED BY <1>3, <1>4, <1>5, <1>6, <1>7, <1>8, <1>9 DEF SeedTask

-----------------------------------------------------------------------------
(* What one step of a call changes: its own place, runs it opens, a seed   *)
(* it takes.                                                               *)
LEMMA CallStepIs ==
  ASSUME SeedTypeOK, Declaring, NEW c \in Calls, CallStep(c)
  PROVE  /\ UNCHANGED <<enforce, cloud, startup, replayed_unseeded, cloud_budgets, killed>>
         /\ calls' \in [Calls -> CallState] /\ calls'[c].run = calls[c].run
         /\ \A d \in Calls : d # c => calls'[d] = calls[d]
         /\ known \subseteq known' /\ known' \subseteq Runs
         /\ (UNCHANGED <<run_seed, credited>>) \/ \E r \in Runs : take_run_seed(r)
<1>0. calls \in [Calls -> CallState] /\ calls[c] \in CallState /\ known \subseteq Runs
  BY DEF SeedTypeOK
<1>1. ASSUME NEW parent \in Runs \cup {NoParent}, Arrive(c, parent)
      PROVE  calls' \in [Calls -> CallState] /\ calls'[c].run = calls[c].run
  <2> DEFINE b == calls[c].run \in cloud_budgets
  <2>1. b \in BOOLEAN
    BY SMT
  <2>2. calls' = [calls EXCEPT ![c].at = "gate", ![c].parent = parent, ![c].operator = b]
    BY <1>1, Zenon DEF Arrive
  <2> HIDE DEF b
  <2> QED BY <1>0, <2>1, <2>2 DEF CallState, Steps
<1>2. ASSUME ReadFresh(c)
      PROVE  calls' \in [Calls -> CallState] /\ calls'[c].run = calls[c].run
  <2> DEFINE b == calls[c].run \notin known
  <2>1. b \in BOOLEAN
    BY Zenon
  <2>2. calls' = [calls EXCEPT ![c].at = "open", ![c].fresh = b]
    BY <1>2, Zenon DEF ReadFresh
  <2> HIDE DEF b
  <2> QED BY <1>0, <2>1, <2>2 DEF CallState, Steps
<1>3. ASSUME NEW at \in Steps, Goes(c, at)
      PROVE  calls' \in [Calls -> CallState] /\ calls'[c].run = calls[c].run
  BY <1>3, GoesType
<1>4. calls' \in [Calls -> CallState] /\ calls'[c].run = calls[c].run
  BY <1>1, <1>2, <1>3
     DEF CallStep, CheckGate, ReadParent, OpenParent, CreditParent, OpenRun,
         credit_run_seed_if_any, CheckKilled, Reserve, Steps
<1>5. \A d \in Calls : d # c => calls'[d] = calls[d]
  BY <1>0 DEF CallStep, Arrive, ReadFresh, CheckGate, ReadParent, OpenParent, CreditParent,
              OpenRun, credit_run_seed_if_any, CheckKilled, Reserve, Goes
<1>6. UNCHANGED <<enforce, cloud, startup, replayed_unseeded, cloud_budgets, killed>>
  BY DEF CallStep, Arrive, ReadFresh, CheckGate, ReadParent, OpenParent, CreditParent,
         OpenRun, credit_run_seed_if_any, CheckKilled, Reserve, money
<1>7. /\ known \subseteq known' /\ known' \subseteq Runs
      /\ (UNCHANGED <<run_seed, credited>>) \/ \E r \in Runs : take_run_seed(r)
  <2>1. CASE OpenParent(c)
    <3>1. calls[c].parent \in Runs
      BY <1>0, <2>1 DEF OpenParent, CallState, Declaring
    <3> QED BY <1>0, <2>1, <3>1 DEF OpenParent, money
  <2>2. CASE OpenRun(c)
    BY <1>0, <2>2 DEF OpenRun, money, CallState
  <2>3. CASE CreditParent(c)
    BY <1>0, <2>3 DEF CreditParent, CallState, Declaring
  <2>4. CASE credit_run_seed_if_any(c)
    BY <1>0, <2>4 DEF credit_run_seed_if_any, CallState
  <2>5. CASE UNCHANGED <<money, ledger>>
    BY <1>0, <2>5 DEF money, ledger
  <2> QED BY <2>1, <2>2, <2>3, <2>4, <2>5
          DEF CallStep, Arrive, ReadFresh, CheckGate, ReadParent, CheckKilled, Reserve
<1> QED BY <1>4, <1>5, <1>6, <1>7

LEMMA CallReading ==
  ASSUME SeedTypeOK, Declaring, Reading, NEW c \in Calls, CallStep(c)
  PROVE  SeedTypeOK' /\ Reading'
<1>1. /\ UNCHANGED <<enforce, cloud, startup, replayed_unseeded, cloud_budgets, killed>>
      /\ calls' \in [Calls -> CallState] /\ known' \subseteq Runs
      /\ (UNCHANGED <<run_seed, credited>>) \/ \E r \in Runs : take_run_seed(r)
  BY CallStepIs
<1>2. CASE UNCHANGED <<run_seed, credited>>
  BY <1>1, <1>2 DEF SeedTypeOK, Reading, cloud, startup
<1>3. ASSUME NEW r \in Runs, take_run_seed(r) PROVE SeedTypeOK' /\ Reading'
  BY <1>1, <1>3, TakenIs DEF SeedTypeOK, Reading, cloud, startup, take_run_seed
<1> QED BY <1>1, <1>2, <1>3

-----------------------------------------------------------------------------
(* What a call declared, and read of its run, does not change.             *)
Keeps(c) == calls'[c].parent = calls[c].parent /\ calls'[c].fresh = calls[c].fresh

(* Where one step takes a call, and what it does to the ledger there.      *)
Moves(c, from, to) == calls[c].at \in from /\ calls'[c].at \in to

LEMMA CallMoves ==
  ASSUME SeedTypeOK, NEW c \in Calls, CallStep(c)
  PROVE  \/ Moves(c, {"idle"}, {"gate"}) /\ UNCHANGED ledger
         \/ /\ Moves(c, {"gate"}, {"refused", "fresh", "parent"}) /\ Keeps(c) /\ UNCHANGED ledger
            /\ calls'[c].at = "refused" \/ ready \/ ~enforce
            /\ calls'[c].at = "parent" => calls[c].parent # NoParent
         \/ Moves(c, {"parent"}, {"parent_open", "fresh"}) /\ Keeps(c) /\ UNCHANGED ledger
         \/ /\ Moves(c, {"parent_open"}, {"parent_credit"}) /\ Keeps(c) /\ UNCHANGED credited
            /\ known' = known \cup {calls[c].parent}
         \/ /\ Moves(c, {"parent_credit"}, {"fresh"}) /\ Keeps(c) /\ UNCHANGED known
            /\ take_run_seed(calls[c].parent)
         \/ /\ Moves(c, {"fresh"}, {"open"}) /\ UNCHANGED ledger
            /\ calls'[c].fresh \/ calls[c].run \in known
         \/ /\ Moves(c, {"open"}, {"credit", "kill"}) /\ Keeps(c) /\ UNCHANGED credited
            /\ known' = known \cup {calls[c].run}
            /\ calls'[c].at = "credit" \/ ~calls[c].fresh
         \/ Moves(c, {"open"}, {"refused"}) /\ Keeps(c) /\ UNCHANGED ledger
         \/ /\ Moves(c, {"credit"}, {"kill"}) /\ Keeps(c) /\ UNCHANGED known
            /\ take_run_seed(calls[c].run)
         \/ /\ Moves(c, {"kill"}, {"reserve", "refused"}) /\ Keeps(c) /\ UNCHANGED ledger
            /\ calls'[c].at = "refused" \/ calls[c].run \notin killed
         \/ Moves(c, {"reserve"}, {"admitted", "refused"}) /\ Keeps(c) /\ UNCHANGED ledger
<1>0. calls \in [Calls -> CallState] /\ calls[c] \in CallState
  BY DEF SeedTypeOK
<1>1. ASSUME NEW at \in Steps, Goes(c, at) PROVE calls'[c].at = at /\ Keeps(c)
  BY <1>1, GoesType DEF Keeps
<1>2. ASSUME NEW parent \in Runs \cup {NoParent}, Arrive(c, parent)
      PROVE  Moves(c, {"idle"}, {"gate"}) /\ UNCHANGED ledger
  BY <1>0, <1>2 DEF Arrive, Moves, CallState
<1>3. CASE CheckGate(c)
  <2>1. CASE ~ready /\ enforce
    <3>1. Goes(c, "refused")
      BY <1>3, <2>1, Zenon DEF CheckGate
    <3> QED BY <1>1, <1>3, <3>1 DEF CheckGate, Steps, Moves
  <2>2. CASE ~(~ready /\ enforce) /\ calls[c].parent = NoParent
    <3>1. Goes(c, "fresh")
      BY <1>3, <2>2, Zenon DEF CheckGate
    <3>2. Moves(c, {"gate"}, {"refused", "fresh", "parent"}) /\ Keeps(c) /\ UNCHANGED ledger
          /\ calls'[c].at # "parent"
      BY <1>1, <1>3, <3>1 DEF CheckGate, Steps, Moves
    <3> QED BY <2>2, <3>2, Zenon
  <2>3. CASE ~(~ready /\ enforce) /\ calls[c].parent # NoParent
    <3>1. Goes(c, "parent")
      BY <1>3, <2>3, Zenon DEF CheckGate
    <3>2. Moves(c, {"gate"}, {"refused", "fresh", "parent"}) /\ Keeps(c) /\ UNCHANGED ledger
      BY <1>1, <1>3, <3>1 DEF CheckGate, Steps, Moves
    <3> QED BY <2>3, <3>2, Zenon
  <2> QED BY <2>1, <2>2, <2>3, Zenon
<1>4. CASE ReadParent(c)
  <2>1. Goes(c, "parent_open") \/ Goes(c, "fresh")
    BY <1>4 DEF ReadParent
  <2> QED BY <1>1, <1>4, <2>1 DEF ReadParent, Steps, Moves
<1>5. CASE OpenParent(c)
  BY <1>1, <1>5 DEF OpenParent, Steps, Moves
<1>6. CASE CreditParent(c)
  BY <1>1, <1>6 DEF CreditParent, Steps, Moves
<1>7. CASE ReadFresh(c)
  <2> DEFINE b == calls[c].run \notin known
  <2>1. b \in BOOLEAN /\ (b \/ calls[c].run \in known)
    BY Zenon
  <2>2. calls' = [calls EXCEPT ![c].at = "open", ![c].fresh = b]
    BY <1>7, Zenon DEF ReadFresh
  <2>3. calls[c].at = "fresh" /\ UNCHANGED ledger
    BY <1>7 DEF ReadFresh
  <2> HIDE DEF b
  <2>4. calls'[c].at = "open" /\ calls'[c].fresh = b
    BY <1>0, <2>1, <2>2 DEF CallState
  <2> QED BY <2>1, <2>3, <2>4 DEF Moves
<1>8. CASE OpenRun(c)
  <2>1. CASE Goes(c, "refused") /\ UNCHANGED known
    BY <1>1, <1>8, <2>1 DEF OpenRun, Steps, Moves, ledger
  <2>2. CASE known' = known \cup {calls[c].run} /\ Goes(c, IF calls[c].fresh THEN "credit" ELSE "kill")
    <3>1. calls[c].fresh \in BOOLEAN
      BY <1>0 DEF CallState
    <3>2. CASE calls[c].fresh
      <4>1. Goes(c, "credit")
        BY <2>2, <3>2, Zenon
      <4> QED BY <1>1, <1>8, <2>2, <4>1 DEF OpenRun, Steps, Moves
    <3>3. CASE ~calls[c].fresh
      <4>1. Goes(c, "kill")
        BY <2>2, <3>3, Zenon
      <4> QED BY <1>1, <1>8, <2>2, <3>3, <4>1 DEF OpenRun, Steps, Moves
    <3> QED BY <3>2, <3>3, Zenon
  <2> QED BY <1>8, <2>1, <2>2, Zenon DEF OpenRun
<1>9. CASE credit_run_seed_if_any(c)
  BY <1>1, <1>9 DEF credit_run_seed_if_any, Steps, Moves
<1>10. CASE CheckKilled(c)
  <2>1. Goes(c, "refused") \/ (Goes(c, "reserve") /\ calls[c].run \notin killed)
    BY <1>10 DEF CheckKilled
  <2> QED BY <1>1, <1>10, <2>1 DEF CheckKilled, Steps, Moves
<1>11. CASE Reserve(c)
  <2>1. Goes(c, "admitted") \/ Goes(c, "refused")
    BY <1>11 DEF Reserve
  <2> QED BY <1>1, <1>11, <2>1 DEF Reserve, Steps, Moves
<1> QED BY <1>2, <1>3, <1>4, <1>5, <1>6, <1>7, <1>8, <1>9, <1>10, <1>11, Zenon DEF CallStep

(* The steps of the task, the control plane and the pollers.               *)
OtherStep == SeedTask \/ GoDown \/ ComeUp \/ PollBudgets \/ PollKills

LEMMA OthersMoveNoCall == ASSUME OtherStep PROVE UNCHANGED <<enforce, calls>>
BY DEF OtherStep, SeedTask, GoDown, ComeUp, PollBudgets, PollKills, SeedStartup, SeedStartupEnds,
       replay_at_startup, RetryWakes, RetryReads, RetryFails, RetryDone, credit_late_seed, open_now

LEMMA SeedSteps ==
  [SeedNext]_svars <=> OtherStep \/ (\E c \in Calls : CallStep(c)) \/ UNCHANGED svars
BY DEF SeedNext, OtherStep

LEMMA SeedTypeStep ==
  ASSUME SeedTypeOK, Reading, Starting, Declaring, [SeedNext]_svars
  PROVE  SeedTypeOK' /\ Reading'
<1>1. CASE UNCHANGED svars
  BY <1>1 DEF svars, cloud, startup, money, ledger, SeedTypeOK, Reading
<1> QED BY <1>1, TaskReading, CallReading DEF SeedNext

-----------------------------------------------------------------------------
LEMMA DeclaringStep ==
  ASSUME SeedTypeOK, Declaring, [SeedNext]_svars
  PROVE  Declaring'
<1>1. CASE UNCHANGED calls
  BY <1>1 DEF Declaring
<1>2. ASSUME NEW c \in Calls, CallStep(c) PROVE Declaring'
  <2>1. \A d \in Calls : d # c => calls'[d] = calls[d]
    BY <1>2, CallStepIs
  <2>2. calls'[c].at \in {"parent", "parent_open", "parent_credit"} => calls'[c].parent # NoParent
    BY <1>2, CallMoves DEF Moves, Keeps, Declaring
  <2> QED BY <2>1, <2>2 DEF Declaring
<1> QED BY <1>1, <1>2, SeedSteps, OthersMoveNoCall DEF svars

LEMMA StartingStep ==
  ASSUME SeedTypeOK, Reading, Starting, [SeedNext]_svars
  PROVE  Starting'
<1>0. Len(Parts) \in {3, 5} /\ parts \in Nat
  BY PartsAre DEF SeedTypeOK
<1>1. CASE SeedStartup \/ RetryReads
  <2>1. /\ ReadPart /\ UNCHANGED <<phase, retry, ready, ledger, calls>>
        /\ phase = "seed" \/ retry = "ask"
    BY <1>1 DEF SeedStartup, RetryReads
  <2>2. replayed_unseeded' = replayed_unseeded
    BY <2>1 DEF ReadPart
  <2> QED BY <2>1, <2>2 DEF Starting, ledger
<1>2. CASE SeedStartupEnds
  BY <1>2 DEF SeedStartupEnds, Starting, complete, money, ledger
<1>3. CASE replay_at_startup
  BY <1>3 DEF replay_at_startup, Starting, complete
<1>4. CASE RetryWakes \/ RetryFails \/ RetryDone
  BY <1>4 DEF RetryWakes, RetryFails, RetryDone, Starting, complete, money, ledger
<1>5. ASSUME NEW run \in Runs, credit_late_seed(run) PROVE Starting'
  BY <1>5 DEF credit_late_seed, Starting, complete, startup
<1>6. CASE open_now
  BY <1>6 DEF open_now, Starting, complete, money, ledger
<1>7. CASE GoDown \/ ComeUp \/ PollBudgets \/ PollKills
  BY <1>7 DEF GoDown, ComeUp, PollBudgets, PollKills, Starting, complete, startup, money, ledger
<1>8. ASSUME NEW c \in Calls, CallStep(c) PROVE Starting'
  <2>1. phase = "serve"
    BY <1>8 DEF CallStep, Arrive, CheckGate, ReadParent, OpenParent, CreditParent, ReadFresh, OpenRun,
                credit_run_seed_if_any, CheckKilled, Reserve, Starting
  <2>2. UNCHANGED startup
    BY <1>8 DEF CallStep, Arrive, CheckGate, ReadParent, OpenParent, CreditParent, ReadFresh, OpenRun,
                credit_run_seed_if_any, CheckKilled, Reserve
  <2> QED BY <2>1, <2>2 DEF Starting, startup, complete
<1>9. CASE UNCHANGED svars
  BY <1>9 DEF svars, startup, money, ledger, Starting, complete
<1> QED BY <1>1, <1>2, <1>3, <1>4, <1>5, <1>6, <1>7, <1>8, <1>9 DEF SeedNext, SeedTask

-----------------------------------------------------------------------------
(* A call that was not past the gate and is now, went through it open.     *)
LEMMA PastStep ==
  ASSUME SeedTypeOK, NEW c \in Calls, CallStep(c), Past(c)'
  PROVE  Past(c) \/ ready \/ ~enforce
BY CallMoves DEF Moves, Past

LEMMA GuardingStep ==
  ASSUME SeedTypeOK, Reading, Starting, Declaring, Guarding, [SeedNext]_svars
  PROVE  Guarding'
<1> SUFFICES ASSUME enforce', NEW d \in Calls
             PROVE  /\ Past(d)' => ready'
                    /\ calls'[d].at \in {"reserve", "admitted"} => calls'[d].run \notin CloudKilled
                    /\ calls'[d].at = "open" /\ ~calls'[d].fresh => calls'[d].run \in known'
  BY DEF Guarding
<1>0. Len(Parts) \in {3, 5}
  BY PartsAre
<1>1. ASSUME UNCHANGED <<enforce, calls>>, ready => ready', known \subseteq known' PROVE
        /\ Past(d)' => ready'
        /\ calls'[d].at \in {"reserve", "admitted"} => calls'[d].run \notin CloudKilled
        /\ calls'[d].at = "open" /\ ~calls'[d].fresh => calls'[d].run \in known'
  BY <1>1, Zenon DEF Guarding, Past
<1>2. CASE OtherStep
  <2>1. UNCHANGED <<enforce, calls>>
    BY <1>2, OthersMoveNoCall
  <2>2. known \subseteq known'
    BY <1>2 DEF OtherStep, SeedTask, GoDown, ComeUp, PollBudgets, PollKills, SeedStartup,
                SeedStartupEnds, replay_at_startup, RetryWakes, RetryReads, RetryFails, RetryDone,
                credit_late_seed, open_now, ledger
  <2>3. CASE phase = "seed"
    BY <2>1, <2>3 DEF Starting, Past
  <2>4. CASE phase # "seed"
    <3>1. UNCHANGED ready \/ ready'
      BY <1>2, <2>4, Zenon
         DEF OtherStep, SeedTask, GoDown, ComeUp, PollBudgets, PollKills, SeedStartup,
             SeedStartupEnds, replay_at_startup, RetryWakes, RetryReads, RetryFails, RetryDone,
             credit_late_seed, open_now, startup
    <3> QED BY <1>1, <2>1, <2>2, <3>1, Zenon
  <2> QED BY <2>3, <2>4
<1>3. ASSUME NEW c \in Calls, CallStep(c)
      PROVE  /\ Past(d)' => ready'
             /\ calls'[d].at \in {"reserve", "admitted"} => calls'[d].run \notin CloudKilled
             /\ calls'[d].at = "open" /\ ~calls'[d].fresh => calls'[d].run \in known'
  <2>1. /\ enforce' = enforce /\ ready' = ready /\ parts' = parts /\ phase' = phase
        /\ known \subseteq known' /\ calls'[c].run = calls[c].run
        /\ \A e \in Calls : e # c => calls'[e] = calls[e]
    BY <1>3, CallStepIs DEF startup
  <2>2. CASE d # c
    BY <2>1, <2>2, Zenon DEF Guarding, Past
  <2>3. CASE d = c
    <3>1. Past(c)' => ready
      BY <1>3, <2>1, PastStep, Zenon DEF Guarding
    <3>2. calls[c].at = "kill" /\ calls[c].run \notin killed => calls[c].run \notin CloudKilled
      <4>1. SUFFICES ASSUME calls[c].at = "kill" PROVE CloudKilled \subseteq killed
        OBVIOUS
      <4>2. Past(c)
        BY <4>1 DEF Past
      <4>3. ready
        BY <2>1, <4>2, Zenon DEF Guarding
      <4>4. phase = "serve"
        BY <4>1, SMT DEF Starting, SeedTypeOK
      <4>5. complete
        BY <4>3, <4>4, Zenon DEF Starting
      <4> QED BY <1>0, <4>5 DEF complete, Reading
    <3>3. calls[c].at \in {"reserve", "admitted"} => calls[c].run \notin CloudKilled
      BY <2>1, Zenon DEF Guarding
    <3>4. calls'[c].at \in {"reserve", "admitted"} => calls'[c].run \notin CloudKilled
      BY <1>3, <2>1, <3>2, <3>3, CallMoves DEF Moves
    <3>5. calls'[c].at = "open" => calls'[c].fresh \/ calls[c].run \in known
      BY <1>3, CallMoves DEF Moves
    <3> QED BY <2>1, <2>3, <3>1, <3>4, <3>5, Zenon
  <2> QED BY <2>2, <2>3
<1>4. CASE UNCHANGED svars
  <2>1. UNCHANGED <<enforce, calls, ready, known>>
    BY <1>4 DEF svars, startup, ledger
  <2> QED BY <1>1, <2>1, Zenon
<1> QED BY <1>2, <1>3, <1>4, SeedSteps

-----------------------------------------------------------------------------
(* In enforce, behind a closed gate, a call opens nothing and takes        *)
(* nothing.                                                                *)
LEMMA ClosedGateHolds ==
  ASSUME SeedTypeOK, Guarding, enforce, ~ready, NEW c \in Calls, CallStep(c)
  PROVE  UNCHANGED ledger
<1>1. ~Past(c)
  BY Zenon DEF Guarding
<1> QED BY <1>1, CallMoves DEF Moves, Past

(* The ledger the replay leaves.                                           *)
LEMMA ReplayLeaves ==
  ASSUME SeedTypeOK, Reading, Starting, replay_at_startup
  PROVE  /\ known' = Journaled
         /\ ready /\ parts >= 1 => \A r \in Journaled \cap Owed : credited'[r] = 1
         /\ ~ready => \A r \in Journaled : credited'[r] = 1 \/ r \in replayed_unseeded'
<1>0. Journaled \in SUBSET Runs
  BY SeedRunsAssumption
<1>1. take_run_seeds(Journaled) /\ known = {}
  BY DEF replay_at_startup, Starting
<1>2. known' = Journaled
  BY <1>1 DEF replay_at_startup
<1>3. parts >= 1 => \A r \in Owed \cap Journaled : credited'[r] = 1
  BY <1>0, <1>1, TakenIs
<1>4. ~ready => replayed_unseeded' = Journaled \ run_seed
  BY Zenon DEF replay_at_startup
<1>5. \A r \in Journaled : r \in run_seed => credited'[r] = 1
  BY <1>0, <1>1, TakenIs
<1> QED BY <1>2, <1>3, <1>4, <1>5

LEMMA ReplayingStep ==
  ASSUME SeedTypeOK, Reading, Starting, Guarding, Replaying, [SeedNext]_svars
  PROVE  Replaying'
<1> DEFINE Left == known \subseteq Journaled
                   /\ \A r \in known \cap Owed : credited[r] = 1 \/ r \in replayed_unseeded
<1> SUFFICES ASSUME enforce', phase' = "serve", ~ready' PROVE Left'
  BY DEF Replaying
<1>0. Owed \subseteq Runs /\ Len(Parts) \in {3, 5}
  BY PartsAre, SeedRunsAssumption DEF Owed
<1>1. ASSUME UNCHANGED <<enforce, phase, ready, known, credited, replayed_unseeded>> PROVE Left'
  <2>1. enforce /\ phase = "serve" /\ ~ready
    BY <1>1, Zenon
  <2> QED BY <1>1, <2>1 DEF Replaying
<1>2. CASE replay_at_startup
  <2>1. ~ready
    BY <1>2, Zenon DEF replay_at_startup
  <2> QED BY <1>2, <2>1, ReplayLeaves DEF Left
<1>3. ASSUME NEW run \in Runs, credit_late_seed(run) PROVE Left'
  <2>1. /\ retry = "credit" /\ take_run_seeds({run}) /\ UNCHANGED <<enforce, phase, ready, known>>
        /\ replayed_unseeded' = replayed_unseeded \ {run}
    BY <1>3 DEF credit_late_seed, take_run_seed, startup
  <2>2. enforce /\ phase = "serve" /\ ~ready
    BY <2>1, Zenon
  <2>3. Left
    BY <2>2, Zenon DEF Replaying
  <2>4. parts >= 1
    BY <1>0, <2>1 DEF Starting, complete
  <2>5. \A r \in Owed \cap {run} : credited'[r] = 1
    BY <2>1, <2>4, TakenIs
  <2>6. \A r \in Runs : r \notin {run} => credited'[r] = credited[r]
    BY <2>1, TakenIs
  <2> QED BY <1>0, <2>1, <2>3, <2>5, <2>6
<1>4. ASSUME NEW c \in Calls, CallStep(c) PROVE Left'
  <2>1. UNCHANGED <<enforce, cloud, startup, replayed_unseeded>>
    BY <1>4 DEF CallStep, Arrive, CheckGate, ReadParent, OpenParent, CreditParent, ReadFresh, OpenRun,
                credit_run_seed_if_any, CheckKilled, Reserve, money
  <2>2. UNCHANGED <<phase, ready>>
    BY <2>1 DEF startup
  <2>3. enforce /\ ~ready
    BY <2>1, <2>2, Zenon
  <2>4. UNCHANGED ledger
    BY <1>4, <2>3, ClosedGateHolds, Zenon
  <2> QED BY <1>1, <2>1, <2>2, <2>4 DEF ledger
<1>5. CASE SeedStartup \/ RetryReads \/ RetryWakes \/ RetryFails \/ RetryDone
  BY <1>1, <1>5 DEF SeedStartup, RetryReads, ReadPart, RetryWakes, RetryFails, RetryDone, ledger, money
<1>6. CASE SeedStartupEnds
  BY <1>6 DEF SeedStartupEnds
<1>7. ~open_now
  BY Zenon DEF open_now
<1>8. CASE GoDown \/ ComeUp \/ PollBudgets \/ PollKills \/ UNCHANGED svars
  BY <1>1, <1>8 DEF GoDown, ComeUp, PollBudgets, PollKills, svars, ledger, money, startup
<1> QED BY <1>2, <1>3, <1>4, <1>5, <1>6, <1>7, <1>8 DEF SeedNext, SeedTask

-----------------------------------------------------------------------------
(* A call's step leaves no run it opens, or that another call is about to  *)
(* credit, without its seed.                                               *)
LEMMA CallLosesNoSeed ==
  ASSUME SeedTypeOK, Reading, Declaring, Guarding, enforce, parts >= 1,
         NEW c \in Calls, CallStep(c),
         \A r \in known \cap Owed : credited[r] = 1 \/ Crediting(r)
  PROVE  \A r \in known' \cap Owed : credited'[r] = 1 \/ Crediting(r)'
<1> SUFFICES ASSUME NEW r \in known' \cap Owed PROVE credited'[r] = 1 \/ Crediting(r)'
  OBVIOUS
<1>0. r \in Runs
  BY SeedRunsAssumption DEF Owed
<1>1. /\ \A d \in Calls : d # c => calls'[d] = calls[d]
      /\ calls'[c].run = calls[c].run
      /\ calls \in [Calls -> CallState] /\ calls[c] \in CallState
  BY CallStepIs DEF SeedTypeOK
<1>2. (* whatever is taken, a credit made stays made *)
      credited[r] = 1 => credited'[r] = 1
  <2>1. CASE UNCHANGED credited
    BY <2>1
  <2>2. ASSUME NEW q \in Runs, take_run_seeds({q}) PROVE credited[r] = 1 => credited'[r] = 1
    <3>1. credited'[r] >= credited[r] /\ credited'[r] =< 1 /\ credited' \in [Runs -> Nat]
      BY <1>0, <2>2, TakenIs
    <3> QED BY <1>0, <3>1
  <2> QED BY <2>1, <2>2, CallStepIs DEF take_run_seed
<1>3. ASSUME NEW d \in Calls, d # c,
             \/ calls[d].at = "credit" /\ calls[d].run = r
             \/ calls[d].at = "parent_credit" /\ calls[d].parent = r
      PROVE  Crediting(r)'
  BY <1>1, <1>3 DEF Crediting
<1>4. ASSUME UNCHANGED known, calls[c].at \notin {"credit", "parent_credit"}
      PROVE  credited'[r] = 1 \/ Crediting(r)'
  BY <1>2, <1>3, <1>4 DEF Crediting
<1>5. CASE Moves(c, {"parent_open"}, {"parent_credit"}) /\ Keeps(c)
           /\ known' = known \cup {calls[c].parent}
  <2>1. CASE r = calls[c].parent
    BY <1>5, <2>1 DEF Moves, Keeps, Crediting
  <2>2. CASE r # calls[c].parent
    BY <1>2, <1>3, <1>5, <2>2 DEF Moves, Crediting
  <2> QED BY <2>1, <2>2
<1>6. CASE /\ Moves(c, {"open"}, {"credit", "kill"}) /\ known' = known \cup {calls[c].run}
           /\ calls'[c].at = "credit" \/ ~calls[c].fresh
  <2>1. CASE r = calls[c].run /\ calls'[c].at = "credit"
    BY <1>1, <2>1 DEF Crediting
  <2>2. r = calls[c].run /\ calls'[c].at # "credit" => r \in known
    BY <1>6 DEF Moves, Guarding
  <2>3. CASE r \in known
    BY <1>2, <1>3, <1>6, <2>3 DEF Moves, Crediting
  <2> QED BY <1>6, <2>1, <2>2, <2>3
<1>7. ASSUME NEW q, UNCHANGED known, take_run_seed(q),
             \/ calls[c].at = "credit" /\ calls[c].run = q
             \/ calls[c].at = "parent_credit" /\ calls[c].parent = q
      PROVE  credited'[r] = 1 \/ Crediting(r)'
  <2>1. q \in Runs
    BY <1>1, <1>7 DEF CallState, Declaring
  <2>2. r = q => credited'[r] = 1
    BY <1>7, <2>1, TakenIs DEF take_run_seed
  <2> QED BY <1>2, <1>3, <1>7, <2>2 DEF Crediting
<1> QED BY <1>4, <1>5, <1>6, <1>7, CallMoves DEF Moves, ledger

LEMMA SeedNeverLostStep ==
  ASSUME SeedInv, [SeedNext]_svars
  PROVE  SeedNeverLost'
<1> USE DEF SeedInv
<1> DEFINE Kept == \A r \in known \cap Owed : credited[r] = 1 \/ Crediting(r)
<1>0. Owed \subseteq Runs /\ Len(Parts) \in {3, 5}
  BY PartsAre, SeedRunsAssumption DEF Owed
<1> SUFFICES ASSUME enforce', ready', phase' = "serve" PROVE Kept'
  BY DEF SeedNeverLost, Owed
<1>1. ASSUME UNCHANGED <<enforce, phase, ready, known, credited, calls>> PROVE Kept'
  <2>1. enforce /\ phase = "serve" /\ ready
    BY <1>1, Zenon
  <2>2. Kept
    BY <2>1, Zenon DEF SeedNeverLost, Owed
  <2> QED BY <1>1, <2>2 DEF Crediting
<1>2. CASE replay_at_startup
  <2>1. ready
    BY <1>2, Zenon DEF replay_at_startup
  <2>2. phase # "seed"
    BY <1>2 DEF replay_at_startup
  <2>3. complete
    BY <2>1, <2>2, Zenon DEF Starting
  <2>4. parts >= 1
    BY <1>0, <2>3 DEF complete
  <2> QED BY <1>2, <2>1, <2>4, ReplayLeaves DEF Kept
<1>3. CASE open_now
  <2>1. retry = "credit" /\ replayed_unseeded = {} /\ UNCHANGED <<enforce, phase, known, credited>>
    BY <1>3 DEF open_now, ledger
  <2>2. ~ready
    BY <2>1 DEF Starting
  <2>3. enforce /\ phase = "serve"
    BY <2>1, Zenon
  <2>4. \A r \in known \cap Owed : credited[r] = 1
    BY <2>1, <2>2, <2>3, Zenon DEF Replaying
  <2> QED BY <2>1, <2>4
<1>4. ASSUME NEW run \in Runs, credit_late_seed(run) PROVE FALSE
  <2>1. retry = "credit" /\ UNCHANGED ready
    BY <1>4 DEF credit_late_seed, startup
  <2>2. ~ready
    BY <2>1 DEF Starting
  <2> QED BY <2>1, <2>2, Zenon
<1>5. ASSUME NEW c \in Calls, CallStep(c) PROVE Kept'
  <2>1. UNCHANGED <<enforce, phase, ready>>
    BY <1>5, CallStepIs DEF startup
  <2>2. enforce /\ phase = "serve" /\ ready
    BY <2>1, Zenon
  <2>3. Kept
    BY <2>2, Zenon DEF SeedNeverLost, Owed
  <2>4. complete
    BY <2>2, Zenon DEF Starting
  <2>5. parts >= 1
    BY <1>0, <2>4 DEF complete
  <2> QED BY <1>5, <2>2, <2>3, <2>5, CallLosesNoSeed DEF Kept
<1>6. CASE SeedStartup \/ RetryReads \/ RetryWakes \/ RetryFails \/ RetryDone
  BY <1>1, <1>6 DEF SeedStartup, RetryReads, RetryWakes, RetryFails, RetryDone, ledger, money
<1>7. CASE SeedStartupEnds
  BY <1>7 DEF SeedStartupEnds
<1>8. CASE GoDown \/ ComeUp \/ PollBudgets \/ PollKills \/ UNCHANGED svars
  BY <1>1, <1>8 DEF GoDown, ComeUp, PollBudgets, PollKills, svars, ledger, startup
<1> QED BY <1>2, <1>3, <1>4, <1>5, <1>6, <1>7, <1>8 DEF SeedNext, SeedTask

LEMMA SeedInvStep == SeedInv /\ [SeedNext]_svars => SeedInv'
BY SeedTypeStep, StartingStep, DeclaringStep, GuardingStep, ReplayingStep, SeedNeverLostStep
   DEF SeedInv

(* The inductive invariant, of every behaviour of the seed gate.           *)
THEOREM SeedInvHolds == SeedSpec => []SeedInv
<1>1. SeedInit => SeedInv
  BY SeedInitInv
<1>2. SeedInv /\ [SeedNext]_svars => SeedInv'
  BY SeedInvStep
<1> QED BY <1>1, <1>2, PTL DEF SeedSpec

(* Every field of the starting gateway keeps its type, whatever order the  *)
(* parts of the seed, the replay, the retry and the calls take             *)
(* (seedgate.rs, cloudsink.rs, handle_call in proxy.rs).                   *)
THEOREM SeedTypeCorrect == SeedSpec => []SeedTypeOK
BY SeedInvHolds, PTL DEF SeedInv

(* Whichever parts of the control plane's state are read, and whenever: a  *)
(* run's seed is credited at most once; in enforce no run the ledger holds *)
(* behind an open gate restarts from zero (take_run_seed, credit_late_seed *)
(* and the replay in main.rs); and no call of a run killed in the Cloud is *)
(* admitted.                                                               *)
THEOREM SeedIsHeld == SeedSpec => []SeedHolds
<1>1. SeedInv => SeedHolds
  <2> SUFFICES ASSUME SeedInv PROVE SeedHolds
    OBVIOUS
  <2>1. SeededOnce
    BY DEF SeedInv, Reading, SeededOnce
  <2>2. KilledNeverAdmitted
    BY Zenon DEF SeedInv, Guarding, KilledNeverAdmitted, Admitted
  <2> QED BY <2>1, <2>2 DEF SeedHolds, SeedInv
<1> QED BY <1>1, SeedInvHolds, PTL

-----------------------------------------------------------------------------
(* Version v was in force at some moment from t to u. *)
Within(v, t, u) ==
  /\ v \in 1 .. version
  /\ since[v] =< u /\ (v = version \/ since[v + 1] >= t)

HookTypes ==
  /\ now \in Nat
  /\ version \in Nat /\ version > 0
  /\ since \in Seq(Nat) /\ Len(since) = version
  /\ \A v \in 1 .. version : since[v] =< now
  /\ verdicts \in [Decisions \cup {"unreachable"} -> Nat]
  /\ Len(asks) \in Nat /\ asks = [n \in 1 .. Len(asks) |-> asks[n]]
  /\ Len(filters) \in Nat /\ filters = [n \in 1 .. Len(filters) |-> filters[n]]

(* What is cached is what a policy said of every question with that key,   *)
(* no longer than a question is on the wire before it was cached.          *)
CacheTrue ==
  \A k \in DOMAIN cache :
    /\ cache[k].at \in Nat /\ cache[k].at =< now
    /\ cache[k].decision \in {"allow", "deny"}
    /\ \E v \in 1 .. version :
         /\ Within(v, cache[k].at - Timeout, cache[k].at)
         /\ \A q \in Questions : key(q) = k => Verdict(v, q) = cache[k].decision

PrunedTrue ==
  \A k \in DOMAIN pruned :
    /\ pruned[k].at \in Nat /\ pruned[k].at =< now
    /\ \E v \in 1 .. version :
         Within(v, pruned[k].at - Timeout, pruned[k].at) /\ pruned[k].denied = DeniedTools(v, k[2])

(* A question on the wire is younger than the timeout; what the plane made *)
(* of it was the policy while it was there.                                *)
AskWaits(n) ==
  LET a == asks[n]
  IN  OnWire(a) =>
        /\ ~a.hit /\ now =< a.start + Timeout
        /\ a.answer # NoAnswer =>
             /\ a.answer.approval = n
             /\ \E v \in 1 .. version :
                  /\ Within(v, a.start, now)
                  /\ a.answer.decision = Verdict(v, a.q) /\ a.answer.cacheable = Cacheable(v, a.q)

AskDone(n) ==
  LET a == asks[n]
  IN  ~OnWire(a) =>
        /\ a.outcome.at \in Nat /\ a.outcome.at =< now
        /\ a.outcome.decision = "hold" => ~a.hit /\ ~a.outcome.unreachable /\ a.outcome.approval = n
        /\ ~a.outcome.unreachable =>
             \E v \in InForce(a.outcome.at, Timeout + IF a.hit THEN Ttl ELSE 0) : a.outcome.decision = Verdict(v, a.q)

AskTrue(n) ==
  LET a == asks[n]
  IN  /\ a = [q |-> a.q, hit |-> a.hit, start |-> a.start, answer |-> a.answer, outcome |-> a.outcome]
      /\ a.q \in Questions /\ a.hit \in BOOLEAN /\ a.start \in Nat /\ a.start =< now
      /\ AskWaits(n) /\ AskDone(n)

FilterTrue(n) ==
  LET f == filters[n]
  IN  /\ f = [agent |-> f.agent, tools |-> f.tools, start |-> f.start, answer |-> f.answer, outcome |-> f.outcome]
      /\ f.start \in Nat /\ f.start =< now
      /\ OnWire(f) =>
           /\ now =< f.start + Timeout
           /\ f.answer # NoAnswer =>
                \E v \in 1 .. version : Within(v, f.start, now) /\ f.answer.denied = DeniedTools(v, f.tools)
      /\ ~OnWire(f) =>
           /\ f.outcome.at \in Nat /\ f.outcome.at =< now
           /\ f.outcome.denied # NoAnswer =>
                \E v \in InForce(f.outcome.at, Ttl + Timeout) : f.outcome.denied = DeniedTools(v, f.tools)

HookInv ==
  /\ HookTypes /\ CacheTrue /\ PrunedTrue
  /\ \A n \in 1 .. Len(asks) : AskTrue(n)
  /\ \A n \in 1 .. Len(filters) : FilterTrue(n)
  /\ TallyIsTheWire

-----------------------------------------------------------------------------
LEMMA HookNumbers == Ttl \in Nat /\ Timeout \in Nat
BY WardryxAssumption

(* A policy's verdict is one of three. *)
LEMMA VerdictIsOne == ASSUME NEW v, NEW q PROVE Verdict(v, q) \in Decisions
BY DEF Verdict, Decisions

(* What the plane calls cacheable depends on the key alone. *)
LEMMA KeyDecides ==
  ASSUME NEW v, NEW q, NEW p, key(q) = key(p), Cacheable(v, q)
  PROVE  Verdict(v, p) = Verdict(v, q)
<1>1. q.tools = p.tools /\ q.attested = p.attested /\ q.proven = p.proven
  BY DEF key
<1>2. \A r \in Policies[v] : Matches(r, q) = Matches(r, p)
  <2> SUFFICES ASSUME NEW r \in Policies[v] PROVE Matches(r, q) = Matches(r, p)
    OBVIOUS
  <2>1. CASE r.tools \cap q.tools = {}
    BY <1>1, <2>1 DEF Matches
  <2>2. CASE r.tools \cap q.tools # {}
    <3>1. r.unless # "steps"
      BY <2>2 DEF Cacheable
    <3> QED BY <1>1, <2>2, <3>1 DEF Matches
  <2> QED BY <2>1, <2>2
<1>3. {r \in Policies[v] : Matches(r, q)} = {r \in Policies[v] : Matches(r, p)}
  BY <1>2
<1> QED BY <1>3 DEF Verdict

LEMMA OutcomeIsSomething ==
  ASSUME HookInv, NEW d \in Decisions, NEW m \in Nat, NEW b \in BOOLEAN
  PROVE  Outcome(d, m, b) # NoAnswer
<1>1. Outcome(d, m, b) \in [decision : {"allow", "deny", "hold"}, approval : Nat, unreachable : BOOLEAN, at : Nat]
  BY DEF Outcome, Decisions, HookInv, HookTypes
<1> QED BY <1>1, WardryxAssumption

-----------------------------------------------------------------------------
(* The clock moves, or the policy, or neither. *)
HookMoves ==
  \/ UNCHANGED <<now, version, since>>
  \/ now' = now + 1 /\ UNCHANGED <<version, since>>
  \/ now' = now /\ version' = version + 1 /\ since' = Append(since, now)

(* What was true of the wire stays true while the clock and the policy     *)
(* move, but for the timeout, which the clock waits for.                   *)
LEMMA MomentsStand ==
  ASSUME HookTypes, HookTypes', HookMoves
  PROVE  /\ now =< now' /\ version =< version' /\ version \in Nat
         /\ \A v \in 1 .. version, t, u \in Int : Within(v, t, u) /\ t =< now => Within(v, t, u)'
         /\ \A t, n \in Nat : t =< now => InForce(t, n) \subseteq InForce(t, n)'
         /\ \A v \in 1 .. version, t \in Int : Within(v, t, now) /\ t =< now => Within(v, t, now)'
<1>1. /\ now \in Nat /\ now' \in Nat /\ version \in Nat /\ version > 0 /\ version' \in Nat
      /\ since \in Seq(Nat) /\ Len(since) = version /\ since' \in Seq(Nat)
      /\ \A v \in 1 .. version : since[v] =< now /\ since[v] \in Nat
  BY DEF HookTypes
<1>2. /\ now =< now' /\ version =< version'
      /\ \A v \in 1 .. version : since'[v] = since[v]
      /\ version' # version => version' = version + 1 /\ since'[version + 1] = now
      /\ \A v \in 1 .. version : v + 1 \in 1 .. version => since'[v + 1] = since[v + 1]
  <2>1. CASE UNCHANGED <<version, since>> /\ (now' = now \/ now' = now + 1)
    BY <1>1, <2>1
  <2>2. CASE now' = now /\ version' = version + 1 /\ since' = Append(since, now)
    BY <1>1, <2>2
  <2> QED BY <2>1, <2>2 DEF HookMoves
<1>3. ASSUME NEW v \in 1 .. version, NEW t \in Int, t =< now, v = version \/ since[v + 1] >= t
      PROVE  v \in 1 .. version' /\ (v = version' \/ since'[v + 1] >= t)
  <2>1. CASE v = version
    BY <1>1, <1>2, <1>3, <2>1
  <2>2. CASE v # version
    <3>1. v + 1 \in 1 .. version
      BY <1>1, <2>2
    <3> QED BY <1>1, <1>2, <1>3, <2>2, <3>1
  <2> QED BY <2>1, <2>2
<1>4. \A v \in 1 .. version, t, u \in Int : Within(v, t, u) /\ t =< now => Within(v, t, u)'
  BY <1>2, <1>3 DEF Within
<1>5. \A t, n \in Nat : t =< now => InForce(t, n) \subseteq InForce(t, n)'
  <2> SUFFICES ASSUME NEW t \in Nat, NEW n \in Nat, t =< now, NEW v \in InForce(t, n)
               PROVE  v \in InForce(t, n)'
    OBVIOUS
  <2>1. v \in 1 .. version /\ since[v] =< t /\ (v = version \/ since[v + 1] >= t - n)
    BY DEF InForce
  <2>2. t - n \in Int /\ t - n =< now
    BY <1>1
  <2>3. v \in 1 .. version' /\ (v = version' \/ since'[v + 1] >= t - n)
    BY <1>3, <2>1, <2>2
  <2> QED BY <1>2, <2>1, <2>3 DEF InForce
<1>6. \A v \in 1 .. version, t \in Int : Within(v, t, now) /\ t =< now => Within(v, t, now)'
  <2> SUFFICES ASSUME NEW v \in 1 .. version, NEW t \in Int, Within(v, t, now), t =< now PROVE Within(v, t, now)'
    OBVIOUS
  <2>1. v \in 1 .. version' /\ (v = version' \/ since'[v + 1] >= t)
    BY <1>3 DEF Within
  <2>2. since'[v] =< now'
    BY <1>1, <1>2
  <2> QED BY <2>1, <2>2 DEF Within
<1> QED BY <1>1, <1>2, <1>4, <1>5, <1>6

LEMMA AskStands ==
  ASSUME HookInv, HookTypes', HookMoves, NEW n \in 1 .. Len(asks), asks'[n] = asks[n],
         OnWire(asks[n]) => now' =< asks[n].start + Timeout
  PROVE  AskTrue(n)'
<1>0. PICK a : a = asks[n] /\ a = asks'[n]
  OBVIOUS
<1> DEFINE life == Timeout + IF a.hit THEN Ttl ELSE 0
<1>1. /\ a = [q |-> a.q, hit |-> a.hit, start |-> a.start, answer |-> a.answer, outcome |-> a.outcome]
      /\ a.q \in Questions /\ a.hit \in BOOLEAN /\ a.start \in Nat /\ a.start =< now /\ now \in Nat /\ now' \in Nat
      /\ AskWaits(n) /\ AskDone(n)
  BY <1>0 DEF HookInv, HookTypes, AskTrue
<1>2. /\ now =< now' /\ version \in Nat /\ version =< version'
      /\ \A v \in 1 .. version, t \in Int : Within(v, t, now) /\ t =< now => Within(v, t, now)'
      /\ \A t, m \in Nat : t =< now => InForce(t, m) \subseteq InForce(t, m)'
  BY MomentsStand DEF HookInv
<1>3. AskWaits(n)'
  <2> SUFFICES ASSUME OnWire(a), a.answer # NoAnswer
               PROVE  /\ a.answer.approval = n
                      /\ \E v \in 1 .. version' :
                           /\ Within(v, a.start, now)'
                           /\ a.answer.decision = Verdict(v, a.q) /\ a.answer.cacheable = Cacheable(v, a.q)
    BY <1>0, <1>1 DEF AskWaits, OnWire
  <2>1. PICK v \in 1 .. version : /\ Within(v, a.start, now) /\ a.answer.approval = n
                                  /\ a.answer.decision = Verdict(v, a.q)
                                  /\ a.answer.cacheable = Cacheable(v, a.q)
    BY <1>0, <1>1 DEF AskWaits
  <2>2. Within(v, a.start, now)'
    BY <1>1, <1>2, <2>1
  <2>3. v \in 1 .. version'
    BY <2>2 DEF Within
  <2> QED BY <2>1, <2>2, <2>3
<1>4. AskDone(n)'
  <2> SUFFICES ASSUME ~OnWire(a)
               PROVE  /\ a.outcome.at \in Nat /\ a.outcome.at =< now'
                      /\ a.outcome.decision = "hold" => ~a.hit /\ ~a.outcome.unreachable /\ a.outcome.approval = n
                      /\ ~a.outcome.unreachable =>
                           \E v \in InForce(a.outcome.at, life)' : a.outcome.decision = Verdict(v, a.q)
    BY <1>0 DEF AskDone, OnWire
  <2>1. life \in Nat
    BY <1>1, HookNumbers
  <2>2. a.outcome.at \in Nat /\ a.outcome.at =< now
    BY <1>0, <1>1 DEF AskDone
  <2>3. InForce(a.outcome.at, life) \subseteq InForce(a.outcome.at, life)'
    BY <1>2, <2>1, <2>2
  <2>4. a.outcome.at =< now'
    BY <1>1, <1>2, <2>2
  <2> QED BY <1>0, <1>1, <2>2, <2>3, <2>4 DEF AskDone
<1> QED
  <2>1. a.start =< now'
    BY <1>1, <1>2
  <2> QED BY <1>0, <1>1, <1>3, <1>4, <2>1 DEF AskTrue

LEMMA FilterStands ==
  ASSUME HookInv, HookTypes', HookMoves, NEW n \in 1 .. Len(filters), filters'[n] = filters[n],
         OnWire(filters[n]) => now' =< filters[n].start + Timeout
  PROVE  FilterTrue(n)'
<1>0. PICK f : f = filters[n] /\ f = filters'[n]
  OBVIOUS
<1>1. /\ f.start \in Nat /\ f.start =< now /\ now \in Nat /\ now' \in Nat /\ FilterTrue(n)
  BY <1>0 DEF HookInv, HookTypes, FilterTrue
<1>2. /\ now =< now' /\ version \in Nat /\ version =< version'
      /\ \A v \in 1 .. version, t \in Int : Within(v, t, now) /\ t =< now => Within(v, t, now)'
      /\ \A t, m \in Nat : t =< now => InForce(t, m) \subseteq InForce(t, m)'
  BY MomentsStand DEF HookInv
<1>3. ASSUME OnWire(f), f.answer # NoAnswer
      PROVE  \E v \in 1 .. version' : Within(v, f.start, now)' /\ f.answer.denied = DeniedTools(v, f.tools)
  <2>1. PICK v \in 1 .. version : Within(v, f.start, now) /\ f.answer.denied = DeniedTools(v, f.tools)
    BY <1>0, <1>1, <1>3 DEF FilterTrue
  <2>2. Within(v, f.start, now)'
    BY <1>1, <1>2, <2>1
  <2>3. v \in 1 .. version'
    BY <2>2 DEF Within
  <2> QED BY <2>1, <2>2, <2>3
<1>4. ASSUME ~OnWire(f), f.outcome.denied # NoAnswer
      PROVE  \E v \in InForce(f.outcome.at, Ttl + Timeout)' : f.outcome.denied = DeniedTools(v, f.tools)
  <2>1. Ttl + Timeout \in Nat /\ f.outcome.at \in Nat /\ f.outcome.at =< now
    BY <1>0, <1>1, <1>4, HookNumbers DEF FilterTrue
  <2>2. InForce(f.outcome.at, Ttl + Timeout) \subseteq InForce(f.outcome.at, Ttl + Timeout)'
    BY <1>2, <2>1
  <2> QED BY <1>0, <1>1, <1>4, <2>2 DEF FilterTrue
<1>6. f = [agent |-> f.agent, tools |-> f.tools, start |-> f.start, answer |-> f.answer, outcome |-> f.outcome]
  BY <1>0, <1>1 DEF FilterTrue
<1>5. f.start =< now' /\ (~OnWire(f) => f.outcome.at \in Nat /\ f.outcome.at =< now')
  BY <1>0, <1>1, <1>2 DEF FilterTrue
<1> QED BY <1>0, <1>1, <1>3, <1>4, <1>5, <1>6 DEF FilterTrue, OnWire

LEMMA CachesStand ==
  ASSUME HookInv, HookTypes', HookMoves
  PROVE  (UNCHANGED cache => CacheTrue') /\ (UNCHANGED pruned => PrunedTrue')
<1>1. /\ now =< now' /\ version \in Nat /\ version =< version' /\ now \in Nat /\ now' \in Nat
      /\ \A v \in 1 .. version, t, u \in Int : Within(v, t, u) /\ t =< now => Within(v, t, u)'
  BY MomentsStand DEF HookInv, HookTypes
<1>2. ASSUME UNCHANGED cache PROVE CacheTrue'
  <2> SUFFICES ASSUME NEW k \in DOMAIN cache
               PROVE  /\ cache[k].at \in Nat /\ cache[k].at =< now'
                      /\ cache[k].decision \in {"allow", "deny"}
                      /\ \E v \in 1 .. version' :
                           /\ Within(v, cache[k].at - Timeout, cache[k].at)'
                           /\ \A q \in Questions : key(q) = k => Verdict(v, q) = cache[k].decision
    BY <1>2 DEF CacheTrue
  <2>1. /\ cache[k].at \in Nat /\ cache[k].at =< now /\ cache[k].decision \in {"allow", "deny"}
    BY DEF HookInv, CacheTrue
  <2>2. PICK v \in 1 .. version :
           /\ Within(v, cache[k].at - Timeout, cache[k].at)
           /\ \A q \in Questions : key(q) = k => Verdict(v, q) = cache[k].decision
    BY DEF HookInv, CacheTrue
  <2>3. cache[k].at - Timeout \in Int /\ cache[k].at - Timeout =< now /\ cache[k].at \in Int
    BY <1>1, <2>1, HookNumbers
  <2> DEFINE t == cache[k].at - Timeout
             u == cache[k].at
  <2>4. Within(v, t, u)'
    BY <1>1, <1>2, <2>2, <2>3
  <2>5. v \in 1 .. version' /\ cache[k].at =< now'
    BY <1>1, <2>1, <2>4 DEF Within
  <2> QED BY <1>2, <2>1, <2>2, <2>4, <2>5
<1>3. ASSUME UNCHANGED pruned PROVE PrunedTrue'
  <2> SUFFICES ASSUME NEW k \in DOMAIN pruned
               PROVE  /\ pruned[k].at \in Nat /\ pruned[k].at =< now'
                      /\ \E v \in 1 .. version' :
                           Within(v, pruned[k].at - Timeout, pruned[k].at)' /\ pruned[k].denied = DeniedTools(v, k[2])
    BY <1>3 DEF PrunedTrue
  <2>1. pruned[k].at \in Nat /\ pruned[k].at =< now
    BY DEF HookInv, PrunedTrue
  <2>2. PICK v \in 1 .. version :
           Within(v, pruned[k].at - Timeout, pruned[k].at) /\ pruned[k].denied = DeniedTools(v, k[2])
    BY DEF HookInv, PrunedTrue
  <2>3. pruned[k].at - Timeout \in Int /\ pruned[k].at - Timeout =< now /\ pruned[k].at \in Int
    BY <1>1, <2>1, HookNumbers
  <2> DEFINE t == pruned[k].at - Timeout
             u == pruned[k].at
  <2>4. Within(v, t, u)'
    BY <1>1, <1>3, <2>2, <2>3
  <2>5. v \in 1 .. version' /\ pruned[k].at =< now'
    BY <1>1, <2>1, <2>4 DEF Within
  <2> QED BY <1>3, <2>1, <2>2, <2>4, <2>5
<1> QED BY <1>2, <1>3

-----------------------------------------------------------------------------
Counted(n, d) ==
  /\ ~OnWire(asks[n]) /\ ~asks[n].hit
  /\ ~asks[n].outcome.unreachable /\ asks[n].outcome.decision = d

TallyOf(d) == {n \in 1 .. Len(asks) : Counted(n, d)}

LEMMA TallyIs ==
  HookTypes => (TallyIsTheWire <=> \A d \in Decisions : verdicts[d] = Cardinality(TallyOf(d)))
<1> SUFFICES ASSUME HookTypes
             PROVE  TallyIsTheWire <=> \A d \in Decisions : verdicts[d] = Cardinality(TallyOf(d))
  OBVIOUS
<1>1. DOMAIN asks = 1 .. Len(asks)
  BY DEF HookTypes
<1>2. \A d : TallyOf(d) = {n \in DOMAIN asks : Counted(n, d)}
  BY <1>1 DEF TallyOf
<1> QED BY <1>2 DEF TallyIsTheWire, Counted

LEMMA TallyIsNext ==
  ASSUME HookTypes'
  PROVE  TallyIsTheWire' <=> \A d \in Decisions : verdicts'[d] = Cardinality(TallyOf(d)')
<1>1. DOMAIN asks' = 1 .. Len(asks')
  BY DEF HookTypes
<1>2. \A d : TallyOf(d)' = {n \in DOMAIN asks' : Counted(n, d)'}
  BY <1>1 DEF TallyOf
<1> QED BY <1>2 DEF TallyIsTheWire, Counted, OnWire

LEMMA TallyIsFinite == ASSUME HookTypes, NEW d PROVE IsFiniteSet(TallyOf(d))
<1>0. Len(asks) \in Int
  BY DEF HookTypes
<1>1. IsFiniteSet(1 .. Len(asks))
  BY <1>0, FS_Interval
<1> QED BY <1>1, FS_Subset DEF TallyOf

LEMMA Appended ==
  ASSUME NEW s, NEW e, Len(s) \in Nat, s = [n \in 1 .. Len(s) |-> s[n]]
  PROVE  /\ Len(Append(s, e)) = Len(s) + 1
         /\ Append(s, e) = [n \in 1 .. Len(s) + 1 |-> Append(s, e)[n]]
         /\ Append(s, e)[Len(s) + 1] = e /\ \A n \in 1 .. Len(s) : Append(s, e)[n] = s[n]
<1> DEFINE S == {s[n] : n \in 1 .. Len(s)} \cup {e}
<1>1. s \in Seq(S) /\ e \in S
  OBVIOUS
<1> HIDE DEF S
<1>2. Append(s, e) \in Seq(S) /\ Len(Append(s, e)) = Len(s) + 1
  BY <1>1
<1>3. Append(s, e) = [n \in 1 .. Len(s) + 1 |-> Append(s, e)[n]]
  <2> DEFINE f == Append(s, e)
  <2>1. f \in Seq(S) /\ Len(f) = Len(s) + 1
    BY <1>2
  <2> HIDE DEF f
  <2>2. f \in [1 .. Len(f) -> S]
    BY <2>1
  <2>3. f = [n \in 1 .. Len(f) |-> f[n]]
    BY <2>2
  <2> QED BY <2>1, <2>3 DEF f
<1>4. Append(s, e)[Len(s) + 1] = e /\ \A n \in 1 .. Len(s) : Append(s, e)[n] = s[n]
  BY <1>1
<1> QED BY <1>2, <1>3, <1>4

LEMMA AskKeeps == ASSUME HookInv, NEW q \in Questions, Ask(q) PROVE HookInv'
<1> DEFINE hit == Fresh(cache, key(q))
<1>00. PICK L : L = Len(asks)
  OBVIOUS
<1>0. PICK a : a = [q |-> q, hit |-> hit, start |-> now, answer |-> NoAnswer,
                    outcome |-> IF hit THEN Outcome(cache[key(q)].decision, 0, FALSE) ELSE NoAnswer]
  OBVIOUS
<1>1. asks' = Append(asks, a) /\ UNCHANGED <<now, version, since, cache, pruned, filters, verdicts>>
  BY <1>0 DEF Ask
<1>2. /\ L \in Nat /\ asks = [n \in 1 .. L |-> asks[n]] /\ now \in Nat /\ version \in Nat /\ version > 0
  BY <1>00 DEF HookInv, HookTypes
<1>3. /\ Len(asks') = L + 1 /\ asks' = [n \in 1 .. L + 1 |-> asks'[n]]
      /\ asks'[L + 1] = a /\ \A n \in 1 .. L : asks'[n] = asks[n]
  BY <1>00, <1>1, <1>2, Appended
<1>4. HookTypes' /\ HookMoves
  BY <1>00, <1>1, <1>2, <1>3 DEF HookInv, HookTypes, HookMoves
<1>5. \A n \in 1 .. L : AskTrue(n)'
  <2> SUFFICES ASSUME NEW n \in 1 .. L PROVE AskTrue(n)'
    OBVIOUS
  <2>1. OnWire(asks[n]) => now =< asks[n].start + Timeout
    BY <1>00 DEF HookInv, AskTrue, AskWaits
  <2> QED BY <1>00, <1>1, <1>3, <1>4, <2>1, AskStands
<1>6. ASSUME hit PROVE AskTrue(L + 1)' /\ \A d : ~Counted(L + 1, d)'
  <2> DEFINE k == key(q)
  <2>1. /\ k \in DOMAIN cache /\ now - cache[k].at < Ttl /\ cache[k].at \in Nat /\ cache[k].at =< now
        /\ cache[k].decision \in {"allow", "deny"}
    BY <1>6 DEF Fresh, HookInv, CacheTrue
  <2>2. PICK v \in 1 .. version : /\ Within(v, cache[k].at - Timeout, cache[k].at)
                                  /\ \A p \in Questions : key(p) = k => Verdict(v, p) = cache[k].decision
    BY <2>1 DEF HookInv, CacheTrue
  <2>3. a.q = q /\ a.hit = TRUE /\ a.start = now /\ a.outcome = Outcome(cache[k].decision, 0, FALSE)
    BY <1>0, <1>6
  <2>4. /\ a.outcome.decision = cache[k].decision /\ a.outcome.unreachable = FALSE /\ a.outcome.at = now
    BY <2>3 DEF Outcome
  <2>5. a.outcome # NoAnswer
    <3>1. cache[k].decision \in Decisions
      BY <2>1 DEF Decisions
    <3> QED BY <2>3, <3>1, OutcomeIsSomething
  <2>6. v \in InForce(now, Timeout + Ttl)
    <3> DEFINE c == cache[k].at
    <3>1. c \in Nat /\ c =< now /\ now - c < Ttl
      BY <2>1
    <3>2. since[v] =< c /\ (v = version \/ since[v + 1] >= c - Timeout) /\ since \in Seq(Nat) /\ Len(since) = version
      BY <2>2 DEF Within, HookInv, HookTypes
    <3>3. since[v] \in Nat
      BY <1>2, <3>2
    <3>4. v # version => since[v + 1] \in Nat
      BY <1>2, <3>2
    <3> HIDE DEF c
    <3>6. \A m \in Nat : m >= c - Timeout => m >= now - (Timeout + Ttl)
      BY <1>2, <3>1, HookNumbers
    <3>5. since[v] =< now /\ (v = version \/ since[v + 1] >= now - (Timeout + Ttl))
      BY <1>2, <3>1, <3>2, <3>3, <3>4, <3>6
    <3> QED BY <3>5 DEF InForce
  <2>7. Verdict(v, q) = a.outcome.decision
    BY <2>2, <2>4
  <2>8. AskTrue(L + 1)'
    <3>1. ~OnWire(a)
      BY <2>5 DEF OnWire
    <3>2. v \in InForce(now, Timeout + Ttl)'
      BY <1>1, <2>6 DEF InForce
    <3>3. AskWaits(L + 1)'
      BY <1>3, <3>1 DEF AskWaits, OnWire
    <3>4. AskDone(L + 1)'
      <4> SUFFICES /\ a.outcome.at \in Nat /\ a.outcome.at =< now'
                   /\ a.outcome.decision # "hold"
                   /\ \E w \in InForce(a.outcome.at, Timeout + IF a.hit THEN Ttl ELSE 0)' :
                        a.outcome.decision = Verdict(w, a.q)
        BY <1>3 DEF AskDone
      <4>1. (Timeout + IF a.hit THEN Ttl ELSE 0) = Timeout + Ttl
        BY <2>3
      <4>2. v \in InForce(a.outcome.at, Timeout + IF a.hit THEN Ttl ELSE 0)'
        <5>1. a.outcome.at = now'
          BY <1>1, <2>4
        <5> QED BY <3>2, <4>1, <5>1
      <4>3. a.outcome.decision = Verdict(v, a.q)
        BY <2>3, <2>7
      <4>4. a.outcome.at \in Nat /\ a.outcome.at =< now'
        BY <1>1, <1>2, <2>4
      <4>5. a.outcome.decision # "hold"
        BY <2>1, <2>4
      <4> QED BY <4>2, <4>3, <4>4, <4>5
    <3>5. a.q \in Questions /\ a.hit \in BOOLEAN /\ a.start \in Nat /\ a.start =< now'
      <4>1. a.hit \in BOOLEAN
        BY <2>3
      <4>2. a.start = now /\ now' = now /\ a.q = q
        BY <1>1, <2>3
      <4> QED BY <1>2, <4>1, <4>2
    <3>6. a = [q |-> a.q, hit |-> a.hit, start |-> a.start, answer |-> a.answer, outcome |-> a.outcome]
      BY <1>0
    <3> QED BY <1>3, <3>3, <3>4, <3>5, <3>6 DEF AskTrue
  <2>9. \A d : ~Counted(L + 1, d)'
    BY <1>3, <2>3 DEF Counted
  <2> QED BY <2>8, <2>9
<1>7. ASSUME ~hit PROVE AskTrue(L + 1)' /\ \A d : ~Counted(L + 1, d)'
  <2>1. a.q = q /\ a.hit = FALSE /\ a.start = now /\ a.outcome = NoAnswer /\ a.answer = NoAnswer
    BY <1>0, <1>7
  <2>2. OnWire(a) /\ now =< now + Timeout
    BY <1>2, <2>1, HookNumbers DEF OnWire
  <2>3. AskTrue(L + 1)'
    <3>1. a.q \in Questions /\ a.hit \in BOOLEAN /\ a.start \in Nat /\ a.start =< now'
      <4>1. a.hit \in BOOLEAN
        BY <2>1
      <4>2. a.start = now /\ now' = now /\ a.q = q
        BY <1>1, <2>1
      <4> QED BY <1>2, <4>1, <4>2
    <3>2. AskWaits(L + 1)' /\ AskDone(L + 1)'
      BY <1>1, <1>3, <2>1, <2>2 DEF AskWaits, AskDone, OnWire
    <3>6. a = [q |-> a.q, hit |-> a.hit, start |-> a.start, answer |-> a.answer, outcome |-> a.outcome]
      BY <1>0
    <3> QED BY <1>3, <3>1, <3>2, <3>6 DEF AskTrue
  <2>4. \A d : ~Counted(L + 1, d)'
    BY <1>3, <2>2 DEF Counted, OnWire
  <2> QED BY <2>3, <2>4
<1>8. AskTrue(L + 1)' /\ \A d : ~Counted(L + 1, d)'
  BY <1>6, <1>7
<1>9. \A n \in 1 .. Len(asks') : AskTrue(n)'
  BY <1>2, <1>3, <1>5, <1>8
<1>10. TallyIsTheWire'
  <2>1. \A d : TallyOf(d)' = TallyOf(d)
    <3>1. \A d : \A n \in 1 .. L : Counted(n, d)' = Counted(n, d)
      BY <1>3 DEF Counted, OnWire
    <3> QED BY <1>00, <1>2, <1>3, <1>8, <3>1 DEF TallyOf
  <2>2. \A d \in Decisions : verdicts[d] = Cardinality(TallyOf(d))
    BY TallyIs DEF HookInv
  <2> QED BY <1>1, <1>4, <2>1, <2>2, TallyIsNext
<1>11. \A n \in 1 .. Len(filters') : FilterTrue(n)'
  <2> SUFFICES ASSUME NEW n \in 1 .. Len(filters) PROVE FilterTrue(n)'
    BY <1>1
  <2>1. OnWire(filters[n]) => now =< filters[n].start + Timeout
    BY DEF HookInv, FilterTrue
  <2> QED BY <1>1, <1>4, <2>1, FilterStands
<1> QED BY <1>1, <1>4, <1>9, <1>10, <1>11, CachesStand DEF HookInv

LEMMA AskReplaced ==
  ASSUME HookInv, NEW n \in 1 .. Len(asks), NEW b, asks' = [asks EXCEPT ![n] = b],
         UNCHANGED <<now, version, since, filters>>,
         verdicts' \in [Decisions \cup {"unreachable"} -> Nat]
  PROVE  /\ HookTypes' /\ Len(asks') = Len(asks)
         /\ \A m \in 1 .. Len(asks) : m # n => asks'[m] = asks[m]
<1> DEFINE S == {asks[m] : m \in 1 .. Len(asks)} \cup {b}
<1>0. Len(asks) \in Nat /\ asks = [m \in 1 .. Len(asks) |-> asks[m]]
  BY DEF HookInv, HookTypes
<1>1. asks \in Seq(S) /\ b \in S
  BY <1>0
<1> HIDE DEF S
<1>2. asks' \in Seq(S) /\ Len(asks') = Len(asks) /\ \A m \in 1 .. Len(asks) : m # n => asks'[m] = asks[m]
  BY <1>0, <1>1
<1>3. asks' \in [1 .. Len(asks') -> S]
  BY <1>2
<1>4. asks' = [m \in 1 .. Len(asks') |-> asks'[m]] /\ Len(asks') \in Nat
  BY <1>0, <1>2, <1>3
<1> QED BY <1>2, <1>4 DEF HookInv, HookTypes

(* One question changes and nothing moves: what is left to show of it. *)
LEMMA OneAsk ==
  ASSUME HookInv, NEW n \in 1 .. Len(asks), NEW b, asks' = [asks EXCEPT ![n] = b],
         UNCHANGED <<now, version, since, pruned, filters>>,
         verdicts' \in [Decisions \cup {"unreachable"} -> Nat],
         AskTrue(n)', CacheTrue' \/ UNCHANGED cache, TallyIsTheWire'
  PROVE  HookInv'
<1>00. PICK L : L = Len(asks)
  OBVIOUS
<1>1. /\ L \in Nat /\ asks = [m \in 1 .. L |-> asks[m]] /\ n \in 1 .. L
  BY <1>00 DEF HookInv, HookTypes
<1>2. HookTypes' /\ Len(asks') = L /\ \A m \in 1 .. L : m # n => asks'[m] = asks[m]
  BY <1>00, AskReplaced
<1>3. HookTypes' /\ HookMoves
  BY <1>2 DEF HookMoves
<1>4. \A m \in 1 .. L : AskTrue(m)'
  <2> SUFFICES ASSUME NEW m \in 1 .. L, m # n PROVE AskTrue(m)'
    OBVIOUS
  <2>1. OnWire(asks[m]) => now =< asks[m].start + Timeout
    BY <1>00 DEF HookInv, AskTrue, AskWaits
  <2> QED BY <1>00, <1>2, <1>3, <2>1, AskStands
<1>5. \A m \in 1 .. Len(filters') : FilterTrue(m)'
  <2> SUFFICES ASSUME NEW m \in 1 .. Len(filters) PROVE FilterTrue(m)'
    OBVIOUS
  <2>1. OnWire(filters[m]) => now =< filters[m].start + Timeout
    BY DEF HookInv, FilterTrue
  <2> QED BY <1>3, <2>1, FilterStands
<1>6. CacheTrue' /\ PrunedTrue'
  BY <1>3, CachesStand
<1> QED BY <1>2, <1>3, <1>4, <1>5, <1>6 DEF HookInv

LEMMA OneTally ==
  ASSUME HookInv, HookTypes', NEW n \in 1 .. Len(asks), Len(asks') = Len(asks),
         \A m \in 1 .. Len(asks) : m # n => asks'[m] = asks[m],
         \A d \in Decisions : ~Counted(n, d),
         \/ UNCHANGED <<verdicts>> /\ \A d \in Decisions : ~Counted(n, d)'
         \/ \E d \in Decisions : /\ verdicts' = [verdicts EXCEPT ![d] = @ + 1]
                                 /\ \A e \in Decisions : Counted(n, e)' <=> e = d
         \/ verdicts' = [verdicts EXCEPT !["unreachable"] = @ + 1] /\ \A d \in Decisions : ~Counted(n, d)'
  PROVE  TallyIsTheWire'
<1>00. PICK L : L = Len(asks)
  OBVIOUS
<1> SUFFICES ASSUME NEW d \in Decisions PROVE verdicts'[d] = Cardinality(TallyOf(d)')
  BY TallyIsNext
<1>1. verdicts[d] = Cardinality(TallyOf(d)) /\ IsFiniteSet(TallyOf(d)) /\ n \notin TallyOf(d)
  BY TallyIs, TallyIsFinite DEF HookInv, TallyOf
<1>2. verdicts \in [Decisions \cup {"unreachable"} -> Nat] /\ d # "unreachable"
  BY DEF HookInv, HookTypes, Decisions
<1>3. \A m \in 1 .. L : m # n => Counted(m, d)' = Counted(m, d)
  BY <1>00 DEF Counted, OnWire
<1>4. CASE Counted(n, d)'
  <2>1. TallyOf(d)' = TallyOf(d) \cup {n}
    BY <1>00, <1>3, <1>4 DEF TallyOf
  <2>2. verdicts'[d] = verdicts[d] + 1
    BY <1>2, <1>4
  <2>3. Cardinality(TallyOf(d) \cup {n}) = Cardinality(TallyOf(d)) + 1
    BY <1>1, FS_AddElement
  <2> QED BY <1>1, <2>1, <2>2, <2>3
<1>5. CASE ~Counted(n, d)'
  <2>1. TallyOf(d)' = TallyOf(d)
    BY <1>00, <1>1, <1>3, <1>5 DEF TallyOf
  <2>2. verdicts'[d] = verdicts[d]
    BY <1>2, <1>5
  <2> QED BY <1>1, <2>1, <2>2
<1> QED BY <1>4, <1>5

LEMMA InRange == HookInv => DOMAIN asks = 1 .. Len(asks) /\ DOMAIN filters = 1 .. Len(filters)
BY DEF HookInv, HookTypes

(* The version in force now was in force at some moment since t. *)
LEMMA NowIsWithin == ASSUME HookInv, NEW t PROVE version \in 1 .. version /\ Within(version, t, now)
BY DEF HookInv, HookTypes, Within

LEMMA JudgeKeeps == ASSUME HookInv, NEW n \in DOMAIN asks, Judge(n) PROVE HookInv'
<1>0. PICK a : a = asks[n]
  OBVIOUS
<1>1. PICK ans : ans = [decision |-> Verdict(version, a.q), cacheable |-> Cacheable(version, a.q), approval |-> n]
  OBVIOUS
<1>2. PICK b : b = [q |-> a.q, hit |-> a.hit, start |-> a.start, answer |-> ans, outcome |-> a.outcome]
  OBVIOUS
<1>3. n \in 1 .. Len(asks) /\ AskTrue(n) /\ asks = [m \in 1 .. Len(asks) |-> asks[m]]
  BY InRange DEF HookInv, HookTypes
<1>4. /\ a = [q |-> a.q, hit |-> a.hit, start |-> a.start, answer |-> a.answer, outcome |-> a.outcome]
      /\ a.q \in Questions /\ a.hit \in BOOLEAN /\ a.start \in Nat /\ a.start =< now /\ OnWire(a)
      /\ ~a.hit /\ now =< a.start + Timeout
  BY <1>0, <1>3 DEF Judge, AskTrue, AskWaits
<1>5. asks' = [asks EXCEPT ![n] = b]
  <2>1. asks' = [asks EXCEPT ![n] = [a EXCEPT !.answer = ans]]
    BY <1>0, <1>1 DEF Judge
  <2>2. [a EXCEPT !.answer = ans] = b
    BY <1>2, <1>4
  <2> QED BY <2>1, <2>2
<1>6. UNCHANGED <<now, version, since, cache, pruned, filters, verdicts>>
  BY DEF Judge
<1>7. asks'[n] = b /\ OnWire(b)
  BY <1>2, <1>3, <1>4, <1>5 DEF OnWire
<1>8. AskTrue(n)'
  <2>1. Within(version, a.start, now)'
    BY <1>6, NowIsWithin DEF Within
  <2>2. version' \in 1 .. version' /\ version' = version
    BY <1>6, NowIsWithin
  <2>3. /\ b.answer.approval = n /\ b.answer.decision = Verdict(version, b.q)
        /\ b.answer.cacheable = Cacheable(version, b.q)
    BY <1>1, <1>2
  <2>4. b.start = a.start /\ b.hit = a.hit /\ b.q = a.q
    BY <1>2
  <2>5. AskWaits(n)'
    <3> SUFFICES ASSUME OnWire(b), b.answer # NoAnswer
                 PROVE  /\ b.answer.approval = n
                        /\ \E v \in 1 .. version' :
                             /\ Within(v, b.start, now)'
                             /\ b.answer.decision = Verdict(v, b.q) /\ b.answer.cacheable = Cacheable(v, b.q)
      BY <1>4, <1>6, <1>7, <2>4 DEF AskWaits
    <3> QED BY <2>1, <2>2, <2>3, <2>4
  <2>6. AskDone(n)'
    BY <1>7 DEF AskDone, OnWire
  <2>7. b = [q |-> b.q, hit |-> b.hit, start |-> b.start, answer |-> b.answer, outcome |-> b.outcome]
    BY <1>2
  <2>8. b.q \in Questions /\ b.hit \in BOOLEAN /\ b.start \in Nat /\ b.start =< now'
    BY <1>4, <1>6, <2>4
  <2> QED BY <1>7, <2>5, <2>6, <2>7, <2>8 DEF AskTrue
<1>9. \A d : ~Counted(n, d) /\ ~Counted(n, d)'
  BY <1>0, <1>4, <1>7 DEF Counted, OnWire
<1>12. verdicts' \in [Decisions \cup {"unreachable"} -> Nat]
  BY <1>6 DEF HookInv, HookTypes
<1>10. /\ HookTypes' /\ Len(asks') = Len(asks)
       /\ \A m \in 1 .. Len(asks) : m # n => asks'[m] = asks[m]
  BY <1>3, <1>5, <1>6, <1>12, AskReplaced
<1>11. TallyIsTheWire'
  BY <1>3, <1>6, <1>9, <1>10, OneTally
<1> QED BY <1>3, <1>5, <1>6, <1>8, <1>11, <1>12, OneAsk

(* A question's end, with a verdict or without one. *)
Ended(n, o) ==
  asks' = [asks EXCEPT ![n] = [q |-> asks[n].q, hit |-> asks[n].hit, start |-> asks[n].start,
                               answer |-> asks[n].answer, outcome |-> o]]

LEMMA Ends ==
  ASSUME HookInv, NEW n \in DOMAIN asks, NEW o, asks' = [asks EXCEPT ![n].outcome = o]
  PROVE  Ended(n, o) /\ n \in 1 .. Len(asks) /\ AskTrue(n) /\ asks'[n].outcome = o
         /\ asks'[n].q = asks[n].q /\ asks'[n].hit = asks[n].hit
<1>1. n \in 1 .. Len(asks) /\ AskTrue(n)
  BY InRange DEF HookInv
<1>0. PICK a : a = asks[n]
  OBVIOUS
<1>2. a = [q |-> a.q, hit |-> a.hit, start |-> a.start, answer |-> a.answer, outcome |-> a.outcome]
  BY <1>0, <1>1 DEF AskTrue
<1>3. asks' = [asks EXCEPT ![n] = [a EXCEPT !.outcome = o]]
  BY <1>0
<1>4. [a EXCEPT !.outcome = o] = [q |-> a.q, hit |-> a.hit, start |-> a.start, answer |-> a.answer, outcome |-> o]
  BY <1>2
<1>5. Ended(n, o)
  BY <1>0, <1>3, <1>4 DEF Ended
<1> QED BY <1>1, <1>5 DEF Ended

LEMMA EndKeeps ==
  ASSUME HookInv, NEW n \in DOMAIN asks, NEW o, Ended(n, o),
         UNCHANGED <<now, version, since, pruned, filters>>,
         verdicts' \in [Decisions \cup {"unreachable"} -> Nat],
         CacheTrue' \/ UNCHANGED cache, TallyIsTheWire',
         o # NoAnswer, o.at = now,
         o.decision = "hold" => ~asks[n].hit /\ ~o.unreachable /\ o.approval = n,
         ~o.unreachable => \E v \in InForce(now, Timeout + IF asks[n].hit THEN Ttl ELSE 0) :
                             o.decision = Verdict(v, asks[n].q)
  PROVE  HookInv'
<1>0. PICK a : a = asks[n]
  OBVIOUS
<1>2. PICK b : b = [q |-> a.q, hit |-> a.hit, start |-> a.start, answer |-> a.answer, outcome |-> o]
  OBVIOUS
<1>3. n \in 1 .. Len(asks) /\ AskTrue(n) /\ DOMAIN asks = 1 .. Len(asks) /\ now \in Nat
  BY InRange DEF HookInv, HookTypes
<1>4. a.q \in Questions /\ a.hit \in BOOLEAN /\ a.start \in Nat /\ a.start =< now
  BY <1>0, <1>3 DEF AskTrue
<1>5. asks' = [asks EXCEPT ![n] = b]
  BY <1>0, <1>2 DEF Ended
<1>6. asks'[n] = b
  BY <1>3, <1>5
<1>7. /\ b.q = a.q /\ b.hit = a.hit /\ b.start = a.start /\ b.outcome = o
      /\ b = [q |-> b.q, hit |-> b.hit, start |-> b.start, answer |-> b.answer, outcome |-> b.outcome]
  BY <1>2
<1>8. AskWaits(n)'
  BY <1>6, <1>7 DEF AskWaits, OnWire
<1>9. AskDone(n)'
  <2>0. b.outcome.at = now' /\ now' \in Nat
    BY <1>3, <1>7
  <2>1. ~o.unreachable => \E v \in InForce(b.outcome.at, Timeout + IF b.hit THEN Ttl ELSE 0)' :
                              b.outcome.decision = Verdict(v, b.q)
    <3> SUFFICES ASSUME ~o.unreachable
                 PROVE  \E v \in InForce(b.outcome.at, Timeout + IF b.hit THEN Ttl ELSE 0)' :
                          b.outcome.decision = Verdict(v, b.q)
      OBVIOUS
    <3>1. PICK v \in InForce(now, Timeout + IF a.hit THEN Ttl ELSE 0) : o.decision = Verdict(v, a.q)
      BY <1>0
    <3>2. v \in InForce(b.outcome.at, Timeout + IF b.hit THEN Ttl ELSE 0)'
      BY <1>7, <3>1 DEF InForce
    <3> QED BY <1>7, <3>1, <3>2
  <2>2. o.decision = "hold" => ~b.hit /\ ~o.unreachable /\ o.approval = n
    BY <1>0, <1>7
  <2> QED BY <1>6, <1>7, <2>0, <2>1, <2>2 DEF AskDone
<1>10. AskTrue(n)'
  BY <1>4, <1>6, <1>7, <1>8, <1>9 DEF AskTrue
<1> QED BY <1>3, <1>5, <1>10, OneAsk

LEMMA DecideKeeps == ASSUME HookInv, NEW n \in DOMAIN asks, decide(n) PROVE HookInv'
<1>0. PICK a, ans : a = asks[n] /\ ans = asks[n].answer
  OBVIOUS
<1>1. PICK o : o = Outcome(ans.decision, IF ans.decision = "hold" THEN ans.approval ELSE 0, FALSE)
  OBVIOUS
<1>2. /\ OnWire(a) /\ ans # NoAnswer
      /\ asks' = [asks EXCEPT ![n].outcome = o]
      /\ verdicts' = [verdicts EXCEPT ![ans.decision] = @ + 1]
      /\ cache' = put(a.q, ans)
      /\ UNCHANGED <<now, version, since, pruned, filters>>
  BY <1>0, <1>1 DEF decide
<1>3. /\ Ended(n, o) /\ n \in 1 .. Len(asks) /\ AskTrue(n) /\ asks'[n].outcome = o
      /\ asks'[n].q = a.q /\ asks'[n].hit = a.hit
  BY <1>0, <1>2, Ends
<1>4. /\ a.q \in Questions /\ a.hit \in BOOLEAN /\ a.start \in Nat /\ a.start =< now /\ now \in Nat
      /\ ~a.hit /\ now =< a.start + Timeout /\ ans.approval = n
  BY <1>0, <1>2, <1>3 DEF AskTrue, AskWaits, HookInv, HookTypes
<1>5. PICK v \in 1 .. version : /\ Within(v, a.start, now) /\ ans.decision = Verdict(v, a.q)
                                /\ ans.cacheable = Cacheable(v, a.q)
  BY <1>0, <1>2, <1>3 DEF AskTrue, AskWaits
<1>6. ans.decision \in Decisions
  BY <1>5, VerdictIsOne
<1>7. o.decision = ans.decision /\ o.unreachable = FALSE /\ o.at = now /\ (o.decision = "hold" => o.approval = n)
  BY <1>1, <1>4 DEF Outcome
<1>8. o # NoAnswer
  <2>1. (IF ans.decision = "hold" THEN ans.approval ELSE 0) \in Nat
    BY <1>3, <1>4
  <2> QED BY <1>1, <1>6, <2>1, OutcomeIsSomething
<1>9. /\ since \in Seq(Nat) /\ Len(since) = version /\ version \in Nat
      /\ v + 1 \in 1 .. version => since[v + 1] \in Nat
  <2>1. since \in Seq(Nat) /\ Len(since) = version /\ version \in Nat
    BY DEF HookInv, HookTypes
  <2> QED BY <2>1
<1>10. Within(v, now - Timeout, now)
  <2>1. \A m \in Nat : m >= a.start => m >= now - Timeout
    BY <1>4, HookNumbers
  <2>2. v # version => v + 1 \in 1 .. version
    BY <1>9
  <2> QED BY <1>5, <1>9, <2>1, <2>2 DEF Within
<1>11. v \in InForce(now, Timeout + IF a.hit THEN Ttl ELSE 0)
  <2>1. (Timeout + IF a.hit THEN Ttl ELSE 0) = Timeout
    BY <1>4, HookNumbers
  <2>2. v \in InForce(now, Timeout)
    BY <1>10 DEF InForce, Within
  <2> QED BY <2>1, <2>2
<1>12. CacheTrue' \/ UNCHANGED cache
  <2>1. CASE ans.decision = "hold" \/ ~ans.cacheable
    BY <1>2, <2>1 DEF put
  <2>2. CASE ~(ans.decision = "hold" \/ ~ans.cacheable)
    <3>1. cache' = Insert(cache, key(a.q), [decision |-> ans.decision, at |-> now])
      BY <1>2, <2>2 DEF put
    <3>2. /\ DOMAIN cache' = DOMAIN cache \cup {key(a.q)}
          /\ cache'[key(a.q)] = [decision |-> ans.decision, at |-> now]
          /\ \A k \in DOMAIN cache : k # key(a.q) => cache'[k] = cache[k]
      BY <3>1 DEF Insert
    <3>3. \A p \in Questions : key(p) = key(a.q) => Verdict(v, p) = ans.decision
      BY <1>5, <2>2, KeyDecides
    <3>4. ans.decision \in {"allow", "deny"}
      BY <1>6, <2>2 DEF Decisions
    <3> SUFFICES ASSUME NEW k \in DOMAIN cache'
                 PROVE  /\ cache'[k].at \in Nat /\ cache'[k].at =< now
                        /\ cache'[k].decision \in {"allow", "deny"}
                        /\ \E w \in 1 .. version :
                             /\ Within(w, cache'[k].at - Timeout, cache'[k].at)
                             /\ \A q \in Questions : key(q) = k => Verdict(w, q) = cache'[k].decision
      BY <1>2 DEF CacheTrue, Within
    <3>5. CASE k = key(a.q)
      BY <1>4, <1>10, <3>2, <3>3, <3>4, <3>5
    <3>6. CASE k # key(a.q)
      BY <3>2, <3>6 DEF HookInv, CacheTrue
    <3> QED BY <3>5, <3>6
  <2> QED BY <2>1, <2>2
<1>13. verdicts' \in [Decisions \cup {"unreachable"} -> Nat]
  <2> DEFINE D == Decisions \cup {"unreachable"}
  <2>1. verdicts \in [D -> Nat] /\ ans.decision \in D
    BY <1>6 DEF HookInv, HookTypes
  <2> HIDE DEF D
  <2>2. verdicts' \in [D -> Nat]
    BY <1>2, <2>1
  <2> QED BY <2>2 DEF D
<1>14. /\ HookTypes' /\ Len(asks') = Len(asks)
       /\ \A m \in 1 .. Len(asks) : m # n => asks'[m] = asks[m]
  BY <1>2, <1>3, <1>13, AskReplaced DEF Ended
<1>15. /\ \A d \in Decisions : ~Counted(n, d)
       /\ \A d \in Decisions : Counted(n, d)' <=> d = ans.decision
  <2>1. \A d : ~Counted(n, d)
    BY <1>0, <1>2 DEF Counted
  <2>2. ~OnWire(asks'[n])
    BY <1>3, <1>8 DEF OnWire
  <2> QED BY <1>3, <1>4, <1>7, <2>1, <2>2 DEF Counted, OnWire
<1>16. TallyIsTheWire'
  BY <1>2, <1>3, <1>6, <1>14, <1>15, OneTally
<1> QED BY <1>0, <1>2, <1>3, <1>4, <1>5, <1>7, <1>8, <1>11, <1>12, <1>13, <1>16, EndKeeps

LEMMA FallbackKeeps == ASSUME HookInv, NEW n \in DOMAIN asks, fallback(n) PROVE HookInv'
<1>0. PICK a : a = asks[n]
  OBVIOUS
<1>1. PICK o : o = Outcome(IF FailMode = "open" THEN "allow" ELSE "deny", 0, TRUE)
  OBVIOUS
<1>2. /\ OnWire(a) /\ asks' = [asks EXCEPT ![n].outcome = o]
      /\ verdicts' = [verdicts EXCEPT !["unreachable"] = @ + 1]
      /\ UNCHANGED <<now, version, since, cache, pruned, filters>>
  BY <1>0, <1>1 DEF fallback
<1>3. /\ Ended(n, o) /\ n \in 1 .. Len(asks) /\ asks'[n].outcome = o
  BY <1>2, Ends
<1>4. o.decision # "hold" /\ o.unreachable = TRUE /\ o.at = now
  BY <1>1 DEF Outcome
<1>5. o # NoAnswer
  <2>1. (IF FailMode = "open" THEN "allow" ELSE "deny") \in Decisions
    BY DEF Decisions
  <2> QED BY <1>1, <2>1, OutcomeIsSomething
<1>6. verdicts' \in [Decisions \cup {"unreachable"} -> Nat]
  <2> DEFINE D == Decisions \cup {"unreachable"}
  <2>1. verdicts \in [D -> Nat] /\ "unreachable" \in D
    BY DEF HookInv, HookTypes
  <2> HIDE DEF D
  <2>2. verdicts' \in [D -> Nat]
    BY <1>2, <2>1
  <2> QED BY <2>2 DEF D
<1>7. /\ HookTypes' /\ Len(asks') = Len(asks)
       /\ \A m \in 1 .. Len(asks) : m # n => asks'[m] = asks[m]
  BY <1>2, <1>3, <1>6, AskReplaced DEF Ended
<1>8. \A d \in Decisions : ~Counted(n, d) /\ ~Counted(n, d)'
  BY <1>0, <1>2, <1>3, <1>4 DEF Counted
<1>9. TallyIsTheWire'
  BY <1>2, <1>3, <1>7, <1>8, OneTally
<1> QED BY <1>2, <1>3, <1>4, <1>5, <1>6, <1>9, EndKeeps

-----------------------------------------------------------------------------
(* The filters: one changes and nothing moves. *)
LEMMA FilterReplaced ==
  ASSUME HookInv, NEW n \in 1 .. Len(filters), NEW b, filters' = [filters EXCEPT ![n] = b],
         UNCHANGED <<now, version, since, asks, verdicts>>
  PROVE  /\ HookTypes' /\ Len(filters') = Len(filters) /\ filters'[n] = b
         /\ \A m \in 1 .. Len(filters) : m # n => filters'[m] = filters[m]
<1> DEFINE S == {filters[m] : m \in 1 .. Len(filters)} \cup {b}
<1>0. Len(filters) \in Nat /\ filters = [m \in 1 .. Len(filters) |-> filters[m]]
  BY DEF HookInv, HookTypes
<1>1. filters \in Seq(S) /\ b \in S
  BY <1>0
<1> HIDE DEF S
<1>2. /\ filters' \in Seq(S) /\ Len(filters') = Len(filters) /\ filters'[n] = b
      /\ \A m \in 1 .. Len(filters) : m # n => filters'[m] = filters[m]
  BY <1>0, <1>1
<1>3. filters' \in [1 .. Len(filters') -> S]
  BY <1>2
<1>4. filters' = [m \in 1 .. Len(filters') |-> filters'[m]] /\ Len(filters') \in Nat
  BY <1>0, <1>2, <1>3
<1> QED BY <1>2, <1>4 DEF HookInv, HookTypes

(* Where no question changes, what was shown of the questions stands. *)
LEMMA AsksStand ==
  ASSUME HookInv, HookTypes', HookMoves, UNCHANGED <<asks, verdicts>>,
         \A n \in 1 .. Len(asks) : OnWire(asks[n]) => now' =< asks[n].start + Timeout
  PROVE  (\A n \in 1 .. Len(asks') : AskTrue(n)') /\ TallyIsTheWire'
<1>1. \A n \in 1 .. Len(asks) : AskTrue(n)'
  <2> SUFFICES ASSUME NEW n \in 1 .. Len(asks) PROVE AskTrue(n)'
    OBVIOUS
  <2>1. OnWire(asks[n]) => now' =< asks[n].start + Timeout
    OBVIOUS
  <2> QED BY <2>1, AskStands
<1>2. TallyIsTheWire'
  BY DEF HookInv, TallyIsTheWire, OnWire
<1> QED BY <1>1, <1>2

LEMMA AsksWait == HookInv => \A n \in 1 .. Len(asks) : OnWire(asks[n]) => now =< asks[n].start + Timeout
BY DEF HookInv, AskTrue, AskWaits

LEMMA OneFilter ==
  ASSUME HookInv, NEW n \in 1 .. Len(filters), NEW b, filters' = [filters EXCEPT ![n] = b],
         UNCHANGED <<now, version, since, cache, asks, verdicts>>,
         FilterTrue(n)', PrunedTrue' \/ UNCHANGED pruned
  PROVE  HookInv'
<1>00. PICK L : L = Len(filters)
  OBVIOUS
<1>1. /\ HookTypes' /\ Len(filters') = L /\ \A m \in 1 .. L : m # n => filters'[m] = filters[m]
  BY <1>00, FilterReplaced
<1>2. HookMoves
  BY DEF HookMoves
<1>3. \A m \in 1 .. L : FilterTrue(m)'
  <2> SUFFICES ASSUME NEW m \in 1 .. L, m # n PROVE FilterTrue(m)'
    OBVIOUS
  <2>1. OnWire(filters[m]) => now =< filters[m].start + Timeout
    BY <1>00 DEF HookInv, FilterTrue
  <2> QED BY <1>00, <1>1, <1>2, <2>1, FilterStands
<1>4. (\A m \in 1 .. Len(asks') : AskTrue(m)') /\ TallyIsTheWire'
  BY <1>1, <1>2, AsksWait, AsksStand
<1>5. CacheTrue' /\ PrunedTrue'
  BY <1>1, <1>2, CachesStand
<1> QED BY <1>1, <1>3, <1>4, <1>5 DEF HookInv

LEMMA AskFilterKeeps == ASSUME HookInv, NEW agent, NEW tools, AskFilter(agent, tools) PROVE HookInv'
<1> DEFINE k == <<agent, tools>>
           hit == Fresh(pruned, k)
<1>00. PICK L : L = Len(filters)
  OBVIOUS
<1>0. PICK f : f = [agent |-> agent, tools |-> tools, start |-> now, answer |-> NoAnswer,
                    outcome |-> IF hit THEN [denied |-> pruned[k].denied, at |-> now] ELSE NoAnswer]
  OBVIOUS
<1>1. filters' = Append(filters, f) /\ UNCHANGED <<now, version, since, cache, pruned, asks, verdicts>>
  BY <1>0 DEF AskFilter
<1>2. L \in Nat /\ filters = [n \in 1 .. L |-> filters[n]] /\ now \in Nat /\ version \in Nat /\ version > 0
  BY <1>00 DEF HookInv, HookTypes
<1>3. /\ Len(filters') = L + 1 /\ filters' = [n \in 1 .. L + 1 |-> filters'[n]]
      /\ filters'[L + 1] = f /\ \A n \in 1 .. L : filters'[n] = filters[n]
  BY <1>00, <1>1, <1>2, Appended
<1>4. HookTypes' /\ HookMoves
  BY <1>00, <1>1, <1>2, <1>3 DEF HookInv, HookTypes, HookMoves
<1>5. \A n \in 1 .. L : FilterTrue(n)'
  <2> SUFFICES ASSUME NEW n \in 1 .. L PROVE FilterTrue(n)'
    OBVIOUS
  <2>1. OnWire(filters[n]) => now =< filters[n].start + Timeout
    BY <1>00 DEF HookInv, FilterTrue
  <2> QED BY <1>00, <1>1, <1>3, <1>4, <2>1, FilterStands
<1>6. /\ f.start = now /\ f.answer = NoAnswer /\ f.tools = tools
      /\ f.outcome = IF hit THEN [denied |-> pruned[k].denied, at |-> now] ELSE NoAnswer
      /\ f = [agent |-> f.agent, tools |-> f.tools, start |-> f.start, answer |-> f.answer, outcome |-> f.outcome]
  BY <1>0
<1>7. ~OnWire(f) => f.outcome.at = now /\ \E v \in InForce(now, Ttl + Timeout) : f.outcome.denied = DeniedTools(v, tools)
  <2> SUFFICES ASSUME ~OnWire(f)
               PROVE  f.outcome.at = now /\ \E v \in InForce(now, Ttl + Timeout) : f.outcome.denied = DeniedTools(v, tools)
    OBVIOUS
  <2>1. hit /\ f.outcome = [denied |-> pruned[k].denied, at |-> now]
    BY <1>6 DEF OnWire
  <2>2. k \in DOMAIN pruned /\ now - pruned[k].at < Ttl /\ pruned[k].at \in Nat /\ pruned[k].at =< now
    BY <2>1 DEF Fresh, HookInv, PrunedTrue
  <2>3. PICK v \in 1 .. version :
           Within(v, pruned[k].at - Timeout, pruned[k].at) /\ pruned[k].denied = DeniedTools(v, k[2])
    BY <2>2 DEF HookInv, PrunedTrue
  <2> DEFINE c == pruned[k].at
  <2>4. c \in Nat /\ c =< now /\ now - c < Ttl
    BY <2>2
  <2>5. since[v] =< c /\ (v = version \/ since[v + 1] >= c - Timeout) /\ since \in Seq(Nat) /\ Len(since) = version
    BY <2>3 DEF Within, HookInv, HookTypes
  <2>6. since[v] \in Nat /\ (v # version => since[v + 1] \in Nat)
    BY <1>2, <2>5
  <2> HIDE DEF c
  <2>7. \A m \in Nat : m >= c - Timeout => m >= now - (Ttl + Timeout)
    BY <1>2, <2>4, HookNumbers
  <2>8. since[v] =< now /\ (v = version \/ since[v + 1] >= now - (Ttl + Timeout))
    BY <1>2, <2>4, <2>5, <2>6, <2>7
  <2>9. v \in InForce(now, Ttl + Timeout) /\ f.outcome.denied = DeniedTools(v, tools)
    BY <2>1, <2>3, <2>8 DEF InForce
  <2> QED BY <2>1, <2>9
<1>8. FilterTrue(L + 1)'
  <2>1. ~OnWire(f) =>
          /\ f.outcome.at \in Nat /\ f.outcome.at =< now'
          /\ \E v \in InForce(f.outcome.at, Ttl + Timeout)' : f.outcome.denied = DeniedTools(v, f.tools)
    BY <1>1, <1>2, <1>6, <1>7 DEF InForce
  <2>2. f.start \in Nat /\ f.start =< now' /\ now' =< f.start + Timeout
    BY <1>1, <1>2, <1>6, HookNumbers
  <2> QED BY <1>3, <1>6, <2>1, <2>2 DEF FilterTrue, OnWire
<1>9. \A n \in 1 .. Len(filters') : FilterTrue(n)'
  BY <1>2, <1>3, <1>5, <1>8
<1>10. (\A n \in 1 .. Len(asks') : AskTrue(n)') /\ TallyIsTheWire'
  BY <1>1, <1>4, AsksWait, AsksStand
<1> QED BY <1>1, <1>4, <1>9, <1>10, CachesStand DEF HookInv

LEMMA JudgeFilterKeeps == ASSUME HookInv, NEW n \in DOMAIN filters, JudgeFilter(n) PROVE HookInv'
<1>0. PICK f : f = filters[n]
  OBVIOUS
<1>1. PICK b : b = [agent |-> f.agent, tools |-> f.tools, start |-> f.start,
                    answer |-> [denied |-> DeniedTools(version, f.tools)], outcome |-> f.outcome]
  OBVIOUS
<1>2. n \in 1 .. Len(filters) /\ FilterTrue(n)
  BY InRange DEF HookInv
<1>3. /\ f = [agent |-> f.agent, tools |-> f.tools, start |-> f.start, answer |-> f.answer, outcome |-> f.outcome]
      /\ f.start \in Nat /\ f.start =< now /\ OnWire(f) /\ now =< f.start + Timeout
  BY <1>0, <1>2 DEF FilterTrue, JudgeFilter
<1>4. filters' = [filters EXCEPT ![n] = b] /\ UNCHANGED <<now, version, since, cache, pruned, asks, verdicts>>
  <2>1. filters' = [filters EXCEPT ![n] = [f EXCEPT !.answer = [denied |-> DeniedTools(version, f.tools)]]]
    BY <1>0 DEF JudgeFilter
  <2>2. [f EXCEPT !.answer = [denied |-> DeniedTools(version, f.tools)]] = b
    BY <1>1, <1>3
  <2> QED BY <2>1, <2>2 DEF JudgeFilter
<1>5. filters'[n] = b
  BY <1>2, <1>4, FilterReplaced
<1>6. /\ b.start = f.start /\ b.tools = f.tools /\ b.outcome = f.outcome
      /\ b.answer.denied = DeniedTools(version, b.tools)
      /\ b = [agent |-> b.agent, tools |-> b.tools, start |-> b.start, answer |-> b.answer, outcome |-> b.outcome]
  BY <1>1
<1>7. FilterTrue(n)'
  <2>1. version' \in 1 .. version' /\ Within(version, b.start, now)' /\ version' = version
    BY <1>4, NowIsWithin DEF Within
  <2>2. OnWire(b)
    BY <1>3, <1>6 DEF OnWire
  <2> QED BY <1>3, <1>4, <1>5, <1>6, <2>1, <2>2 DEF FilterTrue, OnWire
<1> QED BY <1>2, <1>4, <1>7, OneFilter

LEMMA MeasureKeeps ==
  ASSUME HookInv, NEW n \in DOMAIN filters, NEW ok \in BOOLEAN, measure_shadow_prune(n, ok)
  PROVE  HookInv'
<1>0. PICK f : f = filters[n]
  OBVIOUS
<1>1. PICK o : o = IF ok THEN [denied |-> f.answer.denied, at |-> now] ELSE [denied |-> NoAnswer, at |-> now]
  OBVIOUS
<1>01. PICK b : b = [agent |-> f.agent, tools |-> f.tools, start |-> f.start, answer |-> f.answer, outcome |-> o]
  OBVIOUS
<1>2. n \in 1 .. Len(filters) /\ FilterTrue(n) /\ now \in Nat /\ version \in Nat
  BY InRange DEF HookInv, HookTypes
<1>3. /\ f = [agent |-> f.agent, tools |-> f.tools, start |-> f.start, answer |-> f.answer, outcome |-> f.outcome]
      /\ f.start \in Nat /\ f.start =< now /\ OnWire(f) /\ now =< f.start + Timeout
      /\ ok => f.answer # NoAnswer
  BY <1>0, <1>2 DEF FilterTrue, measure_shadow_prune
<1>4. /\ filters' = [filters EXCEPT ![n] = b] /\ UNCHANGED <<now, version, since, cache, asks, verdicts>>
      /\ pruned' = IF ok THEN Insert(pruned, <<f.agent, f.tools>>, [denied |-> f.answer.denied, at |-> now])
                   ELSE pruned
  <2>1. filters' = [filters EXCEPT ![n] = [f EXCEPT !.outcome = o]]
    BY <1>0, <1>1 DEF measure_shadow_prune
  <2>2. [f EXCEPT !.outcome = o] = b
    BY <1>01, <1>3
  <2> QED BY <1>0, <2>1, <2>2 DEF measure_shadow_prune
<1>5. filters'[n] = b
  BY <1>2, <1>4, FilterReplaced
<1>6. /\ b.start = f.start /\ b.tools = f.tools /\ b.answer = f.answer /\ b.outcome = o
      /\ b = [agent |-> b.agent, tools |-> b.tools, start |-> b.start, answer |-> b.answer, outcome |-> b.outcome]
  BY <1>01
<1>7. ok => \E v \in 1 .. version : /\ Within(v, now - Timeout, now) /\ f.answer.denied = DeniedTools(v, f.tools)
                                    /\ v \in InForce(now, Ttl + Timeout)
  <2> SUFFICES ASSUME ok
               PROVE  \E v \in 1 .. version : /\ Within(v, now - Timeout, now) /\ f.answer.denied = DeniedTools(v, f.tools)
                                              /\ v \in InForce(now, Ttl + Timeout)
    OBVIOUS
  <2>1. PICK v \in 1 .. version : Within(v, f.start, now) /\ f.answer.denied = DeniedTools(v, f.tools)
    BY <1>0, <1>2, <1>3 DEF FilterTrue
  <2>2. v # version => since[v + 1] \in Nat
    BY <1>2 DEF HookInv, HookTypes
  <2>3. \A m \in Nat : m >= f.start => m >= now - Timeout /\ m >= now - (Ttl + Timeout)
    BY <1>2, <1>3, HookNumbers
  <2>4. since[v] =< now /\ (v = version \/ since[v + 1] >= f.start)
    BY <2>1 DEF Within
  <2>5. Within(v, now - Timeout, now)
    BY <2>2, <2>3, <2>4 DEF Within
  <2>6. v \in InForce(now, Ttl + Timeout)
    BY <2>2, <2>3, <2>4 DEF InForce
  <2> QED BY <2>1, <2>5, <2>6
<1>8. FilterTrue(n)'
  <2>1. ~OnWire(b) => o.at = now
    BY <1>1
  <2>2. o.denied # NoAnswer =>
          \E v \in InForce(b.outcome.at, Ttl + Timeout)' : b.outcome.denied = DeniedTools(v, b.tools)
    <3> SUFFICES ASSUME o.denied # NoAnswer
                 PROVE  \E v \in InForce(b.outcome.at, Ttl + Timeout)' : b.outcome.denied = DeniedTools(v, b.tools)
      OBVIOUS
    <3>1. ok /\ o.denied = f.answer.denied /\ o.at = now
      BY <1>1
    <3>2. PICK v \in InForce(now, Ttl + Timeout) : f.answer.denied = DeniedTools(v, f.tools)
      BY <1>7, <3>1
    <3>3. v \in InForce(b.outcome.at, Ttl + Timeout)'
      BY <1>4, <1>6, <3>1 DEF InForce
    <3> QED BY <1>6, <3>1, <3>2, <3>3
  <2>3. OnWire(b) /\ b.answer # NoAnswer =>
          \E v \in 1 .. version' : Within(v, b.start, now)' /\ b.answer.denied = DeniedTools(v, b.tools)
    <3> SUFFICES ASSUME b.answer # NoAnswer
                 PROVE  \E v \in 1 .. version' : Within(v, b.start, now)' /\ b.answer.denied = DeniedTools(v, b.tools)
      OBVIOUS
    <3>1. PICK v \in 1 .. version : Within(v, f.start, now) /\ f.answer.denied = DeniedTools(v, f.tools)
      BY <1>0, <1>2, <1>3, <1>6 DEF FilterTrue
    <3>2. Within(v, b.start, now)' /\ v \in 1 .. version'
      BY <1>4, <1>6, <3>1 DEF Within
    <3> QED BY <1>6, <3>1, <3>2
  <2>4. o.at = now
    BY <1>1
  <2> QED BY <1>2, <1>3, <1>4, <1>5, <1>6, <2>2, <2>3, <2>4 DEF FilterTrue, OnWire
<1>9. PrunedTrue' \/ UNCHANGED pruned
  <2>1. CASE ~ok
    BY <1>4, <2>1
  <2>2. CASE ok
    <3> DEFINE k0 == <<f.agent, f.tools>>
    <3>1. pruned' = Insert(pruned, k0, [denied |-> f.answer.denied, at |-> now])
      BY <1>4, <2>2
    <3>2. /\ DOMAIN pruned' = DOMAIN pruned \cup {k0} /\ pruned'[k0] = [denied |-> f.answer.denied, at |-> now]
          /\ \A k \in DOMAIN pruned : k # k0 => pruned'[k] = pruned[k]
      BY <3>1 DEF Insert
    <3>3. k0[2] = f.tools
      OBVIOUS
    <3> HIDE DEF k0
    <3> SUFFICES ASSUME NEW k \in DOMAIN pruned'
                 PROVE  /\ pruned'[k].at \in Nat /\ pruned'[k].at =< now
                        /\ \E v \in 1 .. version :
                             /\ Within(v, pruned'[k].at - Timeout, pruned'[k].at)
                             /\ pruned'[k].denied = DeniedTools(v, k[2])
      BY <1>4 DEF PrunedTrue, Within
    <3>4. CASE k = k0
      BY <1>2, <1>7, <2>2, <3>2, <3>3, <3>4
    <3>5. CASE k # k0
      BY <3>2, <3>5 DEF HookInv, PrunedTrue
    <3> QED BY <3>4, <3>5
  <2> QED BY <2>1, <2>2
<1> QED BY <1>2, <1>4, <1>8, <1>9, OneFilter

-----------------------------------------------------------------------------
LEMMA HookClockKeeps ==
  ASSUME HookInv, Tick \/ PolicyChange
  PROVE  HookInv'
<1>1. UNCHANGED <<cache, pruned, asks, filters, verdicts>>
  BY DEF Tick, PolicyChange
<1>2. /\ now \in Nat /\ version \in Nat /\ version > 0 /\ since \in Seq(Nat) /\ Len(since) = version
      /\ \A v \in 1 .. version : since[v] =< now /\ since[v] \in Nat
  BY DEF HookInv, HookTypes
<1>3. HookMoves
  BY DEF Tick, PolicyChange, HookMoves
<1>4. HookTypes'
  <2>1. now' \in Nat /\ version' \in Nat /\ version' > 0
    BY <1>2, <1>3 DEF HookMoves
  <2>2. since' \in Seq(Nat) /\ Len(since') = version'
    <3>1. CASE UNCHANGED <<version, since>>
      BY <1>2, <3>1
    <3>2. CASE version' = version + 1 /\ since' = Append(since, now)
      BY <1>2, <3>2
    <3> QED BY <1>3, <3>1, <3>2 DEF HookMoves
  <2>3. \A v \in 1 .. version' : since'[v] =< now'
    <3>1. CASE UNCHANGED <<version, since>> /\ (now' = now \/ now' = now + 1)
      BY <1>2, <3>1
    <3>2. CASE now' = now /\ version' = version + 1 /\ since' = Append(since, now)
      BY <1>2, <3>2
    <3> QED BY <1>3, <3>1, <3>2 DEF HookMoves
  <2> QED BY <1>1, <2>1, <2>2, <2>3 DEF HookInv, HookTypes
<1>5. /\ \A n \in 1 .. Len(asks) : OnWire(asks[n]) => now' =< asks[n].start + Timeout
      /\ \A n \in 1 .. Len(filters) : OnWire(filters[n]) => now' =< filters[n].start + Timeout
  <2>1. CASE PolicyChange
    BY <2>1, AsksWait DEF PolicyChange, HookInv, FilterTrue
  <2>2. CASE Tick
    <3>1. now' = now + 1
      BY <2>2 DEF Tick
    <3>2. /\ \A n \in 1 .. Len(asks) : asks[n].start \in Nat
          /\ \A n \in 1 .. Len(filters) : filters[n].start \in Nat
      BY DEF HookInv, AskTrue, FilterTrue
    <3>3. /\ \A n \in 1 .. Len(asks) : OnWire(asks[n]) => now - asks[n].start < Timeout
          /\ \A n \in 1 .. Len(filters) : OnWire(filters[n]) => now - filters[n].start < Timeout
      BY <2>2, InRange DEF Tick
    <3>4. \A s \in Nat : now - s < Timeout => now' =< s + Timeout
      BY <1>2, <3>1, HookNumbers
    <3>5. \A n \in 1 .. Len(asks) : OnWire(asks[n]) => now' =< asks[n].start + Timeout
      BY <3>2, <3>3, <3>4
    <3>6. \A n \in 1 .. Len(filters) : OnWire(filters[n]) => now' =< filters[n].start + Timeout
      BY <3>2, <3>3, <3>4
    <3> QED BY <3>5, <3>6
  <2> QED BY <2>1, <2>2
<1>6. (\A n \in 1 .. Len(asks') : AskTrue(n)') /\ TallyIsTheWire'
  BY <1>1, <1>3, <1>4, <1>5, AsksStand
<1>7. \A n \in 1 .. Len(filters') : FilterTrue(n)'
  BY <1>1, <1>3, <1>4, <1>5, FilterStands
<1> QED BY <1>1, <1>3, <1>4, <1>6, <1>7, CachesStand DEF HookInv

LEMMA HookStarts == WardryxInit => HookInv
<1> SUFFICES ASSUME WardryxInit PROVE HookInv
  OBVIOUS
<1>1. /\ now = 0 /\ version = 1 /\ since = <<0>> /\ cache = <<>> /\ pruned = <<>> /\ asks = <<>> /\ filters = <<>>
      /\ verdicts = [d \in Decisions \cup {"unreachable"} |-> 0]
  BY DEF WardryxInit
<1>2. HookTypes
  BY <1>1 DEF HookTypes
<1>3. DOMAIN asks = {} /\ DOMAIN cache = {} /\ DOMAIN pruned = {}
  BY <1>1
<1>4. TallyIsTheWire
  <2>1. \A d : {n \in DOMAIN asks : /\ ~OnWire(asks[n]) /\ ~asks[n].hit
                                     /\ ~asks[n].outcome.unreachable /\ asks[n].outcome.decision = d} = {}
    BY <1>3
  <2>2. Cardinality({}) = 0
    BY FS_EmptySet
  <2> QED BY <1>1, <2>1, <2>2 DEF TallyIsTheWire
<1> QED BY <1>1, <1>2, <1>3, <1>4 DEF HookInv, CacheTrue, PrunedTrue

LEMMA HookStep == HookInv /\ [WardryxNext]_wardryxvars => HookInv'
<1> SUFFICES ASSUME HookInv, [WardryxNext]_wardryxvars PROVE HookInv'
  OBVIOUS
<1>1. CASE UNCHANGED wardryxvars
  <2>1. UNCHANGED <<now, version, since, cache, pruned, asks, filters, verdicts>>
    BY <1>1 DEF wardryxvars
  <2>2. HookTypes' /\ HookMoves
    BY <2>1 DEF HookInv, HookTypes, HookMoves
  <2>3. \A n \in 1 .. Len(filters') : FilterTrue(n)'
    <3> SUFFICES ASSUME NEW n \in 1 .. Len(filters) PROVE FilterTrue(n)'
      BY <2>1
    <3>1. OnWire(filters[n]) => now =< filters[n].start + Timeout
      BY DEF HookInv, FilterTrue
    <3> QED BY <2>1, <2>2, <3>1, FilterStands
  <2> QED BY <2>1, <2>2, <2>3, AsksWait, AsksStand, CachesStand DEF HookInv
<1> QED BY <1>1, AskKeeps, AskFilterKeeps, JudgeKeeps, DecideKeeps, FallbackKeeps, JudgeFilterKeeps,
           MeasureKeeps, HookClockKeeps DEF WardryxNext

LEMMA HookInvHolds == HookInv => PlaneIsQuoted
<1> SUFFICES ASSUME HookInv PROVE PlaneIsQuoted
  OBVIOUS
<1>1. DOMAIN asks = 1 .. Len(asks) /\ DOMAIN filters = 1 .. Len(filters) /\ Len(asks) \in Nat
  BY InRange DEF HookInv, HookTypes
<1>2. VerdictIsOurs
  BY <1>1 DEF HookInv, AskTrue, AskDone, VerdictIsOurs
<1>3. HoldsAreFresh
  <2>1. \A n \in {k \in DOMAIN asks : ~OnWire(asks[k]) /\ asks[k].outcome.decision = "hold"} :
          asks[n].outcome.approval = n /\ n # 0
    BY <1>1 DEF HookInv, AskTrue, AskDone
  <2> QED BY <2>1 DEF HoldsAreFresh
<1>4. MeasuredIsPolicy
  BY <1>1 DEF HookInv, FilterTrue, MeasuredIsPolicy
<1> QED BY <1>2, <1>3, <1>4 DEF HookInv, PlaneIsQuoted

(* For any policies, questions, lifetimes and timeouts: what is passed off *)
(* as the plane's word is what a policy in force in time said of this very *)
(* question, a held call has an approval of its own, and the tally and the *)
(* measurements are the plane's, whatever was answered late or not at all. *)
THEOREM PlaneIsAlwaysQuoted == WardryxSpec => []PlaneIsQuoted
<1>1. WardryxInit => HookInv
  BY HookStarts
<1>2. HookInv /\ [WardryxNext]_wardryxvars => HookInv'
  BY HookStep
<1>3. HookInv => PlaneIsQuoted
  BY HookInvHolds
<1> QED BY <1>1, <1>2, <1>3, PTL DEF WardryxSpec

-----------------------------------------------------------------------------
(* The broker (McpBroker): what one message carries with it. *)

AllMessages == UNION {c.messages : c \in Setups}

Pages == {{}} \cup UNION {Listings[u] : u \in Upstreams}

Stages ==
  {"gate", "policy", "inject", "forward", "refused", "failed", "answered",
   "label", "withheld", "accepted", "delivered", "dropped"}

Message ==
  [q : AllMessages, sid : Nat \cup {None}, stage : Stages, epoch : Nat, records : {0, 1},
   drift : BOOLEAN, judged : BOOLEAN, reached : BOOLEAN, clean : BOOLEAN,
   page : Pages, changed : SUBSET UNION Pages]

Session == [epoch : Nat, upstream : Upstreams, principal : {q.principal : q \in AllMessages}, sid : Nat \cup {None}]

BrokerTypes ==
  /\ setup \in Setups
  /\ msgs \in Seq(Message) /\ epoch \in Nat
  /\ issued \subseteq Session
  /\ opened \in Seq([upstream : Upstreams, principal : {q.principal : q \in AllMessages}])

(* A record is a call's.  It is made once, when the call is judged or let  *)
(* through unjudged, or refused for a changed tool; nothing reaches an     *)
(* upstream before.                                                        *)
Records(m) ==
  /\ m.judged \/ m.drift => m.records = 1
  /\ m.records = 1 => IsCall(m)
  /\ m.stage \in {"gate", "policy", "inject"} => IsCall(m) /\ ~m.reached /\ ~m.drift
  /\ m.stage \in {"gate", "policy"} => m.records = 0
  /\ m.stage = "inject" /\ m.records = 1 => m.judged
  /\ m.stage = "forward" => ~m.reached /\ (IsCall(m) => m.records = 1)
  /\ m.stage = "refused" => ~m.reached /\ (m.records = 1 => m.judged \/ m.drift)
  /\ m.reached /\ IsCall(m) => m.records = 1
  /\ \/ m.stage \in {"gate", "policy", "inject", "forward", "refused", "dropped"}
     \/ m.reached

(* What is not refused names an upstream the broker knows, and the session *)
(* of its caller on it; an initialize that was answered opened one.        *)
BoundTo(sid, upstream, principal) ==
  /\ sid \in DOMAIN opened
  /\ opened[sid].upstream = upstream /\ opened[sid].principal = principal

Bound(m) ==
  m.stage # "refused" =>
    /\ m.q.upstream \in Upstreams
    /\ m.sid # None => BoundTo(m.sid, m.q.upstream, m.q.principal)
    /\ m.stage = "answered" /\ m.q.method = "initialize" => BoundTo(m.sid, m.q.upstream, m.q.principal)

Labelled(m) == Observed(m) /\ m.stage = "delivered" => m.q.run \in runlabel \/ ~setup.governed

Checked(m) == IsCall(m) /\ setup.scan = "Block" /\ m.stage # "refused" => m.clean

Sound(m) == Records(m) /\ Bound(m) /\ Labelled(m) /\ Checked(m)

(* Every id handed out, by whichever process, is one of a session that was *)
(* opened for that caller there.  What was last seen changed is marked.    *)
BrokerInv ==
  /\ BrokerTypes
  /\ \A n \in DOMAIN msgs : Sound(msgs[n])
  /\ \A s \in issued : BoundTo(s.sid, s.upstream, s.principal)
  /\ seen \subseteq drifted

-----------------------------------------------------------------------------
LEMMA BrokerStarts == BrokerInit => BrokerInv
BY DEF BrokerInit, BrokerInv, BrokerTypes

(* One message moves, and what the others rely on stays. *)
LEMMA MessageMoves ==
  ASSUME BrokerInv, NEW n \in DOMAIN msgs, NEW m \in Message,
         msgs' = [msgs EXCEPT ![n] = m], Sound(m)',
         setup' = setup, epoch' = epoch, runlabel \subseteq runlabel',
         opened' \in Seq([upstream : Upstreams, principal : {q.principal : q \in AllMessages}]),
         Len(opened) =< Len(opened'), \A i \in DOMAIN opened : opened'[i] = opened[i],
         issued' \subseteq Session,
         \A s \in issued' : s \in issued \/ BoundTo(s.sid, s.upstream, s.principal)',
         seen' \subseteq drifted'
  PROVE  BrokerInv'
<1> USE DEF BrokerInv
<1>1. /\ msgs' \in Seq(Message) /\ DOMAIN msgs' = DOMAIN msgs /\ msgs'[n] = m
      /\ \A i \in DOMAIN msgs : i # n => msgs'[i] = msgs[i]
  BY DEF BrokerTypes
<1>2. DOMAIN opened \subseteq DOMAIN opened'
  BY DEF BrokerTypes
<1>3. \A sid, u, p : BoundTo(sid, u, p) => BoundTo(sid, u, p)'
  BY <1>2 DEF BoundTo
<1>4. \A i \in DOMAIN msgs' : Sound(msgs[i])' \/ i = n
  <2> SUFFICES ASSUME NEW i \in DOMAIN msgs, i # n
               PROVE  Sound(msgs[i])'
    BY <1>1
  <2>1. PICK k : k = msgs[i]
    OBVIOUS
  <2>2. msgs'[i] = k /\ Sound(k)
    BY <1>1, <2>1
  <2>3. Records(k)' /\ Checked(k)'
    BY <2>2 DEF Sound, Records, Checked, IsCall
  <2>4. Bound(k)'
    BY <2>2, <1>3 DEF Sound, Bound
  <2>5. Labelled(k)'
    BY <2>2 DEF Sound, Labelled, Observed, IsCall
  <2> QED
    BY <2>2, <2>3, <2>4, <2>5 DEF Sound
<1>5. \A i \in DOMAIN msgs' : Sound(msgs[i])'
  BY <1>1, <1>4
<1>6. \A s \in issued' : BoundTo(s.sid, s.upstream, s.principal)'
  BY <1>3
<1> QED
  BY <1>1, <1>5, <1>6 DEF BrokerTypes

(* The actions of a message that leave sessions and marks alone. *)
LEMMA MessageSteps ==
  ASSUME BrokerInv, NEW n \in DOMAIN msgs, NEW m \in Message,
         msgs' = [msgs EXCEPT ![n] = m], Records(m),
         m.q = msgs[n].q, m.sid = msgs[n].sid, m.clean = msgs[n].clean,
         msgs[n].stage # "refused", m.stage # "answered",
         Observed(m) /\ m.stage = "delivered" => m.q.run \in runlabel' \/ ~setup.governed,
         runlabel \subseteq runlabel',
         UNCHANGED <<setup, drifted, epoch, issued, opened, seen>>
  PROVE  BrokerInv'
<1> PICK o : o = msgs[n]
  OBVIOUS
<1>1. Sound(o) /\ m.q = o.q /\ m.sid = o.sid /\ m.clean = o.clean /\ o.stage # "refused"
  BY DEF BrokerInv
<1>2. Sound(m)'
  <2>1. Records(m)' /\ Checked(m)'
    BY <1>1 DEF Sound, Records, Checked, IsCall
  <2>2. Bound(m)'
    BY <1>1 DEF Sound, Bound, BoundTo
  <2>3. Labelled(m)'
    BY DEF Labelled, Observed, IsCall
  <2> QED
    BY <2>1, <2>2, <2>3 DEF Sound
<1>3. /\ opened' \in Seq([upstream : Upstreams, principal : {q.principal : q \in AllMessages}])
      /\ Len(opened) =< Len(opened') /\ \A i \in DOMAIN opened : opened'[i] = opened[i]
      /\ issued' \subseteq Session /\ issued' = issued
      /\ seen' \subseteq drifted' /\ epoch' = epoch /\ setup' = setup
  BY DEF BrokerInv, BrokerTypes
<1> QED
  BY <1>2, <1>3, MessageMoves

LEMMA AMessage ==
  ASSUME BrokerInv, NEW n \in DOMAIN msgs
  PROVE  /\ msgs[n] \in Message /\ Sound(msgs[n])
         /\ msgs[n] = [q |-> msgs[n].q, sid |-> msgs[n].sid, stage |-> msgs[n].stage,
                       epoch |-> msgs[n].epoch, records |-> msgs[n].records, drift |-> msgs[n].drift,
                       judged |-> msgs[n].judged, reached |-> msgs[n].reached,
                       clean |-> msgs[n].clean, page |-> msgs[n].page, changed |-> msgs[n].changed]
<1>1. msgs[n] \in Message /\ Sound(msgs[n])
  BY DEF BrokerInv, BrokerTypes
<1> QED
  BY <1>1 DEF Message, Stages

(* A message that only changes its stage. *)
LEMMA StageMoves ==
  ASSUME BrokerInv, NEW n \in DOMAIN msgs, NEW stage \in Stages, Step(n, stage),
         Records([msgs[n] EXCEPT !.stage = stage]),
         msgs[n].stage # "refused", stage # "answered",
         Observed(msgs[n]) /\ stage = "delivered" => msgs[n].q.run \in runlabel' \/ ~setup.governed,
         runlabel \subseteq runlabel',
         UNCHANGED <<setup, drifted, epoch, issued, opened, seen>>
  PROVE  BrokerInv'
<1> PICK m : m = [msgs[n] EXCEPT !.stage = stage]
  OBVIOUS
<1>1. m \in Message /\ m.q = msgs[n].q /\ m.sid = msgs[n].sid /\ m.clean = msgs[n].clean /\ m.stage = stage
  BY AMessage DEF Message, Stages
<1>2. msgs' = [msgs EXCEPT ![n] = m]
  BY DEF Step
<1>3. Observed(m) /\ m.stage = "delivered" => m.q.run \in runlabel' \/ ~setup.governed
  BY <1>1 DEF Observed, IsCall
<1> QED
  BY <1>1, <1>2, <1>3, MessageSteps

LEMMA GateSteps ==
  ASSUME BrokerInv, NEW n \in DOMAIN msgs, NEW answer, taint_gate(n, answer)
  PROVE  BrokerInv'
<1> PICK o : o = msgs[n]
  OBVIOUS
<1>1. o \in Message /\ Records(o) /\ o.stage = "gate"
  BY AMessage DEF Sound, taint_gate
<1>2. PICK stage \in {"refused", "policy"} : Step(n, stage)
  BY DEF taint_gate
<1>3. Records([o EXCEPT !.stage = stage])
  BY <1>1 DEF Records, Message, IsCall
<1>4. /\ UNCHANGED <<setup, drifted, epoch, issued, opened, seen>> /\ runlabel' = runlabel
      /\ stage \in Stages /\ stage # "delivered" /\ stage # "answered"
  <2>1. UNCHANGED <<setup, drifted, epoch, issued, opened, seen>> /\ runlabel' = runlabel
    BY DEF taint_gate
  <2>2. stage \in Stages /\ stage # "delivered" /\ stage # "answered"
    BY DEF Stages
  <2> QED
    BY <2>1, <2>2
<1> QED
  BY <1>1, <1>2, <1>3, <1>4, StageMoves

LEMMA DecideSteps ==
  ASSUME BrokerInv, NEW n \in DOMAIN msgs, NEW verdict, wardryx_decide(n, verdict)
  PROVE  BrokerInv'
<1> PICK o : o = msgs[n]
  OBVIOUS
<1>1. o \in Message /\ Records(o) /\ o.stage = "policy"
  BY AMessage DEF Sound, wardryx_decide
<1> DEFINE asked == setup.policy # "Off" /\ o.q.agent # None
           refuses == setup.policy = "Enforce" /\ (verdict # "allow" \/ o.q.agent = None)
<1>2. PICK stage \in {"refused", "inject"}, judged \in BOOLEAN, records \in {0, 1} :
        /\ stage = IF refuses THEN "refused" ELSE "inject"
        /\ judged = asked /\ records = IF asked THEN 1 ELSE 0
  OBVIOUS
<1> PICK m : m = [o EXCEPT !.stage = stage, !.records = records, !.judged = judged]
  OBVIOUS
<1>3. o.records = 0 /\ IsCall(o) /\ ~o.reached /\ ~o.drift /\ ~o.judged
  BY <1>1 DEF Records, Message
<1>4. /\ m \in Message /\ m.q = o.q /\ m.sid = o.sid /\ m.clean = o.clean
      /\ m.stage = stage /\ m.judged = judged
      /\ m.records = records /\ m.reached = o.reached /\ m.drift = o.drift
  BY <1>1 DEF Message, Stages
<1>5. msgs' = [msgs EXCEPT ![n] = m]
  <2>1. msgs' = [msgs EXCEPT ![n] = [o EXCEPT !.stage = IF refuses THEN "refused" ELSE "inject",
                                              !.records = IF asked THEN @ + 1 ELSE @, !.judged = asked]]
    BY DEF wardryx_decide
  <2>2. o.records = 0 /\ (IF asked THEN o.records + 1 ELSE o.records) = records
    BY <1>2, <1>3
  <2>3. msgs' = [msgs EXCEPT ![n] = [o EXCEPT !.stage = stage, !.records = records, !.judged = asked]]
    BY <2>1, <2>2, <1>2
  <2> QED
    BY <2>3, <1>2
<1>6. Records(m)
  <2>1. /\ IsCall(m) /\ ~m.reached /\ ~m.drift /\ m.stage \in {"refused", "inject"}
    BY <1>2, <1>3, <1>4 DEF IsCall
  <2>2. m.judged <=> asked
    BY <1>2, <1>4, Zenon
  <2>3. m.records = IF asked THEN 1 ELSE 0
    BY <1>2, <1>4
  <2> HIDE DEF asked
  <2>4. m.judged <=> m.records = 1
    BY <2>2, <2>3
  <2> QED
    BY <2>1, <2>4 DEF Records
<1>7. UNCHANGED <<setup, drifted, epoch, issued, opened, seen>> /\ runlabel' = runlabel
  BY DEF wardryx_decide
<1> QED
  BY <1>1, <1>4, <1>5, <1>6, <1>7, MessageSteps

LEMMA InjectSteps ==
  ASSUME BrokerInv, NEW n \in DOMAIN msgs, inject_secrets(n)
  PROVE  BrokerInv'
<1> PICK o : o = msgs[n]
  OBVIOUS
<1>1. o \in Message /\ Records(o) /\ o.stage = "inject"
  BY AMessage DEF Sound, inject_secrets
<1> DEFINE admitted == o.q.secret = None
                       \/ [secret |-> o.q.secret, agent |-> o.q.agent, tool |-> o.q.tool] \in Scoped
<1>2. PICK stage \in {"refused", "forward"}, records \in {0, 1} :
        /\ stage = IF admitted THEN "forward" ELSE "refused"
        /\ records = IF admitted \/ o.judged THEN 1 ELSE 0
  OBVIOUS
<1> PICK m : m = [o EXCEPT !.stage = stage, !.records = records]
  OBVIOUS
<1>3. IsCall(o) /\ ~o.reached /\ ~o.drift /\ o.records = (IF o.judged THEN 1 ELSE 0)
  BY <1>1 DEF Records, Message
<1>4. /\ m \in Message /\ m.q = o.q /\ m.sid = o.sid /\ m.clean = o.clean
      /\ m.stage = stage /\ m.judged = o.judged
      /\ m.records = records /\ m.reached = o.reached /\ m.drift = o.drift
  BY <1>1 DEF Message, Stages
<1>5. msgs' = [msgs EXCEPT ![n] = m]
  <2>1. msgs' = [msgs EXCEPT ![n] = [o EXCEPT !.stage = IF admitted THEN "forward" ELSE "refused",
                                              !.records = IF admitted /\ ~o.judged THEN @ + 1 ELSE @]]
    BY DEF inject_secrets
  <2>2. (IF admitted /\ ~o.judged THEN o.records + 1 ELSE o.records) = records
    BY <1>2, <1>3
  <2> QED
    BY <2>1, <2>2, <1>2
<1>6. Records(m)
  BY <1>2, <1>3, <1>4 DEF Records, IsCall
<1>7. UNCHANGED <<setup, drifted, epoch, issued, opened, seen>> /\ runlabel' = runlabel
  BY DEF inject_secrets
<1> QED
  BY <1>1, <1>4, <1>5, <1>6, <1>7, MessageSteps

LEMMA ReportSteps ==
  ASSUME BrokerInv, NEW n \in DOMAIN msgs, NEW outcome, report_observed_act(n, outcome)
  PROVE  BrokerInv'
<1> PICK o : o = msgs[n]
  OBVIOUS
<1>1. o \in Message /\ Records(o) /\ o.stage = "label"
  BY AMessage DEF Sound, report_observed_act
<1>2. PICK stage \in {"delivered", "withheld"} :
        Step(n, stage) /\ (stage = "delivered" => outcome \in {"recorded", "ungoverned"})
  BY DEF report_observed_act
<1>3. Records([o EXCEPT !.stage = stage])
  BY <1>1 DEF Records, Message, IsCall
<1>4. /\ UNCHANGED <<setup, drifted, epoch, issued, opened, seen>> /\ runlabel \subseteq runlabel'
      /\ stage = "delivered" => o.q.run \in runlabel' \/ ~setup.governed
      /\ stage \in Stages /\ stage # "answered"
  BY <1>2 DEF report_observed_act, Takes, Outcomes, Stages
<1> QED
  BY <1>1, <1>2, <1>3, <1>4, StageMoves

(* The upstream's answer may open a session: one more, the caller's. *)
LEMMA ServeSteps ==
  ASSUME BrokerInv, NEW n \in DOMAIN msgs, NEW outcome,
         NEW page \in {{}} \cup Listings[msgs[n].q.upstream], Serve(n, page, outcome)
  PROVE  BrokerInv'
<1> PICK o : o = msgs[n]
  OBVIOUS
<1>1. o \in Message /\ Sound(o) /\ o.stage = "forward"
  BY AMessage DEF Serve
<1>2. o.q.upstream \in Upstreams /\ o.q \in AllMessages /\ page \in Pages
  BY <1>1 DEF Sound, Bound, Message, Pages
<1> DEFINE opens == o.q.method = "initialize" /\ outcome = "ok"
<1>3. PICK changed : changed = {t \in page : <<o.q.upstream, t>> \in defs}
  OBVIOUS
<1>4. PICK sid \in Nat : sid = Len(opened) + 1
  BY DEF BrokerInv, BrokerTypes
<1> PICK stage \in {"failed", "answered"} : stage = IF outcome # "ok" THEN "failed" ELSE "answered"
  OBVIOUS
<1>14. PICK to \in Nat \cup {None} : to = IF opens THEN sid ELSE o.sid
  BY <1>1 DEF Message
<1>5. PICK m : m = [o EXCEPT !.stage = stage, !.reached = TRUE, !.sid = to, !.page = page, !.changed = changed]
  OBVIOUS
<1>6. changed \in SUBSET UNION Pages
  BY <1>2, <1>3
<1>7. /\ m \in Message /\ m.q = o.q /\ m.sid = (IF opens THEN sid ELSE o.sid) /\ m.clean = o.clean
      /\ m.stage = (IF outcome # "ok" THEN "failed" ELSE "answered") /\ m.judged = o.judged
      /\ m.records = o.records /\ m.reached /\ m.drift = o.drift
  BY <1>1, <1>2, <1>5, <1>6, <1>14 DEF Message, Stages
<1>8. PICK session : session = [upstream |-> o.q.upstream, principal |-> o.q.principal]
  OBVIOUS
<1>9. /\ msgs' = [msgs EXCEPT ![n] = m]
      /\ opened' = IF opens THEN Append(opened, session) ELSE opened
      /\ UNCHANGED <<setup, drifted, epoch, issued, runlabel, seen>>
  <2>1. msgs' = [msgs EXCEPT ![n] = [o EXCEPT !.stage = IF outcome # "ok" THEN "failed" ELSE "answered",
                                     !.reached = TRUE, !.sid = IF opens THEN sid ELSE o.sid, !.page = page,
                                     !.changed = changed]]
    BY <1>3, <1>4 DEF Serve
  <2>2. msgs' = [msgs EXCEPT ![n] = [o EXCEPT !.stage = stage, !.reached = TRUE, !.sid = to,
                                              !.page = page, !.changed = changed]]
    BY <2>1, <1>1, <1>14 DEF Message
  <2>3. UNCHANGED <<setup, drifted, epoch, issued, runlabel, seen>>
    BY DEF Serve
  <2>4. opened' = IF opens THEN Append(opened, session) ELSE opened
    BY <1>8 DEF Serve
  <2> QED
    BY <1>5, <2>2, <2>3, <2>4
<1>10. /\ opened' \in Seq([upstream : Upstreams, principal : {q.principal : q \in AllMessages}])
       /\ Len(opened) =< Len(opened') /\ \A i \in DOMAIN opened : opened'[i] = opened[i]
       /\ opens => sid \in DOMAIN opened' /\ opened'[sid] = session
       /\ DOMAIN opened \subseteq DOMAIN opened'
  <2>1. session \in [upstream : Upstreams, principal : {q.principal : q \in AllMessages}]
    BY <1>2, <1>8
  <2>2. opened \in Seq([upstream : Upstreams, principal : {q.principal : q \in AllMessages}])
    BY DEF BrokerInv, BrokerTypes
  <2>3. CASE opens
    BY <2>1, <2>2, <2>3, <1>4, <1>9
  <2>4. CASE ~opens
    BY <2>2, <2>4, <1>9
  <2> QED
    BY <2>3, <2>4
<1>11. Sound(m)'
  <2>1. Records(m)' /\ Checked(m)'
    BY <1>1, <1>7, <1>9 DEF Sound, Records, Checked, IsCall
  <2>2. Bound(m)'
    <3>1. CASE opens
      <4>1. BoundTo(m.sid, m.q.upstream, m.q.principal)'
        BY <3>1, <1>7, <1>8, <1>10 DEF BoundTo
      <4> QED
        BY <4>1, <1>2, <1>7 DEF Bound
    <3>2. CASE ~opens
      <4>1. o.sid # None => BoundTo(o.sid, o.q.upstream, o.q.principal)'
        BY <1>1, <1>10 DEF Sound, Bound, BoundTo
      <4> QED
        BY <3>2, <4>1, <1>2, <1>7 DEF Bound
    <3> QED
      BY <3>1, <3>2
  <2>3. Labelled(m)'
    BY <1>7 DEF Labelled
  <2> QED
    BY <2>1, <2>2, <2>3 DEF Sound
<1>12. /\ issued' \subseteq Session /\ issued' = issued /\ seen' \subseteq drifted'
       /\ setup' = setup /\ epoch' = epoch /\ runlabel' = runlabel
  BY <1>9 DEF BrokerInv, BrokerTypes
<1> QED
  BY <1>7, <1>9, <1>10, <1>11, <1>12, MessageMoves

(* The answer arrives: the session it opened is handed out for the caller  *)
(* it was opened for, and what it shows changed is marked.                 *)
LEMMA ReceiveSteps ==
  ASSUME BrokerInv, NEW n \in DOMAIN msgs, Receive(n)
  PROVE  BrokerInv'
<1> PICK o : o = msgs[n]
  OBVIOUS
<1>1. o \in Message /\ Sound(o) /\ o.stage = "answered"
  BY AMessage DEF Receive
<1>2. o.q.upstream \in Upstreams /\ o.q \in AllMessages /\ o.sid \in Nat \cup {None}
  BY <1>1 DEF Sound, Bound, Message
<1>3. PICK stage \in {"accepted", "label", "withheld", "delivered"} :
        Step(n, stage) /\ (stage = "delivered" => ~Observed(o))
  BY DEF Receive
<1>4. PICK m : m = [o EXCEPT !.stage = stage]
  OBVIOUS
<1>5. /\ m \in Message /\ m.q = o.q /\ m.sid = o.sid /\ m.clean = o.clean /\ m.stage = stage
      /\ m.judged = o.judged /\ m.records = o.records /\ m.reached = o.reached /\ m.drift = o.drift
  BY <1>1, <1>4 DEF Message, Stages
<1>6. msgs' = [msgs EXCEPT ![n] = m]
  BY <1>3, <1>4 DEF Step
<1>7. UNCHANGED <<setup, epoch, opened, runlabel>>
  BY DEF Receive
<1>8. Sound(m)'
  <2>1. Records(m)' /\ Checked(m)'
    BY <1>1, <1>5, <1>7 DEF Sound, Records, Checked, IsCall
  <2>2. Bound(m)'
    BY <1>1, <1>5, <1>7 DEF Sound, Bound, BoundTo
  <2>3. Labelled(m)'
    BY <1>3, <1>5 DEF Labelled, Observed, IsCall
  <2> QED
    BY <2>1, <2>2, <2>3 DEF Sound
<1>9. issued' \subseteq Session /\ \A s \in issued' : s \in issued \/ BoundTo(s.sid, s.upstream, s.principal)'
  <2>1. PICK s : s = [epoch |-> epoch, upstream |-> o.q.upstream, principal |-> o.q.principal, sid |-> o.sid]
    OBVIOUS
  <2>2. s \in Session /\ s.sid = o.sid /\ s.upstream = o.q.upstream /\ s.principal = o.q.principal
    BY <2>1, <1>2 DEF Session, BrokerInv, BrokerTypes
  <2>3. issued' = IF o.q.method = "initialize" THEN issued \cup {s} ELSE issued
    BY <2>1 DEF Receive
  <2>4. o.q.method = "initialize" => BoundTo(s.sid, s.upstream, s.principal)'
    BY <2>2, <1>1, <1>7 DEF Sound, Bound, BoundTo
  <2> QED
    BY <2>2, <2>3, <2>4 DEF BrokerInv, BrokerTypes
<1>10. seen' \subseteq drifted'
  <2>1. seen \subseteq drifted
    BY DEF BrokerInv
  <2>2. CASE o.q.method = "tools/list" /\ ~o.q.notification
    <3>1. drifted' = {d \in drifted : ~(d[1] = o.q.upstream /\ d[2] \in o.page \ o.changed)}
                       \cup {<<o.q.upstream, t>> : t \in o.changed}
      BY <2>2 DEF Receive, observe
    <3>2. seen' = {d \in seen : ~(d[1] = o.q.upstream /\ d[2] \in o.page)}
                    \cup {<<o.q.upstream, t>> : t \in o.changed}
      BY <2>2 DEF Receive
    <3> QED
      BY <2>1, <3>1, <3>2
  <2>3. CASE ~(o.q.method = "tools/list" /\ ~o.q.notification)
    BY <2>1, <2>3 DEF Receive
  <2> QED
    BY <2>2, <2>3
<1>11. /\ opened' \in Seq([upstream : Upstreams, principal : {q.principal : q \in AllMessages}])
       /\ Len(opened) =< Len(opened') /\ \A i \in DOMAIN opened : opened'[i] = opened[i]
  BY <1>7 DEF BrokerInv, BrokerTypes
<1> QED
  BY <1>5, <1>6, <1>7, <1>8, <1>9, <1>10, <1>11, MessageMoves

(* A message arrives: what is not refused has a session of its caller, and *)
(* calls no tool that is marked.                                           *)
LEMMA ArrivalSteps ==
  ASSUME BrokerInv, NEW q \in setup.messages, NEW s \in issued \cup {None}, process_into(q, s)
  PROVE  BrokerInv'
<1> USE DEF BrokerInv
<1> DEFINE drift == /\ q.method = "tools/call" /\ setup.scan = "Block"
                    /\ <<q.upstream, q.tool>> \in drifted
           stage == IF Refuses(q, s) \/ drift THEN "refused"
                    ELSE IF q.method = "tools/call" THEN "gate" ELSE "forward"
           mine == drift /\ ~Refuses(q, s)
<1>13. PICK sid \in Nat \cup {None} : sid = (IF s = None THEN None ELSE s.sid)
  BY DEF BrokerTypes, Session
<1>14. PICK t \in Stages : t = stage
  BY DEF Stages
<1>15. PICK d \in BOOLEAN : d = mine
  OBVIOUS
<1>16. PICK k \in {0, 1} : k = (IF mine THEN 1 ELSE 0)
  OBVIOUS
<1>17. PICK c \in BOOLEAN : c = (<<q.upstream, q.tool>> \notin seen)
  OBVIOUS
<1>1. /\ d = mine /\ k = (IF mine THEN 1 ELSE 0) /\ c = (<<q.upstream, q.tool>> \notin seen)
      /\ t = stage /\ sid = (IF s = None THEN None ELSE s.sid)
  BY <1>13, <1>14, <1>15, <1>16, <1>17
<1>2. PICK m : m = [q |-> q, sid |-> sid, stage |-> t, epoch |-> epoch, records |-> k, drift |-> d,
                    judged |-> FALSE, reached |-> FALSE, clean |-> c, page |-> {}, changed |-> {}]
  OBVIOUS
<1>3. m \in Message
  BY <1>2 DEF Message, Pages, BrokerTypes, AllMessages
<1>4. /\ m.q = q /\ m.sid = sid /\ m.stage = t /\ m.records = k /\ m.drift = d /\ ~m.judged /\ ~m.reached
      /\ m.clean = c
  BY <1>2
<1>5. msgs' = Append(msgs, m) /\ UNCHANGED <<setup, drifted, epoch, issued, opened, defs, pulls, runlabel, seen>>
  BY <1>1, <1>2 DEF process_into, RecordsDrift
<1>6. PICK L \in Nat : L = Len(msgs)
  BY DEF BrokerTypes
<1>7. /\ msgs' \in Seq(Message) /\ DOMAIN msgs' = DOMAIN msgs \cup {L + 1} /\ msgs'[L + 1] = m
      /\ \A i \in DOMAIN msgs : msgs'[i] = msgs[i]
  BY <1>3, <1>5, <1>6 DEF BrokerTypes
<1>8. (t = "refused" <=> Refuses(q, s) \/ drift) /\ t \in {"refused", "gate", "forward"}
      /\ (t = "gate" => q.method = "tools/call") /\ (t = "forward" => q.method # "tools/call")
  BY <1>1
<1>9. Sound(m)
  <2>1. Records(m)
    <3>1. (d <=> mine) /\ (k = 1 <=> mine)
      <4>1. d <=> mine
        BY <1>15, Zenon
      <4>2. k = 1 <=> mine
        BY <1>16
      <4> QED
        BY <4>1, <4>2
    <3>2. mine => t = "refused" /\ q.method = "tools/call"
      BY <1>8
    <3> HIDE DEF mine, drift
    <3> QED
      BY <1>4, <1>8, <3>1, <3>2 DEF Records, IsCall
  <2>2. Bound(m)
    <3> SUFFICES ASSUME ~Refuses(q, s), t # "refused"
                 PROVE  q.upstream \in Upstreams /\ (sid # None => BoundTo(sid, q.upstream, q.principal))
      BY <1>4, <1>8 DEF Bound
    <3>1. q.upstream \in Upstreams
      BY DEF Refuses
    <3>2. ASSUME sid # None PROVE BoundTo(sid, q.upstream, q.principal)
      <4>1. s # None /\ s \in issued /\ sid = s.sid /\ unwrap(q, s)
        BY <1>1, <3>2 DEF Refuses
      <4> QED
        BY <4>1 DEF unwrap
    <3> QED
      BY <3>1, <3>2
  <2>3. Labelled(m)
    BY <1>4, <1>8 DEF Labelled
  <2>4. Checked(m)
    <3> SUFFICES ASSUME q.method = "tools/call", setup.scan = "Block", t # "refused"
                 PROVE  c
      BY <1>4 DEF Checked, IsCall
    <3>1. <<q.upstream, q.tool>> \notin drifted
      BY <1>8
    <3> QED
      BY <1>1, <3>1
  <2> QED
    BY <2>1, <2>2, <2>3, <2>4 DEF Sound
<1>10. \A k1 : Sound(k1) => Sound(k1)'
  BY <1>5 DEF Sound, Records, Bound, BoundTo, Labelled, Checked, Observed, IsCall
<1>11. \A i \in DOMAIN msgs' : Sound(msgs[i])'
  <2> SUFFICES ASSUME NEW i \in DOMAIN msgs' PROVE Sound(msgs[i])'
    OBVIOUS
  <2> PICK n : n = msgs'[i]
    OBVIOUS
  <2>1. Sound(n)
    BY <1>7, <1>9
  <2>2. Sound(n)'
    BY <2>1, <1>10
  <2> QED
    BY <2>2 DEF Sound, Records, Bound, BoundTo, Labelled, Checked, Observed, IsCall
<1>12. \A i \in issued' : BoundTo(i.sid, i.upstream, i.principal)'
  BY <1>5 DEF BoundTo
<1> QED
  BY <1>5, <1>7, <1>11, <1>12 DEF BrokerTypes

(* A process dies: what was under way is dropped, marks and last listings  *)
(* go together, and the sessions outlive it.                               *)
LEMMA RestartSteps ==
  ASSUME BrokerInv, BrokerRestart
  PROVE  BrokerInv'
<1> USE DEF BrokerInv
<1>1. PICK L \in Nat : L = Len(msgs) /\ DOMAIN msgs = 1 .. L
  BY DEF BrokerTypes
<1> DEFINE ends(o) == o.stage \in {"gate", "policy", "inject", "forward", "answered", "label"}
<1>2. \A i \in 1 .. L : msgs'[i] = IF ends(msgs[i]) THEN [msgs[i] EXCEPT !.stage = "dropped"] ELSE msgs[i]
  BY <1>1 DEF BrokerRestart
<1>3. DOMAIN msgs' = 1 .. L /\ msgs' = [i \in 1 .. L |-> msgs'[i]]
  BY <1>1 DEF BrokerRestart
<1>4. UNCHANGED <<setup, issued, opened, runlabel>> /\ epoch' = epoch + 1 /\ seen' = {} /\ drifted' = {}
  BY DEF BrokerRestart
<1>5. ASSUME NEW i \in 1 .. L PROVE msgs'[i] \in Message /\ Sound(msgs[i])'
  <2> PICK o : o = msgs[i]
    OBVIOUS
  <2>1. o \in Message /\ Sound(o)
    BY <1>1, AMessage
  <2>2. PICK m : m = msgs'[i]
    OBVIOUS
  <2>3. CASE ends(o)
    <3>1. m = [o EXCEPT !.stage = "dropped"]
      BY <1>2, <2>2, <2>3
    <3>2. /\ m \in Message /\ m.q = o.q /\ m.sid = o.sid /\ m.clean = o.clean /\ m.stage = "dropped"
          /\ m.judged = o.judged /\ m.records = o.records /\ m.reached = o.reached /\ m.drift = o.drift
      BY <2>1, <3>1 DEF Message, Stages
    <3>3. Records(m)' /\ Checked(m)'
      BY <1>4, <2>1, <2>3, <3>2 DEF Sound, Records, Checked, IsCall
    <3>4. Bound(m)'
      BY <1>4, <2>1, <2>3, <3>2 DEF Sound, Bound, BoundTo
    <3>5. Labelled(m)'
      BY <3>2 DEF Labelled
    <3> QED
      BY <2>2, <3>2, <3>3, <3>4, <3>5 DEF Sound
  <2>4. CASE ~ends(o)
    <3>1. m = o
      BY <1>2, <2>2, <2>4
    <3> QED
      BY <1>4, <2>1, <2>2, <3>1 DEF Sound, Records, Bound, BoundTo, Labelled, Checked, Observed, IsCall
  <2> QED
    BY <2>3, <2>4
<1>6. msgs' \in Seq(Message)
  BY <1>3, <1>5
<1>7. BrokerTypes'
  BY <1>4, <1>6 DEF BrokerTypes
<1>8. \A i \in issued' : BoundTo(i.sid, i.upstream, i.principal)'
  BY <1>4 DEF BoundTo
<1> QED
  BY <1>3, <1>4, <1>5, <1>7, <1>8

LEMMA BrokerMoves == BrokerInv /\ [BrokerNext]_brokervars => BrokerInv'
<1> SUFFICES ASSUME BrokerInv, [BrokerNext]_brokervars PROVE BrokerInv'
  OBVIOUS
<1>1. CASE \E u \in Upstreams, t \in Tools : RugPull(u, t)
  <2>1. UNCHANGED <<setup, msgs, drifted, epoch, issued, opened, runlabel, seen>>
    BY <1>1 DEF RugPull
  <2> QED
    BY <2>1 DEF BrokerInv, BrokerTypes, Sound, Records, Bound, BoundTo, Labelled, Checked, Observed, IsCall
<1>2. CASE UNCHANGED brokervars
  <2>1. UNCHANGED <<setup, msgs, drifted, epoch, issued, opened, runlabel, seen>>
    BY <1>2 DEF brokervars
  <2> QED
    BY <2>1 DEF BrokerInv, BrokerTypes, Sound, Records, Bound, BoundTo, Labelled, Checked, Observed, IsCall
<1> QED
  BY <1>1, <1>2, ArrivalSteps, GateSteps, DecideSteps, InjectSteps, ServeSteps, ReceiveSteps,
     ReportSteps, RestartSteps
  DEF BrokerNext

(* The broker's promises, whatever is awaited, lost, restarted or changed  *)
(* meanwhile: one record per call, a label before the answer it is for     *)
(* wherever the gateway's firewall is on, sessions of their caller and     *)
(* upstream, no call of a changed tool where listings are blocked          *)
(* (process_into, gateway/src/mcpbroker.rs), in every configuration.       *)
THEOREM BrokerKeeps == BrokerSpec => []BrokerHolds
<1>1. BrokerInv => BrokerHolds
  <2> SUFFICES ASSUME BrokerInv, NEW n \in DOMAIN msgs
               PROVE  LET m == msgs[n]
                      IN  /\ m.records = IF IsCall(m) /\ (m.reached \/ m.judged \/ m.drift
                                          \/ (m.stage \in {"forward", "dropped"} /\ m.records > 0)) THEN 1 ELSE 0
                          /\ Observed(m) /\ m.stage = "delivered" => m.q.run \in runlabel \/ ~setup.governed
                          /\ m.reached /\ m.sid # None =>
                               /\ opened[m.sid].upstream = m.q.upstream
                               /\ opened[m.sid].principal = m.q.principal
                          /\ IsCall(m) /\ m.reached /\ setup.scan = "Block" => m.clean
    BY DEF BrokerHolds, RecordedOnce, LabelledBeforeDelivered, SessionsBound, ChangedNotCalled
  <2>1. PICK m : m = msgs[n]
    OBVIOUS
  <2>2. m \in Message /\ Sound(m)
    BY <2>1, AMessage
  <2>3. m.reached => m.stage # "refused"
    BY <2>2 DEF Sound, Records
  <2>4. m.records = IF IsCall(m) /\ (m.reached \/ m.judged \/ m.drift
                        \/ (m.stage \in {"forward", "dropped"} /\ m.records > 0)) THEN 1 ELSE 0
    <3>1. m.records \in {0, 1}
      BY <2>2 DEF Message
    <3>2. m.records = 1 => m.reached \/ m.judged \/ m.drift \/ m.stage \in {"forward", "dropped"}
      BY <2>2 DEF Sound, Records
    <3> QED
      BY <2>2, <3>1, <3>2 DEF Sound, Records
  <2>5. Observed(m) /\ m.stage = "delivered" => m.q.run \in runlabel \/ ~setup.governed
    BY <2>2 DEF Sound, Labelled
  <2>6. m.reached /\ m.sid # None =>
          opened[m.sid].upstream = m.q.upstream /\ opened[m.sid].principal = m.q.principal
    BY <2>2, <2>3 DEF Sound, Bound, BoundTo
  <2>7. IsCall(m) /\ m.reached /\ setup.scan = "Block" => m.clean
    BY <2>2, <2>3 DEF Sound, Checked
  <2> QED
    BY <2>1, <2>4, <2>5, <2>6, <2>7
<1> QED
  BY <1>1, BrokerStarts, BrokerMoves, PTL DEF BrokerSpec
=============================================================================
