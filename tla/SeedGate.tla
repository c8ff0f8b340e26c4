------------------------------ MODULE SeedGate ------------------------------
(***************************************************************************)
(* A gateway that starts: it reads the control plane's money state, puts   *)
(* back what its journal holds, serves, and keeps asking for what it could *)
(* not read, behind a gate that stays closed meanwhile (seedgate.rs,       *)
(* cloudsink.rs, main.rs), against the calls that arrive (handle_call in   *)
(* proxy.rs, up to its reservation).                                       *)
(*                                                                         *)
(* Money is abstracted: a run's spend known to the Cloud is a thing that   *)
(* is credited or not, and a checked reservation is granted or refused.    *)
(* Every await and every lock of its own in handle_call is a step.         *)
(***************************************************************************)
EXTENDS Naturals, Sequences

CONSTANTS
  Runs,
  NoParent,
  Calls,
  Parts,         \* the parts of the seed, in the order they are asked for
  Journaled,     \* runs the retained-reservation replay recreates
  CloudSpend,    \* runs the Cloud knows spend of
  CloudBudget,   \* runs an operator gave a budget in the Cloud
  CloudKilled,   \* runs an operator killed in the Cloud
  MaxOutages     \* bound on how often the control plane goes down

ASSUME SeedRunsAssumption ==
  /\ NoParent \notin Runs
  /\ Journaled \subseteq Runs /\ CloudSpend \subseteq Runs
  /\ CloudBudget \subseteq Runs /\ CloudKilled \subseteq Runs
(* The parts a gateway without an identity map reads: no unit state.       *)
RunParts == <<"run_spend", "budgets", "kills">>

ASSUME SeedPartsAssumption ==
  Parts \in {<<"run_spend", "budgets", "kills">>,
             <<"run_spend", "budgets", "kills", "unit_month", "unit_budgets">>}
ASSUME SeedBoundAssumption == MaxOutages \in Nat

VARIABLES
  enforce,            \* the policy mode (never written)
  up,                 \* the control plane answers
  outages,
  phase,              \* main: "seed", "replay", "serve"
  retry,              \* spawn_seed_retry: "off", "sleep", "ask", "credit"
  parts,              \* how many of Parts are read
  ready,              \* SeedGate.ready
  run_seed,           \* AppState.run_seed: runs with a seed to take
  replayed_unseeded,
  cloud_budgets,      \* AppState.cloud_budgets
  killed,             \* AppState.killed
  known,              \* runs the ledger holds
  credited,           \* run -> times its seed was credited
  calls               \* call -> where it is

cloud == <<up, outages>>
startup == <<phase, retry, parts, ready>>
money == <<run_seed, replayed_unseeded, cloud_budgets, killed>>
ledger == <<known, credited>>
svars == <<enforce, cloud, startup, money, ledger, calls>>

Steps == {"idle", "gate", "parent", "parent_open", "parent_credit", "fresh", "open", "credit",
          "kill", "reserve", "admitted", "refused"}

CallState ==
  [at : Steps, run : Runs, parent : Runs \cup {NoParent},
   operator : BOOLEAN,   \* basis: the budget is the Cloud's
   fresh : BOOLEAN]      \* run_is_fresh

complete == parts = Len(Parts)

SeedInit ==
  /\ enforce \in BOOLEAN
  /\ up \in BOOLEAN
  /\ outages = 0
  /\ phase = "seed"
  /\ retry = "off"
  /\ parts = 0
  /\ ready = TRUE
  /\ run_seed = {} /\ replayed_unseeded = {}
  /\ cloud_budgets = {} /\ killed = {}
  /\ known = {}
  /\ credited = [r \in Runs |-> 0]
  /\ calls \in [Calls -> {[at |-> "idle", run |-> r, parent |-> NoParent,
                           operator |-> FALSE, fresh |-> FALSE] : r \in Runs}]

-----------------------------------------------------------------------------
(* The control plane. *)
GoDown ==
  /\ up
  /\ outages < MaxOutages
  /\ up' = FALSE
  /\ outages' = outages + 1
  /\ UNCHANGED <<enforce, startup, money, ledger, calls>>

ComeUp ==
  /\ ~up
  /\ up' = TRUE
  /\ UNCHANGED <<enforce, outages, startup, money, ledger, calls>>

(***************************************************************************)
(* seed_control_plane: the next missing part, read and applied.  The unit  *)
(* parts change the unit ledger (module UnitLedger) and nothing here.      *)
(***************************************************************************)
ReadPart ==
  LET part == Parts[parts + 1]
  IN  /\ up
      /\ ~complete
      /\ parts' = parts + 1
      /\ run_seed' = IF part = "run_spend" THEN CloudSpend \ CloudKilled ELSE run_seed
      /\ cloud_budgets' = IF part = "budgets" THEN CloudBudget ELSE cloud_budgets
      /\ killed' = IF part = "kills" THEN killed \cup CloudKilled ELSE killed
      /\ UNCHANGED replayed_unseeded

SeedStartup ==
  /\ phase = "seed"
  /\ ReadPart
  /\ UNCHANGED <<enforce, cloud, phase, retry, ready, ledger, calls>>

(* The first attempt ends: all read, or the gate is closed. *)
SeedStartupEnds ==
  /\ phase = "seed"
  /\ complete \/ ~up
  /\ phase' = "replay"
  /\ ready' = complete
  /\ UNCHANGED <<enforce, cloud, retry, parts, money, ledger, calls>>

(* Credit the seeds of some runs, taking them out of the map. *)
take_run_seeds(runs) ==
  /\ run_seed' = run_seed \ runs
  /\ credited' = [r \in Runs |-> credited[r] + IF r \in runs \cap run_seed THEN 1 ELSE 0]

take_run_seed(run) == take_run_seeds({run})

(* Mutant: the replay does not note the runs it could not seed. *)
replay_at_startup_forgetting ==
  /\ phase = "replay"
  /\ phase' = "serve"
  /\ retry' = IF ready THEN "off" ELSE "sleep"
  /\ known' = known \cup Journaled
  /\ take_run_seeds(Journaled)
  /\ UNCHANGED <<enforce, cloud, parts, ready, replayed_unseeded, cloud_budgets, killed, calls>>

(* The replay, before the listener binds, and then the retry if need be. *)
replay_at_startup ==
  /\ phase = "replay"
  /\ phase' = "serve"
  /\ retry' = IF ready THEN "off" ELSE "sleep"
  /\ known' = known \cup Journaled
  /\ take_run_seeds(Journaled)
  /\ replayed_unseeded' = IF ready THEN {} ELSE Journaled \ run_seed
  /\ UNCHANGED <<enforce, cloud, parts, ready, cloud_budgets, killed, calls>>

(* retry_seed_until_read *)
RetryWakes ==
  /\ retry = "sleep"
  /\ retry' = "ask"
  /\ UNCHANGED <<enforce, cloud, phase, parts, ready, money, ledger, calls>>

RetryReads ==
  /\ retry = "ask"
  /\ ReadPart
  /\ UNCHANGED <<enforce, cloud, phase, retry, ready, ledger, calls>>

(* Mutant: an attempt that fails is the last one. *)
RetryFails_giving_up ==
  /\ retry = "ask"
  /\ ~up /\ ~complete
  /\ retry' = "off"
  /\ UNCHANGED <<enforce, cloud, phase, parts, ready, money, ledger, calls>>

RetryFails ==
  /\ retry = "ask"
  /\ ~up /\ ~complete
  /\ retry' = "sleep"
  /\ UNCHANGED <<enforce, cloud, phase, parts, ready, money, ledger, calls>>

(* Mutant: done before the kills are read. *)
RetryDone_before_kills ==
  /\ retry = "ask"
  /\ parts >= 2
  /\ retry' = "credit"
  /\ UNCHANGED <<enforce, cloud, phase, parts, ready, money, ledger, calls>>

RetryDone ==
  /\ retry = "ask"
  /\ complete
  /\ retry' = "credit"
  /\ UNCHANGED <<enforce, cloud, phase, parts, ready, money, ledger, calls>>

(* credit_late_seed, one run at a time. *)
credit_late_seed(run) ==
  /\ retry = "credit"
  /\ run \in replayed_unseeded
  /\ replayed_unseeded' = replayed_unseeded \ {run}
  /\ take_run_seed(run)
  /\ UNCHANGED <<enforce, cloud, startup, cloud_budgets, killed, known, calls>>

open_now ==
  /\ retry = "credit"
  /\ replayed_unseeded = {}
  /\ ready' = TRUE
  /\ retry' = "off"
  /\ UNCHANGED <<enforce, cloud, phase, parts, money, ledger, calls>>

(* The two pollers, from the start and whatever the gate. *)
PollBudgets ==
  /\ up
  /\ cloud_budgets' = CloudBudget
  /\ UNCHANGED <<enforce, cloud, startup, run_seed, replayed_unseeded, killed, ledger, calls>>

PollKills ==
  /\ up
  /\ killed' = killed \cup CloudKilled
  /\ UNCHANGED <<enforce, cloud, startup, run_seed, replayed_unseeded, cloud_budgets, ledger,
                 calls>>

-----------------------------------------------------------------------------
(***************************************************************************)
(* One call, from its arrival to its reservation.                          *)
(***************************************************************************)
Goes(c, at) == calls' = [calls EXCEPT ![c].at = at]

(* The parent it declares, and the budget it will open its run at. *)
Arrive(c, parent) ==
  /\ phase = "serve"
  /\ calls[c].at = "idle"
  /\ parent # calls[c].run
  /\ calls' = [calls EXCEPT ![c].at = "gate", ![c].parent = parent,
                            ![c].operator = calls[c].run \in cloud_budgets]
  /\ UNCHANGED <<enforce, cloud, startup, money, ledger>>

CheckGate(c) ==
  /\ calls[c].at = "gate"
  /\ Goes(c, IF ~ready /\ enforce THEN "refused"
             ELSE IF calls[c].parent = NoParent THEN "fresh" ELSE "parent")
  /\ UNCHANGED <<enforce, cloud, startup, money, ledger>>

(* A parent not opened here is opened at its Cloud budget on first sight.  *)
(* (One the replay recreated is given its Cloud budget too: Restart.)      *)
ReadParent(c) ==
  LET p == calls[c].parent
  IN  /\ calls[c].at = "parent"
      /\ Goes(c, IF p \notin known /\ p \in cloud_budgets THEN "parent_open" ELSE "fresh")
      /\ UNCHANGED <<enforce, cloud, startup, money, ledger>>

OpenParent(c) ==
  /\ calls[c].at = "parent_open"
  /\ known' = known \cup {calls[c].parent}
  /\ Goes(c, "parent_credit")
  /\ UNCHANGED <<enforce, cloud, startup, money, credited>>

CreditParent(c) ==
  /\ calls[c].at = "parent_credit"
  /\ take_run_seed(calls[c].parent)
  /\ Goes(c, "fresh")
  /\ UNCHANGED <<enforce, cloud, startup, replayed_unseeded, cloud_budgets, killed, known>>

ReadFresh(c) ==
  /\ calls[c].at = "fresh"
  /\ calls' = [calls EXCEPT ![c].at = "open", ![c].fresh = calls[c].run \notin known]
  /\ UNCHANGED <<enforce, cloud, startup, money, ledger>>

(* Opened, or refused for the parent it declares. *)
OpenRun(c) ==
  /\ calls[c].at = "open"
  /\ \/ /\ known' = known \cup {calls[c].run}
        /\ Goes(c, IF calls[c].fresh THEN "credit" ELSE "kill")
     \/ /\ calls[c].parent # NoParent /\ calls[c].run \in known
        /\ Goes(c, "refused")
        /\ UNCHANGED known
  /\ UNCHANGED <<enforce, cloud, startup, money, credited>>

credit_run_seed_if_any(c) ==
  /\ calls[c].at = "credit"
  /\ take_run_seed(calls[c].run)
  /\ Goes(c, "kill")
  /\ UNCHANGED <<enforce, cloud, startup, replayed_unseeded, cloud_budgets, killed, known>>

CheckKilled(c) ==
  /\ calls[c].at = "kill"
  /\ Goes(c, IF calls[c].run \in killed THEN "refused" ELSE "reserve")
  /\ UNCHANGED <<enforce, cloud, startup, money, ledger>>

Reserve(c) ==
  /\ calls[c].at = "reserve"
  /\ Goes(c, "admitted") \/ (enforce /\ Goes(c, "refused"))
  /\ UNCHANGED <<enforce, cloud, startup, money, ledger>>

-----------------------------------------------------------------------------
(* The gateway's start-up and its retry: one task. *)
SeedTask ==
  \/ SeedStartup \/ SeedStartupEnds \/ replay_at_startup
  \/ RetryWakes \/ RetryReads \/ RetryFails \/ RetryDone
  \/ \E run \in Runs : credit_late_seed(run)
  \/ open_now

CallStep(c) ==
  \/ \E parent \in Runs \cup {NoParent} : Arrive(c, parent)
  \/ CheckGate(c) \/ ReadParent(c) \/ OpenParent(c) \/ CreditParent(c) \/ ReadFresh(c) \/ OpenRun(c)
  \/ credit_run_seed_if_any(c) \/ CheckKilled(c) \/ Reserve(c)

SeedNext ==
  \/ GoDown \/ ComeUp
  \/ SeedTask
  \/ PollBudgets \/ PollKills
  \/ \E c \in Calls : CallStep(c)

(* The task runs: its waits are bounded by BACKOFF_MAX and SEED_TIMEOUT.   *)
(* And the control plane comes back, which is the environment's part.      *)
SeedSpec ==
  SeedInit /\ [][SeedNext]_svars /\ WF_svars(SeedTask) /\ WF_svars(ComeUp)

-----------------------------------------------------------------------------
(***************************************************************************)
(* Properties.                                                             *)
(***************************************************************************)
Admitted == {c \in Calls : calls[c].at = "admitted"}

(* Every field keeps its type. *)
SeedTypeOK ==
  /\ enforce \in BOOLEAN /\ up \in BOOLEAN /\ outages \in Nat
  /\ phase \in {"seed", "replay", "serve"}
  /\ retry \in {"off", "sleep", "ask", "credit"}
  /\ parts \in 0 .. Len(Parts)
  /\ ready \in BOOLEAN
  /\ run_seed \subseteq Runs /\ replayed_unseeded \subseteq Runs
  /\ cloud_budgets \subseteq Runs /\ killed \subseteq Runs /\ known \subseteq Runs
  /\ credited \in [Runs -> Nat]
  /\ calls \in [Calls -> CallState]

(* Whoever opens a run, and however many at once, a run's seed is credited *)
(* at most once (take_run_seed removes what it returns).                   *)
SeededOnce == \A r \in Runs : credited[r] =< 1

(* A call between an open it made and the credit that follows it. *)
Crediting(r) ==
  \E c \in Calls :
    \/ calls[c].at = "credit" /\ calls[c].run = r
    \/ calls[c].at = "parent_credit" /\ calls[c].parent = r

(* In enforce, once the gate is open, no run the ledger holds restarts     *)
(* from zero: its spend known to the Cloud is credited, or the call that   *)
(* opened it is about to, whether it was replayed before the seed arrived, *)
(* opened as a parent, or raced by another first call.                     *)
SeedNeverLost ==
  enforce /\ ready /\ phase = "serve" =>
    \A r \in known \cap (CloudSpend \ CloudKilled) : credited[r] = 1 \/ Crediting(r)

(* In enforce no call of a run the operator had killed is admitted,        *)
(* however the gate, the retry and the poller interleave with it.          *)
KilledNeverAdmitted ==
  enforce => \A c \in Admitted : calls[c].run \notin CloudKilled

(* The gate opens for good, and with everything read. *)
GateOpens == <>[](ready /\ complete /\ phase = "serve")

(* The seed, whole: credited once and never lost, and a run killed in the  *)
(* Cloud admitted never.                                                   *)
SeedHolds == SeededOnce /\ SeedNeverLost /\ KilledNeverAdmitted
=============================================================================
