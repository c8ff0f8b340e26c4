----------------------------- MODULE UnitLedger -----------------------------
(***************************************************************************)
(* The per-business-unit monthly ledger, crates/gateway/src/unitledger.rs, *)
(* with the calls that use it.                                             *)
(*                                                                         *)
(* Each operation takes its time (now_millis) as an argument its caller    *)
(* read from the clock, and try_reserve and reserve_unchecked read the cap *)
(* under another lock, both before the state lock is taken.  So a call is  *)
(* two steps here: one that reads the clock and the cap, one that runs     *)
(* under the state lock with what was read.  The clock may tick in         *)
(* between.  Month keys are numbers; 0 is "no entry yet".                  *)
(***************************************************************************)
EXTENDS Integers, FiniteSets

CONSTANTS
  Units,        \* business units
  Callers,      \* concurrent requests
  MaxMonth,     \* bound on the clock
  MaxMoney,     \* i64::MAX of Microusd
  Amounts,      \* estimates
  Costs,        \* settled costs and seeded figures
  Caps,         \* caps an override may set
  NoCap,        \* no cap in effect
  Base          \* UnitLedger.base: the map file's cap of a unit

Money == 0 .. MaxMoney
Months == 1 .. MaxMonth

ASSUME UnitMoneyAssumption == MaxMoney \in Nat /\ MaxMonth \in Nat \ {0}
ASSUME UnitInputsAssumption ==
  /\ Amounts \subseteq Money /\ Costs \subseteq Money /\ Caps \subseteq Money
  /\ NoCap \notin Money
  /\ Base \in Caps \cup {NoCap}
ASSUME UnitCallersAssumption == Units # {} /\ IsFiniteSet(Callers)

VARIABLES
  clock,       \* the UTC month
  overrides,   \* UnitLedger.overrides: unit -> cap or NoCap
  state,       \* UnitLedger.state: unit -> UnitState
  calls,       \* where each request is, with what it has read
  prompt       \* this behaviour has no month boundary between reading the
               \* clock and taking the lock

uvars == <<clock, overrides, state, calls, prompt>>

UnitState == [window : 0 .. MaxMonth, reserved : Money, spent : Money]

(* now: the clock as the call read it; window: of the reservation it holds. *)
Call ==
  [at : {"idle", "asking", "holding", "settling"}, unit : Units, amount : Money,
   cap : Money, now : Months, window : 0 .. MaxMonth]

SaturatingAdd(a, b) == IF a + b > MaxMoney THEN MaxMoney ELSE a + b

SaturatingSub(a, b) == IF a < b THEN 0 ELSE a - b

effective_cap(u) == IF overrides[u] # NoCap THEN overrides[u] ELSE Base

(* The entry as an operation that read month now finds it under the lock. *)
rolled(s, now) ==
  IF s.window = now THEN s ELSE [window |-> now, reserved |-> 0, spent |-> 0]

-----------------------------------------------------------------------------
UnitInit ==
  /\ clock = 1
  /\ overrides = [u \in Units |-> NoCap]
  /\ state = [u \in Units |-> [window |-> 0, reserved |-> 0, spent |-> 0]]
  /\ calls = [c \in Callers |->
       [at |-> "idle", unit |-> CHOOSE u \in Units : TRUE, amount |-> 0, cap |-> 0,
        now |-> 1, window |-> 0]]
  /\ prompt \in BOOLEAN

Tick ==
  /\ clock < MaxMonth
  /\ prompt => \A c \in Callers : calls[c].at \notin {"asking", "settling"}
  /\ clock' = clock + 1
  /\ UNCHANGED <<overrides, state, calls, prompt>>

(* set_overrides replaces the whole map. *)
set_overrides(caps) ==
  /\ overrides' = caps
  /\ UNCHANGED <<clock, state, calls, prompt>>

(* A request reads the clock and the cap; without a cap nothing is         *)
(* accounted and there is nothing to settle.                               *)
Ask(c, u, estimate) ==
  /\ calls[c].at = "idle"
  /\ effective_cap(u) # NoCap
  /\ calls' = [calls EXCEPT ![c] =
       [at |-> "asking", unit |-> u, amount |-> estimate, cap |-> effective_cap(u),
        now |-> clock, window |-> 0]]
  /\ UNCHANGED <<clock, overrides, state, prompt>>

Fits(s, estimate, cap) ==
  LET would == s.spent + s.reserved + estimate
  IN  would =< MaxMoney /\ would =< cap

Granted(c, s) ==
  /\ state' = [state EXCEPT ![calls[c].unit] =
       [s EXCEPT !.reserved = SaturatingAdd(@, calls[c].amount)]]
  /\ calls' = [calls EXCEPT ![c].at = "holding", ![c].window = calls[c].now]

(* Enforce.  A refusal reserves nothing, but it has rolled the window. *)
try_reserve(c) ==
  LET s == rolled(state[calls[c].unit], calls[c].now)
  IN  /\ calls[c].at = "asking"
      /\ \/ /\ Fits(s, calls[c].amount, calls[c].cap)
            /\ Granted(c, s)
         \/ /\ ~Fits(s, calls[c].amount, calls[c].cap)
            /\ state' = [state EXCEPT ![calls[c].unit] = s]
            /\ calls' = [calls EXCEPT ![c].at = "idle"]
      /\ UNCHANGED <<clock, overrides, prompt>>

(* Shadow and warn. *)
reserve_unchecked(c) ==
  /\ calls[c].at = "asking"
  /\ Granted(c, rolled(state[calls[c].unit], calls[c].now))
  /\ UNCHANGED <<clock, overrides, prompt>>

(* The call ended and reads the clock to settle. *)
AskSettle(c) ==
  /\ calls[c].at = "holding"
  /\ calls' = [calls EXCEPT ![c].at = "settling", ![c].now = clock]
  /\ UNCHANGED <<clock, overrides, state, prompt>>

(* Mutant: a settlement for a past window is applied to the current one. *)
settle_any_window(c, actual) ==
  LET call == calls[c]
      s == state[call.unit]
  IN  /\ call.at = "settling"
      /\ state' = [state EXCEPT ![call.unit] =
                     [s EXCEPT !.reserved = SaturatingSub(@, call.amount),
                               !.spent = SaturatingAdd(@, actual)]]
      /\ calls' = [calls EXCEPT ![c].at = "idle"]
      /\ UNCHANGED <<clock, overrides, prompt>>

settle(c, actual) ==
  LET call == calls[c]
      s == state[call.unit]
  IN  /\ call.at = "settling"
      /\ state' = IF call.window = call.now /\ s.window = call.window
                  THEN [state EXCEPT ![call.unit] =
                          [s EXCEPT !.reserved = SaturatingSub(@, call.amount),
                                    !.spent = SaturatingAdd(@, actual)]]
                  ELSE state
      /\ calls' = [calls EXCEPT ![c].at = "idle"]
      /\ UNCHANGED <<clock, overrides, prompt>>

(* Mutant: the seed replaces what is already counted. *)
seed_month_replacing(u, spent, now) ==
  /\ state' = [state EXCEPT ![u] = [rolled(state[u], now) EXCEPT !.spent = spent]]
  /\ UNCHANGED <<clock, overrides, calls, prompt>>

(* The control plane's month-to-date, applied while the unit has no settled *)
(* spend.  A row of another month touches nothing; a row that finds spend  *)
(* (AlreadyCounting) has still rolled the window.                          *)
seed_month(u, spent, now) ==
  LET s == rolled(state[u], now)
  IN  /\ state' = [state EXCEPT ![u] = IF s.spent # 0 THEN s ELSE [s EXCEPT !.spent = spent]]
      /\ UNCHANGED <<clock, overrides, calls, prompt>>

(* A retained reservation of the process that died, handed to a request    *)
(* that will settle it; one of a past window is put back on nothing.       *)
restore(c, u, amount, window) ==
  LET s == rolled(state[u], clock)
  IN  /\ calls[c].at = "idle"
      /\ state' = IF window = clock
                  THEN [state EXCEPT ![u] =
                          [s EXCEPT !.reserved = SaturatingAdd(@, amount)]]
                  ELSE state
      /\ calls' = [calls EXCEPT ![c] =
           [at |-> "holding", unit |-> u, amount |-> amount, cap |-> 0,
            now |-> clock, window |-> window]]
      /\ UNCHANGED <<clock, overrides, prompt>>

(* A seed attempt reads the clock, then waits for the control plane. *)
SeedTimes == IF prompt THEN {clock} ELSE 1 .. clock

UnitNext ==
  \/ Tick
  \/ \E caps \in [Units -> Caps \cup {NoCap}] : set_overrides(caps)
  \/ \E c \in Callers, u \in Units, estimate \in Amounts : Ask(c, u, estimate)
  \/ \E c \in Callers : try_reserve(c) \/ reserve_unchecked(c) \/ AskSettle(c)
  \/ \E c \in Callers, actual \in Costs : settle(c, actual)
  \/ \E u \in Units, spent \in Costs, now \in SeedTimes : seed_month(u, spent, now)
  \/ \E c \in Callers, u \in Units, amount \in Amounts, window \in 1 .. clock :
       restore(c, u, amount, window)

UnitSpec == UnitInit /\ [][UnitNext]_uvars
-----------------------------------------------------------------------------
(* The callers whose reservation counts on the unit's current window. *)
Holders(u) ==
  {c \in Callers : /\ calls[c].at \in {"holding", "settling"}
                   /\ calls[c].unit = u
                   /\ calls[c].window = state[u].window}

(* A sum of amounts as a number of tokens, one per caller and micro-dollar. *)
Outstanding(u) == Cardinality(UNION {{c} \X (1 .. calls[c].amount) : c \in Holders(u)})

(* Every field keeps its type: the counters saturate inside i64. *)
UnitTypeOK ==
  /\ clock \in Months
  /\ overrides \in [Units -> Caps \cup {NoCap}]
  /\ state \in [Units -> UnitState]
  /\ calls \in [Callers -> Call]
  /\ prompt \in BOOLEAN

(* In the current month a unit never holds more reserved than the          *)
(* reservations of that month add up to: no call that is late, dropped or  *)
(* read the clock before a boundary leaves part of the cap unusable.       *)
UnitReservedCovered ==
  \A u \in Units : state[u].window = clock => state[u].reserved =< Outstanding(u)

(* When no boundary falls between reading the clock and the lock, a unit   *)
(* in the current month holds exactly that sum (on instances whose         *)
(* estimates cannot add up past i64::MAX): a settlement of last month      *)
(* never releases this month's reservations.                               *)
UnitReservedExact ==
  prompt =>
    \A u \in Units : state[u].window = clock => state[u].reserved = Outstanding(u)

(* And then, within a month, a unit's spend is never forgotten: only the   *)
(* first operation that observes a new month resets the counters, and a    *)
(* seed that arrives late replaces no spend already counted.               *)
UnitSpendKept ==
  [][prompt => \A u \in Units :
       \/ state'[u].window > state[u].window
       \/ state'[u].window = state[u].window /\ state'[u].spent >= state[u].spent]_uvars
=============================================================================
