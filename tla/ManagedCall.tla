---------------------------- MODULE ManagedCall ----------------------------
(***************************************************************************)
(* A managed call from its arrival to its answer: proxy::handle_call after *)
(* the run is open, stream_managed, buffered_managed, and the SettleGuard  *)
(* that owns the call's two reservations.                                  *)
(*                                                                         *)
(* A step is what a call does between two touches of state that other      *)
(* calls share.  A caller may leave at every await that really waits: the  *)
(* policy service, the provider's answer, the body.  The run's entry and   *)
(* the unit's are a reserved and a spent amount here; their own rules are  *)
(* Ledger's and UnitLedger's.                                              *)
(***************************************************************************)
EXTENDS Integers, Sequences, FiniteSets

CONSTANTS
  Calls,
  Runs,
  Parent,        \* run -> the run it rolls up into, or NoRun
  NoRun,
  Configs,       \* the gateway's modes: [mode, firewall, dlp, dlp_pii, cache, wardryx]
  Requests,      \* what a caller sends: [stream, found, key, history]
  NoKey,         \* a request the cache may not serve
  Answers,       \* what the provider answers: [ok, searched, tools, usage, cost]
  LabelsOf,      \* tool -> the labels its output carries
  Denied,        \* the <<label, tool>> pairs some firewall rule denies
  Web,           \* the label of what the provider's own search read
  Estimate,      \* what a call reserves
  Capped,        \* what partial usage costs with the output at its cap
  RunBudget, UnitCap, MaxSteps

ASSUME CallAssumption ==
  /\ IsFiniteSet(Calls)
  /\ {Estimate, Capped, RunBudget, UnitCap, MaxSteps} \subseteq Nat
  /\ Parent \in [Runs -> Runs \cup {NoRun}]
  /\ \A a \in Answers : a.cost \in Nat /\ a.tools \subseteq DOMAIN LabelsOf
  /\ \A q \in Requests : q.history \subseteq DOMAIN LabelsOf

VARIABLES
  config,        \* chosen at the start, never written
  call,          \* call -> where it is and what its guard holds
  rows,          \* call -> the rows it has handed to the sink
  delivered,     \* call -> what of the answer its caller has
  provider,      \* call -> whether the provider got the request
  ledger,        \* run -> [reserved, spent, steps]
  unit,          \* [reserved, spent] of the unit every call bills
  retained,      \* calls whose reservations are kept, outcome unknown
  taint,         \* run -> labels it carries
  cache,         \* key -> the call whose answer is stored, or NoKey
  killed         \* runs an operator has killed

callvars == <<config, call, rows, delivered, provider, ledger, unit, retained, taint, cache, killed>>
money == <<ledger, unit, retained>>

Stages == {"new", "kill", "dlp", "cache", "policy", "pdp", "unit", "run", "taint",
           "sent", "body", "judge", "ended"}

CallOutcome == {"NotDispatched", "Unknown", "NotSent", "Refused", "Started"}

NoAnswer == [ok |-> FALSE, searched |-> FALSE, tools |-> {}, usage |-> "none", cost |-> 0]
NoRequest == [stream |-> FALSE, found |-> "none", key |-> NoKey, history |-> {}]

Keys == {r.key : r \in Requests} \ {NoKey}
Enforce == config.mode = "enforce"

CallInit ==
  /\ config \in Configs
  /\ call = [c \in Calls |-> [at |-> "new", run |-> NoRun, req |-> NoRequest,
                              state |-> "NotDispatched", holds_run |-> FALSE, holds_unit |-> FALSE,
                              labels |-> {}, answer |-> NoAnswer, seen |-> FALSE]]
  /\ rows = [c \in Calls |-> <<>>]
  /\ delivered = [c \in Calls |-> {}]
  /\ provider = [c \in Calls |-> "none"]
  /\ ledger = [r \in Runs |-> [reserved |-> 0, spent |-> 0, steps |-> 0]]
  /\ unit = [reserved |-> 0, spent |-> 0]
  /\ retained = {}
  /\ taint = [r \in Runs |-> {}]
  /\ cache = [k \in Keys |-> NoKey]
  /\ killed = {}

-----------------------------------------------------------------------------
At(c, stage) == call[c].at = stage
Go(c, stage) == call' = [call EXCEPT ![c].at = stage]

(* A gate that stops the call: one row, and the handler returns. *)
Refuse(c, decision, cost) ==
  /\ Go(c, "ended")
  /\ rows' = [rows EXCEPT ![c] = Append(@, [decision |-> decision, cost |-> cost])]

Arrive(c, run, req) ==
  /\ At(c, "new")
  /\ call' = [call EXCEPT ![c].at = "kill", ![c].run = run, ![c].req = req]
  /\ UNCHANGED <<config, rows, delivered, provider, money, taint, cache, killed>>

Kill(run) ==
  /\ run \notin killed
  /\ killed' = killed \cup {run}
  /\ UNCHANGED <<config, call, rows, delivered, provider, money, taint, cache>>

CheckKilled(c) ==
  /\ At(c, "kill")
  /\ IF call[c].run \in killed
     THEN Refuse(c, "killed", Estimate)
     ELSE Go(c, "dlp") /\ UNCHANGED rows
  /\ UNCHANGED <<config, delivered, provider, money, taint, cache, killed>>

(* A secret in the prompt is blocked with a row, personal data without     *)
(* one; masked or only found, it goes on.                                  *)
ScanPrompt(c) ==
  LET found == call[c].req.found
  IN  /\ At(c, "dlp")
      /\ CASE found = "secret" /\ config.dlp = "block" -> Refuse(c, "dlp_blocked", 0)
           [] found = "pii" /\ config.dlp_pii = "block" -> Go(c, "ended") /\ UNCHANGED rows
           [] OTHER -> Go(c, "cache") /\ UNCHANGED rows
      /\ UNCHANGED <<config, delivered, provider, money, taint, cache, killed>>

(* A hit in on mode is the answer; in shadow it is a note. *)
LookupCache(c) ==
  LET key == call[c].req.key
  IN  /\ At(c, "cache")
      /\ IF key # NoKey /\ ~call[c].req.stream /\ config.cache = "on" /\ cache[key] # NoKey
         THEN /\ Refuse(c, "cache_hit", 0)
              /\ delivered' = [delivered EXCEPT ![c] = {"cached"}]
         ELSE Go(c, "policy") /\ UNCHANGED <<rows, delivered>>
      /\ UNCHANGED <<config, provider, money, taint, cache, killed>>

(* In enforce a run at its last step is refused, then one whose history    *)
(* loops.                                                                  *)
EnforceVerdict(run, loops) ==
  CASE ~Enforce -> "allow"
    [] Enforce /\ ledger[run].steps >= MaxSteps -> "policy_violation"
    [] OTHER -> IF loops THEN "loop_detected" ELSE "allow"

(* A loaded wasm policy refuses in every mode. *)
WasmVerdict(wasm) == IF wasm THEN "wasm_policy" ELSE "allow"

EvaluatePolicy(c, loops, wasm) ==
  LET first == EnforceVerdict(call[c].run, loops)
      decision == IF first # "allow" THEN first ELSE WasmVerdict(wasm)
  IN  /\ At(c, "policy")
      /\ IF decision = "allow" THEN Go(c, "pdp") /\ UNCHANGED rows ELSE Refuse(c, decision, Estimate)
      /\ UNCHANGED <<config, delivered, provider, money, taint, cache, killed>>

WithheldBy == [deny |-> "wardryx_deny", hold |-> "wardryx_hold"]

(* The policy service answers; an answer that never comes is the          *)
(* operator's fail mode.  Shadow only notes it.                           *)
AskWardryx(c, decision) ==
  /\ At(c, "pdp")
  /\ config.wardryx = "off" => decision = "allow"
  /\ IF config.wardryx = "enforce" /\ decision # "allow"
     THEN Refuse(c, WithheldBy[decision], 0)
     ELSE Go(c, "unit") /\ UNCHANGED rows
  /\ UNCHANGED <<config, delivered, provider, money, taint, cache, killed>>

-----------------------------------------------------------------------------
(* The two reservations.  The guard exists from the unit's half on. *)
UnitGate(c) ==
  /\ At(c, "unit")
  /\ IF Enforce /\ unit.reserved + unit.spent + Estimate > UnitCap
     THEN Refuse(c, "unit_budget_exceeded", Estimate) /\ UNCHANGED unit
     ELSE /\ call' = [call EXCEPT ![c].at = "run", ![c].holds_unit = TRUE]
          /\ unit' = [unit EXCEPT !.reserved = @ + Estimate]
          /\ UNCHANGED rows
  /\ UNCHANGED <<config, delivered, provider, ledger, retained, taint, cache, killed>>

Exceeds(run) == ledger[run].reserved + ledger[run].spent + Estimate > RunBudget

(* A refusal drops the guard, which releases the unit's half. *)
RunGate(c) ==
  LET run == call[c].run
  IN  /\ At(c, "run")
      /\ IF Enforce /\ Exceeds(run)
         THEN /\ call' = [call EXCEPT ![c].at = "ended", ![c].holds_unit = FALSE]
              /\ rows' = [rows EXCEPT ![c] =
                            Append(@, [decision |-> "budget_exceeded", cost |-> Estimate])]
              /\ unit' = [unit EXCEPT !.reserved = @ - Estimate]
              /\ UNCHANGED ledger
         ELSE /\ call' = [call EXCEPT ![c].at = "taint", ![c].holds_run = TRUE]
              /\ ledger' = [ledger EXCEPT ![run].reserved = @ + Estimate, ![run].steps = @ + 1]
              /\ UNCHANGED <<rows, unit>>
      /\ UNCHANGED <<config, delivered, provider, retained, taint, cache, killed>>

Labels(tools) == UNION {LabelsOf[t] : t \in tools}

Inherited(run) == IF Parent[run] = NoRun THEN {} ELSE taint[Parent[run]]

(* The request's labels join the run's, and the call is judged with what   *)
(* the run then carries.  The next line is dispatching().                  *)
RaiseTaint(c) ==
  LET run == call[c].run
      labels == Labels(call[c].req.history) \cup Inherited(run)
  IN  /\ At(c, "taint")
      /\ taint' = IF config.firewall = "off" THEN taint ELSE [taint EXCEPT ![run] = @ \cup labels]
      /\ call' = [call EXCEPT ![c].at = "sent", ![c].state = "Unknown",
                              ![c].labels = taint'[run]]
      /\ UNCHANGED <<config, rows, delivered, provider, money, cache, killed>>

-----------------------------------------------------------------------------
(* The guard's terminal transition, for a call in the given state.         *)
disposition(state) ==
  CASE state \in {"NotDispatched", "NotSent"} -> "Release"
    [] state = "Unknown" -> "Retain"
    [] OTHER -> "Charge"

(* What an answered call is charged, from the usage the body carried. *)
settle_amount(c, usage) ==
  LET unmeasured == IF call[c].state = "Started" THEN Estimate ELSE 0
  IN  CASE usage \in {"truncated", "none"} -> unmeasured
        [] usage = "partial" /\ call[c].state = "Started" -> Capped
        [] OTHER -> call[c].answer.cost

SettleBoth(c, actual) ==
  /\ ledger' = [ledger EXCEPT ![call[c].run].reserved = @ - Estimate, ![call[c].run].spent = @ + actual]
  /\ unit' = [reserved |-> unit.reserved - Estimate, spent |-> unit.spent + actual]

(* Mutant: the row is left out when the body did not complete. *)
settle_now_rowless(c, stage, state, usage) ==
  /\ call' = [call EXCEPT ![c].at = stage, ![c].state = state,
                          ![c].holds_run = FALSE, ![c].holds_unit = FALSE]
  /\ CASE disposition(state) = "Release" ->
            SettleBoth(c, 0) /\ UNCHANGED <<rows, retained>>
       [] disposition(state) = "Retain" ->
            retained' = retained \cup {c} /\ UNCHANGED <<ledger, unit, rows>>
       [] OTHER ->
            /\ SettleBoth(c, settle_amount(c, usage))
            /\ rows' = IF usage # "full" THEN rows ELSE [rows EXCEPT ![c] =
                          Append(@, [decision |-> "allow", cost |-> settle_amount(c, usage)])]
            /\ UNCHANGED retained

(* settle_now, complete and Drop: both halves are taken, once. *)
settle_now(c, stage, state, usage) ==
  /\ call' = [call EXCEPT ![c].at = stage, ![c].state = state,
                          ![c].holds_run = FALSE, ![c].holds_unit = FALSE]
  /\ CASE disposition(state) = "Release" ->
            SettleBoth(c, 0) /\ UNCHANGED <<rows, retained>>
       [] disposition(state) = "Retain" ->
            retained' = retained \cup {c} /\ UNCHANGED <<ledger, unit, rows>>
       [] OTHER ->
            /\ SettleBoth(c, settle_amount(c, usage))
            /\ rows' = [rows EXCEPT ![c] =
                          Append(@, [decision |-> "allow", cost |-> settle_amount(c, usage)])]
            /\ UNCHANGED retained

(* The provider, external: it gets the request at some time, or never. *)
ProviderReceives(c) ==
  /\ At(c, "sent") /\ provider[c] = "none"
  /\ provider' = [provider EXCEPT ![c] = "has"]
  /\ UNCHANGED <<config, call, rows, delivered, money, taint, cache, killed>>

(* send() ends in an error: never connected, or broken afterwards. *)
SendFails(c) ==
  /\ At(c, "sent")
  /\ \/ provider[c] = "none" /\ settle_now(c, "ended", "NotSent", "none")
     \/ settle_now(c, "ended", "Unknown", "none")
  /\ UNCHANGED <<config, delivered, provider, taint, cache, killed>>

SendAnswers(c, answer) ==
  /\ At(c, "sent") /\ provider[c] = "has"
  /\ call' = [call EXCEPT ![c].at = "body", ![c].answer = answer,
                          ![c].state = IF answer.ok THEN "Started" ELSE "Refused"]
  /\ UNCHANGED <<config, rows, delivered, provider, money, taint, cache, killed>>

(* The caller leaves: the future is dropped, and the guard with it. *)
Cancel(c) ==
  /\ \/ At(c, "pdp") /\ config.wardryx # "off" /\ Go(c, "ended") /\ UNCHANGED <<rows, money>>
     \/ At(c, "sent") /\ settle_now(c, "ended", call[c].state, "none")
     \/ /\ At(c, "body")
        /\ \E usage \in {"none", "partial"} : settle_now(c, "ended", call[c].state, usage)
  /\ UNCHANGED <<config, delivered, provider, taint, cache, killed>>

(* The body breaks before its end, buffered or streamed. *)
BodyBreaks(c) ==
  /\ At(c, "body")
  /\ \E usage \in {"none", "partial"} : settle_now(c, "ended", call[c].state, usage)
  /\ UNCHANGED <<config, delivered, provider, taint, cache, killed>>

Holds(c) == config.firewall # "off" /\ call[c].answer.ok

(* Mutant: the provider's tools are read at the end of the stream only. *)
StreamChunk_unread(c) ==
  /\ At(c, "body") /\ call[c].req.stream /\ ~call[c].seen
  /\ call' = [call EXCEPT ![c].seen = TRUE]
  /\ delivered' = [delivered EXCEPT ![c] = IF Holds(c) THEN {"text"} ELSE {"text", "tools"}]
  /\ UNCHANGED <<config, rows, provider, money, taint, cache, killed>>

(* The text of a streamed answer goes out, its tool calls held when the    *)
(* firewall is on; what the provider's own search read is recorded first.  *)
StreamChunk(c) ==
  LET run == call[c].run
      read == IF Holds(c) /\ call[c].answer.searched THEN {Web} ELSE {}
  IN  /\ At(c, "body") /\ call[c].req.stream /\ ~call[c].seen
      /\ taint' = [taint EXCEPT ![run] = @ \cup read]
      /\ call' = [call EXCEPT ![c].seen = TRUE,
                              ![c].labels = IF read = {} THEN @ ELSE @ \cup taint'[run]]
      /\ delivered' = [delivered EXCEPT ![c] = IF Holds(c) THEN {"text"} ELSE {"text", "tools"}]
      /\ UNCHANGED <<config, rows, provider, money, cache, killed>>

(* The whole body is there: settled first, judged afterwards. *)
BodyEnds(c) ==
  /\ At(c, "body") /\ (call[c].req.stream => call[c].seen)
  /\ settle_now(c, "judge", call[c].state, call[c].answer.usage)
  /\ UNCHANGED <<config, delivered, provider, taint, cache, killed>>

Denies(labels, tools) == \E l \in labels, t \in tools : <<l, t>> \in Denied

Judged(c) == config.firewall # "off" /\ (call[c].req.stream => call[c].answer.ok)

(* Mutant: the answer is stored before it is judged. *)
judge_model_tool_calls_storing(c) ==
  LET run == call[c].run
      answer == call[c].answer
      read == IF answer.searched /\ ~call[c].seen THEN {Web} ELSE {}
      labels == IF read = {} THEN call[c].labels ELSE call[c].labels \cup taint[run] \cup read
      blocked == Judged(c) /\ config.firewall = "enforce" /\ Denies(labels, answer.tools)
  IN  /\ At(c, "judge")
      /\ Go(c, "ended")
      /\ taint' = IF ~Judged(c) THEN taint
                  ELSE [taint EXCEPT ![run] = @ \cup read \cup
                                                IF blocked THEN {} ELSE Labels(answer.tools)]
      /\ IF blocked
         THEN /\ rows' = [rows EXCEPT ![c] = Append(@, [decision |-> "taint_blocked", cost |-> 0])]
              /\ UNCHANGED delivered
         ELSE /\ delivered' = [delivered EXCEPT ![c] = {"text", "tools"}]
              /\ UNCHANGED rows
      /\ cache' = IF answer.ok /\ call[c].req.key # NoKey
                  THEN [cache EXCEPT ![call[c].req.key] = c] ELSE cache
      /\ UNCHANGED <<config, provider, money, killed>>

(* judge_model_tool_calls, then the answer is served and stored.  A call   *)
(* that is not refused leaves the labels its tools will bring.             *)
judge_model_tool_calls(c) ==
  LET run == call[c].run
      answer == call[c].answer
      read == IF answer.searched /\ ~call[c].seen THEN {Web} ELSE {}
      labels == IF read = {} THEN call[c].labels ELSE call[c].labels \cup taint[run] \cup read
      blocked == Judged(c) /\ config.firewall = "enforce" /\ Denies(labels, answer.tools)
  IN  /\ At(c, "judge")
      /\ Go(c, "ended")
      /\ taint' = IF ~Judged(c) THEN taint
                  ELSE [taint EXCEPT ![run] = @ \cup read \cup
                                                IF blocked THEN {} ELSE Labels(answer.tools)]
      /\ IF blocked
         THEN /\ rows' = [rows EXCEPT ![c] = Append(@, [decision |-> "taint_blocked", cost |-> 0])]
              /\ UNCHANGED <<delivered, cache>>
         ELSE /\ delivered' = [delivered EXCEPT ![c] = {"text", "tools"}]
              /\ cache' = IF answer.ok /\ call[c].req.key # NoKey /\ ~call[c].req.stream
                             /\ config.cache # "off"
                          THEN [cache EXCEPT ![call[c].req.key] = c] ELSE cache
              /\ UNCHANGED rows
      /\ UNCHANGED <<config, provider, money, killed>>

-----------------------------------------------------------------------------
CallNext ==
  \/ \E run \in Runs : Kill(run)
  \/ \E c \in Calls :
       \/ \E run \in Runs, req \in Requests : Arrive(c, run, req)
       \/ CheckKilled(c) \/ ScanPrompt(c) \/ LookupCache(c)
       \/ \E loops, wasm \in BOOLEAN : EvaluatePolicy(c, loops, wasm)
       \/ \E decision \in {"allow", "deny", "hold"} : AskWardryx(c, decision)
       \/ UnitGate(c) \/ RunGate(c) \/ RaiseTaint(c)
       \/ ProviderReceives(c) \/ SendFails(c)
       \/ \E answer \in Answers : SendAnswers(c, answer)
       \/ Cancel(c) \/ BodyBreaks(c) \/ StreamChunk(c) \/ BodyEnds(c)
       \/ judge_model_tool_calls(c)

CallSpec == CallInit /\ [][CallNext]_callvars
-----------------------------------------------------------------------------
(* Every call is at a stage of the handler, with a guard in a state of     *)
(* CallOutcome, and nobody is ever owed a negative amount.                 *)
CallTypeOK ==
  /\ config \in Configs
  /\ \A c \in Calls : call[c].at \in Stages /\ call[c].state \in CallOutcome
  /\ \A r \in Runs : ledger[r].reserved >= 0 /\ ledger[r].spent >= 0
  /\ unit.reserved >= 0 /\ unit.spent >= 0

UnderWay(c) == call[c].at # "ended"
RunHolders(r) == {c \in Calls : call[c].run = r /\ ((UnderWay(c) /\ call[c].holds_run) \/ c \in retained)}

(* Invariant 50, "one owner": whatever gate refuses, whenever the caller   *)
(* leaves and however the answer ends, what is reserved on the run and on  *)
(* the unit is what the guards under way and the retained calls hold.      *)
NothingLeaks ==
  /\ \A r \in Runs : ledger[r].reserved = Estimate * Cardinality(RunHolders(r))
  /\ unit.reserved =
       Estimate * Cardinality({c \in Calls : (UnderWay(c) /\ call[c].holds_unit) \/ c \in retained})

Allowed(c) == {i \in DOMAIN rows[c] : rows[c][i].decision = "allow"}

(* One element for every micro-dollar the allow rows of those calls carry. *)
MicrosOf(c) == UNION {{i} \X (1 .. rows[c][i].cost) : i \in Allowed(c)}
Traced(calls) == UNION {{c} \X MicrosOf(c) : c \in calls}

CallsOf(r) == {c \in Calls : call[c].run = r}

(* The trace and the ledgers agree: a run's spend, and the unit's, are     *)
(* what the allow rows of its calls cost, with no row twice and none       *)
(* missing.  Rows of refused calls carry what was avoided.                 *)
TraceMatchesSpend ==
  /\ \A r \in Runs : ledger[r].spent = Cardinality(Traced(CallsOf(r)))
  /\ unit.spent = Cardinality(Traced(Calls))

(* A call the provider got is charged or kept outstanding, never released: *)
(* nothing the provider may bill is missing from both.                     *)
ReceivedIsAccounted ==
  \A c \in Calls :
    provider[c] = "has" /\ call[c].at = "ended" =>
      c \in retained \/ \E i \in DOMAIN rows[c] : rows[c][i].decision = "allow"

(* Enforce withholds: the tool calls a caller has were allowed by every    *)
(* label its run carried when the request was sent, and by what the        *)
(* provider read for this very answer.                                     *)
DeliveredWasAllowed ==
  \A c \in Calls :
    config.firewall = "enforce" /\ "tools" \in delivered[c] /\ call[c].answer.ok =>
      ~Denies(call[c].labels \cup (IF call[c].answer.searched THEN {Web} ELSE {}),
              call[c].answer.tools)

(* "a label read there would be a label that client chose to avoid": what  *)
(* a caller has seen of an answer is on its run already, also when it then *)
(* closes the connection.                                                  *)
SeenIsRemembered ==
  \A c \in Calls :
    config.firewall # "off" /\ call[c].answer.ok =>
      /\ "text" \in delivered[c] /\ call[c].answer.searched => Web \in taint[call[c].run]
      /\ "tools" \in delivered[c] => Labels(call[c].answer.tools) \subseteq taint[call[c].run]

(* A child's call is judged with everything its parent carried by then:    *)
(* opening a sub-run does not shed a label.                                *)
ChildCarriesParent ==
  \A c \in Calls :
    call[c].at = "taint" /\ call'[c].at = "sent" /\ config.firewall # "off" =>
      Inherited(call[c].run) \cup taint[call[c].run] \subseteq call'[c].labels

(* The cache serves only answers that were served: never one the firewall  *)
(* withheld, a refusal of the provider or a body that broke.               *)
CachedWasServed ==
  \A k \in Keys : cache[k] # NoKey =>
    LET c == cache[k]
    IN  call[c].answer.ok /\ "tools" \in delivered[c] /\ ~call[c].req.stream

(* The money of a call, whole: nothing leaks, the trace and the ledgers    *)
(* agree, and what the provider received is charged or kept outstanding.   *)
CallAccounted == NothingLeaks /\ TraceMatchesSpend /\ ReceivedIsAccounted

(* The firewall of a call, whole: what is delivered was allowed, what was  *)
(* seen is on the run, the cache gives out nothing that was withheld, and  *)
(* a call is sent with all its parent carries.                             *)
FirewallHolds ==
  /\ [](DeliveredWasAllowed /\ SeenIsRemembered /\ CachedWasServed)
  /\ [][ChildCarriesParent]_callvars
=============================================================================
