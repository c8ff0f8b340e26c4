----------------------------- MODULE CallProofs -----------------------------
(***************************************************************************)
(* Proofs about a call, what it spends on and what it leaves behind:       *)
(* ManagedCall, for any calls, runs, requests, answers, modes and limits;  *)
(* TraceSink, for any gateways, rows, failures and deaths; UnitLedger, for *)
(* any units, requests, caps and months.                                   *)
(***************************************************************************)
EXTENDS ManagedCall, TraceSink, UnitLedger, FiniteSetTheorems, TLAPS

-----------------------------------------------------------------------------
AllLabels == (UNION {LabelsOf[t] : t \in DOMAIN LabelsOf}) \cup {Web}

CallRecord ==
  [at : Stages, run : Runs \cup {NoRun}, req : Requests \cup {NoRequest}, state : CallOutcome,
   holds_run : BOOLEAN, holds_unit : BOOLEAN, labels : SUBSET AllLabels,
   answer : Answers \cup {NoAnswer}, seen : BOOLEAN]

Decisions ==
  {"allow", "killed", "dlp_blocked", "cache_hit", "policy_violation", "loop_detected", "wasm_policy",
   "wardryx_deny", "wardryx_hold", "unit_budget_exceeded", "budget_exceeded", "taint_blocked"}

Row == [decision : Decisions, cost : Nat]

CallTypes ==
  /\ config \in Configs
  /\ call \in [Calls -> CallRecord]
  /\ rows \in [Calls -> Seq(Row)]
  /\ delivered \in [Calls -> SUBSET {"text", "tools", "cached"}]
  /\ provider \in [Calls -> {"none", "has"}]
  /\ ledger \in [Runs -> [reserved : Int, spent : Nat, steps : Nat]]
  /\ unit \in [reserved : Int, spent : Nat]
  /\ retained \subseteq Calls
  /\ taint \in [Runs -> SUBSET AllLabels]
  /\ cache \in [Keys -> Calls \cup {NoKey}]

Asking == {"new", "kill", "dlp", "cache", "policy", "pdp", "unit"}
Reserved == {"run", "taint", "sent", "body"}
Unanswered == Asking \cup {"run", "taint", "sent"}

(* The guard of a call, by its stage: what it holds, what has been written *)
(* of it, and what the provider can have got.                              *)
Guarded(c) ==
  /\ call[c].at # "new" => call[c].run \in Runs
  /\ call[c].holds_unit <=> call[c].at \in Reserved
  /\ call[c].holds_run <=> call[c].at \in Reserved \ {"run"}
  /\ call[c].at \in Asking \cup Reserved => rows[c] = <<>>
  /\ call[c].at # "ended" => c \notin retained
  /\ call[c].at = "sent" => call[c].state = "Unknown"
  /\ call[c].at = "body" => call[c].state \in {"Started", "Refused"}
  /\ provider[c] = "has" => call[c].at \notin Asking \cup {"run", "taint"}
  /\ call[c].at = "judge" \/ (call[c].at = "ended" /\ provider[c] = "has") =>
       c \in retained \/ \E i \in DOMAIN rows[c] : rows[c][i].decision = "allow"

(* What a caller has of an answer, by the stage of its call: nothing       *)
(* before there is one, no tool call before it is judged, and what the     *)
(* provider's search read only once that is on the run and in the judging. *)
Shown(c) ==
  /\ call[c].at \in Unanswered => delivered[c] = {} /\ call[c].answer = NoAnswer /\ ~call[c].seen
  /\ config.firewall # "off" /\ call[c].answer.ok =>
       /\ call[c].at \in {"body", "judge"} => "tools" \notin delivered[c]
       /\ call[c].at \in {"body", "judge"} /\ call[c].seen /\ call[c].answer.searched =>
            Web \in call[c].labels \cap taint[call[c].run]
       /\ call[c].at = "body" /\ "text" \in delivered[c] => call[c].seen
       /\ "text" \in delivered[c] /\ call[c].answer.searched => Web \in taint[call[c].run]
       /\ "tools" \in delivered[c] => Labels(call[c].answer.tools) \subseteq taint[call[c].run]
       /\ config.firewall = "enforce" /\ "tools" \in delivered[c] =>
            ~Denies(call[c].labels \cup (IF call[c].answer.searched THEN {Web} ELSE {}),
                    call[c].answer.tools)

(* What the cache holds has been served. *)
Cached(k) ==
  cache[k] # NoKey =>
    /\ call[cache[k]].at = "ended" /\ call[cache[k]].answer.ok
    /\ "tools" \in delivered[cache[k]] /\ ~call[cache[k]].req.stream

CallInv ==
  /\ CallTypes
  /\ \A c \in Calls : Guarded(c) /\ Shown(c)
  /\ \A k \in Keys : Cached(k)

-----------------------------------------------------------------------------
(* A step of one call leaves the others as they are, and takes no label    *)
(* off any run.                                                            *)
Elsewhere(c) ==
  /\ config' = config
  /\ \A d \in Calls \ {c} :
       /\ call'[d] = call[d] /\ rows'[d] = rows[d] /\ delivered'[d] = delivered[d]
       /\ provider'[d] = provider[d] /\ (d \in retained' <=> d \in retained)
  /\ \A r \in Runs : taint[r] \subseteq taint'[r]

LEMMA OthersStay ==
  ASSUME CallInv, NEW c \in Calls, NEW d \in Calls \ {c}, Elsewhere(c)
  PROVE  Guarded(d)' /\ Shown(d)'
<1>1. /\ call'[d] = call[d] /\ rows'[d] = rows[d] /\ delivered'[d] = delivered[d]
      /\ provider'[d] = provider[d] /\ (d \in retained' <=> d \in retained) /\ config' = config
  BY DEF Elsewhere
<1>2. Guarded(d)'
  BY <1>1 DEF CallInv, Guarded
<1>3. call[d].run \in Runs => taint[call[d].run] \subseteq taint'[call[d].run]
  BY DEF Elsewhere
<1>4. call[d].at \in Unanswered \/ call[d].run \in Runs
  BY DEF CallInv, Guarded, Unanswered, Asking
<1> DEFINE run == call[d].run  answer == call[d].answer
<1>5. Shown(d)
  BY DEF CallInv
<1>6. call[d].at \in Unanswered => Shown(d)'
  BY <1>1, <1>5 DEF Shown, NoAnswer
<1>7. call[d].run \in Runs => Shown(d)'
  <2> SUFFICES ASSUME taint[run] \subseteq taint'[run] PROVE Shown(d)'
    BY <1>3
  <2> QED BY <1>1, <1>5 DEF Shown, Denies
<1> QED BY <1>2, <1>4, <1>6, <1>7

(* The cache gains at most the call that moved, and only served answers    *)
(* are in it.                                                              *)
LEMMA CacheStays ==
  ASSUME CallInv, NEW c \in Calls, Elsewhere(c), call[c].at # "ended",
         \A k \in Keys : cache'[k] = cache[k]
  PROVE  \A k \in Keys : Cached(k)'
<1> SUFFICES ASSUME NEW k \in Keys, cache[k] # NoKey PROVE Cached(k)'
  BY DEF Cached
<1>1. cache[k] \in Calls \ {c}
  BY DEF CallInv, CallTypes, Cached
<1>2. call'[cache[k]] = call[cache[k]] /\ delivered'[cache[k]] = delivered[cache[k]]
  BY <1>1 DEF Elsewhere
<1> QED BY <1>2 DEF CallInv, Cached

(* A step of one call is good if it leaves the call good. *)
LEMMA OneStep ==
  ASSUME CallInv, NEW c \in Calls, Elsewhere(c), CallTypes', Guarded(c)', Shown(c)',
         \A k \in Keys : Cached(k)'
  PROVE  CallInv'
<1>1. \A d \in Calls : Guarded(d)' /\ Shown(d)'
  BY OthersStay
<1> QED BY <1>1 DEF CallInv

LEMMA CallInitInv == CallInit => CallInv
<1> SUFFICES ASSUME CallInit PROVE CallInv
  OBVIOUS
<1>1. CallTypes
  BY DEF CallInit, CallTypes, CallRecord, Stages, CallOutcome, AllLabels
<1>2. \A c \in Calls :
        /\ call[c].at = "new" /\ ~call[c].holds_run /\ ~call[c].holds_unit /\ ~call[c].seen
        /\ call[c].answer = NoAnswer /\ delivered[c] = {} /\ rows[c] = <<>> /\ provider[c] = "none"
  BY DEF CallInit
<1>3. \A c \in Calls : Guarded(c)
  BY <1>2 DEF CallInit, Guarded, Asking, Reserved
<1>4. \A c \in Calls : Shown(c)
  BY <1>2 DEF Shown, Unanswered, Asking, NoAnswer
<1>5. \A k \in Keys : Cached(k)
  BY DEF CallInit, Cached
<1> QED BY <1>1, <1>3, <1>4, <1>5 DEF CallInv
-----------------------------------------------------------------------------
(* What a step that writes a call's record makes of it. *)
LEMMA RecordIs ==
  ASSUME CallTypes, NEW c \in Calls, NEW k, k \in CallRecord, call' = [call EXCEPT ![c] = k]
  PROVE  /\ call' \in [Calls -> CallRecord] /\ call'[c] = k
         /\ \A d \in Calls \ {c} : call'[d] = call[d]
BY DEF CallTypes

(* A gate lets a call through, or ends it before it holds anything. *)
LEMMA GoStep ==
  ASSUME CallInv, NEW c \in Calls, NEW stage \in (Asking \ {"new"}) \cup {"ended"}, Go(c, stage),
         call[c].at \in Asking \ {"new"},
         UNCHANGED <<config, rows, delivered, provider, retained, taint, cache>>,
         ledger' = ledger, unit' = unit
  PROVE  CallInv'
<1> DEFINE k == [call[c] EXCEPT !.at = stage]
<1>1. call[c] \in CallRecord /\ stage \in Stages
  BY DEF CallInv, CallTypes, Asking, Stages
<1>2. k \in CallRecord /\ call' = [call EXCEPT ![c] = k]
  BY <1>1 DEF Go, CallRecord
<1>3. /\ k.at = stage /\ k.run = call[c].run /\ k.holds_run = call[c].holds_run
      /\ k.holds_unit = call[c].holds_unit /\ k.answer = call[c].answer /\ k.seen = call[c].seen
  BY <1>1 DEF CallRecord
<1> HIDE DEF k
<1>4. CallTypes /\ Guarded(c) /\ Shown(c)
  BY DEF CallInv
<1>5. call' \in [Calls -> CallRecord] /\ call'[c] = k /\ \A d \in Calls \ {c} : call'[d] = call[d]
  BY <1>2, <1>4, RecordIs
<1>6. CallTypes'
  BY <1>4, <1>5 DEF CallTypes
<1>7. Elsewhere(c)
  BY <1>5 DEF Elsewhere
<1>8. Guarded(c)'
  BY <1>3, <1>4, <1>5 DEF Guarded, Asking, Reserved
<1>9. Shown(c)'
  BY <1>3, <1>4, <1>5 DEF Shown, Unanswered, Asking, NoAnswer
<1>10. \A l \in Keys : Cached(l)'
  BY <1>7, CacheStays DEF Asking
<1> QED BY <1>6, <1>7, <1>8, <1>9, <1>10, OneStep

(* A row is added to those of one call. *)
LEMMA RowIs ==
  ASSUME CallTypes, NEW c \in Calls, NEW decision \in Decisions, NEW cost \in Nat,
         rows' = [rows EXCEPT ![c] = Append(@, [decision |-> decision, cost |-> cost])]
  PROVE  /\ rows' \in [Calls -> Seq(Row)]
         /\ \A d \in Calls \ {c} : rows'[d] = rows[d]
         /\ rows'[c] = Append(rows[c], [decision |-> decision, cost |-> cost])
         /\ rows[c] = <<>> => DOMAIN rows'[c] = {1} /\ rows'[c][1] = [decision |-> decision, cost |-> cost]
<1>1. [decision |-> decision, cost |-> cost] \in Row /\ rows[c] \in Seq(Row)
  BY DEF Row, CallTypes
<1>2. Append(rows[c], [decision |-> decision, cost |-> cost]) \in Seq(Row)
  BY <1>1
<1>3. rows[c] = <<>> =>
        /\ DOMAIN Append(rows[c], [decision |-> decision, cost |-> cost]) = {1}
        /\ Append(rows[c], [decision |-> decision, cost |-> cost])[1] = [decision |-> decision, cost |-> cost]
  OBVIOUS
<1> QED BY <1>2, <1>3 DEF CallTypes

(* A gate refuses a call before it holds anything. *)
LEMMA RefuseStep ==
  ASSUME CallInv, NEW c \in Calls, NEW decision \in Decisions, NEW cost \in Nat,
         Refuse(c, decision, cost), call[c].at \in Asking \ {"new"},
         delivered' = delivered \/ delivered' = [delivered EXCEPT ![c] = {"cached"}],
         UNCHANGED <<config, provider, retained, taint, cache>>, ledger' = ledger, unit' = unit
  PROVE  CallInv'
<1> DEFINE k == [call[c] EXCEPT !.at = "ended"]
<1>1. call[c] \in CallRecord /\ "ended" \in Stages
  BY DEF CallInv, CallTypes, Stages
<1>2. k \in CallRecord /\ call' = [call EXCEPT ![c] = k]
  BY <1>1 DEF Refuse, Go, CallRecord
<1>3. /\ k.at = "ended" /\ k.run = call[c].run /\ k.holds_run = call[c].holds_run
      /\ k.holds_unit = call[c].holds_unit /\ k.answer = call[c].answer /\ k.seen = call[c].seen
  BY <1>1 DEF CallRecord
<1> HIDE DEF k
<1>4. CallTypes /\ Guarded(c) /\ Shown(c)
  BY DEF CallInv
<1>5. call' \in [Calls -> CallRecord] /\ call'[c] = k /\ \A d \in Calls \ {c} : call'[d] = call[d]
  BY <1>2, <1>4, RecordIs
<1>6. rows' \in [Calls -> Seq(Row)] /\ \A d \in Calls \ {c} : rows'[d] = rows[d]
  BY <1>4, RowIs DEF Refuse
<1>7. /\ delivered' \in [Calls -> SUBSET {"text", "tools", "cached"}]
      /\ \A d \in Calls \ {c} : delivered'[d] = delivered[d]
  <2>1. CASE delivered' = delivered
    BY <1>4, <2>1 DEF CallTypes
  <2>2. CASE delivered' = [delivered EXCEPT ![c] = {"cached"}]
    BY <1>4, <2>2 DEF CallTypes
  <2> QED BY <2>1, <2>2
<1>8. CallTypes'
  BY <1>4, <1>5, <1>6, <1>7 DEF CallTypes
<1>9. Elsewhere(c)
  BY <1>5, <1>6, <1>7 DEF Elsewhere
<1>10. Guarded(c)'
  BY <1>3, <1>4, <1>5 DEF Guarded, Asking, Reserved
<1>11. call'[c].answer = NoAnswer
  BY <1>3, <1>4, <1>5 DEF Shown, Unanswered
<1>12. Shown(c)'
  BY <1>3, <1>5, <1>11 DEF Shown, Unanswered, Asking, NoAnswer
<1>13. \A l \in Keys : Cached(l)'
  BY <1>9, CacheStays DEF Asking
<1> QED BY <1>8, <1>9, <1>10, <1>12, <1>13, OneStep

(* The decisions of the gates: each refuses the call or lets it go on. *)
LEMMA GateSteps ==
  ASSUME CallInv, NEW c \in Calls,
         \/ CheckKilled(c) \/ ScanPrompt(c) \/ LookupCache(c)
         \/ \E loops, wasm \in BOOLEAN : EvaluatePolicy(c, loops, wasm)
         \/ \E decision \in {"allow", "deny", "hold"} : AskWardryx(c, decision)
  PROVE  CallInv'
<1>1. /\ Estimate \in Nat /\ 0 \in Nat
      /\ \A d \in {"killed", "dlp_blocked", "cache_hit", "policy_violation", "loop_detected",
                  "wasm_policy", "wardryx_deny", "wardryx_hold"} : d \in Decisions
  BY CallAssumption DEF Decisions
<1> DEFINE
      Rest == /\ call[c].at \in Asking \ {"new"}
              /\ UNCHANGED <<config, provider, retained, taint, cache>> /\ ledger' = ledger /\ unit' = unit
      Refused == \E decision \in Decisions, cost \in Nat :
                   /\ Refuse(c, decision, cost)
                   /\ delivered' = delivered \/ delivered' = [delivered EXCEPT ![c] = {"cached"}]
      Passed == /\ rows' = rows /\ delivered' = delivered
                /\ \E stage \in (Asking \ {"new"}) \cup {"ended"} : Go(c, stage)
<1>2. Rest /\ Refused => CallInv'
  BY RefuseStep
<1>3. Rest /\ Passed => CallInv'
  BY GoStep
<1>4. CASE CheckKilled(c)
  <2>1. Rest
    BY <1>4 DEF CheckKilled, At, Asking, money
  <2>2. Refuse(c, "killed", Estimate) /\ delivered' = delivered => Refused
    BY <1>1
  <2>3. Go(c, "dlp") /\ rows' = rows /\ delivered' = delivered => Passed
    BY DEF Asking
  <2>4. \/ Go(c, "dlp") /\ rows' = rows /\ delivered' = delivered
        \/ Refuse(c, "killed", Estimate) /\ delivered' = delivered
    BY <1>4 DEF CheckKilled
  <2> HIDE DEF Rest, Refused, Passed
  <2> QED BY <1>2, <1>3, <2>1, <2>2, <2>3, <2>4
<1>5. CASE ScanPrompt(c)
  <2>1. Rest
    BY <1>5 DEF ScanPrompt, At, Asking, money
  <2>2. Refuse(c, "dlp_blocked", 0) /\ delivered' = delivered => Refused
    BY <1>1
  <2>3. \A stage \in {"ended", "cache"} : Go(c, stage) /\ rows' = rows /\ delivered' = delivered => Passed
    BY DEF Asking
  <2>4. \/ \E stage \in {"ended", "cache"} : Go(c, stage) /\ rows' = rows /\ delivered' = delivered
        \/ Refuse(c, "dlp_blocked", 0) /\ delivered' = delivered
    BY <1>5 DEF ScanPrompt
  <2> HIDE DEF Rest, Refused, Passed
  <2> QED BY <1>2, <1>3, <2>1, <2>2, <2>3, <2>4
<1>6. CASE LookupCache(c)
  <2>1. Rest
    BY <1>6 DEF LookupCache, At, Asking, money
  <2>2. Refuse(c, "cache_hit", 0) /\ delivered' = [delivered EXCEPT ![c] = {"cached"}] => Refused
    BY <1>1
  <2>3. Go(c, "policy") /\ rows' = rows /\ delivered' = delivered => Passed
    BY DEF Asking
  <2>4. \/ Go(c, "policy") /\ rows' = rows /\ delivered' = delivered
        \/ Refuse(c, "cache_hit", 0) /\ delivered' = [delivered EXCEPT ![c] = {"cached"}]
    BY <1>6 DEF LookupCache
  <2> HIDE DEF Rest, Refused, Passed
  <2> QED BY <1>2, <1>3, <2>1, <2>2, <2>3, <2>4
<1>7. ASSUME NEW loops \in BOOLEAN, NEW wasm \in BOOLEAN, EvaluatePolicy(c, loops, wasm)
      PROVE  CallInv'
  <2>1. Rest
    BY <1>7 DEF EvaluatePolicy, At, Asking, money
  <2>2. \A decision \in {"policy_violation", "loop_detected", "wasm_policy"} :
          Refuse(c, decision, Estimate) /\ delivered' = delivered => Refused
    BY <1>1
  <2>3. Go(c, "pdp") /\ rows' = rows /\ delivered' = delivered => Passed
    BY DEF Asking
  <2>4. /\ delivered' = delivered
        /\ \/ Go(c, "pdp") /\ rows' = rows
           \/ \E d \in {"policy_violation", "loop_detected", "wasm_policy"} : Refuse(c, d, Estimate)
    BY <1>7 DEF EvaluatePolicy, EnforceVerdict, WasmVerdict
  <2> HIDE DEF Rest, Refused, Passed
  <2> QED BY <1>2, <1>3, <2>1, <2>2, <2>3, <2>4
<1>8. ASSUME NEW decision \in {"allow", "deny", "hold"}, AskWardryx(c, decision) PROVE CallInv'
  <2>1. Rest
    BY <1>8 DEF AskWardryx, At, Asking, money
  <2>2. \A word \in {"wardryx_deny", "wardryx_hold"} :
          Refuse(c, word, 0) /\ delivered' = delivered => Refused
    BY <1>1
  <2>3. Go(c, "unit") /\ rows' = rows /\ delivered' = delivered => Passed
    BY DEF Asking
  <2>4. /\ delivered' = delivered
        /\ \/ Go(c, "unit") /\ rows' = rows
           \/ \E word \in {"wardryx_deny", "wardryx_hold"} : Refuse(c, word, 0)
    BY <1>8 DEF AskWardryx, WithheldBy
  <2> HIDE DEF Rest, Refused, Passed
  <2> QED BY <1>2, <1>3, <2>1, <2>2, <2>3, <2>4
<1> QED BY <1>4, <1>5, <1>6, <1>7, <1>8

(* The call arrives. *)
LEMMA ArriveStep ==
  ASSUME CallInv, NEW c \in Calls, NEW run \in Runs, NEW q \in Requests, Arrive(c, run, q)
  PROVE  CallInv'
<1> DEFINE k == [call[c] EXCEPT !.at = "kill", !.run = run, !.req = q]
<1>1. call[c] \in CallRecord /\ "kill" \in Stages
  BY DEF CallInv, CallTypes, Stages
<1>2. k \in CallRecord /\ call' = [call EXCEPT ![c] = k]
  BY <1>1 DEF Arrive, CallRecord
<1>3. /\ k.at = "kill" /\ k.run \in Runs /\ k.holds_run = call[c].holds_run
      /\ k.holds_unit = call[c].holds_unit /\ k.answer = call[c].answer /\ k.seen = call[c].seen
  BY <1>1 DEF CallRecord
<1> HIDE DEF k
<1>4. CallTypes /\ Guarded(c) /\ Shown(c) /\ call[c].at = "new"
  BY DEF CallInv, Arrive, At
<1>5. call' \in [Calls -> CallRecord] /\ call'[c] = k /\ \A d \in Calls \ {c} : call'[d] = call[d]
  BY <1>2, <1>4, RecordIs
<1>6. CallTypes'
  BY <1>4, <1>5 DEF CallTypes, Arrive, money
<1>7. Elsewhere(c)
  BY <1>5 DEF Elsewhere, Arrive, money
<1>8. Guarded(c)'
  BY <1>3, <1>4, <1>5 DEF Guarded, Asking, Reserved, Arrive, money
<1>9. Shown(c)'
  BY <1>3, <1>4, <1>5 DEF Shown, Unanswered, Asking, NoAnswer, Arrive
<1>10. \A l \in Keys : Cached(l)'
  BY <1>4, <1>7, CacheStays DEF Arrive
<1> QED BY <1>6, <1>7, <1>8, <1>9, <1>10, OneStep

-----------------------------------------------------------------------------
(* The two reservations. *)
LEMMA UnitGateStep ==
  ASSUME CallInv, NEW c \in Calls, UnitGate(c)
  PROVE  CallInv'
<1>1. Estimate \in Nat /\ "unit_budget_exceeded" \in Decisions
  BY CallAssumption DEF Decisions
<1>2. /\ CallTypes /\ Guarded(c) /\ Shown(c) /\ call[c].at = "unit"
      /\ config' = config /\ delivered' = delivered /\ provider' = provider /\ ledger' = ledger
      /\ retained' = retained /\ taint' = taint /\ cache' = cache
  BY DEF CallInv, UnitGate, At
<1>3. CASE Refuse(c, "unit_budget_exceeded", Estimate) /\ unit' = unit
  <2>1. call[c].at \in Asking \ {"new"}
    BY <1>2 DEF Asking
  <2>2. UNCHANGED <<config, provider, retained, taint, cache>>
    BY <1>2
  <2> QED BY <1>1, <1>2, <1>3, <2>1, <2>2, RefuseStep
<1>4. CASE /\ call' = [call EXCEPT ![c].at = "run", ![c].holds_unit = TRUE]
           /\ unit' = [unit EXCEPT !.reserved = @ + Estimate] /\ rows' = rows
  <2> DEFINE k == [call[c] EXCEPT !.at = "run", !.holds_unit = TRUE]
  <2>1. call[c] \in CallRecord /\ "run" \in Stages
    BY <1>2 DEF CallTypes, Stages
  <2>2. k \in CallRecord /\ call' = [call EXCEPT ![c] = k]
    BY <1>4, <2>1 DEF CallRecord
  <2>3. /\ k.at = "run" /\ k.run = call[c].run /\ k.holds_run = call[c].holds_run
        /\ k.holds_unit = TRUE /\ k.answer = call[c].answer /\ k.seen = call[c].seen
    BY <2>1 DEF CallRecord
  <2> HIDE DEF k
  <2>4. call' \in [Calls -> CallRecord] /\ call'[c] = k /\ \A d \in Calls \ {c} : call'[d] = call[d]
    BY <1>2, <2>2, RecordIs
  <2>5. unit' \in [reserved : Int, spent : Nat]
    <3>1. unit \in [reserved : Int, spent : Nat] /\ unit.reserved + Estimate \in Int
      BY <1>1, <1>2 DEF CallTypes
    <3> QED BY <1>4, <3>1
  <2>6. CallTypes'
    BY <1>2, <1>4, <2>4, <2>5 DEF CallTypes
  <2>7. Elsewhere(c)
    BY <1>2, <1>4, <2>4 DEF Elsewhere
  <2>8. Guarded(c)'
    BY <1>2, <1>4, <2>3, <2>4 DEF Guarded, Asking, Reserved
  <2>9. Shown(c)'
    BY <1>2, <2>3, <2>4 DEF Shown, Unanswered, Asking, NoAnswer
  <2>10. \A l \in Keys : Cached(l)'
    BY <1>2, <2>7, CacheStays
  <2> QED BY <2>6, <2>7, <2>8, <2>9, <2>10, OneStep
<1> QED BY <1>2, <1>3, <1>4 DEF UnitGate

LEMMA RunGateStep ==
  ASSUME CallInv, NEW c \in Calls, RunGate(c)
  PROVE  CallInv'
<1>1. Estimate \in Nat /\ "budget_exceeded" \in Decisions
  BY CallAssumption DEF Decisions
<1>2. /\ CallTypes /\ Guarded(c) /\ Shown(c) /\ call[c].at = "run" /\ call[c].run \in Runs
      /\ config' = config /\ delivered' = delivered /\ provider' = provider
      /\ retained' = retained /\ taint' = taint /\ cache' = cache
  BY DEF CallInv, RunGate, At, Guarded
<1>3. call[c] \in CallRecord /\ {"taint", "ended"} \subseteq Stages
  BY <1>2 DEF CallTypes, Stages
<1>4. PICK k \in CallRecord :
        /\ call' = [call EXCEPT ![c] = k] /\ k.at \in {"taint", "ended"} /\ k.run = call[c].run
        /\ k.holds_unit = (k.at = "taint") /\ k.holds_run = (k.at = "taint")
        /\ k.answer = call[c].answer /\ k.seen = call[c].seen
        /\ k.at = "taint" => rows' = rows
  <2>1. CASE Enforce /\ Exceeds(call[c].run)
    <3> DEFINE k == [call[c] EXCEPT !.at = "ended", !.holds_unit = FALSE]
    <3>1. k \in CallRecord /\ call' = [call EXCEPT ![c] = k]
      BY <1>3, <2>1 DEF RunGate, CallRecord
    <3>2. /\ k.at = "ended" /\ k.run = call[c].run /\ k.holds_run = call[c].holds_run
          /\ k.holds_unit = FALSE /\ k.answer = call[c].answer /\ k.seen = call[c].seen
      BY <1>3 DEF CallRecord
    <3> HIDE DEF k
    <3> QED BY <1>2, <1>3, <3>1, <3>2 DEF Guarded, Reserved, CallRecord
  <2>2. CASE ~(Enforce /\ Exceeds(call[c].run))
    <3> DEFINE k == [call[c] EXCEPT !.at = "taint", !.holds_run = TRUE]
    <3>1. k \in CallRecord /\ call' = [call EXCEPT ![c] = k] /\ rows' = rows
      BY <1>3, <2>2 DEF RunGate, CallRecord
    <3>2. /\ k.at = "taint" /\ k.run = call[c].run /\ k.holds_run = TRUE
          /\ k.holds_unit = call[c].holds_unit /\ k.answer = call[c].answer /\ k.seen = call[c].seen
      BY <1>3 DEF CallRecord
    <3> HIDE DEF k
    <3> QED BY <1>2, <1>3, <3>1, <3>2 DEF Guarded, Reserved, CallRecord
  <2> QED BY <2>1, <2>2
<1>5. call' \in [Calls -> CallRecord] /\ call'[c] = k /\ \A d \in Calls \ {c} : call'[d] = call[d]
  BY <1>2, <1>4, RecordIs
<1>6. rows' \in [Calls -> Seq(Row)] /\ \A d \in Calls \ {c} : rows'[d] = rows[d]
  <2>1. rows' = rows
        \/ rows' = [rows EXCEPT ![c] = Append(@, [decision |-> "budget_exceeded", cost |-> Estimate])]
    BY DEF RunGate
  <2>2. CASE rows' = rows
    BY <1>2, <2>2 DEF CallTypes
  <2> QED BY <1>1, <1>2, <2>1, <2>2, RowIs
<1>7. ledger' \in [Runs -> [reserved : Int, spent : Nat, steps : Nat]]
  <2>1. ledger' = ledger
        \/ ledger' = [ledger EXCEPT ![call[c].run].reserved = @ + Estimate, ![call[c].run].steps = @ + 1]
    BY DEF RunGate
  <2> DEFINE l == [ledger[call[c].run] EXCEPT !.reserved = @ + Estimate, !.steps = @ + 1]
  <2>2. ledger \in [Runs -> [reserved : Int, spent : Nat, steps : Nat]]
    BY <1>2 DEF CallTypes
  <2>3. l \in [reserved : Int, spent : Nat, steps : Nat]
    <3>1. ledger[call[c].run] \in [reserved : Int, spent : Nat, steps : Nat]
      BY <1>2, <2>2
    <3>2. ledger[call[c].run].reserved + Estimate \in Int /\ ledger[call[c].run].steps + 1 \in Nat
      BY <1>1, <3>1
    <3> QED BY <3>1, <3>2
  <2>4. ledger' = ledger \/ ledger' = [ledger EXCEPT ![call[c].run] = l]
    BY <1>2, <2>1, <2>2
  <2> HIDE DEF l
  <2> QED BY <1>2, <2>2, <2>3, <2>4
<1>8. unit' \in [reserved : Int, spent : Nat]
  <2>1. unit' = unit \/ unit' = [unit EXCEPT !.reserved = @ - Estimate]
    BY DEF RunGate
  <2>2. unit \in [reserved : Int, spent : Nat]
    BY <1>2 DEF CallTypes
  <2>3. CASE unit' = [unit EXCEPT !.reserved = @ - Estimate]
    BY <1>1, <2>2, <2>3
  <2> QED BY <2>1, <2>2, <2>3
<1>9. CallTypes'
  BY <1>2, <1>5, <1>6, <1>7, <1>8 DEF CallTypes
<1>10. Elsewhere(c)
  BY <1>2, <1>5, <1>6 DEF Elsewhere
<1>11. Guarded(c)'
  BY <1>2, <1>4, <1>5 DEF Guarded, Asking, Reserved
<1>12. Shown(c)'
  BY <1>2, <1>4, <1>5 DEF Shown, Unanswered, Asking, NoAnswer
<1>13. \A l \in Keys : Cached(l)'
  BY <1>2, <1>10, CacheStays
<1> QED BY <1>9, <1>10, <1>11, <1>12, <1>13, OneStep

-----------------------------------------------------------------------------
(* Labels are those of some tool, or of the provider's own search. *)
LEMMA LabelsAre ==
  ASSUME NEW tools, tools \subseteq DOMAIN LabelsOf
  PROVE  Labels(tools) \subseteq AllLabels
BY DEF Labels, AllLabels

LEMMA WebIsOne == Web \in AllLabels
BY DEF AllLabels

(* A run gains labels. *)
LEMMA TaintIs ==
  ASSUME CallTypes, NEW run \in Runs, NEW labels \in SUBSET AllLabels,
         taint' = [taint EXCEPT ![run] = @ \cup labels]
  PROVE  /\ taint' \in [Runs -> SUBSET AllLabels] /\ taint'[run] = taint[run] \cup labels
         /\ \A r \in Runs : taint[r] \subseteq taint'[r]
<1>1. taint[run] \cup labels \in SUBSET AllLabels
  BY DEF CallTypes
<1> QED BY <1>1 DEF CallTypes

(* The call is sent. *)
LEMMA RaiseTaintStep ==
  ASSUME CallInv, NEW c \in Calls, RaiseTaint(c)
  PROVE  CallInv'
<1> DEFINE run == call[c].run
           labels == Labels(call[c].req.history) \cup Inherited(run)
           k == [call[c] EXCEPT !.at = "sent", !.state = "Unknown", !.labels = taint'[run]]
<1>1. /\ CallTypes /\ Guarded(c) /\ Shown(c) /\ call[c].at = "taint" /\ run \in Runs
      /\ config' = config /\ delivered' = delivered /\ provider' = provider /\ rows' = rows
      /\ ledger' = ledger /\ unit' = unit /\ retained' = retained /\ cache' = cache
      /\ call' = [call EXCEPT ![c].at = "sent", ![c].state = "Unknown", ![c].labels = taint'[run]]
      /\ taint' = taint \/ taint' = [taint EXCEPT ![run] = @ \cup labels]
  BY DEF CallInv, RaiseTaint, At, Guarded, money
<1>2. call[c] \in CallRecord /\ "sent" \in Stages /\ "Unknown" \in CallOutcome
  BY <1>1 DEF CallTypes, Stages, CallOutcome
<1>3. labels \in SUBSET AllLabels
  <2>1. call[c].req.history \subseteq DOMAIN LabelsOf
    BY <1>2, CallAssumption DEF CallRecord, NoRequest
  <2>2. Inherited(run) \subseteq AllLabels
    BY <1>1, CallAssumption DEF Inherited, CallTypes
  <2> QED BY <2>1, <2>2, LabelsAre
<1> HIDE DEF labels
<1>4. taint' \in [Runs -> SUBSET AllLabels] /\ \A r \in Runs : taint[r] \subseteq taint'[r]
  <2>1. CASE taint' = taint
    BY <1>1, <2>1 DEF CallTypes
  <2> QED BY <1>1, <1>3, <2>1, TaintIs
<1>5. taint'[run] \in SUBSET AllLabels
  BY <1>1, <1>4
<1>6. k \in CallRecord /\ call' = [call EXCEPT ![c] = k]
  BY <1>1, <1>2, <1>5 DEF CallRecord
<1>7. /\ k.at = "sent" /\ k.run = call[c].run /\ k.holds_run = call[c].holds_run /\ k.state = "Unknown"
      /\ k.holds_unit = call[c].holds_unit /\ k.answer = call[c].answer /\ k.seen = call[c].seen
  BY <1>2 DEF CallRecord
<1> HIDE DEF k
<1>8. call' \in [Calls -> CallRecord] /\ call'[c] = k /\ \A d \in Calls \ {c} : call'[d] = call[d]
  BY <1>1, <1>6, RecordIs
<1>9. CallTypes'
  BY <1>1, <1>4, <1>8 DEF CallTypes
<1>10. Elsewhere(c)
  BY <1>1, <1>4, <1>8 DEF Elsewhere
<1>11. Guarded(c)'
  BY <1>1, <1>7, <1>8 DEF Guarded, Asking, Reserved
<1>12. Shown(c)'
  BY <1>1, <1>7, <1>8 DEF Shown, Unanswered, Asking, NoAnswer
<1>13. \A l \in Keys : Cached(l)'
  BY <1>1, <1>10, CacheStays
<1> QED BY <1>9, <1>10, <1>11, <1>12, <1>13, OneStep

(* The provider gets the request. *)
LEMMA ReceiveStep ==
  ASSUME CallInv, NEW c \in Calls, ProviderReceives(c)
  PROVE  CallInv'
<1>1. /\ CallTypes /\ Guarded(c) /\ Shown(c) /\ call[c].at = "sent"
      /\ config' = config /\ call' = call /\ rows' = rows /\ delivered' = delivered /\ ledger' = ledger
      /\ unit' = unit /\ retained' = retained /\ taint' = taint /\ cache' = cache
      /\ provider' = [provider EXCEPT ![c] = "has"]
  BY DEF CallInv, ProviderReceives, At, money
<1>2. provider' \in [Calls -> {"none", "has"}] /\ \A d \in Calls \ {c} : provider'[d] = provider[d]
  BY <1>1 DEF CallTypes
<1>3. CallTypes'
  BY <1>1, <1>2 DEF CallTypes
<1>4. Elsewhere(c)
  BY <1>1, <1>2 DEF Elsewhere
<1>5. Guarded(c)'
  BY <1>1 DEF Guarded, Asking, Reserved
<1>6. Shown(c)'
  BY <1>1 DEF Shown
<1>7. \A l \in Keys : Cached(l)'
  BY <1>1, <1>4, CacheStays
<1> QED BY <1>3, <1>4, <1>5, <1>6, <1>7, OneStep

(* It answers. *)
LEMMA AnswerStep ==
  ASSUME CallInv, NEW c \in Calls, NEW answer \in Answers, SendAnswers(c, answer)
  PROVE  CallInv'
<1> DEFINE outcome == IF answer.ok THEN "Started" ELSE "Refused"
           k == [call[c] EXCEPT !.at = "body", !.answer = answer, !.state = outcome]
<1>1. /\ CallTypes /\ Guarded(c) /\ Shown(c) /\ call[c].at = "sent"
      /\ config' = config /\ rows' = rows /\ delivered' = delivered /\ ledger' = ledger
      /\ unit' = unit /\ retained' = retained /\ taint' = taint /\ cache' = cache
      /\ provider' = provider
      /\ call' = [call EXCEPT ![c].at = "body", ![c].answer = answer, ![c].state = outcome]
  BY DEF CallInv, SendAnswers, At, money
<1>2. call[c] \in CallRecord /\ "body" \in Stages /\ outcome \in CallOutcome /\ outcome \in {"Started", "Refused"}
  BY <1>1 DEF CallTypes, Stages, CallOutcome
<1> HIDE DEF outcome
<1>3. k \in CallRecord /\ call' = [call EXCEPT ![c] = k]
  BY <1>1, <1>2 DEF CallRecord
<1>4. /\ k.at = "body" /\ k.run = call[c].run /\ k.holds_run = call[c].holds_run /\ k.state = outcome
      /\ k.holds_unit = call[c].holds_unit /\ k.answer = answer /\ k.seen = call[c].seen
  BY <1>2 DEF CallRecord
<1> HIDE DEF k
<1>5. call' \in [Calls -> CallRecord] /\ call'[c] = k /\ \A d \in Calls \ {c} : call'[d] = call[d]
  BY <1>1, <1>3, RecordIs
<1>6. CallTypes'
  BY <1>1, <1>5 DEF CallTypes
<1>7. Elsewhere(c)
  BY <1>1, <1>5 DEF Elsewhere
<1>8. Guarded(c)'
  BY <1>1, <1>2, <1>4, <1>5 DEF Guarded, Asking, Reserved
<1>9. ~call[c].seen /\ delivered[c] = {}
  BY <1>1 DEF Shown, Unanswered, Asking
<1>10. Shown(c)'
  BY <1>1, <1>4, <1>5, <1>9 DEF Shown, Unanswered, Asking
<1>11. \A l \in Keys : Cached(l)'
  BY <1>1, <1>7, CacheStays
<1> QED BY <1>6, <1>7, <1>8, <1>10, <1>11, OneStep

-----------------------------------------------------------------------------
(* What a call is charged is an amount. *)
LEMMA SettleAmountIs ==
  ASSUME CallTypes, NEW c \in Calls, NEW usage
  PROVE  settle_amount(c, usage) \in Nat
<1>1. call[c].answer.cost \in Nat
  BY CallAssumption DEF CallTypes, CallRecord, NoAnswer
<1>2. Estimate \in Nat /\ Capped \in Nat
  BY CallAssumption
<1> QED BY <1>1, <1>2 DEF settle_amount

LEMMA SettleBothIs ==
  ASSUME CallTypes, NEW c \in Calls, call[c].run \in Runs, NEW actual \in Nat, SettleBoth(c, actual)
  PROVE  /\ ledger' \in [Runs -> [reserved : Int, spent : Nat, steps : Nat]]
         /\ unit' \in [reserved : Int, spent : Nat]
         /\ \A r \in Runs \ {call[c].run} : ledger'[r] = ledger[r]
         /\ ledger'[call[c].run].reserved = ledger[call[c].run].reserved - Estimate
         /\ ledger'[call[c].run].spent = ledger[call[c].run].spent + actual
         /\ unit'.reserved = unit.reserved - Estimate /\ unit'.spent = unit.spent + actual
<1> DEFINE run == call[c].run
           l == [ledger[run] EXCEPT !.reserved = @ - Estimate, !.spent = @ + actual]
<1>1. /\ ledger[run] \in [reserved : Int, spent : Nat, steps : Nat] /\ Estimate \in Nat
      /\ unit \in [reserved : Int, spent : Nat]
  BY CallAssumption DEF CallTypes
<1>2. /\ ledger[run].reserved - Estimate \in Int /\ ledger[run].spent + actual \in Nat
      /\ unit.reserved - Estimate \in Int /\ unit.spent + actual \in Nat
  BY <1>1
<1>3. /\ l \in [reserved : Int, spent : Nat, steps : Nat]
      /\ l.reserved = ledger[run].reserved - Estimate /\ l.spent = ledger[run].spent + actual
  BY <1>1, <1>2
<1>4. ledger \in [Runs -> [reserved : Int, spent : Nat, steps : Nat]]
  BY DEF CallTypes
<1>5. ledger' = [ledger EXCEPT ![run] = l]
  BY <1>4 DEF SettleBoth
<1> HIDE DEF l
<1>6. /\ unit' \in [reserved : Int, spent : Nat]
      /\ unit'.reserved = unit.reserved - Estimate /\ unit'.spent = unit.spent + actual
  BY <1>2 DEF SettleBoth
<1> QED BY <1>3, <1>4, <1>5, <1>6

(* The guard's terminal transition: of a call that was sent, in a state    *)
(* that is not released once the provider has the request, and that is     *)
(* charged if the answer goes on to be judged.                             *)
LEMMA SettleStep ==
  ASSUME CallInv, NEW c \in Calls, NEW stage \in {"ended", "judge"}, NEW outcome \in CallOutcome, NEW usage,
         settle_now(c, stage, outcome, usage), call[c].at \in {"sent", "body"},
         stage = "judge" => call[c].at = "body" /\ disposition(outcome) = "Charge",
         disposition(outcome) = "Release" => provider[c] = "none",
         UNCHANGED <<config, delivered, provider, taint, cache>>
  PROVE  CallInv'
<1> DEFINE k == [call[c] EXCEPT !.at = stage, !.state = outcome, !.holds_run = FALSE, !.holds_unit = FALSE]
<1>1. /\ CallTypes /\ Guarded(c) /\ Shown(c) /\ call[c].run \in Runs /\ rows[c] = <<>>
      /\ c \notin retained /\ call[c] \in CallRecord /\ stage \in Stages
      /\ config' = config /\ delivered' = delivered /\ provider' = provider /\ taint' = taint /\ cache' = cache
      /\ call' = [call EXCEPT ![c].at = stage, ![c].state = outcome,
                              ![c].holds_run = FALSE, ![c].holds_unit = FALSE]
  BY DEF CallInv, Guarded, settle_now, Reserved, CallTypes, Stages
<1>2. k \in CallRecord /\ call' = [call EXCEPT ![c] = k]
  BY <1>1 DEF CallRecord
<1>3. /\ k.at = stage /\ k.run = call[c].run /\ ~k.holds_run /\ ~k.holds_unit
      /\ k.answer = call[c].answer /\ k.seen = call[c].seen /\ k.labels = call[c].labels
  BY <1>1 DEF CallRecord
<1> HIDE DEF k
<1>4. call' \in [Calls -> CallRecord] /\ call'[c] = k /\ \A d \in Calls \ {c} : call'[d] = call[d]
  BY <1>1, <1>2, RecordIs
<1>5. /\ rows' \in [Calls -> Seq(Row)] /\ \A d \in Calls \ {c} : rows'[d] = rows[d]
      /\ ledger' \in [Runs -> [reserved : Int, spent : Nat, steps : Nat]]
      /\ unit' \in [reserved : Int, spent : Nat]
      /\ retained' \subseteq Calls /\ \A d \in Calls \ {c} : d \in retained' <=> d \in retained
      /\ stage = "judge" => c \notin retained'
      /\ \/ provider[c] = "none" /\ stage = "ended"
         \/ c \in retained' \/ \E i \in DOMAIN rows'[c] : rows'[c][i].decision = "allow"
  <2>1. disposition(outcome) \in {"Release", "Retain", "Charge"}
    BY DEF disposition
  <2>2. CASE disposition(outcome) = "Release"
    <3>1. SettleBoth(c, 0) /\ rows' = rows /\ retained' = retained
      BY <2>2 DEF settle_now
    <3>2. provider[c] = "none" /\ stage = "ended"
      BY <2>2
    <3>3. rows \in [Calls -> Seq(Row)] /\ retained \subseteq Calls
      BY <1>1 DEF CallTypes
    <3>4. /\ ledger' \in [Runs -> [reserved : Int, spent : Nat, steps : Nat]]
          /\ unit' \in [reserved : Int, spent : Nat]
      BY <1>1, <3>1, SettleBothIs
    <3> QED BY <1>1, <3>1, <3>2, <3>3, <3>4
  <2>3. CASE disposition(outcome) = "Retain"
    <3>1. retained' = retained \cup {c} /\ ledger' = ledger /\ unit' = unit /\ rows' = rows
      BY <2>3 DEF settle_now
    <3> QED BY <1>1, <2>3, <3>1 DEF CallTypes
  <2>4. CASE disposition(outcome) = "Charge"
    <3>1. PICK amount \in Nat :
            /\ SettleBoth(c, amount) /\ retained' = retained
            /\ rows' = [rows EXCEPT ![c] = Append(@, [decision |-> "allow", cost |-> amount])]
      BY <1>1, <2>4, SettleAmountIs DEF settle_now
    <3>2. "allow" \in Decisions
      BY DEF Decisions
    <3>3. /\ rows' \in [Calls -> Seq(Row)] /\ \A d \in Calls \ {c} : rows'[d] = rows[d]
          /\ rows'[c] = <<[decision |-> "allow", cost |-> amount]>>
      <4>1. rows' = [rows EXCEPT ![c] = Append(@, [decision |-> "allow", cost |-> amount])]
        BY <3>1
      <4>2. rows'[c] = Append(rows[c], [decision |-> "allow", cost |-> amount])
        BY <1>1, <4>1 DEF CallTypes
      <4>3. rows'[c] = <<[decision |-> "allow", cost |-> amount]>>
        BY <1>1, <4>2
      <4>4. CallTypes
        BY <1>1
      <4>5. [decision |-> "allow", cost |-> amount] \in Row
        BY <3>2 DEF Row
      <4>6. rows \in [Calls -> Seq(Row)] /\ Append(rows[c], [decision |-> "allow", cost |-> amount]) \in Seq(Row)
        BY <4>4, <4>5 DEF CallTypes
      <4> QED BY <4>1, <4>3, <4>6
    <3>4. /\ ledger' \in [Runs -> [reserved : Int, spent : Nat, steps : Nat]]
          /\ unit' \in [reserved : Int, spent : Nat]
      BY <1>1, <3>1, SettleBothIs
    <3>5. retained \subseteq Calls
      BY <1>1 DEF CallTypes
    <3>6. \E i \in DOMAIN rows'[c] : rows'[c][i].decision = "allow"
      BY <3>3
    <3> QED BY <1>1, <3>1, <3>3, <3>4, <3>5, <3>6
  <2> QED BY <2>1, <2>2, <2>3, <2>4
<1>6. CallTypes'
  BY <1>1, <1>4, <1>5 DEF CallTypes
<1>7. Elsewhere(c)
  BY <1>1, <1>4, <1>5 DEF Elsewhere
<1>8. Guarded(c)'
  BY <1>1, <1>3, <1>4, <1>5 DEF Guarded, Asking, Reserved
<1>9. Shown(c)'
  <2>1. CASE call[c].at = "sent"
    BY <1>1, <1>3, <1>4, <2>1 DEF Shown, Unanswered, Asking, NoAnswer
  <2>2. CASE call[c].at = "body"
    BY <1>1, <1>3, <1>4, <2>2 DEF Shown, Unanswered, Asking
  <2> QED BY <2>1, <2>2
<1>10. \A l \in Keys : Cached(l)'
  BY <1>1, <1>7, CacheStays
<1> QED BY <1>6, <1>7, <1>8, <1>9, <1>10, OneStep

(* The four ways a call that was sent is settled. *)
LEMMA SettlingSteps ==
  ASSUME CallInv, NEW c \in Calls, SendFails(c) \/ Cancel(c) \/ BodyBreaks(c) \/ BodyEnds(c)
  PROVE  CallInv'
<1>1. Guarded(c) /\ call[c].at \in Stages /\ call[c].state \in CallOutcome /\ provider[c] \in {"none", "has"}
  BY DEF CallInv, CallTypes, CallRecord
<1>2. /\ disposition("NotSent") = "Release" /\ disposition("Unknown") = "Retain"
      /\ disposition("Started") = "Charge" /\ disposition("Refused") = "Charge"
      /\ {"NotSent", "Unknown", "Started", "Refused"} \subseteq CallOutcome
  BY DEF disposition, CallOutcome
<1>3. /\ call[c].at = "sent" => call[c].state = "Unknown"
      /\ call[c].at = "body" => call[c].state \in {"Started", "Refused"}
  BY <1>1 DEF Guarded
<1>4. CASE SendFails(c)
  <2>1. /\ call[c].at = "sent" /\ UNCHANGED <<config, delivered, provider, taint, cache>>
        /\ \/ provider[c] = "none" /\ settle_now(c, "ended", "NotSent", "none")
           \/ settle_now(c, "ended", "Unknown", "none")
    BY <1>4 DEF SendFails, At
  <2>2. CASE provider[c] = "none" /\ settle_now(c, "ended", "NotSent", "none")
    BY <1>2, <2>1, <2>2, SettleStep, Zenon
  <2>3. CASE settle_now(c, "ended", "Unknown", "none")
    BY <1>2, <2>1, <2>3, SettleStep, Zenon
  <2> QED BY <2>1, <2>2, <2>3
<1>5. CASE Cancel(c)
  <2>1. CASE At(c, "pdp") /\ config.wardryx # "off" /\ Go(c, "ended") /\ UNCHANGED <<rows, money>>
    <3>1. /\ "ended" \in (Asking \ {"new"}) \cup {"ended"} /\ call[c].at \in Asking \ {"new"}
          /\ UNCHANGED <<config, rows, delivered, provider, retained, taint, cache>>
          /\ ledger' = ledger /\ unit' = unit /\ Go(c, "ended")
      BY <1>5, <2>1 DEF Cancel, At, Asking, money
    <3> QED BY <3>1, GoStep, Zenon
  <2>2. CASE At(c, "sent") /\ settle_now(c, "ended", call[c].state, "none")
    <3>1. call[c].at = "sent" /\ UNCHANGED <<config, delivered, provider, taint, cache>>
      BY <1>5, <2>2 DEF Cancel, At
    <3> QED BY <1>2, <1>3, <2>2, <3>1, SettleStep, Zenon
  <2>3. ASSUME At(c, "body"), NEW usage \in {"none", "partial"}, settle_now(c, "ended", call[c].state, usage)
        PROVE  CallInv'
    <3>1. call[c].at = "body" /\ UNCHANGED <<config, delivered, provider, taint, cache>>
      BY <1>5, <2>3 DEF Cancel, At
    <3>2. disposition(call[c].state) = "Charge" /\ call[c].state \in CallOutcome
      BY <1>1, <1>2, <1>3, <3>1
    <3> QED BY <2>3, <3>1, <3>2, SettleStep, Zenon
  <2> QED BY <1>5, <2>1, <2>2, <2>3 DEF Cancel
<1>6. CASE BodyBreaks(c)
  <2>1. /\ call[c].at = "body" /\ UNCHANGED <<config, delivered, provider, taint, cache>>
        /\ \E usage \in {"none", "partial"} : settle_now(c, "ended", call[c].state, usage)
    BY <1>6 DEF BodyBreaks, At
  <2>2. disposition(call[c].state) = "Charge" /\ call[c].state \in CallOutcome
    BY <1>1, <1>2, <1>3, <2>1
  <2> QED BY <2>1, <2>2, SettleStep, Zenon
<1>7. CASE BodyEnds(c)
  <2>1. /\ call[c].at = "body" /\ UNCHANGED <<config, delivered, provider, taint, cache>>
        /\ settle_now(c, "judge", call[c].state, call[c].answer.usage)
    BY <1>7 DEF BodyEnds, At
  <2>2. disposition(call[c].state) = "Charge" /\ call[c].state \in CallOutcome
    BY <1>1, <1>2, <1>3, <2>1
  <2> QED BY <2>1, <2>2, SettleStep, Zenon
<1> QED BY <1>4, <1>5, <1>6, <1>7

(* A chunk of a stream: what the provider's search read is on the run      *)
(* before the text goes out.                                               *)
LEMMA ChunkStep ==
  ASSUME CallInv, NEW c \in Calls, StreamChunk(c)
  PROVE  CallInv'
<1> DEFINE run == call[c].run
           read == IF Holds(c) /\ call[c].answer.searched THEN {Web} ELSE {}
           labels == IF read = {} THEN call[c].labels ELSE call[c].labels \cup taint'[run]
           out == IF Holds(c) THEN {"text"} ELSE {"text", "tools"}
           k == [call[c] EXCEPT !.seen = TRUE, !.labels = labels]
<1>1. /\ CallTypes /\ Guarded(c) /\ Shown(c) /\ call[c].at = "body" /\ run \in Runs
      /\ config' = config /\ provider' = provider /\ rows' = rows /\ ledger' = ledger
      /\ unit' = unit /\ retained' = retained /\ cache' = cache
      /\ taint' = [taint EXCEPT ![run] = @ \cup read]
      /\ delivered' = [delivered EXCEPT ![c] = out]
      /\ call' = [call EXCEPT ![c].seen = TRUE,
                              ![c].labels = IF read = {} THEN @ ELSE @ \cup taint'[run]]
  BY DEF CallInv, StreamChunk, At, Guarded, money
<1>2. call[c] \in CallRecord /\ read \in SUBSET AllLabels /\ out \in SUBSET {"text", "tools", "cached"}
  <2>1. call[c] \in CallRecord
    BY <1>1 DEF CallTypes
  <2>2. {Web} \in SUBSET AllLabels /\ {} \in SUBSET AllLabels
    BY WebIsOne
  <2>3. out \in SUBSET {"text", "tools", "cached"}
    OBVIOUS
  <2>4. read \in SUBSET AllLabels
    BY <2>2
  <2> HIDE DEF read, out
  <2> QED BY <2>1, <2>3, <2>4
<1>3. /\ Holds(c) /\ call[c].answer.searched => read = {Web}
      /\ Holds(c) => out = {"text"}
      /\ Holds(c) <=> config.firewall # "off" /\ call[c].answer.ok
  BY DEF Holds
<1>4. labels = IF read = {} THEN call[c].labels ELSE call[c].labels \cup taint'[run]
  OBVIOUS
<1> HIDE DEF read, labels, out
<1>5. /\ taint' \in [Runs -> SUBSET AllLabels] /\ taint'[run] = taint[run] \cup read
      /\ \A r \in Runs : taint[r] \subseteq taint'[r]
  BY <1>1, <1>2, TaintIs
<1>6. labels \in SUBSET AllLabels
  BY <1>1, <1>2, <1>4, <1>5 DEF CallRecord
<1>7. k \in CallRecord /\ call' = [call EXCEPT ![c] = k]
  <2>1. k \in CallRecord
    BY <1>2, <1>6 DEF CallRecord
  <2>2. call' = [call EXCEPT ![c].seen = TRUE, ![c].labels = labels]
    BY <1>1, <1>2, <1>4 DEF CallTypes, CallRecord
  <2>3. call \in [Calls -> CallRecord]
    BY <1>1 DEF CallTypes
  <2> QED BY <1>2, <2>1, <2>2, <2>3 DEF CallRecord
<1>8. /\ k.at = "body" /\ k.run = run /\ k.holds_run = call[c].holds_run /\ k.state = call[c].state
      /\ k.holds_unit = call[c].holds_unit /\ k.answer = call[c].answer /\ k.seen /\ k.labels = labels
  BY <1>1, <1>2 DEF CallRecord
<1> HIDE DEF k
<1>9. call' \in [Calls -> CallRecord] /\ call'[c] = k /\ \A d \in Calls \ {c} : call'[d] = call[d]
  BY <1>1, <1>7, RecordIs
<1>10. /\ delivered' \in [Calls -> SUBSET {"text", "tools", "cached"}] /\ delivered'[c] = out
       /\ \A d \in Calls \ {c} : delivered'[d] = delivered[d]
  BY <1>1, <1>2 DEF CallTypes
<1>11. CallTypes'
  BY <1>1, <1>5, <1>9, <1>10 DEF CallTypes
<1>12. Elsewhere(c)
  BY <1>1, <1>5, <1>9, <1>10 DEF Elsewhere
<1>13. Guarded(c)'
  BY <1>1, <1>8, <1>9 DEF Guarded, Asking, Reserved
<1>14. Shown(c)'
  <2>1. call'[c].at = "body" /\ call'[c].answer = call[c].answer /\ call'[c].seen /\ call'[c].run = run
    BY <1>8, <1>9
  <2>2. Holds(c) /\ call[c].answer.searched => Web \in labels \cap taint'[run]
    BY <1>3, <1>4, <1>5
  <2>3. Holds(c) => "tools" \notin delivered'[c]
    BY <1>3, <1>10
  <2>4. call'[c].labels = labels
    BY <1>8, <1>9
  <2> QED BY <1>1, <1>3, <2>1, <2>2, <2>3, <2>4 DEF Shown, Unanswered, Asking
<1>15. \A l \in Keys : Cached(l)'
  BY <1>1, <1>12, CacheStays
<1> QED BY <1>11, <1>12, <1>13, <1>14, <1>15, OneStep

(* The answer is judged, and served or withheld. *)
LEMMA JudgeStep ==
  ASSUME CallInv, NEW c \in Calls, judge_model_tool_calls(c)
  PROVE  CallInv'
<1> DEFINE
      run == call[c].run
      answer == call[c].answer
      key == call[c].req.key
      read == IF answer.searched /\ ~call[c].seen THEN {Web} ELSE {}
      labels == IF read = {} THEN call[c].labels ELSE call[c].labels \cup taint[run] \cup read
      blocked == Judged(c) /\ config.firewall = "enforce" /\ Denies(labels, answer.tools)
      brought == IF blocked THEN {} ELSE Labels(answer.tools)
      stored == answer.ok /\ key # NoKey /\ ~call[c].req.stream /\ config.cache # "off"
      k == [call[c] EXCEPT !.at = "ended"]
<1>1. /\ CallTypes /\ Guarded(c) /\ Shown(c) /\ call[c].at = "judge" /\ run \in Runs
      /\ config' = config /\ provider' = provider /\ ledger' = ledger
      /\ unit' = unit /\ retained' = retained
      /\ taint' = IF ~Judged(c) THEN taint ELSE [taint EXCEPT ![run] = @ \cup read \cup brought]
      /\ call' = [call EXCEPT ![c].at = "ended"]
  BY DEF CallInv, judge_model_tool_calls, At, Go, Guarded, money
<1>2. \/ /\ blocked /\ delivered' = delivered /\ cache' = cache
         /\ rows' = [rows EXCEPT ![c] = Append(@, [decision |-> "taint_blocked", cost |-> 0])]
      \/ /\ ~blocked /\ delivered' = [delivered EXCEPT ![c] = {"text", "tools"}] /\ rows' = rows
         /\ cache' = IF stored THEN [cache EXCEPT ![key] = c] ELSE cache
  BY DEF judge_model_tool_calls
<1>3. call[c] \in CallRecord
  BY <1>1 DEF CallTypes
<1>4. Labels(answer.tools) \in SUBSET AllLabels
  <2>1. answer.tools \subseteq DOMAIN LabelsOf
    BY <1>3, CallAssumption DEF CallRecord, NoAnswer
  <2> QED BY <2>1, LabelsAre
<1>5. {Web} \in SUBSET AllLabels /\ {} \in SUBSET AllLabels
  BY WebIsOne
<1>6. brought \in SUBSET AllLabels
  BY <1>4, <1>5
<1>7. read \in SUBSET AllLabels
  BY <1>5
<1>8. /\ answer.searched /\ ~call[c].seen => read = {Web} /\ Web \in labels
      /\ call[c].labels \subseteq labels
      /\ ~blocked => brought = Labels(answer.tools)
      /\ config.firewall # "off" /\ answer.ok => Judged(c)
  BY DEF Judged
<1>9. Judged(c) /\ config.firewall = "enforce" /\ ~blocked => ~Denies(labels, answer.tools)
  OBVIOUS
<1> HIDE DEF read, brought, labels, blocked
<1>10. k \in CallRecord /\ call' = [call EXCEPT ![c] = k]
  <2>1. call \in [Calls -> CallRecord]
    BY <1>1 DEF CallTypes
  <2> QED BY <1>1, <1>3, <2>1 DEF CallRecord, Stages
<1>11. /\ k.at = "ended" /\ k.run = run /\ k.holds_run = call[c].holds_run /\ k.state = call[c].state
       /\ k.holds_unit = call[c].holds_unit /\ k.answer = answer /\ k.seen = call[c].seen
       /\ k.labels = call[c].labels /\ k.req = call[c].req
  BY <1>3 DEF CallRecord
<1> HIDE DEF k
<1>12. call' \in [Calls -> CallRecord] /\ call'[c] = k /\ \A d \in Calls \ {c} : call'[d] = call[d]
  BY <1>1, <1>10, RecordIs
<1>13. /\ taint' \in [Runs -> SUBSET AllLabels] /\ \A r \in Runs : taint[r] \subseteq taint'[r]
       /\ Judged(c) => taint'[run] = taint[run] \cup read \cup brought
  <2>1. CASE ~Judged(c)
    <3>1. taint' = taint /\ taint \in [Runs -> SUBSET AllLabels]
      BY <1>1, <2>1 DEF CallTypes
    <3> QED BY <2>1, <3>1
  <2>2. CASE Judged(c)
    <3>1. read \cup brought \in SUBSET AllLabels
      BY <1>6, <1>7
    <3>2. taint' = [taint EXCEPT ![run] = @ \cup read \cup brought]
      BY <1>1, <2>2
    <3>3. taint' = [taint EXCEPT ![run] = @ \cup (read \cup brought)]
      BY <1>1, <3>2 DEF CallTypes
    <3>4. taint'[run] = taint[run] \cup (read \cup brought)
      BY <1>1, <3>1, <3>3, TaintIs
    <3> QED BY <1>1, <3>1, <3>3, <3>4, TaintIs
  <2> QED BY <2>1, <2>2
<1>14. rows' \in [Calls -> Seq(Row)] /\ \A d \in Calls \ {c} : rows'[d] = rows[d]
  <2>1. rows \in [Calls -> Seq(Row)]
    BY <1>1 DEF CallTypes
  <2>2. [decision |-> "taint_blocked", cost |-> 0] \in Row
    BY DEF Row, Decisions
  <2>3. Append(rows[c], [decision |-> "taint_blocked", cost |-> 0]) \in Seq(Row)
    BY <2>1, <2>2
  <2> QED BY <1>2, <2>1, <2>3
<1>15. (\E i \in DOMAIN rows[c] : rows[c][i].decision = "allow") =>
         \E i \in DOMAIN rows'[c] : rows'[c][i].decision = "allow"
  <2>1. CASE rows' = rows
    BY <2>1
  <2>2. CASE rows' = [rows EXCEPT ![c] = Append(@, [decision |-> "taint_blocked", cost |-> 0])]
    <3> SUFFICES ASSUME NEW i \in DOMAIN rows[c], rows[c][i].decision = "allow"
                 PROVE  i \in DOMAIN rows'[c] /\ rows'[c][i] = rows[c][i]
      OBVIOUS
    <3>1. rows \in [Calls -> Seq(Row)]
      BY <1>1 DEF CallTypes
    <3>2. rows'[c] = Append(rows[c], [decision |-> "taint_blocked", cost |-> 0]) /\ rows[c] \in Seq(Row)
      BY <2>2, <3>1
    <3> QED BY <3>2
  <2> QED BY <1>2, <2>1, <2>2
<1>16. /\ delivered' \in [Calls -> SUBSET {"text", "tools", "cached"}]
       /\ \A d \in Calls \ {c} : delivered'[d] = delivered[d]
       /\ ~blocked => delivered'[c] = {"text", "tools"}
       /\ blocked => delivered'[c] = delivered[c]
  <2>1. delivered \in [Calls -> SUBSET {"text", "tools", "cached"}]
    BY <1>1 DEF CallTypes
  <2> QED BY <1>2, <2>1
<1>17. cache' \in [Keys -> Calls \cup {NoKey}]
  <2>1. cache \in [Keys -> Calls \cup {NoKey}]
    BY <1>1 DEF CallTypes
  <2>2. cache' = cache \/ cache' = [cache EXCEPT ![key] = c]
    BY <1>2
  <2> QED BY <2>1, <2>2
<1>18. CallTypes'
  BY <1>1, <1>12, <1>13, <1>14, <1>16, <1>17 DEF CallTypes
<1>19. Elsewhere(c)
  BY <1>1, <1>12, <1>13, <1>14, <1>16 DEF Elsewhere
<1>20. Guarded(c)'
  BY <1>1, <1>11, <1>12, <1>15 DEF Guarded, Asking, Reserved
<1>21. Shown(c)'
  <2>1. /\ call'[c].at = "ended" /\ call'[c].answer = answer /\ call'[c].run = run
        /\ call'[c].labels = call[c].labels /\ config' = config /\ taint[run] \subseteq taint'[run]
    BY <1>1, <1>11, <1>12, <1>13
  <2> SUFFICES ASSUME config.firewall # "off", answer.ok
               PROVE  /\ "text" \in delivered'[c] /\ answer.searched => Web \in taint'[run]
                      /\ "tools" \in delivered'[c] => Labels(answer.tools) \subseteq taint'[run]
                      /\ config.firewall = "enforce" /\ "tools" \in delivered'[c] =>
                           ~Denies(call[c].labels \cup (IF answer.searched THEN {Web} ELSE {}), answer.tools)
    BY <2>1 DEF Shown, Unanswered, Asking
  <2>2. Judged(c) /\ taint'[run] = taint[run] \cup read \cup brought
    BY <1>8, <1>13
  <2>3. /\ "tools" \notin delivered[c]
        /\ call[c].seen /\ answer.searched => Web \in call[c].labels \cap taint[run]
        /\ "text" \in delivered[c] /\ answer.searched => Web \in taint[run]
    BY <1>1 DEF Shown
  <2>4. CASE blocked
    BY <1>16, <2>1, <2>3, <2>4
  <2>5. CASE ~blocked
    <3>1. answer.searched => Web \in labels /\ Web \in taint'[run]
      BY <1>8, <2>2, <2>3
    <3>2. Labels(answer.tools) \subseteq taint'[run]
      BY <1>8, <2>2, <2>5
    <3>3. call[c].labels \cup (IF answer.searched THEN {Web} ELSE {}) \subseteq labels
      BY <1>8, <3>1
    <3>4. config.firewall = "enforce" =>
            ~Denies(call[c].labels \cup (IF answer.searched THEN {Web} ELSE {}), answer.tools)
      BY <1>9, <2>2, <2>5, <3>3 DEF Denies
    <3> QED BY <3>1, <3>2, <3>4
  <2> QED BY <2>4, <2>5
<1>22. ASSUME NEW l \in Keys PROVE Cached(l)'
  <2>1. cache \in [Keys -> Calls \cup {NoKey}] /\ Cached(l)
    BY <1>1 DEF CallInv, CallTypes
  <2>2. CASE cache'[l] = cache[l]
    <3>1. cache[l] # NoKey => cache[l] \in Calls \ {c}
      BY <1>1, <2>1 DEF Cached
    <3> QED BY <1>12, <1>16, <2>1, <2>2, <3>1 DEF Cached
  <2>3. CASE cache'[l] # cache[l]
    <3>1. ~blocked /\ stored /\ cache'[l] = c
      BY <1>2, <2>1, <2>3
    <3>2. call'[c].at = "ended" /\ call'[c].answer.ok /\ "tools" \in delivered'[c] /\ ~call'[c].req.stream
      BY <1>11, <1>12, <1>16, <3>1
    <3> QED BY <3>1, <3>2 DEF Cached
  <2> QED BY <2>2, <2>3
<1> QED BY <1>18, <1>19, <1>20, <1>21, <1>22, OneStep

(* A call's own steps, all of them. *)
StepOf(c) ==
  \/ \E run \in Runs, req \in Requests : Arrive(c, run, req)
  \/ CheckKilled(c) \/ ScanPrompt(c) \/ LookupCache(c)
  \/ \E loops, wasm \in BOOLEAN : EvaluatePolicy(c, loops, wasm)
  \/ \E decision \in {"allow", "deny", "hold"} : AskWardryx(c, decision)
  \/ UnitGate(c) \/ RunGate(c) \/ RaiseTaint(c)
  \/ ProviderReceives(c) \/ SendFails(c)
  \/ \E answer \in Answers : SendAnswers(c, answer)
  \/ Cancel(c) \/ BodyBreaks(c) \/ StreamChunk(c) \/ BodyEnds(c)
  \/ judge_model_tool_calls(c)

LEMMA StepsAre == CallNext <=> (\E run \in Runs : Kill(run)) \/ \E c \in Calls : StepOf(c)
BY DEF CallNext, StepOf

LEMMA CallInvStep == CallInv /\ [CallNext]_callvars => CallInv'
<1> SUFFICES ASSUME CallInv, [CallNext]_callvars PROVE CallInv'
  OBVIOUS
<1>1. ASSUME config' = config, call' = call, rows' = rows, delivered' = delivered, provider' = provider,
             ledger' = ledger, unit' = unit, retained' = retained, taint' = taint, cache' = cache
      PROVE  CallInv'
  <2>1. CallTypes'
    BY <1>1 DEF CallInv, CallTypes
  <2>2. ASSUME NEW c \in Calls PROVE Guarded(c)' /\ Shown(c)'
    <3>1. Guarded(c)'
      BY <1>1, Zenon DEF CallInv, Guarded
    <3>2. Shown(c)'
      BY <1>1, Zenon DEF CallInv, Shown
    <3> QED BY <3>1, <3>2
  <2>3. ASSUME NEW k \in Keys PROVE Cached(k)'
    BY <1>1 DEF CallInv, Cached
  <2> QED BY <2>1, <2>2, <2>3 DEF CallInv
<1>2. ASSUME NEW run \in Runs, Kill(run) PROVE CallInv'
  BY <1>1, <1>2 DEF Kill, money
<1>3. CASE UNCHANGED callvars
  BY <1>1, <1>3 DEF callvars
<1>4. ASSUME NEW c \in Calls, StepOf(c) PROVE CallInv'
  <2>1. ASSUME NEW run \in Runs, NEW req \in Requests, Arrive(c, run, req) PROVE CallInv'
    BY <2>1, ArriveStep
  <2>2. CASE \/ CheckKilled(c) \/ ScanPrompt(c) \/ LookupCache(c)
             \/ \E loops, wasm \in BOOLEAN : EvaluatePolicy(c, loops, wasm)
             \/ \E decision \in {"allow", "deny", "hold"} : AskWardryx(c, decision)
    BY <2>2, GateSteps
  <2>3. CASE UnitGate(c) \/ RunGate(c) \/ RaiseTaint(c) \/ ProviderReceives(c)
    BY <2>3, UnitGateStep, RunGateStep, RaiseTaintStep, ReceiveStep
  <2>4. ASSUME NEW answer \in Answers, SendAnswers(c, answer) PROVE CallInv'
    BY <2>4, AnswerStep
  <2>5. CASE SendFails(c) \/ Cancel(c) \/ BodyBreaks(c) \/ BodyEnds(c)
    BY <2>5, SettlingSteps
  <2>6. CASE StreamChunk(c) \/ judge_model_tool_calls(c)
    BY <2>6, ChunkStep, JudgeStep
  <2> QED BY <1>4, <2>1, <2>2, <2>3, <2>4, <2>5, <2>6 DEF StepOf
<1> QED BY <1>2, <1>3, <1>4, StepsAre

LEMMA CallInvAlways == CallSpec => []CallInv
<1> QED BY CallInitInv, CallInvStep, PTL DEF CallSpec

(* A step of one call writes no other call's record. *)
LEMMA OneCallMoves ==
  ASSUME CallTypes, NEW c \in Calls, StepOf(c)
  PROVE  \A d \in Calls \ {c} : call'[d] = call[d]
<1> DEFINE Still == \A d \in Calls \ {c} : call'[d] = call[d]
<1> USE DEF CallTypes
<1>1. CASE \E run \in Runs, req \in Requests : Arrive(c, run, req)
  BY <1>1 DEF Arrive
<1>2. ASSUME NEW stage, Go(c, stage) PROVE Still
  BY <1>2 DEF Go
<1>3. ASSUME NEW decision, NEW cost, Refuse(c, decision, cost) PROVE Still
  BY <1>2, <1>3 DEF Refuse
<1>4. ASSUME NEW stage, NEW outcome, NEW usage, settle_now(c, stage, outcome, usage) PROVE Still
  BY <1>4 DEF settle_now
<1>5. CASE CheckKilled(c)
  BY <1>2, <1>3, <1>5, Zenon DEF CheckKilled
<1>6. CASE ScanPrompt(c)
  BY <1>2, <1>3, <1>6, Zenon DEF ScanPrompt
<1>7. CASE LookupCache(c)
  BY <1>2, <1>3, <1>7, Zenon DEF LookupCache
<1>8. CASE \E loops, wasm \in BOOLEAN : EvaluatePolicy(c, loops, wasm)
  BY <1>2, <1>3, <1>8, Zenon DEF EvaluatePolicy
<1>9. CASE \E decision \in {"allow", "deny", "hold"} : AskWardryx(c, decision)
  BY <1>2, <1>3, <1>9, Zenon DEF AskWardryx
<1>10. CASE UnitGate(c)
  <2>1. \/ Refuse(c, "unit_budget_exceeded", Estimate)
        \/ call' = [call EXCEPT ![c].at = "run", ![c].holds_unit = TRUE]
    BY <1>10 DEF UnitGate
  <2>2. call' = [call EXCEPT ![c].at = "run", ![c].holds_unit = TRUE] => Still
    OBVIOUS
  <2> QED BY <1>3, <2>1, <2>2, Zenon
<1>11. CASE RunGate(c)
  <2>1. \/ call' = [call EXCEPT ![c].at = "ended", ![c].holds_unit = FALSE]
        \/ call' = [call EXCEPT ![c].at = "taint", ![c].holds_run = TRUE]
    BY <1>11 DEF RunGate
  <2> QED BY <2>1
<1>12. CASE RaiseTaint(c)
  BY <1>12 DEF RaiseTaint
<1>13. CASE ProviderReceives(c)
  BY <1>13 DEF ProviderReceives
<1>14. CASE SendFails(c) \/ BodyBreaks(c) \/ BodyEnds(c)
  BY <1>4, <1>14, Zenon DEF SendFails, BodyBreaks, BodyEnds
<1>15. CASE Cancel(c)
  BY <1>2, <1>4, <1>15, Zenon DEF Cancel
<1>16. CASE \E answer \in Answers : SendAnswers(c, answer)
  BY <1>16 DEF SendAnswers
<1>17. CASE StreamChunk(c)
  BY <1>17 DEF StreamChunk
<1>18. CASE judge_model_tool_calls(c)
  <2>1. Go(c, "ended")
    BY <1>18 DEF judge_model_tool_calls
  <2> QED BY <1>2, <2>1
<1> HIDE DEF Still
<1> QED
  BY <1>1, <1>5, <1>6, <1>7, <1>8, <1>9, <1>10, <1>11, <1>12, <1>13, <1>14, <1>15, <1>16, <1>17, <1>18 DEF StepOf

(* A call is sent by RaiseTaint alone, and judged with all its run has. *)
LEMMA SentWithTheParents ==
  ASSUME CallInv, CallInv', [CallNext]_callvars
  PROVE  ChildCarriesParent
<1> SUFFICES ASSUME NEW c \in Calls, call[c].at = "taint", call'[c].at = "sent", config.firewall # "off"
             PROVE  Inherited(call[c].run) \cup taint[call[c].run] \subseteq call'[c].labels
  BY DEF ChildCarriesParent
<1>1. CallTypes /\ call[c].run \in Runs /\ call[c] \in CallRecord
  BY DEF CallInv, Guarded, CallTypes
<1>2. CASE call' = call
  BY <1>2
<1>3. ASSUME NEW d \in Calls \ {c}, StepOf(d) PROVE FALSE
  BY <1>1, <1>3, OneCallMoves
<1>4. CASE RaiseTaint(c)
  <2> DEFINE run == call[c].run
             labels == Labels(call[c].req.history) \cup Inherited(run)
  <2>1. taint' = [taint EXCEPT ![run] = @ \cup labels]
    BY <1>4 DEF RaiseTaint
  <2>2. taint'[run] = taint[run] \cup labels
    BY <1>1, <2>1 DEF CallTypes
  <2>3. call' = [call EXCEPT ![c].at = "sent", ![c].state = "Unknown", ![c].labels = taint'[run]]
    BY <1>4 DEF RaiseTaint
  <2>4. call'[c].labels = taint'[run]
    BY <1>1, <2>3 DEF CallTypes, CallRecord
  <2> QED BY <2>2, <2>4
<1>5. CASE StepOf(c)
  <2>1. /\ \A run \in Runs, req \in Requests : ~Arrive(c, run, req)
        /\ ~CheckKilled(c) /\ ~ScanPrompt(c) /\ ~LookupCache(c) /\ ~UnitGate(c) /\ ~RunGate(c)
        /\ \A loops, wasm \in BOOLEAN : ~EvaluatePolicy(c, loops, wasm)
        /\ \A decision \in {"allow", "deny", "hold"} : ~AskWardryx(c, decision)
    BY DEF Arrive, CheckKilled, ScanPrompt, LookupCache, EvaluatePolicy, AskWardryx, UnitGate, RunGate, At
  <2>2. /\ ~ProviderReceives(c) /\ ~SendFails(c) /\ \A answer \in Answers : ~SendAnswers(c, answer)
        /\ ~Cancel(c) /\ ~BodyBreaks(c) /\ ~StreamChunk(c) /\ ~BodyEnds(c) /\ ~judge_model_tool_calls(c)
    BY DEF ProviderReceives, SendFails, SendAnswers, Cancel, BodyBreaks, StreamChunk, BodyEnds,
           judge_model_tool_calls, At
  <2> QED BY <1>4, <1>5, <2>1, <2>2 DEF StepOf
<1> QED BY <1>2, <1>3, <1>5, StepsAre DEF callvars, Kill

LEMMA CallIsGood == CallInv => DeliveredWasAllowed /\ SeenIsRemembered /\ CachedWasServed /\ ReceivedIsAccounted
<1> SUFFICES ASSUME CallInv
             PROVE  DeliveredWasAllowed /\ SeenIsRemembered /\ CachedWasServed /\ ReceivedIsAccounted
  OBVIOUS
<1>1. DeliveredWasAllowed
  <2> SUFFICES ASSUME NEW c \in Calls, config.firewall = "enforce", "tools" \in delivered[c], call[c].answer.ok
               PROVE  ~Denies(call[c].labels \cup (IF call[c].answer.searched THEN {Web} ELSE {}),
                              call[c].answer.tools)
    BY DEF DeliveredWasAllowed
  <2>1. Shown(c) /\ config.firewall # "off"
    BY DEF CallInv
  <2> QED BY <2>1 DEF Shown
<1>2. SeenIsRemembered
  BY DEF CallInv, Shown, SeenIsRemembered
<1>3. CachedWasServed
  BY DEF CallInv, Cached, CachedWasServed
<1>4. ReceivedIsAccounted
  BY DEF CallInv, Guarded, ReceivedIsAccounted
<1> QED BY <1>1, <1>2, <1>3, <1>4

(* What a caller has of an answer was allowed by every label its run       *)
(* carried when the request went out and by what the provider read for it, *)
(* what it has seen is on its run, the cache gives out only what was       *)
(* served, and a child's call is judged with all its parent carried        *)
(* (proxy.rs judge_model_tool_calls, raise_run_taint, stream_managed).     *)
THEOREM CallFirewallHolds == CallSpec => FirewallHolds
<1>1. CallSpec => [](DeliveredWasAllowed /\ SeenIsRemembered /\ CachedWasServed)
  BY CallInvAlways, CallIsGood, PTL
<1>2. CallSpec => [][ChildCarriesParent]_callvars
  <2>1. CallInv /\ CallInv' /\ [CallNext]_callvars => [ChildCarriesParent]_callvars
    BY SentWithTheParents
  <2> QED BY <2>1, CallInvAlways, PTL DEF CallSpec
<1> QED BY <1>1, <1>2, PTL DEF FirewallHolds

-----------------------------------------------------------------------------
(* A set of calls counts one more with a call than without it. *)
LEMMA TakeOut ==
  ASSUME NEW S \in SUBSET Calls, NEW c \in Calls
  PROVE  /\ Cardinality(S) \in Nat /\ Cardinality(S \ {c}) \in Nat
         /\ Cardinality(S) = Cardinality(S \ {c}) + (IF c \in S THEN 1 ELSE 0)
<1>1. IsFiniteSet(S)
  BY CallAssumption, FS_Subset
<1>2. IsFiniteSet(S \ {c})
  BY <1>1, FS_RemoveElement
<1>3. Cardinality(S) \in Nat /\ Cardinality(S \ {c}) \in Nat
  BY <1>1, <1>2, FS_CardinalityType
<1>4. Cardinality(S \ {c}) = IF c \in S THEN Cardinality(S) - 1 ELSE Cardinality(S)
  BY <1>1, FS_RemoveElement
<1> QED BY <1>3, <1>4

LEMMA OneMore ==
  ASSUME NEW a \in Nat, NEW n \in Nat
  PROVE  a * (n + 1) = a * n + a /\ a * n \in Nat /\ a * (n + 0) = a * n
OBVIOUS

(* An amount for every holder: it moves with the one call that does. *)
LEMMA HoldersMove ==
  ASSUME NEW S \in SUBSET Calls, NEW T \in SUBSET Calls, NEW c \in Calls, S \ {c} = T \ {c},
         NEW x \in Int, NEW y \in Int, x = Estimate * Cardinality(S),
         y = x + (IF c \in T THEN Estimate ELSE 0) - (IF c \in S THEN Estimate ELSE 0)
  PROVE  y = Estimate * Cardinality(T)
<1> DEFINE n == Cardinality(S \ {c})
<1>1. n \in Nat /\ Estimate \in Nat
  BY TakeOut, CallAssumption
<1>2. Cardinality(S) = n + (IF c \in S THEN 1 ELSE 0)
  BY TakeOut
<1>3. Cardinality(T) = n + (IF c \in T THEN 1 ELSE 0)
  BY TakeOut
<1> HIDE DEF n
<1>4. x = Estimate * n + (IF c \in S THEN Estimate ELSE 0)
  BY <1>1, <1>2, OneMore
<1>5. Estimate * Cardinality(T) = Estimate * n + (IF c \in T THEN Estimate ELSE 0)
  BY <1>1, <1>3, OneMore
<1>6. Estimate * n \in Nat
  BY <1>1, OneMore
<1> QED BY <1>1, <1>4, <1>5, <1>6

(* The micro-dollars of the calls in S, m giving those of each. *)
Micros(S, m) == UNION {{c} \X m[c] : c \in S}

LEMMA MicrosSplit ==
  ASSUME NEW m, NEW S \in SUBSET Calls, NEW c \in Calls, IsFiniteSet(Micros(Calls, m)), IsFiniteSet(m[c])
  PROVE  /\ Cardinality(Micros(S, m)) \in Nat /\ Cardinality(Micros(S \ {c}, m)) \in Nat
         /\ Cardinality(m[c]) \in Nat
         /\ Cardinality(Micros(S, m)) = Cardinality(Micros(S \ {c}, m)) + (IF c \in S THEN Cardinality(m[c]) ELSE 0)
<1> DEFINE A == Micros(S \ {c}, m)
           B == {c} \X m[c]
<1>1. Micros(S, m) \subseteq Micros(Calls, m) /\ A \subseteq Micros(Calls, m)
  BY DEF Micros
<1>2. IsFiniteSet(Micros(S, m)) /\ IsFiniteSet(A)
  BY <1>1, FS_Subset
<1>3. /\ Cardinality(Micros(S, m)) \in Nat /\ Cardinality(A) \in Nat /\ Cardinality(m[c]) \in Nat
  BY <1>2, FS_CardinalityType
<1>4. IsFiniteSet({c}) /\ Cardinality({c}) = 1
  BY FS_Singleton
<1>5. IsFiniteSet(B) /\ Cardinality(B) = Cardinality({c}) * Cardinality(m[c])
  BY <1>4, FS_Product, Zenon
<1>6. Cardinality(B) = Cardinality(m[c])
  BY <1>3, <1>4, <1>5
<1>7. CASE c \in S
  <2>1. Micros(S, m) = A \cup B
    BY <1>7 DEF Micros
  <2>2. A \cap B = {}
    BY DEF Micros
  <2>3. Cardinality(A \cap B) = 0
    BY <2>2, FS_EmptySet
  <2>4. Cardinality(A \cup B) = Cardinality(A) + Cardinality(B) - Cardinality(A \cap B)
    BY <1>2, <1>5, FS_Union
  <2>5. Cardinality(Micros(S, m)) = Cardinality(A) + Cardinality(m[c]) - 0
    BY <1>6, <2>1, <2>3, <2>4, Zenon
  <2> QED BY <1>3, <1>7, <2>5
<1>8. CASE c \notin S
  <2>1. S \ {c} = S
    BY <1>8
  <2>2. Cardinality(A) = Cardinality(Micros(S, m))
    BY <2>1, Zenon
  <2> QED BY <1>3, <1>8, <2>2
<1> QED BY <1>3, <1>7, <1>8

(* What is traced moves with the one call that does. *)
LEMMA TraceMoves ==
  ASSUME NEW m, NEW n, NEW S \in SUBSET Calls, NEW T \in SUBSET Calls, NEW c \in Calls,
         S \ {c} = T \ {c}, \A d \in Calls \ {c} : n[d] = m[d],
         IsFiniteSet(Micros(Calls, m)), IsFiniteSet(m[c]), IsFiniteSet(n[c]),
         NEW x \in Int, NEW y \in Int, x = Cardinality(Micros(S, m)),
         y = x + (IF c \in T THEN Cardinality(n[c]) ELSE 0) - (IF c \in S THEN Cardinality(m[c]) ELSE 0)
  PROVE  y = Cardinality(Micros(T, n)) /\ IsFiniteSet(Micros(Calls, n))
<1>1. Micros(Calls, n) = Micros(Calls \ {c}, n) \cup ({c} \X n[c])
  BY DEF Micros
<1>2. Micros(Calls \ {c}, n) = Micros(Calls \ {c}, m) /\ Micros(T \ {c}, n) = Micros(S \ {c}, m)
  <2>1. Micros(Calls \ {c}, n) = Micros(Calls \ {c}, m)
    BY DEF Micros
  <2>2. Micros(T \ {c}, n) = Micros(T \ {c}, m)
    BY DEF Micros
  <2> QED BY <2>1, <2>2
<1>3. Micros(Calls \ {c}, m) \subseteq Micros(Calls, m)
  BY DEF Micros
<1>4. IsFiniteSet({c} \X n[c]) /\ IsFiniteSet(Micros(Calls \ {c}, m))
  <2>1. IsFiniteSet({c})
    BY FS_Singleton
  <2> QED BY <1>3, <2>1, FS_Product, FS_Subset
<1>5. IsFiniteSet(Micros(Calls, n))
  <2>1. IsFiniteSet(Micros(Calls \ {c}, m) \cup ({c} \X n[c]))
    BY <1>4, FS_Union
  <2> QED BY <1>1, <1>2, <2>1, Zenon
<1>6. /\ Cardinality(Micros(S \ {c}, m)) \in Nat /\ Cardinality(m[c]) \in Nat
      /\ x = Cardinality(Micros(S \ {c}, m)) + (IF c \in S THEN Cardinality(m[c]) ELSE 0)
  BY MicrosSplit
<1>7. /\ Cardinality(n[c]) \in Nat
      /\ Cardinality(Micros(T, n)) = Cardinality(Micros(S \ {c}, m)) + (IF c \in T THEN Cardinality(n[c]) ELSE 0)
  <2>1. /\ Cardinality(n[c]) \in Nat
        /\ Cardinality(Micros(T, n)) = Cardinality(Micros(T \ {c}, n)) + (IF c \in T THEN Cardinality(n[c]) ELSE 0)
    BY <1>5, MicrosSplit
  <2> QED BY <1>2, <2>1, Zenon
<1> QED BY <1>5, <1>6, <1>7

(* The money of the calls: the two halves of CallAccounted that count, and *)
(* that there is a number to count to.                                     *)
MoneyInv ==
  /\ NothingLeaks /\ TraceMatchesSpend
  /\ IsFiniteSet(Traced(Calls)) /\ \A c \in Calls : IsFiniteSet(MicrosOf(c))

HeldRun(c) == (UnderWay(c) /\ call[c].holds_run) \/ c \in retained
HeldUnit(c) == (UnderWay(c) /\ call[c].holds_unit) \/ c \in retained

UnitHolders == {c \in Calls : HeldUnit(c)}

(* What a step of c does to the two ledgers is what it does to c's share.  *)
MoneyMoves(c) ==
  /\ \A r \in Runs :
       /\ ledger'[r].reserved = ledger[r].reserved
            + (IF call'[c].run = r /\ HeldRun(c)' THEN Estimate ELSE 0)
            - (IF call[c].run = r /\ HeldRun(c) THEN Estimate ELSE 0)
       /\ ledger'[r].spent = ledger[r].spent
            + (IF call'[c].run = r THEN Cardinality(MicrosOf(c)') ELSE 0)
            - (IF call[c].run = r THEN Cardinality(MicrosOf(c)) ELSE 0)
  /\ unit'.reserved = unit.reserved + (IF HeldUnit(c)' THEN Estimate ELSE 0)
                                    - (IF HeldUnit(c) THEN Estimate ELSE 0)
  /\ unit'.spent = unit.spent + Cardinality(MicrosOf(c)') - Cardinality(MicrosOf(c))
  /\ IsFiniteSet(MicrosOf(c)')

LEMMA MoneyStays ==
  ASSUME CallInv, CallInv', MoneyInv, NEW c \in Calls, MoneyMoves(c),
         \A d \in Calls \ {c} :
           call'[d] = call[d] /\ rows'[d] = rows[d] /\ (d \in retained' <=> d \in retained)
  PROVE  MoneyInv'
<1> DEFINE m == [d \in Calls |-> MicrosOf(d)]
           n == [d \in Calls |-> MicrosOf(d)']
<1>1. ASSUME NEW d \in Calls \ {c} PROVE MicrosOf(d)' = MicrosOf(d)
  BY DEF MicrosOf, Allowed
<1>2. /\ \A d \in Calls \ {c} : n[d] = m[d]
      /\ m[c] = MicrosOf(c) /\ n[c] = MicrosOf(c)'
  BY <1>1, Zenon
<1>3. Traced(Calls) = Micros(Calls, m) /\ \A r \in Runs : Traced(CallsOf(r)) = Micros(CallsOf(r), m)
  BY DEF Traced, CallsOf, Micros
<1>4. Traced(Calls)' = Micros(Calls, n)
  BY DEF Traced, Micros
<1>5. ASSUME NEW r \in Runs PROVE Traced(CallsOf(r))' = Micros(CallsOf(r)', n)
  BY DEF Traced, CallsOf, Micros
<1>6. /\ IsFiniteSet(Micros(Calls, m)) /\ IsFiniteSet(m[c]) /\ IsFiniteSet(n[c])
  BY <1>2, <1>3 DEF MoneyInv, MoneyMoves
<1>7. /\ \A r \in Runs : /\ ledger[r].reserved \in Int /\ ledger'[r].reserved \in Int
                         /\ ledger[r].spent \in Int /\ ledger'[r].spent \in Int
      /\ unit.reserved \in Int /\ unit'.reserved \in Int /\ unit.spent \in Int /\ unit'.spent \in Int
  BY DEF CallInv, CallTypes
<1>8. ASSUME NEW r \in Runs PROVE ledger'[r].reserved = Estimate * Cardinality(RunHolders(r)')
  <2>1. /\ RunHolders(r) \in SUBSET Calls /\ RunHolders(r)' \in SUBSET Calls
        /\ RunHolders(r) \ {c} = RunHolders(r)' \ {c}
    BY DEF RunHolders, UnderWay
  <2>2. /\ c \in RunHolders(r) <=> call[c].run = r /\ HeldRun(c)
        /\ c \in RunHolders(r)' <=> call'[c].run = r /\ HeldRun(c)'
    BY DEF RunHolders, HeldRun, UnderWay
  <2>3. ledger[r].reserved = Estimate * Cardinality(RunHolders(r))
    BY DEF MoneyInv, NothingLeaks
  <2>4. ledger'[r].reserved = ledger[r].reserved
          + (IF c \in RunHolders(r)' THEN Estimate ELSE 0) - (IF c \in RunHolders(r) THEN Estimate ELSE 0)
    BY <2>2, Zenon DEF MoneyMoves
  <2> DEFINE S == RunHolders(r)  T == RunHolders(r)'  x == ledger[r].reserved  y == ledger'[r].reserved
  <2>5. S \in SUBSET Calls /\ T \in SUBSET Calls /\ S \ {c} = T \ {c} /\ x \in Int /\ y \in Int
    BY <1>7, <2>1
  <2>6. /\ x = Estimate * Cardinality(S)
        /\ y = x + (IF c \in T THEN Estimate ELSE 0) - (IF c \in S THEN Estimate ELSE 0)
    BY <2>3, <2>4
  <2>7. y = Estimate * Cardinality(T)
    <3> HIDE DEF S, T, x, y
    <3> QED BY <2>5, <2>6, HoldersMove
  <2> QED BY <2>7
<1>9. unit'.reserved = Estimate * Cardinality(UnitHolders')
  <2> DEFINE S == UnitHolders  T == UnitHolders'  x == unit.reserved  y == unit'.reserved
  <2>1. S \in SUBSET Calls /\ T \in SUBSET Calls /\ S \ {c} = T \ {c}
    BY DEF UnitHolders, HeldUnit, UnderWay
  <2>2. (c \in S <=> HeldUnit(c)) /\ (c \in T <=> HeldUnit(c)')
    BY DEF UnitHolders, HeldUnit, UnderWay
  <2>3. x = Estimate * Cardinality(S) /\ x \in Int /\ y \in Int
    BY <1>7 DEF MoneyInv, NothingLeaks, UnitHolders, HeldUnit
  <2>4. y = x + (IF c \in T THEN Estimate ELSE 0) - (IF c \in S THEN Estimate ELSE 0)
    BY <2>2, Zenon DEF MoneyMoves
  <2>5. y = Estimate * Cardinality(T)
    <3> HIDE DEF S, T, x, y
    <3> QED BY <2>1, <2>3, <2>4, HoldersMove
  <2> QED BY <2>5
<1>10. ASSUME NEW r \in Runs PROVE ledger'[r].spent = Cardinality(Traced(CallsOf(r))')
  <2> DEFINE S == CallsOf(r)  T == CallsOf(r)'  x == ledger[r].spent  y == ledger'[r].spent
  <2>1. S \in SUBSET Calls /\ T \in SUBSET Calls /\ S \ {c} = T \ {c}
    BY DEF CallsOf
  <2>2. (c \in S <=> call[c].run = r) /\ (c \in T <=> call'[c].run = r)
    BY DEF CallsOf
  <2>3. x = Cardinality(Micros(S, m)) /\ x \in Int /\ y \in Int
    <3>1. x = Cardinality(Traced(CallsOf(r)))
      BY DEF MoneyInv, TraceMatchesSpend
    <3> QED BY <1>3, <1>7, <3>1, Zenon
  <2>4. y = x + (IF c \in T THEN Cardinality(n[c]) ELSE 0) - (IF c \in S THEN Cardinality(m[c]) ELSE 0)
    BY <1>2, <2>2, Zenon DEF MoneyMoves
  <2>5. y = Cardinality(Micros(T, n))
    <3> HIDE DEF S, T, x, y, m, n
    <3> QED BY <1>2, <1>6, <2>1, <2>3, <2>4, TraceMoves
  <2> QED BY <1>5, <2>5, Zenon
<1>11. unit'.spent = Cardinality(Traced(Calls)') /\ IsFiniteSet(Traced(Calls)')
  <2> DEFINE x == unit.spent  y == unit'.spent
  <2>1. x = Cardinality(Micros(Calls, m)) /\ x \in Int /\ y \in Int
    <3>1. x = Cardinality(Traced(Calls))
      BY DEF MoneyInv, TraceMatchesSpend
    <3> QED BY <1>3, <1>7, <3>1, Zenon
  <2>2. y = x + Cardinality(n[c]) - Cardinality(m[c])
    BY <1>2, Zenon DEF MoneyMoves
  <2>3. y = x + (IF c \in Calls THEN Cardinality(n[c]) ELSE 0) - (IF c \in Calls THEN Cardinality(m[c]) ELSE 0)
    BY <2>2, Zenon
  <2>4. y = Cardinality(Micros(Calls, n)) /\ IsFiniteSet(Micros(Calls, n))
    <3>1. Calls \in SUBSET Calls /\ Calls \ {c} = Calls \ {c}
      OBVIOUS
    <3> HIDE DEF x, y, m, n
    <3> QED BY <1>2, <1>6, <2>1, <2>3, <3>1, TraceMoves
  <2> QED BY <1>4, <2>4, Zenon
<1>12. ASSUME NEW d \in Calls PROVE IsFiniteSet(MicrosOf(d)')
  <2>1. CASE d = c
    BY <2>1 DEF MoneyMoves
  <2>2. CASE d # c
    BY <1>1, <2>2 DEF MoneyInv
  <2> QED BY <2>1, <2>2
<1>13. NothingLeaks'
  BY <1>8, <1>9 DEF NothingLeaks, UnitHolders, HeldUnit
<1>14. TraceMatchesSpend'
  BY <1>10, <1>11 DEF TraceMatchesSpend
<1> QED BY <1>11, <1>12, <1>13, <1>14 DEF MoneyInv

(* What a call holds, by its stage. *)
LEMMA HeldIs ==
  ASSUME CallInv, NEW c \in Calls
  PROVE  /\ HeldUnit(c) <=> call[c].at \in Reserved \/ c \in retained
         /\ HeldRun(c) <=> call[c].at \in Reserved \ {"run"} \/ c \in retained
         /\ call[c].at \in Asking => ~HeldUnit(c) /\ ~HeldRun(c)
         /\ call[c].at \in Asking \cup Reserved => MicrosOf(c) = {} /\ Cardinality(MicrosOf(c)) = 0
<1>1. Guarded(c) /\ ("ended" \notin Reserved) /\ Asking \cap Reserved = {} /\ "ended" \notin Asking
  BY DEF CallInv, Reserved, Asking
<1>2. call[c].at \in Asking \cup Reserved => MicrosOf(c) = {}
  BY <1>1 DEF Guarded, MicrosOf, Allowed
<1>3. Cardinality({}) = 0
  BY FS_EmptySet
<1> QED BY <1>1, <1>2, <1>3 DEF Guarded, HeldUnit, HeldRun, UnderWay

LEMMA HeldBecomes ==
  ASSUME CallInv', NEW c \in Calls
  PROVE  /\ HeldUnit(c)' <=> call'[c].at \in Reserved \/ c \in retained'
         /\ HeldRun(c)' <=> call'[c].at \in Reserved \ {"run"} \/ c \in retained'
         /\ call'[c].at \in Asking \cup Reserved => MicrosOf(c)' = {} /\ Cardinality(MicrosOf(c)') = 0
<1>1. Guarded(c)' /\ ("ended" \notin Reserved) /\ Asking \cap Reserved = {} /\ "ended" \notin Asking
  BY DEF CallInv, Reserved, Asking
<1>2. call'[c].at \in Asking \cup Reserved => MicrosOf(c)' = {}
  BY <1>1 DEF Guarded, MicrosOf, Allowed
<1>3. Cardinality({}) = 0
  BY FS_EmptySet
<1> QED BY <1>1, <1>2, <1>3 DEF Guarded, HeldUnit, HeldRun, UnderWay

(* A row that is not an allow costs nobody anything. *)
LEMMA OtherRowsAreFree ==
  ASSUME CallTypes, NEW c \in Calls, NEW decision, NEW cost, decision # "allow",
         rows' = [rows EXCEPT ![c] = Append(@, [decision |-> decision, cost |-> cost])]
  PROVE  MicrosOf(c)' = MicrosOf(c)
<1> DEFINE row == [decision |-> decision, cost |-> cost]
<1>1. rows[c] \in Seq(Row) /\ rows'[c] = Append(rows[c], row)
  BY DEF CallTypes
<1>2. /\ DOMAIN rows'[c] = DOMAIN rows[c] \cup {Len(rows[c]) + 1}
      /\ rows'[c][Len(rows[c]) + 1] = row
      /\ \A i \in DOMAIN rows[c] : rows'[c][i] = rows[c][i]
  BY <1>1
<1>3. Allowed(c)' = Allowed(c)
  BY <1>2 DEF Allowed
<1>4. \A i \in Allowed(c) : rows'[c][i] = rows[c][i]
  BY <1>2 DEF Allowed
<1>5. {{i} \X (1 .. rows'[c][i].cost) : i \in Allowed(c)} = {{i} \X (1 .. rows[c][i].cost) : i \in Allowed(c)}
  BY <1>4
<1>6. MicrosOf(c)' = UNION {{i} \X (1 .. rows'[c][i].cost) : i \in Allowed(c)}
  BY <1>3, Zenon DEF MicrosOf
<1> QED BY <1>5, <1>6, Zenon DEF MicrosOf

(* The one allow row of a call costs what it says. *)
LEMMA AllowRowCosts ==
  ASSUME NEW c \in Calls, NEW amount \in Nat, rows'[c] = <<[decision |-> "allow", cost |-> amount]>>
  PROVE  IsFiniteSet(MicrosOf(c)') /\ Cardinality(MicrosOf(c)') = amount
<1>1. DOMAIN rows'[c] = {1} /\ rows'[c][1].decision = "allow" /\ rows'[c][1].cost = amount
  OBVIOUS
<1>2. MicrosOf(c)' = {1} \X (1 .. amount)
  BY <1>1 DEF MicrosOf, Allowed
<1>3. IsFiniteSet({1}) /\ Cardinality({1}) = 1
  BY FS_Singleton
<1>4. IsFiniteSet(1 .. amount) /\ Cardinality(1 .. amount) = amount
  BY FS_Interval
<1>5. /\ IsFiniteSet({1} \X (1 .. amount))
      /\ Cardinality({1} \X (1 .. amount)) = Cardinality({1}) * Cardinality(1 .. amount)
  BY <1>3, <1>4, FS_Product, Zenon
<1>6. Cardinality({1}) * Cardinality(1 .. amount) = amount
  BY <1>3, <1>4
<1> QED BY <1>2, <1>5, <1>6

(* A step that moves no money and no reservation. *)
LEMMA QuietMoves ==
  ASSUME CallInv, CallInv', MoneyInv, NEW c \in Calls,
         ledger' = ledger, unit' = unit, retained' = retained,
         call'[c].run = call[c].run \/ call[c].at \in Asking,
         call'[c].at \in Reserved <=> call[c].at \in Reserved,
         call'[c].at \in Reserved \ {"run"} <=> call[c].at \in Reserved \ {"run"},
         MicrosOf(c)' = MicrosOf(c)
  PROVE  MoneyMoves(c)
<1>1. (HeldUnit(c)' <=> HeldUnit(c)) /\ (HeldRun(c)' <=> HeldRun(c))
  <2>1. /\ HeldUnit(c)' <=> call'[c].at \in Reserved \/ c \in retained'
        /\ HeldRun(c)' <=> call'[c].at \in Reserved \ {"run"} \/ c \in retained'
    BY HeldBecomes
  <2>2. /\ HeldUnit(c) <=> call[c].at \in Reserved \/ c \in retained
        /\ HeldRun(c) <=> call[c].at \in Reserved \ {"run"} \/ c \in retained
    BY HeldIs
  <2> QED BY <2>1, <2>2, Zenon
<1>2. call'[c].run = call[c].run \/ (~HeldRun(c) /\ Cardinality(MicrosOf(c)) = 0)
  BY HeldIs
<1>3. IsFiniteSet(MicrosOf(c)) /\ Cardinality(MicrosOf(c)) \in Nat
  BY FS_CardinalityType DEF MoneyInv
<1>4. /\ \A r \in Runs : ledger[r].reserved \in Int /\ ledger[r].spent \in Int
      /\ unit.reserved \in Int /\ unit.spent \in Int /\ Estimate \in Nat
  BY CallAssumption DEF CallInv, CallTypes
<1> DEFINE hr == HeldRun(c)  hu == HeldUnit(c)  hrx == HeldRun(c)'  hux == HeldUnit(c)'
           n == Cardinality(MicrosOf(c))  nx == Cardinality(MicrosOf(c)')
<1>5. n = nx /\ (hr <=> hrx) /\ (hu <=> hux) /\ n \in Nat /\ (call'[c].run = call[c].run \/ (~hr /\ n = 0))
  BY <1>1, <1>2, <1>3, Zenon
<1>6. /\ \A r \in Runs :
           /\ ledger'[r].reserved = ledger[r].reserved + (IF call'[c].run = r /\ hrx THEN Estimate ELSE 0)
                                                       - (IF call[c].run = r /\ hr THEN Estimate ELSE 0)
           /\ ledger'[r].spent = ledger[r].spent + (IF call'[c].run = r THEN nx ELSE 0)
                                                 - (IF call[c].run = r THEN n ELSE 0)
      /\ unit'.reserved = unit.reserved + (IF hux THEN Estimate ELSE 0) - (IF hu THEN Estimate ELSE 0)
      /\ unit'.spent = unit.spent + nx - n
  <2> HIDE DEF hr, hu, hrx, hux, n, nx
  <2> QED BY <1>4, <1>5
<1> QED BY <1>3, <1>6 DEF MoneyMoves

(* MoneyMoves, for a call that stays on its run and had no row so far. *)
LEMMA MovesAre ==
  ASSUME CallInv, NEW c \in Calls, call'[c].run = call[c].run, call[c].run \in Runs,
         Cardinality(MicrosOf(c)) = 0, IsFiniteSet(MicrosOf(c)'),
         \A r \in Runs \ {call[c].run} :
           ledger'[r].reserved = ledger[r].reserved /\ ledger'[r].spent = ledger[r].spent,
         ledger'[call[c].run].reserved = ledger[call[c].run].reserved + (IF HeldRun(c)' THEN Estimate ELSE 0)
                                                                      - (IF HeldRun(c) THEN Estimate ELSE 0),
         ledger'[call[c].run].spent = ledger[call[c].run].spent + Cardinality(MicrosOf(c)'),
         unit'.reserved = unit.reserved + (IF HeldUnit(c)' THEN Estimate ELSE 0)
                                        - (IF HeldUnit(c) THEN Estimate ELSE 0),
         unit'.spent = unit.spent + Cardinality(MicrosOf(c)')
  PROVE  MoneyMoves(c)
<1> DEFINE nx == Cardinality(MicrosOf(c)')  hr == HeldRun(c)  hrx == HeldRun(c)'
<1>1. /\ \A r \in Runs : ledger[r].reserved \in Int /\ ledger[r].spent \in Int
      /\ unit.reserved \in Int /\ unit.spent \in Int /\ Estimate \in Nat
  BY CallAssumption DEF CallInv, CallTypes
<1>2. nx \in Nat
  BY FS_CardinalityType
<1>3. /\ ledger'[call[c].run].reserved = ledger[call[c].run].reserved + (IF hrx THEN Estimate ELSE 0)
                                                                      - (IF hr THEN Estimate ELSE 0)
      /\ ledger'[call[c].run].spent = ledger[call[c].run].spent + nx
      /\ unit'.spent = unit.spent + nx
  BY Zenon
<1>4. /\ \A r \in Runs :
           /\ ledger'[r].reserved = ledger[r].reserved + (IF call'[c].run = r /\ hrx THEN Estimate ELSE 0)
                                                       - (IF call[c].run = r /\ hr THEN Estimate ELSE 0)
           /\ ledger'[r].spent = ledger[r].spent + (IF call'[c].run = r THEN nx ELSE 0)
                                                 - (IF call[c].run = r THEN 0 ELSE 0)
      /\ unit'.spent = unit.spent + nx - 0
  <2> HIDE DEF nx, hr, hrx
  <2> QED BY <1>1, <1>2, <1>3
<1> QED BY <1>4, Zenon DEF MoneyMoves

(* The gates that reserve. *)
LEMMA UnitGateMoves ==
  ASSUME CallInv, CallInv', MoneyInv, NEW c \in Calls, UnitGate(c)
  PROVE  MoneyMoves(c)
<1>1. /\ CallTypes /\ c \notin retained /\ call[c].at = "unit" /\ retained' = retained /\ ledger' = ledger
      /\ call \in [Calls -> CallRecord]
  BY DEF CallInv, CallTypes, Guarded, UnitGate, At
<1>2. CASE Refuse(c, "unit_budget_exceeded", Estimate) /\ UNCHANGED unit
  <2>1. call'[c].at = "ended" /\ call'[c].run = call[c].run
    BY <1>1, <1>2 DEF Refuse, Go, CallRecord
  <2>2. MicrosOf(c)' = MicrosOf(c)
    BY <1>1, <1>2, OtherRowsAreFree DEF Refuse
  <2> QED BY <1>1, <1>2, <2>1, <2>2, QuietMoves DEF Asking, Reserved
<1>3. CASE /\ call' = [call EXCEPT ![c].at = "run", ![c].holds_unit = TRUE]
           /\ unit' = [unit EXCEPT !.reserved = @ + Estimate]
           /\ UNCHANGED rows
  <2>1. call'[c].at = "run" /\ call'[c].run = call[c].run
    BY <1>1, <1>3 DEF CallRecord
  <2>2. ~HeldUnit(c) /\ ~HeldRun(c) /\ MicrosOf(c) = {} /\ Cardinality(MicrosOf(c)) = 0
    BY <1>1, HeldIs DEF Asking
  <2>3. HeldUnit(c)' /\ ~HeldRun(c)'
    <3>1. /\ HeldUnit(c)' <=> call'[c].at \in Reserved \/ c \in retained'
          /\ HeldRun(c)' <=> call'[c].at \in Reserved \ {"run"} \/ c \in retained'
      BY HeldBecomes
    <3>2. call'[c].at \in Reserved /\ call'[c].at \notin Reserved \ {"run"} /\ c \notin retained'
      BY <1>1, <2>1 DEF Reserved
    <3> QED BY <3>1, <3>2, Zenon
  <2>4. MicrosOf(c)' = MicrosOf(c)
    BY <1>3 DEF MicrosOf, Allowed
  <2>5. /\ unit'.reserved = unit.reserved + Estimate - 0 /\ unit'.spent = unit.spent + 0
        /\ \A r \in Runs : ledger'[r].reserved = ledger[r].reserved + 0 - 0 /\ ledger'[r].spent = ledger[r].spent + 0
    <3>1. /\ Estimate \in Nat /\ unit.reserved \in Int /\ unit.spent \in Nat
          /\ unit'.reserved = unit.reserved + Estimate /\ unit'.spent = unit.spent
      BY <1>1, <1>3, CallAssumption DEF CallTypes
    <3>2. \A r \in Runs : ledger'[r].reserved = ledger[r].reserved + 0 - 0 /\ ledger'[r].spent = ledger[r].spent + 0
      BY <1>1 DEF CallTypes
    <3> QED BY <3>1, <3>2
  <2>6. call[c].run \in Runs
    BY <1>1 DEF CallInv, Guarded
  <2> QED BY <1>1, <2>1, <2>2, <2>3, <2>4, <2>5, <2>6, MovesAre, FS_EmptySet, Zenon
<1> QED BY <1>2, <1>3 DEF UnitGate

LEMMA RunGateMoves ==
  ASSUME CallInv, CallInv', MoneyInv, NEW c \in Calls, RunGate(c)
  PROVE  MoneyMoves(c)
<1> DEFINE run == call[c].run
<1>1. /\ CallTypes /\ c \notin retained /\ call[c].at = "run" /\ retained' = retained
      /\ call \in [Calls -> CallRecord] /\ run \in Runs
  BY DEF CallInv, CallTypes, Guarded, RunGate, At
<1>2. HeldUnit(c) /\ ~HeldRun(c) /\ MicrosOf(c) = {} /\ Cardinality(MicrosOf(c)) = 0
  <2>1. /\ HeldUnit(c) <=> call[c].at \in Reserved \/ c \in retained
        /\ HeldRun(c) <=> call[c].at \in Reserved \ {"run"} \/ c \in retained
        /\ call[c].at \in Asking \cup Reserved => MicrosOf(c) = {} /\ Cardinality(MicrosOf(c)) = 0
    BY HeldIs
  <2>2. call[c].at \in Reserved /\ call[c].at \notin Reserved \ {"run"}
    BY <1>1 DEF Reserved
  <2> QED BY <1>1, <2>1, <2>2
<1>3. /\ HeldUnit(c)' <=> call'[c].at \in Reserved \/ c \in retained'
      /\ HeldRun(c)' <=> call'[c].at \in Reserved \ {"run"} \/ c \in retained'
  BY HeldBecomes
<1>4. CASE /\ call' = [call EXCEPT ![c].at = "ended", ![c].holds_unit = FALSE]
           /\ rows' = [rows EXCEPT ![c] = Append(@, [decision |-> "budget_exceeded", cost |-> Estimate])]
           /\ unit' = [unit EXCEPT !.reserved = @ - Estimate]
           /\ UNCHANGED ledger
  <2>1. call'[c].at = "ended" /\ call'[c].run = call[c].run
    BY <1>1, <1>4 DEF CallRecord
  <2>2. ~HeldUnit(c)' /\ ~HeldRun(c)'
    <3>1. call'[c].at \notin Reserved /\ c \notin retained'
      BY <1>1, <2>1 DEF Reserved
    <3> QED BY <1>3, <3>1, Zenon
  <2>3. MicrosOf(c)' = MicrosOf(c)
    BY <1>1, <1>4, OtherRowsAreFree
  <2>4. /\ Estimate \in Nat /\ unit.reserved \in Int /\ unit.spent \in Nat
        /\ unit'.reserved = unit.reserved - Estimate /\ unit'.spent = unit.spent
    BY <1>1, <1>4, CallAssumption DEF CallTypes
  <2>5. unit'.reserved = unit.reserved + 0 - Estimate /\ unit'.spent = unit.spent + 0
    BY <2>4
  <2>6. ledger' = ledger
    BY <1>4
  <2>7. \A r \in Runs : ledger'[r].reserved = ledger[r].reserved + 0 - 0 /\ ledger'[r].spent = ledger[r].spent + 0
    BY <1>1, <2>6 DEF CallTypes
  <2> QED BY <1>1, <1>2, <2>1, <2>2, <2>3, <2>5, <2>6, <2>7, MovesAre, FS_EmptySet, Zenon
<1>5. CASE /\ call' = [call EXCEPT ![c].at = "taint", ![c].holds_run = TRUE]
           /\ ledger' = [ledger EXCEPT ![run].reserved = @ + Estimate, ![run].steps = @ + 1]
           /\ UNCHANGED <<rows, unit>>
  <2>1. call'[c].at = "taint" /\ call'[c].run = call[c].run
    BY <1>1, <1>5 DEF CallRecord
  <2>2. HeldUnit(c)' /\ HeldRun(c)'
    <3>1. call'[c].at \in Reserved /\ call'[c].at \in Reserved \ {"run"}
      BY <2>1 DEF Reserved
    <3> QED BY <1>3, <3>1, Zenon
  <2>3. MicrosOf(c)' = MicrosOf(c)
    BY <1>5 DEF MicrosOf, Allowed
  <2>4. /\ unit'.reserved = unit.reserved + Estimate - Estimate /\ unit'.spent = unit.spent + 0
    BY <1>1, <1>5, CallAssumption DEF CallTypes
  <2>5. ledger[run] \in [reserved : Int, spent : Nat, steps : Nat] /\ Estimate \in Nat
    BY <1>1, CallAssumption DEF CallTypes
  <2>6. /\ \A r \in Runs \ {run} : ledger'[r] = ledger[r]
        /\ ledger'[run].reserved = ledger[run].reserved + Estimate
        /\ ledger'[run].spent = ledger[run].spent
    BY <1>1, <1>5 DEF CallTypes
  <2>7. /\ ledger'[run].reserved = ledger[run].reserved + Estimate - 0
        /\ ledger'[run].spent = ledger[run].spent + 0
    BY <2>5, <2>6
  <2>8. \A r \in Runs \ {call[c].run} :
          ledger'[r].reserved = ledger[r].reserved /\ ledger'[r].spent = ledger[r].spent
    BY <2>6
  <2> QED BY <1>1, <1>2, <2>1, <2>2, <2>3, <2>4, <2>7, <2>8, MovesAre, FS_EmptySet, Zenon
<1> QED BY <1>4, <1>5 DEF RunGate

(* The guard's terminal transition. *)
LEMMA SettleMoves ==
  ASSUME CallInv, CallInv', MoneyInv, NEW c \in Calls, NEW stage \in {"ended", "judge"}, NEW outcome, NEW usage,
         settle_now(c, stage, outcome, usage), call[c].at \in {"sent", "body"}
  PROVE  MoneyMoves(c)
<1> DEFINE run == call[c].run
<1>1. /\ CallTypes /\ c \notin retained /\ call[c].at \in Reserved /\ call[c].at \in Reserved \ {"run"}
      /\ call \in [Calls -> CallRecord] /\ run \in Runs /\ rows[c] = <<>> /\ rows \in [Calls -> Seq(Row)]
  BY DEF CallInv, CallTypes, Guarded, Reserved
<1>2. HeldUnit(c) /\ HeldRun(c) /\ MicrosOf(c) = {} /\ Cardinality(MicrosOf(c)) = 0
  BY <1>1, HeldIs
<1>3. call' = [call EXCEPT ![c].at = stage, ![c].state = outcome, ![c].holds_run = FALSE, ![c].holds_unit = FALSE]
  BY DEF settle_now
<1>4. call'[c].at = stage /\ call'[c].run = call[c].run
  BY <1>1, <1>3 DEF CallRecord
<1>5. (HeldUnit(c)' <=> c \in retained') /\ (HeldRun(c)' <=> c \in retained')
  <2>1. /\ HeldUnit(c)' <=> call'[c].at \in Reserved \/ c \in retained'
        /\ HeldRun(c)' <=> call'[c].at \in Reserved \ {"run"} \/ c \in retained'
    BY HeldBecomes
  <2>2. call'[c].at \notin Reserved
    BY <1>4 DEF Reserved
  <2> QED BY <2>1, <2>2
<1>6. /\ ledger[run] \in [reserved : Int, spent : Nat, steps : Nat] /\ Estimate \in Nat
      /\ unit \in [reserved : Int, spent : Nat]
  BY <1>1, CallAssumption DEF CallTypes
<1>7. ASSUME NEW amount \in Nat, SettleBoth(c, amount), retained' = retained,
             IsFiniteSet(MicrosOf(c)'), Cardinality(MicrosOf(c)') = amount
      PROVE  MoneyMoves(c)
  <2>1. /\ \A r \in Runs \ {run} : ledger'[r] = ledger[r]
        /\ ledger'[run].reserved = ledger[run].reserved - Estimate
        /\ ledger'[run].spent = ledger[run].spent + amount
        /\ unit'.reserved = unit.reserved - Estimate /\ unit'.spent = unit.spent + amount
    BY <1>1, <1>7, SettleBothIs
  <2>2. /\ ledger'[run].reserved = ledger[run].reserved + 0 - Estimate
        /\ unit'.reserved = unit.reserved + 0 - Estimate
    BY <1>6, <2>1
  <2>3. ~HeldUnit(c)' /\ ~HeldRun(c)'
    BY <1>1, <1>5, <1>7, Zenon
  <2>4. \A r \in Runs \ {call[c].run} :
          ledger'[r].reserved = ledger[r].reserved /\ ledger'[r].spent = ledger[r].spent
    BY <2>1
  <2> QED BY <1>1, <1>2, <1>4, <1>7, <2>1, <2>2, <2>3, <2>4, MovesAre, Zenon
<1>8. disposition(outcome) \in {"Release", "Retain", "Charge"}
  BY DEF disposition
<1>9. CASE disposition(outcome) = "Release"
  <2>1. SettleBoth(c, 0) /\ rows' = rows /\ retained' = retained
    BY <1>9 DEF settle_now
  <2>2. MicrosOf(c)' = {}
    BY <1>2, <2>1 DEF MicrosOf, Allowed
  <2> QED BY <1>7, <2>1, <2>2, FS_EmptySet
<1>10. CASE disposition(outcome) = "Retain"
  <2>1. retained' = retained \cup {c} /\ ledger' = ledger /\ unit' = unit /\ rows' = rows
    BY <1>10 DEF settle_now
  <2>2. MicrosOf(c)' = {}
    BY <1>2, <2>1 DEF MicrosOf, Allowed
  <2>3. HeldUnit(c)' /\ HeldRun(c)'
    BY <1>5, <2>1
  <2>4. /\ ledger'[run].reserved = ledger[run].reserved + Estimate - Estimate
        /\ ledger'[run].spent = ledger[run].spent + 0
        /\ unit'.reserved = unit.reserved + Estimate - Estimate /\ unit'.spent = unit.spent + 0
    BY <1>6, <2>1
  <2> QED BY <1>1, <1>2, <1>4, <2>1, <2>2, <2>3, <2>4, MovesAre, FS_EmptySet, Zenon
<1>11. CASE disposition(outcome) = "Charge"
  <2>1. PICK amount \in Nat :
          /\ SettleBoth(c, amount) /\ retained' = retained
          /\ rows' = [rows EXCEPT ![c] = Append(@, [decision |-> "allow", cost |-> amount])]
    BY <1>1, <1>11, SettleAmountIs DEF settle_now
  <2>2. rows'[c] = Append(rows[c], [decision |-> "allow", cost |-> amount])
    BY <1>1, <2>1
  <2>3. rows'[c] = <<[decision |-> "allow", cost |-> amount]>>
    BY <1>1, <2>2
  <2> QED BY <1>7, <2>1, <2>3, AllowRowCosts
<1> QED BY <1>8, <1>9, <1>10, <1>11

(* A step of one call adds no row to another's, and retains no other.      *)
LEMMA OneCallWrites ==
  ASSUME CallTypes, NEW c \in Calls, StepOf(c)
  PROVE  \A d \in Calls \ {c} : rows'[d] = rows[d] /\ (d \in retained' <=> d \in retained)
<1> DEFINE Wrote == /\ \/ rows' = rows
                       \/ \E row : rows' = [rows EXCEPT ![c] = Append(@, row)]
                    /\ retained' = retained \/ retained' = retained \cup {c}
           Kept == retained' = retained
<1>1. Kept /\ rows' = rows => Wrote
  OBVIOUS
<1>2. ASSUME NEW decision, NEW cost, Kept, Refuse(c, decision, cost) PROVE Wrote
  BY <1>2 DEF Refuse
<1>3. ASSUME NEW stage, NEW outcome, NEW usage, settle_now(c, stage, outcome, usage) PROVE Wrote
  <2>1. disposition(outcome) \in {"Release", "Retain", "Charge"}
    BY DEF disposition
  <2>2. CASE disposition(outcome) = "Release"
    BY <1>3, <2>2 DEF settle_now
  <2>3. CASE disposition(outcome) = "Retain"
    BY <1>3, <2>3 DEF settle_now
  <2>4. CASE disposition(outcome) = "Charge"
    BY <1>3, <2>4, Zenon DEF settle_now
  <2> QED BY <2>1, <2>2, <2>3, <2>4
<1>4. ASSUME NEW run, NEW req, Arrive(c, run, req) PROVE Wrote
  BY <1>1, <1>4 DEF Arrive, money
<1>5. ASSUME CheckKilled(c) PROVE Wrote
  <2>1. Kept /\ (rows' = rows \/ Refuse(c, "killed", Estimate))
    BY <1>5 DEF CheckKilled, money
  <2> QED BY <1>1, <1>2, <2>1, Zenon
<1>6. ASSUME ScanPrompt(c) PROVE Wrote
  <2>1. Kept /\ (rows' = rows \/ Refuse(c, "dlp_blocked", 0))
    BY <1>6 DEF ScanPrompt, money
  <2> QED BY <1>1, <1>2, <2>1, Zenon
<1>7. ASSUME LookupCache(c) PROVE Wrote
  <2>1. Kept /\ (rows' = rows \/ Refuse(c, "cache_hit", 0))
    BY <1>7 DEF LookupCache, money
  <2> QED BY <1>1, <1>2, <2>1, Zenon
<1>8. ASSUME NEW loops, NEW wasm, EvaluatePolicy(c, loops, wasm) PROVE Wrote
  <2>1. Kept /\ (rows' = rows \/ \E d : Refuse(c, d, Estimate))
    BY <1>8, Zenon DEF EvaluatePolicy, money
  <2> QED BY <1>1, <1>2, <2>1, Zenon
<1>9. ASSUME NEW decision, AskWardryx(c, decision) PROVE Wrote
  <2>1. Kept /\ (rows' = rows \/ \E d : Refuse(c, d, 0))
    BY <1>9, Zenon DEF AskWardryx, money
  <2> QED BY <1>1, <1>2, <2>1, Zenon
<1>10. ASSUME UnitGate(c) PROVE Wrote
  <2>1. Kept /\ (rows' = rows \/ Refuse(c, "unit_budget_exceeded", Estimate))
    BY <1>10 DEF UnitGate
  <2> QED BY <1>1, <1>2, <2>1, Zenon
<1>11. ASSUME RunGate(c) PROVE Wrote
  <2>1. Kept /\ (\/ rows' = rows
                 \/ rows' = [rows EXCEPT ![c] = Append(@, [decision |-> "budget_exceeded", cost |-> Estimate])])
    BY <1>11 DEF RunGate
  <2> QED BY <2>1, Zenon
<1>12. ASSUME RaiseTaint(c) \/ ProviderReceives(c) \/ StreamChunk(c) PROVE Wrote
  BY <1>1, <1>12 DEF RaiseTaint, ProviderReceives, StreamChunk, money
<1>13. ASSUME NEW answer, SendAnswers(c, answer) PROVE Wrote
  BY <1>1, <1>13 DEF SendAnswers, money
<1>14. ASSUME SendFails(c) \/ BodyBreaks(c) \/ BodyEnds(c) PROVE Wrote
  BY <1>3, <1>14, Zenon DEF SendFails, BodyBreaks, BodyEnds
<1>15. ASSUME Cancel(c) PROVE Wrote
  <2>1. \/ Kept /\ rows' = rows
        \/ \E usage : settle_now(c, "ended", call[c].state, usage)
    BY <1>15, Zenon DEF Cancel, money
  <2> QED BY <1>1, <1>3, <2>1, Zenon
<1>16. ASSUME judge_model_tool_calls(c) PROVE Wrote
  <2>1. Kept /\ (rows' = rows \/ rows' = [rows EXCEPT ![c] = Append(@, [decision |-> "taint_blocked", cost |-> 0])])
    BY <1>16 DEF judge_model_tool_calls, money
  <2> QED BY <2>1, Zenon
<1>17. Wrote
  <2> HIDE DEF Wrote, Kept
  <2> QED BY <1>4, <1>5, <1>6, <1>7, <1>8, <1>9, <1>10, <1>11, <1>12, <1>13, <1>14, <1>15, <1>16 DEF StepOf
<1> QED BY <1>17 DEF CallTypes

(* The steps that reserve nothing and settle nothing. *)
LEMMA QuietSteps ==
  ASSUME CallInv, CallInv', MoneyInv, NEW c \in Calls,
         \/ \E run \in Runs, req \in Requests : Arrive(c, run, req)
         \/ CheckKilled(c) \/ ScanPrompt(c) \/ LookupCache(c)
         \/ \E loops, wasm \in BOOLEAN : EvaluatePolicy(c, loops, wasm)
         \/ \E decision \in {"allow", "deny", "hold"} : AskWardryx(c, decision)
         \/ RaiseTaint(c) \/ ProviderReceives(c)
         \/ \E answer \in Answers : SendAnswers(c, answer)
         \/ At(c, "pdp") /\ Go(c, "ended") /\ UNCHANGED <<rows, money>>
         \/ StreamChunk(c) \/ judge_model_tool_calls(c)
  PROVE  MoneyMoves(c)
<1>1. CallTypes /\ call \in [Calls -> CallRecord] /\ call[c] \in CallRecord
  BY DEF CallInv, CallTypes
<1> DEFINE
      Still == ledger' = ledger /\ unit' = unit /\ retained' = retained
      Same == \/ rows' = rows
              \/ \E decision, cost : /\ decision # "allow"
                                     /\ rows' = [rows EXCEPT ![c] = Append(@, [decision |-> decision, cost |-> cost])]
      Early == call[c].at \in Asking /\ call'[c].at \in Asking \cup {"ended"}
      Sent == /\ call'[c].run = call[c].run
              /\ \/ call[c].at \in {"taint", "sent", "body"} /\ call'[c].at \in {"taint", "sent", "body"}
                 \/ call[c].at = "judge" /\ call'[c].at = "ended"
<1>2. ASSUME Still, Same, Early \/ Sent PROVE MoneyMoves(c)
  <2>1. MicrosOf(c)' = MicrosOf(c)
    <3>1. CASE rows' = rows
      BY <3>1 DEF MicrosOf, Allowed
    <3>2. ASSUME NEW decision, NEW cost, decision # "allow",
                 rows' = [rows EXCEPT ![c] = Append(@, [decision |-> decision, cost |-> cost])]
          PROVE  MicrosOf(c)' = MicrosOf(c)
      BY <1>1, <3>2, OtherRowsAreFree
    <3> QED BY <1>2, <3>1, <3>2, Zenon
  <2>2. /\ call'[c].run = call[c].run \/ call[c].at \in Asking
        /\ call'[c].at \in Reserved <=> call[c].at \in Reserved
        /\ call'[c].at \in Reserved \ {"run"} <=> call[c].at \in Reserved \ {"run"}
    BY <1>2 DEF Asking, Reserved
  <2> QED BY <1>2, <2>1, <2>2, QuietMoves
<1>3. ASSUME NEW stage, Go(c, stage) PROVE call'[c].at = stage /\ call'[c].run = call[c].run
  BY <1>1, <1>3 DEF Go, CallRecord
<1>4. ASSUME NEW decision, NEW cost, Refuse(c, decision, cost), decision # "allow"
      PROVE  Same /\ call'[c].at = "ended"
  BY <1>3, <1>4, Zenon DEF Refuse
<1>5. ASSUME NEW run, NEW req, Arrive(c, run, req) PROVE MoneyMoves(c)
  <2>1. Still /\ rows' = rows /\ call[c].at = "new"
    BY <1>5 DEF Arrive, At, money
  <2>2. call'[c].at = "kill"
    BY <1>1, <1>5 DEF Arrive, CallRecord
  <2> QED BY <1>2, <2>1, <2>2 DEF Asking
<1>6. ASSUME Still, call[c].at \in Asking,
             \/ rows' = rows /\ \E stage \in Asking \cup {"ended"} : Go(c, stage)
             \/ \E decision, cost : decision # "allow" /\ Refuse(c, decision, cost)
      PROVE  MoneyMoves(c)
  <2>1. CASE rows' = rows /\ \E stage \in Asking \cup {"ended"} : Go(c, stage)
    <3>1. Same /\ call'[c].at \in Asking \cup {"ended"}
      BY <1>3, <2>1, Zenon
    <3> QED BY <1>2, <1>6, <3>1, Zenon
  <2>2. CASE \E decision, cost : decision # "allow" /\ Refuse(c, decision, cost)
    <3>1. Same /\ call'[c].at = "ended"
      BY <1>4, <2>2, Zenon
    <3>2. Early
      BY <1>6, <3>1
    <3> QED BY <1>2, <1>6, <3>1, <3>2, Zenon
  <2> QED BY <1>6, <2>1, <2>2, Zenon
<1>7. {"dlp", "cache", "policy", "pdp", "unit", "ended", "kill"} \subseteq Asking \cup {"ended"}
  BY DEF Asking
<1>8. ASSUME CheckKilled(c) PROVE MoneyMoves(c)
  <2>1. Still /\ call[c].at \in Asking
    BY <1>8 DEF CheckKilled, At, Asking, money
  <2>2. (rows' = rows /\ Go(c, "dlp")) \/ Refuse(c, "killed", Estimate)
    BY <1>8 DEF CheckKilled
  <2>3. "killed" # "allow" /\ "dlp" \in Asking \cup {"ended"}
    BY <1>7
  <2> QED BY <1>6, <2>1, <2>2, <2>3, Zenon
<1>9. ASSUME ScanPrompt(c) PROVE MoneyMoves(c)
  <2>1. Still /\ call[c].at \in Asking
    BY <1>9 DEF ScanPrompt, At, Asking, money
  <2>2. (rows' = rows /\ (Go(c, "cache") \/ Go(c, "ended"))) \/ Refuse(c, "dlp_blocked", 0)
    BY <1>9 DEF ScanPrompt
  <2>3. "dlp_blocked" # "allow" /\ "cache" \in Asking \cup {"ended"} /\ "ended" \in Asking \cup {"ended"}
    BY <1>7
  <2> QED BY <1>6, <2>1, <2>2, <2>3, Zenon
<1>10. ASSUME LookupCache(c) PROVE MoneyMoves(c)
  <2>1. Still /\ call[c].at \in Asking
    BY <1>10 DEF LookupCache, At, Asking, money
  <2>2. (rows' = rows /\ Go(c, "policy")) \/ Refuse(c, "cache_hit", 0)
    BY <1>10 DEF LookupCache
  <2>3. "cache_hit" # "allow" /\ "policy" \in Asking \cup {"ended"}
    BY <1>7
  <2> QED BY <1>6, <2>1, <2>2, <2>3, Zenon
<1>11. ASSUME NEW loops, NEW wasm, EvaluatePolicy(c, loops, wasm) PROVE MoneyMoves(c)
  <2>1. Still /\ call[c].at \in Asking
    BY <1>11 DEF EvaluatePolicy, At, Asking, money
  <2>2. (rows' = rows /\ Go(c, "pdp")) \/ \E d : d # "allow" /\ Refuse(c, d, Estimate)
    BY <1>11, Zenon DEF EvaluatePolicy
  <2>3. "pdp" \in Asking \cup {"ended"}
    BY <1>7
  <2> QED BY <1>6, <2>1, <2>2, <2>3, Zenon
<1>12. ASSUME NEW decision \in {"allow", "deny", "hold"}, AskWardryx(c, decision) PROVE MoneyMoves(c)
  <2>1. Still /\ call[c].at \in Asking
    BY <1>12 DEF AskWardryx, At, Asking, money
  <2>2. decision # "allow" => WithheldBy[decision] # "allow"
    BY <1>12 DEF WithheldBy
  <2>3. (rows' = rows /\ Go(c, "unit")) \/ \E d : d # "allow" /\ Refuse(c, d, 0)
    BY <1>12, <2>2, Zenon DEF AskWardryx
  <2>4. "unit" \in Asking \cup {"ended"}
    BY <1>7
  <2> QED BY <1>6, <2>1, <2>3, <2>4, Zenon
<1>13. ASSUME RaiseTaint(c) PROVE MoneyMoves(c)
  <2>1. Still /\ rows' = rows /\ call[c].at = "taint"
    BY <1>13 DEF RaiseTaint, At, money
  <2>2. call'[c].at = "sent" /\ call'[c].run = call[c].run
    BY <1>1, <1>13 DEF RaiseTaint, CallRecord
  <2> QED BY <1>2, <2>1, <2>2
<1>14. ASSUME ProviderReceives(c) PROVE MoneyMoves(c)
  <2>1. Still /\ rows' = rows /\ call[c].at = "sent" /\ call' = call
    BY <1>14 DEF ProviderReceives, At, money
  <2> QED BY <1>2, <2>1
<1>15. ASSUME NEW answer, SendAnswers(c, answer) PROVE MoneyMoves(c)
  <2>1. Still /\ rows' = rows /\ call[c].at = "sent"
    BY <1>15 DEF SendAnswers, At, money
  <2>2. call'[c].at = "body" /\ call'[c].run = call[c].run
    BY <1>1, <1>15 DEF SendAnswers, CallRecord
  <2> QED BY <1>2, <2>1, <2>2
<1>16. ASSUME At(c, "pdp"), Go(c, "ended"), UNCHANGED <<rows, money>> PROVE MoneyMoves(c)
  <2>1. Still /\ rows' = rows /\ call[c].at \in Asking
    BY <1>16 DEF At, Asking, money
  <2>2. "ended" \in Asking \cup {"ended"}
    BY <1>7
  <2> QED BY <1>6, <1>16, <2>1, <2>2, Zenon
<1>17. ASSUME StreamChunk(c) PROVE MoneyMoves(c)
  <2>1. Still /\ rows' = rows /\ call[c].at = "body"
    BY <1>17 DEF StreamChunk, At, money
  <2>2. call'[c].at = call[c].at /\ call'[c].run = call[c].run
    BY <1>1, <1>17 DEF StreamChunk, CallRecord
  <2> QED BY <1>2, <2>1, <2>2
<1>18. ASSUME judge_model_tool_calls(c) PROVE MoneyMoves(c)
  <2>1. Still /\ call[c].at = "judge" /\ Go(c, "ended")
    BY <1>18 DEF judge_model_tool_calls, At, money
  <2>2. Same
    <3>1. \/ rows' = rows
          \/ rows' = [rows EXCEPT ![c] = Append(@, [decision |-> "taint_blocked", cost |-> 0])]
      BY <1>18 DEF judge_model_tool_calls
    <3>2. "taint_blocked" # "allow"
      OBVIOUS
    <3> QED BY <3>1, <3>2, Zenon
  <2>3. Sent
    BY <1>3, <2>1
  <2> QED BY <1>2, <2>1, <2>2, <2>3, Zenon
<1> QED BY <1>5, <1>8, <1>9, <1>10, <1>11, <1>12, <1>13, <1>14, <1>15, <1>16, <1>17, <1>18

LEMMA MoneyInvInit == CallInit => MoneyInv
<1> SUFFICES ASSUME CallInit PROVE MoneyInv
  OBVIOUS
<1>1. \A c \in Calls : MicrosOf(c) = {}
  BY DEF CallInit, MicrosOf, Allowed
<1>2. Traced(Calls) = {} /\ \A r \in Runs : Traced(CallsOf(r)) = {}
  BY <1>1 DEF Traced, CallsOf
<1>3. \A r \in Runs : RunHolders(r) = {}
  BY DEF CallInit, RunHolders
<1>4. {c \in Calls : (UnderWay(c) /\ call[c].holds_unit) \/ c \in retained} = {}
  BY DEF CallInit
<1>5. Estimate * 0 = 0
  BY CallAssumption
<1>6. Cardinality({}) = 0 /\ IsFiniteSet({})
  BY FS_EmptySet
<1>7. /\ \A r \in Runs : ledger[r].reserved = 0 /\ ledger[r].spent = 0
      /\ unit.reserved = 0 /\ unit.spent = 0
  BY DEF CallInit
<1>8. NothingLeaks
  BY <1>3, <1>4, <1>5, <1>6, <1>7, Zenon DEF NothingLeaks
<1>9. TraceMatchesSpend
  BY <1>2, <1>6, <1>7, Zenon DEF TraceMatchesSpend
<1> QED BY <1>1, <1>2, <1>6, <1>8, <1>9 DEF MoneyInv

LEMMA MoneyInvStep == CallInv /\ CallInv' /\ MoneyInv /\ [CallNext]_callvars => MoneyInv'
<1> SUFFICES ASSUME CallInv, CallInv', MoneyInv, [CallNext]_callvars PROVE MoneyInv'
  OBVIOUS
<1>1. ASSUME call' = call, rows' = rows, ledger' = ledger, unit' = unit, retained' = retained
      PROVE  MoneyInv'
  <2>1. \A c \in Calls : MicrosOf(c)' = MicrosOf(c)
    BY <1>1 DEF MicrosOf, Allowed
  <2>2. NothingLeaks'
    BY <1>1 DEF MoneyInv, NothingLeaks, RunHolders, UnderWay
  <2>3. Traced(Calls)' = Traced(Calls) /\ \A r \in Runs : Traced(CallsOf(r))' = Traced(CallsOf(r))
    BY <1>1 DEF Traced, CallsOf, MicrosOf, Allowed
  <2>4. TraceMatchesSpend'
    BY <1>1, <2>3 DEF MoneyInv, TraceMatchesSpend
  <2> QED BY <2>1, <2>2, <2>3, <2>4 DEF MoneyInv
<1>2. ASSUME NEW run \in Runs, Kill(run) PROVE MoneyInv'
  BY <1>1, <1>2 DEF Kill, money
<1>3. CASE UNCHANGED callvars
  BY <1>1, <1>3 DEF callvars
<1>4. ASSUME NEW c \in Calls, StepOf(c) PROVE MoneyInv'
  <2>1. CallTypes
    BY DEF CallInv
  <2>2. \A d \in Calls \ {c} : call'[d] = call[d] /\ rows'[d] = rows[d] /\ (d \in retained' <=> d \in retained)
    BY <1>4, <2>1, OneCallMoves, OneCallWrites
  <2>3. ASSUME NEW stage \in {"ended", "judge"}, NEW outcome, NEW usage, settle_now(c, stage, outcome, usage),
               call[c].at \in {"sent", "body"}
        PROVE  MoneyMoves(c)
    BY <2>3, SettleMoves
  <2>4. ASSUME SendFails(c) \/ BodyBreaks(c) \/ BodyEnds(c) PROVE MoneyMoves(c)
    <3>1. call[c].at \in {"sent", "body"}
      BY <2>4 DEF SendFails, BodyBreaks, BodyEnds, At
    <3>2. \E stage \in {"ended", "judge"} : \E outcome, usage : settle_now(c, stage, outcome, usage)
      BY <2>4, Zenon DEF SendFails, BodyBreaks, BodyEnds
    <3> QED BY <2>3, <3>1, <3>2, Zenon
  <2>5. ASSUME Cancel(c) PROVE MoneyMoves(c)
    <3>1. \/ At(c, "pdp") /\ Go(c, "ended") /\ UNCHANGED <<rows, money>>
          \/ /\ call[c].at \in {"sent", "body"}
             /\ \E stage \in {"ended", "judge"} : \E outcome, usage : settle_now(c, stage, outcome, usage)
      <4>1. ASSUME At(c, "sent") \/ At(c, "body") PROVE call[c].at \in {"sent", "body"}
        BY <4>1 DEF At
      <4> QED BY <2>5, <4>1, Zenon DEF Cancel
    <3>2. CASE At(c, "pdp") /\ Go(c, "ended") /\ UNCHANGED <<rows, money>>
      BY <3>2, QuietSteps
    <3> QED BY <2>3, <3>1, <3>2, Zenon
  <2>6. MoneyMoves(c)
    BY <1>4, <2>4, <2>5, QuietSteps, UnitGateMoves, RunGateMoves, Zenon DEF StepOf
  <2> QED BY <2>2, <2>6, MoneyStays
<1> QED BY <1>2, <1>3, <1>4, StepsAre

LEMMA MoneyAlways == CallSpec => [](CallInv /\ MoneyInv)
<1> QED BY CallInitInv, CallInvStep, MoneyInvInit, MoneyInvStep, PTL DEF CallSpec

(* Every call is at a stage of the handler and nobody is owed a negative   *)
(* amount (proxy.rs handle_call, SettleGuard).                             *)
THEOREM CallTypeCorrect == CallSpec => []CallTypeOK
<1>1. CallInv /\ MoneyInv => CallTypeOK
  <2> SUFFICES ASSUME CallInv, MoneyInv PROVE CallTypeOK
    OBVIOUS
  <2>1. ASSUME NEW S \in SUBSET Calls PROVE Estimate * Cardinality(S) >= 0
    <3>1. Cardinality(S) \in Nat /\ Estimate \in Nat
      BY CallAssumption, FS_Subset, FS_CardinalityType
    <3>2. Estimate * Cardinality(S) \in Nat
      BY <3>1, OneMore
    <3> QED BY <3>2
  <2>2. \A r \in Runs : RunHolders(r) \in SUBSET Calls
    BY DEF RunHolders
  <2>3. /\ \A r \in Runs : ledger[r].reserved >= 0
        /\ unit.reserved >= 0
    BY <2>1, <2>2, Zenon DEF MoneyInv, NothingLeaks
  <2>4. \A r \in Runs : ledger[r].spent >= 0
    BY DEF CallInv, CallTypes
  <2>5. /\ config \in Configs /\ unit.spent >= 0
        /\ \A c \in Calls : call[c].at \in Stages /\ call[c].state \in CallOutcome
    BY DEF CallInv, CallTypes, CallRecord
  <2> QED BY <2>3, <2>4, <2>5 DEF CallTypeOK
<1> QED BY <1>1, MoneyAlways, PTL

(* The money of a call, whole: nothing reserved leaks, the allow rows and  *)
(* the two ledgers agree to the micro-dollar, and what the provider got is *)
(* charged or kept outstanding (proxy.rs SettleGuard, settle_now).         *)
THEOREM CallMoneyAccounted == CallSpec => []CallAccounted
<1>1. CallInv /\ MoneyInv => CallAccounted
  BY CallIsGood DEF MoneyInv, CallAccounted
<1> QED BY <1>1, MoneyAlways, PTL

-----------------------------------------------------------------------------
(* The trace (TraceSink): where a row is. *)

(* What every variable is.  A segment's name is an instance and a number.  *)
TraceTypes ==
  /\ traced \in Nat /\ instances \in Nat
  /\ instance \in [Gateways -> Nat] /\ seq \in [Gateways -> Nat]
  /\ buffer \in [Gateways -> SUBSET (1 .. traced)] /\ gone \subseteq 1 .. traced
  /\ batches \subseteq [of : Gateways, rows : SUBSET (1 .. traced), name : {<<>>} \cup (Nat \X Nat)]
  /\ DOMAIN segments \subseteq Nat \X Nat
  /\ segments \in [DOMAIN segments -> [rows : SUBSET (1 .. traced), whole : BOOLEAN]]

(* No two processes have one token, and only a process holds rows. *)
TokensApart ==
  /\ \A g \in Gateways : instance[g] =< instances
  /\ \A g, h \in Gateways : instance[g] = instance[h] /\ instance[g] # 0 => g = h
  /\ \A b \in batches : instance[b.of] # 0
  /\ \A g \in Gateways : instance[g] = 0 => buffer[g] = {}

(* A name is behind the number its process is at. *)
NamesUsed ==
  \A n \in DOMAIN segments :
    /\ n[1] # 0 /\ n[1] =< instances
    /\ \A g \in Gateways : instance[g] = n[1] => n[2] < seq[g]

(* A segment under way is one batch's, and nobody reads it yet. *)
NamesApart ==
  /\ \A b \in batches : b.name # <<>> => b.name \in DOMAIN segments /\ ~segments[b.name].whole
  /\ \A b, c \in batches : b.name = c.name /\ b.name # <<>> => b = c

(* A row is in one place. *)
RowsApart ==
  /\ \A g, h \in Gateways : g # h => buffer[g] \cap buffer[h] = {}
  /\ \A g \in Gateways, b \in batches : buffer[g] \cap b.rows = {}
  /\ \A g \in Gateways, n \in Whole : buffer[g] \cap segments[n].rows = {}
  /\ \A b, c \in batches : b # c => b.rows \cap c.rows = {}
  /\ \A b \in batches, n \in Whole : b.rows \cap segments[n].rows = {}
  /\ \A m, n \in Whole : m # n => segments[m].rows \cap segments[n].rows = {}

TraceInv == TraceTypes /\ TokensApart /\ NamesUsed /\ NamesApart /\ RowsApart /\ RowsKept

(* What taking a buffer's rows, with or without a new one, leaves true.  *)
LEMMA RowsTaken ==
  ASSUME TraceInv, NEW g \in Gateways, instance[g] # 0, NEW batch,
         batch = buffer[g] \/ batch = buffer[g] \cup {traced + 1},
         traced' = IF batch = buffer[g] THEN traced ELSE traced + 1,
         \/ buffer' = [buffer EXCEPT ![g] = {}] /\ batches' = batches \cup Taken(g, batch)
         \/ buffer' = [buffer EXCEPT ![g] = batch] /\ batches' = batches,
         UNCHANGED <<instance, seq, segments, instances, gone>>
  PROVE  TraceInv'
<1> USE DEF TraceInv
<1>1. PICK new : new = [of |-> g, rows |-> batch, name |-> <<>>]
  OBVIOUS
<1>2. /\ traced' \in Nat /\ 1 .. traced \subseteq 1 .. traced' /\ batch \subseteq 1 .. traced'
      /\ \A x \in batch : x \in buffer[g] \/ x = traced + 1
      /\ \A x \in batch \ buffer[g] : x \notin 1 .. traced
      /\ 1 .. traced' = 1 .. traced \cup batch
  <2>1. traced \in Nat /\ buffer[g] \subseteq 1 .. traced
    BY DEF TraceTypes
  <2>2. CASE batch = buffer[g]
    BY <2>1, <2>2
  <2>3. CASE batch # buffer[g] /\ batch = buffer[g] \cup {traced + 1}
    BY <2>1, <2>3
  <2> QED
    BY <2>2, <2>3
<1>3. /\ new.of = g /\ new.rows = batch /\ new.name = <<>>
      /\ Taken(g, batch) = IF batch = {} THEN {} ELSE {new}
  BY <1>1 DEF Taken
<1>4. \A b \in batches' : b \in batches \/ b = new
  BY <1>3
<1>5. \A h \in Gateways : /\ h # g => buffer'[h] = buffer[h]
                          /\ buffer'[g] \in {{}, batch}
  BY DEF TraceTypes
<1>6. new \in batches' => buffer'[g] = {} \/ new \in batches
  BY <1>3 DEF TraceTypes
<1>7. buffer' \in [Gateways -> SUBSET (1 .. traced')]
  BY <1>2, <1>5 DEF TraceTypes
<1>8. TraceTypes'
  <2>1. batches' \subseteq [of : Gateways, rows : SUBSET (1 .. traced'), name : {<<>>} \cup (Nat \X Nat)]
    <3>1. new \in [of : Gateways, rows : SUBSET (1 .. traced'), name : {<<>>} \cup (Nat \X Nat)]
      BY <1>1, <1>2
    <3>2. batches \subseteq [of : Gateways, rows : SUBSET (1 .. traced'), name : {<<>>} \cup (Nat \X Nat)]
      <4> SUFFICES ASSUME NEW b \in batches
                   PROVE  b \in [of : Gateways, rows : SUBSET (1 .. traced'), name : {<<>>} \cup (Nat \X Nat)]
        OBVIOUS
      <4>1. b \in [of : Gateways, rows : SUBSET (1 .. traced), name : {<<>>} \cup (Nat \X Nat)]
        BY DEF TraceTypes
      <4> QED
        BY <4>1, <1>2
    <3> QED
      BY <3>1, <3>2, <1>4
  <2>2. segments' \in [DOMAIN segments' -> [rows : SUBSET (1 .. traced'), whole : BOOLEAN]]
    BY <1>2 DEF TraceTypes
  <2> QED
    BY <1>2, <1>7, <2>1, <2>2 DEF TraceTypes
<1>9. TokensApart'
  BY <1>3, <1>4, <1>5 DEF TokensApart
<1>10. NamesUsed'
  BY DEF NamesUsed
<1>11. NamesApart'
  BY <1>3, <1>4 DEF NamesApart
<1>12. Whole' = Whole /\ segments' = segments
  BY DEF Whole
<1>13. /\ \A h \in Gateways : h # g => batch \cap buffer[h] = {}
       /\ \A n \in Whole : batch \cap segments[n].rows = {}
       /\ \A b \in batches : batch \cap b.rows = {}
  BY <1>2 DEF RowsApart, TraceTypes, Whole
<1>14. RowsApart'
  <2>1. \A h, k \in Gateways : h # k => buffer'[h] \cap buffer'[k] = {}
    BY <1>5, <1>13 DEF RowsApart
  <2>2. \A h \in Gateways, b \in batches' : buffer'[h] \cap b.rows = {}
    BY <1>3, <1>4, <1>5, <1>6, <1>13 DEF RowsApart
  <2>3. \A h \in Gateways, n \in Whole : buffer'[h] \cap segments[n].rows = {}
    BY <1>5, <1>13 DEF RowsApart
  <2>4. \A b, c \in batches' : b # c => b.rows \cap c.rows = {}
    BY <1>3, <1>4, <1>13 DEF RowsApart
  <2>5. \A b \in batches', n \in Whole : b.rows \cap segments[n].rows = {}
    BY <1>3, <1>4, <1>13 DEF RowsApart
  <2> QED
    BY <1>12, <2>1, <2>2, <2>3, <2>4, <2>5 DEF RowsApart
<1>15. RowsKept'
  <2>1. (UNION {buffer'[h] : h \in Gateways}) \cup (UNION {b.rows : b \in batches'})
          = (UNION {buffer[h] : h \in Gateways}) \cup (UNION {b.rows : b \in batches}) \cup batch
    <3> DEFINE was == (UNION {buffer[h] : h \in Gateways}) \cup (UNION {b.rows : b \in batches})
               is == (UNION {buffer'[h] : h \in Gateways}) \cup (UNION {b.rows : b \in batches'})
    <3>1. buffer[g] \subseteq batch
      OBVIOUS
    <3>2. batch \subseteq is
      <4>1. CASE batches' = batches \cup Taken(g, batch) /\ batch # {}
        BY <4>1, <1>3
      <4>2. CASE batch = {}
        BY <4>2
      <4>3. CASE buffer' = [buffer EXCEPT ![g] = batch]
        BY <4>3 DEF TraceTypes
      <4> QED
        BY <4>1, <4>2, <4>3
    <3>3. batches \subseteq batches'
      OBVIOUS
    <3>4. was \subseteq is
      <4> SUFFICES ASSUME NEW x \in was PROVE x \in is
        OBVIOUS
      <4>1. CASE \E b \in batches : x \in b.rows
        BY <4>1, <3>3
      <4>2. CASE \E h \in Gateways : x \in buffer[h]
        BY <4>2, <1>5, <3>1, <3>2
      <4> QED
        BY <4>1, <4>2
    <3>5. is \subseteq was \cup batch
      BY <1>3, <1>4, <1>5
    <3> QED
      BY <3>2, <3>4, <3>5
  <2> QED
    BY <1>2, <1>12, <2>1 DEF RowsKept
<1> QED
  BY <1>8, <1>9, <1>10, <1>11, <1>14, <1>15

(* A file is created: a name nobody used, for one of the batches. *)
LEMMA SegmentCreated ==
  ASSUME TraceInv, NEW b \in batches, create_segment(b)
  PROVE  TraceInv'
<1> USE DEF TraceInv
<1>1. PICK g \in Gateways : g = b.of /\ instance[g] # 0 /\ instance[g] \in Nat /\ seq[g] \in Nat
  BY DEF TraceTypes, TokensApart
<1>2. PICK name : name = <<instance[g], seq[g]>>
  OBVIOUS
<1>3. /\ name \notin DOMAIN segments /\ name \in Nat \X Nat
      /\ name[1] = instance[g] /\ name[2] = seq[g] /\ name # <<>>
  BY <1>1, <1>2 DEF NamesUsed
<1>4. PICK new : new = [b EXCEPT !.name = name]
  OBVIOUS
<1>5. b \in [of : Gateways, rows : SUBSET (1 .. traced), name : {<<>>} \cup (Nat \X Nat)]
  BY DEF TraceTypes
<1>6. new.of = g /\ new.rows = b.rows /\ new.name = name
  BY <1>1, <1>4, <1>5
<1>7. /\ b.name = <<>> /\ batches' = (batches \ {b}) \cup {new}
      /\ seq' = [seq EXCEPT ![g] = @ + 1]
      /\ DOMAIN segments' = DOMAIN segments \cup {name}
      /\ segments'[name] = [rows |-> {}, whole |-> FALSE]
      /\ \A n \in DOMAIN segments : segments'[n] = segments[n]
      /\ segments' = [n \in DOMAIN segments' |-> segments'[n]]
      /\ UNCHANGED <<buffer, instance, traced, instances, gone>>
  BY <1>1, <1>2, <1>3, <1>4 DEF create_segment, SegmentName, Put
<1>8. /\ seq' \in [Gateways -> Nat] /\ seq'[g] = seq[g] + 1
      /\ \A h \in Gateways : h # g => seq'[h] = seq[h]
  BY <1>1, <1>7 DEF TraceTypes
<1>9. Whole' = Whole /\ \A n \in Whole : segments'[n] = segments[n]
  BY <1>3, <1>7 DEF Whole
<1>10. TraceTypes'
  <2>1. new \in [of : Gateways, rows : SUBSET (1 .. traced), name : {<<>>} \cup (Nat \X Nat)]
    BY <1>3, <1>4, <1>5
  <2>2. \A n \in DOMAIN segments' : segments'[n] \in [rows : SUBSET (1 .. traced), whole : BOOLEAN]
    <3>1. \A n \in DOMAIN segments : segments[n] \in [rows : SUBSET (1 .. traced), whole : BOOLEAN]
      BY DEF TraceTypes
    <3>2. segments'[name] \in [rows : SUBSET (1 .. traced), whole : BOOLEAN]
      BY <1>7
    <3> QED
      BY <3>1, <3>2, <1>7
  <2> QED
    BY <1>3, <1>7, <1>8, <2>1, <2>2 DEF TraceTypes
<1>11. TokensApart'
  BY <1>1, <1>6, <1>7 DEF TokensApart
<1>12. NamesUsed'
  <2> SUFFICES ASSUME NEW n \in DOMAIN segments'
               PROVE  /\ n[1] # 0 /\ n[1] =< instances
                      /\ \A h \in Gateways : instance[h] = n[1] => n[2] < seq'[h]
    BY <1>7 DEF NamesUsed
  <2>1. CASE n = name
    BY <2>1, <1>1, <1>3, <1>8 DEF TokensApart
  <2>2. CASE n \in DOMAIN segments
    <3>1. n[2] \in Nat
      BY <2>2 DEF TraceTypes
    <3> QED
      BY <2>2, <3>1, <1>1, <1>8 DEF NamesUsed
  <2> QED
    BY <1>7, <2>1, <2>2
<1>13. NamesApart'
  <2>1. \A c \in batches : c.name # <<>> => c.name # name
    BY <1>3 DEF NamesApart
  <2>2. \A c \in batches' : c \in batches \/ c = new
    BY <1>7
  <2>3. \A c \in batches' : c.name # <<>> => c.name \in DOMAIN segments' /\ ~segments'[c.name].whole
    BY <2>2, <1>6, <1>7 DEF NamesApart
  <2>4. \A c, d \in batches' : c.name = d.name /\ c.name # <<>> => c = d
    BY <2>1, <2>2, <1>3, <1>6 DEF NamesApart
  <2> QED
    BY <2>3, <2>4 DEF NamesApart
<1>14. RowsApart'
  <2>1. \A c \in batches' : (c \in batches /\ c # b) \/ c = new
    BY <1>7
  <2>2. \A c, d \in batches' : c # d => c.rows \cap d.rows = {}
    BY <2>1, <1>6 DEF RowsApart
  <2>3. \A h \in Gateways, c \in batches' : buffer[h] \cap c.rows = {}
    BY <2>1, <1>6 DEF RowsApart
  <2>4. \A c \in batches', n \in Whole : c.rows \cap segments[n].rows = {}
    BY <2>1, <1>6 DEF RowsApart
  <2> QED
    BY <2>2, <2>3, <2>4, <1>7, <1>9 DEF RowsApart
<1>15. RowsKept'
  <2>1. UNION {c.rows : c \in batches'} = UNION {c.rows : c \in batches}
    <3>1. \A c \in batches' : c \in batches \/ c.rows = b.rows
      BY <1>6, <1>7
    <3>2. \A c \in batches : c \in batches' \/ c = b
      BY <1>7
    <3>3. new \in batches' /\ new.rows = b.rows
      BY <1>6, <1>7
    <3> QED
      BY <3>1, <3>2, <3>3
  <2>2. UNION {segments'[n].rows : n \in Whole'} = UNION {segments[n].rows : n \in Whole}
    <3>1. \A n \in Whole' : n \in Whole /\ segments'[n] = segments[n]
      BY <1>9
    <3>2. \A n \in Whole : n \in Whole' /\ segments'[n] = segments[n]
      BY <1>9
    <3> QED
      BY <3>1, <3>2
  <2>3. {buffer'[h] : h \in Gateways} = {buffer[h] : h \in Gateways} /\ 1 .. traced' = 1 .. traced /\ gone' = gone
    BY <1>7
  <2> QED
    BY <2>1, <2>2, <2>3, Zenon DEF RowsKept
<1> QED
  BY <1>10, <1>11, <1>12, <1>13, <1>14, <1>15

(* A file is closed: its batch's rows are readable, and held no more. *)
LEMMA SegmentClosed ==
  ASSUME TraceInv, NEW b \in batches, close_segment(b)
  PROVE  TraceInv'
<1> USE DEF TraceInv
<1>1. /\ b \in [of : Gateways, rows : SUBSET (1 .. traced), name : {<<>>} \cup (Nat \X Nat)]
      /\ b.name # <<>> /\ b.name \in DOMAIN segments /\ ~segments[b.name].whole
  BY DEF TraceTypes, NamesApart, close_segment
<1>2. PICK closed : closed = [rows |-> b.rows, whole |-> TRUE]
  OBVIOUS
<1>3. /\ batches' = batches \ {b}
      /\ DOMAIN segments' = DOMAIN segments
      /\ segments'[b.name] = closed /\ closed.whole /\ closed.rows = b.rows
      /\ \A n \in DOMAIN segments : n # b.name => segments'[n] = segments[n]
      /\ segments' = [n \in DOMAIN segments' |-> segments'[n]]
      /\ UNCHANGED <<buffer, instance, seq, traced, instances, gone>>
  BY <1>1, <1>2 DEF close_segment, Put
<1>4. /\ Whole' = Whole \cup {b.name} /\ b.name \notin Whole
      /\ segments'[b.name].rows = b.rows
      /\ \A n \in Whole : segments'[n] = segments[n]
  BY <1>1, <1>3 DEF Whole
<1>5. TraceTypes'
  <2>1. \A n \in DOMAIN segments' : segments'[n] \in [rows : SUBSET (1 .. traced), whole : BOOLEAN]
    <3>1. \A n \in DOMAIN segments : segments[n] \in [rows : SUBSET (1 .. traced), whole : BOOLEAN]
      BY DEF TraceTypes
    <3>2. closed \in [rows : SUBSET (1 .. traced), whole : BOOLEAN]
      BY <1>1, <1>2
    <3> QED
      BY <3>1, <3>2, <1>3
  <2> QED
    BY <1>3, <2>1 DEF TraceTypes
<1>6. TokensApart'
  BY <1>3 DEF TokensApart
<1>7. NamesUsed'
  BY <1>3 DEF NamesUsed
<1>8. NamesApart'
  <2>1. \A c \in batches' : c \in batches /\ c # b
    BY <1>3
  <2> QED
    BY <2>1, <1>3 DEF NamesApart
<1>9. RowsApart'
  <2>1. \A c \in batches' : c \in batches /\ c # b
    BY <1>3
  <2>2. \A h \in Gateways, n \in Whole' : buffer[h] \cap segments'[n].rows = {}
    BY <1>4 DEF RowsApart
  <2>3. \A c \in batches', n \in Whole' : c.rows \cap segments'[n].rows = {}
    BY <2>1, <1>4 DEF RowsApart
  <2>4. \A m, n \in Whole' : m # n => segments'[m].rows \cap segments'[n].rows = {}
    BY <1>4 DEF RowsApart
  <2> QED
    BY <2>1, <2>2, <2>3, <2>4, <1>3 DEF RowsApart
<1>10. RowsKept'
  <2>1. UNION {c.rows : c \in batches} = b.rows \cup UNION {c.rows : c \in batches'}
    BY <1>3
  <2>2. UNION {segments'[n].rows : n \in Whole'} = b.rows \cup UNION {segments[n].rows : n \in Whole}
    BY <1>4
  <2> QED
    BY <2>1, <2>2, <1>3 DEF RowsKept
<1> QED
  BY <1>5, <1>6, <1>7, <1>8, <1>9, <1>10

(* What is lost: batches, and what their holder held. *)
LEMMA RowsLost ==
  ASSUME TraceInv, NEW lost \in SUBSET batches, batches' = batches \ lost,
         buffer' \in [Gateways -> SUBSET (1 .. traced)],
         \A g \in Gateways : buffer'[g] = buffer[g]
                             \/ (buffer'[g] = {} /\ buffer[g] \subseteq gone'),
         gone' \subseteq 1 .. traced, gone \subseteq gone',
         \A b \in lost : b.rows \subseteq gone',
         instance' \in [Gateways -> Nat],
         \A g \in Gateways : instance'[g] = instance[g]
                             \/ (instance'[g] = 0 /\ \A b \in batches \ lost : b.of # g),
         \A g \in Gateways : instance'[g] = 0 => instance[g] = 0 \/ buffer'[g] = {},
         UNCHANGED <<seq, segments, traced, instances>>
  PROVE  TraceInv'
<1> USE DEF TraceInv
<1>1. \A b \in batches' : b \in batches /\ b.of \in Gateways
  BY DEF TraceTypes
<1>2. Whole' = Whole /\ segments' = segments
  BY DEF Whole
<1>3. TraceTypes'
  BY <1>1 DEF TraceTypes
<1>4. TokensApart'
  <2>1. \A g \in Gateways : instance'[g] = instance[g] \/ instance'[g] = 0
    OBVIOUS
  <2>2. \A g \in Gateways : instance[g] \in Nat /\ instance[g] =< instances /\ instances \in Nat
    BY DEF TokensApart, TraceTypes
  <2>3. \A g \in Gateways : instance'[g] =< instances
    BY <2>1, <2>2
  <2>4. \A g, h \in Gateways : instance'[g] = instance'[h] /\ instance'[g] # 0 => g = h
    BY <2>1 DEF TokensApart
  <2>5. \A b \in batches' : instance'[b.of] # 0
    BY <1>1 DEF TokensApart
  <2>6. \A g \in Gateways : instance'[g] = 0 => buffer'[g] = {}
    BY DEF TokensApart
  <2> QED
    BY <2>3, <2>4, <2>5, <2>6 DEF TokensApart
<1>5. NamesUsed'
  BY DEF NamesUsed
<1>6. NamesApart'
  BY <1>1 DEF NamesApart
<1>7. RowsApart'
  <2>1. \A g \in Gateways : buffer'[g] \subseteq buffer[g]
    OBVIOUS
  <2> QED
    BY <1>1, <1>2, <2>1 DEF RowsApart
<1>8. RowsKept'
  <2>1. 1 .. traced = 1 .. traced'
    OBVIOUS
  <2>2. SUFFICES ASSUME NEW x \in 1 .. traced
                 PROVE  \/ x \in gone'
                        \/ \E g \in Gateways : x \in buffer'[g]
                        \/ \E b \in batches' : x \in b.rows
                        \/ \E n \in Whole : x \in segments[n].rows
    <3>1. \A g \in Gateways : buffer'[g] \subseteq 1 .. traced
      OBVIOUS
    <3>2. \A b \in batches' : b.rows \subseteq 1 .. traced
      BY <1>1 DEF TraceTypes
    <3>3. \A n \in Whole : segments[n].rows \subseteq 1 .. traced
      BY DEF TraceTypes, Whole
    <3> DEFINE is == gone' \cup (UNION {buffer'[g] : g \in Gateways}) \cup (UNION {b.rows : b \in batches'})
                        \cup (UNION {segments[n].rows : n \in Whole})
    <3>4. is \subseteq 1 .. traced
      <4>1. UNION {buffer'[g] : g \in Gateways} \subseteq 1 .. traced
        BY <3>1
      <4>2. UNION {b.rows : b \in batches'} \subseteq 1 .. traced
        BY <3>2
      <4>3. UNION {segments[n].rows : n \in Whole} \subseteq 1 .. traced
        BY <3>3
      <4> QED
        BY <4>1, <4>2, <4>3
    <3>5. SUFFICES 1 .. traced \subseteq is
      <4>1. RowsKept' <=> 1 .. traced = is
        BY <1>2, <2>1 DEF RowsKept
      <4> QED
        BY <3>4, <4>1
    <3> QED
      OBVIOUS
  <2>3. \/ x \in gone
        \/ \E g \in Gateways : x \in buffer[g]
        \/ \E b \in batches : x \in b.rows
        \/ \E n \in Whole : x \in segments[n].rows
    BY DEF RowsKept
  <2> QED
    BY <2>3
<1> QED
  BY <1>3, <1>4, <1>5, <1>6, <1>7, <1>8

-----------------------------------------------------------------------------
LEMMA RowsStart == TraceInit => TraceInv
<1> SUFFICES ASSUME TraceInit PROVE TraceInv
  OBVIOUS
<1> USE DEF TraceInit
<1>1. DOMAIN segments = {} /\ Whole = {}
  BY DEF Whole
<1>2. TraceTypes
  BY <1>1 DEF TraceTypes
<1> QED
  BY <1>1, <1>2 DEF TraceInv, TokensApart, NamesUsed, NamesApart, RowsApart, RowsKept

LEMMA RowsMove == TraceInv /\ [TraceNext]_tracevars => TraceInv'
<1> SUFFICES ASSUME TraceInv, [TraceNext]_tracevars PROVE TraceInv'
  OBVIOUS
<1>1. ASSUME NEW g \in Gateways, open_sink(g) PROVE TraceInv'
  <2> USE DEF open_sink, TraceInv
  <2>1. /\ buffer' \in [Gateways -> SUBSET (1 .. traced)]
        /\ instance' \in [Gateways -> Nat] /\ seq' \in [Gateways -> Nat]
        /\ instance'[g] = instances + 1 /\ buffer'[g] = {}
        /\ \A h \in Gateways : h # g => /\ instance'[h] = instance[h] /\ seq'[h] = seq[h]
                                        /\ buffer'[h] = buffer[h]
    BY <1>1 DEF TraceTypes
  <2>2. TraceTypes'
    BY <1>1, <2>1 DEF TraceTypes
  <2>3. TokensApart'
    <3>1. \A b \in batches : b.of \in Gateways /\ b.of # g
      BY <1>1 DEF TokensApart, TraceTypes
    <3>2. \A h \in Gateways : instance[h] \in Nat /\ instance[h] =< instances
      BY DEF TokensApart, TraceTypes
    <3> QED
      BY <1>1, <2>1, <3>1, <3>2 DEF TokensApart, TraceTypes
  <2>4. NamesUsed'
    BY <1>1, <2>1 DEF NamesUsed, TraceTypes
  <2>5. Whole' = Whole /\ segments' = segments /\ batches' = batches
    BY <1>1 DEF Whole
  <2>6. NamesApart'
    BY <2>5 DEF NamesApart
  <2>7. RowsApart'
    BY <2>1, <2>5 DEF RowsApart
  <2>8. RowsKept'
    <3>1. buffer[g] = {}
      BY <1>1 DEF TokensApart
    <3>2. \A h \in Gateways : buffer'[h] = buffer[h]
      BY <2>1, <3>1
    <3>3. {buffer'[h] : h \in Gateways} = {buffer[h] : h \in Gateways}
      BY <3>2
    <3>4. /\ Whole' = Whole /\ segments' = segments /\ batches' = batches
          /\ gone' = gone /\ traced' = traced
      BY <1>1, <2>5
    <3> QED
      BY <3>3, <3>4, Zenon DEF RowsKept
  <2> QED
    BY <2>2, <2>3, <2>4, <2>6, <2>7, <2>8
<1>2. ASSUME NEW g \in Gateways, record_row(g) PROVE TraceInv'
  <2>1. PICK batch : batch = buffer[g] \cup {traced + 1}
    OBVIOUS
  <2>2. traced + 1 \notin buffer[g]
    BY DEF TraceInv, TraceTypes
  <2>3. /\ batch # buffer[g] /\ traced' = traced + 1 /\ instance[g] # 0
        /\ UNCHANGED <<instance, seq, segments, instances, gone>>
    BY <1>2, <2>1, <2>2 DEF record_row
  <2>4. \/ buffer' = [buffer EXCEPT ![g] = {}] /\ batches' = batches \cup Taken(g, batch)
        \/ buffer' = [buffer EXCEPT ![g] = batch] /\ batches' = batches
    BY <1>2, <2>1 DEF record_row
  <2> QED
    BY <2>1, <2>3, <2>4, RowsTaken
<1>3. ASSUME NEW g \in Gateways, flush_rows(g) PROVE TraceInv'
  BY <1>3, RowsTaken DEF flush_rows
<1>4. ASSUME NEW g \in Gateways, drop_sink(g) PROVE TraceInv'
  <2> PICK lost \in SUBSET batches : lost = {}
    OBVIOUS
  <2>1. /\ instance' = [instance EXCEPT ![g] = 0] /\ batches' = batches \ lost /\ buffer[g] = {}
        /\ UNCHANGED <<buffer, seq, batches, segments, traced, instances, gone>>
        /\ \A b \in batches : b.of # g
    BY <1>4 DEF drop_sink, Own
  <2>2. /\ gone' = gone /\ gone \subseteq 1 .. traced /\ buffer' = buffer
        /\ buffer \in [Gateways -> SUBSET (1 .. traced)]
        /\ instance' \in [Gateways -> Nat]
        /\ \A h \in Gateways : instance'[h] = instance[h] \/ (instance'[h] = 0 /\ h = g)
    BY <2>1 DEF TraceInv, TraceTypes
  <2> QED
    BY <2>1, <2>2, RowsLost
<1>5. ASSUME NEW g \in Gateways, crash_gateway(g) PROVE TraceInv'
  <2> PICK lost : lost = Own(g)
    OBVIOUS
  <2>1. /\ instance' = [instance EXCEPT ![g] = 0] /\ batches' = batches \ lost
        /\ buffer' = [buffer EXCEPT ![g] = {}]
        /\ gone' = gone \cup buffer[g] \cup (UNION {b.rows : b \in lost})
        /\ UNCHANGED <<seq, segments, traced, instances>>
    BY <1>5 DEF crash_gateway
  <2>2. lost \in SUBSET batches /\ \A b \in batches \ lost : b.of # g
    BY DEF Own
  <2>3. /\ instance' \in [Gateways -> Nat] /\ buffer' \in [Gateways -> SUBSET (1 .. traced)]
        /\ \A h \in Gateways : instance'[h] = instance[h] \/ (instance'[h] = 0 /\ h = g)
        /\ \A h \in Gateways : buffer'[h] = buffer[h] \/ (buffer'[h] = {} /\ h = g)
    BY <2>1 DEF TraceInv, TraceTypes
  <2>4. \A b \in batches : b.rows \subseteq 1 .. traced
    BY DEF TraceInv, TraceTypes
  <2>5. gone' \subseteq 1 .. traced /\ gone \subseteq gone' /\ buffer[g] \subseteq gone'
    BY <2>1, <2>2, <2>4 DEF TraceInv, TraceTypes
  <2>6. \A b \in lost : b.rows \subseteq gone'
    BY <2>1
  <2>7. \A h \in Gateways : buffer'[h] = buffer[h] \/ (buffer'[h] = {} /\ buffer[h] \subseteq gone')
    BY <2>3, <2>5
  <2>8. \A h \in Gateways : instance'[h] = instance[h] \/ (instance'[h] = 0 /\ \A b \in batches \ lost : b.of # h)
    BY <2>2, <2>3
  <2>9. \A h \in Gateways : instance'[h] = 0 => instance[h] = 0 \/ buffer'[h] = {}
    BY <2>1, <2>3 DEF TraceInv, TraceTypes
  <2> QED
    BY <2>1, <2>2, <2>3, <2>5, <2>6, <2>7, <2>8, <2>9, RowsLost
<1>6. ASSUME NEW b \in batches, write_fails(b) PROVE TraceInv'
  <2> PICK lost \in SUBSET batches : lost = {b}
    OBVIOUS
  <2>1. /\ batches' = batches \ lost /\ gone' = gone \cup b.rows
        /\ UNCHANGED <<buffer, instance, seq, segments, traced, instances>>
    BY <1>6 DEF write_fails
  <2>2. /\ gone' \subseteq 1 .. traced /\ buffer' = buffer /\ instance' = instance
        /\ buffer \in [Gateways -> SUBSET (1 .. traced)] /\ instance \in [Gateways -> Nat]
    BY <2>1 DEF TraceInv, TraceTypes
  <2> QED
    BY <2>1, <2>2, RowsLost
<1>7. CASE UNCHANGED tracevars
  <2> PICK lost \in SUBSET batches : lost = {}
    OBVIOUS
  <2>1. batches' = batches \ lost /\ UNCHANGED <<buffer, instance, seq, segments, traced, instances, gone>>
    BY <1>7 DEF tracevars
  <2> QED
    BY <2>1, RowsLost DEF TraceInv, TraceTypes, TokensApart
<1> QED
  BY <1>1, <1>2, <1>3, <1>4, <1>5, <1>6, <1>7, SegmentCreated, SegmentClosed DEF TraceNext, write_batch

(* Every row is in one place, and in one only: what no failed write and no *)
(* crash took is held, being written, or readable, and no query counts it  *)
(* twice (ParquetSink, gateway/src/sink.rs).                               *)
THEOREM TraceIsWhole == TraceSpec => []RowsExactlyOnce
<1>1. TraceInv => RowsExactlyOnce
  BY DEF TraceInv, RowsApart, RowsExactlyOnce, RowsOnce
<1> QED
  BY <1>1, RowsStart, RowsMove, PTL DEF TraceSpec

-----------------------------------------------------------------------------
(* UnitLedger.                                                            *)

-----------------------------------------------------------------------------
(* A call's reservation is in force on the window w of unit u. *)
InForce(held, u, w) ==
  held.at \in {"holding", "settling"} /\ held.unit = u /\ held.window = w

Amount(held, u, w) == IF InForce(held, u, w) THEN held.amount ELSE 0

(* The tokens of the requests in S, and their sum, in the table f. *)
Toks(S, f) == UNION {{c} \X (1 .. f[c].amount) : c \in S}
SumOf(f, S, u, w) == Cardinality(Toks({c \in S : InForce(f[c], u, w)}, f))

(* The estimates of the requests under way cannot add up past i64::MAX. *)
AmountsFit ==
  \A f \in [Callers -> Amounts] :
    Cardinality(UNION {{c} \X (1 .. f[c]) : c \in Callers}) =< MaxMoney

(* Nothing is dated after the clock, and what a call asks for is an        *)
(* estimate some caller made.                                              *)
Dated ==
  /\ \A u \in Units : state[u].window =< clock
  /\ \A c \in Callers :
       /\ calls[c].now =< clock /\ calls[c].window =< clock
       /\ calls[c].at = "settling" => calls[c].window =< calls[c].now
       /\ calls[c].at # "idle" => calls[c].amount \in Amounts

(* Without a boundary between the clock and the lock, a call under the     *)
(* lock holds the present month, and a reservation of the present month    *)
(* found, or made, its unit's window current.                              *)
Timely ==
  prompt =>
    \A c \in Callers :
      /\ calls[c].at \in {"asking", "settling"} => calls[c].now = clock
      /\ calls[c].at \in {"holding", "settling"} /\ calls[c].window = clock =>
           state[calls[c].unit].window = clock

(* What UnitReservedCovered and UnitReservedExact say of one unit. *)
Even(u) ==
  state[u].window = clock =>
    /\ state[u].reserved =< Outstanding(u)
    /\ prompt /\ AmountsFit => state[u].reserved = Outstanding(u)

UnitInv == UnitTypeOK /\ Dated /\ Timely /\ \A u \in Units : Even(u)

-----------------------------------------------------------------------------
(* Money arithmetic. *)
LEMMA UnitArithmetic ==
  ASSUME NEW a \in Money, NEW b \in Money
  PROVE  /\ a \in Nat /\ b \in Nat
         /\ SaturatingAdd(a, b) \in Money /\ SaturatingSub(a, b) \in Money
         /\ SaturatingAdd(a, b) >= a /\ SaturatingAdd(a, b) =< a + b
         /\ a + b =< MaxMoney => SaturatingAdd(a, b) = a + b
         /\ a >= b => SaturatingSub(a, b) = a - b
         /\ a < b => SaturatingSub(a, b) = 0
BY UnitMoneyAssumption DEF Money, SaturatingAdd, SaturatingSub

(* A finite set of requests has finitely many tokens. *)
LEMMA ToksFinite ==
  ASSUME NEW f \in [Callers -> Call], NEW S \in SUBSET Callers
  PROVE  IsFiniteSet(Toks(S, f)) /\ Cardinality(Toks(S, f)) \in Nat
<1>1. IsFiniteSet(S) /\ IsFiniteSet(1 .. MaxMoney)
  BY FS_Subset, FS_Interval, UnitMoneyAssumption, UnitCallersAssumption
<1>2. IsFiniteSet(S \X (1 .. MaxMoney))
  BY <1>1, FS_Product
<1>3. \A c \in S : 1 .. f[c].amount \subseteq 1 .. MaxMoney
  BY UnitMoneyAssumption DEF Call, Money
<1>4. Toks(S, f) \subseteq S \X (1 .. MaxMoney)
  BY <1>3 DEF Toks
<1> QED BY <1>2, <1>4, FS_Subset, FS_CardinalityType

(* An amount of m is m tokens. *)
LEMMA ToksOfOne ==
  ASSUME NEW i, NEW m \in Nat
  PROVE  IsFiniteSet({i} \X (1 .. m)) /\ Cardinality({i} \X (1 .. m)) = m
<1>1. IsFiniteSet({i}) /\ Cardinality({i}) = 1
  BY FS_Singleton
<1>2. IsFiniteSet(1 .. m) /\ Cardinality(1 .. m) = m
  BY FS_Interval
<1>3. /\ IsFiniteSet({i} \X (1 .. m))
      /\ Cardinality({i} \X (1 .. m)) = Cardinality({i}) * Cardinality(1 .. m)
  BY <1>1, <1>2, FS_Product, Zenon
<1>4. Cardinality({i}) * Cardinality(1 .. m) = m
  BY <1>1, <1>2
<1> QED BY <1>3, <1>4

(* A request adds the tokens of its amount. *)
LEMMA ToksAdd ==
  ASSUME NEW f \in [Callers -> Call], NEW S \in SUBSET Callers, NEW c \in Callers, c \notin S
  PROVE  Cardinality(Toks(S \cup {c}, f)) = Cardinality(Toks(S, f)) + f[c].amount
<1> DEFINE T == {c} \X (1 .. f[c].amount)
<1>1. f[c].amount \in Nat
  BY UnitMoneyAssumption DEF Call, Money
<1>4. IsFiniteSet(T) /\ Cardinality(T) = f[c].amount
  BY <1>1, ToksOfOne
<1>6. IsFiniteSet(Toks(S, f)) /\ Cardinality(Toks(S, f)) \in Nat
  BY ToksFinite
<1>7. Toks(S \cup {c}, f) = Toks(S, f) \cup T
  BY DEF Toks
<1>8. Toks(S, f) \cap T = {}
  BY DEF Toks
<1>9. Cardinality(Toks(S, f) \cap T) = 0
  BY <1>8, FS_EmptySet
<1>10. Cardinality(Toks(S, f) \cup T)
         = Cardinality(Toks(S, f)) + Cardinality(T) - Cardinality(Toks(S, f) \cap T)
  BY <1>4, <1>6, FS_Union
<1> HIDE DEF T
<1>11. Cardinality(Toks(S \cup {c}, f)) = Cardinality(Toks(S, f)) + f[c].amount - 0
  BY <1>4, <1>7, <1>9, <1>10, Zenon
<1> QED BY <1>1, <1>6, <1>11

(* The sum on a unit is the sum of the others and the request's own part. *)
LEMMA SumSplit ==
  ASSUME NEW f \in [Callers -> Call], NEW c \in Callers, NEW u, NEW w
  PROVE  /\ SumOf(f, Callers \ {c}, u, w) \in Nat
         /\ SumOf(f, Callers, u, w) = SumOf(f, Callers \ {c}, u, w) + Amount(f[c], u, w)
<1> DEFINE S == {d \in Callers \ {c} : InForce(f[d], u, w)}
           All == {d \in Callers : InForce(f[d], u, w)}
<1>1. S \in SUBSET Callers /\ c \notin S
  OBVIOUS
<1>2. Cardinality(Toks(S, f)) \in Nat
  BY <1>1, ToksFinite
<1>3. CASE InForce(f[c], u, w)
  <2>1. All = S \cup {c}
    BY <1>3
  <2>2. Cardinality(Toks(All, f)) = Cardinality(Toks(S, f)) + f[c].amount
    BY <1>1, <2>1, ToksAdd
  <2> QED BY <1>2, <1>3, <2>2 DEF SumOf, Amount
<1>4. CASE ~InForce(f[c], u, w)
  <2>1. All = S
    BY <1>4
  <2> QED BY <1>2, <1>4, <2>1 DEF SumOf, Amount
<1> QED BY <1>3, <1>4

(* The others do not feel a step of one request. *)
LEMMA SameOthers ==
  ASSUME NEW f, NEW g, NEW c \in Callers, NEW u, NEW w,
         \A d \in Callers \ {c} : g[d] = f[d]
  PROVE  SumOf(g, Callers \ {c}, u, w) = SumOf(f, Callers \ {c}, u, w)
<1>1. {d \in Callers \ {c} : InForce(g[d], u, w)} = {d \in Callers \ {c} : InForce(f[d], u, w)}
  OBVIOUS
<1>2. \A S \in SUBSET (Callers \ {c}) : Toks(S, g) = Toks(S, f)
  BY DEF Toks
<1> QED BY <1>1, <1>2 DEF SumOf

(* What is outstanding on a unit, as a sum over the requests. *)
LEMMA OutstandingSum ==
  ASSUME NEW u
  PROVE  /\ Outstanding(u) = SumOf(calls, Callers, u, state[u].window)
         /\ Outstanding(u)' = SumOf(calls', Callers, u, state'[u].window)
BY DEF Outstanding, Holders, SumOf, Toks, InForce

(* Where the estimates fit, so does every sum of them. *)
LEMMA SumFits ==
  ASSUME AmountsFit, NEW f \in [Callers -> Call],
         \A c \in Callers : f[c].at # "idle" => f[c].amount \in Amounts, NEW u, NEW w
  PROVE  SumOf(f, Callers, u, w) =< MaxMoney
<1> DEFINE S == {c \in Callers : InForce(f[c], u, w)}
<1>1. CASE Amounts = {}
  <2>1. S = {}
    BY <1>1 DEF InForce
  <2>2. Toks({}, f) = {}
    BY DEF Toks
  <2>3. Cardinality(Toks(S, f)) = 0
    BY <2>1, <2>2, FS_EmptySet
  <2> QED BY <2>3, UnitMoneyAssumption DEF SumOf
<1>2. CASE Amounts # {}
  <2>1. PICK a : a \in Amounts
    BY <1>2
  <2> DEFINE g == [c \in Callers |-> IF c \in S THEN f[c].amount ELSE a]
             AllToks == UNION {{c} \X (1 .. g[c]) : c \in Callers}
  <2>2. g \in [Callers -> Amounts]
    BY <2>1 DEF InForce
  <2>3. Cardinality(AllToks) =< MaxMoney
    BY <2>2 DEF AmountsFit
  <2>4. Toks(S, f) \subseteq AllToks
    BY DEF Toks
  <2>5. IsFiniteSet(AllToks)
    <3>a. IsFiniteSet(1 .. MaxMoney)
      BY FS_Interval, UnitMoneyAssumption
    <3>1. IsFiniteSet(Callers \X (1 .. MaxMoney))
      BY <3>a, FS_Product, UnitCallersAssumption
    <3>b. \A c \in Callers : g[c] \in 0 .. MaxMoney
      BY <2>2, UnitInputsAssumption DEF Money
    <3> HIDE DEF g
    <3>2. \A c \in Callers : 1 .. g[c] \subseteq 1 .. MaxMoney
      BY <3>b, UnitMoneyAssumption
    <3>3. AllToks \subseteq Callers \X (1 .. MaxMoney)
      BY <3>2
    <3> QED BY <3>1, <3>3, FS_Subset
  <2>6. Cardinality(Toks(S, f)) =< Cardinality(AllToks)
    BY <2>4, <2>5, FS_Subset
  <2>7. Cardinality(Toks(S, f)) \in Nat /\ Cardinality(AllToks) \in Nat
    BY <2>5, ToksFinite, FS_CardinalityType
  <2> HIDE DEF AllToks, S
  <2> QED BY <2>3, <2>6, <2>7, UnitMoneyAssumption DEF SumOf, S
<1> QED BY <1>1, <1>2

-----------------------------------------------------------------------------
(* The window an operation finds under the lock. *)
LEMMA RolledIs ==
  ASSUME NEW s \in UnitState, NEW now \in Months
  PROVE  /\ rolled(s, now) \in UnitState
         /\ rolled(s, now).window = now
         /\ s.window = now => rolled(s, now) = s
         /\ s.window # now => rolled(s, now).reserved = 0 /\ rolled(s, now).spent = 0
<1>1. 0 \in Money /\ now \in 0 .. MaxMonth
  BY UnitMoneyAssumption DEF Money, Months
<1> QED BY <1>1 DEF rolled, UnitState

LEMMA GrantedType ==
  ASSUME UnitTypeOK, NEW c \in Callers, NEW s \in UnitState, Granted(c, s)
  PROVE  state' \in [Units -> UnitState] /\ calls' \in [Callers -> Call]
<1>1. calls[c].amount \in Money /\ calls[c].unit \in Units /\ calls[c].now \in 0 .. MaxMonth
  BY UnitMoneyAssumption DEF UnitTypeOK, Call, Months
<1>2. SaturatingAdd(s.reserved, calls[c].amount) \in Money
  BY <1>1, UnitArithmetic DEF UnitState
<1>3. [s EXCEPT !.reserved = SaturatingAdd(@, calls[c].amount)] \in UnitState
  BY <1>2 DEF UnitState
<1>4. state' \in [Units -> UnitState]
  BY <1>1, <1>3 DEF Granted, UnitTypeOK
<1>5. calls' \in [Callers -> Call]
  BY <1>1, ZenonT(20) DEF Granted, UnitTypeOK, Call
<1> QED BY <1>4, <1>5

LEMMA UnitTypeStep == UnitTypeOK /\ [UnitNext]_uvars => UnitTypeOK'
<1> SUFFICES ASSUME UnitTypeOK, [UnitNext]_uvars PROVE UnitTypeOK'
  OBVIOUS
<1>0. /\ clock \in Months /\ clock \in Nat /\ overrides \in [Units -> Caps \cup {NoCap}]
      /\ state \in [Units -> UnitState] /\ calls \in [Callers -> Call] /\ prompt \in BOOLEAN
      /\ 0 \in Money /\ 0 \in 0 .. MaxMonth /\ 1 .. clock \subseteq Months
      /\ Months \subseteq 0 .. MaxMonth
  BY UnitMoneyAssumption DEF UnitTypeOK, Months, Money
<1>1. CASE Tick
  BY <1>0, <1>1, UnitMoneyAssumption DEF Tick, UnitTypeOK, Months
<1>2. ASSUME NEW caps \in [Units -> Caps \cup {NoCap}], set_overrides(caps) PROVE UnitTypeOK'
  BY <1>0, <1>2 DEF set_overrides, UnitTypeOK
<1>3. ASSUME NEW c \in Callers, NEW u \in Units, NEW estimate \in Amounts, Ask(c, u, estimate)
      PROVE  UnitTypeOK'
  <2>1. effective_cap(u) \in Money /\ estimate \in Money
    BY <1>0, <1>3, UnitInputsAssumption DEF Ask, effective_cap
  <2>2. [at |-> "asking", unit |-> u, amount |-> estimate, cap |-> effective_cap(u),
         now |-> clock, window |-> 0] \in Call
    BY <1>0, <2>1 DEF Call
  <2>3. calls' \in [Callers -> Call]
    BY <1>0, <1>3, <2>2 DEF Ask
  <2> QED BY <1>0, <1>3, <2>3 DEF Ask, UnitTypeOK
<1>4. ASSUME NEW c \in Callers, try_reserve(c) PROVE UnitTypeOK'
  <2> DEFINE s == rolled(state[calls[c].unit], calls[c].now)
  <2>1. s \in UnitState
    BY <1>0, RolledIs DEF Call
  <2>2. CASE Granted(c, s)
    BY <1>0, <1>4, <2>1, <2>2, GrantedType DEF try_reserve, UnitTypeOK
  <2>3. CASE /\ state' = [state EXCEPT ![calls[c].unit] = s]
             /\ calls' = [calls EXCEPT ![c].at = "idle"]
    <3>1. state' \in [Units -> UnitState] /\ calls' \in [Callers -> Call]
      BY <1>0, <2>1, <2>3 DEF Call
    <3> QED BY <1>0, <1>4, <3>1 DEF try_reserve, UnitTypeOK
  <2> QED BY <1>4, <2>2, <2>3 DEF try_reserve
<1>5. ASSUME NEW c \in Callers, reserve_unchecked(c) PROVE UnitTypeOK'
  <2>1. rolled(state[calls[c].unit], calls[c].now) \in UnitState
    BY <1>0, RolledIs DEF Call
  <2> QED BY <1>0, <1>5, <2>1, GrantedType DEF reserve_unchecked, UnitTypeOK
<1>6. ASSUME NEW c \in Callers, AskSettle(c) PROVE UnitTypeOK'
  <2>1. calls' \in [Callers -> Call]
    BY <1>0, <1>6, ZenonT(20) DEF AskSettle, Call
  <2> QED BY <1>0, <1>6, <2>1 DEF AskSettle, UnitTypeOK
<1>7. ASSUME NEW c \in Callers, NEW actual \in Costs, settle(c, actual) PROVE UnitTypeOK'
  <2> DEFINE s == state[calls[c].unit]
             t == [s EXCEPT !.reserved = SaturatingSub(@, calls[c].amount),
                            !.spent = SaturatingAdd(@, actual)]
  <2>1. /\ s \in UnitState /\ calls[c].amount \in Money /\ actual \in Money
    BY <1>0, UnitInputsAssumption DEF Call
  <2>2. /\ SaturatingSub(s.reserved, calls[c].amount) \in Money
        /\ SaturatingAdd(s.spent, actual) \in Money
    BY <2>1, UnitArithmetic DEF UnitState
  <2>3. t \in UnitState
    BY <2>1, <2>2 DEF UnitState
  <2>4. state' = [state EXCEPT ![calls[c].unit] = t] \/ state' = state
    BY <1>7 DEF settle
  <2> HIDE DEF t
  <2>5. state' \in [Units -> UnitState] /\ calls' \in [Callers -> Call]
    BY <1>0, <1>7, <2>3, <2>4 DEF settle, Call
  <2> QED BY <1>0, <1>7, <2>5 DEF settle, UnitTypeOK
<1>8. ASSUME NEW u \in Units, NEW spent \in Costs, NEW now \in SeedTimes,
             seed_month(u, spent, now)
      PROVE  UnitTypeOK'
  <2>1. now \in Months /\ spent \in Money
    BY <1>0, UnitInputsAssumption, UnitMoneyAssumption DEF SeedTimes, Months
  <2>2. rolled(state[u], now) \in UnitState
    BY <1>0, <2>1, RolledIs
  <2>3. [rolled(state[u], now) EXCEPT !.spent = spent] \in UnitState
    BY <2>1, <2>2 DEF UnitState
  <2>4. state' \in [Units -> UnitState]
    BY <1>0, <1>8, <2>2, <2>3 DEF seed_month
  <2> QED BY <1>0, <1>8, <2>4 DEF seed_month, UnitTypeOK
<1>9. ASSUME NEW c \in Callers, NEW u \in Units, NEW amount \in Amounts,
             NEW window \in 1 .. clock, restore(c, u, amount, window)
      PROVE  UnitTypeOK'
  <2> DEFINE s == rolled(state[u], clock)
             t == [s EXCEPT !.reserved = SaturatingAdd(@, amount)]
             k == [at |-> "holding", unit |-> u, amount |-> amount, cap |-> 0,
                   now |-> clock, window |-> window]
  <2>1. s \in UnitState /\ amount \in Money /\ window \in 0 .. MaxMonth
    BY <1>0, RolledIs, UnitInputsAssumption
  <2>2. SaturatingAdd(s.reserved, amount) \in Money
    BY <2>1, UnitArithmetic DEF UnitState
  <2>3. t \in UnitState /\ k \in Call
    BY <1>0, <2>1, <2>2 DEF UnitState, Call
  <2>4. /\ state' = [state EXCEPT ![u] = t] \/ state' = state
        /\ calls' = [calls EXCEPT ![c] = k]
    BY <1>9 DEF restore
  <2> HIDE DEF s, t, k
  <2>5. state' \in [Units -> UnitState] /\ calls' \in [Callers -> Call]
    BY <1>0, <2>3, <2>4
  <2> QED BY <1>0, <1>9, <2>5 DEF restore, UnitTypeOK
<1>10. CASE UNCHANGED uvars
  BY <1>0, <1>10 DEF uvars, UnitTypeOK
<1> QED BY <1>1, <1>2, <1>3, <1>4, <1>5, <1>6, <1>7, <1>8, <1>9, <1>10 DEF UnitNext

-----------------------------------------------------------------------------
(* No step dates anything after the clock, or makes an estimate up. *)
LEMMA DatedStep == UnitTypeOK /\ Dated /\ [UnitNext]_uvars => Dated'
<1> SUFFICES ASSUME UnitTypeOK, Dated, [UnitNext]_uvars PROVE Dated'
  OBVIOUS
<1>0. /\ clock \in Nat /\ \A u \in Units : state[u] \in UnitState /\ state[u].window \in Nat
      /\ state \in [Units -> UnitState] /\ calls \in [Callers -> Call]
      /\ \A c \in Callers : /\ calls[c].now \in Months /\ calls[c].now \in Nat
                            /\ calls[c].window \in Nat /\ calls[c].unit \in Units
      /\ clock \in Months
  BY UnitMoneyAssumption DEF UnitTypeOK, UnitState, Call, Months
<1>1. CASE Tick
  BY <1>0, <1>1 DEF Tick, Dated
<1>2. ASSUME NEW caps, set_overrides(caps) PROVE Dated'
  BY <1>2 DEF set_overrides, Dated
<1>3. ASSUME NEW c \in Callers, NEW u \in Units, NEW estimate \in Amounts, Ask(c, u, estimate)
      PROVE  Dated'
  BY <1>0, <1>3 DEF Ask, Dated
<1>4. ASSUME NEW c \in Callers, NEW s, s = rolled(state[calls[c].unit], calls[c].now),
             calls[c].at = "asking", Granted(c, s), clock' = clock
      PROVE  Dated'
  <2>1. s \in UnitState /\ s.window = calls[c].now
    BY <1>0, <1>4, RolledIs
  <2>2. \A u \in Units : state'[u].window \in {state[u].window, calls[c].now}
    BY <1>0, <1>4, <2>1 DEF Granted, UnitState
  <2>3. \A d \in Callers : \/ calls'[d] = calls[d]
                           \/ d = c /\ calls'[d].now = calls[d].now /\ calls'[d].at = "holding"
                              /\ calls'[d].window = calls[d].now
                              /\ calls'[d].amount = calls[d].amount
    BY <1>0, <1>4 DEF Granted, Call
  <2> QED BY <1>4, <2>2, <2>3 DEF Dated
<1>5. ASSUME NEW c \in Callers, try_reserve(c) PROVE Dated'
  <2> DEFINE s == rolled(state[calls[c].unit], calls[c].now)
  <2>1. CASE Granted(c, s)
    BY <1>4, <1>5, <2>1 DEF try_reserve
  <2>2. CASE /\ state' = [state EXCEPT ![calls[c].unit] = s]
             /\ calls' = [calls EXCEPT ![c].at = "idle"]
    <3>1. s \in UnitState /\ s.window = calls[c].now
      BY <1>0, RolledIs
    <3>2. \A u \in Units : state'[u].window \in {state[u].window, calls[c].now}
      BY <1>0, <2>2, <3>1
    <3>3. \A d \in Callers : \/ calls'[d] = calls[d]
                             \/ d = c /\ calls'[d].now = calls[d].now /\ calls'[d].at = "idle"
                                /\ calls'[d].window = calls[d].window
      BY <1>0, <2>2 DEF Call
    <3>4. clock' = clock
      BY <1>5 DEF try_reserve
    <3> QED BY <3>2, <3>3, <3>4 DEF Dated
  <2> QED BY <1>5, <2>1, <2>2 DEF try_reserve
<1>6. ASSUME NEW c \in Callers, reserve_unchecked(c) PROVE Dated'
  BY <1>4, <1>6 DEF reserve_unchecked
<1>7. ASSUME NEW c \in Callers, AskSettle(c) PROVE Dated'
  <2>1. \A d \in Callers : \/ calls'[d] = calls[d]
                           \/ d = c /\ calls'[d].now = clock /\ calls[d].at # "idle"
                              /\ calls'[d].window = calls[d].window
                              /\ calls'[d].amount = calls[d].amount
    BY <1>0, <1>7 DEF AskSettle, Call
  <2> QED BY <1>0, <1>7, <2>1 DEF AskSettle, Dated
<1>8. ASSUME NEW c \in Callers, NEW actual \in Costs, settle(c, actual) PROVE Dated'
  <2>1. \A u \in Units : state'[u].window = state[u].window
    BY <1>0, <1>8 DEF settle, UnitState
  <2>2. \A d \in Callers : \/ calls'[d] = calls[d]
                           \/ d = c /\ calls'[d].now = calls[d].now /\ calls'[d].at = "idle"
                              /\ calls'[d].window = calls[d].window
    BY <1>0, <1>8 DEF settle, Call
  <2>3. clock' = clock
    BY <1>8 DEF settle
  <2> QED BY <2>1, <2>2, <2>3 DEF Dated
<1>9. ASSUME NEW u \in Units, NEW spent \in Costs, NEW now \in SeedTimes,
             seed_month(u, spent, now)
      PROVE  Dated'
  <2>1. now \in Months /\ now =< clock
    BY <1>0, UnitMoneyAssumption DEF SeedTimes, Months
  <2>2. rolled(state[u], now) \in UnitState /\ rolled(state[u], now).window = now
    BY <1>0, <2>1, RolledIs
  <2>3. \A v \in Units : state'[v].window \in {state[v].window, now}
    BY <1>0, <1>9, <2>2 DEF seed_month, UnitState
  <2> QED BY <1>9, <2>1, <2>3 DEF seed_month, Dated
<1>10. ASSUME NEW c \in Callers, NEW u \in Units, NEW amount \in Amounts,
              NEW window \in 1 .. clock, restore(c, u, amount, window)
       PROVE  Dated'
  <2>1. rolled(state[u], clock) \in UnitState /\ rolled(state[u], clock).window = clock
    BY <1>0, RolledIs
  <2>2. \A v \in Units : state'[v].window \in {state[v].window, clock}
    BY <1>0, <1>10, <2>1 DEF restore, UnitState
  <2>3. \A d \in Callers : \/ calls'[d] = calls[d]
                           \/ d = c /\ calls'[d].now = clock /\ calls'[d].at = "holding"
                              /\ calls'[d].window = window /\ calls'[d].amount = amount
    BY <1>0, <1>10 DEF restore
  <2> QED BY <1>0, <1>10, <2>2, <2>3 DEF restore, Dated
<1>11. CASE UNCHANGED uvars
  BY <1>11 DEF uvars, Dated
<1> QED BY <1>1, <1>2, <1>3, <1>5, <1>6, <1>7, <1>8, <1>9, <1>10, <1>11 DEF UnitNext

(* What an operation that found window w does to the windows and to the    *)
(* call it is part of keeps every reservation of the month on its window.  *)
LEMMA TimelyFrom ==
  ASSUME UnitTypeOK, Timely, clock' = clock, prompt' = prompt, NEW c \in Callers,
         \A d \in Callers : d # c => calls'[d] = calls[d],
         prompt => \A u \in Units : state'[u].window \in {state[u].window, clock},
         prompt /\ calls'[c].at \in {"asking", "settling"} => calls'[c].now = clock,
         prompt /\ calls'[c].at \in {"holding", "settling"} /\ calls'[c].window = clock =>
           state'[calls'[c].unit].window = clock
  PROVE  Timely'
<1>1. \A d \in Callers : calls[d].unit \in Units
  BY DEF UnitTypeOK, Call
<1> QED BY <1>1 DEF Timely

LEMMA TimelyStep == UnitTypeOK /\ Dated /\ Timely /\ [UnitNext]_uvars => Timely'
<1> SUFFICES ASSUME UnitTypeOK, Dated, Timely, [UnitNext]_uvars PROVE Timely'
  OBVIOUS
<1>0. /\ clock \in Nat /\ clock \in Months
      /\ state \in [Units -> UnitState] /\ calls \in [Callers -> Call]
      /\ \A c \in Callers : /\ calls[c].now \in Months /\ calls[c].unit \in Units
                            /\ calls[c].window \in Nat
  BY UnitMoneyAssumption DEF UnitTypeOK, Call, Months
<1>1. CASE Tick
  BY <1>0, <1>1 DEF Tick, Dated, Timely
<1>2. ASSUME NEW caps, set_overrides(caps) PROVE Timely'
  BY <1>2 DEF set_overrides, Timely
<1>3. ASSUME NEW c \in Callers, NEW u \in Units, NEW estimate, Ask(c, u, estimate)
      PROVE  Timely'
  <2>1. calls'[c].at = "asking" /\ calls'[c].now = clock
    BY <1>0, <1>3 DEF Ask
  <2> QED BY <1>0, <1>3, <2>1, TimelyFrom DEF Ask
<1>4. ASSUME NEW c \in Callers, NEW s, s = rolled(state[calls[c].unit], calls[c].now),
             calls[c].at = "asking", Granted(c, s), clock' = clock, prompt' = prompt
      PROVE  Timely'
  <2>1. s \in UnitState /\ s.window = calls[c].now
    BY <1>0, <1>4, RolledIs
  <2>2. /\ calls'[c].at = "holding" /\ calls'[c].window = calls[c].now
        /\ calls'[c].unit = calls[c].unit
        /\ \A d \in Callers : d # c => calls'[d] = calls[d]
    BY <1>0, <1>4 DEF Granted, Call
  <2>3. /\ state'[calls[c].unit].window = calls[c].now
        /\ \A u \in Units : state'[u].window \in {state[u].window, calls[c].now}
    BY <1>0, <1>4, <2>1 DEF Granted, UnitState
  <2>4. prompt => calls[c].now = clock
    BY <1>4 DEF Timely
  <2> QED BY <1>4, <2>2, <2>3, <2>4, TimelyFrom
<1>5. ASSUME NEW c \in Callers, try_reserve(c) PROVE Timely'
  <2> DEFINE s == rolled(state[calls[c].unit], calls[c].now)
  <2>1. CASE Granted(c, s)
    BY <1>4, <1>5, <2>1 DEF try_reserve
  <2>2. CASE /\ state' = [state EXCEPT ![calls[c].unit] = s]
             /\ calls' = [calls EXCEPT ![c].at = "idle"]
    <3>1. s \in UnitState /\ s.window = calls[c].now
      BY <1>0, RolledIs
    <3>2. \A u \in Units : state'[u].window \in {state[u].window, calls[c].now}
      BY <1>0, <2>2, <3>1
    <3>3. calls'[c].at = "idle" /\ \A d \in Callers : d # c => calls'[d] = calls[d]
      BY <1>0, <2>2 DEF Call
    <3>4. prompt => calls[c].now = clock
      BY <1>5 DEF try_reserve, Timely
    <3>5. clock' = clock /\ prompt' = prompt
      BY <1>5 DEF try_reserve
    <3> QED BY <3>2, <3>3, <3>4, <3>5, TimelyFrom
  <2> QED BY <1>5, <2>1, <2>2 DEF try_reserve
<1>6. ASSUME NEW c \in Callers, reserve_unchecked(c) PROVE Timely'
  BY <1>4, <1>6 DEF reserve_unchecked
<1>7. ASSUME NEW c \in Callers, AskSettle(c) PROVE Timely'
  <2>1. /\ calls'[c].at = "settling" /\ calls'[c].now = clock
        /\ calls'[c].window = calls[c].window /\ calls'[c].unit = calls[c].unit
        /\ \A d \in Callers : d # c => calls'[d] = calls[d]
    BY <1>0, <1>7 DEF AskSettle, Call
  <2>2. prompt /\ calls[c].window = clock => state[calls[c].unit].window = clock
    BY <1>7 DEF AskSettle, Timely
  <2>3. clock' = clock /\ prompt' = prompt /\ state' = state
    BY <1>7 DEF AskSettle
  <2> QED BY <2>1, <2>2, <2>3, TimelyFrom
<1>8. ASSUME NEW c \in Callers, NEW actual, settle(c, actual) PROVE Timely'
  <2>1. \A u \in Units : state'[u].window = state[u].window
    BY <1>0, <1>8 DEF settle, UnitState
  <2>2. calls'[c].at = "idle" /\ \A d \in Callers : d # c => calls'[d] = calls[d]
    BY <1>0, <1>8 DEF settle, Call
  <2>3. clock' = clock /\ prompt' = prompt
    BY <1>8 DEF settle
  <2> QED BY <2>1, <2>2, <2>3, TimelyFrom
<1>9. ASSUME NEW u \in Units, NEW spent, NEW now \in SeedTimes, seed_month(u, spent, now)
      PROVE  Timely'
  <2>1. now \in Months /\ (prompt => now = clock)
    BY <1>0, UnitMoneyAssumption DEF SeedTimes, Months
  <2>2. rolled(state[u], now) \in UnitState /\ rolled(state[u], now).window = now
    BY <1>0, <2>1, RolledIs
  <2>3. \A v \in Units : state'[v].window \in {state[v].window, now}
    BY <1>0, <1>9, <2>2 DEF seed_month, UnitState
  <2> QED BY <1>0, <1>9, <2>1, <2>3 DEF seed_month, Timely
<1>10. ASSUME NEW c \in Callers, NEW u \in Units, NEW amount,
              NEW window \in 1 .. clock, restore(c, u, amount, window)
       PROVE  Timely'
  <2>1. rolled(state[u], clock) \in UnitState /\ rolled(state[u], clock).window = clock
    BY <1>0, RolledIs
  <2>2. /\ \A v \in Units : state'[v].window \in {state[v].window, clock}
        /\ window = clock => state'[u].window = clock
    BY <1>0, <1>10, <2>1 DEF restore, UnitState
  <2>3. /\ calls'[c].at = "holding" /\ calls'[c].window = window /\ calls'[c].unit = u
        /\ \A d \in Callers : d # c => calls'[d] = calls[d]
    BY <1>0, <1>10 DEF restore
  <2>4. clock' = clock /\ prompt' = prompt
    BY <1>10 DEF restore
  <2> QED BY <2>2, <2>3, <2>4, TimelyFrom
<1>11. CASE UNCHANGED uvars
  BY <1>11 DEF uvars, Timely
<1> QED BY <1>1, <1>2, <1>3, <1>5, <1>6, <1>7, <1>8, <1>9, <1>10, <1>11 DEF UnitNext

-----------------------------------------------------------------------------
(* The sums a step of request c can change.                                *)
LEMMA CallSums ==
  ASSUME UnitTypeOK, UnitTypeOK', Dated', Timely, NEW c \in Callers, NEW u \in Units,
         \A d \in Callers : d # c => calls'[d] = calls[d]
  PROVE  \E o \in Nat :
           /\ Outstanding(u)' = o + Amount(calls'[c], u, state'[u].window)
           /\ state'[u].window = state[u].window =>
                Outstanding(u) = o + Amount(calls[c], u, state[u].window)
           /\ prompt /\ state'[u].window = clock /\ state[u].window # clock => o = 0
           /\ AmountsFit => Outstanding(u)' =< MaxMoney
<1> DEFINE w == state'[u].window
           o == SumOf(calls, Callers \ {c}, u, w)
<1>0. calls \in [Callers -> Call] /\ calls' \in [Callers -> Call]
  BY DEF UnitTypeOK
<1>1. o \in Nat /\ SumOf(calls, Callers, u, w) = o + Amount(calls[c], u, w)
  BY <1>0, SumSplit
<1>2. SumOf(calls', Callers, u, w)
        = SumOf(calls', Callers \ {c}, u, w) + Amount(calls'[c], u, w)
  BY <1>0, SumSplit
<1>3. SumOf(calls', Callers \ {c}, u, w) = o
  BY SameOthers
<1>4. Outstanding(u)' = SumOf(calls', Callers, u, w)
  BY OutstandingSum
<1>5. w = state[u].window => Outstanding(u) = SumOf(calls, Callers, u, w)
  BY OutstandingSum
<1>6. ASSUME prompt, w = clock, state[u].window # clock PROVE o = 0
  <2>1. {d \in Callers \ {c} : InForce(calls[d], u, w)} = {}
    BY <1>6 DEF InForce, Timely
  <2>2. Toks({}, calls) = {}
    BY DEF Toks
  <2> QED BY <2>1, <2>2, FS_EmptySet DEF SumOf
<1>7. AmountsFit => SumOf(calls', Callers, u, w) =< MaxMoney
  BY <1>0, SumFits DEF Dated
<1> HIDE DEF o, w
<1> QED BY <1>1, <1>2, <1>3, <1>4, <1>5, <1>6, <1>7 DEF w

(* A unit a step does not touch, beyond what the request has in force. *)
LEMMA QuietEven ==
  ASSUME UnitTypeOK, UnitTypeOK', Dated', Timely, clock' = clock, prompt' = prompt,
         NEW c \in Callers, \A d \in Callers : d # c => calls'[d] = calls[d],
         NEW u \in Units, Even(u),
         state'[u].window = state[u].window, state'[u].reserved = state[u].reserved,
         state[u].window = clock => Amount(calls'[c], u, clock) = Amount(calls[c], u, clock)
  PROVE  Even(u)'
<1>1. PICK o \in Nat :
        /\ Outstanding(u)' = o + Amount(calls'[c], u, state'[u].window)
        /\ Outstanding(u) = o + Amount(calls[c], u, state[u].window)
  BY CallSums
<1> QED BY <1>1 DEF Even, AmountsFit

(* A unit whose window is current, or made so, and takes a reservation. *)
LEMMA AddEven ==
  ASSUME UnitTypeOK, UnitTypeOK', Dated', Timely, clock' = clock, prompt' = prompt,
         NEW c \in Callers, \A d \in Callers : d # c => calls'[d] = calls[d],
         NEW u \in Units, Even(u), NEW amount \in Money, NEW s, s = rolled(state[u], clock),
         state'[u].window = clock,
         state'[u].reserved = SaturatingAdd(s.reserved, amount),
         Amount(calls[c], u, clock) = 0, Amount(calls'[c], u, clock) = amount
  PROVE  Even(u)'
<1>1. PICK o \in Nat :
        /\ Outstanding(u)' = o + amount
        /\ state[u].window = clock => Outstanding(u) = o + 0
        /\ prompt /\ state[u].window # clock => o = 0
        /\ AmountsFit => Outstanding(u)' =< MaxMoney
  BY CallSums
<1>2. /\ state[u] \in UnitState /\ clock \in Months
      /\ state[u].reserved \in Money /\ 0 \in Money /\ MaxMoney \in Nat
  BY UnitMoneyAssumption DEF UnitTypeOK, UnitState, Money
<1>3. s.reserved = IF state[u].window = clock THEN state[u].reserved ELSE 0
  BY <1>2, RolledIs
<1>4. /\ s.reserved \in Nat /\ amount \in Nat /\ s.reserved \in Money
      /\ SaturatingAdd(s.reserved, amount) \in Nat
      /\ SaturatingAdd(s.reserved, amount) =< s.reserved + amount
      /\ s.reserved + amount =< MaxMoney =>
           SaturatingAdd(s.reserved, amount) = s.reserved + amount
  <2>1. s.reserved \in Money
    BY <1>2, <1>3
  <2> QED BY <2>1, UnitArithmetic DEF Money
<1>5. s.reserved =< o /\ (prompt /\ AmountsFit => s.reserved = o)
  BY <1>1, <1>2, <1>3 DEF Even
<1>6. state'[u].reserved =< Outstanding(u)'
  BY <1>1, <1>4, <1>5
<1>7. prompt /\ AmountsFit => state'[u].reserved = Outstanding(u)'
  BY <1>1, <1>4, <1>5
<1> QED BY <1>6, <1>7 DEF Even, AmountsFit

(* A window made current while the requests stand still. *)
LEMMA StillSums ==
  ASSUME UnitTypeOK, Timely, calls' = calls, NEW u \in Units
  PROVE  /\ Outstanding(u)' \in Nat
         /\ state'[u].window = state[u].window => Outstanding(u)' = Outstanding(u)
         /\ prompt /\ state'[u].window = clock /\ state[u].window # clock => Outstanding(u)' = 0
<1> DEFINE w == state'[u].window
           S == {d \in Callers : InForce(calls[d], u, w)}
<1>1. Outstanding(u)' = Cardinality(Toks(S, calls))
  BY OutstandingSum DEF SumOf
<1>2. Cardinality(Toks(S, calls)) \in Nat
  BY ToksFinite DEF UnitTypeOK
<1>3. w = state[u].window => Outstanding(u) = Cardinality(Toks(S, calls))
  BY OutstandingSum DEF SumOf
<1>4. ASSUME prompt, w = clock, state[u].window # clock PROVE Cardinality(Toks(S, calls)) = 0
  <2>1. S = {}
    BY <1>4 DEF InForce, Timely
  <2>2. Toks({}, calls) = {}
    BY DEF Toks
  <2> QED BY <2>1, <2>2, FS_EmptySet
<1> QED BY <1>1, <1>2, <1>3, <1>4

LEMMA EvenStep ==
  UnitInv /\ [UnitNext]_uvars /\ UnitTypeOK' /\ Dated' => \A u \in Units : Even(u)'
<1> SUFFICES ASSUME UnitInv, [UnitNext]_uvars, UnitTypeOK', Dated', NEW u \in Units
             PROVE  Even(u)'
  OBVIOUS
<1>0. /\ UnitTypeOK /\ Dated /\ Timely /\ Even(u)
      /\ clock \in Nat /\ clock \in Months
      /\ state \in [Units -> UnitState] /\ calls \in [Callers -> Call]
      /\ \A c \in Callers : /\ calls[c].now \in Months /\ calls[c].now \in Nat
                            /\ calls[c].unit \in Units /\ calls[c].window \in Nat
                            /\ calls[c].amount \in Money /\ calls[c].amount \in Nat
  BY UnitMoneyAssumption DEF UnitInv, UnitTypeOK, Call, Months, Money
<1>1. CASE Tick
  BY <1>0, <1>1 DEF Tick, Dated, Even
<1>2. ASSUME NEW caps, set_overrides(caps) PROVE Even(u)'
  BY <1>0, <1>2 DEF set_overrides, Even, Outstanding, Holders, AmountsFit
<1>3. ASSUME NEW c \in Callers, NEW v \in Units, NEW estimate, Ask(c, v, estimate)
      PROVE  Even(u)'
  <2>1. /\ calls'[c].at = "asking" /\ calls[c].at = "idle"
        /\ \A d \in Callers : d # c => calls'[d] = calls[d]
        /\ clock' = clock /\ prompt' = prompt /\ state' = state
    BY <1>0, <1>3 DEF Ask
  <2>2. Amount(calls'[c], u, clock) = Amount(calls[c], u, clock)
    BY <2>1 DEF Amount, InForce
  <2> QED BY <1>0, <2>1, <2>2, QuietEven
<1>4. ASSUME NEW c \in Callers, NEW s, s = rolled(state[calls[c].unit], calls[c].now),
             calls[c].at = "asking", Granted(c, s), clock' = clock, prompt' = prompt
      PROVE  Even(u)'
  <2>1. s \in UnitState /\ s.window = calls[c].now
    BY <1>0, <1>4, RolledIs
  <2>2. /\ calls'[c].at = "holding" /\ calls'[c].window = calls[c].now
        /\ calls'[c].unit = calls[c].unit /\ calls'[c].amount = calls[c].amount
        /\ \A d \in Callers : d # c => calls'[d] = calls[d]
    BY <1>0, <1>4 DEF Granted, Call
  <2>3. CASE u # calls[c].unit
    <3>1. state'[u] = state[u]
      BY <1>0, <1>4, <2>3 DEF Granted
    <3>2. Amount(calls'[c], u, clock) = Amount(calls[c], u, clock)
      BY <2>2, <2>3 DEF Amount, InForce
    <3> QED BY <1>0, <1>4, <2>2, <3>1, <3>2, QuietEven
  <2>4. CASE u = calls[c].unit
    <3>1. /\ state'[u].window = calls[c].now
          /\ state'[u].reserved = SaturatingAdd(s.reserved, calls[c].amount)
      BY <1>0, <1>4, <2>1, <2>4 DEF Granted, UnitState
    <3>2. CASE calls[c].now # clock
      BY <1>4, <3>1, <3>2 DEF Even
    <3>3. CASE calls[c].now = clock
      <4>1. Amount(calls[c], u, clock) = 0 /\ Amount(calls'[c], u, clock) = calls[c].amount
        BY <1>4, <2>2, <2>4, <3>3 DEF Amount, InForce
      <4> QED BY <1>0, <1>4, <2>2, <2>4, <3>1, <3>3, <4>1, AddEven
    <3> QED BY <3>2, <3>3
  <2> QED BY <2>3, <2>4
<1>5. ASSUME NEW c \in Callers, try_reserve(c) PROVE Even(u)'
  <2> DEFINE s == rolled(state[calls[c].unit], calls[c].now)
  <2>0. calls[c].at = "asking" /\ clock' = clock /\ prompt' = prompt
    BY <1>5 DEF try_reserve
  <2>1. CASE Granted(c, s)
    BY <1>4, <2>0, <2>1
  <2>2. CASE /\ state' = [state EXCEPT ![calls[c].unit] = s]
             /\ calls' = [calls EXCEPT ![c].at = "idle"]
    <3>1. /\ s \in UnitState /\ s.window = calls[c].now
          /\ state[calls[c].unit].window = calls[c].now => s = state[calls[c].unit]
          /\ state[calls[c].unit].window # calls[c].now => s.reserved = 0
      BY <1>0, RolledIs
    <3>2. /\ calls'[c].at = "idle" /\ \A d \in Callers : d # c => calls'[d] = calls[d]
      BY <1>0, <2>2 DEF Call
    <3>3. \A w : Amount(calls'[c], u, w) = 0 /\ Amount(calls[c], u, w) = 0
      BY <2>0, <3>2 DEF Amount, InForce
    <3>4. CASE state'[u] = state[u]
      BY <1>0, <2>0, <3>2, <3>3, <3>4, QuietEven
    <3>5. CASE state'[u] # state[u]
      <4>1. u = calls[c].unit /\ state'[u] = s /\ state[u].window # calls[c].now
        BY <1>0, <2>2, <3>1, <3>5
      <4>2. CASE calls[c].now # clock
        BY <2>0, <3>1, <4>1, <4>2 DEF Even
      <4>3. CASE calls[c].now = clock
        <5>1. PICK o \in Nat : /\ Outstanding(u)' = o + 0
                               /\ prompt /\ state'[u].window = clock
                                    /\ state[u].window # clock => o = 0
          BY <1>0, <3>2, <3>3, CallSums
        <5> QED BY <2>0, <3>1, <4>1, <4>3, <5>1 DEF Even, AmountsFit
      <4> QED BY <4>2, <4>3
    <3> QED BY <3>4, <3>5
  <2> QED BY <1>5, <2>1, <2>2 DEF try_reserve
<1>6. ASSUME NEW c \in Callers, reserve_unchecked(c) PROVE Even(u)'
  BY <1>4, <1>6 DEF reserve_unchecked
<1>7. ASSUME NEW c \in Callers, AskSettle(c) PROVE Even(u)'
  <2>1. /\ calls'[c].at = "settling" /\ calls[c].at = "holding"
        /\ calls'[c].window = calls[c].window /\ calls'[c].unit = calls[c].unit
        /\ calls'[c].amount = calls[c].amount
        /\ \A d \in Callers : d # c => calls'[d] = calls[d]
        /\ clock' = clock /\ prompt' = prompt /\ state' = state
    BY <1>0, <1>7 DEF AskSettle, Call
  <2>2. Amount(calls'[c], u, clock) = Amount(calls[c], u, clock)
    BY <2>1 DEF Amount, InForce
  <2> QED BY <1>0, <2>1, <2>2, QuietEven
<1>8. ASSUME NEW c \in Callers, NEW actual \in Costs, settle(c, actual) PROVE Even(u)'
  <2> DEFINE held == calls[c]
             s == state[held.unit]
  <2>1. /\ calls'[c].at = "idle" /\ held.at = "settling"
        /\ \A d \in Callers : d # c => calls'[d] = calls[d]
        /\ clock' = clock /\ prompt' = prompt
    BY <1>0, <1>8 DEF settle, Call
  <2>2. \A w : Amount(calls'[c], u, w) = 0
    BY <2>1 DEF Amount, InForce
  <2>3. CASE u = held.unit /\ held.window = held.now /\ s.window = held.window
    <3>1. /\ state'[u].window = state[u].window
          /\ state'[u].reserved = SaturatingSub(state[u].reserved, held.amount)
      BY <1>0, <1>8, <2>3 DEF settle, UnitState
    <3>2. Amount(held, u, state[u].window) = held.amount
      BY <2>1, <2>3 DEF Amount, InForce
    <3>3. PICK o \in Nat : Outstanding(u)' = o + 0 /\ Outstanding(u) = o + held.amount
      BY <1>0, <2>1, <2>2, <3>1, <3>2, CallSums
    <3>4. state[u].reserved \in Nat /\ held.amount \in Nat
      BY <1>0, UnitMoneyAssumption DEF UnitState, Money
    <3> HIDE DEF held, s
    <3> QED BY <1>0, <2>1, <3>1, <3>3, <3>4 DEF Even, AmountsFit, SaturatingSub
  <2>4. CASE ~(u = held.unit /\ held.window = held.now /\ s.window = held.window)
    <3>1. state'[u] = state[u]
      BY <1>0, <1>8, <2>4 DEF settle
    <3>2. ASSUME state[u].window = clock PROVE Amount(held, u, clock) = 0
      <4>1. held.now =< clock /\ held.window =< held.now
        BY <1>0, <2>1 DEF Dated
      <4> QED BY <1>0, <2>4, <3>2, <4>1 DEF Amount, InForce
    <3> QED BY <1>0, <2>1, <2>2, <3>1, <3>2, QuietEven
  <2> QED BY <2>3, <2>4
<1>9. ASSUME NEW v \in Units, NEW spent \in Costs, NEW now \in SeedTimes,
             seed_month(v, spent, now)
      PROVE  Even(u)'
  <2>1. now \in Months
    BY <1>0, UnitMoneyAssumption DEF SeedTimes, Months
  <2>2. clock' = clock /\ prompt' = prompt /\ calls' = calls
    BY <1>9 DEF seed_month
  <2>3. /\ rolled(state[v], now) \in UnitState /\ rolled(state[v], now).window = now
        /\ state[v].window = now => rolled(state[v], now) = state[v]
        /\ state[v].window # now => rolled(state[v], now).reserved = 0
    BY <1>0, <2>1, RolledIs
  <2>4. \/ /\ state'[u].window = state[u].window /\ state'[u].reserved = state[u].reserved
        \/ state'[u].window = now /\ state[u].window # now /\ state'[u].reserved = 0
    BY <1>0, <1>9, <2>3 DEF seed_month, UnitState
  <2>5. /\ Outstanding(u)' \in Nat
        /\ state'[u].window = state[u].window => Outstanding(u)' = Outstanding(u)
        /\ prompt /\ state'[u].window = clock /\ state[u].window # clock => Outstanding(u)' = 0
    BY <1>0, <2>2, StillSums
  <2> QED BY <1>0, <2>2, <2>4, <2>5 DEF Even, AmountsFit
<1>10. ASSUME NEW c \in Callers, NEW v \in Units, NEW amount \in Amounts,
              NEW window \in 1 .. clock, restore(c, v, amount, window)
       PROVE  Even(u)'
  <2> DEFINE s == rolled(state[v], clock)
  <2>1. s \in UnitState /\ s.window = clock
    BY <1>0, RolledIs
  <2>2. /\ calls[c].at = "idle"
        /\ calls'[c].at = "holding" /\ calls'[c].window = window /\ calls'[c].unit = v
        /\ calls'[c].amount = amount
        /\ \A d \in Callers : d # c => calls'[d] = calls[d]
        /\ clock' = clock /\ prompt' = prompt
    BY <1>0, <1>10 DEF restore
  <2>3. amount \in Money
    BY UnitInputsAssumption
  <2>4. CASE u = v /\ window = clock
    <3>1. state'[u].window = clock /\ state'[u].reserved = SaturatingAdd(s.reserved, amount)
      BY <1>0, <1>10, <2>1, <2>4 DEF restore, UnitState
    <3>2. Amount(calls[c], u, clock) = 0 /\ Amount(calls'[c], u, clock) = amount
      BY <2>2, <2>4 DEF Amount, InForce
    <3> QED BY <1>0, <2>2, <2>3, <2>4, <3>1, <3>2, AddEven
  <2>5. CASE ~(u = v /\ window = clock)
    <3>1. state'[u] = state[u]
      BY <1>0, <1>10, <2>5 DEF restore
    <3>2. Amount(calls'[c], u, clock) = Amount(calls[c], u, clock)
      BY <2>2, <2>5 DEF Amount, InForce
    <3> QED BY <1>0, <2>2, <3>1, <3>2, QuietEven
  <2> QED BY <2>4, <2>5
<1>11. CASE UNCHANGED uvars
  BY <1>0, <1>11 DEF uvars, Even, Outstanding, Holders, AmountsFit
<1> QED BY <1>1, <1>2, <1>3, <1>5, <1>6, <1>7, <1>8, <1>9, <1>10, <1>11 DEF UnitNext

-----------------------------------------------------------------------------
LEMMA UnitInvInit == UnitInit => UnitInv
<1> SUFFICES ASSUME UnitInit PROVE UnitInv
  OBVIOUS
<1>1. (CHOOSE u \in Units : TRUE) \in Units
  BY UnitCallersAssumption
<1>2. 0 \in Money /\ 1 \in Months /\ 0 \in 0 .. MaxMonth
  BY UnitMoneyAssumption DEF Money, Months
<1>3. UnitTypeOK
  BY <1>1, <1>2 DEF UnitInit, UnitTypeOK, UnitState, Call
<1> QED BY <1>3 DEF UnitInit, UnitInv, Dated, Timely, Even

LEMMA UnitInvStep == UnitInv /\ [UnitNext]_uvars => UnitInv'
BY UnitTypeStep, DatedStep, TimelyStep, EvenStep DEF UnitInv

LEMMA UnitInvAlways == UnitSpec => []UnitInv
BY UnitInvInit, UnitInvStep, PTL DEF UnitSpec

-----------------------------------------------------------------------------
(* Every counter of every unit stays inside i64 and every window inside    *)
(* the months seen, whatever the requests, overrides, seeds and restores:  *)
(* UnitLedger saturates and never wraps.                                   *)
THEOREM UnitTypeCorrect == UnitSpec => []UnitTypeOK
<1>1. UnitInv => UnitTypeOK
  BY DEF UnitInv
<1> QED BY <1>1, UnitInvAlways, PTL

(* In the current month a unit reserves no more than the calls holding a   *)
(* reservation of that month add up to, even when a month boundary falls   *)
(* between a call's reading of the clock and the lock: nothing of a cap is *)
(* lost to a call that will never release it.                              *)
THEOREM UnitNoLeak == UnitSpec => []UnitReservedCovered
<1>1. UnitInv => UnitReservedCovered
  BY DEF UnitInv, Even, UnitReservedCovered
<1> QED BY <1>1, UnitInvAlways, PTL

(* Where the estimates of the requests under way cannot add up past        *)
(* i64::MAX and no boundary falls between the clock and the lock, a unit   *)
(* in the current month reserves exactly that sum: settle releases what    *)
(* try_reserve, reserve_unchecked or restore took, once, and nothing of    *)
(* another month.                                                          *)
THEOREM UnitExact == ASSUME AmountsFit PROVE UnitSpec => []UnitReservedExact
<1>1. UnitInv => UnitReservedExact
  BY AmountsFit DEF UnitInv, Even, UnitReservedExact
<1> QED BY <1>1, UnitInvAlways, PTL

LEMMA SpendKeptStep ==
  UnitInv /\ [UnitNext]_uvars =>
    [prompt => \A u \in Units :
       \/ state'[u].window > state[u].window
       \/ state'[u].window = state[u].window /\ state'[u].spent >= state[u].spent]_uvars
<1> DEFINE Kept(u) ==
      \/ state'[u].window > state[u].window
      \/ state'[u].window = state[u].window /\ state'[u].spent >= state[u].spent
<1> SUFFICES ASSUME UnitInv, UnitNext, prompt, NEW u \in Units PROVE Kept(u)
  OBVIOUS
<1>0. /\ clock \in Nat /\ clock \in Months
      /\ state \in [Units -> UnitState] /\ calls \in [Callers -> Call]
      /\ state[u].window \in Nat /\ state[u].spent \in Nat /\ state[u].window =< clock
      /\ \A c \in Callers :
           /\ calls[c].unit \in Units /\ calls[c].now \in Months
           /\ calls[c].at \in {"asking", "settling"} => calls[c].now = clock
  BY UnitMoneyAssumption DEF UnitInv, UnitTypeOK, Dated, Timely, Call, UnitState, Months, Money
<1> DEFINE s(v) == rolled(state[v], clock)
<1>1. \A v \in Units :
        /\ s(v) \in UnitState /\ s(v).window = clock
        /\ state[v].window = clock => s(v) = state[v]
  BY <1>0, RolledIs
<1>2. state'[u] = state[u] => Kept(u)
  BY <1>0
<1>3. ASSUME state'[u].window = clock, state'[u].spent = s(u).spent PROVE Kept(u)
  BY <1>0, <1>1, <1>3
<1>4. ASSUME NEW c \in Callers, calls[c].at = "asking",
             Granted(c, rolled(state[calls[c].unit], calls[c].now))
      PROVE  Kept(u)
  <2>1. state' = [state EXCEPT ![calls[c].unit] =
                    [s(calls[c].unit) EXCEPT !.reserved = SaturatingAdd(@, calls[c].amount)]]
    BY <1>0, <1>4 DEF Granted
  <2>2. CASE u = calls[c].unit
    BY <1>0, <1>1, <1>3, <2>1, <2>2 DEF UnitState
  <2>3. CASE u # calls[c].unit
    BY <1>0, <1>2, <2>1, <2>3
  <2> QED BY <2>2, <2>3
<1>5. ASSUME NEW c \in Callers, try_reserve(c) PROVE Kept(u)
  <2>1. CASE Granted(c, rolled(state[calls[c].unit], calls[c].now))
    BY <1>4, <1>5, <2>1 DEF try_reserve
  <2>2. CASE state' = [state EXCEPT ![calls[c].unit] = s(calls[c].unit)]
    BY <1>0, <1>1, <1>2, <1>3, <2>2
  <2> QED BY <1>0, <1>5, <2>1, <2>2 DEF try_reserve
<1>6. ASSUME NEW c \in Callers, reserve_unchecked(c) PROVE Kept(u)
  BY <1>4, <1>6 DEF reserve_unchecked
<1>7. ASSUME NEW c \in Callers, NEW actual \in Costs, settle(c, actual) PROVE Kept(u)
  <2>1. actual \in Money /\ state[calls[c].unit].spent \in Money
    BY <1>0, UnitInputsAssumption DEF UnitState
  <2>2. /\ SaturatingAdd(state[calls[c].unit].spent, actual) \in Nat
        /\ SaturatingAdd(state[calls[c].unit].spent, actual) >= state[calls[c].unit].spent
    BY <2>1, UnitArithmetic
  <2> QED BY <1>0, <1>2, <1>7, <2>2 DEF settle, UnitState
<1>8. ASSUME NEW v \in Units, NEW spent \in Costs, NEW now \in SeedTimes,
             seed_month(v, spent, now)
      PROVE  Kept(u)
  <2>1. now = clock /\ spent \in Nat
    BY UnitInputsAssumption, UnitMoneyAssumption DEF SeedTimes, Money
  <2>2. s(v).spent \in Nat
    BY <1>1, UnitMoneyAssumption DEF UnitState, Money
  <2>3. CASE u = v
    <3>1. state'[u].window = clock /\ state'[u].spent >= s(u).spent
      BY <1>0, <1>1, <1>8, <2>1, <2>2, <2>3 DEF seed_month, UnitState
    <3> QED BY <1>0, <1>1, <3>1
  <2>4. CASE u # v
    BY <1>0, <1>2, <1>8, <2>4 DEF seed_month
  <2> QED BY <2>3, <2>4
<1>9. ASSUME NEW c \in Callers, NEW v \in Units, NEW amount \in Amounts,
             NEW window \in 1 .. clock, restore(c, v, amount, window)
      PROVE  Kept(u)
  <2>1. CASE u = v /\ window = clock
    <3>1. state'[u].window = clock /\ state'[u].spent = s(u).spent
      BY <1>0, <1>1, <1>9, <2>1 DEF restore, UnitState
    <3> QED BY <1>3, <3>1
  <2>2. CASE ~(u = v /\ window = clock)
    BY <1>0, <1>2, <1>9, <2>2 DEF restore
  <2> QED BY <2>1, <2>2
<1>10. ASSUME state' = state PROVE Kept(u)
  BY <1>2, <1>10
<1> QED BY <1>5, <1>6, <1>7, <1>8, <1>9, <1>10
        DEF UnitNext, Tick, set_overrides, Ask, AskSettle

(* Without a boundary between the clock and the lock, an operation either  *)
(* opens a later month for a unit or keeps every micro-dollar its month    *)
(* has counted: no late settlement, seed, restore or refusal forgets       *)
(* spend.                                                                  *)
THEOREM UnitSpendIsKept == UnitSpec => UnitSpendKept
<1> DEFINE KeepsSpend ==
      prompt => \A u \in Units :
        \/ state'[u].window > state[u].window
        \/ state'[u].window = state[u].window /\ state'[u].spent >= state[u].spent
<1>1. UnitInv /\ [UnitNext]_uvars => [KeepsSpend]_uvars
  BY SpendKeptStep
<1>2. UnitSpec => [][KeepsSpend]_uvars
  BY <1>1, UnitInvAlways, PTL DEF UnitSpec
<1> QED BY <1>2 DEF UnitSpendKept
=============================================================================
