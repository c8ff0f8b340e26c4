--------------------------- MODULE MCManagedCall ---------------------------
(* A call and what it is made of, each part on a small instance of its     *)
(* own, in behaviours that move one of them: the calls, the unit ledger,   *)
(* the gate on a streamed answer, the meter that prices it, the checks on  *)
(* a run's next call.  The calls: a parent and a child run, a buffered     *)
(* request the cache may serve, and a streamed one whose history read the  *)
(* web.  The constants are in the .cfg file.                               *)
EXTENDS ManagedCall, UnitLedger, StreamGate, Metering, RunWatch

CONSTANTS parent_run, child_run, key1, a1

VARIABLE part

MCParent == [r \in Runs |-> IF r = child_run THEN parent_run ELSE NoRun]

MCConfigs ==
  {[mode |-> "enforce", firewall |-> "enforce", dlp |-> "block", dlp_pii |-> "off", cache |-> "on", wardryx |-> "enforce"],
   [mode |-> "shadow", firewall |-> "enforce", dlp |-> "mask", dlp_pii |-> "shadow", cache |-> "shadow", wardryx |-> "off"],
   [mode |-> "enforce", firewall |-> "off", dlp |-> "off", dlp_pii |-> "block", cache |-> "off", wardryx |-> "shadow"]}

MCRequests ==
  {[stream |-> FALSE, found |-> "none", key |-> key1, history |-> {}],
   [stream |-> TRUE, found |-> "pii", key |-> NoKey, history |-> {"fetch"}],
   [stream |-> TRUE, found |-> "secret", key |-> NoKey, history |-> {}]}

MCAnswers ==
  {[ok |-> TRUE, searched |-> TRUE, tools |-> {}, usage |-> "full", cost |-> 1],
   [ok |-> TRUE, searched |-> FALSE, tools |-> {"exec"}, usage |-> "none", cost |-> 0],
   [ok |-> TRUE, searched |-> TRUE, tools |-> {"exec"}, usage |-> "full", cost |-> 3],
   [ok |-> TRUE, searched |-> FALSE, tools |-> {"fetch"}, usage |-> "truncated", cost |-> 0],
   [ok |-> FALSE, searched |-> FALSE, tools |-> {}, usage |-> "none", cost |-> 0]}

MCLabelsOf == [t \in {"fetch", "exec"} |-> IF t = "fetch" THEN {"web"} ELSE {}]
MCDenied == {<<"web", "exec">>}

(* The meter: the dialects of the providers and bills of each. *)
Quiet == [opens |-> <<>>, usage |-> <<>>, open |-> FALSE, closes |-> FALSE]
Bill(i, o, r, w, h) == [input |-> i, output |-> o, cache_read |-> r, cache_write |-> w, cache_write_1h |-> h]

(* Anthropic: opening counters, running totals, the last total, the end. *)
Opening(b) ==
  [Quiet EXCEPT !.opens = "input_tokens" :> b.input @@ "output_tokens" :> 1 @@ "cache_read_input_tokens" :> b.cache_read
     @@ "cache_creation_input_tokens" :> b.cache_write @@ "ephemeral_1h_input_tokens" :> b.cache_write_1h]
Total(n, open) == [Quiet EXCEPT !.usage = "output_tokens" :> n, !.open = open]
Done == [Quiet EXCEPT !.closes = TRUE]
AnthropicBody(b) == <<Opening(b), Total(1, TRUE), Total(b.output, FALSE), Done>>

(* OpenAI: the whole usage in one object, also on every chunk so far. *)
Spelt(b, output) ==
  "prompt_tokens" :> b.input + b.cache_read + b.cache_write @@ "cached_tokens" :> b.cache_read
    @@ "cache_write_tokens" :> b.cache_write @@ "completion_tokens" :> output
    @@ "total_tokens" :> b.input + b.cache_read + b.cache_write + output
OpenAiBody(b) == <<Quiet, [Quiet EXCEPT !.usage = Spelt(b, b.output)], Done>>
RunningBody(b) ==
  <<[Quiet EXCEPT !.usage = Spelt(b, 1), !.open = TRUE], [Quiet EXCEPT !.usage = Spelt(b, b.output), !.open = TRUE], Done>>
(* Vertex: a completion count without the reasoning the total holds. *)
VertexBody(b) == <<[Quiet EXCEPT !.usage = [Spelt(b, b.output) EXCEPT !["completion_tokens"] = 1]], Done>>
(* The figures of one usage spread over two objects in every way. *)
SplitBodies(b) ==
  LET whole == Spelt(b, b.output)
      only(K) == [key \in K |-> whole[key]]
  IN  {<<[Quiet EXCEPT !.usage = only(K)], [Quiet EXCEPT !.usage = only(DOMAIN whole \ K)], Done>> :
         K \in SUBSET DOMAIN whole \ {{}, DOMAIN whole}}

MCBills == {Bill(1, 1, 0, 0, 0), Bill(2, 3, 0, 0, 0), Bill(1, 2, 2, 0, 0), Bill(1, 2, 0, 3, 0), Bill(2, 1, 2, 1, 0)}
Hourly == {Bill(1, 2, 0, 3, 2), Bill(3, 1, 1, 1, 1)}

OneBody(e, doc, ok, b, split) == [events |-> e, document |-> doc, ok |-> ok, bill |-> b, split |-> split]
MCBodies ==
  {OneBody(AnthropicBody(b), FALSE, ok, b, FALSE) : b \in MCBills \cup Hourly, ok \in BOOLEAN}
  \cup UNION {{OneBody(e, FALSE, TRUE, b, FALSE) : e \in {OpenAiBody(b), RunningBody(b), VertexBody(b)}} : b \in MCBills}
  \cup UNION {{OneBody(e, FALSE, TRUE, b, TRUE) : e \in SplitBodies(b)} : b \in MCBills}
  \cup {OneBody(<<[Quiet EXCEPT !.usage = Spelt(b, b.output)]>>, TRUE, ok, b, FALSE) : b \in MCBills, ok \in BOOLEAN}
  \cup {OneBody(<<Quiet>> \o AnthropicBody(b), FALSE, TRUE, b, FALSE) : b \in MCBills}
MCRequests_ == {[body_len |-> 5, max_tokens |-> m, completions |-> n] : m \in {0, 3}, n \in {0, 2}}
MCPrice == [input |-> 2, output |-> 5, cache_read |-> 1, cache_write |-> 3, cache_write_1h |-> 4]
MCLongPrice == [input |-> 3, output |-> 7, cache_read |-> 2, cache_write |-> 4, cache_write_1h |-> 6]

(* Limits; detectors on one caller's conversation; growth of a run that    *)
(* two callers share; and a policy that only looks on.                     *)
MCPolicies ==
  LET off == [mode |-> "enforce", max_steps |-> None, per_step |-> None, identical |-> None, pingpong |-> None,
              growth |-> None, agents |-> Agents, tools |-> {None}, sizes |-> {1}]
  IN  {[off EXCEPT !.max_steps = 2, !.per_step = 2, !.sizes = {1, 2, 4}],
       [off EXCEPT !.identical = [window |-> 3, threshold |-> 3], !.pingpong = [window |-> 4, threshold |-> 1],
                   !.tools = {"x", "y"}, !.agents = {a1}],
       [off EXCEPT !.growth = [factor |-> 2, consecutive |-> 2], !.sizes = {1, 2, 4}],
       [off EXCEPT !.mode = "shadow", !.max_steps = 1]}

Parts == {"call", "unit", "gate", "meter", "watch"}

FirstBody == CHOOSE b \in MCBodies : TRUE
FirstRequest == CHOOSE r \in MCRequests_ : TRUE

CallsInit ==
  /\ part \in Parts
  /\ config \in {f \in Configs : part = "call" \/ f.mode = "shadow"}
  /\ policy \in {f \in Policies : part = "watch" \/ f.mode = "shadow"}
  /\ prompt \in {part # "unit", TRUE}
  /\ body \in IF part = "meter" THEN Bodies ELSE {FirstBody}
  /\ req \in IF part = "meter" THEN Requests_ ELSE {FirstRequest}
  /\ CallInit /\ UnitInit /\ GateInit /\ MeterInit /\ WatchInit

CallsNext ==
  \/ part = "call" /\ CallNext /\ UNCHANGED <<part, uvars, gatevars, metervars, watchvars>>
  \/ part = "unit" /\ UnitNext /\ UNCHANGED <<part, callvars, gatevars, metervars, watchvars>>
  \/ part = "gate" /\ GateNext /\ UNCHANGED <<part, callvars, uvars, metervars, watchvars>>
  \/ part = "meter" /\ MeterNext /\ UNCHANGED <<part, callvars, uvars, gatevars, watchvars>>
  \/ part = "watch" /\ WatchNext /\ UNCHANGED <<part, callvars, uvars, gatevars, metervars>>

CallsSpec == CallsInit /\ [][CallsNext]_<<part, callvars, uvars, gatevars, metervars, watchvars>>
=============================================================================
