------------------------------ MODULE RunWatch ------------------------------
(***************************************************************************)
(* The checks on a run before its next call is forwarded: the step and     *)
(* per-step limits (crates/core/src/policy.rs), the loop detectors         *)
(* (crates/core/src/loops.rs) and the input sizes the gateway remembers    *)
(* (record_input, crates/gateway/src/state.rs).                            *)
(*                                                                         *)
(* Several callers share the run.  A caller sends its conversation, with   *)
(* the tool calls in it, and its size; a call that is let through is       *)
(* counted when it reserves, and its answer adds a tool call.  A caller    *)
(* may at some point keep to its last tool call and size, for good.        *)
(***************************************************************************)
EXTENDS Integers, Sequences, FiniteSets

CONSTANTS
  Agents,       \* the callers of one run
  Tools,        \* tool and arguments, as signature tells them apart
  Policies,     \* [mode, max_steps, per_step, identical, pingpong, growth],
                \* with the run it is put to: the callers, the tool calls of the
                \* answers (None in one without) and the sizes: [agents, tools, sizes]
  None,         \* a limit or detector that is not set
  HISTORY_MAX,  \* the MAX of record_input
  ConvoBound,   \* how much of a conversation is kept: no window is longer
  StepBound     \* calls are counted up to here

VARIABLES
  policy,
  convo,        \* agent -> its latest tool calls
  size,         \* agent -> the size of its next request
  repeats,      \* agents that keep to their last tool call and size for good
  stage,        \* agent -> "ready", or "passed" when it is let through
  history,      \* AppState.history of the run
  steps,        \* the ledger's count
  overlapped,   \* two calls were past the check at once
  passed,       \* agent -> its calls let through since it repeats itself
  turned_away       \* calls refused since every caller repeats itself

watchvars == <<policy, convo, size, repeats, stage, history, steps, overlapped, passed, turned_away>>

Recent(s, n) == SubSeq(s, IF Len(s) > n THEN Len(s) - n + 1 ELSE 1, Len(s))

detect_identical(sigs, cfg) ==
  cfg # None /\ LET w == Recent(sigs, cfg.window)
                IN  \E t \in Tools : Cardinality({i \in DOMAIN w : w[i] = t}) >= cfg.threshold

detect_pingpong(sigs, cfg) ==
  cfg # None /\ LET w == Recent(sigs, cfg.window)
                    cycles == {i \in 1 .. Len(w) - 3 :
                                 w[i] = w[i + 2] /\ w[i + 1] = w[i + 3] /\ w[i] # w[i + 1]}
                IN  Cardinality(cycles) >= cfg.threshold

(* cfg.consecutive growths in a row, anywhere in what is remembered. *)
detect_context_growth(sizes, cfg) ==
  cfg # None /\ \E i \in 1 .. Len(sizes) - cfg.consecutive :
                  \A j \in i .. i + cfg.consecutive - 1 : sizes[j + 1] >= sizes[j] * cfg.factor

detect(sigs, sizes) ==
  \/ detect_identical(sigs, policy.identical)
  \/ detect_pingpong(sigs, policy.pingpong)
  \/ detect_context_growth(sizes, policy.growth)

(* Mutant: the limit is one step late. *)
first_violation_late(estimate) ==
  \/ policy.max_steps # None /\ steps > policy.max_steps
  \/ policy.per_step # None /\ estimate > policy.per_step

first_violation(estimate) ==
  \/ policy.max_steps # None /\ steps >= policy.max_steps
  \/ policy.per_step # None /\ estimate > policy.per_step

Counted(n) == IF n < StepBound THEN n + 1 ELSE n

record_input(n) == Recent(Append(history, n), HISTORY_MAX)

-----------------------------------------------------------------------------
WatchInit ==
  /\ policy \in Policies
  /\ convo = [a \in Agents |-> <<>>]
  /\ size = [a \in Agents |-> 1]
  /\ repeats = {}
  /\ stage = [a \in Agents |-> "ready"]
  /\ history = <<>> /\ steps = 0 /\ overlapped = FALSE
  /\ passed = [a \in Agents |-> 0] /\ turned_away = 0

(* Mutant: only a request that is let through is remembered. *)
CheckCall_forgetting(a) ==
  /\ stage[a] = "ready"
  /\ LET inputs == record_input(size[a])
         blocked == policy.mode = "enforce" /\ (first_violation(size[a]) \/ detect(convo[a], inputs))
     IN  /\ history' = IF blocked THEN history ELSE inputs
         /\ stage' = [stage EXCEPT ![a] = IF blocked THEN "ready" ELSE "passed"]
         /\ overlapped' = (overlapped \/ (~blocked /\ \E b \in Agents \ {a} : stage[b] = "passed"))
         /\ passed' = IF blocked \/ a \notin repeats THEN passed ELSE [passed EXCEPT ![a] = Counted(@)]
         /\ turned_away' = IF blocked /\ repeats = policy.agents THEN Counted(turned_away) ELSE turned_away
  /\ UNCHANGED <<policy, convo, size, repeats, steps>>

(* handle_call from the snapshot to the refusals; a caller that is refused *)
(* tries again.  Shadow and warn only say what they saw.                   *)
CheckCall(a) ==
  /\ stage[a] = "ready"
  /\ LET inputs == record_input(size[a])
         blocked == policy.mode = "enforce" /\ (first_violation(size[a]) \/ detect(convo[a], inputs))
     IN  /\ history' = inputs
         /\ stage' = [stage EXCEPT ![a] = IF blocked THEN "ready" ELSE "passed"]
         /\ overlapped' = (overlapped \/ (~blocked /\ \E b \in Agents \ {a} : stage[b] = "passed"))
         /\ passed' = IF blocked \/ a \notin repeats THEN passed ELSE [passed EXCEPT ![a] = Counted(@)]
         /\ turned_away' = IF blocked /\ repeats = policy.agents THEN Counted(turned_away) ELSE turned_away
  /\ UNCHANGED <<policy, convo, size, repeats, steps>>

(* The call reserves, is answered, and the answer's tool call joins the    *)
(* conversation.                                                           *)
StepTaken(a) ==
  /\ stage[a] = "passed"
  /\ stage' = [stage EXCEPT ![a] = "ready"]
  /\ steps' = Counted(steps)
  /\ \E t \in policy.tools :
       /\ a \in repeats /\ convo[a] # <<>> => t = convo[a][Len(convo[a])]
       /\ convo' = [convo EXCEPT ![a] = IF t = None THEN @ ELSE Recent(Append(@, t), ConvoBound)]
  /\ UNCHANGED <<policy, size, repeats, history, overlapped, passed, turned_away>>

Resize(a) ==
  /\ a \notin repeats
  /\ \E n \in policy.sizes \ {size[a]} : size' = [size EXCEPT ![a] = n]
  /\ UNCHANGED <<policy, convo, repeats, stage, history, steps, overlapped, passed, turned_away>>

Stays(a) ==
  /\ a \notin repeats
  /\ repeats' = repeats \cup {a}
  /\ UNCHANGED <<policy, convo, size, stage, history, steps, overlapped, passed, turned_away>>

WatchNext == \E a \in policy.agents : CheckCall(a) \/ StepTaken(a) \/ Resize(a) \/ Stays(a)

WatchSpec == WatchInit /\ [][WatchNext]_watchvars
-----------------------------------------------------------------------------
(* The step count is read before the reservation that raises it, so calls  *)
(* under way together can pass the limit together: by one less than there  *)
(* are callers, and not at all when they come one at a time.               *)
StepsBounded ==
  (policy.mode = "enforce" /\ policy.max_steps # None) =>
    /\ steps =< policy.max_steps - 1 + Cardinality(policy.agents)
    /\ ~overlapped => steps =< policy.max_steps

(* A caller that keeps repeating its last tool call has no more calls let  *)
(* through than the threshold, however often it tries and whatever it did  *)
(* before: its conversation is what convicts it.                           *)
StuckIsStopped ==
  (policy.mode = "enforce" /\ policy.identical # None) =>
    \A a \in policy.agents : passed[a] =< policy.identical.threshold

(* A run refused for its growth is not refused for good: the sizes of the  *)
(* refused requests count too, and push the growth out of the history.     *)
(* (With no more callers than growths in a row: the sizes of more of them, *)
(* interleaved, can look like growth for ever.)                            *)
SteadyIsReadmitted ==
  (policy.growth # None /\ policy.identical = None /\ policy.pingpong = None
     /\ policy.max_steps = None /\ policy.per_step = None) => turned_away =< HISTORY_MAX

(* The watch on a run, whole: limits hold up to the calls under way, who   *)
(* is stuck is stopped, and who is steady again is let in again.           *)
WatchIsFair == StepsBounded /\ StuckIsStopped /\ SteadyIsReadmitted
=============================================================================
