------------------------------- MODULE Taint -------------------------------
(***************************************************************************)
(* The agent firewall: the labels a run carries (TaintStore), the calls    *)
(* that add to them and are judged against them, the executor's check and  *)
(* the broker's observed act, and a person's clearance of what they read.  *)
(*                                                                         *)
(* Each method of TaintStore takes its locks and returns.  A call uses     *)
(* several of them with awaits between, so its stages are steps of their   *)
(* own; so are the two halves of a clearance.                              *)
(***************************************************************************)
EXTENDS Integers, Sequences, FiniteSets, SequencesExt, Functions

CONSTANTS
  TaintRuns, NoRun,
  Blocks,               \* ids of tool blocks, and NoId for a block without
  NoId,
  BlockTool,            \* block -> the tool whose result it carries
  Sources,              \* tool -> the labels its output carries
  Capabilities,         \* tool -> the capability it exercises
  OperatorRules,        \* the rules of the policy file
  FirewallMode,         \* "Enforce" or "Shadow"; Off judges nothing
  Answers,              \* what a model may answer: [provider, tools, loaded]
  Requests,             \* calls made: [run, parent, blocks]
  Acts,                 \* what the broker may observe: [run, labels]
  Clearances,           \* what a person may clear: [run, ids, labels]
  MAX_TRACKED_BLOCKS, MAX_DEPTH,
  MaxCalls, MaxClears   \* bounds

ASSUME TaintAssumption ==
  /\ NoRun \notin TaintRuns /\ NoId \in Blocks
  /\ MAX_TRACKED_BLOCKS \in Nat \ {0} /\ MAX_DEPTH \in Nat
  /\ {MaxCalls, MaxClears} \subseteq Nat
  /\ \A q \in Requests : q.run \in TaintRuns /\ q.blocks \subseteq Blocks
  /\ \A c \in Clearances : c.run \in TaintRuns

VARIABLES
  labels,     \* TaintStore.labels
  parents,    \* TaintStore.parents, NoRun where none was declared
  order,      \* BlockLedger.order, oldest first
  reviewed,   \* BlockLedger.reviewed
  calls,      \* the calls so far, each with its stage
  review,     \* a clearance between its two halves
  clears,     \* how many were made
  signed      \* history: what somebody signed for once it had arrived

taintvars == <<labels, parents, order, reviewed, calls, review, clears, signed>>

NoReview == [run |-> NoRun, labels |-> {}]

TaintInit ==
  /\ labels = [r \in TaintRuns |-> {}]
  /\ parents = [r \in TaintRuns |-> NoRun]
  /\ order = [r \in TaintRuns |-> <<>>]
  /\ reviewed = [r \in TaintRuns |-> {}]
  /\ calls = <<>>
  /\ review = NoReview /\ clears = 0
  /\ signed = [r \in TaintRuns |-> {}]

-----------------------------------------------------------------------------
(* The policy. *)
UNCLEARABLE == "secrets"
READ_TOOL_RULE == "read-tool-carries-data"

is_unclassified(t) == t \notin DOMAIN Sources \/ Sources[t] = {}

labels_for_tools(tools) ==
  UNION {IF is_unclassified(t) THEN {"unclassified"} ELSE Sources[t] : t \in tools}

capabilities_for_tools(tools) ==
  {IF t \in DOMAIN Capabilities THEN Capabilities[t] ELSE "unclassified" :
     t \in {u \in tools : u \in DOMAIN Capabilities \/ is_unclassified(u)}}

untrusted_labels ==
  {"web", "email", "file", "unclassified", "suspected_injection", "memory"}

anti_exfiltration_rule ==
  [name |-> "anti-exfiltration", when_any |-> {"secrets"},
   deny |-> {"network_egress", "network_read"}]

ActionFloor(name, label) ==
  [name |-> name, when_any |-> {label}, deny |-> {"exec", "write", "network_egress"}]

unmapped_rule ==
  [name |-> "no-unmapped-action-after-untrusted", when_any |-> untrusted_labels,
   deny |-> {"unclassified"}]

(* Every floor is decided from the operator's rules before any is added.   *)
ensure_floors(rules) ==
  LET reads(label) == \E r \in rules : label \in r.when_any
      floors ==
        (IF \E r \in rules : r.name = "anti-exfiltration" THEN {} ELSE {anti_exfiltration_rule})
        \cup (IF reads("memory") THEN {} ELSE {ActionFloor("no-action-after-memory", "memory")})
        \cup (IF reads("suspected_injection") THEN {}
              ELSE {ActionFloor("no-action-after-an-injection-signal", "suspected_injection")})
        \cup (IF \E r \in rules : "unclassified" \in r.deny THEN {} ELSE {unmapped_rule})
  IN  IF FirewallMode = "Enforce" THEN rules \cup floors ELSE rules

Rules == ensure_floors(OperatorRules)

(* evaluate: some rule whose labels the run carries denies a capability.   *)
(* The read rule is judged by read_argument_verdict alone.                 *)
evaluate(ls, requested) ==
  \E r \in Rules :
    /\ r.when_any \cap ls # {}
    /\ \E c \in r.deny \cap requested : ~(r.name = READ_TOOL_RULE /\ c = "network_read")

read_argument_verdict(ls, requested, loaded) ==
  /\ "network_read" \in requested /\ loaded
  /\ \E r \in Rules : /\ r.name = READ_TOOL_RULE /\ r.when_any \cap ls # {}
                      /\ "network_read" \in r.deny

Denied(ls, tools, loaded) ==
  \/ evaluate(ls, capabilities_for_tools(tools))
  \/ read_argument_verdict(ls, capabilities_for_tools(tools), loaded)

-----------------------------------------------------------------------------
(* The store. *)
(* Mutant: one level only. *)
inherited_parent_only(ps, r) == IF ps[r] = NoRun THEN {} ELSE labels[ps[r]]

(* The labels of a run's ancestors: a walk up the declared parents that    *)
(* ends at a root, at a run already visited or at the depth cap.           *)
inherited(ps, r) ==
  LET up[k \in 0 .. MAX_DEPTH] ==
        IF k = 0 THEN r ELSE IF up[k - 1] = NoRun THEN NoRun ELSE ps[up[k - 1]]
  IN  UNION {labels[a] : a \in {up[k] : k \in 1 .. MAX_DEPTH} \ {NoRun, r}}

(* Reference for the properties: everything reachable through parents.     *)
Ancestors(ps, r) ==
  {a \in TaintRuns \ {r} : \A up \in SUBSET TaintRuns :
     (\A x \in up \cup {r} : ps[x] = NoRun \/ ps[x] \in up) => a \in up}

note_parent(r, p) == IF p \in {NoRun, r} THEN parents ELSE [parents EXCEPT ![r] = p]

(* note_blocks: ids not tracked yet are appended; past the cap the oldest  *)
(* go, and their review with them.                                         *)
Tracked(r, blocks) ==
  LET grown == order[r] \o SetToSeq((blocks \ {NoId}) \ Range(order[r]))
      over == Len(grown) - MAX_TRACKED_BLOCKS
  IN  IF over > 0 THEN SubSeq(grown, over + 1, Len(grown)) ELSE grown

note_blocks(r, blocks) ==
  /\ order' = [order EXCEPT ![r] = Tracked(r, blocks)]
  /\ reviewed' = [reviewed EXCEPT ![r] = @ \cap Range(Tracked(r, blocks))]

(* split_history: the blocks nobody signed for. *)
Unreviewed(r, blocks) == blocks \ reviewed[r]

-----------------------------------------------------------------------------
(* A call through the proxy. *)
Clean(run) == [run |-> run, parent |-> NoRun, blocks |-> {}, stage |-> "answered",
               found |-> {}, carrying |-> {}, owed |-> {}, secrets |-> FALSE,
               tools |-> {}, loaded |-> FALSE, forwarded |-> FALSE]

(* handle, up to its first await: the blocks are noted.  History: owed is  *)
(* what the run and its ancestors carry now and nobody has cleared since.  *)
handle(run, parent, blocks) ==
  LET ps == IF parent \in {NoRun, run} THEN parents ELSE [parents EXCEPT ![run] = parent]
  IN  /\ Len(calls) < MaxCalls
      /\ note_blocks(run, blocks)
      /\ calls' = Append(calls, [Clean(run) EXCEPT !.parent = parent, !.blocks = blocks,
                    !.stage = "noted", !.owed = labels[run] \cup UNION {labels[a] : a \in Ancestors(ps, run)},
                    !.secrets = UNCLEARABLE \in labels[run]])
      /\ UNCHANGED <<labels, parents, review, clears, signed>>

(* The history is split, the parent noted and its labels walked. *)
split_history(n) ==
  LET c == calls[n]
  IN  /\ c.stage = "noted"
      /\ parents' = note_parent(c.run, c.parent)
      /\ calls' = [calls EXCEPT ![n].stage = "split",
                     ![n].found = labels_for_tools({BlockTool[b] : b \in Unreviewed(c.run, c.blocks)})
                                  \cup inherited(parents', c.run)]
      /\ UNCHANGED <<labels, order, reviewed, review, clears, signed>>

accumulate(n) ==
  LET c == calls[n]
  IN  /\ c.stage = "split"
      /\ labels' = [labels EXCEPT ![c.run] = @ \cup c.found]
      /\ calls' = [calls EXCEPT ![n].stage = "sent", ![n].carrying = labels'[c.run]]
      /\ UNCHANGED <<parents, order, reviewed, review, clears, signed>>

(* What the provider ran labels the run first; then the answer's calls are *)
(* judged against the labels the call was sent with.  Only an answer that  *)
(* goes out labels the run with what its tools will bring.                 *)
judge_model_tool_calls(n, a) ==
  LET c == calls[n]
      ran == labels_for_tools(a.provider)
      ls == c.carrying \cup IF a.provider = {} THEN {} ELSE labels[c.run] \cup ran
      withheld == FirewallMode = "Enforce" /\ Denied(ls, a.tools, a.loaded)
  IN  /\ c.stage = "sent"
      /\ labels' = [labels EXCEPT ![c.run] =
                      @ \cup ran \cup IF withheld THEN {} ELSE labels_for_tools(a.tools)]
      /\ calls' = [calls EXCEPT ![n] = [@ EXCEPT !.stage = "answered", !.tools = a.tools,
                     !.loaded = a.loaded, !.forwarded = ~withheld]]
      /\ UNCHANGED <<parents, order, reviewed, review, clears, signed>>

(* The executor's door: the labels the run carries and its ancestors'.     *)
check_tool_call(run, a) ==
  LET ls == labels[run] \cup inherited(parents, run)
      withheld == FirewallMode = "Enforce" /\ evaluate(ls, capabilities_for_tools(a.tools))
  IN  /\ Len(calls) < MaxCalls
      /\ calls' = Append(calls, [Clean(run) EXCEPT !.tools = a.tools,
                    !.owed = labels[run] \cup UNION {labels[x] : x \in Ancestors(parents, run)},
                    !.secrets = UNCLEARABLE \in labels[run], !.forwarded = ~withheld])
      /\ UNCHANGED <<labels, parents, order, reviewed, review, clears, signed>>

(* The broker's door: the labels of an upstream tool it called. *)
observed_act(run, ls) ==
  /\ labels' = [labels EXCEPT ![run] = @ \cup ls]
  /\ labels' # labels
  /\ UNCHANGED <<parents, order, reviewed, calls, review, clears, signed>>

-----------------------------------------------------------------------------
(* Mutant: an id the run never carried is signed for with the rest. *)
mark_reviewed_ahead(run, ids) == IF ids = {} THEN Range(order[run]) ELSE reviewed[run] \cup ids

(* What a clearance signs for: every block seen on the run if it names no  *)
(* ids; naming one the run never carried refuses it, here as no change.    *)
mark_reviewed(run, ids) ==
  IF ids = {} THEN Range(order[run])
  ELSE IF ids \subseteq Range(order[run]) THEN reviewed[run] \cup ids ELSE reviewed[run]

(* declassify, first half.  History: what is signed for and has arrived.   *)
declassify(run, ids, ls) ==
  /\ review = NoReview /\ clears < MaxClears
  /\ reviewed' = [reviewed EXCEPT ![run] = mark_reviewed(run, ids)]
  /\ signed' = [signed EXCEPT ![run] = @ \cup (reviewed'[run] \cap Range(order[run]))]
  /\ review' = IF ids \subseteq reviewed'[run] THEN [run |-> run, labels |-> ls] ELSE NoReview
  /\ clears' = clears + 1
  /\ UNCHANGED <<labels, parents, order, calls>>

(* declassify, second half.  The record of what was cleared is read by     *)
(* nothing but TaintStore::effective, which only tests call.               *)
clear ==
  LET gone == review.labels \ {UNCLEARABLE}
  IN  /\ review # NoReview
      /\ labels' = [labels EXCEPT ![review.run] = @ \ gone]
      /\ calls' = [n \in DOMAIN calls |-> [calls[n] EXCEPT !.owed = @ \ gone]]
      /\ review' = NoReview
      /\ UNCHANGED <<parents, order, reviewed, clears, signed>>

-----------------------------------------------------------------------------
TaintNext ==
  \/ \E q \in Requests : handle(q.run, q.parent, q.blocks)
  \/ \E n \in DOMAIN calls : split_history(n) \/ accumulate(n)
  \/ \E n \in DOMAIN calls, a \in Answers : judge_model_tool_calls(n, a)
  \/ \E r \in TaintRuns, a \in Answers : check_tool_call(r, a)
  \/ \E act \in Acts : observed_act(act.run, act.labels)
  \/ \E c \in Clearances : declassify(c.run, c.ids, c.labels)
  \/ clear

TaintSpec == TaintInit /\ [][TaintNext]_taintvars
-----------------------------------------------------------------------------
LetOut(c) == c.stage = "answered" /\ c.forwarded

(* An action let out was not asked for by a conversation that forbids it   *)
(* through a block nobody signed for: not one without an id, not one that  *)
(* was signed for before it arrived, whatever was cleared meanwhile.       *)
UnsignedNeverActs ==
  \A n \in DOMAIN calls : LetOut(calls[n]) =>
    LET c == calls[n]
        unsigned == c.blocks \ signed[c.run]
    IN  ~Denied(labels_for_tools({BlockTool[b] : b \in unsigned}), c.tools, c.loaded)

(* What the run and its ancestors carried when a call began, and nobody    *)
(* cleared since, counts when its answer is judged: a parent tainted after *)
(* its child was spawned counts, and so does a grandparent.                *)
AncestryCounts ==
  \A n \in DOMAIN calls : LetOut(calls[n]) =>
    ~evaluate(calls[n].owed, capabilities_for_tools(calls[n].tools))

(* A run that has read secrets never sends anything out again, whatever    *)
(* the policy file says and whoever cleared what.                          *)
SecretsNeverLeave ==
  \A n \in DOMAIN calls : LetOut(calls[n]) /\ calls[n].secrets =>
    capabilities_for_tools(calls[n].tools) \cap {"network_egress", "network_read"} = {}

(* A review lives as long as its block is tracked: one that fell out of    *)
(* the window and comes back is unreviewed.                                *)
ReviewIsTracked == \A r \in TaintRuns : reviewed[r] \subseteq Range(order[r])

(* The taint of a run, whole: no unsigned block asks for an action, what   *)
(* the ancestry carried counts, secrets stay in, and a review goes with    *)
(* its block.                                                              *)
TaintHolds == UnsignedNeverActs /\ AncestryCounts /\ SecretsNeverLeave /\ ReviewIsTracked
=============================================================================
