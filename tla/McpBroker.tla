----------------------------- MODULE McpBroker -----------------------------
(***************************************************************************)
(* The MCP broker over HTTP: what one message goes through between its     *)
(* caller and the upstream server it names (process_into), with an await   *)
(* at every question it asks: the gateway's taint gate, the policy plane,  *)
(* the upstream, and the gateway again for the label of what came back.    *)
(*                                                                         *)
(* Session ids are bound to an upstream and a credential by a keyed tag,   *)
(* here the tuple it is computed over; the key dies with the process.      *)
(***************************************************************************)
EXTENDS Integers, Sequences, FiniteSets, SequencesExt, Functions

CONSTANTS
  Setups,          \* how a broker and its gateway may be configured, and who calls it:
                   \*   policy, the policy plane's mode: "Enforce", "Shadow" or "Off"
                   \*   closed, whether the taint gate refuses what it cannot ask about
                   \*   scan, the listings': "Block" or "Warn"
                   \*   governed, whether the gateway's firewall is on
                   \*   messages: [method, tool, upstream, run, agent, principal, secret, notification]
                   \*   most, how many of them arrive
  Upstreams,       \* the upstreams the broker knows by name
  Classified,      \* the ones whose output carries a label
  Listings,        \* upstream -> the pages its tools/list may answer: sets of tools
  Scoped,          \* [secret, agent, tool] a scope rule admits
  None,
  MaxRugPulls, MaxBrokerStarts

ASSUME BrokerAssumption ==
  /\ Classified \subseteq Upstreams
  /\ \A c \in Setups : c.closed \in BOOLEAN /\ c.governed \in BOOLEAN /\ c.most \in Nat
  /\ {MaxRugPulls, MaxBrokerStarts} \subseteq Nat

VARIABLES
  setup,      \* the configuration, fixed for the run
  msgs,       \* the messages so far, each with its stage
  drifted,    \* DriftedTools: <<upstream, tool>> marked
  epoch,      \* which process, and so which key, is running
  issued,     \* session ids handed out: [epoch, upstream, principal, sid]
  opened,     \* upstream sessions: sid -> [upstream, principal] (external)
  defs,       \* <<upstream, tool>> changed since it was pinned (external)
  pulls,      \* how often definitions were changed or put back
  runlabel,   \* runs the gateway labelled (external)
  seen        \* history: <<upstream, tool>> whose last listed definition differed

brokervars == <<setup, msgs, drifted, epoch, issued, opened, defs, pulls, runlabel, seen>>

BrokerInit ==
  /\ setup \in Setups
  /\ msgs = <<>> /\ drifted = {} /\ epoch = 1
  /\ issued = {} /\ opened = <<>>
  /\ defs = {} /\ pulls = 0 /\ runlabel = {} /\ seen = {}

IsCall(m) == m.q.method = "tools/call"
Observed(m) == IsCall(m) /\ m.q.upstream \in Classified
Step(n, stage) == msgs' = [msgs EXCEPT ![n].stage = stage]

-----------------------------------------------------------------------------
(* mcpsession::unwrap: issued by this process for this upstream and caller. *)
unwrap(q, s) == s.epoch = epoch /\ s.upstream = q.upstream /\ s.principal = q.principal

(* A tool call nobody can be named for, under an enforcing policy.         *)
needs_identity(q) == setup.policy = "Enforce" /\ q.method = "tools/call" /\ q.agent = None

(* The HTTP transport's refusals, and process_into's before its first      *)
(* await: they ask nobody.                                                 *)
Refuses(q, s) ==
  \/ needs_identity(q)
  \/ q.upstream \notin Upstreams
  \/ (s # None /\ ~unwrap(q, s))
  \/ (q.method = "tools/call" /\ q.upstream \in Classified /\ q.run = None)

(* A refused drifted call is recorded with the broker's own word. *)
RecordsDrift == 1

process_into(q, s) ==
  LET drift == /\ q.method = "tools/call" /\ setup.scan = "Block"
               /\ <<q.upstream, q.tool>> \in drifted
      stage == IF Refuses(q, s) \/ drift THEN "refused"
               ELSE IF q.method = "tools/call" THEN "gate" ELSE "forward"
  IN  /\ Len(msgs) < setup.most
      /\ msgs' = Append(msgs,
           [q |-> q, sid |-> IF s = None THEN None ELSE s.sid, stage |-> stage,
            epoch |-> epoch, records |-> IF drift /\ ~Refuses(q, s) THEN RecordsDrift ELSE 0,
            drift |-> drift /\ ~Refuses(q, s), judged |-> FALSE, reached |-> FALSE,
            clean |-> <<q.upstream, q.tool>> \notin seen, page |-> {}, changed |-> {}])
      /\ UNCHANGED <<setup, drifted, epoch, issued, opened, defs, pulls, runlabel, seen>>

(* taint_gate: what the gateway says, or that it says nothing. A call that *)
(* names no run is not asked about, and a firewall that is off denies none. *)
taint_gate(n, answer) ==
  LET m == msgs[n]
      unanswered == answer = "unanswered" \/ m.q.run = None
  IN  /\ m.stage = "gate"
      /\ answer = "deny" => setup.governed
      /\ Step(n, IF (IF unanswered THEN setup.closed ELSE answer = "deny")
                 THEN "refused" ELSE "policy")
      /\ UNCHANGED <<setup, drifted, epoch, issued, opened, defs, pulls, runlabel, seen>>

(* The policy plane's verdict, its failmode's included.  It is recorded    *)
(* whatever it is; a call nobody can attribute is refused when enforcing   *)
(* and passed on unjudged otherwise.                                       *)
wardryx_decide(n, verdict) ==
  LET m == msgs[n]
      asked == setup.policy # "Off" /\ m.q.agent # None
      refuses == setup.policy = "Enforce" /\ (verdict # "allow" \/ m.q.agent = None)
  IN  /\ m.stage = "policy"
      /\ msgs' = [msgs EXCEPT ![n] = [m EXCEPT
                    !.stage = IF refuses THEN "refused" ELSE "inject",
                    !.records = IF asked THEN @ + 1 ELSE @, !.judged = asked]]
      /\ UNCHANGED <<setup, drifted, epoch, issued, opened, defs, pulls, runlabel, seen>>

(* The secrets are put in, and a call nobody judged is recorded, unless a  *)
(* scope refuses it.  No await.                                            *)
inject_secrets(n) ==
  LET m == msgs[n]
      admitted == m.q.secret = None
                  \/ [secret |-> m.q.secret, agent |-> m.q.agent, tool |-> m.q.tool] \in Scoped
  IN  /\ m.stage = "inject"
      /\ msgs' = [msgs EXCEPT ![n] = [m EXCEPT
                    !.stage = IF admitted THEN "forward" ELSE "refused",
                    !.records = IF admitted /\ ~m.judged THEN @ + 1 ELSE @]]
      /\ UNCHANGED <<setup, drifted, epoch, issued, opened, defs, pulls, runlabel, seen>>

(* The upstream (external) takes the message and answers with what it has  *)
(* at that moment; an answer may be lost, an error or a redirect.          *)
Serve(n, page, outcome) ==
  LET m == msgs[n]
      opens == m.q.method = "initialize" /\ outcome = "ok"
      sid == Len(opened) + 1
  IN  /\ m.stage = "forward"
      /\ m.sid \in DOMAIN opened \/ m.sid = None
      /\ m.q.method = "tools/list" \/ page = {}
      /\ msgs' = [msgs EXCEPT ![n] = [m EXCEPT
                    !.stage = IF outcome # "ok" THEN "failed" ELSE "answered",
                    !.reached = TRUE, !.sid = IF opens THEN sid ELSE m.sid, !.page = page,
                    !.changed = {t \in page : <<m.q.upstream, t>> \in defs}]]
      /\ opened' = IF opens THEN Append(opened, [upstream |-> m.q.upstream, principal |-> m.q.principal])
                   ELSE opened
      /\ UNCHANGED <<setup, drifted, epoch, issued, defs, pulls, runlabel, seen>>

(* DriftedTools::observe: listed and changed is marked, listed and equal   *)
(* is cleared, not listed is kept.                                         *)
observe(u, page, changed) ==
  {d \in drifted : ~(d[1] = u /\ d[2] \in page \ changed)} \cup {<<u, t>> : t \in changed}

(* The answer arrives.  A notification ends here; the answer of a          *)
(* classified upstream waits for its label; a listing is compared.         *)
Receive(n) ==
  LET m == msgs[n]
      lists == m.q.method = "tools/list" /\ ~m.q.notification
      u == m.q.upstream
  IN  /\ m.stage = "answered"
      /\ Step(n, IF m.q.notification THEN "accepted"
                 ELSE IF Observed(m) THEN "label"
                 ELSE IF lists /\ setup.scan = "Block" /\ m.changed # {} THEN "withheld"
                 ELSE "delivered")
      /\ drifted' = IF lists THEN observe(u, m.page, m.changed) ELSE drifted
      /\ seen' = IF lists THEN {d \in seen : ~(d[1] = u /\ d[2] \in m.page)}
                               \cup {<<u, t>> : t \in m.changed}
                 ELSE seen
      /\ issued' = IF m.q.method = "initialize"
                   THEN issued \cup {[epoch |-> epoch, upstream |-> u,
                                      principal |-> m.q.principal, sid |-> m.sid]}
                   ELSE issued
      /\ UNCHANGED <<setup, epoch, opened, defs, pulls, runlabel>>

(* What the gateway makes of the label: it took it, its answer lost or     *)
(* not; or it refuses it, or with its firewall off records none and says   *)
(* so; or it is not reached at all.                                        *)
Takes(outcome) == outcome \in {"recorded", "lost"}

Outcomes ==
  {"unreachable"} \cup (IF setup.governed THEN {"recorded", "refused", "lost"} ELSE {"ungoverned"})

(* Mutant: an unanswered gateway lets the answer through. *)
report_observed_act_open(n, outcome) ==
  LET m == msgs[n]
  IN  /\ m.stage = "label" /\ outcome \in Outcomes
      /\ runlabel' = IF Takes(outcome) THEN runlabel \cup {m.q.run} ELSE runlabel
      /\ Step(n, IF outcome = "refused" THEN "withheld" ELSE "delivered")
      /\ UNCHANGED <<setup, drifted, epoch, issued, opened, defs, pulls, seen>>

(* report_observed_act: the answer goes if the gateway said it has the     *)
(* label, or that it governs nothing; its answer may be lost after it took *)
(* the label.                                                              *)
report_observed_act(n, outcome) ==
  LET m == msgs[n]
  IN  /\ m.stage = "label" /\ outcome \in Outcomes
      /\ runlabel' = IF Takes(outcome) THEN runlabel \cup {m.q.run} ELSE runlabel
      /\ Step(n, IF outcome \in {"recorded", "ungoverned"} THEN "delivered" ELSE "withheld")
      /\ UNCHANGED <<setup, drifted, epoch, issued, opened, defs, pulls, seen>>

-----------------------------------------------------------------------------
(* An upstream changes a tool's definition, or puts the pinned one back. *)
RugPull(u, t) ==
  /\ pulls < MaxRugPulls
  /\ pulls' = pulls + 1
  /\ defs' = IF <<u, t>> \in defs THEN defs \ {<<u, t>>} ELSE defs \cup {<<u, t>>}
  /\ UNCHANGED <<setup, msgs, drifted, epoch, issued, opened, runlabel, seen>>

(* A new process: a new key, no marks, and nothing under way. *)
BrokerRestart ==
  /\ epoch < MaxBrokerStarts
  /\ epoch' = epoch + 1
  /\ drifted' = {} /\ seen' = {}
  /\ msgs' = [n \in DOMAIN msgs |->
                IF msgs[n].stage \in {"gate", "policy", "inject", "forward", "answered", "label"}
                THEN [msgs[n] EXCEPT !.stage = "dropped"] ELSE msgs[n]]
  /\ UNCHANGED <<setup, issued, opened, defs, pulls, runlabel>>

Tools == UNION {page : page \in UNION Range(Listings)}

BrokerNext ==
  \/ \E q \in setup.messages, s \in issued \cup {None} : process_into(q, s)
  \/ \E n \in DOMAIN msgs, a \in {"allow", "deny", "unanswered"} : taint_gate(n, a)
  \/ \E n \in DOMAIN msgs, v \in {"allow", "deny", "hold"} : wardryx_decide(n, v)
  \/ \E n \in DOMAIN msgs : inject_secrets(n)
  \/ \E n \in DOMAIN msgs, o \in {"ok", "error"} :
       \E page \in {{}} \cup Listings[msgs[n].q.upstream] : Serve(n, page, o)
  \/ \E n \in DOMAIN msgs : Receive(n)
  \/ \E n \in DOMAIN msgs, o \in {"recorded", "ungoverned", "refused", "lost", "unreachable"} :
       report_observed_act(n, o)
  \/ \E u \in Upstreams, t \in Tools : RugPull(u, t)
  \/ BrokerRestart

BrokerSpec == BrokerInit /\ [][BrokerNext]_brokervars
-----------------------------------------------------------------------------
(* Every tool call that reached an upstream, and every call refused by a   *)
(* verdict or for a changed tool, is on the audit trail once; no other.    *)
RecordedOnce ==
  \A n \in DOMAIN msgs :
    LET m == msgs[n]
    IN  m.records = IF IsCall(m) /\ (m.reached \/ m.judged \/ m.drift
                                     \/ (m.stage \in {"forward", "dropped"} /\ m.records > 0)) THEN 1 ELSE 0

(* What a classified upstream answered never reaches a caller whose run    *)
(* does not carry its label, whichever answer was lost on the way, unless  *)
(* the gateway's firewall is off: then nothing carries a label and the     *)
(* answer is handed back (observedact.rs:28-33).                           *)
LabelledBeforeDelivered ==
  \A n \in DOMAIN msgs :
    Observed(msgs[n]) /\ msgs[n].stage = "delivered" =>
      msgs[n].q.run \in runlabel \/ ~setup.governed

(* A session is used on the upstream that opened it and by the caller that *)
(* opened it, also by way of an id an earlier process issued.              *)
SessionsBound ==
  \A n \in DOMAIN msgs : msgs[n].reached /\ msgs[n].sid # None =>
    /\ opened[msgs[n].sid].upstream = msgs[n].q.upstream
    /\ opened[msgs[n].sid].principal = msgs[n].q.principal

(* A tool whose definition was last seen to differ from the pinned one is  *)
(* not called, whatever other pages were listed since.                     *)
ChangedNotCalled ==
  \A n \in DOMAIN msgs : IsCall(msgs[n]) /\ msgs[n].reached /\ setup.scan = "Block" => msgs[n].clean

(* The broker, whole: one record per call, a label before what it is for,  *)
(* sessions bound to upstream and caller, and no call of a changed tool.   *)
BrokerHolds == RecordedOnce /\ LabelledBeforeDelivered /\ SessionsBound /\ ChangedNotCalled
=============================================================================
