------------------------------ MODULE Wardryx ------------------------------
(***************************************************************************)
(* The policy hook: a question is answered from a cache or asked over the  *)
(* wire, with a timeout, of a policy plane whose policy changes meanwhile. *)
(* Many questions are on the wire at once, and an answer is cached when it *)
(* arrives, not when it was given.                                         *)
(*                                                                         *)
(* A question is a record.  The plane answers from all of it; the cache    *)
(* knows the fields of `key` only, and relies on the plane to say when an  *)
(* answer holds for every question with that key.                          *)
(***************************************************************************)
EXTENDS Integers, Sequences, FiniteSets, SequencesExt, Functions

CONSTANTS
  Questions,      \* [agent, tools, attested, proven, steps]
  Filters,        \* [agent, tools] asked about for shadow pruning
  Policies,       \* the versions, in order: each a set of rules (external)
  Ttl, Timeout,
  FailMode,       \* "open" or "closed"
  NoAnswer,
  MaxAsks, MaxNow

ASSUME WardryxAssumption ==
  /\ {Ttl, Timeout, MaxAsks, MaxNow} \subseteq Nat
  /\ FailMode \in {"open", "closed"}
  /\ Len(Policies) > 0
  /\ NoAnswer \notin [decision : {"allow", "deny", "hold"}, approval : Nat, unreachable : BOOLEAN, at : Nat]

VARIABLES
  now,         \* the clock
  version,     \* which policy is in force (external)
  since,       \* history: when each version came into force
  cache,       \* Cache.entries: key -> [decision, at]
  pruned,      \* FilterCache.entries: key -> [denied, at]
  asks,        \* the questions so far, each with its stage and outcome
  filters,     \* the tool filters asked so far
  verdicts     \* Verdicts: what came back over the wire

wardryxvars == <<now, version, since, cache, pruned, asks, filters, verdicts>>

Decisions == {"allow", "deny", "hold"}

WardryxInit ==
  /\ now = 0 /\ version = 1 /\ since = <<0>>
  /\ cache = <<>> /\ pruned = <<>>
  /\ asks = <<>> /\ filters = <<>>
  /\ verdicts = [d \in Decisions \cup {"unreachable"} |-> 0]

-----------------------------------------------------------------------------
(* The policy plane (external).  A rule of a policy is [agent, tools,      *)
(* unless, decision]; unless names a field that must hold, or "steps".     *)
Matches(rule, q) ==
  /\ rule.tools \cap q.tools # {}
  /\ CASE rule.unless = "attested" -> ~q.attested
       [] rule.unless = "proven" -> ~q.proven
       [] rule.unless = "steps" -> q.steps > 0
       [] OTHER -> TRUE

Verdict(v, q) ==
  LET hit == {r \in Policies[v] : Matches(r, q)}
  IN  IF \E r \in hit : r.decision = "deny" THEN "deny"
      ELSE IF hit # {} THEN "hold" ELSE "allow"

(* Safe to reuse: no rule that reads this request's own state was asked.   *)
Cacheable(v, q) ==
  ~\E r \in Policies[v] : r.unless = "steps" /\ r.tools \cap q.tools # {}

DeniedTools(v, tools) ==
  {t \in tools : \E r \in Policies[v] : r.unless = "never" /\ r.decision = "deny" /\ t \in r.tools}

-----------------------------------------------------------------------------
(* Mutant: how the caller is attested is left out. *)
key_unattested(q) == <<q.agent, q.tools, q.proven>>

(* Cache::key *)
key(q) == <<q.agent, q.tools, q.attested, q.proven>>

Fresh(entries, k) == k \in DOMAIN entries /\ now - entries[k].at < Ttl

Insert(entries, k, e) == [x \in DOMAIN entries \cup {k} |-> IF x = k THEN e ELSE entries[x]]

Outcome(decision, approval, unreachable) ==
  [decision |-> decision, approval |-> approval, unreachable |-> unreachable, at |-> now]

(* Mutant: whatever came back is kept. *)
put_everything(q, a) == Insert(cache, key(q), [decision |-> a.decision, at |-> now])

(* Cache::put: not a hold, and only what the plane calls cacheable. *)
put(q, a) ==
  IF a.decision = "hold" \/ ~a.cacheable THEN cache
  ELSE Insert(cache, key(q), [decision |-> a.decision, at |-> now])

(* decide, up to the wire: a fresh entry answers. *)
Ask(q) ==
  LET hit == Fresh(cache, key(q))
  IN  /\ Len(asks) + Len(filters) < MaxAsks
      /\ asks' = Append(asks,
           [q |-> q, hit |-> hit, start |-> now, answer |-> NoAnswer,
            outcome |-> IF hit THEN Outcome(cache[key(q)].decision, 0, FALSE) ELSE NoAnswer])
      /\ UNCHANGED <<now, version, since, cache, pruned, filters, verdicts>>

OnWire(a) == a.outcome = NoAnswer

(* The plane gives its answer; a hold opens an approval of its own.        *)
Judge(n) ==
  LET q == asks[n].q
  IN  /\ OnWire(asks[n]) /\ asks[n].answer = NoAnswer
      /\ asks' = [asks EXCEPT ![n].answer =
                    [decision |-> Verdict(version, q), cacheable |-> Cacheable(version, q),
                     approval |-> n]]
      /\ UNCHANGED <<now, version, since, cache, pruned, filters, verdicts>>

(* decide, after the wire: the verdict is counted and offered to the cache.*)
decide(n) ==
  LET a == asks[n].answer
  IN  /\ OnWire(asks[n]) /\ a # NoAnswer
      /\ asks' = [asks EXCEPT ![n].outcome =
                    Outcome(a.decision, IF a.decision = "hold" THEN a.approval ELSE 0, FALSE)]
      /\ verdicts' = [verdicts EXCEPT ![a.decision] = @ + 1]
      /\ cache' = put(asks[n].q, a)
      /\ UNCHANGED <<now, version, since, pruned, filters>>

(* No verdict: a transport error, a status outside 2xx, a body or a word   *)
(* that cannot be read, the timeout.  The answer may have been given.      *)
fallback(n) ==
  LET d == IF FailMode = "open" THEN "allow" ELSE "deny"
  IN  /\ OnWire(asks[n])
      /\ asks' = [asks EXCEPT ![n].outcome = Outcome(d, 0, TRUE)]
      /\ verdicts' = [verdicts EXCEPT !["unreachable"] = @ + 1]
      /\ UNCHANGED <<now, version, since, cache, pruned, filters>>

-----------------------------------------------------------------------------
(* measure_shadow_prune, up to the wire. *)
AskFilter(agent, tools) ==
  LET k == <<agent, tools>>
      hit == Fresh(pruned, k)
  IN  /\ Len(asks) + Len(filters) < MaxAsks
      /\ filters' = Append(filters,
           [agent |-> agent, tools |-> tools, start |-> now, answer |-> NoAnswer,
            outcome |-> IF hit THEN [denied |-> pruned[k].denied, at |-> now] ELSE NoAnswer])
      /\ UNCHANGED <<now, version, since, cache, pruned, asks, verdicts>>

JudgeFilter(n) ==
  /\ OnWire(filters[n]) /\ filters[n].answer = NoAnswer
  /\ filters' = [filters EXCEPT ![n].answer = [denied |-> DeniedTools(version, filters[n].tools)]]
  /\ UNCHANGED <<now, version, since, cache, pruned, asks, verdicts>>

(* measure_shadow_prune, after it: an answer is kept and priced, an error  *)
(* of any kind measures nothing and keeps nothing.                         *)
measure_shadow_prune(n, ok) ==
  LET f == filters[n]
  IN  /\ OnWire(f) /\ (ok => f.answer # NoAnswer)
      /\ filters' = [filters EXCEPT ![n].outcome =
                       IF ok THEN [denied |-> f.answer.denied, at |-> now]
                       ELSE [denied |-> NoAnswer, at |-> now]]
      /\ pruned' = IF ok THEN Insert(pruned, <<f.agent, f.tools>>,
                                     [denied |-> f.answer.denied, at |-> now])
                   ELSE pruned
      /\ UNCHANGED <<now, version, since, cache, asks, verdicts>>

-----------------------------------------------------------------------------
(* Time passes, but no question stays on the wire past its timeout. *)
Tick ==
  /\ now < MaxNow
  /\ \A n \in DOMAIN asks : OnWire(asks[n]) => now - asks[n].start < Timeout
  /\ \A n \in DOMAIN filters : OnWire(filters[n]) => now - filters[n].start < Timeout
  /\ now' = now + 1
  /\ UNCHANGED <<version, since, cache, pruned, asks, filters, verdicts>>

PolicyChange ==
  /\ version < Len(Policies)
  /\ version' = version + 1
  /\ since' = Append(since, now)
  /\ UNCHANGED <<now, cache, pruned, asks, filters, verdicts>>

WardryxNext ==
  \/ \E q \in Questions : Ask(q)
  \/ \E f \in Filters : AskFilter(f.agent, f.tools)
  \/ \E n \in DOMAIN asks : Judge(n) \/ decide(n) \/ fallback(n)
  \/ \E n \in DOMAIN filters, ok \in BOOLEAN : JudgeFilter(n) \/ measure_shadow_prune(n, ok)
  \/ Tick
  \/ PolicyChange

WardryxSpec == WardryxInit /\ [][WardryxNext]_wardryxvars
-----------------------------------------------------------------------------
(* The versions in force no more than n ticks before t. *)
InForce(t, n) ==
  {v \in 1 .. version :
     since[v] <= t /\ (v = version \/ since[v + 1] >= t - n)}

(* Whatever raced on the wire, an outcome that is passed off as a verdict  *)
(* is what some policy in force within a timeout, and the cache's life for *)
(* a hit, says of this very question: of its attestation, its chain and    *)
(* its steps.                                                              *)
VerdictIsOurs ==
  \A n \in DOMAIN asks : ~OnWire(asks[n]) /\ ~asks[n].outcome.unreachable =>
    \E v \in InForce(asks[n].outcome.at, Timeout + IF asks[n].hit THEN Ttl ELSE 0) :
      asks[n].outcome.decision = Verdict(v, asks[n].q)

(* An approval belongs to one held call: no hold is handed out without one *)
(* and none is handed out twice.                                           *)
HoldsAreFresh ==
  \A m, n \in {k \in DOMAIN asks : ~OnWire(asks[k]) /\ asks[k].outcome.decision = "hold"} :
    /\ asks[n].outcome.approval # 0
    /\ asks[m].outcome.approval = asks[n].outcome.approval => m = n

(* The tally the doctor reads is of what the plane said itself: neither a  *)
(* hit nor a fallback is counted as its verdict.                           *)
TallyIsTheWire ==
  \A d \in Decisions :
    verdicts[d] = Cardinality({n \in DOMAIN asks :
      /\ ~OnWire(asks[n]) /\ ~asks[n].hit
      /\ ~asks[n].outcome.unreachable /\ asks[n].outcome.decision = d})

(* A measured pruning is one a policy in force recently would do; where    *)
(* the question failed nothing was measured, then or later from the cache. *)
MeasuredIsPolicy ==
  \A n \in DOMAIN filters : ~OnWire(filters[n]) /\ filters[n].outcome.denied # NoAnswer =>
    \E v \in InForce(filters[n].outcome.at, Ttl + Timeout) :
      filters[n].outcome.denied = DeniedTools(v, filters[n].tools)

(* What the policy plane is said to have said, whole: verdicts, approvals, *)
(* the tally and the measurements.                                         *)
PlaneIsQuoted == VerdictIsOurs /\ HoldsAreFresh /\ TallyIsTheWire /\ MeasuredIsPolicy
=============================================================================
