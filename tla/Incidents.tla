----------------------------- MODULE Incidents -----------------------------
(***************************************************************************)
(* The control plane's incidents of one organisation: what the detectors   *)
(* remember of a run's calls and a provider's failures, the incidents they *)
(* open under two caps, acknowledgements, and the sweep for runs that went *)
(* quiet.  The memory is lost in a restart, the incidents are not.         *)
(***************************************************************************)
EXTENDS Integers, Sequences, FiniteSets, SequencesExt, FiniteSetsExt, Functions

CONSTANTS
  RunNames, Providers, SiteNames,
  MAX_INCIDENTS_PER_ORG, MAX_PROVIDERS_PER_ORG, MAX_PROVIDER_INCIDENTS_PER_ORG,
  MAX_TRACKER_KEYS, INCIDENT_TRACKER_CAP, SEVERITY_ESCALATE_AT,
  BudgetBlocks, LoopRepeats, LoopWindow, StallAfter, ProviderFailures, ProviderWindow,
  MaxTime,
  Workloads       \* bounds: how many [calls, reports, restarts, controls] a behaviour has

VARIABLES
  time,
  left,            \* what is left of the behaviour's workload
  incidents,       \* id -> [severity, last_seen, occurrences, acknowledged]
  tracker,         \* [of: id -> times, recent: ids, oldest first]
  stall,           \* [of: run -> cadence, recent: runs, oldest first]
  failures,        \* site -> provider -> buckets [start, count]
  stopped,         \* killed runs
  forgotten,       \* runs the aggregates no longer retain
  heard            \* history: run -> the calls its cadence covers

incvars == <<time, left, incidents, tracker, stall, failures, stopped, forgotten, heard>>

Severities == [info |-> 0, low |-> 1, medium |-> 2, high |-> 3, critical |-> 4]
Other == "other"                     \* PROVIDER_OVERFLOW_BUCKET
incident_id(kind, scope) == <<kind, scope, "">>
provider_id(provider, site) == <<"dependency_failed", provider, site>>
is_provider_incident_id(id) == id[1] = "dependency_failed"
is_overflow_provider_id(id) == is_provider_incident_id(id) /\ id[2] = Other

ValueAt(f, k, default) == IF k \in DOMAIN f THEN f[k] ELSE default
Update(f, k, v) == [x \in DOMAIN f \cup {k} |-> IF x = k THEN v ELSE f[x]]
Drop(f, ks) == [x \in DOMAIN f \ ks |-> f[x]]
NoMemory == [of |-> <<>>, recent |-> <<>>]

IncInit ==
  /\ time = 1 /\ left \in Workloads
  /\ incidents = <<>>
  /\ tracker = NoMemory /\ stall = NoMemory
  /\ failures = [s \in SiteNames |-> <<>>]
  /\ stopped = {} /\ forgotten = {}
  /\ heard = [r \in RunNames |-> <<>>]

-----------------------------------------------------------------------------
(* A memory of at most MAX_TRACKER_KEYS keys: a new one takes the place of *)
(* the one touched longest ago.                                            *)
Touch(memory, k) ==
  LET full == k \notin DOMAIN memory.of /\ Cardinality(DOMAIN memory.of) >= MAX_TRACKER_KEYS
      gone == IF full /\ memory.recent # <<>> THEN {Head(memory.recent)} ELSE {}
  IN  [of |-> Drop(memory.of, gone),
       recent |-> Append(SelectSeq(memory.recent, LAMBDA x : x \notin gone \cup {k}), k)]

(* The occurrences of a trigger, in the order they came; with a window,    *)
(* the old ones go from the front up to the first that is inside.          *)
bump_tracker(memory, id, ts, window) ==
  LET m == Touch(memory, id)
      all == Append(ValueAt(m.of, id, <<>>), ts)
      held == IF Len(all) > INCIDENT_TRACKER_CAP THEN Tail(all) ELSE all
      inside == {i \in DOMAIN held : window = 0 \/ held[i] >= time - window}
  IN  [m EXCEPT !.of = Update(@, id, IF inside = {} THEN <<>> ELSE SubSeq(held, Min(inside), Len(held)))]

(* Mutant: whatever arrives last is the latest call. *)
note_call_for_stall_arrival(memory, run, ts, ended) ==
  LET m == Touch(memory, run)
      st == ValueAt(m.of, run, [calls |-> 0, last |-> ts, gap |-> 0, ended |-> ended])
  IN  [m EXCEPT !.of = Update(@, run, [calls |-> st.calls + 1, last |-> ts, gap |-> st.gap, ended |-> ended])]

(* A call older than the newest seen counts and moves nothing else. *)
note_call_for_stall(memory, run, ts, ended) ==
  LET m == Touch(memory, run)
      st == ValueAt(m.of, run, [calls |-> 0, last |-> ts, gap |-> 0, ended |-> ended])
      next == [st EXCEPT !.calls = @ + 1, !.last = ts, !.ended = ended,
                         !.gap = IF ts - st.last > @ THEN ts - st.last ELSE @]
  IN  [m EXCEPT !.of = Update(@, run, IF ts >= st.last THEN next ELSE [st EXCEPT !.calls = @ + 1])]

(* One step up for each multiple of the threshold, two at the most. *)
severity_from_magnitude(base, n, threshold) ==
  LET steps == Cardinality({k \in 1 .. 2 : n >= threshold * SEVERITY_ESCALATE_AT ^ k})
  IN  Min({base + steps, Severities.critical})

Trip(inc, severity, ts) ==
  [inc EXCEPT !.occurrences = @ + 1,
              !.severity = IF severity > @ THEN severity ELSE @,
              !.last_seen = IF ts > @ THEN ts ELSE @]

Opened(severity, ts) == [severity |-> severity, last_seen |-> ts, occurrences |-> 0, acknowledged |-> FALSE]
Oldest(incs, ids) == CHOOSE id \in ids : \A o \in ids : incs[id].last_seen <= incs[o].last_seen

(* A new incident at the cap takes the place of the one seen longest ago;  *)
(* provider incidents are neither counted nor taken.                       *)
Evicted(incs, id) ==
  LET others == {o \in DOMAIN incs : ~is_provider_incident_id(o)}
  IN  IF id \notin DOMAIN incs /\ Cardinality(others) >= MAX_INCIDENTS_PER_ORG
      THEN Drop(incs, {Oldest(incs, others)}) ELSE incs

upsert_incident(incs, id, severity, ts) ==
  LET e == Evicted(incs, id)
  IN  Update(e, id, Trip(ValueAt(e, id, Opened(severity, ts)), severity, ts))

-----------------------------------------------------------------------------
(* What one record of a push does to the detectors: the cadence of its run *)
(* and, for a refusal, the count of refusals of its kind.                  *)
DetectFor(run, decision, ts) ==
  LET kind == IF decision = "budget_exceeded" THEN "budget_exhausted" ELSE "sustained_loop"
      id == incident_id(kind, run)
      window == IF kind = "budget_exhausted" THEN 0 ELSE LoopWindow
      threshold == IF kind = "budget_exhausted" THEN BudgetBlocks ELSE LoopRepeats
      base == IF kind = "budget_exhausted" THEN Severities.high ELSE Severities.medium
      bumped == bump_tracker(tracker, id, ts, window)
      n == Len(bumped.of[id])
  IN  IF decision = "allow" THEN UNCHANGED <<tracker, incidents>>
      ELSE /\ tracker' = bumped
           /\ incidents' = IF n < threshold THEN incidents
                           ELSE upsert_incident(incidents, id, severity_from_magnitude(base, n, threshold), ts)

Ingest(run, decision, ts) ==
  /\ left.calls > 0
  /\ left' = [left EXCEPT !.calls = @ - 1]
  /\ LET capped == IF ts > time THEN time ELSE ts
     IN  /\ stall' = note_call_for_stall(stall, run, capped, decision # "allow")
         /\ heard' = [r \in RunNames |->
                        IF r = run THEN Append(heard[r], [ts |-> capped, ended |-> decision # "allow"])
                        ELSE IF r \in DOMAIN stall'.of THEN heard[r] ELSE <<>>]
  /\ DetectFor(run, decision, ts)
  /\ forgotten' = forgotten \ {run}
  /\ UNCHANGED <<time, failures, stopped>>

Active(inc) == ~inc.acknowledged \/ time - inc.last_seen < ProviderWindow

Live(buckets) == SelectSeq(buckets, LAMBDA b : time - b.start < ProviderWindow)
InWindow(buckets) == FoldLeft(LAMBDA n, b : n + b.count, 0, Live(buckets))

(* A report of failed calls from a site's gateway.  A provider over the    *)
(* tracker's, the site's or the reserve's limit is filed under other.      *)
Pruned(site) ==
  LET f == failures[site] IN [p \in {p \in DOMAIN f : Live(f[p]) # <<>>} |-> Live(f[p])]

CountFailures(site, provider, n) ==
  LET f == Pruned(site)
      k == IF provider \in DOMAIN f \/ Cardinality(DOMAIN f) < MAX_PROVIDERS_PER_ORG THEN provider ELSE Other
      old == ValueAt(f, k, <<>>)
      same == old # <<>> /\ Last(old).start = time
      new == IF same THEN Front(old) \o <<[start |-> time, count |-> Last(old).count + n]>>
             ELSE Append(old, [start |-> time, count |-> n])
  IN  [key |-> k, of |-> Update(f, k, new), sum |-> InWindow(new)]

Reserve(incs) == {id \in DOMAIN incs : is_provider_incident_id(id) /\ ~is_overflow_provider_id(id)}
Finished(incs) == {id \in Reserve(incs) : ~Active(incs[id])}

(* Mutant: an incident that is still active makes room too. *)
MakeRoom_any(incs) == Drop(incs, {Oldest(incs, Reserve(incs))})

(* Only what is finished makes room for a provider new to the reserve. *)
MakeRoom(incs) == IF Finished(incs) = {} THEN incs ELSE Drop(incs, {Oldest(incs, Finished(incs))})

FileFailure(site, c, n) ==
  LET own == provider_id(c.key, site)
      new == c.key # Other /\ own \notin DOMAIN incidents
      over_site == new /\ Cardinality({id \in Reserve(incidents) : id[3] = site /\ Active(incidents[id])})
                            >= MAX_PROVIDERS_PER_ORG
      at_reserve == new /\ ~over_site /\ Cardinality(Reserve(incidents)) >= MAX_PROVIDER_INCIDENTS_PER_ORG
      room == IF at_reserve THEN MakeRoom(incidents) ELSE incidents
      over == over_site \/ (at_reserve /\ room = incidents)
      id == IF over THEN provider_id(Other, site) ELSE own
      was == ValueAt(room, id, Opened(Severities.high, time))
      tripped == Trip(was, Severities.high, time)
  IN  Update(room, id,
             [tripped EXCEPT !.occurrences = IF id \in DOMAIN room THEN was.occurrences + n ELSE c.sum,
                             !.acknowledged = @ /\ ~is_overflow_provider_id(id)])

note_provider_failures_from_at(site, provider, n) ==
  LET c == CountFailures(site, provider, n)
  IN  /\ left.reports > 0
      /\ left' = [left EXCEPT !.reports = @ - 1]
      /\ failures' = [failures EXCEPT ![site] = c.of]
      /\ incidents' = IF c.sum < ProviderFailures THEN incidents ELSE FileFailure(site, c, n)
      /\ UNCHANGED <<time, tracker, stall, stopped, forgotten, heard>>

(* Stalled: two calls or more, the last one not its end, not killed, still *)
(* retained, and silent for longer than the line and than ever before.     *)
Stalled(run) ==
  /\ run \in DOMAIN stall.of
  /\ LET st == stall.of[run]
     IN  /\ st.calls >= 2 /\ ~st.ended
         /\ time - st.last >= StallAfter /\ time - st.last > st.gap
  /\ run \notin stopped /\ run \notin forgotten
  /\ incident_id("run_stalled", run) \notin DOMAIN incidents

sweep_stalled_at ==
  LET hits == {run \in RunNames : Stalled(run)}
  IN  /\ hits # {}
      /\ \E order \in SetToSeqs(hits) :
           incidents' = FoldLeft(LAMBDA incs, run : upsert_incident(incs, incident_id("run_stalled", run),
                                                                    Severities.medium, time), incidents, order)
      /\ UNCHANGED <<time, left, tracker, stall, failures, stopped, forgotten, heard>>

ack_incident_audited(id) ==
  /\ id \in DOMAIN incidents /\ ~incidents[id].acknowledged
  /\ incidents' = [incidents EXCEPT ![id].acknowledged = TRUE]
  /\ UNCHANGED <<time, left, tracker, stall, failures, stopped, forgotten, heard>>

KillRun(run) ==
  /\ run \notin stopped /\ left.controls > 0
  /\ left' = [left EXCEPT !.controls = @ - 1]
  /\ stopped' = stopped \cup {run}
  /\ UNCHANGED <<time, incidents, tracker, stall, failures, forgotten, heard>>

(* The run's aggregate is evicted (CloudPlane). *)
Forget(run) ==
  /\ run \notin forgotten /\ left.controls > 0
  /\ left' = [left EXCEPT !.controls = @ - 1]
  /\ forgotten' = forgotten \cup {run}
  /\ UNCHANGED <<time, incidents, tracker, stall, failures, stopped, heard>>

Reboot ==
  /\ left.restarts > 0
  /\ left' = [left EXCEPT !.restarts = @ - 1]
  /\ tracker' = NoMemory /\ stall' = NoMemory
  /\ failures' = [s \in SiteNames |-> <<>>]
  /\ heard' = [r \in RunNames |-> <<>>]
  /\ UNCHANGED <<time, incidents, stopped, forgotten>>

TimePasses ==
  /\ time < MaxTime
  /\ time' = time + 1
  /\ UNCHANGED <<left, incidents, tracker, stall, failures, stopped, forgotten, heard>>

IncNext ==
  \/ \E run \in RunNames, decision \in {"allow", "budget_exceeded", "loop_detected"}, ts \in 1 .. MaxTime :
       ts <= time + 1 /\ Ingest(run, decision, ts)
  \/ \E site \in SiteNames, provider \in Providers, n \in 1 .. 2 : note_provider_failures_from_at(site, provider, n)
  \/ sweep_stalled_at
  \/ \E id \in DOMAIN incidents : ack_incident_audited(id)
  \/ \E run \in RunNames : KillRun(run) \/ Forget(run)
  \/ Reboot \/ TimePasses

IncSpec == IncInit /\ [][IncNext]_incvars
-----------------------------------------------------------------------------
(* The caps hold, each kind in its own space, whatever the other does. *)
IncidentCaps ==
  /\ Cardinality({id \in DOMAIN incidents : ~is_provider_incident_id(id)}) <= MAX_INCIDENTS_PER_ORG
  /\ Cardinality(Reserve(incidents)) <= MAX_PROVIDER_INCIDENTS_PER_ORG

(* A provider incident goes away only when it is acknowledged and old. *)
ActiveIsKept ==
  \A id \in DOMAIN incidents \ DOMAIN incidents' :
    is_provider_incident_id(id) => ~Active(incidents[id])

(* While it is open, an incident never says it was less bad than it was. *)
SeverityNeverFalls ==
  \A id \in DOMAIN incidents \cap DOMAIN incidents' :
    incidents'[id].severity >= incidents[id].severity

(* A provider whose failures are at the line now is on the record, as      *)
(* itself or under other.                                                  *)
FailureOnRecord ==
  \A site \in SiteNames : \A p \in DOMAIN failures[site] :
    InWindow(failures[site][p]) >= ProviderFailures =>
      \E id \in {provider_id(p, site), provider_id(Other, site)} : id \in DOMAIN incidents

(* Only a run that really is silent is called stalled: no call its cadence *)
(* covers is newer than the line, the newest one did not end it, and       *)
(* nobody killed it.                                                       *)
StalledIsSilent ==
  \A run \in RunNames :
    LET id == incident_id("run_stalled", run)
        calls == Range(heard[run])
    IN  (id \in DOMAIN incidents' /\ id \notin DOMAIN incidents) =>
          /\ \A c \in calls : time - c.ts >= StallAfter
          /\ \E c \in calls : ~c.ended /\ \A d \in calls : d.ts <= c.ts
          /\ run \notin stopped

(* The record of incidents, whole: within its caps a failing provider is   *)
(* on it, and no step evicts what is active, plays down what is open or    *)
(* calls a run stalled that was heard of.                                  *)
IncidentsStand ==
  /\ [](IncidentCaps /\ FailureOnRecord)
  /\ [][ActiveIsKept /\ SeverityNeverFalls /\ StalledIsSilent]_incvars
=============================================================================
