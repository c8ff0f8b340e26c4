----------------------------- MODULE CloudPlane -----------------------------
(***************************************************************************)
(* The control plane's store for one organisation: what a push of records  *)
(* folds into (runs, totals, days, unit months, gateways, savings), the    *)
(* audited kills and budgets, and the snapshot an autosave writes and a    *)
(* start reads.                                                            *)
(*                                                                         *)
(* plane is what a snapshot holds.  seen and log are history: the records  *)
(* a run's entry was folded from, and every record the organisation sent.  *)
(***************************************************************************)
EXTENDS Integers, Sequences, FiniteSets, SequencesExt, FiniteSetsExt, Functions

CONSTANTS
  Pushes,           \* [records, site]: a batch and its credential's site, or None;
                    \* a record: [run, agent, key, unit, decision, cost, model, basis, ts]
  KeyBuckets,       \* credential -> the bucket a refused claim is filed under
  Budgets,          \* amounts an operator sets
  ALERT_PCT,
  MAX_RUNS_PER_ORG, MAX_UNIT_MONTH_KEYS, MAX_SPEND_AGENTS_PER_DAY,
  MAX_GATEWAYS_PER_ORG, MAX_FALLBACK_MODEL_KEYS, MAX_BREAK_KEYS,
  SPEND_DAYS_RETAINED,
  MaxLog, MaxControls, MaxDay, MaxCrashes    \* bounds

None == ""            \* an empty string of a record or an entry
Records == UNION {Range(push.records) : push \in Pushes}
Unassigned == "unassigned"
Unnamed == "unnamed"
IDENTITY_REFUSAL == "identity_mismatch"

Known == {"allow", "cache_hit", "budget_exceeded", "killed", IDENTITY_REFUSAL}
BudgetProtection == {"budget_exceeded", "killed"}
is_known_decision(r) == r.decision \in Known
is_blocked(r) == r.decision \notin {"allow", "cache_hit"}
Clamped(r) == IF r.cost < 0 THEN 0 ELSE r.cost
Spend(r) == IF is_blocked(r) THEN 0 ELSE Clamped(r)
DayOf(ts) == ts
MonthOf(day) == day \div 2     \* two days a month are enough to turn one

(* The key: prefix keeps a credential named like an agent apart from it. *)
ASSUME BucketAssumption ==
  /\ IsInjective(KeyBuckets)
  /\ Range(KeyBuckets) \cap ({None} \cup {r.agent : r \in Records}) = {}

KeyBucket(key) == KeyBuckets[key]

(* A refusal for identity is filed under the credential, never the claim. *)
filed_under(r) ==
  IF r.decision # IDENTITY_REFUSAL THEN r.agent
  ELSE IF r.key = None THEN None ELSE KeyBucket(r.key)

VARIABLES plane, recency, break_recency, dirty, saving, disk, today, crashes, crossings

planevars == <<plane, recency, break_recency, dirty, saving, disk, today, crashes, crossings>>

NoEntry == [spent |-> 0, calls |-> 0, blocked |-> 0, fallback |-> 0,
            last_decision |-> None, last_decision_ts |-> 0,
            model |-> None, model_ts |-> 0, switches |-> 0, admitted |-> None,
            admitted_ts |-> 0, agent |-> None, unit |-> None,
            site |-> None, last_seen |-> 0, seen |-> <<>>]

EmptyPlane == [runs |-> <<>>, spent |-> 0, calls |-> 0, months |-> <<>>, days |-> <<>>,
               gateways |-> <<>>, fallback |-> <<>>, breaks |-> {}, budget_breaks |-> 0,
               blocked_spend |-> 0, killed |-> {}, budgets |-> <<>>, audit |-> <<>>,
               marked |-> {}, log |-> <<>>]

PlaneInit ==
  /\ plane = EmptyPlane /\ disk = EmptyPlane
  /\ recency = <<>> /\ break_recency = <<>>
  /\ dirty = FALSE /\ saving = "idle"
  /\ today = 1 /\ crashes = 0
  /\ crossings = <<>>

-----------------------------------------------------------------------------
(* Maps with a cap: a new key past the cap folds into the overflow key. *)
Slot(f, k, cap, overflow) == IF k \in DOMAIN f \/ Cardinality(DOMAIN f) < cap THEN k ELSE overflow
At(f, k, default) == IF k \in DOMAIN f THEN f[k] ELSE default
Put(f, k, v) == [x \in DOMAIN f \cup {k} |-> IF x = k THEN v ELSE f[x]]
Without(f, k) == [x \in DOMAIN f \ {k} |-> f[x]]

touch(index, k) == Append(SelectSeq(index, LAMBDA x : x # k), k)

is_alerting(p, run) ==
  LET budget == At(p.budgets, run, 0)
  IN  budget > 0 /\ At(p.runs, run, NoEntry).spent * 100 >= ALERT_PCT * budget

(* Mutant: the oldest goes, alerting or not. *)
evict_oldest_unprotected_plain(p, index) == Head(index)

(* The oldest run that is not alerting; the oldest when all of them are. *)
evict_oldest_unprotected(p, index) ==
  LET free == SelectSeq(index, LAMBDA x : ~is_alerting(p, x))
  IN  IF free = <<>> THEN Head(index) ELSE Head(free)

(* The entry of the record's run, made if it is new, with a victim evicted *)
(* at the cap.  st is [plane, recency, breaks]: the state of one fold.     *)
Enter(st, r) ==
  IF r.run \in DOMAIN st.plane.runs THEN [st EXCEPT !.recency = touch(@, r.run)]
  ELSE IF Cardinality(DOMAIN st.plane.runs) < MAX_RUNS_PER_ORG
  THEN [st EXCEPT !.plane.runs = Put(@, r.run, NoEntry), !.recency = touch(@, r.run)]
  ELSE LET victim == evict_oldest_unprotected(st.plane, st.recency)
       IN  [st EXCEPT !.plane.runs = Put(Without(@, victim), r.run, NoEntry),
                      !.recency = touch(SelectSeq(@, LAMBDA x : x # victim), r.run)]

(* What one record adds to its run's entry; the latest decision is by the  *)
(* records' own time.                                                      *)
FoldCounts(agg, r) ==
  [agg EXCEPT
    !.spent = @ + Spend(r), !.calls = @ + 1,
    !.blocked = @ + IF is_known_decision(r) /\ is_blocked(r) THEN 1 ELSE 0,
    !.fallback = @ + IF r.decision = "allow" /\ r.basis = "fallback" THEN 1 ELSE 0,
    !.last_decision = IF is_known_decision(r) /\ r.ts >= agg.last_decision_ts THEN r.decision ELSE @,
    !.last_decision_ts = IF is_known_decision(r) /\ r.ts >= @ THEN r.ts ELSE @]

(* The run's model is its latest call's, and a switch is an admitted call  *)
(* with another model than the one before.                                 *)
FoldModel(agg, r) ==
  LET latest == r.model # None /\ r.ts >= agg.model_ts
      admitted == ~is_blocked(r) /\ r.model # None /\ r.ts >= agg.admitted_ts
  IN  [agg EXCEPT
        !.model = IF latest THEN r.model ELSE @,
        !.model_ts = IF latest THEN r.ts ELSE @,
        !.switches = @ + IF admitted /\ agg.admitted \notin {None, r.model} THEN 1 ELSE 0,
        !.admitted = IF admitted THEN r.model ELSE @,
        !.admitted_ts = IF admitted THEN r.ts ELSE @]

(* Mutant: a refused claim takes over the run. *)
FoldName_claimed(agg, r, site) ==
  [agg EXCEPT
    !.agent = IF filed_under(r) = None THEN @ ELSE filed_under(r),
    !.unit = IF r.unit = None THEN @ ELSE r.unit,
    !.site = IF site = None THEN @ ELSE site,
    !.last_seen = IF r.ts > @ THEN r.ts ELSE @,
    !.seen = Append(@, r)]

(* The last name wins, an empty one never does, and a refusal for identity *)
(* names a run only when nothing has.                                      *)
FoldName(agg, r, site) ==
  [agg EXCEPT
    !.agent = IF r.decision = IDENTITY_REFUSAL /\ @ # None THEN @
              ELSE IF filed_under(r) = None THEN @ ELSE filed_under(r),
    !.unit = IF r.unit = None THEN @ ELSE r.unit,
    !.site = IF site = None THEN @ ELSE site,
    !.last_seen = IF r.ts > @ THEN r.ts ELSE @,
    !.seen = Append(@, r)]

(* The month is the plane's, not the record's, and turns with the first    *)
(* record of the unit in it.                                               *)
FoldMonth(months, r) ==
  LET unit == IF r.unit = None THEN Unassigned ELSE r.unit
      k == Slot(months, unit, MAX_UNIT_MONTH_KEYS, Unassigned)
      new == [window |-> MonthOf(today), spent |-> 0, calls |-> 0]
      acc == IF At(months, k, new).window = MonthOf(today) THEN At(months, k, new) ELSE new
  IN  Put(months, k, [acc EXCEPT !.spent = @ + Spend(r), !.calls = @ + 1])

(* Mutant: a day whose agents are full loses the record. *)
FoldDay_dropping(days, r) ==
  LET day == DayOf(r.ts)
      of == At(days, day, <<>>)
      agent == Slot(of, filed_under(r), MAX_SPEND_AGENTS_PER_DAY, None)
      acc == At(of, agent, [spent |-> 0, calls |-> 0])
  IN  IF agent # filed_under(r) THEN days
      ELSE Put(days, day, Put(of, agent, [spent |-> acc.spent + Spend(r), calls |-> acc.calls + 1]))

FoldDay(days, r) ==
  LET day == DayOf(r.ts)
      of == At(days, day, <<>>)
      agent == Slot(of, filed_under(r), MAX_SPEND_AGENTS_PER_DAY, None)
      acc == At(of, agent, [spent |-> 0, calls |-> 0])
  IN  Put(days, day, Put(of, agent, [spent |-> acc.spent + Spend(r), calls |-> acc.calls + 1]))

(* Avoided spend, and how many runs were stopped: a capped memory of runs  *)
(* in front of a counter that only grows.                                  *)
FoldSavings(st, r) ==
  LET old == IF st.breaks # <<>> THEN Head(st.breaks) ELSE CHOOSE x \in st.plane.breaks : TRUE
      full == Cardinality(st.plane.breaks) >= MAX_BREAK_KEYS
  IN  IF r.decision \notin BudgetProtection THEN st
      ELSE IF r.run \in st.plane.breaks
      THEN [st EXCEPT !.plane.blocked_spend = @ + Clamped(r), !.breaks = touch(@, r.run)]
      ELSE [st EXCEPT !.plane.blocked_spend = @ + Clamped(r),
                      !.plane.budget_breaks = @ + 1,
                      !.plane.breaks = (IF full THEN @ \ {old} ELSE @) \cup {r.run},
                      !.breaks = touch(IF full THEN SelectSeq(@, LAMBDA x : x # old) ELSE @, r.run)]

(* Calls charged at the fallback rate, by model, up to a cap. *)
FoldFallback(fallback, r) ==
  LET k == Slot(fallback, r.model, MAX_FALLBACK_MODEL_KEYS, "other")
  IN  IF r.decision = "allow" /\ r.basis = "fallback" THEN Put(fallback, k, At(fallback, k, 0) + 1)
      ELSE fallback

(* One record of a push from a site, into everything the plane keeps. *)
Fold(st, r, site, gateway) ==
  LET in == Enter(FoldSavings(st, r), r)
      g == in.plane.gateways[gateway]
  IN  [in EXCEPT !.plane.runs = [@ EXCEPT ![r.run] = FoldName(FoldModel(FoldCounts(@, r), r), r, site)],
                 !.plane.spent = @ + Spend(r),
                 !.plane.calls = @ + 1,
                 !.plane.gateways = Put(@, gateway, [g EXCEPT !.spent = @ + Spend(r), !.calls = @ + 1]),
                 !.plane.fallback = FoldFallback(@, r),
                 !.plane.months = FoldMonth(@, r),
                 !.plane.days = FoldDay(@, r),
                 !.plane.log = Append(@, [r |-> r, received |-> today])]

(* The gateway's own entry; a new site past the cap is unnamed. *)
Heartbeat(p, site) ==
  LET k == IF site = None THEN Unnamed ELSE Slot(p.gateways, site, MAX_GATEWAYS_PER_ORG, Unnamed)
      g == At(p.gateways, k, [pushes |-> 0, calls |-> 0, spent |-> 0])
  IN  [key |-> k, plane |-> [p EXCEPT !.gateways = Put(@, k, [g EXCEPT !.pushes = @ + 1])]]

(* Days past retention go when the next push arrives. *)
Retain(days) ==
  [d \in {d \in DOMAIN days : d >= today - SPEND_DAYS_RETAINED} |-> days[d]]

(* The runs of the push that are now at their line and were not marked. *)
DetectThreshold(p, push) ==
  {r.run : r \in {r \in Range(push) : r.run \notin p.marked /\ is_alerting(p, r.run)}}

(* In time order within the push. *)
ByTime(push) == SortSeq(push, LAMBDA a, b : a.ts < b.ts)

ingest_at_from(push, site) ==
  LET beat == Heartbeat([plane EXCEPT !.days = Retain(@)], site)
      folded == FoldLeft(LAMBDA st, r : Fold(st, r, site, beat.key),
                         [plane |-> beat.plane, recency |-> recency, breaks |-> break_recency],
                         ByTime(push))
      crossed == DetectThreshold(folded.plane, push)
  IN  /\ Len(plane.log) + Len(push) <= MaxLog
      /\ plane' = [folded.plane EXCEPT !.marked = @ \cup crossed]
      /\ recency' = folded.recency /\ break_recency' = folded.breaks
      /\ crossings' = [r \in DOMAIN crossings \cup crossed |->
                         At(crossings, r, 0) + IF r \in crossed THEN 1 ELSE 0]
      /\ dirty' = TRUE
      /\ UNCHANGED <<saving, disk, today, crashes>>

-----------------------------------------------------------------------------
(* Controls: the change and its audit entry under one lock. *)
append_audit_locked(p, action, run, detail) ==
  [p EXCEPT !.audit = Append(@, [action |-> action, run |-> run, detail |-> detail])]

RunIds == {r.run : r \in Records}

kill_audited(run) ==
  /\ Len(plane.audit) < MaxControls
  /\ plane' = append_audit_locked([plane EXCEPT !.killed = @ \cup {run}], "kill", run, 0)
  /\ dirty' = TRUE
  /\ UNCHANGED <<recency, break_recency, saving, disk, today, crashes, crossings>>

(* Mutant: a budget for a run the plane has not seen has no entry. *)
set_budget_audited_seen(run, micros) ==
  /\ Len(plane.audit) < MaxControls
  /\ plane' = LET p == [plane EXCEPT !.budgets = Put(@, run, micros), !.marked = @ \ {run}]
              IN  IF run \in DOMAIN plane.runs THEN append_audit_locked(p, "budget", run, micros) ELSE p
  /\ crossings' = Without(crossings, run)
  /\ dirty' = TRUE
  /\ UNCHANGED <<recency, break_recency, saving, disk, today, crashes>>

(* A new budget is a new line to cross: clear_budget_threshold_locked. *)
set_budget_audited(run, micros) ==
  /\ Len(plane.audit) < MaxControls
  /\ plane' = append_audit_locked([plane EXCEPT !.budgets = Put(@, run, micros), !.marked = @ \ {run}],
                                  "budget", run, micros)
  /\ crossings' = Without(crossings, run)
  /\ dirty' = TRUE
  /\ UNCHANGED <<recency, break_recency, saving, disk, today, crashes>>

-----------------------------------------------------------------------------
(* The autosave tick clears the flag, then writes; the write may fail. *)
take_dirty ==
  /\ saving = "idle" /\ dirty
  /\ dirty' = FALSE /\ saving' = "saving"
  /\ UNCHANGED <<plane, recency, break_recency, disk, today, crashes, crossings>>

save(fails) ==
  /\ saving = "saving"
  /\ saving' = "idle"
  /\ disk' = IF fails THEN disk ELSE plane
  /\ crashes' = IF fails THEN crashes + 1 ELSE crashes
  /\ fails => crashes < MaxCrashes
  /\ UNCHANGED <<plane, recency, break_recency, dirty, today, crossings>>

(* A crash and the start after it; the index of runs is rebuilt from their *)
(* own times.                                                              *)
load ==
  /\ plane' = disk
  /\ recency' \in {s \in SetToSeqs(DOMAIN disk.runs) :
                     \A i, j \in DOMAIN s : i < j => disk.runs[s[i]].last_seen <= disk.runs[s[j]].last_seen}

Crash ==
  /\ crashes < MaxCrashes
  /\ crashes' = crashes + 1
  /\ load
  /\ break_recency' = <<>> /\ dirty' = FALSE /\ saving' = "idle"
  /\ UNCHANGED <<disk, today, crossings>>

DayPasses ==
  /\ today < MaxDay
  /\ today' = today + 1
  /\ UNCHANGED <<plane, recency, break_recency, dirty, saving, disk, crashes, crossings>>

PlaneNext ==
  \/ \E push \in Pushes : ingest_at_from(push.records, push.site)
  \/ \E run \in RunIds : kill_audited(run)
  \/ \E run \in RunIds, micros \in Budgets : set_budget_audited(run, micros)
  \/ take_dirty \/ save(FALSE) \/ save(TRUE)
  \/ Crash \/ DayPasses

(* The autosave is a timer of its own; a failing disk is not made to work. *)
PlaneSpec == PlaneInit /\ [][PlaneNext]_planevars
               /\ WF_planevars(take_dirty) /\ WF_planevars(save(FALSE))
-----------------------------------------------------------------------------
SumOf(S, f(_)) == MapThenSumSet(f, S)
LogSum(p, f(_), wanted(_)) ==
  FoldLeft(LAMBDA s, e : s + (IF wanted(e) THEN f(e.r) ELSE 0), 0, p.log)
One(r) == 1
Always(e) == TRUE

(* Runs are evicted, agents, units and gateways overflow their caps, days  *)
(* expire: the organisation's totals, the gateways' and every retained     *)
(* day's still add up to the records received.                             *)
SpendAgrees ==
  LET p == plane
      kept == {d \in DOMAIN p.days : d >= today - SPEND_DAYS_RETAINED}
  IN  /\ p.spent = LogSum(p, Spend, Always) /\ p.calls = Len(p.log)
      /\ p.spent = SumOf(DOMAIN p.gateways, LAMBDA g : p.gateways[g].spent)
      /\ p.calls = SumOf(DOMAIN p.gateways, LAMBDA g : p.gateways[g].calls)
      /\ \A d \in kept :
           /\ SumOf(DOMAIN p.days[d], LAMBDA a : p.days[d][a].spent)
                = LogSum(p, Spend, LAMBDA e : DayOf(e.r.ts) = d)
           /\ SumOf(DOMAIN p.days[d], LAMBDA a : p.days[d][a].calls)
                = LogSum(p, One, LAMBDA e : DayOf(e.r.ts) = d)
      /\ SumOf(DOMAIN p.runs, LAMBDA run : p.runs[run].spent) <= p.spent

(* Nothing that month but what was received in it, whatever the records'   *)
(* own clocks say.                                                         *)
MonthExact ==
  LET now == {u \in DOMAIN plane.months : plane.months[u].window = MonthOf(today)}
  IN  SumOf(now, LAMBDA u : plane.months[u].spent)
        = LogSum(plane, Spend, LAMBDA e : MonthOf(e.received) = MonthOf(today))

(* The records of seen that are at least as late as all the wanted ones. *)
Latest(seen, wanted(_)) ==
  {r \in Range(seen) : wanted(r) /\ \A q \in Range(seen) : wanted(q) => q.ts <= r.ts}

Admitted(r) == ~is_blocked(r) /\ r.model # None
InOrder(seen) == \A i, j \in DOMAIN seen : i < j => seen[i].ts <= seen[j].ts
Switches(calls) == Cardinality({i \in 2 .. Len(calls) : calls[i].model # calls[i - 1].model})

(* In whatever order its records arrive, a run is what they say it is: its *)
(* spend, its latest model and decision by their own time, its changes of  *)
(* model, and the agent an admitted call named, which a refused claim      *)
(* never takes over.                                                       *)
RunMatchesItsRecords ==
  \A run \in DOMAIN plane.runs :
    LET agg == plane.runs[run]
        named == {i \in DOMAIN agg.seen : agg.seen[i].decision # IDENTITY_REFUSAL /\ agg.seen[i].agent # None}
    IN  /\ agg.seen # <<>>
        /\ agg.spent = FoldLeft(LAMBDA s, r : s + Spend(r), 0, agg.seen)
        /\ agg.calls = Len(agg.seen)
        /\ LET late == Latest(agg.seen, LAMBDA r : r.model # None)
           IN  late # {} => agg.model \in {r.model : r \in late}
        /\ LET late == Latest(agg.seen, is_known_decision)
           IN  late # {} => agg.last_decision \in {r.decision : r \in late}
        /\ InOrder(agg.seen) => agg.switches = Switches(SelectSeq(agg.seen, Admitted))
        /\ IF named # {} THEN agg.agent = agg.seen[Max(named)].agent
           ELSE agg.agent \in {None} \cup {KeyBucket(r.key) : r \in {r \in Range(agg.seen) : r.key # None}}

(* The runs stopped: none missed, and no more than there were refusals. *)
BreaksCounted ==
  LET stops == SelectSeq(plane.log, LAMBDA e : e.r.decision \in BudgetProtection)
      runs == {stops[i].r.run : i \in DOMAIN stops}
  IN  /\ Cardinality(runs) <= plane.budget_breaks /\ plane.budget_breaks <= Len(stops)
      /\ Cardinality(runs) <= MAX_BREAK_KEYS => plane.budget_breaks = Cardinality(runs)

(* The index that picks the victim holds the retained runs and no others,  *)
(* also after a start.                                                     *)
RecencyInStep == IsInjective(recency) /\ Range(recency) = DOMAIN plane.runs

(* What is killed and what is budgeted is what the audit chain says last,  *)
(* in memory and in every snapshot a start can read.                       *)
AuditTells(p) ==
  /\ p.killed = {e.run : e \in {e \in Range(p.audit) : e.action = "kill"}}
  /\ \A run \in RunIds :
       LET sets == {i \in DOMAIN p.audit : p.audit[i].action = "budget" /\ p.audit[i].run = run}
       IN  /\ run \in DOMAIN p.budgets <=> sets # {}
           /\ sets # {} => p.budgets[run] = p.audit[Max(sets)].detail
AuditTellsAll == AuditTells(plane) /\ AuditTells(disk)

(* A run at its line is announced once for each budget it is given; only a *)
(* crash that forgets the mark can announce it again.                      *)
CrossedOnce == \A run \in DOMAIN crossings : crossings[run] <= 1 + crashes

(* While another run can go, a run at its line is not evicted. *)
AlertingIsKept ==
  crashes' = crashes =>
    \A run \in DOMAIN plane.runs \ DOMAIN plane'.runs :
      is_alerting(plane, run) => \A other \in DOMAIN plane.runs : is_alerting(plane, other)

(* A kill reaches the snapshot unless the plane crashes or a write fails. *)
KillReachesDisk ==
  \A run \in RunIds :
    [](run \in plane.killed => <>(run \in disk.killed \/ crashes > 0))

(* The plane's sums, whole: totals, days and months are what was received, *)
(* each run is what its records say, the runs stopped are counted, and the *)
(* index that eviction rests on holds the runs there are.                  *)
PlaneAdds == SpendAgrees /\ MonthExact /\ RunMatchesItsRecords /\ BreaksCounted /\ RecencyInStep

(* An operator's controls, whole: the audit chain tells them all, a line   *)
(* is announced once, a run at its line is not evicted for one that is     *)
(* not, and a kill reaches the disk.                                       *)
ControlsStick ==
  /\ [](AuditTellsAll /\ CrossedOnce)
  /\ [][AlertingIsKept]_planevars
  /\ KillReachesDisk
=============================================================================
