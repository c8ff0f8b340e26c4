# TokenFuse: a TLA+ verification project

TokenFuse is a gateway between agents and model providers, with a control plane
(the Cloud) beside it. Every call belongs to a run; a run has a budget and may
roll up into a parent run; a call reserves an estimate before it is forwarded and
settles its cost afterwards. Around this stand the gates a call passes (keys,
owners, policy, taint firewall, breaker), what is kept of it (trace, events,
journals, the Cloud's books) and what happens to all of that when a process stops.
Paths below are relative to the repository; `gateway/` is `crates/gateway/src/`,
`core/` is `crates/core/src/`, `cloud/` is `crates/cloud/src/`, `cluster/` is
`crates/cluster/src/`.

## 1. Inventory

| part | state | operations | hard behaviour |
| --- | --- | --- | --- |
| run ledger (`core/ledger.rs`) | per run: budget, reserved, spent, steps, parent, generation, closed, admitted_ever; issued and outstanding reservation ids | `open_run_as`, `reserve`, `reserve_unchecked`, `settle`, `seed_spend`, `close_run`, `restore_outstanding` | calls of one tree interleave; settlements arrive after closes and reopens; i64 saturation |
| unit ledger (`gateway/unitledger.rs`) | per business unit: month, reserved, spent; Cloud caps | `try_reserve`, `reserve_unchecked`, `settle`, `seed_month`, `restore`, `set_overrides` | the clock is read before the lock; late settlements and late seeds |
| settle guard and proxy (`gateway/settle.rs`, `proxy.rs`) | a call's two reservations, its phase, its answer | `handle_call`, `stream_managed`, `buffered_managed`, `settle_now`, `charge`, `retain`, `Drop` | a call ends on many paths; values are read before an await and used after it |
| streams and meters (`gateway/streamgate.rs`, `provider.rs`) | the unparsed bytes, the held events; the usage seen so far | `push`, `finish`; usage parsers, `settle_amount` | chunks cut anywhere; bodies that break; caps |
| retained journal, closure door (`gateway/retainedjournal.rs`, `closure.rs`) | an append-only file, the registry, the answered operations | `open`, `append`, `replay`, `rewrite`; `apply` | crashes and failed writes at every point; operations are retried |
| replicated ledger (`cluster/types.rs`, `gateway/raft_ledger.rs`) | the replicated runs, each gateway's copy and outstanding ids | `Open`, `Reserve`, `Settle` | lagging local reads, lost answers, fire-and-forget settlement |
| raft storage (`cluster/redbstore.rs`, `store.rs`) | log, vote, applied state, snapshot in one file | openraft's storage traits | death between two commits |
| seed and seed gate (`gateway/seedgate.rs`, `cloudsink.rs`, `main.rs`, `state.rs`) | which parts are read, the gate, staged seeds, replayed runs | start-up attempt, retry, late credit, pollers | the control plane starts later and goes away; calls race the seed |
| policy, loops, breaker, cache (`core/policy.rs`, `loops.rs`, `cache.rs`) | sizes and calls of a run; cache entries and their indexes | decisions; `get`, `put` | interleaved callers; refresh, eviction, clocks set back |
| taint and tool firewall (`gateway/taint.rs`, `declassify.rs`) | labels, tracked blocks, reviews | split, accumulate, judge, clear | a clearance lands between two steps of a call |
| MCP broker, doors (`gateway/mcpbroker.rs`, `crates/dpop`, `crates/delegation`, `revocations.rs`) | sessions, listings, replay cache, revocation list | one message's way; proofs, chains, fetches | pages out of order, replayed proofs, old lists, clocks |
| policy hook (`gateway/wardryx.rs`) | verdict cache, holds, tally | ask, filter | answers arrive out of order, timeouts |
| keys, identities, run owners (`gateway/keys.rs`, `identity.rs`, `runowners.rs`, `refusedkeys.rs`) | keys, owners and their journal, limiter | `claim`, `check_held`, `note` | two claims at once; torn lines; scans |
| event stream, checkpoints (`core/checkpoint.rs`, `gateway/checkpoints.rs`) | the stream, its hash, its records, signing keys | emit, tick, rotate, renew | other writers, torn appends, outages |
| sinks (`gateway/cloudsink.rs`, `sink.rs`) | a bounded queue, batches; trace segments | record, ship, drain, flush | loss, duplication, order, crash |
| Cloud plane (`cloud/store.rs`, `http.rs`, `push.rs`, `audit_keyryx.rs`) | runs, totals, days, months, budgets, kills, incidents, devices, nonces, audit chains, manifests | ingest, controls, pairing, autosave, sweep, push, sign | late records, caps, crash between change and snapshot, requests delivered twice |
| prices, scanners, reports, CLI, radar, SDKs, dashboard | | | formats and I/O |

How they meet. `handle` authenticates the caller, checks who owns the run and its
parent, passes the seed gate, opens the run on the ledger, asks the cache, the
policy hook, the firewall and the watch, passes the unit gate (unit ledger) and the
run gate (run ledger) and holds both reservations in a settle guard. The guard
settles them, or retains them when the outcome is unknown; a retained call goes to
the registry and the journal, and the closure door ends it: journal, ledgers, row.
Rows go to the trace sink and the Cloud sink; the Cloud folds them into its books
and hands back budgets, kills and the seed. With a cluster, the run ledger is the
replicated one.

What makes each correct is what its properties say (section 3): money is released
once and by its owner; what is spent is remembered; budgets hold in enforce; what
was reported as kept survives; what is shown was received; what was withheld stays
withheld; what waits is done.

## 2. Modules

Money, budgets and the run tree:

* `Ledger`: `core::Ledger` in process, one action per method. `runs`,
  `next_generation`, `next_reservation` and `outstanding` are the fields of `Inner`;
  `handles` is every `Reservation` ever returned. An entry of generation 0 is one
  that is not in the map. `walk` is given by what it computes: the paths that climb
  from the leaf (`Climbs`) and the reason such a path ends (`Complete`, `Truncated`).
  Money is `0 .. MaxMoney` for `i64::MAX` and saturates as `Microusd` does. A sum of
  reservations is the cardinality of a set of tokens, one for each reservation and
  micro-dollar, so that the proofs need no induction; so is what the rows of a run
  add up to in `ManagedCall`.
* `LedgerBudget`: `Ledger` in enforce with two history variables. `Escrow`: what a
  budget ledger promises, with accounts and holds and no tree, chain, counter or
  generation; `LedgerBudget` implements it (`ImplementsEscrow`).
* `UnitLedger`: a call asks (reads the clock), reserves (takes the lock), asks again
  and settles. `prompt`, never written after the start, says whether a month
  boundary may fall between the reading and the lock.
* `Restart`: `Ledger` with the proxy's open and reserve, the retained set, the
  journal as a set and the replay: the end of the process at any point and the start
  of the next.
* `RetainedJournal`: the journal as a file of chunks, whole, torn or line ends; a
  chunk after a torn one is fused with it. Appends and the rewrite have the outcomes
  named in `Faults`. A closure is four steps under the books' lock, and a crash may
  fall between any two and inside the append. A crash leaves the synced prefix or any
  longer one, its last chunk possibly torn. What the next process reads at its open
  counts from then on as on stable storage.
* `ClusterLedger`: consensus is openraft's and external: a committed write is applied
  once, in log order. The ledger is a sequence of states, `applied[g]` the one
  gateway `g`'s copy is at; a write is answered, or its answer is lost and it commits
  later or never; a settlement is always sent without waiting. `reachable`,
  `enforce` are chosen at the start. `ParentsFirst` says whether a run may be named
  as a parent before it is open. Two reads of the copy inside one `open_run_as` are
  one step: what a second, newer read would refuse, the state machine ignores.
* `RaftStore`: one node's redb file, commit by commit, with deaths between them.
* `SeedGate`: the start-up attempt, the replay and the retry are one task; the pollers
  run beside it; a call is one step for each await or lock up to its reservation.
  `Parts` is what the seed has to read, three parts or five with a unit ledger.

A call:

* `ManagedCall`: from the opened run to the answer and the settle guard's end, two
  calls of a parent and a child, every await a place where the caller may leave.
* `StreamGate`, `Metering`, `RunWatch`, `SemanticCache`: `ToolCallHold` over a
  stream cut anywhere; what a body's usage reports add up to; the step limit, loop
  windows and readmission; one cache partition with its three indexes.
* `FrontDoor`: from the credential to the unit charged, calls interleaving over the
  owners, the parents and the limiter. `TokenDoor`: the broker's four doors, proofs,
  revocations and the chain behind them. `RunOwners`: the owners' map and journal.
* `Taint`, `McpBroker`, `Wardryx`: the firewall's store and the calls that use it;
  a message's way through the broker; the policy hook and its cache.

What is kept:

* `CloudSink`, `TraceSink`, `Checkpoints`, `CheckpointKeys`: the queue to the Cloud,
  the Parquet segments, the event stream and its sidecar, the keys of its records.
* `CloudPlane`, `CloudDoor`, `Incidents`, `PushPipeline`, `AuditManifest`: the
  Cloud's books and snapshot, pairing and signed requests, incidents under their
  caps, the push task, and the audit chains with their signed manifests.

Proofs are in modules of their own, which extend what they are about:
`LedgerProofs` (`Ledger`), `EscrowProofs` (`LedgerBudget`, `Escrow`, `Taint`,
`RetainedJournal`), `CallProofs`
(`ManagedCall`, `UnitLedger`, `TraceSink`), `FrontProofs` (`FrontDoor`, `TokenDoor`),
`SeedGateProofs` (`SeedGate`, `Wardryx`, `McpBroker`), `RestartProofs` (`Restart`,
`RunOwners`, `RaftStore`), `ClusterLedgerProofs` (`ClusterLedger`, `CloudDoor`) and
`CheckpointProofs` (`CheckpointKeys`, `Checkpoints`, `CloudSink`). The `MC*` modules hold what TLC needs (sets, functions, symmetry), and put modules that do not
share state side by side in one run: a variable `part` chosen at the start says
which one moves, so a run explores the sum of its parts and not their product.
Operators marked "Mutant" in a module are plausible bugs of the code they stand
beside; with one of them in place of its original, a run fails.

## 3. Runs

Every cfg says `CHECK_DEADLOCK FALSE`: the bounds on calls, reservations, starts and
time stop the models where the program goes on.

| run | modules | what it shows | bounds, and why they are enough |
| --- | --- | --- | --- |
| `ledger` | `Ledger`, `SemanticCache` | no run holds more than its outstanding reservations (`ReservedCovered`), exactly them unless a sum saturated (`ReservedExact`), an admitted chain stays the tree (`ChainFrozen`), a handle settles once (`SettledOnce`), spend is kept (`SpendKept`); the cache's indexes, bounds, answers and who makes room (`CacheSound`) | three runs, depth cap two, so chains are cut by the cap, closed and unknown parents and cycles; two reservations of 2 with `i64::MAX` at 3, so their sum saturates; three generations, so a run is closed and reopened twice under a handle; four puts of three prompts, two of which are near |
| `door` | `LedgerBudget`, `TokenDoor` | budgets hold in enforce (`WithinBudget`), the ledger implements the escrow (`ImplementsEscrow`); a proof passes once and is remembered while fresh, revocations bite, one door a token (`DoorHolds`) | a parent and a child, two budgets and estimates, settlements above the estimate; both cache generations, a clock that moves both ways; four seconds with a list that may be one second old and copies as old again, so the age runs out while tokens live, is late, missing, or of the held one's second without an entry; agent tokens with a list that fails closed, chains and access tokens with one that fails either way |
| `books` | `ClusterLedger`, `RetainedJournal` | replicated counters exact, copies behind and never wrong (`ClusterExact`), no budget passed (`NeverOversubscribed`); a closure charges once, for good, with one answer, and what was journaled is held (`ClosureStands`) | two gateways whose two reservations exceed the one budget, three opens so that one is repeated, a lost answer; two calls, two operations, three processes, a registry of one, failed writes and syncs, crashes everywhere |
| `call` | `ManagedCall`, `UnitLedger`, `StreamGate`, `Metering`, `RunWatch` | nothing leaks, rows and spend agree, what the provider received is charged or kept (`CallAccounted`); what was withheld reaches nobody (`FirewallHolds`); unit counters exact, spend kept over a month boundary (`UnitReservedExact`, `UnitSpendKept`); the stream gate (`GateSound`); bills (`BilledRight`); limits and readmission (`WatchIsFair`) | two calls of a parent and a child, each with every kind of answer; bodies of five symbols in chunks of two; usage before and after the cap; one unit, two callers, one boundary |
| `seed` | `SeedGate` | a seed is credited once and never lost, a killed run is not admitted (`SeedHolds`); the gate opens (`GateOpens`) | three runs (fresh with spend and budget, replayed, killed), two calls with any parent, an outage after the start |
| `disk` | `Restart`, `Checkpoints`, `CheckpointKeys`, `RunOwners`, `RaftStore`, `AuditManifest` | journal ids unique, records outstanding, liabilities kept over restarts (`JournalKept`); checkpoint records true, and chained where every failed one was cut off (`CheckpointsTrue`), unsigned only at an outage's end (`SignedUnlessAway`); one owner of a run (`OneOwner`); the raft file (`StoreKeeps`); manifests verify, are of the chain as asked for and tell one history (`ManifestsHold`); nothing waits for ever (`EverythingRecovers`) | two restarts or deaths, so ids are issued again after a replay and replayed again; of the stream at most three troubles in a run: one other writer's line or fragment, one torn append, two records that fail (not signed, cut off or not), one death, one cut; so a glued record is followed by another that a cut takes away; twenty seconds, keys that live eight, posts of one and retries of up to two, so an outage may come in every second of a key's life, with hanging attempts in it, between several renewals; two claims of two runs by two principals; three log entries; two manifests in flight, answered in either order and then asked for again |
| `tools` | `Taint`, `McpBroker`, `Wardryx`, `FrontDoor` | unsigned history asks for no action, ancestry counts, secrets stay in (`TaintHolds`); one record a call, labels first, sessions bound, changed tools not called (`BrokerHolds`); a verdict is the plane's (`PlaneIsQuoted`); spend stays with its payer and under parents that gave leave (`CallerPays`); a scan neither floods nor disappears (`RefusalsHold`) | three runs in a line, a window of two blocks; a broker's three messages in shadow, two enforcing and fail-closed, two with the gateway's firewall off and the plane in shadow or off, agentless calls and unscoped tools among them, a rug pull, a restart; two questions on the wire with a policy that changes; two calls of several keys at a time |
| `cloud` | `CloudSink`, `CloudDoor`, `TraceSink`, `Incidents`, `PushPipeline` | rows lost only at the cap, sent again only unanswered (`SinkKeeps`); a signed request acts once but for what a restart forgets, a code makes one device (`PairingHolds`); each row on disk once (`RowsExactlyOnce`); incidents within caps (`IncidentsStand`); what is recorded arrives (`EverythingArrives`) | three rows, batches and queue of two, an outage; a window of one second, clocks two ahead or behind, two nonces, a restart; two sites and two providers with caps of one, so that the site's limit, a reserve full of open incidents and one with a finished one are met; a bus of two |
| `plane` | `CloudPlane` | totals, days, months and runs are what was received (`PlaneAdds`); the audit tells every control, alerts once, kills reach the disk (`ControlsStick`) | every cap at one or two, three records, two days, a crash |

Fairness is stated where a property is about something that happens in the end, and
rests on tasks that only wait for bounded times: the start-up and retry task of a
gateway (`BACKOFF_MAX`, `SEED_TIMEOUT`; it ends only by opening the gate), the two
second tick and the drainer of the Cloud sink, the trace's tick and its writers, the
push task while it reads, the checkpoint's tick, the Cloud's autosave, and a node's
start after it died (a supervisor's). `GateOpens` also assumes that the control plane
comes back, `EverythingArrives` says "once it is back for good". Callers, pollers,
networks and failures have no fairness.

Disagreements between the code and what the repository says of it, each a run that
finds the violation:

| run | what happens | line |
| --- | --- | --- |
| `restart_budget` | a restored run stays at budget zero after its own caller opens it, and leaves the list of runs awaiting a budget | `gateway/proxy.rs:968` against `state.rs:109` |
| `journal_torn` | a record written after a half-written line of the same process is fused with it and lost, though reported as journaled | `gateway/retainedjournal.rs:250` against `settle.rs:659` |
| `cluster_oversubscribed` | a child opened before its parent settles on the parent once that is open, releasing another call's reservation | `cluster/types.rs:212` against `:5`, `:12` |

Observed while modelling, without a run of their own; the properties above state the
premise under which they do not arise:

* ledgers: a clock read before a month boundary and used after it moves a unit's
  window back and wipes the new month's counters (`unitledger.rs:208` against `:196`;
  `prompt`); a call that read the Cloud budgets before the seed and the gate after it
  is admitted at its header's budget (`proxy.rs:829`);
* journal: after a rename the handle may fail to reopen and appends go to the replaced
  file, though "On any error the journal is left as it was" (`retainedjournal.rs:280`;
  history value "astray"); after a failed sync the refused bytes may be read by the
  next start, and two operations can both be answered ok for one call (`:251`;
  "unsynced");
* sinks: two batches on the wire may return to the queue in the order they failed
  (`cloudsink.rs:407` against `:249`); a segment the crash cut short is not a Parquet
  file (`sink.rs:478`);
* Cloud: a request signed by a clock that is ahead and acted on just before a restart,
  whose nonce no autosave had kept, passes the start's guard and is acted on once more,
  though "a ring lost in a crash between autosaves cannot reopen the window"
  (`cloud/http.rs:276` against `:279`; `ActedOnce` allows that one and no other); a
  device that signs more than a ring's length in four windows is not covered
  (`RingSuffices`); the push task ends when the bus laps it (`push.rs:104` against `:100`); a
  finished incident that fires again does not ask the site's limit (`store.rs:2919`
  against `:2921`); an entry signed and served, then lost with a crash before the
  save, forks the audit chain under its manifest; a concurrent miss or a late answer
  for an older tip makes more than the one signature a period that
  `audit_keyryx.rs:20` speaks of;
* checkpoints: an open counts no pending line (`checkpoint.rs:662` against `:54`);
  a stream that is cut and grows back to exactly the bytes already hashed, ending in
  a fragment, is taken for one that ends in a line (`len == self.off`,
  `checkpoint.rs:704`): the next event is glued to the fragment, and the one after it
  links to what is no line of the file. The same happens to a fragment that another
  writer leaves after the look at the end and before the append. A link made to such
  an event is the one exception `LinkedToDisk` makes;
* sidecar: the error of the cut after a failed append is dropped (`checkpoint.rs:860`),
  although "a failed append is cut off again, so the sidecar never keeps a torn record"
  (`:820`): what was torn then stays, the next record is glued to it and read as one
  bad line, the length the writer knows lags behind, and a later cut takes whole
  records off. `SidecarChained` counts such a process as `uncut` and promises nothing
  of its records from there on, the ones before it included in the promise;
* keys: an attempt to certify awaits two posts of up to ten seconds each
  (`checkpoints.rs:72`, `:471`, `:490`), so one that hangs in an outage holds the next
  back by its own timeout and a whole backoff after the certifier is there again.
  `SignedUnlessAway` counts that in; it assumes that a post the certifier sees begin
  and end is answered within its timeout, and that the task's own steps and the ends
  of its sleeps take no time;
* meter: with several choices the running usage of one stands for all
  (`provider.rs:314`); a total that comes before its parts is read differently from
  one that comes after (`:612` against `:433`);
* cache: an entry evicted and put again at the same reading of a clock set back is the
  old record's (`cache.rs:316`);
* revocations: "nothing un-revokes a token" (`delegation/src/revocations.rs:51`), but a
  list whose cursor equals the held one's is taken as it is (`:342`, and the test at
  `:687`), so a copy of the same second that lacks an entry lets a token pass that was
  refused before; `NeverUnrevoked` makes that one exception, and `RevokedBites` bounds
  how long it can last where the list fails closed. With agent tokens off the operator
  may have it fail open (`agenttoken.rs:251`), and then a revocation bites only while a
  list names it;
* watch: calls of a run under way together all pass `max_steps` (`proxy.rs:1630`);
  the sizes of many callers interleaved look like growth (`loops.rs:148`);
* doors: a parent's own parents are not checked (`proxy.rs:3857`, against
  `README.md:826`), and a parent adopted by a concurrent call of the same key is
  charged by one that passed the check before; the limiter's windows are fixed, so a
  sliding minute may see twice the cap, its map forgets counts when cleared, and a
  clock set back silences a source (`refusedkeys.rs:90`);
* firewall: the anti-exfiltration floor is skipped when a rule of the file has its name,
  whatever that rule denies (`firewall.rs:494`), though it "cannot be disabled in
  enforce mode" (`docs/07-taint-model.md:100`);
* broker: a tool marked as changed while a call of it is under way is called
  (`mcpbroker.rs:2135`); with the gateway's firewall off a classified upstream's answer
  is handed back to a run nothing labelled (`observedact.rs:28`), the one case
  `LabelledBeforeDelivered` leaves out.

## 4. Proofs

TLC checks small instances; the theorems hold for every value of the constants that
satisfies the named assumptions of the module (sets of naturals, bounds that are
naturals). Eight modules hold them; every property they name is also one a run checks,
or a conjunct of one.

**The run ledger** (`LedgerProofs`). `Invariance` rests on
`IInv == TypeOK /\ Issued /\ \A r : Balanced(r)`. `ReservedCovered` is not inductive:
after a saturated admission a settlement might release less than it holds.
`Balanced(r)` says that `reserved` is at most what the outstanding handles hold on
the entry, and exactly that unless the amounts ever admitted on it pass `MaxMoney`;
`Issued` that ids and generations in handles were issued and an id names one handle.
From it: `TypeCorrect`, `NoLeak`, `NoCredit`, `SpendIsKept`, `SettlesOnce`,
`TreeFrozen`; and for `EnforceSpec` `RootsFrozen` and `EnforceIsExact`, exact without
a condition, because the check refuses what would saturate.

**Budgets** (`EscrowProofs`). `BudgetHolds`: `WithinBudget` with the enforce
invariants, since a settlement's release is only as large as its admission while
`EnforceExact` holds.

**The refinement** (`EscrowProofs`). `LedgerIsEscrow`: with a run's entry as an
account, its generation as the account's epoch and a handle as a hold on the accounts
whose epochs it was admitted on, initial states map to initial states and every step
of the ledger to an opening, a hold, a payment, a seed or a stutter.

**The unit ledger** (`CallProofs`). `UnitInv` adds to the type invariant that
no window is dated after the clock and that what is reserved in the current month's
window is at most the tokens of the requests in force on it, and equal to them under
`AmountsFit` (the estimates under way cannot add up past `i64::MAX`), which is
what a ceiling on a request gives in the code and a hypothesis in the theorem. `UnitNoLeak`
needs neither that nor `prompt`; `UnitExact` and `UnitSpendIsKept` are about `prompt`
behaviours, as the properties are.

**The seed gate** (`SeedGateProofs`). `SeedInv` says, besides types: before it serves
the gateway has no call and an empty ledger; the retry runs behind a closed gate, and an open gate
means every part was read; what each part, once read, has left behind (staged
spend, budgets, kills), where the retry is between two of its own steps included;
and for each call, what passing the gate showed it. From it `SeedIsHeld`: whatever the order of parts,
retries, pollers and calls, a seed is credited at most once and not lost, and no
killed run is admitted.

**The replicated ledger** (`ClusterLedgerProofs`). `ClusterInv` has three layers.
`BaseInv`: every state some copy is at is `Behind` the latest (what it knows is known,
with the same parent and no less spend); an unopened run has nothing; a reservation's
gateway and number are its own; where consensus answers only settlements travel
alone; and where parents come first every chain ends at a root. Two lemmas on the
tree carry the rest: `GrowingChain` (as the ledger goes on a run's chain only grows; by
the longest path that extends the old one, with `LeastOf` in place of induction) and
`FrozenChain` (where every known run's parent is known, it does not change).
`ClusterNoLeak` follows from the first in every mode: a settlement that walks a longer
chain than its reservation did saturates, and what is due there has grown. `Exact` and
`Within` need the second, which is why `ClusterIsExact` and
`BudgetsHoldAcrossGateways` assume `ParentsFirst`; the run `cluster_oversubscribed`
shows that without it the code does pass a budget. `CopiesAreNeverWrong` and
`NothingStaysHeld` assume nothing.

**Restarts** (`RestartProofs`). `RestartInv` joins the ledger's `IInv` and frozen
chains with what a replay needs of the state it is not given: every record's handle is
outstanding and retained (`JournalHeld`); a link names the generation its run is in
(`Current`: nothing closes runs in this system); a record's tail parent is still the
parent of its last link's run (`TailsKnown`); no run is its own parent, and no step
index outgrows the ids issued (`Plain`, `Stepped`), so that the highest of the
records' steps exists. Under it every link on disk is live, all records name one parent
for a run (`ParentsIs`: which one is read first does not matter), and a recreated
entry holds the records' tokens; so the replay gives `RestartInv` back and the next
restart can rest on it. From it `JournalIsKept`, `RestartTypeCorrect` and
`LedgerSurvives`: `ReservedCovered`, `ReservedExact` and `ChainFrozen` in every process.
The step lemmas of `LedgerProofs` are used as they stand for what a process does
between two replays.

**The call** (`CallProofs`). `CallInv` ties a call's stage to its guard (`Guarded`: what
it holds, what rows it has, what the provider can have got), to what its caller has of
the answer (`Shown`: no tool call before the judgement, and what a provider's search
read is on the run and in the judging first) and the cache to what was served
(`Cached`). From it `CallFirewallHolds`, with the action property that a child is sent
with its parent's labels. `MoneyInv` adds that reservations and rows agree with the two
ledgers; every step changes the ledgers by what it changes of one call's share
(`MoneyMoves`), which gives `CallMoneyAccounted`. Assumed: finitely many calls,
requests whose history consists of tools with labels.

**The firewall's store** (`EscrowProofs`). `TaintInv` says of each call what it already
knows of what it will be judged against: the labels of its unsigned blocks are found,
then carried, and a run that had read secrets still carries that label. `OwedInv` says
the same of what the run's ancestors carried when the call began. Its step for the
walk, `WalkCovers`, is an induction over the walk (by `LeastNat`, a least
counterexample). From them `TaintIsKept`. Assumed: enforce mode; that no run is declared under two
parents and the tree is no deeper than the walk (`OneTree`; a run moved between a
call's arrival and its walk would lose what the old ancestors carried, and the walk
stops at its cap); and that an operator's rule by the floor's name is no weaker than
the floor (`FloorStands`, section 3).

**The journal** (`EscrowProofs`). `JInv` says of the file's lines what they can be and
that a torn one ends the file (`LinesSay`, `TornEnded`), ids are used once (`IdsApart`),
what the door has in hand is where its three steps are (`Closing`), a call has one
evidence for its closure (`OneEvidence`), and books and registry are what a replay of
the file gives (`WordKept`, `DoorStands`, `BooksStand`, `AnswersKept`). That a replay
gives them back needs what `replay` and `rewrite` keep of any file, line by line. From it
`JournalStands`, which supposes that a failed write leaves no part of its line: the run
`journal_torn` shows what happens otherwise.

**The trace** (`CallProofs`). `TraceInv`: a start of a process has a token of its own,
so that a segment's name is used once (`TokensApart`, `NamesUsed`, `NamesApart`); a row
is in one buffer, batch or segment (`RowsApart`) and in one of them or written off
(`RowsKept`). From it `TraceIsWhole`.

**The front door** (`FrontProofs`). `CallerInv`: what is fixed once said (the unit of a
client key), what a parent's owner was when the call was checked (`ParentInv`), which
slots may still count as a mismatch. `LimiterInv`: while the map was never cleared, every
refusal is told or held in the next event's count; while the clock was never set back, a
minute that reaches behind the window's start holds one cap's worth of events, hence two
at most in any sixty seconds. From them `FrontCallerPays` and `FrontRefusalsHold`.

**The token door** (`FrontProofs`). `DoorInv`: a proof used is in one of the two
generations of the cache for as long as it is fresh (`UsesRemembered`); the list held,
and the one on its way, name every revocation older than their second (`NamesUpTo`),
which is no older than the poll, less a copy's age (`Polled`); and whoever was refused
as listed was named by an entry as old as a list no later than the one held
(`WasNamed`), so only a list of that very second can lack it. What a passing token
shows of the list needs `IssuerAssumption`: an entry does not expire before the
credentials it covers, which is the issuer's to keep and not in the repository, as is
that a list names all that was revoked before its second. From it `DoorsHold`, in
either fail mode.

**Owners and storage** (`RestartProofs`). `OwnersInv`: the file names one owner for a
run, the map in memory has what the file says, what a claim was told is kept is on
disk, and a handle that never failed appends to the named file at a line's end. From it
`RunHasOneOwner` for finitely many runs. `StoreInv`: what the node holds in memory is
its disk, a half done change is the only one under way, the log is unbroken from what
was purged, and what was answered for is in it or applied; from it `StorageKeeps`.

**The policy hook** (`SeedGateProofs`). `HookInv`: each cached verdict is one that a
policy in force within the timeout before its entry gave on that very question, each
hold's approval is its own, and the tally counts what was answered on the wire. Proving
it for every lifetime showed that with a lifetime of zero an answer may be cached in the
tick its policy ends in, so `InForce` counts that tick. From it `PlaneIsAlwaysQuoted`.

**The broker** (`SeedGateProofs`). `BrokerInv` holds of each message alone (`Sound`:
its records, its session, the labels before the result, the listing it was checked
against) and of two things shared: an id handed out belongs to whom it was handed to,
over restarts, and what was seen changed is marked. From it `BrokerKeeps`, in every
configuration of the policy plane, the fail modes and the firewall.

**Evidence** (`CheckpointProofs`). `KeysInv`: one key is the newest, and while the task
awaits an answer every key is past its half life; a post the certifier has not seen
begin was sent before it came back; and unless such a post is awaited, some key is
valid at every second until the next one is installed and starts (`Arrives`), except
at the outage's end. A key's second half outlasts two posts and the clocks'
difference, its first half one post (`KeysAssumption`; a right clock, 0 in `Skews`, is
among them), hence `RecordsAreSigned`. `StreamInv` follows one checkpointer over a file that others
write to and cut: while the file is the one it knows, it has hashed exactly a prefix of
its lines (`Follows`), every record of the sidecar is true of them, the event the next
one links to is on disk or is the fragment the next emit closes (`NextOnDisk`), and an
emit between its look at the file and its append, or between append and hash, knows
what may have changed (`Writing`, `Hashing`). Of the sidecar `SideFollows` says that the
length the writer knows is where its last record ends, or, once a cut has failed, that
the records before that are within it; hence no cut reaches them (`CutLeaves`). From
them `ChainsHold`. The exception in
`LinkedToDisk` (section 3) was found here: the invariant failed without it.

**The Cloud sink** (`CheckpointProofs`). `SinkInv`: the seven places of the sink and the
batches on the wire hold disjoint sets of rows, each once (`Parted`); what is held,
answered for or dropped is what was recorded, nothing dropped is held, and what is both
held and answered for, or received twice, had an answer lost (`RowsKept`). Four lemmas
say what a move between places does (`MovedOver`, `SentOut`, `CameBack`, `QueueCapped`)
and each step is one of them. From it `SinkIsWhole`; the exit's count is at least the
rows left because a sequence has no more members than its length.

**Pairing and signed requests** (`ClusterLedgerProofs`). `PhoneInv`: a request acted on
that no restart forgot and that could still be delivered is in its device's ring
(`ActsOK`). A ring holds a nonce once, and behind an entry stand only requests accepted
after it, hence signed at most two windows before it (`InTurn`; a restored ring too,
since a restart keeps what is inside the window). All of a full ring was so signed within
four windows, and no device signs more than a ring's length in that time
(`RingSuffices`, a premise of the action that signs): an entry pushed out is too old to
be accepted again, by the pigeonhole `HeadIsSpent`. What a restart forgets is refused by
its start time, or was signed ahead of it and is counted (`forgot`). From it `DoorPairs`.

Sums are cardinalities of token sets throughout, so that adding and removing a
reservation are facts of `FiniteSetTheorems` and need no induction.

Only model-checked. Liveness (`GateOpens`, `EverythingArrives`, `EverythingRecovers`, the
kill of `ControlsStick`), which the prover does not do, nor anything with ENABLED.
`CacheSound` and `GateSound`, whose modules use recursive operators. `BilledRight`,
`PlaneAdds`, `ControlsStick` and the
verification of the audit chain, which fold over data and would need induction the
installed provers cannot instantiate. `WatchIsFair`, `IncidentsStand` and
`ManifestsHold` have no proof yet.

## 5. Not modelled

The formats (records, rows, tokens, provider protocols), HTTP and TLS, openraft
itself, SHA-256 and signatures, the content scanners (text to labels, without state),
price files, request translation and routing, the wasm policy, the admin and query
routes, reports, the command line, the eBPF radar, the SDKs and the dashboard.
`PROJECT.json` lists every part with its status and why. The largest files are mapped
only where they decide: `proxy.rs`, `store.rs`, `http.rs` and `agent_event.rs` are
for the most part encodings, queries and tests inside the source file, so the map
covers about a seventh of the repository's lines and a quarter of its executable
ones.

## 6. Plan

1. Proofs: `WatchIsFair` of `RunWatch`; `IncidentsStand` of `Incidents`.
2. A refinement for the replicated ledger: while consensus answers and parents come
   first, it implements `Escrow` too.
3. The parent's parents at `proxy.rs:3857`, as a property of `FrontDoor` with what the
   README of the repository says of it.
