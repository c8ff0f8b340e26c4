----------------------------- MODULE FrontDoor -----------------------------
(***************************************************************************)
(* The gateway's own door, from the credential to the unit a call is       *)
(* charged to: client keys, agent tokens that TokenDoor has verified, the  *)
(* owner of the run, the owner of its parent, the identity map, and the    *)
(* limiter that keeps refused credentials from flooding the event bus.     *)
(*                                                                         *)
(* Calls run concurrently: each takes the owners' lock, the ledger's and   *)
(* the limiter's in turn, never two at once.  An agent id and a key id are *)
(* sequences, <<>> for no header; secrets are compared whole, as their     *)
(* digests are.                                                            *)
(***************************************************************************)
EXTENDS Integers, Sequences, FiniteSets, SequencesExt

CONSTANTS
  Slots,         \* the calls in flight
  Arrivals,      \* [fuse, own, token, agent, leaf, run, parent]
  Doors,      \* [auth, brokers, require, listed, strict, senders], and
                 \* the bounds of its instance: arrivals, and the last moment
  ClientKeys,    \* secret -> key id
  Bindings,      \* IdentityMap.keys: key id -> [unit, agents, may_parent]
  PrefixList,      \* IdentityMap.prefixes, in document order: [pattern, unit]
  DoorRuns, CloudRuns,  \* CloudRuns: those an operator gave a budget
  Nothing,
  MINUTE, PER_MINUTE_CAP, SOURCES_CAP

ASSUME FrontDoorAssumption ==
  /\ {MINUTE, PER_MINUTE_CAP, SOURCES_CAP} \subseteq Nat \ {0}
  /\ CloudRuns \subseteq DoorRuns
  /\ \A d \in Doors : d.senders \subseteq Arrivals /\ {d.arrivals, d.moment} \subseteq Nat
  /\ \A a \in Arrivals : a.run \in DoorRuns /\ a.parent \in DoorRuns \cup {Nothing}
  /\ IsFiniteSet(Slots)

VARIABLES
  door,     \* the configuration of this process
  inflight,      \* Slots -> the call there, FreeSlot when there is none
  run_owners, \* RunOwners.owners
  ledger,     \* run -> [open, parent, admitted]
  stats,      \* KeyStats: principal -> [calls, mismatches], and unauthorized
  window,     \* refusedkeys::Window
  moment,     \* now_millis
  arrived,    \* how many calls came
  charged,    \* history: [who, unit, barred] of the calls let through
  refusals,   \* history: source -> refusals, and what the bus was told of
  reports,    \* history: the events, [at, source]
  forgot      \* history: the limiter has started over, or the clock went back

frontvars == <<door, inflight, run_owners, ledger, stats, window, moment, arrived,
               charged, refusals, reports, forgot>>

FreeSlot == [stage |-> "free"]
Key(k) == <<"key", k>>
Token(s) == <<"tok", s>>

FrontInit ==
  /\ door \in Doors
  /\ inflight = [c \in Slots |-> FreeSlot]
  /\ run_owners = [r \in DoorRuns |-> Nothing]
  /\ ledger = [r \in DoorRuns |-> [open |-> FALSE, parent |-> Nothing, admitted |-> FALSE]]
  /\ stats = [keys |-> <<>>, unauthorized |-> 0]
  /\ window = [started |-> 0, emitted |-> 0, sources |-> <<>>]
  /\ moment = MINUTE /\ arrived = 0
  /\ charged = {} /\ refusals = <<>> /\ reports = <<>> /\ forgot = {}

-----------------------------------------------------------------------------
(* The identity map. *)

matches(pattern, agent) ==
  IF pattern.star THEN IsPrefix(pattern.text, agent) ELSE pattern.text = agent

prefix_unit(agent) ==
  LET hits == {i \in DOMAIN PrefixList : matches(PrefixList[i].pattern, agent)}
  IN  IF hits = {} THEN Nothing
      ELSE PrefixList[CHOOSE i \in hits : \A j \in hits : i <= j].unit

MapEnabled == DOMAIN Bindings # {} \/ PrefixList # <<>>

(* resolve: Nothing as key is unkeyed traffic. *)
resolve(key, agent) ==
  IF key \in DOMAIN Bindings
  THEN [unit |-> Bindings[key].unit,
        mismatch |-> Bindings[key].agents # {}
                     /\ (agent = <<>> \/ ~\E p \in Bindings[key].agents : matches(p, agent))]
  ELSE [unit |-> prefix_unit(agent), mismatch |-> key # Nothing /\ MapEnabled]

units_naming(agent) ==
  {Bindings[k].unit : k \in {b \in DOMAIN Bindings : \E p \in Bindings[b].agents : matches(p, agent)}}
  \cup {PrefixList[i].unit : i \in {j \in DOMAIN PrefixList : matches(PrefixList[j].pattern, agent)}}

contradiction(token, header) ==
  \/ header # <<>> /\ header # token.subject
  \/ units_naming(token.subject) # {} /\ token.unit \notin units_naming(token.subject)

may_parent(parentKey, child) ==
  parentKey \in DOMAIN Bindings /\ child \in Bindings[parentKey].may_parent

-----------------------------------------------------------------------------
(* The limiter of refused credentials. *)

With(f, x, v) == [y \in DOMAIN f \cup {x} |-> IF y = x THEN v ELSE f[y]]

Due(e) == e.last = Nothing \/ moment - e.last >= MINUTE

Full(source) == Cardinality(DOMAIN window.sources) >= SOURCES_CAP /\ source \notin DOMAIN window.sources
MinuteOver == moment - window.started >= MINUTE \/ moment < window.started

(* Mutant: the limiter starts the minute over with its map. *)
current_window_whole(source) ==
  LET turn == Full(source) \/ MinuteOver
  IN  [started |-> IF turn THEN moment ELSE window.started,
       emitted |-> IF turn THEN 0 ELSE window.emitted,
       sources |-> IF Full(source) THEN <<>> ELSE window.sources]

(* The window a refusal from source is counted in: a new minute of the     *)
(* gateway's limit, and an empty map for one source too many.              *)
current_window(source) ==
  [started |-> IF MinuteOver THEN moment ELSE window.started,
   emitted |-> IF MinuteOver THEN 0 ELSE window.emitted,
   sources |-> IF Full(source) THEN <<>> ELSE window.sources]

Entry(w, source) ==
  IF source \in DOMAIN w.sources THEN w.sources[source] ELSE [last |-> Nothing, held |-> 0]

(* Mutant: a refusal held back by the gateway's limit is not counted. *)
admit_dropping(source) ==
  LET w == current_window(source)  e == Entry(w, source)
      goes == Due(e) /\ w.emitted < PER_MINUTE_CAP
      counts == IF w.emitted < PER_MINUTE_CAP THEN 1 ELSE 0
      kept == IF goes THEN [last |-> moment, held |-> 0] ELSE [e EXCEPT !.held = @ + counts]
  IN  [window |-> [w EXCEPT !.sources = With(@, source, kept), !.emitted = IF goes THEN @ + 1 ELSE @],
       event |-> goes, unreported |-> e.held]

(* RefusedKeys::admit, under its lock: the window after it, and whether    *)
(* the refusal goes on the bus with how many held back before it.          *)
admit(source) ==
  LET w == current_window(source)  e == Entry(w, source)
      goes == Due(e) /\ w.emitted < PER_MINUTE_CAP
      kept == IF goes THEN [last |-> moment, held |-> 0] ELSE [e EXCEPT !.held = @ + 1]
  IN  [window |-> [w EXCEPT !.sources = With(@, source, kept), !.emitted = IF goes THEN @ + 1 ELSE @],
       event |-> goes, unreported |-> e.held]

(* report_refused_key and report_caller_provider_credential. *)
report(source) ==
  LET a == admit(source)
      old == IF source \in DOMAIN refusals THEN refusals[source] ELSE [count |-> 0, told |-> 0]
  IN  /\ window' = a.window
      /\ reports' = IF a.event THEN Append(reports, [at |-> moment, source |-> source]) ELSE reports
      /\ refusals' = With(refusals, source,
                          [count |-> old.count + 1,
                           told |-> old.told + (IF a.event THEN 1 + a.unreported ELSE 0)])
      /\ forgot' = forgot \cup (IF Full(source) THEN {"cleared"} ELSE {})

-----------------------------------------------------------------------------
(* Who is calling. *)

KeyOf(secret) == IF secret \in DOMAIN ClientKeys THEN ClientKeys[secret] ELSE Nothing

(* resolve_client_key, with keys configured: Nothing refuses. *)
resolve_client_key(r) ==
  IF r.fuse = Nothing /\ door.brokers THEN KeyOf(r.own) ELSE KeyOf(r.fuse)

refused_caller_credential(r) ==
  door.brokers /\ r.own # Nothing /\ (~door.auth \/ KeyOf(r.own) = Nothing)

(* The doors that admit a caller: [principal, key, token]. *)
Admitted(r) ==
  IF r.token # Nothing
  THEN {[who |-> Token(r.token.subject), key |-> Token(r.token.subject), token |-> r.token]}
  ELSE IF ~door.auth
  THEN IF door.require THEN {} ELSE {[who |-> Nothing, key |-> Nothing, token |-> Nothing]}
  ELSE LET k == resolve_client_key(r)
       IN IF k = Nothing \/ (door.require /\ k \notin door.listed) THEN {}
          ELSE {[who |-> Key(k), key |-> k, token |-> Nothing]}

(* A known key that the list of static keys leaves out is not reported. *)
Unlisted(r) ==
  r.token = Nothing /\ door.auth /\ door.require /\ resolve_client_key(r) # Nothing

Counted(s, who, field) ==
  IF who = Nothing THEN s
  ELSE LET k == IF who \in DOMAIN s.keys THEN s.keys[who] ELSE [calls |-> 0, mismatches |-> 0]
       IN  [s EXCEPT !.keys = With(@, who, [k EXCEPT ![field] = @ + 1])]

QuietBus == UNCHANGED <<window, refusals, reports, forgot>>

(* handle, up to the claim: the credential is refused or the call counted. *)
resolve_caller(c, r) ==
  /\ inflight[c] = FreeSlot /\ arrived < door.arrivals
  /\ arrived' = arrived + 1
  /\ \/ /\ refused_caller_credential(r)
        /\ report(<<"provider-credential", r.agent>>)
        /\ UNCHANGED <<inflight, stats>>
     \/ /\ ~refused_caller_credential(r) /\ Admitted(r) = {}
        /\ stats' = [stats EXCEPT !.unauthorized = @ + 1]
        /\ IF Unlisted(r) THEN QuietBus
           ELSE report(<<IF r.fuse = Nothing THEN "missing_key" ELSE r.fuse, r.agent>>)
        /\ UNCHANGED inflight
     \/ /\ ~refused_caller_credential(r)
        /\ \E caller \in Admitted(r) :
             /\ inflight' = [inflight EXCEPT ![c] =
                            [stage |-> "claim", req |-> r, caller |-> caller, foreign |-> {}]]
             /\ stats' = Counted(stats, caller.who, "calls")
        /\ QuietBus
  /\ UNCHANGED <<door, run_owners, ledger, moment, charged>>

-----------------------------------------------------------------------------
(* Whose run, whose parent. *)

Foreign(who, key, owner) ==
  /\ who # Nothing /\ owner \notin {Nothing, who}
  /\ ~(owner[1] = "key" /\ may_parent(owner[2], key))

foreign_parent_refusal(c, parent) ==
  LET call == inflight[c]
  IN  parent \notin {Nothing, call.req.run} /\ Foreign(call.caller.who, call.caller.key, run_owners[parent])

Leaves(c) == inflight' = [inflight EXCEPT ![c] = FreeSlot]
Goes(c, stage) == inflight' = [inflight EXCEPT ![c].stage = stage]

(* Mutant: the refusal is counted where it is made and where it is answered. *)
foreign_run_refused_twice(c) ==
  LET who == inflight[c].caller.who
  IN  /\ stats' = Counted(Counted(stats, who, "mismatches"), who, "mismatches")
      /\ Leaves(c)

(* foreign_run_refused: a 403, counted against the caller's key. *)
foreign_run_refused(c) ==
  /\ stats' = Counted(stats, inflight[c].caller.who, "mismatches")
  /\ Leaves(c)

(* The claim, and what history keeps of it: whether the parent the call    *)
(* names, or the one its run already has, was somebody else's by then.     *)
ClaimRun(c) ==
  LET call == inflight[c]  r == call.req.run  who == call.caller.who
      barred == {p \in {call.req.parent, ledger[r].parent} \ {Nothing, r} :
                   Foreign(who, call.caller.key, run_owners[p])}
  IN  /\ call.stage = "claim"
      /\ \/ /\ who # Nothing /\ run_owners[r] \notin {Nothing, who}
            /\ foreign_run_refused(c)
            /\ UNCHANGED run_owners
         \/ /\ who = Nothing \/ run_owners[r] \in {Nothing, who}
            /\ run_owners' = IF who = Nothing THEN run_owners ELSE [run_owners EXCEPT ![r] = who]
            /\ inflight' = [inflight EXCEPT ![c].stage = "declared", ![c].foreign = barred]
            /\ UNCHANGED stats
      /\ UNCHANGED <<door, ledger, window, moment, arrived, charged, refusals, reports, forgot>>

CheckDeclared(c) ==
  LET p == inflight[c].req.parent
  IN  /\ inflight[c].stage = "declared"
      /\ \/ foreign_parent_refusal(c, p) /\ foreign_run_refused(c)
         \/ ~foreign_parent_refusal(c, p) /\ Goes(c, "open") /\ UNCHANGED stats
      /\ UNCHANGED <<door, run_owners, ledger, window, moment, arrived, charged, refusals, reports, forgot>>

(* The parent is opened at its Cloud budget on first sight, the run is     *)
(* opened or its parent adopted; a parent that would move is a refusal.    *)
OpenRun(c) ==
  LET r == inflight[c].req.run  p == inflight[c].req.parent
      seen == IF p # Nothing /\ p # r /\ p \in CloudRuns
              THEN [ledger EXCEPT ![p].open = TRUE] ELSE ledger
      held == seen[r].parent
      moves == p = r \/ (seen[r].open /\ p # Nothing /\ p # held
                         /\ (held # Nothing \/ seen[r].admitted))
  IN  /\ inflight[c].stage = "open"
      /\ \/ moves /\ ledger' = seen /\ Leaves(c)
         \/ /\ ~moves
            /\ ledger' = [seen EXCEPT ![r].open = TRUE, ![r].parent = IF p = Nothing THEN held ELSE p]
            /\ Goes(c, "held")
      /\ UNCHANGED <<door, run_owners, stats, window, moment, arrived, charged, refusals, reports, forgot>>

(* A call that declares no parent rolls up into the one the ledger holds,  *)
(* which may have found an owner since.                                    *)
CheckHeld(c) ==
  LET call == inflight[c]  p == ledger[call.req.run].parent
  IN  /\ call.stage = "held"
      /\ \/ /\ call.req.parent = Nothing /\ foreign_parent_refusal(c, p)
            /\ foreign_run_refused(c)
         \/ /\ ~(call.req.parent = Nothing /\ foreign_parent_refusal(c, p))
            /\ Goes(c, "charge") /\ UNCHANGED stats
      /\ UNCHANGED <<door, run_owners, ledger, window, moment, arrived, charged, refusals, reports, forgot>>

-----------------------------------------------------------------------------
(* The unit, and the strict modes. *)

Identity(call) ==
  LET t == call.caller.token
      found == IF t # Nothing
               THEN [unit |-> t.unit, mismatch |-> contradiction(t, call.req.agent)]
               ELSE resolve(call.caller.key, call.req.agent)
      name == IF t # Nothing THEN t.subject ELSE call.req.agent
      leaf == call.req.leaf
  IN  [found EXCEPT !.mismatch = @ \/ (leaf # Nothing /\ name # <<>> /\ name # leaf)]

Strict(call) == IF call.caller.token # Nothing THEN "Enforce" ELSE door.strict

(* The identity check and, past it, the reservation on the unit and on the *)
(* run and its parent.  A parent that nobody opened admits nothing.        *)
Charge(c) ==
  LET call == inflight[c]  id == Identity(call)  r == call.req.run  p == ledger[r].parent
  IN  /\ call.stage = "charge"
      /\ stats' = IF id.mismatch /\ Strict(call) # "Off"
                  THEN Counted(stats, call.caller.who, "mismatches") ELSE stats
      /\ \/ id.mismatch /\ Strict(call) = "Enforce" /\ UNCHANGED <<ledger, charged>>
         \/ /\ ~(id.mismatch /\ Strict(call) = "Enforce")
            /\ p # Nothing /\ ~ledger[p].open
            /\ UNCHANGED <<ledger, charged>>
         \/ /\ ~(id.mismatch /\ Strict(call) = "Enforce")
            /\ p # Nothing => ledger[p].open
            /\ ledger' = [x \in DoorRuns |-> IF x \in {r, p} THEN [ledger[x] EXCEPT !.admitted = TRUE] ELSE ledger[x]]
            /\ charged' = charged \cup {[who |-> call.caller.who, unit |-> id.unit, barred |-> p \in call.foreign]}
      /\ Leaves(c)
      /\ UNCHANGED <<door, run_owners, window, moment, arrived, refusals, reports, forgot>>

(* The wall clock: it runs, and once it may be set back. *)
MomentPasses ==
  /\ \/ moment < door.moment /\ moment' = moment + 1 /\ UNCHANGED forgot
     \/ moment > MINUTE /\ "back" \notin forgot /\ moment' = moment - 1 /\ forgot' = forgot \cup {"back"}
  /\ UNCHANGED <<door, inflight, run_owners, ledger, stats, window, arrived, charged, refusals, reports>>

FrontNext ==
  \/ \E c \in Slots :
       \/ \E r \in door.senders : resolve_caller(c, r)
       \/ ClaimRun(c) \/ CheckDeclared(c) \/ OpenRun(c) \/ CheckHeld(c) \/ Charge(c)
  \/ MomentPasses

FrontSpec == FrontInit /\ [][FrontNext]_frontvars
-----------------------------------------------------------------------------
(* Under enforce, a client key spends on one unit, whatever agent id its   *)
(* calls claim: it cannot move its spend by renaming itself.               *)
SpendStays ==
  door.strict = "Enforce" =>
    \A x, y \in charged : x.who = y.who /\ x.who # Nothing /\ x.who[1] = "key" => x.unit = y.unit

(* No call is charged to a parent run that already was somebody else's,    *)
(* without leave, when the call came: not when the call names it, and not  *)
(* when the ledger has held it since before it had an owner.  A parent that *)
(* another call of the same key brings in meanwhile is not meant.          *)
ParentGaveLeave == \A x \in charged : ~x.barred

(* Every refused credential is on the bus, as an event or in the count of  *)
(* the next one, as long as the limiter has not started its map over.      *)
RefusalsAccounted ==
  "cleared" \notin forgot =>
    \A s \in DOMAIN refusals : refusals[s].count = refusals[s].told + window.sources[s].held

(* A scan cannot flood the bus: with a clock that only runs forward, no    *)
(* interval of a minute holds more than two minutes' worth of events,      *)
(* however many sources it makes up.                                       *)
ScanNeverFloods ==
  "back" \notin forgot =>
    \A i \in DOMAIN reports :
      Cardinality({j \in DOMAIN reports : reports[j].at \in reports[i].at .. reports[i].at + MINUTE - 1})
        <= 2 * PER_MINUTE_CAP

(* The report on a key never counts more identity mismatches than calls:   *)
(* a call that is refused for its run or its parent is not refused again.  *)
MismatchesAreCalls == \A k \in DOMAIN stats.keys : stats.keys[k].mismatches <= stats.keys[k].calls

(* The caller pays: on its own unit, under parents that gave leave, and    *)
(* each call counts against a key once.                                    *)
CallerPays == SpendStays /\ ParentGaveLeave /\ MismatchesAreCalls

(* The limiter on refused credentials, whole: nothing it holds back is     *)
(* lost from the count, and no scan floods the bus.                        *)
RefusalsHold == RefusalsAccounted /\ ScanNeverFloods
=============================================================================
