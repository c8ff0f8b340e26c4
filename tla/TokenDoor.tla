----------------------------- MODULE TokenDoor -----------------------------
(***************************************************************************)
(* The MCP broker's doors: the agent-token door, the access-token (XAA)    *)
(* door, the client registry's proof door and the static keys, in the      *)
(* order handle asks them, and the delegation chain behind them.           *)
(*                                                                         *)
(* What they look at is shared and moves: the clock, two caches of proof   *)
(* ids, and a revocation list that a poller fetches out of band.  Parsing, *)
(* signatures and thumbprints are abstract: a token is the record of its   *)
(* claims, a proof of what it names; Credentials and Proofs hold those whose    *)
(* signature verifies.                                                     *)
(***************************************************************************)
EXTENDS Integers, Sequences, FiniteSets, SequencesExt

CONSTANTS
  Credentials,      \* [jti, typ, sub, client, cnf, act, iat, exp]
  Proofs,      \* [jti, jkt, iat, ath, fits]
  Requests,    \* [cred, token, proof, key, declared]
  Configs,     \* [mode, feed, open, clients, keys, listed, require_proof, xaa, callers];
               \* without feed the list is fresh and names none of the tokens
  Entries,     \* [jti, subject, issued_before, expires]
  None,
  PROOF_WINDOW_SECS, AGENT_TOKEN_LEEWAY_SECS, MAX_CHAIN_ENTRIES,
  REPLAY_CAP, MaxAge,
  MaxTime, MaxCopyAge, MaxBack

ASSUME TokenDoorAssumption ==
  /\ {PROOF_WINDOW_SECS, MAX_CHAIN_ENTRIES, REPLAY_CAP} \subseteq Nat \ {0}
  /\ {AGENT_TOKEN_LEEWAY_SECS, MaxAge, MaxTime, MaxCopyAge, MaxBack} \subseteq Nat
  /\ \A c \in Configs : c.callers \subseteq Requests /\ (c.open => c.mode = "off")
  /\ \A r \in Requests : /\ r.token \in Credentials \cup {None} /\ r.proof \in Proofs \cup {None}
                         /\ r.cred \in {"dpop", "bearer"} => r.token \in Credentials
  /\ \A p \in Proofs : p.iat \in Int
  /\ \A t \in Credentials : t.exp \in Int /\ \A u \in Credentials : u.jti = t.jti => u = t
  /\ \A e \in Entries : e.expires \in Int
  /\ None \notin Proofs \cup Credentials

VARIABLES
  clock,     \* this process's second
  latest,      \* history: the highest second it has read
  config,
  replay,    \* ReplayCache of the agent door and of the registry
  issued,    \* the issuer's revocations: [entry, since] (external)
  held,      \* Revocations.held: [entries, as_of, at]
  poll,      \* the poller: idle, asking or served
  last,      \* the last answer
  uses,      \* history: how often each cache took each proof for new, up to 2
  listed,    \* history: [jti, entry, as_of] of tokens refused because the list named them
  setback    \* history: the clock has been set back

doorvars == <<clock, latest, config, replay, issued, held, poll, last, uses, listed, setback>>

BEGINNING == -100 * PROOF_WINDOW_SECS
Generation == 2 * PROOF_WINDOW_SECS
NewCache == [started |-> BEGINNING, current |-> {}, previous |-> {}]
Idling == [stage |-> "idle"]
NoAnswer == [via |-> "none", who |-> None, request |-> None]

DoorInit ==
  /\ clock = 1 /\ latest = 1
  /\ config \in Configs
  /\ replay = [agent |-> NewCache, registry |-> NewCache]
  /\ issued = {} /\ poll = Idling
  /\ held = [entries |-> {}, as_of |-> 1, at |-> 1]
  /\ last = NoAnswer /\ uses = [c \in {"agent", "registry"} |-> [p \in Proofs |-> 0]] /\ listed = {} /\ setback = FALSE

-----------------------------------------------------------------------------
(* ReplayCache.                                                            *)

(* Mutant: a generation is one window long. *)
rotated_each_window(g) ==
  IF clock - g.started >= PROOF_WINDOW_SECS
  THEN [started |-> clock, current |-> {},
        previous |-> IF clock - g.started >= 2 * PROOF_WINDOW_SECS THEN {} ELSE g.current]
  ELSE g

(* The two generations at this second. *)
rotated(g) ==
  IF clock - g.started >= Generation
  THEN [started |-> clock, current |-> {},
        previous |-> IF clock - g.started >= 2 * Generation THEN {} ELSE g.current]
  ELSE g

(* check_and_record: whether the id is new, and the cache afterwards. *)
first_use(cache, jti) ==
  LET g == rotated(replay[cache])
  IN  jti \notin g.current \cup g.previous /\ Cardinality(g.current) < REPLAY_CAP

RecordUse(cache, jti) ==
  LET g == rotated(replay[cache])
  IN  [replay EXCEPT ![cache] = IF first_use(cache, jti) THEN [g EXCEPT !.current = @ \cup {jti}] ELSE g]

Abs(n) == IF n < 0 THEN -n ELSE n

(* verify_proof. *)
verify_proof(p) == p # None /\ p.fits /\ Abs(clock - p.iat) <= PROOF_WINDOW_SECS

-----------------------------------------------------------------------------
(* Revocations.                                                            *)

covers(e, jti, party, iat) ==
  \/ e.jti # None /\ e.jti = jti
  \/ e.subject # None /\ e.subject = party /\ iat <= e.issued_before

live_at(e) == e.expires = 0 \/ e.expires > clock

Named(jti, party, iat) == \E e \in held.entries : live_at(e) /\ covers(e, jti, party, iat)

(* check: a hit whatever its age; a miss while the list is fresh enough;   *)
(* past that what the fail mode says, which is closed where agent tokens   *)
(* are taken and the operator's word elsewhere.                            *)
revoked(jti, party, iat) ==
  config.feed /\ (Named(jti, party, iat) \/ (clock - held.at > MaxAge /\ ~config.open))

(* Mutant: any cursor is taken. *)
install_any(snapshot, at) == [entries |-> snapshot.entries, as_of |-> snapshot.as_of, at |-> at]

(* Mutant: the age counts from the answer. *)
install_aged_later(snapshot, at) ==
  IF snapshot.as_of < held.as_of THEN held
  ELSE [entries |-> snapshot.entries, as_of |-> snapshot.as_of, at |-> clock]

(* install: never an earlier moment than the one held; one of the same     *)
(* second is taken as it is, with or without what the held list names.     *)
install(snapshot, at) ==
  IF snapshot.as_of < held.as_of THEN held
  ELSE [entries |-> snapshot.entries, as_of |-> snapshot.as_of, at |-> at]

-----------------------------------------------------------------------------
(* Credentials.                                                                 *)

IsAgentToken(t) == t.typ = "at+jwt"

Agents == {"agent1", "agent2"}

(* chain_of: root first, no longer than the cap, nobody twice. *)
chain_of(t) == <<t.sub>> \o Reverse(t.act)
ChainFits(t) ==
  /\ Len(t.act) <= MAX_CHAIN_ENTRIES - 1
  /\ IsInjective(chain_of(t))

(* An entry says until when a token it could match might be valid, or 0. *)
ASSUME IssuerAssumption ==
  \A e \in Entries, t \in Credentials :
    (\E k \in DOMAIN chain_of(t) : covers(e, t.jti, chain_of(t)[k], t.iat)) =>
      e.expires = 0 \/ e.expires >= t.exp + IF IsAgentToken(t) THEN AGENT_TOKEN_LEEWAY_SECS ELSE 0

(* verify_agent_token and agent_claims. *)
verify_agent_token(t, p) ==
  /\ clock < t.exp + AGENT_TOKEN_LEEWAY_SECS /\ t.iat <= clock + AGENT_TOKEN_LEEWAY_SECS
  /\ t.sub \in Agents /\ t.client = t.sub /\ t.act = <<>> /\ t.cnf # None
  /\ verify_proof(p) /\ p.jkt = t.cnf /\ p.ath = t.jti
  /\ ~revoked(t.jti, t.sub, t.iat)

(* verify_delegation: the list is asked about everybody in the chain. *)
verify_delegation(t, p) ==
  /\ ~IsAgentToken(t) /\ clock < t.exp /\ t.cnf # None
  /\ verify_proof(p) /\ p.jkt = t.cnf
  /\ ChainFits(t)
  /\ \A i \in DOMAIN chain_of(t) : ~revoked(t.jti, chain_of(t)[i], t.iat)

(* verify_access_token: bound to nothing, minted for a client, acting for  *)
(* somebody, and an agent at the leaf.                                     *)
verify_access_token(t) ==
  /\ clock < t.exp /\ t.client # None /\ t.cnf = None /\ t.act # <<>>
  /\ ChainFits(t) /\ Last(chain_of(t)) \in Agents
  /\ \A i \in DOMAIN chain_of(t) : ~revoked(t.jti, chain_of(t)[i], t.iat)

-----------------------------------------------------------------------------
Answer(r, via, who) == last' = [via |-> via, who |-> who, request |-> r]
Refuse == last' = [NoAnswer EXCEPT !.via = "refused"]
Used(u, cache, p) == [u EXCEPT ![cache][p] = IF @ < 2 THEN @ + 1 ELSE @]

(* A refusal because the held list names a party of the token. *)
Naming(t) ==
  {e \in held.entries : live_at(e) /\ \E i \in DOMAIN chain_of(t) : covers(e, t.jti, chain_of(t)[i], t.iat)}
Noted(t) ==
  listed' = IF t = None \/ ~config.feed THEN listed
            ELSE listed \cup {[jti |-> t.jti, entry |-> e, as_of |-> held.as_of] : e \in Naming(t)}

AgentDoor(r) == config.mode # "off" /\ r.cred = "dpop" /\ IsAgentToken(r.token)
XaaDoor(r) == config.xaa /\ r.cred = "bearer"

(* agenttoken::admit and what handle makes of it: judged alone. *)
handle_agent(r) ==
  LET good == r.key = None /\ verify_agent_token(r.token, r.proof)
  IN  /\ AgentDoor(r)
      /\ \/ /\ good /\ first_use("agent", r.proof.jti)
            /\ Answer(r, "agent", r.token.sub) /\ uses' = Used(uses, "agent", r.proof)
            /\ replay' = RecordUse("agent", r.proof.jti)
         \/ /\ good /\ ~first_use("agent", r.proof.jti)
            /\ Refuse /\ UNCHANGED uses
            /\ replay' = RecordUse("agent", r.proof.jti)
         \/ ~good /\ Refuse /\ UNCHANGED <<uses, replay>>

(* The XAA branch: an access token beside any other credential is refused. *)
handle_xaa(r) ==
  /\ ~AgentDoor(r) /\ XaaDoor(r)
  /\ UNCHANGED <<uses, replay>>
  /\ IF /\ r.key = None /\ r.proof = None
        /\ verify_access_token(r.token)
        /\ r.declared \in {<<>>, chain_of(r.token)}
     THEN Answer(r, "xaa", Last(chain_of(r.token)))
     ELSE Refuse

(* mcpdoor::admit.  A proof is judged by the registry and by nothing else. *)
ByProof(r) == config.clients # {} /\ r.proof # None
ProofKnown(r) == verify_proof(r.proof) /\ r.proof.jkt \in config.clients
ByKey(r) == ~ByProof(r) /\ ~config.require_proof /\ config.keys # {} /\ r.key \in config.keys
Open(r) == ~ByProof(r) /\ ~config.require_proof /\ config.keys = {} /\ config.clients = {}

(* Whether a caller that gets past the door is past handle's own checks.   *)
Required(r) == config.mode = "require" /\ ~ByProof(r) /\ ~(ByKey(r) /\ r.key \in config.listed)

(* chainproof::resolve: a chain is proven, or it is only claimed.  Behind  *)
(* the agent-token switch its proof is single-use too.                     *)
Presents(r) == r.cred = "dpop"
ChainGood(r) ==
  /\ verify_delegation(r.token, r.proof)
  /\ config.mode # "off" => r.proof.ath \in {None, r.token.jti}
ChainStands(r) == r.declared \in {<<>>, chain_of(r.token)}

Behind(r, who) ==
  IF ~Presents(r) THEN Answer(r, "claimed", who)
  ELSE IF ChainGood(r) /\ (config.mode # "off" => first_use("agent", r.proof.jti)) /\ ChainStands(r)
       THEN Answer(r, "proven", who)
       ELSE Refuse

(* The proof's id is recorded once the token has been verified. *)
BehindReplay(r, base) ==
  IF Presents(r) /\ ChainGood(r) /\ config.mode # "off"
  THEN [base EXCEPT !.agent = RecordUse("agent", r.proof.jti).agent] ELSE base

BehindUses(r, base) ==
  IF Presents(r) /\ ChainGood(r) /\ config.mode # "off" /\ first_use("agent", r.proof.jti)
  THEN Used(base, "agent", r.proof) ELSE base

handle_door(r) ==
  LET inside == \/ ByProof(r) /\ ProofKnown(r) /\ first_use("registry", r.proof.jti)
                \/ ByKey(r)
                \/ Open(r) /\ ~config.xaa
      base == IF ByProof(r) /\ ProofKnown(r) THEN RecordUse("registry", r.proof.jti) ELSE replay
      who == IF ByProof(r) THEN r.proof.jkt ELSE r.key
  IN  /\ ~AgentDoor(r) /\ ~XaaDoor(r)
      /\ \/ /\ inside /\ ~Required(r)
            /\ Behind(r, who)
            /\ replay' = BehindReplay(r, base)
            /\ uses' = BehindUses(r, IF ByProof(r) THEN Used(uses, "registry", r.proof) ELSE uses)
         \/ /\ ~(inside /\ ~Required(r))
            /\ Refuse
            /\ replay' = base
            /\ UNCHANGED uses

handle(r) ==
  /\ handle_agent(r) \/ handle_xaa(r) \/ handle_door(r)
  /\ IF last'.via = "refused" THEN Noted(r.token) ELSE UNCHANGED listed
  /\ UNCHANGED <<clock, latest, config, issued, held, poll, setback>>

-----------------------------------------------------------------------------
Quiet == last' = NoAnswer

(* Seconds pass, one or several between two requests. *)
Pass(n) ==
  /\ clock + n <= MaxTime
  /\ clock' = clock + n
  /\ latest' = IF clock' > latest THEN clock' ELSE latest
  /\ Quiet
  /\ UNCHANGED <<config, replay, issued, held, poll, uses, listed, setback>>

(* The host's clock is set back (bounded: not where the list is polled).  *)
StepBack(n) ==
  /\ ~config.feed
  /\ latest - clock + n <= MaxBack /\ clock - n >= 1
  /\ clock' = clock - n
  /\ setback' = TRUE
  /\ Quiet
  /\ UNCHANGED <<latest, config, replay, issued, held, poll, uses, listed>>

(* The issuer revokes (external). *)
Revoke(e) ==
  /\ config.feed /\ e \notin {i.entry : i \in issued}
  /\ issued' = issued \cup {[entry |-> e, since |-> clock]}
  /\ Quiet
  /\ UNCHANGED <<clock, latest, config, replay, held, poll, uses, listed, setback>>

(* What a list of one second may name. *)
IssuedBefore(second) == {i.entry : i \in {j \in issued : j.since < second}}
Lists(second) ==
  {IssuedBefore(second) \cup late : late \in SUBSET {i.entry : i \in {j \in issued : j.since = second}}}

(* spawn_poller: it reads the clock, asks, and installs what it was given, *)
(* or was given nothing.  The body may be a copy made a while ago: it      *)
(* names all that was revoked before its second, and of that second's      *)
(* revocations those made before it, or before the copy it comes from.     *)
spawn_poller ==
  /\ Quiet
  /\ UNCHANGED <<clock, latest, config, replay, issued, uses, listed, setback>>
  /\ \/ /\ poll.stage = "idle" /\ config.feed
        /\ poll' = [stage |-> "asking", at |-> clock] /\ UNCHANGED held
     \/ /\ poll.stage = "asking"
        /\ \E age \in 0 .. MaxCopyAge : \E named \in Lists(clock - age) :
             poll' = [stage |-> "served", at |-> poll.at, snapshot |-> [as_of |-> clock - age, entries |-> named]]
        /\ UNCHANGED held
     \/ /\ poll.stage = "served"
        /\ held' = install(poll.snapshot, poll.at) /\ poll' = Idling
     \/ poll.stage # "idle" /\ poll' = Idling /\ UNCHANGED held

DoorNext ==
  \/ \E r \in config.callers : handle(r)
  \/ \E n \in 1 .. MaxTime : Pass(n) \/ StepBack(n)
  \/ \E e \in Entries : Revoke(e)
  \/ spawn_poller

DoorSpec == DoorInit /\ [][DoorNext]_doorvars
-----------------------------------------------------------------------------
(* A proof that could still be fresh at the latest second the process has  *)
(* read is still remembered, however the clock went back in between.       *)
RememberedWhileFresh ==
  \A c \in DOMAIN uses : \A p \in Proofs :
    uses[c][p] > 0 /\ p.iat + PROOF_WINDOW_SECS >= latest => p.jti \in replay[c].current \cup replay[c].previous

(* While the clock has never gone back, one cache lets a proof through     *)
(* once.                                                                   *)
SingleUse ==
  ~setback => \A c \in DOMAIN uses : \A p \in Proofs : uses[c][p] <= 1

(* Where the list fails closed, a token the issuer revoked is let through  *)
(* by no door once the list may not be older than that, a copy's age       *)
(* included, whatever the polls did.                                       *)
RevokedBites ==
  ~config.open => \A i \in issued :
    /\ last.via \in {"agent", "xaa", "proven"}
    /\ \E k \in DOMAIN chain_of(last.request.token) :
         covers(i.entry, last.request.token.jti, chain_of(last.request.token)[k], last.request.token.iat)
    => clock <= i.since + MaxAge + MaxCopyAge

(* Only the very second un-revokes: a token refused because the list named *)
(* it is let through by no door afterwards, whatever the fail mode, but on *)
(* another list of that list's own second that does not have the entry.    *)
NeverUnrevoked ==
  last.via \in {"agent", "xaa", "proven"} =>
    \A n \in listed : n.jti = last.request.token.jti => held.as_of = n.as_of /\ n.entry \notin held.entries

(* A token has one door.  One bound to a key passes none without a proof   *)
(* by that key, and an agent's own token stands for nobody else: a request *)
(* that presents it gets in by it or not at all.                           *)
OneDoorEach ==
  last.via \in {"agent", "xaa", "proven", "claimed"} /\ last.request.token # None =>
    LET t == last.request.token  p == last.request.proof
    IN  /\ t.cnf # None /\ last.via # "claimed" => p # None /\ p.jkt = t.cnf
        /\ IsAgentToken(t) /\ config.mode # "off" /\ last.request.cred = "dpop" =>
             last.via = "agent" /\ last.who = t.sub /\ p.ath = t.jti
        /\ last.via = "xaa" => t.client # None /\ t.cnf = None

(* A credential at the door, whole: a proof is remembered while it is      *)
(* fresh and let through once, a revocation bites in time, and for good    *)
(* once its second is over, and a token has one door.                      *)
DoorHolds == RememberedWhileFresh /\ SingleUse /\ RevokedBites /\ NeverUnrevoked /\ OneDoorEach
=============================================================================
