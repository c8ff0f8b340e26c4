---------------------------- MODULE AuditManifest ----------------------------
(* The control plane's audit book: one hash chain per organisation, the    *)
(* snapshot that keeps it, and the manifest that attests its tip, signed   *)
(* in this process or by keyryx, which is asked over the network while the *)
(* chain goes on growing.                                                  *)
(*                                                                         *)
(* SHA-256 and ES256 are taken at their word: a hash is its pre-image, and *)
(* a signature is the bytes it is over.  Texts are sequences of symbols,   *)
(* so that a separator inside a field is one the join can confuse.         *)
EXTENDS Integers, FiniteSets, SequencesExt

CONSTANTS
  Orgs,                       \* organisations
  MaxInFlight,                \* bound: requests for a manifest in flight at once
  Times,                      \* what the wall clock may say: it may be set back
  Mutations,                  \* what an entry may say: records of a subject and a detail
  REUSE_SECS, REUSE_CAP,      \* how long, and for how many orgs, a signature is reused
  MaxEntries, MaxManifests, MaxLoads     \* bounds

VARIABLES
  config,      \* the environment the plane was started with
  trail,       \* org -> its entries, oldest first
  saved,       \* org -> the entries of the snapshot
  reuse,       \* org -> the manifest keyryx signed for it last
  viewer,      \* request -> what it waits for
  life,        \* how many times the plane was loaded from a snapshot
  served       \* history: every manifest served, with the tip it was asked for
               \* and the entries it attested

auditvars == <<config, trail, saved, reuse, viewer, life, served>>

SEP == "sep"
Hidden == "fffd"
LocalKey == "local"
HeldKey == "k1"
Keys == {HeldKey, "k2"}
NoKid == <<>>
NoViewer == [at |-> "idle"]

(* Slots for the requests in flight. *)
Viewers == 1 .. MaxInFlight

------------------------------------------------------------------------------
(* The chain (core/src/audit.rs). *)

sanitize_field_keeping(text) == text

(* A control byte in a field is replaced before it is hashed or stored. *)
sanitize_field(text) == [i \in DOMAIN text |-> IF text[i] = SEP THEN Hidden ELSE text[i]]

(* The fields joined by SEP, with the predecessor's hash. *)
compute_hash(seq, subject, detail, prev_hash) == <<seq, subject \o <<SEP>> \o detail, prev_hash>>

append_entry(entries, said) ==
  LET seq == IF entries = <<>> THEN 0 ELSE Last(entries).seq + 1
      prev_hash == IF entries = <<>> THEN <<>> ELSE Last(entries).entry_hash
      subject == sanitize_field(said.subject)
      detail == sanitize_field(said.detail)
  IN  Append(entries, [seq |-> seq, subject |-> subject, detail |-> detail, prev_hash |-> prev_hash,
                       entry_hash |-> compute_hash(seq, subject, detail, prev_hash)])

(* An entry that does not follow the one before it, or is not what its     *)
(* hash says.                                                              *)
Broken(entries, i) ==
  LET e == entries[i]
  IN  \/ e.seq # (IF i = 1 THEN 0 ELSE entries[i - 1].seq + 1)
      \/ e.prev_hash # (IF i = 1 THEN <<>> ELSE entries[i - 1].entry_hash)
      \/ e.entry_hash # compute_hash(e.seq, e.subject, e.detail, e.prev_hash)

Intact == 0

(* The first broken entry, counted from one, or Intact. *)
verify_chain(entries) ==
  LET broken == {i \in DOMAIN entries : Broken(entries, i)}
  IN  IF broken = {} THEN Intact ELSE Min(broken)

------------------------------------------------------------------------------
(* The manifest (cloud/src/audit_sign.rs, audit_keyryx.rs). *)

ChainTip(entries) ==
  IF entries = <<>> THEN [tip_seq |-> 0, tip_hash |-> <<>>, entry_count |-> 0]
  ELSE [tip_seq |-> Last(entries).seq, tip_hash |-> Last(entries).entry_hash,
        entry_count |-> Len(entries)]

manifest_signing_bytes(org, tip, at) == <<org, tip.tip_seq, tip.tip_hash, tip.entry_count, at>>

Manifest(org, tip, at, key, kid, over) ==
  [org |-> org, tip |-> tip, signed_at |-> at, key |-> key, kid |-> kid, over |-> over]

build_signed_manifest(org, entries, at) ==
  LET tip == ChainTip(entries)
  IN  Manifest(org, tip, at, LocalKey, NoKid, manifest_signing_bytes(org, tip, at))

(* A key's RFC 7638 name, one name for each key. *)
thumbprint(key) == <<"thumbprint", key>>

(* What the environment may hold: each variable unset, unusable or usable. *)
Configs == [word : {"unset", "env", "keyryx", "other"}, signing_key : {"unset", "bad", "ok"},
            url : {"unset", "bad", "ok"}, key_name : {"unset", "bad", "ok"},
            credential_file : {"unset", "bad", "ok"}]

(* The signer the environment names, "off" for none, or "refused": the     *)
(* plane does not start.                                                   *)
signer_from(c) ==
  CASE c.word \in {"unset", "env"} ->
         IF {c.url, c.key_name, c.credential_file} # {"unset"} THEN "refused"
         ELSE IF c.signing_key = "ok" THEN "env" ELSE "off"
    [] c.word = "keyryx" ->
         IF c.signing_key # "unset" \/ {c.url, c.key_name, c.credential_file} # {"ok"} THEN "refused"
         ELSE "keyryx"
    [] OTHER -> "refused"

(* Mutant: the tip is not compared. *)
reused_while_young(org, tip, now) ==
  org \in DOMAIN reuse /\ now - reuse[org].signed_at \in 0 .. REUSE_SECS - 1

(* The manifest held for the org is of this tip and young enough; one      *)
(* signed after now, by a clock since set back, is not.                    *)
reused(org, tip, now) ==
  /\ org \in DOMAIN reuse
  /\ reuse[org].tip = tip
  /\ now - reuse[org].signed_at \in 0 .. REUSE_SECS - 1

(* What keyryx answered is a signature over these bytes, by a key the kid  *)
(* names.                                                                  *)
verify_answer(answer, bytes) ==
  /\ answer.alg = "ES256"
  /\ answer.kid # NoKid
  /\ answer.key \in Keys
  /\ answer.over = bytes
  /\ answer.kid = thumbprint(answer.key)

(* The manifest of this org is kept; past REUSE_CAP orgs the map starts    *)
(* over.                                                                   *)
reuse_insert(org, m) ==
  LET full == Cardinality(DOMAIN reuse) >= REUSE_CAP /\ org \notin DOMAIN reuse
      kept == IF full THEN {} ELSE DOMAIN reuse
  IN  reuse' = [o \in kept \cup {org} |-> IF o = org THEN m ELSE reuse[o]]

------------------------------------------------------------------------------
(* The plane (cloud/src/http.rs, store.rs). *)

AuditInit ==
  /\ config \in {c \in Configs : signer_from(c) # "refused"}
  /\ trail = [o \in Orgs |-> <<>>]
  /\ saved = trail
  /\ reuse = <<>>
  /\ viewer = [v \in Viewers |-> NoViewer]
  /\ life = 0
  /\ served = {}

Serve(org, asked, m) ==
  served' = served \cup {[org |-> org, asked |-> asked, m |-> m, life |-> life,
                          intact |-> verify_chain(trail[org]) = Intact,
                          entries |-> SubSeq(trail[org], 1, m.tip.entry_count)]}

Waiting == {v \in Viewers : viewer[v] # NoViewer}

(* A mutation of the plane writes its entry. *)
append_audit_locked(org, said) ==
  /\ MapThenSumSet(LAMBDA o : Len(trail[o]), Orgs) < MaxEntries
  /\ trail' = [trail EXCEPT ![org] = append_entry(@, said)]
  /\ UNCHANGED <<config, saved, reuse, viewer, life, served>>

(* The bound: manifests signed, and those still to be. *)
MaySign == Cardinality(served) + Cardinality(Waiting) < MaxManifests

(* A viewer asks for the org's manifest.  In keyryx's custody, one held    *)
(* for this tip is served again; otherwise keyryx is asked to sign.  A     *)
(* request has no name: it takes the first free slot.                      *)
audit_manifest(v, org, now) ==
  /\ v = Min({w \in Viewers : viewer[w] = NoViewer})
  /\ LET tip == ChainTip(trail[org]) IN
         \/ /\ signer_from(config) = "env"
            /\ MaySign
            /\ Serve(org, tip, build_signed_manifest(org, trail[org], now))
            /\ UNCHANGED viewer
         \/ /\ signer_from(config) = "keyryx"
            /\ reused(org, tip, now)
            /\ Serve(org, tip, reuse[org])
            /\ UNCHANGED viewer
         \/ /\ signer_from(config) = "keyryx"
            /\ ~reused(org, tip, now)
            /\ MaySign
            /\ viewer' = [viewer EXCEPT ![v] = [at |-> "keyryx", org |-> org, tip |-> tip, now |-> now]]
            /\ UNCHANGED served
  /\ UNCHANGED <<config, trail, saved, reuse, life>>

(* keyryx, or whatever stands in its place, answers with a signature over  *)
(* one of the statements it was asked to sign, by the held key, and names  *)
(* some key.                                                               *)
KeyryxAnswers ==
  [alg : {"ES256", "EdDSA"}, kid : {NoKid} \cup {thumbprint(k) : k \in Keys},
   key : {HeldKey, "none"},
   over : {manifest_signing_bytes(viewer[v].org, viewer[v].tip, viewer[v].now) : v \in Waiting}]

manifest_retip(v, answer) ==
  LET q == viewer[v]
      m == Manifest(q.org, ChainTip(trail[q.org]), q.now, answer.key, answer.kid, answer.over)
  IN  /\ verify_answer(answer, manifest_signing_bytes(q.org, q.tip, q.now))
      /\ Serve(q.org, q.tip, m)
      /\ reuse_insert(q.org, m)

(* The answer is served, and kept, when it signs this request's bytes. *)
manifest(v, answer) ==
  LET q == viewer[v]
      m == Manifest(q.org, q.tip, q.now, answer.key, answer.kid, answer.over)
  IN  /\ verify_answer(answer, manifest_signing_bytes(q.org, q.tip, q.now))
      /\ Serve(q.org, q.tip, m)
      /\ reuse_insert(q.org, m)

answered(v, answer) ==
  /\ viewer[v] # NoViewer
  /\ manifest(v, answer)
  /\ viewer' = [viewer EXCEPT ![v] = NoViewer]
  /\ UNCHANGED <<config, trail, saved, life>>

(* No answer in time, a refusal, no credential to ask with, or an answer   *)
(* that does not hold: the viewer gets 503 and nothing is served.          *)
not_signed(v) ==
  /\ viewer[v] # NoViewer
  /\ viewer' = [viewer EXCEPT ![v] = NoViewer]
  /\ UNCHANGED <<config, trail, saved, reuse, life, served>>

save ==
  /\ saved # trail
  /\ saved' = trail
  /\ UNCHANGED <<config, trail, reuse, viewer, life, served>>

Rechained(entries) == FoldLeft(append_entry, <<>>, entries)

(* The file as something outside the plane may have left it: an entry      *)
(* rewritten, with the hashes as they were or made anew, or the last       *)
(* entry lost.                                                             *)
Edits(entries) ==
  LET rewritten == {[entries EXCEPT ![i].subject = said.subject, ![i].detail = said.detail] :
                      i \in DOMAIN entries, said \in Mutations}
  IN  rewritten \cup {Rechained(r) : r \in rewritten} \cup {Front(e) : e \in {entries} \ {<<>>}}

(* The plane dies and is loaded from its snapshot.  A chain that does not  *)
(* verify is reported and used all the same.                               *)
load(files) ==
  /\ life < MaxLoads
  /\ life' = life + 1
  /\ trail' = files
  /\ saved' = files
  /\ reuse' = <<>>
  /\ viewer' = [v \in Viewers |-> NoViewer]
  /\ UNCHANGED <<config, served>>

AuditNext ==
  \/ \E org \in Orgs, said \in Mutations : append_audit_locked(org, said)
  \/ \E v \in Viewers \ Waiting, org \in Orgs, now \in Times : audit_manifest(v, org, now)
  \/ \E v \in Viewers, answer \in KeyryxAnswers : answered(v, answer)
  \/ \E v \in Viewers : not_signed(v)
  \/ save
  \/ load(saved)
  \/ \E org \in Orgs : \E entries \in Edits(saved[org]) : load([saved EXCEPT ![org] = entries])

AuditSpec == AuditInit /\ [][AuditNext]_auditvars

------------------------------------------------------------------------------
(* A manifest served carries a signature over its own org, tip, count and  *)
(* time, whatever keyryx answered and however the chain moved meanwhile;   *)
(* with custody at keyryx its kid names the key that signed, and without   *)
(* it the local key signed.                                                *)
ServedVerifies ==
  \A s \in served :
    /\ s.m.org = s.org
    /\ s.m.over = manifest_signing_bytes(s.m.org, s.m.tip, s.m.signed_at)
    /\ IF config.word = "keyryx" THEN s.m.kid = thumbprint(s.m.key) /\ s.m.key \in Keys
       ELSE s.m.kid = NoKid /\ s.m.key = LocalKey /\ config.url = "unset"

(* A manifest served attests the chain as it stood when it was asked for,  *)
(* whichever manifest an answer out of order left to be served again.      *)
ServedAsAsked == \A s \in served : s.m.tip = s.asked

(* Every manifest served since the plane was loaded is of the tip the      *)
(* org's chain has now or once had: no two of them tell of different       *)
(* histories, in whatever order keyryx answered.                           *)
ManifestsAgree ==
  \A s \in served : s.life = life =>
    LET n == s.m.tip.entry_count
    IN  IF n = 0 THEN s.m.tip.tip_hash = <<>>
        ELSE n \in DOMAIN trail[s.org] /\ trail[s.org][n].entry_hash = s.m.tip.tip_hash

(* A chain that verifies, and whose entry at a manifest's count has the    *)
(* manifest's hash, holds the very entries the manifest attested, through  *)
(* every restart and every rewriting of the file.                          *)
ManifestPinsEntries ==
  \A s \in served :
    LET entries == trail[s.org]
        n == s.m.tip.entry_count
    IN  s.intact /\ n \in DOMAIN entries /\ verify_chain(entries) = Intact
        /\ entries[n].entry_hash = s.m.tip.tip_hash
          => SubSeq(entries, 1, n) = s.entries

(* Between two loads nothing changes what verification says of a chain: an *)
(* entry appended neither breaks it nor hides the first entry that was     *)
(* broken on load.                                                         *)
VerdictStands ==
  life' = life => \A o \in Orgs : verify_chain(trail'[o]) = verify_chain(trail[o])

(* The audit book and its manifests, whole: what is served verifies, is of *)
(* the chain as asked for, tells one history and pins its entries, and no  *)
(* entry appended changes what verification says.                          *)
ManifestsHold ==
  /\ [](ServedVerifies /\ ServedAsAsked /\ ManifestsAgree /\ ManifestPinsEntries)
  /\ [][VerdictStands]_auditvars
==============================================================================
