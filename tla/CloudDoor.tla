----------------------------- MODULE CloudDoor -----------------------------
(***************************************************************************)
(* The control plane's door for phones: one-time pairing codes, and signed *)
(* requests, which the network may deliver late, twice or after a restart. *)
(* Codes are kept in memory only; devices, their audit entries and the     *)
(* nonces they spent are in the snapshot an autosave writes.               *)
(***************************************************************************)
EXTENDS Integers, Sequences, FiniteSets, SequencesExt, Functions

CONSTANTS
  Codes, DeviceIds,
  SIGNATURE_WINDOW_SECS, NONCE_CAP, PairingTtl,
  MaxSkew,                                \* how far a device's clock is from the plane's
  MaxSeconds, MaxSigned, MaxRestarts      \* bounds

ASSUME DoorAssumption ==
  /\ {SIGNATURE_WINDOW_SECS, PairingTtl, MaxSkew, MaxSeconds, MaxSigned, MaxRestarts} \subseteq Nat
  /\ NONCE_CAP \in Nat \ {0}

VARIABLES
  second, started_unix, restarts,
  pairings,      \* code -> [role, expires]
  kept,          \* [devices, nonces, paired]: what the snapshot holds
  stored,        \* the snapshot
  signed,        \* requests devices have signed, each with its own nonce
  acts,          \* how often a request was acted on
  forgot,        \* history: how many of a request's acts a restart forgot
  redeemed       \* history: code -> the devices it made

doorvars == <<second, started_unix, restarts, pairings, kept, stored, signed, acts, forgot, redeemed>>

NothingKept == [devices |-> <<>>, nonces |-> <<>>, paired |-> <<>>]

DoorInit ==
  /\ second = 1 /\ started_unix = 0 /\ restarts = 0
  /\ pairings = <<>>
  /\ kept = NothingKept /\ stored = NothingKept
  /\ signed = {} /\ acts = <<>> /\ forgot = <<>>
  /\ redeemed = [code \in Codes |-> {}]

Ring(device) == IF device \in DOMAIN kept.nonces THEN kept.nonces[device] ELSE <<>>
Set(f, k, v) == [x \in DOMAIN f \cup {k} |-> IF x = k THEN v ELSE f[x]]

-----------------------------------------------------------------------------
(* pair_new: codes are random, so none is issued twice. *)
create_pairing(code, role) ==
  /\ code \notin DOMAIN pairings /\ redeemed[code] = {}
  /\ pairings' = Set(pairings, code, [role |-> role, expires |-> second + PairingTtl])
  /\ UNCHANGED <<second, started_unix, restarts, kept, stored, signed, acts, forgot, redeemed>>

Register(code, device) ==
  [kept EXCEPT !.devices = Set(@, device, pairings[code].role),
               !.paired = Append(@, [device |-> device, role |-> pairings[code].role])]

(* Mutant: the code stays. *)
redeem_pairing_audited_kept(code, device) ==
  /\ code \in DOMAIN pairings /\ device \notin UNION Range(redeemed)
  /\ IF pairings[code].expires < second THEN UNCHANGED <<kept, redeemed>>
     ELSE kept' = Register(code, device) /\ redeemed' = [redeemed EXCEPT ![code] = @ \cup {device}]
  /\ UNCHANGED <<second, started_unix, restarts, pairings, stored, signed, acts, forgot>>

(* The code is spent whether or not it has expired. *)
redeem_pairing_audited(code, device) ==
  /\ code \in DOMAIN pairings /\ device \notin UNION Range(redeemed)
  /\ pairings' = [c \in DOMAIN pairings \ {code} |-> pairings[c]]
  /\ IF pairings[code].expires < second THEN UNCHANGED <<kept, redeemed>>
     ELSE kept' = Register(code, device) /\ redeemed' = [redeemed EXCEPT ![code] = @ \cup {device}]
  /\ UNCHANGED <<second, started_unix, restarts, stored, signed, acts, forgot>>

(* In no time a full ring can span - four windows, by the device's own     *)
(* clock - has a device signed more than its ring holds.                   *)
RingSuffices(made) ==
  \A p \in made :
    Cardinality({q \in made : q.device = p.device /\ q.ts >= p.ts
                                /\ q.ts <= p.ts + 4 * SIGNATURE_WINDOW_SECS}) <= NONCE_CAP

(* A device signs, by its own clock, ahead of the plane's or behind it. *)
Sign(device) ==
  /\ device \in UNION Range(redeemed)
  /\ Cardinality(signed) < MaxSigned
  /\ \E ts \in second - MaxSkew .. second + MaxSkew :
       signed' = signed \cup {[device |-> device, ts |-> ts, nonce |-> Cardinality(signed)]}
  /\ RingSuffices(signed')
  /\ UNCHANGED <<second, started_unix, restarts, pairings, kept, stored, acts, forgot, redeemed>>

(* The last NONCE_CAP nonces of a device. *)
check_and_record_nonce(ring, q) ==
  LET new == Append(ring, [nonce |-> q.nonce, ts |-> q.ts])
  IN  IF Len(new) > NONCE_CAP THEN Tail(new) ELSE new

(* Mutant: only the window is asked about, not the start. *)
Timely_window(q) ==
  second - q.ts <= SIGNATURE_WINDOW_SECS /\ q.ts - second <= SIGNATURE_WINDOW_SECS

(* Inside the window, and signed after this process started. *)
Timely(q) ==
  /\ second - q.ts <= SIGNATURE_WINDOW_SECS /\ q.ts - second <= SIGNATURE_WINDOW_SECS
  /\ q.ts > started_unix

(* verify_device_signature, and for a mutation the role: a viewer's nonce  *)
(* is spent too.                                                           *)
verify_device_signature(q) ==
  /\ q.device \in DOMAIN kept.devices
  /\ Timely(q)
  /\ q.nonce \notin {e.nonce : e \in Range(Ring(q.device))}
  /\ kept' = [kept EXCEPT !.nonces = Set(@, q.device, check_and_record_nonce(Ring(q.device), q))]
  /\ acts' = IF kept.devices[q.device] # "admin" THEN acts
             ELSE Set(acts, q, 1 + IF q \in DOMAIN acts THEN acts[q] ELSE 0)
  /\ UNCHANGED <<second, started_unix, restarts, pairings, stored, signed, forgot, redeemed>>

-----------------------------------------------------------------------------
Autosave ==
  /\ stored # kept
  /\ stored' = kept
  /\ UNCHANGED <<second, started_unix, restarts, pairings, kept, signed, acts, forgot, redeemed>>

(* The entries still inside the window, in their order. *)
Fresh(ring) ==
  LET fresh == {i \in DOMAIN ring : /\ second - ring[i].ts <= SIGNATURE_WINDOW_SECS
                                    /\ ring[i].ts - second <= SIGNATURE_WINDOW_SECS}
      nth(k) == CHOOSE i \in fresh : Cardinality({j \in fresh : j < i}) = k - 1
  IN  [k \in 1 .. Cardinality(fresh) |-> ring[nth(k)]]

InRing(q) ==
  /\ q.device \in DOMAIN kept.nonces
  /\ \E i \in DOMAIN kept.nonces[q.device] : kept.nonces[q.device][i].nonce = q.nonce

Forgotten(q) == IF q \in DOMAIN forgot THEN forgot[q] ELSE 0

(* What a restart forgets is an act whose nonce no autosave had kept and   *)
(* whose request was signed ahead of the restart.                          *)
Restart ==
  /\ restarts < MaxRestarts
  /\ restarts' = restarts + 1
  /\ started_unix' = second
  /\ pairings' = <<>>
  /\ kept' = [stored EXCEPT !.nonces =
                [d \in {d \in DOMAIN @ : Fresh(@[d]) # <<>>} |-> Fresh(@[d])]]
  /\ forgot' = [q \in DOMAIN acts |-> IF q.ts > second /\ ~InRing(q)' THEN acts[q] ELSE Forgotten(q)]
  /\ UNCHANGED <<second, stored, signed, acts, redeemed>>

SecondPasses ==
  /\ second < MaxSeconds
  /\ second' = second + 1
  /\ UNCHANGED <<started_unix, restarts, pairings, kept, stored, signed, acts, forgot, redeemed>>

DoorNext ==
  \/ \E code \in Codes, role \in {"admin", "viewer"} : create_pairing(code, role)
  \/ \E code \in Codes, device \in DeviceIds : redeem_pairing_audited(code, device)
  \/ \E device \in DeviceIds : Sign(device)
  \/ \E q \in signed : verify_device_signature(q)
  \/ Autosave \/ Restart \/ SecondPasses

DoorSpec == DoorInit /\ [][DoorNext]_doorvars
-----------------------------------------------------------------------------
(* However often and whenever a signed request is delivered, it is acted   *)
(* on once: what a crash forgot is refused by the start, but for a request *)
(* signed ahead of the restart, which is acted on once more.               *)
ActedOnce == \A q \in DOMAIN acts : acts[q] <= 1 + Forgotten(q)

(* A code makes one device, also when two phones race for it. *)
CodeMakesOne == \A code \in Codes : Cardinality(redeemed[code]) <= 1

(* The devices let in, now or by any snapshot, are those the audit names,  *)
(* with the role it names.                                                 *)
DevicesAudited ==
  \A k \in {kept, stored} :
    /\ DOMAIN k.devices = {e.device : e \in Range(k.paired)}
    /\ \A e \in Range(k.paired) : k.devices[e.device] = e.role

(* The plane's door, whole: a signed request is acted on once between the  *)
(* restarts that forget it, a code makes one device, and the audit names   *)
(* the devices there are.                                                  *)
PairingHolds == ActedOnce /\ CodeMakesOne /\ DevicesAudited
=============================================================================
