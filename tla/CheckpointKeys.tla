--------------------------- MODULE CheckpointKeys ---------------------------
(***************************************************************************)
(* The keys checkpoint records are signed with: short-lived, certified by  *)
(* keyryx (external), renewed at half life by a task that sleeps, and kept *)
(* until they run out.  A record with no valid key is written unsigned.    *)
(* To certify takes two posts, each given up after its timeout.  keyryx    *)
(* may go away and come back: a post it sees begin and end is answered in  *)
(* time, any other may be answered or not.  The task's own steps and the   *)
(* ends of its sleeps take no time.                                        *)
(***************************************************************************)
EXTENDS Integers, FiniteSets, FiniteSetsExt

CONSTANTS
  LIFETIME, TIMEOUT, RETRY_FIRST, RETRY_MAX,
  Skews,         \* how far keyryx's clock may be from this one
  MaxSeconds

ASSUME KeysAssumption ==
  /\ {LIFETIME, TIMEOUT, RETRY_FIRST, RETRY_MAX} \subseteq Nat \ {0}
  /\ RETRY_FIRST <= RETRY_MAX /\ MaxSeconds \in Nat /\ Skews \subseteq Int /\ 0 \in Skews
  /\ \A s \in Skews : /\ 2 * TIMEOUT + s < LIFETIME - LIFETIME \div 2
                      /\ TIMEOUT - s < LIFETIME \div 2

VARIABLES
  second,    \* the clock, in seconds
  keys,      \* DelegatedSigner.keys: [not_before, not_after]
  backoff,
  wake,      \* when the renewal task wakes
  awaited,   \* the post it awaits: "none", "challenge" or "delegate"
  sent,      \* when it was sent
  met,       \* keyryx answers since then
  answering, \* keyryx answers
  since      \* history: when it last changed

keyvars == <<second, keys, backoff, wake, awaited, sent, met, answering, since>>

half_life(k) == k.not_before + (k.not_after - k.not_before) \div 2

newest(ks) == CHOOSE k \in ks : \A l \in ks : l.not_before <= k.not_before

(* Mutant: it waits until the newest key has run out. *)
renewal_due_at_end == IF keys = {} THEN TRUE ELSE second >= newest(keys).not_after

renewal_due == IF keys = {} THEN TRUE ELSE second >= half_life(newest(keys))

next_due(ks) == IF ks = {} THEN second ELSE half_life(newest(ks))

(* Mutant: the new key takes the place of the others. *)
install_key_only(k) == {k}

(* install: those that ran out go, the new one is kept beside the others. *)
install_key(k) == {l \in keys : second < l.not_after} \cup {k}

(* key_at: what a record written now is signed with. *)
Valid == {k \in keys : k.not_before <= second /\ second < k.not_after}

Certificate(issued, s) == [not_before |-> issued + s, not_after |-> issued + s + LIFETIME]

(* start: one attempt, cut off after as long as a post, then the task. *)
KeysInit ==
  /\ second = 0 /\ since = 0 /\ backoff = RETRY_FIRST /\ wake = 0
  /\ awaited = "none" /\ sent = 0 /\ met = FALSE /\ answering \in BOOLEAN
  /\ keys = {} \/ \E age \in 0 .. TIMEOUT, s \in Skews : keys = {Certificate(-age, s)}

Slept(ks) == second + Max({1, Min({next_due(ks) - second, RETRY_MAX})})

(* spawn_renewal: the task wakes, and asks for a challenge or sleeps on. *)
spawn_renewal ==
  /\ awaited = "none" /\ second = wake
  /\ \/ renewal_due /\ awaited' = "challenge" /\ sent' = second /\ met' = answering /\ UNCHANGED wake
     \/ ~renewal_due /\ wake' = Slept(keys) /\ UNCHANGED <<awaited, sent, met>>
  /\ UNCHANGED <<second, keys, backoff, answering, since>>

(* certify_key: with the challenge it asks for the certificate. *)
certify_key ==
  /\ awaited = "challenge" /\ answering
  /\ awaited' = "delegate" /\ sent' = second /\ met' = TRUE
  /\ UNCHANGED <<second, keys, backoff, wake, answering, since>>

(* The certificate, issued at some time while the post was under way. *)
certified ==
  /\ awaited = "delegate" /\ answering
  /\ \E issued \in Max({sent, since}) .. second, s \in Skews : keys' = install_key(Certificate(issued, s))
  /\ awaited' = "none" /\ backoff' = RETRY_FIRST /\ wake' = Slept(keys')
  /\ UNCHANGED <<second, sent, met, answering, since>>

(* Mutant: the wait goes on doubling. *)
failed_uncapped ==
  /\ awaited # "none" /\ ~met
  /\ awaited' = "none" /\ wake' = second + backoff /\ backoff' = 2 * backoff
  /\ UNCHANGED <<second, keys, sent, met, answering, since>>

(* A post that keyryx did not see begin and end fails, at once or when it  *)
(* times out.                                                              *)
failed ==
  /\ awaited # "none" /\ ~met
  /\ awaited' = "none" /\ wake' = second + backoff /\ backoff' = Min({2 * backoff, RETRY_MAX})
  /\ UNCHANGED <<second, keys, sent, met, answering, since>>

Second ==
  /\ second < (IF awaited = "none" THEN wake ELSE sent + TIMEOUT) /\ second < MaxSeconds
  /\ second' = second + 1
  /\ UNCHANGED <<keys, backoff, wake, awaited, sent, met, answering, since>>

(* keyryx goes away or comes back (external). *)
Turn ==
  /\ since < second
  /\ answering' = ~answering /\ since' = second /\ met' = FALSE
  /\ UNCHANGED <<second, keys, backoff, wake, awaited, sent>>

KeysNext == spawn_renewal \/ certify_key \/ certified \/ failed \/ Second \/ Turn

KeysSpec == KeysInit /\ [][KeysNext]_keyvars
-----------------------------------------------------------------------------
(* While keyryx answers, a record is unsigned only at the end of an        *)
(* outage, for no longer than an attempt begun in it takes to fail, the    *)
(* longest retry, two posts and the difference of the clocks: never in the *)
(* normal course of renewals.                                              *)
SignedUnlessAway ==
  answering /\ Valid = {} => second - since <= 3 * TIMEOUT + RETRY_MAX + Max(Skews)
=============================================================================
