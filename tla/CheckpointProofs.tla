-------------------------- MODULE CheckpointProofs --------------------------
(***************************************************************************)
(* Proofs about what makes the event stream evidence: CheckpointKeys, for  *)
(* any life of a key, any retry times and any skews of the clocks that     *)
(* include none; and Checkpoints, for any number of emits, other writers'  *)
(* lines, failures, deaths and cuts of the stream.  And CloudSink, the     *)
(* other stream a settled call leaves, for any number of rows and outages, *)
(* any batch size and any cap of the queue.                                *)
(***************************************************************************)
EXTENDS CheckpointKeys, Checkpoints, CloudSink, FiniteSetTheorems, SequenceTheorems, WellFoundedInduction, TLAPS

-----------------------------------------------------------------------------
(* CheckpointKeys.                                                         *)

Key == {k \in [not_before : Int, not_after : Int] : k.not_after = k.not_before + LIFETIME}

ValidAt(t) == \E k \in keys : k.not_before =< t /\ t < k.not_after

Newest(k) == k \in keys /\ \A l \in keys : l.not_before =< k.not_before

(* One key is the newest, and none starts further ahead than the clocks    *)
(* differ.  The task wakes within the longest retry; while it waits for an *)
(* answer every key is past its half life; and a post that has not been    *)
(* met was sent before keyryx last came back.                              *)
KeysTypes ==
  /\ {second, since, wake, sent} \subseteq Nat /\ backoff \in 1 .. RETRY_MAX
  /\ keys \subseteq Key /\ answering \in BOOLEAN /\ met \in BOOLEAN
  /\ awaited \in {"none", "challenge", "delegate"}
  /\ since =< second
  /\ awaited = "none" => second =< wake /\ wake =< second + RETRY_MAX
  /\ awaited # "none" => sent =< second /\ second =< sent + TIMEOUT
  /\ awaited # "none" /\ answering /\ ~met => sent =< since
  /\ \A k \in keys : k.not_before =< second + Max(Skews)
  /\ awaited # "none" => \A k \in keys : k.not_before + LIFETIME \div 2 =< sent
  /\ keys # {} => \E k \in keys : Newest(k)

(* The latest that a certificate is here, should no post fail. *)
Arrives ==
  IF awaited = "none" THEN wake + 2 * TIMEOUT
  ELSE IF awaited = "challenge" THEN sent + 2 * TIMEOUT ELSE sent + TIMEOUT

(* While keyryx answers and has seen the post under way begin, some key is *)
(* valid at any second until the next one starts that is not still of the  *)
(* outage's end.                                                           *)
Renewing ==
  answering /\ (awaited = "none" \/ met) =>
    \A t \in Int : second =< t /\ t =< Arrives + Max(Skews) =>
      ValidAt(t) \/ t =< since + 3 * TIMEOUT + RETRY_MAX + Max(Skews)

KeysInv == KeysTypes /\ Renewing

-----------------------------------------------------------------------------
LEMMA MaxOfTwo ==
  ASSUME NEW a \in Int, NEW b \in Int
  PROVE  Max({a, b}) = IF a >= b THEN a ELSE b
<1> DEFINE m == IF a >= b THEN a ELSE b
<1>1. m \in {a, b} /\ \A y \in {a, b} : m >= y
  OBVIOUS
<1>2. \A x \in {a, b} : (\A y \in {a, b} : x >= y) => x = m
  OBVIOUS
<1> HIDE DEF m
<1> QED
  BY <1>1, <1>2 DEF Max

LEMMA MinOfTwo ==
  ASSUME NEW a \in Int, NEW b \in Int
  PROVE  Min({a, b}) = IF a =< b THEN a ELSE b
<1> DEFINE m == IF a =< b THEN a ELSE b
<1>1. m \in {a, b} /\ \A y \in {a, b} : m =< y
  OBVIOUS
<1>2. \A x \in {a, b} : (\A y \in {a, b} : x =< y) => x = m
  OBVIOUS
<1> HIDE DEF m
<1> QED
  BY <1>1, <1>2 DEF Min

(* The clocks differ by so much at most, and half a life is longer than     *)
(* that and a post.                                                        *)
LEMMA TheSkews ==
  /\ Max(Skews) \in Skews /\ Max(Skews) \in Nat
  /\ \A s \in Skews : s \in Int /\ s =< Max(Skews) /\ 2 * TIMEOUT + s < LIFETIME - LIFETIME \div 2
                      /\ TIMEOUT - s < LIFETIME \div 2
<1>13. PICK C : C = LIFETIME - LIFETIME \div 2
  OBVIOUS
<1> DEFINE R == OpToRel(<, Nat)
           T == {C - s : s \in Skews}
<1>1. IsWellFoundedOn(R, Nat)
  BY NatLessThanWellFounded, Zenon
<1>2. \A x, y \in Nat : x < y => <<x, y>> \in R
  BY Zenon DEF OpToRel
<1> HIDE DEF R
<1>14. C \in Nat
  <2>1. LIFETIME \in Nat
    BY KeysAssumption
  <2> QED
    BY <1>13, <2>1
<1>15. \A s \in Skews : s \in Int /\ 2 * TIMEOUT + s < C /\ TIMEOUT \in Nat
  BY <1>13, KeysAssumption
<1>3. \A s \in Skews : s \in Int /\ s < C
  BY <1>14, <1>15
<1>4. T \in SUBSET Nat /\ T # {}
  BY <1>3, <1>14, KeysAssumption
<1>5. PICK x \in T : \A y \in T : ~(<<y, x>> \in R)
  BY <1>1, <1>4, WFMin, Zenon
<1>6. \A y \in T : ~(y < x)
  BY <1>2, <1>4, <1>5, Zenon
<1>7. PICK n \in Skews : x = C - n
  BY <1>5
<1>8. \A s \in Skews : n >= s
  <2> TAKE s \in Skews
  <2>1. ~(C - s < C - n)
    BY <1>6, <1>7
  <2> QED
    BY <2>1, <1>3, <1>14
<1>9. Max(Skews) \in Skews /\ \A s \in Skews : Max(Skews) >= s
  BY <1>8 DEF Max
<1>10. PICK h : h = Max(Skews)
  OBVIOUS
<1>11. h \in Int /\ h >= 0
  BY <1>3, <1>9, <1>10, KeysAssumption
<1>12. h \in Nat /\ h \in Skews /\ \A s \in Skews : s =< h
  BY <1>3, <1>9, <1>10, <1>11
<1> HIDE DEF T
<1> QED
  BY <1>3, <1>10, <1>12, KeysAssumption

(* Half a life, and where it falls. *)
LEMMA HalfLife ==
  /\ LIFETIME \in Nat /\ TIMEOUT \in Nat /\ RETRY_MAX \in Nat \ {0} /\ RETRY_FIRST \in 1 .. RETRY_MAX
  /\ LIFETIME \div 2 \in Nat
  /\ \A k \in Key : half_life(k) = k.not_before + LIFETIME \div 2
  /\ \A k \in Key : k.not_before \in Int /\ k.not_after = k.not_before + LIFETIME
<1>1. /\ LIFETIME \in Nat /\ TIMEOUT \in Nat /\ RETRY_MAX \in Nat \ {0} /\ RETRY_FIRST \in 1 .. RETRY_MAX
  BY KeysAssumption
<1>2. LIFETIME \div 2 \in Nat
  BY <1>1
<1>3. \A k \in Key : k.not_before \in Int /\ k.not_after = k.not_before + LIFETIME
  BY DEF Key
<1>4. \A k \in Key : half_life(k) = k.not_before + LIFETIME \div 2
  <2> TAKE k \in Key
  <2>1. k.not_after - k.not_before = LIFETIME
    BY <1>1, <1>3
  <2> QED
    BY <2>1 DEF half_life
<1> QED
  BY <1>1, <1>2, <1>3, <1>4

(* The newest key is well defined. *)
LEMMA TheNewest ==
  ASSUME KeysTypes, keys # {}
  PROVE  /\ newest(keys) \in keys /\ Newest(newest(keys)) /\ newest(keys) \in Key
         /\ \A k \in keys : Newest(k) => k.not_before = newest(keys).not_before
<1>1. \E k \in keys : \A l \in keys : l.not_before =< k.not_before
  BY DEF KeysTypes, Newest
<1>2. newest(keys) \in keys /\ \A l \in keys : l.not_before =< newest(keys).not_before
  BY <1>1 DEF newest
<1>3. \A k \in keys : k.not_before \in Int
  BY HalfLife DEF KeysTypes
<1> QED
  BY <1>2, <1>3 DEF Newest, KeysTypes

(* A key that the certificate puts in is the newest. *)
LEMMA KeyIsPutIn ==
  ASSUME KeysTypes, awaited = "delegate", NEW issued \in sent .. second, NEW s \in Skews,
         keys' = install_key(Certificate(issued, s))
  PROVE  \E k \in Key :
           /\ k.not_before = issued + s /\ k.not_after = issued + s + LIFETIME
           /\ keys' = {l \in keys : second < l.not_after} \cup {k}
           /\ keys' \subseteq Key /\ Newest(k)'
           /\ \A l \in keys' : Newest(l)' => l.not_before = k.not_before
<1>1. PICK k : k = Certificate(issued, s)
  OBVIOUS
<1>9. PICK D \in Nat : D = LIFETIME \div 2
  BY HalfLife
<1>2. /\ s \in Int /\ TIMEOUT - s < D /\ TIMEOUT \in Nat /\ LIFETIME \in Nat
      /\ second \in Nat /\ sent \in Nat /\ issued \in Int /\ sent =< issued /\ issued =< second
  BY <1>9, TheSkews, HalfLife DEF KeysTypes
<1>3. k \in Key /\ k.not_before = issued + s /\ k.not_after = issued + s + LIFETIME
  BY <1>1, <1>2 DEF Certificate, Key
<1>4. keys' = {l \in keys : second < l.not_after} \cup {k} /\ keys' \subseteq Key
  BY <1>1, <1>3 DEF install_key, KeysTypes
<1>5. \A l \in keys : l.not_before =< k.not_before
  <2> SUFFICES ASSUME NEW l \in keys PROVE l.not_before =< k.not_before
    OBVIOUS
  <2>1. l.not_before \in Int /\ l.not_before + D =< sent
    BY <1>9, HalfLife DEF KeysTypes
  <2> QED
    BY <2>1, <1>2, <1>3
<1>6. Newest(k)'
  <2>1. k.not_before =< k.not_before
    BY <1>3, HalfLife
  <2>2. \A l \in keys' : l.not_before =< k.not_before
    BY <2>1, <1>4, <1>5
  <2> QED
    BY <2>2, <1>4 DEF Newest
<1>7. \A l \in keys' : Newest(l)' => l.not_before = k.not_before
  <2> SUFFICES ASSUME NEW l \in keys', Newest(l)' PROVE l.not_before = k.not_before
    OBVIOUS
  <2>1. k.not_before =< l.not_before /\ l.not_before =< k.not_before
    BY <1>4, <1>6 DEF Newest
  <2>2. k.not_before \in Int /\ l.not_before \in Int
    BY <1>3, <1>4, HalfLife
  <2> QED
    BY <2>1, <2>2
<1> QED
  BY <1>3, <1>4, <1>6, <1>7

(* How long the task sleeps before a half life that is still ahead: until  *)
(* then, but no longer than the longest retry.                             *)
LEMMA Sleeps ==
  ASSUME NEW now \in Nat, NEW due \in Int, now < due,
         NEW slept, slept = now + Max({1, Min({due - now, RETRY_MAX})})
  PROVE  slept \in Nat /\ now < slept /\ slept =< now + RETRY_MAX /\ slept =< due
<1>1. PICK M \in Nat \ {0} : M = RETRY_MAX
  BY HalfLife
<1>2. PICK m \in Int : m = Min({due - now, M}) /\ m = IF due - now =< M THEN due - now ELSE M
  <2>1. due - now \in Int /\ M \in Int
    BY <1>1
  <2> QED
    BY <2>1, MinOfTwo
<1>3. Max({1, m}) = IF 1 >= m THEN 1 ELSE m
  BY MaxOfTwo
<1>4. slept = now + (IF 1 >= m THEN 1 ELSE m)
  BY <1>1, <1>2, <1>3
<1> QED
  BY <1>1, <1>2, <1>4

-----------------------------------------------------------------------------
LEMMA KeysStart == KeysInit => KeysInv
<1> SUFFICES ASSUME KeysInit PROVE KeysInv
  OBVIOUS
<1>1. /\ RETRY_MAX \in Nat \ {0} /\ RETRY_FIRST \in 1 .. RETRY_MAX /\ TIMEOUT \in Nat
      /\ Max(Skews) \in Nat
  BY HalfLife, TheSkews
<1>2. /\ second = 0 /\ since = 0 /\ wake = 0 /\ sent = 0 /\ awaited = "none" /\ ~met /\ met \in BOOLEAN
      /\ backoff \in 1 .. RETRY_MAX /\ answering \in BOOLEAN
  BY <1>1 DEF KeysInit
<1>3. Renewing
  BY <1>1, <1>2 DEF Renewing, Arrives
<1>4. CASE keys = {}
  BY <1>1, <1>2, <1>3, <1>4 DEF KeysInv, KeysTypes
<1>5. CASE \E age \in 0 .. TIMEOUT, s \in Skews : keys = {Certificate(-age, s)}
  <2> PICK age \in 0 .. TIMEOUT, s \in Skews : keys = {Certificate(-age, s)}
    BY <1>5
  <2>1. PICK k : k = Certificate(-age, s)
    OBVIOUS
  <2>2. s \in Int /\ s =< Max(Skews) /\ age \in Nat
    BY <1>1, TheSkews
  <2>3. k \in Key /\ k.not_before = s - age
    BY <2>1, <2>2, HalfLife DEF Certificate, Key
  <2>4. keys = {k} /\ Newest(k)
    BY <2>1, <2>2, <2>3 DEF Newest
  <2> QED
    BY <1>1, <1>2, <1>3, <2>2, <2>3, <2>4 DEF KeysInv, KeysTypes
<1> QED
  BY <1>4, <1>5 DEF KeysInit

(* The certificate came: until it starts what held before holds, and from  *)
(* then it is valid for as long as the next one may take.                  *)
LEMMA Renewed ==
  ASSUME KeysInv, certified
  PROVE  KeysInv'
<1> USE DEF KeysInv
<1>1. PICK issued \in Max({sent, since}) .. second, s \in Skews : keys' = install_key(Certificate(issued, s))
  BY DEF certified
<1>2. /\ second \in Nat /\ sent \in Nat /\ since \in Nat /\ wake \in Nat /\ answering = TRUE
      /\ awaited = "delegate" /\ sent =< second /\ second =< sent + TIMEOUT /\ since =< second
      /\ ~met => sent =< since
  BY DEF KeysTypes, certified
<1>3. PICK T \in Nat : T = TIMEOUT
  BY HalfLife
<1>4. PICK M \in Nat \ {0} : M = RETRY_MAX
  BY HalfLife
<1>5. PICK D \in Nat : D = LIFETIME \div 2
  BY HalfLife
<1>6. PICK L \in Nat : L = LIFETIME
  BY HalfLife
<1>7. PICK H \in Nat : H = Max(Skews)
  BY TheSkews
<1>8. s \in Int /\ s =< H /\ T - s < D /\ 2 * T + H < L - D
  BY <1>3, <1>5, <1>6, <1>7, TheSkews
<1>9. issued \in sent .. second
  <2>1. PICK m \in Int : m = Max({sent, since}) /\ m = IF sent >= since THEN sent ELSE since
    BY <1>2, MaxOfTwo
  <2>2. issued \in m .. second
    BY <1>1, <2>1
  <2> QED
    BY <1>2, <2>1, <2>2
<1>10. PICK k \in Key :
         /\ k.not_before = issued + s /\ k.not_after = issued + s + LIFETIME
         /\ keys' = {l \in keys : second < l.not_after} \cup {k}
         /\ keys' \subseteq Key /\ Newest(k)'
         /\ \A l \in keys' : Newest(l)' => l.not_before = k.not_before
  BY <1>1, <1>2, <1>9, KeyIsPutIn
<1>11. /\ awaited' = "none" /\ backoff' = RETRY_FIRST /\ wake' = Slept(keys')
       /\ UNCHANGED <<second, sent, met, answering, since>>
  BY DEF certified
<1>12. issued \in Int /\ sent =< issued /\ issued =< second
  BY <1>2, <1>9
<1>13. next_due(keys') = issued + s + D
  <2>1. PICK n : n = newest(keys')
    OBVIOUS
  <2>2. \E o \in keys' : \A l \in keys' : l.not_before =< o.not_before
    BY <1>10 DEF Newest
  <2>3. n \in keys' /\ \A l \in keys' : l.not_before =< n.not_before
    BY <2>1, <2>2 DEF newest
  <2>4. n \in Key /\ n.not_before = k.not_before
    BY <2>3, <1>10 DEF Newest
  <2>5. half_life(n) = issued + s + D
    BY <2>4, <1>5, <1>10, HalfLife
  <2> QED
    BY <2>1, <2>3, <2>5 DEF next_due
<1>14. wake' \in Nat /\ second < wake' /\ wake' =< second + M /\ wake' =< issued + s + D
  <2>1. PICK due \in Int : due = issued + s + D
    BY <1>5, <1>8, <1>12
  <2>2. second < due
    BY <2>1, <1>2, <1>3, <1>8, <1>12
  <2>3. wake' = second + Max({1, Min({due - second, RETRY_MAX})})
    BY <2>1, <1>11, <1>13 DEF Slept
  <2> QED
    BY <2>1, <2>2, <2>3, <1>2, <1>4, Sleeps
<1>15. KeysTypes'
  <2>1. \A l \in keys' : l.not_before =< second + H
    <3>1. \A l \in keys : l.not_before =< second + H
      BY <1>7 DEF KeysTypes
    <3>2. k.not_before =< second + H
      BY <1>2, <1>7, <1>8, <1>10, <1>12
    <3> QED
      BY <1>10, <3>1, <3>2
  <2>2. backoff' \in 1 .. RETRY_MAX
    BY <1>11, HalfLife
  <2>3. met' \in BOOLEAN /\ answering' \in BOOLEAN
    BY <1>11 DEF KeysTypes
  <2> QED
    BY <1>2, <1>4, <1>7, <1>10, <1>11, <1>14, <2>1, <2>2, <2>3 DEF KeysTypes
<1>16. Renewing'
  <2> SUFFICES ASSUME NEW t \in Int, second =< t, t =< wake' + 2 * T + H
               PROVE  ValidAt(t)' \/ t =< since + 3 * T + M + H
    BY <1>3, <1>4, <1>7, <1>11 DEF Renewing, Arrives
  <2>1. CASE t >= k.not_before
    <3>1. t < k.not_after
      BY <1>3, <1>5, <1>6, <1>7, <1>8, <1>10, <1>12, <1>14
    <3> QED
      BY <2>1, <3>1, <1>10 DEF ValidAt
  <2>2. CASE t < k.not_before /\ ~met
    BY <2>2, <1>2, <1>3, <1>4, <1>8, <1>10, <1>12
  <2>3. CASE t < k.not_before /\ met
    <3>1. t =< sent + T + H
      BY <2>3, <1>2, <1>3, <1>8, <1>10, <1>12
    <3>2. ValidAt(t) \/ t =< since + 3 * T + M + H
      BY <2>3, <3>1, <1>2, <1>3, <1>4, <1>7 DEF Renewing, Arrives
    <3>3. ASSUME ValidAt(t) PROVE ValidAt(t)'
      <4>1. PICK l \in keys : l.not_before =< t /\ t < l.not_after
        BY <3>3 DEF ValidAt
      <4>2. l.not_after \in Int
        BY HalfLife DEF KeysTypes, Key
      <4>3. second < l.not_after
        BY <4>1, <4>2, <1>2
      <4> QED
        BY <4>1, <4>3, <1>10 DEF ValidAt
    <3> QED
      BY <3>2, <3>3
  <2>4. t < k.not_before \/ t >= k.not_before
    BY <1>8, <1>10, <1>12
  <2> QED
    BY <2>1, <2>2, <2>3, <2>4
<1> QED
  BY <1>15, <1>16

(* The task was not due: it waits for the newest key's half life, and that *)
(* key is valid for as long as the next one may take.                      *)
LEMMA NotDue ==
  ASSUME KeysInv, awaited = "none", second = wake, ~renewal_due, wake' = Slept(keys),
         UNCHANGED <<second, keys, backoff, awaited, sent, met, answering, since>>
  PROVE  KeysInv'
<1> USE DEF KeysInv
<1>1. keys # {}
  BY DEF renewal_due
<1>2. PICK n : n = newest(keys)
  OBVIOUS
<1>3. n \in keys /\ n \in Key /\ ~(second >= half_life(n))
  BY <1>1, <1>2, TheNewest DEF renewal_due
<1>4. PICK T \in Nat : T = TIMEOUT
  BY HalfLife
<1>5. PICK M \in Nat \ {0} : M = RETRY_MAX
  BY HalfLife
<1>6. PICK D \in Nat : D = LIFETIME \div 2
  BY HalfLife
<1>7. PICK L \in Nat : L = LIFETIME
  BY HalfLife
<1>8. PICK H \in Nat : H = Max(Skews)
  BY TheSkews
<1>9. 2 * T + H < L - D
  BY <1>4, <1>6, <1>7, <1>8, TheSkews
<1>10. /\ n.not_before \in Int /\ n.not_after = n.not_before + L /\ half_life(n) = n.not_before + D
       /\ n.not_before =< second + H
  BY <1>3, <1>6, <1>7, <1>8, HalfLife DEF KeysTypes
<1>11. second \in Nat /\ since \in Nat /\ since =< second
  BY DEF KeysTypes
<1>12. wake' \in Nat /\ second < wake' /\ wake' =< second + M /\ wake' =< n.not_before + D
  <2>1. PICK due \in Int : due = half_life(n)
    BY <1>6, <1>10
  <2>2. second < due
    BY <2>1, <1>3, <1>11
  <2>3. wake' = second + Max({1, Min({due - second, RETRY_MAX})})
    BY <2>1, <1>1, <1>2 DEF Slept, next_due
  <2> QED
    BY <2>1, <2>2, <2>3, <1>5, <1>10, <1>11, Sleeps
<1>13. KeysTypes'
  BY <1>5, <1>11, <1>12 DEF KeysTypes, Newest
<1>14. Renewing'
  <2> SUFFICES ASSUME answering, NEW t \in Int, second =< t, t =< wake' + 2 * T + H
               PROVE  ValidAt(t) \/ t =< since + 3 * T + M + H
    BY <1>4, <1>5, <1>8 DEF Renewing, Arrives, ValidAt
  <2>1. CASE t >= n.not_before
    <3>1. t < n.not_after
      BY <1>9, <1>10, <1>12
    <3> QED
      BY <2>1, <3>1, <1>3 DEF ValidAt
  <2>2. CASE t < n.not_before
    <3>1. t =< wake + 2 * T + H
      BY <2>2, <1>10, <1>11
    <3> QED
      BY <3>1, <1>4, <1>5, <1>8 DEF Renewing, Arrives
  <2> QED
    BY <2>1, <2>2, <1>10
<1> QED
  BY <1>13, <1>14

(* The other steps leave the keys alone. *)
LEMMA KeysMove == KeysInv /\ [KeysNext]_keyvars => KeysInv'
<1> SUFFICES ASSUME KeysInv, [KeysNext]_keyvars PROVE KeysInv'
  OBVIOUS
<1> USE DEF KeysInv
<1>0. /\ second \in Nat /\ since \in Nat /\ wake \in Nat /\ sent \in Nat /\ since =< second
      /\ awaited \in {"none", "challenge", "delegate"} /\ answering \in BOOLEAN /\ met \in BOOLEAN
      /\ awaited = "none" => second =< wake /\ wake =< second + RETRY_MAX
      /\ awaited # "none" => sent =< second /\ second =< sent + TIMEOUT
      /\ awaited # "none" /\ answering /\ ~met => sent =< since
      /\ backoff \in 1 .. RETRY_MAX /\ RETRY_MAX \in Nat \ {0} /\ TIMEOUT \in Nat /\ Max(Skews) \in Nat
  BY HalfLife, TheSkews DEF KeysTypes
<1>1. CASE /\ awaited = "none" /\ second = wake /\ renewal_due
           /\ awaited' = "challenge" /\ sent' = second /\ met' = answering
           /\ UNCHANGED <<wake, second, keys, backoff, answering, since>>
  <2>1. \A k \in keys : k.not_before + LIFETIME \div 2 =< second
    <3> SUFFICES ASSUME NEW l \in keys PROVE l.not_before + LIFETIME \div 2 =< second
      OBVIOUS
    <3>1. PICK n : n = newest(keys)
      OBVIOUS
    <3>2. n \in Key /\ l \in Key /\ l.not_before =< n.not_before
      BY <3>1, TheNewest DEF Newest, KeysTypes
    <3>3. second >= half_life(n)
      BY <1>1, <3>1 DEF renewal_due
    <3>4. half_life(n) = n.not_before + LIFETIME \div 2 /\ LIFETIME \div 2 \in Nat
      BY <3>2, HalfLife
    <3>5. n.not_before \in Int /\ l.not_before \in Int
      BY <3>2, HalfLife
    <3> QED
      BY <1>0, <3>2, <3>3, <3>4, <3>5
  <2>2. KeysTypes'
    BY <1>0, <1>1, <2>1 DEF KeysTypes, Newest
  <2>3. Renewing'
    BY <1>0, <1>1 DEF Renewing, Arrives, ValidAt
  <2> QED
    BY <2>2, <2>3
<1>2. CASE /\ awaited = "none" /\ second = wake /\ ~renewal_due /\ wake' = Slept(keys)
           /\ UNCHANGED <<awaited, sent, met, second, keys, backoff, answering, since>>
  BY <1>2, NotDue
<1>3. CASE certify_key
  <2>1. /\ awaited = "challenge" /\ answering = TRUE /\ awaited' = "delegate" /\ sent' = second /\ met' = TRUE
        /\ UNCHANGED <<second, keys, backoff, wake, answering, since>>
    BY <1>0, <1>3 DEF certify_key
  <2>2. \A k \in keys : k.not_before + LIFETIME \div 2 =< second
    <3> SUFFICES ASSUME NEW k \in keys PROVE k.not_before + LIFETIME \div 2 =< second
      OBVIOUS
    <3>1. k.not_before \in Int /\ LIFETIME \div 2 \in Nat /\ k.not_before + LIFETIME \div 2 =< sent
      BY <2>1, HalfLife DEF KeysTypes
    <3> QED
      BY <1>0, <2>1, <3>1
  <2>3. KeysTypes'
    BY <1>0, <2>1, <2>2 DEF KeysTypes, Newest
  <2>4. Renewing'
    <3>1. PICK T \in Nat : T = TIMEOUT
      BY <1>0
    <3>2. PICK M \in Nat : M = RETRY_MAX
      BY <1>0
    <3>3. PICK H \in Nat : H = Max(Skews)
      BY <1>0
    <3> SUFFICES ASSUME NEW t \in Int, second =< t, t =< second + T + H
                 PROVE  ValidAt(t) \/ t =< since + 3 * T + M + H
      BY <2>1, <3>1, <3>2, <3>3 DEF Renewing, Arrives, ValidAt
    <3>4. CASE met
      <4>1. t =< sent + 2 * T + H
        BY <1>0, <2>1, <3>1
      <4> QED
        BY <4>1, <2>1, <3>1, <3>2, <3>3, <3>4 DEF Renewing, Arrives
    <3>5. CASE ~met
      BY <1>0, <2>1, <3>1, <3>5
    <3> QED
      BY <3>4, <3>5
  <2> QED
    BY <2>3, <2>4
<1>4. CASE certified
  BY <1>4, Renewed
<1>5. CASE failed
  <2>1. /\ awaited # "none" /\ met = FALSE /\ awaited' = "none" /\ wake' = second + backoff
        /\ backoff' = Min({2 * backoff, RETRY_MAX})
        /\ UNCHANGED <<second, keys, sent, met, answering, since>>
    BY <1>0, <1>5 DEF failed
  <2>2. Min({2 * backoff, RETRY_MAX}) = IF 2 * backoff =< RETRY_MAX THEN 2 * backoff ELSE RETRY_MAX
    <3>1. 2 * backoff \in Int /\ RETRY_MAX \in Int
      BY <1>0
    <3> QED
      BY <3>1, MinOfTwo
  <2>3. backoff' \in 1 .. RETRY_MAX /\ wake' \in Nat /\ second =< wake' /\ wake' =< second + RETRY_MAX
    BY <1>0, <2>1, <2>2
  <2>4. KeysTypes'
    BY <1>0, <2>1, <2>3 DEF KeysTypes, Newest
  <2>5. Renewing'
    BY <1>0, <2>1, <2>3 DEF Renewing, Arrives
  <2> QED
    BY <2>4, <2>5
<1>6. CASE Second
  <2>1. /\ second < (IF awaited = "none" THEN wake ELSE sent + TIMEOUT) /\ second' = second + 1
        /\ UNCHANGED <<keys, backoff, wake, awaited, sent, met, answering, since>>
    BY <1>6 DEF Second
  <2>2. \A k \in keys : k.not_before \in Int
    BY HalfLife DEF KeysTypes
  <2>3. KeysTypes'
    BY <1>0, <2>1, <2>2 DEF KeysTypes, Newest
  <2>4. Renewing'
    BY <1>0, <2>1 DEF Renewing, Arrives, ValidAt
  <2> QED
    BY <2>3, <2>4
<1>7. CASE Turn
  <2>1. /\ since < second /\ since' = second /\ ~met' /\ met' \in BOOLEAN /\ answering' \in BOOLEAN
        /\ UNCHANGED <<second, keys, backoff, wake, awaited, sent>>
    BY <1>7 DEF Turn
  <2>2. KeysTypes'
    BY <1>0, <2>1 DEF KeysTypes, Newest
  <2>3. Renewing'
    BY <1>0, <2>1 DEF Renewing, Arrives
  <2> QED
    BY <2>2, <2>3
<1>8. CASE UNCHANGED keyvars
  BY <1>8 DEF keyvars, KeysTypes, Renewing, Arrives, ValidAt, Newest
<1> QED
  BY <1>1, <1>2, <1>3, <1>4, <1>5, <1>6, <1>7, <1>8 DEF KeysNext, spawn_renewal

(* While keyryx answers, a record is unsigned only at the end of an        *)
(* outage: for no longer than an attempt begun in it takes to fail, the    *)
(* longest retry, two posts and the clocks' difference (DelegatedSigner,   *)
(* spawn_renewal of crates/gateway/src/checkpoints.rs).                    *)
THEOREM RecordsAreSigned == KeysSpec => []SignedUnlessAway
<1>1. KeysInv => SignedUnlessAway
  <2> SUFFICES ASSUME KeysInv, answering, Valid = {}
               PROVE  second - since =< 3 * TIMEOUT + RETRY_MAX + Max(Skews)
    BY DEF SignedUnlessAway
  <2>1. /\ second \in Nat /\ since \in Nat /\ wake \in Nat /\ sent \in Nat /\ met \in BOOLEAN
        /\ awaited \in {"none", "challenge", "delegate"}
        /\ awaited = "none" => second =< wake
        /\ awaited # "none" => sent =< second /\ second =< sent + TIMEOUT
        /\ awaited # "none" /\ ~met => sent =< since
        /\ RETRY_MAX \in Nat /\ TIMEOUT \in Nat /\ Max(Skews) \in Nat
    BY HalfLife, TheSkews DEF KeysInv, KeysTypes
  <2>2. CASE awaited # "none" /\ ~met
    BY <2>1, <2>2
  <2>3. CASE awaited = "none" \/ met
    <3>1. second \in Int /\ second =< Arrives + Max(Skews)
      BY <2>1 DEF Arrives
    <3>2. second =< second
      BY <2>1
    <3>3. ~ValidAt(second)
      BY DEF ValidAt, Valid
    <3>4. second =< since + 3 * TIMEOUT + RETRY_MAX + Max(Skews)
      BY <2>3, <3>1, <3>2, <3>3 DEF KeysInv, Renewing
    <3> QED
      BY <2>1, <3>4
  <2> QED
    BY <2>2, <2>3
<1> QED
  BY <1>1, KeysStart, KeysMove, PTL DEF KeysSpec

-----------------------------------------------------------------------------
(* Checkpoints.                                                            *)

(* What the stream's parts are. *)
Texts == [id : Nat, event : BOOLEAN, size : Nat]
LineSet == [id : Nat, event : BOOLEAN, ends : Nat, acked : BOOLEAN, prev : Nat, linked : BOOLEAN]
Emits == [stage : {"idle", "write", "hash"}, lf : BOOLEAN, id : Nat, wrote : Nat]
Checkpointers ==
  [sum : Seq(Nat), off : Nat, count : Nat, head : Nat, prev : Nat, pending : Nat, len : Nat,
   gen : Nat, uncut : Nat, stands : Nat]
Records ==
  [kind : {"checkpoint", "close", "resume"}, count : Nat, head : Nat, prefix : Seq(Nat),
   prev : Nat, gen : Nat, ends : Nat, glued : Nat, uncut : Nat]
Spent == [emits : Nat, others : Nat, torn : Nat, failed : Nat, crashes : Nat, rotations : Nat]

StreamTypes ==
  /\ lines \in Seq(LineSet) /\ tail \in Texts /\ next \in Nat /\ emitting \in Emits
  /\ ck \in Checkpointers /\ waited \in Nat /\ sidecar \in Seq(Records) /\ torn \in Nat
  /\ up \in {"up", "down", "closed"} /\ gen \in Nat /\ linkgen \in Int /\ used \in Spent

(* The byte where line i of the stream ls ends, or record i of the sidecar. *)
End(ls, i) == IF i = 0 THEN 0 ELSE ls[i].ends

(* A fragment has bytes, and one that would be an event has an id. *)
Proper(t) == (t.event => t.id # 0) /\ (t # NoText => t.size > 0)

(* A stream's lines end one after the other, and an event has an id. *)
Good(ls) ==
  /\ ls \in Seq(LineSet)
  /\ \A i, j \in 0 .. Len(ls) : i < j => End(ls, i) < End(ls, j)
  /\ \A i \in 1 .. Len(ls) : ls[i].event => ls[i].id # 0

(* The stream ms is ls with lines added. *)
Grows(ls, ms) == Len(ls) <= Len(ms) /\ \A i \in 1 .. Len(ls) : ms[i] = ls[i]

Prefix(ls, n) == [i \in 1 .. n |-> ls[i].id]

(* The checkpointer c has hashed the first lines of ls and nothing else. *)
Follows(c, ls) ==
  /\ c.count \in 0 .. Len(ls) /\ c.off = End(ls, c.count) /\ c.sum = Prefix(ls, c.count)
  /\ c.head = IF c.count = 0 THEN 0 ELSE head_of_line(ls[c.count])

(* The record r is true of ls. *)
TrueOf(r, ls) ==
  /\ r.count \in 1 .. Len(ls) /\ r.head = head_of_line(ls[r.count]) /\ r.head # 0
  /\ r.prefix = Prefix(ls, r.count)

(* A line or text of the id stands in ls, with no acknowledged line after. *)
OnDisk(ls, id) ==
  \E j \in 1 .. Len(ls) : ls[j].id = id /\ \A k \in j + 1 .. Len(ls) : ~ls[k].acked

LinkedIn(ls) ==
  \A i \in 1 .. Len(ls) : ls[i].acked /\ ls[i].linked /\ ls[i].prev # 0 =>
    \E j \in 1 .. i - 1 : ls[j].id = ls[i].prev /\ \A k \in j + 1 .. i - 1 : ~ls[k].acked

(* The checkpointer c is at the last record of the sidecar q, with nothing *)
(* left after it; or it once failed to cut a record off, and the records   *)
(* before that are within the length it knows.                             *)
SideFollows(c, left, q) ==
  /\ c.stands <= Len(q) /\ End(q, c.stands) <= c.len
  /\ c.uncut = 0 => c.prev = Len(q) /\ left = 0 /\ c.stands = Len(q) /\ c.len = End(q, Len(q))

(* The running checkpointer is at a line's end of the stream it follows,   *)
(* and at the sidecar's last record.                                       *)
CkFollows ==
  /\ ck.stands <= Len(sidecar)
  /\ up = "up" =>
       /\ ck.gen <= gen /\ SideFollows(ck, torn, sidecar)
       /\ ck.gen = gen => Follows(ck, lines)

RecordsKept ==
  /\ \A i \in 1 .. Len(sidecar) : sidecar[i].gen <= gen
  /\ \A i \in 1 .. Len(sidecar) : sidecar[i].gen = gen => TrueOf(sidecar[i], lines)
  /\ \A i \in 1 .. Len(sidecar) :
       sidecar[i].uncut = 0 => sidecar[i].prev = i - 1 /\ sidecar[i].glued = 0

(* What the next event links to stands in the file, as its last event or   *)
(* as the fragment the next emit closes.                                   *)
NextOnDisk ==
  /\ linkgen <= gen
  /\ up = "up" /\ linkgen = gen /\ next # 0 =>
       OnDisk(lines, next) \/ (tail # NoText /\ tail.id = next /\ ck.gen = gen)

(* Between the look and the append: a fragment that was seen is there, or  *)
(* somebody closed it; where none was seen what the event links to stands  *)
(* in the file, whatever fragment has come since.                          *)
Writing ==
  emitting.stage = "write" =>
    /\ up = "up" /\ emitting.id # 0
    /\ ck.gen = gen =>
         IF emitting.lf THEN tail # NoText \/ End(lines, Len(lines)) >= ck.off + 3
         ELSE linkgen = gen /\ next # 0 => OnDisk(lines, next)

(* Between the append and the hash: the own line is past what is hashed,   *)
(* and behind or glued to a fragment the file grew by more than was        *)
(* written.                                                                *)
Hashing ==
  emitting.stage = "hash" =>
    /\ up = "up"
    /\ ck.gen = gen =>
         IF emitting.lf THEN emitting.wrote = 3 /\ End(lines, Len(lines)) >= ck.off + 4
         ELSE /\ emitting.wrote = 2
              /\ \/ End(lines, Len(lines)) >= ck.off + 3
                 \/ /\ next = emitting.id
                    /\ \E j \in 1 .. Len(lines) :
                         /\ ck.count < j /\ lines[j].ends = End(lines, j - 1) + 2
                         /\ lines[j].id = emitting.id /\ lines[j].event

StreamInv ==
  /\ StreamTypes /\ Good(lines) /\ Proper(tail)
  /\ CkFollows /\ RecordsKept /\ LinkedIn(lines) /\ NextOnDisk /\ Writing /\ Hashing

-----------------------------------------------------------------------------
LEMMA ThroughEnd ==
  ASSUME NEW ls, Good(ls)
  PROVE  /\ Through(ls) = End(ls, Len(ls))
         /\ \A i \in 0 .. Len(ls) : End(ls, i) \in Nat
         /\ \A i, j \in 0 .. Len(ls) : i <= j => End(ls, i) <= End(ls, j)
  <1>1. ls \in Seq(LineSet) /\ Len(ls) \in Nat
    BY DEF Good
  <1>2. \A i \in 1 .. Len(ls) : ls[i] \in LineSet
    BY <1>1
  <1>3. \A i \in 0 .. Len(ls) : End(ls, i) \in Nat
    BY <1>1, <1>2 DEF End, LineSet
  <1>4. \A i, j \in 0 .. Len(ls) : i <= j => End(ls, i) <= End(ls, j)
    <2> SUFFICES ASSUME NEW i \in 0 .. Len(ls), NEW j \in 0 .. Len(ls), i <= j
                 PROVE  End(ls, i) <= End(ls, j)
      OBVIOUS
    <2>1. CASE i = j
      BY <1>3, <2>1
    <2>2. CASE i # j
      <3>1. i < j
        BY <2>2, <1>1
      <3> QED
        BY <3>1, <1>3 DEF Good
    <2> QED
      BY <2>1, <2>2
  <1>5. Through(ls) = End(ls, Len(ls))
    <2>1. CASE ls = <<>>
      BY <2>1 DEF Through, End
    <2>2. CASE ls # <<>>
      <3>1. Len(ls) # 0
        BY <2>2, <1>1
      <3> QED
        BY <2>2, <3>1 DEF Through, End, Last
    <2> QED
      BY <2>1, <2>2
  <1> QED
    BY <1>3, <1>4, <1>5

(* A line added at the end leaves the others where they stand. *)
LEMMA AppendGrows ==
  ASSUME NEW ls, Good(ls), NEW l \in LineSet, l.ends > End(ls, Len(ls)), l.event => l.id # 0,
         NEW ms, ms = Append(ls, l)
  PROVE  /\ Good(ms) /\ Grows(ls, ms)
         /\ Len(ms) = Len(ls) + 1 /\ ms[Len(ms)] = l /\ Len(ls) \in Nat
         /\ End(ms, Len(ms)) = l.ends
         /\ \A i \in 0 .. Len(ls) : End(ms, i) = End(ls, i)
  <1>1. ls \in Seq(LineSet) /\ Len(ls) \in Nat
    BY DEF Good
  <1>2. ms \in Seq(LineSet) /\ Len(ms) = Len(ls) + 1 /\ ms[Len(ms)] = l
    BY <1>1
  <1>3. \A i \in 1 .. Len(ls) : ms[i] = ls[i]
    BY <1>1
  <1>4. Grows(ls, ms)
    BY <1>1, <1>2, <1>3 DEF Grows
  <1>5. \A i \in 0 .. Len(ls) : End(ms, i) = End(ls, i)
    BY <1>1, <1>3 DEF End
  <1>6. End(ms, Len(ms)) = l.ends
    BY <1>1, <1>2 DEF End
  <1>7. l.ends \in Nat
    BY DEF LineSet
  <1>8. \A i, j \in 0 .. Len(ms) : i < j => End(ms, i) < End(ms, j)
    <2> SUFFICES ASSUME NEW i \in 0 .. Len(ms), NEW j \in 0 .. Len(ms), i < j
                 PROVE  End(ms, i) < End(ms, j)
      OBVIOUS
    <2>1. CASE j \in 0 .. Len(ls)
      <3>1. i \in 0 .. Len(ls)
        BY <2>1, <1>1, <1>2
      <3> QED
        BY <3>1, <2>1, <1>5 DEF Good
    <2>2. CASE j = Len(ms)
      <3>1. i \in 0 .. Len(ls) /\ Len(ls) \in 0 .. Len(ls)
        BY <2>2, <1>1, <1>2
      <3>2. End(ls, i) <= End(ls, Len(ls)) /\ End(ls, i) \in Nat /\ End(ls, Len(ls)) \in Nat
        BY <3>1, <1>1, ThroughEnd
      <3>3. End(ms, i) = End(ls, i)
        BY <3>1, <1>5
      <3> QED
        BY <2>2, <3>2, <3>3, <1>6, <1>7
    <2> QED
      BY <2>1, <2>2, <1>1, <1>2
  <1>9. \A i \in 1 .. Len(ms) : ms[i].event => ms[i].id # 0
    <2> SUFFICES ASSUME NEW i \in 1 .. Len(ms), ms[i].event
                 PROVE  ms[i].id # 0
      OBVIOUS
    <2>1. CASE i \in 1 .. Len(ls)
      BY <2>1, <1>3 DEF Good
    <2>2. CASE i = Len(ms)
      BY <2>2, <1>2
    <2> QED
      BY <2>1, <2>2, <1>1, <1>2
  <1> QED
    BY <1>1, <1>2, <1>4, <1>5, <1>6, <1>8, <1>9 DEF Good

(* What holds of the lines there were holds when more are added. *)
LEMMA GrowsKeeps ==
  ASSUME NEW ls, Good(ls), NEW ms, Good(ms), Grows(ls, ms)
  PROVE  /\ \A c : Follows(c, ls) => Follows(c, ms)
         /\ \A r : TrueOf(r, ls) => TrueOf(r, ms)
  <1>1. Len(ls) \in Nat /\ Len(ms) \in Nat /\ Len(ls) <= Len(ms)
    BY DEF Good, Grows
  <1>2. \A i \in 1 .. Len(ls) : ms[i] = ls[i]
    BY DEF Grows
  <1>3. \A n \in 0 .. Len(ls) : Prefix(ms, n) = Prefix(ls, n) /\ End(ms, n) = End(ls, n)
    BY <1>1, <1>2 DEF Prefix, End
  <1>4. ASSUME NEW c, Follows(c, ls)
        PROVE  Follows(c, ms)
    <2>1. c.count \in 0 .. Len(ls) /\ c.count \in 0 .. Len(ms)
      BY <1>4, <1>1 DEF Follows
    <2>2. Prefix(ms, c.count) = Prefix(ls, c.count) /\ End(ms, c.count) = End(ls, c.count)
      BY <2>1, <1>3
    <2>3. c.count # 0 => ms[c.count] = ls[c.count]
      BY <2>1, <1>2
    <2> QED
      BY <1>4, <2>1, <2>2, <2>3 DEF Follows
  <1>5. ASSUME NEW r, TrueOf(r, ls)
        PROVE  TrueOf(r, ms)
    <2>1. r.count \in 1 .. Len(ls) /\ r.count \in 0 .. Len(ls) /\ r.count \in 1 .. Len(ms)
      BY <1>5, <1>1 DEF TrueOf
    <2>2. Prefix(ms, r.count) = Prefix(ls, r.count) /\ ms[r.count] = ls[r.count]
      BY <2>1, <1>2, <1>3
    <2> QED
      BY <1>5, <2>1, <2>2 DEF TrueOf
  <1> QED
    BY <1>4, <1>5

(* An unacknowledged line at the end breaks no link. *)
LEMMA UnackedKeeps ==
  ASSUME NEW ls, Good(ls), NEW l \in LineSet, ~l.acked, NEW ms, ms = Append(ls, l)
  PROVE  /\ LinkedIn(ls) => LinkedIn(ms)
         /\ \A id : OnDisk(ls, id) => OnDisk(ms, id)
         /\ OnDisk(ms, l.id)
  <1>1. ls \in Seq(LineSet) /\ Len(ls) \in Nat
    BY DEF Good
  <1>2. Len(ms) = Len(ls) + 1 /\ ms[Len(ms)] = l /\ \A i \in 1 .. Len(ls) : ms[i] = ls[i]
    BY <1>1
  <1>3. ASSUME LinkedIn(ls)
        PROVE  LinkedIn(ms)
    <2> SUFFICES ASSUME NEW i \in 1 .. Len(ms), ms[i].acked, ms[i].linked, ms[i].prev # 0
                 PROVE  \E j \in 1 .. i - 1 : ms[j].id = ms[i].prev /\ \A k \in j + 1 .. i - 1 : ~ms[k].acked
      BY DEF LinkedIn
    <2>1. i \in 1 .. Len(ls) /\ ms[i] = ls[i]
      BY <1>1, <1>2
    <2>2. PICK j \in 1 .. i - 1 : ls[j].id = ls[i].prev /\ \A k \in j + 1 .. i - 1 : ~ls[k].acked
      BY <1>3, <2>1 DEF LinkedIn
    <2>3. ms[j] = ls[j] /\ \A k \in j + 1 .. i - 1 : ms[k] = ls[k]
      BY <2>1, <1>1, <1>2
    <2> QED
      BY <2>1, <2>2, <2>3
  <1>4. ASSUME NEW id, OnDisk(ls, id)
        PROVE  OnDisk(ms, id)
    <2>1. PICK j \in 1 .. Len(ls) : ls[j].id = id /\ \A k \in j + 1 .. Len(ls) : ~ls[k].acked
      BY <1>4 DEF OnDisk
    <2>2. j \in 1 .. Len(ms) /\ ms[j].id = id
      BY <2>1, <1>1, <1>2
    <2>3. \A k \in j + 1 .. Len(ms) : ~ms[k].acked
      <3> SUFFICES ASSUME NEW k \in j + 1 .. Len(ms)
                   PROVE  ~ms[k].acked
        OBVIOUS
      <3>1. k = Len(ms) \/ (k \in j + 1 .. Len(ls) /\ ms[k] = ls[k])
        BY <2>1, <1>1, <1>2
      <3> QED
        BY <3>1, <2>1, <1>2
    <2> QED
      BY <2>2, <2>3 DEF OnDisk
  <1>5. OnDisk(ms, l.id)
    <2>1. Len(ms) \in 1 .. Len(ms) /\ Len(ms) + 1 .. Len(ms) = {}
      BY <1>1, <1>2
    <2> QED
      BY <2>1, <1>2 DEF OnDisk
  <1> QED
    BY <1>3, <1>4, <1>5

(* An acknowledged one links to what is on disk. *)
LEMMA AckedKeeps ==
  ASSUME NEW ls, Good(ls), LinkedIn(ls), NEW l \in LineSet, NEW ms, ms = Append(ls, l),
         l.linked /\ l.prev # 0 => OnDisk(ls, l.prev)
  PROVE  LinkedIn(ms) /\ OnDisk(ms, l.id)
  <1>1. ls \in Seq(LineSet) /\ Len(ls) \in Nat
    BY DEF Good
  <1>2. Len(ms) = Len(ls) + 1 /\ ms[Len(ms)] = l /\ \A i \in 1 .. Len(ls) : ms[i] = ls[i]
    BY <1>1
  <1>3. LinkedIn(ms)
    <2> SUFFICES ASSUME NEW i \in 1 .. Len(ms), ms[i].acked, ms[i].linked, ms[i].prev # 0
                 PROVE  \E j \in 1 .. i - 1 : ms[j].id = ms[i].prev /\ \A k \in j + 1 .. i - 1 : ~ms[k].acked
      BY DEF LinkedIn
    <2>1. \E j \in 1 .. i - 1 : ls[j].id = ms[i].prev /\ \A k \in j + 1 .. i - 1 : ~ls[k].acked
      <3>1. CASE i \in 1 .. Len(ls)
        BY <3>1, <1>2 DEF LinkedIn
      <3>2. CASE i = Len(ms)
        <4>1. OnDisk(ls, ms[i].prev) /\ i - 1 = Len(ls)
          BY <3>2, <1>1, <1>2
        <4> QED
          BY <4>1 DEF OnDisk
      <3> QED
        BY <3>1, <3>2, <1>1, <1>2
    <2>2. PICK j \in 1 .. i - 1 : ls[j].id = ms[i].prev /\ \A k \in j + 1 .. i - 1 : ~ls[k].acked
      BY <2>1
    <2>3. ms[j] = ls[j] /\ \A k \in j + 1 .. i - 1 : ms[k] = ls[k]
      BY <1>1, <1>2
    <2> QED
      BY <2>2, <2>3
  <1>4. OnDisk(ms, l.id)
    <2>1. Len(ms) \in 1 .. Len(ms) /\ Len(ms) + 1 .. Len(ms) = {}
      BY <1>1, <1>2
    <2> QED
      BY <2>1, <1>2 DEF OnDisk
  <1> QED
    BY <1>3, <1>4

(* A set of naturals has a least member, a bounded one a greatest. *)
LEMMA LeastOf ==
  ASSUME NEW S \in SUBSET Nat, S # {}
  PROVE  Min(S) \in S /\ \A y \in S : Min(S) <= y
  <1> DEFINE R == OpToRel(<, Nat)
  <1>1. IsWellFoundedOn(R, Nat)
    BY NatLessThanWellFounded, Zenon
  <1>2. \A x, y \in Nat : x < y => <<x, y>> \in R
    BY Zenon DEF OpToRel
  <1> HIDE DEF R
  <1>3. PICK x \in S : \A y \in S : ~(<<y, x>> \in R)
    BY <1>1, WFMin, Zenon
  <1>4. \A y \in S : ~(y < x)
    BY <1>2, <1>3, Zenon
  <1>5. \A y \in S : x <= y
    BY <1>4
  <1> QED
    BY <1>5 DEF Min

LEMMA GreatestOf ==
  ASSUME NEW n \in Nat, NEW S \in SUBSET (1 .. n), S # {}
  PROVE  Max(S) \in S /\ \A y \in S : Max(S) >= y
  <1> DEFINE T == {n - y : y \in S}
  <1>0. \A y \in S : n - y \in Nat
    OBVIOUS
  <1>1. T \in SUBSET Nat /\ T # {}
    BY <1>0, Zenon
  <1> HIDE DEF T
  <1>2. Min(T) \in T /\ \A y \in T : Min(T) <= y
    BY <1>1, LeastOf
  <1>3. PICK x \in S : Min(T) = n - x
    BY <1>2 DEF T
  <1>4. \A y \in S : n - x <= n - y
    BY <1>2, <1>3 DEF T
  <1>5. \A y \in S : x >= y
    BY <1>4
  <1> QED
    BY <1>5 DEF Max

-----------------------------------------------------------------------------
LEMMA IdsOfPrefix ==
  ASSUME NEW ls \in Seq(LineSet), NEW n \in 0 .. Len(ls)
  PROVE  /\ Ids(SubSeq(ls, 1, n)) = Prefix(ls, n)
         /\ Prefix(ls, n) \in Seq(Nat) /\ Len(Prefix(ls, n)) = n
  <1>1. Len(SubSeq(ls, 1, n)) = n /\ \A i \in 1 .. n : SubSeq(ls, 1, n)[i] = ls[i]
    OBVIOUS
  <1>2. SubSeq(ls, 1, n) \in Seq(LineSet)
    OBVIOUS
  <1>3. DOMAIN SubSeq(ls, 1, n) = 1 .. n
    BY <1>1, <1>2
  <1>0. \A i \in 1 .. n : ls[i] \in LineSet
    OBVIOUS
  <1>4. \A i \in 1 .. n : ls[i].id \in Nat
    BY <1>0 DEF LineSet
  <1>5. Prefix(ls, n) \in Seq(Nat) /\ Len(Prefix(ls, n)) = n
    BY <1>4 DEF Prefix
  <1>6. Ids(SubSeq(ls, 1, n)) = Prefix(ls, n)
    BY <1>1, <1>3 DEF Ids, Prefix
  <1> QED
    BY <1>5, <1>6

(* scan from the end of line n reads the lines after it. *)
LEMMA ScanReads ==
  ASSUME Good(lines)
  PROVE  /\ \A off \in Nat : scan(off) \in Seq(LineSet)
         /\ \A n \in 0 .. Len(lines) :
              /\ Len(scan(End(lines, n))) = Len(lines) - n
              /\ \A i \in 1 .. Len(lines) - n : scan(End(lines, n))[i] = lines[n + i]
  <1>1. lines \in Seq(LineSet) /\ Len(lines) \in Nat
    BY DEF Good
  <1>0. DOMAIN lines = 1 .. Len(lines)
    BY <1>1
  <1>2. ASSUME NEW off \in Nat
        PROVE  scan(off) \in Seq(LineSet)
    <2> DEFINE after == {i \in DOMAIN lines : lines[i].ends > off}
    <2>1. CASE after = {}
      BY <2>1 DEF scan
    <2>2. CASE after # {}
      <3>1. after \in SUBSET Nat
        BY <1>0
      <3>2. Min(after) \in 1 .. Len(lines)
        BY <3>1, <2>2, <1>0, LeastOf
      <3>3. scan(off) = SubSeq(lines, Min(after), Len(lines))
        BY <2>2 DEF scan
      <3> HIDE DEF after
      <3> QED
        BY <3>2, <3>3, <1>1
    <2> QED
      BY <2>1, <2>2
  <1>3. ASSUME NEW n \in 0 .. Len(lines)
        PROVE  /\ Len(scan(End(lines, n))) = Len(lines) - n
               /\ \A i \in 1 .. Len(lines) - n : scan(End(lines, n))[i] = lines[n + i]
    <2> DEFINE after == {i \in DOMAIN lines : lines[i].ends > End(lines, n)}
    <2>0. \A i \in 0 .. Len(lines) : End(lines, i) \in Nat
      BY ThroughEnd
    <2>1. \A i \in 1 .. Len(lines) : lines[i].ends > End(lines, n) <=> i > n
      <3> SUFFICES ASSUME NEW i \in 1 .. Len(lines)
                   PROVE  lines[i].ends > End(lines, n) <=> i > n
        OBVIOUS
      <3>1. i \in 0 .. Len(lines) /\ End(lines, i) = lines[i].ends
        BY DEF End
      <3>2. i > n => End(lines, n) < End(lines, i)
        BY <3>1, <1>1 DEF Good
      <3>3. i <= n => End(lines, i) <= End(lines, n)
        BY <3>1, ThroughEnd
      <3>4. i > n \/ i <= n
        BY <1>1
      <3> QED
        BY <3>1, <3>2, <3>3, <3>4, <2>0, <1>1
    <2>2. after = n + 1 .. Len(lines)
      BY <2>1, <1>0, <1>1
    <2>3. scan(End(lines, n)) = IF after = {} THEN <<>> ELSE SubSeq(lines, Min(after), Len(lines))
      BY DEF scan
    <2> HIDE DEF after
    <2>4. CASE n = Len(lines)
      <3>1. scan(End(lines, n)) = <<>>
        BY <2>2, <2>3, <2>4, <1>1
      <3> QED
        BY <3>1, <2>4, <1>1
    <2>5. CASE n # Len(lines)
      <3>0. n \in Nat /\ n + 1 <= Len(lines)
        BY <2>5, <1>1
      <3>1. after # {} /\ after \in SUBSET Nat /\ n + 1 \in after
        BY <2>2, <3>0, <1>1
      <3>2. Min(after) \in after /\ Min(after) <= n + 1
        BY <3>1, LeastOf
      <3>3. Min(after) = n + 1
        BY <3>2, <2>2, <1>1
      <3>4. scan(End(lines, n)) = SubSeq(lines, n + 1, Len(lines))
        BY <3>1, <3>3, <2>3
      <3> QED
        BY <3>0, <3>4, <1>1
    <2> QED
      BY <2>4, <2>5
  <1> QED
    BY <1>2, <1>3

LEMMA RecordEnds ==
  ASSUME NEW q \in Seq(Records)
  PROVE  /\ Through(q) = End(q, Len(q)) /\ Len(q) \in Nat
         /\ \A i \in 0 .. Len(q) : End(q, i) \in Nat
  <1>1. Len(q) \in Nat /\ \A i \in 1 .. Len(q) : q[i] \in Records
    OBVIOUS
  <1>2. \A i \in 0 .. Len(q) : End(q, i) \in Nat
    <2>1. \A i \in 1 .. Len(q) : q[i].ends \in Nat
      BY <1>1 DEF Records
    <2> QED
      BY <1>1, <2>1 DEF End
  <1>3. Through(q) = End(q, Len(q))
    <2>1. CASE q = <<>>
      BY <2>1 DEF Through, End
    <2>2. CASE q # <<>>
      <3>1. Len(q) # 0
        BY <2>2, <1>1
      <3> QED
        BY <2>2, <3>1 DEF Through, End, Last
    <2> QED
      BY <2>1, <2>2
  <1> QED
    BY <1>1, <1>2, <1>3

LEMMA SubSeqOfRecords ==
  ASSUME NEW q \in Seq(Records), NEW k \in 0 .. Len(q)
  PROVE  /\ SubSeq(q, 1, k) \in Seq(Records) /\ Len(SubSeq(q, 1, k)) = k
         /\ \A i \in 1 .. k : SubSeq(q, 1, k)[i] = q[i]
  OBVIOUS

(* A cut keeps every record up to one that ends by there, and no byte more *)
(* than it says.                                                           *)
LEMMA CutLeaves ==
  ASSUME sidecar \in Seq(Records), NEW len \in Nat, NEW n \in 0 .. Len(sidecar),
         End(sidecar, n) <= len
  PROVE  \E k \in n .. Len(sidecar) : CutTo(len) = SubSeq(sidecar, 1, k) /\ End(sidecar, k) <= len
  <1> DEFINE kept == {i \in DOMAIN sidecar : sidecar[i].ends =< len}
  <1>1. CutTo(len) = IF kept = {} THEN <<>> ELSE SubSeq(sidecar, 1, Max(kept))
    BY DEF CutTo
  <1>2. Len(sidecar) \in Nat /\ DOMAIN sidecar = 1 .. Len(sidecar)
    OBVIOUS
  <1>3. n # 0 => n \in kept
    BY <1>2 DEF End
  <1>4. \A i \in kept : i \in 1 .. Len(sidecar) /\ sidecar[i].ends <= len
    BY <1>2
  <1>5. kept \in SUBSET (1 .. Len(sidecar))
    BY <1>4
  <1> HIDE DEF kept
  <1>6. CASE kept = {}
    <2>1. n = 0 /\ 0 \in n .. Len(sidecar) /\ End(sidecar, 0) <= len
      BY <1>2, <1>3, <1>6
    <2>2. SubSeq(sidecar, 1, 0) = <<>>
      OBVIOUS
    <2> QED
      BY <1>1, <1>6, <2>1, <2>2
  <1>7. CASE kept # {}
    <2>1. Max(kept) \in kept /\ \A y \in kept : Max(kept) >= y
      BY <1>2, <1>5, <1>7, GreatestOf
    <2>2. PICK k : k = Max(kept)
      OBVIOUS
    <2>3. k \in 1 .. Len(sidecar) /\ sidecar[k].ends <= len
      BY <1>4, <2>1, <2>2
    <2>4. k >= n
      BY <1>3, <2>1, <2>2, <2>3, <1>2
    <2>5. k \in n .. Len(sidecar) /\ End(sidecar, k) <= len
      BY <2>3, <2>4, <1>2 DEF End
    <2> QED
      BY <1>1, <1>7, <2>2, <2>5
  <1> QED
    BY <1>6, <1>7

LEMMA AppendedAt ==
  ASSUME NEW q \in Seq(Records), NEW e \in Records
  PROVE  /\ Append(q, e) \in Seq(Records) /\ Len(Append(q, e)) = Len(q) + 1
         /\ Append(q, e)[Len(q) + 1] = e
         /\ \A i \in 1 .. Len(q) : Append(q, e)[i] = q[i]
  OBVIOUS

LEMMA ConcatAt ==
  ASSUME NEW x \in Seq(Nat), NEW y \in Seq(Nat), NEW m \in 1 .. Len(y)
  PROVE  (x \o y)[Len(x) + m] = y[m]
  <1>1. Len(x) \in Nat /\ Len(y) \in Nat /\ m \in Nat /\ m >= 1 /\ m <= Len(y)
    OBVIOUS
  <1>2. Len(x) + m \in 1 .. Len(x) + Len(y) /\ ~(Len(x) + m <= Len(x)) /\ (Len(x) + m) - Len(x) = m
    BY <1>1
  <1> QED
    BY <1>2

SameSide(a, c) == a.prev = c.prev /\ a.len = c.len /\ a.uncut = c.uncut /\ a.stands = c.stands

(* What advance makes of a checkpointer that follows the stream, or one of *)
(* an earlier generation: one that has hashed everything there is, or one  *)
(* that still is of the earlier.                                           *)
LEMMA AdvanceFollows ==
  ASSUME Good(lines), tail \in Texts, gen \in Nat, NEW c \in Checkpointers,
         c.gen <= gen, c.gen = gen => Follows(c, lines)
  PROVE  /\ advance(c) \in Checkpointers /\ SameSide(advance(c), c)
         /\ advance(c).gen <= gen /\ (c.gen = gen => advance(c).gen = gen)
         /\ advance(c).gen = gen => Follows(advance(c), lines)
  <1>1. lines \in Seq(LineSet) /\ Len(lines) \in Nat /\ Len(lines) \in 0 .. Len(lines) /\ 0 \in 0 .. Len(lines)
    BY DEF Good
  <1>2. Through(lines) = End(lines, Len(lines)) /\ \A i \in 0 .. Len(lines) : End(lines, i) \in Nat
    BY ThroughEnd
  <1> DEFINE cut == Size(lines, tail) < c.off
  <1> DEFINE b == IF cut THEN [c EXCEPT !.sum = <<>>, !.off = 0, !.count = 0, !.head = 0, !.gen = gen] ELSE c
  <1> DEFINE got == scan(b.off)
  <1>6. advance(c) =
          IF got = <<>> THEN b
          ELSE [b EXCEPT !.sum = b.sum \o Ids(got), !.off = Size(lines, NoText),
                         !.count = b.count + Len(got), !.head = head_of_line(Last(got)),
                         !.pending = b.pending + Len(got)]
    BY DEF advance
  <1>7. Size(lines, NoText) = End(lines, Len(lines)) /\ Size(lines, tail) >= End(lines, Len(lines))
    BY <1>1, <1>2 DEF Size, NoText, Texts
  <1>8. c.gen = gen => ~cut
    <2> SUFFICES ASSUME c.gen = gen PROVE ~cut
      OBVIOUS
    <2>1. c.off = End(lines, c.count) /\ c.count \in 0 .. Len(lines)
      BY DEF Follows
    <2>2. End(lines, c.count) <= End(lines, Len(lines))
      BY <2>1, <1>1, ThroughEnd
    <2>3. Size(lines, tail) \in Nat
      BY <1>1, <1>2 DEF Size, Texts
    <2> QED
      BY <1>1, <1>2, <1>7, <2>1, <2>2, <2>3
  <1>9. /\ b \in Checkpointers /\ SameSide(b, c) /\ b.gen <= gen
        /\ c.gen = gen => b.gen = gen
        /\ b.gen = gen => Follows(b, lines)
    <2>1. CASE cut
      <3>0. <<>> \in Seq(Nat)
        OBVIOUS
      <3>1. /\ b.sum = <<>> /\ b.off = 0 /\ b.count = 0 /\ b.head = 0 /\ b.gen = gen
            /\ SameSide(b, c) /\ b \in Checkpointers
        BY <2>1, <3>0 DEF Checkpointers, SameSide
      <3>2. Prefix(lines, 0) = <<>>
        BY <1>1, IdsOfPrefix
      <3>3. Follows(b, lines)
        BY <3>1, <3>2, <1>1 DEF Follows, End
      <3> QED
        BY <3>1, <3>3
    <2>2. CASE ~cut
      BY <2>2 DEF SameSide
    <2> QED
      BY <2>1, <2>2
  <1>10. got \in Seq(LineSet) /\ Len(got) \in Nat
    <2>1. b.off \in Nat
      BY <1>9 DEF Checkpointers
    <2> QED
      BY <2>1, ScanReads
  <1> HIDE DEF b, got, cut
  <1>11. CASE got = <<>>
    BY <1>6, <1>9, <1>11
  <1>12. CASE got # <<>>
    <2>1. Len(got) # 0 /\ Last(got) = got[Len(got)] /\ Last(got) \in LineSet
      BY <1>10, <1>12 DEF Last
    <2>2. head_of_line(Last(got)) \in Nat
      BY <2>1 DEF head_of_line, LineSet
    <2>3. Ids(got) \in Seq(Nat) /\ Len(Ids(got)) = Len(got) /\ \A i \in 1 .. Len(got) : Ids(got)[i] = got[i].id
      <3>1. DOMAIN got = 1 .. Len(got) /\ \A i \in 1 .. Len(got) : got[i] \in LineSet
        BY <1>10
      <3>2. \A i \in 1 .. Len(got) : got[i].id \in Nat
        BY <3>1 DEF LineSet
      <3>3. Ids(got) = [i \in 1 .. Len(got) |-> got[i].id]
        BY <3>1 DEF Ids
      <3> QED
        BY <3>2, <3>3, <1>10
    <2>4. b.sum \in Seq(Nat) /\ b.sum \o Ids(got) \in Seq(Nat)
      BY <1>9, <2>3 DEF Checkpointers
    <2>5. PICK a : a = advance(c)
      OBVIOUS
    <2>6. PICK s : s = b.sum \o Ids(got)
      OBVIOUS
    <2>7. PICK h : h = head_of_line(Last(got))
      OBVIOUS
    <2>8. a = [b EXCEPT !.sum = s, !.off = Size(lines, NoText), !.count = b.count + Len(got),
                        !.head = h, !.pending = b.pending + Len(got)]
      BY <1>6, <1>12, <2>5, <2>6, <2>7
    <2>9. /\ a \in Checkpointers /\ SameSide(a, b) /\ a.gen = b.gen
          /\ a.sum = s /\ a.off = Size(lines, NoText) /\ a.count = b.count + Len(got) /\ a.head = h
      <3>1. s \in Seq(Nat) /\ h \in Nat /\ Size(lines, NoText) \in Nat
        BY <2>2, <2>4, <2>6, <2>7, <1>1, <1>2, <1>7
      <3>2. b.count + Len(got) \in Nat /\ b.pending + Len(got) \in Nat
        <4>1. b.count \in Nat /\ b.pending \in Nat
          BY <1>9 DEF Checkpointers
        <4> QED
          BY <4>1, <1>10
      <3>3. PICK z, k, p : z = Size(lines, NoText) /\ k = b.count + Len(got) /\ p = b.pending + Len(got)
        OBVIOUS
      <3>4. a = [b EXCEPT !.sum = s, !.off = z, !.count = k, !.head = h, !.pending = p]
        BY <2>8, <3>3
      <3>5. s \in Seq(Nat) /\ z \in Nat /\ k \in Nat /\ h \in Nat /\ p \in Nat /\ b \in Checkpointers
        BY <3>1, <3>2, <3>3, <1>9
      <3>6. /\ a \in Checkpointers /\ SameSide(a, b) /\ a.gen = b.gen
            /\ a.sum = s /\ a.off = z /\ a.count = k /\ a.head = h
        BY <3>4, <3>5 DEF Checkpointers, SameSide
      <3> QED
        BY <3>3, <3>6
    <2>10. ASSUME a.gen = gen
           PROVE  Follows(a, lines)
      <3>1. Follows(b, lines) /\ b.count \in 0 .. Len(lines)
        BY <2>9, <2>10, <1>9 DEF Follows
      <3>2. b.off = End(lines, b.count)
        BY <3>1 DEF Follows
      <3>3. /\ Len(got) = Len(lines) - b.count
            /\ \A i \in 1 .. Len(lines) - b.count : got[i] = lines[b.count + i]
        BY <3>1, <3>2, ScanReads DEF got
      <3>4. a.count = Len(lines) /\ a.off = End(lines, a.count)
        BY <3>1, <3>3, <2>9, <1>1, <1>7
      <3>5. a.head = head_of_line(lines[a.count]) /\ a.count # 0
        <4>1. b.count \in Nat /\ Len(got) \in 1 .. Len(lines) - b.count /\ a.count = b.count + Len(got)
          BY <3>1, <3>3, <2>1, <2>9, <1>1, <1>10
        <4>2. got[Len(got)] = lines[a.count] /\ a.count # 0
          BY <4>1, <3>3
        <4> QED
          BY <4>2, <2>1, <2>7, <2>9
      <3>6. b.sum = Prefix(lines, b.count)
        BY <3>1 DEF Follows
      <3>7. s = Prefix(lines, Len(lines))
        <4>1. Len(Prefix(lines, b.count)) = b.count /\ Prefix(lines, b.count) \in Seq(Nat)
          BY <3>1, <1>1, IdsOfPrefix
        <4>2. s \in Seq(Nat) /\ Len(s) = Len(lines)
          BY <4>1, <3>1, <3>3, <3>6, <2>3, <2>6, <1>1
        <4>3. \A i \in 1 .. Len(lines) : s[i] = lines[i].id
          <5> SUFFICES ASSUME NEW i \in 1 .. Len(lines) PROVE s[i] = lines[i].id
            OBVIOUS
          <5>1. CASE i <= b.count
            <6>1. i \in 1 .. b.count
              BY <5>1, <3>1, <1>1
            <6>2. s[i] = Prefix(lines, b.count)[i]
              BY <6>1, <4>1, <3>6, <2>3, <2>6
            <6> QED
              BY <6>1, <6>2 DEF Prefix
          <5>2. CASE i > b.count
            <6>1. i - b.count \in 1 .. Len(got) /\ i - b.count \in 1 .. Len(lines) - b.count /\ b.count + (i - b.count) = i
              BY <5>2, <3>1, <3>3, <1>1
            <6>2. s[i] = Ids(got)[i - b.count]
              <7>1. PICK x, y, m : x = Prefix(lines, b.count) /\ y = Ids(got) /\ m = i - b.count
                OBVIOUS
              <7>2. /\ x \in Seq(Nat) /\ y \in Seq(Nat) /\ Len(x) = b.count /\ m \in 1 .. Len(y)
                    /\ b.count \in Nat /\ i = Len(x) + m /\ s = x \o y
                BY <7>1, <6>1, <4>1, <3>1, <3>6, <2>3, <2>6, <1>1
              <7>3. (x \o y)[Len(x) + m] = y[m]
                BY <7>2, ConcatAt
              <7> QED
                BY <7>1, <7>2, <7>3
            <6> QED
              BY <6>1, <6>2, <3>3, <2>3
          <5> QED
            BY <5>1, <5>2, <3>1, <1>1
        <4> QED
          BY <4>2, <4>3 DEF Prefix
      <3> QED
        BY <3>4, <3>5, <3>7, <2>9, <1>1 DEF Follows
    <2> QED
      BY <2>5, <2>9, <2>10, <1>9 DEF SameSide
  <1> QED
    BY <1>11, <1>12

-----------------------------------------------------------------------------
Outcomes4 == {"ok", "nothing", "cut", "uncut"}

LEMMA CkFields ==
  ASSUME NEW c \in Checkpointers
  PROVE  /\ c.sum \in Seq(Nat) /\ c.off \in Nat /\ c.count \in Nat /\ c.head \in Nat
         /\ c.prev \in Nat /\ c.pending \in Nat /\ c.len \in Nat /\ c.gen \in Nat
         /\ c.uncut \in Nat /\ c.stands \in Nat
  BY DEF Checkpointers

(* What the checkpointer is after an attempt at a record. *)
LEMMA WriteKeeps ==
  ASSUME NEW c \in Checkpointers, NEW outcome \in Outcomes4, sidecar \in Seq(Records),
         NEW k, k = write_record(c, outcome)
  PROVE  /\ k \in Checkpointers /\ k.gen = c.gen
         /\ k.count = c.count /\ k.off = c.off /\ k.sum = c.sum /\ k.head = c.head
         /\ outcome = "ok" => /\ k.prev = Len(sidecar) + 1 /\ k.len = c.len + 2 /\ k.uncut = c.uncut
                              /\ k.stands = IF c.uncut = 0 THEN Len(sidecar) + 1 ELSE c.stands
         /\ outcome = "uncut" => /\ k.uncut = 1 /\ k.prev = c.prev /\ k.len = c.len
                                 /\ k.stands = c.stands
         /\ outcome \in {"nothing", "cut"} => k = c
  <1>1. CASE outcome = "ok"
    <2>1. PICK p, n, t : /\ p = Len(sidecar) + 1 /\ n = c.len + 2
                         /\ t = IF c.uncut = 0 THEN Len(sidecar) + 1 ELSE c.stands
      OBVIOUS
    <2>2. p \in Nat /\ n \in Nat /\ t \in Nat
      <3>1. Len(sidecar) \in Nat /\ c.len \in Nat /\ c.stands \in Nat
        BY DEF Checkpointers
      <3> QED
        BY <2>1, <3>1
    <2>3. k = [c EXCEPT !.prev = p, !.pending = 0, !.len = n, !.stands = t]
      BY <1>1, <2>1 DEF write_record
    <2>4. /\ k.gen = c.gen /\ k.count = c.count /\ k.off = c.off /\ k.sum = c.sum /\ k.head = c.head
          /\ k.prev = p /\ k.len = n /\ k.uncut = c.uncut /\ k.stands = t
      BY <2>3 DEF Checkpointers
    <2>5. k \in Checkpointers
      <3>1. k = [sum |-> c.sum, off |-> c.off, count |-> c.count, head |-> c.head, prev |-> p,
                 pending |-> 0, len |-> n, gen |-> c.gen, uncut |-> c.uncut, stands |-> t]
        BY <2>3 DEF Checkpointers
      <3> QED
        BY <2>2, <3>1, CkFields DEF Checkpointers
    <2> QED
      BY <1>1, <2>1, <2>4, <2>5
  <1>2. CASE outcome = "uncut"
    <2>1. k = [c EXCEPT !.uncut = 1]
      BY <1>2 DEF write_record
    <2>2. /\ k.gen = c.gen /\ k.count = c.count /\ k.off = c.off /\ k.sum = c.sum /\ k.head = c.head
          /\ k.prev = c.prev /\ k.len = c.len /\ k.uncut = 1 /\ k.stands = c.stands
      BY <2>1 DEF Checkpointers
    <2>3. k \in Checkpointers
      <3>1. k = [sum |-> c.sum, off |-> c.off, count |-> c.count, head |-> c.head, prev |-> c.prev,
                 pending |-> c.pending, len |-> c.len, gen |-> c.gen, uncut |-> 1, stands |-> c.stands]
        BY <2>1 DEF Checkpointers
      <3> QED
        BY <3>1, CkFields DEF Checkpointers
    <2> QED
      BY <1>2, <2>2, <2>3
  <1>3. CASE outcome \in {"nothing", "cut"}
    <2>1. k = c
      BY <1>3 DEF write_record
    <2> QED
      BY <1>3, <2>1
  <1> QED
    BY <1>1, <1>2, <1>3 DEF Outcomes4

(* A record of what is true of the stream, or one that failed, keeps the   *)
(* sidecar whole up to the first that could not be cut off.                *)
LEMMA RecordKeeps ==
  ASSUME sidecar \in Seq(Records), RecordsKept, gen \in Nat,
         NEW left \in Nat, NEW c \in Checkpointers, c.gen <= gen, SideFollows(c, left, sidecar),
         NEW kind \in {"checkpoint", "close", "resume"}, NEW count \in Nat, NEW head \in Nat,
         NEW sum \in Seq(Nat),
         c.gen = gen => /\ count \in 1 .. Len(lines) /\ head = head_of_line(lines[count]) /\ head # 0
                        /\ sum = Prefix(lines, count),
         lines' = lines, gen' = gen, NEW outcome \in Outcomes4,
         Recorded(c, kind, count, head, sum, outcome, left), ck' = write_record(c, outcome)
  PROVE  /\ sidecar' \in Seq(Records) /\ RecordsKept' /\ torn' \in Nat
         /\ ck' \in Checkpointers /\ ck'.gen = c.gen /\ SideFollows(ck', torn', sidecar')
         /\ Follows(c, lines) => Follows(ck', lines)
  <1>0. Len(sidecar) \in Nat /\ c.stands \in Nat /\ c.len \in Nat
    BY DEF Checkpointers
  <1>1. PICK k : k = ck'
    OBVIOUS
  <1>2. /\ k \in Checkpointers /\ k.gen = c.gen
        /\ k.count = c.count /\ k.off = c.off /\ k.sum = c.sum /\ k.head = c.head
        /\ outcome = "ok" => /\ k.prev = Len(sidecar) + 1 /\ k.len = c.len + 2 /\ k.uncut = c.uncut
                             /\ k.stands = IF c.uncut = 0 THEN Len(sidecar) + 1 ELSE c.stands
        /\ outcome = "uncut" => /\ k.uncut = 1 /\ k.prev = c.prev /\ k.len = c.len
                                /\ k.stands = c.stands
        /\ outcome \in {"nothing", "cut"} => k = c
    BY <1>1, WriteKeeps
  <1>3. Follows(c, lines) => Follows(k, lines)
    BY <1>2 DEF Follows
  <1>4. /\ Through(sidecar) = End(sidecar, Len(sidecar))
        /\ \A i \in 0 .. Len(sidecar) : End(sidecar, i) \in Nat
    BY RecordEnds
  <1>5. /\ c.stands \in 0 .. Len(sidecar) /\ End(sidecar, c.stands) <= c.len
        /\ c.uncut = 0 => /\ c.prev = Len(sidecar) /\ left = 0 /\ c.stands = Len(sidecar)
                          /\ c.len = End(sidecar, Len(sidecar))
    BY <1>0 DEF SideFollows
  <1>6. PICK q : q = sidecar'
    OBVIOUS
  <1>7. CASE outcome = "ok"
    <2>1. PICK e : e = Through(sidecar) + left + 2
      OBVIOUS
    <2>2. e \in Nat /\ (left = 0 => e = End(sidecar, Len(sidecar)) + 2)
      BY <2>1, <1>0, <1>4
    <2>3. PICK r : r = [kind |-> kind, count |-> count, head |-> head, prefix |-> sum,
                        prev |-> c.prev, gen |-> c.gen, ends |-> e, glued |-> left,
                        uncut |-> c.uncut]
      OBVIOUS
    <2>4. r \in Records
      BY <2>2, <2>3 DEF Records, Checkpointers
    <2>5. /\ r.count = count /\ r.head = head /\ r.prefix = sum /\ r.ends = e /\ r.glued = left
          /\ r.prev = c.prev /\ r.gen = c.gen /\ r.uncut = c.uncut
      BY <2>3
    <2>6. q = Append(sidecar, r) /\ torn' = 0
      BY <1>6, <1>7, <2>1, <2>3 DEF Recorded
    <2>7. PICK p : p = Len(sidecar) + 1
      OBVIOUS
    <2>8. q \in Seq(Records) /\ Len(q) = p /\ q[p] = r /\ \A i \in 1 .. Len(sidecar) : q[i] = sidecar[i]
      BY <2>4, <2>6, <2>7, AppendedAt
    <2>9. p - 1 = Len(sidecar) /\ p # 0 /\ \A i \in 1 .. p : i = p \/ i \in 1 .. Len(sidecar)
      BY <1>0, <2>7
    <2>10. r.gen = gen => TrueOf(r, lines)
      BY <2>5 DEF TrueOf
    <2>11. \A i \in 1 .. p : q[i].gen <= gen
      BY <2>5, <2>8, <2>9 DEF RecordsKept
    <2>12. \A i \in 1 .. p : q[i].gen = gen => TrueOf(q[i], lines)
      BY <2>8, <2>9, <2>10 DEF RecordsKept
    <2>13. \A i \in 1 .. p : q[i].uncut = 0 => q[i].prev = i - 1 /\ q[i].glued = 0
      BY <2>5, <2>8, <2>9, <1>5 DEF RecordsKept
    <2>14. RecordsKept'
      BY <1>6, <2>8, <2>11, <2>12, <2>13 DEF RecordsKept
    <2>15. SideFollows(k, 0, q)
      <3>1. CASE c.uncut = 0
        <4>1. k.uncut = 0 /\ k.prev = p /\ k.stands = p /\ k.len = c.len + 2
          BY <3>1, <1>2, <1>7, <2>7
        <4>2. End(q, p) = e
          BY <2>5, <2>8, <2>9 DEF End
        <4>3. e = c.len + 2 /\ p <= p /\ e <= e
          BY <3>1, <1>5, <2>2, <2>7, <1>0
        <4> QED
          BY <4>1, <4>2, <4>3, <2>8 DEF SideFollows
      <3>2. CASE c.uncut # 0
        <4>1. k.uncut # 0 /\ k.stands = c.stands /\ k.len = c.len + 2
          BY <3>2, <1>2, <1>7
        <4>2. End(q, c.stands) = End(sidecar, c.stands)
          BY <1>5, <1>0, <2>8 DEF End
        <4>3. End(sidecar, c.stands) \in Nat /\ c.stands <= p
          BY <1>0, <1>4, <1>5, <2>7
        <4> QED
          BY <4>1, <4>2, <4>3, <1>0, <1>5, <2>8 DEF SideFollows
      <3> QED
        BY <3>1, <3>2
    <2> QED
      BY <1>1, <1>2, <1>3, <1>6, <2>6, <2>8, <2>14, <2>15
  <1>8. CASE outcome = "cut"
    <2>1. q = CutTo(c.len) /\ torn' = c.len - Through(q)
      BY <1>6, <1>8 DEF Recorded
    <2>2. PICK n \in c.stands .. Len(sidecar) : q = SubSeq(sidecar, 1, n) /\ End(sidecar, n) <= c.len
      BY <1>0, <1>5, <2>1, CutLeaves
    <2>3. n \in 0 .. Len(sidecar) /\ n \in Nat /\ c.stands <= n
      BY <2>2, <1>0, <1>5
    <2>4. q \in Seq(Records) /\ Len(q) = n /\ \A i \in 1 .. n : q[i] = sidecar[i]
      BY <2>2, <2>3, SubSeqOfRecords
    <2>5. \A i \in 0 .. n : End(q, i) = End(sidecar, i)
      BY <2>3, <2>4 DEF End
    <2>6. Through(q) = End(sidecar, n) /\ End(sidecar, n) \in Nat /\ n \in 0 .. n /\ c.stands \in 0 .. n
      <3>1. n \in 0 .. n /\ c.stands \in 0 .. n
        BY <2>3, <1>0
      <3> QED
        BY <3>1, <2>3, <2>4, <2>5, <1>4, RecordEnds
    <2>7. torn' \in Nat
      BY <2>1, <2>2, <2>6, <1>0
    <2>8. \A i \in 1 .. n : i \in 1 .. Len(sidecar)
      BY <2>3, <1>0
    <2>9. RecordsKept'
      BY <1>6, <2>4, <2>8 DEF RecordsKept
    <2>10. SideFollows(k, torn', q)
      <3>1. k = c
        BY <1>2, <1>8
      <3>2. c.stands <= n /\ End(q, c.stands) <= c.len
        BY <2>3, <2>5, <2>6, <1>5
      <3>3. c.uncut = 0 => c.prev = n /\ torn' = 0 /\ c.stands = n /\ c.len = End(q, n)
        <4>1. ASSUME c.uncut = 0
              PROVE  c.prev = n /\ torn' = 0 /\ c.stands = n /\ c.len = End(q, n)
          <5>1. n = Len(sidecar)
            BY <4>1, <1>0, <1>5, <2>3
          <5>2. c.len = End(sidecar, n) /\ c.prev = n /\ c.stands = n
            BY <4>1, <5>1, <1>5
          <5>3. torn' = 0
            BY <5>2, <2>1, <2>6, <1>0
          <5> QED
            BY <5>2, <5>3, <2>5, <2>6
        <4> QED
          BY <4>1
      <3> QED
        BY <3>1, <3>2, <3>3, <2>4 DEF SideFollows
    <2> QED
      BY <1>1, <1>2, <1>3, <1>6, <2>4, <2>7, <2>9, <2>10
  <1>9. CASE outcome \in {"nothing", "uncut"}
    <2>1. q = sidecar /\ torn' = IF outcome = "nothing" THEN left ELSE left + 1
      BY <1>6, <1>9 DEF Recorded
    <2>2. torn' \in Nat
      BY <2>1
    <2>3. RecordsKept'
      BY <1>6, <2>1 DEF RecordsKept
    <2>4. SideFollows(k, torn', q)
      BY <1>2, <1>5, <1>9, <2>1 DEF SideFollows
    <2> QED
      BY <1>1, <1>2, <1>3, <1>6, <2>1, <2>2, <2>3, <2>4
  <1> QED
    BY <1>7, <1>8, <1>9 DEF Outcomes4

(* What maybe_write does to a checkpointer that follows the stream. *)
LEMMA MaybeWriteKeeps ==
  ASSUME sidecar \in Seq(Records), RecordsKept, gen \in Nat, torn \in Nat, Good(lines),
         waited \in Nat, used \in Spent,
         NEW c \in Checkpointers, c.gen <= gen, SideFollows(c, torn, sidecar),
         c.gen = gen => Follows(c, lines),
         NEW outcome \in Outcomes4, maybe_write(c, outcome), lines' = lines, gen' = gen
  PROVE  /\ sidecar' \in Seq(Records) /\ RecordsKept' /\ torn' \in Nat
         /\ ck' \in Checkpointers /\ ck'.gen = c.gen /\ SideFollows(ck', torn', sidecar')
         /\ ck'.gen = gen => Follows(ck', lines)
         /\ waited' \in Nat /\ used' \in Spent
  <1>1. waited' \in Nat /\ used' \in Spent
    <2>1. ASSUME Spend("failed", MaxFailed)
          PROVE  used' \in Spent
      BY <2>1 DEF Spend, Spent
    <2>2. (waited' = 0 \/ waited' = waited) /\ (used' = used \/ Spend("failed", MaxFailed))
      BY Zenon DEF maybe_write, Failing
    <2> QED
      BY <2>1, <2>2
  <1>2. CASE ~Due(c)
    <2>1. ck' = c /\ sidecar' = sidecar /\ torn' = torn
      BY <1>2 DEF maybe_write
    <2>2. RecordsKept'
      BY <2>1 DEF RecordsKept
    <2> QED
      BY <1>1, <2>1, <2>2
  <1>3. CASE Due(c)
    <2>1. /\ ck' = write_record(c, outcome)
          /\ Recorded(c, "checkpoint", c.count, c.head, c.sum, outcome, torn)
      BY <1>3 DEF maybe_write
    <2>2. c.count \in Nat /\ c.head \in Nat /\ c.sum \in Seq(Nat)
      BY DEF Checkpointers
    <2>3. c.head # 0
      BY <1>3 DEF Due
    <2>4. c.gen = gen => /\ c.count \in 1 .. Len(lines) /\ c.head = head_of_line(lines[c.count])
                         /\ c.sum = Prefix(lines, c.count)
      BY <2>3 DEF Follows, Good
    <2>5. /\ sidecar' \in Seq(Records) /\ RecordsKept' /\ torn' \in Nat
          /\ ck' \in Checkpointers /\ ck'.gen = c.gen /\ SideFollows(ck', torn', sidecar')
          /\ Follows(c, lines) => Follows(ck', lines)
      BY <2>1, <2>2, <2>3, <2>4, RecordKeeps
    <2> QED
      BY <1>1, <2>5
  <1> QED
    BY <1>2, <1>3

-----------------------------------------------------------------------------
(* The line an emit writes. *)
Own(ls, id, prev, linked) ==
  [Line(ls, 2, id, TRUE) EXCEPT !.acked = TRUE, !.prev = prev, !.linked = linked]

IsOwn(l, ls, id, prev, linked) ==
  /\ l \in LineSet /\ l.ends = End(ls, Len(ls)) + 2 /\ l.ends > End(ls, Len(ls))
  /\ l.id = id /\ l.event = TRUE /\ l.prev = prev /\ l.linked = linked

LEMMA OwnIs ==
  ASSUME NEW ls, Good(ls), NEW id \in Nat, NEW prev \in Nat, NEW linked, linked \in BOOLEAN
  PROVE  IsOwn(Own(ls, id, prev, linked), ls, id, prev, linked)
  <1>1. Through(ls) = End(ls, Len(ls)) /\ End(ls, Len(ls)) \in Nat
    BY ThroughEnd DEF Good
  <1>2. PICK k : k = Line(ls, 2, id, TRUE)
    OBVIOUS
  <1>3. k = [id |-> id, event |-> TRUE, ends |-> End(ls, Len(ls)) + 2,
             acked |-> FALSE, prev |-> 0, linked |-> FALSE]
    BY <1>1, <1>2 DEF Line
  <1>4. /\ k \in LineSet /\ k.ends = End(ls, Len(ls)) + 2
        /\ k.ends > End(ls, Len(ls)) /\ k.id = id /\ k.event = TRUE
    BY <1>1, <1>3 DEF LineSet
  <1>5. PICK m : m = Own(ls, id, prev, linked)
    OBVIOUS
  <1>6. m = [k EXCEPT !.acked = TRUE, !.prev = prev, !.linked = linked]
    BY <1>2, <1>5, Zenon DEF Own
  <1>7. m \in LineSet
    BY <1>4, <1>6 DEF LineSet
  <1>8. m.ends = k.ends /\ m.id = k.id /\ m.event = k.event /\ m.prev = prev /\ m.linked = linked
    BY <1>4, <1>6 DEF LineSet
  <1> QED
    BY <1>4, <1>5, <1>7, <1>8, Zenon DEF IsOwn

LEMMA SpendTypes ==
  ASSUME used \in Spent,
         \/ Spend("emits", MaxEmits) \/ Spend("others", MaxOthers) \/ Spend("torn", MaxTorn)
         \/ Spend("failed", MaxFailed) \/ Spend("crashes", MaxCrashes)
         \/ Spend("rotations", MaxRotations)
  PROVE  used' \in Spent
  BY DEF Spend, Spent

LEMMA NewIdIsNew ==
  ASSUME used \in Spent, Spend("emits", MaxEmits) \/ Spend("others", MaxOthers)
  PROVE  NewId \in Nat /\ NewId # 0
  BY DEF Spend, Spent, NewId

LEMMA GrowsTrans ==
  ASSUME NEW a, NEW b, NEW c, Good(a), Good(b), Good(c), Grows(a, b), Grows(b, c)
  PROVE  Grows(a, c)
  <1>1. Len(a) \in Nat /\ Len(b) \in Nat /\ Len(c) \in Nat
    BY DEF Good
  <1> QED
    BY <1>1 DEF Grows

(* What is said of the checkpointer and its records outlives an append. *)
LEMMA AppendsKeep ==
  ASSUME StreamInv, Good(lines'), Grows(lines, lines'),
         UNCHANGED <<ck, sidecar, torn, up, gen>>
  PROVE  CkFollows' /\ RecordsKept'
  <1>1. Good(lines)
    BY DEF StreamInv
  <1>2. /\ \A c : Follows(c, lines) => Follows(c, lines')
        /\ \A r : TrueOf(r, lines) => TrueOf(r, lines')
    BY <1>1, GrowsKeeps
  <1>3. CkFollows'
    BY <1>2 DEF StreamInv, CkFollows
  <1>4. RecordsKept'
    BY <1>2 DEF StreamInv, RecordsKept
  <1> QED
    BY <1>3, <1>4

(* What another line of the file does, whoever closes it. *)
LEMMA LineAdded ==
  ASSUME StreamInv, NEW l \in LineSet, l.ends > End(lines, Len(lines)), l.event => l.id # 0,
         NEW ms, ms = Append(lines, l)
  PROVE  /\ Good(ms) /\ Grows(lines, ms) /\ End(ms, Len(ms)) = l.ends /\ Len(ms) = Len(lines) + 1
         /\ ms[Len(ms)] = l /\ Len(lines) \in Nat /\ End(ms, Len(lines)) = End(lines, Len(lines))
         /\ ~l.acked => /\ LinkedIn(ms) /\ OnDisk(ms, l.id)
                        /\ \A id : OnDisk(lines, id) => OnDisk(ms, id)
         /\ (l.linked /\ l.prev # 0 => OnDisk(lines, l.prev)) => LinkedIn(ms) /\ OnDisk(ms, l.id)
  <1>1. Good(lines) /\ LinkedIn(lines)
    BY DEF StreamInv
  <1>2. Len(lines) \in Nat /\ Len(lines) \in 0 .. Len(lines)
    BY <1>1 DEF Good
  <1>3. /\ Good(ms) /\ Grows(lines, ms) /\ End(ms, Len(ms)) = l.ends /\ Len(ms) = Len(lines) + 1
        /\ ms[Len(ms)] = l
        /\ End(ms, Len(lines)) = End(lines, Len(lines))
    <2>1. Good(lines) /\ l.ends > End(lines, Len(lines)) /\ (l.event => l.id # 0) /\ ms = Append(lines, l)
      BY <1>1
    <2>2. Good(ms) /\ Grows(lines, ms)
      BY <2>1, AppendGrows
    <2>3. Len(ms) = Len(lines) + 1 /\ ms[Len(ms)] = l
      BY <2>1, AppendGrows
    <2>4. End(ms, Len(ms)) = l.ends
      BY <1>2, <2>3 DEF End
    <2>5. End(ms, Len(lines)) = End(lines, Len(lines))
      BY <1>2, <2>2 DEF End, Grows
    <2> QED
      BY <2>2, <2>3, <2>4, <2>5
  <1>4. ~l.acked => /\ LinkedIn(ms) /\ OnDisk(ms, l.id)
                    /\ \A id : OnDisk(lines, id) => OnDisk(ms, id)
    BY <1>1, UnackedKeeps
  <1>5. (l.linked /\ l.prev # 0 => OnDisk(lines, l.prev)) => LinkedIn(ms) /\ OnDisk(ms, l.id)
    BY <1>1, AckedKeeps
  <1> QED
    BY <1>2, <1>3, <1>4, <1>5

-----------------------------------------------------------------------------
(* The stream after the LF that closes a fragment. *)
LEMMA ClosedIs ==
  ASSUME StreamInv
  PROVE  /\ Good(Closed) /\ Grows(lines, Closed) /\ LinkedIn(Closed)
         /\ Len(Closed) = Len(lines) + 1 /\ Len(lines) \in Nat
         /\ End(Closed, Len(Closed)) \in Nat /\ End(lines, Len(lines)) \in Nat
         /\ End(Closed, Len(Closed)) = End(lines, Len(lines)) + tail.size + 1
         /\ tail.size \in Nat /\ (tail # NoText => tail.size >= 1)
         /\ OnDisk(Closed, tail.id)
         /\ \A id : OnDisk(lines, id) => OnDisk(Closed, id)
  <1>1. Good(lines) /\ tail \in Texts /\ Proper(tail)
    BY DEF StreamInv, StreamTypes
  <1>2. PICK size : size = tail.size + 1
    OBVIOUS
  <1>4. tail.id \in Nat /\ tail.event \in BOOLEAN /\ tail.size \in Nat
    BY <1>1 DEF Texts
  <1>3. size \in Nat /\ size > 0 /\ (tail # NoText => tail.size >= 1)
    BY <1>1, <1>2, <1>4 DEF Proper
  <1>5. PICK l : l = Line(lines, size, tail.id, tail.event)
    OBVIOUS
  <1>6. /\ l \in LineSet /\ l.ends = End(lines, Len(lines)) + size /\ l.ends > End(lines, Len(lines))
        /\ l.id = tail.id /\ l.event = tail.event /\ l.acked = FALSE
    <2>1. Through(lines) = End(lines, Len(lines)) /\ End(lines, Len(lines)) \in Nat
      BY <1>1, ThroughEnd DEF Good
    <2>2. l = [id |-> tail.id, event |-> tail.event, ends |-> End(lines, Len(lines)) + size,
               acked |-> FALSE, prev |-> 0, linked |-> FALSE]
      BY <1>5, <2>1 DEF Line
    <2> QED
      BY <1>3, <1>4, <2>1, <2>2 DEF LineSet
  <1>7. Closed = Append(lines, l)
    BY <1>2, <1>5 DEF Closed
  <1>8. l.event => l.id # 0
    BY <1>1, <1>6 DEF Proper
  <1>9. /\ Good(Closed) /\ Grows(lines, Closed) /\ End(Closed, Len(Closed)) = l.ends
        /\ Len(Closed) = Len(lines) + 1 /\ Len(lines) \in Nat
        /\ LinkedIn(Closed) /\ OnDisk(Closed, l.id)
        /\ \A id : OnDisk(lines, id) => OnDisk(Closed, id)
    BY <1>6, <1>7, <1>8, LineAdded
  <1>10. End(lines, Len(lines)) \in Nat
    BY <1>1, <1>9, ThroughEnd
  <1>11. l.ends = End(lines, Len(lines)) + tail.size + 1 /\ l.ends \in Nat
    BY <1>2, <1>4, <1>6, <1>10
  <1> QED
    BY <1>3, <1>4, <1>6, <1>9, <1>10, <1>11

(* The append that closes a fragment first. *)
LEMMA EmitBehind ==
  ASSUME StreamInv, emit("ok"), emitting.lf
  PROVE  StreamInv'
  <1>0. PICK li : li = (linkgen = gen) /\ li \in BOOLEAN
    BY Zenon
  <1> DEFINE l == Own(Closed, emitting.id, next, li)
  <1>1. /\ emitting.stage = "write" /\ next' = emitting.id /\ linkgen' = gen /\ tail' = NoText
        /\ emitting' = [emitting EXCEPT !.stage = "hash", !.wrote = 3]
        /\ lines' = Append(Closed, l)
        /\ UNCHANGED <<used, ck, waited, sidecar, torn, up, gen>>
    BY <1>0, Zenon DEF emit, AppendLine, Own
  <1>2. StreamTypes /\ Good(lines) /\ CkFollows /\ NextOnDisk /\ Writing /\ tail \in Texts
    BY DEF StreamInv, StreamTypes
  <1>3. emitting.id \in Nat /\ next \in Nat /\ emitting.id # 0 /\ up = "up"
    BY <1>1, <1>2 DEF StreamTypes, Emits, Writing
  <1>4. /\ Good(Closed) /\ Grows(lines, Closed) /\ LinkedIn(Closed)
        /\ Len(Closed) = Len(lines) + 1 /\ Len(lines) \in Nat
        /\ End(Closed, Len(Closed)) \in Nat /\ End(lines, Len(lines)) \in Nat
        /\ End(Closed, Len(Closed)) = End(lines, Len(lines)) + tail.size + 1
        /\ tail.size \in Nat /\ (tail # NoText => tail.size >= 1)
        /\ OnDisk(Closed, tail.id)
        /\ \A id : OnDisk(lines, id) => OnDisk(Closed, id)
    BY ClosedIs
  <1>5. /\ l \in LineSet /\ l.ends = End(Closed, Len(Closed)) + 2 /\ l.ends > End(Closed, Len(Closed))
        /\ l.id = emitting.id /\ l.event = TRUE /\ l.prev = next /\ l.linked = li
    <2>1. IsOwn(l, Closed, emitting.id, next, li)
      BY <1>0, <1>3, <1>4, OwnIs
    <2> QED
      BY <2>1 DEF IsOwn
  <1> HIDE DEF l
  <1>6. l.linked /\ l.prev # 0 => OnDisk(Closed, l.prev)
    BY <1>0, <1>2, <1>3, <1>4, <1>5 DEF NextOnDisk
  <1>7. l.event => l.id # 0
    BY <1>3, <1>5
  <1>8. PICK cs : cs = Closed
    OBVIOUS
  <1>9. Good(lines') /\ Grows(cs, lines') /\ Len(lines') = Len(cs) + 1 /\ lines'[Len(lines')] = l
    <2>1. Good(cs) /\ l \in LineSet /\ l.ends > End(cs, Len(cs)) /\ (l.event => l.id # 0)
      BY <1>4, <1>5, <1>7, <1>8
    <2>2. PICK ms : ms = lines'
      OBVIOUS
    <2>3. ms = Append(cs, l)
      BY <1>1, <1>8, <2>2
    <2>4. Good(ms) /\ Grows(cs, ms)
      BY <2>1, <2>3, AppendGrows
    <2>5. Len(ms) = Len(cs) + 1 /\ ms[Len(ms)] = l
      BY <2>1, <2>3, AppendGrows
    <2> QED
      BY <2>2, <2>4, <2>5
  <1>10. LinkedIn(lines') /\ OnDisk(lines', l.id)
    BY <1>1, <1>4, <1>5, <1>6, AckedKeeps
  <1>11. Grows(lines, lines')
    BY <1>2, <1>4, <1>8, <1>9, GrowsTrans
  <1>12. End(lines', Len(lines')) = End(lines, Len(lines)) + tail.size + 3
    BY <1>4, <1>5, <1>8, <1>9 DEF End
  <1>13. CkFollows' /\ RecordsKept'
    BY <1>1, <1>9, <1>11, AppendsKeep
  <1>14. StreamTypes'
    <2>1. emitting' \in Emits
      BY <1>1, <1>2 DEF StreamTypes, Emits
    <2>2. lines' \in Seq(LineSet)
      BY <1>9 DEF Good
    <2>3. tail' \in Texts
      BY <1>1 DEF Texts, NoText
    <2> QED
      BY <2>1, <2>2, <2>3, <1>1, <1>2, <1>3 DEF StreamTypes
  <1>15. NextOnDisk'
    BY <1>1, <1>2, <1>5, <1>10 DEF NextOnDisk, StreamTypes
  <1>16. emitting'.stage = "hash" /\ emitting'.wrote = 3 /\ emitting'.lf
    BY <1>1, <1>2 DEF StreamTypes, Emits
  <1>17. Writing'
    BY <1>16 DEF Writing
  <1>18. Hashing'
    <2>1. ASSUME ck.gen = gen
          PROVE  End(lines', Len(lines')) >= ck.off + 4
      <3>1. ck.off \in Nat
        BY <1>2 DEF StreamTypes, Checkpointers
      <3>2. CASE tail = NoText
        <4>1. End(lines, Len(lines)) >= ck.off + 3
          BY <1>1, <1>2, <2>1, <3>2 DEF Writing
        <4> QED
          BY <4>1, <3>1, <3>2, <1>4, <1>12
      <3>3. CASE tail # NoText
        <4>1. ck.off = End(lines, ck.count) /\ ck.count \in 0 .. Len(lines)
          BY <1>2, <1>3, <2>1 DEF CkFollows, Follows
        <4>2. Len(lines) \in 0 .. Len(lines) /\ ck.count <= Len(lines)
          BY <4>1, <1>4
        <4>3. End(lines, ck.count) <= End(lines, Len(lines))
          BY <4>1, <4>2, <1>2, ThroughEnd
        <4> QED
          BY <4>1, <4>3, <3>1, <3>3, <1>4, <1>12
      <3> QED
        BY <3>2, <3>3
    <2> QED
      BY <2>1, <1>1, <1>3, <1>16 DEF Hashing
  <1>19. Proper(tail')
    BY <1>1 DEF Proper, NoText
  <1> QED
    BY <1>9, <1>10, <1>13, <1>14, <1>15, <1>17, <1>18, <1>19 DEF StreamInv

(* The append to a file that ends in an LF. *)
LEMMA EmitPlain ==
  ASSUME StreamInv, emit("ok"), ~emitting.lf, tail = NoText
  PROVE  StreamInv'
  <1>0. PICK li : li = (linkgen = gen) /\ li \in BOOLEAN
    BY Zenon
  <1> DEFINE l == Own(lines, emitting.id, next, li)
  <1>1. /\ emitting.stage = "write" /\ next' = emitting.id /\ linkgen' = gen /\ tail' = NoText
        /\ emitting' = [emitting EXCEPT !.stage = "hash", !.wrote = 2]
        /\ lines' = Append(lines, l)
        /\ UNCHANGED <<used, ck, waited, sidecar, torn, up, gen>>
    BY <1>0, Zenon DEF emit, AppendLine, Own
  <1>2. StreamTypes /\ Good(lines) /\ CkFollows /\ NextOnDisk /\ Writing /\ tail \in Texts
    BY DEF StreamInv, StreamTypes
  <1>3. emitting.id \in Nat /\ next \in Nat /\ emitting.id # 0 /\ up = "up" /\ Len(lines) \in Nat
    BY <1>1, <1>2 DEF StreamTypes, Emits, Writing, Good
  <1>4. IsOwn(l, lines, emitting.id, next, li)
    BY <1>0, <1>2, <1>3, OwnIs
  <1> HIDE DEF l
  <1>5. /\ l \in LineSet /\ l.ends = End(lines, Len(lines)) + 2 /\ l.ends > End(lines, Len(lines))
        /\ l.id = emitting.id /\ l.event = TRUE /\ l.prev = next /\ l.linked = li
    BY <1>4 DEF IsOwn
  <1>6. l.linked /\ l.prev # 0 => OnDisk(lines, l.prev)
    BY <1>0, <1>2, <1>3, <1>5 DEF NextOnDisk
  <1>7. l.event => l.id # 0
    BY <1>3, <1>5
  <1>8. PICK ms : ms = lines'
    OBVIOUS
  <1>9. ms = Append(lines, l)
    BY <1>1, <1>8
  <1>10. /\ Good(ms) /\ Grows(lines, ms) /\ Len(ms) = Len(lines) + 1
         /\ ms[Len(ms)] = l /\ End(ms, Len(lines)) = End(lines, Len(lines))
         /\ LinkedIn(ms) /\ OnDisk(ms, l.id)
    BY <1>5, <1>6, <1>7, <1>9, LineAdded
  <1>11. CkFollows' /\ RecordsKept'
    BY <1>1, <1>8, <1>10, AppendsKeep
  <1>12. StreamTypes'
    <2>1. emitting' \in Emits
      BY <1>1, <1>2 DEF StreamTypes, Emits
    <2>2. lines' \in Seq(LineSet)
      BY <1>8, <1>10 DEF Good
    <2>3. tail' \in Texts
      BY <1>1 DEF Texts, NoText
    <2> QED
      BY <2>1, <2>2, <2>3, <1>1, <1>2, <1>3 DEF StreamTypes
  <1>13. NextOnDisk'
    BY <1>1, <1>2, <1>5, <1>8, <1>10 DEF NextOnDisk, StreamTypes
  <1>14. emitting'.stage = "hash" /\ emitting'.wrote = 2 /\ ~emitting'.lf /\ emitting'.id = emitting.id
    BY <1>1, <1>2 DEF StreamTypes, Emits
  <1>15. Writing'
    BY <1>14 DEF Writing
  <1>16. Hashing'
    <2>1. ASSUME ck.gen = gen
          PROVE  \E j \in 1 .. Len(ms) :
                   /\ ck.count < j /\ ms[j].ends = End(ms, j - 1) + 2
                   /\ ms[j].id = emitting.id /\ ms[j].event
      <3>1. ck.count \in 0 .. Len(lines)
        BY <1>2, <1>3, <2>1 DEF CkFollows, Follows
      <3>2. Len(ms) \in 1 .. Len(ms) /\ ck.count < Len(ms) /\ Len(ms) - 1 = Len(lines)
        BY <3>1, <1>3, <1>10
      <3> QED
        BY <3>2, <1>5, <1>10
    <2> QED
      BY <2>1, <1>1, <1>3, <1>8, <1>14 DEF Hashing
  <1>17. Proper(tail')
    BY <1>1 DEF Proper, NoText
  <1> QED
    BY <1>8, <1>10, <1>11, <1>12, <1>13, <1>15, <1>16, <1>17 DEF StreamInv

(* What is hashed is within the file. *)
LEMMA OffWithin ==
  ASSUME Good(lines), CkFollows, up = "up", ck.gen = gen
  PROVE  ck.off <= End(lines, Len(lines))
  <1>1. ck.off = End(lines, ck.count) /\ ck.count \in 0 .. Len(lines)
    BY DEF CkFollows, Follows
  <1>2. Len(lines) \in 0 .. Len(lines) /\ ck.count <= Len(lines)
    BY <1>1 DEF Good
  <1> QED
    BY <1>1, <1>2, ThroughEnd

(* The line that a whole line makes of a fragment it is glued to. *)
LEMMA GluedIs ==
  ASSUME StreamInv, NEW l, l = Line(lines, tail.size + 2, tail.id, FALSE), NEW ms, ms = Append(lines, l)
  PROVE  /\ Good(ms) /\ Grows(lines, ms) /\ LinkedIn(ms) /\ OnDisk(ms, tail.id)
         /\ \A id : OnDisk(lines, id) => OnDisk(ms, id)
         /\ End(ms, Len(ms)) = End(lines, Len(lines)) + tail.size + 2
         /\ tail.size \in Nat /\ (tail # NoText => tail.size >= 1) /\ End(lines, Len(lines)) \in Nat
  <1>1. Good(lines) /\ tail.id \in Nat /\ tail.size \in Nat /\ (tail # NoText => tail.size >= 1)
    BY DEF StreamInv, StreamTypes, Texts, Proper
  <1>2. Through(lines) = End(lines, Len(lines)) /\ End(lines, Len(lines)) \in Nat
    BY <1>1, ThroughEnd DEF Good
  <1>3. l = [id |-> tail.id, event |-> FALSE, ends |-> End(lines, Len(lines)) + tail.size + 2,
             acked |-> FALSE, prev |-> 0, linked |-> FALSE]
    <2>1. Through(lines) + (tail.size + 2) = End(lines, Len(lines)) + tail.size + 2
      BY <1>1, <1>2
    <2> QED
      BY <2>1 DEF Line
  <1>4. /\ l \in LineSet /\ l.ends = End(lines, Len(lines)) + tail.size + 2 /\ l.ends > End(lines, Len(lines))
        /\ l.id = tail.id /\ (l.event => l.id # 0) /\ ~l.acked
    <2>1. PICK z : z = End(lines, Len(lines)) + tail.size + 2
      OBVIOUS
    <2>2. z \in Nat /\ z > End(lines, Len(lines))
      BY <2>1, <1>1, <1>2
    <2>3. PICK id, k : id = tail.id /\ id \in Nat /\ k = l
      BY <1>1, Zenon
    <2>4. k = [id |-> id, event |-> FALSE, ends |-> z, acked |-> FALSE, prev |-> 0, linked |-> FALSE]
      BY <1>3, <2>1, <2>3
    <2>5. k.ends = z /\ k.id = id /\ k.event = FALSE /\ k.acked = FALSE
      BY <2>4
    <2>6. k \in LineSet
      <3>1. z \in Nat /\ id \in Nat
        BY <2>2, <2>3
      <3> QED
        BY <3>1, <2>4 DEF LineSet
    <2> QED
      BY <2>1, <2>2, <2>3, <2>5, <2>6
  <1> QED
    BY <1>1, <1>2, <1>4, LineAdded

(* The append that is glued to a fragment that came after the look. *)
LEMMA EmitGlued ==
  ASSUME StreamInv, emit("ok"), ~emitting.lf, tail # NoText
  PROVE  StreamInv'
  <1>1. /\ emitting.stage = "write" /\ next' = emitting.id /\ linkgen' = Nowhere /\ tail' = NoText
        /\ emitting' = [emitting EXCEPT !.stage = "hash", !.wrote = 2]
        /\ lines' = Append(lines, Line(lines, tail.size + 2, tail.id, FALSE))
        /\ UNCHANGED <<used, ck, waited, sidecar, torn, up, gen>>
    BY Zenon DEF emit, AppendLine
  <1>2. StreamTypes /\ Good(lines) /\ CkFollows /\ NextOnDisk /\ Writing /\ tail \in Texts
    BY DEF StreamInv, StreamTypes
  <1>3. emitting.id \in Nat /\ up = "up" /\ gen \in Nat
    BY <1>1, <1>2 DEF StreamTypes, Emits, Writing
  <1>4. PICK ms : ms = lines'
    OBVIOUS
  <1>5. /\ Good(ms) /\ Grows(lines, ms) /\ LinkedIn(ms)
        /\ End(ms, Len(ms)) = End(lines, Len(lines)) + tail.size + 2
        /\ tail.size \in Nat /\ tail.size >= 1 /\ End(lines, Len(lines)) \in Nat
    BY <1>1, <1>4, GluedIs
  <1>6. CkFollows' /\ RecordsKept'
    BY <1>1, <1>4, <1>5, AppendsKeep
  <1>7. StreamTypes'
    <2>1. emitting' \in Emits
      BY <1>1, <1>2 DEF StreamTypes, Emits
    <2>2. lines' \in Seq(LineSet)
      BY <1>4, <1>5 DEF Good
    <2>3. tail' \in Texts /\ linkgen' \in Int
      BY <1>1 DEF Texts, NoText, Nowhere
    <2> QED
      BY <2>1, <2>2, <2>3, <1>1, <1>2, <1>3 DEF StreamTypes
  <1>8. NextOnDisk'
    <2>1. linkgen' = -1 /\ gen' = gen
      BY <1>1 DEF Nowhere
    <2>2. -1 <= gen /\ -1 # gen
      BY <1>3
    <2> QED
      BY <2>1, <2>2 DEF NextOnDisk
  <1>9. emitting'.stage = "hash" /\ emitting'.wrote = 2 /\ ~emitting'.lf
    BY <1>1, <1>2 DEF StreamTypes, Emits
  <1>10. Writing'
    BY <1>9 DEF Writing
  <1>11. Hashing'
    <2>1. ASSUME ck.gen = gen
          PROVE  End(ms, Len(ms)) >= ck.off + 3
      <3>1. ck.off \in Nat
        BY <1>2 DEF StreamTypes, Checkpointers
      <3>2. ck.off <= End(lines, Len(lines))
        BY <1>2, <1>3, <2>1, OffWithin
      <3> QED
        BY <3>1, <3>2, <1>5
    <2> QED
      BY <2>1, <1>1, <1>3, <1>4, <1>9 DEF Hashing
  <1>12. Proper(tail')
    BY <1>1 DEF Proper, NoText
  <1> QED
    BY <1>4, <1>5, <1>6, <1>7, <1>8, <1>10, <1>11, <1>12 DEF StreamInv

(* The append that fails, with nothing of it in the file or a part.        *)
LEMMA EmitFails ==
  ASSUME StreamInv, NEW o, o # "ok", emit(o)
  PROVE  StreamInv'
  <1>1. /\ emitting.stage = "write" /\ emitting' = NoEmit /\ Spend("torn", MaxTorn)
        /\ lines' = IF o = "nothing" THEN lines ELSE IF emitting.lf THEN Closed ELSE lines
        /\ o = "nothing" => tail' = tail
        /\ o # "nothing" => /\ tail'.id = emitting.id /\ tail'.event \in BOOLEAN /\ tail'.size > 0
                            /\ tail' \in [id : {emitting.id}, event : BOOLEAN, size : Nat]
        /\ UNCHANGED <<next, linkgen, ck, waited, sidecar, torn, up, gen>>
    <2>1. o # "ok"
      OBVIOUS
    <2>2. /\ emitting.stage = "write" /\ emitting' = NoEmit /\ Spend("torn", MaxTorn)
          /\ lines' = IF o = "nothing" THEN lines ELSE IF emitting.lf THEN Closed ELSE lines
          /\ UNCHANGED <<next, linkgen, ck, waited, sidecar, torn, up, gen>>
      BY <2>1, Zenon DEF emit
    <2>3. PICK t, ev : /\ t = IF emitting.lf THEN NoText ELSE tail
                       /\ ev = (o = "all but the LF" /\ t = NoText)
      BY Zenon
    <2>4. tail' = IF o = "nothing" THEN tail ELSE [id |-> emitting.id, event |-> ev, size |-> t.size + 1]
      BY <2>1, <2>3, Zenon DEF emit
    <2>5. ev \in BOOLEAN
      BY <2>3, Zenon
    <2>6. t.size \in Nat
      BY <2>3 DEF StreamInv, StreamTypes, Texts, NoText
    <2>7. PICK n : n = t.size + 1
      OBVIOUS
    <2>8. n \in Nat /\ n > 0
      BY <2>6, <2>7
    <2>9. tail' = IF o = "nothing" THEN tail ELSE [id |-> emitting.id, event |-> ev, size |-> n]
      BY <2>4, <2>7
    <2>10. /\ o = "nothing" => tail' = tail
           /\ o # "nothing" => /\ tail'.id = emitting.id /\ tail'.event \in BOOLEAN /\ tail'.size > 0
                               /\ tail' \in [id : {emitting.id}, event : BOOLEAN, size : Nat]
      BY <2>5, <2>8, <2>9
    <2> QED
      BY <2>2, <2>10
  <1>2. StreamTypes /\ Good(lines) /\ CkFollows /\ NextOnDisk /\ Writing /\ tail \in Texts /\ LinkedIn(lines)
        /\ Proper(tail)
    BY DEF StreamInv, StreamTypes
  <1>3. emitting.id \in Nat /\ up = "up" /\ emitting.id # 0 /\ gen \in Nat
    BY <1>1, <1>2 DEF StreamTypes, Emits, Writing
  <1>4. PICK ms : ms = lines'
    OBVIOUS
  <1>5. Good(ms) /\ Grows(lines, ms) /\ LinkedIn(ms) /\ \A id : OnDisk(lines, id) => OnDisk(ms, id)
    <2>0. Len(lines) \in Nat
      <3>1. lines \in Seq(LineSet)
        BY <1>2 DEF StreamTypes
      <3> QED
        BY <3>1
    <2>1. Grows(lines, lines)
      BY <2>0 DEF Grows
    <2>2. ms = lines \/ ms = Closed
      BY <1>1, <1>4
    <2> QED
      BY <2>1, <2>2, <1>2, ClosedIs
  <1>6. CkFollows' /\ RecordsKept'
    BY <1>1, <1>4, <1>5, AppendsKeep
  <1>7. StreamTypes'
    <2>1. emitting' \in Emits
      BY <1>1 DEF NoEmit, Emits
    <2>2. lines' \in Seq(LineSet)
      BY <1>4, <1>5 DEF Good
    <2>3. tail' \in Texts
      BY <1>1, <1>2, <1>3 DEF Texts
    <2>4. used' \in Spent
      BY <1>1, <1>2, SpendTypes DEF StreamTypes
    <2> QED
      BY <2>1, <2>2, <2>3, <2>4, <1>1, <1>2 DEF StreamTypes
  <1>8. NextOnDisk'
    <2> SUFFICES ASSUME linkgen = gen, next # 0
                 PROVE  OnDisk(ms, next) \/ (tail' # NoText /\ tail'.id = next /\ ck.gen = gen)
      BY <1>1, <1>2, <1>4 DEF NextOnDisk
    <2>1. CASE OnDisk(lines, next)
      BY <2>1, <1>5
    <2>2. CASE tail # NoText /\ tail.id = next /\ ck.gen = gen /\ ~OnDisk(lines, next)
      <3>1. emitting.lf
        BY <1>1, <1>2, <2>2 DEF Writing
      <3>2. CASE o = "nothing"
        BY <2>2, <3>2, <1>1
      <3>3. CASE o # "nothing"
        <4>1. ms = Closed
          BY <3>1, <3>3, <1>1, <1>4
        <4> QED
          BY <4>1, <2>2, ClosedIs
      <3> QED
        BY <3>2, <3>3
    <2> QED
      BY <2>1, <2>2, <1>2, <1>3 DEF NextOnDisk
  <1>9. Writing' /\ Hashing'
    BY <1>1 DEF Writing, Hashing, NoEmit
  <1>10. Proper(tail')
    BY <1>1, <1>2, <1>3 DEF Proper
  <1> QED
    BY <1>4, <1>5, <1>6, <1>7, <1>8, <1>9, <1>10 DEF StreamInv

-----------------------------------------------------------------------------
(* The checkpointer is replaced by one that follows the stream, and may    *)
(* write a record.                                                         *)
LEMMA ChecksKeep ==
  ASSUME StreamInv, up = "up", NEW c \in Checkpointers, c.gen <= gen, SameSide(c, ck),
         c.gen = gen => Follows(c, lines), ck.gen = gen => c.gen = gen,
         NEW outcome \in Outcomes4, maybe_write(c, outcome), emitting' = NoEmit,
         UNCHANGED <<lines, tail, next, up, gen, linkgen>>
  PROVE  StreamInv'
  <1>1. /\ StreamTypes /\ Good(lines) /\ CkFollows /\ RecordsKept /\ NextOnDisk /\ LinkedIn(lines)
    BY DEF StreamInv
  <1>2. /\ sidecar \in Seq(Records) /\ gen \in Nat /\ torn \in Nat /\ waited \in Nat /\ used \in Spent
        /\ SideFollows(c, torn, sidecar)
    BY <1>1 DEF StreamTypes, CkFollows, SameSide, SideFollows
  <1>3. lines' = lines /\ gen' = gen
    OBVIOUS
  <1>4. /\ sidecar' \in Seq(Records) /\ RecordsKept' /\ torn' \in Nat
        /\ ck' \in Checkpointers /\ ck'.gen = c.gen /\ SideFollows(ck', torn', sidecar')
        /\ ck'.gen = gen => Follows(ck', lines)
        /\ waited' \in Nat /\ used' \in Spent
    BY <1>1, <1>2, <1>3, MaybeWriteKeeps
  <1>5. emitting' \in Emits /\ emitting'.stage = "idle"
    BY DEF NoEmit, Emits
  <1>6. StreamTypes'
    BY <1>1, <1>4, <1>5 DEF StreamTypes
  <1>7. CkFollows'
    BY <1>2, <1>4 DEF CkFollows, SideFollows
  <1>8. NextOnDisk'
    BY <1>1, <1>4 DEF NextOnDisk
  <1>9. Writing' /\ Hashing'
    BY <1>5 DEF Writing, Hashing
  <1>10. Good(lines)' /\ LinkedIn(lines)' /\ Proper(tail)'
    BY <1>1 DEF StreamInv
  <1> QED
    BY <1>4, <1>6, <1>7, <1>8, <1>9, <1>10 DEF StreamInv

(* What is hashed as written: the one line the file gained. *)
LEMMA ExactFollows ==
  ASSUME StreamInv, emitting.stage = "hash", Size(lines, tail) = ck.off + emitting.wrote,
         ck.gen = gen
  PROVE  /\ ~emitting.lf /\ ck.count + 1 = Len(lines) /\ Size(lines, tail) = End(lines, Len(lines))
         /\ lines[Len(lines)].id = emitting.id /\ lines[Len(lines)].event /\ next = emitting.id
         /\ ck.count \in Nat /\ ck.sum = Prefix(lines, ck.count)
  <1>1. Good(lines) /\ CkFollows /\ Hashing /\ StreamTypes /\ tail \in Texts
    BY DEF StreamInv, StreamTypes
  <1>2. up = "up" /\ Follows(ck, lines)
    BY <1>1 DEF Hashing, CkFollows
  <1>3. ck.count \in 0 .. Len(lines) /\ ck.off = End(lines, ck.count) /\ ck.sum = Prefix(lines, ck.count)
    BY <1>2 DEF Follows
  <1>4. lines \in Seq(LineSet)
    BY <1>1 DEF StreamTypes
  <1>5. Len(lines) \in Nat /\ Len(lines) \in 0 .. Len(lines) /\ ck.count \in Nat
    BY <1>3, <1>4
  <1>6. /\ Through(lines) = End(lines, Len(lines))
        /\ \A i \in 0 .. Len(lines) : End(lines, i) \in Nat
        /\ \A i, j \in 0 .. Len(lines) : i <= j => End(lines, i) <= End(lines, j)
    BY <1>1, ThroughEnd
  <1>7. End(lines, Len(lines)) \in Nat /\ ck.off \in Nat
    BY <1>3, <1>5, <1>6
  <1>8. Size(lines, tail) >= End(lines, Len(lines)) /\ Size(lines, tail) \in Nat
    BY <1>1, <1>6, <1>7 DEF Size, Texts
  <1>9. ~emitting.lf
    <2>1. ASSUME emitting.lf
          PROVE  FALSE
      <3>1. emitting.wrote = 3 /\ End(lines, Len(lines)) >= ck.off + 4
        BY <1>1, <2>1 DEF Hashing
      <3> QED
        BY <3>1, <1>7, <1>8
    <2> QED
      BY <2>1
  <1>10. /\ emitting.wrote = 2 /\ next = emitting.id
         /\ \E j \in 1 .. Len(lines) :
              /\ ck.count < j /\ lines[j].ends = End(lines, j - 1) + 2
              /\ lines[j].id = emitting.id /\ lines[j].event
    <2>1. emitting.wrote = 2
      BY <1>1, <1>9 DEF Hashing
    <2>2. ~(End(lines, Len(lines)) >= ck.off + 3)
      BY <2>1, <1>7, <1>8
    <2> QED
      BY <2>1, <2>2, <1>1, <1>9 DEF Hashing
  <1>11. PICK j \in 1 .. Len(lines) : /\ ck.count < j /\ lines[j].ends = End(lines, j - 1) + 2
                                      /\ lines[j].id = emitting.id /\ lines[j].event
    BY <1>10
  <1>12. j \in 0 .. Len(lines) /\ j - 1 \in 0 .. Len(lines) /\ ck.count <= j - 1 /\ j <= Len(lines)
    BY <1>5, <1>11
  <1>13. End(lines, j) = End(lines, j - 1) + 2
    BY <1>11, <1>12 DEF End
  <1>14. /\ ck.off <= End(lines, j - 1) /\ End(lines, j) <= End(lines, Len(lines))
         /\ End(lines, j) \in Nat /\ End(lines, j - 1) \in Nat
    BY <1>3, <1>5, <1>6, <1>12
  <1>15. End(lines, j) = End(lines, Len(lines)) /\ End(lines, j - 1) = ck.off /\ Size(lines, tail) = End(lines, Len(lines))
    BY <1>7, <1>8, <1>10, <1>13, <1>14
  <1>16. j = Len(lines)
    <2>1. ASSUME j < Len(lines)
          PROVE  FALSE
      <3>1. End(lines, j) < End(lines, Len(lines))
        BY <2>1, <1>1, <1>5, <1>12 DEF Good
      <3> QED
        BY <3>1, <1>7, <1>15
    <2> QED
      BY <2>1, <1>5, <1>12
  <1>17. ck.count = j - 1
    <2>1. ASSUME ck.count < j - 1
          PROVE  FALSE
      <3>1. End(lines, ck.count) < End(lines, j - 1)
        BY <2>1, <1>1, <1>3, <1>12 DEF Good
      <3> QED
        BY <3>1, <1>3, <1>7, <1>15
    <2> QED
      BY <2>1, <1>5, <1>12
  <1>18. ck.count + 1 = Len(lines)
    BY <1>5, <1>16, <1>17
  <1> QED
    BY <1>3, <1>5, <1>9, <1>10, <1>11, <1>15, <1>16, <1>18

LEMMA PrefixGrows ==
  ASSUME NEW ls \in Seq(LineSet), NEW n \in Nat, n + 1 = Len(ls)
  PROVE  Prefix(ls, n + 1) = Append(Prefix(ls, n), ls[n + 1].id)
  <1>1. n \in 0 .. Len(ls) /\ n + 1 \in 0 .. Len(ls)
    OBVIOUS
  <1>2. /\ Prefix(ls, n) \in Seq(Nat) /\ Len(Prefix(ls, n)) = n
        /\ Prefix(ls, n + 1) \in Seq(Nat) /\ Len(Prefix(ls, n + 1)) = n + 1
    BY <1>1, IdsOfPrefix
  <1>3. ls[n + 1] \in LineSet
    OBVIOUS
  <1>4. ls[n + 1].id \in Nat
    BY <1>3 DEF LineSet
  <1>5. PICK a, p, x : a = Append(Prefix(ls, n), ls[n + 1].id) /\ p = Prefix(ls, n) /\ x = ls[n + 1].id
    OBVIOUS
  <1>6. a \in Seq(Nat) /\ Len(a) = n + 1 /\ a[n + 1] = x /\ \A i \in 1 .. n : a[i] = p[i]
    <2>1. p \in Seq(Nat) /\ x \in Nat /\ a = Append(p, x) /\ Len(p) = n
      BY <1>2, <1>4, <1>5
    <2> QED
      BY <2>1
  <1>7. \A i \in 1 .. n : p[i] = ls[i].id
    BY <1>5 DEF Prefix
  <1>8. \A i \in 1 .. n + 1 : a[i] = ls[i].id
    <2>1. \A i \in 1 .. n + 1 : i = n + 1 \/ i \in 1 .. n
      OBVIOUS
    <2> QED
      BY <2>1, <1>5, <1>6, <1>7
  <1>9. a = [i \in 1 .. n + 1 |-> a[i]]
    BY <1>6
  <1> QED
    BY <1>5, <1>8, <1>9 DEF Prefix

LEMMA HashStep ==
  ASSUME StreamInv, NEW outcome \in Outcomes4, after_append(outcome)
  PROVE  StreamInv'
  <1> DEFINE n == IF emitting.lf THEN 2 ELSE 1
             exact == Size(lines, tail) = ck.off + emitting.wrote
             more == ck.sum \o (IF n = 2 THEN <<0>> ELSE <<>>) \o <<emitting.id>>
             c == IF exact
                  THEN [ck EXCEPT !.sum = more, !.off = Size(lines, tail), !.count = ck.count + n,
                                  !.head = next, !.pending = ck.pending + n]
                  ELSE advance(ck)
  <1>1. /\ emitting.stage = "hash" /\ emitting' = NoEmit /\ maybe_write(c, outcome)
        /\ UNCHANGED <<lines, tail, next, up, gen, linkgen>>
    BY DEF after_append
  <1>2. StreamTypes /\ Good(lines) /\ CkFollows /\ Hashing
    BY DEF StreamInv
  <1>3. /\ up = "up" /\ ck \in Checkpointers /\ emitting \in Emits /\ tail \in Texts /\ gen \in Nat
        /\ next \in Nat /\ lines \in Seq(LineSet)
    BY <1>1, <1>2 DEF StreamTypes, Hashing
  <1>4. /\ ck.gen <= gen /\ (ck.gen = gen => Follows(ck, lines))
    BY <1>2, <1>3 DEF CkFollows
  <1>5. /\ c \in Checkpointers /\ c.gen <= gen /\ SameSide(c, ck)
        /\ (c.gen = gen => Follows(c, lines)) /\ (ck.gen = gen => c.gen = gen)
    <2>1. CASE ~exact
      <3>1. c = advance(ck)
        BY <2>1
      <3> HIDE DEF c
      <3> QED
        BY <3>1, <1>2, <1>3, <1>4, AdvanceFollows
    <2>2. CASE exact
      <3>1. emitting.id \in Nat /\ ck.sum \in Seq(Nat) /\ ck.count \in Nat /\ ck.pending \in Nat
        BY <1>3 DEF Emits, Checkpointers
      <3>2. n \in Nat
        OBVIOUS
      <3>3. PICK mid : mid = IF n = 2 THEN <<0>> ELSE <<>>
        OBVIOUS
      <3>4. mid \in Seq(Nat)
        <4>1. <<0>> \in Seq(Nat) /\ <<>> \in Seq(Nat)
          OBVIOUS
        <4> QED
          BY <3>3, <4>1
      <3>5. PICK one : one = <<emitting.id>>
        OBVIOUS
      <3>6. one \in Seq(Nat)
        BY <3>1, <3>5
      <3>7. more \in Seq(Nat)
        <4>1. more = ck.sum \o mid \o one
          BY <3>3, <3>5
        <4>2. ck.sum \o mid \in Seq(Nat)
          BY <3>1, <3>4
        <4> HIDE DEF more
        <4> QED
          BY <4>1, <4>2, <3>6
      <3>8. Size(lines, tail) \in Nat
        <4>1. Through(lines) = End(lines, Len(lines)) /\ End(lines, Len(lines)) \in Nat
          BY <1>2, <1>3, ThroughEnd
        <4> QED
          BY <4>1, <1>3 DEF Size, Texts
      <3>9. PICK s, z, k, p, d : /\ s = more /\ z = Size(lines, tail) /\ k = ck.count + n /\ p = ck.pending + n
                                 /\ d = c
        OBVIOUS
      <3>10. s \in Seq(Nat) /\ z \in Nat /\ k \in Nat /\ p \in Nat
        BY <3>1, <3>2, <3>7, <3>8, <3>9
      <3>11. d = [ck EXCEPT !.sum = s, !.off = z, !.count = k, !.head = next, !.pending = p]
        BY <2>2, <3>9
      <3>12. /\ d \in Checkpointers /\ SameSide(d, ck) /\ d.gen = ck.gen
             /\ d.sum = s /\ d.off = z /\ d.count = k /\ d.head = next
        BY <3>10, <3>11, <1>3 DEF Checkpointers, SameSide
      <3>13. ASSUME ck.gen = gen
             PROVE  Follows(d, lines)
        <4>1. /\ ~emitting.lf /\ ck.count + 1 = Len(lines) /\ Size(lines, tail) = End(lines, Len(lines))
              /\ lines[Len(lines)].id = emitting.id /\ lines[Len(lines)].event /\ next = emitting.id
              /\ ck.count \in Nat /\ ck.sum = Prefix(lines, ck.count)
          BY <3>13, <2>2, <1>1, ExactFollows
        <4>2. n = 1 /\ mid = <<>>
          BY <4>1, <3>3
        <4>3. s = Append(ck.sum, emitting.id)
          <5>1. s = ck.sum \o mid \o one
            BY <3>3, <3>5, <3>9
          <5>2. ck.sum \o mid = ck.sum
            BY <4>2, <3>1
          <5>3. ck.sum \o one = Append(ck.sum, emitting.id)
            BY <3>1, <3>5
          <5> QED
            BY <5>1, <5>2, <5>3
        <4>4. s = Prefix(lines, Len(lines))
          BY <4>1, <4>3, <1>3, PrefixGrows
        <4>5. d.count = Len(lines) /\ Len(lines) # 0 /\ Len(lines) \in 0 .. Len(lines)
          BY <4>1, <4>2, <3>9, <3>12, <1>3
        <4>6. d.head = head_of_line(lines[Len(lines)])
          BY <4>1, <3>12 DEF head_of_line
        <4> QED
          BY <4>1, <4>4, <4>5, <4>6, <3>9, <3>12 DEF Follows
      <3> QED
        BY <3>9, <3>12, <3>13, <1>4
    <2> QED
      BY <2>1, <2>2
  <1> HIDE DEF c
  <1> QED
    BY <1>1, <1>3, <1>5, ChecksKeep

LEMMA TickStep ==
  ASSUME StreamInv, NEW outcome \in Outcomes4, tick(outcome)
  PROVE  StreamInv'
  <1>1. /\ up = "up" /\ emitting' = NoEmit /\ maybe_write(ck, outcome)
        /\ UNCHANGED <<lines, tail, next, up, gen, linkgen>>
    BY DEF tick
  <1>2. /\ ck \in Checkpointers /\ ck.gen <= gen /\ SameSide(ck, ck)
        /\ (ck.gen = gen => Follows(ck, lines))
    BY <1>1 DEF StreamInv, StreamTypes, CkFollows, SameSide
  <1> QED
    BY <1>1, <1>2, ChecksKeep

LEMMA LookStep ==
  ASSUME StreamInv, needs_newline
  PROVE  StreamInv'
  <1>1. /\ up = "up" /\ Spend("emits", MaxEmits)
        /\ emitting' = [stage |-> "write", id |-> NewId, wrote |-> 0,
                        lf |-> Size(lines, tail) # ck.off /\ tail # NoText]
        /\ UNCHANGED <<lines, tail, next, ck, waited, sidecar, torn, up, gen, linkgen>>
    BY DEF needs_newline
  <1>2. StreamTypes /\ Good(lines) /\ CkFollows /\ RecordsKept /\ NextOnDisk /\ LinkedIn(lines)
    BY DEF StreamInv
  <1>3. used' \in Spent /\ NewId \in Nat /\ NewId # 0
    BY <1>1, <1>2, SpendTypes, NewIdIsNew DEF StreamTypes
  <1>4. PICK lf : lf = (Size(lines, tail) # ck.off /\ tail # NoText) /\ lf \in BOOLEAN
    BY Zenon
  <1>5. emitting' = [stage |-> "write", id |-> NewId, wrote |-> 0, lf |-> lf]
    BY <1>1, <1>4, Zenon
  <1>6. PICK e : e = emitting'
    OBVIOUS
  <1>7. e \in Emits /\ e.stage = "write" /\ e.id # 0
    BY <1>3, <1>4, <1>5, <1>6 DEF Emits
  <1>8. e.lf = lf
    BY <1>5, <1>6
  <1>9. ASSUME ck.gen = gen
        PROVE  lf \/ tail = NoText
    <2> SUFFICES ASSUME tail # NoText
                 PROVE  Size(lines, tail) # ck.off
      BY <1>4
    <2>1. ck.off <= End(lines, Len(lines)) /\ ck.off \in Nat
      BY <1>1, <1>2, <1>9, OffWithin DEF StreamTypes, Checkpointers
    <2>2. Through(lines) = End(lines, Len(lines)) /\ End(lines, Len(lines)) \in Nat
      BY <1>2, ThroughEnd DEF Good
    <2>3. tail.size > 0 /\ tail.size \in Nat
      BY <1>2 DEF StreamInv, Proper, StreamTypes, Texts
    <2> QED
      BY <2>1, <2>2, <2>3 DEF Size
  <1>10. lf => tail # NoText
    BY <1>4
  <1>11. StreamTypes'
    BY <1>1, <1>2, <1>3, <1>6, <1>7 DEF StreamTypes
  <1>12. CkFollows' /\ RecordsKept' /\ NextOnDisk' /\ Good(lines)' /\ LinkedIn(lines)'
    BY <1>1, <1>2 DEF CkFollows, RecordsKept, NextOnDisk
  <1>13. Writing'
    <2>1. ASSUME ck.gen = gen, ~lf, linkgen = gen, next # 0
          PROVE  OnDisk(lines, next)
      BY <2>1, <1>1, <1>2, <1>9 DEF NextOnDisk
    <2> QED
      BY <2>1, <1>1, <1>6, <1>7, <1>8, <1>10 DEF Writing
  <1>14. Hashing'
    BY <1>6, <1>7 DEF Hashing
  <1>15. Proper(tail)'
    BY <1>1 DEF StreamInv
  <1> QED
    BY <1>11, <1>12, <1>13, <1>14, <1>15 DEF StreamInv

LEMMA CloseStep ==
  ASSUME StreamInv, NEW outcome \in Outcomes4, close(outcome)
  PROVE  StreamInv'
  <1> DEFINE c == advance(ck)
             names == c.head # 0
  <1>1. /\ up = "up" /\ emitting = NoEmit /\ up' = "closed"
        /\ names => /\ ck' = write_record(c, outcome)
                    /\ Recorded(c, "close", c.count, c.head, c.sum, outcome, torn)
                    /\ Failing(outcome)
        /\ ~names => ck' = c /\ UNCHANGED <<sidecar, torn, used>>
        /\ UNCHANGED <<lines, tail, next, emitting, waited, gen, linkgen>>
    BY DEF close
  <1>2. /\ StreamTypes /\ Good(lines) /\ CkFollows /\ RecordsKept /\ NextOnDisk /\ LinkedIn(lines)
        /\ sidecar \in Seq(Records) /\ tail \in Texts /\ gen \in Nat /\ ck \in Checkpointers
        /\ torn \in Nat /\ used \in Spent
    BY DEF StreamInv, StreamTypes
  <1>3. ck.gen <= gen /\ SideFollows(ck, torn, sidecar) /\ (ck.gen = gen => Follows(ck, lines))
    BY <1>1, <1>2 DEF CkFollows
  <1>4. /\ c \in Checkpointers /\ SameSide(c, ck) /\ c.gen <= gen
        /\ c.gen = gen => Follows(c, lines)
    BY <1>2, <1>3, AdvanceFollows
  <1> HIDE DEF c
  <1>13. SideFollows(c, torn, sidecar)
    BY <1>3, <1>4 DEF SideFollows, SameSide
  <1>5. /\ sidecar' \in Seq(Records) /\ RecordsKept' /\ torn' \in Nat
        /\ ck' \in Checkpointers /\ SideFollows(ck', torn', sidecar')
    <2>1. CASE names
      <3>1. c.count \in Nat /\ c.head \in Nat /\ c.sum \in Seq(Nat)
        BY <1>4 DEF Checkpointers
      <3>2. c.gen = gen => /\ c.count \in 1 .. Len(lines) /\ c.head = head_of_line(lines[c.count])
                           /\ c.head # 0 /\ c.sum = Prefix(lines, c.count)
        BY <2>1, <1>2, <1>4 DEF Follows, Good
      <3>3. /\ ck' = write_record(c, outcome)
            /\ Recorded(c, "close", c.count, c.head, c.sum, outcome, torn)
            /\ lines' = lines /\ gen' = gen
        BY <2>1, <1>1
      <3> QED
        BY <3>1, <3>2, <3>3, <1>2, <1>4, <1>13, RecordKeeps
    <2>2. CASE ~names
      <3>1. ck' = c /\ sidecar' = sidecar /\ torn' = torn
        BY <2>2, <1>1
      <3>2. RecordsKept'
        BY <3>1, <1>1, <1>2 DEF RecordsKept
      <3> QED
        BY <3>1, <3>2, <1>2, <1>4, <1>13
    <2> QED
      BY <2>1, <2>2
  <1>14. used' \in Spent
    <2>1. used' = used \/ Spend("failed", MaxFailed)
      BY <1>1, Zenon DEF Failing
    <2> QED
      BY <2>1, <1>2, SpendTypes
  <1>6. StreamTypes'
    BY <1>1, <1>2, <1>5, <1>14 DEF StreamTypes
  <1>7. CkFollows' /\ NextOnDisk'
    BY <1>1, <1>2, <1>5 DEF CkFollows, NextOnDisk, SideFollows
  <1>8. Writing' /\ Hashing'
    BY <1>1 DEF Writing, Hashing, NoEmit
  <1>9. Good(lines)' /\ LinkedIn(lines)' /\ Proper(tail)'
    BY <1>1 DEF StreamInv
  <1> QED
    BY <1>5, <1>6, <1>7, <1>8, <1>9 DEF StreamInv

(* Where the chain goes on after a start is on disk. *)
LEMMA ChainGoesOn ==
  ASSUME Good(lines), tail \in Texts
  PROVE  /\ tail_chain_hash \in Nat
         /\ tail_chain_hash # 0 => \/ OnDisk(lines, tail_chain_hash)
                                   \/ tail # NoText /\ tail.id = tail_chain_hash
  <1>0. lines \in Seq(LineSet)
    BY DEF Good
  <1>1. Len(lines) \in Nat
    BY <1>0
  <1>2. CASE tail # NoText
    <2>1. tail_chain_hash = IF tail.event THEN tail.id ELSE 0
      BY <1>2, Zenon DEF tail_chain_hash
    <2> QED
      BY <2>1, <1>2 DEF Texts
  <1>3. CASE tail = NoText /\ lines = <<>>
    <2>1. tail_chain_hash = IF NoText.event THEN NoText.id ELSE 0
      BY <1>3, Zenon DEF tail_chain_hash
    <2> QED
      BY <2>1 DEF NoText
  <1>4. CASE tail = NoText /\ lines # <<>>
    <2>1. tail_chain_hash = IF Last(lines).event THEN Last(lines).id ELSE 0
      BY <1>4, Zenon DEF tail_chain_hash
    <2>2. Len(lines) \in 1 .. Len(lines) /\ Last(lines) = lines[Len(lines)] /\ Len(lines) + 1 .. Len(lines) = {}
      BY <1>0, <1>1, <1>4 DEF Last
    <2>3. lines[Len(lines)] \in LineSet
      BY <2>2, <1>0
    <2>4. OnDisk(lines, lines[Len(lines)].id)
      BY <2>2 DEF OnDisk
    <2>5. lines[Len(lines)].id \in Nat
      BY <2>3 DEF LineSet
    <2> QED
      BY <2>1, <2>2, <2>4, <2>5
  <1> QED
    BY <1>2, <1>3, <1>4

LEMMA OpenStep ==
  ASSUME StreamInv, NEW outcome \in Outcomes4, open(outcome)
  PROVE  StreamInv'
  <1> DEFINE events == {i \in DOMAIN lines : lines[i].event}
             c == [EmptyCk EXCEPT !.sum = Ids(lines), !.off = Size(lines, NoText), !.count = Len(lines),
                     !.head = IF lines = <<>> THEN 0 ELSE head_of_line(Last(lines)),
                     !.prev = Len(sidecar), !.len = Through(sidecar), !.gen = gen,
                     !.stands = Len(sidecar)]
             resumes == tail_chain_hash = 0 /\ events # {}
             at == Max(events)
  <1>1. /\ up = "down" /\ up' = (IF outcome = "ok" THEN "up" ELSE "down")
        /\ emitting' = NoEmit /\ waited' = 0
        /\ next' = tail_chain_hash /\ linkgen' = gen
        /\ resumes => /\ ck' = write_record(c, outcome)
                      /\ Recorded(c, "resume", at, lines[at].id, Ids(SubSeq(lines, 1, at)), outcome, 0)
                      /\ Failing(outcome)
        /\ ~resumes => ck' = c /\ torn' = 0 /\ UNCHANGED <<sidecar, used>>
        /\ UNCHANGED <<lines, tail, gen>>
    BY DEF open, sidecar_tail
  <1>2. /\ StreamTypes /\ Good(lines) /\ RecordsKept /\ LinkedIn(lines)
        /\ sidecar \in Seq(Records) /\ tail \in Texts /\ gen \in Nat /\ lines \in Seq(LineSet)
        /\ used \in Spent
    BY DEF StreamInv, StreamTypes
  <1>3. Len(lines) \in Nat /\ Len(lines) \in 0 .. Len(lines) /\ DOMAIN lines = 1 .. Len(lines) /\ Len(sidecar) \in Nat
    BY <1>2
  <1>4. c \in Checkpointers /\ c.gen = gen /\ SideFollows(c, 0, sidecar) /\ Follows(c, lines)
    <2>1. SubSeq(lines, 1, Len(lines)) = lines
      BY <1>2
    <2>2. Ids(lines) = Prefix(lines, Len(lines)) /\ Ids(lines) \in Seq(Nat)
      BY <2>1, <1>2, <1>3, IdsOfPrefix
    <2>3. Size(lines, NoText) = End(lines, Len(lines)) /\ Size(lines, NoText) \in Nat
      <3>1. Through(lines) = End(lines, Len(lines)) /\ End(lines, Len(lines)) \in Nat
        BY <1>2, <1>3, ThroughEnd
      <3> QED
        BY <3>1 DEF Size, NoText
    <2>4. PICK h : h = IF lines = <<>> THEN 0 ELSE head_of_line(Last(lines))
      OBVIOUS
    <2>5. h \in Nat /\ h = IF Len(lines) = 0 THEN 0 ELSE head_of_line(lines[Len(lines)])
      <3>1. CASE lines = <<>>
        BY <3>1, <2>4
      <3>2. CASE lines # <<>>
        <4>1. Len(lines) # 0 /\ Len(lines) \in 1 .. Len(lines)
          BY <3>2, <1>2, <1>3
        <4>2. lines[Len(lines)] \in LineSet /\ Last(lines) = lines[Len(lines)]
          BY <4>1, <1>2 DEF Last
        <4>3. head_of_line(lines[Len(lines)]) \in Nat
          BY <4>2 DEF head_of_line, LineSet
        <4> QED
          BY <3>2, <4>1, <4>2, <4>3, <2>4
      <3> QED
        BY <3>1, <3>2
    <2>6. PICK d, s, z, p, e : /\ d = c /\ s = Ids(lines) /\ z = Size(lines, NoText)
                               /\ p = Len(sidecar) /\ e = Through(sidecar)
      OBVIOUS
    <2>7. d = [sum |-> s, off |-> z, count |-> Len(lines), head |-> h, prev |-> p, pending |-> 0,
               len |-> e, gen |-> gen, uncut |-> 0, stands |-> p]
      BY <2>4, <2>6 DEF EmptyCk
    <2> HIDE DEF c
    <2>8. PICK m : m = Len(lines)
      OBVIOUS
    <2>9. d = [sum |-> s, off |-> z, count |-> m, head |-> h, prev |-> p, pending |-> 0,
               len |-> e, gen |-> gen, uncut |-> 0, stands |-> p]
      BY <2>7, <2>8
    <2>13. e = End(sidecar, p) /\ e \in Nat
      <3>1. Len(sidecar) \in 0 .. Len(sidecar)
        BY <1>3
      <3> QED
        BY <3>1, <2>6, <1>2, RecordEnds
    <2>10. s \in Seq(Nat) /\ z \in Nat /\ m \in Nat /\ h \in Nat /\ p \in Nat
      BY <2>2, <2>3, <2>5, <2>6, <2>8, <1>3
    <2>11. /\ d \in Checkpointers /\ d.sum = s /\ d.off = z /\ d.count = m /\ d.head = h
           /\ d.prev = p /\ d.gen = gen /\ d.len = e /\ d.uncut = 0 /\ d.stands = p
      BY <2>9, <2>10, <2>13, <1>2 DEF Checkpointers
    <2>14. SideFollows(d, 0, sidecar)
      BY <2>6, <2>10, <2>11, <2>13 DEF SideFollows
    <2>12. Follows(d, lines)
      BY <2>2, <2>3, <2>5, <2>6, <2>8, <2>11, <1>3 DEF Follows
    <2> QED
      BY <2>6, <2>11, <2>12, <2>14
  <1> HIDE DEF c
  <1>5. /\ sidecar' \in Seq(Records) /\ RecordsKept' /\ torn' \in Nat /\ ck' \in Checkpointers
        /\ SideFollows(ck', torn', sidecar') /\ ck'.gen = gen /\ Follows(ck', lines)
    <2>1. CASE resumes
      <3>1. events \in SUBSET (1 .. Len(lines)) /\ events # {}
        BY <2>1, <1>3
      <3>2. at \in events
        BY <3>1, <1>3, GreatestOf
      <3>3. at \in 1 .. Len(lines) /\ at \in 0 .. Len(lines) /\ at \in Nat /\ lines[at].event
        BY <3>1, <3>2, <1>3
      <3>4. lines[at].id # 0 /\ lines[at] \in LineSet
        BY <3>3, <1>2 DEF Good
      <3> HIDE DEF at, events
      <3>5. lines[at].id \in Nat /\ lines[at].id = head_of_line(lines[at])
        BY <3>3, <3>4 DEF LineSet, head_of_line
      <3>6. Ids(SubSeq(lines, 1, at)) = Prefix(lines, at) /\ Ids(SubSeq(lines, 1, at)) \in Seq(Nat)
        BY <3>3, <1>2, IdsOfPrefix
      <3>7. /\ ck' = write_record(c, outcome)
            /\ Recorded(c, "resume", at, lines[at].id, Ids(SubSeq(lines, 1, at)), outcome, 0)
            /\ lines' = lines /\ gen' = gen
        BY <2>1, <1>1
      <3>8. c.gen <= gen /\ 0 \in Nat
        BY <1>2, <1>4
      <3> QED
        BY <3>3, <3>4, <3>5, <3>6, <3>7, <3>8, <1>2, <1>4, RecordKeeps
    <2>2. CASE ~resumes
      <3>1. ck' = c /\ sidecar' = sidecar /\ torn' = 0
        BY <2>2, <1>1
      <3>2. RecordsKept'
        BY <3>1, <1>1, <1>2 DEF RecordsKept
      <3> QED
        BY <3>1, <3>2, <1>2, <1>4
    <2> QED
      BY <2>1, <2>2
  <1>6. /\ next' \in Nat
        /\ next' # 0 => OnDisk(lines, next') \/ (tail # NoText /\ tail.id = next')
    BY <1>1, <1>2, ChainGoesOn
  <1>7. emitting' \in Emits /\ emitting'.stage = "idle"
    BY <1>1 DEF NoEmit, Emits
  <1>13. /\ up' \in {"up", "down"} /\ waited' = 0 /\ linkgen' = gen /\ lines' = lines
         /\ tail' = tail /\ gen' = gen /\ (used' = used \/ Spend("failed", MaxFailed))
    BY <1>1, Zenon DEF Failing
  <1>8. StreamTypes'
    <2>1. up' \in {"up", "down", "closed"} /\ linkgen' \in Int /\ waited' \in Nat
      BY <1>2, <1>13
    <2>3. used' \in Spent
      BY <1>2, <1>13, SpendTypes
    <2>2. lines' \in Seq(LineSet) /\ tail' \in Texts /\ gen' \in Nat /\ used' \in Spent
      BY <2>3, <1>2, <1>13 DEF StreamTypes
    <2> QED
      BY <2>1, <2>2, <1>5, <1>6, <1>7, Zenon DEF StreamTypes
  <1>9. CkFollows'
    BY <1>2, <1>5, <1>13 DEF CkFollows, SideFollows
  <1>10. NextOnDisk'
    BY <1>2, <1>5, <1>6, <1>13 DEF NextOnDisk
  <1>11. Writing' /\ Hashing'
    BY <1>7 DEF Writing, Hashing
  <1>12. Good(lines)' /\ LinkedIn(lines)' /\ Proper(tail)'
    BY <1>1 DEF StreamInv
  <1> QED
    BY <1>5, <1>8, <1>9, <1>10, <1>11, <1>12 DEF StreamInv

LEMMA OtherStep ==
  ASSUME StreamInv, OtherAppends
  PROVE  StreamInv'
  <1>1. /\ Spend("others", MaxOthers) /\ tail' = NoText
        /\ lines' = Append(lines, IF tail = NoText THEN Line(lines, 2, NewId, TRUE)
                                  ELSE Line(lines, tail.size + 2, tail.id, FALSE))
        /\ UNCHANGED <<next, emitting, ck, waited, sidecar, torn, up, gen, linkgen>>
    BY DEF OtherAppends, AppendLine
  <1>2. StreamTypes /\ Good(lines) /\ CkFollows /\ NextOnDisk /\ Writing /\ Hashing /\ tail \in Texts
        /\ used \in Spent /\ emitting \in Emits /\ ck \in Checkpointers /\ gen \in Nat
    BY DEF StreamInv, StreamTypes
  <1>3. used' \in Spent /\ NewId \in Nat /\ NewId # 0
    BY <1>1, <1>2, SpendTypes, NewIdIsNew
  <1>4. PICK ms : ms = lines'
    OBVIOUS
  <1>5. /\ Through(lines) = End(lines, Len(lines)) /\ End(lines, Len(lines)) \in Nat /\ Len(lines) \in Nat
        /\ \A i \in 0 .. Len(lines) : End(lines, i) \in Nat
    BY <1>2, ThroughEnd DEF Good
  <1>6. /\ Good(ms) /\ Grows(lines, ms) /\ LinkedIn(ms) /\ \A id : OnDisk(lines, id) => OnDisk(ms, id)
        /\ End(ms, Len(ms)) > End(lines, Len(lines))
        /\ tail # NoText => OnDisk(ms, tail.id) /\ End(ms, Len(ms)) >= End(lines, Len(lines)) + 3
    <2>1. CASE tail # NoText
      <3>1. PICK l : l = Line(lines, tail.size + 2, tail.id, FALSE)
        OBVIOUS
      <3>2. ms = Append(lines, l)
        BY <2>1, <3>1, <1>1, <1>4
      <3>3. /\ Good(ms) /\ Grows(lines, ms) /\ LinkedIn(ms) /\ OnDisk(ms, tail.id)
            /\ \A id : OnDisk(lines, id) => OnDisk(ms, id)
            /\ End(ms, Len(ms)) = End(lines, Len(lines)) + tail.size + 2
            /\ tail.size \in Nat /\ tail.size >= 1
        BY <2>1, <3>1, <3>2, GluedIs
      <3> QED
        BY <3>3, <1>5
    <2>2. CASE tail = NoText
      <3>1. PICK l, z, id : l = Line(lines, 2, NewId, TRUE) /\ z = End(lines, Len(lines)) + 2 /\ id = NewId
        OBVIOUS
      <3>2. ms = Append(lines, l)
        BY <2>2, <3>1, <1>1, <1>4
      <3>3. z \in Nat /\ id \in Nat /\ z > End(lines, Len(lines)) /\ id # 0
        BY <3>1, <1>3, <1>5
      <3>4. l = [id |-> id, event |-> TRUE, ends |-> z, acked |-> FALSE, prev |-> 0, linked |-> FALSE]
        BY <3>1, <1>5 DEF Line
      <3>5. l.ends = z /\ l.id = id /\ l.event = TRUE /\ l.acked = FALSE
        BY <3>4
      <3>6. l \in LineSet
        <4>1. z \in Nat /\ id \in Nat
          BY <3>3
        <4> QED
          BY <4>1, <3>4 DEF LineSet
      <3>7. l.ends > End(lines, Len(lines)) /\ (l.event => l.id # 0) /\ ~l.acked
        BY <3>3, <3>5
      <3>8. /\ Good(ms) /\ Grows(lines, ms) /\ End(ms, Len(ms)) = l.ends
            /\ LinkedIn(ms) /\ \A i : OnDisk(lines, i) => OnDisk(ms, i)
        BY <3>2, <3>6, <3>7, LineAdded
      <3> QED
        BY <2>2, <3>7, <3>8
    <2> QED
      BY <2>1, <2>2
  <1>7. CkFollows' /\ RecordsKept'
    BY <1>1, <1>4, <1>6, AppendsKeep
  <1>8. StreamTypes'
    <2>1. lines' \in Seq(LineSet)
      BY <1>4, <1>6 DEF Good
    <2>2. tail' \in Texts
      BY <1>1 DEF Texts, NoText
    <2> QED
      BY <2>1, <2>2, <1>1, <1>2, <1>3 DEF StreamTypes
  <1>9. NextOnDisk'
    BY <1>1, <1>2, <1>4, <1>6 DEF NextOnDisk
  <1>10. Len(ms) \in Nat /\ End(ms, Len(ms)) \in Nat /\ Len(lines) <= Len(ms)
    <2>1. Len(ms) \in 0 .. Len(ms) /\ Len(ms) \in Nat
      BY <1>6 DEF Good
    <2> QED
      BY <2>1, <1>6, ThroughEnd DEF Grows
  <1>11. ck.off \in Nat
    BY <1>2 DEF Checkpointers
  <1>12. Writing'
    <2> SUFFICES ASSUME emitting.stage = "write"
                 PROVE  Writing'
      BY <1>1 DEF Writing
    <2>1. ASSUME ck.gen = gen, emitting.lf
          PROVE  End(ms, Len(ms)) >= ck.off + 3
      <3>1. CASE tail = NoText
        <4>1. End(lines, Len(lines)) >= ck.off + 3
          BY <2>1, <3>1, <1>2 DEF Writing
        <4> QED
          BY <4>1, <1>5, <1>6, <1>10, <1>11
      <3>2. CASE tail # NoText
        <4>1. up = "up"
          BY <1>2 DEF Writing
        <4>2. ck.off <= End(lines, Len(lines))
          BY <4>1, <2>1, <1>2, OffWithin
        <4> QED
          BY <4>2, <3>2, <1>5, <1>6, <1>10, <1>11
      <3> QED
        BY <3>1, <3>2
    <2>2. up = "up" /\ emitting.id # 0
      BY <1>2 DEF Writing
    <2>3. ASSUME ck.gen = gen, ~emitting.lf, linkgen = gen, next # 0
          PROVE  OnDisk(ms, next)
      BY <2>3, <1>2, <1>6 DEF Writing
    <2> QED
      BY <2>1, <2>2, <2>3, <1>1, <1>4 DEF Writing
  <1>13. Hashing'
    <2> SUFFICES ASSUME emitting.stage = "hash"
                 PROVE  Hashing'
      BY <1>1 DEF Hashing
    <2>1. up = "up"
      BY <1>2 DEF Hashing
    <2>2. ASSUME ck.gen = gen, emitting.lf
          PROVE  emitting.wrote = 3 /\ End(ms, Len(ms)) >= ck.off + 4
      <3>1. emitting.wrote = 3 /\ End(lines, Len(lines)) >= ck.off + 4
        BY <2>2, <1>2 DEF Hashing
      <3> QED
        BY <3>1, <1>5, <1>6, <1>10, <1>11
    <2>3. ASSUME ck.gen = gen, ~emitting.lf, ~(End(ms, Len(ms)) >= ck.off + 3)
          PROVE  /\ next = emitting.id
                 /\ \E j \in 1 .. Len(ms) :
                      /\ ck.count < j /\ ms[j].ends = End(ms, j - 1) + 2
                      /\ ms[j].id = emitting.id /\ ms[j].event
      <3>0. ~(End(lines, Len(lines)) >= ck.off + 3)
        BY <2>3, <1>5, <1>6, <1>10, <1>11
      <3>1. /\ next = emitting.id
            /\ \E j \in 1 .. Len(lines) :
                 /\ ck.count < j /\ lines[j].ends = End(lines, j - 1) + 2
                 /\ lines[j].id = emitting.id /\ lines[j].event
        BY <2>3, <3>0, <1>2 DEF Hashing
      <3>2. PICK j \in 1 .. Len(lines) :
                 /\ ck.count < j /\ lines[j].ends = End(lines, j - 1) + 2
                 /\ lines[j].id = emitting.id /\ lines[j].event
        BY <3>1
      <3>3. ms[j] = lines[j] /\ j \in 1 .. Len(ms)
        BY <1>5, <1>6, <1>10 DEF Grows
      <3>4. End(ms, j - 1) = End(lines, j - 1)
        <4>1. j - 1 # 0 => ms[j - 1] = lines[j - 1]
          BY <1>5, <1>6 DEF Grows
        <4> QED
          BY <4>1 DEF End
      <3> QED
        BY <3>1, <3>2, <3>3, <3>4
    <2>4. ck.gen = gen /\ ~emitting.lf => emitting.wrote = 2
      BY <1>2 DEF Hashing
    <2> QED
      BY <2>1, <2>2, <2>3, <2>4, <1>1, <1>4 DEF Hashing
  <1>14. Proper(tail')
    BY <1>1 DEF Proper, NoText
  <1> QED
    BY <1>4, <1>6, <1>7, <1>8, <1>9, <1>12, <1>13, <1>14 DEF StreamInv

(* A fragment that another process leaves is nobody's event, and one that  *)
(* was there keeps its id.                                                 *)
LEMMA TearStep ==
  ASSUME StreamInv, OtherTears
  PROVE  StreamInv'
  <1>1. /\ Spend("others", MaxOthers)
        /\ tail' = IF tail = NoText THEN [id |-> NewId, event |-> FALSE, size |-> 1]
                   ELSE [tail EXCEPT !.event = FALSE, !.size = tail.size + 1]
        /\ UNCHANGED <<lines, next, emitting, ck, waited, sidecar, torn, up, gen, linkgen>>
    BY DEF OtherTears
  <1>2. /\ StreamTypes /\ Good(lines) /\ CkFollows /\ RecordsKept /\ LinkedIn(lines) /\ NextOnDisk
        /\ Writing /\ Hashing /\ tail \in Texts /\ used \in Spent
    BY DEF StreamInv, StreamTypes
  <1>3. used' \in Spent /\ NewId \in Nat /\ NewId # 0
    BY <1>1, <1>2, SpendTypes, NewIdIsNew
  <1>4. PICK t : t = tail'
    OBVIOUS
  <1>5. t \in Texts /\ t.event = FALSE /\ t.size > 0 /\ (tail # NoText => t.id = tail.id)
    <2>1. CASE tail = NoText
      BY <2>1, <1>1, <1>3, <1>4 DEF Texts
    <2>2. CASE tail # NoText
      <3>1. PICK n : n = tail.size + 1
        OBVIOUS
      <3>2. n \in Nat /\ n > 0
        BY <3>1, <1>2 DEF Texts
      <3>3. t = [tail EXCEPT !.event = FALSE, !.size = n]
        BY <2>2, <3>1, <1>1, <1>4
      <3> QED
        BY <3>2, <3>3, <1>2 DEF Texts
    <2> QED
      BY <2>1, <2>2
  <1>6. t # NoText
    BY <1>5 DEF NoText
  <1>7. StreamTypes'
    BY <1>1, <1>2, <1>3, <1>4, <1>5 DEF StreamTypes
  <1>8. CkFollows' /\ RecordsKept' /\ Good(lines)' /\ LinkedIn(lines)'
    BY <1>1, <1>2 DEF CkFollows, RecordsKept
  <1>9. NextOnDisk'
    BY <1>1, <1>2, <1>4, <1>5, <1>6 DEF NextOnDisk
  <1>10. Writing'
    BY <1>1, <1>2, <1>4, <1>6 DEF Writing
  <1>11. Hashing'
    BY <1>1, <1>2 DEF Hashing
  <1>12. Proper(tail')
    BY <1>4, <1>5 DEF Proper
  <1> QED
    BY <1>7, <1>8, <1>9, <1>10, <1>11, <1>12 DEF StreamInv

LEMMA CrashStep ==
  ASSUME StreamInv, Crash
  PROVE  StreamInv'
  <1>1. /\ Spend("crashes", MaxCrashes) /\ up' = "down" /\ emitting' = NoEmit
        /\ UNCHANGED <<lines, tail, next, ck, waited, sidecar, gen, linkgen>>
    BY DEF Crash
  <1>9. torn' \in Nat
    <2>1. torn' = torn \/ torn' = torn + 1
      BY DEF Crash
    <2> QED
      BY <2>1 DEF StreamInv, StreamTypes
  <1>2. StreamTypes /\ CkFollows /\ RecordsKept /\ NextOnDisk
    BY DEF StreamInv
  <1>3. used' \in Spent
    BY <1>1, <1>2, SpendTypes DEF StreamTypes
  <1>4. emitting' \in Emits /\ emitting'.stage = "idle"
    BY <1>1 DEF NoEmit, Emits
  <1>5. StreamTypes'
    BY <1>1, <1>2, <1>3, <1>4, <1>9 DEF StreamTypes
  <1>6. CkFollows' /\ RecordsKept' /\ NextOnDisk'
    BY <1>1, <1>2 DEF CkFollows, RecordsKept, NextOnDisk
  <1>7. Writing' /\ Hashing'
    BY <1>4 DEF Writing, Hashing
  <1>8. Good(lines)' /\ LinkedIn(lines)' /\ Proper(tail)'
    BY <1>1 DEF StreamInv
  <1> QED
    BY <1>5, <1>6, <1>7, <1>8 DEF StreamInv

LEMMA RotateStep ==
  ASSUME StreamInv, Rotate
  PROVE  StreamInv'
  <1>1. /\ Spend("rotations", MaxRotations) /\ lines' = <<>> /\ tail' = NoText /\ gen' = gen + 1
        /\ UNCHANGED <<next, emitting, ck, waited, sidecar, torn, up, linkgen>>
    BY DEF Rotate
  <1>2. StreamTypes /\ CkFollows /\ RecordsKept /\ NextOnDisk /\ Writing /\ Hashing
        /\ gen \in Nat /\ used \in Spent /\ ck \in Checkpointers /\ linkgen \in Int
    BY DEF StreamInv, StreamTypes
  <1>3. used' \in Spent
    BY <1>1, <1>2, SpendTypes
  <1>4. Good(lines')
    <2>1. <<>> \in Seq(LineSet) /\ Len(<<>>) = 0
      OBVIOUS
    <2> QED
      BY <2>1, <1>1 DEF Good
  <1>5. LinkedIn(lines')
    <2>1. Len(<<>>) = 0
      OBVIOUS
    <2> QED
      BY <2>1, <1>1 DEF LinkedIn
  <1>6. StreamTypes'
    <2>1. lines' \in Seq(LineSet) /\ tail' \in Texts /\ gen' \in Nat
      BY <1>1, <1>2, <1>4 DEF Good, Texts, NoText
    <2> QED
      BY <2>1, <1>1, <1>2, <1>3 DEF StreamTypes
  <1>7. CkFollows'
    <2>1. up = "up" => ck.gen <= gen + 1 /\ ck.gen # gen + 1
      BY <1>2 DEF CkFollows, Checkpointers
    <2> QED
      BY <2>1, <1>1, <1>2 DEF CkFollows
  <1>8. RecordsKept'
    <2>1. \A i \in 1 .. Len(sidecar) : sidecar[i].gen <= gen + 1 /\ sidecar[i].gen # gen + 1
      <3>1. \A i \in 1 .. Len(sidecar) : sidecar[i] \in Records
        BY <1>2 DEF StreamTypes
      <3>2. \A i \in 1 .. Len(sidecar) : sidecar[i].gen \in Nat
        BY <3>1 DEF Records
      <3> QED
        BY <3>2, <1>2 DEF RecordsKept
    <2> QED
      BY <2>1, <1>1, <1>2 DEF RecordsKept
  <1>9. NextOnDisk'
    <2>1. linkgen <= gen + 1 /\ linkgen # gen + 1
      BY <1>2 DEF NextOnDisk
    <2> QED
      BY <2>1, <1>1 DEF NextOnDisk
  <1>10. emitting.stage \in {"write", "hash"} => ck.gen # gen + 1
    BY <1>2 DEF CkFollows, Writing, Hashing, Checkpointers
  <1>11. Writing' /\ Hashing'
    BY <1>1, <1>2, <1>10 DEF Writing, Hashing
  <1>12. Proper(tail')
    BY <1>1 DEF Proper, NoText
  <1> QED
    BY <1>4, <1>5, <1>6, <1>7, <1>8, <1>9, <1>11, <1>12 DEF StreamInv

LEMMA StreamStarts == StreamInit => StreamInv
  <1> SUFFICES ASSUME StreamInit PROVE StreamInv
    OBVIOUS
  <1>1. <<>> \in Seq(LineSet) /\ <<>> \in Seq(Records) /\ <<>> \in Seq(Nat) /\ Len(<<>>) = 0
    OBVIOUS
  <1>2. ck \in Checkpointers
    BY <1>1 DEF StreamInit, EmptyCk, Checkpointers
  <1>3. tail \in Texts /\ emitting \in Emits /\ used \in Spent /\ emitting.stage = "idle" /\ Proper(tail)
    BY DEF StreamInit, NoText, NoEmit, Texts, Emits, Spent, Proper
  <1>4. StreamTypes
    <2>0. torn \in Nat
      BY DEF StreamInit
    <2>1. up \in {"up", "down", "closed"} /\ linkgen \in Int /\ gen \in Nat
      BY DEF StreamInit
    <2>2. waited \in Nat /\ next \in Nat /\ lines \in Seq(LineSet) /\ sidecar \in Seq(Records)
      BY <1>1 DEF StreamInit
    <2> QED
      BY <2>0, <2>1, <2>2, <1>2, <1>3, Zenon DEF StreamTypes
  <1>5. Good(lines) /\ LinkedIn(lines)
    BY <1>1 DEF StreamInit, Good, LinkedIn
  <1>6. CkFollows /\ RecordsKept /\ NextOnDisk
    BY <1>1 DEF StreamInit, CkFollows, RecordsKept, NextOnDisk, EmptyCk
  <1>7. Writing /\ Hashing
    BY <1>3 DEF Writing, Hashing
  <1> QED
    BY <1>3, <1>4, <1>5, <1>6, <1>7 DEF StreamInv

LEMMA StreamSteps == StreamInv /\ [StreamNext]_streamvars => StreamInv'
  <1> SUFFICES ASSUME StreamInv, [StreamNext]_streamvars
               PROVE  StreamInv'
    OBVIOUS
  <1>1. CASE needs_newline
    BY <1>1, LookStep
  <1>2. ASSUME NEW o, emit(o)
        PROVE  StreamInv'
    <2>1. CASE o = "ok" /\ emitting.lf
      BY <1>2, <2>1, EmitBehind
    <2>2. CASE o = "ok" /\ ~emitting.lf /\ tail = NoText
      BY <1>2, <2>2, EmitPlain
    <2>3. CASE o = "ok" /\ ~emitting.lf /\ tail # NoText
      BY <1>2, <2>3, EmitGlued
    <2>4. CASE o # "ok"
      BY <1>2, <2>4, EmitFails
    <2> QED
      BY <2>1, <2>2, <2>3, <2>4
  <1>3. ASSUME NEW o \in Outcomes4, after_append(o) \/ tick(o) \/ close(o) \/ open(o)
        PROVE  StreamInv'
    BY <1>3, HashStep, TickStep, CloseStep, OpenStep
  <1>5. CASE Age
    <2>1. waited' = waited + 1 /\ UNCHANGED <<lines, tail, next, emitting, ck, sidecar, torn, up, gen, linkgen, used>>
      BY <1>5 DEF Age
    <2>2. StreamTypes'
      <3>1. StreamTypes /\ waited' \in Nat
        BY <2>1 DEF StreamInv, StreamTypes
      <3> QED
        BY <2>1, <3>1 DEF StreamTypes
    <2>3. CkFollows' /\ RecordsKept' /\ NextOnDisk'
      BY <2>1 DEF StreamInv, CkFollows, RecordsKept, NextOnDisk
    <2>4. Writing' /\ Hashing'
      BY <2>1 DEF StreamInv, Writing, Hashing
    <2>5. Good(lines)' /\ LinkedIn(lines)' /\ Proper(tail)'
      BY <2>1 DEF StreamInv
    <2> QED
      BY <2>2, <2>3, <2>4, <2>5 DEF StreamInv
  <1>7. CASE OtherTears
    BY <1>7, TearStep
  <1>8. CASE OtherAppends
    BY <1>8, OtherStep
  <1>9. CASE Crash
    BY <1>9, CrashStep
  <1>10. CASE Rotate
    BY <1>10, RotateStep
  <1>11. CASE UNCHANGED streamvars
    <2>1. StreamTypes' /\ CkFollows'
      BY <1>11 DEF streamvars, StreamInv, StreamTypes, CkFollows
    <2>2. RecordsKept' /\ NextOnDisk' /\ Writing' /\ Hashing'
      BY <1>11 DEF streamvars, StreamInv, RecordsKept, NextOnDisk, Writing, Hashing
    <2>3. Good(lines)' /\ LinkedIn(lines)' /\ Proper(tail)'
      BY <1>11 DEF streamvars, StreamInv
    <2> QED
      BY <2>1, <2>2, <2>3 DEF StreamInv
  <1> QED
    BY <1>1, <1>2, <1>3, <1>5, <1>7, <1>8, <1>9, <1>10, <1>11, Zenon DEF StreamNext, Outcomes4

(* Whatever other writers' lines and fragments, torn appends, failed       *)
(* records, deaths and cuts do: a record about the stream as it is names   *)
(* an event of it and every byte through it; records written by a process  *)
(* that has cut off each of its failed ones are whole, name the one before *)
(* and are never cut off again (one whose cut failed too, checkpoint.rs:860,*)
(* is left out); and an acknowledged event links to one that stands before *)
(* it in the file with no other acknowledged one between.                  *)
THEOREM ChainsHold == StreamSpec => []CheckpointsTrue
  <1>1. StreamInv => CheckpointsTrue
    <2> SUFFICES ASSUME StreamInv PROVE CheckpointsTrue
      OBVIOUS
    <2>1. /\ Good(lines) /\ RecordsKept /\ LinkedIn(lines) /\ sidecar \in Seq(Records)
          /\ lines \in Seq(LineSet)
      BY DEF StreamInv, StreamTypes
    <2>2. DOMAIN sidecar = 1 .. Len(sidecar) /\ DOMAIN lines = 1 .. Len(lines)
      BY <2>1
    <2>3. RecordsTrue
      <3> SUFFICES ASSUME NEW i \in 1 .. Len(sidecar), sidecar[i].gen = gen
                   PROVE  /\ sidecar[i].count \in 1 .. Len(lines)
                          /\ sidecar[i].head = head_of_line(lines[sidecar[i].count])
                          /\ sidecar[i].head # 0
                          /\ sidecar[i].prefix = Ids(SubSeq(lines, 1, sidecar[i].count))
        BY <2>2 DEF RecordsTrue
      <3>1. TrueOf(sidecar[i], lines)
        BY <2>1 DEF RecordsKept
      <3>2. sidecar[i].count \in 0 .. Len(lines)
        BY <3>1, <2>1 DEF TrueOf
      <3>3. Ids(SubSeq(lines, 1, sidecar[i].count)) = Prefix(lines, sidecar[i].count)
        BY <3>2, <2>1, IdsOfPrefix
      <3> QED
        BY <3>1, <3>3 DEF TrueOf
    <2>4. SidecarChained
      BY <2>1, <2>2 DEF SidecarChained, RecordsKept, StreamInv, CkFollows
    <2>5. LinkedToDisk
      BY <2>1, <2>2 DEF LinkedToDisk, LinkedIn
    <2> QED
      BY <2>3, <2>4, <2>5 DEF CheckpointsTrue
  <1> QED
    BY <1>1, StreamStarts, StreamSteps, PTL DEF StreamSpec
-----------------------------------------------------------------------------
(* CloudSink.                                                              *)

(* Where a row can be, the wire apart. *)
Holders == {"buf", "call", "tick", "queue", "chunk", "buffered", "leaving"}

Holding ==
  [h \in Holders |->
     CASE h = "buf" -> buf
       [] h = "call" -> hand["call"].batch
       [] h = "tick" -> hand["tick"].batch
       [] h = "queue" -> queue
       [] h = "chunk" -> drainer.chunk
       [] h = "buffered" -> exit.buffered
       [] h = "leaving" -> exit.chunk]

Distinct(s) == \A i, j \in DOMAIN s : s[i] = s[j] => i = j

(* A row is in one place, and there once. *)
Parted(P, wire) ==
  /\ \A h \in Holders : P[h] \in Seq(Nat) /\ Distinct(P[h])
  /\ \A h, k \in Holders : h # k => Range(P[h]) \cap Range(P[k]) = {}
  /\ \A b \in wire : b \in Seq(Nat) /\ Distinct(b)
  /\ \A b \in wire, h \in Holders : Range(b) \cap Range(P[h]) = {}
  /\ \A b, c \in wire : b # c => Range(b) \cap Range(c) = {}

HeldIn(P, wire) ==
  {r \in Nat : (\E h \in Holders : r \in Range(P[h])) \/ (\E b \in wire : r \in Range(b))}

Held == HeldIn(Holding, posts)

SinkTypes ==
  /\ recorded \in Nat
  /\ hand = [t \in Threads |-> hand[t]]
  /\ \A t \in Threads :
       /\ hand[t] = [busy |-> hand[t].busy, batch |-> hand[t].batch]
       /\ ~hand[t].busy => hand[t].batch = <<>>
  /\ IsFiniteSet(posts)
  /\ drainer = [draining |-> drainer.draining, chunk |-> drainer.chunk]
  /\ exit = [stage |-> exit.stage, buffered |-> exit.buffered, chunk |-> exit.chunk, unsent |-> exit.unsent]
  /\ received \in Seq(Nat)
  /\ Len(queue) =< QUEUE_CAP

(* No row is lost but at the cap, and none is both answered for and still  *)
(* to be sent, or received twice, unless an answer was lost.               *)
RowsKept ==
  /\ Held \cup Answered \cup dropped = Rows
  /\ Held \cap dropped = {}
  /\ Held \cap Answered \subseteq unanswered
  /\ \A i, j \in DOMAIN received : received[i] = received[j] /\ i # j => received[i] \in unanswered

Leaving ==
  /\ exit.stage # "waiting" => exit.buffered = <<>>
  /\ exit.stage # "sending" => exit.chunk = <<>>
  /\ exit.stage = "done" =>
       exit.unsent = Len(queue) + Len(drainer.chunk) + Cardinality(UNION {Range(b) : b \in posts})

SinkInv == SinkTypes /\ Parted(Holding, posts) /\ RowsKept /\ Leaving

-----------------------------------------------------------------------------
LEMMA SinkNumbers == BATCH \in Nat /\ BATCH > 0 /\ QUEUE_CAP \in Nat
BY SinkAssumption

LEMMA HoldingIs ==
  /\ Holding["buf"] = buf /\ Holding["call"] = hand["call"].batch /\ Holding["tick"] = hand["tick"].batch
  /\ Holding["queue"] = queue /\ Holding["chunk"] = drainer.chunk
  /\ Holding["buffered"] = exit.buffered /\ Holding["leaving"] = exit.chunk
BY DEF Holding, Holders

LEMMA HoldingNext ==
  /\ Holding'["buf"] = buf' /\ Holding'["call"] = hand'["call"].batch /\ Holding'["tick"] = hand'["tick"].batch
  /\ Holding'["queue"] = queue' /\ Holding'["chunk"] = drainer.chunk'
  /\ Holding'["buffered"] = exit.buffered' /\ Holding'["leaving"] = exit.chunk'
BY DEF Holding, Holders

LEMMA EmptyRange == Range(<<>>) = {} /\ Distinct(<<>>) /\ <<>> \in Seq(Nat)
BY DEF Range, Distinct

LEMMA RangeIsNat == ASSUME NEW s \in Seq(Nat) PROVE Range(s) \subseteq Nat
BY DEF Range

(* A sequence cut in two. *)
LEMMA CutInTwo ==
  ASSUME NEW q \in Seq(Nat), Distinct(q), NEW n \in 0 .. Len(q)
  PROVE  LET front == SubSeq(q, 1, n)
             back == SubSeq(q, n + 1, Len(q))
         IN  /\ front \in Seq(Nat) /\ Distinct(front) /\ Len(front) = n
             /\ back \in Seq(Nat) /\ Distinct(back) /\ Len(back) = Len(q) - n
             /\ Range(front) \cap Range(back) = {}
             /\ Range(front) \cup Range(back) = Range(q)
<1> DEFINE front == SubSeq(q, 1, n)
           back == SubSeq(q, n + 1, Len(q))
           m == Len(q)
<1>1. m \in Nat /\ DOMAIN q = 1 .. m /\ n \in Nat /\ n =< m /\ \A i \in 1 .. m : q[i] \in Nat
  OBVIOUS
<1>2. /\ front \in Seq(Nat) /\ Len(front) = n /\ DOMAIN front = 1 .. n
      /\ \A i \in 1 .. n : front[i] = q[i]
  BY <1>1
<1>3. /\ back \in Seq(Nat) /\ Len(back) = m - n /\ DOMAIN back = 1 .. m - n
      /\ \A i \in 1 .. m - n : back[i] = q[i + n]
  <2>0. n + 1 \in Int /\ m \in Int /\ \A i \in n + 1 .. m : q[i] \in Nat
    BY <1>1
  <2>1. back \in Seq(Nat) /\ Len(back) = m - n
    <3>1. back \in Seq(Nat) /\ Len(back) = IF n + 1 <= m THEN m - (n + 1) + 1 ELSE 0
      BY <2>0, SubSeqProperties
    <3>2. (IF n + 1 <= m THEN m - (n + 1) + 1 ELSE 0) = m - n
      <4> HIDE DEF m
      <4> QED BY <1>1
    <3> HIDE DEF back, m
    <3> QED BY <1>1, <3>1, <3>2
  <2>2. \A i \in 1 .. m - n : back[i] = q[(n + 1) + i - 1] /\ (n + 1) + i - 1 = i + n
    BY <1>1
  <2>3. DOMAIN back = 1 .. Len(back)
    BY <2>1
  <2> HIDE DEF back
  <2> QED BY <2>1, <2>2, <2>3
<1> HIDE DEF front, back, m
<1>4. \A i, j \in 1 .. m : q[i] = q[j] => i = j
  BY <1>1 DEF Distinct
<1>5. Distinct(front)
  BY <1>1, <1>2, <1>4 DEF Distinct
<1>6. Distinct(back)
  <2>1. \A i \in 1 .. m - n : i + n \in 1 .. m /\ i \in Nat
    BY <1>1
  <2> QED BY <1>1, <1>3, <1>4, <2>1 DEF Distinct
<1>7. Range(front) \cap Range(back) = {}
  <2>1. \A i \in 1 .. n, j \in 1 .. m - n : i \in 1 .. m /\ j + n \in 1 .. m /\ i # j + n
    BY <1>1
  <2>2. \A i \in 1 .. n, j \in 1 .. m - n : front[i] # back[j]
    <3> SUFFICES ASSUME NEW i \in 1 .. n, NEW j \in 1 .. m - n PROVE front[i] # back[j]
      OBVIOUS
    <3>1. i \in 1 .. m /\ j + n \in 1 .. m /\ i # j + n
      BY <2>1
    <3>2. q[i] # q[j + n]
      BY <1>4, <3>1, Zenon
    <3>3. front[i] = q[i] /\ back[j] = q[j + n]
      BY <1>2, <1>3
    <3> QED BY <3>2, <3>3, Zenon
  <2>3. Range(front) = {front[i] : i \in 1 .. n} /\ Range(back) = {back[i] : i \in 1 .. m - n}
    BY <1>2, <1>3 DEF Range
  <2> QED BY <2>2, <2>3
<1>8. Range(front) \cup Range(back) = Range(q)
  <2>1. \A i \in 1 .. m : i \in 1 .. n \/ (i - n \in 1 .. m - n /\ (i - n) + n = i)
    BY <1>1
  <2>2. \A j \in 1 .. m - n : j + n \in 1 .. m
    BY <1>1
  <2>3. \A i \in 1 .. n : i \in 1 .. m
    BY <1>1
  <2>4. \A i \in 1 .. m : q[i] \in Range(front) \cup Range(back)
    <3> SUFFICES ASSUME NEW i \in 1 .. m PROVE q[i] \in Range(front) \cup Range(back)
      OBVIOUS
    <3>1. CASE i \in 1 .. n
      <4>1. front[i] = q[i] /\ i \in DOMAIN front
        BY <1>2, <3>1
      <4> QED BY <4>1 DEF Range
    <3>2. CASE i - n \in 1 .. m - n /\ (i - n) + n = i
      <4>1. back[i - n] = q[(i - n) + n] /\ i - n \in DOMAIN back
        BY <1>3, <3>2
      <4>2. back[i - n] = q[i] /\ i - n \in DOMAIN back
        BY <3>2, <4>1
      <4> QED BY <4>2, Zenon DEF Range
    <3> QED BY <2>1, <3>1, <3>2
  <2>5. \A i \in 1 .. n : front[i] \in Range(q)
    BY <1>1, <1>2, <2>3 DEF Range
  <2>6. \A i \in 1 .. m - n : back[i] \in Range(q)
    BY <1>1, <1>3, <2>2 DEF Range
  <2>7. /\ Range(front) = {front[i] : i \in 1 .. n} /\ Range(back) = {back[i] : i \in 1 .. m - n}
        /\ Range(q) = {q[i] : i \in 1 .. m}
    BY <1>1, <1>2, <1>3 DEF Range
  <2>8. Range(q) \subseteq Range(front) \cup Range(back)
    BY <2>4, <2>7
  <2>9. Range(front) \subseteq Range(q)
    BY <2>5, <2>7
  <2>10. Range(back) \subseteq Range(q)
    BY <2>6, <2>7
  <2> QED BY <2>8, <2>9, <2>10
<1>9. m = Len(q)
  BY DEF m
<1> QED BY <1>2, <1>3, <1>5, <1>6, <1>7, <1>8, <1>9 DEF front, back

LEMMA TwoJoined ==
  ASSUME NEW p \in Seq(Nat), NEW q \in Seq(Nat), Distinct(p), Distinct(q), Range(p) \cap Range(q) = {}
  PROVE  p \o q \in Seq(Nat) /\ Distinct(p \o q) /\ Range(p \o q) = Range(p) \cup Range(q)
<1> DEFINE m == Len(p)
           n == Len(q)
           s == p \o q
<1>1. /\ m \in Nat /\ n \in Nat /\ DOMAIN p = 1 .. m /\ DOMAIN q = 1 .. n
      /\ s \in Seq(Nat) /\ DOMAIN s = 1 .. m + n
      /\ \A i \in 1 .. m + n : s[i] = IF i =< m THEN p[i] ELSE q[i - m]
  OBVIOUS
<1> HIDE DEF m, n, s
<1>2. \A i \in 1 .. m + n : (i \in 1 .. m /\ s[i] = p[i]) \/ (i - m \in 1 .. n /\ s[i] = q[i - m] /\ ~(i =< m))
  BY <1>1
<1>3. Distinct(s)
  <2> SUFFICES ASSUME NEW i \in 1 .. m + n, NEW j \in 1 .. m + n, s[i] = s[j] PROVE i = j
    BY <1>1 DEF Distinct
  <2>1. CASE i =< m /\ j =< m
    BY <1>1, <1>2, <2>1 DEF Distinct
  <2>2. CASE ~(i =< m) /\ ~(j =< m)
    <3>1. i - m \in DOMAIN q /\ j - m \in DOMAIN q /\ q[i - m] = q[j - m]
      BY <1>1, <1>2, <2>2
    <3>2. i - m = j - m
      BY <3>1 DEF Distinct
    <3> QED BY <1>1, <3>2
  <2>3. CASE i =< m /\ ~(j =< m)
    <3>1. i \in DOMAIN p /\ s[i] = p[i] /\ j - m \in DOMAIN q /\ s[j] = q[j - m]
      BY <1>1, <1>2, <2>3
    <3>2. s[i] \in Range(p) /\ s[j] \in Range(q)
      BY <3>1, Zenon DEF Range
    <3> QED BY <3>2
  <2>4. CASE ~(i =< m) /\ j =< m
    <3>1. j \in DOMAIN p /\ s[j] = p[j] /\ i - m \in DOMAIN q /\ s[i] = q[i - m]
      BY <1>1, <1>2, <2>4
    <3>2. s[j] \in Range(p) /\ s[i] \in Range(q)
      BY <3>1, Zenon DEF Range
    <3> QED BY <3>2
  <2> QED BY <2>1, <2>2, <2>3, <2>4
<1>4. Range(s) = Range(p) \cup Range(q)
  <2>1. \A i \in 1 .. m + n : s[i] \in Range(p) \cup Range(q)
    BY <1>1, <1>2 DEF Range
  <2>2. \A i \in 1 .. m : i \in 1 .. m + n /\ s[i] = p[i]
    BY <1>1
  <2>3. \A i \in 1 .. n : i + m \in 1 .. m + n /\ s[i + m] = q[i]
    BY <1>1
  <2>4. Range(p) \subseteq Range(s) /\ Range(q) \subseteq Range(s)
    <3>1. /\ Range(p) = {p[i] : i \in 1 .. m} /\ Range(q) = {q[i] : i \in 1 .. n}
          /\ Range(s) = {s[i] : i \in 1 .. m + n}
      BY <1>1 DEF Range
    <3>2. \A i \in 1 .. m : p[i] \in Range(s)
      BY <2>2, <3>1
    <3>3. \A i \in 1 .. n : q[i] \in Range(s)
      BY <2>3, <3>1
    <3> QED BY <3>1, <3>2, <3>3
  <2> QED BY <1>1, <2>1, <2>4 DEF Range
<1> QED BY <1>1, <1>3, <1>4 DEF s

(* The queue within its cap, and what that drops. *)
LEMMA QueueCapped ==
  ASSUME NEW q \in Seq(Nat), Distinct(q), SetQueue(q)
  PROVE  /\ queue' \in Seq(Nat) /\ Distinct(queue') /\ Len(queue') =< QUEUE_CAP
         /\ dropped' = dropped \cup (Range(q) \ Range(queue'))
         /\ Range(queue') \subseteq Range(q)
<1>1. Excess(q) \in 0 .. Len(q) /\ Len(q) - Excess(q) =< QUEUE_CAP /\ Len(q) \in Nat
  BY SinkNumbers DEF Excess
<1> DEFINE n == Excess(q)
<1> HIDE DEF n
<1>2. n \in 0 .. Len(q) /\ n = Excess(q)
  BY <1>1 DEF n
<1>3. /\ SubSeq(q, n + 1, Len(q)) \in Seq(Nat) /\ Distinct(SubSeq(q, n + 1, Len(q)))
      /\ Len(SubSeq(q, n + 1, Len(q))) = Len(q) - n
      /\ Range(SubSeq(q, 1, n)) \cap Range(SubSeq(q, n + 1, Len(q))) = {}
      /\ Range(SubSeq(q, 1, n)) \cup Range(SubSeq(q, n + 1, Len(q))) = Range(q)
  BY <1>2, CutInTwo, Zenon
<1>4. queue' = SubSeq(q, n + 1, Len(q)) /\ dropped' = dropped \cup Range(SubSeq(q, 1, n))
  BY <1>2 DEF SetQueue
<1>5. Range(SubSeq(q, 1, n)) = Range(q) \ Range(SubSeq(q, n + 1, Len(q)))
  BY <1>3
<1> QED BY <1>1, <1>2, <1>3, <1>4, <1>5

-----------------------------------------------------------------------------
(* Rows go from one place to another, some of them perhaps away. *)
OverTo(P, Q, a, b) ==
  /\ a # b
  /\ \A h \in Holders : h # a /\ h # b => Q[h] = P[h]
  /\ Q[a] \in Seq(Nat) /\ Distinct(Q[a]) /\ Q[b] \in Seq(Nat) /\ Distinct(Q[b])
  /\ Range(Q[a]) \subseteq Range(P[a]) /\ Range(Q[b]) \subseteq Range(P[a]) \cup Range(P[b])
  /\ Range(Q[a]) \cap Range(Q[b]) = {}

LEMMA MovedOver ==
  ASSUME NEW P, NEW wire, Parted(P, wire), NEW Q, NEW a \in Holders, NEW b \in Holders, OverTo(P, Q, a, b)
  PROVE  /\ Parted(Q, wire)
         /\ HeldIn(Q, wire) = HeldIn(P, wire)
              \ ((Range(P[a]) \cup Range(P[b])) \ (Range(Q[a]) \cup Range(Q[b])))
<1> USE DEF OverTo
<1>1. \A h, k \in Holders : h # k => Range(P[h]) \cap Range(P[k]) = {}
  BY DEF Parted
<1>2. \A h, k \in Holders : h # k => Range(Q[h]) \cap Range(Q[k]) = {}
  <2> SUFFICES ASSUME NEW h \in Holders, NEW k \in Holders, h # k, NEW x, x \in Range(Q[h]), x \in Range(Q[k])
               PROVE  FALSE
    BY Zenon
  <2>1. CASE h = a /\ k = b
    BY <2>1
  <2>2. CASE h = b /\ k = a
    BY <2>2
  <2>3. CASE h # a /\ h # b
    <3>1. x \in Range(P[h])
      BY <2>3, Zenon
    <3>2. x \in Range(P[a]) \/ x \in Range(P[b]) \/ (k # a /\ k # b /\ x \in Range(P[k]))
      BY Zenon
    <3> QED BY <1>1, <2>3, <3>1, <3>2
  <2>4. CASE k # a /\ k # b
    <3>1. x \in Range(P[k])
      BY <2>4, Zenon
    <3>2. x \in Range(P[a]) \/ x \in Range(P[b]) \/ (h # a /\ h # b /\ x \in Range(P[h]))
      BY Zenon
    <3> QED BY <1>1, <2>4, <3>1, <3>2
  <2> QED BY <2>1, <2>2, <2>3, <2>4
<1>3. \A c \in wire, h \in Holders : Range(c) \cap Range(Q[h]) = {}
  <2>1. \A c \in wire, h \in Holders : Range(c) \cap Range(P[h]) = {}
    BY DEF Parted
  <2> SUFFICES ASSUME NEW c \in wire, NEW h \in Holders, NEW x, x \in Range(c), x \in Range(Q[h]) PROVE FALSE
    BY Zenon
  <2>2. x \in Range(P[a]) \/ x \in Range(P[b]) \/ x \in Range(P[h])
    BY Zenon
  <2> QED BY <2>1, <2>2
<1>4. \A h \in Holders : Q[h] \in Seq(Nat) /\ Distinct(Q[h])
  BY Zenon DEF Parted
<1>5. Parted(Q, wire)
  BY <1>2, <1>3, <1>4, Zenon DEF Parted
<1> DEFINE away == (Range(P[a]) \cup Range(P[b])) \ (Range(Q[a]) \cup Range(Q[b]))
<1>6. ASSUME NEW x \in Nat
      PROVE  x \in HeldIn(Q, wire) <=> x \in HeldIn(P, wire) /\ x \notin away
  <2>1. ASSUME x \in away PROVE x \notin HeldIn(Q, wire)
    <3>1. x \notin Range(Q[a]) /\ x \notin Range(Q[b]) /\ (x \in Range(P[a]) \/ x \in Range(P[b]))
      BY <2>1
    <3>2. \A h \in Holders : x \notin Range(Q[h])
      <4> SUFFICES ASSUME NEW h \in Holders, h # a, h # b PROVE x \notin Range(P[h])
        BY <3>1, Zenon
      <4> QED BY <1>1, <3>1
    <3>3. \A c \in wire : x \notin Range(c)
      BY <3>1 DEF Parted
    <3> QED BY <3>2, <3>3, Zenon DEF HeldIn
  <2>2. ASSUME x \in HeldIn(Q, wire) PROVE x \in HeldIn(P, wire)
    <3>1. CASE \E c \in wire : x \in Range(c)
      BY <3>1, Zenon DEF HeldIn
    <3>2. CASE \E h \in Holders : x \in Range(Q[h])
      <4>1. PICK h \in Holders : x \in Range(Q[h])
        BY <3>2
      <4>2. x \in Range(P[a]) \/ x \in Range(P[b]) \/ x \in Range(P[h])
        BY <4>1, Zenon
      <4> QED BY <4>2, Zenon DEF HeldIn
    <3> QED BY <2>2, <3>1, <3>2, Zenon DEF HeldIn
  <2>3. ASSUME x \in HeldIn(P, wire), x \notin away PROVE x \in HeldIn(Q, wire)
    <3>1. CASE \E c \in wire : x \in Range(c)
      BY <3>1, Zenon DEF HeldIn
    <3>2. CASE \E h \in Holders : x \in Range(P[h])
      <4>1. PICK h \in Holders : x \in Range(P[h])
        BY <3>2
      <4>2. x \in Range(Q[h]) \/ x \in Range(Q[a]) \/ x \in Range(Q[b])
        <5>1. CASE h # a /\ h # b
          BY <4>1, <5>1, Zenon
        <5>2. CASE h = a \/ h = b
          BY <2>3, <4>1, <5>2
        <5> QED BY <5>1, <5>2
      <4> QED BY <4>2, Zenon DEF HeldIn
    <3> QED BY <2>3, <3>1, <3>2, Zenon DEF HeldIn
  <2> HIDE DEF away
  <2> QED BY <2>1, <2>2, <2>3
<1>7. HeldIn(Q, wire) = HeldIn(P, wire) \ away
  <2>1. HeldIn(Q, wire) \subseteq Nat /\ HeldIn(P, wire) \subseteq Nat
    BY DEF HeldIn
  <2> HIDE DEF away
  <2> QED BY <1>6, <2>1
<1> QED BY <1>5, <1>7

(* A batch goes on the wire. *)
OutTo(P, Q, a, wire, out) ==
  out = wire \cup {P[a]} /\ Q[a] = <<>> /\ \A h \in Holders : h # a => Q[h] = P[h]

LEMMA SentOut ==
  ASSUME NEW P, NEW wire, Parted(P, wire), NEW Q, NEW a \in Holders, NEW out, OutTo(P, Q, a, wire, out)
  PROVE  Parted(Q, out) /\ HeldIn(Q, out) = HeldIn(P, wire)
<1> USE DEF OutTo
<1>1. Range(Q[a]) = {} /\ Q[a] \in Seq(Nat) /\ Distinct(Q[a])
  BY EmptyRange
<1>2. \A h \in Holders : Q[h] \in Seq(Nat) /\ Distinct(Q[h]) /\ Range(Q[h]) \subseteq Range(P[h])
  BY <1>1 DEF Parted
<1>3. \A h, k \in Holders : h # k => Range(Q[h]) \cap Range(Q[k]) = {}
  BY <1>2 DEF Parted
<1>4. \A b \in out : b \in Seq(Nat) /\ Distinct(b)
  BY DEF Parted
<1>5. \A b \in out, h \in Holders : Range(b) \cap Range(Q[h]) = {}
  <2> SUFFICES ASSUME NEW b \in out, NEW h \in Holders PROVE Range(b) \cap Range(Q[h]) = {}
    OBVIOUS
  <2>1. CASE b \in wire
    BY <1>2, <2>1 DEF Parted
  <2>2. CASE b = P[a] /\ h = a
    BY <1>1, <2>2
  <2>3. CASE b = P[a] /\ h # a
    BY <1>2, <2>3 DEF Parted
  <2> QED BY <2>1, <2>2, <2>3
<1>6. \A b, c \in out : b # c => Range(b) \cap Range(c) = {}
  BY DEF Parted
<1>7. Parted(Q, out)
  BY <1>2, <1>3, <1>4, <1>5, <1>6, Zenon DEF Parted
<1>8. HeldIn(Q, out) = HeldIn(P, wire)
  <2>1. \A x : (\E h \in Holders : x \in Range(Q[h])) \/ (\E b \in out : x \in Range(b))
               <=> (\E h \in Holders : x \in Range(P[h])) \/ (\E b \in wire : x \in Range(b))
    <3> SUFFICES ASSUME NEW x
                 PROVE  (\E h \in Holders : x \in Range(Q[h])) \/ (\E b \in out : x \in Range(b))
                        <=> (\E h \in Holders : x \in Range(P[h])) \/ (\E b \in wire : x \in Range(b))
      OBVIOUS
    <3>1. ASSUME NEW h \in Holders, x \in Range(P[h])
          PROVE  x \in Range(Q[h]) \/ x \in Range(P[a])
      BY <3>1, Zenon
    <3> QED BY <1>2, <3>1
  <2> QED BY <2>1 DEF HeldIn
<1> QED BY <1>7, <1>8

(* A batch comes back to the queue, or is answered for. *)
BackTo(P, Q, a, b, wire, left) ==
  /\ left = wire \ {b}
  /\ \A h \in Holders : h # a => Q[h] = P[h]
  /\ Q[a] \in Seq(Nat) /\ Distinct(Q[a]) /\ Range(Q[a]) \subseteq Range(b) \cup Range(P[a])

LEMMA CameBack ==
  ASSUME NEW P, NEW wire, Parted(P, wire), NEW Q, NEW a \in Holders, NEW b \in wire,
         NEW left, BackTo(P, Q, a, b, wire, left)
  PROVE  /\ Parted(Q, left)
         /\ HeldIn(Q, left) = HeldIn(P, wire) \ ((Range(b) \cup Range(P[a])) \ Range(Q[a]))
<1> USE DEF BackTo
<1> DEFINE away == (Range(b) \cup Range(P[a])) \ Range(Q[a])
<1>1. \A h \in Holders : Q[h] \in Seq(Nat) /\ Distinct(Q[h])
  BY DEF Parted
<1>2. \A h \in Holders : h # a => Range(Q[h]) = Range(P[h])
  BY Zenon
<1>3. \A h, k \in Holders : h # k => Range(Q[h]) \cap Range(Q[k]) = {}
  <2>1. \A h \in Holders : h # a => Range(Q[h]) \cap Range(Q[a]) = {}
    BY <1>2 DEF Parted
  <2>2. \A h, k \in Holders : h # k /\ h # a /\ k # a => Range(Q[h]) \cap Range(Q[k]) = {}
    BY <1>2 DEF Parted
  <2> QED BY <2>1, <2>2
<1>4. \A c \in left : c \in Seq(Nat) /\ Distinct(c)
  BY DEF Parted
<1>5. \A c \in left, h \in Holders : Range(c) \cap Range(Q[h]) = {}
  <2>1. \A c \in left : Range(c) \cap Range(Q[a]) = {}
    BY DEF Parted
  <2>2. \A c \in left, h \in Holders : h # a => Range(c) \cap Range(Q[h]) = {}
    BY <1>2 DEF Parted
  <2> QED BY <2>1, <2>2
<1>6. \A c, d \in left : c # d => Range(c) \cap Range(d) = {}
  BY DEF Parted
<1>7. Parted(Q, left)
  BY <1>1, <1>3, <1>4, <1>5, <1>6, Zenon DEF Parted
<1>8. ASSUME NEW x
      PROVE  (\E h \in Holders : x \in Range(Q[h])) \/ (\E c \in left : x \in Range(c))
             <=> /\ (\E h \in Holders : x \in Range(P[h])) \/ (\E c \in wire : x \in Range(c))
                 /\ x \notin away
  <2>1. ASSUME NEW h \in Holders, x \in Range(Q[h])
        PROVE  /\ (\E k \in Holders : x \in Range(P[k])) \/ (\E c \in wire : x \in Range(c))
               /\ x \notin away
    <3>1. CASE h = a
      BY <2>1, <3>1
    <3>2. CASE h # a
      BY <1>2, <2>1, <3>2 DEF Parted
    <3> QED BY <3>1, <3>2
  <2>2. ASSUME NEW c \in left, x \in Range(c)
        PROVE  (\E d \in wire : x \in Range(d)) /\ x \notin away
    BY <2>2 DEF Parted
  <2>3. ASSUME NEW h \in Holders, x \in Range(P[h]), x \notin away
        PROVE  \E k \in Holders : x \in Range(Q[k])
    <3>1. CASE h = a
      BY <2>3, <3>1
    <3>2. CASE h # a
      BY <1>2, <2>3, <3>2
    <3> QED BY <3>1, <3>2
  <2>4. ASSUME NEW c \in wire, x \in Range(c), x \notin away
        PROVE  (\E k \in Holders : x \in Range(Q[k])) \/ (\E d \in left : x \in Range(d))
    <3>1. CASE c = b
      BY <2>4, <3>1
    <3>2. CASE c # b
      BY <2>4, <3>2
    <3> QED BY <3>1, <3>2
  <2> HIDE DEF away
  <2> QED BY <2>1, <2>2, <2>3, <2>4, Zenon
<1>9. HeldIn(Q, left) = HeldIn(P, wire) \ away
  <2> HIDE DEF away
  <2> QED BY <1>8 DEF HeldIn
<1> QED BY <1>7, <1>9

LEMMA NewRow ==
  ASSUME NEW P, NEW wire, Parted(P, wire), NEW Q, NEW a \in Holders, NEW n \in Nat,
         n \notin HeldIn(P, wire), Q[a] = Append(P[a], n), \A h \in Holders : h # a => Q[h] = P[h]
  PROVE  Parted(Q, wire) /\ HeldIn(Q, wire) = HeldIn(P, wire) \cup {n}
<1>1. /\ \A h \in Holders : n \notin Range(P[h])
      /\ \A b \in wire : n \notin Range(b)
  BY DEF HeldIn
<1>2. P[a] \in Seq(Nat) /\ Distinct(P[a])
  BY DEF Parted
<1> DEFINE s == P[a]
           m == Len(s)
           t == Append(s, n)
<1>3. /\ m \in Nat /\ DOMAIN s = 1 .. m /\ t \in Seq(Nat) /\ DOMAIN t = 1 .. m + 1
      /\ t[m + 1] = n /\ \A i \in 1 .. m : t[i] = s[i] /\ i \in 1 .. m + 1
  BY <1>2
<1>4. \A i \in 1 .. m + 1 : i \in 1 .. m \/ i = m + 1
  BY <1>3
<1>5. n \notin Range(s) /\ Distinct(s)
  BY <1>1, <1>2
<1> HIDE DEF s, m, t
<1>6. \A i \in 1 .. m : s[i] # n
  BY <1>3, <1>5 DEF Range
<1>7. Distinct(t)
  BY <1>3, <1>4, <1>5, <1>6 DEF Distinct
<1>8. Range(t) = Range(s) \cup {n}
  <2>1. \A i \in 1 .. m + 1 : t[i] \in Range(s) \cup {n}
    BY <1>3, <1>4 DEF Range
  <2>2. Range(t) \subseteq Range(s) \cup {n}
    BY <1>3, <2>1 DEF Range
  <2>3. n \in Range(t)
    BY <1>3 DEF Range
  <2>4. Range(s) \subseteq Range(t)
    BY <1>3 DEF Range
  <2> QED BY <2>2, <2>3, <2>4
<1>9. Q[a] \in Seq(Nat) /\ Distinct(Q[a]) /\ Range(Q[a]) = Range(P[a]) \cup {n}
  BY <1>3, <1>7, <1>8 DEF s, t
<1>10. \A h \in Holders : Q[h] \in Seq(Nat) /\ Distinct(Q[h])
  BY <1>9, Zenon DEF Parted
<1>11. \A h \in Holders : h # a => Range(Q[h]) = Range(P[h])
  BY Zenon
<1>12. \A h, k \in Holders : h # k => Range(Q[h]) \cap Range(Q[k]) = {}
  <2>1. \A h \in Holders : h # a => Range(Q[h]) \cap Range(Q[a]) = {}
    BY <1>1, <1>9, <1>11 DEF Parted
  <2>2. \A h, k \in Holders : h # k /\ h # a /\ k # a => Range(Q[h]) \cap Range(Q[k]) = {}
    BY <1>11 DEF Parted
  <2> QED BY <2>1, <2>2
<1>13. \A b \in wire, h \in Holders : Range(b) \cap Range(Q[h]) = {}
  <2>1. \A b \in wire : Range(b) \cap Range(Q[a]) = {}
    BY <1>1, <1>9 DEF Parted
  <2>2. \A b \in wire, h \in Holders : h # a => Range(b) \cap Range(Q[h]) = {}
    BY <1>11 DEF Parted
  <2> QED BY <2>1, <2>2
<1>14. Parted(Q, wire)
  BY <1>10, <1>12, <1>13, Zenon DEF Parted
<1>15. ASSUME NEW x
       PROVE  (\E h \in Holders : x \in Range(Q[h])) <=> (\E h \in Holders : x \in Range(P[h])) \/ x = n
  BY <1>9, <1>11
<1>16. HeldIn(Q, wire) = HeldIn(P, wire) \cup {n}
  BY <1>15 DEF HeldIn
<1> QED BY <1>14, <1>16

-----------------------------------------------------------------------------
(* What is received twice. *)
LEMMA ReceivedMore ==
  ASSUME NEW s \in Seq(Nat), NEW x \in Seq(Nat), Distinct(x)
  PROVE  /\ s \o x \in Seq(Nat) /\ Range(s \o x) = Range(s) \cup Range(x)
         /\ \A i, j \in DOMAIN (s \o x) : (s \o x)[i] = (s \o x)[j] /\ i # j =>
              \/ (s \o x)[i] \in Range(s) \cap Range(x)
              \/ \E k, l \in DOMAIN s : s[k] = s[l] /\ k # l /\ s[k] = (s \o x)[i]
<1> DEFINE m == Len(s)
           n == Len(x)
           c == s \o x
<1>1. /\ m \in Nat /\ n \in Nat /\ DOMAIN s = 1 .. m /\ DOMAIN x = 1 .. n
      /\ c \in Seq(Nat) /\ DOMAIN c = 1 .. m + n
      /\ \A i \in 1 .. m + n : c[i] = IF i =< m THEN s[i] ELSE x[i - m]
  OBVIOUS
<1> HIDE DEF m, n, c
<1>2. \A i \in 1 .. m + n : (i \in 1 .. m /\ c[i] = s[i]) \/ (i - m \in 1 .. n /\ c[i] = x[i - m] /\ ~(i =< m))
  BY <1>1
<1>3. \A i \in 1 .. m : s[i] \in Range(s)
  BY <1>1 DEF Range
<1>4. \A i \in 1 .. n : x[i] \in Range(x)
  BY <1>1 DEF Range
<1>5. Range(c) = Range(s) \cup Range(x)
  <2>1. \A i \in 1 .. m + n : c[i] \in Range(s) \cup Range(x)
    BY <1>2, <1>3, <1>4
  <2>2. \A i \in 1 .. m : i \in 1 .. m + n /\ c[i] = s[i]
    BY <1>1
  <2>3. \A i \in 1 .. n : i + m \in 1 .. m + n /\ c[i + m] = x[i]
    BY <1>1
  <2>4. /\ Range(c) = {c[i] : i \in 1 .. m + n}
        /\ Range(s) = {s[i] : i \in 1 .. m} /\ Range(x) = {x[i] : i \in 1 .. n}
    BY <1>1 DEF Range
  <2>5. Range(s) \subseteq Range(c)
    BY <2>2, <2>4
  <2>6. Range(x) \subseteq Range(c)
    BY <2>3, <2>4
  <2>7. Range(c) \subseteq Range(s) \cup Range(x)
    BY <2>1, <2>4
  <2> QED BY <2>5, <2>6, <2>7
<1>6. ASSUME NEW i \in 1 .. m + n, NEW j \in 1 .. m + n, c[i] = c[j], i # j
      PROVE  \/ c[i] \in Range(s) \cap Range(x)
             \/ \E k, l \in DOMAIN s : s[k] = s[l] /\ k # l /\ s[k] = c[i]
  <2>1. CASE i =< m /\ j =< m
    <3>1. i \in DOMAIN s /\ j \in DOMAIN s /\ s[i] = c[i] /\ s[j] = c[i]
      BY <1>1, <1>2, <1>6, <2>1
    <3> QED BY <1>6, <3>1
  <2>2. CASE ~(i =< m) /\ ~(j =< m)
    <3>1. i - m \in DOMAIN x /\ j - m \in DOMAIN x /\ x[i - m] = x[j - m]
      BY <1>1, <1>2, <1>6, <2>2
    <3>2. i - m = j - m
      BY <3>1 DEF Distinct
    <3> QED BY <1>1, <1>6, <3>2
  <2>3. CASE i =< m /\ ~(j =< m)
    <3>1. i \in 1 .. m /\ c[i] = s[i] /\ j - m \in 1 .. n /\ c[j] = x[j - m]
      BY <1>1, <1>2, <2>3
    <3> QED BY <1>3, <1>4, <1>6, <3>1
  <2>4. CASE ~(i =< m) /\ j =< m
    <3>1. j \in 1 .. m /\ c[j] = s[j] /\ i - m \in 1 .. n /\ c[i] = x[i - m]
      BY <1>1, <1>2, <2>4
    <3> QED BY <1>3, <1>4, <1>6, <3>1
  <2> QED BY <2>1, <2>2, <2>3, <2>4
<1> QED BY <1>1, <1>5, <1>6 DEF c

(* Rows move, and some are dropped. *)
LEMMA RowsMoved ==
  ASSUME RowsKept, NEW lost, lost \subseteq Held, Held' = Held \ lost, dropped' = dropped \cup lost,
         UNCHANGED <<recorded, received, refused, unanswered>>
  PROVE  RowsKept'
<1>1. Rows' = Rows /\ Answered' = Answered
  BY DEF Rows, Answered
<1>2. Held' \cup Answered' \cup dropped' = Rows' /\ Held' \cap dropped' = {} /\ Held' \cap Answered' \subseteq unanswered'
  BY <1>1 DEF RowsKept
<1> HIDE DEF Held
<1>3. \A i, j \in DOMAIN received' : received'[i] = received'[j] /\ i # j => received'[i] \in unanswered'
  BY DEF RowsKept
<1> QED BY <1>2, <1>3 DEF RowsKept

LEMMA RowsStay ==
  ASSUME RowsKept, Held' = Held, UNCHANGED <<recorded, received, refused, dropped, unanswered>>
  PROVE  RowsKept'
BY DEF RowsKept, Rows, Answered

(* A batch is answered for. *)
LEMMA RowsAnswered ==
  ASSUME RowsKept, received \in Seq(Nat), NEW x \in Seq(Nat), Distinct(x), Range(x) \subseteq Held,
         Accepted(x) \/ Refused(x), Held' = Held \ Range(x), UNCHANGED <<recorded, dropped>>
  PROVE  RowsKept' /\ received' \in Seq(Nat)
<1>1. Rows' = Rows
  BY DEF Rows
<1>2. CASE Refused(x)
  <2>1. received' = received /\ refused' = refused \cup Range(x) /\ unanswered' = unanswered
    BY <1>2 DEF Refused
  <2>2. Answered' = Answered \cup Range(x)
    BY <2>1 DEF Answered
  <2>3. /\ Held' \cup Answered' \cup dropped' = Rows' /\ Held' \cap dropped' = {}
        /\ Held' \cap Answered' \subseteq unanswered'
    BY <1>1, <2>1, <2>2 DEF RowsKept
  <2> QED BY <2>1, <2>3 DEF RowsKept
<1>3. CASE Accepted(x)
  <2>1. received' = received \o x /\ refused' = refused /\ unanswered' = unanswered
    BY <1>3 DEF Accepted
  <2>2. /\ received' \in Seq(Nat) /\ Range(received') = Range(received) \cup Range(x)
        /\ \A i, j \in DOMAIN received' : received'[i] = received'[j] /\ i # j =>
             \/ received'[i] \in Range(received) \cap Range(x)
             \/ \E k, l \in DOMAIN received : received[k] = received[l] /\ k # l /\ received[k] = received'[i]
    <3> DEFINE c == received \o x
    <3>1. /\ c \in Seq(Nat) /\ Range(c) = Range(received) \cup Range(x)
          /\ \A i, j \in DOMAIN c : c[i] = c[j] /\ i # j =>
               \/ c[i] \in Range(received) \cap Range(x)
               \/ \E k, l \in DOMAIN received : received[k] = received[l] /\ k # l /\ received[k] = c[i]
      BY ReceivedMore
    <3>2. received' = c
      BY <2>1
    <3> HIDE DEF c
    <3> QED BY <3>1, <3>2
  <2>3. Answered' = Answered \cup Range(x)
    BY <2>1, <2>2 DEF Answered
  <2>4. /\ Held' \cup Answered' \cup dropped' = Rows' /\ Held' \cap dropped' = {}
        /\ Held' \cap Answered' \subseteq unanswered'
    BY <1>1, <2>1, <2>3 DEF RowsKept
  <2>5. Range(received) \cap Range(x) \subseteq unanswered
    BY DEF RowsKept, Answered
  <2>6. \A i, j \in DOMAIN received' : received'[i] = received'[j] /\ i # j => received'[i] \in unanswered'
    BY <2>1, <2>2, <2>5 DEF RowsKept
  <2> QED BY <2>2, <2>4, <2>6 DEF RowsKept
<1> QED BY <1>2, <1>3

(* A batch is not answered for, and goes back to where the cap is. *)
LEMMA RowsUnreached ==
  ASSUME RowsKept, received \in Seq(Nat), NEW x \in Seq(Nat), Distinct(x), Range(x) \subseteq Held,
         Unreachable(x), NEW lost, lost \subseteq Held, Held' = Held \ lost, dropped' = dropped \cup lost,
         recorded' = recorded
  PROVE  RowsKept' /\ received' \in Seq(Nat)
<1>1. CASE UNCHANGED <<refused, received, unanswered>>
  BY <1>1, RowsMoved
<1>2. CASE refused' = refused /\ received' = received \o x /\ unanswered' = unanswered \cup Range(x)
  <2>1. Rows' = Rows
    BY DEF Rows
  <2>2. /\ received' \in Seq(Nat) /\ Range(received') = Range(received) \cup Range(x)
        /\ \A i, j \in DOMAIN received' : received'[i] = received'[j] /\ i # j =>
             \/ received'[i] \in Range(received) \cap Range(x)
             \/ \E k, l \in DOMAIN received : received[k] = received[l] /\ k # l /\ received[k] = received'[i]
    <3> DEFINE c == received \o x
    <3>1. /\ c \in Seq(Nat) /\ Range(c) = Range(received) \cup Range(x)
          /\ \A i, j \in DOMAIN c : c[i] = c[j] /\ i # j =>
               \/ c[i] \in Range(received) \cap Range(x)
               \/ \E k, l \in DOMAIN received : received[k] = received[l] /\ k # l /\ received[k] = c[i]
      BY ReceivedMore
    <3>2. received' = c
      BY <1>2
    <3> HIDE DEF c
    <3> QED BY <3>1, <3>2
  <2>3. Answered' = Answered \cup Range(x)
    BY <1>2, <2>2 DEF Answered
  <2>4. /\ Held' \cup Answered' \cup dropped' = Rows' /\ Held' \cap dropped' = {}
        /\ Held' \cap Answered' \subseteq unanswered'
    BY <1>2, <2>1, <2>3 DEF RowsKept
  <2>6. \A i, j \in DOMAIN received' : received'[i] = received'[j] /\ i # j => received'[i] \in unanswered'
    BY <1>2, <2>2 DEF RowsKept
  <2> QED BY <2>2, <2>4, <2>6 DEF RowsKept
<1> QED BY <1>1, <1>2 DEF Unreachable

-----------------------------------------------------------------------------
(* A place is emptied into the queue, at either end of it. *)
LEMMA ToQueue ==
  ASSUME SinkInv, NEW a \in Holders, a # "queue", NEW q,
         q = queue \o Holding[a] \/ q = Holding[a] \o queue, SetQueue(q), posts' = posts,
         \A h \in Holders : h # a /\ h # "queue" => Holding'[h] = Holding[h], Holding'[a] = <<>>
  PROVE  /\ Parted(Holding, posts)' /\ Len(queue') =< QUEUE_CAP
         /\ \E lost \in SUBSET Held : Held' = Held \ lost /\ dropped' = dropped \cup lost
<1>1. Parted(Holding, posts) /\ Holding["queue"] = queue /\ Holding'["queue"] = queue'
  BY HoldingIs, HoldingNext DEF SinkInv
<1>2. /\ queue \in Seq(Nat) /\ Distinct(queue) /\ Holding[a] \in Seq(Nat) /\ Distinct(Holding[a])
      /\ Range(queue) \cap Range(Holding[a]) = {}
  BY <1>1 DEF Parted, Holders
<1> DEFINE s == Holding[a]
<1> HIDE DEF s
<1>3. s \in Seq(Nat) /\ Distinct(s) /\ Range(queue) \cap Range(s) = {} /\ Range(s) \cap Range(queue) = {}
  BY <1>2 DEF s
<1>4. q \in Seq(Nat) /\ Distinct(q) /\ Range(q) = Range(queue) \cup Range(s)
  <2>1. CASE q = queue \o s
    BY <1>2, <1>3, <2>1, TwoJoined
  <2>2. CASE q = s \o queue
    BY <1>2, <1>3, <2>2, TwoJoined
  <2> QED BY <2>1, <2>2 DEF s
<1>5. /\ queue' \in Seq(Nat) /\ Distinct(queue') /\ Len(queue') =< QUEUE_CAP
      /\ dropped' = dropped \cup (Range(q) \ Range(queue'))
      /\ Range(queue') \subseteq Range(q)
  BY <1>4, QueueCapped
<1> DEFINE lost == Range(q) \ Range(queue')
           Q == Holding'
<1>6. /\ "queue" \in Holders
      /\ Range(Q[a]) = {} /\ Q[a] \in Seq(Nat) /\ Distinct(Q[a])
      /\ Q["queue"] = queue' /\ Holding[a] = s
      /\ \A h \in Holders : h # a /\ h # "queue" => Q[h] = Holding[h]
  BY <1>1, EmptyRange DEF Holders, s
<1> HIDE DEF Q
<1>7. /\ Range(Q[a]) \subseteq Range(Holding[a])
      /\ Range(Q["queue"]) \subseteq Range(Holding[a]) \cup Range(Holding["queue"])
      /\ Range(Q[a]) \cap Range(Q["queue"]) = {}
      /\ Q["queue"] \in Seq(Nat) /\ Distinct(Q["queue"])
  BY <1>1, <1>4, <1>5, <1>6
<1>8. /\ Parted(Q, posts)
      /\ HeldIn(Q, posts) = HeldIn(Holding, posts)
           \ ((Range(Holding[a]) \cup Range(Holding["queue"])) \ (Range(Q[a]) \cup Range(Q["queue"])))
  <2>1. OverTo(Holding, Q, a, "queue")
    BY <1>6, <1>7 DEF OverTo
  <2> QED BY <1>1, <1>6, <2>1, MovedOver
<1>9. HeldIn(Q, posts) = HeldIn(Holding, posts) \ lost
  BY <1>1, <1>4, <1>6, <1>8
<1>10. lost \subseteq HeldIn(Holding, posts)
  <2>1. Range(q) \subseteq Nat
    BY <1>4, RangeIsNat
  <2>2. \A x \in Range(q) : x \in Range(Holding["queue"]) \/ x \in Range(Holding[a])
    BY <1>1, <1>4, <1>6
  <2> QED BY <1>6, <2>1, <2>2 DEF HeldIn
<1>11. Held = HeldIn(Holding, posts) /\ Held' = HeldIn(Q, posts)
  BY DEF Held, Q
<1>12. Parted(Holding, posts)'
  BY <1>8 DEF Q
<1> QED BY <1>5, <1>9, <1>10, <1>11, <1>12

(* What a place holds is answered for. *)
LEMMA Emptied ==
  ASSUME SinkInv, NEW a \in Holders, posts' = posts,
         \A h \in Holders : h # a => Holding'[h] = Holding[h], Holding'[a] = <<>>
  PROVE  /\ Parted(Holding, posts)' /\ Held' = Held \ Range(Holding[a])
         /\ Holding[a] \in Seq(Nat) /\ Distinct(Holding[a]) /\ Range(Holding[a]) \subseteq Held
<1> DEFINE Q == Holding'
<1>1. PICK b \in Holders : b # a
  BY DEF Holders
<1>2. /\ Parted(Holding, posts) /\ Range(Q[a]) = {} /\ Q[a] \in Seq(Nat) /\ Distinct(Q[a])
      /\ \A h \in Holders : h # a => Q[h] = Holding[h]
  BY EmptyRange DEF SinkInv
<1> HIDE DEF Q
<1>3. /\ Holding[a] \in Seq(Nat) /\ Distinct(Holding[a]) /\ Q[b] \in Seq(Nat) /\ Distinct(Q[b])
      /\ Range(Holding[a]) \cap Range(Holding[b]) = {} /\ Q[b] = Holding[b]
      /\ Range(Q[b]) = Range(Holding[b])
  BY <1>1, <1>2, Zenon DEF Parted
<1>4. /\ Parted(Q, posts)
      /\ HeldIn(Q, posts) = HeldIn(Holding, posts)
           \ ((Range(Holding[a]) \cup Range(Holding[b])) \ (Range(Q[a]) \cup Range(Q[b])))
  <2>1. OverTo(Holding, Q, a, b)
    BY <1>1, <1>2, <1>3 DEF OverTo
  <2> QED BY <1>1, <1>2, <2>1, MovedOver
<1>5. HeldIn(Q, posts) = HeldIn(Holding, posts) \ Range(Holding[a])
  BY <1>2, <1>3, <1>4
<1>6. Range(Holding[a]) \subseteq HeldIn(Holding, posts)
  BY <1>3, RangeIsNat DEF HeldIn
<1>7. Held = HeldIn(Holding, posts) /\ Held' = HeldIn(Q, posts)
  BY DEF Held, Q
<1> QED BY <1>3, <1>4, <1>5, <1>6, <1>7 DEF Q

(* A part of one place, or all of it, goes to one that was empty. *)
CutDown(P, Q, a, b, n) ==
  /\ a # b /\ P[b] = <<>> /\ n \in 0 .. Len(P[a])
  /\ \A h \in Holders : h # a /\ h # b => Q[h] = P[h]
  /\ Q[b] = SubSeq(P[a], 1, n) /\ Q[a] = SubSeq(P[a], n + 1, Len(P[a]))

LEMMA HandedOn ==
  ASSUME SinkInv, NEW a \in Holders, NEW b \in Holders, NEW n, CutDown(Holding, Holding', a, b, n), posts' = posts
  PROVE  Parted(Holding, posts)' /\ Held' = Held
<1> DEFINE Q == Holding'
           s == Holding[a]
<1>1. /\ Parted(Holding, posts) /\ s \in Seq(Nat) /\ Distinct(s) /\ Range(Holding[b]) = {}
      /\ \A h \in Holders : h # a /\ h # b => Q[h] = Holding[h]
  BY EmptyRange DEF SinkInv, Parted, CutDown
<1>2. /\ Q[b] \in Seq(Nat) /\ Distinct(Q[b]) /\ Q[a] \in Seq(Nat) /\ Distinct(Q[a])
      /\ Range(Q[b]) \cap Range(Q[a]) = {}
      /\ Range(Q[b]) \cup Range(Q[a]) = Range(s)
  <2>1. n \in 0 .. Len(s)
    BY DEF CutDown
  <2>2. Q[b] = SubSeq(s, 1, n) /\ Q[a] = SubSeq(s, n + 1, Len(s))
    BY DEF CutDown
  <2> HIDE DEF s, Q
  <2>3. /\ SubSeq(s, 1, n) \in Seq(Nat) /\ Distinct(SubSeq(s, 1, n))
        /\ SubSeq(s, n + 1, Len(s)) \in Seq(Nat) /\ Distinct(SubSeq(s, n + 1, Len(s)))
        /\ Range(SubSeq(s, 1, n)) \cap Range(SubSeq(s, n + 1, Len(s))) = {}
        /\ Range(SubSeq(s, 1, n)) \cup Range(SubSeq(s, n + 1, Len(s))) = Range(s)
    BY <1>1, <2>1, CutInTwo, Zenon
  <2> QED BY <2>2, <2>3
<1>3. s = Holding[a] /\ a # b
  BY DEF CutDown
<1> HIDE DEF Q, s
<1>4. /\ Parted(Q, posts)
      /\ HeldIn(Q, posts) = HeldIn(Holding, posts)
           \ ((Range(Holding[a]) \cup Range(Holding[b])) \ (Range(Q[a]) \cup Range(Q[b])))
  <2>1. /\ Range(Q[a]) \subseteq Range(Holding[a])
        /\ Range(Q[b]) \subseteq Range(Holding[a]) \cup Range(Holding[b])
        /\ Range(Q[a]) \cap Range(Q[b]) = {}
    BY <1>2, <1>3
  <2>2. OverTo(Holding, Q, a, b)
    BY <1>1, <1>2, <1>3, <2>1 DEF OverTo
  <2>3. Parted(Holding, posts)
    BY <1>1
  <2> QED BY <2>2, <2>3, MovedOver
<1>5. HeldIn(Q, posts) = HeldIn(Holding, posts)
  BY <1>1, <1>2, <1>3, <1>4
<1> QED BY <1>4, <1>5 DEF Held, Q

LEMMA AllOfIt ==
  ASSUME NEW s \in Seq(Nat)
  PROVE  /\ Len(s) \in 0 .. Len(s) /\ SubSeq(s, 1, Len(s)) = s
         /\ SubSeq(s, Len(s) + 1, Len(s)) = <<>>
<1>1. Len(s) \in Nat
  OBVIOUS
<1>2. SubSeq(s, 1, Len(s)) = s
  BY SubSeqFull
<1>3. SubSeq(s, Len(s) + 1, Len(s)) = <<>>
  BY <1>1, SubSeqEmpty
<1> QED BY <1>1, <1>2, <1>3

(* The steps.  What each does to the places is one of the lemmas above.    *)
LEMMA SinkStarts == SinkInit => SinkInv
<1> SUFFICES ASSUME SinkInit PROVE SinkInv
  OBVIOUS
<1>1. \A h \in Holders : Holding[h] = <<>>
  BY DEF Holding, Holders, SinkInit, Threads, Idle
<1>2. Range(<<>>) = {} /\ Distinct(<<>>) /\ <<>> \in Seq(Nat)
  BY EmptyRange
<1>3. Parted(Holding, posts)
  BY <1>1, <1>2 DEF Parted, SinkInit
<1>4. Held = {}
  BY <1>1, <1>2 DEF Held, HeldIn, SinkInit
<1>5. RowsKept
  BY <1>2, <1>4 DEF RowsKept, SinkInit, Answered, Rows
<1>6. SinkTypes
  BY FS_EmptySet, SinkNumbers DEF SinkTypes, SinkInit, Threads, Idle
<1>7. Leaving
  BY DEF Leaving, SinkInit
<1> QED BY <1>3, <1>5, <1>6, <1>7 DEF SinkInv

LEMMA RecordStep == ASSUME SinkInv, record PROVE SinkInv'
<1> DEFINE n == recorded + 1
           full == Append(buf, n)
           M == [Holding EXCEPT !["buf"] = full]
<1>1. /\ recorded \in Nat /\ n \in Nat /\ hand["call"].batch = <<>> /\ Parted(Holding, posts)
  BY DEF record, SinkInv, SinkTypes, Threads
<1>2. n \notin Held /\ n \notin Answered /\ n \notin dropped /\ Rows' = Rows \cup {n}
  BY <1>1 DEF SinkInv, RowsKept, Rows, record
<1>3. /\ M["buf"] = full /\ full = Append(Holding["buf"], n) /\ "buf" \in Holders
      /\ \A h \in Holders : h # "buf" => M[h] = Holding[h]
  BY HoldingIs DEF Holding, Holders
<1> HIDE DEF M, n
<1>4. Parted(M, posts) /\ HeldIn(M, posts) = Held \cup {n}
  BY <1>1, <1>2, <1>3, NewRow DEF Held
<1>5. Parted(Holding', posts) /\ HeldIn(Holding', posts) = HeldIn(M, posts)
  <2> DEFINE Q == Holding'
  <2>1. CASE Len(full) >= BATCH
    <3>1. buf' = <<>> /\ hand' = [hand EXCEPT !["call"] = [busy |-> TRUE, batch |-> full]]
      BY <2>1 DEF record, n
    <3>2. /\ Q["buf"] = <<>> /\ Q["call"] = full /\ M["call"] = <<>> /\ "call" \in Holders
          /\ \A h \in Holders : h # "buf" /\ h # "call" => Q[h] = M[h]
      <4>1. hand'["call"].batch = full /\ hand'["tick"].batch = hand["tick"].batch
        BY <3>1 DEF SinkInv, SinkTypes, Threads
      <4> QED BY <1>1, <1>3, <3>1, <4>1, HoldingIs DEF Holding, Holders, record
    <3> HIDE DEF Q
    <3>3. full \in Seq(Nat) /\ Distinct(full) /\ Range(<<>>) = {} /\ Distinct(<<>>) /\ <<>> \in Seq(Nat)
      BY <1>3, <1>4, EmptyRange DEF Parted
    <3>4. /\ Range(Q["buf"]) \subseteq Range(M["buf"]) /\ Range(Q["buf"]) \cap Range(Q["call"]) = {}
          /\ Range(Q["call"]) \subseteq Range(M["buf"]) \cup Range(M["call"])
          /\ Range(Q["buf"]) \cup Range(Q["call"]) = Range(M["buf"]) \cup Range(M["call"])
      BY <1>3, <3>2, <3>3
    <3>5. /\ Parted(Q, posts)
          /\ HeldIn(Q, posts) = HeldIn(M, posts)
               \ ((Range(M["buf"]) \cup Range(M["call"])) \ (Range(Q["buf"]) \cup Range(Q["call"])))
      <4>1. OverTo(M, Q, "buf", "call")
        BY <1>3, <3>2, <3>3, <3>4 DEF OverTo
      <4> QED BY <1>3, <1>4, <3>2, <4>1, MovedOver
    <3>6. HeldIn(Q, posts) = HeldIn(M, posts)
      BY <3>4, <3>5
    <3> QED BY <3>5, <3>6 DEF Q
  <2>2. CASE ~(Len(full) >= BATCH)
    <3>1. Q = M
      BY <2>2 DEF record, M, n, Holding, Holders
    <3> QED BY <1>4, <3>1
  <2> QED BY <2>1, <2>2
<1>6. Held' = Held \cup {n}
  BY <1>4, <1>5 DEF Held, record
<1>7. Parted(Holding, posts)'
  BY <1>5 DEF record
<1>8. Answered' = Answered /\ dropped' = dropped /\ unanswered' = unanswered /\ received' = received
  BY DEF Answered, record
<1>9. RowsKept'
  BY <1>2, <1>6, <1>8 DEF SinkInv, RowsKept
<1>10. SinkTypes'
  <2>1. hand' = [t \in Threads |-> hand'[t]] /\
        \A t \in Threads :
          /\ hand'[t] = [busy |-> hand'[t].busy, batch |-> hand'[t].batch]
          /\ ~hand'[t].busy => hand'[t].batch = <<>>
    <3>1. CASE hand' = hand
      BY <3>1 DEF SinkInv, SinkTypes
    <3>2. CASE hand' = [hand EXCEPT !["call"] = [busy |-> TRUE, batch |-> full]]
      BY <3>2 DEF SinkInv, SinkTypes, Threads
    <3> QED BY <3>1, <3>2 DEF record, n
  <2> QED BY <1>1, <2>1 DEF record, SinkInv, SinkTypes, n
<1>11. Leaving'
  BY DEF record, SinkInv, Leaving
<1> QED BY <1>7, <1>9, <1>10, <1>11 DEF SinkInv

LEMMA StillOpen == ASSUME Leaving, exit' = exit, exit.stage # "done" PROVE Leaving'
BY DEF Leaving

LEMMA HandTaken ==
  ASSUME SinkTypes, NEW t \in Threads, NEW x, hand' = [hand EXCEPT ![t] = x],
         x = [busy |-> x.busy, batch |-> x.batch], ~x.busy => x.batch = <<>>
  PROVE  /\ hand' = [u \in Threads |-> hand'[u]] /\ hand'[t] = x
         /\ \A u \in Threads :
              /\ hand'[u] = [busy |-> hand'[u].busy, batch |-> hand'[u].batch]
              /\ ~hand'[u].busy => hand'[u].batch = <<>>
              /\ u # t => hand'[u] = hand[u]
<1>1. hand' = [u \in Threads |-> IF u = t THEN x ELSE hand[u]]
  BY DEF SinkTypes
<1>2. \A u \in Threads : hand'[u] = IF u = t THEN x ELSE hand[u]
  BY <1>1
<1>3. hand' = [u \in Threads |-> hand'[u]]
  BY <1>1, <1>2
<1> QED BY <1>2, <1>3 DEF SinkTypes

LEMMA FlushStep == ASSUME SinkInv, flush PROVE SinkInv'
<1>1. Holding["tick"] = <<>> /\ Holding["buf"] = buf /\ Holding["buf"] \in Seq(Nat)
  BY HoldingIs DEF flush, SinkInv, SinkTypes, Threads, Parted, Holders
<1> DEFINE taken == [busy |-> TRUE, batch |-> buf]
           n == Len(Holding["buf"])
<1>2. /\ n \in 0 .. Len(Holding["buf"]) /\ SubSeq(Holding["buf"], 1, n) = Holding["buf"]
      /\ SubSeq(Holding["buf"], n + 1, Len(Holding["buf"])) = <<>>
  BY <1>1, AllOfIt
<1> HIDE DEF n
<1>3. /\ hand' = [u \in Threads |-> hand'[u]] /\ hand'["tick"] = taken
      /\ \A u \in Threads :
           /\ hand'[u] = [busy |-> hand'[u].busy, batch |-> hand'[u].batch]
           /\ ~hand'[u].busy => hand'[u].batch = <<>>
           /\ u # "tick" => hand'[u] = hand[u]
  BY HandTaken DEF flush, SinkInv, Threads
<1>4. Holding'["tick"] = Holding["buf"] /\ Holding'["buf"] = <<>>
  BY <1>1, <1>3, HoldingNext DEF flush
<1>5. \A h \in Holders : h # "buf" /\ h # "tick" => Holding'[h] = Holding[h]
  <2>1. hand'["call"] = hand["call"]
    BY <1>3 DEF Threads
  <2> QED BY <2>1, HoldingIs, HoldingNext DEF flush, Holders
<1>6. posts' = posts /\ "buf" \in Holders /\ "tick" \in Holders
  BY DEF flush, Holders
<1>7. Parted(Holding, posts)' /\ Held' = Held
  <2>1. CutDown(Holding, Holding', "buf", "tick", n)
    BY <1>2, <1>4, <1>5, <1>1 DEF CutDown
  <2> QED BY <1>6, <2>1, HandedOn
<1>8. RowsKept'
  BY <1>7, RowsStay DEF flush, SinkInv
<1>9. SinkTypes'
  BY <1>3 DEF SinkInv, SinkTypes, flush
<1>10. Leaving'
  BY StillOpen DEF SinkInv, flush
<1> QED BY <1>7, <1>8, <1>9, <1>10 DEF SinkInv

LEMMA ShipStep == ASSUME SinkInv, NEW t \in Threads, ship(t) PROVE SinkInv'
<1> DEFINE batch == hand[t].batch
<1>1. /\ Holding[t] = batch /\ t \in Holders /\ t # "queue" /\ "queue" \in Holders
      /\ Holding["queue"] = queue /\ Holding'["queue"] = queue'
  BY HoldingIs, HoldingNext DEF Threads, Holders
<1>2. /\ hand' = [u \in Threads |-> hand'[u]] /\ hand'[t] = Idle
      /\ \A u \in Threads :
           /\ hand'[u] = [busy |-> hand'[u].busy, batch |-> hand'[u].batch]
           /\ ~hand'[u].busy => hand'[u].batch = <<>>
           /\ u # t => hand'[u] = hand[u]
  <2>1. hand' = [hand EXCEPT ![t] = Idle] /\ SinkTypes
    BY DEF ship, SinkInv
  <2>2. Idle = [busy |-> Idle.busy, batch |-> Idle.batch] /\ (~Idle.busy => Idle.batch = <<>>)
    BY DEF Idle
  <2> QED BY <2>1, <2>2, HandTaken
<1>3. drainer' = [draining |-> drainer'.draining, chunk |-> drainer'.chunk] /\ drainer'.chunk = drainer.chunk
  BY DEF ship, drain, SinkInv, SinkTypes
<1>4. Holding'[t] = <<>> /\ \A h \in Holders : h # t /\ h # "queue" => Holding'[h] = Holding[h]
  <2>1. /\ buf' = buf /\ exit' = exit /\ hand'[t].batch = <<>>
        /\ \A u \in Threads : u # t => hand'[u] = hand[u]
    BY <1>2 DEF ship, Idle
  <2>2. CASE t = "call"
    BY <1>3, <2>1, <2>2, HoldingIs, HoldingNext DEF Threads, Holders
  <2>3. CASE t = "tick"
    BY <1>3, <2>1, <2>3, HoldingIs, HoldingNext DEF Threads, Holders
  <2> QED BY <2>2, <2>3 DEF Threads
<1>5. /\ exit' = exit /\ exit.stage # "done" /\ recorded' = recorded
      /\ UNCHANGED <<recorded, received, refused, unanswered>>
  BY DEF ship
<1>6. Leaving'
  BY <1>5, StillOpen DEF SinkInv
<1>7. ASSUME IsFiniteSet(posts'), Len(queue') =< QUEUE_CAP PROVE SinkTypes'
  BY <1>2, <1>3, <1>5, <1>7 DEF SinkInv, SinkTypes
<1>8. CASE batch # <<>> /\ (closing \/ is_holding \/ drainer.draining)
  <2>1. SetQueue(queue \o batch) /\ posts' = posts
    BY <1>8 DEF ship, push_back_capped
  <2> DEFINE q == queue \o batch
  <2>2. q = queue \o Holding[t]
    BY <1>1
  <2>3. SetQueue(q) /\ posts' = posts
    BY <2>1
  <2> HIDE DEF q, batch
  <2>4. /\ Parted(Holding, posts)' /\ Len(queue') =< QUEUE_CAP
        /\ \E lost \in SUBSET Held : Held' = Held \ lost /\ dropped' = dropped \cup lost
    BY <1>1, <1>4, <2>2, <2>3, ToQueue
  <2>5. RowsKept'
    BY <1>5, <2>4, RowsMoved DEF SinkInv
  <2>6. SinkTypes'
    BY <1>7, <2>3, <2>4 DEF SinkInv, SinkTypes
  <2> QED BY <1>6, <2>4, <2>5, <2>6 DEF SinkInv
<1>9. CASE ~(batch # <<>> /\ (closing \/ is_holding \/ drainer.draining))
  <2>1. queue' = queue /\ dropped' = dropped /\ posts' = IF batch = <<>> THEN posts ELSE posts \cup {batch}
    BY <1>9 DEF ship
  <2>2. \A h \in Holders : h # t => Holding'[h] = Holding[h]
    BY <1>1, <1>4, <2>1
  <2>3. Parted(Holding, posts)' /\ Held' = Held
    <3>1. CASE batch = <<>>
      <4>1. /\ Parted(Holding, posts)' /\ Held' = Held \ Range(Holding[t])
        BY <1>1, <1>4, <2>1, <2>2, <3>1, Emptied
      <4>2. Range(Holding[t]) = {}
        BY <1>1, <3>1, EmptyRange
      <4> QED BY <4>1, <4>2
    <3>2. CASE batch # <<>>
      <4> DEFINE Q == Holding'
      <4>1. posts' = posts \cup {Holding[t]} /\ Parted(Holding, posts)
        BY <1>1, <2>1, <3>2 DEF SinkInv
      <4>2. Q[t] = <<>> /\ \A h \in Holders : h # t => Q[h] = Holding[h]
        BY <1>4, <2>2
      <4> HIDE DEF Q
      <4>3. OutTo(Holding, Q, t, posts, posts')
        BY <4>1, <4>2 DEF OutTo
      <4>4. Parted(Q, posts') /\ HeldIn(Q, posts') = HeldIn(Holding, posts)
        BY <1>1, <4>1, <4>3, SentOut
      <4> QED BY <4>4 DEF Q, Held
    <3> QED BY <3>1, <3>2
  <2>4. RowsKept'
    BY <1>5, <2>1, <2>3, RowsStay DEF SinkInv
  <2>5. IsFiniteSet(posts') /\ Len(queue') =< QUEUE_CAP
    BY <2>1, FS_AddElement DEF SinkInv, SinkTypes
  <2> QED BY <1>6, <1>7, <2>3, <2>4, <2>5 DEF SinkInv
<1> QED BY <1>8, <1>9

LEMMA PlaceIs ==
  ASSUME SinkInv, NEW a \in Holders
  PROVE  Holding[a] \in Seq(Nat) /\ Distinct(Holding[a]) /\ Range(Holding[a]) \subseteq Held
<1>1. Holding[a] \in Seq(Nat) /\ Distinct(Holding[a])
  BY DEF SinkInv, Parted
<1>2. Range(Holding[a]) \subseteq Nat
  BY <1>1, RangeIsNat
<1> QED BY <1>1, <1>2 DEF Held, HeldIn

LEMMA BatchIs ==
  ASSUME SinkInv, NEW b \in posts
  PROVE  b \in Seq(Nat) /\ Distinct(b) /\ Range(b) \subseteq Held /\ Range(b) \cap Range(queue) = {}
<1>1. b \in Seq(Nat) /\ Distinct(b)
  BY DEF SinkInv, Parted
<1>2. Range(b) \subseteq Nat
  BY <1>1, RangeIsNat
<1>3. Range(b) \cap Range(Holding["queue"]) = {}
  BY DEF SinkInv, Parted, Holders
<1> QED BY <1>1, <1>2, <1>3, HoldingIs DEF Held, HeldIn

LEMMA PostStep == ASSUME SinkInv, NEW batch \in posts, post(batch) PROVE SinkInv'
<1> DEFINE Q == Holding'
<1>1. /\ Parted(Holding, posts) /\ Holding["queue"] = queue /\ Q["queue"] = queue' /\ "queue" \in Holders
      /\ \A h \in Holders : h # "queue" => Q[h] = Holding[h]
      /\ posts' = posts \ {batch} /\ UNCHANGED <<recorded, buf, hand, drainer, exit, plane>>
      /\ exit.stage # "done" /\ RowsKept /\ SinkTypes /\ Leaving
  BY HoldingIs, HoldingNext DEF SinkInv, Holders, post
<1>2. /\ batch \in Seq(Nat) /\ Distinct(batch) /\ Range(batch) \subseteq Held
      /\ Range(batch) \cap Range(queue) = {}
  BY BatchIs
<1>3. queue \in Seq(Nat) /\ Distinct(queue)
  BY <1>1 DEF Parted
<1> HIDE DEF Q
<1>4. ASSUME queue' \in Seq(Nat), Distinct(queue'), Range(queue') \subseteq Range(batch) \cup Range(queue)
      PROVE  /\ Parted(Holding, posts)'
             /\ Held' = Held \ ((Range(batch) \cup Range(queue)) \ Range(queue'))
  <2>1. BackTo(Holding, Q, "queue", batch, posts, posts')
    BY <1>1, <1>4 DEF BackTo
  <2>2. Parted(Holding, posts)
    BY <1>1
  <2>3. "queue" \in Holders
    BY <1>1
  <2>4. /\ Parted(Q, posts')
        /\ HeldIn(Q, posts') = HeldIn(Holding, posts)
             \ ((Range(batch) \cup Range(Holding["queue"])) \ Range(Q["queue"]))
    BY <2>1, <2>2, <2>3, CameBack
  <2> QED BY <1>1, <2>4 DEF Q, Held
<1>5. CASE (Accepted(batch) \/ Refused(batch)) /\ UNCHANGED <<queue, dropped>>
  <2>1. Parted(Holding, posts)' /\ Held' = Held \ Range(batch)
    BY <1>2, <1>3, <1>4, <1>5
  <2>2. RowsKept' /\ received' \in Seq(Nat)
    BY <1>1, <1>2, <1>5, <2>1, RowsAnswered DEF SinkTypes
  <2>3. SinkTypes'
    BY <1>1, <1>5, <2>2, FS_RemoveElement DEF SinkTypes
  <2>4. Leaving'
    BY <1>1, StillOpen
  <2> QED BY <2>1, <2>2, <2>3, <2>4 DEF SinkInv
<1>6. CASE Unreachable(batch) /\ push_front_capped(batch)
  <2> DEFINE q == batch \o queue
  <2>1. SetQueue(q)
    BY <1>6 DEF push_front_capped
  <2>2. q \in Seq(Nat) /\ Distinct(q) /\ Range(q) = Range(batch) \cup Range(queue)
    BY <1>2, <1>3, TwoJoined
  <2> HIDE DEF q
  <2>3. /\ queue' \in Seq(Nat) /\ Distinct(queue') /\ Len(queue') =< QUEUE_CAP
        /\ dropped' = dropped \cup (Range(q) \ Range(queue'))
        /\ Range(queue') \subseteq Range(q)
    BY <2>1, <2>2, QueueCapped
  <2> DEFINE lost == (Range(batch) \cup Range(queue)) \ Range(queue')
  <2>4. Parted(Holding, posts)' /\ Held' = Held \ lost /\ dropped' = dropped \cup lost
    BY <1>4, <2>2, <2>3
  <2>5. lost \subseteq Held
    <3>1. Range(queue) \subseteq Held
      BY <1>1, PlaceIs
    <3> QED BY <1>2, <3>1
  <2> HIDE DEF lost
  <2>6. RowsKept' /\ received' \in Seq(Nat)
    BY <1>1, <1>2, <1>6, <2>4, <2>5, RowsUnreached DEF SinkTypes
  <2>7. SinkTypes'
    BY <1>1, <2>3, <2>6, FS_RemoveElement DEF SinkTypes
  <2>8. Leaving'
    BY <1>1, StillOpen
  <2> QED BY <2>4, <2>6, <2>7, <2>8 DEF SinkInv
<1> QED BY <1>5, <1>6 DEF post

(* A chunk off the front of the queue. *)
LEMMA ChunkTaken ==
  ASSUME SinkInv, NEW n, n = IF Len(queue) < BATCH THEN Len(queue) ELSE BATCH,
         queue' = SubSeq(queue, n + 1, Len(queue))
  PROVE  n \in 0 .. Len(Holding["queue"]) /\ Len(queue') =< QUEUE_CAP
<1>1. queue \in Seq(Nat) /\ Distinct(queue) /\ Holding["queue"] = queue /\ Len(queue) =< QUEUE_CAP
  BY HoldingIs DEF SinkInv, Parted, Holders, SinkTypes
<1>2. n \in 0 .. Len(queue)
  BY <1>1, SinkNumbers
<1> DEFINE was == Len(queue)
           is == Len(queue')
<1>3. is = was - n /\ was \in Nat /\ n \in 0 .. was /\ was =< QUEUE_CAP
  BY <1>1, <1>2, CutInTwo
<1>4. is =< QUEUE_CAP
  <2> HIDE DEF was, is
  <2> QED BY <1>3, SinkNumbers
<1> QED BY <1>1, <1>2, <1>4

LEMMA PopStep == ASSUME SinkInv, pop_front_chunk PROVE SinkInv'
<1> DEFINE n == IF Len(queue) < BATCH THEN Len(queue) ELSE BATCH
<1>1. /\ drainer.chunk = <<>> /\ exit.stage # "done" /\ SinkTypes /\ Leaving /\ RowsKept
      /\ UNCHANGED <<recorded, buf, hand, posts, exit, plane, received, refused, dropped, unanswered>>
  BY DEF SinkInv, pop_front_chunk
<1>2. Leaving'
  BY <1>1, StillOpen
<1>3. drainer' = [draining |-> drainer'.draining, chunk |-> drainer'.chunk]
  BY <1>1 DEF pop_front_chunk, SinkTypes
<1>4. CASE n = 0
  <2>1. drainer'.chunk = drainer.chunk /\ queue' = queue
    BY <1>1, <1>4 DEF pop_front_chunk, SinkTypes
  <2>2. Holding' = Holding
    BY <1>1, <2>1 DEF Holding
  <2>3. Parted(Holding, posts)' /\ Held' = Held
    BY <1>1, <2>2 DEF SinkInv, Held
  <2>4. RowsKept'
    BY <1>1, <2>3, RowsStay
  <2>5. SinkTypes'
    BY <1>1, <1>3, <2>1 DEF SinkTypes
  <2> QED BY <1>2, <2>3, <2>4, <2>5 DEF SinkInv
<1>5. CASE n # 0
  <2>1. drainer'.chunk = SubSeq(queue, 1, n) /\ queue' = SubSeq(queue, n + 1, Len(queue))
    BY <1>1, <1>5 DEF pop_front_chunk, SinkTypes
  <2>2. n \in 0 .. Len(Holding["queue"]) /\ Len(queue') =< QUEUE_CAP
    BY <2>1, ChunkTaken
  <2> HIDE DEF n
  <2>3. CutDown(Holding, Holding', "queue", "chunk", n)
    <3>1. /\ Holding'["queue"] = SubSeq(queue, n + 1, Len(queue)) /\ Holding'["chunk"] = SubSeq(queue, 1, n)
          /\ Holding["queue"] = queue /\ Holding["chunk"] = <<>>
      BY <1>1, <2>1, HoldingIs, HoldingNext
    <3>2. \A h \in Holders : h # "queue" /\ h # "chunk" => Holding'[h] = Holding[h]
      BY <1>1, HoldingIs, HoldingNext DEF Holders
    <3> QED BY <2>2, <3>1, <3>2 DEF CutDown
  <2>4. Parted(Holding, posts)' /\ Held' = Held
    BY <1>1, <2>3, HandedOn DEF Holders
  <2>5. RowsKept'
    BY <1>1, <2>4, RowsStay
  <2>6. SinkTypes'
    BY <1>1, <1>3, <2>2 DEF SinkTypes
  <2> QED BY <1>2, <2>4, <2>5, <2>6 DEF SinkInv
<1> QED BY <1>4, <1>5

LEMMA DrainPostStep == ASSUME SinkInv, drain_post PROVE SinkInv'
<1>1. /\ exit.stage # "done" /\ SinkTypes /\ Leaving /\ RowsKept
      /\ UNCHANGED <<recorded, buf, hand, posts, exit, plane>>
      /\ drainer'.chunk = <<>> /\ drainer' = [draining |-> drainer'.draining, chunk |-> drainer'.chunk]
  BY DEF SinkInv, drain_post
<1>2. Leaving'
  BY <1>1, StillOpen
<1> DEFINE x == drainer.chunk
<1>3. /\ Holding["chunk"] = x /\ Holding'["chunk"] = <<>> /\ "chunk" \in Holders /\ "chunk" # "queue"
      /\ Holding["queue"] = queue /\ Holding'["queue"] = queue'
      /\ \A h \in Holders : h # "chunk" /\ h # "queue" => Holding'[h] = Holding[h]
  BY <1>1, HoldingIs, HoldingNext DEF Holders
<1>4. x \in Seq(Nat) /\ Distinct(x) /\ Range(x) \subseteq Held
  BY <1>3, PlaceIs
<1>5. CASE (Accepted(x) \/ Refused(x)) /\ UNCHANGED <<queue, dropped>>
  <2>1. \A h \in Holders : h # "chunk" => Holding'[h] = Holding[h]
    BY <1>3, <1>5
  <2>2. Parted(Holding, posts)' /\ Held' = Held \ Range(x)
    BY <1>1, <1>3, <2>1, Emptied
  <2>3. RowsKept' /\ received' \in Seq(Nat)
    BY <1>1, <1>4, <1>5, <2>2, RowsAnswered DEF SinkTypes
  <2>4. SinkTypes'
    BY <1>1, <1>5, <2>3 DEF SinkTypes
  <2> QED BY <1>2, <2>2, <2>3, <2>4 DEF SinkInv
<1>6. CASE Unreachable(x) /\ push_front_capped(x)
  <2> DEFINE q == x \o queue
  <2>1. SetQueue(q) /\ q = Holding["chunk"] \o queue
    BY <1>3, <1>6 DEF push_front_capped
  <2> HIDE DEF q
  <2>2. /\ Parted(Holding, posts)' /\ Len(queue') =< QUEUE_CAP
        /\ \E lost \in SUBSET Held : Held' = Held \ lost /\ dropped' = dropped \cup lost
    BY <1>1, <1>3, <2>1, ToQueue
  <2>3. RowsKept' /\ received' \in Seq(Nat)
    <3> HIDE DEF x
    <3> QED BY <1>1, <1>4, <1>6, <2>2, RowsUnreached DEF SinkTypes
  <2>4. SinkTypes'
    BY <1>1, <2>2, <2>3 DEF SinkTypes
  <2> QED BY <1>2, <2>2, <2>3, <2>4 DEF SinkInv
<1> QED BY <1>5, <1>6 DEF drain_post

LEMMA ExitClosesStep == ASSUME SinkInv, ExitCloses PROVE SinkInv'
<1>1. /\ exit.stage = "open" /\ SinkTypes /\ Leaving /\ RowsKept /\ Parted(Holding, posts)
      /\ UNCHANGED <<recorded, hand, posts, queue, drainer, plane, received, refused, dropped, unanswered>>
  BY DEF SinkInv, ExitCloses
<1>2. /\ exit' = [stage |-> "waiting", buffered |-> buf, chunk |-> exit.chunk, unsent |-> exit.unsent]
      /\ exit.chunk = <<>> /\ exit.buffered = <<>>
  BY <1>1 DEF ExitCloses, SinkTypes, Leaving
<1> DEFINE n == Len(Holding["buf"])
<1>3. Holding["buf"] \in Seq(Nat) /\ Holding["buf"] = buf
  BY <1>1, HoldingIs DEF Parted, Holders
<1>4. /\ n \in 0 .. Len(Holding["buf"]) /\ SubSeq(Holding["buf"], 1, n) = Holding["buf"]
      /\ SubSeq(Holding["buf"], n + 1, Len(Holding["buf"])) = <<>>
  BY <1>3, AllOfIt
<1> HIDE DEF n
<1>5. CutDown(Holding, Holding', "buf", "buffered", n)
  <2>1. /\ Holding'["buf"] = <<>> /\ Holding'["buffered"] = Holding["buf"] /\ Holding["buffered"] = <<>>
    BY <1>2, HoldingIs, HoldingNext DEF ExitCloses
  <2>2. \A h \in Holders : h # "buf" /\ h # "buffered" => Holding'[h] = Holding[h]
    BY <1>1, <1>2, HoldingIs, HoldingNext DEF Holders
  <2> QED BY <1>4, <2>1, <2>2 DEF CutDown
<1>6. Parted(Holding, posts)' /\ Held' = Held
  BY <1>1, <1>5, HandedOn DEF Holders
<1>7. RowsKept'
  BY <1>1, <1>6, RowsStay
<1>8. SinkTypes'
  BY <1>1, <1>2 DEF SinkTypes
<1>9. Leaving'
  BY <1>2 DEF Leaving
<1> QED BY <1>6, <1>7, <1>8, <1>9 DEF SinkInv

LEMMA ExitWaitedStep == ASSUME SinkInv, NEW deadline, ExitWaited(deadline) PROVE SinkInv'
<1>1. /\ exit.stage = "waiting" /\ SinkTypes /\ Leaving /\ RowsKept
      /\ UNCHANGED <<recorded, buf, hand, posts, drainer, plane, received, refused, unanswered>>
  BY DEF SinkInv, ExitWaited
<1>2. /\ exit' = [stage |-> "sending", buffered |-> <<>>, chunk |-> exit.chunk, unsent |-> exit.unsent]
      /\ exit.chunk = <<>>
  BY <1>1 DEF ExitWaited, SinkTypes, Leaving
<1> DEFINE q == queue \o exit.buffered
<1>3. SetQueue(q) /\ q = queue \o Holding["buffered"]
  BY HoldingIs DEF ExitWaited, push_back_capped
<1> HIDE DEF q
<1>4. /\ Holding'["buffered"] = <<>> /\ "buffered" \in Holders /\ "buffered" # "queue"
      /\ \A h \in Holders : h # "buffered" /\ h # "queue" => Holding'[h] = Holding[h]
  BY <1>1, <1>2, HoldingIs, HoldingNext DEF Holders
<1>5. /\ Parted(Holding, posts)' /\ Len(queue') =< QUEUE_CAP
      /\ \E lost \in SUBSET Held : Held' = Held \ lost /\ dropped' = dropped \cup lost
  BY <1>1, <1>3, <1>4, ToQueue
<1>6. RowsKept'
  BY <1>1, <1>5, RowsMoved
<1>7. SinkTypes'
  BY <1>1, <1>2, <1>5 DEF SinkTypes
<1>8. Leaving'
  BY <1>2 DEF Leaving
<1> QED BY <1>5, <1>6, <1>7, <1>8 DEF SinkInv

LEMMA ExitPopsStep == ASSUME SinkInv, ExitPops PROVE SinkInv'
<1> DEFINE n == IF Len(queue) < BATCH THEN Len(queue) ELSE BATCH
<1>1. /\ exit.stage = "sending" /\ exit.chunk = <<>> /\ SinkTypes /\ Leaving /\ RowsKept
      /\ UNCHANGED <<recorded, buf, hand, posts, drainer, plane, received, refused, dropped, unanswered>>
      /\ queue' = SubSeq(queue, n + 1, Len(queue))
  BY DEF SinkInv, ExitPops
<1>2. exit' = [stage |-> "sending", buffered |-> exit.buffered, chunk |-> SubSeq(queue, 1, n), unsent |-> exit.unsent]
  BY <1>1 DEF ExitPops, SinkTypes
<1>3. n \in 0 .. Len(Holding["queue"]) /\ Len(queue') =< QUEUE_CAP
  BY <1>1, ChunkTaken
<1> HIDE DEF n
<1>4. CutDown(Holding, Holding', "queue", "leaving", n)
  <2>1. /\ Holding'["queue"] = SubSeq(queue, n + 1, Len(queue)) /\ Holding'["leaving"] = SubSeq(queue, 1, n)
        /\ Holding["queue"] = queue /\ Holding["leaving"] = <<>>
    BY <1>1, <1>2, HoldingIs, HoldingNext
  <2>2. \A h \in Holders : h # "queue" /\ h # "leaving" => Holding'[h] = Holding[h]
    BY <1>1, <1>2, HoldingIs, HoldingNext DEF Holders
  <2> QED BY <1>3, <2>1, <2>2 DEF CutDown
<1>5. Parted(Holding, posts)' /\ Held' = Held
  BY <1>1, <1>4, HandedOn DEF Holders
<1>6. RowsKept'
  BY <1>1, <1>5, RowsStay
<1>7. SinkTypes'
  BY <1>1, <1>2, <1>3 DEF SinkTypes
<1>8. Leaving'
  BY <1>1, <1>2 DEF Leaving
<1> QED BY <1>5, <1>6, <1>7, <1>8 DEF SinkInv

LEMMA ExitPostsStep == ASSUME SinkInv, ExitPosts PROVE SinkInv'
<1> DEFINE x == exit.chunk
<1>1. /\ exit.stage = "sending" /\ SinkTypes /\ Leaving /\ RowsKept
      /\ UNCHANGED <<recorded, buf, hand, posts, drainer, plane>>
  BY DEF SinkInv, ExitPosts
<1>2. /\ exit' = [stage |-> exit'.stage, buffered |-> exit.buffered, chunk |-> <<>>, unsent |-> exit.unsent]
      /\ exit'.stage \in {"sending", "counting"} /\ exit.buffered = <<>>
  BY <1>1 DEF ExitPosts, SinkTypes, Leaving
<1>3. /\ Holding["leaving"] = x /\ Holding'["leaving"] = <<>> /\ "leaving" \in Holders /\ "leaving" # "queue"
      /\ Holding["queue"] = queue /\ Holding'["queue"] = queue'
      /\ \A h \in Holders : h # "leaving" /\ h # "queue" => Holding'[h] = Holding[h]
  BY <1>1, <1>2, HoldingIs, HoldingNext DEF Holders
<1>4. x \in Seq(Nat) /\ Distinct(x) /\ Range(x) \subseteq Held
  BY <1>3, PlaceIs
<1>5. Leaving'
  BY <1>2 DEF Leaving
<1>6. CASE (Accepted(x) \/ Refused(x)) /\ UNCHANGED <<queue, dropped>>
  <2>1. \A h \in Holders : h # "leaving" => Holding'[h] = Holding[h]
    BY <1>3, <1>6
  <2>2. Parted(Holding, posts)' /\ Held' = Held \ Range(x)
    BY <1>1, <1>3, <2>1, Emptied
  <2>3. RowsKept' /\ received' \in Seq(Nat)
    BY <1>1, <1>4, <1>6, <2>2, RowsAnswered DEF SinkTypes
  <2>4. SinkTypes'
    BY <1>1, <1>2, <1>6, <2>3 DEF SinkTypes
  <2> QED BY <1>5, <2>2, <2>3, <2>4 DEF SinkInv
<1>7. CASE Unreachable(x) /\ push_front_capped(x)
  <2> DEFINE q == x \o queue
  <2>1. SetQueue(q) /\ q = Holding["leaving"] \o queue
    BY <1>3, <1>7 DEF push_front_capped
  <2> HIDE DEF q
  <2>2. /\ Parted(Holding, posts)' /\ Len(queue') =< QUEUE_CAP
        /\ \E lost \in SUBSET Held : Held' = Held \ lost /\ dropped' = dropped \cup lost
    BY <1>1, <1>3, <2>1, ToQueue
  <2>3. RowsKept' /\ received' \in Seq(Nat)
    <3> HIDE DEF x
    <3> QED BY <1>1, <1>4, <1>7, <2>2, RowsUnreached DEF SinkTypes
  <2>4. SinkTypes'
    BY <1>1, <1>2, <2>2, <2>3 DEF SinkTypes
  <2> QED BY <1>5, <2>2, <2>3, <2>4 DEF SinkInv
<1> QED BY <1>6, <1>7 DEF ExitPosts

LEMMA ExitCountsStep == ASSUME SinkInv, ExitCounts PROVE SinkInv'
<1>1. /\ exit.stage \in {"sending", "counting"} /\ exit.chunk = <<>> /\ SinkTypes /\ Leaving /\ RowsKept
      /\ Parted(Holding, posts)
      /\ UNCHANGED <<recorded, buf, hand, posts, queue, drainer, plane, received, refused, dropped, unanswered>>
  BY DEF SinkInv, ExitCounts
<1> DEFINE left == Len(queue) + Len(drainer.chunk) + Cardinality(UNION {Range(b) : b \in posts})
<1>2. left' = left
  BY <1>1
<1>3. exit' = [exit EXCEPT !.stage = "done", !.unsent = left]
  BY DEF ExitCounts
<1> HIDE DEF left
<1>4. exit' = [stage |-> "done", buffered |-> exit.buffered, chunk |-> exit.chunk, unsent |-> left]
  BY <1>1, <1>3 DEF SinkTypes
<1>5. exit.buffered = <<>>
  BY <1>1 DEF Leaving
<1>6. Holding' = Holding
  BY <1>1, <1>4 DEF Holding
<1>7. Parted(Holding, posts)' /\ Held' = Held
  BY <1>1, <1>6 DEF Held
<1>8. RowsKept'
  BY <1>1, <1>7, RowsStay
<1>9. SinkTypes'
  BY <1>1, <1>4 DEF SinkTypes
<1>10. Leaving'
  <2>1. exit'.stage = "done" /\ exit'.buffered = <<>> /\ exit'.chunk = <<>> /\ exit'.unsent = left'
    BY <1>1, <1>2, <1>4, <1>5
  <2> QED BY <2>1 DEF Leaving, left
<1> QED BY <1>7, <1>8, <1>9, <1>10 DEF SinkInv

LEMMA SinkStays ==
  ASSUME SinkInv, UNCHANGED <<recorded, buf, hand, posts, queue, drainer, exit, received, refused, dropped, unanswered>>
  PROVE  SinkInv'
<1>1. Holding' = Holding
  BY DEF Holding
<1>2. Parted(Holding, posts)' /\ Held' = Held
  BY <1>1 DEF Held, SinkInv
<1>3. RowsKept'
  BY <1>2, RowsStay DEF SinkInv
<1>4. SinkTypes'
  BY DEF SinkTypes, SinkInv
<1>5. Leaving'
  BY DEF Leaving, SinkInv
<1> QED BY <1>2, <1>3, <1>4, <1>5 DEF SinkInv

LEMMA SinkSteps == SinkInv /\ [SinkNext]_sinkvars => SinkInv'
<1> SUFFICES ASSUME SinkInv, [SinkNext]_sinkvars PROVE SinkInv'
  OBVIOUS
<1>1. CASE record
  BY <1>1, RecordStep
<1>2. CASE flush
  BY <1>2, FlushStep
<1>3. ASSUME NEW t \in Threads, ship(t) PROVE SinkInv'
  BY <1>3, ShipStep
<1>4. ASSUME NEW batch \in posts, post(batch) PROVE SinkInv'
  BY <1>4, PostStep
<1>5. CASE pop_front_chunk
  BY <1>5, PopStep
<1>6. CASE drain_post
  BY <1>6, DrainPostStep
<1>7. CASE ExitCloses
  BY <1>7, ExitClosesStep
<1>8. CASE ExitPops
  BY <1>8, ExitPopsStep
<1>9. CASE ExitPosts
  BY <1>9, ExitPostsStep
<1>10. CASE ExitCounts
  BY <1>10, ExitCountsStep
<1>11. ASSUME NEW deadline \in BOOLEAN, ExitWaited(deadline) PROVE SinkInv'
  BY <1>11, ExitWaitedStep
<1>12. CASE PlaneFails \/ PlaneReturns
  BY <1>12, SinkStays DEF PlaneFails, PlaneReturns
<1>13. CASE UNCHANGED sinkvars
  BY <1>13, SinkStays DEF sinkvars
<1> QED BY <1>1, <1>2, <1>3, <1>4, <1>5, <1>6, <1>7, <1>8, <1>9, <1>10, <1>11, <1>12, <1>13 DEF SinkNext

-----------------------------------------------------------------------------
(* What the invariant gives. *)
LEMMA PlacesAre ==
  ASSUME SinkInv, NEW r \in Nat PROVE r \in Held <=> \E p \in Places : r \in p
<1>1. r \in Held <=> (\E h \in Holders : r \in Range(Holding[h])) \/ (\E b \in posts : r \in Range(b))
  BY DEF Held, HeldIn
<1>2. (\E h \in Holders : r \in Range(Holding[h])) <=>
        \/ r \in Range(buf) \/ r \in Range(hand["call"].batch) \/ r \in Range(hand["tick"].batch)
        \/ r \in Range(queue) \/ r \in Range(drainer.chunk) \/ r \in Range(exit.buffered)
        \/ r \in Range(exit.chunk)
  BY HoldingIs DEF Holders
<1> QED BY <1>1, <1>2 DEF Places

LEMMA RangeAtMostLen ==
  ASSUME NEW s \in Seq(Nat) PROVE IsFiniteSet(Range(s)) /\ Cardinality(Range(s)) =< Len(s)
<1>1. Len(s) \in Nat /\ s \in [1 .. Len(s) -> Range(s)] /\ Range(s) = {s[i] : i \in 1 .. Len(s)}
  BY DEF Range
<1>2. s \in Surjection(1 .. Len(s), Range(s))
  BY <1>1 DEF Surjection
<1>3. IsFiniteSet(1 .. Len(s)) /\ Cardinality(1 .. Len(s)) = Len(s)
  <2> DEFINE m == Len(s)
  <2>1. m \in Nat /\ m \in Int /\ 1 \in Int
    BY <1>1
  <2> HIDE DEF m
  <2>2. IsFiniteSet(1 .. m) /\ Cardinality(1 .. m) = IF 1 > m THEN 0 ELSE m - 1 + 1
    BY <2>1, FS_Interval
  <2>3. Cardinality(1 .. m) = m
    BY <2>1, <2>2
  <2> QED BY <2>2, <2>3 DEF m
<1> QED BY <1>2, <1>3, FS_Surjection

LEMMA NoneLost == SinkInv => NothingLost
<1> SUFFICES ASSUME SinkInv, NEW r \in Rows
             PROVE  r \in Answered \cup dropped \/ \E p \in Places : r \in p
  BY DEF NothingLost
<1>1. r \in Nat
  BY DEF Rows
<1>2. r \in Held \cup Answered \cup dropped
  BY DEF SinkInv, RowsKept
<1> QED BY <1>1, <1>2, PlacesAre

LEMMA AgainOnlyUnanswered == SinkInv => SentAgainOnlyUnanswered
<1> SUFFICES ASSUME SinkInv, NEW r \in Rows, r \notin unanswered
             PROVE  ~(Copies(r) > 1) /\ ~(r \in Answered /\ \E p \in Places : r \in p)
  BY DEF SentAgainOnlyUnanswered
<1>1. r \in Nat
  BY DEF Rows
<1>2. ~(r \in Answered /\ \E p \in Places : r \in p)
  BY <1>1, PlacesAre DEF SinkInv, RowsKept
<1> DEFINE at == {i \in DOMAIN received : received[i] = r}
<1>3. \A i, j \in at : i = j
  BY DEF SinkInv, RowsKept
<1>4. Copies(r) = Cardinality(at)
  BY DEF Copies
<1> HIDE DEF at
<1>5. CASE at = {}
  BY <1>2, <1>4, <1>5, FS_EmptySet
<1>6. CASE at # {}
  <2>1. PICK i : at = {i}
    BY <1>3, <1>6
  <2>2. Cardinality(at) = 1
    BY <2>1, FS_Singleton
  <2> QED BY <1>2, <1>4, <2>2
<1> QED BY <1>2, <1>5, <1>6

LEMMA QueueWithin == SinkInv => QueueBounded
<1> SUFFICES ASSUME SinkInv
             PROVE  Len(queue) <= QUEUE_CAP /\ dropped \cap (Range(queue) \cup UNION {Range(b) : b \in posts}) = {}
  BY DEF QueueBounded
<1>1. Len(queue) =< QUEUE_CAP
  BY DEF SinkInv, SinkTypes
<1>2. Range(queue) \subseteq Held
  BY PlaceIs, HoldingIs DEF Holders
<1>3. UNION {Range(b) : b \in posts} \subseteq Held
  BY BatchIs
<1>4. Held \cap dropped = {}
  BY DEF SinkInv, RowsKept
<1> QED BY <1>1, <1>2, <1>3, <1>4

LEMMA CountedAtExit == SinkInv => ExitIsHonest
<1> DEFINE waiting == Rows \ (Answered \cup dropped \cup Range(hand["call"].batch)
                                \cup Range(hand["tick"].batch) \cup Range(buf))
           wire == UNION {Range(b) : b \in posts}
<1> SUFFICES ASSUME SinkInv, exit.stage = "done" PROVE Cardinality(waiting) <= exit.unsent
  BY DEF ExitIsHonest
<1>1. /\ exit.buffered = <<>> /\ exit.chunk = <<>>
      /\ exit.unsent = Len(queue) + Len(drainer.chunk) + Cardinality(wire)
  BY DEF SinkInv, Leaving
<1>2. /\ IsFiniteSet(Range(queue)) /\ Cardinality(Range(queue)) =< Len(queue) /\ Len(queue) \in Nat
      /\ IsFiniteSet(Range(drainer.chunk)) /\ Cardinality(Range(drainer.chunk)) =< Len(drainer.chunk)
      /\ Len(drainer.chunk) \in Nat
  <2>1. queue \in Seq(Nat) /\ drainer.chunk \in Seq(Nat)
    BY HoldingIs, PlaceIs DEF Holders
  <2> QED BY <2>1, RangeAtMostLen
<1>3. IsFiniteSet(wire)
  <2>1. IsFiniteSet({Range(b) : b \in posts})
    <3> DEFINE f == [b \in posts |-> Range(b)]
               T == {Range(b) : b \in posts}
    <3>1. f \in Surjection(posts, T)
      BY DEF Surjection
    <3>2. IsFiniteSet(posts)
      BY DEF SinkInv, SinkTypes
    <3> HIDE DEF f
    <3> QED BY <3>1, <3>2, FS_Surjection
  <2>2. \A T \in {Range(b) : b \in posts} : IsFiniteSet(T)
    BY BatchIs, RangeAtMostLen
  <2> QED BY <2>1, <2>2, FS_UNION
<1>4. waiting \subseteq Range(queue) \cup Range(drainer.chunk) \cup wire
  <2> SUFFICES ASSUME NEW r \in waiting PROVE r \in Range(queue) \cup Range(drainer.chunk) \cup wire
    OBVIOUS
  <2>1. r \in Nat /\ r \in Rows
    BY DEF Rows
  <2>2. r \in Held
    BY <2>1 DEF SinkInv, RowsKept
  <2>3. PICK p \in Places : r \in p
    BY <2>1, <2>2, PlacesAre
  <2>4. r \notin Range(exit.buffered) /\ r \notin Range(exit.chunk)
    BY <1>1, EmptyRange
  <2> QED BY <2>3, <2>4 DEF Places
<1> HIDE DEF waiting, wire
<1> DEFINE two == Range(queue) \cup Range(drainer.chunk)
<1>5. IsFiniteSet(two) /\ Cardinality(two) =< Len(queue) + Len(drainer.chunk) /\ Cardinality(two) \in Nat
  <2>1. /\ IsFiniteSet(two)
        /\ Cardinality(two) = Cardinality(Range(queue)) + Cardinality(Range(drainer.chunk))
                                - Cardinality(Range(queue) \cap Range(drainer.chunk))
    BY <1>2, FS_Union
  <2>2. IsFiniteSet(Range(queue) \cap Range(drainer.chunk))
    BY <1>2, FS_Subset
  <2>3. /\ Cardinality(Range(queue) \cap Range(drainer.chunk)) \in Nat /\ Cardinality(two) \in Nat
        /\ Cardinality(Range(queue)) \in Nat /\ Cardinality(Range(drainer.chunk)) \in Nat
    BY <1>2, <2>1, <2>2, FS_CardinalityType
  <2> HIDE DEF two
  <2> QED BY <1>2, <2>1, <2>3
<1> HIDE DEF two
<1>6. IsFiniteSet(two \cup wire) /\ Cardinality(two \cup wire) =< Cardinality(two) + Cardinality(wire)
      /\ Cardinality(wire) \in Nat /\ Cardinality(two \cup wire) \in Nat
  <2>1. /\ IsFiniteSet(two \cup wire)
        /\ Cardinality(two \cup wire) = Cardinality(two) + Cardinality(wire) - Cardinality(two \cap wire)
    BY <1>3, <1>5, FS_Union
  <2>2. IsFiniteSet(two \cap wire)
    BY <1>3, FS_Subset
  <2>3. Cardinality(two \cap wire) \in Nat /\ Cardinality(wire) \in Nat /\ Cardinality(two \cup wire) \in Nat
    BY <1>3, <2>1, <2>2, FS_CardinalityType
  <2> QED BY <1>5, <2>1, <2>3
<1>7. Cardinality(waiting) =< Cardinality(two \cup wire) /\ IsFiniteSet(waiting)
  <2>1. waiting \subseteq two \cup wire
    BY <1>4 DEF two
  <2> QED BY <1>6, <2>1, FS_Subset
<1>8. Cardinality(waiting) \in Nat
  BY <1>7, FS_CardinalityType
<1> QED BY <1>1, <1>2, <1>5, <1>6, <1>7, <1>8

(* Whatever of the plane, the answers, the drainer and the exit comes in   *)
(* which order: a recorded row is in one place or answered for or dropped  *)
(* at the cap, is folded in twice only after a lost answer, the queue      *)
(* stays within its cap, and the exit counts what is left.                 *)
THEOREM SinkIsWhole == SinkSpec => []SinkKeeps
<1>1. SinkInv => SinkKeeps
  BY NoneLost, AgainOnlyUnanswered, QueueWithin, CountedAtExit DEF SinkKeeps
<1> QED BY <1>1, SinkStarts, SinkSteps, PTL DEF SinkSpec
=============================================================================
