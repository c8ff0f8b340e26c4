---------------------------- MODULE PushPipeline ----------------------------
(***************************************************************************)
(* From a change in the control plane's store to a push on a phone: the    *)
(* broadcast bus, the one task that reads it, and the two memories that    *)
(* keep it from sending the same alert again within the window.            *)
(***************************************************************************)
EXTENDS Integers, Sequences, FiniteSets, SequencesExt, Functions

CONSTANTS
  Subjects,       \* runs that are killed or pass their line, and incidents
  Persisted,      \* the subjects that are incidents: their stamp is in the store
  BUS_CAP,        \* the broadcast channel's capacity
  DEDUP,          \* the window
  MaxNow, MaxChanges     \* bounds

ASSUME PushAssumption ==
  /\ Persisted \subseteq Subjects
  /\ {DEDUP, MaxNow, MaxChanges} \subseteq Nat /\ BUS_CAP \in Nat \ {0}

VARIABLES
  now,
  changes,        \* changes so far
  bus,            \* events the task has not read
  lagged,         \* the channel dropped one the task had not read
  reading,        \* the task is in its loop
  dedup,          \* PushPipeline.dedup: subject -> when it was sent
  stamps,         \* last_notified_millis of the incidents
  sent            \* history: the pushes, [subject, at]

pushvars == <<now, changes, bus, lagged, reading, dedup, stamps, sent>>

PushInit ==
  /\ now = DEDUP + 1 /\ changes = 0
  /\ bus = <<>> /\ lagged = FALSE /\ reading = TRUE
  /\ dedup = <<>> /\ stamps = [s \in Persisted |-> 0]
  /\ sent = <<>>

(* A kill, a run at its line or a tripped incident: events.send. *)
Change(s) ==
  /\ changes < MaxChanges
  /\ changes' = changes + 1
  /\ IF reading
     THEN /\ bus' = IF Len(bus) = BUS_CAP THEN Append(Tail(bus), s) ELSE Append(bus, s)
          /\ lagged' = (lagged \/ Len(bus) = BUS_CAP)
     ELSE UNCHANGED <<bus, lagged>>
  /\ UNCHANGED <<now, reading, dedup, stamps, sent>>

Push(s) == sent' = Append(sent, [subject |-> s, at |-> now])

should_send(s) == s \notin DOMAIN dedup \/ now - dedup[s] >= DEDUP
mark_incident_notified(s) == now - stamps[s] > DEDUP

alert(s) ==
  IF should_send(s)
  THEN Push(s) /\ dedup' = [x \in DOMAIN dedup \cup {s} |-> IF x = s THEN now ELSE dedup[x]]
  ELSE UNCHANGED <<dedup, sent>>

incident_alert(s) ==
  IF mark_incident_notified(s)
  THEN Push(s) /\ stamps' = [stamps EXCEPT ![s] = now]
  ELSE UNCHANGED <<stamps, sent>>

(* while let Ok(event) = rx.recv().await { handle(event) }: an event, or   *)
(* the error that says some were missed.                                   *)
recv ==
  /\ reading /\ bus # <<>>
  /\ IF lagged
     THEN reading' = FALSE /\ UNCHANGED <<bus, dedup, stamps, sent>>
     ELSE /\ bus' = Tail(bus) /\ UNCHANGED reading
          /\ LET s == Head(bus)
             IN  IF s \in Persisted THEN incident_alert(s) /\ UNCHANGED dedup
                 ELSE alert(s) /\ UNCHANGED stamps
  /\ UNCHANGED <<now, changes, lagged>>

Later ==
  /\ now < MaxNow
  /\ now' = now + 1
  /\ UNCHANGED <<changes, bus, lagged, reading, dedup, stamps, sent>>

PushNext == \/ \E s \in Subjects : Change(s)
            \/ recv \/ Later

(* The task is spawned once and nothing keeps it from reading. *)
PushSpec == PushInit /\ [][PushNext]_pushvars /\ WF_pushvars(recv)
-----------------------------------------------------------------------------
(* The same alert is not sent twice within the window. *)
OncePerWindow ==
  \A i, j \in DOMAIN sent :
    (i < j /\ sent[i].subject = sent[j].subject) => sent[j].at - sent[i].at >= DEDUP

(* A change that reaches the bus is on a phone at the end, by its own push *)
(* or one the window covers, as long as the task reads.                    *)
ChangeIsPushed ==
  \A s \in Subjects :
    (s \in Range(bus)) ~> (~reading \/ \E i \in DOMAIN sent : sent[i].subject = s)
=============================================================================
