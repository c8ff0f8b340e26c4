------------------------------ MODULE MCCloud ------------------------------
(* Where the rows of a call go: four parts between the gateway's sink and  *)
(* a phone, and the trace on disk, each on a small instance of its own: a  *)
(* behaviour moves one of them.                                            *)
EXTENDS CloudSink, CloudDoor, Incidents, PushPipeline, TraceSink

VARIABLE part

MCWorkloads ==
  {[calls |-> 3, reports |-> 0, restarts |-> 0, controls |-> 1],
   [calls |-> 0, reports |-> 3, restarts |-> 1, controls |-> 0],
   [calls |-> 2, reports |-> 1, restarts |-> 0, controls |-> 0]}

Parts == {"sink", "door", "incidents", "push", "trace"}

cloudvars == <<part, sinkvars, doorvars, incvars, pushvars, tracevars>>

CloudInit ==
  /\ part \in Parts
  /\ SinkInit /\ DoorInit /\ IncInit /\ PushInit /\ TraceInit
  /\ part # "sink" => plane.refuses = FALSE
  /\ part # "incidents" => left.calls = 3

OnlySink == part = "sink" /\ UNCHANGED <<part, doorvars, incvars, pushvars, tracevars>>
OnlyDoor == part = "door" /\ UNCHANGED <<part, sinkvars, incvars, pushvars, tracevars>>
OnlyIncidents == part = "incidents" /\ UNCHANGED <<part, sinkvars, doorvars, pushvars, tracevars>>
OnlyPush == part = "push" /\ UNCHANGED <<part, sinkvars, doorvars, incvars, tracevars>>
OnlyTrace == part = "trace" /\ UNCHANGED <<part, sinkvars, doorvars, incvars, pushvars>>

CloudNext ==
  \/ OnlySink /\ SinkNext
  \/ OnlyDoor /\ DoorNext
  \/ OnlyIncidents /\ IncNext
  \/ OnlyPush /\ PushNext
  \/ OnlyTrace /\ TraceNext

(* The fairness of each part, for the behaviours that move it. *)
CloudSpec ==
  /\ CloudInit /\ [][CloudNext]_cloudvars
  /\ WF_cloudvars(OnlySink /\ flush)
  /\ \A t \in Threads : WF_cloudvars(OnlySink /\ ship(t))
  /\ WF_cloudvars(OnlySink /\ \E b \in posts : post(b))
  /\ WF_cloudvars(OnlySink /\ pop_front_chunk)
  /\ WF_cloudvars(OnlySink /\ drain_post)
  /\ WF_cloudvars(OnlyPush /\ recv)
  /\ \A g \in Gateways : WF_cloudvars(OnlyTrace /\ flush_rows(g))
  /\ WF_cloudvars(OnlyTrace /\ \E b \in batches : write_batch(b))

(* What is recorded arrives: every row at the control plane and on the     *)
(* disk, every change that reaches the bus on a phone, and no alert twice  *)
(* within its window.                                                      *)
EverythingArrives == []OncePerWindow /\ EventuallyAnswered /\ ChangeIsPushed /\ RowsReachDisk
=============================================================================
