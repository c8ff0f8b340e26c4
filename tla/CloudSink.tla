----------------------------- MODULE CloudSink -----------------------------
(***************************************************************************)
(* The gateway's sink of settled calls: the buffer, the batches on the     *)
(* wire, the queue of an outage with its one drainer, and the flush before *)
(* exit.                                                                   *)
(*                                                                         *)
(* Two threads take batches out of the buffer: the one of a call, when it  *)
(* is full, and the two-second tick.  Between the take and the decision of *)
(* ship the batch is in the thread's hand only.  A push whose answer is    *)
(* lost may have been received: the gateway cannot tell.                   *)
(***************************************************************************)
EXTENDS Naturals, Sequences, FiniteSets, SequencesExt

CONSTANTS
  MaxRows,       \* rows the calls record
  BATCH, QUEUE_CAP,
  MaxOutages     \* how often the control plane goes away

ASSUME SinkAssumption ==
  /\ {MaxRows, MaxOutages} \subseteq Nat
  /\ {BATCH, QUEUE_CAP} \subseteq Nat \ {0}

VARIABLES
  recorded,      \* rows recorded so far, numbered in their order
  buf,           \* CloudSink.buf
  hand,          \* thread -> the batch it took and has not shipped
  posts,         \* batches on the wire from the fast path
  queue,         \* Queue.records
  drainer,       \* [draining, chunk]: the drainer and the chunk it posts
  exit,          \* [stage, buffered, chunk, unsent]: flush_before_exit
  plane,         \* [up, refuses, outages]: the control plane, external
  received,      \* the rows the control plane has folded in, in that order
  refused,       \* rows a push was refused with
  dropped,       \* rows the cap dropped
  unanswered     \* rows of a received push whose answer was lost

sinkvars == <<recorded, buf, hand, posts, queue, drainer, exit, plane,
              received, refused, dropped, unanswered>>

Threads == {"call", "tick"}
Idle == [busy |-> FALSE, batch |-> <<>>]
closing == exit.stage # "open"
is_holding == queue # <<>>
in_flight == posts # {} \/ drainer.chunk # <<>>

SinkInit ==
  /\ recorded = 0 /\ buf = <<>>
  /\ hand = [t \in Threads |-> Idle]
  /\ posts = {} /\ queue = <<>>
  /\ drainer = [draining |-> FALSE, chunk |-> <<>>]
  /\ exit = [stage |-> "open", buffered |-> <<>>, chunk |-> <<>>, unsent |-> 0]
  /\ \E refuses \in BOOLEAN : plane = [up |-> TRUE, refuses |-> refuses, outages |-> 0]
  /\ received = <<>>
  /\ refused = {} /\ dropped = {} /\ unanswered = {}

-----------------------------------------------------------------------------
(* The queue drops its oldest rows past the cap, whichever end grew. *)
Excess(q) == IF Len(q) > QUEUE_CAP THEN Len(q) - QUEUE_CAP ELSE 0
SetQueue(q) ==
  /\ queue' = SubSeq(q, Excess(q) + 1, Len(q))
  /\ dropped' = dropped \cup Range(SubSeq(q, 1, Excess(q)))

push_back_capped(rows) == SetQueue(queue \o rows)

push_front_capped(rows) == SetQueue(rows \o queue)

record ==
  LET full == Append(buf, recorded + 1)
  IN  /\ recorded < MaxRows /\ ~hand["call"].busy /\ exit.stage # "done"
      /\ recorded' = recorded + 1
      /\ IF Len(full) >= BATCH
         THEN buf' = <<>> /\ hand' = [hand EXCEPT !["call"] = [busy |-> TRUE, batch |-> full]]
         ELSE buf' = full /\ UNCHANGED hand
      /\ UNCHANGED <<posts, queue, drainer, exit, plane, received, refused, dropped, unanswered>>

flush ==
  /\ ~hand["tick"].busy /\ exit.stage # "done"
  /\ buf # <<>> \/ is_holding
  /\ hand' = [hand EXCEPT !["tick"] = [busy |-> TRUE, batch |-> buf]]
  /\ buf' = <<>>
  /\ UNCHANGED <<recorded, posts, queue, drainer, exit, plane, received, refused, dropped, unanswered>>

(* Mutant: drain starts a second drainer. *)
drain_again(q) ==
  drainer' = IF q # <<>> /\ ~closing THEN [draining |-> TRUE, chunk |-> <<>>] ELSE drainer

(* One drainer at a time, and none once the gateway is stopping. *)
drain(q) ==
  drainer' = IF q # <<>> /\ ~closing THEN [drainer EXCEPT !.draining = TRUE] ELSE drainer

(* ship, and for the tick the drain that follows it.  While the queue      *)
(* holds anything or a drainer is at work a batch goes behind it.          *)
ship(t) ==
  LET batch == hand[t].batch
  IN  /\ hand[t].busy /\ exit.stage # "done"
      /\ hand' = [hand EXCEPT ![t] = Idle]
      /\ IF batch # <<>> /\ (closing \/ is_holding \/ drainer.draining)
         THEN push_back_capped(batch) /\ drain(queue') /\ UNCHANGED posts
         ELSE /\ posts' = IF batch = <<>> THEN posts ELSE posts \cup {batch}
              /\ IF t = "tick" THEN drain(queue) ELSE UNCHANGED drainer
              /\ UNCHANGED <<queue, dropped>>
      /\ UNCHANGED <<recorded, buf, exit, plane, received, refused, unanswered>>

-----------------------------------------------------------------------------
(* One POST.  An answer of the control plane ends the batch, accepted or   *)
(* refused; no answer says nothing about what was received.                *)
Accepted(rows) ==
  /\ plane.up /\ ~plane.refuses
  /\ received' = received \o rows
  /\ UNCHANGED <<refused, unanswered>>
Refused(rows) ==
  /\ plane.up /\ plane.refuses
  /\ refused' = refused \cup Range(rows)
  /\ UNCHANGED <<received, unanswered>>
AnswerLostOnce(rows) == Range(rows) \cap unanswered = {}   \* a bound
Unreachable(rows) ==
  /\ UNCHANGED refused
  /\ \/ ~plane.up /\ UNCHANGED <<received, unanswered>>
     \/ /\ ~plane.up /\ ~plane.refuses
        /\ AnswerLostOnce(rows)
        /\ received' = received \o rows
        /\ unanswered' = unanswered \cup Range(rows)

(* The fast path's task. *)
post(batch) ==
  /\ batch \in posts /\ exit.stage # "done"
  /\ posts' = posts \ {batch}
  /\ \/ (Accepted(batch) \/ Refused(batch)) /\ UNCHANGED <<queue, dropped>>
     \/ Unreachable(batch) /\ push_front_capped(batch)
  /\ UNCHANGED <<recorded, buf, hand, drainer, exit, plane>>

(* The drainer's loop: a chunk from the front, until the queue is empty,   *)
(* a push gets no answer, or the gateway stops.                            *)
pop_front_chunk ==
  LET n == IF Len(queue) < BATCH THEN Len(queue) ELSE BATCH
  IN  /\ drainer.draining /\ drainer.chunk = <<>> /\ exit.stage # "done"
      /\ IF n = 0
         THEN drainer' = [drainer EXCEPT !.draining = FALSE] /\ UNCHANGED queue
         ELSE /\ drainer' = [drainer EXCEPT !.chunk = SubSeq(queue, 1, n)]
              /\ queue' = SubSeq(queue, n + 1, Len(queue))
      /\ UNCHANGED <<recorded, buf, hand, posts, exit, plane, received, refused, dropped, unanswered>>

drain_post ==
  /\ drainer.chunk # <<>> /\ exit.stage # "done"
  /\ \/ (Accepted(drainer.chunk) \/ Refused(drainer.chunk))
        /\ drainer' = [draining |-> ~closing, chunk |-> <<>>]
        /\ UNCHANGED <<queue, dropped>>
     \/ Unreachable(drainer.chunk) /\ push_front_capped(drainer.chunk)
        /\ drainer' = [draining |-> FALSE, chunk |-> <<>>]
  /\ UNCHANGED <<recorded, buf, hand, posts, exit, plane>>

-----------------------------------------------------------------------------
(* flush_before_exit: close, wait for what is on the wire or the deadline, *)
(* send queue and buffer, and count what is left.                          *)
ExitCloses ==
  /\ exit.stage = "open"
  /\ exit' = [exit EXCEPT !.stage = "waiting", !.buffered = buf]
  /\ buf' = <<>>
  /\ UNCHANGED <<recorded, hand, posts, queue, drainer, plane, received, refused, dropped, unanswered>>

ExitWaited(deadline) ==
  /\ exit.stage = "waiting"
  /\ deadline \/ ~(in_flight \/ drainer.draining)
  /\ push_back_capped(exit.buffered)
  /\ exit' = [exit EXCEPT !.stage = "sending", !.buffered = <<>>]
  /\ UNCHANGED <<recorded, buf, hand, posts, drainer, plane, received, refused, unanswered>>

(* Mutant: what is still on the wire is not counted. *)
ExitCounts_queue_only ==
  /\ exit.stage \in {"sending", "counting"} /\ exit.chunk = <<>>
  /\ exit' = [exit EXCEPT !.stage = "done", !.unsent = Len(queue)]
  /\ UNCHANGED <<recorded, buf, hand, posts, queue, drainer, plane, received, refused, dropped, unanswered>>

(* The queue is empty, or the time is up, or a push got no answer. *)
ExitCounts ==
  /\ exit.stage \in {"sending", "counting"} /\ exit.chunk = <<>>
  /\ exit' = [exit EXCEPT !.stage = "done",
                          !.unsent = Len(queue) + Len(drainer.chunk)
                                       + Cardinality(UNION {Range(b) : b \in posts})]
  /\ UNCHANGED <<recorded, buf, hand, posts, queue, drainer, plane, received, refused, dropped, unanswered>>

ExitPops ==
  LET n == IF Len(queue) < BATCH THEN Len(queue) ELSE BATCH
  IN  /\ exit.stage = "sending" /\ exit.chunk = <<>> /\ is_holding
      /\ exit' = [exit EXCEPT !.chunk = SubSeq(queue, 1, n)]
      /\ queue' = SubSeq(queue, n + 1, Len(queue))
      /\ UNCHANGED <<recorded, buf, hand, posts, drainer, plane, received, refused, dropped, unanswered>>

ExitPosts ==
  /\ exit.stage = "sending" /\ exit.chunk # <<>>
  /\ \/ /\ Accepted(exit.chunk) \/ Refused(exit.chunk)
        /\ exit' = [exit EXCEPT !.chunk = <<>>]
        /\ UNCHANGED <<queue, dropped>>
     \/ /\ Unreachable(exit.chunk)
        /\ push_front_capped(exit.chunk)
        /\ exit' = [exit EXCEPT !.chunk = <<>>, !.stage = "counting"]
  /\ UNCHANGED <<recorded, buf, hand, posts, drainer, plane>>

PlaneFails ==
  /\ plane.up /\ plane.outages < MaxOutages
  /\ plane' = [plane EXCEPT !.up = FALSE, !.outages = @ + 1]
  /\ UNCHANGED <<recorded, buf, hand, posts, queue, drainer, exit, received, refused, dropped, unanswered>>

PlaneReturns ==
  /\ ~plane.up
  /\ plane' = [plane EXCEPT !.up = TRUE]
  /\ UNCHANGED <<recorded, buf, hand, posts, queue, drainer, exit, received, refused, dropped, unanswered>>

SinkNext ==
  \/ record \/ flush
  \/ \E t \in Threads : ship(t)
  \/ \E batch \in posts : post(batch)
  \/ pop_front_chunk \/ drain_post
  \/ ExitCloses \/ ExitPops \/ ExitPosts \/ ExitCounts
  \/ \E deadline \in BOOLEAN : ExitWaited(deadline)
  \/ PlaneFails \/ PlaneReturns

(* The tick is a timer, the others are spawned tasks whose POST ends in    *)
(* PUSH_TIMEOUT; nothing makes calls, exits or outages happen.             *)
SinkFairness ==
  /\ WF_sinkvars(flush)
  /\ \A t \in Threads : WF_sinkvars(ship(t))
  /\ WF_sinkvars(\E batch \in posts : post(batch))
  /\ WF_sinkvars(pop_front_chunk) /\ WF_sinkvars(drain_post)

SinkSpec == SinkInit /\ [][SinkNext]_sinkvars /\ SinkFairness
-----------------------------------------------------------------------------
Rows == 1 .. recorded
Places == {Range(buf), Range(hand["call"].batch), Range(hand["tick"].batch), Range(queue),
           Range(drainer.chunk), Range(exit.buffered), Range(exit.chunk)}
            \cup {Range(b) : b \in posts}
Answered == Range(received) \cup refused

(* Whatever fails and whenever: a row is in one of the sink's places until *)
(* the control plane answers for it or the cap drops it.                   *)
NothingLost ==
  \A r \in Rows : r \in Answered \cup dropped \/ \E p \in Places : r \in p

Copies(r) == Cardinality({i \in DOMAIN received : received[i] = r})

(* A row is sent again, and so counted again, only when the answer to a    *)
(* push that carried it was lost.                                          *)
SentAgainOnlyUnanswered ==
  \A r \in Rows :
    (Copies(r) > 1 \/ (r \in Answered /\ \E p \in Places : r \in p)) => r \in unanswered

(* The queue never passes its cap, and the cap only ever drops what was    *)
(* waiting: never a row of a batch on the wire.                            *)
QueueBounded ==
  /\ Len(queue) <= QUEUE_CAP
  /\ dropped \cap (Range(queue) \cup UNION {Range(b) : b \in posts}) = {}

(* A stopped gateway says how many rows the control plane never answered   *)
(* for, short only by those a thread had taken and not yet shipped.        *)
ExitIsHonest ==
  exit.stage = "done" =>
    Cardinality(Rows \ (Answered \cup dropped \cup Range(hand["call"].batch)
                          \cup Range(hand["tick"].batch) \cup Range(buf))) <= exit.unsent

(* Once the control plane is back for good, everything recorded reaches it *)
(* or was dropped at the cap, unless the gateway is stopped.               *)
EventuallyAnswered ==
  <>[](plane.up /\ exit.stage = "open") =>
    \A r \in 1 .. MaxRows : []((r \in Rows) => <>(r \in Answered \cup dropped))

(* The sink, whole: no row lost but at the cap, none sent again without a  *)
(* lost answer, the queue within its cap, and an honest count at the exit. *)
SinkKeeps == NothingLost /\ SentAgainOnlyUnanswered /\ QueueBounded /\ ExitIsHonest
=============================================================================
