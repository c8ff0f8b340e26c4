----------------------------- MODULE TraceSink -----------------------------
(***************************************************************************)
(* The local trace, ParquetSink of crates/gateway/src/sink.rs: rows are    *)
(* buffered, taken under the lock when there are enough of them, on a tick *)
(* or when the sink is dropped, and written outside the lock as a segment  *)
(* of their own.  Gateways share the directory, and meet the segments of   *)
(* the processes before them.  A write can fail and a process can crash    *)
(* anywhere; what was taken is then gone.                                  *)
(***************************************************************************)
EXTENDS Integers, FiniteSets, Sequences

CONSTANTS
  Gateways,    \* processes over one TOKENFUSE_DATA_DIR
  THRESHOLD,   \* the rows that make a batch
  MaxTraced,   \* bound on the rows recorded
  MaxStarts,   \* bound on the instances started
  MaxFaults    \* bound on crashes and failed writes

VARIABLES
  buffer,      \* gateway -> the rows it holds, ParquetSink.buffer
  instance,    \* gateway -> its instance token, 0 while it is down
  seq,         \* gateway -> ParquetSink.seq
  batches,     \* [of, rows, name]: taken, being written; name <<>> before create
  segments,    \* name -> [rows, whole]: the files
  traced,      \* how many rows were recorded; a row is its number
  instances,   \* how many instances started
  gone,        \* rows whose write failed or whose process crashed
  faults

tracevars == <<buffer, instance, seq, batches, segments, traced, instances, gone, faults>>

Taken(g, rows) == IF rows = {} THEN {} ELSE {[of |-> g, rows |-> rows, name |-> <<>>]}

TraceInit ==
  /\ buffer = [g \in Gateways |-> {}]
  /\ instance = [g \in Gateways |-> 0]
  /\ seq = [g \in Gateways |-> 0]
  /\ batches = {} /\ segments = <<>> /\ traced = 0 /\ instances = 0 /\ gone = {} /\ faults = 0

(* ParquetSink::new: the token is pid and start time, no other process's. *)
open_sink(g) ==
  /\ instance[g] = 0 /\ instances < MaxStarts
  /\ instances' = instances + 1
  /\ instance' = [instance EXCEPT ![g] = instances + 1]
  /\ seq' = [seq EXCEPT ![g] = 0]
  /\ buffer' = [buffer EXCEPT ![g] = {}]
  /\ UNCHANGED <<batches, segments, traced, gone, faults>>

(* Mutant: the buffer is emptied once the segment is there. *)
record_row_copying(g) ==
  /\ instance[g] # 0 /\ traced < MaxTraced
  /\ traced' = traced + 1
  /\ LET rows == buffer[g] \cup {traced + 1}
         full == Cardinality(rows) >= THRESHOLD
     IN  /\ buffer' = [buffer EXCEPT ![g] = rows]
         /\ batches' = batches \cup IF full THEN Taken(g, rows) ELSE {}
  /\ UNCHANGED <<instance, seq, segments, instances, gone, faults>>

record_row(g) ==
  /\ instance[g] # 0 /\ traced < MaxTraced
  /\ traced' = traced + 1
  /\ LET rows == buffer[g] \cup {traced + 1}
         full == Cardinality(rows) >= THRESHOLD
     IN  /\ buffer' = [buffer EXCEPT ![g] = IF full THEN {} ELSE rows]
         /\ batches' = batches \cup IF full THEN Taken(g, rows) ELSE {}
  /\ UNCHANGED <<instance, seq, segments, instances, gone, faults>>

(* Mutant: only a full buffer is flushed. *)
flush_rows_full(g) ==
  /\ instance[g] # 0 /\ Cardinality(buffer[g]) >= THRESHOLD
  /\ batches' = batches \cup Taken(g, buffer[g])
  /\ buffer' = [buffer EXCEPT ![g] = {}]
  /\ UNCHANGED <<instance, seq, segments, traced, instances, gone, faults>>

(* The tick of spawn_periodic_flush; an empty buffer writes nothing. *)
flush_rows(g) ==
  /\ instance[g] # 0 /\ buffer[g] # {}
  /\ batches' = batches \cup Taken(g, buffer[g])
  /\ buffer' = [buffer EXCEPT ![g] = {}]
  /\ UNCHANGED <<instance, seq, segments, traced, instances, gone, faults>>

(* Mutant: a segment is named after its number alone. *)
SegmentName_numbered(g) == <<0, seq[g]>>

SegmentName(g) == <<instance[g], seq[g]>>

Put(name, segment) == [n \in DOMAIN segments \cup {name} |-> IF n = name THEN segment ELSE segments[n]]

(* write_batch: the file is created, and truncated if it was there ... *)
create_segment(b) ==
  /\ b.name = <<>>
  /\ batches' = (batches \ {b}) \cup {[b EXCEPT !.name = SegmentName(b.of)]}
  /\ seq' = [seq EXCEPT ![b.of] = @ + 1]
  /\ segments' = Put(SegmentName(b.of), [rows |-> {}, whole |-> FALSE])
  /\ UNCHANGED <<buffer, instance, traced, instances, gone, faults>>

(* ... and readable when the writer closed it. *)
close_segment(b) ==
  /\ b.name # <<>>
  /\ batches' = batches \ {b}
  /\ segments' = Put(b.name, [rows |-> b.rows, whole |-> TRUE])
  /\ UNCHANGED <<buffer, instance, seq, traced, instances, gone, faults>>

(* The error is printed and the rows are dropped. *)
write_fails(b) ==
  /\ faults < MaxFaults
  /\ faults' = faults + 1
  /\ batches' = batches \ {b}
  /\ gone' = gone \cup b.rows
  /\ UNCHANGED <<buffer, instance, seq, segments, traced, instances>>

Own(g) == {b \in batches : b.of = g}

(* A signal: the sink is dropped when no one holds it any more.  Its own   *)
(* flush, a flush_rows whose batch is written, comes before.               *)
drop_sink(g) ==
  /\ instance[g] # 0 /\ Own(g) = {} /\ buffer[g] = {}
  /\ instance' = [instance EXCEPT ![g] = 0]
  /\ UNCHANGED <<buffer, seq, batches, segments, traced, instances, gone, faults>>

crash_gateway(g) ==
  /\ instance[g] # 0 /\ faults < MaxFaults
  /\ faults' = faults + 1
  /\ instance' = [instance EXCEPT ![g] = 0]
  /\ gone' = gone \cup buffer[g] \cup (UNION {b.rows : b \in Own(g)})
  /\ batches' = batches \ Own(g)
  /\ buffer' = [buffer EXCEPT ![g] = {}]
  /\ UNCHANGED <<seq, segments, traced, instances>>

write_batch(b) == create_segment(b) \/ close_segment(b)

TraceNext ==
  \/ \E g \in Gateways : open_sink(g) \/ record_row(g) \/ flush_rows(g) \/ drop_sink(g) \/ crash_gateway(g)
  \/ \E b \in batches : write_batch(b) \/ write_fails(b)

(* The tick comes back every two seconds, and a write ends. *)
TraceFairness ==
  /\ \A g \in Gateways : WF_tracevars(flush_rows(g))
  /\ WF_tracevars(\E b \in batches : write_batch(b))

TraceSpec == TraceInit /\ [][TraceNext]_tracevars /\ TraceFairness
-----------------------------------------------------------------------------
Whole == {n \in DOMAIN segments : segments[n].whole}

(* A row that no failed write and no crash took is held, being written, or *)
(* readable: no segment is overwritten, whoever else writes there, before  *)
(* a restart or after it.                                                  *)
RowsKept ==
  1 .. traced = gone \cup (UNION {buffer[g] : g \in Gateways}) \cup (UNION {b.rows : b \in batches})
                  \cup (UNION {segments[n].rows : n \in Whole})

(* And no query counts a row twice. *)
RowsOnce == \A m, n \in Whole : m # n => segments[m].rows \cap segments[n].rows = {}

(* The rows reach the disk without enough of them to fill a buffer: what   *)
(* is recorded does not wait for the shutdown.                             *)
RowsReachDisk == <>[](1 .. traced = gone \cup (UNION {segments[n].rows : n \in Whole}))

(* The trace on disk, whole: every row in one place, and in one only.      *)
RowsExactlyOnce == RowsKept /\ RowsOnce
=============================================================================
