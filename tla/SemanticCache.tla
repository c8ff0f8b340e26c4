--------------------------- MODULE SemanticCache ---------------------------
(***************************************************************************)
(* One partition of the semantic cache, crates/core/src/cache.rs: a vector *)
(* of entries that a removal reorders (swap_remove), an index from id to   *)
(* position, an index from a hash of the prompt's core to ids, and a queue *)
(* of age records of which a refresh leaves stale ones behind.             *)
(*                                                                         *)
(* put takes the write lock and get the read lock, so each is one step.    *)
(* The clock is the caller's, read before the lock: callers may apply      *)
(* theirs in another order, or the clock may be set back, as often as      *)
(* MaxSetBack says.                                                        *)
(***************************************************************************)
EXTENDS Integers, Sequences, FiniteSets, SequencesExt

CONSTANTS
  Cores,       \* prompt cores, normalized
  HashOf,      \* core -> exact_index_hash, which may collide
  Near,        \* <<c, d>>: entity and length guards pass, and the similarity
  Responses,
  TTL, MAX_PER_PARTITION,
  SLACK,       \* the 16 of maybe_compact_order
  MaxMillis, MaxPuts, MaxSetBack

VARIABLES
  entries, id_to_pos, order, exact_index, next_id,   \* Partition
  millis,      \* the clock
  setback,     \* how often the clock went back
  puts,        \* how many answers were put
  latest_put,  \* core -> the last response put for it, or "none"
  put_at,      \* core -> when that was
  served       \* the lookup that hit just now

cachevars == <<entries, id_to_pos, order, exact_index, next_id, millis, setback, puts, latest_put, put_at, served>>

Part == [entries |-> entries, id_to_pos |-> id_to_pos, order |-> order, exact_index |-> exact_index]

Without(f, x) == [y \in DOMAIN f \ {x} |-> f[y]]
With(f, x, v) == [y \in DOMAIN f \cup {x} |-> IF y = x THEN v ELSE f[y]]

(* Mutant: a record of an entry that was refreshed since still speaks for it. *)
is_live_record_by_id(p, rec) == rec.id \in DOMAIN p.id_to_pos

is_live_record(p, rec) ==
  rec.id \in DOMAIN p.id_to_pos /\ p.entries[p.id_to_pos[rec.id]].created = rec.created

(* Mutant: the entry swapped into the hole keeps its old position. *)
remove_by_id_unmoved(p, id) ==
  LET pos == p.id_to_pos[id]
      last == Len(p.entries)
      hash == HashOf[p.entries[pos].core]
      left == SelectSeq(p.exact_index[hash], LAMBDA x : x # id)
  IN  [p EXCEPT !.entries = SubSeq([@ EXCEPT ![pos] = p.entries[last]], 1, last - 1),
                !.id_to_pos = Without(@, id),
                !.exact_index = IF left = <<>> THEN Without(@, hash) ELSE With(@, hash, left)]

(* remove_by_id: the last entry moves into the hole. *)
remove_by_id(p, id) ==
  LET pos == p.id_to_pos[id]
      last == Len(p.entries)
      hash == HashOf[p.entries[pos].core]
      left == SelectSeq(p.exact_index[hash], LAMBDA x : x # id)
      moved == p.entries[last].id
  IN  [p EXCEPT !.entries = SubSeq([@ EXCEPT ![pos] = p.entries[last]], 1, last - 1),
                !.id_to_pos = IF pos < last THEN [Without(@, id) EXCEPT ![moved] = pos] ELSE Without(@, id),
                !.exact_index = IF left = <<>> THEN Without(@, hash) ELSE With(@, hash, left)]

(* Mutant: whoever shares the hash is taken for the core. *)
Exact_by_hash(p, core) ==
  IF HashOf[core] \in DOMAIN p.exact_index
  THEN {p.exact_index[HashOf[core]][i] : i \in DOMAIN p.exact_index[HashOf[core]]} ELSE {}

(* find_exact: the ids of the bucket whose digest is the core's. *)
Exact(p, core) ==
  IF HashOf[core] \in DOMAIN p.exact_index
  THEN {id \in ToSet(p.exact_index[HashOf[core]]) :
          id \in DOMAIN p.id_to_pos /\ p.entries[p.id_to_pos[id]].core = core}
  ELSE {}

RECURSIVE sweep_expired(_, _)
sweep_expired(p, now) ==
  IF p.order = <<>> THEN p
  ELSE LET rec == Head(p.order)
           rest == [p EXCEPT !.order = Tail(@)]
       IN  IF ~is_live_record(p, rec) THEN sweep_expired(rest, now)
           ELSE IF now - rec.created > TTL THEN sweep_expired(remove_by_id(rest, rec.id), now)
           ELSE p

RECURSIVE evict_over_cap(_)
evict_over_cap(p) ==
  IF Len(p.entries) =< MAX_PER_PARTITION \/ p.order = <<>> THEN p
  ELSE LET rec == Head(p.order)
           rest == [p EXCEPT !.order = Tail(@)]
       IN  evict_over_cap(IF is_live_record(p, rec) THEN remove_by_id(rest, rec.id) ELSE rest)

maybe_compact_order(p) ==
  IF Len(p.order) =< 2 * Len(p.entries) + SLACK THEN p
  ELSE LET older(i, j) == \/ p.entries[i].created < p.entries[j].created
                          \/ p.entries[i].created = p.entries[j].created /\ i < j
           sorted == SetToSortSeq(DOMAIN p.entries, older)
       IN  [p EXCEPT !.order = [k \in DOMAIN sorted |->
              [id |-> p.entries[sorted[k]].id, created |-> p.entries[sorted[k]].created]]]

Refreshed(p, id, response, now) ==
  maybe_compact_order(
    [p EXCEPT !.entries[p.id_to_pos[id]].response = response,
              !.entries[p.id_to_pos[id]].created = now,
              !.order = Append(@, [id |-> id, created |-> now])])

Inserted(p, core, response, now) ==
  LET id == next_id
      bucket == IF HashOf[core] \in DOMAIN p.exact_index THEN p.exact_index[HashOf[core]] ELSE <<>>
  IN  maybe_compact_order(evict_over_cap(
        [entries |-> Append(p.entries, [id |-> id, core |-> core, response |-> response, created |-> now]),
         id_to_pos |-> With(p.id_to_pos, id, Len(p.entries) + 1),
         order |-> Append(p.order, [id |-> id, created |-> now]),
         exact_index |-> With(p.exact_index, HashOf[core], Append(bucket, id))]))

-----------------------------------------------------------------------------
NoneServed == [core |-> "none"]

CacheInit ==
  /\ entries = <<>> /\ id_to_pos = <<>> /\ order = <<>> /\ exact_index = <<>> /\ next_id = 1
  /\ millis = 0 /\ setback = 0 /\ puts = 0
  /\ latest_put = [c \in Cores |-> "none"] /\ put_at = [c \in Cores |-> 0]
  /\ served = NoneServed

put(core, response) ==
  /\ puts < MaxPuts
  /\ puts' = puts + 1
  /\ LET p == sweep_expired(Part, millis)
         found == Exact(p, core)
         q == IF found # {} THEN Refreshed(p, CHOOSE id \in found : TRUE, response, millis)
                            ELSE Inserted(p, core, response, millis)
     IN  /\ entries' = q.entries /\ id_to_pos' = q.id_to_pos
         /\ order' = q.order /\ exact_index' = q.exact_index
         /\ next_id' = IF found # {} THEN next_id ELSE next_id + 1
  /\ latest_put' = [latest_put EXCEPT ![core] = response]
  /\ put_at' = [put_at EXCEPT ![core] = millis]
  /\ served' = NoneServed
  /\ UNCHANGED <<millis, setback>>

Live(e) == millis - e.created =< TTL

(* get: the exact entry while it lives, else the most similar live one (of *)
(* which Near leaves the choice open).                                     *)
get(core) ==
  LET exact == {e \in Range(entries) : e.id \in Exact(Part, core) /\ Live(e)}
      close == {e \in Range(entries) : Live(e) /\ <<core, e.core>> \in Near}
  IN  \E e \in IF exact # {} THEN exact ELSE close :
        /\ served' = [core |-> core, of |-> e.core, response |-> e.response, created |-> e.created, at |-> millis]
        /\ UNCHANGED <<entries, id_to_pos, order, exact_index, next_id, millis, setback, puts, latest_put, put_at>>

ClockMoves ==
  /\ millis < MaxMillis
  /\ millis' = millis + 1
  /\ served' = NoneServed
  /\ UNCHANGED <<entries, id_to_pos, order, exact_index, next_id, setback, puts, latest_put, put_at>>

ClockSetBack ==
  /\ millis > 0 /\ setback < MaxSetBack
  /\ millis' = millis - 1
  /\ setback' = setback + 1
  /\ served' = NoneServed
  /\ UNCHANGED <<entries, id_to_pos, order, exact_index, next_id, puts, latest_put, put_at>>

CacheNext ==
  \/ \E core \in Cores, response \in Responses : put(core, response)
  \/ \E core \in Cores : get(core)
  \/ ClockMoves \/ ClockSetBack

CacheSpec == CacheInit /\ [][CacheNext]_cachevars
-----------------------------------------------------------------------------
(* The vector and its two indexes name the same entries after any series   *)
(* of refreshes, sweeps, evictions and swaps; every entry is still in the  *)
(* queue that can evict it, and a core has one entry.                      *)
CacheIndexed ==
  /\ DOMAIN id_to_pos = {entries[i].id : i \in DOMAIN entries}
  /\ \A i \in DOMAIN entries : id_to_pos[entries[i].id] = i
  /\ \A i \in DOMAIN entries : Exact(Part, entries[i].core) = {entries[i].id}
  /\ \A h \in DOMAIN exact_index : \A k \in DOMAIN exact_index[h] :
       exact_index[h][k] \in DOMAIN id_to_pos /\ HashOf[entries[id_to_pos[exact_index[h][k]]].core] = h
  /\ \A i \in DOMAIN entries : \E k \in DOMAIN order :
       order[k] = [id |-> entries[i].id, created |-> entries[i].created]

(* Neither the entries nor the stale records pile up. *)
CacheBounded ==
  /\ Len(entries) =< MAX_PER_PARTITION
  /\ Len(order) =< 2 * Len(entries) + SLACK

(* What was served had not expired, and an entry always holds the last     *)
(* answer put for its core: a refresh or a colliding hash never leaves an  *)
(* older answer, or another core's, in place.                              *)
ServedIsLatest ==
  /\ \A i \in DOMAIN entries : entries[i].response = latest_put[entries[i].core]
  /\ served.core # "none" => /\ served.at - served.created =< TTL
                             /\ served.of = served.core \/ <<served.core, served.of>> \in Near

(* An answer put or refreshed within its lifetime is gone only where the   *)
(* cache is full of answers put no earlier: the age record a refresh left  *)
(* behind evicts nobody. A clock that went back promises nothing here.     *)
OldestMakesRoom ==
  setback = 0 =>
    \A c \in Cores :
      \/ latest_put[c] = "none" \/ millis - put_at[c] > TTL
      \/ \E e \in Range(entries) : e.core = c
      \/ Len(entries) = MAX_PER_PARTITION /\ \A e \in Range(entries) : e.created >= put_at[c]

(* The cache, whole: its indexes agree, it stays within its bounds, what   *)
(* it serves is the last answer put, in time, and the oldest make room.    *)
CacheSound == CacheIndexed /\ CacheBounded /\ ServedIsLatest /\ OldestMakesRoom
=============================================================================
