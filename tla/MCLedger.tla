------------------------------ MODULE MCLedger ------------------------------
(* The core crate's ledger and semantic cache, each on a small instance of *)
(* its own, in behaviours that move one of them.                           *)
EXTENDS Ledger, SemanticCache, TLC

VARIABLE part

(* No definition of Ledger tells one run from another. *)
Symmetry == Permutations(Runs)

(* The cache: two cores share a hash, two are near each other. *)
MCHashOf == [c1 |-> 1, c2 |-> 1, c3 |-> 2]
MCNear == {<<"c1", "c3">>, <<"c3", "c1">>}

LedgersInit ==
  /\ part \in {"ledger", "cache"}
  /\ Init /\ CacheInit

LedgersNext ==
  \/ part = "ledger" /\ Next /\ UNCHANGED <<part, cachevars>>
  \/ part = "cache" /\ CacheNext /\ UNCHANGED <<part, vars>>

LedgersSpec == LedgersInit /\ [][LedgersNext]_<<part, vars, cachevars>>
=============================================================================
