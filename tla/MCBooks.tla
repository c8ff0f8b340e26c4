------------------------------ MODULE MCBooks ------------------------------
(* The replicated ledger, and the journal of what calls left unsettled,    *)
(* each on a small instance of its own.  A behaviour moves one of them.    *)
EXTENDS ClusterLedger, RetainedJournal

VARIABLE part

BooksInit ==
  /\ part \in {"cluster", "journal"}
  /\ ClusterInit /\ JournalInit
  /\ part # "cluster" => reachable /\ enforce

BooksNext ==
  \/ part = "cluster" /\ ClusterNext /\ UNCHANGED <<part, jvars>>
  \/ part = "journal" /\ JournalNext /\ UNCHANGED <<part, cvars>>

BooksSpec == BooksInit /\ [][BooksNext]_<<part, cvars, jvars>>

(* Runs are not ordered; gateways, calls and operations are                *)
(* interchangeable.                                                        *)
Symmetry ==
  Permutations(Runs) \cup Permutations(Gateways) \cup Permutations(Calls) \cup Permutations(Ops)
=============================================================================
