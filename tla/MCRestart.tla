----------------------------- MODULE MCRestart -----------------------------
(* Restart on small instances; the constants are in the .cfg files.        *)
EXTENDS Restart

CONSTANTS parent_run, child_run

(* An operator budgeted the parent in the Cloud; the child has only what   *)
(* its caller declares.                                                    *)
ParentBudgeted == [r \in Runs |-> IF r = parent_run THEN 2 ELSE NoBudget]
=============================================================================
