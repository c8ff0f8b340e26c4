------------------------------- MODULE MCDisk -------------------------------
(* What survives: the event stream with its checkpoints, the keys those    *)
(* are signed with, the run-owner journal, the raft store, the ledger      *)
(* across restarts and the control plane's audit book, each on a small     *)
(* instance of its own.  A behaviour moves one of them.                    *)
EXTENDS Checkpoints, CheckpointKeys, RunOwners, RaftStore, Restart, AuditManifest

CONSTANTS parent_run, child_run

VARIABLE part

diskvars == <<part, streamvars, keyvars, ownervars, raftvars, rvars, auditvars>>

(* An operator budgeted the parent in the Cloud; the child has only what   *)
(* its caller declares.                                                    *)
ParentBudgeted == [r \in Runs |-> IF r = parent_run THEN 2 ELSE NoBudget]

(* Two entries that read the same once joined, were their separators kept. *)
MCMutations ==
  {[subject |-> <<"a">>, detail |-> <<SEP, "a">>], [subject |-> <<"a", SEP>>, detail |-> <<"a">>]}

MCSkews == {-1, 0, 1}

DiskInit ==
  /\ part \in {"stream", "keys", "owners", "raft", "restart", "audit"}
  /\ StreamInit /\ KeysInit /\ OwnersInit /\ RaftInit /\ RestartInit /\ AuditInit
  /\ part # "keys" => keys = {} /\ answering
  /\ part # "restart" => enforce
  /\ part # "audit" => config.word = "unset" /\ config.signing_key = "unset"

DiskNext ==
  \/ part = "stream" /\ StreamNext /\ UNCHANGED <<part, keyvars, ownervars, raftvars, rvars, auditvars>>
  \/ part = "keys" /\ KeysNext /\ UNCHANGED <<part, streamvars, ownervars, raftvars, rvars, auditvars>>
  \/ part = "owners" /\ OwnersNext /\ UNCHANGED <<part, streamvars, keyvars, raftvars, rvars, auditvars>>
  \/ part = "raft" /\ RaftNext /\ UNCHANGED <<part, streamvars, keyvars, ownervars, rvars, auditvars>>
  \/ part = "restart" /\ RestartNext /\ UNCHANGED <<part, streamvars, keyvars, ownervars, raftvars, auditvars>>
  \/ part = "audit" /\ AuditNext /\ UNCHANGED <<part, streamvars, keyvars, ownervars, raftvars, rvars>>

DiskSpec ==
  /\ DiskInit /\ [][DiskNext]_diskvars
  /\ WF_diskvars(part = "stream" /\ KeepsRunning /\ UNCHANGED <<part, keyvars, ownervars, raftvars, rvars, auditvars>>)
  /\ WF_diskvars(part = "raft" /\ Start /\ UNCHANGED <<part, streamvars, keyvars, ownervars, rvars, auditvars>>)

(* What waits is done: a hashed line gets its checkpoint, a node that is   *)
(* down comes up.                                                          *)
EverythingRecovers == PendingIsRecorded /\ RecoveryEnds
=============================================================================
