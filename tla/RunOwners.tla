----------------------------- MODULE RunOwners -----------------------------
(***************************************************************************)
(* Who opened a run: a map in memory, taken under its lock, and a journal  *)
(* that the first claim of a run is appended to after the lock is gone.    *)
(* Several calls claim at once; appends and the rewrite at start may fail; *)
(* the process may die at any of these steps and starts from the file.     *)
(***************************************************************************)
EXTENDS Integers, Sequences, FiniteSets, SequencesExt

CONSTANTS OwnedRuns, Principals, Calls, Nobody, MaxFaults, MaxKills

ASSUME RunOwnersAssumption ==
  /\ {MaxFaults, MaxKills} \subseteq Nat /\ Nobody \notin Principals
  /\ IsFiniteSet(OwnedRuns)

VARIABLES
  owners,    \* RunOwners.owners, Nobody for a run not in it
  claims,    \* each call's claim: [run, who, stage]
  file,      \* the journal's lines: [run, owner], owner Nobody if unreadable
  ragged,    \* the file ends inside a line
  unlinked,  \* the handle appends to a file that has no name any more
  serving,   \* the process runs
  letin,     \* history: who was let in to each run, in this life
  kept,      \* history: the owners that a claim was told are on disk
  hurt,      \* history: a write failed in this life
  faults, kills

ownervars == <<owners, claims, file, ragged, unlinked, serving, letin, kept, hurt, faults, kills>>

NoClaim == [run |-> Nobody, who |-> Nobody, stage |-> "free"]

OwnersInit ==
  /\ owners = [r \in OwnedRuns |-> Nobody]
  /\ claims = [c \in Calls |-> NoClaim]
  /\ file = <<>> /\ ragged = FALSE /\ unlinked = FALSE /\ serving = FALSE
  /\ letin = [r \in OwnedRuns |-> {}]
  /\ kept = [r \in OwnedRuns |-> {}]
  /\ hurt = FALSE /\ faults = 0 /\ kills = 0

Fault == faults < MaxFaults /\ faults' = faults + 1 /\ hurt' = TRUE

LetIn(r, p) == letin' = [letin EXCEPT ![r] = @ \cup {p}]

-----------------------------------------------------------------------------
(* Mutant: the run is entered in the map only with its line, later. *)
claim_entered_late(c, r, p) ==
  LET seen == IF \E d \in Calls : claims[d].run = r THEN Nobody ELSE owners[r]
  IN  /\ serving /\ claims[c] = NoClaim
      /\ \/ /\ seen = Nobody
            /\ owners' = [owners EXCEPT ![r] = p]
            /\ claims' = [claims EXCEPT ![c] = [run |-> r, who |-> p, stage |-> "appending"]]
            /\ UNCHANGED letin
         \/ seen = p /\ LetIn(r, p) /\ UNCHANGED <<owners, claims>>
         \/ seen \notin {Nobody, p} /\ UNCHANGED <<owners, claims, letin>>
      /\ UNCHANGED <<file, ragged, unlinked, serving, kept, hurt, faults, kills>>

(* claim, under the lock.  Own and Elsewhere are its answer; an insertion  *)
(* still has its line to write.                                            *)
claim(c, r, p) ==
  /\ serving /\ claims[c] = NoClaim
  /\ \/ /\ owners[r] = Nobody
        /\ owners' = [owners EXCEPT ![r] = p]
        /\ claims' = [claims EXCEPT ![c] = [run |-> r, who |-> p, stage |-> "appending"]]
        /\ UNCHANGED letin
     \/ owners[r] = p /\ LetIn(r, p) /\ UNCHANGED <<owners, claims>>
     \/ owners[r] \notin {Nobody, p} /\ UNCHANGED <<owners, claims, letin>>
  /\ UNCHANGED <<file, ragged, unlinked, serving, kept, hurt, faults, kills>>

(* The file after a whole line: fused with what a torn one left of itself. *)
Lined(r, p) ==
  IF unlinked THEN file
  ELSE Append(file, IF ragged THEN [run |-> r, owner |-> Nobody] ELSE [run |-> r, owner |-> p])

(* append, and the answer Opened: whatever became of the line, whole and   *)
(* unsynced, torn or not there.                                            *)
append_owner(c) ==
  LET r == claims[c].run  p == claims[c].who
  IN  /\ serving /\ claims[c].stage = "appending"
      /\ claims' = [claims EXCEPT ![c] = NoClaim]
      /\ LetIn(r, p)
      /\ \/ /\ file' = Lined(r, p)
            /\ ragged' = (ragged /\ unlinked)
            /\ kept' = IF hurt THEN kept ELSE [kept EXCEPT ![r] = @ \cup {p}]
            /\ UNCHANGED <<hurt, faults>>
         \/ Fault /\ file' = Lined(r, p) /\ ragged' = (ragged /\ unlinked) /\ UNCHANGED kept
         \/ Fault /\ ragged' = ~unlinked /\ UNCHANGED <<file, kept>>
         \/ Fault /\ UNCHANGED <<file, ragged, kept>>
      /\ UNCHANGED <<owners, unlinked, serving, kills>>

(* The process dies.  A line it was writing is there, in part or not.      *)
Kill ==
  /\ serving /\ kills < MaxKills
  /\ kills' = kills + 1 /\ serving' = FALSE
  /\ owners' = [r \in OwnedRuns |-> Nobody]
  /\ claims' = [c \in Calls |-> NoClaim]
  /\ letin' = [r \in OwnedRuns |-> {}]
  /\ unlinked' = FALSE /\ hurt' = FALSE
  /\ \/ UNCHANGED <<file, ragged>>
     \/ \E c \in Calls :
          /\ claims[c].stage = "appending" /\ ~unlinked
          /\ \/ file' = Lined(claims[c].run, claims[c].who) /\ ragged' = FALSE
             \/ ragged' = TRUE /\ UNCHANGED file
  /\ UNCHANGED <<kept, faults>>

(* read and distinct: of the lines that name an owner, the first for each  *)
(* run.                                                                    *)
Names(i, r) == file[i].run = r /\ file[i].owner # Nobody
distinct ==
  [r \in OwnedRuns |->
     IF \E i \in DOMAIN file : Names(i, r)
     THEN file[CHOOSE i \in DOMAIN file : Names(i, r) /\ \A j \in 1 .. i - 1 : ~Names(j, r)].owner
     ELSE Nobody]

(* rewrite: one line for each of those; the order of different runs is not *)
(* modelled, nothing reads it.                                             *)
rewritten ==
  SetToSeq({[run |-> r, owner |-> distinct[r]] : r \in {q \in OwnedRuns : distinct[q] # Nobody}})

(* Mutant: a torn final line is left as it is. *)
open_ragged ==
  /\ ~serving
  /\ serving' = TRUE
  /\ owners' = distinct
  /\ UNCHANGED <<file, ragged, unlinked, hurt, faults>>
  /\ UNCHANGED <<claims, letin, kept, kills>>

(* Journal::open and replay_at_startup: a torn line is ended, the owners   *)
(* are loaded, the file is rewritten with what was kept.  A rewrite that   *)
(* fails leaves the file, or leaves the handle on the file it replaced.    *)
open_and_replay ==
  /\ ~serving
  /\ serving' = TRUE
  /\ owners' = distinct
  /\ ragged' = FALSE
  /\ \/ file' = rewritten /\ unlinked' = FALSE /\ UNCHANGED <<hurt, faults>>
     \/ Fault /\ file' = rewritten /\ unlinked' = TRUE
     \/ Fault /\ file' = (IF ragged THEN Append(file, [run |-> Nobody, owner |-> Nobody]) ELSE file) /\ unlinked' = FALSE
  /\ UNCHANGED <<claims, letin, kept, kills>>

OwnersNext ==
  \/ \E c \in Calls : append_owner(c) \/ \E r \in OwnedRuns, p \in Principals : claim(c, r, p)
  \/ Kill
  \/ open_and_replay

OwnersSpec == OwnersInit /\ [][OwnersNext]_ownervars
-----------------------------------------------------------------------------
(* In one life of the process a run lets in one principal, however the     *)
(* claims interleave.                                                      *)
OneOwnerPerLife == \A r \in OwnedRuns : Cardinality(letin[r]) <= 1

(* A run whose opener was answered after its line was written lets in      *)
(* nobody else, in this life and in every later one: as long as no write   *)
(* of that life had failed before.                                         *)
OwnerForGood == \A r \in OwnedRuns : kept[r] # {} => letin[r] \subseteq kept[r] /\ Cardinality(kept[r]) = 1

(* The owner of a run, whole: one in a life of the process, and the same   *)
(* one in every life once its line is on disk.                             *)
OneOwner == OneOwnerPerLife /\ OwnerForGood
=============================================================================
