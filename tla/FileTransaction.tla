--------------------------- MODULE FileTransaction ---------------------------
(***************************************************************************)
(* How `apply` changes the files of one root: the transactions of          *)
(* workflow/pipeline/apply/execute for Copy and Update, for a symlink, for *)
(* Delete and for Move, run one after the other as run_class does, with    *)
(* what they keep of the files they replace or delete.                     *)
(*                                                                         *)
(* One step is one call to the backend, or the reading of a whole file.    *)
(* Between any two of them people and programs save, delete and rewrite    *)
(* files on both roots, the user cancels, the lock of the root is lost and *)
(* the loss is noticed, a call fails before or after it took effect, and   *)
(* the process dies.  Directories, modes, times and the version store are  *)
(* not here.                                                               *)
(***************************************************************************)
EXTENDS Naturals, Sequences, FiniteSets

CONSTANTS
  Path,         \* the paths of files, the same on both roots
  Content,      \* what a file can hold; for a symlink, where it points
  None,         \* there is no such file
  Torn,         \* a copy whose source was rewritten while it was read
  Here,         \* the files of this root at the comparison
  There,        \* the files of the other root at the comparison
  Plan,         \* the operations for this root in the order of their classes
  Central,      \* the trash is a directory outside the root (trash_reaches)
  Fsync,        \* ApplyOptions.fsync
  InPlace,      \* TRUE: an open file may be rewritten after it was renamed
  MaxSaves,     \* bound: changes that people make
  MaxFaults     \* bound: backend errors

MaybeFile == Content \cup {None}

(* `exact`: the operation carries a full digest, so that a changed source  *)
(* is found out; with a sampled one, or with size and time, it may pass.   *)
Operation == [act : {"copy", "link", "delete", "move"}, path : Path, from : Path,
              want : Content, exact : BOOLEAN]

ASSUME PlanAssumption ==
  /\ None \notin Content /\ Torn \notin Content \cup {None}
  /\ Here \in [Path -> MaybeFile] /\ There \in [Path -> MaybeFile]
  /\ Plan \in Seq(Operation)
  /\ \A i \in 1..Len(Plan) : Plan[i].act = "move" => Plan[i].from # Plan[i].path
  /\ Central \in BOOLEAN /\ Fsync \in BOOLEAN /\ InPlace \in BOOLEAN
  /\ MaxSaves \in Nat /\ MaxFaults \in Nat

VARIABLES
  file,       \* the files of this root, by path
  other,      \* the files of the other root
  kept,       \* what the trash directory of this run holds, by path
  hold,       \* the file renamed aside by the running operation
  left,       \* files renamed aside that were left at their hold names
  staged,     \* the temporary file next to the destination
  spare,      \* the temporary file in the trash
  live,       \* the file being copied to the trash is still the one at its path
  k,          \* the operation that runs
  pc,         \* where it is
  result,     \* how each operation ended
  lost,       \* the lock of a root is no longer this run's
  noticed,    \* the run knows
  late,       \* changes to the root since it knows, counted up to 2
  cancelled,  \* the user cancelled
  owned,      \* the contents that nobody but this run may have removed
  written,    \* the contents that were ever in a file
  saves, faults

disk  == <<file, kept, hold, left, late>>
work  == <<staged, spare, live>>
lease == <<lost, noticed>>
user  == <<other, cancelled, owned, written, saves>>
vars  == <<disk, work, lease, user, k, pc, result, faults>>

Op == Plan[k]
Contents(f) == {f[p] : p \in Path} \ {None}
Surviving == Contents(file) \cup Contents(kept) \cup ({hold} \ {None}) \cup left

Init ==
  /\ file = Here /\ other = There
  /\ kept = [p \in Path |-> None] /\ hold = None /\ left = {}
  /\ staged = None /\ spare = None /\ live = FALSE
  /\ k = 1 /\ pc = "next" /\ result = [i \in 1..Len(Plan) |-> "pending"]
  /\ lost = FALSE /\ noticed = FALSE /\ late = 0 /\ cancelled = FALSE
  /\ owned = Contents(Here)
  /\ written = Contents(Here) \cup Contents(There) \cup {Plan[i].want : i \in 1..Len(Plan)}
  /\ saves = 0 /\ faults = 0

-----------------------------------------------------------------------------
(* Parts of steps.                                                         *)

Goto(to) == pc' = to /\ UNCHANGED <<k, result>>
At(from, to) == pc = from /\ Goto(to)

(* record: the outcome of one operation never stops the run.               *)
Finish(outcome) ==
  /\ result' = [result EXCEPT ![k] = outcome]
  /\ k' = k + 1 /\ pc' = "next"

(* One change to the root or to the trash.                                 *)
Mutates == late' = IF noticed /\ late < 2 THEN late + 1 ELSE late

Fault == faults < MaxFaults /\ faults' = faults + 1

(* A call that took effect may still report an error.                      *)
Reported(ok, failed) == (ok /\ UNCHANGED faults) \/ (failed /\ Fault)

Stopping == noticed \/ cancelled

(* Seeded fault: the error path of a move forgets the lock.                *)
MayRollBackAlways(know) == TRUE

(* `know` is the value of the lease_lost flag.                             *)
MayRollBack(know) == ~know

(* The file that was renamed aside stays at its hold name.                 *)
Abandon == left' = left \cup ({hold} \ {None}) /\ hold' = None

(* The error path of an operation that fails where it is: a claimed file   *)
(* goes back to its name unless the lock is lost; a staged file is deleted *)
(* with its handle.                                                        *)
Claimed == {"verify_hold", "dest", "publish", "publishing", "copy_hold", "verify_again",
            "publish_copy", "publishing_copy"}
Unwind(know) ==
  \/ /\ pc \in Claimed /\ MayRollBack(know)
     /\ Goto("rollback") /\ UNCHANGED <<hold, left>>
  \/ /\ pc = "verify_path" /\ MayRollBack(know)
     /\ Goto("unpublish") /\ UNCHANGED <<hold, left>>
  \/ /\ pc = "trash_drop"
     /\ Goto("trash_back") /\ UNCHANGED <<hold, left>>
  \/ /\ pc \in (IF MayRollBack(know) THEN {} ELSE Claimed) \cup {"drop_hold", "drop_checked"}
     /\ Finish("error") /\ Abandon
  \/ /\ pc \in {"open", "stream", "stat", "keep", "keep_rename", "trash_open", "trash_copy",
                "trash_hash", "trash_commit", "trash_committing", "trash_remove",
                "trash_removing", "commit", "committing", "claim", "claiming"} \cup (IF MayRollBack(know) THEN {} ELSE {"verify_path"})
     /\ Finish("error") /\ UNCHANGED <<hold, left>>

Fails ==
  /\ Unwind(noticed)
  /\ UNCHANGED <<file, kept, late, work, lease, user>>

(* Any call to the backend may fail without an effect.                     *)
CallFails ==
  /\ pc \notin {"commit", "trash_commit", "trash_remove", "claim", "publish_copy", "drop_hold"}
  /\ Fault /\ Fails

(* A checkpoint: a noticed loss of the lock, or a cancellation.            *)
CheckpointStops ==
  /\ Stopping
  /\ pc \in {"stream", "keep", "trash_open", "trash_copy", "trash_hash", "trash_commit",
             "trash_remove", "verify_hold", "verify_path", "copy_hold", "verify_again"}
  /\ pc = "keep" => Central
  /\ Fails /\ UNCHANGED faults

Checkpoint(from, to) ==
  /\ At(from, to) /\ ~Stopping
  /\ UNCHANGED <<disk, work, lease, user, faults>>

(* check_before_mutation, wherever the code makes it; it is not atomic     *)
(* with the change that follows.                                           *)
LeaseChecks == {"open", "keep", "commit", "claim", "publish", "publish_copy", "drop_hold"}
CheckFails ==
  /\ pc \in LeaseChecks /\ lost
  /\ pc = "keep" => ~Central
  /\ noticed' = TRUE
  /\ Unwind(TRUE)
  /\ UNCHANGED <<file, kept, late, work, lost, user, faults>>

Checked(from, to) ==
  /\ At(from, to) /\ ~lost
  /\ UNCHANGED <<disk, work, lease, user, faults>>

(* What reading a file to its end returns, when it held `first` at the     *)
(* start and `last` at the end.                                            *)
Reads(first, last) == IF first = last THEN {first} ELSE {first, last, Torn} \ {None}

(* Size, and the digest when there is one, against the plan.               *)
Rejected(c) == c # Op.want
(* Seeded fault: a digest is computed but not compared.                    *)
AcceptedUncompared(c) == c # None
Accepted(c) == c = Op.want \/ ~Op.exact

-----------------------------------------------------------------------------
(* The worker loop of run_class and exec_op.                               *)

Locations ==
  {"next", "stopped", "dead", "open", "stream", "stat", "commit", "committing", "keep",
   "keep_rename", "trash_open", "trash_copy", "trash_hash", "trash_commit",
   "trash_committing", "trash_remove", "trash_removing", "trash_drop", "trash_back",
   "claim", "claiming", "unclaim", "dest", "rollback", "unpublish", "verify_path", "drop_hold",
   "drop_checked"} \cup Claimed

First == [copy |-> "open", link |-> "stat", delete |-> "stat", move |-> "claim"]

(* The temporary files of the operation before it are gone with it.        *)
Begin ==
  /\ pc = "next" /\ k <= Len(Plan) /\ ~Stopping
  /\ Goto(First[Op.act])
  /\ staged' = None /\ spare' = None /\ live' = FALSE
  /\ UNCHANGED <<disk, lease, user, faults>>

Stop ==
  /\ pc = "next" /\ (k > Len(Plan) \/ Stopping)
  /\ Goto("stopped")
  /\ UNCHANGED <<disk, work, lease, user, faults>>

(* Copy and Update: open the staged file and the source, ...               *)
OpenWrite ==
  /\ At("open", "stream") /\ ~lost
  /\ other[Op.path] # None
  /\ staged' = other[Op.path]
  /\ UNCHANGED <<disk, spare, live, lease, user, faults>>

SourceGone ==
  /\ pc = "open" /\ ~lost /\ other[Op.path] = None
  /\ Fails /\ UNCHANGED faults

(* ... stream, reconcile the size and the digest, seal and read back, ...  *)
Stream ==
  /\ pc = "stream" /\ ~Stopping
  /\ \E c \in Reads(staged, other[Op.path]) :
       \/ /\ Accepted(c) /\ Goto("stat") /\ staged' = c
          /\ UNCHANGED <<disk, spare, live, lease, user>>
       \/ Rejected(c) /\ Fails
  /\ UNCHANGED faults

(* ... look whether there is a file to preserve ...                        *)
Stat ==
  /\ pc = "stat"
  /\ IF file[Op.path] # None THEN Goto("keep")
     ELSE IF Op.act = "delete" THEN Finish("done") ELSE Goto("commit")
  /\ UNCHANGED <<disk, work, lease, user, faults>>

(* ... and publish without replacing; make_symlink is such a publication.  *)
CommitChecked == Checked("commit", "committing")

(* Seeded fault: the staged file is published with a replacing rename.     *)
CommitReplacing ==
  /\ pc = "committing"
  /\ file' = [file EXCEPT ![Op.path] = IF Op.act = "link" THEN Op.want ELSE staged]
  /\ Mutates
  /\ Reported(Finish("done"), Finish("error"))
  /\ UNCHANGED <<kept, hold, left, work, lease, user>>

Commit ==
  /\ pc = "committing"
  /\ file[Op.path] = None
  /\ file' = [file EXCEPT ![Op.path] = IF Op.act = "link" THEN Op.want ELSE staged]
  /\ Mutates
  /\ Reported(Finish("done"), Finish("error"))
  /\ UNCHANGED <<kept, hold, left, work, lease, user>>

CommitRefused ==
  /\ pc = "committing" /\ file[Op.path] # None
  /\ Fails /\ UNCHANGED faults

-----------------------------------------------------------------------------
(* preserve: the old file is renamed into the trash, or copied there when  *)
(* the rename crosses volumes.                                             *)

Preserved == IF Op.act = "delete" THEN Finish("done") ELSE Goto("commit")

Keep == IF Central THEN Checkpoint("keep", "keep_rename") ELSE Checked("keep", "keep_rename")

KeepRename ==
  /\ pc = "keep_rename"
  /\ file[Op.path] # None /\ kept[Op.path] = None
  /\ kept' = [kept EXCEPT ![Op.path] = file[Op.path]]
  /\ file' = [file EXCEPT ![Op.path] = None]
  /\ Mutates
  /\ Reported(Preserved, Finish("error"))
  /\ UNCHANGED <<hold, left, work, lease, user>>

(* refuse_existing, rename_noreplace.                                      *)
KeepRefused ==
  /\ pc \in {"keep_rename", "trash_open", "trash_committing"}
  /\ (pc # "trash_committing" /\ file[Op.path] = None) \/ kept[Op.path] # None
  /\ Fails /\ UNCHANGED faults

KeepCrosses ==
  /\ At("keep_rename", "trash_open") /\ Central
  /\ file[Op.path] # None /\ kept[Op.path] = None
  /\ UNCHANGED <<disk, work, lease, user, faults>>

(* copy_to_trash.                                                          *)
TrashOpen ==
  /\ At("trash_open", "trash_copy") /\ ~Stopping
  /\ file[Op.path] # None /\ kept[Op.path] = None
  /\ spare' = file[Op.path] /\ live' = TRUE
  /\ UNCHANGED <<disk, staged, lease, user, faults>>

TrashCopy ==
  /\ At("trash_copy", "trash_hash") /\ ~Stopping
  /\ spare' \in Reads(spare, IF live THEN file[Op.path] ELSE spare)
  /\ UNCHANGED <<disk, staged, live, lease, user, faults>>

(* The open file is read a second time.                                    *)
TrashHash ==
  /\ pc = "trash_hash" /\ ~Stopping
  /\ \/ /\ ~live \/ file[Op.path] = spare
        /\ Goto("trash_commit") /\ UNCHANGED <<disk, work, lease, user>>
     \/ /\ ~live \/ file[Op.path] # spare
        /\ Fails
  /\ UNCHANGED faults

TrashCommitChecked == Checkpoint("trash_commit", "trash_committing")

TrashCommit ==
  /\ pc = "trash_committing" /\ kept[Op.path] = None
  /\ kept' = [kept EXCEPT ![Op.path] = spare]
  /\ Mutates
  /\ Reported(Goto("trash_remove"), Finish("error"))
  /\ UNCHANGED <<file, hold, left, work, lease, user>>

(* remove_open_file: rename aside, compare the identity, delete or rename  *)
(* back.                                                                   *)
TrashRemoveChecked == Checkpoint("trash_remove", "trash_removing")

TrashRemove ==
  /\ At("trash_removing", "trash_drop")
  /\ file[Op.path] # None
  /\ hold' = file[Op.path] /\ file' = [file EXCEPT ![Op.path] = None]
  /\ Mutates
  /\ UNCHANGED <<kept, left, work, lease, user, faults>>

TrashRemoveGone ==
  /\ pc = "trash_removing" /\ file[Op.path] = None
  /\ Fails /\ UNCHANGED faults

TrashDrop ==
  /\ pc = "trash_drop" /\ live
  /\ hold' = None
  /\ Reported(Preserved, Finish("error"))
  /\ UNCHANGED <<file, kept, left, late, work, lease, user>>

TrashDropOther ==
  /\ At("trash_drop", "trash_back") /\ ~live
  /\ UNCHANGED <<disk, work, lease, user, faults>>

TrashBack ==
  /\ pc = "trash_back"
  /\ IF file[Op.path] = None
     THEN file' = [file EXCEPT ![Op.path] = hold] /\ hold' = None /\ UNCHANGED left
     ELSE Abandon /\ UNCHANGED file
  /\ Finish("error")
  /\ UNCHANGED <<kept, late, work, lease, user, faults>>

-----------------------------------------------------------------------------
(* Move: claim the file under a hold name, verify it there, ...            *)

ClaimChecked == Checked("claim", "claiming")

ClaimMoveSource ==
  /\ pc = "claiming" /\ file[Op.from] # None
  /\ file' = [file EXCEPT ![Op.from] = None]
  /\ Mutates
  /\ \/ hold' = file[Op.from] /\ Goto("verify_hold") /\ UNCHANGED <<left, faults>>
     \/ Fault /\ Fsync /\ hold' = file[Op.from] /\ Goto("unclaim") /\ UNCHANGED left
     \/ Fault /\ left' = left \cup {file[Op.from]} /\ Finish("error") /\ UNCHANGED hold
  /\ UNCHANGED <<kept, work, lease, user>>

ClaimRefused ==
  /\ pc = "claiming" /\ file[Op.from] = None
  /\ Fails /\ UNCHANGED faults

VerifyHold ==
  /\ pc \in {"verify_hold", "verify_again"} /\ ~Stopping
  /\ \/ /\ Accepted(hold) /\ Goto(IF pc = "verify_hold" THEN "dest" ELSE "publish_copy")
        /\ UNCHANGED <<disk, work, lease, user>>
     \/ Rejected(hold) /\ Fails
  /\ UNCHANGED faults

(* ... refuse a destination that appeared since the comparison, ...        *)
Dest ==
  /\ pc = "dest"
  /\ IF file[Op.path] = None
     THEN Goto("publish") /\ UNCHANGED <<disk, work, lease, user>>
     ELSE Fails
  /\ UNCHANGED faults

PublishChecked == Checked("publish", "publishing")

(* ... rename the hold to its destination ...                              *)
Publish ==
  /\ pc = "publishing" /\ file[Op.path] = None
  /\ file' = [file EXCEPT ![Op.path] = hold] /\ hold' = None
  /\ Mutates
  /\ Reported(Goto("verify_path"),
              IF MayRollBack(noticed) THEN Goto("rollback") ELSE Finish("error"))
  /\ UNCHANGED <<kept, left, work, lease, user>>

PublishRefused ==
  /\ pc \in {"publishing", "publishing_copy"} /\ file[Op.path] # None
  /\ Fails /\ UNCHANGED faults

PublishCrosses ==
  /\ At("publishing", "copy_hold")
  /\ UNCHANGED <<disk, work, lease, user, faults>>

(* ... and verify it once more under its new name, or put it back.         *)
VerifyPath ==
  /\ pc = "verify_path" /\ ~Stopping
  /\ \/ /\ file[Op.path] # None /\ Accepted(file[Op.path]) /\ Finish("done")
        /\ UNCHANGED <<disk, work, lease, user>>
     \/ Rejected(file[Op.path]) /\ Fails
  /\ UNCHANGED faults

(* rollback_claim, of a hold and of a published destination; a claim whose *)
(* directory cannot be synced is rolled back without asking for the lock.  *)
Rollback ==
  /\ pc \in {"rollback", "unclaim"}
  /\ IF hold # None /\ file[Op.from] = None
     THEN file' = [file EXCEPT ![Op.from] = hold] /\ hold' = None /\ UNCHANGED left /\ Mutates
     ELSE Abandon /\ UNCHANGED <<file, late>>
  /\ Finish("error")
  /\ UNCHANGED <<kept, work, lease, user, faults>>

Unpublish ==
  /\ pc = "unpublish"
  /\ IF file[Op.path] # None /\ file[Op.from] = None
     THEN /\ file' = [file EXCEPT ![Op.from] = file[Op.path], ![Op.path] = None]
          /\ Mutates
     ELSE UNCHANGED <<file, late>>
  /\ Finish("error")
  /\ UNCHANGED <<kept, hold, left, work, lease, user, faults>>

RollbackFails ==
  /\ pc \in {"rollback", "unclaim", "unpublish", "trash_back"} /\ Fault
  /\ Abandon /\ Finish("error")
  /\ UNCHANGED <<file, kept, late, work, lease, user>>

(* Across volumes: copy_claimed_move, then only the hold is removed.       *)
CopyHold ==
  /\ At("copy_hold", "verify_again") /\ ~Stopping
  /\ staged' = hold
  /\ UNCHANGED <<disk, spare, live, lease, user, faults>>

PublishCopyChecked == Checked("publish_copy", "publishing_copy")

PublishCopy ==
  /\ pc = "publishing_copy" /\ file[Op.path] = None
  /\ file' = [file EXCEPT ![Op.path] = staged]
  /\ Mutates
  /\ Reported(Goto("drop_hold") /\ UNCHANGED <<hold, left>>, Unwind(noticed))
  /\ UNCHANGED <<kept, work, lease, user>>

DropChecked == Checked("drop_hold", "drop_checked")

DropHold ==
  /\ pc = "drop_checked"
  /\ hold' = None /\ Mutates
  /\ Reported(Finish("done"), Finish("error"))
  /\ UNCHANGED <<file, kept, left, work, lease, user>>

-----------------------------------------------------------------------------
(* Everybody else.                                                         *)

Running == pc \notin {"stopped", "dead"}
Copying == {"trash_copy", "trash_hash", "trash_commit", "trash_committing",
            "trash_remove", "trash_removing"}
Fresh == Content \ written
Saves(c) ==
  /\ saves < MaxSaves /\ saves' = saves + 1
  /\ c = CHOOSE x \in Fresh : TRUE
  /\ written' = written \cup {c}
Elsewhere == <<kept, left, late, staged, spare, lease, k, pc, result, faults, cancelled>>

(* A program saves a file by renaming a new one over it.                   *)
Save(p) ==
  /\ Running /\ Fresh # {}
  /\ \E c \in Fresh : Saves(c) /\ file' = [file EXCEPT ![p] = c]
                               /\ owned' = (owned \ {file[p]}) \cup {c}
  /\ live' = (live /\ ~(pc \in Copying /\ p = Op.path))
  /\ UNCHANGED <<other, hold, Elsewhere>>

Delete(p) ==
  /\ Running /\ file[p] # None /\ saves < MaxSaves
  /\ saves' = saves + 1
  /\ file' = [file EXCEPT ![p] = None]
  /\ owned' = owned \ {file[p]}
  /\ live' = (live /\ ~(pc \in Copying /\ p = Op.path))
  /\ UNCHANGED <<other, written, hold, Elsewhere>>

(* A program that has a file open rewrites it, wherever its name is now.   *)
Rewrite(p) ==
  /\ Running /\ InPlace /\ file[p] # None /\ Fresh # {}
  /\ \E c \in Fresh : Saves(c) /\ file' = [file EXCEPT ![p] = c]
                               /\ owned' = (owned \ {file[p]}) \cup {c}
  /\ UNCHANGED <<other, live, hold, Elsewhere>>

RewriteHeld ==
  /\ Running /\ InPlace /\ hold # None /\ Fresh # {}
  /\ \E c \in Fresh : Saves(c) /\ hold' = c /\ owned' = (owned \ {hold}) \cup {c}
  /\ UNCHANGED <<other, file, live, Elsewhere>>

SaveOther(p) ==
  /\ Running /\ Fresh # {}
  /\ \E c \in Fresh : Saves(c) /\ other' = [other EXCEPT ![p] = c]
  /\ UNCHANGED <<file, hold, live, owned, Elsewhere>>

DeleteOther(p) ==
  /\ Running /\ other[p] # None /\ saves < MaxSaves
  /\ saves' = saves + 1 /\ other' = [other EXCEPT ![p] = None]
  /\ UNCHANGED <<file, hold, live, owned, written, Elsewhere>>

Cancel ==
  /\ Running /\ ~cancelled
  /\ cancelled' = TRUE
  /\ UNCHANGED <<disk, work, lease, other, owned, written, saves, k, pc, result, faults>>

LoseLease ==
  /\ Running /\ ~lost /\ Fault
  /\ lost' = TRUE
  /\ UNCHANGED <<disk, work, noticed, user, k, pc, result>>

(* The heartbeat thread or the watcher of ApplyLeaseGuard.                 *)
NoticeLoss ==
  /\ Running /\ lost /\ ~noticed
  /\ noticed' = TRUE
  /\ UNCHANGED <<disk, work, lost, user, k, pc, result, faults>>

Crash ==
  /\ Running /\ Fault
  /\ Goto("dead")
  /\ UNCHANGED <<disk, work, lease, user>>

CopyStep == OpenWrite \/ SourceGone \/ Stream \/ Stat \/ Commit \/ CommitRefused
              \/ CommitChecked
KeepStep == Keep \/ KeepRename \/ KeepRefused \/ KeepCrosses \/ TrashOpen \/ TrashCopy
              \/ TrashHash \/ TrashCommitChecked \/ TrashCommit \/ TrashRemoveChecked
              \/ TrashRemove \/ TrashRemoveGone \/ TrashDrop \/ TrashDropOther \/ TrashBack
MoveStep == ClaimChecked \/ ClaimMoveSource \/ ClaimRefused \/ VerifyHold \/ Dest
              \/ PublishChecked \/ Publish \/ PublishRefused \/ PublishCrosses \/ VerifyPath \/ Rollback
              \/ Unpublish \/ RollbackFails \/ CopyHold \/ PublishCopyChecked \/ PublishCopy
              \/ DropChecked \/ DropHold
Engine == Begin \/ Stop \/ CallFails \/ CheckpointStops \/ CheckFails
            \/ CopyStep \/ KeepStep \/ MoveStep
People == \/ \E p \in Path : Save(p) \/ Delete(p) \/ Rewrite(p) \/ SaveOther(p) \/ DeleteOther(p)
          \/ RewriteHeld \/ Cancel

Next == Engine \/ People \/ LoseLease \/ NoticeLoss \/ Crash

Spec == Init /\ [][Next]_vars

-----------------------------------------------------------------------------
(* Properties.                                                             *)

TypeOK ==
  /\ file \in [Path -> MaybeFile \cup {Torn}] /\ other \in [Path -> MaybeFile]
  /\ kept \in [Path -> MaybeFile \cup {Torn}] /\ hold \in MaybeFile \cup {Torn}
  /\ left \subseteq Content \cup {Torn}
  /\ staged \in MaybeFile \cup {Torn} /\ spare \in MaybeFile \cup {Torn} /\ live \in BOOLEAN
  /\ k \in 1..(Len(Plan) + 1)
  /\ pc \in Locations
  /\ pc \notin {"next", "stopped", "dead"} => k <= Len(Plan)
  /\ result \in [1..Len(Plan) -> {"pending", "done", "error"}]
  /\ lost \in BOOLEAN /\ noticed \in BOOLEAN /\ late \in 0..2 /\ cancelled \in BOOLEAN
  /\ owned \subseteq Content /\ written \subseteq Content
  /\ saves \in 0..MaxSaves /\ faults \in 0..MaxFaults

(* Nothing that was on the root at the comparison, or that people saved    *)
(* there since, is gone unless people removed it: it is at its path, in    *)
(* the trash or at a hold name.  This is the code's order of preserving    *)
(* and publishing without ever replacing, in every error path.             *)
NothingLost == owned \subseteq Surviving

(* An operation that reports success and carries a full digest has put the *)
(* content of the plan at its path, whatever was rewritten while it read,  *)
(* verified and renamed.                                                   *)
DoneIsVerified ==
  [][\A i \in 1..Len(Plan) :
       result[i] # "done" /\ result'[i] = "done" /\ Plan[i].exact /\ Plan[i].act \in {"copy", "move"}
         => \/ file'[Plan[i].path] = Plan[i].want
            \/ Plan[i].act = "move" /\ saves > 0 /\ pc = "drop_checked"]_vars

(* Once the loss of the lock is known, the run completes at most the one   *)
(* change that was checked before, and takes back a claim that could not   *)
(* be synced.                                                              *)
LossStopsMutation == [][late' = late \/ late = 0 \/ pc = "unclaim"]_vars

(* "Stopping before further mutations" (apply/lease.rs:46), with nothing   *)
(* but the change that was checked before: move_file.rs:134 leaves a file  *)
(* at its hold name "instead of racing a rollback".                        *)
NoRollbackAfterLoss == late <= 1

(* What apply/mod.rs promises of an interruption at any moment: the target *)
(* is as it was or as the plan intended.                                   *)
NeverHalfWay ==
  pc = "dead" /\ saves = 0 =>
    \A i \in 1..Len(Plan) :
      Plan[i].act = "copy" => file[Plan[i].path] \in {Here[Plan[i].path], Plan[i].want}

(* A test of preservation.rs is named "a source change during cross volume *)
(* preservation is not removed".                                           *)
SourceChangeIsNotRemoved ==
  [][pc = "trash_drop" /\ hold' = None /\ left' = left /\ file' = file => hold \in Contents(kept)]_vars
=============================================================================
