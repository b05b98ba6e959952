---------------------------- MODULE PipelineProofs ----------------------------
(***************************************************************************)
(* Proofs about the steps of a job that touch the disks: how the           *)
(* transaction of one file goes, over whatever fails, intervenes or dies   *)
(* (FileTransaction), what a scan reports and remembers (ScanCache), and   *)
(* how an Apply works through its plan (ApplyPool).                        *)
(*                                                                         *)
(* The three specifications share no variable; they are taken together     *)
(* here because they are one pipeline.                                     *)
(***************************************************************************)
EXTENDS FileTransaction, ScanCache, ApplyPool, FiniteSetTheorems, TLAPS

(***************************************************************************)
(* The transaction of one file: whatever the plan, whoever saves or        *)
(* deletes files meanwhile, whichever calls fail and wherever the process  *)
(* dies, no content is lost, as long as a file is not rewritten through an *)
(* open handle.                                                            *)
(***************************************************************************)
WhileHeld == Claimed \cup {"trash_drop", "trash_back", "drop_hold", "drop_checked"}

(* The hold name is in use exactly where the code thinks it is.            *)
HoldKnown ==
  /\ pc \in WhileHeld => hold # None
  /\ hold # None => pc \in WhileHeld \cup {"rollback", "unclaim", "dead"}

(* What is published across volumes is what the hold still has.            *)
CopyFaithful ==
  pc \in {"verify_again", "publish_copy", "publishing_copy"} => staged = hold

(* A hold that is about to be removed is of no use any more.               *)
DropSafe ==
  pc \in {"drop_hold", "drop_checked"} /\ hold \in owned => hold \in Contents(file)

(* What is removed after a copy to the trash is what the trash has.        *)
TrashFaithful ==
  live =>
    /\ pc \in {"trash_commit", "trash_committing", "trash_remove", "trash_removing"}
         => file[Op.path] = spare
    /\ pc \in {"trash_remove", "trash_removing"} => kept[Op.path] = spare
    /\ pc = "trash_drop" => hold \in Contents(kept)

Safe == NothingLost /\ HoldKnown /\ CopyFaithful /\ DropSafe /\ TrashFaithful

IInv == TypeOK /\ Safe

-----------------------------------------------------------------------------
ControlType ==
  /\ k \in 1..(Len(Plan) + 1)
  /\ pc \in Locations
  /\ pc \notin {"next", "stopped", "dead"} => k <= Len(Plan)
  /\ result \in [1..Len(Plan) -> {"pending", "done", "error"}]

LEMMA OpType ==
  ASSUME TypeOK, k <= Len(Plan)
  PROVE  /\ Op \in Operation /\ Op.path \in Path /\ Op.from \in Path /\ Op.want \in Content
         /\ Op.act \in {"copy", "link", "delete", "move"}
<1>1. Op \in Operation
  BY PlanAssumption DEF TypeOK, Op
<1> QED
  BY <1>1 DEF Operation

LEMMA GotoType ==
  ASSUME TypeOK, NEW to \in Locations, Goto(to),
         to \in {"next", "stopped", "dead"} \/ k <= Len(Plan)
  PROVE  ControlType'
BY DEF TypeOK, ControlType, Goto

LEMMA FinishType ==
  ASSUME TypeOK, k <= Len(Plan), NEW verdict \in {"done", "error"}, Finish(verdict)
  PROVE  ControlType'
<1>1. Len(Plan) \in Nat
  BY PlanAssumption
<1>2. pc' \in Locations
  BY DEF Finish, Locations
<1>3. result' \in [1..Len(Plan) -> {"pending", "done", "error"}]
  BY DEF Finish, TypeOK
<1> QED
  BY <1>1, <1>2, <1>3 DEF Finish, TypeOK, ControlType

(* The error path of any operation.                                        *)
LEMMA UnwindType ==
  ASSUME TypeOK, NEW know \in BOOLEAN, Unwind(know)
  PROVE  /\ ControlType'
         /\ hold' \in MaybeFile \cup {Torn} /\ left' \subseteq Content \cup {Torn}
<1>1. k <= Len(Plan)
  BY DEF Unwind, Claimed, TypeOK, Locations
<1>2. {"rollback", "unpublish", "trash_back"} \subseteq Locations
  BY DEF Locations
<1>3. ControlType'
  BY <1>1, <1>2, GotoType, FinishType DEF Unwind
<1>4. hold' \in MaybeFile \cup {Torn} /\ left' \subseteq Content \cup {Torn}
  BY DEF Unwind, Abandon, TypeOK, MaybeFile
<1> QED
  BY <1>3, <1>4

(* Every variable keeps its type.                                          *)
LEMMA TypeStep == ASSUME TypeOK, [Next]_vars PROVE TypeOK'
<1> USE PlanAssumption DEF disk, work, lease, user
<1>a. ASSUME ControlType', UNCHANGED <<other, written, owned>>,
             file' \in [Path -> MaybeFile \cup {Torn}], kept' \in [Path -> MaybeFile \cup {Torn}],
             hold' \in MaybeFile \cup {Torn}, left' \subseteq Content \cup {Torn},
             staged' \in MaybeFile \cup {Torn}, spare' \in MaybeFile \cup {Torn}, live' \in BOOLEAN,
             lost' \in BOOLEAN, noticed' \in BOOLEAN, late' \in 0..2, cancelled' \in BOOLEAN,
             saves' \in 0..MaxSaves, faults' \in 0..MaxFaults
      PROVE  TypeOK'
  BY <1>a DEF TypeOK, ControlType
<1>1. ASSUME Begin PROVE TypeOK'
  <2>1. First[Op.act] \in {"open", "stat", "claim"}
    BY <1>1, OpType DEF Begin, First
  <2>2. First[Op.act] \in Locations
    BY <2>1 DEF Locations
  <2>3. ControlType'
    BY <1>1, <2>2, GotoType DEF Begin
  <2> QED
    BY <1>1, <1>a, <2>3 DEF Begin, TypeOK, MaybeFile
<1>2. ASSUME Stop PROVE TypeOK'
  BY <1>2, <1>a, GotoType
     DEF Stop, TypeOK, Locations, Claimed, MaybeFile
<1>3. ASSUME CallFails PROVE TypeOK'
  BY <1>3, <1>a, UnwindType
     DEF CallFails, Fault, Fails, TypeOK, Locations, Claimed, MaybeFile
<1>4. ASSUME CheckpointStops PROVE TypeOK'
  BY <1>4, <1>a, UnwindType
     DEF CheckpointStops, Fails, TypeOK, Locations, Claimed, MaybeFile
<1>5. ASSUME CheckFails PROVE TypeOK'
  BY <1>5, <1>a, UnwindType
     DEF CheckFails, LeaseChecks, TypeOK, Locations, Claimed, MaybeFile
<1>6. ASSUME OpenWrite PROVE TypeOK'
  BY <1>6, <1>a, OpType, GotoType
     DEF OpenWrite, At, TypeOK, Locations, Claimed, MaybeFile
<1>7. ASSUME SourceGone PROVE TypeOK'
  BY <1>7, <1>a, OpType, UnwindType
     DEF SourceGone, Fails, TypeOK, Locations, Claimed, MaybeFile
<1>8. ASSUME Stream PROVE TypeOK'
  BY <1>8, <1>a, OpType, GotoType, UnwindType
     DEF Stream, Reads, Fails, TypeOK, Locations, Claimed, MaybeFile
<1>9. ASSUME Stat PROVE TypeOK'
  BY <1>9, <1>a, OpType, GotoType, FinishType
     DEF Stat, TypeOK, Locations, Claimed, MaybeFile
<1>10. ASSUME CommitChecked PROVE TypeOK'
  BY <1>10, <1>a, GotoType
     DEF CommitChecked, Checked, At, TypeOK, Locations, Claimed, MaybeFile
<1>11. ASSUME Commit PROVE TypeOK'
  BY <1>11, <1>a, OpType, FinishType
     DEF Commit, Mutates, Reported, Fault, TypeOK, Locations, Claimed, MaybeFile
<1>12. ASSUME CommitRefused PROVE TypeOK'
  BY <1>12, <1>a, OpType, UnwindType
     DEF CommitRefused, Fails, TypeOK, Locations, Claimed, MaybeFile
<1>13. ASSUME Keep PROVE TypeOK'
  BY <1>13, <1>a, GotoType
     DEF Keep, Checkpoint, Checked, At, TypeOK, Locations, Claimed, MaybeFile
<1>14. ASSUME KeepRename PROVE TypeOK'
  BY <1>14, <1>a, OpType, GotoType, FinishType
     DEF KeepRename, Mutates, Reported, Preserved, Fault, TypeOK, Locations,
         Claimed, MaybeFile
<1>15. ASSUME KeepRefused PROVE TypeOK'
  BY <1>15, <1>a, OpType, UnwindType
     DEF KeepRefused, Fails, TypeOK, Locations, Claimed, MaybeFile
<1>16. ASSUME KeepCrosses PROVE TypeOK'
  BY <1>16, <1>a, OpType, GotoType
     DEF KeepCrosses, At, TypeOK, Locations, Claimed, MaybeFile
<1>17. ASSUME TrashOpen PROVE TypeOK'
  BY <1>17, <1>a, OpType, GotoType
     DEF TrashOpen, At, TypeOK, Locations, Claimed, MaybeFile
<1>18. ASSUME TrashCopy PROVE TypeOK'
  BY <1>18, <1>a, OpType, GotoType
     DEF TrashCopy, At, Reads, TypeOK, Locations, Claimed, MaybeFile
<1>19. ASSUME TrashHash PROVE TypeOK'
  BY <1>19, <1>a, OpType, GotoType, UnwindType
     DEF TrashHash, Fails, TypeOK, Locations, Claimed, MaybeFile
<1>20. ASSUME TrashCommitChecked PROVE TypeOK'
  BY <1>20, <1>a, GotoType
     DEF TrashCommitChecked, Checkpoint, At, TypeOK, Locations, Claimed, MaybeFile
<1>21. ASSUME TrashCommit PROVE TypeOK'
  BY <1>21, <1>a, OpType, GotoType, FinishType
     DEF TrashCommit, Mutates, Reported, Fault, TypeOK, Locations, Claimed,
         MaybeFile
<1>22. ASSUME TrashRemoveChecked PROVE TypeOK'
  BY <1>22, <1>a, GotoType
     DEF TrashRemoveChecked, Checkpoint, At, TypeOK, Locations, Claimed, MaybeFile
<1>23. ASSUME TrashRemove PROVE TypeOK'
  BY <1>23, <1>a, OpType, GotoType
     DEF TrashRemove, At, Mutates, TypeOK, Locations, Claimed, MaybeFile
<1>24. ASSUME TrashRemoveGone PROVE TypeOK'
  BY <1>24, <1>a, OpType, UnwindType
     DEF TrashRemoveGone, Fails, TypeOK, Locations, Claimed, MaybeFile
<1>25. ASSUME TrashDrop PROVE TypeOK'
  BY <1>25, <1>a, OpType, GotoType, FinishType
     DEF TrashDrop, Reported, Preserved, Fault, TypeOK, Locations, Claimed,
         MaybeFile
<1>26. ASSUME TrashDropOther PROVE TypeOK'
  BY <1>26, <1>a, GotoType
     DEF TrashDropOther, At, TypeOK, Locations, Claimed, MaybeFile
<1>27. ASSUME TrashBack PROVE TypeOK'
  <2>1. ControlType' /\ Op.path \in Path
    BY <1>27, FinishType, OpType DEF TrashBack, TypeOK, Locations, Claimed
  <2>2. /\ file' \in [Path -> MaybeFile \cup {Torn}]
        /\ left' \subseteq Content \cup {Torn} /\ hold' \in MaybeFile \cup {Torn}
    BY <1>27, <2>1 DEF TrashBack, Abandon, TypeOK, MaybeFile
  <2> QED
    BY <1>27, <1>a, <2>1, <2>2 DEF TrashBack, TypeOK
<1>28. ASSUME ClaimChecked PROVE TypeOK'
  BY <1>28, <1>a, GotoType
     DEF ClaimChecked, Checked, At, TypeOK, Locations, Claimed, MaybeFile
<1>29. ASSUME ClaimMoveSource PROVE TypeOK'
  BY <1>29, <1>a, OpType, GotoType, FinishType
     DEF ClaimMoveSource, Mutates, Fault, TypeOK, Locations, Claimed, MaybeFile
<1>30. ASSUME ClaimRefused PROVE TypeOK'
  BY <1>30, <1>a, OpType, UnwindType
     DEF ClaimRefused, Fails, TypeOK, Locations, Claimed, MaybeFile
<1>31. ASSUME VerifyHold PROVE TypeOK'
  BY <1>31, <1>a, OpType, GotoType, UnwindType
     DEF VerifyHold, Fails, TypeOK, Locations, Claimed, MaybeFile
<1>32. ASSUME Dest PROVE TypeOK'
  BY <1>32, <1>a, OpType, GotoType, UnwindType
     DEF Dest, Fails, TypeOK, Locations, Claimed, MaybeFile
<1>33. ASSUME PublishChecked PROVE TypeOK'
  BY <1>33, <1>a, GotoType
     DEF PublishChecked, Checked, At, TypeOK, Locations, Claimed, MaybeFile
<1>34. ASSUME Publish PROVE TypeOK'
  BY <1>34, <1>a, OpType, GotoType, FinishType
     DEF Publish, Mutates, Reported, Fault, TypeOK, Locations, Claimed, MaybeFile
<1>35. ASSUME PublishRefused PROVE TypeOK'
  BY <1>35, <1>a, OpType, UnwindType
     DEF PublishRefused, Fails, TypeOK, Locations, Claimed, MaybeFile
<1>36. ASSUME PublishCrosses PROVE TypeOK'
  BY <1>36, <1>a, GotoType
     DEF PublishCrosses, At, TypeOK, Locations, Claimed, MaybeFile
<1>37. ASSUME VerifyPath PROVE TypeOK'
  BY <1>37, <1>a, OpType, GotoType, FinishType, UnwindType
     DEF VerifyPath, Fails, TypeOK, Locations, Claimed, MaybeFile
<1>38. ASSUME Rollback PROVE TypeOK'
  <2>1. ControlType' /\ Op.from \in Path
    BY <1>38, FinishType, OpType DEF Rollback, TypeOK, Locations, Claimed
  <2>2. /\ file' \in [Path -> MaybeFile \cup {Torn}]
        /\ left' \subseteq Content \cup {Torn} /\ hold' \in MaybeFile \cup {Torn}
    <3>1. CASE hold # None /\ file[Op.from] = None
      <4>1. file' = [file EXCEPT ![Op.from] = hold] /\ hold' = None /\ left' = left
        BY <1>38, <3>1 DEF Rollback
      <4> QED
        BY <2>1, <4>1 DEF TypeOK, MaybeFile
    <3>2. CASE ~(hold # None /\ file[Op.from] = None)
      <4>1. left' = left \cup ({hold} \ {None}) /\ hold' = None /\ file' = file
        BY <1>38, <3>2 DEF Rollback, Abandon
      <4> QED
        BY <4>1 DEF TypeOK, MaybeFile
    <3> QED
      BY <3>1, <3>2
  <2>3. late' \in 0..2
    BY <1>38 DEF Rollback, Mutates, TypeOK
  <2> QED
    BY <1>38, <1>a, <2>1, <2>2, <2>3 DEF Rollback, TypeOK
<1>39. ASSUME Unpublish PROVE TypeOK'
  <2>1. ControlType' /\ Op.from \in Path /\ Op.path \in Path
    BY <1>39, FinishType, OpType DEF Unpublish, TypeOK, Locations, Claimed
  <2>2. file' \in [Path -> MaybeFile \cup {Torn}]
    BY <1>39, <2>1 DEF Unpublish, TypeOK, MaybeFile
  <2>3. late' \in 0..2
    BY <1>39 DEF Unpublish, Mutates, TypeOK
  <2> QED
    BY <1>39, <1>a, <2>1, <2>2, <2>3 DEF Unpublish, TypeOK
<1>40. ASSUME RollbackFails PROVE TypeOK'
  BY <1>40, <1>a, FinishType
     DEF RollbackFails, Fault, Abandon, TypeOK, Locations, Claimed, MaybeFile
<1>41. ASSUME CopyHold PROVE TypeOK'
  BY <1>41, <1>a, GotoType
     DEF CopyHold, At, TypeOK, Locations, Claimed, MaybeFile
<1>42. ASSUME PublishCopyChecked PROVE TypeOK'
  BY <1>42, <1>a, GotoType
     DEF PublishCopyChecked, Checked, At, TypeOK, Locations, Claimed, MaybeFile
<1>43. ASSUME PublishCopy PROVE TypeOK'
  BY <1>43, <1>a, OpType, GotoType, UnwindType
     DEF PublishCopy, Mutates, Reported, Fault, TypeOK, Locations, Claimed,
         MaybeFile
<1>44. ASSUME DropChecked PROVE TypeOK'
  BY <1>44, <1>a, GotoType
     DEF DropChecked, Checked, At, TypeOK, Locations, Claimed, MaybeFile
<1>45. ASSUME DropHold PROVE TypeOK'
  BY <1>45, <1>a, FinishType
     DEF DropHold, Mutates, Reported, Fault, TypeOK, Locations, Claimed, MaybeFile
<1>46. ASSUME RewriteHeld PROVE TypeOK'
  BY <1>46, <1>a
     DEF RewriteHeld, Fresh, Saves, Elsewhere, TypeOK, Locations, Claimed, MaybeFile
<1>47. ASSUME Cancel PROVE TypeOK'
  BY <1>47, <1>a
     DEF Cancel, TypeOK, Locations, Claimed, MaybeFile
<1>48. ASSUME LoseLease PROVE TypeOK'
  BY <1>48, <1>a
     DEF LoseLease, Fault, TypeOK, Locations, Claimed, MaybeFile
<1>49. ASSUME NoticeLoss PROVE TypeOK'
  BY <1>49, <1>a
     DEF NoticeLoss, TypeOK, Locations, Claimed, MaybeFile
<1>50. ASSUME Crash PROVE TypeOK'
  BY <1>50, <1>a, GotoType
     DEF Crash, Fault, TypeOK, Locations, Claimed, MaybeFile
<1>51. ASSUME NEW p \in Path, Save(p) PROVE TypeOK'
  BY <1>51
     DEF Save, Fresh, Saves, Elsewhere, TypeOK, MaybeFile
<1>52. ASSUME NEW p \in Path, Delete(p) PROVE TypeOK'
  BY <1>52
     DEF Delete, Elsewhere, TypeOK, MaybeFile
<1>53. ASSUME NEW p \in Path, Rewrite(p) PROVE TypeOK'
  BY <1>53
     DEF Rewrite, Fresh, Saves, Elsewhere, TypeOK, MaybeFile
<1>54. ASSUME NEW p \in Path, SaveOther(p) PROVE TypeOK'
  BY <1>54
     DEF SaveOther, Fresh, Saves, Elsewhere, TypeOK, MaybeFile
<1>55. ASSUME NEW p \in Path, DeleteOther(p) PROVE TypeOK'
  BY <1>55
     DEF DeleteOther, Elsewhere, TypeOK, MaybeFile
<1>56. ASSUME UNCHANGED vars PROVE TypeOK'
  BY <1>56 DEF vars, TypeOK
<1> QED
  BY <1>1, <1>2, <1>3, <1>4, <1>5, <1>6, <1>7, <1>8, <1>9, <1>10, <1>11, <1>12, <1>13,
     <1>14, <1>15, <1>16, <1>17, <1>18, <1>19, <1>20, <1>21, <1>22, <1>23, <1>24,
     <1>25, <1>26, <1>27, <1>28, <1>29, <1>30, <1>31, <1>32, <1>33, <1>34, <1>35,
     <1>36, <1>37, <1>38, <1>39, <1>40, <1>41, <1>42, <1>43, <1>44, <1>45, <1>46,
     <1>47, <1>48, <1>49, <1>50, <1>51, <1>52, <1>53, <1>54, <1>55, <1>56
     DEF Next, Engine, People, CopyStep, KeepStep, MoveStep

-----------------------------------------------------------------------------
(* Nothing is lost.                                                        *)

(* The error path of any operation.                                        *)
LEMMA UnwindSafe ==
  ASSUME TypeOK, Safe, NEW know \in BOOLEAN, Unwind(know),
         UNCHANGED <<file, kept, owned, staged, spare, live>>
  PROVE  Safe'
<1> USE DEF Safe, NothingLost, HoldKnown, CopyFaithful, DropSafe, TrashFaithful, Surviving, Contents,
            WhileHeld
<1>1. ASSUME pc \in Claimed, Goto("rollback"), UNCHANGED <<hold, left>> PROVE Safe'
  BY <1>1 DEF Goto, Claimed
<1>2. ASSUME pc = "verify_path", Goto("unpublish"), UNCHANGED <<hold, left>> PROVE Safe'
  BY <1>2 DEF Goto, Claimed
<1>3. ASSUME pc = "trash_drop", Goto("trash_back"), UNCHANGED <<hold, left>> PROVE Safe'
  BY <1>3 DEF Goto, Claimed
<1>4. ASSUME pc \in Claimed \cup {"drop_hold", "drop_checked"}, Finish("error"),
             Abandon
      PROVE  Safe'
  BY <1>4 DEF Finish, Claimed, Abandon
<1>5. ASSUME pc \notin WhileHeld \cup {"rollback", "unclaim", "dead"}, Finish("error"), UNCHANGED <<hold, left>>
      PROVE  Safe'
  BY <1>5 DEF Finish, Claimed
<1> QED
  BY <1>1, <1>2, <1>3, <1>4, <1>5 DEF Unwind, Claimed

LEMMA SafeStep ==
  ASSUME TypeOK, TypeOK', Safe, ~InPlace, [Next]_vars PROVE Safe'
<1> USE PlanAssumption DEF disk, work, lease, user
<1> USE DEF Safe, NothingLost, HoldKnown, CopyFaithful, DropSafe, TrashFaithful, Surviving, Contents,
            WhileHeld, Claimed
<1>57. ASSUME Fails PROVE Safe'
  BY <1>57, UnwindSafe DEF Fails, TypeOK
<1>1. ASSUME Begin PROVE Safe'
  BY <1>1, OpType
     DEF Begin, Goto, First, Op, TypeOK, Locations
<1>2. ASSUME Stop PROVE Safe'
  BY <1>2
     DEF Stop, Goto, Op, TypeOK, Locations
<1>3. ASSUME CallFails PROVE Safe'
  BY <1>3, <1>57 DEF CallFails
<1>4. ASSUME CheckpointStops PROVE Safe'
  BY <1>4, <1>57 DEF CheckpointStops
<1>5. ASSUME CheckFails PROVE Safe'
  BY <1>5, UnwindSafe DEF CheckFails
<1>6. ASSUME OpenWrite PROVE Safe'
  BY <1>6, OpType
     DEF OpenWrite, At, Op, Goto, TypeOK, Locations
<1>7. ASSUME SourceGone PROVE Safe'
  BY <1>7, <1>57 DEF SourceGone
<1>8. ASSUME Stream PROVE Safe'
  <2>1. CASE Fails
    BY <2>1, <1>57
  <2>2. CASE ~Fails
    BY <1>8, <2>2, OpType
       DEF Stream, Op, Goto, Finish, TypeOK, Locations
  <2> QED
    BY <2>1, <2>2
<1>9. ASSUME Stat PROVE Safe'
  BY <1>9, OpType
     DEF Stat, Op, Goto, Finish, TypeOK, Locations
<1>10. ASSUME CommitChecked PROVE Safe'
  BY <1>10
     DEF CommitChecked, Checked, At, Goto, Op, TypeOK, Locations
<1>11. ASSUME Commit PROVE Safe'
  <2>1. /\ pc = "committing" /\ pc' = "next" /\ Op.path \in Path
        /\ file[Op.path] = None
        /\ \E c : file' = [file EXCEPT ![Op.path] = c]
        /\ UNCHANGED <<kept, owned, staged, hold, left>>
    BY <1>11, OpType DEF Commit, Reported, Finish, TypeOK
  <2>2. hold = None
    BY <2>1
  <2>3. ASSUME NEW c \in Contents(file) PROVE c \in Contents(file')
    BY <2>1, <2>3 DEF TypeOK
  <2>4. NothingLost'
    BY <2>1, <2>3
  <2> QED
    BY <2>1, <2>2, <2>4
<1>12. ASSUME CommitRefused PROVE Safe'
  BY <1>12, <1>57 DEF CommitRefused
<1>13. ASSUME Keep PROVE Safe'
  BY <1>13
     DEF Keep, Checkpoint, Checked, At, Goto, Op, TypeOK, Locations
<1>14. ASSUME KeepRename PROVE Safe'
  BY <1>14, OpType
     DEF KeepRename, Op, Reported, Preserved, Finish, Goto, TypeOK, Locations
<1>15. ASSUME KeepRefused PROVE Safe'
  BY <1>15, <1>57 DEF KeepRefused
<1>16. ASSUME KeepCrosses PROVE Safe'
  BY <1>16, OpType
     DEF KeepCrosses, At, Op, Goto, TypeOK, Locations
<1>17. ASSUME TrashOpen PROVE Safe'
  BY <1>17, OpType
     DEF TrashOpen, At, Op, Goto, TypeOK, Locations
<1>18. ASSUME TrashCopy PROVE Safe'
  BY <1>18, OpType
     DEF TrashCopy, At, Op, Goto, TypeOK, Locations
<1>19. ASSUME TrashHash PROVE Safe'
  <2>1. CASE Fails
    BY <2>1, <1>57
  <2>2. CASE ~Fails
    BY <1>19, <2>2, OpType
       DEF TrashHash, Op, Goto, Finish, TypeOK, Locations
  <2> QED
    BY <2>1, <2>2
<1>20. ASSUME TrashCommitChecked PROVE Safe'
  BY <1>20
     DEF TrashCommitChecked, Checkpoint, At, Goto, Op, TypeOK, Locations
<1>21. ASSUME TrashCommit PROVE Safe'
  <2>1. /\ pc = "trash_committing" /\ kept[Op.path] = None /\ kept' = [kept EXCEPT ![Op.path] = spare]
        /\ UNCHANGED <<file, hold, left, work, lease, user>>
        /\ (pc' = "trash_remove" /\ k' = k) \/ pc' = "next"
    BY <1>21 DEF TrashCommit, Reported, Goto, Finish
  <2>2. PICK p \in Path : p = Op.path
    BY <2>1, OpType DEF TypeOK
  <2>3. kept' = [kept EXCEPT ![p] = spare] /\ kept[p] = None /\ kept'[p] = spare
    BY <2>1, <2>2 DEF TypeOK
  <2>4. Contents(kept) \subseteq Contents(kept')
    BY <2>2, <2>3 DEF TypeOK
  <2>5. NothingLost'
    BY <2>1, <2>4
  <2>6. HoldKnown' /\ CopyFaithful' /\ DropSafe'
    BY <2>1
  <2>7. TrashFaithful'
    <3>1. pc' = "trash_remove" => Op' = Op
      BY <2>1 DEF Op
    <3>2. live' = live /\ file' = file /\ spare' = spare
      BY <2>1
    <3> QED
      BY <2>1, <2>2, <2>3, <3>1, <3>2
  <2> QED
    BY <2>5, <2>6, <2>7
<1>22. ASSUME TrashRemoveChecked PROVE Safe'
  BY <1>22
     DEF TrashRemoveChecked, Checkpoint, At, Goto, Op, TypeOK, Locations
<1>23. ASSUME TrashRemove PROVE Safe'
  BY <1>23, OpType
     DEF TrashRemove, At, Op, Goto, TypeOK, Locations
<1>24. ASSUME TrashRemoveGone PROVE Safe'
  BY <1>24, <1>57 DEF TrashRemoveGone
<1>25. ASSUME TrashDrop PROVE Safe'
  BY <1>25, OpType
     DEF TrashDrop, Reported, Preserved, Finish, Op, Goto, TypeOK, Locations
<1>26. ASSUME TrashDropOther PROVE Safe'
  BY <1>26
     DEF TrashDropOther, At, Goto, Op, TypeOK, Locations
<1>27. ASSUME TrashBack PROVE Safe'
  BY <1>27, OpType
     DEF TrashBack, Op, Abandon, Finish, TypeOK, Locations
<1>28. ASSUME ClaimChecked PROVE Safe'
  BY <1>28
     DEF ClaimChecked, Checked, At, Goto, Op, TypeOK, Locations
<1>29. ASSUME ClaimMoveSource PROVE Safe'
  <2>1. /\ pc = "claiming" /\ Op.from \in Path /\ file[Op.from] # None
        /\ file' = [file EXCEPT ![Op.from] = None]
        /\ UNCHANGED <<kept, owned, staged>>
    BY <1>29, OpType DEF ClaimMoveSource, TypeOK
  <2>2. hold = None
    BY <2>1
  <2>3. ASSUME NEW c \in Contents(file) PROVE c \in Contents(file') \/ c = file[Op.from]
    BY <2>1, <2>3 DEF TypeOK
  <2>4. CASE /\ hold' = file[Op.from] /\ pc' \in {"verify_hold", "unclaim"} /\ UNCHANGED left
    <3>1. NothingLost'
      BY <2>1, <2>3, <2>4
    <3> QED
      BY <2>1, <2>4, <3>1
  <2>5. CASE left' = left \cup {file[Op.from]} /\ pc' = "next" /\ UNCHANGED hold
    <3>1. NothingLost'
      BY <2>1, <2>2, <2>3, <2>5
    <3> QED
      BY <2>1, <2>2, <2>5, <3>1
  <2> QED
    BY <1>29, <2>4, <2>5 DEF ClaimMoveSource, Goto, Finish
<1>30. ASSUME ClaimRefused PROVE Safe'
  BY <1>30, <1>57 DEF ClaimRefused
<1>31. ASSUME VerifyHold PROVE Safe'
  <2>1. CASE Fails
    BY <2>1, UnwindSafe DEF Fails, TypeOK
  <2>2. CASE /\ pc \in {"verify_hold", "verify_again"}
             /\ Goto(IF pc = "verify_hold" THEN "dest" ELSE "publish_copy")
             /\ UNCHANGED <<disk, work, lease, user>>
    BY <2>2 DEF Goto, Op
  <2> QED
    BY <1>31, <2>1, <2>2 DEF VerifyHold
<1>32. ASSUME Dest PROVE Safe'
  <2>1. CASE Fails
    BY <2>1, <1>57
  <2>2. CASE ~Fails
    BY <1>32, <2>2, OpType
       DEF Dest, Op, Goto, Finish, TypeOK, Locations
  <2> QED
    BY <2>1, <2>2
<1>33. ASSUME PublishChecked PROVE Safe'
  BY <1>33
     DEF PublishChecked, Checked, At, Goto, Op, TypeOK, Locations
<1>34. ASSUME Publish PROVE Safe'
  BY <1>34, OpType
     DEF Publish, Op, Reported, Goto, Finish, TypeOK, Locations
<1>35. ASSUME PublishRefused PROVE Safe'
  BY <1>35, <1>57 DEF PublishRefused
<1>36. ASSUME PublishCrosses PROVE Safe'
  BY <1>36
     DEF PublishCrosses, At, Goto, Op, TypeOK, Locations
<1>37. ASSUME VerifyPath PROVE Safe'
  <2>1. CASE Fails
    BY <2>1, <1>57
  <2>2. CASE ~Fails
    BY <1>37, <2>2, OpType
       DEF VerifyPath, Op, Finish, Goto, TypeOK, Locations
  <2> QED
    BY <2>1, <2>2
<1>38. ASSUME Rollback PROVE Safe'
  BY <1>38, OpType
     DEF Rollback, Op, Abandon, Finish, TypeOK, Locations
<1>39. ASSUME Unpublish PROVE Safe'
  <2>1. hold = None /\ pc' = "next" /\ k <= Len(Plan) /\ UNCHANGED <<kept, hold, left, owned>>
    BY <1>39 DEF Unpublish, Finish, TypeOK
  <2>2. Op.path \in Path /\ Op.from \in Path
    BY <2>1, OpType
  <2>3. ASSUME NEW c \in Contents(file) PROVE c \in Contents(file')
    BY <1>39, <2>2, <2>3 DEF Unpublish, TypeOK
  <2>4. NothingLost'
    BY <2>1, <2>3
  <2> QED
    BY <2>1, <2>4
<1>40. ASSUME RollbackFails PROVE Safe'
  BY <1>40
     DEF RollbackFails, Abandon, Finish, Op, TypeOK, Locations
<1>41. ASSUME CopyHold PROVE Safe'
  BY <1>41
     DEF CopyHold, At, Goto, Op, TypeOK, Locations
<1>42. ASSUME PublishCopyChecked PROVE Safe'
  BY <1>42
     DEF PublishCopyChecked, Checked, At, Goto, Op, TypeOK, Locations
<1>43. ASSUME PublishCopy PROVE Safe'
  <2>1. /\ staged = hold /\ hold # None /\ Op.path \in Path
        /\ file[Op.path] = None /\ file' = [file EXCEPT ![Op.path] = staged]
        /\ UNCHANGED <<kept, owned, staged>>
    BY <1>43, OpType DEF PublishCopy, TypeOK
  <2>2. Contents(file') = Contents(file) \cup {hold}
    BY <2>1 DEF TypeOK
  <2>3. CASE Goto("drop_hold") /\ UNCHANGED <<hold, left>>
    <3>1. pc' = "drop_hold" /\ hold' = hold /\ left' = left /\ kept' = kept
      BY <2>1, <2>3 DEF Goto
    <3>2. NothingLost'
      BY <2>1, <2>2, <3>1
    <3>3. HoldKnown' /\ CopyFaithful' /\ TrashFaithful'
      BY <2>1, <3>1
    <3>4. DropSafe'
      BY <2>2, <3>1
    <3> QED
      BY <3>2, <3>3, <3>4
  <2>4. CASE Unwind(noticed)
    <3>1. \/ pc' = "rollback" /\ hold' = hold /\ left' = left
          \/ pc' = "next" /\ hold' = None
      BY <1>43, <2>4 DEF PublishCopy, Unwind, Goto, Finish, Abandon
    <3>2. NothingLost'
      <4>1. left \subseteq left'
        BY <2>4 DEF Unwind, Abandon
      <4>2. kept' = kept /\ owned' = owned /\ Contents(file) \subseteq Contents(file')
        BY <2>1, <2>2
      <4>3. hold \in Contents(file')
        BY <2>2
      <4> HIDE DEF Contents
      <4> QED
        BY <4>1, <4>2, <4>3
    <3>3. HoldKnown' /\ CopyFaithful' /\ DropSafe' /\ TrashFaithful'
      BY <2>1, <3>1
    <3> QED
      BY <3>2, <3>3
  <2> QED
    BY <1>43, <2>3, <2>4 DEF PublishCopy, Reported
<1>44. ASSUME DropChecked PROVE Safe'
  BY <1>44
     DEF DropChecked, Checked, At, Goto, Op, TypeOK, Locations
<1>45. ASSUME DropHold PROVE Safe'
  <2>1. \A c \in owned : c = hold => c \in Contents(file)
    BY <1>45 DEF DropHold
  <2>2. hold' = None /\ pc' = "next" /\ UNCHANGED <<file, kept, left, owned>>
    BY <1>45 DEF DropHold, Reported, Finish
  <2>3. NothingLost'
    BY <2>1, <2>2
  <2> QED
    BY <2>2, <2>3
<1>46. ASSUME RewriteHeld PROVE Safe'
  BY <1>46
     DEF RewriteHeld, Saves, Elsewhere, Op, TypeOK, Locations
<1>47. ASSUME Cancel PROVE Safe'
  BY <1>47
     DEF Cancel, Op, TypeOK, Locations
<1>48. ASSUME LoseLease PROVE Safe'
  BY <1>48
     DEF LoseLease, Op, TypeOK, Locations
<1>49. ASSUME NoticeLoss PROVE Safe'
  BY <1>49
     DEF NoticeLoss, Op, TypeOK, Locations
<1>50. ASSUME Crash PROVE Safe'
  BY <1>50
     DEF Crash, Goto, Op, TypeOK, Locations
<1>51. ASSUME NEW p \in Path, Save(p) PROVE Safe'
  BY <1>51
     DEF Save, Saves, Copying, Op, Elsewhere, TypeOK, Locations
<1>52. ASSUME NEW p \in Path, Delete(p) PROVE Safe'
  BY <1>52
     DEF Delete, Copying, Op, Elsewhere, TypeOK, Locations
<1>53. ASSUME NEW p \in Path, Rewrite(p) PROVE Safe'
  BY <1>53
     DEF Rewrite, Saves, Elsewhere, Op, TypeOK, Locations
<1>54. ASSUME NEW p \in Path, SaveOther(p) PROVE Safe'
  BY <1>54
     DEF SaveOther, Saves, Elsewhere, Op, TypeOK, Locations
<1>55. ASSUME NEW p \in Path, DeleteOther(p) PROVE Safe'
  BY <1>55
     DEF DeleteOther, Elsewhere, Op, TypeOK, Locations
<1>56. ASSUME UNCHANGED vars PROVE Safe'
  BY <1>56 DEF vars, Op
<1> QED
  BY <1>1, <1>2, <1>3, <1>4, <1>5, <1>6, <1>7, <1>8, <1>9, <1>10, <1>11, <1>12, <1>13,
     <1>14, <1>15, <1>16, <1>17, <1>18, <1>19, <1>20, <1>21, <1>22, <1>23, <1>24,
     <1>25, <1>26, <1>27, <1>28, <1>29, <1>30, <1>31, <1>32, <1>33, <1>34, <1>35,
     <1>36, <1>37, <1>38, <1>39, <1>40, <1>41, <1>42, <1>43, <1>44, <1>45, <1>46,
     <1>47, <1>48, <1>49, <1>50, <1>51, <1>52, <1>53, <1>54, <1>55, <1>56
     DEF Next, Engine, People, CopyStep, KeepStep, MoveStep

-----------------------------------------------------------------------------
LEMMA InitType == ASSUME Init PROVE TypeOK
<1> USE PlanAssumption
<1>1. Len(Plan) \in Nat /\ \A i \in 1..Len(Plan) : Plan[i] \in Operation
  OBVIOUS
<1>2. \A i \in 1..Len(Plan) : Plan[i].want \in Content
  BY <1>1 DEF Operation
<1>3. Contents(Here) \subseteq Content /\ Contents(There) \subseteq Content
  BY DEF Contents, MaybeFile
<1>4. owned \subseteq Content /\ written \subseteq Content
  BY <1>2, <1>3 DEF Init
<1>5. "next" \in Locations /\ result \in [1..Len(Plan) -> {"pending", "done", "error"}]
  BY DEF Init, Locations
<1>6. /\ file \in [Path -> MaybeFile \cup {Torn}] /\ other \in [Path -> MaybeFile]
      /\ kept \in [Path -> MaybeFile \cup {Torn}]
  BY DEF Init, MaybeFile
<1>7. /\ hold \in MaybeFile \cup {Torn} /\ left \subseteq Content \cup {Torn}
      /\ staged \in MaybeFile \cup {Torn} /\ spare \in MaybeFile \cup {Torn}
      /\ live \in BOOLEAN
  BY DEF Init, MaybeFile
<1>8. k \in 1..(Len(Plan) + 1) /\ pc = "next"
  BY <1>1 DEF Init
<1>9. lost \in BOOLEAN /\ noticed \in BOOLEAN /\ cancelled \in BOOLEAN
  BY DEF Init
<1>10. late \in 0..2 /\ saves \in 0..MaxSaves /\ faults \in 0..MaxFaults
  <2>1. late = 0 /\ saves = 0 /\ faults = 0
    BY DEF Init
  <2> QED
    BY <2>1
<1> QED
  BY <1>4, <1>5, <1>6, <1>7, <1>8, <1>9, <1>10 DEF TypeOK

(* The types of the transaction's state, in every behaviour.               *)
THEOREM TypeCorrect == Spec => []TypeOK
<1>1. Init => TypeOK
  BY InitType
<1>2. TypeOK /\ [Next]_vars => TypeOK'
  BY TypeStep
<1> QED
  BY <1>1, <1>2, PTL DEF Spec

LEMMA InitSafe == ASSUME Init PROVE Safe
BY DEF Init, Safe, NothingLost, HoldKnown, CopyFaithful, DropSafe, TrashFaithful, Surviving, WhileHeld,
       Claimed

(* The files of people survive every plan, every error path, every loss of *)
(* the lock and every crash: preserve comes before every publication and   *)
(* no rename, publication or removal of the engine replaces or deletes the *)
(* last copy of anything.                                                  *)
THEOREM NothingLostAlways == ASSUME ~InPlace PROVE Spec => []NothingLost
<1>1. Init => IInv
  BY InitType, InitSafe DEF IInv
<1>2. IInv /\ [Next]_vars => IInv'
  <2> SUFFICES ASSUME IInv, [Next]_vars PROVE IInv'
    OBVIOUS
  <2>1. TypeOK'
    BY TypeStep DEF IInv
  <2> QED
    BY <2>1, SafeStep DEF IInv
<1>3. IInv => NothingLost
  BY DEF IInv, Safe
<1> QED
  BY <1>1, <1>2, <1>3, PTL DEF Spec

-----------------------------------------------------------------------------
(* A lost lock stops the run.                                              *)

(* From here the run goes on to change the root, whatever it knows.        *)
Committed == {"committing", "keep_rename", "trash_committing", "trash_removing", "claiming",
              "publishing", "publishing_copy", "drop_checked", "rollback", "unpublish"}

(* Only what was checked before the loss was known is still to be done.    *)
LateKnown ==
  /\ noticed => lost
  /\ late # 0 => noticed /\ pc \notin Committed

LEMMA UnwindLate ==
  ASSUME LateKnown, NEW know \in BOOLEAN, Unwind(know), know => lost, noticed => know,
         noticed' = know, UNCHANGED <<late, lost>>
  PROVE  LateKnown'
BY DEF Unwind, LateKnown, Goto, Finish, Committed, MayRollBack, Claimed

LEMMA LateStep ==
  ASSUME TypeOK, LateKnown, [Next]_vars
  PROVE  LateKnown' /\ (late' = late \/ late = 0 \/ pc = "unclaim")
<1> DEFINE Ok == LateKnown' /\ (late' = late \/ late = 0 \/ pc = "unclaim")
<1> USE DEF disk, work, lease, user
<1>a. noticed \in BOOLEAN /\ (noticed => lost)
  BY DEF TypeOK, LateKnown
<1>1. ASSUME Begin PROVE Ok
  BY <1>1 DEF Begin, First, At, Checked, Checkpoint, Stopping, Mutates, Reported, Preserved, MayRollBack, Elsewhere, TypeOK, LateKnown, Committed, Goto, Finish
<1>2. ASSUME Stop PROVE Ok
  BY <1>2 DEF Stop, First, At, Checked, Checkpoint, Stopping, Mutates, Reported, Preserved, MayRollBack, Elsewhere, TypeOK, LateKnown, Committed, Goto, Finish
<1>3. ASSUME CallFails PROVE Ok
  BY <1>3, <1>a, UnwindLate DEF CallFails, Fails
<1>4. ASSUME CheckpointStops PROVE Ok
  BY <1>4, <1>a, UnwindLate DEF CheckpointStops, Fails
<1>5. ASSUME CheckFails PROVE Ok
  BY <1>5, <1>a, UnwindLate DEF CheckFails, Fails
<1>6. ASSUME OpenWrite PROVE Ok
  BY <1>6 DEF OpenWrite, First, At, Checked, Checkpoint, Stopping, Mutates, Reported, Preserved, MayRollBack, Elsewhere, TypeOK, LateKnown, Committed, Goto, Finish
<1>7. ASSUME SourceGone PROVE Ok
  BY <1>7, <1>a, UnwindLate DEF SourceGone, Fails
<1>8. ASSUME Stream PROVE Ok
  <2>1. CASE Fails
    BY <2>1, <1>a, UnwindLate DEF Fails
  <2>2. CASE ~Fails
    BY <1>8, <2>2 DEF Stream, LateKnown, Committed, Goto, Finish
  <2> QED
    BY <2>1, <2>2
<1>9. ASSUME Stat PROVE Ok
  BY <1>9 DEF Stat, First, At, Checked, Checkpoint, Stopping, Mutates, Reported, Preserved, MayRollBack, Elsewhere, TypeOK, LateKnown, Committed, Goto, Finish
<1>10. ASSUME CommitChecked PROVE Ok
  BY <1>10 DEF CommitChecked, First, At, Checked, Checkpoint, Stopping, Mutates, Reported, Preserved, MayRollBack, Elsewhere, TypeOK, LateKnown, Committed, Goto, Finish
<1>11. ASSUME Commit PROVE Ok
  BY <1>11 DEF Commit, First, At, Checked, Checkpoint, Stopping, Mutates, Reported, Preserved, MayRollBack, Elsewhere, TypeOK, LateKnown, Committed, Goto, Finish
<1>12. ASSUME CommitRefused PROVE Ok
  BY <1>12, <1>a, UnwindLate DEF CommitRefused, Fails
<1>13. ASSUME Keep PROVE Ok
  BY <1>13 DEF Keep, First, At, Checked, Checkpoint, Stopping, Mutates, Reported, Preserved, MayRollBack, Elsewhere, TypeOK, LateKnown, Committed, Goto, Finish
<1>14. ASSUME KeepRename PROVE Ok
  BY <1>14 DEF KeepRename, First, At, Checked, Checkpoint, Stopping, Mutates, Reported, Preserved, MayRollBack, Elsewhere, TypeOK, LateKnown, Committed, Goto, Finish
<1>15. ASSUME KeepRefused PROVE Ok
  BY <1>15, <1>a, UnwindLate DEF KeepRefused, Fails
<1>16. ASSUME KeepCrosses PROVE Ok
  BY <1>16 DEF KeepCrosses, First, At, Checked, Checkpoint, Stopping, Mutates, Reported, Preserved, MayRollBack, Elsewhere, TypeOK, LateKnown, Committed, Goto, Finish
<1>17. ASSUME TrashOpen PROVE Ok
  BY <1>17 DEF TrashOpen, First, At, Checked, Checkpoint, Stopping, Mutates, Reported, Preserved, MayRollBack, Elsewhere, TypeOK, LateKnown, Committed, Goto, Finish
<1>18. ASSUME TrashCopy PROVE Ok
  BY <1>18 DEF TrashCopy, First, At, Checked, Checkpoint, Stopping, Mutates, Reported, Preserved, MayRollBack, Elsewhere, TypeOK, LateKnown, Committed, Goto, Finish
<1>19. ASSUME TrashHash PROVE Ok
  <2>1. CASE Fails
    BY <2>1, <1>a, UnwindLate DEF Fails
  <2>2. CASE ~Fails
    BY <1>19, <2>2 DEF TrashHash, LateKnown, Committed, Goto, Finish
  <2> QED
    BY <2>1, <2>2
<1>20. ASSUME TrashCommitChecked PROVE Ok
  BY <1>20 DEF TrashCommitChecked, First, At, Checked, Checkpoint, Stopping, Mutates, Reported, Preserved, MayRollBack, Elsewhere, TypeOK, LateKnown, Committed, Goto, Finish
<1>21. ASSUME TrashCommit PROVE Ok
  BY <1>21 DEF TrashCommit, First, At, Checked, Checkpoint, Stopping, Mutates, Reported, Preserved, MayRollBack, Elsewhere, TypeOK, LateKnown, Committed, Goto, Finish
<1>22. ASSUME TrashRemoveChecked PROVE Ok
  BY <1>22 DEF TrashRemoveChecked, First, At, Checked, Checkpoint, Stopping, Mutates, Reported, Preserved, MayRollBack, Elsewhere, TypeOK, LateKnown, Committed, Goto, Finish
<1>23. ASSUME TrashRemove PROVE Ok
  BY <1>23 DEF TrashRemove, First, At, Checked, Checkpoint, Stopping, Mutates, Reported, Preserved, MayRollBack, Elsewhere, TypeOK, LateKnown, Committed, Goto, Finish
<1>24. ASSUME TrashRemoveGone PROVE Ok
  BY <1>24, <1>a, UnwindLate DEF TrashRemoveGone, Fails
<1>25. ASSUME TrashDrop PROVE Ok
  BY <1>25 DEF TrashDrop, First, At, Checked, Checkpoint, Stopping, Mutates, Reported, Preserved, MayRollBack, Elsewhere, TypeOK, LateKnown, Committed, Goto, Finish
<1>26. ASSUME TrashDropOther PROVE Ok
  BY <1>26 DEF TrashDropOther, First, At, Checked, Checkpoint, Stopping, Mutates, Reported, Preserved, MayRollBack, Elsewhere, TypeOK, LateKnown, Committed, Goto, Finish
<1>27. ASSUME TrashBack PROVE Ok
  BY <1>27 DEF TrashBack, First, At, Checked, Checkpoint, Stopping, Mutates, Reported, Preserved, MayRollBack, Elsewhere, TypeOK, LateKnown, Committed, Goto, Finish
<1>28. ASSUME ClaimChecked PROVE Ok
  BY <1>28 DEF ClaimChecked, First, At, Checked, Checkpoint, Stopping, Mutates, Reported, Preserved, MayRollBack, Elsewhere, TypeOK, LateKnown, Committed, Goto, Finish
<1>29. ASSUME ClaimMoveSource PROVE Ok
  BY <1>29 DEF ClaimMoveSource, First, At, Checked, Checkpoint, Stopping, Mutates, Reported, Preserved, MayRollBack, Elsewhere, TypeOK, LateKnown, Committed, Goto, Finish
<1>30. ASSUME ClaimRefused PROVE Ok
  BY <1>30, <1>a, UnwindLate DEF ClaimRefused, Fails
<1>31. ASSUME VerifyHold PROVE Ok
  <2>1. CASE Fails
    BY <2>1, <1>a, UnwindLate DEF Fails
  <2>2. CASE ~Fails
    BY <1>31, <2>2 DEF VerifyHold, LateKnown, Committed, Goto, Finish
  <2> QED
    BY <2>1, <2>2
<1>32. ASSUME Dest PROVE Ok
  <2>1. CASE Fails
    BY <2>1, <1>a, UnwindLate DEF Fails
  <2>2. CASE ~Fails
    BY <1>32, <2>2 DEF Dest, LateKnown, Committed, Goto, Finish
  <2> QED
    BY <2>1, <2>2
<1>33. ASSUME PublishChecked PROVE Ok
  BY <1>33 DEF PublishChecked, First, At, Checked, Checkpoint, Stopping, Mutates, Reported, Preserved, MayRollBack, Elsewhere, TypeOK, LateKnown, Committed, Goto, Finish
<1>34. ASSUME Publish PROVE Ok
  BY <1>34 DEF Publish, First, At, Checked, Checkpoint, Stopping, Mutates, Reported, Preserved, MayRollBack, Elsewhere, TypeOK, LateKnown, Committed, Goto, Finish
<1>35. ASSUME PublishRefused PROVE Ok
  BY <1>35, <1>a, UnwindLate DEF PublishRefused, Fails
<1>36. ASSUME PublishCrosses PROVE Ok
  BY <1>36 DEF PublishCrosses, First, At, Checked, Checkpoint, Stopping, Mutates, Reported, Preserved, MayRollBack, Elsewhere, TypeOK, LateKnown, Committed, Goto, Finish
<1>37. ASSUME VerifyPath PROVE Ok
  <2>1. CASE Fails
    BY <2>1, <1>a, UnwindLate DEF Fails
  <2>2. CASE ~Fails
    BY <1>37, <2>2 DEF VerifyPath, LateKnown, Committed, Goto, Finish
  <2> QED
    BY <2>1, <2>2
<1>38. ASSUME Rollback PROVE Ok
  BY <1>38 DEF Rollback, First, At, Checked, Checkpoint, Stopping, Mutates, Reported, Preserved, MayRollBack, Elsewhere, TypeOK, LateKnown, Committed, Goto, Finish
<1>39. ASSUME Unpublish PROVE Ok
  BY <1>39 DEF Unpublish, First, At, Checked, Checkpoint, Stopping, Mutates, Reported, Preserved, MayRollBack, Elsewhere, TypeOK, LateKnown, Committed, Goto, Finish
<1>40. ASSUME RollbackFails PROVE Ok
  BY <1>40 DEF RollbackFails, First, At, Checked, Checkpoint, Stopping, Mutates, Reported, Preserved, MayRollBack, Elsewhere, TypeOK, LateKnown, Committed, Goto, Finish
<1>41. ASSUME CopyHold PROVE Ok
  BY <1>41 DEF CopyHold, First, At, Checked, Checkpoint, Stopping, Mutates, Reported, Preserved, MayRollBack, Elsewhere, TypeOK, LateKnown, Committed, Goto, Finish
<1>42. ASSUME PublishCopyChecked PROVE Ok
  BY <1>42 DEF PublishCopyChecked, First, At, Checked, Checkpoint, Stopping, Mutates, Reported, Preserved, MayRollBack, Elsewhere, TypeOK, LateKnown, Committed, Goto, Finish
<1>43. ASSUME PublishCopy PROVE Ok
  BY <1>43 DEF PublishCopy, Unwind, MayRollBack, Claimed, Mutates, Reported, TypeOK, LateKnown, Committed, Goto, Finish
<1>44. ASSUME DropChecked PROVE Ok
  BY <1>44 DEF DropChecked, First, At, Checked, Checkpoint, Stopping, Mutates, Reported, Preserved, MayRollBack, Elsewhere, TypeOK, LateKnown, Committed, Goto, Finish
<1>45. ASSUME DropHold PROVE Ok
  BY <1>45 DEF DropHold, First, At, Checked, Checkpoint, Stopping, Mutates, Reported, Preserved, MayRollBack, Elsewhere, TypeOK, LateKnown, Committed, Goto, Finish
<1>46. ASSUME RewriteHeld PROVE Ok
  BY <1>46 DEF RewriteHeld, First, At, Checked, Checkpoint, Stopping, Mutates, Reported, Preserved, MayRollBack, Elsewhere, TypeOK, LateKnown, Committed, Goto, Finish
<1>47. ASSUME Cancel PROVE Ok
  BY <1>47 DEF Cancel, First, At, Checked, Checkpoint, Stopping, Mutates, Reported, Preserved, MayRollBack, Elsewhere, TypeOK, LateKnown, Committed, Goto, Finish
<1>48. ASSUME LoseLease PROVE Ok
  BY <1>48 DEF LoseLease, First, At, Checked, Checkpoint, Stopping, Mutates, Reported, Preserved, MayRollBack, Elsewhere, TypeOK, LateKnown, Committed, Goto, Finish
<1>49. ASSUME NoticeLoss PROVE Ok
  BY <1>49 DEF NoticeLoss, First, At, Checked, Checkpoint, Stopping, Mutates, Reported, Preserved, MayRollBack, Elsewhere, TypeOK, LateKnown, Committed, Goto, Finish
<1>50. ASSUME Crash PROVE Ok
  BY <1>50 DEF Crash, First, At, Checked, Checkpoint, Stopping, Mutates, Reported, Preserved, MayRollBack, Elsewhere, TypeOK, LateKnown, Committed, Goto, Finish
<1>51. ASSUME NEW p \in Path, Save(p) PROVE Ok
  BY <1>51 DEF Save, Elsewhere, LateKnown
<1>52. ASSUME NEW p \in Path, Delete(p) PROVE Ok
  BY <1>52 DEF Delete, Elsewhere, LateKnown
<1>53. ASSUME NEW p \in Path, Rewrite(p) PROVE Ok
  BY <1>53 DEF Rewrite, Elsewhere, LateKnown
<1>54. ASSUME NEW p \in Path, SaveOther(p) PROVE Ok
  BY <1>54 DEF SaveOther, Elsewhere, LateKnown
<1>55. ASSUME NEW p \in Path, DeleteOther(p) PROVE Ok
  BY <1>55 DEF DeleteOther, Elsewhere, LateKnown
<1>56. ASSUME UNCHANGED vars PROVE Ok
  BY <1>56 DEF vars, LateKnown
<1> QED
  BY <1>1, <1>2, <1>3, <1>4, <1>5, <1>6, <1>7, <1>8, <1>9, <1>10, <1>11, <1>12, <1>13,
     <1>14, <1>15, <1>16, <1>17, <1>18, <1>19, <1>20, <1>21, <1>22, <1>23, <1>24, <1>25,
     <1>26, <1>27, <1>28, <1>29, <1>30, <1>31, <1>32, <1>33, <1>34, <1>35, <1>36, <1>37,
     <1>38, <1>39, <1>40, <1>41, <1>42, <1>43, <1>44, <1>45, <1>46, <1>47, <1>48, <1>49,
     <1>50, <1>51, <1>52, <1>53, <1>54, <1>55, <1>56
     DEF Next, Engine, People, CopyStep, KeepStep, MoveStep

(* Once a run knows that the lock of the root is no longer its own it goes *)
(* through with the change it had checked before, and with no other but    *)
(* the rollback of a claim that could not be synced.                       *)
THEOREM LossStops == Spec => LossStopsMutation
<1>1. Init => TypeOK /\ LateKnown
  BY InitType DEF Init, LateKnown
<1>2. TypeOK /\ LateKnown /\ [Next]_vars => (TypeOK /\ LateKnown)'
  BY TypeStep, LateStep
<1>3. TypeOK /\ LateKnown /\ [Next]_vars => [late' = late \/ late = 0 \/ pc = "unclaim"]_vars
  BY LateStep
<1> QED
  BY <1>1, <1>2, <1>3, PTL DEF Spec, LossStopsMutation

-----------------------------------------------------------------------------
(* What is reported done was verified.                                     *)

Placing == {"stat", "keep", "keep_rename", "trash_open", "trash_copy", "trash_hash",
            "trash_commit", "trash_committing", "trash_remove", "trash_removing", "trash_drop",
            "commit", "committing"}
Moving  == {"claim", "claiming", "verify_hold", "dest", "publish", "publishing", "copy_hold",
            "verify_again", "publish_copy", "publishing_copy", "drop_hold", "drop_checked",
            "verify_path"}

(* The operation is where its kind belongs, a verified copy stays what was *)
(* verified, and so does a moved file unless people write meanwhile.       *)
Verified ==
  /\ pc \in {"open", "stream"} => Op.act = "copy"
  /\ pc \in Placing => Op.act # "move"
  /\ pc \in Moving => Op.act = "move"
  /\ Op.exact /\ Op.act = "copy" /\ pc \in Placing => staged = Op.want
  /\ Op.exact /\ saves = 0 =>
       /\ pc \in {"verify_again", "publish_copy", "publishing_copy"} => staged = hold
       /\ pc \in {"publish_copy", "publishing_copy"} => staged = Op.want
       /\ pc \in {"drop_hold", "drop_checked"} => file[Op.path] = Op.want

Truthful(i) ==
  result[i] # "done" /\ result'[i] = "done" /\ Plan[i].exact /\ Plan[i].act \in {"copy", "move"}
    => \/ file'[Plan[i].path] = Plan[i].want
       \/ Plan[i].act = "move" /\ saves > 0 /\ pc = "drop_checked"

TruthfulStep == \A i \in 1..Len(Plan) : Truthful(i)

LEMMA QuietTruthful == ASSUME UNCHANGED result PROVE TruthfulStep
BY DEF TruthfulStep, Truthful

LEMMA ErrorTruthful == ASSUME TypeOK, Finish("error") PROVE TruthfulStep
BY DEF TruthfulStep, Truthful, Finish, TypeOK

(* An operation that ends well is the one whose result changes.            *)
LEMMA DoneTruthful ==
  ASSUME TypeOK, Finish("done"),
         Op.exact /\ Op.act \in {"copy", "move"} =>
           \/ file'[Op.path] = Op.want
           \/ Op.act = "move" /\ saves > 0 /\ pc = "drop_checked"
  PROVE  TruthfulStep
BY DEF TruthfulStep, Truthful, Finish, TypeOK, Op

LEMMA UnwindVerified ==
  ASSUME TypeOK, NEW know \in BOOLEAN, Unwind(know)
  PROVE  Verified' /\ TruthfulStep
<1>1. CASE Finish("error")
  BY <1>1, ErrorTruthful DEF Finish, Verified, Placing, Moving
<1>2. CASE ~Finish("error")
  <2>1. pc' \in {"rollback", "unpublish", "trash_back"} /\ result' = result
    BY <1>2 DEF Unwind, Goto
  <2> QED
    BY <2>1, QuietTruthful DEF Verified, Placing, Moving
<1> QED
  BY <1>1, <1>2

LEMMA FinishVerified == ASSUME NEW verdict, Finish(verdict) PROVE Verified'
BY DEF Finish, Verified, Placing, Moving

LEMMA VerifiedStep ==
  ASSUME TypeOK, Verified, [Next]_vars
  PROVE  Verified' /\ TruthfulStep
<1> USE DEF disk, work, lease, user
<1>a. noticed \in BOOLEAN
  BY DEF TypeOK
<1>1. ASSUME Begin PROVE Verified' /\ TruthfulStep
  <2>1. Op.act \in {"copy", "link", "delete", "move"}
    BY <1>1, OpType DEF Begin
  <2> QED
    BY <1>1, <2>1, QuietTruthful DEF Begin, First, Goto, Verified, Placing, Moving, Op
<1>2. ASSUME Stop PROVE Verified' /\ TruthfulStep
  BY <1>2, QuietTruthful DEF Stop, At, Checked, Checkpoint, Goto, Elsewhere, Saves, Verified, Placing, Moving, Op
<1>3. ASSUME CallFails PROVE Verified' /\ TruthfulStep
  BY <1>3, <1>a, UnwindVerified DEF CallFails, Fails
<1>4. ASSUME CheckpointStops PROVE Verified' /\ TruthfulStep
  BY <1>4, <1>a, UnwindVerified DEF CheckpointStops, Fails
<1>5. ASSUME CheckFails PROVE Verified' /\ TruthfulStep
  BY <1>5, <1>a, UnwindVerified DEF CheckFails, Fails
<1>6. ASSUME OpenWrite PROVE Verified' /\ TruthfulStep
  BY <1>6, QuietTruthful DEF OpenWrite, At, Checked, Checkpoint, Goto, Elsewhere, Saves, Verified, Placing, Moving, Op
<1>7. ASSUME SourceGone PROVE Verified' /\ TruthfulStep
  BY <1>7, <1>a, UnwindVerified DEF SourceGone, Fails
<1>8. ASSUME Stream PROVE Verified' /\ TruthfulStep
  <2>1. CASE Fails
    BY <2>1, <1>a, UnwindVerified DEF Fails
  <2>2. CASE ~Fails
    BY <1>8, <2>2, QuietTruthful DEF Stream, Accepted, Goto, Verified, Placing, Moving, Op
  <2> QED
    BY <2>1, <2>2
<1>9. ASSUME Stat PROVE Verified' /\ TruthfulStep
  <2>1. CASE Finish("done")
    BY <1>9, <2>1, FinishVerified, DoneTruthful DEF Stat, Goto, Finish, Verified, Placing
  <2>2. CASE ~Finish("done")
    BY <1>9, <2>2, QuietTruthful DEF Stat, Goto, Verified, Placing, Moving, Op
  <2> QED
    BY <2>1, <2>2
<1>10. ASSUME CommitChecked PROVE Verified' /\ TruthfulStep
  BY <1>10, QuietTruthful DEF CommitChecked, At, Checked, Checkpoint, Goto, Elsewhere, Saves, Verified, Placing, Moving, Op
<1>11. ASSUME Commit PROVE Verified' /\ TruthfulStep
  <2>1. Op.path \in Path /\ k <= Len(Plan)
    BY <1>11, OpType DEF Commit, TypeOK
  <2>2. Op.act = "copy" /\ Op.exact => file'[Op.path] = Op.want
    BY <1>11, <2>1 DEF Commit, Verified, Placing, TypeOK
  <2>3. CASE Finish("done")
    BY <1>11, <2>2, <2>3, FinishVerified, DoneTruthful DEF Commit, Verified, Placing
  <2>4. CASE Finish("error")
    BY <2>4, FinishVerified, ErrorTruthful
  <2> QED
    BY <1>11, <2>3, <2>4 DEF Commit, Reported
<1>12. ASSUME CommitRefused PROVE Verified' /\ TruthfulStep
  BY <1>12, <1>a, UnwindVerified DEF CommitRefused, Fails
<1>13. ASSUME Keep PROVE Verified' /\ TruthfulStep
  BY <1>13, QuietTruthful DEF Keep, At, Checked, Checkpoint, Goto, Elsewhere, Saves, Verified, Placing, Moving, Op
<1>14. ASSUME KeepRename PROVE Verified' /\ TruthfulStep
  <2>1. CASE Finish("done") /\ Op.act = "delete"
    BY <2>1, FinishVerified, DoneTruthful
  <2>2. CASE Finish("error")
    BY <2>2, FinishVerified, ErrorTruthful
  <2>3. CASE Goto("commit")
    BY <1>14, <2>3, QuietTruthful DEF KeepRename, Goto, Verified, Placing, Moving, Op
  <2> QED
    BY <1>14, <2>1, <2>2, <2>3 DEF KeepRename, Reported, Preserved
<1>15. ASSUME KeepRefused PROVE Verified' /\ TruthfulStep
  BY <1>15, <1>a, UnwindVerified DEF KeepRefused, Fails
<1>16. ASSUME KeepCrosses PROVE Verified' /\ TruthfulStep
  BY <1>16, QuietTruthful DEF KeepCrosses, At, Checked, Checkpoint, Goto, Elsewhere, Saves, Verified, Placing, Moving, Op
<1>17. ASSUME TrashOpen PROVE Verified' /\ TruthfulStep
  BY <1>17, QuietTruthful DEF TrashOpen, At, Checked, Checkpoint, Goto, Elsewhere, Saves, Verified, Placing, Moving, Op
<1>18. ASSUME TrashCopy PROVE Verified' /\ TruthfulStep
  BY <1>18, QuietTruthful DEF TrashCopy, At, Checked, Checkpoint, Goto, Elsewhere, Saves, Verified, Placing, Moving, Op
<1>19. ASSUME TrashHash PROVE Verified' /\ TruthfulStep
  <2>1. CASE Fails
    BY <2>1, <1>a, UnwindVerified DEF Fails
  <2>2. CASE ~Fails
    BY <1>19, <2>2, QuietTruthful DEF TrashHash, Accepted, Goto, Verified, Placing, Moving, Op
  <2> QED
    BY <2>1, <2>2
<1>20. ASSUME TrashCommitChecked PROVE Verified' /\ TruthfulStep
  BY <1>20, QuietTruthful DEF TrashCommitChecked, At, Checked, Checkpoint, Goto, Elsewhere, Saves, Verified, Placing, Moving, Op
<1>21. ASSUME TrashCommit PROVE Verified' /\ TruthfulStep
  <2>1. CASE Finish("error")
    BY <2>1, FinishVerified, ErrorTruthful
  <2>2. CASE Goto("trash_remove")
    BY <1>21, <2>2, QuietTruthful DEF TrashCommit, Goto, Verified, Placing, Moving, Op
  <2> QED
    BY <1>21, <2>1, <2>2 DEF TrashCommit, Reported
<1>22. ASSUME TrashRemoveChecked PROVE Verified' /\ TruthfulStep
  BY <1>22, QuietTruthful DEF TrashRemoveChecked, At, Checked, Checkpoint, Goto, Elsewhere, Saves, Verified, Placing, Moving, Op
<1>23. ASSUME TrashRemove PROVE Verified' /\ TruthfulStep
  BY <1>23, QuietTruthful DEF TrashRemove, At, Checked, Checkpoint, Goto, Elsewhere, Saves, Verified, Placing, Moving, Op
<1>24. ASSUME TrashRemoveGone PROVE Verified' /\ TruthfulStep
  BY <1>24, <1>a, UnwindVerified DEF TrashRemoveGone, Fails
<1>25. ASSUME TrashDrop PROVE Verified' /\ TruthfulStep
  <2>1. CASE Finish("done") /\ Op.act = "delete"
    BY <2>1, FinishVerified, DoneTruthful
  <2>2. CASE Finish("error")
    BY <2>2, FinishVerified, ErrorTruthful
  <2>3. CASE Goto("commit")
    BY <1>25, <2>3, QuietTruthful DEF TrashDrop, Goto, Verified, Placing, Moving, Op
  <2> QED
    BY <1>25, <2>1, <2>2, <2>3 DEF TrashDrop, Reported, Preserved
<1>26. ASSUME TrashDropOther PROVE Verified' /\ TruthfulStep
  BY <1>26, QuietTruthful DEF TrashDropOther, At, Checked, Checkpoint, Goto, Elsewhere, Saves, Verified, Placing, Moving, Op
<1>27. ASSUME TrashBack PROVE Verified' /\ TruthfulStep
  BY <1>27, ErrorTruthful DEF TrashBack, Finish, Verified, Placing, Moving
<1>28. ASSUME ClaimChecked PROVE Verified' /\ TruthfulStep
  BY <1>28, QuietTruthful DEF ClaimChecked, At, Checked, Checkpoint, Goto, Elsewhere, Saves, Verified, Placing, Moving, Op
<1>29. ASSUME ClaimMoveSource PROVE Verified' /\ TruthfulStep
  <2>1. CASE Finish("error")
    BY <2>1, FinishVerified, ErrorTruthful
  <2>2. CASE ~Finish("error")
    BY <1>29, <2>2, QuietTruthful DEF ClaimMoveSource, Goto, Verified, Placing, Moving, Op
  <2> QED
    BY <2>1, <2>2
<1>30. ASSUME ClaimRefused PROVE Verified' /\ TruthfulStep
  BY <1>30, <1>a, UnwindVerified DEF ClaimRefused, Fails
<1>31. ASSUME VerifyHold PROVE Verified' /\ TruthfulStep
  <2>1. CASE Fails
    BY <2>1, <1>a, UnwindVerified DEF Fails
  <2>2. CASE ~Fails
    BY <1>31, <2>2, QuietTruthful DEF VerifyHold, Accepted, Goto, Verified, Placing, Moving, Op
  <2> QED
    BY <2>1, <2>2
<1>32. ASSUME Dest PROVE Verified' /\ TruthfulStep
  <2>1. CASE Fails
    BY <2>1, <1>a, UnwindVerified DEF Fails
  <2>2. CASE ~Fails
    BY <1>32, <2>2, QuietTruthful DEF Dest, Accepted, Goto, Verified, Placing, Moving, Op
  <2> QED
    BY <2>1, <2>2
<1>33. ASSUME PublishChecked PROVE Verified' /\ TruthfulStep
  BY <1>33, QuietTruthful DEF PublishChecked, At, Checked, Checkpoint, Goto, Elsewhere, Saves, Verified, Placing, Moving, Op
<1>34. ASSUME Publish PROVE Verified' /\ TruthfulStep
  <2>1. CASE Finish("error")
    BY <2>1, FinishVerified, ErrorTruthful
  <2>2. CASE ~Finish("error")
    BY <1>34, <2>2, QuietTruthful DEF Publish, Reported, Goto, Verified, Placing, Moving, Op
  <2> QED
    BY <2>1, <2>2
<1>35. ASSUME PublishRefused PROVE Verified' /\ TruthfulStep
  BY <1>35, <1>a, UnwindVerified DEF PublishRefused, Fails
<1>36. ASSUME PublishCrosses PROVE Verified' /\ TruthfulStep
  BY <1>36, QuietTruthful DEF PublishCrosses, At, Checked, Checkpoint, Goto, Elsewhere, Saves, Verified, Placing, Moving, Op
<1>37. ASSUME VerifyPath PROVE Verified' /\ TruthfulStep
  <2>1. CASE Fails
    BY <2>1, <1>a, UnwindVerified DEF Fails
  <2>2. CASE ~Fails
    BY <1>37, <2>2, FinishVerified, DoneTruthful DEF VerifyPath, Accepted
  <2> QED
    BY <2>1, <2>2
<1>38. ASSUME Rollback PROVE Verified' /\ TruthfulStep
  BY <1>38, ErrorTruthful DEF Rollback, Finish, Verified, Placing, Moving
<1>39. ASSUME Unpublish PROVE Verified' /\ TruthfulStep
  BY <1>39, ErrorTruthful DEF Unpublish, Finish, Verified, Placing, Moving
<1>40. ASSUME RollbackFails PROVE Verified' /\ TruthfulStep
  BY <1>40, ErrorTruthful DEF RollbackFails, Finish, Verified, Placing, Moving
<1>41. ASSUME CopyHold PROVE Verified' /\ TruthfulStep
  BY <1>41, QuietTruthful DEF CopyHold, At, Checked, Checkpoint, Goto, Elsewhere, Saves, Verified, Placing, Moving, Op
<1>42. ASSUME PublishCopyChecked PROVE Verified' /\ TruthfulStep
  BY <1>42, QuietTruthful DEF PublishCopyChecked, At, Checked, Checkpoint, Goto, Elsewhere, Saves, Verified, Placing, Moving, Op
<1>43. ASSUME PublishCopy PROVE Verified' /\ TruthfulStep
  <2>1. CASE Unwind(noticed)
    BY <2>1, <1>a, UnwindVerified
  <2>2. CASE Goto("drop_hold")
    <3>1. Op.path \in Path
      BY <1>43, OpType DEF PublishCopy, TypeOK
    <3>2. Op.exact /\ saves = 0 => file'[Op.path] = Op.want
      BY <1>43, <3>1 DEF PublishCopy, Verified, TypeOK
    <3> QED
      BY <1>43, <2>2, <3>2, QuietTruthful DEF PublishCopy, Goto, Verified, Placing, Moving, Op
  <2> QED
    BY <1>43, <2>1, <2>2 DEF PublishCopy, Reported
<1>44. ASSUME DropChecked PROVE Verified' /\ TruthfulStep
  BY <1>44, QuietTruthful DEF DropChecked, At, Checked, Checkpoint, Goto, Elsewhere, Saves, Verified, Placing, Moving, Op
<1>45. ASSUME DropHold PROVE Verified' /\ TruthfulStep
  <2>1. CASE Finish("error")
    BY <2>1, FinishVerified, ErrorTruthful
  <2>2. CASE Finish("done")
    <3>1. Op.exact => file'[Op.path] = Op.want \/ (Op.act = "move" /\ saves > 0)
      <4>1. Op.act = "move" /\ file' = file
        BY <1>45 DEF DropHold, Verified, Moving
      <4>2. Op.exact /\ saves = 0 => file[Op.path] = Op.want
        BY <1>45 DEF DropHold, Verified
      <4>3. saves = 0 \/ saves > 0
        BY PlanAssumption DEF TypeOK
      <4> QED
        BY <4>1, <4>2, <4>3
    <3> QED
      BY <1>45, <2>2, <3>1, FinishVerified, DoneTruthful DEF DropHold
  <2> QED
    BY <1>45, <2>1, <2>2 DEF DropHold, Reported
<1>46. ASSUME RewriteHeld PROVE Verified' /\ TruthfulStep
  <2>1. saves' # 0
    BY <1>46 DEF RewriteHeld, Saves, TypeOK
  <2> QED
    BY <1>46, <2>1, QuietTruthful DEF RewriteHeld, Elsewhere, Verified, Placing, Moving, Op
<1>47. ASSUME Cancel PROVE Verified' /\ TruthfulStep
  BY <1>47, QuietTruthful DEF Cancel, At, Checked, Checkpoint, Goto, Elsewhere, Saves, Verified, Placing, Moving, Op
<1>48. ASSUME LoseLease PROVE Verified' /\ TruthfulStep
  BY <1>48, QuietTruthful DEF LoseLease, At, Checked, Checkpoint, Goto, Elsewhere, Saves, Verified, Placing, Moving, Op
<1>49. ASSUME NoticeLoss PROVE Verified' /\ TruthfulStep
  BY <1>49, QuietTruthful DEF NoticeLoss, At, Checked, Checkpoint, Goto, Elsewhere, Saves, Verified, Placing, Moving, Op
<1>50. ASSUME Crash PROVE Verified' /\ TruthfulStep
  BY <1>50, QuietTruthful DEF Crash, At, Checked, Checkpoint, Goto, Elsewhere, Saves, Verified, Placing, Moving, Op
<1>51. ASSUME NEW p \in Path, Save(p) PROVE Verified' /\ TruthfulStep
  BY <1>51, QuietTruthful DEF Save, Saves, Elsewhere, TypeOK, Verified, Placing, Moving, Op
<1>52. ASSUME NEW p \in Path, Delete(p) PROVE Verified' /\ TruthfulStep
  BY <1>52, QuietTruthful DEF Delete, Saves, Elsewhere, TypeOK, Verified, Placing, Moving, Op
<1>53. ASSUME NEW p \in Path, Rewrite(p) PROVE Verified' /\ TruthfulStep
  BY <1>53, QuietTruthful DEF Rewrite, Saves, Elsewhere, TypeOK, Verified, Placing, Moving, Op
<1>54. ASSUME NEW p \in Path, SaveOther(p) PROVE Verified' /\ TruthfulStep
  BY <1>54, QuietTruthful DEF SaveOther, Saves, Elsewhere, TypeOK, Verified, Placing, Moving, Op
<1>55. ASSUME NEW p \in Path, DeleteOther(p) PROVE Verified' /\ TruthfulStep
  BY <1>55, QuietTruthful DEF DeleteOther, Saves, Elsewhere, TypeOK, Verified, Placing, Moving, Op
<1>56. ASSUME UNCHANGED vars PROVE Verified' /\ TruthfulStep
  BY <1>56, QuietTruthful DEF vars, Verified, Placing, Moving, Op
<1> QED
  BY <1>1, <1>2, <1>3, <1>4, <1>5, <1>6, <1>7, <1>8, <1>9, <1>10, <1>11, <1>12, <1>13,
     <1>14, <1>15, <1>16, <1>17, <1>18, <1>19, <1>20, <1>21, <1>22, <1>23, <1>24, <1>25,
     <1>26, <1>27, <1>28, <1>29, <1>30, <1>31, <1>32, <1>33, <1>34, <1>35, <1>36, <1>37,
     <1>38, <1>39, <1>40, <1>41, <1>42, <1>43, <1>44, <1>45, <1>46, <1>47, <1>48, <1>49,
     <1>50, <1>51, <1>52, <1>53, <1>54, <1>55, <1>56
     DEF Next, Engine, People, CopyStep, KeepStep, MoveStep

(* An operation with a full digest that reports success put the content of *)
(* the plan at its path, for every plan and every interleaving with the    *)
(* people who write; the exception is a file moved across volumes that     *)
(* they wrote after it was published.                                      *)
THEOREM DoneVerified == Spec => DoneIsVerified
<1>1. Init => TypeOK /\ Verified
  BY InitType DEF Init, Verified, Placing, Moving
<1>2. TypeOK /\ Verified /\ [Next]_vars => (TypeOK /\ Verified)'
  BY TypeStep, VerifiedStep
<1>3. TypeOK /\ Verified /\ [Next]_vars => [TruthfulStep]_vars
  BY VerifiedStep
<1> QED
  BY <1>1, <1>2, <1>3, PTL DEF Spec, DoneIsVerified, TruthfulStep, Truthful

-----------------------------------------------------------------------------
(***************************************************************************)
(* The scan: the digests it reports, the files it leaves out and the mtime *)
(* corrections it keeps, whatever the disks do meanwhile.                  *)
(***************************************************************************)

Active == scan.at # "idle"
EditTime == Dawn + 2 * budget.edits

(* No edit to come has this mtime.                                         *)
Clocked(m) == m <= Dawn \/ m > EditTime
Kept(m) == m <= Dawn => Held[m] = m

(* A file that has the mtime it was meant to have has one the file system  *)
(* can hold, and is what was given this mtime.                             *)
FileSound(o) ==
  o.of # "gone" =>
    /\ Clocked(o.raw)
    /\ o.raw = o.meant =>
         /\ Kept(o.raw)
         /\ \A c \in DOMAIN Meant : o.raw = Meant[c] /\ Length[o.of] = Length[c] => o.of = c
DisksSound == \A v \in Volumes, p \in Item : FileSound(disks[v][p])

(* A correction is for an mtime the file system cannot hold.               *)
Needed(f) ==
  \A p \in DOMAIN f :
    /\ f[p].intended <= Dawn /\ Held[f[p].intended] # f[p].intended
    /\ f[p].ondisk # f[p].intended
FixesSound == Needed(fixes) /\ Needed(fixFile.rows) /\ (Active => Needed(scan.fixes))

(* Bytes known by size and mtime are those of any file that is meant to    *)
(* have both.                                                              *)
Tells(v, p, size, mtime, bytes) ==
  /\ Clocked(mtime)
  /\ mtime <= Dawn /\ Held[mtime] = mtime =>
       \A c \in DOMAIN Meant : mtime = Meant[c] /\ size = Length[c] => bytes = c
  /\ LET o == disks[v][p] IN
     o.of # "gone" /\ o.raw = o.meant /\ o.raw = mtime /\ Length[o.of] = size => bytes = o.of
RowsTell(v, rows) ==
  \A p \in DOMAIN rows \ blurred : Tells(v, p, rows[p].size, rows[p].mtime, rows[p].digest.of)
TablesTell ==
  /\ cacheFile.bound \in Volumes => RowsTell(cacheFile.bound, cacheFile.rows)
  /\ Active => RowsTell(volume, scan.cache)

(* What a scan says of a file it has met.                                  *)
Met(p) == scan.found[p]
FoundTells ==
  Active =>
    \A p \in DOMAIN scan.found :
      /\ Clocked(Met(p).raw)
      /\ Met(p).mtime = Met(p).raw \/ (Met(p).mtime <= Dawn /\ Held[Met(p).mtime] # Met(p).mtime)
      /\ Met(p).digest # NoDigest /\ p \notin blurred =>
           Met(p).digest.of \in had[p] /\ Tells(volume, p, Met(p).size, Met(p).mtime, Met(p).digest.of)

(* As long as a file looks as it was met, it is the one that was met.      *)
Standing(p) == ~Absent(p) /\ SizeOf(mounted[p]) = Met(p).size /\ SameFile(mounted[p], p)
StandsAsMet ==
  scan.at \in {"folder", "read"} =>
    \A p \in DOMAIN scan.found \ blurred :
      Standing(p) =>
        /\ scan.opt.hash /\ Met(p).mtime = Met(p).raw => mounted[p].raw = mounted[p].meant
        /\ p \in DOMAIN scan.open => scan.open[p].of = mounted[p].of

Reading ==
  Active =>
    /\ DOMAIN scan.open \subseteq DOMAIN scan.found
    /\ scan.at \in {"root", "folder"} => DOMAIN scan.open = {}
    /\ DOMAIN scan.open # {} => scan.opt.hash
    /\ scan.at = "root" => DOMAIN scan.found = {}
    /\ ~scan.opt.hash => \A p \in DOMAIN scan.found : Met(p).digest = NoDigest

HadIsNow == Active => \A p \in Item : mounted[p].of \in had[p]

(* What the walk passed and did not list was away.                         *)
PassedWasAway ==
  /\ scan.at \in {"folder", "read", "reconcile", "done"} =>
       \A p \in scan.opt.domain \ Below : p \in DOMAIN scan.found \/ "gone" \in had[p]
  /\ scan.at \in {"read", "reconcile", "done"} =>
       \A p \in scan.opt.domain \cap Below :
         p \in DOMAIN scan.found \/ p \in scan.unread \/ "gone" \in had[p]

(* A correction that no longer matched was for another mtime.              *)
MatchIsSeen ==
  Active =>
    \A p \in DOMAIN scan.found \ scan.matched :
      p \in DOMAIN scan.fixes => scan.fixes[p].ondisk # Met(p).raw

Truth ==
  /\ DisksSound /\ FixesSound /\ TablesTell /\ FoundTells /\ StandsAsMet
  /\ Reading /\ HadIsNow /\ PassedWasAway /\ MatchIsSeen
ScanIInv == ScanTypeOK /\ Truth

-----------------------------------------------------------------------------
(* Rows: tables as functions on some of the files.                         *)

LEMMA NoRows ==
  /\ DOMAIN <<>> = {}
  /\ \A S : Rows(<<>>, S)
<1>1. DOMAIN <<>> = {}
  OBVIOUS
<1> QED
  BY <1>1 DEF Rows

LEMMA RowsOver ==
  ASSUME NEW S, NEW f, NEW g, Rows(f, S), Rows(g, S)
  PROVE  /\ Rows(Over(f, g), S)
         /\ DOMAIN Over(f, g) = DOMAIN f \cup DOMAIN g
         /\ \A p \in DOMAIN f : Over(f, g)[p] = f[p]
         /\ \A p \in DOMAIN g \ DOMAIN f : Over(f, g)[p] = g[p]
BY DEF Rows, Over

LEMMA RowsLess ==
  ASSUME NEW S, NEW f, NEW D, Rows(f, S), D \subseteq DOMAIN f
  PROVE  /\ Rows(Restrict(f, D), S)
         /\ DOMAIN Restrict(f, D) = D
         /\ \A p \in D : Restrict(f, D)[p] = f[p]
BY DEF Rows, Restrict

LEMMA RowsOfType ==
  ASSUME NEW S, NEW table, IsTable(table, S)
  PROVE  Rows(RowsOf(table), S)
BY NoRows DEF IsTable, RowsOf

LEMMA RewrittenType ==
  ASSUME NEW S, NEW table, NEW rows, IsTable(table, S), Rows(rows, S), volume \in Volumes
  PROVE  IsTable(Rewritten(table, rows), S)
BY DEF IsTable, Rewritten, Table

-----------------------------------------------------------------------------
(* Types.                                                                  *)

Fields == {"at", "opt", "cache", "fixes", "matched", "found", "unread", "errors", "open"}
World == lane \in Lanes /\ volume \in Volumes /\ disks \in [Volumes -> [Item -> File]]
Budgeted == budget \in [{"edits", "published", "scans", "troubles"} -> Nat]
HadType == had \in [Item -> SUBSET (Bytes \cup {"gone"})]
ScanType == IsScan \/ scan = [at |-> "idle"]
TablesType == IsTable(cacheFile, CacheRow) /\ IsTable(fixFile, Fix) /\ Rows(fixes, Fix)

LEMMA TypeParts ==
  /\ ScanTypeOK <=>
       World /\ TablesType /\ ScanType /\ HadType /\ blurred \subseteq Item /\ Budgeted
  /\ ScanTypeOK' <=>
       World' /\ TablesType' /\ ScanType' /\ HadType' /\ blurred' \subseteq Item /\ Budgeted'
BY DEF ScanTypeOK, World, Budgeted, HadType, ScanType, TablesType

LEMMA SpendType ==
  ASSUME Budgeted, NEW what \in {"edits", "published", "scans", "troubles"}, Spend(what)
  PROVE  Budgeted' /\ budget'.edits \in Nat /\ budget'.edits <= budget.edits
         /\ (what = "edits" => budget.edits > 0 /\ budget'.edits = budget.edits - 1)
BY DEF Budgeted, Spend

LEMMA MountedType ==
  ASSUME World, NEW p \in Item
  PROVE  /\ mounted[p] \in File /\ mounted[p].of \in Bytes \cup {"gone"}
         /\ mounted[p].raw \in Nat /\ mounted[p].meant \in Nat /\ mounted[p].id \in {0, 1}
         /\ ~Absent(p) => SizeOf(mounted[p]) \in Nat
<1>1. mounted[p] \in File
  BY DEF World, mounted
<1> QED
  BY <1>1, ScanAssumption DEF File, Absent, SizeOf

(* What Becomes does to the scan: at most to the handle on p.              *)
LEMMA BecomesScan ==
  ASSUME ScanTypeOK, NEW p \in Item, NEW o \in File, NEW inPlace \in BOOLEAN,
         inPlace => o.of \in Bytes, Becomes(p, o, inPlace)
  PROVE  /\ ScanType' /\ scan'.at = scan.at
         /\ Active =>
              /\ scan'.opt = scan.opt /\ scan'.cache = scan.cache /\ scan'.fixes = scan.fixes
              /\ scan'.matched = scan.matched /\ scan'.found = scan.found
              /\ scan'.unread = scan.unread /\ scan'.errors = scan.errors
              /\ DOMAIN scan'.open = DOMAIN scan.open
              /\ \A q \in DOMAIN scan.open \ {p} : scan'.open[q] = scan.open[q]
<1>1. CASE ~Opened(p)
  BY <1>1 DEF Becomes, ScanTypeOK, ScanType, Active, IsScan, Rows
<1>2. CASE Opened(p) /\ inPlace
  <2>1. SizeOf(o) \in Nat /\ o.raw \in Nat
    BY <1>2, ScanAssumption DEF SizeOf, File
  <2>2. IsScan /\ scan.at = "read" /\ p \in DOMAIN scan.open /\ scan.open[p] \in Handle
    BY <1>2 DEF Opened, ScanTypeOK, IsScan, Rows
  <2>3. PICK h \in Handle : scan' = [scan EXCEPT !.open[p] = h]
    <3> DEFINE h == [scan.open[p] EXCEPT !.raw = o.raw, !.size = SizeOf(o), !.of = "torn"]
    <3>1. h \in Handle
      BY <2>1, <2>2 DEF Handle
    <3>2. scan' = [scan EXCEPT !.open[p] = h]
      BY <1>2 DEF Becomes
    <3> QED
      BY <3>1, <3>2
  <2> QED
    BY <2>2, <2>3 DEF ScanType, Active, IsScan, Rows
<1>3. CASE Opened(p) /\ ~inPlace
  <2>1. IsScan /\ scan.at = "read" /\ p \in DOMAIN scan.open /\ scan.open[p] \in Handle
    BY <1>3 DEF Opened, ScanTypeOK, IsScan, Rows
  <2>2. CASE scan' = scan
    BY <2>1, <2>2 DEF ScanType, Active, IsScan, Rows
  <2>3. CASE scan' = [scan EXCEPT !.open[p].of = "torn"]
    <3> DEFINE h == [scan.open[p] EXCEPT !.of = "torn"]
    <3>1. h \in Handle
      BY <2>1 DEF Handle
    <3>2. scan' = [scan EXCEPT !.open[p] = h]
      BY <2>3
    <3> QED
      BY <2>1, <3>1, <3>2 DEF ScanType, Active, IsScan, Rows
  <2> QED
    BY <1>3, <2>2, <2>3 DEF Becomes
<1> QED
  BY <1>1, <1>2, <1>3

LEMMA BecomesType ==
  ASSUME ScanTypeOK, NEW p \in Item, NEW o \in File, NEW inPlace \in BOOLEAN,
         inPlace => o.of \in Bytes, Becomes(p, o, inPlace), UNCHANGED <<lane, volume>>
  PROVE  /\ World' /\ HadType' /\ ScanType'
         /\ mounted'[p] = o /\ had'[p] = had[p] \cup {o.of}
         /\ \A q \in Item \ {p} : mounted'[q] = mounted[q] /\ had'[q] = had[q]
         /\ \A v \in Volumes \ {volume} : disks'[v] = disks[v]
<1>1. ScanType'
  BY BecomesScan
<1>2. disks' = [disks EXCEPT ![volume][p] = o] /\ had' = [had EXCEPT ![p] = @ \cup {o.of}]
  BY DEF Becomes
<1>3. o.of \in Bytes \cup {"gone"}
  BY DEF File
<1> QED
  BY <1>1, <1>2, <1>3 DEF ScanTypeOK, World, HadType, mounted

LEMMA WorldTypes ==
  ASSUME ScanTypeOK
  PROVE  /\ \A p \in Item, c \in Bytes, inPlace \in BOOLEAN : Edit(p, c, inPlace) => ScanTypeOK'
         /\ \A p \in Item : Erase(p) => ScanTypeOK'
         /\ \A p \in Item, c \in DOMAIN Meant : Install(p, c) => ScanTypeOK'
         /\ \A v \in Volumes : Swap(v) => ScanTypeOK'
         /\ \A kind \in {"newer", "broken"} : Spoil(kind) => ScanTypeOK'
         /\ RecordFixes => ScanTypeOK'
         /\ FixesAreLost => ScanTypeOK'
<1> USE TypeParts
<1>1. ASSUME NEW p \in Item, NEW c \in Bytes, NEW inPlace \in BOOLEAN, Edit(p, c, inPlace)
      PROVE  ScanTypeOK'
  <2> DEFINE now == Dawn + 2 * budget.edits
             o == [of |-> c, raw |-> now, meant |-> now,
                   id |-> IF inPlace THEN mounted[p].id ELSE 1 - mounted[p].id]
  <2>1. o \in File
    BY MountedType DEF File, Budgeted, Dawn
  <2>2. World' /\ HadType' /\ ScanType'
    BY <1>1, <2>1, BecomesType DEF Edit
  <2>3. Budgeted'
    BY <1>1, SpendType DEF Edit
  <2> QED
    BY <1>1, <2>2, <2>3 DEF Edit, tableVars, TablesType
<1>2. ASSUME NEW p \in Item, Erase(p)
      PROVE  ScanTypeOK'
  <2>1. Nobody \in File
    BY DEF File, Nobody
  <2>2. World' /\ HadType' /\ ScanType'
    BY <1>2, <2>1, BecomesType DEF Erase
  <2>3. Budgeted'
    BY <1>2, SpendType DEF Erase
  <2> QED
    BY <1>2, <2>2, <2>3 DEF Erase, tableVars, TablesType
<1>3. ASSUME NEW p \in Item, NEW c \in DOMAIN Meant, Install(p, c)
      PROVE  ScanTypeOK'
  <2> DEFINE o == [of |-> c, raw |-> Held[Meant[c]], meant |-> Meant[c], id |-> 1 - mounted[p].id]
  <2>1. o \in File
    BY MountedType, ScanAssumption, MtimeAssumption DEF File, Dawn
  <2>2. World' /\ HadType' /\ ScanType'
    BY <1>3, <2>1, BecomesType DEF Install
  <2>3. Budgeted'
    BY <1>3, SpendType DEF Install
  <2>4. Rows(fixes', Fix)
    <3> DEFINE one == [q \in {p} |-> [ondisk |-> o.raw, intended |-> o.meant]]
    <3>1. Rows(one, Fix)
      BY <2>1 DEF Rows, Fix, File
    <3>2. fixes' = fixes \/ fixes' = Over(one, fixes)
      BY <1>3 DEF Install
    <3> HIDE DEF one
    <3>3. Rows(Over(one, fixes), Fix)
      BY <3>1, RowsOver DEF TablesType
    <3> QED
      BY <3>2, <3>3 DEF TablesType
  <2> QED
    BY <1>3, <2>2, <2>3, <2>4 DEF Install, tableVars, TablesType
<1>4. ASSUME NEW v \in Volumes, Swap(v)
      PROVE  ScanTypeOK'
  BY <1>4, SpendType DEF Swap, tableVars, TablesType, World, HadType, ScanType
<1>5. ASSUME NEW kind \in {"newer", "broken"}, Spoil(kind)
      PROVE  ScanTypeOK'
  <2>1. Budgeted'
    BY <1>5, SpendType DEF Spoil
  <2>2. IsTable(cacheFile', CacheRow) /\ IsTable(fixFile', Fix)
    BY <1>5 DEF Spoil, TablesType, IsTable
  <2> QED
    BY <1>5, <2>1, <2>2 DEF Spoil, worldVars, TablesType, World, HadType, ScanType, IsScan
<1>6. ASSUME RecordFixes
      PROVE  ScanTypeOK'
  <2>1. Rows(Over(fixes, RowsOf(fixFile)), Fix)
    BY RowsOver, RowsOfType DEF TablesType
  <2>2. IsTable(fixFile', Fix) /\ Rows(fixes', Fix)
    BY <1>6, <2>1, RewrittenType, NoRows DEF RecordFixes, TablesType, World
  <2> QED
    BY <1>6, <2>2 DEF RecordFixes, worldVars, TablesType, World, HadType, ScanType, IsScan, Budgeted
<1>7. ASSUME FixesAreLost
      PROVE  ScanTypeOK'
  BY <1>7, SpendType, NoRows DEF FixesAreLost, worldVars, tableVars, TablesType, World, HadType, ScanType, IsScan
<1> QED
  BY <1>1, <1>2, <1>3, <1>4, <1>5, <1>6, <1>7

(* A file the walk meets.                                                  *)
LEMMA PreparedIs ==
  ASSUME ScanTypeOK, Active, NEW p \in Item, ~Absent(p)
  PROVE  /\ PrepareFile(p) \in Meeting
         /\ PrepareFile(p).raw = mounted[p].raw /\ PrepareFile(p).size = SizeOf(mounted[p])
         /\ PrepareFile(p).mtime = ReportedMtime(p) /\ PrepareFile(p).id = mounted[p].id
         /\ PrepareFile(p).digest = ReusableCachedDigest(p)
<1>1. ReportedMtime(p) \in Nat
  BY MountedType, TypeParts DEF ReportedMtime, Corrected, ScanTypeOK, Active, IsScan, Rows, Fix
<1>2. ReusableCachedDigest(p) \in Digest
  <2>1. NoDigest \in Digest
    BY DEF NoDigest, Digest
  <2>2. p \in DOMAIN scan.cache => scan.cache[p].digest \in Digest
    BY DEF ScanTypeOK, Active, IsScan, Rows, CacheRow
  <2> QED
    BY <2>1, <2>2 DEF ReusableCachedDigest
<1> QED
  BY <1>1, <1>2, MountedType, TypeParts DEF PrepareFile, Meeting

LEMMA ObserveIs ==
  ASSUME ScanTypeOK, Active, NEW listed \in SUBSET Item, NEW to \in {"folder", "read"},
         Observe(listed, to)
  PROVE  LET seen == {p \in listed \cap scan.opt.domain : ~Absent(p)} IN
         /\ ScanType' /\ blurred' \subseteq Item /\ blurred \subseteq blurred'
         /\ scan'.at = to /\ scan'.opt = scan.opt /\ scan'.cache = scan.cache
         /\ scan'.fixes = scan.fixes /\ scan'.unread = scan.unread /\ scan'.errors = scan.errors
         /\ scan'.open = scan.open
         /\ scan'.matched = scan.matched \cup {p \in seen : Corrected(p)}
         /\ DOMAIN scan'.found = seen \cup DOMAIN scan.found
         /\ \A p \in seen : scan'.found[p] = PrepareFile(p)
         /\ \A p \in DOMAIN scan.found \ seen : scan'.found[p] = scan.found[p]
<1> DEFINE seen == {p \in listed \cap scan.opt.domain : ~Absent(p)}
<1>1. IsScan
  BY DEF ScanTypeOK, Active
<1>2. PICK met : met = [p \in seen |-> PrepareFile(p)]
  OBVIOUS
<1>3. DOMAIN met = seen /\ \A p \in seen : met[p] = PrepareFile(p)
  BY <1>2
<1>4. /\ Rows(Over(met, scan.found), Meeting)
      /\ DOMAIN Over(met, scan.found) = seen \cup DOMAIN scan.found
      /\ \A p \in seen : Over(met, scan.found)[p] = PrepareFile(p)
      /\ \A p \in DOMAIN scan.found \ seen : Over(met, scan.found)[p] = scan.found[p]
  <2>1. Rows(met, Meeting)
    BY <1>3, PreparedIs DEF Rows
  <2>2. Rows(scan.found, Meeting)
    BY <1>1 DEF IsScan
  <2> HIDE DEF seen
  <2>3. /\ Rows(Over(met, scan.found), Meeting)
        /\ DOMAIN Over(met, scan.found) = DOMAIN met \cup DOMAIN scan.found
        /\ \A p \in DOMAIN met : Over(met, scan.found)[p] = met[p]
        /\ \A p \in DOMAIN scan.found \ DOMAIN met : Over(met, scan.found)[p] = scan.found[p]
    BY <2>1, <2>2 DEF Over, Rows
  <2> QED
    BY <1>3, <2>3
<1>6. scan' = [scan EXCEPT !.at = to, !.found = Over(met, scan.found),
                           !.matched = scan.matched \cup {p \in seen : Corrected(p)}]
  BY <1>2 DEF Observe
<1>5. blurred' \subseteq Item /\ blurred \subseteq blurred'
  BY DEF Observe, ScanTypeOK
<1> QED
  BY <1>1, <1>4, <1>5, <1>6 DEF IsScan, ScanType

LEMMA WalkTypes ==
  ASSUME ScanTypeOK
  PROVE  /\ \A opt \in Options : ScanBegins(opt) => ScanTypeOK'
         /\ ListRoot => ScanTypeOK'
         /\ RootIsUnreadable => ScanTypeOK'
         /\ ListFolder => ScanTypeOK'
         /\ FolderVanished => ScanTypeOK'
         /\ FolderIsUnreadable => ScanTypeOK'
<1> USE TypeParts
<1> USE DEF worldVars, tableVars, TablesType, World, Budgeted, HadType
<1>1. ASSUME NEW opt \in Options, ScanBegins(opt)
      PROVE  ScanTypeOK'
  <2>1. ScanType'
    <3>1. Rows(scan'.cache, CacheRow) /\ Rows(scan'.fixes, Fix)
      BY <1>1, RowsOfType, NoRows DEF ScanBegins
    <3>2. Rows(scan'.found, Meeting) /\ Rows(scan'.open, Handle)
      BY <1>1, NoRows DEF ScanBegins
    <3> QED
      BY <1>1, <3>1, <3>2 DEF ScanBegins, ScanType, IsScan
  <2>2. Budgeted'
    BY <1>1, SpendType DEF ScanBegins
  <2>3. HadType'
    BY <1>1, MountedType DEF ScanBegins
  <2> QED
    BY <1>1, <2>1, <2>2, <2>3 DEF ScanBegins
<1>2. ASSUME ListRoot
      PROVE  ScanTypeOK'
  <2>1. Item \ Below \in SUBSET Item /\ Active
    BY <1>2 DEF ListRoot, Active
  <2>2. PICK to \in {"folder", "read"} : Observe(Item \ Below, to)
    BY <1>2 DEF ListRoot
  <2>3. ScanType' /\ blurred' \subseteq Item
    BY <2>1, <2>2, ObserveIs
  <2> QED
    BY <1>2, <2>3 DEF ListRoot
<1>3. ASSUME RootIsUnreadable
      PROVE  ScanTypeOK'
  BY <1>3, SpendType DEF RootIsUnreadable, ScanType
<1>4. ASSUME ListFolder
      PROVE  ScanTypeOK'
  <2>1. Below \in SUBSET Item /\ Active
    BY <1>4, ScanAssumption DEF ListFolder, Active
  <2>2. Observe(Below, "read")
    BY <1>4 DEF ListFolder
  <2>3. ScanType' /\ blurred' \subseteq Item
    BY <2>1, <2>2, ObserveIs
  <2> QED
    BY <1>4, <2>3 DEF ListFolder
<1>5. ASSUME FolderVanished
      PROVE  ScanTypeOK'
  <2>1. ScanType'
    BY <1>5 DEF FolderVanished, ScanType, IsScan
  <2> QED
    BY <1>5, <2>1 DEF FolderVanished
<1>6. ASSUME FolderIsUnreadable
      PROVE  ScanTypeOK'
  <2>1. ScanType'
    BY <1>6, ScanAssumption DEF FolderIsUnreadable, ScanType, IsScan
  <2> QED
    BY <1>6, <2>1, SpendType DEF FolderIsUnreadable
<1> QED
  BY <1>1, <1>2, <1>3, <1>4, <1>5, <1>6

(* A read that fails, one that begins, and one that succeeds.              *)
LEMMA FailedIs ==
  ASSUME ScanTypeOK, Active, NEW p \in DOMAIN scan.found, scan' = Failed(p)
  PROVE  /\ ScanType' /\ scan'.at = scan.at /\ scan'.opt = scan.opt /\ scan'.cache = scan.cache
         /\ scan'.fixes = scan.fixes /\ scan'.matched = scan.matched /\ scan'.unread = scan.unread
         /\ scan'.errors = scan.errors /\ DOMAIN scan'.found = DOMAIN scan.found
         /\ \A q \in DOMAIN scan.found :
              /\ scan'.found[q].size = scan.found[q].size /\ scan'.found[q].raw = scan.found[q].raw
              /\ scan'.found[q].mtime = scan.found[q].mtime /\ scan'.found[q].id = scan.found[q].id
              /\ scan'.found[q].digest = scan.found[q].digest
         /\ DOMAIN scan'.open = DOMAIN scan.open \ {p}
         /\ \A q \in DOMAIN scan'.open : scan'.open[q] = scan.open[q]
<1>1. IsScan
  BY DEF ScanTypeOK, Active
<1>2. PICK met : met = [scan.found[p] EXCEPT !.failed = TRUE]
  OBVIOUS
<1>3. PICK open : open = Restrict(scan.open, DOMAIN scan.open \ {p})
  OBVIOUS
<1>4. scan' = [scan EXCEPT !.found[p] = met, !.open = open]
  BY <1>2, <1>3 DEF Failed
<1>5. scan.found[p] \in Meeting
  BY <1>1 DEF IsScan, Rows
<1>6. /\ met \in Meeting /\ met.size = scan.found[p].size /\ met.raw = scan.found[p].raw
      /\ met.mtime = scan.found[p].mtime /\ met.id = scan.found[p].id
      /\ met.digest = scan.found[p].digest
  BY <1>2, <1>5 DEF Meeting
<1>7. /\ DOMAIN open = DOMAIN scan.open \ {p} /\ \A q \in DOMAIN open : open[q] = scan.open[q]
      /\ Rows(open, Handle)
  BY <1>1, <1>3 DEF Restrict, IsScan, Rows
<1> QED
  BY <1>1, <1>4, <1>6, <1>7 DEF IsScan, Rows, ScanType

LEMMA OpenIs ==
  ASSUME ScanTypeOK, NEW p \in Item, OpenFile(p), ~Absent(p)
  PROVE  /\ ScanType' /\ scan'.at = scan.at /\ scan'.opt = scan.opt /\ scan'.cache = scan.cache
         /\ scan'.fixes = scan.fixes /\ scan'.matched = scan.matched /\ scan'.unread = scan.unread
         /\ scan'.errors = scan.errors /\ scan'.found = scan.found
         /\ DOMAIN scan'.open = DOMAIN scan.open \cup {p}
         /\ scan'.open[p].of = mounted[p].of
         /\ \A q \in DOMAIN scan.open : scan'.open[q] = scan.open[q]
<1>1. IsScan /\ p \notin DOMAIN scan.open
  BY DEF ScanTypeOK, OpenFile, Pending, Opened
<1>2. OpenHandle(mounted[p]) \in Handle /\ OpenHandle(mounted[p]).of = mounted[p].of
  BY MountedType, TypeParts DEF OpenHandle, Handle, Absent
<1>3. PICK one : one = [q \in {p} |-> OpenHandle(mounted[p])]
  OBVIOUS
<1>4. scan' = [scan EXCEPT !.open = Over(one, scan.open)]
  BY <1>3 DEF OpenFile
<1>5. DOMAIN one = {p} /\ one[p] = OpenHandle(mounted[p])
  BY <1>3
<1>6. /\ DOMAIN Over(one, scan.open) = DOMAIN scan.open \cup {p}
      /\ Over(one, scan.open)[p] = OpenHandle(mounted[p])
      /\ \A q \in DOMAIN scan.open : Over(one, scan.open)[q] = scan.open[q]
  BY <1>1, <1>5 DEF Over
<1>7. Rows(Over(one, scan.open), Handle)
  BY <1>1, <1>2, <1>6 DEF IsScan, Rows
<1> QED
  BY <1>1, <1>2, <1>4, <1>6, <1>7 DEF IsScan, ScanType

LEMMA FinishIs ==
  ASSUME ScanTypeOK, NEW p \in DOMAIN scan.found, FinishFile(p), Unchanged(p)
  PROVE  /\ ScanType' /\ scan'.at = scan.at /\ scan'.opt = scan.opt /\ scan'.cache = scan.cache
         /\ scan'.fixes = scan.fixes /\ scan'.matched = scan.matched /\ scan'.unread = scan.unread
         /\ scan'.errors = scan.errors /\ DOMAIN scan'.found = DOMAIN scan.found
         /\ \A q \in DOMAIN scan.found :
              /\ scan'.found[q].size = scan.found[q].size /\ scan'.found[q].raw = scan.found[q].raw
              /\ scan'.found[q].mtime = scan.found[q].mtime /\ scan'.found[q].id = scan.found[q].id
         /\ \A q \in DOMAIN scan.found \ {p} : scan'.found[q].digest = scan.found[q].digest
         /\ scan'.found[p].digest.of = scan.open[p].of
         /\ DOMAIN scan'.open = DOMAIN scan.open \ {p}
         /\ \A q \in DOMAIN scan'.open : scan'.open[q] = scan.open[q]
<1>1. IsScan /\ p \in DOMAIN scan.open
  BY DEF ScanTypeOK, FinishFile, Opened
<1>2. PICK digest : digest = [of |-> scan.open[p].of, made |-> MadeBy(p)]
  OBVIOUS
<1>3. PICK met : met = [scan.found[p] EXCEPT !.digest = digest]
  OBVIOUS
<1>4. PICK open : open = Restrict(scan.open, DOMAIN scan.open \ {p})
  OBVIOUS
<1>5. scan' = [scan EXCEPT !.found[p] = met, !.open = open]
  BY <1>2, <1>3, <1>4 DEF FinishFile
<1>6. scan.found[p] \in Meeting /\ scan.open[p] \in Handle
  BY <1>1 DEF IsScan, Rows
<1>7. digest \in Digest /\ digest.of = scan.open[p].of
  BY <1>2, <1>6 DEF Digest, Handle, MadeBy
<1>8. /\ met \in Meeting /\ met.size = scan.found[p].size /\ met.raw = scan.found[p].raw
      /\ met.mtime = scan.found[p].mtime /\ met.id = scan.found[p].id /\ met.digest = digest
  BY <1>3, <1>6, <1>7 DEF Meeting
<1>9. /\ DOMAIN open = DOMAIN scan.open \ {p} /\ \A q \in DOMAIN open : open[q] = scan.open[q]
      /\ Rows(open, Handle)
  BY <1>1, <1>4 DEF Restrict, IsScan, Rows
<1> QED
  BY <1>1, <1>5, <1>7, <1>8, <1>9 DEF IsScan, Rows, ScanType

(* The rows a scan saves.                                                  *)
LEMMA MergedIs ==
  ASSUME ScanTypeOK, Active
  PROVE  /\ Rows(MergedRows, CacheRow)
         /\ \A p \in DOMAIN MergedRows :
              \/ p \in DOMAIN scan.found /\ Met(p).digest # NoDigest /\ MergedRows[p] = Row(p)
              \/ p \in DOMAIN RowsOf(cacheFile) /\ MergedRows[p] = RowsOf(cacheFile)[p]
<1>1. IsScan /\ Rows(RowsOf(cacheFile), CacheRow)
  BY RowsOfType DEF ScanTypeOK, Active
<1>2. PICK prior : prior = IF Complete THEN Restrict(RowsOf(cacheFile), RetainAbsent \cap DOMAIN RowsOf(cacheFile))
                           ELSE RowsOf(cacheFile)
  OBVIOUS
<1>3. DOMAIN prior \subseteq DOMAIN RowsOf(cacheFile) /\ \A p \in DOMAIN prior : prior[p] = RowsOf(cacheFile)[p]
  BY <1>2 DEF Restrict
<1>4. PICK unseen : unseen = Restrict(prior, DOMAIN prior \ DOMAIN scan.found)
  OBVIOUS
<1>5. DOMAIN unseen \subseteq DOMAIN prior /\ \A p \in DOMAIN unseen : unseen[p] = prior[p]
  BY <1>4 DEF Restrict
<1>6. PICK fresh : fresh = [p \in {p \in DOMAIN scan.found : scan.found[p].digest # NoDigest} |-> Row(p)]
  OBVIOUS
<1>7. /\ DOMAIN fresh = {p \in DOMAIN scan.found : scan.found[p].digest # NoDigest}
      /\ \A p \in DOMAIN fresh : fresh[p] = Row(p)
  BY <1>6
<1>8. MergedRows = Over(fresh, unseen)
  BY <1>2, <1>4, <1>6 DEF MergedRows
<1>9. \A p \in DOMAIN scan.found : Row(p) \in CacheRow
  BY <1>1 DEF IsScan, Rows, Row, CacheRow, Meeting, Label, Labels
<1>10. /\ DOMAIN MergedRows = DOMAIN fresh \cup DOMAIN unseen
       /\ \A p \in DOMAIN fresh : MergedRows[p] = fresh[p]
       /\ \A p \in DOMAIN unseen \ DOMAIN fresh : MergedRows[p] = unseen[p]
  BY <1>8 DEF Over
<1>11. \A p \in DOMAIN MergedRows :
         \/ p \in DOMAIN scan.found /\ Met(p).digest # NoDigest /\ MergedRows[p] = Row(p)
         \/ p \in DOMAIN RowsOf(cacheFile) /\ MergedRows[p] = RowsOf(cacheFile)[p]
  BY <1>3, <1>5, <1>7, <1>10 DEF Met
<1> QED
  BY <1>1, <1>9, <1>11 DEF Rows, IsScan

LEMMA ReadTypes ==
  ASSUME ScanTypeOK, Reading
  PROVE  /\ \A p \in Item : OpenFile(p) => ScanTypeOK'
         /\ \A p \in Item : FinishFile(p) => ScanTypeOK'
         /\ CancelScan => ScanTypeOK'
         /\ SaveCache => ScanTypeOK'
         /\ ReconcileFixes => ScanTypeOK'
<1> USE TypeParts
<1> USE DEF worldVars, tableVars, TablesType, World, Budgeted, HadType
<1>1. ASSUME NEW p \in Item, OpenFile(p)
      PROVE  ScanTypeOK'
  <2>1. ScanType'
    <3>1. CASE Absent(p)
      BY <1>1, <3>1, FailedIs DEF OpenFile, Pending, Active
    <3>2. CASE ~Absent(p)
      BY <1>1, <3>2, OpenIs
    <3> QED
      BY <3>1, <3>2
  <2> QED
    BY <1>1, <2>1 DEF OpenFile
<1>2. ASSUME NEW p \in Item, FinishFile(p)
      PROVE  ScanTypeOK'
  <2>1. p \in DOMAIN scan.found /\ Active
    BY <1>2 DEF FinishFile, Opened, Active, Reading
  <2>2. ScanType'
    <3>1. CASE Unchanged(p)
      BY <1>2, <2>1, <3>1, FinishIs
    <3>2. CASE ~Unchanged(p)
      BY <1>2, <2>1, <3>2, FailedIs DEF FinishFile
    <3> QED
      BY <3>1, <3>2
  <2> QED
    BY <1>2, <2>2 DEF FinishFile
<1>3. ASSUME CancelScan
      PROVE  ScanTypeOK'
  BY <1>3, SpendType DEF CancelScan, ScanType
<1>4. ASSUME SaveCache
      PROVE  ScanTypeOK'
  <2>1. ScanType' /\ Active
    BY <1>4 DEF SaveCache, ScanType, IsScan, Active
  <2>2. IsTable(cacheFile', CacheRow)
    <3>1. Rows(MergedRows, CacheRow)
      BY <2>1, MergedIs
    <3> QED
      BY <1>4, <3>1, RewrittenType DEF SaveCache
  <2>3. Budgeted'
    BY <1>4, SpendType DEF SaveCache
  <2> QED
    BY <1>4, <2>1, <2>2, <2>3 DEF SaveCache
<1>5. ASSUME ReconcileFixes
      PROVE  ScanTypeOK'
  <2>1. ScanType' /\ IsScan
    BY <1>5 DEF ReconcileFixes, ScanType, IsScan
  <2>2. \A some \in SUBSET DOMAIN scan.fixes : Rows(Restrict(scan.fixes, some), Fix)
    BY <2>1 DEF IsScan, Rows, Restrict
  <2>3. IsTable(fixFile', Fix)
    BY <1>5, <2>2, RewrittenType DEF ReconcileFixes
  <2> QED
    BY <1>5, <2>1, <2>3 DEF ReconcileFixes
<1> QED
  BY <1>1, <1>2, <1>3, <1>4, <1>5

LEMMA ScanTypeStep ==
  ASSUME ScanTypeOK, Reading, [ScanNext]_scanVars
  PROVE  ScanTypeOK'
<1>1. CASE ScanNext
  <2>1. CASE \E p \in Item, c \in Bytes, inPlace \in BOOLEAN : Edit(p, c, inPlace)
    BY <2>1, WorldTypes
  <2>2. CASE \E p \in Item, c \in DOMAIN Meant : Install(p, c)
    BY <2>2, WorldTypes
  <2>3. CASE \/ \E p \in Item : Erase(p)
             \/ \E v \in Volumes : Swap(v)
             \/ \E kind \in {"newer", "broken"} : Spoil(kind)
             \/ RecordFixes \/ FixesAreLost
    BY <2>3, WorldTypes
  <2>4. CASE \/ \E opt \in Options : ScanBegins(opt)
             \/ ListRoot \/ RootIsUnreadable \/ ListFolder \/ FolderVanished \/ FolderIsUnreadable
    BY <2>4, WalkTypes
  <2>5. CASE \/ \E p \in Item : OpenFile(p) \/ FinishFile(p)
             \/ CancelScan \/ SaveCache \/ ReconcileFixes
    BY <2>5, ReadTypes
  <2> QED
    BY <1>1, <2>1, <2>2, <2>3, <2>4, <2>5 DEF ScanNext
<1>2. CASE UNCHANGED scanVars
  BY <1>2 DEF scanVars, worldVars, tableVars, ScanTypeOK, IsScan
<1> QED
  BY <1>1, <1>2

-----------------------------------------------------------------------------
(* Truth.                                                                  *)

(* What may turn up at a path: nothing, an edit or what an Apply installs. *)
Installed(o) == \E c \in DOMAIN Meant : o.of = c /\ o.meant = Meant[c] /\ o.raw = Held[Meant[c]]
Edited(o) == o.raw = EditTime /\ budget.edits > 0 /\ budget'.edits < budget.edits
Arrives(o) == o.of = "gone" \/ Edited(o) \/ Installed(o)

LEMMA MeantIs ==
  /\ \A c \in DOMAIN Meant :
       /\ Meant[c] \in Nat /\ Meant[c] <= Dawn
       /\ Held[Meant[c]] \in Nat /\ Held[Meant[c]] <= Dawn
  /\ \A c, d \in DOMAIN Meant : Meant[c] = Meant[d] /\ Length[c] = Length[d] => c = d
  /\ DOMAIN Meant \subseteq Bytes
<1>1. \A c \in DOMAIN Meant : Meant[c] \in 0..10 /\ Held[Meant[c]] \in 0..10
  BY MtimeAssumption DEF Dawn
<1>2. \A c, d \in DOMAIN Meant : Meant[c] = Meant[d] /\ Length[c] = Length[d] => c = d
  BY MtimeAssumption
<1> QED
  BY <1>1, <1>2, ScanAssumption DEF Dawn

LEMMA LaterClock ==
  ASSUME Budgeted, budget'.edits \in Nat, budget'.edits <= budget.edits, NEW m \in Nat
  PROVE  Clocked(m) => Clocked(m)'
BY DEF Clocked, EditTime, Budgeted, Dawn

LEMMA EditIsLater ==
  ASSUME Budgeted, NEW o \in File, Edited(o), NEW m \in Nat, Clocked(m)
  PROVE  o.raw # m /\ o.raw > Dawn
BY DEF Clocked, EditTime, Budgeted, Dawn, Edited, File

LEMMA TellsStays ==
  ASSUME ScanTypeOK, NEW p \in Item, NEW o \in File, Arrives(o),
         disks' = [disks EXCEPT ![volume][p] = o],
         budget'.edits \in Nat, budget'.edits <= budget.edits,
         NEW v \in Volumes, NEW q \in Item, NEW size \in Nat, NEW m \in Nat, NEW bytes,
         Tells(v, q, size, m, bytes)
  PROVE  Tells(v, q, size, m, bytes)'
<1>1. Budgeted /\ World
  BY TypeParts
<1>2. Clocked(m)'
  BY <1>1, LaterClock DEF Tells
<1>3. ASSUME m <= Dawn, Held[m] = m, NEW c \in DOMAIN Meant, m = Meant[c], size = Length[c]
      PROVE  bytes = c
  BY <1>3 DEF Tells
<1>4. CASE v = volume /\ q = p
  <2>1. disks'[v][q] = o
    BY <1>1, <1>4 DEF World
  <2>2. ASSUME o.of # "gone", o.raw = o.meant, o.raw = m, Length[o.of] = size
        PROVE  bytes = o.of
    <3>1. CASE Edited(o)
      BY <1>1, <2>2, <3>1, EditIsLater DEF Tells
    <3>2. CASE Installed(o)
      <4>1. PICK c \in DOMAIN Meant : o.of = c /\ o.meant = Meant[c] /\ o.raw = Held[Meant[c]]
        BY <3>2 DEF Installed
      <4>2. m = Meant[c] /\ size = Length[c] /\ m <= Dawn /\ Held[m] = m
        BY <2>2, <4>1, MeantIs
      <4> QED
        BY <1>3, <4>1, <4>2
    <3> QED
      BY <2>2, <3>1, <3>2 DEF Arrives
  <2> QED
    BY <1>2, <1>3, <2>1, <2>2 DEF Tells
<1>5. CASE ~(v = volume /\ q = p)
  <2>1. disks'[v][q] = disks[v][q]
    BY <1>1, <1>5 DEF World
  <2> QED
    BY <1>2, <1>3, <2>1 DEF Tells
<1> QED
  BY <1>4, <1>5

LEMMA DisksStay ==
  ASSUME ScanTypeOK, DisksSound, NEW p \in Item, NEW o \in File, Arrives(o),
         disks' = [disks EXCEPT ![volume][p] = o],
         budget'.edits \in Nat, budget'.edits <= budget.edits
  PROVE  DisksSound'
<1>1. Budgeted /\ World
  BY TypeParts
<1>2. ASSUME NEW f \in File, FileSound(f)
      PROVE  FileSound(f)'
  <2>1. f.raw \in Nat
    BY DEF File
  <2> QED
    BY <1>1, <1>2, <2>1, LaterClock DEF FileSound, Kept
<1>3. FileSound(o)'
  <2>1. CASE Edited(o)
    <3>1. o.raw \in Nat /\ o.raw > Dawn /\ Clocked(o.raw)'
      BY <1>1, <2>1 DEF Edited, Clocked, EditTime, Budgeted, Dawn, File
    <3>2. \A c \in DOMAIN Meant : o.raw # Meant[c]
      BY <3>1, MeantIs DEF Dawn
    <3>3. Kept(o.raw)
      BY <3>1 DEF Kept, Dawn
    <3> QED
      BY <3>1, <3>2, <3>3 DEF FileSound, Kept
  <2>2. CASE Installed(o)
    <3>1. PICK c \in DOMAIN Meant : o.of = c /\ o.meant = Meant[c] /\ o.raw = Held[Meant[c]]
      BY <2>2 DEF Installed
    <3>2. Clocked(o.raw)'
      BY <3>1, MeantIs DEF Clocked
    <3> QED
      BY <3>1, <3>2, MeantIs DEF FileSound, Kept
  <2>3. CASE o.of = "gone"
    BY <2>3 DEF FileSound
  <2> QED
    BY <2>1, <2>2, <2>3 DEF Arrives
<1>4. ASSUME NEW v \in Volumes, NEW q \in Item
      PROVE  FileSound(disks[v][q])'
  <2>1. PICK f \in File : f = disks'[v][q]
    BY <1>1 DEF World
  <2>2. f = o \/ f = disks[v][q]
    BY <1>1, <2>1 DEF World
  <2>3. FileSound(f)'
    BY <1>2, <1>3, <2>2 DEF DisksSound
  <2> QED
    BY <2>1, <2>3 DEF FileSound
<1> QED
  BY <1>4 DEF DisksSound

LEMMA RowsStay ==
  ASSUME ScanTypeOK, NEW p \in Item, NEW o \in File, Arrives(o),
         disks' = [disks EXCEPT ![volume][p] = o], blurred \subseteq blurred',
         budget'.edits \in Nat, budget'.edits <= budget.edits,
         NEW v \in Volumes, NEW rows, Rows(rows, CacheRow), RowsTell(v, rows)
  PROVE  RowsTell(v, rows)'
<1>1. ASSUME NEW q \in DOMAIN rows \ blurred'
      PROVE  Tells(v, q, rows[q].size, rows[q].mtime, rows[q].digest.of)'
  <2>1. q \in Item /\ rows[q] \in CacheRow /\ q \in DOMAIN rows \ blurred
    BY <1>1 DEF Rows
  <2>2. rows[q].size \in Nat /\ rows[q].mtime \in Nat
    BY <2>1 DEF CacheRow
  <2>3. Tells(v, q, rows[q].size, rows[q].mtime, rows[q].digest.of)
    BY <2>1 DEF RowsTell
  <2> QED
    BY <2>1, <2>2, <2>3, TellsStays
<1> QED
  BY <1>1 DEF RowsTell

LEMMA WorldStep ==
  ASSUME ScanIInv, ScanTypeOK', NEW p \in Item, NEW o \in File, NEW inPlace \in BOOLEAN,
         inPlace => o.of \in Bytes, Becomes(p, o, inPlace), Arrives(o),
         budget'.edits <= budget.edits, UNCHANGED <<lane, volume, cacheFile, fixFile>>,
         Needed(fixes'), blurred \subseteq blurred', blurred' \subseteq blurred \cup {p},
         o.of # "gone" /\ TakenFor(o, p) => p \in blurred'
  PROVE  Truth'
<1>1. /\ mounted'[p] = o /\ had'[p] = had[p] \cup {o.of}
      /\ \A q \in Item \ {p} : mounted'[q] = mounted[q] /\ had'[q] = had[q]
  BY BecomesType DEF ScanIInv
<1>2. /\ scan'.at = scan.at
      /\ Active =>
           /\ scan'.opt = scan.opt /\ scan'.cache = scan.cache /\ scan'.fixes = scan.fixes
           /\ scan'.matched = scan.matched /\ scan'.found = scan.found
           /\ scan'.unread = scan.unread /\ scan'.errors = scan.errors
           /\ DOMAIN scan'.open = DOMAIN scan.open
           /\ \A q \in DOMAIN scan.open \ {p} : scan'.open[q] = scan.open[q]
  BY BecomesScan DEF ScanIInv
<1>3. disks' = [disks EXCEPT ![volume][p] = o]
  BY DEF Becomes
<1>4. budget.edits \in Nat /\ budget'.edits \in Nat /\ Budgeted /\ World
  BY TypeParts DEF Budgeted, ScanIInv
<1>5. Active <=> Active'
  BY <1>2 DEF Active
<1>6. DisksSound'
  BY <1>3, <1>4, DisksStay DEF ScanIInv, Truth
<1>7. FixesSound'
  BY <1>2, <1>5 DEF ScanIInv, Truth, FixesSound, Needed
<1>8. TablesTell'
  <2>1. ASSUME Active
        PROVE  RowsTell(volume, scan.cache)'
    <3>1. PICK v, rows : v = volume /\ rows = scan.cache
      OBVIOUS
    <3>2. Rows(rows, CacheRow) /\ v \in Volumes /\ RowsTell(v, rows)
      BY <2>1, <3>1, <1>4 DEF ScanIInv, Truth, TablesTell, ScanTypeOK, Active, IsScan, World
    <3>3. RowsTell(v, rows)'
      BY <1>3, <1>4, <3>2, RowsStay DEF ScanIInv
    <3>4. volume' = v /\ scan'.cache = rows
      BY <1>2, <2>1, <3>1
    <3> QED
      BY <3>3, <3>4 DEF RowsTell, Tells, Clocked, EditTime
  <2>2. ASSUME cacheFile.bound \in Volumes
        PROVE  RowsTell(cacheFile.bound, cacheFile.rows)'
    <3>1. PICK v, rows : v = cacheFile.bound /\ rows = cacheFile.rows
      OBVIOUS
    <3>2. Rows(rows, CacheRow) /\ v \in Volumes /\ RowsTell(v, rows)
      BY <2>2, <3>1 DEF ScanIInv, Truth, TablesTell, ScanTypeOK, IsTable
    <3>3. RowsTell(v, rows)'
      BY <1>3, <1>4, <3>2, RowsStay DEF ScanIInv
    <3> QED
      BY <3>1, <3>3 DEF RowsTell, Tells, Clocked, EditTime
  <2> QED
    BY <1>5, <2>1, <2>2 DEF TablesTell
<1>9. FoundTells'
  <2>1. ASSUME Active, NEW q \in DOMAIN scan.found
        PROVE  /\ Clocked(Met(q).raw)'
               /\ (Met(q).digest # NoDigest /\ q \notin blurred)' =>
                     /\ (Met(q).digest.of \in had[q])'
                     /\ Tells(volume, q, Met(q).size, Met(q).mtime, Met(q).digest.of)'
    <3>1. PICK met : met = Met(q)
      OBVIOUS
    <3>2. q \in Item /\ met \in Meeting
      BY <2>1, <3>1 DEF ScanIInv, ScanTypeOK, Active, IsScan, Rows, Met
    <3>3. met.raw \in Nat /\ met.size \in Nat /\ met.mtime \in Nat
      BY <3>2 DEF Meeting
    <3>4. met = Met(q)' /\ volume' = volume
      BY <1>2, <2>1, <3>1 DEF Met
    <3>5. Clocked(met.raw)'
      BY <1>4, <2>1, <3>1, <3>3, LaterClock DEF ScanIInv, Truth, FoundTells
    <3>6. ASSUME met.digest # NoDigest, q \notin blurred'
          PROVE  /\ met.digest.of \in had'[q]
                 /\ Tells(volume, q, met.size, met.mtime, met.digest.of)'
      <4>1. /\ met.digest.of \in had[q]
            /\ Tells(volume, q, met.size, met.mtime, met.digest.of)
        BY <2>1, <3>1, <3>6 DEF ScanIInv, Truth, FoundTells
      <4>2. had[q] \subseteq had'[q]
        BY <1>1, <3>2
      <4>3. PICK v : v = volume
        OBVIOUS
      <4>4. Tells(v, q, met.size, met.mtime, met.digest.of)'
        BY <1>3, <1>4, <3>2, <3>3, <4>1, <4>3, TellsStays DEF ScanIInv, World
      <4> QED
        BY <3>4, <4>1, <4>2, <4>3, <4>4 DEF Tells, Clocked, EditTime
    <3> QED
      BY <3>4, <3>5, <3>6 DEF Clocked, EditTime, Tells
  <2>2. ASSUME Active, NEW q \in DOMAIN scan.found
        PROVE  (Met(q).mtime = Met(q).raw \/ (Met(q).mtime <= Dawn /\ Held[Met(q).mtime] # Met(q).mtime))'
    BY <1>2, <2>2 DEF ScanIInv, Truth, FoundTells, Met
  <2> QED
    BY <1>2, <1>5, <2>1, <2>2 DEF FoundTells
<1>10. StandsAsMet'
  <2>1. ASSUME scan.at \in {"folder", "read"}, NEW q \in DOMAIN scan.found \ blurred', Standing(q)'
        PROVE  /\ (scan.opt.hash /\ Met(q).mtime = Met(q).raw => mounted[q].raw = mounted[q].meant)'
               /\ (q \in DOMAIN scan.open => scan.open[q].of = mounted[q].of)'
    <3>1. Active /\ q \in Item
      BY <2>1 DEF Active, ScanIInv, ScanTypeOK, IsScan, Rows
    <3>2. q # p
      BY <1>1, <1>2, <2>1, <3>1 DEF Standing, Absent, SizeOf, SameFile, TakenFor, Met
    <3>3. Standing(q)
      BY <1>1, <1>2, <2>1, <3>1, <3>2 DEF Standing, Absent, SizeOf, SameFile, Met
    <3> QED
      BY <1>1, <1>2, <2>1, <3>1, <3>2, <3>3 DEF ScanIInv, Truth, StandsAsMet, Met
  <2> QED
    BY <1>2, <2>1 DEF StandsAsMet, Active
<1>11. Reading' /\ MatchIsSeen'
  BY <1>2, <1>5 DEF Reading, MatchIsSeen, Met, ScanIInv, Truth
<1>12. HadIsNow'
  BY <1>1, <1>5 DEF HadIsNow, ScanIInv, Truth
<1>13. PassedWasAway'
  <2>1. \A q \in Item : had[q] \subseteq had'[q]
    BY <1>1
  <2>2. ASSUME Active
        PROVE  scan.opt.domain \subseteq Item
    BY <2>2, ScanAssumption DEF ScanIInv, ScanTypeOK, Active, IsScan
  <2> QED
    BY <1>2, <2>1, <2>2 DEF PassedWasAway, ScanIInv, Truth, Active
<1> QED
  BY <1>6, <1>7, <1>8, <1>9, <1>10, <1>11, <1>12, <1>13 DEF Truth

LEMMA PeopleKeepTruth ==
  ASSUME ScanIInv, ScanTypeOK'
  PROVE  /\ \A p \in Item, c \in Bytes, inPlace \in BOOLEAN : Edit(p, c, inPlace) => Truth'
         /\ \A p \in Item : Erase(p) => Truth'
         /\ \A p \in Item, c \in DOMAIN Meant : Install(p, c) => Truth'
<1>1. Budgeted /\ World /\ Needed(fixes) /\ ScanTypeOK
  BY TypeParts DEF ScanIInv, Truth, FixesSound
<1>2. ASSUME NEW p \in Item, NEW c \in Bytes, NEW inPlace \in BOOLEAN, Edit(p, c, inPlace)
      PROVE  Truth'
  <2>1. PICK o : o = [of |-> c, raw |-> EditTime, meant |-> EditTime,
                      id |-> IF inPlace THEN mounted[p].id ELSE 1 - mounted[p].id]
    OBVIOUS
  <2>2. o \in File /\ o.raw = EditTime /\ o.of = c
    BY <1>1, <2>1, MountedType DEF File, Budgeted, Dawn, EditTime
  <2>3. Becomes(p, o, inPlace) /\ Spend("edits") /\ UNCHANGED <<lane, volume, cacheFile, fixFile, fixes, blurred>>
    BY <1>2, <2>1 DEF Edit, tableVars, EditTime
  <2>4. Edited(o) /\ budget'.edits <= budget.edits
    BY <1>1, <2>2, <2>3 DEF Edited, Spend, Budgeted
  <2>5. ~TakenFor(o, p)
    <3>1. SUFFICES ASSUME TakenFor(o, p) PROVE FALSE
      OBVIOUS
    <3>2. Active /\ p \in DOMAIN scan.found /\ o.raw = scan.found[p].raw
      BY <3>1 DEF TakenFor, SameFile, Active
    <3>3. Clocked(o.raw) /\ o.raw \in Nat
      BY <2>2, <3>2 DEF ScanIInv, Truth, FoundTells, Met, File
    <3> QED
      BY <1>1, <2>2, <2>4, <3>3, EditIsLater
  <2> QED
    BY <1>1, <2>2, <2>3, <2>4, <2>5, WorldStep DEF Arrives
<1>3. ASSUME NEW p \in Item, Erase(p)
      PROVE  Truth'
  <2>1. Nobody \in File /\ Nobody.of = "gone"
    BY DEF File, Nobody
  <2>2. Becomes(p, Nobody, FALSE) /\ Spend("edits") /\ UNCHANGED <<lane, volume, cacheFile, fixFile, fixes, blurred>>
    BY <1>3 DEF Erase, tableVars
  <2>3. budget'.edits <= budget.edits
    BY <1>1, <2>2 DEF Spend, Budgeted
  <2> QED
    BY <1>1, <2>1, <2>2, <2>3, WorldStep DEF Arrives
<1>4. ASSUME NEW p \in Item, NEW c \in DOMAIN Meant, Install(p, c)
      PROVE  Truth'
  <2>1. PICK o : o = [of |-> c, raw |-> Held[Meant[c]], meant |-> Meant[c], id |-> 1 - mounted[p].id]
    OBVIOUS
  <2>2. o \in File /\ o.of = c /\ o.raw = Held[Meant[c]] /\ o.meant = Meant[c]
    BY <1>1, <2>1, MountedType, MeantIs DEF File
  <2>3. Becomes(p, o, FALSE) /\ Spend("published") /\ UNCHANGED <<lane, volume, cacheFile, fixFile>>
    BY <1>4, <2>1 DEF Install, tableVars
  <2>4. blurred' = IF TakenFor(o, p) THEN blurred \cup {p} ELSE blurred
    BY <1>4, <2>1 DEF Install
  <2>5. budget'.edits <= budget.edits
    BY <1>1, <2>3 DEF Spend, Budgeted
  <2>6. Needed(fixes')
    <3>1. fixes' = IF o.raw = o.meant THEN fixes
                   ELSE Over([q \in {p} |-> [ondisk |-> o.raw, intended |-> o.meant]], fixes)
      BY <1>4, <2>1 DEF Install
    <3>2. PICK one : one = [q \in {p} |-> [ondisk |-> o.raw, intended |-> o.meant]]
      OBVIOUS
    <3>3. DOMAIN one = {p} /\ one[p].intended = o.meant /\ one[p].ondisk = o.raw
      BY <3>2
    <3>4. o.raw # o.meant => Needed(one)
      BY <2>2, <3>3, MeantIs DEF Needed
    <3>5. Needed(one) => Needed(Over(one, fixes))
      BY <1>1 DEF Needed, Over
    <3> QED
      BY <1>1, <3>1, <3>2, <3>4, <3>5
  <2>7. Installed(o)
    BY <2>2 DEF Installed
  <2> QED
    BY <2>2, <2>3, <2>4, <2>5, <2>6, <2>7, WorldStep DEF Arrives
<1> QED
  BY <1>2, <1>3, <1>4

(* Steps that leave the disks alone.                                       *)
LEMMA DisksRest ==
  ASSUME ScanTypeOK, DisksSound, UNCHANGED disks, blurred \subseteq blurred',
         budget'.edits \in Nat, budget'.edits <= budget.edits
  PROVE  /\ DisksSound'
         /\ \A m \in Nat : Clocked(m) => Clocked(m)'
         /\ \A v \in Volumes, q \in Item, m \in Nat : \A size, bytes :
              Tells(v, q, size, m, bytes) => Tells(v, q, size, m, bytes)'
         /\ \A v \in Volumes : \A rows :
              Rows(rows, CacheRow) /\ RowsTell(v, rows) => RowsTell(v, rows)'
<1>1. Budgeted /\ World
  BY TypeParts
<1>2. \A m \in Nat : Clocked(m) => Clocked(m)'
  BY <1>1, LaterClock
<1>3. ASSUME NEW v \in Volumes, NEW q \in Item, NEW size, NEW m \in Nat, NEW bytes, Tells(v, q, size, m, bytes)
      PROVE  Tells(v, q, size, m, bytes)'
  BY <1>2, <1>3 DEF Tells
<1>4. ASSUME NEW v \in Volumes, NEW rows, Rows(rows, CacheRow), RowsTell(v, rows)
      PROVE  RowsTell(v, rows)'
  <2>1. ASSUME NEW q \in DOMAIN rows \ blurred'
        PROVE  Tells(v, q, rows[q].size, rows[q].mtime, rows[q].digest.of)'
    <3>1. q \in Item /\ rows[q] \in CacheRow /\ q \in DOMAIN rows \ blurred
      BY <1>4, <2>1 DEF Rows
    <3>2. rows[q].mtime \in Nat /\ Tells(v, q, rows[q].size, rows[q].mtime, rows[q].digest.of)
      BY <1>4, <3>1 DEF CacheRow, RowsTell
    <3> QED
      BY <1>3, <3>1, <3>2
  <2> QED
    BY <2>1 DEF RowsTell
<1>5. ASSUME NEW v \in Volumes, NEW q \in Item
      PROVE  FileSound(disks[v][q])'
  <2>1. PICK f : f = disks[v][q]
    OBVIOUS
  <2>2. f \in File /\ f.raw \in Nat /\ FileSound(f)
    BY <1>1, <2>1 DEF World, File, DisksSound
  <2>3. FileSound(f)'
    BY <1>2, <2>2 DEF FileSound, Kept
  <2> QED
    BY <2>1, <2>3 DEF FileSound
<1> QED
  BY <1>2, <1>3, <1>4, <1>5 DEF DisksSound

LEMMA CacheRests ==
  ASSUME ScanIInv, UNCHANGED disks, blurred \subseteq blurred',
         budget'.edits \in Nat, budget'.edits <= budget.edits,
         cacheFile'.bound = cacheFile.bound, cacheFile'.rows = cacheFile.rows
  PROVE  (cacheFile.bound \in Volumes => RowsTell(cacheFile.bound, cacheFile.rows))'
<1>1. PICK v, rows : v = cacheFile.bound /\ rows = cacheFile.rows
  OBVIOUS
<1>2. Rows(rows, CacheRow) /\ (v \in Volumes => RowsTell(v, rows))
  BY <1>1 DEF ScanIInv, ScanTypeOK, IsTable, Truth, TablesTell
<1>3. v \in Volumes => RowsTell(v, rows)'
  BY <1>2, DisksRest DEF ScanIInv, Truth
<1> QED
  BY <1>1, <1>3 DEF RowsTell, Tells, Clocked, EditTime

LEMMA IdleIsTrue ==
  ASSUME ScanIInv, UNCHANGED <<disks, cacheFile, fixFile, fixes>>, blurred \subseteq blurred',
         budget'.edits \in Nat, budget'.edits <= budget.edits, scan' = [at |-> "idle"]
  PROVE  Truth'
<1>1. ~Active'
  BY DEF Active
<1>2. DisksSound' /\ (cacheFile.bound \in Volumes => RowsTell(cacheFile.bound, cacheFile.rows))'
  BY DisksRest, CacheRests DEF ScanIInv, Truth
<1>3. FixesSound'
  BY <1>1 DEF ScanIInv, Truth, FixesSound, Needed
<1>4. TablesTell' /\ FoundTells' /\ Reading' /\ HadIsNow' /\ MatchIsSeen'
  BY <1>1, <1>2 DEF TablesTell, FoundTells, Reading, HadIsNow, MatchIsSeen
<1>5. StandsAsMet' /\ PassedWasAway'
  BY DEF StandsAsMet, PassedWasAway
<1> QED
  BY <1>2, <1>3, <1>4, <1>5 DEF Truth

(* Steps of which a scan under way notices nothing.                        *)
LEMMA ScanRests ==
  ASSUME ScanIInv, UNCHANGED <<worldVars, scan, had, blurred>>,
         budget'.edits \in Nat, budget'.edits <= budget.edits,
         cacheFile'.bound = cacheFile.bound, cacheFile'.rows = cacheFile.rows,
         Needed(fixes'), Needed(fixFile'.rows)
  PROVE  Truth'
<1>1. UNCHANGED <<lane, volume, disks, scan, had, blurred>> /\ (Active <=> Active')
  BY DEF worldVars, Active
<1>2. /\ DisksSound' /\ (cacheFile.bound \in Volumes => RowsTell(cacheFile.bound, cacheFile.rows))'
      /\ \A m \in Nat : Clocked(m) => Clocked(m)'
      /\ \A v \in Volumes, q \in Item, m \in Nat : \A size, bytes :
           Tells(v, q, size, m, bytes) => Tells(v, q, size, m, bytes)'
      /\ \A v \in Volumes : \A rows :
           Rows(rows, CacheRow) /\ RowsTell(v, rows) => RowsTell(v, rows)'
  BY <1>1, DisksRest, CacheRests DEF ScanIInv, Truth
<1>3. FixesSound'
  BY <1>1 DEF ScanIInv, Truth, FixesSound, Needed
<1>4. TablesTell'
  <2>1. ASSUME Active
        PROVE  RowsTell(volume, scan.cache)'
    <3>1. PICK v, rows : v = volume /\ rows = scan.cache
      OBVIOUS
    <3>2. Rows(rows, CacheRow) /\ v \in Volumes /\ RowsTell(v, rows)
      BY <2>1, <3>1 DEF ScanIInv, Truth, TablesTell, ScanTypeOK, Active, IsScan
    <3>3. RowsTell(v, rows)'
      BY <1>2, <3>2
    <3> QED
      BY <1>1, <3>1, <3>3 DEF RowsTell, Tells, Clocked, EditTime
  <2> QED
    BY <1>1, <1>2, <2>1 DEF TablesTell
<1>5. FoundTells'
  <2>1. ASSUME Active, NEW q \in DOMAIN scan.found
        PROVE  /\ Clocked(Met(q).raw)'
               /\ (Met(q).digest # NoDigest /\ q \notin blurred)' =>
                     /\ (Met(q).digest.of \in had[q])'
                     /\ Tells(volume, q, Met(q).size, Met(q).mtime, Met(q).digest.of)'
    <3>1. PICK met, v : met = Met(q) /\ v = volume
      OBVIOUS
    <3>2. q \in Item /\ met \in Meeting /\ v \in Volumes
      BY <2>1, <3>1 DEF ScanIInv, ScanTypeOK, Active, IsScan, Rows, Met
    <3>3. met.raw \in Nat /\ met.size \in Nat /\ met.mtime \in Nat
      BY <3>2 DEF Meeting
    <3>4. met = Met(q)' /\ v = volume'
      BY <1>1, <3>1 DEF Met
    <3>5. Clocked(met.raw)'
      BY <1>2, <2>1, <3>1, <3>3 DEF ScanIInv, Truth, FoundTells
    <3>6. ASSUME met.digest # NoDigest, q \notin blurred'
          PROVE  /\ met.digest.of \in had'[q]
                 /\ Tells(v, q, met.size, met.mtime, met.digest.of)'
      BY <1>1, <1>2, <2>1, <3>1, <3>2, <3>3, <3>6 DEF ScanIInv, Truth, FoundTells
    <3> QED
      BY <3>4, <3>5, <3>6 DEF Clocked, EditTime, Tells
  <2>2. ASSUME Active, NEW q \in DOMAIN scan.found
        PROVE  (Met(q).mtime = Met(q).raw \/ (Met(q).mtime <= Dawn /\ Held[Met(q).mtime] # Met(q).mtime))'
    BY <1>1, <2>2 DEF ScanIInv, Truth, FoundTells, Met
  <2> QED
    BY <1>1, <2>1, <2>2 DEF FoundTells
<1>6. StandsAsMet' /\ Reading' /\ HadIsNow' /\ PassedWasAway' /\ MatchIsSeen'
  BY <1>1 DEF ScanIInv, Truth, StandsAsMet, Standing, Absent, SameFile, SizeOf, Met, Reading, HadIsNow,
              mounted, PassedWasAway, MatchIsSeen
<1> QED
  BY <1>2, <1>3, <1>4, <1>5, <1>6 DEF Truth

LEMMA TablesKeepTruth ==
  ASSUME ScanIInv
  PROVE  /\ \A v \in Volumes : Swap(v) => Truth'
         /\ \A kind \in {"newer", "broken"} : Spoil(kind) => Truth'
         /\ RecordFixes => Truth'
         /\ FixesAreLost => Truth'
<1>1. Budgeted /\ Needed(fixes) /\ Needed(fixFile.rows) /\ Needed(<<>>)
  BY TypeParts, NoRows DEF ScanIInv, Truth, FixesSound, Needed
<1>2. ASSUME NEW v \in Volumes, Swap(v)
      PROVE  Truth'
  <2>1. budget'.edits \in Nat /\ budget'.edits <= budget.edits
    BY <1>1, <1>2, SpendType DEF Swap
  <2> QED
    BY <1>2, <2>1, IdleIsTrue DEF Swap, tableVars
<1>3. ASSUME NEW kind \in {"newer", "broken"}, Spoil(kind)
      PROVE  Truth'
  <2>1. budget'.edits \in Nat /\ budget'.edits <= budget.edits
    BY <1>1, <1>3, SpendType DEF Spoil
  <2>2. /\ cacheFile'.bound = cacheFile.bound /\ cacheFile'.rows = cacheFile.rows
        /\ fixFile'.rows = fixFile.rows
    BY <1>3 DEF Spoil, ScanIInv, ScanTypeOK, IsTable
  <2> QED
    BY <1>1, <1>3, <2>1, <2>2, ScanRests DEF Spoil, Needed
<1>4. ASSUME RecordFixes
      PROVE  Truth'
  <2>1. Needed(RowsOf(fixFile))
    BY <1>1 DEF RowsOf
  <2>2. Needed(Over(fixes, RowsOf(fixFile)))
    <3>1. PICK rows : rows = RowsOf(fixFile)
      OBVIOUS
    <3>2. Needed(Over(fixes, rows))
      BY <1>1, <2>1, <3>1 DEF Needed, Over
    <3> QED
      BY <3>1, <3>2
  <2>3. Needed(fixFile'.rows)
    BY <1>1, <1>4, <2>2 DEF RecordFixes, Rewritten, Table
  <2> QED
    BY <1>1, <1>4, <2>3, ScanRests DEF RecordFixes, Budgeted
<1>5. ASSUME FixesAreLost
      PROVE  Truth'
  <2>1. budget'.edits \in Nat /\ budget'.edits <= budget.edits
    BY <1>1, <1>5, SpendType DEF FixesAreLost
  <2> QED
    BY <1>1, <1>5, <2>1, ScanRests DEF FixesAreLost, tableVars
<1> QED
  BY <1>2, <1>3, <1>4, <1>5

(* The steps of a scan change neither disks nor what is told by a clock.   *)
LEMMA SpendNoEdit ==
  ASSUME Budgeted, NEW what \in {"published", "scans", "troubles"}, Spend(what)
  PROVE  budget'.edits = budget.edits
BY DEF Budgeted, Spend

LEMMA BeginKeepsTruth ==
  ASSUME ScanIInv, ScanTypeOK', NEW opt \in Options, ScanBegins(opt)
  PROVE  Truth'
<1>1. /\ UNCHANGED <<lane, volume, disks, cacheFile, fixFile, fixes, blurred>>
      /\ scan'.at = "root" /\ scan'.matched = {} /\ scan'.found = <<>> /\ scan'.open = <<>>
      /\ scan'.fixes = RowsOf(fixFile)
      /\ scan'.cache = RowsOf(cacheFile) \/ scan'.cache = <<>>
      /\ had' = [p \in Item |-> {mounted[p].of}]
  BY DEF ScanBegins, worldVars, tableVars
<1>2. budget'.edits = budget.edits /\ budget.edits \in Nat
  BY TypeParts, SpendNoEdit DEF ScanBegins, ScanIInv, Budgeted
<1>3. Active'
  BY <1>1 DEF Active
<1>4. DisksSound' /\ (cacheFile.bound \in Volumes => RowsTell(cacheFile.bound, cacheFile.rows))'
  BY <1>1, <1>2, DisksRest, CacheRests DEF ScanIInv, Truth
<1>5. FixesSound'
  BY <1>1, NoRows DEF ScanIInv, Truth, FixesSound, Needed, RowsOf
<1>6. TablesTell'
  <2>1. RowsTell(volume, scan'.cache)
    BY <1>1, NoRows DEF ScanIInv, ScanTypeOK, Truth, TablesTell, RowsOf, RowsTell
  <2>2. RowsTell(volume, scan.cache)'
    BY <1>1, <1>2, <2>1 DEF RowsTell, Tells, Clocked, EditTime
  <2> QED
    BY <1>4, <2>2 DEF TablesTell
<1>7. FoundTells' /\ Reading' /\ MatchIsSeen'
  BY <1>1, NoRows DEF FoundTells, Reading, MatchIsSeen
<1>8. HadIsNow'
  BY <1>1 DEF HadIsNow, mounted
<1>9. StandsAsMet' /\ PassedWasAway'
  BY <1>1 DEF StandsAsMet, PassedWasAway
<1> QED
  BY <1>4, <1>5, <1>6, <1>7, <1>8, <1>9 DEF Truth

(* A digest that is reused is of what is there.                            *)
LEMMA ReusedIsTrue ==
  ASSUME ScanIInv, Active, NEW p \in Item, ~Absent(p), p \notin blurred,
         scan.opt.hash /\ ~Corrected(p) => mounted[p].raw = mounted[p].meant,
         ReusableCachedDigest(p) # NoDigest
  PROVE  /\ scan.opt.hash
         /\ ReusableCachedDigest(p).of \in had[p]
         /\ Tells(volume, p, SizeOf(mounted[p]), ReportedMtime(p), ReusableCachedDigest(p).of)
<1>1. PICK row : row = scan.cache[p]
  OBVIOUS
<1>2. /\ scan.opt.hash /\ ~Corrected(p) /\ p \in DOMAIN scan.cache
      /\ row.size = SizeOf(mounted[p]) /\ row.mtime = ReportedMtime(p)
      /\ ReusableCachedDigest(p) = row.digest
  BY <1>1 DEF ReusableCachedDigest
<1>3. Tells(volume, p, row.size, row.mtime, row.digest.of)
  BY <1>1, <1>2 DEF ScanIInv, Truth, TablesTell, RowsTell
<1>4. row.mtime = mounted[p].raw /\ mounted[p].raw = mounted[p].meant
  BY <1>2 DEF ReportedMtime
<1>5. row.digest.of = mounted[p].of
  BY <1>2, <1>3, <1>4 DEF Tells, mounted, Absent, SizeOf
<1>6. mounted[p].of \in had[p]
  BY DEF ScanIInv, Truth, HadIsNow
<1> QED
  BY <1>2, <1>3, <1>5, <1>6

LEMMA ObserveKeepsTruth ==
  ASSUME ScanIInv, ScanTypeOK', NEW listed \in SUBSET Item, NEW to \in {"folder", "read"},
         Observe(listed, to), UNCHANGED <<worldVars, tableVars, fixes, had, budget>>,
         \/ scan.at = "root" /\ listed = Item \ Below /\ (to = "read" => \A p \in Below : Absent(p))
         \/ scan.at = "folder" /\ listed = Below /\ to = "read"
  PROVE  Truth'
<1> DEFINE seen == {p \in listed \cap scan.opt.domain : ~Absent(p)}
<1>1. Active /\ Active' /\ ScanTypeOK /\ Truth
  BY ObserveIs DEF Active, Observe, ScanIInv
<1>2. /\ scan'.at = to /\ scan'.opt = scan.opt /\ scan'.cache = scan.cache
      /\ scan'.fixes = scan.fixes /\ scan'.unread = scan.unread /\ scan'.errors = scan.errors
      /\ scan'.open = scan.open /\ blurred \subseteq blurred'
      /\ scan'.matched = scan.matched \cup {p \in seen : Corrected(p)}
      /\ DOMAIN scan'.found = seen \cup DOMAIN scan.found
      /\ \A p \in seen : scan'.found[p] = PrepareFile(p)
      /\ \A p \in DOMAIN scan.found \ seen : scan'.found[p] = scan.found[p]
  BY <1>1, ObserveIs
<1>3. blurred' = blurred \cup {p \in seen : scan.opt.hash /\ ~Corrected(p) /\ mounted[p].raw # mounted[p].meant}
  BY DEF Observe
<1>4. UNCHANGED <<lane, volume, disks, cacheFile, fixFile, fixes, had, budget, mounted>>
  BY DEF worldVars, tableVars, mounted
<1>5. \A p \in seen :
        /\ p \in Item /\ ~Absent(p) /\ p \in listed /\ p \in scan.opt.domain
        /\ PrepareFile(p).raw = mounted[p].raw /\ PrepareFile(p).size = SizeOf(mounted[p])
        /\ PrepareFile(p).mtime = ReportedMtime(p) /\ PrepareFile(p).id = mounted[p].id
        /\ PrepareFile(p).digest = ReusableCachedDigest(p)
  BY <1>1, PreparedIs
<1>6. \A p \in listed \cap scan.opt.domain : p \notin seen => "gone" \in had[p]
  BY <1>1 DEF Truth, HadIsNow, Absent
<1>7. DisksSound' /\ (cacheFile.bound \in Volumes => RowsTell(cacheFile.bound, cacheFile.rows))'
  BY <1>2, <1>4, DisksRest, CacheRests DEF ScanIInv, Truth, ScanTypeOK
<1> HIDE DEF seen
<1>8. FixesSound'
  BY <1>1, <1>2, <1>4 DEF Truth, FixesSound, Needed
<1>9. TablesTell'
  <2>1. RowsTell(volume, scan.cache)'
    BY <1>1, <1>2, <1>4 DEF Truth, TablesTell, RowsTell, Tells, Clocked, EditTime
  <2> QED
    BY <1>7, <2>1 DEF TablesTell
<1>10. FoundTells'
  <2>1. ASSUME NEW p \in seen
        PROVE  /\ Clocked(mounted[p].raw)
               /\ ReportedMtime(p) = mounted[p].raw
                    \/ (ReportedMtime(p) <= Dawn /\ Held[ReportedMtime(p)] # ReportedMtime(p))
               /\ ReusableCachedDigest(p) # NoDigest /\ p \notin blurred' =>
                    /\ ReusableCachedDigest(p).of \in had[p]
                    /\ Tells(volume, p, SizeOf(mounted[p]), ReportedMtime(p), ReusableCachedDigest(p).of)
    <3>1. Clocked(mounted[p].raw)
      BY <1>1, <1>5 DEF Truth, DisksSound, FileSound, mounted, Absent, ScanTypeOK
    <3>2. ReportedMtime(p) = mounted[p].raw
            \/ (ReportedMtime(p) <= Dawn /\ Held[ReportedMtime(p)] # ReportedMtime(p))
      BY <1>1 DEF Truth, FixesSound, Needed, ReportedMtime, Corrected
    <3>3. ASSUME ReusableCachedDigest(p) # NoDigest, p \notin blurred'
          PROVE  /\ ReusableCachedDigest(p).of \in had[p]
                 /\ Tells(volume, p, SizeOf(mounted[p]), ReportedMtime(p), ReusableCachedDigest(p).of)
      BY <1>1, <1>3, <1>5, <3>3, ReusedIsTrue
    <3> QED
      BY <3>1, <3>2, <3>3
  <2>2. ASSUME NEW p \in DOMAIN scan'.found
        PROVE  /\ Clocked(Met(p).raw)'
               /\ (Met(p).mtime = Met(p).raw
                     \/ (Met(p).mtime <= Dawn /\ Held[Met(p).mtime] # Met(p).mtime))'
               /\ (Met(p).digest # NoDigest /\ p \notin blurred)' =>
                     (/\ Met(p).digest.of \in had[p]
                      /\ Tells(volume, p, Met(p).size, Met(p).mtime, Met(p).digest.of))'
    <3>1. CASE p \in seen
      <4>1. PICK met : met = PrepareFile(p)
        OBVIOUS
      <4>2. Met(p)' = met
        BY <1>2, <3>1, <4>1 DEF Met
      <4>3. /\ Clocked(met.raw)
            /\ met.mtime = met.raw \/ (met.mtime <= Dawn /\ Held[met.mtime] # met.mtime)
            /\ met.digest # NoDigest /\ p \notin blurred' =>
                 met.digest.of \in had[p] /\ Tells(volume, p, met.size, met.mtime, met.digest.of)
        BY <1>5, <2>1, <3>1, <4>1
      <4> QED
        BY <1>4, <4>2, <4>3 DEF Clocked, EditTime, Tells
    <3>2. CASE p \in DOMAIN scan.found \ seen
      <4>1. PICK met : met = Met(p)
        OBVIOUS
      <4>2. Met(p)' = met
        BY <1>2, <3>2, <4>1 DEF Met
      <4>3. /\ Clocked(met.raw)
            /\ met.mtime = met.raw \/ (met.mtime <= Dawn /\ Held[met.mtime] # met.mtime)
            /\ met.digest # NoDigest /\ p \notin blurred' =>
                 met.digest.of \in had[p] /\ Tells(volume, p, met.size, met.mtime, met.digest.of)
        BY <1>1, <1>2, <3>2, <4>1 DEF Truth, FoundTells
      <4> QED
        BY <1>4, <4>2, <4>3 DEF Clocked, EditTime, Tells
    <3> QED
      BY <1>2, <2>2, <3>1, <3>2
  <2> QED
    BY <2>2 DEF FoundTells
<1>11. StandsAsMet'
  <2>1. ASSUME NEW p \in seen \ blurred', scan.opt.hash, ReportedMtime(p) = mounted[p].raw
        PROVE  mounted[p].raw = mounted[p].meant
    <3>1. ~Corrected(p)
      BY <1>1, <2>1 DEF Truth, FixesSound, Needed, Corrected, ReportedMtime
    <3> QED
      BY <1>3, <2>1, <3>1
  <2>2. DOMAIN scan.open = {}
    BY <1>1 DEF Truth, Reading
  <2>3. ASSUME NEW p \in DOMAIN scan.found \ seen
        PROVE  scan.at = "folder"
    BY <1>1, <2>3 DEF Truth, Reading
  <2>4. ASSUME NEW p \in (DOMAIN scan.found \ seen) \ blurred', Standing(p)'
        PROVE  (scan.opt.hash /\ Met(p).mtime = Met(p).raw => mounted[p].raw = mounted[p].meant)'
    <3>1. Standing(p)
      BY <1>2, <1>4, <2>4 DEF Standing, Absent, SizeOf, SameFile, Met
    <3> QED
      BY <1>1, <1>2, <1>4, <2>3, <2>4, <3>1 DEF Truth, StandsAsMet, Met
  <2>5. ASSUME NEW p \in seen \ blurred'
        PROVE  (scan.opt.hash /\ Met(p).mtime = Met(p).raw => mounted[p].raw = mounted[p].meant)'
    BY <1>2, <1>4, <1>5, <2>1, <2>5 DEF Met
  <2> QED
    BY <1>2, <2>2, <2>4, <2>5 DEF StandsAsMet
<1>12. Reading'
  <2>1. DOMAIN scan.open = {}
    BY <1>1 DEF Truth, Reading
  <2>2. ASSUME ~scan.opt.hash, NEW p \in DOMAIN scan'.found
        PROVE  scan'.found[p].digest = NoDigest
    <3>1. CASE p \in seen
      BY <1>2, <1>5, <2>2, <3>1 DEF ReusableCachedDigest
    <3>2. CASE p \notin seen
      BY <1>1, <1>2, <2>2, <3>2 DEF Truth, Reading, Met
    <3> QED
      BY <3>1, <3>2
  <2> QED
    BY <1>2, <2>1, <2>2 DEF Reading, Met
<1>13. HadIsNow'
  BY <1>1, <1>4 DEF Truth, HadIsNow
<1>14. PassedWasAway'
  <2>1. scan.opt.domain \subseteq Item /\ Below \subseteq Item
    BY <1>1, ScanAssumption DEF ScanTypeOK, Active, IsScan
  <2>2. CASE scan.at = "root"
    <3>1. to = "read" => \A p \in scan.opt.domain \cap Below : "gone" \in had[p]
      BY <1>1, <2>1, <2>2 DEF Truth, HadIsNow, Absent
    <3> QED
      BY <1>2, <1>4, <1>6, <2>1, <2>2, <3>1 DEF PassedWasAway
  <2>3. CASE scan.at = "folder"
    BY <1>1, <1>2, <1>4, <1>6, <2>1, <2>3 DEF PassedWasAway, Truth
  <2> QED
    BY <2>2, <2>3
<1>15. MatchIsSeen'
  <2>1. ASSUME NEW p \in DOMAIN scan'.found \ scan'.matched, p \in DOMAIN scan.fixes
        PROVE  scan.fixes[p].ondisk # scan'.found[p].raw
    <3>1. CASE p \in seen
      BY <1>2, <1>5, <2>1, <3>1 DEF Corrected
    <3>2. CASE p \notin seen
      BY <1>1, <1>2, <2>1, <3>2 DEF Truth, MatchIsSeen, Met
    <3> QED
      BY <3>1, <3>2
  <2> QED
    BY <1>2, <2>1 DEF MatchIsSeen, Met
<1> QED
  BY <1>7, <1>8, <1>9, <1>10, <1>11, <1>12, <1>13, <1>14, <1>15 DEF Truth

(* Reading, and what follows it: the disks rest, and a digest is of what   *)
(* stands as it was met.                                                   *)
LEMMA ReadStep ==
  ASSUME ScanIInv, Active, UNCHANGED <<worldVars, fixes, had, blurred>>,
         budget'.edits = budget.edits, Needed(fixFile'.rows),
         cacheFile'.bound \in Volumes => RowsTell(cacheFile'.bound, cacheFile'.rows),
         scan.at # "root", scan'.at \in {"read", "reconcile", "done"},
         scan'.at = "read" => scan.at \in {"folder", "read"},
         scan'.opt = scan.opt, scan'.cache = scan.cache, scan'.fixes = scan.fixes,
         scan'.matched = scan.matched, scan.unread \subseteq scan'.unread,
         scan.at = "folder" => \A p \in Below : Absent(p) \/ p \in scan'.unread,
         DOMAIN scan'.found = DOMAIN scan.found,
         \A p \in DOMAIN scan.found :
           /\ scan'.found[p].size = scan.found[p].size /\ scan'.found[p].raw = scan.found[p].raw
           /\ scan'.found[p].mtime = scan.found[p].mtime /\ scan'.found[p].id = scan.found[p].id
           /\ \/ scan'.found[p].digest = scan.found[p].digest
              \/ /\ scan.at = "read" /\ Standing(p) /\ p \in DOMAIN scan.open
                 /\ scan'.found[p].digest.of = scan.open[p].of,
         \A p \in DOMAIN scan'.open :
           /\ p \in DOMAIN scan.found /\ scan.opt.hash
           /\ \/ p \in DOMAIN scan.open /\ scan'.open[p] = scan.open[p]
              \/ scan'.open[p].of = mounted[p].of
  PROVE  Truth'
<1>1. Active' /\ ScanTypeOK /\ Truth /\ IsScan
  BY DEF Active, ScanIInv, ScanTypeOK
<1>2. UNCHANGED <<lane, volume, disks, mounted, EditTime>>
  BY DEF worldVars, mounted, EditTime
<1>3. DisksSound'
  BY <1>1, <1>2 DEF Truth, DisksSound, FileSound, Clocked, Kept
<1>4. FixesSound'
  BY <1>1 DEF Truth, FixesSound, Needed
<1>5. TablesTell'
  <2>1. RowsTell(volume, scan.cache)'
    BY <1>1, <1>2 DEF Truth, TablesTell, RowsTell, Tells, Clocked
  <2>2. (cacheFile.bound \in Volumes => RowsTell(cacheFile.bound, cacheFile.rows))'
    BY <1>2 DEF RowsTell, Tells, Clocked
  <2> QED
    BY <2>1, <2>2 DEF TablesTell
<1>6. ASSUME NEW p \in DOMAIN scan.found \ blurred, scan.at = "read", Standing(p),
             p \in DOMAIN scan.open
      PROVE  /\ scan.open[p].of \in had[p]
             /\ Tells(volume, p, Met(p).size, Met(p).mtime, scan.open[p].of)
  <2>1. p \in Item /\ mounted[p].of # "gone" /\ Length[mounted[p].of] = Met(p).size /\ mounted[p].raw = Met(p).raw
    BY <1>1, <1>6 DEF Standing, Absent, SizeOf, SameFile, Met, IsScan, Rows
  <2>2. scan.opt.hash /\ scan.open[p].of = mounted[p].of
    BY <1>1, <1>6 DEF Truth, Reading, StandsAsMet
  <2>3. Met(p).mtime = Met(p).raw => mounted[p].raw = mounted[p].meant
    BY <1>1, <1>6, <2>2 DEF Truth, StandsAsMet
  <2>4. FileSound(mounted[p])
    BY <1>1, <2>1 DEF Truth, DisksSound, mounted, ScanTypeOK
  <2>5. Clocked(Met(p).mtime)
        /\ (Met(p).mtime = Met(p).raw \/ (Met(p).mtime <= Dawn /\ Held[Met(p).mtime] # Met(p).mtime))
    BY <1>1 DEF Truth, FoundTells, Clocked
  <2>6. mounted[p].of \in had[p]
    BY <1>1, <2>1 DEF Truth, HadIsNow
  <2>7. ASSUME Met(p).mtime <= Dawn, Held[Met(p).mtime] = Met(p).mtime,
               NEW c \in DOMAIN Meant, Met(p).mtime = Meant[c], Met(p).size = Length[c]
        PROVE  scan.open[p].of = c
    BY <2>1, <2>2, <2>3, <2>4, <2>5, <2>7 DEF FileSound
  <2> QED
    BY <2>1, <2>2, <2>5, <2>6, <2>7 DEF Tells, mounted
<1>7. FoundTells'
  <2>1. ASSUME NEW p \in DOMAIN scan'.found
        PROVE  /\ Clocked(Met(p).raw)'
               /\ (Met(p).mtime = Met(p).raw
                     \/ (Met(p).mtime <= Dawn /\ Held[Met(p).mtime] # Met(p).mtime))'
               /\ (Met(p).digest # NoDigest /\ p \notin blurred)' =>
                     (/\ Met(p).digest.of \in had[p]
                      /\ Tells(volume, p, Met(p).size, Met(p).mtime, Met(p).digest.of))'
    <3>1. PICK met, new : met = Met(p) /\ new = scan'.found[p]
      OBVIOUS
    <3>2. /\ new = Met(p)' /\ new.raw = met.raw /\ new.mtime = met.mtime /\ new.size = met.size
      BY <2>1, <3>1 DEF Met
    <3>3. /\ Clocked(met.raw)
          /\ met.mtime = met.raw \/ (met.mtime <= Dawn /\ Held[met.mtime] # met.mtime)
          /\ met.digest # NoDigest /\ p \notin blurred =>
               met.digest.of \in had[p] /\ Tells(volume, p, met.size, met.mtime, met.digest.of)
      BY <1>1, <2>1, <3>1 DEF Truth, FoundTells
    <3>4. new.digest # NoDigest /\ p \notin blurred =>
             new.digest.of \in had[p] /\ Tells(volume, p, met.size, met.mtime, new.digest.of)
      BY <1>6, <2>1, <3>1, <3>3 DEF Met
    <3> QED
      BY <1>2, <3>2, <3>3, <3>4 DEF Clocked, Tells
  <2> QED
    BY <2>1 DEF FoundTells
<1>8. StandsAsMet'
  <2>1. ASSUME scan'.at = "read", NEW p \in DOMAIN scan.found \ blurred, Standing(p)'
        PROVE  /\ (scan.opt.hash /\ Met(p).mtime = Met(p).raw => mounted[p].raw = mounted[p].meant)'
               /\ (p \in DOMAIN scan.open => scan.open[p].of = mounted[p].of)'
    <3>1. Standing(p)
      BY <1>2, <2>1 DEF Standing, Absent, SizeOf, SameFile, Met
    <3> QED
      BY <1>1, <1>2, <2>1, <3>1 DEF Truth, StandsAsMet, Met
  <2> QED
    BY <2>1 DEF StandsAsMet
<1>9. Reading' /\ MatchIsSeen'
  <2>1. Reading'
    BY <1>1 DEF Truth, Reading, Met
  <2>2. MatchIsSeen'
    BY <1>1 DEF Truth, MatchIsSeen, Met
  <2> QED
    BY <2>1, <2>2
<1>10. HadIsNow'
  BY <1>1, <1>2 DEF Truth, HadIsNow
<1>11. PassedWasAway'
  <2>1. scan.opt.domain \subseteq Item /\ Below \subseteq Item
    BY <1>1, ScanAssumption DEF IsScan
  <2>2. scan.at = "folder" => \A p \in scan.opt.domain \cap Below : "gone" \in had[p] \/ p \in scan'.unread
    BY <1>1, <2>1 DEF Truth, HadIsNow, Absent
  <2>3. scan.at \in {"folder", "read", "reconcile", "done"}
    BY <1>1 DEF IsScan
  <2> QED
    BY <1>1, <2>1, <2>2, <2>3 DEF Truth, PassedWasAway
<1> QED
  BY <1>3, <1>4, <1>5, <1>7, <1>8, <1>9, <1>10, <1>11 DEF Truth

(* The rows a scan saves are told by the clock.                            *)
LEMMA MergedTell ==
  ASSUME ScanIInv, Active
  PROVE  RowsTell(volume, MergedRows)
<1>1. ASSUME NEW p \in DOMAIN MergedRows \ blurred
      PROVE  Tells(volume, p, MergedRows[p].size, MergedRows[p].mtime, MergedRows[p].digest.of)
  <2>1. CASE p \in DOMAIN scan.found /\ Met(p).digest # NoDigest /\ MergedRows[p] = Row(p)
    <3>1. Row(p).size = Met(p).size /\ Row(p).mtime = Met(p).mtime /\ Row(p).digest = Met(p).digest
      BY DEF Row, Met
    <3> QED
      BY <1>1, <2>1, <3>1 DEF ScanIInv, Truth, FoundTells
  <2>2. CASE p \in DOMAIN RowsOf(cacheFile) /\ MergedRows[p] = RowsOf(cacheFile)[p]
    <3>1. cacheFile.bound = volume /\ RowsOf(cacheFile) = cacheFile.rows
      BY <2>2, NoRows DEF RowsOf
    <3>2. RowsTell(volume, cacheFile.rows)
      BY <3>1 DEF ScanIInv, ScanTypeOK, Truth, TablesTell
    <3> QED
      BY <1>1, <2>2, <3>1, <3>2 DEF RowsTell
  <2> QED
    BY <1>1, <2>1, <2>2, MergedIs DEF ScanIInv
<1> QED
  BY <1>1 DEF RowsTell

LEMMA ScanKeepsTruth ==
  ASSUME ScanIInv, ScanTypeOK'
  PROVE  /\ ListRoot => Truth'
         /\ RootIsUnreadable => Truth'
         /\ ListFolder => Truth'
         /\ FolderVanished => Truth'
         /\ FolderIsUnreadable => Truth'
         /\ \A p \in Item : OpenFile(p) => Truth'
         /\ \A p \in Item : FinishFile(p) => Truth'
         /\ CancelScan => Truth'
         /\ SaveCache => Truth'
         /\ ReconcileFixes => Truth'
<1>1. /\ Budgeted /\ ScanTypeOK /\ Truth /\ budget.edits \in Nat
      /\ scan.at # "idle" => IsScan /\ Active
      /\ scan.at # "idle" => Needed(scan.fixes)
      /\ Needed(fixFile.rows)
      /\ cacheFile.bound \in Volumes => RowsTell(cacheFile.bound, cacheFile.rows)
  BY TypeParts DEF ScanIInv, ScanTypeOK, Active, Budgeted, Truth, FixesSound, TablesTell
<1> USE DEF tableVars
<1>2. ASSUME ListRoot
      PROVE  Truth'
  <2>1. Item \ Below \in SUBSET Item
    OBVIOUS
  <2>2. CASE \E p \in Below : ~Absent(p) /\ Observe(Item \ Below, "folder")
    BY <1>2, <2>1, <2>2, ObserveKeepsTruth DEF ListRoot
  <2>3. CASE /\ \A p \in Below : Absent(p)
             /\ \E to \in {"folder", "read"} : Observe(Item \ Below, to)
    BY <1>2, <2>1, <2>3, ObserveKeepsTruth DEF ListRoot
  <2> QED
    BY <1>2, <2>2, <2>3 DEF ListRoot
<1>3. ASSUME RootIsUnreadable
      PROVE  Truth'
  <2>1. budget'.edits \in Nat /\ budget'.edits <= budget.edits
    BY <1>1, <1>3, SpendType DEF RootIsUnreadable
  <2> QED
    BY <1>3, <2>1, IdleIsTrue DEF RootIsUnreadable, worldVars
<1>4. ASSUME ListFolder
      PROVE  Truth'
  <2>1. Below \in SUBSET Item
    BY ScanAssumption
  <2> QED
    BY <1>4, <2>1, ObserveKeepsTruth DEF ListFolder
<1>5. ASSUME FolderVanished
      PROVE  Truth'
  <2>1. /\ scan'.at = "read" /\ scan'.opt = scan.opt /\ scan'.cache = scan.cache
        /\ scan'.fixes = scan.fixes /\ scan'.matched = scan.matched /\ scan'.found = scan.found
        /\ scan'.unread = scan.unread /\ scan'.open = scan.open
    BY <1>1, <1>5 DEF FolderVanished, IsScan
  <2>2. \A p \in DOMAIN scan.open : p \in DOMAIN scan.found /\ scan.opt.hash
    BY <1>1, <1>5 DEF FolderVanished, Truth, Reading
  <2> QED
    BY <1>1, <1>5, <2>1, <2>2, ReadStep DEF FolderVanished
<1>6. ASSUME FolderIsUnreadable
      PROVE  Truth'
  <2>1. /\ scan'.at = "read" /\ scan'.opt = scan.opt /\ scan'.cache = scan.cache
        /\ scan'.fixes = scan.fixes /\ scan'.matched = scan.matched /\ scan'.found = scan.found
        /\ scan'.unread = scan.unread \cup Below /\ scan'.open = scan.open
    BY <1>1, <1>6 DEF FolderIsUnreadable, IsScan
  <2>2. \A p \in DOMAIN scan.open : p \in DOMAIN scan.found /\ scan.opt.hash
    BY <1>1, <1>6 DEF FolderIsUnreadable, Truth, Reading
  <2>3. budget'.edits = budget.edits
    BY <1>1, <1>6, SpendNoEdit DEF FolderIsUnreadable
  <2> QED
    BY <1>1, <1>6, <2>1, <2>2, <2>3, ReadStep DEF FolderIsUnreadable
<1>7. ASSUME NEW p \in Item, OpenFile(p)
      PROVE  Truth'
  <2>1. p \in DOMAIN scan.found /\ scan.at = "read" /\ scan.opt.hash /\ Active
    BY <1>1, <1>7 DEF OpenFile, Pending
  <2>2. \A q \in DOMAIN scan.open : q \in DOMAIN scan.found
    BY <1>1, <2>1 DEF Truth, Reading
  <2>3. CASE Absent(p)
    <3>1. scan' = Failed(p)
      BY <1>7, <2>3 DEF OpenFile
    <3> QED
      BY <1>1, <1>7, <2>1, <2>2, <3>1, FailedIs, ReadStep DEF OpenFile
  <2>4. CASE ~Absent(p)
    <3>1. UNCHANGED <<worldVars, cacheFile, fixFile, fixes, had, blurred, budget>>
      BY <1>7 DEF OpenFile
    <3> QED
      BY <1>1, <1>7, <2>1, <2>2, <2>4, <3>1, OpenIs, ReadStep
  <2> QED
    BY <2>3, <2>4
<1>8. ASSUME NEW p \in Item, FinishFile(p)
      PROVE  Truth'
  <2>1. p \in DOMAIN scan.open /\ scan.at = "read" /\ Active
    BY <1>1, <1>8 DEF FinishFile, Opened
  <2>2. scan.opt.hash /\ \A q \in DOMAIN scan.open : q \in DOMAIN scan.found
    BY <1>1, <2>1 DEF Truth, Reading
  <2>3. UNCHANGED <<worldVars, cacheFile, fixFile, fixes, had, blurred, budget>>
    BY <1>8 DEF FinishFile
  <2>4. CASE Unchanged(p)
    <3>1. Standing(p)
      BY <2>4 DEF Unchanged, Standing, Met
    <3> QED
      BY <1>1, <1>8, <2>1, <2>2, <2>3, <2>4, <3>1, FinishIs, ReadStep
  <2>5. CASE ~Unchanged(p)
    <3>1. scan' = Failed(p)
      BY <1>8, <2>5 DEF FinishFile
    <3> QED
      BY <1>1, <2>1, <2>2, <2>3, <3>1, FailedIs, ReadStep
  <2> QED
    BY <2>4, <2>5
<1>9. ASSUME CancelScan
      PROVE  Truth'
  <2>1. budget'.edits \in Nat /\ budget'.edits <= budget.edits
    BY <1>1, <1>9, SpendType DEF CancelScan
  <2> QED
    BY <1>9, <2>1, IdleIsTrue DEF CancelScan, worldVars
<1>10. ASSUME SaveCache
       PROVE  Truth'
  <2>1. scan.at = "read" /\ Active /\ budget'.edits = budget.edits
    BY <1>1, <1>10, SpendNoEdit DEF SaveCache
  <2>2. /\ scan'.at = "reconcile" /\ scan'.opt = scan.opt /\ scan'.cache = scan.cache
        /\ scan'.fixes = scan.fixes /\ scan'.matched = scan.matched /\ scan'.found = scan.found
        /\ scan'.unread = scan.unread /\ scan'.open = scan.open
    BY <1>1, <1>10, <2>1 DEF SaveCache, IsScan
  <2>3. cacheFile'.bound \in Volumes => RowsTell(cacheFile'.bound, cacheFile'.rows)
    <3>1. \/ cacheFile' = cacheFile
          \/ cacheFile'.bound = volume /\ cacheFile'.rows = MergedRows
      BY <1>10 DEF SaveCache, Rewritten, Table
    <3> QED
      BY <1>1, <2>1, <3>1, MergedTell
  <2>4. \A q \in DOMAIN scan.open : q \in DOMAIN scan.found /\ scan.opt.hash
    BY <1>1, <2>1 DEF Truth, Reading
  <2> QED
    BY <1>1, <1>10, <2>1, <2>2, <2>3, <2>4, ReadStep DEF SaveCache
<1>11. ASSUME ReconcileFixes
       PROVE  Truth'
  <2>1. scan.at = "reconcile" /\ Active
    BY <1>1, <1>11 DEF ReconcileFixes
  <2>2. /\ scan'.at = "done" /\ scan'.opt = scan.opt /\ scan'.cache = scan.cache
        /\ scan'.fixes = scan.fixes /\ scan'.matched = scan.matched /\ scan'.found = scan.found
        /\ scan'.unread = scan.unread /\ scan'.open = scan.open
    BY <1>1, <1>11, <2>1 DEF ReconcileFixes, IsScan
  <2>3. Needed(fixFile'.rows)
    <3>1. \A some \in SUBSET DOMAIN scan.fixes : Needed(Restrict(scan.fixes, some))
      BY <1>1, <2>1 DEF Needed, Restrict
    <3>2. \/ fixFile' = fixFile
          \/ fixFile'.rows = Restrict(scan.fixes, {p \in DOMAIN scan.fixes : KeepsCorrection(p)})
      BY <1>11 DEF ReconcileFixes, Rewritten, Table
    <3> QED
      BY <1>1, <3>1, <3>2
  <2>4. \A q \in DOMAIN scan.open : q \in DOMAIN scan.found /\ scan.opt.hash
    BY <1>1, <2>1 DEF Truth, Reading
  <2> QED
    BY <1>1, <1>11, <2>1, <2>2, <2>3, <2>4, ReadStep DEF ReconcileFixes
<1> QED
  BY <1>2, <1>3, <1>4, <1>5, <1>6, <1>7, <1>8, <1>9, <1>10, <1>11

-----------------------------------------------------------------------------
(* The scan: theorems.                                                     *)

LEMMA ScanBeginsSound == ScanInit => ScanIInv
<1> SUFFICES ASSUME ScanInit PROVE ScanIInv
  OBVIOUS
<1>1. scan = [at |-> "idle"] /\ ~Active
  BY DEF ScanInit, Active
<1>2. ScanTypeOK
  <2>1. IsTable(Missing, CacheRow) /\ IsTable(Missing, Fix)
    BY NoRows DEF IsTable, Missing
  <2>2. disks \in [Volumes -> [Item -> File]]
    BY MtimeAssumption DEF ScanInit
  <2> QED
    BY <2>1, <2>2, NoRows, ScanAssumption DEF ScanInit, ScanTypeOK
<1>3. DisksSound
  <2>1. ASSUME NEW v \in Volumes, NEW p \in Item
        PROVE  FileSound(disks[v][p])
    <3>1. PICK o : o = Shelf[v][p]
      OBVIOUS
    <3>2. o.of # "gone" =>
            /\ o.raw = o.meant /\ o.raw <= Dawn /\ Held[o.raw] = o.raw
            /\ \A c \in DOMAIN Meant : o.raw = Meant[c] /\ Length[o.of] = Length[c] => o.of = c
      BY <3>1, MtimeAssumption
    <3>3. FileSound(o)
      BY <3>2 DEF FileSound, Clocked, Kept
    <3> QED
      BY <3>1, <3>3 DEF ScanInit
  <2> QED
    BY <2>1 DEF DisksSound
<1>4. FixesSound
  BY <1>1, NoRows DEF ScanInit, FixesSound, Needed, Missing
<1>5. TablesTell
  BY <1>1, NoRows DEF ScanInit, TablesTell, Missing, RowsTell
<1>6. FoundTells /\ Reading /\ HadIsNow /\ MatchIsSeen
  BY <1>1 DEF FoundTells, Reading, HadIsNow, MatchIsSeen
<1>7. StandsAsMet /\ PassedWasAway
  BY <1>1 DEF StandsAsMet, PassedWasAway
<1> QED
  BY <1>2, <1>3, <1>4, <1>5, <1>6, <1>7 DEF ScanIInv, Truth

LEMMA ScanIInvStep ==
  ASSUME ScanIInv, [ScanNext]_scanVars
  PROVE  ScanIInv'
<1>1. ScanTypeOK'
  BY ScanTypeStep DEF ScanIInv, Truth
<1>2. CASE ScanNext
  <2>1. CASE \E p \in Item, c \in Bytes, inPlace \in BOOLEAN : Edit(p, c, inPlace)
    BY <1>1, <2>1, PeopleKeepTruth DEF ScanIInv
  <2>2. CASE \E p \in Item, c \in DOMAIN Meant : Install(p, c)
    BY <1>1, <2>2, PeopleKeepTruth DEF ScanIInv
  <2>3. CASE \E p \in Item : Erase(p)
    BY <1>1, <2>3, PeopleKeepTruth DEF ScanIInv
  <2>4. CASE \/ \E v \in Volumes : Swap(v)
             \/ \E kind \in {"newer", "broken"} : Spoil(kind)
             \/ RecordFixes \/ FixesAreLost
    BY <1>1, <2>4, TablesKeepTruth DEF ScanIInv
  <2>5. CASE \E opt \in Options : ScanBegins(opt)
    BY <1>1, <2>5, BeginKeepsTruth DEF ScanIInv
  <2>6. CASE \/ ListRoot \/ RootIsUnreadable \/ ListFolder \/ FolderVanished \/ FolderIsUnreadable
             \/ \E p \in Item : OpenFile(p) \/ FinishFile(p)
             \/ CancelScan \/ SaveCache \/ ReconcileFixes
    BY <1>1, <2>6, ScanKeepsTruth DEF ScanIInv
  <2> QED
    BY <1>2, <2>1, <2>2, <2>3, <2>4, <2>5, <2>6 DEF ScanNext
<1>3. CASE UNCHANGED scanVars
  <2>1. UNCHANGED <<lane, volume, disks, cacheFile, fixFile, fixes, scan, had, blurred, budget>>
    BY <1>3 DEF scanVars, worldVars, tableVars
  <2>2. budget'.edits \in Nat /\ budget'.edits <= budget.edits
    BY <2>1, TypeParts DEF ScanIInv, Budgeted
  <2>3. Needed(fixes') /\ Needed(fixFile'.rows)
    BY <2>1 DEF ScanIInv, Truth, FixesSound
  <2>4. Truth'
    BY <2>1, <2>2, <2>3, ScanRests DEF worldVars
  <2> QED
    BY <1>1, <2>4 DEF ScanIInv
<1> QED
  BY <1>2, <1>3 DEF ScanIInv

LEMMA ScanInvariance == ScanSpec => []ScanIInv
<1>1. ScanInit => ScanIInv
  BY ScanBeginsSound
<1>2. ScanIInv /\ [ScanNext]_scanVars => ScanIInv'
  BY ScanIInvStep
<1> QED
  BY <1>1, <1>2, PTL DEF ScanSpec

(* The tables, the disks and the scan have their types (state.rs, model.rs). *)
THEOREM ScanTypeCorrect == ScanSpec => []ScanTypeOK
<1>1. ScanIInv => ScanTypeOK
  BY DEF ScanIInv
<1> QED
  BY <1>1, ScanInvariance, PTL

(* Whatever contents, volumes, filters and interruptions there are: a      *)
(* digest a scan reports is of bytes the file had while it ran, unless the *)
(* scan took the file for another one of the same size and mtime           *)
(* (hashing/reader.rs, hashcache.rs, vfs/hashing.rs).                      *)
THEOREM ReportedDigestsAreTrue == ScanSpec => []DigestIsTrue
<1>1. ScanIInv => DigestIsTrue
  BY DEF ScanIInv, Truth, FoundTells, DigestIsTrue, Active, Met
<1> QED
  BY <1>1, ScanInvariance, PTL

(* A file that is neither listed nor counted as unread was away at some    *)
(* moment of the scan (walk.rs, vfs/discovery.rs).                         *)
THEOREM OmittedFilesWereAway == ScanSpec => []AbsentWasAbsent
<1>1. ScanIInv => AbsentWasAbsent
  BY DEF ScanIInv, Truth, PassedWasAway, AbsentWasAbsent
<1> QED
  BY <1>1, ScanInvariance, PTL

(* What a scan drops at its end.                                           *)
LEMMA DroppedWasDisproved ==
  ASSUME ScanIInv, ReconcileFixes,
         NEW p \in DOMAIN RowsOf(fixFile) \ DOMAIN fixFile'.rows
  PROVE  \/ p \notin DOMAIN scan.fixes
         \/ p \in DOMAIN scan.found /\ scan.found[p].raw # scan.fixes[p].ondisk
         \/ p \in scan.opt.domain /\ "gone" \in had[p]
<1>1. Active /\ Truth /\ scan.at = "reconcile"
  BY DEF ReconcileFixes, ScanIInv, Active
<1>2. SUFFICES ASSUME p \in DOMAIN scan.fixes
               PROVE  \/ p \in DOMAIN scan.found /\ scan.found[p].raw # scan.fixes[p].ondisk
                      \/ p \in scan.opt.domain /\ "gone" \in had[p]
  OBVIOUS
<1>3. ~KeepsCorrection(p)
  <2>1. PICK valid : valid = {q \in DOMAIN scan.fixes : KeepsCorrection(q)}
    OBVIOUS
  <2>2. DOMAIN Restrict(scan.fixes, valid) = valid
    BY DEF Restrict
  <2>3. fixFile' = fixFile \/ fixFile'.rows = Restrict(scan.fixes, valid)
    BY <2>1 DEF ReconcileFixes, Rewritten, Table
  <2>4. DOMAIN RowsOf(fixFile) \subseteq DOMAIN fixFile.rows
    BY NoRows DEF RowsOf
  <2> QED
    BY <1>2, <2>1, <2>2, <2>3, <2>4
<1>4. CASE p \in DOMAIN scan.found
  BY <1>1, <1>2, <1>3, <1>4 DEF KeepsCorrection, Truth, MatchIsSeen, Met
<1>5. CASE p \notin DOMAIN scan.found
  <2>1. Complete /\ p \notin RetainAbsent
    BY <1>3, <1>5 DEF KeepsCorrection
  <2>2. p \in scan.opt.domain /\ scan.unread = {}
    BY <1>2, <2>1 DEF RetainAbsent, Complete
  <2> QED
    BY <1>1, <1>5, <2>2 DEF Truth, PassedWasAway
<1> QED
  BY <1>4, <1>5

(* A scan drops no mtime correction but those it disproved and those it    *)
(* never loaded (mtimefix.rs reconcile_bound_file).                        *)
THEOREM CorrectionsAreKept == ScanSpec => CorrectionsOutliveTheScan
<1>1. ScanIInv /\ [ScanNext]_scanVars =>
        [ReconcileFixes =>
           \A p \in DOMAIN RowsOf(fixFile) \ DOMAIN fixFile'.rows :
             \/ p \notin DOMAIN scan.fixes
             \/ p \in DOMAIN scan.found /\ scan.found[p].raw # scan.fixes[p].ondisk
             \/ p \in scan.opt.domain /\ "gone" \in had[p]]_scanVars
  BY DroppedWasDisproved
<1> QED
  BY <1>1, ScanInvariance, PTL DEF ScanSpec, CorrectionsOutliveTheScan

-----------------------------------------------------------------------------
(***************************************************************************)
(* What an Apply here guarantees for every plan, pool, tree and order of   *)
(* its workers.                                                            *)
(*                                                                         *)
(* RootsInv follows the removal of a directory: the class of the removals  *)
(* has one worker, and what it clears it has judged.  AccountsInv follows  *)
(* the tickets: one that was drawn has been tried or is in hand, by one    *)
(* worker only, so a class ends with all its operations tried unless the   *)
(* run must stop; and whatever is not carried out raises a counter that    *)
(* the summary shows.                                                      *)
(***************************************************************************)

(* A worker that has an operation in hand, and one that draws tickets.     *)
Busy(w) == at[w] \notin {"out", "idle"}
InHand(i) == \E w \in Worker : Busy(w) /\ task[w] = i
Tried(i) == outcome[i] # "untried"

(* Every class but that of the copies has one worker.                      *)
Alone == class # 2 => \A v, w \in Worker : at[v] # "out" /\ at[w] # "out" => v = w

(* Where a worker can be is up to the operation it works on.               *)
Fits(place, o) ==
  /\ place \in {"ensure", "make", "note"} => o.act \in {"copy", "update", "move"} /\ Up[o.path] # Top
  /\ place = "write" => o.act \in {"copy", "update", "move", "chmod", "delete"}
  /\ place \in {"try", "walk", "judge", "clear"} => o.act = "deldir"
TasksFit == \A w \in Worker : Busy(w) => task[w] \in OfClass(class) /\ Fits(at[w], OpOf(w))

(* What is cleared has been judged, and nothing is listed as a directory   *)
(* that is not one.                                                        *)
JudgedFirst == \A w \in Worker : at[w] = "clear" => walk.leaves \subseteq Deletable
LeavesAreLeaves == \A s \in Side, p \in Leaf : tree[s][p] # "dir"

RootsInv == Alone /\ TasksFit /\ JudgedFirst /\ LeavesAreLeaves

(* Every ticket that was drawn has been tried or is in hand, and no two    *)
(* workers have the same one.                                              *)
Drawn(i) == Turn(i, class) < next
OneEach ==
  /\ \A w \in Worker : Busy(w) => Drawn(task[w]) /\ ~Tried(task[w])
  /\ \A v, w \in Worker : Busy(v) /\ Busy(w) /\ task[v] = task[w] => v = w
InTurn ==
  /\ \A i \in Ops : Tried(i) => Rank(plan[i]) < class \/ (Rank(plan[i]) = class /\ Drawn(i))
  /\ ~MustStop => \A i \in Ops : Rank(plan[i]) < class => Tried(i)
  /\ ~MustStop => \A i \in OfClass(class) : Drawn(i) => Tried(i) \/ InHand(i)

(* A worker that leaves leaves no ticket, unless the run must stop.        *)
NobodyLeavesEarly ==
  ~MustStop /\ class # 0 /\ ClassEnds => next > Cardinality(OfClass(class))

(* Outcomes, counters and the summary.                                     *)
Ended7 == ~MustStop => \A i \in Ops : Rank(plan[i]) # 7 => Tried(i)
Having(how) == {i \in Ops : outcome[i] = how}
Counts ==
  /\ tally.done = Cardinality(Having("ok")) /\ tally.skipped = Notes + Cardinality(Having("kept"))
Accounted ==
  /\ \A i \in Ops : outcome[i] = "stopped" => stopAsked
  /\ \A i \in Ops : outcome[i] = "failed" => tally.errors > 0
  /\ tally.lossRecorded => tally.errors > 0
  /\ \A w \in Worker : at[w] = "stopped" => stopAsked
  /\ \A i \in Ops : records[i] = IF Tried(i) THEN 1 ELSE 0
ByPhase ==
  /\ phase \in {"validate", "lock"} => class = 0
  /\ phase # "run" => ClassEnds
  /\ phase = "validate" => tally = NoTally
  /\ phase \in {"lock", "run", "wrapup", "source", "target", "sum"} => Counts
  /\ phase \in {"wrapup", "source", "target", "sum"} => Ended7
SummaryAdds ==
  /\ phase \in {"report", "over"} /\ ~dry /\ summary.errors = 0 =>
       /\ ~leaseLost /\ tally.errors = 0 /\ Counts /\ Ended7
       /\ summary.done = tally.done /\ summary.skipped = tally.skipped
  /\ phase = "over" => summary.cancelled = stopAsked

AccountsInv ==
  OneEach /\ InTurn /\ NobodyLeavesEarly /\ Accounted /\ ByPhase /\ SummaryAdds

PoolIInv == PoolTypeOK /\ RootsInv /\ AccountsInv

-----------------------------------------------------------------------------
(* The tickets of a class.                                                 *)

LEMMA PathsAbove ==
  ASSUME NEW p \in Entry
  PROVE  Depth[p] \in Nat /\ (p \in Folder => Above[p] \subseteq Folder)
<1>1. Above[p] \in SUBSET Entry
  BY DEF Above
<1>2. Depth[p] \in Nat
  BY <1>1, PoolAssumption, FS_Subset, FS_CardinalityType DEF Depth
<1>3. ASSUME p \in Folder
      PROVE  Above[p] \subseteq Folder
  <2>1. Folder \in SUBSET Entry /\ \A q \in Folder : Up[q] \in Folder \cup {Top}
    BY PoolAssumption DEF Entry
  <2> QED
    BY <1>3, <2>1 DEF Above
<1> QED
  BY <1>2, <1>3

LEMMA PlanIs ==
  ASSUME plan \in Plans
  PROVE  /\ plan \in Seq(PlanOp) /\ Ops = 1..Len(plan) /\ Len(plan) \in Nat
         /\ IsFiniteSet(Ops) /\ Cardinality(Ops) = Len(plan)
         /\ \A i \in Ops : plan[i] \in PlanOp
<1>1. plan \in Seq(PlanOp)
  BY PoolAssumption
<1>2. Ops = 1..Len(plan) /\ Len(plan) \in Nat
  BY <1>1 DEF Ops
<1>3. IsFiniteSet(1..Len(plan)) /\ Cardinality(1..Len(plan)) = Len(plan)
  <2>1. PICK n \in Nat : n = Len(plan)
    BY <1>2
  <2>2. IsFiniteSet(1..n) /\ Cardinality(1..n) = n
    BY FS_Interval
  <2> QED
    BY <2>1, <2>2
<1> QED
  BY <1>1, <1>2, <1>3

LEMMA AheadOrders ==
  ASSUME plan \in Plans
  PROVE  /\ \A i \in Ops : ~Ahead(i, i)
         /\ \A i, j \in Ops : i # j => Ahead(i, j) \/ Ahead(j, i)
         /\ \A i, j, l \in Ops : Ahead(i, j) /\ Ahead(j, l) => Ahead(i, l)
<1> DEFINE deep(i) == IF plan[i].act = "deldir" THEN Depth[plan[i].path] ELSE 0
<1>1. \A i \in Ops : i \in Nat /\ deep(i) \in Nat
  BY PlanIs, PathsAbove DEF PlanOp
<1>2. \A i, j : Ahead(i, j) <=> deep(i) > deep(j) \/ (deep(i) = deep(j) /\ i < j)
  BY DEF Ahead
<1> HIDE DEF deep
<1> QED
  BY <1>1, <1>2

LEMMA TurnsAre ==
  ASSUME plan \in Plans, NEW c
  PROVE  /\ IsFiniteSet(OfClass(c)) /\ Cardinality(OfClass(c)) \in Nat
         /\ OfClass(c) \subseteq Ops
         /\ \A i \in OfClass(c) : Turn(i, c) \in 1..Cardinality(OfClass(c))
         /\ \A i, j \in OfClass(c) : Turn(i, c) = Turn(j, c) => i = j
<1>1. OfClass(c) \in SUBSET Ops /\ IsFiniteSet(OfClass(c)) /\ Cardinality(OfClass(c)) \in Nat
  BY PlanIs, FS_Subset, FS_CardinalityType DEF OfClass
<1> DEFINE before(i) == {j \in OfClass(c) : Ahead(j, i)}
<1>2. ASSUME NEW i \in OfClass(c)
      PROVE  /\ before(i) \in SUBSET OfClass(c) /\ i \notin before(i)
             /\ IsFiniteSet(before(i)) /\ Cardinality(before(i)) \in Nat
             /\ Cardinality(before(i)) < Cardinality(OfClass(c))
  <2>1. before(i) \in SUBSET OfClass(c) /\ i \notin before(i)
    BY <1>1, AheadOrders
  <2>2. IsFiniteSet(before(i)) /\ Cardinality(before(i)) <= Cardinality(OfClass(c))
        /\ (Cardinality(OfClass(c)) = Cardinality(before(i)) => OfClass(c) = before(i))
    BY <1>1, <2>1, FS_Subset
  <2>3. Cardinality(before(i)) \in Nat
    BY <2>2, FS_CardinalityType
  <2> QED
    BY <1>1, <1>2, <2>1, <2>2, <2>3
<1>3. ASSUME NEW i \in OfClass(c), NEW j \in OfClass(c), Ahead(i, j)
      PROVE  Cardinality(before(i)) < Cardinality(before(j))
  <2>1. before(i) \in SUBSET before(j) /\ i \in before(j) /\ i \notin before(i)
    BY <1>1, <1>2, <1>3, AheadOrders
  <2>2. Cardinality(before(i)) <= Cardinality(before(j)) /\ Cardinality(before(i)) # Cardinality(before(j))
    BY <1>2, <2>1, FS_Subset
  <2> QED
    BY <1>2, <2>2
<1>4. \A i : Turn(i, c) = 1 + Cardinality(before(i))
  BY DEF Turn
<1> HIDE DEF before
<1>5. ASSUME NEW i \in OfClass(c), NEW j \in OfClass(c), Turn(i, c) = Turn(j, c), i # j
      PROVE  FALSE
  <2>1. Cardinality(before(i)) = Cardinality(before(j))
    BY <1>2, <1>4, <1>5
  <2>2. Ahead(i, j) \/ Ahead(j, i)
    BY <1>1, <1>5, AheadOrders
  <2> QED
    BY <1>2, <1>3, <2>1, <2>2
<1>6. \A i \in OfClass(c) : Turn(i, c) \in 1..Cardinality(OfClass(c))
  BY <1>1, <1>2, <1>4
<1> QED
  BY <1>1, <1>5, <1>6

(* A ticket names an operation of the class, and each has a ticket.        *)
LEMMA QueueIs ==
  ASSUME plan \in Plans, NEW c
  PROVE  /\ Len(Queue(c)) = Cardinality(OfClass(c))
         /\ \A t \in 1..Cardinality(OfClass(c)) :
              Queue(c)[t] \in OfClass(c) /\ Turn(Queue(c)[t], c) = t
<1> DEFINE n == Cardinality(OfClass(c))
           turn == [i \in OfClass(c) |-> Turn(i, c)]
<1>1. n \in Nat /\ IsFiniteSet(OfClass(c)) /\ IsFiniteSet(1..n) /\ Cardinality(1..n) = n
  BY TurnsAre, FS_Interval
<1>2. turn \in Injection(OfClass(c), 1..n)
  BY TurnsAre DEF Injection, IsInjective
<1>3. turn \in Surjection(OfClass(c), 1..n)
  BY <1>1, <1>2, FS_Injection
<1>4. \A t \in 1..n : \E i \in OfClass(c) : Turn(i, c) = t
  BY <1>3 DEF Surjection
<1>5. Queue(c) = [t \in 1..n |-> CHOOSE i \in OfClass(c) : Turn(i, c) = t]
  BY DEF Queue
<1>6. \A t \in 1..n : Queue(c)[t] \in OfClass(c) /\ Turn(Queue(c)[t], c) = t
  BY <1>4, <1>5
<1>7. Queue(c) \in Seq(OfClass(c)) /\ Len(Queue(c)) = n
  <2>1. Queue(c) \in [1..n -> OfClass(c)]
    BY <1>5, <1>6
  <2> HIDE DEF n
  <2> QED
    BY <1>1, <2>1
<1> QED
  BY <1>6, <1>7

LEMMA PlanStays ==
  ASSUME UNCHANGED plan
  PROVE  /\ Ops' = Ops /\ Notes' = Notes
         /\ \A c : OfClass(c)' = OfClass(c)
         /\ \A i, c : Turn(i, c)' = Turn(i, c)
<1>1. Ops' = Ops /\ \A c : OfClass(c)' = OfClass(c)
  BY DEF Ops, OfClass, Rank
<1>2. Notes' = Notes
  BY DEF Notes, Ops, Executable
<1>3. ASSUME NEW i, NEW c
      PROVE  Turn(i, c)' = Turn(i, c)
  <2>1. {j \in OfClass(c) : Ahead(j, i)}' = {j \in OfClass(c) : Ahead(j, i)}
    BY <1>1 DEF Ahead
  <2> QED
    BY <2>1 DEF Turn
<1> QED
  BY <1>1, <1>2, <1>3

-----------------------------------------------------------------------------
(* Types.                                                                  *)

Places == {"out", "idle", "begin", "ensure", "make", "note", "write", "try", "walk", "judge",
           "clear"} \cup Endings
TreeTypes ==
  /\ tree \in [Side -> [Entry -> {"none", "dir", "old", "new"}]]
  /\ memo \subseteq Side \X Folder
  /\ walk \in [todo : SUBSET Entry, leaves : SUBSET Entry, dirs : SUBSET Entry]
  /\ versions \in [Side -> {"none", "open", "indexed", "left"}]
StepTypes ==
  /\ phase \in {"validate", "lock", "run", "wrapup", "source", "target", "sum", "report", "over"}
  /\ class \in 0..6 /\ next \in Nat \ {0}
  /\ at \in [Worker -> Places] /\ task \in [Worker -> 0..Len(plan)]
TallyTypes ==
  /\ outcome \in [Ops -> Endings \cup {"untried"}] /\ records \in [Ops -> Nat]
  /\ tally \in [done : Nat, skipped : Nat, errors : Nat, items : Nat, lossRecorded : BOOLEAN]
  /\ tally.done = Cardinality({i \in Ops : outcome[i] = "ok"})
  /\ tally.items = Cardinality({i \in Ops : outcome[i] \in {"ok", "kept", "failed"}})
SumTypes ==
  summary \in [done : Nat, skipped : Nat, errors : Nat, cancelled : BOOLEAN,
               ended : {"none", "failed", "cancelled", "completed"}]
PeopleTypes ==
  /\ {healthy, stopAsked, leaseLost} \subseteq BOOLEAN
  /\ versioned \subseteq Side /\ meddling \in 0..MaxMeddling /\ setbacks \in 0..MaxSetbacks

LEMMA PoolParts ==
  /\ PoolTypeOK <=>
       plan \in Plans /\ dry \in BOOLEAN /\ TreeTypes /\ StepTypes /\ TallyTypes /\ SumTypes /\ PeopleTypes
  /\ PoolTypeOK' <=>
       /\ plan' \in Plans /\ dry' \in BOOLEAN
       /\ TreeTypes' /\ StepTypes' /\ TallyTypes' /\ SumTypes' /\ PeopleTypes'
BY DEF PoolTypeOK, TreeTypes, StepTypes, TallyTypes, SumTypes, PeopleTypes, Places

LEMMA OpIs ==
  ASSUME PoolTypeOK, TasksFit, NEW w \in Worker, Busy(w)
  PROVE  /\ OpOf(w) \in PlanOp /\ OpOf(w).side \in Side /\ OpOf(w).path \in Entry /\ OpOf(w).from \in Entry
         /\ OpOf(w).act \in Action \ {"note"} /\ Fits(at[w], OpOf(w))
         /\ task[w] \in Ops /\ class \in 1..6 /\ Rank(OpOf(w)) = class
         /\ OpOf(w).act = "deldir" => class = 6
<1>1. task[w] \in OfClass(class) /\ Fits(at[w], OpOf(w))
  BY DEF TasksFit
<1>2. task[w] \in Ops /\ Rank(OpOf(w)) = class /\ OpOf(w) \in PlanOp /\ class \in 0..6
  BY <1>1, PlanIs, PoolParts DEF OfClass, OpOf, StepTypes
<1> QED
  BY <1>1, <1>2 DEF PlanOp, Rank, Action

(* What a step inside an operation may do.                                 *)
Goes(w, to) ==
  /\ at' = [at EXCEPT ![w] = to] /\ to \in Places \ {"out", "idle"} /\ Fits(to, OpOf(w))
  /\ to = "stopped" => stopAsked
  /\ to = "clear" => walk'.leaves \subseteq Deletable
Taken(s, p) ==
  \E w \in Worker : at[w] = "write" /\ OpOf(w).side = s /\ p \in Departing(OpOf(w))
LeavesOnly ==
  \A s \in Side, p \in Leaf :
    /\ tree'[s][p] # "dir"
    /\ tree[s][p] # "none" /\ tree'[s][p] = "none" => p \in Deletable \/ Taken(s, p)
Inside(w) ==
  /\ UNCHANGED <<plan, dry, versioned, phase, class, next, task, outcome, records, tally, healthy, summary,
                 stopAsked, leaseLost, meddling>>
  /\ Busy(w) /\ TreeTypes' /\ setbacks' \in 0..MaxSetbacks /\ LeavesOnly
  /\ (\E to : Goes(w, to)) /\ (walk' = walk \/ at[w] \in {"try", "walk", "clear"})

LEMMA StopIs ==
  ASSUME NEW w \in Worker, MustStop, Interrupted(w)
  PROVE  Goes(w, IF leaseLost THEN "failed" ELSE "stopped")
BY DEF MustStop, Interrupted, Ends, Move, Goes, Places, Endings, Fits

LEMMA SameTree ==
  ASSUME UNCHANGED <<tree, memo, walk, versions>>, TreeTypes, LeavesAreLeaves
  PROVE  TreeTypes' /\ LeavesOnly
BY DEF TreeTypes, LeavesOnly, LeavesAreLeaves

LEMMA SetbackIs ==
  ASSUME PeopleTypes
  PROVE  /\ Setback => setbacks' \in 0..MaxSetbacks
         /\ UNCHANGED setbacks => setbacks' \in 0..MaxSetbacks
BY PoolAssumption DEF Setback, PeopleTypes

LEMMA EnsureSteps ==
  ASSUME PoolTypeOK, TasksFit, LeavesAreLeaves, NEW w \in Worker
  PROVE  /\ BeginOp(w) => Inside(w)
         /\ Ensure(w) => Inside(w)
         /\ MakeDir(w) => Inside(w)
         /\ NoteDir(w) => Inside(w)
<1> USE PoolParts DEF poolTree, poolCounts, poolWorld
<1>1. ASSUME BeginOp(w) PROVE Inside(w)
  <2>1. Busy(w) /\ TreeTypes' /\ LeavesOnly /\ setbacks' \in 0..MaxSetbacks
    BY <1>1, SameTree DEF BeginOp, Busy, PeopleTypes
  <2>2. CASE MustStop
    BY <1>1, <2>1, <2>2, StopIs DEF BeginOp, Inside
  <2>3. CASE ~MustStop
    <3>1. FirstStep(OpOf(w)) \in {"write", "ensure", "try"} /\ Fits(FirstStep(OpOf(w)), OpOf(w))
      BY <2>1, OpIs DEF FirstStep, Fits, Action
    <3>2. Goes(w, FirstStep(OpOf(w)))
      BY <1>1, <2>3, <3>1 DEF BeginOp, Goes, Move, Places
    <3> QED
      BY <1>1, <2>1, <3>2 DEF BeginOp, Inside
  <2> QED
    BY <2>2, <2>3
<1>2. ASSUME Ensure(w) PROVE Inside(w)
  <2>1. Busy(w) /\ TreeTypes' /\ LeavesOnly /\ setbacks' \in 0..MaxSetbacks
    BY <1>2, SameTree DEF Ensure, Busy, PeopleTypes
  <2>2. PICK to \in {"write", "failed", "make"} : Move(w, to)
    BY <1>2 DEF Ensure
  <2>3. Goes(w, to)
    BY <1>2, <2>1, <2>2, OpIs DEF Ensure, Goes, Move, Places, Endings, Fits
  <2> QED
    BY <1>2, <2>1, <2>3 DEF Ensure, Inside
<1>3. ASSUME MakeDir(w) PROVE Inside(w)
  <2>1. Busy(w) /\ at[w] = "make" /\ Up[OpOf(w).path] \in Folder /\ OpOf(w).side \in Side
        /\ OpOf(w).act \in {"copy", "update", "move"}
    BY <1>3, OpIs, PoolAssumption DEF MakeDir, Busy, Fits
  <2>2. Above[Up[OpOf(w).path]] \subseteq Folder
    BY <2>1, PathsAbove DEF Entry
  <2>3. PICK to \in {"note", "failed"} : Move(w, to)
    BY <1>3 DEF MakeDir, Ends
  <2>4. Goes(w, to)
    BY <2>1, <2>3, OpIs DEF Goes, Move, Places, Endings, Fits
  <2>5. setbacks' \in 0..MaxSetbacks
    BY <1>3, SetbackIs DEF MakeDir
  <2>6. TreeTypes' /\ LeavesOnly
    <3>1. CASE UNCHANGED tree
      BY <1>3, <3>1, SameTree DEF MakeDir
    <3>2. CASE tree' = [tree EXCEPT ![OpOf(w).side] =
                          [p \in Entry |-> IF p \in Above[Up[OpOf(w).path]] THEN "dir" ELSE @[p]]]
      <4>1. PICK s, up : s = OpOf(w).side /\ up = Above[Up[OpOf(w).path]]
        OBVIOUS
      <4>2. tree' = [tree EXCEPT ![s] = [p \in Entry |-> IF p \in up THEN "dir" ELSE tree[s][p]]]
        BY <3>2, <4>1
      <4>3. TreeTypes'
        BY <1>3, <2>1, <4>1, <4>2 DEF MakeDir, TreeTypes
      <4>4. LeavesOnly
        BY <2>1, <2>2, <4>1, <4>2, PoolAssumption DEF LeavesOnly, LeavesAreLeaves, TreeTypes, Entry
      <4> QED
        BY <4>3, <4>4
    <3> QED
      BY <1>3, <3>1, <3>2 DEF MakeDir
  <2> QED
    BY <1>3, <2>1, <2>4, <2>5, <2>6 DEF MakeDir, Inside
<1>4. ASSUME NoteDir(w) PROVE Inside(w)
  <2>1. Busy(w) /\ Up[OpOf(w).path] \in Folder /\ OpOf(w).side \in Side
        /\ OpOf(w).act \in {"copy", "update", "move"}
    BY <1>4, OpIs, PoolAssumption DEF NoteDir, Busy, Fits
  <2>2. Goes(w, "write")
    BY <1>4, <2>1 DEF NoteDir, Goes, Move, Places, Fits
  <2>3. TreeTypes' /\ LeavesOnly /\ setbacks' \in 0..MaxSetbacks
    BY <1>4, <2>1 DEF NoteDir, TreeTypes, LeavesOnly, LeavesAreLeaves, PeopleTypes
  <2> QED
    BY <1>4, <2>1, <2>2, <2>3 DEF NoteDir, Inside
<1> QED
  BY <1>1, <1>2, <1>3, <1>4

(* What the transaction of a file leaves of one root.                      *)
LEMMA WriteLeaves ==
  ASSUME TreeTypes, NEW o, o.side \in Side, o.path \in Entry, o.from \in Entry,
         o.act \in {"copy", "update", "move", "chmod", "delete"}
  PROVE  /\ Cleared(o) \in [Entry -> {"none", "dir", "old", "new"}]
         /\ \A p \in Entry : Cleared(o)[p] = tree[o.side][p] \/ (Cleared(o)[p] = "none" /\ p \in Departing(o))
         /\ Possible(o) =>
              /\ Landed(o) \in [Entry -> {"none", "dir", "old", "new"}]
              /\ \A p \in Entry :
                   \/ Landed(o)[p] = tree[o.side][p]
                   \/ Landed(o)[p] \in {"old", "new"}
                   \/ Landed(o)[p] = "none" /\ p \in Departing(o)
<1>1. tree[o.side] \in [Entry -> {"none", "dir", "old", "new"}]
  BY DEF TreeTypes
<1>2. /\ Cleared(o) \in [Entry -> {"none", "dir", "old", "new"}]
      /\ \A p \in Entry : Cleared(o)[p] = IF p \in Departing(o) THEN "none" ELSE tree[o.side][p]
  BY <1>1 DEF Cleared
<1>3. ASSUME Possible(o)
      PROVE  /\ Landed(o) \in [Entry -> {"none", "dir", "old", "new"}]
             /\ \A p \in Entry : Landed(o)[p] \in {Cleared(o)[p], "old", "new"}
  <2>1. CASE o.act \in {"copy", "update"}
    <3>1. Landed(o) = [Cleared(o) EXCEPT ![o.path] = "new"]
      BY <2>1 DEF Landed
    <3> QED
      BY <1>2, <3>1
  <2>2. CASE o.act = "move"
    <3>1. Landed(o) = [Cleared(o) EXCEPT ![o.path] = tree[o.side][o.from]]
      BY <2>2 DEF Landed
    <3>2. tree[o.side][o.from] \in {"old", "new"}
      BY <1>3, <2>2 DEF Possible
    <3> QED
      BY <1>2, <3>1, <3>2
  <2>3. CASE o.act \in {"chmod", "delete"}
    BY <1>2, <2>3 DEF Landed
  <2> QED
    BY <2>1, <2>2, <2>3
<1> QED
  BY <1>2, <1>3

LEMMA WriteSteps ==
  ASSUME PoolTypeOK, TasksFit, LeavesAreLeaves, NEW w \in Worker, Write(w)
  PROVE  Inside(w)
<1> USE PoolParts DEF poolTree, poolCounts, poolWorld
<1>1. /\ Busy(w) /\ task[w] \in Ops /\ OpOf(w).side \in Side /\ OpOf(w).path \in Entry /\ OpOf(w).from \in Entry
      /\ OpOf(w).act \in {"copy", "update", "move", "chmod", "delete"}
  BY OpIs DEF Write, Busy, Fits
<1>2. \E to : Goes(w, to)
  <2>1. CASE MustStop /\ Interrupted(w)
    BY <2>1, StopIs
  <2>2. CASE \E to \in {"ok", "failed"} : Ends(w, to)
    BY <2>2 DEF Ends, Move, Goes, Places, Endings, Fits
  <2> QED
    BY <2>1, <2>2 DEF Write
<1>3. setbacks' \in 0..MaxSetbacks
  BY SetbackIs DEF Write
<1>5. versions' \in [Side -> {"none", "open", "indexed", "left"}]
  <2>1. versions' \in {versions, WithWriter(OpOf(w))}
    BY DEF Write
  <2> QED
    BY <1>1, <2>1 DEF WithWriter, TreeTypes
<1>4. TreeTypes' /\ LeavesOnly
  <2>1. CASE UNCHANGED tree
    BY <1>5, <2>1 DEF Write, TreeTypes, LeavesOnly, LeavesAreLeaves
  <2>2. ASSUME NEW o, o = OpOf(w), NEW what \in [Entry -> {"none", "dir", "old", "new"}], RootIs(o, what),
               \A p \in Entry : \/ what[p] = tree[o.side][p]
                                \/ what[p] \in {"old", "new"}
                                \/ what[p] = "none" /\ p \in Departing(o)
        PROVE  TreeTypes' /\ LeavesOnly
    <3>1. tree' = [tree EXCEPT ![o.side] = what] /\ o.side \in Side
      BY <1>1, <2>2 DEF RootIs
    <3>2. TreeTypes'
      BY <1>5, <3>1 DEF Write, TreeTypes
    <3>3. ASSUME NEW s \in Side, NEW p \in Leaf
          PROVE  /\ tree'[s][p] # "dir"
                 /\ tree[s][p] # "none" /\ tree'[s][p] = "none" => p \in Deletable \/ Taken(s, p)
      <4>1. p \in Entry /\ tree[s][p] # "dir"
        BY DEF Entry, LeavesAreLeaves
      <4>2. CASE s = o.side
        <5>1. tree'[s][p] = what[p]
          BY <3>1, <4>2 DEF TreeTypes
        <5>2. p \in Departing(o) => Taken(s, p)
          BY <2>2, <4>2 DEF Taken, Write
        <5> QED
          BY <2>2, <4>1, <4>2, <5>1, <5>2
      <4>3. CASE s # o.side
        BY <3>1, <4>1, <4>3 DEF TreeTypes
      <4> QED
        BY <4>2, <4>3
    <3> QED
      BY <3>2, <3>3 DEF LeavesOnly
  <2>3. CASE RootIs(OpOf(w), Cleared(OpOf(w)))
    BY <1>1, <2>2, <2>3, WriteLeaves
  <2>4. CASE Possible(OpOf(w)) /\ RootIs(OpOf(w), Landed(OpOf(w)))
    BY <1>1, <2>2, <2>4, WriteLeaves
  <2> QED
    BY <2>1, <2>3, <2>4 DEF Write
<1> QED
  BY <1>1, <1>2, <1>3, <1>4 DEF Write, Inside

(* The removal of one path.                                                *)
LEMMA PutIs ==
  ASSUME TreeTypes, LeavesAreLeaves, NEW s \in Side, NEW p \in Entry, Put(s, p, "none"),
         UNCHANGED <<memo, versions>>,
         walk' \in [todo : SUBSET Entry, leaves : SUBSET Entry, dirs : SUBSET Entry],
         p \in Leaf /\ tree[s][p] # "none" => p \in Deletable
  PROVE  TreeTypes' /\ LeavesOnly
<1>1. tree' = [tree EXCEPT ![s][p] = "none"]
  BY DEF Put
<1>2. TreeTypes'
  BY <1>1 DEF TreeTypes
<1>3. LeavesOnly
  BY <1>1 DEF TreeTypes, LeavesOnly, LeavesAreLeaves, Entry
<1> QED
  BY <1>2, <1>3

LEMMA DirSteps ==
  ASSUME PoolTypeOK, RootsInv, NEW w \in Worker
  PROVE  /\ TryDir(w) => Inside(w)
         /\ WalkDir(w) => Inside(w)
         /\ JudgeDir(w) => Inside(w)
<1> USE PoolParts DEF poolTree, poolCounts, poolWorld, RootsInv
<1>1. ASSUME TryDir(w) PROVE Inside(w)
  <2>1. /\ Busy(w) /\ at[w] = "try" /\ task[w] \in Ops /\ OpOf(w).side \in Side /\ OpOf(w).path \in Entry
        /\ OpOf(w).act = "deldir"
    BY <1>1, OpIs DEF TryDir, Busy, Fits
  <2>2. setbacks' \in 0..MaxSetbacks
    BY <1>1, SetbackIs DEF TryDir
  <2>3. \E to \in {"ok", "failed", "walk"} : Goes(w, to)
    BY <1>1, <2>1 DEF TryDir, Refused, Ends, Move, Goes, Places, Endings, Fits
  <2>4. TreeTypes' /\ LeavesOnly
    <3>1. CASE UNCHANGED <<tree, walk>>
      BY <1>1, <3>1, SameTree DEF TryDir
    <3>2. CASE RemoveDir(OpOf(w).side, OpOf(w).path) /\ Put(OpOf(w).side, OpOf(w).path, "none") /\ UNCHANGED walk
      <4>1. OpOf(w).path \in Leaf => tree[OpOf(w).side][OpOf(w).path] = "none"
        BY <2>1, <3>2 DEF RemoveDir, LeavesAreLeaves
      <4> QED
        BY <1>1, <2>1, <3>2, <4>1, PutIs DEF TryDir, TreeTypes
    <3>3. CASE UNCHANGED tree /\ walk' = [NoWalk EXCEPT !.todo = {OpOf(w).path}]
      <4>1. walk' \in [todo : SUBSET Entry, leaves : SUBSET Entry, dirs : SUBSET Entry]
        BY <2>1, <3>3 DEF NoWalk
      <4> QED
        BY <1>1, <3>3, <4>1 DEF TryDir, TreeTypes, LeavesOnly, LeavesAreLeaves
    <3> QED
      BY <1>1, <3>1, <3>2, <3>3 DEF TryDir, Refused
  <2> QED
    BY <1>1, <2>1, <2>2, <2>3, <2>4 DEF TryDir, Inside
<1>2. ASSUME WalkDir(w) PROVE Inside(w)
  <2>1. Busy(w) /\ at[w] = "walk" /\ OpOf(w).act = "deldir"
    BY <1>2, OpIs DEF WalkDir, Busy, Fits
  <2>2. setbacks' \in 0..MaxSetbacks
    BY <1>2, SetbackIs DEF WalkDir
  <2>3. \E to \in {"walk", "failed", "judge"} : Goes(w, to)
    <3>1. CASE UNCHANGED at
      <4>1. at' = [at EXCEPT ![w] = "walk"]
        BY <2>1, <3>1 DEF StepTypes
      <4> QED
        BY <2>1, <4>1 DEF Goes, Places, Fits
    <3>2. CASE \E to \in {"failed", "judge"} : Move(w, to)
      BY <2>1, <3>2 DEF Move, Goes, Places, Endings, Fits
    <3> QED
      BY <1>2, <3>1, <3>2 DEF WalkDir, Ends
  <2>4. walk' \in [todo : SUBSET Entry, leaves : SUBSET Entry, dirs : SUBSET Entry]
    <3>1. CASE UNCHANGED walk
      BY <3>1 DEF TreeTypes
    <3>2. ASSUME NEW d \in walk.todo, NEW found \in SUBSET Entry, NEW below \in SUBSET found,
                 walk' = [todo |-> (walk.todo \ {d}) \cup below, dirs |-> walk.dirs \cup below,
                          leaves |-> walk.leaves \cup (found \ below)]
          PROVE  walk' \in [todo : SUBSET Entry, leaves : SUBSET Entry, dirs : SUBSET Entry]
      BY <3>2 DEF TreeTypes
    <3>3. CASE UNCHANGED at /\ walk' # walk
      <4>1. PICK d \in walk.todo :
              LET found == IF tree[OpOf(w).side][d] = "dir" THEN Children(OpOf(w).side, d) ELSE {}
                  below == {q \in found : tree[OpOf(w).side][q] = "dir"}
              IN  walk' = [todo |-> (walk.todo \ {d}) \cup below, dirs |-> walk.dirs \cup below,
                           leaves |-> walk.leaves \cup (found \ below)]
        BY <1>2, <3>3 DEF WalkDir
      <4> DEFINE found == IF tree[OpOf(w).side][d] = "dir" THEN Children(OpOf(w).side, d) ELSE {}
                 below == {q \in found : tree[OpOf(w).side][q] = "dir"}
      <4>4. walk' = [todo |-> (walk.todo \ {d}) \cup below, dirs |-> walk.dirs \cup below,
                     leaves |-> walk.leaves \cup (found \ below)]
        BY <4>1
      <4>2. found \in SUBSET Entry
        BY DEF Children
      <4>3. below \in SUBSET found
        OBVIOUS
      <4> HIDE DEF found, below
      <4> QED
        BY <3>2, <4>4, <4>2, <4>3
    <3> QED
      BY <1>2, <3>1, <3>3 DEF WalkDir
  <2>5. TreeTypes' /\ LeavesOnly
    BY <1>2, <2>4 DEF WalkDir, TreeTypes, LeavesOnly, LeavesAreLeaves
  <2> QED
    BY <1>2, <2>1, <2>2, <2>3, <2>5 DEF WalkDir, Inside
<1>3. ASSUME JudgeDir(w) PROVE Inside(w)
  <2>1. Busy(w) /\ at[w] = "judge" /\ OpOf(w).act = "deldir"
    BY <1>3, OpIs DEF JudgeDir, Busy, Fits
  <2>2. TreeTypes' /\ LeavesOnly /\ setbacks' \in 0..MaxSetbacks /\ walk' = walk
    BY <1>3, SameTree DEF JudgeDir, PeopleTypes
  <2>3. Goes(w, IF MustStay THEN "kept" ELSE "clear")
    BY <1>3, <2>1, <2>2 DEF JudgeDir, Move, Goes, Places, Endings, Fits, MustStay
  <2> QED
    BY <1>3, <2>1, <2>2, <2>3 DEF JudgeDir, Inside
<1> QED
  BY <1>1, <1>2, <1>3

LEMMA ClearSteps ==
  ASSUME PoolTypeOK, RootsInv, NEW w \in Worker, Clear(w)
  PROVE  Inside(w)
<1> USE PoolParts DEF poolTree, poolCounts, poolWorld, RootsInv
<1>1. /\ Busy(w) /\ at[w] = "clear" /\ task[w] \in Ops /\ OpOf(w).side \in Side /\ OpOf(w).path \in Entry
      /\ OpOf(w).act = "deldir"
  BY OpIs DEF Clear, Busy, Fits
<1>2. walk.leaves \subseteq Deletable /\ walk.leaves \subseteq Entry /\ walk.dirs \subseteq Entry
  BY <1>1 DEF JudgedFirst, TreeTypes
<1>3. setbacks' \in 0..MaxSetbacks
  BY SetbackIs DEF Clear
<1>4. CASE Refused(w)
  <2>1. Goes(w, "failed") /\ UNCHANGED <<tree, walk>>
    BY <1>4 DEF Refused, Ends, Move, Goes, Places, Endings, Fits
  <2>2. TreeTypes' /\ LeavesOnly
    BY <2>1, SameTree DEF Clear
  <2> QED
    BY <1>1, <1>3, <2>1, <2>2 DEF Clear, Inside
<1>5. CASE ClearLeaf(w)
  <2>1. PICK p \in walk.leaves : /\ Put(OpOf(w).side, p, "none") /\ UNCHANGED at
                                  /\ walk' = [walk EXCEPT !.leaves = @ \ {p}]
    BY <1>5 DEF ClearLeaf
  <2>2. /\ walk' \in [todo : SUBSET Entry, leaves : SUBSET Entry, dirs : SUBSET Entry]
        /\ walk'.leaves \subseteq walk.leaves
    BY <2>1 DEF TreeTypes
  <2>3. TreeTypes' /\ LeavesOnly
    BY <1>1, <1>2, <2>1, <2>2, PutIs DEF Clear
  <2>4. Goes(w, "clear")
    <3>1. at' = [at EXCEPT ![w] = "clear"]
      BY <1>1, <2>1 DEF StepTypes
    <3> QED
      BY <1>1, <1>2, <2>2, <3>1 DEF Goes, Places, Fits
  <2> QED
    BY <1>1, <1>3, <2>3, <2>4 DEF Clear, Inside
<1>6. CASE ClearDir(w)
  <2>1. PICK d \in IF walk.dirs = {} THEN {OpOf(w).path} ELSE walk.dirs :
          IF Has(OpOf(w).side, d) /\ ~RemoveDir(OpOf(w).side, d)
          THEN Ends(w, "kept") /\ UNCHANGED <<tree, walk>>
          ELSE /\ Put(OpOf(w).side, d, "none") /\ walk' = [walk EXCEPT !.dirs = @ \ {d}]
               /\ IF walk.dirs = {} THEN Ends(w, "ok") ELSE UNCHANGED at
    BY <1>6 DEF ClearDir
  <2>2. d \in Entry
    BY <1>1, <1>2, <2>1
  <2>3. CASE Has(OpOf(w).side, d) /\ ~RemoveDir(OpOf(w).side, d)
    <3>1. Goes(w, "kept") /\ UNCHANGED <<tree, walk>>
      BY <2>1, <2>3 DEF Ends, Move, Goes, Places, Endings, Fits
    <3>2. TreeTypes' /\ LeavesOnly
      BY <3>1, SameTree DEF Clear
    <3> QED
      BY <1>1, <1>3, <3>1, <3>2 DEF Clear, Inside
  <2>4. CASE ~(Has(OpOf(w).side, d) /\ ~RemoveDir(OpOf(w).side, d))
    <3>1. Put(OpOf(w).side, d, "none") /\ walk' = [walk EXCEPT !.dirs = @ \ {d}]
      BY <2>1, <2>4
    <3>2. /\ walk' \in [todo : SUBSET Entry, leaves : SUBSET Entry, dirs : SUBSET Entry]
          /\ walk'.leaves = walk.leaves
      BY <3>1 DEF TreeTypes
    <3>3. d \in Leaf => tree[OpOf(w).side][d] = "none"
      BY <1>1, <2>4 DEF Has, RemoveDir, LeavesAreLeaves
    <3>4. TreeTypes' /\ LeavesOnly
      BY <1>1, <2>2, <3>1, <3>2, <3>3, PutIs DEF Clear
    <3>5. \E to \in {"ok", "clear"} : Goes(w, to)
      <4>1. CASE walk.dirs = {}
        BY <2>1, <2>4, <4>1 DEF Ends, Move, Goes, Places, Endings, Fits
      <4>2. CASE walk.dirs # {}
        <5>1. at' = [at EXCEPT ![w] = "clear"]
          BY <1>1, <2>1, <2>4, <4>2 DEF StepTypes
        <5> QED
          BY <1>1, <1>2, <3>2, <5>1 DEF Goes, Places, Fits
      <4> QED
        BY <4>1, <4>2
    <3> QED
      BY <1>1, <1>3, <3>4, <3>5 DEF Clear, Inside
  <2> QED
    BY <2>3, <2>4
<1> QED
  BY <1>4, <1>5, <1>6 DEF Clear

(* Every step of a worker between the draw and the record.                 *)
InsideStep(w) ==
  \/ BeginOp(w) \/ Ensure(w) \/ MakeDir(w) \/ NoteDir(w) \/ Write(w)
  \/ TryDir(w) \/ WalkDir(w) \/ JudgeDir(w) \/ Clear(w)

LEMMA InsideSteps ==
  ASSUME PoolTypeOK, RootsInv, NEW w \in Worker, InsideStep(w)
  PROVE  Inside(w)
BY EnsureSteps, WriteSteps, DirSteps, ClearSteps DEF InsideStep, RootsInv

(* Where the workers are after such a step.                                *)
LEMMA InsideMoves ==
  ASSUME PoolTypeOK, NEW w \in Worker, Inside(w)
  PROVE  /\ \A v \in Worker \ {w} : at'[v] = at[v]
         /\ at'[w] \in Places \ {"out", "idle"} /\ Fits(at'[w], OpOf(w))
         /\ at'[w] = "stopped" => stopAsked
         /\ at'[w] = "clear" => walk'.leaves \subseteq Deletable
         /\ \A v \in Worker : (Busy(v))' <=> Busy(v)
         /\ at' \in [Worker -> Places]
<1> USE PoolParts DEF StepTypes
<1>1. PICK to : Goes(w, to)
  BY DEF Inside
<1>2. at' = [at EXCEPT ![w] = to] /\ to \in Places \ {"out", "idle"}
  BY <1>1 DEF Goes
<1>3. (\A v \in Worker \ {w} : at'[v] = at[v]) /\ at'[w] = to /\ at' \in [Worker -> Places]
  BY <1>2
<1>4. \A v \in Worker : (Busy(v))' <=> Busy(v)
  BY <1>2, <1>3 DEF Busy, Inside
<1> QED
  BY <1>1, <1>2, <1>3, <1>4 DEF Goes

LEMMA InsideKeepsRoots ==
  ASSUME PoolTypeOK, RootsInv, NEW w \in Worker, Inside(w)
  PROVE  PoolTypeOK' /\ RootsInv'
<1> USE PoolParts DEF RootsInv
<1>1. PoolTypeOK'
  <2>1. StepTypes'
    BY InsideMoves DEF StepTypes, Inside, Places, Endings
  <2>2. TallyTypes' /\ SumTypes' /\ PeopleTypes' /\ plan' \in Plans /\ dry' \in BOOLEAN
    BY DEF Inside, TallyTypes, SumTypes, PeopleTypes, Ops
  <2> QED
    BY <2>1, <2>2 DEF Inside
<1>2. Alone'
  <2>1. \A v \in Worker : at'[v] # "out" => at[v] # "out"
    BY InsideMoves DEF Inside, Busy
  <2> QED
    BY <2>1 DEF Alone, Inside
<1>3. TasksFit'
  <2> SUFFICES ASSUME NEW v \in Worker, (Busy(v))'
               PROVE  (task[v] \in OfClass(class) /\ Fits(at[v], OpOf(v)))'
    BY DEF TasksFit
  <2>1. task[v] \in OfClass(class) /\ Fits(at[v], OpOf(v))
    BY InsideMoves DEF TasksFit
  <2>2. (task[v] \in OfClass(class))'
    BY <2>1, PlanStays DEF Inside
  <2>3. (Fits(at[v], OpOf(v)))'
    BY <2>1, InsideMoves DEF Inside, OpOf, Fits
  <2> QED
    BY <2>2, <2>3
<1>4. JudgedFirst'
  <2> SUFFICES ASSUME NEW v \in Worker, at'[v] = "clear"
               PROVE  walk'.leaves \subseteq Deletable
    BY DEF JudgedFirst
  <2>1. CASE v = w
    BY <2>1, InsideMoves
  <2>2. CASE v # w /\ walk' = walk
    BY <2>2, InsideMoves DEF JudgedFirst
  <2>3. CASE v # w /\ at[w] \in {"try", "walk", "clear"}
    <3>1. at[v] = "clear" /\ class = 6
      BY <2>3, InsideMoves, OpIs DEF Inside, Fits
    <3> QED
      BY <2>3, <3>1 DEF Alone
  <2> QED
    BY <2>1, <2>2, <2>3 DEF Inside
<1>5. LeavesAreLeaves'
  BY DEF Inside, LeavesOnly, LeavesAreLeaves
<1> QED
  BY <1>1, <1>2, <1>3, <1>4, <1>5

(* Drawing a ticket.                                                       *)
LEMMA TakeIs ==
  ASSUME PoolTypeOK, NEW w \in Worker, Take(w)
  PROVE  /\ next' = next + 1 /\ at[w] = "idle" /\ phase = "run"
         /\ UNCHANGED <<plan, dry, versioned, phase, class, poolTree, poolCounts, healthy, summary, poolWorld>>
         /\ \/ /\ next > Cardinality(OfClass(class)) \/ MustStop
               /\ at' = [at EXCEPT ![w] = "out"] /\ task' = task
            \/ /\ next <= Cardinality(OfClass(class)) /\ ~MustStop
               /\ at' = [at EXCEPT ![w] = "begin"] /\ task'[w] \in OfClass(class)
               /\ Turn(task'[w], class) = next
               /\ task' = [task EXCEPT ![w] = task'[w]]
<1> USE PoolParts
<1>1. /\ next \in Nat \ {0} /\ plan \in Plans /\ task \in [Worker -> 0..Len(plan)]
      /\ Cardinality(OfClass(class)) \in Nat
  BY TurnsAre DEF StepTypes
<1>2. Len(Queue(class)) = Cardinality(OfClass(class))
  BY <1>1, QueueIs
<1>3. CASE next > Len(Queue(class)) \/ MustStop
  BY <1>2, <1>3 DEF Take, Move
<1>4. CASE ~(next > Len(Queue(class)) \/ MustStop)
  <2>1. next \in 1..Cardinality(OfClass(class)) /\ ~MustStop
    BY <1>1, <1>2, <1>4
  <2>2. Queue(class)[next] \in OfClass(class) /\ Turn(Queue(class)[next], class) = next
    BY <1>1, <2>1, QueueIs
  <2>3. at' = [at EXCEPT ![w] = "begin"] /\ task' = [task EXCEPT ![w] = Queue(class)[next]]
    BY <1>4 DEF Take, Move
  <2>4. task'[w] = Queue(class)[next]
    BY <1>1, <2>3
  <2> QED
    BY <1>1, <2>1, <2>2, <2>3, <2>4 DEF Take
<1> QED
  BY <1>3, <1>4

LEMMA TakeKeepsRoots ==
  ASSUME PoolTypeOK, RootsInv, NEW w \in Worker, Take(w)
  PROVE  PoolTypeOK' /\ RootsInv'
<1> USE PoolParts, TakeIs DEF RootsInv, poolTree, poolCounts, poolWorld
<1>1. at \in [Worker -> Places] /\ task \in [Worker -> 0..Len(plan)]
  BY DEF StepTypes
<1>2. /\ at'[w] \in {"out", "begin"} /\ at' \in [Worker -> Places]
      /\ \A v \in Worker \ {w} : at'[v] = at[v] /\ task'[v] = task[v]
  BY <1>1 DEF Places
<1>3. PoolTypeOK'
  <2>1. OfClass(class) \subseteq 0..Len(plan)
    BY TurnsAre, PlanIs
  <2>2. StepTypes'
    BY <1>1, <1>2, <2>1 DEF StepTypes
  <2>3. UNCHANGED <<plan, dry, versioned, tree, memo, walk, versions, outcome, records, tally, healthy, summary,
                    stopAsked, leaseLost, meddling, setbacks>>
    BY DEF Take
  <2>4. TreeTypes' /\ SumTypes' /\ PeopleTypes' /\ plan' \in Plans /\ dry' \in BOOLEAN
    BY <2>3 DEF TreeTypes, SumTypes, PeopleTypes
  <2>5. TallyTypes'
    BY <2>3 DEF TallyTypes, Ops
  <2> QED
    BY <2>2, <2>3, <2>4, <2>5
<1>4. Alone'
  BY <1>2 DEF Alone
<1>5. TasksFit'
  <2> SUFFICES ASSUME NEW v \in Worker, (Busy(v))'
               PROVE  (task[v] \in OfClass(class) /\ Fits(at[v], OpOf(v)))'
    BY DEF TasksFit
  <2>1. CASE v = w
    <3>1. at'[w] = "begin" /\ task'[w] \in OfClass(class)
      BY <1>1, <1>2, <2>1 DEF Busy
    <3> QED
      BY <2>1, <3>1, PlanStays DEF Fits
  <2>2. CASE v # w
    <3>1. task[v] \in OfClass(class) /\ Fits(at[v], OpOf(v)) /\ at'[v] = at[v] /\ task'[v] = task[v]
      BY <1>2, <2>2 DEF TasksFit, Busy
    <3> QED
      BY <3>1, PlanStays DEF OpOf, Fits
  <2> QED
    BY <2>1, <2>2
<1>6. JudgedFirst' /\ LeavesAreLeaves'
  BY <1>2 DEF JudgedFirst, LeavesAreLeaves
<1> QED
  BY <1>3, <1>4, <1>5, <1>6

(* Recording an operation that is in hand and was never recorded.          *)
LEMMA RecordIs ==
  ASSUME PoolTypeOK, TasksFit, NEW w \in Worker, Record(w)
  PROVE  /\ at[w] \in Endings /\ Busy(w) /\ task[w] \in Ops /\ class \in 1..6
         /\ at'[w] = (IF at[w] = "stopped" THEN "out" ELSE "idle")
         /\ \A v \in Worker \ {w} : at'[v] = at[v]
         /\ \A v \in Worker : (Busy(v))' <=> Busy(v) /\ v # w
         /\ at' \in [Worker -> Places]
         /\ outcome'[task[w]] = at[w] /\ records'[task[w]] = records[task[w]] + 1
         /\ \A i \in Ops \ {task[w]} : outcome'[i] = outcome[i] /\ records'[i] = records[i]
         /\ outcome' \in [Ops -> Endings \cup {"untried"}] /\ records' \in [Ops -> Nat]
         /\ tally' = Counted(at[w])
         /\ UNCHANGED <<plan, dry, versioned, phase, class, next, task, poolTree, healthy, summary, poolWorld>>
<1> USE PoolParts
<1>1. at[w] \in Endings /\ Busy(w)
  BY DEF Record, Busy, Endings
<1>2. task[w] \in Ops /\ class \in 1..6
  BY <1>1, OpIs
<1>3. PICK to \in {"out", "idle"} : to = (IF at[w] = "stopped" THEN "out" ELSE "idle")
  OBVIOUS
<1>4. at' = [at EXCEPT ![w] = to]
  BY <1>3 DEF Record, Move
<1>5. at \in [Worker -> Places]
  BY DEF StepTypes
<1>6. /\ at'[w] = to /\ \A v \in Worker \ {w} : at'[v] = at[v]
      /\ at' \in [Worker -> Places]
  BY <1>3, <1>4, <1>5 DEF Places
<1>7. \A v \in Worker : (Busy(v))' <=> Busy(v) /\ v # w
  BY <1>6 DEF Busy
<1>8. PICK i \in Ops : i = task[w]
  BY <1>2
<1>9. outcome' = [outcome EXCEPT ![i] = at[w]] /\ records' = [records EXCEPT ![i] = @ + 1]
  BY <1>8 DEF Record
<1>10. outcome \in [Ops -> Endings \cup {"untried"}] /\ records \in [Ops -> Nat]
  BY DEF TallyTypes
<1>11. /\ outcome'[i] = at[w] /\ records'[i] = records[i] + 1
       /\ \A j \in Ops \ {i} : outcome'[j] = outcome[j] /\ records'[j] = records[j]
       /\ outcome' \in [Ops -> Endings \cup {"untried"}] /\ records' \in [Ops -> Nat]
  BY <1>1, <1>9, <1>10
<1> QED
  BY <1>1, <1>2, <1>3, <1>6, <1>7, <1>8, <1>11 DEF Record

(* What one more element makes of a count.                                 *)
LEMMA OneMore ==
  ASSUME NEW S, IsFiniteSet(S), NEW before \in SUBSET S, NEW x, x \notin before
  PROVE  /\ Cardinality(before) \in Nat
         /\ Cardinality(before \cup {x}) = Cardinality(before) + 1
BY FS_Subset, FS_CardinalityType, FS_AddElement

LEMMA RecordKeepsRoots ==
  ASSUME PoolTypeOK, RootsInv, NEW w \in Worker, Record(w), ~Tried(task[w])
  PROVE  /\ PoolTypeOK' /\ RootsInv'
         /\ Cardinality(Having("kept")') = Cardinality(Having("kept")) + (IF at[w] = "kept" THEN 1 ELSE 0)
<1>1. \A hows : "untried" \notin hows =>
        Cardinality({i \in Ops : outcome'[i] \in hows})
          = Cardinality({i \in Ops : outcome[i] \in hows}) + (IF at[w] \in hows THEN 1 ELSE 0)
  <2> SUFFICES ASSUME NEW hows, "untried" \notin hows
               PROVE  Cardinality({i \in Ops : outcome'[i] \in hows})
                        = Cardinality({i \in Ops : outcome[i] \in hows})
                          + (IF at[w] \in hows THEN 1 ELSE 0)
    OBVIOUS
  <2> DEFINE before == {i \in Ops : outcome[i] \in hows}
             after == {i \in Ops : outcome'[i] \in hows}
  <2>1. IsFiniteSet(Ops) /\ before \in SUBSET Ops /\ task[w] \notin before
    BY PlanIs, PoolParts DEF Tried
  <2>2. Cardinality(before) \in Nat /\ Cardinality(before \cup {task[w]}) = Cardinality(before) + 1
    BY <2>1, OneMore
  <2>3. after = IF at[w] \in hows THEN before \cup {task[w]} ELSE before
    BY <2>1, RecordIs DEF RootsInv
  <2> HIDE DEF before, after
  <2>4. Cardinality(after) = Cardinality(before) + (IF at[w] \in hows THEN 1 ELSE 0)
    BY <2>2, <2>3
  <2> QED
    BY <2>4 DEF before, after
<1> USE PoolParts, RecordIs DEF RootsInv
<1>0. UNCHANGED <<plan, dry, versioned, phase, class, next, task, tree, memo, walk, versions, healthy, summary,
                  stopAsked, leaseLost, meddling, setbacks>> /\ Ops' = Ops
  BY DEF poolTree, poolWorld, Ops
<1>2. \A how : {i \in Ops : outcome[i] = how} = {i \in Ops : outcome[i] \in {how}}
             /\ {i \in Ops : outcome'[i] = how} = {i \in Ops : outcome'[i] \in {how}}
  OBVIOUS
<1>3. TallyTypes'
  <2>1. tally \in [done : Nat, skipped : Nat, errors : Nat, items : Nat, lossRecorded : BOOLEAN]
        /\ leaseLost \in BOOLEAN
    BY DEF TallyTypes, PeopleTypes
  <2>2. tally' \in [done : Nat, skipped : Nat, errors : Nat, items : Nat, lossRecorded : BOOLEAN]
    BY <2>1 DEF Counted
  <2>3. tally'.done = Cardinality({i \in Ops : outcome'[i] = "ok"})
    <3>1. tally'.done = tally.done + (IF at[w] = "ok" THEN 1 ELSE 0)
      BY DEF Counted
    <3>2. Cardinality({i \in Ops : outcome'[i] \in {"ok"}})
            = Cardinality({i \in Ops : outcome[i] \in {"ok"}}) + (IF at[w] \in {"ok"} THEN 1 ELSE 0)
      BY <1>1
    <3> QED
      BY <1>2, <3>1, <3>2 DEF TallyTypes
  <2>4. tally'.items = Cardinality({i \in Ops : outcome'[i] \in {"ok", "kept", "failed"}})
    <3>1. tally'.items = tally.items + (IF at[w] \in {"ok", "kept", "failed"} THEN 1 ELSE 0)
      BY DEF Counted, Endings
    <3>2. Cardinality({i \in Ops : outcome'[i] \in {"ok", "kept", "failed"}})
            = Cardinality({i \in Ops : outcome[i] \in {"ok", "kept", "failed"}})
              + (IF at[w] \in {"ok", "kept", "failed"} THEN 1 ELSE 0)
      BY <1>1
    <3> QED
      BY <3>1, <3>2 DEF TallyTypes
  <2> QED
    BY <1>0, <2>2, <2>3, <2>4 DEF TallyTypes
<1>4. PoolTypeOK'
  <2>1. StepTypes'
    BY <1>0 DEF StepTypes
  <2>2. TreeTypes' /\ SumTypes' /\ PeopleTypes' /\ plan' \in Plans /\ dry' \in BOOLEAN
    BY <1>0 DEF TreeTypes, SumTypes, PeopleTypes
  <2> QED
    BY <1>3, <2>1, <2>2
<1>5. Alone' /\ JudgedFirst' /\ LeavesAreLeaves'
  <2>1. \A v \in Worker : (at'[v] # "out" => at[v] # "out") /\ (at'[v] = "clear" => at[v] = "clear")
    BY DEF Endings
  <2> QED
    BY <1>0, <2>1 DEF Alone, JudgedFirst, LeavesAreLeaves
<1>6. TasksFit'
  <2> SUFFICES ASSUME NEW v \in Worker, (Busy(v))'
               PROVE  (task[v] \in OfClass(class) /\ Fits(at[v], OpOf(v)))'
    BY DEF TasksFit
  <2>1. task[v] \in OfClass(class) /\ Fits(at[v], OpOf(v)) /\ at'[v] = at[v]
    BY DEF TasksFit
  <2> QED
    BY <1>0, <2>1, PlanStays DEF OpOf, Fits
<1>7. Cardinality(Having("kept")') = Cardinality(Having("kept")) + (IF at[w] = "kept" THEN 1 ELSE 0)
  <2>1. Having("kept")' = {i \in Ops : outcome'[i] \in {"kept"}}
    BY <1>0, <1>2 DEF Having
  <2>2. Having("kept") = {i \in Ops : outcome[i] \in {"kept"}}
    BY <1>2 DEF Having
  <2>3. Cardinality({i \in Ops : outcome'[i] \in {"kept"}})
          = Cardinality({i \in Ops : outcome[i] \in {"kept"}}) + (IF at[w] \in {"kept"} THEN 1 ELSE 0)
    BY <1>1
  <2> QED
    BY <2>1, <2>2, <2>3
<1> QED
  BY <1>4, <1>5, <1>6, <1>7

(* The pool of a class.                                                    *)
LEMMA WidthIs ==
  ASSUME plan \in Plans, NEW c
  PROVE  /\ Width(c) \in Nat
         /\ c # 2 => Width(c) <= 1
         /\ Cardinality(OfClass(c)) # 0 => Width(c) # 0
<1>1. Cardinality(OfClass(c)) \in Nat /\ Len(Queue(c)) = Cardinality(OfClass(c))
  BY TurnsAre, QueueIs
<1>2. CopyWidth \in Nat \ {0}
  BY PoolAssumption DEF CopyWidth, Smaller
<1> QED
  BY <1>1, <1>2 DEF Width, Smaller

LEMMA NextClassIs ==
  ASSUME PoolTypeOK, NEW up, up = class + 1, NextClass
  PROVE  /\ phase = "run" /\ ClassEnds
         /\ UNCHANGED <<plan, dry, versioned, poolTree, poolCounts, task, healthy, summary, poolWorld>>
         /\ \/ class = 6 /\ phase' = "wrapup" /\ UNCHANGED <<class, next, at>>
            \/ /\ class # 6 /\ class' = up /\ next' = 1 /\ phase' = phase
               /\ at' \in [Worker -> {"out", "idle"}]
               /\ up # 2 => \A v, w \in Worker : at'[v] # "out" /\ at'[w] # "out" => v = w
               /\ Cardinality(OfClass(up)) # 0 => \E w \in Worker : at'[w] # "out"
<1>1. CASE class = 6
  BY <1>1 DEF NextClass
<1>2. CASE class # 6
  <2>1. PICK pool \in SUBSET Worker :
           /\ Cardinality(pool) = Width(up)
           /\ at' = [w \in Worker |-> IF w \in pool THEN "idle" ELSE at[w]]
    BY <1>2 DEF NextClass
  <2>2. at' = [w \in Worker |-> IF w \in pool THEN "idle" ELSE "out"]
    BY <2>1 DEF NextClass, ClassEnds
  <2>3. IsFiniteSet(pool)
    BY <2>1, PoolAssumption, FS_Subset
  <2>4. ASSUME up # 2
        PROVE  \A v, w \in Worker : at'[v] # "out" /\ at'[w] # "out" => v = w
    <3>1. Cardinality(pool) \in {0, 1}
      BY <2>1, <2>4, PoolParts, WidthIs
    <3>2. pool = {} \/ \E x : pool = {x}
      BY <2>3, <3>1, FS_EmptySet, FS_Singleton
    <3> QED
      BY <2>2, <3>2
  <2>5. ASSUME Cardinality(OfClass(up)) # 0
        PROVE  \E w \in Worker : at'[w] # "out"
    <3>1. Cardinality(pool) # 0
      BY <2>1, <2>5, PoolParts, WidthIs
    <3>2. pool # {}
      BY <2>3, <3>1, FS_EmptySet
    <3> QED
      BY <2>2, <3>2
  <2> QED
    BY <1>2, <2>2, <2>4, <2>5 DEF NextClass
<1> QED
  BY <1>1, <1>2 DEF NextClass

LEMMA NextClassKeepsRoots ==
  ASSUME PoolTypeOK, RootsInv, NextClass
  PROVE  PoolTypeOK' /\ RootsInv'
<1> USE PoolParts DEF RootsInv
<1>1. PICK up : up = class + 1
  OBVIOUS
<1>2. /\ phase = "run" /\ ClassEnds
      /\ UNCHANGED <<plan, dry, versioned, tree, memo, walk, versions, outcome, records, tally, task, healthy, summary,
                     stopAsked, leaseLost, meddling, setbacks>>
      /\ \/ class = 6 /\ phase' = "wrapup" /\ UNCHANGED <<class, next, at>>
         \/ /\ class # 6 /\ class' = up /\ next' = 1 /\ phase' = phase
            /\ at' \in [Worker -> {"out", "idle"}]
            /\ up # 2 => \A v, w \in Worker : at'[v] # "out" /\ at'[w] # "out" => v = w
  BY <1>1, NextClassIs DEF poolTree, poolCounts, poolWorld
<1>3. \A w \in Worker : at[w] = "out" /\ at'[w] \in {"out", "idle"} /\ ~(Busy(w))'
  BY <1>2 DEF ClassEnds, Busy
<1>4. PoolTypeOK'
  <2>1. TreeTypes' /\ SumTypes' /\ PeopleTypes' /\ plan' \in Plans /\ dry' \in BOOLEAN
    BY <1>2 DEF TreeTypes, SumTypes, PeopleTypes
  <2>2. TallyTypes'
    BY <1>2 DEF TallyTypes, Ops
  <2>3. StepTypes'
    <3>1. class' \in 0..6 /\ next' \in Nat \ {0}
      BY <1>1, <1>2 DEF StepTypes
    <3>2. at' \in [Worker -> Places]
      BY <1>2 DEF StepTypes, Places
    <3> QED
      BY <1>2, <3>1, <3>2 DEF StepTypes
  <2> QED
    BY <2>1, <2>2, <2>3
<1>5. Alone'
  BY <1>2, <1>3 DEF Alone
<1>6. TasksFit' /\ JudgedFirst' /\ LeavesAreLeaves'
  BY <1>2, <1>3 DEF TasksFit, JudgedFirst, LeavesAreLeaves
<1> QED
  BY <1>4, <1>5, <1>6

(* The steps of the run and of the world, none of which moves a worker.    *)
LEMMA NotesAre ==
  ASSUME plan \in Plans
  PROVE  Notes \in Nat /\ IsFiniteSet({i \in Ops : ~Executable(plan[i])})
BY PlanIs, FS_Subset, FS_CardinalityType DEF Notes

OnTheSide == Validate \/ Prepare \/ WrapUp \/ (\E s \in Side : Finalize(s)) \/ SumUp \/ ReportRun
             \/ CancelPool \/ LoseRoot

LEMMA OnTheSideIs ==
  ASSUME PoolTypeOK, OnTheSide \/ UNCHANGED poolVars
  PROVE  /\ UNCHANGED <<plan, dry, versioned, tree, memo, walk, outcome, records, class, next, at, task, meddling>>
         /\ PoolTypeOK'
<1> USE PoolParts DEF poolTree, poolCounts, poolWorld, poolSteps
<1>1. UNCHANGED <<plan, dry, versioned, tree, memo, walk, outcome, records, class, next, at, task, meddling>>
  BY DEF OnTheSide, Validate, Prepare, WrapUp, Finalize, SumUp, ReportRun, CancelPool, LoseRoot, poolVars
<1>2. /\ phase' \in {"validate", "lock", "run", "wrapup", "source", "target", "sum", "report", "over"}
      /\ versions' \in [Side -> {"none", "open", "indexed", "left"}]
  BY DEF OnTheSide, Validate, Refuse, Prepare, WrapUp, Finalize, SumUp, ReportRun, CancelPool, LoseRoot, poolVars,
         StepTypes, TreeTypes, Side
<1>3. {healthy', stopAsked', leaseLost'} \subseteq BOOLEAN /\ setbacks' \in 0..MaxSetbacks
  <2>1. setbacks' \in 0..MaxSetbacks
    BY SetbackIs DEF OnTheSide, Validate, Prepare, WrapUp, Finalize, SumUp, ReportRun, CancelPool, LoseRoot, poolVars
  <2>2. /\ stopAsked' \in {stopAsked, TRUE} /\ leaseLost' \in {leaseLost, TRUE}
        /\ healthy' \in {healthy, ~leaseLost}
    BY DEF OnTheSide, Validate, Prepare, WrapUp, Finalize, SumUp, ReportRun, CancelPool, LoseRoot, poolVars
  <2> QED
    BY <2>1, <2>2 DEF PeopleTypes
<1>4. /\ tally' \in [done : Nat, skipped : Nat, errors : Nat, items : Nat, lossRecorded : BOOLEAN]
      /\ tally'.done = tally.done /\ tally'.items = tally.items
  <2>1. tally' = tally \/ tally' = [tally EXCEPT !.skipped = Notes]
        \/ tally' = [tally EXCEPT !.errors = @ + 1]
    BY DEF OnTheSide, Validate, Refuse, Prepare, WrapUp, Finalize, SumUp, ReportRun, CancelPool, LoseRoot, poolVars
  <2> QED
    BY <2>1, NotesAre DEF TallyTypes
<1>5. summary' \in [done : Nat, skipped : Nat, errors : Nat, cancelled : BOOLEAN,
                    ended : {"none", "failed", "cancelled", "completed"}]
  <2> DEFINE sums == [done : Nat, skipped : Nat, errors : Nat, cancelled : BOOLEAN,
                     ended : {"none", "failed", "cancelled", "completed"}]
  <2>1. \A how \in {"none", "failed", "cancelled", "completed"} : \A d, l, e \in Nat :
          SummaryOf(d, l, e, how) \in sums
    BY DEF SummaryOf
  <2>2. Ended \in {"none", "failed", "cancelled", "completed"} /\ Len(plan) \in Nat
    BY PlanIs DEF Ended
  <2>3. PICK errors \in Nat : errors = tally.errors + (IF leaseLost /\ ~tally.lossRecorded THEN 1 ELSE 0)
    BY DEF TallyTypes
  <2>7. tally.done \in Nat /\ tally.skipped \in Nat
    BY DEF TallyTypes
  <2>4. CASE UNCHANGED summary
    BY <2>4 DEF SumTypes
  <2>5. CASE summary' = [summary EXCEPT !.cancelled = stopAsked]
    BY <2>5 DEF SumTypes, PeopleTypes
  <2>6. CASE \/ summary' = SummaryOf(0, Len(plan), 1, "none")
             \/ summary' = SummaryOf(0, Len(plan), 0, Ended)
             \/ summary' = SummaryOf(tally.done, tally.skipped,
                                     tally.errors + (IF leaseLost /\ ~tally.lossRecorded THEN 1 ELSE 0), Ended)
    <3>1. \/ summary' = SummaryOf(0, Len(plan), 1, "none")
          \/ summary' = SummaryOf(0, Len(plan), 0, Ended)
          \/ summary' = SummaryOf(tally.done, tally.skipped, errors, Ended)
      BY <2>3, <2>6
    <3> HIDE DEF sums
    <3>2. summary' \in sums
      BY <2>1, <2>2, <2>3, <2>7, <3>1
    <3> QED
      BY <3>2 DEF sums
  <2> QED
    BY <2>4, <2>5, <2>6 DEF OnTheSide, Validate, Refuse, Prepare, WrapUp, Finalize, SumUp, ReportRun,
       CancelPool, LoseRoot, poolVars
<1>6. TallyTypes'
  <2>1. Ops' = Ops
    BY <1>1 DEF Ops
  <2> QED
    BY <1>1, <1>4, <2>1 DEF TallyTypes
<1> QED
  BY <1>1, <1>2, <1>3, <1>5, <1>6 DEF TreeTypes, StepTypes, PeopleTypes, SumTypes

LEMMA OnTheSideKeepsRoots ==
  ASSUME PoolTypeOK, RootsInv, OnTheSide \/ UNCHANGED poolVars
  PROVE  PoolTypeOK' /\ RootsInv'
<1>1. UNCHANGED <<plan, dry, versioned, tree, memo, walk, outcome, records, class, next, at, task>> /\ PoolTypeOK'
  BY OnTheSideIs
<1>2. Alone' /\ JudgedFirst' /\ LeavesAreLeaves'
  BY <1>1 DEF RootsInv, Alone, JudgedFirst, LeavesAreLeaves
<1>3. TasksFit'
  BY <1>1, PlanStays DEF RootsInv, TasksFit, Busy, OpOf, Fits
<1> QED
  BY <1>1, <1>2, <1>3 DEF RootsInv

(* People add old content and take empty directories away.                 *)
LEMMA MeddleKeepsRoots ==
  ASSUME PoolTypeOK, RootsInv, Meddle
  PROVE  PoolTypeOK' /\ RootsInv' /\ LeavesOnly
<1> USE PoolParts DEF RootsInv, poolCounts, poolSteps
<1>1. PICK s \in Side, p \in Entry :
        \/ ~Has(s, p) /\ Put(s, p, "old")
        \/ RemoveDir(s, p) /\ Put(s, p, "none")
  BY DEF Meddle
<1>2. tree' = [tree EXCEPT ![s][p] = "old"] \/ (tree' = [tree EXCEPT ![s][p] = "none"] /\ tree[s][p] = "dir")
  BY <1>1 DEF Put, RemoveDir
<1>3. TreeTypes' /\ LeavesOnly
  <2>1. tree' \in [Side -> [Entry -> {"none", "dir", "old", "new"}]]
    BY <1>2 DEF TreeTypes
  <2>2. TreeTypes'
    BY <2>1 DEF Meddle, TreeTypes
  <2>3. LeavesOnly
    BY <1>2 DEF TreeTypes, LeavesOnly, LeavesAreLeaves, Entry
  <2> QED
    BY <2>2, <2>3
<1>4. UNCHANGED <<plan, dry, versioned, outcome, records, tally, phase, class, next, at, task, walk, healthy, summary,
                  stopAsked, leaseLost, setbacks>>
  BY DEF Meddle
<1>5. PeopleTypes'
  <2>1. meddling' \in 0..MaxMeddling
    BY PoolAssumption DEF Meddle, PeopleTypes
  <2> QED
    BY <1>4, <2>1 DEF PeopleTypes
<1>6. PoolTypeOK'
  <2>1. StepTypes' /\ SumTypes' /\ plan' \in Plans /\ dry' \in BOOLEAN
    BY <1>4 DEF StepTypes, SumTypes
  <2>2. TallyTypes'
    BY <1>4 DEF TallyTypes, Ops
  <2> QED
    BY <1>3, <1>5, <2>1, <2>2
<1>7. Alone' /\ JudgedFirst' /\ LeavesAreLeaves'
  BY <1>3, <1>4 DEF Alone, JudgedFirst, LeavesAreLeaves, LeavesOnly
<1>8. TasksFit'
  BY <1>4, PlanStays DEF TasksFit, Busy, OpOf, Fits
<1> QED
  BY <1>3, <1>6, <1>7, <1>8

-----------------------------------------------------------------------------
(* The accounts.                                                           *)

LEMMA RankIs ==
  ASSUME NEW o \in PlanOp
  PROVE  Rank(o) \in 1..7 /\ (Rank(o) = 7 <=> ~Executable(o))
BY DEF PlanOp, Action, Rank, Executable

LEMMA OfClassIs ==
  ASSUME plan \in Plans
  PROVE  /\ \A i \in Ops : Rank(plan[i]) \in 1..7
         /\ \A c : \A i \in OfClass(c) : i \in Ops /\ Rank(plan[i]) = c
         /\ \A i \in Ops : i \in OfClass(Rank(plan[i]))
BY PlanIs, RankIs DEF OfClass

(* What a step keeps that leaves the tickets and the outcomes alone.       *)
LEMMA AccountsSteady ==
  ASSUME UNCHANGED <<plan, class, next, task, outcome>>,
         \A v \in Worker : (Busy(v))' <=> Busy(v),
         MustStop => MustStop'
  PROVE  /\ OneEach => OneEach'
         /\ InTurn => InTurn'
         /\ Ended7 => Ended7'
         /\ Counts /\ tally' = tally => Counts'
<1> USE PlanStays
<1>1. /\ \A i : (Drawn(i))' <=> Drawn(i)
      /\ \A i : (Tried(i))' <=> Tried(i)
      /\ \A i : (InHand(i))' <=> InHand(i)
  BY DEF Drawn, Tried, InHand
<1>2. OneEach => OneEach'
  BY <1>1 DEF OneEach
<1>3. Ops' = Ops /\ OfClass(class)' = OfClass(class) /\ \A i : Rank(plan[i])' = Rank(plan[i])
  BY DEF Rank
<1>4. InTurn => InTurn'
  BY <1>1, <1>3 DEF InTurn
<1>5. Ended7 => Ended7'
  BY <1>1, <1>3 DEF Ended7
<1>6. \A how : Having(how)' = Having(how)
  BY <1>3 DEF Having
<1>7. Counts /\ tally' = tally => Counts'
  BY <1>6 DEF Counts
<1> QED
  BY <1>2, <1>4, <1>5, <1>7

LEMMA InsideKeepsAccounts ==
  ASSUME PoolIInv, NEW w \in Worker, Inside(w)
  PROVE  AccountsInv'
<1> USE DEF PoolIInv, AccountsInv
<1>1. /\ UNCHANGED <<plan, dry, versioned, phase, class, next, task, outcome, records, tally, summary, stopAsked, leaseLost>>
      /\ Busy(w)
  BY DEF Inside
<1>2. (MustStop <=> MustStop') /\ Ops' = Ops
  BY <1>1 DEF MustStop, Ops
<1>3. OneEach' /\ InTurn' /\ (Counts => Counts')
  BY <1>1, <1>2, InsideMoves, AccountsSteady
<1>4. phase = "run" /\ ~ClassEnds /\ ~ClassEnds'
  BY <1>1, InsideMoves DEF ByPhase, ClassEnds, Busy
<1>5. NobodyLeavesEarly'
  BY <1>4 DEF NobodyLeavesEarly
<1>6. Accounted'
  BY <1>1, <1>2, InsideMoves DEF Accounted, Tried
<1>7. ByPhase'
  BY <1>1, <1>3, <1>4 DEF ByPhase
<1>8. SummaryAdds'
  BY <1>1, <1>4 DEF SummaryAdds
<1> QED
  BY <1>3, <1>5, <1>6, <1>7, <1>8

LEMMA TakeKeepsAccounts ==
  ASSUME PoolIInv, NEW w \in Worker, Take(w)
  PROVE  AccountsInv'
<1> USE DEF PoolIInv, AccountsInv
<1>1. /\ UNCHANGED <<plan, dry, versioned, phase, class, outcome, records, tally, summary, stopAsked, leaseLost>>
      /\ next' = next + 1 /\ at[w] = "idle" /\ phase = "run"
  BY TakeIs DEF poolCounts, poolWorld
<1>2. (MustStop <=> MustStop') /\ Ops' = Ops /\ OfClass(class)' = OfClass(class)
      /\ \A i : (Tried(i))' <=> Tried(i)
  BY <1>1, PlanStays DEF MustStop, Tried
<1>3. plan \in Plans /\ next \in Nat \ {0} /\ at \in [Worker -> Places] /\ task \in [Worker -> 0..Len(plan)]
      /\ Cardinality(OfClass(class)) \in Nat
  BY PoolParts, TurnsAre DEF StepTypes
<1>4. \A i : (Drawn(i))' <=> Turn(i, class) < next + 1
  BY <1>1, PlanStays DEF Drawn
<1>5. \A i \in OfClass(class) : Turn(i, class) \in 1..Cardinality(OfClass(class)) /\ i \in Ops
  BY <1>3, TurnsAre
<1>6. \A i : Rank(plan[i])' = Rank(plan[i])
  BY <1>1 DEF Rank
<1>9. ASSUME \A v \in Worker : at'[v] = "stopped" => at[v] = "stopped"
      PROVE  Accounted' /\ ByPhase' /\ SummaryAdds'
  <2>1. Accounted'
    BY <1>1, <1>2, <1>9 DEF Accounted
  <2>2. \A how : Having(how)' = Having(how)
    BY <1>1, <1>2 DEF Having
  <2>3. Counts => Counts'
    BY <1>1, <2>2, PlanStays DEF Counts
  <2>4. ByPhase'
    BY <1>1, <2>3 DEF ByPhase
  <2>5. SummaryAdds'
    BY <1>1 DEF SummaryAdds
  <2> QED
    BY <2>1, <2>4, <2>5
<1>7. CASE /\ next > Cardinality(OfClass(class)) \/ MustStop
           /\ at' = [at EXCEPT ![w] = "out"] /\ task' = task
  <2>1. \A v \in Worker : (Busy(v))' <=> Busy(v)
    BY <1>1, <1>3, <1>7 DEF Busy
  <2>2. \A i \in OfClass(class) : Drawn(i) => (Drawn(i))'
    BY <1>3, <1>4, <1>5 DEF Drawn
  <2>3. OneEach'
    <3>1. \A v \in Worker : Busy(v) => task[v] \in OfClass(class)
      BY DEF RootsInv, TasksFit
    <3> QED
      BY <1>2, <1>7, <2>1, <2>2, <3>1 DEF OneEach
  <2>4. InTurn'
    <3>1. \A i \in Ops : Rank(plan[i]) = class => i \in OfClass(class)
      BY DEF OfClass
    <3>2. ~MustStop => \A i \in OfClass(class) : Drawn(i)
      BY <1>3, <1>5, <1>7 DEF Drawn
    <3>3. \A i : (InHand(i))' <=> InHand(i)
      BY <1>7, <2>1 DEF InHand
    <3>4. \A i \in Ops : (Tried(i))' => Rank(plan[i]) < class \/ (Rank(plan[i]) = class /\ (Drawn(i))')
      BY <1>2, <2>2, <3>1 DEF InTurn
    <3>5. ~MustStop => \A i \in Ops : Rank(plan[i]) < class => (Tried(i))'
      BY <1>2 DEF InTurn
    <3>6. ~MustStop => \A i \in OfClass(class) : (Tried(i))' \/ (InHand(i))'
      BY <1>2, <3>2, <3>3 DEF InTurn
    <3> QED
      BY <1>1, <1>2, <1>6, <3>4, <3>5, <3>6 DEF InTurn
  <2>5. NobodyLeavesEarly'
    BY <1>1, <1>2, <1>3, <1>7 DEF NobodyLeavesEarly
  <2>6. \A v \in Worker : at'[v] = "stopped" => at[v] = "stopped"
    BY <1>3, <1>7
  <2> QED
    BY <1>9, <2>3, <2>4, <2>5, <2>6
<1>8. CASE /\ next <= Cardinality(OfClass(class)) /\ ~MustStop
           /\ at' = [at EXCEPT ![w] = "begin"] /\ task'[w] \in OfClass(class)
           /\ Turn(task'[w], class) = next
           /\ task' = [task EXCEPT ![w] = task'[w]]
  <2>1. PICK i \in OfClass(class) : i = task'[w] /\ Turn(i, class) = next
    BY <1>8
  <2>2. /\ at'[w] = "begin" /\ (Busy(w))' /\ ~Busy(w)
        /\ \A v \in Worker \ {w} : at'[v] = at[v] /\ task'[v] = task[v] /\ ((Busy(v))' <=> Busy(v))
    BY <1>1, <1>3, <1>8 DEF Busy
  <2>3. Rank(plan[i]) = class /\ i \in Ops /\ ~Tried(i)
    <3>1. Rank(plan[i]) = class /\ i \in Ops
      BY <2>1 DEF OfClass
    <3>2. ~(Rank(plan[i]) < class) /\ ~Drawn(i)
      BY <1>3, <2>1, <3>1, PoolParts DEF Drawn, StepTypes
    <3> QED
      BY <3>1, <3>2 DEF InTurn
  <2>4. \A j \in OfClass(class) : (Drawn(j))' <=> Drawn(j) \/ j = i
    <3>1. \A j \in OfClass(class) : Turn(j, class) = next => j = i
      BY <1>3, <2>1, TurnsAre
    <3> QED
      BY <1>3, <1>4, <1>5, <2>1, <3>1 DEF Drawn
  <2>5. \A v \in Worker \ {w} : Busy(v) => task[v] \in OfClass(class) /\ Drawn(task[v]) /\ task[v] # i
    <3>1. ~Drawn(i)
      BY <1>3, <2>1 DEF Drawn
    <3> QED
      BY <3>1 DEF OneEach, RootsInv, TasksFit
  <2>6. OneEach'
    <3>1. \A v \in Worker : (Busy(v))' => (Drawn(task[v]))' /\ ~(Tried(task[v]))'
      <4> SUFFICES ASSUME NEW v \in Worker, (Busy(v))'
                   PROVE  (Drawn(task[v]))' /\ ~(Tried(task[v]))'
        OBVIOUS
      <4>1. PICK j : j = task'[v]
        OBVIOUS
      <4>2. (Drawn(j))' /\ ~(Tried(j))'
        BY <1>2, <2>1, <2>2, <2>3, <2>4, <2>5, <4>1 DEF OneEach
      <4> QED
        BY <4>1, <4>2 DEF Drawn, Tried
    <3>2. \A u, v \in Worker : (Busy(u))' /\ (Busy(v))' /\ task'[u] = task'[v] => u = v
      BY <2>1, <2>2, <2>5 DEF OneEach
    <3> QED
      BY <3>1, <3>2 DEF OneEach
  <2>7. InTurn'
    <3>1. \A j \in Ops : Rank(plan[j]) = class => j \in OfClass(class)
      BY DEF OfClass
    <3>2. \A j : InHand(j) => (InHand(j))'
      BY <2>2 DEF InHand
    <3>3. (InHand(i))'
      BY <2>1, <2>2 DEF InHand
    <3>4. \A j \in Ops : (Tried(j))' => Rank(plan[j]) < class \/ (Rank(plan[j]) = class /\ (Drawn(j))')
      BY <1>2, <2>4, <3>1 DEF InTurn
    <3>5. ~MustStop => \A j \in Ops : Rank(plan[j]) < class => (Tried(j))'
      BY <1>2 DEF InTurn
    <3>6. ~MustStop => \A j \in OfClass(class) : (Drawn(j))' => (Tried(j))' \/ (InHand(j))'
      BY <1>2, <2>4, <3>2, <3>3 DEF InTurn
    <3> QED
      BY <1>1, <1>2, <1>6, <3>4, <3>5, <3>6 DEF InTurn
  <2>8. NobodyLeavesEarly'
    BY <2>2 DEF NobodyLeavesEarly, ClassEnds
  <2>9. \A v \in Worker : at'[v] = "stopped" => at[v] = "stopped"
    BY <2>2
  <2> QED
    BY <1>9, <2>6, <2>7, <2>8, <2>9
<1> QED
  BY <1>7, <1>8, TakeIs

LEMMA RecordKeepsAccounts ==
  ASSUME PoolIInv, NEW w \in Worker, Record(w)
  PROVE  PoolTypeOK' /\ RootsInv' /\ AccountsInv'
<1> USE PoolParts DEF PoolIInv, AccountsInv
<1>1. /\ UNCHANGED <<plan, dry, versioned, phase, class, next, task, summary, stopAsked, leaseLost>>
      /\ Busy(w) /\ task[w] \in Ops /\ ~Tried(task[w])
  BY RecordIs DEF RootsInv, OneEach, poolWorld
<1>2. (MustStop <=> MustStop') /\ Ops' = Ops /\ OfClass(class)' = OfClass(class)
      /\ (\A i : (Drawn(i))' <=> Drawn(i)) /\ \A i : Rank(plan[i])' = Rank(plan[i])
  BY <1>1, PlanStays DEF MustStop, Drawn, Rank
<1>3. PoolTypeOK' /\ RootsInv'
      /\ Cardinality(Having("kept")') = Cardinality(Having("kept")) + (IF at[w] = "kept" THEN 1 ELSE 0)
  BY <1>1, RecordKeepsRoots
<1>4. PICK e, me : e = at[w] /\ me = task[w] /\ e \in Endings /\ me \in Ops
  BY <1>1, RecordIs DEF RootsInv
<1>5. /\ \A v \in Worker : (Busy(v))' <=> Busy(v) /\ v # w
      /\ outcome'[me] = e /\ records'[me] = records[me] + 1
      /\ \A i \in Ops \ {me} : outcome'[i] = outcome[i] /\ records'[i] = records[i]
      /\ at'[w] = (IF e = "stopped" THEN "out" ELSE "idle") /\ \A v \in Worker \ {w} : at'[v] = at[v]
      /\ tally' = Counted(e)
  BY <1>4, RecordIs DEF RootsInv
<1>6. \A i \in Ops : (Tried(i))' <=> Tried(i) \/ i = me
  BY <1>4, <1>5 DEF Tried, Endings
<1>7. OneEach'
  <2>1. \A v \in Worker : Busy(v) /\ v # w => task[v] # me /\ task[v] \in Ops /\ Drawn(task[v]) /\ ~Tried(task[v])
    BY <1>1, <1>4, OpIs DEF OneEach, RootsInv
  <2>2. \A v \in Worker : (Busy(v))' => (Drawn(task[v]))' /\ ~(Tried(task[v]))'
    <3> SUFFICES ASSUME NEW v \in Worker, (Busy(v))'
                 PROVE  (Drawn(task[v]))' /\ ~(Tried(task[v]))'
      OBVIOUS
    <3>1. PICK j \in Ops : j = task[v] /\ j # me /\ Drawn(j) /\ ~Tried(j)
      BY <1>5, <2>1
    <3>2. (Drawn(j))' /\ ~(Tried(j))' /\ j = task'[v]
      BY <1>1, <1>2, <1>6, <3>1
    <3> QED
      BY <3>2 DEF Drawn, Tried
  <2> QED
    BY <1>1, <1>5, <2>2 DEF OneEach
<1>8. InTurn'
  <2>1. Rank(plan[me]) = class /\ Drawn(me)
    BY <1>1, <1>4, OpIs DEF OpOf, RootsInv, OneEach
  <2>2. \A i \in OfClass(class) : i \in Ops
    BY OfClassIs
  <2>3. \A i \in Ops : InHand(i) => (InHand(i))' \/ i = me
    BY <1>1, <1>4, <1>5 DEF InHand
  <2>4. \A i \in Ops : (Tried(i))' => Rank(plan[i]) < class \/ (Rank(plan[i]) = class /\ Drawn(i))
    BY <1>6, <2>1 DEF InTurn
  <2>5. ~MustStop => \A i \in Ops : Rank(plan[i]) < class => (Tried(i))'
    BY <1>6 DEF InTurn
  <2>6. ~MustStop => \A i \in OfClass(class) : Drawn(i) => (Tried(i))' \/ (InHand(i))'
    BY <1>6, <2>2, <2>3 DEF InTurn
  <2> QED
    BY <1>1, <1>2, <2>4, <2>5, <2>6 DEF InTurn
<1>9. NobodyLeavesEarly'
  <2>1. ClassEnds' => at[w] = "stopped"
    BY <1>4, <1>5 DEF ClassEnds
  <2> QED
    BY <1>2, <2>1 DEF NobodyLeavesEarly, Accounted, MustStop
<1>10. tally.errors \in Nat /\ tally.skipped \in Nat
  BY DEF TallyTypes
<1>11. Accounted'
  <2>5. /\ tally'.errors = tally.errors + (IF e = "failed" THEN 1 ELSE 0)
        /\ tally'.lossRecorded = (tally.lossRecorded \/ (e = "failed" /\ leaseLost))
    BY <1>5 DEF Counted
  <2>6. tally'.lossRecorded => tally.lossRecorded \/ e = "failed"
    BY <2>5, Zenon
  <2>1. tally'.errors \in Nat /\ tally'.errors >= tally.errors /\ (e = "failed" => tally'.errors > 0)
    BY <1>10, <2>5
  <2>2. (\A i \in Ops : outcome'[i] = "stopped" => stopAsked)
        /\ (\A i \in Ops : outcome'[i] = "failed" => tally'.errors > 0)
    BY <1>4, <1>5, <1>10, <2>1 DEF Accounted
  <2>3. (tally'.lossRecorded => tally'.errors > 0)
        /\ (\A v \in Worker : at'[v] = "stopped" => stopAsked)
    BY <1>4, <1>5, <1>10, <2>1, <2>6 DEF Accounted
  <2>4. \A i \in Ops : records'[i] = IF (Tried(i))' THEN 1 ELSE 0
    BY <1>1, <1>4, <1>5, <1>6 DEF Accounted
  <2> QED
    BY <1>1, <1>2, <2>2, <2>3, <2>4 DEF Accounted
<1>12. phase = "run"
  BY <1>1 DEF ByPhase, ClassEnds, Busy
<1>13. ByPhase'
  <2>1. tally'.done = Cardinality(Having("ok")')
    BY <1>3 DEF TallyTypes, Having
  <2>2. tally'.skipped = Notes + Cardinality(Having("kept")')
    <3>1. tally.skipped = Notes + Cardinality(Having("kept"))
      BY <1>12 DEF ByPhase, Counts
    <3>2. tally'.skipped = tally.skipped + (IF e = "kept" THEN 1 ELSE 0)
      BY <1>5 DEF Counted
    <3>3. IsFiniteSet(Having("kept"))
      BY PlanIs, FS_Subset DEF Having
    <3>4. Cardinality(Having("kept")) \in Nat /\ Notes \in Nat
      BY <3>3, NotesAre, FS_CardinalityType
    <3> QED
      BY <1>3, <1>4, <3>1, <3>2, <3>4
  <2>3. Counts'
    BY <1>1, <2>1, <2>2, PlanStays DEF Counts
  <2> QED
    BY <1>1, <1>12, <2>3 DEF ByPhase
<1>14. SummaryAdds'
  BY <1>1, <1>12 DEF SummaryAdds
<1> QED
  BY <1>3, <1>7, <1>8, <1>9, <1>11, <1>13, <1>14

(* A class ends with all its operations tried, unless the run must stop.   *)
LEMMA ClassIsThrough ==
  ASSUME PoolIInv, ClassEnds, ~MustStop
  PROVE  \A i \in Ops : Rank(plan[i]) <= class => Tried(i)
<1> USE DEF PoolIInv, AccountsInv
<1>1. plan \in Plans /\ class \in 0..6 /\ next \in Nat
  BY PoolParts DEF StepTypes
<1> SUFFICES ASSUME NEW i \in Ops, Rank(plan[i]) <= class
             PROVE  Tried(i)
  OBVIOUS
<1>2. Rank(plan[i]) \in 1..7 /\ i \in OfClass(Rank(plan[i]))
  BY <1>1, OfClassIs
<1>3. CASE Rank(plan[i]) < class
  BY <1>3 DEF InTurn
<1>4. CASE Rank(plan[i]) = class
  <2>1. next > Cardinality(OfClass(class)) /\ Turn(i, class) \in 1..Cardinality(OfClass(class))
    BY <1>1, <1>2, <1>4, TurnsAre DEF NobodyLeavesEarly
  <2>2. Drawn(i)
    BY <1>1, <2>1, TurnsAre DEF Drawn
  <2>3. ~InHand(i)
    BY DEF InHand, Busy, ClassEnds
  <2> QED
    BY <1>2, <1>4, <2>2, <2>3 DEF InTurn
<1> QED
  BY <1>1, <1>2, <1>3, <1>4

LEMMA NextClassKeepsAccounts ==
  ASSUME PoolIInv, NextClass
  PROVE  AccountsInv'
<1> USE DEF PoolIInv, AccountsInv
<1>1. PICK up : up = class + 1
  OBVIOUS
<1>2. /\ phase = "run" /\ ClassEnds
      /\ UNCHANGED <<plan, dry, versioned, outcome, records, tally, task, summary, stopAsked, leaseLost>>
      /\ \/ class = 6 /\ phase' = "wrapup" /\ UNCHANGED <<class, next, at>>
         \/ /\ class # 6 /\ class' = up /\ next' = 1 /\ phase' = phase
            /\ at' \in [Worker -> {"out", "idle"}]
            /\ Cardinality(OfClass(up)) # 0 => \E w \in Worker : at'[w] # "out"
  BY <1>1, NextClassIs DEF poolTree, poolCounts, poolWorld
<1>3. plan \in Plans /\ class \in 0..6
  BY PoolParts DEF StepTypes
<1>4. (MustStop <=> MustStop') /\ Ops' = Ops /\ (\A i : (Tried(i))' <=> Tried(i))
      /\ (\A i : Rank(plan[i])' = Rank(plan[i])) /\ \A how : Having(how)' = Having(how)
  BY <1>2 DEF MustStop, Ops, Tried, Rank, Having
<1>5. Counts /\ Counts'
  <2>1. Counts
    BY <1>2 DEF ByPhase
  <2> QED
    BY <1>2, <1>4, <2>1, PlanStays DEF Counts
<1>6. Accounted'
  <2>1. \A v \in Worker : at'[v] # "stopped"
    BY <1>2 DEF ClassEnds
  <2> QED
    BY <1>2, <1>4, <2>1 DEF Accounted
<1>7. SummaryAdds'
  BY <1>2 DEF SummaryAdds
<1>8. CASE class = 6 /\ phase' = "wrapup" /\ UNCHANGED <<class, next, at>>
  <2>1. OneEach' /\ InTurn'
    BY <1>2, <1>4, <1>8, AccountsSteady DEF Busy
  <2>2. NobodyLeavesEarly'
    BY <1>2, <1>4, <1>8, PlanStays DEF NobodyLeavesEarly, ClassEnds
  <2>3. Ended7'
    <3>1. ~MustStop => \A i \in Ops : Rank(plan[i]) # 7 => Tried(i)
      BY <1>2, <1>3, <1>8, ClassIsThrough, OfClassIs
    <3> QED
      BY <1>4, <3>1 DEF Ended7
  <2>4. ByPhase'
    BY <1>2, <1>5, <1>8, <2>3 DEF ByPhase, ClassEnds
  <2> QED
    BY <1>6, <1>7, <2>1, <2>2, <2>4
<1>9. CASE /\ class # 6 /\ class' = up /\ next' = 1 /\ phase' = phase
           /\ at' \in [Worker -> {"out", "idle"}]
           /\ Cardinality(OfClass(up)) # 0 => \E w \in Worker : at'[w] # "out"
  <2>1. \A v \in Worker : ~(Busy(v))'
    BY <1>9 DEF Busy
  <2>2. OneEach'
    BY <2>1 DEF OneEach
  <2>3. OfClass(class)' = OfClass(up) /\ \A i \in OfClass(up) : i \in Ops /\ Turn(i, up) >= 1
    BY <1>2, <1>3, <1>9, PlanStays, TurnsAre
  <2>4. \A i \in OfClass(up) : ~(Drawn(i))'
    <3>1. \A i \in OfClass(up) : Turn(i, class)' = Turn(i, up)
      BY <1>2, <1>9, PlanStays
    <3>2. \A i \in OfClass(up) : Turn(i, up) \in Nat
      BY <1>3, TurnsAre
    <3> QED
      BY <1>9, <2>3, <3>1, <3>2 DEF Drawn
  <2>5. InTurn'
    <3>1. \A i \in Ops : (Tried(i))' => Rank(plan[i]) < up
      BY <1>1, <1>3, <1>4, OfClassIs DEF InTurn
    <3>2. ~MustStop => \A i \in Ops : Rank(plan[i]) < up => (Tried(i))'
      BY <1>1, <1>2, <1>3, <1>4, ClassIsThrough, OfClassIs
    <3> QED
      BY <1>4, <1>9, <2>3, <2>4, <3>1, <3>2 DEF InTurn
  <2>6. NobodyLeavesEarly'
    <3>1. ClassEnds' => Cardinality(OfClass(up)) = 0
      BY <1>9 DEF ClassEnds
    <3> QED
      BY <1>9, <2>3, <3>1 DEF NobodyLeavesEarly
  <2>7. ByPhase'
    BY <1>2, <1>5, <1>9 DEF ByPhase
  <2> QED
    BY <1>6, <1>7, <2>2, <2>5, <2>6, <2>7
<1> QED
  BY <1>2, <1>8, <1>9

LEMMA OnTheSideKeepsAccounts ==
  ASSUME PoolIInv, OnTheSide \/ UNCHANGED poolVars
  PROVE  AccountsInv'
<1> USE PoolParts DEF PoolIInv, AccountsInv
<1>1. UNCHANGED <<plan, dry, versioned, outcome, records, class, next, at, task>>
  BY OnTheSideIs
<1>2. /\ stopAsked' \in {stopAsked, TRUE} /\ leaseLost' \in {leaseLost, TRUE}
      /\ tally' = tally \/ tally' = [tally EXCEPT !.skipped = Notes] \/ tally' = [tally EXCEPT !.errors = @ + 1]
  BY DEF OnTheSide, Validate, Refuse, Prepare, WrapUp, Finalize, SumUp, ReportRun, CancelPool, LoseRoot,
     poolVars, poolCounts, poolWorld
<1>3. /\ plan \in Plans /\ class \in 0..6 /\ tally.errors \in Nat /\ stopAsked \in BOOLEAN /\ leaseLost \in BOOLEAN
      /\ tally \in [done : Nat, skipped : Nat, errors : Nat, items : Nat, lossRecorded : BOOLEAN]
  BY DEF StepTypes, TallyTypes, PeopleTypes
<1>4. MustStop => MustStop'
  BY <1>2, <1>3 DEF MustStop
<1>5. OneEach' /\ InTurn' /\ (Ended7 => Ended7') /\ (Counts /\ tally' = tally => Counts')
  BY <1>1, <1>4, AccountsSteady DEF Busy
<1>6. NobodyLeavesEarly' /\ (ClassEnds' <=> ClassEnds)
  BY <1>1, <1>4, PlanStays DEF NobodyLeavesEarly, ClassEnds
<1>7. Accounted'
  <2>1. tally'.errors \in Nat /\ tally'.errors >= tally.errors /\ tally'.lossRecorded = tally.lossRecorded
    BY <1>2, <1>3
  <2>2. Ops' = Ops /\ \A i : (Tried(i))' <=> Tried(i)
    BY <1>1 DEF Ops, Tried
  <2>3. stopAsked => stopAsked'
    BY <1>2
  <2>4. tally.errors > 0 => tally'.errors > 0
    BY <1>3, <2>1
  <2> QED
    BY <1>1, <2>1, <2>2, <2>3, <2>4 DEF Accounted
<1>8. \A how : Having(how)' = Having(how)
  BY <1>1 DEF Having, Ops
<1>9. Counts /\ tally'.done = tally.done /\ tally'.skipped = tally.skipped => Counts'
  BY <1>1, <1>8, PlanStays DEF Counts
<1>10. ByPhase' /\ SummaryAdds'
  <2>1. CASE Validate
    <3>1. phase = "validate" /\ class = 0 /\ tally = NoTally /\ ClassEnds /\ stopAsked' = stopAsked
      BY <2>1 DEF Validate, ByPhase, poolWorld
    <3>2. CASE phase' = "report" /\ (dry \/ summary' = SummaryOf(0, Len(plan), 1, "none"))
      BY <1>1, <1>6, <3>1, <3>2 DEF ByPhase, SummaryAdds, SummaryOf
    <3>3. CASE phase' = "lock" /\ tally' = [tally EXCEPT !.skipped = Notes]
      <4>1. Having("kept") = {}
        BY <1>3, <3>1, OfClassIs DEF Having, InTurn, Tried
      <4>2. Cardinality(Having("kept")) = 0 /\ Notes \in Nat
        BY <1>3, <4>1, FS_EmptySet, NotesAre
      <4>3. tally.done = Cardinality(Having("ok"))
        BY DEF TallyTypes, Having
      <4>4. tally'.done = tally.done /\ tally'.skipped = Notes
        BY <1>3, <3>3
      <4>5. Counts'
        BY <1>1, <1>8, <4>2, <4>3, <4>4, PlanStays DEF Counts
      <4> QED
        BY <1>1, <1>6, <3>1, <3>3, <4>5 DEF ByPhase, SummaryAdds
    <3> QED
      BY <2>1, <3>2, <3>3 DEF Validate, Refuse
  <2>2. CASE Prepare
    <3>1. /\ phase = "lock" /\ tally' = tally /\ class = 0 /\ ClassEnds /\ Counts
          /\ phase' = "run" \/ (phase' = "report" /\ summary' = SummaryOf(0, Len(plan), 1, "none"))
      BY <2>2 DEF Prepare, Refuse, ByPhase
    <3> QED
      BY <1>1, <1>5, <1>6, <3>1 DEF ByPhase, SummaryAdds, SummaryOf
  <2>3. CASE WrapUp
    <3>1. phase = "wrapup" /\ phase' = "source" /\ tally' = tally /\ ClassEnds /\ Counts /\ Ended7
      BY <2>3 DEF WrapUp, ByPhase, poolCounts
    <3> QED
      BY <1>1, <1>5, <1>6, <3>1 DEF ByPhase, SummaryAdds
  <2>4. CASE \E s \in Side : Finalize(s)
    <3>1. phase \in {"source", "target"} /\ phase' \in {"target", "sum"}
          /\ (tally' = tally \/ tally' = [tally EXCEPT !.errors = @ + 1])
      BY <2>4 DEF Finalize, Side
    <3>2. ClassEnds /\ Counts /\ Ended7
      BY <3>1 DEF ByPhase
    <3>3. tally'.done = tally.done /\ tally'.skipped = tally.skipped
      BY <1>3, <3>1
    <3> QED
      BY <1>1, <1>5, <1>6, <1>9, <3>1, <3>2, <3>3 DEF ByPhase, SummaryAdds
  <2>5. CASE SumUp
    <3>1. /\ phase = "sum" /\ phase' = "report" /\ tally' = tally /\ ClassEnds /\ Counts /\ Ended7
          /\ leaseLost' = leaseLost
          /\ summary' = SummaryOf(tally.done, tally.skipped,
                                  tally.errors + (IF leaseLost /\ ~tally.lossRecorded THEN 1 ELSE 0), Ended)
      BY <2>5 DEF SumUp, ByPhase, poolCounts, poolWorld
    <3>2. /\ summary'.done = tally.done /\ summary'.skipped = tally.skipped
          /\ summary'.errors = tally.errors + (IF leaseLost /\ ~tally.lossRecorded THEN 1 ELSE 0)
      BY <3>1 DEF SummaryOf
    <3>3. summary'.errors = 0 => tally.errors = 0 /\ ~(leaseLost /\ ~tally.lossRecorded)
      BY <1>3, <3>2
    <3>4. summary'.errors = 0 => ~leaseLost /\ tally.errors = 0
      BY <3>3 DEF Accounted
    <3> QED
      BY <1>1, <1>5, <1>6, <3>1, <3>2, <3>4 DEF ByPhase, SummaryAdds
  <2>6. CASE ReportRun
    <3>1. /\ phase = "report" /\ phase' = "over" /\ tally' = tally /\ ClassEnds
          /\ leaseLost' = leaseLost /\ stopAsked' = stopAsked
          /\ summary' = [summary EXCEPT !.cancelled = stopAsked]
      BY <2>6 DEF ReportRun, ByPhase, poolCounts, poolWorld
    <3>2. /\ summary'.cancelled = stopAsked /\ summary'.errors = summary.errors
          /\ summary'.done = summary.done /\ summary'.skipped = summary.skipped
      BY <3>1 DEF SumTypes
    <3> QED
      BY <1>1, <1>5, <1>6, <3>1, <3>2 DEF ByPhase, SummaryAdds
  <2>7. CASE CancelPool
    <3>1. /\ phase # "over" /\ phase' = phase /\ tally' = tally /\ summary' = summary /\ leaseLost' = leaseLost
      BY <2>7 DEF CancelPool, poolCounts, poolSteps
    <3> QED
      BY <1>1, <1>5, <1>6, <3>1 DEF ByPhase, SummaryAdds
  <2>8. CASE LoseRoot
    <3>1. phase \notin {"report", "over"} /\ phase' = phase /\ tally' = tally
      BY <2>8 DEF LoseRoot, AtWork, poolCounts, poolSteps
    <3> QED
      BY <1>1, <1>5, <1>6, <3>1 DEF ByPhase, SummaryAdds
  <2>9. CASE UNCHANGED poolVars
    <3>1. UNCHANGED <<phase, tally, summary, leaseLost, stopAsked>>
      BY <2>9 DEF poolVars, poolCounts, poolSteps, poolWorld
    <3> QED
      BY <1>1, <1>5, <1>6, <3>1 DEF ByPhase, SummaryAdds
  <2> QED
    BY <2>1, <2>2, <2>3, <2>4, <2>5, <2>6, <2>7, <2>8, <2>9 DEF OnTheSide
<1> QED
  BY <1>5, <1>6, <1>7, <1>10

LEMMA MeddleKeepsAccounts ==
  ASSUME PoolIInv, Meddle
  PROVE  AccountsInv'
<1> USE DEF PoolIInv, AccountsInv
<1>1. UNCHANGED <<plan, dry, versioned, phase, outcome, records, tally, class, next, at, task, summary, stopAsked, leaseLost>>
  BY DEF Meddle, poolCounts, poolSteps
<1>2. OneEach' /\ InTurn' /\ (Ended7 => Ended7') /\ (Counts => Counts')
  BY <1>1, AccountsSteady DEF Busy, MustStop
<1>3. NobodyLeavesEarly' /\ (ClassEnds' <=> ClassEnds)
  BY <1>1, PlanStays DEF NobodyLeavesEarly, ClassEnds, MustStop
<1>4. Accounted'
  BY <1>1 DEF Accounted, Tried, Ops
<1>5. ByPhase' /\ SummaryAdds'
  BY <1>1, <1>2, <1>3 DEF ByPhase, SummaryAdds
<1> QED
  BY <1>2, <1>3, <1>4, <1>5

-----------------------------------------------------------------------------
(* The invariant, and what follows from it.                                *)

LEMMA PoolStarts ==
  ASSUME PoolInit
  PROVE  PoolIInv
<1> USE PoolParts DEF PoolInit
<1>1. plan \in Plans /\ IsFiniteSet(Ops)
  BY PlanIs
<1>2. \A how \in Endings : Having(how) = {}
  BY DEF Having, Endings
<1>3. TreeTypes /\ SumTypes /\ PeopleTypes
  <2>1. TreeTypes
    BY PoolAssumption DEF TreeTypes, NoWalk
  <2>2. SumTypes
    BY DEF SumTypes, NoSummary
  <2>3. PeopleTypes
    <3>1. {healthy, stopAsked, leaseLost} \subseteq BOOLEAN /\ versioned \subseteq Side
      OBVIOUS
    <3>2. meddling \in 0..MaxMeddling /\ setbacks \in 0..MaxSetbacks
      BY PoolAssumption
    <3> QED
      BY <3>1, <3>2 DEF PeopleTypes
  <2> QED
    BY <2>1, <2>2, <2>3
<1>4. StepTypes
  BY <1>1, PlanIs DEF StepTypes, Places
<1>5. TallyTypes
  <2>1. {i \in Ops : outcome[i] = "ok"} = {} /\ {i \in Ops : outcome[i] \in {"ok", "kept", "failed"}} = {}
    OBVIOUS
  <2> QED
    BY <2>1, FS_EmptySet DEF TallyTypes, NoTally
<1>6. RootsInv
  <2>1. Alone /\ TasksFit /\ JudgedFirst
    BY DEF Alone, TasksFit, JudgedFirst, Busy
  <2>2. LeavesAreLeaves
    BY PoolAssumption DEF LeavesAreLeaves
  <2> QED
    BY <2>1, <2>2 DEF RootsInv
<1>7. AccountsInv
  <2>1. \A i \in Ops : ~Tried(i) /\ Rank(plan[i]) \in 1..7
    BY <1>1, OfClassIs DEF Tried
  <2>2. OneEach
    BY DEF OneEach, Busy
  <2>3. \A i \in OfClass(class) : FALSE
    BY <1>1, <2>1, OfClassIs
  <2>4. InTurn
    BY <2>1, <2>3 DEF InTurn
  <2>5. NobodyLeavesEarly
    BY DEF NobodyLeavesEarly
  <2>6. Accounted
    BY <2>1 DEF Accounted, NoTally
  <2>7. ByPhase /\ SummaryAdds
    BY DEF ByPhase, SummaryAdds, ClassEnds
  <2> QED
    BY <2>2, <2>4, <2>5, <2>6, <2>7 DEF AccountsInv
<1> QED
  BY <1>1, <1>3, <1>4, <1>5, <1>6, <1>7 DEF PoolIInv

LEMMA PoolSteps ==
  ASSUME PoolIInv, [PoolNext]_poolVars
  PROVE  PoolIInv' /\ (LeavesOnly \/ UNCHANGED tree)
<1> USE DEF PoolIInv
<1>1. ASSUME NEW w \in Worker, InsideStep(w)
      PROVE  PoolIInv' /\ LeavesOnly
  BY <1>1, InsideSteps, InsideKeepsRoots, InsideKeepsAccounts DEF Inside
<1>2. ASSUME NEW w \in Worker, Take(w)
      PROVE  PoolIInv' /\ UNCHANGED tree
  BY <1>2, TakeKeepsRoots, TakeKeepsAccounts DEF Take, poolTree
<1>3. ASSUME NEW w \in Worker, Record(w)
      PROVE  PoolIInv' /\ UNCHANGED tree
  BY <1>3, RecordKeepsAccounts DEF Record, poolTree
<1>4. CASE NextClass
  BY <1>4, NextClassKeepsRoots, NextClassKeepsAccounts DEF NextClass, poolTree
<1>5. CASE OnTheSide \/ UNCHANGED poolVars
  BY <1>5, OnTheSideIs, OnTheSideKeepsRoots, OnTheSideKeepsAccounts
<1>6. CASE Meddle
  BY <1>6, MeddleKeepsRoots, MeddleKeepsAccounts
<1> QED
  BY <1>1, <1>2, <1>3, <1>4, <1>5, <1>6 DEF PoolNext, RunStep, WorkerStep, InsideStep, OnTheSide

LEMMA PoolHolds == PoolSpec => []PoolIInv
<1>1. PoolInit => PoolIInv
  BY PoolStarts
<1>2. PoolIInv /\ [PoolNext]_poolVars => PoolIInv'
  BY PoolSteps
<1> QED
  BY <1>1, <1>2, PTL DEF PoolSpec

(* The type of every variable, and with it that the counters of the run    *)
(* are those of what its workers recorded, whatever the order in which     *)
(* they drew and recorded.                                                 *)
THEOREM PoolTypeCorrect == PoolSpec => []PoolTypeOK
BY PoolHolds, PTL DEF PoolIInv

(* No operation is recorded twice, whatever the width of the pool: the     *)
(* ticket counter hands each one out once.                                 *)
THEOREM RecordedOnce == PoolSpec => [](\A i \in Ops : records[i] <= 1)
<1>1. PoolIInv => \A i \in Ops : records[i] <= 1
  BY DEF PoolIInv, AccountsInv, Accounted
<1> QED
  BY <1>1, PoolHolds, PTL

(* A file goes from its name only because an operation in hand moves it or *)
(* takes it into the trash or the versions, or because the job lets it go  *)
(* with its directory, also when it appears while the directory is walked, *)
(* judged and cleared.                                                     *)
THEOREM OnlyTakenOrDeletableGo == PoolSpec => OnlyTheDeletableGoes
<1>1. PoolIInv /\ [PoolNext]_poolVars =>
        \A s \in Side, p \in Leaf :
          tree[s][p] # "none" /\ tree'[s][p] = "none" =>
            \/ p \in Deletable
            \/ \E w \in Worker : at[w] = "write" /\ OpOf(w).side = s /\ p \in Departing(OpOf(w))
  BY PoolSteps DEF LeavesOnly, Taken
<1> QED
  BY <1>1, PoolHolds, PTL DEF PoolSpec, OnlyTheDeletableGoes

(* A run that reports neither an error nor a cancellation carried out, or  *)
(* deliberately kept, every operation of its plan, and its counters add up *)
(* to the length of the plan: no worker left early, no ticket was lost and *)
(* no lost lock was passed over.                                           *)
THEOREM CleanSummaries == PoolSpec => []CleanSummaryIsTrue
<1>1. PoolIInv => CleanSummaryIsTrue
  <2> SUFFICES ASSUME PoolIInv, phase = "over", ~dry, summary.errors = 0, ~summary.cancelled
               PROVE  /\ \A i \in Ops : Executable(plan[i]) => outcome[i] \in {"ok", "kept"}
                      /\ summary.done + summary.skipped = Len(plan)
    BY DEF CleanSummaryIsTrue
  <2> USE DEF PoolIInv, AccountsInv
  <2>1. plan \in Plans /\ class \in 0..6 /\ outcome \in [Ops -> Endings \cup {"untried"}]
    BY PoolParts DEF StepTypes, TallyTypes
  <2>2. /\ ~stopAsked /\ ~leaseLost /\ tally.errors = 0 /\ Counts /\ Ended7
        /\ summary.done = tally.done /\ summary.skipped = tally.skipped
    BY DEF SummaryAdds
  <2>3. \A i \in Ops : Executable(plan[i]) => Tried(i)
    BY <2>1, <2>2, PlanIs, RankIs DEF Ended7, MustStop
  <2>4. \A i \in Ops : Tried(i) => outcome[i] \in {"ok", "kept"}
    BY <2>1, <2>2 DEF Tried, Accounted, Endings
  <2>5. \A i \in Ops : ~Executable(plan[i]) => ~Tried(i)
    BY <2>1, PlanIs, RankIs DEF InTurn
  <2> DEFINE notes == {i \in Ops : ~Executable(plan[i])}
  <2>6. Ops = (Having("ok") \cup Having("kept")) \cup notes
    BY <2>3, <2>4 DEF Having
  <2>7. /\ Having("ok") \cap Having("kept") = {}
        /\ (Having("ok") \cup Having("kept")) \cap notes = {}
    BY <2>5 DEF Having, Tried
  <2>8. IsFiniteSet(Having("ok")) /\ IsFiniteSet(Having("kept")) /\ IsFiniteSet(notes)
    BY <2>1, PlanIs, FS_Subset DEF Having
  <2>9. /\ Cardinality(Having("ok")) \in Nat /\ Cardinality(Having("kept")) \in Nat
        /\ Cardinality(notes) \in Nat
    BY <2>8, FS_CardinalityType
  <2> HIDE DEF notes
  <2>10. IsFiniteSet(Having("ok") \cup Having("kept"))
         /\ Cardinality(Having("ok") \cup Having("kept")) = Cardinality(Having("ok")) + Cardinality(Having("kept"))
    BY <2>7, <2>8, <2>9, FS_Union, FS_EmptySet
  <2>11. Cardinality((Having("ok") \cup Having("kept")) \cup notes)
           = Cardinality(Having("ok")) + Cardinality(Having("kept")) + Cardinality(notes)
    <3>1. PICK both : both = Having("ok") \cup Having("kept")
      OBVIOUS
    <3>2. /\ IsFiniteSet(both) /\ both \cap notes = {}
          /\ Cardinality(both) = Cardinality(Having("ok")) + Cardinality(Having("kept"))
      BY <2>7, <2>10, <3>1
    <3>3. Cardinality(both \cup notes) = Cardinality(both) + Cardinality(notes) - Cardinality({})
      BY <2>8, <3>2, FS_Union
    <3> QED
      BY <2>9, <3>1, <3>2, <3>3, FS_EmptySet
  <2>12. Cardinality(Ops) = Len(plan) /\ Notes = Cardinality(notes)
    BY <2>1, PlanIs DEF Notes, notes
  <2>13. summary.done + summary.skipped = Len(plan)
    BY <2>2, <2>6, <2>9, <2>11, <2>12 DEF Counts
  <2> QED
    BY <2>3, <2>4, <2>13
<1> QED
  BY <1>1, PoolHolds, PTL

=============================================================================
