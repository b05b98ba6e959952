--------------------------- MODULE SyncCycleProofs ---------------------------
(***************************************************************************)
(* What the cycle of compare, apply and archive refresh guarantees for any *)
(* files, contents, jobs and number of runs.                               *)
(*                                                                         *)
(* A two-way run keeps its promises where nothing is taken for what it is  *)
(* not: Careful leaves out what the violations of MCSyncCycle turn on.     *)
(***************************************************************************)
EXTENDS SyncCycle, SequenceTheorems, TLAPS

TwoWay == job.mode = "sync"
Own(p) == ~IsConflictCopy(p)
Resolving == "conflict-resolved-newer-wins"

-----------------------------------------------------------------------------
(* Types.                                                                  *)

LEMMA JobIsJob == ASSUME TypeOK PROVE job \in Job
BY JobAssumption DEF TypeOK

LEMMA CopiesAreNumbers == \A j \in Job : Copies(j) \subseteq Nat /\ 0 \in Copies(j)
BY DEF Job, Copies

LEMMA PathFields ==
  ASSUME NEW p \in Path PROVE p.name \in Name /\ p.copy \in Nat
BY CopiesAreNumbers, JobAssumption DEF Path

LEMMA PathsArePath == ASSUME TypeOK PROVE Paths \subseteq Path
BY JobIsJob DEF TypeOK, Paths, Path, Job

LEMMA KeptIsPath ==
  ASSUME TypeOK, job.policy = "copy", NEW p \in Path
  PROVE  Kept(p) \in Path /\ (p \in Paths => Kept(p) \in Paths)
<1>1. run \in Copies(job) BY JobIsJob DEF TypeOK, Copies, Job
<1>2. job \in Jobs BY DEF TypeOK
<1> QED BY <1>1, <1>2, PathFields DEF Kept, Path, Paths

LEMMA Sides == \A s \in Side : Other(s) \in Side /\ Other(s) # s /\ Other(Other(s)) = s
BY DEF Side, Other

LEMMA EvidenceTypes == \A c \in Seen \ {Absent} : Evidence(c) \in Content \cup {None}
BY DEF Evidence, Seen

LEMMA FilesAreSeen ==
  ASSUME NEW table, NEW p \in FilesOf(table)
  PROVE  p \in Path /\ p \notin unread /\ table[p] \in (Content \ Links) \cup {Unreadable} /\ table[p] # Absent
BY ContentAssumption DEF FilesOf, File

(* What Replay is made of, and that it leaves nothing out.                 *)
LEMMA ReplayMakes ==
  ASSUME NEW s \in Side, NEW adds, NEW dels, NEW M \in Pairings(Other(s), adds, dels),
         NEW op \in Replay(s, adds, dels, M)
  PROVE  \/ \E a \in adds, d \in dels : /\ <<a, d>> \in M /\ Pairable(Other(s), a, d)
                                        /\ op = Relocate(s, d, a, snap[Other(s)][a], "moved")
         \/ \E p \in adds : (\A m \in M : m[1] # p) /\ op = Fill(s, p, "added")
         \/ \E p \in dels : (\A m \in M : m[2] # p) /\ op = Drop(s, p, "deleted")
<1>1. \A m \in M : m \in adds \X dels /\ Pairable(Other(s), m[1], m[2]) BY DEF Pairings
<1>2. CASE \E m \in M : op = Relocate(s, m[2], m[1], snap[Other(s)][m[1]], "moved")
  <2>1. PICK m \in M : op = Relocate(s, m[2], m[1], snap[Other(s)][m[1]], "moved") BY <1>2
  <2>2. m[1] \in adds /\ m[2] \in dels /\ m = <<m[1], m[2]>> BY <1>1, <2>1
  <2> QED BY <1>1, <2>1, <2>2
<1>3. CASE \E p \in adds : (\A m \in M : m[1] # p) /\ op = Fill(s, p, "added") BY <1>3
<1>4. CASE \E p \in dels : (\A m \in M : m[2] # p) /\ op = Drop(s, p, "deleted") BY <1>4
<1> QED BY <1>2, <1>3, <1>4 DEF Replay

LEMMA ReplayActs ==
  ASSUME NEW s \in Side, NEW adds, NEW dels, NEW M \in Pairings(Other(s), adds, dels),
         NEW op \in Replay(s, adds, dels, M)
  PROVE  op.act \in {"Move", "Copy", "Delete"} /\ op.why \in {"moved", "added", "deleted"}
<1>1. \A a, d : LET o == Relocate(s, d, a, snap[Other(s)][a], "moved")
                IN  o.act = "Move" /\ o.why = "moved" BY DEF Relocate
<1>2. \A p : Fill(s, p, "added").act = "Copy" /\ Fill(s, p, "added").why = "added" BY DEF Fill, Act
<1>3. \A p : Drop(s, p, "deleted").act = "Delete" /\ Drop(s, p, "deleted").why = "deleted" BY DEF Drop, Act
<1>4. CASE \E a \in adds, d \in dels : op = Relocate(s, d, a, snap[Other(s)][a], "moved") BY <1>1, <1>4
<1>5. CASE \E p \in adds : op = Fill(s, p, "added") BY <1>2, <1>5
<1>6. CASE \E p \in dels : op = Drop(s, p, "deleted") BY <1>3, <1>6
<1>7. \/ \E a \in adds, d \in dels : /\ <<a, d>> \in M /\ Pairable(Other(s), a, d)
                                       /\ op = Relocate(s, d, a, snap[Other(s)][a], "moved")
      \/ \E p \in adds : (\A m \in M : m[1] # p) /\ op = Fill(s, p, "added")
      \/ \E p \in dels : (\A m \in M : m[2] # p) /\ op = Drop(s, p, "deleted")
  BY ReplayMakes
<1> QED BY <1>4, <1>5, <1>6, <1>7

LEMMA ReplayCovers ==
  ASSUME NEW s \in Side, NEW adds, NEW dels, NEW M \in Pairings(Other(s), adds, dels)
  PROVE  /\ \A p \in adds : \/ Fill(s, p, "added") \in Replay(s, adds, dels, M)
                            \/ \E d \in dels : /\ <<p, d>> \in M /\ Pairable(Other(s), p, d)
                                               /\ Relocate(s, d, p, snap[Other(s)][p], "moved")
                                                    \in Replay(s, adds, dels, M)
         /\ \A p \in dels : \/ Drop(s, p, "deleted") \in Replay(s, adds, dels, M)
                            \/ \E a \in adds : /\ <<a, p>> \in M /\ Pairable(Other(s), a, p)
                                               /\ Relocate(s, p, a, snap[Other(s)][a], "moved")
                                                    \in Replay(s, adds, dels, M)
<1>1. \A m \in M : m \in adds \X dels /\ Pairable(Other(s), m[1], m[2]) BY DEF Pairings
<1>2. \A m \in M : /\ m = <<m[1], m[2]>> /\ m[1] \in adds /\ m[2] \in dels
                   /\ Relocate(s, m[2], m[1], snap[Other(s)][m[1]], "moved") \in Replay(s, adds, dels, M)
  BY <1>1 DEF Replay
<1>3. ASSUME NEW p \in adds, \A m \in M : m[1] # p
      PROVE  Fill(s, p, "added") \in Replay(s, adds, dels, M)
  BY <1>3 DEF Replay
<1>4. ASSUME NEW p \in dels, \A m \in M : m[2] # p
      PROVE  Drop(s, p, "deleted") \in Replay(s, adds, dels, M)
  BY <1>4 DEF Replay
<1> QED BY <1>1, <1>2, <1>3, <1>4

(* Every operation a comparison plans is one.                              *)
LEMMA ActIsOp ==
  ASSUME NEW s \in Side, NEW p \in Path, NEW want \in Content \cup {None}, NEW why \in Reasons,
         NEW act \in {"Copy", "Update", "Delete", "Conflict"}
  PROVE  Act(s, act, p, want, why) \in Op
BY DEF Act, Op

LEMMA RelocateIsOp ==
  ASSUME NEW s \in Side, NEW p \in Path, NEW q \in Path, NEW want \in Content \cup {None}, NEW why \in Reasons
  PROVE  Relocate(s, q, p, want, why) \in Op
BY DEF Relocate, Op

LEMMA ConflictIsOp == ASSUME NEW p \in Path, NEW why \in Reasons PROVE Conflict(p, why) \in Op
BY ActIsOp DEF Conflict, Side

LEMMA WritesAreOps ==
  ASSUME TypeOK, NEW s \in Side, NEW p \in Path, NEW why \in Reasons
  PROVE  /\ snap[Other(s)][p] # Absent => Push(s, p, why) \in Op /\ Fill(s, p, why) \in Op
         /\ Drop(s, p, why) \in Op
<1>1. Other(s) \in Side /\ snap[Other(s)][p] \in Seen BY Sides DEF TypeOK
<1>2. snap[Other(s)][p] # Absent => Evidence(snap[Other(s)][p]) \in Content \cup {None}
  BY <1>1, EvidenceTypes
<1>3. ASSUME snap[Other(s)][p] # Absent PROVE Push(s, p, why) \in Op /\ Fill(s, p, why) \in Op
  <2> DEFINE w == Evidence(snap[Other(s)][p])
  <2>1. w \in Content \cup {None} BY <1>2, <1>3
  <2> HIDE DEF w
  <2>2. Act(s, "Update", p, w, why) \in Op /\ Act(s, "Copy", p, w, why) \in Op BY <2>1, ActIsOp
  <2> QED BY <2>2 DEF w, Push, Fill
<1>4. Drop(s, p, why) \in Op BY ActIsOp DEF Drop
<1> QED BY <1>3, <1>4

LEMMA ReplayTypes ==
  ASSUME TypeOK, NEW s \in Side, NEW adds, NEW dels, NEW M \in Pairings(Other(s), adds, dels),
         adds \subseteq FilesOf(snap[Other(s)]), dels \subseteq Path
  PROVE  Replay(s, adds, dels, M) \subseteq Op
<1> SUFFICES ASSUME NEW op \in Replay(s, adds, dels, M) PROVE op \in Op
  OBVIOUS
<1>0. \A a \in adds : a \in Path /\ snap[Other(s)][a] # Absent BY FilesAreSeen
<1>1. ASSUME NEW a \in adds, NEW d \in dels, Pairable(Other(s), a, d),
             op = Relocate(s, d, a, snap[Other(s)][a], "moved")
      PROVE  op \in Op
  <2>1. snap[Other(s)][a] \in Content \cup {None} BY <1>1 DEF Pairable, File
  <2>2. a \in Path /\ d \in Path /\ "moved" \in Reasons BY <1>0 DEF Reasons
  <2>3. Relocate(s, d, a, snap[Other(s)][a], "moved") \in Op BY <2>1, <2>2, RelocateIsOp
  <2> QED BY <1>1, <2>3
<1>2. ASSUME NEW p \in adds, op = Fill(s, p, "added") PROVE op \in Op
  BY <1>0, <1>2, WritesAreOps DEF Reasons
<1>3. ASSUME NEW p \in dels, op = Drop(s, p, "deleted") PROVE op \in Op
  BY <1>3, WritesAreOps DEF Reasons
<1>4. \/ \E a \in adds, d \in dels : /\ <<a, d>> \in M /\ Pairable(Other(s), a, d)
                                       /\ op = Relocate(s, d, a, snap[Other(s)][a], "moved")
      \/ \E p \in adds : (\A m \in M : m[1] # p) /\ op = Fill(s, p, "added")
      \/ \E p \in dels : (\A m \in M : m[2] # p) /\ op = Drop(s, p, "deleted")
  BY ReplayMakes
<1> QED BY <1>1, <1>2, <1>3, <1>4

LEMMA SharedTypes ==
  ASSUME TypeOK, NEW p \in SourceFiles \cap TargetFiles
  PROVE  TwoWayShared(p) \subseteq Op
<1>1. p \in Path /\ snap["source"][p] # Absent /\ snap["target"][p] # Absent
  BY FilesAreSeen DEF SourceFiles, TargetFiles
<1>2. \A why \in Reasons : Conflict(p, why) \in Op BY <1>1, ConflictIsOp
<1>3. \A why \in Reasons : Push("source", p, why) \in Op /\ Push("target", p, why) \in Op
  BY <1>1, WritesAreOps DEF Side, Other
<1> DEFINE sg == GenerationOf(snap["source"][p], p)
           tg == GenerationOf(snap["target"][p], p)
<1>4. TwoWayShared(p) \in {{Conflict(p, "evidence-unavailable")}, {}, {Conflict(p, "differs-no-archive")},
         {Conflict(p, "both-changed")}, {Push("source", p, "target-changed")},
         {Push("target", p, "source-changed")}, {Push("target", p, "target-behind-by-generations")},
         {Push("source", p, "source-behind-by-generations")}}
  BY DEF TwoWayShared
<1> QED BY <1>2, <1>3, <1>4 DEF Reasons

(* The four kinds of rows of the two-way lane.                             *)
LEMMA TwoWayMakes ==
  ASSUME NEW ops \in TwoWayPlans
  PROVE  \E M \in Pairings("source", AddedBeside("target"), DeletedOn("source")),
            N \in Pairings("target", AddedBeside("source"), DeletedOn("target")) :
           /\ \A op \in ops :
                \/ \E p \in SourceFiles \cap TargetFiles : op \in TwoWayShared(p)
                \/ \E p \in DeletedButChanged("source") \cup DeletedButChanged("target") :
                     op = Conflict(p, "deleted-on-one-side-but-changed-on-the-other")
                \/ op \in Replay("target", AddedBeside("target"), DeletedOn("source"), M)
                \/ op \in Replay("source", AddedBeside("source"), DeletedOn("target"), N)
           /\ \A p \in SourceFiles \cap TargetFiles : TwoWayShared(p) \subseteq ops
           /\ \A p \in DeletedButChanged("source") \cup DeletedButChanged("target") :
                Conflict(p, "deleted-on-one-side-but-changed-on-the-other") \in ops
           /\ Replay("target", AddedBeside("target"), DeletedOn("source"), M) \subseteq ops
           /\ Replay("source", AddedBeside("source"), DeletedOn("target"), N) \subseteq ops
<1>1. PICK M \in Pairings("source", AddedBeside("target"), DeletedOn("source")),
           N \in Pairings("target", AddedBeside("source"), DeletedOn("target")) :
        ops = (UNION {TwoWayShared(p) : p \in SourceFiles \cap TargetFiles})
          \cup {Conflict(p, "deleted-on-one-side-but-changed-on-the-other") :
                  p \in DeletedButChanged("source") \cup DeletedButChanged("target")}
          \cup Replay("target", AddedBeside("target"), DeletedOn("source"), M)
          \cup Replay("source", AddedBeside("source"), DeletedOn("target"), N)
  BY DEF TwoWayPlans
<1> DEFINE S == {TwoWayShared(p) : p \in SourceFiles \cap TargetFiles}
           C == {Conflict(p, "deleted-on-one-side-but-changed-on-the-other") :
                   p \in DeletedButChanged("source") \cup DeletedButChanged("target")}
           R == Replay("target", AddedBeside("target"), DeletedOn("source"), M)
           Q == Replay("source", AddedBeside("source"), DeletedOn("target"), N)
<1>2. ops = (UNION S) \cup C \cup R \cup Q BY <1>1
<1>3. \A op \in UNION S : \E p \in SourceFiles \cap TargetFiles : op \in TwoWayShared(p) OBVIOUS
<1>4. \A op \in C : \E p \in DeletedButChanged("source") \cup DeletedButChanged("target") :
        op = Conflict(p, "deleted-on-one-side-but-changed-on-the-other") OBVIOUS
<1>5. \A p \in SourceFiles \cap TargetFiles : TwoWayShared(p) \subseteq UNION S OBVIOUS
<1>6. \A p \in DeletedButChanged("source") \cup DeletedButChanged("target") :
        Conflict(p, "deleted-on-one-side-but-changed-on-the-other") \in C OBVIOUS
<1> HIDE DEF S, C, R, Q
<1>7. \A op \in ops : op \in (UNION S) \/ op \in C \/ op \in R \/ op \in Q BY <1>2
<1>8. (UNION S) \subseteq ops /\ C \subseteq ops /\ R \subseteq ops /\ Q \subseteq ops BY <1>2
<1> QED BY <1>3, <1>4, <1>5, <1>6, <1>7, <1>8 DEF R, Q

LEMMA Gone ==
  \A s \in Side : /\ GoneFrom(s) \subseteq FilesOf(snap[Other(s)]) /\ GoneFrom(s) \subseteq Path
                  /\ AddedBeside(s) \subseteq GoneFrom(s) /\ DeletedOn(s) \subseteq GoneFrom(s)
                  /\ DeletedButChanged(s) \subseteq GoneFrom(s)
BY FilesAreSeen DEF GoneFrom, AddedBeside, DeletedOn, DeletedButChanged

LEMMA TwoWayTypes ==
  ASSUME TypeOK, NEW ops \in TwoWayPlans
  PROVE  ops \subseteq Op
<1>1. PICK M \in Pairings("source", AddedBeside("target"), DeletedOn("source")),
           N \in Pairings("target", AddedBeside("source"), DeletedOn("target")) :
        \A op \in ops :
          \/ \E p \in SourceFiles \cap TargetFiles : op \in TwoWayShared(p)
          \/ \E p \in DeletedButChanged("source") \cup DeletedButChanged("target") :
               op = Conflict(p, "deleted-on-one-side-but-changed-on-the-other")
          \/ op \in Replay("target", AddedBeside("target"), DeletedOn("source"), M)
          \/ op \in Replay("source", AddedBeside("source"), DeletedOn("target"), N)
  BY TwoWayMakes
<1>3. \A p \in SourceFiles \cap TargetFiles : TwoWayShared(p) \subseteq Op BY SharedTypes
<1>4. \A p \in DeletedButChanged("source") \cup DeletedButChanged("target") :
        Conflict(p, "deleted-on-one-side-but-changed-on-the-other") \in Op
  BY Gone, ConflictIsOp DEF Side, Reasons
<1>5. Other("target") = "source" /\ Other("source") = "target" /\ "source" \in Side /\ "target" \in Side
  BY DEF Other, Side
<1>6. Replay("target", AddedBeside("target"), DeletedOn("source"), M) \subseteq Op
  BY <1>1, Gone, <1>5, ReplayTypes
<1>7. Replay("source", AddedBeside("source"), DeletedOn("target"), N) \subseteq Op
  BY <1>1, Gone, <1>5, ReplayTypes
<1> QED BY <1>1, <1>3, <1>4, <1>6, <1>7

(* The rows of the one-way lane: its removals are a mirror's.              *)
LEMMA OneWayMakes ==
  ASSUME NEW ops \in OneWayPlans
  PROVE  \E dels \in SUBSET TargetFiles :
           /\ job.mode # "mirror" => dels = {}
           /\ \E M \in Pairings("source", SourceFiles \ TargetFiles, dels) :
                \A op \in ops :
                  \/ op \in Replay("target", SourceFiles \ TargetFiles, dels, M)
                  \/ \E p \in SourceFiles \cap TargetFiles :
                       op \in {Conflict(p, "evidence-unavailable"), Push("target", p, "differs")}
<1> DEFINE adds == SourceFiles \ TargetFiles
           dels == IF job.mode = "mirror" THEN TargetFiles \ SourceFiles ELSE {}
           newerSets == IF job.mode = "mirror" THEN {{}} ELSE SUBSET (SourceFiles \cap TargetFiles)
<1>0. OneWayPlans = {OneWayShared(newer) \cup Replay("target", adds, dels, M) :
                       newer \in newerSets, M \in Pairings("source", adds, dels)}
  BY DEF OneWayPlans
<1>4. dels \in SUBSET TargetFiles /\ (job.mode # "mirror" => dels = {}) OBVIOUS
<1> HIDE DEF newerSets
<1> HIDE DEF adds, dels
<1>1. PICK newer \in newerSets, M \in Pairings("source", adds, dels) :
        ops = OneWayShared(newer) \cup Replay("target", adds, dels, M)
  BY <1>0
<1>2. \A op \in OneWayShared(newer) :
        \E p \in SourceFiles \cap TargetFiles :
           op \in {Conflict(p, "evidence-unavailable"), Push("target", p, "differs")}
  BY DEF OneWayShared
<1>3. adds = SourceFiles \ TargetFiles BY DEF adds
<1> QED BY <1>1, <1>2, <1>3, <1>4

LEMMA OneWayTypes ==
  ASSUME TypeOK, NEW ops \in OneWayPlans
  PROVE  ops \subseteq Op
<1>1. PICK dels \in SUBSET TargetFiles :
        \E M \in Pairings("source", SourceFiles \ TargetFiles, dels) :
           \A op \in ops :
             \/ op \in Replay("target", SourceFiles \ TargetFiles, dels, M)
             \/ \E p \in SourceFiles \cap TargetFiles :
                  op \in {Conflict(p, "evidence-unavailable"), Push("target", p, "differs")}
  BY OneWayMakes
<1>2. PICK M \in Pairings("source", SourceFiles \ TargetFiles, dels) :
        \A op \in ops :
          \/ op \in Replay("target", SourceFiles \ TargetFiles, dels, M)
          \/ \E p \in SourceFiles \cap TargetFiles :
               op \in {Conflict(p, "evidence-unavailable"), Push("target", p, "differs")}
  BY <1>1
<1>3. Other("target") = "source" /\ "source" \in Side /\ "target" \in Side BY DEF Other, Side
<1>4. SourceFiles \ TargetFiles \subseteq FilesOf(snap[Other("target")]) /\ dels \subseteq Path
  BY <1>3, FilesAreSeen DEF SourceFiles, TargetFiles
<1>5. Replay("target", SourceFiles \ TargetFiles, dels, M) \subseteq Op
  BY <1>2, <1>3, <1>4, ReplayTypes
<1>6. \A p \in SourceFiles \cap TargetFiles :
        Conflict(p, "evidence-unavailable") \in Op /\ Push("target", p, "differs") \in Op
  BY <1>3, FilesAreSeen, ConflictIsOp, WritesAreOps DEF SourceFiles, TargetFiles, Reasons
<1> QED BY <1>2, <1>5, <1>6

(* The rows of the symlink lane.                                           *)
LEMMA LinkMakes ==
  ASSUME NEW op \in LinkOps
  PROVE  \E p \in LinksOf(snap["source"]) \cup LinksOf(snap["target"]) :
           \/ /\ p \in LinksOf(snap["source"])
              /\ op \in {Act("target", "Copy", p, snap["source"][p], "symlink-only-in-source"),
                         Act("target", "Update", p, snap["source"][p], "symlink-differs")}
           \/ /\ p \in LinksOf(snap["target"])
              /\ op \in {Act("target", "Delete", p, snap["target"][p], "symlink-gone"),
                         Act("source", "Copy", p, snap["target"][p], "symlink-only-in-target"),
                         Conflict(p, "symlink-differs")}
BY DEF LinkOps

LEMMA LinkTypes == ASSUME TypeOK PROVE LinkOps \subseteq Op
<1>1. \A s \in Side : \A p \in LinksOf(snap[s]) : p \in Path /\ snap[s][p] \in Content
  BY ContentAssumption DEF LinksOf
<1>2. "source" \in Side /\ "target" \in Side BY DEF Side
<1>3. \A p \in LinksOf(snap["source"]) :
        /\ Act("target", "Copy", p, snap["source"][p], "symlink-only-in-source") \in Op
        /\ Act("target", "Update", p, snap["source"][p], "symlink-differs") \in Op
  BY <1>1, <1>2, ActIsOp DEF Reasons
<1>4. \A p \in LinksOf(snap["target"]) :
        /\ Act("target", "Delete", p, snap["target"][p], "symlink-gone") \in Op
        /\ Act("source", "Copy", p, snap["target"][p], "symlink-only-in-target") \in Op
        /\ Conflict(p, "symlink-differs") \in Op
  BY <1>1, <1>2, ActIsOp, ConflictIsOp DEF Reasons
<1> QED BY <1>3, <1>4, LinkMakes

LEMMA DoomedAreThere ==
  ASSUME TypeOK, NEW s \in Side, NEW p \in Doomed(s)
  PROVE  p \in Path /\ IsConflictCopy(p) /\ snap[s][p] \in File \cup {Unreadable}
BY DEF Doomed, CopiesOf

\* The side that gives way where the policy decides.
Loser(p, sourceLoses) == IF p \in sourceLoses THEN "source" ELSE "target"

(* What the comparison's plan is made of: the lanes' operations, without   *)
(* the conflicts a policy resolves, and what resolves those.               *)
LEMMA ResolvedMakes ==
  ASSUME NEW ops, NEW sourceLoses, NEW op \in Resolved(ops, sourceLoses)
  PROVE  \/ op \in ops
         \/ /\ job.policy # "report"
            /\ \E c \in ops, s \in Side :
                 /\ Resolvable(c) /\ s = Loser(c.path, sourceLoses)
                 /\ \/ op = Push(s, c.path, Resolving)
                    \/ /\ job.policy = "copy"
                       /\ op = Relocate(s, c.path, Kept(c.path), snap[s][c.path], "conflict-loser-kept-as-copy")
         \/ /\ job.policy = "copy"
            /\ \E s \in Side : \E p \in Doomed(s) : op = Drop(s, p, "conflict-copy-over-limit")
<1> DEFINE resolvable == IF job.policy = "report" THEN {} ELSE {c \in ops : Resolvable(c)}
           L(c) == IF c.path \in sourceLoses THEN "source" ELSE "target"
           S == {Resolution(c, L(c)) : c \in resolvable}
           D == IF job.policy = "copy"
                THEN UNION {{Drop(s, p, "conflict-copy-over-limit") : p \in Doomed(s)} : s \in Side}
                ELSE {}
<1>1. Resolved(ops, sourceLoses) = (ops \ resolvable) \cup (UNION S) \cup D BY DEF Resolved
<1>2. ASSUME op \in UNION S
      PROVE  /\ job.policy # "report"
             /\ \E c \in ops, s \in Side :
                  /\ Resolvable(c) /\ s = Loser(c.path, sourceLoses)
                  /\ \/ op = Push(s, c.path, Resolving)
                     \/ /\ job.policy = "copy"
                        /\ op = Relocate(s, c.path, Kept(c.path), snap[s][c.path], "conflict-loser-kept-as-copy")
  <2>1. PICK c \in resolvable : op \in Resolution(c, L(c)) BY <1>2
  <2>2. c \in ops /\ Resolvable(c) /\ job.policy # "report" BY <2>1
  <2>3. L(c) \in Side /\ L(c) = Loser(c.path, sourceLoses) BY DEF Side, Loser
  <2> HIDE DEF L, resolvable, S, D
  <2>4. \/ op = Push(L(c), c.path, Resolving)
        \/ /\ job.policy = "copy"
           /\ op = Relocate(L(c), c.path, Kept(c.path), snap[L(c)][c.path], "conflict-loser-kept-as-copy")
    BY <2>1 DEF Resolution, Resolving
  <2> QED BY <2>2, <2>3, <2>4
<1>3. ASSUME op \in D
      PROVE  /\ job.policy = "copy"
             /\ \E s \in Side : \E p \in Doomed(s) : op = Drop(s, p, "conflict-copy-over-limit")
  BY <1>3
<1>4. op \in ops \/ op \in UNION S \/ op \in D
  <2> HIDE DEF S, D, resolvable
  <2> QED BY <1>1
<1> QED BY <1>2, <1>3, <1>4

LEMMA LanesTypes ==
  ASSUME TypeOK, NEW ops \in (IF job.mode = "sync" THEN TwoWayPlans ELSE OneWayPlans)
  PROVE  ops \cup LinkOps \subseteq Op
BY TwoWayTypes, OneWayTypes, LinkTypes

LEMMA SharedMakes ==
  ASSUME NEW p
  PROVE  TwoWayShared(p) \in {{Conflict(p, "evidence-unavailable")}, {}, {Conflict(p, "differs-no-archive")},
           {Conflict(p, "both-changed")}, {Push("source", p, "target-changed")},
           {Push("target", p, "source-changed")}, {Push("target", p, "target-behind-by-generations")},
           {Push("source", p, "source-behind-by-generations")}}
<1> DEFINE sg == GenerationOf(snap["source"][p], p)
           tg == GenerationOf(snap["target"][p], p)
<1> QED BY DEF TwoWayShared

LEMMA SharedPaths ==
  ASSUME NEW p, NEW op \in TwoWayShared(p)
  PROVE  op.path = p /\ op.from = p /\ op.act \in {"Conflict", "Update"}
BY SharedMakes DEF Conflict, Push, Act

LEMMA ConflictsAreShared ==
  ASSUME TypeOK, NEW ops \in (IF job.mode = "sync" THEN TwoWayPlans ELSE OneWayPlans),
         NEW c \in ops \cup LinkOps, Resolvable(c)
  PROVE  /\ TwoWay /\ c.path \in SourceFiles \cap TargetFiles
         /\ c \in TwoWayShared(c.path) /\ ~EvidenceMissing(c.path)
<1>1. \A why \in Reasons, p \in Path : Conflict(p, why).why = why /\ Conflict(p, why).path = p
  BY DEF Conflict, Act
<1>2. c.act = "Conflict" /\ c.why \in {"both-changed", "differs-no-archive"} BY DEF Resolvable
<1>3. c \notin LinkOps BY <1>2, LinkMakes DEF Act, Conflict
<1>4. ASSUME NEW s \in Side, NEW adds, NEW dels, NEW M \in Pairings(Other(s), adds, dels)
      PROVE  c \notin Replay(s, adds, dels, M)
  BY <1>2, ReplayActs
<1>5. "source" \in Side /\ "target" \in Side /\ Other("source") = "target" /\ Other("target") = "source"
  BY DEF Side, Other
<1>6. ASSUME ~TwoWay PROVE FALSE
  <2>1. c \in ops /\ ops \in OneWayPlans BY <1>3, <1>6 DEF TwoWay
  <2>2. \E p \in SourceFiles \cap TargetFiles :
          c \in {Conflict(p, "evidence-unavailable"), Push("target", p, "differs")}
    BY <1>4, <1>5, <2>1, OneWayMakes
  <2> QED BY <1>2, <2>2 DEF Conflict, Push, Act
<1>7. ASSUME TwoWay PROVE \E p \in SourceFiles \cap TargetFiles : c \in TwoWayShared(p)
  <2>1. c \in ops /\ ops \in TwoWayPlans BY <1>3, <1>7 DEF TwoWay
  <2>2. \/ \E p \in SourceFiles \cap TargetFiles : c \in TwoWayShared(p)
        \/ \E p \in DeletedButChanged("source") \cup DeletedButChanged("target") :
             c = Conflict(p, "deleted-on-one-side-but-changed-on-the-other")
    BY <1>4, <1>5, <2>1, TwoWayMakes
  <2> QED BY <1>2, <2>2 DEF Conflict, Act
<1>8. PICK p \in SourceFiles \cap TargetFiles : c \in TwoWayShared(p) BY <1>6, <1>7
<1>9. c.path = p BY <1>8, SharedPaths
<1>10. ~EvidenceMissing(p) BY <1>2, <1>8 DEF TwoWayShared, Conflict, Act
<1> QED BY <1>6, <1>8, <1>9, <1>10

LEMMA ResolvedTypes ==
  ASSUME TypeOK, NEW ops \in (IF job.mode = "sync" THEN TwoWayPlans ELSE OneWayPlans), NEW sourceLoses
  PROVE  Resolved(ops \cup LinkOps, sourceLoses) \subseteq Op
<1> SUFFICES ASSUME NEW op \in Resolved(ops \cup LinkOps, sourceLoses) PROVE op \in Op
  OBVIOUS
<1>0. Resolving \in Reasons /\ "conflict-loser-kept-as-copy" \in Reasons
      /\ "conflict-copy-over-limit" \in Reasons BY DEF Reasons, Resolving
<1>1. CASE op \in ops \cup LinkOps BY <1>1, LanesTypes
<1>2. ASSUME job.policy # "report", NEW c \in ops \cup LinkOps, NEW s \in Side, Resolvable(c),
             \/ op = Push(s, c.path, Resolving)
             \/ /\ job.policy = "copy"
                /\ op = Relocate(s, c.path, Kept(c.path), snap[s][c.path], "conflict-loser-kept-as-copy")
      PROVE  op \in Op
  <2> DEFINE p == c.path
  <2>1. p \in SourceFiles \cap TargetFiles /\ ~EvidenceMissing(p) BY <1>2, ConflictsAreShared
  <2> HIDE DEF p
  <2>2. p \in Path /\ snap["source"][p] # Absent /\ snap["target"][p] # Absent
    BY <2>1, FilesAreSeen DEF SourceFiles, TargetFiles
  <2>3. snap["source"][p] \in Content /\ snap["target"][p] \in Content
    <3>1. snap["source"][p] \in (Content \ Links) \cup {Unreadable} /\ snap["target"][p] \in (Content \ Links) \cup {Unreadable}
      BY <2>1, FilesAreSeen DEF SourceFiles, TargetFiles
    <3> QED BY <2>1, <3>1 DEF EvidenceMissing
  <2>4. snap[s][p] \in Content /\ snap[Other(s)][p] # Absent BY <2>2, <2>3 DEF Side, Other
  <2>5. Push(s, p, Resolving) \in Op BY <1>0, <2>2, <2>4, WritesAreOps
  <2>6. job.policy = "copy" => Relocate(s, p, Kept(p), snap[s][p], "conflict-loser-kept-as-copy") \in Op
    BY <1>0, <2>2, <2>4, RelocateIsOp, KeptIsPath
  <2> QED BY <1>2, <2>5, <2>6 DEF p
<1>3. ASSUME NEW s \in Side, NEW p \in Doomed(s), op = Drop(s, p, "conflict-copy-over-limit")
      PROVE  op \in Op
  BY <1>0, <1>3, DoomedAreThere, WritesAreOps
<1>4. \/ op \in ops \cup LinkOps
      \/ /\ job.policy # "report"
         /\ \E c \in ops \cup LinkOps, s \in Side :
              /\ Resolvable(c)
              /\ \/ op = Push(s, c.path, Resolving)
                 \/ /\ job.policy = "copy"
                    /\ op = Relocate(s, c.path, Kept(c.path), snap[s][c.path], "conflict-loser-kept-as-copy")
      \/ /\ job.policy = "copy"
         /\ \E s \in Side : \E p \in Doomed(s) : op = Drop(s, p, "conflict-copy-over-limit")
  BY ResolvedMakes
<1> QED BY <1>1, <1>2, <1>3, <1>4

LEMMA ReversedTypes ==
  ASSUME TypeOK, NEW op \in Op, Reversible(op)
  PROVE  Reversed(op) \in Op
<1> DEFINE want == IF op.want \in Links THEN op.want ELSE None
<1>1. want \in Content \cup {None} BY ContentAssumption
<1>2. op.path \in Path /\ op.side \in Side /\ op.why \in Reasons /\ Other(op.side) \in Side
  BY Sides DEF Op
<1> HIDE DEF want
<1>3. \A act \in {"Copy", "Update", "Delete"} :
        Act(Other(op.side), act, op.path, want, op.why) \in Op /\ Act(Other(op.side), act, op.path, None, op.why) \in Op
  BY <1>1, <1>2, ActIsOp
<1> QED BY <1>3 DEF Reversed, Reversible, want

LEMMA DecidedTypes ==
  ASSUME TypeOK, NEW kept \in SUBSET Executable(plan), NEW turned \in SUBSET {op \in kept : Reversible(op)}
  PROVE  Decided(kept, turned) \subseteq Op
BY ReversedTypes DEF Decided, TypeOK, Executable

(* A version list keeps to contents, and takes nothing new but what the    *)
(* archive named.                                                          *)
LEMMA RolledMakes ==
  ASSUME TypeOK, NEW p \in Path, NEW fresh
  PROVE  /\ Rolled(p, fresh) \in Seq(Content)
         /\ \A i \in DOMAIN Rolled(p, fresh) :
              \/ \E k \in DOMAIN history[p] : Rolled(p, fresh)[i] = history[p][k]
              \/ archive # None /\ archive[p] \in Content /\ Rolled(p, fresh)[i] = archive[p]
<1> DEFINE old == IF archive = None THEN Absent ELSE archive[p]
           chain == IF Digest(old) THEN <<old>> \o history[p] ELSE history[p]
           n == IF Len(chain) < Generations THEN Len(chain) ELSE Generations
<1>1. history[p] \in Seq(Content) BY DEF TypeOK
<1>2. Digest(old) => archive # None /\ old = archive[p] /\ old \in Content
  BY ContentAssumption DEF Digest, File
<1>3. chain \in Seq(Content)
      /\ \A i \in 1 .. Len(chain) : \/ \E k \in DOMAIN history[p] : chain[i] = history[p][k]
                                    \/ archive # None /\ archive[p] \in Content /\ chain[i] = archive[p]
  <2>1. CASE ~Digest(old) BY <1>1, <2>1
  <2>2. CASE Digest(old)
    <3> HIDE DEF old
    <3>1. <<old>> \in Seq(Content) /\ Len(<<old>>) = 1 /\ <<old>>[1] = old BY <1>2, <2>2
    <3>2. <<old>> \o history[p] \in Seq(Content)
          /\ Len(<<old>> \o history[p]) = 1 + Len(history[p])
          /\ \A i \in 1 .. 1 + Len(history[p]) :
               (<<old>> \o history[p])[i] = IF i <= 1 THEN <<old>>[i] ELSE history[p][i - 1]
      BY <1>1, <3>1, ConcatProperties
    <3>3. \A i \in 1 .. 1 + Len(history[p]) : i = 1 \/ (i > 1 /\ i - 1 \in 1 .. Len(history[p]))
      BY <1>1
    <3>4. DOMAIN history[p] = 1 .. Len(history[p]) BY <1>1
    <3>5. \A i \in 1 .. 1 + Len(history[p]) :
            \/ \E k \in DOMAIN history[p] : (<<old>> \o history[p])[i] = history[p][k]
            \/ archive # None /\ archive[p] \in Content /\ (<<old>> \o history[p])[i] = archive[p]
      BY <1>2, <2>2, <3>1, <3>2, <3>3, <3>4
    <3> QED BY <2>2, <3>2, <3>5
  <2> QED BY <2>1, <2>2
<1> HIDE DEF chain
<1>4. Len(chain) \in Nat /\ DOMAIN chain = 1 .. Len(chain) BY <1>3
<1>5. n \in Nat /\ n <= Len(chain) BY <1>4, JobAssumption
<1> HIDE DEF n
<1>6. SubSeq(chain, 1, n) \in Seq(Content) /\ Len(SubSeq(chain, 1, n)) = n
      /\ \A i \in 1 .. n : SubSeq(chain, 1, n)[i] = chain[i]
  <2>1. CASE n = 0
    <3>1. SubSeq(chain, 1, n) = << >> BY <1>3, <2>1, EmptySeq, SubSeqProperties
    <3> QED BY <2>1, <3>1
  <2>2. CASE n > 0
    <3>1. 1 \in 1 .. Len(chain) + 1 /\ n \in 0 .. Len(chain) BY <1>4, <1>5, <2>2
    <3> QED BY <1>3, <1>4, <1>5, <2>2, <3>1, SubSeqProperties
  <2> QED BY <1>5, <2>1, <2>2
<1>7. DOMAIN SubSeq(chain, 1, n) = 1 .. n BY <1>6
<1>8. \A i \in DOMAIN SubSeq(chain, 1, n) :
         \/ \E k \in DOMAIN history[p] : SubSeq(chain, 1, n)[i] = history[p][k]
         \/ archive # None /\ archive[p] \in Content /\ SubSeq(chain, 1, n)[i] = archive[p]
  BY <1>3, <1>4, <1>5, <1>6, <1>7
<1>9. Rolled(p, fresh) \in {<< >>, history[p], SubSeq(chain, 1, n)}
  BY DEF Rolled, chain, n
<1>10. << >> \in Seq(Content) /\ DOMAIN << >> = {} BY EmptySeq
<1> QED BY <1>1, <1>6, <1>8, <1>9, <1>10

LEMMA HoldingTypes ==
  ASSUME TypeOK, NEW f \in [Side -> [Path -> Content \cup {Absent}]]
  PROVE  Holding(f) \in [Side -> SUBSET (Path \X Content)]
<1> DEFINE H(s) == {<<p, f[s][p]>> : p \in {q \in Path : f[s][q] # Absent}}
<1>1. \A s \in Side : H(s) \subseteq Path \X Content OBVIOUS
<1>2. held \in [Side -> SUBSET (Path \X Content)] BY DEF TypeOK
<1>3. Holding(f) = [s \in Side |-> held[s] \cup H(s)] BY DEF Holding
<1> HIDE DEF H
<1>4. \A s \in Side : held[s] \cup H(s) \in SUBSET (Path \X Content) BY <1>1, <1>2
<1> QED BY <1>3, <1>4

(* What one operation leaves on the side it writes, path by path.          *)
LEMMA ResultMakes ==
  ASSUME TypeOK, NEW op \in Op
  PROVE  /\ Result(op) \in [Path -> Content \cup {Absent}]
         /\ op.act = "Move" =>
              \A p \in Path : Result(op)[p] = IF p = op.path THEN fs[op.side][op.from]
                                              ELSE IF p = op.from THEN Absent ELSE fs[op.side][p]
         /\ op.act = "Delete" =>
              \A p \in Path : Result(op)[p] = IF p = op.path THEN Absent ELSE fs[op.side][p]
         /\ op.act \notin {"Move", "Delete"} =>
              \A p \in Path : Result(op)[p] =
                IF p = op.path THEN IF op.want \in Links THEN op.want ELSE fs[Other(op.side)][op.path]
                ELSE fs[op.side][p]
<1>1. op.side \in Side /\ op.path \in Path /\ op.from \in Path /\ Other(op.side) \in Side
  BY Sides DEF Op
<1>2. fs[op.side] \in [Path -> Content \cup {Absent}] /\ fs[Other(op.side)] \in [Path -> Content \cup {Absent}]
  BY <1>1 DEF TypeOK
<1>3. CASE op.act = "Move"
  <2>1. Result(op) = [fs[op.side] EXCEPT ![op.from] = Absent, ![op.path] = fs[op.side][op.from]]
    BY <1>3 DEF Result
  <2> QED BY <1>1, <1>2, <1>3, <2>1
<1>4. CASE op.act = "Delete"
  <2>1. Result(op) = [fs[op.side] EXCEPT ![op.path] = Absent] BY <1>4 DEF Result
  <2> QED BY <1>1, <1>2, <1>4, <2>1
<1>5. CASE op.act \notin {"Move", "Delete"}
  <2> DEFINE c == IF op.want \in Links THEN op.want ELSE fs[Other(op.side)][op.path]
  <2>1. Result(op) = [fs[op.side] EXCEPT ![op.path] = c] BY <1>5 DEF Result
  <2>2. c \in Content \cup {Absent} BY <1>1, <1>2, ContentAssumption
  <2> HIDE DEF c
  <2>3. Result(op) \in [Path -> Content \cup {Absent}]
        /\ \A p \in Path : Result(op)[p] = IF p = op.path THEN c ELSE fs[op.side][p]
    BY <1>1, <1>2, <2>1, <2>2
  <2> QED BY <1>5, <2>3 DEF c
<1> QED BY <1>3, <1>4, <1>5

LEMMA EditTypes ==
  ASSUME TypeOK, NEW f \in [Side -> [Path -> Content \cup {Absent}]], Edited(f), saves < job.saves, UNCHANGED job
  PROVE  TypeOK'
<1>1. Holding(f) \in [Side -> SUBSET (Path \X Content)] BY HoldingTypes
<1>2. saves' \in 0 .. job.saves BY JobIsJob DEF TypeOK, Edited, Job
<1> QED BY <1>1, <1>2 DEF TypeOK, Edited, archiveVars

LEMMA PeopleTypes == ASSUME TypeOK, People, UNCHANGED job PROVE TypeOK'
<1>1. PICK s \in Side, p \in Paths :
        \/ \E c \in job.contents : Save(s, p, c)
        \/ Remove(s, p)
        \/ \E q \in Paths : Rename(s, p, q)
  BY DEF People
<1>2. p \in Path /\ Paths \subseteq Path /\ job.contents \subseteq Content BY PathsArePath, JobIsJob DEF Job
<1>3. fs \in [Side -> [Path -> Content \cup {Absent}]] /\ fs[s] \in [Path -> Content \cup {Absent}] BY DEF TypeOK
<1>4. ASSUME NEW c \in job.contents, Save(s, p, c) PROVE TypeOK'
  <2> DEFINE f == [fs EXCEPT ![s][p] = c]
  <2>1. f \in [Side -> [Path -> Content \cup {Absent}]] BY <1>2, <1>3
  <2>2. Edited(f) /\ saves < job.saves BY <1>4 DEF Save, MayEdit
  <2> HIDE DEF f
  <2> QED BY <2>1, <2>2, EditTypes
<1>5. ASSUME Remove(s, p) PROVE TypeOK'
  <2> DEFINE f == [fs EXCEPT ![s][p] = Absent]
  <2>1. f \in [Side -> [Path -> Content \cup {Absent}]] BY <1>2, <1>3
  <2>2. Edited(f) /\ saves < job.saves BY <1>5 DEF Remove, MayEdit
  <2> HIDE DEF f
  <2> QED BY <2>1, <2>2, EditTypes
<1>6. ASSUME NEW q \in Paths, Rename(s, p, q) PROVE TypeOK'
  <2> DEFINE f == [fs EXCEPT ![s][p] = Absent, ![s][q] = fs[s][p]]
  <2>1. f \in [Side -> [Path -> Content \cup {Absent}]] BY <1>2, <1>3
  <2>2. Edited(f) /\ saves < job.saves BY <1>6 DEF Rename, MayEdit
  <2> HIDE DEF f
  <2> QED BY <2>1, <2>2, EditTypes
<1> QED BY <1>1, <1>4, <1>5, <1>6

LEMMA NextPathIsLeft == \A s \in Side : rest[s] # {} => NextPath(s) \in rest[s]
BY DEF NextPath

LEMMA ObserveTypes ==
  ASSUME TypeOK, NEW s \in Side, NEW p \in Path, NEW seen \in Seen, Observe(s, p, seen), UNCHANGED job,
         unread' \subseteq Path, quiet' \in BOOLEAN, done' \in {"no", "full", "clean"},
         faults' \in 0 .. job.faults
  PROVE  TypeOK'
<1>1. snap' \in [Side -> [Path -> Seen]]
  <2>1. snap \in [Side -> [Path -> Seen]] /\ snap[s] \in [Path -> Seen] BY DEF TypeOK
  <2>2. [snap[s] EXCEPT ![p] = seen] \in [Path -> Seen] BY <2>1
  <2>3. snap' = [snap EXCEPT ![s] = [snap[s] EXCEPT ![p] = seen]] BY DEF Observe
  <2> QED BY <2>1, <2>2, <2>3
<1>2. rest' \in [Side -> SUBSET Path] BY DEF Observe, TypeOK
<1> QED BY <1>1, <1>2 DEF TypeOK, Observe, peopleVars, archiveVars

LEMMA ScanTypes == ASSUME TypeOK, Scan, UNCHANGED job PROVE TypeOK'
<1>1. PICK s \in Side : ReadPath(s) \/ \E fault \in job.trouble : FailToRead(s, fault) BY DEF Scan
<1>2. rest[s] # {} => NextPath(s) \in Path BY NextPathIsLeft DEF TypeOK
<1>3. Absent \in Seen /\ Unreadable \in Seen /\ \A p \in Path : fs[s][p] \in Seen BY DEF Seen, TypeOK
<1>4. CASE ReadPath(s)
  <2>1. rest[s] # {} /\ UNCHANGED <<unread, quiet, done, faults>> /\ Observe(s, NextPath(s), fs[s][NextPath(s)])
    BY <1>4 DEF ReadPath
  <2>2. unread' \subseteq Path /\ quiet' \in BOOLEAN /\ done' \in {"no", "full", "clean"}
        /\ faults' \in 0 .. job.faults
    BY <2>1 DEF TypeOK
  <2>3. NextPath(s) \in Path BY <1>2, <2>1
  <2>4. fs[s][NextPath(s)] \in Seen BY <1>3, <2>3
  <2> QED BY <2>1, <2>2, <2>3, <2>4, ObserveTypes
<1>5. ASSUME NEW fault \in job.trouble, FailToRead(s, fault) PROVE TypeOK'
  <2>1. rest[s] # {} /\ faults < job.faults /\ faults' = faults + 1 /\ quiet' = FALSE /\ done' = "no"
    BY <1>5 DEF FailToRead
  <2>2. faults' \in 0 .. job.faults BY <2>1, JobIsJob DEF TypeOK, Job
  <2>3. NextPath(s) \in Path BY <1>2, <2>1
  <2>4. \/ Observe(s, NextPath(s), Absent) /\ unread' \in {unread, unread \cup {NextPath(s)}}
        \/ Observe(s, NextPath(s), Unreadable) /\ unread' = unread
    <3>1. fault \in {"unread", "unreadable"} BY JobIsJob DEF Job
    <3>2. CASE fault = "unread" BY <1>5, <3>2 DEF FailToRead
    <3>3. CASE fault = "unreadable" BY <1>5, <3>3 DEF FailToRead
    <3> QED BY <3>1, <3>2, <3>3
  <2>5. unread' \subseteq Path BY <2>3, <2>4 DEF TypeOK
  <2>6. quiet' \in BOOLEAN /\ done' \in {"no", "full", "clean"} BY <2>1
  <2> QED BY <1>3, <2>2, <2>3, <2>4, <2>5, <2>6, ObserveTypes
<1> QED BY <1>1, <1>4, <1>5

LEMMA CompareTypes == ASSUME TypeOK, Compare, UNCHANGED job PROVE TypeOK'
<1>1. PICK ops \in (IF job.mode = "sync" THEN TwoWayPlans ELSE OneWayPlans),
           sourceLoses \in (IF job.policy = "report" THEN {{}} ELSE SUBSET (SourceFiles \cap TargetFiles)) :
        plan' = Resolved(ops \cup LinkOps, sourceLoses)
  BY DEF Compare
<1>2. plan' \subseteq Op BY <1>1, ResolvedTypes
<1> QED BY <1>2 DEF TypeOK, Compare, peopleVars, archiveVars

LEMMA BeginTypes ==
  ASSUME TypeOK, NEW ops \in SUBSET Op, NEW whole \in BOOLEAN, Begin(ops, whole), UNCHANGED job
  PROVE  TypeOK'
<1>1. todo' \subseteq Op /\ pc' \in {"apply", "idle"} /\ errors' \in BOOLEAN BY DEF Begin, TypeOK
<1>2. quiet' \in BOOLEAN BY DEF Begin, TypeOK
<1> QED BY <1>1, <1>2 DEF TypeOK, Begin, peopleVars, archiveVars

LEMMA ReviewTypes == ASSUME TypeOK, RunAll \/ RunReviewed \/ Decline, UNCHANGED job PROVE TypeOK'
<1>1. CASE RunAll
  <2>1. Executable(plan) \in SUBSET Op BY DEF Executable, TypeOK
  <2> QED BY <1>1, <2>1, BeginTypes DEF RunAll
<1>2. CASE RunReviewed
  <2>1. PICK kept \in (SUBSET Executable(plan)) \ {{}} :
          \E turned \in SUBSET {op \in kept : Reversible(op)} :
            Begin(Decided(kept, turned), kept = Executable(plan))
    BY <1>2 DEF RunReviewed
  <2>2. PICK turned \in SUBSET {op \in kept : Reversible(op)} :
          Begin(Decided(kept, turned), kept = Executable(plan))
    BY <2>1
  <2>3. Decided(kept, turned) \in SUBSET Op BY DecidedTypes
  <2>4. (kept = Executable(plan)) \in BOOLEAN OBVIOUS
  <2> QED BY <2>2, <2>3, <2>4, BeginTypes
<1>3. CASE Decline BY <1>3 DEF Decline, TypeOK, peopleVars, archiveVars
<1> QED BY <1>1, <1>2, <1>3

LEMMA DoIs ==
  ASSUME TypeOK, NEW op \in todo, Do(op)
  PROVE  /\ op \in Op /\ op.side \in Side /\ op.path \in Path /\ op.from \in Path
         /\ Other(op.side) \in Side
         /\ pc = "apply" /\ GoesThrough(op)
         /\ Result(op) \in [Path -> Content \cup {Absent}]
         /\ fs' = [fs EXCEPT ![op.side] = Result(op)]
         /\ fs' \in [Side -> [Path -> Content \cup {Absent}]]
         /\ held' = Holding(fs')
<1>1. op \in Op /\ Due(op) /\ GoesThrough(op) BY DEF Do, TypeOK
<1>2. op.side \in Side /\ op.path \in Path /\ op.from \in Path /\ Other(op.side) \in Side
  BY <1>1, Sides DEF Op
<1>3. Result(op) \in [Path -> Content \cup {Absent}] BY <1>1, ResultMakes
<1>4. fs' = [fs EXCEPT ![op.side] = Result(op)] /\ held' = Holding(fs') BY DEF Do
<1>5. fs' \in [Side -> [Path -> Content \cup {Absent}]] BY <1>2, <1>3, <1>4 DEF TypeOK
<1> QED BY <1>1, <1>2, <1>3, <1>4, <1>5 DEF Due

LEMMA ApplyTypes == ASSUME TypeOK, Apply, UNCHANGED job PROVE TypeOK'
<1>1. PICK op \in todo : Do(op) \/ Fail(op) BY DEF Apply
<1>2. CASE Do(op)
  <2>1. fs' \in [Side -> [Path -> Content \cup {Absent}]] /\ held' = Holding(fs') BY <1>2, DoIs
  <2>2. Holding(fs') \in [Side -> SUBSET (Path \X Content)] BY <2>1, HoldingTypes
  <2>3. todo' \subseteq Op BY <1>2 DEF Do, TypeOK
  <2> QED BY <1>2, <2>1, <2>2, <2>3 DEF Do, TypeOK, archiveVars
<1>3. CASE Fail(op)
  <2>1. faults' \in 0 .. job.faults BY <1>3, JobIsJob DEF Fail, TypeOK, Job
  <2> QED BY <1>3, <2>1 DEF Fail, TypeOK, peopleVars, archiveVars
<1> QED BY <1>1, <1>2, <1>3

LEMMA EndTypes == ASSUME TypeOK, EndApply \/ Stop \/ PublishFails \/ StartRun, UNCHANGED job PROVE TypeOK'
<1>1. Outcome \in {"no", "full", "clean"} BY DEF Outcome
<1>2. Paths \subseteq Path /\ job \in Job BY PathsArePath, JobIsJob
<1>3. NoPaths \in [Side -> SUBSET Path] /\ AllPaths \in [Side -> SUBSET Path]
      /\ [NoPaths EXCEPT !["source"] = Paths] \in [Side -> SUBSET Path]
  BY <1>2 DEF NoPaths, AllPaths, Side
<1>4. CASE EndApply BY <1>1, <1>3, <1>4 DEF EndApply, TypeOK, peopleVars, archiveVars
<1>5. CASE Stop
  <2>1. faults' \in 0 .. job.faults BY <1>2, <1>5 DEF Stop, TypeOK, Job
  <2>2. todo' \subseteq Op /\ rest' \in [Side -> SUBSET Path] BY <1>3, <1>5 DEF Stop
  <2> QED BY <1>5, <2>1, <2>2 DEF Stop, TypeOK, peopleVars, archiveVars
<1>6. CASE PublishFails BY <1>2, <1>3, <1>6 DEF PublishFails, TypeOK, Job, peopleVars, archiveVars
<1>7. CASE StartRun
  <2>1. run' \in 0 .. job.runs BY <1>2, <1>7 DEF StartRun, TypeOK, Job
  <2>2. rest' \in [Side -> SUBSET Path] BY <1>3, <1>7 DEF StartRun
  <2> QED BY <1>7, <2>1, <2>2 DEF StartRun, TypeOK, peopleVars, archiveVars
<1> QED BY <1>4, <1>5, <1>6, <1>7

(* The table the refresh publishes.                                        *)
Table == [p \in Path |-> IF p \in Conflicted THEN Absent ELSE snap["source"][p]]

LEMMA PublishTypes == ASSUME TypeOK, Publish, UNCHANGED job PROVE TypeOK'
<1>1. Outcome \in {"no", "full", "clean"} BY DEF Outcome
<1>2. archive' = Table /\ history' = [p \in Path |-> Rolled(p, Table[p])] BY DEF Publish, Table
<1>3. Table \in [Path -> Seen] BY DEF Table, TypeOK, Seen, Side
<1>4. \A p \in Path : Rolled(p, Table[p]) \in Seq(Content) BY RolledMakes
<1>5. history' \in [Path -> Seq(Content)] BY <1>2, <1>4
<1> QED BY <1>1, <1>2, <1>3, <1>5 DEF Publish, TypeOK, peopleVars

LEMMA TypeInit == Init => TypeOK
<1> SUFFICES ASSUME Init PROVE TypeOK OBVIOUS
<1>1. job \in Job BY JobAssumption DEF Init
<1>2. [p \in Path |-> << >>] \in [Path -> Seq(Content)] BY EmptySeq
<1>3. fs \in [Side -> [Path -> Content \cup {Absent}]] /\ snap \in [Side -> [Path -> Seen]]
  BY DEF Init, Nothing, Seen
<1>4. rest \in [Side -> SUBSET Path] /\ held \in [Side -> SUBSET (Path \X Content)]
  BY DEF Init, NoPaths
<1>5. run \in 0 .. job.runs /\ saves \in 0 .. job.saves /\ faults \in 0 .. job.faults
  BY <1>1 DEF Init, Job
<1> QED BY <1>2, <1>3, <1>4, <1>5 DEF Init, TypeOK

LEMMA TypeStep == TypeOK /\ [Next]_vars => TypeOK'
<1> SUFFICES ASSUME TypeOK, [Next]_vars PROVE TypeOK' OBVIOUS
<1>1. CASE UNCHANGED vars BY <1>1 DEF vars, TypeOK
<1>2. CASE Next
  <2>1. UNCHANGED job /\ (People \/ StartRun \/ Scan \/ Compare \/ RunAll \/ RunReviewed \/ Decline
          \/ Apply \/ EndApply \/ Stop \/ Publish \/ PublishFails)
    BY <1>2 DEF Next
  <2> QED BY <2>1, PeopleTypes, EndTypes, ScanTypes, CompareTypes, ReviewTypes, ApplyTypes, PublishTypes
<1> QED BY <1>1, <1>2

(* Every variable keeps its type, whatever the job and its surroundings.   *)
THEOREM TypeCorrect == Spec => []TypeOK
BY TypeInit, TypeStep, PTL DEF Spec

-----------------------------------------------------------------------------
(* Agreement: what the archive names, both roots have held.                *)

(***************************************************************************)
(* The jobs the promises of a two-way run are proved for. The rows are run *)
(* as they were planned; while a run is under way people edit at most the  *)
(* target; no directory fails to be listed; symlinks take no part. Without *)
(* any one of these TLC refutes NoSilentOverwrite or ArchiveIsAgreement    *)
(* (README, what the models found). None restrains a one-way job.          *)
(***************************************************************************)
Careful(j) ==
  j.mode = "sync" =>
    /\ ~j.desktop
    /\ j.writers \subseteq {"target"}
    /\ "unread" \notin j.trouble
    /\ j.contents \cap Links = {}
AllCareful == \A j \in Jobs : Careful(j)

\* A run under way has a number.
Started == pc # "idle" => run > 0
\* held keeps up with the roots.
HeldIsKnown == \A s \in Side, p \in Path : fs[s][p] # Absent => <<p, fs[s][p]>> \in held[s]
\* Where the job has no path, there is nothing.
Elsewhere == \A s \in Side : \A p \in Path \ Paths : fs[s][p] = Absent /\ snap[s][p] = Absent
NoLinks == \A s \in Side, p \in Path : fs[s][p] \notin Links /\ snap[s][p] \notin Links
\* Nobody edits the source of a run, so its snapshot stays true ...
SourceSeen == pc \in {"scan", "review", "refresh"} =>
  \A p \in Path \ rest["source"] : snap["source"][p] \in {fs["source"][p], Unreadable}
\* ... and the target's tells what the target has held.
TargetSeen == pc \in {"scan", "review"} =>
  \A p \in Path \ rest["target"] :
    snap["target"][p] \in Content => <<p, snap["target"][p]>> \in held["target"]

ArchiveAgrees ==
  archive # None => \A p \in Path : Own(p) /\ archive[p] \in Content => Agreed(p, archive[p])
HistoryAgrees == \A p \in Path : Own(p) => \A i \in DOMAIN history[p] : Agreed(p, history[p][i])

(***************************************************************************)
(* What the archive may take from the source once these operations have    *)
(* all gone through: what the target has held at that path (it is Settled) *)
(* or what an operation will bring there or take from there.               *)
(***************************************************************************)
Settled(p) == fs["source"][p] # Absent => <<p, fs["source"][p]>> \in held["target"]
Settles(op, p) ==
  \/ op.side = "source" /\ p \in {op.path, op.from}
  \/ op.side = "target" /\ op.act \in {"Copy", "Update"} /\ op.path = p
  \/ op.side = "target" /\ op.act = "Move" /\ op.path = p /\ op.want = fs["source"][p]
Covered(ops) ==
  \A p \in Path : Own(p) /\ p \notin Conflicted => Settled(p) \/ \E op \in ops : Settles(op, p)

\* An operation takes away no content of a person's but what both roots have
\* held, and the loser of a conflict.
Spares(op) ==
  \/ op.act = "Move" \/ IsConflictCopy(op.path)
  \/ snap[op.side][op.path] \in Content => Agreed(op.path, snap[op.side][op.path])
  \/ op = Push(op.side, op.path, Resolving)
Sound(op) ==
  /\ op.act # "Conflict" /\ op.path \in Paths /\ op.want \notin Links
  /\ op.act # "Move" => op.from = op.path
  /\ op.act = "Move" => op.want \in File /\ op.from # op.path
  /\ op.act = "Move" /\ op.side = "source" /\ Own(op.path) => <<op.path, op.want>> \in held["target"]
  /\ Spares(op)

Reviewing == pc = "review" => Covered(Executable(plan)) /\ \A op \in Executable(plan) : Sound(op)
Applying == pc = "apply" => (\A op \in todo : Sound(op)) /\ (~errors => Covered(todo))
Refreshing == pc = "refresh" => Covered({})

Quietly == Elsewhere /\ NoLinks /\ unread = {}
Observed == SourceSeen /\ TargetSeen
Planned == Reviewing /\ Applying /\ Refreshing
Agreement ==
  /\ Started /\ HeldIsKnown /\ ArchiveAgrees /\ HistoryAgrees
  /\ ~TwoWay => archive = None /\ pc # "refresh"
  /\ TwoWay => Quietly /\ Observed /\ Planned

-----------------------------------------------------------------------------
(* Steps that change nothing a conjunct reads.                             *)

LEMMA HeldGrows ==
  ASSUME TypeOK, NEW f \in [Side -> [Path -> Content \cup {Absent}]]
  PROVE  \A s \in Side : /\ held[s] \subseteq Holding(f)[s]
                         /\ \A p \in Path : f[s][p] # Absent => <<p, f[s][p]>> \in Holding(f)[s]
<1> DEFINE H(s) == {<<p, f[s][p]>> : p \in {q \in Path : f[s][q] # Absent}}
<1>1. Holding(f) = [s \in Side |-> held[s] \cup H(s)] BY DEF Holding
<1>2. \A s \in Side, p \in Path : f[s][p] # Absent => <<p, f[s][p]>> \in H(s) OBVIOUS
<1> HIDE DEF H
<1> QED BY <1>1, <1>2

LEMMA AgreedStays ==
  ASSUME \A s \in Side : held[s] \subseteq held'[s], NEW p, NEW c
  PROVE  Agreed(p, c) => Agreed(p, c)'
BY DEF Agreed

LEMMA SoundStays ==
  ASSUME \A s \in Side : held[s] \subseteq held'[s], UNCHANGED <<snap, job>>, NEW op, Sound(op)
  PROVE  Sound(op)'
<1>1. Spares(op)'
  <2>1. Agreed(op.path, snap[op.side][op.path]) => Agreed(op.path, snap[op.side][op.path])'
    BY DEF Agreed
  <2>2. op = Push(op.side, op.path, Resolving) => op = Push(op.side, op.path, Resolving)'
    BY DEF Push
  <2> QED BY <2>1, <2>2 DEF Sound, Spares, IsConflictCopy
<1>2. UNCHANGED Paths BY DEF Paths
<1>3. held["target"] \subseteq held'["target"] BY DEF Side
<1> QED BY <1>1, <1>2, <1>3 DEF Sound, Own, IsConflictCopy

LEMMA SettledStays ==
  ASSUME \A s \in Side : held[s] \subseteq held'[s], fs'["source"] = fs["source"], NEW p
  PROVE  (Settled(p) => Settled(p)') /\ \A op : Settles(op, p) => Settles(op, p)'
BY DEF Settled, Settles, Side

LEMMA CoveredStays ==
  ASSUME \A s \in Side : held[s] \subseteq held'[s], fs'["source"] = fs["source"], UNCHANGED plan,
         NEW ops, Covered(ops)
  PROVE  Covered(ops)'
<1>1. UNCHANGED Conflicted BY DEF Conflicted, Executable
<1>2. SUFFICES ASSUME NEW p \in Path, Own(p), p \notin Conflicted
               PROVE  Settled(p)' \/ \E op \in ops : Settles(op, p)'
  BY <1>1 DEF Covered, Own, IsConflictCopy
<1>3. Settled(p) \/ \E op \in ops : Settles(op, p) BY <1>2 DEF Covered
<1> QED BY <1>3, SettledStays

\* The conjuncts that look at the roots, the archive and the snapshots only.
Standing == Started /\ HeldIsKnown /\ ArchiveAgrees /\ HistoryAgrees /\ (TwoWay => Quietly)

LEMMA StandingStays ==
  ASSUME Standing, UNCHANGED <<job, fs, held, archiveVars, snap, unread>>, UNCHANGED run \/ pc' = "idle",
         pc = "idle" => pc' = "idle"
  PROVE  Standing'
<1>1. UNCHANGED Paths BY DEF Paths
<1>2. Started' BY DEF Standing, Started
<1>3. HeldIsKnown' BY DEF Standing, HeldIsKnown
<1>4. ArchiveAgrees' /\ HistoryAgrees'
  BY DEF Standing, ArchiveAgrees, HistoryAgrees, Agreed, archiveVars, Own, IsConflictCopy
<1>5. TwoWay' => Quietly' BY <1>1 DEF Standing, Quietly, Elsewhere, NoLinks, TwoWay
<1> QED BY <1>2, <1>3, <1>4, <1>5 DEF Standing

(* A step of people: they leave the source alone while a run is under way. *)
LEMMA EditAgrees ==
  ASSUME AllCareful, TypeOK, Agreement, UNCHANGED job, NEW s \in Side, NEW f \in [Side -> [Path -> Content \cup {Absent}]],
         Edited(f), MayEdit(s), f[Other(s)] = fs[Other(s)],
         \A p \in Path : f[s][p] = fs[s][p] \/ (p \in Paths /\ f[s][p] \in job.contents \cup {fs[s][q] : q \in Path} \cup {Absent})
  PROVE  Agreement'
<1>0. fs' = f /\ held' = Holding(f) /\ pc' = pc BY DEF Edited
<1>1. \A t \in Side : held[t] \subseteq held'[t] BY <1>0, HeldGrows
<1>2. HeldIsKnown' BY <1>0, HeldGrows DEF HeldIsKnown
<1>3. ArchiveAgrees' /\ HistoryAgrees' /\ Started'
  <2>1. \A p, c : Agreed(p, c) => Agreed(p, c)' BY <1>1, AgreedStays
  <2>2. UNCHANGED <<archive, history, run, pc>> BY DEF Edited, archiveVars
  <2> QED BY <2>1, <2>2 DEF Agreement, ArchiveAgrees, HistoryAgrees, Started, Own, IsConflictCopy
<1>4. ~TwoWay' => archive' = None /\ pc' # "refresh" BY DEF Agreement, TwoWay, Edited, archiveVars
<1>5. ASSUME TwoWay PROVE Quietly'
  <2>0. Quietly /\ job \in Jobs /\ Careful(job) BY <1>5 DEF Agreement, TypeOK, AllCareful
  <2>1. UNCHANGED <<snap, unread, Paths>> BY DEF Edited, Paths
  <2>2. \A t \in Side : t = s \/ t = Other(s) BY DEF Side, Other
  <2>3. job.contents \cap Links = {} /\ Absent \notin Links
    BY <1>5, <2>0, ContentAssumption DEF Careful, TwoWay
  <2>4. \A t \in Side, p \in Path : fs'[t][p] \notin Links
    BY <1>0, <2>0, <2>2, <2>3 DEF Quietly, NoLinks
  <2>5. \A t \in Side, p \in Path \ Paths : fs'[t][p] = Absent
    BY <1>0, <2>0, <2>2 DEF Quietly, Elsewhere
  <2> QED BY <2>0, <2>1, <2>4, <2>5 DEF Quietly, NoLinks, Elsewhere
<1>6. ASSUME TwoWay, pc = "idle" PROVE Observed' /\ Planned'
  BY <1>0, <1>6 DEF Observed, Planned, SourceSeen, TargetSeen, Reviewing, Applying, Refreshing
<1>7. ASSUME TwoWay, pc # "idle" PROVE Observed' /\ Planned'
  <2>0. Observed /\ Planned BY <1>7 DEF Agreement
  <2>1. s = "target"
    BY <1>7 DEF MayEdit, AllCareful, Careful, TwoWay, TypeOK
  <2>2. fs'["source"] = fs["source"] BY <1>0, <2>1 DEF Other
  <2>3. UNCHANGED <<snap, rest, plan, todo, errors>> BY DEF Edited
  <2>4. Observed' BY <1>0, <1>1, <2>0, <2>2, <2>3 DEF Observed, SourceSeen, TargetSeen, Side
  <2>5. \A op : Sound(op) => Sound(op)' BY <1>1, <2>3, SoundStays
  <2>6. \A ops : Covered(ops) => Covered(ops)' BY <1>1, <2>2, <2>3, CoveredStays
  <2>7. UNCHANGED Executable(plan) BY <2>3 DEF Executable
  <2>8. Reviewing' BY <1>0, <2>0, <2>5, <2>6, <2>7 DEF Planned, Reviewing
  <2>9. Applying' BY <1>0, <2>0, <2>3, <2>5, <2>6 DEF Planned, Applying
  <2>10. Refreshing' BY <1>0, <2>0, <2>6 DEF Planned, Refreshing
  <2> QED BY <2>4, <2>8, <2>9, <2>10 DEF Planned
<1> QED BY <1>2, <1>3, <1>4, <1>5, <1>6, <1>7 DEF Agreement, TwoWay

LEMMA PeopleAgree == ASSUME AllCareful, TypeOK, Agreement, People, UNCHANGED job PROVE Agreement'
<1>1. PICK s \in Side, p \in Paths :
        \/ \E c \in job.contents : Save(s, p, c)
        \/ Remove(s, p)
        \/ \E q \in Paths : Rename(s, p, q)
  BY DEF People
<1>2. Paths \subseteq Path /\ job.contents \subseteq Content BY PathsArePath, JobIsJob DEF Job
<1>3. fs \in [Side -> [Path -> Content \cup {Absent}]] /\ fs[s] \in [Path -> Content \cup {Absent}]
      /\ s # Other(s) /\ Other(s) \in Side
  BY Sides DEF TypeOK
<1> DEFINE Fits(f) == /\ f \in [Side -> [Path -> Content \cup {Absent}]]
                      /\ f[Other(s)] = fs[Other(s)]
                      /\ \A r \in Path : \/ f[s][r] = fs[s][r]
                                         \/ /\ r \in Paths
                                            /\ f[s][r] \in job.contents \cup {fs[s][q] : q \in Path} \cup {Absent}
<1>4. ASSUME NEW c \in job.contents, Save(s, p, c) PROVE Agreement'
  <2> DEFINE f == [fs EXCEPT ![s][p] = c]
  <2>1. Fits(f) BY <1>2, <1>3
  <2>2. Edited(f) /\ MayEdit(s) BY <1>4 DEF Save
  <2> HIDE DEF f
  <2> QED BY <2>1, <2>2, EditAgrees
<1>5. ASSUME Remove(s, p) PROVE Agreement'
  <2> DEFINE f == [fs EXCEPT ![s][p] = Absent]
  <2>1. Fits(f) BY <1>2, <1>3
  <2>2. Edited(f) /\ MayEdit(s) BY <1>5 DEF Remove
  <2> HIDE DEF f
  <2> QED BY <2>1, <2>2, EditAgrees
<1>6. ASSUME NEW q \in Paths, Rename(s, p, q) PROVE Agreement'
  <2> DEFINE f == [fs EXCEPT ![s][p] = Absent, ![s][q] = fs[s][p]]
  <2>1. p # q BY <1>6 DEF Rename
  <2>2. f[s] = [fs[s] EXCEPT ![p] = Absent, ![q] = fs[s][p]] /\ f[Other(s)] = fs[Other(s)]
        /\ f \in [Side -> [Path -> Content \cup {Absent}]]
    BY <1>2, <1>3
  <2>3. Edited(f) /\ MayEdit(s) BY <1>6 DEF Rename
  <2> HIDE DEF f
  <2>4. \A r \in Path : f[s][r] = IF r = q THEN fs[s][p] ELSE IF r = p THEN Absent ELSE fs[s][r]
    BY <1>2, <1>3, <2>1, <2>2
  <2>5. fs[s][p] \in {fs[s][r] : r \in Path} BY <1>2
  <2>6. Fits(f) BY <2>2, <2>4, <2>5
  <2> QED BY <2>3, <2>6, EditAgrees
<1> QED BY <1>1, <1>4, <1>5, <1>6

LEMMA StartAgrees == ASSUME TypeOK, Agreement, StartRun, UNCHANGED job PROVE Agreement'
<1>1. UNCHANGED <<fs, held, archive, history, snap, Paths>> /\ unread' = {}
  BY DEF StartRun, peopleVars, archiveVars, Paths
<1>2. pc' = "scan" /\ run' = run + 1 /\ rest' = AllPaths BY DEF StartRun
<1>3. Started' BY <1>2 DEF Started, TypeOK
<1>4. HeldIsKnown' /\ ArchiveAgrees' /\ HistoryAgrees'
  BY <1>1 DEF Agreement, HeldIsKnown, ArchiveAgrees, HistoryAgrees, Agreed, Own, IsConflictCopy
<1>5. ASSUME TwoWay PROVE Quietly' BY <1>1, <1>5 DEF Agreement, Quietly, Elsewhere, NoLinks
<1>6. ASSUME TwoWay PROVE Observed'
  <2>1. Elsewhere BY <1>6 DEF Agreement, Quietly
  <2>2. rest'["source"] = Paths /\ rest'["target"] = Paths BY <1>2 DEF AllPaths, Side
  <2>3. \A p \in Path \ Paths, s \in Side : fs'[s][p] = Absent /\ snap'[s][p] = Absent
    BY <1>1, <2>1 DEF Elsewhere
  <2> QED BY <2>2, <2>3, ContentAssumption DEF Observed, SourceSeen, TargetSeen, Side
<1>7. Planned' BY <1>2 DEF Planned, Reviewing, Applying, Refreshing
<1>8. ~TwoWay' => archive' = None /\ pc' # "refresh" BY <1>1, <1>2 DEF Agreement, TwoWay
<1> QED BY <1>3, <1>4, <1>5, <1>6, <1>7, <1>8 DEF Agreement, TwoWay

(* A scan of a path sees what is there, or cannot read it.                 *)
LEMMA ObserveAgrees ==
  ASSUME TypeOK, Agreement, UNCHANGED job, NEW s \in Side, NEW p \in rest[s], NEW seen, Observe(s, p, seen),
         pc \in {"scan", "refresh"},
         TwoWay => /\ unread' = unread
                   /\ seen = fs[s][p] \/ (seen = Unreadable /\ fs[s][p] \in Content)
  PROVE  Agreement'
<1>0. p \in Path BY DEF TypeOK
<1>1. UNCHANGED <<fs, held, archive, history, pc, run, plan, todo, errors, Paths>>
  BY DEF Observe, peopleVars, archiveVars, Paths
<1>2. /\ \A t \in Side, q \in Path : snap'[t][q] = IF t = s /\ q = p THEN seen ELSE snap[t][q]
      /\ \A t \in Side : rest'[t] = IF t = s THEN rest[t] \ {p} ELSE rest[t]
  <2>1. snap \in [Side -> [Path -> Seen]] /\ snap[s] \in [Path -> Seen] /\ rest \in [Side -> SUBSET Path]
    BY DEF TypeOK
  <2>2. snap' = [snap EXCEPT ![s] = [snap[s] EXCEPT ![p] = seen]] /\ rest' = [rest EXCEPT ![s] = rest[s] \ {p}]
    BY DEF Observe
  <2>3. \A t \in Side : snap'[t] = IF t = s THEN [snap[s] EXCEPT ![p] = seen] ELSE snap[t] BY <2>1, <2>2
  <2>4. \A q \in Path : [snap[s] EXCEPT ![p] = seen][q] = IF q = p THEN seen ELSE snap[s][q] BY <2>1
  <2> QED BY <2>1, <2>2, <2>3, <2>4
<1>3. Started' /\ HeldIsKnown' /\ ArchiveAgrees' /\ HistoryAgrees'
  BY <1>1 DEF Agreement, Started, HeldIsKnown, ArchiveAgrees, HistoryAgrees, Agreed, Own, IsConflictCopy
<1>4. ~TwoWay' => archive' = None /\ pc' # "refresh" BY <1>1 DEF Agreement, TwoWay
<1>5. ASSUME TwoWay PROVE Quietly'
  <2>1. Quietly BY <1>5 DEF Agreement
  <2>2. \A q \in Path \ Paths : fs[s][q] = Absent BY <2>1 DEF Quietly, Elsewhere
  <2>3. p \in Path \ Paths => seen = Absent BY <1>5, <2>2, ContentAssumption
  <2>4. seen \notin Links BY <1>0, <1>5, <2>1, ContentAssumption DEF Quietly, NoLinks
  <2>5. Elsewhere' BY <1>1, <1>2, <2>1, <2>3 DEF Quietly, Elsewhere
  <2>6. NoLinks' BY <1>1, <1>2, <2>1, <2>4 DEF Quietly, NoLinks
  <2> QED BY <1>5, <2>1, <2>5, <2>6 DEF Quietly
<1>6. ASSUME TwoWay PROVE Observed'
  <2>1. Observed /\ HeldIsKnown BY <1>5, <1>6 DEF Agreement
  <2>2. SourceSeen'
    <3> SUFFICES ASSUME NEW q \in Path \ rest'["source"]
                 PROVE  snap'["source"][q] \in {fs'["source"][q], Unreadable}
      BY <1>1 DEF SourceSeen
    <3>1. CASE s = "source" /\ q = p BY <1>1, <1>2, <1>6, <3>1
    <3>2. CASE ~(s = "source" /\ q = p)
      <4>1. q \notin rest["source"] /\ snap'["source"][q] = snap["source"][q] BY <1>2, <3>2 DEF Side
      <4> QED BY <1>1, <2>1, <4>1 DEF Observed, SourceSeen
    <3> QED BY <3>1, <3>2
  <2>3. TargetSeen'
    <3> SUFFICES ASSUME NEW q \in Path \ rest'["target"], pc' \in {"scan", "review"}, snap'["target"][q] \in Content
                 PROVE  <<q, snap'["target"][q]>> \in held'["target"]
      BY DEF TargetSeen
    <3>1. CASE s = "target" /\ q = p
      <4>1. seen = fs["target"][p] /\ snap'["target"][q] = seen /\ fs["target"][p] # Absent
        BY <1>0, <1>2, <1>6, <3>1, ContentAssumption
      <4> QED BY <1>0, <1>1, <2>1, <3>1, <4>1 DEF HeldIsKnown
    <3>2. CASE ~(s = "target" /\ q = p)
      <4>1. q \notin rest["target"] /\ snap'["target"][q] = snap["target"][q] BY <1>2, <3>2 DEF Side
      <4> QED BY <1>1, <2>1, <4>1 DEF Observed, TargetSeen
    <3> QED BY <3>1, <3>2
  <2> QED BY <2>2, <2>3 DEF Observed
<1>7. ASSUME TwoWay PROVE Planned'
  <2>1. Planned BY <1>7 DEF Agreement
  <2>2. Refreshing'
    <3>1. Covered({}) => Covered({})' BY <1>1, CoveredStays
    <3> QED BY <1>1, <2>1, <3>1 DEF Planned, Refreshing
  <2> QED BY <1>1, <2>2 DEF Planned, Reviewing, Applying
<1> QED BY <1>3, <1>4, <1>5, <1>6, <1>7 DEF Agreement, TwoWay

LEMMA ScanAgrees == ASSUME AllCareful, TypeOK, Agreement, Scan, UNCHANGED job PROVE Agreement'
<1>1. PICK s \in Side : ReadPath(s) \/ \E fault \in job.trouble : FailToRead(s, fault) BY DEF Scan
<1>2. CASE ReadPath(s)
  <2>1. /\ pc \in {"scan", "refresh"} /\ NextPath(s) \in rest[s] /\ unread' = unread
        /\ Observe(s, NextPath(s), fs[s][NextPath(s)])
    BY <1>2, NextPathIsLeft DEF ReadPath
  <2> QED BY <2>1, ObserveAgrees
<1>3. ASSUME NEW fault \in job.trouble, FailToRead(s, fault) PROVE Agreement'
  <2>1. pc \in {"scan", "refresh"} /\ NextPath(s) \in rest[s] BY <1>3, NextPathIsLeft DEF FailToRead
  <2>2. fault \in {"unread", "unreadable"} /\ (TwoWay => fault = "unreadable")
    BY JobIsJob DEF Job, AllCareful, Careful, TwoWay, TypeOK
  <2>3. CASE fault = "unread"
    <3>1. Observe(s, NextPath(s), Absent) BY <1>3, <2>3 DEF FailToRead
    <3> QED BY <2>1, <2>2, <2>3, <3>1, ObserveAgrees
  <2>4. CASE fault = "unreadable"
    <3>1. Observe(s, NextPath(s), Unreadable) /\ unread' = unread /\ fs[s][NextPath(s)] \in Content
      BY <1>3, <2>4 DEF FailToRead
    <3> QED BY <2>1, <3>1, ObserveAgrees
  <2> QED BY <2>2, <2>3, <2>4
<1> QED BY <1>1, <1>2, <1>3

-----------------------------------------------------------------------------
(* The comparison plans sound operations, and enough of them.              *)

\* What holds when a two-way comparison looks at its scans.
Ready ==
  /\ TypeOK /\ Agreement /\ TwoWay /\ pc = "scan" /\ rest = NoPaths

LEMMA ReadyKnows ==
  ASSUME Ready
  PROVE  /\ run > 0 /\ unread = {} /\ Elsewhere /\ NoLinks /\ HeldIsKnown /\ ArchiveAgrees /\ HistoryAgrees
         /\ \A p \in Path : snap["source"][p] \in {fs["source"][p], Unreadable}
         /\ \A p \in Path : snap["target"][p] \in Content => <<p, snap["target"][p]>> \in held["target"]
<1>1. rest["source"] = {} /\ rest["target"] = {} BY DEF Ready, NoPaths, Side
<1>2. SourceSeen /\ TargetSeen /\ pc = "scan" BY DEF Ready, Agreement, Observed
<1>3. \A p \in Path : snap["source"][p] \in {fs["source"][p], Unreadable} BY <1>1, <1>2 DEF SourceSeen
<1>4. \A p \in Path : snap["target"][p] \in Content => <<p, snap["target"][p]>> \in held["target"]
  BY <1>1, <1>2 DEF TargetSeen
<1>5. run > 0 BY <1>2 DEF Ready, Agreement, Started
<1> QED BY <1>3, <1>4, <1>5 DEF Ready, Agreement, Quietly

LEMMA FilesAre ==
  ASSUME Ready, NEW s \in Side, NEW p \in Path
  PROVE  /\ p \in FilesOf(snap[s]) <=> snap[s][p] # Absent
         /\ p \in FilesOf(snap[s]) => p \in Paths
         /\ p \notin LinksOf(snap[s])
         /\ snap[s][p] \in File \cup {Absent, Unreadable}
<1>1. unread = {} /\ Elsewhere /\ NoLinks /\ snap[s][p] \in Seen BY ReadyKnows DEF Ready, TypeOK
<1>2. snap[s][p] \notin Links BY <1>1 DEF NoLinks
<1>3. snap[s][p] \in File \cup {Absent, Unreadable} BY <1>1, <1>2 DEF File, Seen
<1>4. snap[s][p] # Absent => p \in Paths BY <1>1 DEF Elsewhere
<1> QED BY <1>1, <1>2, <1>3, <1>4, ContentAssumption DEF FilesOf, LinksOf, File

\* Content of a generation both roots have held.
LEMMA GenerationAgrees ==
  ASSUME Ready, NEW p \in Path, Own(p), NEW c \in Content, GenerationOf(c, p) # None
  PROVE  Agreed(p, c)
<1>1. p \in ArchiveFiles BY DEF GenerationOf
<1>2. archive # None /\ archive[p] \in (Content \ Links) \cup {Unreadable} BY <1>1, FilesAreSeen DEF ArchiveFiles
<1>3. CASE FilesEqual(c, archive[p]) BY <1>2, <1>3, ReadyKnows DEF ArchiveAgrees, FilesEqual
<1>4. CASE ~FilesEqual(c, archive[p])
  <2>1. PICK i \in DOMAIN history[p] : history[p][i] = c BY <1>1, <1>4 DEF GenerationOf
  <2> QED BY <2>1, ReadyKnows DEF HistoryAgrees
<1> QED BY <1>3, <1>4

LEMMA ArchivedAgrees ==
  ASSUME Ready, NEW p \in ArchiveFiles, Own(p), NEW c, FilesEqual(c, archive[p])
  PROVE  Agreed(p, c)
<1>1. archive # None /\ p \in Path BY FilesAreSeen DEF ArchiveFiles
<1> QED BY <1>1, ReadyKnows DEF ArchiveAgrees, FilesEqual, File

(* An update, copy or deletion at p is sound when it spares what is there. *)
LEMMA WriteIsSound ==
  ASSUME Ready, NEW s \in Side, NEW p \in Paths, NEW why,
         \/ IsConflictCopy(p) \/ why = Resolving
         \/ snap[s][p] \in Content => Agreed(p, snap[s][p])
  PROVE  /\ Sound(Push(s, p, why))
         /\ IsConflictCopy(p) \/ why # Resolving => Sound(Drop(s, p, why)) /\ Sound(Fill(s, p, why))
<1>1. Other(s) \in Side /\ p \in Path BY Sides, PathsArePath DEF Ready
<1>2. snap[Other(s)][p] \notin Links /\ Absent \notin Links /\ None \notin Links
  BY <1>1, ReadyKnows, ContentAssumption DEF NoLinks
<1>3. Evidence(snap[Other(s)][p]) \notin Links BY <1>2 DEF Evidence
<1> DEFINE w == Evidence(snap[Other(s)][p])
           u == Push(s, p, why)
           d == Drop(s, p, why)
           f == Fill(s, p, why)
<1>4. u.act = "Update" /\ u.path = p /\ u.from = p /\ u.side = s /\ u.want = w BY DEF Push, Act
<1>5. d.act = "Delete" /\ d.path = p /\ d.from = p /\ d.side = s /\ d.want = None BY DEF Drop, Act
<1>6. f.act = "Copy" /\ f.path = p /\ f.from = p /\ f.side = s /\ f.want = w BY DEF Fill, Act
<1>7. why = Resolving => u = Push(u.side, u.path, Resolving) BY <1>4
<1> HIDE DEF w, u, d, f
<1>8. Sound(u) BY <1>2, <1>3, <1>4, <1>7 DEF Sound, Spares, w
<1>9. IsConflictCopy(p) \/ why # Resolving => Sound(d) BY <1>2, <1>5 DEF Sound, Spares
<1>10. IsConflictCopy(p) \/ why # Resolving => Sound(f) BY <1>2, <1>3, <1>6 DEF Sound, Spares, w
<1> QED BY <1>8, <1>9, <1>10 DEF u, d, f

LEMMA RelocateIsSound ==
  ASSUME Ready, NEW s \in Side, NEW p \in Paths, NEW d, p # d, NEW c \in File, NEW why,
         s = "source" /\ Own(p) => <<p, c>> \in held["target"]
  PROVE  Sound(Relocate(s, d, p, c, why))
BY DEF Sound, Spares, Relocate, File

\* A side that lags behind the archive, or stands where the archive does, gets
\* what the other has.
LEMMA PushesLag ==
  ASSUME NEW p, NEW op \in TwoWayShared(p), op.act # "Conflict"
  PROVE  ~EvidenceMissing(p) /\ \E s \in Side, why \in Reasons \ {Resolving} :
           op = Push(s, p, why) /\ GenerationOf(snap[s][p], p) # None
<1> DEFINE sg == GenerationOf(snap["source"][p], p)
           tg == GenerationOf(snap["target"][p], p)
<1>1. \A why : Conflict(p, why).act = "Conflict" BY DEF Conflict, Act
<1>2. ~EvidenceMissing(p) BY <1>1 DEF TwoWayShared
<1> HIDE DEF sg, tg
<1>3. \/ op = Push("source", p, "target-changed") /\ sg # None
      \/ op = Push("target", p, "source-changed") /\ tg # None
      \/ op = Push("target", p, "target-behind-by-generations") /\ tg # None
      \/ op = Push("source", p, "source-behind-by-generations") /\ sg # None
  BY <1>1 DEF TwoWayShared, sg, tg
<1> QED BY <1>2, <1>3 DEF sg, tg, Side, Reasons, Resolving

LEMMA SharedIsSound ==
  ASSUME Ready, NEW p \in SourceFiles \cap TargetFiles, NEW op \in TwoWayShared(p), op.act # "Conflict"
  PROVE  Sound(op)
<1>1. PICK s \in Side, why \in Reasons \ {Resolving} :
        op = Push(s, p, why) /\ GenerationOf(snap[s][p], p) # None
  BY PushesLag
<1>2. p \in Path BY FilesAreSeen DEF SourceFiles
<1>3. p \in Paths BY <1>2, FilesAre DEF SourceFiles, Side
<1>4. Own(p) /\ snap[s][p] \in Content => Agreed(p, snap[s][p]) BY <1>1, <1>2, GenerationAgrees
<1> QED BY <1>1, <1>3, <1>4, WriteIsSound DEF Own

LEMMA ReplayIsSound ==
  ASSUME Ready, NEW s \in Side,
         NEW M \in Pairings(Other(s), AddedBeside(s), DeletedOn(Other(s))),
         NEW op \in Replay(s, AddedBeside(s), DeletedOn(Other(s)), M)
  PROVE  Sound(op)
<1>0. Other(s) \in Side /\ Other(Other(s)) = s BY Sides
<1>1. \A p \in AddedBeside(s) : p \in Paths /\ p \in Path /\ snap[s][p] \notin Content
  <2> SUFFICES ASSUME NEW p \in AddedBeside(s) PROVE p \in Paths /\ p \in Path /\ snap[s][p] \notin Content
    OBVIOUS
  <2>1. p \in FilesOf(snap[Other(s)]) /\ p \notin FilesOf(snap[s]) BY DEF AddedBeside, GoneFrom
  <2>2. p \in Path BY <2>1, FilesAreSeen
  <2>3. p \in Paths BY <1>0, <2>1, <2>2, FilesAre
  <2>4. snap[s][p] = Absent BY <2>1, <2>2, FilesAre
  <2> QED BY <2>2, <2>3, <2>4, ContentAssumption
<1>2. \A p \in DeletedOn(Other(s)) : /\ p \in Paths /\ p \in Path /\ p \in ArchiveFiles
                                     /\ p \in FilesOf(snap[s]) /\ FilesEqual(snap[s][p], archive[p])
  <2> SUFFICES ASSUME NEW p \in DeletedOn(Other(s))
               PROVE  /\ p \in Paths /\ p \in Path /\ p \in ArchiveFiles
                      /\ p \in FilesOf(snap[s]) /\ FilesEqual(snap[s][p], archive[p])
    OBVIOUS
  <2>1. p \in FilesOf(snap[s]) /\ p \in ArchiveFiles /\ FilesEqual(snap[s][p], archive[p])
    BY <1>0 DEF DeletedOn, GoneFrom
  <2>2. p \in Path BY <2>1, FilesAreSeen
  <2> QED BY <2>1, <2>2, FilesAre
<1>3. ASSUME NEW a \in AddedBeside(s), NEW d \in DeletedOn(Other(s)), Pairable(Other(s), a, d),
             op = Relocate(s, d, a, snap[Other(s)][a], "moved")
      PROVE  Sound(op)
  <2>1. a # d
    <3>1. a \notin FilesOf(snap[s]) BY DEF AddedBeside, GoneFrom
    <3> QED BY <1>2, <3>1
  <2>2. snap[Other(s)][a] \in File BY <1>3 DEF Pairable
  <2>3. s = "source" => <<a, snap[Other(s)][a]>> \in held["target"]
    <3>1. s = "source" => Other(s) = "target" BY DEF Other
    <3> QED BY <1>1, <2>2, <3>1, ReadyKnows DEF File
  <2> QED BY <1>1, <1>3, <2>1, <2>2, <2>3, RelocateIsSound
<1>4. ASSUME NEW p \in AddedBeside(s), op = Fill(s, p, "added") PROVE Sound(op)
  <2>1. "added" # Resolving BY DEF Resolving
  <2> QED BY <1>1, <1>4, <2>1, WriteIsSound
<1>5. ASSUME NEW p \in DeletedOn(Other(s)), op = Drop(s, p, "deleted") PROVE Sound(op)
  <2>1. "deleted" # Resolving BY DEF Resolving
  <2>2. Own(p) => Agreed(p, snap[s][p]) BY <1>2, ArchivedAgrees
  <2> QED BY <1>2, <1>5, <2>1, <2>2, WriteIsSound DEF Own
<1>6. \/ \E a \in AddedBeside(s), d \in DeletedOn(Other(s)) :
           /\ <<a, d>> \in M /\ Pairable(Other(s), a, d)
           /\ op = Relocate(s, d, a, snap[Other(s)][a], "moved")
      \/ \E p \in AddedBeside(s) : (\A m \in M : m[1] # p) /\ op = Fill(s, p, "added")
      \/ \E p \in DeletedOn(Other(s)) : (\A m \in M : m[2] # p) /\ op = Drop(s, p, "deleted")
  BY <1>0, ReplayMakes
<1> QED BY <1>3, <1>4, <1>5, <1>6

LEMMA LanesAreSound ==
  ASSUME Ready, NEW ops \in TwoWayPlans, NEW op \in ops \cup LinkOps, op.act # "Conflict"
  PROVE  Sound(op)
<1>1. LinkOps = {}
  <2>1. \A s \in Side : LinksOf(snap[s]) = {} BY FilesAre DEF LinksOf
  <2> QED BY <2>1, LinkMakes DEF Side
<1>2. PICK M \in Pairings("source", AddedBeside("target"), DeletedOn("source")),
           N \in Pairings("target", AddedBeside("source"), DeletedOn("target")) :
        \A o \in ops :
          \/ \E p \in SourceFiles \cap TargetFiles : o \in TwoWayShared(p)
          \/ \E p \in DeletedButChanged("source") \cup DeletedButChanged("target") :
               o = Conflict(p, "deleted-on-one-side-but-changed-on-the-other")
          \/ o \in Replay("target", AddedBeside("target"), DeletedOn("source"), M)
          \/ o \in Replay("source", AddedBeside("source"), DeletedOn("target"), N)
  BY TwoWayMakes
<1>3. \A p, why : Conflict(p, why).act = "Conflict" BY DEF Conflict, Act
<1>4. "source" \in Side /\ "target" \in Side /\ Other("source") = "target" /\ Other("target") = "source"
  BY DEF Side, Other
<1>5. op \in Replay("target", AddedBeside("target"), DeletedOn("source"), M) => Sound(op)
  BY <1>2, <1>4, ReplayIsSound
<1>6. op \in Replay("source", AddedBeside("source"), DeletedOn("target"), N) => Sound(op)
  BY <1>2, <1>4, ReplayIsSound
<1> QED BY <1>1, <1>2, <1>3, <1>5, <1>6, SharedIsSound

LEMMA PlanIsSound ==
  ASSUME Ready, NEW ops \in TwoWayPlans, NEW sourceLoses, NEW op \in Resolved(ops \cup LinkOps, sourceLoses),
         op.act # "Conflict"
  PROVE  Sound(op)
<1>0. TypeOK /\ ops \in (IF job.mode = "sync" THEN TwoWayPlans ELSE OneWayPlans) BY DEF Ready, TwoWay
<1>1. CASE op \in ops \cup LinkOps BY <1>1, LanesAreSound
<1>2. ASSUME NEW c \in ops \cup LinkOps, NEW s \in Side, Resolvable(c),
             \/ op = Push(s, c.path, Resolving)
             \/ /\ job.policy = "copy"
                /\ op = Relocate(s, c.path, Kept(c.path), snap[s][c.path], "conflict-loser-kept-as-copy")
      PROVE  Sound(op)
  <2> DEFINE p == c.path
  <2>1. p \in SourceFiles \cap TargetFiles /\ ~EvidenceMissing(p) BY <1>0, <1>2, ConflictsAreShared
  <2>2. Own(p) BY <1>2 DEF Resolvable, Own
  <2> HIDE DEF p
  <2>3. p \in Path /\ p \in FilesOf(snap[s]) BY <2>1, FilesAreSeen DEF SourceFiles, TargetFiles, Side
  <2>4. p \in Paths /\ snap[s][p] \in File
    <3>1. snap[s][p] # Unreadable BY <2>1 DEF EvidenceMissing, Side
    <3> QED BY <2>3, <3>1, FilesAre
  <2>5. Sound(Push(s, p, Resolving)) BY <2>4, WriteIsSound
  <2>6. job.policy = "copy" => Kept(p) \in Paths /\ Kept(p) # p /\ ~Own(Kept(p))
    <3>1. job.policy = "copy" => Kept(p) \in Paths BY <1>0, <2>3, <2>4, KeptIsPath
    <3>2. Kept(p).copy = run /\ run > 0 /\ ~(p.copy > 0) BY <2>2, ReadyKnows DEF Kept, Own, IsConflictCopy
    <3> QED BY <3>1, <3>2 DEF Own, IsConflictCopy
  <2>7. job.policy = "copy" => Sound(Relocate(s, p, Kept(p), snap[s][p], "conflict-loser-kept-as-copy"))
    BY <2>4, <2>6, RelocateIsSound
  <2> QED BY <1>2, <2>5, <2>7 DEF p
<1>3. ASSUME NEW s \in Side, NEW p \in Doomed(s), op = Drop(s, p, "conflict-copy-over-limit")
      PROVE  Sound(op)
  <2>1. p \in Path /\ IsConflictCopy(p) /\ snap[s][p] # Absent
    BY <1>0, DoomedAreThere, ContentAssumption DEF File
  <2>2. p \in Paths BY <2>1, ReadyKnows DEF Elsewhere
  <2> QED BY <1>3, <2>1, <2>2, WriteIsSound
<1>4. \/ op \in ops \cup LinkOps
      \/ /\ job.policy # "report"
         /\ \E c \in ops \cup LinkOps, s \in Side :
              /\ Resolvable(c)
              /\ \/ op = Push(s, c.path, Resolving)
                 \/ /\ job.policy = "copy"
                    /\ op = Relocate(s, c.path, Kept(c.path), snap[s][c.path], "conflict-loser-kept-as-copy")
      \/ /\ job.policy = "copy"
         /\ \E s \in Side : \E p \in Doomed(s) : op = Drop(s, p, "conflict-copy-over-limit")
  BY ResolvedMakes
<1> QED BY <1>1, <1>2, <1>3, <1>4

(* What becomes of a lane's row: it stays, or its conflict is resolved.    *)
LEMMA ResolvedKeeps ==
  ASSUME NEW ops, NEW sourceLoses, NEW c \in ops
  PROVE  IF Resolvable(c) /\ job.policy # "report"
         THEN Resolution(c, Loser(c.path, sourceLoses)) \subseteq Resolved(ops, sourceLoses)
         ELSE c \in Resolved(ops, sourceLoses)
<1> DEFINE resolvable == IF job.policy = "report" THEN {} ELSE {o \in ops : Resolvable(o)}
           L(o) == IF o.path \in sourceLoses THEN "source" ELSE "target"
           S == {Resolution(o, L(o)) : o \in resolvable}
           D == IF job.policy = "copy"
                THEN UNION {{Drop(s, p, "conflict-copy-over-limit") : p \in Doomed(s)} : s \in Side}
                ELSE {}
<1>1. Resolved(ops, sourceLoses) = (ops \ resolvable) \cup (UNION S) \cup D BY DEF Resolved
<1>2. c \in resolvable <=> Resolvable(c) /\ job.policy # "report" OBVIOUS
<1>3. c \in resolvable => Resolution(c, L(c)) \subseteq UNION S OBVIOUS
<1>4. L(c) \in Side BY DEF Side
<1>5. L(c) = Loser(c.path, sourceLoses) BY DEF Loser
<1> HIDE DEF resolvable, L, S, D
<1>6. (UNION S) \subseteq Resolved(ops, sourceLoses) BY <1>1
<1>7. c \notin resolvable => c \in Resolved(ops, sourceLoses) BY <1>1
<1> QED BY <1>2, <1>3, <1>4, <1>5, <1>6, <1>7

\* Conflicted and Covered, of a plan still to be adopted.
ConflictsOf(ops) == {op.path : op \in ops \ Executable(ops)}

LEMMA PlanCovers ==
  ASSUME Ready, NEW ops \in TwoWayPlans, NEW sourceLoses, NEW p \in Path, Own(p),
         p \notin ConflictsOf(Resolved(ops \cup LinkOps, sourceLoses))
  PROVE  Settled(p) \/ \E op \in Executable(Resolved(ops \cup LinkOps, sourceLoses)) : Settles(op, p)
<1> DEFINE all == Resolved(ops \cup LinkOps, sourceLoses)
           fine == Settled(p) \/ \E op \in Executable(all) : Settles(op, p)
<1> SUFFICES fine OBVIOUS
<1>0. "source" \in Side /\ "target" \in Side /\ Other("source") = "target" /\ Other("target") = "source"
  BY DEF Side, Other
<1>1. PICK M \in Pairings("source", AddedBeside("target"), DeletedOn("source")),
           N \in Pairings("target", AddedBeside("source"), DeletedOn("target")) :
        /\ \A q \in SourceFiles \cap TargetFiles : TwoWayShared(q) \subseteq ops
        /\ \A q \in DeletedButChanged("source") \cup DeletedButChanged("target") :
             Conflict(q, "deleted-on-one-side-but-changed-on-the-other") \in ops
        /\ Replay("target", AddedBeside("target"), DeletedOn("source"), M) \subseteq ops
  BY TwoWayMakes
<1>2. \A c \in ops : \/ c \in all
                     \/ Resolvable(c) /\ \E s \in Side : Resolution(c, s) \subseteq all
  BY ResolvedKeeps DEF Loser, Side
<1> HIDE DEF all
<1>3. \A q, why : Conflict(q, why).act = "Conflict" /\ Conflict(q, why).why = why /\ Conflict(q, why).path = q
  BY DEF Conflict, Act
<1>4. \A why : Conflict(p, why) \notin all
  <2>1. \A op \in all : op.act = "Conflict" => op.path \in ConflictsOf(all)
    BY DEF ConflictsOf, Executable
  <2>2. p \notin ConflictsOf(all) BY DEF all
  <2> QED BY <1>3, <2>1, <2>2
<1>5. \A why : \A s \in Side : /\ Push(s, p, why).act = "Update" /\ Push(s, p, why).side = s
                                 /\ Push(s, p, why).path = p
  BY DEF Push, Act
<1>6. ASSUME NEW s \in Side, NEW why, Push(s, p, why) \in all PROVE fine
  <2>1. Push(s, p, why) \in Executable(all) BY <1>5, <1>6 DEF Executable
  <2>2. Settles(Push(s, p, why), p) BY <1>5 DEF Settles, Side
  <2> QED BY <2>1, <2>2
<1>7. ASSUME NEW why, Conflict(p, why) \in ops PROVE fine
  <2>1. PICK s \in Side : Resolution(Conflict(p, why), s) \subseteq all BY <1>2, <1>4, <1>7
  <2>2. Push(s, p, Resolving) \in Resolution(Conflict(p, why), s) BY <1>3 DEF Resolution, Resolving
  <2> QED BY <1>6, <2>1, <2>2
<1>8. snap["source"][p] \in {fs["source"][p], Unreadable} BY ReadyKnows
<1>9. CASE fs["source"][p] = Absent BY <1>9 DEF Settled
<1>10. CASE fs["source"][p] # Absent /\ p \in TargetFiles
  <2>1. p \in SourceFiles BY <1>0, <1>8, <1>10, FilesAre, ContentAssumption DEF SourceFiles
  <2>2. TwoWayShared(p) \subseteq ops BY <1>1, <1>10, <2>1
  <2>3. CASE EvidenceMissing(p)
    <3>1. Conflict(p, "evidence-unavailable") \in ops BY <2>2, <2>3 DEF TwoWayShared
    <3> QED BY <1>7, <3>1
  <2>4. CASE ~EvidenceMissing(p) /\ FilesEqual(snap["source"][p], snap["target"][p])
    <3>1. snap["source"][p] = fs["source"][p] BY <1>8, <2>4 DEF EvidenceMissing
    <3>2. snap["target"][p] = fs["source"][p] /\ snap["target"][p] \in Content
      BY <2>4, <3>1 DEF FilesEqual, File
    <3> QED BY <3>2, ReadyKnows DEF Settled
  <2>5. CASE ~EvidenceMissing(p) /\ ~FilesEqual(snap["source"][p], snap["target"][p])
    <3>1. \/ \E why : Conflict(p, why) \in TwoWayShared(p)
          \/ \E why : \E s \in Side : Push(s, p, why) \in TwoWayShared(p)
      <4> DEFINE sg == GenerationOf(snap["source"][p], p)
                 tg == GenerationOf(snap["target"][p], p)
      <4>1. TwoWayShared(p) \in {{Conflict(p, "differs-no-archive")},
              {Conflict(p, "both-changed")}, {Push("source", p, "target-changed")},
              {Push("target", p, "source-changed")}, {Push("target", p, "target-behind-by-generations")},
              {Push("source", p, "source-behind-by-generations")}}
        <5> HIDE DEF sg, tg
        <5> QED BY <2>5 DEF TwoWayShared, sg, tg
      <4> QED BY <1>0, <4>1
    <3>2. CASE \E why : Conflict(p, why) \in TwoWayShared(p) BY <1>7, <2>2, <3>2
    <3>3. ASSUME NEW s \in Side, NEW why, Push(s, p, why) \in TwoWayShared(p) PROVE fine
      <4>1. ~Resolvable(Push(s, p, why)) BY <1>5 DEF Resolvable
      <4> QED BY <1>2, <1>6, <2>2, <3>3, <4>1
    <3> QED BY <3>1, <3>2, <3>3
  <2> QED BY <2>3, <2>4, <2>5
<1>11. CASE fs["source"][p] # Absent /\ p \notin TargetFiles
  <2>1. p \in GoneFrom("target")
    BY <1>0, <1>8, <1>11, FilesAre, ContentAssumption DEF GoneFrom, TargetFiles
  <2>2. CASE p \in DeletedOn("target")
    <3>1. p \in ArchiveFiles /\ FilesEqual(snap["source"][p], archive[p])
      BY <1>0, <2>2 DEF DeletedOn
    <3>2. Agreed(p, snap["source"][p]) /\ snap["source"][p] \in File
      BY <3>1, ArchivedAgrees DEF FilesEqual
    <3>3. snap["source"][p] = fs["source"][p] BY <1>8, <3>2, ContentAssumption DEF File
    <3> QED BY <1>0, <3>2, <3>3 DEF Settled, Agreed
  <2>3. CASE p \in DeletedButChanged("target") BY <1>1, <1>7, <2>3
  <2>4. CASE p \in AddedBeside("target")
    <3>1. \/ Fill("target", p, "added") \in Replay("target", AddedBeside("target"), DeletedOn("source"), M)
          \/ \E d \in DeletedOn("source") :
               /\ <<p, d>> \in M /\ Pairable(Other("target"), p, d)
               /\ Relocate("target", d, p, snap[Other("target")][p], "moved")
                    \in Replay("target", AddedBeside("target"), DeletedOn("source"), M)
      BY <1>0, <2>4, ReplayCovers
    <3>2. CASE Fill("target", p, "added") \in ops
      <4> DEFINE op == Fill("target", p, "added")
      <4>1. op.act = "Copy" /\ op.path = p /\ op.side = "target" BY DEF Fill, Act
      <4> HIDE DEF op
      <4>2. op \in all BY <1>2, <3>2, <4>1 DEF Resolvable, op
      <4> QED BY <4>1, <4>2 DEF Executable, Settles
    <3>3. ASSUME NEW d \in DeletedOn("source"), Pairable("source", p, d),
                 Relocate("target", d, p, snap["source"][p], "moved") \in ops
          PROVE  fine
      <4> DEFINE op == Relocate("target", d, p, snap["source"][p], "moved")
      <4>1. op.act = "Move" /\ op.path = p /\ op.side = "target" /\ op.want = snap["source"][p]
        BY DEF Relocate
      <4> HIDE DEF op
      <4>2. op \in all BY <1>2, <3>3, <4>1 DEF Resolvable, op
      <4>3. snap["source"][p] = fs["source"][p]
        BY <1>8, <3>3, ContentAssumption DEF Pairable, File
      <4> QED BY <4>1, <4>2, <4>3 DEF Executable, Settles
    <3> QED BY <1>0, <1>1, <3>1, <3>2, <3>3
  <2> QED BY <2>1, <2>2, <2>3, <2>4 DEF DeletedButChanged, AddedBeside
<1> QED BY <1>9, <1>10, <1>11

-----------------------------------------------------------------------------
(* The steps of a run preserve the agreement.                              *)

LEMMA CompareAgrees == ASSUME TypeOK, Agreement, Compare, UNCHANGED job PROVE Agreement'
<1>1. UNCHANGED <<fs, held, archive, history, snap, unread, run, rest, todo, errors>> /\ pc = "scan" /\ pc' = "review"
  BY DEF Compare, peopleVars, archiveVars
<1>2. Standing' BY <1>1, StandingStays DEF Agreement, Standing, archiveVars
<1>3. ~TwoWay' => archive' = None /\ pc' # "refresh" BY <1>1 DEF Agreement, TwoWay
<1>4. ASSUME TwoWay PROVE Observed'
  BY <1>1, <1>4 DEF Agreement, Observed, SourceSeen, TargetSeen
<1>5. ASSUME TwoWay PROVE Planned'
  <2>1. Ready BY <1>5 DEF Ready, Compare
  <2>2. PICK ops \in TwoWayPlans,
             sourceLoses \in (IF job.policy = "report" THEN {{}} ELSE SUBSET (SourceFiles \cap TargetFiles)) :
          plan' = Resolved(ops \cup LinkOps, sourceLoses)
    BY <1>5 DEF Compare, TwoWay
  <2> DEFINE all == Resolved(ops \cup LinkOps, sourceLoses)
  <2>3. \A op \in Executable(all) : Sound(op) BY <2>1, PlanIsSound DEF Executable
  <2>4. \A p \in Path : Own(p) /\ p \notin ConflictsOf(all) =>
          Settled(p) \/ \E op \in Executable(all) : Settles(op, p)
    BY <2>1, PlanCovers
  <2>5. plan' = all BY <2>2
  <2> HIDE DEF all
  <2>6. \A s \in Side : held[s] \subseteq held'[s] BY <1>1
  <2>7. \A op \in Executable(all) : Sound(op)' BY <1>1, <2>3, <2>6, SoundStays
  <2>8. \A p \in Path : /\ Settled(p) => Settled(p)'
                        /\ \A op : Settles(op, p) => Settles(op, p)'
    BY <1>1, <2>6, SettledStays
  <2>9. Conflicted' = ConflictsOf(all) /\ Executable(plan)' = Executable(all)
    BY <2>5 DEF Conflicted, ConflictsOf, Executable
  <2>10. \A p \in Path : Own(p) /\ p \notin Conflicted' =>
          Settled(p)' \/ \E op \in Executable(plan)' : Settles(op, p)'
    BY <2>4, <2>8, <2>9
  <2>11. Covered(Executable(plan))' BY <2>10 DEF Covered, Own, IsConflictCopy
  <2>12. Reviewing' BY <2>7, <2>9, <2>11 DEF Reviewing
  <2> QED BY <1>1, <2>12 DEF Planned, Applying, Refreshing
<1> QED BY <1>2, <1>3, <1>4, <1>5 DEF Agreement, Standing, TwoWay

LEMMA BeginAgrees ==
  ASSUME AllCareful, TypeOK, Agreement, RunAll \/ RunReviewed, UNCHANGED job
  PROVE  Agreement'
<1>1. PICK ops, whole : Begin(ops, whole) /\ (RunAll => ops = Executable(plan)) BY DEF RunAll, RunReviewed
<1>2. pc = "review" BY DEF RunAll, RunReviewed
<1>3. UNCHANGED <<fs, held, archive, history, snap, unread, run, plan>> /\ pc' \in {"apply", "idle"}
  BY <1>1 DEF Begin, peopleVars, archiveVars
<1>4. Standing' BY <1>2, <1>3, StandingStays DEF Agreement, Standing, archiveVars
<1>5. ~TwoWay' => archive' = None /\ pc' # "refresh" BY <1>3 DEF Agreement, TwoWay
<1>6. ASSUME TwoWay PROVE Observed' BY <1>3 DEF Observed, SourceSeen, TargetSeen
<1>7. ASSUME TwoWay PROVE Planned'
  <2>1. RunAll BY <1>7 DEF RunReviewed, AllCareful, Careful, TwoWay, TypeOK
  <2>2. pc' = "apply" => todo' = Executable(plan) BY <1>1, <2>1 DEF Begin
  <2>3. Covered(Executable(plan)) /\ \A op \in Executable(plan) : Sound(op)
    BY <1>2, <1>7 DEF Agreement, Planned, Reviewing
  <2>4. \A s \in Side : held[s] \subseteq held'[s] BY <1>3
  <2>5. PICK ops0 : ops0 = Executable(plan) OBVIOUS
  <2>6. Covered(ops0)' /\ \A op \in ops0 : Sound(op)'
    BY <1>3, <2>3, <2>4, <2>5, CoveredStays, SoundStays
  <2>7. Applying'
    <3>1. CASE pc' = "apply"
      <4>1. todo' = ops0 BY <2>2, <2>5, <3>1
      <4>2. Covered(todo)' BY <2>6, <4>1 DEF Covered
      <4> QED BY <2>6, <4>1, <4>2 DEF Applying
    <3> QED BY <3>1 DEF Applying
  <2> QED BY <1>3, <2>7 DEF Planned, Reviewing, Refreshing
<1> QED BY <1>4, <1>5, <1>6, <1>7 DEF Agreement, Standing, TwoWay

LEMMA HaltAgrees ==
  ASSUME TypeOK, Agreement, Decline \/ Stop \/ PublishFails, UNCHANGED job
  PROVE  Agreement'
<1>1. UNCHANGED <<fs, held, archive, history, snap, unread>> /\ pc' = "idle"
  BY DEF Decline, Stop, PublishFails, peopleVars, archiveVars
<1>2. Standing' BY <1>1, StandingStays DEF Agreement, Standing, archiveVars
<1>3. Observed' /\ Planned' BY <1>1 DEF Observed, SourceSeen, TargetSeen, Planned, Reviewing, Applying, Refreshing
<1> QED BY <1>1, <1>2, <1>3 DEF Agreement, Standing, TwoWay

(* An operation on the source leaves there what the target has held.       *)
LEMMA SourceSettles ==
  ASSUME TypeOK, Agreement, TwoWay, UNCHANGED job, NEW op \in todo, Do(op), Sound(op), op.side = "source",
         NEW p \in Path, Own(p), p \in {op.path, op.from}
  PROVE  Settled(p)'
<1>1. /\ op \in Op /\ op.path \in Path /\ op.from \in Path /\ GoesThrough(op)
      /\ fs' = [fs EXCEPT !["source"] = Result(op)] /\ held' = Holding(fs')
      /\ fs' \in [Side -> [Path -> Content \cup {Absent}]]
  BY DoIs
<1>2. fs'["source"] = Result(op) BY <1>1 DEF Side, TypeOK
<1>3. held["target"] \subseteq held'["target"] BY <1>1, HeldGrows DEF Side
<1>4. Other("source") = "target" /\ "target" \in Side BY DEF Other, Side
<1>5. CASE op.act = "Move"
  <2>1. op.want \in File /\ op.want \in {None, fs["source"][op.from]} BY <1>1, <1>5 DEF Sound, GoesThrough
  <2>2. op.want = fs["source"][op.from] BY <2>1, ContentAssumption DEF File
  <2>3. CASE p = op.path
    <3>1. fs'["source"][p] = op.want BY <1>1, <1>2, <1>5, <2>2, <2>3, ResultMakes
    <3>2. <<p, op.want>> \in held["target"] BY <1>5, <2>3 DEF Sound
    <3> QED BY <1>3, <3>1, <3>2 DEF Settled
  <2>4. CASE p # op.path
    <3>1. fs'["source"][p] = Absent BY <1>1, <1>2, <1>5, <2>4, ResultMakes
    <3> QED BY <3>1 DEF Settled
  <2> QED BY <2>3, <2>4
<1>6. CASE op.act = "Delete"
  <2>1. p = op.path BY <1>6 DEF Sound
  <2>2. fs'["source"][p] = Absent BY <1>1, <1>2, <1>6, <2>1, ResultMakes
  <2> QED BY <2>2 DEF Settled
<1>7. CASE op.act \notin {"Move", "Delete"}
  <2>1. p = op.path /\ op.want \notin Links BY <1>7 DEF Sound
  <2>2. fs'["source"][p] = fs["target"][p] BY <1>1, <1>2, <1>4, <1>7, <2>1, ResultMakes
  <2>3. fs["target"][p] # Absent => <<p, fs["target"][p]>> \in held["target"]
    BY <1>4 DEF Agreement, HeldIsKnown
  <2> QED BY <1>3, <2>2, <2>3 DEF Settled
<1> QED BY <1>5, <1>6, <1>7

(* An operation on the target brings there what it settles.                *)
LEMMA TargetSettles ==
  ASSUME TypeOK, Agreement, TwoWay, UNCHANGED job, NEW op \in todo, Do(op), Sound(op), op.side = "target",
         NEW p \in Path, Settles(op, p)
  PROVE  Settled(p)'
<1>1. /\ op \in Op /\ op.path \in Path /\ op.from \in Path /\ GoesThrough(op)
      /\ fs' = [fs EXCEPT !["target"] = Result(op)] /\ held' = Holding(fs')
      /\ fs' \in [Side -> [Path -> Content \cup {Absent}]]
  BY DoIs
<1>2. fs'["target"] = Result(op) /\ fs'["source"] = fs["source"] BY <1>1 DEF Side, TypeOK
<1>3. \A q \in Path : fs'["target"][q] # Absent => <<q, fs'["target"][q]>> \in held'["target"]
  BY <1>1, HeldGrows DEF Side
<1>4. Other("target") = "source" BY DEF Other
<1>5. p = op.path /\ op.want \notin Links BY DEF Settles, Sound
<1>6. fs'["target"][p] = fs["source"][p]
  <2>1. CASE op.act = "Move"
    <3>1. op.want \in File /\ op.want \in {None, fs["target"][op.from]} /\ op.want = fs["source"][p]
      BY <1>1, <2>1 DEF Sound, GoesThrough, Settles
    <3>2. fs["target"][op.from] = fs["source"][p] BY <3>1, ContentAssumption DEF File
    <3> QED BY <1>1, <1>2, <1>5, <2>1, <3>2, ResultMakes
  <2>2. CASE op.act # "Move"
    <3>1. op.act \in {"Copy", "Update"} BY <2>2 DEF Settles
    <3> QED BY <1>1, <1>2, <1>4, <1>5, <3>1, ResultMakes
  <2> QED BY <2>1, <2>2
<1> QED BY <1>2, <1>3, <1>6 DEF Settled

\* What an operation does not touch stays as it was.
LEMMA Untouched ==
  ASSUME TypeOK, NEW op \in todo, Do(op), NEW s \in Side, NEW p \in Path, s # op.side \/ p \notin {op.path, op.from},
         op.act # "Move" => op.from = op.path
  PROVE  fs'[s][p] = fs[s][p]
<1>1. op \in Op /\ op.side \in Side /\ fs' = [fs EXCEPT ![op.side] = Result(op)] BY DoIs
<1>2. CASE s # op.side BY <1>1, <1>2 DEF TypeOK
<1>3. CASE s = op.side
  <2>1. p # op.path /\ p # op.from BY <1>3
  <2>2. Result(op)[p] = fs[s][p] BY <1>1, <1>3, <2>1, ResultMakes
  <2> QED BY <1>1, <1>3, <2>2 DEF TypeOK
<1> QED BY <1>2, <1>3

LEMMA DoAgrees ==
  ASSUME TypeOK, Agreement, UNCHANGED job, NEW op \in todo, Do(op)
  PROVE  Agreement'
<1>1. /\ op \in Op /\ op.side \in Side /\ op.path \in Path /\ op.from \in Path /\ GoesThrough(op) /\ Other(op.side) \in Side
      /\ fs' = [fs EXCEPT ![op.side] = Result(op)] /\ held' = Holding(fs')
      /\ fs' \in [Side -> [Path -> Content \cup {Absent}]] /\ pc = "apply"
  BY DoIs
<1>2. UNCHANGED <<archive, history, pc, run, rest, snap, unread, plan, errors, Paths>> /\ todo' = todo \ {op}
  BY DEF Do, archiveVars, Paths
<1>3. \A s \in Side : /\ held[s] \subseteq held'[s]
                      /\ \A p \in Path : fs'[s][p] # Absent => <<p, fs'[s][p]>> \in held'[s]
  BY <1>1, HeldGrows
<1>4. HeldIsKnown' BY <1>3 DEF HeldIsKnown
<1>5. ArchiveAgrees' /\ HistoryAgrees' /\ Started'
  <2>1. \A p, c : Agreed(p, c) => Agreed(p, c)' BY <1>3, AgreedStays
  <2> QED BY <1>2, <2>1 DEF Agreement, ArchiveAgrees, HistoryAgrees, Started, Own, IsConflictCopy
<1>6. ~TwoWay' => archive' = None /\ pc' # "refresh" BY <1>2 DEF Agreement, TwoWay
<1>7. ASSUME TwoWay PROVE Quietly' /\ Observed' /\ Planned'
  <2>0. Quietly /\ Applying BY <1>7 DEF Agreement, Planned
  <2>1. Sound(op) BY <1>1, <2>0 DEF Applying
  <2>2. \A p \in Path : fs'[op.side][p] \in {fs[op.side][q] : q \in Path} \cup {fs[Other(op.side)][q] : q \in Path} \cup {Absent}
    <3>1. fs'[op.side] = Result(op) BY <1>1 DEF TypeOK
    <3>2. op.want \notin Links BY <2>1 DEF Sound
    <3> QED BY <1>1, <3>1, <3>2, ResultMakes
  <2>3. NoLinks'
    <3>1. \A s \in Side, p \in Path : fs[s][p] \notin Links BY <2>0 DEF Quietly, NoLinks
    <3>2. \A p \in Path : fs'[op.side][p] \notin Links BY <1>1, <2>2, <3>1, ContentAssumption
    <3>3. \A s \in Side : s # op.side => fs'[s] = fs[s] BY <1>1 DEF TypeOK
    <3> QED BY <1>2, <2>0, <3>1, <3>2, <3>3 DEF Quietly, NoLinks
  <2>4. Elsewhere'
    <3> SUFFICES ASSUME NEW s \in Side, NEW p \in Path \ Paths PROVE fs'[s][p] = Absent
      BY <1>2, <2>0 DEF Quietly, Elsewhere
    <3>1. fs[s][p] = Absent BY <2>0 DEF Quietly, Elsewhere
    <3>2. p # op.path BY <2>1 DEF Sound
    <3>3. CASE s # op.side \/ p # op.from BY <2>1, <3>1, <3>2, <3>3, Untouched DEF Sound
    <3>4. CASE s = op.side /\ p = op.from
      <4>1. op.act = "Move" BY <2>1, <3>2, <3>4 DEF Sound
      <4>2. Result(op)[p] = Absent BY <1>1, <3>2, <3>4, <4>1, ResultMakes
      <4> QED BY <1>1, <3>4, <4>2 DEF TypeOK
    <3> QED BY <3>3, <3>4
  <2>5. Observed' BY <1>1, <1>2 DEF Observed, SourceSeen, TargetSeen
  <2>6. \A o \in todo' : Sound(o)'
    <3>1. \A o : Sound(o) => Sound(o)' BY <1>2, <1>3, SoundStays
    <3> QED BY <1>1, <1>2, <2>0, <3>1 DEF Applying
  <2>7. ASSUME ~errors PROVE Covered(todo)'
    <3> SUFFICES ASSUME NEW p \in Path, Own(p), p \notin Conflicted
                 PROVE  Settled(p)' \/ \E o \in todo' : Settles(o, p)'
      BY <1>2 DEF Covered, Conflicted, Executable, Own, IsConflictCopy
    <3>1. Settled(p) \/ \E o \in todo : Settles(o, p) BY <1>1, <2>0, <2>7 DEF Applying, Covered
    <3>2. CASE op.side = "source" /\ p \in {op.path, op.from} BY <1>7, <2>1, <3>2, SourceSettles
    <3>3. CASE ~(op.side = "source" /\ p \in {op.path, op.from})
      <4>1. fs'["source"][p] = fs["source"][p] BY <2>1, <3>3, Untouched DEF Sound, Side
      <4>2. Settled(p) => Settled(p)' BY <1>3, <4>1 DEF Settled, Side
      <4>3. \A o : Settles(o, p) => Settles(o, p)' BY <4>1 DEF Settles
      <4>4. CASE Settles(op, p)
        <5>1. op.side = "target" BY <3>3, <4>4 DEF Settles
        <5> QED BY <1>7, <2>1, <4>4, <5>1, TargetSettles
      <4> QED BY <1>2, <3>1, <4>2, <4>3, <4>4
    <3> QED BY <3>2, <3>3
  <2>8. Planned' BY <1>1, <1>2, <2>6, <2>7 DEF Planned, Reviewing, Applying, Refreshing
  <2> QED BY <1>2, <2>0, <2>3, <2>4, <2>5, <2>8 DEF Quietly
<1> QED BY <1>4, <1>5, <1>6, <1>7 DEF Agreement, TwoWay

LEMMA FailAgrees ==
  ASSUME TypeOK, Agreement, UNCHANGED job, NEW op \in todo, Fail(op)
  PROVE  Agreement'
<1>1. UNCHANGED <<fs, held, archive, history, snap, unread, run, pc, plan, rest>> /\ todo' = todo \ {op}
      /\ errors' = TRUE /\ pc = "apply"
  BY DEF Fail, Due, peopleVars, archiveVars
<1>2. Standing' BY <1>1, StandingStays DEF Agreement, Standing, archiveVars
<1>3. ~TwoWay' => archive' = None /\ pc' # "refresh" BY <1>1 DEF Agreement, TwoWay
<1>4. ASSUME TwoWay PROVE Observed' /\ Planned'
  <2>1. \A s \in Side : held[s] \subseteq held'[s] BY <1>1
  <2>2. \A o : Sound(o) => Sound(o)' BY <1>1, <2>1, SoundStays
  <2>3. \A o \in todo : Sound(o) BY <1>1, <1>4 DEF Agreement, Planned, Applying
  <2> QED BY <1>1, <2>2, <2>3 DEF Observed, SourceSeen, TargetSeen, Planned, Reviewing, Applying, Refreshing
<1> QED BY <1>2, <1>3, <1>4 DEF Agreement, Standing, TwoWay

LEMMA EndAgrees == ASSUME TypeOK, Agreement, EndApply, UNCHANGED job PROVE Agreement'
<1>1. UNCHANGED <<fs, held, archive, history, snap, unread, run, plan, todo, errors, Paths>> /\ pc = "apply" /\ todo = {}
  BY DEF EndApply, peopleVars, archiveVars, Paths
<1>2. pc' \in {"idle", "refresh"} BY DEF EndApply
<1>3. /\ pc' = "refresh" => TwoWay /\ ~errors /\ rest' = [NoPaths EXCEPT !["source"] = Paths]
  BY DEF EndApply, TwoWay
<1>4. Standing' BY <1>1, StandingStays DEF Agreement, Standing, archiveVars
<1>5. ~TwoWay' => archive' = None /\ pc' # "refresh" BY <1>1, <1>3 DEF Agreement, TwoWay
<1>6. ASSUME TwoWay PROVE Observed'
  <2>1. CASE pc' = "refresh"
    <3>1. rest'["source"] = Paths BY <1>3, <2>1 DEF NoPaths, Side
    <3>2. \A p \in Path \ Paths : snap'["source"][p] = fs'["source"][p]
      BY <1>1, <1>6 DEF Agreement, Quietly, Elsewhere, Side
    <3> QED BY <1>1, <2>1, <3>1, <3>2 DEF Observed, SourceSeen, TargetSeen
  <2> QED BY <1>2, <2>1 DEF Observed, SourceSeen, TargetSeen
<1>7. ASSUME TwoWay PROVE Planned'
  <2>1. CASE pc' = "refresh"
    <3>1. Covered({}) BY <1>1, <1>3, <1>7, <2>1 DEF Agreement, Planned, Applying
    <3>2. Covered({})' BY <1>1, <3>1, CoveredStays
    <3> QED BY <2>1, <3>2 DEF Planned, Reviewing, Applying, Refreshing
  <2> QED BY <1>2, <2>1 DEF Planned, Reviewing, Applying, Refreshing
<1> QED BY <1>4, <1>5, <1>6, <1>7 DEF Agreement, Standing, TwoWay

LEMMA PublishAgrees == ASSUME TypeOK, Agreement, Publish, UNCHANGED job PROVE Agreement'
<1>1. UNCHANGED <<fs, held, snap, unread, run, plan, Paths>> /\ pc = "refresh" /\ pc' = "idle" /\ rest = NoPaths
  BY DEF Publish, peopleVars, Paths
<1>2. archive' = Table /\ history' = [p \in Path |-> Rolled(p, Table[p])] BY DEF Publish, Table
<1>3. TwoWay /\ TwoWay' /\ Planned /\ Observed BY <1>1 DEF Agreement, TwoWay
<1>4. ArchiveAgrees'
  <2> SUFFICES ASSUME NEW p \in Path, Own(p), Table[p] \in Content
               PROVE  Agreed(p, Table[p])
    BY <1>1, <1>2 DEF ArchiveAgrees, Own, IsConflictCopy, Agreed
  <2>1. p \notin Conflicted /\ Table[p] = snap["source"][p] BY ContentAssumption DEF Table
  <2>2. rest["source"] = {} BY <1>1 DEF NoPaths, Side
  <2>3. snap["source"][p] = fs["source"][p]
    BY <1>1, <1>3, <2>1, <2>2, ContentAssumption DEF Observed, SourceSeen
  <2>4. Settled(p) BY <1>1, <1>3, <2>1 DEF Planned, Refreshing, Covered
  <2>5. fs["source"][p] # Absent BY <2>1, <2>3, ContentAssumption
  <2>6. <<p, fs["source"][p]>> \in held["source"] BY <2>5 DEF Agreement, HeldIsKnown, Side
  <2> QED BY <2>1, <2>3, <2>4, <2>5, <2>6 DEF Agreed, Settled, Side
<1>5. HistoryAgrees'
  <2> SUFFICES ASSUME NEW p \in Path, Own(p), NEW i \in DOMAIN Rolled(p, Table[p])
               PROVE  Agreed(p, Rolled(p, Table[p])[i])
    BY <1>1, <1>2 DEF HistoryAgrees, Own, IsConflictCopy, Agreed
  <2>1. \/ \E k \in DOMAIN history[p] : Rolled(p, Table[p])[i] = history[p][k]
        \/ archive # None /\ archive[p] \in Content /\ Rolled(p, Table[p])[i] = archive[p]
    BY RolledMakes
  <2> QED BY <2>1 DEF Agreement, HistoryAgrees, ArchiveAgrees
<1>6. Started' /\ HeldIsKnown' BY <1>1 DEF Agreement, Started, HeldIsKnown
<1>7. Quietly' BY <1>1, <1>3 DEF Agreement, Quietly, Elsewhere, NoLinks
<1>8. Observed' /\ Planned' BY <1>1 DEF Observed, SourceSeen, TargetSeen, Planned, Reviewing, Applying, Refreshing
<1> QED BY <1>3, <1>4, <1>5, <1>6, <1>7, <1>8 DEF Agreement

LEMMA AgreementInit == Init => Agreement
<1> SUFFICES ASSUME Init PROVE Agreement OBVIOUS
<1>1. \A s \in Side, p \in Path : fs[s][p] = Absent /\ snap[s][p] = Absent BY DEF Init, Nothing
<1>2. Absent \notin Links BY ContentAssumption
<1>3. \A p \in Path : history[p] = << >> BY DEF Init
<1>4. DOMAIN << >> = {} OBVIOUS
<1>5. pc = "idle" /\ archive = None /\ unread = {} BY DEF Init
<1>6. Started /\ HeldIsKnown /\ ArchiveAgrees /\ HistoryAgrees
  BY <1>1, <1>3, <1>4, <1>5 DEF Started, HeldIsKnown, ArchiveAgrees, HistoryAgrees
<1>7. Quietly BY <1>1, <1>2, <1>5 DEF Quietly, Elsewhere, NoLinks
<1>8. Observed /\ Planned
  BY <1>5 DEF Observed, SourceSeen, TargetSeen, Planned, Reviewing, Applying, Refreshing
<1> QED BY <1>5, <1>6, <1>7, <1>8 DEF Agreement

LEMMA AgreementStep == ASSUME AllCareful, TypeOK, Agreement, [Next]_vars PROVE Agreement'
<1>1. CASE UNCHANGED vars
  <2>1. UNCHANGED <<job, fs, archive, history, pc, run, rest, snap, unread, plan, todo, errors, held>>
    BY <1>1 DEF vars
  <2>2. Standing' BY <2>1, StandingStays DEF Agreement, Standing, archiveVars
  <2>3. ~TwoWay' => archive' = None /\ pc' # "refresh" BY <2>1 DEF Agreement, TwoWay
  <2>4. ASSUME TwoWay PROVE Observed' BY <2>1, <2>4 DEF Agreement, Observed, SourceSeen, TargetSeen
  <2>5. ASSUME TwoWay PROVE Planned'
    <3>1. \A s \in Side : held[s] \subseteq held'[s] BY <2>1
    <3>2. \A o : Sound(o) => Sound(o)' BY <2>1, <3>1, SoundStays
    <3>3. \A ops : Covered(ops) => Covered(ops)' BY <2>1, <3>1, CoveredStays
    <3>4. UNCHANGED Executable(plan) BY <2>1 DEF Executable
    <3>5. Planned BY <2>5 DEF Agreement
    <3>6. Reviewing' BY <2>1, <3>2, <3>3, <3>4, <3>5 DEF Planned, Reviewing
    <3>7. Applying' BY <2>1, <3>2, <3>3, <3>5 DEF Planned, Applying
    <3>8. Refreshing' BY <2>1, <3>3, <3>5 DEF Planned, Refreshing
    <3> QED BY <3>6, <3>7, <3>8 DEF Planned
  <2> QED BY <2>1, <2>2, <2>3, <2>4, <2>5 DEF Agreement, Standing, TwoWay
<1>2. CASE Next
  <2>1. UNCHANGED job /\ (People \/ StartRun \/ Scan \/ Compare \/ RunAll \/ RunReviewed \/ Decline
          \/ Apply \/ EndApply \/ Stop \/ Publish \/ PublishFails)
    BY <1>2 DEF Next
  <2>2. CASE Apply BY <2>1, <2>2, DoAgrees, FailAgrees DEF Apply
  <2> QED BY <2>1, <2>2, PeopleAgree, StartAgrees, ScanAgrees, CompareAgrees, BeginAgrees, HaltAgrees,
         EndAgrees, PublishAgrees
<1> QED BY <1>1, <1>2

(* The archive of a two-way job names, at a file of a person's, only what  *)
(* both roots have held there: refresh publishes the source's state, and   *)
(* every path of it that is no reported conflict is settled by then.       *)
THEOREM ArchiveIsAgreed == ASSUME AllCareful PROVE Spec => []ArchiveIsAgreement
<1>1. Init => TypeOK /\ Agreement BY TypeInit, AgreementInit
<1>2. TypeOK /\ Agreement /\ [Next]_vars => (TypeOK /\ Agreement)' BY TypeStep, AgreementStep
<1>3. TypeOK /\ Agreement => ArchiveIsAgreement
  BY DEF Agreement, ArchiveAgrees, ArchiveIsAgreement, Own
<1> QED BY <1>1, <1>2, <1>3, PTL DEF Spec

\* A scan changes nothing but what it has seen.
LEMMA ScanLeaves ==
  ASSUME TypeOK, Scan
  PROVE  UNCHANGED <<fs, held, archive, history, saves, pc, run, plan, todo, errors>>
<1>1. PICK s \in Side : ReadPath(s) \/ \E fault \in job.trouble : FailToRead(s, fault) BY DEF Scan
<1>2. \A p, seen : Observe(s, p, seen) => UNCHANGED <<fs, held, archive, history, saves, pc, run, plan, todo, errors>>
  BY DEF Observe, peopleVars, archiveVars
<1>3. ASSUME NEW fault \in job.trouble, FailToRead(s, fault) PROVE \E p, seen : Observe(s, p, seen)
  <2>1. fault = "unread" \/ fault = "unreadable" BY JobIsJob DEF Job
  <2> QED BY <1>3, <2>1 DEF FailToRead
<1>4. ReadPath(s) => \E p, seen : Observe(s, p, seen) BY DEF ReadPath
<1> QED BY <1>1, <1>2, <1>3, <1>4

\* Of the steps that are not a person's, one operation at a time changes the roots.
LEMMA ChangesAreDone ==
  ASSUME TypeOK, [Next]_vars, saves' = saves, fs' # fs
  PROVE  \E op \in todo : Do(op)
<1>1. ~People
  <2> SUFFICES ASSUME People PROVE FALSE OBVIOUS
  <2>1. saves' = saves + 1 BY DEF People, Save, Remove, Rename, Edited
  <2> QED BY <2>1 DEF TypeOK
<1>2. Next BY DEF vars
<1>3. StartRun \/ Scan \/ Compare \/ RunAll \/ RunReviewed \/ Decline \/ Apply \/ EndApply \/ Stop \/ Publish \/ PublishFails
  BY <1>1, <1>2 DEF Next
<1>4. ~StartRun /\ ~Compare /\ ~Decline /\ ~EndApply /\ ~Stop /\ ~Publish /\ ~PublishFails
  BY DEF StartRun, Compare, Decline, EndApply, Stop, Publish, PublishFails, peopleVars
<1>5. ~RunAll /\ ~RunReviewed BY DEF RunAll, RunReviewed, Begin, peopleVars
<1>6. ~Scan BY ScanLeaves
<1>7. PICK op \in todo : Do(op) \/ Fail(op) BY <1>3, <1>4, <1>5, <1>6 DEF Apply
<1>8. ~Fail(op) BY DEF Fail, peopleVars
<1> QED BY <1>7, <1>8

LEMMA SilentStep ==
  ASSUME AllCareful, TypeOK, Agreement, [Next]_vars, NEW s \in Side, NEW p \in Path, TwoWay, Removes(s, p)
  PROVE  \/ Agreed(p, fs[s][p])
         \/ fs[s][p] # snap[s][p]
         \/ Push(s, p, "conflict-resolved-newer-wins") \in todo
         \/ IsConflictCopy(p)
<1>1. saves' = saves /\ fs[s][p] # Absent /\ fs'[s][p] # fs[s][p]
      /\ ~\E q \in Path : fs[s][q] = Absent /\ fs'[s][q] = fs[s][p]
  BY DEF Removes
<1>2. fs' # fs BY <1>1
<1>3. PICK op \in todo : Do(op) BY <1>1, <1>2, ChangesAreDone
<1>4. /\ op \in Op /\ op.side \in Side /\ op.path \in Path /\ op.from \in Path /\ GoesThrough(op)
      /\ fs' = [fs EXCEPT ![op.side] = Result(op)] /\ pc = "apply"
  BY <1>3, DoIs
<1>5. Sound(op) BY <1>4 DEF Agreement, Planned, Applying
<1>6. s = op.side /\ p \in {op.path, op.from} BY <1>1, <1>3, <1>5, Untouched DEF Sound
<1>7. fs'[s] = Result(op) BY <1>4, <1>6 DEF TypeOK
<1>8. op.act # "Move"
  <2> SUFFICES ASSUME op.act = "Move" PROVE FALSE OBVIOUS
  <2>1. fs[s][op.path] = Absent BY <1>4, <1>6 DEF GoesThrough
  <2>2. p = op.from BY <1>1, <1>6, <2>1
  <2>3. fs'[s][op.path] = fs[s][op.from] BY <1>4, <1>6, <1>7, ResultMakes
  <2> QED BY <1>1, <1>4, <2>1, <2>2, <2>3
<1>9. p = op.path BY <1>5, <1>6, <1>8 DEF Sound
<1>10. Spares(op) BY <1>5 DEF Sound
<1>11. fs[s][p] \in Content BY <1>1 DEF TypeOK
<1> QED BY <1>3, <1>6, <1>8, <1>9, <1>10, <1>11 DEF Spares, Resolving

(* A two-way run takes away no content of a person's but what both roots   *)
(* once agreed on, what was saved after the scan, and a conflict's loser.  *)
THEOREM NeverSilent == ASSUME AllCareful PROVE Spec => NoSilentOverwrite
<1>1. Init => TypeOK /\ Agreement BY TypeInit, AgreementInit
<1>2. TypeOK /\ Agreement /\ [Next]_vars => (TypeOK /\ Agreement)' BY TypeStep, AgreementStep
<1>3. TypeOK /\ Agreement /\ [Next]_vars =>
        [\A s \in Side, p \in Path :
           job.mode = "sync" /\ Removes(s, p) =>
             \/ Agreed(p, fs[s][p])
             \/ fs[s][p] # snap[s][p]
             \/ Push(s, p, "conflict-resolved-newer-wins") \in todo
             \/ IsConflictCopy(p)]_vars
  BY SilentStep DEF TwoWay
<1> QED BY <1>1, <1>2, <1>3, PTL DEF Spec, NoSilentOverwrite

-----------------------------------------------------------------------------
(* The second run finds nothing to do.                                     *)

\* The jobs of that promise: an enrich job takes its choice of the newer file
\* anew in each run (a desktop job is out of it).
Restful(j) == j.mode = "enrich" => j.desktop

Touched(op) == {op.path, op.from}
\* Once the operation has gone through, the two roots agree at p.
Heals(op, p) ==
  /\ op.act = "Delete" => fs[Other(op.side)][p] = Absent
  /\ op.act = "Move" => op.want \in File /\ fs[Other(op.side)][p] = IF p = op.path THEN op.want ELSE Absent
  /\ op.act \notin {"Delete", "Move"} /\ op.want \in Links => fs[Other(op.side)][p] = op.want
Sole(ops) == \A a, b \in ops : a # b => Touched(a) \cap Touched(b) = {}
Healing(ops) ==
  /\ \A op \in ops : \A p \in Touched(op) : Heals(op, p)
  /\ \A p \in Path : fs["source"][p] = fs["target"][p] \/ \E op \in ops : p \in Touched(op)

\* A job whose plan is all the difference there is, and a run of it nothing disturbs.
Idling == ~job.desktop /\ job.policy # "copy" /\ job.mode # "enrich"
Mirroring == Idling /\ ~TwoWay
Whole == Idling /\ quiet
WholePlan == Whole /\ plan = Executable(plan)
SameRoots == fs["source"] = fs["target"]
AsSeen == \A s \in Side : \A p \in Path \ rest[s] : snap[s][p] = fs[s][p]
Seeing == AsSeen /\ unread = {}

EndIsOpen == pc \in {"apply", "refresh"} => done = "no"
WholeSees == Whole /\ pc \in {"scan", "review"} => Seeing
WholePlans == WholePlan /\ pc = "review" /\ Valid(plan) => Sole(plan) /\ Healing(plan)
WholeApplies == WholePlan /\ pc = "apply" /\ ~errors => Sole(todo) /\ Healing(todo)
WholeEnds == WholePlan /\ pc = "refresh" /\ ~errors => SameRoots
CleanRests ==
  Idling /\ done = "clean" =>
    /\ SameRoots
    /\ pc \in {"scan", "review"} => Seeing
    /\ pc = "review" => Executable(plan) = {}
Rests == EndIsOpen /\ WholeSees /\ WholePlans /\ WholeApplies /\ WholeEnds /\ CleanRests

\* A mirror works where the job has paths.
InPlace(op) == Touched(op) \subseteq Paths /\ (op.act # "Move" => op.from = op.path)
Inside == Mirroring => Elsewhere /\ \A op \in plan \cup todo : InPlace(op)

(* Each path a replay touches is touched by one of its operations.         *)
LEMMA ReplaySole ==
  ASSUME NEW s \in Side, NEW adds, NEW dels, adds \cap dels = {}, NEW M \in Pairings(Other(s), adds, dels)
  PROVE  /\ \A op \in Replay(s, adds, dels, M) : Touched(op) \subseteq adds \cup dels
         /\ Sole(Replay(s, adds, dels, M))
<1>1. \A m \in M : m \in adds \X dels BY DEF Pairings
<1>2. \A m, n \in M : m # n => m[1] # n[1] /\ m[2] # n[2] BY DEF Pairings
<1> DEFINE IsMove(op, a, d) == <<a, d>> \in M /\ a \in adds /\ d \in dels
                               /\ op = Relocate(s, d, a, snap[Other(s)][a], "moved")
           IsFill(op, p) == p \in adds /\ (\A m \in M : m[1] # p) /\ op = Fill(s, p, "added")
           IsDrop(op, p) == p \in dels /\ (\A m \in M : m[2] # p) /\ op = Drop(s, p, "deleted")
<1>3. \A op \in Replay(s, adds, dels, M) : (\E a, d : IsMove(op, a, d)) \/ (\E p : IsFill(op, p)) \/ (\E p : IsDrop(op, p))
  <2> TAKE op \in Replay(s, adds, dels, M)
  <2>1. \/ \E a \in adds, d \in dels : /\ <<a, d>> \in M /\ Pairable(Other(s), a, d)
                                       /\ op = Relocate(s, d, a, snap[Other(s)][a], "moved")
        \/ \E p \in adds : (\A m \in M : m[1] # p) /\ op = Fill(s, p, "added")
        \/ \E p \in dels : (\A m \in M : m[2] # p) /\ op = Drop(s, p, "deleted")
    BY ReplayMakes
  <2> QED BY <2>1
<1>4. \A op, a, d : IsMove(op, a, d) => Touched(op) = {a, d} /\ a \in adds /\ d \in dels
  BY DEF Touched, Relocate
<1>5. \A op, p : IsFill(op, p) => Touched(op) = {p} /\ p \in adds BY DEF Touched, Fill, Act
<1>6. \A op, p : IsDrop(op, p) => Touched(op) = {p} /\ p \in dels BY DEF Touched, Drop, Act
<1>7. \A o1, o2, a, d, e, f : IsMove(o1, a, d) /\ IsMove(o2, e, f) /\ (a = e \/ d = f) => o1 = o2
  <2> SUFFICES ASSUME NEW o1, NEW o2, NEW a, NEW d, NEW e, NEW f, IsMove(o1, a, d), IsMove(o2, e, f), a = e \/ d = f
               PROVE  o1 = o2
    OBVIOUS
  <2>1. <<a, d>> = <<e, f>> BY <1>2
  <2>2. a = e /\ d = f BY <2>1
  <2> QED BY <2>2
<1>8. \A o1, o2, a, d, p : IsMove(o1, a, d) => ~(IsFill(o2, p) /\ p = a) /\ ~(IsDrop(o2, p) /\ p = d)
  <2> SUFFICES ASSUME NEW o1, NEW o2, NEW a, NEW d, NEW p, IsMove(o1, a, d)
               PROVE  ~(IsFill(o2, p) /\ p = a) /\ ~(IsDrop(o2, p) /\ p = d)
    OBVIOUS
  <2>1. <<a, d>> \in M /\ <<a, d>>[1] = a /\ <<a, d>>[2] = d OBVIOUS
  <2> QED BY <2>1
<1>9. \A o1, o2, p : (IsFill(o1, p) /\ IsFill(o2, p)) \/ (IsDrop(o1, p) /\ IsDrop(o2, p)) => o1 = o2
  OBVIOUS
<1> HIDE DEF IsMove, IsFill, IsDrop
<1>10. ASSUME NEW o1 \in Replay(s, adds, dels, M), NEW o2 \in Replay(s, adds, dels, M),
              NEW q, q \in Touched(o1), q \in Touched(o2)
       PROVE  o1 = o2
  <2>1. CASE \E a, d : IsMove(o1, a, d)
    <3>1. PICK a, d : IsMove(o1, a, d) BY <2>1
    <3>2. CASE \E e, f : IsMove(o2, e, f)
      <4>1. PICK e, f : IsMove(o2, e, f) BY <3>2
      <4>2. a = e \/ d = f BY <1>4, <1>10, <3>1, <4>1
      <4> QED BY <1>7, <3>1, <4>1, <4>2
    <3>3. CASE \E p : IsFill(o2, p) BY <1>4, <1>5, <1>8, <1>10, <3>1, <3>3
    <3>4. CASE \E p : IsDrop(o2, p) BY <1>4, <1>6, <1>8, <1>10, <3>1, <3>4
    <3> QED BY <1>3, <3>2, <3>3, <3>4
  <2>2. CASE \E p : IsFill(o1, p)
    <3>1. PICK p : IsFill(o1, p) BY <2>2
    <3>2. CASE \E a, d : IsMove(o2, a, d) BY <1>4, <1>5, <1>8, <1>10, <3>1, <3>2
    <3>3. CASE \E r : IsFill(o2, r) BY <1>5, <1>9, <1>10, <3>1, <3>3
    <3>4. CASE \E r : IsDrop(o2, r) BY <1>5, <1>6, <1>10, <3>1, <3>4
    <3> QED BY <1>3, <3>2, <3>3, <3>4
  <2>3. CASE \E p : IsDrop(o1, p)
    <3>1. PICK p : IsDrop(o1, p) BY <2>3
    <3>2. ASSUME NEW a, NEW d, IsMove(o2, a, d) PROVE FALSE
      <4>1. p = d BY <1>4, <1>6, <1>10, <3>1, <3>2
      <4> QED BY <1>8, <3>1, <3>2, <4>1
    <3>3. CASE \E r : IsFill(o2, r) BY <1>5, <1>6, <1>10, <3>1, <3>3
    <3>4. CASE \E r : IsDrop(o2, r) BY <1>6, <1>9, <1>10, <3>1, <3>4
    <3> QED BY <1>3, <3>2, <3>3, <3>4
  <2> QED BY <1>3, <2>1, <2>2, <2>3
<1>11. \A op \in Replay(s, adds, dels, M) : Touched(op) \subseteq adds \cup dels BY <1>3, <1>4, <1>5, <1>6
<1> QED BY <1>10, <1>11 DEF Sole

\* What a comparison of an undisturbed run knows.
Known == Ready /\ AsSeen

LEMMA KnownIs ==
  ASSUME Known
  PROVE  \A s \in Side, p \in Path :
           /\ snap[s][p] = fs[s][p] /\ snap[s][p] \in File \cup {Absent} /\ ~EvidenceMissing(p)
           /\ p \in FilesOf(snap[s]) <=> fs[s][p] # Absent
           /\ p \notin LinksOf(snap[s])
<1>1. \A s \in Side : rest[s] = {} BY DEF Known, Ready, NoPaths
<1>2. \A s \in Side, p \in Path : snap[s][p] = fs[s][p] BY <1>1 DEF Known, AsSeen
<1>3. \A s \in Side, p \in Path : snap[s][p] # Unreadable
  BY <1>2, ContentAssumption DEF Known, Ready, TypeOK
<1>4. \A p \in Path : ~EvidenceMissing(p) BY <1>3 DEF EvidenceMissing, Side
<1> QED BY <1>2, <1>3, <1>4, FilesAre DEF Known

(* Two roots that agree leave a comparison nothing to plan.                *)
LEMMA SamePlansNothing ==
  ASSUME Known, SameRoots, job.policy # "copy", NEW ops \in TwoWayPlans, NEW sourceLoses
  PROVE  Resolved(ops \cup LinkOps, sourceLoses) = {}
<1>1. \A s \in Side, p \in Path : fs[s][p] = fs[Other(s)][p] BY DEF SameRoots, Side, Other
<1>2. \A s \in Side : GoneFrom(s) = {}
  <2> SUFFICES ASSUME NEW s \in Side, NEW p \in GoneFrom(s) PROVE FALSE OBVIOUS
  <2>1. p \in FilesOf(snap[Other(s)]) /\ p \notin FilesOf(snap[s]) /\ Other(s) \in Side BY Sides DEF GoneFrom
  <2>2. p \in Path BY <2>1, FilesAreSeen
  <2> QED BY <1>1, <2>1, <2>2, KnownIs
<1>3. \A s \in Side : AddedBeside(s) = {} /\ DeletedOn(s) = {} /\ DeletedButChanged(s) = {} BY <1>2, Gone
<1>4. \A p \in SourceFiles \cap TargetFiles : TwoWayShared(p) = {}
  <2> TAKE p \in SourceFiles \cap TargetFiles
  <2>1. p \in Path BY FilesAreSeen DEF SourceFiles
  <2>2. fs["source"][p] # Absent BY <2>1, KnownIs DEF SourceFiles, Side
  <2>3. snap["source"][p] = snap["target"][p] /\ snap["source"][p] \in File /\ ~EvidenceMissing(p)
    BY <1>1, <2>1, <2>2, KnownIs DEF Side, Other
  <2> QED BY <2>3 DEF TwoWayShared, FilesEqual
<1>5. LinkOps = {}
  <2>1. \A s \in Side : LinksOf(snap[s]) = {} BY KnownIs DEF LinksOf
  <2> QED BY <2>1, LinkMakes DEF Side
<1>6. ops = {}
  <2>1. PICK M \in Pairings("source", AddedBeside("target"), DeletedOn("source")),
             N \in Pairings("target", AddedBeside("source"), DeletedOn("target")) :
          \A op \in ops :
            \/ \E p \in SourceFiles \cap TargetFiles : op \in TwoWayShared(p)
            \/ \E p \in DeletedButChanged("source") \cup DeletedButChanged("target") :
                 op = Conflict(p, "deleted-on-one-side-but-changed-on-the-other")
            \/ op \in Replay("target", AddedBeside("target"), DeletedOn("source"), M)
            \/ op \in Replay("source", AddedBeside("source"), DeletedOn("target"), N)
    BY TwoWayMakes
  <2>2. "source" \in Side /\ "target" \in Side BY DEF Side
  <2>3. M = {} /\ N = {} BY <1>3, <2>2 DEF Pairings
  <2>4. \A s \in Side : Replay(s, {}, {}, {}) = {} BY DEF Replay
  <2>5. Replay("target", AddedBeside("target"), DeletedOn("source"), M) = {} BY <1>3, <2>2, <2>3, <2>4
  <2>6. Replay("source", AddedBeside("source"), DeletedOn("target"), N) = {} BY <1>3, <2>2, <2>3, <2>4
  <2> QED BY <1>3, <1>4, <2>1, <2>2, <2>5, <2>6
<1> SUFFICES ASSUME NEW op \in Resolved(ops \cup LinkOps, sourceLoses) PROVE FALSE
  OBVIOUS
<1>7. ops \cup LinkOps = {} BY <1>5, <1>6
<1> QED BY <1>7, ResolvedMakes

(* Each operation of a replay brings the roots together where it touches.  *)
LEMMA ReplayHeals ==
  ASSUME NEW s \in Side, NEW adds, NEW dels, adds \cap dels = {}, NEW M \in Pairings(Other(s), adds, dels),
         \A a \in adds : snap[Other(s)][a] = fs[Other(s)][a] /\ snap[Other(s)][a] \in File,
         \A d \in dels : fs[Other(s)][d] = Absent,
         NEW op \in Replay(s, adds, dels, M), NEW p \in Touched(op)
  PROVE  Heals(op, p)
<1>1. ASSUME NEW a \in adds, NEW d \in dels, op = Relocate(s, d, a, snap[Other(s)][a], "moved")
      PROVE  Heals(op, p)
  <2>1. op.act = "Move" /\ op.side = s /\ op.path = a /\ op.from = d /\ op.want = snap[Other(s)][a]
    BY <1>1 DEF Relocate
  <2>2. p = a \/ p = d BY <2>1 DEF Touched
  <2>3. a # d OBVIOUS
  <2> QED BY <2>1, <2>2, <2>3 DEF Heals
<1>2. ASSUME NEW a \in adds, op = Fill(s, a, "added") PROVE Heals(op, p)
  <2>1. op.act = "Copy" /\ op.want = Evidence(snap[Other(s)][a]) BY <1>2 DEF Fill, Act
  <2>2. op.want \notin Links BY <2>1, ContentAssumption DEF Evidence, File
  <2> QED BY <2>1, <2>2 DEF Heals
<1>3. ASSUME NEW d \in dels, op = Drop(s, d, "deleted") PROVE Heals(op, p)
  <2>1. op.act = "Delete" /\ op.side = s /\ op.path = d /\ op.from = d BY <1>3 DEF Drop, Act
  <2>2. p = d BY <2>1 DEF Touched
  <2> QED BY <2>1, <2>2 DEF Heals
<1>4. \/ \E a \in adds, d \in dels : /\ <<a, d>> \in M /\ Pairable(Other(s), a, d)
                                     /\ op = Relocate(s, d, a, snap[Other(s)][a], "moved")
      \/ \E a \in adds : (\A m \in M : m[1] # a) /\ op = Fill(s, a, "added")
      \/ \E d \in dels : (\A m \in M : m[2] # d) /\ op = Drop(s, d, "deleted")
  BY ReplayMakes
<1> QED BY <1>1, <1>2, <1>3, <1>4

LEMMA ReplayTouches ==
  ASSUME NEW s \in Side, NEW adds, NEW dels, NEW M \in Pairings(Other(s), adds, dels), NEW p \in adds \cup dels
  PROVE  \E op \in Replay(s, adds, dels, M) : p \in Touched(op)
<1>1. CASE p \in adds
  <2>1. \/ Fill(s, p, "added") \in Replay(s, adds, dels, M)
        \/ \E d \in dels : Relocate(s, d, p, snap[Other(s)][p], "moved") \in Replay(s, adds, dels, M)
    BY <1>1, ReplayCovers
  <2>2. p \in Touched(Fill(s, p, "added")) /\ \A d : p \in Touched(Relocate(s, d, p, snap[Other(s)][p], "moved"))
    BY DEF Touched, Fill, Act, Relocate
  <2> QED BY <2>1, <2>2
<1>2. CASE p \in dels
  <2>1. \/ Drop(s, p, "deleted") \in Replay(s, adds, dels, M)
        \/ \E a \in adds : Relocate(s, p, a, snap[Other(s)][a], "moved") \in Replay(s, adds, dels, M)
    BY <1>2, ReplayCovers
  <2>2. p \in Touched(Drop(s, p, "deleted")) /\ \A a : p \in Touched(Relocate(s, p, a, snap[Other(s)][a], "moved"))
    BY DEF Touched, Drop, Act, Relocate
  <2> QED BY <2>1, <2>2
<1> QED BY <1>1, <1>2

(* A plan without conflicts touches each path once, and every difference.  *)
LEMMA PlanHeals ==
  ASSUME Known, job.policy # "copy", NEW ops \in TwoWayPlans, NEW sourceLoses, NEW all,
         all = Resolved(ops \cup LinkOps, sourceLoses), all = Executable(all)
  PROVE  Sole(all) /\ Healing(all)
<1>0. "source" \in Side /\ "target" \in Side /\ Other("source") = "target" /\ Other("target") = "source"
  BY DEF Side, Other
<1>1. PICK M \in Pairings("source", AddedBeside("target"), DeletedOn("source")),
           N \in Pairings("target", AddedBeside("source"), DeletedOn("target")) :
        /\ \A op \in ops :
             \/ \E p \in SourceFiles \cap TargetFiles : op \in TwoWayShared(p)
             \/ \E p \in DeletedButChanged("source") \cup DeletedButChanged("target") :
                  op = Conflict(p, "deleted-on-one-side-but-changed-on-the-other")
             \/ op \in Replay("target", AddedBeside("target"), DeletedOn("source"), M)
             \/ op \in Replay("source", AddedBeside("source"), DeletedOn("target"), N)
        /\ \A p \in SourceFiles \cap TargetFiles : TwoWayShared(p) \subseteq ops
        /\ \A p \in DeletedButChanged("source") \cup DeletedButChanged("target") :
             Conflict(p, "deleted-on-one-side-but-changed-on-the-other") \in ops
        /\ Replay("target", AddedBeside("target"), DeletedOn("source"), M) \subseteq ops
        /\ Replay("source", AddedBeside("source"), DeletedOn("target"), N) \subseteq ops
  BY TwoWayMakes
<1> DEFINE shared == SourceFiles \cap TargetFiles
           R == Replay("target", AddedBeside("target"), DeletedOn("source"), M)
           Q == Replay("source", AddedBeside("source"), DeletedOn("target"), N)
           RPaths == AddedBeside("target") \cup DeletedOn("source")
           QPaths == AddedBeside("source") \cup DeletedOn("target")
           Updates(op, p) == /\ p \in shared
                             /\ \E c \in TwoWayShared(p) :
                                  \/ c.act # "Conflict" /\ op = c
                                  \/ c.act = "Conflict" /\ op = Push(Loser(p, sourceLoses), p, Resolving)
<1>2. \A p, why : Conflict(p, why).act = "Conflict" /\ Conflict(p, why).why = why /\ Conflict(p, why).path = p
  BY DEF Conflict, Act
<1>3. \A op \in all : op.act # "Conflict" BY DEF Executable
<1>4. LinkOps = {}
  <2>1. \A s \in Side : LinksOf(snap[s]) = {} BY KnownIs DEF LinksOf
  <2> QED BY <2>1, LinkMakes DEF Side
<1>5. \A op \in R \cup Q : op.act \in {"Move", "Copy", "Delete"} BY <1>0, <1>1, ReplayActs
<1>6. R \cup Q \subseteq all
  <2>1. \A op \in R \cup Q : op \in ops \cup LinkOps /\ ~Resolvable(op) BY <1>1, <1>5 DEF Resolvable
  <2> QED BY <2>1, ResolvedKeeps
<1>7. \A p \in shared : \A c \in TwoWayShared(p) : c.act = "Conflict" => Push(Loser(p, sourceLoses), p, Resolving) \in all
  <2> SUFFICES ASSUME NEW p \in shared, NEW c \in TwoWayShared(p), c.act = "Conflict"
               PROVE  Push(Loser(p, sourceLoses), p, Resolving) \in all
    OBVIOUS
  <2>1. c \in ops \cup LinkOps /\ c \notin all BY <1>1, <1>3
  <2>2. Resolution(c, Loser(c.path, sourceLoses)) \subseteq all BY <2>1, ResolvedKeeps
  <2>3. c.path = p BY SharedPaths
  <2> QED BY <2>2, <2>3 DEF Resolution, Resolving
<1>8. \A p \in shared : \A c \in TwoWayShared(p) : c.act # "Conflict" => c \in all
  <2> SUFFICES ASSUME NEW p \in shared, NEW c \in TwoWayShared(p), c.act # "Conflict" PROVE c \in all
    OBVIOUS
  <2>1. c \in ops \cup LinkOps /\ ~Resolvable(c) BY <1>1 DEF Resolvable
  <2> QED BY <2>1, ResolvedKeeps
<1>9. \A s \in Side : DeletedButChanged(s) = {}
  <2> SUFFICES ASSUME NEW s \in Side, NEW p \in DeletedButChanged(s) PROVE FALSE OBVIOUS
  <2> DEFINE c == Conflict(p, "deleted-on-one-side-but-changed-on-the-other")
  <2>1. c \in ops \cup LinkOps BY <1>1 DEF Side
  <2>2. c.act = "Conflict" /\ c.why = "deleted-on-one-side-but-changed-on-the-other" BY <1>2
  <2> HIDE DEF c
  <2>3. ~Resolvable(c) BY <2>2 DEF Resolvable
  <2>4. c \in all BY <2>1, <2>3, ResolvedKeeps
  <2> QED BY <1>3, <2>2, <2>4
<1>10. \A op \in all : (\E p : Updates(op, p)) \/ op \in R \/ op \in Q
  <2> SUFFICES ASSUME NEW op \in all PROVE (\E p : Updates(op, p)) \/ op \in R \/ op \in Q OBVIOUS
  <2>1. \/ op \in ops \cup LinkOps
        \/ \E c \in ops \cup LinkOps, s \in Side :
             /\ Resolvable(c) /\ s = Loser(c.path, sourceLoses)
             /\ op = Push(s, c.path, Resolving)
    BY ResolvedMakes
  <2>2. CASE op \in ops \cup LinkOps
    <3>1. op \in ops /\ op.act # "Conflict" BY <1>3, <1>4, <2>2
    <3> QED BY <1>1, <1>9, <1>0, <3>1
  <2>3. ASSUME NEW c \in ops \cup LinkOps, Resolvable(c), op = Push(Loser(c.path, sourceLoses), c.path, Resolving)
        PROVE  \E p : Updates(op, p)
    <3>1. TypeOK /\ ops \in (IF job.mode = "sync" THEN TwoWayPlans ELSE OneWayPlans) BY DEF Known, Ready, TwoWay
    <3>2. c.path \in shared /\ c \in TwoWayShared(c.path) BY <2>3, <3>1, ConflictsAreShared
    <3>3. c.act = "Conflict" BY <2>3 DEF Resolvable
    <3> QED BY <2>3, <3>2, <3>3
  <2> QED BY <2>1, <2>2, <2>3
<1>11. \A op, p : Updates(op, p) => Touched(op) = {p} /\ op.act = "Update"
  <2> SUFFICES ASSUME NEW op, NEW p, Updates(op, p) PROVE Touched(op) = {p} /\ op.act = "Update"
    OBVIOUS
  <2>1. PICK c \in TwoWayShared(p) : \/ c.act # "Conflict" /\ op = c
                                     \/ c.act = "Conflict" /\ op = Push(Loser(p, sourceLoses), p, Resolving)
    OBVIOUS
  <2>2. c.path = p /\ c.from = p /\ c.act \in {"Conflict", "Update"} BY SharedPaths
  <2> QED BY <2>1, <2>2 DEF Touched, Push, Act
<1>11a. \A op, p : Updates(op, p) => op.want \notin Links
  <2> SUFFICES ASSUME NEW op, NEW p, Updates(op, p) PROVE op.want \notin Links
    OBVIOUS
  <2>1. PICK c \in TwoWayShared(p) : \/ c.act # "Conflict" /\ op = c
                                     \/ c.act = "Conflict" /\ op = Push(Loser(p, sourceLoses), p, Resolving)
    OBVIOUS
  <2>2. \E s \in Side : \E why : op = Push(s, p, why) BY <1>0, <2>1, PushesLag DEF Loser
  <2>3. PICK s \in Side : \E why : op = Push(s, p, why) BY <2>2
  <2>4. op.want = Evidence(snap[Other(s)][p]) BY <2>3 DEF Push, Act
  <2>5. Other(s) \in Side /\ p \in Path BY Sides, FilesAreSeen DEF SourceFiles
  <2>6. snap[Other(s)][p] \in File \cup {Absent} BY <2>5, KnownIs
  <2> QED BY <2>4, <2>6, ContentAssumption DEF Evidence, File
<1>12. \A o1, o2, p : Updates(o1, p) /\ Updates(o2, p) => o1 = o2
  <2>1. \A p : \A c, d \in TwoWayShared(p) : c = d BY SharedMakes
  <2> QED BY <2>1
<1>13. RPaths \cap QPaths = {} /\ RPaths \cap shared = {} /\ QPaths \cap shared = {}
       /\ AddedBeside("target") \cap DeletedOn("source") = {} /\ AddedBeside("source") \cap DeletedOn("target") = {}
  BY <1>0 DEF AddedBeside, DeletedOn, GoneFrom, SourceFiles, TargetFiles
<1>14. /\ \A op \in R : Touched(op) \subseteq RPaths
       /\ Sole(R)
       /\ \A op \in Q : Touched(op) \subseteq QPaths
       /\ Sole(Q)
  BY <1>0, <1>1, <1>13, ReplaySole
<1>15. \A op, p : Updates(op, p) => p \in shared OBVIOUS
<1>16. \A p \in shared : TwoWayShared(p) # {} => \E op \in all : Updates(op, p) BY <1>7, <1>8
<1> HIDE DEF Updates, R, Q, RPaths, QPaths, shared
<1>17. Sole(all)
  <2> SUFFICES ASSUME NEW o1 \in all, NEW o2 \in all, NEW q, q \in Touched(o1), q \in Touched(o2)
               PROVE  o1 = o2
    BY DEF Sole
  <2>1. CASE \E p : Updates(o1, p)
    <3>1. PICK p : Updates(o1, p) BY <2>1
    <3>2. q = p /\ p \in shared BY <1>11, <1>15, <3>1
    <3>3. o2 \notin R /\ o2 \notin Q BY <1>13, <1>14, <3>2
    <3>4. PICK r : Updates(o2, r) BY <1>10, <3>3
    <3>5. r = p BY <1>11, <3>2, <3>4
    <3> QED BY <1>12, <3>1, <3>4, <3>5
  <2>2. CASE o1 \in R
    <3>1. q \in RPaths BY <1>14, <2>2
    <3>2. o2 \notin Q BY <1>13, <1>14, <3>1
    <3>3. ~\E r : Updates(o2, r) BY <1>11, <1>13, <1>15, <3>1
    <3>4. o2 \in R BY <1>10, <3>2, <3>3
    <3> QED BY <1>14, <2>2, <3>4 DEF Sole
  <2>3. CASE o1 \in Q
    <3>1. q \in QPaths BY <1>14, <2>3
    <3>2. o2 \notin R BY <1>13, <1>14, <3>1
    <3>3. ~\E r : Updates(o2, r) BY <1>11, <1>13, <1>15, <3>1
    <3>4. o2 \in Q BY <1>10, <3>2, <3>3
    <3> QED BY <1>14, <2>3, <3>4 DEF Sole
  <2> QED BY <1>10, <2>1, <2>2, <2>3
<1>18. \A op \in all : \A p \in Touched(op) : Heals(op, p)
  <2> SUFFICES ASSUME NEW op \in all, NEW p \in Touched(op) PROVE Heals(op, p) OBVIOUS
  <2>1. CASE \E r : Updates(op, r) BY <1>11, <1>11a, <2>1 DEF Heals
  <2>2. \A s \in Side : /\ \A a \in AddedBeside(s) : snap[Other(s)][a] = fs[Other(s)][a] /\ snap[Other(s)][a] \in File
                        /\ \A d \in DeletedOn(Other(s)) : fs[Other(s)][d] = Absent
    <3> SUFFICES ASSUME NEW s \in Side
                 PROVE  /\ \A a \in AddedBeside(s) : snap[Other(s)][a] = fs[Other(s)][a] /\ snap[Other(s)][a] \in File
                        /\ \A d \in DeletedOn(Other(s)) : fs[Other(s)][d] = Absent
      OBVIOUS
    <3>1. Other(s) \in Side /\ Other(Other(s)) = s BY Sides
    <3>2. \A a \in AddedBeside(s) : a \in FilesOf(snap[Other(s)]) /\ a \in Path
      BY FilesAreSeen DEF AddedBeside, GoneFrom
    <3>3. \A d \in DeletedOn(Other(s)) : d \notin FilesOf(snap[Other(s)]) /\ d \in Path
      BY <3>1, FilesAreSeen DEF DeletedOn, GoneFrom
    <3> QED BY <3>1, <3>2, <3>3, KnownIs
  <2>3. CASE op \in R
    <3>1. /\ \A a \in AddedBeside("target") : snap["source"][a] = fs["source"][a] /\ snap["source"][a] \in File
          /\ \A d \in DeletedOn("source") : fs["source"][d] = Absent
      BY <1>0, <2>2
    <3> QED BY <1>0, <1>1, <1>13, <2>3, <3>1, ReplayHeals DEF R
  <2>4. CASE op \in Q
    <3>1. /\ \A a \in AddedBeside("source") : snap["target"][a] = fs["target"][a] /\ snap["target"][a] \in File
          /\ \A d \in DeletedOn("target") : fs["target"][d] = Absent
      BY <1>0, <2>2
    <3> QED BY <1>0, <1>1, <1>13, <2>4, <3>1, ReplayHeals DEF Q
  <2> QED BY <1>10, <2>1, <2>3, <2>4
<1>19. \A p \in Path : fs["source"][p] = fs["target"][p] \/ \E op \in all : p \in Touched(op)
  <2> SUFFICES ASSUME NEW p \in Path, fs["source"][p] # fs["target"][p] PROVE \E op \in all : p \in Touched(op)
    OBVIOUS
  <2>1. \A s \in Side : /\ snap[s][p] = fs[s][p] /\ ~EvidenceMissing(p)
                        /\ p \in FilesOf(snap[s]) <=> fs[s][p] # Absent
    BY KnownIs
  <2>2. CASE p \in shared
    <3>1. TwoWayShared(p) # {}
      <4>1. ~EvidenceMissing(p) /\ ~FilesEqual(snap["source"][p], snap["target"][p])
        BY <1>0, <2>1 DEF FilesEqual
      <4> QED BY <4>1 DEF TwoWayShared
    <3>2. PICK op \in all : Updates(op, p) BY <1>16, <2>2, <3>1
    <3> QED BY <1>11, <3>2
  <2>3. CASE p \notin shared
    <3>1. \E s \in Side : p \in GoneFrom(s)
      BY <1>0, <2>1, <2>3 DEF shared, SourceFiles, TargetFiles, GoneFrom
    <3>2. p \in RPaths \/ p \in QPaths
      BY <1>9, <3>1 DEF Side, RPaths, QPaths, AddedBeside, DeletedButChanged
    <3>3. \E op \in R \cup Q : p \in Touched(op)
      BY <1>0, <1>1, <3>2, ReplayTouches DEF R, Q, RPaths, QPaths
    <3> QED BY <1>6, <3>3
  <2> QED BY <2>2, <2>3
<1> QED BY <1>17, <1>18, <1>19 DEF Healing

-----------------------------------------------------------------------------
(* A mirror's plan is the difference between the roots.                    *)

LEMMA MirrorMode == TypeOK /\ Mirroring => job.mode = "mirror"
BY JobIsJob DEF Mirroring, Idling, TwoWay, Job

LEMMA MirrorMakes ==
  ASSUME job.mode = "mirror", NEW ops \in OneWayPlans
  PROVE  \E M \in Pairings("source", SourceFiles \ TargetFiles, TargetFiles \ SourceFiles) :
           ops = OneWayShared({}) \cup Replay("target", SourceFiles \ TargetFiles, TargetFiles \ SourceFiles, M)
<1> DEFINE adds == SourceFiles \ TargetFiles
           dels == IF job.mode = "mirror" THEN TargetFiles \ SourceFiles ELSE {}
           newerSets == IF job.mode = "mirror" THEN {{}} ELSE SUBSET (SourceFiles \cap TargetFiles)
<1>1. OneWayPlans = {OneWayShared(newer) \cup Replay("target", adds, dels, M) :
                       newer \in newerSets, M \in Pairings("source", adds, dels)}
  BY DEF OneWayPlans
<1>2. adds = SourceFiles \ TargetFiles /\ dels = TargetFiles \ SourceFiles /\ newerSets = {{}} OBVIOUS
<1> HIDE DEF adds, dels, newerSets
<1>3. PICK newer \in newerSets, M \in Pairings("source", adds, dels) :
        ops = OneWayShared(newer) \cup Replay("target", adds, dels, M)
  BY <1>1
<1>4. newer = {} BY <1>2
<1> QED BY <1>2, <1>3, <1>4

\* What the comparison of an undisturbed mirror run knows.
MirrorKnows == TypeOK /\ Mirroring /\ Seeing /\ rest = NoPaths

LEMMA MirrorSees ==
  ASSUME MirrorKnows
  PROVE  /\ job.mode = "mirror"
         /\ \A s \in Side, p \in Path :
              /\ snap[s][p] = fs[s][p] /\ fs[s][p] \in File \cup Links \cup {Absent}
              /\ p \in FilesOf(snap[s]) <=> fs[s][p] \in File
              /\ p \in LinksOf(snap[s]) <=> fs[s][p] \in Links
         /\ \A p \in Path : ~EvidenceMissing(p)
<1>1. \A s \in Side : rest[s] = {} BY DEF MirrorKnows, NoPaths
<1>2. \A s \in Side, p \in Path : snap[s][p] = fs[s][p] /\ fs[s][p] \in File \cup Links \cup {Absent}
  BY <1>1 DEF MirrorKnows, Seeing, AsSeen, TypeOK, File
<1>3. \A s \in Side, p \in Path : snap[s][p] # Unreadable
  BY <1>2, ContentAssumption DEF File
<1>4. \A p \in Path : ~EvidenceMissing(p) BY <1>3 DEF EvidenceMissing, Side
<1> QED BY <1>2, <1>3, <1>4, MirrorMode DEF MirrorKnows, Seeing, FilesOf, LinksOf

\* The row of a path whose two sides are both a file, or not a file on either.
Level(op, p) ==
  \/ p \in SourceFiles \cap TargetFiles /\ snap["source"][p] # snap["target"][p] /\ op = Push("target", p, "differs")
  \/ /\ p \in LinksOf(snap["source"]) \ LinksOf(snap["target"])
     /\ op = Act("target", "Copy", p, snap["source"][p], "symlink-only-in-source")
  \/ /\ p \in LinksOf(snap["source"]) \cap LinksOf(snap["target"]) /\ snap["source"][p] # snap["target"][p]
     /\ op = Act("target", "Update", p, snap["source"][p], "symlink-differs")
  \/ /\ p \in LinksOf(snap["target"]) \ LinksOf(snap["source"])
     /\ op = Act("target", "Delete", p, snap["target"][p], "symlink-gone")

LEMMA LinkMirrors ==
  ASSUME job.mode = "mirror"
  PROVE  LinkOps = {Act("target", "Copy", p, snap["source"][p], "symlink-only-in-source") :
                      p \in LinksOf(snap["source"]) \ LinksOf(snap["target"])}
              \cup {Act("target", "Update", p, snap["source"][p], "symlink-differs") :
                      p \in {q \in LinksOf(snap["source"]) \cap LinksOf(snap["target"]) :
                               snap["source"][q] # snap["target"][q]}}
              \cup {Act("target", "Delete", p, snap["target"][p], "symlink-gone") :
                      p \in LinksOf(snap["target"]) \ LinksOf(snap["source"])}
BY DEF LinkOps

(* The plan: the rows above, and the replay of what only one side has.     *)
LEMMA MirrorPlans ==
  ASSUME MirrorKnows, NEW ops \in OneWayPlans, NEW sourceLoses
  PROVE  \E M \in Pairings("source", SourceFiles \ TargetFiles, TargetFiles \ SourceFiles) :
           /\ Replay("target", SourceFiles \ TargetFiles, TargetFiles \ SourceFiles, M)
                \subseteq Resolved(ops \cup LinkOps, sourceLoses)
           /\ \A op, p : Level(op, p) => op \in Resolved(ops \cup LinkOps, sourceLoses)
           /\ \A op \in Resolved(ops \cup LinkOps, sourceLoses) :
                \/ op \in Replay("target", SourceFiles \ TargetFiles, TargetFiles \ SourceFiles, M)
                \/ \E p : Level(op, p)
<1>0. job.mode = "mirror" /\ job.policy # "copy" /\ ~TwoWay /\ TypeOK
  BY MirrorSees DEF MirrorKnows, Mirroring, Idling
<1>1. PICK M \in Pairings("source", SourceFiles \ TargetFiles, TargetFiles \ SourceFiles) :
        ops = OneWayShared({}) \cup Replay("target", SourceFiles \ TargetFiles, TargetFiles \ SourceFiles, M)
  BY <1>0, MirrorMakes
<1>2. \A op \in ops \cup LinkOps : ~Resolvable(op)
  <2>1. ops \in (IF job.mode = "sync" THEN TwoWayPlans ELSE OneWayPlans) BY <1>0
  <2> QED BY <1>0, <2>1, ConflictsAreShared
<1>3. Resolved(ops \cup LinkOps, sourceLoses) = ops \cup LinkOps
  <2>1. \A op \in ops \cup LinkOps : op \in Resolved(ops \cup LinkOps, sourceLoses) BY <1>2, ResolvedKeeps
  <2>2. \A op \in Resolved(ops \cup LinkOps, sourceLoses) : op \in ops \cup LinkOps
    BY <1>0, <1>2, ResolvedMakes
  <2> QED BY <2>1, <2>2
<1>4. OneWayShared({}) = {Push("target", p, "differs") :
                            p \in {q \in SourceFiles \cap TargetFiles : snap["source"][q] # snap["target"][q]}}
  <2> DEFINE V(p) == IF EvidenceMissing(p)
                     THEN {Conflict(p, "evidence-unavailable")}
                     ELSE IF ~FilesEqual(snap["source"][p], snap["target"][p])
                             /\ (job.mode = "mirror" \/ p \in {})
                     THEN {Push("target", p, "differs")}
                     ELSE {}
  <2>1. OneWayShared({}) = UNION {V(p) : p \in SourceFiles \cap TargetFiles} BY DEF OneWayShared
  <2>2. \A p \in SourceFiles \cap TargetFiles :
          V(p) = IF snap["source"][p] # snap["target"][p] THEN {Push("target", p, "differs")} ELSE {}
    <3> TAKE p \in SourceFiles \cap TargetFiles
    <3>1. p \in Path BY FilesAreSeen DEF SourceFiles
    <3>2. ~EvidenceMissing(p) /\ snap["source"][p] \in File BY <3>1, MirrorSees DEF SourceFiles, Side
    <3>3. FilesEqual(snap["source"][p], snap["target"][p]) <=> snap["source"][p] = snap["target"][p]
      BY <3>2 DEF FilesEqual
    <3> QED BY <1>0, <3>2, <3>3
  <2> HIDE DEF V
  <2> QED BY <2>1, <2>2
<1>5. \A op : op \in OneWayShared({}) \cup LinkOps <=> \E p : Level(op, p)
  BY <1>0, <1>4, LinkMirrors DEF Level
<1> QED BY <1>1, <1>3, <1>5

LEMMA LevelIs ==
  ASSUME NEW op, NEW p, Level(op, p)
  PROVE  /\ Touched(op) = {p} /\ op.path = p /\ op.from = p /\ op.side = "target" /\ op.act # "Move"
         /\ p \in (SourceFiles \cap TargetFiles) \cup LinksOf(snap["source"]) \cup LinksOf(snap["target"])
BY DEF Level, Touched, Push, Act

(* Where one side has a file and the other a link, the plan has two rows   *)
(* for the path, and validate_operation_paths turns it away.               *)
LEMMA ValidIsPure ==
  ASSUME MirrorKnows, NEW all, Valid(all),
         NEW M \in Pairings("source", SourceFiles \ TargetFiles, TargetFiles \ SourceFiles),
         Replay("target", SourceFiles \ TargetFiles, TargetFiles \ SourceFiles, M) \subseteq all,
         \A op, p : Level(op, p) => op \in all
  PROVE  SourceFiles \cap LinksOf(snap["target"]) = {} /\ LinksOf(snap["source"]) \cap TargetFiles = {}
<1> DEFINE adds == SourceFiles \ TargetFiles
           dels == TargetFiles \ SourceFiles
<1>0. "target" \in Side /\ "source" \in Side /\ Other("target") = "source" BY DEF Side, Other
<1>1. \A s \in Side, p \in Path : ~(p \in FilesOf(snap[s]) /\ p \in LinksOf(snap[s]))
  BY MirrorSees DEF File
<1>2. /\ \A p \in adds : \/ Fill("target", p, "added") \in all
                         \/ \E d \in dels : Relocate("target", d, p, snap["source"][p], "moved") \in all
      /\ \A p \in dels : \/ Drop("target", p, "deleted") \in all
                         \/ \E a \in adds : Relocate("target", p, a, snap["source"][a], "moved") \in all
  <2> HIDE DEF adds, dels
  <2>1. M \in Pairings(Other("target"), adds, dels) /\ Replay("target", adds, dels, M) \subseteq all
    BY <1>0 DEF adds, dels
  <2> QED BY <1>0, <2>1, ReplayCovers
<1>3. ASSUME NEW p \in SourceFiles \cap LinksOf(snap["target"]) PROVE FALSE
  <2>1. p \in Path BY FilesAreSeen DEF SourceFiles
  <2>2. p \in adds /\ p \in LinksOf(snap["target"]) \ LinksOf(snap["source"])
    BY <1>0, <1>1, <2>1 DEF SourceFiles, TargetFiles
  <2> DEFINE gone == Act("target", "Delete", p, snap["target"][p], "symlink-gone")
  <2>3. gone \in all BY <2>2 DEF Level
  <2>4. gone.side = "target" /\ gone.path = p /\ gone.act = "Delete" BY DEF Act
  <2>5. \E op \in all : op.act # "Delete" /\ op.side = "target" /\ op.path = p
    BY <1>2, <2>2 DEF Fill, Act, Relocate
  <2> HIDE DEF gone
  <2> QED BY <2>3, <2>4, <2>5 DEF Valid
<1>4. ASSUME NEW p \in LinksOf(snap["source"]) \cap TargetFiles PROVE FALSE
  <2>1. p \in Path BY FilesAreSeen DEF TargetFiles
  <2>2. p \in dels /\ p \in LinksOf(snap["source"]) \ LinksOf(snap["target"])
    BY <1>0, <1>1, <2>1 DEF SourceFiles, TargetFiles
  <2> DEFINE new == Act("target", "Copy", p, snap["source"][p], "symlink-only-in-source")
  <2>3. new \in all BY <2>2 DEF Level
  <2>4. new.side = "target" /\ new.path = p /\ new.act = "Copy" BY DEF Act
  <2>5. \E op \in all : /\ op.side = "target"
                        /\ (op.act = "Delete" /\ op.path = p) \/ (op.act = "Move" /\ op.from = p)
    BY <1>2, <2>2 DEF Drop, Act, Relocate
  <2> HIDE DEF new
  <2> QED BY <2>3, <2>4, <2>5 DEF Valid, Recreates
<1> QED BY <1>3, <1>4

(* A mirror's valid plan touches each path once, and every difference.     *)
LEMMA MirrorHeals ==
  ASSUME MirrorKnows, NEW ops \in OneWayPlans, NEW sourceLoses, NEW all,
         all = Resolved(ops \cup LinkOps, sourceLoses), Valid(all)
  PROVE  Sole(all) /\ Healing(all)
<1> DEFINE adds == SourceFiles \ TargetFiles
           dels == TargetFiles \ SourceFiles
           links == LinksOf(snap["source"]) \cup LinksOf(snap["target"])
<1>0. "target" \in Side /\ "source" \in Side /\ Other("target") = "source" BY DEF Side, Other
<1>1. PICK M \in Pairings("source", adds, dels) :
        /\ Replay("target", adds, dels, M) \subseteq all
        /\ \A op, p : Level(op, p) => op \in all
        /\ \A op \in all : op \in Replay("target", adds, dels, M) \/ \E p : Level(op, p)
  BY MirrorPlans
<1>2. SourceFiles \cap LinksOf(snap["target"]) = {} /\ LinksOf(snap["source"]) \cap TargetFiles = {}
  BY <1>1, ValidIsPure
<1>3. \A s \in Side : FilesOf(snap[s]) \cap LinksOf(snap[s]) = {}
  BY FilesAreSeen, MirrorSees DEF File
<1>4. (adds \cup dels) \cap ((SourceFiles \cap TargetFiles) \cup links) = {}
      /\ (SourceFiles \cap TargetFiles) \cap links = {} /\ adds \cap dels = {}
  BY <1>0, <1>2, <1>3 DEF SourceFiles, TargetFiles
<1>5. \A o1, o2, p : Level(o1, p) /\ Level(o2, p) => o1 = o2 BY <1>4 DEF Level
<1>6. \A op, p : Level(op, p) => Touched(op) = {p} /\ p \notin adds \cup dels
  <2> SUFFICES ASSUME NEW op, NEW p, Level(op, p) PROVE Touched(op) = {p} /\ p \notin adds \cup dels
    OBVIOUS
  <2>1. Touched(op) = {p} /\ p \in (SourceFiles \cap TargetFiles) \cup links BY LevelIs
  <2> QED BY <1>4, <2>1
<1> HIDE DEF adds, dels, links
<1>7. M \in Pairings(Other("target"), adds, dels) BY <1>0
<1>8. /\ \A op \in Replay("target", adds, dels, M) : Touched(op) \subseteq adds \cup dels
      /\ Sole(Replay("target", adds, dels, M))
  BY <1>0, <1>4, <1>7, ReplaySole
<1>9. Sole(all)
  <2> SUFFICES ASSUME NEW o1 \in all, NEW o2 \in all, NEW q, q \in Touched(o1), q \in Touched(o2)
               PROVE  o1 = o2
    BY DEF Sole
  <2>1. CASE o1 \in Replay("target", adds, dels, M)
    <3>1. q \in adds \cup dels BY <1>8, <2>1
    <3>2. o2 \in Replay("target", adds, dels, M) BY <1>1, <1>6, <3>1
    <3> QED BY <1>8, <2>1, <3>2 DEF Sole
  <2>2. CASE \E p : Level(o1, p)
    <3>1. PICK p : Level(o1, p) BY <2>2
    <3>2. q = p /\ q \notin adds \cup dels BY <1>6, <3>1
    <3>3. PICK r : Level(o2, r) BY <1>1, <1>8, <3>2
    <3>4. r = p BY <1>6, <3>2, <3>3
    <3> QED BY <1>5, <3>1, <3>3, <3>4
  <2> QED BY <1>1, <2>1, <2>2
<1>10. \A op \in all : \A p \in Touched(op) : Heals(op, p)
  <2> SUFFICES ASSUME NEW op \in all, NEW p \in Touched(op) PROVE Heals(op, p) OBVIOUS
  <2>1. CASE op \in Replay("target", adds, dels, M)
    <3>1. \A a \in adds : snap["source"][a] = fs["source"][a] /\ snap["source"][a] \in File
      <4> SUFFICES ASSUME NEW a \in adds PROVE snap["source"][a] = fs["source"][a] /\ snap["source"][a] \in File
        OBVIOUS
      <4>1. a \in FilesOf(snap["source"]) /\ a \in Path BY FilesAreSeen DEF adds, SourceFiles
      <4> QED BY <1>0, <4>1, MirrorSees
    <3>2. \A d \in dels : fs["source"][d] = Absent
      <4> SUFFICES ASSUME NEW d \in dels PROVE fs["source"][d] = Absent
        OBVIOUS
      <4>1. d \in TargetFiles /\ d \notin FilesOf(snap["source"]) BY DEF dels, SourceFiles
      <4>2. d \in Path /\ d \notin LinksOf(snap["source"]) BY <1>2, <4>1, FilesAreSeen DEF TargetFiles
      <4> QED BY <1>0, <4>1, <4>2, MirrorSees
    <3> QED BY <1>0, <1>4, <1>7, <2>1, <3>1, <3>2, ReplayHeals
  <2>2. ASSUME NEW r, Level(op, r) PROVE Heals(op, p)
    <3>1. p = r /\ op.side = "target" /\ op.act # "Move" /\ p \in (SourceFiles \cap TargetFiles) \cup links
      BY <2>2, LevelIs DEF links
    <3>2. p \in Path BY <3>1, FilesAreSeen DEF links, SourceFiles, LinksOf
    <3>3. snap["source"][p] = fs["source"][p] /\ fs["source"][p] \in File \cup Links \cup {Absent}
          /\ (p \in SourceFiles <=> fs["source"][p] \in File) /\ (p \in LinksOf(snap["source"]) <=> fs["source"][p] \in Links)
      BY <1>0, <3>2, MirrorSees DEF SourceFiles
    <3>4. CASE op.act = "Delete"
      <4>1. p \in LinksOf(snap["target"]) /\ p \notin LinksOf(snap["source"])
        BY <2>2, <3>1, <3>4 DEF Level, Push, Act
      <4>2. fs["source"][p] = Absent BY <1>2, <3>3, <4>1
      <4> QED BY <1>0, <3>1, <3>4, <4>2 DEF Heals
    <3>5. CASE op.act # "Delete"
      <4>1. op.want = snap["source"][p] \/ (p \in SourceFiles /\ op.want = Evidence(snap["source"][p]))
        BY <1>0, <2>2, <3>1, <3>5 DEF Level, Push, Act
      <4>2. op.want \in Links => op.want = fs["source"][p] BY <3>3, <4>1, ContentAssumption DEF Evidence, File
      <4> QED BY <1>0, <3>1, <3>5, <4>2 DEF Heals
    <3> QED BY <3>4, <3>5
  <2> QED BY <1>1, <2>1, <2>2
<1>11. \A p \in Path : fs["source"][p] = fs["target"][p] \/ \E op \in all : p \in Touched(op)
  <2> SUFFICES ASSUME NEW p \in Path, fs["source"][p] # fs["target"][p] PROVE \E op \in all : p \in Touched(op)
    OBVIOUS
  <2>1. \A s \in Side : /\ snap[s][p] = fs[s][p] /\ fs[s][p] \in File \cup Links \cup {Absent}
                        /\ p \in FilesOf(snap[s]) <=> fs[s][p] \in File
                        /\ p \in LinksOf(snap[s]) <=> fs[s][p] \in Links
    BY MirrorSees
  <2>2. CASE p \in adds \cup dels
    <3>1. \E op \in Replay("target", adds, dels, M) : p \in Touched(op) BY <1>0, <1>7, <2>2, ReplayTouches
    <3> QED BY <1>1, <3>1
  <2>3. CASE p \notin adds \cup dels
    <3>1. \E op : Level(op, p)
      BY <1>0, <2>1, <2>3 DEF Level, adds, dels, SourceFiles, TargetFiles
    <3> QED BY <1>1, <1>6, <3>1
  <2> QED BY <2>2, <2>3
<1> QED BY <1>9, <1>10, <1>11 DEF Healing

LEMMA SameMirrorsNothing ==
  ASSUME MirrorKnows, SameRoots, NEW ops \in OneWayPlans, NEW sourceLoses
  PROVE  Resolved(ops \cup LinkOps, sourceLoses) = {}
<1>0. "target" \in Side /\ "source" \in Side /\ Other("target") = "source" BY DEF Side, Other
<1>1. PICK M \in Pairings("source", SourceFiles \ TargetFiles, TargetFiles \ SourceFiles) :
        \A op \in Resolved(ops \cup LinkOps, sourceLoses) :
           \/ op \in Replay("target", SourceFiles \ TargetFiles, TargetFiles \ SourceFiles, M)
           \/ \E p : Level(op, p)
  BY MirrorPlans
<1>2. SourceFiles = TargetFiles /\ LinksOf(snap["source"]) = LinksOf(snap["target"])
  <2>1. \A p \in Path : /\ p \in SourceFiles <=> p \in TargetFiles
                        /\ p \in LinksOf(snap["source"]) <=> p \in LinksOf(snap["target"])
    BY <1>0, MirrorSees DEF SameRoots, SourceFiles, TargetFiles
  <2> QED BY <2>1 DEF SourceFiles, TargetFiles, FilesOf, LinksOf
<1>3. \A op, p : ~Level(op, p)
  <2> SUFFICES ASSUME NEW op, NEW p, Level(op, p) PROVE FALSE
    OBVIOUS
  <2>1. p \in SourceFiles \/ p \in LinksOf(snap["source"]) BY <1>2 DEF Level
  <2>2. p \in Path BY <2>1 DEF SourceFiles, FilesOf, LinksOf
  <2>3. snap["source"][p] = snap["target"][p] BY <1>0, <2>2, MirrorSees DEF SameRoots
  <2> QED BY <1>2, <2>3 DEF Level
<1>4. SourceFiles \ TargetFiles = {} /\ TargetFiles \ SourceFiles = {} BY <1>2
<1>5. M = {} BY <1>4 DEF Pairings
<1>6. Replay("target", {}, {}, {}) = {} BY DEF Replay
<1>7. Replay("target", SourceFiles \ TargetFiles, TargetFiles \ SourceFiles, M) = {} BY <1>4, <1>5, <1>6
<1> QED BY <1>1, <1>3, <1>7

-----------------------------------------------------------------------------
(* What a mirror works on lies where the job has paths.                    *)

\* People make no conflict copies, and nothing where the job has no path.
LEMMA PeopleMakeFiles ==
  ASSUME TypeOK, People, NEW t \in Side, NEW r \in Path, IsConflictCopy(r) \/ r \notin Paths, fs[t][r] = Absent
  PROVE  fs'[t][r] = Absent
<1>1. PICK s \in Side, p \in Paths :
        \/ \E c \in job.contents : Save(s, p, c)
        \/ Remove(s, p)
        \/ \E q \in Paths : Rename(s, p, q)
  BY DEF People
<1>2. p \in Path /\ Paths \subseteq Path BY PathsArePath
<1>3. fs \in [Side -> [Path -> Content \cup {Absent}]] /\ fs[s] \in [Path -> Content \cup {Absent}] BY DEF TypeOK
<1>4. ASSUME NEW c \in job.contents, Save(s, p, c) PROVE fs'[t][r] = Absent
  <2>1. fs' = [fs EXCEPT ![s][p] = c] /\ p # r BY <1>4 DEF Save, Edited
  <2> QED BY <1>2, <1>3, <2>1
<1>5. ASSUME Remove(s, p) PROVE fs'[t][r] = Absent
  <2>1. fs' = [fs EXCEPT ![s][p] = Absent] BY <1>5 DEF Remove, Edited
  <2> QED BY <1>2, <1>3, <2>1
<1>6. ASSUME NEW q \in Paths, Rename(s, p, q) PROVE fs'[t][r] = Absent
  <2>1. fs' = [fs EXCEPT ![s][p] = Absent, ![s][q] = fs[s][p]] /\ p # r /\ q # r BY <1>6 DEF Rename, Edited
  <2> QED BY <1>2, <1>3, <2>1
<1> QED BY <1>1, <1>4, <1>5, <1>6

(* What the comparison of a mirror plans is within the job's paths.        *)
LEMMA MirrorPlansInside ==
  ASSUME TypeOK, Mirroring, Elsewhere, NEW ops \in OneWayPlans, NEW sourceLoses,
         NEW op \in Resolved(ops \cup LinkOps, sourceLoses)
  PROVE  InPlace(op)
<1>0. "target" \in Side /\ "source" \in Side /\ Other("target") = "source" /\ job.policy # "copy" /\ ~TwoWay
  BY DEF Side, Other, Mirroring, Idling
<1>1. \A s \in Side : \A p \in FilesOf(snap[s]) \cup LinksOf(snap[s]) : p \in Paths
  BY ContentAssumption DEF Elsewhere, FilesOf, LinksOf, File
<1>2. op \in ops \cup LinkOps
  <2>1. ops \in (IF job.mode = "sync" THEN TwoWayPlans ELSE OneWayPlans) BY <1>0 DEF TwoWay
  <2>2. \A c \in ops \cup LinkOps : ~Resolvable(c) BY <1>0, <2>1, ConflictsAreShared
  <2> QED BY <1>0, <2>2, ResolvedMakes
<1>3. CASE op \in LinkOps
  <2>1. PICK p \in LinksOf(snap["source"]) \cup LinksOf(snap["target"]) :
          op \in {Act("target", "Copy", p, snap["source"][p], "symlink-only-in-source"),
                  Act("target", "Update", p, snap["source"][p], "symlink-differs"),
                  Act("target", "Delete", p, snap["target"][p], "symlink-gone"),
                  Act("source", "Copy", p, snap["target"][p], "symlink-only-in-target"),
                  Conflict(p, "symlink-differs")}
    BY <1>3, LinkMakes
  <2>2. op.path = p /\ op.from = p BY <2>1 DEF Act, Conflict
  <2> QED BY <1>0, <1>1, <2>1, <2>2 DEF InPlace, Touched
<1>4. CASE op \in ops
  <2>1. PICK dels \in SUBSET TargetFiles :
          \E M \in Pairings("source", SourceFiles \ TargetFiles, dels) :
             \/ op \in Replay("target", SourceFiles \ TargetFiles, dels, M)
             \/ \E p \in SourceFiles \cap TargetFiles :
                  op \in {Conflict(p, "evidence-unavailable"), Push("target", p, "differs")}
    BY <1>4, OneWayMakes
  <2>2. PICK M \in Pairings("source", SourceFiles \ TargetFiles, dels) :
          \/ op \in Replay("target", SourceFiles \ TargetFiles, dels, M)
          \/ \E p \in SourceFiles \cap TargetFiles :
               op \in {Conflict(p, "evidence-unavailable"), Push("target", p, "differs")}
    BY <2>1
  <2>3. SourceFiles \subseteq Paths /\ dels \subseteq Paths BY <1>0, <1>1 DEF SourceFiles, TargetFiles
  <2>4. CASE \E p \in SourceFiles \cap TargetFiles :
               op \in {Conflict(p, "evidence-unavailable"), Push("target", p, "differs")}
    <3>1. PICK p \in SourceFiles : op.path = p /\ op.from = p BY <2>4 DEF Conflict, Push, Act
    <3> QED BY <2>3, <3>1 DEF InPlace, Touched
  <2>5. CASE op \in Replay("target", SourceFiles \ TargetFiles, dels, M)
    <3> DEFINE adds == SourceFiles \ TargetFiles
    <3>0. M \in Pairings(Other("target"), adds, dels) /\ op \in Replay("target", adds, dels, M) /\ adds \subseteq SourceFiles
      BY <1>0, <2>2, <2>5
    <3> HIDE DEF adds
    <3>1. \/ \E a \in adds, d \in dels : /\ <<a, d>> \in M /\ Pairable(Other("target"), a, d)
                                         /\ op = Relocate("target", d, a, snap[Other("target")][a], "moved")
          \/ \E p \in adds : (\A m \in M : m[1] # p) /\ op = Fill("target", p, "added")
          \/ \E p \in dels : (\A m \in M : m[2] # p) /\ op = Drop("target", p, "deleted")
      BY <1>0, <3>0, ReplayMakes
    <3>2. /\ \A a, d, c : LET o == Relocate("target", d, a, c, "moved")
                          IN  o.act = "Move" /\ o.path = a /\ o.from = d
          /\ \A p : /\ Fill("target", p, "added").path = p /\ Fill("target", p, "added").from = p
                    /\ Drop("target", p, "deleted").path = p /\ Drop("target", p, "deleted").from = p
      BY DEF Relocate, Fill, Drop, Act
    <3>3. \E x \in Paths, y \in Paths : op.path = x /\ op.from = y /\ (op.act = "Move" \/ y = x)
      <4>1. adds \subseteq Paths /\ dels \subseteq Paths BY <2>3, <3>0
      <4>2. CASE \E a \in adds, d \in dels : op = Relocate("target", d, a, snap[Other("target")][a], "moved")
        BY <3>2, <4>1, <4>2
      <4>3. CASE \E p \in adds : op = Fill("target", p, "added") BY <3>2, <4>1, <4>3
      <4>4. CASE \E p \in dels : op = Drop("target", p, "deleted") BY <3>2, <4>1, <4>4
      <4> QED BY <3>1, <4>2, <4>3, <4>4
    <3> QED BY <3>3 DEF InPlace, Touched
  <2> QED BY <2>2, <2>4, <2>5
<1> QED BY <1>2, <1>3, <1>4

LEMMA ObserveIsInside ==
  ASSUME TypeOK, Elsewhere, UNCHANGED job, NEW s \in Side, NEW p \in rest[s], NEW seen, Observe(s, p, seen),
         seen = fs[s][p] \/ seen = Absent \/ fs[s][p] \in Content
  PROVE  Elsewhere'
<1>1. UNCHANGED <<fs, Paths>> /\ snap' = [snap EXCEPT ![s][p] = seen] BY DEF Observe, peopleVars, Paths
<1>2. snap \in [Side -> [Path -> Seen]] /\ snap[s] \in [Path -> Seen] BY DEF TypeOK
<1>3. \A t \in Side, q \in Path : snap'[t][q] = IF t = s /\ q = p THEN seen ELSE snap[t][q]
  <2>1. snap' = [snap EXCEPT ![s] = [snap[s] EXCEPT ![p] = seen]] BY <1>1
  <2>2. \A t \in Side : snap'[t] = IF t = s THEN [snap[s] EXCEPT ![p] = seen] ELSE snap[t] BY <1>2, <2>1
  <2>3. \A q \in Path : [snap[s] EXCEPT ![p] = seen][q] = IF q = p THEN seen ELSE snap[s][q] BY <1>2
  <2> QED BY <2>2, <2>3
<1>4. p \in Path \ Paths => seen = Absent BY ContentAssumption DEF Elsewhere
<1> QED BY <1>1, <1>3, <1>4 DEF Elsewhere

LEMMA ScanIsInside == ASSUME TypeOK, Elsewhere, Scan, UNCHANGED job PROVE Elsewhere'
<1>1. PICK s \in Side : ReadPath(s) \/ \E fault \in job.trouble : FailToRead(s, fault) BY DEF Scan
<1>2. rest[s] # {} /\ NextPath(s) \in rest[s] BY <1>1, NextPathIsLeft DEF ReadPath, FailToRead
<1>3. CASE ReadPath(s) BY <1>2, <1>3, ObserveIsInside DEF ReadPath
<1>4. ASSUME NEW fault \in job.trouble, FailToRead(s, fault) PROVE Elsewhere'
  <2>1. fault = "unread" \/ fault = "unreadable" BY JobIsJob DEF Job
  <2>2. \E seen : /\ Observe(s, NextPath(s), seen)
                  /\ seen = Absent \/ fs[s][NextPath(s)] \in Content
    BY <1>4, <2>1 DEF FailToRead
  <2> QED BY <1>2, <2>2, ObserveIsInside
<1> QED BY <1>1, <1>3, <1>4

LEMMA DoIsInside ==
  ASSUME TypeOK, Mirroring, Inside, UNCHANGED job, NEW op \in todo, Do(op) PROVE Elsewhere'
<1>1. UNCHANGED <<snap, Paths>> BY DEF Do, Paths
<1>2. InPlace(op) BY DEF Inside
<1> SUFFICES ASSUME NEW s \in Side, NEW p \in Path \ Paths PROVE fs'[s][p] = Absent
  BY <1>1 DEF Inside, Elsewhere
<1>3. p \notin {op.path, op.from} BY <1>2 DEF InPlace, Touched
<1>4. fs'[s][p] = fs[s][p] BY <1>2, <1>3, Untouched DEF InPlace
<1> QED BY <1>4 DEF Inside, Elsewhere

LEMMA InsideInit == Init => Inside
BY DEF Init, Inside, Elsewhere, Nothing

LEMMA InsideStep == ASSUME TypeOK, Inside, [Next]_vars PROVE Inside'
<1>0. UNCHANGED <<job, Paths, Mirroring>> /\ \A op : InPlace(op)' = InPlace(op)
  BY DEF Next, vars, Paths, Mirroring, Idling, TwoWay, InPlace, Touched
<1> SUFFICES ASSUME Mirroring PROVE Elsewhere' /\ \A op \in plan' \cup todo' : InPlace(op)
  BY <1>0 DEF Inside
<1>1. Elsewhere /\ \A op \in plan \cup todo : InPlace(op) BY DEF Inside
<1>2. CASE UNCHANGED <<fs, snap>> /\ plan' \subseteq plan /\ todo' \subseteq plan \cup todo
  BY <1>0, <1>1, <1>2 DEF Elsewhere
<1>3. CASE UNCHANGED vars BY <1>2, <1>3 DEF vars
<1>4. CASE People
  <2>1. UNCHANGED <<snap, plan, todo>> BY <1>4 DEF People, Save, Remove, Rename, Edited
  <2>2. \A s \in Side : \A p \in Path \ Paths : fs'[s][p] = Absent BY <1>1, <1>4, PeopleMakeFiles DEF Elsewhere
  <2> QED BY <1>0, <1>1, <2>1, <2>2 DEF Elsewhere
<1>5. CASE Scan BY <1>0, <1>1, <1>5, ScanIsInside, ScanLeaves
<1>6. CASE Compare
  <2>1. UNCHANGED <<fs, snap, todo>> BY <1>6 DEF Compare, peopleVars
  <2>2. \A op \in plan' : InPlace(op) BY <1>1, <1>6, MirrorPlansInside DEF Compare, Mirroring, TwoWay
  <2> QED BY <1>0, <1>1, <2>1, <2>2 DEF Elsewhere
<1>7. CASE RunAll
  <2>1. UNCHANGED <<fs, snap, plan>> /\ todo' \subseteq Executable(plan)
    BY <1>7 DEF RunAll, Begin, peopleVars
  <2> QED BY <1>2, <2>1 DEF Executable
<1>8. ~RunReviewed BY DEF RunReviewed, Mirroring, Idling
<1>9. CASE StartRun \/ Decline \/ EndApply \/ Stop \/ Publish \/ PublishFails
  BY <1>2, <1>9 DEF StartRun, Decline, EndApply, Stop, Publish, PublishFails, peopleVars
<1>10. ASSUME NEW op \in todo, Do(op) PROVE Elsewhere' /\ \A o \in plan' \cup todo' : InPlace(o)
  <2>1. UNCHANGED plan /\ todo' \subseteq todo BY <1>10 DEF Do
  <2> QED BY <1>0, <1>1, <1>10, <2>1, DoIsInside
<1>11. ASSUME NEW op \in todo, Fail(op) PROVE Elsewhere' /\ \A o \in plan' \cup todo' : InPlace(o)
  BY <1>2, <1>11 DEF Fail, peopleVars
<1> QED BY <1>3, <1>4, <1>5, <1>6, <1>7, <1>8, <1>9, <1>10, <1>11 DEF Next, Apply

-----------------------------------------------------------------------------
(* An undisturbed run brings the roots together.                           *)

\* The steps that leave the roots and the plan alone and start nothing.
LEMMA RestsStays ==
  ASSUME Rests, UNCHANGED <<job, fs, snap, rest, unread, plan, todo, errors, quiet, pc>>
  PROVE  UNCHANGED done => Rests'
<1> SUFFICES ASSUME UNCHANGED done PROVE Rests' OBVIOUS
<1>1. EndIsOpen' BY DEF Rests, EndIsOpen
<1>2. WholeSees' BY DEF Rests, WholeSees, Whole, Idling, Seeing, AsSeen
<1>3. WholePlans'
  <2> SUFFICES ASSUME WholePlan', pc = "review", Valid(plan)' PROVE Sole(plan)' /\ Healing(plan)'
    BY DEF WholePlans
  <2>1. WholePlan /\ Valid(plan) BY DEF WholePlan, Whole, Idling, Executable, Valid, Recreates
  <2>2. Sole(plan) /\ Healing(plan) BY <2>1 DEF Rests, WholePlans
  <2> QED BY <2>2 DEF Sole, Healing, Heals, Touched
<1>4. WholeApplies'
  <2> SUFFICES ASSUME WholePlan', pc = "apply", ~errors PROVE Sole(todo)' /\ Healing(todo)'
    BY DEF WholeApplies
  <2>1. WholePlan BY DEF WholePlan, Whole, Idling, Executable
  <2>2. Sole(todo) /\ Healing(todo) BY <2>1 DEF Rests, WholeApplies
  <2> QED BY <2>2 DEF Sole, Healing, Heals, Touched
<1>5. WholeEnds' BY DEF Rests, WholeEnds, WholePlan, Whole, Idling, Executable, SameRoots
<1>6. CleanRests' BY DEF Rests, CleanRests, SameRoots, Seeing, AsSeen, Idling, Executable
<1> QED BY <1>1, <1>2, <1>3, <1>4, <1>5, <1>6 DEF Rests

LEMMA DisturbedRests ==
  ASSUME quiet' = FALSE, done' = "no" PROVE Rests'
BY DEF Rests, EndIsOpen, WholeSees, WholePlans, WholeApplies, WholeEnds, CleanRests, WholePlan, Whole

LEMMA IdleRests ==
  ASSUME pc' = "idle", done' = "no" \/ (Idling' => SameRoots') PROVE Rests'
BY DEF Rests, EndIsOpen, WholeSees, WholePlans, WholeApplies, WholeEnds, CleanRests, WholePlan, Whole

LEMMA ReadSees ==
  ASSUME TypeOK, NEW s \in Side, ReadPath(s)
  PROVE  /\ pc \in {"scan", "refresh"}
         /\ UNCHANGED <<fs, held, archive, history, pc, run, plan, todo, errors, unread, quiet, done, faults, saves>>
         /\ AsSeen => AsSeen'
<1> DEFINE p == NextPath(s)
<1>1. /\ pc \in {"scan", "refresh"} /\ p \in Path
      /\ UNCHANGED <<fs, held, archive, history, pc, run, plan, todo, errors, unread, quiet, done, faults, saves>>
      /\ snap' = [snap EXCEPT ![s][p] = fs[s][p]] /\ rest' = [rest EXCEPT ![s] = rest[s] \ {p}]
  BY NextPathIsLeft DEF ReadPath, Observe, peopleVars, archiveVars, TypeOK
<1> HIDE DEF p
<1>2. /\ \A t \in Side, q \in Path : snap'[t][q] = IF t = s /\ q = p THEN fs[s][p] ELSE snap[t][q]
      /\ \A t \in Side : rest'[t] = IF t = s THEN rest[t] \ {p} ELSE rest[t]
  <2>1. snap \in [Side -> [Path -> Seen]] /\ snap[s] \in [Path -> Seen] /\ rest \in [Side -> SUBSET Path]
    BY DEF TypeOK
  <2>2. snap' = [snap EXCEPT ![s] = [snap[s] EXCEPT ![p] = fs[s][p]]] BY <1>1
  <2>3. \A t \in Side : snap'[t] = IF t = s THEN [snap[s] EXCEPT ![p] = fs[s][p]] ELSE snap[t] BY <2>1, <2>2
  <2>4. \A q \in Path : [snap[s] EXCEPT ![p] = fs[s][p]][q] = IF q = p THEN fs[s][p] ELSE snap[s][q] BY <2>1
  <2> QED BY <1>1, <2>1, <2>3, <2>4
<1>3. AsSeen => AsSeen'
  <2> SUFFICES ASSUME AsSeen, NEW t \in Side, NEW q \in Path \ rest'[t] PROVE snap'[t][q] = fs'[t][q]
    BY DEF AsSeen
  <2>1. CASE t = s /\ q = p BY <1>1, <1>2, <2>1
  <2>2. CASE ~(t = s /\ q = p)
    <3>1. q \notin rest[t] /\ snap'[t][q] = snap[t][q] BY <1>2, <2>2
    <3> QED BY <1>1, <3>1 DEF AsSeen
  <2> QED BY <2>1, <2>2
<1> QED BY <1>1, <1>3

LEMMA ScanRests == ASSUME TypeOK, Rests, Scan, UNCHANGED job PROVE Rests'
<1>1. PICK s \in Side : ReadPath(s) \/ \E fault \in job.trouble : FailToRead(s, fault) BY DEF Scan
<1>2. CASE ReadPath(s)
  <2>1. /\ pc \in {"scan", "refresh"} /\ UNCHANGED <<fs, pc, unread, plan, todo, errors, quiet, done>>
        /\ AsSeen => AsSeen'
    BY <1>2, ReadSees
  <2>2. EndIsOpen' BY <2>1 DEF Rests, EndIsOpen
  <2>3. WholeSees' BY <2>1 DEF Rests, WholeSees, Whole, Idling, Seeing
  <2>4. WholePlans' /\ WholeApplies' BY <2>1 DEF WholePlans, WholeApplies
  <2>5. WholeEnds' BY <2>1 DEF Rests, WholeEnds, WholePlan, Whole, Idling, Executable, SameRoots
  <2>6. CleanRests' BY <2>1 DEF Rests, CleanRests, Idling, Seeing, SameRoots
  <2> QED BY <2>2, <2>3, <2>4, <2>5, <2>6 DEF Rests
<1>3. ASSUME NEW fault \in job.trouble, FailToRead(s, fault) PROVE Rests'
  BY <1>3, DisturbedRests DEF FailToRead
<1> QED BY <1>1, <1>2, <1>3

LEMMA StartRests == ASSUME TypeOK, Agreement, Inside, Rests, StartRun, UNCHANGED job PROVE Rests'
<1>1. UNCHANGED <<fs, snap, done>> /\ pc' = "scan" /\ rest' = AllPaths /\ unread' = {} BY DEF StartRun, peopleVars
<1>2. Idling => Seeing'
  <2>1. \A s \in Side : rest'[s] = Paths BY <1>1 DEF AllPaths
  <2>2. Idling => Elsewhere BY DEF Agreement, Quietly, Inside, Mirroring
  <2> QED BY <1>1, <2>1, <2>2 DEF Seeing, AsSeen, Elsewhere
<1>3. EndIsOpen' /\ WholePlans' /\ WholeApplies' /\ WholeEnds'
  BY <1>1 DEF EndIsOpen, WholePlans, WholeApplies, WholeEnds
<1>4. WholeSees' BY <1>2 DEF WholeSees, Whole, Idling
<1>5. CleanRests' BY <1>1, <1>2 DEF Rests, CleanRests, Idling, SameRoots
<1> QED BY <1>3, <1>4, <1>5 DEF Rests

\* A comparison's plan stays what it is when it is adopted.
LEMMA AdoptedRests ==
  ASSUME UNCHANGED fs, NEW all, plan' = all
  PROVE  /\ Valid(plan)' => Valid(all)
         /\ Sole(all) => Sole(plan)'
         /\ Healing(all) => Healing(plan)'
         /\ Executable(plan)' = Executable(all)
<1>1. Valid(plan)' => Valid(all) BY DEF Valid, Recreates
<1>2. Sole(all) => Sole(plan)' BY DEF Sole, Touched
<1>3. Healing(all) => Healing(plan)' BY DEF Healing, Touched, Heals
<1>4. Executable(plan)' = Executable(all) BY DEF Executable
<1> QED BY <1>1, <1>2, <1>3, <1>4

LEMMA CompareRests == ASSUME TypeOK, Agreement, Rests, Compare, UNCHANGED job PROVE Rests'
<1>1. UNCHANGED <<fs, snap, rest, unread, quiet, done, errors, todo>> /\ pc = "scan" /\ pc' = "review" /\ rest = NoPaths
  BY DEF Compare, peopleVars
<1>2. Seeing => Seeing' BY <1>1 DEF Seeing, AsSeen
<1>3. EndIsOpen' /\ WholeApplies' /\ WholeEnds' BY <1>1 DEF EndIsOpen, WholeApplies, WholeEnds
<1>4. WholeSees' BY <1>1, <1>2 DEF Rests, WholeSees, Whole, Idling
<1>5. ASSUME Idling, Seeing
      PROVE  /\ plan' = Executable(plan)' /\ Valid(plan)' => Sole(plan)' /\ Healing(plan)'
             /\ SameRoots => Executable(plan)' = {}
  <2>1. PICK ops \in (IF job.mode = "sync" THEN TwoWayPlans ELSE OneWayPlans),
             sourceLoses \in (IF job.policy = "report" THEN {{}} ELSE SUBSET (SourceFiles \cap TargetFiles)) :
          plan' = Resolved(ops \cup LinkOps, sourceLoses)
    BY DEF Compare
  <2>2. PICK all : all = Resolved(ops \cup LinkOps, sourceLoses) OBVIOUS
  <2>3. /\ Valid(plan)' => Valid(all)
        /\ Sole(all) => Sole(plan)'
        /\ Healing(all) => Healing(plan)'
        /\ Executable(plan)' = Executable(all)
        /\ plan' = all
    BY <1>1, <2>1, <2>2, AdoptedRests
  <2>4. Executable({}) = {} BY DEF Executable
  <2>5. CASE TwoWay
    <3>1. Known /\ ops \in TwoWayPlans /\ job.policy # "copy"
      BY <1>1, <1>5, <2>1, <2>5 DEF Known, Ready, TwoWay, Seeing, Idling
    <3>2. all = Executable(all) => Sole(all) /\ Healing(all) BY <2>2, <3>1, PlanHeals
    <3>3. SameRoots => all = {} BY <2>2, <3>1, SamePlansNothing
    <3> QED BY <2>3, <2>4, <3>2, <3>3
  <2>6. CASE ~TwoWay
    <3>1. MirrorKnows /\ ops \in OneWayPlans
      BY <1>1, <1>5, <2>1, <2>6 DEF MirrorKnows, Mirroring, TwoWay
    <3>2. Valid(all) => Sole(all) /\ Healing(all) BY <2>2, <3>1, MirrorHeals
    <3>3. SameRoots => all = {} BY <2>2, <3>1, SameMirrorsNothing
    <3> QED BY <2>3, <2>4, <3>2, <3>3
  <2> QED BY <2>5, <2>6
<1>6. WholePlans' BY <1>1, <1>5 DEF Rests, WholePlans, WholePlan, Whole, WholeSees, Idling
<1>7. CleanRests' BY <1>1, <1>2, <1>5 DEF Rests, CleanRests, Idling, SameRoots
<1> QED BY <1>3, <1>4, <1>6, <1>7 DEF Rests

LEMMA ReviewRests == ASSUME TypeOK, Rests, RunAll \/ RunReviewed, UNCHANGED job PROVE Rests'
<1>1. PICK ops, whole : Begin(ops, whole) /\ (RunAll => ops = Executable(plan)) BY DEF RunAll, RunReviewed
<1>2. Idling => RunAll BY DEF RunReviewed, Idling
<1>3. /\ UNCHANGED <<fs, snap, plan>> /\ done' = "no" /\ pc' \in {"apply", "idle"} /\ pc = "review"
      /\ quiet' => quiet
      /\ pc' = "apply" => todo' = ops /\ Valid(ops)
  BY <1>1 DEF Begin, peopleVars, RunAll, RunReviewed, TypeOK
<1>4. EndIsOpen' /\ WholeSees' /\ WholePlans' /\ WholeEnds' /\ CleanRests'
  BY <1>3 DEF EndIsOpen, WholeSees, WholePlans, WholeEnds, CleanRests
<1>5. WholeApplies'
  <2> SUFFICES ASSUME WholePlan', pc' = "apply" PROVE Sole(todo)' /\ Healing(todo)'
    BY DEF WholeApplies
  <2>1. Idling /\ WholePlan BY <1>3 DEF WholePlan, Whole, Idling, Executable
  <2>2. todo' = plan /\ Valid(plan) BY <1>1, <1>2, <1>3, <2>1 DEF WholePlan
  <2>3. Sole(plan) /\ Healing(plan) BY <1>3, <2>1, <2>2 DEF Rests, WholePlans
  <2>4. PICK all : all = plan OBVIOUS
  <2>5. Sole(all) => Sole(todo)' BY <2>2, <2>4 DEF Sole, Touched
  <2>6. Healing(all) => Healing(todo)' BY <1>3, <2>2, <2>4 DEF Healing, Touched, Heals
  <2> QED BY <2>3, <2>4, <2>5, <2>6
<1> QED BY <1>4, <1>5 DEF Rests

LEMMA DoRests == ASSUME TypeOK, Agreement, Inside, Rests, UNCHANGED job, NEW op \in todo, Do(op) PROVE Rests'
<1>1. UNCHANGED <<pc, plan, quiet, done, errors, snap, rest>> /\ pc = "apply" /\ todo' = todo \ {op}
  BY DEF Do, Due
<1>2. EndIsOpen' /\ WholeSees' /\ WholePlans' /\ WholeEnds'
  BY <1>1 DEF Rests, EndIsOpen, WholeSees, WholePlans, WholeEnds
<1>3. CleanRests' BY <1>1 DEF Rests, EndIsOpen, CleanRests
<1>4. WholeApplies'
  <2> SUFFICES ASSUME WholePlan', ~errors PROVE Sole(todo)' /\ Healing(todo)'
    BY <1>1 DEF WholeApplies
  <2>1. WholePlan /\ Idling BY <1>1 DEF WholePlan, Whole, Idling, Executable
  <2>2. Sole(todo) /\ Healing(todo) BY <1>1, <2>1 DEF Rests, WholeApplies
  <2>3. op.act # "Move" => op.from = op.path
    BY <1>1, <2>1 DEF Agreement, Planned, Applying, Sound, Inside, InPlace, Mirroring
  <2>4. Sole(todo)' BY <1>1, <2>2 DEF Sole, Touched
  <2>5. /\ op \in Op /\ op.side \in Side /\ op.path \in Path /\ op.from \in Path /\ GoesThrough(op) /\ Other(op.side) \in Side
        /\ fs' = [fs EXCEPT ![op.side] = Result(op)] /\ fs' \in [Side -> [Path -> Content \cup {Absent}]]
    BY DoIs
  <2>6. \A s \in Side, p \in Path : p \notin Touched(op) => fs'[s][p] = fs[s][p]
    BY <2>3, Untouched DEF Touched
  <2>7. \A p \in Touched(op) : p \in Path /\ fs'["source"][p] = fs'["target"][p]
    <3> SUFFICES ASSUME NEW p \in Touched(op) PROVE p \in Path /\ fs'["source"][p] = fs'["target"][p] OBVIOUS
    <3>1. p \in Path /\ (p = op.path \/ p = op.from) BY <2>5 DEF Touched
    <3>2. Heals(op, p) BY <2>2 DEF Healing
    <3>3. fs'[op.side] = Result(op) /\ fs'[Other(op.side)] = fs[Other(op.side)]
      BY <2>5, Sides DEF TypeOK
    <3>4. fs'[op.side][p] = fs[Other(op.side)][p]
      <4>1. CASE op.act = "Move"
        <5>1. op.want \in File /\ op.want \in {None, fs[op.side][op.from]} BY <2>5, <3>2, <4>1 DEF Heals, GoesThrough
        <5>2. op.want = fs[op.side][op.from] BY <5>1, ContentAssumption DEF File
        <5> QED BY <2>5, <3>1, <3>2, <3>3, <4>1, <5>2, ResultMakes DEF Heals
      <4>2. CASE op.act = "Delete"
        <5>1. p = op.path BY <2>3, <3>1, <4>2
        <5> QED BY <2>5, <3>2, <3>3, <4>2, <5>1, ResultMakes DEF Heals
      <4>3. CASE op.act \notin {"Move", "Delete"}
        <5>1. p = op.path /\ (op.want \in Links => fs[Other(op.side)][p] = op.want)
          BY <2>3, <3>1, <3>2, <4>3 DEF Heals
        <5> QED BY <2>5, <3>1, <3>3, <4>3, <5>1, ResultMakes
      <4> QED BY <4>1, <4>2, <4>3
    <3> QED BY <2>5, <3>1, <3>3, <3>4 DEF Side, Other
  <2>8. \A o \in todo' : \A p \in Touched(o) : Heals(o, p)'
    <3> SUFFICES ASSUME NEW o \in todo', NEW p \in Touched(o) PROVE Heals(o, p)'
      OBVIOUS
    <3>1. o \in todo /\ o # op BY <1>1
    <3>2. p \notin Touched(op) BY <2>2, <3>1 DEF Sole
    <3>3. o \in Op /\ Other(o.side) \in Side /\ p \in Path BY <3>1, Sides DEF TypeOK, Op, Touched
    <3>4. fs'[Other(o.side)][p] = fs[Other(o.side)][p] BY <2>6, <3>2, <3>3
    <3>5. Heals(o, p) BY <2>2, <3>1 DEF Healing
    <3> QED BY <3>4, <3>5 DEF Heals
  <2>9. \A p \in Path : fs'["source"][p] = fs'["target"][p] \/ \E o \in todo' : p \in Touched(o)
    <3> SUFFICES ASSUME NEW p \in Path PROVE fs'["source"][p] = fs'["target"][p] \/ \E o \in todo' : p \in Touched(o)
      OBVIOUS
    <3>1. CASE p \in Touched(op) BY <2>7, <3>1
    <3>2. CASE p \notin Touched(op)
      <4>1. fs["source"][p] = fs["target"][p] \/ \E o \in todo : p \in Touched(o) BY <2>2 DEF Healing
      <4>2. fs'["source"][p] = fs["source"][p] /\ fs'["target"][p] = fs["target"][p] BY <2>6, <3>2 DEF Side
      <4> QED BY <1>1, <3>2, <4>1, <4>2
    <3> QED BY <3>1, <3>2
  <2>10. Healing(todo)' BY <2>8, <2>9 DEF Healing, Touched
  <2> QED BY <2>4, <2>10
<1> QED BY <1>2, <1>3, <1>4 DEF Rests

LEMMA FailRests == ASSUME TypeOK, Rests, UNCHANGED job, NEW op \in todo, Fail(op) PROVE Rests'
<1>1. UNCHANGED <<pc, done>> /\ pc = "apply" /\ errors' = TRUE BY DEF Fail, Due
<1> QED BY <1>1 DEF Rests, EndIsOpen, WholeSees, WholePlans, WholeApplies, WholeEnds, CleanRests

LEMMA EndRests == ASSUME TypeOK, Agreement, Rests, EndApply, UNCHANGED job PROVE Rests'
<1>1. UNCHANGED <<fs, plan, errors, quiet, todo>> /\ pc = "apply" /\ todo = {} BY DEF EndApply, peopleVars
<1>2. done = "no" BY <1>1 DEF Rests, EndIsOpen
<1>3. WholePlan /\ ~errors => SameRoots
  <2> SUFFICES ASSUME WholePlan, ~errors PROVE fs["source"] = fs["target"]
    BY DEF SameRoots
  <2>1. Healing({}) BY <1>1 DEF Rests, WholeApplies
  <2>2. \A p \in Path : fs["source"][p] = fs["target"][p] BY <2>1 DEF Healing
  <2>3. fs["source"] \in [Path -> Content \cup {Absent}] /\ fs["target"] \in [Path -> Content \cup {Absent}]
    BY DEF TypeOK, Side
  <2> QED BY <2>2, <2>3
<1>4. CASE TwoWay /\ ~errors
  <2>1. pc' = "refresh" /\ done' = "no" BY <1>2, <1>4 DEF EndApply, TwoWay
  <2>2. WholeEnds' BY <1>1, <1>3 DEF WholeEnds, SameRoots, WholePlan, Whole, Idling, Executable
  <2> QED BY <2>1, <2>2 DEF Rests, EndIsOpen, WholeSees, WholePlans, WholeApplies, CleanRests
<1>5. CASE ~(TwoWay /\ ~errors)
  <2>1. pc' = "idle" /\ done' = Outcome BY <1>5 DEF EndApply, TwoWay
  <2>2. Outcome = "clean" /\ Idling => WholePlan /\ ~errors BY DEF Outcome, WholePlan, Whole
  <2>3. Idling' /\ done' = "clean" => SameRoots'
    BY <1>1, <1>3, <2>1, <2>2 DEF Idling, SameRoots
  <2> QED BY <2>1, <2>3 DEF Rests, EndIsOpen, WholeSees, WholePlans, WholeApplies, WholeEnds, CleanRests
<1> QED BY <1>4, <1>5

LEMMA PublishRests == ASSUME TypeOK, Agreement, Rests, Publish, UNCHANGED job PROVE Rests'
<1>1. UNCHANGED fs /\ pc = "refresh" /\ pc' = "idle" /\ done' = Outcome BY DEF Publish, peopleVars
<1>2. ASSUME Idling, done' = "clean" PROVE SameRoots'
  <2>1. WholePlan /\ ~errors BY <1>1, <1>2 DEF Outcome, WholePlan, Whole
  <2> QED BY <1>1, <2>1 DEF Rests, WholeEnds, SameRoots
<1> QED BY <1>1, <1>2 DEF Rests, EndIsOpen, WholeSees, WholePlans, WholeApplies, WholeEnds, CleanRests, Idling

LEMMA RestsInit == Init => Rests
BY DEF Init, Rests, EndIsOpen, WholeSees, WholePlans, WholeApplies, WholeEnds, CleanRests

LEMMA RestsStep == ASSUME TypeOK, Agreement, Inside, Rests, [Next]_vars PROVE Rests'
<1>1. CASE UNCHANGED vars BY <1>1, RestsStays DEF vars
<1>2. CASE Next
  <2>1. UNCHANGED job /\ (People \/ StartRun \/ Scan \/ Compare \/ RunAll \/ RunReviewed \/ Decline
          \/ Apply \/ EndApply \/ Stop \/ Publish \/ PublishFails)
    BY <1>2 DEF Next
  <2>2. CASE People
    <3>1. quiet' = FALSE /\ done' = "no" BY <2>2 DEF People, Save, Remove, Rename, Edited
    <3> QED BY <3>1, DisturbedRests
  <2>3. CASE Decline \/ Stop
    <3>1. quiet' = FALSE /\ done' = "no" BY <2>3 DEF Decline, Stop
    <3> QED BY <3>1, DisturbedRests
  <2>4. CASE PublishFails
    <3>1. pc = "refresh" /\ pc' = "idle" /\ done' = done BY <2>4 DEF PublishFails
    <3>2. done' = "no" BY <3>1 DEF Rests, EndIsOpen
    <3> QED BY <3>1, <3>2, IdleRests
  <2>5. CASE Apply BY <2>1, <2>5, DoRests, FailRests DEF Apply
  <2> QED BY <2>1, <2>2, <2>3, <2>4, <2>5, StartRests, ScanRests, CompareRests, ReviewRests, EndRests, PublishRests
<1> QED BY <1>1, <1>2

(* After a run that nothing disturbed and that had no conflict to report,  *)
(* of a two-way job or a command-line mirror, the next comparison has      *)
(* nothing to do until a root is edited: each operation makes its paths    *)
(* agree, and no two meet.                                                 *)
THEOREM SecondRunIdles ==
  ASSUME AllCareful, \A j \in Jobs : Restful(j) PROVE Spec => []SecondRunIsIdle
<1>1. Init => TypeOK /\ Agreement /\ Inside /\ Rests BY TypeInit, AgreementInit, InsideInit, RestsInit
<1>2. TypeOK /\ Agreement /\ Inside /\ Rests /\ [Next]_vars => (TypeOK /\ Agreement /\ Inside /\ Rests)'
  BY TypeStep, AgreementStep, InsideStep, RestsStep
<1>3. TypeOK /\ Rests => SecondRunIsIdle
  BY DEF Rests, CleanRests, SecondRunIsIdle, Idling, Restful, TypeOK
<1> QED BY <1>1, <1>2, <1>3, PTL DEF Spec

-----------------------------------------------------------------------------
(* A conflict's loser is kept before the winner lands.                     *)

\* The jobs of that promise: nothing disturbs a run that keeps losers.
Undisturbed(j) == j.mode = "sync" /\ j.policy = "copy" => j.writers = {} /\ j.faults = 0
AllUndisturbed == \A j \in Jobs : Undisturbed(j)

Keeping == TwoWay /\ job.policy = "copy"
Keeper(op) == Relocate(op.side, op.path, Kept(op.path), snap[op.side][op.path], "conflict-loser-kept-as-copy")

\* The loser's content is in its conflict copy, or still there with the move
\* that will bring it to its copy.
KeptFirst(op, ops) ==
  /\ op.act = "Update" /\ Own(op.path) /\ snap[op.side][op.path] \in File /\ Kept(op.path) \in Path
  /\ \/ /\ Keeper(op) \in ops
        /\ fs[op.side][op.path] = snap[op.side][op.path] /\ fs[op.side][Kept(op.path)] = Absent
     \/ fs[op.side][Kept(op.path)] = snap[op.side][op.path]
\* Nothing but a loser is brought to a copy of this run.
Recent(op) == op.from.copy < run /\ op.path.copy <= run
Lossless(ops) == (\A op \in ops : Recent(op)) /\ \A op \in ops : op.why = Resolving => KeptFirst(op, ops)

OneWayResolvesNothing == ~TwoWay => \A op \in plan \cup todo : op.why # Resolving
CopiesToCome ==
  Keeping => \A s \in Side, p \in Path :
    /\ p.copy > run => fs[s][p] = Absent
    /\ pc \in {"scan", "review"} /\ p.copy >= run => fs[s][p] = Absent
KeepingSees == Keeping /\ pc \in {"scan", "review"} => AsSeen
KeepingPlans == Keeping /\ pc = "review" => Lossless(Executable(plan))
KeepingApplies == Keeping /\ pc = "apply" => Lossless(todo) /\ Valid(todo)
Losers == OneWayResolvesNothing /\ CopiesToCome /\ KeepingSees /\ KeepingPlans /\ KeepingApplies

LEMMA CopyFacts == \A p \in Path : p.copy \in Nat /\ (IsConflictCopy(p) <=> p.copy # 0)
BY PathFields DEF IsConflictCopy

\* What stands in a scan of a job that keeps losers is older than its run.
LEMMA ThereIsRecent ==
  ASSUME Known, Losers, Keeping, NEW s \in Side, NEW p \in FilesOf(snap[s])
  PROVE  p \in Path /\ p.copy < run /\ run \in Nat
<1>1. p \in Path BY FilesAreSeen
<1>2. fs[s][p] # Absent BY <1>1, KnownIs
<1>3. ~(p.copy >= run) BY <1>1, <1>2 DEF Losers, CopiesToCome, Known, Ready
<1>4. p.copy \in Nat /\ run \in Nat BY <1>1, CopyFacts, JobIsJob DEF Known, Ready, TypeOK, Job
<1> QED BY <1>1, <1>3, <1>4

LEMMA WhysOfLanes ==
  ASSUME TypeOK, NEW ops \in (IF job.mode = "sync" THEN TwoWayPlans ELSE OneWayPlans), NEW op \in ops \cup LinkOps
  PROVE  op.why # Resolving
<1>0. "source" \in Side /\ "target" \in Side /\ Other("source") = "target" /\ Other("target") = "source"
  BY DEF Side, Other
<1>1. \A p, why : Conflict(p, why).why = why BY DEF Conflict, Act
<1>2. \A s, p, why : Push(s, p, why).why = why BY DEF Push, Act
<1>3. ASSUME NEW s \in Side, NEW adds, NEW dels, NEW M \in Pairings(Other(s), adds, dels), op \in Replay(s, adds, dels, M)
      PROVE  op.why # Resolving
  <2>1. op.why \in {"moved", "added", "deleted"} BY <1>3, ReplayActs
  <2> QED BY <2>1 DEF Resolving
<1>4. CASE op \in LinkOps BY <1>1, <1>4, LinkMakes DEF Act, Resolving
<1>5. CASE op \in ops /\ TwoWay
  <2>1. ops \in TwoWayPlans BY <1>5 DEF TwoWay
  <2>2. PICK M \in Pairings("source", AddedBeside("target"), DeletedOn("source")),
             N \in Pairings("target", AddedBeside("source"), DeletedOn("target")) :
          \/ \E p \in SourceFiles \cap TargetFiles : op \in TwoWayShared(p)
          \/ \E p \in DeletedButChanged("source") \cup DeletedButChanged("target") :
               op = Conflict(p, "deleted-on-one-side-but-changed-on-the-other")
          \/ op \in Replay("target", AddedBeside("target"), DeletedOn("source"), M)
          \/ op \in Replay("source", AddedBeside("source"), DeletedOn("target"), N)
    BY <1>5, <2>1, TwoWayMakes
  <2>3. \A p : op \in TwoWayShared(p) => op.why # Resolving BY <1>1, <1>2, SharedMakes DEF Resolving
  <2>4. \A p : op = Conflict(p, "deleted-on-one-side-but-changed-on-the-other") => op.why # Resolving
    BY <1>1 DEF Resolving
  <2> QED BY <1>0, <1>3, <2>2, <2>3, <2>4
<1>6. CASE op \in ops /\ ~TwoWay
  <2>1. ops \in OneWayPlans BY <1>6 DEF TwoWay
  <2>2. PICK dels \in SUBSET TargetFiles :
          \E M \in Pairings("source", SourceFiles \ TargetFiles, dels) :
             \/ op \in Replay("target", SourceFiles \ TargetFiles, dels, M)
             \/ \E p \in SourceFiles \cap TargetFiles :
                  op \in {Conflict(p, "evidence-unavailable"), Push("target", p, "differs")}
    BY <1>6, <2>1, OneWayMakes
  <2>3. \A p : op \in {Conflict(p, "evidence-unavailable"), Push("target", p, "differs")} => op.why # Resolving
    BY <1>1, <1>2 DEF Resolving
  <2> QED BY <1>0, <1>3, <2>2, <2>3
<1> QED BY <1>4, <1>5, <1>6

LEMMA OneWayPlanResolvesNothing ==
  ASSUME TypeOK, ~TwoWay, NEW ops \in (IF job.mode = "sync" THEN TwoWayPlans ELSE OneWayPlans), NEW sourceLoses,
         NEW op \in Resolved(ops \cup LinkOps, sourceLoses)
  PROVE  op.why # Resolving
<1>1. \A c \in ops \cup LinkOps : ~Resolvable(c) BY ConflictsAreShared
<1>2. \A s, p : Drop(s, p, "conflict-copy-over-limit").why # Resolving BY DEF Drop, Act, Resolving
<1>3. op \in ops \cup LinkOps \/ \E s \in Side : \E p \in Doomed(s) : op = Drop(s, p, "conflict-copy-over-limit")
  BY <1>1, ResolvedMakes
<1> QED BY <1>2, <1>3, WhysOfLanes

LEMMA LanesAreRecent ==
  ASSUME Known, Losers, Keeping, NEW ops \in TwoWayPlans, NEW op \in ops \cup LinkOps, op.act # "Conflict"
  PROVE  Recent(op)
<1>0. "source" \in Side /\ "target" \in Side /\ Other("source") = "target" /\ Other("target") = "source"
  BY DEF Side, Other
<1>1. \A s \in Side : \A p : p \in FilesOf(snap[s]) => p.copy < run /\ p.copy <= run
  <2> SUFFICES ASSUME NEW s \in Side, NEW p, p \in FilesOf(snap[s]) PROVE p.copy < run /\ p.copy <= run
    OBVIOUS
  <2>1. p \in Path /\ p.copy < run /\ run \in Nat BY ThereIsRecent
  <2>2. p.copy \in Nat BY <2>1, CopyFacts
  <2> QED BY <2>1, <2>2
<1>2. LinkOps = {}
  <2>1. \A s \in Side : LinksOf(snap[s]) = {} BY KnownIs DEF LinksOf
  <2> QED BY <2>1, LinkMakes DEF Side
<1>3. PICK M \in Pairings("source", AddedBeside("target"), DeletedOn("source")),
           N \in Pairings("target", AddedBeside("source"), DeletedOn("target")) :
        \/ \E p \in SourceFiles \cap TargetFiles : op \in TwoWayShared(p)
        \/ \E p \in DeletedButChanged("source") \cup DeletedButChanged("target") :
             op = Conflict(p, "deleted-on-one-side-but-changed-on-the-other")
        \/ op \in Replay("target", AddedBeside("target"), DeletedOn("source"), M)
        \/ op \in Replay("source", AddedBeside("source"), DeletedOn("target"), N)
  BY <1>2, TwoWayMakes
<1>4. ASSUME NEW p \in SourceFiles \cap TargetFiles, op \in TwoWayShared(p) PROVE Recent(op)
  <2>1. op.path = p /\ op.from = p BY <1>4, SharedPaths
  <2> QED BY <1>0, <1>1, <2>1 DEF Recent, SourceFiles
<1>5. ASSUME NEW s \in Side, NEW K \in Pairings(Other(s), AddedBeside(s), DeletedOn(Other(s))),
             op \in Replay(s, AddedBeside(s), DeletedOn(Other(s)), K)
      PROVE  Recent(op)
  <2>1. Other(s) \in Side /\ Other(Other(s)) = s BY Sides
  <2>2. \A a \in AddedBeside(s) : a.copy < run /\ a.copy <= run BY <1>1, <2>1, Gone
  <2>3. \A d \in DeletedOn(Other(s)) : d.copy < run /\ d.copy <= run BY <1>1, <2>1, Gone
  <2>4. \/ \E a \in AddedBeside(s), d \in DeletedOn(Other(s)) :
             /\ <<a, d>> \in K /\ Pairable(Other(s), a, d)
             /\ op = Relocate(s, d, a, snap[Other(s)][a], "moved")
        \/ \E p \in AddedBeside(s) : (\A m \in K : m[1] # p) /\ op = Fill(s, p, "added")
        \/ \E p \in DeletedOn(Other(s)) : (\A m \in K : m[2] # p) /\ op = Drop(s, p, "deleted")
    BY <1>5, ReplayMakes
  <2>5. CASE \E a \in AddedBeside(s), d \in DeletedOn(Other(s)) : op = Relocate(s, d, a, snap[Other(s)][a], "moved")
    BY <2>2, <2>3, <2>5 DEF Recent, Relocate
  <2>6. CASE \E p \in AddedBeside(s) : op = Fill(s, p, "added") BY <2>2, <2>6 DEF Recent, Fill, Act
  <2>7. CASE \E p \in DeletedOn(Other(s)) : op = Drop(s, p, "deleted") BY <2>3, <2>7 DEF Recent, Drop, Act
  <2> QED BY <2>4, <2>5, <2>6, <2>7
<1>6. ~\E p : op = Conflict(p, "deleted-on-one-side-but-changed-on-the-other") BY DEF Conflict, Act
<1> QED BY <1>0, <1>3, <1>4, <1>5, <1>6

LEMMA PlanKeepsLosers ==
  ASSUME Known, Losers, Keeping, NEW ops \in TwoWayPlans, NEW sourceLoses, NEW all,
         all = Resolved(ops \cup LinkOps, sourceLoses)
  PROVE  Lossless(Executable(all))
<1>0. TypeOK /\ ops \in (IF job.mode = "sync" THEN TwoWayPlans ELSE OneWayPlans) BY DEF Known, Ready, TwoWay
<1>1. \A op \in all :
        \/ op \in ops \cup LinkOps
        \/ \E c \in ops \cup LinkOps, s \in Side :
             /\ Resolvable(c) /\ s = Loser(c.path, sourceLoses)
             /\ \/ op = Push(s, c.path, Resolving)
                \/ op = Relocate(s, c.path, Kept(c.path), snap[s][c.path], "conflict-loser-kept-as-copy")
        \/ \E s \in Side : \E p \in Doomed(s) : op = Drop(s, p, "conflict-copy-over-limit")
  <2> TAKE op \in all
  <2>1. \/ op \in ops \cup LinkOps
        \/ /\ job.policy # "report"
           /\ \E c \in ops \cup LinkOps, s \in Side :
                /\ Resolvable(c) /\ s = Loser(c.path, sourceLoses)
                /\ \/ op = Push(s, c.path, Resolving)
                   \/ /\ job.policy = "copy"
                      /\ op = Relocate(s, c.path, Kept(c.path), snap[s][c.path], "conflict-loser-kept-as-copy")
        \/ /\ job.policy = "copy"
           /\ \E s \in Side : \E p \in Doomed(s) : op = Drop(s, p, "conflict-copy-over-limit")
    BY ResolvedMakes
  <2> QED BY <2>1
<1>2. \A s \in Side : \A p \in Doomed(s) : p.copy < run /\ p.copy <= run
  <2> SUFFICES ASSUME NEW s \in Side, NEW p \in Doomed(s) PROVE p.copy < run /\ p.copy <= run OBVIOUS
  <2>1. p \in Path /\ snap[s][p] \in File \cup {Unreadable} BY <1>0, DoomedAreThere
  <2>2. p \in FilesOf(snap[s]) BY <2>1, KnownIs, ContentAssumption DEF FilesOf, Known, Ready, Agreement, Quietly, File
  <2>3. p.copy < run /\ run \in Nat /\ p.copy \in Nat BY <2>1, <2>2, ThereIsRecent, CopyFacts
  <2> QED BY <2>3
<1>3. ASSUME NEW c \in ops \cup LinkOps, Resolvable(c), NEW s \in Side, s = Loser(c.path, sourceLoses)
      PROVE  /\ Recent(Push(s, c.path, Resolving)) /\ KeptFirst(Push(s, c.path, Resolving), Executable(all))
             /\ Recent(Relocate(s, c.path, Kept(c.path), snap[s][c.path], "conflict-loser-kept-as-copy"))
  <2> DEFINE p == c.path
             u == Push(s, p, Resolving)
             r == Relocate(s, p, Kept(p), snap[s][p], "conflict-loser-kept-as-copy")
  <2>1. p \in SourceFiles \cap TargetFiles BY <1>0, <1>3, ConflictsAreShared
  <2>2. Own(p) BY <1>3 DEF Resolvable, Own
  <2>3. r \in all
    <3>1. Resolution(c, s) \subseteq all BY <1>3, ResolvedKeeps DEF Keeping
    <3>2. r \in Resolution(c, s) BY DEF Resolution, Keeping
    <3> QED BY <3>1, <3>2
  <2>4. u.act = "Update" /\ u.side = s /\ u.path = p /\ u.from = p BY DEF Push, Act
  <2>5. r.act = "Move" /\ r.path = Kept(p) /\ r.from = p /\ Keeper(u) = r BY <2>4 DEF Relocate, Keeper
  <2> HIDE DEF p, u, r
  <2>6. p \in FilesOf(snap[s]) BY <2>1 DEF SourceFiles, TargetFiles, Side
  <2>7. p \in Path /\ p.copy < run /\ run \in Nat /\ p.copy \in Nat BY <2>6, ThereIsRecent, CopyFacts
  <2>8. Kept(p) \in Path /\ Kept(p).copy = run BY <1>0, <2>7, KeptIsPath DEF Keeping, Kept
  <2>9. snap[s][p] = fs[s][p] /\ snap[s][p] \in File
    <3>1. fs[s][p] # Absent /\ snap[s][p] = fs[s][p] /\ snap[s][p] \in File \cup {Absent} BY <2>6, <2>7, KnownIs
    <3> QED BY <3>1
  <2>10. fs[s][Kept(p)] = Absent
    <3>1. pc \in {"scan", "review"} BY DEF Known, Ready
    <3>2. Kept(p).copy >= run BY <2>7, <2>8
    <3> QED BY <2>8, <3>1, <3>2 DEF Losers, CopiesToCome
  <2>11. Recent(u) BY <2>4, <2>7 DEF Recent
  <2>12. Recent(r) BY <2>5, <2>7, <2>8 DEF Recent
  <2>13. Keeper(u) \in Executable(all) BY <2>3, <2>5 DEF Executable
  <2>14. KeptFirst(u, Executable(all)) BY <2>2, <2>4, <2>8, <2>9, <2>10, <2>13 DEF KeptFirst
  <2> QED BY <2>11, <2>12, <2>14 DEF u, r, p
<1>4. ASSUME NEW op \in Executable(all) PROVE Recent(op) /\ (op.why = Resolving => KeptFirst(op, Executable(all)))
  <2>1. op \in all /\ op.act # "Conflict" BY <1>4 DEF Executable
  <2>2. CASE op \in ops \cup LinkOps BY <1>0, <2>1, <2>2, LanesAreRecent, WhysOfLanes
  <2>3. ASSUME NEW c \in ops \cup LinkOps, NEW s \in Side, Resolvable(c), s = Loser(c.path, sourceLoses),
               op = Push(s, c.path, Resolving)
        PROVE  Recent(op) /\ KeptFirst(op, Executable(all))
    BY <1>3, <2>3
  <2>4. ASSUME NEW c \in ops \cup LinkOps, NEW s \in Side, Resolvable(c), s = Loser(c.path, sourceLoses),
               op = Relocate(s, c.path, Kept(c.path), snap[s][c.path], "conflict-loser-kept-as-copy")
        PROVE  Recent(op) /\ op.why # Resolving
    <3>1. op.why = "conflict-loser-kept-as-copy" BY <2>4 DEF Relocate
    <3> QED BY <1>3, <2>4, <3>1 DEF Resolving
  <2>5. ASSUME NEW s \in Side, NEW p \in Doomed(s), op = Drop(s, p, "conflict-copy-over-limit")
        PROVE  Recent(op) /\ op.why # Resolving
    <3>1. op.why = "conflict-copy-over-limit" /\ op.path = p /\ op.from = p BY <2>5 DEF Drop, Act
    <3> QED BY <1>2, <3>1 DEF Recent, Resolving
  <2> QED BY <1>1, <2>1, <2>2, <2>3, <2>4, <2>5
<1> QED BY <1>4 DEF Lossless

(* The steps that change nothing Losers reads, and those that end a run.   *)
LEMMA LosersStay ==
  ASSUME Losers, UNCHANGED <<job, fs, snap, rest, plan, todo, run, pc>> PROVE Losers'
<1>1. OneWayResolvesNothing' /\ CopiesToCome'
  BY DEF Losers, OneWayResolvesNothing, CopiesToCome, Keeping, TwoWay
<1>2. KeepingSees' BY DEF Losers, KeepingSees, Keeping, TwoWay, AsSeen
<1>3. KeepingPlans' /\ KeepingApplies'
  BY DEF Losers, KeepingPlans, KeepingApplies, Keeping, TwoWay, Executable, Lossless, Recent, KeptFirst, Keeper,
         Kept, Own, IsConflictCopy, Relocate, Valid, Recreates
<1> QED BY <1>1, <1>2, <1>3 DEF Losers

LEMMA LosersRest ==
  ASSUME Losers, UNCHANGED <<job, fs, plan, run>>, todo' \subseteq todo, pc' \notin {"scan", "review", "apply"}
  PROVE  Losers'
BY DEF Losers, OneWayResolvesNothing, CopiesToCome, KeepingSees, KeepingPlans, KeepingApplies, Keeping, TwoWay

LEMMA LosersInit == Init => Losers
BY DEF Init, Losers, OneWayResolvesNothing, CopiesToCome, KeepingSees, KeepingPlans, KeepingApplies, Side, Nothing

LEMMA KeepingIsCalm == AllUndisturbed /\ TypeOK /\ Keeping => job.writers = {} /\ job.faults = 0 /\ faults = 0
BY DEF AllUndisturbed, Undisturbed, TypeOK, Keeping, TwoWay

LEMMA PeopleKeepLosers ==
  ASSUME AllUndisturbed, TypeOK, Losers, People, UNCHANGED job PROVE Losers'
<1>1. UNCHANGED <<run, plan, todo, pc>> /\ \E s \in Side : MayEdit(s)
  BY DEF People, Save, Remove, Rename, Edited
<1>2. OneWayResolvesNothing' BY <1>1 DEF Losers, OneWayResolvesNothing, TwoWay
<1>3. ASSUME Keeping PROVE pc = "idle" /\ CopiesToCome'
  <2>1. pc = "idle" BY <1>1, <1>3, KeepingIsCalm DEF MayEdit
  <2>2. \A s \in Side, p \in Path : p.copy > run => fs'[s][p] = Absent
    <3> SUFFICES ASSUME NEW s \in Side, NEW p \in Path, p.copy > run PROVE fs'[s][p] = Absent
      OBVIOUS
    <3>1. fs[s][p] = Absent BY <1>3 DEF Losers, CopiesToCome
    <3>2. p.copy \in Nat /\ run \in Nat BY CopyFacts, JobIsJob DEF TypeOK, Job
    <3>3. IsConflictCopy(p) BY <3>2 DEF IsConflictCopy
    <3> QED BY <3>1, <3>3, PeopleMakeFiles
  <2> QED BY <1>1, <2>1, <2>2 DEF CopiesToCome
<1>4. ~Keeping => CopiesToCome' BY DEF CopiesToCome, Keeping, TwoWay
<1> QED BY <1>1, <1>2, <1>3, <1>4 DEF Losers, KeepingSees, KeepingPlans, KeepingApplies, Keeping, TwoWay

LEMMA StartKeepsLosers ==
  ASSUME TypeOK, Agreement, Losers, StartRun, UNCHANGED job PROVE Losers'
<1>1. UNCHANGED <<fs, snap, plan, todo>> /\ pc' = "scan" /\ rest' = AllPaths /\ run' = run + 1
  BY DEF StartRun, peopleVars
<1>2. TwoWay => AsSeen'
  <2>1. \A s \in Side : rest'[s] = Paths BY <1>1 DEF AllPaths
  <2>2. TwoWay => \A s \in Side : \A p \in Path \ Paths : snap[s][p] = fs[s][p]
    BY DEF Agreement, Quietly, Elsewhere
  <2> QED BY <1>1, <2>1, <2>2 DEF AsSeen
<1>3. OneWayResolvesNothing' BY <1>1 DEF Losers, OneWayResolvesNothing, TwoWay
<1>4. CopiesToCome'
  <2>1. run \in Nat BY JobIsJob DEF TypeOK, Job
  <2>2. \A p \in Path : p.copy >= run + 1 => p.copy > run BY <2>1, CopyFacts
  <2>3. \A p \in Path : p.copy > run + 1 => p.copy > run BY <2>1, CopyFacts
  <2> QED BY <1>1, <2>2, <2>3 DEF Losers, CopiesToCome, Keeping, TwoWay
<1> QED BY <1>1, <1>2, <1>3, <1>4 DEF Losers, KeepingSees, KeepingPlans, KeepingApplies, Keeping, TwoWay

LEMMA ScanKeepsLosers ==
  ASSUME AllUndisturbed, TypeOK, Losers, Scan, UNCHANGED job PROVE Losers'
<1>1. UNCHANGED <<fs, pc, run, plan, todo>> /\ pc \in {"scan", "refresh"}
  BY ScanLeaves DEF Scan, ReadPath, FailToRead
<1>2. OneWayResolvesNothing' /\ CopiesToCome'
  BY <1>1 DEF Losers, OneWayResolvesNothing, CopiesToCome, Keeping, TwoWay
<1>3. KeepingPlans' /\ KeepingApplies' BY <1>1 DEF KeepingPlans, KeepingApplies
<1>4. ASSUME Keeping PROVE AsSeen => AsSeen'
  <2>1. PICK s \in Side : ReadPath(s) \/ \E fault \in job.trouble : FailToRead(s, fault) BY DEF Scan
  <2>2. ~(faults < job.faults) BY <1>4, KeepingIsCalm
  <2>3. \A fault : FailToRead(s, fault) => faults < job.faults BY DEF FailToRead
  <2> QED BY <2>1, <2>2, <2>3, ReadSees
<1>5. KeepingSees' BY <1>1, <1>4 DEF Losers, KeepingSees, Keeping, TwoWay
<1> QED BY <1>2, <1>3, <1>5 DEF Losers

LEMMA CompareKeepsLosers ==
  ASSUME TypeOK, Agreement, Losers, Compare, UNCHANGED job PROVE Losers'
<1>1. UNCHANGED <<fs, snap, rest, run, todo>> /\ pc = "scan" /\ pc' = "review" /\ rest = NoPaths
  BY DEF Compare, peopleVars
<1>2. PICK ops \in (IF job.mode = "sync" THEN TwoWayPlans ELSE OneWayPlans) :
        \E sourceLoses : plan' = Resolved(ops \cup LinkOps, sourceLoses)
  <2>1. PICK ops \in (IF job.mode = "sync" THEN TwoWayPlans ELSE OneWayPlans),
             sourceLoses \in (IF job.policy = "report" THEN {{}} ELSE SUBSET (SourceFiles \cap TargetFiles)) :
          plan' = Resolved(ops \cup LinkOps, sourceLoses)
    BY DEF Compare
  <2> QED BY <2>1
<1>3. PICK sourceLoses : plan' = Resolved(ops \cup LinkOps, sourceLoses) BY <1>2
<1>4. OneWayResolvesNothing'
  BY <1>1, <1>3, OneWayPlanResolvesNothing DEF Losers, OneWayResolvesNothing, TwoWay
<1>5. CopiesToCome' BY <1>1 DEF Losers, CopiesToCome, Keeping, TwoWay
<1>6. KeepingSees' BY <1>1 DEF Losers, KeepingSees, Keeping, TwoWay, AsSeen
<1>7. KeepingPlans'
  <2> SUFFICES ASSUME Keeping PROVE Lossless(Executable(plan))'
    BY DEF KeepingPlans, Keeping, TwoWay
  <2>1. Known /\ ops \in TwoWayPlans
    BY <1>1 DEF Known, Ready, Keeping, TwoWay, Losers, KeepingSees
  <2>2. PICK all : all = Resolved(ops \cup LinkOps, sourceLoses) OBVIOUS
  <2>3. PICK todos : todos = Executable(all) OBVIOUS
  <2>4. Lossless(todos) BY <2>1, <2>2, <2>3, PlanKeepsLosers
  <2>5. Lossless(todos)'
    BY <1>1, <2>4 DEF Lossless, Recent, KeptFirst, Keeper, Kept, Own, IsConflictCopy, Relocate
  <2>6. Executable(plan)' = todos BY <1>3, <2>2, <2>3 DEF Executable
  <2> QED BY <2>5, <2>6 DEF Lossless, KeptFirst
<1>8. KeepingApplies' BY <1>1 DEF KeepingApplies
<1> QED BY <1>4, <1>5, <1>6, <1>7, <1>8 DEF Losers

LEMMA ReviewKeepsLosers ==
  ASSUME AllCareful, TypeOK, Losers, RunAll \/ RunReviewed, UNCHANGED job PROVE Losers'
<1>1. PICK ops, whole : Begin(ops, whole) /\ (RunAll => ops = Executable(plan)) /\ \A op \in ops : \E o \in plan : op.why = o.why
  <2>1. RunAll => Begin(Executable(plan), TRUE) /\ \A op \in Executable(plan) : \E o \in plan : op.why = o.why
    BY DEF RunAll, Executable
  <2>2. ASSUME RunReviewed, ~RunAll
        PROVE  \E ops, whole : Begin(ops, whole) /\ \A op \in ops : \E o \in plan : op.why = o.why
    <3>1. PICK kept \in (SUBSET Executable(plan)) \ {{}} :
            \E turned \in SUBSET {op \in kept : Reversible(op)} :
              Begin(Decided(kept, turned), kept = Executable(plan))
      BY <2>2 DEF RunReviewed
    <3>2. PICK turned \in SUBSET {op \in kept : Reversible(op)} : Begin(Decided(kept, turned), kept = Executable(plan))
      BY <3>1
    <3>3. \A op \in turned : Reversed(op).why = op.why /\ op \in plan
      <4> TAKE op \in turned
      <4>1. op.act = "Copy" \/ op.act = "Update" \/ op.act = "Delete" BY DEF Reversible
      <4>2. Reversed(op).why = op.why BY <4>1 DEF Reversed, Act
      <4> QED BY <4>2 DEF Executable
    <3>4. \A op \in Decided(kept, turned) : \E o \in plan : op.why = o.why
      BY <3>3 DEF Decided, Executable
    <3> QED BY <3>2, <3>4
  <2> QED BY <2>1, <2>2
<1>2. pc = "review" BY DEF RunAll, RunReviewed
<1>3. /\ UNCHANGED <<fs, snap, rest, plan, run>>
      /\ \/ pc' = "apply" /\ todo' = ops /\ Valid(ops)
         \/ pc' = "idle" /\ todo' = {}
  BY <1>1 DEF Begin, peopleVars
<1>4. CASE pc' = "idle" /\ todo' = {} BY <1>3, <1>4, LosersRest
<1>5. CASE pc' = "apply" /\ todo' = ops /\ Valid(ops)
  <2>1. OneWayResolvesNothing' BY <1>1, <1>3, <1>5 DEF Losers, OneWayResolvesNothing, TwoWay
  <2>2. CopiesToCome' BY <1>3, <1>5 DEF Losers, CopiesToCome, Keeping, TwoWay
  <2>3. KeepingApplies'
    <3> SUFFICES ASSUME Keeping PROVE Lossless(todo)' /\ Valid(todo)'
      BY DEF KeepingApplies, Keeping, TwoWay
    <3>1. RunAll BY DEF RunReviewed, AllCareful, Careful, Keeping, TwoWay, TypeOK
    <3>2. Lossless(ops) BY <1>1, <1>2, <3>1 DEF Losers, KeepingPlans
    <3>3. Lossless(ops)'
      BY <1>3, <3>2 DEF Lossless, Recent, KeptFirst, Keeper, Kept, Own, IsConflictCopy, Relocate
    <3>4. Lossless(todo)' BY <1>5, <3>3 DEF Lossless, KeptFirst
    <3> QED BY <1>5, <3>4 DEF Valid, Recreates
  <2> QED BY <1>5, <2>1, <2>2, <2>3 DEF Losers, KeepingSees, KeepingPlans
<1> QED BY <1>3, <1>4, <1>5

LEMMA KeptIsElsewhere ==
  ASSUME TypeOK, Agreement, Keeping, pc = "apply", NEW op, Own(op.path), op.path \in Path
  PROVE  Kept(op.path).copy = run /\ Kept(op.path) # op.path
<1>1. run > 0 BY DEF Agreement, Started
<1>2. Kept(op.path).copy = run BY DEF Kept
<1>3. ~(op.path.copy > 0) BY DEF Own, IsConflictCopy
<1> QED BY <1>1, <1>2, <1>3

\* An operation takes no copy of this run away, and brings one only where there is none.
LEMMA CopiesStand ==
  ASSUME TypeOK, NEW op \in todo, Do(op), Sound(op), Recent(op), NEW s \in Side, NEW k \in Path, k.copy = run,
         fs[s][k] # Absent
  PROVE  fs'[s][k] = fs[s][k]
<1>1. op \in Op /\ op.path \in Path /\ op.from \in Path /\ GoesThrough(op) /\ run \in Nat
  BY DoIs, JobIsJob DEF TypeOK, Job
<1>2. op.from # k BY <1>1 DEF Recent
<1>3. s = op.side => op.path # k
  <2> SUFFICES ASSUME s = op.side, op.path = k PROVE FALSE OBVIOUS
  <2>1. op.act = "Move" BY <1>2 DEF Sound
  <2> QED BY <1>1, <2>1 DEF GoesThrough
<1> QED BY <1>2, <1>3, Untouched DEF Sound

LEMMA DoKeepsFirst ==
  ASSUME TypeOK, Agreement, Keeping, KeepingApplies, UNCHANGED job, NEW op \in todo, Do(op),
         NEW u \in todo \ {op}, u.why = Resolving
  PROVE  KeptFirst(u, todo)'
<1> DEFINE s == u.side
           p == u.path
           k == Kept(p)
           r == Keeper(u)
<1>1. /\ pc = "apply" /\ Lossless(todo) /\ Valid(todo) /\ todo' = todo \ {op} /\ UNCHANGED <<snap, run>>
  BY DoIs DEF KeepingApplies, Do
<1>2. Sound(op) /\ Recent(op) BY <1>1 DEF Agreement, Keeping, Planned, Applying, Lossless
<1>3. KeptFirst(u, todo) BY <1>1 DEF Lossless
<1>4. u \in Op /\ s \in Side /\ p \in Path /\ u # op BY DEF TypeOK, Op
<1>5. /\ op \in Op /\ op.side \in Side /\ op.path \in Path /\ op.from \in Path /\ GoesThrough(op)
      /\ fs' = [fs EXCEPT ![op.side] = Result(op)]
  BY DoIs
<1>6. k \in Path /\ k.copy = run /\ k # p BY <1>1, <1>3, <1>4, KeptIsElsewhere DEF KeptFirst
<1>7. r.act = "Move" /\ r.side = s /\ r.path = k /\ r.from = p BY DEF Keeper, Relocate
<1>8. snap[s][p] \in File /\ snap[s][p] # Absent BY <1>3, ContentAssumption DEF KeptFirst, File
<1>9. run \in Nat BY JobIsJob DEF TypeOK, Job
<1>10. KeptFirst(u, todo)' <=>
         /\ u.act = "Update" /\ Own(p) /\ snap[s][p] \in File /\ k \in Path
         /\ \/ r \in todo' /\ fs'[s][p] = snap[s][p] /\ fs'[s][k] = Absent
            \/ fs'[s][k] = snap[s][p]
  BY <1>1 DEF KeptFirst, Keeper, Kept, Relocate, Own, IsConflictCopy
<1> HIDE DEF s, p, k, r
<1>11. \/ r \in todo /\ fs[s][p] = snap[s][p] /\ fs[s][k] = Absent
       \/ fs[s][k] = snap[s][p]
  BY <1>3 DEF KeptFirst, s, p, k, r
<1>12. u.act = "Update" /\ Own(p) BY <1>3 DEF KeptFirst, p
<1>13. CASE fs[s][k] = snap[s][p]
  <2>1. fs'[s][k] = fs[s][k] BY <1>2, <1>4, <1>6, <1>8, <1>13, CopiesStand
  <2> QED BY <1>6, <1>8, <1>10, <1>12, <1>13, <2>1
<1>14. CASE op = r /\ fs[s][p] = snap[s][p]
  <2>1. fs'[s][k] = fs[s][p]
    <3>1. Result(op)[k] = fs[s][p] BY <1>4, <1>5, <1>6, <1>7, <1>14, ResultMakes
    <3> QED BY <1>4, <1>5, <1>7, <1>14, <3>1 DEF TypeOK
  <2> QED BY <1>6, <1>8, <1>10, <1>12, <1>14, <2>1
<1>15. CASE op # r /\ r \in todo /\ fs[s][p] = snap[s][p] /\ fs[s][k] = Absent
  <2>1. op.side = s => op.path # p /\ op.path # k
    <3>1. u.side = s /\ u.path = p BY DEF s, p
    <3> QED BY <1>1, <1>4, <1>7, <1>15, <3>1 DEF Valid
  <2>2. op.from # k BY <1>2, <1>6, <1>9, <1>5, CopyFacts DEF Recent
  <2>3. op.side = s => op.from # p
    <3>1. CASE op.act = "Move" BY <1>1, <1>7, <1>15, <3>1 DEF Valid
    <3>2. CASE op.act # "Move" BY <1>2, <2>1, <3>2 DEF Sound
    <3> QED BY <3>1, <3>2
  <2>4. fs'[s][p] = fs[s][p] /\ fs'[s][k] = fs[s][k]
    BY <1>2, <1>4, <1>6, <2>1, <2>2, <2>3, Untouched DEF Sound
  <2> QED BY <1>1, <1>6, <1>8, <1>10, <1>12, <1>15, <2>4
<1> QED BY <1>11, <1>13, <1>14, <1>15

LEMMA DoKeepsLosers ==
  ASSUME TypeOK, Agreement, Losers, UNCHANGED job, NEW op \in todo, Do(op) PROVE Losers'
<1>1. /\ UNCHANGED <<snap, run, plan, rest, pc>> /\ pc = "apply" /\ todo' = todo \ {op}
  BY DoIs DEF Do
<1>2. OneWayResolvesNothing' BY <1>1 DEF Losers, OneWayResolvesNothing, TwoWay
<1>3. ASSUME Keeping PROVE CopiesToCome' /\ KeepingApplies'
  <2>1. Sound(op) /\ Lossless(todo) /\ Valid(todo) /\ Recent(op)
    BY <1>1, <1>3 DEF Agreement, Keeping, Planned, Applying, Losers, KeepingApplies, Lossless
  <2>2. op.path \in Path /\ op.from \in Path /\ run \in Nat BY DoIs, JobIsJob DEF TypeOK, Job
  <2>3. \A s \in Side, p \in Path : p.copy > run => fs'[s][p] = Absent
    <3> SUFFICES ASSUME NEW s \in Side, NEW p \in Path, p.copy > run PROVE fs'[s][p] = Absent
      OBVIOUS
    <3>1. fs[s][p] = Absent BY <1>3 DEF Losers, CopiesToCome
    <3>2. p # op.path /\ p # op.from BY <2>1, <2>2, CopyFacts DEF Recent
    <3> QED BY <2>1, <3>1, <3>2, Untouched DEF Sound
  <2>4. CopiesToCome' BY <1>1, <2>3 DEF CopiesToCome
  <2>5. \A o \in todo' : Recent(o)' BY <1>1, <2>1 DEF Lossless, Recent
  <2>6. \A u \in todo' : u.why = Resolving => KeptFirst(u, todo)'
    BY <1>1, <1>3, DoKeepsFirst DEF Losers
  <2>7. Valid(todo)' BY <1>1, <2>1 DEF Valid, Recreates
  <2> QED BY <2>4, <2>5, <2>6, <2>7 DEF KeepingApplies, Lossless, KeptFirst
<1>4. ~Keeping => CopiesToCome' /\ KeepingApplies' BY DEF CopiesToCome, KeepingApplies, Keeping, TwoWay
<1> QED BY <1>1, <1>2, <1>3, <1>4 DEF Losers, KeepingSees, KeepingPlans

LEMMA FailKeepsLosers ==
  ASSUME AllUndisturbed, TypeOK, Losers, UNCHANGED job, NEW op \in todo, Fail(op) PROVE Losers'
<1>1. /\ UNCHANGED <<fs, snap, run, plan, rest, pc>> /\ pc = "apply" /\ todo' = todo \ {op}
  BY DEF Fail, Due, peopleVars
<1>2. OneWayResolvesNothing' /\ CopiesToCome'
  BY <1>1 DEF Losers, OneWayResolvesNothing, CopiesToCome, Keeping, TwoWay
<1>3. ASSUME Keeping PROVE KeepingApplies'
  <2>1. Lossless(todo) /\ Valid(todo) BY <1>1, <1>3 DEF Losers, KeepingApplies
  <2>2. ~GoesThrough(op)
    <3>1. ~(faults < job.faults) BY <1>3, KeepingIsCalm
    <3> QED BY <3>1 DEF Fail
  <2>3. ASSUME NEW u \in todo', u.why = Resolving PROVE KeptFirst(u, todo)'
    <3>1. KeptFirst(u, todo) BY <1>1, <2>1, <2>3 DEF Lossless
    <3>2. CASE fs[u.side][Kept(u.path)] = snap[u.side][u.path]
      BY <1>1, <3>1, <3>2 DEF KeptFirst, Kept, Own, IsConflictCopy
    <3>3. CASE /\ Keeper(u) \in todo /\ fs[u.side][u.path] = snap[u.side][u.path]
               /\ fs[u.side][Kept(u.path)] = Absent
      <4>1. GoesThrough(Keeper(u)) BY <3>1, <3>3 DEF GoesThrough, Keeper, Relocate, KeptFirst
      <4>2. Keeper(u) \in todo' BY <1>1, <2>2, <3>3, <4>1
      <4> QED BY <1>1, <3>1, <3>3, <4>2 DEF KeptFirst, Keeper, Relocate, Kept, Own, IsConflictCopy
    <3> QED BY <3>1, <3>2, <3>3 DEF KeptFirst
  <2>4. \A o \in todo' : Recent(o)' BY <1>1, <2>1 DEF Lossless, Recent
  <2>5. Valid(todo)' BY <1>1, <2>1 DEF Valid, Recreates
  <2> QED BY <2>3, <2>4, <2>5 DEF KeepingApplies, Lossless, KeptFirst
<1>4. ~Keeping => KeepingApplies' BY DEF KeepingApplies, Keeping, TwoWay
<1> QED BY <1>1, <1>2, <1>3, <1>4 DEF Losers, KeepingSees, KeepingPlans

LEMMA LosersStep == ASSUME AllCareful, AllUndisturbed, TypeOK, Agreement, Losers, [Next]_vars PROVE Losers'
<1>1. CASE UNCHANGED vars BY <1>1, LosersStay DEF vars
<1>2. CASE Next
  <2>1. UNCHANGED job /\ (People \/ StartRun \/ Scan \/ Compare \/ RunAll \/ RunReviewed \/ Decline
          \/ Apply \/ EndApply \/ Stop \/ Publish \/ PublishFails)
    BY <1>2 DEF Next
  <2>2. CASE Decline \/ EndApply \/ Stop \/ Publish \/ PublishFails
    <3>1. UNCHANGED <<fs, plan, run>> /\ todo' \subseteq todo /\ pc' \notin {"scan", "review", "apply"}
      BY <2>2 DEF Decline, EndApply, Stop, Publish, PublishFails, peopleVars
    <3> QED BY <2>1, <3>1, LosersRest
  <2>3. CASE Apply BY <2>1, <2>3, DoKeepsLosers, FailKeepsLosers DEF Apply
  <2> QED BY <2>1, <2>2, <2>3, PeopleKeepLosers, StartKeepsLosers, ScanKeepsLosers, CompareKeepsLosers,
             ReviewKeepsLosers
<1> QED BY <1>1, <1>2

LEMMA WinnerStep ==
  ASSUME TypeOK, Agreement, Losers, [Next]_vars, NEW op \in todo, op.why = Resolving, job.policy = "copy",
         fs'[op.side][op.path] # fs[op.side][op.path], saves' = saves, op \notin todo'
  PROVE  fs[op.side][Kept(op.path)] = snap[op.side][op.path]
<1>1. PICK o \in todo : Do(o)
  <2>1. fs' # fs OBVIOUS
  <2> QED BY <2>1, ChangesAreDone
<1>2. o = op BY <1>1 DEF Do
<1>3. Due(op) /\ pc = "apply" BY <1>1, <1>2 DEF Do, Due
<1>4. Keeping BY DEF Losers, OneWayResolvesNothing, Keeping
<1>5. KeptFirst(op, todo) BY <1>3, <1>4 DEF Losers, KeepingApplies, Lossless
<1>6. Rank(op) = 1 BY <1>5 DEF KeptFirst, Rank
<1>7. Rank(Keeper(op)) = 0 BY DEF Keeper, Relocate, Rank
<1>8. Keeper(op) \notin todo BY <1>3, <1>6, <1>7 DEF Due
<1> QED BY <1>5, <1>8 DEF KeptFirst

(* When the winner of a conflict lands on the loser's path, the loser is   *)
(* in its copy: the move that keeps it is planned with the update, is due  *)
(* before it, and nothing else in a valid plan reaches the copy's name.    *)
THEOREM LosersAreKept == ASSUME AllCareful, AllUndisturbed PROVE Spec => LoserIsKept
<1>1. Init => TypeOK /\ Agreement /\ Losers BY TypeInit, AgreementInit, LosersInit
<1>2. TypeOK /\ Agreement /\ Losers /\ [Next]_vars => (TypeOK /\ Agreement /\ Losers)'
  BY TypeStep, AgreementStep, LosersStep
<1>3. TypeOK /\ Agreement /\ Losers /\ [Next]_vars =>
        [\A op \in todo :
           /\ op.why = "conflict-resolved-newer-wins" /\ job.policy = "copy"
           /\ pc' = "apply"
           /\ fs'[op.side][op.path] # fs[op.side][op.path]
           /\ saves' = saves
           /\ op \notin todo'
           => fs[op.side][Kept(op.path)] = snap[op.side][op.path]]_vars
  BY WinnerStep DEF Resolving
<1> QED BY <1>1, <1>2, <1>3, PTL DEF Spec, LoserIsKept
=============================================================================
