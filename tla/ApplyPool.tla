------------------------------ MODULE ApplyPool ------------------------------
(***************************************************************************)
(* One Apply run as workflow/pipeline/apply/coordination.rs drives it: the *)
(* plan is validated, both roots are locked, the operations run class by   *)
(* class over a pool of workers that draw tickets, share the memo of the   *)
(* directories made so far and the counters, and the run is wound up.      *)
(*                                                                         *)
(* A plan may be imported, so any plan may arrive.  Copying or moving one  *)
(* file is a step here (FileTransaction has its inside); removing a        *)
(* directory is taken apart, as it has none.  The user cancels, the lock   *)
(* of a root is lost, backends fail and people edit at any moment.         *)
(***************************************************************************)
EXTENDS Naturals, Sequences, FiniteSets, SequencesExt

CONSTANTS
  Worker,       \* the threads run_class may start
  Folder, Leaf, \* paths of directories, and of files and symlinks
  Symlink,      \* the leaves that are symlinks
  Top, Up,      \* the root itself, and the parent of each path
  Deletable,    \* leaves the job lets go with their directory (filter.is_deletable)
  Plans,        \* the plans that may arrive
  Before,       \* what the roots hold when the run starts
  Delta,        \* ApplyOptions.delta: updates run in a class of their own, one by one
  Parallel,     \* ApplyOptions.parallel
  Streams,      \* the smaller max_parallel_streams of the two backends
  MaxMeddling,  \* bound: changes people make to the roots
  MaxSetbacks   \* bound: backend errors

Side == {"source", "target"}
Entry == Folder \cup Leaf
Action == {"move", "copy", "update", "chmod", "delete", "deldir", "note"}
PlanOp == [act : Action, side : Side, path : Entry, from : Entry]

ASSUME PoolAssumption ==
  /\ IsFiniteSet(Worker) /\ IsFiniteSet(Entry)
  /\ Folder \cap Leaf = {} /\ Symlink \subseteq Leaf /\ Deletable \subseteq Leaf
  /\ Top \notin Entry /\ Up \in [Entry -> Folder \cup {Top}]
  /\ Plans \subseteq Seq(PlanOp)
  /\ Before \in [Side -> [Entry -> {"none", "dir", "old", "new"}]]
  /\ \A s \in Side, p \in Leaf : Before[s][p] # "dir"
  /\ Delta \in BOOLEAN /\ Parallel \in Nat /\ Streams \in Nat
  /\ MaxMeddling \in Nat /\ MaxSetbacks \in Nat

VARIABLES
  plan,       \* the operations of this run
  dry,        \* ApplyOptions.dry_run
  versioned,  \* the sides with a version writer: ApplyOptions.versioning and a local root
  tree,       \* what each root holds: nothing, a directory, old content or that of the plan
  phase,      \* where the run is
  class,      \* the class that runs
  next,       \* the next ticket of the class
  at, task,   \* where each worker is, and the operation it works on
  memo,       \* mkdir_memo: the directories ensured on each side
  walk,       \* the walk of a directory that would not go
  outcome,    \* how each operation was recorded, "untried" before
  records,    \* how often each operation was recorded
  tally,      \* Counters and the items of PhaseProgress
  versions,   \* whether the version writer of each side was opened, and what became of it
  healthy,    \* lease_healthy_for_wrapup
  summary,    \* the outcome the run reports
  stopAsked, leaseLost,
  meddling, setbacks

poolTree   == <<tree, memo, walk, versions>>
poolCounts == <<outcome, records, tally>>
poolSteps  == <<phase, class, next, at, task>>
poolWorld  == <<stopAsked, leaseLost, meddling, setbacks>>
poolVars   == <<plan, dry, versioned, poolTree, poolCounts, poolSteps, healthy, summary, poolWorld>>

Ops == DOMAIN plan
NoWalk == [todo |-> {}, leaves |-> {}, dirs |-> {}]
NoTally == [done |-> 0, skipped |-> 0, errors |-> 0, items |-> 0, lossRecorded |-> FALSE]
NoSummary == [done |-> 0, skipped |-> 0, errors |-> 0, cancelled |-> FALSE, ended |-> "none"]

PoolInit ==
  /\ plan \in Plans /\ dry \in BOOLEAN /\ versioned \in SUBSET Side
  /\ tree = Before /\ phase = "validate" /\ class = 0 /\ next = 1
  /\ at = [w \in Worker |-> "out"] /\ task = [w \in Worker |-> 0]
  /\ memo = {} /\ walk = NoWalk /\ versions = [s \in Side |-> "none"]
  /\ outcome = [i \in Ops |-> "untried"] /\ records = [i \in Ops |-> 0]
  /\ tally = NoTally /\ healthy = FALSE /\ summary = NoSummary
  /\ stopAsked = FALSE /\ leaseLost = FALSE /\ meddling = 0 /\ setbacks = 0

-----------------------------------------------------------------------------
(* The plan: its validation, its classes and the width of each.            *)

Executable(o) == o.act # "note"
MutatesPath(o) == o.act \notin {"note", "deldir"}

(* is_ordered_move_source_recreation: a move gives a name up, and exactly  *)
(* one update writes that name again.                                      *)
Recreates(moving, o) ==
  /\ moving.act = "move" /\ o.act = "update" /\ moving.side = o.side /\ moving.from = o.path
  /\ Cardinality({i \in Ops : plan[i].act = "move" /\ plan[i].side = moving.side
                                /\ plan[i].from = moving.from}) = 1
  /\ Cardinality({i \in Ops : MutatesPath(plan[i]) /\ plan[i].side = o.side
                                /\ plan[i].path = o.path}) = 1

(* validate_operation_paths reads the plan once, with the mutated paths    *)
(* and the sources of moves it has met so far.                             *)
Recreated(o, side, path) ==
  \E j \in Ops : plan[j].path = path /\ Recreates(o, plan[j])
RecreatesSome(o) == \E j \in Ops : Recreates(plan[j], o)

MoveFits(o, met) ==
  o.act # "move" \/
  /\ o.from # o.path
  /\ <<o.side, o.from>> \notin met.sources
  /\ <<o.side, o.from>> \in met.mutations => Recreated(o, o.side, o.from)
MutationFits(o, met) ==
  ~MutatesPath(o) \/
  /\ <<o.side, o.path>> \in met.sources => RecreatesSome(o)
  /\ <<o.side, o.path>> \notin met.mutations

Sources(o) == IF o.act = "move" THEN {<<o.side, o.from>>} ELSE {}
Meets(met, o) ==
  LET moved == [met EXCEPT !.sources = @ \cup Sources(o)]
  IN  [fits      |-> met.fits /\ MoveFits(o, met) /\ MutationFits(o, moved),
       sources   |-> moved.sources,
       mutations |-> met.mutations \cup (IF MutatesPath(o) THEN {<<o.side, o.path>>} ELSE {})]
PlanAccepted ==
  FoldLeft(LAMBDA met, o : IF Executable(o) THEN Meets(met, o) ELSE met,
           [fits |-> TRUE, sources |-> {}, mutations |-> {}], plan).fits

(* A path and the directories it lies in: what every set that holds the    *)
(* path, and with each path its parent, has.                               *)
Above ==
  LET closed == {S \in SUBSET Entry : \A q \in S : Up[q] \in S \cup {Top}}
  IN  [p \in Entry |-> {q \in Entry : \A S \in closed : p \in S => q \in S}]
Depth == [p \in Entry |-> Cardinality(Above[p])]

Rank(o) ==
  CASE o.act = "move" -> 1
    [] o.act = "copy" \/ (o.act = "update" /\ ~Delta) -> 2
    [] o.act = "update" -> 3
    [] o.act = "chmod" -> 4
    [] o.act = "delete" -> 5
    [] o.act = "deldir" -> 6
    [] OTHER -> 7
(* The order within a class is that of the plan, but the deepest           *)
(* directories go first.                                                   *)
Ahead(i, j) ==
  LET deep(k) == IF plan[k].act = "deldir" THEN Depth[plan[k].path] ELSE 0
  IN  deep(i) > deep(j) \/ (deep(i) = deep(j) /\ i < j)
OfClass(c) == {i \in Ops : Rank(plan[i]) = c}
Turn(i, c) == 1 + Cardinality({j \in OfClass(c) : Ahead(j, i)})
Queue(c) == [t \in 1..Cardinality(OfClass(c)) |-> CHOOSE i \in OfClass(c) : Turn(i, c) = t]

(* copy_width and the clamp of run_class.                                  *)
Smaller(a, b) == IF a < b THEN a ELSE b
Repeats == \E i, j \in Ops : i # j /\ Rank(plan[i]) = 2 /\ Rank(plan[j]) = 2
             /\ plan[i].side = plan[j].side /\ plan[i].path = plan[j].path
CopyWidth == IF Repeats \/ Smaller(Parallel, Streams) = 0 THEN 1 ELSE Smaller(Parallel, Streams)
Width(c) == Smaller(IF c = 2 THEN CopyWidth ELSE 1, Len(Queue(c)))

-----------------------------------------------------------------------------
(* Before the first operation.                                             *)

SummaryOf(done, skipped, errors, ended) ==
  [done |-> done, skipped |-> skipped, errors |-> errors, cancelled |-> FALSE, ended |-> ended]

(* The status with which PhaseProgress announces the end of the phase.     *)
Ended == IF leaseLost THEN "failed" ELSE IF stopAsked THEN "cancelled" ELSE "completed"

Refuse == phase' = "report" /\ summary' = SummaryOf(0, Len(plan), 1, "none") /\ UNCHANGED tally

Setback == setbacks < MaxSetbacks /\ setbacks' = setbacks + 1

Notes == Cardinality({i \in Ops : ~Executable(plan[i])})

Validate ==
  /\ phase = "validate"
  /\ \/ ~PlanAccepted /\ Refuse
     \/ /\ PlanAccepted /\ dry /\ phase' = "report" /\ UNCHANGED tally
        /\ summary' = SummaryOf(0, Len(plan), 0, Ended)
     \/ /\ PlanAccepted /\ ~dry /\ phase' = "lock" /\ UNCHANGED summary
        /\ tally' = [tally EXCEPT !.skipped = Notes]
  /\ UNCHANGED <<plan, dry, versioned, poolTree, outcome, records, class, next, at, task, healthy,
                 poolWorld>>

(* Source, target and then the central trash: either all three are had, or *)
(* the run is refused.                                                     *)
Prepare ==
  /\ phase = "lock"
  /\ \/ phase' = "run" /\ UNCHANGED <<summary, tally, setbacks>>
     \/ Setback /\ Refuse
  /\ UNCHANGED <<plan, dry, versioned, poolTree, outcome, records, class, next, at, task, healthy,
                 stopAsked, leaseLost, meddling>>

(* run_class returns when every worker has left.                           *)
ClassEnds == \A w \in Worker : at[w] = "out"

NextClass ==
  /\ phase = "run" /\ ClassEnds
  /\ IF class = 6
     THEN phase' = "wrapup" /\ UNCHANGED <<class, next, at>>
     ELSE /\ class' = class + 1 /\ next' = 1 /\ UNCHANGED phase
          /\ \E pool \in SUBSET {w \in Worker : at[w] = "out"} :
               /\ Cardinality(pool) = Width(class + 1)
               /\ at' = [w \in Worker |-> IF w \in pool THEN "idle" ELSE at[w]]
  /\ UNCHANGED <<plan, dry, versioned, poolTree, poolCounts, task, healthy, summary, poolWorld>>

-----------------------------------------------------------------------------
(* A worker.                                                               *)

MustStop == stopAsked \/ leaseLost
OpOf(w) == plan[task[w]]
Move(w, to) == at' = [at EXCEPT ![w] = to]

(* Each operation ends in a record: "ok", "kept", "failed" or "stopped".   *)
Ends(w, how) == Move(w, how)
Endings == {"ok", "kept", "failed", "stopped"}

(* The lease is looked at before the cancellation.                         *)
Interrupted(w) == Ends(w, IF leaseLost THEN "failed" ELSE "stopped")

FirstStep(o) ==
  CASE o.act \in {"copy", "update", "move"} -> IF Up[o.path] = Top THEN "write" ELSE "ensure"
    [] o.act \in {"chmod", "delete"} -> "write"
    [] o.act = "deldir" -> "try"

(* One ticket, then the cooperation point before the operation.            *)
Take(w) ==
  /\ phase = "run" /\ at[w] = "idle"
  /\ next' = next + 1
  /\ IF next > Len(Queue(class)) \/ MustStop
     THEN Move(w, "out") /\ UNCHANGED task
     ELSE Move(w, "begin") /\ task' = [task EXCEPT ![w] = Queue(class)[next]]
  /\ UNCHANGED <<plan, dry, versioned, phase, class, poolTree, poolCounts, healthy, summary,
                 poolWorld>>

(* exec_op looks once more.                                                *)
BeginOp(w) ==
  /\ at[w] = "begin"
  /\ IF MustStop THEN Interrupted(w) ELSE Move(w, FirstStep(OpOf(w)))
  /\ UNCHANGED <<plan, dry, versioned, phase, class, next, task, poolTree, poolCounts, healthy,
                 summary, poolWorld>>

Has(s, p) == tree[s][p] # "none"
Present(s, p) == IF p = Top THEN TRUE ELSE tree[s][p] = "dir"
Put(s, p, what) == tree' = [tree EXCEPT ![s][p] = what]

Under(p) == {q \in Entry : p \in Above[q] /\ q # p}
Children(s, p) == {q \in Entry : Up[q] = p /\ Has(s, q)}

(* ensure_dir: the memo is read under its lock, the directory is made      *)
(* without it, and the memo is written under it again.                     *)
Ensure(w) ==
  /\ at[w] = "ensure"
  /\ LET key == <<OpOf(w).side, Up[OpOf(w).path]>>
     IN  IF key \in memo THEN Move(w, "write") ELSE Move(w, IF leaseLost THEN "failed" ELSE "make")
  /\ UNCHANGED <<plan, dry, versioned, phase, class, next, task, poolTree, poolCounts, healthy,
                 summary, poolWorld>>

MakeDir(w) ==
  /\ at[w] = "make"
  /\ LET s == OpOf(w).side
         wanted == Above[Up[OpOf(w).path]]
     IN  \/ /\ \A d \in wanted : tree[s][d] \in {"none", "dir"}
            /\ tree' = [tree EXCEPT ![s] = [p \in Entry |-> IF p \in wanted THEN "dir" ELSE @[p]]]
            /\ Move(w, "note") /\ UNCHANGED setbacks
         \/ /\ (\E d \in wanted : tree[s][d] \notin {"none", "dir"}) /\ UNCHANGED setbacks
            /\ Ends(w, "failed") /\ UNCHANGED tree
         \/ Setback /\ Ends(w, "failed") /\ UNCHANGED tree
  /\ UNCHANGED <<plan, dry, versioned, phase, class, next, task, memo, walk, versions, poolCounts,
                 healthy, summary, stopAsked, leaseLost, meddling>>

NoteDir(w) ==
  /\ at[w] = "note" /\ Move(w, "write")
  /\ memo' = memo \cup {<<OpOf(w).side, Up[OpOf(w).path]>>}
  /\ UNCHANGED <<plan, dry, versioned, phase, class, next, task, tree, walk, versions, poolCounts,
                 healthy, summary, poolWorld>>

(* What the transaction of one file asks of the tree.  What is replaced or *)
(* deleted is only asked to be there: a directory goes into the trash with *)
(* all it holds, but the version writer reads a file.                      *)
Displaces(o) == o.act \in {"copy", "update", "delete"} /\ Has(o.side, o.path)
Retainable(o) == tree[o.side][o.path] = "dir" => o.side \notin versioned
Possible(o) ==
  CASE o.act \in {"copy", "update"} -> Present(o.side, Up[o.path]) /\ Retainable(o)
    [] o.act = "move" -> /\ Present(o.side, Up[o.path]) /\ ~Has(o.side, o.path)
                         /\ tree[o.side][o.from] \in {"old", "new"}
    [] o.act = "chmod" -> Has(o.side, o.path)
    [] o.act = "delete" -> Retainable(o)

(* The names it takes the entries from, into the trash, the versions or    *)
(* the claim of a move; and what it leaves when all went well.             *)
Departing(o) ==
  CASE o.act = "move" -> {o.from}
    [] Displaces(o) -> {o.path} \cup Under(o.path)
    [] OTHER -> {}
Cleared(o) == [p \in Entry |-> IF p \in Departing(o) THEN "none" ELSE tree[o.side][p]]
Landed(o) ==
  CASE o.act \in {"copy", "update"} -> [Cleared(o) EXCEPT ![o.path] = "new"]
    [] o.act = "move" -> [Cleared(o) EXCEPT ![o.path] = tree[o.side][o.from]]
    [] OTHER -> Cleared(o)

(* A move claims its source before it looks at the destination.            *)
Started(o) == Possible(o) \/ (o.act = "move" /\ tree[o.side][o.from] \in {"old", "new"})

RootIs(o, what) == tree' = [tree EXCEPT ![o.side] = what]
WithWriter(o) ==
  IF Displaces(o) /\ o.side \in versioned THEN [versions EXCEPT ![o.side] = "open"] ELSE versions

(* An error or a stop may come before the first change, between the        *)
(* departure and the landing, and, if it is an error, after the landing:   *)
(* a directory that could not be synced.  The source of a move stays under *)
(* its claim once the lock is lost.                                        *)
Write(w) ==
  LET o == OpOf(w) IN
  /\ at[w] = "write"
  /\ \/ /\ Possible(o) /\ Ends(w, "ok") /\ UNCHANGED setbacks
        /\ RootIs(o, Landed(o)) /\ versions' = WithWriter(o)
     \/ /\ ~Possible(o) /\ Ends(w, "failed") /\ UNCHANGED <<tree, setbacks>>
        /\ versions' \in {versions, WithWriter(o)}
     \/ /\ MustStop /\ Interrupted(w) /\ UNCHANGED setbacks
        /\ UNCHANGED tree \/ (Started(o) /\ RootIs(o, Cleared(o)))
        /\ versions' \in {versions, WithWriter(o)}
     \/ /\ Setback /\ Ends(w, "failed")
        /\ UNCHANGED tree \/ (Possible(o) /\ \E left \in {Cleared(o), Landed(o)} : RootIs(o, left))
        /\ versions' \in {versions, WithWriter(o)}
  /\ UNCHANGED <<plan, dry, versioned, phase, class, next, task, memo, walk, poolCounts, healthy,
                 summary, stopAsked, leaseLost, meddling>>

-----------------------------------------------------------------------------
(* try_delete_dir_vfs.  Every call that changes something looks at the     *)
(* lease first; an error of the kind "not empty" is recorded as kept.      *)

RemoveDir(s, d) == tree[s][d] = "dir" /\ Children(s, d) = {}
Refused(w) == Ends(w, "failed") /\ UNCHANGED <<tree, walk>>

TryDir(w) ==
  LET s == OpOf(w).side  d == OpOf(w).path IN
  /\ at[w] = "try"
  /\ \/ leaseLost /\ Refused(w) /\ UNCHANGED setbacks
     \/ /\ ~leaseLost /\ RemoveDir(s, d) /\ Put(s, d, "none")
        /\ Ends(w, "ok") /\ UNCHANGED <<walk, setbacks>>
     \/ ~leaseLost /\ ~Has(s, d) /\ Ends(w, "ok") /\ UNCHANGED <<tree, walk, setbacks>>
     \/ ~leaseLost /\ tree[s][d] \in {"old", "new"} /\ Refused(w) /\ UNCHANGED setbacks
     \/ /\ ~leaseLost /\ tree[s][d] = "dir" /\ Children(s, d) # {}
        /\ walk' = [NoWalk EXCEPT !.todo = {d}]
        /\ Move(w, "walk") /\ UNCHANGED <<tree, setbacks>>
     \/ Setback /\ Refused(w)
  /\ UNCHANGED <<plan, dry, versioned, phase, class, next, task, memo, versions, poolCounts,
                 healthy, summary, stopAsked, leaseLost, meddling>>

(* One read_dir; a directory that went meanwhile is passed over.           *)
WalkDir(w) ==
  LET s == OpOf(w).side IN
  /\ at[w] = "walk"
  /\ \/ \E d \in walk.todo :
          LET found == IF tree[s][d] = "dir" THEN Children(s, d) ELSE {}
              below == {q \in found : tree[s][q] = "dir"}
          IN  /\ walk' = [todo |-> (walk.todo \ {d}) \cup below, dirs |-> walk.dirs \cup below,
                          leaves |-> walk.leaves \cup (found \ below)]
              /\ UNCHANGED <<at, setbacks>>
     \/ walk.todo # {} /\ Setback /\ Ends(w, "failed") /\ UNCHANGED walk
     \/ walk.todo = {} /\ Move(w, "judge") /\ UNCHANGED <<walk, setbacks>>
  /\ UNCHANGED <<plan, dry, versioned, phase, class, next, task, tree, memo, versions, poolCounts,
                 healthy, summary, stopAsked, leaseLost, meddling>>

(* Seeded fault: symlinks are not counted among what is left.              *)
MustStayLinkless == (walk.leaves \ Symlink) \ Deletable # {}

(* One leftover that the job does not let go keeps the whole directory.    *)
MustStay == walk.leaves \ Deletable # {}

JudgeDir(w) ==
  /\ at[w] = "judge"
  /\ Move(w, IF MustStay THEN "kept" ELSE "clear")
  /\ UNCHANGED <<plan, dry, versioned, phase, class, next, task, poolTree, poolCounts, healthy,
                 summary, poolWorld>>

(* The leaves first, then the directories from the deepest, at last the    *)
(* one to delete.                                                          *)
ClearLeaf(w) ==
  LET s == OpOf(w).side IN
  \E p \in walk.leaves :
    /\ Put(s, p, "none") /\ walk' = [walk EXCEPT !.leaves = @ \ {p}] /\ UNCHANGED at
ClearDir(w) ==
  LET s == OpOf(w).side  last == walk.dirs = {} IN
  /\ walk.leaves = {}
  /\ \E d \in IF last THEN {OpOf(w).path} ELSE walk.dirs :
       /\ last \/ \A q \in walk.dirs : Depth[q] <= Depth[d]
       /\ IF Has(s, d) /\ ~RemoveDir(s, d)
          THEN Ends(w, "kept") /\ UNCHANGED <<tree, walk>>
          ELSE /\ Put(s, d, "none") /\ walk' = [walk EXCEPT !.dirs = @ \ {d}]
               /\ IF last THEN Ends(w, "ok") ELSE UNCHANGED at
Clear(w) ==
  /\ at[w] = "clear"
  /\ \/ leaseLost /\ Refused(w) /\ UNCHANGED setbacks
     \/ ~leaseLost /\ (ClearLeaf(w) \/ ClearDir(w)) /\ UNCHANGED setbacks
     \/ Setback /\ Refused(w)
  /\ UNCHANGED <<plan, dry, versioned, phase, class, next, task, memo, versions, poolCounts,
                 healthy, summary, stopAsked, leaseLost, meddling>>

-----------------------------------------------------------------------------
(* ledger.rs: what became of the operation.  Only a cancellation leaves    *)
(* the class; any other trouble goes on to the next ticket.  Seeded fault  *)
(* first: the progress counts what was stopped, too.                       *)

Counted(how) ==
  [done    |-> tally.done + (IF how = "ok" THEN 1 ELSE 0),
   skipped |-> tally.skipped + (IF how = "kept" THEN 1 ELSE 0),
   errors  |-> tally.errors + (IF how = "failed" THEN 1 ELSE 0),
   items   |-> tally.items + (IF how = "stopped" THEN 0 ELSE 1),
   lossRecorded |-> tally.lossRecorded \/ (how = "failed" /\ leaseLost)]

Record(w) ==
  /\ at[w] \in Endings
  /\ outcome' = [outcome EXCEPT ![task[w]] = at[w]]
  /\ records' = [records EXCEPT ![task[w]] = @ + 1]
  /\ tally' = Counted(at[w])
  /\ Move(w, IF at[w] = "stopped" THEN "out" ELSE "idle")
  /\ UNCHANGED <<plan, dry, versioned, phase, class, next, task, poolTree, healthy, summary,
                 poolWorld>>

-----------------------------------------------------------------------------
(* The end of the run.                                                     *)

WrapUp ==
  /\ phase = "wrapup" /\ phase' = "source" /\ healthy' = ~leaseLost
  /\ UNCHANGED <<plan, dry, versioned, poolTree, poolCounts, class, next, at, task, summary,
                 poolWorld>>

(* finalize_version_side.                                                  *)
Finalize(s) ==
  /\ phase = s /\ phase' = IF s = "source" THEN "target" ELSE "sum"
  /\ \/ versions[s] = "none" /\ UNCHANGED <<versions, tally, setbacks>>
     \/ /\ versions[s] = "open" /\ healthy /\ ~leaseLost /\ UNCHANGED <<tally, setbacks>>
        /\ versions' = [versions EXCEPT ![s] = "indexed"]
     \/ /\ versions[s] = "open" /\ healthy /\ ~leaseLost /\ Setback /\ UNCHANGED versions
        /\ tally' = [tally EXCEPT !.errors = @ + 1]
     \/ /\ versions[s] = "open" /\ ~(healthy /\ ~leaseLost) /\ UNCHANGED <<tally, setbacks>>
        /\ versions' = [versions EXCEPT ![s] = "left"]
  /\ UNCHANGED <<plan, dry, versioned, tree, memo, walk, outcome, records, class, next, at, task,
                 healthy, summary, stopAsked, leaseLost, meddling>>

(* Seeded fault: the loss counts only if an operation met it.              *)
SumUpForgetful ==
  /\ phase = "sum" /\ phase' = "report"
  /\ summary' = SummaryOf(tally.done, tally.skipped, tally.errors,
                          Ended)
  /\ UNCHANGED <<plan, dry, versioned, poolTree, poolCounts, class, next, at, task, healthy,
                 poolWorld>>

(* A loss that no operation ran into is an error of the run.               *)
SumUp ==
  /\ phase = "sum" /\ phase' = "report"
  /\ summary' = SummaryOf(tally.done, tally.skipped,
                          tally.errors + (IF leaseLost /\ ~tally.lossRecorded THEN 1 ELSE 0),
                          Ended)
  /\ UNCHANGED <<plan, dry, versioned, poolTree, poolCounts, class, next, at, task, healthy,
                 poolWorld>>

(* ApplyOutcome::finish folds the cancellation in again, whatever the      *)
(* engine said of it.                                                      *)
ReportRun ==
  /\ phase = "report" /\ phase' = "over"
  /\ summary' = [summary EXCEPT !.cancelled = stopAsked]
  /\ UNCHANGED <<plan, dry, versioned, poolTree, poolCounts, class, next, at, task, healthy,
                 poolWorld>>

-----------------------------------------------------------------------------
(* The user, the lock and the people.                                      *)

AtWork == phase \in {"run", "wrapup", "source", "target", "sum"}

CancelPool ==
  /\ phase # "over" /\ ~stopAsked /\ stopAsked' = TRUE
  /\ UNCHANGED <<plan, dry, versioned, poolTree, poolCounts, poolSteps, healthy, summary,
                 leaseLost, meddling, setbacks>>
LoseRoot ==
  /\ AtWork /\ ~leaseLost /\ leaseLost' = TRUE
  /\ UNCHANGED <<plan, dry, versioned, poolTree, poolCounts, poolSteps, healthy, summary,
                 stopAsked, meddling, setbacks>>

Meddle ==
  /\ AtWork /\ meddling < MaxMeddling /\ meddling' = meddling + 1
  /\ \E s \in Side, p \in Entry :
       \/ Present(s, Up[p]) /\ ~Has(s, p) /\ Put(s, p, "old")
       \/ RemoveDir(s, p) /\ Put(s, p, "none")
  /\ UNCHANGED <<plan, dry, versioned, memo, walk, versions, poolCounts, poolSteps, healthy,
                 summary, stopAsked, leaseLost, setbacks>>

WorkerStep(w) ==
  \/ Take(w) \/ BeginOp(w) \/ Ensure(w) \/ MakeDir(w) \/ NoteDir(w) \/ Write(w)
  \/ TryDir(w) \/ WalkDir(w) \/ JudgeDir(w) \/ Clear(w) \/ Record(w)

RunStep ==
  \/ Validate \/ Prepare \/ NextClass
  \/ WrapUp \/ (\E s \in Side : Finalize(s)) \/ SumUp \/ ReportRun

PoolNext == RunStep \/ (\E w \in Worker : WorkerStep(w)) \/ CancelPool \/ LoseRoot \/ Meddle

PoolSpec == PoolInit /\ [][PoolNext]_poolVars

-----------------------------------------------------------------------------
(* Properties.                                                             *)

(* Every variable has its type, and the counters of the run are those of   *)
(* the records its workers made.                                           *)
PoolTypeOK ==
  /\ plan \in Plans /\ dry \in BOOLEAN /\ versioned \subseteq Side
  /\ tree \in [Side -> [Entry -> {"none", "dir", "old", "new"}]]
  /\ phase \in {"validate", "lock", "run", "wrapup", "source", "target", "sum", "report", "over"}
  /\ class \in 0..6 /\ next \in Nat \ {0}
  /\ at \in [Worker -> {"out", "idle", "begin", "ensure", "make", "note", "write", "try", "walk",
                        "judge", "clear"} \cup Endings]
  /\ task \in [Worker -> 0..Len(plan)]
  /\ memo \subseteq Side \X Folder
  /\ walk \in [todo : SUBSET Entry, leaves : SUBSET Entry, dirs : SUBSET Entry]
  /\ versions \in [Side -> {"none", "open", "indexed", "left"}]
  /\ outcome \in [Ops -> Endings \cup {"untried"}] /\ records \in [Ops -> Nat]
  /\ {healthy, stopAsked, leaseLost} \subseteq BOOLEAN
  /\ tally \in [done : Nat, skipped : Nat, errors : Nat, items : Nat, lossRecorded : BOOLEAN]
  /\ summary \in [done : Nat, skipped : Nat, errors : Nat, cancelled : BOOLEAN,
                   ended : {"none", "failed", "cancelled", "completed"}]
  /\ meddling \in 0..MaxMeddling /\ setbacks \in 0..MaxSetbacks
  /\ tally.done = Cardinality({i \in Ops : outcome[i] = "ok"})
  /\ tally.items = Cardinality({i \in Ops : outcome[i] \in {"ok", "kept", "failed"}})

(* A file goes from its name only because the job lets it go with its      *)
(* directory, or because an operation in hand takes it somewhere else: a   *)
(* move takes its source, and what is replaced or deleted goes into the    *)
(* trash or the versions, with all that lies below it.  A file that is     *)
(* neither stays, also when it appears after the directory was walked.     *)
OnlyTheDeletableGoes ==
  [][\A s \in Side, p \in Leaf :
       tree[s][p] # "none" /\ tree'[s][p] = "none" =>
         \/ p \in Deletable
         \/ \E w \in Worker :
              at[w] = "write" /\ OpOf(w).side = s /\ p \in Departing(OpOf(w))]_poolVars

(* A summary without an error and without a cancellation means that every  *)
(* operation was carried out or its directory deliberately kept: neither a *)
(* lost lock nor a worker that left early is passed over in silence.       *)
CleanSummaryIsTrue ==
  phase = "over" /\ ~dry /\ summary.errors = 0 /\ ~summary.cancelled =>
    /\ \A i \in Ops : Executable(plan[i]) => outcome[i] \in {"ok", "kept"}
    /\ summary.done + summary.skipped = Len(plan)
=============================================================================
