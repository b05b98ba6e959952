------------------------------ MODULE SyncCycle ------------------------------
(***************************************************************************)
(* The life of one job: compare two roots, review the plan, apply it and   *)
(* refresh the archive, again and again, while people edit both roots.     *)
(*                                                                         *)
(*   compare   workflow/pipeline/compare/planning                          *)
(*   review    features/operations/decisions, compare/evidence::reverse_op *)
(*   apply     workflow/pipeline/apply (one operation is one step here;    *)
(*             FileTransaction looks inside it)                            *)
(*   archive   application/run/archive/refresh                             *)
(*                                                                         *)
(* A path holds a file, a symlink or nothing, and a file's content stands  *)
(* for its full BLAKE3 digest: the evidence tier is fixed to full hashes.  *)
(* Directories, permission bits, spelling of names and mtimes are left out *)
(* (an mtime comparison is a choice of winner).                            *)
(***************************************************************************)
EXTENDS Naturals, Sequences, FiniteSets

CONSTANTS
  Name,         \* the files people work on
  Content,      \* what a path can hold
  Links,        \* the contents that are symlinks
  Empty,        \* the contents that are zero-length files
  Absent,       \* nothing at the path
  Unreadable,   \* observation: a file is there, its content could not be read
  None,         \* no archive yet; no content evidence in an operation
  Jobs,         \* the jobs to explore, each with its surroundings
  MaxConflicts, \* conflict copies kept per file
  Generations   \* ARCHIVE_GENERATIONS

Side == {"source", "target"}
Other(s) == IF s = "source" THEN "target" ELSE "source"

(***************************************************************************)
(* A job's mode, its ConflictPolicy, and whether its plan is reviewed row  *)
(* by row in the desktop (otherwise all of it is run); and what happens    *)
(* around it: the files and contents people work with, the sides they may  *)
(* edit while a run is under way, what may go wrong at one path of a scan, *)
(* and the bounds on the exploration (runs, edits, faults).                *)
(***************************************************************************)
Job == [mode : {"mirror", "enrich", "sync"}, policy : {"report", "newer", "copy"},
        desktop : BOOLEAN, names : SUBSET Name, contents : SUBSET Content,
        writers : SUBSET Side, trouble : SUBSET {"unread", "unreadable"},
        runs : Nat, saves : Nat, faults : Nat]

ASSUME ContentAssumption ==
  /\ Links \subseteq Content /\ Empty \subseteq Content
  /\ Absent \notin Content /\ Unreadable \notin Content /\ None \notin Content
  /\ Absent # Unreadable /\ Absent # None /\ Unreadable # None
ASSUME JobAssumption ==
  /\ Jobs \subseteq Job
  /\ MaxConflicts \in Nat /\ Generations \in Nat

(***************************************************************************)
(* copy = 0 is the file itself, copy = r its .sync-conflict- copy named in *)
(* run r (the stamp in the name makes the copies of one file distinct).    *)
(***************************************************************************)
Copies(j) == IF j.policy = "copy" THEN 0 .. j.runs ELSE {0}
Path == [name : Name, copy : UNION {Copies(j) : j \in Jobs}]
IsConflictCopy(p) == p.copy > 0

Seen == Content \cup {Absent, Unreadable}

\* Why an operation is planned: the `reason` texts the lanes give.
Reasons ==
  {"added", "deleted", "moved", "differs", "evidence-unavailable", "differs-no-archive",
   "both-changed", "source-changed", "target-changed", "source-behind-by-generations",
   "target-behind-by-generations", "deleted-on-one-side-but-changed-on-the-other",
   "symlink-only-in-source", "symlink-only-in-target", "symlink-differs", "symlink-gone",
   "conflict-resolved-newer-wins", "conflict-loser-kept-as-copy", "conflict-copy-over-limit"}
Op == [side : Side, act : {"Copy", "Update", "Move", "Delete", "Conflict"},
       path : Path, from : Path, want : Content \cup {None}, why : Reasons]

VARIABLES
  job,      \* the job, one of Jobs, for all of a behaviour
  fs,       \* what each root holds
  archive,  \* what the archive records at each path, or None
  history,  \* the archive's previous_identities at each path, newest first
  pc,       \* what the job is doing
  run,      \* how many runs were started
  rest,     \* the paths each scan has still to reach
  snap,     \* what the scans observed
  unread,   \* the paths below a directory a scan could not list
  plan,     \* the operations the comparison planned
  todo,     \* the executable operations not yet finished
  errors,   \* an operation or the refresh failed
  held,     \* history: <<p, c>> for every content c a root has ever held at p
  quiet,    \* history: nothing disturbed this run, every row was included
  done,     \* history: how the last run ended, if nothing was edited since
  saves, faults

peopleVars == <<fs, held, saves>>
archiveVars == <<archive, history>>
vars == <<job, fs, archive, history, pc, run, rest, snap, unread, plan, todo, errors,
          held, quiet, done, saves, faults>>

NoPaths == [s \in Side |-> {}]
\* The paths that can exist for the job that runs.
Paths == [name : job.names, copy : Copies(job)]
AllPaths == [s \in Side |-> Paths]
Nothing == [p \in Path |-> Absent]

Init ==
  /\ job \in Jobs
  /\ fs = [s \in Side |-> Nothing]
  /\ archive = None
  /\ history = [p \in Path |-> << >>]
  /\ pc = "idle"
  /\ run = 0
  /\ rest = NoPaths
  /\ snap = [s \in Side |-> Nothing]
  /\ unread = {}
  /\ plan = {}
  /\ todo = {}
  /\ errors = FALSE
  /\ held = [s \in Side |-> {}]
  /\ quiet = FALSE
  /\ done = "no"
  /\ saves = 0
  /\ faults = 0

Holding(f) ==
  [s \in Side |-> held[s] \cup {<<p, f[s][p]>> : p \in {q \in Path : f[s][q] # Absent}}]

\* Both roots have held c at p: they agreed on it, or one took it from the other.
Agreed(p, c) == \A s \in Side : <<p, c>> \in held[s]

-----------------------------------------------------------------------------
(* People.                                                                 *)

MayEdit(s) == saves < job.saves /\ (pc = "idle" \/ s \in job.writers)

Edited(f) ==
  /\ fs' = f
  /\ held' = Holding(f)
  /\ saves' = saves + 1
  /\ quiet' = FALSE
  /\ done' = "no"
  /\ UNCHANGED <<archiveVars, pc, run, rest, snap, unread, plan, todo, errors, faults>>

Save(s, p, c) ==
  /\ MayEdit(s)
  /\ fs[s][p] # c
  /\ ~IsConflictCopy(p)
  /\ Edited([fs EXCEPT ![s][p] = c])

Remove(s, p) ==
  /\ MayEdit(s)
  /\ fs[s][p] # Absent
  /\ Edited([fs EXCEPT ![s][p] = Absent])

Rename(s, p, q) ==
  /\ MayEdit(s)
  /\ fs[s][p] # Absent /\ fs[s][q] = Absent
  /\ ~IsConflictCopy(p) /\ ~IsConflictCopy(q)
  /\ Edited([fs EXCEPT ![s][p] = Absent, ![s][q] = fs[s][p]])

-----------------------------------------------------------------------------
(* Compare: the two scans, then the plan.                                  *)

StartRun ==
  /\ pc = "idle"
  /\ run < job.runs
  /\ run' = run + 1
  /\ pc' = "scan"
  /\ rest' = AllPaths
  /\ unread' = {}
  /\ errors' = FALSE
  /\ quiet' = TRUE
  /\ UNCHANGED <<peopleVars, archiveVars, snap, plan, todo, done, faults>>

(***************************************************************************)
(* One path of one root: scan::scan_root walks a root in a fixed order and *)
(* the two roots in parallel. A directory that cannot be listed goes to    *)
(* unread_paths and yields no entries; a file that cannot be hashed stays  *)
(* as an entry with FileIdentityObservation::Unreadable.                   *)
(***************************************************************************)
NextPath(s) == CHOOSE p \in rest[s] : TRUE

Observe(s, p, seen) ==
  /\ snap' = [snap EXCEPT ![s][p] = seen]
  /\ rest' = [rest EXCEPT ![s] = @ \ {p}]
  /\ UNCHANGED <<peopleVars, archiveVars, pc, run, plan, todo, errors>>

ReadPath(s) ==
  /\ pc \in {"scan", "refresh"}
  /\ rest[s] # {}
  /\ LET p == NextPath(s) IN Observe(s, p, fs[s][p])
  /\ UNCHANGED <<unread, quiet, done, faults>>

FailToRead(s, fault) ==
  /\ pc \in {"scan", "refresh"}
  /\ rest[s] # {}
  /\ faults < job.faults
  /\ fault \in job.trouble
  /\ LET p == NextPath(s) IN
       CASE fault = "unread" ->
              /\ Observe(s, p, Absent)
              /\ unread' = IF pc = "scan" THEN unread \cup {p} ELSE unread
         [] fault = "unreadable" ->
              /\ fs[s][p] \in Content \ Links
              /\ Observe(s, p, Unreadable)
              /\ UNCHANGED unread
  /\ faults' = faults + 1
  /\ quiet' = FALSE
  /\ done' = "no"

File == Content \ Links

\* map_of: what one root shows of a kind outside the unread subtrees of both.
FilesOf(table) == {p \in Path \ unread : table[p] \in File \cup {Unreadable}}
LinksOf(table) == {p \in Path \ unread : table[p] \in Links}
SourceFiles == FilesOf(snap["source"])
TargetFiles == FilesOf(snap["target"])

FilesEqual(a, b) == a = b /\ a \in File

EvidenceMissing(p) == Unreadable \in {snap["source"][p], snap["target"][p]}

ArchiveFiles == IF archive = None THEN {} ELSE FilesOf(archive)

\* generation_of: 0 is the archive's current content, n its n-th previous one,
\* None content the archive has never seen (or no entry).
GenerationOf(c, p) ==
  IF p \notin ArchiveFiles THEN None
  ELSE IF FilesEqual(c, archive[p]) THEN 0
  ELSE IF \E i \in DOMAIN history[p] : history[p][i] = c
       THEN CHOOSE i \in DOMAIN history[p] :
              history[p][i] = c /\ \A j \in 1 .. (i - 1) : history[p][j] # c
       ELSE None

Evidence(c) == IF c = Unreadable THEN None ELSE c

Act(s, act, p, want, why) ==
  [side |-> s, act |-> act, path |-> p, from |-> p, want |-> want, why |-> why]
Relocate(s, from, to, want, why) ==
  [side |-> s, act |-> "Move", path |-> to, from |-> from, want |-> want, why |-> why]
Conflict(p, why) == Act("target", "Conflict", p, None, why)

\* The write that gives side s what the other root showed at p.
Push(s, p, why) == Act(s, "Update", p, Evidence(snap[Other(s)][p]), why)
Fill(s, p, why) == Act(s, "Copy", p, Evidence(snap[Other(s)][p]), why)
Drop(s, p, why) == Act(s, "Delete", p, None, why)

(***************************************************************************)
(* detect_moves pairs each added file with a deleted one of the same full  *)
(* digest. Which of several candidates it takes is left open; that it      *)
(* leaves no candidate unused is not. Zero-length files and conflict       *)
(* copies never take part.                                                 *)
(***************************************************************************)
Pairable(s, a, d) ==
  /\ snap[s][a] = snap[Other(s)][d] /\ snap[s][a] \in File \ Empty
  /\ ~IsConflictCopy(a) /\ ~IsConflictCopy(d)

Pairings(s, adds, dels) ==
  LET candidates == {m \in adds \X dels : Pairable(s, m[1], m[2])}
      Injective(M) == \A m, n \in M : m # n => m[1] # n[1] /\ m[2] # n[2]
      Maximal(M) == \A c \in candidates : \E m \in M : m[1] = c[1] \/ m[2] = c[2]
  IN  {M \in SUBSET candidates : Injective(M) /\ Maximal(M)}

\* What one side has added and deleted, replayed on the other side s.
Replay(s, adds, dels, M) ==
  LET moved == {m[1] : m \in M}
      left == {m[2] : m \in M}
  IN  {Relocate(s, m[2], m[1], snap[Other(s)][m[1]], "moved") : m \in M}
      \cup {Fill(s, p, "added") : p \in adds \ moved}
      \cup {Drop(s, p, "deleted") : p \in dels \ left}

-----------------------------------------------------------------------------
(* The one-way lane: newer are the paths where source is the newer file.   *)

OneWayShared(newer) ==
  UNION {IF EvidenceMissing(p)
         THEN {Conflict(p, "evidence-unavailable")}
         ELSE IF ~FilesEqual(snap["source"][p], snap["target"][p])
                 /\ (job.mode = "mirror" \/ p \in newer)
         THEN {Push("target", p, "differs")}
         ELSE {} : p \in SourceFiles \cap TargetFiles}

OneWayPlans ==
  LET adds == SourceFiles \ TargetFiles
      dels == IF job.mode = "mirror" THEN TargetFiles \ SourceFiles ELSE {}
      newerSets == IF job.mode = "mirror" THEN {{}} ELSE SUBSET (SourceFiles \cap TargetFiles)
  IN  {OneWayShared(newer) \cup Replay("target", adds, dels, M) :
         newer \in newerSets, M \in Pairings("source", adds, dels)}

(* The two-way lane.                                                       *)

TwoWayShared(p) ==
  LET c == snap["source"][p]
      d == snap["target"][p]
      sg == GenerationOf(c, p)
      tg == GenerationOf(d, p)
  IN  IF EvidenceMissing(p) THEN {Conflict(p, "evidence-unavailable")}
      ELSE IF FilesEqual(c, d) THEN {}
      ELSE IF archive = None THEN {Conflict(p, "differs-no-archive")}
      ELSE IF sg = None /\ tg = None THEN {Conflict(p, "both-changed")}
      ELSE IF tg = None THEN {Push("source", p, "target-changed")}
      ELSE IF sg = None THEN {Push("target", p, "source-changed")}
      ELSE IF sg < tg THEN {Push("target", p, "target-behind-by-generations")}
      ELSE IF tg < sg THEN {Push("source", p, "source-behind-by-generations")}
      ELSE {Conflict(p, "both-changed")}

\* The paths side s lacks and the archive knows: the other side still has the
\* archived content, or has changed it.
GoneFrom(s) == FilesOf(snap[Other(s)]) \ FilesOf(snap[s])
\* (Mutant: a deletion is replayed although the other side changed the file.)
DeletedUnchecked(s) == GoneFrom(s) \cap ArchiveFiles

DeletedOn(s) == {p \in GoneFrom(s) \cap ArchiveFiles :
                   FilesEqual(snap[Other(s)][p], archive[p])}
DeletedButChanged(s) == (GoneFrom(s) \cap ArchiveFiles) \ DeletedOn(s)
AddedBeside(s) == GoneFrom(s) \ ArchiveFiles

TwoWayPlans ==
  {(UNION {TwoWayShared(p) : p \in SourceFiles \cap TargetFiles})
   \cup {Conflict(p, "deleted-on-one-side-but-changed-on-the-other") :
           p \in DeletedButChanged("source") \cup DeletedButChanged("target")}
   \cup Replay("target", AddedBeside("target"), DeletedOn("source"), M)
   \cup Replay("source", AddedBeside("source"), DeletedOn("target"), N) :
     M \in Pairings("source", AddedBeside("target"), DeletedOn("source")),
     N \in Pairings("target", AddedBeside("source"), DeletedOn("target"))}

LinkOps ==
  LET source == LinksOf(snap["source"])
      target == LinksOf(snap["target"])
      there(p) == snap["source"][p]
      here(p) == snap["target"][p]
      differ == {p \in source \cap target : there(p) # here(p)}
  IN  {Act("target", "Copy", p, there(p), "symlink-only-in-source") : p \in source \ target}
      \cup (IF job.mode = "mirror"
            THEN {Act("target", "Update", p, there(p), "symlink-differs") : p \in differ}
                 \cup {Act("target", "Delete", p, here(p), "symlink-gone") :
                         p \in target \ source}
            ELSE {})
      \cup (IF job.mode = "sync"
            THEN {Conflict(p, "symlink-differs") : p \in differ}
                 \cup {Act("source", "Copy", p, here(p), "symlink-only-in-target") :
                         p \in target \ source}
            ELSE {})

-----------------------------------------------------------------------------
(* Conflict resolution: an opt-in policy replaces a content conflict by an *)
(* update of the loser, keeping it as a conflict copy first under "copy".  *)

Resolvable(op) ==
  /\ op.act = "Conflict"
  /\ op.why \in {"both-changed", "differs-no-archive"}
  /\ ~IsConflictCopy(op.path)

Kept(p) == [name |-> p.name, copy |-> run]

Resolution(op, loser) ==
  {Push(loser, op.path, "conflict-resolved-newer-wins")}
  \cup (IF job.policy = "copy"
        THEN {Relocate(loser, op.path, Kept(op.path), snap[loser][op.path],
                       "conflict-loser-kept-as-copy")}
        ELSE {})

\* The oldest conflict copies of each file beyond the limit, on each side.
CopiesOf(s, n) == {p \in Path : p.name = n /\ IsConflictCopy(p)
                                /\ snap[s][p] \in File \cup {Unreadable}}
Doomed(s) ==
  {p \in Path : /\ p \in CopiesOf(s, p.name)
                /\ Cardinality({q \in CopiesOf(s, p.name) : q.copy >= p.copy}) > MaxConflicts}

Resolved(ops, sourceLoses) ==
  LET resolvable == IF job.policy = "report" THEN {} ELSE {op \in ops : Resolvable(op)}
  IN  (ops \ resolvable)
      \cup (UNION {Resolution(op, IF op.path \in sourceLoses THEN "source" ELSE "target") :
                     op \in resolvable})
      \cup (IF job.policy = "copy"
            THEN UNION {{Drop(s, p, "conflict-copy-over-limit") : p \in Doomed(s)} :
                          s \in Side}
            ELSE {})

Executable(ops) == {op \in ops : op.act # "Conflict"}

Compare ==
  /\ pc = "scan"
  /\ rest = NoPaths
  /\ \E ops \in (IF job.mode = "sync" THEN TwoWayPlans ELSE OneWayPlans),
        sourceLoses \in (IF job.policy = "report" THEN {{}}
                         ELSE SUBSET (SourceFiles \cap TargetFiles)) :
       plan' = Resolved(ops \cup LinkOps, sourceLoses)
  /\ pc' = "review"
  /\ UNCHANGED <<peopleVars, archiveVars, run, rest, snap, unread, todo, errors,
                 quiet, done, faults>>

-----------------------------------------------------------------------------
(* Review: the command line runs every executable row, the desktop the     *)
(* rows left checked, some with their direction reversed.                  *)

\* reverse_op: a link row keeps its link, a content row loses its evidence.
Reversed(op) ==
  LET want == IF op.want \in Links THEN op.want ELSE None
  IN  CASE op.act = "Copy" -> Act(Other(op.side), "Delete", op.path, None, op.why)
        [] op.act = "Update" -> Act(Other(op.side), "Update", op.path, want, op.why)
        [] op.act = "Delete" -> Act(Other(op.side), "Copy", op.path, want, op.why)
Reversible(op) == op.act \in {"Copy", "Update", "Delete"}

Decided(kept, turned) == (kept \ turned) \cup {Reversed(op) : op \in turned}

(***************************************************************************)
(* validate_operation_paths: a path is written once on each side, a move's *)
(* source is consumed once, and only an Update may recreate it.            *)
(***************************************************************************)
Recreates(op, move) == op.act = "Update" /\ op.side = move.side /\ op.path = move.from

Valid(ops) ==
  /\ \A a, b \in ops : a # b => <<a.side, a.path>> # <<b.side, b.path>>
  /\ \A m \in {op \in ops : op.act = "Move"} : \A b \in ops \ {m} :
       /\ b.act = "Move" => <<b.side, b.from>> # <<m.side, m.from>>
       /\ <<b.side, b.path>> = <<m.side, m.from>> => Recreates(b, m)

Begin(ops, whole) ==
  /\ IF Valid(ops)
     THEN todo' = ops /\ pc' = "apply" /\ UNCHANGED errors
     ELSE todo' = {} /\ pc' = "idle" /\ errors' = TRUE
  /\ quiet' = (quiet /\ whole)
  /\ done' = "no"
  /\ UNCHANGED <<peopleVars, archiveVars, run, rest, snap, unread, plan, faults>>

RunAll ==
  /\ pc = "review"
  /\ ~job.desktop
  /\ Begin(Executable(plan), TRUE)

RunReviewed ==
  /\ pc = "review"
  /\ job.desktop
  /\ \E kept \in (SUBSET Executable(plan)) \ {{}} :
       \E turned \in SUBSET {op \in kept : Reversible(op)} :
         Begin(Decided(kept, turned), kept = Executable(plan))

Decline ==
  /\ pc = "review"
  /\ pc' = "idle"
  /\ quiet' = FALSE
  /\ done' = "no"
  /\ UNCHANGED <<peopleVars, archiveVars, run, rest, snap, unread, plan, todo,
                 errors, faults>>

-----------------------------------------------------------------------------
(* Apply: moves, then copies and updates, then deletions.                  *)

\* (Mutant: updates run ahead of the moves they depend on.)
RankUpdatesFirst(op) == IF op.act = "Update" THEN 0 ELSE IF op.act = "Delete" THEN 2 ELSE 1

Rank(op) == CASE op.act = "Move" -> 0
              [] op.act \in {"Copy", "Update"} -> 1
              [] op.act = "Delete" -> 2

Due(op) == pc = "apply" /\ op \in todo /\ \A other \in todo : Rank(op) <= Rank(other)

\* (Mutant: a move copies and leaves its source behind.)
ResultMoveLeavesSource(op) ==
  CASE op.act = "Move" -> [fs[op.side] EXCEPT ![op.path] = fs[op.side][op.from]]
    [] op.act = "Delete" -> [fs[op.side] EXCEPT ![op.path] = Absent]
    [] OTHER -> [fs[op.side] EXCEPT ![op.path] = fs[Other(op.side)][op.path]]

\* What the operation makes of the side it writes, when it goes through.
Result(op) ==
  CASE op.act = "Move" -> [fs[op.side] EXCEPT ![op.from] = Absent, ![op.path] = fs[op.side][op.from]]
    [] op.act = "Delete" -> [fs[op.side] EXCEPT ![op.path] = Absent]
    [] OTHER -> [fs[op.side] EXCEPT ![op.path] =
                   IF op.want \in Links THEN op.want ELSE fs[Other(op.side)][op.path]]

\* The evidence each operation checks before it publishes anything.
GoesThrough(op) ==
  CASE op.act = "Move" ->
         /\ fs[op.side][op.from] \in File
         /\ op.want \in {None, fs[op.side][op.from]}
         /\ fs[op.side][op.path] = Absent
    [] op.act = "Delete" -> TRUE
    [] OTHER -> op.want \in Links
                \/ LET origin == fs[Other(op.side)][op.path]
                   IN  origin \in File /\ op.want \in {None, origin}

Do(op) ==
  /\ Due(op)
  /\ GoesThrough(op)
  /\ fs' = [fs EXCEPT ![op.side] = Result(op)]
  /\ held' = Holding(fs')
  /\ todo' = todo \ {op}
  /\ UNCHANGED <<archiveVars, pc, run, rest, snap, unread, plan, errors, quiet,
                 done, saves, faults>>

\* An operation that finds other content than the plan promised, or an I/O error.
Fail(op) ==
  /\ Due(op)
  /\ \/ ~GoesThrough(op) /\ UNCHANGED faults
     \/ faults < job.faults /\ faults' = faults + 1
  /\ todo' = todo \ {op}
  /\ errors' = TRUE
  /\ UNCHANGED <<peopleVars, archiveVars, pc, run, rest, snap, unread, plan, quiet, done>>

Outcome ==
  IF ~quiet \/ errors THEN "no"
  ELSE IF plan = Executable(plan) /\ unread = {} THEN "clean" ELSE "full"

EndApply ==
  /\ pc = "apply"
  /\ todo = {}
  /\ IF job.mode = "sync" /\ ~errors
     THEN pc' = "refresh" /\ rest' = [NoPaths EXCEPT !["source"] = Paths] /\ UNCHANGED done
     ELSE pc' = "idle" /\ done' = Outcome /\ UNCHANGED rest
  /\ UNCHANGED <<peopleVars, archiveVars, run, snap, unread, plan, todo, errors,
                 quiet, faults>>

\* The user cancels, or the process dies: nothing more happens in this run.
Stop ==
  /\ pc \in {"scan", "apply", "refresh"}
  /\ faults < job.faults
  /\ faults' = faults + 1
  /\ pc' = "idle"
  /\ todo' = {}
  /\ rest' = NoPaths
  /\ done' = "no"
  /\ quiet' = FALSE
  /\ UNCHANGED <<peopleVars, archiveVars, run, snap, unread, plan, errors>>

-----------------------------------------------------------------------------
(* Refresh: the archive becomes what the source shows now, without the     *)
(* paths the plan reported as conflicts.                                   *)

\* (Mutant: the archive records conflicted paths too.)
ConflictedForgotten == {}

Conflicted == {op.path : op \in plan \ Executable(plan)}

Digest(c) == c \in File

\* roll_generations at one path.
Rolled(p, fresh) ==
  LET old == IF archive = None THEN Absent ELSE archive[p]
      chain == IF Digest(old) THEN <<old>> \o history[p] ELSE history[p]
  IN  IF {old, fresh} \cap (Links \cup {Absent}) # {} THEN << >>
      ELSE IF old = fresh /\ Digest(old) THEN history[p]
      ELSE SubSeq(chain, 1, IF Len(chain) < Generations THEN Len(chain) ELSE Generations)

Publish ==
  /\ pc = "refresh"
  /\ rest = NoPaths
  /\ LET table == [p \in Path |-> IF p \in Conflicted THEN Absent ELSE snap["source"][p]]
     IN  /\ archive' = table
         /\ history' = [p \in Path |-> Rolled(p, table[p])]
  /\ pc' = "idle"
  /\ done' = Outcome
  /\ UNCHANGED <<peopleVars, run, rest, snap, unread, plan, todo, errors, quiet, faults>>

PublishFails ==
  /\ pc = "refresh"
  /\ faults < job.faults
  /\ faults' = faults + 1
  /\ errors' = TRUE
  /\ pc' = "idle"
  /\ rest' = NoPaths
  /\ UNCHANGED <<peopleVars, archiveVars, run, snap, unread, plan, todo, quiet, done>>

-----------------------------------------------------------------------------
People ==
  \E s \in Side, p \in Paths :
    \/ \E c \in job.contents : Save(s, p, c)
    \/ Remove(s, p)
    \/ \E q \in Paths : Rename(s, p, q)

Scan == \E s \in Side : ReadPath(s) \/ \E fault \in job.trouble : FailToRead(s, fault)

Apply == \E op \in todo : Do(op) \/ Fail(op)

Next ==
  /\ \/ People
     \/ StartRun \/ Scan \/ Compare
     \/ RunAll \/ RunReviewed \/ Decline
     \/ Apply \/ EndApply \/ Stop
     \/ Publish \/ PublishFails
  /\ UNCHANGED job

Spec == Init /\ [][Next]_vars

-----------------------------------------------------------------------------
(* Properties                                                              *)

\* Every variable has its type.
TypeOK ==
  /\ job \in Jobs
  /\ fs \in [Side -> [Path -> Content \cup {Absent}]]
  /\ archive \in {None} \cup [Path -> Seen]
  /\ history \in [Path -> Seq(Content)]
  /\ pc \in {"idle", "scan", "review", "apply", "refresh"}
  /\ run \in 0 .. job.runs
  /\ rest \in [Side -> SUBSET Path]
  /\ snap \in [Side -> [Path -> Seen]]
  /\ unread \subseteq Path
  /\ plan \subseteq Op
  /\ todo \subseteq Op
  /\ errors \in BOOLEAN
  /\ held \in [Side -> SUBSET (Path \X Content)]
  /\ quiet \in BOOLEAN
  /\ done \in {"no", "full", "clean"}
  /\ saves \in 0 .. job.saves
  /\ faults \in 0 .. job.faults

\* Removes(s, p): this step of the job, not of a person, takes the content at p
\* away from side s (a move keeps it on that side).
Removes(s, p) ==
  /\ saves' = saves
  /\ fs[s][p] # Absent
  /\ fs'[s][p] # fs[s][p]
  /\ ~\E q \in Path : fs[s][q] = Absent /\ fs'[s][q] = fs[s][p]

\* A two-way run replaces or deletes only what both roots once agreed on, so that
\* taking it away replays what the other side did to it. Content a person saved
\* after the scan is out of the claim: the lanes replace it and keep it in the
\* trash; so is the loser of a conflict the job's policy resolves
\* (archive/refresh.rs:3-5, the sync arm of planning/mod.rs). Conflict copies are KeptCopyStays'.
NoSilentOverwrite ==
  [][\A s \in Side, p \in Path :
       job.mode = "sync" /\ Removes(s, p) =>
         \/ Agreed(p, fs[s][p])
         \/ fs[s][p] # snap[s][p]
         \/ Push(s, p, "conflict-resolved-newer-wins") \in todo
         \/ IsConflictCopy(p)]_vars

\* The archive is the record of what the two sides last agreed on
\* (archive/mod.rs:1): every content it names, but for a conflict copy on the
\* loser's side, was at that path on both roots.
ArchiveIsAgreement ==
  archive # None =>
    \A p \in Path : archive[p] \in Content /\ ~IsConflictCopy(p) => Agreed(p, archive[p])

\* After such a run of all its rows, and until somebody edits a root, the next comparison of the
\* job finds nothing to do: plan, apply and archive agree on what "in sync" means. (A job that
\* keeps losers plans the end of its copies: KeptCopyStays.)
SecondRunIsIdle ==
  pc = "review" /\ done = "clean" /\ ~job.desktop /\ job.policy # "copy" => Executable(plan) = {}

\* "Conflicted paths remain absent so the next run reports them again"
\* (archive/refresh.rs:16), a conflict that nobody touched after a run that went
\* through: "Delete-versus-change is never auto-resolved under any policy"
\* (compare/tests/conflicts.rs:3).
ConflictsAreReportedAgain ==
  [][pc = "scan" /\ pc' = "review" /\ done # "no" => Conflicted \subseteq Conflicted']_vars

\* "Preserve the loser" (compare/policy.rs:28): the job takes a conflict copy away
\* only over the limit, or when the two roots had both held it.
KeptCopyStays ==
  [][\A s \in Side, p \in Path :
       Removes(s, p) /\ IsConflictCopy(p) =>
         \/ Agreed(p, fs[s][p])
         \/ Drop(s, p, "conflict-copy-over-limit") \in todo]_vars

\* "Preserve the loser" (compare/policy.rs:28): when the winner's content lands on
\* the loser's path, the content the scan saw there is in its conflict copy.
LoserIsKept ==
  [][\A op \in todo :
       /\ op.why = "conflict-resolved-newer-wins" /\ job.policy = "copy"
       /\ pc' = "apply"
       /\ fs'[op.side][op.path] # fs[op.side][op.path]
       /\ saves' = saves
       /\ op \notin todo'
       => fs[op.side][Kept(op.path)] = snap[op.side][op.path]]_vars
=============================================================================
