----------------------------- MODULE RunHistory -----------------------------
(***************************************************************************)
(* The history of runs (application/run/history): a directory per run that *)
(* says "not finished" until the run ends, an index line written at the    *)
(* end, the migration of an index of an earlier schema, retention, and the *)
(* move of everything when the log directory of the settings changes, into *)
(* a directory that may have a history of its own. Appending, migrating    *)
(* and pruning hold the index lock of the directory they work in; the move *)
(* does not, and asks for no schema. A run may be killed, and a call fail, *)
(* at every step: the history is best-effort and never stops a run.        *)
(***************************************************************************)
EXTENDS Naturals, Sequences, SequencesExt, FiniteSets

CONSTANTS
  Run,        \* runs of this release
  PastRun,    \* runs in the index an earlier release left, oldest first
  Elsewhere,  \* runs in the directory the logs are moved to, if it has a history
  MaxDetails, \* the size cap: directories the index may name
  Budgets     \* bounds: how often time passes, a prune begins, a call fails or a program dies

Place == {"before", "after"}   \* the log directory the settings named, and name now
AnyRun == Run \cup Range(PastRun) \cup Range(Elsewhere)
Special == {"index", "marker"} \* what a log directory holds besides its run directories

ASSUME HistoryAssumption ==
  /\ PastRun \in Seq(STRING) /\ Elsewhere \in Seq(STRING) /\ Special \cap AnyRun = {}
  /\ Run \cap Range(PastRun) = {} /\ (Run \cup Range(PastRun)) \cap Range(Elsewhere) = {}
  /\ MaxDetails \in Nat /\ Budgets \subseteq [ages : Nat, prunes : Nat, slips : Nat]

\* A run directory: without a summary, with one of the earlier schema, one that says
\* "not finished", and a final one.
DirState == {"none", "bare", "past", "pending", "final"}

VARIABLES
  listing,     \* the lines of runs.jsonl, by place
  legacy,    \* the runs whose line is of the earlier schema
  marker,    \* the schema marker is there
  dirs,      \* the run directories, by place
  setting,   \* the place the settings name
  phase,     \* where each run is
  home,      \* the place its recorder opened
  keeper,    \* what holds an index lock: its task, place, and what it read
  mover,     \* what the move is doing
  detached,  \* runs whose open directory was copied and removed
  aged,      \* runs that started, and directories last changed, before the cutoff
  slipped,   \* history: runs one of whose writes failed
  overtaken, \* history: runs that were alive while the move ran
  dropped,   \* history: runs a prune or a sweep removed
  budget

historyVars == <<listing, legacy, marker, dirs, setting, phase, home, keeper, mover,
                 detached, aged, slipped, overtaken, dropped, budget>>
indexVars == <<listing, legacy, marker>>
runVars == <<phase, home, detached, slipped, overtaken>>

NoKeeper == [task |-> "free", place |-> "before", old |-> FALSE, lines |-> <<>>, doomed |-> {}]
\* left: the entries the move has still to visit; smooth: no index or summary of the
\* earlier schema was there when it began, and no entry has failed.
NoMove == [task |-> "none", entry |-> "none", lines |-> <<>>, legacy |-> {}, left |-> {}, smooth |-> FALSE]

HistoryInit ==
  /\ \E there \in {<<>>, Elsewhere} :
       /\ listing = [p \in Place |-> IF p = "before" THEN PastRun ELSE there]
       /\ marker = [p \in Place |-> p = "after" /\ there # <<>>]
       /\ dirs = [p \in Place |-> [r \in AnyRun |->
                    IF p = "before" /\ r \in Range(PastRun) THEN "past"
                    ELSE IF p = "after" /\ r \in Range(there) THEN "final" ELSE "none"]]
  /\ legacy = [p \in Place |-> IF p = "before" THEN Range(PastRun) ELSE {}]
  /\ setting = "before"
  /\ phase = [r \in Run |-> "new"] /\ home = [r \in Run |-> "before"]
  /\ keeper = NoKeeper /\ mover = NoMove
  /\ aged = [runs |-> {}, dirs |-> {}]
  /\ detached = {} /\ slipped = {} /\ overtaken = {} /\ dropped = {}
  /\ budget \in Budgets

Spend(what) == budget[what] > 0 /\ budget' = [budget EXCEPT ![what] = @ - 1]
Slip == Spend("slips")
Moving == mover.task \notin {"none", "done", "cut"}
Unlocked(p) == keeper.task = "free" \/ keeper.place # p
PutDir(p, r, d) == dirs' = [dirs EXCEPT ![p][r] = d]

-----------------------------------------------------------------------------
(* ensure_current_schema_locked: the first to take the lock migrates; a mixed *)
(* index is refused. The copy of an earlier index that is published first is  *)
(* left out: no line changes while there is no marker, so a copy that is      *)
(* there is of the same lines.                                                *)

AtWork == {"opened", "created", "running", "summed"}

Migrate(p) ==
  /\ keeper = NoKeeper /\ ~marker[p]
  /\ p = setting \/ \E r \in Run : home[r] = p /\ phase[r] \in AtWork
  /\ legacy[p] \in {{}, Range(listing[p])}
  /\ keeper' = [task |-> "list", place |-> p, old |-> legacy[p] # {}, lines |-> listing[p], doomed |-> {}]
  /\ UNCHANGED <<indexVars, dirs, setting, runVars, mover, aged, dropped, budget>>

\* migrate_summaries_locked lists the directories, then takes one at a time; a summary
\* this release wrote stays.
ListSummaries ==
  /\ keeper.task = "list"
  /\ keeper' = [keeper EXCEPT !.task = "summaries",
                               !.doomed = {r \in AnyRun : dirs[keeper.place][r] = "past"}]
  /\ UNCHANGED <<indexVars, dirs, setting, runVars, mover, aged, dropped, budget>>

MigrateSummary(r) ==
  /\ keeper.task = "summaries" /\ r \in keeper.doomed
  /\ PutDir(keeper.place, r, IF dirs[keeper.place][r] = "past" THEN "final" ELSE dirs[keeper.place][r])
  /\ keeper' = [keeper EXCEPT !.doomed = @ \ {r}]
  /\ UNCHANGED <<indexVars, setting, runVars, mover, aged, dropped, budget>>

SummariesEnd ==
  /\ keeper.task = "summaries" /\ keeper.doomed = {}
  /\ keeper' = [keeper EXCEPT !.task = IF keeper.old THEN "replace" ELSE "mark"]
  /\ UNCHANGED <<indexVars, dirs, setting, runVars, mover, aged, dropped, budget>>

ReplaceIndex ==
  /\ keeper.task = "replace"
  /\ listing' = [listing EXCEPT ![keeper.place] = keeper.lines]
  /\ legacy' = [legacy EXCEPT ![keeper.place] = {}]
  /\ keeper' = [keeper EXCEPT !.task = "mark"]
  /\ UNCHANGED <<marker, dirs, setting, runVars, mover, aged, dropped, budget>>

PublishMarker ==
  /\ keeper.task = "mark"
  /\ marker' = [marker EXCEPT ![keeper.place] = TRUE]
  /\ keeper' = NoKeeper
  /\ UNCHANGED <<listing, legacy, dirs, setting, runVars, mover, aged, dropped, budget>>

-----------------------------------------------------------------------------
(* Recorder                                                                *)

RunMoves(r, from, to) == phase[r] = from /\ phase' = [phase EXCEPT ![r] = to]

\* Recorder::start reads the settings once,
OpenRoot(r) ==
  /\ RunMoves(r, "new", "opened")
  /\ home' = [home EXCEPT ![r] = setting]
  /\ UNCHANGED <<dirs, indexVars, setting, detached, keeper, mover, aged, slipped, overtaken, dropped, budget>>

\* takes the lock of that place, sees to its schema, and makes a new directory with the plan.
CreateRunDir(r) ==
  /\ marker[home[r]] /\ Unlocked(home[r])
  /\ RunMoves(r, "opened", "created")
  /\ PutDir(home[r], r, "bare")
  /\ UNCHANGED <<indexVars, setting, home, detached, keeper, mover, aged, slipped, overtaken, dropped, budget>>

\* The directory handle follows a rename, and is worth nothing after a copy.
HeldAt(r) ==
  IF r \in detached THEN {}
  ELSE {p \in Place : dirs[p][r] # "none" /\ (p = home[r] \/ dirs[home[r]][r] = "none")}

WriteSummary(r, d) ==
  dirs' = [p \in Place |-> IF p \in HeldAt(r) THEN [dirs[p] EXCEPT ![r] = d] ELSE dirs[p]]

\* (Mutant: no placeholder.)
WritePendingLater(r) ==
  /\ RunMoves(r, "created", "running")
  /\ UNCHANGED <<dirs, indexVars, setting, home, detached, keeper, mover, aged, slipped, overtaken, dropped, budget>>

WritePending(r) ==
  /\ RunMoves(r, "created", "running")
  /\ WriteSummary(r, "pending")
  /\ UNCHANGED <<indexVars, setting, home, detached, keeper, mover, aged, slipped, overtaken, dropped, budget>>

WriteFinal(r) ==
  /\ RunMoves(r, "running", "summed")
  /\ WriteSummary(r, "final")
  /\ aged' = [aged EXCEPT !.dirs = @ \ {r}]
  /\ UNCHANGED <<indexVars, setting, home, detached, keeper, mover, slipped, overtaken, dropped, budget>>

\* append_index, in the place the recorder opened; the schema is looked at again there.
AppendIndex(r) ==
  /\ marker[home[r]] /\ Unlocked(home[r])
  /\ RunMoves(r, "summed", "over")
  /\ listing' = [listing EXCEPT ![home[r]] = Append(@, r)]
  /\ UNCHANGED <<legacy, marker, dirs, setting, home, detached, keeper, mover, aged, slipped, overtaken, dropped, budget>>

\* A call fails and the run goes on without it: without any record if the place could not
\* be prepared, and without a directory if none could be made.
WriteFails(r) ==
  /\ Slip
  /\ \/ RunMoves(r, "opened", "over") \/ RunMoves(r, "opened", "running")
     \/ RunMoves(r, "created", "running") \/ RunMoves(r, "running", "summed")
     \/ RunMoves(r, "summed", "over")
  /\ slipped' = slipped \cup {r}
  /\ UNCHANGED <<indexVars, dirs, setting, home, detached, keeper, mover, aged, overtaken, dropped>>

Kill(r) ==
  /\ Slip
  /\ phase[r] \in AtWork
  /\ phase' = [phase EXCEPT ![r] = IF phase[r] \in {"opened", "created"} THEN "debris" ELSE "killed"]
  /\ UNCHANGED <<indexVars, dirs, setting, home, detached, keeper, mover, aged, slipped, overtaken, dropped>>

-----------------------------------------------------------------------------
(* Retention                                                               *)

Age(r) ==
  /\ Spend("ages")
  /\ r \in Run => phase[r] # "new"
  /\ aged' = [runs |-> aged.runs \cup {r}, dirs |-> aged.dirs \cup {r}]
  /\ UNCHANGED <<indexVars, dirs, setting, runVars, keeper, mover, dropped>>

\* prune_at: by age, then from the oldest line on until the cap is met.
ExpiredRuns(p) == {r \in Range(listing[p]) : r \in aged.runs}
Detailed(p, S) == {r \in S : dirs[p][r] # "none"}
OverCap(p) ==
  LET left == SelectSeq(listing[p], LAMBDA r : r \notin ExpiredRuns(p))
  IN  {left[i] : i \in {j \in DOMAIN left :
        Cardinality(Detailed(p, {left[k] : k \in j .. Len(left)})) > MaxDetails}}

\* A line of another schema is an error.
BeginRetention(p) ==
  /\ keeper = NoKeeper /\ p = setting /\ marker[p] /\ legacy[p] = {}
  /\ Spend("prunes")
  /\ keeper' = [task |-> "drop", place |-> p, old |-> FALSE, lines |-> listing[p],
                doomed |-> ExpiredRuns(p) \cup OverCap(p)]
  /\ UNCHANGED <<indexVars, dirs, setting, runVars, mover, aged, dropped>>

DropDetail(r) ==
  /\ keeper.task = "drop" /\ r \in keeper.doomed \cap Detailed(keeper.place, AnyRun)
  /\ PutDir(keeper.place, r, "none")
  /\ dropped' = dropped \cup {r}
  /\ UNCHANGED <<indexVars, setting, runVars, keeper, mover, aged, budget>>

\* A detail that cannot be removed keeps its record.
DropFails(r) ==
  /\ keeper.task = "drop" /\ r \in keeper.doomed \cap Detailed(keeper.place, AnyRun)
  /\ Slip
  /\ keeper' = [keeper EXCEPT !.doomed = @ \ {r}]
  /\ UNCHANGED <<indexVars, dirs, setting, runVars, mover, aged, dropped>>

DropEnds ==
  /\ keeper.task = "drop" /\ keeper.doomed \cap Detailed(keeper.place, AnyRun) = {}
  /\ keeper' = [keeper EXCEPT !.task = IF keeper.doomed = {} THEN "sweep" ELSE "rewrite"]
  /\ UNCHANGED <<indexVars, dirs, setting, runVars, mover, aged, dropped, budget>>

RewriteIndex ==
  /\ keeper.task = "rewrite"
  /\ listing' = [listing EXCEPT ![keeper.place] = SelectSeq(keeper.lines, LAMBDA r : r \notin keeper.doomed)]
  /\ legacy' = [legacy EXCEPT ![keeper.place] = {}]
  /\ dropped' = dropped \cup keeper.doomed
  /\ keeper' = [keeper EXCEPT !.task = "sweep"]
  /\ UNCHANGED <<marker, dirs, setting, runVars, mover, aged, budget>>

\* sweep_orphans: a directory without a line whose summary names it, last changed before
\* the cutoff.
SweepOrphan(r) ==
  /\ keeper.task = "sweep"
  /\ r \notin Range(keeper.lines) \ keeper.doomed
  /\ dirs[keeper.place][r] \in {"pending", "final"} /\ r \in aged.dirs
  /\ PutDir(keeper.place, r, "none")
  /\ dropped' = dropped \cup {r}
  /\ UNCHANGED <<indexVars, setting, runVars, keeper, mover, aged, budget>>

EndRetention ==
  /\ keeper.task = "sweep"
  /\ keeper' = NoKeeper
  /\ UNCHANGED <<indexVars, dirs, setting, runVars, mover, aged, dropped, budget>>

\* A keeper dies, or a call of it fails: the lock goes.
KeeperStops ==
  /\ keeper # NoKeeper /\ Slip
  /\ keeper' = NoKeeper
  /\ UNCHANGED <<indexVars, dirs, setting, runVars, mover, aged, dropped>>

-----------------------------------------------------------------------------
(* migrate_log_dir: the entries of the old directory, one after the other, *)
(* by a rename or, across volumes, by a copy and a removal; no lock. What  *)
(* comes while the directory is read may be visited or not.                *)

Visit(e) == mover' = [mover EXCEPT !.left = @ \ {e}]
IsThere(p, e) ==
  CASE e = "index" -> listing[p] # <<>>
    [] e = "marker" -> marker[p]
    [] OTHER -> dirs[p][e] # "none"

\* The settings name the new place first.
BeginMove ==
  /\ mover = NoMove
  /\ setting' = "after"
  /\ mover' = [NoMove EXCEPT !.task = "entries", !.smooth = marker["before"],
                              !.left = {e \in AnyRun \cup Special : IsThere("before", e)}]
  /\ overtaken' = {r \in Run : phase[r] \in AtWork}
  /\ UNCHANGED <<indexVars, dirs, phase, home, detached, keeper, aged, slipped, dropped, budget>>

MoveDir(r) ==
  /\ mover.task = "entries"
  /\ dirs["before"][r] # "none" /\ dirs["after"][r] = "none"
  /\ dirs' = [dirs EXCEPT !["after"][r] = dirs["before"][r], !["before"][r] = "none"]
  /\ Visit(r)
  /\ UNCHANGED <<indexVars, setting, runVars, keeper, aged, dropped, budget>>

CopyDir(r) ==
  /\ mover.task = "entries"
  /\ dirs["before"][r] # "none" /\ dirs["after"][r] = "none"
  /\ PutDir("after", r, dirs["before"][r])
  /\ mover' = [mover EXCEPT !.task = "remove", !.entry = r]
  /\ UNCHANGED <<indexVars, setting, runVars, keeper, aged, dropped, budget>>

RemoveDir ==
  /\ mover.task = "remove"
  /\ PutDir("before", mover.entry, "none")
  /\ mover' = [mover EXCEPT !.task = "entries", !.entry = "none", !.left = @ \ {mover.entry}]
  /\ detached' = detached \cup {mover.entry}
  /\ UNCHANGED <<indexVars, setting, phase, home, slipped, overtaken, keeper, aged, dropped, budget>>

MoveIndex ==
  /\ mover.task = "entries" /\ listing["before"] # <<>> /\ listing["after"] = <<>>
  /\ listing' = [listing EXCEPT !["after"] = listing["before"], !["before"] = <<>>]
  /\ legacy' = [legacy EXCEPT !["after"] = legacy["before"], !["before"] = {}]
  /\ Visit("index")
  /\ UNCHANGED <<marker, dirs, setting, runVars, keeper, aged, dropped, budget>>

\* merge_jsonl reads both, publishes the merged file and removes the old one; so does a
\* copy across volumes.
ReadIndexes ==
  /\ mover.task = "entries" /\ listing["before"] # <<>>
  /\ mover' = [mover EXCEPT !.task = "merge", !.lines = listing["before"] \o listing["after"],
                             !.legacy = legacy["before"] \cup legacy["after"]]
  /\ UNCHANGED <<indexVars, dirs, setting, runVars, keeper, aged, dropped, budget>>

PublishMerged ==
  /\ mover.task = "merge"
  /\ listing' = [listing EXCEPT !["after"] = mover.lines]
  /\ legacy' = [legacy EXCEPT !["after"] = mover.legacy]
  /\ mover' = [mover EXCEPT !.task = "unlink", !.lines = <<>>, !.legacy = {}]
  /\ UNCHANGED <<marker, dirs, setting, runVars, keeper, aged, dropped, budget>>

RemoveMerged ==
  /\ mover.task = "unlink"
  /\ listing' = [listing EXCEPT !["before"] = <<>>]
  /\ legacy' = [legacy EXCEPT !["before"] = {}]
  /\ mover' = [mover EXCEPT !.task = "entries", !.left = @ \ {"index"}]
  /\ UNCHANGED <<marker, dirs, setting, runVars, keeper, aged, dropped, budget>>

MoveMarker ==
  /\ mover.task = "entries" /\ marker["before"] /\ ~marker["after"]
  /\ marker' = [marker EXCEPT !["after"] = TRUE, !["before"] = FALSE]
  /\ Visit("marker")
  /\ UNCHANGED <<listing, legacy, dirs, setting, runVars, keeper, aged, dropped, budget>>

EntryFails(e) ==
  /\ mover.task = "entries" /\ e \in mover.left
  /\ Slip
  /\ mover' = [mover EXCEPT !.left = @ \ {e}, !.smooth = FALSE]
  /\ UNCHANGED <<indexVars, dirs, setting, runVars, keeper, aged, dropped>>

\* A name that is taken, or gone, is passed over.
FinishMove ==
  /\ mover.task = "entries"
  /\ \A e \in mover.left : (IsThere("after", e) /\ e # "index") \/ ~IsThere("before", e)
  /\ mover' = [NoMove EXCEPT !.task = "done", !.smooth = mover.smooth]
  /\ UNCHANGED <<indexVars, dirs, setting, runVars, keeper, aged, dropped, budget>>

\* The program dies in the move; or the application log cannot follow it, and the settings
\* are put back, "but migrated history may remain in the selected directory".
CutMove ==
  /\ Slip
  /\ \/ Moving /\ UNCHANGED setting
     \/ mover.task = "done" /\ setting' = "before"
  /\ mover' = [NoMove EXCEPT !.task = "cut"]
  /\ UNCHANGED <<indexVars, dirs, runVars, keeper, aged, dropped>>

RecorderStep(r) ==
  \/ OpenRoot(r) \/ CreateRunDir(r) \/ WritePending(r) \/ WriteFinal(r) \/ AppendIndex(r)
  \/ WriteFails(r) \/ Kill(r)

KeeperStep ==
  \/ \E p \in Place : Migrate(p) \/ BeginRetention(p)
  \/ ListSummaries \/ SummariesEnd \/ ReplaceIndex \/ PublishMarker \/ DropEnds \/ RewriteIndex \/ EndRetention
  \/ \E r \in AnyRun : MigrateSummary(r) \/ DropDetail(r) \/ DropFails(r) \/ SweepOrphan(r)
  \/ KeeperStops

MoverStep ==
  \/ BeginMove \/ RemoveDir \/ MoveIndex \/ ReadIndexes \/ PublishMerged \/ RemoveMerged
  \/ MoveMarker \/ FinishMove \/ CutMove
  \/ \E r \in AnyRun : MoveDir(r) \/ CopyDir(r)
  \/ \E e \in AnyRun \cup Special : EntryFails(e)

HistoryNext ==
  \/ \E r \in Run : RecorderStep(r)
  \/ \E r \in AnyRun : Age(r)
  \/ KeeperStep
  \/ MoverStep

HistorySpec == HistoryInit /\ [][HistoryNext]_historyVars

-----------------------------------------------------------------------------
(* Properties                                                              *)

\* The variables have their types, and no index lists a run twice ("run record identity
\* is duplicated", repository.rs:236) before a move: a prune that read the index which
\* the move then takes away writes it a second time.
HistoryTypeOK ==
  /\ listing \in [Place -> Seq(AnyRun)]
  /\ mover = NoMove => \A p \in Place : IsInjective(listing[p])
  /\ budget \in [ages : Nat, prunes : Nat, slips : Nat]
  /\ legacy \in [Place -> SUBSET Range(PastRun)]
  /\ marker \in [Place -> BOOLEAN]
  /\ dirs \in [Place -> [AnyRun -> DirState]]
  /\ setting \in Place
  /\ phase \in [Run -> {"new", "opened", "created", "running", "summed", "over", "killed", "debris"}]
  /\ home \in [Run -> Place]
  /\ keeper.task \in {"free", "list", "summaries", "replace", "mark", "drop", "rewrite", "sweep"}
  /\ mover.task \in {"none", "entries", "remove", "merge", "unlink", "done", "cut"}
  /\ aged.runs \subseteq AnyRun /\ aged.dirs \subseteq AnyRun
  /\ detached \subseteq AnyRun /\ slipped \subseteq Run /\ overtaken \subseteq Run /\ dropped \subseteq AnyRun

\* history_merged reads the place the settings name, after the migration if it has no
\* marker: the lines of the index and the directories it does not name. One line or one
\* summary of the earlier schema, and the answer is an error.
Told == {"past", "pending", "final"}
Listed(p) == Range(listing[p])
Legible(p) ==
  marker[p] => legacy[p] = {} /\ \A r \in AnyRun \ Listed(p) : dirs[p][r] # "past"
Shown(r) == Legible(setting) /\ (r \in Listed(setting) \/ dirs[setting][r] \in Told)

\* Runs with a trace: those of the earlier release, and those whose placeholder was
\* written; without what retention dropped and what could not be written.
Recorded ==
  (Range(PastRun) \cup {r \in Run : phase[r] \in {"running", "summed", "over", "killed"}})
    \ (slipped \cup dropped)

\* "A run killed midway ... this field is what lets that directory still say I did not
\* finish" (model.rs:174): every run with a trace is shown, killed or not, through the
\* migration of the index and until retention drops it; and after a move of the logs that
\* came to its end, if the logs were migrated when it began and the run was not at work
\* then.
NoRunVanishes ==
  /\ mover = NoMove => \A r \in Recorded : Shown(r)
  /\ mover.task = "done" /\ mover.smooth => \A r \in Recorded \ overtaken : Shown(r)

\* "Best-effort throughout, and never destructive" (relocation.rs:8): after a move that came
\* to its end the logs can be listed.
MovedLogsAreLegible == mover.task = "done" => Legible(setting)

=============================================================================
