# SyncDash, specified

SyncDash compares two directory trees, lets a person review the differences, and
applies them: it mirrors a source, enriches a target, or synchronises both ways with
the help of an archive of what the two sides last agreed on. This directory holds TLA+
models of it, TLC configurations that check them on small instances, and proofs for
every size of instance.

    tlc -workers 2 -config MCSyncCycle.cfg MCSyncCycle.tla     check one run
    tlapm LiveProofs.tla                                       check the proofs

`PROJECT.json` lists the runs, a mutant of the code for each property (an operator
whose comment says `mutant` or `Seeded fault`, which breaks it), the source lines of
every definition, the hazards, the findings and the theorems.

## The system

Paths are below `src/Dev/src` unless they start with `src-tauri` or `typescript`,
which are below `src/Dev`.

| Component | State | Operations | What makes it correct | Module |
|---|---|---|---|---|
| Root lock, `base/fs/lock` | anchor, claim, heartbeat and release files in the root | acquire, heartbeat poll, verify, drop | one owner per root; no takeover of a live one; a lost lease is noticed; the ledger never becomes unreadable | `RootLock` |
| File transactions, `workflow/pipeline/apply/execute` | the root, the trash, hold and staged files | copy, update, link, move, delete, each with its roll-back | nothing a person wrote is lost; success is verified content; a lost lease stops changes | `FileTransaction`; delta updates, permission bits and the version store as the place to keep old files are left out |
| Apply: coordination and accounting, `apply/{mod,coordination,validation,reporting}.rs` | the queue of each class, the memo of directories, counters, outcome | validate, run the classes over a pool, delete directories, wrap up, report | a clean outcome means every operation is on disk; a directory goes only with what may go | `ApplyPool`; the classes also in `SyncCycle` |
| Planning, `workflow/pipeline/compare` | none: a function of two snapshots and the archive | pair, classify, resolve, order | only agreed content is replaced or deleted | `SyncCycle`; directories, permission bits, case folding and the tiers below full hashes are left out |
| Evidence for the desktop, `compare/evidence.rs` | a retained comparison | reverse a reviewed row | a reversed row is the opposite of what it was | `SyncCycle` (`Reversed`); paging is presentation |
| Job runs, `application/run/local` | the archive of the pair | scan, compare, apply, refresh | the archive is agreement; a finished run has an idle successor | `SyncCycle`; preflight guards are left out, a refused run changes nothing |
| Scan, `workflow/pipeline/scan` | a snapshot under construction, files open | walk, decide on a cached digest, read, check after reading | what was not seen is never taken for absent; a digest is of bytes the file had | `ScanCache`, what a cycle needs of it in `SyncCycle` |
| Hash cache, scan state, mtime corrections, `services/store` | two tables per root | load, bind to a volume, merge, prune, rewrite | a digest is never reused for other bytes; a correction outlives the scan | `ScanCache` |
| Peer runs, `application/run/peer`, `workflow/transfer/peer.rs` | the request, the link, the far process | ask for chunk tables, pack, ship, launch, hear the answer, refresh | what is reported is true of the far side | `PeerPackage`; the pull half is a local apply |
| Packages, `workflow/transfer/pack` | the package, the far staging directory | create in two passes, stage, rebuild deltas, publish | what is published is what was compared | `PeerPackage`; the tar and JSON formats are data |
| Version history, `services/store/version` | payloads, manifests, an index | preserve, finish, prune, restore | every indexed version can be rebuilt | `VersionStore` |
| Trash, `services/store/trash.rs` | a directory per run | displace, prune by age, spacing and size, restore | what thinning leaves is spaced; a restore overwrites nothing | `Trash` |
| Local root and staged files, `base/fs/{local_root,staged.rs}` | an open root | no-replace rename with the claim fallback, staged commit and drop | old content or complete new content, never a mixture | `Backend`; walks and metadata are left out |
| Storage backends, `base/fs/vfs` | sessions of sftp, smb and ftp | staged write, publish, stat, confirm absence | the promise of `vfs/mod.rs` to a writer; absence is never a guess | `Backend`, which implements `Publication`; directories, times, modes and links are left out |
| Archive files, `application/run/archive` | the archive, its backup, a receipt, a lock file | lock, migrate, roll, replace | a death anywhere leaves an archive that loads, and a migration that resumes | `ArchiveFile` |
| Jobs and their registry, `application/job` | job files with identity and revision | load, create, save, rename, delete, seed | no save or deletion takes a revision its editor has not seen | `JobRegistry`; the rules for single settings are data |
| Settings, `services/store/settings.rs`, `src-tauri/.../settings` | the file, grants for directories, the open log | load, save by revision, switch the log, roll back | no edit of another is overwritten | `SettingsFile` |
| Run history, `application/run/history` | a directory per run, an index, two log roots | record, migrate, prune, move | no run with a trace vanishes | `RunHistory` |
| Watch, `application/run/watch`, `base/fs/watch`, `src-tauri/.../autoscan/worker` | a cursor per root, a channel, a trigger, a checkpoint file | reduce events, latch, ticket, requeue, save, resume, fall back to polling | every change is compared; the cursor never passes an unread one | `Watch` |
| Run control and logging, `services/obs` | pause and cancel switches, one announcement flag | pause, resume, cancel, checkpoint | no work in a pause; reports balance; cancel gets through | `PauseGate`; counters, rates and log files are left out |
| Desktop: operation lifecycle, `src-tauri/.../operations` and the progress window in `typescript` | reservation, active run, closing, power grant, the window and its events | launch, open, arm, run, stop, close, power action, mutation | no Apply without its window; a control hits its own run; nothing runs beside a mutation | `Operations` |
| Desktop: authorization, `src-tauri/.../operations/authorization` | challenges and one-use tokens | review, approve, claim, revoke, expire | what is claimed is what was approved, and current | `AutoScan` |
| Desktop: AutoScan, `src-tauri/.../autoscan` | generation, ticket, permit, the worker | start, stop, trigger, permit, complete, decline | nothing is written unattended on evidence that is not the latest | `AutoScan`, its detection loop in `Watch` |
| Desktop: review decisions, `operations/decisions.rs` | the decisions on the rows | run, leave out, reverse | a run does what the reviewer saw | `SyncCycle` (`Decided`) |
| Models, `base/model` | plan, table | order, generations of an entry | | what the planner uses, in `SyncCycle` |
| Guards, filters, name safety, `workflow/pipeline/{guard,filter,name_safety}` | none | check a plan | a refusal before the first change | not modelled: sequential checks of data |
| Desktop: compare evidence repository, `src-tauri/.../compare/evidence` | an index of retained results | publish, pin, forget | a pinned result stays | not modelled; `AutoScan` has only whether a result is kept |
| Desktop: jobs, settings, ipc, window | none | forward commands | | not modelled |
| Command line; user interface; build and scripts; local ids | | | | not modelled: arguments, presentation, build files, identifiers read once |

How they meet. A job run scans both roots, pausing and cancelling at checkpoints
(`PauseGate`), with the digests of the last scan (`ScanCache`); plans with the archive
(`SyncCycle`, `ArchiveFile`); is reviewed; takes the locks of both roots (`RootLock`);
applies the plan over a pool of workers (`ApplyPool`), each through the file
transactions (`FileTransaction`), which ask the lease before every change and put what
they displace into the trash or the version history (`Trash`, `VersionStore`), all of it
over a backend (`Backend`); or ships it to a peer (`PeerPackage`). When every operation
went through it scans the source again and replaces the archive with what it saw, and
its record is closed (`RunHistory`). On the desktop a run is reserved, watched and
stopped through the lifecycle and the progress window (`Operations`); AutoScan starts
compares and applies of its own (`AutoScan`) when the roots change (`Watch`). Jobs and
settings are documents that programs and text editors share (`JobRegistry`,
`SettingsFile`).

What is hard: processes that race for a root with nothing but file creation; directory
listings that are not atomic; calls that fail after they took effect; people who save,
rename and rewrite in place under a scan, under an apply and between the two scans of
one run; crashes, cancellations and a lost lease between any two calls; answers of a far
process that come late or never; conflicts that live over several runs; commands,
windows and events that overlap; state that is checked under one lock and used under
another. `PROJECT.json` places each hazard at its line.

## The modules

Each module is one component: its variables are the component's state, one action is one
step of the code that nothing can come between (a backend call, a decision under a lock,
the reading of a whole file or of one chunk), and what the surroundings do (people,
faults, deaths, other programs, late messages) are actions too. A variable marked
`history` or `auxiliary` is read by properties only. The names of the actions are those
of the functions where the code has one.

### A root and its files

**RootLock.** `anchor`, `claims`, `beats` and `releases` are the files of the lock
directory; `pc`, `mine`, `seen` and `lost` are the locals of `RootLock::acquire_vfs`, the
listing it read and the flag of the heartbeat thread. `UseAnchor`, `DrawLedgerId`,
`PublishAnchor` are `ensure_anchor`; `ListLedger` and `Decide` are `inspect_ledger`;
`PublishClaim`, `DecideAgain`, `PublishBeat`, `Confirm` the rest of the acquisition;
`NoticeLoss` the heartbeat; `DropGuard` and `Release` the drop. A listing has what was
there at its start and any part of what changed since. A publication fails without
effect, or with it. `RemoveLedger` is the person who follows `occupied_error`; `Hasty`
says whether he does so while owners run. Ids and owner tokens are random 128-bit
numbers: they are drawn among those nobody has.

**FileTransaction.** All of `copy_file`, `move_file`, delete, `preserve` (by rename, or by
copy, hash, publication and removal when the trash is on another volume),
`claim_move_source`, `verify_move`, `copy_claimed_move` and `rollback_claim`, with every
error path. `InPlace` says whether a program may write through a handle it opened before
the file was renamed; `Central` whether the trash lies on another volume; `exact`
whether an operation carries a full digest (with a sampled one a changed source may
pass).

**ApplyPool.** One Apply as `coordination.rs` drives it: `Validate` is
`validate_operation_paths`, `NextClass` and `Take` the queues and their tickets (`Turn` is
the place of an operation in the sorted queue of its class, directories deepest first),
`Ensure`/`MakeDir`/`NoteDir` the `mkdir_memo`, `Write` the transaction
of one file (`Displaces`: what is at its path goes to the trash, a directory with all it
holds; a version writer takes files only), `TryDir` to `ClearDir` the deletion of a
directory that is not empty, `Record` the accounting, `WrapUp`, `Finalize` and `SumUp`
the end, with `lease_healthy_for_wrapup`. A transaction of one file is a step here, with
what it may leave half done. A plan may be imported, so any plan may arrive.

**Backend** and **Publication.** `Publication` is what `vfs/mod.rs` promises to a writer
of a staged file; `Backend` carries it out over each protocol: the claim fallback of the
local root, the commits of sftp, smb and ftp with their clearing of the destination, calls that
fail, or time out after they took effect, a lost session, an upload that is cut, and the
two stats of `confirm_absent`. `Promise` is the refinement. `Bypass` says whether a
program's save may hit the placeholder of a claim; `Lies` which answers "no such file"
may be wrong.

**ScanCache.** `ScanBegins` loads the hash cache and the mtime corrections (`RowsOf`:
version, volume binding); `ListRoot`, `ListFolder` and their failures are the walk;
`PrepareFile` chooses between a cached digest (`ReusableCachedDigest`) and a read;
`OpenFile` and `FinishFile` with `Unchanged` are the read and the check after it;
`SaveCache` and `ReconcileFixes` publish both tables. `Install` and `RecordFixes` are an
Apply that publishes a file and later records its correction, on a file system that
rounds mtimes (`Held`); contents of one size that it gives one mtime are the same
(`MtimeAssumption`), which is the rule the scan rests on. `blurred` marks the files where
that rule fails: one whose correction was lost, and one that an Apply replaced, after the
scan had met it, by another of the same size and mtime (`TakenFor`).

### Runs

**SyncCycle.** Two roots, an archive, and runs that follow one another: `StartRun`, the
scans (both roots in parallel, each in a fixed order, one path per step), `Compare`,
`RunAll`, `RunReviewed` or `Decline`, `Do`/`Fail`, `EndApply`, `Stop` (cancel or crash), a
second scan of the source, `Publish` or `PublishFails`. People edit between runs, and on
the sides in `writers` also during runs. `OneWayPlans` and `TwoWayPlans` are
`planning::compare` arm by arm, with `detect_moves` (`Pairings`), the generations of
archive entries (`GenerationOf`, `Rolled`), symlinks (`LinkOps`), the policies
(`Resolved`), `validate_operation_paths` (`Valid`) and `reverse_op` (`Reversed`). A
content stands for its full digest; a comparison of mtimes is a choice of winner; which
of several equal candidates a move takes is left open; conflict copies are not paired. One operation is one step.

**PeerPackage.** `ComparePeer`, `Table` (the chunk tables asked of the far side), `Open`,
`ReadPiece`, `FirstOver`, `SecondOver` (the two passes over a source that is being
written), `Ship`, `Launch`, `Answered`/`AnswerLost`, `Refresh` on this side; `Decode`,
`Stage`, `Rebuild`, `PublishFile`, `FinishPack`, `Dies` on the far one, which goes on when
the connection is lost. A file is a sequence of pieces that stand for its chunks, and a
hash is what was hashed, so that a sampled digest can agree where contents differ. Its
`Damage` is a package that arrives changed.

**RunHistory.** There are two places for logs, the one the settings name (`setting`) and
the other. `OpenRoot`, `CreateRunDir`, `WritePending`, `WriteFinal`, `AppendIndex` are the
recorder of a run, which keeps to the place it read first; `Migrate` to `PublishMarker` the
migration of an index and its summaries; `BeginRetention` to `EndRetention` the prune and
the sweep of orphans; `BeginMove` to `FinishMove` the move of the logs, an entry at a time,
by rename or by copy, with `ReadIndexes`, `PublishMerged`, `RemoveMerged` for
`merge_jsonl`. The move starts whatever the state of the logs is and takes no lock. Each
may fail or be killed at every step (`EntryFails`, `CutMove`, `KeeperStops`). `Shown` is
`history_merged`: only the place of the settings counts, and nothing is shown when a line
of its index cannot be parsed (`Legible`).

### Stores and documents

**VersionStore.** `OpenVersion`, `KeepDelta`, `KeepWhole`, `PublishNew` displace a file
into a version; `FinishUnindexed`, `WriteManifest`, `WriteIndex` end it; `PruneIndex`,
`PruneDirectory`; `BeginRestore`, `StageOld`, `DisplaceCurrent`, `PutOld`, `EndRestore`
are the restore transaction. `payload`, `manifest` and `index` are on disk, `entries` and
`unindexed` fields of `VersionWriter`. A version has the time of the machine that writes
it (`stamp`, any of `Stamps`), and a prune keeps the newest by it. `StreamNew` and
`KeepDelta` read the other root one after the other, as the code does.

**Trash.** `Displace`, `BeginPrune` with `Doomed` (by age, `Staggered` spacing, and size),
`RemoveRun`, `BeginTrashRestore`, `SkipExisting`, `StageHit`, `CommitHit`. Several runs may
fall in one second (`Second`), and `Staggered` names seconds. Nothing locks the trash.

**ArchiveFile.** A compare or a refresh (`OpenArchive`) takes the lock, classifies the
file, and migrates schema 1 in four durable steps (`HashSource`, `ReadLegacy`,
`PublishBackup`, `PublishReceipt`, `Recheck`, `CommitMigration`); `Republish` is a
refresh's replacement. A receipt has the digests of both sides. `OldRelease` writes schema
1 without the lock.

**JobRegistry.** A load is `ReadText` and `NameFile`, which gives a file without an identity
one and writes it back. `Begin…` is what an editor asks for with the revision it saw;
`Look` compares the revision and `Identify` the identity, each with a read of its own, and
`LookAgain` compares the revision once more, which a deletion does not; `Commit`,
`LinkNewName`, `RemoveOldName` publish, each with its failures. `ByHand` is a text editor,
which asks no lock and may come between any two of these.

**SettingsFile.** `BeginSettings` with a grant of `SelectDirectory`; `CompareSettings`,
`KeepPrevious` (the second read, of the bytes a rollback will want), `WriteSettings`,
`RereadSettings` under the lock; `SwitchLog` or `SwitchFails`, and `CompareRollback` and
`RollbackSettings`, a read and a write.

### The desktop

**Operations.** `engine` is `LifecycleState`, whose every decision is one step under its
lock: `Reserve`, `StartRun`, `Refuse`, `End`, `Grant`, `BeginMutation`, `RequestCancel`,
`BeginClose`, `Settled`. `opener` is `open_progress_window` (`FindWindow`, `BuildWindow`,
`Arm`, `TearDown`), `page` the TypeScript of the progress window, which learns of the
engine only by the events in `inbox`; `button` the Apply of the main window. A window is
gone when `destroy()` returns, and with it the calls it made; an async command is served
whenever a thread takes it.

**AutoScan.** Four locks protect four pieces of state: the controller's gate (`gate`,
`active`), the status shared with the worker (`shared`), the retained results (`exec`,
`result`) and the authorizations (`tokens`); each step is one critical section. `work` are
the commands, `worker` the detection thread; `SaveJob` and `EditByHand` change the job
under them. `Observe` is one step although `publish_trigger` has three critical sections
there: the two others run only over a ticket that is still pending, which
`TicketIsAwaited` excludes. The branch of `terminalize_verification` for a worker that has
gone is in `Terminalize`; the same property shows that it is never taken.

**Watch.** `Change` appends to the journal of a root, `CallBack` reduces a batch
(`Moved`, `Untrusted`) and sends it; `Receive`, `Periodic`, `TakeWork`,
`CompletionArrives` and the polling steps are the worker; `Observed`, `Taken`, `Requeued`
the trigger; `Persist` the checkpoint file; `Arm`, `Prepared`, `Replayed` the start from
it; `ArmFails` the streams that cannot be armed, after which polling has the generation.
`Wrap` and `ReplaceJournal` are event ids that regress and a volume with another
journal.

**PauseGate.** `RunCtx::checkpoint` with each load, swap and emission as an action, for
any number of workers, and the switches of `RunCtl`. The atomics are taken as
sequentially consistent; paused time is left out.

### Composition

Components that do not share state are checked side by side: in `MCShared`, `MCScan`,
`MCApply`, `MCStores`, `MCDocuments` and `MCLive` a variable `part` names the one that
moves while the others keep their initial state, so a run explores the sum of their
states and not the product. What they promise one another is a guard or a constant: a
transaction asks `lease` and `noticed` for what `RootLock` says, `ApplyPool` takes a
transaction as one step that succeeds or fails, `SyncCycle` takes an operation so,
`PeerPackage` the transaction of one far file, `AutoScan` the success of a compare.
Components that do share state are in one module: the window and the lifecycle, the
controller and the authorizations, both ends of a peer run, both roots of a cycle.

## The runs

Distinct states and minutes are of `tlc -workers 2`.

| Run | Configuration | Question | States | Time |
|---|---|---|---|---|
| `shared` | `MCShared.cfg` | One guard per root, no takeover, a readable ledger (`MutualExclusion`, `NoTakeover`, `LedgerStaysReadable`)? On the desktop: no Apply without its window (`NoHeadlessApply`), no close left open (`ClosingIsSettled`), nothing beside a mutation (`MutationIsAlone`), a stop and a power action only for their run (`StopHitsItsRun`, `PowerActionIsCurrent`)? | 1.42 million | 1.7 min |
| `files_scan` | `MCScan.cfg` | Is nothing lost in moves, updates and a trash on another volume (`NothingLost`)? Is a reused digest true (`DigestIsTrue`), an absence a deletion (`AbsentWasAbsent`), a correction kept (`CorrectionsOutliveTheScan`)? | 2.04 million | 1.5 min |
| `files_writers` | `MCApply.cfg` | Under programs that rewrite in place: is success verified (`DoneIsVerified`), does a lost lease stop the run (`LossStopsMutation`)? Is a clean summary true (`CleanSummaryIsTrue`), does only what is taken or deletable go (`OnlyTheDeletableGoes`)? Over a peer: is what is applied what was compared (`AppliedIsCompared`), "before the first write" true (`BeforeWriteIsTrue`), the archive earned (`ArchiveWasThere`), an old answerless run not the last word (`NoLateOverwrite`)? | 3.45 million | 2.4 min |
| `cycle` | `MCSyncCycle.cfg` | Does the archive hold what both sides had (`ArchiveIsAgreement`), is the run after a finished one idle (`SecondRunIsIdle`), is only agreed content taken away (`NoSilentOverwrite`), is a loser in its copy first (`LoserIsKept`)? | 2.96 million | 2.4 min |
| `live` | `MCLive.cfg` | Has a contest for the lock a winner (`ContestHasWinner`)? Does cancel end everybody (`CancelGetsThrough`)? Is every change compared (`ChangesAreVerified`), the saved cursor earned (`CheckpointIsEarned`) and nothing forgotten on the way (`NothingIsForgotten`)? | 145 thousand | 1.4 min |
| `stores` | `MCStores.cfg` | Does an indexed version have its payloads (`IndexIsHonoured`), and can its contents be rebuilt (`HistoryReaches`)? Is a run with a trace always shown (`NoRunVanishes`)? Is absence real (`AbsenceIsReal`), and does every backend implement `Publication` (`KeepsThePromise`)? | 3.23 million | 2.4 min |
| `documents` | `MCDocuments.cfg` | Does an interrupted migration resume (`MigrationResumes`), is no save lost (`NoLostUpdate`, `SettingsAreNotLost`)? Has a pending ticket its worker (`TicketIsAwaited`)? Is an unattended Apply for the latest ticket (`UnattendedIsCurrent`), and every writing Apply on a compare begun after the last writes (`ComparedAfterWrites`)? | 1.17 million | 1.5 min |
| `cycle_saved` | `MCSyncCycleSaved.cfg` | violation of `NoSilentOverwrite` | | |
| `cycle_loser` | `MCSyncCycleLoser.cfg` | violation of `KeptCopyStays` | | |
| `versions_clocks` | `MCStoresClocks.cfg` | violation of `PruneKeepsHistory` | | |
| `trash_restore` | `MCStoresRestore.cfg` | violation of `RestoreNeverOverwrites` | | |
| `history_moved` | `MCStoresMoved.cfg` | violation of `MovedLogsAreLegible` | | |

What the safety properties leave out, each with the run or the table below that shows why:

- `NoRunVanishes` speaks of runs whose placeholder was written, and not of what retention
  dropped. While a move is under way, after one that was cut short or failed for an entry,
  and after one of logs that were not migrated (`history_moved`), it says nothing; nor,
  after any move, of the runs that were at work when it began.
- `HistoryReaches` excepts a file somebody changed by hand, a delta whose base never came
  (refuted as `HistoryIsAvailable`; also after a failure or crash that follows the preservation), and a history in
  which a machine wrote a version with a time before one the index listed
  (`versions_clocks`).
- `NoLostUpdate` speaks of saves and changes of the roots. A deletion compares once
  (refuted as `NoLostDeletion`).
- `OnlyTheDeletableGoes` counts all that lies below a path as taken with it, as the code
  does: a directory that stands where the plan has a file goes whole into the trash.
- `KeepsThePromise` lets a writer be told of a failure although its file landed.

### Bounds, and why they are enough to matter

- `shared`: two processes, generations 0 to 2, one error, one crash, one deletion of the
  ledger. A takeover, a lost race and a second reading of a contested claim need two
  processes and two generations; the third shows a ledger that works on after a release.
  On the desktop two commands with one launch and one run; one command with three
  launches, the smallest number where a late removal meets another window; one with two
  runs, the smallest where a control can hit the wrong one.
- `files_scan`: a move, an update of the path it left and a symlink, which is the longest
  chain of operations that depend on one another; two saves and two faults. Two files, one
  in the folder, two volumes, contents of which two have one size and mtimes that round to
  one value; two scans, so that the second uses what the first stored.
- `files_writers`: the chain of move, update and delete with two rewrites and two faults; two
  workers, all plans of two operations of eight kinds, and all triples with a move and an
  update of its source; a large and a small file over a peer, two runs, one write, one
  trouble, in three tiers.
- `cycle`: two files make a rename, two contents a conflict, a third run is the first that
  can misuse what the second one wrote into the archive; four edits between them; one
  unreadable file, failure or crash; mirrors, from the command line and reviewed in the
  desktop, and enrich jobs over two files and symlinks, two runs and an unread directory.
- `live`: two processes; two workers and two pauses; one watched root, one change, one
  mishap (a failure, a dropped history, a replaced journal, a crash), one path until a
  batch is too large.
- `stores`: one file with two versions, three edits and a failure or crash; two times a
  machine may read off its clock; a trash over six ticks of
  the clock; two writers, two faults, one other person, every protocol. Contents of one
  kind are symmetric. For the records one run of this release beside one of an earlier
  index, and one prune: with a step of age, with or without a history at the other place, or
  with a slip of the clock.
- `documents`: two editors with two mutations, an edit by hand and a mishap; two loaders,
  two writes by an old release, two breaks; two programs with two saves; for AutoScan
  scenarios that each allow a few of: starts, tickets, compares, saves, edits by hand,
  expiries, forgotten results.

`CHECK_DEADLOCK FALSE` stands where bounded edits, runs and faults run out, where nobody
has to start anything, and where a run that ended stays ended: in every configuration, as
each bounds something or has a part where nobody must act.

### Fairness

Stated in the component modules and gathered in `LiveSpec`. `RootLock`: an acquisition
that was started runs on (a thread of the process), and the heartbeat thread keeps
polling; nobody is forced to start, to drop a guard, or to fail. `PauseGate`: a worker
thread is scheduled and comes back to its checkpoint after a bounded piece of work; the
user is free. `Watch`: the system calls back with events it has, the worker's loop turns,
a compare the desktop was given ends, and time passes, so that a quiet interval and the
periodic deadline come. A failing compare, a mishap or a change is never forced.

## What the models found

Five runs end in a violation, each of a sentence of the code; `findings` in
`PROJECT.json` quotes them.

| Run | What the code does |
|---|---|
| `cycle_saved` | The archive is a second scan of the source, later than the plan (`refresh.rs:39`): what was saved between is recorded as agreed, and a later run overwrites or deletes it. |
| `cycle_loser` | A loser kept as a copy on the source is archived by that scan, and the next run takes its absence on the target for a deletion. |
| `versions_clocks` | A prune orders versions by the clock of the machine that wrote each (`retention.rs:102`): with one clock behind it drops the base of a delta it keeps. |
| `trash_restore` | The look follows symlinks and the commit replaces (`trash.rs:136-160`): a dangling symlink, or a file that came since, is overwritten. |
| `history_moved` | The move of the logs merges an index nobody migrated into one of this schema (`relocation.rs:84`), and `history_at` refuses the mixture (`repository.rs:93`): no run is listed. |

Refuted with other constants than those of the runs; the definition is in the module
with the sentence it comes from:

| Property | Constants | The sentence, and what the code does |
|---|---|---|
| `NoHeadlessApply` | `OpSpec`, `AutoClose = TRUE`, `Bounds <- Alone` | `useProgressPowerActions.ts:196`. The timer of the auto-close asks for the removal of the window without `begin_progress_window_close`, so a window that decided for its last run may acknowledge the next launch before it goes, and that launch's Apply runs with no window. |
| `NoRollbackAfterLoss` | `Plan <- PlanChain`, `Fsync = TRUE`, two faults | `lease.rs:45`, "root lock ownership was lost; stopping before further mutations". A claim whose directory fails to sync is renamed back without asking whether the lock was lost (`file_transaction.rs:132`). |
| `ReactsToChanges` | `WatchSpec`, two mishaps | After every completion `retry_not_before` moves to the periodic deadline (`native_macos.rs:104`): after the first compare events no longer shorten the interval. |
| `HistoryIsAvailable` | those of `stores`, no trouble | `version/mod.rs:3`, "the history remains available". The reverse delta is made against a new read of the file that `copy_file` has already staged (`writer.rs:115`, `copy_file.rs:276`): a save between leaves an indexed version that cannot be rebuilt. |
| `ThinnedAreSpaced` | those of `stores`, `Second = 3`, `MaxBytes = 3`, one trouble | `trash.rs:197`, "adjacent versions must be at least step seconds apart". The thinning names seconds, and each is looked up with `find` (`trash.rs:264`): of two runs of one second that are both to go, one stays. |
| `NoLostDeletion` | those of `documents` | `fence.rs:3`, "Every mutation carries the job id and config revision the caller believed current". A deletion compares the revision, reads the file again for its identity and removes it (`delete.rs:34-45`): an edit by hand between the two reads goes with it. |
| `NoHeadlessApply` | `Prompt = FALSE`, `AutoClose = FALSE`, one command, three launches, one run | `progress_window.rs:141`, "Removing the window and settling its close are one operation". They are two steps with nothing held between; a settling that comes two launches late lowers the close of another window. |
| `ConflictsAreReportedAgain` | `cycle` jobs | `refresh.rs:16`, "Conflicted paths remain absent so the next run reports them again". Absent from the archive, a file that one side has is an added file: the second run copies it to the side that deleted it. |
| `NoSilentOverwrite` | `trouble = {"unread"}`, two-way | What the target scan could not read is archived from the source, and the next run deletes it there. |
| `ArchiveIsAgreement` | a reviewed two-way job | `archive/mod.rs:1`. A row the reviewer left out is archived all the same. |
| `LoserIsKept` | policy "copy", `faults = 1` | `policy.rs:28`. When the move that keeps the loser fails, the update of the same path runs all the same. |
| `NeverHalfWay` | `Plan <- PlanUpdate`, a crash | `apply/mod.rs:3-5`, "never half way". The old file goes to the trash before the new one is published. |
| `SourceChangeIsNotRemoved` | `Plan <- PlanDelete`, `InPlace` | the test at `preservation.rs:324`. A rewrite after the second hash is removed with the file. |
| `ErrorLeavesNoClaim` | one error | `lock/mod.rs:76-79`. A read that fails after the heartbeat was published leaves the claim. |
| `MissingAnchorIsMissing` | no fault | `record_store.rs:73-82`. The anchor may be published between the read that missed it and the listing. |
| `ReportedOncePerPause` | two workers | `progress.rs:80`, "exactly once". A worker that saw the pause before it was lifted announces it after another took the flag down. |
| `KeepsThePromise` | `Bypass = TRUE` | `vfs/mod.rs:17-18`. A save between the claim and the rename is replaced. |
| `AbsenceIsReal` | `Lies = {"name", "parent"}` | `absence.rs`. A missing parent is taken as confirmation. |

Read off the code while modelling it, each visible in the actions:

- *Compare and cycle.* A path that is a file on one side and a symlink on the other is
  planned twice (`symlinks.rs:49,92`): a one-way plan is refused as a whole, a two-way one
  copies both and exchanges the sides. An imported plan whose directory deletion covers a
  leaf it has just copied removes it, if it is deletable.
- *Apply.* `coordination.rs:291-299` reports a lost lease as not cancelled, and
  `ApplyOutcome::finish` folds the user's cancel back in. The comments speak of five
  classes, the code runs six.
- *Peer.* `peer.rs:206-208` says a cancelled upload makes the far `recv` fail its hash check
  and write nothing; `recv` compares no hash and leaves a partial file. A run stopped
  after shipping leaves its package on the far side. A far side that is silent for
  20 seconds is reported as failed after writing while it goes on (`peer.rs:220`), and may
  publish after a later run: the exception of `NoLateOverwrite`. Without a digest a source
  edited while it is packed is published torn, under its old mtime.
- *Scan.* Only a correction that differs is recorded and none is ever removed by an apply;
  when one is lost (a crash before `coordination.rs:220`, a concurrent scan's
  `reconcile`) a digest of other content with one size and rounded mtime may be served.
  The proof of `DigestIsTrue` showed another way there: an Apply beside the scan replaces a
  file the walk has met by one of the same size and raw mtime, the read takes it for the
  one it met (always in the lane that compares no file ids, else when the id comes back),
  and its digest is saved under the mtime the correction gave to the old one. `blurred`
  excepts both.
- *Stores and documents.* The size cap of the trash is not reached while the newest run is
  larger. A rename of a job that dies between its link and its removal leaves two files
  with one identity, and `load_all` fails (`registry.rs:119`). A hand edit of the settings
  between the save and its reading back is rolled back with it. A release that rewrites
  schema 1 after the backup stops the migration. The move of the log root takes no index
  lock: a prune beside it may duplicate records (`repository.rs:236`), and the sweep of
  orphans removes the directory of a run that is older than `keep_days` and still running
  (`retention.rs:251`).
- *Backends.* A crash in the claim fallback leaves an empty entry. The replacing commits of sftp,
  smb and ftp clear the destination first; ftp shows a cut upload before it measures it,
  so the comment at `ftp/staged.rs:227` is not true then.
- *Desktop.* A failure to rebind roots (`effects.rs:17-57`) returns before authorizations are
  revoked. A trigger published while an Apply of the same revision runs expires, and
  AutoScan then deactivates itself; a manual Compare during a pending ticket does the
  same. `forget` resets the epochs of a scope, which then start at 1 again. A hand edit to
  another revision and back leaves evidence of the first fresh. A fresh window replays
  the last clean summary until it is armed. An unattended Apply that panics never ends the
  spinner of its window.
- *Watch.* `request_periodic` sets `observed` ahead of the channel, so the next batch reads as a
  discontinuity; a requeue does not check `max_paths`; AutoScan stands still while the
  front end neither takes nor declines a trigger.

## The proofs

`tlapm` proves the theorems for every value of the constants that the named assumptions
(`ASSUME ...Assumption` of each module, which TLC evaluates in the runs) allow; no bound of
the runs is used. Each proof module starts with its inductive invariant, whose parts are
named conjuncts; TLC checked it before it was proved. Where actions are many, small
lemmas say what each does to the variables a part reads, and the step lemma goes over
those summaries.

| Module | Theorem | States | Under |
|---|---|---|---|
| `LiveProofs`: root lock | `OneOwnerAlways`, `NoTakeoverAlways` | two guards never both own the root; no generation of the current ledger is claimed before its predecessor was released | nothing |
| | `MutualExclusionAlways`, `LedgerStaysReadableAlways` | one guard at most; a ledger `inspect_ledger` accepts | `~Hasty` |
| `LiveProofs`: pause gate | `ReportsAlwaysBalance`, `NoWorkInPause` | every Paused has its Resumed; nobody held in a pause goes on in it | nothing |
| `LiveProofs`: watcher | `CursorIsEarned`, `NoChangeIsForgotten` | a saved cursor passes nothing unread; no unverified change leaves the pipe | nothing |
| `PipelineProofs`: file transactions | `NothingLostAlways` | content people did not remove is at a path, in the trash or at a hold name | `~InPlace` |
| | `LossStops` | after the loss is noticed at most the change already checked for, and a roll-back after a failed sync | nothing |
| | `DoneVerified` | reported success with a full digest has put the planned content there | nothing |
| `PipelineProofs`: scan | `ReportedDigestsAreTrue` | a reported digest is of bytes the file had during the scan | `MtimeAssumption` |
| | `OmittedFilesWereAway`, `CorrectionsAreKept` | a file left out was away; no correction still needed is dropped | nothing |
| `PipelineProofs`: apply run | `CleanSummaries` | a clean summary means every operation was carried out or kept back on purpose | nothing |
| | `RecordedOnce`, `OnlyTakenOrDeletableGo` | no operation is recorded twice; only what an operation takes or the filter lets go leaves its name | nothing |
| `StoresProofs`: backends | `PromiseKept`, `NothingIsLeft` | each step is one `Publication` allows; no temporary file is left, and a placeholder only by a crash | `~Bypass` |
| | `AbsenceReal` | a confirmed absence was one | `"parent" \notin Lies` |
| `StoresProofs`: versions | `IndexHonoured`, `HistoryIsReached` | an indexed version has its payloads; the contents it lists can be rebuilt, with the exceptions of `HistoryReaches` | nothing |
| `DocumentsProofs`: archive | `MigrationAlwaysResumes` | a migration that died anywhere can be taken up again | nothing |
| `DocumentsProofs`: settings, jobs | `SettingsAreKept`, `NoUpdateIsLost` | a save or a change of the roots replaces the revision its editor had loaded | nothing |
| `DocumentsProofs`: run history | `RunsStayListed` | a run with a trace is shown until it is dropped, with the exceptions of `NoRunVanishes` | nothing |
| `AutoScanProofs` | `ComparedAfterWritesAlways`, `UnattendedCurrent` | no Apply writes on a compare begun before the last writes; an unattended one is of the latest ticket | nothing |
| | `NoOrphans`, `WorkersAreTold`, `TicketsAreAwaited`, `NoneAcrossASave` | an open verification has somebody to end it; a waiting worker can still be told; a pending ticket has its worker; no Apply on an authorization older than the last save | nothing |
| `OperationsProofs` | `MutationAlone`, `ClosingSettled`, `LaunchOwned`, `StopsHit`, `PowerActionCurrent` | see the runs | nothing |
| | `RunsAreWatched` | no interactive Apply writes without its window | `Prompt`, `~AutoClose` |
| `SyncCycleProofs` | `ArchiveIsAgreed`, `NeverSilent` | what the archive names, both roots have held; a run takes away only agreed content | `AllCareful` |
| | `SecondRunIdles` | after an undisturbed two-way or mirror run without conflicts the next has nothing to do | `AllCareful`, `Restful` jobs |
| | `LosersAreKept` | a conflict's loser is in its copy before the winner lands | `AllCareful`, `AllUndisturbed` |
| `PeerPackageProofs` | `AppliedAgrees`, `BeforeWriteHolds`, `CleanHolds`, `ArchiveHolds`, `NoLateHolds` | see the runs | nothing |

`TypeCorrect` (and a name like it where a proof module has several components) is the
types. Only `RunHistory` has none: its prune filters the index with `SelectSeq`, which is
recursive, and TLC looked at `HistoryTypeOK` once, on the instance of `stores`.

**The root lock.** `NoTakeover` is not inductive by itself. The invariant adds that the
claim about to be published has only settled generations below it (`CandidateSettled`),
that an anchor about to be published makes no old claim current (`NewLedgerUnused`), and
that only its owner releases a claim (`OwnersDiffer`, `NotReleased`). Exclusion and
readability need, besides, that the ledger on disk is the one the processes work in,
which holds while nobody deletes it under them.

**File transactions.** The invariant says where the hold name is in use (`HoldKnown`), that
what is published across volumes is what the hold still has (`CopyFaithful`), that a hold
is dropped only when its content is elsewhere (`DropSafe`), and that a file leaves its path
for the trash only when the trash has it (`TrashFaithful`). With `InPlace` the claim is
false, as the table above says. `LossStops` counts the changes since the loss and knows
which locations a run can be at with each count.

**The scan.** A digest of a cache is true only relative to a volume, a size and an mtime, so
the invariant speaks of all of them: `Tells` says that the file of the volume, and every
content an Apply may publish, that has the size and the mtime has the bytes. `TablesTell`
says it of the rows of the cache, on the volume they are bound to, and `FoundTells` of what
the scan has found. `FixesSound` says that a correction is of an mtime the file system
cannot hold; `StandsAsMet`, that a file which still looks as the walk met it is the one it
met, and its handle reads its bytes. `PassedWasAway` says of the names the listings have
passed what `AbsentWasAbsent` says in the end.

**The apply run.** `RootsInv` says where the workers may be: two at once only in the class
that copies (`Alone`), each with an operation of the class and at a step its action has
(`TasksFit`), and clearing a directory only after all its leaves were judged
(`JudgedFirst`). `AccountsInv` follows the tickets: each drawn ticket is in one hand or
tried (`OneEach`, `InTurn`), a worker leaves none behind unless the run must stop
(`NobodyLeavesEarly`), and what is recorded adds up (`Accounted`, `ByPhase`,
`SummaryAdds`). That tickets 1 to n reach each operation of a class once is a lemma about
`Turn`: it is injective, as any two operations of a class are ordered, and an injection
between finite sets of one size is onto.

**The pause gate.** The reports emitted or about to be emitted differ by the flag
(`Alternation`), a flag that is up has a worker at the gate who will take it down
(`FlagIsWatched`), and a worker held in a pause has not got past the waiting loop
(`HeldIsInside`).

**The watcher.** No position in the pipe is ahead of its root (`PipeIs`), by what a batch of
events does to a cursor (`MovedByIs`). A compare that starts after its ticket was taken
therefore reads all that the ticket's cursor stands for (`TicketIsInHand`), and only the
cursor of a published ticket is saved. For `NothingIsForgotten` the latest change of a root
is followed through the five places it can be in (`OnItsWay`); a failed ticket has
something to give back, so the trigger is latched again (`TriggerRequeues`). The model
says where a batch leaves the cursor by the last event that has an id, and not by
one event after the other as the code does, so that it can be reasoned about without
recursion; TLC compared the two over all batches of three events.

**Backends.** The refinement maps a placeholder, and the interval in which a name is
cleared, to what the abstract name shows. The invariant relates each writer's place to its
temporary file and its verdict (`Stage`) and says that one writer at most holds the claim
(`OneClaim`). Every step is then a step of `Publication` or stutters.

**Version history.** An index is honoured because a manifest lists only what is in its
directory and a prune first forgets a version and then removes it (`HistoryIsWhole`).
That every listed content can be rebuilt is not inductive by itself: `OwedCanBeBuilt` says
it of every version written so far and not only of the indexed ones, from what is at hand
and the versions that are not older. A step that takes a content from the root puts it into
the newest version, the session of a restore or the attic; a prune takes away only versions
older than all it keeps (`WriterIsFresh`). Older is by time, so as long as the clocks give
the versions in the order they were made in (`TimesAreOrdered`, until one is `skewed`). `Reachable` is the least set of contents closed
under unpacking, written as an intersection of the closed sets.

**Documents.** A loader that migrates knows the digest of the file and has the copy and the
receipt its stage needs (`MigrationIsSound`). A writer that has looked a second time holds
what is on disk as long as nobody edits by hand (`SecondLookHolds`, and the same for the
settings). A run from its placeholder on has a directory with a summary the place
that is read: before a move that is the one place there is; after a move began, each entry
is at one of the two until the move has taken it over (`TraceInv`, with `Followed` for a
move that is `Ongoing`). And no line of the earlier schema is there to make the reading
fail, once the marker stands (`SchemaInv`).

**AutoScan.** One task holds the slot (`SlotHeld`), fresh evidence began after the writes
of its revision (`FreshIsCurrent`), a result carries the epoch it began with (`Bound`), a
permit belongs to the live ticket (`PermitsBelong`), and a task that made evidence dirty
has made stale what it wrote on (`DirtiedIsStale`). `Watchful` is a second invariant, about
who is left waiting: what may still start an Apply was issued after the last save (`Gated`,
`SavesKept`), and every open verification is its ticket's, its worker's or a compare's
(`Attended`). `Awaited` is a third: the words under way to a worker are of tickets it has
had (`Ordered`), so none of them ends the one it is about to publish. No run checks
`NoOrphans`, `WorkersAreTold` and `NoneAcrossASave` again: TLC did, with the invariant, before the
proof.

**Operations.** The lease, the run and the task agree (`RunsAgree`), the active run and the
grant are the last ones (`ActiveIsLast`, `GrantIsLast`), and the opener serves the launch
it reserved (`OpenerServes`). That no Apply is headless needs what window, events and
launch know of one another on the way from reservation to start (`Closes`, `Buttons`,
`Readies`, `ArmIsLast`).

**Peer runs.** The invariant gives each end its stage (`Phases`), says what this side
reports before the first write (`BeforeWrites`), that every entry of a parcel, and what the
far side has staged of it, matches what the comparison wanted (`Honest`), that a far side
which is done published all of it (`Complete`), and that the far side of an earlier run
that can still publish lost its answer (`Fresh`).

**The cycle.** Two-way jobs are `AllCareful` when nobody edits the source of a run, every
directory can be listed, the rows run as planned and symlinks take no part; without any one
of these TLC refutes `NoSilentOverwrite` or `ArchiveIsAgreement` (`cycle_saved`, and "What
the models found"). One-way jobs are not restrained. The invariant `Agreement` says that
each path the archive may take is `Settled`, its content having been on the target, or
`Covered` by an operation that will settle it; that each pending operation is `Sound`,
taking away only agreed content; and that the generations are agreed content too
(`HistoryAgrees`), without which a plan that follows a generation would not be sound. The
lanes are shown to give such a plan whatever pairs of moves they choose and whoever wins a
conflict. For the idle successor, `Rests` adds that the operations of an undisturbed run
touch disjoint paths (`Sole`) and that each leaves its paths equal on both sides
(`Healing`). That covers command-line mirrors too, with their symlinks and unread
directories: `MirrorPlans` gives the exact plan of an undisturbed mirror run, and
`ValidIsPure` shows that where one side has a file and the other a link the plan has two
rows for the path, so `validate_operation_paths` refuses it and no run goes through
(`Inside` keeps such a job within its own paths). `Restful` leaves out enrich jobs of the
command line, which draw the newer file anew in each run, and nothing else. For the loser,
`Losers` adds that a copy of a run is not there before the run (`CopiesToCome`), that only a
loser's move reaches one (`Recent`), and that the move is pending as long as the copy is
missing (`KeptFirst`). `AllUndisturbed` forbids edits and failures while such a run is under
way; with a failure the property is false, as the table says.

### What is not proved, and why

Liveness is out of the prover's reach: `ContestHasWinner`, `CancelGetsThrough` and
`ChangesAreVerified` stay with TLC, under the fairness above. So does what a recursive
definition computes for every input, of which no property speaks. Every safety property
that a passing run checks is the statement of a theorem; some theorems are restricted by
the constants in the last column of the table, where the run that fails without the
restriction, or the table of refuted properties, shows why.

## What is left out

Directories, modes and times in the cycle; the delta lane of an update and the escalation
of sampled digests; the tiers below full hashes in the planner (`PeerPackage` and
`ScanCache` have them); codecs, filters and name rules; the front end apart from the
progress window and the Apply button; the compare evidence repository of the desktop. The
three-way composition of two roots with two leases under one apply is not explored as a
product: each part is checked with the others as guards.
