---------------------------- MODULE ArchiveFile ----------------------------
(***************************************************************************)
(* The file that records what the two roots last agreed on                 *)
(* (application/run/archive). Compares load it, refreshes load it and      *)
(* replace it, both under one advisory lock; whoever meets a file of       *)
(* schema 1 migrates it first: the file is hashed, read, copied aside,     *)
(* described by a receipt, hashed again and only then replaced. A process  *)
(* may die, and a call fail, at every step; a release that still writes    *)
(* schema 1 shares neither the lock nor the staging.                       *)
(***************************************************************************)
EXTENDS Naturals

CONSTANTS
  Loader,      \* compares and refreshes, of any process
  Agreement,   \* contents an archive can have: what was agreed on, and its digests
  NoArchive, NoLoader,
  MaxLoads, MaxOld, MaxBreaks  \* bounds: loads begun; writes by an old release; failures and deaths

ASSUME ArchiveAssumption ==
  /\ NoArchive \notin Agreement /\ NoLoader \notin Loader
  /\ MaxLoads \in Nat /\ MaxOld \in Nat /\ MaxBreaks \in Nat

VARIABLES
  main,      \* the archive: its schema, the agreement, and the one before it
  backup,    \* the immutable copy of the file a migration replaces
  receipt,   \* what a prepared migration replaces, and by what
  latch,     \* who has the lock file locked
  stage,     \* where each loader is
  fresh,     \* the scan a refresh is about to publish; NoArchive for a compare
  hashed,    \* the digest of the file a loader is migrating
  parsed,    \* what it read of it, and later the archive it loaded
  loads, olds, breaks

archiveFileVars == <<main, backup, receipt, latch, stage, fresh, hashed, parsed,
                     loads, olds, breaks>>
archiveCounts == <<loads, olds, breaks>>

MaybeArchive == Agreement \cup {NoArchive}
AbsentArchive == [v |-> 0, now |-> NoArchive, was |-> NoArchive]
Legacy(a) == [v |-> 1, now |-> a, was |-> NoArchive]
Migrated(a) == [v |-> 2, now |-> a, was |-> NoArchive]
ArchiveStates == [v : 0 .. 2, now : MaybeArchive, was : MaybeArchive]
NoReceipt == [source |-> NoArchive, target |-> AbsentArchive]
Receipts == [source : MaybeArchive, target : ArchiveStates]

ArchiveFileInit ==
  /\ main \in {AbsentArchive} \cup {Legacy(a) : a \in Agreement}
  /\ backup = NoArchive /\ receipt = NoReceipt
  /\ latch = NoLoader
  /\ stage = [l \in Loader |-> "idle"]
  /\ fresh = [l \in Loader |-> NoArchive]
  /\ hashed = [l \in Loader |-> NoArchive]
  /\ parsed = [l \in Loader |-> AbsentArchive]
  /\ loads = 0 /\ olds = 0 /\ breaks = 0

LoaderMoves(l, from, to) == stage[l] = from /\ stage' = [stage EXCEPT ![l] = to]
ArchiveBreak == breaks < MaxBreaks /\ breaks' = breaks + 1
archiveDisk == <<main, backup, receipt>>

-----------------------------------------------------------------------------
\* load_archive returns without the lock where there is no file; a refresh comes with
\* the scan of the source it will publish.
OpenArchive(l, a) ==
  /\ LoaderMoves(l, "idle", "lock")
  /\ loads < MaxLoads /\ loads' = loads + 1
  /\ a = NoArchive => main.v # 0
  /\ fresh' = [fresh EXCEPT ![l] = a]
  /\ UNCHANGED <<archiveDisk, latch, hashed, parsed, olds, breaks>>

Acquire(l) ==
  /\ LoaderMoves(l, "lock", "classify")
  /\ latch = NoLoader /\ latch' = l
  /\ UNCHANGED <<archiveDisk, fresh, hashed, parsed, archiveCounts>>

\* classify_archive: no file, a current one, which is loaded, or one to migrate.
Classify(l) ==
  /\ LoaderMoves(l, "classify", IF main.v = 1 THEN "hash" ELSE "loaded")
  /\ parsed' = [parsed EXCEPT ![l] = main]
  /\ UNCHANGED <<archiveDisk, latch, fresh, hashed, archiveCounts>>

\* The file is hashed by one open and read by another.
HashSource(l) ==
  /\ LoaderMoves(l, "hash", "read")
  /\ hashed' = [hashed EXCEPT ![l] = main.now]
  /\ UNCHANGED <<archiveDisk, latch, fresh, parsed, archiveCounts>>

\* migrate_v1_archive refuses a file of another schema.
ReadLegacy(l) ==
  /\ main.v = 1
  /\ LoaderMoves(l, "read", "backup")
  /\ parsed' = [parsed EXCEPT ![l] = Migrated(main.now)]
  /\ UNCHANGED <<archiveDisk, latch, fresh, hashed, archiveCounts>>

\* (Mutant: the copy is published but not compared with the digest.)
PublishBackupUnverified(l) ==
  /\ LoaderMoves(l, "backup", "receipt")
  /\ backup' = IF backup = NoArchive THEN main.now ELSE backup
  /\ UNCHANGED <<main, receipt, latch, fresh, hashed, parsed, archiveCounts>>

\* publish_immutable_copy: a copy that is there stays, and must be the right one.
PublishBackup(l) ==
  /\ backup' = IF backup = NoArchive THEN main.now ELSE backup
  /\ IF backup' = hashed[l] THEN LoaderMoves(l, "backup", "receipt") ELSE LoaderMoves(l, "backup", "leave")
  /\ UNCHANGED <<main, receipt, latch, fresh, hashed, parsed, archiveCounts>>

\* publish_receipt: the receipt of an earlier migration stays, and must say the same.
Prepared(l) == [source |-> hashed[l], target |-> parsed[l]]

PublishReceipt(l) ==
  /\ receipt' = IF receipt = NoReceipt THEN Prepared(l) ELSE receipt
  /\ IF receipt' = Prepared(l) THEN LoaderMoves(l, "receipt", "recheck") ELSE LoaderMoves(l, "receipt", "leave")
  /\ UNCHANGED <<main, backup, latch, fresh, hashed, parsed, archiveCounts>>

Recheck(l) ==
  /\ LoaderMoves(l, "recheck", IF main = Legacy(hashed[l]) THEN "commit" ELSE "leave")
  /\ UNCHANGED <<archiveDisk, latch, fresh, hashed, parsed, archiveCounts>>

\* The commit; when it reports a failure that it survived, the digest at the path
\* tells. load_current then reads what is there.
CommitMigration(l) ==
  /\ LoaderMoves(l, "commit", "loaded")
  /\ main' = parsed[l]
  /\ UNCHANGED <<backup, receipt, latch, fresh, hashed, parsed, archiveCounts>>

\* write_archive_to: the scan, with the generation it replaces rolled behind it.
RolledBehind(new, old) ==
  [v |-> 2, now |-> new, was |-> IF old.now = new THEN old.was ELSE old.now]

Republish(l) ==
  /\ fresh[l] # NoArchive
  /\ LoaderMoves(l, "loaded", "leave")
  /\ main' = RolledBehind(fresh[l], parsed[l])
  /\ UNCHANGED <<backup, receipt, latch, fresh, hashed, parsed, archiveCounts>>

ReturnLoaded(l) ==
  /\ fresh[l] = NoArchive
  /\ LoaderMoves(l, "loaded", "leave")
  /\ UNCHANGED <<archiveDisk, latch, fresh, hashed, parsed, archiveCounts>>

Unlatch(l) ==
  /\ stage' = [stage EXCEPT ![l] = "idle"]
  /\ latch' = IF latch = l THEN NoLoader ELSE latch
  /\ fresh' = [fresh EXCEPT ![l] = NoArchive]

CloseArchive(l) ==
  /\ stage[l] = "leave"
  /\ Unlatch(l)
  /\ UNCHANGED <<archiveDisk, hashed, parsed, archiveCounts>>

\* A call fails, a checkpoint stops a refresh, a file of the wrong schema is met, or the
\* process dies: the lock goes and nothing else does.
BreakOff(l) ==
  /\ stage[l] \notin {"idle", "leave"}
  /\ \/ ArchiveBreak
     \/ stage[l] = "read" /\ main.v # 1 /\ UNCHANGED breaks
  /\ Unlatch(l)
  /\ UNCHANGED <<archiveDisk, hashed, parsed, loads, olds>>

\* An old release replaces the file.
OldRelease(a) ==
  /\ olds < MaxOld /\ olds' = olds + 1
  /\ main' = Legacy(a)
  /\ UNCHANGED <<backup, receipt, latch, stage, fresh, hashed, parsed, loads, breaks>>

LoaderStep(l) ==
  \/ \E a \in MaybeArchive : OpenArchive(l, a)
  \/ Acquire(l) \/ Classify(l) \/ HashSource(l) \/ ReadLegacy(l) \/ PublishBackup(l)
  \/ PublishReceipt(l) \/ Recheck(l) \/ CommitMigration(l) \/ Republish(l)
  \/ ReturnLoaded(l) \/ CloseArchive(l) \/ BreakOff(l)

ArchiveFileNext ==
  \/ \E l \in Loader : LoaderStep(l)
  \/ \E a \in Agreement : OldRelease(a)

ArchiveFileSpec == ArchiveFileInit /\ [][ArchiveFileNext]_archiveFileVars

-----------------------------------------------------------------------------
(* Properties                                                              *)

\* The variables have their types, and who is past the lock has it.
ArchiveFileTypeOK ==
  /\ main \in ArchiveStates
  /\ backup \in MaybeArchive /\ receipt \in Receipts
  /\ latch \in Loader \cup {NoLoader}
  /\ stage \in [Loader -> {"idle", "lock", "classify", "hash", "read", "backup", "receipt",
                           "recheck", "commit", "loaded", "leave"}]
  /\ \A l \in Loader : stage[l] \notin {"idle", "lock"} <=> latch = l
  /\ fresh \in [Loader -> MaybeArchive]
  /\ hashed \in [Loader -> MaybeArchive]
  /\ parsed \in [Loader -> ArchiveStates]
  /\ loads \in 0 .. MaxLoads /\ olds \in 0 .. MaxOld /\ breaks \in 0 .. MaxBreaks

\* "A half-finished replacement has to be recognisable afterwards" (publish.rs:6): a
\* receipt names a copy that is there, and while no old release interferes every
\* migration that stopped can be taken up again, as the next one wants the same copy and
\* the same receipt.
MigrationResumes ==
  /\ receipt # NoReceipt => backup = receipt.source
  /\ olds = 0 /\ main.v = 1 =>
       /\ backup \in {NoArchive, main.now}
       /\ receipt \in {NoReceipt, [source |-> main.now, target |-> Migrated(main.now)]}

=============================================================================
