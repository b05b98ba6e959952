--------------------------- MODULE DocumentsProofs ---------------------------
(***************************************************************************)
(* What the program promises of the documents it keeps about itself, for   *)
(* any number of programs that have them open: the migration of an archive *)
(* can be taken up again (ArchiveFile), a save of the settings replaces    *)
(* what its program had loaded (SettingsFile), and so does a save of a job *)
(* (JobRegistry). Each of these has an inductive invariant that says what  *)
(* its last look at the file is worth between the look and the write.      *)
(* A run stays in the history (RunHistory) because its directory is at the *)
(* place that is read (TraceInv), and because nothing of the earlier       *)
(* schema, which would make the reading fail, is at a place that has the   *)
(* marker (SchemaInv).                                                     *)
(***************************************************************************)
EXTENDS ArchiveFile, SettingsFile, JobRegistry, RunHistory, TLAPS

(* The archive file                                                        *)

Migrating == {"hash", "read", "backup", "receipt", "recheck", "commit"}

\* Who migrates works on a file of schema 1, knows its digest from the read on, has the
\* migrated archive from the copy on, and the copy it wants from the receipt on. While
\* no old release interferes the digest and the migrated archive stay those of the file.
MigrationIsSound ==
  /\ main.v = 1 => main.now \in Agreement
  /\ \A l \in Loader :
       /\ stage[l] \in Migrating => main.v = 1
       /\ stage[l] \in Migrating \ {"hash"} =>
            hashed[l] \in Agreement /\ (olds = 0 => hashed[l] = main.now)
       /\ stage[l] \in {"backup", "receipt", "recheck", "commit"} =>
            parsed[l].v = 2 /\ (olds = 0 => parsed[l] = Migrated(main.now))
       /\ stage[l] = "receipt" => backup = hashed[l]

\* A receipt is of a file that was there.
ReceiptIsOfFile == receipt # NoReceipt => receipt.source \in Agreement

ArchiveInv == ArchiveFileTypeOK /\ MigrationIsSound /\ MigrationResumes /\ ReceiptIsOfFile

LEMMA ArchiveInitially == ArchiveFileInit => ArchiveInv
<1> SUFFICES ASSUME ArchiveFileInit PROVE ArchiveInv OBVIOUS
<1>1. main \in ArchiveStates
  BY DEF ArchiveFileInit, ArchiveStates, AbsentArchive, Legacy, MaybeArchive
<1>2. main.v = 1 => main.now \in Agreement
  BY DEF ArchiveFileInit, AbsentArchive, Legacy
<1>3. ArchiveFileTypeOK
  BY <1>1, ArchiveAssumption
  DEF ArchiveFileInit, ArchiveFileTypeOK, ArchiveAssumption, MaybeArchive, ArchiveStates, AbsentArchive,
      Receipts, NoReceipt
<1>4. MigrationIsSound BY <1>2 DEF ArchiveFileInit, MigrationIsSound, Migrating
<1>5. MigrationResumes /\ ReceiptIsOfFile BY DEF ArchiveFileInit, MigrationResumes, ReceiptIsOfFile
<1> QED BY <1>3, <1>4, <1>5 DEF ArchiveInv

LEMMA ArchiveTypesStay ==
  ASSUME ArchiveFileTypeOK, MigrationIsSound, [ArchiveFileNext]_archiveFileVars
  PROVE  ArchiveFileTypeOK'
<1> USE ArchiveAssumption DEF ArchiveAssumption
<1>u. CASE UNCHANGED archiveFileVars
  BY <1>u DEF archiveFileVars, ArchiveFileTypeOK
<1>o. ASSUME NEW a \in Agreement, OldRelease(a) PROVE ArchiveFileTypeOK'
  <2>1. main' \in ArchiveStates BY <1>o DEF OldRelease, Legacy, ArchiveStates, MaybeArchive
  <2> QED BY <2>1, <1>o DEF OldRelease, ArchiveFileTypeOK
<1>l. ASSUME NEW l \in Loader, LoaderStep(l) PROVE ArchiveFileTypeOK'
  <2>1. ASSUME NEW a \in MaybeArchive, OpenArchive(l, a) PROVE ArchiveFileTypeOK'
    BY <2>1 DEF OpenArchive, LoaderMoves, archiveDisk, ArchiveFileTypeOK
  <2>2. ASSUME Acquire(l) PROVE ArchiveFileTypeOK'
    BY <2>2 DEF Acquire, LoaderMoves, archiveDisk, archiveCounts, ArchiveFileTypeOK
  <2>3. ASSUME Classify(l) PROVE ArchiveFileTypeOK'
    BY <2>3 DEF Classify, LoaderMoves, archiveDisk, archiveCounts, ArchiveFileTypeOK
  <2>4. ASSUME HashSource(l) PROVE ArchiveFileTypeOK'
    <3>1. main.now \in MaybeArchive BY DEF ArchiveFileTypeOK, ArchiveStates
    <3> QED BY <2>4, <3>1 DEF HashSource, LoaderMoves, archiveDisk, archiveCounts, ArchiveFileTypeOK
  <2>5. ASSUME ReadLegacy(l) PROVE ArchiveFileTypeOK'
    <3>1. main.now \in MaybeArchive BY DEF ArchiveFileTypeOK, ArchiveStates
    <3>2. Migrated(main.now) \in ArchiveStates
      BY <3>1 DEF Migrated, ArchiveStates, MaybeArchive
    <3> QED BY <2>5, <3>2 DEF ReadLegacy, LoaderMoves, archiveDisk, archiveCounts, ArchiveFileTypeOK
  <2>6. ASSUME PublishBackup(l) PROVE ArchiveFileTypeOK'
    <3>1. backup' \in MaybeArchive
      BY <2>6 DEF PublishBackup, ArchiveFileTypeOK, ArchiveStates
    <3> QED BY <2>6, <3>1 DEF PublishBackup, LoaderMoves, archiveCounts, ArchiveFileTypeOK
  <2>7. ASSUME PublishReceipt(l) PROVE ArchiveFileTypeOK'
    <3>1. Prepared(l) \in Receipts BY DEF Prepared, Receipts, ArchiveFileTypeOK
    <3>2. receipt' \in Receipts BY <2>7, <3>1 DEF PublishReceipt, ArchiveFileTypeOK
    <3> QED BY <2>7, <3>2 DEF PublishReceipt, LoaderMoves, archiveCounts, ArchiveFileTypeOK
  <2>8. ASSUME Recheck(l) PROVE ArchiveFileTypeOK'
    BY <2>8 DEF Recheck, LoaderMoves, archiveDisk, archiveCounts, ArchiveFileTypeOK
  <2>9. ASSUME CommitMigration(l) PROVE ArchiveFileTypeOK'
    BY <2>9 DEF CommitMigration, LoaderMoves, archiveCounts, ArchiveFileTypeOK
  <2>10. ASSUME Republish(l) PROVE ArchiveFileTypeOK'
    <3>1. /\ parsed[l].now \in MaybeArchive /\ parsed[l].was \in MaybeArchive
          /\ fresh[l] \in MaybeArchive
      BY DEF ArchiveFileTypeOK, ArchiveStates
    <3>2. RolledBehind(fresh[l], parsed[l]) \in ArchiveStates
      BY <3>1 DEF RolledBehind, ArchiveStates
    <3> QED BY <2>10, <3>2 DEF Republish, LoaderMoves, archiveCounts, ArchiveFileTypeOK
  <2>11. ASSUME ReturnLoaded(l) PROVE ArchiveFileTypeOK'
    BY <2>11 DEF ReturnLoaded, LoaderMoves, archiveDisk, archiveCounts, ArchiveFileTypeOK
  <2>12. ASSUME CloseArchive(l) PROVE ArchiveFileTypeOK'
    BY <2>12 DEF CloseArchive, Unlatch, archiveDisk, archiveCounts, ArchiveFileTypeOK, MaybeArchive
  <2>13. ASSUME BreakOff(l) PROVE ArchiveFileTypeOK'
    BY <2>13 DEF BreakOff, Unlatch, ArchiveBreak, archiveDisk, ArchiveFileTypeOK, MaybeArchive
  <2> QED BY <1>l, <2>1, <2>2, <2>3, <2>4, <2>5, <2>6, <2>7, <2>8, <2>9, <2>10, <2>11, <2>12,
             <2>13 DEF LoaderStep
<1> QED BY <1>u, <1>o, <1>l DEF ArchiveFileNext

\* The file a migration works on is replaced by nobody but an old release.
LEMMA MigrationStaysSound ==
  ASSUME ArchiveFileTypeOK, MigrationIsSound, [ArchiveFileNext]_archiveFileVars
  PROVE  MigrationIsSound'
<1> USE ArchiveAssumption DEF ArchiveAssumption
<1>u. CASE UNCHANGED archiveFileVars
  BY <1>u DEF archiveFileVars, MigrationIsSound
<1>o. ASSUME NEW a \in Agreement, OldRelease(a) PROVE MigrationIsSound'
  <2>1. main'.v = 1 /\ main'.now = a /\ olds' # 0
    BY <1>o DEF OldRelease, Legacy, ArchiveFileTypeOK
  <2> QED BY <2>1, <1>o DEF OldRelease, MigrationIsSound
<1>l. ASSUME NEW l \in Loader, LoaderStep(l) PROVE MigrationIsSound'
  <2>x. ASSUME NEW k \in Loader, k # l, stage[l] \notin {"idle", "lock"}
        PROVE  stage[k] \notin Migrating
    BY <2>x DEF ArchiveFileTypeOK, Migrating
  <2>m. ASSUME UNCHANGED <<main, backup, hashed, parsed, olds>>,
               \A k \in Loader : stage'[k] \in Migrating => stage'[k] = stage[k]
        PROVE  MigrationIsSound'
    BY <2>m DEF MigrationIsSound, Migrating
  <2>1. ASSUME NEW a \in MaybeArchive, OpenArchive(l, a) PROVE MigrationIsSound'
    BY <2>1, <2>m DEF OpenArchive, LoaderMoves, archiveDisk, ArchiveFileTypeOK, Migrating
  <2>2. ASSUME Acquire(l) PROVE MigrationIsSound'
    BY <2>2, <2>m DEF Acquire, LoaderMoves, archiveDisk, archiveCounts, ArchiveFileTypeOK, Migrating
  <2>3. ASSUME Classify(l) PROVE MigrationIsSound'
    BY <2>3 DEF Classify, LoaderMoves, archiveDisk, archiveCounts, ArchiveFileTypeOK,
                MigrationIsSound, Migrating
  <2>4. ASSUME HashSource(l) PROVE MigrationIsSound'
    BY <2>4 DEF HashSource, LoaderMoves, archiveDisk, archiveCounts, ArchiveFileTypeOK,
                MigrationIsSound, Migrating
  <2>5. ASSUME ReadLegacy(l) PROVE MigrationIsSound'
    BY <2>5 DEF ReadLegacy, Migrated, LoaderMoves, archiveDisk, archiveCounts, ArchiveFileTypeOK,
                MigrationIsSound, Migrating
  <2>6. ASSUME PublishBackup(l) PROVE MigrationIsSound'
    <3>1. stage[l] = "backup" BY <2>6 DEF PublishBackup, LoaderMoves
    <3>2. \A k \in Loader \ {l} : stage'[k] = stage[k] /\ stage'[k] \notin Migrating
      BY <2>6, <2>x, <3>1 DEF PublishBackup, LoaderMoves, ArchiveFileTypeOK
    <3>3. stage'[l] = "leave" \/ (stage'[l] = "receipt" /\ backup' = hashed[l])
      BY <2>6 DEF PublishBackup, LoaderMoves, ArchiveFileTypeOK
    <3>4. UNCHANGED <<main, hashed, parsed, olds>> BY <2>6 DEF PublishBackup, archiveCounts
    <3>5. \A k \in Loader : k # l => stage'[k] \notin Migrating BY <3>2
    <3> QED BY <3>1, <3>3, <3>4, <3>5 DEF MigrationIsSound, Migrating
  <2>7. ASSUME PublishReceipt(l) PROVE MigrationIsSound'
    BY <2>7 DEF PublishReceipt, LoaderMoves, archiveCounts, ArchiveFileTypeOK,
                MigrationIsSound, Migrating
  <2>8. ASSUME Recheck(l) PROVE MigrationIsSound'
    BY <2>8 DEF Recheck, LoaderMoves, archiveDisk, archiveCounts, ArchiveFileTypeOK,
                MigrationIsSound, Migrating
  <2>r. ASSUME stage[l] \in {"commit", "loaded"}, main'.v # 1, LoaderMoves(l, stage[l], stage'[l]),
               stage'[l] \in {"loaded", "leave"}
        PROVE  MigrationIsSound'
    <3>1. \A k \in Loader : stage'[k] \notin Migrating
      BY <2>r, <2>x DEF LoaderMoves, ArchiveFileTypeOK, Migrating
    <3> QED BY <3>1, <2>r DEF MigrationIsSound, Migrating
  <2>9. ASSUME CommitMigration(l) PROVE MigrationIsSound'
    <3>1. main'.v # 1 /\ stage[l] = "commit"
      BY <2>9 DEF CommitMigration, LoaderMoves, MigrationIsSound
    <3>2. stage'[l] = "loaded" BY <2>9 DEF CommitMigration, LoaderMoves, ArchiveFileTypeOK
    <3> QED BY <2>9, <2>r, <3>1, <3>2 DEF CommitMigration
  <2>10. ASSUME Republish(l) PROVE MigrationIsSound'
    <3>1. main'.v # 1 /\ stage[l] = "loaded" BY <2>10 DEF Republish, LoaderMoves, RolledBehind
    <3>2. stage'[l] = "leave" BY <2>10 DEF Republish, LoaderMoves, ArchiveFileTypeOK
    <3> QED BY <2>10, <2>r, <3>1, <3>2 DEF Republish
  <2>11. ASSUME ReturnLoaded(l) PROVE MigrationIsSound'
    BY <2>11, <2>m DEF ReturnLoaded, LoaderMoves, archiveDisk, archiveCounts, ArchiveFileTypeOK,
                       Migrating
  <2>12. ASSUME CloseArchive(l) PROVE MigrationIsSound'
    BY <2>12, <2>m DEF CloseArchive, Unlatch, archiveDisk, archiveCounts, ArchiveFileTypeOK, Migrating
  <2>13. ASSUME BreakOff(l) PROVE MigrationIsSound'
    BY <2>13, <2>m DEF BreakOff, Unlatch, archiveDisk, ArchiveFileTypeOK, Migrating
  <2> QED BY <1>l, <2>1, <2>2, <2>3, <2>4, <2>5, <2>6, <2>7, <2>8, <2>9, <2>10, <2>11, <2>12,
             <2>13 DEF LoaderStep
<1> QED BY <1>u, <1>o, <1>l DEF ArchiveFileNext

\* The copy and its receipt are written once, of the file the migration found.
LEMMA ResumptionStays ==
  ASSUME ArchiveInv, [ArchiveFileNext]_archiveFileVars
  PROVE  MigrationResumes' /\ ReceiptIsOfFile'
<1> USE ArchiveAssumption DEF ArchiveAssumption, ArchiveInv
<1>s. ASSUME UNCHANGED <<main, backup, receipt, olds>> PROVE MigrationResumes' /\ ReceiptIsOfFile'
  BY <1>s DEF MigrationResumes, ReceiptIsOfFile
<1>u. CASE UNCHANGED archiveFileVars BY <1>u, <1>s DEF archiveFileVars
<1>o. ASSUME NEW a \in Agreement, OldRelease(a) PROVE MigrationResumes' /\ ReceiptIsOfFile'
  BY <1>o DEF OldRelease, ArchiveFileTypeOK, MigrationResumes, ReceiptIsOfFile
<1>l. ASSUME NEW l \in Loader, LoaderStep(l) PROVE MigrationResumes' /\ ReceiptIsOfFile'
  <2>1. ASSUME PublishBackup(l) PROVE MigrationResumes' /\ ReceiptIsOfFile'
    BY <2>1 DEF PublishBackup, LoaderMoves, archiveCounts, MigrationResumes, ReceiptIsOfFile
  <2>2. ASSUME PublishReceipt(l) PROVE MigrationResumes' /\ ReceiptIsOfFile'
    <3>1. backup = hashed[l] /\ main.v = 1 /\ (olds = 0 => hashed[l] = main.now)
      BY <2>2 DEF PublishReceipt, LoaderMoves, MigrationIsSound, Migrating
    <3>2. receipt' = receipt \/ (receipt = NoReceipt /\ receipt' = Prepared(l))
      BY <2>2 DEF PublishReceipt
    <3>3. UNCHANGED <<main, backup, olds>> BY <2>2 DEF PublishReceipt, archiveCounts
    <3>4. /\ Prepared(l).source = hashed[l]
          /\ hashed[l] \in Agreement
          /\ olds = 0 => Prepared(l) = [source |-> main.now, target |-> Migrated(main.now)]
      BY <2>2, <3>1 DEF PublishReceipt, LoaderMoves, Prepared, MigrationIsSound, Migrating
    <3>5. receipt' # NoReceipt => backup = receipt'.source
      BY <3>1, <3>2, <3>4 DEF MigrationResumes
    <3>6. olds = 0 /\ main.v = 1 =>
            receipt' \in {NoReceipt, [source |-> main.now, target |-> Migrated(main.now)]}
      BY <3>2, <3>4 DEF MigrationResumes
    <3>7. ReceiptIsOfFile' BY <3>2, <3>4 DEF ReceiptIsOfFile
    <3> QED BY <3>3, <3>5, <3>6, <3>7 DEF MigrationResumes
  <2>3. ASSUME CommitMigration(l) PROVE MigrationResumes' /\ ReceiptIsOfFile'
    BY <2>3 DEF CommitMigration, LoaderMoves, MigrationIsSound, MigrationResumes, ReceiptIsOfFile
  <2>4. ASSUME Republish(l) PROVE MigrationResumes' /\ ReceiptIsOfFile'
    BY <2>4 DEF Republish, RolledBehind, MigrationResumes, ReceiptIsOfFile
  <2>5. CASE \/ \E a \in MaybeArchive : OpenArchive(l, a)
             \/ Acquire(l) \/ Classify(l) \/ HashSource(l) \/ ReadLegacy(l) \/ Recheck(l)
             \/ ReturnLoaded(l) \/ CloseArchive(l) \/ BreakOff(l)
    <3>1. UNCHANGED <<main, backup, receipt, olds>>
      BY <2>5 DEF OpenArchive, Acquire, Classify, HashSource, ReadLegacy, Recheck, ReturnLoaded,
                  CloseArchive, BreakOff, archiveDisk, archiveCounts
    <3> QED BY <3>1, <1>s
  <2> QED BY <1>l, <2>1, <2>2, <2>3, <2>4, <2>5 DEF LoaderStep
<1> QED BY <1>u, <1>o, <1>l DEF ArchiveFileNext

\* The archive file and what surrounds it have their types, and its lock one owner.
THEOREM ArchiveTypeCorrect == ArchiveFileSpec => []ArchiveFileTypeOK
<1>1. ArchiveInv /\ [ArchiveFileNext]_archiveFileVars => ArchiveInv'
  BY ArchiveTypesStay, MigrationStaysSound, ResumptionStays DEF ArchiveInv
<1>2. ArchiveInv => ArchiveFileTypeOK BY DEF ArchiveInv
<1> QED BY ArchiveInitially, <1>1, <1>2, PTL DEF ArchiveFileSpec

\* However many compares and refreshes meet a file of schema 1, and wherever one of them
\* stops, the copy and the receipt it leaves are those the next one wants.
THEOREM MigrationAlwaysResumes == ArchiveFileSpec => []MigrationResumes
<1>1. ArchiveInv /\ [ArchiveFileNext]_archiveFileVars => ArchiveInv'
  BY ArchiveTypesStay, MigrationStaysSound, ResumptionStays DEF ArchiveInv
<1>2. ArchiveInv => MigrationResumes BY DEF ArchiveInv
<1> QED BY ArchiveInitially, <1>1, <1>2, PTL DEF ArchiveFileSpec

-----------------------------------------------------------------------------
(* The settings                                                            *)

\* What a program found in its second look is in the file until it writes, unless a hand
\* wrote since.
LookHolds ==
  \A p \in Program : at[p] \in {"keep", "write"} /\ ~patched => SameRevisionAs(toml, known[p])

SettingsInv == SettingsTypeOK /\ LookHolds

\* What settings a file counts as.
LEMMA EffectiveIsSettings ==
  ASSUME NEW f \in SettingsFiles
  PROVE  Effective(f) \in Settings
<1> Defaults \in Settings BY SettingsAssumption DEF SettingsAssumption, Defaults, Settings
<1> QED BY DEF SettingsFiles, NoSettings, Readable, Unreadable, Effective

\* A step of a program along its save, taken with the lock, to get it or without it.
LEMMA PlaceStays ==
  ASSUME SettingsTypeOK, NEW p \in Program,
         NEW to \in WithoutLock \cup WithLock,
         at' = [at EXCEPT ![p] = to],
         \/ flock' = p /\ flock \in {p, NoProgram} /\ to \in WithLock
         \/ flock' = (IF flock = p THEN NoProgram ELSE flock) /\ to \notin WithLock
  PROVE  /\ at' \in [Program -> WithoutLock \cup WithLock]
         /\ \A q \in Program : at'[q] \in WithLock <=> flock' = q
BY SettingsAssumption DEF SettingsTypeOK, SettingsAssumption

LEMMA SettingsInitially == SettingsInit => SettingsInv
<1> SUFFICES ASSUME SettingsInit PROVE SettingsInv OBVIOUS
<1>1. Defaults \in Settings BY SettingsAssumption DEF SettingsAssumption, Defaults, Settings
<1>2. toml \in SettingsFiles /\ NoSettings \in SettingsFiles
  BY DEF SettingsInit, SettingsFiles
<1>3. SettingsTypeOK
  BY <1>1, <1>2, SettingsAssumption
  DEF SettingsInit, SettingsTypeOK, SettingsAssumption, WithLock, WithoutLock
<1> QED BY <1>3 DEF SettingsInit, SettingsInv, LookHolds

LEMMA SettingsTypesStay ==
  ASSUME SettingsTypeOK, [SettingsNext]_settingsVars
  PROVE  SettingsTypeOK'
<1> USE SettingsAssumption DEF SettingsAssumption, WithLock, WithoutLock
<1>u. CASE UNCHANGED settingsVars BY <1>u DEF settingsVars, SettingsTypeOK
<1>h. ASSUME NEW f \in SettingsFiles, PatchByHand(f) PROVE SettingsTypeOK'
  BY <1>h DEF PatchByHand, SettingsTypeOK
<1>p. ASSUME NEW p \in Program, ProgramStep(p) PROVE SettingsTypeOK'
  <2>1. ASSUME LoadSettings(p) PROVE SettingsTypeOK'
    BY <2>1 DEF LoadSettings, SettingsTypeOK
  <2>2. ASSUME LockToSave(p) PROVE SettingsTypeOK'
    BY <2>2, PlaceStays DEF LockToSave, TakeSettingsLock, Steps, SettingsTypeOK
  <2>3. ASSUME CompareSettings(p) PROVE SettingsTypeOK'
    <3>1. flock = p BY <2>3 DEF CompareSettings, Steps, SettingsTypeOK
    <3>2. PICK to \in {"switch", "keep"} :
            /\ at' = [at EXCEPT ![p] = to]
            /\ flock' = IF to = "switch" THEN NoProgram ELSE p
      BY <2>3, <3>1 DEF CompareSettings, Steps
    <3>3. /\ at' \in [Program -> WithoutLock \cup WithLock]
          /\ \A q \in Program : at'[q] \in WithLock <=> flock' = q
      BY <3>1, <3>2, PlaceStays
    <3>4. update' \in [Program -> [wrote : SettingsFiles, over : SettingsFiles, changed : BOOLEAN]]
      <4>1. [wrote |-> toml, over |-> toml, changed |-> FALSE]
              \in [wrote : SettingsFiles, over : SettingsFiles, changed : BOOLEAN]
        BY DEF SettingsTypeOK
      <4>2. update' = update \/ update' = [update EXCEPT ![p] =
                                  [wrote |-> toml, over |-> toml, changed |-> FALSE]]
        BY <2>3 DEF CompareSettings
      <4> QED BY <4>1, <4>2 DEF SettingsTypeOK
    <3> QED BY <2>3, <3>3, <3>4 DEF CompareSettings, SettingsTypeOK
  <2>k. ASSUME KeepPrevious(p) PROVE SettingsTypeOK'
    <3>1. [update[p] EXCEPT !.over = toml] \in [wrote : SettingsFiles, over : SettingsFiles, changed : BOOLEAN]
      BY DEF SettingsTypeOK
    <3>2. update' = [update EXCEPT ![p] = [update[p] EXCEPT !.over = toml]] BY <2>k DEF KeepPrevious
    <3>3. update' \in [Program -> [wrote : SettingsFiles, over : SettingsFiles, changed : BOOLEAN]]
      BY <3>1, <3>2 DEF SettingsTypeOK
    <3> QED BY <2>k, <3>3, PlaceStays DEF KeepPrevious, Steps, SettingsTypeOK
  <2>4. ASSUME RefuseSettings(p) PROVE SettingsTypeOK'
    BY <2>4, PlaceStays DEF RefuseSettings, Steps, SettingsTypeOK
  <2>5. ASSUME WriteSettings(p) PROVE SettingsTypeOK'
    <3>1. Readable(next[p]) \in SettingsFiles BY DEF SettingsTypeOK, SettingsFiles
    <3> QED BY <2>5, <3>1, PlaceStays DEF WriteSettings, Steps, SettingsTypeOK
  <2>6. ASSUME RereadSettings(p) PROVE SettingsTypeOK'
    <3> DEFINE Updates == [wrote : SettingsFiles, over : SettingsFiles, changed : BOOLEAN]
                 new == [update[p] EXCEPT !.wrote = toml, !.changed = TRUE]
    <3>2. update' = [update EXCEPT ![p] = new] BY <2>6 DEF RereadSettings
    <3>3. update[p] \in Updates /\ toml \in SettingsFiles
      BY DEF SettingsTypeOK
    <3>4. new \in Updates BY <3>3
    <3> HIDE DEF new, Updates
    <3>5. update \in [Program -> Updates] BY DEF SettingsTypeOK, Updates
    <3>6. update' \in [Program -> Updates] BY <3>2, <3>4, <3>5
    <3> USE DEF Updates
    <3> QED BY <2>6, <3>6, PlaceStays DEF RereadSettings, Steps, SettingsTypeOK
  <2>7. ASSUME SwitchLog(p) PROVE SettingsTypeOK'
    BY <2>7, PlaceStays DEF SwitchLog, Steps, SettingsTypeOK, Settings
  <2>8. ASSUME SwitchFails(p) PROVE SettingsTypeOK'
    BY <2>8, PlaceStays DEF SwitchFails, Steps, SettingsTypeOK
  <2>9. ASSUME LockToUndo(p) PROVE SettingsTypeOK'
    BY <2>9, PlaceStays DEF LockToUndo, TakeSettingsLock, Steps, SettingsTypeOK
  <2>c. ASSUME CompareRollback(p) PROVE SettingsTypeOK'
    <3>1. known' \in [Program -> SettingsFiles] BY <2>c DEF CompareRollback, SettingsTypeOK
    <3>2. flock = p BY <2>c DEF CompareRollback, Steps, SettingsTypeOK
    <3>3. PICK to \in {"putback", "idle"} :
            /\ at' = [at EXCEPT ![p] = to]
            /\ flock' = IF to = "idle" THEN NoProgram ELSE p
      BY <2>c, <3>2 DEF CompareRollback, Steps
    <3>4. /\ at' \in [Program -> WithoutLock \cup WithLock]
          /\ \A q \in Program : at'[q] \in WithLock <=> flock' = q
      BY <3>2, <3>3, PlaceStays
    <3> QED BY <2>c, <3>1, <3>4 DEF CompareRollback, SettingsTypeOK
  <2>10. ASSUME RollbackSettings(p) PROVE SettingsTypeOK'
    <3>1. toml' \in SettingsFiles BY <2>10 DEF RollbackSettings, SettingsTypeOK
    <3> QED BY <2>10, <3>1, PlaceStays DEF RollbackSettings, Steps, SettingsTypeOK
  <2>11. ASSUME SettingsFail(p) PROVE SettingsTypeOK'
    BY <2>11, PlaceStays DEF SettingsFail, SettingsTypeOK
  <2>12. ASSUME ProgramRestarts(p) PROVE SettingsTypeOK'
    <3>1. Effective(toml).dir \in LogDir
      BY EffectiveIsSettings DEF SettingsTypeOK, Settings
    <3>2. grants' \in [Program -> SUBSET [dir : LogDir, rev : SettingsFiles]]
      BY <2>12 DEF ProgramRestarts, SettingsTypeOK
    <3> QED BY <2>12, <3>1, <3>2, PlaceStays DEF ProgramRestarts, SettingsTypeOK
  <2>13. ASSUME NEW d \in LogDir, SelectDirectory(p, d) PROVE SettingsTypeOK'
    <3>1. [dir |-> d, rev |-> known[p]] \in [dir : LogDir, rev : SettingsFiles]
      BY DEF SettingsTypeOK
    <3>2. grants' \in [Program -> SUBSET [dir : LogDir, rev : SettingsFiles]]
      BY <2>13, <3>1 DEF SelectDirectory, SettingsTypeOK
    <3> QED BY <2>13, <3>2 DEF SelectDirectory, SettingsTypeOK
  <2>14. ASSUME NEW g \in grants[p], GrantExpires(p, g) PROVE SettingsTypeOK'
    <3>1. grants' \in [Program -> SUBSET [dir : LogDir, rev : SettingsFiles]]
      BY <2>14 DEF GrantExpires, SettingsTypeOK
    <3> QED BY <2>14, <3>1 DEF GrantExpires, SettingsTypeOK
  <2>15. ASSUME NEW s \in Settings, BeginSettings(p, s) PROVE SettingsTypeOK'
    <3>1. grants' \in [Program -> SUBSET [dir : LogDir, rev : SettingsFiles]]
      BY <2>15 DEF BeginSettings, SettingsTypeOK
    <3>2. \E to \in {"swap", "idle"} : at[p] = "idle" /\ at' = [at EXCEPT ![p] = to]
      BY <2>15 DEF BeginSettings, Steps
    <3>3. flock # p BY <3>2 DEF SettingsTypeOK
    <3> QED BY <2>15, <3>1, <3>2, <3>3, PlaceStays DEF BeginSettings, SettingsTypeOK
  <2> QED BY <1>p, <2>1, <2>2, <2>3, <2>k, <2>4, <2>5, <2>6, <2>7, <2>8, <2>9, <2>c, <2>10, <2>11,
             <2>12, <2>13, <2>14, <2>15 DEF ProgramStep
<1> QED BY <1>u, <1>h, <1>p DEF SettingsNext

LEMMA LookStays ==
  ASSUME SettingsTypeOK, LookHolds, [SettingsNext]_settingsVars
  PROVE  LookHolds'
<1> USE SettingsAssumption DEF SettingsAssumption, WithLock, WithoutLock
<1>u. CASE UNCHANGED settingsVars BY <1>u DEF settingsVars, LookHolds, SameRevisionAs
<1>h. ASSUME NEW f \in SettingsFiles, PatchByHand(f) PROVE LookHolds'
  BY <1>h DEF PatchByHand, LookHolds
<1>p. ASSUME NEW p \in Program, ProgramStep(p) PROVE LookHolds'
  \* Nobody else is about to write while this program has the lock, or nobody has it.
  <2>x. ASSUME flock \in {p, NoProgram}, NEW q \in Program, q # p
        PROVE  at[q] \notin {"keep", "write"}
    BY <2>x DEF SettingsTypeOK
  <2>a. ASSUME flock \in {p, NoProgram}, \A q \in Program : q # p => at'[q] = at[q],
               at'[p] \notin {"keep", "write"}
        PROVE  LookHolds'
    <3>1. \A q \in Program : at'[q] \notin {"keep", "write"} BY <2>a, <2>x
    <3> QED BY <3>1 DEF LookHolds
  <2>b. ASSUME UNCHANGED <<toml, patched>>,
               \A q \in Program : at'[q] \in {"keep", "write"} =>
                 at[q] \in {"keep", "write"} /\ known'[q] = known[q]
        PROVE  LookHolds'
    BY <2>b DEF LookHolds, SameRevisionAs
  <2>1. ASSUME LoadSettings(p) PROVE LookHolds'
    BY <2>1, <2>b DEF LoadSettings, SettingsTypeOK
  <2>2. ASSUME LockToSave(p) PROVE LookHolds'
    BY <2>2, <2>a DEF LockToSave, TakeSettingsLock, Steps, SettingsTypeOK
  <2>3. ASSUME CompareSettings(p) PROVE LookHolds'
    <3>1. at[p] = "compare" /\ SameRevisionAs(toml, known[p]) /\ UNCHANGED <<toml, known>>
      BY <2>3 DEF CompareSettings, Steps
    <3>2. SameRevisionAs(toml, known[p])' BY <3>1 DEF SameRevisionAs
    <3>3. \A q \in Program : q # p => at'[q] = at[q]
      BY <2>3 DEF CompareSettings, Steps, SettingsTypeOK
    <3>4. \A q \in Program : q # p => at'[q] \notin {"keep", "write"}
      BY <3>1, <3>3, <2>x DEF SettingsTypeOK
    <3> QED BY <3>2, <3>4 DEF LookHolds
  <2>k. ASSUME KeepPrevious(p) PROVE LookHolds'
    BY <2>k, <2>b DEF KeepPrevious, Steps, SettingsTypeOK
  <2>4. ASSUME RefuseSettings(p) PROVE LookHolds'
    BY <2>4, <2>b DEF RefuseSettings, Steps, SettingsTypeOK
  <2>5. ASSUME WriteSettings(p) PROVE LookHolds'
    BY <2>5, <2>a DEF WriteSettings, Steps, SettingsTypeOK
  <2>6. ASSUME RereadSettings(p) PROVE LookHolds'
    BY <2>6, <2>b DEF RereadSettings, Steps, SettingsTypeOK
  <2>7. ASSUME SwitchLog(p) \/ SwitchFails(p) PROVE LookHolds'
    BY <2>7, <2>b DEF SwitchLog, SwitchFails, Steps, SettingsTypeOK
  <2>9. ASSUME LockToUndo(p) PROVE LookHolds'
    BY <2>9, <2>a DEF LockToUndo, TakeSettingsLock, Steps, SettingsTypeOK
  <2>c. ASSUME CompareRollback(p) PROVE LookHolds'
    BY <2>c, <2>b DEF CompareRollback, Steps, SettingsTypeOK
  <2>10. ASSUME RollbackSettings(p) PROVE LookHolds'
    BY <2>10, <2>a DEF RollbackSettings, Steps, SettingsTypeOK
  <2>11. ASSUME SettingsFail(p) \/ ProgramRestarts(p) PROVE LookHolds'
    BY <2>11, <2>b DEF SettingsFail, ProgramRestarts, SettingsTypeOK
  <2>13. CASE \/ \E d \in LogDir : SelectDirectory(p, d)
              \/ \E g \in grants[p] : GrantExpires(p, g)
    <3>1. UNCHANGED <<toml, patched, at, known>>
      BY <2>13 DEF SelectDirectory, GrantExpires, settingsCounts
    <3> QED BY <3>1, <2>b
  <2>15. ASSUME NEW s \in Settings, BeginSettings(p, s) PROVE LookHolds'
    BY <2>15, <2>b DEF BeginSettings, Steps, SettingsTypeOK
  <2> QED BY <1>p, <2>1, <2>2, <2>3, <2>k, <2>4, <2>5, <2>6, <2>7, <2>9, <2>c, <2>10, <2>11,
             <2>13, <2>15 DEF ProgramStep
<1> QED BY <1>u, <1>h, <1>p DEF SettingsNext

\* The settings and what surrounds them have their types, and their lock one owner.
THEOREM SettingsTypeCorrect == SettingsSpec => []SettingsTypeOK
<1>1. SettingsInv /\ [SettingsNext]_settingsVars => SettingsInv'
  BY SettingsTypesStay, LookStays DEF SettingsInv
<1>2. SettingsInv => SettingsTypeOK BY DEF SettingsInv
<1> QED BY SettingsInitially, <1>1, <1>2, PTL DEF SettingsSpec

\* No save overwrites settings its program has not seen, however many programs save and
\* take saves back, except those a hand wrote between the second look and the write.
THEOREM SettingsAreKept == SettingsSpec => SettingsAreNotLost
<1>1. SettingsInv /\ [SettingsNext]_settingsVars => SettingsInv'
  BY SettingsTypesStay, LookStays DEF SettingsInv
<1>2. SettingsInv /\ [SettingsNext]_settingsVars =>
        [\A p \in Program :
           at[p] = "write" /\ at'[p] = "reread" /\ ~patched => SameRevisionAs(toml, known[p])]_settingsVars
  BY DEF SettingsInv, LookHolds
<1> QED BY SettingsInitially, <1>1, <1>2, PTL DEF SettingsSpec, SettingsAreNotLost

-----------------------------------------------------------------------------
(* The jobs                                                                *)

\* A mutation but a save has one name, only a save that renames moves a file, and all but
\* a deletion come with a configuration.
TaskIsWhole ==
  \A e \in Editor :
    /\ task[e].kind # "save" => task[e].from = task[e].to
    /\ step[e] \in {"link", "unlink"} => task[e].kind = "save" /\ task[e].from # task[e].to
    /\ step[e] # "idle" /\ task[e].kind # "delete" => task[e].config \in Config
    /\ step[e] = "naming" => task[e].text \in JobFile

\* What an editor found in its second look is there until it publishes, under the old
\* name and then under the new one, unless a hand changed either.
SecondLookHolds ==
  \A e \in Editor :
    task[e].kind \in {"save", "roots"} /\ {task[e].from, task[e].to} \cap touched = {} =>
      /\ step[e] = "link" => files[task[e].from].config = task[e].rev
      /\ step[e] \in {"unlink", "commit"} => files[task[e].to].config = task[e].rev

RegistryInv == RegistryTypeOK /\ TaskIsWhole /\ SecondLookHolds

LEMMA SmallFacts ==
  /\ 0 \in Identity
  /\ Missing \in JobFiles
  /\ Idle \in Errand /\ Idle.kind = "none" /\ Idle.from = Idle.to
  /\ Unseen \in [JobName -> [id : Identity, rev : Config \cup {NoFile}]]
<1> USE RegistryAssumption DEF RegistryAssumption
<1>1. 0 \in Identity BY DEF Identity
<1>2. SomeName \in JobName BY DEF SomeName
<1> QED BY <1>1, <1>2 DEF Missing, JobFiles, Idle, Errand, Kinds, Unseen

LEMMA RegistryInitially == RegistryInit => RegistryInv
<1> SUFFICES ASSUME RegistryInit PROVE RegistryInv OBVIOUS
<1> USE RegistryAssumption DEF RegistryAssumption
<1>1. files \in [JobName -> JobFiles]
  <2>1. {Missing} \cup [id : {Unnamed}, config : Config, old : {TRUE}] \subseteq JobFiles
    BY SmallFacts DEF Unnamed, JobFiles, JobFile
  <2> QED BY <2>1 DEF RegistryInit
<1>2. RegistryTypeOK BY <1>1, SmallFacts DEF RegistryInit, RegistryTypeOK
<1>3. TaskIsWhole /\ SecondLookHolds
  BY SmallFacts DEF RegistryInit, TaskIsWhole, SecondLookHolds
<1> QED BY <1>2, <1>3 DEF RegistryInv

\* A load leaves the files as they are, and takes the lock where it has to name one.
LEMMA LoadKeeps ==
  ASSUME RegistryInv, NEW e \in Editor, NEW n \in JobName, LoadJob(e, n)
  PROVE  RegistryInv'
<1> USE RegistryAssumption DEF RegistryAssumption, RegistryInv
<1>1. \A k \in Editor : step[k] = "idle" BY DEF LoadJob, RegistryTypeOK
<1>2. files[n] \in JobFile
  BY DEF LoadJob, IsFile, RegistryTypeOK, JobFiles, Missing
<1>3. UNCHANGED <<files, drawn, touched, mutations, hands, mishaps>> BY DEF LoadJob, counters
<1>4. CASE files[n].id # Unnamed
  <2>1. [id |-> files[n].id, rev |-> files[n].config] \in [id : Identity, rev : Config \cup {NoFile}]
    BY <1>2 DEF JobFile
  <2>2. view' \in [Editor -> [JobName -> [id : Identity, rev : Config \cup {NoFile}]]]
    <3>1. [view[e] EXCEPT ![n] = [id |-> files[n].id, rev |-> files[n].config]]
            \in [JobName -> [id : Identity, rev : Config \cup {NoFile}]]
      BY <2>1 DEF RegistryTypeOK
    <3>2. view' = [view EXCEPT ![e] = [view[e] EXCEPT ![n] =
                     [id |-> files[n].id, rev |-> files[n].config]]]
      BY <1>4 DEF LoadJob
    <3> QED BY <3>1, <3>2 DEF RegistryTypeOK
  <2>3. UNCHANGED <<holder, task, step>> BY <1>4 DEF LoadJob
  <2> QED BY <1>1, <1>3, <2>2, <2>3 DEF RegistryTypeOK, TaskIsWhole, SecondLookHolds
<1>5. CASE files[n].id = Unnamed
  <2> DEFINE m == [Idle EXCEPT !.kind = "load", !.from = n, !.to = n, !.config = files[n].config]
  <2>1. m \in Errand /\ m.from = m.to /\ m.config \in Config
    BY <1>2, SmallFacts DEF Errand, Kinds, JobFile
  <2>2. /\ task' = [task EXCEPT ![e] = m] /\ step' = [step EXCEPT ![e] = "read"] /\ holder' = e
        /\ UNCHANGED view
    BY <1>5 DEF LoadJob
  <2> HIDE DEF m
  <2>3. RegistryTypeOK' BY <1>1, <1>3, <2>1, <2>2 DEF RegistryTypeOK
  <2>4. TaskIsWhole' BY <1>1, <2>1, <2>2 DEF RegistryTypeOK, TaskIsWhole
  <2>5. SecondLookHolds' BY <1>1, <2>2 DEF RegistryTypeOK, SecondLookHolds
  <2> QED BY <2>3, <2>4, <2>5
<1> QED BY <1>4, <1>5

\* A mutation that begins has the lock for itself.
LEMMA BeginKeeps ==
  ASSUME RegistryInv, NEW e \in Editor, NEW m \in Errand, Begin(e, m),
         m.kind # "save" => m.from = m.to, m.kind # "delete" => m.config \in Config
  PROVE  RegistryInv'
<1> USE RegistryAssumption DEF RegistryAssumption, RegistryInv
<1>1. \A k \in Editor : step[k] = "idle" BY DEF Begin, RegistryTypeOK
<1>2. RegistryTypeOK' BY <1>1 DEF Begin, RegistryTypeOK
<1>3. TaskIsWhole' BY <1>1 DEF Begin, RegistryTypeOK, TaskIsWhole
<1>4. SecondLookHolds' BY <1>1 DEF Begin, RegistryTypeOK, SecondLookHolds
<1> QED BY <1>2, <1>3, <1>4

\* Whoever leaves gives the lock back, and nobody else was in a mutation.
LEMMA LeaveKeeps ==
  ASSUME RegistryInv, NEW e \in Editor, step[e] # "idle", Leave(e),
         files' \in [JobName -> JobFiles],
         view' \in [Editor -> [JobName -> [id : Identity, rev : Config \cup {NoFile}]]],
         mishaps' \in 0 .. MaxMishaps, drawn' \in Identity,
         UNCHANGED <<touched, mutations, hands>>
  PROVE  RegistryInv'
<1> USE RegistryAssumption DEF RegistryAssumption, RegistryInv
<1>1. \A k \in Editor : step'[k] = "idle" BY DEF Leave, RegistryTypeOK
<1>2. holder' = Nobody BY DEF Leave
<1>3. task' \in [Editor -> Errand] BY SmallFacts DEF Leave, RegistryTypeOK
<1>4. step' \in [Editor -> {"idle", "read", "naming", "look", "identify", "publish", "link", "unlink",
                            "commit"}]
  BY DEF Leave, RegistryTypeOK
<1>5. RegistryTypeOK' BY <1>1, <1>2, <1>3, <1>4 DEF RegistryTypeOK
<1>6. TaskIsWhole' BY <1>1, SmallFacts DEF Leave, RegistryTypeOK, TaskIsWhole
<1>7. SecondLookHolds' BY <1>1 DEF SecondLookHolds
<1> QED BY <1>5, <1>6, <1>7

\* A mishap is one more of those allowed for.
LEMMA MishapCounts ==
  ASSUME RegistryTypeOK, Mishap
  PROVE  mishaps' \in 0 .. MaxMishaps
BY RegistryAssumption DEF RegistryTypeOK, Mishap, RegistryAssumption

\* The file a mutation writes is one.
LEMMA WrittenIsFile ==
  ASSUME RegistryInv, NEW e \in Editor, step[e] # "idle", task[e].kind # "delete"
  PROVE  Written(e) \in JobFiles
BY DEF RegistryInv, RegistryTypeOK, TaskIsWhole, Errand, Written, JobFiles, JobFile

LEMMA LooksKeep ==
  ASSUME RegistryInv, NEW e \in Editor, Look(e) \/ Identify(e) \/ LookAgain(e) \/ ReadText(e)
  PROVE  RegistryInv'
<1> USE RegistryAssumption DEF RegistryAssumption, RegistryInv
<1>0. step[e] # "idle" /\ \A k \in Editor : k # e => step[k] = "idle"
  BY DEF Look, Identify, LookAgain, ReadText, RegistryTypeOK
<1>1. CASE Look(e)
  <2>1. drawn' \in Identity /\ (task[e].kind = "create" => drawn + 1 \in Identity)
    BY <1>1 DEF Look, RegistryTypeOK, Identity
  <2>2. /\ task' \in [Editor -> Errand]
        /\ \A k \in Editor : k # e => task'[k] = task[k]
        /\ \A f \in {"kind", "from", "to", "config", "rev"} : task'[e][f] = task[e][f]
    <3>1. CASE task[e].kind = "create"
      <4>1. task' = [task EXCEPT ![e] = [task[e] EXCEPT !.id = drawn + 1]]
        BY <1>1, <3>1 DEF Look
      <4>2. [task[e] EXCEPT !.id = drawn + 1] \in Errand
        BY <2>1, <3>1 DEF RegistryTypeOK, Errand
      <4>3. \A f \in {"kind", "from", "to", "config", "rev"} :
              [task[e] EXCEPT !.id = drawn + 1][f] = task[e][f]
        BY DEF RegistryTypeOK, Errand
      <4> QED BY <4>1, <4>2, <4>3 DEF RegistryTypeOK
    <3>2. CASE task[e].kind # "create"
      BY <1>1, <3>2 DEF Look, RegistryTypeOK
    <3> QED BY <3>1, <3>2
  <2>3. PICK to \in {"identify", "publish"} : step' = [step EXCEPT ![e] = to] BY <1>1 DEF Look
  <2>4. UNCHANGED <<files, holder, view, touched, mutations, hands, mishaps>>
    BY <1>1 DEF Look, counters
  <2>5. RegistryTypeOK' BY <1>0, <2>1, <2>2, <2>3, <2>4 DEF RegistryTypeOK
  <2>6. TaskIsWhole'
    <3>1. /\ task'[e].kind = task[e].kind /\ task'[e].from = task[e].from
          /\ task'[e].to = task[e].to /\ task'[e].config = task[e].config
      BY <2>2
    <3> QED BY <1>0, <2>2, <2>3, <3>1 DEF RegistryTypeOK, TaskIsWhole
  <2>7. SecondLookHolds'
    BY <1>0, <2>2, <2>3 DEF RegistryTypeOK, SecondLookHolds
  <2> QED BY <2>5, <2>6, <2>7
<1>2. CASE LookAgain(e)
  <2>1. PICK to \in {"link", "commit"} :
          /\ step' = [step EXCEPT ![e] = to]
          /\ to = "link" <=> task[e].kind = "save" /\ task[e].from # task[e].to
    BY <1>2 DEF LookAgain
  <2>2. task[e].kind \in {"save", "roots"} => files[task[e].from].config = task[e].rev
    BY <1>2 DEF LookAgain, StillAccepted, SameRevision
  <2>3. UNCHANGED <<files, holder, view, task, drawn, mutations, hands, mishaps>>
        /\ touched' = {}
    BY <1>2 DEF LookAgain, counters
  <2>4. RegistryTypeOK' BY <1>0, <2>1, <2>3 DEF RegistryTypeOK
  <2>5. TaskIsWhole' BY <1>0, <2>1, <2>3 DEF RegistryTypeOK, TaskIsWhole
  <2>6. SecondLookHolds'
    <3>1. to = "commit" /\ task[e].kind \in {"save", "roots"} => task[e].from = task[e].to
      BY <2>1 DEF TaskIsWhole
    <3> QED BY <1>0, <2>1, <2>2, <2>3, <3>1 DEF RegistryTypeOK, SecondLookHolds
  <2> QED BY <2>4, <2>5, <2>6
<1>3. CASE Identify(e)
  <2>1. PICK to \in {"read", "commit", "publish"} :
          step' = [step EXCEPT ![e] = to] /\ (to = "commit" => task[e].kind = "delete")
    BY <1>3 DEF Identify
  <2>2. UNCHANGED <<files, holder, view, task, drawn, mutations, hands, mishaps>> /\ touched' = {}
    BY <1>3 DEF Identify, counters
  <2>3. RegistryTypeOK' BY <1>0, <2>1, <2>2 DEF RegistryTypeOK
  <2>4. TaskIsWhole' BY <1>0, <2>1, <2>2 DEF RegistryTypeOK, TaskIsWhole
  <2>5. SecondLookHolds' BY <1>0, <2>1, <2>2 DEF RegistryTypeOK, SecondLookHolds
  <2> QED BY <2>3, <2>4, <2>5
<1>4. CASE ReadText(e)
  <2> DEFINE t == files[task[e].from]
             m == [task[e] EXCEPT !.text = t]
  <2>0. task[e] \in Errand /\ task[e].from \in JobName BY DEF RegistryTypeOK, Errand
  <2>1. t \in JobFile
    BY <1>4, <2>0 DEF ReadText, IsFile, RegistryTypeOK, JobFiles, Missing
  <2>2. /\ m \in Errand /\ m.kind = task[e].kind /\ m.from = task[e].from /\ m.to = task[e].to
        /\ m.config = task[e].config /\ m.text \in JobFile
    BY <2>0, <2>1 DEF Errand, JobFiles
  <2>3. /\ task' = [task EXCEPT ![e] = m] /\ step' = [step EXCEPT ![e] = "naming"]
        /\ UNCHANGED <<files, holder, view, drawn, touched, mutations, hands, mishaps>>
    BY <1>4 DEF ReadText, counters
  <2> HIDE DEF m, t
  <2>4. RegistryTypeOK' BY <1>0, <2>2, <2>3 DEF RegistryTypeOK
  <2>5. TaskIsWhole' BY <1>0, <2>2, <2>3 DEF RegistryTypeOK, TaskIsWhole
  <2>6. SecondLookHolds' BY <1>0, <2>3 DEF RegistryTypeOK, SecondLookHolds
  <2> QED BY <2>4, <2>5, <2>6
<1> QED BY <1>1, <1>2, <1>3, <1>4

\* What is given an identity is a file, and whoever gave it leaves.
LEMMA NameKeeps ==
  ASSUME RegistryInv, NEW e \in Editor, NameFile(e)
  PROVE  RegistryInv'
<1> USE RegistryAssumption DEF RegistryAssumption, RegistryInv
<1>1. task[e] \in Errand /\ task[e].from \in JobName /\ task[e].text \in JobFile /\ step[e] = "naming"
  BY DEF NameFile, RegistryTypeOK, TaskIsWhole, Errand
<1>2. drawn + 1 \in Identity /\ drawn' = drawn + 1 BY DEF NameFile, RegistryTypeOK, Identity
<1>3. [task[e].text EXCEPT !.id = drawn + 1] \in JobFiles BY <1>1, <1>2 DEF JobFile, JobFiles
<1>4. files' \in [JobName -> JobFiles] BY <1>1, <1>3 DEF NameFile, RegistryTypeOK
<1>5. view' \in [Editor -> [JobName -> [id : Identity, rev : Config \cup {NoFile}]]]
  <2>1. [id |-> drawn + 1, rev |-> task[e].config] \in [id : Identity, rev : Config \cup {NoFile}]
    BY <1>1, <1>2 DEF Errand
  <2>2. [view[e] EXCEPT ![task[e].from] = [id |-> drawn + 1, rev |-> task[e].config]]
          \in [JobName -> [id : Identity, rev : Config \cup {NoFile}]]
    BY <1>1, <2>1 DEF RegistryTypeOK
  <2>3. view' = view \/ view' = [view EXCEPT ![e] = [view[e] EXCEPT ![task[e].from] =
                                [id |-> drawn + 1, rev |-> task[e].config]]]
    BY DEF NameFile
  <2> QED BY <2>2, <2>3 DEF RegistryTypeOK
<1>6. Leave(e) /\ UNCHANGED <<touched, mutations, hands, mishaps>> BY DEF NameFile, counters
<1> QED BY <1>1, <1>2, <1>4, <1>5, <1>6, LeaveKeeps DEF RegistryTypeOK

LEMMA CommitKeeps ==
  ASSUME RegistryInv, NEW e \in Editor, Commit(e)
  PROVE  RegistryInv'
<1> USE RegistryAssumption DEF RegistryInv
<1>t. task[e] \in Errand /\ task[e].to \in JobName /\ step[e] = "commit"
  BY DEF Commit, RegistryTypeOK, Errand
<1>1. files' \in [JobName -> JobFiles]
  <2>1. (IF task[e].kind = "delete" THEN Missing ELSE Written(e)) \in JobFiles
    BY <1>t, SmallFacts, WrittenIsFile
  <2> QED BY <1>t, <2>1 DEF Commit, RegistryTypeOK
<1>2. view' \in [Editor -> [JobName -> [id : Identity, rev : Config \cup {NoFile}]]]
  <2>1. [id |-> task[e].id, rev |-> task[e].config] \in [id : Identity, rev : Config \cup {NoFile}]
    BY <1>t DEF Errand
  <2>2. Unseen[task[e].to] \in [id : Identity, rev : Config \cup {NoFile}]
    BY <1>t, SmallFacts
  <2>3. view' = [view EXCEPT ![e] = [view[e] EXCEPT ![task[e].to] =
                   IF task[e].kind \in {"delete", "seed", "reseed"} THEN Unseen[task[e].to]
                   ELSE [id |-> task[e].id, rev |-> task[e].config]]]
    BY DEF Commit
  <2> QED BY <1>t, <2>1, <2>2, <2>3 DEF RegistryTypeOK
<1>3. Leave(e) /\ UNCHANGED <<drawn, touched, mutations, hands, mishaps>>
  BY DEF Commit, counters
<1>4. mishaps' \in 0 .. MaxMishaps /\ drawn' \in Identity BY <1>3 DEF RegistryTypeOK
<1> QED BY <1>t, <1>1, <1>2, <1>3, <1>4, LeaveKeeps

\* The two calls of a rename: what was under the old name is under the new one.
LEMMA RenameKeeps ==
  ASSUME RegistryInv, NEW e \in Editor, LinkNewName(e) \/ RemoveOldName(e)
  PROVE  RegistryInv'
<1> USE RegistryAssumption DEF RegistryAssumption, RegistryInv
<1>0. /\ step[e] # "idle" /\ \A k \in Editor : k # e => step[k] = "idle"
      /\ task[e].from \in JobName /\ task[e].to \in JobName
  BY DEF LinkNewName, RemoveOldName, RegistryTypeOK, Errand
<1>1. CASE LinkNewName(e)
  <2>1. /\ files' = [files EXCEPT ![task[e].to] = files[task[e].from]]
        /\ step[e] = "link" /\ step' = [step EXCEPT ![e] = "unlink"]
        /\ UNCHANGED <<holder, view, task, drawn, touched, mutations, hands, mishaps>>
    BY <1>1 DEF LinkNewName, counters
  <2>2. RegistryTypeOK' BY <1>0, <2>1 DEF RegistryTypeOK
  <2>3. TaskIsWhole' BY <1>0, <2>1 DEF RegistryTypeOK, TaskIsWhole
  <2>4. SecondLookHolds' BY <1>0, <2>1 DEF RegistryTypeOK, SecondLookHolds
  <2> QED BY <2>2, <2>3, <2>4
<1>2. CASE RemoveOldName(e)
  <2>1. /\ files' = [files EXCEPT ![task[e].from] = Missing]
        /\ step[e] = "unlink" /\ step' = [step EXCEPT ![e] = "commit"]
        /\ UNCHANGED <<holder, view, task, drawn, touched, mutations, hands, mishaps>>
    BY <1>2 DEF RemoveOldName, counters
  <2>2. RegistryTypeOK' BY <1>0, <2>1, SmallFacts DEF RegistryTypeOK
  <2>3. TaskIsWhole' BY <1>0, <2>1 DEF RegistryTypeOK, TaskIsWhole
  <2>4. task[e].from # task[e].to BY <2>1 DEF TaskIsWhole
  <2>5. SecondLookHolds' BY <1>0, <2>1, <2>4 DEF RegistryTypeOK, SecondLookHolds
  <2> QED BY <2>2, <2>3, <2>5
<1> QED BY <1>1, <1>2

\* However a mutation ends early, the lock is given back and the files are files.
LEMMA EarlyEndsKeep ==
  ASSUME RegistryInv, NEW e \in Editor,
         \/ Refuse(e) \/ CommitFails(e) \/ StageFails(e) \/ RemoveFails(e)
         \/ CommitRefused(e) \/ Die(e)
  PROVE  RegistryInv'
<1> USE RegistryAssumption DEF RegistryInv
<1>t. task[e].from \in JobName /\ task[e].to \in JobName BY DEF RegistryTypeOK, Errand
<1>1. CASE Refuse(e) \/ CommitRefused(e)
  <2>1. /\ step[e] # "idle" /\ Leave(e)
        /\ UNCHANGED <<files, view, drawn, touched, mutations, hands, mishaps>>
    BY <1>1 DEF Refuse, CommitRefused, counters
  <2> QED BY <2>1, LeaveKeeps DEF RegistryTypeOK
<1>2. CASE CommitFails(e)
  <2>1. files' \in [JobName -> JobFiles]
    BY <1>2, <1>t, SmallFacts DEF CommitFails, RegistryTypeOK
  <2>2. /\ step[e] # "idle" /\ Leave(e) /\ Mishap
        /\ UNCHANGED <<view, drawn, touched, mutations, hands>>
    BY <1>2 DEF CommitFails
  <2> QED BY <2>1, <2>2, LeaveKeeps, MishapCounts DEF RegistryTypeOK
<1>3. CASE StageFails(e)
  <2>1. /\ step[e] # "idle" /\ Leave(e)
        /\ Mishap \/ UNCHANGED mishaps
        /\ UNCHANGED <<files, view, drawn, touched, mutations, hands>>
    BY <1>3 DEF StageFails
  <2>2. mishaps' \in 0 .. MaxMishaps BY <2>1, MishapCounts DEF RegistryTypeOK
  <2> QED BY <2>1, <2>2, LeaveKeeps DEF RegistryTypeOK
<1>4. CASE RemoveFails(e)
  <2>1. files' \in [JobName -> JobFiles]
    BY <1>4, <1>t, SmallFacts DEF RemoveFails, RegistryTypeOK
  <2>2. /\ step[e] # "idle" /\ Leave(e) /\ Mishap
        /\ UNCHANGED <<view, drawn, touched, mutations, hands>>
    BY <1>4 DEF RemoveFails
  <2> QED BY <2>1, <2>2, LeaveKeeps, MishapCounts DEF RegistryTypeOK
<1>5. CASE Die(e)
  <2>1. step[e] # "idle" BY <1>5 DEF Die, RegistryTypeOK
  <2>2. view' \in [Editor -> [JobName -> [id : Identity, rev : Config \cup {NoFile}]]]
    BY <1>5, SmallFacts DEF Die, RegistryTypeOK
  <2>3. Leave(e) /\ Mishap /\ UNCHANGED <<files, drawn, touched, mutations, hands>>
    BY <1>5 DEF Die
  <2> QED BY <2>1, <2>2, <2>3, LeaveKeeps, MishapCounts DEF RegistryTypeOK
<1> QED BY <1>1, <1>2, <1>3, <1>4, <1>5

\* A hand changes one name, and the editors no longer rely on it.
LEMMA HandKeeps ==
  ASSUME RegistryInv, NEW n \in JobName, NEW f \in JobFiles, ByHand(n, f)
  PROVE  RegistryInv'
<1> USE RegistryAssumption DEF RegistryAssumption, RegistryInv
<1>1. /\ files' = [files EXCEPT ![n] = f] /\ touched' = touched \cup {n}
      /\ UNCHANGED <<holder, view, task, step, drawn, mutations, mishaps>>
  BY DEF ByHand
<1>2. hands' \in 0 .. MaxHands BY DEF ByHand, RegistryTypeOK
<1>4. RegistryTypeOK' BY <1>1, <1>2 DEF RegistryTypeOK
<1>5. TaskIsWhole' BY <1>1 DEF TaskIsWhole
<1>6. SecondLookHolds'
  <2> SUFFICES ASSUME NEW k \in Editor, task[k].kind \in {"save", "roots"},
                      {task[k].from, task[k].to} \cap (touched \cup {n}) = {}
               PROVE  /\ step[k] = "link" => files'[task[k].from].config = task[k].rev
                      /\ step[k] \in {"unlink", "commit"} => files'[task[k].to].config = task[k].rev
    BY <1>1 DEF SecondLookHolds
  <2>1. n # task[k].from /\ n # task[k].to OBVIOUS
  <2>2. task[k].from \in JobName /\ task[k].to \in JobName BY DEF RegistryTypeOK, Errand
  <2>3. files'[task[k].from] = files[task[k].from] /\ files'[task[k].to] = files[task[k].to]
    BY <1>1, <2>1, <2>2 DEF RegistryTypeOK
  <2> QED BY <2>3 DEF SecondLookHolds
<1> QED BY <1>4, <1>5, <1>6

LEMMA RegistryStays ==
  ASSUME RegistryInv, [RegistryNext]_registryVars
  PROVE  RegistryInv'
<1> USE RegistryAssumption DEF RegistryAssumption
<1>u. CASE UNCHANGED registryVars
  BY <1>u DEF registryVars, RegistryInv, RegistryTypeOK, TaskIsWhole, SecondLookHolds
<1>h. ASSUME NEW n \in JobName, NEW f \in JobFiles, ByHand(n, f) PROVE RegistryInv'
  BY <1>h, HandKeeps
<1>e. ASSUME NEW e \in Editor, EditorStep(e) PROVE RegistryInv'
  <2>v. ASSUME NEW n \in JobName
        PROVE  view[e][n].id \in Identity /\ view[e][n].rev \in Config \cup {NoFile}
    BY DEF RegistryInv, RegistryTypeOK
  <2>1. ASSUME NEW n \in JobName, LoadJob(e, n) PROVE RegistryInv'
    BY <2>1, LoadKeeps
  <2>2. ASSUME NEW n \in JobName, BeginDelete(e, n) PROVE RegistryInv'
    <3> DEFINE m == [Idle EXCEPT !.kind = "delete", !.from = n, !.to = n,
                                 !.id = view[e][n].id, !.rev = view[e][n].rev]
    <3>1. m \in Errand /\ m.kind = "delete" /\ m.from = m.to
      BY SmallFacts, <2>v DEF Errand, Kinds
    <3>2. Begin(e, m) BY <2>2 DEF BeginDelete
    <3> HIDE DEF m
    <3> QED BY <3>1, <3>2, BeginKeeps
  <2>3. ASSUME NEW n \in JobName, NEW c \in Config, BeginCreate(e, n, c) PROVE RegistryInv'
    <3> DEFINE m == [Idle EXCEPT !.kind = "create", !.from = n, !.to = n, !.config = c]
    <3>1. m \in Errand /\ m.from = m.to /\ m.config \in Config
      BY SmallFacts DEF Errand, Kinds
    <3>2. Begin(e, m) BY <2>3 DEF BeginCreate
    <3> HIDE DEF m
    <3> QED BY <3>1, <3>2, BeginKeeps
  <2>4. ASSUME NEW n \in JobName, NEW c \in Config, BeginRoots(e, n, c) PROVE RegistryInv'
    <3> DEFINE m == [Idle EXCEPT !.kind = "roots", !.from = n, !.to = n, !.config = c,
                                 !.id = view[e][n].id, !.rev = view[e][n].rev]
    <3>1. m \in Errand /\ m.from = m.to /\ m.config \in Config
      BY SmallFacts, <2>v DEF Errand, Kinds
    <3>2. Begin(e, m) BY <2>4 DEF BeginRoots
    <3> HIDE DEF m
    <3> QED BY <3>1, <3>2, BeginKeeps
  <2>5. ASSUME NEW n \in JobName, NEW to \in JobName, NEW c \in Config, BeginSave(e, n, to, c)
        PROVE  RegistryInv'
    <3> DEFINE m == [Idle EXCEPT !.kind = "save", !.from = n, !.to = to, !.config = c,
                                 !.id = view[e][n].id, !.rev = view[e][n].rev]
    <3>1. m \in Errand /\ m.kind = "save" /\ m.config \in Config
      BY SmallFacts, <2>v DEF Errand, Kinds
    <3>2. Begin(e, m) BY <2>5 DEF BeginSave
    <3> HIDE DEF m
    <3> QED BY <3>1, <3>2, BeginKeeps
  <2>6. ASSUME NEW n \in JobName, NEW c \in Config, NEW o \in BOOLEAN, BeginSeed(e, n, c, o)
        PROVE  RegistryInv'
    <3> DEFINE m == [Idle EXCEPT !.kind = IF o THEN "reseed" ELSE "seed",
                                 !.from = n, !.to = n, !.config = c]
    <3>1. m \in Errand /\ m.from = m.to /\ m.config \in Config
      BY SmallFacts DEF Errand, Kinds
    <3>2. Begin(e, m) BY <2>6 DEF BeginSeed
    <3> HIDE DEF m
    <3> QED BY <3>1, <3>2, BeginKeeps
  <2>7. CASE Look(e) \/ Identify(e) \/ LookAgain(e) \/ ReadText(e) BY <2>7, LooksKeep
  <2>n. CASE NameFile(e) BY <2>n, NameKeeps
  <2>8. CASE Commit(e) BY <2>8, CommitKeeps
  <2>9. CASE LinkNewName(e) \/ RemoveOldName(e) BY <2>9, RenameKeeps
  <2>10. CASE \/ Refuse(e) \/ CommitFails(e) \/ StageFails(e) \/ RemoveFails(e)
              \/ CommitRefused(e) \/ Die(e)
    BY <2>10, EarlyEndsKeep
  <2> QED BY <1>e, <2>1, <2>2, <2>3, <2>4, <2>5, <2>6, <2>7, <2>n, <2>8, <2>9, <2>10
     DEF EditorStep
<1> QED BY <1>u, <1>h, <1>e DEF RegistryNext

\* The registry has its types, and its advisory lock one owner.
THEOREM RegistryTypeCorrect == RegistrySpec => []RegistryTypeOK
<1>1. RegistryInv /\ [RegistryNext]_registryVars => RegistryInv' BY RegistryStays
<1>2. RegistryInv => RegistryTypeOK BY DEF RegistryInv
<1> QED BY RegistryInitially, <1>1, <1>2, PTL DEF RegistrySpec

\* No save and no change of roots replaces a revision its editor has not loaded, however
\* many editors there are and under however many names, except one a hand wrote between
\* the second look and the publication.
THEOREM NoUpdateIsLost == RegistrySpec => NoLostUpdate
<1>1. RegistryInv /\ [RegistryNext]_registryVars => RegistryInv' BY RegistryStays
<1>2. RegistryInv /\ [RegistryNext]_registryVars =>
        [\A e \in Editor :
           Publishes(e) /\ task[e].kind \in {"save", "roots"} /\ {task[e].from, task[e].to} \cap touched = {} =>
             files[task[e].to].config = task[e].rev]_registryVars
  BY DEF RegistryInv, SecondLookHolds, Publishes
<1> QED BY RegistryInitially, <1>1, <1>2, PTL DEF RegistrySpec, NoLostUpdate

(* The history of runs                                                     *)

Directories == [Place -> [AnyRun -> DirState]]
Phases == {"new", "opened", "created", "running", "summed", "over", "killed", "debris"}
MoverTasks == {"none", "entries", "remove", "merge", "unlink", "done", "cut"}

KeeperIs == DOMAIN keeper = {"task", "place", "old", "lines", "doomed"} /\ keeper.place \in Place
MoverIs ==
  /\ DOMAIN mover = {"task", "entry", "lines", "legacy", "left", "smooth"}
  /\ mover.task \in MoverTasks
  /\ mover.task = "remove" => mover.entry \in AnyRun
  /\ mover.legacy \in SUBSET AnyRun
  /\ mover.task = "none" => mover = NoMove

RecordsAre ==
  /\ dirs \in Directories
  /\ phase \in [Run -> Phases]
  /\ home \in [Run -> Place] /\ setting \in Place
  /\ marker \in [Place -> BOOLEAN] /\ legacy \in [Place -> SUBSET AnyRun]
  /\ KeeperIs /\ MoverIs

\* Nothing of the earlier schema is at a place.
Current(p) == legacy[p] = {} /\ \A r \in AnyRun : dirs[p][r] # "past"

\* Before the move everything is at the old place. Its marker says that nothing of the
\* earlier schema is there, and who migrates it knows what is left of it.
Settled ==
  /\ setting = "before" /\ \A r \in Run : home[r] = "before"
  /\ keeper.place = "before" /\ detached = {}
  /\ Current("after") /\ \A r \in Run \cup Range(PastRun) : dirs["after"][r] = "none"
  /\ marker["before"] => Current("before")
  /\ keeper.task \in {"list", "summaries"} /\ ~keeper.old => legacy["before"] = {}
  /\ keeper.task = "summaries" =>
       \A r \in AnyRun : dirs["before"][r] = "past" => r \in keeper.doomed
  /\ keeper.task = "replace" => \A r \in AnyRun : dirs["before"][r] # "past"
  /\ keeper.task = "mark" => Current("before")

\* A move that began with both places migrated carries nothing of the earlier schema.
SchemaInv ==
  /\ mover = NoMove => Settled
  /\ mover.task # "none" /\ mover.smooth =>
       Current("before") /\ Current("after") /\ mover.legacy = {}

Ongoing == mover.task \notin {"none", "cut"}

\* Where a run is that neither retention nor a failed write cut off: before the move,
Traced(r) == r \in Run => phase[r] \in {"running", "summed", "over", "killed"}
InPlace(r) ==
  /\ Traced(r) => dirs["before"][r] \in Told
  /\ r \in Run /\ phase[r] = "created" => dirs["before"][r] # "none"
  /\ r \in Run /\ phase[r] \in {"new", "opened"} => dirs["before"][r] = "none"

\* and during and after it, unless it was at work when the move began: at one of the two
\* places, at the new one if it is still at work, and at the new one when nothing is left.
Followed(r) ==
  /\ r \in Run /\ phase[r] \in AtWork \cup {"new"} =>
       /\ dirs["before"][r] = "none" /\ r \notin detached
       /\ ~(mover.task = "remove" /\ mover.entry = r)
       /\ phase[r] # "new" => home[r] = "after"
       /\ phase[r] \in {"created", "running", "summed"} => dirs["after"][r] # "none"
  /\ Traced(r) =>
       /\ dirs["after"][r] \in Told \cup {"none"}
       /\ dirs["after"][r] = "none" => dirs["before"][r] \in Told
       /\ mover.task = "remove" /\ mover.entry = r => dirs["after"][r] # "none"
       /\ mover.smooth /\ dirs["after"][r] = "none" => r \in mover.left

TraceInv ==
  /\ \A r \in (Run \cup Range(PastRun)) \ (slipped \cup dropped) :
       /\ mover = NoMove => InPlace(r)
       /\ Ongoing /\ r \notin overtaken => Followed(r)
  /\ Ongoing => setting = "after"
  /\ mover.task = "done" => mover.left = {}

HistoryInv == RecordsAre /\ SchemaInv /\ TraceInv

LEMMA Names == /\ Run \subseteq AnyRun /\ Range(PastRun) \subseteq AnyRun
               /\ Run \cap Range(PastRun) = {} /\ \A r \in AnyRun : r # "index" /\ r # "marker"
               /\ "before" \in Place /\ "after" \in Place
BY HistoryAssumption DEF AnyRun, Special, Place

LEMMA HistoryInitially == HistoryInit => HistoryInv
<1> SUFFICES ASSUME HistoryInit PROVE HistoryInv OBVIOUS
<1>1. PICK there \in {<<>>, Elsewhere} :
       /\ marker = [p \in Place |-> p = "after" /\ there # <<>>]
       /\ dirs = [p \in Place |-> [r \in AnyRun |->
                    IF p = "before" /\ r \in Range(PastRun) THEN "past"
                    ELSE IF p = "after" /\ r \in Range(there) THEN "final" ELSE "none"]]
  BY DEF HistoryInit
<1>2. /\ \A r \in AnyRun : dirs["before"][r] = IF r \in Range(PastRun) THEN "past" ELSE "none"
      /\ \A r \in AnyRun : dirs["after"][r] = IF r \in Range(there) THEN "final" ELSE "none"
      /\ marker["before"] = FALSE /\ dirs \in Directories /\ marker \in [Place -> BOOLEAN]
  BY <1>1, Names DEF Directories, DirState, Place
<1>3. Range(there) \cap (Run \cup Range(PastRun)) = {}
  <2>1. CASE there = Elsewhere BY <2>1, HistoryAssumption
  <2>2. CASE there = <<>> BY <2>2 DEF Range
  <2> QED BY <1>1, <2>1, <2>2
<1>4. /\ legacy = [p \in Place |-> IF p = "before" THEN Range(PastRun) ELSE {}] /\ setting = "before"
      /\ phase = [r \in Run |-> "new"] /\ home = [r \in Run |-> "before"]
      /\ keeper = NoKeeper /\ mover = NoMove /\ detached = {}
  BY DEF HistoryInit
<1>5. RecordsAre
  BY <1>2, <1>4, Names
  DEF RecordsAre, KeeperIs, MoverIs, NoKeeper, NoMove, Phases, Place, MoverTasks
<1>6. SchemaInv BY <1>2, <1>3, <1>4, Names DEF SchemaInv, Settled, Current, NoKeeper, NoMove, Place
<1>7. TraceInv BY <1>2, <1>4, Names DEF TraceInv, InPlace, Traced, Told, Ongoing, NoMove
<1> QED BY <1>5, <1>6, <1>7 DEF HistoryInv

LEMMA DirectoriesChange ==
  ASSUME RecordsAre, NEW p \in Place, NEW r \in AnyRun, NEW d \in DirState, PutDir(p, r, d)
  PROVE  /\ dirs' \in Directories
         /\ \A q \in Place, s \in AnyRun : dirs'[q][s] = IF q = p /\ s = r THEN d ELSE dirs[q][s]
BY DEF RecordsAre, Directories, PutDir

LEMMA SummariesChange ==
  ASSUME RecordsAre, NEW r \in Run, NEW d \in {"pending", "final"}, WriteSummary(r, d)
  PROVE  /\ dirs' \in Directories
         /\ \A q \in Place, s \in AnyRun :
              dirs'[q][s] = IF s = r /\ q \in HeldAt(r) THEN d ELSE dirs[q][s]
<1>1. dirs \in Directories BY DEF RecordsAre
<1>2. \A q \in Place : dirs'[q] = IF q \in HeldAt(r) THEN [dirs[q] EXCEPT ![r] = d] ELSE dirs[q]
  BY DEF WriteSummary
<1> QED BY <1>1, <1>2, Names DEF WriteSummary, Directories, DirState

LEMMA RecordsStay == RecordsAre /\ [HistoryNext]_historyVars => RecordsAre'
<1> SUFFICES ASSUME RecordsAre, [HistoryNext]_historyVars PROVE RecordsAre' OBVIOUS
<1>i. /\ dirs \in Directories /\ phase \in [Run -> Phases] /\ home \in [Run -> Place]
      /\ setting \in Place /\ marker \in [Place -> BOOLEAN] /\ legacy \in [Place -> SUBSET AnyRun]
      /\ KeeperIs /\ MoverIs /\ keeper.place \in Place
  BY DEF RecordsAre, KeeperIs
<1>k. keeper' = keeper => KeeperIs' BY <1>i DEF KeeperIs
<1>m. mover' = mover => MoverIs' BY <1>i DEF MoverIs
<1>1. CASE UNCHANGED historyVars
  BY <1>1, <1>i, <1>k, <1>m DEF historyVars, RecordsAre
<1>2. ASSUME NEW r \in Run, RecorderStep(r) PROVE RecordsAre'
  <2>1. /\ UNCHANGED <<setting, marker, legacy, keeper, mover>> /\ home' \in [Run -> Place]
    BY <1>2, <1>i DEF RecorderStep, OpenRoot, CreateRunDir, WritePending, WriteFinal, AppendIndex,
       WriteFails, Kill, indexVars
  <2>2. phase' \in [Run -> Phases]
    BY <1>2, <1>i DEF RecorderStep, OpenRoot, CreateRunDir, WritePending, WriteFinal, AppendIndex,
       WriteFails, Kill, RunMoves, Phases
  <2>3. dirs' \in Directories
    <3>1. CASE CreateRunDir(r)
      BY <3>1, <1>i, Names, DirectoriesChange DEF CreateRunDir, DirState
    <3>2. CASE WritePending(r) \/ WriteFinal(r)
      BY <3>2, SummariesChange DEF WritePending, WriteFinal
    <3>3. CASE OpenRoot(r) \/ AppendIndex(r) \/ WriteFails(r) \/ Kill(r)
      BY <3>3, <1>i DEF OpenRoot, AppendIndex, WriteFails, Kill
    <3> QED BY <1>2, <3>1, <3>2, <3>3 DEF RecorderStep
  <2> QED BY <2>1, <2>2, <2>3, <1>i, <1>k, <1>m DEF RecordsAre
<1>3. ASSUME NEW r \in AnyRun, Age(r) PROVE RecordsAre'
  BY <1>3, <1>i, <1>k, <1>m DEF Age, indexVars, runVars, RecordsAre
<1>4. CASE KeeperStep
  <2>1. KeeperIs'
    <3>1. CASE \E p \in Place : Migrate(p) BY <3>1 DEF Migrate, KeeperIs
    <3>2. ASSUME NEW p \in Place, BeginRetention(p) PROVE KeeperIs'
      <4> DEFINE D == ExpiredRuns(p) \cup OverCap(p)
      <4>1. keeper' = [task |-> "drop", place |-> p, old |-> FALSE, lines |-> listing[p], doomed |-> D]
        BY <3>2 DEF BeginRetention
      <4> HIDE DEF D
      <4> QED BY <4>1 DEF KeeperIs
    <3>3. ASSUME \/ \E t, S : keeper' = [keeper EXCEPT !.task = t, !.doomed = S]
                 \/ \E t : keeper' = [keeper EXCEPT !.task = t]
                 \/ \E S : keeper' = [keeper EXCEPT !.doomed = S]
                 \/ keeper' = NoKeeper \/ keeper' = keeper
          PROVE  KeeperIs'
      <4>1. DOMAIN keeper' = {"task", "place", "old", "lines", "doomed"}
        BY <3>3, <1>i DEF KeeperIs, NoKeeper
      <4>2. keeper'.place \in Place
        <5>1. ASSUME NEW t, NEW S, keeper' = [keeper EXCEPT !.task = t, !.doomed = S]
              PROVE  keeper'.place = keeper.place
          BY <5>1
        <5>2. ASSUME NEW t, keeper' = [keeper EXCEPT !.task = t] PROVE keeper'.place = keeper.place
          BY <5>2
        <5>3. ASSUME NEW S, keeper' = [keeper EXCEPT !.doomed = S] PROVE keeper'.place = keeper.place
          BY <5>3
        <5>4. NoKeeper.place = "before" BY DEF NoKeeper
        <5> QED BY <3>3, <5>1, <5>2, <5>3, <5>4, <1>i, Names
      <4> QED BY <4>1, <4>2 DEF KeeperIs
    <3>4. CASE \/ ListSummaries \/ SummariesEnd \/ ReplaceIndex \/ PublishMarker \/ DropEnds
               \/ RewriteIndex \/ EndRetention \/ KeeperStops
      BY <3>3, <3>4 DEF ListSummaries, SummariesEnd, ReplaceIndex, PublishMarker, DropEnds,
         RewriteIndex, EndRetention, KeeperStops
    <3>5. CASE \E r \in AnyRun : MigrateSummary(r) \/ DropDetail(r) \/ DropFails(r) \/ SweepOrphan(r)
      BY <3>3, <3>5 DEF MigrateSummary, DropDetail, DropFails, SweepOrphan
    <3> QED BY <1>4, <3>1, <3>2, <3>4, <3>5 DEF KeeperStep
  <2>2. dirs' \in Directories
    <3>1. ASSUME NEW r \in AnyRun, NEW d \in DirState, PutDir(keeper.place, r, d) PROVE dirs' \in Directories
      BY <3>1, <1>i, DirectoriesChange
    <3>2. ASSUME NEW r \in AnyRun PROVE dirs[keeper.place][r] \in DirState
      BY <1>i DEF Directories
    <3>3. CASE \E r \in AnyRun : MigrateSummary(r) \/ DropDetail(r) \/ SweepOrphan(r)
      BY <3>3, <3>1, <3>2 DEF MigrateSummary, DropDetail, SweepOrphan, DirState
    <3>4. CASE UNCHANGED dirs BY <3>4, <1>i
    <3> QED BY <1>4, <3>3, <3>4 DEF KeeperStep, Migrate, BeginRetention, ListSummaries, SummariesEnd,
       ReplaceIndex, PublishMarker, DropEnds, RewriteIndex, EndRetention, KeeperStops, DropFails
  <2>3. /\ UNCHANGED <<phase, home, setting, mover>>
        /\ marker' \in [Place -> BOOLEAN] /\ legacy' \in [Place -> SUBSET AnyRun]
    BY <1>4, <1>i DEF KeeperStep, Migrate, BeginRetention, ListSummaries, SummariesEnd,
       ReplaceIndex, PublishMarker, DropEnds, RewriteIndex, EndRetention, KeeperStops, DropFails,
       MigrateSummary, DropDetail, SweepOrphan, indexVars, runVars
  <2> QED BY <2>1, <2>2, <2>3, <1>i, <1>m DEF RecordsAre
<1>5. CASE MoverStep
  <2>1. MoverIs'
    <3>0. \/ mover.task # "none" /\ mover.legacy \in SUBSET AnyRun /\ mover.task \in MoverTasks
          \/ mover = NoMove
      BY <1>i DEF MoverIs
    <3>1. CASE BeginMove BY <3>1 DEF BeginMove, NoMove, MoverIs, MoverTasks
    <3>2. CASE RemoveDir \/ MoveIndex \/ MoveMarker \/ \E r \in AnyRun : MoveDir(r)
      BY <3>2, <1>i DEF RemoveDir, MoveIndex, MoveMarker, MoveDir, Visit, MoverIs, MoverTasks
    <3>3. CASE ReadIndexes \/ PublishMerged \/ RemoveMerged
      <4>1. legacy["before"] \cup legacy["after"] \in SUBSET AnyRun BY <1>i, Names
      <4>2. CASE ReadIndexes BY <4>1, <4>2, <1>i DEF ReadIndexes, MoverIs, MoverTasks
      <4>3. CASE PublishMerged BY <4>3, <1>i DEF PublishMerged, MoverIs, MoverTasks
      <4>4. CASE RemoveMerged BY <4>4, <1>i DEF RemoveMerged, MoverIs, MoverTasks
      <4> QED BY <3>3, <4>2, <4>3, <4>4
    <3>4. CASE FinishMove \/ CutMove BY <3>4 DEF FinishMove, CutMove, NoMove, MoverIs, MoverTasks
    <3>5. CASE \E r \in AnyRun : CopyDir(r) BY <3>5, <1>i DEF CopyDir, MoverIs, MoverTasks
    <3>6. CASE \E e \in AnyRun \cup Special : EntryFails(e)
      BY <3>6, <1>i DEF EntryFails, MoverIs, MoverTasks
    <3> QED BY <1>5, <3>1, <3>2, <3>3, <3>4, <3>5, <3>6 DEF MoverStep
  <2>2. dirs' \in Directories
    <3>1. CASE RemoveDir
      BY <3>1, <1>i, Names, DirectoriesChange DEF RemoveDir, MoverIs, DirState
    <3>2. CASE \E r \in AnyRun : MoveDir(r)
      BY <3>2, <1>i, Names DEF MoveDir, Directories, DirState
    <3>3. ASSUME NEW r \in AnyRun, CopyDir(r) PROVE dirs' \in Directories
      <4>1. dirs["before"][r] \in DirState BY <1>i, Names DEF Directories
      <4> QED BY <3>3, <4>1, Names, DirectoriesChange DEF CopyDir
    <3>4. CASE UNCHANGED dirs BY <3>4, <1>i
    <3> QED BY <1>5, <3>1, <3>2, <3>3, <3>4 DEF MoverStep, BeginMove, MoveIndex, ReadIndexes,
       PublishMerged, RemoveMerged, MoveMarker, FinishMove, CutMove, EntryFails
  <2>3. /\ UNCHANGED <<phase, home, keeper>> /\ setting' \in Place
        /\ marker' \in [Place -> BOOLEAN]
    BY <1>5, <1>i, Names DEF MoverStep, BeginMove, MoveIndex, ReadIndexes,
       PublishMerged, RemoveMerged, MoveMarker, FinishMove, CutMove, EntryFails, RemoveDir, MoveDir,
       CopyDir, indexVars, runVars
  <2>4. legacy' \in [Place -> SUBSET AnyRun]
    BY <1>5, <1>i, Names DEF MoverStep, BeginMove, MoveIndex, ReadIndexes, MoverIs,
       PublishMerged, RemoveMerged, MoveMarker, FinishMove, CutMove, EntryFails, RemoveDir, MoveDir,
       CopyDir, indexVars, runVars
  <2> QED BY <2>1, <2>2, <2>3, <2>4, <1>i, <1>k DEF RecordsAre
<1> QED BY <1>1, <1>2, <1>3, <1>4, <1>5 DEF HistoryNext

\* Steps that only take summaries of the earlier schema, or lines of it, away.
LEMMA SchemaStays == HistoryInv /\ [HistoryNext]_historyVars => SchemaInv'
<1> SUFFICES ASSUME HistoryInv, [HistoryNext]_historyVars PROVE SchemaInv' OBVIOUS
<1>i. /\ dirs \in Directories /\ phase \in [Run -> Phases] /\ home \in [Run -> Place]
      /\ setting \in Place /\ marker \in [Place -> BOOLEAN] /\ legacy \in [Place -> SUBSET AnyRun]
      /\ KeeperIs /\ MoverIs /\ keeper.place \in Place /\ RecordsAre /\ SchemaInv /\ TraceInv
  BY DEF HistoryInv, RecordsAre, KeeperIs
<1>b. mover = NoMove => mover.task = "none" BY DEF NoMove
<1>c. mover.task = "none" => mover = NoMove BY <1>i DEF MoverIs
<1>1. CASE UNCHANGED historyVars
  BY <1>1, <1>i DEF historyVars, SchemaInv, Settled, Current
<1>o. ASSUME UNCHANGED <<setting, home, keeper, mover, detached, marker, legacy>>,
             \A p \in Place, r \in AnyRun : dirs'[p][r] = "past" => dirs[p][r] = "past",
             mover = NoMove =>
               \A r \in Run \cup Range(PastRun) : dirs["after"][r] = "none" => dirs'["after"][r] = "none"
      PROVE  SchemaInv'
  BY <1>o, <1>i, Names DEF SchemaInv, Settled, Current
<1>2. ASSUME NEW r \in Run, RecorderStep(r) PROVE SchemaInv'
  <2>1. CASE OpenRoot(r)
    BY <2>1, <1>i DEF OpenRoot, indexVars, SchemaInv, Settled, Current
  <2>2. CASE CreateRunDir(r)
    <3>1. \A q \in Place, s \in AnyRun : dirs'[q][s] = IF q = home[r] /\ s = r THEN "bare" ELSE dirs[q][s]
      BY <2>2, <1>i, Names, DirectoriesChange DEF CreateRunDir, DirState
    <3>2. mover = NoMove => home[r] = "before" BY <1>i DEF SchemaInv, Settled
    <3> QED BY <2>2, <3>1, <3>2, <1>o, Names DEF CreateRunDir, indexVars
  <2>3. ASSUME NEW d \in {"pending", "final"}, WriteSummary(r, d),
               UNCHANGED <<setting, home, keeper, mover, detached, marker, legacy>>
        PROVE  SchemaInv'
    <3>1. \A q \in Place, s \in AnyRun : dirs'[q][s] = IF s = r /\ q \in HeldAt(r) THEN d ELSE dirs[q][s]
      BY <2>3, <1>i, SummariesChange
    <3>2. \A q \in HeldAt(r) : dirs[q][r] # "none" BY DEF HeldAt
    <3>3. \A s \in AnyRun : dirs["after"][s] = "none" => dirs'["after"][s] = "none" BY <3>1, <3>2, Names
    <3>4. \A p \in Place, s \in AnyRun : dirs'[p][s] = "past" => dirs[p][s] = "past" BY <3>1
    <3> QED BY <2>3, <3>3, <3>4, <1>o, Names
  <2>4. CASE WritePending(r) BY <2>3, <2>4 DEF WritePending, indexVars
  <2>5. CASE WriteFinal(r) BY <2>3, <2>5 DEF WriteFinal, indexVars
  <2>6. CASE AppendIndex(r) \/ WriteFails(r) \/ Kill(r)
    BY <2>6, <1>o DEF AppendIndex, WriteFails, Kill, indexVars
  <2> QED BY <1>2, <2>1, <2>2, <2>4, <2>5, <2>6 DEF RecorderStep
<1>3. ASSUME NEW r \in AnyRun, Age(r) PROVE SchemaInv'
  BY <1>3, <1>o DEF Age, indexVars, runVars
<1>4. CASE KeeperStep
  <2>0. UNCHANGED <<setting, home, mover, detached>>
    BY <1>4 DEF KeeperStep, Migrate, BeginRetention, ListSummaries, SummariesEnd,
       ReplaceIndex, PublishMarker, DropEnds, RewriteIndex, EndRetention, KeeperStops, DropFails,
       MigrateSummary, DropDetail, SweepOrphan, runVars
  <2>d. DOMAIN keeper = {"task", "place", "old", "lines", "doomed"} BY <1>i DEF KeeperIs
  <2> DEFINE Fewer ==
        \A p \in Place, r \in AnyRun :
          (dirs'[p][r] = "past" => dirs[p][r] = "past") /\ (dirs[p][r] = "none" => dirs'[p][r] = "none")
  <2>1. Fewer
    <3>1. ASSUME NEW r \in AnyRun, NEW d \in DirState, PutDir(keeper.place, r, d),
                 d \in {"none"} \/ (dirs[keeper.place][r] = "past" /\ d = "final") \/ d = dirs[keeper.place][r]
          PROVE  Fewer
      <4>1. \A p \in Place, s \in AnyRun :
              dirs'[p][s] = IF p = keeper.place /\ s = r THEN d ELSE dirs[p][s]
        BY <3>1, <1>i, DirectoriesChange
      <4>2. \A p \in Place, s \in AnyRun : dirs'[p][s] = "past" => dirs[p][s] = "past" BY <3>1, <4>1
      <4>3. \A p \in Place, s \in AnyRun : dirs[p][s] = "none" => dirs'[p][s] = "none" BY <3>1, <4>1
      <4> QED BY <4>2, <4>3
    <3>2. ASSUME NEW r \in AnyRun PROVE dirs[keeper.place][r] \in DirState
      BY <1>i DEF Directories
    <3>3. ASSUME NEW r \in AnyRun, MigrateSummary(r) \/ DropDetail(r) \/ SweepOrphan(r) PROVE Fewer
      <4> HIDE DEF Fewer
      <4>1. CASE MigrateSummary(r)
        <5>1. CASE dirs[keeper.place][r] = "past"
          BY <4>1, <5>1, <3>1 DEF MigrateSummary, DirState
        <5>2. CASE dirs[keeper.place][r] # "past"
          BY <4>1, <5>2, <3>1, <3>2 DEF MigrateSummary
        <5> QED BY <5>1, <5>2
      <4>2. CASE DropDetail(r) \/ SweepOrphan(r) BY <4>2, <3>1 DEF DropDetail, SweepOrphan, DirState
      <4> QED BY <3>3, <4>1, <4>2
    <3>4. CASE UNCHANGED dirs BY <3>4
    <3> QED BY <1>4, <3>3, <3>4 DEF KeeperStep, Migrate, BeginRetention, ListSummaries, SummariesEnd,
       ReplaceIndex, PublishMarker, DropEnds, RewriteIndex, EndRetention, KeeperStops, DropFails
  <2>2. \A p \in Place : legacy[p] = {} => legacy'[p] = {}
    BY <1>4, <1>i DEF KeeperStep, Migrate, BeginRetention, ListSummaries, SummariesEnd,
       ReplaceIndex, PublishMarker, DropEnds, RewriteIndex, EndRetention, KeeperStops, DropFails,
       MigrateSummary, DropDetail, SweepOrphan, indexVars
  <2>3. \A p \in Place : Current(p) => Current(p)' BY <2>1, <2>2 DEF Current
  <2>4. mover.task # "none" /\ mover.smooth =>
          Current("before")' /\ Current("after")' /\ mover.legacy = {}
    BY <2>3, <1>i, Names DEF SchemaInv
  <2>5. ASSUME mover = NoMove PROVE Settled'
    <3>0. Settled BY <2>5, <1>i DEF SchemaInv
    <3>1. setting' = "before" /\ (\A r \in Run : home'[r] = "before") /\ detached' = {}
          /\ Current("after")' /\ \A r \in Run \cup Range(PastRun) : dirs'["after"][r] = "none"
      BY <3>0, <2>0, <2>1, <2>3, Names DEF Settled
    <3>2. \A p \in Place : Migrate(p) \/ BeginRetention(p) => p = "before"
      BY <3>0 DEF Settled, Migrate, BeginRetention
    <3>3. keeper'.place = "before"
      <4>0. keeper.place = "before" BY <3>0 DEF Settled
      <4>1. ASSUME NEW p \in Place, Migrate(p) PROVE keeper'.place = "before"
        BY <4>1, <3>2 DEF Migrate
      <4>2. ASSUME NEW p \in Place, BeginRetention(p) PROVE keeper'.place = "before"
        <5> DEFINE D == ExpiredRuns(p) \cup OverCap(p)
        <5>1. keeper' = [task |-> "drop", place |-> p, old |-> FALSE, lines |-> listing[p], doomed |-> D]
          BY <4>2 DEF BeginRetention
        <5> HIDE DEF D
        <5> QED BY <4>2, <5>1, <3>2
      <4>3. CASE \/ ListSummaries \/ SummariesEnd \/ ReplaceIndex \/ PublishMarker \/ DropEnds
                 \/ RewriteIndex \/ EndRetention \/ KeeperStops
        <5>1. CASE PublishMarker \/ EndRetention \/ KeeperStops
          BY <5>1 DEF PublishMarker, EndRetention, KeeperStops, NoKeeper
        <5>2. CASE ListSummaries BY <4>0, <5>2, <2>d DEF ListSummaries
        <5>3. CASE SummariesEnd \/ ReplaceIndex BY <4>0, <5>3, <2>d DEF SummariesEnd, ReplaceIndex
        <5>4. CASE DropEnds \/ RewriteIndex BY <4>0, <5>4, <2>d DEF DropEnds, RewriteIndex
        <5> QED BY <4>3, <5>1, <5>2, <5>3, <5>4
      <4>4. CASE \E r \in AnyRun : MigrateSummary(r) \/ DropDetail(r) \/ DropFails(r) \/ SweepOrphan(r)
        BY <4>0, <4>4, <2>d DEF MigrateSummary, DropDetail, DropFails, SweepOrphan
      <4> QED BY <1>4, <4>1, <4>2, <4>3, <4>4 DEF KeeperStep
    <3>4. marker'["before"] => Current("before")'
      <4>1. CASE PublishMarker BY <4>1, <3>0, <2>3, Names DEF Settled, PublishMarker
      <4>2. CASE marker' = marker BY <4>2, <3>0, <2>3, Names DEF Settled
      <4> QED BY <1>4, <4>1, <4>2 DEF KeeperStep, Migrate, BeginRetention, ListSummaries, SummariesEnd,
         ReplaceIndex, DropEnds, RewriteIndex, EndRetention, KeeperStops, DropFails,
         MigrateSummary, DropDetail, SweepOrphan, indexVars
    <3> DEFINE Knows ==
          /\ keeper.task \in {"list", "summaries"} /\ ~keeper.old => legacy["before"] = {}
          /\ keeper.task = "summaries" =>
               \A r \in AnyRun : dirs["before"][r] = "past" => r \in keeper.doomed
          /\ keeper.task = "replace" => \A r \in AnyRun : dirs["before"][r] # "past"
          /\ keeper.task = "mark" => Current("before")
    <3>5. Knows /\ keeper.place = "before" BY <3>0 DEF Settled
    <3>6. Knows'
      <4>1. ASSUME NEW p \in Place, Migrate(p) PROVE Knows'
        BY <4>1, <3>2 DEF Migrate, indexVars
      <4>2. CASE ListSummaries
        BY <4>2, <2>d, <3>5 DEF ListSummaries, indexVars
      <4>3. ASSUME NEW r \in AnyRun, MigrateSummary(r) PROVE Knows'
        <5>1. /\ keeper' = [keeper EXCEPT !.doomed = @ \ {r}] /\ legacy' = legacy /\ keeper.task = "summaries"
              /\ PutDir("before", r, IF dirs["before"][r] = "past" THEN "final" ELSE dirs["before"][r])
          BY <4>3, <3>5 DEF MigrateSummary, indexVars
        <5>2. dirs["before"][r] \in DirState BY <1>i, Names DEF Directories
        <5>3. dirs'["before"][r] # "past"
          BY <5>1, <5>2, <1>i, Names, DirectoriesChange DEF DirState
        <5> QED BY <5>1, <5>3, <2>d, <2>1, <3>5, Names
      <4>4. CASE SummariesEnd
        BY <4>4, <2>d, <3>5 DEF SummariesEnd, Current, indexVars
      <4>5. CASE ReplaceIndex
        BY <4>5, <2>d, <3>5, <1>i, Names DEF ReplaceIndex, Current
      <4>6. CASE keeper'.task \in {"free", "drop", "rewrite", "sweep"} BY <4>6
      <4>7. CASE \/ PublishMarker \/ DropEnds \/ RewriteIndex \/ EndRetention \/ KeeperStops
                 \/ \E r \in AnyRun : DropFails(r) \/ DropDetail(r) \/ SweepOrphan(r)
                 \/ \E p \in Place : BeginRetention(p)
        BY <4>6, <4>7, <2>d DEF PublishMarker, DropEnds, RewriteIndex, EndRetention, KeeperStops, DropFails,
           DropDetail, SweepOrphan, BeginRetention, NoKeeper
      <4> QED BY <1>4, <4>1, <4>2, <4>3, <4>4, <4>5, <4>7 DEF KeeperStep
    <3> QED BY <3>1, <3>3, <3>4, <3>6 DEF Settled
  <2> QED BY <2>0, <2>4, <2>5 DEF SchemaInv
<1>5. CASE MoverStep
  <2>d. DOMAIN mover = {"task", "entry", "lines", "legacy", "left", "smooth"} BY <1>i DEF MoverIs
  <2> DEFINE Smooth == Current("before") /\ Current("after") /\ mover.legacy = {}
  <2>1. CASE BeginMove
    <3>1. /\ mover' # NoMove /\ mover'.legacy = {} /\ mover'.smooth = marker["before"]
          /\ legacy' = legacy /\ dirs' = dirs
      BY <2>1 DEF BeginMove, NoMove, indexVars
    <3>2. Settled BY <2>1, <1>i DEF BeginMove, SchemaInv
    <3> QED BY <3>1, <3>2 DEF SchemaInv, Settled, Current
  <2>2. ASSUME mover.task # "none", mover'.smooth => mover.smooth, mover'.task # "none",
               Smooth => Smooth' PROVE SchemaInv'
    BY <2>2, <1>i DEF SchemaInv, NoMove
  <2>3. CASE FinishMove \/ CutMove
    BY <2>2, <2>3, <1>b DEF FinishMove, CutMove, Moving, NoMove, indexVars, Current
  <2>4. CASE \E e \in AnyRun \cup Special : EntryFails(e)
    BY <2>2, <2>4, <2>d DEF EntryFails, indexVars, Current
  <2>5. CASE MoveIndex \/ MoveMarker \/ ReadIndexes \/ PublishMerged \/ RemoveMerged
    <3>1. Smooth => Smooth'
      BY <2>5, <2>d, <1>i, Names DEF MoveIndex, MoveMarker, ReadIndexes, PublishMerged, RemoveMerged,
         Visit, Current, indexVars
    <3>2. mover.task # "none" /\ (mover'.smooth => mover.smooth) /\ mover'.task # "none"
      BY <2>5, <2>d DEF MoveIndex, MoveMarker, ReadIndexes, PublishMerged, RemoveMerged, Visit
    <3> QED BY <2>2, <3>1, <3>2
  <2>6. ASSUME NEW r \in AnyRun, MoveDir(r) \/ CopyDir(r) PROVE SchemaInv'
    <3>1. \A p \in Place, s \in AnyRun : dirs'[p][s] \in {"none", dirs[p][s], dirs["before"][s]}
      <4>1. CASE MoveDir(r) BY <4>1, <1>i, Names DEF MoveDir, Directories, Place
      <4>2. CASE CopyDir(r)
        <5>1. dirs["before"][r] \in DirState BY <1>i, Names DEF Directories
        <5> QED BY <4>2, <5>1, <1>i, Names, DirectoriesChange DEF CopyDir
      <4> QED BY <2>6, <4>1, <4>2
    <3>2. /\ mover.task = "entries" /\ mover'.smooth = mover.smooth /\ mover'.task # "none"
          /\ mover'.legacy = mover.legacy /\ legacy' = legacy
      BY <2>6, <2>d DEF MoveDir, CopyDir, Visit, indexVars
    <3>3. Smooth => Smooth' BY <3>1, <3>2, Names DEF Current
    <3> QED BY <2>2, <3>2, <3>3
  <2>7. CASE RemoveDir
    <3>1. \A p \in Place, s \in AnyRun : dirs'[p][s] \in {"none", dirs[p][s]}
      BY <2>7, <1>i, Names, DirectoriesChange DEF RemoveDir, MoverIs, DirState
    <3>2. /\ mover.task = "remove" /\ mover'.smooth = mover.smooth /\ mover'.task # "none"
          /\ mover'.legacy = mover.legacy /\ legacy' = legacy
      BY <2>7, <2>d DEF RemoveDir, indexVars
    <3>3. Smooth => Smooth' BY <3>1, <3>2, Names DEF Current
    <3> QED BY <2>2, <3>2, <3>3
  <2> QED BY <1>5, <2>1, <2>3, <2>4, <2>5, <2>6, <2>7 DEF MoverStep
<1> QED BY <1>1, <1>2, <1>3, <1>4, <1>5 DEF HistoryNext

\* Each run is where it should be: its directory only turns from the earlier schema to this
\* one, moves whole, or is dropped.
LEMMA TraceStays == HistoryInv /\ [HistoryNext]_historyVars => TraceInv'
<1> SUFFICES ASSUME HistoryInv, [HistoryNext]_historyVars PROVE TraceInv' OBVIOUS
<1>i. /\ dirs \in Directories /\ phase \in [Run -> Phases] /\ home \in [Run -> Place]
      /\ setting \in Place /\ KeeperIs /\ MoverIs /\ keeper.place \in Place
      /\ RecordsAre /\ SchemaInv /\ TraceInv
  BY DEF HistoryInv, RecordsAre, KeeperIs
<1>b. mover = NoMove <=> mover.task = "none" BY <1>i DEF MoverIs, NoMove
<1>n. mover = NoMove => Settled BY <1>i DEF SchemaInv
<1>d. DOMAIN mover = {"task", "entry", "lines", "legacy", "left", "smooth"} BY <1>i DEF MoverIs
<1> DEFINE Some == Run \cup Range(PastRun)
<1>s. ASSUME mover' = mover, setting' = setting, overtaken' = overtaken, detached' = detached,
             slipped \subseteq slipped', dropped \subseteq dropped',
             NEW r \in Some, r \notin slipped' \cup dropped', phase'[r] = phase[r], home'[r] = home[r],
             \A p \in Place :
               dirs'[p][r] = dirs[p][r] \/ (dirs[p][r] = "past" /\ dirs'[p][r] = "final")
      PROVE  /\ mover' = NoMove => InPlace(r)'
             /\ Ongoing' /\ r \notin overtaken' => Followed(r)'
  <2>1. \A p \in Place : (dirs'[p][r] = "none" <=> dirs[p][r] = "none")
                         /\ (dirs[p][r] \in Told => dirs'[p][r] \in Told)
    BY <1>s DEF Told
  <2>2. Traced(r)' <=> Traced(r) BY <1>s DEF Traced
  <2>3. (mover = NoMove => InPlace(r)) /\ (Ongoing /\ r \notin overtaken => Followed(r))
    BY <1>s, <1>i DEF TraceInv
  <2>4. mover' = NoMove => InPlace(r)' BY <1>s, <2>1, <2>2, <2>3, Names DEF InPlace
  <2>5. Ongoing' /\ r \notin overtaken' => Followed(r)'
    BY <1>s, <2>1, <2>2, <2>3, Names DEF Followed, Ongoing
  <2> QED BY <2>4, <2>5
<1>t. ASSUME UNCHANGED <<mover, setting>>,
             \A r \in Some \ (slipped' \cup dropped') :
               /\ mover' = NoMove => InPlace(r)'
               /\ Ongoing' /\ r \notin overtaken' => Followed(r)'
      PROVE  TraceInv'
  BY <1>t, <1>i DEF TraceInv, Ongoing
<1>u. ASSUME mover' = mover, setting' = setting, overtaken' = overtaken, detached' = detached,
             phase' = phase, home' = home, slipped \subseteq slipped',
             dropped \subseteq dropped',
             \A p \in Place, r \in Some \ dropped' :
               dirs'[p][r] = dirs[p][r] \/ (dirs[p][r] = "past" /\ dirs'[p][r] = "final")
      PROVE  TraceInv'
  <2>1. ASSUME NEW r \in Some \ (slipped' \cup dropped')
        PROVE  /\ mover' = NoMove => InPlace(r)'
               /\ Ongoing' /\ r \notin overtaken' => Followed(r)'
    <3>1. \A p \in Place :
               dirs'[p][r] = dirs[p][r] \/ (dirs[p][r] = "past" /\ dirs'[p][r] = "final")
      BY <1>u, <2>1
    <3> QED BY <1>u, <2>1, <3>1, <1>s
  <2> QED BY <1>u, <2>1, <1>t
<1>1. CASE UNCHANGED historyVars
  <2>1. /\ UNCHANGED <<mover, setting, overtaken, detached, slipped, dropped, dirs, phase, home>>
    BY <1>1 DEF historyVars
  <2> QED BY <2>1, <1>u
<1>2. ASSUME NEW r \in Run, RecorderStep(r) PROVE TraceInv'
  <2>1. /\ UNCHANGED <<mover, setting, overtaken, detached, dropped>> /\ slipped \subseteq slipped'
        /\ \A s \in Run \ {r} : phase'[s] = phase[s] /\ home'[s] = home[s]
    BY <1>2, <1>i DEF RecorderStep, OpenRoot, CreateRunDir, WritePending, WriteFinal, AppendIndex,
       WriteFails, Kill, RunMoves
  <2>2. \A p \in Place, s \in AnyRun \ {r} : dirs'[p][s] = dirs[p][s]
    <3>1. CASE CreateRunDir(r) BY <3>1, <1>i, Names, DirectoriesChange DEF CreateRunDir, DirState
    <3>2. CASE WritePending(r) \/ WriteFinal(r) BY <3>2, <1>i, SummariesChange DEF WritePending, WriteFinal
    <3>3. CASE OpenRoot(r) \/ AppendIndex(r) \/ WriteFails(r) \/ Kill(r)
      BY <3>3 DEF OpenRoot, AppendIndex, WriteFails, Kill
    <3> QED BY <1>2, <3>1, <3>2, <3>3 DEF RecorderStep
  <2>3. ASSUME NEW s \in Some, s # r, s \notin slipped' \cup dropped'
        PROVE  (mover' = NoMove => InPlace(s)') /\ (Ongoing' /\ s \notin overtaken' => Followed(s)')
    <3>1. CASE s \in Run
      <4>1. phase'[s] = phase[s] /\ home'[s] = home[s] BY <2>1, <2>3, <3>1
      <4>2. \A p \in Place : dirs'[p][s] = dirs[p][s] BY <2>2, <2>3, Names
      <4> QED BY <2>1, <2>3, <4>1, <4>2, <1>s
    <3>2. CASE s \notin Run
      <4>1. (mover = NoMove => InPlace(s)) /\ (Ongoing /\ s \notin overtaken => Followed(s))
        BY <2>1, <2>3, <1>i DEF TraceInv
      <4>2. \A p \in Place : dirs'[p][s] = dirs[p][s] BY <2>2, <2>3, Names
      <4> QED BY <2>1, <4>1, <4>2, <3>2, Names DEF InPlace, Followed, Traced, Ongoing
    <3> QED BY <3>1, <3>2
  <2>4. ASSUME r \notin slipped' \cup dropped'
        PROVE  (mover' = NoMove => InPlace(r)') /\ (Ongoing' /\ r \notin overtaken' => Followed(r)')
    <3>1. (mover = NoMove => InPlace(r)) /\ (Ongoing /\ r \notin overtaken => Followed(r))
      BY <2>1, <2>4, <1>i DEF TraceInv
    <3>2. CASE OpenRoot(r)
      <4>1. /\ phase[r] = "new" /\ phase'[r] = "opened" /\ home'[r] = setting /\ dirs' = dirs
        BY <3>2, <1>i DEF OpenRoot, RunMoves
      <4>2. Ongoing => setting = "after" BY <1>i DEF TraceInv
      <4> QED BY <2>1, <3>1, <4>1, <4>2 DEF InPlace, Followed, Traced, Ongoing, AtWork
    <3>3. CASE CreateRunDir(r)
      <4>1. /\ phase[r] = "opened" /\ phase'[r] = "created" /\ home' = home
            /\ \A q \in Place : dirs'[q][r] = IF q = home[r] THEN "bare" ELSE dirs[q][r]
        BY <3>3, <1>i, Names, DirectoriesChange DEF CreateRunDir, RunMoves, DirState
      <4>2. mover = NoMove => home[r] = "before" BY <1>n DEF Settled
      <4> QED BY <2>1, <3>1, <4>1, <4>2, Names DEF InPlace, Followed, Traced, Ongoing, AtWork
    <3>4. ASSUME NEW d \in {"pending", "final"}, WriteSummary(r, d), home' = home,
                 \/ phase[r] = "created" /\ phase'[r] = "running"
                 \/ phase[r] = "running" /\ phase'[r] = "summed"
          PROVE  (mover' = NoMove => InPlace(r)') /\ (Ongoing' /\ r \notin overtaken' => Followed(r)')
      <4>1. \A q \in Place : dirs'[q][r] = IF q \in HeldAt(r) THEN d ELSE dirs[q][r]
        BY <3>4, <1>i, SummariesChange, Names
      <4>2. ASSUME mover = NoMove PROVE InPlace(r)'
        <5>1. dirs["before"][r] # "none" BY <3>1, <3>4, <4>2 DEF InPlace, Traced, Told
        <5>2. "before" \in HeldAt(r) BY <4>2, <5>1, <1>n, Names DEF HeldAt, Settled
        <5>3. dirs'["before"][r] = d BY <4>1, <5>2, Names
        <5> QED BY <3>4, <5>3 DEF InPlace, Told
      <4>3. ASSUME Ongoing, r \notin overtaken PROVE Followed(r)'
        <5>1. /\ dirs["before"][r] = "none" /\ dirs["after"][r] # "none" /\ home[r] = "after"
              /\ r \notin detached /\ ~(mover.task = "remove" /\ mover.entry = r)
          BY <3>1, <3>4, <4>3 DEF Followed, AtWork
        <5>2. "after" \in HeldAt(r) /\ "before" \notin HeldAt(r) BY <5>1, Names DEF HeldAt
        <5>3. dirs'["after"][r] = d /\ dirs'["before"][r] = "none" BY <4>1, <5>1, <5>2, Names
        <5> QED BY <2>1, <3>4, <5>1, <5>3 DEF Followed, Told
      <4> QED BY <2>1, <4>2, <4>3 DEF Ongoing
    <3>5. CASE WritePending(r) BY <3>4, <3>5, <1>i DEF WritePending, RunMoves
    <3>6. CASE WriteFinal(r) BY <3>4, <3>6, <1>i DEF WriteFinal, RunMoves
    <3>7. CASE AppendIndex(r)
      <4>1. phase[r] = "summed" /\ phase'[r] = "over" /\ UNCHANGED <<dirs, home>>
        BY <3>7, <1>i DEF AppendIndex, RunMoves
      <4> QED BY <2>1, <3>1, <4>1 DEF InPlace, Followed, Traced, Ongoing, AtWork
    <3>8. CASE WriteFails(r) BY <2>4, <3>8 DEF WriteFails
    <3>9. CASE Kill(r)
      <4>1. /\ UNCHANGED <<dirs, home>>
            /\ \/ phase[r] \in {"running", "summed"} /\ phase'[r] = "killed"
               \/ phase[r] \in {"opened", "created"} /\ phase'[r] = "debris"
        BY <3>9, <1>i DEF Kill, AtWork
      <4> QED BY <2>1, <3>1, <4>1 DEF InPlace, Followed, Traced, Ongoing, AtWork
    <3> QED BY <1>2, <3>2, <3>3, <3>5, <3>6, <3>7, <3>8, <3>9 DEF RecorderStep
  <2> QED BY <2>1, <2>3, <2>4, <1>t
<1>3. ASSUME NEW r \in AnyRun, Age(r) PROVE TraceInv'
  <2>1. /\ UNCHANGED <<mover, setting, overtaken, detached, slipped, dropped, dirs, phase, home>>
    BY <1>3 DEF Age, indexVars, runVars
  <2> QED BY <2>1, <1>u
<1>4. CASE KeeperStep
  <2>1. UNCHANGED <<phase, home, mover, setting, overtaken, detached, slipped>> /\ dropped \subseteq dropped'
    BY <1>4 DEF KeeperStep, Migrate, BeginRetention, ListSummaries, SummariesEnd,
       ReplaceIndex, PublishMarker, DropEnds, RewriteIndex, EndRetention, KeeperStops, DropFails,
       MigrateSummary, DropDetail, SweepOrphan, runVars
  <2>2. ASSUME NEW s \in Some, s \notin dropped', NEW p \in Place
        PROVE  dirs'[p][s] = dirs[p][s] \/ (dirs[p][s] = "past" /\ dirs'[p][s] = "final")
    <3>1. ASSUME NEW r \in AnyRun, NEW d \in DirState, PutDir(keeper.place, r, d),
                 \/ r \in dropped'
                 \/ dirs[keeper.place][r] = "past" /\ d = "final"
                 \/ d = dirs[keeper.place][r]
          PROVE  dirs'[p][s] = dirs[p][s] \/ (dirs[p][s] = "past" /\ dirs'[p][s] = "final")
      BY <2>2, <3>1, <1>i, Names, DirectoriesChange
    <3>2. ASSUME NEW r \in AnyRun PROVE dirs[keeper.place][r] \in DirState
      BY <1>i DEF Directories
    <3>3. ASSUME NEW r \in AnyRun, MigrateSummary(r)
          PROVE  dirs'[p][s] = dirs[p][s] \/ (dirs[p][s] = "past" /\ dirs'[p][s] = "final")
      <4>1. CASE dirs[keeper.place][r] = "past" BY <3>3, <4>1, <3>1 DEF MigrateSummary, DirState
      <4>2. CASE dirs[keeper.place][r] # "past" BY <3>3, <4>2, <3>1, <3>2 DEF MigrateSummary
      <4> QED BY <4>1, <4>2
    <3>4. CASE \E r \in AnyRun : DropDetail(r) \/ SweepOrphan(r)
      BY <3>4, <3>1 DEF DropDetail, SweepOrphan, DirState
    <3>5. CASE UNCHANGED dirs BY <3>5
    <3> QED BY <1>4, <3>3, <3>4, <3>5 DEF KeeperStep, Migrate, BeginRetention, ListSummaries, SummariesEnd,
       ReplaceIndex, PublishMarker, DropEnds, RewriteIndex, EndRetention, KeeperStops, DropFails
  <2> QED BY <2>1, <2>2, <1>u
<1>5. CASE MoverStep
  <2>0. UNCHANGED <<phase, home, slipped, dropped>>
    BY <1>5 DEF MoverStep, BeginMove, MoveIndex, ReadIndexes,
       PublishMerged, RemoveMerged, MoveMarker, FinishMove, CutMove, EntryFails, RemoveDir, MoveDir,
       CopyDir, runVars
  <2>1. CASE BeginMove
    <3>1. /\ setting' = "after" /\ overtaken' = {r \in Run : phase[r] \in AtWork}
          /\ UNCHANGED <<dirs, detached>> /\ mover = NoMove
          /\ mover'.task = "entries" /\ mover' # NoMove
          /\ mover'.left = {e \in AnyRun \cup Special : IsThere("before", e)}
      BY <2>1 DEF BeginMove, NoMove, indexVars
    <3>2. ASSUME NEW r \in Some, r \notin slipped \cup dropped, r \notin overtaken' PROVE Followed(r)'
      <4>1. InPlace(r) /\ dirs["after"][r] = "none" /\ detached = {}
        BY <3>1, <3>2, <1>n, <1>i DEF TraceInv, Settled
      <4>2. r \in AnyRun /\ (IsThere("before", r) <=> dirs["before"][r] # "none")
        BY <3>2, Names DEF IsThere
      <4>3. r \in Run => phase[r] \notin AtWork BY <3>1, <3>2
      <4>4. Traced(r) => dirs["before"][r] \in Told /\ r \in mover'.left
        BY <3>1, <4>1, <4>2 DEF InPlace, Told
      <4> QED BY <2>0, <3>1, <4>1, <4>3, <4>4 DEF Followed, InPlace, Traced, AtWork
    <3> QED BY <2>0, <3>1, <3>2 DEF TraceInv, Ongoing
  <2>2. CASE CutMove
    <3>1. mover'.task = "cut" /\ mover' # NoMove BY <2>2 DEF CutMove, NoMove
    <3> QED BY <3>1 DEF TraceInv, Ongoing
  <2>3. CASE FinishMove
    <3>1. /\ UNCHANGED <<dirs, setting, detached, overtaken>> /\ mover.task = "entries"
          /\ mover'.task = "done" /\ mover' # NoMove /\ mover'.left = {} /\ mover'.smooth = mover.smooth
          /\ \A e \in mover.left : (IsThere("after", e) /\ e # "index") \/ ~IsThere("before", e)
      BY <2>3 DEF FinishMove, NoMove, runVars
    <3>2. ASSUME NEW r \in Some, r \notin slipped \cup dropped, r \notin overtaken PROVE Followed(r)'
      <4>1. Followed(r) BY <3>1, <3>2, <1>i DEF TraceInv, Ongoing
      <4>2. \A p \in Place : IsThere(p, r) <=> dirs[p][r] # "none" BY <3>2, Names DEF IsThere
      <4>3. Traced(r) /\ mover.smooth => dirs["after"][r] # "none"
        BY <3>1, <4>1, <4>2, Names DEF Followed, Told
      <4> QED BY <2>0, <3>1, <4>1, <4>3 DEF Followed, Traced
    <3> QED BY <2>0, <3>1, <3>2, <1>i DEF TraceInv, Ongoing
  <2>4. CASE \/ MoveIndex \/ MoveMarker \/ ReadIndexes \/ PublishMerged \/ RemoveMerged
             \/ \E e \in AnyRun \cup Special : EntryFails(e)
    <3>1. /\ UNCHANGED <<dirs, setting, detached, overtaken>> /\ Ongoing /\ mover.task # "none"
          /\ mover'.task \in {"entries", "merge", "unlink"}
      BY <2>4, <1>d DEF MoveIndex, MoveMarker, ReadIndexes, PublishMerged, RemoveMerged, EntryFails, Visit,
         runVars, Ongoing
    <3>2. mover'.smooth => mover.smooth /\ \A r \in AnyRun : r \in mover.left => r \in mover'.left
      BY <2>4, <1>d, Names DEF MoveIndex, MoveMarker, ReadIndexes, PublishMerged, RemoveMerged, EntryFails, Visit
    <3>3. mover' # NoMove BY <3>1 DEF NoMove
    <3>4. ASSUME NEW r \in Some, r \notin slipped \cup dropped, r \notin overtaken PROVE Followed(r)'
      <4>1. Followed(r) BY <3>1, <3>4, <1>i DEF TraceInv
      <4>2. r \in AnyRun BY <3>4, Names
      <4> QED BY <2>0, <3>1, <3>2, <4>1, <4>2 DEF Followed, Traced
    <3> QED BY <2>0, <3>1, <3>3, <3>4, <1>i DEF TraceInv, Ongoing
  <2>5. ASSUME NEW r \in AnyRun, MoveDir(r) PROVE TraceInv'
    <3>1. /\ UNCHANGED <<setting, detached, overtaken>> /\ mover.task = "entries"
          /\ mover' = [mover EXCEPT !.left = @ \ {r}]
          /\ dirs["before"][r] # "none" /\ dirs["after"][r] = "none"
      BY <2>5 DEF MoveDir, Visit, runVars
    <3>2. \A p \in Place, s \in AnyRun : dirs'[p][s] =
            IF s # r THEN dirs[p][s] ELSE IF p = "after" THEN dirs["before"][s] ELSE "none"
      BY <2>5, <1>i, Names DEF MoveDir, Directories, Place
    <3>3. /\ mover'.task = "entries" /\ mover'.smooth = mover.smooth /\ mover'.left = mover.left \ {r}
          /\ mover' # NoMove
      BY <3>1, <1>d DEF NoMove
    <3>4. ASSUME NEW s \in Some, s \notin slipped \cup dropped, s \notin overtaken PROVE Followed(s)'
      <4>1. Followed(s) BY <3>1, <3>4, <1>i DEF TraceInv, Ongoing
      <4>2. s \in AnyRun BY <3>4, Names
      <4>3. CASE s = r
        BY <2>0, <3>1, <3>2, <3>3, <4>1, <4>2, <4>3, Names DEF Followed, Traced, Told, AtWork
      <4>4. CASE s # r
        <5>1. \A p \in Place : dirs'[p][s] = dirs[p][s] BY <3>2, <4>2, <4>4
        <5> QED BY <2>0, <3>1, <3>3, <5>1, <4>1, <4>4, Names DEF Followed, Traced
      <4> QED BY <4>3, <4>4
    <3> QED BY <2>0, <3>1, <3>3, <3>4, <1>i DEF TraceInv, Ongoing
  <2>6. ASSUME NEW r \in AnyRun, CopyDir(r) PROVE TraceInv'
    <3>1. /\ UNCHANGED <<setting, detached, overtaken>> /\ mover.task = "entries"
          /\ mover' = [mover EXCEPT !.task = "remove", !.entry = r]
          /\ dirs["before"][r] # "none" /\ dirs["after"][r] = "none"
      BY <2>6 DEF CopyDir, runVars
    <3>2. \A p \in Place, s \in AnyRun : dirs'[p][s] =
            IF s = r /\ p = "after" THEN dirs["before"][s] ELSE dirs[p][s]
      <4>1. dirs["before"][r] \in DirState BY <1>i, Names DEF Directories
      <4> QED BY <2>6, <4>1, <1>i, Names, DirectoriesChange DEF CopyDir
    <3>3. /\ mover'.task = "remove" /\ mover'.entry = r /\ mover'.smooth = mover.smooth
          /\ mover'.left = mover.left /\ mover' # NoMove
      BY <3>1, <1>d DEF NoMove
    <3>4. ASSUME NEW s \in Some, s \notin slipped \cup dropped, s \notin overtaken PROVE Followed(s)'
      <4>1. Followed(s) BY <3>1, <3>4, <1>i DEF TraceInv, Ongoing
      <4>2. s \in AnyRun BY <3>4, Names
      <4>3. CASE s = r
        BY <2>0, <3>1, <3>2, <3>3, <4>1, <4>2, <4>3, Names DEF Followed, Traced, Told, AtWork
      <4>4. CASE s # r
        <5>1. \A p \in Place : dirs'[p][s] = dirs[p][s] BY <3>2, <4>2, <4>4
        <5> QED BY <2>0, <3>1, <3>3, <5>1, <4>1, <4>4, Names DEF Followed, Traced
      <4> QED BY <4>3, <4>4
    <3> QED BY <2>0, <3>1, <3>3, <3>4, <1>i DEF TraceInv, Ongoing
  <2>7. CASE RemoveDir
    <3>1. /\ UNCHANGED <<setting, overtaken>> /\ mover.task = "remove" /\ mover.entry \in AnyRun
          /\ mover' = [mover EXCEPT !.task = "entries", !.entry = "none", !.left = @ \ {mover.entry}]
          /\ detached' = detached \cup {mover.entry}
      BY <2>7, <1>i DEF RemoveDir, MoverIs
    <3>2. \A p \in Place, s \in AnyRun : dirs'[p][s] =
            IF s = mover.entry /\ p = "before" THEN "none" ELSE dirs[p][s]
      BY <2>7, <3>1, <1>i, Names, DirectoriesChange DEF RemoveDir, DirState
    <3>3. /\ mover'.task = "entries" /\ mover'.smooth = mover.smooth
          /\ mover'.left = mover.left \ {mover.entry} /\ mover' # NoMove
      BY <3>1, <1>d DEF NoMove
    <3>4. ASSUME NEW s \in Some, s \notin slipped \cup dropped, s \notin overtaken PROVE Followed(s)'
      <4>1. Followed(s) BY <3>1, <3>4, <1>i DEF TraceInv, Ongoing
      <4>2. s \in AnyRun BY <3>4, Names
      <4>3. CASE s = mover.entry
        BY <2>0, <3>1, <3>2, <3>3, <4>1, <4>2, <4>3, Names DEF Followed, Traced, Told, AtWork
      <4>4. CASE s # mover.entry
        <5>1. \A p \in Place : dirs'[p][s] = dirs[p][s] BY <3>2, <4>2, <4>4
        <5> QED BY <2>0, <3>1, <3>3, <5>1, <4>1, <4>4, Names DEF Followed, Traced
      <4> QED BY <4>3, <4>4
    <3> QED BY <2>0, <3>1, <3>3, <3>4, <1>i DEF TraceInv, Ongoing
  <2> QED BY <1>5, <2>1, <2>2, <2>3, <2>4, <2>5, <2>6, <2>7 DEF MoverStep
<1> QED BY <1>1, <1>2, <1>3, <1>4, <1>5 DEF HistoryNext

\* Before a move of the logs, and after one that came to its end and began with both places
\* migrated, every run with a trace is shown, whatever migration and retention do meanwhile:
\* the directory of a run is its trace, and no line or summary of the earlier schema is at
\* a place that has the marker.
THEOREM RunsStayListed == HistorySpec => []NoRunVanishes
<1>1. HistoryInv => NoRunVanishes
  <2> SUFFICES ASSUME HistoryInv PROVE NoRunVanishes OBVIOUS
  <2>i. SchemaInv /\ TraceInv BY DEF HistoryInv
  <2>1. ASSUME mover = NoMove, NEW r \in Recorded PROVE Shown(r)
    <3>1. Settled /\ InPlace(r) BY <2>1, <2>i DEF SchemaInv, TraceInv, Recorded
    <3>2. dirs["before"][r] \in Told /\ setting = "before"
      BY <2>1, <3>1, Names DEF InPlace, Traced, Settled, Recorded
    <3>3. Legible("before") BY <3>1 DEF Settled, Current, Legible
    <3> QED BY <3>2, <3>3 DEF Shown
  <2>2. ASSUME mover.task = "done", mover.smooth, NEW r \in Recorded \ overtaken PROVE Shown(r)
    <3>1. Followed(r) /\ setting = "after" /\ mover.left = {} /\ Current("after")
      BY <2>2, <2>i DEF SchemaInv, TraceInv, Recorded, Ongoing
    <3>2. dirs["after"][r] \in Told
      BY <2>2, <3>1, Names DEF Followed, Traced, Recorded
    <3>3. Legible("after") BY <3>1 DEF Current, Legible
    <3> QED BY <3>1, <3>2, <3>3 DEF Shown
  <2> QED BY <2>1, <2>2 DEF NoRunVanishes
<1>2. HistoryInv /\ [HistoryNext]_historyVars => HistoryInv'
  BY RecordsStay, SchemaStays, TraceStays DEF HistoryInv
<1> QED BY <1>1, <1>2, HistoryInitially, PTL DEF HistorySpec

=============================================================================
