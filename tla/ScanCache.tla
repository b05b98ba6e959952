------------------------------ MODULE ScanCache ------------------------------
(* The scan of one root, and the two tables it keeps between runs to read less:        *)
(*   - the hash cache, (path, size, reported mtime) -> digest;                         *)
(*   - the mtime corrections, path -> (mtime on disk, mtime meant), for a file system  *)
(*     that cannot hold the mtime a copy was given.                                    *)
(* A scan loads both tables, walks the tree, reads the files it finds no digest for,   *)
(* and publishes the tables again. People write, an Apply of another process publishes *)
(* files and records corrections, and a volume is replaced, while it does.             *)
(*   pipeline/scan/{state,model}.rs, local/*, vfs/*   the two lanes of a scan          *)
(*   store/{hashcache,mtimefix}.rs, scan_state/*      the tables                       *)
EXTENDS Naturals, FiniteSets, Functions

CONSTANTS
  Item,          \* the files
  Below,         \* those inside the one folder of the root
  Bytes,         \* contents
  Length,        \* content -> size
  SampleMin,     \* SAMPLE_MIN: smaller files are always read whole
  Meant,         \* content -> the mtime its writer gave it on the other side
  Held,          \* mtime -> what this file system keeps of it
  Volumes,       \* what may be mounted at the root
  Untracked,     \* volumes without an identity worth binding a table to
  Shelf,         \* volume -> what is on it at first
  Lanes,         \* "local" and "vfs"
  Ranged,        \* the backend reads ranges
  Options,       \* the ScanOptions of a run
  Allowances     \* how many edits, publications, scans and troubles a behaviour has

ASSUME ScanAssumption ==
  /\ Below \subseteq Item /\ DOMAIN Meant \subseteq Bytes /\ Untracked \subseteq Volumes
  /\ Length \in [Bytes -> Nat] /\ SampleMin \in Nat /\ Lanes \subseteq {"local", "vfs"} /\ Ranged \in BOOLEAN
  /\ Lanes # {} /\ {"gone", "none", "torn"} \cap Bytes = {}
  /\ Options \subseteq [hash : BOOLEAN, sampled : BOOLEAN, cached : BOOLEAN, domain : SUBSET Item]
  /\ Allowances \subseteq [{"edits", "published", "scans", "troubles"} -> Nat]

(* An edit gets an mtime of its own, later than Dawn; all others are not.               *)
Dawn == 10
File == [of : Bytes \cup {"gone"}, raw : Nat, meant : Nat, id : {0, 1}]

(* The rule that size and mtime rest on: contents of one size that are given the same  *)
(* mtime are the same. What is on the shelves has mtimes the file system can hold.     *)
ASSUME MtimeAssumption ==
  /\ \A c \in DOMAIN Meant : Meant[c] \in 0..Dawn /\ Held[Meant[c]] \in 0..Dawn
  /\ \A c, d \in DOMAIN Meant : Meant[c] = Meant[d] /\ Length[c] = Length[d] => c = d
  /\ Shelf \in [Volumes -> [Item -> File]]
  /\ \A v \in Volumes, p \in Item :
       LET o == Shelf[v][p] IN
       o.of # "gone" =>
         /\ o.raw = o.meant /\ o.raw <= Dawn /\ Held[o.raw] = o.raw
         /\ \A c \in DOMAIN Meant : o.raw = Meant[c] /\ Length[o.of] = Length[c] => o.of = c

VARIABLES
  lane,       \* how the root is reached
  volume,     \* what is mounted there
  disks,      \* the files of each volume: contents, mtime on disk, mtime meant, identity
  cacheFile, fixFile,  \* the two tables as they are stored
  fixes,      \* what the Apply has not recorded yet
  scan,       \* the scan: what it loaded, found and has open
  had,        \* auxiliary: what each file was since the scan began
  blurred,    \* auxiliary: files that a scan took for other ones
  budget        \* what may still happen

worldVars == <<lane, volume, disks>>
tableVars == <<cacheFile, fixFile>>
scanVars  == <<worldVars, tableVars, fixes, scan, had, blurred, budget>>

Nobody == [of |-> "gone", raw |-> 0, meant |-> 0, id |-> 0]
NoDigest == [of |-> "none", made |-> "none"]
mounted == disks[volume]
Absent(p) == mounted[p].of = "gone"
SizeOf(o) == Length[o.of]

Spend(what) == budget[what] > 0 /\ budget' = [budget EXCEPT ![what] = @ - 1]

(* Rows of one table over those of another.                                            *)
Over(rows, below) ==
  [p \in DOMAIN rows \cup DOMAIN below |-> IF p \in DOMAIN rows THEN rows[p] ELSE below[p]]

Table(rows) == [is |-> "ours", bound |-> volume, rows |-> rows]
Missing == [is |-> "missing", bound |-> "", rows |-> <<>>]

(* What a table that is of this version and bound to this volume holds; any other is   *)
(* read as an empty one.                                                               *)
RowsOf(file) ==
  IF volume \notin Untracked /\ file.is = "ours" /\ file.bound = volume THEN file.rows ELSE <<>>

NeedsRebuild(file) == file.is = "broken" \/ (file.is = "ours" /\ file.bound # volume)
RewriteAllowed(file) == file.is # "newer"
Rewritten(file, rows) == IF RewriteAllowed(file) /\ volume \notin Untracked THEN Table(rows) ELSE file

ScanInit ==
  /\ lane \in Lanes
  /\ volume \in Volumes
  /\ disks = Shelf
  /\ cacheFile = Missing /\ fixFile = Missing
  /\ fixes = <<>>
  /\ scan = [at |-> "idle"]
  /\ had = [p \in Item |-> {}]
  /\ blurred = {}
  /\ budget \in Allowances

Opened(p) == scan.at = "read" /\ p \in DOMAIN scan.open

(* The tier that runs: a backend without ranged reads cannot sample.                   *)
Tier(opt) == opt.sampled /\ (lane = "local" \/ Ranged)
InWindows(opt, size) == Tier(opt) /\ size >= SampleMin

-------------------------------------------------------------------------------
(* The world. *)

(* p is o from now on; a reader that has the old file open may see both.               *)
Becomes(p, o, inPlace) ==
  /\ disks' = [disks EXCEPT ![volume][p] = o]
  /\ had' = [had EXCEPT ![p] = @ \cup {o.of}]
  /\ scan' = IF ~Opened(p) THEN scan
             ELSE IF inPlace
               THEN [scan EXCEPT !.open[p] = [@ EXCEPT !.raw = o.raw, !.size = SizeOf(o), !.of = "torn"]]
             ELSE IF lane = "vfs" /\ InWindows(scan.opt, scan.found[p].size)
               THEN [scan EXCEPT !.open[p].of = "torn"]
             ELSE scan

(* A person writes; the clock has moved on, so the mtime is one nobody has used.       *)
Edit(p, c, inPlace) ==
  LET now == Dawn + 2 * budget.edits IN
  /\ Spend("edits")
  /\ inPlace => ~Absent(p)
  /\ Becomes(p, [of |-> c, raw |-> now, meant |-> now, id |-> IF inPlace THEN mounted[p].id ELSE 1 - mounted[p].id],
             inPlace)
  /\ UNCHANGED <<lane, volume, tableVars, fixes, blurred>>

Erase(p) ==
  /\ ~Absent(p) /\ Spend("edits")
  /\ Becomes(p, Nobody, FALSE)
  /\ UNCHANGED <<lane, volume, tableVars, fixes, blurred>>

Swap(v) ==
  /\ lane = "local" /\ v # volume /\ scan.at \in {"idle", "done"} /\ fixes = <<>>
  /\ Spend("edits")
  /\ volume' = v
  /\ had' = [p \in Item |-> {}] /\ scan' = [at |-> "idle"]
  /\ UNCHANGED <<lane, disks, tableVars, fixes, blurred>>

(* Another release, or damage, leaves a table this one does not read.                  *)
Spoil(kind) ==
  /\ Spend("troubles")
  /\ \/ cacheFile.is = "ours" /\ cacheFile' = [cacheFile EXCEPT !.is = kind] /\ UNCHANGED fixFile
     \/ fixFile.is = "ours" /\ fixFile' = [fixFile EXCEPT !.is = kind] /\ UNCHANGED cacheFile
  /\ UNCHANGED <<worldVars, fixes, scan, had, blurred>>

SameFile(o, p) ==
  LET f == scan.found[p] IN
  /\ o.raw = f.raw
  /\ lane = "local" => o.id = f.id

(* A scan that has met p and not yet finished will not see that p is now o.            *)
TakenFor(o, p) ==
  /\ scan.at \in {"folder", "read"} /\ p \in DOMAIN scan.found
  /\ SizeOf(o) = scan.found[p].size /\ SameFile(o, p)

(* An Apply publishes c at p with the mtime it has on the other side, and remembers    *)
(* what the file system made of that mtime, if it made anything of it.                 *)
Install(p, c) ==
  LET o == [of |-> c, raw |-> Held[Meant[c]], meant |-> Meant[c], id |-> 1 - mounted[p].id] IN
  /\ Spend("published")
  /\ Becomes(p, o, FALSE)
  /\ fixes' = IF o.raw = o.meant THEN fixes
            ELSE Over([q \in {p} |-> [ondisk |-> o.raw, intended |-> o.meant]], fixes)
  /\ blurred' = IF TakenFor(o, p) THEN blurred \cup {p} ELSE blurred
  /\ UNCHANGED <<lane, volume, tableVars>>

RecordFixes ==
  /\ fixes # <<>>
  /\ fixFile' = Rewritten(fixFile, Over(fixes, RowsOf(fixFile)))
  /\ fixes' = <<>>
  /\ UNCHANGED <<worldVars, cacheFile, scan, had, blurred, budget>>

(* The run dies before its wrap-up, loses its lease, or cannot write the table.        *)
FixesAreLost ==
  /\ fixes # <<>> /\ Spend("troubles")
  /\ fixes' = <<>>
  /\ UNCHANGED <<worldVars, tableVars, scan, had, blurred>>

-------------------------------------------------------------------------------
(* The scan. *)

ScanBegins(opt) ==
  /\ scan.at \in {"idle", "done"} /\ Spend("scans")
  /\ scan' = [at |-> "root", opt |-> opt, cache |-> IF opt.hash THEN RowsOf(cacheFile) ELSE <<>>,
              fixes |-> RowsOf(fixFile), matched |-> {}, found |-> <<>>, unread |-> {},
              errors |-> FALSE, open |-> <<>>]
  /\ had' = [p \in Item |-> {mounted[p].of}]
  /\ UNCHANGED <<worldVars, tableVars, fixes, blurred>>

(* resolve_mtime: a correction holds while the disk shows the mtime it was made for.      *)
Corrected(p) == p \in DOMAIN scan.fixes /\ scan.fixes[p].ondisk = mounted[p].raw
ReportedMtime(p) == IF Corrected(p) THEN scan.fixes[p].intended ELSE mounted[p].raw

ReusableCachedDigestOfACorrectedFile(p) ==
  LET row == scan.cache[p]
      reusable == /\ scan.opt.hash /\ scan.opt.cached
                  /\ p \in DOMAIN scan.cache
                  /\ row.size = SizeOf(mounted[p]) /\ row.mtime = ReportedMtime(p)
                  /\ (row.label = "sampled") = InWindows(scan.opt, SizeOf(mounted[p]))
  IN IF reusable THEN row.digest ELSE NoDigest

ReusableCachedDigest(p) ==
  LET row == scan.cache[p]
      reusable == /\ scan.opt.hash /\ scan.opt.cached /\ ~Corrected(p)
                  /\ p \in DOMAIN scan.cache
                  /\ row.size = SizeOf(mounted[p]) /\ row.mtime = ReportedMtime(p)
                  /\ (row.label = "sampled") = InWindows(scan.opt, SizeOf(mounted[p]))
  IN IF reusable THEN row.digest ELSE NoDigest

PrepareFile(p) ==
  [size |-> SizeOf(mounted[p]), raw |-> mounted[p].raw, mtime |-> ReportedMtime(p), id |-> mounted[p].id,
   digest |-> ReusableCachedDigest(p), failed |-> FALSE]

(* The files of a listing: those there, inside the filter and readable.                *)
Observe(listed, next) ==
  LET seen == {p \in listed \cap scan.opt.domain : ~Absent(p)} IN
  /\ scan' = [scan EXCEPT !.at = next, !.found = Over([p \in seen |-> PrepareFile(p)], @),
                         !.matched = @ \cup {p \in seen : Corrected(p)}]
  /\ blurred' = blurred \cup {p \in seen : scan.opt.hash /\ ~Corrected(p) /\ mounted[p].raw # mounted[p].meant}

ListRoot ==
  /\ scan.at = "root"
  /\ \/ \E p \in Below : ~Absent(p) /\ Observe(Item \ Below, "folder")
     \/ /\ \A p \in Below : Absent(p)
        /\ \E next \in {"folder", "read"} : Observe(Item \ Below, next)
  /\ UNCHANGED <<worldVars, tableVars, fixes, had, budget>>

(* An unreadable root is no evidence at all: the scan fails.                           *)
RootIsUnreadable ==
  /\ scan.at = "root" /\ Spend("troubles")
  /\ scan' = [at |-> "idle"]
  /\ UNCHANGED <<worldVars, tableVars, fixes, had, blurred>>

ListFolder ==
  /\ scan.at = "folder"
  /\ Observe(Below, "read")
  /\ UNCHANGED <<worldVars, tableVars, fixes, had, budget>>

(* The folder was listed and is gone now: a walk error, and its files are absent.      *)
FolderVanished ==
  /\ scan.at = "folder" /\ \A p \in Below : Absent(p)
  /\ scan' = [scan EXCEPT !.at = "read", !.errors = TRUE]
  /\ UNCHANGED <<worldVars, tableVars, fixes, had, blurred, budget>>

FolderIsUnreadableAndSkipped ==
  /\ scan.at = "folder" /\ Spend("troubles")
  /\ scan' = [scan EXCEPT !.at = "read", !.errors = TRUE]
  /\ UNCHANGED <<worldVars, tableVars, fixes, had, blurred>>

(* The folder may be full, but this process is not let in: its files are not absent.   *)
FolderIsUnreadable ==
  /\ scan.at = "folder" /\ Spend("troubles")
  /\ scan' = [scan EXCEPT !.at = "read", !.unread = @ \cup Below]
  /\ UNCHANGED <<worldVars, tableVars, fixes, had, blurred>>

Pending(p) ==
  /\ scan.at = "read" /\ scan.opt.hash
  /\ p \in DOMAIN scan.found /\ scan.found[p].digest = NoDigest /\ ~scan.found[p].failed

Failed(p) == [scan EXCEPT !.found[p].failed = TRUE, !.open = Restrict(@, DOMAIN @ \ {p})]

OpenHandle(o) == [of |-> o.of, raw |-> o.raw, id |-> o.id, size |-> SizeOf(o)]

OpenFile(p) ==
  /\ Pending(p) /\ ~Opened(p)
  /\ scan' = IF Absent(p) THEN Failed(p)
             ELSE [scan EXCEPT !.open = Over([q \in {p} |-> OpenHandle(mounted[p])], @)]
  /\ UNCHANGED <<worldVars, tableVars, fixes, had, blurred, budget>>

(* The handle the bytes came from and the name both still show what the walk found. A  *)
(* torn read of a file written in place has its new mtime. The other lane has the name *)
(* only.                                                                               *)
Unchanged(p) ==
  /\ ~Absent(p) /\ SizeOf(mounted[p]) = scan.found[p].size /\ SameFile(mounted[p], p)
  /\ lane = "local" => scan.open[p].size = scan.found[p].size /\ SameFile(scan.open[p], p)

(* Three windows of a big file in the sampled tier, all of it otherwise.               *)
MadeBy(p) == IF InWindows(scan.opt, scan.found[p].size) THEN "sampled" ELSE "full"

FinishFile(p) ==
  /\ Opened(p)
  /\ scan' = IF Unchanged(p)
             THEN [scan EXCEPT
                     !.found[p].digest = [of |-> scan.open[p].of, made |-> MadeBy(p)],
                     !.open = Restrict(@, DOMAIN @ \ {p})]
             ELSE Failed(p)
  /\ UNCHANGED <<worldVars, tableVars, fixes, had, blurred, budget>>

(* A cancelled scan reports nothing and leaves the tables alone.                       *)
CancelScan ==
  /\ scan.at = "read" /\ Spend("troubles")
  /\ scan' = [at |-> "idle"]
  /\ UNCHANGED <<worldVars, tableVars, fixes, had, blurred>>

(* into_entry: the tier that ran names the digest, whoever made it.                    *)
Label(p) ==
  LET f == scan.found[p] IN
  IF f.failed THEN "unreadable"
  ELSE IF f.digest = NoDigest THEN "size and mtime"
  ELSE IF InWindows(scan.opt, f.size) THEN "sampled" ELSE "full"

Complete == ~scan.errors /\ scan.unread = {}

(* Rows of paths the filter leaves out, which a complete scan keeps too.                 *)
RetainAbsent ==
  IF Complete THEN (DOMAIN scan.cache \cup DOMAIN scan.fixes) \ scan.opt.domain ELSE {}

Row(p) == [size |-> scan.found[p].size, mtime |-> scan.found[p].mtime,
           digest |-> scan.found[p].digest, label |-> Label(p)]

MergedRows ==
  LET prior   == IF Complete THEN Restrict(RowsOf(cacheFile), RetainAbsent \cap DOMAIN RowsOf(cacheFile))
                 ELSE RowsOf(cacheFile)
      seen    == DOMAIN scan.found
      hashed  == {p \in seen : scan.found[p].digest # NoDigest}
  IN Over([p \in hashed |-> Row(p)], Restrict(prior, DOMAIN prior \ seen))

SaveCache ==
  /\ scan.at = "read" /\ \A p \in Item : ~Pending(p)
  /\ \/ cacheFile' = (IF scan.opt.hash THEN Rewritten(cacheFile, MergedRows) ELSE cacheFile) /\ UNCHANGED budget
     \/ Spend("troubles") /\ UNCHANGED cacheFile   \* the write fails
  /\ scan' = [scan EXCEPT !.at = "reconcile"]
  /\ UNCHANGED <<worldVars, fixFile, fixes, had, blurred>>

KeepsCorrectionIfSeen(p) ==
  IF p \in DOMAIN scan.found THEN p \in scan.matched ELSE p \in RetainAbsent

KeepsCorrection(p) ==
  IF p \in DOMAIN scan.found THEN p \in scan.matched
  ELSE Complete => p \in RetainAbsent

(* reconcile_bound_file: what the scan loaded goes back, less what it disproved. The   *)
(* table itself is not read again.                                                     *)
ReconcileFixes ==
  LET kept == {p \in DOMAIN scan.fixes : KeepsCorrection(p)} IN
  /\ scan.at = "reconcile"
  /\ fixFile' = IF kept # DOMAIN scan.fixes \/ NeedsRebuild(fixFile)
                   \/ (fixFile.is = "missing" /\ scan.fixes # <<>>)
                THEN Rewritten(fixFile, Restrict(scan.fixes, kept)) ELSE fixFile
  /\ scan' = [scan EXCEPT !.at = "done"]
  /\ UNCHANGED <<worldVars, cacheFile, fixes, had, blurred, budget>>

ScanNext ==
  \/ \E p \in Item, c \in Bytes, inPlace \in BOOLEAN : Edit(p, c, inPlace)
  \/ \E p \in Item : Erase(p)
  \/ \E v \in Volumes : Swap(v)
  \/ \E kind \in {"newer", "broken"} : Spoil(kind)
  \/ \E p \in Item, c \in DOMAIN Meant : Install(p, c)
  \/ RecordFixes
  \/ FixesAreLost
  \/ \E opt \in Options : ScanBegins(opt)
  \/ ListRoot
  \/ RootIsUnreadable
  \/ ListFolder
  \/ FolderVanished
  \/ FolderIsUnreadable
  \/ \E p \in Item : OpenFile(p)
  \/ \E p \in Item : FinishFile(p)
  \/ CancelScan
  \/ SaveCache
  \/ ReconcileFixes

ScanSpec == ScanInit /\ [][ScanNext]_scanVars

-------------------------------------------------------------------------------
(* Properties. *)

Digest == [of : Bytes \cup {"none", "torn"}, made : {"none", "full", "sampled"}]
Labels == {"unreadable", "size and mtime", "sampled", "full"}
CacheRow == [size : Nat, mtime : Nat, digest : Digest, label : Labels]
Fix == [ondisk : Nat, intended : Nat]
Meeting == [size : Nat, raw : Nat, mtime : Nat, id : {0, 1}, digest : Digest, failed : BOOLEAN]
Handle == [of : Bytes \cup {"torn"}, raw : Nat, id : {0, 1}, size : Nat]
Rows(f, S) == DOMAIN f \subseteq Item /\ \A p \in DOMAIN f : f[p] \in S
IsTable(file, S) ==
  /\ DOMAIN file = {"is", "bound", "rows"} /\ Rows(file.rows, S)
  /\ file.is \in {"missing", "ours", "newer", "broken"} /\ file.bound \in Volumes \cup {""}
IsScan ==
  /\ DOMAIN scan = {"at", "opt", "cache", "fixes", "matched", "found", "unread", "errors", "open"}
  /\ scan.at \in {"root", "folder", "read", "reconcile", "done"} /\ scan.opt \in Options
  /\ Rows(scan.cache, CacheRow) /\ Rows(scan.fixes, Fix) /\ Rows(scan.found, Meeting)
  /\ Rows(scan.open, Handle) /\ scan.matched \subseteq Item /\ scan.unread \subseteq Item
  /\ scan.errors \in BOOLEAN

(* Type invariant.                                                                     *)
ScanTypeOK ==
  /\ lane \in Lanes /\ volume \in Volumes /\ disks \in [Volumes -> [Item -> File]]
  /\ IsTable(cacheFile, CacheRow) /\ IsTable(fixFile, Fix) /\ Rows(fixes, Fix)
  /\ IsScan \/ scan = [at |-> "idle"]
  /\ had \in [Item -> SUBSET (Bytes \cup {"gone"})] /\ blurred \subseteq Item
  /\ budget \in [{"edits", "published", "scans", "troubles"} -> Nat]

(* A digest a scan reports is of bytes the file had while the scan ran, whatever was   *)
(* written, replaced or remounted meanwhile or since the row it came from was saved.   *)
(* Excepted are the files a scan once took for other ones: because it saw an mtime the *)
(* file system had changed, with the correction lost, or because an Apply replaced what *)
(* it had met by a file of the same size and mtime (state.rs, hashing/reader.rs,       *)
(* hashcache.rs).                                                                      *)
DigestIsTrue ==
  scan.at = "done" =>
    \A p \in DOMAIN scan.found \ blurred :
      scan.found[p].digest # NoDigest => scan.found[p].digest.of \in had[p]

(* A file the job covers and the table neither lists nor leaves out was really away at *)
(* some moment of the scan: an error is never taken for a deletion (walk.rs,           *)
(* vfs/discovery.rs).                                                                  *)
AbsentWasAbsent ==
  scan.at = "done" =>
    \A p \in scan.opt.domain \ (DOMAIN scan.found \cup scan.unread) : "gone" \in had[p]

(* A correction goes only when the scan saw the file with another mtime, or found it   *)
(* deleted, or when it was recorded behind the back of the scan (mtimefix.rs           *)
(* reconcile_bound_file).                                                              *)
CorrectionsOutliveTheScan ==
  [][ReconcileFixes =>
       \A p \in DOMAIN RowsOf(fixFile) \ DOMAIN fixFile'.rows :
         \/ p \notin DOMAIN scan.fixes
         \/ p \in DOMAIN scan.found /\ scan.found[p].raw # scan.fixes[p].ondisk
         \/ p \in scan.opt.domain /\ "gone" \in had[p]]_scanVars
===============================================================================
