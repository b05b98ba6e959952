---------------------------- MODULE VersionStore ----------------------------
(***************************************************************************)
(* The version history a root keeps of what SyncDash displaces             *)
(* (services/store/version): an apply that preserves originals and indexes *)
(* them when it ends, the pruning of old versions, and the restore         *)
(* transaction, with crashes between any two calls.                        *)
(*                                                                         *)
(* All three hold the root lock, so one of them runs at a time; people     *)
(* edit both roots between any two steps. An edit replaces a file (an      *)
(* editor's save), it does not rewrite it under an open handle. A version  *)
(* carries the wall-clock time of the machine that wrote it, and the       *)
(* machines that share a root need not agree on it. The times of files,    *)
(* modes and sizes are left out; a content stands for its full digest.     *)
(***************************************************************************)
EXTENDS Naturals, FiniteSets

CONSTANTS
  File,        \* the paths of the root
  Bytes,       \* what a path can hold
  Large,       \* contents of a size reverse deltas are made for
  Gone,        \* nothing there
  MaxVersions, \* bound: runs that preserve something
  MaxKeep,     \* the versions a prune may be told to keep
  Stamps,      \* bound: what the clocks of the machines can say
  MaxEdits, MaxTroubles  \* bounds on edits by people, on failed calls and crashes

ASSUME VersionAssumption ==
  /\ File # {} /\ Large \subseteq Bytes /\ Gone \notin Bytes
  /\ MaxVersions \in Nat /\ MaxKeep \in Nat /\ Stamps \subseteq Nat
  /\ MaxEdits \in Nat /\ MaxTroubles \in Nat

Version == 1 .. MaxVersions

\* VersionPayloadKind: the whole file, or the blob that makes it from a base.
Whole(c) == [kind |-> "whole", old |-> c, base |-> Gone]
Delta(c, b) == [kind |-> "rdelta", old |-> c, base |-> b]
Payload == [kind : {"whole", "rdelta"}, old : Bytes, base : Bytes \cup {Gone}]
NoPayload == [kind |-> "none", old |-> Gone, base |-> Gone]
Unwritten == [p \in File |-> NoPayload]

VARIABLES
  here,      \* what the root holds
  there,     \* what the other root holds, which an apply copies from
  want,      \* the contents the plan promised when the apply began
  payload,   \* payload files of each version's directory
  manifest,  \* the entries of manifest.json, or {} while there is none
  index,     \* the versions index.jsonl lists
  begun,     \* how many version directories were ever made
  stamp,     \* ts_ms of each version, by the clock of its machine
  writer,    \* the version the apply writes, 0 before it displaced anything
  entries,   \* VersionWriter::entries
  unindexed, \* VersionWriter::has_unindexed_payload
  stage,     \* where the mutator is
  work,      \* the paths or versions it has still to do
  at,        \* the path it is at
  staged,    \* the content of its staged file
  session,   \* what this restore has moved to its retention directory
  retained,  \* retained_destination_count
  attic,     \* <<p, c>> in the retention directories of earlier restores
  broken,    \* history: paths where the base of a delta was not what came
  replaced,  \* history: paths people have changed in this root
  skewed,    \* history: a version got a time before that of one in the index
  edits, troubles

treeVars == <<here, there, edits, replaced>>
storeVars == <<payload, manifest, index, begun, stamp, skewed>>
writerVars == <<writer, entries, unindexed>>
restoreVars == <<session, retained, attic>>
versionVars == <<here, there, want, payload, manifest, index, begun, stamp, skewed,
                 writer, entries, unindexed, stage, work, at, staged, session, retained, attic, broken,
                 replaced, edits, troubles>>

Nowhere == CHOOSE p \in File : TRUE
NothingKept == [p \in File |-> Gone]

VersionInit ==
  /\ here \in [File -> Bytes \cup {Gone}]
  /\ there = here
  /\ want = NothingKept
  /\ payload = [v \in Version |-> Unwritten]
  /\ manifest = [v \in Version |-> {}]
  /\ index = {}
  /\ begun = 0
  /\ stamp = [v \in Version |-> 0]
  /\ skewed = FALSE
  /\ writer = 0
  /\ entries = {}
  /\ unindexed = FALSE
  /\ stage = "idle"
  /\ work = {}
  /\ at = Nowhere
  /\ staged = Gone
  /\ session = NothingKept
  /\ retained = 0
  /\ attic = {}
  /\ broken = {}
  /\ replaced = {}
  /\ edits = 0
  /\ troubles = 0

To(from, to) == stage = from /\ stage' = to
Trouble == troubles < MaxTroubles /\ troubles' = troubles + 1

\* The locals of an operation end with it.
LeaveOp == at' = Nowhere /\ staged' = Gone

-----------------------------------------------------------------------------
(* People.                                                                 *)

\* A base that is replaced by hand leaves its deltas without a base.
SaveHere(p, c) ==
  /\ edits < MaxEdits
  /\ here[p] # c
  /\ here' = [here EXCEPT ![p] = c]
  /\ edits' = edits + 1
  /\ replaced' = replaced \cup {p}
  /\ UNCHANGED <<there, want, storeVars, writerVars, stage, work, at, staged,
                 restoreVars, broken, troubles>>

SaveThere(p, c) ==
  /\ edits < MaxEdits
  /\ there[p] # c
  /\ there' = [there EXCEPT ![p] = c]
  /\ edits' = edits + 1
  /\ UNCHANGED <<here, replaced, want, storeVars, writerVars, stage, work, at, staged,
                 restoreVars, broken, troubles>>

-----------------------------------------------------------------------------
(* Apply: every differing path is updated from the other root or deleted.  *)

BeginApply ==
  /\ To("idle", "apply")
  /\ work' = {p \in File : here[p] # there[p]}
  /\ work' # {}
  /\ want' = there
  /\ writer' = 0 /\ entries' = {} /\ unindexed' = FALSE
  /\ UNCHANGED <<treeVars, storeVars, at, staged, restoreVars, broken, troubles>>

\* copy_file streams the other root's file to a staged one and compares it with the
\* plan; only an existing file has to be preserved. A deletion stages nothing.
StreamNew(p) ==
  /\ p \in work
  /\ there[p] = want[p] \/ want[p] = Gone
  /\ stage = "apply"
  /\ stage' = IF here[p] # Gone THEN "keep" ELSE IF want[p] # Gone THEN "publish" ELSE "done"
  /\ at' = p
  /\ staged' = want[p]
  /\ UNCHANGED <<treeVars, want, storeVars, writerVars, work, restoreVars, broken, troubles>>

SourceChanged(p) ==
  /\ p \in work
  /\ stage = "apply"
  /\ there[p] # want[p] /\ want[p] # Gone
  /\ work' = work \ {p}
  /\ UNCHANGED <<treeVars, want, storeVars, writerVars, stage, at, staged,
                 restoreVars, broken, troubles>>

\* VersionWriter::begin, for the first file a run displaces.
OpenVersion ==
  /\ stage = "keep" /\ writer = 0
  /\ begun < MaxVersions
  /\ begun' = begun + 1
  /\ writer' = begun + 1
  /\ UNCHANGED <<treeVars, want, payload, manifest, index, stamp, skewed, entries, unindexed,
                 stage, work, at, staged, restoreVars, broken, troubles>>

Eligible == here[at] \in Large /\ staged # Gone /\ there[at] \in Bytes

\* The reverse-delta lane: the base is the other root's file as it is now.
KeepDelta ==
  /\ To("keep", "remove")
  /\ writer # 0 /\ ~unindexed
  /\ here[at] # Gone /\ Eligible
  /\ payload' = [payload EXCEPT ![writer][at] = Delta(here[at], there[at])]
  /\ unindexed' = TRUE
  /\ UNCHANGED <<treeVars, want, manifest, index, begun, stamp, skewed, writer, entries, work,
                 at, staged, restoreVars, broken, troubles>>

\* remove_open_file takes away the file the delta was made of, no other.
RemoveOriginal ==
  /\ stage = "remove"
  /\ here[at] = payload[writer][at].old
  /\ here' = [here EXCEPT ![at] = Gone]
  /\ entries' = entries \cup {at}
  /\ unindexed' = FALSE
  /\ broken' = IF payload[writer][at].base # staged THEN broken \cup {at} ELSE broken
  /\ stage' = "publish"
  /\ UNCHANGED <<there, want, storeVars, writer, work, at, staged, restoreVars, edits, replaced, troubles>>

\* An update asks the other root for its file in both lanes.
SourceIsThere == staged # Gone => there[at] # Gone

KeepWhole ==
  /\ To("keep", "record")
  /\ writer # 0 /\ ~unindexed
  /\ here[at] # Gone /\ SourceIsThere /\ ~Eligible
  /\ payload' = [payload EXCEPT ![writer][at] = Whole(here[at])]
  /\ here' = [here EXCEPT ![at] = Gone]
  /\ unindexed' = TRUE
  /\ UNCHANGED <<there, want, manifest, index, begun, stamp, skewed, writer, entries, work, at,
                 staged, restoreVars, broken, edits, replaced, troubles>>

RecordWhole ==
  /\ stage = "record"
  /\ entries' = entries \cup {at}
  /\ unindexed' = FALSE
  /\ stage' = IF staged = Gone THEN "done" ELSE "publish"
  /\ UNCHANGED <<treeVars, want, storeVars, writer, work, at, staged, restoreVars,
                 broken, troubles>>

PublishNew ==
  /\ stage = "publish"
  /\ here[at] = Gone
  /\ here' = [here EXCEPT ![at] = staged]
  /\ stage' = "done"
  /\ UNCHANGED <<there, want, storeVars, writerVars, work, at, staged, restoreVars,
                 broken, edits, replaced, troubles>>

OperationDone ==
  /\ To("done", "apply")
  /\ work' = work \ {at}
  /\ LeaveOp
  /\ UNCHANGED <<treeVars, want, storeVars, writerVars, restoreVars,
                 broken, troubles>>

\* The call a step makes cannot succeed in this state.
Refused ==
  \/ /\ stage = "keep"
     /\ \/ here[at] = Gone \/ ~SourceIsThere
        \/ writer = 0 /\ begun = MaxVersions
        \/ writer # 0 /\ unindexed
  \/ stage = "remove" /\ here[at] # payload[writer][at].old
  \/ stage = "publish" /\ here[at] # Gone

BaseMissing ==
  IF stage = "publish" /\ writer # 0 /\ payload[writer][at].kind = "rdelta"
  THEN {at} ELSE {}

\* An operation that fails leaves what it did: a displaced payload that has no entry
\* stays unindexed, and a delta whose new content never came has no base.
OperationFails ==
  /\ stage \in {"keep", "remove", "record", "publish"}
  /\ \/ Refused /\ UNCHANGED troubles
     \/ Trouble
  /\ stage' = "apply"
  /\ work' = work \ {at}
  /\ broken' = broken \cup BaseMissing
  /\ LeaveOp
  /\ UNCHANGED <<treeVars, want, storeVars, writerVars, restoreVars>>

\* The user cancels: what is left of the plan is not begun.
CancelApply ==
  /\ stage = "apply" /\ work # {}
  /\ work' = {}
  /\ UNCHANGED <<treeVars, want, storeVars, writerVars, stage, at, staged, restoreVars,
                 broken, troubles>>

(***************************************************************************)
(* VersionWriter::finish: a version without entries is removed, one with   *)
(* an unindexed payload is left as it is, and any other gets its manifest  *)
(* (and plan.jsonl) before the index names it.                             *)
(***************************************************************************)
FinishEmpty ==
  /\ stage = "apply" /\ work = {} /\ entries = {}
  /\ payload' = IF writer = 0 \/ unindexed THEN payload
                ELSE [payload EXCEPT ![writer] = Unwritten]
  /\ writer' = 0 /\ unindexed' = FALSE
  /\ stage' = "idle"
  /\ want' = NothingKept
  /\ UNCHANGED <<treeVars, manifest, index, begun, stamp, skewed, entries, work, at, staged,
                 restoreVars, broken, troubles>>

FinishUnindexed ==
  /\ stage = "apply" /\ work = {} /\ entries # {} /\ unindexed
  /\ writer' = 0 /\ entries' = {} /\ unindexed' = FALSE
  /\ stage' = "idle"
  /\ want' = NothingKept
  /\ UNCHANGED <<treeVars, storeVars, work, at, staged, restoreVars, broken, troubles>>

WriteManifest ==
  /\ stage = "apply" /\ work = {} /\ entries # {} /\ ~unindexed
  /\ manifest' = [manifest EXCEPT ![writer] = entries]
  /\ \E now \in Stamps :
       /\ stamp' = [stamp EXCEPT ![writer] = now]
       /\ skewed' = (skewed \/ \E v \in index : now < stamp[v])
  /\ stage' = "index"
  /\ UNCHANGED <<treeVars, want, payload, index, begun, writerVars, work, at, staged,
                 restoreVars, broken, troubles>>

WriteIndex ==
  /\ To("index", "idle")
  /\ index' = index \cup {writer}
  /\ writer' = 0 /\ entries' = {}
  /\ want' = NothingKept
  /\ UNCHANGED <<treeVars, payload, manifest, begun, stamp, skewed, unindexed, work, at, staged,
                 restoreVars, broken, troubles>>

-----------------------------------------------------------------------------
(* Prune: the index forgets the oldest versions, then their directories    *)
(* go one by one.                                                          *)

\* sort_by_key is stable: versions of one time stay in the order of the index.
Before(u, v) == stamp[u] < stamp[v] \/ (stamp[u] = stamp[v] /\ u < v)

\* (Mutant: the newest versions go.)
NewestReversed(n) == {v \in index : Cardinality({u \in index : ~Before(v, u)}) <= n}

Newest(n) == {v \in index : Cardinality({u \in index : ~Before(u, v)}) <= n}

\* (Mutant: the directories go before the index forgets them.)
PruneIndexLate(keep) ==
  /\ To("idle", "prune")
  /\ work' = index \ Newest(keep)
  /\ work' # {}
  /\ UNCHANGED <<treeVars, want, storeVars, writerVars, at, staged,
                 restoreVars, broken, troubles>>

PruneIndex(keep) ==
  /\ To("idle", "prune")
  /\ work' = index \ Newest(keep)
  /\ work' # {}
  /\ index' = Newest(keep)
  /\ UNCHANGED <<treeVars, want, payload, manifest, begun, stamp, skewed, writerVars, at, staged,
                 restoreVars, broken, troubles>>

PruneDirectory(v) ==
  /\ stage = "prune" /\ v \in work
  /\ \A u \in work : u = v \/ Before(v, u)
  /\ payload' = [payload EXCEPT ![v] = Unwritten]
  /\ manifest' = [manifest EXCEPT ![v] = {}]
  /\ work' = work \ {v}
  /\ UNCHANGED <<treeVars, want, index, begun, stamp, skewed, writerVars, stage, at, staged,
                 restoreVars, broken, troubles>>

PruneEnds ==
  /\ To("prune", "idle")
  /\ \/ work = {} /\ UNCHANGED troubles
     \/ Trouble
  /\ work' = {}
  /\ UNCHANGED <<treeVars, want, storeVars, writerVars, at, staged, restoreVars, broken>>

-----------------------------------------------------------------------------
(* Restore.                                                                *)

\* validate_restore_payload: a delta needs its base at the path.
Restorable(v, p) ==
  \/ payload[v][p].kind = "whole"
  \/ payload[v][p].kind = "rdelta" /\ here[p] = payload[v][p].base

\* Every selected payload is validated before anything changes; any version with a
\* manifest can be named.
BeginRestore(v, chosen) ==
  /\ To("idle", "restore")
  /\ chosen # {} /\ chosen \subseteq manifest[v]
  /\ \A p \in chosen : Restorable(v, p)
  /\ writer' = v
  /\ work' = chosen
  /\ session' = NothingKept /\ retained' = 0
  /\ UNCHANGED <<treeVars, want, storeVars, entries, unindexed, at, staged, attic,
                 broken, troubles>>

\* stage_restore_entry: the payload is checked again while it is copied.
StageOld(p) ==
  /\ stage = "restore" /\ p \in work
  /\ IF Restorable(writer, p)
     THEN stage' = "displace" /\ UNCHANGED work
     ELSE work' = work \ {p} /\ UNCHANGED stage
  /\ IF Restorable(writer, p) THEN at' = p /\ staged' = payload[writer][p].old
     ELSE UNCHANGED <<at, staged>>
  /\ UNCHANGED <<treeVars, want, storeVars, writerVars, restoreVars, broken, troubles>>

DisplaceCurrent ==
  /\ To("displace", "put")
  /\ IF here[at] = Gone THEN UNCHANGED <<here, session, retained>>
     ELSE /\ session' = [session EXCEPT ![at] = here[at]]
          /\ here' = [here EXCEPT ![at] = Gone]
          /\ retained' = retained + 1
  /\ UNCHANGED <<there, want, storeVars, writerVars, work, at, staged, attic, broken,
                 edits, replaced, troubles>>

EntryDone == work' = work \ {at} /\ stage' = "restore" /\ LeaveOp

\* The published content, also when only the flush of its directory failed.
PutOld ==
  /\ stage = "put" /\ here[at] = Gone
  /\ here' = [here EXCEPT ![at] = staged]
  /\ EntryDone
  /\ UNCHANGED <<there, want, storeVars, writerVars, restoreVars, broken,
                 edits, replaced, troubles>>

\* Somebody made a file there: both contents stay, the current one in the session.
PutRefused ==
  /\ stage = "put" /\ here[at] # Gone
  /\ EntryDone
  /\ UNCHANGED <<treeVars, want, storeVars, writerVars, restoreVars,
                 broken, troubles>>

\* The publication or the flush before it fails: rollback_displaced_entry renames
\* the displaced file back, unless somebody made a file there, or that fails too.
PutFails ==
  /\ stage = "put" /\ Trouble
  /\ \E goesBack \in BOOLEAN :
       LET back == goesBack /\ session[at] # Gone /\ here[at] = Gone
       IN  /\ here' = IF back THEN [here EXCEPT ![at] = session[at]] ELSE here
           /\ session' = IF back THEN [session EXCEPT ![at] = Gone] ELSE session
           /\ retained' = IF back THEN retained - 1 ELSE retained
  /\ EntryDone
  /\ UNCHANGED <<there, want, storeVars, writerVars, attic, broken, edits, replaced>>

InSession == {<<p, session[p]>> : p \in {q \in File : session[q] # Gone}}

\* Without a displaced file the retention directory is removed, with all it holds.
EndRestore ==
  /\ To("restore", "idle")
  /\ work = {}
  /\ writer' = 0
  /\ attic' = IF retained > 0 THEN attic \cup InSession ELSE attic
  /\ session' = NothingKept /\ retained' = 0
  /\ UNCHANGED <<treeVars, want, storeVars, entries, unindexed, work, at, staged,
                 broken, troubles>>

-----------------------------------------------------------------------------
\* The process dies, or the lease is lost and the run stops without a wrap-up.
CrashMutator ==
  /\ stage # "idle" /\ Trouble
  /\ stage' = "idle"
  /\ work' = {} /\ writer' = 0 /\ entries' = {} /\ unindexed' = FALSE
  /\ attic' = attic \cup InSession
  /\ session' = NothingKept /\ retained' = 0
  /\ broken' = broken \cup BaseMissing
  /\ LeaveOp
  /\ want' = NothingKept
  /\ UNCHANGED <<treeVars, storeVars>>

VersionPeople ==
  \E p \in File, c \in Bytes \cup {Gone} : SaveHere(p, c) \/ SaveThere(p, c)

VersionApply ==
  \/ BeginApply \/ \E p \in File : StreamNew(p) \/ SourceChanged(p)
  \/ OpenVersion \/ KeepDelta \/ RemoveOriginal \/ KeepWhole \/ RecordWhole
  \/ PublishNew \/ OperationDone \/ OperationFails \/ CancelApply
  \/ FinishEmpty \/ FinishUnindexed \/ WriteManifest \/ WriteIndex

VersionPrune ==
  \/ \E keep \in 0 .. MaxKeep : PruneIndex(keep)
  \/ \E v \in Version : PruneDirectory(v)
  \/ PruneEnds

VersionRestore ==
  \/ \E v \in Version, chosen \in SUBSET File : BeginRestore(v, chosen)
  \/ \E p \in File : StageOld(p)
  \/ DisplaceCurrent \/ PutOld \/ PutRefused \/ PutFails \/ EndRestore

VersionNext ==
  VersionPeople \/ VersionApply \/ VersionPrune \/ VersionRestore \/ CrashMutator

VersionSpec == VersionInit /\ [][VersionNext]_versionVars

-----------------------------------------------------------------------------
(* Properties                                                              *)

\* Every variable has its type.
VersionTypeOK ==
  /\ here \in [File -> Bytes \cup {Gone}]
  /\ there \in [File -> Bytes \cup {Gone}]
  /\ want \in [File -> Bytes \cup {Gone}]
  /\ payload \in [Version -> [File -> Payload \cup {NoPayload}]]
  /\ manifest \in [Version -> SUBSET File]
  /\ index \subseteq Version
  /\ begun \in 0 .. MaxVersions
  /\ stamp \in [Version -> Nat]
  /\ skewed \in BOOLEAN
  /\ writer \in 0 .. MaxVersions
  /\ entries \subseteq File
  /\ unindexed \in BOOLEAN
  /\ stage \in {"idle", "apply", "keep", "remove", "record", "publish", "done", "index",
                "prune", "restore", "displace", "put"}
  /\ work \subseteq (IF stage = "prune" THEN Version ELSE File)
  /\ at \in File
  /\ staged \in Bytes \cup {Gone}
  /\ session \in [File -> Bytes \cup {Gone}]
  /\ retained \in Nat
  /\ attic \subseteq File \X Bytes
  /\ broken \subseteq File
  /\ replaced \subseteq File
  /\ edits \in 0 .. MaxEdits
  /\ troubles \in 0 .. MaxTroubles

\* "The index never promises a version whose payload was already removed"
\* (retention.rs): whatever run, prune or crash came between, a version the index
\* lists has a manifest, and every entry of it has its payload.
IndexIsHonoured ==
  \A v \in index :
    /\ manifest[v] # {}
    /\ \A p \in manifest[v] : payload[v][p] # NoPayload

\* What restoring version after version, and putting displaced files back, can bring
\* to p: a delta needs its base.
Bases(p) ==
  {c \in Bytes :
     \/ here[p] = c \/ session[p] = c \/ <<p, c>> \in attic
     \/ \E v \in Version : payload[v][p] = Whole(c)}
Unpacked(p, known) ==
  {c \in Bytes : \E v \in Version, b \in known : payload[v][p] = Delta(c, b)}
Reachable(p) ==
  {c \in Bytes : \A known \in SUBSET Bytes :
                   Bases(p) \cup Unpacked(p, known) \subseteq known => c \in known}

\* The history that is indexed can be restored, chain by chain, however runs, prunes,
\* restores, failures and crashes follow one another: wherever nobody changed the file by
\* hand (`replaced` if so) and the base of every delta is what then arrived (`broken` if not),
\* and while the clocks of the machines put the versions in the order they were made in
\* (`skewed` if not).
HistoryReaches ==
  stage = "idle" /\ ~skewed =>
    \A v \in index : \A p \in manifest[v] \ (broken \cup replaced) : payload[v][p].old \in Reachable(p)

\* "Preserved content lives in that root's .version_syncDash/, so the history remains
\* available from either machine that can access the root" (version/mod.rs:3): where
\* nobody changed the root by hand and nothing failed, what the index lists can be
\* restored. An edit of the other root while an apply copies from it is enough to break
\* this: the delta is made against a second read of the file.
HistoryIsAvailable ==
  troubles = 0 /\ stage = "idle" /\ ~skewed =>
    \A v \in index : \A p \in manifest[v] \ replaced : payload[v][p].old \in Reachable(p)

\* "Keep the newest `keep` versions and delete the rest" (retention.rs:95): where nothing
\* failed and every delta has its base, what is left after a prune can be restored.
\* Machines that disagree on the time are enough to break this.
PruneKeepsHistory ==
  troubles = 0 /\ stage = "idle" =>
    \A v \in index : \A p \in manifest[v] \ (broken \cup replaced) : payload[v][p].old \in Reachable(p)
=============================================================================
