---------------------------- MODULE SettingsFile ----------------------------
(***************************************************************************)
(* settings.toml (services/store/settings) and the desktop's save of it    *)
(* (src-tauri features/settings): compare-and-swap on a revision under an  *)
(* advisory lock, one-use grants for a new log directory, the switch of    *)
(* the application log with the move of the run history, and the rollback  *)
(* of the save when the switch fails. A person edits the file without the  *)
(* lock; a file that does not parse counts as the defaults, under a        *)
(* revision of its own bytes.                                              *)
(***************************************************************************)
EXTENDS Naturals, FiniteSets

CONSTANTS
  Program,      \* the programs that have the settings open
  LogDir,       \* the log directories settings can name
  DefaultDir,   \* the one they name when they name none
  Option,       \* the other settings
  DefaultOption,
  Rubbish,      \* contents that do not parse or do not validate
  NoProgram,
  MaxSaves, MaxPatches, MaxFlaws  \* bounds: saves and selections begun; edits by hand; failures and deaths

ASSUME SettingsAssumption ==
  /\ DefaultDir \in LogDir /\ DefaultOption \in Option /\ NoProgram \notin Program
  /\ MaxSaves \in Nat /\ MaxPatches \in Nat /\ MaxFlaws \in Nat

Settings == [dir : LogDir, option : Option]
Defaults == [dir |-> DefaultDir, option |-> DefaultOption]
Readable(s) == [kind |-> "read", is |-> s]
Unreadable(b) == [kind |-> "rubbish", is |-> b]
NoSettings == [kind |-> "missing", is |-> Defaults]
SettingsFiles == {NoSettings} \cup {Readable(s) : s \in Settings} \cup {Unreadable(b) : b \in Rubbish}

VARIABLES
  toml,     \* the file
  flock,    \* who has the lock of the file
  known,    \* the settings and revision each program loaded
  at,       \* where the save of each program is
  next,     \* the settings it saves
  update,   \* what it saved, and the bytes it replaced
  grants,   \* directories chosen in the native picker: directory and revision
  logging,  \* the directory each program's log is open in
  patched,  \* history: a hand wrote since the program with the lock looked
  saves, patches, flaws

settingsVars == <<toml, flock, known, at, next, update, grants, logging, patched, saves, patches, flaws>>
settingsCounts == <<saves, patches, flaws>>

\* revision: of the effective settings, or of the bytes where they do not parse.
Effective(f) == IF f.kind = "rubbish" THEN Defaults ELSE f.is
SameRevisionAs(f, g) == (f.kind = "rubbish") = (g.kind = "rubbish") /\ f.is = g.is

SettingsInit ==
  /\ toml \in {NoSettings} \cup {Unreadable(b) : b \in Rubbish}
  /\ flock = NoProgram
  /\ known = [p \in Program |-> toml]
  /\ at = [p \in Program |-> "idle"]
  /\ next = [p \in Program |-> Defaults]
  /\ update = [p \in Program |-> [wrote |-> NoSettings, over |-> NoSettings, changed |-> FALSE]]
  /\ grants = [p \in Program |-> {}]
  /\ logging = [p \in Program |-> DefaultDir]
  /\ patched = FALSE
  /\ saves = 0 /\ patches = 0 /\ flaws = 0

\* The places of a save: with the lock, and without it.
WithLock == {"compare", "keep", "write", "reread", "restore", "putback"}
WithoutLock == {"idle", "swap", "switch", "undo"}

Flaw == flaws < MaxFlaws /\ flaws' = flaws + 1
Steps(p, from, to) == at[p] = from /\ at' = [at EXCEPT ![p] = to]

-----------------------------------------------------------------------------
LoadSettings(p) ==
  /\ at[p] = "idle"
  /\ known' = [known EXCEPT ![p] = toml]
  /\ UNCHANGED <<toml, flock, at, next, update, grants, logging, patched, settingsCounts>>

\* The picker is shown between two looks at the revision; a grant is kept for a
\* directory that is neither the default nor the present one.
SelectDirectory(p, d) ==
  /\ at[p] = "idle" /\ saves < MaxSaves /\ saves' = saves + 1
  /\ SameRevisionAs(toml, known[p])
  /\ grants' = IF d \in {DefaultDir, Effective(toml).dir} THEN grants
               ELSE [grants EXCEPT ![p] = @ \cup {[dir |-> d, rev |-> known[p]]}]
  /\ UNCHANGED <<toml, flock, known, at, next, update, logging, patched, patches, flaws>>

GrantExpires(p, g) ==
  /\ g \in grants[p]
  /\ grants' = [grants EXCEPT ![p] = @ \ {g}]
  /\ UNCHANGED <<toml, flock, known, at, next, update, logging, patched, settingsCounts>>

NeedsNoGrant(p, s) == s.dir \in {DefaultDir, Effective(toml).dir}

\* save: a first look at the revision, and the grant, which is used up whether it fits or
\* not.
BeginSettings(p, s) ==
  /\ at[p] = "idle" /\ saves < MaxSaves /\ saves' = saves + 1
  /\ SameRevisionAs(toml, known[p])
  /\ \/ /\ NeedsNoGrant(p, s)
        /\ Steps(p, "idle", "swap")
        /\ UNCHANGED grants
     \/ /\ ~NeedsNoGrant(p, s)
        /\ \E g \in grants[p] :
             /\ grants' = [grants EXCEPT ![p] = @ \ {g}]
             /\ Steps(p, "idle", IF g.dir = s.dir /\ SameRevisionAs(g.rev, known[p]) THEN "swap" ELSE "idle")
  /\ next' = [next EXCEPT ![p] = s]
  /\ UNCHANGED <<toml, flock, known, update, logging, patched, patches, flaws>>

\* save_if_revision_at, under the lock: a second look, and nothing to write when the
\* effective settings are those already.
TakeSettingsLock(p, from, to) ==
  /\ Steps(p, from, to)
  /\ flock = NoProgram /\ flock' = p
  /\ patched' = FALSE

LockToSave(p) ==
  /\ TakeSettingsLock(p, "swap", "compare")
  /\ UNCHANGED <<toml, known, next, update, grants, logging, settingsCounts>>

\* (Mutant: the first look is enough.)
CompareOnce(p) ==
  /\ Steps(p, "compare", "keep")
  /\ patched' = FALSE
  /\ UNCHANGED <<toml, flock, known, next, update, grants, logging, settingsCounts>>

CompareSettings(p) ==
  /\ SameRevisionAs(toml, known[p])
  /\ patched' = FALSE
  /\ IF toml.kind # "rubbish" /\ toml.is = next[p]
     THEN /\ Steps(p, "compare", "switch") /\ flock' = NoProgram
          /\ update' = [update EXCEPT ![p] = [wrote |-> toml, over |-> toml, changed |-> FALSE]]
     ELSE Steps(p, "compare", "keep") /\ UNCHANGED <<flock, update>>
  /\ UNCHANGED <<toml, known, next, grants, logging, settingsCounts>>

RefuseSettings(p) ==
  /\ ~SameRevisionAs(toml, known[p])
  /\ Steps(p, "compare", "idle")
  /\ flock' = NoProgram
  /\ UNCHANGED <<toml, known, next, update, grants, logging, patched, settingsCounts>>

\* A read of its own keeps the bytes for a rollback: what a hand wrote since the look is
\* kept, and replaced.
KeepPrevious(p) ==
  /\ Steps(p, "keep", "write")
  /\ update' = [update EXCEPT ![p].over = toml]
  /\ UNCHANGED <<toml, flock, known, next, grants, logging, patched, settingsCounts>>

WriteSettings(p) ==
  /\ Steps(p, "write", "reread")
  /\ toml' = Readable(next[p])
  /\ UNCHANGED <<flock, known, next, update, grants, logging, patched, settingsCounts>>

\* The snapshot of the update is read back from the file, and what a hand wrote since
\* passes for the save.
RereadSettings(p) ==
  /\ Steps(p, "reread", "switch")
  /\ flock' = NoProgram
  /\ update' = [update EXCEPT ![p].wrote = toml, ![p].changed = TRUE]
  /\ known' = [known EXCEPT ![p] = toml]
  /\ UNCHANGED <<toml, next, grants, logging, patched, settingsCounts>>

\* reconfigure_after: the log is closed, the history moves, the new log is opened.
SwitchLog(p) ==
  /\ Steps(p, "switch", "idle")
  /\ logging' = [logging EXCEPT ![p] = next[p].dir]
  /\ UNCHANGED <<toml, flock, known, next, update, grants, patched, settingsCounts>>

\* The new log does not open: the old one is opened again and the save is taken back,
\* if it changed anything.
SwitchFails(p) ==
  /\ Flaw
  /\ Steps(p, "switch", IF ~update[p].changed THEN "idle" ELSE "undo")
  /\ UNCHANGED <<toml, flock, known, next, update, grants, logging, patched, saves, patches>>

LockToUndo(p) ==
  /\ TakeSettingsLock(p, "undo", "restore")
  /\ UNCHANGED <<toml, known, next, update, grants, logging, settingsCounts>>

\* rollback: only over the revision the save left, by a look and then a write.
CompareRollback(p) ==
  /\ IF SameRevisionAs(toml, update[p].wrote)
     THEN Steps(p, "restore", "putback") /\ UNCHANGED <<flock, known>>
     ELSE /\ Steps(p, "restore", "idle") /\ flock' = NoProgram
          /\ known' = [known EXCEPT ![p] = toml]
  /\ UNCHANGED <<toml, next, update, grants, logging, patched, settingsCounts>>

RollbackSettings(p) ==
  /\ Steps(p, "putback", "idle")
  /\ flock' = NoProgram
  /\ toml' = update[p].over
  /\ known' = [known EXCEPT ![p] = toml']
  /\ UNCHANGED <<next, update, grants, logging, patched, settingsCounts>>

\* A call fails before anything was written, or the program dies and comes back with
\* the settings, and the log, of the file.
SettingsFail(p) ==
  /\ at[p] \in {"swap", "compare", "keep", "write", "undo", "putback"} /\ Flaw
  /\ at' = [at EXCEPT ![p] = "idle"]
  /\ flock' = IF flock = p THEN NoProgram ELSE flock
  /\ UNCHANGED <<toml, known, next, update, grants, logging, patched, saves, patches>>

ProgramRestarts(p) ==
  /\ Flaw
  /\ at' = [at EXCEPT ![p] = "idle"]
  /\ flock' = IF flock = p THEN NoProgram ELSE flock
  /\ known' = [known EXCEPT ![p] = toml]
  /\ grants' = [grants EXCEPT ![p] = {}]
  /\ logging' = [logging EXCEPT ![p] = Effective(toml).dir]
  /\ UNCHANGED <<toml, next, update, patched, saves, patches>>

PatchByHand(f) ==
  /\ patches < MaxPatches /\ patches' = patches + 1
  /\ f # toml
  /\ toml' = f
  /\ patched' = TRUE
  /\ UNCHANGED <<flock, known, at, next, update, grants, logging, saves, flaws>>

ProgramStep(p) ==
  \/ LoadSettings(p) \/ LockToSave(p) \/ CompareSettings(p) \/ RefuseSettings(p) \/ WriteSettings(p)
  \/ KeepPrevious(p) \/ RereadSettings(p) \/ CompareRollback(p)
  \/ SwitchLog(p) \/ SwitchFails(p) \/ LockToUndo(p) \/ RollbackSettings(p)
  \/ SettingsFail(p) \/ ProgramRestarts(p)
  \/ \E d \in LogDir : SelectDirectory(p, d)
  \/ \E g \in grants[p] : GrantExpires(p, g)
  \/ \E s \in Settings : BeginSettings(p, s)

SettingsNext ==
  \/ \E p \in Program : ProgramStep(p)
  \/ \E f \in SettingsFiles : PatchByHand(f)

SettingsSpec == SettingsInit /\ [][SettingsNext]_settingsVars

-----------------------------------------------------------------------------
(* Properties                                                              *)

\* The variables have their types, who compares, writes or restores has the lock, and
\* nobody else.
SettingsTypeOK ==
  /\ toml \in SettingsFiles
  /\ known \in [Program -> SettingsFiles]
  /\ at \in [Program -> WithoutLock \cup WithLock]
  /\ \A p \in Program : at[p] \in WithLock <=> flock = p
  /\ next \in [Program -> Settings]
  /\ update \in [Program -> [wrote : SettingsFiles, over : SettingsFiles, changed : BOOLEAN]]
  /\ grants \in [Program -> SUBSET [dir : LogDir, rev : SettingsFiles]]
  /\ logging \in [Program -> LogDir]
  /\ patched \in BOOLEAN

\* "A renderer that saw a fallback snapshot cannot overwrite a later repair"
\* (settings.rs:142): a save replaces the revision its program had loaded, readable or
\* not, unless a hand writes between the second look and the publication.
SettingsAreNotLost ==
  [][\A p \in Program :
       at[p] = "write" /\ at'[p] = "reread" /\ ~patched => SameRevisionAs(toml, known[p])]_settingsVars

=============================================================================
