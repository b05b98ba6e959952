------------------------------- MODULE Backend -------------------------------
(***************************************************************************)
(* The storage backends behind a root (base/fs/vfs, base/fs/local_root)    *)
(* and the staged writes of SyncDash's own files (base/fs/staged): several *)
(* staged writes for one name, each protocol's way to publish them, people *)
(* who use the same name, calls that fail, calls that time out after they  *)
(* took effect, a lost session, a server that drops the end of an upload,  *)
(* and a stat whose "no such file" is not believed.                        *)
(***************************************************************************)
EXTENDS Naturals, FiniteSets

CONSTANTS
  Writer,     \* the staged writes for the name
  Held,       \* the protocols the root may be reached by
  Lies,       \* what a server may wrongly report missing: "name", "parent"
  Bypass,     \* whether a save may hit the placeholder of a claim
  Nothing, Outsider, Cut,
  MaxFaults, MaxPeople  \* bounds: failed calls and losses; saves and removals by others

Placeholder == "placeholder"   \* the empty entry that claims a name

Protocols == {"state", "local", "claim", "sftp", "smb", "ftp"}
Remote == {"sftp", "smb", "ftp"}

ASSUME BackendAssumption ==
  /\ Held \subseteq Protocols /\ Lies \subseteq {"name", "parent"} /\ Bypass \in BOOLEAN
  /\ Nothing # Outsider /\ Nothing # Cut /\ Outsider # Cut
  /\ {Nothing, Outsider, Cut} \cap Writer = {}
  /\ Placeholder \notin Writer \cup {Nothing, Outsider, Cut}
  /\ MaxFaults \in Nat /\ MaxPeople \in Nat

VARIABLES
  protocol,   \* how the root is reached
  entry,      \* what is under the final name
  temp,       \* each writer's temporary file: none, or what it holds
  place,      \* where each staged write is
  replace,    \* commit or commit_noreplace
  alive,      \* the session
  probe,      \* a stat of the name: idle, asked, missing, none, some, transient
  gone,       \* history: the name was free at some moment since the stat began
  landed,     \* history: the writers whose content was under the final name
  verdict,    \* what each writer was told
  faults, people

writeVars == <<entry, temp, place, landed, verdict>>
backendVars == <<protocol, replace, alive, probe, gone, faults, people, writeVars>>

Places == {"idle", "open", "written", "sealed", "claimed", "cleared", "linked", "moved", "drop",
           "littered", "done", "crashed"}

BackendInit ==
  /\ protocol \in Held
  /\ entry \in {Nothing, Outsider}
  /\ temp = [w \in Writer |-> "none"]
  /\ place = [w \in Writer |-> "idle"]
  /\ replace \in [Writer -> BOOLEAN]
  /\ alive = TRUE
  /\ probe = "idle" /\ gone = FALSE
  /\ landed = {} /\ verdict = [w \in Writer |-> "pending"]
  /\ faults = 0 /\ people = 0

Fault == faults < MaxFaults /\ faults' = faults + 1
Go(w, from, to) == place[w] = from /\ place' = [place EXCEPT ![w] = to]
Calls(w, from, to) == alive /\ Go(w, from, to) /\ UNCHANGED <<faults, alive>>
Quiet == UNCHANGED <<protocol, replace, people, probe>>

\* The content of w's temporary file as readers of the final name would see it.
Content(w) == IF temp[w] = "whole" THEN w ELSE Cut
Appears(w) ==
  /\ entry' = Content(w)
  /\ landed' = IF temp[w] = "whole" THEN landed \cup {w} ELSE landed
Hidden == UNCHANGED <<entry, landed>>
Consumed(w) == temp' = [temp EXCEPT ![w] = "none"]

-----------------------------------------------------------------------------
\* open_write: an exclusively created temporary name in the directory of the destination.
OpenWrite(w) ==
  /\ Calls(w, "idle", "open")
  /\ temp' = [temp EXCEPT ![w] = "part"]
  /\ Hidden /\ UNCHANGED verdict

\* write: a server may drop the end; smb's acknowledged counts and a local error show it at once.
WriteAll(w) ==
  /\ Calls(w, "open", "written")
  /\ temp' = [temp EXCEPT ![w] = "whole"]
  /\ Hidden /\ UNCHANGED verdict

WriteCut(w) ==
  /\ protocol \in {"sftp", "ftp"} /\ Fault /\ alive /\ UNCHANGED alive
  /\ Go(w, "open", "written")
  /\ temp' = [temp EXCEPT ![w] = "cut"]
  /\ Hidden /\ UNCHANGED verdict

\* staged_len against the bytes sent: the server's own size everywhere but on ftp, where the
\* writer's count is compared with itself.
LengthMatches(w) == protocol = "ftp" \/ temp[w] = "whole"

Seal(w) ==
  /\ Calls(w, "written", IF LengthMatches(w) THEN "sealed" ELSE "drop")
  /\ UNCHANGED temp /\ Hidden /\ UNCHANGED verdict

\* A call that fails without effect: the error goes up and the staged write is dropped.
CallFails(w) ==
  /\ place[w] \in {"idle", "open", "written", "sealed", "cleared"} /\ alive
  /\ Fault /\ UNCHANGED alive
  /\ Go(w, place[w], IF place[w] = "idle" THEN "done" ELSE "drop")
  /\ verdict' = IF place[w] = "idle" THEN [verdict EXCEPT ![w] = "failed"] ELSE verdict
  /\ UNCHANGED temp /\ Hidden

-----------------------------------------------------------------------------
\* rename (renameat, MoveFileExW with REPLACE, NtSetInformationFile): one operation.
RenameOver(w) ==
  /\ protocol \in {"state", "local", "claim"} /\ replace[w]
  /\ entry = Placeholder => Bypass
  /\ Calls(w, "sealed", "moved")
  /\ Appears(w) /\ Consumed(w) /\ UNCHANGED verdict

RenameNoReplaceBlind(w) ==
  /\ \/ protocol \in {"state", "local"} /\ ~replace[w] /\ place[w] = "sealed"
     \/ protocol = "smb" /\ place[w] = (IF replace[w] THEN "cleared" ELSE "sealed")
     \/ protocol = "sftp" /\ place[w] = "cleared"
  /\ Calls(w, place[w], "moved")
  /\ Appears(w) /\ Consumed(w) /\ UNCHANGED verdict

\* renameat2 NOREPLACE, renamex_np EXCL, an NT rename without replacement; smb's rename has
\* ReplaceIfExists = 0 and is also the second half of its replacing commit.
RenameNoReplace(w) ==
  /\ \/ protocol \in {"state", "local"} /\ ~replace[w] /\ place[w] = "sealed"
     \/ protocol = "smb" /\ place[w] = (IF replace[w] THEN "cleared" ELSE "sealed")
     \/ protocol = "sftp" /\ place[w] = "cleared"
  /\ entry = Nothing
  /\ Calls(w, place[w], "moved")
  /\ Appears(w) /\ Consumed(w) /\ UNCHANGED verdict

\* The name is taken, or this backend has no exclusive publication at all.
RenameRefused(w) ==
  /\ \/ /\ entry # Nothing
        /\ \/ protocol \in {"state", "local", "claim"} /\ ~replace[w] /\ place[w] = "sealed"
           \/ protocol = "smb" /\ place[w] = (IF replace[w] THEN "cleared" ELSE "sealed")
           \/ protocol = "sftp" /\ place[w] = (IF replace[w] THEN "cleared" ELSE "sealed")
           \/ protocol = "ftp" /\ place[w] = "cleared"
     \/ protocol = "ftp" /\ ~replace[w] /\ place[w] = "sealed"
  /\ Calls(w, place[w], "drop")
  /\ Hidden /\ UNCHANGED <<temp, verdict>>

\* rename_noreplace_by_claim: an empty entry reserves the name, the rename replaces it.
ClaimName(w) ==
  /\ protocol = "claim" /\ ~replace[w] /\ entry = Nothing
  /\ Calls(w, "sealed", "claimed")
  /\ entry' = Placeholder
  /\ UNCHANGED <<temp, landed, verdict>>

RenameOntoClaim(w) ==
  /\ Calls(w, "claimed", "moved")
  /\ Appears(w) /\ Consumed(w) /\ UNCHANGED verdict

GiveClaimBack(w) ==
  /\ Fault /\ UNCHANGED alive
  /\ Go(w, "claimed", "drop")
  /\ entry' = Nothing
  /\ UNCHANGED <<temp, landed, verdict>>

\* sftp, smb and ftp have no replacing rename: they clear the destination first.
ClearDestination(w) ==
  /\ protocol \in Remote /\ replace[w]
  /\ Calls(w, "sealed", "cleared")
  /\ entry' = Nothing
  /\ UNCHANGED <<temp, landed, verdict>>

\* ftp: whether RNTO replaces differs by server; SIZE is asked under the final name.
RenameOnServer(w) ==
  /\ protocol = "ftp"
  /\ Calls(w, "cleared", "linked")
  /\ Appears(w) /\ UNCHANGED <<temp, verdict>>

SizeAfterRename(w) ==
  /\ protocol = "ftp"
  /\ \/ temp[w] = "whole" /\ Calls(w, "linked", "moved")
     \/ temp[w] = "cut" /\ Calls(w, "linked", "drop")
     \/ Fault /\ alive /\ UNCHANGED alive /\ Go(w, "linked", "drop")
  /\ Consumed(w) /\ Hidden /\ UNCHANGED verdict

\* sftp: hardlink@openssh.com publishes, the temporary name goes afterwards.
HardLink(w) ==
  /\ protocol = "sftp" /\ ~replace[w] /\ entry = Nothing
  /\ Calls(w, "sealed", "linked")
  /\ Appears(w) /\ UNCHANGED <<temp, verdict>>

UnlinkTemp(w) ==
  /\ protocol = "sftp"
  /\ \/ Calls(w, "linked", "moved") /\ Consumed(w)
     \/ Fault /\ UNCHANGED alive /\ Go(w, "linked", "littered") /\ UNCHANGED temp
  /\ Hidden
  /\ verdict' = IF place'[w] = "littered" THEN [verdict EXCEPT ![w] = "ok"] ELSE verdict

\* A publication whose answer is lost has happened all the same.
TimesOut(w) ==
  /\ protocol \in Remote /\ Fault /\ alive /\ UNCHANGED alive
  /\ \/ entry = Nothing /\ place[w] \in {"sealed", "cleared"} /\ protocol # "ftp"
        /\ (place[w] = "cleared") = replace[w]
        /\ Appears(w)
        /\ IF protocol = "sftp" /\ place[w] = "sealed" THEN UNCHANGED temp ELSE Consumed(w)
     \/ place[w] = "cleared" /\ protocol = "ftp" /\ Appears(w) /\ Consumed(w)
     \/ replace[w] /\ place[w] = "sealed" /\ entry' = Nothing /\ UNCHANGED <<temp, landed>>
  /\ Go(w, place[w], "drop") /\ UNCHANGED verdict

\* Times and modes follow by path, their failure is part of the report; a failed sync of the
\* directory fails the call although the file is there.
Report(w) ==
  /\ Go(w, "moved", "done")
  /\ \/ verdict' = [verdict EXCEPT ![w] = "ok"] /\ UNCHANGED faults
     \/ protocol \in {"state", "local", "claim"} /\ Fault /\ verdict' = [verdict EXCEPT ![w] = "failed"]
  /\ UNCHANGED <<temp, alive>> /\ Hidden

\* Drop for the staged write: the temporary file is removed, if the session still carries it.
DropStaged(w) ==
  /\ Go(w, "drop", "done")
  /\ temp' = [temp EXCEPT ![w] = IF alive THEN "none" ELSE @]
  /\ verdict' = [verdict EXCEPT ![w] = "failed"]
  /\ UNCHANGED <<alive, faults>> /\ Hidden

LoseSession ==
  /\ protocol \in Remote /\ alive /\ Fault
  /\ alive' = FALSE
  /\ UNCHANGED <<writeVars, protocol, replace, people, probe>>

\* Every later call of a staged write answers Transient.
NoSession(w) ==
  /\ ~alive
  /\ \/ place[w] \in {"open", "written", "sealed", "cleared"} /\ Go(w, place[w], "drop") /\ UNCHANGED verdict
     \/ place[w] = "linked" /\ protocol = "ftp" /\ Go(w, "linked", "drop") /\ UNCHANGED verdict
     \/ place[w] = "linked" /\ protocol = "sftp" /\ Go(w, "linked", "littered")
        /\ verdict' = [verdict EXCEPT ![w] = "ok"]
     \/ place[w] = "idle" /\ Go(w, "idle", "done") /\ verdict' = [verdict EXCEPT ![w] = "failed"]
  /\ temp' = IF place[w] = "linked" /\ protocol = "ftp" THEN [temp EXCEPT ![w] = "none"] ELSE temp
  /\ UNCHANGED <<alive, faults>> /\ Hidden

\* The process dies: nobody drops, nobody is told.
Crash(w) ==
  /\ place[w] \notin {"idle", "done", "littered", "crashed"}
  /\ Fault
  /\ place' = [place EXCEPT ![w] = "crashed"]
  /\ UNCHANGED <<entry, temp, landed, verdict, alive>>

WriterStep(w) ==
  /\ Quiet
  /\ \/ OpenWrite(w) \/ WriteAll(w) \/ WriteCut(w) \/ Seal(w) \/ CallFails(w)
     \/ RenameOver(w) \/ RenameNoReplace(w) \/ RenameRefused(w)
     \/ ClaimName(w) \/ RenameOntoClaim(w) \/ GiveClaimBack(w)
     \/ ClearDestination(w) \/ RenameOnServer(w) \/ SizeAfterRename(w)
     \/ HardLink(w) \/ UnlinkTemp(w) \/ TimesOut(w)
     \/ Report(w) \/ DropStaged(w) \/ NoSession(w) \/ Crash(w)

-----------------------------------------------------------------------------
\* Other users of the name. Somebody else's empty entry is not theirs to fill, unless Bypass.
People ==
  /\ people < MaxPeople /\ people' = people + 1
  /\ entry' \in {Nothing, Outsider} \ {entry}
  /\ entry = Placeholder => Bypass
  /\ UNCHANGED <<protocol, replace, alive, probe, faults, temp, place, landed, verdict>>

\* stat: sftp and smb take "no such file" for a claim that the listing of the parent must
\* confirm; ftp lists the parent to begin with; a local answer is final.
Missing(what) ==
  \/ entry = Nothing /\ UNCHANGED faults
  \/ entry # Nothing /\ protocol \in Remote /\ what \in Lies /\ Fault

Ask == probe = "idle" /\ probe' = "asked" /\ UNCHANGED faults

StatAnswers ==
  /\ probe = "asked" /\ alive
  /\ \/ Missing(IF protocol = "ftp" THEN "parent" ELSE "name")
        /\ probe' = IF protocol \in {"sftp", "smb"} THEN "missing" ELSE "none"
     \/ entry # Nothing /\ probe' = "some" /\ UNCHANGED faults
ConfirmAbsentBlindly ==
  /\ probe = "missing" /\ alive
  /\ probe' = "none" /\ UNCHANGED faults

ConfirmAbsent ==
  /\ probe = "missing" /\ alive
  /\ \/ Missing("parent") /\ probe' = "none"
     \/ entry # Nothing /\ probe' = "transient" /\ UNCHANGED faults

StatFails ==
  /\ probe \in {"asked", "missing"}
  /\ \/ ~alive /\ UNCHANGED faults
     \/ alive /\ Fault
  /\ probe' = "transient"

Stat ==
  /\ Ask \/ StatAnswers \/ ConfirmAbsent \/ StatFails
  /\ UNCHANGED <<writeVars, protocol, replace, alive, people>>

BackendNext ==
  /\ (\E w \in Writer : WriterStep(w)) \/ LoseSession \/ People \/ Stat
  /\ gone' = (entry' = Nothing \/ (probe # "idle" /\ gone))

BackendSpec == BackendInit /\ [][BackendNext]_backendVars

-----------------------------------------------------------------------------
(* Properties *)

\* The kinds of every variable.
BackendTypeOK ==
  /\ protocol \in Protocols
  /\ entry \in Writer \cup {Nothing, Outsider, Cut, Placeholder}
  /\ temp \in [Writer -> {"none", "part", "whole", "cut"}]
  /\ place \in [Writer -> Places]
  /\ replace \in [Writer -> BOOLEAN] /\ alive \in BOOLEAN /\ gone \in BOOLEAN
  /\ probe \in {"idle", "asked", "missing", "none", "some", "transient"}
  /\ landed \subseteq Writer
  /\ verdict \in [Writer -> {"pending", "ok", "failed"}]
  /\ faults \in 0 .. MaxFaults /\ people \in 0 .. MaxPeople

\* The contract of a staged write, on every backend (vfs/mod.rs, WriteStaged): this module
\* implements Publication; an empty placeholder counts as a free name.
Published == INSTANCE Publication WITH
  replacing <- {w \in Writer : replace[w]},
  gapless <- protocol \notin Remote,
  unchecked <- protocol = "ftp",
  shown <- (IF entry = Placeholder THEN Nothing ELSE entry),
  landed <- landed,
  told <- verdict
KeepsThePromise == Published!Spec

\* A staged write that ended while its session lived has left nothing behind: no temporary file
\* (unless it was told to expect one) and no placeholder (vfs/mod.rs, the drop contract).
NoDebris ==
  /\ \A w \in Writer : place[w] = "done" /\ alive => temp[w] = "none"
  /\ entry = Placeholder => \E w \in Writer : place[w] \in {"claimed", "crashed"}

\* A stat that answers "absent" tells of a moment at which the name was free, although the
\* server may misreport it (vfs/absence.rs).
AbsenceIsReal == probe = "none" => gone
=============================================================================
