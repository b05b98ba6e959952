---------------------------- MODULE StoresProofs ----------------------------
(***************************************************************************)
(* What the stores promise, for every number of writers, versions, paths,  *)
(* faults and people.                                                      *)
(*                                                                         *)
(* Backends: BackendSpec implements Publication. What a writer holds is    *)
(* known from where it is (Stage): a temporary file past its seal is       *)
(* whole, except on ftp, and a writer that has moved it has been seen. A   *)
(* claimed name is claimed by one writer and shows the placeholder         *)
(* (OneClaim), as long as no save of another hits the placeholder          *)
(* (~Bypass).                                                              *)
(*                                                                         *)
(* Trash: its types need that the runs are below the clock, so that those  *)
(* with a path have a newest one (MaxIsIn).                                *)
(*                                                                         *)
(* Version history: the index is honoured because a manifest lists what is *)
(* in its directory and a prune removes only what the index has forgotten  *)
(* (HistoryIsWhole). The contents can be rebuilt because each path a       *)
(* version has preserved can be built from what is at hand and from the    *)
(* versions that are not older (OwedCanBeBuilt): a step that takes a       *)
(* content away from the root puts it into a newer version, the session of *)
(* a restore or the attic, and a prune takes away only versions older than *)
(* all it keeps (WriterIsFresh), as long as the clocks give the versions   *)
(* times in the order they were made in (TimesAreOrdered).                 *)
(***************************************************************************)
EXTENDS VersionStore, Trash, Backend, FiniteSetTheorems, WellFoundedInduction, TLAPS

Unanswered == {"idle", "open", "written", "sealed", "claimed", "cleared", "linked", "moved",
               "drop", "crashed"}

Stage(w) ==
  /\ place[w] \in Unanswered => verdict[w] = "pending"
  /\ place[w] \in {"sealed", "cleared", "claimed"} /\ protocol # "ftp" => temp[w] = "whole"
  /\ place[w] \in {"written", "sealed", "cleared", "linked"} /\ protocol = "ftp" =>
       temp[w] \in {"whole", "cut"}
  /\ place[w] = "cleared" => replace[w] /\ protocol \in Remote
  /\ place[w] = "claimed" => protocol = "claim"
  /\ place[w] = "linked" => protocol \in {"sftp", "ftp"}
  /\ place[w] = "linked" /\ (protocol = "sftp" \/ temp[w] = "whole") => w \in landed
  /\ place[w] = "moved" => w \in landed

OneClaim ==
  /\ \A w \in Writer : place[w] = "claimed" => entry = Placeholder
  /\ \A w, u \in Writer : place[w] = "claimed" /\ place[u] = "claimed" => w = u
  /\ entry = Placeholder => protocol = "claim"

Inv == BackendTypeOK /\ (\A w \in Writer : Stage(w)) /\ OneClaim

USE BackendAssumption DEF BackendAssumption

-----------------------------------------------------------------------------
LEMMA Initially == BackendInit => Inv
<1> SUFFICES ASSUME BackendInit PROVE Inv OBVIOUS
<1>1. BackendTypeOK
  <2>1. protocol \in Protocols /\ faults \in 0 .. MaxFaults /\ people \in 0 .. MaxPeople
    BY DEF BackendInit
  <2>2. place \in [Writer -> Places] BY DEF BackendInit, Places
  <2> QED BY <2>1, <2>2 DEF BackendInit, BackendTypeOK
<1>2. \A w \in Writer : Stage(w) BY DEF BackendInit, Stage
<1>3. OneClaim BY DEF BackendInit, OneClaim
<1> QED BY <1>1, <1>2, <1>3 DEF Inv

\* The types.
LEMMA TypeStep == BackendTypeOK /\ [BackendNext]_backendVars => BackendTypeOK'
<1> SUFFICES ASSUME BackendTypeOK, [BackendNext]_backendVars PROVE BackendTypeOK' OBVIOUS
<1> USE DEF BackendTypeOK
<1>a. \A f \in 0 .. MaxFaults : f < MaxFaults => f + 1 \in 0 .. MaxFaults OBVIOUS
<1>b. \A f \in 0 .. MaxPeople : f < MaxPeople => f + 1 \in 0 .. MaxPeople OBVIOUS
<1>1. CASE UNCHANGED backendVars BY <1>1 DEF backendVars, writeVars
<1>2. ASSUME NEW w \in Writer, WriterStep(w), gone' \in BOOLEAN PROVE BackendTypeOK'
  <2>0. protocol' = protocol /\ replace' = replace /\ people' = people /\ probe' = probe
    BY <1>2 DEF WriterStep, Quiet
  <2>1. CASE OpenWrite(w) BY <1>2, <1>a, <2>0, <2>1 DEF OpenWrite, Go, Calls, Fault, Appears, Content, Hidden, Consumed, Places
  <2>2. CASE WriteAll(w) BY <1>2, <1>a, <2>0, <2>2 DEF WriteAll, Go, Calls, Fault, Appears, Content, Hidden, Consumed, Places
  <2>3. CASE WriteCut(w) BY <1>2, <1>a, <2>0, <2>3 DEF WriteCut, Go, Calls, Fault, Appears, Content, Hidden, Consumed, Places
  <2>4. CASE Seal(w) BY <1>2, <1>a, <2>0, <2>4 DEF Seal, Go, Calls, Fault, Appears, Content, Hidden, Consumed, Places, LengthMatches
  <2>5. CASE CallFails(w) BY <1>2, <1>a, <2>0, <2>5 DEF CallFails, Go, Calls, Fault, Appears, Content, Hidden, Consumed, Places
  <2>6. CASE RenameOver(w) BY <1>2, <1>a, <2>0, <2>6 DEF RenameOver, Go, Calls, Fault, Appears, Content, Hidden, Consumed, Places
  <2>7. CASE RenameNoReplace(w) BY <1>2, <1>a, <2>0, <2>7 DEF RenameNoReplace, Go, Calls, Fault, Appears, Content, Hidden, Consumed, Places
  <2>8. CASE RenameRefused(w) BY <1>2, <1>a, <2>0, <2>8 DEF RenameRefused, Go, Calls, Fault, Appears, Content, Hidden, Consumed, Places
  <2>9. CASE ClaimName(w) BY <1>2, <1>a, <2>0, <2>9 DEF ClaimName, Go, Calls, Fault, Appears, Content, Hidden, Consumed, Places
  <2>10. CASE RenameOntoClaim(w) BY <1>2, <1>a, <2>0, <2>10 DEF RenameOntoClaim, Go, Calls, Fault, Appears, Content, Hidden, Consumed, Places
  <2>11. CASE GiveClaimBack(w) BY <1>2, <1>a, <2>0, <2>11 DEF GiveClaimBack, Go, Calls, Fault, Appears, Content, Hidden, Consumed, Places
  <2>12. CASE ClearDestination(w) BY <1>2, <1>a, <2>0, <2>12 DEF ClearDestination, Go, Calls, Fault, Appears, Content, Hidden, Consumed, Places
  <2>13. CASE RenameOnServer(w) BY <1>2, <1>a, <2>0, <2>13 DEF RenameOnServer, Go, Calls, Fault, Appears, Content, Hidden, Consumed, Places
  <2>14. CASE SizeAfterRename(w) BY <1>2, <1>a, <2>0, <2>14 DEF SizeAfterRename, Go, Calls, Fault, Appears, Content, Hidden, Consumed, Places
  <2>15. CASE HardLink(w) BY <1>2, <1>a, <2>0, <2>15 DEF HardLink, Go, Calls, Fault, Appears, Content, Hidden, Consumed, Places
  <2>16. CASE UnlinkTemp(w) BY <1>2, <1>a, <2>0, <2>16 DEF UnlinkTemp, Go, Calls, Fault, Appears, Content, Hidden, Consumed, Places
  <2>17. CASE TimesOut(w) BY <1>2, <1>a, <2>0, <2>17 DEF TimesOut, Go, Calls, Fault, Appears, Content, Hidden, Consumed, Places, Remote, Missing
  <2>18. CASE Report(w) BY <1>2, <1>a, <2>0, <2>18 DEF Report, Go, Calls, Fault, Appears, Content, Hidden, Consumed, Places
  <2>19. CASE DropStaged(w) BY <1>2, <1>a, <2>0, <2>19 DEF DropStaged, Go, Calls, Fault, Appears, Content, Hidden, Consumed, Places
  <2>20. CASE NoSession(w) BY <1>2, <1>a, <2>0, <2>20 DEF NoSession, Go, Calls, Fault, Appears, Content, Hidden, Consumed, Places
  <2>21. CASE Crash(w) BY <1>2, <1>a, <2>0, <2>21 DEF Crash, Go, Calls, Fault, Appears, Content, Hidden, Consumed, Places
  <2> QED BY <1>2, <2>1, <2>2, <2>3, <2>4, <2>5, <2>6, <2>7, <2>8, <2>9, <2>10, <2>11, <2>12, <2>13, <2>14, <2>15, <2>16, <2>17, <2>18, <2>19, <2>20, <2>21 DEF WriterStep
<1>3. CASE LoseSession /\ gone' \in BOOLEAN BY <1>3, <1>a DEF LoseSession, Fault, writeVars
<1>4. CASE People /\ gone' \in BOOLEAN BY <1>4, <1>b DEF People
<1>5. CASE Stat /\ gone' \in BOOLEAN
  BY <1>5, <1>a DEF Stat, Ask, StatAnswers, ConfirmAbsent, StatFails, Missing, Fault, writeVars
<1>6. BackendNext => gone' \in BOOLEAN BY DEF BackendNext
<1> QED BY <1>1, <1>2, <1>3, <1>4, <1>5, <1>6 DEF BackendNext

-----------------------------------------------------------------------------
\* A step of w leaves the other writers where they are, with what they hold.
OthersStay(w) ==
  /\ protocol' = protocol /\ replace' = replace /\ landed \subseteq landed'
  /\ \A u \in Writer \ {w} :
       place'[u] = place[u] /\ temp'[u] = temp[u] /\ verdict'[u] = verdict[u]

LEMMA OthersStep ==
  ASSUME BackendTypeOK, NEW w \in Writer, WriterStep(w)
  PROVE  OthersStay(w)
<1> USE DEF BackendTypeOK, OthersStay
<1>0. protocol' = protocol /\ replace' = replace BY DEF WriterStep, Quiet
<1>1. CASE OpenWrite(w) BY <1>0, <1>1 DEF OpenWrite, Go, Calls, Fault, Appears, Content, Hidden, Consumed
<1>2. CASE WriteAll(w) BY <1>0, <1>2 DEF WriteAll, Go, Calls, Fault, Appears, Content, Hidden, Consumed
<1>3. CASE WriteCut(w) BY <1>0, <1>3 DEF WriteCut, Go, Calls, Fault, Appears, Content, Hidden, Consumed
<1>4. CASE Seal(w) BY <1>0, <1>4 DEF Seal, Go, Calls, Fault, Appears, Content, Hidden, Consumed
<1>5. CASE CallFails(w) BY <1>0, <1>5 DEF CallFails, Go, Calls, Fault, Appears, Content, Hidden, Consumed
<1>6. CASE RenameOver(w) BY <1>0, <1>6 DEF RenameOver, Go, Calls, Fault, Appears, Content, Hidden, Consumed
<1>7. CASE RenameNoReplace(w) BY <1>0, <1>7 DEF RenameNoReplace, Go, Calls, Fault, Appears, Content, Hidden, Consumed
<1>8. CASE RenameRefused(w) BY <1>0, <1>8 DEF RenameRefused, Go, Calls, Fault, Appears, Content, Hidden, Consumed
<1>9. CASE ClaimName(w) BY <1>0, <1>9 DEF ClaimName, Go, Calls, Fault, Appears, Content, Hidden, Consumed
<1>10. CASE RenameOntoClaim(w) BY <1>0, <1>10 DEF RenameOntoClaim, Go, Calls, Fault, Appears, Content, Hidden, Consumed
<1>11. CASE GiveClaimBack(w) BY <1>0, <1>11 DEF GiveClaimBack, Go, Calls, Fault, Appears, Content, Hidden, Consumed
<1>12. CASE ClearDestination(w) BY <1>0, <1>12 DEF ClearDestination, Go, Calls, Fault, Appears, Content, Hidden, Consumed
<1>13. CASE RenameOnServer(w) BY <1>0, <1>13 DEF RenameOnServer, Go, Calls, Fault, Appears, Content, Hidden, Consumed
<1>14. CASE SizeAfterRename(w) BY <1>0, <1>14 DEF SizeAfterRename, Go, Calls, Fault, Appears, Content, Hidden, Consumed
<1>15. CASE HardLink(w) BY <1>0, <1>15 DEF HardLink, Go, Calls, Fault, Appears, Content, Hidden, Consumed
<1>16. CASE UnlinkTemp(w) BY <1>0, <1>16 DEF UnlinkTemp, Go, Calls, Fault, Appears, Content, Hidden, Consumed
<1>17. CASE TimesOut(w) BY <1>0, <1>17 DEF TimesOut, Go, Calls, Fault, Appears, Content, Hidden, Consumed
<1>18. CASE Report(w) BY <1>0, <1>18 DEF Report, Go, Calls, Fault, Appears, Content, Hidden, Consumed
<1>19. CASE DropStaged(w) BY <1>0, <1>19 DEF DropStaged, Go, Calls, Fault, Appears, Content, Hidden, Consumed
<1>20. CASE NoSession(w) BY <1>0, <1>20 DEF NoSession, Go, Calls, Fault, Appears, Content, Hidden, Consumed
<1>21. CASE Crash(w) BY <1>0, <1>21 DEF Crash, Go, Calls, Fault, Appears, Content, Hidden, Consumed
<1> QED BY <1>1, <1>2, <1>3, <1>4, <1>5, <1>6, <1>7, <1>8, <1>9, <1>10, <1>11, <1>12, <1>13, <1>14, <1>15, <1>16, <1>17, <1>18, <1>19, <1>20, <1>21 DEF WriterStep

\* Its own stage is again what its place says.
LEMMA OwnStep ==
  ASSUME BackendTypeOK, NEW w \in Writer, Stage(w), WriterStep(w)
  PROVE  Stage(w)'
<1> USE DEF BackendTypeOK, Stage, Unanswered
<1>0. protocol' = protocol /\ replace' = replace BY DEF WriterStep, Quiet
<1>1. CASE OpenWrite(w) BY <1>0, <1>1 DEF OpenWrite, Go, Calls, Fault, Appears, Content, Hidden, Consumed, Remote
<1>2. CASE WriteAll(w) BY <1>0, <1>2 DEF WriteAll, Go, Calls, Fault, Appears, Content, Hidden, Consumed, Remote
<1>3. CASE WriteCut(w) BY <1>0, <1>3 DEF WriteCut, Go, Calls, Fault, Appears, Content, Hidden, Consumed, Remote
<1>4. CASE Seal(w) BY <1>0, <1>4 DEF Seal, Go, Calls, Fault, Appears, Content, Hidden, Consumed, LengthMatches, Remote
<1>5. CASE CallFails(w) BY <1>0, <1>5 DEF CallFails, Go, Calls, Fault, Appears, Content, Hidden, Consumed, Remote
<1>6. CASE RenameOver(w) BY <1>0, <1>6 DEF RenameOver, Go, Calls, Fault, Appears, Content, Hidden, Consumed, Remote
<1>7. CASE RenameNoReplace(w) BY <1>0, <1>7 DEF RenameNoReplace, Go, Calls, Fault, Appears, Content, Hidden, Consumed, Remote
<1>8. CASE RenameRefused(w) BY <1>0, <1>8 DEF RenameRefused, Go, Calls, Fault, Appears, Content, Hidden, Consumed, Remote
<1>9. CASE ClaimName(w) BY <1>0, <1>9 DEF ClaimName, Go, Calls, Fault, Appears, Content, Hidden, Consumed, Remote
<1>10. CASE RenameOntoClaim(w) BY <1>0, <1>10 DEF RenameOntoClaim, Go, Calls, Fault, Appears, Content, Hidden, Consumed, Remote
<1>11. CASE GiveClaimBack(w) BY <1>0, <1>11 DEF GiveClaimBack, Go, Calls, Fault, Appears, Content, Hidden, Consumed, Remote
<1>12. CASE ClearDestination(w) BY <1>0, <1>12 DEF ClearDestination, Go, Calls, Fault, Appears, Content, Hidden, Consumed, Remote
<1>13. CASE RenameOnServer(w) BY <1>0, <1>13 DEF RenameOnServer, Go, Calls, Fault, Appears, Content, Hidden, Consumed, Remote
<1>14. CASE SizeAfterRename(w) BY <1>0, <1>14 DEF SizeAfterRename, Go, Calls, Fault, Appears, Content, Hidden, Consumed, Remote
<1>15. CASE HardLink(w) BY <1>0, <1>15 DEF HardLink, Go, Calls, Fault, Appears, Content, Hidden, Consumed, Remote
<1>16. CASE UnlinkTemp(w) BY <1>0, <1>16 DEF UnlinkTemp, Go, Calls, Fault, Appears, Content, Hidden, Consumed, Remote
<1>17. CASE TimesOut(w) BY <1>0, <1>17 DEF TimesOut, Go, Calls, Fault, Appears, Content, Hidden, Consumed, Remote
<1>18. CASE Report(w) BY <1>0, <1>18 DEF Report, Go, Calls, Fault, Appears, Content, Hidden, Consumed, Remote
<1>19. CASE DropStaged(w) BY <1>0, <1>19 DEF DropStaged, Go, Calls, Fault, Appears, Content, Hidden, Consumed, Remote
<1>20. CASE NoSession(w) BY <1>0, <1>20 DEF NoSession, Go, Calls, Fault, Appears, Content, Hidden, Consumed, Remote
<1>21. CASE Crash(w) BY <1>0, <1>21 DEF Crash, Go, Calls, Fault, Appears, Content, Hidden, Consumed, Places, Remote
<1> QED BY <1>1, <1>2, <1>3, <1>4, <1>5, <1>6, <1>7, <1>8, <1>9, <1>10, <1>11, <1>12, <1>13, <1>14, <1>15, <1>16, <1>17, <1>18, <1>19, <1>20, <1>21 DEF WriterStep

\* Nobody but the claimer touches a claimed name.
LEMMA ClaimStep ==
  ASSUME BackendTypeOK, OneClaim, 
         \A u \in Writer : Stage(u), NEW w \in Writer, WriterStep(w), ~Bypass
  PROVE  OneClaim'
<1>0. OthersStay(w) BY OthersStep
<1>1. CASE entry = Placeholder /\ entry' = entry
  <2>1. place'[w] = "claimed" => place[w] = "claimed"
    BY <1>1 DEF WriterStep, OpenWrite, WriteAll, WriteCut, Seal, CallFails, RenameOver, RenameNoReplace, RenameRefused, ClaimName, RenameOntoClaim, GiveClaimBack, ClearDestination, RenameOnServer, SizeAfterRename, HardLink, UnlinkTemp, TimesOut, Report, DropStaged, NoSession, Crash, Go, Calls, Fault, Appears, Content, Hidden, Consumed, Stage, BackendTypeOK
  <2> QED BY <1>0, <1>1, <2>1 DEF OneClaim, OthersStay
<1>2. CASE entry # Placeholder
  <2>1. \A u \in Writer : place[u] # "claimed" BY <1>2 DEF OneClaim
  <2>2. /\ place'[w] = "claimed" => entry' = Placeholder
        /\ entry' = Placeholder => protocol = "claim"
    BY <1>2, <2>1 DEF WriterStep, OpenWrite, WriteAll, WriteCut, Seal, CallFails, RenameOver, RenameNoReplace, RenameRefused, ClaimName, RenameOntoClaim, GiveClaimBack, ClearDestination, RenameOnServer, SizeAfterRename, HardLink, UnlinkTemp, TimesOut, Report, DropStaged, NoSession, Crash, Go, Calls, Fault, Appears, Content, Hidden, Consumed, BackendTypeOK
  <2> QED BY <1>0, <2>1, <2>2 DEF OneClaim, OthersStay
<1>3. CASE entry = Placeholder /\ entry' # entry
  <2>1. place[w] = "claimed" /\ place'[w] # "claimed"
    <3>1. CASE OpenWrite(w) BY <1>3, <3>1 DEF OpenWrite, Go, Calls, Fault, Appears, Content, Hidden, Consumed, Stage, OneClaim, BackendTypeOK, Remote
    <3>2. CASE WriteAll(w) BY <1>3, <3>2 DEF WriteAll, Go, Calls, Fault, Appears, Content, Hidden, Consumed, Stage, OneClaim, BackendTypeOK, Remote
    <3>3. CASE WriteCut(w) BY <1>3, <3>3 DEF WriteCut, Go, Calls, Fault, Appears, Content, Hidden, Consumed, Stage, OneClaim, BackendTypeOK, Remote
    <3>4. CASE Seal(w) BY <1>3, <3>4 DEF Seal, Go, Calls, Fault, Appears, Content, Hidden, Consumed, Stage, OneClaim, BackendTypeOK, Remote
    <3>5. CASE CallFails(w) BY <1>3, <3>5 DEF CallFails, Go, Calls, Fault, Appears, Content, Hidden, Consumed, Stage, OneClaim, BackendTypeOK, Remote
    <3>6. CASE RenameOver(w) BY <1>3, <3>6 DEF RenameOver, Go, Calls, Fault, Appears, Content, Hidden, Consumed, Stage, OneClaim, BackendTypeOK, Remote
    <3>7. CASE RenameNoReplace(w) BY <1>3, <3>7 DEF RenameNoReplace, Go, Calls, Fault, Appears, Content, Hidden, Consumed, Stage, OneClaim, BackendTypeOK, Remote
    <3>8. CASE RenameRefused(w) BY <1>3, <3>8 DEF RenameRefused, Go, Calls, Fault, Appears, Content, Hidden, Consumed, Stage, OneClaim, BackendTypeOK, Remote
    <3>9. CASE ClaimName(w) BY <1>3, <3>9 DEF ClaimName, Go, Calls, Fault, Appears, Content, Hidden, Consumed, Stage, OneClaim, BackendTypeOK, Remote
    <3>10. CASE RenameOntoClaim(w) BY <1>3, <3>10 DEF RenameOntoClaim, Go, Calls, Fault, Appears, Content, Hidden, Consumed, Stage, OneClaim, BackendTypeOK, Remote
    <3>11. CASE GiveClaimBack(w) BY <1>3, <3>11 DEF GiveClaimBack, Go, Calls, Fault, Appears, Content, Hidden, Consumed, Stage, OneClaim, BackendTypeOK, Remote
    <3>12. CASE ClearDestination(w) BY <1>3, <3>12 DEF ClearDestination, Go, Calls, Fault, Appears, Content, Hidden, Consumed, Stage, OneClaim, BackendTypeOK, Remote
    <3>13. CASE RenameOnServer(w) BY <1>3, <3>13 DEF RenameOnServer, Go, Calls, Fault, Appears, Content, Hidden, Consumed, Stage, OneClaim, BackendTypeOK, Remote
    <3>14. CASE SizeAfterRename(w) BY <1>3, <3>14 DEF SizeAfterRename, Go, Calls, Fault, Appears, Content, Hidden, Consumed, Stage, OneClaim, BackendTypeOK, Remote
    <3>15. CASE HardLink(w) BY <1>3, <3>15 DEF HardLink, Go, Calls, Fault, Appears, Content, Hidden, Consumed, Stage, OneClaim, BackendTypeOK, Remote
    <3>16. CASE UnlinkTemp(w) BY <1>3, <3>16 DEF UnlinkTemp, Go, Calls, Fault, Appears, Content, Hidden, Consumed, Stage, OneClaim, BackendTypeOK, Remote
    <3>17. CASE TimesOut(w) BY <1>3, <3>17 DEF TimesOut, Go, Calls, Fault, Appears, Content, Hidden, Consumed, Stage, OneClaim, BackendTypeOK, Remote
    <3>18. CASE Report(w) BY <1>3, <3>18 DEF Report, Go, Calls, Fault, Appears, Content, Hidden, Consumed, Stage, OneClaim, BackendTypeOK, Remote
    <3>19. CASE DropStaged(w) BY <1>3, <3>19 DEF DropStaged, Go, Calls, Fault, Appears, Content, Hidden, Consumed, Stage, OneClaim, BackendTypeOK, Remote
    <3>20. CASE NoSession(w) BY <1>3, <3>20 DEF NoSession, Go, Calls, Fault, Appears, Content, Hidden, Consumed, Stage, OneClaim, BackendTypeOK, Remote
    <3>21. CASE Crash(w) BY <1>3, <3>21 DEF Crash, Go, Calls, Fault, Appears, Content, Hidden, Consumed, Stage, OneClaim, BackendTypeOK, Remote
    <3> QED BY <3>1, <3>2, <3>3, <3>4, <3>5, <3>6, <3>7, <3>8, <3>9, <3>10, <3>11, <3>12, <3>13, <3>14, <3>15, <3>16, <3>17, <3>18, <3>19, <3>20, <3>21 DEF WriterStep
  <2> QED BY <1>0, <2>1 DEF OneClaim, OthersStay
<1> QED BY <1>1, <1>2, <1>3

LEMMA InvStep == ~Bypass /\ Inv /\ [BackendNext]_backendVars => Inv'
<1> SUFFICES ASSUME ~Bypass, Inv, [BackendNext]_backendVars PROVE Inv' OBVIOUS
<1>0. BackendTypeOK' BY TypeStep DEF Inv
<1>1. ASSUME NEW w \in Writer, WriterStep(w) PROVE Inv'
  <2>1. OthersStay(w) /\ Stage(w)' /\ OneClaim' BY <1>1, OthersStep, OwnStep, ClaimStep DEF Inv
  <2>2. \A u \in Writer \ {w} : Stage(u)' BY <2>1 DEF OthersStay, Stage, Inv
  <2> QED BY <1>0, <2>1, <2>2 DEF Inv
<1>2. CASE UNCHANGED backendVars \/ LoseSession \/ Stat
  <2>1. UNCHANGED <<protocol, replace, entry, temp, place, landed, verdict>>
    BY <1>2 DEF backendVars, writeVars, LoseSession, Stat
  <2> QED BY <1>0, <2>1 DEF Inv, Stage, OneClaim
<1>3. CASE People
  <2>1. UNCHANGED <<protocol, replace, temp, place, landed, verdict>> /\ entry # Placeholder
        /\ entry' # Placeholder
    BY <1>3 DEF People
  <2>2. \A w \in Writer : Stage(w)' BY <2>1 DEF Inv, Stage
  <2>3. OneClaim' BY <2>1 DEF Inv, OneClaim
  <2> QED BY <1>0, <2>2, <2>3 DEF Inv
<1> QED BY <1>1, <1>2, <1>3 DEF BackendNext

-----------------------------------------------------------------------------
(* The refinement. *)

promise == <<Published!backend, IF entry = Placeholder THEN Nothing ELSE entry, landed, verdict>>

\* A step of a writer is a step of the promise, or changes nothing it speaks of.
LEMMA WriterImplements ==
  ASSUME ~Bypass, Inv, NEW w \in Writer, WriterStep(w)
  PROVE  Published!Step \/ UNCHANGED promise
<1> USE DEF promise, Published!backend
<1>0. protocol' = protocol /\ replace' = replace BY DEF WriterStep, Quiet
<1>1. {u \in Writer : replace[u]}' = {u \in Writer : replace[u]} BY <1>0
<1>2. BackendTypeOK /\ Stage(w) /\ OneClaim BY DEF Inv
<1>3. ASSUME UNCHANGED <<entry, landed, verdict>> PROVE UNCHANGED promise
  BY <1>0, <1>1, <1>3
<1>4. ASSUME Published!Land(w) PROVE Published!Step
  BY <1>0, <1>1, <1>4 DEF Published!Step, Published!backend
<1>5. ASSUME Published!Clear(w) PROVE Published!Step
  BY <1>0, <1>1, <1>5 DEF Published!Step, Published!backend
<1>6. ASSUME Published!Spoil(w) PROVE Published!Step
  BY <1>0, <1>1, <1>6 DEF Published!Step, Published!backend
<1>7. ASSUME Published!Answer(w) PROVE Published!Step
  BY <1>0, <1>1, <1>7 DEF Published!Step, Published!backend
<1>8. CASE OpenWrite(w)
  BY <1>3, <1>8 DEF OpenWrite, Go, Calls, Fault, Appears, Content, Hidden, Consumed
<1>9. CASE WriteAll(w)
  BY <1>3, <1>9 DEF WriteAll, Go, Calls, Fault, Appears, Content, Hidden, Consumed
<1>10. CASE WriteCut(w)
  BY <1>3, <1>10 DEF WriteCut, Go, Calls, Fault, Appears, Content, Hidden, Consumed
<1>11. CASE Seal(w)
  BY <1>3, <1>11 DEF Seal, Go, Calls, Fault, Appears, Content, Hidden, Consumed
<1>12. CASE RenameRefused(w)
  BY <1>3, <1>12 DEF RenameRefused, Go, Calls, Fault, Appears, Content, Hidden, Consumed
<1>13. CASE SizeAfterRename(w)
  BY <1>3, <1>13 DEF SizeAfterRename, Go, Calls, Fault, Appears, Content, Hidden, Consumed
<1>14. CASE Crash(w)
  BY <1>3, <1>14 DEF Crash, Go, Calls, Fault, Appears, Content, Hidden, Consumed
<1>15. CASE ClaimName(w)
  <2>1. (IF entry' = Placeholder THEN Nothing ELSE entry')
          = (IF entry = Placeholder THEN Nothing ELSE entry)
    BY <1>2, <1>15 DEF ClaimName, Go, Calls, Fault, Appears, Content, Hidden, Consumed, OneClaim
  <2> QED BY <1>0, <1>1, <1>15, <2>1 DEF ClaimName
<1>16. CASE GiveClaimBack(w)
  <2>1. (IF entry' = Placeholder THEN Nothing ELSE entry')
          = (IF entry = Placeholder THEN Nothing ELSE entry)
    BY <1>2, <1>16 DEF GiveClaimBack, Go, Calls, Fault, Appears, Content, Hidden, Consumed, OneClaim
  <2> QED BY <1>0, <1>1, <1>16, <2>1 DEF GiveClaimBack
<1>17. CASE RenameOver(w)
  <2>1. Published!Land(w)
    BY <1>0, <1>2, <1>17 DEF RenameOver, Go, Calls, Fault, Appears, Content, Hidden, Consumed, Published!Land, Stage, OneClaim, Unanswered, BackendTypeOK, Remote
  <2> QED BY <1>4, <2>1
<1>18. CASE RenameNoReplace(w)
  <2>1. Published!Land(w)
    BY <1>0, <1>2, <1>18 DEF RenameNoReplace, Go, Calls, Fault, Appears, Content, Hidden, Consumed, Published!Land, Stage, OneClaim, Unanswered, BackendTypeOK, Remote
  <2> QED BY <1>4, <2>1
<1>19. CASE RenameOntoClaim(w)
  <2>1. Published!Land(w)
    BY <1>0, <1>2, <1>19 DEF RenameOntoClaim, Go, Calls, Fault, Appears, Content, Hidden, Consumed, Published!Land, Stage, OneClaim, Unanswered, BackendTypeOK, Remote
  <2> QED BY <1>4, <2>1
<1>20. CASE HardLink(w)
  <2>1. Published!Land(w)
    BY <1>0, <1>2, <1>20 DEF HardLink, Go, Calls, Fault, Appears, Content, Hidden, Consumed, Published!Land, Stage, OneClaim, Unanswered, BackendTypeOK, Remote
  <2> QED BY <1>4, <2>1
<1>21. CASE ClearDestination(w)
  <2>1. Published!Clear(w)
    BY <1>0, <1>2, <1>21 DEF ClearDestination, Go, Calls, Fault, Appears, Content, Hidden, Consumed, Published!Clear, Stage, Unanswered
  <2> QED BY <1>5, <2>1
<1>22. CASE RenameOnServer(w)
  <2>1. Published!Land(w) \/ Published!Spoil(w)
    BY <1>0, <1>2, <1>22 DEF RenameOnServer, Go, Calls, Fault, Appears, Content, Hidden, Consumed, Published!Land, Published!Spoil, Stage, Unanswered, BackendTypeOK
  <2> QED BY <1>4, <1>6, <2>1
<1>23. CASE TimesOut(w)
  <2>1. Published!Land(w) \/ Published!Spoil(w) \/ Published!Clear(w)
    BY <1>0, <1>2, <1>23 DEF TimesOut, Go, Calls, Fault, Appears, Content, Hidden, Consumed, Published!Land, Published!Spoil, Published!Clear, Stage,
       Unanswered, BackendTypeOK, Remote
  <2> QED BY <1>4, <1>5, <1>6, <2>1
<1>24. CASE CallFails(w)
  <2>1. Published!Answer(w) \/ UNCHANGED <<entry, landed, verdict>>
    BY <1>2, <1>24 DEF CallFails, Go, Calls, Fault, Appears, Content, Hidden, Consumed, Published!Answer, Stage, Unanswered, BackendTypeOK, Remote
  <2> QED BY <1>3, <1>7, <2>1
<1>25. CASE UnlinkTemp(w)
  <2>1. Published!Answer(w) \/ UNCHANGED <<entry, landed, verdict>>
    BY <1>2, <1>25 DEF UnlinkTemp, Go, Calls, Fault, Appears, Content, Hidden, Consumed, Published!Answer, Stage, Unanswered, BackendTypeOK, Remote
  <2> QED BY <1>3, <1>7, <2>1
<1>26. CASE Report(w)
  <2>1. Published!Answer(w) \/ UNCHANGED <<entry, landed, verdict>>
    BY <1>2, <1>26 DEF Report, Go, Calls, Fault, Appears, Content, Hidden, Consumed, Published!Answer, Stage, Unanswered, BackendTypeOK, Remote
  <2> QED BY <1>3, <1>7, <2>1
<1>27. CASE DropStaged(w)
  <2>1. Published!Answer(w) \/ UNCHANGED <<entry, landed, verdict>>
    BY <1>2, <1>27 DEF DropStaged, Go, Calls, Fault, Appears, Content, Hidden, Consumed, Published!Answer, Stage, Unanswered, BackendTypeOK, Remote
  <2> QED BY <1>3, <1>7, <2>1
<1>28. CASE NoSession(w)
  <2>1. Published!Answer(w) \/ UNCHANGED <<entry, landed, verdict>>
    BY <1>2, <1>28 DEF NoSession, Go, Calls, Fault, Appears, Content, Hidden, Consumed, Published!Answer, Stage, Unanswered, BackendTypeOK, Remote
  <2> QED BY <1>3, <1>7, <2>1
<1> QED
  BY <1>8, <1>9, <1>10, <1>11, <1>12, <1>13, <1>14, <1>15, <1>16, <1>17, <1>18, <1>19, <1>20, <1>21, <1>22, <1>23, <1>24, <1>25, <1>26, <1>27, <1>28 DEF WriterStep

LEMMA StartImplements == BackendInit => Published!Start
BY DEF BackendInit, Published!Start

LEMMA StepImplements ==
  ASSUME ~Bypass, Inv, [BackendNext]_backendVars
  PROVE  Published!Step \/ UNCHANGED promise
<1>1. CASE \E w \in Writer : WriterStep(w) BY <1>1, WriterImplements
<1>2. CASE UNCHANGED backendVars \/ LoseSession \/ Stat
  <2>1. UNCHANGED <<protocol, replace, entry, landed, verdict>>
    BY <1>2 DEF backendVars, writeVars, LoseSession, Stat
  <2> QED BY <2>1 DEF promise, Published!backend
<1>3. CASE People
  <2>1. UNCHANGED <<protocol, replace, landed, verdict>> /\ entry' \in {Nothing, Outsider}
    BY <1>3 DEF People
  <2> QED BY <2>1 DEF Published!Step, Published!Others, Published!backend
<1> QED BY <1>1, <1>2, <1>3 DEF BackendNext

-----------------------------------------------------------------------------
(* What is left behind, and what a stat says. *)

\* Before it opens and after it published a writer holds no temporary file; a crashed one may.
Tidy(w) ==
  /\ place[w] \in {"idle", "moved"} => temp[w] = "none"
  /\ place[w] = "done" /\ alive => temp[w] = "none"

NoLitter ==
  /\ \A w \in Writer : Tidy(w)
  /\ entry = Placeholder => \E w \in Writer : place[w] \in {"claimed", "crashed"}

LEMMA TidyStep ==
  ASSUME BackendTypeOK, NEW w \in Writer, Tidy(w), WriterStep(w)
  PROVE  Tidy(w)' /\ alive' = alive
<1> USE DEF BackendTypeOK, Tidy
<1>1. CASE OpenWrite(w) BY <1>1 DEF OpenWrite, Go, Calls, Fault, Appears, Content, Hidden, Consumed
<1>2. CASE WriteAll(w) BY <1>2 DEF WriteAll, Go, Calls, Fault, Appears, Content, Hidden, Consumed
<1>3. CASE WriteCut(w) BY <1>3 DEF WriteCut, Go, Calls, Fault, Appears, Content, Hidden, Consumed
<1>4. CASE Seal(w) BY <1>4 DEF Seal, Go, Calls, Fault, Appears, Content, Hidden, Consumed
<1>5. CASE CallFails(w) BY <1>5 DEF CallFails, Go, Calls, Fault, Appears, Content, Hidden, Consumed
<1>6. CASE RenameOver(w) BY <1>6 DEF RenameOver, Go, Calls, Fault, Appears, Content, Hidden, Consumed
<1>7. CASE RenameNoReplace(w) BY <1>7 DEF RenameNoReplace, Go, Calls, Fault, Appears, Content, Hidden, Consumed
<1>8. CASE RenameRefused(w) BY <1>8 DEF RenameRefused, Go, Calls, Fault, Appears, Content, Hidden, Consumed
<1>9. CASE ClaimName(w) BY <1>9 DEF ClaimName, Go, Calls, Fault, Appears, Content, Hidden, Consumed
<1>10. CASE RenameOntoClaim(w) BY <1>10 DEF RenameOntoClaim, Go, Calls, Fault, Appears, Content, Hidden, Consumed
<1>11. CASE GiveClaimBack(w) BY <1>11 DEF GiveClaimBack, Go, Calls, Fault, Appears, Content, Hidden, Consumed
<1>12. CASE ClearDestination(w) BY <1>12 DEF ClearDestination, Go, Calls, Fault, Appears, Content, Hidden, Consumed
<1>13. CASE RenameOnServer(w) BY <1>13 DEF RenameOnServer, Go, Calls, Fault, Appears, Content, Hidden, Consumed
<1>14. CASE SizeAfterRename(w) BY <1>14 DEF SizeAfterRename, Go, Calls, Fault, Appears, Content, Hidden, Consumed
<1>15. CASE HardLink(w) BY <1>15 DEF HardLink, Go, Calls, Fault, Appears, Content, Hidden, Consumed
<1>16. CASE UnlinkTemp(w) BY <1>16 DEF UnlinkTemp, Go, Calls, Fault, Appears, Content, Hidden, Consumed
<1>17. CASE TimesOut(w) BY <1>17 DEF TimesOut, Go, Calls, Fault, Appears, Content, Hidden, Consumed
<1>18. CASE Report(w) BY <1>18 DEF Report, Go, Calls, Fault, Appears, Content, Hidden, Consumed
<1>19. CASE DropStaged(w) BY <1>19 DEF DropStaged, Go, Calls, Fault, Appears, Content, Hidden, Consumed
<1>20. CASE NoSession(w) BY <1>20 DEF NoSession, Go, Calls, Fault, Appears, Content, Hidden, Consumed
<1>21. CASE Crash(w) BY <1>21 DEF Crash, Go, Calls, Fault, Appears, Content, Hidden, Consumed
<1> QED BY <1>1, <1>2, <1>3, <1>4, <1>5, <1>6, <1>7, <1>8, <1>9, <1>10, <1>11, <1>12, <1>13, <1>14, <1>15, <1>16, <1>17, <1>18, <1>19, <1>20, <1>21 DEF WriterStep

\* A placeholder is somebody's claim, or what a crash left of one.
LEMMA PlaceholderStep ==
  ASSUME BackendTypeOK, OneClaim, NoLitter, NEW w \in Writer, WriterStep(w), entry' = Placeholder
  PROVE  \E u \in Writer : place'[u] \in {"claimed", "crashed"}
<1>0. OthersStay(w) BY OthersStep
<1>1. CASE entry # Placeholder
  <2>1. place'[w] = "claimed"
    BY <1>1 DEF WriterStep, OpenWrite, WriteAll, WriteCut, Seal, CallFails, RenameOver, RenameNoReplace, RenameRefused, ClaimName, RenameOntoClaim, GiveClaimBack, ClearDestination, RenameOnServer, SizeAfterRename, HardLink, UnlinkTemp, TimesOut, Report, DropStaged, NoSession, Crash, Go, Calls, Fault, Appears, Content, Hidden, Consumed, BackendTypeOK
  <2> QED BY <2>1
<1>2. CASE entry = Placeholder
  <2>1. PICK u \in Writer : place[u] \in {"claimed", "crashed"} BY <1>2 DEF NoLitter
  <2>2. CASE u # w BY <1>0, <2>1, <2>2 DEF OthersStay
  <2>3. CASE u = w
    <3>1. place'[w] \in {"claimed", "crashed"}
      BY <2>1, <2>3 DEF WriterStep, OpenWrite, WriteAll, WriteCut, Seal, CallFails, RenameOver, RenameNoReplace, RenameRefused, ClaimName, RenameOntoClaim, GiveClaimBack, ClearDestination, RenameOnServer, SizeAfterRename, HardLink, UnlinkTemp, TimesOut, Report, DropStaged, NoSession, Crash, Go, Calls, Fault, Appears, Content, Hidden, Consumed, BackendTypeOK
    <3> QED BY <3>1
  <2> QED BY <2>2, <2>3
<1> QED BY <1>1, <1>2

LEMMA LitterStep == Inv /\ NoLitter /\ [BackendNext]_backendVars => NoLitter'
<1> SUFFICES ASSUME Inv, NoLitter, [BackendNext]_backendVars PROVE NoLitter' OBVIOUS
<1>1. ASSUME NEW w \in Writer, WriterStep(w) PROVE NoLitter'
  <2>1. OthersStay(w) /\ Tidy(w)' /\ alive' = alive BY <1>1, OthersStep, TidyStep DEF Inv, NoLitter
  <2>2. \A u \in Writer \ {w} : Tidy(u)' BY <2>1 DEF OthersStay, Tidy, NoLitter
  <2>3. entry' = Placeholder => \E u \in Writer : place'[u] \in {"claimed", "crashed"}
    BY <1>1, PlaceholderStep DEF Inv
  <2> QED BY <2>1, <2>2, <2>3 DEF NoLitter
<1>2. CASE UNCHANGED backendVars \/ LoseSession \/ Stat
  <2>1. UNCHANGED <<entry, temp, place>> /\ (alive' => alive)
    BY <1>2 DEF backendVars, writeVars, LoseSession, Stat
  <2> QED BY <2>1 DEF NoLitter, Tidy
<1>3. CASE People
  <2>1. UNCHANGED <<temp, place, alive>> /\ entry' # Placeholder BY <1>3 DEF People
  <2> QED BY <2>1 DEF NoLitter, Tidy
<1> QED BY <1>1, <1>2, <1>3 DEF BackendNext

\* The answer "absent" is given where the name was free, if the listing of the parent tells of it.
LEMMA AbsenceStep ==
  "parent" \notin Lies /\ BackendTypeOK /\ AbsenceIsReal /\ [BackendNext]_backendVars => AbsenceIsReal'
<1> SUFFICES ASSUME "parent" \notin Lies, BackendTypeOK, AbsenceIsReal, [BackendNext]_backendVars
             PROVE  AbsenceIsReal'
  OBVIOUS
<1>1. CASE UNCHANGED backendVars BY <1>1 DEF backendVars, AbsenceIsReal
<1>2. CASE Stat /\ gone' = (entry' = Nothing \/ (probe # "idle" /\ gone))
  <2>1. CASE Ask BY <2>1 DEF Ask, AbsenceIsReal
  <2>2. CASE StatAnswers
    BY <1>2, <2>2 DEF Stat, StatAnswers, Missing, writeVars, AbsenceIsReal, BackendTypeOK, Protocols, Remote
  <2>3. CASE ConfirmAbsent BY <1>2, <2>3 DEF Stat, ConfirmAbsent, Missing, writeVars, AbsenceIsReal
  <2>4. CASE StatFails BY <2>4 DEF StatFails, AbsenceIsReal
  <2> QED BY <1>2, <2>1, <2>2, <2>3, <2>4 DEF Stat
<1>3. CASE probe' = probe /\ gone' = (entry' = Nothing \/ (probe # "idle" /\ gone))
  BY <1>3 DEF AbsenceIsReal
<1>4. BackendNext => /\ gone' = (entry' = Nothing \/ (probe # "idle" /\ gone))
                     /\ Stat \/ probe' = probe
  BY DEF BackendNext, WriterStep, Quiet, LoseSession, People
<1> QED BY <1>1, <1>2, <1>3, <1>4

-----------------------------------------------------------------------------
\* The types, and what every place of a writer means, hold always.
THEOREM TypeCorrect == BackendSpec => []BackendTypeOK
<1>1. BackendInit => BackendTypeOK BY Initially DEF Inv
<1>2. BackendTypeOK /\ [BackendNext]_backendVars => BackendTypeOK' BY TypeStep
<1> QED BY <1>1, <1>2, PTL DEF BackendSpec

\* Without the fallback that renames over a claim, every backend implements Publication (the
\* staged write of fs/vfs/mod.rs): a reader of the final name sees the file that was there, a
\* complete new one, nothing where the backend clears the name first or has only claimed it, or,
\* on ftp, what an upload that was cut left; a no-replace commit spares what another put there;
\* who is told of success was seen. Publication says which of these each step allows.
THEOREM PromiseKept == ~Bypass /\ BackendSpec => KeepsThePromise
<1> SUFFICES ASSUME ~Bypass PROVE BackendSpec => KeepsThePromise OBVIOUS
<1>1. BackendInit => Inv /\ Published!Start BY Initially, StartImplements
<1>2. Inv /\ [BackendNext]_backendVars => Inv' BY InvStep
<1>3. Inv /\ [BackendNext]_backendVars => [Published!Step]_promise BY StepImplements
<1> QED BY <1>1, <1>2, <1>3, PTL DEF BackendSpec, KeepsThePromise, Published!Spec, promise

\* Without that fallback, a staged write that ended while its session lived left no temporary
\* file, and an empty placeholder at the final name belongs to a claim that is still under way or
\* to a writer that crashed in it (fs/vfs/mod.rs, the drop contract): a crash may leave one.
THEOREM NothingIsLeft == ~Bypass /\ BackendSpec => []NoDebris
<1> SUFFICES ASSUME ~Bypass PROVE BackendSpec => []NoDebris OBVIOUS
<1>1. BackendInit => Inv /\ NoLitter
  <2>1. BackendInit => NoLitter BY DEF BackendInit, NoLitter, Tidy
  <2> QED BY <2>1, Initially
<1>2. Inv /\ NoLitter /\ [BackendNext]_backendVars => Inv' /\ NoLitter' BY InvStep, LitterStep
<1>3. NoLitter => NoDebris BY DEF NoLitter, Tidy, NoDebris
<1> QED BY <1>1, <1>2, <1>3, PTL DEF BackendSpec

\* A stat that answers "absent" tells of a moment at which the name was free, although the server
\* may misreport the name itself (fs/vfs/absence.rs).
THEOREM AbsenceReal == "parent" \notin Lies /\ BackendSpec => []AbsenceIsReal
<1> SUFFICES ASSUME "parent" \notin Lies PROVE BackendSpec => []AbsenceIsReal OBVIOUS
<1>1. BackendInit => BackendTypeOK /\ AbsenceIsReal BY Initially DEF Inv, BackendInit, AbsenceIsReal
<1>2. /\ BackendTypeOK /\ AbsenceIsReal /\ [BackendNext]_backendVars
      => BackendTypeOK' /\ AbsenceIsReal'
  BY TypeStep, AbsenceStep
<1> QED BY <1>1, <1>2, PTL DEF BackendSpec

-----------------------------------------------------------------------------
(* The trash.                                                              *)

\* A nonempty set of numbers below a bound has a largest one.
LEMMA MaxIsIn ==
  ASSUME NEW n \in Nat, NEW S \in SUBSET (0 .. n), S # {}
  PROVE  Max(S) \in S
<1> DEFINE Below == {n - x : x \in S}
<1>1. \A x \in S : n - x \in Nat OBVIOUS
<1>a. Below \subseteq Nat /\ Below # {} BY <1>1
<1>2. PICK least \in Below : \A m \in Below : least <= m
  <2> HIDE DEF Below
  <2>1. PICK x \in Below : \A y \in Below : <<y, x>> \notin OpToRel(<, Nat)
    BY <1>a, NatLessThanWellFounded, WFMin
  <2>2. \A y \in Below : ~(y < x) BY <1>a, <2>1 DEF OpToRel
  <2> QED BY <1>a, <2>2
<1>3. PICK x \in S : least = n - x OBVIOUS
<1>4. \A y \in S : n - y \in Below OBVIOUS
<1>5. \A y \in S : least <= n - y BY <1>2, <1>4
<1>6. \A y \in S : x >= y BY <1>3, <1>5
<1> QED BY <1>6 DEF Max

\* The files of a trash, whatever is done to it, are of the paths and items there are.
THEOREM TrashTypeCorrect == TrashSpec => []TrashTypeOK
<1> USE TrashAssumption DEF TrashAssumption
<1> DEFINE Kept == [Rel -> Item \cup {Vacant}]
<1>1. NoHit \in [path : Rel, item : Item \cup {Vacant}] BY DEF NoHit
<1>2. TrashInit => TrashTypeOK BY <1>1 DEF TrashInit, TrashTypeOK, Empty, Runs
<1>3. TrashTypeOK /\ [TrashNext]_trashVars => TrashTypeOK'
  <2> SUFFICES ASSUME TrashTypeOK, [TrashNext]_trashVars PROVE TrashTypeOK' OBVIOUS
  <2> USE DEF TrashTypeOK
  <2>1. CASE UNCHANGED trashVars BY <2>1 DEF trashVars, Runs
  <2>2. CASE Tick BY <2>2 DEF Tick, Runs
  <2>3. ASSUME NEW files \in [Rel -> (Item \ Dangling) \cup {Vacant}], Displace(files) PROVE TrashTypeOK'
    <3>1. files \in Kept OBVIOUS
    <3>2. Runs' = Runs \cup {clock} /\ \A r \in Runs' : bin'[r] = IF r = clock THEN files ELSE bin[r]
      BY <2>3 DEF Displace, Runs
    <3>3. \A r \in Runs' : bin'[r] \in Kept BY <3>1, <3>2
    <3>4. Runs' \subseteq 0 .. clock'
      <4>1. clock' = clock /\ clock \in 0 .. clock
        <5>1. clock \in 0 .. MaxClock OBVIOUS
        <5>2. clock \in Nat BY <5>1
        <5> QED BY <2>3, <5>2 DEF Displace
      <4>2. Runs \subseteq 0 .. clock OBVIOUS
      <4> HIDE DEF TrashTypeOK, Runs
      <4> QED BY <3>2, <4>1, <4>2
    <3> QED BY <2>3, <3>3, <3>4 DEF Displace
  <2>4. CASE BeginPrune
    <3>1. Doomed \subseteq Runs
      <4>1. Expired \subseteq Runs /\ Crowded \subseteq Runs BY DEF Expired, Crowded
      <4>2. \A out \in SUBSET Runs : Evicted(out) \subseteq Runs BY DEF Evicted
      <4> QED BY <4>1, <4>2 DEF Doomed
    <3> QED BY <2>4, <3>1 DEF BeginPrune, Runs
  <2>5. ASSUME NEW r \in Runs, RemoveRun(r) PROVE TrashTypeOK'
    <3>1. Runs' \subseteq Runs /\ \A q \in Runs' : bin'[q] \in Kept
      <4>1. CASE bin' = [q \in Runs \ {r} |-> bin[q]] BY <4>1 DEF Runs
      <4>2. ASSUME NEW left \in SUBSET Rel,
                   bin' = [bin EXCEPT ![r] = [p \in Rel |-> IF p \in left THEN bin[r][p] ELSE Vacant]]
            PROVE  Runs' \subseteq Runs /\ \A q \in Runs' : bin'[q] \in Kept
        <5>1. [p \in Rel |-> IF p \in left THEN bin[r][p] ELSE Vacant] \in Kept OBVIOUS
        <5>2. Runs' = Runs BY <4>2 DEF Runs
        <5>3. \A q \in Runs : bin'[q] = IF q = r THEN [p \in Rel |-> IF p \in left THEN bin[r][p] ELSE Vacant] ELSE bin[q]
          BY <4>2 DEF Runs
        <5> QED BY <5>1, <5>2, <5>3
      <4> QED BY <2>5, <4>1, <4>2 DEF RemoveRun
    <3> QED BY <2>5, <3>1 DEF RemoveRun
  <2>6. ASSUME NEW paths \in SUBSET Rel, NEW among \in {Runs} \cup {{r} : r \in Runs},
               BeginTrashRestore(paths, among)
        PROVE  TrashTypeOK'
    <3>1. Hits(paths, among) \subseteq Rel \X (0 .. clock)
      <4>1. \A p \in Rel : (\E r \in among : bin[r][p] # Vacant) =>
               Max({r \in among : bin[r][p] # Vacant}) \in 0 .. clock
        <5> SUFFICES ASSUME NEW p \in Rel, \E r \in among : bin[r][p] # Vacant
                     PROVE  Max({r \in among : bin[r][p] # Vacant}) \in 0 .. clock
          OBVIOUS
        <5> DEFINE with == {r \in among : bin[r][p] # Vacant}
        <5>3. among \subseteq Runs /\ Runs \subseteq 0 .. clock OBVIOUS
        <5>4. clock \in 0 .. MaxClock OBVIOUS
        <5>5. with \subseteq among OBVIOUS
        <5>6. with # {} OBVIOUS
        <5>7. clock \in Nat BY <5>4
        <5>1. with \subseteq 0 .. clock BY <5>3, <5>5
        <5> HIDE DEF with
        <5>2. Max(with) \in with BY <5>1, <5>6, <5>7, MaxIsIn
        <5> QED BY <5>1, <5>2 DEF with
      <4>2. ASSUME NEW h \in Hits(paths, among) PROVE h \in Rel \X (0 .. clock)
        <5>1. PICK p \in paths : /\ \E r \in among : bin[r][p] # Vacant
                                 /\ h = <<p, Max({r \in among : bin[r][p] # Vacant})>>
          BY DEF Hits
        <5>2. p \in Rel OBVIOUS
        <5> QED BY <4>1, <5>1, <5>2
      <4> QED BY <4>2
    <3> QED BY <2>6, <3>1 DEF BeginTrashRestore, Runs
  <2>7. ASSUME NEW p \in Rel, NEW r \in 0 .. MaxClock, SkipExisting(p, r) \/ StageHit(p, r)
        PROVE  TrashTypeOK'
    <3>1. CASE SkipExisting(p, r) BY <3>1 DEF SkipExisting, Runs
    <3>2. CASE StageHit(p, r)
      <4>1. inHand' \in [path : Rel, item : Item \cup {Vacant}] BY <3>2 DEF StageHit
      <4> QED BY <3>2, <4>1 DEF StageHit, Runs
    <3> QED BY <2>7, <3>1, <3>2
  <2>8. CASE CommitHit BY <1>1, <2>8 DEF CommitHit, Runs
  <2>9. CASE HitFails BY <1>1, <2>9 DEF HitFails, Runs
  <2>10. ASSUME NEW p \in Rel, NEW i \in Item \cup {Vacant}, SaveAtDest(p, i) PROVE TrashTypeOK'
    BY <2>10 DEF SaveAtDest, Runs
  <2> QED BY <2>1, <2>2, <2>3, <2>4, <2>5, <2>6, <2>7, <2>8, <2>9, <2>10 DEF TrashNext
<1> QED BY <1>2, <1>3, PTL DEF TrashSpec

-----------------------------------------------------------------------------
(* The version history.                                                    *)

Restoring == {"restore", "displace", "put"}
Applying == {"apply", "keep", "remove", "record", "publish", "done", "index"}
Kept == {q \in File : session[q] # Gone}

\* retained_destination_count counts the files in the retention directory of the restore
\* that runs, and the restore displaces none of its paths twice.
SessionIsCounted ==
  /\ IsFiniteSet(Kept) /\ retained = Cardinality(Kept)
  /\ stage \notin Restoring => Kept = {}
  /\ stage \in {"displace", "put"} => at \in work
  /\ stage \in {"restore", "displace"} => \A p \in work : session[p] = Gone
  /\ stage = "put" => \A p \in work \ {at} : session[p] = Gone

LEMMA NothingIsCounted ==
  ASSUME session = NothingKept, retained = 0
  PROVE  IsFiniteSet(Kept) /\ retained = Cardinality(Kept) /\ Kept = {}
<1>1. Kept = {} BY DEF Kept, NothingKept
<1> QED BY <1>1, FS_EmptySet

VersionSmall ==
  /\ Nowhere \in File
  /\ NoPayload \notin Payload
  /\ Unwritten \in [File -> Payload \cup {NoPayload}]
  /\ NothingKept \in [File -> Bytes \cup {Gone}]

LEMMA VersionConstants == VersionSmall
<1>1. Nowhere \in File BY VersionAssumption DEF Nowhere, VersionAssumption
<1>2. NoPayload \notin Payload BY DEF NoPayload, Payload
<1> QED BY <1>1, <1>2 DEF VersionSmall, Unwritten, NothingKept

LEMMA VersionInitially == VersionInit => VersionTypeOK /\ SessionIsCounted
<1> SUFFICES ASSUME VersionInit PROVE VersionTypeOK /\ SessionIsCounted OBVIOUS
<1>1. VersionTypeOK
  <2> USE VersionConstants, VersionAssumption DEF VersionSmall, VersionAssumption
  <2>1. payload \in [Version -> [File -> Payload \cup {NoPayload}]] BY DEF VersionInit
  <2>2. manifest \in [Version -> SUBSET File] BY DEF VersionInit
  <2>3. /\ here \in [File -> Bytes \cup {Gone}] /\ there \in [File -> Bytes \cup {Gone}]
        /\ want \in [File -> Bytes \cup {Gone}] /\ session \in [File -> Bytes \cup {Gone}]
        /\ at \in File /\ staged \in Bytes \cup {Gone}
    BY DEF VersionInit
  <2>4. /\ work = {} /\ stage = "idle" /\ unindexed \in BOOLEAN /\ skewed \in BOOLEAN
        /\ stamp \in [Version -> Nat]
    BY DEF VersionInit
  <2> QED BY <2>1, <2>2, <2>3, <2>4 DEF VersionInit, VersionTypeOK
<1>2. SessionIsCounted
  BY NothingIsCounted DEF VersionInit, SessionIsCounted, Restoring
<1> QED BY <1>1, <1>2

LEMMA TroubleCounts ==
  ASSUME VersionTypeOK, Trouble \/ UNCHANGED troubles
  PROVE  troubles' \in 0 .. MaxTroubles
BY VersionAssumption DEF VersionTypeOK, Trouble, VersionAssumption

LEMMA PeopleTypes ==
  ASSUME VersionTypeOK, VersionPeople
  PROVE  VersionTypeOK'
<1> PICK p \in File, c \in Bytes \cup {Gone} : SaveHere(p, c) \/ SaveThere(p, c)
  BY DEF VersionPeople
<1>1. edits' \in 0 .. MaxEdits
  BY VersionAssumption DEF SaveHere, SaveThere, VersionTypeOK, VersionAssumption
<1>2. CASE SaveHere(p, c)
  BY <1>1, <1>2 DEF SaveHere, storeVars, writerVars, restoreVars, VersionTypeOK
<1>3. CASE SaveThere(p, c)
  BY <1>1, <1>3 DEF SaveThere, storeVars, writerVars, restoreVars, VersionTypeOK
<1> QED BY <1>2, <1>3

\* Payloads are what the version history can hold.
LEMMA PayloadsAre ==
  ASSUME NEW c \in Bytes, NEW b \in Bytes
  PROVE  Whole(c) \in Payload /\ Delta(c, b) \in Payload
BY DEF Whole, Delta, Payload

LEMMA ApplyTypes ==
  ASSUME VersionTypeOK, VersionApply, stage = "index" => writer \in Version /\ work = {}
  PROVE  VersionTypeOK'
<1> USE VersionAssumption DEF VersionAssumption
<1>1. ASSUME BeginApply PROVE VersionTypeOK'
  <2>1. work' \subseteq File /\ stage' = "apply" /\ want' = there
        /\ writer' = 0 /\ entries' = {} /\ unindexed' \in BOOLEAN
    BY <1>1 DEF BeginApply, To
  <2>2. UNCHANGED <<treeVars, storeVars, at, staged, restoreVars, broken, troubles>>
    BY <1>1 DEF BeginApply
  <2> QED BY <2>1, <2>2 DEF treeVars, storeVars, restoreVars, VersionTypeOK
<1>2. ASSUME NEW p \in File, StreamNew(p) PROVE VersionTypeOK'
  BY <1>2 DEF StreamNew, treeVars, storeVars, writerVars, restoreVars, VersionTypeOK
<1>3. ASSUME NEW p \in File, SourceChanged(p) PROVE VersionTypeOK'
  BY <1>3 DEF SourceChanged, treeVars, storeVars, writerVars, restoreVars, VersionTypeOK
<1>4. ASSUME OpenVersion PROVE VersionTypeOK'
  BY <1>4 DEF OpenVersion, treeVars, restoreVars, VersionTypeOK
<1>5. ASSUME KeepDelta PROVE VersionTypeOK'
  <2>1. here[at] \in Bytes /\ there[at] \in Bytes /\ writer \in Version
    BY <1>5 DEF KeepDelta, Eligible, VersionTypeOK, Version
  <2>2. payload' \in [Version -> [File -> Payload \cup {NoPayload}]]
    BY <1>5, <2>1, PayloadsAre DEF KeepDelta, VersionTypeOK
  <2> QED BY <1>5, <2>2 DEF KeepDelta, To, treeVars, restoreVars, VersionTypeOK
<1>6. ASSUME RemoveOriginal PROVE VersionTypeOK'
  BY <1>6 DEF RemoveOriginal, storeVars, restoreVars, VersionTypeOK
<1>7. ASSUME KeepWhole PROVE VersionTypeOK'
  <2>1. here[at] \in Bytes /\ writer \in Version
    BY <1>7 DEF KeepWhole, VersionTypeOK, Version
  <2>2. payload' \in [Version -> [File -> Payload \cup {NoPayload}]]
    BY <1>7, <2>1, PayloadsAre DEF KeepWhole, VersionTypeOK
  <2> QED BY <1>7, <2>2 DEF KeepWhole, To, restoreVars, VersionTypeOK
<1>8. ASSUME RecordWhole PROVE VersionTypeOK'
  BY <1>8 DEF RecordWhole, treeVars, storeVars, restoreVars, VersionTypeOK
<1>9. ASSUME PublishNew PROVE VersionTypeOK'
  BY <1>9 DEF PublishNew, storeVars, writerVars, restoreVars, VersionTypeOK
<1>10. ASSUME OperationDone PROVE VersionTypeOK'
  BY <1>10, VersionConstants
  DEF OperationDone, To, LeaveOp, treeVars, storeVars, writerVars, restoreVars, VersionTypeOK,
      VersionSmall
<1>11. ASSUME OperationFails PROVE VersionTypeOK'
  <2>1. troubles' \in 0 .. MaxTroubles BY <1>11, TroubleCounts DEF OperationFails
  <2>2. broken' \subseteq File BY <1>11 DEF OperationFails, BaseMissing, VersionTypeOK
  <2> QED BY <1>11, <2>1, <2>2, VersionConstants
          DEF OperationFails, LeaveOp, treeVars, storeVars, writerVars, restoreVars, VersionTypeOK,
              VersionSmall
<1>12. ASSUME CancelApply PROVE VersionTypeOK'
  BY <1>12 DEF CancelApply, treeVars, storeVars, writerVars, restoreVars, VersionTypeOK
<1>13. ASSUME FinishEmpty PROVE VersionTypeOK'
  <2>1. payload' \in [Version -> [File -> Payload \cup {NoPayload}]]
    BY <1>13, VersionConstants DEF FinishEmpty, VersionTypeOK, VersionSmall
  <2>2. /\ work' = {} /\ stage' = "idle" /\ want' = NothingKept
        /\ writer' = 0 /\ unindexed' \in BOOLEAN
        /\ UNCHANGED <<treeVars, manifest, index, begun, stamp, skewed, entries, at, staged,
                       restoreVars, broken, troubles>>
    BY <1>13 DEF FinishEmpty
  <2> QED BY <2>1, <2>2, VersionConstants DEF treeVars, restoreVars, VersionTypeOK, VersionSmall
<1>14. ASSUME FinishUnindexed PROVE VersionTypeOK'
  <2>1. /\ work' = {} /\ stage' = "idle" /\ want' = NothingKept
        /\ writer' = 0 /\ entries' = {} /\ unindexed' \in BOOLEAN
        /\ UNCHANGED <<treeVars, storeVars, at, staged, restoreVars, broken, troubles>>
    BY <1>14 DEF FinishUnindexed
  <2> QED BY <2>1, VersionConstants
          DEF treeVars, storeVars, restoreVars, VersionTypeOK, VersionSmall
<1>15. ASSUME WriteManifest PROVE VersionTypeOK'
  <2>1. stamp' \in [Version -> Nat] BY <1>15 DEF WriteManifest, VersionTypeOK
  <2>2. skewed' \in BOOLEAN BY <1>15 DEF WriteManifest, VersionTypeOK
  <2>3. manifest' \in [Version -> SUBSET File] BY <1>15 DEF WriteManifest, VersionTypeOK
  <2>4. /\ stage' = "index"
        /\ UNCHANGED <<treeVars, want, payload, index, begun, writerVars, work, at, staged,
                       restoreVars, broken, troubles>>
    BY <1>15 DEF WriteManifest
  <2>5. stage = "apply" BY <1>15 DEF WriteManifest
  <2> QED BY <2>1, <2>2, <2>3, <2>4, <2>5 DEF treeVars, writerVars, restoreVars, VersionTypeOK
<1>16. ASSUME WriteIndex, stage = "index" => writer \in Version /\ work = {} PROVE VersionTypeOK'
  <2>1. /\ index' \subseteq Version /\ work' = {} /\ stage' = "idle" /\ want' = NothingKept
        /\ writer' = 0 /\ entries' = {}
        /\ UNCHANGED <<treeVars, payload, manifest, begun, stamp, skewed, unindexed, at, staged,
                       restoreVars, broken, troubles>>
    BY <1>16 DEF WriteIndex, To, VersionTypeOK
  <2> QED BY <2>1, VersionConstants
          DEF treeVars, restoreVars, VersionTypeOK, VersionSmall
<1> QED BY <1>1, <1>2, <1>3, <1>4, <1>5, <1>6, <1>7, <1>8, <1>9, <1>10, <1>11, <1>12, <1>13,
           <1>14, <1>15, <1>16 DEF VersionApply

LEMMA PruneTypes ==
  ASSUME VersionTypeOK, VersionPrune
  PROVE  VersionTypeOK'
<1> USE VersionAssumption DEF VersionAssumption
<1>1. ASSUME NEW keep \in 0 .. MaxKeep, PruneIndex(keep) PROVE VersionTypeOK'
  <2>1. work' \subseteq Version /\ index' \subseteq Version /\ stage' = "prune"
    BY <1>1 DEF PruneIndex, To, Newest, VersionTypeOK
  <2>2. UNCHANGED <<treeVars, want, payload, manifest, begun, stamp, skewed, writerVars, at, staged,
                    restoreVars, broken, troubles>>
    BY <1>1 DEF PruneIndex
  <2> QED BY <2>1, <2>2 DEF treeVars, writerVars, restoreVars, VersionTypeOK
<1>2. ASSUME NEW v \in Version, PruneDirectory(v) PROVE VersionTypeOK'
  <2>1. payload' \in [Version -> [File -> Payload \cup {NoPayload}]]
        /\ manifest' \in [Version -> SUBSET File]
    BY <1>2, VersionConstants DEF PruneDirectory, VersionTypeOK, VersionSmall
  <2>2. work' \subseteq Version /\ stage = "prune" BY <1>2 DEF PruneDirectory, VersionTypeOK
  <2> QED BY <1>2, <2>1, <2>2
          DEF PruneDirectory, treeVars, writerVars, restoreVars, VersionTypeOK
<1>3. ASSUME PruneEnds PROVE VersionTypeOK'
  <2>1. troubles' \in 0 .. MaxTroubles BY <1>3, TroubleCounts DEF PruneEnds
  <2>2. work' = {} /\ stage' = "idle"
        /\ UNCHANGED <<treeVars, want, storeVars, writerVars, at, staged, restoreVars, broken>>
    BY <1>3 DEF PruneEnds, To
  <2> QED BY <2>1, <2>2 DEF treeVars, storeVars, writerVars, restoreVars, VersionTypeOK
<1> QED BY <1>1, <1>2, <1>3 DEF VersionPrune

LEMMA RestoreTypes ==
  ASSUME VersionTypeOK, SessionIsCounted, stage \in Restoring => writer \in Version, VersionRestore
  PROVE  VersionTypeOK'
<1> USE VersionAssumption DEF VersionAssumption
<1>w. stage \in Restoring => writer \in Version OBVIOUS
<1>1. ASSUME NEW v \in Version, NEW chosen \in SUBSET File, BeginRestore(v, chosen)
      PROVE  VersionTypeOK'
  <2>1. /\ stage' = "restore" /\ work' = chosen /\ writer' = v /\ session' = NothingKept /\ retained' = 0
        /\ UNCHANGED <<treeVars, want, storeVars, entries, unindexed, at, staged, attic, broken, troubles>>
    BY <1>1 DEF BeginRestore, To
  <2>2. writer' \in 0 .. MaxVersions BY <2>1 DEF Version
  <2> QED BY <2>1, <2>2, VersionConstants DEF treeVars, storeVars, VersionTypeOK, VersionSmall
<1>2. ASSUME NEW p \in File, StageOld(p) PROVE VersionTypeOK'
  <2>1. CASE Restorable(writer, p)
    <3>1. writer \in Version => payload[writer][p] \in Payload
      BY <2>1 DEF Restorable, VersionTypeOK, NoPayload
    <3>2. writer \in Version BY <1>2, <1>w DEF StageOld, Restoring
    <3> QED BY <1>2, <2>1, <3>1, <3>2
            DEF StageOld, Payload, treeVars, storeVars, writerVars, restoreVars, VersionTypeOK
  <2>2. CASE ~Restorable(writer, p)
    BY <1>2, <2>2 DEF StageOld, treeVars, storeVars, writerVars, restoreVars, VersionTypeOK
  <2> QED BY <2>1, <2>2
<1>3. ASSUME DisplaceCurrent PROVE VersionTypeOK'
  BY <1>3 DEF DisplaceCurrent, To, storeVars, writerVars, VersionTypeOK
<1>4. ASSUME PutOld PROVE VersionTypeOK'
  BY <1>4, VersionConstants
  DEF PutOld, EntryDone, LeaveOp, storeVars, writerVars, restoreVars, VersionTypeOK, VersionSmall
<1>5. ASSUME PutRefused PROVE VersionTypeOK'
  BY <1>5, VersionConstants
  DEF PutRefused, EntryDone, LeaveOp, treeVars, storeVars, writerVars, restoreVars, VersionTypeOK,
      VersionSmall
<1>6. ASSUME PutFails PROVE VersionTypeOK'
  <2>1. troubles' \in 0 .. MaxTroubles BY <1>6, TroubleCounts DEF PutFails
  <2>2. PICK goesBack \in BOOLEAN :
          LET back == goesBack /\ session[at] # Gone /\ here[at] = Gone
          IN  /\ here' = IF back THEN [here EXCEPT ![at] = session[at]] ELSE here
              /\ session' = IF back THEN [session EXCEPT ![at] = Gone] ELSE session
              /\ retained' = IF back THEN retained - 1 ELSE retained
    BY <1>6 DEF PutFails
  <2>3. session[at] # Gone => retained - 1 \in Nat
    <3>1. session[at] # Gone => at \in Kept BY DEF Kept, VersionTypeOK
    <3>2. Kept # {} => retained # 0
      BY FS_EmptySet DEF SessionIsCounted
    <3> QED BY <3>1, <3>2 DEF VersionTypeOK
  <2>4. here' \in [File -> Bytes \cup {Gone}] /\ session' \in [File -> Bytes \cup {Gone}]
        /\ retained' \in Nat
    BY <2>2, <2>3 DEF VersionTypeOK
  <2> QED BY <1>6, <2>1, <2>4, VersionConstants
          DEF PutFails, EntryDone, LeaveOp, storeVars, writerVars, VersionTypeOK, VersionSmall
<1>7. ASSUME EndRestore PROVE VersionTypeOK'
  <2>1. InSession \subseteq File \X Bytes BY DEF InSession, VersionTypeOK
  <2>2. /\ stage' = "idle" /\ work' = {} /\ writer' = 0 /\ session' = NothingKept /\ retained' = 0
        /\ attic' \subseteq attic \cup InSession
        /\ UNCHANGED <<treeVars, want, storeVars, entries, unindexed, at, staged, broken, troubles>>
    BY <1>7 DEF EndRestore, To
  <2> QED BY <2>1, <2>2, VersionConstants DEF treeVars, storeVars, VersionTypeOK, VersionSmall
<1> QED BY <1>1, <1>2, <1>3, <1>4, <1>5, <1>6, <1>7 DEF VersionRestore

-----------------------------------------------------------------------------
\* What a version has a manifest for is in its directory; what an apply has entered is in
\* that of its writer, which no manifest and no index names before the run ends; what a
\* prune has still to remove is not in the index.
HistoryIsWhole ==
  /\ \A v \in Version : \A p \in manifest[v] : payload[v][p] # NoPayload
  /\ \A v \in index : manifest[v] # {} /\ v <= begun
  /\ \A v \in Version : v > begun => manifest[v] = {}
  /\ stage = "prune" => work \cap index = {}
  /\ stage \in Restoring => writer \in Version

WriterIsApart ==
  stage \in Applying =>
    /\ writer <= begun
    /\ entries # {} => writer # 0
    /\ \A p \in entries : payload[writer][p] # NoPayload
    /\ writer # 0 /\ stage # "index" => manifest[writer] = {} /\ writer \notin index
    /\ stage \in {"remove", "record"} => writer # 0 /\ payload[writer][at] # NoPayload
    /\ stage = "index" => manifest[writer] = entries /\ entries # {} /\ work = {}

\* A step that leaves the store and the writer alone disturbs neither.
LEMMA StoreIsLeft ==
  ASSUME VersionTypeOK, HistoryIsWhole, WriterIsApart, UNCHANGED <<storeVars, writer, entries>>,
         stage' \in Applying => stage \in Applying,
         stage' = "index" => stage = "index" /\ UNCHANGED work,
         stage' \in {"remove", "record"} => stage' = stage /\ UNCHANGED at,
         stage' = "prune" => stage = "prune" /\ work' \subseteq work,
         stage' \in Restoring => stage \in Restoring,
         stage = "index" => stage' \notin Applying \ {"index"}
  PROVE  HistoryIsWhole' /\ WriterIsApart'
<1> UNCHANGED <<payload, manifest, index, begun>> BY DEF storeVars
<1>1. HistoryIsWhole' BY DEF HistoryIsWhole
<1>2. WriterIsApart' BY DEF WriterIsApart, Applying
<1> QED BY <1>1, <1>2

LEMMA StoreStaysWhole ==
  ASSUME VersionTypeOK, HistoryIsWhole, WriterIsApart, [VersionNext]_versionVars
  PROVE  HistoryIsWhole' /\ WriterIsApart'
<1> USE VersionAssumption DEF VersionAssumption
<1>i. index \subseteq Version /\ manifest \in [Version -> SUBSET File] /\ begun \in 0 .. MaxVersions
      /\ payload \in [Version -> [File -> Payload \cup {NoPayload}]] /\ writer \in 0 .. MaxVersions
      /\ at \in File
  BY DEF VersionTypeOK
<1>n. \A c \in Bytes, b \in Bytes : Whole(c) # NoPayload /\ Delta(c, b) # NoPayload
  BY DEF Whole, Delta, NoPayload
<1>1. CASE UNCHANGED versionVars
  BY <1>1, StoreIsLeft DEF versionVars, storeVars
<1>2. CASE VersionPeople
  <2>1. UNCHANGED <<storeVars, writer, entries, stage, work, at>>
    BY <1>2 DEF VersionPeople, SaveHere, SaveThere, writerVars
  <2> QED BY <2>1, StoreIsLeft
<1>3. CASE VersionApply
  <2>1. ASSUME BeginApply PROVE HistoryIsWhole' /\ WriterIsApart'
    <3>1. stage' = "apply" /\ writer' = 0 /\ entries' = {} /\ UNCHANGED <<payload, manifest, index, begun>>
      BY <2>1 DEF BeginApply, To, storeVars
    <3>2. HistoryIsWhole' BY <3>1 DEF HistoryIsWhole, Restoring
    <3>3. WriterIsApart' BY <3>1, <1>i DEF WriterIsApart
    <3> QED BY <3>2, <3>3
  <2>2. ASSUME NEW p \in File, StreamNew(p) \/ SourceChanged(p)
        PROVE  HistoryIsWhole' /\ WriterIsApart'
    <3>1. /\ stage = "apply" /\ stage' \in {"apply", "keep", "publish", "done"}
          /\ UNCHANGED <<storeVars, writer, entries>>
      BY <2>2 DEF StreamNew, SourceChanged, writerVars
    <3> QED BY <3>1, StoreIsLeft DEF Applying, Restoring
  <2>3. ASSUME OpenVersion PROVE HistoryIsWhole' /\ WriterIsApart'
    <3>1. /\ stage = "keep" /\ writer = 0 /\ begun' = begun + 1 /\ writer' = begun + 1
          /\ writer' \in Version
          /\ UNCHANGED <<stage, payload, manifest, index, entries, work, at>>
      BY <2>3, <1>i DEF OpenVersion, Version
    <3>2. entries = {} BY <3>1 DEF WriterIsApart, Applying
    <3>3. manifest[writer'] = {} /\ writer' \notin index
      BY <3>1, <1>i DEF HistoryIsWhole, Version
    <3>4. HistoryIsWhole' BY <3>1, <1>i DEF HistoryIsWhole, Version, Restoring
    <3>5. WriterIsApart' BY <3>1, <3>2, <3>3, <1>i DEF WriterIsApart
    <3> QED BY <3>4, <3>5
  <2>4. ASSUME KeepDelta \/ KeepWhole PROVE HistoryIsWhole' /\ WriterIsApart'
    <3>1. PICK new \in Payload :
            /\ payload' = [payload EXCEPT ![writer][at] = new] /\ new # NoPayload
            /\ stage = "keep" /\ stage' \in {"remove", "record"} /\ writer # 0
            /\ UNCHANGED <<manifest, index, begun, writer, entries, at>>
      <4>1. CASE KeepDelta
        <5>1. here[at] \in Bytes /\ there[at] \in Bytes BY <4>1 DEF KeepDelta, Eligible
        <5> QED BY <4>1, <5>1, <1>n, PayloadsAre DEF KeepDelta, To
      <4>2. CASE KeepWhole
        <5>1. here[at] \in Bytes BY <4>2 DEF KeepWhole, VersionTypeOK
        <5> QED BY <4>2, <5>1, <1>n, PayloadsAre DEF KeepWhole, To
      <4> QED BY <2>4, <4>1, <4>2
    <3>2. writer \in Version /\ payload'[writer][at] # NoPayload BY <3>1, <1>i DEF Version
    <3>3. \A v \in Version, p \in File : payload[v][p] # NoPayload => payload'[v][p] # NoPayload
      BY <3>1, <3>2, <1>i
    <3>4. HistoryIsWhole' BY <3>1, <3>3, <1>i DEF HistoryIsWhole, Restoring
    <3>5. entries \subseteq File BY DEF VersionTypeOK
    <3>6. WriterIsApart' BY <3>1, <3>2, <3>3, <3>5 DEF WriterIsApart, Applying
    <3> QED BY <3>4, <3>6
  <2>5. ASSUME RemoveOriginal \/ RecordWhole PROVE HistoryIsWhole' /\ WriterIsApart'
    <3>1. /\ stage \in {"remove", "record"} /\ stage' \in {"publish", "done"}
          /\ entries' = entries \cup {at}
          /\ UNCHANGED <<payload, manifest, index, begun, writer>>
      BY <2>5 DEF RemoveOriginal, RecordWhole, storeVars
    <3>2. HistoryIsWhole' BY <3>1 DEF HistoryIsWhole, Restoring
    <3>3. WriterIsApart' BY <3>1 DEF WriterIsApart, Applying
    <3> QED BY <3>2, <3>3
  <2>6. ASSUME PublishNew \/ OperationDone \/ OperationFails \/ CancelApply
        PROVE  HistoryIsWhole' /\ WriterIsApart'
    <3>1. /\ stage \in Applying \ {"index"} /\ stage' \in {"done", "apply"}
          /\ UNCHANGED <<storeVars, writer, entries>>
      BY <2>6 DEF PublishNew, OperationDone, OperationFails, CancelApply, To, writerVars, Applying
    <3> QED BY <3>1, StoreIsLeft DEF Restoring, Applying
  <2>7. ASSUME FinishEmpty PROVE HistoryIsWhole' /\ WriterIsApart'
    <3>1. /\ stage = "apply" /\ stage' = "idle" /\ UNCHANGED <<manifest, index, begun>>
          /\ \/ UNCHANGED payload
             \/ writer # 0 /\ payload' = [payload EXCEPT ![writer] = Unwritten]
      BY <2>7 DEF FinishEmpty
    <3>2. writer # 0 => manifest[writer] = {} BY <3>1 DEF WriterIsApart, Applying
    <3>3. HistoryIsWhole' BY <3>1, <3>2, <1>i DEF HistoryIsWhole, Restoring
    <3>4. WriterIsApart' BY <3>1 DEF WriterIsApart, Applying
    <3> QED BY <3>3, <3>4
  <2>8. ASSUME FinishUnindexed PROVE HistoryIsWhole' /\ WriterIsApart'
    <3>1. stage' = "idle" /\ UNCHANGED <<payload, manifest, index, begun>>
      BY <2>8 DEF FinishUnindexed, storeVars
    <3> QED BY <3>1 DEF HistoryIsWhole, WriterIsApart, Applying, Restoring
  <2>9. ASSUME WriteManifest PROVE HistoryIsWhole' /\ WriterIsApart'
    <3>1. /\ stage = "apply" /\ work = {} /\ entries # {} /\ stage' = "index"
          /\ manifest' = [manifest EXCEPT ![writer] = entries]
          /\ UNCHANGED <<payload, index, begun, writer, entries, work>>
      BY <2>9 DEF WriteManifest, writerVars
    <3>2. writer \in Version /\ writer <= begun /\ writer \notin index
          /\ \A p \in entries : payload[writer][p] # NoPayload
      BY <3>1, <1>i DEF WriterIsApart, Applying, Version
    <3>3. HistoryIsWhole' BY <3>1, <3>2, <1>i DEF HistoryIsWhole, Restoring
    <3>5. manifest'[writer'] = entries' /\ entries' # {} /\ work' = {} /\ writer' # 0
          /\ \A p \in entries' : payload'[writer'][p] # NoPayload
      BY <3>1, <3>2, <1>i DEF Version
    <3>6. writer' <= begun' BY <3>1, <3>2
    <3>4. WriterIsApart' BY <3>1, <3>5, <3>6 DEF WriterIsApart
    <3> QED BY <3>3, <3>4
  <2>10. ASSUME WriteIndex PROVE HistoryIsWhole' /\ WriterIsApart'
    <3>1. /\ stage = "index" /\ stage' = "idle" /\ index' = index \cup {writer}
          /\ UNCHANGED <<payload, manifest, begun>>
      BY <2>10 DEF WriteIndex, To
    <3>2. manifest[writer] # {} /\ writer <= begun BY <3>1 DEF WriterIsApart, Applying
    <3>3. HistoryIsWhole' BY <3>1, <3>2 DEF HistoryIsWhole, Restoring
    <3>4. WriterIsApart' BY <3>1 DEF WriterIsApart, Applying
    <3> QED BY <3>3, <3>4
  <2> QED BY <1>3, <2>1, <2>2, <2>3, <2>4, <2>5, <2>6, <2>7, <2>8, <2>9, <2>10 DEF VersionApply
<1>4. CASE VersionPrune
  <2>1. ASSUME NEW keep \in 0 .. MaxKeep, PruneIndex(keep) PROVE HistoryIsWhole' /\ WriterIsApart'
    <3>1. /\ stage' = "prune" /\ work' = index \ Newest(keep) /\ index' = Newest(keep)
          /\ Newest(keep) \subseteq index /\ UNCHANGED <<payload, manifest, begun>>
      BY <2>1 DEF PruneIndex, To, Newest
    <3>2. HistoryIsWhole' BY <3>1 DEF HistoryIsWhole, Restoring
    <3>3. WriterIsApart' BY <3>1 DEF WriterIsApart, Applying
    <3> QED BY <3>2, <3>3
  <2>2. ASSUME NEW v \in Version, PruneDirectory(v) PROVE HistoryIsWhole' /\ WriterIsApart'
    <3>1. /\ stage = "prune" /\ stage' = "prune" /\ v \in work /\ work' = work \ {v}
          /\ payload' = [payload EXCEPT ![v] = Unwritten] /\ manifest' = [manifest EXCEPT ![v] = {}]
          /\ UNCHANGED <<index, begun>>
      BY <2>2 DEF PruneDirectory
    <3>2. v \notin index BY <3>1 DEF HistoryIsWhole
    <3>3. HistoryIsWhole' BY <3>1, <3>2, <1>i DEF HistoryIsWhole, Restoring
    <3>4. WriterIsApart' BY <3>1 DEF WriterIsApart, Applying
    <3> QED BY <3>3, <3>4
  <2>3. ASSUME PruneEnds PROVE HistoryIsWhole' /\ WriterIsApart'
    <3>1. stage' = "idle" /\ UNCHANGED <<storeVars, writer, entries>>
      BY <2>3 DEF PruneEnds, To, writerVars
    <3> QED BY <3>1, StoreIsLeft DEF Applying, Restoring
  <2> QED BY <1>4, <2>1, <2>2, <2>3 DEF VersionPrune
<1>5. CASE VersionRestore
  <2>1. ASSUME NEW v \in Version, NEW chosen \in SUBSET File, BeginRestore(v, chosen)
        PROVE  HistoryIsWhole' /\ WriterIsApart'
    <3>1. stage' = "restore" /\ writer' = v /\ UNCHANGED <<payload, manifest, index, begun>>
      BY <2>1 DEF BeginRestore, To, storeVars
    <3> QED BY <3>1 DEF HistoryIsWhole, WriterIsApart, Applying
  <2>2. CASE \/ \E p \in File : StageOld(p)
             \/ DisplaceCurrent \/ PutOld \/ PutRefused \/ PutFails
    <3>1. stage \in Restoring /\ stage' \in Restoring /\ UNCHANGED <<storeVars, writer, entries>>
      BY <2>2 DEF StageOld, DisplaceCurrent, PutOld, PutRefused, PutFails, EntryDone, To, writerVars,
                  Restoring
    <3> QED BY <3>1, StoreIsLeft DEF Applying, Restoring
  <2>3. ASSUME EndRestore PROVE HistoryIsWhole' /\ WriterIsApart'
    <3>1. stage' = "idle" /\ UNCHANGED <<payload, manifest, index, begun>>
      BY <2>3 DEF EndRestore, To, storeVars
    <3> QED BY <3>1 DEF HistoryIsWhole, WriterIsApart, Applying, Restoring
  <2> QED BY <1>5, <2>1, <2>2, <2>3 DEF VersionRestore
<1>6. CASE CrashMutator
  <2>1. stage' = "idle" /\ UNCHANGED <<payload, manifest, index, begun>>
    BY <1>6 DEF CrashMutator, storeVars
  <2> QED BY <2>1 DEF HistoryIsWhole, WriterIsApart, Applying, Restoring
<1> QED BY <1>1, <1>2, <1>3, <1>4, <1>5, <1>6 DEF VersionNext

-----------------------------------------------------------------------------
LEMMA CountStays ==
  ASSUME VersionTypeOK, SessionIsCounted, [VersionNext]_versionVars
  PROVE  SessionIsCounted'
<1>t. /\ session \in [File -> Bytes \cup {Gone}] /\ retained \in Nat /\ at \in File
      /\ stage # "prune" => work \subseteq File
      /\ here \in [File -> Bytes \cup {Gone}]
  BY DEF VersionTypeOK
<1>q. ASSUME UNCHANGED <<session, retained>>, stage \notin Restoring, stage' \notin Restoring
      PROVE  SessionIsCounted'
  <2>1. Kept' = Kept BY <1>q DEF Kept
  <2> QED BY <1>q, <2>1 DEF SessionIsCounted, Restoring
<1>z. ASSUME session' = NothingKept, retained' = 0, stage' \in {"restore", "idle"},
             stage' = "restore" => work' \subseteq File
      PROVE  SessionIsCounted'
  <2>1. Kept' = {} BY <1>z DEF Kept, NothingKept
  <2>2. stage' = "restore" => \A p \in work' : session'[p] = Gone BY <1>z DEF NothingKept
  <2> QED BY <1>z, <2>1, <2>2, FS_EmptySet DEF SessionIsCounted
<1>d. ASSUME UNCHANGED <<session, retained>>, stage = "put", stage' = "restore", work' = work \ {at}
      PROVE  SessionIsCounted'
  <2>1. Kept' = Kept BY <1>d DEF Kept
  <2> QED BY <1>d, <2>1 DEF SessionIsCounted, Restoring
<1>1. CASE UNCHANGED versionVars
  <2>1. UNCHANGED <<session, retained, stage, work, at>> BY <1>1 DEF versionVars
  <2>2. Kept' = Kept BY <2>1 DEF Kept
  <2> QED BY <2>1, <2>2 DEF SessionIsCounted, Restoring
<1>2. CASE VersionPeople
  <2>1. UNCHANGED <<session, retained, stage, work, at>>
    BY <1>2 DEF VersionPeople, SaveHere, SaveThere, restoreVars
  <2>2. Kept' = Kept BY <2>1 DEF Kept
  <2> QED BY <2>1, <2>2 DEF SessionIsCounted, Restoring
<1>3. CASE VersionApply
  <2>1. UNCHANGED <<session, retained>> /\ stage \notin Restoring /\ stage' \notin Restoring
    BY <1>3 DEF VersionApply, BeginApply, StreamNew, SourceChanged, OpenVersion, KeepDelta,
        RemoveOriginal, KeepWhole, RecordWhole, PublishNew, OperationDone, OperationFails,
        CancelApply, FinishEmpty, FinishUnindexed, WriteManifest, WriteIndex, To, restoreVars,
        Restoring
  <2> QED BY <2>1, <1>q
<1>4. CASE VersionPrune
  <2>1. UNCHANGED <<session, retained>> /\ stage \notin Restoring /\ stage' \notin Restoring
    BY <1>4 DEF VersionPrune, PruneIndex, PruneDirectory, PruneEnds, To, restoreVars, Restoring
  <2> QED BY <2>1, <1>q
<1>5. CASE VersionRestore
  <2>1. ASSUME NEW v \in Version, NEW chosen \in SUBSET File, BeginRestore(v, chosen)
        PROVE  SessionIsCounted'
    BY <2>1, <1>z DEF BeginRestore, To
  <2>2. ASSUME NEW p \in File, StageOld(p) PROVE SessionIsCounted'
    <3>1. /\ stage = "restore" /\ UNCHANGED <<session, retained>> /\ work' \subseteq work
          /\ \/ stage' = "displace" /\ at' \in work'
             \/ stage' = "restore"
      BY <2>2 DEF StageOld, restoreVars
    <3>2. Kept' = Kept BY <3>1 DEF Kept
    <3> QED BY <3>1, <3>2 DEF SessionIsCounted, Restoring
  <2>3. ASSUME DisplaceCurrent PROVE SessionIsCounted'
    <3>1. stage = "displace" /\ stage' = "put" /\ UNCHANGED <<work, at>>
      BY <2>3 DEF DisplaceCurrent, To
    <3>5. at \in work /\ \A p \in work : session[p] = Gone BY <3>1 DEF SessionIsCounted
    <3>2. at \in work /\ at \in File /\ session[at] = Gone
          /\ \A p \in work : p \in File /\ session[p] = Gone
      BY <3>1, <3>5, <1>t
    <3>3. CASE here[at] = Gone
      <4>1. UNCHANGED <<session, retained>> BY <2>3, <3>3 DEF DisplaceCurrent
      <4>2. Kept' = Kept BY <4>1 DEF Kept
      <4> QED BY <3>1, <3>2, <4>1, <4>2 DEF SessionIsCounted, Restoring
    <3>4. CASE here[at] # Gone
      <4>1. session' = [session EXCEPT ![at] = here[at]] /\ retained' = retained + 1
        BY <2>3, <3>4 DEF DisplaceCurrent
      <4>5. \A q \in File : session'[q] = (IF q = at THEN here[at] ELSE session[q])
        BY <4>1, <1>t
      <4>2. Kept' = Kept \cup {at} /\ at \notin Kept
        BY <4>5, <3>2, <3>4 DEF Kept
      <4>3. IsFiniteSet(Kept') /\ retained' = Cardinality(Kept')
        BY <4>1, <4>2, FS_AddElement DEF SessionIsCounted
      <4>4. \A p \in work \ {at} : session'[p] = Gone BY <4>1, <3>2, <1>t
      <4> QED BY <3>1, <3>2, <4>3, <4>4 DEF SessionIsCounted, Restoring
    <3> QED BY <3>3, <3>4
  <2>4. ASSUME PutOld \/ PutRefused PROVE SessionIsCounted'
    BY <2>4, <1>d DEF PutOld, PutRefused, EntryDone, restoreVars
  <2>5. ASSUME PutFails PROVE SessionIsCounted'
    <3>1. stage = "put" /\ stage' = "restore" /\ work' = work \ {at}
      BY <2>5 DEF PutFails, EntryDone
    <3>2. CASE UNCHANGED <<session, retained>> BY <3>1, <3>2, <1>d
    <3>3. CASE ~UNCHANGED <<session, retained>>
      <4>1. session' = [session EXCEPT ![at] = Gone] /\ retained' = retained - 1
            /\ session[at] # Gone
        BY <2>5, <3>3 DEF PutFails
      <4>5. \A q \in File : session'[q] = (IF q = at THEN Gone ELSE session[q])
        BY <4>1, <1>t
      <4>2. Kept' = Kept \ {at} /\ at \in Kept BY <4>1, <4>5, <1>t DEF Kept
      <4>3. IsFiniteSet(Kept') /\ retained' = Cardinality(Kept')
        BY <4>1, <4>2, FS_RemoveElement DEF SessionIsCounted
      <4>4. \A p \in work' : session'[p] = Gone
        BY <3>1, <4>1, <1>t DEF SessionIsCounted
      <4> QED BY <3>1, <4>3, <4>4 DEF SessionIsCounted, Restoring
    <3> QED BY <3>2, <3>3
  <2>6. ASSUME EndRestore PROVE SessionIsCounted'
    BY <2>6, <1>z DEF EndRestore, To
  <2> QED BY <1>5, <2>1, <2>2, <2>3, <2>4, <2>5, <2>6 DEF VersionRestore
<1>6. CASE CrashMutator
  BY <1>6, <1>z DEF CrashMutator
<1> QED BY <1>1, <1>2, <1>3, <1>4, <1>5, <1>6 DEF VersionNext

LEMMA VersionCrashTypes ==
  ASSUME VersionTypeOK, CrashMutator
  PROVE  VersionTypeOK'
<1>1. troubles' \in 0 .. MaxTroubles BY TroubleCounts DEF CrashMutator
<1>2. attic' \subseteq File \X Bytes
  <2>1. InSession \subseteq File \X Bytes BY DEF InSession, VersionTypeOK
  <2> QED BY <2>1 DEF CrashMutator, VersionTypeOK
<1>3. broken' \subseteq File BY DEF CrashMutator, BaseMissing, VersionTypeOK
<1>4. /\ stage' = "idle" /\ work' = {} /\ writer' = 0 /\ entries' = {} /\ unindexed' = FALSE
      /\ session' = NothingKept /\ retained' = 0 /\ LeaveOp /\ want' = NothingKept
      /\ UNCHANGED <<treeVars, storeVars>>
  BY DEF CrashMutator
<1>5. unindexed' \in BOOLEAN BY <1>4
<1> QED BY <1>1, <1>2, <1>3, <1>4, <1>5, VersionConstants, VersionAssumption
        DEF LeaveOp, treeVars, storeVars, VersionTypeOK, VersionSmall, VersionAssumption

-----------------------------------------------------------------------------
(* Every preserved content can be reached.                                 *)

\* The apply's writer is the newest version and has a payload for no path it still has
\* to do, but the one it is at; a payload it has no entry for is the unindexed one.
AtPath == {"keep", "remove", "record", "publish", "done"}
WriterIsFresh ==
  /\ \A v \in Version : v > begun => payload[v] = Unwritten
  /\ stage \in Applying =>
       /\ writer # 0 => writer = begun
       /\ stage \in AtPath => at \in work
       /\ writer # 0 => \A p \in work :
            payload[writer][p] = NoPayload \/ (p = at /\ stage \in AtPath \ {"keep"})
       /\ writer # 0 => \A p \in File :
            \/ payload[writer][p] = NoPayload
            \/ p \in entries
            \/ IF stage \in {"remove", "record"} THEN p = at ELSE unindexed
       /\ stage \in {"remove", "record"} => unindexed
       /\ stage = "remove" => payload[writer][at].kind = "rdelta" /\ staged \in Bytes
       /\ stage = "record" => payload[writer][at] = Whole(payload[writer][at].old)
  /\ stage = "prune" /\ ~skewed => \A u \in work, v \in index : u < v

\* Until a clock goes back, the times of the versions are in the order they were made in.
TimesAreOrdered ==
  ~skewed =>
    /\ \A u, v \in index : u < v => stamp[u] <= stamp[v]
    /\ stage = "index" => \A u \in index : u < writer /\ stamp[u] <= stamp[writer]

\* What v can build p from: what is at hand, the content that is about to arrive where a
\* delta was made of it, and the versions from v on.
AtHand(v, p) ==
  {c \in Bytes :
     \/ here[p] = c \/ session[p] = c \/ <<p, c>> \in attic
     \/ (p \in BaseMissing /\ staged = c)
     \/ \E u \in Version : u >= v /\ payload[u][p] = Whole(c)}
Closed(v, p, known) ==
  /\ AtHand(v, p) \subseteq known
  /\ \A u \in Version, b \in known, c \in Bytes :
       u >= v /\ payload[u][p] = Delta(c, b) => c \in known
Builds(v, p) == {c \in Bytes : \A known \in SUBSET Bytes : Closed(v, p, known) => c \in known}

\* The paths v has preserved, for good or so far.
Owed(v) ==
  {p \in File : \/ v \in index /\ p \in manifest[v]
                \/ stage \in Applying /\ v = writer /\ p \in entries}
OwedCanBeBuilt ==
  \A v \in Version : \A p \in Owed(v) \ (broken \cup replaced) : payload[v][p].old \in Builds(v, p)

\* A delta's base, a whole payload and what a manifest lists.
LEMMA PayloadKinds ==
  ASSUME VersionTypeOK, NEW v \in Version, NEW p \in File, payload[v][p] # NoPayload
  PROVE  /\ payload[v][p].old \in Bytes
         /\ payload[v][p].kind = "whole" \/ payload[v][p].kind = "rdelta"
BY DEF VersionTypeOK, Payload

LEMMA FreshInitially == VersionInit => WriterIsFresh /\ TimesAreOrdered /\ OwedCanBeBuilt
BY DEF VersionInit, WriterIsFresh, TimesAreOrdered, OwedCanBeBuilt, Owed, Applying

LEMMA TimesStay ==
  ASSUME VersionTypeOK, HistoryIsWhole, WriterIsApart, WriterIsFresh, TimesAreOrdered,
         [VersionNext]_versionVars
  PROVE  /\ TimesAreOrdered'
         /\ skewed => skewed'
<1>i. /\ index \subseteq Version /\ begun \in Nat /\ writer \in 0 .. MaxVersions
      /\ stamp \in [Version -> Nat]
  BY VersionAssumption DEF VersionTypeOK, VersionAssumption
<1>1. ASSUME UNCHANGED <<stamp, skewed>>, index' \subseteq index, stage' # "index"
      PROVE  TimesAreOrdered' /\ (skewed => skewed')
  BY <1>1 DEF TimesAreOrdered
<1>2. ASSUME UNCHANGED <<stamp, skewed, index, stage, writer>>
      PROVE  TimesAreOrdered' /\ (skewed => skewed')
  BY <1>2 DEF TimesAreOrdered
<1>3. CASE WriteManifest
  <2>1. PICK now \in Stamps :
          /\ stamp' = [stamp EXCEPT ![writer] = now]
          /\ skewed' = (skewed \/ \E v \in index : now < stamp[v])
    BY <1>3 DEF WriteManifest
  <2>2. stage = "apply" /\ entries # {} /\ UNCHANGED <<index, writer>>
    BY <1>3 DEF WriteManifest, writerVars
  <2>3. writer \in Version /\ writer \notin index /\ writer = begun /\ \A v \in index : v <= begun
    BY <2>2, <1>i DEF WriterIsApart, WriterIsFresh, HistoryIsWhole, Applying, Version
  <2>4. \A v \in index : v < writer BY <2>3, <1>i DEF Version
  <2>5. now \in Nat /\ stamp'[writer] = now /\ \A v \in index : stamp'[v] = stamp[v]
    BY <2>1, <2>3, <1>i, VersionAssumption DEF VersionAssumption
  <2>6. SUFFICES ASSUME ~skewed' PROVE TimesAreOrdered' BY <2>1 DEF TimesAreOrdered
  <2>8. \A v \in index : stamp[v] \in Nat BY <1>i
  <2>9. ~(skewed \/ \E v \in index : now < stamp[v]) BY <2>1, <2>6, Zenon
  <2>7. ~skewed /\ \A v \in index : stamp[v] <= now BY <2>5, <2>8, <2>9
  <2> QED BY <2>2, <2>4, <2>5, <2>7 DEF TimesAreOrdered
<1>4. CASE WriteIndex
  <2>1. /\ stage = "index" /\ stage' = "idle" /\ index' = index \cup {writer}
        /\ UNCHANGED <<stamp, skewed>>
    BY <1>4 DEF WriteIndex, To
  <2>2. writer \in Nat /\ \A v \in index : v \in Nat BY <1>i DEF Version
  <2> QED BY <2>1, <2>2 DEF TimesAreOrdered
<1>5. CASE UNCHANGED versionVars BY <1>5, <1>2 DEF versionVars
<1>6. CASE VersionPeople
  BY <1>6, <1>2 DEF VersionPeople, SaveHere, SaveThere, storeVars, writerVars
<1>7. CASE VersionApply /\ ~WriteManifest /\ ~WriteIndex
  <2>1. UNCHANGED <<stamp, skewed, index>> /\ stage' # "index"
    BY <1>7 DEF VersionApply, BeginApply, StreamNew, SourceChanged, OpenVersion, KeepDelta,
        RemoveOriginal, KeepWhole, RecordWhole, PublishNew, OperationDone, OperationFails,
        CancelApply, FinishEmpty, FinishUnindexed, To, storeVars
  <2> QED BY <2>1, <1>1
<1>8. CASE VersionPrune \/ VersionRestore \/ CrashMutator
  <2>1. UNCHANGED <<stamp, skewed>> /\ index' \subseteq index /\ stage' # "index"
    BY <1>8 DEF VersionPrune, PruneIndex, PruneDirectory, PruneEnds, Newest, VersionRestore,
        BeginRestore, StageOld, DisplaceCurrent, PutOld, PutRefused, PutFails, EndRestore,
        EntryDone, CrashMutator, To, storeVars
  <2> QED BY <2>1, <1>1
<1> QED BY <1>3, <1>4, <1>5, <1>6, <1>7, <1>8 DEF VersionNext

\* While the times are in order, a prune keeps no version older than one it takes away.
LEMMA NewestAreNewer ==
  ASSUME NEW n \in Nat, index \subseteq Version, stamp \in [Version -> Nat],
         \A a, b \in index : a < b => stamp[a] <= stamp[b],
         NEW u \in index \ Newest(n), NEW v \in Newest(n)
  PROVE  u < v
<1> USE VersionAssumption DEF VersionAssumption
<1> DEFINE From(w) == {x \in index : ~Before(x, w)}
<1>1. u \in Version /\ v \in Version /\ v \in index BY DEF Newest
<1>0. u \in Int /\ v \in Int /\ \A w \in index : w \in Int /\ stamp[w] \in Nat
  BY <1>1 DEF Version
<1>2. SUFFICES ASSUME u >= v PROVE FALSE BY <1>0
<1>10. \A w \in index : Before(w, v) => Before(w, u)
  <2>1. u = v \/ (v < u /\ stamp[v] <= stamp[u]) BY <1>0, <1>1, <1>2
  <2> QED BY <2>1, <1>0, <1>1 DEF Before
<1>3. From(u) \subseteq From(v) BY <1>10
<1>4. IsFiniteSet(index)
  <2>1. IsFiniteSet(1 .. MaxVersions) BY FS_Interval
  <2> QED BY <2>1, FS_Subset DEF Version
<1>5. IsFiniteSet(From(v)) /\ IsFiniteSet(From(u)) BY <1>4, FS_Subset
<1>7. Cardinality(From(u)) <= Cardinality(From(v)) BY <1>3, <1>5, FS_Subset
<1>8. Cardinality(From(u)) \in Nat /\ Cardinality(From(v)) \in Nat BY <1>5, FS_CardinalityType
<1>9. Cardinality(From(v)) <= n /\ ~(Cardinality(From(u)) <= n) BY <1>1 DEF Newest
<1> HIDE DEF From
<1> QED BY <1>7, <1>8, <1>9

LEMMA FreshStays ==
  ASSUME VersionTypeOK, HistoryIsWhole, WriterIsApart, WriterIsFresh, TimesAreOrdered,
         [VersionNext]_versionVars
  PROVE  WriterIsFresh'
<1> USE VersionAssumption DEF VersionAssumption
<1>i. /\ index \subseteq Version /\ begun \in 0 .. MaxVersions /\ writer \in 0 .. MaxVersions
      /\ payload \in [Version -> [File -> Payload \cup {NoPayload}]]
      /\ at \in File /\ entries \subseteq File /\ unindexed \in BOOLEAN
      /\ stage # "prune" => work \subseteq File
  BY DEF VersionTypeOK
<1>l. ASSUME UNCHANGED <<payload, index, begun, skewed, writer, entries, unindexed, stage, work, at, staged>>
      PROVE  WriterIsFresh'
  BY <1>l DEF WriterIsFresh
<1>o. ASSUME UNCHANGED <<payload, begun>>, stage' \notin Applying \cup {"prune"}
      PROVE  WriterIsFresh'
  BY <1>o DEF WriterIsFresh
<1>1. CASE UNCHANGED versionVars BY <1>1, <1>l DEF versionVars
<1>2. CASE VersionPeople
  BY <1>2, <1>l DEF VersionPeople, SaveHere, SaveThere, storeVars, writerVars
<1>3. CASE VersionApply
  <2>1. ASSUME BeginApply PROVE WriterIsFresh'
    <3>1. stage' = "apply" /\ writer' = 0 /\ UNCHANGED <<payload, begun>>
      BY <2>1 DEF BeginApply, To, storeVars
    <3> QED BY <3>1 DEF WriterIsFresh, AtPath
  <2>2. ASSUME NEW p \in File, StreamNew(p) PROVE WriterIsFresh'
    <3>1. /\ stage = "apply" /\ stage' \in {"keep", "publish", "done"} /\ p \in work /\ at' = p
          /\ UNCHANGED <<payload, index, begun, writer, entries, unindexed, work>>
      BY <2>2 DEF StreamNew, storeVars, writerVars
    <3>2. writer # 0 => \A q \in work : payload[writer][q] = NoPayload
      BY <3>1 DEF WriterIsFresh, Applying, AtPath
    <3> QED BY <3>1, <3>2 DEF WriterIsFresh, Applying, AtPath
  <2>3. ASSUME NEW p \in File, SourceChanged(p) PROVE WriterIsFresh'
    <3>1. /\ stage = "apply" /\ stage' = "apply" /\ work' \subseteq work
          /\ UNCHANGED <<payload, index, begun, writer, entries, unindexed, at>>
      BY <2>3 DEF SourceChanged, storeVars, writerVars
    <3> QED BY <3>1 DEF WriterIsFresh, Applying, AtPath
  <2>4. ASSUME OpenVersion PROVE WriterIsFresh'
    <3>1. /\ stage = "keep" /\ writer = 0 /\ begun' = begun + 1 /\ writer' = begun + 1
          /\ writer' \in Version
          /\ UNCHANGED <<stage, payload, entries, work, at, unindexed>>
      BY <2>4, <1>i DEF OpenVersion, Version
    <3>2. payload[writer'] = Unwritten BY <3>1, <1>i DEF WriterIsFresh, Version
    <3>3. \A p \in File : payload[writer'][p] = NoPayload BY <3>2 DEF Unwritten
    <3>4. \A v \in Version : v > begun' => payload[v] = Unwritten
      BY <3>1, <1>i DEF WriterIsFresh, Version
    <3>5. at \in work BY <3>1 DEF WriterIsFresh, Applying, AtPath
    <3>6. work \subseteq File BY <3>1, <1>i
    <3> QED BY <3>1, <3>3, <3>4, <3>5, <3>6 DEF WriterIsFresh
  <2>5. ASSUME KeepDelta \/ KeepWhole PROVE WriterIsFresh'
    <3>1. PICK new \in Payload :
            /\ payload' = [payload EXCEPT ![writer][at] = new]
            /\ stage = "keep" /\ writer # 0 /\ unindexed' /\ ~unindexed
            /\ \/ stage' = "remove" /\ new.kind = "rdelta" /\ staged \in Bytes
               \/ stage' = "record" /\ new = Whole(new.old)
            /\ UNCHANGED <<index, begun, writer, entries, work, at, staged>>
      <4>1. CASE KeepDelta
        <5>1. here[at] \in Bytes /\ there[at] \in Bytes /\ staged \in Bytes
          BY <4>1 DEF KeepDelta, Eligible, VersionTypeOK
        <5>2. Delta(here[at], there[at]).kind = "rdelta" BY DEF Delta
        <5> QED BY <4>1, <5>1, <5>2, PayloadsAre DEF KeepDelta, To
      <4>2. CASE KeepWhole
        <5>1. here[at] \in Bytes BY <4>2 DEF KeepWhole, VersionTypeOK
        <5>2. Whole(here[at]) = Whole(Whole(here[at]).old) BY DEF Whole
        <5> QED BY <4>2, <5>1, <5>2, PayloadsAre DEF KeepWhole, To
      <4> QED BY <2>5, <4>1, <4>2
    <3>2. writer \in Version /\ writer = begun BY <3>1, <1>i DEF WriterIsFresh, Applying, Version
    <3>3. payload'[writer][at] = new BY <3>1, <3>2, <1>i
    <3>4. \A v \in Version : v # writer => payload'[v] = payload[v] BY <3>1, <1>i
    <3>5. \A q \in File : q # at => payload'[writer][q] = payload[writer][q] BY <3>1, <3>2, <1>i
    <3>6. \A v \in Version : v > begun => payload'[v] = Unwritten
      BY <3>2, <3>4, <1>i DEF WriterIsFresh, Version
    <3>7. at \in work /\ work \subseteq File /\ \A q \in work : payload[writer][q] = NoPayload
      BY <3>1, <1>i DEF WriterIsFresh, Applying, AtPath
    <3>8. stage' \in AtPath \ {"keep"} BY <3>1 DEF AtPath
    <3>9. \A p \in File : payload'[writer][p] = NoPayload \/ p \in entries \/ p = at
      BY <3>1, <3>5 DEF WriterIsFresh, Applying
    <3> QED BY <3>1, <3>2, <3>3, <3>5, <3>6, <3>7, <3>8, <3>9 DEF WriterIsFresh
  <2>6. ASSUME RemoveOriginal \/ RecordWhole PROVE WriterIsFresh'
    <3>1. /\ stage \in {"remove", "record"} /\ stage' \in {"publish", "done"}
          /\ entries' = entries \cup {at}
          /\ UNCHANGED <<payload, index, begun, writer, work, at>>
      BY <2>6 DEF RemoveOriginal, RecordWhole, storeVars
    <3>2. writer # 0 => \A p \in File : payload[writer][p] = NoPayload \/ p \in entries'
      BY <3>1 DEF WriterIsFresh, Applying
    <3> QED BY <3>1, <3>2 DEF WriterIsFresh, Applying, AtPath
  <2>7. ASSUME PublishNew PROVE WriterIsFresh'
    <3>1. /\ stage = "publish" /\ stage' = "done"
          /\ UNCHANGED <<payload, index, begun, writer, entries, unindexed, work, at>>
      BY <2>7 DEF PublishNew, storeVars, writerVars
    <3> QED BY <3>1 DEF WriterIsFresh, Applying, AtPath
  <2>8. ASSUME OperationDone \/ OperationFails PROVE WriterIsFresh'
    <3>1. /\ stage \in AtPath /\ stage' = "apply" /\ work' = work \ {at}
          /\ UNCHANGED <<payload, index, begun, writer, entries, unindexed>>
      BY <2>8 DEF OperationDone, OperationFails, To, AtPath, storeVars, writerVars
    <3> QED BY <3>1 DEF WriterIsFresh, Applying, AtPath
  <2>9. ASSUME CancelApply PROVE WriterIsFresh'
    <3>1. /\ stage = "apply" /\ stage' = "apply" /\ work' = {}
          /\ UNCHANGED <<payload, index, begun, writer, entries, unindexed, at>>
      BY <2>9 DEF CancelApply, storeVars, writerVars
    <3> QED BY <3>1 DEF WriterIsFresh, Applying, AtPath
  <2>10. ASSUME FinishEmpty PROVE WriterIsFresh'
    <3>1. /\ stage = "apply" /\ stage' = "idle" /\ UNCHANGED begun
          /\ \/ UNCHANGED payload
             \/ writer # 0 /\ payload' = [payload EXCEPT ![writer] = Unwritten]
      BY <2>10 DEF FinishEmpty
    <3>2. \A v \in Version : v > begun => payload'[v] = Unwritten BY <3>1, <1>i DEF WriterIsFresh
    <3> QED BY <3>1, <3>2 DEF WriterIsFresh, Applying
  <2>11. ASSUME FinishUnindexed PROVE WriterIsFresh'
    BY <2>11, <1>o DEF FinishUnindexed, storeVars, Applying
  <2>12. ASSUME WriteManifest PROVE WriterIsFresh'
    <3>1. /\ stage = "apply" /\ stage' = "index"
          /\ UNCHANGED <<payload, index, begun, writer, entries, unindexed, work, at>>
      BY <2>12 DEF WriteManifest, writerVars
    <3> QED BY <3>1 DEF WriterIsFresh, Applying, AtPath
  <2>13. ASSUME WriteIndex PROVE WriterIsFresh'
    BY <2>13, <1>o DEF WriteIndex, To, Applying
  <2> QED BY <1>3, <2>1, <2>2, <2>3, <2>4, <2>5, <2>6, <2>7, <2>8, <2>9, <2>10, <2>11, <2>12, <2>13
      DEF VersionApply
<1>4. CASE VersionPrune
  <2>1. ASSUME NEW keep \in 0 .. MaxKeep, PruneIndex(keep) PROVE WriterIsFresh'
    <3>1. /\ stage' = "prune" /\ work' = index \ Newest(keep) /\ index' = Newest(keep)
          /\ UNCHANGED <<payload, begun, skewed>>
      BY <2>1 DEF PruneIndex, To
    <3>2. ~skewed => \A u \in work', v \in index' : u < v
      <4>1. stamp \in [Version -> Nat] /\ keep \in Nat BY DEF VersionTypeOK
      <4> QED BY <3>1, <4>1, <1>i, NewestAreNewer DEF TimesAreOrdered
    <3> QED BY <3>1, <3>2 DEF WriterIsFresh, Applying
  <2>2. ASSUME NEW v \in Version, PruneDirectory(v) PROVE WriterIsFresh'
    <3>1. /\ stage = "prune" /\ stage' = "prune" /\ work' \subseteq work
          /\ payload' = [payload EXCEPT ![v] = Unwritten] /\ UNCHANGED <<index, begun, skewed>>
      BY <2>2 DEF PruneDirectory
    <3>2. \A u \in Version : u > begun => payload'[u] = Unwritten BY <3>1, <1>i DEF WriterIsFresh
    <3> QED BY <3>1, <3>2 DEF WriterIsFresh, Applying
  <2>3. ASSUME PruneEnds PROVE WriterIsFresh'
    BY <2>3, <1>o DEF PruneEnds, To, storeVars, Applying
  <2> QED BY <1>4, <2>1, <2>2, <2>3 DEF VersionPrune
<1>5. CASE VersionRestore
  <2>1. stage' \in Restoring \cup {"idle"} /\ UNCHANGED <<payload, begun>>
    BY <1>5 DEF VersionRestore, BeginRestore, StageOld, DisplaceCurrent, PutOld, PutRefused,
        PutFails, EndRestore, EntryDone, To, storeVars, Restoring
  <2> QED BY <2>1, <1>o DEF Restoring, Applying
<1>6. CASE CrashMutator
  BY <1>6, <1>o DEF CrashMutator, storeVars, Applying
<1> QED BY <1>1, <1>2, <1>3, <1>4, <1>5, <1>6 DEF VersionNext

\* A path stays as buildable when no payload it has from v on is lost and all that was at
\* hand still is.
LEMMA BuildsGrow ==
  ASSUME NEW v \in Version, NEW p \in File,
         \A u \in Version : u >= v /\ payload[u][p] # NoPayload => payload'[u][p] = payload[u][p],
         AtHand(v, p) \subseteq AtHand(v, p)'
  PROVE  Builds(v, p) \subseteq Builds(v, p)'
<1>1. ASSUME NEW known \in SUBSET Bytes, Closed(v, p, known)' PROVE Closed(v, p, known)
  <2>1. AtHand(v, p) \subseteq known BY <1>1 DEF Closed
  <2>2. ASSUME NEW u \in Version, NEW b \in known, NEW c \in Bytes,
               u >= v, payload[u][p] = Delta(c, b)
        PROVE  c \in known
    <3>1. payload[u][p] # NoPayload BY <2>2 DEF Delta, NoPayload
    <3>2. payload'[u][p] = Delta(c, b) BY <2>2, <3>1
    <3> QED BY <1>1, <2>2, <3>2 DEF Closed
  <2> QED BY <2>1, <2>2 DEF Closed
<1> QED BY <1>1 DEF Builds

\* What AtHand needs of a step for a path the step has no business with.
LEMMA HandIsLeft ==
  ASSUME NEW v \in Version, NEW p \in File,
         \A u \in Version : u >= v /\ payload[u][p] # NoPayload => payload'[u][p] = payload[u][p],
         here[p] \in Bytes => here'[p] = here[p] \/ session'[p] = here[p],
         session[p] \in Bytes =>
           session'[p] = session[p] \/ <<p, session[p]>> \in attic' \/ here'[p] = session[p],
         attic \subseteq attic',
         p \in BaseMissing => here'[p] = staged \/ (p \in BaseMissing' /\ staged' = staged)
  PROVE  AtHand(v, p) \subseteq AtHand(v, p)'
<1>1. SUFFICES ASSUME NEW c \in AtHand(v, p) PROVE c \in AtHand(v, p)' OBVIOUS
<1>2. c \in Bytes BY DEF AtHand
<1>3. CASE here[p] = c BY <1>2, <1>3 DEF AtHand
<1>4. CASE session[p] = c BY <1>2, <1>4 DEF AtHand
<1>5. CASE <<p, c>> \in attic BY <1>2, <1>5 DEF AtHand
<1>6. ASSUME NEW u \in Version, u >= v, payload[u][p] = Whole(c) PROVE c \in AtHand(v, p)'
  <2>1. payload'[u][p] = Whole(c) BY <1>6 DEF Whole, NoPayload
  <2> QED BY <1>2, <1>6, <2>1 DEF AtHand
<1>7. CASE p \in BaseMissing /\ staged = c BY <1>2, <1>7 DEF AtHand
<1> QED BY <1>3, <1>4, <1>5, <1>6, <1>7 DEF AtHand

LEMMA OwedIsWritten ==
  ASSUME VersionTypeOK, HistoryIsWhole, WriterIsApart, WriterIsFresh,
         NEW v \in Version, NEW p \in Owed(v)
  PROVE  /\ p \in File /\ payload[v][p] # NoPayload /\ v <= begun
         /\ stage \in Applying /\ writer # 0 => v <= writer
<1>1. p \in File BY DEF Owed
<1>2. payload[v][p] # NoPayload /\ v <= begun
  BY DEF Owed, HistoryIsWhole, WriterIsApart, Version, VersionTypeOK
<1>3. stage \in Applying /\ writer # 0 => v <= writer BY <1>2 DEF WriterIsFresh
<1> QED BY <1>1, <1>2, <1>3

\* The steps that enter nothing new: each path that is still owed stays as buildable.
LEMMA OwedLeft ==
  ASSUME VersionTypeOK, HistoryIsWhole, WriterIsApart, WriterIsFresh, OwedCanBeBuilt,
         \A v \in Version : Owed(v)' \subseteq Owed(v),
         broken \subseteq broken', replaced \subseteq replaced',
         ASSUME NEW v \in Version, NEW p \in Owed(v)', p \notin broken' \cup replaced'
         PROVE  /\ \A u \in Version : u >= v /\ payload[u][p] # NoPayload => payload'[u][p] = payload[u][p]
                /\ AtHand(v, p) \subseteq AtHand(v, p)'
  PROVE  OwedCanBeBuilt'
<1> SUFFICES ASSUME NEW v \in Version, NEW p \in Owed(v)', p \notin broken' \cup replaced'
             PROVE  payload'[v][p].old \in Builds(v, p)'
  BY DEF OwedCanBeBuilt
<1>1. p \in Owed(v) /\ p \notin broken \cup replaced OBVIOUS
<1>2. p \in File /\ payload[v][p] # NoPayload BY <1>1, OwedIsWritten
<1>3. payload[v][p].old \in Builds(v, p) BY <1>1 DEF OwedCanBeBuilt
<1>4. /\ \A u \in Version : u >= v /\ payload[u][p] # NoPayload => payload'[u][p] = payload[u][p]
      /\ AtHand(v, p) \subseteq AtHand(v, p)'
  OBVIOUS
<1>5. Builds(v, p) \subseteq Builds(v, p)' BY <1>2, <1>4, BuildsGrow
<1>6. v >= v BY DEF Version
<1>7. payload'[v][p] = payload[v][p] BY <1>2, <1>4, <1>6
<1> QED BY <1>3, <1>5, <1>7

\* The same, in terms of what the step leaves of each path that is owed.
LeftAlone(v, p) ==
  /\ \A u \in Version : u >= v /\ payload[u][p] # NoPayload => payload'[u][p] = payload[u][p]
  /\ here[p] \in Bytes => here'[p] = here[p] \/ session'[p] = here[p]
  /\ session[p] \in Bytes =>
       session'[p] = session[p] \/ <<p, session[p]>> \in attic' \/ here'[p] = session[p]
  /\ p \in BaseMissing => here'[p] = staged \/ (p \in BaseMissing' /\ staged' = staged)

LEMMA OwedQuiet ==
  ASSUME VersionTypeOK, HistoryIsWhole, WriterIsApart, WriterIsFresh, OwedCanBeBuilt,
         \A v \in Version : Owed(v)' \subseteq Owed(v),
         broken \subseteq broken', replaced \subseteq replaced', attic \subseteq attic',
         \A v \in Version : \A p \in Owed(v)' \ (broken' \cup replaced') : LeftAlone(v, p)
  PROVE  OwedCanBeBuilt'
<1>1. ASSUME NEW v \in Version, NEW p \in Owed(v)', p \notin broken' \cup replaced'
      PROVE  /\ \A u \in Version : u >= v /\ payload[u][p] # NoPayload => payload'[u][p] = payload[u][p]
             /\ AtHand(v, p) \subseteq AtHand(v, p)'
  <2>1. LeftAlone(v, p) BY <1>1
  <2>2. p \in File BY <1>1 DEF Owed
  <2> QED BY <2>1, <2>2, HandIsLeft DEF LeftAlone
<1> QED BY <1>1, OwedLeft

LEMMA OwedStays ==
  ASSUME VersionTypeOK, SessionIsCounted, HistoryIsWhole, WriterIsApart, WriterIsFresh,
         ~skewed, OwedCanBeBuilt, [VersionNext]_versionVars
  PROVE  OwedCanBeBuilt'
<1> USE VersionAssumption DEF VersionAssumption
<1>i. /\ index \subseteq Version /\ begun \in 0 .. MaxVersions /\ writer \in 0 .. MaxVersions
      /\ payload \in [Version -> [File -> Payload \cup {NoPayload}]]
      /\ manifest \in [Version -> SUBSET File]
      /\ here \in [File -> Bytes \cup {Gone}] /\ session \in [File -> Bytes \cup {Gone}]
      /\ at \in File /\ entries \subseteq File /\ staged \in Bytes \cup {Gone}
  BY DEF VersionTypeOK
<1>b. stage # "publish" => BaseMissing = {} BY DEF BaseMissing
\* Steps that touch neither the store nor what is at hand.
<1>l. ASSUME UNCHANGED <<storeVars, restoreVars, here, broken, replaced>>,
             stage # "publish" \/ UNCHANGED <<stage, at, staged, writer>>,
             \A v \in Version : Owed(v)' \subseteq Owed(v)
      PROVE  OwedCanBeBuilt'
  <2>1. UNCHANGED <<payload, here, session, attic, broken, replaced>>
    BY <1>l DEF storeVars, restoreVars
  <2>2. \A p \in BaseMissing : p \in BaseMissing' /\ staged' = staged
    BY <1>l, <2>1 DEF BaseMissing
  <2>3. \A v \in Version, p \in File : LeftAlone(v, p) BY <2>1, <2>2 DEF LeftAlone
  <2>4. \A v \in Version : Owed(v) \subseteq File BY DEF Owed
  <2> QED BY <1>l, <2>1, <2>3, <2>4, OwedQuiet
<1>s. ASSUME UNCHANGED <<manifest, index, writer, entries>>,
             stage' \in Applying => stage \in Applying
      PROVE  \A v \in Version : Owed(v)' \subseteq Owed(v)
  BY <1>s DEF Owed
<1>u. ASSUME UNCHANGED <<manifest, index>>, entries' = {} \/ stage' \notin Applying
      PROVE  \A v \in Version : Owed(v)' \subseteq Owed(v)
  BY <1>u DEF Owed
<1>1. CASE UNCHANGED versionVars
  <2>1. UNCHANGED <<storeVars, restoreVars, here, broken, replaced, stage, at, staged, writer>>
        /\ UNCHANGED <<manifest, index, writer, entries>>
    BY <1>1 DEF versionVars, storeVars, restoreVars
  <2> QED BY <2>1, <1>s, <1>l
<1>2. CASE VersionPeople
  <2>1. ASSUME NEW p \in File, NEW c \in Bytes \cup {Gone}, SaveThere(p, c) PROVE OwedCanBeBuilt'
    <3>1. UNCHANGED <<storeVars, restoreVars, here, broken, replaced, stage, at, staged, writer, entries>>
      BY <2>1 DEF SaveThere, writerVars
    <3> QED BY <3>1, <1>s, <1>l DEF storeVars
  <2>2. ASSUME NEW q \in File, NEW c \in Bytes \cup {Gone}, SaveHere(q, c) PROVE OwedCanBeBuilt'
    <3>1. /\ here' = [here EXCEPT ![q] = c] /\ replaced' = replaced \cup {q}
          /\ UNCHANGED <<payload, manifest, index, writer, entries, session, attic, broken,
                         stage, at, staged>>
      BY <2>2 DEF SaveHere, storeVars, writerVars, restoreVars
    <3>2. BaseMissing' = BaseMissing BY <3>1 DEF BaseMissing
    <3>3. \A v \in Version, p \in File : p \notin replaced' => LeftAlone(v, p)
      BY <3>1, <3>2, <1>i DEF LeftAlone
    <3>4. \A v \in Version : Owed(v)' \subseteq Owed(v) /\ Owed(v) \subseteq File
      BY <3>1, <1>s DEF Owed
    <3> QED BY <3>1, <3>3, <3>4, OwedQuiet
  <2> QED BY <1>2, <2>1, <2>2 DEF VersionPeople
<1>3. CASE VersionApply
  <2>1. ASSUME BeginApply PROVE OwedCanBeBuilt'
    <3>1. /\ stage = "idle" /\ entries' = {}
          /\ UNCHANGED <<storeVars, restoreVars, here, broken, replaced>>
      BY <2>1 DEF BeginApply, To, treeVars
    <3> QED BY <3>1, <1>u, <1>l DEF storeVars
  <2>2. ASSUME \/ \E p \in File : StreamNew(p) \/ SourceChanged(p)
               \/ CancelApply \/ OperationDone
        PROVE  OwedCanBeBuilt'
    <3>1. /\ stage \in Applying \ {"publish"}
          /\ UNCHANGED <<storeVars, restoreVars, here, broken, replaced, writer, entries>>
      BY <2>2 DEF StreamNew, SourceChanged, CancelApply, OperationDone, To, treeVars, writerVars,
                  Applying
    <3> QED BY <3>1, <1>s, <1>l DEF storeVars
  <2>3. ASSUME OpenVersion PROVE OwedCanBeBuilt'
    <3>1. /\ stage = "keep" /\ writer = 0
          /\ UNCHANGED <<payload, manifest, index, entries, session, attic, here, broken, replaced>>
      BY <2>3 DEF OpenVersion, treeVars, restoreVars
    <3>2. entries = {} BY <3>1 DEF WriterIsApart, Applying
    <3>3. \A v \in Version : Owed(v)' \subseteq Owed(v) /\ Owed(v) \subseteq File
      BY <3>1, <3>2, <1>u DEF Owed
    <3>4. \A v \in Version, p \in File : LeftAlone(v, p) BY <3>1, <1>b DEF LeftAlone
    <3> QED BY <3>1, <3>3, <3>4, OwedQuiet
  <2>4. ASSUME KeepDelta \/ KeepWhole, NEW v \in Version, NEW p \in Owed(v)',
               p \notin broken' \cup replaced'
        PROVE  payload'[v][p].old \in Builds(v, p)'
    <3>1. PICK new \in Payload :
            /\ payload' = [payload EXCEPT ![writer][at] = new]
            /\ stage = "keep" /\ stage' \in Applying /\ writer # 0
            /\ \/ UNCHANGED here
               \/ here' = [here EXCEPT ![at] = Gone] /\ new = Whole(here[at])
            /\ UNCHANGED <<manifest, index, writer, entries, session, attic, broken, replaced>>
      <4>1. CASE KeepDelta
        <5>1. here[at] \in Bytes /\ there[at] \in Bytes BY <4>1, <1>i DEF KeepDelta, Eligible
        <5> QED BY <4>1, <5>1, PayloadsAre DEF KeepDelta, To, treeVars, restoreVars, Applying
      <4>2. CASE KeepWhole
        <5>1. here[at] \in Bytes BY <4>2, <1>i DEF KeepWhole
        <5> QED BY <4>2, <5>1, PayloadsAre DEF KeepWhole, To, restoreVars, Applying
      <4> QED BY <2>4, <4>1, <4>2
    <3>2. writer \in Version /\ payload[writer][at] = NoPayload
      BY <3>1, <1>i DEF WriterIsFresh, Applying, AtPath, Version
    <3>3. \A u \in Version, q \in File : payload[u][q] # NoPayload => payload'[u][q] = payload[u][q]
      BY <3>1, <3>2, <1>i
    <3>4. p \in Owed(v) BY <3>1, <1>s, <2>4 DEF Applying
    <3>5. p \in File /\ payload[v][p] # NoPayload /\ v <= writer
      BY <3>1, <3>4, OwedIsWritten DEF Applying
    <3>6. AtHand(v, p) \subseteq AtHand(v, p)'
      <4>1. CASE here'[p] = here[p] BY <3>1, <3>3, <3>5, <4>1, <1>b, HandIsLeft
      <4>2. CASE here'[p] # here[p]
        <5>1. p = at /\ here' = [here EXCEPT ![at] = Gone] /\ payload'[writer][at] = Whole(here[at])
          BY <3>1, <3>2, <3>5, <4>2, <1>i
        <5>2. writer >= v BY <3>5, <1>i DEF Version
        <5>3. SUFFICES ASSUME NEW c \in AtHand(v, p) PROVE c \in AtHand(v, p)' OBVIOUS
        <5>4. CASE here[p] = c BY <3>2, <5>1, <5>2, <5>4 DEF AtHand
        <5>5. ASSUME NEW u \in Version, u >= v, payload[u][p] = Whole(c) PROVE c \in AtHand(v, p)'
          <6>1. payload'[u][p] = Whole(c) BY <3>3, <3>5, <5>5 DEF Whole, NoPayload
          <6> QED BY <5>5, <6>1 DEF AtHand
        <5> QED BY <3>1, <5>4, <5>5, <1>b DEF AtHand
      <4> QED BY <4>1, <4>2
    <3>7. Builds(v, p) \subseteq Builds(v, p)' BY <3>3, <3>5, <3>6, BuildsGrow
    <3>8. payload[v][p].old \in Builds(v, p) BY <2>4, <3>1, <3>4 DEF OwedCanBeBuilt
    <3> QED BY <3>3, <3>5, <3>7, <3>8
  <2>5. ASSUME RemoveOriginal, NEW v \in Version, NEW p \in Owed(v)', p \notin broken' \cup replaced'
        PROVE  payload'[v][p].old \in Builds(v, p)'
    <3>1. /\ stage = "remove" /\ stage' = "publish" /\ here[at] = payload[writer][at].old
          /\ here' = [here EXCEPT ![at] = Gone] /\ entries' = entries \cup {at}
          /\ broken \subseteq broken' /\ (payload[writer][at].base # staged => at \in broken')
          /\ UNCHANGED <<payload, manifest, index, writer, session, attic, replaced, at, staged>>
      BY <2>5 DEF RemoveOriginal, storeVars, restoreVars
    <3>2. /\ writer \in Version /\ payload[writer][at].kind = "rdelta" /\ staged \in Bytes
          /\ payload[writer][at] \in Payload
      BY <3>1, <1>i DEF WriterIsFresh, WriterIsApart, Applying, Version
    <3>3. at \in BaseMissing'
      <4>1. stage' = "publish" /\ writer' # 0 /\ payload'[writer'][at'].kind = "rdelta" /\ at' = at
        BY <3>1, <3>2 DEF Version
      <4> QED BY <4>1 DEF BaseMissing
    <3>4. p \in File /\ p \notin broken \cup replaced BY <2>5, <3>1 DEF Owed
    <3>5. p \in Owed(v) \/ (p = at /\ v = writer)
      BY <2>5, <3>1 DEF Owed, Applying
    <3>6. v <= writer BY <3>1, <3>2, <3>5, OwedIsWritten DEF Applying, Version
    <3>7. ASSUME NEW known \in SUBSET Bytes, Closed(v, p, known)', p = at
          PROVE  here[at] \in known
      <4>1. payload[writer][at] = Delta(here[at], staged)
        BY <2>5, <3>1, <3>2, <3>7 DEF Payload, Delta
      <4>2. staged \in known BY <3>1, <3>2, <3>3, <3>7 DEF Closed, AtHand
      <4>3. here[at] \in Bytes BY <3>1, <3>2 DEF Payload
      <4>4. writer >= v BY <3>6, <1>i DEF Version
      <4> QED BY <3>1, <3>2, <3>7, <4>1, <4>2, <4>3, <4>4 DEF Closed
    <3>8. Builds(v, p) \subseteq Builds(v, p)'
      <4>1. ASSUME NEW known \in SUBSET Bytes, Closed(v, p, known)' PROVE Closed(v, p, known)
        <5>1. AtHand(v, p) \subseteq known
          <6>1. ASSUME NEW c \in AtHand(v, p) PROVE c \in known
            <7>1. CASE p = at /\ here[p] = c BY <3>7, <4>1, <7>1
            <7>2. CASE ~(p = at /\ here[p] = c)
              <8>1. c \in AtHand(v, p)' BY <3>1, <3>4, <7>2, <1>b, <1>i DEF AtHand
              <8> QED BY <4>1, <8>1 DEF Closed
            <7> QED BY <7>1, <7>2
          <6> QED BY <6>1
        <5> QED BY <3>1, <4>1, <5>1 DEF Closed
      <4> QED BY <4>1 DEF Builds
    <3>9. CASE p \in Owed(v)
      <4>1. payload[v][p].old \in Builds(v, p) BY <3>4, <3>9 DEF OwedCanBeBuilt
      <4> QED BY <3>1, <3>8, <4>1
    <3>10. CASE p = at /\ v = writer
      <4>1. here[at] \in Bytes BY <3>1, <3>2 DEF Payload
      <4> QED BY <3>1, <3>7, <3>10, <4>1 DEF Builds
    <3> QED BY <3>5, <3>9, <3>10
  <2>6. ASSUME RecordWhole, NEW v \in Version, NEW p \in Owed(v)', p \notin broken' \cup replaced'
        PROVE  payload'[v][p].old \in Builds(v, p)'
    <3>1. /\ stage = "record" /\ entries' = entries \cup {at}
          /\ UNCHANGED <<payload, manifest, index, writer, here, session, attic, broken, replaced>>
      BY <2>6 DEF RecordWhole, storeVars, treeVars, restoreVars
    <3>2. /\ writer \in Version /\ payload[writer][at] = Whole(payload[writer][at].old)
          /\ payload[writer][at] \in Payload
      BY <3>1, <1>i DEF WriterIsFresh, WriterIsApart, Applying, Version
    <3>3. p \in File /\ AtHand(v, p) \subseteq AtHand(v, p)'
      BY <2>6, <3>1, <1>b, HandIsLeft DEF Owed
    <3>4. Builds(v, p) \subseteq Builds(v, p)' BY <3>1, <3>3, BuildsGrow
    <3>5. p \in Owed(v) \/ (p = at /\ v = writer)
      BY <2>6, <3>1 DEF Owed, Applying
    <3>6. CASE p \in Owed(v) BY <2>6, <3>1, <3>4, <3>6 DEF OwedCanBeBuilt
    <3>7. CASE p = at /\ v = writer
      <4>1. payload[v][p].old \in AtHand(v, p)'
        <5>1. payload[v][p].old \in Bytes BY <3>2, <3>7 DEF Payload
        <5>2. v >= v /\ payload'[v][p] = Whole(payload[v][p].old) BY <3>1, <3>2, <3>7 DEF Version
        <5> QED BY <5>1, <5>2 DEF AtHand
      <4> QED BY <3>1, <4>1 DEF Builds, Closed, AtHand
    <3> QED BY <3>5, <3>6, <3>7
  <2>7. ASSUME PublishNew PROVE OwedCanBeBuilt'
    <3>1. /\ stage = "publish" /\ here[at] = Gone /\ here' = [here EXCEPT ![at] = staged]
          /\ UNCHANGED <<payload, manifest, index, writer, entries, session, attic, broken, replaced>>
      BY <2>7 DEF PublishNew, storeVars, writerVars, restoreVars
    <3>2. \A v \in Version : Owed(v)' \subseteq Owed(v) /\ Owed(v) \subseteq File
      BY <3>1, <1>s DEF Applying, Owed
    <3>3. \A v \in Version, p \in File : LeftAlone(v, p)
      BY <3>1, <1>i DEF LeftAlone, BaseMissing
    <3> QED BY <3>1, <3>2, <3>3, OwedQuiet
  <2>8. ASSUME OperationFails PROVE OwedCanBeBuilt'
    <3>1. /\ stage \in Applying /\ stage' = "apply" /\ broken' = broken \cup BaseMissing
          /\ UNCHANGED <<payload, manifest, index, writer, entries, here, session, attic, replaced>>
      BY <2>8 DEF OperationFails, treeVars, storeVars, writerVars, restoreVars, Applying
    <3>2. \A v \in Version : Owed(v)' \subseteq Owed(v) /\ Owed(v) \subseteq File
      BY <3>1, <1>s DEF Applying, Owed
    <3>3. \A v \in Version, p \in File : p \notin broken' => LeftAlone(v, p)
      BY <3>1 DEF LeftAlone
    <3> QED BY <3>1, <3>2, <3>3, OwedQuiet
  <2>9. ASSUME FinishEmpty PROVE OwedCanBeBuilt'
    <3>1. /\ stage = "apply" /\ stage' = "idle" /\ entries = {}
          /\ \/ UNCHANGED payload
             \/ writer # 0 /\ ~unindexed /\ payload' = [payload EXCEPT ![writer] = Unwritten]
          /\ UNCHANGED <<manifest, index, here, session, attic, broken, replaced>>
      BY <2>9 DEF FinishEmpty, treeVars, restoreVars
    <3>2. \A v \in Version : Owed(v)' \subseteq Owed(v) /\ Owed(v) \subseteq File
      BY <3>1, <1>u DEF Applying, Owed
    <3>3. writer # 0 /\ ~unindexed => \A p \in File : payload[writer][p] = NoPayload
      BY <3>1 DEF WriterIsFresh, Applying
    <3>4. \A u \in Version, p \in File : payload[u][p] # NoPayload => payload'[u][p] = payload[u][p]
      BY <3>1, <3>3, <1>i
    <3>5. \A v \in Version, p \in File : LeftAlone(v, p) BY <3>1, <3>4, <1>b DEF LeftAlone
    <3> QED BY <3>1, <3>2, <3>5, OwedQuiet
  <2>10. ASSUME FinishUnindexed PROVE OwedCanBeBuilt'
    <3>1. /\ stage = "apply" /\ entries' = {}
          /\ UNCHANGED <<storeVars, restoreVars, here, broken, replaced>>
      BY <2>10 DEF FinishUnindexed, treeVars
    <3> QED BY <3>1, <1>u, <1>l DEF storeVars
  <2>11. ASSUME WriteManifest \/ WriteIndex PROVE OwedCanBeBuilt'
    <3>1. /\ stage \in {"apply", "index"}
          /\ UNCHANGED <<payload, here, session, attic, broken, replaced>>
      BY <2>11 DEF WriteManifest, WriteIndex, To, treeVars, restoreVars
    <3>2. \A v \in Version : Owed(v)' \subseteq Owed(v)
      <4>1. CASE WriteManifest
        <5>1. /\ manifest' = [manifest EXCEPT ![writer] = entries] /\ stage = "apply" /\ entries # {}
              /\ UNCHANGED <<index, writer, entries>>
          BY <4>1 DEF WriteManifest, writerVars
        <5>2. writer \notin index /\ writer \in Version
          BY <5>1, <1>i DEF WriterIsApart, Applying, Version
        <5> QED BY <5>1, <5>2, <1>i DEF Owed, Applying
      <4>2. CASE WriteIndex
        <5>1. /\ stage = "index" /\ stage' = "idle" /\ index' = index \cup {writer}
              /\ UNCHANGED manifest
          BY <4>2 DEF WriteIndex, To
        <5>2. manifest[writer] = entries BY <5>1 DEF WriterIsApart, Applying
        <5> QED BY <5>1, <5>2 DEF Owed, Applying
      <4> QED BY <2>11, <4>1, <4>2
    <3>3. \A v \in Version, p \in File : LeftAlone(v, p) BY <3>1, <1>b DEF LeftAlone
    <3>4. \A v \in Version : Owed(v) \subseteq File BY DEF Owed
    <3> QED BY <3>1, <3>2, <3>3, <3>4, OwedQuiet
  <2> QED BY <1>3, <2>1, <2>2, <2>3, <2>4, <2>5, <2>6, <2>7, <2>8, <2>9, <2>10, <2>11
      DEF VersionApply, OwedCanBeBuilt
<1>4. CASE VersionPrune
  <2>1. ASSUME NEW keep \in 0 .. MaxKeep, PruneIndex(keep) PROVE OwedCanBeBuilt'
    <3>1. /\ stage = "idle" /\ stage' = "prune" /\ index' \subseteq index
          /\ UNCHANGED <<payload, manifest, here, session, attic, broken, replaced>>
      BY <2>1 DEF PruneIndex, To, Newest, treeVars, restoreVars
    <3>2. \A v \in Version : Owed(v)' \subseteq Owed(v) /\ Owed(v) \subseteq File
      BY <3>1 DEF Applying, Owed
    <3>3. \A v \in Version, p \in File : LeftAlone(v, p) BY <3>1, <1>b DEF LeftAlone
    <3> QED BY <3>1, <3>2, <3>3, OwedQuiet
  <2>2. ASSUME NEW u \in Version, PruneDirectory(u) PROVE OwedCanBeBuilt'
    <3>1. /\ stage = "prune" /\ stage' = "prune" /\ u \in work
          /\ payload' = [payload EXCEPT ![u] = Unwritten] /\ manifest' = [manifest EXCEPT ![u] = {}]
          /\ UNCHANGED <<index, here, session, attic, broken, replaced>>
      BY <2>2 DEF PruneDirectory, treeVars, restoreVars
    <3>2. \A v \in Version : Owed(v)' \subseteq Owed(v) /\ Owed(v) \subseteq File
      BY <3>1, <1>i DEF Applying, Owed
    <3>3. \A v \in index : u < v BY <3>1 DEF WriterIsFresh
    <3>4. \A v \in index, w \in Version : w >= v => w # u BY <3>3, <1>i DEF Version
    <3>5. \A v \in Version : Owed(v)' # {} => v \in index BY <3>1 DEF Owed, Applying
    <3>6. \A v \in Version : \A p \in Owed(v)' : LeftAlone(v, p)
      BY <3>1, <3>4, <3>5, <1>b, <1>i DEF LeftAlone
    <3> QED BY <3>1, <3>2, <3>6, OwedQuiet
  <2>3. ASSUME PruneEnds PROVE OwedCanBeBuilt'
    <3>1. /\ stage = "prune" /\ stage' = "idle"
          /\ UNCHANGED <<storeVars, restoreVars, here, broken, replaced>>
      BY <2>3 DEF PruneEnds, To, treeVars
    <3> QED BY <3>1, <1>u, <1>l DEF storeVars, Applying
  <2> QED BY <1>4, <2>1, <2>2, <2>3 DEF VersionPrune
<1>5. CASE VersionRestore
  <2>1. /\ stage \in Restoring \cup {"idle"} /\ stage' \in Restoring \cup {"idle"}
        /\ UNCHANGED <<payload, manifest, index, broken, replaced>>
    BY <1>5 DEF VersionRestore, BeginRestore, StageOld, DisplaceCurrent, PutOld, PutRefused,
        PutFails, EndRestore, EntryDone, To, storeVars, treeVars, Restoring
  <2>2. \A v \in Version : Owed(v)' \subseteq Owed(v) /\ Owed(v) \subseteq File
    BY <2>1 DEF Owed, Applying, Restoring
  <2>3. SUFFICES
          /\ attic \subseteq attic'
          /\ \A p \in File :
               /\ here[p] \in Bytes => here'[p] = here[p] \/ session'[p] = here[p]
               /\ session[p] \in Bytes =>
                    session'[p] = session[p] \/ <<p, session[p]>> \in attic' \/ here'[p] = session[p]
    <3>1. \A v \in Version, p \in File : LeftAlone(v, p)
      BY <2>1, <2>3, <1>b DEF LeftAlone, Restoring
    <3> QED BY <2>1, <2>2, <2>3, <3>1, OwedQuiet
  <2> DEFINE Survives ==
        /\ attic \subseteq attic'
        /\ \A p \in File :
             /\ here[p] \in Bytes => here'[p] = here[p] \/ session'[p] = here[p]
             /\ session[p] \in Bytes =>
                  session'[p] = session[p] \/ <<p, session[p]>> \in attic' \/ here'[p] = session[p]
  <2>4. ASSUME NEW v \in Version, NEW chosen \in SUBSET File, BeginRestore(v, chosen) PROVE Survives
    <3>1. stage = "idle" /\ UNCHANGED <<here, attic>> BY <2>4 DEF BeginRestore, To, treeVars
    <3>2. \A p \in File : session[p] = Gone BY <3>1 DEF SessionIsCounted, Restoring, Kept
    <3> QED BY <3>1, <3>2
  <2>5. ASSUME \/ \E p \in File : StageOld(p)
               \/ PutRefused
        PROVE  Survives
    BY <2>5 DEF StageOld, PutRefused, treeVars, restoreVars
  <2>6. ASSUME DisplaceCurrent PROVE Survives
    <3>1. stage = "displace" /\ UNCHANGED attic BY <2>6 DEF DisplaceCurrent, To
    <3>2. session[at] = Gone BY <3>1 DEF SessionIsCounted
    <3>3. CASE here[at] = Gone BY <2>6, <3>1, <3>3 DEF DisplaceCurrent
    <3>4. CASE here[at] # Gone
      <4>1. here' = [here EXCEPT ![at] = Gone] /\ session' = [session EXCEPT ![at] = here[at]]
        BY <2>6, <3>4 DEF DisplaceCurrent
      <4> QED BY <3>1, <3>2, <4>1, <1>i
    <3> QED BY <3>3, <3>4
  <2>7. ASSUME PutOld PROVE Survives
    <3>1. here[at] = Gone /\ here' = [here EXCEPT ![at] = staged] /\ UNCHANGED <<session, attic>>
      BY <2>7 DEF PutOld, restoreVars
    <3> QED BY <3>1, <1>i
  <2>8. ASSUME PutFails PROVE Survives
    <3>1. /\ UNCHANGED attic
          /\ \/ UNCHANGED <<here, session>>
             \/ /\ here[at] = Gone /\ here' = [here EXCEPT ![at] = session[at]]
                /\ session' = [session EXCEPT ![at] = Gone]
      BY <2>8 DEF PutFails
    <3> QED BY <3>1, <1>i
  <2>9. ASSUME EndRestore PROVE Survives
    <3>1. /\ UNCHANGED here /\ attic' = IF retained > 0 THEN attic \cup InSession ELSE attic
      BY <2>9 DEF EndRestore, treeVars
    <3>2. ASSUME NEW p \in File, session[p] \in Bytes PROVE <<p, session[p]>> \in attic'
      <4>1. p \in Kept BY <3>2 DEF Kept
      <4>2. retained > 0
        <5>1. Kept # {} BY <4>1
        <5>2. Cardinality(Kept) \in Nat /\ Cardinality(Kept) # 0
          BY <5>1, FS_EmptySet, FS_CardinalityType DEF SessionIsCounted
        <5> QED BY <5>2 DEF SessionIsCounted
      <4>3. <<p, session[p]>> \in InSession BY <3>2 DEF InSession
      <4> QED BY <3>1, <4>2, <4>3
    <3> QED BY <3>1, <3>2
  <2> QED BY <1>5, <2>4, <2>5, <2>6, <2>7, <2>8, <2>9 DEF VersionRestore
<1>6. CASE CrashMutator
  <2>1. /\ stage' = "idle" /\ broken' = broken \cup BaseMissing /\ attic' = attic \cup InSession
        /\ UNCHANGED <<payload, manifest, index, here, replaced>>
    BY <1>6 DEF CrashMutator, treeVars, storeVars
  <2>2. \A v \in Version : Owed(v)' \subseteq Owed(v) /\ Owed(v) \subseteq File
    BY <2>1, <1>u DEF Owed, Applying
  <2>3. \A p \in File : session[p] \in Bytes => <<p, session[p]>> \in attic'
    BY <2>1 DEF InSession
  <2>4. \A v \in Version, p \in File : p \notin broken' => LeftAlone(v, p)
    BY <2>1, <2>3 DEF LeftAlone
  <2> QED BY <2>1, <2>2, <2>4, OwedQuiet
<1> QED BY <1>1, <1>2, <1>3, <1>4, <1>5, <1>6 DEF VersionNext

\* The invariant the safety of the history rests on.
VersionInv ==
  /\ VersionTypeOK /\ SessionIsCounted /\ HistoryIsWhole /\ WriterIsApart
  /\ WriterIsFresh /\ TimesAreOrdered
  /\ ~skewed => OwedCanBeBuilt

LEMMA VersionInvariant == VersionSpec => []VersionInv
<1>1. VersionInit => VersionInv
  <2> SUFFICES ASSUME VersionInit PROVE VersionInv OBVIOUS
  <2>1. VersionTypeOK /\ SessionIsCounted BY VersionInitially
  <2>2. HistoryIsWhole /\ WriterIsApart
    BY DEF VersionInit, HistoryIsWhole, WriterIsApart, Applying, Restoring
  <2>3. WriterIsFresh /\ TimesAreOrdered /\ OwedCanBeBuilt BY FreshInitially
  <2> QED BY <2>1, <2>2, <2>3 DEF VersionInv
<1>2. VersionInv /\ [VersionNext]_versionVars => VersionInv'
  <2> SUFFICES ASSUME VersionInv, [VersionNext]_versionVars PROVE VersionInv' OBVIOUS
  <2> /\ VersionTypeOK /\ SessionIsCounted /\ HistoryIsWhole /\ WriterIsApart
      /\ WriterIsFresh /\ TimesAreOrdered /\ (~skewed => OwedCanBeBuilt)
    BY DEF VersionInv
  <2>1. HistoryIsWhole' /\ WriterIsApart' BY StoreStaysWhole
  <2>2. SessionIsCounted' BY CountStays
  <2>3. VersionTypeOK'
    <3>1. CASE UNCHANGED versionVars BY <3>1 DEF versionVars, VersionTypeOK
    <3>2. CASE VersionPeople BY <3>2, PeopleTypes
    <3>3. CASE VersionApply
      <4>1. stage = "index" => writer \in Version /\ work = {}
        BY DEF WriterIsApart, Applying, VersionTypeOK, Version
      <4> QED BY <3>3, <4>1, ApplyTypes
    <3>4. CASE VersionPrune BY <3>4, PruneTypes
    <3>5. CASE VersionRestore
      <4>1. stage \in Restoring => writer \in Version BY DEF HistoryIsWhole
      <4> QED BY <3>5, <4>1, RestoreTypes
    <3>6. CASE CrashMutator BY <3>6, VersionCrashTypes
    <3> QED BY <3>1, <3>2, <3>3, <3>4, <3>5, <3>6 DEF VersionNext
  <2>4. WriterIsFresh' /\ TimesAreOrdered' BY FreshStays, TimesStay
  <2>5. ~skewed' => OwedCanBeBuilt' BY OwedStays, TimesStay
  <2> QED BY <2>1, <2>2, <2>3, <2>4, <2>5 DEF VersionInv
<1> QED BY <1>1, <1>2, PTL DEF VersionSpec

\* Every variable of the version history keeps its type.
THEOREM VersionTypeCorrect == VersionSpec => []VersionTypeOK
BY VersionInvariant, PTL DEF VersionInv

\* Whatever applies, prunes, restores and crashes came between, every version that the
\* index lists has a manifest and a payload for each of its entries.
THEOREM IndexHonoured == VersionSpec => []IndexIsHonoured
<1>1. VersionInv => IndexIsHonoured
  BY DEF VersionInv, VersionTypeOK, HistoryIsWhole, IndexIsHonoured
<1> QED BY <1>1, VersionInvariant, PTL

\* Between two operations the old content of every indexed entry can be reached, version
\* by version, from what is at hand: whatever was applied, pruned, restored, failed or
\* crashed, where nobody changed the file by hand, each delta's base is what arrived, and no
\* machine's clock put a version before one the index already listed.
THEOREM HistoryIsReached == VersionSpec => []HistoryReaches
<1>1. VersionInv => HistoryReaches
  <2> SUFFICES ASSUME VersionInv, stage = "idle", ~skewed, NEW v \in index,
                      NEW p \in manifest[v] \ (broken \cup replaced)
               PROVE  payload[v][p].old \in Reachable(p)
    BY DEF HistoryReaches
  <2>1. v \in Version /\ p \in File BY DEF VersionInv, VersionTypeOK
  <2>2. payload[v][p].old \in Builds(v, p) BY <2>1 DEF VersionInv, OwedCanBeBuilt, Owed
  <2>3. ASSUME NEW known \in SUBSET Bytes, Bases(p) \cup Unpacked(p, known) \subseteq known
        PROVE  Closed(v, p, known)
    <3>1. AtHand(v, p) \subseteq Bases(p) BY DEF AtHand, Bases, BaseMissing
    <3>2. ASSUME NEW u \in Version, NEW b \in known, NEW c \in Bytes, payload[u][p] = Delta(c, b)
          PROVE  c \in known
      BY <2>3, <3>2 DEF Unpacked
    <3> QED BY <2>3, <3>1, <3>2 DEF Closed
  <2> QED BY <2>2, <2>3 DEF Builds, Reachable
<1> QED BY <1>1, VersionInvariant, PTL
=============================================================================
