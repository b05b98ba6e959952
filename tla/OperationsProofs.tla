--------------------------- MODULE OperationsProofs ---------------------------
(***************************************************************************)
(* What the run lifecycle of the desktop guarantees however its commands,  *)
(* windows and late answers interleave, for any number of commands,        *)
(* launches and runs.                                                      *)
(*                                                                         *)
(* The commands and the lifecycle agree on which run is at work            *)
(* (RunsAgree), that run is the last one and no launch waits beside it     *)
(* (ActiveIsLast), the power action is authorized for the last run only    *)
(* (GrantIsLast), and the command that opens the window works for the      *)
(* launch of the Apply button (OpenerServes).                              *)
(*                                                                         *)
(* On top of that stands Watched, the invariant for NoHeadlessApply, which *)
(* needs two more hypotheses and is introduced where it begins.            *)
(***************************************************************************)
EXTENDS Operations, SequenceTheorems, TLAPS

AtRun == {"running", "summed", "over"}

RunsAgree ==
  /\ \A t \in TaskId :
       /\ tasks[t].at \in AtRun => tasks[t].run = engine.active.id /\ engine.active.id # 0
       /\ tasks[t].at \notin AtRun => tasks[t].run = 0
       /\ tasks[t].at = "idle" => tasks[t] = NoTask
  /\ \A t, u \in TaskId : tasks[t].at \in AtRun /\ tasks[u].at \in AtRun => t = u

ActiveIsLast ==
  /\ engine.active.id = 0 <=> engine.active = NoRun
  /\ engine.active # NoRun => engine.active.id = engine.lastRun /\ engine.pending = NoLaunch
  /\ engine.pending.id = 0 <=> engine.pending = NoLaunch

GrantIsLast ==
  engine.grant # 0 => engine.grant = engine.lastRun /\ engine.pending = NoLaunch

OpenerServes ==
  /\ opener.at = "idle" => opener = NotOpening
  /\ opener.at # "idle" => button.at = "opening" /\ button.launch = opener.launch

Inv ==
  /\ OpTypeOK /\ RunsAgree /\ ActiveIsLast /\ GrantIsLast /\ OpenerServes
  /\ MutationIsAlone /\ LaunchHasAnOwner /\ ClosingIsSettled /\ StopHitsItsRun

-----------------------------------------------------------------------------
USE OperationsAssumption DEF OperationsAssumption

\* The first state.
LEMMA Initially == OpInit => Inv
<1> SUFFICES ASSUME OpInit PROVE Inv OBVIOUS
<1>1. bound.runs \in Nat /\ bound.launches \in Nat BY DEF OpInit
<1>2. 0 \in RunIds /\ 0 \in LaunchIds BY <1>1 DEF RunIds, LaunchIds
<1>3. OpTypeOK
  <2>1. engine \in EngineType BY <1>2 DEF OpInit, EngineType, NoRun, NoLaunch, Phases
  <2>2. tasks \in [TaskId -> TaskType] BY <1>2 DEF OpInit, TaskType, NoTask
  <2>3. opener \in OpenerType /\ button \in ButtonType
    BY <1>2 DEF OpInit, OpenerType, ButtonType, NotOpening
  <2>4. page \in PageType BY <1>2 DEF OpInit, PageType, NoPage
  <2>5. inbox \in Seq(EventSet) BY DEF OpInit
  <2> QED BY <2>1, <2>2, <2>3, <2>4, <2>5 DEF OpInit, OpTypeOK, RecordedType
<1> QED BY <1>1, <1>3 DEF OpInit, Inv, RunsAgree, ActiveIsLast, GrantIsLast, OpenerServes,
        MutationIsAlone, LaunchHasAnOwner, ClosingIsSettled, StopHitsItsRun, NoRun, NoLaunch,
        NoTask, NotOpening, NoPage, AtRun
-----------------------------------------------------------------------------
(* Types. *)

\* An event that is sent is one of the events.
LEMMA EmitTyped ==
  ASSUME OpTypeOK, NEW e \in EventSet, Emit(e)
  PROVE  inbox' \in Seq(EventSet)
BY DEF OpTypeOK, Emit

LEMMA EventTyped ==
  ASSUME NEW kind, NEW id, NEW clean \in BOOLEAN,
         \/ kind \in {"arm", "rejected"} /\ id \in LaunchIds
         \/ kind \in {"run", "summary", "ready"} /\ id \in RunIds
  PROVE  Event(kind, id, clean) \in EventSet
BY DEF Event, EventSet

\* The lifecycle keeps its types when a launch is taken back.
LEMMA PhaseTyped ==
  ASSUME NEW e \in EngineType, NEW phase \in Phases
  PROVE  [e EXCEPT !.pending.phase = phase] \in EngineType
BY DEF EngineType

LEMMA CancelTyped ==
  ASSUME NEW e \in EngineType, NEW l, bound \in Bounds
  PROVE  CancelLaunch(e, l) \in EngineType
BY DEF EngineType, CancelLaunch, NoLaunch, Phases, LaunchIds

\* A close is decided.
LEMMA ClosingTyped ==
  ASSUME OpTypeOK, BeginClose
  PROVE  engine' \in EngineType /\ page' \in PageType
<1>1. NoLaunch \in [id : LaunchIds, phase : Phases]
  BY DEF OpTypeOK, NoLaunch, Phases, LaunchIds
<1>2. engine' \in EngineType
  <2> DEFINE e == [engine EXCEPT !.closing = TRUE, !.grant = 0, !.pending = NoLaunch]
  <2>1. e \in EngineType
    <3>1. 0 \in RunIds BY DEF OpTypeOK, RunIds
    <3> QED BY <1>1, <3>1 DEF OpTypeOK, EngineType
  <2>2. [e EXCEPT !.active.cancel = TRUE] \in EngineType BY <2>1 DEF EngineType
  <2>3. engine' = e \/ engine' = [e EXCEPT !.active.cancel = TRUE] BY DEF BeginClose
  <2> QED BY <2>1, <2>2, <2>3
<1>3. \A decision \in {"pending", "toldShown", "told", "nobody"} :
        Answer(decision) \in {"pending", "toldShown", "told", "nobody", "nobodyAgain"}
  BY DEF Answer
<1>4. \E close \in {"pending", "toldShown", "told", "nobody", "nobodyAgain"} :
        page' = [page EXCEPT !.closeAfter = TRUE, !.due = 0, !.close = close]
  BY <1>3 DEF BeginClose
<1>5. 0 \in RunIds BY DEF OpTypeOK, RunIds
<1>6. page' \in PageType BY <1>4, <1>5 DEF OpTypeOK, PageType
<1> QED BY <1>2, <1>6

\* The types are those of before, as the bounds are.
LEMMA Retyped ==
  ASSUME bound \in Bounds, bound' = bound,
         engine' \in EngineType, tasks' \in [TaskId -> TaskType], opener' \in OpenerType,
         button' \in ButtonType, recorded' \in RecordedType, page' \in PageType,
         inbox' \in Seq(EventSet), givenBack' \subseteq LaunchIds, asked' \subseteq RunIds,
         silent' \subseteq RunIds, settling' \in BOOLEAN
  PROVE  OpTypeOK'
<1>1. RunIds' = RunIds /\ LaunchIds' = LaunchIds BY DEF RunIds, LaunchIds
<1>2. /\ EngineType' = EngineType /\ TaskType' = TaskType /\ OpenerType' = OpenerType
      /\ ButtonType' = ButtonType /\ PageType' = PageType /\ EventSet' = EventSet
  BY <1>1 DEF EngineType, TaskType, OpenerType, ButtonType, PageType, EventSet
<1>3. Seq(EventSet)' = Seq(EventSet) /\ RecordedType' = RecordedType
  BY <1>2 DEF RecordedType
<1> QED BY <1>2, <1>3, <1>1 DEF OpTypeOK

LEMMA TypeStep == OpTypeOK /\ [OpNext]_opVars => OpTypeOK'
<1> SUFFICES ASSUME OpTypeOK, [OpNext]_opVars PROVE OpTypeOK' OBVIOUS
<1>a. bound \in Bounds /\ bound.runs \in Nat /\ bound.launches \in Nat /\ bound.tasks \in 0..MaxTasks
      /\ 0 \in RunIds /\ 0 \in LaunchIds
  BY DEF OpTypeOK, RunIds, LaunchIds
<1>0. CASE UNCHANGED opVars
  BY <1>0, Retyped DEF opVars, OpTypeOK
<1>1. CASE BeginMutation
  <2>1. UNCHANGED <<bound, tasks, opener, button, recorded, page, inbox, givenBack, asked, silent, settling>>
    BY <1>1 DEF BeginMutation, engineVars, pageVars, mainVars, rest, Watching, Unwatched, OpenerKeeps, Emit, Invoke, TakeLease, WindowIsGone
  <2>2. engine' \in EngineType
    BY <1>1, <1>a DEF OpTypeOK, BeginMutation, EngineType
  <2> QED BY <2>1, <2>2, <1>a, Retyped DEF OpTypeOK
<1>2. CASE EndMutation
  <2>1. UNCHANGED <<bound, tasks, opener, button, recorded, page, inbox, givenBack, asked, silent, settling>>
    BY <1>2 DEF EndMutation, engineVars, pageVars, mainVars, rest, Watching, Unwatched, OpenerKeeps, Emit, Invoke, TakeLease, WindowIsGone
  <2>2. engine' \in EngineType
    BY <1>2, <1>a DEF OpTypeOK, EndMutation, EngineType
  <2> QED BY <2>1, <2>2, <1>a, Retyped DEF OpTypeOK
<1>3. CASE \E t \in TaskId : \E kind \in {"compare", "apply"} : Invoke(t, kind)
  <2> PICK t \in TaskId, kind \in {"compare", "apply"} : Invoke(t, kind)
    BY <1>3
  <2>1. UNCHANGED <<bound, engine, opener, button, recorded, page, inbox, givenBack, asked, silent, settling>>
    BY DEF Invoke, engineVars, pageVars, mainVars, rest, Watching, Unwatched, OpenerKeeps, Emit, Invoke, TakeLease, WindowIsGone
  <2>2. tasks' \in [TaskId -> TaskType]
    BY <1>a DEF OpTypeOK, Invoke, TakeLease, TaskType, NoTask
  <2> QED BY <2>1, <2>2, <1>a, Retyped DEF OpTypeOK
<1>4. CASE \E t \in TaskId : StartRun(t)
  <2> PICK t \in TaskId : StartRun(t)
    BY <1>4
  <2>1. UNCHANGED <<bound, opener, button, page, givenBack, asked, silent, settling>>
    BY DEF StartRun, engineVars, pageVars, mainVars, rest, Watching, Unwatched, OpenerKeeps, Emit, Invoke, TakeLease, WindowIsGone
  <2>2. engine' \in EngineType
    <3>1. engine.lastRun + 1 \in RunIds BY <1>a DEF OpTypeOK, StartRun, Admits, EngineType, RunIds
    <3>2. Purpose(t) \in {"compare", "apply"} /\ tasks[t].launch \in LaunchIds
      BY DEF OpTypeOK, Purpose, TaskType
    <3>3. NoLaunch \in [id : LaunchIds, phase : Phases] BY <1>a DEF NoLaunch, Phases
    <3> QED BY <1>a, <3>1, <3>2, <3>3 DEF OpTypeOK, StartRun, EngineType
  <2>3. tasks' \in [TaskId -> TaskType]
    <3>1. engine.lastRun + 1 \in RunIds BY <1>a DEF OpTypeOK, StartRun, Admits, EngineType, RunIds
    <3> QED BY <3>1 DEF OpTypeOK, StartRun, TaskType
  <2>4. recorded' \in RecordedType
    BY <1>a DEF OpTypeOK, StartRun, Purpose, RecordedType
  <2>5. inbox' \in Seq(EventSet)
    <3>1. engine.lastRun + 1 \in RunIds BY <1>a DEF OpTypeOK, StartRun, Admits, EngineType, RunIds
    <3>2. Event("run", engine.lastRun + 1, FALSE) \in EventSet BY <3>1, EventTyped
    <3> QED BY <3>2, EmitTyped DEF OpTypeOK, StartRun
  <2> QED BY <2>1, <2>2, <2>3, <2>4, <2>5, <1>a, Retyped DEF OpTypeOK
<1>5. CASE \E t \in TaskId : Refuse(t)
  <2> PICK t \in TaskId : Refuse(t)
    BY <1>5
  <2>1. UNCHANGED <<bound, opener, button, recorded, page, givenBack, asked, silent, settling>>
    BY DEF Refuse, engineVars, pageVars, mainVars, rest, Watching, Unwatched, OpenerKeeps, Emit, Invoke, TakeLease, WindowIsGone
  <2>2. engine' \in EngineType
    BY <1>a, CancelTyped DEF OpTypeOK, Refuse
  <2>3. tasks' \in [TaskId -> TaskType]
    BY <1>a DEF OpTypeOK, Refuse, TaskType, NoTask
  <2>4. inbox' \in Seq(EventSet)
    <3>1. tasks[t].launch \in LaunchIds BY DEF OpTypeOK, TaskType
    <3>2. Event("rejected", tasks[t].launch, FALSE) \in EventSet BY <3>1, EventTyped
    <3> QED BY <3>2, EmitTyped DEF OpTypeOK, Refuse
  <2> QED BY <2>1, <2>2, <2>3, <2>4, <1>a, Retyped DEF OpTypeOK
<1>6. CASE \E t \in TaskId : Panics(t)
  <2> PICK t \in TaskId : Panics(t)
    BY <1>6
  <2>1. UNCHANGED <<bound, opener, button, recorded, page, givenBack, settling>>
    BY DEF Panics, engineVars, pageVars, mainVars, rest, Watching, Unwatched, OpenerKeeps, Emit, Invoke, TakeLease, WindowIsGone
  <2>2. engine' \in EngineType
    BY <1>a, CancelTyped DEF OpTypeOK, Panics, EngineType, NoRun
  <2>3. tasks' \in [TaskId -> TaskType]
    BY <1>a DEF OpTypeOK, Panics, TaskType, NoTask
  <2>4. inbox' \in Seq(EventSet)
    <3>1. tasks[t].launch \in LaunchIds BY DEF OpTypeOK, TaskType
    <3>2. Event("rejected", tasks[t].launch, FALSE) \in EventSet BY <3>1, EventTyped
    <3> QED BY <3>2, EmitTyped DEF OpTypeOK, Panics
  <2>5. asked' \subseteq RunIds
    BY <1>a DEF OpTypeOK, Panics
  <2>6. silent' \subseteq RunIds
    BY <1>a DEF OpTypeOK, Panics, TaskType
  <2> QED BY <2>1, <2>2, <2>3, <2>4, <2>5, <2>6, <1>a, Retyped DEF OpTypeOK
<1>7. CASE \E t \in TaskId : \E clean \in BOOLEAN : Summarize(t, clean)
  <2> PICK t \in TaskId, clean \in BOOLEAN : Summarize(t, clean)
    BY <1>7
  <2>1. UNCHANGED <<bound, engine, opener, button, page, givenBack, asked, silent, settling>>
    BY DEF Summarize, engineVars, pageVars, mainVars, rest, Watching, Unwatched, OpenerKeeps, Emit, Invoke, TakeLease, WindowIsGone
  <2>2. tasks' \in [TaskId -> TaskType]
    <3>1. [tasks[t] EXCEPT !.at = "summed", !.clean = clean] \in TaskType BY DEF OpTypeOK, TaskType
    <3>2. tasks' = [tasks EXCEPT ![t] = [@ EXCEPT !.at = "summed", !.clean = clean]]
      BY DEF Summarize, OpTypeOK, TaskType
    <3> QED BY <3>1, <3>2 DEF OpTypeOK
  <2>3. recorded' \in RecordedType
    BY <1>a DEF OpTypeOK, Summarize, RecordedType
  <2>4. inbox' \in Seq(EventSet)
    <3>1. tasks[t].run \in RunIds BY DEF OpTypeOK, TaskType
    <3>2. Event("summary", tasks[t].run, clean) \in EventSet BY <3>1, EventTyped
    <3> QED BY <3>2, EmitTyped DEF OpTypeOK, Summarize
  <2> QED BY <2>1, <2>2, <2>3, <2>4, <1>a, Retyped DEF OpTypeOK
<1>8. CASE \E t \in TaskId : Grant(t)
  <2> PICK t \in TaskId : Grant(t)
    BY <1>8
  <2>1. UNCHANGED <<bound, opener, button, recorded, page, givenBack, asked, silent, settling>>
    BY DEF Grant, engineVars, pageVars, mainVars, rest, Watching, Unwatched, OpenerKeeps, Emit, Invoke, TakeLease, WindowIsGone
  <2>2. engine' \in EngineType
    BY <1>a DEF OpTypeOK, Grant, EngineType, TaskType
  <2>3. tasks' \in [TaskId -> TaskType]
    BY <1>a DEF OpTypeOK, Grant, TaskType
  <2>4. inbox' \in Seq(EventSet)
    <3>1. tasks[t].run \in RunIds BY DEF OpTypeOK, TaskType
    <3>2. Event("ready", tasks[t].run, FALSE) \in EventSet BY <3>1, EventTyped
    <3> QED BY <3>2, EmitTyped DEF OpTypeOK, Grant
  <2> QED BY <2>1, <2>2, <2>3, <2>4, <1>a, Retyped DEF OpTypeOK
<1>9. CASE \E t \in TaskId : End(t)
  <2> PICK t \in TaskId : End(t)
    BY <1>9
  <2>1. UNCHANGED <<bound, opener, button, recorded, page, inbox, givenBack, silent, settling>>
    BY DEF End, engineVars, pageVars, mainVars, rest, Watching, Unwatched, OpenerKeeps, Emit, Invoke, TakeLease, WindowIsGone
  <2>2. engine' \in EngineType
    BY <1>a DEF OpTypeOK, End, EngineType, NoRun
  <2>3. tasks' \in [TaskId -> TaskType]
    BY <1>a DEF OpTypeOK, End, TaskType, NoTask
  <2>4. asked' \subseteq RunIds
    BY <1>a DEF OpTypeOK, End
  <2> QED BY <2>1, <2>2, <2>3, <2>4, <1>a, Retyped DEF OpTypeOK
<1>10. CASE \E t \in TaskId : AskToApply(t)
  <2> PICK t \in TaskId : AskToApply(t)
    BY <1>10
  <2>1. UNCHANGED <<bound, engine, opener, recorded, page, inbox, givenBack, asked, silent, settling>>
    BY DEF AskToApply, engineVars, pageVars, mainVars, rest, Watching, Unwatched, OpenerKeeps, Emit, Invoke, TakeLease, WindowIsGone
  <2>2. tasks' \in [TaskId -> TaskType]
    BY <1>a DEF OpTypeOK, AskToApply, TakeLease, ButtonType, TaskType, NoTask
  <2>3. button' \in ButtonType
    BY <1>a DEF OpTypeOK, AskToApply, ButtonType
  <2> QED BY <2>1, <2>2, <2>3, <1>a, Retyped DEF OpTypeOK
<1>11. CASE Reserve
  <2>1. UNCHANGED <<bound, tasks, recorded, page, inbox, givenBack, asked, silent, settling>>
    BY <1>11 DEF Reserve, engineVars, pageVars, mainVars, rest, Watching, Unwatched, OpenerKeeps, Emit, Invoke, TakeLease, WindowIsGone
  <2>2. engine' \in EngineType
    <3>1. engine.lastLaunch + 1 \in LaunchIds BY <1>11, <1>a DEF OpTypeOK, Reserve, EngineType, LaunchIds
    <3>2. [id |-> engine.lastLaunch + 1, phase |-> "reserved"] \in [id : LaunchIds, phase : Phases]
      BY <3>1 DEF Phases
    <3> QED BY <1>11, <1>a, <3>1, <3>2 DEF OpTypeOK, Reserve, EngineType
  <2>3. opener' \in OpenerType
    BY <1>11, <1>a DEF OpTypeOK, Reserve, OpenerType, LaunchIds, EngineType
  <2>4. button' \in ButtonType
    BY <1>11, <1>a DEF OpTypeOK, Reserve, ButtonType, LaunchIds, EngineType
  <2> QED BY <2>1, <2>2, <2>3, <2>4, <1>a, Retyped DEF OpTypeOK
<1>12. CASE FindWindow
  <2>1. UNCHANGED <<bound, engine, tasks, button, recorded, page, inbox, givenBack, asked, silent, settling>>
    BY <1>12 DEF FindWindow, engineVars, pageVars, mainVars, rest, Watching, Unwatched, OpenerKeeps, Emit, Invoke, TakeLease, WindowIsGone
  <2>2. opener' \in OpenerType
    BY <1>12, <1>a DEF OpTypeOK, FindWindow, OpenerFails, OpenerType
  <2> QED BY <2>1, <2>2, <1>a, Retyped DEF OpTypeOK
<1>13. CASE BuildWindow
  <2>1. UNCHANGED <<bound, tasks, button, recorded, inbox, givenBack, asked, silent, settling>>
    BY <1>13 DEF BuildWindow, engineVars, pageVars, mainVars, rest, Watching, Unwatched, OpenerKeeps, Emit, Invoke, TakeLease, WindowIsGone
  <2>2. engine' \in EngineType
    <3>1. engine' = engine \/ engine' = [engine EXCEPT !.pending.phase = "awaitMount"]
      BY <1>13 DEF BuildWindow
    <3> QED BY <3>1, PhaseTyped DEF OpTypeOK, Phases
  <2>3. opener' \in OpenerType
    BY <1>13, <1>a DEF OpTypeOK, BuildWindow, OpenerFails, OpenerType
  <2>4. page' \in PageType
    <3>1. [NoPage EXCEPT !.life = "loading", !.launch = opener.launch] \in PageType
      BY <1>a DEF OpTypeOK, PageType, NoPage, OpenerType
    <3> QED BY <1>13, <3>1 DEF OpTypeOK, BuildWindow
  <2> QED BY <2>1, <2>2, <2>3, <2>4, <1>a, Retyped DEF OpTypeOK
<1>14. CASE Signalled
  <2>1. UNCHANGED <<bound, engine, tasks, button, recorded, page, inbox, givenBack, asked, silent, settling>>
    BY <1>14 DEF Signalled, engineVars, pageVars, mainVars, rest, Watching, Unwatched, OpenerKeeps, Emit, Invoke, TakeLease, WindowIsGone
  <2>2. opener' \in OpenerType
    BY <1>14, <1>a DEF OpTypeOK, Signalled, OpenerFails, OpenerType
  <2> QED BY <2>1, <2>2, <1>a, Retyped DEF OpTypeOK
<1>15. CASE TimesOut
  <2>1. UNCHANGED <<bound, engine, tasks, button, recorded, page, inbox, givenBack, asked, silent, settling>>
    BY <1>15 DEF TimesOut, engineVars, pageVars, mainVars, rest, Watching, Unwatched, OpenerKeeps, Emit, Invoke, TakeLease, WindowIsGone
  <2>2. opener' \in OpenerType
    BY <1>15, <1>a DEF OpTypeOK, TimesOut, OpenerFails, OpenerType
  <2> QED BY <2>1, <2>2, <1>a, Retyped DEF OpTypeOK
<1>16. CASE Arm
  <2>1. UNCHANGED <<bound, tasks, button, recorded, page, givenBack, asked, silent, settling>>
    BY <1>16 DEF Arm, engineVars, pageVars, mainVars, rest, Watching, Unwatched, OpenerKeeps, Emit, Invoke, TakeLease, WindowIsGone
  <2>2. engine' \in EngineType
    <3>1. engine' = [engine EXCEPT !.pending.phase = "awaitAck"] \/ engine' = engine BY <1>16 DEF Arm
    <3> QED BY <3>1, PhaseTyped DEF OpTypeOK, Phases
  <2>3. opener' \in OpenerType
    BY <1>16, <1>a DEF OpTypeOK, Arm, OpenerFails, OpenerType
  <2>4. inbox' \in Seq(EventSet)
    <3>1. Event("arm", opener.launch, FALSE) \in EventSet BY EventTyped DEF OpTypeOK, OpenerType
    <3> QED BY <1>16, <3>1, EmitTyped DEF OpTypeOK, Arm
  <2> QED BY <2>1, <2>2, <2>3, <2>4, <1>a, Retyped DEF OpTypeOK
<1>17. CASE Opened
  <2>1. UNCHANGED <<bound, engine, tasks, recorded, page, inbox, givenBack, asked, silent, settling>>
    BY <1>17 DEF Opened, engineVars, pageVars, mainVars, rest, Watching, Unwatched, OpenerKeeps, Emit, Invoke, TakeLease, WindowIsGone
  <2>2. opener' \in OpenerType
    BY <1>17, <1>a DEF OpTypeOK, Opened, OpenerFails, OpenerType, NotOpening
  <2>3. button' \in ButtonType
    BY <1>17, <1>a DEF OpTypeOK, Opened, ButtonType
  <2> QED BY <2>1, <2>2, <2>3, <1>a, Retyped DEF OpTypeOK
<1>18. CASE TearDown
  <2>1. UNCHANGED <<bound, engine, tasks, button, recorded, givenBack, asked, silent, settling>>
    BY <1>18 DEF TearDown, engineVars, pageVars, mainVars, rest, Watching, Unwatched, OpenerKeeps, Emit, Invoke, TakeLease, WindowIsGone
  <2>2. opener' \in OpenerType
    BY <1>18, <1>a DEF OpTypeOK, TearDown, OpenerFails, OpenerType
  <2>3. page' \in PageType
    <3>1. NoPage \in PageType BY <1>a DEF PageType, NoPage
    <3> QED BY <1>18, <3>1 DEF OpTypeOK, TearDown, WindowIsGone, pageVars
  <2>4. inbox' \in Seq(EventSet)
    <3>1. inbox' = <<>> \/ inbox' = inbox BY <1>18 DEF TearDown, WindowIsGone, pageVars
    <3>2. inbox \in Seq(EventSet) BY DEF OpTypeOK
    <3>3. <<>> \in Seq(EventSet) OBVIOUS
    <3> QED BY <3>1, <3>2, <3>3, Zenon
  <2> QED BY <2>1, <2>2, <2>3, <2>4, <1>a, Retyped DEF OpTypeOK
<1>19. CASE SettleTearDown
  <2>1. UNCHANGED <<bound, tasks, button, recorded, page, inbox, givenBack, asked, silent, settling>>
    BY <1>19 DEF SettleTearDown, engineVars, pageVars, mainVars, rest, Watching, Unwatched, OpenerKeeps, Emit, Invoke, TakeLease, WindowIsGone
  <2>2. engine' \in EngineType
    BY <1>19, <1>a DEF OpTypeOK, SettleTearDown, EngineType, Settled
  <2>3. opener' \in OpenerType
    BY <1>19, <1>a DEF OpTypeOK, SettleTearDown, OpenerFails, OpenerType
  <2> QED BY <2>1, <2>2, <2>3, <1>a, Retyped DEF OpTypeOK
<1>20. CASE Abandon
  <2>1. UNCHANGED <<bound, tasks, recorded, page, inbox, givenBack, asked, silent, settling>>
    BY <1>20 DEF Abandon, engineVars, pageVars, mainVars, rest, Watching, Unwatched, OpenerKeeps, Emit, Invoke, TakeLease, WindowIsGone
  <2>2. engine' \in EngineType
    BY <1>20, <1>a, CancelTyped DEF OpTypeOK, Abandon
  <2>3. opener' \in OpenerType
    BY <1>20, <1>a DEF OpTypeOK, Abandon, OpenerFails, OpenerType, NotOpening
  <2>4. button' \in ButtonType
    BY <1>20, <1>a DEF OpTypeOK, Abandon, ButtonType
  <2> QED BY <2>1, <2>2, <2>3, <2>4, <1>a, Retyped DEF OpTypeOK
<1>21. CASE GiveBack
  <2>1. UNCHANGED <<bound, engine, tasks, opener, recorded, page, inbox, asked, silent, settling>>
    BY <1>21 DEF GiveBack, engineVars, pageVars, mainVars, rest, Watching, Unwatched, OpenerKeeps, Emit, Invoke, TakeLease, WindowIsGone
  <2>2. button' \in ButtonType
    BY <1>21, <1>a DEF OpTypeOK, GiveBack, ButtonType
  <2>3. givenBack' \subseteq LaunchIds
    BY <1>21, <1>a DEF OpTypeOK, GiveBack, ButtonType
  <2> QED BY <2>1, <2>2, <2>3, <1>a, Retyped DEF OpTypeOK
<1>22. CASE \E l \in givenBack : Unreserve(l)
  <2> PICK l \in givenBack : Unreserve(l)
    BY <1>22
  <2>1. UNCHANGED <<bound, tasks, opener, button, recorded, page, inbox, asked, silent, settling>>
    BY DEF Unreserve, engineVars, pageVars, mainVars, rest, Watching, Unwatched, OpenerKeeps, Emit, Invoke, TakeLease, WindowIsGone
  <2>2. engine' \in EngineType
    BY <1>a, CancelTyped DEF OpTypeOK, Unreserve
  <2>3. givenBack' \subseteq LaunchIds
    BY <1>a DEF OpTypeOK, Unreserve
  <2> QED BY <2>1, <2>2, <2>3, <1>a, Retyped DEF OpTypeOK
<1>23. CASE Mount
  <2>1. UNCHANGED <<bound, tasks, button, recorded, inbox, givenBack, asked, settling>>
    BY <1>23 DEF Mount, engineVars, pageVars, mainVars, rest, Watching, Unwatched, OpenerKeeps, Emit, Invoke, TakeLease, WindowIsGone
  <2>2. engine' \in EngineType
    BY <1>23, <1>a DEF OpTypeOK, Mount, Signals, HoldsLaunch, Phases, EngineType, OpenerType
  <2>3. opener' \in OpenerType
    BY <1>23, <1>a DEF OpTypeOK, Mount, Signals, HoldsLaunch, Phases, EngineType, OpenerType
  <2>4. page' \in PageType
    <3>1. page \in PageType /\ recorded \in RecordedType /\ engine.lastRun \in RunIds
      BY DEF OpTypeOK, EngineType
    <3>2. recorded.ended \in {"no", "clean", "bad"} BY <3>1 DEF RecordedType
    <3> QED BY <1>23, <1>a, <3>1, <3>2 DEF Mount, PageType
  <2>5. silent' \subseteq RunIds
    BY <1>23, <1>a DEF OpTypeOK, Mount, EngineType
  <2> QED BY <2>1, <2>2, <2>3, <2>4, <2>5, <1>a, Retyped DEF OpTypeOK
<1>24. CASE Receive
  <2>1. UNCHANGED <<bound, tasks, button, recorded, givenBack, asked, silent, settling>>
    BY <1>24 DEF Receive, engineVars, pageVars, mainVars, rest, Watching, Unwatched, OpenerKeeps, Emit, Invoke, TakeLease, WindowIsGone
  <2>2. engine' \in EngineType
    <3>1. engine' = [engine EXCEPT !.pending.phase = "ready"] \/ engine' = engine
      BY <1>24 DEF Receive, Signals
    <3> QED BY <3>1, PhaseTyped DEF OpTypeOK, Phases
  <2>3. opener' \in OpenerType
    BY <1>24, <1>a DEF OpTypeOK, Receive, Signals, HoldsLaunch, Phases, EngineType, OpenerType
  <2>4. page' \in PageType
    <3> DEFINE e == Head(inbox)
    <3>1. e \in EventSet BY <1>24 DEF OpTypeOK, Receive
    <3>2. page \in PageType BY DEF OpTypeOK
    <3>3. CASE e.kind = "arm" BY <1>24, <1>a, <3>1, <3>2, <3>3 DEF Receive, Armed, PageType, EventSet
    <3>4. CASE e.kind \in {"run", "summary"}
      <4>1. e.id \in RunIds /\ e.clean \in BOOLEAN BY <3>1, <3>4 DEF EventSet
      <4>2. Shows(page, e.id) \in PageType BY <3>2, <4>1, <1>a DEF Shows, PageType
      <4>3. Ends(Shows(page, e.id), e.clean) \in PageType
        <5> DEFINE q == Shows(page, e.id)
                   clean == e.clean
        <5>1. q \in PageType /\ clean \in BOOLEAN BY <4>1, <4>2
        <5> HIDE DEF q, clean
        <5>2. \E d \in BOOLEAN, due \in RunIds, ended \in {"clean", "bad"} :
                Ends(q, clean) = [q EXCEPT !.pend = 0, !.after = 0, !.destroying = d, !.running = FALSE,
                                           !.ended = ended, !.due = due]
          <6>1. q.shown \in RunIds BY <5>1 DEF PageType
          <6>2. (q.destroying \/ q.closeAfter) \in BOOLEAN OBVIOUS
          <6>3. (IF clean THEN "clean" ELSE "bad") \in {"clean", "bad"} OBVIOUS
          <6>4. (IF clean /\ AutoClose /\ ~q.closeAfter THEN q.shown ELSE 0) \in RunIds
            BY <6>1, <1>a
          <6> QED BY <6>2, <6>3, <6>4 DEF Ends
        <5>3. PICK d \in BOOLEAN, due \in RunIds, ended \in {"clean", "bad"} :
                Ends(q, clean) = [q EXCEPT !.pend = 0, !.after = 0, !.destroying = d, !.running = FALSE,
                                           !.ended = ended, !.due = due]
          BY <5>2
        <5>4. [q EXCEPT !.pend = 0, !.after = 0, !.destroying = d, !.running = FALSE,
                        !.ended = ended, !.due = due] \in PageType
          BY <5>1, <1>a DEF PageType
        <5>5. Ends(q, clean) \in PageType BY <5>3, <5>4
        <5> QED BY <5>5 DEF q, clean
      <4> QED BY <1>24, <3>2, <3>4, <4>2, <4>3 DEF Receive
    <3>5. CASE e.kind = "rejected"
      <4>1. IsRejected(page) \in PageType BY <3>2, <1>a DEF IsRejected, PageType
      <4> QED BY <1>24, <3>2, <3>5, <4>1 DEF Receive
    <3>6. CASE e.kind = "ready" BY <1>24, <3>1, <3>2, <3>6 DEF Receive, PageType, EventSet
    <3> QED BY <3>1, <3>3, <3>4, <3>5, <3>6 DEF EventSet
  <2>5. inbox' \in Seq(EventSet)
    BY <1>24, <1>a DEF OpTypeOK, Receive
  <2> QED BY <2>1, <2>2, <2>3, <2>4, <2>5, <1>a, Retyped DEF OpTypeOK
<1>25. CASE CloseByItself
  <2>1. UNCHANGED <<bound, engine, tasks, opener, button, recorded, inbox, givenBack, asked, silent, settling>>
    BY <1>25 DEF CloseByItself, engineVars, pageVars, mainVars, rest, Watching, Unwatched, OpenerKeeps, Emit, Invoke, TakeLease, WindowIsGone
  <2>2. page' \in PageType
    BY <1>25, <1>a DEF OpTypeOK, CloseByItself, PageType
  <2> QED BY <2>1, <2>2, <1>a, Retyped DEF OpTypeOK
<1>26. CASE Sleep
  <2>1. UNCHANGED <<bound, tasks, opener, button, recorded, page, inbox, givenBack, asked, silent, settling>>
    BY <1>26 DEF Sleep, engineVars, pageVars, mainVars, rest, Watching, Unwatched, OpenerKeeps, Emit, Invoke, TakeLease, WindowIsGone
  <2>2. engine' \in EngineType
    BY <1>26, <1>a DEF OpTypeOK, Sleep, EngineType
  <2> QED BY <2>1, <2>2, <1>a, Retyped DEF OpTypeOK
<1>27. CASE ClickStop
  <2>1. UNCHANGED <<bound, tasks, opener, button, recorded, page, inbox, givenBack, silent, settling>>
    BY <1>27 DEF ClickStop, engineVars, pageVars, mainVars, rest, Watching, Unwatched, OpenerKeeps, Emit, Invoke, TakeLease, WindowIsGone
  <2>2. engine' \in EngineType
    BY <1>27, <1>a DEF OpTypeOK, ClickStop, EngineType, RequestCancel, Controls
  <2>3. asked' \subseteq RunIds
    BY <1>27, <1>a DEF OpTypeOK, ClickStop, PageType, RequestCancel, Controls
  <2> QED BY <2>1, <2>2, <2>3, <1>a, Retyped DEF OpTypeOK
<1>28. CASE ClickClose
  <2>1. UNCHANGED <<bound, tasks, opener, button, recorded, inbox, givenBack, silent, settling>>
    BY <1>28 DEF ClickClose, engineVars, pageVars, mainVars, rest, Watching, Unwatched, OpenerKeeps, Emit, Invoke, TakeLease, WindowIsGone
  <2>2. engine' \in EngineType
    BY <1>28, <1>a DEF OpTypeOK, ClickClose, EngineType, Phases, BeginClose, Answer, NoLaunch
  <2>3. asked' \subseteq RunIds
    BY <1>28, <1>a DEF OpTypeOK, ClickClose, EngineType, BeginClose, Answer, NoLaunch
  <2>4. page' \in PageType
    BY <1>28, <1>a DEF OpTypeOK, ClickClose, PageType, BeginClose, Answer, NoLaunch
  <2> QED BY <2>1, <2>2, <2>3, <2>4, <1>a, Retyped DEF OpTypeOK
<1>29. CASE Answered
  <2>1. UNCHANGED <<bound, tasks, opener, button, recorded, inbox, givenBack, silent, settling>>
    BY <1>29 DEF Answered, engineVars, pageVars, mainVars, rest, Watching, Unwatched, OpenerKeeps, Emit, Invoke, TakeLease, WindowIsGone
  <2>2. engine' \in EngineType
    <3>1. CASE UNCHANGED engine BY <3>1 DEF OpTypeOK
    <3>2. CASE RequestCancel(page.shown) BY <3>2 DEF OpTypeOK, RequestCancel, EngineType
    <3>3. CASE BeginClose BY <3>3, ClosingTyped
    <3> QED BY <1>29, <3>1, <3>2, <3>3 DEF Answered
  <2>3. asked' \subseteq RunIds
    BY <1>29, <1>a DEF OpTypeOK, Answered, EngineType, PageType, RequestCancel, Controls, BeginClose, Answer, NoLaunch
  <2>4. page' \in PageType
    <3> DEFINE p == [page EXCEPT !.closeAfter = TRUE]
    <3>0. p \in PageType BY DEF OpTypeOK, PageType
    <3>1. CASE page.close = "pending" /\ Leaves([p EXCEPT !.pend = 0, !.after = 0])
      BY <3>0, <3>1, <1>a DEF PageType, Leaves, AsksToGo
    <3>2. CASE Leaves(p) BY <3>0, <3>2 DEF PageType, Leaves, AsksToGo
    <3>3. CASE Stays(p) BY <3>0, <3>3 DEF PageType, Stays
    <3>4. CASE \E c \in {"tooLate", "cancelled"} : page' = [p EXCEPT !.close = c]
      BY <3>0, <3>4 DEF PageType
    <3>5. CASE BeginClose BY <3>5, ClosingTyped
    <3>6. \/ page.close = "pending" /\ Leaves([p EXCEPT !.pend = 0, !.after = 0])
          \/ Leaves(p) \/ Stays(p) \/ BeginClose
          \/ \E c \in {"tooLate", "cancelled"} : page' = [p EXCEPT !.close = c]
      BY <1>29 DEF Answered
    <3> QED BY <3>1, <3>2, <3>3, <3>4, <3>5, <3>6
  <2> QED BY <2>1, <2>2, <2>3, <2>4, <1>a, Retyped DEF OpTypeOK
<1>30. CASE ServeDestroy
  <2>1. UNCHANGED <<bound, engine, tasks, opener, button, recorded, givenBack, asked, silent>>
    BY <1>30 DEF ServeDestroy, engineVars, pageVars, mainVars, rest, Watching, Unwatched, OpenerKeeps, Emit, Invoke, TakeLease, WindowIsGone
  <2>2. page' \in PageType
    <3>1. NoPage \in PageType BY <1>a DEF PageType, NoPage
    <3>2. [page EXCEPT !.destroying = FALSE] \in PageType BY DEF OpTypeOK, PageType
    <3> QED BY <1>30, <3>1, <3>2 DEF OpTypeOK, ServeDestroy, WindowIsGone
  <2>3. inbox' \in Seq(EventSet)
    <3>1. inbox' = <<>> \/ inbox' = inbox BY <1>30 DEF ServeDestroy, WindowIsGone
    <3>2. inbox \in Seq(EventSet) BY DEF OpTypeOK
    <3>3. <<>> \in Seq(EventSet) OBVIOUS
    <3> QED BY <3>1, <3>2, <3>3, Zenon
  <2>4. settling' \in BOOLEAN
    BY <1>30, <1>a DEF OpTypeOK, ServeDestroy
  <2> QED BY <2>1, <2>2, <2>3, <2>4, <1>a, Retyped DEF OpTypeOK
<1>31. CASE SettleClose
  <2>1. UNCHANGED <<bound, tasks, opener, button, recorded, page, inbox, givenBack, asked, silent>>
    BY <1>31 DEF SettleClose, engineVars, pageVars, mainVars, rest, Watching, Unwatched, OpenerKeeps, Emit, Invoke, TakeLease, WindowIsGone
  <2>2. engine' \in EngineType
    BY <1>31, <1>a DEF OpTypeOK, SettleClose, EngineType, Settled
  <2>3. settling' \in BOOLEAN
    BY <1>31, <1>a DEF OpTypeOK, SettleClose
  <2> QED BY <2>1, <2>2, <2>3, <1>a, Retyped DEF OpTypeOK
<1> QED
  BY <1>0, <1>1, <1>2, <1>3, <1>4, <1>5, <1>6, <1>7, <1>8, <1>9, <1>10, <1>11, <1>12, <1>13, <1>14, <1>15, <1>16, <1>17, <1>18, <1>19, <1>20, <1>21, <1>22, <1>23, <1>24, <1>25, <1>26, <1>27, <1>28, <1>29, <1>30, <1>31
  DEF OpNext, TaskStep, OpenerStep, PageStep
-----------------------------------------------------------------------------
(* Runs and launches. *)

\* What a step of the windows or a mutation does to the lifecycle: the run at work stays, and a
\* launch is prepared further or given up.
Beside ==
  /\ engine'.active.id = engine.active.id /\ engine'.active.purpose = engine.active.purpose
  /\ engine'.active.launch = engine.active.launch
  /\ engine'.active.cancel => engine.active.cancel \/ engine.active.purpose = "apply"
  /\ engine.active = NoRun => engine'.active = NoRun
  /\ engine'.lastRun = engine.lastRun
  /\ engine'.grant \in {0, engine.grant}
  /\ \/ engine'.pending \in {engine.pending, NoLaunch}
     \/ engine'.pending.id = engine.pending.id /\ engine.pending.id # 0

BesideActions ==
  \/ BeginMutation \/ EndMutation \/ OpenerStep \/ GiveBack
  \/ (\E l \in givenBack : Unreserve(l)) \/ PageStep

LEMMA CancelBeside ==
  ASSUME OpTypeOK, NEW r, RequestCancel(r)
  PROVE  Beside
<1>1. engine \in EngineType BY DEF OpTypeOK
<1>2. CASE Controls(r)
  <2>1. engine' = [engine EXCEPT !.active.cancel = TRUE] /\ engine.active # NoRun
    BY <1>2 DEF RequestCancel, Controls, NoRun
  <2> QED BY <1>1, <1>2, <2>1 DEF Beside, EngineType, Controls
<1>3. CASE ~Controls(r) BY <1>3 DEF RequestCancel, Beside
<1> QED BY <1>2, <1>3

LEMMA CloseBeside ==
  ASSUME OpTypeOK, BeginClose
  PROVE  Beside
<1>1. engine \in EngineType BY DEF OpTypeOK
<1> DEFINE e == [engine EXCEPT !.closing = TRUE, !.grant = 0, !.pending = NoLaunch]
<1>2. CASE engine' = e BY <1>1, <1>2 DEF Beside, EngineType
<1>3. CASE engine' = [e EXCEPT !.active.cancel = TRUE] /\ engine.active.purpose = "apply"
  <2>1. engine.active # NoRun BY <1>3 DEF NoRun
  <2> QED BY <1>1, <1>3, <2>1 DEF Beside, EngineType
<1> QED BY <1>2, <1>3 DEF BeginClose

LEMMA BesideStep == OpTypeOK /\ BesideActions => Beside
<1> SUFFICES ASSUME OpTypeOK, BesideActions PROVE Beside OBVIOUS
<1>0. engine \in EngineType BY DEF OpTypeOK
<1>1. CASE BeginMutation
  BY <1>0, <1>1 DEF BeginMutation, Beside, EngineType, engineVars, pageVars, mainVars, rest
<1>2. CASE EndMutation
  BY <1>0, <1>2 DEF EndMutation, Beside, EngineType, engineVars, pageVars, mainVars, rest
<1>3. CASE FindWindow
  BY <1>0, <1>3 DEF FindWindow, Beside, EngineType, engineVars, pageVars, mainVars, rest, OpenerKeeps
<1>4. CASE BuildWindow
  BY <1>0, <1>4 DEF BuildWindow, Beside, EngineType, engineVars, pageVars, mainVars, rest, OpenerKeeps, HoldsLaunch
<1>5. CASE Signalled
  BY <1>0, <1>5 DEF Signalled, Beside, EngineType, engineVars, pageVars, mainVars, rest, OpenerKeeps
<1>6. CASE TimesOut
  BY <1>0, <1>6 DEF TimesOut, Beside, EngineType, engineVars, pageVars, mainVars, rest, OpenerKeeps
<1>7. CASE Arm
  <2>1. \/ engine' = [engine EXCEPT !.pending.phase = "awaitAck"] /\ HoldsLaunch(opener.launch)
        \/ engine' = engine
    BY <1>7 DEF Arm
  <2> QED BY <1>0, <2>1 DEF Beside, EngineType, HoldsLaunch
<1>8. CASE Opened
  BY <1>0, <1>8 DEF Opened, Beside, EngineType, engineVars, pageVars, mainVars, rest
<1>9. CASE TearDown
  BY <1>0, <1>9 DEF TearDown, Beside, EngineType, engineVars, pageVars, mainVars, rest
<1>10. CASE SettleTearDown
  BY <1>0, <1>10 DEF SettleTearDown, Beside, EngineType, engineVars, pageVars, mainVars, rest, Settled
<1>11. CASE Abandon
  BY <1>0, <1>11 DEF Abandon, Beside, EngineType, engineVars, pageVars, mainVars, rest, CancelLaunch
<1>12. CASE GiveBack
  BY <1>0, <1>12 DEF GiveBack, Beside, EngineType, engineVars, pageVars, mainVars, rest
<1>13. CASE \E l \in givenBack : Unreserve(l)
  BY <1>0, <1>13 DEF Unreserve, Beside, EngineType, engineVars, pageVars, mainVars, rest, CancelLaunch
<1>14. CASE Mount
  BY <1>0, <1>14 DEF Mount, Beside, EngineType, engineVars, pageVars, mainVars, rest, Signals, HoldsLaunch, Watching
<1>15. CASE Receive
  BY <1>0, <1>15 DEF Receive, Beside, EngineType, engineVars, pageVars, mainVars, rest, Signals, HoldsLaunch, Unwatched, Watching
<1>16. CASE CloseByItself
  BY <1>0, <1>16 DEF CloseByItself, Beside, EngineType, engineVars, pageVars, mainVars, rest
<1>17. CASE Sleep
  BY <1>0, <1>17 DEF Sleep, Beside, EngineType, engineVars, pageVars, mainVars, rest
<1>18. CASE ClickStop BY <1>18, CancelBeside DEF ClickStop
<1>19. CASE ClickClose BY <1>19, CloseBeside DEF ClickClose
<1>20. CASE Answered
  <2>1. UNCHANGED engine \/ RequestCancel(page.shown) \/ BeginClose BY <1>20 DEF Answered
  <2>2. CASE UNCHANGED engine BY <2>2 DEF Beside
  <2>3. CASE RequestCancel(page.shown) BY <2>3, CancelBeside
  <2>4. CASE BeginClose BY <2>4, CloseBeside
  <2> QED BY <2>1, <2>2, <2>3, <2>4
<1>21. CASE ServeDestroy
  BY <1>0, <1>21 DEF ServeDestroy, Beside, EngineType, engineVars, pageVars, mainVars, rest
<1>22. CASE SettleClose
  BY <1>0, <1>22 DEF SettleClose, Beside, EngineType, engineVars, pageVars, mainVars, rest, Settled
<1> QED
  BY <1>1, <1>2, <1>3, <1>4, <1>5, <1>6, <1>7, <1>8, <1>9, <1>10, <1>11, <1>12, <1>13, <1>14, <1>15, <1>16, <1>17, <1>18, <1>19, <1>20, <1>21, <1>22
  DEF BesideActions, OpenerStep, PageStep

\* They leave the commands alone.
LEMMA BesideTasks == BesideActions => UNCHANGED <<tasks, recorded, bound>>
<1> SUFFICES ASSUME BesideActions PROVE UNCHANGED <<tasks, recorded, bound>> OBVIOUS
<1>1. CASE BeginMutation \/ EndMutation BY <1>1 DEF BeginMutation, EndMutation, rest
<1>2. CASE OpenerStep
  BY <1>2 DEF OpenerStep, FindWindow, BuildWindow, Signalled, TimesOut, Arm, Opened, TearDown,
              SettleTearDown, Abandon, OpenerKeeps, rest, engineVars
<1>3. CASE GiveBack \/ \E l \in givenBack : Unreserve(l)
  BY <1>3 DEF GiveBack, Unreserve, rest, engineVars
<1>4. CASE PageStep
  BY <1>4 DEF PageStep, Mount, Receive, CloseByItself, Sleep, ClickStop, ClickClose, Answered,
              ServeDestroy, SettleClose, Watching, Unwatched, engineVars
<1> QED BY <1>1, <1>2, <1>3, <1>4 DEF BesideActions

\* The run at work is the one its command knows, the last one, and alone.
LEMMA RunsStep ==
  OpTypeOK /\ RunsAgree /\ ActiveIsLast /\ GrantIsLast /\ [OpNext]_opVars
    => RunsAgree' /\ ActiveIsLast' /\ GrantIsLast'
<1> SUFFICES ASSUME OpTypeOK, RunsAgree, ActiveIsLast, GrantIsLast, [OpNext]_opVars
             PROVE  RunsAgree' /\ ActiveIsLast' /\ GrantIsLast'
  OBVIOUS
<1>0. engine \in EngineType /\ tasks \in [TaskId -> TaskType]
  BY DEF OpTypeOK
<1>1. CASE BesideActions
  <2>1. Beside /\ tasks' = tasks BY <1>1, BesideStep, BesideTasks
  <2>3. RunsAgree' BY <2>1 DEF RunsAgree, Beside
  <2>4. ActiveIsLast' BY <2>1, <1>0 DEF ActiveIsLast, Beside, NoLaunch, NoRun
  <2>5. GrantIsLast' BY <2>1 DEF GrantIsLast, ActiveIsLast, Beside, NoLaunch
  <2> QED BY <2>3, <2>4, <2>5
<1>2. CASE UNCHANGED opVars
  BY <1>2 DEF opVars, RunsAgree, ActiveIsLast, GrantIsLast
<1>3. CASE Reserve
  <2>1. engine.lastLaunch + 1 # 0 /\ engine.active = NoRun
    BY <1>3, <1>0 DEF Reserve, IsBusy, EngineType, LaunchIds
  <2>2. /\ engine'.active = engine.active /\ engine'.lastRun = engine.lastRun /\ engine'.grant = 0
        /\ engine'.pending = [id |-> engine.lastLaunch + 1, phase |-> "reserved"] /\ tasks' = tasks
    BY <1>3, <1>0 DEF Reserve, EngineType
  <2> QED BY <2>1, <2>2 DEF RunsAgree, ActiveIsLast, GrantIsLast, NoLaunch
<1>4. ASSUME NEW t \in TaskId, NEW kind, NEW launch, TakeLease(t, kind, launch), engine' = engine
      PROVE  RunsAgree' /\ ActiveIsLast' /\ GrantIsLast'
  <2>1. /\ tasks[t] = NoTask /\ tasks'[t].at = "leased" /\ tasks'[t].run = 0
        /\ \A u \in TaskId \ {t} : tasks'[u] = tasks[u]
    BY <1>0, <1>4 DEF TakeLease, NoTask
  <2> QED BY <1>4, <2>1 DEF RunsAgree, ActiveIsLast, GrantIsLast, AtRun, NoTask
<1>5. CASE \E t \in TaskId : (\E kind \in {"compare", "apply"} : Invoke(t, kind)) \/ AskToApply(t)
  BY <1>4, <1>5 DEF Invoke, AskToApply, engineVars
<1>6. ASSUME NEW t \in TaskId, StartRun(t)
      PROVE  RunsAgree' /\ ActiveIsLast' /\ GrantIsLast'
  <2>1. engine.active.id = 0 /\ \A u \in TaskId : tasks[u].at \notin AtRun
    BY <1>6 DEF StartRun, Admits, NoRun, RunsAgree
  <2>2. engine.lastRun + 1 \in RunIds /\ engine.lastRun + 1 # 0
    BY <1>0, <1>6 DEF StartRun, Admits, EngineType, RunIds, OpTypeOK
  <2>3. /\ engine'.active.id = engine.lastRun + 1 /\ engine'.lastRun = engine.lastRun + 1
        /\ engine'.pending = NoLaunch /\ engine'.grant = 0
    BY <1>0, <1>6 DEF StartRun, EngineType
  <2>4. /\ tasks'[t].at = "running" /\ tasks'[t].run = engine.lastRun + 1
        /\ \A u \in TaskId \ {t} : tasks'[u] = tasks[u]
    BY <1>0, <1>6 DEF StartRun, TaskType
  <2>5. RunsAgree' BY <2>1, <2>2, <2>3, <2>4 DEF RunsAgree, AtRun
  <2>6. engine'.active # NoRun BY <2>2, <2>3 DEF NoRun
  <2> QED BY <2>2, <2>3, <2>5, <2>6 DEF ActiveIsLast, GrantIsLast, NoLaunch
<1>7. ASSUME NEW t \in TaskId, Refuse(t)
      PROVE  RunsAgree' /\ ActiveIsLast' /\ GrantIsLast'
  <2>1. /\ tasks'[t] = NoTask /\ tasks[t].at = "leased"
        /\ \A u \in TaskId \ {t} : tasks'[u] = tasks[u]
    BY <1>0, <1>7 DEF Refuse
  <2>2. /\ engine'.active = engine.active /\ engine'.lastRun = engine.lastRun
        /\ engine'.grant = engine.grant /\ engine'.pending \in {engine.pending, NoLaunch}
    BY <1>0, <1>7 DEF Refuse, CancelLaunch, EngineType
  <2> QED BY <2>1, <2>2 DEF RunsAgree, ActiveIsLast, GrantIsLast, AtRun, NoTask, NoLaunch
<1>8. ASSUME NEW t \in TaskId, Panics(t) \/ End(t)
      PROVE  RunsAgree' /\ ActiveIsLast' /\ GrantIsLast'
  <2>1. /\ tasks'[t] = NoTask /\ \A u \in TaskId \ {t} : tasks'[u] = tasks[u]
    BY <1>0, <1>8 DEF Panics, End
  <2>2. /\ engine'.active = (IF tasks[t].at = "leased" THEN engine.active ELSE NoRun)
        /\ engine'.lastRun = engine.lastRun
        /\ engine'.grant = engine.grant /\ engine'.pending \in {engine.pending, NoLaunch}
    BY <1>0, <1>8 DEF Panics, End, CancelLaunch, EngineType
  <2>3. tasks[t].at \in AtRun \/ tasks[t].at = "leased" BY <1>8 DEF Panics, End, AtRun
  <2>4. RunsAgree' BY <2>1, <2>2, <2>3 DEF RunsAgree, AtRun, NoTask
  <2> QED BY <2>2, <2>4 DEF ActiveIsLast, GrantIsLast, NoLaunch, NoRun
<1>9. ASSUME NEW t \in TaskId, (\E clean \in BOOLEAN : Summarize(t, clean)) \/ Grant(t)
      PROVE  RunsAgree' /\ ActiveIsLast' /\ GrantIsLast'
  <2>1. /\ tasks[t].at \in AtRun /\ tasks'[t].at \in AtRun /\ tasks'[t].run = tasks[t].run
        /\ \A u \in TaskId \ {t} : tasks'[u] = tasks[u]
    <3>1. CASE \E clean \in BOOLEAN : Summarize(t, clean)
      BY <1>0, <3>1 DEF Summarize, TaskType, AtRun
    <3>2. CASE Grant(t) BY <1>0, <3>2 DEF Grant, TaskType, AtRun
    <3> QED BY <1>9, <3>1, <3>2
  <2>2. /\ engine'.active = engine.active /\ engine'.lastRun = engine.lastRun
        /\ engine'.pending = engine.pending /\ engine'.grant \in {engine.grant, tasks[t].run}
    BY <1>0, <1>9 DEF Summarize, Grant, EngineType
  <2>3. RunsAgree' BY <2>1, <2>2 DEF RunsAgree, AtRun
  <2> QED BY <2>1, <2>2, <2>3 DEF RunsAgree, ActiveIsLast, GrantIsLast, NoRun
<1> QED BY <1>1, <1>2, <1>3, <1>5, <1>6, <1>7, <1>8, <1>9 DEF OpNext, TaskStep, BesideActions
\* What the steps that are neither the Apply button's nor a launch's end leave alone.
LEMMA OwnersStay ==
  ASSUME OpTypeOK, [OpNext]_opVars,
         ~Reserve, ~Opened, ~Abandon, ~GiveBack, ~\E l \in givenBack : Unreserve(l),
         ~\E t \in TaskId : AskToApply(t)
  PROVE  /\ button' = button /\ givenBack' = givenBack
         /\ opener'.launch = opener.launch
         /\ opener.at = "idle" <=> opener'.at = "idle"
         /\ opener.at = "idle" => opener' = opener
<1>0. opener \in OpenerType BY DEF OpTypeOK
<1>1. CASE UNCHANGED opVars \/ BeginMutation \/ EndMutation
  BY <1>1 DEF opVars, mainVars, BeginMutation, EndMutation
<1>2. CASE \E t \in TaskId : TaskStep(t)
  BY <1>2 DEF TaskStep, Invoke, StartRun, Refuse, Panics, Summarize, Grant, End, mainVars
<1>3. CASE OpenerStep
  <2>1. button' = button /\ givenBack' = givenBack
    BY <1>3 DEF OpenerStep, FindWindow, BuildWindow, Signalled, TimesOut, Arm, TearDown, SettleTearDown,
                OpenerKeeps
  <2>2. /\ opener.at \notin {"idle"}
        /\ \E at \in {"arming", "failed", "mounting", "armed", "tearing", "settling"}, signal \in BOOLEAN :
             opener' = [opener EXCEPT !.at = at, !.signal = signal]
    <3>1. /\ opener.at # "idle"
          /\ \E at \in {"arming", "failed", "mounting", "armed", "tearing", "settling"} :
               \/ opener' = [opener EXCEPT !.at = at]
               \/ opener' = [opener EXCEPT !.at = at, !.signal = FALSE]
      BY <1>3 DEF OpenerStep, FindWindow, BuildWindow, Signalled, TimesOut, Arm, TearDown, SettleTearDown,
                  OpenerFails
    <3>2. PICK at \in {"arming", "failed", "mounting", "armed", "tearing", "settling"} :
            \/ opener' = [opener EXCEPT !.at = at]
            \/ opener' = [opener EXCEPT !.at = at, !.signal = FALSE]
      BY <3>1
    <3>3. CASE opener' = [opener EXCEPT !.at = at]
      <4>1. opener' = [opener EXCEPT !.at = at, !.signal = opener.signal] BY <1>0, <3>3 DEF OpenerType
      <4>2. opener.signal \in BOOLEAN BY <1>0 DEF OpenerType
      <4> QED BY <3>1, <4>1, <4>2
    <3> QED BY <3>1, <3>2, <3>3
  <2> QED BY <1>0, <2>1, <2>2 DEF OpenerType
<1>4. CASE PageStep
  <2>1. button' = button /\ givenBack' = givenBack
    BY <1>4 DEF PageStep, Mount, Receive, CloseByItself, Sleep, ClickStop, ClickClose, Answered,
                ServeDestroy, SettleClose, Watching, Unwatched, mainVars
  <2>2. \/ opener' = opener
        \/ opener' = [opener EXCEPT !.signal = TRUE] /\ opener.at \in {"mounting", "armed"}
    BY <1>4 DEF PageStep, Mount, Receive, CloseByItself, Sleep, ClickStop, ClickClose, Answered,
                ServeDestroy, SettleClose, mainVars, Signals
  <2> QED BY <1>0, <2>1, <2>2 DEF OpenerType
<1> QED BY <1>1, <1>2, <1>3, <1>4 DEF OpNext

\* What becomes of a launch: nothing, its end, or the next phase of its preparation.
LEMMA LaunchStep ==
  ASSUME OpTypeOK, ActiveIsLast, [OpNext]_opVars, ~Reserve
  PROVE  \/ engine'.pending = NoLaunch
         \/ engine'.pending.id = engine.pending.id /\ engine.pending # NoLaunch
<1>0. engine \in EngineType BY DEF OpTypeOK
<1>1. CASE BesideActions BY <1>1, BesideStep DEF Beside, ActiveIsLast
<1>2. CASE UNCHANGED opVars BY <1>2 DEF opVars
<1>3. ASSUME NEW t \in TaskId, TaskStep(t) \/ AskToApply(t)
      PROVE  engine'.pending \in {engine.pending, NoLaunch}
  <2>1. CASE AskToApply(t) \/ \E kind \in {"compare", "apply"} : Invoke(t, kind)
    BY <2>1 DEF AskToApply, Invoke, engineVars
  <2>2. CASE StartRun(t) \/ Grant(t) \/ End(t)
    BY <1>0, <2>2 DEF StartRun, Grant, End, EngineType, engineVars
  <2>3. CASE Refuse(t) \/ Panics(t) \/ \E clean \in BOOLEAN : Summarize(t, clean)
    BY <1>0, <2>3 DEF Refuse, Panics, Summarize, CancelLaunch, EngineType, engineVars
  <2> QED BY <1>3, <2>1, <2>2, <2>3 DEF TaskStep
<1>4. CASE \E t \in TaskId : TaskStep(t) \/ AskToApply(t) BY <1>3, <1>4
<1> QED BY <1>1, <1>2, <1>4 DEF OpNext, BesideActions

\* A launch keeps an owner: the command that opens the window, the Apply button, or a call that
\* gives it back and has not been served.
LEMMA OwnerStep ==
  OpTypeOK /\ ActiveIsLast /\ OpenerServes /\ LaunchHasAnOwner /\ [OpNext]_opVars
    => OpenerServes' /\ LaunchHasAnOwner'
<1> SUFFICES ASSUME OpTypeOK, ActiveIsLast, OpenerServes, LaunchHasAnOwner, [OpNext]_opVars
             PROVE  OpenerServes' /\ LaunchHasAnOwner'
  OBVIOUS
<1>0. engine \in EngineType /\ opener \in OpenerType /\ button \in ButtonType BY DEF OpTypeOK
<1>1. CASE Reserve
  <2>1. engine'.pending.id = opener'.launch /\ opener'.at # "idle"
        /\ button' = [at |-> "opening", launch |-> opener'.launch]
    BY <1>0, <1>1 DEF Reserve, EngineType
  <2> QED BY <2>1 DEF OpenerServes, LaunchHasAnOwner
<1>2. CASE Opened
  <2>1. /\ button.launch = opener.launch /\ opener' = NotOpening /\ button'.launch = button.launch
        /\ engine' = engine /\ givenBack' = givenBack
    BY <1>0, <1>2 DEF Opened, OpenerServes, ButtonType, engineVars
  <2> QED BY <2>1 DEF OpenerServes, LaunchHasAnOwner, NotOpening
<1>3. CASE Abandon
  <2>1. /\ button.launch = opener.launch /\ opener' = NotOpening /\ givenBack' = givenBack
        /\ engine' = CancelLaunch(engine, opener.launch)
    BY <1>3 DEF Abandon, OpenerServes
  <2>2. CASE engine.pending = NoLaunch \/ engine'.pending = NoLaunch
    BY <1>0, <2>1, <2>2 DEF CancelLaunch, EngineType, OpenerServes, LaunchHasAnOwner, NotOpening
  <2>3. CASE engine.pending # NoLaunch /\ engine'.pending # NoLaunch
    <3>1. engine.pending.id # opener.launch /\ engine' = engine
      BY <1>0, <2>1, <2>3 DEF CancelLaunch, EngineType, ActiveIsLast
    <3>2. engine.pending.id \in givenBack BY <2>1, <2>3, <3>1 DEF LaunchHasAnOwner
    <3> QED BY <2>1, <3>1, <3>2 DEF OpenerServes, LaunchHasAnOwner, NotOpening
  <2> QED BY <2>2, <2>3
<1>4. CASE GiveBack
  <2>1. /\ givenBack' = givenBack \cup {button.launch} /\ opener' = opener /\ engine' = engine
        /\ button.at # "opening"
    BY <1>4 DEF GiveBack, engineVars
  <2> QED BY <2>1 DEF OpenerServes, LaunchHasAnOwner
<1>5. ASSUME NEW l \in givenBack, Unreserve(l) PROVE OpenerServes' /\ LaunchHasAnOwner'
  <2>1. /\ givenBack' = givenBack \ {l} /\ opener' = opener /\ button' = button
        /\ engine' = CancelLaunch(engine, l)
    BY <1>5 DEF Unreserve
  <2>2. \/ engine'.pending = NoLaunch
        \/ engine' = engine /\ (engine.pending.id # l \/ l = 0)
    BY <1>0, <2>1 DEF CancelLaunch, EngineType
  <2> QED BY <2>1, <2>2 DEF OpenerServes, LaunchHasAnOwner, ActiveIsLast
<1>6. CASE \E t \in TaskId : AskToApply(t)
  <2>1. /\ button.at = "opened" /\ button'.launch = button.launch /\ opener' = opener
        /\ engine' = engine /\ givenBack' = givenBack
    BY <1>0, <1>6 DEF AskToApply, engineVars, ButtonType
  <2> QED BY <2>1 DEF OpenerServes, LaunchHasAnOwner
<1>7. CASE ~ (Reserve \/ Opened \/ Abandon \/ GiveBack \/ (\E l \in givenBack : Unreserve(l))
              \/ \E t \in TaskId : AskToApply(t))
  <2>1. /\ button' = button /\ givenBack' = givenBack /\ opener'.launch = opener.launch
        /\ opener.at = "idle" <=> opener'.at = "idle"
        /\ opener.at = "idle" => opener' = opener
    BY <1>7, OwnersStay
  <2>2. \/ engine'.pending = NoLaunch
        \/ engine'.pending.id = engine.pending.id /\ engine.pending # NoLaunch
    BY <1>7, LaunchStep
  <2>3. OpenerServes' BY <2>1 DEF OpenerServes
  <2>4. LaunchHasAnOwner' BY <2>1, <2>2 DEF LaunchHasAnOwner
  <2> QED BY <2>3, <2>4
<1> QED BY <1>1, <1>2, <1>3, <1>4, <1>5, <1>6, <1>7

-----------------------------------------------------------------------------
(* Mutations, closes and stops. *)

\* While something is saved no command gets in; it begins when none is there.
LEMMA MutationStep ==
  OpTypeOK /\ RunsAgree /\ ActiveIsLast /\ MutationIsAlone /\ [OpNext]_opVars => MutationIsAlone'
<1> SUFFICES ASSUME OpTypeOK, RunsAgree, ActiveIsLast, MutationIsAlone, [OpNext]_opVars PROVE MutationIsAlone'
  OBVIOUS
<1>0. engine \in EngineType BY DEF OpTypeOK
<1>1. CASE BeginMutation BY <1>0, <1>1 DEF BeginMutation, IsBusy, Commands, MutationIsAlone, EngineType
<1>2. CASE EndMutation BY <1>0, <1>2 DEF EndMutation, MutationIsAlone, EngineType
<1>3. CASE UNCHANGED opVars BY <1>3 DEF opVars, Commands, MutationIsAlone
<1>4. CASE Reserve BY <1>0, <1>4 DEF Reserve, IsBusy, MutationIsAlone, EngineType
<1>5. CASE BesideActions /\ ~BeginMutation /\ ~EndMutation
  <2>1. Beside /\ tasks' = tasks BY <1>5, BesideStep, BesideTasks
  <2>2. engine'.mutating = engine.mutating
    BY <1>0, <1>5 DEF BesideActions, OpenerStep, FindWindow, BuildWindow, Signalled, TimesOut, Arm, Opened,
       TearDown, SettleTearDown, Abandon, OpenerKeeps, GiveBack, Unreserve, PageStep, Mount, Receive,
       CloseByItself, Sleep, ClickStop, ClickClose, Answered, ServeDestroy, SettleClose, Signals, RequestCancel,
       BeginClose, Settled, CancelLaunch, EngineType, engineVars
  <2> QED BY <2>1, <2>2 DEF MutationIsAlone, Commands, Beside, ActiveIsLast
<1>6. CASE \E t \in TaskId : TaskStep(t) \/ AskToApply(t)
  <2>1. ~engine.mutating
    <3>1. CASE \E t \in TaskId : tasks[t].at # "idle" BY <3>1 DEF MutationIsAlone, Commands, NoTask
    <3>2. CASE \A t \in TaskId : tasks[t].at = "idle"
      BY <1>6, <3>2 DEF TaskStep, AskToApply, Invoke, TakeLease, StartRun, Refuse, Panics, Summarize, Grant, End
    <3> QED BY <3>1, <3>2
  <2>2. engine'.mutating = engine.mutating
    BY <1>0, <1>6 DEF TaskStep, AskToApply, Invoke, StartRun, Refuse, Panics, Summarize, Grant, End,
                      engineVars, CancelLaunch, EngineType
  <2> QED BY <2>1, <2>2 DEF MutationIsAlone
<1> QED BY <1>1, <1>2, <1>3, <1>4, <1>5, <1>6 DEF OpNext, BesideActions

\* A close that has begun is settled by the window, by what destroyed it, or by the teardown.
LEMMA ClosingStep ==
  OpTypeOK /\ OpenerServes /\ ClosingIsSettled /\ [OpNext]_opVars => ClosingIsSettled'
<1> SUFFICES ASSUME OpTypeOK, OpenerServes, ClosingIsSettled, [OpNext]_opVars PROVE ClosingIsSettled'
  OBVIOUS
<1>0. engine \in EngineType /\ opener \in OpenerType /\ page \in PageType BY DEF OpTypeOK
<1>1. CASE BeginMutation \/ EndMutation \/ UNCHANGED opVars
  BY <1>0, <1>1 DEF BeginMutation, EndMutation, ClosingIsSettled, EngineType, pageVars, rest, mainVars, opVars
<1>2. CASE Reserve
  BY <1>0, <1>2 DEF Reserve, ClosingIsSettled, EngineType
<1>3. CASE \E t \in TaskId : TaskStep(t) \/ AskToApply(t)
  <2>1. engine'.closing = engine.closing
    BY <1>0, <1>3 DEF TaskStep, AskToApply, Invoke, StartRun, Refuse, Panics, Summarize, Grant, End,
                      engineVars, CancelLaunch, EngineType
  <2>2. UNCHANGED <<opener, page, settling>>
    BY <1>3 DEF TaskStep, AskToApply, Invoke, StartRun, Refuse, Panics, Summarize, Grant, End,
                mainVars, pageVars, rest
  <2> QED BY <2>1, <2>2 DEF ClosingIsSettled
<1>4. CASE GiveBack \/ \E l \in givenBack : Unreserve(l)
  BY <1>0, <1>4 DEF GiveBack, Unreserve, ClosingIsSettled, engineVars, pageVars, rest, CancelLaunch, EngineType
<1>5. CASE OpenerStep
  <2>1. engine'.closing => engine.closing
    BY <1>0, <1>5 DEF OpenerStep, FindWindow, BuildWindow, Signalled, TimesOut, Arm, Opened,
       TearDown, SettleTearDown, Abandon, OpenerKeeps, Settled, CancelLaunch, EngineType, engineVars
  <2>2. settling' = settling
    BY <1>5 DEF OpenerStep, FindWindow, BuildWindow, Signalled, TimesOut, Arm, Opened,
       TearDown, SettleTearDown, Abandon, OpenerKeeps, rest
  <2>3. CASE TearDown
    BY <1>0, <2>1, <2>2, <2>3 DEF TearDown, OpenerFails, OpenerType, ClosingIsSettled, pageVars
  <2>4. CASE SettleTearDown BY <1>0, <2>4 DEF SettleTearDown, Settled, EngineType, ClosingIsSettled
  <2>5. CASE BuildWindow
    BY <1>0, <2>1, <2>2, <2>5 DEF BuildWindow, NoPage, PageType, ClosingIsSettled
  <2>6. CASE FindWindow \/ Signalled \/ TimesOut \/ Arm \/ Opened \/ Abandon
    BY <2>1, <2>2, <2>6 DEF FindWindow, Signalled, TimesOut, Arm, Opened, Abandon, pageVars, ClosingIsSettled
  <2> QED BY <1>5, <2>3, <2>4, <2>5, <2>6 DEF OpenerStep
<1>6. CASE PageStep
  <2>1. CASE SettleClose BY <1>0, <2>1 DEF SettleClose, Settled, EngineType, ClosingIsSettled
  <2>2. CASE ServeDestroy
    BY <1>0, <2>2 DEF ServeDestroy, WindowIsGone, PageType, engineVars, mainVars, ClosingIsSettled
  <2>3. CASE Mount \/ Receive \/ CloseByItself \/ Sleep \/ ClickStop \/ ClickClose \/ Answered
    <3>1. page.life # "none"
      BY <2>3 DEF Mount, Receive, CloseByItself, Sleep, MaySleep, ClickStop, ClickClose, Answered
    <3>2. page'.life # "none"
      <4>1. CASE Mount BY <1>0, <4>1 DEF Mount, PageType
      <4>2. CASE Receive
        BY <1>0, <3>1, <4>2 DEF Receive, Armed, Shows, Ends, IsRejected, PageType, OpTypeOK, EventSet
      <4>3. CASE CloseByItself \/ Sleep \/ ClickStop BY <1>0, <3>1, <4>3 DEF CloseByItself, Sleep, ClickStop, PageType
      <4>4. CASE ClickClose \/ Answered
        BY <1>0, <3>1, <4>4 DEF ClickClose, Answered, BeginClose, Leaves, Stays, AsksToGo, PageType
      <4> QED BY <2>3, <4>1, <4>2, <4>3, <4>4
    <3> QED BY <3>2 DEF ClosingIsSettled
  <2> QED BY <1>6, <2>1, <2>2, <2>3 DEF PageStep
<1> QED BY <1>1, <1>2, <1>3, <1>4, <1>5, <1>6 DEF OpNext

\* A run is cancelled by a step that remembers who asked, and forgotten when it has ended.
LEMMA StopStep ==
  OpTypeOK /\ RunsAgree /\ ActiveIsLast /\ StopHitsItsRun /\ [OpNext]_opVars => StopHitsItsRun'
<1> SUFFICES ASSUME OpTypeOK, RunsAgree, ActiveIsLast, StopHitsItsRun, [OpNext]_opVars PROVE StopHitsItsRun'
  OBVIOUS
<1>0. engine \in EngineType /\ tasks \in [TaskId -> TaskType] BY DEF OpTypeOK
<1>1. ASSUME engine'.active = engine.active, asked \subseteq asked' PROVE StopHitsItsRun'
  BY <1>1 DEF StopHitsItsRun
<1>2. CASE BeginMutation \/ EndMutation \/ Reserve \/ UNCHANGED opVars
  BY <1>0, <1>1, <1>2 DEF BeginMutation, EndMutation, Reserve, rest, opVars, EngineType
<1>3. ASSUME NEW t \in TaskId, TaskStep(t) \/ AskToApply(t) PROVE StopHitsItsRun'
  <2>1. CASE (\E kind \in {"compare", "apply"} : Invoke(t, kind)) \/ AskToApply(t) \/ Refuse(t)
             \/ (\E clean \in BOOLEAN : Summarize(t, clean)) \/ Grant(t)
    BY <1>0, <1>1, <2>1 DEF Invoke, AskToApply, Refuse, Summarize, Grant, CancelLaunch, engineVars, rest, EngineType
  <2>2. CASE StartRun(t) BY <1>0, <2>2 DEF StartRun, StopHitsItsRun, EngineType
  <2>3. CASE Panics(t) \/ End(t)
    <3>1. /\ engine'.active = (IF tasks[t].at = "leased" THEN engine.active ELSE NoRun)
          /\ asked' = asked \ {tasks[t].run}
      BY <1>0, <2>3 DEF Panics, End, CancelLaunch, EngineType
    <3>2. tasks[t].at = "leased" => tasks[t].run = 0 BY DEF RunsAgree, AtRun
    <3>3. engine.active.cancel => engine.active.id # 0 BY DEF ActiveIsLast, NoRun
    <3> QED BY <3>1, <3>2, <3>3 DEF StopHitsItsRun, NoRun
  <2> QED BY <1>3, <2>1, <2>2, <2>3 DEF TaskStep
<1>4. CASE OpenerStep \/ GiveBack \/ \E l \in givenBack : Unreserve(l)
  BY <1>0, <1>1, <1>4 DEF OpenerStep, FindWindow, BuildWindow, Signalled, TimesOut, Arm, Opened,
     TearDown, SettleTearDown, Abandon, OpenerKeeps, GiveBack, Unreserve, Settled, CancelLaunch, EngineType,
     engineVars, rest
<1>5. ASSUME NEW r, RequestCancel(r) PROVE StopHitsItsRun'
  BY <1>0, <1>5 DEF RequestCancel, Controls, StopHitsItsRun, EngineType
<1>6. CASE BeginClose BY <1>0, <1>6 DEF BeginClose, StopHitsItsRun, EngineType
<1>7. CASE PageStep
  <2>1. CASE Mount \/ Receive \/ CloseByItself \/ Sleep \/ ServeDestroy \/ SettleClose
    BY <1>0, <1>1, <2>1 DEF Mount, Receive, CloseByItself, Sleep, ServeDestroy, SettleClose, Signals, Settled,
       EngineType, engineVars
  <2>2. CASE ClickStop BY <1>5, <2>2 DEF ClickStop
  <2>3. CASE ClickClose BY <1>6, <2>3 DEF ClickClose
  <2>4. CASE Answered
    <3>1. UNCHANGED <<engine, asked>> \/ RequestCancel(page.shown) \/ BeginClose BY <2>4 DEF Answered
    <3> QED BY <1>1, <1>5, <1>6, <3>1
  <2> QED BY <1>7, <2>1, <2>2, <2>3, <2>4 DEF PageStep
<1> QED BY <1>2, <1>3, <1>4, <1>7 DEF OpNext

-----------------------------------------------------------------------------
\* The inductive invariant.
THEOREM Invariance == OpSpec => []Inv
<1>1. OpInit => Inv BY Initially
<1>2. Inv /\ [OpNext]_opVars => Inv'
  BY TypeStep, RunsStep, OwnerStep, MutationStep, ClosingStep, StopStep DEF Inv
<1> QED BY <1>1, <1>2, PTL DEF OpSpec

\* Identifiers stay within their space, and every variable of the lifecycle has its type.
THEOREM TypeCorrect == OpSpec => []OpTypeOK
BY Invariance, PTL DEF Inv

\* While jobs or settings are saved nothing runs, prepares, or is about to be launched
\* (lifecycle with_idle_mutation).
THEOREM MutationAlone == OpSpec => []MutationIsAlone
BY Invariance, PTL DEF Inv

\* A close that began is always settled by somebody, so no Apply is refused for ever
\* (destroy_progress_window, tear_down).
THEOREM ClosingSettled == OpSpec => []ClosingIsSettled
BY Invariance, PTL DEF Inv

\* A reserved launch always has somebody who will use it or give it back.
THEOREM LaunchOwned == OpSpec => []LaunchHasAnOwner
BY Invariance, PTL DEF Inv

\* A cancelled run is one a person asked to stop (request_cancel, begin_progress_window_close).
THEOREM StopsHit == OpSpec => []StopHitsItsRun
BY Invariance, PTL DEF Inv

\* A power action is taken for the last run, while no launch waits.
THEOREM PowerActionCurrent == OpSpec => []PowerActionIsCurrent
<1>1. Inv => PowerActionIsCurrent
  BY DEF Inv, GrantIsLast, PowerActionIsCurrent, MaySleep
<1> QED BY <1>1, Invariance, PTL

-----------------------------------------------------------------------------
(* No Apply runs without its window, if runs do not close it by themselves  *)
(* and the settling of a removed window does not outlast the next launch.   *)
(*                                                                         *)
(* Once a close has begun no launch is pending and what runs has been told  *)
(* to stop (Closes), so a launch that is ready has its window listening     *)
(* for it, with nothing more on the way (Readies): an arm event is the last *)
(* one sent (ArmIsLast), and the window of a run keeps its launch until the *)
(* summary or the refusal of the run, which ends it (RunIsWatched).         *)

Raised(p) == p.closeAfter \/ p.destroying \/ p.close # "no"

Closes ==
  /\ engine.closing => engine.pending = NoLaunch /\ (engine.active.launch # 0 => engine.active.cancel)
  /\ Raised(page) => engine.closing
  /\ settling => page = NoPage /\ engine.pending = NoLaunch
  /\ opener.at = "settling" => page = NoPage
  /\ page.due = 0

\* Who may hold a launch: the Apply button, and the one command it asked to run.
Buttons ==
  /\ \A t \in TaskId : tasks[t].launch # 0 =>
       Purpose(t) = "apply" /\ button = [at |-> "applying", launch |-> tasks[t].launch]
  /\ \A t, u \in TaskId : tasks[t].launch # 0 /\ tasks[u].launch # 0 => t = u
  /\ \A t \in TaskId : tasks[t].at \in AtRun =>
       engine.active.launch = tasks[t].launch /\ engine.active.purpose = Purpose(t)
  /\ engine.active = NoRun \/ \E t \in TaskId : tasks[t].at \in AtRun
  /\ button.at # "idle" => engine.pending = NoLaunch \/ engine.pending.id = button.launch

Readies ==
  engine.pending.phase = "ready" =>
    /\ page.life = "listening" /\ page.pend = engine.pending.id /\ inbox = <<>>
    /\ opener.at = "idle" \/ (opener.at = "armed" /\ opener.signal)

ArmIsLast ==
  /\ engine.pending.id <= engine.lastLaunch
  /\ \A i \in 1..Len(inbox) : inbox[i].kind = "arm" =>
       /\ inbox[i].id <= engine.lastLaunch
       /\ HoldsLaunch(inbox[i].id) => i = Len(inbox) /\ opener.at \notin {"acquiring", "mounting", "arming"}

Watches(launch) ==
  /\ page.life = "listening" /\ page.pend = launch
  /\ \A i \in 1..Len(inbox) : inbox[i].kind = "run"

RunIsWatched ==
  \A t \in TaskId : tasks[t].at = "running" /\ tasks[t].launch # 0 /\ ~engine.active.cancel =>
    Watches(tasks[t].launch)

Watched == Inv /\ Closes /\ Buttons /\ Readies /\ ArmIsLast /\ RunIsWatched
-----------------------------------------------------------------------------
(* What each step does to the commands, the close, the opener, the page and *)
(* its events.                                                             *)

\* The steps of the commands, by what becomes of the one that moves.
LEMMA CommandMoves ==
  ASSUME OpTypeOK, NEW t \in TaskId, TaskStep(t) \/ AskToApply(t)
  PROVE  /\ \A u \in TaskId \ {t} : tasks'[u] = tasks[u]
         /\ page' = page /\ opener' = opener /\ settling' = settling
         /\ \/ /\ tasks[t] = NoTask /\ tasks'[t].at = "leased" /\ engine' = engine /\ inbox' = inbox
               /\ \/ tasks'[t].launch = 0 /\ button' = button
                  \/ /\ AskToApply(t) /\ tasks'[t].launch = button.launch /\ tasks'[t].kind = "apply"
                     /\ button.at = "opened" /\ button' = [at |-> "applying", launch |-> button.launch]
            \/ StartRun(t) /\ button' = button
            \/ Refuse(t) /\ button' = button
            \/ Panics(t) /\ button' = button
            \/ /\ tasks[t].at = "running" /\ tasks'[t].at = "summed" /\ engine' = engine /\ button' = button
               /\ tasks'[t].launch = tasks[t].launch /\ tasks'[t].kind = tasks[t].kind
               /\ \E clean \in BOOLEAN : inbox' = inbox \/ Emit(Event("summary", tasks[t].run, clean))
            \/ /\ tasks[t].at = "summed" /\ tasks'[t].at = "over" /\ button' = button
               /\ tasks'[t].launch = tasks[t].launch /\ tasks'[t].kind = tasks[t].kind
               /\ engine'.pending = engine.pending /\ engine'.active = engine.active
               /\ engine'.closing = engine.closing /\ engine'.lastLaunch = engine.lastLaunch
               /\ inbox' = inbox \/ Emit(Event("ready", tasks[t].run, FALSE))
            \/ /\ End(t) /\ tasks[t].at = "over" /\ tasks'[t] = NoTask /\ button' = button /\ inbox' = inbox
<1>0. tasks \in [TaskId -> TaskType] /\ engine \in EngineType /\ button \in ButtonType
  BY DEF OpTypeOK
<1> USE DEF engineVars, pageVars, mainVars, rest
<1>1. CASE \E kind \in {"compare", "apply"} : Invoke(t, kind)
  <2>1. PICK kind \in {"compare", "apply"} : Invoke(t, kind)
    BY <1>1
  <2>2. tasks[t] = NoTask /\ tasks' = [tasks EXCEPT ![t] = [NoTask EXCEPT !.kind = kind, !.at = "leased", !.launch = 0]]
    BY <2>1 DEF Invoke, TakeLease
  <2>3. tasks'[t].at = "leased" /\ tasks'[t].launch = 0 /\ \A u \in TaskId \ {t} : tasks'[u] = tasks[u]
    BY <1>0, <2>2 DEF NoTask
  <2> QED BY <2>1, <2>2, <2>3 DEF Invoke
<1>2. CASE AskToApply(t)
  <2>1. tasks[t] = NoTask /\ tasks' = [tasks EXCEPT ![t] = [NoTask EXCEPT !.kind = "apply", !.at = "leased",
                                                                         !.launch = button.launch]]
    BY <1>2 DEF AskToApply, TakeLease
  <2>2. /\ tasks'[t].at = "leased" /\ tasks'[t].launch = button.launch /\ tasks'[t].kind = "apply"
        /\ \A u \in TaskId \ {t} : tasks'[u] = tasks[u]
    BY <1>0, <2>1 DEF NoTask
  <2>3. button.at = "opened" /\ button' = [at |-> "applying", launch |-> button.launch]
    BY <1>0, <1>2 DEF AskToApply, ButtonType
  <2> QED BY <1>2, <2>1, <2>2, <2>3 DEF AskToApply
<1>3. CASE StartRun(t) BY <1>0, <1>3 DEF StartRun
<1>4. CASE Refuse(t) BY <1>0, <1>4 DEF Refuse
<1>5. CASE Panics(t) BY <1>0, <1>5 DEF Panics
<1>6. CASE \E clean \in BOOLEAN : Summarize(t, clean)
  <2>1. PICK clean \in BOOLEAN : Summarize(t, clean)
    BY <1>6
  <2>2. /\ tasks[t].at = "running" /\ tasks'[t].at = "summed" /\ tasks'[t].launch = tasks[t].launch
        /\ tasks'[t].kind = tasks[t].kind /\ \A u \in TaskId \ {t} : tasks'[u] = tasks[u]
    BY <1>0, <2>1 DEF Summarize, TaskType
  <2>3. inbox' = inbox \/ Emit(Event("summary", tasks[t].run, clean))
    BY <2>1 DEF Summarize
  <2> QED BY <2>1, <2>2, <2>3 DEF Summarize
<1>7. CASE Grant(t)
  <2>1. /\ tasks[t].at = "summed" /\ tasks'[t].at = "over" /\ tasks'[t].launch = tasks[t].launch
        /\ tasks'[t].kind = tasks[t].kind /\ \A u \in TaskId \ {t} : tasks'[u] = tasks[u]
    BY <1>0, <1>7 DEF Grant, TaskType
  <2>2. /\ engine'.pending = engine.pending /\ engine'.active = engine.active
        /\ engine'.closing = engine.closing /\ engine'.lastLaunch = engine.lastLaunch
    BY <1>0, <1>7 DEF Grant, EngineType
  <2> QED BY <1>7, <2>1, <2>2 DEF Grant
<1>8. CASE End(t) BY <1>0, <1>8 DEF End
<1> QED BY <1>1, <1>2, <1>3, <1>4, <1>5, <1>6, <1>7, <1>8 DEF TaskStep

\* The run that starts, and the commands that end before or while they run.
LEMMA StartMoves ==
  ASSUME OpTypeOK, NEW t \in TaskId, StartRun(t)
  PROVE  /\ tasks[t].at = "leased" /\ tasks'[t].at = "running" /\ tasks'[t].launch = tasks[t].launch
         /\ tasks'[t].kind = tasks[t].kind /\ engine.active = NoRun
         /\ engine'.active.launch = tasks[t].launch /\ engine'.active.purpose = Purpose(t)
         /\ engine'.pending = NoLaunch /\ engine'.closing = engine.closing
         /\ engine'.lastLaunch = engine.lastLaunch
         /\ tasks[t].launch = 0 => engine.pending = NoLaunch
         /\ tasks[t].launch # 0 => engine.pending.id = tasks[t].launch /\ engine.pending.phase = "ready"
         /\ inbox' = inbox \/ Emit(Event("run", engine.lastRun + 1, FALSE))
<1>0. tasks \in [TaskId -> TaskType] /\ engine \in EngineType
  BY DEF OpTypeOK
<1>1. tasks'[t].at = "running" /\ tasks'[t].launch = tasks[t].launch /\ tasks'[t].kind = tasks[t].kind
  BY <1>0 DEF StartRun, TaskType
<1>2. /\ engine'.active.launch = tasks[t].launch /\ engine'.active.purpose = Purpose(t)
      /\ engine'.pending = NoLaunch /\ engine'.closing = engine.closing /\ engine'.lastLaunch = engine.lastLaunch
  BY <1>0 DEF StartRun, EngineType
<1>3. /\ tasks[t].launch = 0 => engine.pending = NoLaunch
      /\ tasks[t].launch # 0 => engine.pending.id = tasks[t].launch /\ engine.pending.phase = "ready"
      /\ engine.active = NoRun /\ tasks[t].at = "leased"
  BY DEF StartRun, Admits, HoldsLaunch
<1>4. inbox' = inbox \/ Emit(Event("run", engine.lastRun + 1, FALSE))
  BY DEF StartRun, pageVars
<1> QED BY <1>1, <1>2, <1>3, <1>4

LEMMA FailMoves ==
  ASSUME OpTypeOK, NEW t \in TaskId, Refuse(t) \/ Panics(t) \/ End(t)
  PROVE  /\ tasks'[t] = NoTask /\ engine'.closing = engine.closing /\ engine'.lastLaunch = engine.lastLaunch
         /\ engine'.pending = (IF ~End(t) /\ HoldsLaunch(tasks[t].launch) THEN NoLaunch ELSE engine.pending)
         /\ engine'.active = (IF Refuse(t) THEN engine.active
                              ELSE IF Panics(t) /\ tasks[t].at = "leased" THEN engine.active ELSE NoRun)
         /\ Refuse(t) => tasks[t].at = "leased"
         /\ Panics(t) => tasks[t].at \in {"leased", "running"}
         /\ End(t) => tasks[t].at = "over"
         /\ inbox' = inbox \/ (tasks[t].launch # 0 /\ ~End(t) /\ Emit(Event("rejected", tasks[t].launch, FALSE)))
<1>0. tasks \in [TaskId -> TaskType] /\ engine \in EngineType
  BY DEF OpTypeOK
<1> USE DEF engineVars, pageVars
<1>1. CASE Refuse(t)
  BY <1>0, <1>1 DEF Refuse, Panics, End, CancelLaunch, HoldsLaunch, EngineType, NoLaunch
<1>2. CASE Panics(t)
  <2>1. engine' = [CancelLaunch(engine, tasks[t].launch) EXCEPT
                     !.active = IF tasks[t].at = "running" THEN NoRun ELSE @]
    BY <1>2 DEF Panics
  <2>2. tasks[t].at \in {"leased", "running"} /\ tasks'[t] = NoTask
    BY <1>0, <1>2 DEF Panics
  <2>3. /\ engine'.closing = engine.closing /\ engine'.lastLaunch = engine.lastLaunch
        /\ engine'.pending = (IF HoldsLaunch(tasks[t].launch) THEN NoLaunch ELSE engine.pending)
        /\ engine'.active = (IF tasks[t].at = "leased" THEN engine.active ELSE NoRun)
    BY <1>0, <2>1, <2>2 DEF CancelLaunch, HoldsLaunch, EngineType
  <2>4. inbox' = inbox \/ (tasks[t].launch # 0 /\ Emit(Event("rejected", tasks[t].launch, FALSE)))
    BY <1>2 DEF Panics
  <2>5. tasks[t].at = "running" => ~Refuse(t)
    BY DEF Refuse
  <2>6. ~End(t)
    BY <2>2 DEF End
  <2> QED BY <1>2, <2>2, <2>3, <2>4, <2>5, <2>6
<1>3. CASE End(t)
  <2>1. tasks[t].at = "over" /\ tasks'[t] = NoTask /\ inbox' = inbox
    BY <1>0, <1>3 DEF End
  <2>2. /\ engine'.closing = engine.closing /\ engine'.lastLaunch = engine.lastLaunch
        /\ engine'.pending = engine.pending /\ engine'.active = NoRun
    BY <1>0, <1>3 DEF End, EngineType
  <2>3. ~Refuse(t) /\ ~Panics(t)
    BY <2>1 DEF Refuse, Panics
  <2> QED BY <1>3, <2>1, <2>2, <2>3
<1> QED BY <1>1, <1>2, <1>3

\* The close, over the steps that are not of a command.
LEMMA CloseMoves ==
  ASSUME OpTypeOK, BesideActions
  PROVE  /\ engine'.lastLaunch = engine.lastLaunch
         /\ engine.active.cancel => engine'.active.cancel
         /\ \/ BeginClose /\ page.life = "listening"
            \/ (SettleClose \/ SettleTearDown) /\ ~engine'.closing
            \/ engine'.closing = engine.closing
<1>0. engine \in EngineType BY DEF OpTypeOK
<1> USE DEF engineVars, pageVars, mainVars, rest
<1>1. CASE engine' = engine
  BY <1>1
<1>2. CASE BeginMutation \/ EndMutation \/ GiveBack
  BY <1>0, <1>2 DEF BeginMutation, EndMutation, GiveBack, EngineType
<1>3. ASSUME NEW l, engine' = CancelLaunch(engine, l)
      PROVE  engine'.lastLaunch = engine.lastLaunch /\ engine'.closing = engine.closing /\ engine'.active = engine.active
  BY <1>0, <1>3 DEF CancelLaunch, EngineType
<1>4. ASSUME NEW phase, engine' = [engine EXCEPT !.pending.phase = phase]
      PROVE  engine'.lastLaunch = engine.lastLaunch /\ engine'.closing = engine.closing /\ engine'.active = engine.active
  BY <1>0, <1>4 DEF EngineType
<1>5. ASSUME NEW l, NEW at, NEW phase, NEW next, Signals(l, at, phase, next)
      PROVE  engine'.lastLaunch = engine.lastLaunch /\ engine'.closing = engine.closing /\ engine'.active = engine.active
  BY <1>4, <1>5 DEF Signals
<1>6. ASSUME engine' = Settled(engine)
      PROVE  engine'.lastLaunch = engine.lastLaunch /\ ~engine'.closing /\ engine'.active = engine.active
  BY <1>0, <1>6 DEF Settled, EngineType
<1>7. ASSUME NEW r, RequestCancel(r)
      PROVE  /\ engine'.lastLaunch = engine.lastLaunch /\ engine'.closing = engine.closing
             /\ engine.active.cancel => engine'.active.cancel
  BY <1>0, <1>7 DEF RequestCancel, EngineType
<1>8. ASSUME BeginClose
      PROVE  engine'.lastLaunch = engine.lastLaunch /\ (engine.active.cancel => engine'.active.cancel)
  <2> DEFINE e == [engine EXCEPT !.closing = TRUE, !.grant = 0, !.pending = NoLaunch]
  <2>1. engine' = e \/ engine' = [e EXCEPT !.active.cancel = TRUE]
    BY <1>8 DEF BeginClose
  <2>2. CASE engine' = e BY <1>0, <2>2 DEF EngineType
  <2>3. CASE engine' = [e EXCEPT !.active.cancel = TRUE] BY <1>0, <2>3 DEF EngineType
  <2> QED BY <2>1, <2>2, <2>3
<1>9. CASE OpenerStep
  <2>1. CASE FindWindow \/ Signalled \/ TimesOut \/ Opened \/ TearDown
    BY <1>1, <2>1 DEF FindWindow, Signalled, TimesOut, Opened, TearDown
  <2>2. CASE BuildWindow \/ Arm
    BY <1>1, <1>4, <2>2 DEF BuildWindow, Arm
  <2>3. CASE Abandon
    BY <1>3, <2>3 DEF Abandon
  <2>4. CASE SettleTearDown
    BY <1>6, <2>4 DEF SettleTearDown
  <2> QED BY <1>9, <2>1, <2>2, <2>3, <2>4 DEF OpenerStep
<1>10. CASE PageStep
  <2>1. CASE CloseByItself \/ ServeDestroy
    BY <1>1, <2>1 DEF CloseByItself, ServeDestroy
  <2>2. CASE Mount \/ Receive
    BY <1>1, <1>5, <2>2 DEF Mount, Receive
  <2>3. CASE Sleep
    BY <1>0, <2>3 DEF Sleep, EngineType
  <2>4. CASE ClickStop
    BY <1>7, <2>4 DEF ClickStop
  <2>5. CASE ClickClose
    BY <1>8, <2>5 DEF ClickClose
  <2>6. CASE Answered
    BY <1>1, <1>7, <1>8, <2>6 DEF Answered
  <2>7. CASE SettleClose
    BY <1>6, <2>7 DEF SettleClose
  <2> QED BY <1>10, <2>1, <2>2, <2>3, <2>4, <2>5, <2>6, <2>7 DEF PageStep
<1>11. CASE \E l \in givenBack : Unreserve(l)
  BY <1>3, <1>11 DEF Unreserve
<1> QED BY <1>2, <1>9, <1>10, <1>11 DEF BesideActions

\* A launch becomes ready by the acknowledgement of the window, and in no other way.
LEMMA PhaseMoves ==
  ASSUME OpTypeOK, BesideActions, engine'.pending.phase = "ready"
  PROVE  \/ engine'.pending = engine.pending
         \/ /\ Receive /\ Head(inbox).kind = "arm" /\ HoldsLaunch(Head(inbox).id)
            /\ engine'.pending.id = engine.pending.id
            /\ opener'.at = "armed" /\ opener'.signal
<1>0. engine \in EngineType /\ opener \in OpenerType BY DEF OpTypeOK
<1> USE DEF engineVars, pageVars, mainVars, rest
<1>1. CASE engine' = engine
  BY <1>1
<1>2. CASE BeginMutation \/ EndMutation \/ GiveBack
  BY <1>0, <1>2 DEF BeginMutation, EndMutation, GiveBack, EngineType
<1>3. ASSUME NEW l, engine' = CancelLaunch(engine, l) PROVE engine'.pending = engine.pending
  BY <1>0, <1>3 DEF CancelLaunch, EngineType, NoLaunch
<1>4. ASSUME NEW phase, engine' = [engine EXCEPT !.pending.phase = phase], phase # "ready" PROVE FALSE
  BY <1>0, <1>4 DEF EngineType
<1>5. ASSUME engine' = Settled(engine) PROVE engine'.pending = engine.pending
  BY <1>0, <1>5 DEF Settled, EngineType
<1>6. ASSUME NEW r, RequestCancel(r) PROVE engine'.pending = engine.pending
  BY <1>0, <1>6 DEF RequestCancel, EngineType
<1>7. ASSUME BeginClose PROVE FALSE
  <2> DEFINE e == [engine EXCEPT !.closing = TRUE, !.grant = 0, !.pending = NoLaunch]
  <2>1. engine' = e \/ engine' = [e EXCEPT !.active.cancel = TRUE]
    BY <1>7 DEF BeginClose
  <2>2. CASE engine' = e BY <1>0, <2>2 DEF EngineType, NoLaunch
  <2>3. CASE engine' = [e EXCEPT !.active.cancel = TRUE] BY <1>0, <2>3 DEF EngineType, NoLaunch
  <2> QED BY <2>1, <2>2, <2>3
<1>9. CASE OpenerStep
  <2>1. CASE FindWindow \/ Signalled \/ TimesOut \/ Opened \/ TearDown
    BY <1>1, <2>1 DEF FindWindow, Signalled, TimesOut, Opened, TearDown
  <2>2. CASE BuildWindow \/ Arm
    BY <1>1, <1>4, <2>2 DEF BuildWindow, Arm
  <2>3. CASE Abandon
    BY <1>3, <2>3 DEF Abandon
  <2>4. CASE SettleTearDown
    BY <1>5, <2>4 DEF SettleTearDown
  <2> QED BY <1>9, <2>1, <2>2, <2>3, <2>4 DEF OpenerStep
<1>10. CASE PageStep
  <2>1. CASE CloseByItself \/ ServeDestroy
    BY <1>1, <2>1 DEF CloseByItself, ServeDestroy
  <2>2. CASE Mount
    <3>1. Signals(page.launch, "mounting", "awaitMount", "mounted")
      BY <2>2 DEF Mount
    <3> QED BY <1>1, <1>4, <3>1 DEF Signals
  <2>3. CASE Receive
    <3>1. CASE engine' # engine
      <4>1. Head(inbox).kind = "arm" /\ Signals(Head(inbox).id, "armed", "awaitAck", "ready")
        BY <2>3, <3>1 DEF Receive
      <4>2. /\ HoldsLaunch(Head(inbox).id) /\ opener.at = "armed"
            /\ engine' = [engine EXCEPT !.pending.phase = "ready"]
            /\ opener' = [opener EXCEPT !.signal = TRUE]
        BY <3>1, <4>1 DEF Signals
      <4>3. engine'.pending.id = engine.pending.id /\ opener'.at = "armed" /\ opener'.signal
        BY <1>0, <4>2 DEF EngineType, OpenerType
      <4> QED BY <2>3, <4>1, <4>2, <4>3
    <3> QED BY <1>1, <3>1
  <2>4. CASE Sleep
    BY <1>0, <2>4 DEF Sleep, EngineType
  <2>5. CASE ClickStop
    BY <1>6, <2>5 DEF ClickStop
  <2>6. CASE ClickClose
    BY <1>7, <2>6 DEF ClickClose
  <2>7. CASE Answered
    BY <1>1, <1>6, <1>7, <2>7 DEF Answered
  <2>8. CASE SettleClose
    BY <1>5, <2>8 DEF SettleClose
  <2> QED BY <1>10, <2>1, <2>2, <2>3, <2>4, <2>5, <2>6, <2>7, <2>8 DEF PageStep
<1>11. CASE \E l \in givenBack : Unreserve(l)
  BY <1>3, <1>11 DEF Unreserve
<1> QED BY <1>2, <1>9, <1>10, <1>11 DEF BesideActions

\* The window takes its next event.
LEMMA ReceiveMoves ==
  ASSUME OpTypeOK, Receive
  PROVE  /\ page.life = "listening" /\ page'.life = "listening"
         /\ inbox # <<>> /\ inbox' = Tail(inbox)
         /\ Raised(page') => Raised(page)
         /\ ~AutoClose /\ page.due = 0 => page'.due = 0
         /\ Head(inbox).kind = "run" => page'.pend = page.pend
         /\ Head(inbox).kind = "arm" => page'.pend = Head(inbox).id
<1>0. page \in PageType BY DEF OpTypeOK
<1>1. ASSUME NEW l PROVE /\ Armed(page, l).life = page.life /\ (Raised(Armed(page, l)) => Raised(page))
                         /\ Armed(page, l).due = 0 /\ Armed(page, l).pend = l
  BY <1>0 DEF Armed, PageType, Raised
<1>2. ASSUME NEW r
      PROVE  /\ Shows(page, r).life = page.life /\ Raised(Shows(page, r)) = Raised(page)
             /\ (page.due = 0 => Shows(page, r).due = 0) /\ Shows(page, r).pend = page.pend
             /\ Shows(page, r).closeAfter = page.closeAfter /\ Shows(page, r).destroying = page.destroying
             /\ Shows(page, r).close = page.close
             /\ DOMAIN Shows(page, r) = DOMAIN page
  BY <1>0 DEF Shows, PageType, Raised
<1>3. ASSUME NEW r, NEW clean
      PROVE  /\ Ends(Shows(page, r), clean).life = page.life
             /\ Raised(Ends(Shows(page, r), clean)) => Raised(page)
             /\ ~AutoClose => Ends(Shows(page, r), clean).due = 0
  BY <1>0, <1>2 DEF Ends, PageType, Raised
<1>4. /\ IsRejected(page).life = page.life /\ (Raised(IsRejected(page)) => Raised(page))
      /\ IsRejected(page).due = 0
  BY <1>0 DEF IsRejected, PageType, Raised
<1>5. ASSUME NEW r
      PROVE  /\ [page EXCEPT !.ready = r].life = page.life
             /\ Raised([page EXCEPT !.ready = r]) = Raised(page)
             /\ [page EXCEPT !.ready = r].due = page.due
  BY <1>0 DEF PageType, Raised
<1> DEFINE e == Head(inbox)
<1>6. inbox \in Seq(EventSet) /\ inbox # <<>> /\ page.life = "listening" /\ inbox' = Tail(inbox)
  BY DEF Receive, OpTypeOK
<1>7. e \in EventSet
  BY <1>6
<1>8. e.kind \in {"arm", "rejected", "run", "summary", "ready"}
  BY <1>7 DEF EventSet
<1> HIDE DEF e
<1>9. page' = CASE e.kind = "arm" -> Armed(page, e.id)
                [] e.kind = "run" -> IF Outdated(e.id) THEN page ELSE Shows(page, e.id)
                [] e.kind = "summary" ->
                     IF Outdated(e.id) THEN page ELSE Ends(Shows(page, e.id), e.clean)
                [] e.kind = "rejected" -> IF page.pend = e.id THEN IsRejected(page) ELSE page
                [] e.kind = "ready" ->
                     [page EXCEPT !.ready = IF e.id < page.shown THEN page.ready ELSE e.id]
  BY DEF Receive, e
<1>10. CASE e.kind = "arm" BY <1>1, <1>6, <1>9, <1>10 DEF e
<1>11. CASE e.kind = "run" BY <1>2, <1>6, <1>9, <1>11 DEF e
<1>12. CASE e.kind = "summary" BY <1>3, <1>6, <1>9, <1>12 DEF e
<1>13. CASE e.kind = "rejected" BY <1>4, <1>6, <1>9, <1>13 DEF e
<1>14. CASE e.kind = "ready" BY <1>5, <1>6, <1>9, <1>14 DEF e
<1> QED BY <1>8, <1>10, <1>11, <1>12, <1>13, <1>14

\* The window: it stays as it is, goes, comes, or goes on listening.
LEMMA PageMoves ==
  ASSUME OpTypeOK, BesideActions
  PROVE  \/ page' = page
         \/ page' = NoPage /\ inbox' = <<>> /\ (opener.at = "tearing" \/ page.destroying)
         \/ /\ page.life = "none" /\ opener.at = "acquiring" /\ HoldsLaunch(opener.launch)
            /\ opener'.at \in {"mounting", "failed"}
            /\ ~Raised(page') /\ page'.due = 0
         \/ /\ page.life = "loading" /\ Raised(page') = Raised(page)
            /\ ~AutoClose => page'.due = 0
         \/ Receive
         \/ Raised(page) /\ page'.due = page.due
         \/ BeginClose /\ page.life = "listening" /\ page'.due = 0
         \/ page.due # 0
<1>0. page \in PageType /\ opener \in OpenerType BY DEF OpTypeOK
<1> USE DEF engineVars, pageVars, mainVars, rest, Raised
<1>1. CASE BeginMutation \/ EndMutation \/ GiveBack \/ \E l \in givenBack : Unreserve(l)
  BY <1>1 DEF BeginMutation, EndMutation, GiveBack, Unreserve
<1>2. CASE FindWindow \/ Signalled \/ TimesOut \/ Arm \/ Opened \/ SettleTearDown \/ Abandon
  BY <1>2 DEF FindWindow, Signalled, TimesOut, Arm, Opened, SettleTearDown, Abandon
<1>3. CASE BuildWindow
  BY <1>0, <1>3 DEF BuildWindow, NoPage, OpenerType
<1>4. CASE TearDown
  BY <1>4 DEF TearDown, WindowIsGone
<1>5. CASE Mount
  BY <1>0, <1>5 DEF Mount, PageType
<1>7. CASE CloseByItself \/ Sleep \/ ClickStop \/ SettleClose
  BY <1>7 DEF CloseByItself, Sleep, ClickStop, SettleClose
<1>8. ASSUME BeginClose PROVE page'.due = 0
  BY <1>0, <1>8 DEF BeginClose, PageType
<1>9. CASE ClickClose BY <1>8, <1>9 DEF ClickClose
<1>10. CASE Answered
  <2>1. CASE BeginClose BY <1>8, <1>10, <2>1 DEF Answered
  <2>2. CASE ~BeginClose
    <3>1. page.close # "no" BY <1>10, <2>2 DEF Answered
    <3>2. page'.due = page.due
      BY <1>0, <1>10, <2>2 DEF Answered, PageType, Leaves, Stays, AsksToGo
    <3> QED BY <3>1, <3>2
  <2> QED BY <2>1, <2>2
<1>11. CASE ServeDestroy
  BY <1>0, <1>11 DEF ServeDestroy, WindowIsGone, PageType
<1> QED BY <1>1, <1>2, <1>3, <1>4, <1>5, <1>7, <1>9, <1>10, <1>11 DEF BesideActions, OpenerStep, PageStep

\* The command that opens the window: it stays where it is, is done, goes on, or fails.
LEMMA OpenerMoves ==
  ASSUME OpTypeOK, BesideActions
  PROVE  \/ opener'.at = opener.at /\ (opener.signal => opener'.signal)
         \/ opener'.at = "idle" /\ (opener.at = "failed" \/ opener.at = "armed")
         \/ /\ opener.at \in {"acquiring", "mounting", "arming"}
            /\ opener'.at \in {"mounting", "arming", "armed", "failed", "tearing"}
         \/ opener.at = "armed" /\ ~opener.signal /\ opener'.at = "tearing"
         \/ opener.at = "tearing" /\ opener'.at = "settling" /\ page' = NoPage
         \/ opener.at \in {"tearing", "settling"} /\ opener'.at = "failed"
<1>0. opener \in OpenerType BY DEF OpTypeOK
<1> USE DEF engineVars, pageVars, mainVars, rest
<1>1. CASE opener' = opener
  BY <1>1
<1>2. CASE OpenerStep
  <2>1. CASE FindWindow BY <1>0, <2>1 DEF FindWindow, OpenerFails, OpenerType
  <2>2. CASE BuildWindow BY <1>0, <2>2 DEF BuildWindow, OpenerFails, OpenerType
  <2>3. CASE Signalled BY <1>0, <2>3 DEF Signalled, OpenerType
  <2>4. CASE TimesOut BY <1>0, <2>4 DEF TimesOut, OpenerType
  <2>5. CASE Arm BY <1>0, <2>5 DEF Arm, OpenerType
  <2>6. CASE Opened BY <2>6 DEF Opened, NotOpening
  <2>7. CASE TearDown BY <1>0, <2>7 DEF TearDown, OpenerFails, OpenerType, WindowIsGone
  <2>8. CASE SettleTearDown BY <1>0, <2>8 DEF SettleTearDown, OpenerFails, OpenerType
  <2>9. CASE Abandon BY <2>9 DEF Abandon, NotOpening
  <2> QED BY <1>2, <2>1, <2>2, <2>3, <2>4, <2>5, <2>6, <2>7, <2>8, <2>9 DEF OpenerStep
<1>3. CASE BeginMutation \/ EndMutation \/ GiveBack \/ \E l \in givenBack : Unreserve(l)
  BY <1>1, <1>3 DEF BeginMutation, EndMutation, GiveBack, Unreserve
<1>4. ASSUME NEW l, NEW at, NEW phase, NEW next, Signals(l, at, phase, next)
      PROVE  opener'.at = opener.at /\ (opener.signal => opener'.signal)
  BY <1>0, <1>4 DEF Signals, OpenerType
<1>5. CASE PageStep
  <2>1. CASE Mount \/ Receive BY <1>1, <1>4, <2>1 DEF Mount, Receive
  <2>2. CASE CloseByItself \/ Sleep \/ ClickStop \/ ClickClose \/ Answered \/ ServeDestroy \/ SettleClose
    BY <1>1, <2>2 DEF CloseByItself, Sleep, ClickStop, ClickClose, Answered, ServeDestroy, SettleClose
  <2> QED BY <1>5, <2>1, <2>2 DEF PageStep
<1> QED BY <1>2, <1>3, <1>5 DEF BesideActions

\* The events on the way: they stay, go with the window, are taken, or an arm event is sent.
LEMMA InboxMoves ==
  ASSUME OpTypeOK, BesideActions
  PROVE  \/ inbox' = inbox
         \/ inbox' = <<>> /\ page' = NoPage
         \/ Receive
         \/ /\ opener.at = "arming" /\ HoldsLaunch(opener.launch) /\ opener'.at = "armed"
            /\ page' = page /\ inbox' = Append(inbox, Event("arm", opener.launch, FALSE))
<1>0. opener \in OpenerType BY DEF OpTypeOK
<1> USE DEF engineVars, pageVars, mainVars, rest
<1>1. CASE OpenerStep
  <2>1. CASE FindWindow \/ BuildWindow \/ Signalled \/ TimesOut \/ Opened \/ SettleTearDown \/ Abandon
    BY <2>1 DEF FindWindow, BuildWindow, Signalled, TimesOut, Opened, SettleTearDown, Abandon
  <2>2. CASE Arm BY <1>0, <2>2 DEF Arm, Emit, OpenerType
  <2>3. CASE TearDown BY <2>3 DEF TearDown, WindowIsGone
  <2> QED BY <1>1, <2>1, <2>2, <2>3 DEF OpenerStep
<1>2. CASE BeginMutation \/ EndMutation \/ GiveBack \/ \E l \in givenBack : Unreserve(l)
  BY <1>2 DEF BeginMutation, EndMutation, GiveBack, Unreserve
<1>3. CASE PageStep
  BY <1>3 DEF PageStep, Mount, CloseByItself, Sleep, ClickStop, ClickClose, Answered, ServeDestroy,
              SettleClose, WindowIsGone
<1> QED BY <1>1, <1>2, <1>3 DEF BesideActions

\* A window whose close has to be settled is gone.
LEMMA SettlingMoves ==
  ASSUME BesideActions
  PROVE  settling' => settling \/ (page.destroying /\ page' = NoPage)
<1> USE DEF engineVars, pageVars, mainVars, rest
<1>1. CASE OpenerStep
  BY <1>1 DEF OpenerStep, FindWindow, BuildWindow, Signalled, TimesOut, Opened, SettleTearDown, Abandon,
              Arm, TearDown, OpenerKeeps
<1>2. CASE BeginMutation \/ EndMutation \/ GiveBack \/ \E l \in givenBack : Unreserve(l)
  BY <1>2 DEF BeginMutation, EndMutation, GiveBack, Unreserve
<1>3. CASE PageStep
  BY <1>3 DEF PageStep, Mount, Receive, CloseByItself, Sleep, ClickStop, ClickClose, Answered, ServeDestroy,
              SettleClose, WindowIsGone, Watching, Unwatched
<1> QED BY <1>1, <1>2, <1>3 DEF BesideActions

\* The Apply button, when no command asks it: it keeps its launch, or gives it up once no command
\* holds it.
LEMMA ButtonMoves ==
  ASSUME OpTypeOK, OpenerServes, BesideActions
  PROVE  \/ button' = button
         \/ button.at = "opening" /\ button'.at # "idle" /\ button'.launch = button.launch
         \/ /\ button' = [at |-> "idle", launch |-> 0]
            /\ button.at # "applying" \/ \A t \in TaskId : tasks[t].launch # button.launch
<1>0. button \in ButtonType BY DEF OpTypeOK
<1> USE DEF engineVars, pageVars, mainVars, rest
<1>1. CASE OpenerStep
  <2>1. CASE Opened BY <1>0, <2>1 DEF Opened, OpenerServes, ButtonType
  <2>2. CASE Abandon BY <2>2 DEF Abandon, OpenerServes
  <2>3. CASE FindWindow \/ BuildWindow \/ Signalled \/ TimesOut \/ Arm \/ TearDown \/ SettleTearDown
    BY <2>3 DEF FindWindow, BuildWindow, Signalled, TimesOut, SettleTearDown, Arm, TearDown, OpenerKeeps
  <2> QED BY <1>1, <2>1, <2>2, <2>3 DEF OpenerStep
<1>2. CASE BeginMutation \/ EndMutation \/ \E l \in givenBack : Unreserve(l)
  BY <1>2 DEF BeginMutation, EndMutation, Unreserve
<1>3. CASE GiveBack BY <1>3 DEF GiveBack
<1>4. CASE PageStep
  BY <1>4 DEF PageStep, Mount, Receive, CloseByItself, Sleep, ClickStop, ClickClose, Answered, ServeDestroy,
              SettleClose, Watching, Unwatched
<1> QED BY <1>1, <1>2, <1>3, <1>4 DEF BesideActions
-----------------------------------------------------------------------------
(* Each part of Watched is kept.                                           *)

\* A step is of a command, of the Apply button that reserves, or of something else.
LEMMA Kinds ==
  ASSUME OpNext
  PROVE  BesideActions \/ Reserve \/ \E t \in TaskId : TaskStep(t) \/ AskToApply(t)
BY DEF OpNext, BesideActions

\* A launch that is reserved finds no command, no run and no close.
LEMMA ReserveMoves ==
  ASSUME OpTypeOK, Reserve
  PROVE  /\ engine.active = NoRun /\ engine'.active = NoRun /\ ~engine.closing /\ ~engine'.closing
         /\ engine.pending = NoLaunch /\ Commands = {} /\ (Prompt => ~settling)
         /\ engine'.pending.phase = "reserved" /\ engine'.pending.id = engine.lastLaunch + 1
         /\ engine'.lastLaunch = engine.lastLaunch + 1
         /\ button.at = "idle" /\ button'.launch = engine.lastLaunch + 1 /\ button'.at = "opening"
         /\ opener'.at = "acquiring" /\ UNCHANGED <<tasks, page, inbox, settling>>
<1>0. engine \in EngineType BY DEF OpTypeOK
<1> QED BY <1>0 DEF Reserve, IsBusy, EngineType, pageVars, rest

\* A pending launch only goes on, is given up, or is used.
LEMMA PendingMoves ==
  ASSUME Inv, OpNext
  PROVE  \/ Reserve \/ engine'.pending = NoLaunch
         \/ engine'.pending.id = engine.pending.id /\ engine.pending.id # 0
<1>0. engine.pending.id = 0 <=> engine.pending = NoLaunch BY DEF Inv, ActiveIsLast
<1>1. CASE BesideActions
  <2>1. Beside BY <1>1, BesideStep DEF Inv
  <2> QED BY <1>0, <2>1 DEF Beside
<1>2. CASE \E t \in TaskId : TaskStep(t) \/ AskToApply(t)
  <2>1. PICK t \in TaskId : TaskStep(t) \/ AskToApply(t) BY <1>2
  <2>2. CASE StartRun(t) BY <2>2, StartMoves DEF Inv
  <2>3. CASE Refuse(t) \/ Panics(t) \/ End(t)
    <3>1. engine'.pending = engine.pending \/ engine'.pending = NoLaunch BY <2>3, FailMoves DEF Inv
    <3> QED BY <1>0, <3>1
  <2>4. CASE engine'.pending = engine.pending BY <1>0, <2>4
  <2>5. OpTypeOK BY DEF Inv
  <2> QED BY <2>1, <2>2, <2>3, <2>4, <2>5, CommandMoves
<1> QED BY <1>1, <1>2, Kinds

\* Somebody settles the close only when its window is gone.
LEMMA SettlersFindNoPage ==
  ASSUME Closes, SettleClose \/ SettleTearDown
  PROVE  page = NoPage
BY DEF Closes, SettleClose, SettleTearDown

LEMMA ClosesStep ==
  ASSUME Inv, Closes, Buttons, OpNext, Prompt, ~AutoClose
  PROVE  Closes'
<1>0. /\ engine.closing => engine.pending = NoLaunch /\ (engine.active.launch # 0 => engine.active.cancel)
      /\ Raised(page) => engine.closing
      /\ settling => page = NoPage /\ engine.pending = NoLaunch
      /\ opener.at = "settling" => page = NoPage
      /\ page.due = 0 /\ OpTypeOK
      /\ NoLaunch.id = 0 /\ NoPage.life = "none" /\ NoPage.due = 0 /\ ~Raised(NoPage)
  BY DEF Closes, Inv, NoLaunch, NoPage, Raised
<1> SUFFICES /\ engine'.closing => engine'.pending = NoLaunch /\ (engine'.active.launch # 0 => engine'.active.cancel)
             /\ Raised(page') => engine'.closing
             /\ settling' => page' = NoPage /\ engine'.pending = NoLaunch
             /\ opener'.at = "settling" => page' = NoPage
             /\ page'.due = 0
  BY DEF Closes, Raised
<1>1. CASE Reserve
  <2>1. ~settling /\ ~engine.closing /\ ~engine'.closing /\ opener'.at = "acquiring" /\ page' = page /\ settling' = settling
    BY <1>0, <1>1, ReserveMoves
  <2> QED BY <1>0, <2>1
<1>2. CASE \E t \in TaskId : TaskStep(t) \/ AskToApply(t)
  <2>1. PICK t \in TaskId : TaskStep(t) \/ AskToApply(t) BY <1>2
  <2>2. page' = page /\ opener' = opener /\ settling' = settling BY <1>0, <2>1, CommandMoves
  <2>3. engine'.pending = NoLaunch \/ engine.pending # NoLaunch
    <3>1. ~Reserve BY <2>2, <1>0, ReserveMoves, <2>1, CommandMoves DEF Inv, OpenerServes
    <3> QED BY <1>0, <3>1, PendingMoves
  <2>4. engine'.closing = engine.closing
    BY <1>0, <2>1, CommandMoves, StartMoves, FailMoves
  <2>5. engine'.closing => (engine'.active.launch # 0 => engine'.active.cancel)
    <3>1. CASE StartRun(t) BY <1>0, <2>4, <3>1, StartMoves
    <3>2. CASE engine'.active \in {engine.active, NoRun} BY <1>0, <2>4, <3>2 DEF NoRun
    <3> QED BY <1>0, <2>1, <3>1, <3>2, CommandMoves, FailMoves
  <2> QED BY <1>0, <2>2, <2>3, <2>4, <2>5
<1>3. CASE BesideActions
  <2>1. Beside BY <1>0, <1>3, BesideStep
  <2>2. engine'.pending = NoLaunch \/ engine.pending # NoLaunch
    BY <1>0, <2>1 DEF Beside, Inv, ActiveIsLast
  <2>3. engine'.active.launch = engine.active.launch BY <2>1 DEF Beside
  <2>4. engine.closing => engine'.closing \/ page = NoPage
    <3>1. BeginClose => engine'.closing
      <4> DEFINE e == [engine EXCEPT !.closing = TRUE, !.grant = 0, !.pending = NoLaunch]
      <4>1. engine \in EngineType BY <1>0 DEF OpTypeOK
      <4>2. CASE engine' = e BY <4>1, <4>2 DEF EngineType
      <4>3. CASE engine' = [e EXCEPT !.active.cancel = TRUE] BY <4>1, <4>3 DEF EngineType
      <4> QED BY <4>2, <4>3 DEF BeginClose
    <3> QED BY <1>0, <1>3, <3>1, CloseMoves, SettlersFindNoPage
  <2>5. engine'.closing => engine'.pending = NoLaunch /\ (engine'.active.launch # 0 => engine'.active.cancel)
    <3>1. CASE BeginClose
      <4>1. engine \in EngineType BY <1>0 DEF OpTypeOK
      <4> DEFINE e == [engine EXCEPT !.closing = TRUE, !.grant = 0, !.pending = NoLaunch]
      <4>2. CASE engine.active.launch = 0
        <5>1. CASE engine' = e BY <2>3, <4>1, <4>2, <5>1 DEF EngineType
        <5>2. CASE engine' = [e EXCEPT !.active.cancel = TRUE] BY <2>3, <4>1, <4>2, <5>2 DEF EngineType
        <5> QED BY <3>1, <5>1, <5>2 DEF BeginClose
      <4>3. CASE engine.active.launch # 0
        <5>1. engine.active # NoRun BY <4>3 DEF NoRun
        <5>2. engine.pending = NoLaunch BY <5>1 DEF Inv, ActiveIsLast
        <5>3. engine.active.purpose = "apply" BY <4>3, <5>1 DEF Buttons
        <5>4. engine' = [e EXCEPT !.active.cancel = TRUE] BY <3>1, <5>2, <5>3 DEF BeginClose
        <5> QED BY <4>1, <5>4 DEF EngineType
      <4> QED BY <4>2, <4>3
    <3>2. CASE engine'.closing = engine.closing BY <1>0, <1>3, <2>2, <2>3, <3>2, CloseMoves
    <3> QED BY <1>0, <1>3, <3>1, <3>2, CloseMoves
  <2>6. Receive => page.life = "listening" /\ (Raised(page') => Raised(page)) /\ page'.due = 0
    BY <1>0, ReceiveMoves
  <2>7. Raised(page') => engine'.closing
    <3>1. CASE BeginClose /\ page.life = "listening"
      <4> DEFINE e == [engine EXCEPT !.closing = TRUE, !.grant = 0, !.pending = NoLaunch]
      <4>1. engine \in EngineType BY <1>0 DEF OpTypeOK
      <4>2. CASE engine' = e BY <4>1, <4>2 DEF EngineType
      <4>3. CASE engine' = [e EXCEPT !.active.cancel = TRUE] BY <4>1, <4>3 DEF EngineType
      <4> QED BY <3>1, <4>2, <4>3 DEF BeginClose
    <3> QED BY <1>0, <1>3, <2>4, <2>6, <3>1, PageMoves
  <2>8. page = NoPage /\ engine.pending = NoLaunch => page' = NoPage
    <3>1. ~HoldsLaunch(opener.launch) \/ engine.pending # NoLaunch BY <1>0 DEF HoldsLaunch
    <3> QED BY <1>0, <1>3, <2>6, <3>1, PageMoves
  <2>9. settling' => page' = NoPage /\ engine'.pending = NoLaunch
    <3>1. page.destroying => Raised(page) BY DEF Raised
    <3> QED BY <1>0, <1>3, <2>2, <2>8, <3>1, SettlingMoves
  <2>10. opener'.at = "settling" => page' = NoPage
    <3>1. opener'.at = "settling" => opener.at = "settling" \/ page' = NoPage
      BY <1>0, <1>3, OpenerMoves
    <3> QED BY <1>0, <1>3, <2>6, <3>1, PageMoves
  <2>11. page'.due = 0 BY <1>0, <1>3, <2>6, PageMoves
  <2> QED BY <2>5, <2>7, <2>9, <2>10, <2>11
<1> QED BY <1>1, <1>2, <1>3, Kinds

\* Whoever holds a launch still holds it, or has ended.
LEMMA LaunchMoves ==
  ASSUME OpTypeOK, NEW t \in TaskId, TaskStep(t) \/ AskToApply(t)
  PROVE  \/ AskToApply(t)
         \/ tasks'[t].launch = 0
         \/ tasks'[t].launch = tasks[t].launch /\ tasks'[t].kind = tasks[t].kind
<1>1. NoTask.launch = 0 BY DEF NoTask
<1> QED BY <1>1, CommandMoves, StartMoves, FailMoves

\* A command at its run moves on with it, and one that is not there does not hold it.
LEMMA AtRunMoves ==
  ASSUME Inv, Buttons, NEW t \in TaskId, TaskStep(t) \/ AskToApply(t)
  PROVE  /\ \/ engine'.active = engine.active /\ (tasks'[t].at \in AtRun <=> tasks[t].at \in AtRun)
            \/ StartRun(t) /\ engine.active = NoRun
            \/ engine'.active = NoRun /\ tasks[t].at \in AtRun /\ tasks'[t].at \notin AtRun
         /\ tasks[t].at \in AtRun /\ tasks'[t].at \in AtRun =>
              tasks'[t].launch = tasks[t].launch /\ tasks'[t].kind = tasks[t].kind
<1>0. OpTypeOK /\ NoTask.at = "idle" BY DEF Inv, NoTask
<1>1. CASE StartRun(t) BY <1>0, <1>1, StartMoves DEF AtRun
<1>2. CASE Refuse(t) \/ Panics(t) \/ End(t)
  <2>1. tasks'[t].at = "idle" BY <1>0, <1>2, FailMoves
  <2>2. CASE Refuse(t) BY <1>0, <2>1, <2>2, FailMoves DEF AtRun
  <2>3. CASE End(t) BY <1>0, <2>1, <2>3, FailMoves DEF AtRun, Refuse, Panics
  <2>4. CASE Panics(t)
    <3>1. CASE tasks[t].at = "leased"
      <4>1. engine'.active = engine.active BY <1>0, <2>4, <3>1, FailMoves
      <4> QED BY <2>1, <3>1, <4>1 DEF AtRun
    <3>2. CASE tasks[t].at = "running"
      <4>1. ~Refuse(t) BY <3>2 DEF Refuse
      <4>2. engine'.active = NoRun BY <1>0, <2>4, <3>2, <4>1, FailMoves
      <4> QED BY <2>1, <3>2, <4>2 DEF AtRun
    <3> QED BY <1>0, <2>4, <3>1, <3>2, FailMoves
  <2> QED BY <1>2, <2>2, <2>3, <2>4
<1>3. CASE tasks[t] = NoTask /\ tasks'[t].at = "leased" /\ engine' = engine
  BY <1>0, <1>3 DEF AtRun
<1>4. CASE tasks[t].at = "running" /\ tasks'[t].at = "summed" /\ engine' = engine
           /\ tasks'[t].launch = tasks[t].launch /\ tasks'[t].kind = tasks[t].kind
  BY <1>4 DEF AtRun
<1>5. CASE tasks[t].at = "summed" /\ tasks'[t].at = "over" /\ engine'.active = engine.active
           /\ tasks'[t].launch = tasks[t].launch /\ tasks'[t].kind = tasks[t].kind
  BY <1>5 DEF AtRun
<1> QED BY <1>0, <1>1, <1>2, <1>3, <1>4, <1>5, CommandMoves

LEMMA ButtonsStep ==
  ASSUME Inv, Buttons, OpNext
  PROVE  Buttons'
<1>0. OpTypeOK BY DEF Inv
<1>a. ASSUME NEW t \in TaskId PROVE Purpose(t) = (IF tasks[t].kind = "compare" THEN "compare" ELSE "apply")
  BY DEF Purpose
<1>b. ASSUME NEW t \in TaskId PROVE Purpose(t)' = (IF tasks'[t].kind = "compare" THEN "compare" ELSE "apply")
  BY DEF Purpose
<1>c. /\ \A t \in TaskId : tasks[t].launch # 0 =>
           tasks[t].kind # "compare" /\ button = [at |-> "applying", launch |-> tasks[t].launch]
      /\ \A t, u \in TaskId : tasks[t].launch # 0 /\ tasks[u].launch # 0 => t = u
      /\ \A t \in TaskId : tasks[t].at \in AtRun =>
           /\ engine.active.launch = tasks[t].launch
           /\ engine.active.purpose = (IF tasks[t].kind = "compare" THEN "compare" ELSE "apply")
      /\ engine.active = NoRun \/ \E t \in TaskId : tasks[t].at \in AtRun
      /\ button.at # "idle" => engine.pending = NoLaunch \/ engine.pending.id = button.launch
  BY <1>a DEF Buttons
<1> SUFFICES
      /\ \A t \in TaskId : tasks'[t].launch # 0 =>
           tasks'[t].kind # "compare" /\ button' = [at |-> "applying", launch |-> tasks'[t].launch]
      /\ \A t, u \in TaskId : tasks'[t].launch # 0 /\ tasks'[u].launch # 0 => t = u
      /\ \A t \in TaskId : tasks'[t].at \in AtRun =>
           /\ engine'.active.launch = tasks'[t].launch
           /\ engine'.active.purpose = (IF tasks'[t].kind = "compare" THEN "compare" ELSE "apply")
      /\ engine'.active = NoRun \/ \E t \in TaskId : tasks'[t].at \in AtRun
      /\ button'.at # "idle" => engine'.pending = NoLaunch \/ engine'.pending.id = button'.launch
  BY <1>b DEF Buttons
<1>1. CASE Reserve
  <2>1. /\ engine.active = NoRun /\ engine'.active = NoRun /\ button.at = "idle" /\ tasks' = tasks
        /\ engine'.pending.id = button'.launch
    BY <1>0, <1>1, ReserveMoves
  <2>2. \A t \in TaskId : tasks[t].launch = 0 BY <1>c, <2>1
  <2>3. \A t \in TaskId : tasks[t].at \notin AtRun
    <3>1. NoRun.id = 0 BY DEF NoRun
    <3> QED BY <2>1, <3>1 DEF Inv, RunsAgree
  <2> QED BY <2>1, <2>2, <2>3
<1>2. CASE BesideActions
  <2>1. tasks' = tasks BY <1>2, BesideTasks
  <2>2. /\ engine'.active.launch = engine.active.launch /\ engine'.active.purpose = engine.active.purpose
        /\ engine.active = NoRun => engine'.active = NoRun
        /\ \/ engine'.pending \in {engine.pending, NoLaunch}
           \/ engine'.pending.id = engine.pending.id /\ engine.pending.id # 0
    BY <1>0, <1>2, BesideStep DEF Beside
  <2>3. \A t \in TaskId : tasks[t].launch # 0 => button' = button
    <3>1. SUFFICES ASSUME NEW t \in TaskId, tasks[t].launch # 0 PROVE button' = button OBVIOUS
    <3>2. button.at = "applying" /\ button.launch = tasks[t].launch BY <1>c, <3>1
    <3>3. OpenerServes BY DEF Inv
    <3> QED BY <1>0, <1>2, <3>2, <3>3, ButtonMoves
  <2>4. button'.at # "idle" => button.at # "idle" /\ button'.launch = button.launch
    BY <1>0, <1>2, ButtonMoves DEF Inv
  <2>5. engine.pending # NoLaunch \/ engine.pending.id = 0 BY DEF NoLaunch
  <2> QED BY <1>c, <2>1, <2>2, <2>3, <2>4, <2>5
<1>3. CASE \E t \in TaskId : TaskStep(t) \/ AskToApply(t)
  <2>1. PICK t \in TaskId : TaskStep(t) \/ AskToApply(t) BY <1>3
  <2>2. \A u \in TaskId \ {t} : tasks'[u] = tasks[u] BY <1>0, <2>1, CommandMoves
  <2>3. \/ AskToApply(t) /\ button.at = "opened" /\ tasks'[t].kind = "apply"
           /\ button' = [at |-> "applying", launch |-> tasks'[t].launch]
        \/ ~AskToApply(t) /\ button' = button
    <3>1. CASE AskToApply(t)
      <4>1. tasks[t] = NoTask BY <3>1 DEF AskToApply, TakeLease
      <4>2. ~StartRun(t) /\ ~Refuse(t) /\ ~Panics(t) /\ tasks[t].at \notin {"running", "summed"}
        BY <4>1 DEF StartRun, Refuse, Panics, NoTask
      <4>3. button.at = "opened" /\ button'.at = "applying"
        BY <1>0, <3>1 DEF AskToApply, OpTypeOK, ButtonType
      <4>4. ~End(t) BY <4>1 DEF End, NoTask
      <4> QED BY <1>0, <3>1, <4>2, <4>3, <4>4, CommandMoves
    <3> QED BY <1>0, <2>1, <3>1, CommandMoves
  <2>4. AskToApply(t) => \A u \in TaskId : tasks[u].launch = 0
    BY <1>c, <2>3
  <2>5. \/ AskToApply(t) \/ tasks'[t].launch = 0
        \/ tasks'[t].launch = tasks[t].launch /\ tasks'[t].kind = tasks[t].kind
    BY <1>0, <2>1, LaunchMoves
  <2>6. \A u \in TaskId : tasks'[u].launch # 0 =>
          tasks'[u].kind # "compare" /\ button' = [at |-> "applying", launch |-> tasks'[u].launch]
    BY <1>c, <2>2, <2>3, <2>4, <2>5
  <2>7. \A u, v \in TaskId : tasks'[u].launch # 0 /\ tasks'[v].launch # 0 => u = v
    BY <1>c, <2>2, <2>4, <2>5
  <2>8. /\ \/ engine'.active = engine.active /\ (tasks'[t].at \in AtRun <=> tasks[t].at \in AtRun)
           \/ StartRun(t) /\ engine.active = NoRun
           \/ engine'.active = NoRun /\ tasks[t].at \in AtRun /\ tasks'[t].at \notin AtRun
        /\ tasks[t].at \in AtRun /\ tasks'[t].at \in AtRun =>
             tasks'[t].launch = tasks[t].launch /\ tasks'[t].kind = tasks[t].kind
    BY <2>1, AtRunMoves
  <2>9. /\ \A u \in TaskId : tasks'[u].at \in AtRun =>
             /\ engine'.active.launch = tasks'[u].launch
             /\ engine'.active.purpose = (IF tasks'[u].kind = "compare" THEN "compare" ELSE "apply")
        /\ engine'.active = NoRun \/ \E u \in TaskId : tasks'[u].at \in AtRun
    <3>1. CASE engine'.active = engine.active /\ (tasks'[t].at \in AtRun <=> tasks[t].at \in AtRun)
      BY <1>c, <2>2, <2>8, <3>1
    <3>2. CASE StartRun(t) /\ engine.active = NoRun
      <4>1. \A u \in TaskId : tasks[u].at \notin AtRun BY <3>2 DEF Inv, RunsAgree, NoRun
      <4>2. tasks'[t].at = "running" /\ tasks'[t].launch = tasks[t].launch /\ tasks'[t].kind = tasks[t].kind
            /\ engine'.active.launch = tasks[t].launch /\ engine'.active.purpose = Purpose(t)
        BY <1>0, <3>2, StartMoves
      <4> QED BY <1>a, <2>2, <4>1, <4>2 DEF AtRun
    <3>3. CASE engine'.active = NoRun /\ tasks[t].at \in AtRun /\ tasks'[t].at \notin AtRun
      <4>1. \A u \in TaskId \ {t} : tasks[u].at \notin AtRun BY <3>3 DEF Inv, RunsAgree
      <4> QED BY <2>2, <3>3, <4>1
    <3> QED BY <2>8, <3>1, <3>2, <3>3
  <2>10. button'.at # "idle" => engine'.pending = NoLaunch \/ engine'.pending.id = button'.launch
    <3>1. button.at # "idle" /\ button'.at # "idle" => button'.launch = button.launch
      BY <1>0, <2>1, <2>3, CommandMoves DEF AskToApply, OpTypeOK, ButtonType
    <3>2. button'.at # "idle" => button.at # "idle" BY <2>3
    <3>3. ~Reserve
      <4>1. Reserve => opener' # opener
        BY <1>0, ReserveMoves DEF Inv, OpenerServes, NotOpening
      <4> QED BY <1>0, <2>1, <4>1, CommandMoves
    <3>4. engine'.pending = NoLaunch \/ (engine'.pending.id = engine.pending.id /\ engine.pending.id # 0)
      BY <3>3, PendingMoves
    <3>5. engine.pending # NoLaunch \/ engine.pending.id = 0 BY DEF NoLaunch
    <3> QED BY <1>c, <3>1, <3>2, <3>4, <3>5
  <2> QED BY <2>6, <2>7, <2>9, <2>10
<1> QED BY <1>1, <1>2, <1>3, Kinds

\* While an event of a command goes out, no launch is pending afterwards.
LEMMA EmissionsEndLaunches ==
  ASSUME Inv, Buttons, NEW t \in TaskId, TaskStep(t) \/ AskToApply(t)
  PROVE  \/ inbox' = inbox
         \/ /\ engine'.pending = NoLaunch /\ tasks[t].at # "idle"
            /\ StartRun(t) \/ tasks[t].at \in AtRun \/ tasks[t].launch # 0
            /\ \E e : e.kind # "arm" /\ Emit(e) /\ (StartRun(t) => e.kind = "run")
<1>0. OpTypeOK BY DEF Inv
<1>1. CASE StartRun(t)
  <2>1. inbox' = inbox \/ Emit(Event("run", engine.lastRun + 1, FALSE)) BY <1>0, <1>1, StartMoves
  <2>2. Event("run", engine.lastRun + 1, FALSE).kind = "run" BY DEF Event
  <2> QED BY <1>0, <1>1, <2>1, <2>2, StartMoves
<1>2. CASE Refuse(t) \/ Panics(t) \/ End(t)
  <2> DEFINE l == tasks[t].launch
  <2>1. inbox' = inbox \/ (l # 0 /\ ~End(t) /\ Emit(Event("rejected", l, FALSE)))
    BY <1>0, <1>2, FailMoves
  <2>2. CASE l # 0 /\ ~End(t) /\ Emit(Event("rejected", l, FALSE))
    <3>1. button.at = "applying" /\ button.launch = l BY <2>2 DEF Buttons
    <3>2. engine.pending = NoLaunch \/ HoldsLaunch(l) BY <2>2, <3>1 DEF Buttons, HoldsLaunch
    <3>3. engine'.pending = NoLaunch BY <1>0, <1>2, <2>2, <3>2, FailMoves
    <3>4. tasks[t].at # "idle" /\ Event("rejected", l, FALSE).kind = "rejected" /\ ~StartRun(t)
      <4>1. tasks[t] # NoTask BY <2>2 DEF NoTask
      <4>2. tasks[t].at # "idle" BY <4>1 DEF Inv, RunsAgree
      <4>3. tasks'[t] = NoTask BY <1>0, <1>2, FailMoves
      <4>4. ASSUME StartRun(t) PROVE FALSE
        <5>1. tasks'[t].at = "running" BY <1>0, <4>4, StartMoves
        <5> QED BY <4>3, <5>1 DEF NoTask
      <4> QED BY <4>2, <4>4 DEF Event
    <3> QED BY <2>2, <3>3, <3>4
  <2> QED BY <2>1, <2>2
<1>3. CASE tasks[t].at \in AtRun
  <2>1. engine.active # NoRun BY <1>3 DEF Inv, RunsAgree, NoRun
  <2>2. engine.pending = NoLaunch BY <2>1 DEF Inv, ActiveIsLast
  <2>3. tasks[t].at # "idle" /\ tasks[t] # NoTask /\ ~StartRun(t)
    <3>1. tasks[t].at # "idle" /\ tasks[t] # NoTask BY <1>3 DEF AtRun, NoTask
    <3>2. ASSUME StartRun(t) PROVE FALSE BY <1>0, <1>3, <3>2, StartMoves DEF AtRun
    <3> QED BY <3>1, <3>2
  <2>4. \A kind, id, clean : Event(kind, id, clean).kind = kind BY DEF Event
  <2>5. CASE \E clean \in BOOLEAN : engine' = engine /\ (inbox' = inbox \/ Emit(Event("summary", tasks[t].run, clean)))
    <3>1. PICK clean \in BOOLEAN : inbox' = inbox \/ Emit(Event("summary", tasks[t].run, clean)) BY <2>5
    <3> QED BY <1>3, <2>2, <2>3, <2>4, <2>5, <3>1
  <2>6. CASE engine'.pending = engine.pending /\ (inbox' = inbox \/ Emit(Event("ready", tasks[t].run, FALSE)))
    BY <1>3, <2>2, <2>3, <2>4, <2>6
  <2> QED BY <1>0, <1>2, <2>3, <2>5, <2>6, CommandMoves
<1>4. CASE tasks[t] = NoTask
  <2>1. tasks[t].at = "idle" BY <1>4 DEF NoTask
  <2> QED BY <1>0, <1>1, <1>2, <2>1, CommandMoves
<1> QED BY <1>0, <1>1, <1>2, <1>3, <1>4, CommandMoves DEF AtRun

LEMMA ReadiesStep ==
  ASSUME Inv, Closes, Closes', Buttons, Readies, ArmIsLast, OpNext
  PROVE  Readies'
<1>0. OpTypeOK /\ NoLaunch.id = 0 /\ NoLaunch.phase = "none" /\ NoPage.life = "none"
  BY DEF Inv, NoLaunch, NoPage
<1>c. /\ engine.closing => engine.pending = NoLaunch
      /\ Raised(page) => engine.closing
      /\ page.due = 0
      /\ engine'.closing => engine'.pending = NoLaunch
  BY DEF Closes
<1> SUFFICES ASSUME engine'.pending.phase = "ready"
             PROVE  /\ page'.life = "listening" /\ page'.pend = engine'.pending.id /\ inbox' = <<>>
                    /\ opener'.at = "idle" \/ (opener'.at = "armed" /\ opener'.signal)
  BY DEF Readies
<1>1. ~Reserve BY <1>0, ReserveMoves
<1>2. engine'.pending # NoLaunch BY <1>0
<1>3. ~engine'.closing BY <1>2, <1>c
<1>4. CASE \E t \in TaskId : TaskStep(t) \/ AskToApply(t)
  <2>1. PICK t \in TaskId : TaskStep(t) \/ AskToApply(t) BY <1>4
  <2>2. page' = page /\ opener' = opener BY <1>0, <2>1, CommandMoves
  <2>3. inbox' = inbox BY <1>2, <2>1, EmissionsEndLaunches
  <2>4. engine'.pending = engine.pending
    <3>1. ~StartRun(t) BY <1>0, <1>2, StartMoves
    <3>2. CASE Refuse(t) \/ Panics(t) \/ End(t) BY <1>0, <1>2, <3>2, FailMoves
    <3> QED BY <1>0, <2>1, <3>1, <3>2, CommandMoves
  <2> QED BY <2>2, <2>3, <2>4 DEF Readies
<1>5. CASE BesideActions /\ engine'.pending = engine.pending
  <2>1. /\ page.life = "listening" /\ page.pend = engine.pending.id /\ inbox = <<>>
        /\ opener.at = "idle" \/ (opener.at = "armed" /\ opener.signal)
    BY <1>5 DEF Readies
  <2>2. ~engine.closing /\ ~Raised(page) BY <1>0, <1>2, <1>5, <1>c
  <2>3. ~Receive BY <1>0, <2>1, ReceiveMoves
  <2>4. ~page.destroying BY <2>2 DEF Raised
  <2>5. ~BeginClose
    <3>1. ASSUME BeginClose PROVE FALSE
      <4> DEFINE e == [engine EXCEPT !.closing = TRUE, !.grant = 0, !.pending = NoLaunch]
      <4>1. engine \in EngineType BY <1>0 DEF OpTypeOK
      <4>2. CASE engine' = e BY <1>2, <4>1, <4>2 DEF EngineType
      <4>3. CASE engine' = [e EXCEPT !.active.cancel = TRUE] BY <1>2, <4>1, <4>3 DEF EngineType
      <4> QED BY <3>1, <4>2, <4>3 DEF BeginClose
    <3> QED BY <3>1
  <2>6. page' = page BY <1>0, <1>5, <1>c, <2>1, <2>2, <2>3, <2>4, <2>5, PageMoves
  <2>7. inbox' = inbox \/ inbox' = <<>> BY <1>0, <1>5, <2>1, <2>3, InboxMoves
  <2>8. opener'.at = "idle" \/ (opener'.at = "armed" /\ opener'.signal)
    <3>1. OpTypeOK' BY TypeStep DEF Inv
    <3>2. opener.signal \in BOOLEAN /\ opener'.signal \in BOOLEAN BY <1>0, <3>1 DEF OpTypeOK, OpenerType
    <3> QED BY <1>0, <1>5, <2>1, <3>2, OpenerMoves
  <2> QED BY <1>5, <2>1, <2>6, <2>7, <2>8
<1>6. CASE BesideActions /\ Receive /\ Head(inbox).kind = "arm" /\ HoldsLaunch(Head(inbox).id)
           /\ engine'.pending.id = engine.pending.id /\ opener'.at = "armed" /\ opener'.signal
  <2>1. /\ page'.life = "listening" /\ page'.pend = Head(inbox).id /\ inbox # <<>> /\ inbox' = Tail(inbox)
    BY <1>0, <1>6, ReceiveMoves
  <2>2. inbox \in Seq(EventSet) /\ Len(inbox) \in Nat \ {0} /\ Head(inbox) = inbox[1]
    BY <1>0, <2>1 DEF OpTypeOK
  <2>3. 1 = Len(inbox)
    <3>1. 1 \in 1..Len(inbox) BY <2>2
    <3>2. inbox[1].kind = "arm" /\ HoldsLaunch(inbox[1].id) BY <1>6, <2>2
    <3> QED BY <3>1, <3>2 DEF ArmIsLast
  <2>4. Tail(inbox) = <<>>
    <3>1. Tail(inbox) \in Seq(EventSet) /\ Len(Tail(inbox)) = 0 BY <2>1, <2>2, <2>3
    <3> QED BY <3>1, EmptySeq
  <2> QED BY <1>6, <2>1, <2>4 DEF HoldsLaunch
<1> QED BY <1>0, <1>1, <1>4, <1>5, <1>6, PhaseMoves, Kinds

LEMMA ArmIsLastStep ==
  ASSUME Inv, Buttons, ArmIsLast, OpNext
  PROVE  ArmIsLast'
<1>0. OpTypeOK /\ OpTypeOK' /\ NoLaunch.id = 0 BY TypeStep DEF Inv, NoLaunch
<1>a. inbox \in Seq(EventSet) /\ engine.lastLaunch \in Nat /\ engine.pending.id \in Nat
      /\ engine'.pending.id \in Nat /\ engine'.lastLaunch \in Nat /\ opener.launch \in Nat
  BY <1>0 DEF OpTypeOK, EngineType, OpenerType, LaunchIds
<1>b. /\ engine.pending.id <= engine.lastLaunch
      /\ \A i \in 1..Len(inbox) : inbox[i].kind = "arm" =>
           /\ inbox[i].id <= engine.lastLaunch
           /\ inbox[i].id # 0 /\ engine.pending.id = inbox[i].id =>
                i = Len(inbox) /\ opener.at \notin {"acquiring", "mounting", "arming"}
  BY DEF ArmIsLast, HoldsLaunch
<1>c. \A i \in 1..Len(inbox) : inbox[i].kind = "arm" => inbox[i].id \in Nat
  BY <1>a DEF EventSet, LaunchIds
<1> SUFFICES
      /\ engine'.pending.id <= engine'.lastLaunch
      /\ \A i \in 1..Len(inbox') : inbox'[i].kind = "arm" =>
           /\ inbox'[i].id <= engine'.lastLaunch
           /\ inbox'[i].id # 0 /\ engine'.pending.id = inbox'[i].id =>
                i = Len(inbox') /\ opener'.at \notin {"acquiring", "mounting", "arming"}
  BY DEF ArmIsLast, HoldsLaunch
<1>1. CASE Reserve
  <2>1. inbox' = inbox /\ engine'.pending.id = engine.lastLaunch + 1 /\ engine'.lastLaunch = engine.lastLaunch + 1
    BY <1>0, <1>1, ReserveMoves
  <2> QED BY <1>a, <1>b, <1>c, <2>1
<1>2. ASSUME ~Reserve
      PROVE  engine'.pending.id = 0 \/ engine'.pending.id = engine.pending.id
  BY <1>0, <1>2, PendingMoves
<1>3. CASE \E t \in TaskId : TaskStep(t) \/ AskToApply(t)
  <2>1. PICK t \in TaskId : TaskStep(t) \/ AskToApply(t) BY <1>3
  <2>2. opener' = opener /\ engine'.lastLaunch = engine.lastLaunch
    <3>1. CASE StartRun(t) BY <1>0, <2>1, <3>1, StartMoves, CommandMoves
    <3>2. CASE Refuse(t) \/ Panics(t) \/ End(t) BY <1>0, <2>1, <3>2, FailMoves, CommandMoves
    <3> QED BY <1>0, <2>1, <3>1, <3>2, CommandMoves
  <2>3. ~Reserve
    BY <1>0, <2>2, ReserveMoves, <1>a
  <2>4. CASE inbox' = inbox BY <1>a, <1>b, <1>2, <2>2, <2>3, <2>4
  <2>5. CASE engine'.pending = NoLaunch /\ \E e : e.kind # "arm" /\ Emit(e)
    <3>1. PICK e : e.kind # "arm" /\ Emit(e) BY <2>5
    <3>2. inbox' = inbox \/ inbox' = Append(inbox, e) BY <3>1 DEF Emit
    <3>3. CASE inbox' = Append(inbox, e)
      <4>1. Len(inbox') = Len(inbox) + 1 /\ inbox'[Len(inbox) + 1] = e
            /\ \A i \in 1..Len(inbox) : inbox'[i] = inbox[i]
        BY <1>a, <3>3
      <4>2. \A i \in 1..Len(inbox') : inbox'[i].kind = "arm" => i \in 1..Len(inbox)
        BY <1>a, <3>1, <4>1
      <4>3. engine'.pending.id = 0 BY <1>0, <2>5
      <4> QED BY <1>a, <1>b, <2>2, <4>1, <4>2, <4>3
    <3> QED BY <2>4, <3>2, <3>3
  <2> QED BY <2>1, <2>4, <2>5, EmissionsEndLaunches
<1>4. CASE BesideActions
  <2>1. engine'.lastLaunch = engine.lastLaunch BY <1>0, <1>4, CloseMoves
  <2>2. ~Reserve BY <1>0, <1>a, <2>1, ReserveMoves
  <2>3. opener'.at \in {"acquiring", "mounting", "arming"} => opener.at \in {"acquiring", "mounting", "arming"}
    BY <1>0, <1>4, OpenerMoves
  <2>4. engine'.pending.id <= engine'.lastLaunch BY <1>a, <1>b, <1>2, <2>1, <2>2
  <2>5. CASE inbox' = inbox BY <1>b, <1>2, <2>1, <2>2, <2>3, <2>4, <2>5
  <2>6. CASE inbox' = <<>> BY <2>4, <2>6
  <2>7. CASE Receive
    <3>1. inbox # <<>> /\ inbox' = Tail(inbox) BY <1>0, <2>7, ReceiveMoves
    <3>2. Len(inbox') = Len(inbox) - 1 /\ \A i \in 1..Len(inbox') : inbox'[i] = inbox[i + 1] /\ i + 1 \in 1..Len(inbox)
      BY <1>a, <3>1
    <3>3. SUFFICES ASSUME NEW i \in 1..Len(inbox'), inbox'[i].kind = "arm"
                   PROVE  /\ inbox'[i].id <= engine'.lastLaunch
                          /\ inbox'[i].id # 0 /\ engine'.pending.id = inbox'[i].id =>
                               i = Len(inbox') /\ opener'.at \notin {"acquiring", "mounting", "arming"}
      BY <2>4
    <3>4. inbox'[i] = inbox[i + 1] /\ i + 1 \in 1..Len(inbox) /\ i \in Nat BY <3>2, <1>a
    <3>5. inbox[i + 1].id <= engine.lastLaunch
          /\ (inbox[i + 1].id # 0 /\ engine.pending.id = inbox[i + 1].id =>
                 i + 1 = Len(inbox) /\ opener.at \notin {"acquiring", "mounting", "arming"})
      BY <1>b, <3>3, <3>4
    <3>6. i + 1 = Len(inbox) => i = Len(inbox') BY <1>a, <3>2, <3>4
    <3> QED BY <1>2, <2>1, <2>2, <2>3, <3>4, <3>5, <3>6
  <2>8. CASE /\ opener.at = "arming" /\ HoldsLaunch(opener.launch) /\ opener'.at = "armed"
             /\ inbox' = Append(inbox, Event("arm", opener.launch, FALSE))
    <3> DEFINE e == Event("arm", opener.launch, FALSE)
    <3>1. e.id = opener.launch BY DEF Event
    <3>2. Len(inbox') = Len(inbox) + 1 /\ inbox'[Len(inbox) + 1] = e
          /\ \A i \in 1..Len(inbox) : inbox'[i] = inbox[i]
      <4>1. inbox' = Append(inbox, e) BY <2>8
      <4> HIDE DEF e
      <4> QED BY <1>a, <4>1
    <3>3. opener.launch # 0 /\ engine.pending.id = opener.launch BY <2>8 DEF HoldsLaunch
    <3>4. \A i \in 1..Len(inbox) : inbox'[i].kind = "arm" =>
            inbox'[i].id <= engine'.lastLaunch /\ ~(inbox'[i].id # 0 /\ engine'.pending.id = inbox'[i].id)
      BY <1>b, <1>2, <2>1, <2>2, <2>8, <3>2
    <3>5. \A i \in 1..Len(inbox') : i \in 1..Len(inbox) \/ i = Len(inbox')
      BY <1>a, <3>2
    <3>6. inbox'[Len(inbox')].id <= engine'.lastLaunch BY <1>b, <2>1, <3>1, <3>2, <3>3
    <3> QED BY <2>4, <2>8, <3>4, <3>5, <3>6
  <2> QED BY <1>0, <1>4, <2>5, <2>6, <2>7, <2>8, InboxMoves
<1> QED BY <1>1, <1>3, <1>4, Kinds

LEMMA RunIsWatchedStep ==
  ASSUME Inv, Closes, Closes', Buttons, Buttons', Readies, RunIsWatched, OpNext
  PROVE  RunIsWatched'
<1>0. OpTypeOK /\ NoLaunch.id = 0 /\ NoPage.life = "none"
  BY DEF Inv, NoLaunch, NoPage
<1>a. inbox \in Seq(EventSet) BY <1>0 DEF OpTypeOK
<1> SUFFICES ASSUME NEW t \in TaskId, tasks'[t].at = "running", tasks'[t].launch # 0, ~engine'.active.cancel
             PROVE  /\ page'.life = "listening" /\ page'.pend = tasks'[t].launch
                    /\ \A i \in 1..Len(inbox') : inbox'[i].kind = "run"
  BY DEF RunIsWatched, Watches
<1>b. ASSUME tasks[t].at = "running", tasks[t].launch # 0, ~engine.active.cancel
      PROVE  /\ page.life = "listening" /\ page.pend = tasks[t].launch
             /\ \A i \in 1..Len(inbox) : inbox[i].kind = "run"
  BY <1>b DEF RunIsWatched, Watches
<1>c. ASSUME tasks[t].at = "running" PROVE engine.active # NoRun /\ engine.pending = NoLaunch
  <2>1. engine.active.id # 0 BY <1>c DEF Inv, RunsAgree, AtRun
  <2> QED BY <2>1 DEF Inv, ActiveIsLast, NoRun
<1>1. CASE Reserve
  <2>1. tasks' = tasks /\ engine.active = NoRun BY <1>0, <1>1, ReserveMoves
  <2> QED BY <1>c, <2>1
<1>2. CASE \E u \in TaskId : TaskStep(u) \/ AskToApply(u)
  <2>1. PICK u \in TaskId : TaskStep(u) \/ AskToApply(u) BY <1>2
  <2>2. page' = page /\ \A v \in TaskId \ {u} : tasks'[v] = tasks[v] BY <1>0, <2>1, CommandMoves
  <2>3. CASE u = t
    <3>1. StartRun(t)
      <4>1. CASE Refuse(t) \/ Panics(t) \/ End(t)
        <5>1. tasks'[t] = NoTask BY <1>0, <4>1, FailMoves
        <5> QED BY <5>1 DEF NoTask
      <4> QED BY <1>0, <2>1, <2>3, <4>1, CommandMoves
    <3>2. /\ tasks'[t].launch = tasks[t].launch /\ engine.pending.id = tasks[t].launch /\ engine.pending.phase = "ready"
          /\ inbox' = inbox \/ Emit(Event("run", engine.lastRun + 1, FALSE))
      BY <1>0, <3>1, StartMoves
    <3>3. page.life = "listening" /\ page.pend = tasks'[t].launch /\ inbox = <<>> BY <3>2 DEF Readies
    <3> DEFINE e == Event("run", engine.lastRun + 1, FALSE)
    <3>4. e.kind = "run" BY DEF Event
    <3>5. inbox' = inbox \/ inbox' = Append(inbox, e) BY <3>2 DEF Emit
    <3> HIDE DEF e
    <3>6. CASE inbox' = Append(inbox, e)
      <4>1. Len(inbox') = 1 /\ inbox'[1] = e BY <1>a, <3>3, <3>6
      <4> QED BY <2>2, <3>3, <3>4, <4>1
    <3> QED BY <2>2, <3>3, <3>5, <3>6
  <2>4. CASE u # t
    <3>1. tasks'[t] = tasks[t] /\ engine.active # NoRun BY <1>c, <2>2, <2>4
    <3>2. tasks[u].launch = 0 /\ tasks[u].at \notin AtRun
      <4>1. tasks[t].at \in AtRun /\ tasks[t].launch # 0 BY <3>1 DEF AtRun
      <4> QED BY <2>4, <4>1 DEF Buttons, Inv, RunsAgree
    <3>3. ~StartRun(u) BY <1>0, <3>1, StartMoves
    <3>4. inbox' = inbox BY <2>1, <3>2, <3>3, EmissionsEndLaunches
    <3>5. engine'.active = engine.active BY <2>1, <3>2, <3>3, AtRunMoves
    <3> QED BY <1>b, <2>2, <3>1, <3>4, <3>5
  <2> QED BY <2>3, <2>4
<1>3. CASE BesideActions
  <2>1. tasks' = tasks BY <1>3, BesideTasks
  <2>2. ~engine.active.cancel BY <1>0, <1>3, CloseMoves
  <2>3. /\ page.life = "listening" /\ page.pend = tasks'[t].launch
        /\ \A i \in 1..Len(inbox) : inbox[i].kind = "run"
    BY <1>b, <2>1, <2>2
  <2>4. /\ tasks[t].at \in AtRun /\ tasks[t].launch # 0
        /\ engine.active.launch = tasks[t].launch /\ engine'.active.launch = tasks[t].launch
    BY <2>1 DEF Buttons, AtRun
  <2>5. ~engine.closing /\ ~engine'.closing BY <2>2, <2>4 DEF Closes
  <2>6. ~Raised(page) /\ ~page.destroying /\ page.due = 0 BY <2>5 DEF Closes, Raised
  <2>7. opener.at # "tearing"
    <3>1. button.at = "applying" BY <2>4 DEF Buttons
    <3> QED BY <3>1 DEF Inv, OpenerServes
  <2>8. ~BeginClose
    <3>1. ASSUME BeginClose PROVE FALSE
      <4> DEFINE e == [engine EXCEPT !.closing = TRUE, !.grant = 0, !.pending = NoLaunch]
      <4>1. engine \in EngineType BY <1>0 DEF OpTypeOK
      <4>2. CASE engine' = e BY <2>5, <4>1, <4>2 DEF EngineType
      <4>3. CASE engine' = [e EXCEPT !.active.cancel = TRUE] BY <2>5, <4>1, <4>3 DEF EngineType
      <4> QED BY <3>1, <4>2, <4>3 DEF BeginClose
    <3> QED BY <3>1
  <2>9. CASE Receive
    <3>1. /\ page'.life = "listening" /\ inbox # <<>> /\ inbox' = Tail(inbox)
          /\ (Head(inbox).kind = "run" => page'.pend = page.pend)
      BY <1>0, <2>9, ReceiveMoves
    <3>2. 1 \in 1..Len(inbox) /\ Head(inbox) = inbox[1] BY <1>a, <3>1
    <3>3. page'.pend = page.pend BY <2>3, <3>1, <3>2
    <3>4. \A i \in 1..Len(inbox') : inbox'[i] = inbox[i + 1] /\ i + 1 \in 1..Len(inbox) BY <1>a, <3>1
    <3> QED BY <2>3, <3>1, <3>3, <3>4
  <2>10. CASE ~Receive
    <3>1. page' = page BY <1>0, <1>3, <2>3, <2>6, <2>7, <2>8, <2>10, PageMoves
    <3>2. ~HoldsLaunch(opener.launch)
      BY <1>0, <1>c, <2>1 DEF HoldsLaunch
    <3>3. inbox' = inbox \/ inbox' = <<>> BY <1>0, <1>3, <2>10, <3>2, InboxMoves
    <3> QED BY <2>3, <3>1, <3>3
  <2> QED BY <2>9, <2>10
<1> QED BY <1>1, <1>2, <1>3, Kinds

LEMMA WatchedStep ==
  ASSUME Watched, [OpNext]_opVars, Prompt, ~AutoClose
  PROVE  Watched'
<1>1. CASE OpNext
  <2>1. Inv' BY TypeStep, RunsStep, OwnerStep, MutationStep, ClosingStep, StopStep DEF Watched, Inv
  <2>2. Closes' BY <1>1, ClosesStep DEF Watched
  <2>3. Buttons' BY <1>1, ButtonsStep DEF Watched
  <2> QED BY <1>1, <2>1, <2>2, <2>3, ReadiesStep, ArmIsLastStep, RunIsWatchedStep DEF Watched
<1>2. CASE UNCHANGED opVars
  <2>1. Inv' BY TypeStep, RunsStep, OwnerStep, MutationStep, ClosingStep, StopStep DEF Watched, Inv
  <2>2. UNCHANGED <<engine, tasks, opener, button, givenBack, recorded, page, inbox, settling, asked, silent, bound>>
    BY <1>2 DEF opVars
  <2> QED BY <2>1, <2>2 DEF Watched, Closes, Buttons, Readies, ArmIsLast, RunIsWatched, Watches, Raised, Purpose, HoldsLaunch
<1> QED BY <1>1, <1>2

LEMMA WatchedFirst == OpInit => Watched
<1> SUFFICES ASSUME OpInit PROVE Watched OBVIOUS
<1>1. Inv BY Initially
<1>2. \A t \in TaskId : tasks[t] = NoTask BY DEF OpInit
<1>3. engine.active = NoRun /\ engine.pending = NoLaunch /\ ~engine.closing /\ engine.lastLaunch = 0
      /\ opener = NotOpening /\ page = NoPage /\ inbox = <<>> /\ button.at = "idle" /\ ~settling
  BY DEF OpInit
<1> QED BY <1>1, <1>2, <1>3
     DEF Watched, Closes, Buttons, Readies, ArmIsLast, RunIsWatched, AtRun, NoTask, NoRun, NoLaunch, NoPage,
         NotOpening, Raised

\* No interactive apply writes without a window that waits for it or shows it, unless it was told
\* to stop (progress_launch.rs, progress_window.rs). That a run does not close its window by
\* itself is the default of the preference; that a removed window's close is settled before the
\* next launch is an assumption, without which the claim fails.
THEOREM RunsAreWatched == (Prompt /\ ~AutoClose) /\ OpSpec => []NoHeadlessApply
<1>1. ASSUME Prompt, ~AutoClose, Watched, [OpNext]_opVars PROVE Watched'
  BY <1>1, WatchedStep
<1>2. Watched => NoHeadlessApply
  BY DEF Watched, RunIsWatched, Watches, NoHeadlessApply
<1>3. CASE Prompt /\ ~AutoClose
  <2>1. Watched /\ [OpNext]_opVars => Watched' BY <1>1, <1>3
  <2> QED BY <1>2, <2>1, WatchedFirst, PTL DEF OpSpec
<1> QED BY <1>3
=============================================================================
