------------------------------ MODULE Operations ------------------------------
(***************************************************************************)
(* Who may start, watch, stop and follow up a run on the desktop: the run  *)
(* lifecycle of the backend, the command that opens the progress window,   *)
(* the Apply button of the main window, the commands that run, and the     *)
(* progress window, which learns of all this by events and is late.        *)
(*                                                                         *)
(* The lifecycle decides under one lock, so each of its decisions is one   *)
(* step; everything between two decisions interleaves.  Of the desktop     *)
(* shell it is assumed that a window is gone when destroy() returns, and   *)
(* with it the calls it made; that events come in the order they were      *)
(* sent; that a plain command is served when it is invoked (a window that  *)
(* acts late is one that read its events late), and an async command, the  *)
(* one that destroys the window, whenever a thread takes it.               *)
(***************************************************************************)
EXTENDS Naturals, Sequences, FiniteSets

CONSTANTS
  AutoClose, \* the preference of that name
  Prompt,    \* assumed: destroy_progress_window settles before a person asks for a new launch
  MaxTasks,  \* bound: commands at work at once
  Bounds     \* bounds: commands at once, launches of the window and runs, by scenario

ASSUME OperationsAssumption ==
  /\ AutoClose \in BOOLEAN /\ Prompt \in BOOLEAN /\ MaxTasks \in Nat
  /\ Bounds \subseteq [tasks : 0..MaxTasks, launches : Nat, runs : Nat]

VARIABLES
  engine,    \* LifecycleState, without the count of the commands
  tasks,     \* the commands that hold a lease, and the run each started
  opener,    \* open_progress_window
  button,    \* the Apply of the main window
  givenBack, \* launches the main window gives back, whenever that is served
  recorded,  \* RunEventRepository: the last run, and how it ended
  page,      \* the progress window
  inbox,     \* the events sent to it
  settling,  \* destroy_progress_window removed the window, and has its close to settle
  asked,     \* history: the runs a person asked to stop, until they end
  silent,    \* history: runs that panicked unattended, or before the window was there
  bound      \* the bounds of this scenario

engineVars == <<engine, recorded>>
pageVars == <<page, inbox>>
mainVars == <<opener, button, givenBack>>
rest == <<settling, asked, silent, bound>>
opVars == <<engine, tasks, opener, button, givenBack, recorded, page, inbox,
            settling, asked, silent, bound>>

TaskId == 1..MaxTasks
NoRun == [id |-> 0, purpose |-> "none", launch |-> 0, cancel |-> FALSE]
NoLaunch == [id |-> 0, phase |-> "none"]
NoTask == [kind |-> "none", at |-> "idle", launch |-> 0, run |-> 0, clean |-> FALSE]
NotOpening == [at |-> "idle", launch |-> 0, signal |-> FALSE]
NoPage == [life |-> "none", launch |-> 0, pend |-> 0, after |-> 0, shown |-> 0,
           running |-> FALSE, ended |-> "no", closeAfter |-> FALSE, ready |-> 0, due |-> 0,
           destroying |-> FALSE, close |-> "no"]
\* page.destroying: the window asked for its own destruction, and was not refused.

OpInit ==
  /\ engine = [active |-> NoRun, pending |-> NoLaunch, closing |-> FALSE, mutating |-> FALSE,
               grant |-> 0, lastRun |-> 0, lastLaunch |-> 0]
  /\ tasks = [t \in TaskId |-> NoTask] /\ opener = NotOpening
  /\ button = [at |-> "idle", launch |-> 0] /\ givenBack = {}
  /\ recorded = [purpose |-> "none", ended |-> "no"]
  /\ page = NoPage /\ inbox = <<>>
  /\ settling = FALSE /\ asked = {} /\ silent = {} /\ bound \in Bounds

(*************************** the run lifecycle ******************************)
Commands == {t \in TaskId : tasks[t] # NoTask}
IsBusy ==
  engine.active # NoRun \/ engine.pending # NoLaunch \/ Commands # {} \/ engine.mutating
HoldsLaunch(l) == l # 0 /\ engine.pending.id = l
CancelLaunch(e, l) == IF l # 0 /\ e.pending.id = l THEN [e EXCEPT !.pending = NoLaunch] ELSE e

Emit(e) == inbox' = IF page.life = "listening" THEN Append(inbox, e) ELSE inbox
Event(kind, id, clean) == [kind |-> kind, id |-> id, clean |-> clean]

\* with_idle_mutation, around a save of jobs or settings.
MutateLeased ==  \* mutant: a mutation looks at the runs only
  /\ engine.active = NoRun /\ engine.pending = NoLaunch /\ ~engine.mutating
  /\ engine' = [engine EXCEPT !.mutating = TRUE]
  /\ UNCHANGED <<tasks, recorded, mainVars, pageVars, rest>>

BeginMutation ==
  /\ ~IsBusy /\ engine' = [engine EXCEPT !.mutating = TRUE]
  /\ UNCHANGED <<tasks, recorded, mainVars, pageVars, rest>>

EndMutation ==
  /\ engine.mutating /\ engine' = [engine EXCEPT !.mutating = FALSE]
  /\ UNCHANGED <<tasks, recorded, mainVars, pageVars, rest>>

(******************************* the commands *******************************)
\* command_lease; commands have no identity, so the first idle one is taken.
TakeLease(t, kind, launch) ==
  /\ ~engine.mutating
  /\ t <= bound.tasks /\ tasks[t] = NoTask /\ \A u \in TaskId : u < t => tasks[u] # NoTask
  /\ tasks' = [tasks EXCEPT ![t] = [NoTask EXCEPT !.kind = kind, !.at = "leased",
                                                  !.launch = launch]]

\* A compare or an unattended apply (a review is a compare that is refused).
Invoke(t, kind) ==
  /\ TakeLease(t, kind, 0)
  /\ UNCHANGED <<engineVars, mainVars, pageVars, rest>>

Purpose(t) == IF tasks[t].kind = "compare" THEN "compare" ELSE "apply"

\* start_run, with the launch of an interactive apply or without one.
Admits(launch) ==
  /\ engine.active = NoRun /\ engine.lastRun < bound.runs
  /\ IF launch # 0 THEN HoldsLaunch(launch) /\ engine.pending.phase = "ready"
     ELSE engine.pending = NoLaunch

StartRun(t) ==
  LET r == engine.lastRun + 1
      apply == Purpose(t) = "apply" IN
  /\ tasks[t].at = "leased" /\ Admits(tasks[t].launch)
  /\ tasks' = [tasks EXCEPT ![t].at = "running", ![t].run = r]
  /\ engine' = [engine EXCEPT
                 !.active = [id |-> r, purpose |-> Purpose(t), launch |-> tasks[t].launch,
                             cancel |-> FALSE],
                 !.pending = NoLaunch, !.grant = 0, !.lastRun = r]
  /\ recorded' = [purpose |-> Purpose(t), ended |-> "no"]
  /\ IF apply THEN Emit(Event("run", r, FALSE)) ELSE UNCHANGED inbox
  /\ UNCHANGED <<mainVars, page, rest>>

\* A command is refused before its run began; whoever still owns the launch says so.
Refuse(t) ==
  LET l == tasks[t].launch IN
  /\ tasks[t].at = "leased"
  /\ engine' = CancelLaunch(engine, l)
  /\ tasks' = [tasks EXCEPT ![t] = NoTask]
  /\ IF HoldsLaunch(l) THEN Emit(Event("rejected", l, FALSE)) ELSE UNCHANGED inbox
  /\ UNCHANGED <<recorded, mainVars, page, rest>>

\* It panics: the active run ends with the closure, and the launch is reported if there was one.
Panics(t) ==
  LET l == tasks[t].launch IN
  /\ tasks[t].at \in {"leased", "running"}
  /\ engine' = [CancelLaunch(engine, l) EXCEPT
                 !.active = IF tasks[t].at = "running" THEN NoRun ELSE @]
  /\ tasks' = [tasks EXCEPT ![t] = NoTask] /\ asked' = asked \ {tasks[t].run}
  /\ IF l # 0 THEN Emit(Event("rejected", l, FALSE)) ELSE UNCHANGED inbox
  /\ silent' = IF l = 0 THEN silent \cup {tasks[t].run} ELSE silent
  /\ UNCHANGED <<recorded, mainVars, page, settling, bound>>

\* The one Summary of a run; a cancellation up to here is in it.
Summarize(t, clean) ==
  /\ tasks[t].at = "running" /\ (clean => ~engine.active.cancel)
  /\ tasks' = [tasks EXCEPT ![t].at = "summed", ![t].clean = clean]
  /\ recorded' = [recorded EXCEPT !.ended = IF clean THEN "clean" ELSE "bad"]
  /\ IF Purpose(t) = "apply" THEN Emit(Event("summary", tasks[t].run, clean))
     ELSE UNCHANGED inbox
  /\ UNCHANGED <<engine, mainVars, page, rest>>

\* A clean interactive apply authorizes one power action, and offers it.
Grant(t) ==
  /\ tasks[t].at = "summed" /\ tasks' = [tasks EXCEPT ![t].at = "over"]
  /\ \/ /\ tasks[t].launch # 0 /\ tasks[t].clean
        /\ engine' = [engine EXCEPT !.grant = tasks[t].run]
        /\ Emit(Event("ready", tasks[t].run, FALSE))
     \/ UNCHANGED <<engine, inbox>>  \* it wrote nothing, or the offer could not be sent
  /\ UNCHANGED <<recorded, mainVars, page, rest>>

\* The lease of the run ends, and with it that of its command.
End(t) ==
  /\ tasks[t].at = "over" /\ tasks' = [tasks EXCEPT ![t] = NoTask]
  /\ engine' = [engine EXCEPT !.active = NoRun] /\ asked' = asked \ {tasks[t].run}
  /\ UNCHANGED <<recorded, mainVars, pageVars, settling, silent, bound>>

TaskStep(t) ==
  \/ \E kind \in {"compare", "apply"} : Invoke(t, kind)
  \/ StartRun(t) \/ Refuse(t) \/ Panics(t)
  \/ (\E clean \in BOOLEAN : Summarize(t, clean)) \/ Grant(t) \/ End(t)

(************************** the window is opened ****************************)
\* reserve_progress_launch, for the Apply button.
ReserveKeepsGrant ==  \* mutant: the power action of the last run stays authorized
  /\ button.at = "idle" /\ ~engine.closing /\ ~IsBusy /\ engine.lastLaunch < bound.launches
  /\ Prompt => ~settling
  /\ LET l == engine.lastLaunch + 1 IN
     /\ engine' = [engine EXCEPT !.lastLaunch = l, !.pending = [id |-> l, phase |-> "reserved"]]
     /\ opener' = [at |-> "acquiring", launch |-> l, signal |-> FALSE]
     /\ button' = [at |-> "opening", launch |-> l]
  /\ UNCHANGED <<tasks, givenBack, recorded, pageVars, rest>>

Reserve ==
  /\ button.at = "idle" /\ ~engine.closing /\ ~IsBusy /\ engine.lastLaunch < bound.launches
  /\ Prompt => ~settling
  /\ LET l == engine.lastLaunch + 1 IN
     /\ engine' = [engine EXCEPT !.lastLaunch = l, !.grant = 0,
                                 !.pending = [id |-> l, phase |-> "reserved"]]
     /\ opener' = [at |-> "acquiring", launch |-> l, signal |-> FALSE]
     /\ button' = [at |-> "opening", launch |-> l]
  /\ UNCHANGED <<tasks, givenBack, recorded, pageVars, rest>>

OpenerKeeps == UNCHANGED <<tasks, button, givenBack, recorded, rest>>
OpenerFails == opener' = [opener EXCEPT !.at = "failed"]

\* A window that is there is shown; else one is built, its mount channel first.
FindWindow ==
  /\ opener.at = "acquiring" /\ page.life # "none"
  /\ \/ opener' = [opener EXCEPT !.at = "arming"]
     \/ OpenerFails
  /\ UNCHANGED <<engine, pageVars>> /\ OpenerKeeps

BuildWindow ==
  /\ opener.at = "acquiring" /\ page.life = "none"
  /\ IF HoldsLaunch(opener.launch)
     THEN /\ engine' = [engine EXCEPT !.pending.phase = "awaitMount"]
          /\ \/ /\ page' = [NoPage EXCEPT !.life = "loading", !.launch = opener.launch]
                /\ opener' = [opener EXCEPT !.at = "mounting"]
             \/ UNCHANGED page /\ OpenerFails
     ELSE OpenerFails /\ UNCHANGED <<engine, page>>
  /\ UNCHANGED inbox /\ OpenerKeeps

\* A wait of five seconds for the webview; a signal already given counts.
Signalled ==
  /\ opener.at = "mounting" /\ opener.signal
  /\ opener' = [opener EXCEPT !.at = "arming", !.signal = FALSE]
  /\ UNCHANGED <<engine, pageVars>> /\ OpenerKeeps

TimesOut ==
  /\ opener.at \in {"mounting", "armed"} /\ ~opener.signal
  /\ opener' = [opener EXCEPT !.at = "tearing"]
  /\ UNCHANGED <<engine, pageVars>> /\ OpenerKeeps

\* The acknowledgement is prepared, then the window is told which launch it waits for.
Arm ==
  /\ opener.at = "arming"
  /\ IF HoldsLaunch(opener.launch)
     THEN /\ engine' = [engine EXCEPT !.pending.phase = "awaitAck"]
          /\ \/ Emit(Event("arm", opener.launch, FALSE)) /\ opener' = [opener EXCEPT !.at = "armed"]
             \/ UNCHANGED inbox /\ opener' = [opener EXCEPT !.at = "tearing"]
     ELSE opener' = [opener EXCEPT !.at = "tearing"] /\ UNCHANGED <<engine, inbox>>
  /\ UNCHANGED page /\ OpenerKeeps

\* The launch is the main window's, which asks for its run.
Opened ==
  /\ opener.at = "armed" /\ opener.signal
  /\ opener' = NotOpening /\ button' = [button EXCEPT !.at = "opened"]
  /\ UNCHANGED <<engineVars, tasks, givenBack, pageVars, rest>>

WindowIsGone == page' = NoPage /\ inbox' = <<>>
Settled(e) == [e EXCEPT !.closing = FALSE, !.grant = 0]

\* tear_down: the window goes, and with it the close it may have begun.
TearDown ==
  /\ opener.at = "tearing"
  /\ \/ WindowIsGone /\ opener' = [opener EXCEPT !.at = "settling"]
     \/ page.life # "none" /\ OpenerFails /\ UNCHANGED pageVars
  /\ UNCHANGED engine /\ OpenerKeeps

\* (Mutant: the window is only destroyed.)
SettleNothing ==
  /\ opener.at = "settling" /\ OpenerFails
  /\ UNCHANGED <<engine, pageVars>> /\ OpenerKeeps

SettleTearDown ==
  /\ opener.at = "settling" /\ OpenerFails /\ engine' = Settled(engine)
  /\ UNCHANGED pageVars /\ OpenerKeeps

Abandon ==
  /\ opener.at = "failed" /\ opener' = NotOpening
  /\ engine' = CancelLaunch(engine, opener.launch)
  /\ button' = [at |-> "idle", launch |-> 0]
  /\ UNCHANGED <<recorded, tasks, givenBack, pageVars, rest>>

OpenerStep ==
  \/ FindWindow \/ BuildWindow \/ Signalled \/ TimesOut \/ Arm
  \/ Opened \/ TearDown \/ SettleTearDown \/ Abandon

\* doSync: the run is asked for, and whatever became of it the launch is given back.
AskToApply(t) ==
  /\ button.at = "opened" /\ TakeLease(t, "apply", button.launch)
  /\ button' = [button EXCEPT !.at = "applying"]
  /\ UNCHANGED <<engineVars, opener, givenBack, pageVars, rest>>

GiveBack ==
  /\ \/ button.at = "opened" /\ engine.mutating
     \/ button.at = "applying" /\ \A t \in TaskId : tasks[t].launch # button.launch
  /\ givenBack' = givenBack \cup {button.launch}
  /\ button' = [at |-> "idle", launch |-> 0]
  /\ UNCHANGED <<engineVars, tasks, opener, pageVars, rest>>

Unreserve(l) ==
  /\ l \in givenBack /\ givenBack' = givenBack \ {l}
  /\ engine' = CancelLaunch(engine, l)
  /\ UNCHANGED <<recorded, tasks, opener, button, pageVars, rest>>

(************************** the progress window *****************************)
Watching == UNCHANGED <<recorded, tasks, button, givenBack, settling, bound>>
Unwatched == Watching /\ UNCHANGED silent
AsksToGo(p) == [p EXCEPT !.destroying = TRUE]

\* report_progress_window_mounted and acknowledge_progress_launch: somebody must wait.
Signals(l, at, phase, next) ==
  IF HoldsLaunch(l) /\ engine.pending.phase = phase /\ opener.at = at /\ opener.launch = l
  THEN /\ engine' = [engine EXCEPT !.pending.phase = next]
       /\ opener' = [opener EXCEPT !.signal = TRUE]
  ELSE UNCHANGED <<engine, opener>>

\* The listeners are attached and the events of the last apply replayed.
Mount ==
  LET told == recorded.purpose = "apply" IN
  /\ page.life = "loading"
  /\ page' = [page EXCEPT !.life = "listening", !.launch = 0,
                          !.shown = IF told THEN engine.lastRun ELSE 0,
                          !.running = told /\ recorded.ended = "no",
                          !.ended = IF told THEN recorded.ended ELSE "no",
                          !.due = IF told /\ recorded.ended = "clean" /\ AutoClose
                                  THEN engine.lastRun ELSE 0]
  /\ silent' = IF told /\ recorded.ended = "no" /\ engine.active.id # engine.lastRun
               THEN silent \cup {engine.lastRun} ELSE silent
  /\ Signals(page.launch, "mounting", "awaitMount", "mounted")
  /\ UNCHANGED <<inbox, asked>> /\ Watching

\* armLaunch, handleRunProgressEvent and the listeners of the other events.
Outdated(r) == (page.pend # 0 /\ r <= page.after) \/ r < page.shown

Armed(p, l) ==
  [p EXCEPT !.pend = l, !.after = p.shown, !.running = FALSE, !.ended = "no",
            !.closeAfter = FALSE, !.due = 0, !.ready = 0]
Shows(p, r) ==
  IF r = p.shown THEN p
  ELSE [p EXCEPT !.shown = r, !.running = TRUE, !.ended = "no", !.due = 0,
                 !.ready = IF @ < r THEN 0 ELSE @]
Ends(p, clean) ==
  [p EXCEPT !.pend = 0, !.after = 0, !.destroying = @ \/ p.closeAfter, !.running = FALSE, !.ended = IF clean THEN "clean" ELSE "bad",
            !.due = IF clean /\ AutoClose /\ ~p.closeAfter THEN p.shown ELSE 0]
IsRejected(p) ==
  [p EXCEPT !.pend = 0, !.after = 0, !.shown = p.after, !.running = FALSE, !.ended = "no", !.ready = 0,
            !.due = 0, !.closeAfter = FALSE, !.destroying = @ \/ p.closeAfter]

Receive ==
  LET e == Head(inbox) IN
  /\ page.life = "listening" /\ inbox # <<>> /\ inbox' = Tail(inbox)
  /\ page' = CASE e.kind = "arm" -> Armed(page, e.id)
                [] e.kind = "run" -> IF Outdated(e.id) THEN page ELSE Shows(page, e.id)
                [] e.kind = "summary" ->
                     IF Outdated(e.id) THEN page ELSE Ends(Shows(page, e.id), e.clean)
                [] e.kind = "rejected" -> IF page.pend = e.id THEN IsRejected(page) ELSE page
                [] e.kind = "ready" ->
                     [page EXCEPT !.ready = IF e.id < page.shown THEN @ ELSE e.id]
  /\ IF e.kind = "arm" THEN Signals(e.id, "armed", "awaitAck", "ready")
     ELSE UNCHANGED <<engine, opener>>
  /\ UNCHANGED asked /\ Unwatched

\* A run that ended well closes its window 1.2 seconds later.
CloseByItself ==
  /\ page.life = "listening" /\ page.due # 0
  /\ page' = [page EXCEPT
               !.due = 0,
               !.destroying = @ \/ /\ page.due = page.shown /\ page.ended = "clean"
                                   /\ ~page.closeAfter]
  /\ UNCHANGED <<engine, opener, inbox, asked>> /\ Unwatched

\* A countdown after the run of this window; execute_post_run_power_action uses up the grant
\* when the action succeeds.
MaySleep ==
  /\ page.life = "listening" /\ ~AutoClose
  /\ page.ended = "clean" /\ ~page.running /\ page.ready = page.shown /\ page.shown # 0
  /\ engine.grant = page.shown

Sleep ==
  /\ MaySleep /\ engine' = [engine EXCEPT !.grant = 0]
  /\ UNCHANGED <<opener, page, inbox, asked>> /\ Unwatched

\* request_cancel: nothing runs, another run does, or this one is told.
ControlsAny(r) == engine.active.purpose = "apply"  \* mutant: whatever runs is stopped
Controls(r) == engine.active.id = r /\ engine.active.purpose = "apply"

RequestCancel(r) ==
  /\ engine' = IF Controls(r) THEN [engine EXCEPT !.active.cancel = TRUE] ELSE engine
  /\ asked' = IF engine.active.id = r THEN asked \cup {r} ELSE asked

Spins == page.running /\ page.ended = "no" /\ page.shown # 0

ClickStop ==
  /\ page.life = "listening" /\ Spins /\ RequestCancel(page.shown)
  /\ UNCHANGED <<opener, page, inbox>> /\ Unwatched

\* begin_progress_window_close, and its answer on the way to the window.
Answer(decision) == IF page.close = "tooLate" /\ decision = "nobody" THEN "nobodyAgain" ELSE decision

BeginCloseKeepsLaunch ==  \* mutant: a close only looks at the active run
  LET stops == engine.active.purpose = "apply"
      e == [engine EXCEPT !.closing = TRUE, !.grant = 0] IN
  /\ engine' = IF stops THEN [e EXCEPT !.active.cancel = TRUE] ELSE e
  /\ asked' = IF stops THEN asked \cup {engine.active.id} ELSE asked
  /\ page' = [page EXCEPT !.closeAfter = TRUE, !.due = 0,
                          !.close = Answer(IF ~stops THEN "nobody"
                                           ELSE IF page.shown = engine.active.id THEN "toldShown"
                                           ELSE "told")]

BeginClose ==
  LET waits == engine.pending # NoLaunch
      stops == ~waits /\ engine.active.purpose = "apply"
      e == [engine EXCEPT !.closing = TRUE, !.grant = 0, !.pending = NoLaunch] IN
  /\ engine' = IF stops THEN [e EXCEPT !.active.cancel = TRUE] ELSE e
  /\ asked' = IF stops THEN asked \cup {engine.active.id} ELSE asked
  /\ page' = [page EXCEPT !.closeAfter = TRUE, !.due = 0,
                          !.close = Answer(CASE waits -> "pending"
                                             [] stops /\ page.shown = engine.active.id -> "toldShown"
                                             [] stops /\ page.shown # engine.active.id -> "told"
                                             [] OTHER -> "nobody")]

\* The close button: the backend decides, the window goes later.
ClickClose ==
  /\ page.life = "listening" /\ page.close = "no" /\ ~page.destroying
  /\ BeginClose
  /\ UNCHANGED <<opener, inbox>> /\ Unwatched

\* What the window does with the answer.
Leaves(p) == page' = [AsksToGo(p) EXCEPT !.close = "no"]
Stays(p) == page' = [p EXCEPT !.close = "no"]

Answered ==
  LET p == [page EXCEPT !.closeAfter = TRUE] IN
  /\ page.life = "listening"
  /\ \/ /\ \/ page.close = "pending" /\ Leaves([p EXCEPT !.pend = 0, !.after = 0])
           \/ page.close = "toldShown" /\ IF page.ended # "no" THEN Leaves(p) ELSE Stays(p)
           \/ page.close \in {"told", "cancelled"} /\ Stays(p)
           \/ page.close = "nobody" /\ ~Spins /\ Leaves(p)
           \/ page.close = "nobodyAgain" /\ Leaves(p)
        /\ UNCHANGED <<engine, asked>>
     \/ /\ page.close = "nobody" /\ Spins /\ RequestCancel(page.shown)
        /\ page' = [p EXCEPT !.close = IF engine.active = NoRun THEN "tooLate" ELSE "cancelled"]
     \/ page.close = "tooLate" /\ BeginClose
  /\ UNCHANGED <<opener, inbox>> /\ Unwatched

\* destroy_progress_window: the window, then its close; a refusal leaves both.
ServeDestroy ==
  /\ page.destroying
  /\ \/ WindowIsGone /\ settling' = TRUE
     \/ page' = [page EXCEPT !.destroying = FALSE] /\ UNCHANGED <<inbox, settling>>
  /\ UNCHANGED <<engineVars, tasks, mainVars, asked, silent, bound>>

SettleClose ==
  /\ settling /\ settling' = FALSE /\ engine' = Settled(engine)
  /\ UNCHANGED <<tasks, mainVars, recorded, pageVars, asked, silent, bound>>

PageStep ==
  \/ Mount \/ Receive \/ CloseByItself \/ Sleep \/ ClickStop \/ ClickClose \/ Answered
  \/ ServeDestroy \/ SettleClose

OpNext ==
  \/ BeginMutation \/ EndMutation
  \/ \E t \in TaskId : TaskStep(t) \/ AskToApply(t)
  \/ Reserve \/ OpenerStep \/ GiveBack \/ \E l \in givenBack : Unreserve(l)
  \/ PageStep

OpSpec == OpInit /\ [][OpNext]_opVars
-----------------------------------------------------------------------------
Phases == {"none", "reserved", "awaitMount", "mounted", "awaitAck", "ready"}
RunIds == 0..bound.runs
LaunchIds == 0..bound.launches

EventSet ==
  [kind : {"arm", "rejected"}, id : LaunchIds, clean : BOOLEAN]
    \cup [kind : {"run", "summary", "ready"}, id : RunIds, clean : BOOLEAN]

EngineType ==
  [active : [id : RunIds, purpose : {"none", "compare", "apply"}, launch : LaunchIds,
             cancel : BOOLEAN],
   pending : [id : LaunchIds, phase : Phases],
   closing : BOOLEAN, mutating : BOOLEAN, grant : RunIds, lastRun : RunIds, lastLaunch : LaunchIds]

TaskType ==
  [kind : {"none", "compare", "apply"}, at : {"idle", "leased", "running", "summed", "over"},
   launch : LaunchIds, run : RunIds, clean : BOOLEAN]

OpenerType ==
  [at : {"idle", "acquiring", "mounting", "arming", "armed", "tearing", "settling", "failed"},
   launch : LaunchIds, signal : BOOLEAN]

ButtonType == [at : {"idle", "opening", "opened", "applying"}, launch : LaunchIds]
RecordedType == [purpose : {"none", "compare", "apply"}, ended : {"no", "clean", "bad"}]

PageType ==
  [life : {"none", "loading", "listening"}, launch : LaunchIds, pend : LaunchIds,
   after : RunIds, shown : RunIds, running : BOOLEAN, ended : {"no", "clean", "bad"},
   closeAfter : BOOLEAN, ready : RunIds, due : RunIds, destroying : BOOLEAN,
   close : {"no", "pending", "toldShown", "told", "nobody", "nobodyAgain", "cancelled",
            "tooLate"}]

\* Every variable of the operations has its type, identifiers within their space.
OpTypeOK ==
  /\ bound \in Bounds /\ engine \in EngineType /\ tasks \in [TaskId -> TaskType]
  /\ opener \in OpenerType /\ button \in ButtonType /\ recorded \in RecordedType
  /\ page \in PageType /\ inbox \in Seq(EventSet)
  /\ givenBack \subseteq LaunchIds /\ asked \subseteq RunIds /\ silent \subseteq RunIds
  /\ settling \in BOOLEAN

\* An interactive apply writes while a window waits for it or shows it, or it was told to stop:
\* "closing cannot start a headless sync" (useProgressWindowLifecycle.ts:135).
NoHeadlessApply ==
  \A t \in TaskId : tasks[t].at = "running" /\ tasks[t].launch # 0 =>
    \/ engine.active.cancel
    \/ page.life = "listening" /\ (page.pend = tasks[t].launch \/ page.shown = tasks[t].run)

\* While a close is not settled, something is there that will settle it; otherwise every later
\* Apply is refused until the program is restarted (progress_window.rs, tear_down).
ClosingIsSettled ==
  engine.closing => page.life # "none" \/ settling \/ opener.at = "settling"

\* A launch that is reserved is known to somebody who will use it or give it back; otherwise
\* every later run is refused (reserve_progress_launch, start_run).
LaunchHasAnOwner ==
  engine.pending # NoLaunch =>
    engine.pending.id \in {opener.launch, button.launch} \cup givenBack

\* While jobs or settings are saved nothing runs, prepares, or is about to be launched.
MutationIsAlone ==
  engine.mutating => engine.active = NoRun /\ engine.pending = NoLaunch /\ Commands = {}

\* The computer is put to sleep for the last run only, and while no launch waits.
PowerActionIsCurrent == MaySleep => engine.lastRun = page.shown /\ engine.pending = NoLaunch

\* A run is stopped because a person asked to stop that run, however late the window was.
StopHitsItsRun == engine.active.cancel => engine.active.id \in asked

\* A window that shows a run at work shows one that is, or its end is on the way: "without it a
\* refused run keeps spinning" (progress.rs:224). Exempt are a window that is being closed, and
\* a run that panicked where nothing tells this window: unattended, or before it was opened.
SpinnerEnds ==
  page.life = "listening" /\ Spins /\ ~page.closeAfter =>
    \/ page.shown = engine.active.id \/ page.shown \in silent
    \/ \E i \in 1..Len(inbox) :
         \/ inbox[i].kind = "summary" /\ inbox[i].id = page.shown
         \/ inbox[i].kind = "rejected" /\ inbox[i].id = page.pend
=============================================================================
